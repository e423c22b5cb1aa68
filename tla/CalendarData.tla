----------------------------- MODULE CalendarData -----------------------------
(***************************************************************************)
(* What the calendars of a teacher and of a student share: the clubs and   *)
(* their events when the model starts, and the events they may enter.      *)
(***************************************************************************)
EXTENDS EventData

CONSTANTS
  Clubs,          \* the ids that documents of clubs have or may have
  ExistingClubs,  \* those whose document exists
  Names,          \* the names a club may have
  NameOf,         \* the name in the document of a club
  DocumentOf,     \* the id made of a name: replaceAll(' ', '_').toLowerCase()
  Advised,        \* teachers/<me>/activities
  Joined,         \* students/<me>/activities
  StoredEvents,   \* activities/<c>/events when the model starts
  StoredPersonal, \* students/<me>/events when the model starts
  TeacherDrafts,  \* the events the teacher may enter (bounds them)
  StudentDrafts,  \* the events the student may enter (bounds them)
  Unset,          \* a variable that was not assigned
  MaxOpens        \* bound: calendar pages each of them builds

ASSUME CalendarAssumption ==
  /\ ExistingClubs \subseteq Clubs /\ Advised \subseteq Clubs /\ Joined \subseteq Clubs
  /\ NameOf \in [Clubs -> Names] /\ DocumentOf \in [Names -> Clubs]
  /\ StoredEvents \in [Clubs -> SUBSET Events]
  /\ StoredPersonal \subseteq Events
  /\ TeacherDrafts \subseteq Events \ NchsEvents
  /\ StudentDrafts \subseteq Events \ (StoredPersonal \cup NchsEvents)
  /\ Unset \notin Nat \cup Names
  /\ MaxOpens \in Nat \ {0}

(* The events the forms may enter are not in the database yet.             *)
ASSUME DraftsAreNew ==
  \A c \in Clubs : StoredEvents[c] \cap (TeacherDrafts \cup StudentDrafts) = {}
=============================================================================
