--------------------------- MODULE SchoolCalendars ---------------------------
(***************************************************************************)
(* A teacher who requests events and a student of the same clubs, with     *)
(* their calendars open at the same time. They share the clock and the     *)
(* events of the clubs in Firestore; each has a device of their own.       *)
(***************************************************************************)
EXTENDS CalendarData

VARIABLES now, clubEvents, personal
VARIABLES tOpens, tMain, tClub, tEvents, tHasLoaded, tForm, owned, clubsOwned
VARIABLES sOpens, sMain, sClub, sEvents, sHasLoaded, sForm

Teacher == INSTANCE TeacherCalendar WITH
  opens <- tOpens, main <- tMain, club <- tClub,
  events <- tEvents, hasLoaded <- tHasLoaded, form <- tForm

Student == INSTANCE StudentCalendar WITH
  opens <- sOpens, main <- sMain, club <- sClub,
  events <- sEvents, hasLoaded <- sHasLoaded, form <- sForm

teacherVars == <<tOpens, tMain, tClub, tEvents, tHasLoaded, tForm, owned, clubsOwned>>
studentVars == <<personal, sOpens, sMain, sClub, sEvents, sHasLoaded, sForm>>
vars == <<now, clubEvents, teacherVars, studentVars>>

Init == Teacher!Init /\ Student!Init

TeacherActs == Teacher!TeacherStep /\ UNCHANGED studentVars
StudentActs == Student!StudentStep /\ UNCHANGED teacherVars
Tick == Teacher!Tick /\ UNCHANGED studentVars

Next == TeacherActs \/ StudentActs \/ Tick

Spec == Init /\ [][Next]_vars
FairSpec == Spec /\ Teacher!Fairness /\ Student!Fairness

-----------------------------------------------------------------------------
(* The type invariants of the two devices.                                 *)
TypeOK == Teacher!TypeOK /\ Student!TypeOK

(* What a page awaits is complete when it is shown: the school's events    *)
(* and, for the student, the personal ones that are still to come. "when   *)
(* they have all been loaded" is right of these and not of the clubs'.     *)
AwaitedEventsShown == Teacher!AwaitedEventsShown /\ Student!AwaitedEventsShown

(* An event the teacher requested is in one document, whose id is made of  *)
(* the name of a club that exists and that the teacher advises, although   *)
(* the menu fills club by club.                                            *)
RequestedInOneClub == Teacher!RequestedInOneClub

(* "When you click submit, you will be redirected to the calendar page and *)
(* your event will be displayed": an event the student or the teacher      *)
(* submitted is in the calendar of its author in the end, unless it is     *)
(* over by then or the id made of the club's name is not its document's.   *)
SubmittedIsShown == Student!SubmittedIsShown /\ Teacher!RequestedIsShown

(* "This event will also be displayed on the students' end if they are a   *)
(* part of the activity": an event of a club of the student that is in the *)
(* database when the student's last page is built is in that page in the   *)
(* end, whoever wrote it and however the two devices interleave.           *)
SeenByStudents ==
  \A c \in Joined \cap ExistingClubs : \A e \in StoredEvents[c] \cup TeacherDrafts :
    (e \in clubEvents[c] /\ EndTime[e] > MaxNow /\ sMain = "activities" /\ sOpens = MaxOpens)
      ~> e \in Elems(sEvents)
-----------------------------------------------------------------------------
(* The instance that is model checked: a club the teacher advises and the  *)
(* student has joined, a club of the teacher whose document is missing, an *)
(* event to be requested by the teacher and one to be entered by the       *)
(* student.                                                                *)
MCEvents == {"rally", "open", "exam"}
MCStart == [rally |-> 0, open |-> 2, exam |-> 2]
MCEnd == [rally |-> 1, open |-> 2, exam |-> 2]
MCNameOf == [c \in Clubs |-> IF c = "chess" THEN "Chess" ELSE "Ghost"]
MCDocumentOf == [n \in Names |-> IF n = "Ghost" THEN "ghost" ELSE "chess"]
NoneStored == [c \in Clubs |-> {}]
=============================================================================
