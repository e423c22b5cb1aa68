----------------------------- MODULE TeacherHome -----------------------------
(***************************************************************************)
(* The home page of a teacher (home/home_teacher.dart): the events of the  *)
(* clubs the teacher advises and of the school, the classes and the clubs. *)
(* Four loaders start in initState; each starts one task per document and  *)
(* waits for none.                                                         *)
(***************************************************************************)
EXTENDS PageData

VARIABLES
  now,       \* DateTime.now()
  main,      \* what getEventsDocuments waits for
  club,      \* what the events task of each club waits for
  events,
  listing,   \* what getClubDocuments waits for
  item,      \* and its task for each club
  clubsList,
  schedule,  \* what getClassDocuments waits for
  class,     \* and its task for each class
  classList,
  user,      \* what getUser waits for
  dirty,     \* setState was called since the last frame
  rows       \* the classes the last frame listed, 0 for the progress circle

eventVars == <<main, club, events>>
clubVars == <<listing, item, clubsList>>
classVars == <<schedule, class, classList>>
vars == <<now, eventVars, clubVars, classVars, user, dirty, rows>>

TypeOK ==
  /\ now \in 0..MaxNow
  /\ main \in {"activities", "nchs", "done"}
  /\ club \in [Clubs -> {"none", "doc", "events", "done"}]
  /\ events \in Seq(Events)
  /\ listing \in {"get", "done"}
  /\ item \in [Clubs -> {"none", "doc", "done"}]
  /\ clubsList \in Seq(ExistingClubs)
  /\ schedule \in {"get", "done"}
  /\ class \in [Classes -> {"none", "doc", "done"}]
  /\ classList \in Seq(ExistingClasses)
  /\ user \in {"get", "done"}
  /\ dirty \in BOOLEAN
  /\ rows \in Nat

Init ==
  /\ now = 0
  /\ main = "activities" /\ club = [c \in Clubs |-> "none"] /\ events = <<>>
  /\ listing = "get" /\ item = [c \in Clubs |-> "none"] /\ clubsList = <<>>
  /\ schedule = "get" /\ class = [k \in Classes |-> "none"] /\ classList = <<>>
  /\ user = "get" /\ dirty = FALSE /\ rows = 0

Tick ==
  /\ now < MaxNow
  /\ now' = now + 1
  /\ UNCHANGED <<eventVars, clubVars, classVars, user, dirty, rows>>

(* getUser: the first name is shown if the teacher has a document.         *)
GetUser ==
  /\ user = "get"
  /\ user' = "done"
  /\ dirty' \in {dirty, TRUE}
  /\ UNCHANGED <<now, eventVars, clubVars, classVars, rows>>

-----------------------------------------------------------------------------
(* getEventsDocuments: a task per club, none awaited.                      *)
GetActivities ==
  /\ main = "activities"
  /\ main' = "nchs"
  /\ club' = [c \in Clubs |-> "doc"]
  /\ UNCHANGED <<now, events, clubVars, classVars, user, dirty, rows>>

GetClub(c) ==
  /\ club[c] = "doc"
  /\ club' = [club EXCEPT ![c] = "events"]
  /\ UNCHANGED <<now, main, events, clubVars, classVars, user, dirty, rows>>

(* The events of a club, sorted in after each. For a club without a        *)
(* document the late variable of its name throws at the first use.         *)
GetClubEvents(c) ==
  LET batch == IF c \in ExistingClubs THEN Upcoming(EventsOf[c], now) ELSE {}
      threw == Upcoming(EventsOf[c], now) \ batch
  IN
  /\ club[c] = "events"
  /\ club' = [club EXCEPT ![c] = "done"]
  /\ \E q \in WithBatch(events, batch) :
       events' \in IF batch = {} THEN {q} ELSE Sorts(q, EndTime)
  /\ dirty' = (dirty \/ EventsOf[c] # threw)
  /\ UNCHANGED <<now, main, clubVars, classVars, user, rows>>

(* The events of the school, with a sort after each document.              *)
GetNchsEvents ==
  /\ main = "nchs"
  /\ main' = "done"
  /\ \E q \in WithBatch(events, Upcoming(NchsEvents, now)) :
       events' \in IF NchsEvents = {} THEN {q} ELSE Sorts(q, EndTime)
  /\ dirty' = (dirty \/ NchsEvents # {})
  /\ UNCHANGED <<now, club, clubVars, classVars, user, rows>>

-----------------------------------------------------------------------------
(* getClubDocuments: the clubs, each added in a setState.                  *)
GetClubs ==
  /\ listing = "get"
  /\ listing' = "done"
  /\ item' = [c \in Clubs |-> "doc"]
  /\ UNCHANGED <<now, eventVars, clubsList, classVars, user, dirty, rows>>

AddClub(c) ==
  /\ item[c] = "doc"
  /\ item' = [item EXCEPT ![c] = "done"]
  /\ IF c \in ExistingClubs
       THEN clubsList' = Append(clubsList, c) /\ dirty' = TRUE
       ELSE UNCHANGED <<clubsList, dirty>>
  /\ UNCHANGED <<now, eventVars, listing, classVars, user, rows>>

(* getClassDocuments: the classes, added outside of setState.              *)
GetClasses ==
  /\ schedule = "get"
  /\ schedule' = "done"
  /\ class' = [k \in Classes |-> "doc"]
  /\ UNCHANGED <<now, eventVars, clubVars, classList, user, dirty, rows>>

AddClass(k) ==
  /\ class[k] = "doc"
  /\ class' = [class EXCEPT ![k] = "done"]
  /\ classList' = IF k \in ExistingClasses THEN Append(classList, k) ELSE classList
  /\ UNCHANGED <<now, eventVars, clubVars, schedule, user, dirty, rows>>

(* build: the circle while there is no class, else the page.               *)
Frame ==
  /\ dirty
  /\ dirty' = FALSE
  /\ rows' = Len(classList)
  /\ UNCHANGED <<now, eventVars, clubVars, classVars, user>>

(* The Classes and Activities buttons: setState.                           *)
ShowClassesOrActivities ==
  /\ rows > 0 /\ ~dirty
  /\ dirty' = TRUE
  /\ UNCHANGED <<now, eventVars, clubVars, classVars, user, rows>>

ClubTask(c) == GetClub(c) \/ GetClubEvents(c)
EventLoader == GetActivities \/ GetNchsEvents

Next ==
  \/ Tick \/ GetUser \/ EventLoader \/ GetClubs \/ GetClasses \/ Frame
  \/ ShowClassesOrActivities
  \/ \E c \in Clubs : ClubTask(c) \/ AddClub(c)
  \/ \E k \in Classes : AddClass(k)

Spec == Init /\ [][Next]_vars

-----------------------------------------------------------------------------
(* The list is by end time at every moment of the loading, however the     *)
(* clubs and the school interleave.                                        *)
AlwaysByEndTime == ByEndTime(events)

(* No document is in the list twice.                                       *)
EventsOnlyOnce == OnlyOnce(events)

(* Every event of an existing club and of the school that does not end     *)
(* while the page loads is in the list.                                    *)
Complete == Upcoming(ClubEvents(Clubs) \cup NchsEvents, MaxNow) \subseteq Elems(events)
=============================================================================
