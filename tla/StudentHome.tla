----------------------------- MODULE StudentHome -----------------------------
(***************************************************************************)
(* The home page of a student (home/home.dart).                            *)
(*                                                                         *)
(* initState starts three loaders that run interleaved. The clubs and the  *)
(* classes are loaded with docs.forEach((element) async {...}), which      *)
(* starts one task per document and waits for none of them. Each await is  *)
(* a state of a task. The widget is rebuilt in the frame after a setState; *)
(* a change made outside of setState is not seen until the next rebuild.   *)
(***************************************************************************)
EXTENDS PageData

VARIABLES
  now,        \* DateTime.now()
  main,       \* what getClubsAndEventsDocuments waits for
  club,       \* what the task of each club waits for
  clubList,
  events,
  late,       \* history: the clubs whose events came after the last sort
  schedule,   \* what getClassesDocuments waits for
  class,      \* what the task of each class waits for
  classList,
  user,       \* what getUser waits for
  dirty,      \* setState was called since the last frame
  rows,       \* the classes the last frame listed, 0 for the progress circle
  message     \* the Message button of a class: idle, waiting, page opened

clubVars == <<main, club, clubList, events, late>>
classVars == <<schedule, class, classList>>
vars == <<now, clubVars, classVars, user, dirty, rows, message>>

Idle == [step |-> "idle", index |-> 0, class |-> None, teacherOf |-> None]

TypeOK ==
  /\ now \in 0..MaxNow
  /\ main \in {"activities", "nchs", "personal", "done"}
  /\ club \in [Clubs -> {"none", "doc", "teacher", "events", "done"}]
  /\ clubList \subseteq ExistingClubs
  /\ events \in Seq(Events)
  /\ late \subseteq Clubs
  /\ schedule \in {"get", "done"}
  /\ class \in [Classes -> {"none", "doc", "teacher", "done"}]
  /\ classList \in Seq(ExistingClasses)
  /\ user \in {"get", "done"}
  /\ dirty \in BOOLEAN /\ rows \in Nat
  /\ message \in [step : {"idle", "wait", "open"}, index : Nat,
                  class : Classes \cup {None}, teacherOf : Classes \cup {None}]

Init ==
  /\ now = 0
  /\ main = "activities" /\ club = [c \in Clubs |-> "none"]
  /\ clubList = {} /\ events = <<>> /\ late = {}
  /\ schedule = "get" /\ class = [k \in Classes |-> "none"] /\ classList = <<>>
  /\ user = "get"
  /\ dirty = FALSE /\ rows = 0
  /\ message = Idle

Tick ==
  /\ now < MaxNow
  /\ now' = now + 1
  /\ UNCHANGED <<clubVars, classVars, user, dirty, rows, message>>

-----------------------------------------------------------------------------
(* getUser: the first name is shown if the student has a document.         *)
GetUser ==
  /\ user = "get"
  /\ user' = "done"
  /\ dirty' \in {dirty, TRUE}
  /\ UNCHANGED <<now, clubVars, classVars, rows, message>>

(* getClubsAndEventsDocuments: one task per club is started, none awaited. *)
GetActivities ==
  /\ main = "activities"
  /\ main' = "nchs"
  /\ club' = [c \in Clubs |-> "doc"]
  /\ UNCHANGED <<now, clubList, events, late, classVars, user, dirty, rows, message>>

GetClubUnchecked(c) ==
  /\ club[c] = "doc"
  /\ club' = [club EXCEPT ![c] = "teacher"]
  /\ UNCHANGED <<now, main, clubList, events, late, classVars, user, dirty, rows, message>>

GetClub(c) ==
  /\ club[c] = "doc"
  /\ club' = [club EXCEPT ![c] = IF c \in ExistingClubs THEN "teacher" ELSE "events"]
  /\ UNCHANGED <<now, main, clubList, events, late, classVars, user, dirty, rows, message>>

GetAdviser(c) ==
  /\ club[c] = "teacher"
  /\ club' = [club EXCEPT ![c] = "events"]
  /\ clubList' = clubList \cup {c}
  /\ UNCHANGED <<now, main, events, late, classVars, user, dirty, rows, message>>

(* The events of a club are appended. The name of a club without a         *)
(* document is a late variable that was never set: using it for an event   *)
(* that is still to come throws, and that event is left out.               *)
GetClubEvents(c) ==
  LET batch == IF c \in ExistingClubs THEN Upcoming(EventsOf[c], now) ELSE {}
      threw == Upcoming(EventsOf[c], now) \ batch
  IN
  /\ club[c] = "events"
  /\ club' = [club EXCEPT ![c] = "done"]
  /\ events' \in WithBatch(events, batch)
  /\ late' = IF main = "done" THEN late \cup {c} ELSE late
  /\ dirty' = (dirty \/ EventsOf[c] # threw)
  /\ UNCHANGED <<now, main, clubList, classVars, user, rows, message>>

(* The events of the school, with a sort after each document.              *)
GetNchsEvents ==
  /\ main = "nchs"
  /\ main' = "personal"
  /\ \E q \in WithBatch(events, Upcoming(NchsEvents, now)) :
       events' \in IF NchsEvents = {} THEN {q} ELSE Sorts(q, EndTime)
  /\ dirty' = (dirty \/ NchsEvents # {})
  /\ UNCHANGED <<now, club, clubList, late, classVars, user, rows, message>>

GetPersonalEventsUnsorted ==
  /\ main = "personal"
  /\ main' = "done"
  /\ events' \in WithBatch(events, Upcoming(PersonalEvents, now))
  /\ dirty' = (dirty \/ PersonalEvents # {})
  /\ UNCHANGED <<now, club, clubList, late, classVars, user, rows, message>>

(* The personal events, and the last sort of the list.                     *)
GetPersonalEvents ==
  /\ main = "personal"
  /\ main' = "done"
  /\ \E q \in WithBatch(events, Upcoming(PersonalEvents, now)) :
       events' \in Sorts(q, EndTime)
  /\ dirty' = (dirty \/ PersonalEvents # {})
  /\ UNCHANGED <<now, club, clubList, late, classVars, user, rows, message>>

-----------------------------------------------------------------------------
(* getClassesDocuments: one task per class.                                *)
GetSchedule ==
  /\ schedule = "get"
  /\ schedule' = "done"
  /\ class' = [k \in Classes |-> "doc"]
  /\ UNCHANGED <<now, clubVars, classList, user, dirty, rows, message>>

GetClass(k) ==
  /\ class[k] = "doc"
  /\ class' = [class EXCEPT ![k] = IF k \in ExistingClasses THEN "teacher" ELSE "done"]
  /\ UNCHANGED <<now, clubVars, schedule, classList, user, dirty, rows, message>>

(* The class is added and the list sorted by period, outside of setState.  *)
GetTeacher(k) ==
  /\ class[k] = "teacher"
  /\ class' = [class EXCEPT ![k] = "done"]
  /\ classList' \in Sorts(Append(classList, k), Period)
  /\ UNCHANGED <<now, clubVars, schedule, user, dirty, rows, message>>

FrameFromTwo ==
  /\ dirty
  /\ dirty' = FALSE
  /\ rows' = IF Len(classList) < 2 THEN 0 ELSE Len(classList)
  /\ UNCHANGED <<now, clubVars, classVars, user, message>>

(* build: the circle while there is no class, else the page.               *)
Frame ==
  /\ dirty
  /\ dirty' = FALSE
  /\ rows' = Len(classList)
  /\ UNCHANGED <<now, clubVars, classVars, user, message>>

(* The Classes and Activities buttons: setState.                           *)
ShowClassesOrActivities ==
  /\ rows > 0 /\ ~dirty
  /\ dirty' = TRUE
  /\ UNCHANGED <<now, clubVars, classVars, user, rows, message>>

(* The Message action of the class at an index: its document is read for   *)
(* the teacher, and if it is there under the id made of the name and the   *)
(* period, the page is opened for the class at that index then.            *)
TapMessage(i) ==
  /\ i \in 1..rows
  /\ message.step = "idle"
  /\ message' = [Idle EXCEPT !.step = "wait", !.index = i, !.teacherOf = classList[i]]
  /\ UNCHANGED <<now, clubVars, classVars, user, dirty, rows>>

OpenMessages ==
  /\ message.step = "wait"
  /\ message' \in {Idle, [message EXCEPT !.step = "open", !.class = classList[message.index]]}
  /\ UNCHANGED <<now, clubVars, classVars, user, dirty, rows>>

(* Back from the page of messages.                                         *)
CloseMessages ==
  /\ message.step = "open"
  /\ message' = Idle
  /\ UNCHANGED <<now, clubVars, classVars, user, dirty, rows>>

ClubTask(c) == GetClub(c) \/ GetAdviser(c) \/ GetClubEvents(c)
ClassTask(k) == GetClass(k) \/ GetTeacher(k)
EventLoader == GetActivities \/ GetNchsEvents \/ GetPersonalEvents

Next ==
  \/ Tick \/ GetUser \/ EventLoader \/ GetSchedule
  \/ Frame \/ ShowClassesOrActivities \/ OpenMessages \/ CloseMessages
  \/ \E c \in Clubs : ClubTask(c)
  \/ \E k \in Classes : ClassTask(k)
  \/ \E i \in 1..rows : TapMessage(i)

Spec == Init /\ [][Next]_vars

-----------------------------------------------------------------------------
(* However the tasks interleave, no document is in the list twice.         *)
EventsOnlyOnce == OnlyOnce(events)

(* The last sort leaves the list by end time, and it stays so as long as   *)
(* no club is slower than the school and the personal events.              *)
OrderedUnlessLate == main = "done" /\ late = {} => ByEndTime(events)

(* The classes are listed by period whatever the order they arrive in.     *)
ClassesByPeriod == InOrder(classList, Period)

(* Every event of the student that does not end while the page loads is in *)
(* the list.                                                               *)
Complete ==
  Upcoming(ClubEvents(Clubs) \cup NchsEvents \cup PersonalEvents, MaxNow) \subseteq Elems(events)

(* "message or email the teacher of a particular class": the page opened   *)
(* by the Message action is about the class whose teacher was looked up.   *)
MessagesTheClassTeacher == message.step = "open" => message.class = message.teacherOf
=============================================================================
