------------------------------ MODULE ParentHome ------------------------------
(***************************************************************************)
(* The home page of a parent (home/home_parent.dart): the children and the *)
(* events of their clubs and of the school. getChildrenDocuments starts a  *)
(* task per child, each of which starts a task per club of the child; two  *)
(* children in one club load its events twice, and isDuplicated keeps the  *)
(* second copy out.                                                        *)
(***************************************************************************)
EXTENDS PageData

VARIABLES
  now,           \* DateTime.now()
  main,          \* what getChildrenDocuments waits for
  child,         \* what the task of each child waits for
  activity,      \* what the task of each club of a child waits for
  childrenList,
  events,
  user,          \* what getFirstName waits for
  dirty,         \* setState was called since the last frame
  rows           \* the children the last frame listed, 0 for the progress circle

vars == <<now, main, child, activity, childrenList, events, user, dirty, rows>>

TypeOK ==
  /\ now \in 0..MaxNow
  /\ main \in {"students", "nchs", "done"}
  /\ child \in [Children -> {"none", "doc", "activities", "done"}]
  /\ activity \in [Enrolments -> {"none", "doc", "events", "done"}]
  /\ childrenList \in Seq(ExistingChildren)
  /\ events \in Seq(Events)
  /\ user \in {"get", "done"}
  /\ dirty \in BOOLEAN
  /\ rows \in Nat

Init ==
  /\ now = 0
  /\ main = "students"
  /\ child = [k \in Children |-> "none"]
  /\ activity = [p \in Enrolments |-> "none"]
  /\ childrenList = <<>> /\ events = <<>>
  /\ user = "get" /\ dirty = FALSE /\ rows = 0

Tick ==
  /\ now < MaxNow
  /\ now' = now + 1
  /\ UNCHANGED <<main, child, activity, childrenList, events, user, dirty, rows>>

(* getFirstName: shown if the parent has a document.                       *)
GetFirstName ==
  /\ user = "get"
  /\ user' = "done"
  /\ dirty' \in {dirty, TRUE}
  /\ UNCHANGED <<now, main, child, activity, childrenList, events, rows>>

-----------------------------------------------------------------------------
(* getChildrenDocuments: a task per child, none awaited.                   *)
GetStudents ==
  /\ main = "students"
  /\ main' = "nchs"
  /\ child' = [k \in Children |-> "doc"]
  /\ UNCHANGED <<now, activity, childrenList, events, user, dirty, rows>>

(* The child is listed, outside of setState, if it has a document.         *)
GetChild(k) ==
  /\ child[k] = "doc"
  /\ child' = [child EXCEPT ![k] = "activities"]
  /\ childrenList' = IF k \in ExistingChildren THEN Append(childrenList, k) ELSE childrenList
  /\ UNCHANGED <<now, main, activity, events, user, dirty, rows>>

(* A task per club of the child.                                           *)
GetActivities(k) ==
  /\ child[k] = "activities"
  /\ child' = [child EXCEPT ![k] = "done"]
  /\ activity' = [p \in Enrolments |-> IF p[1] = k THEN "doc" ELSE activity[p]]
  /\ UNCHANGED <<now, main, childrenList, events, user, dirty, rows>>

GetActivity(p) ==
  /\ activity[p] = "doc"
  /\ activity' = [activity EXCEPT ![p] = "events"]
  /\ UNCHANGED <<now, main, child, childrenList, events, user, dirty, rows>>

(* What isDuplicated compares: subject and notes, start and end.           *)
Content(e) == <<Text[e], StartTime[e], EndTime[e]>>

isDuplicated(e, q) == \E i \in 1..Len(q) : Content(q[i]) = Content(e)

(* What a batch S adds to the list q when each document is compared with   *)
(* the list as it is by then: one document of every content not yet there. *)
Fresh(q, S) ==
  {D \in SUBSET S :
     /\ \A e \in D : ~isDuplicated(e, q)
     /\ \A e, f \in D : Content(e) = Content(f) => e = f
     /\ \A e \in S : isDuplicated(e, q) \/ \E f \in D : Content(f) = Content(e)}

GetActivityEventsById(p) ==
  /\ activity[p] = "events"
  /\ activity' = [activity EXCEPT ![p] = "done"]
  /\ \E q \in WithBatch(events, Upcoming(EventsOf[p[2]], now) \ Elems(events)) :
       events' \in Sorts(q, EndTime)
  /\ dirty' = TRUE
  /\ UNCHANGED <<now, main, child, childrenList, user, rows>>

(* The events of a club that are still to come and no duplicates, sorted   *)
(* in after each. For a club without a document the late variable of its   *)
(* name throws before anything is done.                                    *)
GetActivityEvents(p) ==
  /\ activity[p] = "events"
  /\ activity' = [activity EXCEPT ![p] = "done"]
  /\ IF p[2] \in ExistingClubs
       THEN /\ \E D \in Fresh(events, Upcoming(EventsOf[p[2]], now)) :
                 \E q \in WithBatch(events, D) :
                   events' \in IF D = {} THEN {q} ELSE Sorts(q, EndTime)
            /\ dirty' = (dirty \/ EventsOf[p[2]] # {})
       ELSE UNCHANGED <<events, dirty>>
  /\ UNCHANGED <<now, main, child, childrenList, user, rows>>

(* The events of the school, with a sort after each document.              *)
GetNchsEvents ==
  /\ main = "nchs"
  /\ main' = "done"
  /\ \E q \in WithBatch(events, Upcoming(NchsEvents, now)) :
       events' \in IF NchsEvents = {} THEN {q} ELSE Sorts(q, EndTime)
  /\ dirty' = (dirty \/ NchsEvents # {})
  /\ UNCHANGED <<now, child, activity, childrenList, user, rows>>

(* build: the circle while there is no child, else the page.               *)
Frame ==
  /\ dirty
  /\ dirty' = FALSE
  /\ rows' = Len(childrenList)
  /\ UNCHANGED <<now, main, child, activity, childrenList, events, user>>

ChildTask(k) == GetChild(k) \/ GetActivities(k)
ActivityTask(p) == GetActivity(p) \/ GetActivityEvents(p)
Loader == GetStudents \/ GetNchsEvents

Next ==
  \/ Tick \/ GetFirstName \/ Loader \/ Frame
  \/ \E k \in Children : ChildTask(k)
  \/ \E p \in Enrolments : ActivityTask(p)

Spec == Init /\ [][Next]_vars

-----------------------------------------------------------------------------
(* The list is by end time at every moment of the loading.                 *)
AlwaysByEndTime == ByEndTime(events)

(* "If this activity is not a duplicate, it will be added to the list": no *)
(* two events of clubs in the list have the same content, though the tasks *)
(* of two children load the same club interleaved with each other.         *)
NoDuplicates ==
  \A i, j \in 1..Len(events) :
    /\ events[i] \notin NchsEvents /\ events[j] \notin NchsEvents
    /\ Content(events[i]) = Content(events[j])
    => i = j

(* Every event of an existing club of a child, and of the school, that     *)
(* does not end while the page loads is in the list, itself or as a copy   *)
(* with the same content.                                                  *)
Covered ==
  \A e \in Upcoming(ClubEvents(UNION {ClubsOf[k] : k \in Children}) \cup NchsEvents, MaxNow) :
    \E i \in 1..Len(events) : Content(events[i]) = Content(e)
=============================================================================
