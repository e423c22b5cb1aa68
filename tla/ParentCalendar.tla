---------------------------- MODULE ParentCalendar ----------------------------
(***************************************************************************)
(* The calendar of a parent (calendar/calendar_parent.dart). A task per    *)
(* child starts a task per club of the child, and none is awaited before   *)
(* the page is shown. What is shown of an event is an appointment, which   *)
(* is also what isDuplicated compares.                                     *)
(***************************************************************************)
EXTENDS PageData

VARIABLES
  now,           \* DateTime.now()
  main,          \* what getEventsDocuments waits for
  child,         \* what the task of each child waits for
  activity,      \* what the task of each club of a child waits for
  appointments,
  hasLoaded

vars == <<now, main, child, activity, appointments, hasLoaded>>

Appointment == [event : Events, start : Nat, end : Nat]

TypeOK ==
  /\ now \in 0..MaxNow
  /\ main \in {"students", "nchs", "done"}
  /\ child \in [Children -> {"none", "activities", "done"}]
  /\ activity \in [Enrolments -> {"none", "doc", "events", "done"}]
  /\ appointments \in Seq(Appointment)
  /\ hasLoaded \in BOOLEAN

Init ==
  /\ now = 0
  /\ main = "students"
  /\ child = [k \in Children |-> "none"]
  /\ activity = [p \in Enrolments |-> "none"]
  /\ appointments = <<>> /\ hasLoaded = FALSE

Tick ==
  /\ now < MaxNow
  /\ now' = now + 1
  /\ UNCHANGED <<main, child, activity, appointments, hasLoaded>>

(* The appointment of an event of a club, and of the school, whose start   *)
(* and end are exchanged.                                                  *)
ClubAppointment(e) == [event |-> e, start |-> StartTime[e], end |-> EndTime[e]]
NchsAppointment(e) == [event |-> e, start |-> EndTime[e], end |-> StartTime[e]]

-----------------------------------------------------------------------------
(* getEventsDocuments: a task per child, none awaited.                     *)
GetStudents ==
  /\ main = "students"
  /\ main' = "nchs"
  /\ child' = [k \in Children |-> "activities"]
  /\ UNCHANGED <<now, activity, appointments, hasLoaded>>

GetActivities(k) ==
  /\ child[k] = "activities"
  /\ child' = [child EXCEPT ![k] = "done"]
  /\ activity' = [p \in Enrolments |-> IF p[1] = k THEN "doc" ELSE activity[p]]
  /\ UNCHANGED <<now, main, appointments, hasLoaded>>

GetActivity(p) ==
  /\ activity[p] = "doc"
  /\ activity' = [activity EXCEPT ![p] = "events"]
  /\ UNCHANGED <<now, main, child, appointments, hasLoaded>>

Same(a, b) == Text[a.event] = Text[b.event] /\ a.start = b.start /\ a.end = b.end

isDuplicated(a, q) == \E i \in 1..Len(q) : Same(q[i], a)

FreshByText(q, S) ==
  {D \in SUBSET S :
     /\ \A a, b \in D : Text[a.event] = Text[b.event] => a = b
     /\ {Text[a.event] : a \in D}
          = {Text[a.event] : a \in S} \ {Text[a.event] : a \in Elems(q)}}

(* What a batch of appointments adds to the list q when each is compared   *)
(* with the list as it is by then: one of every kind not yet there.        *)
Fresh(q, S) ==
  {D \in SUBSET S :
     /\ \A a \in D : ~isDuplicated(a, q)
     /\ \A a, b \in D : Same(a, b) => a = b
     /\ \A a \in S : isDuplicated(a, q) \/ \E b \in D : Same(a, b)}

(* The events of a club that are still to come and no duplicates. For a    *)
(* club without a document the late variable of its name throws.           *)
GetActivityEvents(p) ==
  LET batch == {ClubAppointment(e) : e \in Upcoming(EventsOf[p[2]], now)} IN
  /\ activity[p] = "events"
  /\ activity' = [activity EXCEPT ![p] = "done"]
  /\ IF p[2] \in ExistingClubs
       THEN \E D \in Fresh(appointments, batch) :
              appointments' \in WithBatch(appointments, D)
       ELSE UNCHANGED appointments
  /\ UNCHANGED <<now, main, child, hasLoaded>>

(* The events of the school, after which the page is shown.                *)
GetNchsEvents ==
  /\ main = "nchs"
  /\ main' = "done"
  /\ appointments' \in WithBatch(appointments,
       {NchsAppointment(e) : e \in Upcoming(NchsEvents, now)})
  /\ hasLoaded' = TRUE
  /\ UNCHANGED <<now, child, activity>>

ActivityTask(p) == GetActivity(p) \/ GetActivityEvents(p)
Loader == GetStudents \/ GetNchsEvents

Next ==
  \/ Tick \/ Loader
  \/ \E k \in Children : GetActivities(k)
  \/ \E p \in Enrolments : ActivityTask(p)

Spec == Init /\ [][Next]_vars

-----------------------------------------------------------------------------
(* "Checks if events have been duplicated ... These events aren't          *)
(* included": no two appointments of clubs are the same, though the tasks  *)
(* of two children load one club interleaved with each other.              *)
NoDuplicates ==
  \A i, j \in 1..Len(appointments) :
    /\ {appointments[i].event, appointments[j].event} \cap NchsEvents = {}
    /\ Same(appointments[i], appointments[j])
    => i = j

(* Every event of an existing club of a child that does not end while the  *)
(* page loads is shown, itself or as the same appointment.                 *)
Covered ==
  \A e \in Upcoming(ClubEvents(UNION {ClubsOf[k] : k \in Children}), MaxNow) :
    \E i \in 1..Len(appointments) : Same(appointments[i], ClubAppointment(e))
=============================================================================
