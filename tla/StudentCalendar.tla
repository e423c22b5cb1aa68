--------------------------- MODULE StudentCalendar ---------------------------
(***************************************************************************)
(* The calendar of a student (calendar/calendar.dart) and the form that    *)
(* adds a personal event (calendar/student_set_event.dart).                *)
(*                                                                         *)
(* The page awaits the school's and the personal events, and starts a task *)
(* per club that it does not await. Leaving the tab and coming back, and   *)
(* submitting the form, build a new page that loads from nothing; the      *)
(* model follows the newest one. The student's own writes are visible to   *)
(* the student's reads as soon as they are issued.                         *)
(***************************************************************************)
EXTENDS CalendarData

VARIABLES
  now,         \* DateTime.now()
  clubEvents,  \* activities/<c>/events, written by the advisers
  personal,    \* students/<me>/events
  opens,       \* pages built so far
  main,        \* what getDocuments waits for
  club,        \* what the task of each club waits for
  events,
  hasLoaded,
  form         \* the form: open or not, its startTime and endTime

page == <<main, club, events, hasLoaded>>
private == <<personal, opens, page, form>>
vars == <<now, clubEvents, private>>

Blank == [open |-> FALSE, start |-> Unset, end |-> Unset]
Time == {StartTime[d] : d \in StudentDrafts} \cup {EndTime[d] : d \in StudentDrafts}

TypeOK ==
  /\ now \in 0..MaxNow
  /\ clubEvents \in [Clubs -> SUBSET Events]
  /\ personal \subseteq StoredPersonal \cup StudentDrafts
  /\ opens \in 1..MaxOpens
  /\ main \in {"activities", "nchs", "personal", "done"}
  /\ club \in [Joined -> {"none", "doc", "events", "done"}]
  /\ events \in Seq(Events)
  /\ hasLoaded \in BOOLEAN
  /\ form \in [open : BOOLEAN, start : Time \cup {Unset}, end : Time \cup {Unset}]

InitPage ==
  /\ personal = StoredPersonal
  /\ opens = 1
  /\ main = "activities" /\ club = [c \in Joined |-> "none"]
  /\ events = <<>> /\ hasLoaded = FALSE
  /\ form = Blank

(* initState of a new page.                                                *)
BuildPage ==
  /\ opens < MaxOpens
  /\ opens' = opens + 1
  /\ main' = "activities" /\ club' = [c \in Joined |-> "none"]
  /\ events' = <<>> /\ hasLoaded' = FALSE
  /\ form' = Blank

-----------------------------------------------------------------------------
(* getDocuments: a task per club, none awaited.                            *)
GetActivities ==
  /\ main = "activities"
  /\ main' = "nchs"
  /\ club' = [c \in Joined |-> "doc"]
  /\ UNCHANGED <<now, clubEvents, personal, opens, events, hasLoaded, form>>

GetClub(c) ==
  /\ club[c] = "doc"
  /\ club' = [club EXCEPT ![c] = "events"]
  /\ UNCHANGED <<now, clubEvents, personal, opens, main, events, hasLoaded, form>>

GetClubEventsStored(c) ==
  /\ club[c] = "events"
  /\ club' = [club EXCEPT ![c] = "done"]
  /\ events' \in WithBatch(events, Upcoming(StoredEvents[c], now))
  /\ UNCHANGED <<now, clubEvents, personal, opens, main, hasLoaded, form>>

(* The events of a club; for a club without a document the late variable   *)
(* of its name throws.                                                     *)
GetClubEvents(c) ==
  /\ club[c] = "events"
  /\ club' = [club EXCEPT ![c] = "done"]
  /\ events' \in WithBatch(events,
       IF c \in ExistingClubs THEN Upcoming(clubEvents[c], now) ELSE {})
  /\ UNCHANGED <<now, clubEvents, personal, opens, main, hasLoaded, form>>

GetNchsEventsEarly ==
  /\ main = "nchs"
  /\ main' = "personal"
  /\ hasLoaded' = TRUE
  /\ events' \in WithBatch(events, Upcoming(NchsEvents, now))
  /\ UNCHANGED <<now, clubEvents, personal, opens, club, form>>

GetNchsEvents ==
  /\ main = "nchs"
  /\ main' = "personal"
  /\ events' \in WithBatch(events, Upcoming(NchsEvents, now))
  /\ UNCHANGED <<now, clubEvents, personal, opens, club, hasLoaded, form>>

GetPersonalEventsStored ==
  /\ main = "personal"
  /\ main' = "done"
  /\ events' \in WithBatch(events, Upcoming(StoredPersonal, now))
  /\ hasLoaded' = TRUE
  /\ UNCHANGED <<now, clubEvents, personal, opens, club, form>>

(* The personal events, after which the page is shown.                     *)
GetPersonalEvents ==
  /\ main = "personal"
  /\ main' = "done"
  /\ events' \in WithBatch(events, Upcoming(personal, now))
  /\ hasLoaded' = TRUE
  /\ UNCHANGED <<now, clubEvents, personal, opens, club, form>>

-----------------------------------------------------------------------------
(* Leaving the tab, or the app's session, and coming back.                 *)
Reopen ==
  /\ ~form.open
  /\ BuildPage
  /\ UNCHANGED <<now, clubEvents, personal>>

(* The add button, there once the page is shown.                           *)
OpenForm ==
  /\ hasLoaded /\ ~form.open
  /\ form' = [Blank EXCEPT !.open = TRUE]
  /\ UNCHANGED <<now, clubEvents, personal, opens, page>>

CloseForm ==
  /\ form.open
  /\ form' = Blank
  /\ UNCHANGED <<now, clubEvents, personal, opens, page>>

(* onDateTimeChanged of the two pickers.                                   *)
PickTime(v) ==
  /\ form.open
  /\ form' \in {[form EXCEPT !.start = v], [form EXCEPT !.end = v]}
  /\ UNCHANGED <<now, clubEvents, personal, opens, page>>

(* Submit: a new document d with the two times, and a new calendar page.   *)
(* With a time unset it throws before it does anything.                    *)
Submit(d) ==
  /\ form.open
  /\ form.start = StartTime[d] /\ form.end = EndTime[d]
  /\ d \notin personal
  /\ personal' = personal \cup {d}
  /\ BuildPage
  /\ UNCHANGED <<now, clubEvents>>

Tick ==
  /\ now < MaxNow
  /\ now' = now + 1
  /\ UNCHANGED <<clubEvents, private>>

ClubTask(c) == GetClub(c) \/ GetClubEvents(c)
Loader == GetActivities \/ GetNchsEvents \/ GetPersonalEvents

StudentStep ==
  \/ Loader \/ Reopen \/ OpenForm \/ CloseForm
  \/ \E c \in Joined : ClubTask(c)
  \/ \E v \in Time : PickTime(v)
  \/ \E d \in StudentDrafts : Submit(d)

Init == now = 0 /\ clubEvents = StoredEvents /\ InitPage
Next == StudentStep \/ Tick
Spec == Init /\ [][Next]_vars

(* Firestore answers every read.                                           *)
Fairness == WF_vars(Loader) /\ \A c \in Joined : WF_vars(ClubTask(c))

-----------------------------------------------------------------------------
(* What getDocuments awaits is complete when the page is shown: the        *)
(* school's and the student's own events that are still to come.           *)
AwaitedEventsShown ==
  hasLoaded => Upcoming(NchsEvents \cup personal, now) \subseteq Elems(events)

(* A submitted event that is not over by then is in the calendar in the    *)
(* end.                                                                    *)
SubmittedIsShown ==
  \A d \in StudentDrafts :
    (d \in personal /\ EndTime[d] > MaxNow) ~> (hasLoaded /\ d \in Elems(events))
=============================================================================
