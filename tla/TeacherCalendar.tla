--------------------------- MODULE TeacherCalendar ---------------------------
(***************************************************************************)
(* The calendar of a teacher (calendar/calendar_teacher.dart) and the form *)
(* that adds an event to a club (calendar/request_event.dart).             *)
(*                                                                         *)
(* As in the calendar of a student, the tasks of the clubs are not         *)
(* awaited. The form first loads the clubs the teacher may choose from.    *)
(***************************************************************************)
EXTENDS CalendarData

VARIABLES
  now,         \* DateTime.now()
  clubEvents,  \* activities/<c>/events
  opens,       \* pages built so far
  main,        \* what getEventsDocuments waits for
  club,        \* what the task of each club waits for
  events,
  hasLoaded,
  form,        \* the form: open, selectedValue, startTime and endTime
  owned,       \* what its retrieveClubs waits for
  clubsOwned   \* the names of the clubs in its menu

page == <<main, club, events, hasLoaded>>
menu == <<owned, clubsOwned>>
private == <<opens, page, form, menu>>
vars == <<now, clubEvents, private>>

Blank == [open |-> FALSE, selected |-> Unset, start |-> Unset, end |-> Unset]
Time == {StartTime[d] : d \in TeacherDrafts} \cup {EndTime[d] : d \in TeacherDrafts}
Requested == {d \in TeacherDrafts : \E c \in Clubs : d \in clubEvents[c]}

TypeOK ==
  /\ now \in 0..MaxNow
  /\ clubEvents \in [Clubs -> SUBSET Events]
  /\ opens \in 1..MaxOpens
  /\ main \in {"activities", "nchs", "done"}
  /\ club \in [Advised -> {"none", "doc", "events", "done"}]
  /\ events \in Seq(Events)
  /\ hasLoaded \in BOOLEAN
  /\ form \in [open : BOOLEAN, selected : Names \cup {Unset},
               start : Time \cup {Unset}, end : Time \cup {Unset}]
  /\ owned \in [Advised -> {"none", "list", "doc", "done"}]
  /\ clubsOwned \subseteq Names

InitPage ==
  /\ opens = 1
  /\ main = "activities" /\ club = [c \in Advised |-> "none"]
  /\ events = <<>> /\ hasLoaded = FALSE
  /\ form = Blank
  /\ owned = [c \in Advised |-> "none"] /\ clubsOwned = {}

(* initState of a new page.                                                *)
BuildPage ==
  /\ opens < MaxOpens
  /\ opens' = opens + 1
  /\ main' = "activities" /\ club' = [c \in Advised |-> "none"]
  /\ events' = <<>> /\ hasLoaded' = FALSE
  /\ form' = Blank
  /\ owned' = [c \in Advised |-> "none"] /\ clubsOwned' = {}

-----------------------------------------------------------------------------
(* getEventsDocuments: a task per club, none awaited.                      *)
GetActivities ==
  /\ main = "activities"
  /\ main' = "nchs"
  /\ club' = [c \in Advised |-> "doc"]
  /\ UNCHANGED <<now, clubEvents, opens, events, hasLoaded, form, menu>>

GetClub(c) ==
  /\ club[c] = "doc"
  /\ club' = [club EXCEPT ![c] = "events"]
  /\ UNCHANGED <<now, clubEvents, opens, main, events, hasLoaded, form, menu>>

(* The events of a club; for a club without a document the late variable   *)
(* of its name throws.                                                     *)
GetClubEvents(c) ==
  /\ club[c] = "events"
  /\ club' = [club EXCEPT ![c] = "done"]
  /\ events' \in WithBatch(events,
       IF c \in ExistingClubs THEN Upcoming(clubEvents[c], now) ELSE {})
  /\ UNCHANGED <<now, clubEvents, opens, main, hasLoaded, form, menu>>

(* The events of the school, after which the page is shown.                *)
GetNchsEvents ==
  /\ main = "nchs"
  /\ main' = "done"
  /\ events' \in WithBatch(events, Upcoming(NchsEvents, now))
  /\ hasLoaded' = TRUE
  /\ UNCHANGED <<now, clubEvents, opens, club, form, menu>>

-----------------------------------------------------------------------------
(* Leaving the tab and coming back.                                        *)
Reopen ==
  /\ ~form.open
  /\ BuildPage
  /\ UNCHANGED <<now, clubEvents>>

(* The add button; initState of the form starts retrieveClubs.             *)
OpenForm ==
  /\ hasLoaded /\ ~form.open
  /\ form' = [Blank EXCEPT !.open = TRUE]
  /\ owned' = [c \in Advised |-> "list"]
  /\ UNCHANGED <<now, clubEvents, opens, page, clubsOwned>>

CloseForm ==
  /\ form.open
  /\ form' = Blank
  /\ owned' = [c \in Advised |-> "none"] /\ clubsOwned' = {}
  /\ UNCHANGED <<now, clubEvents, opens, page>>

(* retrieveClubs: the list of clubs starts a task for each.                *)
ListClubs ==
  /\ \E c \in Advised : owned[c] = "list"
  /\ owned' = [c \in Advised |-> "doc"]
  /\ UNCHANGED <<now, clubEvents, opens, page, form, clubsOwned>>

AddClubUnchecked(c) ==
  /\ owned[c] = "doc"
  /\ owned' = [owned EXCEPT ![c] = "done"]
  /\ clubsOwned' = clubsOwned \cup {NameOf[c]}
  /\ UNCHANGED <<now, clubEvents, opens, page, form>>

AddClub(c) ==
  /\ owned[c] = "doc"
  /\ owned' = [owned EXCEPT ![c] = "done"]
  /\ clubsOwned' = IF c \in ExistingClubs THEN clubsOwned \cup {NameOf[c]} ELSE clubsOwned
  /\ UNCHANGED <<now, clubEvents, opens, page, form>>

(* The menu and the two pickers; the form is there once a club is.         *)
SelectClub(name) ==
  /\ form.open /\ name \in clubsOwned
  /\ form' = [form EXCEPT !.selected = name]
  /\ UNCHANGED <<now, clubEvents, opens, page, menu>>

PickTimePlusOne(v) ==
  /\ form.open /\ clubsOwned # {}
  /\ form' \in {[form EXCEPT !.start = v + 1], [form EXCEPT !.end = v + 1]}
  /\ UNCHANGED <<now, clubEvents, opens, page, menu>>

PickTime(v) ==
  /\ form.open /\ clubsOwned # {}
  /\ form' \in {[form EXCEPT !.start = v], [form EXCEPT !.end = v]}
  /\ UNCHANGED <<now, clubEvents, opens, page, menu>>

(* Submit: a new document d in the events of the document whose id is made *)
(* of the selected name, and a new calendar page. With a value unset it    *)
(* throws before it does anything.                                         *)
Submit(d) ==
  /\ form.open /\ form.selected # Unset
  /\ form.start = StartTime[d] /\ form.end = EndTime[d]
  /\ d \notin Requested
  /\ clubEvents' = [clubEvents EXCEPT ![DocumentOf[form.selected]] = @ \cup {d}]
  /\ BuildPage
  /\ UNCHANGED now

Tick ==
  /\ now < MaxNow
  /\ now' = now + 1
  /\ UNCHANGED <<clubEvents, private>>

ClubTask(c) == GetClub(c) \/ GetClubEvents(c)
Loader == GetActivities \/ GetNchsEvents

TeacherStep ==
  \/ Loader \/ Reopen \/ OpenForm \/ CloseForm \/ ListClubs
  \/ \E c \in Advised : ClubTask(c) \/ AddClub(c)
  \/ \E name \in Names : SelectClub(name)
  \/ \E v \in Time : PickTime(v)
  \/ \E d \in TeacherDrafts : Submit(d)

Init == now = 0 /\ clubEvents = StoredEvents /\ InitPage
Next == TeacherStep \/ Tick
Spec == Init /\ [][Next]_vars

(* Firestore answers every read.                                           *)
Fairness == WF_vars(Loader) /\ \A c \in Advised : WF_vars(ClubTask(c))

-----------------------------------------------------------------------------
(* What getEventsDocuments awaits is complete when the page is shown.      *)
AwaitedEventsShown ==
  hasLoaded => Upcoming(NchsEvents, now) \subseteq Elems(events)

(* A requested event is in one document only, whose id is made of the name *)
(* of a club that exists and that the teacher advises.                     *)
RequestedInOneClub ==
  \A d \in TeacherDrafts :
    /\ \A c \in Clubs : d \in clubEvents[c] =>
         \E b \in Advised \cap ExistingClubs : c = DocumentOf[NameOf[b]]
    /\ \A b, c \in Clubs : d \in clubEvents[b] \cap clubEvents[c] => b = c

(* A requested event that is not over by then is in the calendar of the    *)
(* teacher in the end, if it got into the club it was requested for: if    *)
(* the document of a club of the teacher has the id made of the name.      *)
RequestedIsShown ==
  \A d \in TeacherDrafts :
    ((\E c \in Advised \cap ExistingClubs : d \in clubEvents[c]) /\ EndTime[d] > MaxNow)
      ~> (hasLoaded /\ d \in Elems(events))
=============================================================================
