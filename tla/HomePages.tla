------------------------------ MODULE HomePages ------------------------------
(***************************************************************************)
(* The home pages of a student, a teacher and a parent, the calendar of a  *)
(* parent and the report of an absence, as parts of Pages: their           *)
(* variables, and for each page an inductive invariant with the lemmas     *)
(* that show it. The lemmas take what they need of the lists and of        *)
(* finite sets as assumptions (BatchFacts and so on, see EventData);       *)
(* EventDataProofs proves those and PagesProofs puts both together.        *)
(***************************************************************************)
EXTENDS PageData, TLAPS

(* How a step that names no prover is proved: the translation of a large   *)
(* context for SMT may run out of its time, and then it is tried again.    *)
USE SMTT(30), ZenonT(30), SMTT(40)

VARIABLES
  now, main, user, dirty, rows,                  \* see the modules of the pages
  club, clubList, events, late, schedule, class, classList, message,
  listing, item, clubsList,
  child, activity, childrenList, appointments, hasLoaded,
  form, absences, reports

-----------------------------------------------------------------------------
Student == INSTANCE StudentHome

(* Each event of the list was brought by an answer that has come.          *)
StudentHas(e) ==
  \/ e \in NchsEvents /\ main \in {"personal", "done"}
  \/ e \in PersonalEvents /\ main = "done"
  \/ \E c \in Clubs : e \in EventsOf[c] /\ club[c] = "done"

(* The events: typed, listed once, in order unless a club was late.        *)
StudentEvents ==
  /\ now \in 0..MaxNow
  /\ main \in {"activities", "nchs", "personal", "done"}
  /\ club \in [Clubs -> {"none", "doc", "teacher", "events", "done"}]
  /\ clubList \subseteq ExistingClubs
  /\ events \in Seq(Events) /\ Student!OnlyOnce(events)
  /\ late \subseteq Clubs
  /\ Student!OrderedUnlessLate
  /\ main = "activities" => club = [c \in Clubs |-> "none"]
  /\ \A c \in Clubs : club[c] = "teacher" => c \in ExistingClubs
  /\ \A e \in Student!Elems(events) : StudentHas(e)

(* The classes, the rebuilds and the page of the messages.                 *)
StudentClasses ==
  /\ schedule \in {"get", "done"}
  /\ class \in [Classes -> {"none", "doc", "teacher", "done"}]
  /\ classList \in Seq(ExistingClasses)
  /\ \A k \in Classes : class[k] = "teacher" => k \in ExistingClasses
  /\ Student!ClassesByPeriod
  /\ user \in {"get", "done"} /\ dirty \in BOOLEAN
  /\ rows \in 0..Len(classList)
  /\ message \in [step : {"idle", "wait", "open"}, index : Nat,
                  class : Classes \cup {None}, teacherOf : Classes \cup {None}]
  /\ message.step = "wait" => message.index \in 1..Len(classList)

(* The invariant of the page.                                              *)
StudentInv == StudentEvents /\ StudentClasses

(* It holds when the page is opened,                                       *)
LEMMA StudentInit == ASSUME Student!Init PROVE StudentInv
<1>1. \A q : q = <<>> => q \in Seq(Events) /\ q \in Seq(ExistingClasses) /\ Len(q) = 0
                         /\ \A i \in 1..Len(q) : FALSE
  OBVIOUS
<1>2. now \in 0..MaxNow /\ rows \in 0..Len(classList)
  BY <1>1, EventAssumption DEF Student!Init
<1>3. StudentEvents
  <2>1. \A c \in Clubs : club[c] # "teacher"
    BY ZenonT(30) DEF Student!Init
  <2> QED BY <1>1, <1>2, <2>1, ZenonT(30)
      DEF Student!Init, StudentEvents, Student!OnlyOnce, Student!Elems,
              Student!OrderedUnlessLate, Student!ByEndTime, Student!InOrder
<1>4. StudentClasses
  <2>1. \A k \in Classes : class[k] # "teacher"
    BY ZenonT(30) DEF Student!Init
  <2>2. /\ message \in [step : {"idle", "wait", "open"}, index : Nat,
                  class : Classes \cup {None}, teacherOf : Classes \cup {None}]
        /\ message.step # "wait"
    BY ZenonT(30) DEF Student!Init, Student!Idle
  <2> QED BY <1>1, <1>2, <2>1, <2>2, ZenonT(30)
      DEF Student!Init, StudentClasses, Student!ClassesByPeriod, Student!InOrder
<1> QED BY <1>3, <1>4, ZenonT(30) DEF StudentInv

(* The list after a batch was added, and perhaps sorted.                   *)
LEMMA StudentBatch ==
  ASSUME Student!BatchFacts, Student!SortFacts, Student!FiniteSetFacts, StudentEvents,
         NEW S \in SUBSET Events, Student!Elems(events) \cap S = {},
         NEW q \in Student!WithBatch(events, S), NEW r,
         r \in Student!Sorts(q, EndTime) \/ r = q
  PROVE  /\ r \in Seq(Events) /\ Student!OnlyOnce(r)
          /\ Student!Elems(r) = Student!Elems(events) \cup S
         /\ r \in Student!Sorts(q, EndTime) => Student!ByEndTime(r)
<1>1. events \in Seq(Events) /\ Student!OnlyOnce(events)
  BY ZenonT(30) DEF StudentEvents
<1>2. Student!IsFiniteSet(S)
  BY ZenonT(30) DEF Student!FiniteSetFacts
<1>3. q \in Seq(Events) /\ Student!Elems(q) = Student!Elems(events) \cup S
        /\ Student!OnlyOnce(q) /\ (S = {} => q = events)
  <2>1. \A r0 \in Student!WithBatch(events, S) :
          /\ r0 \in Seq(Events) /\ Student!Elems(r0) = Student!Elems(events) \cup S
          /\ Student!OnlyOnce(events) /\ Student!Elems(events) \cap S = {} => Student!OnlyOnce(r0)
          /\ S = {} => r0 = events
    BY <1>1, <1>2, ZenonT(30) DEF Student!BatchFacts
  <2> QED BY <1>1, <2>1, ZenonT(30)
<1>4. CASE r \in Student!Sorts(q, EndTime)
  BY <1>3, <1>4, ZenonT(30) DEF Student!SortFacts, Student!ByEndTime
<1>5. CASE r = q /\ r \notin Student!Sorts(q, EndTime)
  BY <1>3, <1>5, ZenonT(30)
<1> QED BY <1>4, <1>5, ZenonT(30)

(* The events of a club.                                                   *)
LEMMA StudentClub ==
  ASSUME Student!BatchFacts, Student!SortFacts, Student!FiniteSetFacts, StudentEvents,
          NEW c \in Clubs, Student!GetClubEvents(c)
  PROVE  StudentEvents'
<1> DEFINE batch == IF c \in ExistingClubs THEN Student!Upcoming(EventsOf[c], now) ELSE {}
<1>1. /\ club[c] = "events" /\ club' = [club EXCEPT ![c] = "done"]
      /\ events' \in Student!WithBatch(events, batch)
      /\ late' = IF main = "done" THEN late \cup {c} ELSE late
      /\ UNCHANGED <<now, main, clubList>>
  BY ZenonT(30) DEF Student!GetClubEvents
<1>3. batch \subseteq EventsOf[c] /\ c \in AllClubs /\ EventsOf[c] \subseteq Events
  BY PageAssumption, ZenonT(30) DEF Student!Upcoming
<1>4. club \in [Clubs -> {"none", "doc", "teacher", "events", "done"}]
  BY ZenonT(30) DEF StudentEvents
<1>5. Student!Elems(events) \cap batch = {}
  <2> SUFFICES ASSUME NEW e \in Student!Elems(events), e \in EventsOf[c] PROVE FALSE
    BY <1>3, ZenonT(30)
  <2>1. StudentHas(e)
    BY ZenonT(30) DEF StudentEvents
  <2>2. e \notin NchsEvents /\ e \notin PersonalEvents
    BY <1>3, PageAssumption, ZenonT(30)
  <2>3. \A d \in Clubs : e \in EventsOf[d] => d = c
    BY <1>3, PageAssumption, ZenonT(30)
  <2>4. club[c] # "done"
    BY <1>1, ZenonT(30)
  <2> QED BY <2>1, <2>2, <2>3, <2>4, ZenonT(30) DEF StudentHas
<1>6. events' \in Seq(Events) /\ Student!OnlyOnce(events')
        /\ Student!Elems(events') = Student!Elems(events) \cup batch
  <2>1. batch \in SUBSET Events
    BY <1>3, ZenonT(30)
  <2> HIDE DEF batch
  <2> QED BY <1>1, <1>5, <2>1, StudentBatch, ZenonT(30)
<1>7. /\ club' \in [Clubs -> {"none", "doc", "teacher", "events", "done"}]
      /\ club'[c] = "done"
      /\ \A d \in Clubs : /\ club[d] = "done" => club'[d] = "done"
                          /\ club'[d] = "teacher" => club[d] = "teacher"
  BY <1>1, <1>4, ZenonT(30)
<1>8. \A e \in Student!Elems(events') : StudentHas(e)'
  BY <1>1, <1>3, <1>6, <1>7, ZenonT(30) DEF StudentEvents, StudentHas
<1>9. main # "activities"
  BY <1>1, ZenonT(30) DEF StudentEvents
<1>10. late' \subseteq Clubs
  BY <1>1, ZenonT(30) DEF StudentEvents
<1>11. (main = "done" /\ late = {} => Student!ByEndTime(events))'
  BY <1>1, ZenonT(30)
<1> QED BY <1>1, <1>6, <1>7, <1>8, <1>9, <1>10, <1>11, ZenonT(30)
        DEF StudentEvents, Student!ByEndTime, Student!OnlyOnce, Student!InOrder,
                Student!OrderedUnlessLate

(* The events of the school.                                               *)
LEMMA StudentSchool ==
  ASSUME Student!BatchFacts, Student!SortFacts, Student!FiniteSetFacts, StudentEvents,
          Student!GetNchsEvents
  PROVE  StudentEvents'
<1> DEFINE batch == Student!Upcoming(NchsEvents, now)
<1>1. main = "nchs" /\ main' = "personal" /\ UNCHANGED <<now, club, clubList, late>>
  BY ZenonT(30) DEF Student!GetNchsEvents
<1>2. PICK q \in Student!WithBatch(events, batch) : 
        events' \in IF NchsEvents = {} THEN {q} ELSE Student!Sorts(q, EndTime)
  BY ZenonT(30) DEF Student!GetNchsEvents
<1>3. batch \subseteq NchsEvents /\ NchsEvents \subseteq Events
  BY EventAssumption, PageAssumption, ZenonT(30) DEF Student!Upcoming
<1>4. Student!Elems(events) \cap batch = {}
  <2> SUFFICES ASSUME NEW e \in Student!Elems(events), e \in NchsEvents PROVE FALSE
    BY <1>3, ZenonT(30)
  <2>1. StudentHas(e)
    BY ZenonT(30) DEF StudentEvents
  <2>2. /\ \A c \in Clubs : e \notin EventsOf[c]
        /\ e \notin PersonalEvents
    BY PageAssumption, ZenonT(30)
  <2>3. main # "done" /\ main # "personal"
    BY <1>1, ZenonT(30)
  <2> QED BY <2>1, <2>2, <2>3, ZenonT(30) DEF StudentHas
<1>5. /\ events' \in Seq(Events) /\ Student!OnlyOnce(events')
        /\ Student!Elems(events') = Student!Elems(events) \cup batch
      /\ events' \in Student!Sorts(q, EndTime) => Student!ByEndTime(events')
  <2>1. batch \in SUBSET Events
    BY <1>3, ZenonT(30)
  <2>2. events' \in Student!Sorts(q, EndTime) \/ events' = q
    BY <1>2, ZenonT(30)
  <2> HIDE DEF batch
  <2> QED BY <1>4, <2>1, <2>2, StudentBatch, ZenonT(30)
<1>6. /\ main' # "activities" /\ main' \in {"personal", "done"}
      /\ \A m : m = main /\ m = "done" => main' = "done"
      /\ main \in {"personal", "done"} => main' \in {"personal", "done"}
  BY <1>1, ZenonT(30)
<1>7. \A e \in Student!Elems(events') : StudentHas(e)'
  BY <1>1, <1>3, <1>5, <1>6, ZenonT(30) DEF StudentEvents, StudentHas
<1>8. (main = "done" => Student!ByEndTime(events))'
  BY <1>1, <1>2, <1>5, ZenonT(30)
<1> QED BY <1>1, <1>5, <1>6, <1>7, <1>8, ZenonT(30)
        DEF StudentEvents, Student!ByEndTime, Student!OnlyOnce, Student!InOrder,
                Student!OrderedUnlessLate

(* The personal events and the last sort.                                  *)
LEMMA StudentPersonal ==
  ASSUME Student!BatchFacts, Student!SortFacts, Student!FiniteSetFacts, StudentEvents,
          Student!GetPersonalEvents
  PROVE  StudentEvents'
<1> DEFINE batch == Student!Upcoming(PersonalEvents, now)
<1>1. main = "personal" /\ main' = "done" /\ UNCHANGED <<now, club, clubList, late>>
  BY ZenonT(30) DEF Student!GetPersonalEvents
<1>2. PICK q \in Student!WithBatch(events, batch) : events' \in Student!Sorts(q, EndTime)
  BY ZenonT(30) DEF Student!GetPersonalEvents
<1>3. batch \subseteq PersonalEvents /\ PersonalEvents \subseteq Events
  BY EventAssumption, PageAssumption, ZenonT(30) DEF Student!Upcoming
<1>4. Student!Elems(events) \cap batch = {}
  <2> SUFFICES ASSUME NEW e \in Student!Elems(events), e \in PersonalEvents PROVE FALSE
    BY <1>3, ZenonT(30)
  <2>1. StudentHas(e)
    BY ZenonT(30) DEF StudentEvents
  <2>2. /\ \A c \in Clubs : e \notin EventsOf[c]
        /\ e \notin NchsEvents
    BY PageAssumption, ZenonT(30)
  <2>3. main # "done"
    BY <1>1, ZenonT(30)
  <2> QED BY <2>1, <2>2, <2>3, ZenonT(30) DEF StudentHas
<1>5. /\ events' \in Seq(Events) /\ Student!OnlyOnce(events')
        /\ Student!Elems(events') = Student!Elems(events) \cup batch
      /\ events' \in Student!Sorts(q, EndTime) => Student!ByEndTime(events')
  <2>1. batch \in SUBSET Events
    BY <1>3, ZenonT(30)
  <2>2. events' \in Student!Sorts(q, EndTime) \/ events' = q
    BY <1>2, ZenonT(30)
  <2> HIDE DEF batch
  <2> QED BY <1>4, <2>1, <2>2, StudentBatch, ZenonT(30)
<1>6. /\ main' # "activities" /\ main' \in {"personal", "done"}
      /\ \A m : m = main /\ m = "done" => main' = "done"
      /\ main \in {"personal", "done"} => main' \in {"personal", "done"}
  BY <1>1, ZenonT(30)
<1>7. \A e \in Student!Elems(events') : StudentHas(e)'
  BY <1>1, <1>3, <1>5, <1>6, ZenonT(30) DEF StudentEvents, StudentHas
<1>8. (main = "done" => Student!ByEndTime(events))'
  BY <1>1, <1>2, <1>5, ZenonT(30)
<1> QED BY <1>1, <1>5, <1>6, <1>7, <1>8, ZenonT(30)
        DEF StudentEvents, Student!ByEndTime, Student!OnlyOnce, Student!InOrder,
                Student!OrderedUnlessLate

(* The steps that bring no event.                                          *)
LEMMA StudentKept ==
  ASSUME StudentEvents, UNCHANGED <<now, main, club, clubList, events, late>>
  PROVE  StudentEvents'
<1>1. \A e \in Student!Elems(events) : StudentHas(e) => StudentHas(e)'
  BY ZenonT(30) DEF StudentHas
<1>2. Student!Elems(events)' = Student!Elems(events)
  BY ZenonT(30) DEF Student!Elems
<1>3. Student!OnlyOnce(events)'
  BY ZenonT(30) DEF StudentEvents, Student!OnlyOnce
<1>4. Student!OrderedUnlessLate'
  BY ZenonT(30) DEF StudentEvents, Student!OrderedUnlessLate, Student!ByEndTime, Student!InOrder
<1> QED BY <1>1, <1>2, <1>3, <1>4, ZenonT(30) DEF StudentEvents

(* The tasks of the clubs before their events.                             *)
LEMMA StudentClubs ==
  ASSUME StudentEvents,
          Student!GetActivities \/ \E c \in Clubs : Student!GetClub(c) \/ Student!GetAdviser(c)
  PROVE  StudentEvents'
<1>0. club \in [Clubs -> {"none", "doc", "teacher", "events", "done"}]
  BY ZenonT(30) DEF StudentEvents
<1>1. \A c \in Clubs : club[c] # "none" => main # "activities"
  BY ZenonT(30) DEF StudentEvents
<1> DEFINE Moved ==
        /\ club' \in [Clubs -> {"none", "doc", "teacher", "events", "done"}]
        /\ main' # "activities" /\ main' \in {"activities", "nchs", "personal", "done"}
        /\ main' = main \/ (main = "activities" /\ main' = "nchs")
        /\ UNCHANGED <<now, events, late>> /\ clubList' \subseteq ExistingClubs
        /\ \A d \in Clubs : club[d] = "done" => main = "activities" \/ club'[d] = "done"
        /\ \A d \in Clubs : club'[d] = "teacher" => d \in ExistingClubs
<1>2. Moved
  <2>1. CASE Student!GetActivities
    BY <2>1, <1>0, ZenonT(30) DEF Student!GetActivities, StudentEvents
  <2>2. ASSUME NEW c \in Clubs, Student!GetClub(c) PROVE Moved
    BY <2>2, <1>0, <1>1, ZenonT(30) DEF Student!GetClub, StudentEvents
  <2>3. ASSUME NEW c \in Clubs, Student!GetAdviser(c) PROVE Moved
    BY <2>3, <1>0, <1>1 DEF Student!GetAdviser, StudentEvents
  <2> QED BY <2>1, <2>2, <2>3, ZenonT(30)
<1>3. \A e \in Student!Elems(events) : StudentHas(e) => StudentHas(e)'
  <2>1. main = "activities" => \A c \in Clubs : club[c] # "done"
    BY ZenonT(30) DEF StudentEvents
  <2>2. main \in {"personal", "done"} => main' = main
    BY <1>2, ZenonT(30)
  <2> QED BY <1>2, <2>1, <2>2, ZenonT(30) DEF StudentHas
<1>4. main' = "done" => main = "done"
  BY <1>2, ZenonT(30)
<1>5. Student!OrderedUnlessLate'
  BY <1>2, <1>4, ZenonT(30) DEF StudentEvents, Student!ByEndTime, Student!InOrder, Student!OrderedUnlessLate
<1>6. \A e \in Student!Elems(events') : StudentHas(e)'
  BY <1>2, <1>3, ZenonT(30) DEF StudentEvents
<1>7. events' \in Seq(Events) /\ Student!OnlyOnce(events') /\ now' \in 0..MaxNow /\ late' \subseteq Clubs
  BY <1>2, ZenonT(30) DEF StudentEvents
<1> QED BY <1>2, <1>5, <1>6, <1>7, ZenonT(30) DEF StudentEvents

(* The steps of the loaders that do not touch a class, with their setState.*)
LEMMA StudentClassesKept ==
  ASSUME StudentClasses, UNCHANGED <<Student!classVars, rows, message>>,
         user' \in {"get", "done"}, dirty' \in BOOLEAN
  PROVE  StudentClasses'
BY ZenonT(30) DEF StudentClasses, Student!classVars, Student!ClassesByPeriod, Student!InOrder

(* A class that has arrived is sorted in by its period.                    *)
LEMMA StudentTeacher ==
  ASSUME Student!SortFacts, StudentClasses, NEW k \in Classes, Student!GetTeacher(k)
  PROVE  StudentClasses'
<1>1. /\ class[k] = "teacher" /\ class' = [class EXCEPT ![k] = "done"]
      /\ classList' \in Student!Sorts(Append(classList, k), Period)
      /\ UNCHANGED <<schedule, user, dirty, rows, message>>
  BY ZenonT(30) DEF Student!GetTeacher
<1>2. k \in ExistingClasses /\ classList \in Seq(ExistingClasses)
  BY <1>1, ZenonT(30) DEF StudentClasses
<1>3. Append(classList, k) \in Seq(ExistingClasses) /\ Len(Append(classList,
        k)) = Len(classList) + 1
  BY <1>2
<1>4. /\ classList' \in Seq(ExistingClasses) /\ Len(classList') = Len(classList) + 1
      /\ Student!InOrder(classList', Period)
  BY <1>1, <1>3, ZenonT(30) DEF Student!SortFacts
<1>5. /\ class' \in [Classes -> {"none", "doc", "teacher", "done"}]
      /\ \A l \in Classes : class'[l] = "teacher" => class[l] = "teacher"
  BY <1>1, ZenonT(30) DEF StudentClasses
<1>6. 0..Len(classList) \subseteq 0..Len(classList')
        /\ 1..Len(classList) \subseteq 1..Len(classList')
  BY <1>2, <1>4
<1> QED BY <1>1, <1>4, <1>5, <1>6, ZenonT(30)
    DEF StudentClasses, Student!ClassesByPeriod, Student!InOrder

(* A class of the list that is shown is one of the student's.              *)
LEMMA StudentMessage ==
  ASSUME StudentClasses,
          Student!OpenMessages \/ Student!CloseMessages \/ \E i \in 1..rows : Student!TapMessage(i)
  PROVE  StudentClasses'
<1> DEFINE Message == [step : {"idle", "wait", "open"}, index : Nat,
                       class : Classes \cup {None}, teacherOf : Classes \cup {None}]
<1>1. UNCHANGED <<Student!classVars, user, dirty, rows>>
  BY ZenonT(30) DEF Student!OpenMessages, Student!CloseMessages, Student!TapMessage
<1>2. \A i \in 1..Len(classList) : classList[i] \in Classes /\ i \in Nat
  BY PageAssumption DEF StudentClasses
<1>3. message' \in Message /\ (message'.step = "wait" => message'.index \in 1..Len(classList))
  <2>1. CASE Student!OpenMessages
    <3>1. /\ message \in Message /\ message.index \in 1..Len(classList)
          /\ \/ message' = Student!Idle
             \/ message' = [message EXCEPT !.step = "open", !.class = classList[message.index]]
      BY <2>1, ZenonT(30) DEF Student!OpenMessages, StudentClasses
    <3>2. classList[message.index] \in Classes
      BY <1>2, <3>1, ZenonT(30)
    <3>3. Student!Idle \in Message /\ Student!Idle.step # "wait"
      BY ZenonT(30) DEF Student!Idle
    <3> QED BY <3>1, <3>2, <3>3, ZenonT(30)
  <2>2. CASE Student!CloseMessages
    BY <2>2, ZenonT(30) DEF Student!CloseMessages, Student!Idle
  <2>3. ASSUME NEW i \in 1..rows, Student!TapMessage(i)
        PROVE  message' \in Message /\ (message'.step = "wait"
                => message'.index \in 1..Len(classList))
    <3>1. i \in 1..Len(classList)
      BY DEF StudentClasses
    <3>2. message' = [Student!Idle EXCEPT !.step = "wait", !.index = i, !.teacherOf = classList[i]]
      BY <2>3, ZenonT(30) DEF Student!TapMessage
    <3>3. message' = [step |-> "wait", index |-> i, class |-> None, teacherOf |-> classList[i]]
      BY <3>2, ZenonT(30) DEF Student!Idle
    <3>4. classList[i] \in Classes /\ i \in Nat
      BY <1>2, <3>1, ZenonT(30)
    <3> QED BY <3>1, <3>3, <3>4, ZenonT(30)
  <2> QED BY <2>1, <2>2, <2>3, ZenonT(30)
<1> QED BY <1>1, <1>3, ZenonT(30)
    DEF StudentClasses, Student!classVars, Student!ClassesByPeriod, Student!InOrder

(* is kept by every step,                                                  *)
LEMMA StudentStep ==
  ASSUME Student!BatchFacts, Student!SortFacts, Student!FiniteSetFacts, StudentInv,
          Student!Next \/ UNCHANGED Student!vars
  PROVE  StudentInv'
<1>0. StudentEvents /\ StudentClasses /\ user \in {"get", "done"} /\ dirty \in BOOLEAN
  BY ZenonT(30) DEF StudentInv, StudentClasses
<1>1. CASE Student!Tick
  <2>1. now' \in 0..MaxNow
    BY <1>0, <1>1, EventAssumption DEF Student!Tick, StudentEvents
  <2>2. \A e \in Student!Elems(events) : StudentHas(e) => StudentHas(e)'
    BY <1>1, ZenonT(30) DEF Student!Tick, Student!clubVars, StudentHas
  <2>3. StudentEvents'
    <3>1. UNCHANGED <<main, club, clubList, events, late>>
      BY <1>1, ZenonT(30) DEF Student!Tick, Student!clubVars
    <3>2. Student!Elems(events)' = Student!Elems(events)
      BY <3>1, ZenonT(30) DEF Student!Elems
    <3>3. Student!OnlyOnce(events)'
      BY <1>0, <3>1, ZenonT(30) DEF StudentEvents, Student!OnlyOnce
    <3>4. Student!OrderedUnlessLate'
      BY <1>0, <3>1, ZenonT(30)
          DEF StudentEvents, Student!OrderedUnlessLate, Student!ByEndTime, Student!InOrder
    <3> QED BY <1>0, <2>1, <2>2, <3>1, <3>2, <3>3, <3>4, ZenonT(30) DEF StudentEvents
  <2> QED BY <1>0, <1>1, <2>3, StudentClassesKept, ZenonT(30) DEF Student!Tick, StudentInv
<1>2. CASE Student!GetUser
  BY <1>0, <1>2, StudentKept, StudentClassesKept, ZenonT(30)
      DEF Student!GetUser, Student!clubVars, StudentInv
<1>3. CASE Student!EventLoader \/ \E c \in Clubs : Student!ClubTask(c)
  <2>1. StudentEvents'
    BY <1>0, <1>3, StudentClubs, StudentClub, StudentSchool, StudentPersonal, ZenonT(30)
       DEF Student!EventLoader, Student!ClubTask
  <2>2. UNCHANGED <<Student!classVars, rows, message, user>> /\ dirty' \in BOOLEAN
    BY <1>0, <1>3, ZenonT(30)
        DEF Student!EventLoader, Student!ClubTask, Student!GetActivities, Student!GetNchsEvents,
                Student!GetPersonalEvents, Student!GetClub,
       Student!GetAdviser, Student!GetClubEvents
  <2> QED BY <1>0, <2>1, <2>2, StudentClassesKept, ZenonT(30) DEF StudentInv
<1>4. CASE Student!GetSchedule
  <2>1. \A k \in Classes : class'[k] # "teacher"
    BY <1>4, ZenonT(30) DEF Student!GetSchedule
  <2>2. StudentClasses'
    BY <1>0, <1>4, <2>1, ZenonT(30)
        DEF Student!GetSchedule, StudentClasses, Student!ClassesByPeriod, Student!InOrder
  <2> QED BY <1>0, <1>4, <2>2, StudentKept, ZenonT(30)
      DEF Student!GetSchedule, Student!clubVars, StudentInv
<1>5. ASSUME NEW k \in Classes, Student!GetClass(k) PROVE StudentInv'
  <2>1. /\ class' \in [Classes -> {"none", "doc", "teacher", "done"}]
        /\ \A l \in Classes : class'[l] = "teacher" => l \in ExistingClasses
    BY <1>0, <1>5, ZenonT(30) DEF Student!GetClass, StudentClasses
  <2>2. StudentClasses'
    BY <1>0, <1>5, <2>1, ZenonT(30)
        DEF Student!GetClass, StudentClasses, Student!ClassesByPeriod, Student!InOrder
  <2> QED BY <1>0, <1>5, <2>2, StudentKept, ZenonT(30) DEF Student!GetClass, Student!clubVars, StudentInv
<1>6. ASSUME NEW k \in Classes, Student!GetTeacher(k) PROVE StudentInv'
  <2>1. StudentClasses'
    BY <1>0, <1>6, StudentTeacher, ZenonT(30)
  <2> QED BY <1>0, <1>6, <2>1, StudentKept, ZenonT(30)
      DEF Student!GetTeacher, Student!clubVars, StudentInv
<1>7. CASE Student!Frame
  <2>1. rows' \in 0..Len(classList)
    BY <1>0, <1>7 DEF Student!Frame, StudentClasses
  <2>2. StudentClasses'
    BY <1>0, <1>7, <2>1, ZenonT(30)
        DEF Student!Frame, Student!classVars, StudentClasses, Student!ClassesByPeriod,
                Student!InOrder
  <2> QED BY <1>0, <1>7, <2>2, StudentKept, ZenonT(30) DEF Student!Frame, Student!clubVars, StudentInv
<1>8. CASE Student!ShowClassesOrActivities
  BY <1>0, <1>8, StudentKept, StudentClassesKept, ZenonT(30)
     DEF Student!ShowClassesOrActivities, Student!clubVars, StudentInv
<1>9. CASE Student!OpenMessages \/ Student!CloseMessages \/ \E i \in 1..rows : Student!TapMessage(i)
  <2>1. StudentClasses'
    BY <1>0, <1>9, StudentMessage, ZenonT(30)
  <2> QED BY <1>0, <1>9, <2>1, StudentKept, ZenonT(30)
       DEF Student!OpenMessages, Student!CloseMessages, Student!TapMessage, Student!clubVars,
               StudentInv
<1>10. CASE UNCHANGED Student!vars
  BY <1>0, <1>10, StudentKept, StudentClassesKept, ZenonT(30)
      DEF Student!vars, Student!clubVars, StudentInv
<1> QED BY <1>1, <1>2, <1>3, <1>4, <1>5, <1>6, <1>7, <1>8, <1>9, <1>10, ZenonT(30)
    DEF Student!Next, Student!ClassTask

(* and implies what the page promises.                                     *)
LEMMA StudentImplies ==
  ASSUME StudentInv PROVE Student!TypeOK /\ Student!EventsOnlyOnce
          /\ Student!OrderedUnlessLate /\ Student!ClassesByPeriod
<1>1. rows \in Nat
  BY DEF StudentInv, StudentClasses
<1> QED BY <1>1, ZenonT(30)
    DEF StudentInv, StudentEvents, StudentClasses, Student!TypeOK, Student!EventsOnlyOnce

(* What is known of the lists, for the operators of that page.             *)
LEMMA StudentFacts ==
  ASSUME BatchFacts, SortFacts, FiniteSetFacts
  PROVE  Student!BatchFacts /\ Student!SortFacts /\ Student!FiniteSetFacts
<1>1. Student!BatchFacts
  BY ZenonT(30) DEF Student!BatchFacts, BatchFacts, Student!WithBatch, WithBatch, Student!Listings,
     Listings, Student!Elems, Elems, Student!OnlyOnce, OnlyOnce, Student!IsFiniteSet, IsFiniteSet,
     Student!Cardinality, Cardinality
<1>2. Student!SortFacts
  BY ZenonT(30) DEF Student!SortFacts, SortFacts, Student!Sorts, Sorts, Student!Shuffles, Shuffles,
     Student!InOrder, InOrder, Student!Elems, Elems, Student!OnlyOnce, OnlyOnce
<1>3. Student!FiniteSetFacts
  BY ZenonT(30) DEF Student!FiniteSetFacts, FiniteSetFacts, Student!IsFiniteSet, IsFiniteSet,
     Student!Cardinality, Cardinality
<1> QED BY <1>1, <1>2, <1>3, ZenonT(30)

(* A step of the page, or of something else, keeps its invariant.          *)
LEMMA StudentMoves ==
  ASSUME BatchFacts, SortFacts, FiniteSetFacts, StudentInv, Student!Next \/ UNCHANGED Student!vars
  PROVE  StudentInv'
BY StudentFacts, StudentStep, ZenonT(30)

-----------------------------------------------------------------------------
Teacher == INSTANCE TeacherHome

(* Each event of the list was brought by an answer that has come.          *)
TeacherHas(e) ==
  \/ e \in NchsEvents /\ main = "done"
  \/ \E c \in Clubs : e \in EventsOf[c] /\ club[c] = "done"

(* The invariant of the page.                                              *)
TeacherInv ==
  /\ Teacher!TypeOK
  /\ Teacher!OnlyOnce(events) /\ Teacher!ByEndTime(events)
  /\ main = "activities" => club = [c \in Clubs |-> "none"]
  /\ \A e \in Teacher!Elems(events) : TeacherHas(e)

(* It holds when the page is opened,                                       *)
LEMMA TeacherInit == ASSUME Teacher!Init PROVE TeacherInv
<1>1. Teacher!TypeOK
  <2>1. now \in 0..MaxNow /\ rows \in Nat
    BY EventAssumption DEF Teacher!Init
  <2>2. events \in Seq(Events) /\ clubsList \in Seq(ExistingClubs)
          /\ classList \in Seq(ExistingClasses)
    BY DEF Teacher!Init
  <2>3. /\ club \in [Clubs -> {"none", "doc", "events", "done"}]
        /\ item \in [Clubs -> {"none", "doc", "done"}]
        /\ class \in [Classes -> {"none", "doc", "done"}]
    BY ZenonT(30) DEF Teacher!Init
  <2> QED BY <2>1, <2>2, <2>3, ZenonT(30) DEF Teacher!Init, Teacher!TypeOK
<1>2. \A i \in 1..Len(events) : FALSE
  BY DEF Teacher!Init
<1> QED BY <1>1, <1>2, ZenonT(30)
    DEF Teacher!Init, TeacherInv, Teacher!OnlyOnce, Teacher!ByEndTime, Teacher!InOrder,
            Teacher!Elems

(* The list after a batch was sorted in, or nothing was added.             *)
LEMMA TeacherBatch ==
  ASSUME Teacher!BatchFacts, Teacher!SortFacts, Teacher!FiniteSetFacts, TeacherInv,
         NEW S \in SUBSET Events, Teacher!Elems(events) \cap S = {},
         NEW q \in Teacher!WithBatch(events, S), NEW r,
         r \in Teacher!Sorts(q, EndTime) \/ (S = {} /\ r = q)
  PROVE  r \in Seq(Events) /\ Teacher!OnlyOnce(r) /\ Teacher!ByEndTime(r)
          /\ Teacher!Elems(r) = Teacher!Elems(events) \cup S
<1>1. events \in Seq(Events) /\ Teacher!OnlyOnce(events) /\ Teacher!ByEndTime(events)
  BY ZenonT(30) DEF TeacherInv, Teacher!TypeOK
<1>2. Teacher!IsFiniteSet(S)
  BY ZenonT(30) DEF Teacher!FiniteSetFacts
<1>3. q \in Seq(Events) /\ Teacher!Elems(q) = Teacher!Elems(events) \cup S
        /\ Teacher!OnlyOnce(q) /\ (S = {} => q = events)
  <2>1. \A r0 \in Teacher!WithBatch(events, S) :
          /\ r0 \in Seq(Events) /\ Teacher!Elems(r0) = Teacher!Elems(events) \cup S
          /\ Teacher!OnlyOnce(events) /\ Teacher!Elems(events) \cap S = {} => Teacher!OnlyOnce(r0)
          /\ S = {} => r0 = events
    BY <1>1, <1>2, ZenonT(30) DEF Teacher!BatchFacts
  <2> QED BY <1>1, <2>1, ZenonT(30)
<1>4. CASE r \in Teacher!Sorts(q, EndTime)
  BY <1>3, <1>4, ZenonT(30) DEF Teacher!SortFacts, Teacher!ByEndTime
<1>5. CASE S = {} /\ r = q
  BY <1>1, <1>3, <1>5, ZenonT(30)
<1> QED BY <1>4, <1>5, ZenonT(30)

(* The events of a club.                                                   *)
LEMMA TeacherClub ==
  ASSUME Teacher!BatchFacts, Teacher!SortFacts, Teacher!FiniteSetFacts, TeacherInv,
          NEW c \in Clubs, Teacher!GetClubEvents(c)
  PROVE  TeacherInv'
<1> DEFINE batch == IF c \in ExistingClubs THEN Teacher!Upcoming(EventsOf[c], now) ELSE {}
<1>1. /\ club[c] = "events" /\ club' = [club EXCEPT ![c] = "done"]
      /\ UNCHANGED <<now, main, Teacher!clubVars, Teacher!classVars, user, rows>>
  BY ZenonT(30) DEF Teacher!GetClubEvents
<1>2. \E q \in Teacher!WithBatch(events,
        batch) : events' \in IF batch = {} THEN {q} ELSE Teacher!Sorts(q, EndTime)
  BY ZenonT(30) DEF Teacher!GetClubEvents
<1>3. batch \subseteq EventsOf[c] /\ c \in AllClubs /\ EventsOf[c] \subseteq Events
  BY PageAssumption, ZenonT(30) DEF Teacher!Upcoming
<1>4. club \in [Clubs -> {"none", "doc", "events", "done"}]
  BY ZenonT(30) DEF TeacherInv, Teacher!TypeOK
<1>5. Teacher!Elems(events) \cap batch = {}
  <2> SUFFICES ASSUME NEW e \in Teacher!Elems(events), e \in EventsOf[c] PROVE FALSE
    BY <1>3, ZenonT(30)
  <2>1. TeacherHas(e)
    BY ZenonT(30) DEF TeacherInv
  <2>2. e \notin NchsEvents
    BY <1>3, PageAssumption, ZenonT(30)
  <2>3. \A d \in Clubs : e \in EventsOf[d] => d = c
    BY <1>3, PageAssumption, ZenonT(30)
  <2>4. club[c] # "done"
    BY <1>1, ZenonT(30)
  <2> QED BY <2>1, <2>2, <2>3, <2>4, ZenonT(30) DEF TeacherHas
<1>6. /\ events' \in Seq(Events) /\ Teacher!OnlyOnce(events') /\ Teacher!ByEndTime(events')
      /\ Teacher!Elems(events') = Teacher!Elems(events) \cup batch
  <2>1. PICK q \in Teacher!WithBatch(events,
          batch) : events' \in IF batch = {} THEN {q} ELSE Teacher!Sorts(q, EndTime)
    BY <1>2, ZenonT(30)
  <2>2. events' \in Teacher!Sorts(q, EndTime) \/ (batch = {} /\ events' = q)
    BY <2>1, ZenonT(30)
  <2>3. batch \in SUBSET Events
    BY <1>3, ZenonT(30)
  <2> HIDE DEF batch
  <2> QED BY <1>5, <2>2, <2>3, TeacherBatch, ZenonT(30)
<1>7. \A e \in Teacher!Elems(events') : TeacherHas(e)'
  <2>1. club'[c] = "done" /\ \A d \in Clubs : club[d] = "done" => club'[d] = "done"
    BY <1>1, <1>4, ZenonT(30)
  <2> QED BY <1>1, <1>3, <1>6, <2>1, ZenonT(30) DEF TeacherInv, TeacherHas
<1>8. club' \in [Clubs -> {"none", "doc", "events", "done"}] /\ dirty' \in BOOLEAN
  BY <1>1, <1>4, ZenonT(30) DEF Teacher!GetClubEvents
<1>9. main = "activities" => FALSE
  BY <1>1, ZenonT(30) DEF TeacherInv
<1> QED BY <1>1, <1>6, <1>7, <1>8, <1>9, ZenonT(30)
    DEF TeacherInv, Teacher!TypeOK, Teacher!clubVars, Teacher!classVars, Teacher!ByEndTime,
            Teacher!OnlyOnce, Teacher!InOrder

(* The events of the school.                                               *)
LEMMA TeacherSchool ==
  ASSUME Teacher!BatchFacts, Teacher!SortFacts, Teacher!FiniteSetFacts, TeacherInv,
          Teacher!GetNchsEvents
  PROVE  TeacherInv'
<1> DEFINE batch == Teacher!Upcoming(NchsEvents, now)
<1>1. main = "nchs" /\ main' = "done" /\ UNCHANGED <<now, club, Teacher!clubVars,
        Teacher!classVars, user, rows>>
  BY ZenonT(30) DEF Teacher!GetNchsEvents
<1>2. \E q \in Teacher!WithBatch(events,
        batch) : events' \in IF NchsEvents = {} THEN {q} ELSE Teacher!Sorts(q, EndTime)
  BY ZenonT(30) DEF Teacher!GetNchsEvents
<1>3. batch \subseteq NchsEvents /\ NchsEvents \subseteq Events
  BY EventAssumption, ZenonT(30) DEF Teacher!Upcoming
<1>4. Teacher!Elems(events) \cap batch = {}
  <2> SUFFICES ASSUME NEW e \in Teacher!Elems(events), e \in NchsEvents PROVE FALSE
    BY <1>3, ZenonT(30)
  <2>1. TeacherHas(e)
    BY ZenonT(30) DEF TeacherInv
  <2>2. \A c \in Clubs : e \notin EventsOf[c]
    BY PageAssumption, ZenonT(30)
  <2>3. main # "done"
    BY <1>1, ZenonT(30)
  <2> QED BY <2>1, <2>2, <2>3, ZenonT(30) DEF TeacherHas
<1>5. /\ events' \in Seq(Events) /\ Teacher!OnlyOnce(events') /\ Teacher!ByEndTime(events')
      /\ Teacher!Elems(events') = Teacher!Elems(events) \cup batch
  <2>1. PICK q \in Teacher!WithBatch(events,
          batch) : events' \in IF NchsEvents = {} THEN {q} ELSE Teacher!Sorts(q, EndTime)
    BY <1>2, ZenonT(30)
  <2>2. events' \in Teacher!Sorts(q, EndTime) \/ (batch = {} /\ events' = q)
    BY <1>3, <2>1, ZenonT(30)
  <2>3. batch \in SUBSET Events
    BY <1>3, ZenonT(30)
  <2> HIDE DEF batch
  <2> QED BY <1>4, <2>2, <2>3, TeacherBatch, ZenonT(30)
<1>6. \A e \in Teacher!Elems(events') : TeacherHas(e)'
  BY <1>1, <1>3, <1>5, ZenonT(30) DEF TeacherInv, TeacherHas
<1>7. dirty' \in BOOLEAN /\ (main' # "activities")
  BY <1>1, ZenonT(30) DEF Teacher!GetNchsEvents
<1> QED BY <1>1, <1>5, <1>6, <1>7, ZenonT(30)
        DEF TeacherInv, Teacher!TypeOK, Teacher!clubVars, Teacher!classVars, Teacher!ByEndTime,
                Teacher!OnlyOnce, Teacher!InOrder

(* The steps that bring no event.                                          *)
LEMMA TeacherKept ==
  ASSUME TeacherInv, Teacher!TypeOK', UNCHANGED events, main' # "activities" \/ UNCHANGED <<main,
          club>>,
         main = "done" => main' = "done",
         main = "activities" \/ \A c \in Clubs : club[c] = "done" => club'[c] = "done"
  PROVE  TeacherInv'
<1>1. \A e \in Teacher!Elems(events) : TeacherHas(e) => TeacherHas(e)'
  <2>1. main = "activities" => \A c \in Clubs : club[c] # "done"
    BY ZenonT(30) DEF TeacherInv
  <2> QED BY <2>1, ZenonT(30) DEF TeacherHas
<1>2. Teacher!Elems(events)' = Teacher!Elems(events)
  BY ZenonT(30) DEF Teacher!Elems
<1>3. Teacher!OnlyOnce(events)' /\ Teacher!ByEndTime(events)'
  BY ZenonT(30) DEF TeacherInv, Teacher!OnlyOnce, Teacher!ByEndTime, Teacher!InOrder
<1> QED BY <1>1, <1>2, <1>3, ZenonT(30) DEF TeacherInv

(* is kept by every step,                                                  *)
LEMMA TeacherStep ==
  ASSUME Teacher!BatchFacts, Teacher!SortFacts, Teacher!FiniteSetFacts, Teacher!AppendFacts,
          TeacherInv, Teacher!Next \/ UNCHANGED Teacher!vars
  PROVE  TeacherInv'
<1>0. Teacher!TypeOK
  BY ZenonT(30) DEF TeacherInv
<1>1. CASE Teacher!Tick
  <2>1. now' \in 0..MaxNow
    BY <1>0, <1>1, EventAssumption DEF Teacher!Tick, Teacher!TypeOK
  <2>2. Teacher!TypeOK'
    BY <1>0, <1>1, <2>1, ZenonT(30)
        DEF Teacher!Tick, Teacher!TypeOK, Teacher!eventVars, Teacher!clubVars, Teacher!classVars
  <2> QED BY <1>1, <2>2, TeacherKept, ZenonT(30) DEF Teacher!Tick, Teacher!eventVars
<1>2. CASE Teacher!GetUser
  <2>1. dirty' \in BOOLEAN
    BY <1>0, <1>2, ZenonT(30) DEF Teacher!GetUser, Teacher!TypeOK
  <2>2. Teacher!TypeOK'
    BY <1>0, <1>2, <2>1, ZenonT(30)
        DEF Teacher!GetUser, Teacher!TypeOK, Teacher!eventVars, Teacher!clubVars, Teacher!classVars
  <2> QED BY <1>2, <2>2, TeacherKept, ZenonT(30) DEF Teacher!GetUser, Teacher!eventVars
<1>3. CASE Teacher!GetActivities
  <2>1. main' # "activities" /\ main # "done"
    BY <1>3, ZenonT(30) DEF Teacher!GetActivities
  <2>2. Teacher!TypeOK'
    BY <1>0, <1>3, ZenonT(30)
        DEF Teacher!GetActivities, Teacher!TypeOK, Teacher!clubVars, Teacher!classVars
  <2> QED BY <1>3, <2>1, <2>2, TeacherKept, ZenonT(30) DEF Teacher!GetActivities
<1>4. ASSUME NEW c \in Clubs, Teacher!GetClub(c) PROVE TeacherInv'
  <2>1. /\ club' \in [Clubs -> {"none", "doc", "events", "done"}] /\ club[c] # "none"
        /\ \A d \in Clubs : club[d] = "done" => club'[d] = "done"
    BY <1>0, <1>4, ZenonT(30) DEF Teacher!GetClub, Teacher!TypeOK
  <2>2. Teacher!TypeOK'
    BY <1>0, <1>4, <2>1, ZenonT(30)
        DEF Teacher!GetClub, Teacher!TypeOK, Teacher!clubVars, Teacher!classVars
  <2>3. main # "activities" /\ main' = main /\ events' = events
    BY <1>4, <2>1, ZenonT(30) DEF Teacher!GetClub, TeacherInv
  <2> QED BY <2>1, <2>2, <2>3, TeacherKept, ZenonT(30)
<1>5. CASE Teacher!GetClubs
  <2>1. Teacher!TypeOK'
    BY <1>0, <1>5, ZenonT(30) DEF Teacher!GetClubs, Teacher!TypeOK, Teacher!eventVars, Teacher!classVars
  <2> QED BY <1>5, <2>1, TeacherKept, ZenonT(30) DEF Teacher!GetClubs, Teacher!eventVars
<1>6. ASSUME NEW c \in Clubs, Teacher!AddClub(c) PROVE TeacherInv'
  <2>1. item' \in [Clubs -> {"none", "doc", "done"}]
    BY <1>0, <1>6, ZenonT(30) DEF Teacher!AddClub, Teacher!TypeOK
  <2>2. clubsList' \in Seq(ExistingClubs) /\ dirty' \in BOOLEAN
    <3>1. CASE c \in ExistingClubs
      <4>1. clubsList' = Append(clubsList, c) /\ dirty' = TRUE /\ clubsList \in Seq(ExistingClubs)
        BY <1>0, <1>6, <3>1, ZenonT(30) DEF Teacher!AddClub, Teacher!TypeOK
      <4>2. Append(clubsList, c) \in Seq(ExistingClubs)
        BY <3>1, <4>1, ZenonT(30) DEF Teacher!AppendFacts
      <4> QED BY <4>1, <4>2, ZenonT(30)
    <3>2. CASE c \notin ExistingClubs
      BY <1>0, <1>6, <3>2, ZenonT(30) DEF Teacher!AddClub, Teacher!TypeOK
    <3> QED BY <3>1, <3>2, ZenonT(30)
  <2>3. Teacher!TypeOK'
    BY <1>0, <1>6, <2>1, <2>2, ZenonT(30)
        DEF Teacher!AddClub, Teacher!TypeOK, Teacher!eventVars, Teacher!classVars
  <2> QED BY <1>6, <2>3, TeacherKept, ZenonT(30) DEF Teacher!AddClub, Teacher!eventVars
<1>7. CASE Teacher!GetClasses
  <2>1. Teacher!TypeOK'
    BY <1>0, <1>7, ZenonT(30) DEF Teacher!GetClasses, Teacher!TypeOK, Teacher!eventVars, Teacher!clubVars
  <2> QED BY <1>7, <2>1, TeacherKept, ZenonT(30) DEF Teacher!GetClasses, Teacher!eventVars
<1>8. ASSUME NEW k \in Classes, Teacher!AddClass(k) PROVE TeacherInv'
  <2>1. class' \in [Classes -> {"none", "doc", "done"}]
    BY <1>0, <1>8, ZenonT(30) DEF Teacher!AddClass, Teacher!TypeOK
  <2>2. classList' \in Seq(ExistingClasses)
    BY <1>0, <1>8, ZenonT(30) DEF Teacher!AddClass, Teacher!TypeOK, Teacher!AppendFacts
  <2>3. Teacher!TypeOK'
    BY <1>0, <1>8, <2>1, <2>2, ZenonT(30)
        DEF Teacher!AddClass, Teacher!TypeOK, Teacher!eventVars, Teacher!clubVars
  <2> QED BY <1>8, <2>3, TeacherKept, ZenonT(30) DEF Teacher!AddClass, Teacher!eventVars
<1>9. CASE Teacher!Frame
  <2>1. rows' \in Nat
    BY <1>0, <1>9 DEF Teacher!Frame, Teacher!TypeOK
  <2>2. Teacher!TypeOK'
    BY <1>0, <1>9, <2>1, ZenonT(30)
        DEF Teacher!Frame, Teacher!TypeOK, Teacher!eventVars, Teacher!clubVars, Teacher!classVars
  <2> QED BY <1>9, <2>2, TeacherKept, ZenonT(30) DEF Teacher!Frame, Teacher!eventVars
<1>10. CASE Teacher!ShowClassesOrActivities
  <2>1. Teacher!TypeOK'
    BY <1>0, <1>10, ZenonT(30)
        DEF Teacher!ShowClassesOrActivities, Teacher!TypeOK, Teacher!eventVars, Teacher!clubVars,
                Teacher!classVars
  <2> QED BY <1>10, <2>1, TeacherKept, ZenonT(30) DEF Teacher!ShowClassesOrActivities, Teacher!eventVars
<1>11. CASE UNCHANGED Teacher!vars
  <2>1. Teacher!TypeOK'
    BY <1>0, <1>11, ZenonT(30)
        DEF Teacher!vars, Teacher!TypeOK, Teacher!eventVars, Teacher!clubVars, Teacher!classVars
  <2> QED BY <1>11, <2>1, TeacherKept, ZenonT(30) DEF Teacher!vars, Teacher!eventVars
<1> QED BY <1>1, <1>2, <1>3, <1>4, <1>5, <1>6, <1>7, <1>8, <1>9, <1>10, <1>11, TeacherClub,
           TeacherSchool, ZenonT(30) DEF Teacher!Next, Teacher!EventLoader, Teacher!ClubTask

(* and implies what the page promises.                                     *)
LEMMA TeacherImplies == ASSUME TeacherInv PROVE Teacher!TypeOK /\ Teacher!EventsOnlyOnce
        /\ Teacher!AlwaysByEndTime
BY ZenonT(30) DEF TeacherInv, Teacher!EventsOnlyOnce, Teacher!AlwaysByEndTime

(* What is known of the lists, for the operators of that page.             *)
LEMMA TeacherFacts ==
  ASSUME BatchFacts, SortFacts, FiniteSetFacts, AppendFacts
  PROVE  Teacher!BatchFacts /\ Teacher!SortFacts /\ Teacher!FiniteSetFacts /\ Teacher!AppendFacts
<1>1. Teacher!BatchFacts
  BY ZenonT(30) DEF Teacher!BatchFacts, BatchFacts, Teacher!WithBatch, WithBatch, Teacher!Listings,
     Listings, Teacher!Elems, Elems, Teacher!OnlyOnce, OnlyOnce, Teacher!IsFiniteSet, IsFiniteSet,
     Teacher!Cardinality, Cardinality
<1>2. Teacher!SortFacts
  BY ZenonT(30) DEF Teacher!SortFacts, SortFacts, Teacher!Sorts, Sorts, Teacher!Shuffles, Shuffles,
     Teacher!InOrder, InOrder, Teacher!Elems, Elems, Teacher!OnlyOnce, OnlyOnce
<1>3. Teacher!FiniteSetFacts
  BY ZenonT(30) DEF Teacher!FiniteSetFacts, FiniteSetFacts, Teacher!IsFiniteSet, IsFiniteSet,
     Teacher!Cardinality, Cardinality
<1>4. Teacher!AppendFacts
  BY ZenonT(30) DEF Teacher!AppendFacts, AppendFacts, Teacher!Elems, Elems, Teacher!OnlyOnce, OnlyOnce
<1> QED BY <1>1, <1>2, <1>3, <1>4, ZenonT(30)

(* A step of the page, or of something else, keeps its invariant.          *)
LEMMA TeacherMoves ==
  ASSUME BatchFacts, SortFacts, FiniteSetFacts, AppendFacts, TeacherInv,
          Teacher!Next \/ UNCHANGED Teacher!vars
  PROVE  TeacherInv'
BY TeacherFacts, TeacherStep, ZenonT(30)

-----------------------------------------------------------------------------
Parent == INSTANCE ParentHome

(* The events of the clubs differ in content, and the school's come once.  *)
ParentInv ==
  /\ Parent!TypeOK
  /\ Parent!OnlyOnce(events) /\ Parent!ByEndTime(events)
  /\ \A e, f \in Parent!Elems(events) \ NchsEvents : Parent!Content(e) = Parent!Content(f) => e = f
  /\ main # "done" => Parent!Elems(events) \cap NchsEvents = {}

(* Nothing is listed when the page is opened.                              *)
LEMMA ParentInit == ASSUME Parent!Init PROVE ParentInv
<1>1. now \in 0..MaxNow /\ rows \in Nat
  BY EventAssumption DEF Parent!Init
<1>2. events \in Seq(Events) /\ childrenList \in Seq(ExistingChildren)
        /\ \A i \in 1..Len(events) : FALSE
  BY DEF Parent!Init
<1> QED BY <1>1, <1>2, ZenonT(30)
    DEF Parent!Init, Parent!TypeOK, ParentInv, Parent!OnlyOnce, Parent!ByEndTime, Parent!InOrder,
            Parent!Elems

(* The list after a batch was sorted in, or nothing was added.             *)
LEMMA ParentBatch ==
  ASSUME Parent!BatchFacts, Parent!SortFacts, Parent!FiniteSetFacts, ParentInv,
         NEW S \in SUBSET Events, Parent!Elems(events) \cap S = {},
         NEW q \in Parent!WithBatch(events, S), NEW r,
         r \in Parent!Sorts(q, EndTime) \/ (S = {} /\ r = q)
  PROVE  r \in Seq(Events) /\ Parent!OnlyOnce(r) /\ Parent!ByEndTime(r)
          /\ Parent!Elems(r) = Parent!Elems(events) \cup S
<1>1. events \in Seq(Events) /\ Parent!OnlyOnce(events) /\ Parent!ByEndTime(events)
  BY ZenonT(30) DEF ParentInv, Parent!TypeOK
<1>2. Parent!IsFiniteSet(S)
  BY ZenonT(30) DEF Parent!FiniteSetFacts
<1>3. q \in Seq(Events) /\ Parent!Elems(q) = Parent!Elems(events) \cup S /\ Parent!OnlyOnce(q)
        /\ (S = {} => q = events)
  <2>1. \A r0 \in Parent!WithBatch(events, S) :
          /\ r0 \in Seq(Events) /\ Parent!Elems(r0) = Parent!Elems(events) \cup S
          /\ Parent!OnlyOnce(events) /\ Parent!Elems(events) \cap S = {} => Parent!OnlyOnce(r0)
          /\ S = {} => r0 = events
    BY <1>1, <1>2, ZenonT(30) DEF Parent!BatchFacts
  <2> QED BY <1>1, <2>1, ZenonT(30)
<1>4. CASE r \in Parent!Sorts(q, EndTime)
  BY <1>3, <1>4, ZenonT(30) DEF Parent!SortFacts, Parent!ByEndTime
<1>5. CASE S = {} /\ r = q
  BY <1>1, <1>3, <1>5, ZenonT(30)
<1> QED BY <1>4, <1>5, ZenonT(30)

(* The events of a club that are no duplicates.                            *)
LEMMA ParentClub ==
  ASSUME Parent!BatchFacts, Parent!SortFacts, Parent!FiniteSetFacts, ParentInv,
          NEW p \in Parent!Enrolments, Parent!GetActivityEvents(p),
         p[2] \in ExistingClubs
  PROVE  ParentInv'
<1> DEFINE batch == Parent!Upcoming(EventsOf[p[2]], now)
<1>1. PICK D \in Parent!Fresh(events, batch) : \E q \in Parent!WithBatch(events, D) :
        events' \in IF D = {} THEN {q} ELSE Parent!Sorts(q, EndTime)
  BY ZenonT(30) DEF Parent!GetActivityEvents
<1>2. p[2] \in AllClubs /\ D \subseteq EventsOf[p[2]] /\ D \subseteq Events
        /\ D \cap NchsEvents = {}
  <2>1. p[2] \in AllClubs
    BY PageAssumption, ZenonT(30)
  <2>2. D \subseteq EventsOf[p[2]]
    BY ZenonT(30) DEF Parent!Fresh, Parent!Upcoming
  <2> QED BY <2>1, <2>2, PageAssumption, ZenonT(30)
<1>3. /\ \A e \in D : \A f \in Parent!Elems(events) : Parent!Content(f) # Parent!Content(e)
      /\ \A e, f \in D : Parent!Content(e) = Parent!Content(f) => e = f
  BY ZenonT(30) DEF Parent!Fresh, Parent!isDuplicated, Parent!Elems
<1>4. Parent!Elems(events) \cap D = {}
  BY <1>3, ZenonT(30)
<1>5. PICK q \in Parent!WithBatch(events,
        D) : events' \in IF D = {} THEN {q} ELSE Parent!Sorts(q, EndTime)
  BY <1>1, ZenonT(30)
<1>6. /\ events' \in Seq(Events) /\ Parent!OnlyOnce(events') /\ Parent!ByEndTime(events')
      /\ Parent!Elems(events') = Parent!Elems(events) \cup D
  BY <1>2, <1>4, <1>5, ParentBatch, ZenonT(30)
<1>7. \A e, f \in Parent!Elems(events') \ NchsEvents : Parent!Content(e) = Parent!Content(f)
        => e = f
  BY <1>3, <1>6, ZenonT(30) DEF ParentInv
<1>8. main # "done" => Parent!Elems(events') \cap NchsEvents = {}
  BY <1>2, <1>6, ZenonT(30) DEF ParentInv
<1>9. activity' \in [Parent!Enrolments -> {"none", "doc", "events", "done"}] /\ dirty' \in BOOLEAN
  BY ZenonT(30) DEF Parent!GetActivityEvents, ParentInv, Parent!TypeOK
<1>10. UNCHANGED <<now, main, child, childrenList, user, rows>>
  BY ZenonT(30) DEF Parent!GetActivityEvents
<1> QED BY <1>6, <1>7, <1>8, <1>9, <1>10, ZenonT(30)
        DEF ParentInv, Parent!TypeOK, Parent!ByEndTime, Parent!OnlyOnce, Parent!InOrder,
                Parent!Elems

(* The events of the school.                                               *)
LEMMA ParentSchool ==
  ASSUME Parent!BatchFacts, Parent!SortFacts, Parent!FiniteSetFacts, ParentInv, Parent!GetNchsEvents
  PROVE  ParentInv'
<1> DEFINE batch == Parent!Upcoming(NchsEvents, now)
<1>1. main = "nchs" /\ main' = "done" /\ UNCHANGED <<now, child, activity, childrenList, user,
        rows>>
  BY ZenonT(30) DEF Parent!GetNchsEvents
<1>2. PICK q \in Parent!WithBatch(events, batch) :
        events' \in IF NchsEvents = {} THEN {q} ELSE Parent!Sorts(q, EndTime)
  BY ZenonT(30) DEF Parent!GetNchsEvents
<1>3. batch \subseteq NchsEvents /\ NchsEvents \subseteq Events
  BY EventAssumption, ZenonT(30) DEF Parent!Upcoming
<1>4. Parent!Elems(events) \cap NchsEvents = {}
  <2>1. main # "done"
    BY <1>1, ZenonT(30)
  <2> QED BY <2>1, ZenonT(30) DEF ParentInv
<1>5. /\ events' \in Seq(Events) /\ Parent!OnlyOnce(events') /\ Parent!ByEndTime(events')
      /\ Parent!Elems(events') = Parent!Elems(events) \cup batch
  <2>1. events' \in Parent!Sorts(q, EndTime) \/ (batch = {} /\ events' = q)
    BY <1>2, <1>3, ZenonT(30)
  <2>2. batch \in SUBSET Events /\ Parent!Elems(events) \cap batch = {}
    BY <1>3, <1>4, ZenonT(30)
  <2> HIDE DEF batch
  <2> QED BY <2>1, <2>2, ParentBatch, ZenonT(30)
<1>6. Parent!Elems(events') \ NchsEvents = Parent!Elems(events) \ NchsEvents
  BY <1>3, <1>5, ZenonT(30)
<1>7. \A e, f \in Parent!Elems(events') \ NchsEvents : Parent!Content(e) = Parent!Content(f)
        => e = f
  BY <1>6, ZenonT(30) DEF ParentInv
<1>8. dirty' \in BOOLEAN /\ main' \in {"students", "nchs", "done"}
  BY <1>1, ZenonT(30) DEF Parent!GetNchsEvents
<1>9. Parent!TypeOK'
  BY <1>1, <1>5, <1>8, ZenonT(30) DEF ParentInv, Parent!TypeOK
<1>10. (main # "done" => Parent!Elems(events) \cap NchsEvents = {})'
  BY <1>1, ZenonT(30)
<1> QED BY <1>5, <1>7, <1>9, <1>10, ZenonT(30) DEF ParentInv

(* The steps that bring no event.                                          *)
LEMMA ParentKept ==
  ASSUME ParentInv, Parent!TypeOK', UNCHANGED events, main = "done" => main' = "done"
          PROVE ParentInv'
BY ZenonT(30) DEF ParentInv

(* Every step keeps the invariant,                                         *)
LEMMA ParentStep ==
  ASSUME Parent!BatchFacts, Parent!SortFacts, Parent!FiniteSetFacts, Parent!AppendFacts,
          ParentInv, Parent!Next \/ UNCHANGED Parent!vars
  PROVE  ParentInv'
<1>0. Parent!TypeOK
  BY ZenonT(30) DEF ParentInv
<1>1. CASE Parent!Tick
  <2>1. now' \in 0..MaxNow
    BY <1>0, <1>1, EventAssumption DEF Parent!Tick, Parent!TypeOK
  <2>2. Parent!TypeOK'
    BY <1>0, <1>1, <2>1, ZenonT(30) DEF Parent!Tick, Parent!TypeOK
  <2> QED BY <1>1, <2>2, ParentKept, ZenonT(30) DEF Parent!Tick
<1>2. CASE Parent!GetFirstName
  <2>1. Parent!TypeOK'
    BY <1>0, <1>2, ZenonT(30) DEF Parent!GetFirstName, Parent!TypeOK
  <2> QED BY <1>2, <2>1, ParentKept, ZenonT(30) DEF Parent!GetFirstName
<1>3. CASE Parent!GetStudents
  <2>1. Parent!TypeOK'
    BY <1>0, <1>3, ZenonT(30) DEF Parent!GetStudents, Parent!TypeOK
  <2>2. main # "done"
    BY <1>3, ZenonT(30) DEF Parent!GetStudents
  <2> QED BY <1>3, <2>1, <2>2, ParentKept, ZenonT(30) DEF Parent!GetStudents
<1>4. ASSUME NEW k \in Children, Parent!GetChild(k) PROVE ParentInv'
  <2>1. child' \in [Children -> {"none", "doc", "activities", "done"}]
    BY <1>0, <1>4, ZenonT(30) DEF Parent!GetChild, Parent!TypeOK
  <2>2. childrenList' \in Seq(ExistingChildren)
    BY <1>0, <1>4, ZenonT(30) DEF Parent!GetChild, Parent!TypeOK, Parent!AppendFacts
  <2>3. Parent!TypeOK'
    BY <1>0, <1>4, <2>1, <2>2, ZenonT(30) DEF Parent!GetChild, Parent!TypeOK
  <2> QED BY <1>4, <2>3, ParentKept, ZenonT(30) DEF Parent!GetChild
<1>5. ASSUME NEW k \in Children, Parent!GetActivities(k) PROVE ParentInv'
  <2>1. child' \in [Children -> {"none", "doc", "activities", "done"}]
    BY <1>0, <1>5, ZenonT(30) DEF Parent!GetActivities, Parent!TypeOK
  <2>2. activity' \in [Parent!Enrolments -> {"none", "doc", "events", "done"}]
    BY <1>0, <1>5, ZenonT(30) DEF Parent!GetActivities, Parent!TypeOK
  <2>3. Parent!TypeOK'
    BY <1>0, <1>5, <2>1, <2>2, ZenonT(30) DEF Parent!GetActivities, Parent!TypeOK
  <2> QED BY <1>5, <2>3, ParentKept, ZenonT(30) DEF Parent!GetActivities
<1>6. ASSUME NEW p \in Parent!Enrolments, Parent!GetActivity(p) PROVE ParentInv'
  <2>1. activity' \in [Parent!Enrolments -> {"none", "doc", "events", "done"}]
    BY <1>0, <1>6, ZenonT(30) DEF Parent!GetActivity, Parent!TypeOK
  <2>2. Parent!TypeOK'
    BY <1>0, <1>6, <2>1, ZenonT(30) DEF Parent!GetActivity, Parent!TypeOK
  <2> QED BY <1>6, <2>2, ParentKept, ZenonT(30) DEF Parent!GetActivity
<1>7. ASSUME NEW p \in Parent!Enrolments, Parent!GetActivityEvents(p) PROVE ParentInv'
  <2>1. CASE p[2] \in ExistingClubs
    BY <1>7, <2>1, ParentClub, ZenonT(30)
  <2>2. CASE p[2] \notin ExistingClubs
    <3>1. activity' \in [Parent!Enrolments -> {"none", "doc", "events", "done"}]
      BY <1>0, <1>7, ZenonT(30) DEF Parent!GetActivityEvents, Parent!TypeOK
    <3>2. UNCHANGED <<events, dirty>>
      BY <1>7, <2>2, ZenonT(30) DEF Parent!GetActivityEvents
    <3>3. Parent!TypeOK'
      BY <1>0, <1>7, <3>1, <3>2, ZenonT(30) DEF Parent!GetActivityEvents, Parent!TypeOK
    <3> QED BY <1>7, <3>2, <3>3, ParentKept, ZenonT(30) DEF Parent!GetActivityEvents
  <2> QED BY <2>1, <2>2, ZenonT(30)
<1>8. CASE Parent!Frame
  <2>1. rows' \in Nat
    BY <1>0, <1>8 DEF Parent!Frame, Parent!TypeOK
  <2>2. Parent!TypeOK'
    BY <1>0, <1>8, <2>1, ZenonT(30) DEF Parent!Frame, Parent!TypeOK
  <2> QED BY <1>8, <2>2, ParentKept, ZenonT(30) DEF Parent!Frame
<1>9. CASE UNCHANGED Parent!vars
  <2>1. Parent!TypeOK'
    BY <1>0, <1>9, ZenonT(30) DEF Parent!vars, Parent!TypeOK
  <2> QED BY <1>9, <2>1, ParentKept, ZenonT(30) DEF Parent!vars
<1> QED BY <1>1, <1>2, <1>3, <1>4, <1>5, <1>6, <1>7, <1>8, <1>9, ParentSchool, ZenonT(30)
        DEF Parent!Next, Parent!Loader, Parent!ChildTask, Parent!ActivityTask

(* which implies what the page promises.                                   *)
LEMMA ParentImplies == ASSUME ParentInv PROVE Parent!TypeOK /\ Parent!AlwaysByEndTime
        /\ Parent!NoDuplicates
<1>1. \A i, j \in 1..Len(events) :
        events[i] \in Parent!Elems(events) /\ (events[i] = events[j] => i = j)
  BY ZenonT(30) DEF ParentInv, Parent!OnlyOnce, Parent!Elems
<1> QED BY <1>1, ZenonT(30) DEF ParentInv, Parent!AlwaysByEndTime, Parent!NoDuplicates

(* What is known of the lists, for the operators of that page.             *)
LEMMA ParentFacts ==
  ASSUME BatchFacts, SortFacts, FiniteSetFacts, AppendFacts
  PROVE  Parent!BatchFacts /\ Parent!SortFacts /\ Parent!FiniteSetFacts /\ Parent!AppendFacts
<1>1. Parent!BatchFacts
  BY ZenonT(30) DEF Parent!BatchFacts, BatchFacts, Parent!WithBatch, WithBatch, Parent!Listings,
     Listings, Parent!Elems, Elems, Parent!OnlyOnce, OnlyOnce, Parent!IsFiniteSet, IsFiniteSet,
     Parent!Cardinality, Cardinality
<1>2. Parent!SortFacts
  BY ZenonT(30) DEF Parent!SortFacts, SortFacts, Parent!Sorts, Sorts, Parent!Shuffles, Shuffles,
     Parent!InOrder, InOrder, Parent!Elems, Elems, Parent!OnlyOnce, OnlyOnce
<1>3. Parent!FiniteSetFacts
  BY ZenonT(30) DEF Parent!FiniteSetFacts, FiniteSetFacts, Parent!IsFiniteSet, IsFiniteSet,
     Parent!Cardinality, Cardinality
<1>4. Parent!AppendFacts
  BY ZenonT(30) DEF Parent!AppendFacts, AppendFacts, Parent!Elems, Elems, Parent!OnlyOnce, OnlyOnce
<1> QED BY <1>1, <1>2, <1>3, <1>4, ZenonT(30)

(* A step of the page, or of something else, keeps its invariant.          *)
LEMMA ParentMoves ==
  ASSUME BatchFacts, SortFacts, FiniteSetFacts, AppendFacts, ParentInv,
          Parent!Next \/ UNCHANGED Parent!vars
  PROVE  ParentInv'
BY ParentFacts, ParentStep, ZenonT(30)

-----------------------------------------------------------------------------
Calendar == INSTANCE ParentCalendar

(* Whether an appointment is of a club, not of the school.                 *)
OfClub(a) == a.event \notin NchsEvents

(* The appointments of the clubs differ, and the school's come once.       *)
CalendarInv ==
  /\ Calendar!TypeOK
  /\ Calendar!OnlyOnce(appointments)
  /\ \A a, b \in Calendar!Elems(appointments) : OfClub(a) /\ OfClub(b) /\ Calendar!Same(a, b)
          => a = b
  /\ main # "done" => \A a \in Calendar!Elems(appointments) : OfClub(a)

(* Nothing is listed when the page is opened.                              *)
LEMMA CalendarInit == ASSUME Calendar!Init PROVE CalendarInv
<1>1. now \in 0..MaxNow
  BY EventAssumption DEF Calendar!Init
<1>2. appointments \in Seq(Calendar!Appointment) /\ \A i \in 1..Len(appointments) : FALSE
  BY DEF Calendar!Init
<1> QED BY <1>1, <1>2, ZenonT(30)
    DEF Calendar!Init, Calendar!TypeOK, CalendarInv, Calendar!OnlyOnce, Calendar!Elems

(* Appointments of events are finitely many.                               *)
LEMMA CalendarFinite ==
  ASSUME Calendar!FiniteSetFacts, NEW E \in SUBSET Events, NEW S,
         \/ S \subseteq {Calendar!ClubAppointment(e) : e \in E}
         \/ S \subseteq {Calendar!NchsAppointment(e) : e \in E}
  PROVE  S \subseteq Calendar!Appointment /\ Calendar!IsFiniteSet(S) /\ \A a \in S : a.event \in E
<1>1. \A e \in Events : /\ Calendar!ClubAppointment(e) \in Calendar!Appointment
        /\ Calendar!ClubAppointment(e).event = e
                        /\ Calendar!NchsAppointment(e) \in Calendar!Appointment
                                /\ Calendar!NchsAppointment(e).event = e
  BY EventAssumption, ZenonT(30)
      DEF Calendar!ClubAppointment, Calendar!NchsAppointment, Calendar!Appointment
<1>2. CASE S \subseteq {Calendar!ClubAppointment(e) : e \in E}
  <2> DEFINE f == [e \in Events |-> Calendar!ClubAppointment(e)]
  <2>1. S \subseteq {f[e] : e \in Events}
    BY <1>2, ZenonT(30)
  <2> HIDE DEF f
  <2>2. Calendar!IsFiniteSet(S)
    BY <2>1, ZenonT(30) DEF Calendar!FiniteSetFacts
  <2> QED BY <1>1, <1>2, <2>2, ZenonT(30)
<1>3. CASE S \subseteq {Calendar!NchsAppointment(e) : e \in E}
  <2> DEFINE f == [e \in Events |-> Calendar!NchsAppointment(e)]
  <2>1. S \subseteq {f[e] : e \in Events}
    BY <1>3, ZenonT(30)
  <2> HIDE DEF f
  <2>2. Calendar!IsFiniteSet(S)
    BY <2>1, ZenonT(30) DEF Calendar!FiniteSetFacts
  <2> QED BY <1>1, <1>3, <2>2, ZenonT(30)
<1> QED BY <1>2, <1>3, ZenonT(30)

(* The list after a batch was added.                                       *)
LEMMA CalendarBatch ==
  ASSUME Calendar!BatchFacts, CalendarInv, NEW S \in SUBSET Calendar!Appointment,
          Calendar!IsFiniteSet(S),
         Calendar!Elems(appointments) \cap S = {}, NEW r \in Calendar!WithBatch(appointments, S)
  PROVE  r \in Seq(Calendar!Appointment) /\ Calendar!OnlyOnce(r)
          /\ Calendar!Elems(r) = Calendar!Elems(appointments) \cup S
<1>1. appointments \in Seq(Calendar!Appointment) /\ Calendar!OnlyOnce(appointments)
  BY ZenonT(30) DEF CalendarInv, Calendar!TypeOK
<1>2. \A q \in Calendar!WithBatch(appointments, S) :
        /\ q \in Seq(Calendar!Appointment)
                /\ Calendar!Elems(q) = Calendar!Elems(appointments) \cup S
        /\ Calendar!OnlyOnce(appointments) /\ Calendar!Elems(appointments) \cap S = {}
                => Calendar!OnlyOnce(q)
        /\ S = {} => q = appointments
  BY <1>1, ZenonT(30) DEF Calendar!BatchFacts
<1> QED BY <1>1, <1>2, ZenonT(30)

(* The appointments of a club that are no duplicates.                      *)
LEMMA CalendarClub ==
  ASSUME Calendar!BatchFacts, Calendar!FiniteSetFacts, CalendarInv,
          NEW p \in Calendar!Enrolments, Calendar!GetActivityEvents(p)
  PROVE  CalendarInv'
<1> DEFINE batch == {Calendar!ClubAppointment(e) : e \in Calendar!Upcoming(EventsOf[p[2]], now)}
<1>1. activity' \in [Calendar!Enrolments -> {"none", "doc", "events", "done"}]
  BY ZenonT(30) DEF Calendar!GetActivityEvents, CalendarInv, Calendar!TypeOK
<1>2. UNCHANGED <<now, main, child, hasLoaded>>
  BY ZenonT(30) DEF Calendar!GetActivityEvents
<1>3. CASE p[2] \notin ExistingClubs
  <2>1. UNCHANGED appointments
    BY <1>3, ZenonT(30) DEF Calendar!GetActivityEvents
  <2> QED BY <1>1, <1>2, <2>1, ZenonT(30) DEF CalendarInv, Calendar!TypeOK
<1>4. CASE p[2] \in ExistingClubs
  <2>1. PICK D \in Calendar!Fresh(appointments,
          batch) : appointments' \in Calendar!WithBatch(appointments, D)
    BY <1>4, ZenonT(30) DEF Calendar!GetActivityEvents
  <2>2. /\ D \subseteq batch
        /\ \A a \in D : \A b \in Calendar!Elems(appointments) : ~Calendar!Same(b, a)
        /\ \A a, b \in D : Calendar!Same(a, b) => a = b
    <3> HIDE DEF batch
    <3>1. /\ D \subseteq batch /\ \A a \in D : ~Calendar!isDuplicated(a, appointments)
          /\ \A a, b \in D : Calendar!Same(a, b) => a = b
      BY ZenonT(30) DEF Calendar!Fresh
    <3> QED BY <3>1, ZenonT(30) DEF Calendar!isDuplicated, Calendar!Elems
  <2>3. /\ Calendar!Upcoming(EventsOf[p[2]], now) \subseteq EventsOf[p[2]]
        /\ EventsOf[p[2]] \in SUBSET Events /\ EventsOf[p[2]] \cap NchsEvents = {}
    BY <1>4, PageAssumption, ZenonT(30) DEF Calendar!Upcoming
  <2>4. D \in SUBSET Calendar!Appointment /\ Calendar!IsFiniteSet(D) /\ \A a \in D : OfClub(a)
    <3>1. Calendar!Upcoming(EventsOf[p[2]], now) \in SUBSET Events
      BY <2>3, ZenonT(30)
    <3>2. D \subseteq Calendar!Appointment /\ Calendar!IsFiniteSet(D)
            /\ \A a \in D : a.event \in Calendar!Upcoming(EventsOf[p[2]], now)
      BY <2>2, <3>1, CalendarFinite, ZenonT(30)
    <3> QED BY <2>3, <3>2, ZenonT(30) DEF OfClub
  <2>5. Calendar!Elems(appointments) \cap D = {}
    BY <2>2, ZenonT(30) DEF Calendar!Same
  <2>6. /\ appointments' \in Seq(Calendar!Appointment) /\ Calendar!OnlyOnce(appointments')
        /\ Calendar!Elems(appointments') = Calendar!Elems(appointments) \cup D
    BY <2>1, <2>4, <2>5, CalendarBatch, ZenonT(30)
  <2>7. \A a, b : Calendar!Same(a, b) => Calendar!Same(b, a)
    BY ZenonT(30) DEF Calendar!Same
  <2>8. \A a, b \in Calendar!Elems(appointments') : OfClub(a) /\ OfClub(b) /\ Calendar!Same(a,
          b) => a = b
    BY <2>2, <2>6, <2>7, ZenonT(30) DEF CalendarInv
  <2>9. main # "done" => \A a \in Calendar!Elems(appointments') : OfClub(a)
    BY <2>4, <2>6, ZenonT(30) DEF CalendarInv
  <2>10. Calendar!TypeOK'
    BY <1>1, <1>2, <2>6, ZenonT(30) DEF CalendarInv, Calendar!TypeOK
  <2> QED BY <1>2, <2>6, <2>8, <2>9, <2>10, ZenonT(30) DEF CalendarInv
<1> QED BY <1>3, <1>4, ZenonT(30)

(* The appointments of the school.                                         *)
LEMMA CalendarSchool ==
  ASSUME Calendar!BatchFacts, Calendar!FiniteSetFacts, CalendarInv, Calendar!GetNchsEvents
  PROVE  CalendarInv'
<1> DEFINE batch == {Calendar!NchsAppointment(e) : e \in Calendar!Upcoming(NchsEvents, now)}
<1>1. /\ main = "nchs" /\ main' = "done" /\ hasLoaded' = TRUE /\ UNCHANGED <<now, child, activity>>
      /\ appointments' \in Calendar!WithBatch(appointments, batch)
  BY ZenonT(30) DEF Calendar!GetNchsEvents
<1>2. batch \in SUBSET Calendar!Appointment /\ Calendar!IsFiniteSet(batch)
        /\ \A a \in batch : ~OfClub(a)
  <2>1. Calendar!Upcoming(NchsEvents, now) \subseteq NchsEvents /\ NchsEvents \subseteq Events
    BY EventAssumption, ZenonT(30) DEF Calendar!Upcoming
  <2>2. Calendar!Upcoming(NchsEvents, now) \in SUBSET Events
    BY <2>1, ZenonT(30)
  <2>3. batch \subseteq Calendar!Appointment /\ Calendar!IsFiniteSet(batch)
          /\ \A a \in batch : a.event \in Calendar!Upcoming(NchsEvents, now)
    BY <2>2, CalendarFinite, ZenonT(30)
  <2> QED BY <2>1, <2>3, ZenonT(30) DEF OfClub
<1>3. \A a \in Calendar!Elems(appointments) : OfClub(a)
  <2>1. main # "done"
    BY <1>1, ZenonT(30)
  <2> QED BY <2>1, ZenonT(30) DEF CalendarInv
<1>4. /\ appointments' \in Seq(Calendar!Appointment) /\ Calendar!OnlyOnce(appointments')
      /\ Calendar!Elems(appointments') = Calendar!Elems(appointments) \cup batch
  <2> HIDE DEF batch
  <2> QED BY <1>1, <1>2, <1>3, CalendarBatch, ZenonT(30)
<1>5. \A a, b \in Calendar!Elems(appointments') : OfClub(a) /\ OfClub(b) /\ Calendar!Same(a,
        b) => a = b
  BY <1>2, <1>4, ZenonT(30) DEF CalendarInv
<1>6. Calendar!TypeOK'
  BY <1>1, <1>4, ZenonT(30) DEF CalendarInv, Calendar!TypeOK
<1> QED BY <1>1, <1>4, <1>5, <1>6, ZenonT(30) DEF CalendarInv

(* The steps that bring no appointment.                                    *)
LEMMA CalendarKept ==
  ASSUME CalendarInv, Calendar!TypeOK', UNCHANGED appointments, main = "done"
          => main' = "done" PROVE CalendarInv'
BY ZenonT(30) DEF CalendarInv

(* Every step keeps the invariant,                                         *)
LEMMA CalendarStep ==
  ASSUME Calendar!BatchFacts, Calendar!FiniteSetFacts, CalendarInv,
          Calendar!Next \/ UNCHANGED Calendar!vars PROVE CalendarInv'
<1>0. Calendar!TypeOK
  BY ZenonT(30) DEF CalendarInv
<1>1. CASE Calendar!Tick
  <2>1. now' \in 0..MaxNow
    BY <1>0, <1>1, EventAssumption DEF Calendar!Tick, Calendar!TypeOK
  <2>2. Calendar!TypeOK'
    BY <1>0, <1>1, <2>1, ZenonT(30) DEF Calendar!Tick, Calendar!TypeOK
  <2> QED BY <1>1, <2>2, CalendarKept, ZenonT(30) DEF Calendar!Tick
<1>2. CASE Calendar!GetStudents
  <2>1. Calendar!TypeOK' /\ main # "done"
    BY <1>0, <1>2, ZenonT(30) DEF Calendar!GetStudents, Calendar!TypeOK
  <2> QED BY <1>2, <2>1, CalendarKept, ZenonT(30) DEF Calendar!GetStudents
<1>3. ASSUME NEW k \in Children, Calendar!GetActivities(k) PROVE CalendarInv'
  <2>1. child' \in [Children -> {"none", "activities", "done"}]
    BY <1>0, <1>3, ZenonT(30) DEF Calendar!GetActivities, Calendar!TypeOK
  <2>2. activity' \in [Calendar!Enrolments -> {"none", "doc", "events", "done"}]
    BY <1>0, <1>3, ZenonT(30) DEF Calendar!GetActivities, Calendar!TypeOK
  <2>3. Calendar!TypeOK'
    BY <1>0, <1>3, <2>1, <2>2, ZenonT(30) DEF Calendar!GetActivities, Calendar!TypeOK
  <2> QED BY <1>3, <2>3, CalendarKept, ZenonT(30) DEF Calendar!GetActivities
<1>4. ASSUME NEW p \in Calendar!Enrolments, Calendar!GetActivity(p) PROVE CalendarInv'
  <2>1. activity' \in [Calendar!Enrolments -> {"none", "doc", "events", "done"}]
    BY <1>0, <1>4, ZenonT(30) DEF Calendar!GetActivity, Calendar!TypeOK
  <2>2. Calendar!TypeOK'
    BY <1>0, <1>4, <2>1, ZenonT(30) DEF Calendar!GetActivity, Calendar!TypeOK
  <2> QED BY <1>4, <2>2, CalendarKept, ZenonT(30) DEF Calendar!GetActivity
<1>5. CASE UNCHANGED Calendar!vars
  <2>1. Calendar!TypeOK'
    BY <1>0, <1>5, ZenonT(30) DEF Calendar!vars, Calendar!TypeOK
  <2> QED BY <1>5, <2>1, CalendarKept, ZenonT(30) DEF Calendar!vars
<1> QED BY <1>1, <1>2, <1>3, <1>4, <1>5, CalendarClub, CalendarSchool, ZenonT(30)
        DEF Calendar!Next, Calendar!Loader, Calendar!ActivityTask

(* which implies what the page promises.                                   *)
LEMMA CalendarImplies == ASSUME CalendarInv PROVE Calendar!TypeOK /\ Calendar!NoDuplicates
<1>1. \A i, j \in 1..Len(appointments) :
        appointments[i] \in Calendar!Elems(appointments) /\ (appointments[i] = appointments[j]
                => i = j)
  BY ZenonT(30) DEF CalendarInv, Calendar!OnlyOnce, Calendar!Elems
<1> QED BY <1>1, ZenonT(30) DEF CalendarInv, OfClub, Calendar!NoDuplicates

(* What is known of the lists, for the operators of that page.             *)
LEMMA CalendarFacts ==
  ASSUME BatchFacts, FiniteSetFacts
  PROVE  Calendar!BatchFacts /\ Calendar!FiniteSetFacts
<1>1. Calendar!BatchFacts
  BY ZenonT(30) DEF Calendar!BatchFacts, BatchFacts, Calendar!WithBatch, WithBatch, Calendar!Listings,
     Listings, Calendar!Elems, Elems, Calendar!OnlyOnce, OnlyOnce, Calendar!IsFiniteSet,
     IsFiniteSet, Calendar!Cardinality, Cardinality
<1>2. Calendar!FiniteSetFacts
  BY ZenonT(30) DEF Calendar!FiniteSetFacts, FiniteSetFacts, Calendar!IsFiniteSet, IsFiniteSet,
     Calendar!Cardinality, Cardinality
<1> QED BY <1>1, <1>2, ZenonT(30)

(* A step of the page, or of something else, keeps its invariant.          *)
LEMMA CalendarMoves ==
  ASSUME BatchFacts, FiniteSetFacts, CalendarInv, Calendar!Next \/ UNCHANGED Calendar!vars
  PROVE  CalendarInv'
BY CalendarFacts, CalendarStep, ZenonT(30)

-----------------------------------------------------------------------------
Report == INSTANCE Absences

(* The documents of absences, and the fields of the form.                  *)
Absence == Report!WholeDays \cup Report!PartOfDay
ReportForm ==
  [kind : Report!Kinds, reason : Report!Reasons, range : Report!Days \X Report!Days,
   from : Report!Days, to : Report!Days, day : Report!Days, hours : Report!Hours]

(* The form and what was stored, with every range in order.                *)
ReportInv ==
  /\ form \in ReportForm \cup {None}
  /\ form # None => form.from <= form.to
  /\ reports \in 0..MaxReports
  /\ absences \in Seq(Absence)
  /\ \A n \in 1..Len(absences) : absences[n] \in Report!WholeDays
          => absences[n].from <= absences[n].to

(* The form is opened on today, though its picker is not.                  *)
LEMMA ReportOpened == Report!Opened \in ReportForm /\ Report!Opened.from <= Report!Opened.to
BY DEF Report!Opened, ReportForm, Report!Kinds, Report!Reasons, Report!Days, Report!Hours

(* Nothing is reported when the form is opened.                            *)
LEMMA ReportInit == ASSUME Report!Init PROVE ReportInv
<1>1. reports \in 0..MaxReports
  BY TabAssumption DEF Report!Init
<1> QED BY <1>1, ReportOpened DEF Report!Init, ReportInv

(* Submit stores what its half of the form shows.                          *)
LEMMA ReportSubmit == ASSUME ReportInv, NEW p \in BOOLEAN, Report!Submit(p) PROVE ReportInv'
<1> DEFINE a == Report!addAbsence(p)
<1>1. /\ form # None
      /\ absences' = Append(absences, a)
      /\ form' = None /\ reports' = reports
  BY ZenonT(30) DEF Report!Submit
<1>2. form \in ReportForm
  BY <1>1, ZenonT(30) DEF ReportInv
<1>3. CASE p
  <2>1. a = [reason |-> form.reason, day |-> form.day, hours |-> form.hours]
    BY <1>3, ZenonT(30) DEF Report!addAbsence
  <2>2. a \in Report!PartOfDay /\ a \notin Report!WholeDays
    BY <2>1, <1>2 DEF Report!PartOfDay, Report!WholeDays, ReportForm
  <2> QED BY <2>2, <1>1 DEF ReportInv, Absence
<1>4. CASE ~p
  <2>1. a = [reason |-> form.reason, from |-> form.from, to |-> form.to]
    BY <1>4, ZenonT(30) DEF Report!addAbsence
  <2>2. a \in Report!WholeDays /\ a.from <= a.to
    BY <2>1, <1>1, <1>2 DEF Report!WholeDays, ReportInv, ReportForm
  <2> QED BY <2>2, <1>1 DEF ReportInv, Absence
<1> QED BY <1>3, <1>4, ZenonT(30)

(* A tap leaves the picker with a range of days that is in order, whatever *)
(* range it had.                                                           *)
LEMMA PickedInOrder ==
  ASSUME NEW g \in Report!Days \X Report!Days, NEW d \in Report!Days
  PROVE  /\ Report!Picked(g, d) \in Report!Days \X Report!Days
         /\ Report!Picked(g, d)[1] <= Report!Picked(g, d)[2]
BY DEF Report!Picked, Report!Days

(* The dates of the form stay in order, as what the picker hands over is.  *)
LEMMA ReportStep == ASSUME ReportInv, Report!Next \/ UNCHANGED Report!vars PROVE ReportInv'
<1>1. ASSUME NEW k \in {Report!Whole, Report!Part}, Report!SelectKind(k) PROVE ReportInv'
  BY <1>1, ZenonT(30) DEF Report!SelectKind, ReportInv, ReportForm, Report!Whole, Report!Part,
    Report!Kinds
<1>2. ASSUME NEW d \in Report!Days, Report!selectionChanged(d) PROVE ReportInv'
  <2> DEFINE picked == Report!Picked(form.range, d)
  <2>1. /\ form \in ReportForm /\ form # None
        /\ form' = [form EXCEPT !.range = picked, !.from = picked[1], !.to = picked[2]]
        /\ absences' = absences /\ reports' = reports
    BY <1>2, ZenonT(30) DEF Report!selectionChanged, ReportInv
  <2>2. form.range \in Report!Days \X Report!Days
    BY <2>1 DEF ReportForm
  <2>3. picked \in Report!Days \X Report!Days /\ picked[1] <= picked[2]
    BY <2>2, PickedInOrder, ZenonT(30)
  <2> HIDE DEF picked
  <2>4. form' \in ReportForm /\ form'.from = picked[1] /\ form'.to = picked[2]
    BY <2>1, <2>3, ZenonT(30) DEF ReportForm
  <2> QED BY <2>1, <2>3, <2>4, ZenonT(30) DEF ReportInv
<1>3. ASSUME NEW d \in Report!Days, Report!oneSelectionChanged(d) PROVE ReportInv'
  BY <1>3, ZenonT(30) DEF Report!oneSelectionChanged, ReportInv, ReportForm
<1>4. ASSUME NEW h \in Report!Hours, Report!PickHours(h) PROVE ReportInv'
  BY <1>4, ZenonT(30) DEF Report!PickHours, ReportInv, ReportForm
<1>5. CASE Report!Back
  BY <1>5, ZenonT(30) DEF Report!Back, ReportInv
<1>6. CASE Report!Report
  <2>1. reports' \in 0..MaxReports
    BY <1>6, TabAssumption DEF Report!Report, ReportInv
  <2> QED BY <1>6, <2>1, ReportOpened, ZenonT(30) DEF Report!Report, ReportInv
<1>7. CASE UNCHANGED Report!vars
  BY <1>7, ZenonT(30) DEF Report!vars, ReportInv
<1>8. ASSUME NEW v \in Report!Reasons, Report!SelectReason(v) PROVE ReportInv'
  BY <1>8, ZenonT(30) DEF Report!SelectReason, ReportInv, ReportForm
<1> QED BY <1>1, <1>2, <1>3, <1>4, <1>5, <1>6, <1>7, <1>8, ReportSubmit, ZenonT(30)
      DEF Report!Next

(* What was stored runs forward.                                           *)
LEMMA ReportImplies == ASSUME ReportInv PROVE Report!TypeOK /\ Report!RunsForward
BY ZenonT(30) DEF ReportInv, ReportForm, Report!TypeOK, Report!RunsForward, Absence

-----------------------------------------------------------------------------
(* The five pages together: each is opened in its invariant,               *)
LEMMA HomeOpens ==
  /\ Student!Init => StudentInv
  /\ Teacher!Init => TeacherInv
  /\ Parent!Init => ParentInv
  /\ Calendar!Init => CalendarInv
  /\ Report!Init => ReportInv
BY StudentInit, TeacherInit, ParentInit, CalendarInit, ReportInit, ZenonT(30)

(* stays in it with every step,                                            *)
LEMMA HomeMoves ==
  ASSUME BatchFacts, SortFacts, FiniteSetFacts, AppendFacts
  PROVE  /\ StudentInv /\ (Student!Next \/ UNCHANGED Student!vars) => StudentInv'
         /\ TeacherInv /\ (Teacher!Next \/ UNCHANGED Teacher!vars) => TeacherInv'
         /\ ParentInv /\ (Parent!Next \/ UNCHANGED Parent!vars) => ParentInv'
         /\ CalendarInv /\ (Calendar!Next \/ UNCHANGED Calendar!vars) => CalendarInv'
         /\ ReportInv /\ (Report!Next \/ UNCHANGED Report!vars) => ReportInv'
BY StudentMoves, TeacherMoves, ParentMoves, CalendarMoves, ReportStep, ZenonT(30)

(* and keeps its promises there.                                           *)
LEMMA HomePromises ==
  /\ StudentInv => /\ Student!TypeOK /\ Student!EventsOnlyOnce
                   /\ Student!OrderedUnlessLate /\ Student!ClassesByPeriod
  /\ TeacherInv => Teacher!TypeOK /\ Teacher!EventsOnlyOnce /\ Teacher!AlwaysByEndTime
  /\ ParentInv => Parent!TypeOK /\ Parent!AlwaysByEndTime /\ Parent!NoDuplicates
  /\ CalendarInv => Calendar!TypeOK /\ Calendar!NoDuplicates
  /\ ReportInv => Report!TypeOK /\ Report!RunsForward
BY StudentImplies, TeacherImplies, ParentImplies, CalendarImplies, ReportImplies, ZenonT(30)
=============================================================================
