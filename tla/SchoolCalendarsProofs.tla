------------------------ MODULE SchoolCalendarsProofs ------------------------
(***************************************************************************)
(* What a teacher's and a student's calendar promise while both are in     *)
(* use, for all clubs, events, memberships and times.                      *)
(***************************************************************************)
EXTENDS SchoolCalendars, EventDataProofs

(* How a step that names no prover is proved: the translation of a large   *)
(* context for SMT may run out of its time, and then it is tried again.    *)
USE SMTT(30), ZenonT(30), SMTT(40)

(* A page is shown after the last answer it awaits, and every awaited      *)
(* answer is in the list as soon as its loader is past it.                 *)
Loading ==
  /\ tHasLoaded => tMain = "done"
  /\ tMain = "done" => Upcoming(NchsEvents, now) \subseteq Elems(tEvents)
  /\ sHasLoaded => sMain = "done"
  /\ sMain \in {"personal", "done"} => Upcoming(NchsEvents, now) \subseteq Elems(sEvents)
  /\ sMain = "done" => Upcoming(personal, now) \subseteq Elems(sEvents)

(* The menu, and with it the form, has the names of clubs of the teacher   *)
(* that exist.                                                             *)
MenuNames == {NameOf[c] : c \in Advised \cap ExistingClubs}

MenuIsAdvised ==
  /\ clubsOwned \subseteq MenuNames
  /\ tForm.selected # Unset => tForm.selected \in MenuNames

Inv == TypeOK /\ Loading /\ MenuIsAdvised /\ RequestedInOneClub

-----------------------------------------------------------------------------
(* The operators of EventData as the two calendars have them.              *)
LEMMA TeacherOperators ==
  /\ \A q : Teacher!Elems(q) = Elems(q)
  /\ \A q, S : Teacher!WithBatch(q, S) = WithBatch(q, S)
  /\ \A E, t : Teacher!Upcoming(E, t) = Upcoming(E, t)
<1>1. \A q : Teacher!Elems(q) = Elems(q)
  BY ZenonT(30) DEF Teacher!Elems, Elems
<1>2. \A S : Teacher!Cardinality(S) = Cardinality(S)
  BY ZenonT(30) DEF Teacher!Cardinality, Cardinality
<1>3. \A S : Teacher!Listings(S) = Listings(S)
  BY <1>1, <1>2, ZenonT(30) DEF Teacher!Listings, Listings
<1>4. QED
  BY <1>1, <1>3, ZenonT(30) DEF Teacher!WithBatch, WithBatch, Teacher!Upcoming, Upcoming

(* What the student's calendar takes from EventData is what it is here.    *)
LEMMA StudentOperators ==
  /\ \A q : Student!Elems(q) = Elems(q)
  /\ \A q, S : Student!WithBatch(q, S) = WithBatch(q, S)
  /\ \A E, t : Student!Upcoming(E, t) = Upcoming(E, t)
<1>1. \A q : Student!Elems(q) = Elems(q)
  BY ZenonT(30) DEF Student!Elems, Elems
<1>2. \A S : Student!Cardinality(S) = Cardinality(S)
  BY ZenonT(30) DEF Student!Cardinality, Cardinality
<1>3. \A S : Student!Listings(S) = Listings(S)
  BY <1>1, <1>2, ZenonT(30) DEF Student!Listings, Listings
<1>4. QED
  BY <1>1, <1>3, ZenonT(30) DEF Student!WithBatch, WithBatch, Student!Upcoming, Upcoming

(* What is still to come is a part of what there is.                       *)
LEMMA UpcomingIsPart ==
  ASSUME NEW E \in SUBSET Events, NEW t
  PROVE  Upcoming(E, t) \in SUBSET Events
BY ZenonT(30) DEF Upcoming

-----------------------------------------------------------------------------
(* Both calendars begin with empty pages and the stored events.            *)
LEMMA InvInit == Init => Inv
<1> SUFFICES ASSUME Init
             PROVE  Inv
  BY ZenonT(30)
<1> USE EventAssumption, CalendarAssumption
<1>0. tHasLoaded \in BOOLEAN /\ sHasLoaded \in BOOLEAN
  BY ZenonT(30) DEF Init, Teacher!Init, Teacher!InitPage, Student!Init, Student!InitPage
<1>1. Teacher!TypeOK
  BY <1>0 DEF Init, Teacher!Init, Teacher!InitPage, Teacher!Blank, Teacher!TypeOK
<1>2. Student!TypeOK
  BY <1>0 DEF Init, Student!Init, Student!InitPage, Student!Blank, Student!TypeOK
<1>3. Loading
  BY ZenonT(30) DEF Init, Teacher!Init, Teacher!InitPage, Student!Init, Student!InitPage, Loading
<1>4. MenuIsAdvised
  BY ZenonT(30) DEF Init, Teacher!Init, Teacher!InitPage, Teacher!Blank, MenuIsAdvised
<1>5. RequestedInOneClub
  BY DraftsAreNew, ZenonT(30) DEF Init, Teacher!Init, RequestedInOneClub, Teacher!RequestedInOneClub
<1>6. QED
  BY <1>1, <1>2, <1>3, <1>4, <1>5, ZenonT(30) DEF Inv, TypeOK

-----------------------------------------------------------------------------
(* The flag of a page is a Boolean.                                        *)
LEMMA LoadedIsBoolean ==
  ASSUME TypeOK, Next
  PROVE  tHasLoaded' \in BOOLEAN /\ sHasLoaded' \in BOOLEAN
<1>1. tHasLoaded \in BOOLEAN /\ sHasLoaded \in BOOLEAN
  BY ZenonT(30) DEF TypeOK, Teacher!TypeOK, Student!TypeOK
<1>2. CASE TeacherActs
  BY ZenonT(30), <1>1, <1>2 DEF TeacherActs, studentVars, Teacher!TeacherStep, Teacher!Loader,
     Teacher!ClubTask, Teacher!page, Teacher!BuildPage, Teacher!GetActivities,
     Teacher!GetNchsEvents, Teacher!Reopen, Teacher!OpenForm, Teacher!CloseForm,
     Teacher!ListClubs, Teacher!GetClub, Teacher!GetClubEvents, Teacher!AddClub,
     Teacher!SelectClub, Teacher!PickTime, Teacher!Submit
<1>3. CASE StudentActs
  BY ZenonT(30), <1>1, <1>3 DEF StudentActs, teacherVars, Student!StudentStep, Student!Loader,
     Student!ClubTask, Student!page, Student!BuildPage, Student!GetActivities,
     Student!GetNchsEvents, Student!GetPersonalEvents, Student!Reopen, Student!OpenForm,
     Student!CloseForm, Student!GetClub, Student!GetClubEvents, Student!PickTime,
     Student!Submit
<1>4. CASE Tick
  BY ZenonT(30), <1>1, <1>4 DEF Tick, studentVars, Teacher!Tick, Teacher!private, Teacher!page
<1>5. QED
  BY <1>2, <1>3, <1>4, ZenonT(30) DEF Next

(* The types after a step of the teacher.                                  *)
LEMMA TeacherTypes ==
  ASSUME TypeOK, TeacherActs
  PROVE  TypeOK'
<1> USE EventAssumption, CalendarAssumption
<1>0. Teacher!TypeOK /\ Student!TypeOK
  BY ZenonT(30) DEF TypeOK
<1>1. tHasLoaded' \in BOOLEAN /\ sHasLoaded' \in BOOLEAN
  BY LoadedIsBoolean, ZenonT(30) DEF Next
<1>2. Teacher!TypeOK' => TypeOK'
  BY <1>0, <1>1, ZenonT(30) DEF TypeOK, TeacherActs, studentVars, Teacher!TypeOK, Student!TypeOK
<1>3. CASE Teacher!GetActivities
  BY <1>0, <1>1, <1>2, <1>3, ZenonT(30) DEF Teacher!GetActivities, Teacher!menu, Teacher!TypeOK
<1>4. CASE Teacher!GetNchsEvents
  <2>1. tEvents' \in Seq(Events)
    BY <1>0, <1>4, TeacherOperators, UpcomingIsPart, EventsAdded, ZenonT(30)
       DEF Teacher!GetNchsEvents, Teacher!TypeOK
  <2>2. QED
    BY <1>0, <1>1, <1>2, <1>4, <2>1, ZenonT(30) DEF Teacher!GetNchsEvents, Teacher!menu, Teacher!TypeOK
<1>5. CASE Teacher!Reopen
  BY <1>0, <1>1, <1>2, <1>5 DEF Teacher!Reopen, Teacher!BuildPage, Teacher!Blank, Teacher!TypeOK
<1>6. CASE Teacher!OpenForm
  BY <1>0, <1>1, <1>2, <1>6, ZenonT(30) DEF Teacher!OpenForm, Teacher!Blank, Teacher!page,
                                       Teacher!TypeOK
<1>7. CASE Teacher!CloseForm
  BY <1>0, <1>1, <1>2, <1>7, ZenonT(30) DEF Teacher!CloseForm, Teacher!Blank, Teacher!page,
                                       Teacher!TypeOK
<1>8. CASE Teacher!ListClubs
  BY <1>0, <1>1, <1>2, <1>8, ZenonT(30) DEF Teacher!ListClubs, Teacher!page, Teacher!TypeOK
<1>9. ASSUME NEW c \in Advised, Teacher!GetClub(c)
      PROVE  TypeOK'
  BY <1>0, <1>1, <1>2, <1>9, ZenonT(30) DEF Teacher!GetClub, Teacher!menu, Teacher!TypeOK
<1>10. ASSUME NEW c \in Advised, Teacher!GetClubEvents(c)
       PROVE  TypeOK'
  <2>1. tEvents' \in Seq(Events)
    <3>1. PICK S \in SUBSET Events : tEvents' \in WithBatch(tEvents, S)
      BY <1>0, <1>10, TeacherOperators, UpcomingIsPart, ZenonT(30) DEF Teacher!GetClubEvents,
                                                                  Teacher!TypeOK
    <3>2. QED
      BY <1>0, <3>1, EventsAdded, ZenonT(30) DEF Teacher!TypeOK
  <2>2. QED
    BY <1>0, <1>1, <1>2, <1>10, <2>1, ZenonT(30) DEF Teacher!GetClubEvents, Teacher!menu,
                                                Teacher!TypeOK
<1>11. ASSUME NEW c \in Advised, Teacher!AddClub(c)
       PROVE  TypeOK'
  <2>1. NameOf[c] \in Names
    BY <1>11, ZenonT(30)
  <2>2. QED
    BY <1>0, <1>1, <1>2, <1>11, <2>1, ZenonT(30) DEF Teacher!AddClub, Teacher!page, Teacher!TypeOK
<1>12. ASSUME NEW name \in Names, Teacher!SelectClub(name)
       PROVE  TypeOK'
  BY <1>0, <1>1, <1>2, <1>12, ZenonT(30) DEF Teacher!SelectClub, Teacher!page, Teacher!menu,
                                        Teacher!TypeOK
<1>13. ASSUME NEW v \in Teacher!Time, Teacher!PickTime(v)
       PROVE  TypeOK'
  <2>1. tForm' \in [open : BOOLEAN, selected : Names \cup {Unset},
                    start : Teacher!Time \cup {Unset}, end : Teacher!Time \cup {Unset}]
    <3>1. CASE tForm' = [tForm EXCEPT !.start = v]
      BY <1>0, <1>13, <3>1, ZenonT(30) DEF Teacher!TypeOK
    <3>2. CASE tForm' = [tForm EXCEPT !.end = v]
      BY <1>0, <1>13, <3>2, ZenonT(30) DEF Teacher!TypeOK
    <3>3. QED
      BY <1>13, <3>1, <3>2, ZenonT(30) DEF Teacher!PickTime
  <2>2. QED
    BY <1>0, <1>1, <1>2, <1>13, <2>1, ZenonT(30)
       DEF Teacher!PickTime, Teacher!page, Teacher!menu, Teacher!TypeOK
<1>14. ASSUME NEW d \in TeacherDrafts, Teacher!Submit(d)
       PROVE  TypeOK'
  <2>1. clubEvents' \in [Clubs -> SUBSET Events]
    <3>1. PICK b \in Clubs : b = DocumentOf[tForm.selected]
      BY <1>0, <1>14, ZenonT(30) DEF Teacher!Submit, Teacher!TypeOK
    <3>2. clubEvents' = [clubEvents EXCEPT ![b] = @ \cup {d}]
      BY <1>14, <3>1, ZenonT(30) DEF Teacher!Submit
    <3>3. QED
      BY <1>0, <3>2 DEF Teacher!TypeOK
  <2>2. QED
    BY <1>0, <1>1, <1>2, <1>14, <2>1
       DEF Teacher!Submit, Teacher!BuildPage, Teacher!Blank, Teacher!TypeOK
<1>15. QED
  BY <1>3, <1>4, <1>5, <1>6, <1>7, <1>8, <1>9, <1>10, <1>11, <1>12, <1>13, <1>14, ZenonT(30)
     DEF TeacherActs, Teacher!TeacherStep, Teacher!Loader, Teacher!ClubTask

(* The types after a step of the student.                                  *)
LEMMA StudentTypes ==
  ASSUME TypeOK, StudentActs
  PROVE  TypeOK'
<1> USE EventAssumption, CalendarAssumption
<1>0. Teacher!TypeOK /\ Student!TypeOK
  BY ZenonT(30) DEF TypeOK
<1>1. tHasLoaded' \in BOOLEAN /\ sHasLoaded' \in BOOLEAN
  BY LoadedIsBoolean, ZenonT(30) DEF Next
<1>2. Student!TypeOK' => TypeOK'
  BY <1>0, <1>1, ZenonT(30) DEF TypeOK, StudentActs, teacherVars, Teacher!TypeOK, Student!TypeOK
<1>3. CASE Student!GetActivities
  BY <1>0, <1>1, <1>2, <1>3, ZenonT(30) DEF Student!GetActivities, Student!TypeOK
<1>4. CASE Student!GetNchsEvents
  <2>1. sEvents' \in Seq(Events)
    BY <1>0, <1>4, StudentOperators, UpcomingIsPart, EventsAdded, ZenonT(30)
       DEF Student!GetNchsEvents, Student!TypeOK
  <2>2. QED
    BY <1>0, <1>1, <1>2, <1>4, <2>1, ZenonT(30) DEF Student!GetNchsEvents, Student!TypeOK
<1>5. CASE Student!GetPersonalEvents
  <2>1. sEvents' \in Seq(Events)
    BY <1>0, <1>5, StudentOperators, UpcomingIsPart, EventsAdded, ZenonT(30)
       DEF Student!GetPersonalEvents, Student!TypeOK
  <2>2. QED
    BY <1>0, <1>1, <1>2, <1>5, <2>1, ZenonT(30) DEF Student!GetPersonalEvents, Student!TypeOK
<1>6. CASE Student!Reopen
  BY <1>0, <1>1, <1>2, <1>6 DEF Student!Reopen, Student!BuildPage, Student!Blank, Student!TypeOK
<1>7. CASE Student!OpenForm
  BY <1>0, <1>1, <1>2, <1>7, ZenonT(30) DEF Student!OpenForm, Student!Blank, Student!page,
                                       Student!TypeOK
<1>8. CASE Student!CloseForm
  BY <1>0, <1>1, <1>2, <1>8, ZenonT(30) DEF Student!CloseForm, Student!Blank, Student!page,
                                       Student!TypeOK
<1>9. ASSUME NEW c \in Joined, Student!GetClub(c)
      PROVE  TypeOK'
  BY <1>0, <1>1, <1>2, <1>9, ZenonT(30) DEF Student!GetClub, Student!TypeOK
<1>10. ASSUME NEW c \in Joined, Student!GetClubEvents(c)
       PROVE  TypeOK'
  <2>1. sEvents' \in Seq(Events)
    <3>1. PICK S \in SUBSET Events : sEvents' \in WithBatch(sEvents, S)
      BY <1>0, <1>10, StudentOperators, UpcomingIsPart, ZenonT(30) DEF Student!GetClubEvents,
                                                                  Student!TypeOK
    <3>2. QED
      BY <1>0, <3>1, EventsAdded, ZenonT(30) DEF Student!TypeOK
  <2>2. QED
    BY <1>0, <1>1, <1>2, <1>10, <2>1, ZenonT(30) DEF Student!GetClubEvents, Student!TypeOK
<1>11. ASSUME NEW v \in Student!Time, Student!PickTime(v)
       PROVE  TypeOK'
  <2>1. sForm' \in [open : BOOLEAN, start : Student!Time \cup {Unset},
                    end : Student!Time \cup {Unset}]
    <3>1. CASE sForm' = [sForm EXCEPT !.start = v]
      BY <1>0, <1>11, <3>1, ZenonT(30) DEF Student!TypeOK
    <3>2. CASE sForm' = [sForm EXCEPT !.end = v]
      BY <1>0, <1>11, <3>2, ZenonT(30) DEF Student!TypeOK
    <3>3. QED
      BY <1>11, <3>1, <3>2, ZenonT(30) DEF Student!PickTime
  <2>2. QED
    BY <1>0, <1>1, <1>2, <1>11, <2>1, ZenonT(30) DEF Student!PickTime, Student!page, Student!TypeOK
<1>12. ASSUME NEW d \in StudentDrafts, Student!Submit(d)
       PROVE  TypeOK'
  BY <1>0, <1>1, <1>2, <1>12 DEF Student!Submit, Student!BuildPage, Student!Blank, Student!TypeOK
<1>13. QED
  BY <1>3, <1>4, <1>5, <1>6, <1>7, <1>8, <1>9, <1>10, <1>11, <1>12, ZenonT(30)
     DEF StudentActs, Student!StudentStep, Student!Loader, Student!ClubTask

(* The clock moves within its bound.                                       *)
LEMMA TickTypes ==
  ASSUME TypeOK, Tick
  PROVE  TypeOK'
<1>1. tHasLoaded' \in BOOLEAN /\ sHasLoaded' \in BOOLEAN
  BY LoadedIsBoolean, ZenonT(30) DEF Next
<1>2. QED
  BY <1>1, EventAssumption DEF TypeOK, Tick, studentVars, Teacher!Tick, Teacher!private,
     Teacher!page, Teacher!menu, Teacher!TypeOK, Student!TypeOK

-----------------------------------------------------------------------------
(* The step that preserves the rest of the invariant, by actor.            *)
LEMMA TeacherKeeps ==
  ASSUME Inv, TeacherActs
  PROVE  Inv'
<1> USE EventAssumption, CalendarAssumption
<1>0. TypeOK /\ TypeOK' /\ Teacher!TypeOK
  BY TeacherTypes, ZenonT(30) DEF Inv, TypeOK
<1>1. Loading /\ MenuIsAdvised /\ RequestedInOneClub
  BY ZenonT(30) DEF Inv
<1> DEFINE Still == UNCHANGED <<now, tMain, tHasLoaded>>
<1>2. UNCHANGED studentVars
  BY ZenonT(30) DEF TeacherActs
<1>3. ASSUME Still, Elems(tEvents) \subseteq Elems(tEvents')
      PROVE  Loading'
  BY <1>1, <1>2, <1>3, ZenonT(30) DEF Loading, studentVars
<1>4. ASSUME UNCHANGED clubEvents
      PROVE  RequestedInOneClub'
  BY <1>1, <1>4, ZenonT(30) DEF RequestedInOneClub, Teacher!RequestedInOneClub
<1>5. ASSUME Teacher!BuildPage, UNCHANGED now
      PROVE  Loading' /\ MenuIsAdvised'
  BY <1>1, <1>2, <1>5, ZenonT(30) DEF Teacher!BuildPage, Teacher!Blank, Loading, MenuIsAdvised,
                                 studentVars
<1>6. ASSUME UNCHANGED <<tForm, clubsOwned>>
      PROVE  MenuIsAdvised'
  BY <1>1, <1>6, ZenonT(30) DEF MenuIsAdvised
<1>7. CASE Teacher!GetActivities
  <2>1. Loading'
    BY <1>1, <1>2, <1>7, ZenonT(30) DEF Teacher!GetActivities, Loading, studentVars
  <2>2. QED
    BY <1>0, <1>4, <1>6, <1>7, <2>1, ZenonT(30) DEF Teacher!GetActivities, Teacher!menu, Inv
<1>8. CASE Teacher!GetNchsEvents
  <2>1. Elems(tEvents') = Elems(tEvents) \cup Upcoming(NchsEvents, now)
    BY <1>0, <1>8, TeacherOperators, UpcomingIsPart, EventsAdded, ZenonT(30)
       DEF Teacher!GetNchsEvents, Teacher!TypeOK
  <2>2. Loading'
    BY <1>1, <1>2, <1>8, <2>1, ZenonT(30) DEF Teacher!GetNchsEvents, Loading, studentVars
  <2>3. QED
    BY <1>0, <1>4, <1>6, <1>8, <2>2, ZenonT(30) DEF Teacher!GetNchsEvents, Teacher!menu, Inv
<1>9. CASE Teacher!Reopen
  BY <1>0, <1>4, <1>5, <1>9, ZenonT(30) DEF Teacher!Reopen, Inv
<1>10. CASE Teacher!OpenForm
  <2>1. MenuIsAdvised'
    BY <1>1, <1>10, ZenonT(30) DEF Teacher!OpenForm, Teacher!Blank, MenuIsAdvised
  <2>2. QED
    BY <1>0, <1>3, <1>4, <1>10, <2>1, ZenonT(30) DEF Teacher!OpenForm, Teacher!page, Inv
<1>11. CASE Teacher!CloseForm
  <2>1. MenuIsAdvised'
    BY <1>11, ZenonT(30) DEF Teacher!CloseForm, Teacher!Blank, MenuIsAdvised
  <2>2. QED
    BY <1>0, <1>3, <1>4, <1>11, <2>1, ZenonT(30) DEF Teacher!CloseForm, Teacher!page, Inv
<1>12. CASE Teacher!ListClubs
  BY <1>0, <1>3, <1>4, <1>6, <1>12, ZenonT(30) DEF Teacher!ListClubs, Teacher!page, Inv
<1>13. ASSUME NEW c \in Advised, Teacher!GetClub(c)
       PROVE  Inv'
  BY <1>0, <1>3, <1>4, <1>6, <1>13, ZenonT(30) DEF Teacher!GetClub, Teacher!menu, Inv
<1>14. ASSUME NEW c \in Advised, Teacher!GetClubEvents(c)
       PROVE  Inv'
  <2>1. Elems(tEvents) \subseteq Elems(tEvents')
    <3>1. PICK S \in SUBSET Events : tEvents' \in WithBatch(tEvents, S)
      BY <1>0, <1>14, TeacherOperators, UpcomingIsPart, ZenonT(30) DEF Teacher!GetClubEvents,
                                                                  Teacher!TypeOK
    <3>2. tEvents \in Seq(Events)
      BY <1>0, ZenonT(30) DEF Teacher!TypeOK
    <3>3. Elems(tEvents') = Elems(tEvents) \cup S
      BY <3>1, <3>2, EventsAdded, ZenonT(30)
    <3>4. QED
      BY <3>3, ZenonT(30)
  <2>2. QED
    BY <1>0, <1>3, <1>4, <1>6, <1>14, <2>1, ZenonT(30) DEF Teacher!GetClubEvents, Teacher!menu, Inv
<1>15. ASSUME NEW c \in Advised, Teacher!AddClub(c)
       PROVE  Inv'
  <2>1. MenuIsAdvised'
    BY <1>1, <1>15, ZenonT(30) DEF Teacher!AddClub, MenuIsAdvised, MenuNames
  <2>2. QED
    BY <1>0, <1>3, <1>4, <1>15, <2>1, ZenonT(30) DEF Teacher!AddClub, Teacher!page, Inv
<1>16. ASSUME NEW name \in Names, Teacher!SelectClub(name)
       PROVE  Inv'
  <2>1. MenuIsAdvised'
    BY <1>0, <1>1, <1>16, ZenonT(30) DEF Teacher!SelectClub, Teacher!menu, MenuIsAdvised,
                                    Teacher!TypeOK
  <2>2. QED
    BY <1>0, <1>3, <1>4, <1>16, <2>1, ZenonT(30) DEF Teacher!SelectClub, Teacher!page, Inv
<1>17. ASSUME NEW v \in Teacher!Time, Teacher!PickTime(v)
       PROVE  Inv'
  <2>1. MenuIsAdvised'
    BY <1>0, <1>1, <1>17, ZenonT(30) DEF Teacher!PickTime, Teacher!menu, MenuIsAdvised, Teacher!TypeOK
  <2>2. QED
    BY <1>0, <1>3, <1>4, <1>17, <2>1, ZenonT(30) DEF Teacher!PickTime, Teacher!page, Inv
<1>18. ASSUME NEW d \in TeacherDrafts, Teacher!Submit(d)
       PROVE  Inv'
  <2>0. PICK a \in Advised \cap ExistingClubs : NameOf[a] = tForm.selected
    BY <1>1, <1>18, ZenonT(30) DEF Teacher!Submit, MenuIsAdvised, MenuNames
  <2>1. PICK b \in Clubs : b = DocumentOf[tForm.selected]
    BY <1>0, <1>18, ZenonT(30) DEF Teacher!Submit, Teacher!TypeOK
  <2>2. clubEvents \in [Clubs -> SUBSET Events]
    BY <1>0, ZenonT(30) DEF Teacher!TypeOK
  <2>3. \A c \in Clubs : d \notin clubEvents[c]
    BY <1>18, ZenonT(30) DEF Teacher!Submit, Teacher!Requested
  <2>4. clubEvents' = [clubEvents EXCEPT ![b] = @ \cup {d}]
    BY <1>18, <2>1, ZenonT(30) DEF Teacher!Submit
  <2>5. RequestedInOneClub'
    BY <1>1, <2>0, <2>1, <2>2, <2>3, <2>4 DEF RequestedInOneClub, Teacher!RequestedInOneClub
  <2>6. QED
    BY <1>0, <1>5, <1>18, <2>5, ZenonT(30) DEF Teacher!Submit, Inv
<1>19. QED
  BY <1>7, <1>8, <1>9, <1>10, <1>11, <1>12, <1>13, <1>14, <1>15, <1>16, <1>17, <1>18, ZenonT(30)
     DEF TeacherActs, Teacher!TeacherStep, Teacher!Loader, Teacher!ClubTask

(* A step of the student keeps what is known of both calendars.            *)
LEMMA StudentKeeps ==
  ASSUME Inv, StudentActs
  PROVE  Inv'
<1> USE EventAssumption, CalendarAssumption
<1>0. TypeOK /\ TypeOK' /\ Student!TypeOK
  BY StudentTypes, ZenonT(30) DEF Inv, TypeOK
<1>1. Loading /\ MenuIsAdvised /\ RequestedInOneClub
  BY ZenonT(30) DEF Inv
<1>2. UNCHANGED teacherVars
  BY ZenonT(30) DEF StudentActs
<1>3. MenuIsAdvised'
  BY <1>1, <1>2, ZenonT(30) DEF MenuIsAdvised, teacherVars
<1>4. ASSUME UNCHANGED clubEvents
      PROVE  RequestedInOneClub'
  BY <1>1, <1>4, ZenonT(30) DEF RequestedInOneClub, Teacher!RequestedInOneClub
<1>5. ASSUME UNCHANGED <<now, personal, sMain, sHasLoaded>>,
             Elems(sEvents) \subseteq Elems(sEvents')
      PROVE  Loading'
  BY <1>1, <1>2, <1>5, ZenonT(30) DEF Loading, teacherVars
<1>6. ASSUME Student!BuildPage, UNCHANGED now
      PROVE  Loading'
  BY <1>1, <1>2, <1>6, ZenonT(30) DEF Student!BuildPage, Loading, teacherVars
<1>7. CASE Student!GetActivities
  <2>1. Loading'
    BY <1>1, <1>2, <1>7, ZenonT(30) DEF Student!GetActivities, Loading, teacherVars
  <2>2. QED
    BY <1>0, <1>3, <1>4, <1>7, <2>1, ZenonT(30) DEF Student!GetActivities, Inv
<1>8. CASE Student!GetNchsEvents
  <2>1. Elems(sEvents') = Elems(sEvents) \cup Upcoming(NchsEvents, now)
    BY <1>0, <1>8, StudentOperators, UpcomingIsPart, EventsAdded, ZenonT(30)
       DEF Student!GetNchsEvents, Student!TypeOK
  <2>2. Loading'
    BY <1>1, <1>2, <1>8, <2>1, ZenonT(30) DEF Student!GetNchsEvents, Loading, teacherVars
  <2>3. QED
    BY <1>0, <1>3, <1>4, <1>8, <2>2, ZenonT(30) DEF Student!GetNchsEvents, Inv
<1>9. CASE Student!GetPersonalEvents
  <2>1. Elems(sEvents') = Elems(sEvents) \cup Upcoming(personal, now)
    BY <1>0, <1>9, StudentOperators, UpcomingIsPart, EventsAdded, ZenonT(30)
       DEF Student!GetPersonalEvents, Student!TypeOK
  <2>2. Loading'
    BY <1>1, <1>2, <1>9, <2>1, ZenonT(30) DEF Student!GetPersonalEvents, Loading, teacherVars
  <2>3. QED
    BY <1>0, <1>3, <1>4, <1>9, <2>2, ZenonT(30) DEF Student!GetPersonalEvents, Inv
<1>10. CASE Student!Reopen
  BY <1>0, <1>3, <1>4, <1>6, <1>10, ZenonT(30) DEF Student!Reopen, Inv
<1>11. CASE Student!OpenForm
  BY <1>0, <1>3, <1>4, <1>5, <1>11, ZenonT(30) DEF Student!OpenForm, Student!page, Inv
<1>12. CASE Student!CloseForm
  BY <1>0, <1>3, <1>4, <1>5, <1>12, ZenonT(30) DEF Student!CloseForm, Student!page, Inv
<1>13. ASSUME NEW c \in Joined, Student!GetClub(c)
       PROVE  Inv'
  BY <1>0, <1>3, <1>4, <1>5, <1>13, ZenonT(30) DEF Student!GetClub, Inv
<1>14. ASSUME NEW c \in Joined, Student!GetClubEvents(c)
       PROVE  Inv'
  <2>1. Elems(sEvents) \subseteq Elems(sEvents')
    <3>1. PICK S \in SUBSET Events : sEvents' \in WithBatch(sEvents, S)
      BY <1>0, <1>14, StudentOperators, UpcomingIsPart, ZenonT(30) DEF Student!GetClubEvents,
                                                                  Student!TypeOK
    <3>2. sEvents \in Seq(Events)
      BY <1>0, ZenonT(30) DEF Student!TypeOK
    <3>3. Elems(sEvents') = Elems(sEvents) \cup S
      BY <3>1, <3>2, EventsAdded, ZenonT(30)
    <3>4. QED
      BY <3>3, ZenonT(30)
  <2>2. QED
    BY <1>0, <1>3, <1>4, <1>5, <1>14, <2>1, ZenonT(30) DEF Student!GetClubEvents, Inv
<1>15. ASSUME NEW v \in Student!Time, Student!PickTime(v)
       PROVE  Inv'
  BY <1>0, <1>3, <1>4, <1>5, <1>15, ZenonT(30) DEF Student!PickTime, Student!page, Inv
<1>16. ASSUME NEW d \in StudentDrafts, Student!Submit(d)
       PROVE  Inv'
  BY <1>0, <1>3, <1>4, <1>6, <1>16, ZenonT(30) DEF Student!Submit, Inv
<1>17. QED
  BY <1>7, <1>8, <1>9, <1>10, <1>11, <1>12, <1>13, <1>14, <1>15, <1>16, ZenonT(30)
     DEF StudentActs, Student!StudentStep, Student!Loader, Student!ClubTask

(* Time only takes events from what is to come.                            *)
LEMMA TickKeeps ==
  ASSUME Inv, Tick
  PROVE  Inv'
<1> USE EventAssumption, CalendarAssumption
<1>1. TypeOK' /\ TypeOK /\ Loading /\ MenuIsAdvised /\ RequestedInOneClub
  BY TickTypes, ZenonT(30) DEF Inv
<1>2. now \in Nat /\ now' = now + 1 /\ personal \subseteq Events
  BY <1>1 DEF TypeOK, Student!TypeOK, Tick, Teacher!Tick
<1>3. UNCHANGED <<clubEvents, teacherVars, studentVars>>
  BY ZenonT(30) DEF Tick, Teacher!Tick, Teacher!private, Teacher!page, Teacher!menu, teacherVars
<1>4. \A E \in SUBSET Events : Upcoming(E, now') \subseteq Upcoming(E, now)
  BY <1>2 DEF Upcoming
<1>5. Loading'
  BY <1>1, <1>2, <1>3, <1>4, ZenonT(30) DEF Loading, teacherVars, studentVars
<1>6. MenuIsAdvised' /\ RequestedInOneClub'
  BY <1>1, <1>3, ZenonT(30) DEF MenuIsAdvised, RequestedInOneClub, Teacher!RequestedInOneClub,
                           teacherVars
<1>7. QED
  BY <1>1, <1>5, <1>6, ZenonT(30) DEF Inv

-----------------------------------------------------------------------------
(* The inductive invariant holds of the two calendars.                     *)
THEOREM Invariance == Spec => []Inv
<1>1. ASSUME Inv, [Next]_vars
      PROVE  Inv'
  <2>1. CASE UNCHANGED vars
    <3>1. TypeOK'
      BY <1>1, <2>1 DEF Inv, vars, teacherVars, studentVars, TypeOK, Teacher!TypeOK,
         Student!TypeOK
    <3>2. Loading'
      BY <1>1, <2>1, ZenonT(30) DEF Inv, vars, teacherVars, studentVars, Loading
    <3>3. MenuIsAdvised' /\ RequestedInOneClub'
      BY <1>1, <2>1, ZenonT(30) DEF Inv, vars, teacherVars, MenuIsAdvised, RequestedInOneClub,
         Teacher!RequestedInOneClub
    <3>4. QED
      BY <3>1, <3>2, <3>3, ZenonT(30) DEF Inv
  <2>2. QED
    BY <1>1, <2>1, TeacherKeeps, StudentKeeps, TickKeeps, ZenonT(30) DEF Next
<1>2. QED
  BY <1>1, InvInit, PTL DEF Spec

(* Both devices stay well typed.                                           *)
THEOREM TypeCorrect == Spec => []TypeOK
<1>1. Inv => TypeOK
  BY ZenonT(30) DEF Inv
<1>2. QED
  BY <1>1, Invariance, PTL

(* A calendar that is shown has everything its loader awaits: the school's *)
(* events and the student's own, whatever the clubs' tasks, the forms, the *)
(* other device and the clock do meanwhile.                                *)
THEOREM Awaited == Spec => []AwaitedEventsShown
<1>1. Inv => AwaitedEventsShown
  BY TeacherOperators, StudentOperators, ZenonT(30) DEF Inv, Loading, AwaitedEventsShown,
     Teacher!AwaitedEventsShown, Student!AwaitedEventsShown, Upcoming
<1>2. QED
  BY <1>1, Invariance, PTL

(* A requested event is stored in one document only, whose id is made of   *)
(* the name of a club that exists and that the teacher advises, though the *)
(* menu of the form fills club by club and a club of the list may have no  *)
(* document.                                                               *)
THEOREM OneClub == Spec => []RequestedInOneClub
<1>1. Inv => RequestedInOneClub
  BY ZenonT(30) DEF Inv
<1>2. QED
  BY <1>1, Invariance, PTL
=============================================================================
