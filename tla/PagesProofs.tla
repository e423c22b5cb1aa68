----------------------------- MODULE PagesProofs -----------------------------
(***************************************************************************)
(* Proofs that the safety properties of Pages hold for every value of the  *)
(* constants. HomePages and TabPages have, for each page, an invariant     *)
(* that its own steps keep; PagesInv says that the page in front of the    *)
(* person is in its invariant. A step is one of that page and leaves the   *)
(* page open, so that the lemmas of the page are all that is needed.       *)
(***************************************************************************)
EXTENDS Pages, EventDataProofs

(* How a step that names no prover is proved: the translation of a large   *)
(* context for SMT may run out of its time, and then it is tried again.    *)
USE SMTT(30), ZenonT(30), SMTT(40)

(* The page that is open is in its invariant.                              *)
PagesInv ==
  /\ page = "student" => StudentInv
  /\ page = "teacher" => TeacherInv
  /\ page = "parent" => ParentInv
  /\ page = "calendar" => CalendarInv
  /\ page = "bookkeeper" => ShopInv
  /\ page = "clubhub" => HubInv
  /\ page = "messages" => TalkInv
  /\ page = "listings" => ClassInv
  /\ page = "settings" => SettingInv
  /\ page = "absence" => ReportInv

(* Signing in opens a page in its first state,                             *)
LEMMA Opened == ASSUME Init PROVE PagesInv
BY HomeOpens, TabOpens, FiniteSetsOf, ZenonT(30) DEF Init, PagesInv

(* each step is one of the page that is open, or of something else, and    *)
(* leaves that page open,                                                  *)
LEMMA Dispatched ==
  ASSUME Next \/ UNCHANGED vars
  PROVE  /\ page' = page
         /\ page = "student" => Student!Next \/ UNCHANGED Student!vars
         /\ page = "teacher" => Teacher!Next \/ UNCHANGED Teacher!vars
         /\ page = "parent" => Parent!Next \/ UNCHANGED Parent!vars
         /\ page = "calendar" => Calendar!Next \/ UNCHANGED Calendar!vars
         /\ page = "bookkeeper" => Shop!Next \/ UNCHANGED Shop!vars
         /\ page = "clubhub" => Hub!Next \/ UNCHANGED Hub!vars
         /\ page = "messages" => Talk!Next \/ UNCHANGED Talk!vars
         /\ page = "listings" => Class!Next \/ UNCHANGED Class!vars
         /\ page = "settings" => Setting!Next \/ UNCHANGED Setting!vars
         /\ page = "absence" => Report!Next \/ UNCHANGED Report!vars
<1>1. CASE Next
  BY <1>1, ZenonT(30)
  DEF Next, OfStudent, OfTeacher, OfParent, OfCalendar, OfShop, OfHub, OfTalk, OfClass,
      OfSetting, OfReport
<1>2. CASE UNCHANGED vars
  <2>1. UNCHANGED <<page, homeVars, tabVars>>
    BY <1>2, ZenonT(30) DEF vars
  <2>2. UNCHANGED homeVars /\ UNCHANGED tabVars
    BY <2>1, ZenonT(30)
  <2>3. /\ UNCHANGED searchVars /\ UNCHANGED shopVars /\ UNCHANGED hubVars
        /\ UNCHANGED talkVars /\ UNCHANGED classVars /\ UNCHANGED formVars
        /\ UNCHANGED reportVars
    BY <2>2, ZenonT(30) DEF tabVars
  <2>4. UNCHANGED Student!vars /\ UNCHANGED Teacher!vars
    BY <2>2, ZenonT(30) DEF homeVars, Student!vars, Student!clubVars, Student!classVars,
       Teacher!vars, Teacher!eventVars, Teacher!clubVars, Teacher!classVars
  <2>5. UNCHANGED Parent!vars /\ UNCHANGED Calendar!vars
    BY <2>2, ZenonT(30) DEF homeVars, Parent!vars, Calendar!vars
  <2>6. UNCHANGED Shop!vars /\ UNCHANGED Hub!vars
    BY <2>3, ZenonT(30) DEF searchVars, shopVars, hubVars, Shop!vars, Shop!listVars,
       Shop!buyVars, Hub!vars, Hub!loadVars, Hub!listVars
  <2>7. UNCHANGED Talk!vars /\ UNCHANGED Class!vars
    BY <2>3, ZenonT(30) DEF talkVars, classVars, Talk!vars, Talk!store, Talk!photoVars,
       Class!vars, Class!page
  <2>8. UNCHANGED Setting!vars /\ UNCHANGED Report!vars
    BY <2>3, ZenonT(30) DEF formVars, reportVars, Setting!vars, Report!vars
  <2> QED BY <2>1, <2>4, <2>5, <2>6, <2>7, <2>8, ZenonT(30)
<1> QED BY <1>1, <1>2, ZenonT(30)

(* and so the page stays in its invariant.                                 *)
LEMMA StaysIn == ASSUME PagesInv, Next \/ UNCHANGED vars PROVE PagesInv'
<1>1. /\ page = "student" => StudentInv'
      /\ page = "teacher" => TeacherInv'
      /\ page = "parent" => ParentInv'
      /\ page = "calendar" => CalendarInv'
      /\ page = "absence" => ReportInv'
  BY Lists, FiniteSetsOf, HomeMoves, Dispatched, ZenonT(30) DEF PagesInv
<1>2. /\ page = "bookkeeper" => ShopInv'
      /\ page = "clubhub" => HubInv'
      /\ page = "messages" => TalkInv'
      /\ page = "listings" => ClassInv'
      /\ page = "settings" => SettingInv'
  BY Lists, FiniteSetsOf, TabMoves, Dispatched, ZenonT(30) DEF PagesInv
<1>3. page' = page
  BY Dispatched, ZenonT(30)
<1> QED BY <1>1, <1>2, <1>3, ZenonT(30) DEF PagesInv

(* In every state that is reached the open page is in its invariant.       *)
THEOREM Inductive == Spec => []PagesInv
<1>1. Init => PagesInv
  BY Opened, ZenonT(30)
<1>2. PagesInv /\ [Next]_vars => PagesInv'
  BY StaysIn, ZenonT(30)
<1> QED BY <1>1, <1>2, PTL DEF Spec

-----------------------------------------------------------------------------
(* Every variable of the open page keeps its type.                         *)
THEOREM TypeCorrect == Spec => []TypeOK
<1>1. PagesInv => TypeOK
  BY HomePromises, TabPromises, ZenonT(30) DEF PagesInv, TypeOK
<1> QED BY <1>1, Inductive, PTL

(* Nothing is listed twice, however the tasks that fill a list interleave. *)
THEOREM EachListedOnce == Spec => []ListedOnce
<1>1. PagesInv => ListedOnce
  BY HomePromises, TabPromises, ZenonT(30) DEF PagesInv, ListedOnce
<1> QED BY <1>1, Inductive, PTL

(* A parent sees no two club events and no two appointments alike.         *)
THEOREM WithoutDuplicates == Spec => []NoDuplicates
<1>1. PagesInv => NoDuplicates
  BY HomePromises, ZenonT(30) DEF PagesInv, NoDuplicates
<1> QED BY <1>1, Inductive, PTL

(* The lists are in the order of the last sort at every moment.            *)
THEOREM AlwaysInOrder == Spec => []ListsInOrder
<1>1. PagesInv => ListsInOrder
  BY HomePromises, ZenonT(30) DEF PagesInv, ListsInOrder
<1> QED BY <1>1, Inductive, PTL

(* The categories of the ClubHub and its list of all clubs agree.          *)
THEOREM CategoriesStayTogether == Spec => []CategoriesAgree
<1>1. PagesInv => CategoriesAgree
  BY TabPromises, ZenonT(30) DEF PagesInv, CategoriesAgree
<1> QED BY <1>1, Inductive, PTL

(* The pop after the await of Confirm closes the dialog and no more.       *)
THEOREM LandsOnItems == Spec => ConfirmLandsOnItem
<1>1. ASSUME PagesInv, [Next]_vars PROVE [page = "bookkeeper" => Shop!LandsOnItem]_vars
  <2>1. CASE Next
    <3>1. ASSUME page = "bookkeeper" PROVE Shop!LandsOnItem
      <4>1. Shop!Next
        BY <2>1, <3>1, ZenonT(30)
        DEF Next, OfStudent, OfTeacher, OfParent, OfCalendar, OfShop, OfHub, OfTalk, OfClass,
            OfSetting, OfReport
      <4> QED BY <1>1, <3>1, <4>1, ShopLands, ZenonT(30) DEF PagesInv, ShopInv
    <3> QED BY <3>1, ZenonT(30)
  <2>2. CASE UNCHANGED vars
    BY <2>2, ZenonT(30)
  <2> QED BY <1>1, <2>1, <2>2, ZenonT(30)
<1> QED BY <1>1, Inductive, PTL DEF Spec, ConfirmLandsOnItem

(* Texts and images are sent once and never after they were removed, and   *)
(* absences run forward.                                                   *)
THEOREM MeantIsSent == Spec => []SentAsMeant
<1>1. PagesInv => SentAsMeant
  BY HomePromises, TabPromises, ZenonT(30) DEF PagesInv, SentAsMeant
<1> QED BY <1>1, Inductive, PTL

(* An announcement reaches those who were in the class all the time since  *)
(* the page was opened, once its list is there, and nobody who never was.  *)
THEOREM ClassIsReached == Spec => AnnouncedToTheClass
<1>1. ASSUME PagesInv, [Next]_vars PROVE [page = "listings" => Class!ReachesTheClass]_vars
  <2>1. CASE Next
    <3>1. ASSUME page = "listings" PROVE Class!ReachesTheClass
      <4>1. Class!Next
        BY <2>1, <3>1, ZenonT(30)
        DEF Next, OfStudent, OfTeacher, OfParent, OfCalendar, OfShop, OfHub, OfTalk, OfClass,
            OfSetting, OfReport
      <4> QED BY <1>1, <3>1, <4>1, ClassReaches, ZenonT(30) DEF PagesInv
    <3> QED BY <3>1, ZenonT(30)
  <2>2. CASE UNCHANGED vars
    BY <2>2, ZenonT(30)
  <2> QED BY <1>1, <2>1, <2>2, ZenonT(30)
<1> QED BY <1>1, Inductive, PTL DEF Spec, AnnouncedToTheClass
=============================================================================
