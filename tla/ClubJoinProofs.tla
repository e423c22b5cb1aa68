--------------------------- MODULE ClubJoinProofs ---------------------------
(***************************************************************************)
(* Proofs about ClubJoin, for any students, clubs and finite set of        *)
(* presses of Join.                                                        *)
(***************************************************************************)
EXTENDS ClubJoin, FunctionTheorems, FiniteSetTheorems, SequenceTheorems, TLAPS

(* How a step that names no prover is proved: the translation of a large   *)
(* context for SMT may run out of its time, and then it is tried again.    *)
USE SMTT(30), ZenonT(30), SMTT(40)

(* The pages of the clubs are routes.                                      *)
LEMMA InfoIsRoute ==
  ASSUME NEW c \in Clubs, NEW joined \in BOOLEAN
  PROVE  Info(c, joined) \in Route
BY DEF Route

(* A sequence with an element is not the empty one.                        *)
LEMMA NotEmpty ==
  ASSUME NEW S, NEW q \in Seq(S), Len(q) > 0
  PROVE  q # <<>>
OBVIOUS

(* Navigator.push keeps the stack of routes a nonempty sequence of routes. *)
LEMMA PushTyped ==
  ASSUME TypeOK, NEW s \in Students, NEW r \in Route, Push(s, r)
  PROVE  stack' \in [Students -> Seq(Route) \ {<<>>}]
<1>1. stack[s] \in Seq(Route)
  BY ZenonT(30) DEF TypeOK
<1>2. Append(stack[s], r) \in Seq(Route) \ {<<>>}
  BY <1>1, AppendProperties
<1> QED BY <1>2, ZenonT(30) DEF TypeOK, Push

(* One step of any handler keeps every part of the state well typed.       *)
LEMMA TypeStep == TypeOK /\ [Next]_vars => TypeOK'
<1> SUFFICES ASSUME TypeOK, [Next]_vars PROVE TypeOK'
  BY ZenonT(30)
<1> USE TapAssumption DEF TypeOK
<1>1. ASSUME NEW s \in Students, NEW c \in Clubs, TapCard(s, c) PROVE TypeOK'
  <2>1. [id |-> opens[s] + 1, club |-> c, route |-> Len(stack[s])] \in Card
    BY DEF Card
  <2> QED BY <1>1, <2>1 DEF TapCard, store
<1>2. ASSUME NEW s \in Students, NEW h \in loading[s], CardLoaded(s, h) PROVE TypeOK'
  <2>1. Info(h.club, h.club \in activities[s]) \in Route
    <3>1. h \in Card
      BY ZenonT(30)
    <3>2. h.club \in Clubs /\ (h.club \in activities[s]) \in BOOLEAN
      BY <3>1 DEF Card
    <3> QED BY <3>2, InfoIsRoute, ZenonT(30)
  <2>2. stack' \in [Students -> Seq(Route) \ {<<>>}]
    BY <1>2, <2>1, PushTyped, ZenonT(30) DEF CardLoaded
  <2> QED BY <1>2, <2>2, ZenonT(30) DEF CardLoaded, store
<1>3. ASSUME NEW t \in Taps, TapJoin(t) PROVE TypeOK'
  BY <1>3 DEF TapJoin, PC
<1>4. ASSUME NEW t \in Taps, ReadMembers(t) PROVE TypeOK'
  BY <1>4 DEF ReadMembers, PC, store
<1>5. ASSUME NEW t \in Taps, WriteMembers(t) PROVE TypeOK'
  BY <1>5 DEF WriteMembers, PC
<1>6. ASSUME NEW t \in Taps, ShowOutcome(t) PROVE TypeOK'
  <2>1. Browse \in Route /\ RemindDialog(ClubOf[t]) \in Route
    BY DEF Route
  <2>2. stack' \in [Students -> Seq(Route) \ {<<>>}]
    BY <1>6, <2>1, PushTyped, ZenonT(30) DEF ShowOutcome
  <2> QED BY <1>6, <2>2, ZenonT(30) DEF ShowOutcome, store, PC
<1>7. ASSUME NEW s \in Students, AlreadyJoined(s) PROVE TypeOK'
  <2>1. Browse \in Route
    BY DEF Route
  <2>2. stack' \in [Students -> Seq(Route) \ {<<>>}]
    BY <1>7, <2>1, PushTyped, ZenonT(30) DEF AlreadyJoined
  <2> QED BY <1>7, <2>2, ZenonT(30) DEF AlreadyJoined, store
<1>8. ASSUME NEW s \in Students, OpenWebView(s) PROVE TypeOK'
  <2>1. WebView \in Route
    BY DEF Route
  <2>2. stack' \in [Students -> Seq(Route) \ {<<>>}]
    BY <1>8, <2>1, PushTyped, ZenonT(30) DEF OpenWebView
  <2> QED BY <1>8, <2>2, ZenonT(30) DEF OpenWebView, store
<1>9. ASSUME NEW s \in Students, Back(s) PROVE TypeOK'
  <2> DEFINE depth == Len(stack[s])
  <2>1. \A h \in loading[s] : [h EXCEPT !.route = Unmounted(@, depth)] \in Card
    <3>1. \A h \in loading[s] : h \in Card
      BY ZenonT(30)
    <3>2. depth \in Nat
      OBVIOUS
    <3>3. \A h \in Card : Unmounted(h.route, depth) \in Nat
      BY DEF Card, Unmounted
    <3>4. \A h \in Card, u \in Nat : [h EXCEPT !.route = u] \in Card
      BY ZenonT(30) DEF Card
    <3> QED BY <3>1, <3>3, <3>4, ZenonT(30)
  <2>2. SubSeq(stack[s], 1, depth - 1) \in Seq(Route) \ {<<>>}
    <3>1. stack[s] \in Seq(Route) /\ depth \in Nat /\ depth > 1
      BY <1>9 DEF Back
    <3>2. \A i \in 1..(depth - 1) : stack[s][i] \in Route
      BY <3>1
    <3>3. /\ SubSeq(stack[s], 1, depth - 1) \in Seq(Route)
          /\ Len(SubSeq(stack[s], 1, depth - 1)) = depth - 1
      BY <3>1, <3>2, SubSeqProperties
    <3>4. Len(SubSeq(stack[s], 1, depth - 1)) > 0
      BY <3>1, <3>3
    <3> QED BY <3>3, <3>4, NotEmpty, ZenonT(30)
  <2>3. loading' \in [Students -> SUBSET Card]
    BY <1>9, <2>1 DEF Back
  <2>4. route' \in [Taps -> Nat]
    BY <1>9, ZenonT(30) DEF Back, Unmounted
  <2> QED BY <1>9, <2>2, <2>3, <2>4, ZenonT(30) DEF Back, store
<1>10. ASSUME NEW s \in Students, Kill(s) PROVE TypeOK'
  <2>1. <<Browse>> \in Seq(Route) \ {<<>>}
    BY DEF Route
  <2>2. pc' \in [Taps -> PC]
    BY <1>10 DEF Kill, PC
  <2> QED BY <1>10, <2>1, <2>2, ZenonT(30) DEF Kill, store
<1>12. ASSUME NEW t \in Taps, UpdateFails(t) PROVE TypeOK'
  BY <1>12, ZenonT(30) DEF UpdateFails, PC, store
<1>11. CASE UNCHANGED vars
  BY <1>11, ZenonT(30) DEF vars
<1> QED
  BY <1>1, <1>2, <1>3, <1>4, <1>5, <1>6, <1>7, <1>8, <1>9, <1>10, <1>11, <1>12,
     ZenonT(30)
  DEF Next, Handler

(* Every page opened, every handler started and every number written has   *)
(* the type the code gives it, and a student always has a page: the back   *)
(* button never pops the first one.                                        *)
THEOREM TypeCorrect == Spec => []TypeOK
<1>1. Init => TypeOK
  BY TapAssumption, DataAssumption DEF Init, TypeOK, PC, Route
<1> QED BY <1>1, TypeStep, PTL DEF Spec

-----------------------------------------------------------------------------
(* The strengthening of the two count invariants: a read that is still to  *)
(* be used obeys the same bounds as the number itself, and while no reads  *)
(* of the club overlapped there is at most one such read and it is fresh.  *)
CountOK(c) ==
  /\ members[c] >= InitMembers[c]
  /\ members[c] <= InitMembers[c] + Cardinality(Counted(c))
  /\ Counted(c) # {} => members[c] > InitMembers[c]
  /\ c \notin Documents => members[c] = 0
  /\ \A t \in Holding(c) : /\ read[t] >= InitMembers[c]
                           /\ read[t] <= InitMembers[c] + Cardinality(Counted(c))
  /\ ~overlap[c] => /\ members[c] = InitMembers[c] + Cardinality(Counted(c))
                    /\ \A t \in Holding(c) : /\ read[t] = members[c]
                                             /\ Holding(c) = {t}

CountInv == TypeOK /\ \A c \in Clubs : CountOK(c)

(* The increments counted for a club are finitely many.                    *)
LEMMA CountedFinite ==
  ASSUME NEW c
  PROVE  IsFiniteSet(Counted(c)) /\ Cardinality(Counted(c)) \in Nat
<1>1. Counted(c) \in SUBSET Taps
  BY ZenonT(30) DEF Counted
<1> QED BY <1>1, FS_Subset, FS_CardinalityType, TapAssumption, ZenonT(30)

(* A step that counts no increment, starts no read and touches neither the *)
(* number nor the reads of a club keeps the club's count right.            *)
LEMMA CountUndisturbed ==
  ASSUME NEW c \in Clubs, CountOK(c),
         Counted(c)' = Counted(c), Holding(c)' \subseteq Holding(c),
         members'[c] = members[c], overlap'[c] = overlap[c],
         \A t \in Holding(c)' : read'[t] = read[t]
  PROVE  CountOK(c)'
<1>1. /\ members'[c] >= InitMembers[c]
      /\ members'[c] <= InitMembers[c] + Cardinality(Counted(c)')
      /\ Counted(c)' # {} => members'[c] > InitMembers[c]
      /\ c \notin Documents => members'[c] = 0
  BY ZenonT(30) DEF CountOK
<1>2. \A t \in Holding(c)' : /\ read'[t] >= InitMembers[c]
                             /\ read'[t] <= InitMembers[c] + Cardinality(Counted(c)')
  BY ZenonT(30) DEF CountOK
<1>3. ~overlap'[c] => /\ members'[c] = InitMembers[c] + Cardinality(Counted(c)')
                      /\ \A t \in Holding(c)' : /\ read'[t] = members'[c]
                                                /\ Holding(c)' = {t}
  BY ZenonT(30) DEF CountOK
<1> QED BY <1>1, <1>2, <1>3, ZenonT(30) DEF CountOK

(* Writing the number counts one more increment of that club.              *)
LEMMA WriteCounts ==
  ASSUME TypeOK, NEW t \in Taps, WriteMembers(t)
  PROVE  /\ Cardinality(Counted(ClubOf[t])') = Cardinality(Counted(ClubOf[t])) + 1
         /\ Counted(ClubOf[t])' # {}
<1>1. Counted(ClubOf[t])' = Counted(ClubOf[t]) \cup {t}
  BY ZenonT(30) DEF TypeOK, WriteMembers, Counted
<1>2. t \notin Counted(ClubOf[t])
  BY ZenonT(30) DEF WriteMembers, Counted
<1> QED BY <1>1, <1>2, CountedFinite, FS_AddElement, ZenonT(30)

(* Every step keeps the count of every club right.                         *)
LEMMA CountStep == CountInv /\ [Next]_vars => CountInv'
<1> SUFFICES ASSUME CountInv, [Next]_vars, NEW c \in Clubs PROVE CountOK(c)'
  BY TypeStep, ZenonT(30) DEF CountInv
<1> USE TapAssumption
<1>0. TypeOK /\ CountOK(c)
  BY ZenonT(30) DEF CountInv
<1>1. ASSUME UNCHANGED <<members, pc, read, overlap>> PROVE CountOK(c)'
  BY <1>0, <1>1, CountUndisturbed, ZenonT(30) DEF Counted, Holding
<1>2. ASSUME NEW t \in Taps, TapJoin(t) PROVE CountOK(c)'
  <2>1. Counted(c)' = Counted(c) /\ Holding(c)' = Holding(c)
    BY <1>0, <1>2, ZenonT(30) DEF TapJoin, Counted, Holding, TypeOK
  <2> QED BY <1>0, <1>2, <2>1, CountUndisturbed, ZenonT(30) DEF TapJoin
<1>3. ASSUME NEW t \in Taps, ReadMembers(t) PROVE CountOK(c)'
  <2>1. Counted(c)' = Counted(c) /\ members' = members
    BY <1>0, <1>3, ZenonT(30) DEF ReadMembers, Counted, TypeOK, store
  <2>2. CASE ClubOf[t] # c
    <3>1. Holding(c)' = Holding(c) /\ overlap'[c] = overlap[c]
      BY <1>0, <1>3, <2>2, ZenonT(30) DEF ReadMembers, Holding, TypeOK
    <3>2. \A u \in Holding(c) : read'[u] = read[u]
      BY <1>0, <1>3, <2>2, ZenonT(30) DEF ReadMembers, Holding, TypeOK
    <3> QED BY <1>0, <2>1, <3>1, <3>2, CountUndisturbed, ZenonT(30)
  <2>3. CASE ClubOf[t] = c
    <3>1. Holding(c)' = Holding(c) \cup {t} /\ t \notin Holding(c)
      BY <1>0, <1>3, <2>3, ZenonT(30) DEF ReadMembers, Holding, TypeOK
    <3>2. /\ read'[t] = members[c]
          /\ \A u \in Holding(c) : read'[u] = read[u]
      BY <1>0, <1>3, <2>3, <3>1, ZenonT(30) DEF ReadMembers, Holding, TypeOK, CountOK
    <3>3. ~overlap'[c] => ~overlap[c] /\ Holding(c) = {}
      BY <1>0, <1>3, <2>3, ZenonT(30) DEF ReadMembers, TypeOK
    <3> HIDE DEF Counted, Holding
    <3> QED BY <1>0, <2>1, <3>1, <3>2, <3>3, ZenonT(30) DEF CountOK
  <2> QED BY <2>2, <2>3, ZenonT(30)
<1>4. ASSUME NEW t \in Taps, WriteMembers(t) PROVE CountOK(c)'
  <2>1. read' = read /\ overlap' = overlap
    BY <1>4, ZenonT(30) DEF WriteMembers
  <2>2. CASE ClubOf[t] # c
    <3>1. /\ Counted(c)' = Counted(c) /\ Holding(c)' = Holding(c)
          /\ members'[c] = members[c]
      BY <1>0, <1>4, <2>2, ZenonT(30) DEF WriteMembers, Counted, Holding, TypeOK
    <3> QED BY <1>0, <2>1, <3>1, CountUndisturbed, ZenonT(30)
  <2>3. CASE ClubOf[t] = c
    <3>1. /\ Cardinality(Counted(c)') = Cardinality(Counted(c)) + 1
          /\ Counted(c)' # {} /\ Cardinality(Counted(c)) \in Nat
      BY <1>0, <1>4, <2>3, WriteCounts, CountedFinite, ZenonT(30)
    <3>2. Holding(c)' = Holding(c) \ {t} /\ t \in Holding(c)
      BY <1>0, <1>4, <2>3, ZenonT(30) DEF WriteMembers, Holding, TypeOK
    <3>3. members'[c] = read[t] + 1
      BY <1>0, <1>4, <2>3, ZenonT(30) DEF WriteMembers, TypeOK
    <3>4. read \in [Taps -> Nat] /\ InitMembers[c] \in Nat /\ Holding(c) \subseteq Taps
      BY <1>0, DataAssumption, ZenonT(30) DEF TypeOK, Holding
    <3>5. c \in Documents
      BY <1>4, <2>3, ZenonT(30) DEF WriteMembers
    <3> QED BY <1>0, <2>1, <3>1, <3>2, <3>3, <3>4, <3>5 DEF CountOK
  <2> QED BY <2>2, <2>3, ZenonT(30)
<1>5. ASSUME NEW t \in Taps, ShowOutcome(t) PROVE CountOK(c)'
  <2>1. Counted(c)' = Counted(c) /\ Holding(c)' = Holding(c)
    BY <1>0, <1>5, ZenonT(30) DEF ShowOutcome, Counted, Holding, TypeOK
  <2> QED BY <1>0, <1>5, <2>1, CountUndisturbed, ZenonT(30) DEF ShowOutcome, store
<1>6. ASSUME NEW s \in Students, Kill(s) PROVE CountOK(c)'
  <2>1. Counted(c)' = Counted(c) /\ Holding(c)' \subseteq Holding(c)
    BY <1>0, <1>6, ZenonT(30) DEF Kill, Counted, Holding, TypeOK
  <2> QED BY <1>0, <1>6, <2>1, CountUndisturbed, ZenonT(30) DEF Kill, store
<1>7. ASSUME NEW t \in Taps, UpdateFails(t) PROVE CountOK(c)'
  <2>1. Counted(c)' = Counted(c) /\ Holding(c)' \subseteq Holding(c)
    BY <1>0, <1>7, ZenonT(30) DEF UpdateFails, Counted, Holding, TypeOK
  <2> QED BY <1>0, <1>7, <2>1, CountUndisturbed, ZenonT(30) DEF UpdateFails, store
<1> QED
  BY <1>1, <1>2, <1>3, <1>4, <1>5, <1>6, <1>7, ZenonT(30)
  DEF Next, Handler, TapCard, CardLoaded, AlreadyJoined, OpenWebView, Back, vars, store

(* Before anything is pressed the count of every club is right.            *)
LEMMA CountInit == Init => CountInv
<1> SUFFICES ASSUME Init PROVE CountInv
  BY ZenonT(30)
<1>1. TypeOK
  BY TapAssumption, DataAssumption DEF Init, TypeOK, PC, Route
<1>2. ASSUME NEW c \in Clubs PROVE CountOK(c)
  <2>1. Counted(c) = {} /\ Holding(c) = {}
    BY ZenonT(30) DEF Init, Counted, Holding
  <2>2. Cardinality(Counted(c)) = 0
    BY <2>1, FS_EmptySet, ZenonT(30)
  <2>3. /\ members[c] = InitMembers[c] /\ InitMembers[c] \in Nat
        /\ c \notin Documents => InitMembers[c] = 0
    BY DataAssumption, ZenonT(30) DEF Init
  <2> QED BY <2>1, <2>2, <2>3 DEF CountOK
<1> QED BY <1>1, <1>2, ZenonT(30) DEF CountInv

(* The number of members stays between the old number and the old number   *)
(* plus the increments written, in every interleaving of any number of     *)
(* Join handlers, and never shows none of the increments.                  *)
THEOREM CountBounds == Spec => []CountWithin
<1>1. CountInv => CountWithin
  BY ZenonT(30) DEF CountInv, CountOK, CountWithin
<1> QED BY <1>1, CountInit, CountStep, PTL DEF Spec

(* Without overlapping reads of a club no increment is lost, whoever else  *)
(* joins other clubs, presses Back or loses the app in the middle.         *)
THEOREM CountExact == Spec => []ExactWithoutOverlap
<1>1. CountInv => ExactWithoutOverlap
  BY ZenonT(30) DEF CountInv, CountOK, ExactWithoutOverlap
<1> QED BY <1>1, CountInit, CountStep, PTL DEF Spec

-----------------------------------------------------------------------------
(* The clubs of a student only grow in number.                             *)
LEMMA ActivitiesGrow ==
  ASSUME TypeOK, [Next]_vars, NEW s \in Students
  PROVE  activities[s] \subseteq activities'[s]
<1>1. ASSUME NEW t \in Taps, TapJoin(t) PROVE activities[s] \subseteq activities'[s]
  BY <1>1, TapAssumption, ZenonT(30) DEF TapJoin, TypeOK
<1>2. ASSUME UNCHANGED activities PROVE activities[s] \subseteq activities'[s]
  BY <1>2, ZenonT(30)
<1> QED
  BY <1>1, <1>2, ZenonT(30)
  DEF Next, Handler, TapCard, CardLoaded, ReadMembers, WriteMembers, UpdateFails, ShowOutcome,
      AlreadyJoined, OpenWebView, Back, Kill, vars, store

(* Nothing but the press itself starts its handler.                        *)
LEMMA OnlyTapStarts ==
  ASSUME TypeOK, [Next]_vars, NEW t \in Taps, pc[t] = "free", pc'[t] # "free"
  PROVE  TapJoin(t)
<1> USE TapAssumption
<1>1. ASSUME NEW u \in Taps, TapJoin(u) PROVE u = t
  BY <1>1, ZenonT(30) DEF TapJoin, TypeOK
<1>2. ASSUME NEW u \in Taps, Handler(u) PROVE FALSE
  BY <1>2, ZenonT(30)
  DEF Handler, ReadMembers, WriteMembers, UpdateFails, ShowOutcome, TypeOK
<1>3. ASSUME NEW s \in Students, Kill(s) PROVE FALSE
  BY <1>3, ZenonT(30) DEF Kill
<1>4. ~UNCHANGED pc
  BY ZenonT(30)
<1> QED
  BY <1>1, <1>2, <1>3, <1>4, ZenonT(30)
  DEF Next, TapCard, CardLoaded, AlreadyJoined, OpenWebView, Back, vars

(* A press of Join records the club in the student's activities before     *)
(* anything else, and nothing takes it back.                               *)
RecordedBeforeCounted ==
  \A t \in Taps : pc[t] # "free" => ClubOf[t] \in activities[StudentOf[t]]

(* A Join handler that got as far as asking for the number of members has  *)
(* recorded the club for its student, also across deaths of the app.       *)
LEMMA Recorded == Spec => []RecordedBeforeCounted
<1>1. Init => RecordedBeforeCounted
  BY ZenonT(30) DEF Init, RecordedBeforeCounted
<1>2. TypeOK /\ RecordedBeforeCounted /\ [Next]_vars => RecordedBeforeCounted'
  <2> SUFFICES ASSUME TypeOK, RecordedBeforeCounted, [Next]_vars,
                      NEW t \in Taps, pc'[t] # "free"
               PROVE  ClubOf[t] \in activities'[StudentOf[t]]
    BY ZenonT(30) DEF RecordedBeforeCounted
  <2> USE TapAssumption
  <2>1. StudentOf[t] \in Students
    BY ZenonT(30)
  <2>2. CASE pc[t] # "free"
    BY <2>1, <2>2, ActivitiesGrow, ZenonT(30) DEF RecordedBeforeCounted
  <2>3. CASE pc[t] = "free"
    <3>5. TapJoin(t)
      BY <2>3, OnlyTapStarts, ZenonT(30)
    <3> QED BY <3>5, <2>1, ZenonT(30) DEF TapJoin, TypeOK
  <2> QED BY <2>2, <2>3, ZenonT(30)
<1> QED BY <1>1, <1>2, TypeCorrect, PTL DEF Spec

-----------------------------------------------------------------------------
(* The label of a page r is right for a student whose clubs are A and were *)
(* E: 'Already Joined' is for a club of A, Join for a club not of E.       *)
LabelOK(A, E, r) == r.kind = "info" => IF r.joined THEN r.club \in A ELSE r.club \notin E

(* A press was made for a club that was not the student's at the start.    *)
NotTheirsBefore ==
  \A t \in Taps : pc[t] # "free" => ClubOf[t] \notin Enrolled[StudentOf[t]]

LabelInv ==
  /\ \A s \in Students : Enrolled[s] \subseteq activities[s]
  /\ \A s \in Students : \A i \in 1..Len(stack[s]) :
       LabelOK(activities[s], Enrolled[s], stack[s][i])
  /\ NotTheirsBefore

(* A step that leaves no page with a wrong label.                          *)
LEMMA LabelStep ==
  ASSUME TypeOK, LabelInv, [Next]_vars, NEW s \in Students, NEW i \in 1..Len(stack'[s])
  PROVE  LabelOK(activities'[s], Enrolled[s], stack'[s][i])
<1> DEFINE Goal == LabelOK(activities'[s], Enrolled[s], stack'[s][i])
<1> USE TapAssumption
<1>0. stack[s] \in Seq(Route) /\ stack \in [Students -> Seq(Route) \ {<<>>}]
  BY ZenonT(30) DEF TypeOK
<1>1. \A j \in 1..Len(stack[s]) : LabelOK(activities[s], Enrolled[s], stack[s][j])
  BY ZenonT(30) DEF LabelInv
<1>2. \A r : LabelOK(activities[s], Enrolled[s], r) => LabelOK(activities'[s], Enrolled[s], r)
  BY ActivitiesGrow, ZenonT(30) DEF LabelOK
<1>3. ASSUME stack'[s] = stack[s] PROVE Goal
  BY <1>1, <1>2, <1>3, ZenonT(30)
<1>4. ASSUME NEW z \in Students, NEW r \in Route, Push(z, r),
             LabelOK(activities[z], Enrolled[z], r)
      PROVE  Goal
  <2>1. CASE z # s
    BY <1>0, <1>3, <1>4, <2>1, ZenonT(30) DEF Push
  <2>2. CASE z = s
    <3>1. stack'[s] = Append(stack[s], r)
      BY <1>0, <1>4, <2>2, ZenonT(30) DEF Push
    <3>2. stack'[s][i] = r \/ \E j \in 1..Len(stack[s]) : stack'[s][i] = stack[s][j]
      BY <1>0, <1>4, <3>1, AppendProperties
    <3> QED BY <1>1, <1>2, <1>4, <2>2, <3>2, ZenonT(30)
  <2> QED BY <2>1, <2>2, ZenonT(30)
<1>5. Browse \in Route /\ WebView \in Route /\ \A c \in Clubs : RemindDialog(c) \in Route
  BY DEF Route
<1>6. \A z, c : /\ LabelOK(activities[z], Enrolled[z], Browse) /\ LabelOK(activities[z], Enrolled[z], WebView)
                /\ LabelOK(activities[z], Enrolled[z], RemindDialog(c))
  BY ZenonT(30) DEF LabelOK, Browse, WebView, RemindDialog
<1>7. ASSUME NEW z \in Students, NEW h \in loading[z], CardLoaded(z, h) PROVE Goal
  <2>1. h.club \in Clubs
    BY DEF TypeOK, Card
  <2>2. LabelOK(activities[z], Enrolled[z], Info(h.club, h.club \in activities[z]))
    BY ZenonT(30) DEF LabelOK, Info, LabelInv
  <2>3. Info(h.club, h.club \in activities[z]) \in Route
    <3>1. (h.club \in activities[z]) \in BOOLEAN
      OBVIOUS
    <3> QED BY <2>1, <3>1, InfoIsRoute, ZenonT(30)
  <2> QED BY <1>3, <1>4, <1>7, <2>2, <2>3, ZenonT(30) DEF CardLoaded
<1>8. ASSUME NEW t \in Taps, ShowOutcome(t) PROVE Goal
  BY <1>3, <1>4, <1>5, <1>6, <1>8, ZenonT(30) DEF ShowOutcome
<1>9. ASSUME NEW z \in Students, AlreadyJoined(z) \/ OpenWebView(z) PROVE Goal
  BY <1>4, <1>5, <1>6, <1>9, ZenonT(30) DEF AlreadyJoined, OpenWebView
<1>10. ASSUME NEW z \in Students, Back(z) PROVE Goal
  <2>1. CASE z # s
    BY <1>0, <1>3, <1>10, <2>1, ZenonT(30) DEF Back
  <2>2. CASE z = s
    <3>1. stack'[s] = SubSeq(stack[s], 1, Len(stack[s]) - 1) /\ Len(stack[s]) > 1
      BY <1>0, <1>10, <2>2, ZenonT(30) DEF Back
    <3>2. i \in 1..Len(stack[s]) /\ stack'[s][i] = stack[s][i]
      BY <1>0, <3>1
    <3> QED BY <1>1, <1>2, <3>2, ZenonT(30)
  <2> QED BY <2>1, <2>2, ZenonT(30)
<1>11. ASSUME NEW z \in Students, Kill(z) PROVE Goal
  <2>1. CASE z # s
    BY <1>0, <1>3, <1>11, <2>1, ZenonT(30) DEF Kill
  <2>2. CASE z = s
    <3>1. stack'[s] = <<Browse>>
      BY <1>0, <1>11, <2>2, ZenonT(30) DEF Kill
    <3> QED BY <1>2, <1>6, <3>1
  <2> QED BY <2>1, <2>2, ZenonT(30)
<1>12. ASSUME UNCHANGED stack PROVE Goal
  BY <1>3, <1>12, ZenonT(30)
<1>13. ASSUME NEW t \in Taps, TapJoin(t) \/ Handler(t) PROVE Goal
  BY <1>8, <1>12, <1>13, ZenonT(30) DEF TapJoin, Handler, ReadMembers, WriteMembers, UpdateFails
<1>14. ASSUME NEW z \in Students, NEW c \in Clubs, TapCard(z, c) PROVE Goal
  BY <1>12, <1>14, ZenonT(30) DEF TapCard
<1>15. ASSUME UNCHANGED vars PROVE Goal
  BY <1>12, <1>15, ZenonT(30) DEF vars
<1> SUFFICES Goal
  OBVIOUS
<1> HIDE DEF Goal
<1> QED
  BY <1>7, <1>9, <1>10, <1>11, <1>13, <1>14, <1>15, ZenonT(30) DEF Next

(* The labels are right in every state.                                    *)
LEMMA LabelsAreTrue == Spec => []LabelInv
<1>1. Init => LabelInv
  BY DEF Init, LabelInv, LabelOK, NotTheirsBefore, Browse
<1>2. TypeOK /\ LabelInv /\ [Next]_vars => LabelInv'
  <2> SUFFICES ASSUME TypeOK, LabelInv, [Next]_vars PROVE LabelInv'
    OBVIOUS
  <2>1. \A s \in Students : Enrolled[s] \subseteq activities'[s]
    BY ActivitiesGrow, ZenonT(30) DEF LabelInv
  <2>2. \A s \in Students : \A i \in 1..Len(stack'[s]) :
          LabelOK(activities'[s], Enrolled[s], stack'[s][i])
    BY LabelStep, ZenonT(30)
  <2>3. ASSUME NEW t \in Taps, pc'[t] # "free", pc[t] = "free"
        PROVE  ClubOf[t] \notin Enrolled[StudentOf[t]]
    <3>1. TapJoin(t)
      BY <2>3, OnlyTapStarts, ZenonT(30)
    <3>2. /\ StudentOf[t] \in Students /\ stack[StudentOf[t]] \in Seq(Route) \ {<<>>}
          /\ stack[StudentOf[t]][Len(stack[StudentOf[t]])] = Info(ClubOf[t], FALSE)
      BY <3>1, TapAssumption, ZenonT(30) DEF TapJoin, Top, TypeOK
    <3>3. Len(stack[StudentOf[t]]) \in 1..Len(stack[StudentOf[t]])
      BY <3>2
    <3>4. LabelOK(activities[StudentOf[t]], Enrolled[StudentOf[t]], Info(ClubOf[t], FALSE))
      BY <3>2, <3>3, ZenonT(30) DEF LabelInv
    <3> QED BY <3>4, ZenonT(30) DEF LabelOK, Info
  <2>4. NotTheirsBefore'
    BY <2>3, ZenonT(30) DEF LabelInv, NotTheirsBefore
  <2> QED BY <2>1, <2>2, <2>4, ZenonT(30) DEF LabelInv
<1> QED BY <1>1, <1>2, TypeCorrect, PTL DEF Spec

(* A page that says 'Already Joined' is right for as long as it exists:    *)
(* joined is computed from the student's activities, which never shrink.   *)
THEOREM LabelIsTrue == Spec => []AlreadyJoinedIsTrue
<1>1. LabelInv => AlreadyJoinedIsTrue
  BY ZenonT(30) DEF LabelInv, LabelOK, AlreadyJoinedIsTrue
<1> QED BY <1>1, LabelsAreTrue, PTL

-----------------------------------------------------------------------------
(* A student's clubs are those of the beginning and those of a press.      *)
JoinedByPress ==
  \A s \in Students : \A c \in activities[s] :
    \/ c \in Enrolled[s]
    \/ \E t \in Taps : StudentOf[t] = s /\ ClubOf[t] = c /\ pc[t] # "free"

(* A press that was made stays made.                                       *)
LEMMA PressesStay ==
  ASSUME TypeOK, [Next]_vars, NEW t \in Taps, pc[t] # "free"
  PROVE  pc'[t] # "free"
<1> USE TapAssumption
<1>1. ASSUME NEW u \in Taps, TapJoin(u) \/ Handler(u) PROVE pc'[t] # "free"
  BY <1>1, ZenonT(30) DEF TapJoin, Handler, ReadMembers, WriteMembers, UpdateFails, ShowOutcome, TypeOK
<1>2. ASSUME NEW s \in Students, Kill(s) PROVE pc'[t] # "free"
  BY <1>2, ZenonT(30) DEF Kill
<1> QED
  BY <1>1, <1>2, ZenonT(30) DEF Next, TapCard, CardLoaded, AlreadyJoined, OpenWebView, Back, vars

(* A club is in a student's record for one press of Join, in every step.   *)
LEMMA JoinedStep == TypeOK /\ JoinedByPress /\ [Next]_vars => JoinedByPress'
<1> SUFFICES ASSUME TypeOK, JoinedByPress, [Next]_vars,
                    NEW s \in Students, NEW c \in activities'[s], c \notin Enrolled[s]
             PROVE  \E t \in Taps : StudentOf[t] = s /\ ClubOf[t] = c /\ pc'[t] # "free"
  BY DEF JoinedByPress
<1>1. CASE c \in activities[s]
  BY <1>1, PressesStay DEF JoinedByPress
<1>2. CASE c \notin activities[s]
  <2>1. PICK t \in Taps : TapJoin(t)
    BY <1>2, ZenonT(30)
    DEF Next, Handler, TapCard, CardLoaded, ReadMembers, WriteMembers, UpdateFails, ShowOutcome,
        AlreadyJoined, OpenWebView, Back, Kill, vars, store
  <2>2. StudentOf[t] = s /\ ClubOf[t] = c
    BY <1>2, <2>1, TapAssumption, ZenonT(30) DEF TapJoin, TypeOK
  <2>3. pc'[t] # "free"
    BY <2>1, ZenonT(30) DEF TapJoin, TypeOK
  <2> QED BY <2>2, <2>3, ZenonT(30)
<1> QED BY <1>1, <1>2, ZenonT(30)

(* Different presses are of different students, new members all of them.   *)
LEMMA PressersAreNew ==
  ASSUME NEW c \in Clubs, TypeOK, RecordedBeforeCounted, NotTheirsBefore, PressedOnce(c),
         NEW P, P \subseteq Pressed(c)
  PROVE  [t \in P |-> StudentOf[t]] \in Injection(P, NewMembers(c))
<1> DEFINE who == [t \in P |-> StudentOf[t]]
<1>1. who \in [P -> NewMembers(c)]
  BY TapAssumption DEF RecordedBeforeCounted, NotTheirsBefore, Pressed, NewMembers
<1>2. \A t, u \in P : who[t] = who[u] => t = u
  BY ZenonT(30) DEF PressedOnce
<1> QED BY <1>1, <1>2, ZenonT(30) DEF Injection, IsInjective

(* The new members of a club are finitely many, each made by a press.      *)
LEMMA NewMembersFinite ==
  ASSUME NEW c \in Clubs, TypeOK, JoinedByPress
  PROVE  IsFiniteSet(NewMembers(c))
<1> DEFINE who == [t \in Pressed(c) |-> StudentOf[t]]
           people == {who[t] : t \in Pressed(c)}
<1>1. IsFiniteSet(Pressed(c))
  <2>1. Pressed(c) \subseteq Taps
    BY ZenonT(30) DEF Pressed
  <2> QED BY <2>1, FS_Subset, TapAssumption, ZenonT(30)
<1>2. who \in Surjection(Pressed(c), people)
  <2>1. who \in [Pressed(c) -> people]
    OBVIOUS
  <2>2. \A s \in people : \E t \in Pressed(c) : who[t] = s
    OBVIOUS
  <2> QED BY <2>1, <2>2, Fun_IsSurj
<1>4. IsFiniteSet(people)
  BY <1>1, <1>2, FS_Surjection
<1>3. NewMembers(c) \subseteq people
  BY DEF JoinedByPress, NewMembers, Pressed
<1> QED BY <1>3, <1>4, FS_Subset, ZenonT(30)

(* When all presses for a club ended well, one for each new member, the    *)
(* presses and the new members correspond one to one.                      *)
LEMMA OnePressEach ==
  ASSUME NEW c \in Clubs, TypeOK, JoinedByPress, RecordedBeforeCounted, NotTheirsBefore,
         PressedOnce(c), \A t \in Pressed(c) : pc[t] = "done"
  PROVE  Cardinality(NewMembers(c)) = Cardinality(Counted(c))
<1> DEFINE who == [t \in Pressed(c) |-> StudentOf[t]]
<1>1. Pressed(c) = Counted(c)
  BY ZenonT(30) DEF Counted, Pressed
<1>2. who \in Injection(Pressed(c), NewMembers(c))
  BY PressersAreNew, ZenonT(30)
<1>3. \A s \in NewMembers(c) : \E t \in Pressed(c) : who[t] = s
  BY DEF JoinedByPress, NewMembers, Pressed
<1>4. who \in Bijection(Pressed(c), NewMembers(c))
  BY <1>2, <1>3, Fun_IsBij, ZenonT(30) DEF Injection, IsInjective
<1>5. ExistsBijection(Pressed(c), NewMembers(c))
  BY <1>4, ZenonT(30) DEF ExistsBijection
<1> QED BY <1>1, <1>5, CountedFinite, FS_Bijection, ZenonT(30)

(* There are no more increments than new members while nobody presses      *)
(* twice.                                                                  *)
LEMMA FewerCounted ==
  ASSUME NEW c \in Clubs, TypeOK, JoinedByPress, RecordedBeforeCounted, NotTheirsBefore,
         PressedOnce(c)
  PROVE  /\ Cardinality(Counted(c)) <= Cardinality(NewMembers(c))
         /\ Cardinality(NewMembers(c)) \in Nat
<1> DEFINE who == [t \in Counted(c) |-> StudentOf[t]]
<1>1. Counted(c) \subseteq Pressed(c)
  BY ZenonT(30) DEF Counted, Pressed
<1>2. who \in Injection(Counted(c), NewMembers(c))
  BY <1>1, PressersAreNew, ZenonT(30)
<1>4. IsFiniteSet(NewMembers(c)) /\ Cardinality(NewMembers(c)) \in Nat
  BY NewMembersFinite, FS_CardinalityType, ZenonT(30)
<1> HIDE DEF who
<1>5. Cardinality(Counted(c)) <= Cardinality(NewMembers(c))
  BY <1>2, <1>4, FS_Injection, ZenonT(30)
<1> QED BY <1>4, <1>5, ZenonT(30)

(* A number of members is what the students' own records say when every    *)
(* handler of the club finished alone and for a student who had not joined *)
(* it: each new member is one press, and each press is one increment.      *)
THEOREM CleanJoins == Spec => []CleanJoinsAreCounted
<1>1. Init => JoinedByPress
  BY ZenonT(30) DEF Init, JoinedByPress
<1>2. /\ TypeOK /\ JoinedByPress /\ RecordedBeforeCounted /\ NotTheirsBefore
      /\ ExactWithoutOverlap
      => CleanJoinsAreCounted
  BY OnePressEach, ZenonT(30) DEF CleanJoinsAreCounted, ExactWithoutOverlap
<1> QED BY <1>1, <1>2, JoinedStep, TypeCorrect, Recorded, LabelsAreTrue, CountExact, PTL
        DEF Spec, LabelInv

(* No member is made up: whatever overlaps, dies or fails, the number of a *)
(* club nobody pressed Join twice for grows by at most the students who    *)
(* have the club in their activities.                                      *)
THEOREM NoneMadeUp == Spec => []NeverOvercounted
<1>1. Init => JoinedByPress
  BY ZenonT(30) DEF Init, JoinedByPress
<1>2. /\ TypeOK /\ JoinedByPress /\ RecordedBeforeCounted /\ NotTheirsBefore /\ CountWithin
      => NeverOvercounted
  <2> SUFFICES ASSUME TypeOK, JoinedByPress, RecordedBeforeCounted, NotTheirsBefore,
                      CountWithin, NEW c \in Clubs, PressedOnce(c)
               PROVE  members[c] <= InitMembers[c] + Cardinality(NewMembers(c))
    BY ZenonT(30) DEF NeverOvercounted
  <2>1. members[c] <= InitMembers[c] + Cardinality(Counted(c))
    BY ZenonT(30) DEF CountWithin
  <2>2. members[c] \in Nat /\ InitMembers[c] \in Nat /\ Cardinality(Counted(c)) \in Nat
    BY DataAssumption, CountedFinite, ZenonT(30) DEF TypeOK
  <2>3. /\ Cardinality(Counted(c)) <= Cardinality(NewMembers(c))
        /\ Cardinality(NewMembers(c)) \in Nat
    BY FewerCounted, ZenonT(30)
  <2> QED BY <2>1, <2>2, <2>3
<1> QED BY <1>1, <1>2, JoinedStep, TypeCorrect, Recorded, LabelsAreTrue, CountBounds, PTL
        DEF Spec, LabelInv

-----------------------------------------------------------------------------
(* The presses whose increment was written.                                *)
Written == {t \in Taps : pc[t] \in {"show", "done"}}

(* What the Remind question at i on the stack q of s needs of the pages    *)
(* under it and of the presses W whose increment was written.              *)
AskedOK(s, q, i, W) ==
  q[i].kind = "remind" =>
    /\ \E j \in 1..(i - 1) : q[j] = Info(q[i].club, FALSE)
    /\ \E t \in W : ClubOf[t] = q[i].club /\ StudentOf[t] = s

(* The page at p a handler remembers is there, with its Join button.       *)
RouteOK(t, q, p) == p # 0 => p \in 1..Len(q) /\ q[p] = Info(ClubOf[t], FALSE)

AskInv ==
  /\ \A s \in Students : \A i \in 1..Len(stack[s]) : AskedOK(s, stack[s], i, Written)
  /\ \A t \in Taps : RouteOK(t, stack[StudentOf[t]], route[t])

(* An increment that was written stays written.                            *)
LEMMA WrittenGrows ==
  ASSUME TypeOK, [Next]_vars
  PROVE  Written \subseteq Written'
<1> USE TapAssumption
<1>1. ASSUME NEW u \in Taps, TapJoin(u) \/ Handler(u) PROVE Written \subseteq Written'
  BY <1>1, ZenonT(30)
  DEF TapJoin, Handler, ReadMembers, WriteMembers, UpdateFails, ShowOutcome, TypeOK, Written
<1>2. ASSUME NEW s \in Students, Kill(s) PROVE Written \subseteq Written'
  BY <1>2, ZenonT(30) DEF Kill, Written, TypeOK
<1>3. ASSUME UNCHANGED pc PROVE Written \subseteq Written'
  BY <1>3, ZenonT(30) DEF Written
<1> QED
  BY <1>1, <1>2, <1>3, ZenonT(30)
  DEF Next, TapCard, CardLoaded, AlreadyJoined, OpenWebView, Back, vars

(* A stack that keeps a beginning of the old one keeps the questions there *)
(* where they may be.                                                      *)
LEMMA AskedStays ==
  ASSUME NEW s, NEW q, NEW r, NEW V, NEW W, V \subseteq W, NEW n \in Nat,
         \A j \in 1..n : r[j] = q[j], NEW i \in 1..n, AskedOK(s, q, i, V)
  PROVE  AskedOK(s, r, i, W)
<1>1. \A j \in 1..(i - 1) : j \in 1..n
  OBVIOUS
<1> QED BY <1>1, ZenonT(30) DEF AskedOK

(* Where a step may bring a page: a page of another kind anywhere, a       *)
(* question only over its page.                                            *)
LEMMA AskedPush ==
  ASSUME TypeOK, AskInv, [Next]_vars, NEW s \in Students, NEW r \in Route,
         stack'[s] = Append(stack[s], r),
         r.kind = "remind" =>
           /\ \E j \in 1..Len(stack[s]) : stack[s][j] = Info(r.club, FALSE)
           /\ \E t \in Written' : ClubOf[t] = r.club /\ StudentOf[t] = s,
         NEW i \in 1..Len(stack'[s])
  PROVE  AskedOK(s, stack'[s], i, Written')
<1> DEFINE n == Len(stack[s])
<1>0. stack[s] \in Seq(Route) /\ n \in Nat
  BY DEF TypeOK
<1>1. /\ Len(stack'[s]) = n + 1 /\ stack'[s][n + 1] = r
      /\ \A j \in 1..n : stack'[s][j] = stack[s][j]
  BY <1>0, AppendProperties
<1>2. CASE i \in 1..n
  <2>1. \A j \in 1..n : AskedOK(s, stack[s], j, Written)
    BY ZenonT(30) DEF AskInv
  <2> HIDE DEF n
  <2> QED BY <1>0, <1>1, <1>2, <2>1, AskedStays, WrittenGrows, ZenonT(30)
<1>3. CASE i = n + 1
  <2>1. \A j \in 1..n : j \in 1..(i - 1)
    BY <1>0, <1>3
  <2>2. stack'[s][i] = r
    BY <1>1, <1>3
  <2> HIDE DEF n
  <2>3. r.kind = "remind" => \E j \in 1..(i - 1) : stack'[s][j] = Info(r.club, FALSE)
    BY <1>1, <2>1, ZenonT(30) DEF n
  <2> QED BY <2>2, <2>3, ZenonT(30) DEF AskedOK
<1> QED BY <1>0, <1>1, <1>2, <1>3

(* A step that brings or removes pages keeps the questions over theirs.    *)
LEMMA AskedStep ==
  ASSUME TypeOK, AskInv, [Next]_vars, NEW s \in Students, NEW i \in 1..Len(stack'[s])
  PROVE  AskedOK(s, stack'[s], i, Written')
<1> DEFINE Goal == AskedOK(s, stack'[s], i, Written')
<1> SUFFICES Goal
  OBVIOUS
<1> USE TapAssumption
<1>0. stack[s] \in Seq(Route) /\ stack \in [Students -> Seq(Route) \ {<<>>}]
  BY ZenonT(30) DEF TypeOK
<1>1. \A j \in 1..Len(stack[s]) : AskedOK(s, stack[s], j, Written)
  BY ZenonT(30) DEF AskInv
<1>2. ASSUME NEW n \in Nat, n <= Len(stack[s]), Len(stack'[s]) = n,
             \A j \in 1..n : stack'[s][j] = stack[s][j]
      PROVE  Goal
  <2>1. \A j \in 1..n : AskedOK(s, stack[s], j, Written)
    BY <1>0, <1>1, <1>2
  <2>2. i \in 1..n
    BY <1>2
  <2> QED BY <1>2, <2>1, <2>2, AskedStays, WrittenGrows, ZenonT(30)
<1>3. ASSUME stack'[s] = stack[s] PROVE Goal
  <2>1. Len(stack[s]) \in Nat /\ Len(stack[s]) <= Len(stack[s])
    BY <1>0
  <2> QED BY <1>2, <1>3, <2>1, ZenonT(30)
<1>4. ASSUME NEW z \in Students, NEW r \in Route, Push(z, r), r.kind # "remind" PROVE Goal
  <2>1. stack'[s] = stack[s] \/ stack'[s] = Append(stack[s], r)
    BY <1>0, <1>4, ZenonT(30) DEF Push
  <2> QED BY <1>3, <1>4, <2>1, AskedPush, ZenonT(30)
<1>5. /\ Browse \in Route /\ WebView \in Route /\ \A c \in Clubs : RemindDialog(c) \in Route
      /\ Browse.kind # "remind" /\ WebView.kind # "remind"
      /\ \A c, j : Info(c, j).kind # "remind" /\ RemindDialog(c).club = c
  <2>1. /\ Browse \in Route /\ WebView \in Route
        /\ \A c \in Clubs : RemindDialog(c) \in Route
    BY DEF Route
  <2>2. Browse.kind # "remind" /\ WebView.kind # "remind"
    BY DEF Browse, WebView
  <2>3. \A c, j : Info(c, j).kind # "remind" /\ RemindDialog(c).club = c
    BY ZenonT(30) DEF Info, RemindDialog
  <2> QED BY <2>1, <2>2, <2>3, ZenonT(30)
<1>6. ASSUME NEW z \in Students, NEW h \in loading[z], CardLoaded(z, h) PROVE Goal
  <2>1. h.club \in Clubs /\ (h.club \in activities[z]) \in BOOLEAN
    BY DEF TypeOK, Card
  <2>2. Info(h.club, h.club \in activities[z]) \in Route
    BY <2>1, InfoIsRoute, ZenonT(30)
  <2> QED BY <1>3, <1>4, <1>5, <1>6, <2>2, ZenonT(30) DEF CardLoaded
<1>7. ASSUME NEW t \in Taps, ShowOutcome(t) PROVE Goal
  <2>0. StudentOf[t] \in Students /\ ClubOf[t] \in Clubs
    BY ZenonT(30)
  <2>1. CASE route[t] = 0 \/ StudentOf[t] # s
    BY <1>0, <1>3, <1>7, <2>1, ZenonT(30) DEF ShowOutcome, Push
  <2>2. CASE StudentOf[t] = s /\ route[t] # 0 /\ ClubOf[t] \notin Remind
    BY <1>4, <1>5, <1>7, <2>2, ZenonT(30) DEF ShowOutcome
  <2>3. CASE StudentOf[t] = s /\ route[t] # 0 /\ ClubOf[t] \in Remind
    <3>1. stack'[s] = Append(stack[s], RemindDialog(ClubOf[t]))
      BY <1>0, <1>7, <2>3, ZenonT(30) DEF ShowOutcome, Push
    <3>2. route[t] \in 1..Len(stack[s]) /\ stack[s][route[t]] = Info(ClubOf[t], FALSE)
      BY <2>3, ZenonT(30) DEF AskInv, RouteOK
    <3>3. t \in Written'
      BY <1>7, ZenonT(30) DEF ShowOutcome, Written, TypeOK
    <3> QED BY <1>5, <2>0, <2>3, <3>1, <3>2, <3>3, AskedPush, ZenonT(30)
  <2> QED BY <2>1, <2>2, <2>3, ZenonT(30)
<1>8. ASSUME NEW z \in Students, AlreadyJoined(z) \/ OpenWebView(z) PROVE Goal
  BY <1>4, <1>5, <1>8, ZenonT(30) DEF AlreadyJoined, OpenWebView
<1>9. ASSUME NEW z \in Students, Back(z) PROVE Goal
  <2>1. CASE z # s
    BY <1>0, <1>3, <1>9, <2>1, ZenonT(30) DEF Back
  <2>2. CASE z = s
    <3>1. stack'[s] = SubSeq(stack[s], 1, Len(stack[s]) - 1) /\ Len(stack[s]) > 1
      BY <1>0, <1>9, <2>2, ZenonT(30) DEF Back
    <3> DEFINE n == Len(stack[s]) - 1
    <3>2. /\ n \in Nat /\ n <= Len(stack[s]) /\ Len(stack'[s]) = n
          /\ \A j \in 1..n : stack'[s][j] = stack[s][j]
      BY <1>0, <3>1
    <3> HIDE DEF n
    <3> QED BY <1>2, <3>2, ZenonT(30)
  <2> QED BY <2>1, <2>2, ZenonT(30)
<1>10. ASSUME NEW z \in Students, Kill(z) PROVE Goal
  <2>1. CASE z # s
    BY <1>0, <1>3, <1>10, <2>1, ZenonT(30) DEF Kill
  <2>2. CASE z = s
    <3>1. stack'[s] = <<Browse>>
      BY <1>0, <1>10, <2>2, ZenonT(30) DEF Kill
    <3>2. stack'[s][i] = Browse
      BY <3>1
    <3> QED BY <1>5, <3>2, ZenonT(30) DEF AskedOK
  <2> QED BY <2>1, <2>2, ZenonT(30)
<1>11. ASSUME UNCHANGED stack PROVE Goal
  BY <1>3, <1>11, ZenonT(30)
<1> HIDE DEF Goal
<1> QED
  BY <1>6, <1>7, <1>8, <1>9, <1>10, <1>11, ZenonT(30)
  DEF Next, TapJoin, Handler, ReadMembers, WriteMembers, UpdateFails, TapCard, vars

(* The page a handler will push from stays where the handler remembers it, *)
(* or the handler knows that it is gone.                                   *)
LEMMA RouteStep ==
  ASSUME TypeOK, AskInv, [Next]_vars, NEW t \in Taps
  PROVE  RouteOK(t, stack'[StudentOf[t]], route'[t])
<1> DEFINE s == StudentOf[t]
           Goal == RouteOK(t, stack'[s], route'[t])
<1> SUFFICES Goal
  OBVIOUS
<1> USE TapAssumption
<1>0. /\ s \in Students /\ stack[s] \in Seq(Route) \ {<<>>}
      /\ stack \in [Students -> Seq(Route) \ {<<>>}]
      /\ route \in [Taps -> Nat]
  BY ZenonT(30) DEF TypeOK
<1>1. RouteOK(t, stack[s], route[t])
  BY ZenonT(30) DEF AskInv
<1> HIDE DEF s
<1>2. ASSUME route'[t] = route[t], stack'[s] = stack[s] PROVE Goal
  BY <1>1, <1>2, ZenonT(30) DEF RouteOK
<1>3. ASSUME route' = route, NEW z \in Students, NEW r \in Route, Push(z, r) PROVE Goal
  <2>1. CASE z # s
    BY <1>0, <1>2, <1>3, <2>1, ZenonT(30) DEF Push
  <2>2. CASE z = s
    <3>1. stack'[s] = Append(stack[s], r)
      BY <1>0, <1>3, <2>2, ZenonT(30) DEF Push
    <3>2. \A j \in 1..Len(stack[s]) : j \in 1..Len(stack'[s]) /\ stack'[s][j] = stack[s][j]
      BY <1>0, <3>1, AppendProperties
    <3> QED BY <1>1, <1>3, <3>2, ZenonT(30) DEF RouteOK
  <2> QED BY <2>1, <2>2, ZenonT(30)
<1>4. /\ Browse \in Route /\ WebView \in Route /\ \A c \in Clubs : RemindDialog(c) \in Route
  BY DEF Route
<1>5. ASSUME NEW u \in Taps, TapJoin(u) PROVE Goal
  <2>1. CASE u = t
    <3>1. /\ route'[t] = Len(stack[s]) /\ stack' = stack
          /\ stack[s][Len(stack[s])] = Info(ClubOf[t], FALSE)
      BY <1>0, <1>5, <2>1, ZenonT(30) DEF TapJoin, Top, s
    <3>2. Len(stack[s]) \in 1..Len(stack[s])
      BY <1>0
    <3> QED BY <3>1, <3>2, ZenonT(30) DEF RouteOK
  <2>2. CASE u # t
    BY <1>0, <1>2, <1>5, <2>2, ZenonT(30) DEF TapJoin
  <2> QED BY <2>1, <2>2, ZenonT(30)
<1>6. ASSUME NEW z \in Students, NEW h \in loading[z], CardLoaded(z, h) PROVE Goal
  <2>1. h.club \in Clubs /\ (h.club \in activities[z]) \in BOOLEAN
    BY DEF TypeOK, Card
  <2>2. Info(h.club, h.club \in activities[z]) \in Route
    BY <2>1, InfoIsRoute, ZenonT(30)
  <2> QED BY <1>2, <1>3, <1>6, <2>2, ZenonT(30) DEF CardLoaded
<1>7. ASSUME NEW u \in Taps, ShowOutcome(u) PROVE Goal
  BY <1>2, <1>3, <1>4, <1>7, ZenonT(30) DEF ShowOutcome
<1>8. ASSUME NEW z \in Students, AlreadyJoined(z) \/ OpenWebView(z) PROVE Goal
  BY <1>3, <1>4, <1>8, ZenonT(30) DEF AlreadyJoined, OpenWebView
<1>9. ASSUME NEW z \in Students, Back(z) PROVE Goal
  <2>1. CASE z # s
    BY <1>0, <1>2, <1>9, <2>1, ZenonT(30) DEF Back, s
  <2>2. CASE z = s
    <3>1. /\ stack'[s] = SubSeq(stack[s], 1, Len(stack[s]) - 1) /\ Len(stack[s]) > 1
          /\ route'[t] = IF route[t] = Len(stack[s]) THEN 0 ELSE route[t]
      BY <1>0, <1>9, <2>2, ZenonT(30) DEF Back, Unmounted, s
    <3>2. CASE route[t] = Len(stack[s]) \/ route[t] = 0
      BY <3>1, <3>2, ZenonT(30) DEF RouteOK
    <3>3. CASE route[t] # Len(stack[s]) /\ route[t] # 0
      <4>1. route[t] \in 1..Len(stack[s]) /\ stack[s][route[t]] = Info(ClubOf[t], FALSE)
        BY <1>1, <3>3, ZenonT(30) DEF RouteOK
      <4>2. route[t] \in 1..Len(stack'[s]) /\ stack'[s][route[t]] = stack[s][route[t]]
        <5> DEFINE q == stack[s]  p == route[t]
        <5>1. q \in Seq(Route) /\ p \in 1..Len(q) /\ p # Len(q)
          BY <1>0, <3>3, <4>1, ZenonT(30)
        <5> HIDE DEF q, p
        <5>2. /\ p \in 1..Len(SubSeq(q, 1, Len(q) - 1))
              /\ SubSeq(q, 1, Len(q) - 1)[p] = q[p]
          BY <5>1
        <5> QED BY <3>1, <5>2, ZenonT(30) DEF q, p
      <4> QED BY <3>1, <3>3, <4>1, <4>2, ZenonT(30) DEF RouteOK
    <3> QED BY <3>2, <3>3, ZenonT(30)
  <2> QED BY <2>1, <2>2, ZenonT(30)
<1>10. ASSUME NEW z \in Students, Kill(z) PROVE Goal
  <2>1. CASE z # s
    BY <1>0, <1>2, <1>10, <2>1, ZenonT(30) DEF Kill, s
  <2>2. CASE z = s
    <3>1. route'[t] = 0
      BY <1>10, <2>2, ZenonT(30) DEF Kill, s
    <3> QED BY <3>1, ZenonT(30) DEF RouteOK
  <2> QED BY <2>1, <2>2, ZenonT(30)
<1>11. ASSUME UNCHANGED <<stack, route>> PROVE Goal
  BY <1>2, <1>11, ZenonT(30)
<1> HIDE DEF Goal
<1> QED
  BY <1>5, <1>6, <1>7, <1>8, <1>9, <1>10, <1>11, ZenonT(30)
  DEF Next, Handler, ReadMembers, WriteMembers, UpdateFails, TapCard, vars

(* The Remind question is asked over the page it is about, of a student    *)
(* who was counted, whatever was opened, left or killed while the handler  *)
(* waited for its three answers.                                           *)
THEOREM Asked == Spec => []AskedOnItsPage
<1>1. Init => AskInv
  <2> SUFFICES ASSUME Init PROVE AskInv
    OBVIOUS
  <2>1. \A s \in Students : \A i \in 1..Len(stack[s]) : stack[s][i].kind = "browse"
    BY DEF Init, Browse
  <2>2. \A s \in Students : \A i \in 1..Len(stack[s]) : AskedOK(s, stack[s], i, Written)
    BY <2>1, ZenonT(30) DEF AskedOK
  <2>3. \A t \in Taps : RouteOK(t, stack[StudentOf[t]], route[t])
    BY ZenonT(30) DEF Init, RouteOK
  <2> QED BY <2>2, <2>3, ZenonT(30) DEF AskInv
<1>2. TypeOK /\ AskInv /\ [Next]_vars => AskInv'
  <2> SUFFICES ASSUME TypeOK, AskInv, [Next]_vars PROVE AskInv'
    OBVIOUS
  <2>1. ASSUME NEW s \in Students, NEW i \in 1..Len(stack'[s]) PROVE AskedOK(s, stack'[s], i, Written')
    BY <2>1, AskedStep, ZenonT(30)
  <2>2. ASSUME NEW t \in Taps PROVE RouteOK(t, stack'[StudentOf[t]], route'[t])
    BY <2>2, RouteStep, ZenonT(30)
  <2> QED BY <2>1, <2>2, ZenonT(30) DEF AskInv
<1>3. AskInv => AskedOnItsPage
  <2> SUFFICES ASSUME AskInv, NEW s \in Students, NEW i \in 1..Len(stack[s]),
                      stack[s][i].kind = "remind"
               PROVE  /\ \E j \in 1..(i - 1) : stack[s][j] = Info(stack[s][i].club, FALSE)
                      /\ \E t \in Counted(stack[s][i].club) : StudentOf[t] = s
    BY ZenonT(30) DEF AskedOnItsPage
  <2>1. /\ \E j \in 1..(i - 1) : stack[s][j] = Info(stack[s][i].club, FALSE)
        /\ \E t \in Written : ClubOf[t] = stack[s][i].club /\ StudentOf[t] = s
    BY ZenonT(30) DEF AskInv, AskedOK
  <2>2. \A c, t : t \in Written /\ ClubOf[t] = c => t \in Counted(c)
    BY ZenonT(30) DEF Written, Counted
  <2> QED BY <2>1, <2>2, ZenonT(30)
<1> QED BY <1>1, <1>2, <1>3, TypeCorrect, PTL DEF Spec
=============================================================================
