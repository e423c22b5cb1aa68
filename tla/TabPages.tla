------------------------------ MODULE TabPages -------------------------------
(***************************************************************************)
(* The other tabs, as parts of Pages: the bookkeeper, a conversation, the  *)
(* ClubHub, the settings and the messages of a class, with their variables *)
(* and, as in HomePages, an inductive invariant for each page and the      *)
(* lemmas that show it.                                                    *)
(***************************************************************************)
EXTENDS PageData, TLAPS

(* How a step that names no prover is proved: the translation of a large   *)
(* context for SMT may run out of its time, and then it is tried again.    *)
USE SMTT(30), ZenonT(30), SMTT(40)

VARIABLES
  visit, query, searches, bookkeeperItems, pending, overlap, stack, bought, leaving,
  presses, dismissed, waiting, purchases,        \* see the modules of the pages
  loads, asking, task, activites, byCategory, isSearch, selectedIndex, filtered,
  time, texts, server, view, attached, text, isPhoto, imageUrl, uploads, removed, posted,
  roster, opens, loaded, students, dialog, announcement, sent, messages, always, ever,
  pronouns, routes, submits, feedback

-----------------------------------------------------------------------------
Shop == INSTANCE Bookkeeper WITH item <- bought

(* Why the routes and the list are right, for PagesProofs. The stack    *)
(* has at most three routes, and while no dialog was touched twice only    *)
(* the handler of the dialog on top waits.                                 *)

(* What is on the stack: the tab, the page of an item, its newest dialog.  *)
StackShape ==
  /\ Len(stack) <= 3
  /\ Len(stack) >= 1 => stack[1] = Shop!Tab
  /\ Len(stack) >= 2 => \E i \in Shop!Items : stack[2] = Shop!Info(i)
  /\ Len(stack) = 3 => /\ Len(bought) > 0
                       /\ stack[3] = Shop!Dialog(Len(bought))
                               /\ stack[2] = Shop!Info(bought[Len(bought)])

(* A handler that waits was pressed for in its dialog.                     *)
Pressed == \A p \in waiting : p.dialog \in 1..Len(bought) /\ p.n <= presses[p.dialog]

(* No dialog was touched twice.                                            *)
Calm == \A d \in Shop!Dialogs : Shop!Touches(d) <= 1

(* Then only the handler of the dialog on top waits.                       *)
Alone == Calm => \A p \in waiting : Shop!Showing(Shop!Dialog(p.dialog))

(* The types of the routes and the purchases.                              *)
BuyOK ==
  /\ visit \in [searches : Nat, dialogs : Nat, presses : Nat]
  /\ stack \in Seq(Shop!Route)
  /\ bought \in Seq(Shop!Items) /\ Len(bought) <= visit.dialogs
  /\ leaving \subseteq 1..Len(bought) /\ dismissed \subseteq 1..Len(bought)
  /\ presses \in [Shop!Dialogs -> 0..visit.presses]
  /\ waiting \subseteq Shop!Press
  /\ purchases \subseteq [press : Shop!Press, item : Shop!Items]

BuyInv == BuyOK /\ StackShape /\ Pressed /\ Alone

(* An empty Navigator has no routes.                                       *)
LEMMA StackEmpties ==
  ASSUME NEW S, NEW q \in Seq(S)
  PROVE  Len(q) \in Nat /\ (Len(q) = 0 <=> q = <<>>)
OBVIOUS

(* A route that is pushed is on top of the old ones.                       *)
LEMMA Pushed ==
  ASSUME NEW S, NEW q \in Seq(S), NEW e \in S
  PROVE  /\ Append(q, e) \in Seq(S) /\ Len(Append(q, e)) = Len(q) + 1
         /\ Append(q, e)[Len(q) + 1] = e
         /\ \A n \in 1..Len(q) : Append(q, e)[n] = q[n]
OBVIOUS

(* A pop leaves the routes beneath.                                        *)
LEMMA Popping ==
  ASSUME NEW S, NEW q \in Seq(S), q # <<>>
  PROVE  /\ SubSeq(q, 1, Len(q) - 1) \in Seq(S) /\ Len(SubSeq(q, 1, Len(q) - 1)) = Len(q) - 1
         /\ \A n \in 1..(Len(q) - 1) : SubSeq(q, 1, Len(q) - 1)[n] = q[n]
<1>1. PICK m \in Nat : m = Len(q) - 1
  OBVIOUS
<1>2. SubSeq(q, 1, m) \in Seq(S)
  BY <1>1
<1>3. Len(SubSeq(q, 1, m)) = m
  BY <1>1
<1>4. \A n \in 1..m : SubSeq(q, 1, m)[n] = q[n]
  BY <1>1
<1> QED BY <1>1, <1>2, <1>3, <1>4, ZenonT(30)

(* The three kinds of routes differ.                                       *)
LEMMA StackRoutes ==
  /\ \A i : Shop!Info(i) # Shop!Tab
  /\ \A d : Shop!Dialog(d) # Shop!Tab
  /\ \A i, d : Shop!Info(i) # Shop!Dialog(d)
  /\ \A i, j : Shop!Info(i) = Shop!Info(j) => i = j
  /\ \A d, e : Shop!Dialog(d) = Shop!Dialog(e) => d = e
  <1>1. \A i : Shop!Info(i).kind = "info" /\ Shop!Info(i).item = i
    BY ZenonT(30) DEF Shop!Info
  <1>2. \A d : Shop!Dialog(d).kind = "dialog" /\ Shop!Dialog(d).id = d
    BY ZenonT(30) DEF Shop!Dialog
  <1>3. Shop!Tab.kind = "tab"
    BY ZenonT(30) DEF Shop!Tab
  <1> QED BY <1>1, <1>2, <1>3

(* What is pushed is a route.                                              *)
LEMMA StackRoutesTyped ==
  /\ Shop!Tab \in Shop!Route /\ \A i \in Shop!Items : Shop!Info(i) \in Shop!Route
  /\ \A d \in Shop!Dialogs : Shop!Dialog(d) \in Shop!Route
BY ZenonT(30) DEF Shop!Dialogs, Shop!Route

(* Numbers that are compared in the proofs below.                          *)
LEMMA AtMost2 == \A n \in Nat : n <= 2 => n <= 3 /\ n # 3
OBVIOUS

(* A time that has come is before the next.                                *)
LEMMA NextTime ==
  /\ \A n, t, s \in Nat : t <= n + s => t <= n + 1 + s /\ ~(n + 1 + s < t)
  /\ \A n, s \in Nat : n + 1 + s > s /\ n + 1 + s <= n + 1 + s
OBVIOUS

(* A list with an element has a first one.                                 *)
LEMMA FirstOfSeq ==
  ASSUME NEW S, NEW q \in Seq(S), Len(q) > 0
  PROVE  /\ Len(q) \in 1..Len(q) /\ 1 \in 1..Len(q)
         /\ \A n \in 1..Len(q) : q[n] \in S
OBVIOUS

(* The depths there are.                                                   *)
LEMMA UpTo3 == \A n \in Nat : n <= 3 => n = 0 \/ n = 1 \/ n = 2 \/ n = 3
OBVIOUS

(* What is on top tells how deep the stack is.                             *)
LEMMA OnTop ==
  ASSUME BuyOK, StackShape
  PROVE  /\ Shop!Showing(Shop!Tab) <=> Len(stack) = 1
         /\ \A i : Shop!Showing(Shop!Info(i)) => Len(stack) = 2 /\ stack[2] = Shop!Info(i)
         /\ \A d : Shop!Showing(Shop!Dialog(d)) <=> Len(stack) = 3 /\ d = Len(bought)
         /\ \A d : (\E n \in 1..Len(stack) : stack[n] = Shop!Dialog(d))
                 => Shop!Showing(Shop!Dialog(d))
<1>a. Len(stack) \in Nat /\ (stack # <<>> => Len(stack) # 0)
  BY StackEmpties, ZenonT(30) DEF Shop!Dialogs, BuyOK
<1>b. stack = <<>> => Len(stack) = 0
  BY StackEmpties
<1>1. Len(stack) = 0 \/ Len(stack) = 1 \/ Len(stack) = 2 \/ Len(stack) = 3
  BY <1>a, UpTo3, ZenonT(30) DEF StackShape
<1>2. CASE Len(stack) = 0
  BY <1>a, <1>2 DEF Shop!Showing
<1>3. CASE Len(stack) = 1
  BY <1>b, <1>3, StackRoutes DEF Shop!Showing, Shop!Top, StackShape
<1>4. CASE Len(stack) = 2
  BY <1>b, <1>4, StackRoutes DEF Shop!Showing, Shop!Top, StackShape
<1>5. CASE Len(stack) = 3
  BY <1>b, <1>5, StackRoutes DEF Shop!Showing, Shop!Top, StackShape
<1> QED BY <1>1, <1>2, <1>3, <1>4, <1>5, ZenonT(30)

(* The stack without its top.                                              *)
LEMMA Popped ==
  ASSUME BuyOK, StackShape, stack # <<>>
  PROVE  /\ Shop!Beneath \in Seq(Shop!Route) /\ Len(Shop!Beneath) = Len(stack) - 1
         /\ \A n \in 1..(Len(stack) - 1) : Shop!Beneath[n] = stack[n]
<1>1. stack \in Seq(Shop!Route)
  BY ZenonT(30) DEF BuyOK
<1> QED BY <1>1, Popping, ZenonT(30) DEF Shop!Beneath

(* The page of an item comes onto the tab.                                 *)
LEMMA TapKeeps == ASSUME BuyInv, NEW i \in Shop!Items, Shop!TapItem(i) PROVE BuyInv'
<1>1. BuyOK'
  BY StackRoutesTyped, Pushed, ZenonT(30)
      DEF Shop!Dialogs, BuyInv, BuyOK, Shop!TapItem, Shop!listVars, Shop!Route, Shop!Press
<1>2. Len(stack) = 1
  BY OnTop, ZenonT(30) DEF BuyInv, Shop!TapItem
<1>3. StackShape'
  <2>1. stack \in Seq(Shop!Route) /\ stack' = Append(stack, Shop!Info(i))
    BY ZenonT(30) DEF Shop!Dialogs, BuyInv, BuyOK, Shop!TapItem
  <2>a. Shop!Info(i) \in Shop!Route
    BY StackRoutesTyped, ZenonT(30)
  <2>b. /\ Len(stack') = Len(stack) + 1 /\ stack'[Len(stack) + 1] = Shop!Info(i)
        /\ \A n \in 1..Len(stack) : stack'[n] = stack[n]
    BY <2>1, <2>a, Pushed
  <2>2. Len(stack') = 2 /\ stack'[1] = stack[1] /\ stack'[2] = Shop!Info(i)
    BY <1>2, <2>b
  <2> QED BY <1>2, <2>2 DEF BuyInv, StackShape
<1>4. Pressed'
  BY ZenonT(30) DEF BuyInv, Pressed, Shop!TapItem
<1>5. Alone'
  BY <1>2, OnTop DEF Shop!Dialogs, BuyInv, Alone, Calm, Shop!Touches, Shop!TapItem, Shop!listVars
<1> QED BY <1>1, <1>3, <1>4, <1>5, ZenonT(30) DEF BuyInv

(* A new dialog comes onto the page of its item.                           *)
LEMMA BuyKeeps == ASSUME BuyInv, NEW i \in Shop!Items, Shop!BuyNow(i) PROVE BuyInv'
<1>1. BuyOK'
  <2>1. bought' \in Seq(Shop!Items) /\ Len(bought') = Len(bought) + 1
    BY Pushed, ZenonT(30) DEF Shop!Dialogs, BuyInv, BuyOK, Shop!BuyNow
  <2>a. Len(bought) + 1 \in Shop!Dialogs
    BY DEF Shop!Dialogs, BuyInv, BuyOK, Shop!BuyNow
  <2>2. stack' \in Seq(Shop!Route)
    BY <2>a, StackRoutesTyped, Pushed, ZenonT(30) DEF Shop!Dialogs, BuyInv, BuyOK, Shop!BuyNow
  <2>3. Shop!Route' = Shop!Route /\ Shop!Press' = Shop!Press /\ Shop!Dialogs' = Shop!Dialogs
    BY ZenonT(30) DEF Shop!Dialogs, Shop!BuyNow, Shop!listVars, Shop!Route, Shop!Press
  <2>4. visit' = visit /\ UNCHANGED <<leaving, dismissed, presses, waiting, purchases>>
    BY ZenonT(30) DEF Shop!BuyNow, Shop!listVars
  <2>5. Len(bought') <= visit'.dialogs
    BY <2>1, <2>4, <2>a DEF Shop!Dialogs, BuyInv, BuyOK
  <2>6. 1..Len(bought) \subseteq 1..Len(bought')
    BY <2>1 DEF BuyInv, BuyOK
  <2> QED BY <2>1, <2>2, <2>3, <2>4, <2>5, <2>6, ZenonT(30) DEF BuyInv, BuyOK
<1>2. Len(stack) = 2 /\ stack[2] = Shop!Info(i)
  BY OnTop, ZenonT(30) DEF BuyInv, Shop!BuyNow
<1>3. StackShape'
  <2>1. stack \in Seq(Shop!Route) /\ stack' = Append(stack, Shop!Dialog(Len(bought) + 1))
    BY ZenonT(30) DEF Shop!Dialogs, BuyInv, BuyOK, Shop!BuyNow
  <2>b. Len(bought) + 1 \in Shop!Dialogs
    BY DEF Shop!Dialogs, BuyInv, BuyOK, Shop!BuyNow
  <2>a. Shop!Dialog(Len(bought) + 1) \in Shop!Route
    BY <2>b, StackRoutesTyped, ZenonT(30)
  <2>c. /\ Len(stack') = Len(stack) + 1 /\ stack'[Len(stack) + 1] = Shop!Dialog(Len(bought) + 1)
        /\ \A n \in 1..Len(stack) : stack'[n] = stack[n]
    BY <2>1, <2>a, Pushed
  <2>2. /\ Len(stack') = 3 /\ stack'[1] = stack[1] /\ stack'[2] = Shop!Info(i)
        /\ stack'[3] = Shop!Dialog(Len(bought) + 1)
    BY <1>2, <2>c
  <2>3. bought \in Seq(Shop!Items) /\ bought' = Append(bought, i)
    BY ZenonT(30) DEF Shop!Dialogs, BuyInv, BuyOK, Shop!BuyNow
  <2>4. Len(bought') = Len(bought) + 1 /\ Len(bought) \in Nat /\ bought'[Len(bought) + 1] = i
    BY <2>3, Pushed
  <2> QED BY <1>2, <2>2, <2>4 DEF BuyInv, StackShape
<1>4. Pressed'
  BY Pushed DEF Shop!Dialogs, BuyInv, Pressed, Shop!BuyNow, BuyOK
<1>5. Alone'
  BY <1>2, OnTop DEF Shop!Dialogs, BuyInv, Alone, Calm, Shop!Touches, Shop!BuyNow, Shop!listVars
<1> QED BY <1>1, <1>3, <1>4, <1>5, ZenonT(30) DEF BuyInv

(* The page of an item goes, and no dialog was above it.                   *)
LEMMA BackKeeps == ASSUME BuyInv, NEW i \in Shop!Items, Shop!Back(i) PROVE BuyInv'
<1>1. stack # <<>> /\ Len(stack) = 2
  BY OnTop, ZenonT(30) DEF BuyInv, Shop!Back, Shop!Showing
<1>2. BuyOK'
  BY <1>1, Popped, ZenonT(30)
      DEF Shop!Dialogs, BuyInv, BuyOK, Shop!Back, Shop!listVars, Shop!Route, Shop!Press
<1>3. StackShape'
  <2>1. Len(stack') = 1 /\ stack'[1] = stack[1]
    BY <1>1, Popped DEF BuyInv, Shop!Back
  <2> QED BY <1>1, <2>1 DEF BuyInv, StackShape
<1>4. Pressed'
  BY ZenonT(30) DEF BuyInv, Pressed, Shop!Back
<1>5. Alone'
  BY <1>1, OnTop DEF Shop!Dialogs, BuyInv, Alone, Calm, Shop!Touches, Shop!Back, Shop!listVars
<1> QED BY <1>2, <1>3, <1>4, <1>5, ZenonT(30) DEF BuyInv

(* A dialog that is closed while Confirm waits in it was touched twice.    *)
LEMMA CancelKeeps == ASSUME BuyInv, NEW d \in 1..Len(bought), Shop!Cancel(d) PROVE BuyInv'
<1>1. stack # <<>> /\ Len(stack) = 3 /\ d = Len(bought)
  BY OnTop, ZenonT(30) DEF BuyInv, Shop!Cancel, Shop!Showing
<1>2. BuyOK'
  BY <1>1, Popped, ZenonT(30)
      DEF Shop!Dialogs, BuyInv, BuyOK, Shop!Cancel, Shop!listVars, Shop!Route, Shop!Press
<1>3. StackShape'
  <2>1. Len(stack') = 2 /\ stack'[1] = stack[1] /\ stack'[2] = stack[2]
    BY <1>1, Popped DEF BuyInv, Shop!Cancel
  <2> QED BY <1>1, <2>1 DEF BuyInv, StackShape
<1>4. Pressed'
  BY ZenonT(30) DEF BuyInv, Pressed, Shop!Cancel
<1>5. ASSUME Calm', NEW p \in waiting PROVE FALSE
  <2>1. Calm
    <3>1. \A e \in Shop!Dialogs : /\ presses[e] \in Nat
                                  /\ e \in Shop!Dialogs' /\ presses'[e] = presses[e]
      <4>1. presses \in [Shop!Dialogs -> 0..visit.presses] /\ visit.presses \in Nat
        BY ZenonT(30) DEF BuyInv, BuyOK
      <4>2. \A e \in Shop!Dialogs : presses[e] \in Nat
        BY <4>1
      <4>3. Shop!Dialogs' = Shop!Dialogs /\ presses' = presses
        BY ZenonT(30) DEF Shop!Dialogs, Shop!Cancel, Shop!listVars
      <4> QED BY <4>2, <4>3, ZenonT(30)
    <3>2. dismissed' = dismissed \cup {d}
      BY ZenonT(30) DEF Shop!Cancel
    <3>3. \A e \in Shop!Dialogs : Shop!Touches(e)' <= 1
      BY <1>5, <3>1, ZenonT(30) DEF Calm
    <3> QED BY <3>1, <3>2, <3>3 DEF Calm, Shop!Touches
  <2>a. p \in Shop!Press
    BY ZenonT(30) DEF Shop!Dialogs, BuyInv, BuyOK
  <2>2. p.dialog = d /\ p.n >= 1
    BY <1>1, <2>1, <2>a, OnTop DEF Shop!Dialogs, BuyInv, Alone, Shop!Press
  <2>3. Shop!Touches(d)' >= 2
    <3>1. p.n <= presses[d]
      BY <2>2, ZenonT(30) DEF BuyInv, Pressed
    <3>2. presses[d] \in Nat /\ p.n \in Nat
      <4>1. presses \in [Shop!Dialogs -> 0..visit.presses] /\ p.dialog \in Shop!Dialogs
              /\ p.n \in 1..visit.presses
        BY <2>a, ZenonT(30) DEF BuyInv, BuyOK, Shop!Press
      <4> QED BY <2>2, <4>1
    <3>3. presses' = presses /\ d \in dismissed'
      BY ZenonT(30) DEF Shop!Cancel
    <3> QED BY <2>2, <3>1, <3>2, <3>3 DEF Shop!Touches
  <2>4. d \in Shop!Dialogs' /\ Shop!Touches(d)' \in Nat
    <3>1. d \in Shop!Dialogs /\ presses[d] \in Nat
      BY DEF Shop!Dialogs, BuyInv, BuyOK
    <3>2. Shop!Dialogs' = Shop!Dialogs /\ presses' = presses
      BY ZenonT(30) DEF Shop!Dialogs, Shop!Cancel, Shop!listVars
    <3> QED BY <3>1, <3>2 DEF Shop!Touches
  <2> QED BY <1>5, <2>3, <2>4 DEF Shop!Dialogs, Calm
<1>6. Alone'
  BY <1>5, ZenonT(30) DEF Alone, Shop!Cancel
<1> QED BY <1>2, <1>3, <1>4, <1>6, ZenonT(30) DEF BuyInv

(* A press is made in the dialog on top.                                   *)
LEMMA ConfirmKeeps == ASSUME BuyInv, NEW d \in 1..Len(bought), Shop!Confirm(d) PROVE BuyInv'
<1> DEFINE p == [dialog |-> d, n |-> presses[d] + 1]
<1>0. d \in Shop!Dialogs /\ presses[d] \in Nat /\ presses[d] < visit.presses
  BY DEF Shop!Dialogs, BuyInv, BuyOK, Shop!Confirm
<1>1. p \in Shop!Press /\ p.dialog = d /\ p.n = presses[d] + 1
  BY <1>0 DEF Shop!Dialogs, BuyInv, BuyOK, Shop!Press
<1>2. /\ presses' = [presses EXCEPT ![d] = presses[d] + 1]
      /\ presses' \in [Shop!Dialogs -> 0..visit.presses]
  <2>1. presses \in [Shop!Dialogs -> 0..visit.presses] /\ visit.presses \in Nat
    BY ZenonT(30) DEF BuyInv, BuyOK
  <2>2. presses' = [presses EXCEPT ![d] = presses[d] + 1]
    BY ZenonT(30) DEF Shop!Confirm
  <2>3. presses[d] + 1 \in 0..visit.presses
    BY <1>0, <2>1
  <2> QED BY <2>1, <2>2, <2>3, ZenonT(30)
<1>3. [press |-> p, item |-> bought[d]] \in [press : Shop!Press, item : Shop!Items]
  BY <1>1 DEF Shop!Dialogs, BuyInv, BuyOK
<1>4. BuyOK'
  BY <1>1, <1>2, <1>3, ZenonT(30)
      DEF Shop!Dialogs, BuyInv, BuyOK, Shop!Confirm, Shop!listVars, Shop!Route, Shop!Press
<1>5. StackShape'
  BY ZenonT(30) DEF BuyInv, StackShape, Shop!Confirm
<1>6. Pressed'
  <2>b. presses \in [Shop!Dialogs -> 0..visit.presses]
    BY ZenonT(30) DEF Shop!Dialogs, BuyInv, BuyOK
  <2>a. \A e \in Shop!Dialogs : presses[e] \in Nat
    BY <2>b
  <2>1. \A e \in Shop!Dialogs : presses'[e] >= presses[e]
    BY <1>0, <1>2, <2>a
  <2>2. presses'[d] = presses[d] + 1
    BY <1>0, <1>2, ZenonT(30) DEF Shop!Dialogs, BuyInv, BuyOK
  <2>c. waiting' = waiting \cup {p}
    BY ZenonT(30) DEF Shop!Confirm
  <2>d. \A q \in Shop!Press : q.dialog \in Shop!Dialogs /\ q.n \in Nat
    BY DEF Shop!Press
  <2>e. \A e \in Shop!Dialogs, n \in Nat : n <= presses[e] => n <= presses'[e]
    BY <2>a, <2>1, <2>b, <1>2
  <2>f. p.n <= presses'[p.dialog]
    BY <1>0, <1>1, <2>2
  <2> HIDE DEF p
  <2>3. \A q \in waiting' : q.dialog \in 1..Len(bought) /\ q.n <= presses'[q.dialog]
    <3>1. \A q \in waiting : q \in Shop!Press /\ q.dialog \in 1..Len(bought) /\ q.n <= presses[q.dialog]
      BY ZenonT(30) DEF BuyInv, BuyOK, Pressed
    <3> QED BY <1>1, <2>c, <2>d, <2>e, <2>f, <3>1, ZenonT(30)
  <2> QED BY <2>3, ZenonT(30) DEF Pressed, Shop!Confirm
<1>7. Alone'
  <2>1. Calm' => Calm
    <3>1. Shop!Dialogs' = Shop!Dialogs /\ dismissed' = dismissed
      BY ZenonT(30) DEF Shop!Dialogs, Shop!Confirm, Shop!listVars
    <3>2. \A e \in Shop!Dialogs : /\ presses[e] \in Nat /\ presses'[e] \in Nat
                                  /\ presses'[e] >= presses[e]
      BY <1>0, <1>2 DEF BuyInv, BuyOK
    <3> QED BY <3>1, <3>2 DEF Calm, Shop!Touches
  <2>2. \A q \in waiting' : q \in waiting \/ q.dialog = d
    BY <1>1, ZenonT(30) DEF Shop!Confirm
  <2> QED BY <2>1, <2>2, ZenonT(30) DEF BuyInv, Alone, Shop!Confirm, Shop!Showing, Shop!Top
<1> QED BY <1>4, <1>5, <1>6, <1>7, ZenonT(30) DEF BuyInv

(* A press that waits alone pops its own dialog; any press pops one route. *)
LEMMA ConfirmedKeeps == ASSUME BuyInv, NEW p \in waiting, Shop!Confirmed(p) PROVE BuyInv'
<1>1. Shop!listVars' = Shop!listVars /\ bought' = bought /\ presses' = presses
        /\ dismissed' = dismissed
      /\ purchases' = purchases /\ waiting' = waiting \ {p}
  BY ZenonT(30) DEF Shop!Confirmed
<1>2. CASE UNCHANGED <<stack, leaving>>
  <2>1. BuyOK'
    BY <1>1, <1>2, ZenonT(30) DEF Shop!Dialogs, BuyInv, BuyOK, Shop!listVars, Shop!Route, Shop!Press
  <2>2. StackShape' /\ Pressed'
    BY <1>1, <1>2, ZenonT(30) DEF BuyInv, StackShape, Pressed
  <2>3. Alone'
    BY <1>1, <1>2, ZenonT(30)
        DEF Shop!Dialogs, BuyInv, Alone, Calm, Shop!Touches, Shop!Showing, Shop!Top, Shop!listVars
  <2> QED BY <2>1, <2>2, <2>3, ZenonT(30) DEF BuyInv
<1>3. CASE /\ stack # <<>> /\ stack' = Shop!Beneath
           /\ leaving' = leaving \cup {d \in 1..Len(bought) : Shop!Top = Shop!Dialog(d)}
  <2>1. BuyOK'
    <3>1. stack' \in Seq(Shop!Route) /\ leaving' \subseteq 1..Len(bought)
      BY <1>3, Popped, ZenonT(30) DEF BuyInv, BuyOK
    <3>2. Shop!Dialogs' = Shop!Dialogs /\ Shop!Route' = Shop!Route /\ Shop!Press' = Shop!Press
            /\ visit' = visit
      BY <1>1, ZenonT(30) DEF Shop!Dialogs, Shop!listVars, Shop!Route, Shop!Press
    <3> QED BY <1>1, <3>1, <3>2, ZenonT(30) DEF BuyInv, BuyOK
  <2>2. Pressed'
    BY <1>1, ZenonT(30) DEF BuyInv, Pressed
  <2>3. StackShape'
    <3>1. /\ Len(stack') = Len(stack) - 1 /\ Len(stack) \in Nat
          /\ \A n \in 1..(Len(stack) - 1) : stack'[n] = stack[n]
      BY <1>3, Popped DEF Shop!Dialogs, BuyInv, BuyOK
    <3>2. Len(stack) <= 3 /\ Len(stack') <= 2 /\ Len(stack') \in Nat
      BY <1>3, <3>1, StackEmpties DEF BuyInv, BuyOK, StackShape
    <3>3. Len(stack') >= 1 => stack'[1] = Shop!Tab
      BY <3>1 DEF BuyInv, StackShape
    <3>4. Len(stack') >= 2 => \E i \in Shop!Items : stack'[2] = Shop!Info(i)
      BY <3>1 DEF BuyInv, StackShape
    <3>5. Len(stack') <= 3 /\ Len(stack') # 3
      BY <3>2, AtMost2, ZenonT(30)
    <3> QED BY <3>3, <3>4, <3>5, ZenonT(30) DEF StackShape
  <2>4. ASSUME Calm', NEW q \in waiting' PROVE FALSE
    <3>1. Calm
      BY <1>1, <2>4, ZenonT(30) DEF Shop!Dialogs, Calm, Shop!Touches, Shop!listVars
    <3>2. p.dialog = q.dialog
      BY <1>1, <3>1, OnTop DEF BuyInv, Alone
    <3>3. p \in Shop!Press /\ q \in Shop!Press
      BY <1>1, ZenonT(30) DEF Shop!Dialogs, BuyInv, BuyOK
    <3>4. p.n = 1 /\ q.n = 1
      <4>1. \A w \in waiting : /\ w.dialog \in Shop!Dialogs /\ w.n \in Nat \ {0}
                               /\ w.n <= presses[w.dialog]
        <5>1. \A w \in Shop!Press : w.dialog \in Shop!Dialogs /\ w.n \in Nat \ {0}
          BY DEF Shop!Press
        <5> QED BY <5>1, ZenonT(30) DEF BuyInv, Pressed, BuyOK
      <4>2. \A d \in Shop!Dialogs : presses[d] \in Nat /\ presses[d] <= 1
        <5>1. presses \in [Shop!Dialogs -> 0..visit.presses]
          BY ZenonT(30) DEF BuyInv, BuyOK
        <5>2. \A d \in Shop!Dialogs : presses[d] \in Nat
          BY <5>1
        <5> QED BY <3>1, <5>2 DEF Calm, Shop!Touches
      <4> QED BY <1>1, <4>1, <4>2
    <3>5. p = q
      BY <3>2, <3>3, <3>4 DEF Shop!Dialogs, Shop!Press
    <3> QED BY <1>1, <3>5, ZenonT(30)
  <2>5. Alone'
    BY <2>4, ZenonT(30) DEF Alone
  <2> QED BY <2>1, <2>2, <2>3, <2>5, ZenonT(30) DEF BuyInv
<1> QED BY <1>2, <1>3, ZenonT(30) DEF Shop!Confirmed

(* The end of an animation moves no route.                                 *)
LEMMA EndsKeeps == ASSUME BuyInv, NEW d \in 1..Len(bought), Shop!AnimationEnds(d) PROVE BuyInv'
<1>1. BuyOK'
  BY ZenonT(30)
      DEF Shop!Dialogs, BuyInv, BuyOK, Shop!AnimationEnds, Shop!listVars, Shop!Route, Shop!Press
<1>2. StackShape' /\ Pressed'
  BY ZenonT(30) DEF BuyInv, StackShape, Pressed, Shop!AnimationEnds
<1>3. Alone'
  BY ZenonT(30)
      DEF Shop!Dialogs, BuyInv, Alone, Calm, Shop!Touches, Shop!Showing, Shop!Top,
              Shop!AnimationEnds, Shop!listVars
<1> QED BY <1>1, <1>2, <1>3, ZenonT(30) DEF BuyInv

(* What happens to the list moves no route.                                *)
LEMMA ListKeeps == ASSUME BuyInv, UNCHANGED <<visit, Shop!buyVars>> PROVE BuyInv'
<1>1. BuyOK'
  BY ZenonT(30) DEF Shop!Dialogs, BuyInv, BuyOK, Shop!buyVars, Shop!Route, Shop!Press
<1>2. StackShape' /\ Pressed'
  BY ZenonT(30) DEF BuyInv, StackShape, Pressed, Shop!buyVars
<1>3. Alone'
  BY ZenonT(30) DEF Shop!Dialogs, BuyInv, Alone, Calm, Shop!Touches, Shop!Showing, Shop!Top, Shop!buyVars
<1> QED BY <1>1, <1>2, <1>3, ZenonT(30) DEF BuyInv

(* A handler that ends with nothing else touched was alone in the top dialog. *)
LEMMA ShopLands == ASSUME BuyInv, Shop!Next PROVE Shop!LandsOnItem
<1> SUFFICES ASSUME NEW p \in waiting, p \notin waiting', Calm
             PROVE  /\ Shop!Showing(Shop!Dialog(p.dialog))
                    /\ stack' # <<>> /\ Shop!Top' = Shop!Info(bought[p.dialog])
  BY ZenonT(30) DEF Shop!Dialogs, Shop!LandsOnItem, Calm
<1>1. Shop!Showing(Shop!Dialog(p.dialog))
  BY ZenonT(30) DEF BuyInv, Alone
<1>2. PICK q \in waiting : Shop!Confirmed(q)
  BY ZenonT(30)
      DEF Shop!Next, Shop!ItemsLoaded, Shop!searchActivity, Shop!TapItem, Shop!BuyNow, Shop!Back,
              Shop!Cancel, Shop!Confirm,
         Shop!AnimationEnds, Shop!buyVars
<1>3. q = p
  BY <1>2, ZenonT(30) DEF Shop!Confirmed
<1>4. Len(stack) = 3 /\ p.dialog = Len(bought) /\ stack # <<>>
  BY <1>1, OnTop, ZenonT(30) DEF BuyInv, Shop!Showing
<1>5. Shop!Shown(Shop!Dialog(p.dialog))
  BY <1>1, <1>4 DEF Shop!Shown, Shop!Showing, Shop!Top
<1>6. stack' = Shop!Beneath
  BY <1>2, <1>3, <1>4, <1>5, ZenonT(30) DEF Shop!Confirmed
<1>7. Len(stack') = 2 /\ stack'[2] = stack[2]
  BY <1>4, <1>6, Popped DEF BuyInv
<1>8. stack[2] = Shop!Info(bought[Len(bought)])
  BY <1>4, ZenonT(30) DEF BuyInv, StackShape
<1>9. stack' # <<>>
  BY <1>7
<1> QED BY <1>1, <1>4, <1>7, <1>8, <1>9, ZenonT(30) DEF Shop!Top

(* The list: without overlapping loads, it is empty while an answer is to  *)
(* come.                                                                   *)
ListInv ==
  /\ visit \in Visits
  /\ query \in Queries /\ searches \in 0..visit.searches
  /\ bookkeeperItems \in Seq(Shop!Items)
  /\ pending \in Nat /\ overlap \in BOOLEAN
  /\ ~overlap => /\ Shop!OnlyOnce(bookkeeperItems)
                 /\ pending = 0 \/ (pending = 1 /\ bookkeeperItems = <<>>)

(* The list is kept as it is loaded, filtered, emptied and loaded again.   *)
LEMMA ListStep == ASSUME Shop!KeptFacts, ListInv, Shop!Next PROVE ListInv'
<1>1. CASE Shop!ItemsLoaded
  <2>1. /\ pending > 0 /\ pending' = pending - 1 /\ bookkeeperItems' = bookkeeperItems \o Catalog
        /\ UNCHANGED <<visit, query, searches, overlap>>
    BY <1>1, ZenonT(30) DEF Shop!ItemsLoaded
  <2>0. Catalog \in Seq(Shop!Items) /\ Shop!OnlyOnce(Catalog)
    BY TabAssumption, ZenonT(30)
    DEF Shop!Items, Items, Shop!Elems, Elems, Shop!OnlyOnce, OnlyOnce
  <2>2. bookkeeperItems' \in Seq(Shop!Items) /\ (bookkeeperItems = <<>>
          => bookkeeperItems' = Catalog)
    BY <2>0, <2>1 DEF ListInv
  <2>3. pending' \in Nat
    BY <2>1 DEF ListInv
  <2>4. ASSUME ~overlap PROVE Shop!OnlyOnce(bookkeeperItems') /\ pending' = 0
    <3>1. pending = 1 /\ bookkeeperItems = <<>>
      BY <2>1, <2>4 DEF ListInv
    <3> QED BY <2>0, <2>1, <2>2, <3>1
  <2> QED BY <2>1, <2>2, <2>3, <2>4, ZenonT(30) DEF ListInv
<1>2. CASE \E q \in Queries : Shop!searchActivity(q)
  <2>1. PICK q \in Queries : Shop!searchActivity(q)
    BY <1>2, ZenonT(30)
  <2>2. visit' = visit /\ query' \in Queries /\ searches' \in 0..visit.searches
    BY <2>1, TabAssumption DEF Shop!searchActivity, ListInv
  <2>3. CASE q # Empty
    <3>1. /\ bookkeeperItems' = Shop!Kept(bookkeeperItems, ItemMatches[q])
          /\ pending' = pending /\ overlap' = overlap
      BY <2>1, <2>3, ZenonT(30) DEF Shop!searchActivity
    <3> QED BY <2>2, <3>1, ZenonT(30) DEF ListInv, Shop!KeptFacts
  <2>4. CASE q = Empty
    <3>1. /\ bookkeeperItems' = <<>> /\ pending' = pending + 1
          /\ overlap' = (overlap \/ pending > 0)
      BY <2>1, <2>4, ZenonT(30) DEF Shop!searchActivity
    <3>2. Shop!OnlyOnce(<<>>) /\ <<>> \in Seq(Shop!Items)
      BY DEF Shop!OnlyOnce
    <3>3. pending' \in Nat /\ (~overlap' => pending' = 1) /\ overlap' \in BOOLEAN
      <4>1. pending \in Nat
        BY ZenonT(30) DEF ListInv
      <4>2. ~overlap' => ~(pending > 0)
        BY <3>1, ZenonT(30)
      <4>3. overlap' \in BOOLEAN
        BY <3>1, ZenonT(30)
      <4> QED BY <3>1, <4>1, <4>2, <4>3
    <3> QED BY <2>2, <3>1, <3>2, <3>3, ZenonT(30) DEF ListInv
  <2> QED BY <2>3, <2>4, ZenonT(30)
<1>3. CASE UNCHANGED Shop!listVars
  BY <1>3, ZenonT(30) DEF ListInv, Shop!listVars
<1> QED BY <1>1, <1>2, <1>3, ZenonT(30)
        DEF Shop!Next, Shop!TapItem, Shop!BuyNow, Shop!Back, Shop!Cancel, Shop!Confirm,
                Shop!AnimationEnds, Shop!Confirmed

(* The inductive invariant.                                                *)
ShopInv == BuyInv /\ ListInv

(* The page opens in the invariant,                                        *)
LEMMA ShopInit == ASSUME Shop!Init PROVE ShopInv
<1>1. visit \in Visits /\ visit \in [searches : Nat, dialogs : Nat, presses : Nat]
  BY TabAssumption, ZenonT(30) DEF Shop!Init
<1>2. BuyOK
  BY <1>1, StackRoutesTyped DEF Shop!Init, BuyOK, Shop!Dialogs
<1>3. StackShape /\ Pressed /\ Alone
  BY DEF Shop!Init, StackShape, Pressed, Alone
<1>5. ListInv
  <2>1. Shop!OnlyOnce(<<>>) /\ <<>> \in Seq(Shop!Items)
    BY DEF Shop!OnlyOnce
  <2>2. searches \in 0..visit.searches
    BY <1>1 DEF Shop!Init
  <2>3. query \in Queries /\ pending = 1 /\ overlap = FALSE /\ bookkeeperItems = <<>>
    BY TabAssumption, ZenonT(30) DEF Shop!Init
  <2> QED BY <1>1, <2>1, <2>2, <2>3, ZenonT(30) DEF ListInv
<1> QED BY <1>2, <1>3, <1>5, ZenonT(30) DEF ShopInv, BuyInv

(* every step of it stays there,                                           *)
LEMMA ShopNext == ASSUME Shop!KeptFacts, ShopInv, Shop!Next PROVE ShopInv'
<1>1. BuyInv'
  <2>1. UNCHANGED <<visit, Shop!buyVars>> => BuyInv'
    BY ListKeeps, ZenonT(30) DEF ShopInv
  <2> QED BY <2>1, TapKeeps, BuyKeeps, BackKeeps, CancelKeeps, ConfirmKeeps, ConfirmedKeeps,
             EndsKeeps, ZenonT(30)
          DEF ShopInv, Shop!Next, Shop!ItemsLoaded, Shop!searchActivity
<1>3. ListInv'
  BY ListStep, ZenonT(30) DEF ShopInv
<1> QED BY <1>1, <1>3, ZenonT(30) DEF ShopInv

(* so does a step of something else,                                       *)
LEMMA ShopStill == ASSUME ShopInv, UNCHANGED Shop!vars PROVE ShopInv'
<1>1. UNCHANGED <<visit, Shop!buyVars>> /\ UNCHANGED Shop!listVars
  BY ZenonT(30) DEF Shop!vars, Shop!listVars
<1>2. BuyInv'
  BY <1>1, ListKeeps, ZenonT(30) DEF ShopInv
<1>4. ListInv'
  BY <1>1, ZenonT(30) DEF ShopInv, ListInv, Shop!listVars
<1> QED BY <1>2, <1>4, ZenonT(30) DEF ShopInv

(* and there the page is right.                                            *)
LEMMA ShopImplies ==
  ASSUME ShopInv
  PROVE  Shop!TypeOK /\ Shop!ListedOnceWithoutOverlap
<1>1. Shop!TypeOK
  BY ZenonT(30) DEF ShopInv, BuyInv, BuyOK, ListInv, Shop!TypeOK
<1>2. Shop!ListedOnceWithoutOverlap
  BY ZenonT(30) DEF ShopInv, ListInv, Shop!ListedOnceWithoutOverlap
<1> QED BY <1>1, <1>2, ZenonT(30)

(* What is known of the lists, for the operators of that page.             *)
LEMMA ShopFacts == ASSUME KeptFacts PROVE Shop!KeptFacts
BY ZenonT(30) DEF Shop!KeptFacts, KeptFacts, Shop!Kept, Kept, Shop!Elems, Elems, Shop!OnlyOnce,
   OnlyOnce, Shop!Cardinality, Cardinality

(* A step of the page, or of something else, keeps its invariant.          *)
LEMMA ShopMoves ==
  ASSUME KeptFacts, ShopInv, Shop!Next \/ UNCHANGED Shop!vars
  PROVE  ShopInv'
BY ShopFacts, ShopNext, ShopStill, ZenonT(30)

-----------------------------------------------------------------------------
Talk == INSTANCE Chat WITH now <- time

(* The proof that TextSentOnce and RemovedNotSent hold in every reachable  *)
(* state, by an invariant that says what the text fields and the previews  *)
(* still hold.                                                             *)

(* What a message can be about.                                            *)
Content == {Talk!TextOf(n) : n \in 1..MaxTexts} \cup {Talk!Image(i) : i \in Images}

(* The messages, without a bound on the clocks.                            *)
Messages ==
  [sender : Talk!People, timeSent : Nat, content : Content, attached : BOOLEAN]

(* TypeOK with those messages.                                             *)
Typed ==
  /\ time \in 0..MaxMessages /\ texts \in 0..MaxTexts
  /\ posted \subseteq Messages /\ view \in [Talk!People -> SUBSET posted] /\ server \subseteq posted
  /\ attached \in [Talk!People -> BOOLEAN]
  /\ text \in [Talk!People -> 0..MaxTexts]
  /\ isPhoto \in [Talk!People -> BOOLEAN]
  /\ imageUrl \in [Talk!People -> Images \cup {Talk!NoImage}]
  /\ uploads \in [Talk!People -> SUBSET Images] /\ removed \in [Talk!People -> SUBSET Images]

(* The clock of the sender was between 1 and now.                          *)
Stamped ==
  \A m \in posted : m.timeSent > Skew[m.sender] /\ m.timeSent <= time + Skew[m.sender]

(* A text in a text field is its writer's alone, and was not sent from a   *)
(* page with a list.                                                       *)
TextsApart ==
  /\ \A m \in posted : ~m.content.isImage => m.content.value <= texts
  /\ \A p \in Talk!People : text[p] <= texts
  /\ \A p, q \in Talk!People : text[p] = text[q] /\ text[p] # 0 => p = q
  /\ \A p \in Talk!People : text[p] # 0 =>
       \A m \in posted : m.content = Talk!TextOf(text[p]) => m.sender = p /\ ~m.attached

(* An image that is uploaded or previewed was neither sent nor removed.    *)
ImagesApart ==
  /\ \A p \in Talk!People : \A i \in uploads[p] :
       i \notin removed[p] /\ \A m \in posted : m.sender = p => m.content # Talk!Image(i)
  /\ \A p \in Talk!People : isPhoto[p] =>
       /\ imageUrl[p] \in Images /\ imageUrl[p] \notin uploads[p] /\ imageUrl[p] \notin removed[p]
       /\ \A m \in posted : m.sender = p => m.content # Talk!Image(imageUrl[p])

(* The inductive invariant.                                                *)
TalkInv ==
  /\ Typed /\ Stamped /\ TextsApart /\ ImagesApart
  /\ Talk!TextSentOnce /\ Talk!RemovedNotSent

(* A text differs from an image, and two of a kind by their value.         *)
LEMMA Contents ==
  /\ \A n, k : Talk!TextOf(n) = Talk!TextOf(k) => n = k
  /\ \A i, j : Talk!Image(i) = Talk!Image(j) => i = j
  /\ \A n : ~Talk!TextOf(n).isImage /\ Talk!TextOf(n).value = n
  /\ \A i : Talk!Image(i).isImage
  /\ \A n, i : Talk!TextOf(n) # Talk!Image(i)
<1>1. \A n : ~Talk!TextOf(n).isImage /\ Talk!TextOf(n).value = n
  BY ZenonT(30) DEF Talk!TextOf
<1>2. \A i : Talk!Image(i).isImage /\ Talk!Image(i).value = i
  BY ZenonT(30) DEF Talk!Image
<1> QED BY <1>1, <1>2

(* What was sent is a message.                                             *)
LEMMA SentTyped == ASSUME Typed, NEW m \in posted PROVE m \in Messages
BY ZenonT(30) DEF Typed

(* The invariant holds when the two pages are opened.                      *)
LEMMA TalkInit == Talk!Init => TalkInv
<1> SUFFICES ASSUME Talk!Init PROVE TalkInv
  BY ZenonT(30)
<1>1. posted = {}
  BY ZenonT(30) DEF Talk!Init
<1>2. Typed
  BY <1>1, TabAssumption DEF Talk!Init, Typed
<1> QED BY <1>1, <1>2
    DEF Talk!Init, TalkInv, Stamped, TextsApart, ImagesApart, Talk!TextSentOnce,
                          Talk!RemovedNotSent

(* The types of TypeOK follow.                                             *)
LEMMA TypesHold == Typed => Talk!TypeOK
<1> SUFFICES ASSUME Typed PROVE Talk!TypeOK
  BY ZenonT(30)
<1>1. \A m \in posted : m \in Messages
  BY SentTyped, ZenonT(30)
<1> QED BY <1>1, ZenonT(30) DEF Typed, Talk!TypeOK, Messages, Content

(* A step of Firestore sends nothing: a refused message was posted too.    *)
LEMMA Streamed ==
  ASSUME TalkInv, NEW p \in Talk!People, Talk!Store(p) \/ Talk!Refuse(p) \/ Talk!Snapshot(p)
  PROVE  TalkInv'
<1>1. UNCHANGED <<time, texts, text, posted, Talk!photoVars>>
  BY ZenonT(30) DEF Talk!Store, Talk!Refuse, Talk!Snapshot
<1>2. /\ view' \in [Talk!People -> SUBSET posted] /\ server' \subseteq posted
      /\ attached' \in [Talk!People -> BOOLEAN]
  <2>1. CASE Talk!Store(p)
    <3>1. view' = view /\ attached' = attached
      BY <2>1, ZenonT(30) DEF Talk!Store
    <3>2. server' \subseteq posted
      BY <2>1, ZenonT(30) DEF Talk!Store, TalkInv, Typed
    <3> QED BY <3>1, <3>2, ZenonT(30) DEF TalkInv, Typed
  <2>2. CASE Talk!Refuse(p)
    <3>1. PICK m : view' = [view EXCEPT ![p] = view[p] \ {m}]
      BY <2>2, ZenonT(30) DEF Talk!Refuse
    <3>2. server' = server /\ attached' = attached
      BY <2>2, ZenonT(30) DEF Talk!Refuse
    <3> QED BY <3>1, <3>2, ZenonT(30) DEF TalkInv, Typed
  <2>3. CASE Talk!Snapshot(p)
    <3>1. view' = [view EXCEPT ![p] = view[p] \cup server] /\ server' = server
      BY <2>3, ZenonT(30) DEF Talk!Snapshot
    <3>2. attached' = [attached EXCEPT ![p] = TRUE]
      BY <2>3, ZenonT(30) DEF Talk!Snapshot
    <3> QED BY <3>1, <3>2, ZenonT(30) DEF TalkInv, Typed
  <2> QED BY <2>1, <2>2, <2>3, ZenonT(30)
<1>3. Typed'
  BY <1>1, <1>2, ZenonT(30) DEF TalkInv, Typed, Talk!photoVars
<1>4. Stamped' /\ TextsApart' /\ ImagesApart'
  BY <1>1, <1>2, ZenonT(30) DEF TalkInv, Stamped, TextsApart, ImagesApart, Talk!photoVars
<1>5. Talk!TextSentOnce' /\ Talk!RemovedNotSent'
  BY <1>1, ZenonT(30) DEF TalkInv, Talk!TextSentOnce, Talk!RemovedNotSent, Talk!photoVars
<1> QED BY <1>3, <1>4, <1>5, ZenonT(30) DEF TalkInv

(* A step that sends nothing and changes neither the clock nor what is     *)
(* stored.                                                                 *)
LEMMA Quiet ==
  ASSUME TalkInv, UNCHANGED Talk!store
  PROVE  posted' = posted /\ Stamped' /\ Talk!TextSentOnce'
BY ZenonT(30) DEF TalkInv, Talk!store, Stamped, Talk!TextSentOnce

(* Typing a text keeps the invariant: the new text is in no other field    *)
(* and in no message.                                                      *)
LEMMA Typing == ASSUME TalkInv, NEW p \in Talk!People, Talk!Type(p) PROVE TalkInv'
<1>1. posted' = posted /\ Stamped' /\ Talk!TextSentOnce'
  BY Quiet, ZenonT(30) DEF Talk!Type
<1>2. Typed'
  BY <1>1, TabAssumption DEF TalkInv, Typed, Talk!Type, Talk!store, Talk!photoVars
<1>3. TextsApart'
  <2>1. texts' = texts + 1 /\ text' = [text EXCEPT ![p] = texts + 1] /\ texts \in Nat
    BY DEF TalkInv, Typed, Talk!Type
  <2>2. \A q \in Talk!People : text'[q] = IF q = p THEN texts + 1 ELSE text[q]
    BY <2>1, ZenonT(30) DEF TalkInv, Typed
  <2>3. \A q \in Talk!People : text[q] \in Nat /\ text[q] <= texts
    BY DEF TalkInv, Typed, TextsApart
  <2>4. \A m \in posted : m.content # Talk!TextOf(texts + 1)
    <3> SUFFICES ASSUME NEW m \in posted, m.content = Talk!TextOf(texts + 1) PROVE FALSE
      BY ZenonT(30)
    <3>1. ~m.content.isImage /\ m.content.value = texts + 1
      BY Contents, ZenonT(30)
    <3> QED BY <2>1, <3>1 DEF TalkInv, TextsApart
  <2>5. \A m \in posted : ~m.content.isImage => m.content.value <= texts'
    <3> SUFFICES ASSUME NEW m \in posted, ~m.content.isImage PROVE m.content.value <= texts'
      BY ZenonT(30)
    <3>1. m.content \in Content
      BY SentTyped, ZenonT(30) DEF TalkInv, Messages
    <3>2. m.content.value \in Nat
      BY <3>1, Contents DEF Content
    <3> QED BY <2>1, <3>2 DEF TalkInv, TextsApart
  <2>6. \A q \in Talk!People : text'[q] <= texts'
    BY <2>1, <2>2, <2>3
  <2>7. \A q, r \in Talk!People : text'[q] = text'[r] /\ text'[q] # 0 => q = r
    BY <2>1, <2>2, <2>3 DEF TalkInv, TextsApart
  <2>8. \A q \in Talk!People : text'[q] # 0 =>
          \A m \in posted : m.content = Talk!TextOf(text'[q]) => m.sender = q /\ ~m.attached
    BY <2>2, <2>4 DEF TalkInv, TextsApart
  <2> QED BY <1>1, <2>5, <2>6, <2>7, <2>8, ZenonT(30) DEF TextsApart
<1>4. ImagesApart' /\ Talk!RemovedNotSent'
  BY <1>1, ZenonT(30) DEF TalkInv, ImagesApart, Talk!RemovedNotSent, Talk!Type, Talk!photoVars
<1> QED BY <1>1, <1>2, <1>3, <1>4, ZenonT(30) DEF TalkInv

(* What a message that is set changes.                                     *)
LEMMA Previewing ==
  ASSUME TalkInv, NEW p \in Talk!People, NEW c \in Content, Talk!Set(p, Talk!Message(p, c))
  PROVE  /\ Talk!Message(p, c) \in Messages
         /\ posted' = posted \cup {Talk!Message(p, c)} /\ posted' \subseteq Messages
         /\ view' \in [Talk!People -> SUBSET posted']
         /\ time' \in 0..MaxMessages /\ Stamped'
<1> DEFINE m == Talk!Message(p, c)
<1>1. Skew \in [Talk!People -> Nat]
  BY TabAssumption, ZenonT(30) DEF Talk!People, People
<1>2. time \in Nat /\ time' = time + 1 /\ time' \in 0..MaxMessages /\ MaxMessages \in Nat
  BY TabAssumption DEF TalkInv, Typed, Talk!Set
<1>3. \A n \in posted :
        n \in Messages /\ n.timeSent \in Nat /\ n.sender \in Talk!People /\ Skew[n.sender] \in Nat
  BY <1>1, SentTyped, ZenonT(30) DEF TalkInv, Messages
<1>4. m.sender = p /\ m.timeSent = time + 1 + Skew[p]
  BY ZenonT(30) DEF Talk!Message
<1>5. m \in Messages
  <2>1. time + 1 + Skew[p] \in Nat /\ attached[p] \in BOOLEAN
    BY <1>1, <1>2 DEF TalkInv, Typed
  <2> QED BY <2>1, ZenonT(30) DEF Messages, Talk!Message
<1>6. view' = [view EXCEPT ![p] = view[p] \cup {m}] /\ posted' = posted \cup {m}
  BY ZenonT(30) DEF Talk!Set
<1> HIDE DEF m
<1>7. posted' \subseteq Messages /\ view' \in [Talk!People -> SUBSET posted']
  BY <1>5, <1>6, ZenonT(30) DEF TalkInv, Typed
<1>8. Stamped'
  <2>1. \A n \in posted : n.timeSent > Skew[n.sender] /\ n.timeSent <= time + 1 + Skew[n.sender]
    BY <1>2, <1>3, NextTime, ZenonT(30) DEF TalkInv, Stamped
  <2>2. m.timeSent > Skew[m.sender] /\ m.timeSent <= time + 1 + Skew[m.sender]
    <3>1. time \in Nat /\ Skew[p] \in Nat
      BY <1>1, <1>2, ZenonT(30)
    <3>2. time + 1 + Skew[p] > Skew[p] /\ time + 1 + Skew[p] <= time + 1 + Skew[p]
      BY <3>1, NextTime, ZenonT(30)
    <3> QED BY <1>4, <3>2, ZenonT(30)
  <2> QED BY <1>2, <1>6, <2>1, <2>2, ZenonT(30) DEF Stamped
<1> QED BY <1>2, <1>5, <1>6, <1>7, <1>8, ZenonT(30) DEF m

(* Sending a text (sendMessage) keeps the invariant: a text that stays in  *)
(* the field was sent from a page without a list.                          *)
LEMMA Sending == ASSUME TalkInv, NEW p \in Talk!People, Talk!sendMessage(p) PROVE TalkInv'
<1> DEFINE c == Talk!TextOf(text[p])
           m == Talk!Message(p, c)
<1>0. text[p] \in 1..MaxTexts
  BY DEF TalkInv, Typed, Talk!sendMessage
<1>1. c \in Content
  BY <1>0 DEF Content
<1>2. /\ m \in Messages
      /\ posted' = posted \cup {m} /\ posted' \subseteq Messages
      /\ view' \in [Talk!People -> SUBSET posted']
      /\ time' \in 0..MaxMessages /\ Stamped'
  BY <1>1, Previewing, ZenonT(30) DEF Talk!sendMessage
<1>3. m.sender = p /\ m.timeSent = time + 1 + Skew[p] /\ m.content = c /\ m.attached = attached[p]
  BY ZenonT(30) DEF Talk!Message
<1> HIDE DEF m
<1>4. /\ text' \in [Talk!People -> 0..MaxTexts] /\ texts' = texts
      /\ UNCHANGED <<server, attached, Talk!photoVars>>
  BY TabAssumption DEF TalkInv, Typed, Talk!sendMessage
<1>5. Typed'
  BY <1>2, <1>4, ZenonT(30) DEF TalkInv, Typed, Talk!photoVars
<1>6. Talk!TextSentOnce'
  <2> SUFFICES ASSUME NEW k \in posted', NEW n \in posted', ~k.content.isImage,
          k.content = n.content,
                      k.timeSent < n.timeSent
               PROVE  ~k.attached
    BY ZenonT(30) DEF Talk!TextSentOnce
  <2>1. CASE k \in posted /\ n \in posted
    BY <2>1, ZenonT(30) DEF TalkInv, Talk!TextSentOnce
  <2>2. CASE k \in posted /\ n = m
    <3>1. text[p] # 0
      BY <1>0
    <3> QED BY <1>3, <2>2, <3>1, ZenonT(30) DEF TalkInv, TextsApart
  <2>3. CASE k = m
    <3>1. n # m
      <4>1. m.timeSent \in Nat
        BY <1>2, ZenonT(30) DEF Messages
      <4> QED BY <2>3, <4>1
    <3>2. n \in posted /\ n.sender = p
      <4>1. n \in posted
        BY <1>2, <3>1, ZenonT(30)
      <4>2. n.content = c
        BY <1>3, <2>3, ZenonT(30)
      <4>3. text[p] # 0
        BY <1>0
      <4> QED BY <4>1, <4>2, <4>3, ZenonT(30) DEF TalkInv, TextsApart
    <3>3. n.timeSent \in Nat /\ n.timeSent <= time + Skew[p]
      BY <3>2, SentTyped, ZenonT(30) DEF TalkInv, Stamped, Messages
    <3>4. time \in Nat /\ Skew[p] \in Nat
      BY TabAssumption DEF TalkInv, Typed, Talk!People, People
    <3>5. ~(time + 1 + Skew[p] < n.timeSent)
      BY <3>3, <3>4, NextTime, ZenonT(30)
    <3>6. k.timeSent = time + 1 + Skew[p]
      BY <1>3, <2>3, ZenonT(30)
    <3> QED BY <3>5, <3>6, ZenonT(30)
  <2> QED BY <1>2, <2>1, <2>2, <2>3, ZenonT(30)
<1>7. TextsApart'
  <2>1. \A q \in Talk!People : text'[q] = IF q = p /\ attached[p] THEN 0 ELSE text[q]
    BY ZenonT(30) DEF TalkInv, Typed, Talk!sendMessage
  <2>2. ~c.isImage /\ c.value = text[p] /\ text[p] <= texts
    BY Contents, ZenonT(30) DEF TalkInv, TextsApart
  <2>3. \A k \in posted' : ~k.content.isImage => k.content.value <= texts'
    <3>1. \A k \in posted : ~k.content.isImage => k.content.value <= texts
      BY ZenonT(30) DEF TalkInv, TextsApart
    <3> QED BY <1>2, <1>3, <1>4, <2>2, <3>1, ZenonT(30)
  <2>4. \A q \in Talk!People : text'[q] <= texts'
    <3>1. 0 <= texts
      BY DEF TalkInv, Typed
    <3> QED BY <1>4, <2>1, <3>1, ZenonT(30) DEF TalkInv, TextsApart
  <2>5. \A q, r \in Talk!People : text'[q] = text'[r] /\ text'[q] # 0 => q = r
    BY <2>1, ZenonT(30) DEF TalkInv, TextsApart
  <2>6. ASSUME NEW q \in Talk!People, text'[q] # 0, NEW k \in posted',
          k.content = Talk!TextOf(text'[q])
        PROVE  k.sender = q /\ ~k.attached
    <3>1. text'[q] = text[q] /\ (q = p => ~attached[p])
      BY <2>1, <2>6, ZenonT(30)
    <3>2. CASE k \in posted
      BY <2>6, <3>1, <3>2, ZenonT(30) DEF TalkInv, TextsApart
    <3>3. CASE k = m
      <4>1. text[q] = text[p]
        <5>1. Talk!TextOf(text[q]) = Talk!TextOf(text[p])
          BY <1>3, <2>6, <3>1, <3>3, ZenonT(30)
        <5>2. \A i, j : Talk!TextOf(i) = Talk!TextOf(j) => i = j
          BY Contents, ZenonT(30)
        <5> QED BY <5>1, <5>2, ZenonT(30)
      <4>2. q = p
        BY <2>6, <3>1, <4>1, ZenonT(30) DEF TalkInv, TextsApart
      <4> QED BY <1>3, <3>1, <3>3, <4>2, ZenonT(30)
    <3> QED BY <1>2, <2>6, <3>2, <3>3, ZenonT(30)
  <2> QED BY <2>3, <2>4, <2>5, <2>6, ZenonT(30) DEF TextsApart
<1>8. \A i : m.content # Talk!Image(i)
  <2>1. \A n, i : Talk!TextOf(n) # Talk!Image(i)
    BY Contents, ZenonT(30)
  <2> QED BY <1>3, <2>1, ZenonT(30)
<1>9. ImagesApart' /\ Talk!RemovedNotSent'
  <2>1. ImagesApart /\ Talk!RemovedNotSent
    BY ZenonT(30) DEF TalkInv
  <2>2. UNCHANGED <<isPhoto, imageUrl, uploads, removed>>
    BY <1>4, ZenonT(30) DEF Talk!photoVars
  <2>3. ImagesApart'
    BY <1>2, <1>8, <2>1, <2>2, ZenonT(30) DEF ImagesApart
  <2> QED BY <1>2, <1>8, <2>1, <2>2, <2>3, ZenonT(30) DEF Talk!RemovedNotSent
<1> QED BY <1>2, <1>5, <1>6, <1>7, <1>9, ZenonT(30) DEF TalkInv

(* Sending the previewed image (setImageData) keeps the invariant: the     *)
(* preview closes, so that it is not sent again.                           *)
LEMMA SendingImage == ASSUME TalkInv, NEW p \in Talk!People, Talk!setImageData(p) PROVE TalkInv'
<1> DEFINE c == Talk!Image(imageUrl[p])
           m == Talk!Message(p, c)
<1>0. isPhoto[p] /\ imageUrl[p] \in Images
  BY ZenonT(30) DEF TalkInv, ImagesApart, Talk!setImageData
<1>1. c \in Content
  BY <1>0, ZenonT(30) DEF Content
<1>2. /\ m \in Messages
      /\ posted' = posted \cup {m} /\ posted' \subseteq Messages
      /\ view' \in [Talk!People -> SUBSET posted']
      /\ time' \in 0..MaxMessages /\ Stamped'
  BY <1>1, Previewing, ZenonT(30) DEF Talk!setImageData
<1>3. m.sender = p /\ m.content = c /\ m.content.isImage
  BY Contents, ZenonT(30) DEF Talk!Message
<1> HIDE DEF m
<1>4. /\ UNCHANGED <<server, texts, attached, text, imageUrl, uploads, removed>>
      /\ isPhoto' = [isPhoto EXCEPT ![p] = FALSE]
  BY ZenonT(30) DEF Talk!setImageData
<1>5. Typed'
  BY <1>2, <1>4, ZenonT(30) DEF TalkInv, Typed
<1>a. Talk!TextSentOnce /\ TextsApart /\ ImagesApart /\ Talk!RemovedNotSent
  BY ZenonT(30) DEF TalkInv
<1>6. Talk!TextSentOnce'
  BY <1>2, <1>3, <1>a, ZenonT(30) DEF Talk!TextSentOnce
<1>7. TextsApart'
  <2>1. \A x \in posted' : ~x.content.isImage => x.content.value <= texts'
    BY <1>2, <1>3, <1>4, <1>a, ZenonT(30) DEF TextsApart
  <2>2. \A q \in Talk!People : text'[q] # 0 =>
          \A x \in posted' : x.content = Talk!TextOf(text'[q]) => x.sender = q /\ ~x.attached
    <3>1. \A q : c # Talk!TextOf(text[q])
      BY Contents, ZenonT(30)
    <3>2. ASSUME NEW q \in Talk!People, text[q] # 0, NEW x \in posted \cup {m},
                 x.content = Talk!TextOf(text[q])
          PROVE  x.sender = q /\ ~x.attached
      <4>1. x # m
        BY <1>3, <3>1, <3>2, ZenonT(30)
      <4>2. x \in posted
        BY <4>1, ZenonT(30)
      <4> QED BY <1>a, <3>2, <4>2, ZenonT(30) DEF TextsApart
    <3> QED BY <1>2, <1>4, <3>2, ZenonT(30)
  <2> QED BY <1>4, <1>a, <2>1, <2>2, ZenonT(30) DEF TextsApart
<1>8. ImagesApart'
  <2>1. \A q \in Talk!People : isPhoto'[q] => isPhoto[q] /\ q # p
    BY <1>4, ZenonT(30) DEF TalkInv, Typed
  <2>2. \A q \in Talk!People : \A i \in uploads[q] : q = p => i # imageUrl[p]
    BY <1>0, <1>a, ZenonT(30) DEF ImagesApart
  <2>3. \A i : i # imageUrl[p] => c # Talk!Image(i)
    BY Contents, ZenonT(30)
  <2>4. \A q \in Talk!People : \A i \in uploads'[q] :
          i \notin removed'[q] /\ \A x \in posted' : x.sender = q => x.content # Talk!Image(i)
    <3>1. ASSUME NEW q \in Talk!People, NEW i \in uploads[q]
          PROVE  /\ i \notin removed[q]
                 /\ \A x \in posted : x.sender = q => x.content # Talk!Image(i)
      BY <1>a, <3>1, ZenonT(30) DEF ImagesApart
    <3>2. ASSUME NEW q \in Talk!People, NEW i \in uploads[q], m.sender = q
          PROVE  m.content # Talk!Image(i)
      BY <1>3, <2>2, <2>3, <3>2, ZenonT(30)
    <3> QED BY <1>2, <1>4, <3>1, <3>2, ZenonT(30)
  <2>5. \A q \in Talk!People : isPhoto'[q] =>
          /\ imageUrl'[q] \in Images /\ imageUrl'[q] \notin uploads'[q] /\ imageUrl'[q] \notin removed'[q]
          /\ \A x \in posted' : x.sender = q => x.content # Talk!Image(imageUrl'[q])
    <3>1. ASSUME NEW q \in Talk!People, isPhoto[q]
          PROVE  /\ imageUrl[q] \in Images /\ imageUrl[q] \notin uploads[q]
                 /\ imageUrl[q] \notin removed[q]
                 /\ \A x \in posted : x.sender = q => x.content # Talk!Image(imageUrl[q])
      BY <1>a, <3>1, ZenonT(30) DEF ImagesApart
    <3> QED BY <1>2, <1>3, <1>4, <2>1, <3>1, ZenonT(30)
  <2> QED BY <2>4, <2>5, ZenonT(30) DEF ImagesApart
<1>9. Talk!RemovedNotSent'
  <2>1. \A i \in removed[p] : c # Talk!Image(i)
    BY <1>0, <1>a, Contents, ZenonT(30) DEF ImagesApart
  <2> QED BY <1>2, <1>3, <1>4, <1>a, <2>1, ZenonT(30) DEF Talk!RemovedNotSent
<1> QED BY <1>2, <1>5, <1>6, <1>7, <1>8, <1>9, ZenonT(30) DEF TalkInv

(* Picking, removing and dropping images.                                  *)
LEMMA Picturing ==
  ASSUME TalkInv, NEW p \in Talk!People, NEW i,
         \/ i \in Images /\ (Talk!uploadImage(p, i) \/ Talk!Uploaded(p, i) \/ Talk!UploadFails(p,
                 i))
         \/ Talk!RemoveImage(p) \/ Talk!Reopen(p)
  PROVE  TalkInv'
<1>1. UNCHANGED Talk!store /\ texts' = texts
  BY ZenonT(30) DEF Talk!uploadImage, Talk!Uploaded, Talk!UploadFails, Talk!RemoveImage, Talk!Reopen
<1>2. posted' = posted /\ Stamped' /\ Talk!TextSentOnce'
  BY <1>1, Quiet, ZenonT(30)
<1>3. TextsApart'
  <2>1. text' = text \/ text' = [text EXCEPT ![p] = 0]
    BY ZenonT(30) DEF Talk!uploadImage, Talk!Uploaded, Talk!UploadFails, Talk!RemoveImage, Talk!Reopen
  <2>2. \A q \in Talk!People : text'[q] = text[q] \/ text'[q] = 0
    BY <2>1, ZenonT(30) DEF TalkInv, Typed
  <2>3. 0 <= texts
    BY DEF TalkInv, Typed
  <2>4. TextsApart
    BY ZenonT(30) DEF TalkInv
  <2>5. \A q \in Talk!People : text'[q] <= texts'
    BY <1>1, <2>2, <2>3, <2>4, ZenonT(30) DEF TextsApart
  <2>6. \A q, r \in Talk!People : text'[q] = text'[r] /\ text'[q] # 0 => q = r
    BY <2>2, <2>4, ZenonT(30) DEF TextsApart
  <2> QED BY <1>1, <1>2, <2>2, <2>4, <2>5, <2>6, ZenonT(30) DEF TextsApart
<1>5. ASSUME removed' = removed PROVE Talk!RemovedNotSent'
  <2>1. Talk!RemovedNotSent
    BY ZenonT(30) DEF TalkInv
  <2> QED BY <1>2, <1>5, <2>1, ZenonT(30) DEF Talk!RemovedNotSent
<1>4. Typed' /\ ImagesApart' /\ Talk!RemovedNotSent'
  <2>1. CASE i \in Images /\ Talk!uploadImage(p, i)
    <3>1. /\ uploads' = [uploads EXCEPT ![p] = uploads[p] \cup {i}]
          /\ UNCHANGED <<attached, text, isPhoto, imageUrl, removed>>
      BY <2>1, ZenonT(30) DEF Talk!uploadImage
    <3>2. \A q \in Talk!People : i \notin removed[q] /\ i # imageUrl[q]
      BY <2>1 DEF Talk!uploadImage
    <3>3. \A m \in posted : m.content # Talk!Image(i)
      BY <2>1, ZenonT(30) DEF Talk!uploadImage
    <3>4. Typed'
      BY <1>1, <1>2, <2>1, <3>1, ZenonT(30) DEF TalkInv, Typed, Talk!store
    <3>5. ImagesApart'
      BY <1>2, <3>1, <3>2, <3>3 DEF TalkInv, Typed, ImagesApart
    <3> QED BY <1>5, <3>1, <3>4, <3>5, ZenonT(30)
  <2>2. CASE i \in Images /\ Talk!Uploaded(p, i)
    <3>1. /\ uploads' = [uploads EXCEPT ![p] = uploads[p] \ {i}]
          /\ UNCHANGED <<attached, text, removed>>
          /\ isPhoto' = [isPhoto EXCEPT ![p] = TRUE] /\ imageUrl' = [imageUrl EXCEPT ![p] = i]
          /\ i \in uploads[p]
      BY <2>2, ZenonT(30) DEF Talk!Uploaded
    <3>4. Typed'
      BY <1>1, <1>2, <2>2, <3>1, ZenonT(30) DEF TalkInv, Typed, Talk!store
    <3>5. ImagesApart'
      BY <1>2, <2>2, <3>1 DEF TalkInv, Typed, ImagesApart
    <3> QED BY <1>5, <3>1, <3>4, <3>5, ZenonT(30)
  <2>3. CASE Talk!UploadFails(p, i)
    <3>1. /\ uploads' = [uploads EXCEPT ![p] = uploads[p] \ {i}]
          /\ UNCHANGED <<attached, text, isPhoto, imageUrl, removed>>
      BY <2>3, ZenonT(30) DEF Talk!UploadFails
    <3>4. Typed'
      BY <1>1, <1>2, <3>1, ZenonT(30) DEF TalkInv, Typed, Talk!store
    <3>5. ImagesApart'
      BY <1>2, <3>1, ZenonT(30) DEF TalkInv, Typed, ImagesApart
    <3> QED BY <1>5, <3>1, <3>4, <3>5, ZenonT(30)
  <2>4. CASE Talk!RemoveImage(p)
    <3>1. /\ removed' = [removed EXCEPT ![p] = removed[p] \cup {imageUrl[p]}]
          /\ isPhoto[p] /\ isPhoto' = [isPhoto EXCEPT ![p] = FALSE]
          /\ UNCHANGED <<attached, text, imageUrl, uploads>>
      BY <2>4, ZenonT(30) DEF Talk!RemoveImage
    <3>2. /\ imageUrl[p] \in Images /\ imageUrl[p] \notin uploads[p]
          /\ \A m \in posted : m.sender = p => m.content # Talk!Image(imageUrl[p])
      BY <3>1, ZenonT(30) DEF TalkInv, ImagesApart
    <3>4. Typed'
      BY <1>1, <1>2, <3>1, <3>2, ZenonT(30) DEF TalkInv, Typed, Talk!store
    <3>3. ~isPhoto'[p] /\ \A q \in Talk!People \ {p} : isPhoto'[q] = isPhoto[q]
      BY <3>1, ZenonT(30) DEF TalkInv, Typed
    <3>7. /\ removed'[p] = removed[p] \cup {imageUrl[p]}
          /\ \A q \in Talk!People \ {p} : removed'[q] = removed[q]
      BY <3>1, ZenonT(30) DEF TalkInv, Typed
    <3>8. ImagesApart /\ Talk!RemovedNotSent
      BY ZenonT(30) DEF TalkInv
    <3>5. ImagesApart'
      <4>1. \A q \in Talk!People : \A j \in uploads'[q] :
              j \notin removed'[q] /\ \A m \in posted' : m.sender = q => m.content # Talk!Image(j)
        BY <1>2, <3>1, <3>2, <3>7, <3>8, ZenonT(30) DEF ImagesApart
      <4>2. \A q \in Talk!People : isPhoto'[q] => q # p /\ isPhoto[q] /\ removed'[q] = removed[q]
        BY <3>3, <3>7, ZenonT(30)
      <4>3. \A q \in Talk!People : isPhoto'[q] =>
              /\ imageUrl'[q] \in Images /\ imageUrl'[q] \notin uploads'[q]
              /\ imageUrl'[q] \notin removed'[q]
              /\ \A m \in posted' : m.sender = q => m.content # Talk!Image(imageUrl'[q])
        BY <1>2, <3>1, <3>8, <4>2, ZenonT(30) DEF ImagesApart
      <4> QED BY <4>1, <4>3, ZenonT(30) DEF ImagesApart
    <3>6. Talk!RemovedNotSent'
      BY <1>2, <3>2, <3>7, <3>8, ZenonT(30) DEF Talk!RemovedNotSent
    <3> QED BY <3>4, <3>5, <3>6, ZenonT(30)
  <2>5. CASE Talk!Reopen(p)
    <3>1. /\ uploads' = [uploads EXCEPT ![p] = {}] /\ isPhoto' = [isPhoto EXCEPT ![p] = FALSE]
          /\ imageUrl' = [imageUrl EXCEPT ![p] = Talk!NoImage] /\ removed' = removed
          /\ attached' = [attached EXCEPT ![p] = FALSE] /\ text' = [text EXCEPT ![p] = 0]
      BY <2>5, ZenonT(30) DEF Talk!Reopen
    <3>4. Typed'
      BY <1>1, <1>2, <3>1, TabAssumption DEF TalkInv, Typed, Talk!store
    <3>5. ImagesApart'
      BY <1>2, <3>1, ZenonT(30) DEF TalkInv, Typed, ImagesApart
    <3> QED BY <1>5, <3>1, <3>4, <3>5, ZenonT(30)
  <2> QED BY <2>1, <2>2, <2>3, <2>4, <2>5, ZenonT(30)
<1> QED BY <1>2, <1>3, <1>4, ZenonT(30) DEF TalkInv

(* Every step of the two devices and of Firestore keeps the invariant.     *)
LEMMA TalkNext == ASSUME TalkInv, Talk!Next PROVE TalkInv'
<1>1. ASSUME NEW p \in Talk!People, Talk!PageStep(p) PROVE TalkInv'
  BY <1>1, Typing, Sending, SendingImage, Picturing, ZenonT(30) DEF Talk!PageStep
<1> QED BY <1>1, Streamed, ZenonT(30) DEF Talk!Next, Talk!StudentPage, Talk!TeacherPage, Talk!People

(* So does a step of something else.                                       *)
LEMMA TalkStill == ASSUME TalkInv, UNCHANGED Talk!vars PROVE TalkInv'
<1>1. UNCHANGED Talk!store /\ UNCHANGED <<texts, attached, text, Talk!photoVars>>
  BY ZenonT(30) DEF Talk!vars
<1>2. posted' = posted /\ Stamped' /\ Talk!TextSentOnce'
  BY <1>1, Quiet, ZenonT(30)
<1>3. Typed'
  BY <1>1, <1>2, ZenonT(30) DEF TalkInv, Typed, Talk!store, Talk!photoVars
<1>4. TextsApart'
  BY <1>1, <1>2, ZenonT(30) DEF TalkInv, TextsApart
<1>5. ImagesApart' /\ Talk!RemovedNotSent'
  BY <1>1, <1>2, ZenonT(30) DEF TalkInv, ImagesApart, Talk!RemovedNotSent, Talk!photoVars
<1> QED BY <1>2, <1>3, <1>4, <1>5, ZenonT(30) DEF TalkInv

(* The invariant implies what the page promises.                           *)
LEMMA TalkImplies ==
  ASSUME TalkInv PROVE Talk!TypeOK /\ Talk!TextSentOnce /\ Talk!RemovedNotSent
BY TypesHold, ZenonT(30) DEF TalkInv

(* A step of the page, or of something else, keeps its invariant.          *)
LEMMA TalkMoves ==
  ASSUME TalkInv, Talk!Next \/ UNCHANGED Talk!vars
  PROVE  TalkInv'
BY TalkNext, TalkStill, ZenonT(30)

-----------------------------------------------------------------------------
Hub == INSTANCE ClubBrowser WITH listing <- asking

(* The calls of getActivities and their tasks: those that were not made    *)
(* have none, and the school's is never one that adds to the lists.        *)
HubTasks ==
  /\ loads \in 1..searches + 1 /\ searches \in 0..MaxSearches
  /\ asking \subseteq 1..loads
  /\ task \in [Hub!Tasks -> {"none", "adviser", "achievements", "done"}]
  /\ \A t \in Hub!Tasks : task[t] \in {"adviser", "achievements"} => t[2] \in ExistingClubs
  /\ \A t \in Hub!Tasks : t[1] \in asking \/ t[1] > loads => task[t] = "none"
  /\ query \in Queries /\ isSearch \in BOOLEAN /\ selectedIndex \in Categories
  /\ overlap \in BOOLEAN /\ filtered \in BOOLEAN
  /\ activites \in Seq(ExistingClubs) /\ byCategory \in [Categories -> Seq(ExistingClubs)]

(* A club is in a list that was loaded once its task of the last call has  *)
(* ended, and no task of another call is left.                             *)
HubOnce ==
  ~overlap =>
    /\ \A t \in Hub!Tasks : t[1] # loads => task[t] \notin {"adviser", "achievements"}
    /\ asking \subseteq {loads}
    /\ Hub!OnlyOnce(activites) /\ \A g \in Categories : Hub!OnlyOnce(byCategory[g])
    /\ \A c \in Hub!Elems(activites) : task[<<loads, c>>] = "done"
    /\ \A g \in Categories : \A c \in Hub!Elems(byCategory[g]) : task[<<loads, c>>] = "done"

(* The invariant of the page.                                              *)
HubInv == HubTasks /\ HubOnce /\ Hub!CategoriesAgree

(* How often a club is in an empty list, and in one that a club was added to. *)
LEMMA HubTimes ==
  ASSUME Hub!FiniteSetFacts, NEW c
  PROVE  /\ Hub!Times(c, <<>>) = 0
         /\ \A q \in Seq(ExistingClubs) : \A x \in ExistingClubs :
              Hub!Times(c, Append(q, x)) = IF x = c THEN Hub!Times(c, q) + 1 ELSE Hub!Times(c, q)
<1>1. Hub!Times(c, <<>>) = 0
  <2>1. {i \in 1..Len(<<>>) : <<>>[i] = c} = {}
    OBVIOUS
  <2> QED BY <2>1, ZenonT(30) DEF Hub!Times, Hub!FiniteSetFacts
<1>2. ASSUME NEW q \in Seq(ExistingClubs), NEW x \in ExistingClubs
      PROVE  Hub!Times(c, Append(q, x)) = IF x = c THEN Hub!Times(c, q) + 1 ELSE Hub!Times(c, q)
  <2> DEFINE A == {i \in 1..Len(q) : q[i] = c}
             B == {i \in 1..Len(Append(q, x)) : Append(q, x)[i] = c}
  <2>1. Hub!IsFiniteSet(A)
    <3>1. A \subseteq 1..Len(q) /\ Len(q) \in Nat
      OBVIOUS
    <3>2. Hub!IsFiniteSet(1..Len(q))
      BY <3>1, ZenonT(30) DEF Hub!FiniteSetFacts
    <3> HIDE DEF A
    <3> QED BY <3>1, <3>2, ZenonT(30) DEF Hub!FiniteSetFacts
  <2>3. Len(q) + 1 \notin A
    OBVIOUS
  <2>4. B = IF x = c THEN A \cup {Len(q) + 1} ELSE A
    <3>1. /\ Len(Append(q, x)) = Len(q) + 1 /\ Append(q, x)[Len(q) + 1] = x
          /\ \A i \in 1..Len(q) : Append(q, x)[i] = q[i]
      OBVIOUS
    <3>2. 1..(Len(q) + 1) = 1..Len(q) \cup {Len(q) + 1} /\ Len(q) + 1 \notin 1..Len(q)
      OBVIOUS
    <3> QED BY <3>1, <3>2, ZenonT(30)
  <2>5. Hub!Cardinality(A \cup {Len(q) + 1}) = Hub!Cardinality(A) + 1
    BY <2>1, <2>3, ZenonT(30) DEF Hub!FiniteSetFacts
  <2>6. Hub!Times(c, q) = Hub!Cardinality(A) /\ Hub!Times(c, Append(q, x)) = Hub!Cardinality(B)
    BY ZenonT(30) DEF Hub!Times
  <2> HIDE DEF A, B
  <2> QED BY <2>4, <2>5, <2>6, ZenonT(30)
<1> QED BY <1>1, <1>2, ZenonT(30)

(* The tasks of the last call.                                             *)
LEMMA HubCurrent ==
  ASSUME HubTasks
  PROVE  /\ loads \in Hub!Loads /\ Hub!Loads \subseteq Nat
         /\ \A c \in ExistingClubs : <<loads, c>> \in Hub!Tasks /\ <<loads, c>>[1] = loads
         /\ \A t \in Hub!Tasks : t[1] \in Hub!Loads /\ t = <<t[1], t[2]>>
<1>1. loads \in Hub!Loads /\ Hub!Loads \subseteq Nat
  BY TabAssumption DEF HubTasks, Hub!Loads
<1>2. \A c \in ExistingClubs : <<loads, c>> \in Hub!Tasks
  BY <1>1, ZenonT(30) DEF Hub!Tasks, Hub!Documents
<1> QED BY <1>1, <1>2 DEF Hub!Tasks

(* The first call has nothing listed yet.                                  *)
LEMMA HubInit == ASSUME Hub!FiniteSetFacts, Hub!Init PROVE HubInv
<1>1. \A q : q = <<>> => q \in Seq(ExistingClubs) /\ Hub!OnlyOnce(q) /\ Hub!Elems(q) = {}
  BY DEF Hub!OnlyOnce, Hub!Elems
<1>2. HubTasks
  <2>1. loads \in 1..searches + 1 /\ searches \in 0..MaxSearches /\ asking \subseteq 1..loads
    BY TabAssumption DEF Hub!Init
  <2>2. \A t \in Hub!Tasks : task[t] = "none"
    BY ZenonT(30) DEF Hub!Init
  <2>3. \A t \in Hub!Tasks : task[t] \notin {"adviser", "achievements"}
    BY <2>2, ZenonT(30)
  <2>4. activites \in Seq(ExistingClubs) /\ byCategory \in [Categories -> Seq(ExistingClubs)]
    BY <1>1, ZenonT(30) DEF Hub!Init
  <2> QED BY <2>1, <2>2, <2>3, <2>4, TabAssumption, ZenonT(30) DEF HubTasks, Hub!Init
<1>3. HubOnce
  <2>1. \A t \in Hub!Tasks : task[t] = "none"
    BY ZenonT(30) DEF Hub!Init
  <2>2. \A t \in Hub!Tasks : task[t] \notin {"adviser", "achievements"}
    BY <2>1, ZenonT(30)
  <2> QED BY <1>1, <2>2, ZenonT(30) DEF HubOnce, Hub!Init
<1>4. Hub!CategoriesAgree
  BY HubTimes, ZenonT(30) DEF Hub!CategoriesAgree, Hub!Init
<1> QED BY <1>2, <1>3, <1>4, ZenonT(30) DEF HubInv

(* The documents of a call: as long as calls do not overlap, the lists are *)
(* still empty.                                                            *)
LEMMA HubDocuments == ASSUME HubInv, NEW n \in Hub!Loads, Hub!GetActivities(n) PROVE HubInv'
<1>1. /\ n \in asking /\ asking' = asking \ {n}
      /\ task' = [t \in Hub!Tasks |-> IF t[1] # n THEN task[t]
                                  ELSE IF t[2] = School THEN "done" ELSE "adviser"]
      /\ UNCHANGED <<loads, Hub!listVars, query, searches, isSearch, selectedIndex, overlap,
              filtered>>
  BY ZenonT(30) DEF Hub!GetActivities
<1>2. HubTasks /\ HubOnce /\ Hub!CategoriesAgree
  BY ZenonT(30) DEF HubInv
<1>3. n \in 1..loads
  BY <1>1, <1>2, ZenonT(30) DEF HubTasks
<1>4. HubTasks'
  <2>1. task' \in [Hub!Tasks -> {"none", "adviser", "achievements", "done"}]
    BY <1>1, <1>2, ZenonT(30) DEF HubTasks
  <2>2. \A t \in Hub!Tasks : task'[t] \in {"adviser", "achievements"} => t[2] \in ExistingClubs
    <3>1. \A t \in Hub!Tasks : t[2] \in ExistingClubs \/ t[2] = School
      BY ZenonT(30) DEF Hub!Tasks, Hub!Documents
    <3> QED BY <1>1, <1>2, <3>1, ZenonT(30) DEF HubTasks
  <2>3. \A t \in Hub!Tasks : t[1] \in asking' \/ t[1] > loads => task'[t] = "none"
    BY <1>1, <1>2, <1>3 DEF HubTasks
  <2> QED BY <1>1, <1>2, <2>1, <2>2, <2>3, ZenonT(30) DEF HubTasks, Hub!listVars
<1>5. HubOnce'
  <2> SUFFICES ASSUME ~overlap PROVE HubOnce'
    BY <1>1, ZenonT(30) DEF HubOnce
  <2>1. n = loads
    BY <1>1, <1>2, ZenonT(30) DEF HubOnce
  <2>2. \A c \in ExistingClubs : task[<<loads, c>>] # "done"
    BY <1>1, <1>2, <2>1, HubCurrent, ZenonT(30) DEF HubTasks
  <2>3. Hub!Elems(activites) = {} /\ \A g \in Categories : Hub!Elems(byCategory[g]) = {}
    <3>1. Hub!Elems(activites) \subseteq ExistingClubs
            /\ \A g \in Categories : Hub!Elems(byCategory[g]) \subseteq ExistingClubs
      BY <1>2 DEF HubTasks, Hub!Elems
    <3> QED BY <1>2, <2>2, <3>1, ZenonT(30) DEF HubOnce
  <2>4. \A t \in Hub!Tasks : t[1] # loads => task'[t] \notin {"adviser", "achievements"}
    BY <1>1, <1>2, <2>1, ZenonT(30) DEF HubOnce
  <2>5. asking' \subseteq {loads'}
    BY <1>1, <1>2, ZenonT(30) DEF HubOnce
  <2>6. activites' = activites /\ byCategory' = byCategory /\ loads' = loads
    BY <1>1, ZenonT(30) DEF Hub!listVars
  <2> QED BY <1>2, <2>3, <2>4, <2>5, <2>6, ZenonT(30) DEF HubOnce
<1>6. Hub!CategoriesAgree'
  BY <1>1, <1>2, ZenonT(30) DEF Hub!CategoriesAgree, Hub!listVars
<1> QED BY <1>4, <1>5, <1>6, ZenonT(30) DEF HubInv

(* A task that goes on.                                                    *)
LEMMA HubAdviser == ASSUME HubInv, NEW t \in Hub!Tasks, Hub!GetAdviser(t) PROVE HubInv'
<1>1. /\ task[t] = "adviser" /\ task' = [task EXCEPT ![t] = "achievements"]
      /\ UNCHANGED <<loads, asking, Hub!listVars, query, searches, isSearch, selectedIndex,
                     overlap, filtered>>
  BY ZenonT(30) DEF Hub!GetAdviser
<1>2. HubTasks /\ HubOnce /\ Hub!CategoriesAgree
  BY ZenonT(30) DEF HubInv
<1>3. /\ task' \in [Hub!Tasks -> {"none", "adviser", "achievements", "done"}]
      /\ \A u \in Hub!Tasks :
           /\ task'[u] \in {"adviser", "achievements"} => task[u] \in {"adviser", "achievements"}
           /\ task[u] = "done" => task'[u] = "done"
           /\ task[u] = "none" => task'[u] = "none"
  BY <1>1, <1>2, ZenonT(30) DEF HubTasks
<1>4. HubTasks'
  BY <1>1, <1>2, <1>3, ZenonT(30) DEF HubTasks, Hub!listVars
<1>5. HubOnce'
  <2>1. Hub!Elems(activites) \subseteq ExistingClubs
          /\ \A g \in Categories : Hub!Elems(byCategory[g]) \subseteq ExistingClubs
    BY <1>2 DEF HubTasks, Hub!Elems
  <2>2. \A c \in ExistingClubs : <<loads, c>> \in Hub!Tasks
    BY <1>2, HubCurrent, ZenonT(30)
  <2>3. activites' = activites /\ byCategory' = byCategory /\ loads' = loads
          /\ asking' = asking /\ overlap' = overlap
    BY <1>1, ZenonT(30) DEF Hub!listVars
  <2> QED BY <1>2, <1>3, <2>1, <2>2, <2>3, ZenonT(30) DEF HubOnce
<1>6. Hub!CategoriesAgree'
  BY <1>1, <1>2, ZenonT(30) DEF Hub!CategoriesAgree, Hub!listVars
<1> QED BY <1>4, <1>5, <1>6, ZenonT(30) DEF HubInv

(* A club is added to the lists: to those of its categories and to that of *)
(* all clubs as often, and to none a second time by a call that is alone.  *)
LEMMA HubAdded ==
  ASSUME Hub!FiniteSetFacts, Hub!AppendFacts, HubInv, NEW t \in Hub!Tasks,
          Hub!GetAchievements(t) PROVE HubInv'
<1>1. /\ task[t] = "achievements" /\ task' = [task EXCEPT ![t] = "done"]
      /\ activites' = Append(activites, t[2])
      /\ byCategory' = [g \in Categories |->
           IF g \in CategoryOf[t[2]] THEN Append(byCategory[g], t[2]) ELSE byCategory[g]]
      /\ UNCHANGED <<loads, asking, query, searches, isSearch, selectedIndex, overlap, filtered>>
  BY ZenonT(30) DEF Hub!GetAchievements
<1>2. HubTasks /\ HubOnce /\ Hub!CategoriesAgree
  BY ZenonT(30) DEF HubInv
<1>3. t[2] \in ExistingClubs /\ task[t] # "done"
  BY <1>1, <1>2, ZenonT(30) DEF HubTasks
<1>4. /\ task' \in [Hub!Tasks -> {"none", "adviser", "achievements", "done"}] /\ task'[t] = "done"
      /\ \A u \in Hub!Tasks :
           /\ task'[u] \in {"adviser", "achievements"} => task[u] \in {"adviser", "achievements"}
           /\ task[u] = "done" => task'[u] = "done"
           /\ task[u] = "none" => task'[u] = "none"
  BY <1>1, <1>2, ZenonT(30) DEF HubTasks
<1>5. /\ activites \in Seq(ExistingClubs)
        /\ \A g \in Categories : byCategory[g] \in Seq(ExistingClubs)
      /\ \A g \in Categories : byCategory'[g] =
           IF g \in CategoryOf[t[2]] THEN Append(byCategory[g], t[2]) ELSE byCategory[g]
  BY <1>1, <1>2, ZenonT(30) DEF HubTasks
<1>6. /\ activites' \in Seq(ExistingClubs)
      /\ byCategory' \in [Categories -> Seq(ExistingClubs)]
  <2>1. \A q \in Seq(ExistingClubs) : Append(q, t[2]) \in Seq(ExistingClubs)
    BY <1>3, ZenonT(30) DEF Hub!AppendFacts
  <2> QED BY <1>1, <1>5, <2>1, ZenonT(30)
<1>7. HubTasks'
  BY <1>1, <1>2, <1>4, <1>6, ZenonT(30) DEF HubTasks
<1>8. HubOnce'
  <2> SUFFICES ASSUME ~overlap PROVE HubOnce'
    BY <1>1, ZenonT(30) DEF HubOnce
  <2>1. t[1] = loads
    <3>1. task[t] \in {"adviser", "achievements"}
      BY <1>1, ZenonT(30)
    <3> QED BY <1>2, <3>1, ZenonT(30) DEF HubOnce
  <2>2. t = <<loads, t[2]>>
    BY <1>2, <2>1, HubCurrent, ZenonT(30)
  <2>3. /\ t[2] \notin Hub!Elems(activites) /\ Hub!OnlyOnce(activites)
        /\ \A g \in Categories : t[2] \notin Hub!Elems(byCategory[g]) /\ Hub!OnlyOnce(byCategory[g])
    BY <1>2, <1>3, <2>2, ZenonT(30) DEF HubOnce
  <2>4. \A q \in Seq(ExistingClubs) : Hub!OnlyOnce(q) /\ t[2] \notin Hub!Elems(q) =>
          Hub!OnlyOnce(Append(q, t[2])) /\ Hub!Elems(Append(q, t[2])) = Hub!Elems(q) \cup {t[2]}
    <3>1. \A q \in Seq(ExistingClubs) : \A x \in ExistingClubs :
            /\ Append(q, x) \in Seq(ExistingClubs) /\ Hub!Elems(Append(q,
                    x)) = Hub!Elems(q) \cup {x}
            /\ Hub!OnlyOnce(q) /\ x \notin Hub!Elems(q) => Hub!OnlyOnce(Append(q, x))
      BY ZenonT(30) DEF Hub!AppendFacts
    <3> QED BY <1>3, <3>1, ZenonT(30)
  <2>5. /\ Hub!OnlyOnce(activites') /\ Hub!Elems(activites') = Hub!Elems(activites) \cup {t[2]}
        /\ \A g \in Categories :
             /\ Hub!OnlyOnce(byCategory'[g])
             /\ Hub!Elems(byCategory'[g]) \subseteq Hub!Elems(byCategory[g]) \cup {t[2]}
    BY <1>1, <1>5, <2>3, <2>4, ZenonT(30)
  <2>6. Hub!Elems(activites) \subseteq ExistingClubs
          /\ \A g \in Categories : Hub!Elems(byCategory[g]) \subseteq ExistingClubs
    BY <1>5 DEF Hub!Elems
  <2>7. \A c \in ExistingClubs : <<loads, c>> \in Hub!Tasks
    BY <1>2, HubCurrent, ZenonT(30)
  <2>8. task'[<<loads, t[2]>>] = "done"
    BY <1>4, <2>2, ZenonT(30)
  <2>9. /\ \A c \in Hub!Elems(activites') : task'[<<loads, c>>] = "done"
        /\ \A g \in Categories : \A c \in Hub!Elems(byCategory'[g]) : task'[<<loads, c>>] = "done"
    BY <1>2, <1>4, <2>5, <2>6, <2>7, <2>8, ZenonT(30) DEF HubOnce
  <2>10. loads' = loads /\ asking' = asking
    BY <1>1, ZenonT(30)
  <2> QED BY <1>2, <1>4, <2>5, <2>9, <2>10, ZenonT(30) DEF HubOnce
<1>9. Hub!CategoriesAgree'
  <2> SUFFICES ASSUME NEW g \in Categories, NEW c \in ExistingClubs
               PROVE  /\ g \notin CategoryOf[c] => Hub!Times(c, byCategory'[g]) = 0
                      /\ g \in CategoryOf[c] /\ ~filtered => Hub!Times(c,
                              byCategory'[g]) = Hub!Times(c, activites')
    BY <1>1, ZenonT(30) DEF Hub!CategoriesAgree
  <2>1. \A q \in Seq(ExistingClubs) :
          Hub!Times(c, Append(q, t[2])) = IF t[2] = c THEN Hub!Times(c, q) + 1 ELSE Hub!Times(c, q)
    BY <1>3, HubTimes, ZenonT(30)
  <2>2. /\ g \notin CategoryOf[c] => Hub!Times(c, byCategory[g]) = 0
        /\ g \in CategoryOf[c] /\ ~filtered => Hub!Times(c, byCategory[g]) = Hub!Times(c, activites)
    BY <1>2, ZenonT(30) DEF Hub!CategoriesAgree
  <2>3. CASE t[2] = c
    BY <1>1, <1>5, <2>1, <2>2, <2>3, ZenonT(30)
  <2>4. CASE t[2] # c
    BY <1>1, <1>5, <2>1, <2>2, <2>4, ZenonT(30)
  <2> QED BY <2>3, <2>4, ZenonT(30)
<1> QED BY <1>7, <1>8, <1>9, ZenonT(30) DEF HubInv

(* A text: the list of all clubs is filtered.                              *)
LEMMA HubFilter ==
  ASSUME Hub!KeptFacts, HubInv, NEW q \in Queries, Hub!searchActivity(q), q # Empty PROVE HubInv'
<1>1. /\ searches < MaxSearches /\ searches' = searches + 1 /\ query' = q /\ filtered' = TRUE
      /\ activites' = Hub!Kept(activites, ClubMatches[q])
      /\ UNCHANGED <<Hub!loadVars, byCategory, overlap, isSearch, selectedIndex>>
  BY ZenonT(30) DEF Hub!searchActivity
<1>2. HubTasks /\ HubOnce /\ Hub!CategoriesAgree
  BY ZenonT(30) DEF HubInv
<1>3. searches' \in 0..MaxSearches /\ loads \in 1..searches' + 1
  BY <1>1, <1>2, TabAssumption DEF HubTasks
<1>4. /\ activites' \in Seq(ExistingClubs) /\ Hub!Elems(activites') \subseteq Hub!Elems(activites)
      /\ Hub!OnlyOnce(activites) => Hub!OnlyOnce(activites')
  <2>1. activites \in Seq(ExistingClubs)
    BY <1>2, ZenonT(30) DEF HubTasks
  <2>2. \A q2 \in Seq(ExistingClubs) : \A S :
          /\ Hub!Kept(q2, S) \in Seq(ExistingClubs)
          /\ Hub!Elems(Hub!Kept(q2, S)) = Hub!Elems(q2) \cap S
          /\ q2 = <<>> => Hub!Kept(q2, S) = <<>>
          /\ Hub!OnlyOnce(q2) => Hub!OnlyOnce(Hub!Kept(q2, S))
    BY ZenonT(30) DEF Hub!KeptFacts
  <2> QED BY <1>1, <2>1, <2>2, ZenonT(30)
<1>5. HubTasks'
  BY <1>1, <1>2, <1>3, <1>4, ZenonT(30) DEF HubTasks, Hub!loadVars
<1>6. HubOnce'
  BY <1>1, <1>2, <1>4, ZenonT(30) DEF HubOnce, Hub!loadVars
<1>7. Hub!CategoriesAgree'
  BY <1>1, <1>2, ZenonT(30) DEF Hub!CategoriesAgree
<1> QED BY <1>5, <1>6, <1>7, ZenonT(30) DEF HubInv

(* The empty text: everything is cleared and loaded again.                 *)
LEMMA HubReload ==
  ASSUME Hub!FiniteSetFacts, HubInv, NEW q \in Queries, Hub!searchActivity(q), q = Empty
          PROVE HubInv'
<1>1. /\ searches < MaxSearches /\ searches' = searches + 1 /\ query' = q /\ filtered' = FALSE
      /\ activites' = <<>> /\ byCategory' = [g \in Categories |-> <<>>]
      /\ loads' = loads + 1 /\ asking' = asking \cup {loads + 1}
      /\ overlap' = (overlap \/ Hub!Loading)
      /\ UNCHANGED <<task, isSearch, selectedIndex>>
  BY ZenonT(30) DEF Hub!searchActivity
<1>2. HubTasks /\ HubOnce /\ Hub!CategoriesAgree
  BY ZenonT(30) DEF HubInv
<1>3. \A r : r = <<>> => r \in Seq(ExistingClubs) /\ Hub!OnlyOnce(r) /\ Hub!Elems(r) = {}
  BY DEF Hub!OnlyOnce, Hub!Elems
<1>4. HubTasks'
  <2>1. searches' \in 0..MaxSearches /\ loads' \in 1..searches' + 1 /\ asking' \subseteq 1..loads'
    BY <1>1, <1>2, TabAssumption DEF HubTasks
  <2>2. \A t \in Hub!Tasks : t[1] \in asking' \/ t[1] > loads' => t[1] \in asking \/ t[1] > loads
    <3>1. loads \in Nat /\ \A t \in Hub!Tasks : t[1] \in Nat
      BY <1>2, HubCurrent, ZenonT(30)
    <3> QED BY <1>1, <3>1
  <2>3. activites' \in Seq(ExistingClubs) /\ byCategory' \in [Categories -> Seq(ExistingClubs)]
    BY <1>1, <1>3, ZenonT(30)
  <2>4. overlap' \in BOOLEAN
    BY <1>1, ZenonT(30) DEF Hub!Loading
  <2> QED BY <1>1, <1>2, <2>1, <2>2, <2>3, <2>4, ZenonT(30) DEF HubTasks
<1>5. HubOnce'
  <2>1. ~overlap' => asking = {} /\ \A t \in Hub!Tasks : task[t] \notin {"adviser", "achievements"}
    BY <1>1, ZenonT(30) DEF Hub!Loading
  <2> QED BY <1>1, <1>3, <2>1, ZenonT(30) DEF HubOnce
<1>6. Hub!CategoriesAgree'
  BY <1>1, HubTimes, ZenonT(30) DEF Hub!CategoriesAgree
<1> QED BY <1>4, <1>5, <1>6, ZenonT(30) DEF HubInv

(* The search bar and the categories leave the lists alone.                *)
LEMMA HubKept ==
  ASSUME HubInv, UNCHANGED <<Hub!loadVars, Hub!listVars, searches, overlap, filtered>>,
         query' \in Queries, isSearch' \in BOOLEAN, selectedIndex' \in Categories
  PROVE  HubInv'
BY ZenonT(30) DEF HubInv, HubTasks, HubOnce, Hub!CategoriesAgree, Hub!loadVars, Hub!listVars

(* Every step keeps the invariant,                                         *)
LEMMA HubStep ==
  ASSUME Hub!FiniteSetFacts, Hub!AppendFacts, Hub!KeptFacts, HubInv,
          Hub!Next \/ UNCHANGED Hub!vars PROVE HubInv'
<1>0. query \in Queries /\ isSearch \in BOOLEAN /\ selectedIndex \in Categories /\ Empty \in Queries
  BY TabAssumption, ZenonT(30) DEF HubInv, HubTasks
<1>1. CASE Hub!TapSearchBar
  BY <1>0, <1>1, HubKept, ZenonT(30) DEF Hub!TapSearchBar
<1>2. ASSUME NEW q \in Queries, Hub!searchActivity(q) PROVE HubInv'
  BY <1>2, HubFilter, HubReload, ZenonT(30)
<1>3. ASSUME NEW g \in Categories, Hub!TapCategory(g) PROVE HubInv'
  BY <1>0, <1>3, HubKept, ZenonT(30) DEF Hub!TapCategory
<1>4. CASE UNCHANGED Hub!vars
  BY <1>0, <1>4, HubKept, ZenonT(30) DEF Hub!vars
<1> QED BY <1>1, <1>2, <1>3, <1>4, HubDocuments, HubAdviser, HubAdded, ZenonT(30)
    DEF Hub!Next, Hub!ClubTask

(* which implies what the page promises.                                   *)
LEMMA HubImplies ==
  ASSUME HubInv PROVE Hub!TypeOK /\ Hub!ShownOnceWithoutOverlap /\ Hub!CategoriesAgree
<1>1. HubTasks /\ HubOnce
  BY ZenonT(30) DEF HubInv
<1>2. loads \in Hub!Loads /\ asking \subseteq Hub!Loads
  BY <1>1, TabAssumption DEF HubTasks, Hub!Loads
<1>3. Hub!TypeOK
  BY <1>1, <1>2, ZenonT(30) DEF HubTasks, Hub!TypeOK
<1>4. Hub!ShownOnceWithoutOverlap
  BY <1>1, ZenonT(30) DEF HubTasks, HubOnce, Hub!ShownOnceWithoutOverlap, Hub!displayList
<1> QED BY <1>3, <1>4, ZenonT(30) DEF HubInv

(* What is known of the lists, for the operators of that page.             *)
LEMMA HubFacts ==
  ASSUME FiniteSetFacts, AppendFacts, KeptFacts
  PROVE  Hub!FiniteSetFacts /\ Hub!AppendFacts /\ Hub!KeptFacts
<1>1. Hub!FiniteSetFacts
  BY ZenonT(30) DEF Hub!FiniteSetFacts, FiniteSetFacts, Hub!IsFiniteSet, IsFiniteSet, Hub!Cardinality,
     Cardinality
<1>2. Hub!AppendFacts
  BY ZenonT(30) DEF Hub!AppendFacts, AppendFacts, Hub!Elems, Elems, Hub!OnlyOnce, OnlyOnce
<1>3. Hub!KeptFacts
  BY ZenonT(30) DEF Hub!KeptFacts, KeptFacts, Hub!Kept, Kept, Hub!Elems, Elems, Hub!OnlyOnce, OnlyOnce,
     Hub!Cardinality, Cardinality
<1> QED BY <1>1, <1>2, <1>3, ZenonT(30)

(* A step of the page, or of something else, keeps its invariant.          *)
LEMMA HubMoves ==
  ASSUME FiniteSetFacts, AppendFacts, KeptFacts, HubInv, Hub!Next \/ UNCHANGED Hub!vars
  PROVE  HubInv'
BY HubFacts, HubStep, ZenonT(30)

(* The page is opened in its invariant.                                    *)
LEMMA HubOpens == ASSUME FiniteSetFacts, Hub!Init PROVE HubInv
<1>1. Hub!FiniteSetFacts
  BY ZenonT(30) DEF Hub!FiniteSetFacts, FiniteSetFacts, Hub!IsFiniteSet, IsFiniteSet,
     Hub!Cardinality, Cardinality
<1> QED BY <1>1, HubInit, ZenonT(30)

-----------------------------------------------------------------------------
Setting == INSTANCE Settings

(* The pages and forms on the Navigator after n submissions.               *)
SettingPages(n) == [kind : {"settings"}, built : 0..n, loading : BOOLEAN, shown : Queries]
PronounsForms == [kind : {"pronouns"}, text : Queries]
FeedbackForms == [kind : {"feedback"}, subject : Setting!Subjects, rating : Setting!Ratings]
Routes(n) == SettingPages(n) \cup PronounsForms \cup FeedbackForms

(* Beneath everything is the settings page of the first tab bar.           *)
Bottom == Len(routes) > 0 /\ routes[1].kind = "settings"

(* The invariant of the settings and the forms above them.                 *)
SettingInv ==
  /\ pronouns \in Queries \cup {None} /\ submits \in 0..MaxSubmits
  /\ routes \in Seq(Routes(submits)) /\ Bottom
  /\ feedback \subseteq [subject : Setting!Subjects, rating : Setting!Ratings]

(* The settings page is alone when it is built.                            *)
LEMMA SettingInit == ASSUME Setting!Init PROVE SettingInv
<1>1. Setting!SettingPage(0) \in Routes(0)
  BY TabAssumption DEF Setting!SettingPage, Routes, SettingPages
<1>2. submits \in 0..MaxSubmits /\ submits = 0
  BY TabAssumption DEF Setting!Init
<1>3. routes \in Seq(Routes(submits)) /\ Bottom
  <2>1. Setting!SettingPage(0).kind = "settings"
    BY ZenonT(30) DEF Setting!SettingPage
  <2> QED BY <1>1, <1>2, <2>1 DEF Setting!Init, Bottom
<1> QED BY <1>2, <1>3, ZenonT(30) DEF Setting!Init, SettingInv

(* What a route is, by its kind.                                           *)
LEMMA SettingKinds ==
  ASSUME NEW n \in Nat, NEW r \in Routes(n)
  PROVE  /\ r.kind = "settings" => r \in SettingPages(n)
         /\ r.kind = "pronouns" => r \in PronounsForms
         /\ r.kind = "feedback" => r \in FeedbackForms
BY ZenonT(30) DEF Routes, SettingPages, PronounsForms, FeedbackForms

(* Every step keeps the invariant,                                         *)
LEMMA SettingStep == ASSUME SettingInv, Setting!Next \/ UNCHANGED Setting!vars PROVE SettingInv'
<1>0. /\ submits \in Nat /\ routes \in Seq(Routes(submits)) /\ Len(routes) \in 1..Len(routes)
      /\ \A n \in 1..Len(routes) : routes[n] \in Routes(submits)
      /\ 1 \in 1..Len(routes) /\ Bottom
  <2>1. submits \in Nat
    BY DEF SettingInv
  <2> QED BY <2>1, FirstOfSeq, ZenonT(30) DEF SettingInv, Bottom
<1>a. ASSUME NEW n \in 1..Len(routes), NEW r \in Routes(submits),
        routes' = [routes EXCEPT ![n] = r],
             r.kind = routes[n].kind
      PROVE  routes' \in Seq(Routes(submits)) /\ Bottom'
  <2>1. routes' \in Seq(Routes(submits)) /\ Len(routes') = Len(routes)
    BY <1>0, <1>a
  <2>2. routes'[1].kind = routes[1].kind
    BY <1>0, <1>a
  <2> QED BY <1>0, <2>1, <2>2, ZenonT(30) DEF Bottom
<1>1. ASSUME NEW n \in 1..Len(routes), Setting!GetPersonDocuments(n) PROVE SettingInv'
  <2> DEFINE r == [routes[n] EXCEPT !.loading = FALSE,
                     !.shown = IF pronouns = None THEN routes[n].shown ELSE pronouns]
  <2>1. routes[n] \in SettingPages(submits)
    BY <1>0, <1>1, SettingKinds, ZenonT(30) DEF Setting!GetPersonDocuments
  <2>2. r \in SettingPages(submits) /\ r.kind = routes[n].kind
    BY <2>1, ZenonT(30) DEF SettingPages, SettingInv
  <2>3. routes' = [routes EXCEPT ![n] = r]
    BY <1>0, <1>1, <2>1, ZenonT(30) DEF Setting!GetPersonDocuments, SettingPages
  <2>4. routes' \in Seq(Routes(submits)) /\ Bottom'
    <3> HIDE DEF r
    <3> QED BY <1>a, <2>2, <2>3, ZenonT(30) DEF Routes
  <2> QED BY <1>1, <2>4, ZenonT(30) DEF Setting!GetPersonDocuments, SettingInv
<1>2. CASE Setting!OpenForm(Setting!PronounsForm) \/ Setting!OpenForm(Setting!FeedbackForm)
  <2>1. Setting!PronounsForm \in Routes(submits) /\ Setting!FeedbackForm \in Routes(submits)
    BY TabAssumption, ZenonT(30)
        DEF Setting!PronounsForm, Setting!FeedbackForm, Routes, PronounsForms, FeedbackForms,
                Setting!Subjects, Setting!Ratings
  <2>2. routes' \in Seq(Routes(submits)) /\ Bottom'
    <3>1. PICK form \in Routes(submits) : routes' = Append(routes, form)
      BY <1>2, <2>1, ZenonT(30) DEF Setting!OpenForm
    <3>2. routes \in Seq(Routes(submits)) /\ Len(routes) > 0 /\ routes[1].kind = "settings"
      BY <1>0, ZenonT(30) DEF Bottom
    <3>3. routes' \in Seq(Routes(submits)) /\ Len(routes') > 0 /\ routes'[1] = routes[1]
      BY <3>1, <3>2
    <3> QED BY <3>2, <3>3, ZenonT(30) DEF Bottom
  <2> QED BY <1>2, <2>2, ZenonT(30) DEF Setting!OpenForm, SettingInv
<1>3. ASSUME NEW t \in Queries, Setting!TypePronouns(t) PROVE SettingInv'
  <2> DEFINE r == [Setting!Top EXCEPT !.text = t]
  <2>1. Setting!Top \in PronounsForms
    BY <1>0, <1>3, SettingKinds, ZenonT(30) DEF Setting!TypePronouns, Setting!Top
  <2>2. r \in PronounsForms /\ r.kind = Setting!Top.kind
    BY <2>1, ZenonT(30) DEF PronounsForms
  <2>3. routes' = [routes EXCEPT ![Len(routes)] = r]
    BY <1>0, <1>3, ZenonT(30) DEF Setting!TypePronouns, Setting!Top
  <2>4. routes' \in Seq(Routes(submits)) /\ Bottom'
    <3> HIDE DEF r
    <3> QED BY <1>0, <1>a, <2>2, <2>3, ZenonT(30) DEF Routes, Setting!Top
  <2> QED BY <1>3, <2>4, ZenonT(30) DEF Setting!TypePronouns, SettingInv
<1>4. CASE Setting!SubmitPronouns
  <2>1. Setting!Top \in PronounsForms /\ submits' = submits + 1 /\ submits' \in 0..MaxSubmits
    <3>1. Setting!Top.kind = "pronouns" /\ Setting!Top \in Routes(submits)
      BY <1>0, <1>4, ZenonT(30) DEF Setting!SubmitPronouns, Setting!Top
    <3>2. submits' = submits + 1 /\ submits' \in 0..MaxSubmits
      BY <1>4, TabAssumption DEF Setting!SubmitPronouns, SettingInv
    <3> QED BY <1>0, <3>1, <3>2, SettingKinds, ZenonT(30)
  <2>2. pronouns' \in Queries
    BY <1>4, <2>1, ZenonT(30) DEF Setting!SubmitPronouns, PronounsForms
  <2>3. Routes(submits) \subseteq Routes(submits')
          /\ Setting!SettingPage(submits + 1) \in Routes(submits')
    <3>1. 0..submits \subseteq 0..submits' /\ submits + 1 \in 0..submits'
      BY <1>0, <2>1
    <3>2. SettingPages(submits) \subseteq SettingPages(submits')
      BY <3>1, ZenonT(30) DEF SettingPages
    <3>3. Setting!SettingPage(submits + 1) \in SettingPages(submits')
      BY <3>1, TabAssumption, ZenonT(30) DEF Setting!SettingPage, SettingPages
    <3> QED BY <3>2, <3>3, ZenonT(30) DEF Routes
  <2>4. routes' \in Seq(Routes(submits')) /\ Bottom'
    <3>1. routes' = Append(routes, Setting!SettingPage(submits + 1))
      BY <1>4, ZenonT(30) DEF Setting!SubmitPronouns
    <3>2. routes \in Seq(Routes(submits'))
      BY <1>0, <2>3
    <3> QED BY <1>0, <2>3, <3>1, <3>2 DEF Bottom
  <2> QED BY <1>4, <2>1, <2>2, <2>4, ZenonT(30) DEF Setting!SubmitPronouns, SettingInv
<1>5. ASSUME NEW s \in Setting!Subjects \ {None}, NEW q \in Setting!Ratings,
        Setting!FillFeedback(s, q) PROVE SettingInv'
  <2> DEFINE r == [Setting!Top EXCEPT !.subject = s, !.rating = q]
  <2>1. Setting!Top \in FeedbackForms
    BY <1>0, <1>5, SettingKinds, ZenonT(30) DEF Setting!FillFeedback, Setting!Top
  <2>2. r \in FeedbackForms /\ r.kind = Setting!Top.kind
    BY <2>1, ZenonT(30) DEF FeedbackForms
  <2>3. routes' = [routes EXCEPT ![Len(routes)] = r]
    BY <1>0, <1>5, ZenonT(30) DEF Setting!FillFeedback, Setting!Top
  <2>4. routes' \in Seq(Routes(submits)) /\ Bottom'
    <3> HIDE DEF r
    <3> QED BY <1>0, <1>a, <2>2, <2>3, ZenonT(30) DEF Routes, Setting!Top
  <2> QED BY <1>5, <2>4, ZenonT(30) DEF Setting!FillFeedback, SettingInv
<1>b. ASSUME Len(routes) > 1, routes' = Setting!Beneath PROVE routes' \in Seq(Routes(submits))
        /\ Bottom'
  <2>1. PICK n \in Nat : n = Len(routes) - 1 /\ n > 0
    BY <1>0, <1>b
  <2>2. Setting!Beneath \in Seq(Routes(submits)) /\ Len(Setting!Beneath) = n
          /\ Setting!Beneath[1] = routes[1]
    BY <1>0, <2>1 DEF Setting!Beneath
  <2> QED BY <1>0, <1>b, <2>1, <2>2, ZenonT(30) DEF Bottom
<1>6. CASE Setting!SubmitFeedback
  <2>1. Setting!Top \in FeedbackForms /\ Setting!Top.kind # "settings"
    BY <1>0, <1>6, SettingKinds, ZenonT(30) DEF Setting!SubmitFeedback, Setting!Top
  <2>2. Len(routes) > 1
    BY <1>0, <2>1 DEF Bottom, Setting!Top
  <2>3. [subject |-> Setting!Top.subject,
          rating |-> Setting!Top.rating] \in [subject : Setting!Subjects, rating : Setting!Ratings]
    BY <2>1, ZenonT(30) DEF FeedbackForms
  <2>4. feedback' \subseteq [subject : Setting!Subjects, rating : Setting!Ratings]
    BY <1>6, <2>3, ZenonT(30) DEF Setting!SubmitFeedback, SettingInv
  <2> QED BY <1>6, <1>b, <2>2, <2>4, ZenonT(30) DEF Setting!SubmitFeedback, SettingInv
<1>7. CASE Setting!Back
  BY <1>7, <1>b, ZenonT(30) DEF Setting!Back, SettingInv
<1>8. CASE UNCHANGED Setting!vars
  BY <1>8, ZenonT(30) DEF Setting!vars, SettingInv, Bottom
<1> QED BY <1>1, <1>2, <1>3, <1>4, <1>5, <1>6, <1>7, <1>8, ZenonT(30) DEF Setting!Next

(* which has the types of the page.                                        *)
LEMMA SettingImplies == ASSUME SettingInv PROVE Setting!TypeOK
<1>1. Len(routes) > 0 /\ \A n \in 1..Len(routes) : routes[n] \in Routes(submits)
  BY DEF SettingInv, Bottom
<1> QED BY <1>1, ZenonT(30)
    DEF SettingInv, Setting!TypeOK, Routes, SettingPages, PronounsForms, FeedbackForms

-----------------------------------------------------------------------------
Class == INSTANCE Announcements WITH text <- announcement

(* How the list of the page relates to who was in the class meanwhile.     *)
ClassInv ==
  /\ Class!TypeOK
  /\ \A m \in messages : m.n <= sent
  /\ students \subseteq ever
  /\ loaded => always \subseteq students

(* Nothing is announced yet.                                               *)
LEMMA ClassInit == ASSUME Class!Init PROVE ClassInv
<1>1. opens \in 1..MaxOpens /\ sent \in 0..MaxSent
  BY TabAssumption DEF Class!Init
<1>2. Enrolled \subseteq Students
  BY TabAssumption, ZenonT(30)
<1> QED BY <1>1, <1>2, ZenonT(30) DEF Class!Init, ClassInv, Class!TypeOK

(* The messages of an announcement: one for each student of the list.      *)
LEMMA ClassAnnounces ==
  ASSUME ClassInv, Class!sendAnnouncement
  PROVE  /\ sent + 1 \in 1..MaxSent /\ sent' \in 0..MaxSent /\ sent' = sent + 1
         /\ messages' = messages \cup Class!Announced(students)
         /\ \A m \in Class!Announced(students) :
              m \in Class!Message /\ m.n = sent' /\ m.reciever \in students
         /\ \A s \in students : [n |-> sent', reciever |-> s] \in Class!Announced(students)
         /\ \A m \in messages : m.n < sent'
<1>1. sent + 1 \in 1..MaxSent /\ sent' \in 0..MaxSent /\ sent' = sent + 1
  BY TabAssumption DEF Class!sendAnnouncement, ClassInv, Class!TypeOK
<1>2. messages' = messages \cup Class!Announced(students) /\ students \subseteq Students
  BY ZenonT(30) DEF Class!sendAnnouncement, ClassInv, Class!TypeOK
<1>3. \A m \in Class!Announced(students) :
        m \in Class!Message /\ m.n = sent' /\ m.reciever \in students
  BY <1>1, <1>2 DEF Class!Announced, Class!Message
<1>4. \A s \in students : [n |-> sent', reciever |-> s] \in Class!Announced(students)
  BY <1>1, ZenonT(30) DEF Class!Announced
<1>5. \A m \in messages : m.n < sent'
  BY <1>1 DEF ClassInv, Class!TypeOK, Class!Message
<1> QED BY <1>1, <1>2, <1>3, <1>4, <1>5, ZenonT(30)

(* Whoever leaves the class is not of those who always were in it, whoever *)
(* enters is of those who ever were, and the answer brings those who are.  *)
LEMMA ClassStep == ASSUME ClassInv, Class!Next \/ UNCHANGED Class!vars PROVE ClassInv'
<1>1. CASE \E s \in Students : Class!Enrol(s)
  <2>1. PICK s \in Students : Class!Enrol(s)
    BY <1>1, ZenonT(30)
  <2>2. /\ roster' = roster \cup {s} /\ ever' = ever \cup {s} /\ always' = always
        /\ UNCHANGED <<opens, loaded, students, dialog, announcement, sent, messages>>
    BY <2>1, ZenonT(30) DEF Class!Enrol, Class!page
  <2>3. /\ roster' \subseteq Students /\ always' \subseteq roster' /\ roster' \subseteq ever'
        /\ ever' \subseteq Students /\ students' \subseteq ever'
    BY <2>2, ZenonT(30) DEF ClassInv, Class!TypeOK
  <2> QED BY <2>2, <2>3, ZenonT(30) DEF ClassInv, Class!TypeOK
<1>2. CASE \E s \in Students : Class!Withdraw(s)
  <2>1. PICK s \in Students : Class!Withdraw(s)
    BY <1>2, ZenonT(30)
  <2>2. /\ roster' = roster \ {s} /\ always' = always \ {s} /\ ever' = ever
        /\ UNCHANGED <<opens, loaded, students, dialog, announcement, sent, messages>>
    BY <2>1, ZenonT(30) DEF Class!Withdraw, Class!page
  <2>3. /\ roster' \subseteq Students /\ always' \subseteq roster' /\ roster' \subseteq ever'
        /\ loaded' => always' \subseteq students'
    BY <2>2, ZenonT(30) DEF ClassInv, Class!TypeOK
  <2> QED BY <2>2, <2>3, ZenonT(30) DEF ClassInv, Class!TypeOK
<1>3. CASE Class!getStudents
  BY <1>3, ZenonT(30) DEF Class!getStudents, ClassInv, Class!TypeOK
<1>4. CASE Class!OpenDialog \/ Class!TypeAnnouncement \/ Class!CloseDialog
  <2>1. /\ dialog' \in BOOLEAN /\ announcement' \in BOOLEAN
        /\ UNCHANGED <<roster, opens, loaded, students, sent, messages, always, ever>>
    BY <1>4, ZenonT(30)
    DEF Class!OpenDialog, Class!TypeAnnouncement, Class!CloseDialog, ClassInv, Class!TypeOK
  <2> QED BY <2>1, ZenonT(30) DEF ClassInv, Class!TypeOK
<1>5. CASE Class!sendAnnouncement
  <2>1. /\ announcement' \in BOOLEAN /\ dialog' \in BOOLEAN
        /\ UNCHANGED <<roster, opens, loaded, students, always, ever>>
    BY <1>5, ZenonT(30) DEF Class!sendAnnouncement
  <2>2. messages' \subseteq Class!Message
    BY <1>5, ClassAnnounces, ZenonT(30) DEF ClassInv, Class!TypeOK
  <2>3. \A m \in messages' : m.n <= sent'
    <3>1. ASSUME NEW m \in messages' PROVE m.n = sent' \/ m.n < sent'
      BY <1>5, <3>1, ClassAnnounces, ZenonT(30)
    <3>2. sent' \in Nat /\ \A m \in messages' : m.n \in Nat
      BY <1>5, <2>2, ClassAnnounces DEF Class!Message
    <3> QED BY <3>1, <3>2
  <2>4. sent' \in 0..MaxSent
    BY <1>5, ClassAnnounces, ZenonT(30)
  <2> QED BY <2>1, <2>2, <2>3, <2>4, ZenonT(30) DEF ClassInv, Class!TypeOK
<1>6. CASE Class!Reopen
  <2>1. opens' \in 1..MaxOpens
    BY <1>6, TabAssumption DEF Class!Reopen, ClassInv, Class!TypeOK
  <2> QED BY <1>6, <2>1, ZenonT(30) DEF Class!Reopen, ClassInv, Class!TypeOK
<1>7. CASE UNCHANGED Class!vars
  BY <1>7, ZenonT(30) DEF Class!vars, Class!page, ClassInv, Class!TypeOK
<1> QED BY <1>1, <1>2, <1>3, <1>4, <1>5, <1>6, <1>7, ZenonT(30) DEF Class!Next

(* An announcement goes to the list, which is between those who always     *)
(* were in the class and those who ever were.                              *)
LEMMA ClassReaches == ASSUME ClassInv, Class!Next PROVE Class!ReachesTheClass
<1>1. CASE Class!sendAnnouncement
  <2>1. loaded => \A s \in always : [n |-> sent', reciever |-> s] \in messages'
    BY <1>1, ClassAnnounces, ZenonT(30) DEF ClassInv
  <2>2. ASSUME NEW m \in messages', m.n = sent' PROVE m.reciever \in ever
    <3>1. m \notin messages
      <4>1. sent' \in Nat
        BY <1>1, ClassAnnounces
      <4>2. ASSUME m \in messages PROVE m.n < sent'
        BY <1>1, <4>2, ClassAnnounces, ZenonT(30)
      <4> QED BY <2>2, <4>1, <4>2
    <3> QED BY <1>1, <2>2, <3>1, ClassAnnounces, ZenonT(30) DEF ClassInv
  <2> QED BY <2>1, <2>2, ZenonT(30) DEF Class!ReachesTheClass
<1>2. CASE ~Class!sendAnnouncement
  <2>1. sent' = sent
    BY <1>2, ZenonT(30)
    DEF Class!Next, Class!Enrol, Class!Withdraw, Class!getStudents, Class!OpenDialog,
        Class!TypeAnnouncement, Class!CloseDialog, Class!Reopen
  <2> QED BY <2>1, ZenonT(30) DEF Class!ReachesTheClass
<1> QED BY <1>1, <1>2, ZenonT(30)

-----------------------------------------------------------------------------
(* The five tabs together: each is opened in its invariant,                *)
LEMMA TabOpens ==
  ASSUME FiniteSetFacts
  PROVE  /\ Shop!Init => ShopInv
         /\ Talk!Init => TalkInv
         /\ Hub!Init => HubInv
         /\ Setting!Init => SettingInv
         /\ Class!Init => ClassInv
BY ShopInit, TalkInit, HubOpens, SettingInit, ClassInit, ZenonT(30)

(* stays in it with every step,                                            *)
LEMMA TabMoves ==
  ASSUME FiniteSetFacts, KeptFacts, AppendFacts
  PROVE  /\ ShopInv /\ (Shop!Next \/ UNCHANGED Shop!vars) => ShopInv'
         /\ TalkInv /\ (Talk!Next \/ UNCHANGED Talk!vars) => TalkInv'
         /\ HubInv /\ (Hub!Next \/ UNCHANGED Hub!vars) => HubInv'
         /\ SettingInv /\ (Setting!Next \/ UNCHANGED Setting!vars) => SettingInv'
         /\ ClassInv /\ (Class!Next \/ UNCHANGED Class!vars) => ClassInv'
BY ShopMoves, TalkMoves, HubMoves, SettingStep, ClassStep, ZenonT(30)

(* and keeps its promises there.                                           *)
LEMMA TabPromises ==
  /\ ShopInv => Shop!TypeOK /\ Shop!ListedOnceWithoutOverlap
  /\ TalkInv => Talk!TypeOK /\ Talk!TextSentOnce /\ Talk!RemovedNotSent
  /\ HubInv => Hub!TypeOK /\ Hub!ShownOnceWithoutOverlap /\ Hub!CategoriesAgree
  /\ SettingInv => Setting!TypeOK
  /\ ClassInv => Class!TypeOK
BY ShopImplies, TalkImplies, HubImplies, SettingImplies, ZenonT(30) DEF ClassInv
=============================================================================
