------------------------------ MODULE EventData ------------------------------
(***************************************************************************)
(* What the home and calendar pages share: the documents of the events     *)
(* collections and the lists the pages build from them.                    *)
(*                                                                         *)
(* An event is a document, known by its id. A query returns documents in   *)
(* the order of their random ids, so a batch may arrive in any order. Time *)
(* is a small natural number; a page keeps an event when its end is still  *)
(* to come at the moment its document arrives.                             *)
(***************************************************************************)
EXTENDS Integers, Sequences, FiniteSets

CONSTANTS
  Events,      \* the documents of all the events collections
  StartTime,   \* their fields startTime
  EndTime,     \* and endTime
  NchsEvents,  \* the documents of activities/nchs/events
  MaxNow       \* bound: the clock stops here

ASSUME EventAssumption ==
  /\ IsFiniteSet(Events)
  /\ StartTime \in [Events -> Nat]
  /\ EndTime \in [Events -> Nat]
  /\ NchsEvents \subseteq Events
  /\ MaxNow \in Nat

Upcoming(E, now) == {e \in E : EndTime[e] > now}

(* The elements of a list.                                                 *)
Elems(q) == {q[i] : i \in 1..Len(q)}

(* The lists with exactly the elements of S, each once.                    *)
Listings(S) ==
  {q \in [1..Cardinality(S) -> S] :
     /\ \A i, j \in 1..Cardinality(S) : q[i] = q[j] => i = j
     /\ Elems(q) = S}

(* A list after the documents of S were added to it one by one.            *)
WithBatch(q, S) == {q \o r : r \in Listings(S)}

InOrder(q, Key) == \A i, j \in 1..Len(q) : i <= j => Key[q[i]] <= Key[q[j]]

Shuffles(n) == {p \in [1..n -> 1..n] : \A i, j \in 1..n : p[i] = p[j] => i = j}

(* List.sort by a key: a reordering of the list in which the keys ascend.  *)
(* Dart does not say which one when keys are equal.                        *)
Sorts(q, Key) ==
  {r \in {[i \in 1..Len(q) |-> q[p[i]]] : p \in Shuffles(Len(q))} : InOrder(r, Key)}

(* List.where: q without what is not in S, in the same order. The n-th      *)
(* that is left is the one up to which n are left.                         *)
Kept(q, S) ==
  LET at == {i \in 1..Len(q) : q[i] \in S}
      upTo(i) == Cardinality({j \in at : j <= i})
  IN [n \in 1..Cardinality(at) |-> q[CHOOSE i \in at : upTo(i) = n]]

ByEndTime(q) == InOrder(q, EndTime)

OnlyOnce(q) == \A i, j \in 1..Len(q) : q[i] = q[j] => i = j
-----------------------------------------------------------------------------
(* What adding, sorting and filtering do to a list, and one more element   *)
(* to a set (proved in EventDataProofs).                                   *)
BatchFacts ==
  \A T : \A q \in Seq(T) : \A S \in SUBSET T : IsFiniteSet(S) => \A r \in WithBatch(q, S) :
    /\ r \in Seq(T) /\ Elems(r) = Elems(q) \cup S
    /\ OnlyOnce(q) /\ Elems(q) \cap S = {} => OnlyOnce(r)
    /\ S = {} => r = q

SortFacts ==
  \A T : \A q \in Seq(T) : \A Key : \A r \in Sorts(q, Key) :
    /\ r \in Seq(T) /\ Len(r) = Len(q) /\ Elems(r) = Elems(q)
    /\ OnlyOnce(q) => OnlyOnce(r)
    /\ InOrder(r, Key)

KeptFacts ==
  \A T : \A q \in Seq(T) : \A S :
    /\ Kept(q, S) \in Seq(T) /\ Elems(Kept(q, S)) = Elems(q) \cap S
    /\ q = <<>> => Kept(q, S) = <<>>
    /\ OnlyOnce(q) => OnlyOnce(Kept(q, S))

AppendFacts ==
  \A T : \A q \in Seq(T) : \A x \in T :
    /\ Append(q, x) \in Seq(T) /\ Elems(Append(q, x)) = Elems(q) \cup {x}
    /\ OnlyOnce(q) /\ x \notin Elems(q) => OnlyOnce(Append(q, x))

FiniteSetFacts ==
  /\ \A S, x : IsFiniteSet(S) /\ x \notin S =>
       IsFiniteSet(S \cup {x}) /\ Cardinality(S \cup {x}) = Cardinality(S) + 1
  /\ \A S, T : IsFiniteSet(S) /\ T \subseteq S => IsFiniteSet(T)
  /\ IsFiniteSet({}) /\ Cardinality({}) = 0
  /\ \A n \in Nat : IsFiniteSet(1..n)
  /\ \A S : S \subseteq Events => IsFiniteSet(S)
  /\ \A f, S : S \subseteq {f[e] : e \in Events} => IsFiniteSet(S)
=============================================================================
