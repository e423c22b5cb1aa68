--------------------------- MODULE EventDataProofs ---------------------------
(***************************************************************************)
(* What the lists of EventData have after a batch was added to them and    *)
(* after they were sorted, for lists of any length.                        *)
(***************************************************************************)
EXTENDS EventData, FunctionTheorems, FiniteSetTheorems, TLAPS

(* How a step that names no prover is proved: the translation of a large   *)
(* context for SMT may run out of its time, and then it is tried again.    *)
USE SMTT(30), ZenonT(30), SMTT(40)

(* A batch lists a set: its list has an element of the set at every        *)
(* position, all of them, and none twice.                                  *)
LEMMA ListingIsList ==
  ASSUME NEW T, NEW S \in SUBSET T, IsFiniteSet(S), NEW q \in Listings(S)
  PROVE  /\ q \in Seq(T)
         /\ Len(q) = Cardinality(S)
         /\ Cardinality(S) \in Nat
         /\ Elems(q) = S
         /\ OnlyOnce(q)
<1>1. Cardinality(S) \in Nat
  BY FS_CardinalityType, ZenonT(30)
<1>2. q \in [1..Cardinality(S) -> S] /\ Elems(q) = S
      /\ \A i, j \in 1..Cardinality(S) : q[i] = q[j] => i = j
  BY ZenonT(30) DEF Listings
<1>3. q \in Seq(T) /\ Len(q) = Cardinality(S)
  BY <1>1, <1>2
<1>4. QED
  BY <1>1, <1>2, <1>3, ZenonT(30) DEF OnlyOnce

(* Adding a list to a list adds its elements.                              *)
LEMMA ConcatElems ==
  ASSUME NEW T, NEW q \in Seq(T), NEW r \in Seq(T)
  PROVE  Elems(q \o r) = Elems(q) \cup Elems(r)
<1>1. /\ Len(q) \in Nat /\ Len(r) \in Nat /\ Len(q \o r) = Len(q) + Len(r)
      /\ \A i \in 1..Len(q) : (q \o r)[i] = q[i]
      /\ \A i \in Len(q)+1..Len(q)+Len(r) : (q \o r)[i] = r[i - Len(q)]
  OBVIOUS
<1>2. Elems(q \o r) \subseteq Elems(q) \cup Elems(r)
  <2> SUFFICES ASSUME NEW i \in 1..Len(q \o r)
               PROVE  (q \o r)[i] \in Elems(q) \cup Elems(r)
    BY ZenonT(30) DEF Elems
  <2>1. CASE i <= Len(q)
    BY <1>1, <2>1 DEF Elems
  <2>2. CASE i > Len(q)
    <3>1. i - Len(q) \in 1..Len(r)
      BY <1>1, <2>2
    <3>2. QED
      BY <1>1, <2>2, <3>1 DEF Elems
  <2>3. QED
    BY <1>1, <2>1, <2>2
<1>3. Elems(q) \subseteq Elems(q \o r)
  BY <1>1 DEF Elems
<1>4. Elems(r) \subseteq Elems(q \o r)
  <2> SUFFICES ASSUME NEW i \in 1..Len(r)
               PROVE  r[i] \in Elems(q \o r)
    BY ZenonT(30) DEF Elems
  <2>1. Len(q) + i \in 1..Len(q \o r) /\ (q \o r)[Len(q) + i] = r[i]
    BY <1>1
  <2>2. QED
    BY <2>1, ZenonT(30) DEF Elems
<1>5. QED
  BY <1>2, <1>3, <1>4, ZenonT(30)

(* Lists without repetition that have nothing in common make one without.  *)
LEMMA ConcatOnce ==
  ASSUME NEW T, NEW q \in Seq(T), NEW r \in Seq(T),
         OnlyOnce(q), OnlyOnce(r), Elems(q) \cap Elems(r) = {}
  PROVE  OnlyOnce(q \o r)
<1>1. /\ Len(q) \in Nat /\ Len(r) \in Nat /\ Len(q \o r) = Len(q) + Len(r)
      /\ \A i \in 1..Len(q) : (q \o r)[i] = q[i]
      /\ \A i \in Len(q)+1..Len(q)+Len(r) : (q \o r)[i] = r[i - Len(q)]
  OBVIOUS
<1>2. SUFFICES ASSUME NEW i \in 1..Len(q \o r), NEW j \in 1..Len(q \o r),
                      (q \o r)[i] = (q \o r)[j]
               PROVE  i = j
  BY ZenonT(30) DEF OnlyOnce
<1>3. \A k \in 1..Len(q \o r) :
        IF k <= Len(q) THEN (q \o r)[k] = q[k] /\ q[k] \in Elems(q)
        ELSE k - Len(q) \in 1..Len(r) /\ (q \o r)[k] = r[k - Len(q)] /\ r[k - Len(q)] \in Elems(r)
  <2>1. \A k \in 1..Len(q \o r) :
          IF k <= Len(q) THEN k \in 1..Len(q)
          ELSE k \in Len(q)+1..Len(q)+Len(r) /\ k - Len(q) \in 1..Len(r)
    BY <1>1
  <2>2. /\ \A k \in 1..Len(q) : q[k] \in Elems(q)
        /\ \A k \in 1..Len(r) : r[k] \in Elems(r)
    BY ZenonT(30) DEF Elems
  <2> QED BY <1>1, <2>1, <2>2, ZenonT(30)
<1>4. CASE i <= Len(q) /\ j <= Len(q)
  BY <1>1, <1>2, <1>3, <1>4 DEF OnlyOnce
<1>5. CASE i > Len(q) /\ j > Len(q)
  <2>1. r[i - Len(q)] = r[j - Len(q)] /\ i - Len(q) \in 1..Len(r) /\ j - Len(q) \in 1..Len(r)
    BY <1>1, <1>2, <1>3, <1>5
  <2>2. i - Len(q) = j - Len(q)
    BY <2>1, ZenonT(30) DEF OnlyOnce
  <2>3. QED
    BY <1>1, <2>2
<1>6. CASE i <= Len(q) /\ j > Len(q)
  BY <1>1, <1>2, <1>3, <1>6
<1>7. CASE i > Len(q) /\ j <= Len(q)
  BY <1>1, <1>2, <1>3, <1>7
<1>8. QED
  BY <1>1, <1>4, <1>5, <1>6, <1>7

(* The documents of a query are added to a list (List.add in a loop): its  *)
(* elements are the old ones and those of the answer, and none is there    *)
(* twice unless it was in both.                                            *)
LEMMA BatchAdded ==
  ASSUME NEW T, NEW q \in Seq(T), NEW S \in SUBSET T, IsFiniteSet(S),
         NEW r \in WithBatch(q, S)
  PROVE  /\ r \in Seq(T)
         /\ Elems(r) = Elems(q) \cup S
         /\ OnlyOnce(q) /\ Elems(q) \cap S = {} => OnlyOnce(r)
<1>1. PICK b \in Listings(S) : r = q \o b
  BY ZenonT(30) DEF WithBatch
<1>2. b \in Seq(T) /\ Elems(b) = S /\ OnlyOnce(b)
  BY ListingIsList, ZenonT(30)
<1>3. r \in Seq(T)
  BY <1>1, <1>2
<1>4. Elems(r) = Elems(q) \cup S
  BY <1>1, <1>2, ConcatElems
<1>5. OnlyOnce(q) /\ Elems(q) \cap S = {} => OnlyOnce(r)
  BY <1>1, <1>2, ConcatOnce, ZenonT(30)
<1>6. QED
  BY <1>3, <1>4, <1>5, ZenonT(30)

(* So with the events of an answer, of which there are finitely many.      *)
LEMMA EventsAdded ==
  ASSUME NEW q \in Seq(Events), NEW S \in SUBSET Events, NEW r \in WithBatch(q, S)
  PROVE  /\ r \in Seq(Events)
         /\ Elems(r) = Elems(q) \cup S
         /\ OnlyOnce(q) /\ Elems(q) \cap S = {} => OnlyOnce(r)
<1>1. IsFiniteSet(S)
  BY EventAssumption, FS_Subset, ZenonT(30)
<1>2. QED
  BY <1>1, BatchAdded, ZenonT(30)

(* List.sort loses and repeats nothing and puts the list in order: a       *)
(* reordering of finitely many positions that is one-to-one is onto.       *)
LEMMA SortedList ==
  ASSUME NEW T, NEW q \in Seq(T), NEW Key, NEW r \in Sorts(q, Key)
  PROVE  /\ r \in Seq(T)
         /\ Len(r) = Len(q)
         /\ Elems(r) = Elems(q)
         /\ OnlyOnce(q) => OnlyOnce(r)
         /\ InOrder(r, Key)
<1>1. PICK n \in Nat : n = Len(q) /\ q \in [1..n -> T]
  OBVIOUS
<1>2. PICK p \in Shuffles(n) : r = [i \in 1..n |-> q[p[i]]]
  BY <1>1, ZenonT(30) DEF Sorts
<1>3. p \in [1..n -> 1..n] /\ \A i, j \in 1..n : p[i] = p[j] => i = j
  BY ZenonT(30) DEF Shuffles
<1>4. \A k \in 1..n : \E i \in 1..n : p[i] = k
  <2>1. p \in Injection(1..n, 1..n)
    BY <1>3, Fun_IsInj, ZenonT(30)
  <2>2. IsFiniteSet(1..n)
    BY <1>1, FS_Interval
  <2>3. p \in Surjection(1..n, 1..n)
    BY <2>1, <2>2, FS_Injection, ZenonT(30)
  <2>4. QED
    BY <2>3, ZenonT(30) DEF Surjection
<1>5. r \in [1..n -> T] /\ \A i \in 1..n : r[i] = q[p[i]]
  BY <1>1, <1>2, <1>3, ZenonT(30)
<1>6. r \in Seq(T) /\ Len(r) = n
  BY <1>1, <1>5
<1>7. Elems(r) = Elems(q)
  <2>1. Elems(r) \subseteq Elems(q)
    <3>1. \A i \in 1..n : q[p[i]] \in Elems(q)
      BY <1>1, <1>3, ZenonT(30) DEF Elems
    <3> SUFFICES ASSUME NEW x \in Elems(r) PROVE x \in Elems(q)
      BY ZenonT(30)
    <3>2. PICK i \in 1..n : x = r[i]
      BY <1>6, ZenonT(30) DEF Elems
    <3> QED BY <1>5, <3>1, <3>2, ZenonT(30)
  <2>2. Elems(q) \subseteq Elems(r)
    <3> SUFFICES ASSUME NEW k \in 1..n
                 PROVE  q[k] \in Elems(r)
      BY <1>1, ZenonT(30) DEF Elems
    <3>1. PICK i \in 1..n : p[i] = k
      BY <1>4, ZenonT(30)
    <3>2. QED
      BY <1>5, <1>6, <3>1, ZenonT(30) DEF Elems
  <2>3. QED
    BY <2>1, <2>2, ZenonT(30)
<1>8. OnlyOnce(q) => OnlyOnce(r)
  <2> SUFFICES ASSUME OnlyOnce(q), NEW i \in 1..n, NEW j \in 1..n, r[i] = r[j]
               PROVE  i = j
    BY <1>6, ZenonT(30) DEF OnlyOnce
  <2>1. p[i] \in 1..n /\ p[j] \in 1..n /\ q[p[i]] = q[p[j]]
    BY <1>3, <1>5, ZenonT(30)
  <2>2. p[i] = p[j]
    BY <1>1, <2>1, ZenonT(30) DEF OnlyOnce
  <2> QED BY <1>3, <2>2, ZenonT(30)
<1>9. InOrder(r, Key)
  BY ZenonT(30) DEF Sorts
<1>10. QED
  BY <1>1, <1>6, <1>7, <1>8, <1>9, ZenonT(30)

(* List.where keeps the elements that pass the test, each as often as it   *)
(* was there: the positions that are left are numbered without a gap.      *)
LEMMA KeptList ==
  ASSUME NEW T, NEW q \in Seq(T), NEW S
  PROVE  /\ Kept(q, S) \in Seq(T)
         /\ q = <<>> => Kept(q, S) = <<>>
         /\ Elems(Kept(q, S)) = Elems(q) \cap S
         /\ OnlyOnce(q) => OnlyOnce(Kept(q, S))
<1> DEFINE at == {i \in 1..Len(q) : q[i] \in S}
           below(i) == {j \in at : j <= i}
           upTo(i) == Cardinality(below(i))
           c == Cardinality(at)
<1>1. PICK n \in Nat : n = Len(q) /\ q \in [1..n -> T]
  OBVIOUS
<1>2. IsFiniteSet(at) /\ c \in Nat
  <2>1. IsFiniteSet(1..n)
    BY <1>1, FS_Interval
  <2>2. at \subseteq 1..n
    BY <1>1
  <2> QED BY <2>1, <2>2, FS_Subset, FS_CardinalityType, ZenonT(30)
<1>3. \A i \in at : upTo(i) \in 1..c
  <2> SUFFICES ASSUME NEW i \in at PROVE upTo(i) \in 1..c
    BY ZenonT(30)
  <2>1. below(i) \subseteq at /\ i \in below(i)
    BY <1>1
  <2>2. IsFiniteSet(below(i)) /\ upTo(i) \in Nat /\ upTo(i) <= c
    BY <1>2, <2>1, FS_Subset, FS_CardinalityType, ZenonT(30)
  <2>3. upTo(i) # 0
    BY <2>1, <2>2, FS_EmptySet, ZenonT(30)
  <2>4. \A a, b \in Nat : a # 0 /\ a <= b => a \in 1..b
    OBVIOUS
  <2> QED BY <1>2, <2>2, <2>3, <2>4, ZenonT(30)
<1>4. \A i, j \in at : upTo(i) = upTo(j) => i = j
  <2>1. ASSUME NEW i \in at, NEW j \in at, i < j, upTo(i) = upTo(j) PROVE FALSE
    <3>1. below(i) \subseteq below(j) /\ j \in below(j) /\ j \notin below(i)
      BY <1>1, <2>1
    <3>2. IsFiniteSet(below(j))
      BY <1>2, FS_Subset, ZenonT(30)
    <3> QED BY <2>1, <3>1, <3>2, FS_Subset, ZenonT(30)
  <2>2. at \subseteq Nat
    BY <1>1
  <2> QED BY <2>1, <2>2
<1>5. \A k \in 1..c : \E i \in at : upTo(i) = k
  <2> DEFINE f == [i \in at |-> upTo(i)]
  <2>1. f \in [at -> 1..c] /\ \A i \in at : f[i] = upTo(i)
    BY <1>3, ZenonT(30)
  <2> HIDE DEF f
  <2>2. f \in Injection(at, 1..c)
    <3>1. \A i, j \in at : f[i] = f[j] => i = j
      BY <1>4, <2>1, ZenonT(30)
    <3> QED BY <2>1, <3>1, Fun_IsInj, ZenonT(30)
  <2>3. IsFiniteSet(1..c) /\ Cardinality(1..c) = c
    BY <1>2, FS_Interval
  <2>4. f \in Surjection(at, 1..c)
    BY <1>2, <2>2, <2>3, FS_Injection, ZenonT(30)
  <2> QED BY <2>1, <2>4, ZenonT(30) DEF Surjection
<1> DEFINE pos(k) == CHOOSE i \in at : upTo(i) = k
<1>6. \A k \in 1..c : pos(k) \in at /\ upTo(pos(k)) = k
  BY <1>5, ZenonT(30)
<1>7. Kept(q, S) = [k \in 1..c |-> q[pos(k)]]
  BY ZenonT(30) DEF Kept
<1> HIDE DEF pos, c, upTo
<1>8. \A k \in 1..c : Kept(q, S)[k] = q[pos(k)] /\ pos(k) \in 1..n
  BY <1>1, <1>6, <1>7
<1>9. Kept(q, S) \in Seq(T) /\ Len(Kept(q, S)) = c
  BY <1>1, <1>2, <1>7, <1>8
<1>10. q = <<>> => Kept(q, S) = <<>>
  <2> SUFFICES ASSUME q = <<>> PROVE Kept(q, S) = <<>>
    OBVIOUS
  <2>1. at = {}
    OBVIOUS
  <2>2. c = 0
    BY <2>1, FS_EmptySet DEF c
  <2> QED BY <1>9, <2>2
<1>11. Elems(Kept(q, S)) = Elems(q) \cap S
  <2>1. ASSUME NEW k \in 1..c PROVE Kept(q, S)[k] \in Elems(q) \cap S
    BY <1>1, <1>6, <1>8 DEF Elems
  <2>2. ASSUME NEW i \in 1..n, q[i] \in S PROVE q[i] \in Elems(Kept(q, S))
    <3>1. i \in at
      BY <1>1, <2>2
    <3>2. upTo(i) \in 1..c /\ pos(upTo(i)) = i
      BY <1>3, <1>4, <1>6, <3>1
    <3> QED BY <1>8, <1>9, <3>2 DEF Elems
  <2>3. Elems(Kept(q, S)) \subseteq Elems(q) \cap S
    BY <1>9, <2>1, ZenonT(30) DEF Elems
  <2>4. Elems(q) \cap S \subseteq Elems(Kept(q, S))
    BY <1>1, <2>2, ZenonT(30) DEF Elems
  <2> QED BY <2>3, <2>4, ZenonT(30)
<1>12. OnlyOnce(q) => OnlyOnce(Kept(q, S))
  <2> SUFFICES ASSUME OnlyOnce(q), NEW k \in 1..c, NEW m \in 1..c, Kept(q, S)[k] = Kept(q, S)[m]
               PROVE  k = m
    BY <1>9 DEF OnlyOnce
  <2>1. pos(k) = pos(m)
    BY <1>1, <1>8 DEF OnlyOnce
  <2> QED BY <1>6, <2>1
<1> QED BY <1>9, <1>10, <1>11, <1>12

(* List.add.                                                               *)
LEMMA AppendList ==
  ASSUME NEW T, NEW q \in Seq(T), NEW x \in T
  PROVE  /\ Append(q, x) \in Seq(T)
         /\ Elems(Append(q, x)) = Elems(q) \cup {x}
         /\ OnlyOnce(q) /\ x \notin Elems(q) => OnlyOnce(Append(q, x))
<1>1. PICK n \in Nat : n = Len(q) /\ q \in [1..n -> T]
  OBVIOUS
<1>2. /\ Append(q, x) \in Seq(T) /\ Len(Append(q, x)) = n + 1 /\ Append(q, x)[n + 1] = x
      /\ \A i \in 1..n : Append(q, x)[i] = q[i]
  BY <1>1
<1>3. Elems(Append(q, x)) = Elems(q) \cup {x}
  <2>1. \A i \in 1..n + 1 : i \in 1..n \/ i = n + 1
    BY <1>1
  <2>2. n + 1 \in 1..n + 1 /\ 1..n \subseteq 1..n + 1
    BY <1>1
  <2> QED BY <1>1, <1>2, <2>1, <2>2 DEF Elems
<1>4. OnlyOnce(q) /\ x \notin Elems(q) => OnlyOnce(Append(q, x))
  BY <1>1, <1>2 DEF OnlyOnce, Elems
<1> QED BY <1>2, <1>3, <1>4, ZenonT(30)

(* The empty batch.                                                        *)
LEMMA NothingAdded ==
  ASSUME NEW T, NEW q \in Seq(T), NEW r \in WithBatch(q, {})
  PROVE  r = q
<1>1. PICK b \in Listings({}) : r = q \o b
  BY ZenonT(30) DEF WithBatch
<1>2. b \in Seq(T) /\ Len(b) = 0
  <2>1. IsFiniteSet({}) /\ Cardinality({}) = 0
    BY FS_EmptySet, ZenonT(30)
  <2>2. b \in Seq(T) /\ Len(b) = Cardinality({})
    BY <2>1, ListingIsList, ZenonT(30)
  <2> QED BY <2>1, <2>2, ZenonT(30)
<1>3. b = <<>>
  BY <1>2
<1> QED BY <1>1, <1>3

(* All of it together.                                                     *)
LEMMA Lists == BatchFacts /\ SortFacts /\ KeptFacts /\ AppendFacts
<1>1. BatchFacts
  <2> SUFFICES ASSUME NEW T, NEW q \in Seq(T), NEW S \in SUBSET T, IsFiniteSet(S),
                      NEW r \in WithBatch(q, S)
               PROVE  /\ r \in Seq(T) /\ Elems(r) = Elems(q) \cup S
                      /\ OnlyOnce(q) /\ Elems(q) \cap S = {} => OnlyOnce(r)
                      /\ S = {} => r = q
    BY ZenonT(30) DEF BatchFacts
  <2>1. S = {} => r = q
    BY NothingAdded, ZenonT(30)
  <2>2. /\ r \in Seq(T) /\ Elems(r) = Elems(q) \cup S
        /\ OnlyOnce(q) /\ Elems(q) \cap S = {} => OnlyOnce(r)
    BY BatchAdded
  <2> QED BY <2>1, <2>2, ZenonT(30)
<1>2. SortFacts
  BY SortedList, ZenonT(30) DEF SortFacts
<1>3. KeptFacts
  BY KeptList, ZenonT(30) DEF KeptFacts
<1>4. AppendFacts
  <2> SUFFICES ASSUME NEW T, NEW q \in Seq(T), NEW x \in T
               PROVE  /\ Append(q, x) \in Seq(T) /\ Elems(Append(q, x)) = Elems(q) \cup {x}
                      /\ OnlyOnce(q) /\ x \notin Elems(q) => OnlyOnce(Append(q, x))
    BY ZenonT(30) DEF AppendFacts
  <2> QED BY AppendList
<1> QED BY <1>1, <1>2, <1>3, <1>4, ZenonT(30)

(* One more element, a part of a finite set, a set of events or of what is *)
(* made of events.                                                         *)
LEMMA FiniteSetsOf == FiniteSetFacts
<1>1. \A S, x : IsFiniteSet(S) /\ x \notin S =>
        IsFiniteSet(S \cup {x}) /\ Cardinality(S \cup {x}) = Cardinality(S) + 1
  BY FS_AddElement
<1>2. \A S, T : IsFiniteSet(S) /\ T \subseteq S => IsFiniteSet(T)
  BY FS_Subset, ZenonT(30)
<1>3. IsFiniteSet({}) /\ Cardinality({}) = 0
  BY FS_EmptySet, ZenonT(30)
<1>7. \A n \in Nat : IsFiniteSet(1..n)
  BY FS_Interval
<1>4. \A S : S \subseteq Events => IsFiniteSet(S)
  BY <1>2, EventAssumption, ZenonT(30)
<1>5. \A f : IsFiniteSet({f[e] : e \in Events})
  <2> SUFFICES ASSUME NEW f PROVE IsFiniteSet({f[e] : e \in Events})
    OBVIOUS
  <2> DEFINE g == [e \in Events |-> f[e]]
             R == {f[e] : e \in Events}
  <2>1. g \in Surjection(Events, R)
    BY ZenonT(30) DEF Surjection
  <2> QED BY <2>1, EventAssumption, FS_Surjection, ZenonT(30)
<1>6. \A f, S : S \subseteq {f[e] : e \in Events} => IsFiniteSet(S)
  BY <1>2, <1>5, ZenonT(30)
<1> QED BY <1>1, <1>2, <1>3, <1>4, <1>6, <1>7, ZenonT(30) DEF FiniteSetFacts
=============================================================================
