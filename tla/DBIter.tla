------------------------------- MODULE DBIter ------------------------------
(***************************************************************************)
(* The iterator that a reader of LevelDB gets (db/db_iter.cc), over the    *)
(* merging iterator of the memtables and tables (table/merger.cc).         *)
(*                                                                         *)
(* An entry is <<user key, sequence number, type>>, and its value is its   *)
(* sequence number.  A child of the merging iterator is a sorted sequence  *)
(* of entries; position 0 is not valid.                                    *)
(***************************************************************************)
EXTENDS Naturals, Sequences, SequencesExt

CONSTANTS
  Users,                 \* user keys, positive numbers
  MaxSequence,           \* how many writes there were
  Children               \* of the merging iterator

VARIABLES
  children,              \* their entries
  sequence_,             \* the snapshot that is read
  merger,                \* [pos, current_, direction_] of the merging iterator
  db,                    \* direction_, valid_, saved_key_, saved_value_
  at                     \* the user key the iterator should be at, or 0

vars == <<children, sequence_, merger, db, at>>

Less(a, b) == a[1] < b[1] \/ (a[1] = b[1] /\ a[2] > b[2])

-----------------------------------------------------------------------------
(* table/merger.cc                                                         *)

Entry(m, c) == children[c][m.pos[c]]
ValidChildren(m) == {c \in 1..Children : m.pos[c] # 0}

FindSmallest(m) ==
  LET V == ValidChildren(m)
  IN  [m EXCEPT !.current_ =
        IF V = {} THEN 0
        ELSE CHOOSE c \in V : \A d \in V \ {c} : Less(Entry(m, c), Entry(m, d))]

FindLargest(m) ==
  LET V == ValidChildren(m)
  IN  [m EXCEPT !.current_ =
        IF V = {} THEN 0
        ELSE CHOOSE c \in V : \A d \in V \ {c} : Less(Entry(m, d), Entry(m, c))]

Valid(m) == m.current_ # 0
Key(m) == Entry(m, m.current_)

ChildSeek(c, target) == SelectInSeq(children[c], LAMBDA e : ~Less(e, target))

ChildNext(c, p) == IF p = Len(children[c]) THEN 0 ELSE p + 1

SeekAll(target) ==
  FindSmallest([pos |-> [c \in 1..Children |-> ChildSeek(c, target)],
                current_ |-> 0, direction_ |-> "kForward"])

SeekAllToFirst ==
  FindSmallest([pos |-> [c \in 1..Children |-> IF children[c] = <<>> THEN 0 ELSE 1],
                current_ |-> 0, direction_ |-> "kForward"])

SeekAllToLast ==
  FindLargest([pos |-> [c \in 1..Children |-> Len(children[c])],
               current_ |-> 0, direction_ |-> "kReverse"])

\* When it moved backward, the others are set to what comes after the key first;
\* no two entries are equal.
MergerNext(m) ==
  LET others == IF m.direction_ = "kForward" THEN m.pos
                ELSE [c \in 1..Children |->
                        IF c = m.current_ THEN m.pos[c] ELSE ChildSeek(c, Key(m))]
  IN  FindSmallest([m EXCEPT !.direction_ = "kForward",
                             !.pos = [others EXCEPT ![m.current_] = ChildNext(m.current_, @)]])

\* A slip: the other children stay where the forward direction left them.
MergerPrevStale(m) ==
  FindLargest([m EXCEPT !.direction_ = "kReverse", !.pos[m.current_] = @ - 1])

MergerPrev(m) ==
  LET before(c) == IF ChildSeek(c, Key(m)) # 0 THEN ChildSeek(c, Key(m)) - 1
                   ELSE Len(children[c])
      others == IF m.direction_ = "kReverse" THEN m.pos
                ELSE [c \in 1..Children |-> IF c = m.current_ THEN m.pos[c] ELSE before(c)]
  IN  FindLargest([m EXCEPT !.direction_ = "kReverse",
                            !.pos = [others EXCEPT ![m.current_] = @ - 1]])

-----------------------------------------------------------------------------
(* db/db_iter.cc                                                           *)

Cleared == 0

\* [m, valid]: the next entry to yield, hidden ones skipped.
RECURSIVE FindNextUserEntry(_, _, _)
FindNextUserEntry(m, skipping, skip) ==
  IF ~Valid(m) THEN [m |-> m, valid |-> FALSE]
  ELSE LET e == Key(m) IN
       IF e[2] > sequence_ THEN FindNextUserEntry(MergerNext(m), skipping, skip)
       ELSE IF e[3] = "kTypeDeletion" THEN FindNextUserEntry(MergerNext(m), TRUE, e[1])
       ELSE IF skipping /\ e[1] <= skip THEN FindNextUserEntry(MergerNext(m), skipping, skip)
       ELSE [m |-> m, valid |-> TRUE]

\* The oldest visible entry is met first: a later one of the same key replaces it.
RECURSIVE FindPrevUserEntry(_, _, _, _)
FindPrevUserEntry(m, type, key, value) ==
  LET e == Key(m)
      stop == [m |-> m, valid |-> type # "kTypeDeletion", key |-> key, value |-> value]
  IN  IF ~Valid(m) THEN stop
      ELSE IF e[2] > sequence_ THEN FindPrevUserEntry(MergerPrev(m), type, key, value)
      ELSE IF type # "kTypeDeletion" /\ e[1] < key THEN stop
      ELSE IF e[3] = "kTypeDeletion"
      THEN FindPrevUserEntry(MergerPrev(m), e[3], Cleared, Cleared)
      ELSE FindPrevUserEntry(MergerPrev(m), e[3], e[1], e[2])

\* Backwards until the user key changes.
RECURSIVE BeforeKey(_, _)
BeforeKey(m, key) ==
  LET p == MergerPrev(m)
  IN  IF Valid(p) THEN IF Key(p)[1] < key THEN p ELSE BeforeKey(p, key) ELSE p

Forward(found) ==
  /\ merger' = found.m
  /\ db' = [direction_ |-> "kForward", valid_ |-> found.valid,
            saved_key_ |-> Cleared, saved_value_ |-> db.saved_value_]

Backward(found) ==
  /\ merger' = found.m
  /\ db' = IF found.valid
           THEN [direction_ |-> "kReverse", valid_ |-> TRUE,
                 saved_key_ |-> found.key, saved_value_ |-> found.value]
           ELSE [direction_ |-> "kForward", valid_ |-> FALSE,
                 saved_key_ |-> Cleared, saved_value_ |-> Cleared]

\* What the snapshot shows: the last write of a key decides.
Entries == UNION {ToSet(children[c]) : c \in 1..Children}
Newest(k) == {e \in Entries : /\ e[1] = k /\ e[2] <= sequence_
                              /\ \A f \in Entries : f[1] = k /\ f[2] <= sequence_ => f[2] <= e[2]}
View == {e \in UNION {Newest(k) : k \in Users} : e[3] = "kTypeValue"}
Visible == {e[1] : e \in View}

LeastOf(S) == IF S = {} THEN 0 ELSE CHOOSE k \in S : \A l \in S : k <= l
GreatestOf(S) == IF S = {} THEN 0 ELSE CHOOSE k \in S : \A l \in S : l <= k

-----------------------------------------------------------------------------
Move(position) == at' = position /\ UNCHANGED <<children, sequence_>>

Seek(target) ==
  /\ Forward(FindNextUserEntry(SeekAll(<<target, sequence_, "kTypeValue">>), FALSE, Cleared))
  /\ Move(LeastOf({k \in Visible : k >= target}))

SeekToFirst ==
  Forward(FindNextUserEntry(SeekAllToFirst, FALSE, Cleared)) /\ Move(LeastOf(Visible))

SeekToLast ==
  Backward(FindPrevUserEntry(SeekAllToLast, "kTypeDeletion", Cleared, Cleared))
    /\ Move(GreatestOf(Visible))

MoveNext ==
  /\ db.valid_
  /\ IF db.direction_ = "kForward"
     THEN Forward(FindNextUserEntry(merger, TRUE, Key(merger)[1]))
     ELSE Forward(FindNextUserEntry(IF Valid(merger) THEN MergerNext(merger) ELSE SeekAllToFirst,
                                    TRUE, db.saved_key_))
  /\ Move(LeastOf({k \in Visible : k > at}))

\* With nothing before the key, the direction is left as it was.
MovePrev ==
  /\ db.valid_
  /\ LET m == IF db.direction_ = "kForward" THEN BeforeKey(merger, Key(merger)[1]) ELSE merger
     IN  Backward(FindPrevUserEntry(m, "kTypeDeletion",
                                    IF db.direction_ = "kForward" THEN Key(merger)[1]
                                                                  ELSE db.saved_key_,
                                    db.saved_value_))
  /\ Move(GreatestOf({k \in Visible : k < at}))

Next ==
  \/ SeekToFirst \/ SeekToLast \/ MoveNext \/ MovePrev
  \/ \E k \in 1..(GreatestOf(Users) + 1) : Seek(k)

\* Every write went to the memtable; older ones are in older children.
Writes == [1..MaxSequence -> Users \X {"kTypeValue", "kTypeDeletion"}]

Child(w, first, last) ==
  SetToSortSeq({<<w[s][1], s, w[s][2]>> : s \in first..last}, Less)

Init ==
  /\ \E w \in Writes, cut \in 0..MaxSequence :
       children = <<Child(w, cut + 1, MaxSequence), Child(w, 1, cut)>>
  /\ sequence_ \in (MaxSequence - 1)..MaxSequence
  /\ merger = [pos |-> [c \in 1..Children |-> 0], current_ |-> 0, direction_ |-> "kForward"]
  /\ db = [direction_ |-> "kForward", valid_ |-> FALSE,
           saved_key_ |-> Cleared, saved_value_ |-> Cleared]
  /\ at = 0

Spec == Init /\ [][Next]_vars

-----------------------------------------------------------------------------
\* The iterator is where the snapshot's keys say, whatever moves led there.
AtTheKey ==
  IF at = 0 THEN ~db.valid_
  ELSE /\ db.valid_
       /\ \E e \in View :
            /\ e[1] = at
            /\ IF db.direction_ = "kForward" THEN Key(merger) = e
               ELSE db.saved_key_ = e[1] /\ db.saved_value_ = e[2]
=============================================================================
