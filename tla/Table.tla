------------------------------- MODULE Table -------------------------------
(***************************************************************************)
(* A sorted table of LevelDB: how it is built (table/table_builder.cc,     *)
(* block_builder.cc, filter_block.cc) and read (table/table.cc, block.cc,  *)
(* two_level_iterator.cc) with the comparators of dbformat.cc and          *)
(* util/comparator.cc.                                                     *)
(*                                                                         *)
(* An internal key is the user key followed by its sequence number, as one *)
(* last byte.  An entry of a block takes one byte and those of its key     *)
(* that it does not share with the one before; offsets within a block are  *)
(* the numbers of its entries.                                             *)
(***************************************************************************)
EXTENDS Naturals, Sequences, SequencesExt

CONSTANTS
  UserKeys,              \* byte strings
  MaxSequence,           \* above every sequence number in use
  Top,                   \* the greatest byte of a user key
  block_restart_interval, block_size,
  kFilterBase,
  BloomHash(_)           \* where a user key is found in a filter

VARIABLES
  builder,               \* TableBuilder::Rep and the file it writes
  failAt,                \* the block whose write fails, or 0
  table,                 \* the opened table, or Closed
  iter,                  \* the iterator of the table
  at,                    \* the number of the key it should be at, or 0
  got                    \* [key, found] of the last Get

vars == <<builder, failAt, table, iter, at, got>>

Closed == [index |-> <<>>, blocks |-> <<>>, filters |-> <<>>]

NothingGot == [key |-> <<>>, found |-> <<>>]

-----------------------------------------------------------------------------
(* Comparators                                                             *)

\* How many first bytes two strings have in common.
Common(s, t) ==
  CHOOSE n \in 0..Len(s) :
    /\ n <= Len(t) /\ \A i \in 1..n : s[i] = t[i]
    /\ n < Len(s) /\ n < Len(t) => s[n + 1] # t[n + 1]

LexLess(s, t) ==
  LET n == Common(s, t) IN n < Len(t) /\ (n < Len(s) => s[n + 1] < t[n + 1])

ExtractUserKey(k) == Front(k)
Sequence(k) == Last(k)

Less(k, l) ==
  LET u == ExtractUserKey(k)
      v == ExtractUserKey(l)
  IN  IF u = v THEN Sequence(k) > Sequence(l) ELSE LexLess(u, v)

InternalKeys == {Append(u, s) : u \in UserKeys, s \in 1..(MaxSequence - 1)}

ShortestUserSeparator(start, limit) ==
  LET n == Common(start, limit) IN
  IF n < Len(start) /\ n < Len(limit) /\ start[n + 1] + 1 < limit[n + 1]
  THEN Append(SubSeq(start, 1, n), start[n + 1] + 1)
  ELSE start

ShortUserSuccessor(key) ==
  LET n == SelectInSeq(key, LAMBDA byte : byte # Top) IN
  IF n = 0 THEN key ELSE Append(SubSeq(key, 1, n - 1), key[n] + 1)

\* A shorter and greater user key gets the earliest number there is.
Shortened(key, user) ==
  IF Len(user) < Len(ExtractUserKey(key)) /\ LexLess(ExtractUserKey(key), user)
  THEN Append(user, MaxSequence) ELSE key

FindShortestSeparator(start, limit) ==
  Shortened(start, ShortestUserSeparator(ExtractUserKey(start), ExtractUserKey(limit)))

FindShortSuccessor(key) == Shortened(key, ShortUserSuccessor(ExtractUserKey(key)))

-----------------------------------------------------------------------------
(* Blocks                                                                  *)

EmptyBlock == [entries |-> <<>>, restarts |-> <<1>>, counter |-> 0, last_key |-> <<>>]

BlockAdd(b, interval, key, value) ==
  LET restart == b.counter >= interval
      shared == IF restart THEN 0 ELSE Common(b.last_key, key)
  IN  [entries |-> Append(b.entries, [shared |-> shared, value |-> value,
                                      delta |-> SubSeq(key, shared + 1, Len(key))]),
       restarts |-> IF restart THEN Append(b.restarts, Len(b.entries) + 1) ELSE b.restarts,
       counter |-> (IF restart THEN 0 ELSE b.counter) + 1,
       last_key |-> key]

CurrentSizeEstimate(b) ==
  FoldLeft(LAMBDA n, e : n + 1 + Len(e.delta), Len(b.restarts) + 1, b.entries)

\* Block::Iter: next is where ParseNextKey continues.
Done(b) == [current |-> Len(b.entries) + 1, restart |-> Len(b.restarts) + 1,
            next |-> Len(b.entries) + 1, key |-> <<>>]

BlockValid(b, it) == it.current <= Len(b.entries)

SeekToRestartPoint(b, it, i) ==
  [it EXCEPT !.key = <<>>, !.restart = i, !.next = b.restarts[i]]

\* An entry that shares more than there is, is a corruption.
ParseNextKey(b, it) ==
  IF it.next > Len(b.entries) \/ Len(it.key) < b.entries[it.next].shared THEN Done(b)
  ELSE LET e == b.entries[it.next] IN
       [current |-> it.next, next |-> it.next + 1,
        key |-> SubSeq(it.key, 1, e.shared) \o e.delta,
        restart |-> CHOOSE r \in it.restart..Len(b.restarts) :
                      /\ \A s \in (it.restart + 1)..r : b.restarts[s] < it.next
                      /\ r = Len(b.restarts) \/ b.restarts[r + 1] >= it.next]

RECURSIVE ParseTo(_, _, _)
ParseTo(b, it, last) ==
  LET n == ParseNextKey(b, it)
  IN  IF BlockValid(b, n) /\ n.next <= last THEN ParseTo(b, n, last) ELSE n

BlockSeekToFirst(b) ==
  ParseNextKey(b, SeekToRestartPoint(b, Done(b), 1))

BlockSeekToLast(b) ==
  ParseTo(b, SeekToRestartPoint(b, Done(b), Len(b.restarts)), Len(b.entries))

BlockPrev(b, it) ==
  LET before == {r \in 1..it.restart : b.restarts[r] < it.current}
  IN  IF before = {} THEN Done(b)
      ELSE ParseTo(b, SeekToRestartPoint(b, it, CHOOSE r \in before : \A s \in before : s <= r),
                   it.current - 1)

\* The last restart point with a key before the target.
RECURSIVE BinarySearch(_, _, _, _)
BinarySearch(b, target, left, right) ==
  IF left >= right THEN left
  ELSE LET mid == (left + right + 1) \div 2
       IN  IF Less(b.entries[b.restarts[mid]].delta, target)
           THEN BinarySearch(b, target, mid, right)
           ELSE BinarySearch(b, target, left, mid - 1)

RECURSIVE LinearSearch(_, _, _)
LinearSearch(b, it, target) ==
  LET n == ParseNextKey(b, it)
  IN  IF BlockValid(b, n) /\ Less(n.key, target) THEN LinearSearch(b, n, target) ELSE n

BlockSeek(b, target) ==
  LinearSearch(b, SeekToRestartPoint(b, Done(b), BinarySearch(b, target, 1, Len(b.restarts))),
               target)

BlockEntry(b, it) == [key |-> it.key, value |-> b.entries[it.current].value]

-----------------------------------------------------------------------------
(* The builder                                                             *)

NoBuilder ==
  [ok |-> TRUE, closed |-> FALSE, offset |-> 0, file |-> <<>>, keys |-> <<>>,
   data_block |-> EmptyBlock, index_block |-> EmptyBlock, last_key |-> <<>>,
   pending |-> FALSE, handle |-> 0, filters |-> <<>>, start |-> {}]

\* One filter for every kFilterBase bytes of the file, with the keys since the last one.
RECURSIVE GenerateFilters(_, _)
GenerateFilters(b, n) ==
  IF n <= Len(b.filters) THEN b
  ELSE GenerateFilters([b EXCEPT !.filters = Append(@, {BloomHash(ExtractUserKey(k)) : k \in b.start}),
                                 !.start = {}], n)

\* A slip: a filter is made for every block.
OneFilterPerBlock(b) == GenerateFilters(b, Len(b.filters) + 1)

StartBlock(b) == GenerateFilters(b, b.offset \div kFilterBase)

AddIndexEntry(b, key) ==
  [b EXCEPT !.index_block = BlockAdd(@, 1, key, b.handle), !.last_key = key, !.pending = FALSE]

\* A block is found by its offset in the file.
WriteBlock(b, block) ==
  IF Len(b.file) + 1 = failAt THEN [b EXCEPT !.ok = FALSE]
  ELSE [b EXCEPT !.handle = b.offset,
                 !.file = Append(@, [offset |-> b.offset, block |-> block]),
                 !.offset = @ + CurrentSizeEstimate(block) + 1]

Flush(b) ==
  IF ~b.ok \/ b.data_block.entries = <<>> THEN b
  ELSE LET w == WriteBlock(b, b.data_block)
       IN  StartBlock([w EXCEPT !.pending = w.ok, !.data_block = EmptyBlock])

Add(k) ==
  /\ ~builder.closed /\ builder.ok
  /\ builder.keys # <<>> => Less(Last(builder.keys), k)
  /\ LET indexed == IF builder.pending
                    THEN AddIndexEntry(builder, FindShortestSeparator(builder.last_key, k))
                    ELSE builder
         added == [indexed EXCEPT !.start = @ \cup {k}, !.last_key = k, !.keys = Append(@, k),
                                  !.data_block = BlockAdd(@, block_restart_interval, k, k)]
     IN  builder' = IF CurrentSizeEstimate(added.data_block) >= block_size
                    THEN Flush(added) ELSE added
  /\ UNCHANGED <<failAt, table, iter, at, got>>

\* The filters, the index and the footer are written last.
Finish ==
  /\ ~builder.closed /\ builder.keys # <<>>
  /\ LET flushed == Flush(builder)
         filtered == IF flushed.start = {} THEN flushed
                     ELSE GenerateFilters(flushed, Len(flushed.filters) + 1)
         indexed == IF flushed.pending
                    THEN AddIndexEntry(filtered, FindShortSuccessor(filtered.last_key))
                    ELSE filtered
     IN  builder' = [(IF flushed.ok THEN indexed ELSE flushed) EXCEPT
                       !.closed = TRUE, !.ok = @ /\ Len(flushed.file) + 1 # failAt]
  /\ UNCHANGED <<failAt, table, iter, at, got>>

-----------------------------------------------------------------------------
(* Reading                                                                 *)

\* A two-level iterator: the place in the index, and in the block it names.
Start == [index |-> 0, block |-> 0, data |-> 0]

\* BuildTable opens the file that was finished.
Open ==
  /\ builder.closed /\ builder.ok /\ table = Closed
  /\ table' = [index |-> builder.index_block, blocks |-> builder.file, filters |-> builder.filters]
  /\ iter' = [index |-> Done(builder.index_block), block |-> 0, data |-> 0]
  /\ UNCHANGED <<builder, failAt, at, got>>

BlockAt(offset) ==
  (CHOOSE i \in DOMAIN table.blocks : table.blocks[i].offset = offset)

Block(i) == table.blocks[i].block

IndexValid(i) == BlockValid(table.index, i)

\* BlockReader: the block that the index entry names.
BlockReader(i) == IF IndexValid(i) THEN BlockAt(BlockEntry(table.index, i).value) ELSE 0

TableValid(it) == IF it.block = 0 THEN FALSE ELSE BlockValid(Block(it.block), it.data)

RECURSIVE SkipEmptyDataBlocksForward(_)
SkipEmptyDataBlocksForward(it) ==
  IF TableValid(it) THEN it
  ELSE IF ~IndexValid(it.index) THEN [it EXCEPT !.block = 0, !.data = 0]
  ELSE LET i == ParseNextKey(table.index, it.index)
           b == BlockReader(i)
       IN  SkipEmptyDataBlocksForward(
             [index |-> i, block |-> b, data |-> IF b = 0 THEN 0 ELSE BlockSeekToFirst(Block(b))])

RECURSIVE SkipEmptyDataBlocksBackward(_)
SkipEmptyDataBlocksBackward(it) ==
  IF TableValid(it) THEN it
  ELSE IF ~IndexValid(it.index) THEN [it EXCEPT !.block = 0, !.data = 0]
  ELSE LET i == BlockPrev(table.index, it.index)
           b == BlockReader(i)
       IN  SkipEmptyDataBlocksBackward(
             [index |-> i, block |-> b, data |-> IF b = 0 THEN 0 ELSE BlockSeekToLast(Block(b))])

Positions == DOMAIN builder.keys

\* The greatest or least position of a set, or 0.
FirstOf(S) == IF S = {} THEN 0 ELSE CHOOSE i \in S : \A j \in S : i <= j
LastOf(S) == IF S = {} THEN 0 ELSE CHOOSE i \in S : \A j \in S : j <= i

MoveTo(it, position) ==
  /\ table # Closed /\ iter' = it /\ at' = position /\ got' = NothingGot
  /\ UNCHANGED <<builder, failAt, table>>

Seek(k) ==
  LET i == BlockSeek(table.index, k)
      b == BlockReader(i)
  IN  MoveTo(SkipEmptyDataBlocksForward(
               [index |-> i, block |-> b, data |-> IF b = 0 THEN 0 ELSE BlockSeek(Block(b), k)]),
             FirstOf({p \in Positions : ~Less(builder.keys[p], k)}))

SeekToFirst ==
  LET i == BlockSeekToFirst(table.index)
      b == BlockReader(i)
  IN  MoveTo(SkipEmptyDataBlocksForward(
               [index |-> i, block |-> b, data |-> IF b = 0 THEN 0 ELSE BlockSeekToFirst(Block(b))]),
             FirstOf(Positions))

SeekToLast ==
  LET i == BlockSeekToLast(table.index)
      b == BlockReader(i)
  IN  MoveTo(SkipEmptyDataBlocksBackward(
               [index |-> i, block |-> b, data |-> IF b = 0 THEN 0 ELSE BlockSeekToLast(Block(b))]),
             LastOf(Positions))

MoveNext ==
  /\ at # 0
  /\ MoveTo(SkipEmptyDataBlocksForward([iter EXCEPT !.data = ParseNextKey(Block(iter.block), @)]),
            FirstOf({p \in Positions : p > at}))

MovePrev ==
  /\ at # 0
  /\ MoveTo(SkipEmptyDataBlocksBackward([iter EXCEPT !.data = BlockPrev(Block(iter.block), @)]),
            LastOf({p \in Positions : p < at}))

KeyMayMatch(offset, k) ==
  LET i == (offset \div kFilterBase) + 1
  IN  i \in DOMAIN table.filters => BloomHash(ExtractUserKey(k)) \in table.filters[i]

InternalGet(k) ==
  LET i == BlockSeek(table.index, k)
      b == BlockReader(i)
      d == BlockSeek(Block(b), k)
  IN  IF b = 0 THEN <<>>
      ELSE IF ~KeyMayMatch(table.blocks[b].offset, k) THEN <<>>
      ELSE IF ~BlockValid(Block(b), d) THEN <<>>
      ELSE <<BlockEntry(Block(b), d)>>

Get(k) ==
  /\ table # Closed /\ at = 0
  /\ got' = [key |-> k, found |-> InternalGet(k)]
  /\ UNCHANGED <<builder, failAt, table, iter, at>>

MaxFail == 3

Init ==
  /\ builder = NoBuilder /\ failAt \in 0..MaxFail
  /\ table = Closed /\ iter = Start /\ at = 0 /\ got = NothingGot

Next ==
  \/ Finish \/ Open
  \/ \E k \in InternalKeys : Add(k)
  \/ SeekToFirst \/ SeekToLast \/ MoveNext \/ MovePrev
  \/ \E k \in InternalKeys : Seek(k) \/ Get(k)

Spec == Init /\ [][Next]_vars

-----------------------------------------------------------------------------
\* The iterator of a finished table visits the keys that were added, in their
\* order, from wherever it was set and in either direction.
VisitsWhatWasAdded ==
  table # Closed =>
    IF at = 0 THEN ~TableValid(iter)
    ELSE /\ TableValid(iter)
         /\ BlockEntry(Block(iter.block), iter.data) =
              [key |-> builder.keys[at], value |-> builder.keys[at]]

\* A lookup finds the newest entry of the user key that is not newer than asked
\* for, and otherwise nothing with that user key.
GetFindsNewest ==
  got # NothingGot =>
    LET p == FirstOf({q \in Positions : ~Less(builder.keys[q], got.key)})
    IN  IF p # 0 /\ ExtractUserKey(builder.keys[p]) = ExtractUserKey(got.key)
        THEN got.found = <<[key |-> builder.keys[p], value |-> builder.keys[p]]>>
        ELSE \A i \in DOMAIN got.found :
               ExtractUserKey(got.found[i].key) # ExtractUserKey(got.key)
=============================================================================
