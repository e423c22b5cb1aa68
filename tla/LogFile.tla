------------------------------ MODULE LogFile ------------------------------
(***************************************************************************)
(* The format of the logs and manifests of leveldb (db/log_writer.cc,      *)
(* db/log_reader.cc): records cut into fragments so that none crosses the  *)
(* end of a block, written one fragment at a time, and read back after the *)
(* file lost its tail, had a byte damaged, or is read from the middle.     *)
(*                                                                         *)
(* A file is a sequence of cells. A header is one cell each for checksum,  *)
(* length and type, which makes kHeaderSize 3; a checksum is the pair of   *)
(* the type and the payload it was made of. A record is a sequence of the  *)
(* number it is the n-th record of.                                        *)
(***************************************************************************)
EXTENDS Naturals, Sequences, SequencesExt

CONSTANTS
  kBlockSize,
  Sizes,         \* the sizes of records
  MaxRecords,    \* bound: records of a file
  Zero, Damaged  \* a cell of padding, a cell that lost its value

kHeaderSize == 3

VARIABLES
  phase,         \* "write", "read", "end"
  file,
  sizes,         \* sizes of the records added so far
  starts,        \* where the first fragment of each begins
  left, begin,   \* AddRecord: cells still to be written, none written yet
  ends,          \* where the fragments of each record written to its end end
  fault,         \* [kind, at]: "none", "torn", "damaged", or "from" an offset
  \* the Reader
  buffer, at,    \* buffer_; how much of the file was read
  eof, resyncing, skipped,
  inside, scratch,       \* in_fragmented_record, scratch
  output, drops          \* records returned; how often a corruption was reported

written == <<file, sizes, starts, left, begin, ends>>
reader == <<buffer, at, eof, resyncing, skipped, inside, scratch, output, drops>>
vars == <<phase, written, fault, reader>>

Init ==
  /\ phase = "write" /\ file = <<>> /\ sizes = <<>> /\ starts = <<>> /\ left = 0
  /\ begin = FALSE /\ ends = <<>> /\ fault = [kind |-> "none", at |-> 0]
  /\ buffer = <<>> /\ at = 0 /\ eof = FALSE /\ resyncing = FALSE /\ skipped = FALSE
  /\ inside = FALSE /\ scratch = <<>> /\ output = <<>> /\ drops = 0

Cells(c, n) == [i \in 1..n |-> c]

-----------------------------------------------------------------------------
(* Writer: block_offset_ is the length of the file in the current block.   *)

AddRecord(n) ==
  /\ phase = "write" /\ left = 0 /\ ~begin /\ Len(sizes) < MaxRecords
  /\ sizes' = Append(sizes, n) /\ left' = n /\ begin' = TRUE
  /\ UNCHANGED <<phase, file, starts, ends, fault, reader>>

FragmentType(first, last) ==
  IF first THEN IF last THEN "full" ELSE "first" ELSE IF last THEN "last" ELSE "middle"

\* The padding of a block too short for a header.
Trailer ==
  LET leftover == kBlockSize - (Len(file) % kBlockSize)
  IN  IF leftover < kHeaderSize THEN Cells(Zero, leftover) ELSE <<>>

\* One turn of the loop: EmitPhysicalRecord of the next fragment.
Emit ==
  /\ phase = "write" /\ (begin \/ left > 0)
  /\ LET before == file \o Trailer
         offset == Len(before) % kBlockSize
         avail == kBlockSize - offset - kHeaderSize
         length == IF left < avail THEN left ELSE avail
         type == FragmentType(begin, left = length)
         payload == Cells(Len(sizes), length)
     IN  /\ file' = before \o << <<type, payload>>, length, type >> \o payload
         /\ starts' = IF begin THEN Append(starts, Len(before)) ELSE starts
         /\ left' = left - length /\ begin' = FALSE
         /\ ends' = IF left = length THEN Append(ends, Len(file')) ELSE ends
  /\ UNCHANGED <<phase, sizes, fault, reader>>

-----------------------------------------------------------------------------
(* What happens to the file before it is read.                             *)

Open(f) ==
  /\ phase = "write" /\ phase' = "read"
  /\ fault' = f /\ resyncing' = (f.kind = "from" /\ f.at > 0)
  /\ UNCHANGED <<buffer, at, eof, skipped, inside, scratch, output, drops,
                 sizes, starts, left, begin, ends>>

\* The process or the machine died: any part of the tail is missing.
Tear ==
  \E n \in 0..Len(file) :
    Open([kind |-> "torn", at |-> n]) /\ file' = SubSeq(file, 1, n)

Damage ==
  \E i \in DOMAIN file :
    /\ left = 0 /\ ~begin
    /\ Open([kind |-> "damaged", at |-> i - 1]) /\ file' = [file EXCEPT ![i] = Damaged]

ReadFrom ==
  \E n \in 0..Len(file) :
    /\ left = 0 /\ ~begin
    /\ Open([kind |-> "from", at |-> n]) /\ UNCHANGED file

InitialOffset == IF fault.kind = "from" THEN fault.at ELSE 0

-----------------------------------------------------------------------------
(* Reader                                                                  *)

Reading == phase = "read" /\ (InitialOffset = 0 \/ skipped)

\* SkipToInitialBlock, in the first ReadRecord. Skip past the end stays at it.
SkipToInitialBlock ==
  /\ phase = "read" /\ InitialOffset > 0 /\ ~skipped
  /\ LET inBlock == InitialOffset % kBlockSize
         start == InitialOffset - inBlock
                    + (IF inBlock > kBlockSize - (kHeaderSize - 1) THEN kBlockSize ELSE 0)
     IN  at' = IF start < Len(file) THEN start ELSE Len(file)
  /\ skipped' = TRUE
  /\ UNCHANGED <<phase, written, fault, buffer, eof, resyncing, inside, scratch, output,
                 drops>>

\* ReadPhysicalRecord refills its buffer.
Fill ==
  /\ Reading /\ Len(buffer) < kHeaderSize /\ ~eof
  /\ buffer' = SubSeq(file, at + 1, IF at + kBlockSize < Len(file) THEN at + kBlockSize
                                                                  ELSE Len(file))
  /\ at' = at + Len(buffer') /\ eof' = (Len(buffer') < kBlockSize)
  /\ UNCHANGED <<phase, written, fault, resyncing, skipped, inside, scratch, output, drops>>

\* A damaged length reads as anything.
Lengths(c) == IF c = Damaged THEN 0..kBlockSize ELSE IF c = Zero THEN {0} ELSE {c}

\* What ReadPhysicalRecord returns, with the buffer it leaves and whether it
\* reports a drop.
Result(type, fragment, rest, drop) ==
  [type |-> type, fragment |-> fragment, rest |-> rest, drop |-> drop]

PhysicalRecord(length) ==
  LET fragment == SubSeq(buffer, kHeaderSize + 1, kHeaderSize + length)
      rest == SubSeq(buffer, kHeaderSize + length + 1, Len(buffer))
  IN  IF kHeaderSize + length > Len(buffer)
      THEN Result(IF eof THEN "eof" ELSE "bad", <<>>, <<>>, ~eof)
      ELSE IF buffer[3] = Zero /\ length = 0 THEN Result("bad", <<>>, <<>>, FALSE)
      ELSE IF buffer[1] # <<buffer[3], fragment>> \/ buffer[2] = Damaged
      THEN Result("bad", <<>>, <<>>, TRUE)
      ELSE IF at - Len(rest) - kHeaderSize - length < InitialOffset
      THEN Result("bad", <<>>, rest, FALSE)
      ELSE Result(buffer[3], fragment, rest, FALSE)

ReadPhysicalRecord ==
  IF Len(buffer) < kHeaderSize THEN {Result("eof", <<>>, <<>>, FALSE)}
  ELSE {PhysicalRecord(n) : n \in Lengths(buffer[2])}

Report(yes) == drops' = IF yes THEN drops + 1 ELSE drops

\* A slip: the fragments from before the bad record are kept.
TakeBadAndGoOn(r) == Report(r.drop \/ inside) /\ UNCHANGED <<scratch, inside>>

TakeBad(r) == scratch' = <<>> /\ inside' = FALSE /\ Report(r.drop \/ inside)

\* The switch of ReadRecord, for a physical record r that is not skipped.
Take(r) ==
  CASE r.type = "full" ->
         /\ output' = Append(output, r.fragment) /\ scratch' = <<>> /\ inside' = FALSE
         /\ Report(r.drop \/ (inside /\ scratch # <<>>)) /\ UNCHANGED phase
    [] r.type = "first" ->
         /\ scratch' = r.fragment /\ inside' = TRUE
         /\ Report(inside /\ scratch # <<>>) /\ UNCHANGED <<output, phase>>
    [] r.type = "middle" ->
         /\ scratch' = IF inside THEN scratch \o r.fragment ELSE scratch
         /\ Report(~inside) /\ UNCHANGED <<inside, output, phase>>
    [] r.type = "last" ->
         /\ output' = IF inside THEN Append(output, scratch \o r.fragment) ELSE output
         /\ scratch' = <<>> /\ inside' = FALSE
         /\ Report(~inside) /\ UNCHANGED phase
    [] r.type = "eof" ->
         /\ phase' = "end" /\ scratch' = <<>> /\ inside' = FALSE
         /\ Report(r.drop) /\ UNCHANGED output
    [] r.type = "bad" -> TakeBad(r) /\ UNCHANGED <<output, phase>>

\* One turn of the loop of ReadRecord; its caller reads until it returns false.
ReadRecord ==
  /\ Reading /\ (Len(buffer) >= kHeaderSize \/ eof)
  /\ \E r \in ReadPhysicalRecord :
       /\ buffer' = r.rest
       /\ IF resyncing /\ r.type \in {"middle", "last"}
          THEN resyncing' = (r.type = "middle") /\ UNCHANGED <<phase, inside, scratch, output, drops>>
          ELSE resyncing' = FALSE /\ Take(r)
  /\ UNCHANGED <<written, fault, at, eof, skipped>>

Next ==
  \/ \E n \in Sizes : AddRecord(n)
  \/ Emit \/ Tear \/ Damage \/ ReadFrom
  \/ SkipToInitialBlock \/ Fill \/ ReadRecord

Spec == Init /\ [][Next]_vars

-----------------------------------------------------------------------------
Record(i) == Cells(i, sizes[i])

BlockOf(offset) == offset \div kBlockSize

\* The damaged cell and what the reader drops with it: the rest of its block.
Hit(i) ==
  /\ BlockOf(starts[i]) <= BlockOf(fault.at)
  /\ BlockOf(ends[i] - 1) >= BlockOf(fault.at)

\* A reader returns the records that were completely written, in their order:
\* of a torn file those whose last fragment is there, from an offset on those
\* that begin there or later, of a damaged file at least those with no
\* fragment in the damaged block; never a record made of pieces of two.  Only
\* damage is reported.
ReadsBack ==
  phase = "end" =>
    LET wanted(i) == CASE fault.kind = "torn" -> ends[i] <= fault.at
                       [] fault.kind = "from" -> starts[i] >= fault.at
                       [] fault.kind = "damaged" -> ~Hit(i)
        whole == SelectSeq([i \in DOMAIN ends |-> i], wanted)
        expected == [k \in DOMAIN whole |-> Record(whole[k])]
    IN  /\ fault.kind # "damaged" => output = expected
        /\ fault.kind = "damaged" =>
             /\ \E kept \in SUBSET DOMAIN ends :
                  /\ {i \in DOMAIN ends : ~Hit(i)} \subseteq kept
                  /\ LET seq == SetToSortSeq(kept, <) IN
                     output = [k \in DOMAIN seq |-> Record(seq[k])]
        /\ fault.kind = "torn" => drops = 0
=============================================================================
