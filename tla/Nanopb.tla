------------------------------- MODULE Nanopb -------------------------------
(***************************************************************************)
(* Protocol buffers as Firestore writes and reads them (nanopb:            *)
(* pb_encode.c, pb_decode.c, pb_common.c), for the kinds of fields that    *)
(* its generated descriptors use.  A field is a record: tag; label         *)
(* ("singular", "optional" with a has_ flag, "repeated", "oneof"); type    *)
(* ("bool", "varint", "uvarint", "fixed", "bytes", "message"); bits, its   *)
(* data_size; fields, those of a message.  Bytes and arrays are allocated, *)
(* the rest is part of the struct.                                         *)
(*                                                                         *)
(* A message maps every tag to its values: none or one for an optional,    *)
(* a oneof or bytes (a null pointer), exactly one for other singular       *)
(* fields, and any number for a repeated one.  Words are scaled down:      *)
(* Bits64 and Bits32 stand for 64 and 32 bits, kFixed bytes for a double.  *)
(***************************************************************************)
EXTENDS Integers, Sequences, SequencesExt, FiniteSets

CONSTANTS
  Schema,       \* the fields of the message that is read
  Writer,       \* the fields of the message that is written: Schema and more
  Messages,     \* messages to write
  Bits64, Bits32, kFixed,
  MaxMessages   \* bound: messages written to one stream

VARIABLES
  wire,      \* the bytes written
  ends,      \* the places in wire where a field ends
  want,      \* the message they mean
  got,       \* what pb_decode made of them
  written    \* messages written

vars == <<wire, ends, want, got, written>>

-----------------------------------------------------------------------------
(* Messages.                                                               *)

IsPointer(f) == f.type = "bytes" \/ f.label = "repeated"

Packable(f) == f.type \in {"bool", "varint", "uvarint", "fixed"}

Field(fields, tag) == fields[CHOOSE i \in DOMAIN fields : fields[i].tag = tag]

Tags(fields) == {fields[i].tag : i \in DOMAIN fields}

\* pb_message_set_to_defaults
RECURSIVE Defaults(_)
Defaults(fields) ==
  LET Default(f) == IF f.label # "singular" \/ IsPointer(f) THEN <<>>
                    ELSE IF f.type = "message" THEN <<Defaults(f.fields)>> ELSE <<0>>
  IN FoldLeft(LAMBDA m, f : m @@ f.tag :> Default(f), <<>>, fields)

OneofTags(fields) == {t \in Tags(fields) : Field(fields, t).label = "oneof"}

\* The blocks of memory that belong to a message: one for bytes, one for an
\* array, and those inside.  A pointer is null exactly when the field has no
\* values.
RECURSIVE Blocks(_, _)
BlocksOf(f, values) ==
  LET Inside(v) == IF f.type = "message" THEN Blocks(f.fields, v)
                   ELSE IF f.type = "bytes" THEN 1 ELSE 0
  IN (IF f.label = "repeated" /\ values # <<>> THEN 1 ELSE 0)
     + FoldLeft(LAMBDA n, v : n + Inside(v), 0, values)
Blocks(fields, m) ==
  FoldLeft(LAMBDA n, f : n + BlocksOf(f, m[f.tag]), 0, fields)

-----------------------------------------------------------------------------
(* Writing.                                                                *)

RECURSIVE Varint(_)
Varint(v) == IF v < 128 THEN <<v>> ELSE <<128 + (v % 128)>> \o Varint(v \div 128)

\* A negative number is written as the unsigned 64 bit number it is cast to.
Unsigned(v) == IF v < 0 THEN v + 2^Bits64 ELSE v

WireType(f) ==
  CASE f.type \in {"bool", "varint", "uvarint"} -> 0
    [] f.type = "fixed" -> 1
    [] OTHER -> 2

Tag(f, wiretype) == Varint(f.tag * 8 + wiretype)

RECURSIVE Little(_, _)
Little(v, n) == IF n = 0 THEN <<>> ELSE <<v % 256>> \o Little(v \div 256, n - 1)

\* pb_check_proto3_default_value; a pointer that is not null is not default.
RECURSIVE IsDefault(_, _)
IsDefault(f, values) ==
  IF f.label = "singular" /\ ~IsPointer(f)
  THEN IF f.type = "message"
       THEN \A i \in DOMAIN f.fields : IsDefault(f.fields[i], values[1][f.fields[i].tag])
       ELSE values[1] = 0
  ELSE values = <<>>

\* The size of a value, by the sizing stream: lengths are not written but
\* their size is counted.
RECURSIVE SizeOf(_, _)
MessageSize(fields, m) ==
  FoldLeft(LAMBDA n, f : n +
    LET tag == Len(Tag(f, WireType(f)))
        values == m[f.tag]
        sizes == FoldLeft(LAMBDA k, v : k + SizeOf(f, v), 0, values)
    IN IF IsDefault(f, values) THEN 0
       ELSE IF f.label = "repeated" /\ Packable(f) THEN tag + Len(Varint(sizes)) + sizes
       ELSE Len(values) * tag + sizes, 0, fields)
SizeOf(f, v) ==
  CASE f.type \in {"bool", "varint", "uvarint"} -> Len(Varint(Unsigned(v)))
    [] f.type = "fixed" -> kFixed
    [] f.type = "bytes" -> Len(Varint(Len(v))) + Len(v)
    [] f.type = "message" -> LET n == MessageSize(f.fields, v) IN Len(Varint(n)) + n

\* pb_encode, one element for each tag that is written.
RECURSIVE Encode(_, _)
EncodeValue(f, v) ==
  CASE f.type \in {"bool", "varint", "uvarint"} -> Varint(Unsigned(v))
    [] f.type = "fixed" -> Little(v, kFixed)
    [] f.type = "bytes" -> Varint(Len(v)) \o v
    [] f.type = "message" -> Varint(MessageSize(f.fields, v)) \o FlattenSeq(Encode(f.fields, v))
EncodeField(f, values) ==
  IF IsDefault(f, values) THEN <<>>
  ELSE IF f.label = "repeated" /\ Packable(f)
  THEN << Tag(f, 2) \o Varint(FoldLeft(LAMBDA n, v : n + SizeOf(f, v), 0, values))
          \o FoldLeft(LAMBDA s, v : s \o EncodeValue(f, v), <<>>, values) >>
  ELSE FoldLeft(LAMBDA s, v : Append(s, Tag(f, WireType(f)) \o EncodeValue(f, v)), <<>>, values)
Encode(fields, m) ==
  FoldLeft(LAMBDA s, f : s \o EncodeField(f, m[f.tag]), <<>>, fields)

-----------------------------------------------------------------------------
(* Reading: every decoder returns whether it went well, the value, and     *)
(* what is left of the input.                                              *)

Fail == [ok |-> FALSE, v |-> 0, rest |-> <<>>]

Ok(v, rest) == [ok |-> TRUE, v |-> v, rest |-> rest]

\* pb_decode_varint
RECURSIVE Varint64From(_, _, _)
Varint64From(in, bitpos, result) ==
  IF bitpos >= Bits64 \/ in = <<>> THEN Fail
  ELSE LET b == Head(in)
           r == (result + (b % 128) * 2^bitpos) % 2^Bits64
       IN IF b >= 128 THEN Varint64From(Tail(in), bitpos + 7, r) ELSE Ok(r, Tail(in))

DecodeVarint(in) == Varint64From(in, 0, 0)

\* pb_decode_varint32: what is beyond the word must be a sign extension.
Overflows(b, bitpos, result) ==
  LET sign == IF bitpos < Bits64 - 1 THEN 255 ELSE 1
  IN IF bitpos >= Bits32 THEN b % 128 # 0 /\ (result < 2^(Bits32 - 1) \/ b # sign)
     ELSE bitpos + 7 >= Bits32 /\ b < 128 /\ b >= 2^(Bits32 - bitpos)

RECURSIVE Varint32From(_, _, _)
Varint32From(in, bitpos, result) ==
  IF in = <<>> THEN Fail
  ELSE IF Overflows(Head(in), bitpos, result) THEN Fail
  ELSE LET b == Head(in)
           r == IF bitpos >= Bits32 THEN result
                ELSE (result + (b % 128) * 2^bitpos) % 2^Bits32
       IN IF b >= 128 THEN Varint32From(Tail(in), bitpos + 7, r) ELSE Ok(r, Tail(in))

DecodeVarint32(in) == Varint32From(in, 0, 0)

Take(in, n) == IF Len(in) < n THEN Fail ELSE Ok(SubSeq(in, 1, n), SubSeq(in, n + 1, Len(in)))

\* pb_make_string_substream and pb_close_string_substream, and pb_dec_bytes.
TakeAll(n) == IF n.ok THEN Take(n.rest, n.v) ELSE Fail
Substream(in) == TakeAll(DecodeVarint32(in))

RECURSIVE SkipVarint(_)
SkipVarint(in) ==
  IF in = <<>> THEN Fail ELSE IF Head(in) >= 128 THEN SkipVarint(Tail(in)) ELSE Ok(0, Tail(in))

\* pb_skip_field
SkipField(in, wiretype) ==
  CASE wiretype = 0 -> SkipVarint(in)
    [] wiretype = 1 -> Take(in, kFixed)
    [] wiretype = 2 -> Substream(in)
    [] OTHER -> Fail

Signed(v, bits) == IF v % 2^bits >= 2^(bits - 1) THEN (v % 2^bits) - 2^bits ELSE v % 2^bits

RECURSIVE Big(_)
Big(s) == IF s = <<>> THEN 0 ELSE Head(s) + 256 * Big(Tail(s))

\* The decoders of the values that are not allocated.
Scalar(f, r) ==
  CASE ~r.ok -> Fail
    [] r.ok /\ f.type = "bool" -> [r EXCEPT !.v = IF @ # 0 THEN 1 ELSE 0]
    [] r.ok /\ f.type = "varint" -> [r EXCEPT !.v = Signed(@, f.bits)]
    [] r.ok /\ f.type = "uvarint" -> IF r.v < 2^f.bits THEN r ELSE Fail
    [] r.ok /\ f.type = "fixed" -> [r EXCEPT !.v = Big(@)]
DecodeScalar(f, in) ==
  Scalar(f, IF f.type = "bool" THEN DecodeVarint32(in)
            ELSE IF f.type = "fixed" THEN Take(in, kFixed) ELSE DecodeVarint(in))

\* The state of pb_decode_noinit: the input left, the struct, and the blocks
\* allocated for it so far.  partial counts arrays that were allocated
\* for a first entry that then failed.
State(in, m) == [ok |-> TRUE, in |-> in, msg |-> m, blocks |-> 0, partial |-> 0]

Set(s, f, values, rest, blocks) ==
  [s EXCEPT !.in = rest, !.msg[f.tag] = values, !.blocks = @ + blocks]

\* A slip: what another member of the oneof has allocated is forgotten.
ForgetUnionField(s, fields, f) ==
  LET old == {t \in OneofTags(fields) \ {f.tag} : s.msg[t] # <<>>}
  IN IF old = {} THEN s ELSE [s EXCEPT !.msg[CHOOSE t \in old : TRUE] = <<>>]

\* pb_release_union_field
ReleaseUnionField(s, fields, f) ==
  LET old == {t \in OneofTags(fields) \ {f.tag} : s.msg[t] # <<>>}
  IN IF old = {} THEN s
     ELSE LET t == CHOOSE t \in old : TRUE
          IN [s EXCEPT !.msg[t] = <<>>, !.blocks = @ - BlocksOf(Field(fields, t), s.msg[t])]

RECURSIVE Decode(_, _)

\* Packed entries, from a substream of their own; the array is allocated
\* with the first.
RECURSIVE DecodePacked(_, _, _, _)
PackedEntry(f, values, r) ==
  IF r.ok THEN DecodePacked(f, Append(values, r.v), r.rest, TRUE)
  ELSE [ok |-> FALSE, values |-> values, tried |-> TRUE]
DecodePacked(f, values, in, tried) ==
  IF in = <<>> THEN [ok |-> TRUE, values |-> values, tried |-> tried]
  ELSE PackedEntry(f, values, DecodeScalar(f, in))

StorePacked(s, f, r, array, rest) ==
  LET new == IF r.tried THEN array ELSE 0
  IN [Set(s, f, r.values, rest, new) EXCEPT
        !.ok = r.ok, !.partial = IF r.values = <<>> THEN @ + new ELSE @]

StoreScalar(s, f, r, values, array) ==
  IF r.ok THEN Set(s, f, values \o <<r.v>>, r.rest, array)
  ELSE [s EXCEPT !.ok = FALSE, !.blocks = @ + array, !.partial = @ + array]

\* A message inside another one: a new entry of an array starts from its
\* defaults and is released when it fails, others are merged into.
StoreMessage(s, f, d, values, array, rest) ==
  LET release == f.label = "repeated" /\ ~d.ok
  IN [s EXCEPT !.in = rest, !.ok = d.ok,
               !.msg[f.tag] = Append(values, IF release THEN Defaults(f.fields) ELSE d.msg),
               !.partial = @ + (IF release THEN 0 ELSE d.partial),
               !.blocks = @ + array + (IF release THEN 0 ELSE d.blocks)]

\* decode_field: decode_static_field and decode_pointer_field.  kept are the
\* values that stay, sub the substream if the value has a length.
DecodeInto(s, f, wiretype, kept, sub) ==
  LET repeated == f.label = "repeated"
      array == IF repeated /\ kept = <<>> THEN 1 ELSE 0
      old == s.msg[f.tag]
      packed == repeated /\ wiretype = 2
  IN CASE Packable(f) /\ ~packed -> StoreScalar(s, f, DecodeScalar(f, s.in), kept, array)
       [] Packable(f) /\ packed ->
            IF sub.ok THEN StorePacked(s, f, DecodePacked(f, kept, sub.v, FALSE), array, sub.rest)
            ELSE [s EXCEPT !.ok = FALSE]
       [] f.type = "bytes" ->
            StoreScalar(s, f, sub, kept, array + IF sub.ok /\ (repeated \/ old = <<>>) THEN 1 ELSE 0)
       [] f.type = "message" ->
            IF sub.ok
            THEN StoreMessage(s, f,
                   Decode(f.fields, State(sub.v, IF repeated \/ old = <<>> THEN Defaults(f.fields)
                                                 ELSE old[1])), kept, array, sub.rest)
            ELSE [s EXCEPT !.ok = FALSE, !.blocks = @ + array, !.partial = @ + array]

DecodeField(s, f, wiretype) ==
  DecodeInto(s, f, wiretype, IF f.label = "repeated" THEN s.msg[f.tag] ELSE <<>>, Substream(s.in))

Skipped(s, r) == [s EXCEPT !.ok = r.ok, !.in = r.rest]

\* The field of a tag, or a field that is not known.
DecodeTagged(fields, s, tag) ==
  LET f == Field(fields, tag \div 8) IN
  IF tag \div 8 \in Tags(fields)
  THEN DecodeField(IF f.label = "oneof" THEN ReleaseUnionField(s, fields, f) ELSE s, f, tag % 8)
  ELSE Skipped(s, SkipField(s.in, tag % 8))

\* pb_decode_noinit
DecodeRest(fields, s, tag) ==
  IF ~tag.ok THEN [s EXCEPT !.ok = FALSE]
  ELSE IF tag.v = 0 THEN [s EXCEPT !.in = <<>>]
  ELSE Decode(fields, DecodeTagged(fields, [s EXCEPT !.in = tag.rest], tag.v))
Decode(fields, s) ==
  IF s.in = <<>> \/ ~s.ok THEN s ELSE DecodeRest(fields, s, DecodeVarint32(s.in))

\* pb_release, of what is in the struct.
Released(fields, s) == s.blocks - (Blocks(fields, s.msg) + s.partial)

\* pb_decode: a message that fails is released.
pb_decode(fields, in) ==
  LET s == Decode(fields, State(in, Defaults(fields)))
  IN [ok |-> s.ok, msg |-> IF s.ok THEN s.msg ELSE Defaults(fields),
      left |-> Released(fields, s)]

-----------------------------------------------------------------------------
(* What protocol buffers promise of messages written one after the other.  *)

RECURSIVE Merge(_, _, _)
MergeField(fields, f, a, b) ==
  LET x == a[f.tag]
      y == b[f.tag]
      other == \E t \in OneofTags(fields) \ {f.tag} : b[t] # <<>>
  IN IF f.label = "repeated" THEN x \o y
     ELSE IF f.label = "oneof" /\ other THEN <<>>
     ELSE IF IsDefault(f, y) THEN x
     ELSE IF f.type = "message" /\ x # <<>> THEN <<Merge(f.fields, x[1], y[1])>>
     ELSE y
Merge(fields, a, b) ==
  FoldLeft(LAMBDA m, f : m @@ f.tag :> MergeField(fields, f, a, b), <<>>, fields)

Known(m) == [t \in Tags(Schema) |-> m[t]]

-----------------------------------------------------------------------------
Init ==
  /\ wire = <<>> /\ ends = <<0>> /\ written = 0
  /\ want = Defaults(Schema) /\ got = pb_decode(Schema, <<>>)

Write(m) ==
  /\ want # <<>> /\ written < MaxMessages /\ written' = written + 1
  /\ LET chunks == Encode(Writer, m)
     IN /\ wire' = wire \o FlattenSeq(chunks)
        /\ ends' = FoldLeft(LAMBDA e, c : Append(e, Last(e) + Len(c)), ends, chunks)
  /\ want' = Merge(Schema, want, Known(m))
  /\ got' = pb_decode(Schema, wire')

\* The stream ends early; what was meant is no longer known.
Cut(n) ==
  /\ want # <<>> /\ n < Len(wire)
  /\ wire' = SubSeq(wire, 1, n) /\ want' = <<>> /\ UNCHANGED <<ends, written>>
  /\ got' = pb_decode(Schema, wire')

Next == \/ \E m \in Messages : Write(m)
        \/ \E n \in 0..Len(wire) : Cut(n)

Spec == Init /\ [][Next]_vars

-----------------------------------------------------------------------------
\* What is read is what was written: all fields of all messages, merged by
\* the rules of protocol buffers, without those the reader does not know; and
\* input that ends inside a field is refused.
ReadsWhatWasWritten ==
  IF want # <<>> THEN got.ok /\ got.msg = want
  ELSE got.ok <=> Len(wire) \in ToSet(ends)

\* Every block that was allocated is either reachable from the message that
\* was read or was released, also when reading fails half way.
NothingLeaks == got.left = 0
=============================================================================
