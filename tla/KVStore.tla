------------------------------ MODULE KVStore -------------------------------
(***************************************************************************)
(* What the persistent store of the Firestore client (leveldb) promises:   *)
(* the writes take effect one group after the other, in one order that     *)
(* only grows, until a crash loses some of them, but none that its caller  *)
(* asked to sync and was told is done. A write that was under way when the *)
(* crash came may take effect or not; nothing else appears.                *)
(***************************************************************************)
EXTENDS Naturals, Sequences, FiniteSets

VARIABLES log,     \* the writes that took effect, in order
          durable  \* the ids of the writes acknowledged with sync

kvVars == <<log, durable>>

Ids(s) == {s[i].id : i \in DOMAIN s}

IsPrefix(s, t) == Len(s) <= Len(t) /\ SubSeq(t, 1, Len(s)) = s

Init == log = <<>> /\ durable = {}

Write ==
  /\ IsPrefix(log, log') /\ Len(log) < Len(log')
  /\ Ids(SubSeq(log', Len(log) + 1, Len(log'))) \cap Ids(log) = {}
  /\ durable \subseteq durable' /\ durable' \subseteq durable \cup Ids(log')

Crash ==
  /\ durable \subseteq Ids(log')
  /\ IsPrefix(SelectSeq(log, LAMBDA w : w.id \in Ids(log')), log')
  /\ Cardinality(Ids(log')) = Len(log')
  /\ durable' = durable

Next == Write \/ Crash

Spec == Init /\ [][Next]_kvVars
=============================================================================
