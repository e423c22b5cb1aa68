------------------------------ MODULE LRUCache ------------------------------
(***************************************************************************)
(* The cache of open tables of leveldb: the reference counts, the two      *)
(* lists and the hash table of a shard (util/cache.cc), used by the        *)
(* threads that look a table up, open it when it is not there, and let it  *)
(* go (db/table_cache.cc).  Every method of the cache holds its mutex.     *)
(***************************************************************************)
EXTENDS Naturals, Sequences, SequencesExt, FiniteSets

CONSTANTS
  Threads,
  Tables,         \* table numbers; the hash of a number is the number
  Capacity,       \* capacity_: every table has charge 1
  MinLength,      \* the length of the smallest hash table
  MaxHandles,     \* bound: entries ever made
  None

VARIABLES
  handles,        \* entry -> [key, refs, in_cache, freed]
  lru,            \* lru_, oldest first
  in_use,         \* in_use_, in no order
  usage,          \* usage_
  list,           \* table_.list_: the chains of the hash table
  elems,          \* table_.elems_
  held,           \* thread -> the handle it holds, or None
  opening         \* thread -> the table it found missing and opens, or None

vars == <<handles, lru, in_use, usage, list, elems, held, opening>>

Init ==
  /\ handles = <<>> /\ lru = <<>> /\ in_use = {} /\ usage = 0
  /\ list = [b \in 0..(MinLength - 1) |-> <<>>] /\ elems = 0
  /\ held = [t \in Threads |-> None] /\ opening = [t \in Threads |-> None]

Lists == [h |-> handles, lru |-> lru, in_use |-> in_use, usage |-> usage, list |-> list,
          elems |-> elems]

Becomes(c) ==
  /\ handles' = c.h /\ lru' = c.lru /\ in_use' = c.in_use /\ usage' = c.usage
  /\ list' = c.list /\ elems' = c.elems

-----------------------------------------------------------------------------
(* HandleTable                                                             *)

Length(table) == Cardinality(DOMAIN table)

Bucket(c, key) == c.list[key % Length(c.list)]

\* FindPointer: the position in its chain, past the end when it is missing.
FindPointer(c, key) ==
  LET chain == Bucket(c, key)
      found == {i \in DOMAIN chain : c.h[chain[i]].key = key}
  IN  IF found = {} THEN Len(chain) + 1 ELSE CHOOSE i \in found : \A j \in found : i <= j

TableLookup(c, key) ==
  LET i == FindPointer(c, key)
  IN  IF i > Len(Bucket(c, key)) THEN None ELSE Bucket(c, key)[i]

NewLength(n) == CHOOSE l \in {MinLength * 2^k : k \in 0..n} :
                  l >= n /\ \A k \in 0..n : MinLength * 2^k >= n => l <= MinLength * 2^k

\* Every entry moves to the head of its new chain, chain by chain.
Resize(c) ==
  LET new == NewLength(c.elems)
      all == FoldLeft(LAMBDA s, b : s \o c.list[b - 1], <<>>,
                      [b \in 1..Length(c.list) |-> b])
      chain(b) == Reverse(SelectSeq(all, LAMBDA e : c.h[e].key % new = b))
  IN  [c EXCEPT !.list = [b \in 0..(new - 1) |-> chain(b)]]

TableInsert(c, e) ==
  LET key == c.h[e].key
      b == key % Length(c.list)
      i == FindPointer(c, key)
      old == TableLookup(c, key)
      put == [c EXCEPT !.list[b] = IF old = None THEN Append(@, e) ELSE [@ EXCEPT ![i] = e],
                       !.elems = IF old = None THEN @ + 1 ELSE @]
  IN  IF old = None /\ put.elems > Length(c.list) THEN Resize(put) ELSE put

TableRemove(c, key) ==
  IF TableLookup(c, key) = None THEN c
  ELSE [c EXCEPT !.list[key % Length(c.list)] = RemoveAt(@, FindPointer(c, key)),
                 !.elems = @ - 1]

-----------------------------------------------------------------------------
(* LRUCache                                                                *)

LRU_Remove(c, e) ==
  [c EXCEPT !.lru = SelectSeq(@, LAMBDA x : x # e), !.in_use = @ \ {e}]

Ref(c, e) ==
  LET moved == IF c.h[e].refs = 1 /\ c.h[e].in_cache
               THEN [LRU_Remove(c, e) EXCEPT !.in_use = @ \cup {e}] ELSE c
  IN  [moved EXCEPT !.h[e].refs = @ + 1]

Unref(c, e) ==
  LET d == [c EXCEPT !.h[e].refs = @ - 1]
  IN  IF d.h[e].refs = 0 THEN [d EXCEPT !.h[e].freed = TRUE]
      ELSE IF d.h[e].in_cache /\ d.h[e].refs = 1
      THEN [LRU_Remove(d, e) EXCEPT !.lru = Append(@, e)]
      ELSE d

\* A slip: the entry stays in its list.
FinishEraseKeepsList(c, e) ==
  IF e = None THEN c
  ELSE Unref([c EXCEPT !.h[e].in_cache = FALSE, !.usage = @ - 1], e)

FinishErase(c, e) ==
  IF e = None THEN c
  ELSE Unref([LRU_Remove(c, e) EXCEPT !.h[e].in_cache = FALSE, !.usage = @ - 1], e)

EraseKey(c, key) == FinishErase(TableRemove(c, key), TableLookup(c, key))

\* The loops that erase the oldest entries, down to n of them unused.
RECURSIVE Shrink(_, _)
Shrink(c, limit) ==
  IF c.usage > limit /\ c.lru # <<>> THEN Shrink(EraseKey(c, c.h[Head(c.lru)].key), limit)
                                     ELSE c

InsertEntry(c, key) ==
  LET e == Len(c.h) + 1
      made == [c EXCEPT !.h = Append(@, [key |-> key, refs |-> 1, in_cache |-> FALSE,
                                         freed |-> FALSE])]
      cached == [made EXCEPT !.h[e].refs = 2, !.h[e].in_cache = TRUE,
                             !.in_use = @ \cup {e}, !.usage = @ + 1]
  IN  Shrink(IF Capacity > 0 THEN FinishErase(TableInsert(cached, e), TableLookup(cached, key))
                             ELSE made, Capacity)

-----------------------------------------------------------------------------
(* TableCache, and what its callers do with what they are given.           *)

\* FindTable finds the table in the cache, or goes on to open its file
\* without the mutex.
FindTable(t, key) ==
  /\ held[t] = None /\ opening[t] = None
  /\ LET e == TableLookup(Lists, key)
     IN  IF e # None
         THEN /\ Becomes(Ref(Lists, e)) /\ held' = [held EXCEPT ![t] = e] /\ UNCHANGED opening
         ELSE /\ opening' = [opening EXCEPT ![t] = key]
              /\ UNCHANGED <<handles, lru, in_use, usage, list, elems, held>>

\* The file is open: it is inserted, whoever else did so meanwhile.
Insert(t) ==
  /\ opening[t] # None /\ Len(handles) < MaxHandles
  /\ Becomes(InsertEntry(Lists, opening[t]))
  /\ held' = [held EXCEPT ![t] = Len(handles) + 1]
  /\ opening' = [opening EXCEPT ![t] = None]

\* The file could not be opened: nothing is cached.
OpenFailed(t) ==
  /\ opening[t] # None /\ opening' = [opening EXCEPT ![t] = None]
  /\ UNCHANGED <<handles, lru, in_use, usage, list, elems, held>>

\* The end of Get, or of an iterator.
Release(t) ==
  /\ held[t] # None
  /\ Becomes(Unref(Lists, held[t])) /\ held' = [held EXCEPT ![t] = None]
  /\ UNCHANGED opening

Evict(key) ==
  Becomes(EraseKey(Lists, key)) /\ UNCHANGED <<held, opening>>

Prune ==
  /\ lru # <<>>
  /\ Becomes(Shrink(Lists, usage - Len(lru))) /\ UNCHANGED <<held, opening>>

Next ==
  \/ \E t \in Threads :
       \/ \E key \in Tables : FindTable(t, key)
       \/ Insert(t) \/ OpenFailed(t) \/ Release(t)
  \/ \E key \in Tables : Evict(key)
  \/ Prune

Spec == Init /\ [][Next]_vars

-----------------------------------------------------------------------------
Entries == DOMAIN handles

Cached == {e \in Entries : handles[e].in_cache}

\* An entry lives exactly as long as the cache or somebody refers to it.
HeldIsNotFreed ==
  \A e \in Entries :
    /\ handles[e].refs = Cardinality({t \in Threads : held[t] = e})
                           + (IF handles[e].in_cache THEN 1 ELSE 0)
    /\ handles[e].freed <=> handles[e].refs = 0

\* A lookup finds the one entry of its key that is in the cache, through every
\* insertion over an older entry, eviction and growth of the hash table; an
\* entry in the cache is in the list that says whether it is in use; and the
\* cache outgrows its capacity at most by entries in use, which are no more
\* than its callers, though they stay in it when they are released and only
\* the next insertion evicts them.
LookupFindsCached ==
  /\ \A key \in Tables : {e \in Cached : handles[e].key = key}
                           = {TableLookup(Lists, key)} \ {None}
  /\ in_use = {e \in Cached : handles[e].refs > 1}
  /\ ToSet(lru) = {e \in Cached : handles[e].refs = 1} /\ IsInjective(lru)
  /\ usage = Cardinality(Cached) /\ elems = usage
  /\ usage <= Capacity \/ usage <= Cardinality(Threads)
=============================================================================
