------------------------------ MODULE SkipList ------------------------------
(***************************************************************************)
(* The skip list of a memtable (leveldb-library/db/skiplist.h): one thread *)
(* inserts, level by level, while another one searches and iterates        *)
(* without a lock.  A step is one load or one store of a link.  The height *)
(* is read without synchronisation, so a reader may see an older one.      *)
(***************************************************************************)
EXTENDS Naturals

CONSTANTS
  Keys,          \* numbers; a node is named by its key
  kMaxHeight,
  None           \* nullptr

Head == 0        \* head_

VARIABLES
  next,          \* node -> level -> next_
  max_height,    \* max_height_
  inserting,     \* the Insert under way: [key, height, prev, i,
                 \* ready: it has taken over the link of level i], or None
  reading,       \* the search: [what, target, x, level, before, done], or None
  cursor         \* node_ of the reader's iterator

vars == <<next, max_height, inserting, reading, cursor>>

Levels == 0..(kMaxHeight - 1)

Init ==
  /\ next = [n \in Keys \cup {Head} |-> [l \in Levels |-> None]]
  /\ max_height = 1 /\ inserting = None /\ reading = None /\ cursor = None

KeyIsAfterNode(key, n) == n # None /\ n < key

\* Where a search for key from x at a level ends: the last node before key.
FindOnLevel(key, x, l) ==
  LET before == {n \in Keys \cup {Head} : n < key}
      reach[n \in before] ==
        IF KeyIsAfterNode(key, next[n][l]) THEN reach[next[n][l]] ELSE n
  IN  reach[x]

\* FindGreaterOrEqual as Insert uses it: the only writer sees a still list.
FindPrev(key) ==
  LET prev[l \in 0..(max_height - 1)] ==
        FindOnLevel(key, IF l = max_height - 1 THEN Head ELSE prev[l + 1], l)
  IN  prev

-----------------------------------------------------------------------------
(* The writer.                                                             *)

Inserted == {n \in Keys : \E m \in Keys \cup {Head} : next[m][0] = n}

\* Up to NewNode: the nodes to link from, the height, and the greater height
\* of the list.
Insert(key, height) ==
  /\ inserting = None /\ key \notin Inserted
  /\ max_height' = IF height > max_height THEN height ELSE max_height
  /\ inserting' = [key |-> key, height |-> height, i |-> 0, ready |-> FALSE,
                   prev |-> [l \in 0..(height - 1) |->
                               IF l < max_height THEN FindPrev(key)[l] ELSE Head]]
  /\ UNCHANGED <<next, reading, cursor>>

\* The new node takes over the link it will replace on its next level: no
\* reader sees it yet.
TakeOver ==
  /\ inserting # None /\ ~inserting.ready
  /\ LET i == inserting.i
     IN  next' = [next EXCEPT ![inserting.key][i] = next[inserting.prev[i]][i]]
  /\ inserting' = [inserting EXCEPT !.ready = TRUE]
  /\ UNCHANGED <<max_height, reading, cursor>>

\* A slip: the node may be linked to before it has taken over the link.
LinkEarly ==
  /\ inserting # None
  /\ LET i == inserting.i
     IN  /\ next' = [next EXCEPT ![inserting.prev[i]][i] = inserting.key]
         /\ inserting' = IF i + 1 < inserting.height
                         THEN [inserting EXCEPT !.i = i + 1, !.ready = FALSE] ELSE None
  /\ UNCHANGED <<max_height, reading, cursor>>

\* Then it is linked to: the end of a turn of the loop of Insert.
Link ==
  /\ inserting # None /\ inserting.ready
  /\ LET i == inserting.i
     IN  /\ next' = [next EXCEPT ![inserting.prev[i]][i] = inserting.key]
         /\ inserting' = IF i + 1 < inserting.height
                         THEN [inserting EXCEPT !.i = i + 1, !.ready = FALSE] ELSE None
  /\ UNCHANGED <<max_height, reading, cursor>>

-----------------------------------------------------------------------------
(* The reader.                                                             *)

Searching == IF reading = None THEN FALSE ELSE ~reading.done

\* before are the keys that were in the list when the search began.
Begin(what, target) ==
  /\ ~Searching
  /\ \E height \in 1..max_height :
       reading' = [what |-> what, target |-> target, x |-> Head, level |-> height - 1,
                   before |-> Inserted, done |-> FALSE]
  /\ UNCHANGED <<next, max_height, inserting, cursor>>

Seek(target) == Begin("Seek", target)

\* Prev searches for the last node before the current one.
Prev == cursor # None /\ Begin("Prev", cursor)

SeekToLast == Begin("Last", None)

\* Whether the search goes on to n on its level: FindGreaterOrEqual and
\* FindLessThan go on before the target, FindLast to the end.
GoesOn(n) ==
  IF reading.what = "Last" THEN n # None ELSE KeyIsAfterNode(reading.target, n)

\* One turn of the loop of the three searches.
Step ==
  /\ Searching
  /\ LET n == next[reading.x][reading.level]
     IN  \/ /\ GoesOn(n)
            /\ reading' = [reading EXCEPT !.x = n] /\ UNCHANGED cursor
         \/ /\ ~GoesOn(n) /\ reading.level > 0
            /\ reading' = [reading EXCEPT !.level = @ - 1] /\ UNCHANGED cursor
         \/ /\ ~GoesOn(n) /\ reading.level = 0
            /\ reading' = [reading EXCEPT !.done = TRUE]
            /\ cursor' = IF reading.what = "Seek" THEN n
                         ELSE IF reading.x = Head THEN None ELSE reading.x
  /\ UNCHANGED <<next, max_height, inserting>>

SeekToFirst ==
  /\ ~Searching /\ cursor' = next[Head][0] /\ reading' = None
  /\ UNCHANGED <<next, max_height, inserting>>

\* Next of the iterator.
Advance ==
  /\ ~Searching /\ cursor # None /\ cursor' = next[cursor][0] /\ reading' = None
  /\ UNCHANGED <<next, max_height, inserting>>

Next ==
  \/ \E key \in Keys, height \in 1..kMaxHeight : Insert(key, height)
  \/ TakeOver \/ Link
  \/ \E target \in Keys : Seek(target)
  \/ Prev \/ SeekToLast \/ Step \/ SeekToFirst \/ Advance

Spec == Init /\ [][Next]_vars

-----------------------------------------------------------------------------
\* Every level is sorted and a part of the level below, whatever half-linked
\* node is in it.
LevelsAreSorted ==
  \A l \in Levels, n \in Keys \cup {Head} :
    next[n][l] # None => /\ next[n][l] > n
                         /\ next[n][l] \in Inserted

\* A search that has ended missed no key that was in the list when it began:
\* Seek stops at the first one from its target on or at one that came
\* meanwhile, Prev at the last one before the cursor, SeekToLast at the last.
SearchMissesNothing ==
  reading # None /\ reading.done =>
    /\ \A k \in reading.before :
         CASE reading.what = "Seek" -> k < reading.target \/ (cursor # None /\ cursor <= k)
           [] reading.what = "Prev" -> k >= reading.target \/ (cursor # None /\ cursor >= k)
           [] reading.what = "Last" -> cursor # None /\ cursor >= k
    /\ reading.what = "Seek" /\ cursor # None => cursor >= reading.target
    /\ reading.what = "Prev" /\ cursor # None => cursor < reading.target
=============================================================================
