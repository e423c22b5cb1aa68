----------------------------- MODULE SortedMap ------------------------------
(***************************************************************************)
(* Firestore's immutable sorted map: an array while it is small, then a    *)
(* left-leaning red-black tree, and an array again once it is empty.  The  *)
(* tree is a value: that the code copies a node before it changes it is    *)
(* what lets a node be one here.                                           *)
(***************************************************************************)
EXTENDS Naturals, Sequences, SequencesExt

CONSTANTS
  Keys,          \* numbers, compared as such
  Values,
  kFixedSize

VARIABLES
  map,           \* [tag_, array_, root_]
  contents       \* what it stands for: <<key, value>> pairs

vars == <<map, contents>>

-----------------------------------------------------------------------------
(* LlrbNode.  An empty node has children, which are empty too.             *)
Empty == [size |-> 0, red |-> FALSE]

Rep(entry, red, left, right) ==
  [entry |-> entry, red |-> red, left |-> left, right |-> right,
   size |-> left.size + 1 + right.size]

left(n) == IF n.size = 0 THEN Empty ELSE n.left
right(n) == IF n.size = 0 THEN Empty ELSE n.right

RotateLeft(n) ==
  [n EXCEPT !.entry = n.right.entry,
            !.left = Rep(n.entry, TRUE, n.left, left(n.right)),
            !.right = right(n.right)]

RotateRight(n) ==
  [n EXCEPT !.entry = n.left.entry,
            !.left = left(n.left),
            !.right = Rep(n.entry, TRUE, right(n.left), n.right)]

FlipColor(n) ==
  [n EXCEPT !.red = ~@, !.left.red = ~@, !.right.red = ~@]

\* A slip: a red right child is not rotated.
FixUpRightLeaning(n) ==
  LET sized == [n EXCEPT !.size = n.left.size + 1 + n.right.size]
      b == IF sized.left.red /\ left(sized.left).red THEN RotateRight(sized) ELSE sized
  IN IF b.left.red /\ b.right.red THEN FlipColor(b) ELSE b

FixUp(n) ==
  LET sized == [n EXCEPT !.size = n.left.size + 1 + n.right.size]
      a == IF sized.right.red /\ ~sized.left.red THEN RotateLeft(sized) ELSE sized
      b == IF a.left.red /\ left(a.left).red THEN RotateRight(a) ELSE a
  IN IF b.left.red /\ b.right.red THEN FlipColor(b) ELSE b

FixRootColor(n) == [n EXCEPT !.red = FALSE]

MoveRedLeft(n) ==
  LET f == FlipColor(n) IN
  IF left(f.right).red
  THEN FlipColor(RotateLeft([f EXCEPT !.right = RotateRight(@)]))
  ELSE f

MoveRedRight(n) ==
  LET f == FlipColor(n) IN
  IF left(f.left).red THEN FlipColor(RotateRight(f)) ELSE f

RECURSIVE InnerInsert(_, _)
InnerInsert(n, entry) ==
  IF n.size = 0 THEN Rep(entry, TRUE, Empty, Empty)
  ELSE IF entry[1] < n.entry[1] THEN FixUp([n EXCEPT !.left = InnerInsert(@, entry)])
  ELSE IF entry[1] > n.entry[1] THEN FixUp([n EXCEPT !.right = InnerInsert(@, entry)])
  ELSE [n EXCEPT !.entry = entry]

\* Neither the node nor the node to the left of it is red.
TwoBlack(n) == ~n.red /\ ~left(n).red

RECURSIVE RemoveMin(_)
RemoveMin(n) ==
  IF n.left.size = 0 THEN Empty
  ELSE LET m == IF TwoBlack(n.left) THEN MoveRedLeft(n) ELSE n
       IN FixUp([m EXCEPT !.left = RemoveMin(@)])

RECURSIVE LeftMost(_)
LeftMost(n) == IF n.left.size = 0 THEN n ELSE LeftMost(n.left)

RECURSIVE RightMost(_)
RightMost(n) == IF n.right.size = 0 THEN n ELSE RightMost(n.right)

RECURSIVE InnerErase(_, _)
InnerErase(n, key) ==
  IF n.size = 0 THEN Empty
  ELSE IF key < n.entry[1]
  THEN LET m == IF n.left.size # 0 /\ TwoBlack(n.left) THEN MoveRedLeft(n) ELSE n
       IN FixUp([m EXCEPT !.left = InnerErase(@, key)])
  ELSE LET r == IF n.left.red THEN RotateRight(n) ELSE n
           m == IF r.right.size # 0 /\ TwoBlack(r.right) THEN MoveRedRight(r) ELSE r
       IN IF key # m.entry[1] THEN FixUp([m EXCEPT !.right = InnerErase(@, key)])
          ELSE IF m.right.size = 0 THEN Empty
          ELSE FixUp([m EXCEPT !.entry = LeftMost(m.right).entry, !.right = RemoveMin(@)])

insert(root, entry) == FixRootColor(InnerInsert(root, entry))
erase(root, key) == FixRootColor(InnerErase(root, key))

-----------------------------------------------------------------------------
(* LlrbNodeIterator: the stack of the nodes to visit, the next one last.   *)
RECURSIVE AccumulateLeft(_, _)
AccumulateLeft(n, stack) ==
  IF n.size = 0 THEN stack ELSE AccumulateLeft(n.left, Append(stack, n))

RECURSIVE LowerBound(_, _, _)
LowerBound(n, key, stack) ==
  IF n.size = 0 THEN stack
  ELSE IF key = n.entry[1] THEN Append(stack, n)
  ELSE IF key < n.entry[1] THEN LowerBound(n.left, key, Append(stack, n))
  ELSE LowerBound(n.right, key, stack)

Increment(stack) == AccumulateLeft(Last(stack).right, Front(stack))

RECURSIVE Visited(_)
Visited(stack) == IF stack = <<>> THEN <<>> ELSE <<Last(stack).entry>> \o Visited(Increment(stack))

\* TreeSortedMap::find_index and contains, from a node down.
RECURSIVE TreeIndex(_, _, _)
TreeIndex(n, key, pruned_nodes) ==
  IF n.size = 0 THEN "npos"
  ELSE IF key = n.entry[1] THEN pruned_nodes + n.left.size
  ELSE IF key < n.entry[1] THEN TreeIndex(n.left, key, pruned_nodes)
  ELSE TreeIndex(n.right, key, pruned_nodes + n.left.size + 1)

-----------------------------------------------------------------------------
(* ArraySortedMap.                                                         *)
\* std::lower_bound: the first place whose key is not before the key.
ArrayLowerBound(a, key) ==
  CHOOSE i \in 1..(Len(a) + 1) :
    /\ \A j \in 1..(i - 1) : a[j][1] < key
    /\ i <= Len(a) => a[i][1] >= key

ArrayInsert(a, entry) ==
  LET pos == ArrayLowerBound(a, entry[1])
      replacing_entry == pos <= Len(a) /\ a[pos][1] = entry[1]
  IN SubSeq(a, 1, pos - 1) \o <<entry>>
       \o SubSeq(a, IF replacing_entry THEN pos + 1 ELSE pos, Len(a))

ArrayErase(a, key) == SelectSeq(a, LAMBDA e : e[1] # key)

ArrayIndex(a, key) ==
  IF \E i \in DOMAIN a : a[i][1] = key
  THEN (CHOOSE i \in DOMAIN a : a[i][1] = key) - 1
  ELSE "npos"

-----------------------------------------------------------------------------
(* SortedMap: one or the other.                                            *)
Array(a) == [tag_ |-> "Array", array_ |-> a, root_ |-> Empty]
Tree(root) == [tag_ |-> "Tree", array_ |-> <<>>, root_ |-> root]

RECURSIVE Create(_, _)
Create(a, root) == IF a = <<>> THEN root ELSE Create(Tail(a), insert(root, a[1]))

MapInsert(m, entry) ==
  IF m.tag_ = "Tree" THEN Tree(insert(m.root_, entry))
  ELSE IF Len(m.array_) >= kFixedSize THEN Tree(insert(Create(m.array_, Empty), entry))
  ELSE Array(ArrayInsert(m.array_, entry))

MapErase(m, key) ==
  IF m.tag_ = "Array" THEN Array(ArrayErase(m.array_, key))
  ELSE LET result == erase(m.root_, key) IN
       IF result.size = 0 THEN Array(<<>>) ELSE Tree(result)

size(m) == IF m.tag_ = "Array" THEN Len(m.array_) ELSE m.root_.size

\* What iterating shows, from the beginning and from a lower bound.
Entries(m) ==
  IF m.tag_ = "Array" THEN m.array_ ELSE Visited(AccumulateLeft(m.root_, <<>>))

lower_bound(m, key) ==
  IF m.tag_ = "Array" THEN SubSeq(m.array_, ArrayLowerBound(m.array_, key), Len(m.array_))
  ELSE Visited(LowerBound(m.root_, key, <<>>))

find_index(m, key) ==
  IF m.tag_ = "Array" THEN ArrayIndex(m.array_, key) ELSE TreeIndex(m.root_, key, 0)

MapMax(m) == IF m.tag_ = "Array" THEN Last(m.array_) ELSE RightMost(m.root_).entry

\* KeysViewIn: from one lower bound up to the other, or nothing.
keys_in(m, start_key, end_key) ==
  IF start_key >= end_key THEN <<>>
  ELSE LET from == lower_bound(m, start_key)
           rest == lower_bound(m, end_key)
       IN SubSeq(from, 1, Len(from) - Len(rest))

-----------------------------------------------------------------------------
Init == map = Array(<<>>) /\ contents = {}

Without(key) == {e \in contents : e[1] # key}

Insert(key, value) ==
  /\ map' = MapInsert(map, <<key, value>>)
  /\ contents' = Without(key) \cup {<<key, value>>}

Erase(key) ==
  /\ map' = MapErase(map, key)
  /\ contents' = Without(key)

Next == \E key \in Keys : Erase(key) \/ \E value \in Values : Insert(key, value)

Spec == Init /\ [][Next]_vars

-----------------------------------------------------------------------------
KeysOf(entries) == [i \in DOMAIN entries |-> entries[i][1]]
Ordered(keys) == \A i \in 1..(Len(keys) - 1) : keys[i] < keys[i + 1]
Present == {e[1] : e \in contents}
Rank(key) == Len(SelectSeq(KeysOf(Entries(map)), LAMBDA k : k < key))

\* The map has the entries that were inserted last, in the order of their keys,
\* and finds each of them, whichever way it is stored.
MapIsContents ==
  LET entries == Entries(map) IN
  /\ ToSet(entries) = contents /\ Ordered(KeysOf(entries)) /\ size(map) = Len(entries)
  /\ contents # {} => MapMax(map) = Last(entries)
  /\ \A key \in Keys :
       /\ find_index(map, key) = IF key \in Present THEN Rank(key) ELSE "npos"
       /\ lower_bound(map, key) = SelectSeq(entries, LAMBDA e : e[1] >= key)
       /\ \A end \in Keys :
            ToSet(keys_in(map, key, end)) = {e \in contents : key <= e[1] /\ e[1] < end}

\* No red node on the right or below a red one, and as many black ones on every
\* way down: the depth stays logarithmic.
RECURSIVE BlackDepth(_)
BlackDepth(n) ==
  IF n.size = 0 THEN 0 ELSE BlackDepth(n.left) + (IF n.red THEN 0 ELSE 1)

RECURSIVE Balanced(_)
Balanced(n) ==
  n.size # 0 =>
    /\ ~n.right.red /\ ~(n.red /\ n.left.red)
    /\ n.size = n.left.size + 1 + n.right.size
    /\ BlackDepth(n.left) = BlackDepth(n.right)
    /\ Balanced(n.left) /\ Balanced(n.right)

TreeIsBalanced == Balanced(map.root_) /\ ~map.root_.red
=============================================================================
