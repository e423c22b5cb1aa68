----------------------------- MODULE VersionSet -----------------------------
(***************************************************************************)
(* The versions of a leveldb database (leveldb-library/db/version_set.cc): *)
(* which table files of which level hold the entries, what a lookup finds  *)
(* in them, and which files a compaction reads and writes. An entry is a   *)
(* write of a user key with a sequence number; a file is what the version  *)
(* knows of a table: its number, its size (in entries), and its smallest   *)
(* and largest internal key. A version maps every level to a set of files. *)
(***************************************************************************)
EXTENDS Integers, Sequences, FiniteSetsExt

CONSTANTS
  NumLevels,             \* config::kNumLevels
  MaxMemCompactLevel,    \* config::kMaxMemCompactLevel
  L0CompactionTrigger,   \* config::kL0_CompactionTrigger
  MaxLevelSize,          \* MaxBytesForLevel, in entries, of every level above 0
  MaxGrandParentOverlap, \* MaxGrandParentOverlapBytes, in entries
  ExpandedLimit,         \* ExpandedCompactionByteSizeLimit, in entries
  None

ASSUME LevelAssumption ==
  /\ NumLevels \in Nat \ {0, 1}
  /\ MaxMemCompactLevel \in 0 .. NumLevels - 1
  /\ L0CompactionTrigger \in Nat \ {0} /\ MaxLevelSize \in Nat \ {0}

Levels == 0 .. NumLevels - 1

EmptyVersion == [l \in Levels |-> {}]

(* Internal keys are ordered by user key, and the newest write comes first. *)
Before(a, b) == a.key < b.key \/ (a.key = b.key /\ a.seq > b.seq)

FirstOf(entries) == CHOOSE e \in entries : \A f \in entries : ~Before(f, e)

LastOf(entries) == CHOOSE e \in entries : \A f \in entries : ~Before(e, f)

FileOf(n, entries) ==
  [number |-> n, size |-> Cardinality(entries),
   smallest |-> FirstOf(entries), largest |-> LastOf(entries)]

TotalFileSize(files) == MapThenSumSet(LAMBDA f : f.size, files)

BySmallestKey(f, g) ==
  Before(f.smallest, g.smallest) \/ (~Before(g.smallest, f.smallest) /\ f.number < g.number)

(* The user keys from the smallest to the largest of a set of files.       *)
Range2(files) == [lo |-> Min({f.smallest.key : f \in files}),
                  hi |-> Max({f.largest.key : f \in files})]

Overlaps(f, r) == f.smallest.key <= r.hi /\ r.lo <= f.largest.key

OverlapInLevel(v, l, r) == \E f \in v[l] : Overlaps(f, r)

(* The files of level 0 overlap each other, so that a file which is taken  *)
(* widens the range and the search starts again: it ends with the fewest   *)
(* files such that no other overlaps their range.                          *)
Widened(r, files) ==
  [lo |-> Min({r.lo} \cup {f.smallest.key : f \in files}),
   hi |-> Max({r.hi} \cup {f.largest.key : f \in files})]

WidenedInputs(files, r) ==
  LET Done(F) == \A g \in files : Overlaps(g, Widened(r, F)) => g \in F
  IN {f \in files : \A F \in SUBSET files : Done(F) => f \in F}

GetOverlappingInputs(v, l, r) ==
  IF l = 0 THEN WidenedInputs(v[0], r) ELSE {f \in v[l] : Overlaps(f, r)}

(* A mutant of the next definition.                                        *)
PickLevelOffByOne(v, r) ==
  LET CanPush(l) == ~OverlapInLevel(v, l, r)
  IN Max({l \in 0 .. MaxMemCompactLevel : \A m \in 0 .. l - 1 : CanPush(m)})

(* A memtable goes to the deepest level it can without passing a file that *)
(* it overlaps.                                                            *)
PickLevelForMemTableOutput(v, r) ==
  LET CanPush(l) ==
        /\ ~OverlapInLevel(v, l + 1, r)
        /\ l + 2 < NumLevels =>
             TotalFileSize(GetOverlappingInputs(v, l + 2, r)) <= MaxGrandParentOverlap
  IN IF OverlapInLevel(v, 0, r) THEN 0
     ELSE Max({l \in 0 .. MaxMemCompactLevel : \A m \in 0 .. l - 1 : CanPush(m)})

-----------------------------------------------------------------------------
(* Lookups: Version::Get.                                                  *)

(* The files that may hold the key, each with its level: those of level 0  *)
(* that overlap it, and one file of each other level, the first one whose  *)
(* largest internal key is not before the key looked up.                   *)
FilesFor(v, k, s) ==
  LET target == [key |-> k, seq |-> s]
      FindFile(l) == {f \in v[l] : ~Before(f.largest, target)
                        /\ \A g \in v[l] : BySmallestKey(g, f) => Before(g.largest, target)}
      InLevel(l) == IF l = 0 THEN {f \in v[0] : Overlaps(f, [lo |-> k, hi |-> k])}
                    ELSE {f \in FindFile(l) : f.smallest.key <= k}
  IN UNION {{<<l, f>> : f \in InLevel(l)} : l \in Levels}

(* They are read level by level, in level 0 from the newest.               *)
ReadBefore(a, b) == a[1] < b[1] \/ (a[1] = b[1] /\ a[2].number > b[2].number)

(* The newest entry of the key in a table or memtable that is not newer    *)
(* than the sequence number, or None.                                      *)
FindIn(entries, k, s) ==
  LET hit == {e \in entries : e.key = k /\ e.seq <= s}
  IN IF hit = {} THEN None ELSE FirstOf(hit)

(* The files of FilesFor that hold the key.                                *)
HitsIn(files, tables, k, s) == {a \in files : FindIn(tables[a[2].number], k, s) # None}

(* What the first of these files says.                                     *)
Get(v, tables, k, s) ==
  LET hits == HitsIn(FilesFor(v, k, s), tables, k, s)
      first == CHOOSE a \in hits : \A b \in hits : ~ReadBefore(b, a)
  IN IF hits = {} THEN None ELSE FindIn(tables[first[2].number], k, s)

(* A lookup that reads more than one file charges the seek to the first.   *)
SeekFile(v, tables, k, s) ==
  LET files == FilesFor(v, k, s)
      hits == HitsIn(files, tables, k, s)
      read == {a \in files : \A b \in hits : ~ReadBefore(b, a)}
  IN {a \in read : read # {a} /\ \A b \in read : ~ReadBefore(b, a)}

-----------------------------------------------------------------------------
(* Compactions.                                                            *)

(* The score of a level as a fraction.                                     *)
Fill(v, l) == IF l = 0 THEN Cardinality(v[0]) ELSE TotalFileSize(v[l])

Room(l) == IF l = 0 THEN L0CompactionTrigger ELSE MaxLevelSize

SizeCompaction(v) == \E l \in 0 .. NumLevels - 2 : Fill(v, l) >= Room(l)

(* The level with the highest score, the first of several.                 *)
CompactionLevel(v) ==
  {l \in 0 .. NumLevels - 2 : \A m \in 0 .. NumLevels - 2 :
     LET a == Fill(v, l) * Room(m)
         b == Fill(v, m) * Room(l)
     IN a > b \/ (a = b /\ l <= m)}

NeedsCompaction(v, fileToCompact) == SizeCompaction(v) \/ fileToCompact # None

(* A mutant of the next definition.                                        *)
NoBoundaryInputs(levelFiles, files) == files

(* The first of the files in the order of a level.                         *)
FirstFile(files) == {f \in files : \A g \in files \ {f} : BySmallestKey(f, g)}

(* FindSmallestBoundaryFile: the file that begins with the next write of   *)
(* the user key that the given one ends with.                              *)
BoundaryFile(levelFiles, f) ==
  FirstFile({g \in levelFiles : /\ Before(f.largest, g.smallest)
                                /\ g.smallest.key = f.largest.key})

(* The boundary file of the last of the chosen files is taken too, and its *)
(* own boundary file, and so on.                                           *)
AddBoundaryInputs(levelFiles, files) ==
  LET last == {f \in files : \A g \in files : ~Before(f.largest, g.largest)}
      Done(F) == \A f \in last \cup F : BoundaryFile(levelFiles, f) \subseteq F
  IN files \cup {f \in levelFiles : \A F \in SUBSET levelFiles : Done(F) => f \in F}

(* The inputs of a compaction of the given files of a level: the files     *)
(* they overlap in the next level, and more files of their own level if    *)
(* that adds none of the next.                                             *)
SetupOtherInputs(v, l, files) ==
  LET in0 == AddBoundaryInputs(v[l], files)
      in1 == GetOverlappingInputs(v, l + 1, Range2(in0))
      expanded0 == AddBoundaryInputs(v[l], GetOverlappingInputs(v, l, Range2(in0 \cup in1)))
      expanded1 == GetOverlappingInputs(v, l + 1, Range2(expanded0))
      grow == /\ in1 # {} /\ Cardinality(expanded0) > Cardinality(in0)
              /\ TotalFileSize(in1) + TotalFileSize(expanded0) < ExpandedLimit
              /\ Cardinality(expanded1) = Cardinality(in1)
      i0 == IF grow THEN expanded0 ELSE in0
      i1 == IF grow THEN expanded1 ELSE in1
  IN [level |-> l, in0 |-> i0, in1 |-> i1, pointer |-> LastOf({f.largest : f \in i0}),
      grandparents |-> IF l + 2 < NumLevels
                       THEN GetOverlappingInputs(v, l + 2, Range2(i0 \cup i1)) ELSE {}]

(* A compaction of the fullest level, from the first file that comes after *)
(* the place where the last one ended, or of the file that had its seeks   *)
(* (file_to_compact_level_ and file_to_compact_).                          *)
PickCompaction(v, pointers, fileToCompact) ==
  LET After(l) == {f \in v[l] : pointers[l] = None \/ Before(pointers[l], f.largest)}
      Of(l, picked) ==
        SetupOtherInputs(v, l, IF l = 0 THEN WidenedInputs(v[0], Range2(picked)) ELSE picked)
  IN IF SizeCompaction(v)
     THEN {Of(l, FirstFile(IF After(l) = {} THEN v[l] ELSE After(l))) : l \in CompactionLevel(v)}
     ELSE {Of(fileToCompact[1], {fileToCompact[2]})}

IsTrivialMove(c) ==
  /\ (\E f \in c.in0 : c.in0 = {f}) /\ c.in1 = {}
  /\ TotalFileSize(c.grandparents) <= MaxGrandParentOverlap

IsBaseLevelForKey(v, l, k) ==
  \A m \in l + 2 .. NumLevels - 1 : ~OverlapInLevel(v, m, [lo |-> k, hi |-> k])

(* The entries a compaction keeps: an entry is dropped when every snapshot *)
(* sees a newer one, and a deletion when there is nothing left to delete.  *)
Kept(v, c, entries, snapshot) ==
  {e \in entries :
     /\ ~\E f \in entries : f.key = e.key /\ f.seq > e.seq /\ f.seq <= snapshot
     /\ ~(e.del /\ e.seq <= snapshot /\ IsBaseLevelForKey(v, c.level, e.key))}

(* The ways to write entries to files, in order: a file may end after any  *)
(* entry, when it is big enough or overlaps too much of the level below.   *)
Outputs(entries) ==
  {[n \in 1 .. Cardinality(ends) + 1 |->
      {e \in entries : Cardinality({f \in ends : Before(f, e)}) = n - 1}] :
     ends \in SUBSET (entries \ {LastOf(entries)})}

(* VersionSet::Builder: an edit applied to a version.                      *)
Apply(v, edit) ==
  [l \in Levels |-> {f \in v[l] : <<l, f.number>> \notin edit.deleted}
                      \cup {a[2] : a \in {b \in edit.added : b[1] = l}}]

FilesOf(v) == UNION {{f.number : f \in v[l]} : l \in Levels}
=============================================================================
