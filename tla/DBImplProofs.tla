---------------------------- MODULE DBImplProofs ----------------------------
(***************************************************************************)
(* What holds of the database for any threads, workloads, levels and       *)
(* limits: the queue of writers and the file numbers are in order, and no  *)
(* file that is still needed is ever deleted.                              *)
(***************************************************************************)
EXTENDS DBImpl, TLAPS

(* How a step that names no prover is proved: the translation of a large   *)
(* context for SMT may run out of its time, and then it is tried again.    *)
USE SMTT(30), ZenonT(30), SMTT(40)

(* The writers that hold the group at the head of the queue.               *)
Leading == {"log", "insert", "finish", "failed", "unsynced"}

(* The queue of DBImpl::Write: it holds exactly the threads in Write, each *)
(* once; all but the first wait, and the group of the first is a part of   *)
(* it.                                                                     *)
QueueInv ==
  /\ writers \in Seq(Threads)
  /\ pc \in [Threads -> {"idle", "wait", "run", "bgwait"} \cup Leading]
  /\ \A t \in Threads : pc[t] # "idle" <=> \E i \in 1 .. Len(writers) : writers[i] = t
  /\ \A i, j \in 1 .. Len(writers) : writers[i] = writers[j] => i = j
  /\ \A i \in 2 .. Len(writers) : pc[writers[i]] = "wait"
  /\ group \in 0 .. Len(writers)
  /\ \A t \in Threads : pc[t] \in Leading => group # 0
  /\ db # "open" => writers = <<>>

IsSeq(s) == Len(s) \in Nat /\ s = [i \in 1 .. Len(s) |-> s[i]]

IsLog(l) ==
  /\ l = [recs |-> l.recs, synced |-> l.synced]
  /\ IsSeq(l.recs) /\ l.synced \in 0 .. Len(l.recs)

IsManifest(m) ==
  /\ m = [levels |-> m.levels, log |-> m.log, next |-> m.next, last |-> m.last,
          pointers |-> m.pointers]
  /\ m.log \in Nat /\ m.next \in Nat
  /\ \A n \in FilesOf(m.levels) : n \in Nat /\ n < m.next

(* The disk: the numbers of the tables a manifest names are below the next *)
(* number it records, and the tables that CURRENT's manifest names exist.  *)
DiskInv ==
  /\ DOMAIN logs \subseteq Nat
  /\ \A n \in DOMAIN logs : IsLog(logs[n])
  /\ DOMAIN tables \subseteq Nat
  /\ DOMAIN manifests \subseteq Nat
  /\ \A m \in DOMAIN manifests : IsManifest(manifests[m])
  /\ currentFile \in DOMAIN manifests
  /\ FilesOf(OnDisk.levels) \subseteq DOMAIN tables

Opening == db \in {"manifest", "current", "finish"}

IsBg(b) == b = [pc |-> b.pc, number |-> b.number, edit |-> b.edit, comp |-> b.comp, ok |-> b.ok]

(* The background thread does the same work as before, or none.            *)
SameWork(r, b) ==
  /\ IsBg(r) /\ r.number = b.number /\ r.edit = b.edit /\ r.comp = b.comp /\ r.ok = b.ok
  /\ r.pc = b.pc \/ (b.pc = "idle" /\ r.pc = "scheduled")

(* The memory of the process is made of the records of the code.           *)
ShapeInv ==
  /\ db \in {"closed", "recover", "manifest", "current", "finish", "open"}
  /\ versions = [current |-> versions.current, log |-> versions.log, next |-> versions.next,
                 last |-> versions.last, manifest |-> versions.manifest,
                 pointers |-> versions.pointers, seek |-> versions.seek]
  /\ versions.log \in Nat /\ versions.next \in Nat /\ versions.manifest \in Nat
  /\ IsBg(bg)
  /\ bg.pc \in {"idle", "scheduled", "build", "merge", "manifest", "install"}
  /\ db # "open" => bg.pc = "idle" /\ bg.comp = None /\ reader = None /\ pending_outputs = {}

(* The numbers in use are below the next one; the log in use is kept.      *)
NumberInv ==
  db \notin {"closed", "recover"} =>
    /\ \A n \in DOMAIN logs : n < versions.next
    /\ logfile_number \in DOMAIN logs /\ versions.log <= logfile_number
    /\ \A n \in FilesOf(versions.current) : n \in Nat /\ n < versions.next
    /\ db = "open" => \A n \in DOMAIN tables : n < versions.next

(* An edit that is not yet installed adds tables that exist.               *)
EditInv ==
  Opening \/ bg.pc \in {"manifest", "install"} =>
    /\ bg.edit.log \in Nat /\ bg.edit.log <= logfile_number
    /\ bg.edit.next \in Nat /\ bg.edit.next <= versions.next
    /\ \A a \in bg.edit.added : a[2].number \in DOMAIN tables /\ a[2].number < bg.edit.next

(* The manifest in use says what the version in memory does, or what it    *)
(* will when the edit is installed, until a write to it fails.             *)
ManifestInv ==
  /\ db = "manifest" => \A n \in FilesOf(versions.current) : n < bg.edit.next
  /\ db \in {"current", "finish"} =>
       /\ versions.manifest \in DOMAIN manifests
       /\ manifests[versions.manifest].levels = Apply(versions.current, bg.edit)
       /\ manifests[versions.manifest].next <= versions.next
  /\ db \in {"finish", "open"} => currentFile = versions.manifest
  /\ db = "open" =>
       /\ OnDisk.next <= versions.next
       /\ bg.pc = "manifest" => OnDisk.next <= bg.edit.next
       /\ ~bg_error /\ bg.pc # "install" => OnDisk.levels = versions.current
       /\ ~bg_error /\ bg.pc = "install" /\ bg.ok => OnDisk.levels = Apply(versions.current, bg.edit)

(* The tables of the version in use, of a reader and of the compaction     *)
(* exist; its outputs are pending, and another number than a flush's.      *)
LiveInv ==
  /\ db # "closed" => FilesOf(versions.current) \subseteq DOMAIN tables
  /\ reader # None => FilesOf(reader.version) \subseteq DOMAIN tables
  /\ bg.comp # None \/ bg.pc = "merge" =>
       /\ bg.comp = [c |-> bg.comp.c, version |-> bg.comp.version, outputs |-> bg.comp.outputs,
                     todo |-> bg.comp.todo]
       /\ FilesOf(bg.comp.version) \subseteq DOMAIN tables
       /\ \A f \in bg.comp.outputs :
            /\ f.number \in DOMAIN tables \cap pending_outputs
            /\ bg.pc = "build" => f.number # bg.number
  /\ pending_outputs \subseteq DOMAIN tables \cup (IF bg.pc = "build" THEN {bg.number} ELSE {})
  /\ bg.pc = "build" => bg.number \in Nat /\ bg.number < versions.next
  /\ versions.seek # None =>
       versions.seek[1] \in Levels /\ versions.seek[2] \in versions.current[versions.seek[1]]

(* In recovery the numbers of the tables written so far are below the next *)
(* one, and so are those of the logs that were read or are obsolete; the   *)
(* log being read and those to come may still be above it.                 *)
RecoverInv ==
  /\ db = "closed" => logfile_number = 0
  /\ db = "recover" =>
       /\ logfile_number \in Nat
       /\ \A n \in DOMAIN logs : n < logfile_number => n < versions.next
       /\ versions.log = OnDisk.log /\ OnDisk.log < versions.next
       /\ \A n \in FilesOf(versions.current) : n \in Nat /\ n < versions.next
       /\ \A a \in bg.edit.added : a[2].number \in DOMAIN tables /\ a[2].number < versions.next

DBInv ==
  QueueInv /\ DiskInv /\ ShapeInv /\ NumberInv /\ EditInv /\ ManifestInv /\ LiveInv /\ RecoverInv
-----------------------------------------------------------------------------
(* The queue of writers.                                                   *)

(* A thread that neither is out of Write nor waits for its turn is the     *)
(* first of the queue, and no other is.                                    *)
LEMMA HeadRuns ==
  ASSUME QueueInv, NEW t \in Threads, pc[t] \notin {"idle", "wait"}
  PROVE  /\ 1 \in 1 .. Len(writers) /\ writers[1] = t
         /\ \A u \in Threads \ {t} : pc[u] \in {"idle", "wait"}
<1>1. PICK i \in 1 .. Len(writers) : writers[i] = t
  BY ZenonT(30) DEF QueueInv
<1>2. Len(writers) \in Nat
  BY DEF QueueInv
<1>3. i = 1
  BY <1>1, <1>2 DEF QueueInv
<1>4. ASSUME NEW u \in Threads \ {t}, pc[u] # "idle" PROVE pc[u] = "wait"
  <2>1. PICK j \in 1 .. Len(writers) : writers[j] = u
    BY <1>4, ZenonT(30) DEF QueueInv
  <2>2. j \in 2 .. Len(writers)
    BY <1>1, <1>2, <1>3, <1>4, <2>1
  <2>3. QED
    BY <2>1, <2>2, ZenonT(30) DEF QueueInv
<1>5. QED
  BY <1>1, <1>2, <1>3, <1>4, ZenonT(30)

(* The first of the queue moves on in Write.                               *)
LEMMA HeadMoves ==
  ASSUME QueueInv, NEW t \in Threads, pc[t] \notin {"idle", "wait"},
         NEW x \in {"run", "bgwait"} \cup Leading, pc' = [pc EXCEPT ![t] = x],
         UNCHANGED <<writers, db>>, group' \in 0 .. Len(writers),
         x \in Leading => group' # 0
  PROVE  QueueInv'
<1>1. /\ 1 \in 1 .. Len(writers) /\ writers[1] = t
      /\ \A u \in Threads \ {t} : pc[u] \in {"idle", "wait"}
  BY HeadRuns, ZenonT(30)
<1>2. pc' \in [Threads -> {"idle", "wait", "run", "bgwait"} \cup Leading]
  BY DEF QueueInv
<1>3. \A u \in Threads : pc'[u] # "idle" <=> pc[u] # "idle"
  BY DEF QueueInv, Leading
<1>4. \A i \in 2 .. Len(writers) : pc'[writers[i]] = "wait"
  <2> SUFFICES ASSUME NEW i \in 2 .. Len(writers) PROVE pc'[writers[i]] = "wait"
    OBVIOUS
  <2>1. i \in 1 .. Len(writers) /\ i # 1 /\ writers[i] \in Threads
    BY DEF QueueInv
  <2>2. writers[i] # t
    BY <1>1, <2>1 DEF QueueInv
  <2>3. QED
    BY <2>1, <2>2 DEF QueueInv
<1>5. \A u \in Threads : pc'[u] \in Leading => group' # 0
  BY <1>1 DEF QueueInv, Leading
<1>6. QED
  BY <1>2, <1>3, <1>4, <1>5 DEF QueueInv

(* A group leaves the queue.                                               *)
LEMMA GroupLeaves ==
  ASSUME QueueInv, NEW n \in 1 .. Len(writers), Leave(n), db' = db
  PROVE  QueueInv'
<1> DEFINE L == Len(writers)
           rest == SubSeq(writers, n + 1, L)
           gone == Range(SubSeq(writers, 1, n))
<1>1. /\ L \in Nat /\ writers \in Seq(Threads)
      /\ \A i \in 1 .. L : writers[i] \in Threads
  BY DEF QueueInv
<1>2. /\ rest \in Seq(Threads) /\ Len(rest) = L - n
      /\ \A i \in 1 .. L - n : rest[i] = writers[n + i]
  BY <1>1
<1>3. gone = {writers[i] : i \in 1 .. n}
  <2>1. Len(SubSeq(writers, 1, n)) = n /\ \A i \in 1 .. n : SubSeq(writers, 1, n)[i] = writers[i]
    BY <1>1
  <2>2. DOMAIN SubSeq(writers, 1, n) = 1 .. n
    BY <1>1
  <2>3. QED
    BY <2>1, <2>2, ZenonT(30) DEF Range
<1>4. /\ writers' = rest /\ group' = 0
      /\ pc' = [t \in Threads |-> IF t \in gone THEN "idle"
                                  ELSE IF rest # <<>> /\ t = Head(rest) THEN "run" ELSE pc[t]]
  BY ZenonT(30) DEF Leave
<1>5. /\ \A t \in Threads : pc[t] # "idle" <=> \E i \in 1 .. L : writers[i] = t
      /\ \A i, j \in 1 .. L : writers[i] = writers[j] => i = j
      /\ \A i \in 2 .. L : pc[writers[i]] = "wait"
      /\ pc \in [Threads -> {"idle", "wait", "run", "bgwait"} \cup Leading]
      /\ db # "open" => writers = <<>>
  BY ZenonT(30) DEF QueueInv
<1>6. rest # <<>> <=> n < L
  <2>1. ASSUME NEW q \in Seq(Threads)
        PROVE  q # <<>> <=> Len(q) # 0
    OBVIOUS
  <2>2. rest # <<>> <=> Len(rest) # 0
    BY <1>2, <2>1, ZenonT(30)
  <2>3. QED
    BY <1>1, <1>2, <2>2
<1>7. rest # <<>> => Head(rest) = writers[n + 1]
  BY <1>1, <1>2, <1>6
<1> HIDE DEF rest, gone, L
<1>8. \A t \in Threads : pc'[t] # "idle" <=> \E i \in 1 .. L - n : rest[i] = t
  <2> SUFFICES ASSUME NEW t \in Threads
               PROVE  pc'[t] # "idle" <=> \E i \in 1 .. L - n : rest[i] = t
    BY ZenonT(30)
  <2>1. CASE t \in gone
    <3>1. pc'[t] = "idle"
      BY <1>4, <2>1, ZenonT(30)
    <3>2. ASSUME NEW i \in 1 .. L - n, rest[i] = t PROVE FALSE
      <4>1. PICK j \in 1 .. n : writers[j] = t
        BY <1>3, <2>1, ZenonT(30)
      <4>2. n + i \in 1 .. L /\ j \in 1 .. L /\ n + i # j
        BY <1>1 DEF L
      <4>3. writers[n + i] = t
        BY <1>2, <3>2, ZenonT(30)
      <4>4. QED
        BY <1>5, <4>1, <4>2, <4>3, ZenonT(30)
    <3>3. QED
      BY <3>1, <3>2, ZenonT(30)
  <2>2. CASE t \notin gone
    <3>1. pc'[t] # "idle" <=> pc[t] # "idle" \/ (rest # <<>> /\ t = Head(rest))
      BY <1>4, <2>2
    <3>2. (rest # <<>> /\ t = Head(rest)) => pc[t] # "idle"
      <4>1. rest # <<>> => n + 1 \in 1 .. L
        BY <1>1, <1>6 DEF L
      <4>2. QED
        BY <1>5, <1>7, <4>1, ZenonT(30)
    <3>3. ASSUME NEW i \in 1 .. L, writers[i] = t PROVE i - n \in 1 .. L - n /\ rest[i - n] = t
      <4>1. i \notin 1 .. n
        BY <1>3, <2>2, <3>3, ZenonT(30)
      <4>2. i - n \in 1 .. L - n /\ n + (i - n) = i
        BY <1>1, <4>1 DEF L
      <4>3. QED
        BY <1>2, <3>3, <4>2
    <3>4. ASSUME NEW i \in 1 .. L - n, rest[i] = t PROVE n + i \in 1 .. L /\ writers[n + i] = t
      BY <1>1, <1>2, <3>4 DEF L
    <3>5. QED
      BY <1>5, <3>1, <3>2, <3>3, <3>4, ZenonT(30)
  <2>3. QED
    BY <2>1, <2>2, ZenonT(30)
<1>9. \A i, j \in 1 .. L - n : rest[i] = rest[j] => i = j
  <2> SUFFICES ASSUME NEW i \in 1 .. L - n, NEW j \in 1 .. L - n, rest[i] = rest[j] PROVE i = j
    BY ZenonT(30)
  <2>1. n + i \in 1 .. L /\ n + j \in 1 .. L
    BY <1>1 DEF L
  <2>2. n + i = n + j
    <3>1. rest[i] = writers[n + i] /\ rest[j] = writers[n + j]
      BY <1>2, ZenonT(30)
    <3>2. writers[n + i] = writers[n + j]
      BY <3>1, ZenonT(30)
    <3>3. \A k, m \in 1 .. L : writers[k] = writers[m] => k = m
      BY <1>5, ZenonT(30)
    <3>4. QED
      BY <2>1, <3>2, <3>3, ZenonT(30)
  <2>3. QED
    BY <1>1, <2>2 DEF L
<1>10. \A i \in 2 .. L - n : pc'[rest[i]] = "wait"
  <2> SUFFICES ASSUME NEW i \in 2 .. L - n PROVE pc'[rest[i]] = "wait"
    BY ZenonT(30)
  <2>1. /\ n + i \in 2 .. L /\ n + i \in 1 .. L /\ n + 1 \in 1 .. L /\ n + i # n + 1
        /\ i \in 1 .. L - n /\ \A j \in 1 .. n : j \in 1 .. L /\ j # n + i
    BY <1>1 DEF L
  <2>2. rest[i] = writers[n + i] /\ rest[i] \in Threads /\ pc[rest[i]] = "wait"
    BY <1>1, <1>2, <1>5, <2>1 DEF L
  <2>3. rest[i] \notin gone
    BY <1>3, <1>5, <2>1, <2>2
  <2>4. rest # <<>> => rest[i] # Head(rest)
    BY <1>5, <1>7, <2>1, <2>2, ZenonT(30)
  <2>5. QED
    BY <1>4, <2>2, <2>3, <2>4, ZenonT(30)
<1>11. pc' \in [Threads -> {"idle", "wait", "run", "bgwait"} \cup Leading]
  BY <1>4, <1>5
<1>12. \A t \in Threads : pc'[t] \notin Leading
  <2> SUFFICES ASSUME NEW t \in Threads, pc'[t] \in Leading PROVE FALSE
    BY ZenonT(30)
  <2>1. t \notin gone /\ pc'[t] = pc[t] /\ pc[t] \in Leading
    BY <1>4 DEF Leading
  <2>2. pc[t] \notin {"idle", "wait"}
    BY <2>1 DEF Leading
  <2>3. writers[1] = t
    BY <2>2, HeadRuns, ZenonT(30)
  <2>4. 1 \in 1 .. n
    BY <1>1 DEF L
  <2>5. QED
    BY <1>3, <2>1, <2>3, <2>4, ZenonT(30)
<1>13. db' # "open" => rest = <<>>
  BY <1>1, <1>2, <1>5, <1>6 DEF L
<1>14. Len(writers') = L - n /\ writers' = rest /\ group' \in 0 .. Len(writers')
  BY <1>1, <1>2, <1>4 DEF L
<1>15. /\ writers' \in Seq(Threads)
       /\ \A t \in Threads : pc'[t] # "idle" <=> \E i \in 1 .. Len(writers') : writers'[i] = t
       /\ \A i, j \in 1 .. Len(writers') : writers'[i] = writers'[j] => i = j
       /\ \A i \in 2 .. Len(writers') : pc'[writers'[i]] = "wait"
  BY <1>2, <1>8, <1>9, <1>10, <1>14
<1>16. QED
  BY <1>11, <1>12, <1>13, <1>14, <1>15, ZenonT(30) DEF QueueInv

(* SignalAll wakes no one but the first.                                   *)
LEMMA SignalKeepsQueue ==
  ASSUME QueueInv, pc' = SignalAll(pc), UNCHANGED <<writers, group, db>>
  PROVE  QueueInv'
<1>1. /\ pc' \in [Threads -> {"idle", "wait", "run", "bgwait"} \cup Leading]
      /\ \A t \in Threads : pc'[t] # "idle" <=> pc[t] # "idle"
      /\ \A t \in Threads : pc[t] = "wait" => pc'[t] = "wait"
      /\ \A t \in Threads : pc'[t] \in Leading => pc[t] \in Leading
  BY DEF QueueInv, SignalAll, Leading
<1>2. \A i \in 2 .. Len(writers) : writers[i] \in Threads
  BY DEF QueueInv
<1>3. QED
  BY <1>1, <1>2 DEF QueueInv

-----------------------------------------------------------------------------
(* Files.                                                                  *)

(* VersionSet::Builder: a version after an edit has no files but its own   *)
(* and those the edit adds.                                                *)
LEMMA ApplyAdds ==
  ASSUME NEW v, NEW e
  PROVE  FilesOf(Apply(v, e)) \subseteq FilesOf(v) \cup {a[2].number : a \in e.added}
<1> SUFFICES ASSUME NEW l \in Levels, NEW f \in Apply(v, e)[l]
             PROVE  f.number \in FilesOf(v) \cup {a[2].number : a \in e.added}
  BY DEF FilesOf
<1>1. f \in v[l] \/ \E a \in e.added : f = a[2]
  BY ZenonT(30) DEF Apply
<1>2. QED
  BY <1>1 DEF FilesOf

FilesInv == DiskInv /\ ShapeInv /\ NumberInv /\ EditInv /\ ManifestInv /\ LiveInv

(* What the files depend on.                                               *)
fileVars == <<logs, tables, manifests, currentFile, db, logfile_number, versions,
              pending_outputs, bg_error, bg, reader>>

(* A step that touches neither files nor versions keeps the files.         *)
LEMMA FilesUnchanged ==
  ASSUME FilesInv, UNCHANGED fileVars
  PROVE  FilesInv'
<1> USE DEF fileVars
<1>1. DiskInv'
  BY ZenonT(30) DEF FilesInv, DiskInv, OnDisk
<1>2. ShapeInv' /\ NumberInv'
  BY ZenonT(30) DEF FilesInv, ShapeInv, NumberInv
<1>3. EditInv' /\ ManifestInv'
  BY ZenonT(30) DEF FilesInv, EditInv, ManifestInv, OnDisk, Opening
<1>4. LiveInv'
  BY ZenonT(30) DEF FilesInv, LiveInv
<1>5. QED
  BY <1>1, <1>2, <1>3, <1>4, ZenonT(30) DEF FilesInv

(* MaybeScheduleCompaction changes the thread at most from idle to         *)
(* scheduled.                                                              *)
LEMMA ScheduleKeeps ==
  ASSUME NEW b, NEW im, NEW vs, NEW error, IsBg(b)
  PROVE  SameWork(MaybeScheduleCompaction(b, im, vs, error), b)
  BY DEF MaybeScheduleCompaction, SameWork, IsBg

(* A writer is in Write only while the database is open.                   *)
LEMMA WriterOpen ==
  ASSUME QueueInv, NEW t \in Threads, pc[t] # "idle"
  PROVE  db = "open"
  BY DEF QueueInv

(* MakeRoomForWrite begins a log with a number nobody has used.            *)
LEMMA SwitchFiles ==
  ASSUME QueueInv, FilesInv, NEW t \in Threads, SwitchMemTable(t)
  PROVE  FilesInv'
<1>1. db = "open" /\ db' = "open"
  BY WriterOpen, ZenonT(30) DEF SwitchMemTable
<1>2. /\ logs' = WithFile(logs, versions.next, EmptyLog) /\ logfile_number' = versions.next
      /\ versions' = [versions EXCEPT !.next = @ + 1]
      /\ bg' = MaybeScheduleCompaction(bg, mem, versions', bg_error)
      /\ UNCHANGED <<tables, manifests, currentFile, pending_outputs, bg_error, reader>>
  BY ZenonT(30) DEF SwitchMemTable
<1>3. SameWork(bg', bg)
  BY <1>2, ScheduleKeeps DEF FilesInv, ShapeInv
<1>4. /\ DOMAIN logs' = DOMAIN logs \cup {versions.next} /\ logs'[versions.next] = EmptyLog
      /\ \A n \in DOMAIN logs \ {versions.next} : logs'[n] = logs[n]
  BY <1>2 DEF WithFile
<1>5. DiskInv'
  <2>1. IsLog(EmptyLog)
    BY DEF IsLog, IsSeq, EmptyLog
  <2>2. QED
    BY <1>2, <1>4, <2>1, ZenonT(30) DEF FilesInv, DiskInv, ShapeInv, OnDisk
<1>6. ShapeInv'
  BY <1>1, <1>2, <1>3 DEF FilesInv, SameWork, ShapeInv
<1>7. NumberInv'
  BY <1>1, <1>2, <1>4 DEF FilesInv, NumberInv, ShapeInv, DiskInv
<1>8. EditInv'
  BY <1>1, <1>2, <1>3 DEF FilesInv, SameWork, EditInv, NumberInv, ShapeInv, Opening, DiskInv
<1>9. ManifestInv'
  BY <1>1, <1>2, <1>3 DEF FilesInv, SameWork, ManifestInv, ShapeInv, OnDisk, DiskInv, IsManifest
<1>10. LiveInv'
  BY <1>1, <1>2, <1>3 DEF FilesInv, SameWork, LiveInv, ShapeInv
<1>11. QED
  BY <1>5, <1>6, <1>7, <1>8, <1>9, <1>10, ZenonT(30) DEF FilesInv

(* AddRecord and the sync change one log, and only grow it.                *)
LEMMA LogFiles ==
  ASSUME FilesInv, db = "open", NEW l, logs' = [logs EXCEPT ![logfile_number] = l], IsLog(l),
         UNCHANGED <<tables, manifests, currentFile, db, logfile_number, versions,
                     pending_outputs, bg_error, bg, reader>>
  PROVE  FilesInv'
<1>1. DOMAIN logs' = DOMAIN logs /\ \A n \in DOMAIN logs : logs'[n] = IF n = logfile_number THEN l ELSE logs[n]
  OBVIOUS
<1>2. DiskInv'
  BY <1>1, ZenonT(30) DEF FilesInv, DiskInv, OnDisk
<1>3. ShapeInv' /\ NumberInv'
  BY <1>1, ZenonT(30) DEF FilesInv, ShapeInv, NumberInv
<1>4. EditInv' /\ ManifestInv'
  BY ZenonT(30) DEF FilesInv, EditInv, ManifestInv, OnDisk, Opening
<1>5. LiveInv'
  BY ZenonT(30) DEF FilesInv, LiveInv
<1>6. QED
  BY <1>2, <1>3, <1>4, <1>5, ZenonT(30) DEF FilesInv

(* A record, or what is left of it, goes into the log that is written to.  *)
LEMMA AddRecordFiles ==
  ASSUME QueueInv, FilesInv, NEW t \in Threads, AddRecord(t)
  PROVE  FilesInv'
<1>1. db = "open"
  BY WriterOpen DEF AddRecord
<1>2. UNCHANGED <<tables, manifests, currentFile, db, logfile_number, versions,
                  pending_outputs, bg_error, bg, reader>>
  BY ZenonT(30) DEF AddRecord, memory
<1>3. CASE UNCHANGED logs
  BY <1>2, <1>3, FilesUnchanged, ZenonT(30) DEF fileVars
<1>4. ASSUME NEW rec, logs' = [logs EXCEPT ![logfile_number].recs = Append(@, rec)]
      PROVE  FilesInv'
  <2> DEFINE old == logs[logfile_number]
             new == [recs |-> Append(old.recs, rec), synced |-> old.synced]
  <2>1. logfile_number \in DOMAIN logs /\ IsLog(old)
    BY <1>1, ZenonT(30) DEF FilesInv, NumberInv, DiskInv
  <2>2. logs' = [logs EXCEPT ![logfile_number] = new]
    <3>1. [old EXCEPT !.recs = Append(old.recs, rec)] = new
      <4>1. \A o, x : o = [recs |-> o.recs, synced |-> o.synced] =>
              [o EXCEPT !.recs = x] = [recs |-> x, synced |-> o.synced]
        OBVIOUS
      <4>2. old = [recs |-> old.recs, synced |-> old.synced]
        BY <2>1, ZenonT(30) DEF IsLog
      <4>3. QED
        BY <4>1, <4>2, ZenonT(30)
    <3>2. logs' = [logs EXCEPT ![logfile_number] = [old EXCEPT !.recs = Append(old.recs, rec)]]
      BY <1>4, ZenonT(30)
    <3>3. QED
      BY <3>1, <3>2, ZenonT(30)
  <2>3. old.recs \in Seq({old.recs[i] : i \in 1 .. Len(old.recs)} \cup {rec})
    BY <2>1 DEF IsLog, IsSeq
  <2>4. IsLog(new)
    BY <2>1, <2>3 DEF IsLog, IsSeq
  <2>5. QED
    BY <1>1, <1>2, <2>2, <2>4, LogFiles, ZenonT(30)
<1>5. QED
  BY <1>3, <1>4, ZenonT(30) DEF AddRecord

(* The memtable takes the group, or the error of the log is recorded.      *)
LEMMA InsertIntoFiles ==
  ASSUME QueueInv, FilesInv, NEW t \in Threads, InsertInto(t)
  PROVE  FilesInv'
<1>1. db = "open"
  BY WriterOpen DEF InsertInto
<1>2. UNCHANGED <<tables, manifests, currentFile, db, logfile_number, versions,
                  pending_outputs, bg_error, bg, reader>>
  BY ZenonT(30) DEF InsertInto
<1>3. CASE UNCHANGED logs
  BY <1>2, <1>3, FilesUnchanged, ZenonT(30) DEF fileVars
<1>4. CASE logs' = [logs EXCEPT ![logfile_number].synced = Len(logs[logfile_number].recs)]
  <2> DEFINE old == logs[logfile_number]
             new == [recs |-> old.recs, synced |-> Len(old.recs)]
  <2>1. logfile_number \in DOMAIN logs /\ IsLog(old)
    BY <1>1, ZenonT(30) DEF FilesInv, NumberInv, DiskInv
  <2>2. logs' = [logs EXCEPT ![logfile_number] = new]
    <3>1. [old EXCEPT !.synced = Len(old.recs)] = new
      BY <2>1 DEF IsLog
    <3>2. logs' = [logs EXCEPT ![logfile_number] = [old EXCEPT !.synced = Len(old.recs)]]
      BY <1>4, ZenonT(30)
    <3>3. QED
      BY <3>1, <3>2, ZenonT(30)
  <2>3. IsLog(new)
    BY <2>1 DEF IsLog, IsSeq
  <2>4. QED
    BY <1>1, <1>2, <2>2, <2>3, LogFiles, ZenonT(30)
<1>5. QED
  BY <1>3, <1>4 DEF InsertInto

(* The writers of a group leave; no file is touched.                       *)
LEMMA FinishGroupFiles ==
  ASSUME FilesInv, NEW t \in Threads, FinishGroup(t)
  PROVE  FilesInv'
<1>1. /\ versions' = [versions EXCEPT !.last = @ + group] /\ (bg_error => bg_error')
      /\ UNCHANGED <<logs, tables, manifests, currentFile, db, logfile_number,
                     pending_outputs, bg, reader>>
  BY ZenonT(30) DEF FinishGroup, disk
<1>2. DiskInv'
  BY <1>1, ZenonT(30) DEF FilesInv, DiskInv, OnDisk
<1>3. ShapeInv'
  BY <1>1 DEF FilesInv, ShapeInv
<1>4. /\ versions'.current = versions.current /\ versions'.next = versions.next
      /\ versions'.log = versions.log /\ versions'.manifest = versions.manifest
      /\ versions'.seek = versions.seek
  BY <1>1 DEF FilesInv, ShapeInv
<1>5. NumberInv' /\ EditInv'
  BY <1>1, <1>4, ZenonT(30) DEF FilesInv, NumberInv, EditInv, Opening
<1>6. ManifestInv'
  BY <1>1, <1>4, ZenonT(30) DEF FilesInv, ManifestInv, OnDisk
<1>7. LiveInv'
  BY <1>1, <1>4, ZenonT(30) DEF FilesInv, LiveInv
<1>8. QED
  BY <1>2, <1>3, <1>5, <1>6, <1>7, ZenonT(30) DEF FilesInv

(* A reader refers to the version in use.                                  *)
LEMMA ReadStartFiles ==
  ASSUME FilesInv, ReadStart
  PROVE  FilesInv'
<1>1. /\ db = "open" /\ reader'.version = versions.current
      /\ UNCHANGED <<logs, tables, manifests, currentFile, db, logfile_number, versions,
                     pending_outputs, bg_error, bg>>
  BY DEF ReadStart, disk
<1>2. DiskInv'
  BY <1>1, ZenonT(30) DEF FilesInv, DiskInv, OnDisk
<1>3. ShapeInv' /\ NumberInv'
  BY <1>1, ZenonT(30) DEF FilesInv, ShapeInv, NumberInv
<1>4. EditInv' /\ ManifestInv'
  BY <1>1, ZenonT(30) DEF FilesInv, EditInv, ManifestInv, OnDisk, Opening
<1>5. LiveInv'
  BY <1>1 DEF FilesInv, LiveInv
<1>6. QED
  BY <1>2, <1>3, <1>4, <1>5, ZenonT(30) DEF FilesInv

(* The file that a lookup charges with its seek is a file of the version.  *)
LEMMA SeekInVersion ==
  ASSUME NEW v, NEW ts, NEW k, NEW s, NEW a \in SeekFile(v, ts, k, s)
  PROVE  a[1] \in Levels /\ a[2] \in v[a[1]]
<1>1. a \in FilesFor(v, k, s)
  BY DEF SeekFile
<1>2. QED
  BY <1>1 DEF FilesFor

(* A reader lets go of its version and may ask for a compaction.           *)
LEMMA ReadFinishFiles ==
  ASSUME FilesInv, ReadFinish
  PROVE  FilesInv'
<1>1. /\ reader' = None
      /\ bg' = MaybeScheduleCompaction(bg, imm, versions', bg_error)
      /\ UNCHANGED <<logs, tables, manifests, currentFile, db, logfile_number,
                     pending_outputs, bg_error>>
      /\ reader # None
  BY ZenonT(30) DEF ReadFinish, disk
<1>2. PICK f \in SeekFiles \cup {None} :
        versions' = IF f # None /\ reader.version = versions.current /\ versions.seek = None
                    THEN [versions EXCEPT !.seek = f] ELSE versions
  BY ZenonT(30) DEF ReadFinish
<1>3. db = "open"
  BY <1>1, ZenonT(30) DEF FilesInv, ShapeInv
<1>4. f # None => f[1] \in Levels /\ f[2] \in reader.version[f[1]]
  <2>1. SUFFICES ASSUME f # None PROVE f[1] \in Levels /\ f[2] \in reader.version[f[1]]
    BY ZenonT(30)
  <2>2. PICK k : f \in SeekFile(reader.version, tables, k, reader.seq)
    BY <2>1, ZenonT(30) DEF SeekFiles
  <2>3. QED
    BY <2>2, SeekInVersion, ZenonT(30)
<1>5. SameWork(bg', bg)
  BY <1>1, ScheduleKeeps DEF FilesInv, ShapeInv
<1>6. ShapeInv'
  BY <1>1, <1>2, <1>3, <1>5 DEF FilesInv, ShapeInv, SameWork
<1>7. /\ versions'.current = versions.current /\ versions'.next = versions.next
      /\ versions'.log = versions.log /\ versions'.manifest = versions.manifest
      /\ versions'.seek = versions.seek \/ (versions'.seek = f /\ f # None /\ reader.version = versions.current)
  BY <1>2 DEF FilesInv, ShapeInv
<1>8. DiskInv'
  BY <1>1, ZenonT(30) DEF FilesInv, DiskInv, OnDisk
<1>9. NumberInv'
  BY <1>1, <1>3, <1>7, ZenonT(30) DEF FilesInv, NumberInv
<1>10. EditInv'
  BY <1>1, <1>3, <1>5, <1>7, ZenonT(30) DEF FilesInv, EditInv, Opening, SameWork
<1>11. ManifestInv'
  BY <1>1, <1>3, <1>5, <1>7, ZenonT(30) DEF FilesInv, ManifestInv, OnDisk, SameWork
<1>12. LiveInv'
  BY <1>1, <1>3, <1>4, <1>5, <1>7 DEF FilesInv, LiveInv, SameWork
<1>13. QED
  BY <1>6, <1>8, <1>9, <1>10, <1>11, <1>12, ZenonT(30) DEF FilesInv

-----------------------------------------------------------------------------
(* The background thread.                                                  *)

(* A file of a level is a file of the version.                             *)
LEMMA FileOfVersion ==
  ASSUME NEW v, NEW l \in Levels, NEW f \in v[l]
  PROVE  f.number \in FilesOf(v)
<1>1. f.number \in {g.number : g \in v[l]}
  OBVIOUS
<1>2. QED
  BY <1>1, ZenonT(30) DEF FilesOf

(* A step that leaves the disk alone.                                      *)
LEMMA DiskSame ==
  ASSUME DiskInv, UNCHANGED <<logs, tables, manifests, currentFile>>
  PROVE  DiskInv'
  BY ZenonT(30) DEF DiskInv, OnDisk

(* A compaction of files of a level takes files of that level.             *)
LEMMA InputsInLevel ==
  ASSUME NEW v, NEW l, NEW files \in SUBSET v[l]
  PROVE  SetupOtherInputs(v, l, files).level = l /\ SetupOtherInputs(v, l, files).in0 \subseteq v[l]
<1>1. \A F \in SUBSET v[l] : AddBoundaryInputs(v[l], F) \subseteq v[l]
  BY DEF AddBoundaryInputs
<1>2. \A r : GetOverlappingInputs(v, l, r) \subseteq v[l]
  BY DEF GetOverlappingInputs, WidenedInputs
<1>3. QED
  BY <1>1, <1>2, ZenonT(30) DEF SetupOtherInputs

(* PickCompaction picks files of a level of the version.                   *)
LEMMA PickedInLevel ==
  ASSUME NEW v, NEW pointers, NEW seek, NeedsCompaction(v, seek),
         seek # None => seek[1] \in Levels /\ seek[2] \in v[seek[1]],
         NEW c \in PickCompaction(v, pointers, seek)
  PROVE  c.level \in Levels /\ c.in0 \subseteq v[c.level]
<1> DEFINE Picked(l, picked) == IF l = 0 THEN WidenedInputs(v[0], Range2(picked)) ELSE picked
<1>1. \A l, picked : picked \subseteq v[l] => Picked(l, picked) \subseteq v[l]
  BY DEF WidenedInputs
<1>2. CASE SizeCompaction(v)
  <2>1. PICK l \in CompactionLevel(v) : \E F \in SUBSET v[l] : c = SetupOtherInputs(v, l, Picked(l, F))
    BY <1>2, ZenonT(30) DEF PickCompaction, FirstFile
  <2>2. l \in Levels
    BY LevelAssumption DEF CompactionLevel, Levels
  <2>3. \A F \in SUBSET v[l] : Picked(l, F) \in SUBSET v[l]
    BY <1>1
  <2> HIDE DEF Picked
  <2>4. PICK F \in SUBSET v[l] : c = SetupOtherInputs(v, l, Picked(l, F))
    BY <2>1, ZenonT(30)
  <2>5. Picked(l, F) \in SUBSET v[l]
    BY <2>3, ZenonT(30)
  <2>6. c.level = l /\ c.in0 \subseteq v[l]
    BY <2>4, <2>5, InputsInLevel, ZenonT(30)
  <2>7. QED
    BY <2>2, <2>6, ZenonT(30)
<1>3. CASE ~SizeCompaction(v)
  <2>1. seek # None /\ seek[1] \in Levels /\ seek[2] \in v[seek[1]]
    BY <1>3, ZenonT(30) DEF NeedsCompaction
  <2>2. c = SetupOtherInputs(v, seek[1], Picked(seek[1], {seek[2]}))
    BY <1>3 DEF PickCompaction
  <2>3. Picked(seek[1], {seek[2]}) \in SUBSET v[seek[1]]
    BY <1>1, <2>1
  <2> HIDE DEF Picked
  <2>4. PICK l \in Levels : \E F \in SUBSET v[l] : c = SetupOtherInputs(v, l, F)
    BY <2>1, <2>2, <2>3, ZenonT(30)
  <2>5. PICK F \in SUBSET v[l] : c = SetupOtherInputs(v, l, F)
    BY <2>4, ZenonT(30)
  <2>6. c.level = l /\ c.in0 \subseteq v[l]
    BY <2>5, InputsInLevel, ZenonT(30)
  <2>7. QED
    BY <2>6, ZenonT(30)
<1>4. QED
  BY <1>2, <1>3

(* BackgroundCall ends.                                                    *)
LEMMA EndFiles ==
  ASSUME FilesInv, db = "open", NEW vs, NEW im, NEW error, bg' = MaybeScheduleCompaction(Idle, im, vs, error),
         bg_error => bg_error', ~bg_error' => bg.pc # "install",
         pending_outputs' \subseteq (pending_outputs \cap DOMAIN tables),
         UNCHANGED <<logs, tables, manifests, currentFile, db, logfile_number, versions, reader>>
  PROVE  FilesInv'
<1>0. IsBg(Idle) /\ Idle.pc = "idle" /\ Idle.comp = None
  BY DEF Idle, IsBg
<1>1. SameWork(bg', Idle) /\ bg'.comp = None /\ bg'.pc \in {"idle", "scheduled"}
  <2>1. SameWork(bg', Idle)
    BY <1>0, ScheduleKeeps, ZenonT(30)
  <2>2. QED
    BY <1>0, <2>1 DEF SameWork
<1>2. DiskInv'
  BY DiskSame, ZenonT(30) DEF FilesInv
<1>3. ShapeInv'
  BY <1>1 DEF FilesInv, ShapeInv, SameWork
<1>4. NumberInv'
  BY ZenonT(30) DEF FilesInv, NumberInv
<1>5. EditInv'
  BY <1>1 DEF FilesInv, EditInv, Opening
<1>6. ManifestInv'
  BY <1>1, ZenonT(30) DEF FilesInv, ManifestInv, OnDisk
<1>7. LiveInv'
  BY <1>1 DEF FilesInv, LiveInv
<1>8. QED
  BY <1>2, <1>3, <1>4, <1>5, <1>6, <1>7, ZenonT(30) DEF FilesInv

(* WriteLevel0Table takes a number that no file has.                       *)
LEMMA StartFlushFiles ==
  ASSUME FilesInv, bg.pc \in {"scheduled", "merge"}, StartFlush(bg),
         UNCHANGED <<logs, tables, manifests, currentFile, db, logfile_number, bg_error, reader>>
  PROVE  FilesInv'
<1>1. db = "open"
  BY DEF FilesInv, ShapeInv
<1>2. /\ versions' = [versions EXCEPT !.next = @ + 1]
      /\ bg' = [bg EXCEPT !.pc = "build", !.number = versions.next]
      /\ pending_outputs' = pending_outputs \cup {versions.next}
  BY ZenonT(30) DEF StartFlush
<1>3. /\ IsBg(bg') /\ bg'.pc = "build" /\ bg'.number = versions.next /\ bg'.comp = bg.comp
      /\ versions'.current = versions.current /\ versions'.next = versions.next + 1
      /\ versions'.log = versions.log /\ versions'.manifest = versions.manifest
      /\ versions'.seek = versions.seek /\ versions.next \in Nat
  BY <1>2, ZenonT(30) DEF FilesInv, ShapeInv, IsBg
<1>0. /\ \A n \in Nat : n < versions.next => n < versions.next + 1
      /\ \A n \in Nat : n <= versions.next => n <= versions.next + 1
      /\ versions.next < versions.next + 1
  BY <1>3
<1>4. DiskInv'
  BY DiskSame, ZenonT(30) DEF FilesInv
<1>5. ShapeInv'
  BY <1>1, <1>2, <1>3 DEF FilesInv, ShapeInv
<1>6. NumberInv'
  <2>1. \A n \in DOMAIN logs \cup DOMAIN tables : n \in Nat
    BY DEF FilesInv, DiskInv
  <2>2. QED
    BY <1>0, <1>1, <1>3, <2>1 DEF FilesInv, NumberInv
<1>7. EditInv'
  BY <1>1, <1>3, ZenonT(30) DEF FilesInv, EditInv, Opening
<1>8. ManifestInv'
  <2>1. OnDisk.next \in Nat
    BY ZenonT(30) DEF FilesInv, DiskInv, OnDisk, IsManifest
  <2>2. OnDisk.next <= versions.next + 1
    BY <1>0, <1>1, <2>1 DEF FilesInv, ManifestInv
  <2>3. QED
    BY <1>1, <1>3, <2>2 DEF FilesInv, ManifestInv, OnDisk
<1>9. LiveInv'
  <2>1. \A n \in DOMAIN tables : n < versions.next /\ n \in Nat
    BY <1>1, ZenonT(30) DEF FilesInv, NumberInv, DiskInv
  <2>2. bg'.comp # None => \A f \in bg'.comp.outputs : f.number \in DOMAIN tables \cap pending_outputs'
                                                        /\ f.number # bg'.number
    BY <1>2, <1>3, <2>1 DEF FilesInv, LiveInv
  <2>3. pending_outputs' \subseteq DOMAIN tables \cup {bg'.number}
    BY <1>2, <1>3 DEF FilesInv, LiveInv
  <2>4. bg'.number \in Nat /\ bg'.number < versions'.next
    BY <1>0, <1>3
  <2>5. QED
    BY <1>1, <1>3, <2>2, <2>3, <2>4, ZenonT(30) DEF FilesInv, LiveInv
<1>10. QED
  BY <1>4, <1>5, <1>6, <1>7, <1>8, <1>9, ZenonT(30) DEF FilesInv

(* A file that is only moved is a file of the version in use.              *)
LEMMA MoveFiles ==
  ASSUME FilesInv, bg.pc = "scheduled", NEW l \in Levels, NEW m, NEW moved \in versions.current[l],
         NEW deleted, NEW pointer, NEW p,
         versions' = [versions EXCEPT !.pointers = p],
         bg' = [bg EXCEPT !.pc = "manifest",
                  !.edit = Edit({<<m, moved>>}, deleted, versions.log, pointer, versions)],
         UNCHANGED <<logs, tables, manifests, currentFile, db, logfile_number, bg_error, reader,
                     pending_outputs>>
  PROVE  FilesInv'
<1> DEFINE e == Edit({<<m, moved>>}, deleted, versions.log, pointer, versions)
<1>1. db = "open"
  BY DEF FilesInv, ShapeInv
<1>2. /\ versions'.current = versions.current /\ versions'.next = versions.next
      /\ versions'.log = versions.log /\ versions'.manifest = versions.manifest
      /\ versions'.seek = versions.seek /\ versions.next \in Nat /\ versions.log \in Nat
  BY DEF FilesInv, ShapeInv
<1>3. DiskInv'
  BY DiskSame, ZenonT(30) DEF FilesInv
<1>4. IsBg(bg') /\ bg'.pc = "manifest" /\ bg'.edit = e /\ bg'.comp = bg.comp
  BY ZenonT(30) DEF FilesInv, ShapeInv, IsBg
<1>5. e.log = versions.log /\ e.next = versions.next /\ e.added = {<<m, moved>>}
  BY DEF Edit
<1>6. moved.number \in DOMAIN tables /\ moved.number < versions.next
  <2>1. moved.number \in FilesOf(versions.current)
    BY FileOfVersion
  <2>2. QED
    BY <1>1, <2>1 DEF FilesInv, LiveInv, NumberInv
<1> HIDE DEF e
<1>7. ShapeInv'
  BY <1>1, <1>4 DEF FilesInv, ShapeInv
<1>8. NumberInv'
  BY <1>2, ZenonT(30) DEF FilesInv, NumberInv
<1>9. EditInv'
  <2>1. \A a \in e.added : a[2] = moved
    BY <1>5
  <2>2. versions.log <= logfile_number
    BY <1>1 DEF FilesInv, NumberInv
  <2>3. \A a \in e.added : a[2].number \in DOMAIN tables /\ a[2].number < e.next
    BY <1>5, <1>6, <2>1
  <2>4. e.log \in Nat /\ e.log <= logfile_number /\ e.next \in Nat /\ e.next <= versions.next
    BY <1>2, <1>5, <2>2
  <2>5. QED
    BY <1>2, <1>4, <2>3, <2>4, ZenonT(30) DEF EditInv
<1>10. ManifestInv'
  BY <1>1, <1>2, <1>4, <1>5 DEF FilesInv, ManifestInv, OnDisk
<1>11. LiveInv'
  BY <1>1, <1>2, <1>4 DEF FilesInv, LiveInv
<1>12. QED
  BY <1>3, <1>7, <1>8, <1>9, <1>10, <1>11, ZenonT(30) DEF FilesInv

(* A compaction begins with the version in use, and no outputs.            *)
LEMMA MergeFiles ==
  ASSUME FilesInv, bg.pc = "scheduled", NEW c, NEW work \in CompactionWork(c), NEW p,
         versions' = [versions EXCEPT !.pointers = p],
         bg' = [bg EXCEPT !.pc = "merge", !.comp = work],
         UNCHANGED <<logs, tables, manifests, currentFile, db, logfile_number, bg_error, reader,
                     pending_outputs>>
  PROVE  FilesInv'
<1>1. db = "open"
  BY DEF FilesInv, ShapeInv
<1>2. /\ versions'.current = versions.current /\ versions'.next = versions.next
      /\ versions'.log = versions.log /\ versions'.manifest = versions.manifest
      /\ versions'.seek = versions.seek /\ versions.next \in Nat /\ versions.log \in Nat
  BY DEF FilesInv, ShapeInv
<1>3. DiskInv'
  BY DiskSame, ZenonT(30) DEF FilesInv
<1>4. /\ work.version = versions.current /\ work.outputs = {}
      /\ work = [c |-> work.c, version |-> work.version, outputs |-> work.outputs, todo |-> work.todo]
  <2>1. PICK todo : work = [c |-> c, version |-> versions.current, outputs |-> {}, todo |-> todo]
    BY ZenonT(30) DEF CompactionWork
  <2>2. QED
    BY <2>1
<1>5. IsBg(bg') /\ bg'.pc = "merge" /\ bg'.comp = work
  BY ZenonT(30) DEF FilesInv, ShapeInv, IsBg
<1>6. ShapeInv'
  BY <1>1, <1>5 DEF FilesInv, ShapeInv
<1>7. NumberInv'
  BY <1>2, ZenonT(30) DEF FilesInv, NumberInv
<1>8. EditInv'
  BY <1>1, <1>5 DEF EditInv, Opening
<1>9. ManifestInv'
  BY <1>1, <1>2, <1>5 DEF FilesInv, ManifestInv, OnDisk
<1>10. LiveInv'
  BY <1>1, <1>2, <1>4, <1>5 DEF FilesInv, LiveInv
<1>11. QED
  BY <1>3, <1>6, <1>7, <1>8, <1>9, <1>10, ZenonT(30) DEF FilesInv

(* A compaction begins, or a file is to be moved.                          *)
LEMMA PickFiles ==
  ASSUME FilesInv, bg.pc = "scheduled", NeedsCompaction(versions.current, versions.seek),
         NEW c \in PickCompaction(versions.current, versions.pointers, versions.seek),
         NEW moved, moved = CHOOSE f \in c.in0 : TRUE,
         versions' = [versions EXCEPT !.pointers[c.level] = c.pointer],
         IF IsTrivialMove(c)
         THEN bg' = [bg EXCEPT !.pc = "manifest",
                       !.edit = Edit({<<c.level + 1, moved>>}, {<<c.level, moved.number>>},
                                     versions.log, <<c.level, c.pointer>>, versions)]
         ELSE \E work \in CompactionWork(c) : bg' = [bg EXCEPT !.pc = "merge", !.comp = work],
         UNCHANGED <<logs, tables, manifests, currentFile, db, logfile_number, bg_error, reader,
                     pending_outputs>>
  PROVE  FilesInv'
<1>1. db = "open" /\ c.level \in Levels /\ c.in0 \subseteq versions.current[c.level]
  BY PickedInLevel, ZenonT(30) DEF FilesInv, ShapeInv, LiveInv
<1>2. PICK p : versions' = [versions EXCEPT !.pointers = p]
  BY ZenonT(30)
<1>3. CASE IsTrivialMove(c)
  <2>1. c.in0 # {}
    BY <1>3, ZenonT(30) DEF IsTrivialMove
  <2>2. moved \in versions.current[c.level]
    BY <1>1, <2>1, ZenonT(30)
  <2>3. PICK m, deleted, pointer :
          bg' = [bg EXCEPT !.pc = "manifest",
                   !.edit = Edit({<<m, moved>>}, deleted, versions.log, pointer, versions)]
    BY <1>3, ZenonT(30)
  <2>4. QED
    BY <1>1, <1>2, <2>2, <2>3, MoveFiles, ZenonT(30)
<1>4. CASE ~IsTrivialMove(c)
  BY <1>2, <1>4, MergeFiles, ZenonT(30)
<1>5. QED
  BY <1>3, <1>4, ZenonT(30)

(* BackgroundCall begins.                                                  *)
LEMMA BackgroundCallFiles ==
  ASSUME FilesInv, BackgroundCall
  PROVE  FilesInv'
<1>1. /\ bg.pc = "scheduled" /\ db = "open"
      /\ UNCHANGED <<logs, tables, manifests, currentFile, db, logfile_number, bg_error, reader>>
  BY ZenonT(30) DEF BackgroundCall, disk, FilesInv, ShapeInv
<1>2. CASE BackgroundEnd(versions, imm, bg_error) /\ UNCHANGED <<versions, pending_outputs>>
  <2>1. pending_outputs' \subseteq (pending_outputs \cap DOMAIN tables)
    BY <1>1, <1>2 DEF FilesInv, LiveInv
  <2>2. bg' = MaybeScheduleCompaction(Idle, imm, versions, bg_error)
    BY <1>2, ZenonT(30) DEF BackgroundEnd
  <2>3. QED
    BY <1>1, <1>2, <2>1, <2>2, EndFiles, ZenonT(30)
<1>3. CASE StartFlush(bg)
  BY <1>1, <1>3, StartFlushFiles
<1>4. CASE /\ NeedsCompaction(versions.current, versions.seek) /\ UNCHANGED pending_outputs
           /\ \E c \in PickCompaction(versions.current, versions.pointers, versions.seek) :
                LET moved == CHOOSE f \in c.in0 : TRUE
                IN /\ versions' = [versions EXCEPT !.pointers[c.level] = c.pointer]
                   /\ IF IsTrivialMove(c)
                      THEN bg' = [bg EXCEPT !.pc = "manifest",
                                    !.edit = Edit({<<c.level + 1, moved>>},
                                                  {<<c.level, moved.number>>},
                                                  versions.log, <<c.level, c.pointer>>, versions)]
                      ELSE \E work \in CompactionWork(c) :
                             bg' = [bg EXCEPT !.pc = "merge", !.comp = work]
  BY <1>1, <1>4, PickFiles, ZenonT(30)
<1>5. QED
  BY <1>2, <1>3, <1>4, ZenonT(30) DEF BackgroundCall

(* CompactMemTable fails: what it wrote may stay, and nothing goes.        *)
LEMMA FlushFailedFiles ==
  ASSUME FilesInv, bg.pc \in {"build", "install"}, FlushFailed,
         DOMAIN tables \subseteq DOMAIN tables',
         \A n \in DOMAIN tables' : n \in Nat /\ n < versions.next,
         pending_outputs' \subseteq DOMAIN tables,
         bg.comp # None => \A f \in bg.comp.outputs : f.number \in pending_outputs',
         UNCHANGED <<logs, manifests, currentFile, db, logfile_number, reader>>
  PROVE  FilesInv'
<1>1. db = "open"
  BY DEF FilesInv, ShapeInv
<1>2. /\ bg_error' = TRUE /\ versions' = versions
      /\ bg' = IF bg.comp # None THEN [bg EXCEPT !.pc = "merge", !.number = None, !.ok = TRUE] ELSE Idle
  BY ZenonT(30) DEF FlushFailed
<1>3. IsBg(bg') /\ bg'.pc \in {"merge", "idle"} /\ bg'.comp = bg.comp /\ (bg'.pc = "merge" <=> bg.comp # None)
  BY <1>2, ZenonT(30) DEF FilesInv, ShapeInv, IsBg, Idle
<1>4. DiskInv'
  BY DEF FilesInv, DiskInv, OnDisk
<1>5. ShapeInv'
  BY <1>1, <1>2, <1>3 DEF FilesInv, ShapeInv
<1>6. NumberInv'
  BY <1>1, <1>2 DEF FilesInv, NumberInv
<1>7. EditInv'
  BY <1>1, <1>3 DEF EditInv, Opening
<1>8. ManifestInv'
  BY <1>1, <1>2, <1>3 DEF FilesInv, ManifestInv, OnDisk
<1>9. LiveInv'
  BY <1>1, <1>2, <1>3 DEF FilesInv, LiveInv
<1>10. QED
  BY <1>4, <1>5, <1>6, <1>7, <1>8, <1>9, ZenonT(30) DEF FilesInv

(* The table of a flush is written under a number of its own.              *)
LEMMA BuildTableFiles ==
  ASSUME FilesInv, BuildTable
  PROVE  FilesInv'
<1>1. /\ bg.pc = "build" /\ db = "open" /\ pending_outputs' = pending_outputs \ {bg.number}
      /\ UNCHANGED <<logs, manifests, currentFile, db, logfile_number, reader>>
  BY DEF BuildTable, FilesInv, ShapeInv
<1>2. /\ pending_outputs' \subseteq DOMAIN tables
      /\ bg.comp # None => \A f \in bg.comp.outputs : f.number \in pending_outputs'
      /\ bg.number \in Nat /\ bg.number < versions.next
      /\ \A n \in DOMAIN tables \cup {bg.number} : n \in Nat /\ n < versions.next
  BY <1>1 DEF FilesInv, LiveInv, NumberInv, DiskInv
<1>3. CASE FlushFailed
  <2>1. DOMAIN tables' = DOMAIN tables \cup {bg.number} \/ tables' = tables
    BY <1>1 DEF BuildTable, WithFile
  <2>2. QED
    BY <1>1, <1>2, <1>3, <2>1, FlushFailedFiles
<1>4. CASE ~FlushFailed
  <2> DEFINE f == FileOf(bg.number, imm)
             level == PickLevelForMemTableOutput(versions.current, Range2({f}))
             e == Edit({<<level, f>>}, {}, logfile_number, None, versions)
  <2>1. /\ tables' = WithFile(tables, bg.number, imm)
        /\ bg' = [bg EXCEPT !.pc = "manifest", !.edit = e]
        /\ UNCHANGED <<versions, bg_error>>
    BY <1>4, ZenonT(30) DEF BuildTable
  <2>2. /\ f.number = bg.number /\ e.added = {<<level, f>>} /\ e.log = logfile_number
        /\ e.next = versions.next
    BY DEF FileOf, Edit
  <2> HIDE DEF f, e, level
  <2>3. IsBg(bg') /\ bg'.pc = "manifest" /\ bg'.edit = e /\ bg'.comp = bg.comp
    BY <2>1, ZenonT(30) DEF FilesInv, ShapeInv, IsBg
  <2>4. DOMAIN tables' = DOMAIN tables \cup {bg.number}
    BY <2>1 DEF WithFile
  <2>5. DiskInv'
    BY <1>1, <1>2, <2>4 DEF FilesInv, DiskInv, OnDisk
  <2>6. ShapeInv'
    BY <1>1, <2>1, <2>3 DEF FilesInv, ShapeInv
  <2>7. NumberInv'
    BY <1>1, <1>2, <2>1, <2>4 DEF FilesInv, NumberInv
  <2>8. EditInv'
    BY <1>1, <1>2, <2>1, <2>2, <2>3, <2>4 DEF FilesInv, EditInv, NumberInv, DiskInv, ShapeInv
  <2>9. ManifestInv'
    BY <1>1, <2>1, <2>2, <2>3 DEF FilesInv, ManifestInv, OnDisk
  <2>10. LiveInv'
    BY <1>1, <1>2, <2>1, <2>3, <2>4 DEF FilesInv, LiveInv
  <2>11. QED
    BY <2>5, <2>6, <2>7, <2>8, <2>9, <2>10, ZenonT(30) DEF FilesInv
<1>5. QED
  BY <1>3, <1>4, ZenonT(30)

(* The loop of DoCompactionWork flushes the immutable memtable first.      *)
LEMMA FlushInCompactionFiles ==
  ASSUME FilesInv, FlushInCompaction
  PROVE  FilesInv'
  BY StartFlushFiles, ZenonT(30) DEF FlushInCompaction, disk

(* An output of a compaction has a new number, and is pending.             *)
LEMMA WriteOutputFiles ==
  ASSUME FilesInv, WriteOutput
  PROVE  FilesInv'
<1> DEFINE f == FileOf(versions.next, Head(bg.comp.todo))
<1>1. /\ bg.pc = "merge"
      /\ bg' = [bg EXCEPT !.comp.todo = Tail(@), !.comp.outputs = @ \cup {f}]
      /\ tables' = WithFile(tables, versions.next, Head(bg.comp.todo))
      /\ versions' = [versions EXCEPT !.next = @ + 1]
      /\ pending_outputs' = pending_outputs \cup {versions.next}
      /\ UNCHANGED <<logs, manifests, currentFile, logfile_number, bg_error, reader, db>>
  BY ZenonT(30) DEF WriteOutput
<1>2. f.number = versions.next
  BY DEF FileOf
<1> HIDE DEF f
<1>3. db = "open"
  BY <1>1 DEF FilesInv, ShapeInv
<1>4. /\ versions'.current = versions.current /\ versions'.next = versions.next + 1
      /\ versions'.log = versions.log /\ versions'.manifest = versions.manifest
      /\ versions'.seek = versions.seek /\ versions.next \in Nat
  BY <1>1 DEF FilesInv, ShapeInv
<1>5. bg.comp = [c |-> bg.comp.c, version |-> bg.comp.version, outputs |-> bg.comp.outputs,
                 todo |-> bg.comp.todo]
  BY <1>1 DEF FilesInv, LiveInv
<1>6. /\ IsBg(bg') /\ bg'.pc = "merge" /\ bg'.comp.version = bg.comp.version
      /\ bg'.comp.outputs = bg.comp.outputs \cup {f}
      /\ bg'.comp = [c |-> bg'.comp.c, version |-> bg'.comp.version, outputs |-> bg'.comp.outputs,
                     todo |-> bg'.comp.todo]
  BY <1>1, <1>5, ZenonT(30) DEF FilesInv, ShapeInv, IsBg
<1>7. DOMAIN tables' = DOMAIN tables \cup {versions.next}
  BY <1>1 DEF WithFile
<1>8. DiskInv'
  BY <1>1, <1>4, <1>7 DEF FilesInv, DiskInv, OnDisk
<1>9. ShapeInv'
  BY <1>1, <1>3, <1>6 DEF FilesInv, ShapeInv
<1>10. NumberInv'
  BY <1>1, <1>3, <1>4, <1>7 DEF FilesInv, NumberInv, DiskInv
<1>11. EditInv'
  BY <1>1, <1>3, <1>6, ZenonT(30) DEF EditInv, Opening
<1>12. ManifestInv'
  BY <1>1, <1>3, <1>4, <1>6 DEF FilesInv, ManifestInv, OnDisk, DiskInv, IsManifest
<1>13. LiveInv'
  BY <1>1, <1>2, <1>3, <1>4, <1>6, <1>7 DEF FilesInv, LiveInv
<1>14. QED
  BY <1>8, <1>9, <1>10, <1>11, <1>12, <1>13, ZenonT(30) DEF FilesInv

(* A compaction that is abandoned leaves its outputs, which nobody needs.  *)
LEMMA AbandonCompactionFiles ==
  ASSUME FilesInv, AbandonCompaction
  PROVE  FilesInv'
<1>1. /\ bg.pc = "merge" /\ bg_error' = TRUE /\ pending_outputs' = {}
      /\ bg' = MaybeScheduleCompaction(Idle, imm, versions, TRUE)
      /\ UNCHANGED <<logs, tables, manifests, currentFile, db, logfile_number, versions, reader>>
  BY ZenonT(30) DEF AbandonCompaction, BackgroundEnd, disk
<1>2. db = "open"
  BY <1>1 DEF FilesInv, ShapeInv
<1>3. QED
  BY <1>1, <1>2, EndFiles, ZenonT(30)

(* The edit of a compaction adds its outputs.                              *)
LEMMA InstallCompactionResultsFiles ==
  ASSUME FilesInv, InstallCompactionResults
  PROVE  FilesInv'
<1> DEFINE c == bg.comp.c
           e == Edit({<<c.level + 1, f>> : f \in bg.comp.outputs},
                     {<<c.level, f.number>> : f \in c.in0}
                       \cup {<<c.level + 1, f.number>> : f \in c.in1},
                     versions.log, <<c.level, c.pointer>>, versions)
<1>1. /\ bg.pc = "merge" /\ bg' = [bg EXCEPT !.pc = "manifest", !.edit = e]
      /\ UNCHANGED <<logs, tables, manifests, currentFile, logfile_number, versions,
                     pending_outputs, bg_error, reader, db>>
  BY ZenonT(30) DEF InstallCompactionResults, disk
<1>2. /\ \A a \in e.added : a[2] \in bg.comp.outputs
      /\ e.log = versions.log /\ e.next = versions.next
  <2>1. e.added = {<<c.level + 1, f>> : f \in bg.comp.outputs} /\ e.log = versions.log /\ e.next = versions.next
    BY ZenonT(30) DEF Edit
  <2> HIDE DEF e, c
  <2>2. QED
    BY <2>1
<1> HIDE DEF e, c
<1>3. db = "open"
  BY <1>1 DEF FilesInv, ShapeInv
<1>4. IsBg(bg') /\ bg'.pc = "manifest" /\ bg'.edit = e /\ bg'.comp = bg.comp
  BY <1>1, ZenonT(30) DEF FilesInv, ShapeInv, IsBg
<1>5. DiskInv'
  BY <1>1, DiskSame, ZenonT(30) DEF FilesInv
<1>6. ShapeInv'
  BY <1>1, <1>3, <1>4 DEF FilesInv, ShapeInv
<1>7. NumberInv'
  BY <1>1, ZenonT(30) DEF FilesInv, NumberInv
<1>8. EditInv'
  BY <1>1, <1>2, <1>3, <1>4 DEF FilesInv, EditInv, NumberInv, DiskInv, ShapeInv, LiveInv
<1>9. ManifestInv'
  BY <1>1, <1>2, <1>3, <1>4 DEF FilesInv, ManifestInv, OnDisk
<1>10. LiveInv'
  BY <1>1, <1>3, <1>4 DEF FilesInv, LiveInv
<1>11. QED
  BY <1>5, <1>6, <1>7, <1>8, <1>9, <1>10, ZenonT(30) DEF FilesInv

(* What an edit makes of the manifest: the tables it names still exist and *)
(* are numbered below the next number.                                     *)
LEMMA ExtendedIsManifest ==
  ASSUME NEW m, NEW e, e.log \in Nat, e.next \in Nat,
         \A n \in FilesOf(m.levels) : n \in Nat /\ n < e.next,
         \A a \in e.added : a[2].number \in Nat /\ a[2].number < e.next
  PROVE  /\ IsManifest(Extended(m, e)) /\ Extended(m, e).levels = Apply(m.levels, e)
         /\ Extended(m, e).next = e.next
<1>1. \A n \in FilesOf(Apply(m.levels, e)) : n \in Nat /\ n < e.next
  BY ApplyAdds
<1>2. /\ Extended(m, e).levels = Apply(m.levels, e) /\ Extended(m, e).next = e.next
      /\ Extended(m, e).log = e.log
      /\ Extended(m, e) = [levels |-> Extended(m, e).levels, log |-> Extended(m, e).log,
                           next |-> Extended(m, e).next, last |-> Extended(m, e).last,
                           pointers |-> Extended(m, e).pointers]
  BY ZenonT(30) DEF Extended
<1>3. QED
  BY <1>1, <1>2 DEF IsManifest

(* The tables of the version that an edit makes exist.                     *)
LEMMA AppliedExists ==
  ASSUME NEW v, NEW e, NEW S, FilesOf(v) \subseteq S, \A a \in e.added : a[2].number \in S
  PROVE  FilesOf(Apply(v, e)) \subseteq S
  BY ApplyAdds

(* The edit is written to the manifest, or it is not.                      *)
LEMMA WriteManifestFiles ==
  ASSUME FilesInv, WriteManifest
  PROVE  FilesInv'
<1> DEFINE m == Extended(manifests[currentFile], bg.edit)
<1>1. /\ bg.pc = "manifest"
      /\ \/ /\ bg' = [bg EXCEPT !.pc = "install"]
            /\ manifests' = [manifests EXCEPT ![versions.manifest] = Extended(@, bg.edit)]
         \/ /\ bg' = [bg EXCEPT !.pc = "install", !.ok = FALSE]
            /\ manifests' \in {manifests, [manifests EXCEPT ![versions.manifest] = Extended(@, bg.edit)]}
      /\ UNCHANGED <<logs, tables, currentFile, logfile_number, versions, pending_outputs,
                     bg_error, reader, db>>
  BY ZenonT(30) DEF WriteManifest
<1>2. db = "open" /\ currentFile = versions.manifest /\ currentFile \in DOMAIN manifests
  BY <1>1 DEF FilesInv, ShapeInv, ManifestInv, DiskInv
<1>3. IsBg(bg') /\ bg'.pc = "install" /\ bg'.edit = bg.edit /\ bg'.comp = bg.comp
  BY <1>1, ZenonT(30) DEF FilesInv, ShapeInv, IsBg
<1>4. \/ manifests' = manifests /\ ~bg'.ok
      \/ DOMAIN manifests' = DOMAIN manifests /\ manifests'[currentFile] = m
         /\ \A n \in DOMAIN manifests \ {currentFile} : manifests'[n] = manifests[n]
  <2>1. CASE manifests' = [manifests EXCEPT ![versions.manifest] = Extended(@, bg.edit)]
    BY <1>2, <2>1
  <2>2. CASE manifests' = manifests /\ bg' = [bg EXCEPT !.pc = "install", !.ok = FALSE]
    BY <2>2 DEF FilesInv, ShapeInv, IsBg
  <2>3. QED
    BY <1>1, <2>1, <2>2
<1>5. /\ IsManifest(m) /\ m.levels = Apply(OnDisk.levels, bg.edit) /\ m.next = bg.edit.next
      /\ FilesOf(m.levels) \subseteq DOMAIN tables
  <2>1. /\ IsManifest(OnDisk) /\ OnDisk.next <= bg.edit.next /\ bg.edit.log \in Nat /\ bg.edit.next \in Nat
        /\ \A n \in FilesOf(OnDisk.levels) : n \in DOMAIN tables /\ n \in Nat /\ n < OnDisk.next
        /\ \A a \in bg.edit.added : a[2].number \in DOMAIN tables /\ a[2].number < bg.edit.next
        /\ DOMAIN tables \subseteq Nat /\ OnDisk.next \in Nat
    BY <1>1, <1>2 DEF FilesInv, DiskInv, EditInv, ManifestInv, OnDisk, IsManifest
  <2>2. \A n \in FilesOf(OnDisk.levels) : n \in Nat /\ n < bg.edit.next
    BY <2>1
  <2>3. IsManifest(m) /\ m.levels = Apply(OnDisk.levels, bg.edit) /\ m.next = bg.edit.next
    BY <2>1, <2>2, ExtendedIsManifest, ZenonT(30) DEF OnDisk
  <2>4. FilesOf(Apply(OnDisk.levels, bg.edit)) \subseteq DOMAIN tables
    BY <2>1, AppliedExists
  <2>5. QED
    BY <2>3, <2>4, ZenonT(30)
<1> HIDE DEF m
<1>6. \/ OnDisk' = OnDisk /\ ~bg'.ok
      \/ OnDisk' = m
  BY <1>1, <1>4 DEF OnDisk
<1>7. DiskInv'
  <2>1. DOMAIN manifests' = DOMAIN manifests /\ \A n \in DOMAIN manifests : IsManifest(manifests'[n])
    BY <1>2, <1>4, <1>5 DEF FilesInv, DiskInv
  <2>2. FilesOf(OnDisk'.levels) \subseteq DOMAIN tables
    BY <1>5, <1>6 DEF FilesInv, DiskInv
  <2>3. QED
    BY <1>1, <2>1, <2>2 DEF FilesInv, DiskInv
<1>8. ShapeInv'
  BY <1>1, <1>2, <1>3 DEF FilesInv, ShapeInv
<1>9. NumberInv'
  BY <1>1, ZenonT(30) DEF FilesInv, NumberInv
<1>10. EditInv'
  BY <1>1, <1>3 DEF FilesInv, EditInv
<1>11. ManifestInv'
  <2>1. OnDisk'.next <= versions.next
    BY <1>1, <1>2, <1>5, <1>6 DEF FilesInv, ManifestInv, EditInv
  <2>2. ~bg_error /\ bg'.ok => OnDisk'.levels = Apply(versions.current, bg.edit)
    BY <1>1, <1>2, <1>5, <1>6 DEF FilesInv, ManifestInv
  <2>3. QED
    BY <1>1, <1>2, <1>3, <2>1, <2>2 DEF ManifestInv
<1>12. LiveInv'
  BY <1>1, <1>2, <1>3 DEF FilesInv, LiveInv
<1>13. QED
  BY <1>7, <1>8, <1>9, <1>10, <1>11, <1>12, ZenonT(30) DEF FilesInv

(* The version is installed, and the files go that nothing refers to: not  *)
(* the tables in S, and no more than the obsolete logs and manifests.      *)
LEMMA InstallFiles ==
  ASSUME FilesInv, db = "open" \/ db = "finish", db' = "open",
         bg.pc = "install" \/ db = "finish",
         db = "open" => bg.ok,
         versions' = Installed(bg.edit), NEW S,
         \/ UNCHANGED <<tables, logs, manifests>> /\ bg_error /\ db = "open"
         \/ UNCHANGED <<tables, logs, manifests>> /\ bg.comp = None /\ db = "open"
         \/ /\ ~bg_error \/ db = "finish"
            /\ tables' = RestrictTo(tables, S)
            /\ logs' = RestrictTo(logs, {n \in DOMAIN logs : n >= versions'.log})
            /\ manifests' = RestrictTo(manifests, {n \in DOMAIN manifests : n >= versions'.manifest}),
         FilesOf(versions'.current) \subseteq S,
         reader # None => FilesOf(reader.version) \subseteq S,
         db = "finish" => S \subseteq FilesOf(versions'.current),
         UNCHANGED <<currentFile, logfile_number, bg_error, reader>>,
         IsBg(bg'), bg'.pc \in {"merge", "idle", "scheduled"},
         bg'.comp # None \/ bg'.pc = "merge" =>
           /\ bg'.comp = bg.comp /\ bg.comp # None
           /\ pending_outputs' = pending_outputs /\ pending_outputs \subseteq S
           /\ FilesOf(bg.comp.version) \subseteq S,
         pending_outputs' = {} \/ (pending_outputs' = pending_outputs /\ pending_outputs \subseteq S)
  PROVE  FilesInv'
<1>1. /\ versions'.current = Apply(versions.current, bg.edit) /\ versions'.next = versions.next
      /\ versions'.log = bg.edit.log /\ versions'.manifest = versions.manifest
      /\ versions'.seek = None
      /\ versions' = [current |-> versions'.current, log |-> versions'.log, next |-> versions'.next,
                      last |-> versions'.last, manifest |-> versions'.manifest,
                      pointers |-> versions'.pointers, seek |-> versions'.seek]
  BY ZenonT(30) DEF FilesInv, ShapeInv, Installed
<1>2. /\ bg.edit.log \in Nat /\ bg.edit.log <= logfile_number
      /\ bg.edit.next \in Nat /\ bg.edit.next <= versions.next /\ versions.next \in Nat
      /\ \A a \in bg.edit.added : a[2].number \in DOMAIN tables /\ a[2].number < bg.edit.next
  BY DEF FilesInv, EditInv, Opening, ShapeInv
<1>3. FilesOf(versions'.current) \subseteq DOMAIN tables
  <2>1. FilesOf(versions.current) \subseteq DOMAIN tables
    BY ZenonT(30) DEF FilesInv, LiveInv
  <2>2. \A a \in bg.edit.added : a[2].number \in DOMAIN tables
    BY <1>2, ZenonT(30)
  <2>3. FilesOf(Apply(versions.current, bg.edit)) \subseteq DOMAIN tables
    BY <2>1, <2>2, AppliedExists, ZenonT(30)
  <2>4. QED
    BY <1>1, <2>3, ZenonT(30)
<1>4. \A n \in FilesOf(versions'.current) : n \in Nat /\ n < versions.next
  <2>1. \A n \in FilesOf(versions.current) : n \in Nat /\ n < versions.next
    BY ZenonT(30) DEF FilesInv, NumberInv
  <2>2. \A a \in bg.edit.added : a[2].number \in Nat /\ a[2].number < versions.next
    <3>1. \A n \in Nat : n < bg.edit.next => n < versions.next
      BY <1>2
    <3>2. DOMAIN tables \subseteq Nat
      BY ZenonT(30) DEF FilesInv, DiskInv
    <3>3. QED
      BY <1>2, <3>1, <3>2, ZenonT(30)
  <2> DEFINE N == {n \in Nat : n < versions.next}
  <2>3. FilesOf(versions.current) \subseteq N /\ \A a \in bg.edit.added : a[2].number \in N
    BY <2>1, <2>2, ZenonT(30)
  <2> HIDE DEF N
  <2>4. FilesOf(versions'.current) \subseteq N
    BY <1>1, <2>3, AppliedExists, ZenonT(30)
  <2>5. QED
    BY <2>4 DEF N
<1>5. /\ DOMAIN tables' \subseteq DOMAIN tables /\ (DOMAIN tables) \cap S \subseteq DOMAIN tables'
      /\ DOMAIN logs' \subseteq DOMAIN logs /\ logfile_number \in DOMAIN logs'
      /\ \A n \in DOMAIN logs' : logs'[n] = logs[n]
      /\ DOMAIN manifests' \subseteq DOMAIN manifests /\ currentFile \in DOMAIN manifests'
      /\ \A n \in DOMAIN manifests' : manifests'[n] = manifests[n]
  <2>1. /\ logfile_number \in DOMAIN logs /\ logfile_number \in Nat /\ currentFile \in DOMAIN manifests
        /\ currentFile = versions.manifest /\ currentFile \in Nat
    BY ZenonT(30) DEF FilesInv, NumberInv, DiskInv, ManifestInv
  <2>2. QED
    BY <1>1, <1>2, <2>1 DEF RestrictTo
<1>6. OnDisk' = OnDisk /\ (~bg_error \/ db = "finish" => OnDisk.levels = versions'.current)
  <2>1. OnDisk' = OnDisk
    BY <1>5, ZenonT(30) DEF OnDisk
  <2>2. ~bg_error \/ db = "finish" => OnDisk.levels = versions'.current
    BY <1>1 DEF FilesInv, ManifestInv, OnDisk
  <2>3. QED
    BY <2>1, <2>2, ZenonT(30)
<1>7. DiskInv'
  <2>1. FilesOf(OnDisk'.levels) \subseteq DOMAIN tables'
    <3>1. CASE tables' = tables
      BY <1>6, <3>1, ZenonT(30) DEF FilesInv, DiskInv
    <3>2. CASE ~bg_error \/ db = "finish"
      BY <1>3, <1>5, <1>6, <3>2, ZenonT(30)
    <3>3. QED
      BY <3>1, <3>2, ZenonT(30)
  <2>2. QED
    BY <1>5, <2>1, ZenonT(30) DEF FilesInv, DiskInv
<1>8. ShapeInv'
  BY <1>1, <1>2 DEF FilesInv, ShapeInv
<1>9. NumberInv'
  <2>1. \A n \in DOMAIN tables' : n < versions.next
    BY <1>4, <1>5 DEF FilesInv, NumberInv, RestrictTo
  <2>2. QED
    BY <1>1, <1>2, <1>4, <1>5, <2>1, ZenonT(30) DEF FilesInv, NumberInv
<1>10. EditInv'
  BY ZenonT(30) DEF EditInv, Opening
<1>11. ManifestInv'
  BY <1>1, <1>6, ZenonT(30) DEF FilesInv, ManifestInv, OnDisk
<1>12. LiveInv'
  BY <1>1, <1>3, <1>5, ZenonT(30) DEF FilesInv, LiveInv
<1>13. QED
  BY <1>7, <1>8, <1>9, <1>10, <1>11, <1>12, ZenonT(30) DEF FilesInv

(* A flush is done: the versions that are read or compacted keep their     *)
(* tables, and so do the pending outputs.                                  *)
LEMMA InstallFlushFiles ==
  ASSUME FilesInv, InstallFlush
  PROVE  FilesInv'
<1> DEFINE S == pending_outputs \cup LiveFiles(versions'.current)
<1>1. /\ bg.pc = "install" /\ bg.ok /\ versions' = Installed(bg.edit)
      /\ \/ bg_error /\ UNCHANGED <<tables, logs, manifests>>
         \/ ~bg_error /\ DeleteObsoleteFiles(versions', pending_outputs, TRUE)
      /\ bg' = IF bg.comp # None THEN [bg EXCEPT !.pc = "merge", !.number = None]
                                 ELSE MaybeScheduleCompaction(Idle, None, versions', bg_error)
      /\ UNCHANGED <<currentFile, logfile_number, pending_outputs, bg_error, reader, db>>
  BY ZenonT(30) DEF InstallFlush
<1>2. db = "open"
  BY <1>1, ZenonT(30) DEF FilesInv, ShapeInv
<1>3. /\ IsBg(bg') /\ bg'.pc \in {"merge", "idle", "scheduled"}
      /\ bg'.comp # None \/ bg'.pc = "merge" => bg'.comp = bg.comp /\ bg.comp # None
  <2>1. CASE bg.comp # None
    BY <1>1, <2>1, ZenonT(30) DEF FilesInv, ShapeInv, IsBg
  <2>2. CASE bg.comp = None
    <3>1. IsBg(Idle) /\ Idle.pc = "idle" /\ Idle.comp = None
      BY DEF Idle, IsBg
    <3>2. SameWork(bg', Idle)
      BY <1>1, <2>2, <3>1, ScheduleKeeps, ZenonT(30)
    <3>3. QED
      BY <3>1, <3>2 DEF SameWork
  <2>3. QED
    BY <2>1, <2>2
<1>4. /\ FilesOf(versions'.current) \subseteq S /\ pending_outputs \subseteq S
      /\ reader # None => FilesOf(reader.version) \subseteq S
      /\ bg.comp # None => FilesOf(bg.comp.version) \subseteq S
  BY DEF LiveFiles
<1>5. ~bg_error => /\ tables' = RestrictTo(tables, S)
                   /\ logs' = RestrictTo(logs, {n \in DOMAIN logs : n >= versions'.log})
                   /\ manifests' = RestrictTo(manifests, {n \in DOMAIN manifests : n >= versions'.manifest})
  BY <1>1 DEF DeleteObsoleteFiles
<1> HIDE DEF S
<1>6. QED
  BY <1>1, <1>2, <1>3, <1>4, <1>5, InstallFiles, ZenonT(30)

(* A compaction is done: its inputs go, unless a reader has them.          *)
LEMMA InstallCompactionFiles ==
  ASSUME FilesInv, InstallCompaction
  PROVE  FilesInv'
<1> DEFINE S == {} \cup (FilesOf(versions'.current)
                         \cup (IF reader = None THEN {} ELSE FilesOf(reader.version)))
<1>1. /\ bg.pc = "install" /\ bg.ok /\ versions' = Installed(bg.edit)
      /\ \/ (bg.comp = None \/ bg_error) /\ UNCHANGED <<tables, logs, manifests>>
         \/ ~bg_error /\ DeleteObsoleteFiles(versions', {}, FALSE)
      /\ bg' = MaybeScheduleCompaction(Idle, imm, versions', bg_error)
      /\ pending_outputs' = {}
      /\ UNCHANGED <<currentFile, logfile_number, bg_error, reader, db>>
  BY ZenonT(30) DEF InstallCompaction, BackgroundEnd
<1>2. db = "open"
  BY <1>1 DEF FilesInv, ShapeInv
<1>3. IsBg(bg') /\ bg'.pc \in {"idle", "scheduled"} /\ bg'.comp = None
  <2>1. IsBg(Idle) /\ Idle.pc = "idle" /\ Idle.comp = None
    BY DEF Idle, IsBg
  <2>2. SameWork(bg', Idle)
    BY <1>1, <2>1, ScheduleKeeps, ZenonT(30)
  <2>3. QED
    BY <2>1, <2>2 DEF SameWork
<1>4. /\ FilesOf(versions'.current) \subseteq S
      /\ reader # None => FilesOf(reader.version) \subseteq S
  OBVIOUS
<1>5. \/ (bg.comp = None \/ bg_error) /\ UNCHANGED <<tables, logs, manifests>>
      \/ /\ ~bg_error /\ tables' = RestrictTo(tables, S)
         /\ logs' = RestrictTo(logs, {n \in DOMAIN logs : n >= versions'.log})
         /\ manifests' = RestrictTo(manifests, {n \in DOMAIN manifests : n >= versions'.manifest})
  BY <1>1, ZenonT(30) DEF DeleteObsoleteFiles
<1> HIDE DEF S
<1>6. QED
  BY <1>1, <1>2, <1>3, <1>4, <1>5, InstallFiles, ZenonT(30)

(* LogAndApply failed.                                                     *)
LEMMA InstallFailedFiles ==
  ASSUME FilesInv, InstallFailed
  PROVE  FilesInv'
<1>1. /\ bg.pc = "install"
      /\ UNCHANGED <<logs, tables, manifests, currentFile, db, logfile_number, reader>>
  BY ZenonT(30) DEF InstallFailed, disk
<1>2. db = "open" /\ versions.next \in Nat
  BY <1>1 DEF FilesInv, ShapeInv
<1>3. CASE FlushFailed /\ UNCHANGED pending_outputs
  <2>1. /\ \A n \in DOMAIN tables' : n \in Nat /\ n < versions.next
        /\ DOMAIN tables \subseteq DOMAIN tables' /\ pending_outputs' \subseteq DOMAIN tables
        /\ bg.comp # None => \A f \in bg.comp.outputs : f.number \in pending_outputs'
    BY <1>1, <1>2, <1>3, ZenonT(30) DEF FilesInv, NumberInv, DiskInv, LiveInv
  <2>2. QED
    BY <1>1, <1>3, <2>1, FlushFailedFiles
<1>4. CASE /\ bg_error' = TRUE /\ pending_outputs' = {}
           /\ BackgroundEnd(versions, imm, TRUE) /\ UNCHANGED <<versions, imm>>
  <2>1. bg' = MaybeScheduleCompaction(Idle, imm, versions, TRUE)
    BY <1>4, ZenonT(30) DEF BackgroundEnd
  <2>2. QED
    BY <1>1, <1>2, <1>4, <2>1, EndFiles, ZenonT(30)
<1>5. QED
  BY <1>3, <1>4, ZenonT(30) DEF InstallFailed

-----------------------------------------------------------------------------
(* Closing, crashing, and opening again.                                   *)

(* The process is gone, and the logs are logs still.                       *)
LEMMA DownFiles ==
  ASSUME FilesInv, NEW ls, Down(ls), DOMAIN ls = DOMAIN logs, \A n \in DOMAIN ls : IsLog(ls[n])
  PROVE  FilesInv'
<1>1. /\ logs' = ls /\ db' = "closed" /\ versions' = NoVersions /\ pending_outputs' = {}
      /\ bg' = Idle /\ reader' = None /\ UNCHANGED <<tables, manifests, currentFile>>
  BY ZenonT(30) DEF Down
<1>2. DiskInv'
  BY <1>1, ZenonT(30) DEF FilesInv, DiskInv, OnDisk
<1>3. ShapeInv'
  BY <1>1, ZenonT(30) DEF ShapeInv, NoVersions, Idle, IsBg
<1>4. NumberInv' /\ EditInv' /\ ManifestInv'
  BY <1>1, ZenonT(30) DEF NumberInv, EditInv, Opening, ManifestInv, Idle
<1>5. LiveInv'
  BY <1>1 DEF LiveInv, NoVersions, Idle
<1>6. QED
  BY <1>2, <1>3, <1>4, <1>5, ZenonT(30) DEF FilesInv

(* A crash cuts the end off the logs.                                      *)
LEMMA CrashFiles ==
  ASSUME FilesInv, Crash
  PROVE  FilesInv'
<1> DEFINE Cut(keep) == [n \in DOMAIN logs |-> [recs |-> SubSeq(logs[n].recs, 1, keep[n]),
                                                synced |-> keep[n]]]
<1>1. PICK keep : /\ \A n \in DOMAIN logs : keep[n] \in logs[n].synced .. Len(logs[n].recs)
                  /\ Down(Cut(keep))
  BY ZenonT(30) DEF Crash
<1>2. ASSUME NEW n \in DOMAIN logs
      PROVE  IsLog(Cut(keep)[n])
  <2> DEFINE s == logs[n].recs
             k == keep[n]
             V == {s[i] : i \in 1 .. Len(s)}
  <2>1. IsSeq(s) /\ logs[n].synced \in 0 .. Len(s)
    BY <1>2, ZenonT(30) DEF FilesInv, DiskInv, IsLog
  <2>2. k \in 0 .. Len(s) /\ Len(s) \in Nat
    BY <1>1, <2>1 DEF IsSeq
  <2>3. s \in Seq(V)
    BY <2>1 DEF IsSeq
  <2> HIDE DEF V, s, k
  <2>4. SubSeq(s, 1, k) = [i \in 1 .. k |-> s[i]] /\ Len(SubSeq(s, 1, k)) = k
    BY <2>2, <2>3
  <2>5. IsSeq(SubSeq(s, 1, k))
    BY <2>2, <2>4 DEF IsSeq
  <2>6. Cut(keep)[n] = [recs |-> SubSeq(s, 1, k), synced |-> k]
    BY DEF s, k
  <2> HIDE DEF Cut
  <2>7. k \in 0 .. Len(SubSeq(s, 1, k))
    BY <2>2, <2>4
  <2>8. ASSUME NEW r, NEW l, l = [recs |-> r, synced |-> k], IsSeq(r), k \in 0 .. Len(r)
        PROVE  IsLog(l)
    BY <2>8 DEF IsLog
  <2>9. QED
    BY <2>5, <2>6, <2>7, <2>8, ZenonT(30)
<1>3. DOMAIN Cut(keep) = DOMAIN logs
  OBVIOUS
<1> HIDE DEF Cut
<1>4. QED
  BY <1>1, <1>2, <1>3, DownFiles

(* ~DBImpl leaves the logs as they are.                                    *)
LEMMA ClosedFiles ==
  ASSUME FilesInv, Closed
  PROVE  FilesInv'
  BY DownFiles, ZenonT(30) DEF Closed, FilesInv, DiskInv

(* Open begins a manifest that says what the version will.                 *)
LEMMA NewManifestFiles ==
  ASSUME FilesInv, NewManifest
  PROVE  FilesInv'
<1> DEFINE base == [OnDisk EXCEPT !.levels = versions.current]
           m == Extended(base, bg.edit)
<1>1. /\ db = "manifest" /\ db' = "current" /\ manifests' = WithFile(manifests, versions.manifest, m)
      /\ UNCHANGED <<logs, tables, currentFile, logfile_number, versions, pending_outputs, bg_error,
                     bg, reader>>
  BY ZenonT(30) DEF NewManifest
<1>2. /\ IsManifest(OnDisk) /\ versions.manifest \in Nat /\ currentFile \in DOMAIN manifests
      /\ bg.edit.log \in Nat /\ bg.edit.next \in Nat /\ bg.edit.next <= versions.next
      /\ \A n \in FilesOf(versions.current) : n \in DOMAIN tables /\ n \in Nat /\ n < bg.edit.next
      /\ \A a \in bg.edit.added : a[2].number \in DOMAIN tables /\ a[2].number \in Nat
                                  /\ a[2].number < bg.edit.next
  BY <1>1 DEF FilesInv, DiskInv, OnDisk, ShapeInv, EditInv, Opening, NumberInv, LiveInv, ManifestInv
<1>3. base.levels = versions.current
  BY <1>2 DEF IsManifest
<1> HIDE DEF base
<1>4. /\ IsManifest(m) /\ m.levels = Apply(versions.current, bg.edit) /\ m.next = bg.edit.next
      /\ FilesOf(m.levels) \subseteq DOMAIN tables
  <2>1. IsManifest(m) /\ m.levels = Apply(versions.current, bg.edit) /\ m.next = bg.edit.next
    BY <1>2, <1>3, ExtendedIsManifest
  <2>2. FilesOf(Apply(versions.current, bg.edit)) \subseteq DOMAIN tables
    BY <1>2, AppliedExists
  <2>3. QED
    BY <2>1, <2>2, ZenonT(30)
<1> HIDE DEF m
<1>5. /\ DOMAIN manifests' = DOMAIN manifests \cup {versions.manifest}
      /\ manifests'[versions.manifest] = m
      /\ \A n \in DOMAIN manifests \ {versions.manifest} : manifests'[n] = manifests[n]
  BY <1>1 DEF WithFile
<1>6. DiskInv'
  <2>1. \A n \in DOMAIN manifests' : n \in Nat /\ IsManifest(manifests'[n])
    BY <1>2, <1>4, <1>5, ZenonT(30) DEF FilesInv, DiskInv
  <2>2. FilesOf(OnDisk'.levels) \subseteq DOMAIN tables
    BY <1>1, <1>2, <1>4, <1>5, ZenonT(30) DEF FilesInv, DiskInv, OnDisk
  <2>3. QED
    BY <1>1, <1>2, <1>5, <2>1, <2>2, ZenonT(30) DEF FilesInv, DiskInv
<1>7. ShapeInv' /\ NumberInv' /\ EditInv'
  BY <1>1 DEF FilesInv, ShapeInv, NumberInv, EditInv, Opening
<1>8. ManifestInv'
  BY <1>1, <1>2, <1>4, <1>5, ZenonT(30) DEF ManifestInv
<1>9. LiveInv'
  BY <1>1, ZenonT(30) DEF FilesInv, LiveInv
<1>10. QED
  BY <1>6, <1>7, <1>8, <1>9, ZenonT(30) DEF FilesInv

(* CURRENT names the new manifest.                                         *)
LEMMA SetCurrentFileFiles ==
  ASSUME FilesInv, SetCurrentFile
  PROVE  FilesInv'
<1>1. /\ db = "current" /\ db' = "finish" /\ currentFile' = versions.manifest
      /\ UNCHANGED <<logs, tables, manifests, logfile_number, versions, pending_outputs, bg_error,
                     bg, reader>>
  BY ZenonT(30) DEF SetCurrentFile
<1>2. FilesOf(Apply(versions.current, bg.edit)) \subseteq DOMAIN tables
  BY <1>1, AppliedExists, ZenonT(30) DEF FilesInv, LiveInv, EditInv, Opening
<1>3. DiskInv'
  BY <1>1, <1>2, ZenonT(30) DEF FilesInv, DiskInv, OnDisk, ManifestInv
<1>4. ShapeInv' /\ NumberInv' /\ EditInv'
  BY <1>1 DEF FilesInv, ShapeInv, NumberInv, EditInv, Opening
<1>5. ManifestInv'
  BY <1>1, ZenonT(30) DEF FilesInv, ManifestInv
<1>6. LiveInv'
  BY <1>1, ZenonT(30) DEF FilesInv, LiveInv
<1>7. QED
  BY <1>3, <1>4, <1>5, <1>6, ZenonT(30) DEF FilesInv

(* The rest of Open: only the tables of the version stay.                  *)
LEMMA OpenFinishFiles ==
  ASSUME FilesInv, OpenFinish
  PROVE  FilesInv'
<1> DEFINE S == FilesOf(versions'.current)
<1>1. /\ db = "finish" /\ db' = "open" /\ versions' = Installed(bg.edit)
      /\ DeleteObsoleteFiles(versions', {}, FALSE)
      /\ bg' = MaybeScheduleCompaction(Idle, None, versions', FALSE)
      /\ UNCHANGED <<currentFile, logfile_number, pending_outputs, bg_error, reader>>
  BY ZenonT(30) DEF OpenFinish
<1>2. reader = None /\ pending_outputs = {}
  BY <1>1 DEF FilesInv, ShapeInv
<1>3. IsBg(bg') /\ bg'.pc \in {"idle", "scheduled"} /\ bg'.comp = None
  <2>1. IsBg(Idle) /\ Idle.pc = "idle" /\ Idle.comp = None
    BY DEF Idle, IsBg
  <2>2. SameWork(bg', Idle)
    BY <1>1, <2>1, ScheduleKeeps, ZenonT(30)
  <2>3. QED
    BY <2>1, <2>2 DEF SameWork
<1>4. /\ tables' = RestrictTo(tables, S)
      /\ logs' = RestrictTo(logs, {n \in DOMAIN logs : n >= versions'.log})
      /\ manifests' = RestrictTo(manifests, {n \in DOMAIN manifests : n >= versions'.manifest})
  BY <1>1, <1>2, ZenonT(30) DEF DeleteObsoleteFiles
<1>5. QED
  BY <1>1, <1>2, <1>3, <1>4, InstallFiles, ZenonT(30)

(* MarkFileNumberUsed leaves a next number above the one that is used.     *)
LEMMA Marked ==
  ASSUME NEW next \in Nat, NEW n \in Nat
  PROVE  /\ MarkFileNumberUsed(next, n) \in Nat /\ n < MarkFileNumberUsed(next, n)
         /\ next <= MarkFileNumberUsed(next, n)
  BY DEF MarkFileNumberUsed

(* Recover reads the manifest: its next number is above everything that it *)
(* names.                                                                  *)
LEMMA RecoverFiles ==
  ASSUME FilesInv, RecoverInv, Recover
  PROVE  FilesInv' /\ RecoverInv'
<1> DEFINE next == MarkFileNumberUsed(OnDisk.next + 1, OnDisk.log)
<1>1. /\ db = "closed" /\ db' = "recover" /\ FilesOf(OnDisk.levels) \subseteq DOMAIN tables
      /\ versions' = [current |-> OnDisk.levels, log |-> OnDisk.log, next |-> next,
                      last |-> OnDisk.last, manifest |-> OnDisk.next,
                      pointers |-> OnDisk.pointers, seek |-> None]
      /\ bg' = [Idle EXCEPT !.number = 0, !.edit = Edit({}, {}, 0, None, versions')]
      /\ UNCHANGED <<logs, tables, manifests, currentFile, logfile_number, pending_outputs,
                     bg_error, reader>>
  BY ZenonT(30) DEF Recover, disk
<1>2. /\ OnDisk.next \in Nat /\ OnDisk.log \in Nat
      /\ \A n \in FilesOf(OnDisk.levels) : n \in Nat /\ n < OnDisk.next
      /\ bg.pc = "idle" /\ bg.comp = None /\ reader = None /\ pending_outputs = {}
  BY <1>1 DEF FilesInv, DiskInv, OnDisk, IsManifest, ShapeInv
<1>3. next \in Nat /\ OnDisk.next < next /\ OnDisk.log < next
  BY <1>2 DEF MarkFileNumberUsed
<1> HIDE DEF next
<1>4. /\ versions'.current = OnDisk.levels /\ versions'.log = OnDisk.log
      /\ versions'.next = next /\ versions'.manifest = OnDisk.next /\ versions'.seek = None
      /\ versions' = [current |-> versions'.current, log |-> versions'.log, next |-> versions'.next,
                      last |-> versions'.last, manifest |-> versions'.manifest,
                      pointers |-> versions'.pointers, seek |-> versions'.seek]
  BY <1>1
<1>5. IsBg(bg') /\ bg'.pc = "idle" /\ bg'.comp = None /\ bg'.edit.added = {}
  BY <1>1, ZenonT(30) DEF Idle, IsBg, Edit
<1>6. DiskInv'
  BY <1>1, ZenonT(30) DEF FilesInv, DiskInv, OnDisk
<1>7. ShapeInv'
  BY <1>1, <1>2, <1>3, <1>4, <1>5, ZenonT(30) DEF ShapeInv
<1>8. NumberInv' /\ EditInv' /\ ManifestInv'
  BY <1>1, <1>5, ZenonT(30) DEF NumberInv, EditInv, Opening, ManifestInv
<1>9. LiveInv'
  BY <1>1, <1>2, <1>4, <1>5, ZenonT(30) DEF LiveInv
<1>10. RecoverInv'
  <2>1. logfile_number' = 0
    BY <1>1, ZenonT(30) DEF RecoverInv
  <2>2. QED
    BY <1>1, <1>2, <1>3, <1>4, <1>5, <2>1 DEF RecoverInv, OnDisk, FilesInv, DiskInv
<1>11. QED
  BY <1>6, <1>7, <1>8, <1>9, <1>10, ZenonT(30) DEF FilesInv

(* A record is read, and perhaps a table is written with the next number.  *)
LEMMA RecoverLogFileFiles ==
  ASSUME FilesInv, RecoverInv, RecoverLogFile
  PROVE  FilesInv' /\ RecoverInv'
<1>1. /\ db = "recover" /\ db' = "recover"
      /\ UNCHANGED <<logs, manifests, currentFile, logfile_number, pending_outputs, bg_error, reader>>
  BY ZenonT(30) DEF RecoverLogFile
<1>2. /\ versions.next \in Nat /\ DOMAIN tables \subseteq Nat /\ OnDisk' = OnDisk
      /\ bg.pc = "idle" /\ bg.comp = None /\ reader = None /\ pending_outputs = {} /\ IsBg(bg)
      /\ OnDisk.log \in Nat
  BY <1>1 DEF FilesInv, DiskInv, ShapeInv, OnDisk, IsManifest
<1>3. \/ UNCHANGED <<tables, versions>> /\ \E i : bg' = [bg EXCEPT !.number = i]
      \/ \E i, entries :
           /\ tables' = WithFile(tables, versions.next, entries)
           /\ versions' = [versions EXCEPT !.next = @ + 1]
           /\ bg' = [[bg EXCEPT !.number = i] EXCEPT !.edit =
                       Edit(bg.edit.added \cup {<<0, FileOf(versions.next, entries)>>}, {}, 0, None, versions)]
  BY ZenonT(30) DEF RecoverLogFile
<1>4. /\ DOMAIN tables \subseteq DOMAIN tables' /\ DOMAIN tables' \subseteq Nat
      /\ versions' = [versions EXCEPT !.next = versions'.next]
      /\ versions'.next \in Nat /\ versions.next <= versions'.next
      /\ IsBg(bg') /\ bg'.pc = "idle" /\ bg'.comp = None
      /\ \A a \in bg'.edit.added : a[2].number \in DOMAIN tables' /\ a[2].number < versions'.next
  <2>1. CASE UNCHANGED <<tables, versions>> /\ \E i : bg' = [bg EXCEPT !.number = i]
    <3>1. IsBg(bg') /\ bg'.pc = "idle" /\ bg'.comp = None /\ bg'.edit = bg.edit
      BY <1>2, <2>1 DEF IsBg
    <3>2. versions' = [versions EXCEPT !.next = versions'.next]
      BY <2>1 DEF FilesInv, ShapeInv
    <3>3. QED
      BY <1>1, <1>2, <2>1, <3>1, <3>2 DEF RecoverInv
  <2>2. ASSUME NEW i, NEW entries,
               tables' = WithFile(tables, versions.next, entries),
               versions' = [versions EXCEPT !.next = @ + 1],
               bg' = [[bg EXCEPT !.number = i] EXCEPT !.edit =
                       Edit(bg.edit.added \cup {<<0, FileOf(versions.next, entries)>>}, {}, 0, None, versions)]
        PROVE  /\ DOMAIN tables \subseteq DOMAIN tables' /\ DOMAIN tables' \subseteq Nat
               /\ versions' = [versions EXCEPT !.next = versions'.next]
               /\ versions'.next \in Nat /\ versions.next <= versions'.next
               /\ IsBg(bg') /\ bg'.pc = "idle" /\ bg'.comp = None
               /\ \A a \in bg'.edit.added : a[2].number \in DOMAIN tables' /\ a[2].number < versions'.next
    <3> DEFINE f == FileOf(versions.next, entries)
               e == Edit(bg.edit.added \cup {<<0, f>>}, {}, 0, None, versions)
    <3>1. DOMAIN tables' = DOMAIN tables \cup {versions.next}
      BY <2>2 DEF WithFile
    <3>2. versions'.next = versions.next + 1 /\ versions' = [versions EXCEPT !.next = versions'.next]
      BY <2>2, ZenonT(30) DEF FilesInv, ShapeInv
    <3>3. f.number = versions.next /\ e.added = bg.edit.added \cup {<<0, f>>}
      BY DEF FileOf, Edit
    <3> HIDE DEF f, e
    <3>4. bg' = [[bg EXCEPT !.number = i] EXCEPT !.edit = e]
      BY <2>2, ZenonT(30) DEF f, e
    <3>5. IsBg(bg') /\ bg'.pc = "idle" /\ bg'.comp = None /\ bg'.edit = e
      BY <1>2, <3>4, ZenonT(30) DEF IsBg
    <3>6. \A a \in bg.edit.added : a[2].number \in DOMAIN tables /\ a[2].number < versions.next
      BY <1>1, ZenonT(30) DEF RecoverInv
    <3>7. \A a \in bg'.edit.added : a[2].number \in DOMAIN tables' /\ a[2].number < versions'.next
      <4> SUFFICES ASSUME NEW a \in e.added
                   PROVE  a[2].number \in DOMAIN tables' /\ a[2].number < versions'.next
        BY <3>5, ZenonT(30)
      <4>1. CASE a = <<0, f>>
        BY <1>2, <3>1, <3>2, <3>3, <4>1
      <4>2. CASE a \in bg.edit.added
        BY <1>2, <3>1, <3>2, <3>6, <4>2
      <4>3. QED
        BY <3>3, <4>1, <4>2, ZenonT(30)
    <3>8. QED
      BY <1>2, <3>1, <3>2, <3>5, <3>7
  <2>3. QED
    BY <1>3, <2>1, <2>2, ZenonT(30)
<1>5. DiskInv'
  BY <1>1, <1>2, <1>4, ZenonT(30) DEF FilesInv, DiskInv
<1>6. /\ versions'.current = versions.current /\ versions'.log = versions.log
      /\ versions'.manifest = versions.manifest /\ versions'.seek = versions.seek
  BY <1>4 DEF FilesInv, ShapeInv
<1>7. ShapeInv'
  BY <1>1, <1>2, <1>4, <1>6 DEF FilesInv, ShapeInv
<1>8. NumberInv' /\ EditInv' /\ ManifestInv'
  BY <1>1, <1>4, ZenonT(30) DEF NumberInv, EditInv, Opening, ManifestInv
<1>9. LiveInv'
  BY <1>1, <1>2, <1>4, <1>6, ZenonT(30) DEF FilesInv, LiveInv
<1>10. RecoverInv'
  BY <1>1, <1>2, <1>4, <1>6 DEF FilesInv, RecoverInv, ShapeInv, DiskInv
<1>11. QED
  BY <1>5, <1>7, <1>8, <1>9, <1>10, ZenonT(30) DEF FilesInv

(* The logs below the next one to read are obsolete or have been read.     *)
LEMMA LogsMarked ==
  ASSUME FilesInv, RecoverInv, db = "recover", NEW n \in DOMAIN logs, n \notin LaterLogs
  PROVE  n < MarkFileNumberUsed(versions.next, logfile_number)
<1> DEFINE next == MarkFileNumberUsed(versions.next, logfile_number)
<1>1. versions.next \in Nat /\ logfile_number \in Nat /\ n \in Nat /\ OnDisk.log \in Nat
  BY DEF FilesInv, DiskInv, ShapeInv, RecoverInv, OnDisk, IsManifest
<1>2. next \in Nat /\ versions.next <= next /\ logfile_number < next
  BY <1>1, Marked, ZenonT(30)
<1> HIDE DEF next
<1>3. n < logfile_number => n < versions.next
  BY ZenonT(30) DEF RecoverInv
<1>4. n < OnDisk.log \/ n <= logfile_number
  BY <1>1 DEF LaterLogs, LogsToRecover
<1>5. OnDisk.log < versions.next
  BY ZenonT(30) DEF RecoverInv
<1>6. n < next
  BY <1>1, <1>2, <1>3, <1>4, <1>5
<1>7. QED
  BY <1>6, ZenonT(30) DEF next

(* The next log is read.                                                   *)
LEMMA RecoverNextLogFiles ==
  ASSUME FilesInv, RecoverInv, RecoverNextLog
  PROVE  FilesInv' /\ RecoverInv'
<1> DEFINE next == MarkFileNumberUsed(versions.next, logfile_number)
<1>1. /\ db = "recover" /\ db' = "recover"
      /\ versions' = [versions EXCEPT !.next = next] /\ bg' = [bg EXCEPT !.number = 0]
      /\ UNCHANGED <<logs, tables, manifests, currentFile, pending_outputs, bg_error, reader>>
  BY ZenonT(30) DEF RecoverNextLog, disk
<1>2. /\ logfile_number' \in LaterLogs /\ \A m \in LaterLogs : logfile_number' <= m
  BY ZenonT(30) DEF RecoverNextLog
<1>3. /\ versions.next \in Nat /\ logfile_number \in Nat /\ OnDisk' = OnDisk /\ OnDisk.log \in Nat
      /\ bg.pc = "idle" /\ bg.comp = None /\ reader = None /\ pending_outputs = {} /\ IsBg(bg)
      /\ DOMAIN logs \subseteq Nat
  BY <1>1 DEF FilesInv, DiskInv, ShapeInv, RecoverInv, OnDisk, IsManifest
<1>4. next \in Nat /\ versions.next <= next
  BY <1>3, Marked, ZenonT(30)
<1>5. \A n \in DOMAIN logs : n \notin LaterLogs => n < next
  BY <1>1, LogsMarked, ZenonT(30)
<1> HIDE DEF next
<1>6. logfile_number' \in Nat /\ \A n \in DOMAIN logs : n < logfile_number' => n < next
  <2>1. LaterLogs \subseteq DOMAIN logs
    BY ZenonT(30) DEF LaterLogs, LogsToRecover
  <2>2. QED
    BY <1>2, <1>3, <1>5, <2>1
<1>7. /\ versions'.next = next /\ versions'.current = versions.current
      /\ versions'.log = versions.log /\ versions'.manifest = versions.manifest
      /\ versions'.seek = versions.seek
      /\ versions' = [current |-> versions'.current, log |-> versions'.log, next |-> versions'.next,
                      last |-> versions'.last, manifest |-> versions'.manifest,
                      pointers |-> versions'.pointers, seek |-> versions'.seek]
  BY <1>1 DEF FilesInv, ShapeInv
<1>8. IsBg(bg') /\ bg'.pc = "idle" /\ bg'.comp = None /\ bg'.edit = bg.edit
  BY <1>1, <1>3 DEF IsBg
<1>9. DiskInv'
  BY <1>1, <1>3, ZenonT(30) DEF FilesInv, DiskInv
<1>10. ShapeInv'
  BY <1>1, <1>3, <1>4, <1>7, <1>8, ZenonT(30) DEF FilesInv, ShapeInv
<1>11. NumberInv' /\ EditInv' /\ ManifestInv'
  BY <1>1, <1>8, ZenonT(30) DEF NumberInv, EditInv, Opening, ManifestInv
<1>12. LiveInv'
  BY <1>1, <1>3, <1>7, <1>8 DEF FilesInv, LiveInv
<1>13. RecoverInv'
  <2>1. \A n \in FilesOf(versions.current) : n \in Nat /\ n < next
    BY <1>1, <1>3, <1>4 DEF RecoverInv
  <2>2. \A a \in bg.edit.added : a[2].number \in DOMAIN tables /\ a[2].number < next
    BY <1>1, <1>3, <1>4 DEF RecoverInv, FilesInv, DiskInv
  <2>3. versions.log = OnDisk.log /\ OnDisk.log < next
    BY <1>1, <1>3, <1>4 DEF RecoverInv
  <2>4. QED
    BY <1>1, <1>3, <1>6, <1>7, <1>8, <2>1, <2>2, <2>3, ZenonT(30) DEF RecoverInv
<1>14. QED
  BY <1>9, <1>10, <1>11, <1>12, <1>13, ZenonT(30) DEF FilesInv

(* The new log has a number above everything that is used.                 *)
LEMMA OpenLogFiles ==
  ASSUME FilesInv, RecoverInv, OpenLog
  PROVE  FilesInv'
<1> DEFINE number == MarkFileNumberUsed(versions.next, logfile_number)
           last == Max({versions.last} \cup {e.seq : e \in ReadEntries(logs)})
           e == Edit(bg.edit.added, {}, number, None, versions')
<1>1. /\ db = "recover" /\ db' = "manifest" /\ LaterLogs = {}
      /\ logs' = WithFile(logs, number, EmptyLog) /\ logfile_number' = number
      /\ versions' = [versions EXCEPT !.next = number + 1, !.last = last]
      /\ bg' = [bg EXCEPT !.number = None, !.edit = e]
      /\ UNCHANGED <<tables, manifests, currentFile, pending_outputs, bg_error, reader>>
  BY ZenonT(30) DEF OpenLog
<1>2. /\ versions.next \in Nat /\ logfile_number \in Nat /\ OnDisk' = OnDisk /\ OnDisk.log \in Nat
      /\ bg.pc = "idle" /\ bg.comp = None /\ reader = None /\ pending_outputs = {} /\ IsBg(bg)
      /\ DOMAIN logs \subseteq Nat /\ DOMAIN tables \subseteq Nat
  BY <1>1 DEF FilesInv, DiskInv, ShapeInv, RecoverInv, OnDisk, IsManifest
<1>3. number \in Nat /\ versions.next <= number
  BY <1>2, Marked, ZenonT(30)
<1>4. \A n \in DOMAIN logs : n < number
  BY <1>1, LogsMarked, ZenonT(30)
<1> HIDE DEF number, last
<1>5. e.added = bg.edit.added /\ e.log = number /\ e.next = versions'.next
  BY ZenonT(30) DEF Edit
<1> HIDE DEF e
<1>6. /\ versions'.next = number + 1 /\ versions'.current = versions.current
      /\ versions'.log = versions.log /\ versions'.manifest = versions.manifest
      /\ versions'.seek = versions.seek
      /\ versions' = [current |-> versions'.current, log |-> versions'.log, next |-> versions'.next,
                      last |-> versions'.last, manifest |-> versions'.manifest,
                      pointers |-> versions'.pointers, seek |-> versions'.seek]
  BY <1>1, ZenonT(30) DEF FilesInv, ShapeInv
<1>7. IsBg(bg') /\ bg'.pc = "idle" /\ bg'.comp = None /\ bg'.edit = e
  BY <1>1, <1>2, ZenonT(30) DEF IsBg
<1>8. /\ DOMAIN logs' = DOMAIN logs \cup {number} /\ logs'[number] = EmptyLog
      /\ \A n \in DOMAIN logs \ {number} : logs'[n] = logs[n]
  BY <1>1 DEF WithFile
<1>9. DiskInv'
  <2>1. IsLog(EmptyLog)
    BY DEF IsLog, IsSeq, EmptyLog
  <2>2. QED
    BY <1>1, <1>2, <1>3, <1>8, <2>1, ZenonT(30) DEF FilesInv, DiskInv
<1>10. ShapeInv'
  <2>1. versions'.next \in Nat
    BY <1>3, <1>6
  <2>2. QED
    BY <1>1, <1>2, <1>6, <1>7, <2>1, ZenonT(30) DEF FilesInv, ShapeInv
<1>11. /\ versions.log < versions.next /\ versions.log \in Nat
       /\ \A n \in FilesOf(versions.current) : n \in Nat /\ n < versions.next
       /\ \A a \in bg.edit.added : a[2].number \in DOMAIN tables /\ a[2].number < versions.next
  BY <1>1, ZenonT(30) DEF FilesInv, ShapeInv, RecoverInv
<1>12. NumberInv'
  BY <1>1, <1>2, <1>3, <1>4, <1>6, <1>8, <1>11 DEF NumberInv
<1>13. EditInv'
  BY <1>1, <1>2, <1>3, <1>5, <1>6, <1>7, <1>11 DEF EditInv
<1>14. ManifestInv'
  BY <1>1, <1>2, <1>3, <1>5, <1>6, <1>7, <1>11 DEF ManifestInv
<1>15. LiveInv'
  BY <1>1, <1>2, <1>6, <1>7, ZenonT(30) DEF FilesInv, LiveInv
<1>16. QED
  BY <1>9, <1>10, <1>12, <1>13, <1>14, <1>15, ZenonT(30) DEF FilesInv

-----------------------------------------------------------------------------
(* The queue of writers.                                                   *)

(* A step that leaves the queue alone.                                     *)
LEMMA QueueSame ==
  ASSUME QueueInv, UNCHANGED <<writers, pc, group>>, db' # "open" => db # "open"
  PROVE  QueueInv'
<1>1. writers' = writers /\ pc' = pc /\ group' = group
  BY ZenonT(30)
<1>2. db' # "open" => writers' = <<>>
  BY <1>1, ZenonT(30) DEF QueueInv
<1>3. QED
  BY <1>1, <1>2, SMTT(30) DEF QueueInv

(* A write joins the queue.                                                *)
LEMMA WriteQueue ==
  ASSUME QueueInv, NEW t \in Threads, Write(t)
  PROVE  QueueInv'
<1> DEFINE L == Len(writers)
<1>1. /\ db = "open" /\ db' = db /\ group' = group /\ pc[t] = "idle"
      /\ writers' = Append(writers, t)
      /\ pc' = [pc EXCEPT ![t] = IF writers = <<>> THEN "run" ELSE "wait"]
  BY ZenonT(30) DEF Write, memory
<1>2. /\ L \in Nat /\ writers \in Seq(Threads)
      /\ \A i \in 1 .. L : writers[i] \in Threads /\ writers[i] # t
      /\ pc \in [Threads -> {"idle", "wait", "run", "bgwait"} \cup Leading]
  BY <1>1 DEF QueueInv
<1>3. /\ writers' \in Seq(Threads) /\ Len(writers') = L + 1 /\ writers'[L + 1] = t
      /\ \A i \in 1 .. L : writers'[i] = writers[i]
  BY <1>1, <1>2
<1>4. /\ pc' \in [Threads -> {"idle", "wait", "run", "bgwait"} \cup Leading]
      /\ pc'[t] \in {"run", "wait"} /\ (L # 0 => pc'[t] = "wait")
      /\ \A u \in Threads \ {t} : pc'[u] = pc[u]
  BY <1>1, <1>2
<1>5. \A u \in Threads : pc'[u] # "idle" <=> \E i \in 1 .. L + 1 : writers'[i] = u
  <2> TAKE u \in Threads
  <2>1. CASE u = t
    BY <1>2, <1>3, <1>4, <2>1
  <2>2. CASE u # t
    <3>1. pc'[u] # "idle" <=> \E i \in 1 .. L : writers[i] = u
      BY <1>4, <2>2 DEF QueueInv
    <3>2. \A i \in 1 .. L + 1 : i \in 1 .. L \/ i = L + 1
      BY <1>2
    <3>3. \A i \in 1 .. L : i \in 1 .. L + 1
      BY <1>2
    <3> HIDE DEF L
    <3>4. QED
      BY <1>3, <2>2, <3>1, <3>2, <3>3, ZenonT(30)
  <2>3. QED
    BY <2>1, <2>2
<1>6. \A i, j \in 1 .. L + 1 : writers'[i] = writers'[j] => i = j
  <2>1. \A i, j \in 1 .. L : writers[i] = writers[j] => i = j
    BY DEF QueueInv
  <2>2. \A i \in 1 .. L + 1 : i \in 1 .. L \/ i = L + 1
    BY <1>2
  <2> HIDE DEF L
  <2>3. QED
    BY <1>2, <1>3, <2>1, <2>2
<1>7. \A i \in 2 .. L + 1 : pc'[writers'[i]] = "wait"
  <2>1. \A i \in 2 .. L : pc[writers[i]] = "wait"
    BY DEF QueueInv
  <2>2. \A i \in 2 .. L + 1 : (i \in 2 .. L /\ i \in 1 .. L) \/ (i = L + 1 /\ L # 0)
    BY <1>2
  <2> HIDE DEF L
  <2>3. ASSUME NEW i \in 2 .. L, i \in 1 .. L PROVE pc'[writers'[i]] = "wait"
    <3>1. writers'[i] = writers[i] /\ writers[i] \in Threads \ {t}
      BY <1>2, <1>3, <2>3, ZenonT(30)
    <3>2. QED
      BY <1>4, <2>1, <3>1, ZenonT(30)
  <2>4. L # 0 => pc'[writers'[L + 1]] = "wait"
    BY <1>3, <1>4, ZenonT(30)
  <2>5. QED
    BY <2>2, <2>3, <2>4, ZenonT(30)
<1>8. group' \in 0 .. L + 1
  BY <1>1, <1>2 DEF QueueInv
<1>9. \A u \in Threads : pc'[u] \in Leading => group' # 0
  BY <1>1, <1>4 DEF QueueInv, Leading
<1> HIDE DEF L
<1>10. QED
  BY <1>1, <1>3, <1>4, <1>5, <1>6, <1>7, <1>8, <1>9 DEF QueueInv

(* The head of the queue moves on, or leaves it with its group.            *)
LEMMA WriterQueue ==
  ASSUME QueueInv, NEW t \in Threads, WriterStep(t)
  PROVE  QueueInv'
<1>1. /\ Len(writers) \in Nat /\ group \in 0 .. Len(writers)
      /\ pc[t] \in Leading => group # 0
  BY DEF QueueInv
<1>2. pc[t] \notin {"idle", "wait"}
  BY ZenonT(30) DEF WriterStep, RefuseWrite, WaitForRoom, LeadGroup, SwitchMemTable, NewLogFails,
     AddRecord, InsertInto, FinishGroup
<1>3. 1 \in 1 .. Len(writers)
  BY <1>2, HeadRuns
<1>4. GroupSizes \subseteq 1 .. Len(writers)
  BY DEF GroupSizes
<1>5. CASE RefuseWrite(t) \/ NewLogFails(t)
  <2>1. Leave(1) /\ db' = db
    BY <1>5, ZenonT(30) DEF RefuseWrite, NewLogFails, memory
  <2>2. QED
    BY <1>3, <2>1, GroupLeaves
<1>6. CASE WaitForRoom(t)
  <2>1. pc' = [pc EXCEPT ![t] = "bgwait"] /\ UNCHANGED <<writers, db, group>>
    BY <1>6, ZenonT(30) DEF WaitForRoom, memory
  <2>2. QED
    BY <1>1, <1>2, <2>1, HeadMoves, ZenonT(30) DEF Leading
<1>7. CASE LeadGroup(t) \/ SwitchMemTable(t)
  <2>1. pc' = [pc EXCEPT ![t] = "log"] /\ UNCHANGED <<writers, db>> /\ group' \in GroupSizes
    BY <1>7, ZenonT(30) DEF LeadGroup, SwitchMemTable, memory
  <2>2. group' \in 0 .. Len(writers) /\ group' # 0 /\ "log" \in Leading
    BY <1>1, <1>4, <2>1 DEF Leading
  <2>3. QED
    BY <1>2, <2>1, <2>2, HeadMoves, ZenonT(30)
<1>8. CASE AddRecord(t) \/ InsertInto(t)
  <2>1. /\ pc[t] \in Leading /\ UNCHANGED <<writers, db, group>>
        /\ \E x \in Leading : pc' = [pc EXCEPT ![t] = x]
    BY <1>8 DEF AddRecord, InsertInto, memory, Leading
  <2>2. QED
    BY <1>1, <1>2, <2>1, HeadMoves, ZenonT(30)
<1>9. CASE FinishGroup(t)
  <2>1. Leave(group) /\ db' = db /\ pc[t] \in {"finish", "failed", "unsynced"}
    BY <1>9, ZenonT(30) DEF FinishGroup
  <2>2. group \in 1 .. Len(writers)
    BY <1>1, <2>1 DEF Leading
  <2>3. QED
    BY <2>1, <2>2, GroupLeaves
<1>10. QED
  BY <1>5, <1>6, <1>7, <1>8, <1>9, ZenonT(30) DEF WriterStep

(* The background thread leaves the queue alone, or wakes its head.        *)
LEMMA BackgroundQueue ==
  ASSUME QueueInv, BackgroundCall \/ BackgroundStep
  PROVE  QueueInv'
<1>1. UNCHANGED <<writers, group, db>>
  BY ZenonT(30) DEF BackgroundCall, BackgroundStep, BuildTable, FlushInCompaction, WriteOutput, AbandonCompaction,
     InstallCompactionResults, WriteManifest, InstallFlush, InstallCompaction, InstallFailed, queue
<1>2. pc' = pc \/ pc' = SignalAll(pc)
  BY ZenonT(30) DEF BackgroundCall, BackgroundStep, BuildTable, FlushInCompaction, WriteOutput, AbandonCompaction,
     InstallCompactionResults, WriteManifest, InstallFlush, InstallCompaction, InstallFailed, queue,
     FlushFailed, BackgroundEnd
<1>3. QED
  BY <1>1, <1>2, QueueSame, SignalKeepsQueue, ZenonT(30)

(* Nobody is in the queue while the database is down.                      *)
LEMMA OpenQueue ==
  ASSUME QueueInv, OpenStep \/ Crash
  PROVE  QueueInv'
<1>1. CASE \/ Recover \/ RecoverLogFile \/ RecoverNextLog \/ OpenLog
           \/ NewManifest \/ SetCurrentFile \/ OpenFinish
  <2>1. UNCHANGED <<writers, pc, group>> /\ (db' # "open" => db # "open")
    BY <1>1, ZenonT(30) DEF Recover, RecoverLogFile, RecoverNextLog, OpenLog, NewManifest, SetCurrentFile,
       OpenFinish, queue
  <2>2. QED
    BY <2>1, QueueSame
<1>2. CASE Closed \/ Crash
  <2>1. writers' = <<>> /\ pc' = [t \in Threads |-> "idle"] /\ group' = 0
    BY <1>2, ZenonT(30) DEF Closed, Crash, Down
  <2>2. QED
    BY <2>1 DEF QueueInv, Leading
<1>3. QED
  BY <1>1, <1>2, ZenonT(30) DEF OpenStep

-----------------------------------------------------------------------------
(* The invariant, and what it says.                                        *)

(* Only Recover begins a recovery, and only its steps change it.           *)
LEMMA RecoverKept ==
  ASSUME QueueInv, FilesInv, RecoverInv, [Next]_vars
  PROVE  RecoverInv'
<1>1. CASE Recover \/ RecoverLogFile \/ RecoverNextLog
  BY <1>1, RecoverFiles, RecoverLogFileFiles, RecoverNextLogFiles, ZenonT(30)
<1>2. CASE UNCHANGED vars \/ Rest \/ GetSnapshot \/ ReleaseSnapshot
  <2>1. UNCHANGED fileVars
    BY <1>2, ZenonT(30) DEF Rest, vars, disk, memory, fileVars, GetSnapshot, ReleaseSnapshot
  <2>2. QED
    BY <2>1, ZenonT(30) DEF fileVars, RecoverInv, OnDisk
<1>3. CASE db = "open" /\ db' = db
  BY <1>3 DEF RecoverInv
<1>4. CASE OpenLog \/ NewManifest \/ SetCurrentFile \/ OpenFinish
  <2>1. db' \in {"manifest", "current", "finish", "open"}
    BY <1>4, ZenonT(30) DEF OpenLog, NewManifest, SetCurrentFile, OpenFinish
  <2>2. QED
    BY <2>1 DEF RecoverInv
<1>5. CASE Closed \/ Crash
  <2>1. db' = "closed" /\ logfile_number' = 0
    BY <1>5, ZenonT(30) DEF Closed, Crash, Down
  <2>2. QED
    BY <2>1 DEF RecoverInv
<1>6. ASSUME NEW t \in Threads, Write(t) \/ WriterStep(t)
      PROVE  db = "open" /\ db' = db
  <2>1. db' = db
    BY <1>6, ZenonT(30) DEF Write, WriterStep, RefuseWrite, WaitForRoom, LeadGroup, SwitchMemTable, NewLogFails,
       AddRecord, InsertInto, FinishGroup, memory
  <2>2. CASE Write(t)
    BY <2>1, <2>2, ZenonT(30) DEF Write
  <2>3. CASE WriterStep(t)
    <3>1. pc[t] # "idle"
      BY <2>3, ZenonT(30) DEF WriterStep, RefuseWrite, WaitForRoom, LeadGroup, SwitchMemTable, NewLogFails, AddRecord,
         InsertInto, FinishGroup
    <3>2. QED
      BY <2>1, <3>1, WriterOpen, ZenonT(30)
  <2>4. QED
    BY <1>6, <2>2, <2>3, ZenonT(30)
<1>7. CASE ReadStart \/ ReadFinish \/ BackgroundCall \/ BackgroundStep \/ Close
  <2>1. db' = db
    BY <1>7, ZenonT(30) DEF ReadStart, ReadFinish, Close, BackgroundCall, BackgroundStep, BuildTable,
       FlushInCompaction, WriteOutput, AbandonCompaction, InstallCompactionResults, WriteManifest,
       InstallFlush, InstallCompaction, InstallFailed
  <2>2. db = "open" \/ reader # None \/ bg.pc # "idle"
    BY <1>7, ZenonT(30) DEF ReadStart, ReadFinish, Close, BackgroundCall, BackgroundStep, BuildTable,
       FlushInCompaction, WriteOutput, AbandonCompaction, InstallCompactionResults, WriteManifest,
       InstallFlush, InstallCompaction, InstallFailed
  <2>3. QED
    BY <1>3, <2>1, <2>2, ZenonT(30) DEF FilesInv, ShapeInv
<1>8. QED
  BY <1>1, <1>2, <1>3, <1>4, <1>5, <1>6, <1>7, ZenonT(30) DEF Next, OpenStep

(* A new database has what its manifest names.                             *)
LEMMA InvInit == Init => DBInv
<1> SUFFICES ASSUME Init
             PROVE  DBInv
  OBVIOUS
<1>1. QueueInv
  BY DEF Init, QueueInv, Leading
<1>2. FilesOf(EmptyVersion) = {}
  BY DEF FilesOf, EmptyVersion
<1>3. DiskInv
  <2>1. /\ DOMAIN logs = {} /\ DOMAIN tables = {} /\ DOMAIN manifests = {1} /\ manifests[1] = FreshManifest
        /\ currentFile = 1
    BY DEF Init
  <2>2. IsManifest(FreshManifest) /\ FilesOf(FreshManifest.levels) = {}
    BY <1>2, ZenonT(30) DEF IsManifest, FreshManifest
  <2>3. QED
    BY <2>1, <2>2 DEF DiskInv, OnDisk
<1>4. ShapeInv
  BY DEF Init, ShapeInv, NoVersions, Idle, IsBg
<1>5. NumberInv /\ EditInv /\ ManifestInv /\ RecoverInv
  BY ZenonT(30) DEF Init, NumberInv, EditInv, Opening, ManifestInv, RecoverInv, Idle
<1>6. LiveInv
  BY DEF Init, LiveInv, NoVersions, Idle
<1>7. QED
  BY <1>1, <1>3, <1>4, <1>5, <1>6, ZenonT(30) DEF DBInv

(* Every step of the writers, the readers, the background thread and of    *)
(* recovery keeps the invariant, and a crash at any point does.            *)
LEMMA InvNext == DBInv /\ [Next]_vars => DBInv'
<1> SUFFICES ASSUME DBInv, [Next]_vars
             PROVE  DBInv'
  OBVIOUS
<1>0. QueueInv /\ FilesInv /\ RecoverInv
  BY ZenonT(30) DEF DBInv, FilesInv
<1>1. SUFFICES QueueInv' /\ FilesInv'
  BY <1>0, RecoverKept, ZenonT(30) DEF DBInv, FilesInv
<1>2. CASE UNCHANGED vars \/ Close \/ GetSnapshot \/ ReleaseSnapshot
  <2>1. UNCHANGED fileVars /\ UNCHANGED <<writers, pc, group>>
    BY <1>2, ZenonT(30) DEF vars, disk, queue, memory, fileVars, Close, GetSnapshot, ReleaseSnapshot
  <2>2. db' # "open" => db # "open"
    BY <2>1, ZenonT(30) DEF fileVars
  <2>3. QED
    BY <1>0, <2>1, <2>2, FilesUnchanged, QueueSame, ZenonT(30)
<1>3. ASSUME NEW t \in Threads, Write(t) \/ WriterStep(t)
      PROVE  QueueInv' /\ FilesInv'
  <2>1. QueueInv'
    BY <1>0, <1>3, WriteQueue, WriterQueue, ZenonT(30)
  <2>2. CASE Write(t) \/ RefuseWrite(t) \/ WaitForRoom(t) \/ LeadGroup(t) \/ NewLogFails(t)
    <3>1. UNCHANGED fileVars
      BY <2>2, ZenonT(30) DEF Write, RefuseWrite, WaitForRoom, LeadGroup, NewLogFails, disk, memory, fileVars
    <3>2. QED
      BY <1>0, <2>1, <3>1, FilesUnchanged, ZenonT(30)
  <2>3. CASE SwitchMemTable(t) \/ AddRecord(t) \/ InsertInto(t) \/ FinishGroup(t)
    BY <1>0, <2>1, <2>3, SwitchFiles, AddRecordFiles, InsertIntoFiles, FinishGroupFiles, ZenonT(30)
  <2>4. QED
    BY <1>3, <2>2, <2>3, ZenonT(30) DEF WriterStep
<1>4. CASE ReadStart \/ ReadFinish
  <2>1. UNCHANGED <<writers, pc, group, db>>
    BY <1>4, ZenonT(30) DEF ReadStart, ReadFinish, queue
  <2>2. QED
    BY <1>0, <1>4, <2>1, ReadStartFiles, ReadFinishFiles, QueueSame, ZenonT(30)
<1>5. CASE BackgroundCall
  BY <1>0, <1>5, BackgroundQueue, BackgroundCallFiles, ZenonT(30)
<1>6. CASE BackgroundStep
  <2>1. FilesInv'
    BY <1>0, <1>6, BuildTableFiles, FlushInCompactionFiles, WriteOutputFiles, AbandonCompactionFiles,
       InstallCompactionResultsFiles, WriteManifestFiles, InstallFlushFiles, InstallCompactionFiles,
       InstallFailedFiles, ZenonT(30) DEF BackgroundStep
  <2>2. QED
    BY <1>0, <1>6, <2>1, BackgroundQueue, ZenonT(30)
<1>7. CASE OpenStep
  <2>1. FilesInv'
    BY <1>0, <1>7, RecoverFiles, RecoverLogFileFiles, RecoverNextLogFiles, OpenLogFiles, NewManifestFiles,
       SetCurrentFileFiles, OpenFinishFiles, ClosedFiles, ZenonT(30) DEF OpenStep
  <2>2. QED
    BY <1>0, <1>7, <2>1, OpenQueue, ZenonT(30)
<1>8. CASE Crash
  BY <1>0, <1>8, CrashFiles, OpenQueue, ZenonT(30)
<1>9. CASE Rest
  <2>1. UNCHANGED vars
    BY <1>9, ZenonT(30) DEF Rest
  <2>2. QED
    BY <1>2, <2>1
<1>10. QED
  BY <1>2, <1>3, <1>4, <1>5, <1>6, <1>7, <1>8, <1>9, ZenonT(30) DEF Next

(* The invariant holds in every state of the store.                        *)
LEMMA Reached == Init /\ [][Next]_vars => []DBInv
  BY InvInit, InvNext, PTL

(* The shapes of the disk, the queue of DBImpl::Write and the background   *)
(* thread, for any number of writers and any workload: only the head of    *)
(* the queue runs, and no file number is handed out twice.                 *)
THEOREM TypeCorrect == Spec => []TypeOK
<1>1. ASSUME DBInv
      PROVE  TypeOK
  <2>1. Range(writers) = {t \in Threads : pc[t] # "idle"} /\ IsInjective(writers)
    <3>1. /\ DOMAIN writers = 1 .. Len(writers) /\ \A i \in 1 .. Len(writers) : writers[i] \in Threads
          /\ \A t \in Threads : pc[t] # "idle" <=> \E i \in 1 .. Len(writers) : writers[i] = t
          /\ \A i, j \in 1 .. Len(writers) : writers[i] = writers[j] => i = j
      BY <1>1 DEF DBInv, QueueInv
    <3>2. QED
      BY <3>1 DEF Range, IsInjective
  <2>2. \A n \in DOMAIN logs : logs[n].synced \in 0 .. Len(logs[n].recs)
    BY <1>1, ZenonT(30) DEF DBInv, DiskInv, IsLog
  <2>3. pending_outputs \subseteq DOMAIN tables \cup {bg.number}
    BY <1>1 DEF DBInv, LiveInv
  <2>4. db = "open" => /\ logfile_number \in DOMAIN logs
                       /\ \A n \in DOMAIN logs \cup DOMAIN tables : n < versions.next
    BY <1>1 DEF DBInv, NumberInv
  <2>5. \A i \in 2 .. Len(writers) : pc[writers[i]] = "wait"
    BY <1>1, ZenonT(30) DEF DBInv, QueueInv
  <2>6. /\ db \in {"closed", "recover", "manifest", "current", "finish", "open"} /\ currentFile \in DOMAIN manifests
        /\ bg.pc \in {"idle", "scheduled", "build", "merge", "manifest", "install"}
    BY <1>1, ZenonT(30) DEF DBInv, DiskInv, ShapeInv
  <2>7. QED
    BY <2>1, <2>2, <2>3, <2>4, <2>5, <2>6, ZenonT(30) DEF TypeOK
<1>2. QED
  BY <1>1, Reached, PTL DEF Spec

(* DeleteObsoleteFiles never takes a table that is needed, by CURRENT's    *)
(* manifest, the version in use, a reader or a compaction, whatever the    *)
(* order of flushes, compactions, reads, failed disk operations, crashes   *)
(* and recoveries.                                                         *)
THEOREM FilesKept == Spec => []NeededFilesExist
<1>1. ASSUME DBInv
      PROVE  NeededFilesExist
  <2>1. FilesOf(OnDisk.levels) \subseteq DOMAIN tables
    BY <1>1, ZenonT(30) DEF DBInv, DiskInv
  <2>2. db # "closed" => LiveFiles(versions.current) \subseteq DOMAIN tables
    BY <1>1, ZenonT(30) DEF DBInv, LiveInv, LiveFiles
  <2>3. bg.comp # None => {f.number : f \in bg.comp.outputs} \subseteq DOMAIN tables
    BY <1>1, ZenonT(30) DEF DBInv, LiveInv
  <2>4. QED
    BY <2>1, <2>2, <2>3, ZenonT(30) DEF NeededFilesExist
<1>2. QED
  BY <1>1, Reached, PTL DEF Spec

=============================================================================
