------------------------------- MODULE DBImpl -------------------------------
(***************************************************************************)
(* The leveldb database of the Firestore client (leveldb-library/db/       *)
(* db_impl.cc): the writers that queue up behind a leader which logs their *)
(* batches, the memtables, the background thread that flushes and compacts *)
(* them, the readers that keep the version they started with, and what is  *)
(* on disk when the process dies and opens the database again.             *)
(*                                                                         *)
(* An action is what a thread does with mutex_ held, or one write to the   *)
(* disk while it is released. A record of a log is the batch of a group,   *)
(* and a log fits in one of its blocks (log::kBlockSize, 32 KB).           *)
(* The pause of a writer when level 0 fills up (kL0_SlowdownWritesTrigger) *)
(* is a later turn of that writer. Compactions by hand have no caller.     *)
(***************************************************************************)
EXTENDS VersionSet

CONSTANTS
  Threads,          \* threads that write
  Workloads,        \* what callers and the disk may do in a run, and its bounds:
                    \* [writes: sequence of [key, del, sync], threads: how many write,
                    \*  restarts, faults, snapshots, readers: at most that many]
  MemLimit,         \* write_buffer_size, in entries
  L0StopTrigger     \* config::kL0_StopWritesTrigger

ASSUME DBAssumption ==
  /\ MemLimit \in Nat /\ L0StopTrigger >= L0CompactionTrigger

VARIABLES
  \* the disk
  logs,             \* log number -> [recs, synced]: batches, how many are synced
  tables,           \* table number -> its entries
  manifests,        \* manifest number -> the state its edits add up to
  currentFile,      \* CURRENT: the number of the manifest in use
  \* the memory of the process
  db,               \* "closed"; "recover", "manifest", "current", "finish" (in Open); "open"
  mem, imm, logfile_number,
  writers, pc, writes, group,
  versions,         \* VersionSet: current, log, next, last, manifest, pointers, seek
  pending_outputs, snapshots, bg_error, shutting_down,
  bg,               \* the background thread: [pc, number, edit, comp, ok]
  reader,           \* a Get or an iterator: what it holds, or None
  \* history and bounds
  workload, issued, history, durable, reads, restarts, faults

disk == <<logs, tables, manifests, currentFile>>
queue == <<writers, pc, writes, group>>
memory == <<mem, imm, logfile_number, versions, pending_outputs, snapshots,
            bg_error, shutting_down, bg, reader, db>>
ghosts == <<workload, issued, history, durable, reads, restarts, faults>>
vars == <<disk, queue, memory, ghosts>>

NoOp == [id |-> 0]

Idle == [pc |-> "idle", number |-> None, edit |-> None, comp |-> None, ok |-> TRUE]

FreshManifest == [levels |-> EmptyVersion, log |-> 0, next |-> 2, last |-> 0,
                  pointers |-> [l \in Levels |-> None]]

NoVersions == [current |-> EmptyVersion, log |-> 0, next |-> 0, last |-> 0,
               manifest |-> 0, pointers |-> [l \in Levels |-> None], seek |-> None]

(* The database right after NewDB.                                         *)
Init ==
  /\ logs = <<>> /\ tables = <<>>
  /\ manifests = [n \in {1} |-> FreshManifest] /\ currentFile = 1
  /\ db = "closed" /\ mem = {} /\ imm = None /\ logfile_number = 0
  /\ writers = <<>> /\ pc = [t \in Threads |-> "idle"]
  /\ writes = [t \in Threads |-> None] /\ group = 0
  /\ versions = NoVersions /\ pending_outputs = {} /\ snapshots = {}
  /\ bg_error = FALSE /\ shutting_down = FALSE /\ bg = Idle /\ reader = None
  /\ workload \in Workloads /\ issued = 0 /\ history = <<>> /\ durable = {}
  /\ reads = 0 /\ restarts = 0 /\ faults = 0

EntriesOf(recs) == UNION Range(recs)

(* The bytes that a failed append left in a log.                           *)
Torn == {}

(* The records that log::Reader finds: at bytes that are no record it      *)
(* drops the rest of the block, and recovery goes on (paranoid_checks is   *)
(* off).                                                                   *)
Readable(recs) ==
  LET whole == {n \in 0 .. Len(recs) : \A i \in 1 .. n : recs[i] # Torn}
  IN SubSeq(recs, 1, Max(whole))

RestrictTo(f, S) == [x \in DOMAIN f \cap S |-> f[x]]

(* The files of a kind after one of them was created or written again.     *)
WithFile(files, n, contents) ==
  [m \in DOMAIN files \cup {n} |-> IF m = n THEN contents ELSE files[m]]

EmptyLog == [recs |-> <<>>, synced |-> 0]

-----------------------------------------------------------------------------
(* Garbage collection and scheduling, both with mutex_ held.               *)

(* The versions somebody still refers to.                                  *)
LiveFiles(current) ==
  FilesOf(current)
    \cup (IF reader = None THEN {} ELSE FilesOf(reader.version))
    \cup (IF bg.comp = None THEN {} ELSE FilesOf(bg.comp.version))

(* The files nobody needs are deleted: tables that no live version and no  *)
(* pending output names, logs whose entries are in tables, manifests older *)
(* than the one in use. The inputs of the compaction that has just ended   *)
(* are no longer held.                                                     *)
DeleteObsoleteFiles(vs, pending, compacting) ==
  /\ tables' = RestrictTo(tables, pending \cup
       (IF compacting THEN LiveFiles(vs.current)
        ELSE FilesOf(vs.current) \cup (IF reader = None THEN {} ELSE FilesOf(reader.version))))
  /\ logs' = RestrictTo(logs, {n \in DOMAIN logs : n >= vs.log})
  /\ manifests' = RestrictTo(manifests, {n \in DOMAIN manifests : n >= vs.manifest})

MaybeScheduleCompaction(b, im, vs, error) ==
  IF /\ b.pc = "idle" /\ ~shutting_down /\ ~error
     /\ im # None \/ NeedsCompaction(vs.current, vs.seek)
  THEN [b EXCEPT !.pc = "scheduled"] ELSE b

(* background_work_finished_signal_.SignalAll()                            *)
SignalAll(p) == [t \in Threads |-> IF p[t] = "bgwait" THEN "run" ELSE p[t]]

-----------------------------------------------------------------------------
(* DBImpl::Write                                                           *)

(* The next write of the workload, with its id.                            *)
NextWrite ==
  LET w == workload.writes[issued + 1]
  IN [key |-> w.key, del |-> w.del, sync |-> w.sync, id |-> issued + 1]

(* A mutant of the next definition.                                        *)
EnqueueAwake(t) ==
  /\ db = "open" /\ ~shutting_down /\ pc[t] = "idle"
  /\ issued < Len(workload.writes) /\ Len(writers) < workload.threads
  /\ issued' = issued + 1
  /\ writes' = [writes EXCEPT ![t] = NextWrite]
  /\ writers' = Append(writers, t)
  /\ pc' = [pc EXCEPT ![t] = "run"]
  /\ UNCHANGED <<disk, memory, group, workload, history, durable, reads, restarts, faults>>

(* A write joins the queue; only the first in it does not wait.            *)
Write(t) ==
  /\ db = "open" /\ ~shutting_down /\ pc[t] = "idle"
  /\ issued < Len(workload.writes) /\ Len(writers) < workload.threads
  /\ issued' = issued + 1
  /\ writes' = [writes EXCEPT ![t] = NextWrite]
  /\ writers' = Append(writers, t)
  /\ pc' = [pc EXCEPT ![t] = IF writers = <<>> THEN "run" ELSE "wait"]
  /\ UNCHANGED <<disk, memory, group, workload, history, durable, reads, restarts, faults>>

(* The group of n writes at the head of the queue leaves it: its writers   *)
(* return, and the new head is woken.                                      *)
Leave(n) ==
  LET rest == SubSeq(writers, n + 1, Len(writers))
      gone == Range(SubSeq(writers, 1, n))
  IN /\ writers' = rest
     /\ pc' = [t \in Threads |-> IF t \in gone THEN "idle"
                                 ELSE IF rest # <<>> /\ t = Head(rest) THEN "run" ELSE pc[t]]
     /\ writes' = [t \in Threads |-> IF t \in gone THEN None ELSE writes[t]]
     /\ group' = 0

(* A mutant of the next definition.                                        *)
GroupSizesAnySync ==
  1 .. Len(writers)

(* BuildBatchGroup: how many writes the leader may take. The limit on the  *)
(* size of a group may end it anywhere, and a write with sync is not taken *)
(* by a leader without.                                                    *)
GroupSizes ==
  {n \in 1 .. Len(writers) : writes[Head(writers)].sync
                               \/ \A i \in 1 .. n : ~writes[writers[i]].sync}

(* MakeRoomForWrite fails: the leader alone returns the error.             *)
RefuseWrite(t) ==
  /\ pc[t] = "run" /\ bg_error
  /\ Leave(1)
  /\ UNCHANGED <<disk, memory, ghosts>>

HasRoom == Cardinality(mem) <= MemLimit

MustWait == imm # None \/ Cardinality(versions.current[0]) >= L0StopTrigger

(* MakeRoomForWrite waits for the background thread.                       *)
WaitForRoom(t) ==
  /\ pc[t] = "run" /\ ~bg_error /\ ~HasRoom /\ MustWait
  /\ pc' = [pc EXCEPT ![t] = "bgwait"]
  /\ UNCHANGED <<disk, memory, ghosts, writers, writes, group>>

(* There is room, and the leader takes a group.                            *)
LeadGroup(t) ==
  /\ pc[t] = "run" /\ ~bg_error /\ HasRoom
  /\ group' \in GroupSizes
  /\ pc' = [pc EXCEPT ![t] = "log"]
  /\ UNCHANGED <<disk, memory, ghosts, writers, writes>>

(* A full memtable becomes the immutable one, with a new log for the next; *)
(* the new memtable has room, and the leader takes a group.                *)
SwitchMemTable(t) ==
  /\ pc[t] = "run" /\ ~bg_error /\ ~HasRoom /\ ~MustWait
  /\ logs' = WithFile(logs, versions.next, EmptyLog)
  /\ logfile_number' = versions.next
  /\ versions' = [versions EXCEPT !.next = @ + 1]
  /\ imm' = mem /\ mem' = {}
  /\ bg' = MaybeScheduleCompaction(bg, mem, versions', bg_error)
  /\ group' \in GroupSizes
  /\ pc' = [pc EXCEPT ![t] = "log"]
  /\ UNCHANGED <<tables, manifests, currentFile, writers, writes, pending_outputs,
                 snapshots, bg_error, shutting_down, reader, db, ghosts>>

(* The new log cannot be created: the leader alone returns the error, and  *)
(* its number is used again.                                               *)
NewLogFails(t) ==
  /\ pc[t] = "run" /\ ~bg_error /\ ~HasRoom /\ ~MustWait
  /\ faults < workload.faults /\ faults' = faults + 1
  /\ Leave(1)
  /\ UNCHANGED <<disk, memory, workload, issued, history, durable, reads, restarts>>

(* The entries of the group, numbered from the last sequence on.           *)
Batch ==
  {LET w == writes[writers[i]]
   IN [key |-> w.key, del |-> w.del, id |-> w.id, seq |-> versions.last + i] : i \in 1 .. group}

(* The leader appends the group to the log, without the mutex. A failed    *)
(* append leaves nothing or a part of the record, and the next group       *)
(* follows it: bg_error is not set.                                        *)
AddRecord(t) ==
  /\ pc[t] = "log"
  /\ \/ /\ logs' = [logs EXCEPT ![logfile_number].recs = Append(@, Batch)]
        /\ pc' = [pc EXCEPT ![t] = "insert"] /\ UNCHANGED faults
     \/ /\ faults < workload.faults /\ faults' = faults + 1
        /\ pc' = [pc EXCEPT ![t] = "failed"]
        /\ logs' \in {logs, [logs EXCEPT ![logfile_number].recs = Append(@, Torn)]}
  /\ UNCHANGED <<tables, manifests, currentFile, memory, writers, writes, group,
                 workload, issued, history, durable, reads, restarts>>

(* The leader syncs the log if it was asked to, and inserts the group in   *)
(* the memtable, still without the mutex.                                  *)
InsertInto(t) ==
  /\ pc[t] = "insert"
  /\ \/ /\ logs' = IF writes[t].sync
                   THEN [logs EXCEPT ![logfile_number].synced = Len(logs[logfile_number].recs)]
                   ELSE logs
        /\ mem' = mem \cup Batch
        /\ pc' = [pc EXCEPT ![t] = "finish"] /\ UNCHANGED faults
     \/ /\ writes[t].sync /\ faults < workload.faults /\ faults' = faults + 1
        /\ pc' = [pc EXCEPT ![t] = "unsynced"] /\ UNCHANGED <<logs, mem>>
  /\ UNCHANGED <<tables, manifests, currentFile, writers, writes, group, imm, logfile_number,
                 versions, pending_outputs, snapshots, bg_error, shutting_down, bg, reader, db,
                 workload, issued, history, durable, reads, restarts>>

(* The leader takes the mutex again: the group is visible from here on, or *)
(* its numbers are skipped. After a failed sync no write is accepted.      *)
FinishGroup(t) ==
  /\ pc[t] \in {"finish", "failed", "unsynced"}
  /\ versions' = [versions EXCEPT !.last = @ + group]
  /\ history' = history \o
       [i \in 1 .. group |-> IF pc[t] = "finish"
                             THEN [id |-> writes[writers[i]].id, key |-> writes[writers[i]].key,
                                   del |-> writes[writers[i]].del]
                             ELSE NoOp]
  /\ durable' = durable \cup
       {[id |-> writes[writers[i]].id, torn |-> Torn \in Range(logs[logfile_number].recs)] : i \in
          {j \in 1 .. group : pc[t] = "finish" /\ writes[writers[j]].sync}}
  /\ bg_error' = (bg_error \/ pc[t] = "unsynced")
  /\ Leave(group)
  /\ UNCHANGED <<disk, mem, imm, logfile_number, pending_outputs, snapshots, shutting_down,
                 bg, reader, db, workload, issued, reads, restarts, faults>>

-----------------------------------------------------------------------------
(* DBImpl::Get, the iterators, and snapshots.                              *)

(* A reader takes references to the memtables and the version.             *)
ReadStart ==
  /\ db = "open" /\ ~shutting_down /\ reader = None /\ reads < workload.readers
  /\ reads' = reads + 1
  /\ \E s \in snapshots \cup {versions.last} :
       reader' = [seq |-> s, mem |-> mem, imm |-> imm, version |-> versions.current]
  /\ UNCHANGED <<disk, queue, mem, imm, logfile_number, versions, pending_outputs,
                 snapshots, bg_error, shutting_down, bg, db, workload, issued, history, durable,
                 restarts, faults>>

(* What a lookup finds: in the memtable, the immutable one, or the tables. *)
Lookup(m, im, v, k, s) ==
  LET inMem == FindIn(m, k, s)
      inImm == IF im = None THEN None ELSE FindIn(im, k, s)
  IN IF inMem # None THEN inMem ELSE IF inImm # None THEN inImm ELSE Get(v, tables, k, s)

(* The keys of a workload.                                                 *)
Keys == {w.key : w \in Range(workload.writes)}

(* The file that the read of some key from the tables charges with a seek. *)
SeekFiles ==
  UNION {SeekFile(reader.version, tables, k, reader.seq) :
           k \in {j \in Keys : /\ FindIn(reader.mem, j, reader.seq) = None
                               /\ reader.imm = None \/ FindIn(reader.imm, j, reader.seq) = None}}

(* The reader is done. Its seek may be the last one a file is allowed: if  *)
(* its version is still in use, that file is to be compacted.              *)
ReadFinish ==
  /\ reader # None
  /\ reader' = None
  /\ \E f \in SeekFiles \cup {None} :
       versions' = IF f # None /\ reader.version = versions.current /\ versions.seek = None
                   THEN [versions EXCEPT !.seek = f] ELSE versions
  /\ bg' = MaybeScheduleCompaction(bg, imm, versions', bg_error)
  /\ UNCHANGED <<disk, queue, ghosts, mem, imm, logfile_number, pending_outputs,
                 snapshots, bg_error, shutting_down, db>>

GetSnapshot ==
  /\ db = "open" /\ ~shutting_down /\ Cardinality(snapshots) < workload.snapshots
  /\ snapshots' = snapshots \cup {versions.last}
  /\ UNCHANGED <<disk, queue, ghosts, mem, imm, logfile_number, versions, pending_outputs,
                 bg_error, shutting_down, bg, reader, db>>

ReleaseSnapshot ==
  /\ \E s \in snapshots : snapshots' = snapshots \ {s}
  /\ UNCHANGED <<disk, queue, ghosts, mem, imm, logfile_number, versions, pending_outputs,
                 bg_error, shutting_down, bg, reader, db>>

-----------------------------------------------------------------------------
(* The background thread.                                                  *)

(* BackgroundCall ends: more work may be scheduled, and everybody who      *)
(* waits for room looks again.                                             *)
BackgroundEnd(vs, im, error) ==
  /\ bg' = MaybeScheduleCompaction(Idle, im, vs, error)
  /\ pc' = SignalAll(pc)

(* WriteLevel0Table, up to the release of the mutex.                       *)
StartFlush(b) ==
  /\ bg' = [b EXCEPT !.pc = "build", !.number = versions.next]
  /\ versions' = [versions EXCEPT !.next = @ + 1]
  /\ pending_outputs' = pending_outputs \cup {versions.next}

(* What LogAndApply writes: an edit, with the counters of the moment.      *)
Edit(added, deleted, log, pointer, vs) ==
  [added |-> added, deleted |-> deleted, log |-> log, pointer |-> pointer,
   next |-> vs.next, last |-> vs.last]

(* The compaction that DoCompactionWork carries out: what it keeps, in the *)
(* files it will write. The oldest snapshot is read before the mutex is    *)
(* released.                                                               *)
CompactionWork(c) ==
  LET snapshot == IF snapshots = {} THEN versions.last ELSE Min(snapshots)
      entries == UNION {tables[f.number] : f \in c.in0 \cup c.in1}
      kept == Kept(versions.current, c, entries, snapshot)
  IN {[c |-> c, version |-> versions.current, outputs |-> {}, todo |-> todo] :
        todo \in IF kept = {} THEN {<<>>} ELSE Outputs(kept)}

(* BackgroundCall begins: the immutable memtable is flushed first, then a  *)
(* compaction is picked. A file that overlaps nothing is only moved.       *)
BackgroundCall ==
  /\ bg.pc = "scheduled"
  /\ \/ /\ shutting_down \/ bg_error
        /\ BackgroundEnd(versions, imm, bg_error)
        /\ UNCHANGED <<versions, pending_outputs>>
     \/ /\ ~shutting_down /\ ~bg_error /\ imm # None
        /\ StartFlush(bg) /\ UNCHANGED pc
     \/ /\ ~shutting_down /\ ~bg_error /\ imm = None
        /\ ~NeedsCompaction(versions.current, versions.seek)
        /\ BackgroundEnd(versions, imm, bg_error)
        /\ UNCHANGED <<versions, pending_outputs>>
     \/ /\ ~shutting_down /\ ~bg_error /\ imm = None
        /\ NeedsCompaction(versions.current, versions.seek)
        /\ \E c \in PickCompaction(versions.current, versions.pointers, versions.seek) :
           LET moved == CHOOSE f \in c.in0 : TRUE
           IN /\ versions' = [versions EXCEPT !.pointers[c.level] = c.pointer]
              /\ IF IsTrivialMove(c)
                 THEN bg' = [bg EXCEPT !.pc = "manifest",
                               !.edit = Edit({<<c.level + 1, moved>>},
                                             {<<c.level, moved.number>>},
                                             versions.log, <<c.level, c.pointer>>, versions)]
                 ELSE \E work \in CompactionWork(c) :
                        bg' = [bg EXCEPT !.pc = "merge", !.comp = work]
        /\ UNCHANGED <<pc, pending_outputs>>
  /\ UNCHANGED <<disk, writers, writes, group, mem, imm, logfile_number, snapshots, bg_error,
                 shutting_down, reader, db, ghosts>>

(* CompactMemTable did not succeed: no more background work and no more    *)
(* writes, though a compaction it interrupted goes on.                     *)
FlushFailed ==
  /\ bg_error' = TRUE
  /\ UNCHANGED <<versions, imm>>
  /\ pc' = SignalAll(pc)
  /\ bg' = IF bg.comp # None THEN [bg EXCEPT !.pc = "merge", !.number = None, !.ok = TRUE]
                             ELSE Idle

(* The immutable memtable is written to a table, and with the mutex held   *)
(* again the edit is made that adds it and makes the older logs obsolete.  *)
BuildTable ==
  /\ bg.pc = "build"
  /\ pending_outputs' = pending_outputs \ {bg.number}
  /\ \/ /\ tables' = WithFile(tables, bg.number, imm)
        /\ IF shutting_down THEN FlushFailed
           ELSE LET f == FileOf(bg.number, imm)
                    level == PickLevelForMemTableOutput(versions.current, Range2({f}))
                IN /\ bg' = [bg EXCEPT !.pc = "manifest",
                               !.edit = Edit({<<level, f>>}, {}, logfile_number, None, versions)]
                   /\ UNCHANGED <<pc, versions, imm, bg_error>>
        /\ UNCHANGED faults
     \/ /\ faults < workload.faults /\ faults' = faults + 1
        /\ FlushFailed /\ UNCHANGED tables
  /\ UNCHANGED <<logs, manifests, currentFile, writers, writes, group, mem, logfile_number,
                 snapshots, shutting_down, reader, db, workload, issued, history, durable, reads, restarts>>

(* The loop of DoCompactionWork finds an immutable memtable and flushes it *)
(* first.                                                                  *)
FlushInCompaction ==
  /\ bg.pc = "merge" /\ imm # None /\ ~shutting_down
  /\ StartFlush(bg)
  /\ UNCHANGED <<disk, queue, ghosts, mem, imm, logfile_number, snapshots, bg_error,
                 shutting_down, reader, db>>

(* A mutant of the next definition.                                        *)
WriteOutputUnguarded ==
  /\ bg.pc = "merge" /\ bg.comp.todo # <<>> /\ ~shutting_down
  /\ bg' = [bg EXCEPT !.comp.todo = Tail(@),
              !.comp.outputs = @ \cup {FileOf(versions.next, Head(bg.comp.todo))}]
  /\ tables' = WithFile(tables, versions.next, Head(bg.comp.todo))
  /\ versions' = [versions EXCEPT !.next = @ + 1]
  /\ UNCHANGED <<logs, manifests, currentFile, queue, ghosts, mem, imm, logfile_number,
                 pending_outputs, snapshots, bg_error, shutting_down, reader, db>>

(* The compaction writes its next output file, which is pending from the   *)
(* moment it has a number.                                                 *)
WriteOutput ==
  /\ bg.pc = "merge" /\ bg.comp.todo # <<>> /\ ~shutting_down
  /\ bg' = [bg EXCEPT !.comp.todo = Tail(@),
              !.comp.outputs = @ \cup {FileOf(versions.next, Head(bg.comp.todo))}]
  /\ tables' = WithFile(tables, versions.next, Head(bg.comp.todo))
  /\ versions' = [versions EXCEPT !.next = @ + 1]
  /\ pending_outputs' = pending_outputs \cup {versions.next}
  /\ UNCHANGED <<logs, manifests, currentFile, queue, ghosts, mem, imm, logfile_number,
                 snapshots, bg_error, shutting_down, reader, db>>

(* The compaction fails, on the disk or because the database is closed.    *)
(* Its outputs stay until the database is opened again.                    *)
AbandonCompaction ==
  /\ bg.pc = "merge"
  /\ \/ shutting_down /\ UNCHANGED faults
     \/ ~shutting_down /\ bg.comp.todo # <<>> /\ faults < workload.faults /\ faults' = faults + 1
  /\ bg_error' = TRUE
  /\ pending_outputs' = {}
  /\ BackgroundEnd(versions, imm, TRUE)
  /\ UNCHANGED <<disk, writers, writes, group, mem, imm, logfile_number, versions, snapshots,
                 shutting_down, reader, db, workload, issued, history, durable, reads, restarts>>

(* InstallCompactionResults, up to the write of the edit.                  *)
InstallCompactionResults ==
  /\ bg.pc = "merge" /\ bg.comp.todo = <<>> /\ ~shutting_down
  /\ LET c == bg.comp.c
     IN bg' = [bg EXCEPT !.pc = "manifest",
                !.edit = Edit({<<c.level + 1, f>> : f \in bg.comp.outputs},
                              {<<c.level, f.number>> : f \in c.in0}
                                \cup {<<c.level + 1, f.number>> : f \in c.in1},
                              versions.log, <<c.level, c.pointer>>, versions)]
  /\ UNCHANGED <<disk, queue, ghosts, mem, imm, logfile_number, versions, pending_outputs,
                 snapshots, bg_error, shutting_down, reader, db>>

(* What a manifest says after one more edit.                               *)
Extended(m, e) ==
  [levels |-> Apply(m.levels, e), log |-> e.log, next |-> e.next, last |-> e.last,
   pointers |-> IF e.pointer = None THEN m.pointers
                ELSE [m.pointers EXCEPT ![e.pointer[1]] = e.pointer[2]]]

(* The edit is appended to the manifest and synced, without the mutex. If  *)
(* that fails the edit may be in the file or not.                          *)
WriteManifest ==
  /\ bg.pc = "manifest"
  /\ \/ /\ bg' = [bg EXCEPT !.pc = "install"]
        /\ manifests' = [manifests EXCEPT ![versions.manifest] = Extended(@, bg.edit)]
        /\ UNCHANGED faults
     \/ /\ faults < workload.faults /\ faults' = faults + 1
        /\ bg' = [bg EXCEPT !.pc = "install", !.ok = FALSE]
        /\ manifests' \in {manifests,
              [manifests EXCEPT ![versions.manifest] = Extended(@, bg.edit)]}
  /\ UNCHANGED <<logs, tables, currentFile, queue, mem, imm, logfile_number, versions,
                 pending_outputs, snapshots, bg_error, shutting_down, reader, db,
                 workload, issued, history, durable, reads, restarts>>

(* The new version is installed; a file to compact belongs to the old one. *)
Installed(e) ==
  [versions EXCEPT !.current = Apply(@, e), !.log = e.log, !.seek = None]

(* A mutant of the next definition.                                        *)
InstallFlushQuietly ==
  /\ bg.pc = "install" /\ bg.ok /\ bg.number # None
  /\ versions' = Installed(bg.edit)
  /\ imm' = None
  /\ IF bg_error THEN UNCHANGED <<tables, logs, manifests>>
                 ELSE DeleteObsoleteFiles(versions', pending_outputs, TRUE)
  /\ UNCHANGED pc
  /\ bg' = IF bg.comp # None THEN [bg EXCEPT !.pc = "merge", !.number = None]
                             ELSE MaybeScheduleCompaction(Idle, None, versions', bg_error)
  /\ UNCHANGED <<currentFile, writers, writes, group, mem, logfile_number, pending_outputs,
                 snapshots, bg_error, shutting_down, reader, db, ghosts>>

(* A flush is done: the immutable memtable goes, and so do its logs.       *)
InstallFlush ==
  /\ bg.pc = "install" /\ bg.ok /\ bg.number # None
  /\ versions' = Installed(bg.edit)
  /\ imm' = None
  /\ IF bg_error THEN UNCHANGED <<tables, logs, manifests>>
                 ELSE DeleteObsoleteFiles(versions', pending_outputs, TRUE)
  /\ pc' = SignalAll(pc)
  /\ bg' = IF bg.comp # None THEN [bg EXCEPT !.pc = "merge", !.number = None]
                             ELSE MaybeScheduleCompaction(Idle, None, versions', bg_error)
  /\ UNCHANGED <<currentFile, writers, writes, group, mem, logfile_number, pending_outputs,
                 snapshots, bg_error, shutting_down, reader, db, ghosts>>

(* A compaction or a move is done. Only the compaction has files to delete.*)
InstallCompaction ==
  /\ bg.pc = "install" /\ bg.ok /\ bg.number = None
  /\ versions' = Installed(bg.edit)
  /\ IF bg.comp = None \/ bg_error
     THEN UNCHANGED <<tables, logs, manifests>> ELSE DeleteObsoleteFiles(versions', {}, FALSE)
  /\ pending_outputs' = {}
  /\ BackgroundEnd(versions', imm, bg_error)
  /\ UNCHANGED <<currentFile, writers, writes, group, mem, imm, logfile_number, snapshots,
                 bg_error, shutting_down, reader, db, ghosts>>

(* LogAndApply failed. The version in memory stays what it was.            *)
InstallFailed ==
  /\ bg.pc = "install" /\ ~bg.ok
  /\ IF bg.number # None THEN FlushFailed /\ UNCHANGED pending_outputs
     ELSE /\ bg_error' = TRUE /\ pending_outputs' = {}
          /\ BackgroundEnd(versions, imm, TRUE)
          /\ UNCHANGED <<versions, imm>>
  /\ UNCHANGED <<disk, writers, writes, group, mem, logfile_number, snapshots, shutting_down,
                 reader, db, ghosts>>

-----------------------------------------------------------------------------
(* Closing, crashing, and opening again.                                   *)

(* The manifest that CURRENT names.                                        *)
OnDisk == manifests[currentFile]

(* The entries in the logs that recovery reads, and the ones it finds.     *)
LoggedEntries == UNION {EntriesOf(logs[n].recs) : n \in {m \in DOMAIN logs : m >= OnDisk.log}}

ReadEntries(ls) ==
  UNION {EntriesOf(Readable(ls[n].recs)) : n \in {m \in DOMAIN ls : m >= OnDisk.log}}

(* The history when the given logs are what is left: a logged write that   *)
(* is not read in them is lost, unless it is in a table too; one that is   *)
(* takes effect even if nobody was told; the ones in no log are in tables. *)
HistoryWith(ls) ==
  LET before == {e.seq : e \in LoggedEntries}
      after == ReadEntries(ls) \cup UNION {tables[n] : n \in FilesOf(OnDisk.levels)}
      found(i) == CHOOSE e \in after : e.seq = i
  IN [i \in 1 .. Max({Len(history)} \cup {e.seq : e \in after}) |->
        IF \E e \in after : e.seq = i
        THEN [id |-> found(i).id, key |-> found(i).key, del |-> found(i).del]
        ELSE IF i \in before \/ i > Len(history) THEN NoOp ELSE history[i]]

(* The process is gone; the logs are what the disk has of them.            *)
Down(ls) ==
  /\ logs' = ls /\ history' = HistoryWith(ls)
  /\ db' = "closed" /\ mem' = {} /\ imm' = None /\ logfile_number' = 0
  /\ writers' = <<>> /\ pc' = [t \in Threads |-> "idle"]
  /\ writes' = [t \in Threads |-> None] /\ group' = 0
  /\ versions' = NoVersions /\ pending_outputs' = {} /\ snapshots' = {}
  /\ bg_error' = FALSE /\ shutting_down' = FALSE /\ bg' = Idle /\ reader' = None
  /\ UNCHANGED <<tables, manifests, currentFile, workload, issued, durable, reads, faults>>

(* A crash loses records from the end of every log, but no synced ones.    *)
Crash ==
  /\ db # "closed" /\ restarts < workload.restarts /\ restarts' = restarts + 1
  /\ \E keep \in [DOMAIN logs -> 0 .. Len(workload.writes)] :
       /\ \A n \in DOMAIN logs : keep[n] \in logs[n].synced .. Len(logs[n].recs)
       /\ Down([n \in DOMAIN logs |-> [recs |-> SubSeq(logs[n].recs, 1, keep[n]), synced |-> keep[n]]])

(* ~DBImpl, once the callers are done with the database.                   *)
Close ==
  /\ db = "open" /\ ~shutting_down /\ restarts < workload.restarts /\ restarts' = restarts + 1
  /\ writers = <<>> /\ reader = None /\ snapshots = {}
  /\ shutting_down' = TRUE
  /\ UNCHANGED <<disk, queue, mem, imm, logfile_number, versions, pending_outputs, snapshots,
                 bg_error, bg, reader, db, workload, issued, history, durable, reads, faults>>

Closed ==
  /\ shutting_down /\ bg.pc = "idle"
  /\ Down(logs) /\ UNCHANGED restarts

(* The logs the manifest has not made obsolete.                            *)
LogsToRecover == {n \in DOMAIN logs : n >= OnDisk.log}

(* VersionSet::MarkFileNumberUsed                                          *)
MarkFileNumberUsed(next, n) == IF next <= n THEN n + 1 ELSE next

(* DBImpl::Recover up to its logs: the manifest is read, and its tables    *)
(* must be there. In recovery logfile_number is the log that is read,      *)
(* bg.number how many of its records were, and bg.edit what Open records.  *)
Recover ==
  /\ db = "closed" /\ db' = "recover"
  /\ FilesOf(OnDisk.levels) \subseteq DOMAIN tables
  /\ versions' = [current |-> OnDisk.levels, log |-> OnDisk.log,
                  next |-> MarkFileNumberUsed(OnDisk.next + 1, OnDisk.log), last |-> OnDisk.last,
                  manifest |-> OnDisk.next, pointers |-> OnDisk.pointers, seek |-> None]
  /\ bg' = [Idle EXCEPT !.number = 0, !.edit = Edit({}, {}, 0, None, versions')]
  /\ UNCHANGED <<disk, queue, mem, imm, logfile_number, pending_outputs, snapshots, bg_error,
                 shutting_down, reader, ghosts>>

(* RecoverLogFile reads a record of the log into a memtable. One that is   *)
(* over its limit, or holds the last record, is written to a table.        *)
RecoverLogFile ==
  /\ db = "recover"
  /\ logfile_number \in LogsToRecover /\ bg.number < Len(Readable(logs[logfile_number].recs))
  /\ LET recs == Readable(logs[logfile_number].recs)
         i == bg.number + 1
         entries == mem \cup recs[i]
         read == [bg EXCEPT !.number = i]
         added == bg.edit.added \cup {<<0, FileOf(versions.next, entries)>>}
     IN IF Cardinality(entries) > MemLimit \/ i = Len(recs)
        THEN /\ tables' = WithFile(tables, versions.next, entries)
             /\ versions' = [versions EXCEPT !.next = @ + 1]
             /\ bg' = [read EXCEPT !.edit = Edit(added, {}, 0, None, versions)]
             /\ mem' = {}
        ELSE mem' = entries /\ bg' = read /\ UNCHANGED <<tables, versions>>
  /\ UNCHANGED <<logs, manifests, currentFile, queue, imm, logfile_number, pending_outputs,
                 snapshots, bg_error, shutting_down, reader, db, ghosts>>

(* The logs after the one that was read.                                   *)
LaterLogs == {n \in LogsToRecover : n > logfile_number}

LogIsRead ==
  logfile_number \in LogsToRecover => bg.number = Len(Readable(logs[logfile_number].recs))

(* The number of a log that was read is used, and the next is read.        *)
RecoverNextLog ==
  /\ db = "recover" /\ LogIsRead
  /\ \E n \in LaterLogs : (\A m \in LaterLogs : n <= m) /\ logfile_number' = n
  /\ versions' = [versions EXCEPT !.next = MarkFileNumberUsed(@, logfile_number)]
  /\ bg' = [bg EXCEPT !.number = 0]
  /\ UNCHANGED <<disk, queue, mem, imm, pending_outputs, snapshots, bg_error, shutting_down,
                 reader, db, ghosts>>

(* After the last log Open begins a new one. What was not recovered leaves *)
(* its sequence numbers to the writes to come.                             *)
OpenLog ==
  /\ db = "recover" /\ LogIsRead /\ LaterLogs = {} /\ db' = "manifest"
  /\ LET number == MarkFileNumberUsed(versions.next, logfile_number)
         last == Max({versions.last} \cup {e.seq : e \in ReadEntries(logs)})
     IN /\ logs' = WithFile(logs, number, EmptyLog) /\ logfile_number' = number
        /\ versions' = [versions EXCEPT !.next = number + 1, !.last = last]
        /\ bg' = [bg EXCEPT !.number = None,
                            !.edit = Edit(bg.edit.added, {}, number, None, versions')]
        /\ history' = [i \in 1 .. last |-> IF i <= Len(history) THEN history[i] ELSE NoOp]
  /\ UNCHANGED <<tables, manifests, currentFile, queue, mem, imm, pending_outputs, snapshots,
                 bg_error, shutting_down, reader, workload, issued, durable, reads, restarts, faults>>

(* LogAndApply in Open begins a manifest, makes CURRENT name it, and       *)
(* installs the version.                                                   *)
NewManifest ==
  /\ db = "manifest" /\ db' = "current"
  /\ manifests' = WithFile(manifests, versions.manifest,
                           Extended([OnDisk EXCEPT !.levels = versions.current], bg.edit))
  /\ UNCHANGED <<logs, tables, currentFile, queue, ghosts, mem, imm, logfile_number, versions,
                 pending_outputs, snapshots, bg_error, shutting_down, bg, reader>>

SetCurrentFile ==
  /\ db = "current" /\ db' = "finish"
  /\ currentFile' = versions.manifest
  /\ UNCHANGED <<logs, tables, manifests, queue, ghosts, mem, imm, logfile_number, versions,
                 pending_outputs, snapshots, bg_error, shutting_down, bg, reader>>

(* The rest of DB::Open.                                                   *)
OpenFinish ==
  /\ db = "finish" /\ db' = "open"
  /\ versions' = Installed(bg.edit)
  /\ DeleteObsoleteFiles(versions', {}, FALSE)
  /\ bg' = MaybeScheduleCompaction(Idle, None, versions', FALSE)
  /\ UNCHANGED <<currentFile, queue, ghosts, mem, imm, logfile_number, pending_outputs,
                 snapshots, bg_error, shutting_down, reader>>

-----------------------------------------------------------------------------
WriterStep(t) ==
  RefuseWrite(t) \/ WaitForRoom(t) \/ LeadGroup(t) \/ SwitchMemTable(t) \/ NewLogFails(t)
    \/ AddRecord(t) \/ InsertInto(t) \/ FinishGroup(t)

BackgroundStep ==
  BuildTable \/ FlushInCompaction \/ WriteOutput \/ AbandonCompaction
    \/ InstallCompactionResults \/ WriteManifest \/ InstallFlush \/ InstallCompaction \/ InstallFailed

OpenStep ==
  Recover \/ RecoverLogFile \/ RecoverNextLog \/ OpenLog
    \/ NewManifest \/ SetCurrentFile \/ OpenFinish \/ Closed

(* The workload is done and nobody is waiting for anything.                *)
Rest ==
  /\ db = "open" /\ writers = <<>> /\ bg.pc = "idle" /\ reader = None
  /\ bg_error \/ issued = Len(workload.writes)
  /\ UNCHANGED vars

Next ==
  \/ Rest
  \/ \E t \in Threads : Write(t) \/ WriterStep(t)
  \/ ReadStart \/ ReadFinish \/ GetSnapshot \/ ReleaseSnapshot
  \/ BackgroundCall \/ BackgroundStep \/ OpenStep \/ Crash \/ Close

(* The threads of the process run, and a database that is down is opened   *)
(* again. Nobody has to write, read, crash or close. Work that Env was     *)
(* given to schedule begins: this is the weak fairness of BackgroundCall,  *)
(* which is enabled exactly while it is scheduled and always ends that.    *)
Spec ==
  /\ Init /\ [][Next]_vars
  /\ \A t \in Threads : WF_vars(WriterStep(t))
  /\ []<>(bg.pc # "scheduled") /\ WF_vars(BackgroundStep) /\ WF_vars(OpenStep)

-----------------------------------------------------------------------------
(* The disk, the queue and the background thread have their shapes: file   *)
(* numbers are below the next one, the queue holds exactly the threads in  *)
(* Write, and only its head runs.                                          *)
TypeOK ==
  /\ db \in {"closed", "recover", "manifest", "current", "finish", "open"}
  /\ currentFile \in DOMAIN manifests
  /\ \A n \in DOMAIN logs : logs[n].synced \in 0 .. Len(logs[n].recs)
  /\ Range(writers) = {t \in Threads : pc[t] # "idle"} /\ IsInjective(writers)
  /\ \A i \in 2 .. Len(writers) : pc[writers[i]] = "wait"
  /\ bg.pc \in {"idle", "scheduled", "build", "merge", "manifest", "install"}
  /\ db = "open" => /\ logfile_number \in DOMAIN logs
                    /\ \A n \in DOMAIN logs \cup DOMAIN tables : n < versions.next
  /\ pending_outputs \subseteq DOMAIN tables \cup {bg.number}

(* The newest write of the key in the history up to a sequence number.     *)
NewestId(k, s) ==
  LET hit == {i \in 1 .. s : history[i] # NoOp /\ history[i].key = k}
  IN IF hit = {} \/ history[Max(hit)].del THEN 0 ELSE history[Max(hit)].id

ValueOf(e) == IF e = None \/ e.del THEN 0 ELSE e.id

(* A read at the last sequence number, at a live snapshot, or in the state *)
(* a reader took its references in, returns the newest write of its key at *)
(* that number, whatever was flushed, moved, compacted or recovered since. *)
ReadsNewest ==
  /\ db = "open" => \A k \in Keys, s \in snapshots \cup {versions.last} :
       ValueOf(Lookup(mem, imm, versions.current, k, s)) = NewestId(k, s)
  /\ reader # None => \A k \in Keys :
       ValueOf(Lookup(reader.mem, reader.imm, reader.version, k, reader.seq))
         = NewestId(k, reader.seq)

(* DeleteObsoleteFiles never takes a file that is still needed: every      *)
(* table that CURRENT's manifest, the version in use, a reader or the      *)
(* running compaction names exists, and so do the outputs it has written.  *)
NeededFilesExist ==
  /\ FilesOf(OnDisk.levels) \subseteq DOMAIN tables
  /\ db # "closed" => LiveFiles(versions.current) \subseteq DOMAIN tables
  /\ bg.comp # None => {f.number : f \in bg.comp.outputs} \subseteq DOMAIN tables

(* The files of a level above 0 do not overlap (Builder::MaybeAddFile      *)
(* asserts it), though a memtable may be flushed to that level while a     *)
(* compaction is writing files for it; as long as no disk operation fails. *)
LevelsSorted ==
  LET Sorted(v) == \A l \in Levels \ {0} : \A f, g \in v[l] :
                     f # g => Before(f.largest, g.smallest) \/ Before(g.largest, f.smallest)
  IN faults = 0 => Sorted(versions.current) /\ Sorted(OnDisk.levels)

(* Every write returns, with success or an error: the queue is empty again *)
(* and again, for a workload is finite. No writer waits for its turn, or   *)
(* for room, when nobody is left to wake it.                               *)
WritesReturn == []<>(writers = <<>>)

(* The database implements the store it promises to be, as long as no torn *)
(* record stands in the log before a write that was acknowledged.          *)
Store == INSTANCE KVStore WITH
  log <- SelectSeq(history, LAMBDA w : w # NoOp),
  durable <- {d.id : d \in {a \in durable : ~a.torn}}

KeepsItsPromise == Store!Spec

(* A write that was acknowledged with sync is still there when the process *)
(* dies, whatever failed in the log before it: leveldb/options.h gives it  *)
(* the crash semantics of a "write()" followed by "fsync()".               *)
SyncSurvives == \A d \in durable : \E i \in DOMAIN history : history[i].id = d.id
-----------------------------------------------------------------------------
(* The workloads that TLC runs the store with.                             *)
Put(k) == [key |-> k, del |-> FALSE, sync |-> FALSE]
PutSync(k) == [key |-> k, del |-> FALSE, sync |-> TRUE]
Del(k) == [key |-> k, del |-> TRUE, sync |-> FALSE]

W(ws, n, downs, fails, snaps, gets) ==
  [writes |-> ws, threads |-> n, restarts |-> downs, faults |-> fails,
   snapshots |-> snaps, readers |-> gets]

(* Two writers and two restarts; a failed disk operation with two writers, *)
(* and with a flush that interrupts a compaction, before and after which   *)
(* the process may die; the same flush with a restart later; a snapshot    *)
(* over five writes; a reader over five writes.                            *)
MCWorkloads ==
  {W(<<Put(1), PutSync(2), Del(1), Put(2)>>, 2, 2, 0, 0, 0),
   W(<<Put(1), PutSync(2), Del(1), PutSync(1)>>, 2, 1, 1, 0, 0),
   W(<<Put(1), Put(1), Put(1), Put(2)>>, 1, 1, 1, 0, 0),
   W(<<Put(1), Put(1), Put(1), Put(2), Put(1)>>, 1, 0, 1, 0, 0),
   W(<<Put(1), Put(1), Put(1), Put(2), Put(1)>>, 1, 1, 0, 0, 0),
   W(<<Put(1), Put(2), Put(1), Del(1), Put(1)>>, 1, 0, 0, 1, 0),
   W(<<Put(1), Put(2), Del(1), Put(1), Put(2)>>, 1, 0, 0, 0, 1)}
=============================================================================
