------------------------------ MODULE Firestore ------------------------------
(***************************************************************************)
(* The parts of the Firestore client and of the LevelDB it stores in, of   *)
(* which one is looked at at a time: RemoteStore over its two streams; the *)
(* queue all of the client runs on; a gRPC stream, and the single calls of *)
(* Datastore; the sorted maps its data is kept in and the protocol buffers *)
(* it is sent as; the log, the table files, the cache of tables, the skip  *)
(* list of a memtable and the iterator of a snapshot (what LevelDB does    *)
(* with them is in DBImpl).  The parts are checked each with the           *)
(* surroundings its own module describes, and share nothing here, so each  *)
(* may use the same variables: those of a part are x1, x2, ... in the      *)
(* order its module declares them, and the rest is None.                   *)
(***************************************************************************)
EXTENDS Naturals, FiniteSets

CONSTANTS
  Parts,                                                   \* the parts looked at
  None,
  Users, Worker, MaxTasks, MaxCalls,                       \* AsyncQueue
  InitialDelay, MaxDelay, MaxFailures, MaxPendingWrites, Targets, Keys, Matching,
  DocumentTargets, Scenarios,                              \* RemoteStore
  MaxReads, MaxWrites,                                     \* GrpcStream
  CallIds, Lookups, MaxResponses, MaxChanges,              \* Datastore
  MapKeys, MapValues, kFixedSize,                          \* SortedMap
  Schema, Writer, Messages, Bits64, Bits32, kFixed, MaxMessages,  \* Nanopb
  kBlockSize, Sizes, MaxRecords, Zero, Damaged,            \* LogFile
  Tables, Capacity, MinLength, MaxHandles,                 \* LRUCache
  ListKeys, kMaxHeight,                                    \* SkipList
  UserKeys, TableSequence, Top, block_restart_interval, block_size, kFilterBase,
  BloomHash(_),                                            \* Table
  IterKeys, IterSequence, Children                         \* DBIter

VARIABLES
  part,
  x1, x2, x3, x4, x5, x6, x7, x8, x9, x10, x11, x12, x13, x14, x15, x16, x17,
  x18, x19, x20, x21, x22, x23, x24

Remote == INSTANCE RemoteStore WITH
  client <- x1, server <- x2, left <- x3, scenario <- x4
Queue == INSTANCE AsyncQueue WITH
  mode <- x1, queueLock <- x2, disposed <- x3, tasks <- x4, schedule <- x5,
  created <- x6, state <- x7, refs <- x8, reports <- x9, lock <- x10,
  timers <- x11, ready <- x12, place <- x13, last <- x14, invoked <- x15,
  phase <- x16, op <- x17, step <- x18, task <- x19, todo <- x20,
  calls <- x21, kept <- x22, own <- x23, over <- x24
Grpc == INSTANCE GrpcStream WITH
  ops <- x1, queue <- x2, polled <- x3, completions <- x4, writes <- x5,
  active <- x6, observer <- x7, finished <- x8, call <- x9, doing <- x10,
  notify <- x11, object <- x12, asked <- x13, wire <- x14, heard <- x15
Store == INSTANCE Datastore WITH
  call <- x1, ops <- x2, net <- x3, active <- x4, registered <- x5,
  channel <- x6, queue <- x7, worker <- x8, polled <- x9, grpcQueue <- x10,
  stopping <- x11, is_shut_down <- x12, changes <- x13, freed <- x14
Map == INSTANCE SortedMap WITH
  map <- x1, contents <- x2, Keys <- MapKeys, Values <- MapValues
Proto == INSTANCE Nanopb WITH
  wire <- x1, ends <- x2, want <- x3, got <- x4, written <- x5
Log == INSTANCE LogFile WITH
  phase <- x1, file <- x2, sizes <- x3, starts <- x4, left <- x5, begin <- x6,
  ends <- x7, fault <- x8, buffer <- x9, at <- x10, eof <- x11,
  resyncing <- x12, skipped <- x13, inside <- x14, scratch <- x15,
  output <- x16, drops <- x17
Cache == INSTANCE LRUCache WITH
  handles <- x1, lru <- x2, in_use <- x3, usage <- x4, list <- x5,
  elems <- x6, held <- x7, opening <- x8, Threads <- Users
List == INSTANCE SkipList WITH
  next <- x1, max_height <- x2, inserting <- x3, reading <- x4, cursor <- x5,
  Keys <- ListKeys
File == INSTANCE Table WITH
  builder <- x1, failAt <- x2, table <- x3, iter <- x4, at <- x5, got <- x6,
  MaxSequence <- TableSequence
Iter == INSTANCE DBIter WITH
  children <- x1, sequence_ <- x2, merger <- x3, db <- x4, at <- x5,
  Users <- IterKeys, MaxSequence <- IterSequence

(* The threads of the queue are apart.                                     *)
ASSUME QueueConstants == Queue!QueueAssumption

(* The variables beyond those of a part with so many of them.              *)
over17 == <<x18, x19, x20, x21, x22, x23, x24>>
over15 == <<x16, x17, over17>>
over14 == <<x15, over15>>
over8 == <<x9, x10, x11, x12, x13, x14, over14>>
over6 == <<x7, x8, over8>>
over5 == <<x6, over6>>
over4 == <<x5, over5>>
over2 == <<x3, x4, over4>>

None17 ==
  /\ x18 = None /\ x19 = None /\ x20 = None /\ x21 = None
  /\ x22 = None /\ x23 = None /\ x24 = None
None15 == x16 = None /\ x17 = None /\ None17
None14 == x15 = None /\ None15
None8 ==
  /\ x9 = None /\ x10 = None /\ x11 = None /\ x12 = None
  /\ x13 = None /\ x14 = None /\ None14
None6 == x7 = None /\ x8 = None /\ None8
None5 == x6 = None /\ None6
None4 == x5 = None /\ None5
None2 == x3 = None /\ x4 = None /\ None4

vars == <<part, x1, x2, over2>>

Init ==
  /\ part \in Parts
  /\ \/ part = "remote store" /\ Remote!Init /\ None4
     \/ part = "async queue" /\ Queue!Init
     \/ part = "grpc stream" /\ Grpc!Init /\ None15
     \/ part = "datastore" /\ Store!Init /\ None14
     \/ part = "sorted map" /\ Map!Init /\ None2
     \/ part = "nanopb" /\ Proto!Init /\ None5
     \/ part = "log" /\ Log!Init /\ None17
     \/ part = "cache" /\ Cache!Init /\ None8
     \/ part = "skip list" /\ List!Init /\ None5
     \/ part = "table" /\ File!Init /\ None6
     \/ part = "iterator" /\ Iter!Init /\ None5

(* A step of the part that is looked at.                                   *)
OfRemote(A) == part = "remote store" /\ A /\ UNCHANGED <<part, over4>>
OfQueue(A) == part = "async queue" /\ A /\ UNCHANGED part
OfGrpc(A) == part = "grpc stream" /\ A /\ UNCHANGED <<part, over15>>
OfStore(A) == part = "datastore" /\ A /\ UNCHANGED <<part, over14>>
OfMap(A) == part = "sorted map" /\ A /\ UNCHANGED <<part, over2>>
OfProto(A) == part = "nanopb" /\ A /\ UNCHANGED <<part, over5>>
OfLog(A) == part = "log" /\ A /\ UNCHANGED <<part, over17>>
OfCache(A) == part = "cache" /\ A /\ UNCHANGED <<part, over8>>
OfList(A) == part = "skip list" /\ A /\ UNCHANGED <<part, over5>>
OfFile(A) == part = "table" /\ A /\ UNCHANGED <<part, over6>>
OfIter(A) == part = "iterator" /\ A /\ UNCHANGED <<part, over5>>

(* What the parts other than RemoteStore are asked to do is bounded, and   *)
(* they may come to rest; RemoteStore says itself when nothing is left.    *)
Rest == part # "remote store" /\ UNCHANGED vars

Next ==
  \/ OfRemote(Remote!Next) \/ OfQueue(Queue!Next) \/ OfGrpc(Grpc!Next)
  \/ OfStore(Store!Next) \/ OfMap(Map!Next) \/ OfProto(Proto!Next)
  \/ OfLog(Log!Next) \/ OfCache(Cache!Next) \/ OfList(List!Next)
  \/ OfFile(File!Next) \/ OfIter(Iter!Next) \/ Rest

Spec == Init /\ [][Next]_vars

(* A thread that can go on does, gRPC brings back what it was given, and   *)
(* tokens arrive; nothing is assumed of the user, of the servers Datastore *)
(* calls and of the threads that call LevelDB.  The tasks of RemoteStore,  *)
(* the network and its server need only one promise between them, which is *)
(* written with a predicate for their being able to go on.                 *)
Busy == part = "remote store" /\ Remote!Busy
GoesOn == OfRemote(Remote!SystemStep)

FairSpec ==
  /\ Spec
  /\ \A h \in Queue!Threads : WF_vars(OfQueue(Queue!InCall(h)))
  /\ WF_vars(OfGrpc(Grpc!WorkerStep) \/ OfStore(Store!WorkerStep) \/ OfQueue(Queue!Invoke))
  /\ WF_vars(OfGrpc(Grpc!Poll) \/ OfStore(Store!PollStep))
  /\ WF_vars(OfGrpc(Grpc!Comeback) \/ OfStore(Store!Comeback))
  /\ WF_vars(OfStore(Store!Token))
  /\ []<>~Busy \/ []<><<GoesOn>>_vars

-----------------------------------------------------------------------------
(* The state of RemoteStore and of the queue has its types.                *)
TypeOK ==
  /\ part = "remote store" => Remote!TypeOK
  /\ part = "async queue" => Queue!TypeOK

(* No HARD_ASSERT of the streams, the online state tracker, the aggregator *)
(* or RemoteStore fails, in whatever order timers, credentials, messages,  *)
(* errors and calls of the user come.                                      *)
AssertionsHold == part = "remote store" => Remote!AssertionsHold

(* Each write is acknowledged or rejected once, in the order in which the  *)
(* user made them, and with the server's verdict on that very write,       *)
(* although a result names no batch and is taken to be for the front of    *)
(* the pipeline.                                                           *)
ResultsCorrelate == part = "remote store" => Remote!ResultsCorrelate

(* A view that is shown as current has exactly the documents the server    *)
(* had at the version of its snapshot, whatever was listened to before,    *)
(* lost, resumed and reset.                                                *)
CurrentViewsMatch == part = "remote store" => Remote!CurrentViewsMatch

(* The client counts as online only while its watch stream is open, and    *)
(* waits to be only while the network is enabled.                          *)
OnlineIsConnected == part = "remote store" => Remote!OnlineIsConnected

(* The reference count of a Task of the queue is the number of its owners, *)
(* whatever threads execute, schedule, cancel and dispose.                 *)
RefsAreOwners == part = "async queue" => Queue!RefsAreOwners

(* What was cancelled, disposed of, shut down or finished is over when the *)
(* call that did it returns: no operation runs, nobody is answered twice,  *)
(* and no completion refers to what was freed; writes go to gRPC one by    *)
(* one before.                                                             *)
NothingAfterwards ==
  /\ part = "async queue" => Queue!NotAfterCancel /\ Queue!DisposeIsFinal
  /\ part = "grpc stream" => Grpc!FreedIsLeftAlone /\ Grpc!AsGrpcRequires
  /\ part = "datastore" =>
       Store!AnsweredOnce /\ Store!RegisteredIsOwned /\ Store!ShutdownIsFinal

(* What is built of a value means the value: a map its contents, balanced  *)
(* whatever was erased; a protocol buffer the messages that were written,  *)
(* without losing memory.                                                  *)
MeansTheSame ==
  /\ part = "sorted map" => Map!MapIsContents /\ Map!TreeIsBalanced
  /\ part = "nanopb" => Proto!ReadsWhatWasWritten /\ Proto!NothingLeaks

(* LevelDB finds what it stored: the records of a log that was torn,       *)
(* damaged or is read from an offset, the tables in its cache, none freed  *)
(* while a reader holds it, the keys of a list that is being inserted      *)
(* into, the entries of a table through its index and filters, and the     *)
(* keys of a snapshot in either direction.                                 *)
FilesReadBack ==
  /\ part = "log" => Log!ReadsBack
  /\ part = "cache" => Cache!HeldIsNotFreed /\ Cache!LookupFindsCached
  /\ part = "skip list" => List!LevelsAreSorted /\ List!SearchMissesNothing
  /\ part = "table" => File!VisitsWhatWasAdded /\ File!GetFindsNewest
  /\ part = "iterator" => Iter!AtTheKey

(* As long as the network is enabled every write is answered in the end    *)
(* and every target that was not refused comes to show what the server     *)
(* has, whatever failed on the way; and every task, call and stream of the *)
(* other parts is finished in the end, as far as it is not the server or   *)
(* the caller that is waited for.                                          *)
EventuallySynced ==
  /\ []<>(part = "remote store" => Remote!Synced)
  /\ <>[](/\ part = "async queue" => Queue!Settled
          /\ part = "grpc stream" => Grpc!Settled
          /\ part = "datastore" => Store!Settled)
-----------------------------------------------------------------------------
(* What the repository says of this code and the code does not do.         *)

(* "The number of outstanding responses (adds or removes) that we are      *)
(* waiting on": what outstanding_responses_ of a target counts is still    *)
(* due on the stream.                                                      *)
OutstandingIsOwed == part = "remote store" => Remote!OutstandingIsOwed
=============================================================================
