---------------------------- MODULE GrpcStream ----------------------------
(***************************************************************************)
(* The call beneath a Firestore stream (remote/grpc_stream.cc) with its    *)
(* completions (grpc_completion.cc).  Three parties take steps: gRPC,      *)
(* which answers an operation or lets it fail; the thread that polls the   *)
(* completion queue of gRPC; and the worker queue, which runs the methods  *)
(* of the stream and the callbacks of the completions, one at a time.  A   *)
(* method that waits for completions keeps the worker until they are off   *)
(* the queue.                                                              *)
(***************************************************************************)
EXTENDS Naturals, Sequences, SequencesExt, FiniteSets

CONSTANTS
  MaxReads,      \* bound: messages of the server
  MaxWrites      \* bound: messages the client asks to write

\* ops[i] is the i-th GrpcCompletion: at is where it is ("grpc" while the
\* operation is under way, "back" on the completion queue, "off" when the
\* poller has fulfilled off_queue_, "queued" on the worker queue, "done");
\* cb is callback_, "none" once it was cancelled.
VARIABLES
  ops,
  queue,          \* completions on the worker queue, oldest first
  polled,         \* the completion the poller is about to enqueue, or 0
  completions,    \* completions_
  writes,         \* buffered_writer_: queue_
  active,         \* buffered_writer_: has_active_write_
  observer,       \* observer_ # nullptr
  finished,       \* is_grpc_call_finished_
  call,           \* the gRPC call: "new", "started", "down" (failed or cancelled)
  doing,          \* what the worker waits in: "idle", "fail", "shutdown", "drain", "last"
  notify,         \* the shutdown under way ends in OnStreamFinish
  object,         \* "alive", "freed"
  asked, wire,    \* messages passed to Write; messages handed to gRPC
  heard           \* what the observer was told

vars == <<ops, queue, polled, completions, writes, active, observer, finished, call,
          doing, notify, object, asked, wire, heard>>

Ids == 1..Len(ops)

Init ==
  /\ ops = <<>> /\ queue = <<>> /\ polled = 0 /\ completions = {}
  /\ writes = <<>> /\ active = FALSE /\ observer = TRUE /\ finished = FALSE
  /\ call = "new" /\ doing = "idle" /\ notify = FALSE /\ object = "alive"
  /\ asked = 0 /\ wire = <<>> /\ heard = <<>>

-----------------------------------------------------------------------------
(* The pieces the methods are made of, each a function from the pair of    *)
(* completions and their owner's list to the next pair.                    *)

NewCompletion(s, type, cb) ==
  [ops |-> Append(s.ops, [type |-> type, at |-> "grpc", ok |-> FALSE, cb |-> cb]),
   mine |-> s.mine \cup {Len(s.ops) + 1}]

Now == [ops |-> ops, mine |-> completions]

Becomes(s) == ops' = s.ops /\ completions' = s.mine

\* A slip: a write keeps its callback.
CancelAllButWrites(s) ==
  [s EXCEPT !.ops = [i \in DOMAIN @ |->
     IF i \in s.mine /\ @[i].type # "Write" THEN [@[i] EXCEPT !.cb = "none"] ELSE @[i]]]

\* FastFinishCompletionsBlocking, up to where it blocks.
CancelAll(s) ==
  [s EXCEPT !.ops = [i \in DOMAIN @ |->
     IF i \in s.mine THEN [@[i] EXCEPT !.cb = "none"] ELSE @[i]]]

OffQueue(i) == ops[i].at \in {"off", "queued", "done"}

AllOffQueue == \A i \in completions : OffQueue(i)

Read(s) == IF observer THEN NewCompletion(s, "Read", "OnRead") ELSE s

\* MaybeWrite of what TryStartWrite returns for the given queue.
StartWrite(s, q, busy, cb) ==
  IF q = <<>> \/ busy
  THEN Becomes(s) /\ writes' = q /\ active' = busy /\ UNCHANGED wire
  ELSE /\ Becomes(NewCompletion(s, "Write", cb))
       /\ writes' = Tail(q) /\ active' = TRUE /\ wire' = Append(wire, Head(q))

\* FinishGrpcCall up to where it blocks, from the state s.
BeginFinishGrpcCall(s, then) ==
  /\ finished' = TRUE /\ doing' = then /\ Becomes(CancelAll(s))

\* Shutdown up to where it first blocks.
BeginShutdown(told) ==
  /\ notify' = told
  /\ IF completions # {} /\ ~finished
     THEN call' = "down" /\ BeginFinishGrpcCall(Now, "shutdown")
     ELSE doing' = "drain" /\ Becomes(CancelAll(Now)) /\ UNCHANGED <<finished, call>>

-----------------------------------------------------------------------------
(* The methods, called by the tasks of the worker queue.                   *)

Ready == doing = "idle" /\ object = "alive"

Start ==
  /\ Ready /\ call = "new" /\ observer
  /\ call' = "started" /\ Becomes(Read(Now)) /\ heard' = Append(heard, "start")
  /\ UNCHANGED <<queue, polled, writes, active, observer, finished, doing, notify,
                 object, asked, wire>>

\* Stream writes only while it is open, which it is until it is told otherwise.
Write ==
  /\ Ready /\ call # "new" /\ observer /\ asked < MaxWrites
  /\ asked' = asked + 1
  /\ StartWrite(Now, Append(writes, asked + 1), active, "OnWrite")
  /\ UNCHANGED <<queue, polled, observer, finished, call, doing, notify, object, heard>>

\* Called again after the first Shutdown (Stream::Close does so from
\* OnStreamFinish) it finds no completion and changes nothing.
FinishImmediately ==
  /\ Ready /\ observer /\ BeginShutdown(FALSE)
  /\ UNCHANGED <<queue, polled, writes, active, observer, object, asked, wire, heard>>

\* Called by GrpcConnection for every registered call: a call is registered
\* until its first Shutdown, so while it has its observer.
FinishAndNotify ==
  /\ Ready /\ observer /\ BeginShutdown(TRUE)
  /\ UNCHANGED <<queue, polled, writes, active, observer, object, asked, wire, heard>>

\* WriteAndFinish with TryLastWrite: it waits for the write, but not for long.
WriteAndFinish ==
  /\ Ready /\ call # "new" /\ observer /\ asked < MaxWrites
  /\ asked' = asked + 1
  /\ IF finished
     THEN BeginShutdown(FALSE) /\ UNCHANGED <<writes, active, wire>>
     ELSE /\ StartWrite(Now, Append(writes, asked + 1), active, "nothing")
          /\ doing' = "last" /\ UNCHANGED <<notify, finished, call>>
  /\ UNCHANGED <<queue, polled, observer, object, heard>>

\* The last write came back, or half a second is over.
LastWriteWaited ==
  /\ doing = "last" /\ BeginShutdown(FALSE)
  /\ UNCHANGED <<queue, polled, writes, active, observer, object, asked, wire, heard>>

\* The completions FinishGrpcCall waited for are off the queue.
FinishCall ==
  /\ doing \in {"fail", "shutdown"} /\ AllOffQueue
  /\ LET s == NewCompletion([ops |-> ops, mine |-> {}], "Finish",
                            IF doing = "fail" THEN "FinishAndNotify" ELSE "nothing")
     IN  IF doing = "fail" THEN Becomes(s) /\ doing' = "idle"
                           ELSE Becomes(CancelAll(s)) /\ doing' = "drain"
  /\ UNCHANGED <<queue, polled, writes, active, observer, finished, call, notify, object,
                 asked, wire, heard>>

\* The end of Shutdown and of the method that called it.
ShutdownDone ==
  /\ doing = "drain" /\ AllOffQueue
  /\ completions' = {} /\ observer' = FALSE /\ doing' = "idle" /\ notify' = FALSE
  /\ heard' = IF notify /\ observer THEN Append(heard, "finish") ELSE heard
  /\ UNCHANGED <<ops, queue, polled, writes, active, finished, call, object, asked, wire>>

\* Stream drops its GrpcStream only after finishing it.
Destroy ==
  /\ Ready /\ ~observer /\ object' = "freed"
  /\ UNCHANGED <<ops, queue, polled, completions, writes, active, observer, finished,
                 call, doing, notify, asked, wire, heard>>

-----------------------------------------------------------------------------
(* The task Complete enqueued.                                             *)

OnRead(s) ==
  /\ Becomes(Read(s))
  /\ heard' = IF observer THEN Append(heard, "read") ELSE heard
  /\ UNCHANGED <<writes, active, wire, finished, doing, notify, call>>

OnWrite(s) ==
  /\ IF observer THEN StartWrite(s, writes, FALSE, "OnWrite")
                 ELSE Becomes(s) /\ UNCHANGED <<writes, active, wire>>
  /\ UNCHANGED <<heard, finished, doing, notify, call>>

OnOperationFailed(s) ==
  /\ IF finished THEN Becomes(s) /\ UNCHANGED <<finished, doing>>
                 ELSE BeginFinishGrpcCall(s, "fail")
  /\ UNCHANGED <<writes, active, wire, heard, notify, call>>

\* FinishAndNotify in the callback of the finish operation: the call is
\* finished, so nothing is cancelled, and what is left is waited for.
OnFinish(s) ==
  /\ doing' = "drain" /\ notify' = TRUE /\ Becomes(CancelAll(s))
  /\ UNCHANGED <<writes, active, wire, heard, finished, call>>

OnNothing(s) ==
  Becomes(s) /\ UNCHANGED <<writes, active, wire, heard, finished, doing, notify, call>>

RunCompletion ==
  /\ doing = "idle" /\ queue # <<>>
  /\ queue' = Tail(queue)
  /\ LET i == Head(queue)
         c == ops[i]
         s == [ops |-> [ops EXCEPT ![i].at = "done"], mine |-> completions \ {i}]
     IN  CASE c.cb = "none" -> OnNothing([s EXCEPT !.mine = completions])
           [] c.cb # "none" /\ ~c.ok -> OnOperationFailed(s)
           [] c.cb = "OnRead" /\ c.ok -> OnRead(s)
           [] c.cb = "OnWrite" /\ c.ok -> OnWrite(s)
           [] c.cb = "FinishAndNotify" /\ c.ok -> OnFinish(s)
           [] c.cb = "nothing" /\ c.ok -> OnNothing(s)
  /\ UNCHANGED <<polled, observer, object, asked>>

-----------------------------------------------------------------------------
(* gRPC and the thread that polls its completion queue.                    *)

AtGrpc == {i \in Ids : ops[i].at = "grpc"}

OkReads == Cardinality({i \in Ids : ops[i].type = "Read" /\ ops[i].ok})

\* A message arrived, or a message is sent.
Answer(i) ==
  /\ i \in AtGrpc /\ call = "started" /\ ops[i].type \in {"Read", "Write"}
  /\ ops[i].type = "Read" => OkReads < MaxReads
  /\ ops' = [ops EXCEPT ![i].at = "back", ![i].ok = TRUE]
  /\ UNCHANGED <<queue, polled, completions, writes, active, observer, finished, call,
                 doing, notify, object, asked, wire, heard>>

\* On a call that is down every operation comes back; only finish succeeds.
Return(i) ==
  /\ i \in AtGrpc /\ call = "down"
  /\ ops' = [ops EXCEPT ![i].at = "back", ![i].ok = ops[i].type = "Finish"]
  /\ UNCHANGED <<queue, polled, completions, writes, active, observer, finished, call,
                 doing, notify, object, asked, wire, heard>>

Break ==
  /\ call = "started" /\ call' = "down"
  /\ UNCHANGED <<ops, queue, polled, completions, writes, active, observer, finished,
                 doing, notify, object, asked, wire, heard>>

\* GrpcCompletion::Complete, which fulfils the promise before it enqueues.
TakeOff(i) ==
  /\ polled = 0 /\ ops[i].at = "back"
  /\ polled' = i /\ ops' = [ops EXCEPT ![i].at = "off"]
  /\ UNCHANGED <<queue, completions, writes, active, observer, finished, call, doing,
                 notify, object, asked, wire, heard>>

Enqueue ==
  /\ polled # 0
  /\ queue' = Append(queue, polled) /\ polled' = 0
  /\ ops' = [ops EXCEPT ![polled].at = "queued"]
  /\ UNCHANGED <<completions, writes, active, observer, finished, call, doing, notify,
                 object, asked, wire, heard>>

Poll == Enqueue \/ \E i \in Ids : TakeOff(i)

WorkerStep == LastWriteWaited \/ FinishCall \/ ShutdownDone \/ RunCompletion

Comeback == \E i \in Ids : Return(i)

Next ==
  \/ Start \/ Write \/ FinishImmediately \/ FinishAndNotify \/ WriteAndFinish \/ Destroy
  \/ WorkerStep \/ Poll \/ Comeback \/ Break
  \/ \E i \in Ids : Answer(i)

Spec == Init /\ [][Next]_vars

-----------------------------------------------------------------------------
\* A stream is freed only when gRPC has nothing left that refers to it and no
\* callback of it will run; before that, a callback that is still to run finds
\* its completion in completions_ (the HARD_ASSERT of RemoveCompletion), and
\* the observer hears nothing after the finish, nor twice of it.
FreedIsLeftAlone ==
  /\ object = "freed" =>
       /\ completions = {} /\ AtGrpc = {}
       /\ \A i \in Ids : ops[i].at # "done" => OffQueue(i) /\ ops[i].cb = "none"
  /\ \A i \in Ids : ops[i].at # "done" /\ ops[i].cb # "none" => i \in completions
  /\ \A k \in DOMAIN heard : heard[k] = "finish" => k = Len(heard)

\* gRPC gets the messages one at a time and in the order they were written,
\* and finishes a call once, with nothing else of it under way.
AsGrpcRequires ==
  /\ Cardinality({i \in AtGrpc : ops[i].type = "Write"}) <= 1
  /\ Cardinality({i \in AtGrpc : ops[i].type = "Read"}) <= 1
  /\ \A j, k \in DOMAIN wire : j < k => wire[j] < wire[k]
  /\ \A i, j \in Ids : ops[i].type = "Finish" =>
       /\ ops[j].type = "Finish" => i = j
       /\ j < i => OffQueue(j)

\* No method waits any longer, no completion is left to run, and an observer
\* whose call broke down was told.
Settled ==
  /\ doing = "idle" /\ queue = <<>> /\ polled = 0
  /\ call = "down" => ~observer
=============================================================================
