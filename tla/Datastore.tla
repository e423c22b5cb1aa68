----------------------------- MODULE Datastore -----------------------------
(***************************************************************************)
(* The single calls of Firestore (remote/datastore.cc): a commit or a      *)
(* count is a GrpcUnaryCall, a lookup a GrpcStreamingReader, and both are  *)
(* owned by Datastore and registered with GrpcConnection, which finishes   *)
(* them when the network changes and when Datastore shuts down.  The       *)
(* worker queue runs all of this, one task at a time; it waits inside a    *)
(* task for the thread that polls the completion queue of gRPC.            *)
(*                                                                         *)
(* The stream under a lookup is reduced to the read that is always under   *)
(* way and the finish (GrpcStream has the rest); the credential providers  *)
(* and gRPC itself are external.                                           *)
(***************************************************************************)
EXTENDS Naturals, Sequences, SequencesExt, FiniteSets

CONSTANTS
  CallIds,        \* the calls that may be made
  Lookups,        \* those that are lookups
  MaxResponses,   \* bound: keys of a lookup, and responses to it
  MaxChanges      \* bound: changes of the network

Ops == {"Read", "Finish"}

\* ops[c][o] is the completion of an operation: where it is ("none", "grpc",
\* "back" on the completion queue, "off" it, "queued" on the worker queue),
\* its ok, and whether it still has its callback.
VARIABLES
  call,          \* the call as its maker sees it: its stage, tokens and answers
  ops, net,      \* net[c]: the gRPC call is "new", "up", or over with a status
  active,        \* Datastore::active_calls_
  registered,    \* GrpcConnection::active_calls_
  channel,       \* grpc_channel_: the number of the last one, and whether it is kept
  queue,         \* the tasks of the worker queue
  worker,        \* what the worker waits in
  polled,        \* the completion the poller is about to enqueue
  grpcQueue,     \* "open", "shutdown", or "ended": the poll loop is over
  stopping, is_shut_down, changes, freed

vars == <<call, ops, net, active, registered, channel, queue, worker, polled, grpcQueue,
          stopping, is_shut_down, changes, freed>>

NoOp == [at |-> "none", ok |-> FALSE, live |-> FALSE]

Idle == [task |-> "idle", todo |-> <<>>, stage |-> "next"]

Init ==
  /\ call = [c \in CallIds |-> [stage |-> "none", tokens |-> {}, auth |-> "ok", chan |-> 0,
                                expected |-> 0, responses |-> 0, fired |-> FALSE,
                                answers |-> <<>>]]
  /\ ops = [c \in CallIds |-> [o \in Ops |-> NoOp]]
  /\ net = [c \in CallIds |-> "new"]
  /\ active = {} /\ registered = <<>>
  /\ channel = [last |-> 0, kept |-> FALSE]
  /\ queue = <<>> /\ worker = Idle /\ polled = <<>> /\ grpcQueue = "open"
  /\ stopping = FALSE /\ is_shut_down = FALSE /\ changes = 0 /\ freed = FALSE

-----------------------------------------------------------------------------
(* A call is made: both tokens are asked for, and the later of the two     *)
(* answers, whichever it is, enqueues the rest.                            *)

\* CommitMutations, RunCountQuery and LookupDocuments.
ResumeRpcWithCredentials(c, n) ==
  /\ call[c].stage = "none" /\ worker.task = "idle" /\ ~freed
  /\ call' = [call EXCEPT ![c].stage = "tokens", ![c].expected = n]
  /\ UNCHANGED <<ops, net, active, registered, channel, queue, worker, polled, grpcQueue,
                 stopping, is_shut_down, changes, freed>>

\* done, from whatever thread the provider answers on.
TokenReceived(c, kind, result) ==
  /\ call[c].stage = "tokens" /\ kind \notin call[c].tokens
  /\ IF freed THEN call' = [call EXCEPT ![c].stage = "dropped"] /\ UNCHANGED queue
     ELSE LET got == call[c].tokens \cup {kind}
              all == got = {"auth", "app_check"}
          IN /\ call' = [call EXCEPT ![c].tokens = got,
                                     ![c].auth = IF kind = "auth" THEN result ELSE @,
                                     ![c].stage = IF all THEN "queued" ELSE @]
             /\ queue' = IF all THEN Append(queue, <<"rpc", c>>) ELSE queue
  /\ UNCHANGED <<ops, net, active, registered, channel, worker, polled, grpcQueue,
                 stopping, is_shut_down, changes, freed>>

Answered(r, what) == [r EXCEPT !.answers = Append(@, what)]

\* EnsureActiveStub
EnsureActiveStub ==
  IF channel.kept THEN channel ELSE [last |-> channel.last + 1, kept |-> TRUE]

Submit(o, c, type, live) ==
  [o EXCEPT ![c][type] = [at |-> "grpc", ok |-> FALSE, live |-> live]]

\* The enqueued on_credentials: an error is passed on, else the call is
\* created, owned, registered and started.
StartCall(c) ==
  IF freed \/ is_shut_down
  THEN /\ call' = [call EXCEPT ![c].stage = "dropped"]
       /\ UNCHANGED <<ops, net, active, registered, channel>>
  ELSE IF call[c].auth = "error"
  THEN /\ call' = [call EXCEPT ![c] = Answered([@ EXCEPT !.stage = "removed"], "error")]
       /\ UNCHANGED <<ops, net, active, registered, channel>>
  ELSE /\ channel' = EnsureActiveStub
       /\ call' = [call EXCEPT ![c].stage = "active", ![c].chan = channel'.last]
       /\ active' = active \cup {c} /\ registered' = Append(registered, c)
       /\ net' = [net EXCEPT ![c] = "up"]
       /\ ops' = Submit(ops, c, IF c \in Lookups THEN "Read" ELSE "Finish", TRUE)

-----------------------------------------------------------------------------
(* The ends of a call.                                                     *)

Unregister(c) == SelectSeq(registered, LAMBDA d : d # c)

\* GrpcStreamingReader::OnStreamFinish and the close callback of the lookup.
OnStreamFinish(r, status) ==
  IF r.fired THEN r
  ELSE Answered([r EXCEPT !.fired = status = "OK"], IF status = "OK" THEN "ok" ELSE "error")

\* What the maker of c hears when its call ends with status; RemoveGrpcCall.
Ended(c, status) ==
  [(IF c \in Lookups THEN OnStreamFinish(call[c], status)
                     ELSE Answered(call[c], IF status = "OK" THEN "ok" ELSE "error"))
   EXCEPT !.stage = "removed"]

\* The callback of a completion, on the worker queue.
RunCompletion(c, type) ==
  LET op == ops[c][type]
      done == [ops EXCEPT ![c][type] = NoOp]
  IN CASE ~op.live ->
            ops' = done /\ UNCHANGED <<call, active, registered>>
       [] op.live /\ type = "Finish" ->
            /\ ops' = done
            /\ registered' = Unregister(c) /\ active' = active \ {c}
            /\ call' = [call EXCEPT ![c] = Ended(c, net[c])]
       [] op.live /\ type = "Read" /\ op.ok ->
            /\ ops' = Submit(done, c, "Read", TRUE)
            /\ LET n == call[c].responses + 1
                   full == n = call[c].expected
                   r == [call[c] EXCEPT !.responses = n, !.fired = @ \/ full]
               IN call' = [call EXCEPT ![c] = IF full THEN Answered(r, "ok") ELSE r]
            /\ UNCHANGED <<active, registered>>
       [] op.live /\ type = "Read" /\ ~op.ok ->
            ops' = Submit(done, c, "Finish", TRUE) /\ UNCHANGED <<call, active, registered>>

-----------------------------------------------------------------------------
(* A task of the worker queue: RPC start, completion, change of the        *)
(* network, Shutdown.  The last two go through a copy of active_calls_.    *)

WorkerTask ==
  /\ worker.task = "idle" /\ queue # <<>>
  /\ queue' = Tail(queue)
  /\ LET task == Head(queue) IN
     CASE task[1] = "rpc" -> StartCall(task[2]) /\ UNCHANGED <<worker, is_shut_down>>
       [] task[1] = "complete" ->
            /\ RunCompletion(task[2], task[3])
            /\ UNCHANGED <<net, channel, worker, is_shut_down>>
       [] task[1] \in {"network", "shutdown"} ->
            /\ worker' = [Idle EXCEPT !.task = task[1], !.todo = registered]
            /\ is_shut_down' = (is_shut_down \/ task[1] = "shutdown")
            /\ UNCHANGED <<call, ops, net, active, registered, channel>>
  /\ UNCHANGED <<polled, grpcQueue, stopping, changes, freed>>

\* A slip: the callbacks of the completions are kept.
CancelledNot(o, c) == o

\* GrpcCompletion::Cancel of each completion of c.
Cancelled(o, c) ==
  [o EXCEPT ![c] = [t \in Ops |-> [@[t] EXCEPT !.live = FALSE]]]

\* FinishImmediately and FinishAndNotify up to where they wait: the call is
\* unregistered and cancelled, and so are its completions.
FinishCall ==
  /\ worker.task # "idle" /\ worker.stage = "next" /\ worker.todo # <<>>
  /\ LET c == Head(worker.todo)
         reading == c \in Lookups /\ ops[c]["Read"].live
     IN /\ registered' = Unregister(c)
        /\ net' = [net EXCEPT ![c] = IF ops[c]["Finish"].live /\ c \in Lookups THEN @
                                     ELSE IF @ = "up" THEN "CANCELLED" ELSE @]
        /\ ops' = Cancelled(ops, c)
        /\ worker' = [worker EXCEPT !.stage = IF reading THEN "read" ELSE "finish"]
  /\ UNCHANGED <<call, active, channel, queue, polled, grpcQueue, stopping, is_shut_down,
                 changes, freed>>

OffQueue(c, type) == ops[c][type].at \in {"none", "off", "queued"}

\* FinishGrpcCall of a stream, once the read is off the completion queue.
FinishGrpcCall ==
  /\ worker.task # "idle" /\ worker.stage = "read" /\ OffQueue(Head(worker.todo), "Read")
  /\ ops' = Submit(ops, Head(worker.todo), "Finish", FALSE)
  /\ worker' = [worker EXCEPT !.stage = "finish"]
  /\ UNCHANGED <<call, net, active, registered, channel, queue, polled, grpcQueue,
                 stopping, is_shut_down, changes, freed>>

\* The end of the two: on a change of the network the maker is told.
CallFinished ==
  /\ worker.task # "idle" /\ worker.stage = "finish" /\ OffQueue(Head(worker.todo), "Finish")
  /\ worker' = [worker EXCEPT !.stage = "next", !.todo = Tail(@)]
  /\ IF worker.task = "network"
     THEN /\ call' = [call EXCEPT ![Head(worker.todo)] = Ended(Head(worker.todo), "UNAVAILABLE")]
          /\ active' = active \ {Head(worker.todo)}
     ELSE UNCHANGED <<call, active>>
  /\ UNCHANGED <<ops, net, registered, channel, queue, polled, grpcQueue, stopping,
                 is_shut_down, changes, freed>>

\* The rest of the connectivity callback, or of Shutdown up to the drain.
AllFinished ==
  /\ worker.task # "idle" /\ worker.stage = "next" /\ worker.todo = <<>>
  /\ IF worker.task = "network"
     THEN worker' = Idle /\ channel' = [channel EXCEPT !.kept = FALSE] /\ UNCHANGED grpcQueue
     ELSE /\ grpcQueue' = "shutdown" /\ worker' = [worker EXCEPT !.stage = "drain"]
          /\ UNCHANGED channel
  /\ UNCHANGED <<call, ops, net, active, registered, queue, polled, stopping, is_shut_down,
                 changes, freed>>

ShutdownDone ==
  /\ worker.stage = "drain" /\ grpcQueue = "ended" /\ worker' = Idle
  /\ UNCHANGED <<call, ops, net, active, registered, channel, queue, polled, grpcQueue,
                 stopping, is_shut_down, changes, freed>>

\* The owner, which is not part of the repository, drops Datastore when it
\* is shut down, together with the connectivity monitor.
Release ==
  /\ grpcQueue = "ended" /\ worker.task = "idle" /\ ~freed
  /\ <<"network">> \notin ToSet(queue)
  /\ freed' = TRUE /\ active' = {}
  /\ UNCHANGED <<call, ops, net, registered, channel, queue, worker, polled, grpcQueue,
                 stopping, is_shut_down, changes>>

-----------------------------------------------------------------------------
(* Others: the connectivity monitor and the client enqueue their tasks.    *)

NetworkChanged ==
  /\ changes < MaxChanges /\ ~freed
  /\ changes' = changes + 1 /\ queue' = Append(queue, <<"network">>)
  /\ UNCHANGED <<call, ops, net, active, registered, channel, worker, polled, grpcQueue,
                 stopping, is_shut_down, freed>>

Shutdown ==
  /\ ~stopping /\ stopping' = TRUE /\ queue' = Append(queue, <<"shutdown">>)
  /\ UNCHANGED <<call, ops, net, active, registered, channel, worker, polled, grpcQueue,
                 is_shut_down, changes, freed>>

(* gRPC: a response arrives; a call is over; then what is left comes back. *)
Respond(c) ==
  /\ ops[c]["Read"].at = "grpc" /\ net[c] = "up" /\ call[c].responses < MaxResponses
  /\ ops' = [ops EXCEPT ![c]["Read"].at = "back", ![c]["Read"].ok = TRUE]
  /\ UNCHANGED <<call, net, active, registered, channel, queue, worker, polled, grpcQueue,
                 stopping, is_shut_down, changes, freed>>

Over(c, status) ==
  /\ net[c] = "up" /\ net' = [net EXCEPT ![c] = status]
  /\ UNCHANGED <<call, ops, active, registered, channel, queue, worker, polled, grpcQueue,
                 stopping, is_shut_down, changes, freed>>

ComeBack(c, type) ==
  /\ ops[c][type].at = "grpc" /\ net[c] \notin {"new", "up"}
  /\ ops' = [ops EXCEPT ![c][type].at = "back"]
  /\ UNCHANGED <<call, net, active, registered, channel, queue, worker, polled, grpcQueue,
                 stopping, is_shut_down, changes, freed>>

(* PollGrpcQueue: GrpcCompletion::Complete of what comes, until there is   *)
(* nothing to come.                                                        *)
PollGrpcQueue(c, type) ==
  /\ polled = <<>> /\ grpcQueue # "ended" /\ ops[c][type].at = "back"
  /\ polled' = <<c, type>> /\ ops' = [ops EXCEPT ![c][type].at = "off"]
  /\ UNCHANGED <<call, net, active, registered, channel, queue, worker, grpcQueue,
                 stopping, is_shut_down, changes, freed>>

Enqueue ==
  /\ polled # <<>> /\ polled' = <<>>
  /\ queue' = Append(queue, <<"complete">> \o polled)
  /\ ops' = [ops EXCEPT ![polled[1]][polled[2]].at = "queued"]
  /\ UNCHANGED <<call, net, active, registered, channel, worker, grpcQueue, stopping,
                 is_shut_down, changes, freed>>

PollEnds ==
  /\ polled = <<>> /\ grpcQueue = "shutdown"
  /\ \A c \in CallIds, t \in Ops : ops[c][t].at \notin {"grpc", "back"}
  /\ grpcQueue' = "ended"
  /\ UNCHANGED <<call, ops, net, active, registered, channel, queue, worker, polled,
                 stopping, is_shut_down, changes, freed>>

-----------------------------------------------------------------------------
WorkerStep ==
  WorkerTask \/ FinishCall \/ FinishGrpcCall \/ CallFinished \/ AllFinished \/ ShutdownDone

PollStep == Enqueue \/ PollEnds \/ \E c \in CallIds, t \in Ops : PollGrpcQueue(c, t)

Comeback == \E c \in CallIds, t \in Ops : ComeBack(c, t)

Token ==
  \E c \in CallIds : \/ TokenReceived(c, "app_check", "ok")
                     \/ \E result \in {"ok", "error"} : TokenReceived(c, "auth", result)

Next ==
  \/ \E c \in CallIds, n \in 0..MaxResponses :
       (c \notin Lookups => n = 0) /\ ResumeRpcWithCredentials(c, n)
  \/ Token \/ WorkerStep \/ PollStep \/ Comeback
  \/ \E c \in CallIds : Respond(c)
  \/ \E c \in CallIds, status \in {"OK", "UNKNOWN"} : Over(c, status)
  \/ NetworkChanged \/ Shutdown \/ Release

Fairness ==
  WF_vars(Token) /\ WF_vars(WorkerStep) /\ WF_vars(PollStep) /\ WF_vars(Comeback)

Spec == Init /\ [][Next]_vars /\ Fairness

-----------------------------------------------------------------------------
\* The maker of a call is answered at most once, whatever comes after the
\* answer: a lookup that had all its responses and then fails, a completion
\* that was already enqueued when the network changed; and a call that was
\* removed was answered.
AnsweredOnce ==
  \A c \in CallIds : /\ Len(call[c].answers) <= 1
                     /\ call[c].stage = "removed" => Len(call[c].answers) = 1
                     /\ call[c].stage = "dropped" => call[c].answers = <<>>

\* What is registered is owned by Datastore, on its one channel unless the
\* network is just changing, and what is owned is registered until it is
\* being finished: RemoveGrpcCall and Unregister find what they look for.
RegisteredIsOwned ==
  /\ ToSet(registered) \subseteq active
  /\ ~is_shut_down => active \subseteq ToSet(registered) \cup ToSet(worker.todo)
  /\ \A c \in ToSet(registered) : channel.kept /\ call[c].chan = channel.last
  /\ IsInjective(registered)

\* When Shutdown is over the poll loop has ended, gRPC has nothing left of any
\* call, no callback of one is still to run, and Datastore can be freed.
ShutdownIsFinal ==
  grpcQueue = "ended" =>
    /\ registered = <<>> /\ polled = <<>>
    /\ \A c \in CallIds, t \in Ops :
         ops[c][t].at \in {"none", "queued"} /\ ~ops[c][t].live

\* The worker waits for nothing, and every call that has its tokens was
\* answered, unless its server still has it or Datastore is shut down.
Settled ==
  /\ worker.task = "idle" /\ queue = <<>> /\ polled = <<>>
  /\ stopping => grpcQueue = "ended"
  /\ \A c \in CallIds : \/ call[c].stage \in {"none", "removed", "dropped"} \/ stopping
                        \/ call[c].stage = "active" /\ net[c] = "up"
=============================================================================
