----------------------------- MODULE RemoteStore -----------------------------
(***************************************************************************)
(* RemoteStore (remote/remote_store.cc): the part of the Firestore client   *)
(* that keeps the queue of local writes and the listened targets in step    *)
(* with the server over a write stream and a watch stream.  An action is    *)
(* one task of the worker queue (a call of the user, a timer, an answer of  *)
(* the credential providers, a message of a stream) or one step of the      *)
(* server and the network.  SyncEngine, LocalStore, the credential          *)
(* providers and the server are not part of the source: they are modelled   *)
(* from how the client uses them.                                           *)
(***************************************************************************)
EXTENDS WatchChangeAggregator, SequencesExt

CONSTANTS
  MaxPendingWrites,   \* kMaxPendingWrites
  Scenarios           \* what the user, the network and the server may do

VARIABLES
  client,    \* the client, as Stream and WatchChangeAggregator describe it
  server,    \* history: its documents by version; applied: the writes it made
  left,      \* how often each event outside of the client may still happen
  scenario   \* the scenario: fixed

vars == <<client, server, left, scenario>>

Init ==
  /\ scenario \in Scenarios
  /\ left = scenario.left
  /\ server = [history |-> <<scenario.docs>>, applied |-> <<>>]
  /\ client = [enabled |-> TRUE, stream |-> [s \in Streams |-> NewStream],
               pipeline |-> <<>>, handshake |-> FALSE, queue |-> <<>>,
               listen |-> EmptyMap, agg |-> None, online |-> NewTracker,
               keys |-> [t \in Targets |-> {}], saved |-> [t \in Targets |-> 0],
               at |-> [t \in Targets |-> None], known |-> EmptyMap, last |-> 0,
               emptied |-> {}, unreset |-> {}, unread |-> {}, token |-> "good",
               resolved |-> <<>>, rejected |-> {}, failed |-> {}]

-----------------------------------------------------------------------------
(* Datastore: which errors are permanent.                                  *)

IsPermanentError(status) == status \in {"invalid", "aborted", "dataloss"}
IsPermanentWriteError(status) == IsPermanentError(status) /\ status # "aborted"

-----------------------------------------------------------------------------
(* The watch stream.                                                       *)

SendWatchRequest(c, t, token) ==
  IF c.agg = None THEN HardAssert(c, FALSE, "no aggregator")
  ELSE Write(RecordPendingTargetRequest(c, t), "watch",
             [type |-> "watch", target |-> t, token |-> token])

SendUnwatchRequest(c, t) ==
  IF c.agg = None THEN HardAssert(c, FALSE, "no aggregator")
  ELSE Write(RecordPendingTargetRequest(c, t), "watch", [type |-> "unwatch", target |-> t])

ShouldStartWatchStream(c) ==
  c.enabled /\ ~IsStarted(c, "watch") /\ DOMAIN c.listen # {}

StartWatchStream(c) ==
  HandleWatchStreamStart(
    Start([HardAssert(c, ShouldStartWatchStream(c), "StartWatchStream")
             EXCEPT !.agg = NewAggregator], "watch"))

OnWatchStreamOpen(c) ==
  FoldSet(LAMBDA t, d : SendWatchRequest(d, t, d.listen[t]), c, DOMAIN c.listen)

\* A close after which the online state stays what it was.
OnWatchStreamCloseQuietly(c, status) ==
  LET d == [HardAssert(c, status # "ok" \/ ~ShouldStartWatchStream(c),
                       "Watch stream was stopped gracefully while still needed")
              EXCEPT !.agg = None]
  IN IF ShouldStartWatchStream(d) THEN StartWatchStream(HandleWatchStreamFailure(d)) ELSE d

OnWatchStreamClose(c, status) ==
  LET d == [HardAssert(c, status # "ok" \/ ~ShouldStartWatchStream(c),
                       "Watch stream was stopped gracefully while still needed")
              EXCEPT !.agg = None]
  IN IF ShouldStartWatchStream(d) THEN StartWatchStream(HandleWatchStreamFailure(d))
     ELSE UpdateState(d, "Unknown")

\* SyncEngine (external): the event updates the documents of each target, the
\* resume token saved with them and what is known of each document.  A view
\* is current when its target is, and is then the one of that version;
\* emptied (history) are the targets that became current in the very event
\* that reset them, unreset the ones that an event named as mismatched when
\* it had no changes of them, for they had been stopped and listened to again.
ApplyRemoteEvent(c, e) ==
  LET Changed(t, type) == KeysWith(e.changes[t].changes, type)
      upToDate(t) == t \in DOMAIN c.agg.targets /\ c.agg.targets[t].current /\ ~IsPending(c, t)
  IN [c EXCEPT
       !.keys = [t \in Targets |-> IF t \in DOMAIN e.changes
                   THEN (@[t] \cup Changed(t, "Added")) \ Changed(t, "Removed") ELSE @[t]],
       !.saved = [t \in Targets |-> IF t \notin DOMAIN e.changes THEN @[t]
                   ELSE IF t \in e.mismatches THEN 0
                   ELSE IF e.changes[t].token # 0 THEN e.changes[t].token ELSE @[t]],
       !.known = e.docs @@ @, !.last = e.version,
       !.emptied = (@ \ DOMAIN e.changes)
                     \cup {t \in e.mismatches \cap DOMAIN e.changes : e.changes[t].current},
       !.unreset = @ \cup (e.mismatches \ DOMAIN e.changes),
       !.at = [t \in Targets |->
                 IF t \in DOMAIN e.changes /\ ~e.changes[t].current THEN None
                 ELSE IF t \in DOMAIN e.changes \/ upToDate(t) THEN e.version ELSE @[t]]]

\* Unwatch and watch again, without a resume token.
Relisten(c, t) ==
  IF t \notin DOMAIN c.listen THEN c
  ELSE SendWatchRequest(SendUnwatchRequest([c EXCEPT !.listen[t] = 0], t), t, 0)

RaiseWatchSnapshot(c, version) ==
  LET made == Synthesized(c)
      event == RemoteEventOf(made, version)
      resumed == [HandedOver(made) EXCEPT !.listen =
                    [t \in DOMAIN @ |-> IF t \in DOMAIN event.changes /\ event.changes[t].token # 0
                                        THEN event.changes[t].token ELSE @[t]]]
  IN ApplyRemoteEvent(
       FoldSet(LAMBDA t, d : Relisten(d, t), resumed, event.mismatches), event)

\* SyncEngine forgets the view of a target whose listen was rejected.
ProcessTargetError(c, targets) ==
  LET Reject(t, d) ==
        [RemoveTarget(d, t) EXCEPT !.listen = Restrict(@, DOMAIN @ \ {t}),
                                   !.at[t] = None, !.rejected = @ \cup {t}]
  IN FoldSet(Reject, c, targets \cap DOMAIN c.listen)

OnWatchStreamChange(c, m) ==
  LET d == UpdateState(c, "Online")
      handled == CASE m.type = "target" -> HandleTargetChange(d, m)
                   [] m.type = "doc" -> HandleDocumentChange(d, m)
                   [] m.type = "filter" -> HandleExistenceFilter(d, m)
  IN IF m.type = "error" THEN ProcessTargetError(d, m.targets)
     ELSE IF m.version # 0 /\ m.version >= c.last THEN RaiseWatchSnapshot(handled, m.version)
     ELSE handled

-----------------------------------------------------------------------------
(* The write stream.  A batch is its number; the queue of LocalStore holds *)
(* the batches not yet acknowledged or rejected.                           *)

AddToWritePipeline(c, b) ==
  LET d == [HardAssert(c, c.enabled /\ Len(c.pipeline) < MaxPendingWrites, "pipeline is full")
              EXCEPT !.pipeline = Append(@, b)]
  IN IF IsOpen(c, "write") /\ c.handshake
     THEN Write(d, "write", [type |-> "batch", batch |-> b]) ELSE d

ShouldStartWriteStream(c) ==
  c.enabled /\ ~IsStarted(c, "write") /\ c.pipeline # <<>>

StartWriteStream(c) ==
  Start(HardAssert(c, ShouldStartWriteStream(c), "StartWriteStream"), "write")

\* The batches GetNextMutationBatch returns one after the other, from the
\* last one in the pipeline on.
NextBatches(c) ==
  LET last == IF c.pipeline = <<>> THEN 0 ELSE Last(c.pipeline)
      next == SelectSeq(c.queue, LAMBDA b : b > last)
      room == MaxPendingWrites - Len(c.pipeline)
  IN IF ~c.enabled THEN <<>> ELSE SubSeq(next, 1, IF room < Len(next) THEN room ELSE Len(next))

FillWritePipeline(c) ==
  LET filled == FoldLeft(AddToWritePipeline, c, NextBatches(c))
      idle == IF c.enabled /\ filled.pipeline = <<>> THEN MarkIdle(filled, "write") ELSE filled
  IN IF ShouldStartWriteStream(idle) THEN StartWriteStream(idle) ELSE idle

OnWriteStreamOpen(c) ==
  Write(HardAssert(c, ~c.handshake, "Handshake already completed"), "write",
        [type |-> "handshake"])

OnWriteStreamHandshakeComplete(c) ==
  FoldLeft(LAMBDA d, b : Write(d, "write", [type |-> "batch", batch |-> b]), c, c.pipeline)

\* SyncEngine (external) removes a batch with its result from the queue;
\* answered is the batch the server meant.
Resolve(c, result, answered) ==
  [c EXCEPT !.pipeline = Tail(@),
            !.queue = SelectSeq(@, LAMBDA b : b # Head(c.pipeline)),
            !.resolved = Append(@, [batch |-> Head(c.pipeline), result |-> result,
                                    answered |-> answered])]

OnWriteStreamMutationResult(c, m) ==
  IF c.pipeline = <<>> THEN HardAssert(c, FALSE, "Got result for empty write pipeline")
  ELSE FillWritePipeline(Resolve(c, "acknowledged", m.batch))

\* Every error taken for the write's own.
HandleAnyWriteError(c, status, batch) ==
  FillWritePipeline(Resolve(InhibitBackoff(c, "write"), "rejected", batch))

\* Only a permanent error concerns the write at the front.
HandleWriteError(c, status, batch) ==
  IF ~IsPermanentWriteError(status) THEN c
  ELSE FillWritePipeline(Resolve(InhibitBackoff(c, "write"), "rejected", batch))

\* A close after which only a rejected write starts the stream again.
OnWriteStreamCloseForGood(c, status, batch) ==
  IF status # "ok" /\ c.pipeline # <<>> /\ c.handshake
  THEN HandleWriteError(c, status, batch) ELSE c

\* An error before the handshake only resets the stream token, which the
\* handshake does not send.
OnWriteStreamClose(c, status, batch) ==
  LET d == HardAssert(c, status # "ok" \/ ~ShouldStartWriteStream(c),
                      "Write stream was stopped gracefully while still needed")
      handled == IF status # "ok" /\ d.pipeline # <<>> /\ d.handshake
                 THEN HandleWriteError(d, status, batch) ELSE d
  IN IF ShouldStartWriteStream(handled) THEN StartWriteStream(handled) ELSE handled

-----------------------------------------------------------------------------
(* Stream, from the calls that notify RemoteStore on.                      *)

Close(c, s, status, batch) ==
  IF status = "ok" /\ ~IsStarted(c, s) THEN c
  ELSE LET d == CloseStream(HardAssert(c, IsStarted(c, s), "Trying to close a non-started stream"),
                            s, status)
       IN IF s = "watch" THEN OnWatchStreamClose(d, status)
          ELSE [OnWriteStreamClose(d, status, batch) EXCEPT !.handshake = FALSE]

Stop(c, s) == Close(c, s, "ok", None)

ResumeStartWithCredentials(c, s, auth) ==
  LET d == HardAssert(c, c.stream[s].state = "Starting", "State should still be Starting")
      open == OpenGrpc(d, s, auth)
      notified == IF s = "watch" THEN OnWatchStreamOpen(open) ELSE OnWriteStreamOpen(open)
  IN IF auth = "fail" THEN Close(d, s, "unavailable", None)
     ELSE [notified EXCEPT !.stream[s].health = TRUE]

NotifyStreamResponse(c, s, m) ==
  IF s = "watch" THEN OnWatchStreamChange([c EXCEPT !.stream[s].base = 0], m)
  ELSE IF ~c.handshake THEN OnWriteStreamHandshakeComplete([c EXCEPT !.handshake = TRUE])
  ELSE OnWriteStreamMutationResult([c EXCEPT !.stream[s].base = 0], m)

\* A response that cannot be parsed, or is parsed and cannot be decoded (the
\* backoff is reset between the two, but not for a handshake), ends the stream.
OnStreamRead(c, s, m) ==
  LET d == HardAssert(c, IsStarted(c, s), "OnStreamRead called for a stopped stream")
  IN IF m.type # "garbled" THEN NotifyStreamResponse(d, s, m)
     ELSE Close(IF m.parses THEN [d EXCEPT !.stream[s].base = 0] ELSE d, s, "dataloss", m.batch)

-----------------------------------------------------------------------------
(* The network.                                                            *)

DisableNetworkInternal(c) ==
  [Stop(Stop(c, "watch"), "write") EXCEPT !.pipeline = <<>>, !.agg = None]

EnableNetwork(c) ==
  LET d == [c EXCEPT !.enabled = TRUE]
  IN FillWritePipeline(IF ShouldStartWatchStream(d) THEN StartWatchStream(d)
                       ELSE UpdateState(d, "Unknown"))

DisableNetwork(c) ==
  UpdateState(DisableNetworkInternal([c EXCEPT !.enabled = FALSE]), "Offline")

RestartNetwork(c) ==
  LET d == UpdateState(DisableNetworkInternal([c EXCEPT !.enabled = FALSE]), "Unknown")
  IN EnableNetwork(InhibitBackoff(InhibitBackoff(d, "write"), "watch"))

-----------------------------------------------------------------------------
(* The tasks of the worker queue.                                          *)

Spend(what) == left[what] > 0 /\ left' = [left EXCEPT ![what] = @ - 1]

\* A write of the user: LocalStore queues it, then the pipeline is filled.
WriteMutations ==
  /\ Spend("writes")
  /\ client' = LET b == scenario.left.writes - left.writes + 1
               IN FillWritePipeline([client EXCEPT !.queue = Append(@, b)])
  /\ UNCHANGED <<server, scenario>>

\* A target that was listened to before is resumed from what was saved.
Listen(t) ==
  /\ t \in scenario.targets \ DOMAIN client.listen
  /\ Spend("listens")
  /\ client' = LET c == [client EXCEPT !.listen = (t :> client.saved[t]) @@ @]
               IN IF ShouldStartWatchStream(c) THEN StartWatchStream(c)
                  ELSE IF IsOpen(c, "watch") THEN SendWatchRequest(c, t, c.listen[t])
                  ELSE c
  /\ UNCHANGED <<server, scenario>>

StopListening(t) ==
  /\ t \in DOMAIN client.listen
  /\ Spend("stops")
  /\ client' =
       LET c == [client EXCEPT !.listen = Restrict(@, DOMAIN @ \ {t}), !.at[t] = None]
           open == IsOpen(c, "watch")
           sent == IF open THEN SendUnwatchRequest(c, t) ELSE c
       IN IF DOMAIN c.listen # {} THEN sent
          ELSE IF open THEN MarkIdle(sent, "watch")
          ELSE IF c.enabled THEN UpdateState(sent, "Unknown") ELSE sent
  /\ UNCHANGED <<server, scenario>>

EnableNetworkCall ==
  /\ ~client.enabled /\ Spend("toggles")
  /\ client' = EnableNetwork(client)
  /\ UNCHANGED <<server, scenario>>

DisableNetworkCall ==
  /\ client.enabled /\ Spend("toggles")
  /\ client' = DisableNetwork(client)
  /\ UNCHANGED <<server, scenario>>

\* The connectivity monitor or the credential provider reports a change.
NetworkChanged ==
  /\ client.enabled /\ Spend("restarts")
  /\ client' = RestartNetwork(client)
  /\ UNCHANGED <<server, scenario>>

\* Nothing is asked of the client once it is shut down.
Shutdown ==
  /\ left.shutdowns > 0
  /\ left' = [x \in DOMAIN left |-> 0]
  /\ client' = UpdateState(DisableNetworkInternal([client EXCEPT !.enabled = FALSE]), "Unknown")
  /\ UNCHANGED <<server, scenario>>

\* A provider answers a call for credentials; the stream goes on when both
\* have answered.
Answered(s, r, a) ==
  client' = [client EXCEPT !.stream[s].requests = (@ \ {r}) \cup {a}]

AuthToken(s) ==
  \E r \in client.stream[s].requests :
    /\ r.auth = None
    /\ \/ Answered(s, r, [r EXCEPT !.auth = client.token]) /\ UNCHANGED left
       \/ Spend("denials") /\ Answered(s, r, [r EXCEPT !.auth = "fail"])
    /\ UNCHANGED <<server, scenario>>

AppCheckToken(s) ==
  \E r \in client.stream[s].requests :
    /\ ~r.app_check
    /\ Answered(s, r, [r EXCEPT !.app_check = TRUE])
    /\ UNCHANGED <<server, left, scenario>>

\* Credentials of a stream that was closed meanwhile are used all the same.
CredentialsAnyway(s) ==
  \E r \in client.stream[s].requests :
    /\ r.auth # None /\ r.app_check
    /\ client' = ResumeStartWithCredentials([client EXCEPT !.stream[s].requests = @ \ {r}],
                                            s, r.auth)
    /\ UNCHANGED <<server, left, scenario>>

Credentials(s) ==
  \E r \in client.stream[s].requests :
    /\ r.auth # None /\ r.app_check
    /\ client' = LET c == [client EXCEPT !.stream[s].requests = @ \ {r}]
                 IN IF r.current THEN ResumeStartWithCredentials(c, s, r.auth) ELSE c
    /\ UNCHANGED <<server, left, scenario>>

BackoffTimer(s) ==
  /\ client.stream[s].backoff
  /\ client' = BackoffElapsed(client, s)
  /\ UNCHANGED <<server, left, scenario>>

IdleTimer(s) ==
  /\ client.stream[s].idle
  /\ client' = Stop([client EXCEPT !.stream[s].idle = FALSE], s)
  /\ UNCHANGED <<server, left, scenario>>

\* A bad token is rejected long before kHealthyTimeout has passed.
HealthTimer(s) ==
  /\ client.stream[s].health /\ client.stream[s].grpc.token = "good"
  /\ client' = HealthCheck(client, s)
  /\ UNCHANGED <<server, left, scenario>>

OnlineTimer ==
  /\ client.online.timer
  /\ client' = OnlineTimeout(client)
  /\ UNCHANGED <<server, left, scenario>>

Receiving(s) == client.stream[s].grpc # None /\ client.stream[s].grpc.down # <<>>

\* The next message of the stream, or its end (OnStreamFinish).
Receive(s) ==
  /\ Receiving(s)
  /\ client' = LET m == Head(client.stream[s].grpc.down)
                   c == [client EXCEPT !.stream[s].grpc.down = Tail(@)]
               IN IF m.type = "finish" THEN Close(c, s, m.status, m.batch)
                  ELSE OnStreamRead(c, s, m)
  /\ UNCHANGED <<server, left, scenario>>

-----------------------------------------------------------------------------
(* The server and the network (external).  A stream the server has ended   *)
(* takes nothing more; what is on its way when it ends is lost.            *)

Grpc(s) == client.stream[s].grpc
Ended(s) == Grpc(s).down # <<>> /\ Last(Grpc(s).down).type = "finish"
Serving(s) == Grpc(s) # None /\ ~Ended(s)

Finish(status, batch) == [type |-> "finish", status |-> status, batch |-> batch]
TargetMsg(state, t, token) ==
  [type |-> "target", state |-> state, targets |-> {t}, token |-> token, version |-> 0]
Snapshot(v) ==
  [type |-> "target", state |-> "NoChange", targets |-> {}, token |-> v, version |-> v]
Found(k, ts) ==
  [type |-> "doc", key |-> k, doc |-> "found", updated |-> ts, removed |-> {}, version |-> 0]
Gone(k, ts) ==
  [type |-> "doc", key |-> k, doc |-> "gone", updated |-> {}, removed |-> ts, version |-> 0]

Version == Len(server.history)
DocsOf(t, v) == server.history[v] \cap Matching[t]

SendFound(t, ks) == LET seq == SetToSeq(ks) IN [i \in DOMAIN seq |-> Found(seq[i], {t})]
SendGone(t, ks) == LET seq == SetToSeq(ks) IN [i \in DOMAIN seq |-> Gone(seq[i], {t})]

\* Without a resume token the server sends every document of the target.
\* With one it sends what was added, and for what was removed either the
\* removals, or an existence filter, before or after it calls the target
\* current as the scenario says, or it starts afresh.
WatchAnswers(t, token) ==
  LET now == DocsOf(t, Version)
      new == IF token = 0 THEN now ELSE now \ DocsOf(t, token)
      old == IF token = 0 THEN {} ELSE DocsOf(t, token) \ now
      filter == <<[type |-> "filter", target |-> t, count |-> Cardinality(now), version |-> 0]>>
      current == <<TargetMsg("Current", t, Version)>>
      first == <<TargetMsg("Added", t, 0)>>
      delta == SendFound(t, new)
  IN {first \o delta \o SendGone(t, old) \o current \o <<Snapshot(Version)>>}
     \cup {first \o <<TargetMsg("Reset", t, 0)>> \o SendFound(t, now) \o current
             \o <<Snapshot(Version)>> : x \in {token} \ {0}}
     \cup {first \o delta \o (IF place = "before" THEN filter \o current ELSE current \o filter)
             \o <<Snapshot(Version)>> : place \in IF token = 0 THEN {} ELSE scenario.filters}

Reply(s, messages, reg) ==
  client' = [client EXCEPT !.stream[s].grpc.up = Tail(@),
                           !.stream[s].grpc.down = @ \o messages,
                           !.stream[s].grpc.reg = reg]

ServerWatch ==
  /\ Serving("watch") /\ Grpc("watch").up # <<>>
  /\ LET m == Head(Grpc("watch").up)
         reg == Grpc("watch").reg
     IN \/ /\ Grpc("watch").token = "bad"
           /\ Reply("watch", <<Finish("unauthenticated", None)>>, {})
           /\ UNCHANGED left
        \/ /\ Grpc("watch").token = "good" /\ m.type = "unwatch"
           /\ Reply("watch", <<TargetMsg("Removed", m.target, 0)>>, reg \ {m.target})
           /\ UNCHANGED left
        \/ /\ Grpc("watch").token = "good" /\ m.type = "watch"
           /\ \E answer \in WatchAnswers(m.target, m.token) :
                Reply("watch", answer, reg \cup {m.target})
           /\ UNCHANGED left
        \/ /\ Grpc("watch").token = "good" /\ m.type = "watch"
           /\ Spend("refusals")
           /\ Reply("watch", <<[type |-> "error", targets |-> {m.target}]>>, reg \ {m.target})
  /\ UNCHANGED <<server, scenario>>

ServerWrite ==
  /\ Serving("write") /\ Grpc("write").up # <<>>
  /\ LET m == Head(Grpc("write").up)
         good == Grpc("write").token = "good"
     IN \/ /\ ~good
           /\ Reply("write", <<Finish("unauthenticated", None)>>, {})
           /\ UNCHANGED server
        \/ /\ good /\ m.type = "handshake"
           /\ Reply("write", <<[type |-> "handshake"]>>, {})
           /\ UNCHANGED server
        \/ /\ good /\ m.type = "batch" /\ m.batch \in scenario.bad
           /\ Reply("write", <<Finish("invalid", m.batch)>>, {})
           /\ UNCHANGED server
        \/ /\ good /\ m.type = "batch" /\ m.batch \notin scenario.bad
           /\ Reply("write", <<[type |-> "result", batch |-> m.batch]>>, {})
           /\ server' = [server EXCEPT !.applied = Append(@, m.batch)]
  /\ UNCHANGED <<left, scenario>>

\* Another client creates or deletes a document.
ServerChange(k) ==
  /\ Spend("changes")
  /\ LET now == IF k \in Last(server.history) THEN Last(server.history) \ {k}
                ELSE Last(server.history) \cup {k}
         ts == {t \in Grpc("watch").reg : k \in Matching[t]}
         change == IF k \in now THEN Found(k, ts) ELSE Gone(k, ts)
     IN /\ server' = [server EXCEPT !.history = Append(@, now)]
        /\ client' = IF Serving("watch") /\ ts # {}
                     THEN [client EXCEPT !.stream["watch"].grpc.down =
                             @ \o <<change, Snapshot(Version + 1)>>]
                     ELSE client
  /\ UNCHANGED scenario

\* The connection is lost: of what the server has sent a part still arrives.
Break(s) ==
  /\ Serving(s) /\ Spend("breaks")
  /\ \E n \in 0 .. Len(Grpc(s).down), status \in scenario.statuses :
       client' = [client EXCEPT !.stream[s].grpc.down =
                    SubSeq(@, 1, n) \o <<Finish(status, None)>>]
  /\ UNCHANGED <<server, scenario>>

\* A message of the server becomes one the client cannot read.
Garble(s) ==
  /\ Serving(s) /\ Spend("garbles")
  /\ \E n \in DOMAIN Grpc(s).down, parses \in BOOLEAN :
       LET m == Grpc(s).down[n]
           batch == IF m.type = "result" THEN m.batch ELSE None
       IN /\ m.type = "handshake" => ~parses
          /\ client' = [client EXCEPT
               !.stream[s].grpc.down[n] = [type |-> "garbled", parses |-> parses, batch |-> batch],
               !.unread = @ \cup ({batch} \ {None})]
  /\ UNCHANGED <<server, scenario>>

TokenExpires ==
  /\ client.token = "good" /\ Spend("expiries")
  /\ client' = [client EXCEPT !.token = "bad"]
  /\ UNCHANGED <<server, scenario>>

-----------------------------------------------------------------------------
UserStep ==
  \/ WriteMutations \/ EnableNetworkCall \/ DisableNetworkCall \/ NetworkChanged \/ Shutdown
  \/ \E t \in Targets : Listen(t) \/ StopListening(t)

\* What the worker queue, the providers and the server do by themselves.
SystemStep ==
  \/ \E s \in Streams :
       AuthToken(s) \/ AppCheckToken(s) \/ Credentials(s) \/ BackoffTimer(s) \/ Receive(s)
  \/ ServerWatch \/ ServerWrite

Busy ==
  \E s \in Streams :
    \/ client.stream[s].requests # {} \/ client.stream[s].backoff \/ Receiving(s)
    \/ Serving(s) /\ Grpc(s).up # <<>>

\* Nothing is left to do.
Rest == ~Busy /\ UNCHANGED vars

Next ==
  \/ UserStep \/ SystemStep \/ OnlineTimer \/ TokenExpires \/ Rest
  \/ \E s \in Streams : IdleTimer(s) \/ HealthTimer(s) \/ Break(s) \/ Garble(s)
  \/ \E k \in Keys : ServerChange(k)

\* WF_vars(SystemStep), with ENABLED SystemStep written out: it is Busy.
Fairness == []<>~Busy \/ []<><<SystemStep>>_vars

Spec == Init /\ [][Next]_vars /\ Fairness

-----------------------------------------------------------------------------
(* Properties.                                                             *)

\* The client's fields have their types: streams in one of their six states,
\* at most MaxPendingWrites writes in the pipeline, numbered batches.
TypeOK ==
  /\ \A s \in Streams :
       /\ client.stream[s].state \in StreamStates
       /\ client.stream[s].base \in 0 .. MaxDelay
       /\ client.stream[s].grpc # None <=> IsOpen(client, s)
       /\ client.stream[s].backoff <=> client.stream[s].state = "Backoff"
  /\ client.online.state \in {"Unknown", "Online", "Offline"}
  /\ client.pipeline \in Seq(Nat) /\ client.queue \in Seq(Nat)
  /\ Len(client.pipeline) <= MaxPendingWrites
  /\ client.handshake \in BOOLEAN /\ client.enabled \in BOOLEAN
  /\ DOMAIN client.listen \subseteq Targets

\* No HARD_ASSERT of the streams, the online state tracker, the aggregator or
\* RemoteStore fails, in whatever order timers, credentials, messages,
\* errors and calls of the user come.
AssertionsHold == client.failed = {}

\* Each write is acknowledged or rejected once, in the order in which the
\* user made them, and with the server's verdict on that very write, although
\* a result names no batch and is taken to be for the front of the pipeline.
\* The one exception is a write whose result could not be read: that is an
\* error that counts as permanent, and the write that the server made is
\* rejected.
ResultsCorrelate ==
  \A i \in DOMAIN client.resolved :
    LET r == client.resolved[i]
    IN /\ r.batch = i /\ r.answered = i
       /\ r.result = "acknowledged" => i \in ToSet(server.applied)
       /\ r.result = "rejected" => i \in scenario.bad \cup client.unread

\* A view that is shown as current has exactly the documents the server had
\* at the version of the snapshot, and of a document query it is known
\* whether the document exists: changes of an earlier listen, lost
\* connections, resumed and reset targets never leave a document too many or
\* too few.  Two things are excepted: a target that an existence filter reset
\* before the server called it current is current and empty until the server
\* has answered again, and is not resumed from there; and one that was
\* listened to anew between the filter and its snapshot keeps the documents
\* that the filter disproved.
CurrentViewsMatch ==
  /\ \A t \in Targets : client.at[t] # None =>
       IF t \in client.emptied THEN client.keys[t] = {} /\ client.saved[t] = 0
       ELSE /\ DocsOf(t, client.at[t]) \subseteq client.keys[t]
            /\ t \in client.unreset \/ client.keys[t] \subseteq DocsOf(t, client.at[t])
            /\ t \in DocumentTargets => Matching[t] \subseteq DOMAIN client.known
  /\ "before" \notin scenario.filters => client.emptied = {}
  /\ scenario.left.stops = 0 => client.unreset = {}

\* The client counts as online only while its watch stream is open, and waits
\* to be only while the network is enabled.
OnlineIsConnected ==
  /\ client.online.state = "Online" => IsOpen(client, "watch")
  /\ client.online.timer => client.enabled

\* Every write was answered and every target that was not refused shows what
\* the server has, unless the network is disabled (and with the exception of
\* CurrentViewsMatch).
Synced ==
  client.enabled =>
    /\ client.queue = <<>>
    /\ \A t \in DOMAIN client.listen :
         /\ client.at[t] # None /\ DocsOf(t, Version) \subseteq client.keys[t]
         /\ t \in client.unreset \/ client.keys[t] \subseteq DocsOf(t, Version)

\* What outstanding_responses_ is said to be: the answers (to a watch or an
\* unwatch of the target) that are still due on the stream.
OutstandingIsOwed ==
  (client.agg # None /\ Grpc("watch") # None /\ ~Ended("watch")) =>
    \A t \in DOMAIN client.agg.targets :
      client.agg.targets[t].out =
        Len(SelectSeq(Grpc("watch").up, LAMBDA m : m.target = t))
        + Len(SelectSeq(Grpc("watch").down, LAMBDA m :
                /\ m.type = "error" \/ (m.type = "target" /\ m.state \in {"Added", "Removed"})
                /\ t \in m.targets))
=============================================================================
