------------------------------- MODULE Stream -------------------------------
(***************************************************************************)
(* The two streams of the Firestore client (remote/stream.cc) with their   *)
(* exponential backoff, and the tracker of the online state.  Everything   *)
(* of the client runs as tasks of one worker queue, so a method is an      *)
(* operator from client states to client states: it takes the record c and *)
(* returns what c is when the method returns.  A HARD_ASSERT that fails    *)
(* leaves its name in c.failed.                                            *)
(***************************************************************************)
EXTENDS Integers, Sequences

CONSTANTS
  InitialDelay,     \* kBackoffInitialDelay, in units of delay
  MaxDelay,         \* kBackoffMaxDelay, in the same units
  MaxFailures,      \* kMaxWatchStreamFailures
  None

Streams == {"watch", "write"}
StreamStates == {"Initial", "Starting", "Open", "Healthy", "Error", "Backoff"}

HardAssert(c, cond, what) ==
  IF cond THEN c ELSE [c EXCEPT !.failed = @ \cup {what}]

\* grpc is the call under the stream, None while there is none; idle,
\* health and backoff say whether that timer is scheduled; current_base_ is
\* base; requests are the calls for credentials not yet answered, current
\* while close_count_ is what it was when the call was made.
NewStream ==
  [state |-> "Initial", grpc |-> None, idle |-> FALSE, health |-> FALSE,
   backoff |-> FALSE, base |-> 0, requests |-> {}]

IsOpen(c, s) == c.stream[s].state \in {"Open", "Healthy"}

IsStarted(c, s) == c.stream[s].state \in {"Starting", "Backoff"} \/ IsOpen(c, s)

RequestCredentials(c, s) ==
  [c EXCEPT !.stream[s].requests =
              @ \cup {[current |-> TRUE, auth |-> None, app_check |-> FALSE]}]

ClampDelay(delay) ==
  IF delay < InitialDelay THEN InitialDelay
  ELSE IF delay > MaxDelay THEN MaxDelay ELSE delay

BackoffAndTryRestarting(c, s) ==
  [c EXCEPT !.stream[s].state = "Backoff", !.stream[s].backoff = TRUE,
            !.stream[s].base = ClampDelay((@ * 3) \div 2)]

Start(c, s) ==
  IF c.stream[s].state = "Error" THEN BackoffAndTryRestarting(c, s)
  ELSE RequestCredentials(
         [HardAssert(c, c.stream[s].state = "Initial", "Already started")
            EXCEPT !.stream[s].state = "Starting"], s)

\* The operation BackoffAndTryRestarting scheduled.
BackoffElapsed(c, s) ==
  Start([HardAssert(c, c.stream[s].state = "Backoff", "Backoff elapsed")
           EXCEPT !.stream[s].backoff = FALSE, !.stream[s].state = "Initial"], s)

InhibitBackoff(c, s) ==
  [HardAssert(c, ~IsStarted(c, s), "Can only cancel backoff in a stopped state")
     EXCEPT !.stream[s].state = "Initial", !.stream[s].base = 0]

MarkIdle(c, s) ==
  [c EXCEPT !.stream[s].idle = @ \/ IsOpen(c, s)]

CancelIdleCheck(c, s) == [c EXCEPT !.stream[s].idle = FALSE]

Write(c, s, message) ==
  [CancelIdleCheck(HardAssert(c, IsOpen(c, s), "Cannot write"), s)
     EXCEPT !.stream[s].grpc.up = Append(@, message)]

\* The call opens as soon as it is started: its first message carries the
\* metadata, so no answer of the server is waited for.
OpenGrpc(c, s, token) ==
  [c EXCEPT !.stream[s].grpc = [up |-> <<>>, down |-> <<>>, token |-> token, reg |-> {}],
            !.stream[s].state = "Open"]

HealthCheck(c, s) ==
  [c EXCEPT !.stream[s].health = FALSE,
            !.stream[s].state = IF IsOpen(c, s) THEN "Healthy" ELSE @]

HandleErrorStatus(c, s, status) ==
  IF status = "exhausted" THEN [c EXCEPT !.stream[s].base = MaxDelay]
  ELSE IF status = "unauthenticated" /\ c.stream[s].state # "Healthy"
  THEN [c EXCEPT !.token = "good"]                \* InvalidateToken
  ELSE c

\* A close that keeps the backoff timer running.
CloseKeepingTimer(c, s, status) ==
  [IF status = "ok" THEN [c EXCEPT !.stream[s].base = 0]
                    ELSE HandleErrorStatus(c, s, status)
     EXCEPT !.stream[s].idle = FALSE, !.stream[s].health = FALSE,
            !.stream[s].requests = {[r EXCEPT !.current = FALSE] : r \in @},
            !.stream[s].grpc = None,
            !.stream[s].state = IF status = "ok" THEN "Initial" ELSE "Error"]

\* Close, up to the call of NotifyStreamClose: every timer is cancelled, every
\* call for credentials is outdated, the grpc stream is torn down.
CloseStream(c, s, status) ==
  [IF status = "ok" THEN [c EXCEPT !.stream[s].base = 0]
                    ELSE HandleErrorStatus(c, s, status)
     EXCEPT !.stream[s].idle = FALSE, !.stream[s].health = FALSE,
            !.stream[s].backoff = FALSE,
            !.stream[s].requests = {[r EXCEPT !.current = FALSE] : r \in @},
            !.stream[s].grpc = None,
            !.stream[s].state = IF status = "ok" THEN "Initial" ELSE "Error"]

-----------------------------------------------------------------------------
(* OnlineStateTracker: c.online has the state, watch_stream_failures_ and  *)
(* whether online_state_timer_ is scheduled.                               *)

NewTracker == [state |-> "Unknown", failures |-> 0, timer |-> FALSE]

HandleWatchStreamStart(c) ==
  IF c.online.failures # 0 THEN c
  ELSE [HardAssert(c, ~c.online.timer, "online_state_timer_ shouldn't be started yet")
          EXCEPT !.online.state = "Unknown", !.online.timer = TRUE]

OnlineTimeout(c) ==
  [HardAssert(c, c.online.state = "Unknown", "Timer should be canceled")
     EXCEPT !.online.timer = FALSE, !.online.state = "Offline"]

HandleWatchStreamFailure(c) ==
  IF c.online.state = "Online"
  THEN [HardAssert(c, c.online.failures = 0 /\ ~c.online.timer, "heuristics must be reset")
          EXCEPT !.online.state = "Unknown"]
  ELSE IF c.online.failures + 1 >= MaxFailures
  THEN [c EXCEPT !.online = [state |-> "Offline", failures |-> @.failures + 1, timer |-> FALSE]]
  ELSE [c EXCEPT !.online.failures = @ + 1]

UpdateState(c, state) ==
  [c EXCEPT !.online = [state |-> state, failures |-> 0, timer |-> FALSE]]
=============================================================================
