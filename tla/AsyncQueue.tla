------------------------------ MODULE AsyncQueue ------------------------------
(***************************************************************************)
(* The queue all of the Firestore client runs on: AsyncQueue               *)
(* (util/async_queue.cc) over ExecutorLibdispatch                          *)
(* (util/executor_libdispatch.mm), whose operations are Tasks              *)
(* (util/task.cc).                                                         *)
(*                                                                         *)
(* A task is counted by the executor, while it is in tasks_ or in the      *)
(* hands of a thread that cancels it, and by libdispatch, which cannot     *)
(* take a task back. A step of a thread is what it does between two points *)
(* where another one can be seen: a critical section of the executor, of   *)
(* the task, or a change of the reference count. Two locks are held longer *)
(* and are variables: the queue's while the executor is called, and a      *)
(* task's while it reports its completion to the executor.                 *)
(***************************************************************************)
EXTENDS Naturals, FiniteSets

CONSTANTS
  Users,         \* threads that use the queue from outside
  Worker,        \* the thread of the serial dispatch queue
  MaxTasks,      \* bound: tasks created
  MaxCalls,      \* bound: calls of Cancel and Dispose
  None

Threads == Users \cup {Worker}
Tasks == 1..MaxTasks

(* What is assumed of the constants.                                       *)
QueueAssumption ==
  /\ Worker \notin Users /\ None \notin Threads
  /\ MaxTasks \in Nat /\ MaxCalls \in Nat

VARIABLES
  mode,          \* AsyncQueue::mode_
  queueLock,     \* AsyncQueue::mutex_: who calls the executor
  disposed,      \* ExecutorLibdispatch::disposed_
  tasks,         \* tasks_
  schedule,      \* schedule_, whose ids are the tasks here
  created,       \* tasks created so far
  state,         \* Task::state_
  refs,          \* Task::ref_count_
  reports,       \* the tasks with an executor_ to report to
  lock,          \* Task::mutex_ while a completion is reported
  timers,        \* libdispatch: tasks that are not due
  ready,         \* libdispatch: tasks to invoke
  place,         \* libdispatch: the place of each in the queue
  last,          \* libdispatch: the last place given
  invoked,       \* the task the worker invokes, or 0
  phase,         \* how far that is
  op,            \* the call each thread is in,
  step,          \* how far it is,
  task,          \* its task, or 0,
  todo,          \* and the tasks a Dispose still has to cancel
  calls,         \* calls made so far
  kept,          \* history: tasks cancelled by a call that has returned
  own,           \* history: tasks cancelled by their own operation
  over           \* history: a Dispose from outside has returned

executorVars == <<disposed, tasks, schedule>>
taskVars == <<state, refs, reports, lock>>
dispatchVars == <<timers, ready, place, last>>
workerVars == <<invoked, phase>>
callVars == <<op, step, task, todo>>
history == <<kept, own, over>>
vars == <<mode, queueLock, executorVars, created, taskVars, dispatchVars, workerVars, callVars, calls,
          history>>

Steps == {"none", "insert", "dispatch", "cancel", "wait", "drop", "swap", "next"}

TypeOK ==
  /\ mode \in {"running", "restricted", "disposed"}
  /\ queueLock \in Threads \cup {None}
  /\ disposed \in BOOLEAN
  /\ tasks \subseteq Tasks /\ schedule \subseteq Tasks
  /\ created \in 0..MaxTasks
  /\ state \in [Tasks -> {"initial", "cancelled", "running", "done"}]
  /\ refs \in [Tasks -> Nat]
  /\ reports \subseteq Tasks
  /\ lock \in [Tasks -> Threads \cup {None}]
  /\ timers \subseteq Tasks /\ ready \subseteq Tasks /\ place \in [Tasks -> Nat] /\ last \in Nat
  /\ invoked \in 0..MaxTasks
  /\ phase \in {"none", "begin", "operation", "done", "release"}
  /\ op \in [Threads -> {"none", "execute", "schedule", "cancel", "dispose", "again"}]
  /\ step \in [Threads -> Steps]
  /\ task \in [Threads -> 0..MaxTasks] /\ todo \in [Threads -> SUBSET Tasks]
  /\ calls \in 0..MaxCalls
  /\ kept \subseteq Tasks /\ own \subseteq Tasks /\ over \in BOOLEAN

Init ==
  /\ mode = "running" /\ queueLock = None
  /\ disposed = FALSE /\ tasks = {} /\ schedule = {}
  /\ created = 0
  /\ state = [t \in Tasks |-> "initial"] /\ refs = [t \in Tasks |-> 0]
  /\ reports = {} /\ lock = [t \in Tasks |-> None]
  /\ timers = {} /\ ready = {} /\ place = [t \in Tasks |-> 0] /\ last = 0
  /\ invoked = 0 /\ phase = "none"
  /\ op = [h \in Threads |-> "none"] /\ step = [h \in Threads |-> "none"]
  /\ task = [h \in Threads |-> 0] /\ todo = [h \in Threads |-> {}]
  /\ calls = 0 /\ kept = {} /\ own = {} /\ over = FALSE

(* A thread can call: it is outside the queue, or it runs an operation.    *)
CanCall(h) == step[h] = "none" /\ (h = Worker => phase = "operation")
Calls(h, o, first, t) ==
  /\ op' = [op EXCEPT ![h] = o] /\ step' = [step EXCEPT ![h] = first]
  /\ task' = [task EXCEPT ![h] = t] /\ UNCHANGED todo
Continues(h, next) == step' = [step EXCEPT ![h] = next] /\ UNCHANGED <<op, task, todo>>
Returns(h) == Calls(h, "none", "none", 0)

-----------------------------------------------------------------------------
(* EnqueueRelaxed and EnqueueEvenWhileRestricted, which differ in the mode *)
(* they accept, and EnqueueAfterDelay, which is called by an operation:    *)
(* the executor is called with the lock of the queue held.                 *)
Enqueue(h, even) ==
  /\ CanCall(h) /\ queueLock = None
  /\ created < MaxTasks
  /\ mode = "running" \/ (even /\ mode = "restricted")
  /\ queueLock' = h
  /\ Calls(h, "execute", "insert", 0)
  /\ UNCHANGED <<mode, executorVars, created, taskVars, dispatchVars, workerVars, calls, history>>

EnqueueAfterDelay(h) ==
  /\ h = Worker /\ CanCall(h) /\ queueLock = None
  /\ created < MaxTasks
  /\ mode = "running"
  /\ queueLock' = h
  /\ Calls(h, "schedule", "insert", 0)
  /\ UNCHANGED <<mode, executorVars, created, taskVars, dispatchVars, workerVars, calls, history>>

(* Execute and Schedule: a task is created and registered; a disposed      *)
(* executor has no use for it, and both locks are released.                *)
Insert(h) ==
  /\ step[h] = "insert"
  /\ IF disposed \/ created = MaxTasks
       THEN /\ queueLock' = None /\ Returns(h)
            /\ UNCHANGED <<tasks, schedule, created, state, refs, reports>>
       ELSE LET t == created + 1 IN
            /\ created' = t
            /\ state' = [state EXCEPT ![t] = "initial"] /\ refs' = [refs EXCEPT ![t] = 1]
            /\ reports' = reports \cup {t}
            /\ tasks' = tasks \cup {t}
            /\ schedule' = IF op[h] = "schedule" THEN schedule \cup {t} ELSE schedule
            /\ Calls(h, op[h], "dispatch", t)
            /\ UNCHANGED queueLock
  /\ UNCHANGED <<mode, disposed, lock, dispatchVars, workerVars, calls, history>>

Queue(t) ==
  ready' = ready \cup {t} /\ place' = [place EXCEPT ![t] = last + 1] /\ last' = last + 1

(* Retain for libdispatch, dispatch_async_f or dispatch_after_f, and back  *)
(* through the queue, which releases its lock.                             *)
Dispatch(h) ==
  LET t == task[h] IN
  /\ step[h] = "dispatch"
  /\ refs' = [refs EXCEPT ![t] = @ + 1]
  /\ IF op[h] = "schedule"
       THEN timers' = timers \cup {t} /\ UNCHANGED <<ready, place, last>>
       ELSE Queue(t) /\ UNCHANGED timers
  /\ queueLock' = None /\ Returns(h)
  /\ UNCHANGED <<mode, executorVars, created, state, reports, lock, workerVars, calls, history>>

(* A timer of libdispatch.                                                 *)
Due(t) ==
  /\ t \in timers
  /\ timers' = timers \ {t}
  /\ Queue(t)
  /\ UNCHANGED <<mode, queueLock, executorVars, created, taskVars, workerVars, callVars, calls,
                 history>>

-----------------------------------------------------------------------------
(* The serial queue invokes the task whose turn it is.                     *)
InvokeAsync ==
  /\ phase = "none"
  /\ \E t \in ready :
       /\ \A u \in ready : place[t] <= place[u]
       /\ ready' = ready \ {t} /\ place' = [place EXCEPT ![t] = 0]
       /\ invoked' = t /\ phase' = "begin"
  /\ UNCHANGED <<mode, queueLock, executorVars, created, taskVars, timers, last, callVars,
                 calls, history>>

(* ExecuteAndRelease: a task that was cancelled is only released; the      *)
(* operation of another runs without the lock.                             *)
Execute ==
  LET t == invoked IN
  /\ phase = "begin" /\ lock[t] = None
  /\ IF state[t] = "initial"
       THEN state' = [state EXCEPT ![t] = "running"] /\ phase' = "operation" /\ UNCHANGED invoked
       ELSE phase' = "release" /\ UNCHANGED <<invoked, state>>
  /\ UNCHANGED <<mode, queueLock, executorVars, created, refs, reports, lock,
                 dispatchVars, callVars, calls, history>>

(* The operation has returned, the task is locked and done.                *)
Complete ==
  LET t == invoked IN
  /\ phase = "operation" /\ step[Worker] = "none" /\ lock[t] = None
  /\ state' = [state EXCEPT ![t] = "done"]
  /\ lock' = [lock EXCEPT ![t] = Worker]
  /\ phase' = "done" /\ UNCHANGED invoked
  /\ UNCHANGED <<mode, queueLock, executorVars, created, refs, reports, dispatchVars,
                 callVars, calls, history>>

(* OnCompletion, unless somebody cancelled the task meanwhile: if the      *)
(* executor still has the task, it lets go of it. The task is unlocked and *)
(* those who wait for it are notified.                                     *)
OnCompletion ==
  LET t == invoked
      found == t \in reports /\ t \in tasks IN
  /\ phase = "done"
  /\ tasks' = (IF found THEN tasks \ {t} ELSE tasks)
  /\ schedule' = (IF found THEN schedule \ {t} ELSE schedule)
  /\ refs' = [refs EXCEPT ![t] = IF found THEN @ - 1 ELSE @]
  /\ lock' = [lock EXCEPT ![t] = None]
  /\ phase' = "release" /\ UNCHANGED invoked
  /\ UNCHANGED <<mode, queueLock, disposed, created, state, reports, dispatchVars,
                 callVars, calls, history>>

Release ==
  LET t == invoked IN
  /\ phase = "release"
  /\ refs' = [refs EXCEPT ![t] = @ - 1]
  /\ invoked' = 0 /\ phase' = "none"
  /\ UNCHANGED <<mode, queueLock, executorVars, created, state, reports, lock,
                 dispatchVars, callVars, calls, history>>

-----------------------------------------------------------------------------
(* Cancel of a DelayedOperation, which all its users call from operations  *)
(* (Stream, ExponentialBackoff, OnlineStateTracker): the executor hands    *)
(* its ownership to this call; a task that is not scheduled any more is    *)
(* left alone. An operation may cancel its own task.                       *)
Cancel(h, t) ==
  /\ h = Worker /\ CanCall(h) /\ calls < MaxCalls
  /\ t \in schedule
  /\ tasks' = tasks \ {t} /\ schedule' = schedule \ {t}
  /\ Calls(h, "cancel", "cancel", t)
  /\ calls' = calls + 1
  /\ own' = IF invoked = t THEN own \cup {t} ELSE own
  /\ UNCHANGED <<mode, queueLock, disposed, created, taskVars, dispatchVars, workerVars, kept, over>>

\* A slip: a task that runs is not waited for.
TaskCancelNoWait(h) ==
  LET t == task[h] IN
  /\ step[h] = "cancel" /\ lock[t] = None
  /\ state' = IF state[t] = "initial" THEN [state EXCEPT ![t] = "cancelled"] ELSE state
  /\ reports' = IF state[t] \in {"initial", "running"} THEN reports \ {t} ELSE reports
  /\ Continues(h, "drop")
  /\ UNCHANGED <<mode, queueLock, executorVars, created, refs, lock, dispatchVars, workerVars,
                 calls, history>>

(* Task::Cancel: a task that has not started never will; one that runs is  *)
(* waited for, unless it runs on this thread.                              *)
TaskCancel(h) ==
  LET t == task[h] IN
  /\ step[h] = "cancel" /\ lock[t] = None
  /\ state' = IF state[t] = "initial" THEN [state EXCEPT ![t] = "cancelled"] ELSE state
  /\ reports' = IF state[t] \in {"initial", "running"} THEN reports \ {t} ELSE reports
  /\ Continues(h, IF state[t] = "running" /\ h # Worker THEN "wait" ELSE "drop")
  /\ UNCHANGED <<mode, queueLock, executorVars, created, refs, lock, dispatchVars, workerVars,
                 calls, history>>

AwaitLocked(h) ==
  LET t == task[h] IN
  /\ step[h] = "wait" /\ lock[t] = None
  /\ state[t] \in {"cancelled", "done"}
  /\ Continues(h, "drop")
  /\ UNCHANGED <<mode, queueLock, executorVars, created, taskVars, dispatchVars, workerVars,
                 calls, history>>

(* The ownership of Cancel or Dispose is released; Cancel returns.         *)
Drop(h) ==
  LET t == task[h] IN
  /\ step[h] = "drop"
  /\ refs' = [refs EXCEPT ![t] = @ - 1]
  /\ kept' = IF h = Worker /\ invoked = t THEN kept ELSE kept \cup {t}
  /\ IF op[h] = "cancel" THEN Returns(h) ELSE Calls(h, op[h], "next", 0)
  /\ UNCHANGED <<mode, queueLock, executorVars, created, state, reports, lock,
                 dispatchVars, workerVars, calls, own, over>>

-----------------------------------------------------------------------------
EnterRestrictedMode ==
  /\ queueLock = None /\ mode = "running"
  /\ mode' = "restricted"
  /\ UNCHANGED <<queueLock, executorVars, created, taskVars, dispatchVars, workerVars, callVars,
                 calls, history>>

\* A slip: the mode is left as it is.
DisposeWithoutMode(h) ==
  /\ CanCall(h) /\ calls < MaxCalls
  /\ calls' = calls + 1
  /\ Calls(h, "dispose", "swap", 0)
  /\ UNCHANGED <<mode, queueLock, executorVars, created, taskVars, dispatchVars, workerVars,
                 history>>

(* AsyncQueue::Dispose, from outside or by an operation.                   *)
Dispose(h) ==
  /\ CanCall(h) /\ calls < MaxCalls /\ queueLock = None
  /\ mode' = "disposed"
  /\ calls' = calls + 1
  /\ Calls(h, "dispose", "swap", 0)
  /\ UNCHANGED <<queueLock, executorVars, created, taskVars, dispatchVars, workerVars, history>>

(* The executor gives all its tasks to this call, which cancels and        *)
(* releases them one by one, in the order of an unordered_set.             *)
SwapTasks(h) ==
  /\ step[h] = "swap"
  /\ disposed' = TRUE /\ tasks' = {} /\ schedule' = {}
  /\ step' = [step EXCEPT ![h] = "next"] /\ todo' = [todo EXCEPT ![h] = tasks]
  /\ op' = [op EXCEPT ![h] = IF disposed THEN "again" ELSE "dispose"]
  /\ UNCHANGED <<mode, queueLock, created, taskVars, dispatchVars, workerVars, task, calls,
                 history>>

DisposeNext(h) ==
  /\ step[h] = "next"
  /\ IF todo[h] = {}
       THEN /\ Returns(h)
            /\ over' = (over \/ (h \in Users /\ op[h] = "dispose"))
       ELSE /\ \E t \in todo[h] :
                 /\ step' = [step EXCEPT ![h] = "cancel"] /\ task' = [task EXCEPT ![h] = t]
                 /\ todo' = [todo EXCEPT ![h] = @ \ {t}]
            /\ UNCHANGED <<op, over>>
  /\ UNCHANGED <<mode, queueLock, executorVars, created, taskVars, dispatchVars, workerVars, calls,
                 kept, own>>

-----------------------------------------------------------------------------
(* What a thread inside a call does next, and the worker.                  *)
InCall(h) ==
  \/ Insert(h) \/ Dispatch(h) \/ TaskCancel(h) \/ AwaitLocked(h) \/ Drop(h)
  \/ SwapTasks(h) \/ DisposeNext(h)
Invoke == InvokeAsync \/ Execute \/ Complete \/ OnCompletion \/ Release

Begin(h) ==
  \/ \E even \in BOOLEAN : Enqueue(h, even)
  \/ EnqueueAfterDelay(h)
  \/ \E t \in Tasks : Cancel(h, t)
  \/ Dispose(h)

Next ==
  \/ \E h \in Threads : Begin(h) \/ InCall(h)
  \/ Invoke \/ EnterRestrictedMode
  \/ \E t \in Tasks : Due(t)

Spec == Init /\ [][Next]_vars

-----------------------------------------------------------------------------
(* Who owns a task: the executor or a call that took it from the executor, *)
(* and libdispatch or the worker that invokes it.                          *)
HeldBy(h) ==
  todo[h] \cup
  (IF step[h] \in {"cancel", "wait", "drop"} THEN {task[h]} ELSE {})
ByExecutor(t) == t \in tasks \/ \E h \in Threads : t \in HeldBy(h)
ByDispatch(t) == t \in timers \cup ready \/ invoked = t
Owners(t) == (IF ByExecutor(t) THEN 1 ELSE 0) + (IF ByDispatch(t) THEN 1 ELSE 0)

(* The reference count of a task is the number of its owners, so that no   *)
(* owner finds it deleted and the last one deletes it; and a thread that   *)
(* is about to retain a task for libdispatch finds it alive, though tasks_ *)
(* already offers it to Dispose.                                           *)
RefsAreOwners ==
  /\ \A t \in Tasks : refs[t] = Owners(t)
  /\ \A h \in Threads : step[h] = "dispatch" => refs[task[h]] > 0

(* By the time a Cancel has returned, and after Dispose, which cancels, the *)
(* operation does not run and the task does not call the executor back,    *)
(* even when it was running as it was cancelled.                           *)
NotAfterCancel ==
  /\ \A t \in kept : state[t] # "running"
  /\ phase = "done" /\ invoked \in kept => invoked \notin reports

(* Once Dispose has returned no operation runs any more, nor starts, but   *)
(* one that has cancelled its own task, which tasks_ does not have.        *)
DisposeIsFinal == over => \A t \in Tasks : state[t] = "running" => t \in own

(* Every call returns in the end although it waits for an operation that   *)
(* may make calls itself.                                                  *)
Settled == phase = "none" /\ \A h \in Threads : step[h] = "none"
=============================================================================
