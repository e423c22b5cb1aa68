--------------------------- MODULE AsyncQueueProofs ---------------------------
(***************************************************************************)
(* Why no thread of the Firestore client touches a Task that was deleted,  *)
(* and no operation runs after it was cancelled, for any number of         *)
(* threads, tasks and calls.                                               *)
(*                                                                         *)
(* Execute and Schedule retain a task for libdispatch after they have put  *)
(* it into tasks_ and unlocked the executor, so a Dispose in between would *)
(* delete it under them. What excludes it is the lock of the queue: it is  *)
(* held while the executor is called, and Dispose needs it to change the   *)
(* mode before it calls the executor. That is the part Gate of the         *)
(* inductive invariant. Shape says what a call can look like; Placed,      *)
(* Apart and Queued, that an ownership is in one place at a time; Handed,  *)
(* that a task on its way to libdispatch is still the executor's.          *)
(***************************************************************************)
EXTENDS AsyncQueue, TLAPS

(* How a step that names no prover is proved: the translation of a large   *)
(* context for SMT may run out of its time, and then it is tried again.    *)
USE SMTT(30), ZenonT(30), SMTT(40)

Holding == {"cancel", "wait", "drop"}

Shape ==
  /\ \A h \in Threads :
       /\ step[h] = "none" <=> op[h] = "none"
       /\ step[h] \in {"insert", "dispatch"} => op[h] \in {"execute", "schedule"}
       /\ step[h] \in Holding \cup {"dispatch"} => task[h] \in 1..created
       /\ step[h] \in Holding => op[h] \in {"cancel", "dispose", "again"}
       /\ step[h] \in {"swap", "next"} => op[h] \in {"dispose", "again"}
       /\ todo[h] # {} => op[h] \in {"dispose", "again"} /\ step[h] # "swap"
       /\ op[h] \in {"schedule", "cancel"} => h = Worker
  /\ phase = "none" <=> invoked = 0
  /\ phase # "none" => invoked \in 1..created
  /\ step[Worker] # "none" => phase = "operation"

Gate ==
  /\ \A h \in Threads : step[h] \in {"insert", "dispatch"} <=> queueLock = h
  /\ \A h \in Threads : step[h] = "swap" => mode = "disposed"
  /\ disposed => mode = "disposed"
  /\ mode = "disposed" => queueLock = None

Placed ==
  /\ tasks \subseteq 1..created /\ schedule \subseteq tasks 
  /\ timers \cup ready \subseteq 1..created
  /\ \A h \in Threads : HeldBy(h) \subseteq 1..created

Apart ==
  /\ \A h \in Threads : HeldBy(h) \cap tasks = {}
  /\ \A h \in Threads : step[h] \in Holding => task[h] \notin todo[h]
  /\ \A g, h \in Threads : g # h => HeldBy(g) \cap HeldBy(h) = {}

Queued == timers \cap ready = {} /\ invoked \notin timers \cup ready

Handed ==
  \A h \in Threads : step[h] = "dispatch" =>
    /\ task[h] \in tasks /\ ~ ByDispatch(task[h])
    /\ h # Worker => task[h] \notin schedule

Counts == \A t \in Tasks : refs[t] = Owners(t)

IInv == TypeOK /\ Shape /\ Gate /\ Placed /\ Apart /\ Queued /\ Handed /\ Counts

(* The tasks in hand exist and are counted.                                *)
LEMMA InHand ==
  ASSUME QueueAssumption, TypeOK, Shape, Counts
  PROVE  /\ 1..created \subseteq Tasks /\ Tasks \subseteq 0..MaxTasks
         /\ created # MaxTasks => created + 1 \in Tasks
         /\ phase # "none" => invoked \in Tasks /\ refs[invoked] > 0
         /\ \A h \in Threads : step[h] \in Holding \cup {"dispatch"} => task[h] \in Tasks
         /\ \A h \in Threads : step[h] \in Holding => refs[task[h]] > 0
<1>1. /\ 1..created \subseteq Tasks /\ Tasks \subseteq 0..MaxTasks
      /\ (created # MaxTasks => created + 1 \in Tasks)
  BY DEF QueueAssumption, TypeOK, Tasks
<1>2. phase # "none" => invoked \in Tasks /\ refs[invoked] > 0
  BY <1>1 DEF TypeOK, Shape, Counts, Owners, ByDispatch
<1>3. \A h \in Threads : step[h] \in Holding \cup {"dispatch"} => task[h] \in Tasks
  BY <1>1, ZenonT(30) DEF Shape
<1>4. ASSUME NEW h \in Threads, step[h] \in Holding PROVE refs[task[h]] > 0
  <2>1. task[h] \in HeldBy(h)
    BY <1>4, ZenonT(30) DEF HeldBy, Holding
  <2>2. ByExecutor(task[h])
    BY <2>1, ZenonT(30) DEF ByExecutor
  <2> QED
    BY <1>3, <1>4, <2>2 DEF Counts, Owners
<1> QED
  BY <1>1, <1>2, <1>3, <1>4, ZenonT(30)

(* The actions.                                                            *)
LEMMA Actions ==
  ASSUME [Next]_vars
  PROVE  \/ \E h \in Threads : \E even \in BOOLEAN : Enqueue(h, even)
         \/ \E h \in Threads : EnqueueAfterDelay(h) \/ Dispose(h)
         \/ \E h \in Threads : \E t \in Tasks : Cancel(h, t)
         \/ \E h \in Threads : Insert(h) \/ Dispatch(h) \/ TaskCancel(h) \/ AwaitLocked(h)
         \/ \E h \in Threads : Drop(h) \/ SwapTasks(h) \/ DisposeNext(h)
         \/ InvokeAsync \/ Execute \/ Complete \/ OnCompletion \/ Release
         \/ EnterRestrictedMode
         \/ \E t \in Tasks : Due(t)
         \/ UNCHANGED vars
BY ZenonT(30) DEF Next, Begin, InCall, Invoke

(* The types of Task, the executor and the queue are kept by every step.   *)
LEMMA TypeStep == QueueAssumption /\ IInv /\ [Next]_vars => TypeOK'
<1> SUFFICES ASSUME QueueAssumption, IInv, [Next]_vars PROVE TypeOK'
  BY ZenonT(30)
<1> USE DEF QueueAssumption, TypeOK, IInv
<1>1. ASSUME NEW h \in Threads, NEW even \in BOOLEAN, Enqueue(h, even) PROVE TypeOK'
  BY <1>1 DEF Enqueue, CanCall, Calls, Steps, executorVars, taskVars,
    dispatchVars, workerVars, callVars, history
<1>2. ASSUME NEW h \in Threads, EnqueueAfterDelay(h) PROVE TypeOK'
  BY <1>2 DEF EnqueueAfterDelay, CanCall, Calls, Steps, executorVars,
    taskVars, dispatchVars, workerVars, callVars, history
<1>3. ASSUME NEW h \in Threads, Insert(h) PROVE TypeOK'
  <2>1. CASE disposed \/ created = MaxTasks
    <3>1. /\ op' \in [Threads -> {"none", "execute", "schedule", "cancel", "dispose", "again"}]
          /\ step' \in [Threads -> Steps]
          /\ task' \in [Threads -> 0..MaxTasks] /\ todo' \in [Threads -> SUBSET Tasks]
      BY <1>3, <2>1 DEF Insert, Calls, Returns, Steps
    <3> QED
      BY <1>3, <2>1, <3>1, ZenonT(30) DEF Insert, dispatchVars, workerVars, history
  <2>2. CASE ~ (disposed \/ created = MaxTasks)
    <3> DEFINE t == created + 1
    <3>1. t \in Tasks /\ t \in 0..MaxTasks
      BY <2>2, InHand, ZenonT(30)
    <3>2. /\ created' = t /\ tasks' = tasks \cup {t} /\ reports' = reports \cup {t}
          /\ state' = [state EXCEPT ![t] = "initial"] /\ refs' = [refs EXCEPT ![t] = 1]
          /\ schedule' = IF op[h] = "schedule" THEN schedule \cup {t} ELSE schedule
          /\ Calls(h, op[h], "dispatch", t)
          /\ UNCHANGED <<mode, queueLock, disposed, lock, dispatchVars, workerVars, calls, history>>
      BY <1>3, <2>2, ZenonT(30) DEF Insert
    <3> HIDE DEF t
    <3>3. /\ op' \in [Threads -> {"none", "execute", "schedule", "cancel", "dispose", "again"}]
          /\ step' \in [Threads -> Steps]
          /\ task' \in [Threads -> 0..MaxTasks] /\ todo' \in [Threads -> SUBSET Tasks]
      BY <3>1, <3>2 DEF Calls, Steps
    <3>4. /\ state' \in [Tasks -> {"initial", "cancelled", "running", "done"}]
          /\ refs' \in [Tasks -> Nat]
      BY <3>1, <3>2
    <3>5. /\ tasks' \subseteq Tasks /\ schedule' \subseteq Tasks /\ reports' \subseteq Tasks
          /\ created' \in 0..MaxTasks
      BY <3>1, <3>2, ZenonT(30)
    <3>6. UNCHANGED <<mode, queueLock, disposed, lock, timers, ready, place, last, invoked, phase,
                      calls, kept, own, over>>
      BY <3>2, ZenonT(30) DEF dispatchVars, workerVars, history
    <3> QED
      BY <3>3, <3>4, <3>5, <3>6, ZenonT(30)
  <2> QED
    BY <2>1, <2>2, ZenonT(30)
<1>4. ASSUME NEW h \in Threads, Dispatch(h) PROVE TypeOK'
  <2>1. /\ op' \in [Threads -> {"none", "execute", "schedule", "cancel", "dispose", "again"}]
        /\ step' \in [Threads -> Steps]
        /\ task' \in [Threads -> 0..MaxTasks] /\ todo' \in [Threads -> SUBSET Tasks]
    BY <1>4 DEF Dispatch, Calls, Returns, Steps
  <2>2. task[h] \in Tasks
    BY <1>4, InHand, ZenonT(30) DEF Dispatch
  <2>3. refs' \in [Tasks -> Nat]
    BY <1>4, <2>2 DEF Dispatch
  <2>4. timers' \subseteq Tasks /\ ready' \subseteq Tasks /\ place' \in [Tasks -> Nat] /\ last' \in Nat
    BY <1>4, <2>2 DEF Dispatch, Queue
  <2> QED
    BY <1>4, <2>1, <2>3, <2>4, ZenonT(30) DEF Dispatch, executorVars, workerVars, history
<1>5. ASSUME NEW h \in Threads, NEW t \in Tasks, Cancel(h, t) PROVE TypeOK'
  BY <1>5, InHand DEF Cancel, CanCall, Calls, Steps, executorVars, taskVars,
    dispatchVars, workerVars, callVars, history
<1>6. ASSUME NEW h \in Threads, TaskCancel(h) PROVE TypeOK'
  BY <1>6, InHand, ZenonT(30) DEF TaskCancel, Continues, Steps, executorVars, taskVars,
    dispatchVars, workerVars, callVars, history
<1>7. ASSUME NEW h \in Threads, AwaitLocked(h) PROVE TypeOK'
  BY <1>7, InHand, ZenonT(30) DEF AwaitLocked, Continues, Steps, executorVars, taskVars,
    dispatchVars, workerVars, callVars, history
<1>8. ASSUME NEW h \in Threads, Drop(h) PROVE TypeOK'
  <2>1. task[h] \in Tasks /\ refs[task[h]] > 0
    BY <1>8, InHand, ZenonT(30) DEF Drop, Holding
  <2>2. refs' \in [Tasks -> Nat]
    BY <1>8, <2>1 DEF Drop
  <2>3. /\ op' \in [Threads -> {"none", "execute", "schedule", "cancel", "dispose", "again"}]
        /\ step' \in [Threads -> Steps]
        /\ task' \in [Threads -> 0..MaxTasks] /\ todo' \in [Threads -> SUBSET Tasks]
    BY <1>8 DEF Drop, Calls, Returns, Steps
  <2>4. kept' \subseteq Tasks
    BY <1>8, <2>1, ZenonT(30) DEF Drop
  <2> QED
    BY <1>8, <2>2, <2>3, <2>4, ZenonT(30) DEF Drop, executorVars, dispatchVars, workerVars
<1>9. ASSUME NEW h \in Threads, Dispose(h) PROVE TypeOK'
  BY <1>9 DEF Dispose, CanCall, Calls, Steps, executorVars, taskVars,
    dispatchVars, workerVars, callVars, history
<1>10. ASSUME NEW h \in Threads, SwapTasks(h) PROVE TypeOK'
  BY <1>10, ZenonT(30) DEF SwapTasks, Steps, executorVars, taskVars, dispatchVars,
    workerVars, callVars, history
<1>11. ASSUME NEW h \in Threads, DisposeNext(h) PROVE TypeOK'
  <2>1. over' \in BOOLEAN
    BY <1>11, ZenonT(30) DEF DisposeNext
  <2>2. /\ op' \in [Threads -> {"none", "execute", "schedule", "cancel", "dispose", "again"}]
        /\ step' \in [Threads -> Steps]
        /\ task' \in [Threads -> 0..MaxTasks] /\ todo' \in [Threads -> SUBSET Tasks]
    <3>1. CASE todo[h] = {}
      BY <1>11, <3>1 DEF DisposeNext, Calls, Returns, Steps
    <3>2. CASE todo[h] # {}
      <4>1. Tasks \subseteq 0..MaxTasks
        BY InHand, ZenonT(30)
      <4> QED
        BY <1>11, <3>2, <4>1 DEF DisposeNext, Steps
    <3> QED
      BY <3>1, <3>2, ZenonT(30)
  <2> QED
    BY <1>11, <2>1, <2>2, ZenonT(30) DEF DisposeNext, executorVars, taskVars, dispatchVars, workerVars
<1>12. CASE InvokeAsync
  BY <1>12, InHand DEF InvokeAsync, executorVars, taskVars, dispatchVars,
    workerVars, callVars, history
<1>13. CASE Execute
  BY <1>13, InHand, ZenonT(30) DEF Execute, executorVars, taskVars, dispatchVars,
    workerVars, callVars, history
<1>14. CASE Complete
  BY <1>14, InHand, ZenonT(30) DEF Complete, executorVars, taskVars, dispatchVars,
    workerVars, callVars, history, Threads
<1>15. CASE OnCompletion
  BY <1>15, InHand DEF OnCompletion, executorVars, taskVars, dispatchVars,
    workerVars, callVars, history
<1>16. CASE Release
  BY <1>16, InHand DEF Release, executorVars, taskVars, dispatchVars,
    workerVars, callVars, history
<1>17. CASE EnterRestrictedMode
  BY <1>17, InHand, ZenonT(30) DEF EnterRestrictedMode, executorVars, taskVars,
    dispatchVars, workerVars, callVars, history
<1>18. ASSUME NEW t \in Tasks, Due(t) PROVE TypeOK'
  BY <1>18 DEF Due, Queue, executorVars, taskVars, dispatchVars, workerVars, callVars, history
<1>19. CASE UNCHANGED vars
  BY <1>19, ZenonT(30) DEF vars, executorVars, taskVars, dispatchVars, workerVars, callVars, history
<1> HIDE DEF TypeOK, IInv
<1> QED
  BY <1>1, <1>2, <1>3, <1>4, <1>5, <1>6, <1>7, <1>8, <1>9, <1>10, <1>11, <1>12, <1>13, <1>14,
    <1>15, <1>16, <1>17, <1>18, <1>19, Actions, ZenonT(30)

(* What most steps do to the ownerships: nothing.                          *)
QuietStep ==
  /\ UNCHANGED <<created, tasks, schedule, timers, ready, invoked, refs>>
  /\ \A g \in Threads : HeldBy(g)' = HeldBy(g)
  /\ \A g \in Threads : step'[g] \in Holding => task'[g] \notin todo'[g]

(* The steps that leave every ownership where it is.                       *)
Quiet ==
  \/ \E h \in Threads :
       \/ (\E even \in BOOLEAN : Enqueue(h, even)) \/ EnqueueAfterDelay(h)
       \/ TaskCancel(h) \/ AwaitLocked(h) \/ Dispose(h)
  \/ Execute \/ Complete \/ EnterRestrictedMode \/ UNCHANGED vars

(* They leave every ownership where it is.                                 *)
LEMMA QuietIsQuiet == IInv /\ Quiet => QuietStep
<1> SUFFICES ASSUME IInv, Quiet PROVE QuietStep
  BY ZenonT(30)
<1> USE DEF IInv, TypeOK, QuietStep, HeldBy, Holding
<1>1. ASSUME NEW h \in Threads, NEW even \in BOOLEAN, Enqueue(h, even) PROVE QuietStep
  BY <1>1 DEF Enqueue, CanCall, Calls, Shape, Apart, executorVars, taskVars, dispatchVars,
    workerVars, callVars, history
<1>2. ASSUME NEW h \in Threads, EnqueueAfterDelay(h) PROVE QuietStep
  BY <1>2, ZenonT(30) DEF EnqueueAfterDelay, CanCall, Calls, Shape, Apart, executorVars, taskVars,
    dispatchVars, workerVars, callVars, history
<1>3. ASSUME NEW h \in Threads, TaskCancel(h) PROVE QuietStep
  BY <1>3 DEF TaskCancel, Continues, Shape, Apart, executorVars, taskVars, dispatchVars,
    workerVars, callVars, history
<1>4. ASSUME NEW h \in Threads, AwaitLocked(h) PROVE QuietStep
  BY <1>4 DEF AwaitLocked, Continues, Shape, Apart, executorVars, taskVars, dispatchVars,
    workerVars, callVars, history
<1>5. ASSUME NEW h \in Threads, Dispose(h) PROVE QuietStep
  BY <1>5, ZenonT(30) DEF Dispose, CanCall, Calls, Shape, Apart, executorVars, taskVars, dispatchVars,
    workerVars, callVars, history
<1>6. CASE Execute
  BY <1>6, ZenonT(30) DEF Execute, Apart, executorVars, taskVars, dispatchVars,
                             workerVars, callVars, history
<1>7. CASE Complete
  BY <1>7, ZenonT(30) DEF Complete, Apart, executorVars, taskVars, dispatchVars, workerVars,
                     callVars, history
<1>8. CASE EnterRestrictedMode
  BY <1>8, ZenonT(30) DEF EnterRestrictedMode, Apart, executorVars, taskVars, dispatchVars, workerVars,
    callVars, history
<1>9. CASE UNCHANGED vars
  BY <1>9, ZenonT(30) DEF vars, Apart, executorVars, taskVars, dispatchVars, workerVars, callVars,
                     history
<1> QED
  BY <1>1, <1>2, <1>3, <1>4, <1>5, <1>6, <1>7, <1>8, <1>9, ZenonT(30) DEF Quiet

(* And what is said of the ownerships stays true.                          *)
LEMMA QuietKeeps == IInv /\ QuietStep => Placed' /\ Apart' /\ Queued' /\ Counts'
<1> SUFFICES ASSUME IInv, QuietStep PROVE Placed' /\ Apart' /\ Queued' /\ Counts'
  BY ZenonT(30)
<1>1. Placed' /\ Apart' /\ Queued'
  BY ZenonT(30) DEF IInv, QuietStep, Placed, Apart, Queued
<1>2. \A t \in Tasks : (ByExecutor(t)' <=> ByExecutor(t)) /\ (ByDispatch(t)' <=> ByDispatch(t))
  BY ZenonT(30) DEF QuietStep, ByExecutor, ByDispatch
<1>3. Counts'
  BY <1>2, ZenonT(30) DEF IInv, QuietStep, Counts, Owners
<1> QED
  BY <1>1, <1>3, ZenonT(30)

(* A step leaves every call and the worker in a shape the code gives them. *)
LEMMA ShapeStep == QueueAssumption /\ IInv /\ [Next]_vars => Shape'
<1> SUFFICES ASSUME QueueAssumption, IInv, [Next]_vars PROVE Shape'
  BY ZenonT(30)
<1>a. TypeOK /\ Shape /\ Gate /\ Placed /\ Apart /\ Queued /\ Handed /\ Counts
  BY ZenonT(30) DEF IInv
<1>b. /\ op \in [Threads -> {"none", "execute", "schedule", "cancel", "dispose", "again"}]
      /\ step \in [Threads -> Steps]
      /\ task \in [Threads -> 0..MaxTasks] /\ todo \in [Threads -> SUBSET Tasks]
      /\ created \in Nat /\ refs \in [Tasks -> Nat]
  BY <1>a DEF TypeOK
<1> USE <1>a, <1>b DEF QueueAssumption, Shape
<1>1. ASSUME NEW h \in Threads, NEW even \in BOOLEAN, Enqueue(h, even) PROVE Shape'
  BY <1>1, InHand DEF Enqueue, CanCall, Calls, executorVars, taskVars,
    dispatchVars, workerVars, callVars, history, Holding
<1>2. ASSUME NEW h \in Threads, EnqueueAfterDelay(h) PROVE Shape'
  BY <1>2, InHand DEF EnqueueAfterDelay, CanCall, Calls, executorVars,
    taskVars, dispatchVars, workerVars, callVars, history, Holding
<1>3. ASSUME NEW h \in Threads, Insert(h) PROVE Shape'
  <2>1. 1..created \subseteq 1..(created + 1) /\ created + 1 \in 1..(created + 1)
    OBVIOUS
  <2>2. CASE disposed \/ created = MaxTasks
    <3>1. Returns(h) /\ UNCHANGED <<created, workerVars>> /\ step[h] = "insert"
      BY <1>3, <2>2, ZenonT(30) DEF Insert
    <3> QED
      BY <3>1 DEF Returns, Calls, workerVars, Holding
  <2>3. CASE ~ (disposed \/ created = MaxTasks)
    <3>1. created' = created + 1 /\ Calls(h, op[h], "dispatch", created + 1) /\ UNCHANGED
      workerVars
      BY <1>3, <2>3, ZenonT(30) DEF Insert
    <3>2. step[h] = "insert"
      BY <1>3, ZenonT(30) DEF Insert
    <3> QED
      BY <2>1, <3>1, <3>2 DEF Calls, workerVars, Holding
  <2> QED
    BY <2>2, <2>3, ZenonT(30)
<1>4. ASSUME NEW h \in Threads, Dispatch(h) PROVE Shape'
  BY <1>4, InHand DEF Dispatch, Queue, Calls, Returns, executorVars,
    taskVars, dispatchVars, workerVars, callVars, history, Holding
<1>5. ASSUME NEW h \in Threads, NEW t \in Tasks, Cancel(h, t) PROVE Shape'
  BY <1>5, InHand, ZenonT(30) DEF Cancel, CanCall, Calls, executorVars, taskVars,
    dispatchVars, workerVars, callVars, history, Holding, Placed
<1>6. ASSUME NEW h \in Threads, TaskCancel(h) PROVE Shape'
  BY <1>6, InHand DEF TaskCancel, Continues, executorVars, taskVars,
    dispatchVars, workerVars, callVars, history, Holding
<1>7. ASSUME NEW h \in Threads, AwaitLocked(h) PROVE Shape'
  BY <1>7, InHand DEF AwaitLocked, Continues, executorVars, taskVars,
    dispatchVars, workerVars, callVars, history, Holding
<1>8. ASSUME NEW h \in Threads, Drop(h) PROVE Shape'
  <2>1. UNCHANGED <<created, workerVars>> /\ step[h] = "drop"
    BY <1>8, ZenonT(30) DEF Drop
  <2>2. CASE op[h] = "cancel"
    BY <1>8, <2>1, <2>2 DEF Drop, Returns, Calls, workerVars, Holding
  <2>3. CASE op[h] # "cancel"
    <3>1. Calls(h, op[h], "next", 0) /\ op[h] \in {"dispose", "again"}
      BY <1>8, <2>1, <2>3, ZenonT(30) DEF Drop, Holding
    <3> QED
      BY <2>1, <3>1 DEF Calls, workerVars, Holding
  <2> QED
    BY <2>2, <2>3, ZenonT(30)
<1>9. ASSUME NEW h \in Threads, Dispose(h) PROVE Shape'
  BY <1>9, InHand DEF Dispose, CanCall, Calls, executorVars, taskVars,
    dispatchVars, workerVars, callVars, history, Holding
<1>10. ASSUME NEW h \in Threads, SwapTasks(h) PROVE Shape'
  BY <1>10, InHand DEF SwapTasks, executorVars, taskVars, dispatchVars,
    workerVars, callVars, history, Holding
<1>11. ASSUME NEW h \in Threads, DisposeNext(h) PROVE Shape'
  <2>1. UNCHANGED <<created, workerVars>> /\ step[h] = "next" /\ op[h] \in {"dispose", "again"}
    BY <1>11, ZenonT(30) DEF DisposeNext
  <2>2. CASE todo[h] = {}
    <3>1. Returns(h)
      BY <1>11, <2>2, ZenonT(30) DEF DisposeNext
    <3> QED
      BY <2>1, <2>2, <3>1 DEF Returns, Calls, workerVars, Holding
  <2>3. CASE todo[h] # {}
    <3>1. PICK t \in todo[h] :
            /\ step' = [step EXCEPT ![h] = "cancel"] /\ task' = [task EXCEPT ![h] = t]
            /\ todo' = [todo EXCEPT ![h] = @ \ {t}] /\ UNCHANGED op
      BY <1>11, <2>3, ZenonT(30) DEF DisposeNext
    <3>2. t \in 1..created
      BY ZenonT(30) DEF Placed, HeldBy
    <3> QED
      BY <2>1, <3>1, <3>2 DEF workerVars, Holding
  <2> QED
    BY <2>2, <2>3, ZenonT(30)
<1>12. CASE InvokeAsync
  BY <1>12, InHand DEF InvokeAsync, executorVars, taskVars, dispatchVars,
    workerVars, callVars, history, Holding, Placed
<1>13. CASE Execute
  BY <1>13, InHand, ZenonT(30) DEF Execute, executorVars, taskVars, dispatchVars,
    workerVars, callVars, history, Holding
<1>14. CASE Complete
  BY <1>14, InHand, ZenonT(30) DEF Complete, executorVars, taskVars, dispatchVars,
    workerVars, callVars, history, Holding
<1>15. CASE OnCompletion
  BY <1>15, InHand, ZenonT(30) DEF OnCompletion, executorVars, taskVars, dispatchVars,
    workerVars, callVars, history, Holding
<1>16. CASE Release
  BY <1>16, InHand, ZenonT(30) DEF Release, executorVars, taskVars, dispatchVars,
    workerVars, callVars, history, Holding
<1>17. CASE EnterRestrictedMode
  BY <1>17, InHand, ZenonT(30) DEF EnterRestrictedMode, executorVars, taskVars,
    dispatchVars, workerVars, callVars, history, Holding
<1>18. ASSUME NEW t \in Tasks, Due(t) PROVE Shape'
  BY <1>18, InHand, ZenonT(30) DEF Due, Queue, executorVars, taskVars, dispatchVars,
    workerVars, callVars, history, Holding
<1>19. CASE UNCHANGED vars
  BY <1>19, ZenonT(30) DEF vars, executorVars, taskVars, dispatchVars, workerVars, callVars,
                      history, Holding
<1> QED
  BY <1>1, <1>2, <1>3, <1>4, <1>5, <1>6, <1>7, <1>8, <1>9, <1>10, <1>11, <1>12, <1>13, <1>14,
    <1>15, <1>16, <1>17, <1>18, <1>19, Actions, ZenonT(30)

(* A step keeps Dispose out of the executor while the queue is locked.     *)
LEMMA GateStep == QueueAssumption /\ IInv /\ [Next]_vars => Gate'
<1> SUFFICES ASSUME QueueAssumption, IInv, [Next]_vars PROVE Gate'
  BY ZenonT(30)
<1>a. TypeOK /\ Shape /\ Gate /\ Placed /\ Apart /\ Queued /\ Handed /\ Counts
  BY ZenonT(30) DEF IInv
<1>b. /\ op \in [Threads -> {"none", "execute", "schedule", "cancel", "dispose", "again"}]
      /\ step \in [Threads -> Steps]
      /\ task \in [Threads -> 0..MaxTasks] /\ todo \in [Threads -> SUBSET Tasks]
      /\ created \in Nat /\ refs \in [Tasks -> Nat]
  BY <1>a DEF TypeOK
<1> USE <1>a, <1>b DEF QueueAssumption, Gate
<1>1. ASSUME NEW h \in Threads, NEW even \in BOOLEAN, Enqueue(h, even) PROVE Gate'
  BY <1>1, InHand, ZenonT(30) DEF Enqueue, CanCall, Calls, executorVars, taskVars,
    dispatchVars, workerVars, callVars, history, Shape
<1>2. ASSUME NEW h \in Threads, EnqueueAfterDelay(h) PROVE Gate'
  BY <1>2, InHand, ZenonT(30) DEF EnqueueAfterDelay, CanCall, Calls, executorVars,
    taskVars, dispatchVars, workerVars, callVars, history, Shape
<1>3. ASSUME NEW h \in Threads, Insert(h) PROVE Gate'
  BY <1>3, InHand DEF Insert, Calls, Returns, executorVars, taskVars,
    dispatchVars, workerVars, callVars, history, Shape
<1>4. ASSUME NEW h \in Threads, Dispatch(h) PROVE Gate'
  BY <1>4, InHand, ZenonT(30) DEF Dispatch, Queue, Calls, Returns, executorVars,
    taskVars, dispatchVars, workerVars, callVars, history, Shape
<1>5. ASSUME NEW h \in Threads, NEW t \in Tasks, Cancel(h, t) PROVE Gate'
  BY <1>5, InHand, ZenonT(30) DEF Cancel, CanCall, Calls, executorVars, taskVars,
    dispatchVars, workerVars, callVars, history, Shape
<1>6. ASSUME NEW h \in Threads, TaskCancel(h) PROVE Gate'
  BY <1>6, InHand, ZenonT(30) DEF TaskCancel, Continues, executorVars, taskVars,
    dispatchVars, workerVars, callVars, history, Shape
<1>7. ASSUME NEW h \in Threads, AwaitLocked(h) PROVE Gate'
  BY <1>7, InHand, ZenonT(30) DEF AwaitLocked, Continues, executorVars, taskVars,
    dispatchVars, workerVars, callVars, history, Shape
<1>8. ASSUME NEW h \in Threads, Drop(h) PROVE Gate'
  BY <1>8, InHand DEF Drop, Calls, Returns, executorVars, taskVars,
    dispatchVars, workerVars, callVars, history, Shape
<1>9. ASSUME NEW h \in Threads, Dispose(h) PROVE Gate'
  BY <1>9, InHand, ZenonT(30) DEF Dispose, CanCall, Calls, executorVars, taskVars,
    dispatchVars, workerVars, callVars, history, Shape
<1>10. ASSUME NEW h \in Threads, SwapTasks(h) PROVE Gate'
  BY <1>10, InHand, ZenonT(30) DEF SwapTasks, executorVars, taskVars, dispatchVars,
    workerVars, callVars, history, Shape
<1>11. ASSUME NEW h \in Threads, DisposeNext(h) PROVE Gate'
  BY <1>11, InHand DEF DisposeNext, Calls, Returns, executorVars, taskVars,
    dispatchVars, workerVars, callVars, history, Shape
<1>12. CASE InvokeAsync
  BY <1>12, InHand, ZenonT(30) DEF InvokeAsync, executorVars, taskVars, dispatchVars,
    workerVars, callVars, history, Shape
<1>13. CASE Execute
  BY <1>13, InHand, ZenonT(30) DEF Execute, executorVars, taskVars, dispatchVars,
    workerVars, callVars, history, Shape
<1>14. CASE Complete
  BY <1>14, InHand, ZenonT(30) DEF Complete, executorVars, taskVars, dispatchVars,
    workerVars, callVars, history, Shape
<1>15. CASE OnCompletion
  BY <1>15, InHand, ZenonT(30) DEF OnCompletion, executorVars, taskVars, dispatchVars,
    workerVars, callVars, history, Shape
<1>16. CASE Release
  BY <1>16, InHand, ZenonT(30) DEF Release, executorVars, taskVars, dispatchVars,
    workerVars, callVars, history, Shape
<1>17. CASE EnterRestrictedMode
  BY <1>17, InHand, ZenonT(30) DEF EnterRestrictedMode, executorVars, taskVars,
    dispatchVars, workerVars, callVars, history, Shape
<1>18. ASSUME NEW t \in Tasks, Due(t) PROVE Gate'
  BY <1>18, InHand, ZenonT(30) DEF Due, Queue, executorVars, taskVars, dispatchVars,
    workerVars, callVars, history, Shape
<1>19. CASE UNCHANGED vars
  BY <1>19, ZenonT(30) DEF vars, executorVars, taskVars, dispatchVars, workerVars, callVars,
                      history, Shape
<1> QED
  BY <1>1, <1>2, <1>3, <1>4, <1>5, <1>6, <1>7, <1>8, <1>9, <1>10, <1>11, <1>12, <1>13, <1>14,
    <1>15, <1>16, <1>17, <1>18, <1>19, Actions

-----------------------------------------------------------------------------
(* The ownerships of a Task, kept by every step of the queue.              *)

(* Only tasks that exist are owned.                                        *)
LEMMA PlacedStep == QueueAssumption /\ IInv /\ [Next]_vars => Placed'
<1> SUFFICES ASSUME QueueAssumption, IInv, [Next]_vars PROVE Placed'
  BY ZenonT(30)
<1>1. CASE Quiet
  BY <1>1, QuietIsQuiet, QuietKeeps, ZenonT(30)
<1>a. TypeOK /\ Shape /\ Gate /\ Placed /\ Apart /\ Queued /\ Handed /\ Counts
  BY ZenonT(30) DEF IInv
<1>b. /\ op \in [Threads -> {"none", "execute", "schedule", "cancel", "dispose", "again"}]
      /\ step \in [Threads -> Steps]
      /\ task \in [Threads -> 0..MaxTasks] /\ todo \in [Threads -> SUBSET Tasks]
      /\ created \in Nat /\ refs \in [Tasks -> Nat]
  BY <1>a DEF TypeOK
<1> USE <1>a, <1>b DEF QueueAssumption, Placed
<1>2. ASSUME NEW h \in Threads, Insert(h) PROVE Placed'
  <2>1. 1..created \subseteq 1..(created + 1) /\ created + 1 \in 1..(created + 1)
    OBVIOUS
  <2>2. \A g \in Threads : HeldBy(g)' = HeldBy(g)
    BY <1>2 DEF Insert, Calls, Returns, HeldBy
  <2>3. CASE disposed \/ created = MaxTasks
    <3>1. UNCHANGED <<created, tasks, schedule, timers, ready>>
      BY <1>2, <2>3, ZenonT(30) DEF Insert, dispatchVars
    <3>2. \A g \in Threads : HeldBy(g)' \subseteq 1..created'
      BY <2>2, <3>1
    <3> QED
      BY <3>1, <3>2, ZenonT(30)
  <2>4. CASE ~ (disposed \/ created = MaxTasks)
    <3>1. /\ created' = created + 1 /\ tasks' = tasks \cup {created + 1}
          /\ schedule' = IF op[h] = "schedule" THEN schedule \cup {created + 1} ELSE schedule
          /\ UNCHANGED <<timers, ready>>
      BY <1>2, <2>4, ZenonT(30) DEF Insert, dispatchVars
    <3> QED
      BY <2>1, <2>2, <3>1
  <2> QED
    BY <2>3, <2>4, ZenonT(30)
<1>3. ASSUME NEW h \in Threads, Dispatch(h) PROVE Placed'
  <2>1. \A g \in Threads : HeldBy(g)' = HeldBy(g)
    BY <1>3, ZenonT(30) DEF Dispatch, Queue, Calls, Returns, HeldBy
  <2>2. task[h] \in 1..created
    BY <1>3, ZenonT(30) DEF Dispatch, Shape
  <2>3. timers' \cup ready' = timers \cup ready \cup {task[h]}
    BY <1>3, ZenonT(30) DEF Dispatch, Queue
  <2>4. UNCHANGED <<created, tasks, schedule>>
    BY <1>3, ZenonT(30) DEF Dispatch, executorVars
  <2> QED
    BY <2>1, <2>2, <2>3, <2>4
<1>4. ASSUME NEW h \in Threads, NEW t \in Tasks, Cancel(h, t) PROVE Placed'
  <2>1. /\ t \in schedule /\ tasks' = tasks \ {t} /\ schedule' = schedule \ {t}
        /\ Calls(h, "cancel", "cancel", t) /\ UNCHANGED <<created, timers, ready>>
    BY <1>4, ZenonT(30) DEF Cancel, taskVars, dispatchVars
  <2>2. \A g \in Threads : HeldBy(g)' \subseteq HeldBy(g) \cup {t}
    BY <2>1 DEF Calls, HeldBy
  <2>3. t \in 1..created
    BY <2>1, ZenonT(30)
  <2> QED
    BY <2>1, <2>2, <2>3, ZenonT(30)
<1>5. ASSUME NEW h \in Threads, Drop(h) PROVE Placed'
  <2>1. /\ \E o, s : s \in {"none", "next"} /\ Calls(h, o, s, 0)
        /\ UNCHANGED <<created, tasks, schedule, timers, ready>>
    BY <1>5, ZenonT(30) DEF Drop, Returns, executorVars, dispatchVars
  <2>2. \A g \in Threads : HeldBy(g)' \subseteq HeldBy(g)
    BY <2>1 DEF Calls, HeldBy
  <2> QED
    BY <2>1, <2>2, ZenonT(30)
<1>6. ASSUME NEW h \in Threads, SwapTasks(h) PROVE Placed'
  BY <1>6, InHand, ZenonT(30) DEF SwapTasks, executorVars, taskVars, dispatchVars,
    workerVars, callVars, history, Shape, HeldBy, Holding
<1>7. ASSUME NEW h \in Threads, DisposeNext(h) PROVE Placed'
  BY <1>7, InHand DEF DisposeNext, Calls, Returns, executorVars, taskVars,
    dispatchVars, workerVars, callVars, history, Shape, HeldBy, Holding
<1>8. CASE InvokeAsync
  BY <1>8, InHand, ZenonT(30) DEF InvokeAsync, executorVars, taskVars, dispatchVars,
    workerVars, callVars, history, Shape, HeldBy, Holding
<1>9. CASE OnCompletion
  BY <1>9, InHand, ZenonT(30) DEF OnCompletion, executorVars, taskVars, dispatchVars,
    workerVars, callVars, history, Shape, HeldBy, Holding
<1>10. CASE Release
  BY <1>10, InHand, ZenonT(30) DEF Release, executorVars, taskVars, dispatchVars,
    workerVars, callVars, history, Shape, HeldBy, Holding
<1>11. ASSUME NEW t \in Tasks, Due(t) PROVE Placed'
  BY <1>11, InHand, ZenonT(30) DEF Due, Queue, executorVars, taskVars, dispatchVars,
    workerVars, callVars, history, Shape, HeldBy, Holding
<1> QED
  BY <1>1, <1>2, <1>3, <1>4, <1>5, <1>6, <1>7, <1>8, <1>9, <1>10, <1>11, Actions, ZenonT(30)
    DEF Quiet

(* A step moves the executor's ownership, and never doubles it.            *)
LEMMA ApartStep == QueueAssumption /\ IInv /\ [Next]_vars => Apart'
<1> SUFFICES ASSUME QueueAssumption, IInv, [Next]_vars PROVE Apart'
  BY ZenonT(30)
<1>1. CASE Quiet
  BY <1>1, QuietIsQuiet, QuietKeeps, ZenonT(30)
<1>a. TypeOK /\ Shape /\ Gate /\ Placed /\ Apart /\ Queued /\ Handed /\ Counts
  BY ZenonT(30) DEF IInv
<1>b. /\ op \in [Threads -> {"none", "execute", "schedule", "cancel", "dispose", "again"}]
      /\ step \in [Threads -> Steps]
      /\ task \in [Threads -> 0..MaxTasks] /\ todo \in [Threads -> SUBSET Tasks]
      /\ created \in Nat /\ refs \in [Tasks -> Nat]
  BY <1>a DEF TypeOK
<1> USE <1>a, <1>b DEF QueueAssumption, Apart
<1>2. ASSUME NEW h \in Threads, Insert(h) PROVE Apart'
  <2>1. \A g \in Threads : HeldBy(g)' = HeldBy(g)
    BY <1>2 DEF Insert, Calls, Returns, HeldBy
  <2>2. tasks' = tasks \/ tasks' = tasks \cup {created + 1}
    BY <1>2, ZenonT(30) DEF Insert
  <2>3. created + 1 \notin 1..created
    OBVIOUS
  <2>4. \A g \in Threads : step'[g] \in Holding => task'[g] \notin todo'[g]
    BY <1>2 DEF Insert, Calls, Returns, Holding
  <2>5. ASSUME NEW g \in Threads PROVE HeldBy(g)' \cap tasks' = {}
    <3>1. HeldBy(g) \subseteq 1..created /\ HeldBy(g) \cap tasks = {}
      BY ZenonT(30) DEF Placed
    <3>2. created + 1 \notin HeldBy(g)
      BY <2>3, <3>1, ZenonT(30)
    <3> QED
      BY <2>1, <2>2, <3>1, <3>2, ZenonT(30)
  <2> QED
    BY <2>1, <2>4, <2>5, ZenonT(30)
<1>3. ASSUME NEW h \in Threads, Dispatch(h) PROVE Apart'
  BY <1>3, InHand, ZenonT(30) DEF Dispatch, Queue, Calls, Returns, executorVars,
    taskVars, dispatchVars, workerVars, callVars, history, Placed, Shape, HeldBy, Holding
<1>4. ASSUME NEW h \in Threads, NEW t \in Tasks, Cancel(h, t) PROVE Apart'
  BY <1>4, InHand DEF Cancel, CanCall, Calls, executorVars, taskVars,
    dispatchVars, workerVars, callVars, history, Placed, Shape, HeldBy, Holding
<1>5. ASSUME NEW h \in Threads, Drop(h) PROVE Apart'
  <2>1. tasks' = tasks /\ todo' = todo
    BY <1>5, ZenonT(30) DEF Drop, Calls, Returns, executorVars
  <2>2. \A g \in Threads : step'[g] \in Holding =>
          g # h /\ step'[g] = step[g] /\ task'[g] = task[g]
    BY <1>5 DEF Drop, Calls, Returns, Holding
  <2>3. \A g \in Threads : HeldBy(g)' \subseteq HeldBy(g)
    BY <2>1, <2>2, ZenonT(30) DEF HeldBy, Holding
  <2> QED
    BY <2>1, <2>2, <2>3
<1>6. ASSUME NEW h \in Threads, SwapTasks(h) PROVE Apart'
  <2>1. /\ tasks' = {} /\ task' = task
        /\ step' = [step EXCEPT ![h] = "next"] /\ todo' = [todo EXCEPT ![h] = tasks]
    BY <1>6, ZenonT(30) DEF SwapTasks
  <2>2. HeldBy(h)' = tasks
    BY <2>1, ZenonT(30) DEF HeldBy
  <2>3. \A g \in Threads : g # h => HeldBy(g)' = HeldBy(g)
    BY <2>1, ZenonT(30) DEF HeldBy
  <2>4. \A g \in Threads : step'[g] \in Holding => task'[g] \notin todo'[g]
    BY <2>1, ZenonT(30) DEF Holding
  <2> QED
    BY <2>1, <2>2, <2>3, <2>4
<1>7. ASSUME NEW h \in Threads, DisposeNext(h) PROVE Apart'
  <2>1. \A g \in Threads : HeldBy(g)' = HeldBy(g)
    BY <1>7 DEF DisposeNext, Calls, Returns, HeldBy
  <2>2. tasks' = tasks
    BY <1>7, ZenonT(30) DEF DisposeNext, executorVars
  <2>3. \A g \in Threads : step'[g] \in Holding => task'[g] \notin todo'[g]
    BY <1>7 DEF DisposeNext, Calls, Returns, Holding
  <2> QED
    BY <2>1, <2>2, <2>3, ZenonT(30)
<1>8. CASE InvokeAsync
  BY <1>8, InHand DEF InvokeAsync, executorVars, taskVars, dispatchVars,
    workerVars, callVars, history, Placed, Shape, HeldBy, Holding
<1>9. CASE OnCompletion
  BY <1>9, InHand, ZenonT(30) DEF OnCompletion, executorVars, taskVars, dispatchVars,
    workerVars, callVars, history, Placed, Shape, HeldBy, Holding
<1>10. CASE Release
  BY <1>10, InHand, ZenonT(30) DEF Release, executorVars, taskVars, dispatchVars,
    workerVars, callVars, history, Placed, Shape, HeldBy, Holding
<1>11. ASSUME NEW t \in Tasks, Due(t) PROVE Apart'
  BY <1>11, InHand DEF Due, Queue, executorVars, taskVars, dispatchVars,
    workerVars, callVars, history, Placed, Shape, HeldBy, Holding
<1> QED
  BY <1>1, <1>2, <1>3, <1>4, <1>5, <1>6, <1>7, <1>8, <1>9, <1>10, <1>11, Actions, ZenonT(30)
    DEF Quiet

(* A step moves libdispatch's ownership, and never doubles it.             *)
LEMMA QueuedStep == QueueAssumption /\ IInv /\ [Next]_vars => Queued'
<1> SUFFICES ASSUME QueueAssumption, IInv, [Next]_vars PROVE Queued'
  BY ZenonT(30)
<1>1. CASE Quiet
  BY <1>1, QuietIsQuiet, QuietKeeps, ZenonT(30)
<1>a. TypeOK /\ Shape /\ Gate /\ Placed /\ Apart /\ Queued /\ Handed /\ Counts
  BY ZenonT(30) DEF IInv
<1>b. /\ op \in [Threads -> {"none", "execute", "schedule", "cancel", "dispose", "again"}]
      /\ step \in [Threads -> Steps]
      /\ task \in [Threads -> 0..MaxTasks] /\ todo \in [Threads -> SUBSET Tasks]
      /\ created \in Nat /\ refs \in [Tasks -> Nat]
  BY <1>a DEF TypeOK
<1> USE <1>a, <1>b DEF QueueAssumption, Queued
<1>2. ASSUME NEW h \in Threads, Insert(h) PROVE Queued'
  BY <1>2, InHand, ZenonT(30) DEF Insert, Calls, Returns, executorVars, taskVars,
    dispatchVars, workerVars, callVars, history, Placed, Shape, Handed, ByDispatch
<1>3. ASSUME NEW h \in Threads, Dispatch(h) PROVE Queued'
  <2>1. ~ ByDispatch(task[h]) /\ UNCHANGED invoked
    BY <1>3, ZenonT(30) DEF Dispatch, Handed, workerVars
  <2>2. \/ timers' = timers \cup {task[h]} /\ ready' = ready
        \/ ready' = ready \cup {task[h]} /\ timers' = timers
    BY <1>3, ZenonT(30) DEF Dispatch, Queue
  <2> QED
    BY <2>1, <2>2 DEF ByDispatch
<1>4. ASSUME NEW h \in Threads, NEW t \in Tasks, Cancel(h, t) PROVE Queued'
  BY <1>4, InHand, ZenonT(30) DEF Cancel, CanCall, Calls, executorVars, taskVars,
    dispatchVars, workerVars, callVars, history, Placed, Shape, Handed, ByDispatch
<1>5. ASSUME NEW h \in Threads, Drop(h) PROVE Queued'
  BY <1>5, InHand, ZenonT(30) DEF Drop, Calls, Returns, executorVars, taskVars,
    dispatchVars, workerVars, callVars, history, Placed, Shape, Handed, ByDispatch
<1>6. ASSUME NEW h \in Threads, SwapTasks(h) PROVE Queued'
  BY <1>6, InHand, ZenonT(30) DEF SwapTasks, executorVars, taskVars, dispatchVars,
    workerVars, callVars, history, Placed, Shape, Handed, ByDispatch
<1>7. ASSUME NEW h \in Threads, DisposeNext(h) PROVE Queued'
  BY <1>7, InHand, ZenonT(30) DEF DisposeNext, Calls, Returns, executorVars, taskVars,
    dispatchVars, workerVars, callVars, history, Placed, Shape, Handed, ByDispatch
<1>8. CASE InvokeAsync
  BY <1>8, InHand, ZenonT(30) DEF InvokeAsync, executorVars, taskVars, dispatchVars,
    workerVars, callVars, history, Placed, Shape, Handed, ByDispatch
<1>9. CASE OnCompletion
  BY <1>9, InHand, ZenonT(30) DEF OnCompletion, executorVars, taskVars, dispatchVars,
    workerVars, callVars, history, Placed, Shape, Handed, ByDispatch
<1>10. CASE Release
  BY <1>10, InHand DEF Release, executorVars, taskVars, dispatchVars,
    workerVars, callVars, history, Placed, Shape, Handed, ByDispatch
<1>11. ASSUME NEW t \in Tasks, Due(t) PROVE Queued'
  BY <1>11, InHand, ZenonT(30) DEF Due, Queue, executorVars, taskVars, dispatchVars,
    workerVars, callVars, history, Placed, Shape, Handed, ByDispatch
<1> QED
  BY <1>1, <1>2, <1>3, <1>4, <1>5, <1>6, <1>7, <1>8, <1>9, <1>10, <1>11, Actions, ZenonT(30)
    DEF Quiet

(* What a thread handed over stays so when no thread comes to the dispatch *)
(* and the queues stay as they are.                                        *)
LEMMA HandedKept ==
  ASSUME Handed, UNCHANGED <<tasks, schedule, timers, ready, invoked>>,
         \A g \in Threads : step'[g] = "dispatch" => step[g] = "dispatch" /\ task'[g] = task[g]
  PROVE  Handed'
BY ZenonT(30) DEF Handed, ByDispatch

(* No step takes a task away that is on its way to libdispatch.            *)
LEMMA HandedStep == QueueAssumption /\ IInv /\ [Next]_vars => Handed'
<1> SUFFICES ASSUME QueueAssumption, IInv, [Next]_vars PROVE Handed'
  BY ZenonT(30)
<1>a. TypeOK /\ Shape /\ Gate /\ Placed /\ Apart /\ Queued /\ Handed /\ Counts
  BY ZenonT(30) DEF IInv
<1>b. /\ op \in [Threads -> {"none", "execute", "schedule", "cancel", "dispose", "again"}]
      /\ step \in [Threads -> Steps]
      /\ task \in [Threads -> 0..MaxTasks] /\ todo \in [Threads -> SUBSET Tasks]
      /\ created \in Nat /\ refs \in [Tasks -> Nat]
  BY <1>a DEF TypeOK
<1> USE <1>a, <1>b DEF QueueAssumption, Handed
<1>1. ASSUME NEW h \in Threads, NEW even \in BOOLEAN, Enqueue(h, even) PROVE Handed'
  BY <1>1, InHand, ZenonT(30) DEF Enqueue, CanCall, Calls, executorVars, taskVars,
    dispatchVars, workerVars, callVars, history, Placed, Shape, Gate, ByDispatch
<1>2. ASSUME NEW h \in Threads, EnqueueAfterDelay(h) PROVE Handed'
  BY <1>2, InHand, ZenonT(30) DEF EnqueueAfterDelay, CanCall, Calls, executorVars,
    taskVars, dispatchVars, workerVars, callVars, history, Placed, Shape, Gate, ByDispatch
<1>3. ASSUME NEW h \in Threads, Insert(h) PROVE Handed'
  <2>1. \A g \in Threads : g # h => step[g] # "dispatch" /\ step'[g] = step[g]
    BY <1>3 DEF Insert, Calls, Returns, Gate
  <2>2. CASE step'[h] = "dispatch"
    BY <1>3, <2>1, <2>2, InHand DEF Insert, Calls, Returns, dispatchVars,
      workerVars, Placed, Shape, ByDispatch
  <2> QED
    BY <2>1, <2>2, ZenonT(30)
<1>4. ASSUME NEW h \in Threads, Dispatch(h) PROVE Handed'
  BY <1>4, InHand DEF Dispatch, Queue, Calls, Returns, executorVars,
    taskVars, dispatchVars, workerVars, callVars, history, Placed, Shape, Gate, ByDispatch
<1>5. ASSUME NEW h \in Threads, NEW t \in Tasks, Cancel(h, t) PROVE Handed'
  BY <1>5, InHand DEF Cancel, CanCall, Calls, executorVars, taskVars,
    dispatchVars, workerVars, callVars, history, Placed, Shape, Gate, ByDispatch
<1>6. ASSUME NEW h \in Threads, TaskCancel(h) PROVE Handed'
  <2>1. \A g \in Threads : step'[g] = "dispatch" => step[g] = "dispatch" /\ task'[g] = task[g]
    BY <1>6, ZenonT(30) DEF TaskCancel, Continues
  <2>2. UNCHANGED <<tasks, schedule, timers, ready, invoked>>
    BY <1>6, ZenonT(30) DEF TaskCancel, executorVars, dispatchVars, workerVars
  <2> QED
    BY <2>1, <2>2, HandedKept, ZenonT(30)
<1>7. ASSUME NEW h \in Threads, AwaitLocked(h) PROVE Handed'
  <2>1. \A g \in Threads : step'[g] = "dispatch" => step[g] = "dispatch" /\ task'[g] = task[g]
    BY <1>7, ZenonT(30) DEF AwaitLocked, Continues
  <2>2. UNCHANGED <<tasks, schedule, timers, ready, invoked>>
    BY <1>7, ZenonT(30) DEF AwaitLocked, executorVars, dispatchVars, workerVars
  <2> QED
    BY <2>1, <2>2, HandedKept, ZenonT(30)
<1>8. ASSUME NEW h \in Threads, Drop(h) PROVE Handed'
  <2>1. \A g \in Threads : step'[g] = "dispatch" => step[g] = "dispatch" /\ task'[g] = task[g]
    BY <1>8, ZenonT(30) DEF Drop, Calls, Returns
  <2>2. UNCHANGED <<tasks, schedule, timers, ready, invoked>>
    BY <1>8, ZenonT(30) DEF Drop, executorVars, dispatchVars, workerVars
  <2> QED
    BY <2>1, <2>2, HandedKept, ZenonT(30)
<1>9. ASSUME NEW h \in Threads, Dispose(h) PROVE Handed'
  BY <1>9, InHand, ZenonT(30) DEF Dispose, CanCall, Calls, executorVars, taskVars,
    dispatchVars, workerVars, callVars, history, Placed, Shape, Gate, ByDispatch
<1>10. ASSUME NEW h \in Threads, SwapTasks(h) PROVE Handed'
  BY <1>10, InHand, ZenonT(30) DEF SwapTasks, executorVars, taskVars, dispatchVars,
    workerVars, callVars, history, Placed, Shape, Gate, ByDispatch
<1>11. ASSUME NEW h \in Threads, DisposeNext(h) PROVE Handed'
  <2>1. \A g \in Threads : step'[g] = "dispatch" => step[g] = "dispatch" /\ task'[g] = task[g]
    BY <1>11, ZenonT(30) DEF DisposeNext, Calls, Returns
  <2>2. UNCHANGED <<tasks, schedule, timers, ready, invoked>>
    BY <1>11, ZenonT(30) DEF DisposeNext, executorVars, dispatchVars, workerVars
  <2> QED
    BY <2>1, <2>2, HandedKept, ZenonT(30)
<1>12. CASE InvokeAsync
  BY <1>12, InHand DEF InvokeAsync, executorVars, taskVars, dispatchVars,
    workerVars, callVars, history, Placed, Shape, Gate, ByDispatch
<1>13. CASE Execute
  BY <1>13, InHand, ZenonT(30) DEF Execute, executorVars, taskVars, dispatchVars,
    workerVars, callVars, history, Placed, Shape, Gate, ByDispatch
<1>14. CASE Complete
  BY <1>14, InHand, ZenonT(30) DEF Complete, executorVars, taskVars, dispatchVars,
    workerVars, callVars, history, Placed, Shape, Gate, ByDispatch
<1>15. CASE OnCompletion
  BY <1>15, InHand, ZenonT(30) DEF OnCompletion, executorVars, taskVars, dispatchVars,
    workerVars, callVars, history, Placed, Shape, Gate, ByDispatch
<1>16. CASE Release
  BY <1>16, InHand DEF Release, executorVars, taskVars, dispatchVars,
    workerVars, callVars, history, Placed, Shape, Gate, ByDispatch
<1>17. CASE EnterRestrictedMode
  BY <1>17, InHand, ZenonT(30) DEF EnterRestrictedMode, executorVars, taskVars,
    dispatchVars, workerVars, callVars, history, Placed, Shape, Gate, ByDispatch
<1>18. ASSUME NEW t \in Tasks, Due(t) PROVE Handed'
  BY <1>18, InHand, ZenonT(30) DEF Due, Queue, executorVars, taskVars, dispatchVars,
    workerVars, callVars, history, Placed, Shape, Gate, ByDispatch
<1>19. CASE UNCHANGED vars
  BY <1>19, ZenonT(30) DEF vars, executorVars, taskVars, dispatchVars, workerVars, callVars, history,
    Placed, Shape, Gate, ByDispatch
<1> QED
  BY <1>1, <1>2, <1>3, <1>4, <1>5, <1>6, <1>7, <1>8, <1>9, <1>10, <1>11, <1>12, <1>13, <1>14,
    <1>15, <1>16, <1>17, <1>18, <1>19, Actions, ZenonT(30)

(* A step counts the ownerships it gives and takes.                        *)
LEMMA CountsStep == QueueAssumption /\ IInv /\ [Next]_vars => Counts'
<1> SUFFICES ASSUME QueueAssumption, IInv, [Next]_vars PROVE Counts'
  BY ZenonT(30)
<1>1. CASE Quiet
  BY <1>1, QuietIsQuiet, QuietKeeps, ZenonT(30)
<1>a. TypeOK /\ Shape /\ Gate /\ Placed /\ Apart /\ Queued /\ Handed /\ Counts
  BY ZenonT(30) DEF IInv
<1>b. /\ op \in [Threads -> {"none", "execute", "schedule", "cancel", "dispose", "again"}]
      /\ step \in [Threads -> Steps]
      /\ task \in [Threads -> 0..MaxTasks] /\ todo \in [Threads -> SUBSET Tasks]
      /\ created \in Nat /\ refs \in [Tasks -> Nat]
  BY <1>a DEF TypeOK
<1> USE <1>a, <1>b DEF QueueAssumption, Counts
<1>2. ASSUME NEW h \in Threads, Insert(h) PROVE Counts'
  <2>1. \A g \in Threads : HeldBy(g)' = HeldBy(g)
    BY <1>2 DEF Insert, Calls, Returns, HeldBy
  <2>2. \A u \in Tasks : ByDispatch(u)' <=> ByDispatch(u)
    BY <1>2, ZenonT(30) DEF Insert, dispatchVars, workerVars, ByDispatch
  <2>3. CASE disposed \/ created = MaxTasks
    BY <1>2, <2>1, <2>2, <2>3 DEF Insert, Owners, ByExecutor
  <2>4. CASE ~ (disposed \/ created = MaxTasks)
    <3> DEFINE t == created + 1
    <3>1. t \in Tasks /\ t \notin 1..created /\ t # 0
      BY <2>4, InHand
    <3>2. ~ ByExecutor(t) /\ ~ ByDispatch(t)
      BY <3>1, ZenonT(30) DEF ByExecutor, ByDispatch, Placed, Shape
    <3>3. tasks' = tasks \cup {t} /\ refs' = [refs EXCEPT ![t] = 1]
      BY <1>2, <2>4, ZenonT(30) DEF Insert
    <3>4. \A u \in Tasks : ByExecutor(u)' <=> ByExecutor(u) \/ u = t
      BY <2>1, <3>3 DEF ByExecutor
    <3> QED
      BY <2>2, <3>1, <3>2, <3>3, <3>4 DEF Owners
  <2> QED
    BY <2>3, <2>4, ZenonT(30)
<1>3. ASSUME NEW h \in Threads, Dispatch(h) PROVE Counts'
  <2> DEFINE t == task[h]
  <2>1. t \in Tasks /\ t \in tasks /\ ~ ByDispatch(t) /\ refs[t] = 1
    BY <1>3, InHand DEF Dispatch, Handed, Owners, ByExecutor
  <2>2. \A g \in Threads : HeldBy(g)' = HeldBy(g)
    BY <1>3, ZenonT(30) DEF Dispatch, Queue, Calls, Returns, HeldBy
  <2>3. \A u \in Tasks : ByExecutor(u)' <=> ByExecutor(u)
    BY <1>3, <2>2 DEF Dispatch, executorVars, ByExecutor
  <2>4. \A u \in Tasks : ByDispatch(u)' <=> ByDispatch(u) \/ u = t
    BY <1>3, ZenonT(30) DEF Dispatch, Queue, workerVars, ByDispatch
  <2>5. refs' = [refs EXCEPT ![t] = @ + 1]
    BY <1>3, ZenonT(30) DEF Dispatch
  <2> QED
    BY <2>1, <2>3, <2>4, <2>5 DEF Owners
<1>4. ASSUME NEW h \in Threads, NEW t \in Tasks, Cancel(h, t) PROVE Counts'
  <2>1. t \in tasks /\ tasks' = tasks \ {t} /\ UNCHANGED <<refs, timers, ready, invoked>>
    BY <1>4, ZenonT(30) DEF Cancel, Placed, taskVars, dispatchVars, workerVars
  <2>2. HeldBy(h)' = HeldBy(h) \cup {t} /\ \A g \in Threads : g # h => HeldBy(g)' = HeldBy(g)
    BY <1>4, ZenonT(30) DEF Cancel, CanCall, Calls, HeldBy
  <2>3. \A u \in Tasks : (ByExecutor(u)' <=> ByExecutor(u)) /\ (ByDispatch(u)' <=> ByDispatch(u))
    BY <2>1, <2>2 DEF ByExecutor, ByDispatch
  <2> QED
    BY <2>1, <2>3, ZenonT(30) DEF Owners
<1>5. ASSUME NEW h \in Threads, Drop(h) PROVE Counts'
  <2> DEFINE t == task[h]
  <2>1. t \in Tasks /\ ByExecutor(t) /\ t \notin tasks
    BY <1>5, InHand, ZenonT(30) DEF Drop, Apart, ByExecutor, HeldBy, Holding
  <2>2. HeldBy(h)' = HeldBy(h) \ {t}
    BY <1>5 DEF Drop, Calls, Returns, HeldBy, Apart, Holding
  <2>3. \A g \in Threads : g # h => HeldBy(g)' = HeldBy(g) /\ t \notin HeldBy(g)
    <3>1. t \in HeldBy(h)
      BY <1>5, ZenonT(30) DEF Drop, HeldBy
    <3>2. \A g \in Threads : g # h =>
            step'[g] = step[g] /\ task'[g] = task[g] /\ todo'[g] = todo[g]
      BY <1>5, ZenonT(30) DEF Drop, Calls, Returns
    <3>3. \A g \in Threads : g # h => HeldBy(g)' = HeldBy(g)
      BY <3>2, ZenonT(30) DEF HeldBy
    <3>4. \A g \in Threads : g # h => t \notin HeldBy(g)
      BY <3>1, ZenonT(30) DEF Apart
    <3> QED
      BY <3>3, <3>4, ZenonT(30)
  <2>4. \A u \in Tasks : ByExecutor(u)' <=> ByExecutor(u) /\ u # t
    BY <1>5, <2>1, <2>2, <2>3, ZenonT(30) DEF Drop, executorVars, ByExecutor
  <2>5. \A u \in Tasks : ByDispatch(u)' <=> ByDispatch(u)
    BY <1>5, ZenonT(30) DEF Drop, dispatchVars, workerVars, ByDispatch
  <2>6. refs' = [refs EXCEPT ![t] = @ - 1]
    BY <1>5, ZenonT(30) DEF Drop
  <2> QED
    BY <2>1, <2>4, <2>5, <2>6 DEF Owners
<1>6. ASSUME NEW h \in Threads, SwapTasks(h) PROVE Counts'
  BY <1>6, InHand DEF SwapTasks, executorVars, taskVars, dispatchVars,
    workerVars, callVars, history, Placed, Apart, Queued, Shape, Owners, ByExecutor, ByDispatch,
    HeldBy, Holding
<1>7. ASSUME NEW h \in Threads, DisposeNext(h) PROVE Counts'
  <2>1. \A g \in Threads : HeldBy(g)' = HeldBy(g)
    BY <1>7 DEF DisposeNext, Calls, Returns, HeldBy
  <2>2. \A u \in Tasks : ByExecutor(u)' <=> ByExecutor(u)
    <3>1. tasks' = tasks
      BY <1>7, ZenonT(30) DEF DisposeNext, executorVars
    <3> QED
      BY <2>1, <3>1 DEF ByExecutor
  <2>3. \A u \in Tasks : ByDispatch(u)' <=> ByDispatch(u)
    BY <1>7, ZenonT(30) DEF DisposeNext, dispatchVars, workerVars, ByDispatch
  <2> QED
    BY <1>7, <2>2, <2>3, ZenonT(30) DEF DisposeNext, taskVars, Owners
<1>8. CASE InvokeAsync
  <2>1. \A u \in Tasks : ByExecutor(u)' <=> ByExecutor(u)
    BY <1>8, ZenonT(30) DEF InvokeAsync, executorVars, callVars, ByExecutor, HeldBy
  <2>2. \A u \in Tasks : ByDispatch(u)' <=> ByDispatch(u)
    BY <1>8 DEF InvokeAsync, ByDispatch, Queued, Shape, Tasks
  <2> QED
    BY <1>8, <2>1, <2>2, ZenonT(30) DEF InvokeAsync, taskVars, Owners
<1>9. CASE OnCompletion
  <2>1. \A g \in Threads : HeldBy(g)' = HeldBy(g)
    BY <1>9, ZenonT(30) DEF OnCompletion, callVars, HeldBy
  <2>2. \A u \in Tasks : ByDispatch(u)' <=> ByDispatch(u)
    BY <1>9, ZenonT(30) DEF OnCompletion, dispatchVars, ByDispatch
  <2>3. CASE invoked \in reports /\ invoked \in tasks
    <3>1. tasks' = tasks \ {invoked} /\ refs' = [refs EXCEPT ![invoked] = @ - 1]
      BY <1>9, <2>3, ZenonT(30) DEF OnCompletion
    <3>2. invoked \in Tasks /\ ByExecutor(invoked)
      BY <1>9, <2>3, InHand, ZenonT(30) DEF OnCompletion, ByExecutor
    <3>3. \A u \in Tasks : ByExecutor(u)' <=> ByExecutor(u) /\ u # invoked
      BY <2>1, <2>3, <3>1 DEF ByExecutor, Apart
    <3> QED
      BY <2>2, <3>1, <3>2, <3>3 DEF Owners
  <2>4. CASE ~ (invoked \in reports /\ invoked \in tasks)
    <3>1. tasks' = tasks /\ \A u \in Tasks : refs'[u] = refs[u]
      BY <1>9, <2>4, ZenonT(30) DEF OnCompletion
    <3> QED
      BY <2>1, <2>2, <3>1 DEF Owners, ByExecutor
  <2> QED
    BY <2>3, <2>4, ZenonT(30)
<1>10. CASE Release
  <2>1. invoked \in Tasks /\ ByDispatch(invoked)
    BY <1>10, InHand, ZenonT(30) DEF Release, ByDispatch
  <2>2. \A u \in Tasks : ByExecutor(u)' <=> ByExecutor(u)
    BY <1>10, ZenonT(30) DEF Release, executorVars, callVars, ByExecutor, HeldBy
  <2>3. \A u \in Tasks : ByDispatch(u)' <=> ByDispatch(u) /\ u # invoked
    BY <1>10, <2>1 DEF Release, dispatchVars, ByDispatch, Queued, Tasks
  <2> QED
    BY <1>10, <2>1, <2>2, <2>3 DEF Release, Owners
<1>11. ASSUME NEW t \in Tasks, Due(t) PROVE Counts'
  <2>1. \A u \in Tasks : ByExecutor(u)' <=> ByExecutor(u)
    BY <1>11, ZenonT(30) DEF Due, executorVars, callVars, ByExecutor, HeldBy
  <2>2. \A u \in Tasks : ByDispatch(u)' <=> ByDispatch(u)
    BY <1>11, ZenonT(30) DEF Due, Queue, workerVars, ByDispatch
  <2> QED
    BY <1>11, <2>1, <2>2, ZenonT(30) DEF Due, taskVars, Owners
<1> QED
  BY <1>1, <1>2, <1>3, <1>4, <1>5, <1>6, <1>7, <1>8, <1>9, <1>10, <1>11, Actions, ZenonT(30)
    DEF Quiet

(* The queue holds the inductive invariant in every state.                 *)
THEOREM Inductive == ASSUME QueueAssumption PROVE Spec => []IInv
<1>1. Init => IInv
  <2> SUFFICES ASSUME Init PROVE IInv
    BY ZenonT(30)
  <2>1. TypeOK
    <3>1. disposed \in BOOLEAN /\ over \in BOOLEAN
      BY ZenonT(30) DEF Init
    <3>2. op \in [Threads -> {"none", "execute", "schedule", "cancel", "dispose", "again"}]
      BY ZenonT(30) DEF Init
    <3>3. step \in [Threads -> Steps] /\ todo \in [Threads -> SUBSET Tasks]
      BY ZenonT(30) DEF Init, Steps
    <3> QED
      BY <3>1, <3>2, <3>3 DEF QueueAssumption, Init, TypeOK
  <2>2. Shape /\ Gate
    BY ZenonT(30) DEF QueueAssumption, Init, Shape, Gate, Holding, Threads
  <2>3. Placed /\ Apart /\ Queued /\ Handed
    BY ZenonT(30) DEF Init, Placed, Apart, Queued, Handed, HeldBy, Holding
  <2>4. Counts
    BY DEF Init, Counts, Owners, ByExecutor, ByDispatch, HeldBy, Tasks
  <2> QED
    BY <2>1, <2>2, <2>3, <2>4, ZenonT(30) DEF IInv
<1>2. QueueAssumption /\ IInv /\ [Next]_vars => IInv'
  BY TypeStep, ShapeStep, GateStep, PlacedStep, ApartStep, QueuedStep, HandedStep, CountsStep, ZenonT(30)
  DEF IInv
<1> QED
  BY <1>1, <1>2, PTL DEF Spec

(* Every reference count is the number of owners, and no thread retains,   *)
(* runs, cancels or releases a task that was deleted.                      *)
THEOREM TasksOutliveTheirOwners == ASSUME QueueAssumption PROVE Spec => []RefsAreOwners
<1>1. IInv => RefsAreOwners
  <2> SUFFICES ASSUME IInv PROVE RefsAreOwners
    BY ZenonT(30)
  <2>1. ASSUME NEW h \in Threads, step[h] = "dispatch" PROVE refs[task[h]] > 0
    BY <2>1, InHand DEF IInv, Handed, Counts, Owners, ByExecutor
  <2> QED
    BY <2>1, ZenonT(30) DEF IInv, Counts, RefsAreOwners
<1> QED
  BY <1>1, Inductive, PTL
-----------------------------------------------------------------------------
(* Why nothing runs after Cancel and Dispose. Runs relates the state of a  *)
(* task to what the worker does; Cancels says what a call that cancels a   *)
(* task has achieved when it lets go of it; Disposes, that one Dispose is  *)
(* the first and finds all the tasks; Unfinished, that a task which may    *)
(* still run is where a Dispose finds it.                                  *)

Ended(t) == state[t] \in {"cancelled", "done"}

Runs ==
  /\ \A t \in Tasks : state[t] = "running" <=> phase = "operation" /\ invoked = t
  /\ \A t \in Tasks : lock[t] # None <=> phase = "done" /\ invoked = t
  /\ phase = "done" => state[invoked] = "done"

(* The task has still to call OnCompletion.                                *)
MayReport(t) == state[t] = "running" \/ (phase = "done" /\ invoked = t)

Cancels ==
  /\ \A h \in Threads : step[h] \in {"wait", "drop"} =>
       state[task[h]] # "initial" /\ (MayReport(task[h]) => task[h] \notin reports)
  /\ \A h \in Threads : step[h] = "drop" => Ended(task[h]) \/ (h = Worker /\ invoked = task[h])
  /\ kept \subseteq 1..created
  /\ \A t \in kept : Ended(t) /\ (MayReport(t) => t \notin reports)

(* A Dispose that was the first and has the tasks.                         *)
Past(h) == op[h] = "dispose" /\ step[h] # "swap"

Disposes ==
  /\ disposed => tasks = {}
  /\ over => disposed
  /\ \A h \in Threads : Past(h) => disposed /\ ~ over
  /\ \A g, h \in Threads : Past(g) /\ Past(h) => g = h
  /\ \A h \in Threads : op[h] = "again" => todo[h] = {} /\ step[h] \notin Holding
  /\ op[Worker] = "cancel" /\ task[Worker] = invoked => invoked \in own

(* An operation was the first to call Dispose: no call from outside is.    *)
WorkerDisposed == disposed /\ ~ over /\ \A h \in Users : ~ Past(h)

Unfinished ==
  /\ \A t \in 1..created : state[t] = "initial" => ByExecutor(t)
  /\ \A t \in Tasks : state[t] = "running" => ByExecutor(t) \/ t \in own \/ WorkerDisposed

(* The worker and the state of the task it invokes agree after each step.  *)
LEMMA RunsStep == QueueAssumption /\ IInv /\ Runs /\ [Next]_vars => Runs'
<1> SUFFICES ASSUME QueueAssumption, IInv, Runs, [Next]_vars PROVE Runs'
  BY ZenonT(30)
<1>a. /\ 1..created \subseteq Tasks /\ (created # MaxTasks => created + 1 \in Tasks \ 1..created)
      /\ (phase # "none" => invoked \in 1..created) /\ (phase = "none" <=> invoked = 0)
      /\ state \in [Tasks -> {"initial", "cancelled", "running", "done"}]
      /\ lock \in [Tasks -> Threads \cup {None}] /\ Worker # None /\ 0 \notin Tasks
      /\ \A h \in Threads : step[h] \in Holding => task[h] \in Tasks
      /\ ready \subseteq Tasks /\ invoked \notin ready
  <2>1. /\ 1..created \subseteq Tasks /\ (created # MaxTasks => created + 1 \in Tasks \ 1..created)
        /\ 0 \notin Tasks
    BY DEF QueueAssumption, IInv, TypeOK, Tasks
  <2>2. \A h \in Threads : step[h] \in Holding => task[h] \in Tasks
    BY <2>1, ZenonT(30) DEF IInv, Shape
  <2>3. Worker # None
    BY DEF QueueAssumption, Threads
  <2> QED
    BY <2>1, <2>2, <2>3, ZenonT(30) DEF IInv, TypeOK, Shape, Queued
<1>1. CASE UNCHANGED <<state, lock, phase, invoked>>
  BY <1>1, ZenonT(30) DEF Runs
<1>2. ASSUME NEW h \in Threads, Insert(h) PROVE Runs'
  <2>1. UNCHANGED <<lock, phase, invoked>>
    BY <1>2, ZenonT(30) DEF Insert, workerVars
  <2>2. CASE UNCHANGED state
    BY <1>1, <2>1, <2>2, ZenonT(30)
  <2>3. CASE created # MaxTasks /\ state' = [state EXCEPT ![created + 1] = "initial"]
    <3>1. /\ state'[created + 1] = "initial" /\ (phase # "none" => invoked # created + 1)
          /\ \A t \in Tasks \ {created + 1} : state'[t] = state[t]
      BY <1>a, <2>3, ZenonT(30)
    <3> QED
      BY <1>a, <2>1, <3>1, ZenonT(30) DEF Runs
  <2> QED
    BY <1>2, <2>2, <2>3, ZenonT(30) DEF Insert
<1>3. ASSUME NEW h \in Threads, TaskCancel(h) PROVE Runs'
  <2>1. /\ UNCHANGED <<lock, phase, invoked>> /\ step[h] = "cancel"
        /\ state' = IF state[task[h]] = "initial" THEN [state EXCEPT ![task[h]] = "cancelled"]
                    ELSE state
    BY <1>3, ZenonT(30) DEF TaskCancel, workerVars
  <2>2. \A t \in Tasks : (state'[t] = "running" <=> state[t] = "running")
                         /\ (state[t] = "done" => state'[t] = "done")
    BY <1>a, <2>1 DEF Holding
  <2> QED
    BY <1>a, <2>1, <2>2, ZenonT(30) DEF Runs
<1>4. CASE InvokeAsync
  BY <1>a, <1>4, ZenonT(30) DEF InvokeAsync, taskVars, Runs
<1>5. CASE Execute
  <2>1. CASE state[invoked] = "initial"
    <3>1. /\ phase = "begin" /\ phase' = "operation" /\ UNCHANGED <<invoked, lock>>
          /\ state' = [state EXCEPT ![invoked] = "running"]
      BY <1>5, <2>1, ZenonT(30) DEF Execute
    <3> QED
      BY <1>a, <3>1 DEF Runs
  <2>2. CASE state[invoked] # "initial"
    <3>1. phase = "begin" /\ phase' = "release" /\ UNCHANGED <<invoked, state, lock>>
      BY <1>5, <2>2, ZenonT(30) DEF Execute
    <3> QED
      BY <3>1 DEF Runs
  <2> QED
    BY <2>1, <2>2, ZenonT(30)
<1>6. CASE Complete
  <2>1. /\ phase = "operation" /\ phase' = "done" /\ UNCHANGED invoked
        /\ state' = [state EXCEPT ![invoked] = "done"] /\ lock' = [lock EXCEPT ![invoked] = Worker]
    BY <1>6, ZenonT(30) DEF Complete
  <2> QED
    BY <1>a, <2>1 DEF Runs
<1>7. CASE OnCompletion
  <2>1. /\ phase = "done" /\ phase' = "release" /\ UNCHANGED <<invoked, state>>
        /\ lock' = [lock EXCEPT ![invoked] = None]
    BY <1>7, ZenonT(30) DEF OnCompletion
  <2> QED
    BY <1>a, <2>1 DEF Runs
<1>8. CASE Release
  <2>1. phase = "release" /\ phase' = "none" /\ invoked' = 0 /\ UNCHANGED <<state, lock>>
    BY <1>8, ZenonT(30) DEF Release
  <2> QED
    BY <1>a, <2>1 DEF Runs
<1>9. ASSUME NEW h \in Threads,
             \/ \E even \in BOOLEAN : Enqueue(h, even)
             \/ EnqueueAfterDelay(h) \/ Dispose(h) \/ (\E t \in Tasks : Cancel(h, t))
             \/ Dispatch(h) \/ AwaitLocked(h) \/ Drop(h) \/ SwapTasks(h) \/ DisposeNext(h)
      PROVE  UNCHANGED <<state, lock, phase, invoked>>
  BY <1>9, ZenonT(30) DEF Enqueue, EnqueueAfterDelay, Dispose, Cancel, Dispatch, AwaitLocked, Drop,
     SwapTasks, DisposeNext, taskVars, workerVars
<1>10. ASSUME EnterRestrictedMode \/ (\E t \in Tasks : Due(t)) \/ UNCHANGED vars
       PROVE  UNCHANGED <<state, lock, phase, invoked>>
  BY <1>10, ZenonT(30) DEF EnterRestrictedMode, Due, vars, taskVars, workerVars
<1> QED
  BY <1>1, <1>2, <1>3, <1>4, <1>5, <1>6, <1>7, <1>8, <1>9, <1>10, Actions, ZenonT(30)

(* A call that cancels a task lets go of it when it will not run any more. *)
LEMMA CancelsStep == QueueAssumption /\ IInv /\ Runs /\ Cancels /\ [Next]_vars => Cancels'
<1> SUFFICES ASSUME QueueAssumption, IInv, Runs, Cancels, [Next]_vars PROVE Cancels'
  BY ZenonT(30)
<1>a. /\ 1..created \subseteq Tasks /\ created + 1 \notin 1..created
      /\ 1..created \subseteq 1..(created + 1) /\ 0 \notin Tasks
      /\ (created # MaxTasks => created + 1 \in Tasks)
      /\ (phase # "none" => invoked \in 1..created)
      /\ (\A h \in Threads : step[h] \in Holding => task[h] \in 1..created)
      /\ (step[Worker] # "none" => phase = "operation")
      /\ state \in [Tasks -> {"initial", "cancelled", "running", "done"}]
      /\ step \in [Threads -> Steps] /\ task \in [Threads -> 0..MaxTasks]
  <2>1. /\ 1..created \subseteq Tasks /\ created + 1 \notin 1..created
        /\ 1..created \subseteq 1..(created + 1) /\ 0 \notin Tasks
        /\ (created # MaxTasks => created + 1 \in Tasks)
    BY DEF QueueAssumption, IInv, TypeOK, Tasks
  <2> QED
    BY <2>1, ZenonT(30) DEF IInv, TypeOK, Shape
<1>b. /\ \A h \in Threads : step[h] \in {"wait", "drop"} => task[h] \in kept \cup 1..created
      /\ kept \subseteq 1..created
  BY <1>a, ZenonT(30) DEF Cancels, Holding
\* Nothing is cancelled, and no task returns to a state it has left.
<1>1. ASSUME \A g \in Threads :
               step'[g] \in {"wait", "drop"} => step[g] = step'[g] /\ task'[g] = task[g],
             kept' = kept /\ created' = created,
             \A t \in 1..created : state[t] # "initial" => state'[t] # "initial",
             \A t \in 1..created : Ended(t) => Ended(t)',
             \A t \in 1..created : state[t] # "initial" /\ MayReport(t)' => MayReport(t),
             \A t \in 1..created : t \in reports' => t \in reports,
             step[Worker] = "drop" => invoked' = invoked
      PROVE  Cancels'
  <2>1. ASSUME NEW g \in Threads, step'[g] \in {"wait", "drop"}
        PROVE  /\ state'[task'[g]] # "initial" /\ (MayReport(task[g])' => task'[g] \notin reports')
               /\ step'[g] = "drop" => Ended(task[g])' \/ (g = Worker /\ invoked' = task'[g])
    <3>1. step'[g] = step[g] /\ task'[g] = task[g] /\ task[g] \in 1..created
      BY <1>1, <1>b, <2>1, ZenonT(30)
    <3> QED
      BY <1>1, <2>1, <3>1, ZenonT(30) DEF Cancels
  <2>2. ASSUME NEW t \in kept PROVE Ended(t)' /\ (MayReport(t)' => t \notin reports')
    BY <1>1, <1>b, <2>2, ZenonT(30) DEF Cancels, Ended
  <2> QED
    BY <1>1, <1>b, <2>1, <2>2, ZenonT(30) DEF Cancels
<1>2. ASSUME NEW h \in Threads, Insert(h) PROVE Cancels'
  <2>1. /\ UNCHANGED <<workerVars, kept>> /\ step[h] = "insert"
        /\ step'[h] \in {"none", "dispatch"}
        /\ \A g \in Threads \ {h} : step'[g] = step[g] /\ task'[g] = task[g]
    BY <1>2, <1>a DEF Insert, Returns, Calls, history
  <2>2. CASE disposed \/ created = MaxTasks
    <3>1. UNCHANGED <<created, state, reports>>
      BY <1>2, <2>2, ZenonT(30) DEF Insert
    <3> QED
      BY <1>1, <2>1, <3>1, ZenonT(30) DEF workerVars, Ended, MayReport
  <2>3. CASE ~ (disposed \/ created = MaxTasks)
    <3>1. /\ created' = created + 1 /\ reports' = reports \cup {created + 1}
          /\ \A t \in 1..created : state'[t] = state[t] /\ (t \in reports' <=> t \in reports)
      BY <1>2, <1>a, <2>3 DEF Insert
    <3>2. ASSUME NEW g \in Threads, step'[g] \in {"wait", "drop"}
          PROVE  /\ state'[task'[g]] # "initial" /\ (MayReport(task[g])' => task'[g] \notin reports')
                 /\ step'[g] = "drop" => Ended(task[g])' \/ (g = Worker /\ invoked' = task'[g])
      <4>1. step'[g] = step[g] /\ task'[g] = task[g] /\ task[g] \in 1..created
        BY <1>b, <2>1, <3>2, ZenonT(30)
      <4>2. (MayReport(task[g])' <=> MayReport(task[g])) /\ (Ended(task[g])' <=> Ended(task[g]))
        BY <2>1, <3>1, <4>1, ZenonT(30) DEF MayReport, Ended, workerVars
      <4>3. /\ state[task[g]] # "initial" /\ (MayReport(task[g]) => task[g] \notin reports)
            /\ step[g] = "drop" => Ended(task[g]) \/ (g = Worker /\ invoked = task[g])
        BY <3>2, <4>1, ZenonT(30) DEF Cancels
      <4>4. state'[task'[g]] = state[task[g]] /\ (task'[g] \in reports' <=> task[g] \in reports)
            /\ invoked' = invoked
        BY <2>1, <3>1, <4>1, ZenonT(30) DEF workerVars
      <4> QED
        BY <4>1, <4>2, <4>3, <4>4, ZenonT(30)
    <3>3. ASSUME NEW t \in kept PROVE Ended(t)' /\ (MayReport(t)' => t \notin reports')
      BY <1>b, <2>1, <3>1, ZenonT(30) DEF Cancels, Ended, MayReport, workerVars
    <3>4. kept' \subseteq 1..created'
      BY <1>a, <1>b, <2>1, <3>1, ZenonT(30)
    <3> QED
      BY <2>1, <3>2, <3>3, <3>4, ZenonT(30) DEF Cancels
  <2> QED
    BY <2>2, <2>3, ZenonT(30)
<1>3. ASSUME NEW h \in Threads, TaskCancel(h) PROVE Cancels'
  <2> DEFINE t == task[h]
  <2>1. /\ step[h] = "cancel" /\ lock[t] = None /\ t \in Tasks /\ t \in 1..created
        /\ state' = IF state[t] = "initial" THEN [state EXCEPT ![t] = "cancelled"] ELSE state
        /\ reports' = IF state[t] \in {"initial", "running"} THEN reports \ {t} ELSE reports
        /\ step' = [step EXCEPT ![h] = IF state[t] = "running" /\ h # Worker THEN "wait" ELSE "drop"]
        /\ UNCHANGED <<task, created, invoked, phase, kept>>
    BY <1>3, <1>a, ZenonT(30) DEF TaskCancel, Continues, workerVars, history, Holding
  <2>2. /\ state'[t] # "initial" /\ (state'[t] = "running" <=> state[t] = "running")
        /\ \A u \in Tasks \ {t} : state'[u] = state[u]
        /\ (MayReport(t)' => t \notin reports')
    <3>1. ~ (phase = "done" /\ invoked = t)
      BY <2>1, ZenonT(30) DEF Runs
    <3>2. state'[t] # "initial" /\ (state'[t] = "running" <=> state[t] = "running")
          /\ \A u \in Tasks \ {t} : state'[u] = state[u]
      BY <2>1, <1>a
    <3> QED
      BY <2>1, <3>1, <3>2, ZenonT(30) DEF MayReport
  <2>3. \A u \in 1..created : /\ state[u] # "initial" => state'[u] # "initial"
                              /\ Ended(u) => Ended(u)'
                              /\ MayReport(u)' => MayReport(u)
                              /\ u \in reports' => u \in reports
    <3>1. Ended(t) => Ended(t)'
      BY <2>1, ZenonT(30) DEF Ended
    <3> QED
      BY <1>a, <2>1, <2>2, <3>1, ZenonT(30) DEF Ended, MayReport
  <2>4. step'[h] = "drop" => Ended(t)' \/ (h = Worker /\ invoked = t)
    <3>1. step'[h] = "drop" => state[t] # "running" \/ h = Worker
      BY <2>1, <1>a
    <3>2. state[t] # "running" => Ended(t)'
      BY <2>1, <1>a DEF Ended
    <3> QED
      BY <2>1, <3>1, <3>2, ZenonT(30) DEF Runs
  <2>5. ASSUME NEW g \in Threads, step'[g] \in {"wait", "drop"}
        PROVE  /\ state'[task'[g]] # "initial" /\ (MayReport(task[g])' => task'[g] \notin reports')
               /\ step'[g] = "drop" => Ended(task[g])' \/ (g = Worker /\ invoked' = task'[g])
    <3>1. CASE g = h
      BY <2>1, <2>2, <2>4, <3>1, ZenonT(30)
    <3>2. CASE g # h
      <4>1. step'[g] = step[g] /\ task'[g] = task[g] /\ task[g] \in 1..created
        BY <1>a, <1>b, <2>1, <2>5, <3>2, ZenonT(30)
      <4> QED
        BY <2>1, <2>3, <2>5, <4>1, ZenonT(30) DEF Cancels
    <3> QED
      BY <3>1, <3>2, ZenonT(30)
  <2>6. ASSUME NEW u \in kept PROVE Ended(u)' /\ (MayReport(u)' => u \notin reports')
    BY <1>b, <2>3, ZenonT(30) DEF Cancels
  <2> QED
    BY <1>b, <2>1, <2>5, <2>6, ZenonT(30) DEF Cancels
<1>4. ASSUME NEW h \in Threads, AwaitLocked(h) PROVE Cancels'
  <2>1. /\ step[h] = "wait" /\ state[task[h]] \in {"cancelled", "done"}
        /\ step' = [step EXCEPT ![h] = "drop"]
        /\ UNCHANGED <<task, created, state, reports, invoked, phase, kept>>
    BY <1>4, ZenonT(30) DEF AwaitLocked, Continues, taskVars, workerVars, history
  <2>2. \A g \in Threads : g # h => step'[g] = step[g]
    BY <1>a, <2>1, ZenonT(30)
  <2> QED
    BY <2>1, <2>2, ZenonT(30) DEF Cancels, MayReport, Ended
<1>5. ASSUME NEW h \in Threads, Drop(h) PROVE Cancels'
  <2> DEFINE t == task[h]
  <2>1. /\ step[h] = "drop" /\ t \in 1..created
        /\ kept' = IF h = Worker /\ invoked = t THEN kept ELSE kept \cup {t}
        /\ step'[h] \in {"none", "next"}
        /\ \A g \in Threads \ {h} : step'[g] = step[g] /\ task'[g] = task[g]
        /\ UNCHANGED <<created, state, reports, invoked, phase>>
    BY <1>5, <1>a DEF Drop, Returns, Calls, workerVars, Holding
  <2>2. \A u \in kept' : u \in kept \/ (u = t /\ Ended(t))
    BY <2>1, ZenonT(30) DEF Cancels
  <2>3. \A u : (Ended(u)' <=> Ended(u)) /\ (MayReport(u)' <=> MayReport(u))
    BY <2>1, ZenonT(30) DEF Ended, MayReport
  <2>4. ASSUME NEW g \in Threads, step'[g] \in {"wait", "drop"}
        PROVE  /\ state'[task'[g]] # "initial" /\ (MayReport(task[g])' => task'[g] \notin reports')
               /\ step'[g] = "drop" => Ended(task[g])' \/ (g = Worker /\ invoked' = task'[g])
    <3>1. g # h
      BY <2>1, <2>4, ZenonT(30)
    <3>2. step'[g] = step[g] /\ task'[g] = task[g]
      BY <2>1, <3>1, ZenonT(30)
    <3>3. (Ended(task[g])' <=> Ended(task[g])) /\ (MayReport(task[g])' <=> MayReport(task[g]))
      BY <2>1, <3>2, ZenonT(30) DEF Ended, MayReport
    <3> QED
      BY <2>1, <2>4, <3>2, <3>3, ZenonT(30) DEF Cancels
  <2>5. kept' \subseteq 1..created'
    BY <2>1, <2>2, ZenonT(30) DEF Cancels
  <2>6. ASSUME NEW u \in kept' PROVE Ended(u)' /\ (MayReport(u)' => u \notin reports')
    <3>1. Ended(u) /\ (MayReport(u) => u \notin reports)
      BY <2>1, <2>2, ZenonT(30) DEF Cancels
    <3> QED
      BY <2>1, <2>3, <3>1, ZenonT(30)
  <2> QED
    BY <2>4, <2>5, <2>6, ZenonT(30) DEF Cancels
<1>6. CASE InvokeAsync
  <2>1. PICK t \in ready : phase = "none" /\ invoked' = t /\ phase' = "begin"
    BY <1>6, ZenonT(30) DEF InvokeAsync
  <2>2. UNCHANGED <<created, state, reports, step, task, kept>>
    BY <1>6, ZenonT(30) DEF InvokeAsync, taskVars, callVars, history
  <2> QED
    BY <1>1, <1>a, <2>1, <2>2, ZenonT(30) DEF Ended, MayReport
<1>7. CASE Execute
  <2>1. /\ phase = "begin" /\ phase' # "done"
        /\ UNCHANGED <<created, reports, step, task, kept, invoked>>
        /\ state' = IF state[invoked] = "initial" THEN [state EXCEPT ![invoked] = "running"]
                    ELSE state
    BY <1>7, ZenonT(30) DEF Execute, callVars, history
  <2>2. \A t \in Tasks : state[t] # "initial" => state'[t] = state[t]
    BY <2>1, <1>a, ZenonT(30)
  <2> QED
    BY <1>1, <1>a, <2>1, <2>2, ZenonT(30) DEF Ended, MayReport
<1>8. CASE Complete
  <2>1. /\ phase = "operation" /\ phase' = "done" /\ UNCHANGED invoked
        /\ state' = [state EXCEPT ![invoked] = "done"]
        /\ UNCHANGED <<created, reports, step, task, kept>>
    BY <1>8, ZenonT(30) DEF Complete, callVars, history
  <2>2. invoked \in 1..created /\ invoked \in Tasks /\ state[invoked] = "running"
    BY <2>1, <1>a, ZenonT(30) DEF Runs
  <2>3. state'[invoked] = "done" /\ \A t \in Tasks \ {invoked} : state'[t] = state[t]
    BY <2>1, <2>2, <1>a, ZenonT(30)
  <2>4. /\ \A t \in 1..created : state[t] # "initial" => state'[t] # "initial"
        /\ \A t \in 1..created : Ended(t) => Ended(t)'
        /\ \A t \in 1..created : state[t] # "initial" /\ MayReport(t)' => MayReport(t)
    BY <2>1, <2>2, <2>3, <1>a DEF Ended, MayReport
  <2> QED
    BY <1>1, <2>1, <2>4, ZenonT(30)
<1>9. CASE OnCompletion
  <2>1. /\ phase' = "release" /\ UNCHANGED <<created, state, reports, step, task, kept, invoked>>
    BY <1>9, ZenonT(30) DEF OnCompletion, callVars, history
  <2> QED
    BY <1>1, <2>1, ZenonT(30) DEF Ended, MayReport
<1>10. CASE Release
  <2>1. phase = "release" /\ phase' = "none" /\ UNCHANGED <<created, state, reports, step, task, kept>>
    BY <1>10, ZenonT(30) DEF Release, callVars, history
  <2> QED
    BY <1>1, <1>a, <2>1, ZenonT(30) DEF Ended, MayReport
<1>11. ASSUME NEW h \in Threads,
              \/ \E even \in BOOLEAN : Enqueue(h, even)
              \/ EnqueueAfterDelay(h) \/ Dispose(h) \/ (\E t \in Tasks : Cancel(h, t))
              \/ Dispatch(h) \/ SwapTasks(h) \/ DisposeNext(h)
       PROVE  Cancels'
  <2>1. UNCHANGED <<created, state, reports, invoked, phase, kept>>
    BY <1>11, ZenonT(30) DEF Enqueue, EnqueueAfterDelay, Cancel, Dispose, Dispatch, SwapTasks,
       DisposeNext, taskVars, workerVars, history
  <2>2. /\ step'[h] \notin {"wait", "drop"}
        /\ \A g \in Threads \ {h} : step'[g] = step[g] /\ task'[g] = task[g]
    <3>1. CASE \E even \in BOOLEAN : Enqueue(h, even)
      BY <3>1, <1>a DEF Enqueue, Calls
    <3>2. CASE EnqueueAfterDelay(h) \/ Dispose(h) \/ Dispatch(h)
      BY <3>2, <1>a DEF EnqueueAfterDelay, Dispose, Dispatch, Returns, Calls
    <3>3. CASE \E t \in Tasks : Cancel(h, t)
      BY <3>3, <1>a DEF Cancel, Calls
    <3>4. CASE SwapTasks(h) \/ DisposeNext(h)
      BY <3>4, <1>a DEF SwapTasks, DisposeNext, Returns, Calls
    <3> QED
      BY <1>11, <3>1, <3>2, <3>3, <3>4, ZenonT(30)
  <2> QED
    BY <1>1, <2>1, <2>2, ZenonT(30) DEF Ended, MayReport
<1>12. ASSUME EnterRestrictedMode \/ (\E t \in Tasks : Due(t)) \/ UNCHANGED vars
       PROVE  Cancels'
  <2>1. UNCHANGED <<created, state, reports, invoked, phase, kept, step, task>>
    BY <1>12, ZenonT(30) DEF EnterRestrictedMode, Due, vars, taskVars, workerVars, callVars, history
  <2> QED
    BY <1>1, <2>1, ZenonT(30) DEF Ended, MayReport
<1> QED
  BY <1>2, <1>3, <1>4, <1>5, <1>6, <1>7, <1>8, <1>9, <1>10, <1>11, <1>12, Actions, ZenonT(30)

(* A step of a thread leaves the calls of the others alone.                *)
LEMMA OtherCalls ==
  ASSUME TypeOK, NEW h \in Threads,
         \/ \E even \in BOOLEAN : Enqueue(h, even)
         \/ EnqueueAfterDelay(h) \/ Dispose(h) \/ (\E t \in Tasks : Cancel(h, t))
         \/ Insert(h) \/ Dispatch(h) \/ TaskCancel(h) \/ AwaitLocked(h)
         \/ Drop(h) \/ SwapTasks(h) \/ DisposeNext(h)
  PROVE  \A g \in Threads \ {h} : /\ op'[g] = op[g] /\ step'[g] = step[g]
                                  /\ task'[g] = task[g] /\ todo'[g] = todo[g]
<1>1. \/ \E o, s, t : Calls(h, o, s, t)
      \/ \E s : Continues(h, s)
      \/ SwapTasks(h)
      \/ \E t : /\ step' = [step EXCEPT ![h] = "cancel"] /\ task' = [task EXCEPT ![h] = t]
                /\ todo' = [todo EXCEPT ![h] = @ \ {t}] /\ UNCHANGED op
  BY ZenonT(30) DEF Enqueue, EnqueueAfterDelay, Dispose, Cancel, Insert, Dispatch, TaskCancel, AwaitLocked,
     Drop, DisposeNext, Returns
<1> QED
  BY <1>1, ZenonT(30) DEF TypeOK, Calls, Continues, SwapTasks

(* One Dispose is the first; it has all the tasks there will ever be.      *)
LEMMA DisposesStep == QueueAssumption /\ IInv /\ Disposes /\ [Next]_vars => Disposes'
<1> SUFFICES ASSUME QueueAssumption, IInv, Disposes, [Next]_vars PROVE Disposes'
  BY ZenonT(30)
<1>a. /\ op \in [Threads -> {"none", "execute", "schedule", "cancel", "dispose", "again"}]
      /\ step \in [Threads -> Steps] /\ task \in [Threads -> 0..MaxTasks]
      /\ todo \in [Threads -> SUBSET Tasks]
      /\ disposed \in BOOLEAN /\ over \in BOOLEAN /\ Worker \in Threads /\ Worker \notin Users
      /\ Users \subseteq Threads
  BY ZenonT(30) DEF QueueAssumption, IInv, TypeOK, Threads
<1>b. TypeOK /\ Shape /\ Placed
  BY ZenonT(30) DEF IInv
\* A thread that neither becomes the first to dispose nor finishes that.
<1>1. ASSUME NEW h \in Threads,
             \A g \in Threads \ {h} : /\ op'[g] = op[g] /\ step'[g] = step[g]
                                      /\ task'[g] = task[g] /\ todo'[g] = todo[g],
             disposed' = disposed /\ over' = over,
             disposed => tasks' = tasks,
             Past(h)' => Past(h),
             op'[h] = "again" => todo'[h] = {} /\ step'[h] \notin Holding,
             invoked' = invoked /\ own \subseteq own',
             h = Worker /\ op'[h] = "cancel" /\ task'[h] = invoked => invoked \in own'
      PROVE  Disposes'
  <2>1. \A g \in Threads : Past(g)' => Past(g)
    BY <1>1, ZenonT(30) DEF Past
  <2>2. op'[Worker] = "cancel" /\ task'[Worker] = invoked' => invoked' \in own'
    BY <1>1, <1>a, ZenonT(30) DEF Disposes
  <2>3. \A g \in Threads : op'[g] = "again" => todo'[g] = {} /\ step'[g] \notin Holding
    BY <1>1, ZenonT(30) DEF Disposes
  <2> QED
    BY <1>1, <2>1, <2>2, <2>3, ZenonT(30) DEF Disposes
\* The calls are left alone.
<1>2. ASSUME UNCHANGED <<op, step, task, todo, disposed, over, own>>,
             disposed => tasks' = {},
             op[Worker] = "cancel" => invoked' = invoked
      PROVE  Disposes'
  BY <1>2, ZenonT(30) DEF Disposes, Past
<1>3. ASSUME NEW h \in Threads,
             (\E even \in BOOLEAN : Enqueue(h, even)) \/ EnqueueAfterDelay(h) \/ Dispose(h)
      PROVE  Disposes'
  <2>1. UNCHANGED <<disposed, tasks, over, own, invoked>>
    BY <1>3, ZenonT(30) DEF Enqueue, EnqueueAfterDelay, Dispose, executorVars, workerVars, history
  <2>2. op'[h] \notin {"again", "cancel"} /\ ~ Past(h)'
    BY <1>3, <1>a DEF Enqueue, EnqueueAfterDelay, Dispose, Calls, Past
  <2> QED
    BY <1>1, <1>3, <1>b, <2>1, <2>2, OtherCalls, ZenonT(30)
<1>4. ASSUME NEW h \in Threads, NEW t \in Tasks, Cancel(h, t) PROVE Disposes'
  <2>1. UNCHANGED <<disposed, over, invoked>> /\ t \in tasks /\ own \subseteq own'
        /\ (invoked = t => t \in own')
    BY <1>4, <1>b, ZenonT(30) DEF Cancel, workerVars, Placed
  <2>2. op'[h] = "cancel" /\ task'[h] = t
    BY <1>4, <1>a, ZenonT(30) DEF Cancel, Calls
  <2>3. ~ disposed
    BY <2>1, ZenonT(30) DEF Disposes
  <2> QED
    BY <1>1, <1>4, <1>b, <2>1, <2>2, <2>3, OtherCalls, ZenonT(30) DEF Past
<1>5. ASSUME NEW h \in Threads, Insert(h) \/ Dispatch(h) PROVE Disposes'
  <2>1. UNCHANGED <<disposed, over, own, invoked>> /\ (disposed => tasks' = tasks)
    BY <1>5, ZenonT(30) DEF Insert, Dispatch, executorVars, workerVars, history
  <2>2. op'[h] \in {"none", "execute", "schedule"}
    <3>1. op[h] \in {"execute", "schedule"}
      BY <1>5, <1>b, ZenonT(30) DEF Shape, Insert, Dispatch
    <3>2. op'[h] \in {"none", op[h]}
      BY <1>5, <1>a DEF Insert, Dispatch, Returns, Calls
    <3> QED
      BY <3>1, <3>2
  <2> QED
    BY <1>1, <1>5, <1>b, <2>1, <2>2, OtherCalls, ZenonT(30) DEF Past
<1>6. ASSUME NEW h \in Threads, TaskCancel(h) \/ AwaitLocked(h) PROVE Disposes'
  <2>1. /\ UNCHANGED <<disposed, tasks, over, own, invoked, op, task, todo>>
        /\ step[h] \in {"cancel", "wait"}
    BY <1>6, ZenonT(30) DEF TaskCancel, AwaitLocked, Continues, executorVars, workerVars, history
  <2>2. op[h] # "again" /\ (Past(h)' => Past(h))
    BY <2>1, ZenonT(30) DEF Disposes, Holding, Past
  <2> QED
    BY <1>1, <1>6, <1>b, <2>1, <2>2, OtherCalls, ZenonT(30) DEF Disposes
<1>7. ASSUME NEW h \in Threads, Drop(h) PROVE Disposes'
  <2>1. UNCHANGED <<disposed, tasks, over, own, invoked>> /\ step[h] = "drop"
    BY <1>7, ZenonT(30) DEF Drop, executorVars, workerVars
  <2>2. op[h] # "again"
    BY <2>1, ZenonT(30) DEF Disposes, Holding
  <2>3. op'[h] = "none" \/ (op'[h] = op[h] /\ op[h] # "cancel")
    BY <1>7, <1>a, ZenonT(30) DEF Drop, Returns, Calls
  <2>4. Past(h)' => Past(h)
    BY <2>1, <2>3 DEF Past
  <2> QED
    BY <1>1, <1>7, <1>b, <2>1, <2>2, <2>3, <2>4, OtherCalls, ZenonT(30)
<1>8. ASSUME NEW h \in Threads, SwapTasks(h) PROVE Disposes'
  <2>1. /\ step[h] = "swap" /\ disposed' = TRUE /\ tasks' = {} /\ UNCHANGED <<over, own, invoked>>
        /\ step'[h] = "next" /\ todo'[h] = tasks
        /\ op'[h] = IF disposed THEN "again" ELSE "dispose"
    BY <1>8, <1>a, ZenonT(30) DEF SwapTasks, history, workerVars
  <2>2. \A g \in Threads \ {h} : /\ op'[g] = op[g] /\ step'[g] = step[g]
                                 /\ task'[g] = task[g] /\ todo'[g] = todo[g]
    BY <1>8, <1>b, OtherCalls, ZenonT(30)
  <2>3. \A g \in Threads \ {h} : Past(g)' <=> Past(g)
    BY <2>2, ZenonT(30) DEF Past
  <2>4. CASE disposed
    <3>1. ~ Past(h)' /\ todo'[h] = {} /\ step'[h] \notin Holding
      BY <2>1, <2>4, ZenonT(30) DEF Past, Disposes, Holding
    <3>2. op'[Worker] = "cancel" => op[Worker] = "cancel" /\ task'[Worker] = task[Worker]
      BY <1>a, <2>1, <2>2, <2>4
    <3> QED
      BY <2>1, <2>2, <2>3, <2>4, <3>1, <3>2, ZenonT(30) DEF Disposes
  <2>5. CASE ~ disposed
    <3>1. ~ over /\ \A g \in Threads : ~ Past(g)
      BY <2>5, ZenonT(30) DEF Disposes
    <3>2. op'[h] = "dispose"
      BY <2>1, <2>5, ZenonT(30)
    <3>3. op'[Worker] = "cancel" => op[Worker] = "cancel" /\ task'[Worker] = task[Worker]
      BY <1>a, <2>2, <3>2
    <3>4. \A g \in Threads : op'[g] = "again" => todo'[g] = {} /\ step'[g] \notin Holding
      BY <2>2, <3>2, ZenonT(30) DEF Disposes
    <3> QED
      BY <2>1, <2>3, <3>1, <3>3, <3>4, ZenonT(30) DEF Disposes
  <2> QED
    BY <2>4, <2>5, ZenonT(30)
<1>9. ASSUME NEW h \in Threads, DisposeNext(h) PROVE Disposes'
  <2>1. /\ step[h] = "next" /\ UNCHANGED <<disposed, tasks, own, invoked>>
        /\ op[h] \in {"dispose", "again"}
    BY <1>9, <1>b, ZenonT(30) DEF DisposeNext, executorVars, workerVars, Shape
  <2>2. \A g \in Threads \ {h} : /\ op'[g] = op[g] /\ step'[g] = step[g]
                                 /\ task'[g] = task[g] /\ todo'[g] = todo[g]
    BY <1>9, <1>b, OtherCalls, ZenonT(30)
  <2>3. CASE todo[h] = {}
    <3>1. op'[h] = "none" /\ over' = (over \/ (h \in Users /\ op[h] = "dispose"))
      BY <1>9, <1>a, <2>3, ZenonT(30) DEF DisposeNext, Returns, Calls
    <3>2. CASE op[h] = "dispose"
      <4>1. Past(h)
        BY <2>1, <3>2 DEF Past
      <4>2. \A g \in Threads : ~ Past(g)'
        BY <2>2, <3>1, <4>1, ZenonT(30) DEF Past, Disposes
      <4>3. \A g \in Threads : op'[g] = "again" => todo'[g] = {} /\ step'[g] \notin Holding
        BY <2>2, <3>1 DEF Disposes
      <4>4. op'[Worker] = "cancel" => op[Worker] = "cancel" /\ task'[Worker] = task[Worker]
        BY <1>a, <2>2, <3>1
      <4> QED
        BY <2>1, <4>1, <4>2, <4>3, <4>4, ZenonT(30) DEF Disposes
    <3>3. CASE op[h] = "again"
      <4>1. over' = over
        BY <3>1, <3>3, <1>a
      <4> QED
        BY <1>1, <2>1, <2>2, <3>1, <4>1, ZenonT(30) DEF Past
    <3> QED
      BY <2>1, <3>2, <3>3
  <2>4. CASE todo[h] # {}
    <3>1. op[h] # "again" /\ UNCHANGED <<op, over>>
      BY <1>9, <2>4, ZenonT(30) DEF DisposeNext, Disposes
    <3>2. Past(h)' => Past(h)
      BY <2>1, <3>1 DEF Past
    <3> QED
      BY <1>1, <2>1, <2>2, <3>1, <3>2, ZenonT(30)
  <2> QED
    BY <2>3, <2>4, ZenonT(30)
<1>10. ASSUME InvokeAsync \/ Release PROVE Disposes'
  <2>1. UNCHANGED <<op, step, task, todo, disposed, tasks, over, own>> /\ phase # "operation"
    BY <1>10, ZenonT(30) DEF InvokeAsync, Release, executorVars, callVars, history
  <2>2. op[Worker] # "cancel"
    BY <1>a, <1>b, <2>1, ZenonT(30) DEF Shape
  <2> QED
    BY <1>2, <2>1, <2>2, ZenonT(30) DEF Disposes
<1>11. CASE OnCompletion
  <2>1. UNCHANGED <<op, step, task, todo, disposed, over, own, invoked>> /\ tasks' \subseteq tasks
    BY <1>11, ZenonT(30) DEF OnCompletion, callVars, history
  <2> QED
    BY <1>2, <2>1, ZenonT(30) DEF Disposes
<1>12. ASSUME Execute \/ Complete \/ EnterRestrictedMode \/ (\E t \in Tasks : Due(t)) \/ UNCHANGED vars
       PROVE  Disposes'
  <2>1. UNCHANGED <<op, step, task, todo, disposed, tasks, over, own, invoked>>
    BY <1>12, ZenonT(30) DEF Execute, Complete, EnterRestrictedMode, Due, vars, executorVars, workerVars,
       callVars, history
  <2> QED
    BY <1>2, <2>1, ZenonT(30) DEF Disposes
<1> QED
  BY <1>3, <1>4, <1>5, <1>6, <1>7, <1>8, <1>9, <1>10, <1>11, <1>12, Actions, ZenonT(30)

(* Who holds a task that a Dispose has to find.                            *)
LEMMA Holders ==
  ASSUME QueueAssumption, IInv, Disposes, disposed, NEW t \in Tasks, ByExecutor(t)
  PROVE  \E h \in Threads :
           t \in HeldBy(h) /\ (Past(h) \/ (h = Worker /\ op[h] = "cancel" /\ task[h] = t))
<1>1. PICK h \in Threads : t \in HeldBy(h)
  BY ZenonT(30) DEF Disposes, ByExecutor
<1>2. CASE t \in todo[h]
  <2>1. op[h] = "dispose" /\ step[h] # "swap"
    BY <1>2, ZenonT(30) DEF IInv, Shape, Disposes
  <2> QED
    BY <1>1, <2>1, ZenonT(30) DEF Past
<1>3. CASE step[h] \in Holding /\ t = task[h]
  <2>1. op[h] \in {"cancel", "dispose"} /\ (op[h] = "cancel" => h = Worker)
    BY <1>3, ZenonT(30) DEF IInv, Shape, Disposes
  <2>2. op[h] = "dispose" => Past(h)
    BY <1>3 DEF Past, Holding
  <2> QED
    BY <1>1, <1>3, <2>1, <2>2, ZenonT(30)
<1> QED
  BY <1>1, <1>2, <1>3, ZenonT(30) DEF HeldBy, Holding

(* A task leaves the hands of the executor when a call that cancelled it   *)
(* lets go of it, and when it completes.                                   *)
LEMMA Owned ==
  ASSUME QueueAssumption, IInv, [Next]_vars, NEW t \in Tasks, ByExecutor(t), ~ ByExecutor(t)'
  PROVE  \/ \E h \in Threads : Drop(h) /\ t = task[h]
         \/ OnCompletion /\ t = invoked
<1>a. TypeOK /\ Shape /\ Placed /\ Apart
  BY ZenonT(30) DEF IInv
<1>b. /\ op \in [Threads -> {"none", "execute", "schedule", "cancel", "dispose", "again"}]
      /\ step \in [Threads -> Steps]
      /\ task \in [Threads -> 0..MaxTasks] /\ todo \in [Threads -> SUBSET Tasks]
  BY <1>a, ZenonT(30) DEF TypeOK
<1>c. ASSUME \A g \in Threads : HeldBy(g) \subseteq HeldBy(g)', tasks \subseteq tasks' PROVE FALSE
  BY <1>c, ZenonT(30) DEF ByExecutor
<1>1. ~ Quiet
  <2> SUFFICES ASSUME Quiet PROVE FALSE
    BY ZenonT(30)
  <2> QED
    BY <1>c, QuietIsQuiet, ZenonT(30) DEF QuietStep
<1>2. ASSUME NEW h \in Threads, Insert(h) \/ Dispatch(h) PROVE FALSE
  <2>1. \A g \in Threads : HeldBy(g)' = HeldBy(g)
    BY <1>2, <1>b DEF Insert, Dispatch, Calls, Returns, HeldBy
  <2>2. tasks \subseteq tasks'
    BY <1>2, ZenonT(30) DEF Insert, Dispatch, executorVars
  <2> QED
    BY <1>c, <2>1, <2>2, ZenonT(30)
<1>3. ASSUME NEW h \in Threads, NEW u \in Tasks, Cancel(h, u) PROVE FALSE
  <2>1. tasks' = tasks \ {u}
    BY <1>3, ZenonT(30) DEF Cancel
  <2>2. HeldBy(h)' = HeldBy(h) \cup {u} /\ \A g \in Threads : g # h => HeldBy(g)' = HeldBy(g)
    BY <1>3, <1>b, ZenonT(30) DEF Cancel, CanCall, Calls, HeldBy
  <2> QED
    BY <2>1, <2>2, ZenonT(30) DEF ByExecutor
<1>4. ASSUME NEW h \in Threads, Drop(h) PROVE t = task[h]
  <2>1. \A g \in Threads : HeldBy(g) \ {task[h]} \subseteq HeldBy(g)'
    BY <1>4, <1>b DEF Drop, Calls, Returns, HeldBy
  <2>2. tasks' = tasks
    BY <1>4, ZenonT(30) DEF Drop, executorVars
  <2> QED
    BY <2>1, <2>2, ZenonT(30) DEF ByExecutor
<1>5. ASSUME NEW h \in Threads, SwapTasks(h) PROVE FALSE
  <2>1. /\ step[h] = "swap" /\ step' = [step EXCEPT ![h] = "next"]
        /\ todo' = [todo EXCEPT ![h] = tasks] /\ task' = task
    BY <1>5, ZenonT(30) DEF SwapTasks
  <2>2. todo[h] = {}
    BY <1>a, <2>1, ZenonT(30) DEF Shape
  <2>3. tasks \subseteq HeldBy(h)' /\ \A g \in Threads : HeldBy(g) \subseteq HeldBy(g)'
    BY <1>b, <2>1, <2>2 DEF HeldBy
  <2> QED
    BY <2>3, ZenonT(30) DEF ByExecutor
<1>6. ASSUME NEW h \in Threads, DisposeNext(h) PROVE FALSE
  <2>1. \A g \in Threads : HeldBy(g)' = HeldBy(g)
    BY <1>6, <1>b DEF DisposeNext, Calls, Returns, HeldBy
  <2>2. tasks' = tasks
    BY <1>6, ZenonT(30) DEF DisposeNext, executorVars
  <2> QED
    BY <1>c, <2>1, <2>2, ZenonT(30)
<1>7. ASSUME InvokeAsync \/ Release \/ (\E u \in Tasks : Due(u)) PROVE FALSE
  <2>1. UNCHANGED <<tasks, step, task, todo>>
    BY <1>7, ZenonT(30) DEF InvokeAsync, Release, Due, executorVars, callVars
  <2> QED
    BY <1>c, <2>1, ZenonT(30) DEF HeldBy
<1>8. ASSUME OnCompletion PROVE t = invoked
  <2>1. UNCHANGED <<step, task, todo>> /\ tasks \ {invoked} \subseteq tasks'
    BY <1>8, ZenonT(30) DEF OnCompletion, callVars
  <2> QED
    BY <2>1, ZenonT(30) DEF ByExecutor, HeldBy
<1> QED
  BY <1>1, <1>2, <1>3, <1>4, <1>5, <1>6, <1>7, <1>8, Actions, ZenonT(30) DEF Quiet

(* That an operation was the first to dispose stays so.                    *)
LEMMA WorkerStays ==
  ASSUME QueueAssumption, IInv, Disposes, Disposes', [Next]_vars, WorkerDisposed
  PROVE  WorkerDisposed'
<1>a. /\ op \in [Threads -> {"none", "execute", "schedule", "cancel", "dispose", "again"}]
      /\ step \in [Threads -> Steps] /\ Users \subseteq Threads /\ TypeOK
      /\ over \in BOOLEAN /\ disposed \in BOOLEAN
  BY ZenonT(30) DEF IInv, TypeOK, Threads
<1>1. disposed' /\ ~ over'
  <2>1. ASSUME NEW h \in Threads, DisposeNext(h) PROVE disposed' /\ ~ over'
    <3>1. step[h] = "next" /\ disposed' = disposed
      BY <2>1, ZenonT(30) DEF DisposeNext, executorVars
    <3>2. ~ (h \in Users /\ op[h] = "dispose")
      BY <3>1 DEF WorkerDisposed, Past
    <3>3. over' = over \/ over' = (over \/ (h \in Users /\ op[h] = "dispose"))
      BY <2>1, ZenonT(30) DEF DisposeNext
    <3> QED
      BY <1>a, <3>1, <3>2, <3>3 DEF WorkerDisposed
  <2>2. ASSUME NEW h \in Threads, SwapTasks(h) PROVE disposed' /\ ~ over'
    BY <2>2, ZenonT(30) DEF SwapTasks, history, WorkerDisposed
  <2>3. \/ (disposed' = disposed /\ over' = over)
        \/ \E h \in Threads : DisposeNext(h) \/ SwapTasks(h)
    BY Actions, ZenonT(30) DEF Enqueue, EnqueueAfterDelay, Dispose, Cancel, Insert, Dispatch, TaskCancel,
       AwaitLocked, Drop, InvokeAsync, Execute, Complete, OnCompletion, Release, EnterRestrictedMode,
       Due, vars, executorVars, history
  <2>4. disposed' = disposed /\ over' = over => disposed' /\ ~ over'
    BY <1>a DEF WorkerDisposed
  <2> QED
    BY <2>1, <2>2, <2>3, <2>4, ZenonT(30)
<1>2. ASSUME NEW g \in Users, Past(g)' PROVE FALSE
  <2>1. g \in Threads /\ ~ Past(g) /\ op'[g] = "dispose" /\ step'[g] # "swap"
    BY <1>a, <1>2, ZenonT(30) DEF WorkerDisposed, Past
  <2>2. ASSUME NEW h \in Threads,
               \/ \E even \in BOOLEAN : Enqueue(h, even)
               \/ EnqueueAfterDelay(h) \/ Dispose(h) \/ (\E t \in Tasks : Cancel(h, t))
               \/ Insert(h) \/ Dispatch(h) \/ TaskCancel(h) \/ AwaitLocked(h)
               \/ Drop(h) \/ SwapTasks(h) \/ DisposeNext(h)
        PROVE  FALSE
    <3>1. g = h
      BY <1>a, <2>1, <2>2, OtherCalls, ZenonT(30) DEF Past
    <3>2. CASE (\E even \in BOOLEAN : Enqueue(h, even)) \/ EnqueueAfterDelay(h)
      BY <1>a, <2>1, <3>1, <3>2, ZenonT(30) DEF Enqueue, EnqueueAfterDelay, Calls
    <3>3. CASE Dispose(h) \/ (\E t \in Tasks : Cancel(h, t))
      BY <1>a, <2>1, <3>1, <3>3 DEF Dispose, Cancel, Calls
    <3>4. CASE Insert(h) \/ Dispatch(h)
      <4>1. op[h] # "dispose" /\ op'[h] \in {"none", op[h]}
        <5>1. op[h] \in {"execute", "schedule"}
          BY <3>4, ZenonT(30) DEF Insert, Dispatch, IInv, Shape
        <5>2. op'[h] \in {"none", op[h]}
          BY <1>a, <3>4 DEF Insert, Dispatch, Calls, Returns
        <5> QED
          BY <5>1, <5>2
      <4> QED
        BY <2>1, <3>1, <4>1
    <3>5. CASE TaskCancel(h) \/ AwaitLocked(h) \/ Drop(h) \/ DisposeNext(h)
      <4>1. step[h] # "swap" /\ (op'[h] = op[h] \/ op'[h] = "none")
        BY <1>a, <3>5 DEF TaskCancel, AwaitLocked, Drop, DisposeNext, Continues, Calls, Returns
      <4> QED
        BY <2>1, <3>1, <4>1, ZenonT(30) DEF Past
    <3>6. CASE SwapTasks(h)
      <4>1. op'[h] = "again"
        BY <1>a, <3>6, ZenonT(30) DEF SwapTasks, WorkerDisposed
      <4> QED
        BY <2>1, <3>1, <4>1
    <3> QED
      BY <2>2, <3>2, <3>3, <3>4, <3>5, <3>6, ZenonT(30)
  <2>3. CASE UNCHANGED <<op, step>>
    BY <2>1, <2>3, ZenonT(30) DEF Past
  <2>4. ASSUME \/ InvokeAsync \/ Execute \/ Complete \/ OnCompletion \/ Release \/ EnterRestrictedMode
               \/ (\E t \in Tasks : Due(t)) \/ UNCHANGED vars
        PROVE  UNCHANGED <<op, step>>
    BY <2>4, ZenonT(30) DEF InvokeAsync, Execute, Complete, OnCompletion, Release, EnterRestrictedMode,
       Due, vars, callVars
  <2> QED
    BY <2>2, <2>3, <2>4, Actions, ZenonT(30)
<1> QED
  BY <1>1, <1>2, ZenonT(30) DEF WorkerDisposed

(* The worker starts a task.                                               *)
Starts(t) == Execute /\ t = invoked /\ state[t] = "initial" /\ phase = "begin" /\ invoked \in 1..created

(* An operation runs only because the worker started its task.             *)
LEMMA OnlyExecuteStarts ==
  ASSUME QueueAssumption, IInv, [Next]_vars, NEW t \in Tasks, state'[t] = "running", state[t] # "running"
  PROVE  Starts(t)
<1>a. /\ 1..created \subseteq Tasks /\ (created # MaxTasks => created + 1 \in Tasks)
      /\ (phase # "none" => invoked \in 1..created)
      /\ (\A h \in Threads : step[h] \in Holding => task[h] \in Tasks)
      /\ state \in [Tasks -> {"initial", "cancelled", "running", "done"}]
  <2>1. 1..created \subseteq Tasks /\ (created # MaxTasks => created + 1 \in Tasks)
    BY DEF QueueAssumption, IInv, TypeOK, Tasks
  <2> QED
    BY <2>1, ZenonT(30) DEF IInv, TypeOK, Shape
<1>1. ASSUME NEW h \in Threads, Insert(h) PROVE FALSE
  <2>1. \/ UNCHANGED state
        \/ created + 1 \in Tasks /\ state' = [state EXCEPT ![created + 1] = "initial"]
    BY <1>1, <1>a, ZenonT(30) DEF Insert
  <2> QED
    BY <1>a, <2>1, ZenonT(30)
<1>2. ASSUME NEW h \in Threads, TaskCancel(h) PROVE FALSE
  <2>1. UNCHANGED state \/ (task[h] \in Tasks /\ state' = [state EXCEPT ![task[h]] = "cancelled"])
    BY <1>a, <1>2, ZenonT(30) DEF TaskCancel, Holding
  <2> QED
    BY <1>a, <2>1, ZenonT(30)
<1>3. ASSUME Complete PROVE FALSE
  <2>1. invoked \in Tasks /\ state' = [state EXCEPT ![invoked] = "done"]
    BY <1>a, <1>3, ZenonT(30) DEF Complete
  <2> QED
    BY <1>a, <2>1, ZenonT(30)
<1>4. ASSUME Execute PROVE Starts(t)
  <2>1. phase = "begin" /\ invoked \in 1..created /\ invoked \in Tasks
    BY <1>a, <1>4, ZenonT(30) DEF Execute
  <2>2. state[invoked] = "initial" /\ state' = [state EXCEPT ![invoked] = "running"]
    BY <1>4, ZenonT(30) DEF Execute
  <2> QED
    BY <1>4, <1>a, <2>1, <2>2, ZenonT(30) DEF Starts
<1>5. \/ UNCHANGED state \/ Execute \/ Complete \/ \E h \in Threads : TaskCancel(h) \/ Insert(h)
  BY Actions, ZenonT(30) DEF Enqueue, EnqueueAfterDelay, Dispose, Cancel, Dispatch,
     AwaitLocked, Drop, SwapTasks, DisposeNext, InvokeAsync, OnCompletion,
     Release, EnterRestrictedMode, Due, vars, taskVars
<1> QED
  BY <1>1, <1>2, <1>3, <1>4, <1>5, ZenonT(30)

(* A task that may still run is where a Dispose finds it.                  *)
LEMMA UnfinishedStep ==
  ASSUME QueueAssumption, IInv, Runs, Cancels, Disposes, Disposes', Unfinished, [Next]_vars
  PROVE  Unfinished'
<1>a. /\ 1..created \subseteq Tasks /\ (created # MaxTasks => created + 1 \in Tasks)
      /\ (phase # "none" => invoked \in 1..created)
      /\ (\A h \in Threads : step[h] \in Holding => task[h] \in 1..created)
      /\ state \in [Tasks -> {"initial", "cancelled", "running", "done"}]
      /\ Users \subseteq Threads /\ Worker \in Threads /\ Worker \notin Users
      /\ created \in Nat /\ TypeOK
  <2>1. /\ 1..created \subseteq Tasks /\ (created # MaxTasks => created + 1 \in Tasks)
        /\ created \in Nat
    BY DEF QueueAssumption, IInv, TypeOK, Tasks
  <2> QED
    BY <2>1, ZenonT(30) DEF QueueAssumption, IInv, TypeOK, Shape, Threads
\* What the executor gives up has ended, or is cancelled by its operation.
<1>1. ASSUME NEW t \in Tasks, ByExecutor(t), ~ ByExecutor(t)'
      PROVE  /\ state[t] # "initial" /\ state'[t] # "initial"
             /\ state[t] = "running" => t \in own \/ WorkerDisposed
             /\ state'[t] = state[t]
  <2>1. ASSUME NEW h \in Threads, Drop(h), t = task[h]
        PROVE  /\ state[t] # "initial" /\ state'[t] = state[t]
               /\ state[t] = "running" => t \in own \/ WorkerDisposed
    <3>1. step[h] = "drop" /\ UNCHANGED state
      BY <2>1, ZenonT(30) DEF Drop
    <3>2. state[t] # "initial" /\ (Ended(t) \/ (h = Worker /\ invoked = t))
      BY <2>1, <3>1, ZenonT(30) DEF Cancels
    <3>3. ASSUME h = Worker, invoked = t PROVE t \in own \/ WorkerDisposed
      <4>1. op[h] \in {"cancel", "dispose"}
        BY <3>1, ZenonT(30) DEF IInv, Shape, Disposes, Holding
      <4>2. op[h] = "cancel" => t \in own
        BY <2>1, <3>3, ZenonT(30) DEF Disposes
      <4>3. ASSUME op[h] = "dispose" PROVE WorkerDisposed
        <5>1. Past(h)
          BY <3>1, <4>3 DEF Past
        <5> QED
          BY <1>a, <3>3, <5>1, ZenonT(30) DEF Disposes, WorkerDisposed
      <4> QED
        BY <4>1, <4>2, <4>3
    <3> QED
      BY <3>1, <3>2, <3>3 DEF Ended
  <2>2. ASSUME OnCompletion, t = invoked PROVE state[t] = "done" /\ state'[t] = state[t]
    BY <2>2, ZenonT(30) DEF OnCompletion, Runs
  <2>3. (\E h \in Threads : Drop(h) /\ t = task[h]) \/ (OnCompletion /\ t = invoked)
    BY <1>1, Owned, ZenonT(30)
  <2> QED
    BY <2>1, <2>2, <2>3
<1>2. ASSUME NEW t \in 1..created', state'[t] = "initial" PROVE ByExecutor(t)'
  <2>1. CASE t \in 1..created /\ state[t] = "initial"
    BY <1>1, <1>2, <1>a, <2>1, ZenonT(30) DEF Unfinished
  <2>2. CASE ~ (t \in 1..created /\ state[t] = "initial")
    <3>1. ASSUME NEW h \in Threads, Insert(h) PROVE ByExecutor(t)'
      <4>1. \/ UNCHANGED <<created, state>>
            \/ /\ created' = created + 1 /\ created # MaxTasks
               /\ state' = [state EXCEPT ![created + 1] = "initial"]
               /\ created + 1 \in tasks'
        BY <3>1, ZenonT(30) DEF Insert
      <4>2. t = created + 1 /\ created + 1 \in tasks'
        <5>1. CASE UNCHANGED <<created, state>>
          BY <1>2, <2>2, <5>1, ZenonT(30)
        <5>2. CASE /\ created' = created + 1 /\ created # MaxTasks
                   /\ state' = [state EXCEPT ![created + 1] = "initial"]
                   /\ created + 1 \in tasks'
          <6>1. t \in 1..created \/ t = created + 1
            BY <1>2, <1>a, <5>2
          <6>2. t # created + 1 => state'[t] = state[t]
            BY <1>a, <5>2, <6>1, ZenonT(30)
          <6> QED
            BY <1>2, <2>2, <5>2, <6>1, <6>2, ZenonT(30)
        <5> QED
          BY <4>1, <5>1, <5>2, ZenonT(30)
      <4> QED
        BY <4>2, ZenonT(30) DEF ByExecutor
    <3>2. CASE created' = created /\ \A u \in Tasks : state'[u] = "initial" => state[u] = "initial"
      BY <1>2, <1>a, <2>2, <3>2, ZenonT(30)
    <3>3. ASSUME ~ \E h \in Threads : Insert(h)
          PROVE  created' = created /\ \A u \in Tasks : state'[u] = "initial" => state[u] = "initial"
      <4>1. created' = created
        BY <3>3, Actions, ZenonT(30) DEF Enqueue, EnqueueAfterDelay, Dispose, Cancel, Dispatch, TaskCancel,
           AwaitLocked, Drop, SwapTasks, DisposeNext, InvokeAsync, Execute, Complete, OnCompletion,
           Release, EnterRestrictedMode, Due, vars
      <4>2. \/ UNCHANGED state
            \/ \E v \in {"cancelled", "running", "done"} :
                 \E u \in Tasks : state' = [state EXCEPT ![u] = v]
        <5>1. ASSUME NEW h \in Threads, TaskCancel(h)
              PROVE  \/ UNCHANGED state
                     \/ task[h] \in Tasks /\ state' = [state EXCEPT ![task[h]] = "cancelled"]
          BY <1>a, <5>1, ZenonT(30) DEF TaskCancel, Holding
        <5>2. ASSUME Execute
              PROVE  \/ UNCHANGED state
                     \/ invoked \in Tasks /\ state' = [state EXCEPT ![invoked] = "running"]
          BY <1>a, <5>2 DEF Execute
        <5>3. ASSUME Complete
              PROVE  invoked \in Tasks /\ state' = [state EXCEPT ![invoked] = "done"]
          BY <1>a, <5>3 DEF Complete
        <5>4. \/ UNCHANGED state \/ Execute \/ Complete \/ \E h \in Threads : TaskCancel(h)
          BY <3>3, Actions, ZenonT(30) DEF Enqueue, EnqueueAfterDelay, Dispose, Cancel, Dispatch,
             AwaitLocked, Drop, SwapTasks, DisposeNext, InvokeAsync, OnCompletion,
             Release, EnterRestrictedMode, Due, vars, taskVars
        <5> QED
          BY <5>1, <5>2, <5>3, <5>4, ZenonT(30)
      <4> QED
        BY <1>a, <4>1, <4>2
    <3> QED
      BY <3>1, <3>2, <3>3, ZenonT(30)
  <2> QED
    BY <2>1, <2>2, ZenonT(30)
<1>3. ASSUME NEW t \in Tasks, state'[t] = "running"
      PROVE  ByExecutor(t)' \/ t \in own' \/ WorkerDisposed'
  <2>1. own \subseteq own'
    BY Actions, ZenonT(30) DEF Enqueue, EnqueueAfterDelay, Dispose, Cancel, Insert, Dispatch, TaskCancel,
       AwaitLocked, Drop, SwapTasks, DisposeNext, InvokeAsync, Execute, Complete, OnCompletion,
       Release, EnterRestrictedMode, Due, vars, history
  <2>2. CASE state[t] = "running"
    <3>1. ByExecutor(t) => ByExecutor(t)' \/ t \in own \/ WorkerDisposed
      BY <1>1, <2>2, ZenonT(30)
    <3> QED
      BY <2>1, <2>2, <3>1, WorkerStays, ZenonT(30) DEF Unfinished
  <2>3. CASE state[t] # "running"
    <3>1. Starts(t)
      BY <1>3, <1>a, <2>3, OnlyExecuteStarts, ZenonT(30)
    <3>2. ByExecutor(t)
      BY <1>a, <3>1, ZenonT(30) DEF Unfinished, Starts
    <3>3. ByExecutor(t)'
      BY <1>1, <3>1, <3>2, ZenonT(30) DEF Starts
    <3> QED
      BY <3>3, ZenonT(30)
  <2> QED
    BY <2>2, <2>3, ZenonT(30)
<1> QED
  BY <1>2, <1>3, ZenonT(30) DEF Unfinished

(* When the first Dispose from outside returns nothing runs but a task its *)
(* own operation has cancelled, and nothing starts afterwards.             *)
LEMMA FinalStep ==
  ASSUME QueueAssumption, IInv, Runs, Disposes, Unfinished, DisposeIsFinal, [Next]_vars
  PROVE  DisposeIsFinal'
<1> SUFFICES ASSUME over', NEW t \in Tasks, state'[t] = "running" PROVE t \in own'
  BY ZenonT(30) DEF DisposeIsFinal
<1>a. /\ Users \subseteq Threads /\ Worker \in Threads /\ over \in BOOLEAN /\ 1..created \subseteq Tasks
  BY DEF QueueAssumption, IInv, TypeOK, Threads, Tasks
<1>1. own \subseteq own'
  BY Actions, ZenonT(30) DEF Enqueue, EnqueueAfterDelay, Dispose, Cancel, Insert, Dispatch, TaskCancel,
     AwaitLocked, Drop, SwapTasks, DisposeNext, InvokeAsync, Execute, Complete, OnCompletion,
     Release, EnterRestrictedMode, Due, vars, history
<1>2. CASE over
  <2>1. ASSUME state[t] # "running" PROVE FALSE
    <3>1. Starts(t)
      BY <2>1, OnlyExecuteStarts, ZenonT(30)
    <3>2. ByExecutor(t) /\ disposed
      BY <1>2, <3>1, ZenonT(30) DEF Unfinished, Starts, Disposes
    <3>3. PICK h \in Threads :
            t \in HeldBy(h) /\ (Past(h) \/ (h = Worker /\ op[h] = "cancel" /\ task[h] = t))
      BY <3>2, Holders, ZenonT(30)
    <3>4. ~ Past(h)
      BY <1>2, ZenonT(30) DEF Disposes
    <3>5. step[Worker] = "none" /\ op[Worker] = "none"
      BY <1>a, <3>1 DEF Starts, IInv, Shape
    <3> QED
      BY <3>3, <3>4, <3>5
  <2> QED
    BY <1>1, <1>2, <2>1, ZenonT(30) DEF DisposeIsFinal
<1>3. CASE ~ over
  <2>1. PICK h \in Threads : DisposeNext(h) /\ over' # over
    <3>1. over' # over
      BY <1>3, <1>a, ZenonT(30)
    <3> QED
      BY <3>1, Actions, ZenonT(30) DEF Enqueue, EnqueueAfterDelay, Dispose, Cancel, Insert, Dispatch,
         TaskCancel, AwaitLocked, Drop, SwapTasks, InvokeAsync, Execute, Complete, OnCompletion,
         Release, EnterRestrictedMode, Due, vars, history
  <2>2. step[h] = "next" /\ todo[h] = {} /\ over' = (over \/ (h \in Users /\ op[h] = "dispose"))
        /\ UNCHANGED <<state, own>>
    BY <2>1, ZenonT(30) DEF DisposeNext, taskVars
  <2>3. h \in Users /\ op[h] = "dispose"
    BY <1>3, <2>2, ZenonT(30)
  <2>4. Past(h) /\ disposed /\ ~ WorkerDisposed
    <3>1. Past(h)
      BY <2>2, <2>3 DEF Past
    <3> QED
      BY <2>3, <3>1, ZenonT(30) DEF Disposes, WorkerDisposed
  <2>5. state[t] = "running" /\ invoked = t
    BY <2>2, ZenonT(30) DEF Runs
  <2>6. ByExecutor(t) => t \in own
    <3> SUFFICES ASSUME ByExecutor(t) PROVE t \in own
      BY ZenonT(30)
    <3>1. PICK g \in Threads :
            t \in HeldBy(g) /\ (Past(g) \/ (g = Worker /\ op[g] = "cancel" /\ task[g] = t))
      BY <2>4, Holders, ZenonT(30)
    <3>2. t \notin HeldBy(h)
      BY <2>2 DEF HeldBy
    <3>3. g = Worker /\ op[g] = "cancel" /\ task[g] = t
      BY <2>4, <3>1, <3>2, ZenonT(30) DEF Disposes
    <3> QED
      BY <2>5, <3>3, ZenonT(30) DEF Disposes
  <2> QED
    BY <2>2, <2>4, <2>5, <2>6, ZenonT(30) DEF Unfinished
<1> QED
  BY <1>2, <1>3, ZenonT(30)

(* What is known of calls that cancel tasks, in every state.               *)
CancelInv == Runs /\ Cancels /\ Disposes /\ Unfinished /\ DisposeIsFinal

(* It holds in every state of the queue.                                   *)
THEOREM CancelInductive == ASSUME QueueAssumption PROVE Spec => []CancelInv
<1>1. Init => CancelInv
  <2> SUFFICES ASSUME Init PROVE CancelInv
    BY ZenonT(30)
  <2>1. Runs
    BY DEF Init, Runs
  <2>2. Cancels /\ Disposes /\ DisposeIsFinal
    BY DEF Init, Cancels, Disposes, DisposeIsFinal, Past, Holding, Threads
  <2>3. Unfinished
    BY DEF Init, Unfinished
  <2> QED
    BY <2>1, <2>2, <2>3, ZenonT(30) DEF CancelInv
<1>2. QueueAssumption /\ IInv /\ CancelInv /\ [Next]_vars => CancelInv'
  <2> SUFFICES ASSUME QueueAssumption, IInv, CancelInv, [Next]_vars PROVE CancelInv'
    BY ZenonT(30)
  <2>1. Runs /\ Cancels /\ Disposes /\ Unfinished /\ DisposeIsFinal
    BY ZenonT(30) DEF CancelInv
  <2>2. Runs' /\ Cancels' /\ Disposes'
    BY <2>1, RunsStep, CancelsStep, DisposesStep, ZenonT(30)
  <2>3. Unfinished' /\ DisposeIsFinal'
    BY <2>1, <2>2, UnfinishedStep, FinalStep, ZenonT(30)
  <2> QED
    BY <2>2, <2>3, ZenonT(30) DEF CancelInv
<1> QED
  BY <1>1, <1>2, Inductive, PTL DEF Spec

(* By the time a Cancel has returned the operation does not run and the    *)
(* task does not call the executor back; and once the first Dispose from   *)
(* outside has returned no operation runs or starts, but one that has      *)
(* cancelled its own task.                                                 *)
THEOREM CancelledIsOver == ASSUME QueueAssumption PROVE Spec => [](NotAfterCancel /\ DisposeIsFinal)
<1>1. CancelInv => NotAfterCancel /\ DisposeIsFinal
  <2> SUFFICES ASSUME CancelInv PROVE NotAfterCancel
    BY ZenonT(30) DEF CancelInv
  <2>1. \A t \in kept : state[t] # "running"
    BY DEF CancelInv, Cancels, Ended
  <2>2. phase = "done" /\ invoked \in kept => invoked \notin reports
    BY ZenonT(30) DEF CancelInv, Cancels, MayReport
  <2> QED
    BY <2>1, <2>2, ZenonT(30) DEF NotAfterCancel
<1> QED
  BY <1>1, CancelInductive, PTL
=============================================================================
