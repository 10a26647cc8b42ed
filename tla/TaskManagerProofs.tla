------------------------- MODULE TaskManagerProofs -------------------------
(***************************************************************************)
(* Proofs about TaskManager for every task list: any number of tasks, any  *)
(* set of interrupt tasks, any relation of who queues whom.                *)
(***************************************************************************)
EXTENDS TaskManager, TLAPS

(* The inductive invariant.  OnlyIsrTasksLost alone is not inductive: a    *)
(* store from the register keeps the other tasks only if the register held *)
(* them (ScanInv), and a copy of queued_tasks over pending_tasks keeps     *)
(* them only if the stale bits are queued too (StalePendingQueued).        *)
IInv ==
  /\ TypeOK
  /\ OnlyIsrTasksLost
  /\ StalePendingQueued
  /\ IdleMeansNoWork
  /\ ScanInv

LEMMA InitIInv == Init => IInv
  BY TaskConstants
  DEF Init, IInv, TypeOK, OnlyIsrTasksLost, StalePendingQueued,
      IdleMeansNoWork, ScanInv, Tasks, NoTask

LEMMA NextIInv == IInv /\ [Next]_vars => IInv'
<1> SUFFICES ASSUME IInv, [Next]_vars PROVE IInv'
  OBVIOUS
<1> USE TaskConstants DEF IInv, TypeOK, OnlyIsrTasksLost, StalePendingQueued,
      IdleMeansNoWork, ScanInv, Tasks, NoTask
<1>1. CASE Poll
  BY <1>1 DEF Poll
<1>2. CASE Take
  BY <1>2 DEF Take
<1>3. CASE Start
  BY <1>3 DEF Start
<1>4. CASE Skip
  BY <1>4 DEF Skip
<1>5. CASE Return
  BY <1>5 DEF Return
<1>6. CASE IdleReturn
  BY <1>6 DEF IdleReturn
<1>7. ASSUME NEW t \in Tasks, QueueLoad(t) PROVE IInv'
  BY <1>7 DEF QueueLoad
<1>8. CASE QueueStore
  BY <1>8 DEF QueueStore
<1>9. CASE NextTask
  BY <1>9 DEF NextTask
<1>10. CASE Preempt
  BY <1>10 DEF Preempt
<1>11. CASE Requeue
  BY <1>11 DEF Requeue
<1>12. CASE Reset
  BY <1>12 DEF Reset
<1>13. ASSUME NEW t \in IsrTasks, Interrupt(t) PROVE IInv'
  BY <1>13 DEF Interrupt
<1>14. CASE UNCHANGED vars
  BY <1>14 DEF vars
<1> QED
  BY <1>1, <1>2, <1>3, <1>4, <1>5, <1>6, <1>7, <1>8, <1>9, <1>10, <1>11,
     <1>12, <1>13, <1>14 DEF Next, Thread

(* The whole invariant holds in every reachable state. *)
THEOREM Invariance == Spec => []IInv
  BY InitIInv, NextIInv, PTL DEF Spec

(* Every word holds task bits only and the loop counter names a task. *)
THEOREM TypeCorrect == Spec => []TypeOK
<1>1. IInv => TypeOK
  BY DEF IInv
<1> QED
  BY <1>1, Invariance, PTL

(* No task but an interrupt's is lost between tasks_queue and its start. *)
THEOREM TasksNotLost == Spec => []OnlyIsrTasksLost
<1>1. IInv => OnlyIsrTasksLost
  BY DEF IInv
<1> QED
  BY <1>1, Invariance, PTL

(* The idle function, which polls the USB, runs only when no task waits. *)
THEOREM IdleOnlyWithoutWork == Spec => []IdleMeansNoWork
<1>1. IInv => IdleMeansNoWork
  BY DEF IInv
<1> QED
  BY <1>1, Invariance, PTL

(* A start respects the priority order of the task list: what waits with a *)
(* higher priority is only what an interrupt queued since the last look.   *)
THEOREM PriorityOrder == Spec => PriorityRespected
<1>1. IInv /\ [Next]_vars =>
        [\A t \in Tasks :
           (running = NoTask /\ running' = t) =>
             \A h \in queued \cup pending : h < t => h \in fresh]_vars
  <2> SUFFICES ASSUME IInv, [Next]_vars,
                      NEW t \in Tasks, running = NoTask, running' = t,
                      NEW h \in queued \cup pending, h < t
               PROVE  h \in fresh
    OBVIOUS
  <2>1. running' # running
    BY TaskConstants DEF Tasks, NoTask
  <2>2. Start
    BY <2>1, TaskConstants
    DEF Next, Thread, vars, Poll, Take, Skip, Return, IdleReturn, QueueLoad,
        QueueStore, NextTask, Preempt, Requeue, Reset, Interrupt, Tasks, NoTask
  <2> QED
    BY <2>2, TaskConstants DEF Start, IInv, ScanInv, TypeOK, Tasks
<1> QED
  BY <1>1, Invariance, PTL DEF Spec, PriorityRespected

-----------------------------------------------------------------------------
(* The steps of the task manager, seen through waiting = queued and        *)
(* pending together, are steps of the abstract scheduler: the copy and the *)
(* end of an iteration are looks, a store is a request that can drop an    *)
(* interrupt's, a start is a start; the rest is invisible.                 *)
LEMMA StepRefines == IInv /\ [Next]_vars => [Sched!Next]_(Sched!vars)
<1> SUFFICES ASSUME IInv, [Next]_vars PROVE [Sched!Next]_(Sched!vars)
  OBVIOUS
<1> DEFINE waiting == queued \cup pending
<1> USE TaskConstants DEF Tasks, NoTask, Sched!Tasks, Sched!NoTask
<1>1. CASE Poll \/ Skip \/ IdleReturn \/ Preempt \/ UNCHANGED vars
  <2>1. UNCHANGED <<queued, pending, running, fresh>>
    BY <1>1 DEF Poll, Skip, IdleReturn, Preempt, vars
  <2> QED
    BY <2>1 DEF Sched!vars
<1>2. CASE Take
  <2>1. waiting' = waiting /\ running' = running /\ fresh' = {}
    BY <1>2 DEF Take, IInv, StalePendingQueued
  <2> QED
    BY <2>1 DEF Sched!Next, Sched!Look
<1>3. CASE Start
  <2>1. i \in Tasks /\ running = NoTask /\ running' = i /\ i \in waiting
    BY <1>3 DEF Start, IInv, TypeOK, ScanInv
  <2>2. \A h \in waiting : h < i => h \in fresh
    BY <1>3 DEF Start, IInv, TypeOK, ScanInv
  <2>3. waiting' \in {waiting, waiting \ {i}} /\ fresh' = {}
    BY <1>3 DEF Start
  <2>4. Sched!Start(i)
    BY <2>1, <2>2, <2>3 DEF Sched!Start
  <2> QED
    BY <2>1, <2>4 DEF Sched!Next
<1>4. CASE Return
  <2>1. running \notin NoReturn \cup {NoTask} /\ running' = NoTask
        /\ waiting' = waiting /\ fresh' = fresh
    BY <1>4 DEF Return, IInv, ScanInv
  <2> QED
    BY <2>1 DEF Sched!Next, Sched!Finish
<1>5. ASSUME NEW t \in Tasks, QueueLoad(t) PROVE [Sched!Next]_(Sched!vars)
  BY <1>5 DEF QueueLoad, Sched!vars
<1>6. CASE QueueStore
  <2>1. target \in Tasks /\ running' = running /\ pending' = pending
        /\ queued' = reg \cup {target}
    BY <1>6 DEF QueueStore, IInv, TypeOK
  <2>2. reg \subseteq queued /\ queued \ reg \subseteq IsrTasks
    BY <1>6 DEF QueueStore, IInv, ScanInv
  <2> DEFINE dropped == (queued \ reg) \ pending
  <2>3. dropped \in SUBSET IsrTasks
    BY <2>2
  <2>4. waiting' = (waiting \ dropped) \cup {target}
    BY <2>1, <2>2
  <2>5. fresh' = fresh \cap waiting'
    BY <1>6, <2>1 DEF QueueStore
  <2>6. Sched!Request(target)
    BY <2>1, <2>3, <2>4, <2>5 DEF Sched!Request
  <2> QED
    BY <2>1, <2>6 DEF Sched!Next
<1>7. CASE Requeue
  <2>1. waiting' = waiting /\ running' = running /\ fresh' = fresh
    BY <1>7 DEF Requeue
  <2> QED
    BY <2>1 DEF Sched!vars
<1>8. ASSUME NEW t \in IsrTasks, Interrupt(t)
      PROVE  [Sched!Next]_(Sched!vars)
  <2>1. waiting' = waiting \cup {t} /\ running' = running
    BY <1>8 DEF Interrupt
  <2>2. fresh' = fresh \cup ({t} \ waiting)
    BY <1>8 DEF Interrupt
  <2> QED
    BY <2>1, <2>2 DEF Sched!Next, Sched!Interrupt
<1>10. CASE NextTask
  <2>1. UNCHANGED <<queued, pending, running>> /\ fresh' = {}
    BY <1>10 DEF NextTask
  <2> QED
    BY <2>1 DEF Sched!Next, Sched!Look
<1>9. CASE Reset
  BY <1>9 DEF Reset, Sched!Next, Sched!Reset
<1> QED
  BY <1>1, <1>2, <1>3, <1>4, <1>5, <1>6, <1>7, <1>8, <1>9, <1>10
  DEF Next, Thread

(* The task manager implements the abstract scheduler. *)
THEOREM ImplementsScheduler == Spec => Refinement
<1>1. Init => Sched!Init
  BY DEF Init, Sched!Init, NoTask, Sched!NoTask
<1> QED
  BY <1>1, StepRefines, Invariance, PTL DEF Spec, Refinement, Sched!Spec
=============================================================================
