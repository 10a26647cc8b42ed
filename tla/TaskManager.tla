---------------------------- MODULE TaskManager ----------------------------
(***************************************************************************)
(* The run-to-completion task manager of hal_tasks.c.                      *)
(*                                                                         *)
(* Two actors share the word queued_tasks: the thread, which runs          *)
(* tasks_run() and every task body, and the frame timer interrupt, which   *)
(* calls tasks_queue().  tasks_queue() is a load, an OR and a store with   *)
(* interrupts enabled, so the interrupt can fall between the thread's load *)
(* and its store.  A bit mask is modelled by the set of its bit positions. *)
(*                                                                         *)
(* Task identifiers are priorities: 0 is the highest.                      *)
(***************************************************************************)
EXTENDS Naturals

CONSTANTS
  TaskCount,   (* TASK_COUNT, the length of TASK_LIST.                     *)
  IsrTasks,    (* Tasks that an interrupt handler queues.                  *)
  NoReturn,    (* Tasks whose function never returns (the reboot).         *)
  Callees,     (* Callees[t]: the tasks that the body of t may queue.      *)
  IdleCallees  (* The tasks that the idle function may queue.              *)

Tasks == 0 .. TaskCount - 1

(* TASK_UNDEFINED: no task is running. *)
NoTask == TaskCount

ASSUME TaskConstants ==
  /\ TaskCount \in Nat \ {0}
  /\ IsrTasks \subseteq Tasks
  /\ NoReturn \subseteq Tasks
  /\ Callees \in [Tasks -> SUBSET Tasks]
  /\ IdleCallees \subseteq Tasks

VARIABLES
  queued,    (* queued_tasks                                               *)
  pending,   (* pending_tasks                                              *)
  running,   (* running_task                                               *)
  i,         (* the loop counter of tasks_run                              *)
  pc,        (* where the thread is                                        *)
  reg,       (* the CPU register tasks_queue loads queued_tasks into       *)
  target,    (* the argument of the thread's tasks_queue call in progress  *)
  owed,      (* history: tasks queued by a finished call, not yet started  *)
  fresh      (* history: the waiting tasks that an interrupt queued since  *)
             (* the thread last looked at queued_tasks or started a task   *)

vars == <<queued, pending, running, i, pc, reg, target, owed, fresh>>

-----------------------------------------------------------------------------
Init ==
  /\ queued = {} /\ pending = {} /\ owed = {} /\ fresh = {}
  /\ running = NoTask
  /\ i = 0
  /\ pc = "top"
  /\ reg = {} /\ target = 0

(* `if (queued_tasks)': one read of the word, no lock. *)
Poll ==
  /\ pc = "top"
  /\ pc' = IF queued # {} THEN "take" ELSE "idle"
  /\ UNCHANGED <<queued, pending, running, i, reg, target, owed, fresh>>

(* Mutant: the queue is cleared before it is copied. *)
Take_ClearFirst ==
  /\ pc = "take"
  /\ queued' = {} /\ pending' = {}
  /\ i' = 0
  /\ fresh' = {}
  /\ pc' = "scan"
  /\ UNCHANGED <<running, reg, target, owed>>

(* The first critical section: copy then clear the queue. *)
Take ==
  /\ pc = "take"
  /\ pending' = queued
  /\ queued' = {}
  /\ i' = 0
  /\ fresh' = {}
  /\ pc' = "scan"
  /\ UNCHANGED <<running, reg, target, owed>>

(* Task i is pending: clear its bit and call its function. *)
Start ==
  /\ pc = "scan" /\ i \in pending
  /\ pending' = pending \ {i}
  /\ running' = i
  /\ owed' = owed \ {i}
  /\ fresh' = {}
  /\ pc' = "run"
  /\ UNCHANGED <<queued, i, reg, target>>

Skip ==
  /\ pc = "scan" /\ i \notin pending
  /\ pc' = "check"
  /\ UNCHANGED <<queued, pending, running, i, reg, target, owed, fresh>>

(* The task function returns. *)
Return ==
  /\ pc = "run" /\ running \notin NoReturn
  /\ running' = NoTask
  /\ pc' = "check"
  /\ UNCHANGED <<queued, pending, i, reg, target, owed, fresh>>

(* The idle function returns without queueing anything. *)
IdleReturn ==
  /\ pc = "idle"
  /\ pc' = "top"
  /\ UNCHANGED <<queued, pending, running, i, reg, target, owed, fresh>>

(* tasks_queue(t) called by the running task or by the idle function:      *)
(* first the load of queued_tasks ...                                      *)
QueueLoad(t) ==
  /\ \/ pc = "run" /\ t \in Callees[running]
     \/ pc = "idle" /\ t \in IdleCallees
  /\ reg' = queued
  /\ target' = t
  /\ pc' = "queue"
  /\ UNCHANGED <<queued, pending, running, i, owed, fresh>>

(* ... then the store.  The idle function queues at most one task per call *)
(* (one USB event), so it returns next; a task body goes on.               *)
QueueStore ==
  /\ pc = "queue"
  /\ queued' = reg \cup {target}
  /\ owed' = owed \cup {target}
  /\ fresh' = fresh \cap (queued' \cup pending)
  /\ pc' = IF running = NoTask THEN "top" ELSE "run"
  /\ UNCHANGED <<pending, running, i, reg, target>>

(* Mutants: one iteration too many, one too few, and no look at the queue. *)
NextTask_OneTooMany ==
  /\ pc = "check" /\ queued \cap (0 .. i) = {}
  /\ IF i < TaskCount
     THEN i' = i + 1 /\ pc' = "scan"
     ELSE i' = i /\ pc' = "top"
  /\ fresh' = {}
  /\ UNCHANGED <<queued, pending, running, reg, target, owed>>

NextTask_OneTooFew ==
  /\ pc = "check" /\ queued \cap (0 .. i) = {}
  /\ IF i + 2 < TaskCount
     THEN i' = i + 1 /\ pc' = "scan"
     ELSE i' = i /\ pc' = "top"
  /\ fresh' = {}
  /\ UNCHANGED <<queued, pending, running, reg, target, owed>>

NextTask_NoLook ==
  /\ pc = "check"
  /\ IF i + 1 < TaskCount
     THEN i' = i + 1 /\ pc' = "scan"
     ELSE i' = i /\ pc' = "top"
  /\ UNCHANGED <<queued, pending, running, reg, target, owed, fresh>>

(* The end of an iteration: `current_task - 1' is the mask of 0 .. i.      *)
NextTask ==
  /\ pc = "check" /\ queued \cap (0 .. i) = {}
  /\ IF i + 1 < TaskCount
     THEN i' = i + 1 /\ pc' = "scan"
     ELSE i' = i /\ pc' = "top"
  /\ fresh' = {}
  /\ UNCHANGED <<queued, pending, running, reg, target, owed>>

Preempt ==
  /\ pc = "check" /\ queued \cap (0 .. i) # {}
  /\ pc' = "requeue"
  /\ UNCHANGED <<queued, pending, running, i, reg, target, owed, fresh>>

(* Mutant: the pending tasks overwrite the queue. *)
Requeue_Overwrites ==
  /\ pc = "requeue"
  /\ queued' = pending \ (0 .. i)
  /\ pc' = "top"
  /\ UNCHANGED <<pending, running, i, reg, target, owed, fresh>>

(* The second critical section: re-queue the lower-priority tasks.  The    *)
(* code leaves pending_tasks as it is.                                     *)
Requeue ==
  /\ pc = "requeue"
  /\ queued' = queued \cup (pending \ (0 .. i))
  /\ pc' = "top"
  /\ UNCHANGED <<pending, running, i, reg, target, owed, fresh>>

(* The interrupt handler runs to completion between two thread steps: the  *)
(* thread cannot interrupt it.  The critical sections mask it because they *)
(* are single steps.                                                       *)
Interrupt(t) ==
  /\ t \in IsrTasks
  /\ queued' = queued \cup {t}
  /\ owed' = owed \cup {t}
  /\ fresh' = IF t \in queued \cup pending THEN fresh ELSE fresh \cup {t}
  /\ UNCHANGED <<pending, running, i, pc, reg, target>>

(* A task that never returns ends in a system reset, which reinitialises   *)
(* the memory.                                                             *)
Reset ==
  /\ pc = "run" /\ running \in NoReturn
  /\ queued' = {} /\ pending' = {} /\ owed' = {} /\ fresh' = {}
  /\ running' = NoTask
  /\ i' = 0
  /\ pc' = "top"
  /\ reg' = {} /\ target' = 0

Thread ==
  \/ Poll \/ Take \/ Start \/ Skip \/ Return \/ IdleReturn
  \/ QueueStore \/ NextTask \/ Preempt \/ Requeue \/ Reset

Next ==
  \/ Thread
  \/ \E t \in Tasks : QueueLoad(t)
  \/ \E t \in IsrTasks : Interrupt(t)

Spec == Init /\ [][Next]_vars

(* The thread keeps executing; a task body calls tasks_queue a finite      *)
(* number of times and returns; the timer is periodic and is not           *)
(* synchronised with the thread, so its interrupts do not all fall inside  *)
(* the few instructions of tasks_queue.                                    *)
Fairness ==
  /\ WF_vars(Thread)
  /\ SF_vars(Return)
  /\ \A t \in IsrTasks : SF_vars(pc # "queue" /\ Interrupt(t))

FairSpec == Spec /\ Fairness

-----------------------------------------------------------------------------
TypeOK ==
  /\ queued \subseteq Tasks
  /\ pending \subseteq Tasks
  /\ running \in Tasks \cup {NoTask}
  /\ i \in Tasks
  /\ pc \in {"top", "take", "scan", "run", "idle", "queue", "check", "requeue"}
  /\ reg \subseteq Tasks
  /\ target \in Tasks
  /\ owed \subseteq Tasks
  /\ fresh \subseteq IsrTasks \cap (queued \cup pending)

(* A task that tasks_queue accepted and that has not started is queued or  *)
(* pending: no requeue, no copy and no preemption drops it.  Only a task   *)
(* that an interrupt queues may be missing, because of the race of its     *)
(* tasks_queue call with the thread's.                                     *)
OnlyIsrTasksLost == owed \ (queued \cup pending) \subseteq IsrTasks

(* When the scan stops early, the bits left in pending_tasks are stale     *)
(* copies: each of them is queued again before the next poll, so none is   *)
(* run from the stale word and none is forgotten by the next copy.         *)
StalePendingQueued == pc \in {"top", "take", "idle"} => pending \subseteq queued

(* The idle function runs only when no task waits but those the interrupt  *)
(* queued since the poll: in particular a stale pending bit never survives *)
(* an idle call.                                                           *)
IdleMeansNoWork ==
  pc = "idle" => pending = {} /\ queued \subseteq IsrTasks

(* What ties the thread's position to the shared words.  Scanning task i,   *)
(* what waits with a higher priority came from an interrupt since the      *)
(* last look; a tasks_queue call in progress holds all that is queued but interrupts'   *)
(* bits; a task is running exactly while its function is on the stack.     *)
ScanInv ==
  /\ pc = "scan" => /\ pending \cap (0 .. i) \subseteq {i}
                    /\ \A h \in queued : h < i => h \in fresh
  /\ pc \in {"run", "check", "requeue"} => pending \cap (0 .. i) = {}
  /\ pc = "queue" => /\ reg \subseteq queued
                     /\ queued \ reg \subseteq IsrTasks
                     /\ running = NoTask => pending = {}
                     /\ running # NoTask => pending \cap (0 .. i) = {}
  /\ pc = "run" => running # NoTask
  /\ pc \notin {"run", "queue"} => running = NoTask

(* A task starts only when no task of higher priority waits, except one    *)
(* that an interrupt queued since the last look at queued_tasks: the       *)
(* priority order the task list documents.  A task an interrupt queued is  *)
(* overtaken by one start at most; the next look finds it.                 *)
PriorityRespected ==
  [][\A t \in Tasks :
       (running = NoTask /\ running' = t) =>
         \A h \in queued \cup pending : h < t => h \in fresh]_vars

(* Once a task is queued, it or a task of higher priority runs: the queue  *)
(* never stalls, whatever the interrupts do to it.                         *)
WorkConserving ==
  \A t \in Tasks : t \in queued ~> running \in 0 .. t

(* The frame transmission runs over and over, or the system resets.        *)
IsrTasksServed ==
  \A t \in IsrTasks : []<>(running \in 0 .. t)

-----------------------------------------------------------------------------
(* The promise of the task manager is PriorityScheduler: one set of        *)
(* waiting tasks, which the two words together hold.                       *)
Sched == INSTANCE PriorityScheduler WITH waiting <- queued \cup pending

Refinement == Sched!Spec
=============================================================================
