------------------------- MODULE PriorityScheduler -------------------------
(***************************************************************************)
(* What the task manager promises, without its words, masks and critical   *)
(* sections: a set of waiting tasks, of which the one of highest priority  *)
(* runs next, to completion.                                               *)
(*                                                                         *)
(* Two weaknesses are part of the promise.  A request made by an interrupt *)
(* may be dropped by a request that a task makes at the same moment, and a *)
(* task that an interrupt requested after the scheduler's last look may be *)
(* overtaken by one start.                                                 *)
(***************************************************************************)
EXTENDS Naturals

CONSTANTS TaskCount, IsrTasks, NoReturn

Tasks == 0 .. TaskCount - 1
NoTask == TaskCount

VARIABLES
  waiting,  (* the tasks requested and not yet started                     *)
  fresh,    (* those that an interrupt requested since the last look       *)
  running   (* the task in progress, or NoTask                             *)

vars == <<waiting, fresh, running>>

Init == waiting = {} /\ fresh = {} /\ running = NoTask

(* A task requests t, which may cost requests that interrupts made. *)
Request(t) ==
  /\ \E dropped \in SUBSET IsrTasks : waiting' = (waiting \ dropped) \cup {t}
  /\ fresh' = fresh \cap waiting'
  /\ UNCHANGED running

(* An interrupt requests t; a request that is already waiting is not new. *)
Interrupt(t) ==
  /\ waiting' = waiting \cup {t}
  /\ fresh' = fresh \cup ({t} \ waiting)
  /\ UNCHANGED running

(* The scheduler looks at what waits. *)
Look ==
  /\ fresh' = {}
  /\ UNCHANGED <<waiting, running>>

(* A task starts, the highest of those the scheduler has seen.  If it was  *)
(* requested twice, once before and once after the last look, it still     *)
(* waits.  A start ends every licence to overtake.                         *)
Start(t) ==
  /\ running = NoTask
  /\ t \in waiting
  /\ \A h \in waiting : h < t => h \in fresh
  /\ running' = t
  /\ waiting' \in {waiting, waiting \ {t}}
  /\ fresh' = {}

Finish ==
  /\ running \notin NoReturn \cup {NoTask}
  /\ running' = NoTask
  /\ UNCHANGED <<waiting, fresh>>

Reset ==
  /\ running \in NoReturn
  /\ waiting' = {} /\ fresh' = {} /\ running' = NoTask

Next ==
  \/ Look \/ Finish \/ Reset
  \/ \E t \in Tasks : Request(t) \/ Start(t)
  \/ \E t \in IsrTasks : Interrupt(t)

Spec == Init /\ [][Next]_vars
=============================================================================
