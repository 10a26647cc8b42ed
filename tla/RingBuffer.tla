----------------------------- MODULE RingBuffer -----------------------------
(***************************************************************************)
(* The ring buffer of pixelkey/ring_buffer.c: an array of Length pointers, *)
(* the index head_idx of the next free slot and the index tail_idx of the  *)
(* oldest element.  Equal indices mean empty, so one slot is never used.   *)
(*                                                                         *)
(* Every user of a ring buffer runs in the thread: a call is one step.     *)
(***************************************************************************)
EXTENDS Integers, Sequences

CONSTANTS
  Length,    (* the length given to ring_buffer_init                       *)
  Elements,  (* the pointers that callers push                             *)
  NULL

ASSUME RingConstants ==
  /\ Length \in Nat \ {0}
  /\ NULL \notin Elements

Slots == 0 .. Length - 1

VARIABLES
  data,    (* p_data                                                       *)
  head,    (* head_idx                                                     *)
  tail,    (* tail_idx                                                     *)
  answer   (* history: what the last call returned, [ok, element]          *)

vars == <<data, head, tail, answer>>

-----------------------------------------------------------------------------
(* ring_buffer_init on a zeroed array. *)
Init ==
  /\ data = [s \in Slots |-> NULL]
  /\ head = 0 /\ tail = 0
  /\ answer = [ok |-> FALSE, element |-> NULL]

Empty == head = tail

(* The index after head, and the test by which a push is refused. *)
NewHead == (head + 1) % Length

Full == NewHead = tail

(* Mutant: the new element overtakes the tail. *)
Push_NoFullTest(x) ==
  /\ data' = [data EXCEPT ![head] = x]
  /\ head' = NewHead
  /\ answer' = [ok |-> TRUE, element |-> NULL]
  /\ UNCHANGED tail

(* ring_buffer_push(x). *)
Push(x) ==
  \/ /\ Full
     /\ answer' = [ok |-> FALSE, element |-> NULL]
     /\ UNCHANGED <<data, head, tail>>
  \/ /\ ~Full
     /\ data' = [data EXCEPT ![head] = x]
     /\ head' = NewHead
     /\ answer' = [ok |-> TRUE, element |-> NULL]
     /\ UNCHANGED tail

(* Mutant: a pop of an empty buffer moves the tail past the head. *)
Pop_NoEmptyTest ==
  /\ answer' = [ok |-> TRUE, element |-> data[tail]]
  /\ tail' = IF tail = Length - 1 THEN 0 ELSE tail + 1
  /\ UNCHANGED <<data, head>>

(* ring_buffer_pop. *)
Pop ==
  \/ /\ Empty
     /\ answer' = [ok |-> FALSE, element |-> NULL]
     /\ UNCHANGED <<data, head, tail>>
  \/ /\ ~Empty
     /\ answer' = [ok |-> TRUE, element |-> data[tail]]
     /\ tail' = IF tail = Length - 1 THEN 0 ELSE tail + 1
     /\ UNCHANGED <<data, head>>

(* ring_buffer_peek: NULL or a pointer, so ok is `not NULL'. *)
Peek ==
  /\ LET p == IF Empty THEN NULL ELSE data[tail] IN
       answer' = [ok |-> p # NULL, element |-> p]
  /\ UNCHANGED <<data, head, tail>>

(* ring_buffer_is_empty. *)
IsEmpty ==
  /\ answer' = [ok |-> Empty, element |-> NULL]
  /\ UNCHANGED <<data, head, tail>>

Next == Pop \/ Peek \/ IsEmpty \/ \E x \in Elements : Push(x)

Spec == Init /\ [][Next]_vars

(* ring_buffer_count. *)
Count ==
  LET n == head - tail IN IF n < 0 THEN Length + n + 1 ELSE n

-----------------------------------------------------------------------------
(* The elements in the buffer, oldest first. *)
Used == IF tail <= head THEN head - tail ELSE Length + head - tail

SlotAt(j) == IF tail + j < Length THEN tail + j ELSE tail + j - Length

Contents == [j \in 1 .. Used |-> data[SlotAt(j - 1)]]

TypeOK ==
  /\ data \in [Slots -> Elements \cup {NULL}]
  /\ head \in Slots
  /\ tail \in Slots
  /\ answer \in [ok : BOOLEAN, element : Elements \cup {NULL}]

(* Every slot between the indices holds a pushed element: a peek returns   *)
(* NULL only when the buffer is empty, which is how the keyframe processor *)
(* tells `nothing queued' from a keyframe.                                 *)
NoNullQueued == \A j \in 1 .. Used : Contents[j] # NULL

(* Calls answer as those of a FIFO queue one shorter than the array. *)
Fifo == INSTANCE BoundedFifo WITH Capacity <- Length - 1, items <- Contents

ImplementsFifo == Fifo!Spec
=============================================================================
