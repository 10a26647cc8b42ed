---------------------------- MODULE BoundedFifo ----------------------------
(***************************************************************************)
(* A first-in first-out queue of at most Capacity elements, with the       *)
(* answer of the last call: what ring_buffer.h offers to the keyframe and  *)
(* command queues.                                                         *)
(***************************************************************************)
EXTENDS Naturals, Sequences

CONSTANTS
  Capacity,  (* the most elements the queue holds                          *)
  Elements,  (* what may be queued                                         *)
  NULL       (* the answer when there is no element                        *)

VARIABLES
  items,  (* the queued elements, oldest first                             *)
  answer  (* what the last call returned: [ok, element]                    *)

vars == <<items, answer>>

Init == items = <<>> /\ answer = [ok |-> FALSE, element |-> NULL]

Push(x) ==
  \/ /\ Len(items) < Capacity
     /\ items' = Append(items, x)
     /\ answer' = [ok |-> TRUE, element |-> NULL]
  \/ /\ Len(items) = Capacity
     /\ answer' = [ok |-> FALSE, element |-> NULL]
     /\ UNCHANGED items

Pop ==
  \/ /\ items # <<>>
     /\ items' = Tail(items)
     /\ answer' = [ok |-> TRUE, element |-> Head(items)]
  \/ /\ items = <<>>
     /\ answer' = [ok |-> FALSE, element |-> NULL]
     /\ UNCHANGED items

Peek ==
  /\ answer' = IF items = <<>> THEN [ok |-> FALSE, element |-> NULL]
                               ELSE [ok |-> TRUE, element |-> Head(items)]
  /\ UNCHANGED items

IsEmpty ==
  /\ answer' = [ok |-> items = <<>>, element |-> NULL]
  /\ UNCHANGED items

Next == Pop \/ Peek \/ IsEmpty \/ \E x \in Elements : Push(x)

Spec == Init /\ [][Next]_vars
=============================================================================
