---------------------------- MODULE MCRingBuffer ----------------------------
(* Model checking of RingBuffer with the length of the keyframe queues. *)
EXTENDS RingBuffer
=============================================================================
