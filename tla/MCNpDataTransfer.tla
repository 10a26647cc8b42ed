-------------------------- MODULE MCNpDataTransfer --------------------------
(* Model checking of NpDataTransfer on small frames and buffers. *)
EXTENDS NpDataTransfer
=============================================================================
