------------------------- MODULE MCCommandReception -------------------------
(* The instance of CommandReception that TLC checks: a buffer of four      *)
(* bytes, so that a line of three commands fills the queue of two and a    *)
(* line of four fills the buffer.                                          *)
EXTENDS CommandReception
=============================================================================
