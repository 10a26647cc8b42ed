---------------------------- MODULE FrameStream ----------------------------
(***************************************************************************)
(* What the NeoPixel transfer promises: once started, it hands the symbols *)
(* of one frame to the waveform generator in order, each exactly once,     *)
(* first pixel first and most significant bit first, and then stops.       *)
(***************************************************************************)
EXTENDS Naturals

CONSTANTS
  Pixels,     (* number of NeoPixels                                       *)
  ColorBits,  (* bits of one color                                         *)
  Versions    (* identities of rendered frames                             *)

Total == Pixels * ColorBits

VARIABLES
  busy,     (* a frame is being transferred                                *)
  version,  (* the frame that is being, or was last, transferred           *)
  count,    (* how many of its symbols were handed over                    *)
  symbol    (* the last one                                                *)

vars == <<busy, version, count, symbol>>

(* Symbol number j of the frame v. *)
SymbolAt(v, j) ==
  [ver |-> v, pixel |-> j \div ColorBits, bit |-> ColorBits - 1 - (j % ColorBits)]

Init == ~busy /\ count = 0

Begin(v) ==
  /\ ~busy
  /\ busy' = TRUE
  /\ version' = v
  /\ count' = 1
  /\ symbol' = SymbolAt(v, 0)

Emit ==
  /\ busy /\ count < Total
  /\ count' = count + 1
  /\ symbol' = SymbolAt(version, count)
  /\ UNCHANGED <<busy, version>>

Finish ==
  /\ busy /\ count = Total
  /\ busy' = FALSE
  /\ UNCHANGED <<version, count, symbol>>

Next == Emit \/ Finish \/ \E v \in Versions : Begin(v)

Spec == Init /\ [][Next]_vars
=============================================================================
