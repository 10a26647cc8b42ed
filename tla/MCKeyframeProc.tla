--------------------------- MODULE MCKeyframeProc ---------------------------
(* Model checking of KeyframeProc: two channels and three keyframes. *)
EXTENDS KeyframeProc

SetRed ==
  [kind |-> "set", color1 |-> "red", color2 |-> "black", given1 |-> TRUE,
   given2 |-> FALSE, halves |-> 0, duty |-> 50, repeat |-> 0, finish |-> 0,
   transition |-> 0]

(* blink 1: no color given, so the current one and black. *)
BlinkCurrent ==
  [kind |-> "blink", color1 |-> "black", color2 |-> "black", given1 |-> FALSE,
   given2 |-> FALSE, halves |-> 2, duty |-> 50, repeat |-> -1, finish |-> 0,
   transition |-> 0]

MCKeyframes == {SetRed, BlinkCurrent}
MCBlack == "black"

(* The startup keyframe repeats for ever; hal_entry's is a fade. *)
MCStartup == [BlinkCurrent EXCEPT !.color1 = "red", !.given1 = TRUE, !.given2 = TRUE]

(* All channels; one; one that exists and one that does not. *)
MCChannelLists == {<<>>, <<1>>, <<2, 3>>}

(* With one channel: that one, and one that does not exist. *)
MCOneChannel == {<<1>>, <<2>>}

MCRepeats == {0, 2}
=============================================================================
