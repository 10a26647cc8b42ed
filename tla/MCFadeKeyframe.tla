--------------------------- MODULE MCFadeKeyframe ---------------------------
(* Model checking of FadeKeyframe: lists of up to three colors. *)
EXTENDS FadeKeyframe

CONSTANTS red, green, blue

MCColors == {red, green, blue}

MCFades ==
  [given : {<<>>, <<red>>, <<red, blue>>, <<red, green, blue>>},
   push : BOOLEAN, type : {"step", "cubic"}, halves : {1, 2, 4, 8}, repeat : {-1, 0, 2}]

(* One color, without "&", played once. *)
MCOneColor ==
  {[given |-> <<red>>, push |-> FALSE, type |-> "cubic", halves |-> 2, repeat |-> 0]}
=============================================================================
