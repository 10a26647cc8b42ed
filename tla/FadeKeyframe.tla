---------------------------- MODULE FadeKeyframe ----------------------------
(***************************************************************************)
(* The fade keyframe of pixelkey/keyframes/keyframe_fade.c as one channel  *)
(* of the keyframe processor plays it: started from the queue, rendered    *)
(* frame by frame, repeated, and restarted when the frame rate changes.    *)
(* The queues and the heap are in KeyframeProc.                            *)
(*                                                                         *)
(* Colors are abstract: the conversions between RGB and HSV, which round,  *)
(* keep a color, and a blend strictly between two colors is Between.  What *)
(* is modelled is which cells of the color array a frame reads and writes. *)
(***************************************************************************)
EXTENDS Integers, Sequences

CONSTANTS
  Colors,      (* the colors of commands                                   *)
  Black,       (* what a cell of the array holds that was never written    *)
  Between,     (* any color a blend shows that is neither of the two       *)
  MaxInput,    (* KEYFRAME_FADE_COLORS_INPUT_MAX_LENGTH                    *)
  Fades,       (* the parsed fades that are queued                         *)
  Framerates   (* the frame rates that config-set framerate gives          *)

(* The cells of the color array, KEYFRAME_FADE_COLORS_MAX_LENGTH of them.   *)
(* (Mutant: the length of the longest list.)                               *)
Cells_Short == 0 .. MaxInput - 1
Cells == 0 .. MaxInput

ByteRange == 256               (* colors_len and the loop index are uint8_t*)
NoFade == [kind |-> "none"]

ASSUME FadeConstants ==
  /\ MaxInput \in 2 .. ByteRange - 2
  /\ Framerates \subseteq Nat \ {0} /\ Framerates # {}
  /\ \A k \in Fades : /\ k.given \in Seq(Colors) /\ Len(k.given) <= MaxInput
                      /\ k.push \in BOOLEAN /\ k.type \in {"step", "cubic"}
                      /\ k.halves \in Nat \ {0} /\ k.repeat \in Int

VARIABLES
  fade,        (* current_keyframe, NoFade for NULL                        *)
  framecount,  (* current_framecount                                       *)
  color,       (* current_color                                            *)
  framerate,   (* current_framerate                                        *)
  played,      (* history: the fade whose play this frame ended, or NoFade *)
  overrun      (* history: a cell beyond the array was read or written     *)

vars == <<fade, framecount, color, framerate, played, overrun>>

-----------------------------------------------------------------------------
(* keyframe_fade_parse: the colors in front, the other cells never written.*)
Parsed(k) ==
  [kind |-> "fade", keyframe |-> k, repeat |-> k.repeat,
   colors |-> [i \in Cells |-> IF i < Len(k.given) THEN k.given[i + 1] ELSE Black],
   len |-> Len(k.given), finish |-> 0, pair |-> 0, index |-> 0]

FinishTime(k, rate) == (k.halves * rate) \div 2

(* The period of a pair of colors. Without colors the divisor is 2^32 - 1, *)
(* with one it is 0 and the core's division gives 0.                       *)
PairPeriod(finish, len) == IF len < 2 THEN 0 ELSE finish \div (len - 1)

Pushes(f) == f.len = 1 \/ f.keyframe.push

(* The shift down by one starts at this cell; for an empty list at 255.    *)
ShiftTop(f) == (f.len - 1) % ByteRange

(* Mutant: the pair index is kept.                                         *)
RenderInit_KeepsIndex(f, rate, now) ==
  LET len == f.len + (IF Pushes(f) THEN 1 ELSE 0)
      finish == FinishTime(f.keyframe, rate)
  IN [f EXCEPT !.len = len, !.finish = finish, !.pair = PairPeriod(finish, len)]

(* keyframe_fade_render_init.                                              *)
RenderInit(f, rate, now) ==
  LET len == f.len + (IF Pushes(f) THEN 1 ELSE 0)
      finish == FinishTime(f.keyframe, rate)
  IN [f EXCEPT
        !.colors = IF ~Pushes(f) THEN @
                   ELSE [i \in Cells |-> CASE i = 0 -> now
                                           [] i \in 1 .. ShiftTop(f) -> f.colors[i - 1]
                                           [] OTHER -> f.colors[i]],
        !.len = len, !.finish = finish, !.pair = PairPeriod(finish, len), !.index = 0]

(* The cells it touches: those of the shift, and those compared for axes.  *)
InitCells(f) ==
  (IF Pushes(f) THEN 0 .. ShiftTop(f) ELSE {})
    \cup 0 .. f.len - (IF Pushes(f) THEN 0 ELSE 1)

(* Mutant: the next pair begins a frame early.                             *)
Indexed_Early(f, time) ==
  IF time + 1 = (f.index + 1) * f.pair THEN [f EXCEPT !.index = @ + 1] ELSE f

(* keyframe_fade_render_frame: the next pair of colors when its time comes.*)
Indexed(f, time) ==
  IF time = (f.index + 1) * f.pair THEN [f EXCEPT !.index = @ + 1] ELSE f

FrameCells(f) ==
  IF f.keyframe.type = "step" THEN {f.index} ELSE {f.index, f.index + 1}

(* The colors the frame may show.  At the start of a pair, and when the    *)
(* pairs have no length, the curve is not evaluated: the ratio is 0.       *)
Shown(f, time) ==
  IF f.keyframe.type = "step" \/ f.pair = 0 \/ time = f.index * f.pair
  THEN {f.colors[f.index]}
  ELSE LET a == f.colors[f.index]  b == f.colors[f.index + 1]
       IN  IF a = b THEN {a} ELSE {a, Between, b}

RepeatsLeft(f) == IF f.repeat > 0 THEN f.repeat - 1 ELSE f.repeat

-----------------------------------------------------------------------------
Init ==
  /\ fade = NoFade
  /\ framecount = 0
  /\ color = Black
  /\ framerate \in Framerates
  /\ played = NoFade
  /\ overrun = FALSE

(* After an access beyond the array the program's state is undefined.      *)
Overruns(f) ==
  /\ fade' = f
  /\ overrun' = TRUE
  /\ played' = NoFade
  /\ UNCHANGED <<framecount, color, framerate>>

(* The play ends: the keyframe is freed, or prepared for its next play.    *)
Finishes(f, shown) ==
  /\ played' = f.keyframe
  /\ IF RepeatsLeft(f) = 0
     THEN /\ fade' = NoFade
          /\ UNCHANGED overrun
     ELSE /\ fade' = RenderInit([f EXCEPT !.repeat = RepeatsLeft(f)], framerate, shown)
          /\ overrun' = ~(InitCells(f) \subseteq Cells)

(* The rendering of keyframe f at a time, by the keyframe processor.       *)
Render(f, time) ==
  LET g == Indexed(f, time) IN
  IF ~(FrameCells(g) \subseteq Cells) THEN Overruns(g)
  ELSE /\ color' \in Shown(g, time)
       /\ IF time >= g.finish
          THEN /\ Finishes(g, color')
               /\ framecount' = IF RepeatsLeft(g) = 0 THEN time ELSE 0
          ELSE /\ fade' = g
               /\ framecount' = time
               /\ played' = NoFade
               /\ UNCHANGED overrun
       /\ UNCHANGED framerate

(* A queued keyframe replaces the current one and shows its first frame.   *)
StartFade(k) ==
  /\ ~overrun
  /\ IF InitCells(Parsed(k)) \subseteq Cells
     THEN Render(RenderInit(Parsed(k), framerate, color), 1)
     ELSE Overruns(RenderInit(Parsed(k), framerate, color))

NextFrame ==
  /\ ~overrun
  /\ fade # NoFade
  /\ Render(fade, framecount + 1)

(* Mutant: the frame rate changes in the middle of the fade.               *)
FramerateSet_KeepsTime(rate) ==
  /\ ~overrun /\ fade # NoFade
  /\ framerate' = rate
  /\ fade' = RenderInit(fade, rate, color)
  /\ overrun' = ~(InitCells(fade) \subseteq Cells)
  /\ played' = NoFade
  /\ UNCHANGED <<color, framecount>>

(* pixelkey_keyframeproc_framerate_set (without a keyframe it uses NULL:   *)
(* see KeyframeProc).                                                      *)
FramerateSet(rate) ==
  /\ ~overrun
  /\ fade # NoFade
  /\ framerate' = rate
  /\ framecount' = 0
  /\ fade' = RenderInit(fade, rate, color)
  /\ overrun' = ~(InitCells(fade) \subseteq Cells)
  /\ played' = NoFade
  /\ UNCHANGED color

Next ==
  \/ \E k \in Fades : StartFade(k)
  \/ NextFrame
  \/ \E rate \in Framerates : FramerateSet(rate)

Spec == Init /\ [][Next]_vars

-----------------------------------------------------------------------------
(* Exact fades: two or more colors, none pushed in front of them, and      *)
(* frames that divide evenly among their pairs.                            *)
Exact(k, rate) ==
  /\ Len(k.given) >= 2 /\ ~k.push
  /\ FinishTime(k, rate) >= Len(k.given) - 1
  /\ FinishTime(k, rate) % (Len(k.given) - 1) = 0

(* Every fade outside of an overrun has its index and its time in bounds.  *)
TypeOK ==
  /\ color \in Colors \cup {Black, Between}
  /\ framerate \in Framerates
  /\ fade # NoFade /\ ~overrun =>
       /\ fade.colors \in [Cells -> Colors \cup {Black, Between}]
       /\ fade.len \in 0 .. MaxInput + 1
       /\ fade.index \in Cells
       /\ framecount \in 0 .. fade.finish

(* The array is one longer than the longest list of a command because an   *)
(* exact fade blends its last color with the cell behind it: for exact     *)
(* fades, and those of one color or none without "&", that is enough, and  *)
(* however often they are repeated or restarted their list does not grow.  *)
StaysInArray ==
  fade # NoFade /\ ~fade.keyframe.push =>
    /\ Len(fade.keyframe.given) < 2 \/ Exact(fade.keyframe, framerate) => ~overrun
    /\ fade.len = IF Len(fade.keyframe.given) = 1 THEN 2 ELSE Len(fade.keyframe.given)

(* The colors of an exact step fade change every period/(len(colors) - 1)  *)
(* seconds, counted from the last start of the fade at the frame rate of   *)
(* now, also after repeats and frame rate changes.                         *)
StepsOnTime ==
  fade # NoFade /\ ~overrun /\ framecount > 0 =>
    LET k == fade.keyframe IN
    k.type = "step" /\ Exact(k, framerate) =>
      color = k.given[1 + (framecount * (Len(k.given) - 1)) \div FinishTime(k, framerate)]

(* Every play of an exact fade ends on exactly its last color, after any   *)
(* repeats, frame rate changes and blends before it.                       *)
ExactFadesEnd ==
  played # NoFade /\ Exact(played, framerate) =>
    color = played.given[Len(played.given)]

-----------------------------------------------------------------------------
(* What the documentation says of every fade, and the code does not do:    *)
(* "The NeoPixel color will be set to the last color after completion of   *)
(* the fade keyframe."                                                     *)
EndsAtLastColor ==
  played # NoFade /\ played.given # <<>> => color = played.given[Len(played.given)]
=============================================================================
