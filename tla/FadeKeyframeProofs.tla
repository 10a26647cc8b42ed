-------------------------- MODULE FadeKeyframeProofs --------------------------
(***************************************************************************)
(* Proofs about FadeKeyframe, for any colors, lists of colors, periods,    *)
(* frame rates and lengths of the array.                                   *)
(*                                                                         *)
(* The code moves to the next pair of colors when the time EQUALS the next *)
(* multiple of the pair's period.  The argument is that it never misses    *)
(* one: times go up by one from a start that resets the index, so index is *)
(* always time divided by the period, rounded down, and an exact fade, one *)
(* whose periods add up to its finish, arrives at its last color when it   *)
(* finishes.                                                               *)
(***************************************************************************)
EXTENDS FadeKeyframe, TLAPS

-----------------------------------------------------------------------------
(* The inductive invariant. *)

Shades == Colors \cup {Black, Between}

(* keyframe_fade_t, as far as it is modelled. *)
Fade ==
  [kind : {"fade"}, keyframe : Fades, repeat : Int, colors : [Cells -> Shades],
   len : Nat, finish : Nat, pair : Nat, index : Nat]

Given(f) ==
  \A i \in 0 .. Len(f.keyframe.given) - 1 : f.colors[i] = f.keyframe.given[i + 1]

(* A list that nothing is pushed to is the one that was given, or, when    *)
(* one color was given, the color before the first start and that one.     *)
Listed(f) ==
  ~f.keyframe.push =>
    /\ f.len = IF Len(f.keyframe.given) = 1 THEN 2 ELSE Len(f.keyframe.given)
    /\ Len(f.keyframe.given) >= 2 => Given(f)

(* Before the first start one color may be alone in the list. *)
Startable(f) ==
  ~f.keyframe.push =>
    /\ \/ f.len = Len(f.keyframe.given)
       \/ Len(f.keyframe.given) = 1 /\ f.len = 2
    /\ Len(f.keyframe.given) >= 2 => Given(f)

(* The times are those of the frame rate of now. *)
Timed(f, rate) ==
  /\ f.finish = FinishTime(f.keyframe, rate)
  /\ f.pair = PairPeriod(f.finish, f.len)

(* index is the time divided by the period of a pair. *)
OnTime(f, time) ==
  IF f.pair = 0 THEN f.index = 0
  ELSE f.index * f.pair <= time /\ time < (f.index + 1) * f.pair

(* The fades whose accesses are certain to stay inside the array. *)
Bounded(k, rate) == ~k.push /\ (Len(k.given) < 2 \/ Exact(k, rate))

TypeInv ==
  /\ color \in Shades /\ framerate \in Framerates /\ framecount \in Nat
  /\ fade # NoFade => fade \in Fade

FlagInv == overrun \in BOOLEAN

ListInv == fade # NoFade => Listed(fade)

PlayInv ==
  fade # NoFade /\ ~overrun =>
    /\ fade.len <= MaxInput + 1 /\ fade.index \in Cells
    /\ Timed(fade, framerate)
    /\ OnTime(fade, framecount)
    /\ framecount = 0 \/ framecount < fade.finish
    /\ framecount > 0 /\ fade.keyframe.type = "step" => color = fade.colors[fade.index]

BoundInv == fade # NoFade /\ Bounded(fade.keyframe, framerate) => ~overrun

IInv ==
  /\ TypeInv /\ FlagInv /\ ListInv /\ PlayInv /\ BoundInv /\ ExactFadesEnd

-----------------------------------------------------------------------------
(* Arithmetic. *)
(* Products with a natural number are monotonic.                           *)
LEMMA Products ==
  ASSUME NEW a \in Int, NEW b \in Int, NEW c \in Nat
  PROVE  /\ a * c \in Int
         /\ (a + 1) * c = a * c + c
         /\ a < b => a * c + c <= b * c
         /\ a <= b => a * c <= b * c
<1>1. a * c \in Int /\ b * c \in Int
  OBVIOUS
<1>2. (a + 1) * c = a * c + c
  OBVIOUS
<1>3. ASSUME a < b PROVE a * c + c <= b * c
  <2>1. b - (a + 1) \in Nat
    BY <1>3
  <2>2. (b - (a + 1)) * c >= 0
    BY <2>1
  <2> QED
    BY <1>1, <2>2
<1>4. ASSUME a <= b PROVE a * c <= b * c
  BY <1>1, <1>3, <1>4
<1> QED
  BY <1>1, <1>2, <1>3, <1>4

(* Division with remainder is unique. *)
LEMMA Quotient ==
  ASSUME NEW n \in Nat, NEW q \in Nat, NEW c \in Nat \ {0},
         q * c <= n, n < (q + 1) * c
  PROVE  n \div c = q
<1> DEFINE d == n \div c
           m == n % c
<1>1. d \in Nat /\ m \in 0 .. c - 1 /\ n = d * c + m
  OBVIOUS
<1> HIDE DEF d, m
<1>2. /\ q * c \in Int /\ d * c \in Int /\ (q + 1) * c = q * c + c
      /\ (q < d => q * c + c <= d * c) /\ (d < q => d * c + c <= q * c)
  BY <1>1, Products
<1>3. d = q
  BY <1>1, <1>2
<1> QED
  BY <1>3 DEF d

(* A common factor cancels. *)
LEMMA Cancel ==
  ASSUME NEW t \in Nat, NEW q \in Nat, NEW p \in Nat \ {0}, NEW m \in Nat \ {0},
         q * p <= t, t < (q + 1) * p
  PROVE  (t * m) \div (p * m) = q
<1> DEFINE n == t * m
           c == p * m
<1>1. n \in Nat /\ c \in Nat \ {0}
  OBVIOUS
<1>2. q * c <= n
  <2>1. q * p \in Int
    OBVIOUS
  <2>2. (q * p) * m <= t * m
    BY <2>1, Products
  <2>3. (q * p) * m = q * (p * m)
    OBVIOUS
  <2> QED
    BY <2>2, <2>3
<1>3. n < (q + 1) * c
  <2>1. (q + 1) * p \in Int
    OBVIOUS
  <2>2. t * m + m <= ((q + 1) * p) * m
    BY <2>1, Products
  <2>3. ((q + 1) * p) * m = (q + 1) * (p * m)
    OBVIOUS
  <2> HIDE DEF c
  <2>4. n + m <= (q + 1) * c
    BY <2>2, <2>3 DEF c
  <2> QED
    BY <1>1, <2>4
<1> HIDE DEF n, c
<1>4. n \div c = q
  BY <1>1, <1>2, <1>3, Quotient
<1> QED
  BY <1>4 DEF n, c

-----------------------------------------------------------------------------
(* Keyframes and their initialisation. *)
(* The cells of the array are 0 up to MaxInput.                            *)
LEMMA CellFacts ==
  /\ MaxInput \in Nat /\ MaxInput \in 2 .. 254 /\ 0 \in Cells /\ 1 \in Cells
  /\ Cells \subseteq Nat
  /\ \A i : i \in Cells <=> i \in 0 .. MaxInput
BY FadeConstants DEF ByteRange, Cells

(* What the assumption says of a keyframe.                                 *)
LEMMA FadeFacts ==
  ASSUME NEW x \in Fades
  PROVE  /\ x.given \in Seq(Colors) /\ Len(x.given) \in 0 .. MaxInput
         /\ x.halves \in Nat \ {0} /\ x.repeat \in Int
BY FadeConstants DEF ByteRange

(* Finish times and periods of pairs are whole numbers of frames.          *)
LEMMA Periods ==
  ASSUME NEW x \in Fades, NEW rate \in Framerates
  PROVE  /\ FinishTime(x, rate) \in Nat
         /\ \A len \in Nat : PairPeriod(FinishTime(x, rate), len) \in Nat
<1>1. x.halves * rate \in Nat
  BY FadeConstants
<1>2. FinishTime(x, rate) \in Nat
  BY <1>1 DEF FinishTime
<1>3. ASSUME NEW len \in Nat, ~(len < 2)
      PROVE  FinishTime(x, rate) \div (len - 1) \in Nat
  <2>1. len - 1 \in Nat \ {0}
    BY <1>3
  <2> QED
    BY <1>2, <2>1
<1> QED
  BY <1>2, <1>3 DEF PairPeriod

(* The pairs of an exact fade fill its time. *)
LEMMA ExactPeriods ==
  ASSUME NEW x \in Fades, NEW rate \in Framerates, Exact(x, rate)
  PROVE  /\ Len(x.given) \in 2 .. MaxInput /\ ~x.push
         /\ PairPeriod(FinishTime(x, rate), Len(x.given)) \in Nat \ {0}
         /\ FinishTime(x, rate)
              = (Len(x.given) - 1) * PairPeriod(FinishTime(x, rate), Len(x.given))
         /\ FinishTime(x, rate) \in Nat \ {0}
<1>0. PICK n, m : n = FinishTime(x, rate) /\ m = Len(x.given) - 1
  OBVIOUS
<1>a. ~x.push
  BY DEF Exact
<1>b. Len(x.given) >= 2 /\ n >= m /\ n % m = 0
  BY <1>0, Zenon DEF Exact
<1>c. Len(x.given) \in 0 .. MaxInput /\ n \in Nat
  BY <1>0, FadeFacts, Periods
<1>1. /\ Len(x.given) \in 2 .. MaxInput
      /\ n \in Nat /\ m \in Nat \ {0} /\ n >= m /\ n % m = 0
  <2>1. PICK l, top : l = Len(x.given) /\ top = MaxInput
    OBVIOUS
  <2>2. l \in 0 .. top /\ l >= 2 /\ m = l - 1 /\ top \in Nat
    BY <1>0, <1>b, <1>c, <2>1, CellFacts
  <2>3. l \in 2 .. top /\ m \in Nat \ {0}
    BY <2>2
  <2> QED
    BY <1>b, <1>c, <2>1, <2>3
<1>2. n \div m \in Nat \ {0} /\ n = m * (n \div m)
  BY <1>1
<1>3. PairPeriod(n, Len(x.given)) = n \div m
  BY <1>0, <1>1 DEF PairPeriod
<1>4. n \in Nat \ {0}
  BY <1>1
<1> QED
  BY <1>0, <1>a, <1>1, <1>2, <1>3, <1>4

(* A parsed fade has the given colors in front, and can be started.        *)
LEMMA ParsedFade ==
  ASSUME NEW x \in Fades
  PROVE  /\ Parsed(x) \in Fade /\ Parsed(x).keyframe = x /\ Parsed(x).len = Len(x.given)
         /\ Startable(Parsed(x))
<1>0. PICK g : g = x.given
  OBVIOUS
<1>1. g \in Seq(Colors) /\ Len(g) \in Nat /\ Len(g) <= MaxInput /\ x.repeat \in Int
  BY <1>0, FadeFacts, CellFacts
<1>2. /\ Parsed(x).kind = "fade" /\ Parsed(x).keyframe = x /\ Parsed(x).repeat = x.repeat
      /\ Parsed(x).colors = [i \in Cells |-> IF i < Len(g) THEN g[i + 1] ELSE Black]
      /\ Parsed(x).len = Len(g)
  BY <1>0 DEF Parsed
<1>3. \A i \in Cells : i \in Nat
  BY CellFacts
<1>4. [i \in Cells |-> IF i < Len(g) THEN g[i + 1] ELSE Black] \in [Cells -> Shades]
  <2>0. \A i \in Cells : i < Len(g) => i + 1 \in 1 .. Len(g)
    BY <1>1, <1>3
  <2>1. \A i \in Cells : i < Len(g) => g[i + 1] \in Colors
    BY <1>1, <2>0
  <2> QED
    BY <2>1 DEF Shades
<1>5. Parsed(x) \in Fade
  BY <1>0, <1>1, <1>4 DEF Parsed, Fade
<1>6. Given(Parsed(x))
  <2>1. \A i \in 0 .. Len(g) - 1 : i \in Cells /\ i < Len(g)
    BY <1>1, CellFacts
  <2> QED
    BY <1>0, <1>2, <2>1 DEF Given
<1> QED
  BY <1>0, <1>2, <1>5, <1>6 DEF Startable

(* render_init: what it does to the list, and that a list nothing is       *)
(* pushed to stays as it was given.                                        *)
LEMMA RenderInitFade ==
  ASSUME NEW f \in Fade, Startable(f), NEW rate \in Framerates, NEW now \in Shades
  PROVE  LET r == RenderInit(f, rate, now) IN
           /\ r \in Fade /\ r.keyframe = f.keyframe /\ r.repeat = f.repeat
           /\ Listed(r) /\ Timed(r, rate) /\ r.index = 0
           /\ InitCells(f) \subseteq Cells => r.len <= MaxInput + 1
           /\ ~f.keyframe.push => InitCells(f) \subseteq Cells
<1>0. PICK len, finish, pair, colors, r :
        /\ len = f.len + (IF Pushes(f) THEN 1 ELSE 0)
        /\ finish = FinishTime(f.keyframe, rate) /\ pair = PairPeriod(finish, len)
        /\ colors = IF ~Pushes(f) THEN f.colors
                    ELSE [i \in Cells |-> CASE i = 0 -> now
                                            [] i \in 1 .. ShiftTop(f) -> f.colors[i - 1]
                                            [] OTHER -> f.colors[i]]
        /\ r = RenderInit(f, rate, now)
  OBVIOUS
<1>1. f.len \in Nat /\ f.keyframe \in Fades /\ f.colors \in [Cells -> Shades]
  BY DEF Fade
<1>2. len \in Nat /\ finish \in Nat /\ pair \in Nat
  BY <1>0, <1>1, Periods
<1>3. colors \in [Cells -> Shades]
  <2>1. CASE ~Pushes(f)
    BY <1>0, <1>1, <2>1
  <2>2. CASE Pushes(f)
    <3>1. \A i \in Cells : i \in 1 .. ShiftTop(f) => i - 1 \in Cells
      <4>3. PICK top : top = ShiftTop(f)
        OBVIOUS
      <4> QED
        BY CellFacts, <4>3
    <3>2. \A i \in Cells : (CASE i = 0 -> now
                              [] i \in 1 .. ShiftTop(f) -> f.colors[i - 1]
                              [] OTHER -> f.colors[i]) \in Shades
      <4> SUFFICES ASSUME NEW i \in Cells
                   PROVE  (CASE i = 0 -> now
                              [] i \in 1 .. ShiftTop(f) -> f.colors[i - 1]
                              [] OTHER -> f.colors[i]) \in Shades
        OBVIOUS
      <4>1. ~(i = 0 /\ i \in 1 .. ShiftTop(f))
        BY CellFacts
      <4> QED
        BY <1>1, <3>1, <4>1
    <3> QED
      BY <1>0, <2>2, <3>2
  <2> QED
    BY <2>1, <2>2
<1>4. r = [f EXCEPT !.colors = colors, !.len = len, !.finish = finish, !.pair = pair, !.index = 0]
  BY <1>0 DEF RenderInit
<1>5. r = [kind |-> f.kind, keyframe |-> f.keyframe, repeat |-> f.repeat, colors |-> colors,
           len |-> len, finish |-> finish, pair |-> pair, index |-> 0]
  BY <1>4 DEF Fade
<1>6. r \in Fade /\ r.keyframe = f.keyframe /\ r.repeat = f.repeat /\ r.index = 0
  BY <1>2, <1>3, <1>5 DEF Fade
<1>7. Timed(r, rate)
  BY <1>0, <1>5 DEF Timed
<1>8. PICK n : n = Len(f.keyframe.given)
  OBVIOUS
<1>9. n \in Nat /\ n <= MaxInput /\ MaxInput \in 2 .. 254
      /\ \A i : i \in Cells <=> i \in 0 .. MaxInput
  BY <1>1, <1>8, FadeFacts, CellFacts
<1>10. ~f.keyframe.push => (Pushes(f) <=> f.len = 1)
  BY DEF Pushes
<1>11. Listed(r)
  <2> SUFFICES ASSUME ~f.keyframe.push PROVE Listed(r)
    BY <1>6 DEF Listed
  <2>1. f.len = n \/ (n = 1 /\ f.len = 2)
    BY <1>8 DEF Startable
  <2>2. len = IF n = 1 THEN 2 ELSE n
    BY <1>0, <1>9, <1>10, <2>1
  <2>3. n >= 2 => Given(f) /\ ~Pushes(f)
    BY <1>8, <1>9, <1>10, <2>1 DEF Startable
  <2>4. n >= 2 => Given(r)
    BY <1>0, <1>5, <1>6, <2>3 DEF Given
  <2> QED
    BY <1>5, <1>6, <1>8, <2>2, <2>4 DEF Listed
<1>12. InitCells(f) \subseteq Cells => r.len <= MaxInput + 1
  <2> SUFFICES ASSUME InitCells(f) \subseteq Cells, len # 0 PROVE len <= MaxInput + 1
    BY <1>2, <1>5, <1>9
  <2>1. len - 1 \in 0 .. f.len - (IF Pushes(f) THEN 0 ELSE 1)
    BY <1>0, <1>1, <1>2
  <2>2. len - 1 \in Cells
    BY <2>1 DEF InitCells
  <2> QED
    BY <1>2, <1>9, <2>2
<1>13. ~f.keyframe.push => InitCells(f) \subseteq Cells
  <2> SUFFICES ASSUME ~f.keyframe.push, NEW i \in InitCells(f) PROVE i \in 0 .. MaxInput
    BY <1>9
  <2>1. f.len = n \/ (n = 1 /\ f.len = 2)
    BY <1>8 DEF Startable
  <2>2. CASE Pushes(f)
    <3>1. f.len = 1 /\ ShiftTop(f) = 0
      BY <1>10, <2>2 DEF ShiftTop, ByteRange
    <3> QED
      BY <1>9, <2>2, <3>1 DEF InitCells
  <2>3. CASE ~Pushes(f)
    BY <1>1, <1>9, <2>1, <2>3 DEF InitCells
  <2> QED
    BY <2>2, <2>3
<1> QED
  BY <1>0, <1>6, <1>7, <1>11, <1>12, <1>13

(* A fade that starts is on time at 0.                                     *)
LEMMA Restart ==
  ASSUME NEW f \in Fade, Startable(f), NEW rate \in Framerates, NEW now \in Shades
  PROVE  OnTime(RenderInit(f, rate, now), 0)
<1>0. PICK r : r = RenderInit(f, rate, now)
  OBVIOUS
<1>1. r.index = 0 /\ r \in Fade
  BY <1>0, RenderInitFade
<1>2. r.pair \in Nat
  BY <1>1 DEF Fade
<1> QED
  BY <1>0, <1>1, <1>2 DEF OnTime

(* A fade is not NoFade, and has fields of these sets.                     *)
LEMMA FadeIsFade ==
  ASSUME NEW f \in Fade
  PROVE  /\ f # NoFade /\ f.keyframe \in Fades /\ f.repeat \in Int
         /\ f.colors \in [Cells -> Shades] /\ f.len \in Nat /\ f.finish \in Nat
         /\ f.pair \in Nat /\ f.index \in Nat
<1>1. f.kind = "fade" /\ NoFade.kind = "none"
  BY DEF Fade, NoFade
<1> QED
  BY <1>1 DEF Fade

(* A started fade can be started again.                                    *)
LEMMA ListedStartable ==
  ASSUME NEW f \in Fade, Listed(f)
  PROVE  Startable(f)
BY DEF Listed, Startable

-----------------------------------------------------------------------------
(* One frame. *)
(* The index follows the time, and changes nothing else.                   *)
LEMMA IndexedFade ==
  ASSUME NEW f \in Fade, NEW time \in Nat \ {0}, OnTime(f, time - 1)
  PROVE  LET g == Indexed(f, time) IN
           /\ g \in Fade /\ g.keyframe = f.keyframe /\ g.repeat = f.repeat
           /\ g.colors = f.colors /\ g.len = f.len
           /\ g.finish = f.finish /\ g.pair = f.pair
           /\ OnTime(g, time)
<1>0. PICK g, i, p : g = Indexed(f, time) /\ i = f.index /\ p = f.pair
  OBVIOUS
<1>1. i \in Nat /\ p \in Nat
  BY <1>0, FadeIsFade
<1>2. /\ (i + 1) * p = i * p + p /\ ((i + 1) + 1) * p = (i + 1) * p + p
      /\ i * p \in Int /\ (i + 1) * p \in Int
  BY <1>1
<1>3. IF p = 0 THEN i = 0 ELSE i * p <= time - 1 /\ time - 1 < (i + 1) * p
  BY <1>0 DEF OnTime
<1>4. CASE time = (i + 1) * p
  <2>1. g = [f EXCEPT !.index = i + 1]
    BY <1>0, <1>4 DEF Indexed
  <2>2. g = [kind |-> f.kind, keyframe |-> f.keyframe, repeat |-> f.repeat, colors |-> f.colors,
             len |-> f.len, finish |-> f.finish, pair |-> f.pair, index |-> i + 1]
    BY <1>0, <2>1 DEF Fade
  <2>3. i + 1 \in Nat
    BY <1>1
  <2>4. g \in Fade
    BY <2>2, <2>3 DEF Fade
  <2>5. p # 0
    BY <1>1, <1>4
  <2>6. g.index = i + 1 /\ g.pair = p
    BY <1>0, <2>2
  <2>7. (i + 1) * p <= time /\ time < ((i + 1) + 1) * p
    BY <1>1, <1>2, <1>4, <2>5
  <2>8. OnTime(g, time)
    BY <2>5, <2>6, <2>7 DEF OnTime
  <2> QED
    BY <1>0, <2>2, <2>4, <2>8
<1>5. CASE time # (i + 1) * p
  <2>1. g = f
    BY <1>0, <1>5 DEF Indexed
  <2>2. p # 0 => i * p <= time /\ time < (i + 1) * p
    BY <1>1, <1>2, <1>3, <1>5
  <2> QED
    BY <1>0, <1>3, <2>1, <2>2 DEF OnTime
<1> QED
  BY <1>4, <1>5

(* On time, the frames of a bounded fade stay inside the array, and an     *)
(* exact fade is at its last color, exactly then, when it finishes.        *)
LEMMA InsideCells ==
  ASSUME NEW g \in Fade, NEW rate \in Framerates, NEW time \in Nat \ {0},
         Listed(g), Timed(g, rate), OnTime(g, time),
         time = 1 \/ time - 1 < g.finish, Bounded(g.keyframe, rate)
  PROVE  /\ FrameCells(g) \subseteq Cells
         /\ Exact(g.keyframe, rate) =>
              /\ g.index <= Len(g.keyframe.given) - 1
              /\ time >= g.finish => /\ time = g.index * g.pair
                                     /\ g.index = Len(g.keyframe.given) - 1
<1>0. PICK i, p, n, fin : /\ i = g.index /\ p = g.pair /\ fin = g.finish
                          /\ n = Len(g.keyframe.given)
  OBVIOUS
<1>1. /\ i \in Nat /\ p \in Nat /\ fin \in Nat /\ g.len \in Nat
      /\ g.keyframe \in Fades
  BY <1>0, FadeIsFade
<1>2. n \in Nat /\ n <= MaxInput /\ MaxInput \in Nat /\ MaxInput >= 2
  BY <1>0, <1>1, FadeFacts, CellFacts
<1>3. fin = FinishTime(g.keyframe, rate) /\ p = PairPeriod(fin, g.len)
  BY <1>0 DEF Timed
<1>4. IF p = 0 THEN i = 0 ELSE i * p <= time /\ time < (i + 1) * p
  BY <1>0 DEF OnTime
<1>5. ~g.keyframe.push /\ g.len = IF n = 1 THEN 2 ELSE n
  BY <1>0 DEF Bounded, Listed
<1>6. fin # 0 => time <= fin
  BY <1>0, <1>1
<1>7. ASSUME i + 1 <= MaxInput PROVE FrameCells(g) \subseteq Cells
  <2>1. i \in Cells /\ i + 1 \in Cells
    BY <1>1, <1>2, <1>7, CellFacts
  <2> QED
    BY <1>0, <2>1 DEF FrameCells
<1>8. CASE n < 2
  <2>1. ~Exact(g.keyframe, rate)
    BY <1>0, <1>2, <1>8 DEF Exact
  <2>2. CASE n = 0
    <3>1. p = 0
      BY <1>3, <1>5, <2>2 DEF PairPeriod
    <3> QED
      BY <1>2, <1>4, <1>7, <2>1, <3>1
  <2>3. CASE n = 1
    <3>1. p = fin
      BY <1>1, <1>3, <1>5, <2>3 DEF PairPeriod
    <3>2. CASE fin = 0
      BY <1>2, <1>4, <1>7, <2>1, <3>1, <3>2
    <3>3. CASE fin # 0
      <4>1. i * fin <= 1 * fin
        BY <1>1, <1>4, <1>6, <3>1, <3>3
      <4>2. 1 < i => 1 * fin + fin <= i * fin
        BY <1>1, Products
      <4>3. i * fin \in Int
        BY <1>1
      <4>4. i <= 1
        BY <1>1, <3>3, <4>1, <4>2, <4>3
      <4> QED
        BY <1>1, <1>2, <1>7, <2>1, <4>4
    <3> QED
      BY <3>2, <3>3
  <2> QED
    BY <1>2, <1>8, <2>2, <2>3
<1>9. CASE Exact(g.keyframe, rate)
  <2>1. n >= 2 /\ PairPeriod(fin, n) \in Nat \ {0} /\ fin \in Nat \ {0}
    BY <1>0, <1>1, <1>2, <1>3, <1>9, ExactPeriods
  <2>2. fin = (n - 1) * PairPeriod(fin, n)
    BY <1>0, <1>1, <1>3, <1>9, ExactPeriods
  <2>3. p = PairPeriod(fin, n)
    BY <1>2, <1>3, <1>5, <2>1
  <2>4. p \in Nat \ {0} /\ fin = (n - 1) * p
    BY <2>1, <2>2, <2>3
  <2>5. i * p <= time /\ time < (i + 1) * p /\ time <= fin
    BY <1>4, <1>6, <2>1, <2>4
  <2>6. /\ i * p \in Int /\ (n - 1) * p \in Int /\ (i + 1) * p = i * p + p
        /\ (n - 1 < i => (n - 1) * p + p <= i * p)
        /\ (i < n - 1 => i * p + p <= (n - 1) * p)
    BY <1>1, <1>2, Products
  <2>7. i <= n - 1
    BY <1>1, <1>2, <2>4, <2>5, <2>6
  <2>8. FrameCells(g) \subseteq Cells
    <3>1. i + 1 <= MaxInput
      BY <1>1, <1>2, <2>7
    <3> QED
      BY <1>7, <3>1
  <2>9. time >= fin => time = i * p /\ i = n - 1
    <3> SUFFICES ASSUME time >= fin PROVE time = i * p /\ i = n - 1
      OBVIOUS
    <3>1. time = (n - 1) * p
      BY <1>1, <2>4, <2>5
    <3>2. i = n - 1
      BY <1>1, <1>2, <2>4, <2>5, <2>6, <2>7, <3>1
    <3> QED
      BY <3>1, <3>2
  <2> QED
    BY <1>0, <2>7, <2>8, <2>9
<1> QED
  BY <1>0, <1>2, <1>8, <1>9 DEF Bounded

(* The frame of cells inside the array shows a color of the array, the     *)
(* cell at index exactly for a step fade and at the start of a pair.       *)
LEMMA ShownShades ==
  ASSUME NEW g \in Fade, FrameCells(g) \subseteq Cells, NEW time \in Nat
  PROVE  /\ Shown(g, time) \subseteq Shades /\ g.index \in Cells
         /\ g.keyframe.type = "step" => Shown(g, time) = {g.colors[g.index]}
         /\ time = g.index * g.pair => Shown(g, time) = {g.colors[g.index]}
<1>1. g.colors \in [Cells -> Shades] /\ Between \in Shades
  BY FadeIsFade DEF Shades
<1>2. g.index \in Cells
  BY DEF FrameCells
<1>3. CASE g.keyframe.type = "step" \/ g.pair = 0 \/ time = g.index * g.pair
  <2>1. Shown(g, time) = {g.colors[g.index]}
    BY <1>3 DEF Shown
  <2>2. g.colors[g.index] \in Shades
    BY <1>1, <1>2
  <2> QED
    BY <1>2, <2>1, <2>2
<1>4. CASE ~(g.keyframe.type = "step" \/ g.pair = 0 \/ time = g.index * g.pair)
  <2>1. g.index + 1 \in Cells
    BY <1>4 DEF FrameCells
  <2>2. g.colors[g.index] \in Shades /\ g.colors[g.index + 1] \in Shades
    BY <1>1, <1>2, <2>1
  <2>3. Shown(g, time) \subseteq {g.colors[g.index], Between, g.colors[g.index + 1]}
    BY <1>4 DEF Shown
  <2> QED
    BY <1>1, <1>2, <1>4, <2>2, <2>3
<1> QED
  BY <1>3, <1>4

(* A fade that was just started satisfies the invariant of its play.       *)
LEMMA StartedPlay ==
  ASSUME NEW r \in Fade, NEW rate, framerate' = rate, fade' = r, framecount' = 0,
         NEW f, overrun' = ~(InitCells(f) \subseteq Cells), Timed(r, rate), r.index = 0,
         OnTime(r, 0), InitCells(f) \subseteq Cells => r.len <= MaxInput + 1
  PROVE  PlayInv'
<1> SUFFICES ASSUME ~overrun'
             PROVE  /\ fade'.len <= MaxInput + 1 /\ fade'.index \in Cells
                    /\ Timed(fade', framerate') /\ OnTime(fade', framecount')
                    /\ framecount' = 0
  BY DEF PlayInv
<1>1. r.len <= MaxInput + 1
  OBVIOUS
<1>2. 0 \in Cells
  BY CellFacts
<1> QED
  BY <1>1, <1>2

(* One frame of a fade that is on time, its first one or a later one: the  *)
(* overrun, the frame before the finish, the end of the last play, and the *)
(* end of a play that is repeated.                                         *)
LEMMA RenderStep ==
  ASSUME overrun = FALSE, TypeInv, NEW f \in Fade, Listed(f), f.len <= MaxInput + 1,
         Timed(f, framerate), NEW time \in Nat \ {0}, OnTime(f, time - 1),
         time = 1 \/ time - 1 < f.finish, Render(f, time)
  PROVE  IInv'
<1>0. PICK g : g = Indexed(f, time)
  OBVIOUS
<1>1. /\ g \in Fade /\ g.keyframe = f.keyframe /\ g.repeat = f.repeat
      /\ g.colors = f.colors /\ g.len = f.len /\ g.finish = f.finish /\ g.pair = f.pair
      /\ OnTime(g, time)
  BY <1>0, IndexedFade
<1>2. /\ g # NoFade /\ g.keyframe \in Fades /\ g.repeat \in Int /\ g.colors \in [Cells -> Shades]
      /\ g.len \in Nat /\ g.finish \in Nat /\ g.pair \in Nat /\ g.index \in Nat
  BY <1>1, FadeIsFade
<1>3. Listed(g) /\ Timed(g, framerate) /\ (time = 1 \/ time - 1 < g.finish)
  BY <1>1 DEF Listed, Given, Timed
<1>4. framerate \in Framerates /\ framecount \in Nat /\ color \in Shades
  BY DEF TypeInv
<1>5. Bounded(g.keyframe, framerate) => FrameCells(g) \subseteq Cells
  BY <1>1, <1>3, <1>4, InsideCells
<1>6. framerate' = framerate
  BY DEF Render, Overruns
<1>7. CASE ~(FrameCells(g) \subseteq Cells)
  <2>1. /\ fade' = g /\ overrun' = TRUE /\ played' = NoFade /\ color' = color
        /\ framecount' = framecount
    BY <1>0, <1>7 DEF Render, Overruns
  <2>2. TypeInv' /\ FlagInv' /\ ListInv' /\ PlayInv'
    BY <1>1, <1>3, <1>4, <1>6, <2>1 DEF TypeInv, FlagInv, ListInv, PlayInv
  <2>3. BoundInv' /\ ExactFadesEnd'
    BY <1>5, <1>6, <1>7, <2>1 DEF BoundInv, ExactFadesEnd
  <2> QED
    BY <2>2, <2>3 DEF IInv
<1>8. CASE FrameCells(g) \subseteq Cells
  <2>1. color' \in Shown(g, time)
    BY <1>0, <1>8 DEF Render
  <2>2. color' \in Shades /\ g.index \in Cells
    BY <1>1, <1>8, <2>1, ShownShades
  <2>3. g.keyframe.type = "step" => color' = g.colors[g.index]
    BY <1>1, <1>8, <2>1, ShownShades
  <2>4. CASE ~(time >= g.finish)
    <3>1. fade' = g /\ framecount' = time /\ played' = NoFade /\ overrun' = FALSE
      BY <1>0, <1>8, <2>4 DEF Render
    <3>2. TypeInv' /\ FlagInv' /\ ListInv'
      BY <1>1, <1>3, <1>4, <1>6, <2>2, <3>1 DEF TypeInv, FlagInv, ListInv
    <3>3. PlayInv'
      <4>1. time < g.finish
        BY <1>2, <2>4
      <4> QED
        BY <1>1, <1>3, <1>6, <2>2, <2>3, <3>1, <4>1 DEF PlayInv
    <3>4. BoundInv' /\ ExactFadesEnd'
      BY <3>1 DEF BoundInv, ExactFadesEnd
    <3> QED
      BY <3>2, <3>3, <3>4 DEF IInv
  <2>5. CASE time >= g.finish
    <3>1. /\ Finishes(g, color')
          /\ framecount' = IF RepeatsLeft(g) = 0 THEN time ELSE 0
      BY <1>0, <1>8, <2>5 DEF Render
    <3>2. played' = g.keyframe
      BY <3>1 DEF Finishes
    <3>3. ExactFadesEnd'
      <4> SUFFICES ASSUME Exact(g.keyframe, framerate)
                   PROVE  color' = g.keyframe.given[Len(g.keyframe.given)]
        BY <1>6, <3>2 DEF ExactFadesEnd
      <4>1. Bounded(g.keyframe, framerate)
        BY DEF Bounded, Exact
      <4>2. time = g.index * g.pair /\ g.index = Len(g.keyframe.given) - 1
        BY <1>1, <1>3, <1>4, <2>5, <4>1, InsideCells
      <4>3. color' = g.colors[g.index]
        BY <1>1, <1>8, <2>1, <4>2, ShownShades
      <4>4. Given(g) /\ Len(g.keyframe.given) \in Nat /\ Len(g.keyframe.given) >= 2
        <5>1. ~g.keyframe.push /\ Len(g.keyframe.given) >= 2
          BY DEF Exact
        <5>2. Len(g.keyframe.given) \in Nat
          BY <1>2, FadeFacts, CellFacts
        <5> QED
          BY <1>3, <5>1, <5>2 DEF Listed
      <4>5. PICK n : n = Len(g.keyframe.given)
        OBVIOUS
      <4>6. n - 1 \in 0 .. n - 1 /\ (n - 1) + 1 = n
        BY <4>4, <4>5
      <4>7. g.colors[n - 1] = g.keyframe.given[(n - 1) + 1]
        BY <4>4, <4>5, <4>6 DEF Given
      <4> QED
        BY <4>2, <4>3, <4>5, <4>6, <4>7
    <3>4. CASE RepeatsLeft(g) = 0
      <4>1. fade' = NoFade /\ overrun' = FALSE /\ framecount' = time
        BY <3>1, <3>4 DEF Finishes
      <4> QED
        BY <1>4, <1>6, <2>2, <3>3, <4>1
        DEF IInv, TypeInv, FlagInv, ListInv, PlayInv, BoundInv
    <3>5. CASE RepeatsLeft(g) # 0
      <4>0. PICK h, r : /\ h = [g EXCEPT !.repeat = RepeatsLeft(g)]
                        /\ r = RenderInit(h, framerate, color')
        OBVIOUS
      <4>1. fade' = r /\ framecount' = 0 /\ overrun' = ~(InitCells(g) \subseteq Cells)
        BY <3>1, <3>5, <4>0 DEF Finishes
      <4>2. RepeatsLeft(g) \in Int
        BY <1>2 DEF RepeatsLeft
      <4>3. h = [kind |-> g.kind, keyframe |-> g.keyframe, repeat |-> RepeatsLeft(g),
                 colors |-> g.colors, len |-> g.len, finish |-> g.finish, pair |-> g.pair,
                 index |-> g.index]
        BY <1>1, <4>0 DEF Fade
      <4>4. h \in Fade /\ h.keyframe = g.keyframe
        BY <1>1, <4>2, <4>3 DEF Fade
      <4>5. Startable(h)
        <5>1. Listed(h)
          BY <1>3, <4>3 DEF Listed, Given
        <5> QED
          BY <4>4, <5>1, ListedStartable
      <4>s. InitCells(h) = InitCells(g)
        BY <4>3 DEF InitCells, Pushes, ShiftTop
      <4>6. /\ r \in Fade /\ r.keyframe = g.keyframe /\ Listed(r) /\ Timed(r, framerate)
            /\ r.index = 0
            /\ (InitCells(g) \subseteq Cells => r.len <= MaxInput + 1)
            /\ (~g.keyframe.push => InitCells(g) \subseteq Cells)
        BY <1>4, <2>2, <4>0, <4>4, <4>5, <4>s, RenderInitFade
      <4>7. OnTime(r, 0)
        BY <1>4, <2>2, <4>0, <4>4, <4>5, Restart
      <4>8. TypeInv' /\ FlagInv' /\ ListInv'
        BY <1>4, <1>6, <2>2, <4>1, <4>6 DEF TypeInv, FlagInv, ListInv
      <4>9. PlayInv'
        BY <1>6, <4>1, <4>6, <4>7, StartedPlay
      <4>10. BoundInv'
        BY <1>6, <4>1, <4>6 DEF BoundInv, Bounded
      <4> QED
        BY <3>3, <4>8, <4>9, <4>10 DEF IInv
    <3> QED
      BY <3>4, <3>5
  <2> QED
    BY <2>4, <2>5
<1> QED
  BY <1>7, <1>8

-----------------------------------------------------------------------------
(* The invariant is inductive. *)
(* The first state has no fade.                                           *)
LEMMA Initially == Init => IInv
<1> SUFFICES ASSUME Init PROVE IInv
  OBVIOUS
<1>1. /\ fade = NoFade /\ played = NoFade /\ framecount = 0 /\ color = Black
      /\ framerate \in Framerates /\ overrun = FALSE
  BY DEF Init
<1>2. TypeInv /\ FlagInv
  BY <1>1 DEF TypeInv, FlagInv, Shades
<1>3. ListInv /\ PlayInv /\ BoundInv /\ ExactFadesEnd
  BY <1>1 DEF ListInv, PlayInv, BoundInv, ExactFadesEnd
<1> QED
  BY <1>2, <1>3 DEF IInv

(* A queued fade starts: it is parsed and initialised, and its first frame *)
(* is rendered.                                                            *)
LEMMA Started ==
  ASSUME IInv, NEW k \in Fades, StartFade(k)
  PROVE  IInv'
<1>0. PICK f, r : f = Parsed(k) /\ r = RenderInit(f, framerate, color)
  OBVIOUS
<1>1. TypeInv /\ overrun = FALSE
  BY DEF IInv, FlagInv, StartFade
<1>2. color \in Shades /\ framerate \in Framerates /\ framecount \in Nat
  BY <1>1 DEF TypeInv
<1>3. f \in Fade /\ f.keyframe = k /\ Startable(f)
  BY <1>0, ParsedFade
<1>4. /\ r \in Fade /\ r.keyframe = k /\ Listed(r) /\ Timed(r, framerate)
      /\ (InitCells(f) \subseteq Cells => r.len <= MaxInput + 1)
      /\ (~k.push => InitCells(f) \subseteq Cells)
  BY <1>0, <1>2, <1>3, RenderInitFade
<1>5. OnTime(r, 0)
  BY <1>0, <1>2, <1>3, Restart
<1>6. CASE InitCells(f) \subseteq Cells
  <2>1. Render(r, 1)
    BY <1>0, <1>6 DEF StartFade
  <2>2. OnTime(r, 1 - 1)
    BY <1>5
  <2>3. r.len <= MaxInput + 1 /\ 1 \in Nat \ {0}
    BY <1>4, <1>6
  <2> QED
    BY <1>1, <1>4, <2>1, <2>2, <2>3, RenderStep
<1>7. CASE ~(InitCells(f) \subseteq Cells)
  <2>1. /\ fade' = r /\ overrun' = TRUE /\ played' = NoFade
        /\ UNCHANGED <<framecount, color, framerate>>
    BY <1>0, <1>7 DEF StartFade, Overruns
  <2>2. ~Bounded(k, framerate)
    BY <1>4, <1>7 DEF Bounded
  <2> QED
    BY <1>2, <1>4, <2>1, <2>2
    DEF IInv, TypeInv, FlagInv, ListInv, PlayInv, BoundInv, ExactFadesEnd
<1> QED
  BY <1>6, <1>7

(* A later frame.                                                          *)
LEMMA FrameRendered ==
  ASSUME IInv, NextFrame
  PROVE  IInv'
<1>1. /\ TypeInv /\ overrun = FALSE /\ fade # NoFade /\ fade \in Fade /\ Listed(fade)
      /\ Render(fade, framecount + 1) /\ framecount \in Nat
  BY DEF IInv, TypeInv, FlagInv, ListInv, NextFrame
<1>2. /\ fade.len <= MaxInput + 1 /\ Timed(fade, framerate) /\ OnTime(fade, framecount)
      /\ framecount = 0 \/ framecount < fade.finish
  BY <1>1 DEF IInv, PlayInv
<1>3. PICK time : time = framecount + 1
  OBVIOUS
<1>4. time \in Nat \ {0} /\ time - 1 = framecount
  BY <1>1, <1>3
<1>5. time = 1 \/ time - 1 < fade.finish
  BY <1>1, <1>2, <1>3, <1>4
<1> QED
  BY <1>1, <1>2, <1>3, <1>4, <1>5, RenderStep

(* A new frame rate starts the fade again.                                 *)
LEMMA FramerateChanged ==
  ASSUME IInv, NEW rate \in Framerates, FramerateSet(rate)
  PROVE  IInv'
<1>0. PICK r : r = RenderInit(fade, rate, color)
  OBVIOUS
<1>1. /\ fade # NoFade /\ framerate' = rate /\ framecount' = 0
      /\ fade' = r /\ color' = color /\ played' = NoFade
      /\ overrun' = ~(InitCells(fade) \subseteq Cells)
  BY <1>0 DEF FramerateSet
<1>2. fade \in Fade /\ Listed(fade) /\ color \in Shades
  BY <1>1 DEF IInv, TypeInv, ListInv
<1>3. Startable(fade)
  BY <1>2, ListedStartable
<1>4. /\ r \in Fade /\ r.keyframe = fade.keyframe /\ Listed(r) /\ Timed(r, rate) /\ r.index = 0
      /\ (InitCells(fade) \subseteq Cells => r.len <= MaxInput + 1)
      /\ (~fade.keyframe.push => InitCells(fade) \subseteq Cells)
  BY <1>0, <1>2, <1>3, RenderInitFade
<1>5. OnTime(r, 0)
  BY <1>0, <1>2, <1>3, Restart
<1>6. TypeInv' /\ FlagInv' /\ ListInv' /\ ExactFadesEnd'
  BY <1>1, <1>2, <1>4 DEF TypeInv, FlagInv, ListInv, ExactFadesEnd
<1>7. PlayInv'
  BY <1>1, <1>4, <1>5, StartedPlay
<1>8. BoundInv'
  BY <1>1, <1>4 DEF BoundInv, Bounded
<1> QED
  BY <1>6, <1>7, <1>8 DEF IInv

(* Every step keeps the invariant.                                         *)
LEMMA Inductive == IInv /\ [Next]_vars => IInv'
<1> SUFFICES ASSUME IInv, [Next]_vars PROVE IInv'
  OBVIOUS
<1>1. ASSUME NEW k \in Fades, StartFade(k) PROVE IInv'
  BY <1>1, Started
<1>2. CASE NextFrame
  BY <1>2, FrameRendered
<1>3. ASSUME NEW rate \in Framerates, FramerateSet(rate) PROVE IInv'
  BY <1>3, FramerateChanged
<1>4. CASE UNCHANGED vars
  BY <1>4 DEF vars, IInv, TypeInv, FlagInv, ListInv, PlayInv, BoundInv, ExactFadesEnd
<1> QED
  BY <1>1, <1>2, <1>3, <1>4 DEF Next

(* The invariant holds in every reachable state.                           *)
LEMMA Invariant == Spec => []IInv
BY Initially, Inductive, PTL DEF Spec

-----------------------------------------------------------------------------
(* Every fade is played within its finish, its index inside the array.     *)
THEOREM TypeCorrect == Spec => []TypeOK
<1>1. ASSUME IInv PROVE TypeOK
  <2>1. color \in Shades /\ framerate \in Framerates
    BY <1>1 DEF IInv, TypeInv
  <2>2. ASSUME fade # NoFade, ~overrun
        PROVE  /\ fade.colors \in [Cells -> Shades] /\ fade.len \in 0 .. MaxInput + 1
               /\ fade.index \in Cells /\ framecount \in 0 .. fade.finish
    <3>1. fade \in Fade /\ framecount \in Nat
      BY <1>1, <2>2 DEF IInv, TypeInv
    <3>2. fade.len <= MaxInput + 1 /\ fade.index \in Cells
          /\ (framecount = 0 \/ framecount < fade.finish)
      BY <1>1, <2>2 DEF IInv, PlayInv
    <3>3. fade.colors \in [Cells -> Shades] /\ fade.len \in Nat /\ fade.finish \in Nat
      BY <3>1, FadeIsFade
    <3> QED
      BY <3>1, <3>2, <3>3, CellFacts
  <2> QED
    BY <2>1, <2>2 DEF TypeOK, Shades
<1> QED
  BY <1>1, Invariant, PTL

(* No exact fade, and none of one color or none without "&", ever touches a *)
(* cell beyond the array, and the list of such a fade does not grow.       *)
THEOREM StaysInside == Spec => []StaysInArray
<1>1. IInv => StaysInArray
  BY DEF IInv, BoundInv, ListInv, Listed, Bounded, StaysInArray
<1> QED
  BY <1>1, Invariant, PTL

(* The colors of an exact step fade change on time.                        *)
THEOREM ChangesOnTime == Spec => []StepsOnTime
<1>1. ASSUME IInv PROVE StepsOnTime
  <2> SUFFICES ASSUME fade # NoFade, ~overrun, framecount > 0, fade.keyframe.type = "step",
                      Exact(fade.keyframe, framerate)
               PROVE  color = fade.keyframe.given
                                [1 + (framecount * (Len(fade.keyframe.given) - 1))
                                       \div FinishTime(fade.keyframe, framerate)]
    BY DEF StepsOnTime
  <2>0. PICK i, p, m : i = fade.index /\ p = fade.pair /\ m = Len(fade.keyframe.given) - 1
    OBVIOUS
  <2>1. /\ fade \in Fade /\ Listed(fade) /\ framerate \in Framerates
        /\ framecount \in Nat \ {0}
    BY <1>1 DEF IInv, TypeInv, ListInv
  <2>2. /\ Timed(fade, framerate) /\ OnTime(fade, framecount)
        /\ framecount < fade.finish /\ color = fade.colors[i]
    BY <1>1, <2>0, <2>1 DEF IInv, PlayInv
  <2>3. fade.keyframe \in Fades /\ i \in Nat
    BY <2>0, <2>1, FadeIsFade
  <2>4. /\ m \in Nat \ {0} /\ p \in Nat \ {0}
        /\ FinishTime(fade.keyframe, framerate) = m * p
    <3>1. ~fade.keyframe.push /\ Len(fade.keyframe.given) \in 2 .. MaxInput
      BY <2>1, <2>3, ExactPeriods
    <3>2. Len(fade.keyframe.given) \in Nat /\ Len(fade.keyframe.given) >= 2
      BY <3>1, CellFacts
    <3>3. fade.len = Len(fade.keyframe.given)
      <4>1. fade.len = IF Len(fade.keyframe.given) = 1 THEN 2 ELSE Len(fade.keyframe.given)
        BY <2>1, <3>1 DEF Listed
      <4>2. Len(fade.keyframe.given) # 1
        <5>1. PICK n : n = Len(fade.keyframe.given)
          OBVIOUS
        <5>2. n \in Nat /\ n >= 2
          BY <3>2, <5>1
        <5>3. n # 1
          BY <5>2
        <5> QED
          BY <5>1, <5>3
      <4> QED
        BY <4>1, <4>2
    <3>4. p = PairPeriod(FinishTime(fade.keyframe, framerate), Len(fade.keyframe.given))
      BY <2>0, <2>2, <3>3 DEF Timed
    <3>5. p \in Nat \ {0} /\ FinishTime(fade.keyframe, framerate) = m * p
      BY <2>0, <2>1, <2>3, <3>4, ExactPeriods
    <3>6. m \in Nat \ {0}
      <4>1. PICK n : n = Len(fade.keyframe.given)
        OBVIOUS
      <4>2. n \in Nat /\ n >= 2 /\ m = n - 1
        BY <2>0, <3>2, <4>1
      <4> QED
        BY <4>2
    <3> QED
      BY <3>5, <3>6
  <2>5. i * p <= framecount /\ framecount < (i + 1) * p
    BY <2>0, <2>2, <2>4 DEF OnTime
  <2>6. (framecount * m) \div (p * m) = i
    BY <2>1, <2>3, <2>4, <2>5, Cancel
  <2>7. p * m = m * p
    BY <2>4
  <2>8. color = fade.keyframe.given[i + 1]
    <3>1. Given(fade)
      <4>1. ~fade.keyframe.push /\ Len(fade.keyframe.given) >= 2
        BY DEF Exact
      <4> QED
        BY <2>1, <4>1 DEF Listed
    <3>2. i <= m
      <4>1. Bounded(fade.keyframe, framerate)
        BY DEF Bounded, Exact
      <4>2. framecount = 1 \/ framecount - 1 < fade.finish
        <5>1. fade.finish \in Nat
          BY <2>1, FadeIsFade
        <5> QED
          BY <2>1, <2>2, <5>1
      <4> QED
        BY <2>0, <2>1, <2>2, <4>1, <4>2, InsideCells
    <3>3. i \in 0 .. Len(fade.keyframe.given) - 1
      BY <2>0, <2>3, <2>4, <3>2
    <3> QED
      BY <2>2, <3>1, <3>3 DEF Given
  <2>9. 1 + i = i + 1
    BY <2>3
  <2> QED
    BY <2>0, <2>4, <2>6, <2>7, <2>8, <2>9
<1> QED
  BY <1>1, Invariant, PTL

(* Every play of an exact fade ends on exactly its last color.             *)
THEOREM EndsOnLast == Spec => []ExactFadesEnd
<1>1. IInv => ExactFadesEnd
  BY DEF IInv
<1> QED
  BY <1>1, Invariant, PTL
=============================================================================
