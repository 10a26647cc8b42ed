-------------------------- MODULE KeyframeProcProofs --------------------------
(***************************************************************************)
(* Proofs about KeyframeProc, for any number of channels, any queue        *)
(* length, heap, set of keyframes, repeat counts and frame rates.          *)
(*                                                                         *)
(* Everything rests on ownership: the pointers of a channel, its queue and *)
(* its current keyframe, lead to keyframes that are allocated, all         *)
(* different and no other channel's.  So a render or a restart of one      *)
(* channel changes no keyframe that another channel holds, and what is     *)
(* true of a keyframe's time and repeat count can be followed through the  *)
(* steps of the channel that owns it.                                      *)
(***************************************************************************)
EXTENDS KeyframeProc, FiniteSetTheorems, TLAPS

-----------------------------------------------------------------------------
(* The inductive invariant. *)

(* What the pointers of a channel lead to. *)
Held(c) == Queued(c) \cup ({current[c]} \ {NULL})

OwnershipInv ==
  /\ \A c \in Channels : \A o \in Held(c) : heap[o] \in Keyframe
  /\ \A c, d \in Channels : \A o \in Held(c) : o \in Held(d) => c = d
  /\ \A c \in Channels : current[c] \notin Queued(c)
  /\ \A c \in Channels : \A i, j \in 1 .. Len(queue[c]) :
       queue[c][i] = queue[c][j] => i = j

(* The plays that a keyframe of history h has left are its repeat count. *)
PlaysLeft(h, repeat) ==
  /\ h.asked > 0 => repeat > 0 /\ h.plays + repeat = h.asked
  /\ h.asked = 0 => h.plays = 0 /\ repeat = 0
  /\ h.asked < 0 => repeat = h.asked

(* A keyframe that was freed has played as often as was asked. *)
AllPlayed(h) == h.plays = IF h.asked > 0 THEN h.asked ELSE 1

RepeatInv ==
  \A o \in Objects :
    /\ heap[o] = Free => AllPlayed(history[o])
    /\ heap[o] \in Keyframe => PlaysLeft(history[o], heap[o].repeat)

IInv == TypeOK /\ OwnershipInv /\ RepeatInv /\ TimeWithinKeyframe

-----------------------------------------------------------------------------
(* A period in frames, and a part of it. *)
LEMMA Periods ==
  ASSUME NEW halves \in Nat, NEW rate \in Nat, NEW duty \in 1 .. 99
  PROVE  LET finish == (halves * rate) \div 2 IN
           /\ finish \in Nat
           /\ (finish * duty) \div 100 \in Nat
           /\ (finish * duty) \div 100 <= finish
<1> DEFINE finish == (halves * rate) \div 2
<1>1. halves * rate \in Nat
  OBVIOUS
<1>2. finish \in Nat
  BY <1>1
<1> HIDE DEF finish
<1> DEFINE part == finish * duty
<1>3. part \in Nat /\ part <= finish * 100
  BY <1>2
<1> HIDE DEF part
<1>4. part \div 100 \in Nat /\ part \div 100 <= finish
  BY <1>2, <1>3
<1> QED
  BY <1>2, <1>4 DEF finish, part

(* A free or leaked object is no keyframe. *)
LEMMA KindsDiffer ==
  /\ Free \notin Keyframe /\ Leaked \notin Keyframe /\ Free # Leaked
  /\ \A k \in Keyframe : k # Free /\ k # Leaked
<1>1. Free.kind = "free" /\ Leaked.kind = "leaked"
  BY DEF Free, Leaked
<1>2. \A k \in Keyframe : k.kind \in {"set", "blink"}
  BY DEF Keyframe
<1> QED
  BY <1>1, <1>2

(* A keyframe switches colors before it ends. *)
WellTimed(k) == k.transition <= k.finish

(* render_init gives a keyframe its colors and times; it leaves the repeat *)
(* count alone.                                                            *)
LEMMA RenderInitKeyframe ==
  ASSUME NEW x \in Keyframe, WellTimed(x), NEW rate \in Nat, NEW now \in Colors
  PROVE  /\ RenderInit(x, rate, now) \in Keyframe
         /\ WellTimed(RenderInit(x, rate, now))
         /\ RenderInit(x, rate, now).repeat = x.repeat
         /\ RenderInit(x, rate, now).kind = x.kind
<1>1. CASE x.kind = "set"
  BY <1>1 DEF RenderInit
<1>2. CASE x.kind # "set"
  <2> DEFINE finish == (x.halves * rate) \div 2
             transition == (finish * x.duty) \div 100
             one == IF x.given1 THEN x.color1 ELSE now
             two == IF x.given2 THEN x.color2 ELSE Black
  <2>1. finish \in Nat /\ transition \in Nat /\ transition <= finish
    <3>1. x.halves \in Nat /\ x.duty \in 1 .. 99
      BY DEF Keyframe
    <3> QED
      BY <3>1, Periods
  <2>2. one \in Colors /\ two \in Colors
    BY DEF Keyframe, Colors
  <2>3. RenderInit(x, rate, now)
          = [x EXCEPT !.color1 = one, !.color2 = two,
                      !.finish = finish, !.transition = transition]
    BY <1>2 DEF RenderInit
  <2> HIDE DEF finish, transition, one, two
  <2>4. RenderInit(x, rate, now) = 
          [kind |-> x.kind, color1 |-> one, color2 |-> two, given1 |-> x.given1,
           given2 |-> x.given2, halves |-> x.halves, duty |-> x.duty,
           repeat |-> x.repeat, finish |-> finish, transition |-> transition]
    BY <2>3 DEF Keyframe
  <2> QED
    BY <2>1, <2>2, <2>4 DEF Keyframe, WellTimed
<1> QED
  BY <1>1, <1>2

(* Applying a repeat modifier, or counting a play, changes nothing else.   *)
LEMMA SetRepeat ==
  ASSUME NEW x \in Keyframe, WellTimed(x), NEW n \in Int
  PROVE  /\ [x EXCEPT !.repeat = n] \in Keyframe
         /\ WellTimed([x EXCEPT !.repeat = n])
         /\ [x EXCEPT !.repeat = n].repeat = n
BY DEF Keyframe, WellTimed

(* A frame has one of the keyframe's two colors. *)
LEMMA FrameColors ==
  ASSUME NEW x \in Keyframe, NEW time
  PROVE  FrameColor(x, time) \in Colors
BY DEF Keyframe, FrameColor

(* The queue of a channel as ring_buffer_pop and ring_buffer_push leave it.*)
LEMMA Popped ==
  ASSUME NEW s \in Seq(Objects), s # <<>>
  PROVE  /\ Head(s) = s[1] /\ Head(s) \in Objects /\ Len(s) \in Nat \ {0}
         /\ Tail(s) \in Seq(Objects) /\ Len(Tail(s)) = Len(s) - 1
         /\ \A i \in 1 .. Len(Tail(s)) : Tail(s)[i] = s[i + 1]
OBVIOUS

LEMMA Pushed ==
  ASSUME NEW s \in Seq(Objects), NEW o \in Objects
  PROVE  /\ Append(s, o) \in Seq(Objects) /\ Len(Append(s, o)) = Len(s) + 1
         /\ \A i \in 1 .. Len(s) : Append(s, o)[i] = s[i]
         /\ Append(s, o)[Len(s) + 1] = o
         /\ Len(s) \in Nat
OBVIOUS

-----------------------------------------------------------------------------
(* TypeOK by what changes it: renders and commands, or commands alone. *)
HeapTypes ==
  /\ heap \in [Objects -> Keyframe \cup {Free, Leaked}]
  /\ \A o \in Objects : heap[o] \in Keyframe => WellTimed(heap[o])

PlayTypes ==
  /\ queue \in [Channels -> Seq(Objects)]
  /\ \A c \in Channels : Len(queue[c]) < QueueLength
  /\ current \in [Channels -> Objects \cup {NULL}]
  /\ framecount \in [Channels -> 0 .. Timesteps - 1]
  /\ color \in [Channels -> Colors]
  /\ framerate \in Framerates
  /\ history \in [Objects -> [modified : BOOLEAN, asked : Int, plays : Nat]]

CommandTypes ==
  /\ modifier \in [given : BOOLEAN, count : Int]
  /\ command = NoCommand \/
       command \in [kind : {"wrapper"}, keyframe : Keyframes, channels : Seq(Nat)]

CrashType == crashed \in BOOLEAN

LEMMA TypeParts == TypeOK <=> HeapTypes /\ PlayTypes /\ CommandTypes /\ CrashType
BY DEF TypeOK, HeapTypes, PlayTypes, CommandTypes, CrashType, WellTimed

LEMMA TypePartsNext ==
  TypeOK' <=> HeapTypes' /\ PlayTypes' /\ CommandTypes' /\ CrashType'
BY DEF TypeOK, HeapTypes, PlayTypes, CommandTypes, CrashType, WellTimed

(* hal_entry gives every channel a keyframe of its own. *)
LEMMA InitInv == Init => IInv
<1> SUFFICES ASSUME Init PROVE IInv
  OBVIOUS
<1>1. framerate \in Framerates /\ framerate \in Nat /\ Black \in Colors
  BY KeyframeConstants DEF Init, Colors
<1>2. /\ Startup \in Keyframe /\ WellTimed(Startup) /\ Startup.repeat \in Int
  BY KeyframeConstants DEF WellTimed, Keyframe
<1> DEFINE first == RenderInit(Startup, framerate, Black)
<1>3. first \in Keyframe /\ WellTimed(first) /\ first.repeat = Startup.repeat
  BY <1>1, <1>2, RenderInitKeyframe
<1>4. ~Finished(first, 1)
  BY <1>1, StartupConstants
<1>5. FrameColor(first, 1) \in Colors
  BY <1>3, FrameColors
<1>6. /\ heap = [o \in Objects |-> IF o \in 1 .. NeoPixels THEN first ELSE Free]
      /\ color = [c \in Channels |-> FrameColor(first, 1)]
  BY DEF Init
<1> HIDE DEF first
<1>7. /\ 1 .. NeoPixels \subseteq Objects /\ NeoPixels \in Nat /\ HeapSize \in Nat
      /\ \A c \in Channels : c + 1 \in 1 .. NeoPixels /\ c + 1 # NULL /\ c \in Nat
  BY KeyframeConstants DEF Objects, Channels, NULL
<1>8. TypeOK
  <2>1. HeapTypes
    BY <1>3, <1>6, KindsDiffer DEF HeapTypes
  <2>2. PlayTypes
    <3>1. \A c \in Channels : queue[c] = <<>>
      BY DEF Init
    <3>2. queue \in [Channels -> Seq(Objects)] /\ \A c \in Channels : Len(queue[c]) < QueueLength
      BY <3>1, KeyframeConstants DEF Init
    <3>3. current \in [Channels -> Objects \cup {NULL}]
      BY <1>7 DEF Init
    <3>4. framecount \in [Channels -> 0 .. Timesteps - 1]
      BY KeyframeConstants DEF Init
    <3>5. color \in [Channels -> Colors]
      BY <1>5, <1>6
    <3>6. history \in [Objects -> [modified : BOOLEAN, asked : Int, plays : Nat]]
      BY <1>2 DEF Init, NoHistory
    <3> QED
      BY <1>1, <3>2, <3>3, <3>4, <3>5, <3>6 DEF PlayTypes
  <2>3. CommandTypes /\ CrashType
    <3>1. modifier = [given |-> FALSE, count |-> 0] /\ command = NoCommand /\ crashed = FALSE
      BY DEF Init, NoModifier
    <3>2. modifier \in [given : BOOLEAN, count : Int]
      BY <3>1
    <3> QED
      BY <3>1, <3>2 DEF CommandTypes, CrashType
  <2> QED
    BY <2>1, <2>2, <2>3, TypeParts
<1>9. \A c \in Channels : Held(c) = {c + 1} /\ Queued(c) = {} /\ current[c] = c + 1
  <2>1. \A c \in Channels : queue[c] = <<>> /\ current[c] = c + 1
    BY DEF Init
  <2>2. \A c \in Channels : Queued(c) = {}
    BY <2>1 DEF Queued
  <2> QED
    BY <1>7, <2>1, <2>2 DEF Held
<1>10. OwnershipInv
  <2>1. \A c \in Channels : \A o \in Held(c) : heap[o] \in Keyframe
    BY <1>3, <1>6, <1>7, <1>9
  <2>2. \A c, d \in Channels : \A o \in Held(c) : o \in Held(d) => c = d
    BY <1>7, <1>9
  <2>3. \A c \in Channels : Len(queue[c]) = 0
    BY DEF Init
  <2> QED
    BY <1>9, <2>1, <2>2, <2>3 DEF OwnershipInv
<1>11. RepeatInv
  BY <1>2, <1>3, <1>6, KindsDiffer DEF Init, RepeatInv, AllPlayed, PlaysLeft, NoHistory
<1>12. TimeWithinKeyframe
  <2>1. 1 < first.finish
    BY <1>3, <1>4 DEF Finished, Keyframe
  <2>2. \A c \in Channels : framecount[c] = 1 /\ heap[current[c]] = first
    BY <1>6, <1>7, <1>9 DEF Init
  <2> QED
    BY <2>1, <2>2 DEF TimeWithinKeyframe
<1> QED
  BY <1>8, <1>10, <1>11, <1>12 DEF IInv

(* What does not touch keyframes, queues and times keeps the invariant. *)
LEMMA CommandOnly ==
  ASSUME IInv, CommandTypes', CrashType',
         UNCHANGED <<heap, queue, current, framecount, color, framerate, history>>
  PROVE  IInv'
<1>1. TypeOK'
  BY TypeParts, TypePartsNext DEF IInv, HeapTypes, PlayTypes
<1>2. \A c : Queued(c)' = Queued(c) /\ Held(c)' = Held(c)
  BY DEF Queued, Held
<1>3. OwnershipInv'
  BY <1>2 DEF IInv, OwnershipInv
<1>4. RepeatInv' /\ TimeWithinKeyframe'
  BY DEF IInv, RepeatInv, TimeWithinKeyframe
<1> QED
  BY <1>1, <1>3, <1>4 DEF IInv

(* handler_keyframe_mod_repeat, and the wrapper's entry and exits. *)
LEMMA RepeatModifierInv ==
  ASSUME IInv, NEW n \in Repeats, RepeatModifier(n)
  PROVE  IInv'
<1>1. CommandTypes' /\ CrashType'
  BY TypeParts, KeyframeConstants DEF IInv, RepeatModifier, CommandTypes, CrashType
<1> QED
  BY <1>1, CommandOnly DEF RepeatModifier

LEMMA WrapperInv ==
  ASSUME IInv, NEW x \in Keyframes, NEW channels \in ChannelLists, Wrapper(x, channels)
  PROVE  IInv'
<1>1. AllChannels \in Seq(Nat)
  BY KeyframeConstants DEF AllChannels
<1>2. channels \in Seq(Nat)
  BY KeyframeConstants
<1>3. CommandTypes' /\ CrashType'
  BY <1>1, <1>2, TypeParts DEF IInv, Wrapper, CommandTypes, CrashType
<1> QED
  BY <1>3, CommandOnly DEF Wrapper

LEMMA CloneFailsInv == IInv /\ CloneFails => IInv'
<1> SUFFICES ASSUME IInv, CloneFails PROVE IInv'
  OBVIOUS
<1>1. CommandTypes' /\ CrashType'
  BY TypeParts DEF IInv, CloneFails, CommandTypes, CrashType
<1> QED
  BY <1>1, CommandOnly DEF CloneFails

LEMMA WrapperReturnInv == IInv /\ WrapperReturn => IInv'
<1> SUFFICES ASSUME IInv, WrapperReturn PROVE IInv'
  OBVIOUS
<1>1. CommandTypes' /\ CrashType'
  BY TypeParts DEF IInv, WrapperReturn, CommandTypes, CrashType, NoModifier
<1> QED
  BY <1>1, CommandOnly DEF WrapperReturn

-----------------------------------------------------------------------------
(* One turn of the loop over a command's channels. *)
LEMMA CloneAndPushInv == IInv /\ CloneAndPush => IInv'
<1> SUFFICES ASSUME IInv, CloneAndPush PROVE IInv'
  OBVIOUS
<1>0. PICK o, c, asked, new :
        /\ o = CHOOSE x \in FreeObjects : TRUE
        /\ c = Head(command.channels) - 1
        /\ asked = IF modifier.given THEN modifier.count ELSE command.keyframe.repeat
        /\ new = [command.keyframe EXCEPT !.repeat = asked]
  OBVIOUS
<1>1. HeapTypes /\ PlayTypes /\ CommandTypes /\ CrashType
  BY TypeParts DEF IInv
<1>2. o \in Objects /\ heap[o] = Free
  <2>1. o \in FreeObjects
    BY <1>0 DEF CloneAndPush
  <2> QED
    BY <2>1 DEF FreeObjects
<1>3. /\ UNCHANGED <<current, framecount, color, framerate, modifier, crashed>>
      /\ command' = [command EXCEPT !.channels = Tail(@)]
      /\ command # NoCommand /\ command.channels # <<>>
      /\ IF Accepts(c)
         THEN /\ heap' = [heap EXCEPT ![o] = new]
              /\ history' = [history EXCEPT ![o] =
                               [modified |-> modifier.given, asked |-> asked, plays |-> 0]]
              /\ queue' = [queue EXCEPT ![c] = Append(@, o)]
         ELSE /\ heap' = [heap EXCEPT ![o] = Leaked]
              /\ history' = [history EXCEPT ![o] = NoHistory]
              /\ UNCHANGED queue
  BY <1>0 DEF CloneAndPush
<1>4. command \in [kind : {"wrapper"}, keyframe : Keyframes, channels : Seq(Nat)]
  BY <1>1, <1>3 DEF CommandTypes
<1>5. modifier \in [given : BOOLEAN, count : Int]
  BY <1>1 DEF CommandTypes
<1>6. asked \in Int /\ new \in Keyframe /\ WellTimed(new) /\ new.repeat = asked
  <2>1. command.keyframe \in Keyframe /\ WellTimed(command.keyframe)
    BY <1>4, KeyframeConstants DEF WellTimed
  <2>2. command.keyframe.repeat \in Int
    BY <2>1 DEF Keyframe
  <2>3. asked \in Int
    BY <1>0, <1>5, <2>2
  <2> QED
    BY <1>0, <2>1, <2>3, SetRepeat
<1>7. CommandTypes'
  <2>1. Tail(command.channels) \in Seq(Nat)
    BY <1>3, <1>4
  <2>2. command' \in [kind : {"wrapper"}, keyframe : Keyframes, channels : Seq(Nat)]
    BY <1>3, <1>4, <2>1
  <2> QED
    BY <1>1, <1>3, <2>2 DEF CommandTypes
<1>8. CrashType'
  BY <1>1, <1>3 DEF CrashType
<1>9. /\ heap \in [Objects -> Keyframe \cup {Free, Leaked}]
      /\ history \in [Objects -> [modified : BOOLEAN, asked : Int, plays : Nat]]
      /\ queue \in [Channels -> Seq(Objects)]
  BY <1>1 DEF HeapTypes, PlayTypes
<1>10. \A d \in Channels : o \notin Held(d)
  BY <1>2, KindsDiffer DEF IInv, OwnershipInv
<1>11. HeapTypes' /\ \A p \in Objects : p # o => heap'[p] = heap[p]
  <2>1. /\ heap' \in [Objects -> Keyframe \cup {Free, Leaked}]
        /\ \A p \in Objects : p # o => heap'[p] = heap[p]
    BY <1>3, <1>6, <1>9
  <2>2. heap'[o] = new \/ heap'[o] = Leaked
    BY <1>2, <1>3, <1>9
  <2> QED
    BY <1>1, <1>6, <2>1, <2>2, KindsDiffer DEF HeapTypes
<1>12. RepeatInv' /\ history' \in [Objects -> [modified : BOOLEAN, asked : Int, plays : Nat]]
  <2>1. modifier.given \in BOOLEAN
    BY <1>5
  <2>2. history' \in [Objects -> [modified : BOOLEAN, asked : Int, plays : Nat]]
    <3>1. [modified |-> modifier.given, asked |-> asked, plays |-> 0]
            \in [modified : BOOLEAN, asked : Int, plays : Nat]
      BY <1>6, <2>1
    <3>2. NoHistory \in [modified : BOOLEAN, asked : Int, plays : Nat]
      BY DEF NoHistory
    <3> QED
      BY <1>3, <1>9, <3>1, <3>2
  <2>3. \A p \in Objects : p # o => heap'[p] = heap[p] /\ history'[p] = history[p]
    BY <1>3, <1>9, <1>11
  <2>4. CASE Accepts(c)
    <3>1. heap'[o] = new /\ history'[o].asked = asked /\ history'[o].plays = 0
      BY <1>2, <1>3, <1>9, <2>4
    <3>2. PlaysLeft(history'[o], heap'[o].repeat)
      BY <1>6, <3>1 DEF PlaysLeft
    <3> QED
      BY <1>6, <2>2, <2>3, <3>1, <3>2, KindsDiffer DEF IInv, RepeatInv
  <2>5. CASE ~Accepts(c)
    <3>1. heap'[o] = Leaked
      BY <1>2, <1>3, <1>9, <2>5
    <3> QED
      BY <2>2, <2>3, <3>1, KindsDiffer DEF IInv, RepeatInv
  <2> QED
    BY <2>4, <2>5
<1>13. ASSUME Accepts(c) PROVE PlayTypes' /\ OwnershipInv'
  <2>0. PICK s : s = queue[c]
    OBVIOUS
  <2>1. /\ c \in Channels /\ Len(s) < QueueLength - 1 /\ s \in Seq(Objects)
    BY <1>9, <1>13, <2>0 DEF Accepts
  <2>2. /\ Append(s, o) \in Seq(Objects) /\ Len(Append(s, o)) = Len(s) + 1
        /\ \A i \in 1 .. Len(s) : Append(s, o)[i] = s[i]
        /\ Append(s, o)[Len(s) + 1] = o
        /\ Len(s) \in Nat
    BY <1>2, <2>1, Pushed
  <2>3. /\ queue' \in [Channels -> Seq(Objects)]
        /\ queue'[c] = Append(s, o) /\ \A d \in Channels : d # c => queue'[d] = queue[d]
    BY <1>3, <1>9, <1>13, <2>0, <2>1, <2>2
  <2>4. PlayTypes'
    <3>1. \A d \in Channels : Len(queue'[d]) < QueueLength
      <4>1. Len(queue'[c]) < QueueLength
        BY <2>1, <2>2, <2>3, KeyframeConstants
      <4>2. \A d \in Channels : d # c => Len(queue'[d]) < QueueLength
        BY <1>1, <2>3 DEF PlayTypes
      <4> QED
        BY <4>1, <4>2
    <3> QED
      BY <1>1, <1>3, <1>12, <2>3, <3>1 DEF PlayTypes
  <2>5. Queued(c)' = Queued(c) \cup {o}
    <3>1. Queued(c) = {s[i] : i \in 1 .. Len(s)}
      BY <2>0 DEF Queued
    <3>2. Queued(c)' = {Append(s, o)[i] : i \in 1 .. Len(s) + 1}
      BY <2>2, <2>3 DEF Queued
    <3>3. \A i : i \in 1 .. Len(s) + 1 <=> i \in 1 .. Len(s) \/ i = Len(s) + 1
      BY <2>2
    <3> QED
      BY <2>2, <3>1, <3>2, <3>3
  <2>6. \A d \in Channels : d # c => Queued(d)' = Queued(d)
    BY <2>3 DEF Queued
  <2>7. \A d \in Channels : Held(d)' = IF d = c THEN Held(d) \cup {o} ELSE Held(d)
    <3>1. o # NULL
      BY <1>2, KeyframeConstants DEF Objects, NULL
    <3> QED
      BY <1>3, <2>5, <2>6, <3>1 DEF Held
  <2>8. OwnershipInv'
    <3>1. \A d \in Channels : \A p \in Held(d)' : heap'[p] \in Keyframe
      <4>1. heap'[o] = new
        BY <1>2, <1>3, <1>9, <1>13
      <4>2. \A d \in Channels : \A p \in Held(d) : heap'[p] \in Keyframe
        <5>1. \A d \in Channels : \A p \in Held(d) : p \in Objects
          BY <1>9, <1>1 DEF Held, Queued, PlayTypes
        <5> QED
          BY <1>10, <1>11, <5>1 DEF IInv, OwnershipInv
      <4> QED
        BY <1>6, <2>7, <4>1, <4>2
    <3>2. \A d, e \in Channels : \A p \in Held(d)' : p \in Held(e)' => d = e
      BY <1>10, <2>7 DEF IInv, OwnershipInv
    <3>3. \A d \in Channels : current'[d] \notin Queued(d)'
      <4>1. \A d \in Channels : current[d] # o
        BY <1>2, <1>10, KeyframeConstants DEF Held, Objects, NULL
      <4> QED
        BY <1>3, <2>5, <2>6, <4>1 DEF IInv, OwnershipInv
    <3>4. \A i, j \in 1 .. Len(queue'[c]) : queue'[c][i] = queue'[c][j] => i = j
      <4>1. \A i \in 1 .. Len(s) : s[i] # o
        BY <1>10, <2>0, <2>1 DEF Held, Queued
      <4>2. \A i, j \in 1 .. Len(s) : s[i] = s[j] => i = j
        BY <2>0, <2>1 DEF IInv, OwnershipInv
      <4>3. \A i : i \in 1 .. Len(s) + 1 => i \in 1 .. Len(s) \/ i = Len(s) + 1
        BY <2>2
      <4> QED
        BY <2>2, <2>3, <4>1, <4>2, <4>3
    <3>5. \A d \in Channels \ {c} : \A i, j \in 1 .. Len(queue'[d]) :
            queue'[d][i] = queue'[d][j] => i = j
      BY <2>3 DEF IInv, OwnershipInv
    <3> QED
      BY <3>1, <3>2, <3>3, <3>4, <3>5 DEF OwnershipInv
  <2> QED
    BY <2>4, <2>8
<1>14. ASSUME ~Accepts(c) PROVE PlayTypes' /\ OwnershipInv'
  <2>1. queue' = queue /\ current' = current
    BY <1>3, <1>14
  <2>2. PlayTypes'
    BY <1>1, <1>3, <1>12, <2>1 DEF PlayTypes
  <2>3. \A d : Queued(d)' = Queued(d) /\ Held(d)' = Held(d)
    BY <2>1 DEF Queued, Held
  <2>4. \A d \in Channels : \A p \in Held(d) : p \in Objects
    BY <1>9, <1>1 DEF Held, Queued, PlayTypes
  <2>5. OwnershipInv'
    BY <1>10, <1>11, <2>1, <2>3, <2>4 DEF IInv, OwnershipInv
  <2> QED
    BY <2>2, <2>5
<1>15. TimeWithinKeyframe'
  <2>1. \A d \in Channels : current[d] # NULL => current[d] \in Objects /\ current[d] # o
    BY <1>1, <1>10 DEF PlayTypes, Held
  <2> QED
    BY <1>3, <1>11, <2>1 DEF IInv, TimeWithinKeyframe
<1> QED
  BY <1>7, <1>8, <1>11, <1>12, <1>13, <1>14, <1>15, TypePartsNext DEF IInv

-----------------------------------------------------------------------------
(* A render. *)

(* What a channel renders and what that replaces are two of its own. *)
LEMMA RenderOwns ==
  ASSUME IInv, NEW c \in Channels
  PROVE  /\ Held(c) \subseteq Objects /\ NULL \notin Held(c)
         /\ Rendered(c) # NULL => Rendered(c) \in Held(c)
         /\ Replaced(c) # NULL => Replaced(c) \in Held(c) /\ Replaced(c) # Rendered(c)
<1>1. /\ queue[c] \in Seq(Objects) /\ current[c] \in Objects \cup {NULL}
      /\ NULL \notin Objects
  BY TypeParts, KeyframeConstants DEF IInv, PlayTypes, Objects, NULL
<1>2. Queued(c) \subseteq Objects
  BY <1>1 DEF Queued
<1>3. Held(c) \subseteq Objects /\ NULL \notin Held(c)
  BY <1>1, <1>2 DEF Held
<1>4. CASE Takes(c)
  <2>1. Rendered(c) = queue[c][1] /\ 1 \in 1 .. Len(queue[c])
    BY <1>1, <1>4, Popped DEF Takes, Rendered
  <2>2. Rendered(c) \in Queued(c)
    BY <2>1 DEF Queued
  <2>3. current[c] \notin Queued(c)
    BY DEF IInv, OwnershipInv
  <2> QED
    BY <1>3, <1>4, <2>2, <2>3 DEF Held, Replaced
<1>5. CASE ~Takes(c)
  BY <1>3, <1>5 DEF Held, Rendered, Replaced
<1> QED
  BY <1>4, <1>5

(* A render takes the first of a queue, so what it renders and replaces is *)
(* not queued any more.                                                    *)
LEMMA RenderQueue ==
  ASSUME IInv, RenderFrame, NEW c \in Channels
  PROVE  /\ queue'[c] \in Seq(Objects) /\ Len(queue'[c]) < QueueLength
         /\ Queued(c)' \subseteq Queued(c)
         /\ Rendered(c) \notin Queued(c)' /\ Replaced(c) \notin Queued(c)'
         /\ \A i, j \in 1 .. Len(queue'[c]) : queue'[c][i] = queue'[c][j] => i = j
<1>0. PICK s : s = queue[c]
  OBVIOUS
<1>1. /\ s \in Seq(Objects) /\ Len(s) < QueueLength /\ QueueLength \in Nat /\ Len(s) \in Nat
      /\ \A i, j \in 1 .. Len(s) : s[i] = s[j] => i = j
      /\ current[c] \notin Queued(c)
      /\ NULL \notin Objects
  BY <1>0, TypeParts, KeyframeConstants DEF IInv, PlayTypes, OwnershipInv, Objects, NULL
<1>2. Queued(c) = {s[i] : i \in 1 .. Len(s)}
  BY <1>0 DEF Queued
<1>3. NULL \notin Queued(c)
  BY <1>1, <1>2
<1>4. queue'[c] = IF s # <<>> THEN Tail(s) ELSE s
  BY <1>0 DEF RenderFrame, Takes
<1>5. CASE s # <<>>
  <2>0. PICK t : t = Tail(s)
    OBVIOUS
  <2>1. /\ Head(s) = s[1] /\ Len(s) \in Nat \ {0}
        /\ t \in Seq(Objects) /\ Len(t) = Len(s) - 1
        /\ \A i \in 1 .. Len(t) : t[i] = s[i + 1]
    BY <1>1, <1>5, <2>0, Popped
  <2>2. queue'[c] = t /\ Rendered(c) = s[1] /\ Replaced(c) = current[c]
    BY <1>0, <1>4, <1>5, <2>0, <2>1 DEF Rendered, Replaced, Takes
  <2>3. Queued(c)' = {t[i] : i \in 1 .. Len(t)}
    BY <2>2 DEF Queued
  <2>4. \A i \in 1 .. Len(t) : i + 1 \in 1 .. Len(s) /\ i + 1 # 1
    BY <2>1
  <2>5. \A i \in 1 .. Len(t) : t[i] \in Queued(c) /\ t[i] # s[1]
    BY <1>1, <1>2, <2>1, <2>4
  <2>6. \A i, j \in 1 .. Len(t) : t[i] = t[j] => i = j
    <3>1. \A i, j \in 1 .. Len(t) : i + 1 = j + 1 => i = j
      BY <2>1
    <3> QED
      BY <1>1, <2>1, <2>4, <3>1
  <2>7. Len(t) < QueueLength
    BY <1>1, <2>1
  <2> QED
    BY <1>1, <2>1, <2>2, <2>3, <2>5, <2>6, <2>7
<1>6. CASE s = <<>>
  <2>1. queue'[c] = s /\ Rendered(c) = current[c] /\ Replaced(c) = NULL
    BY <1>0, <1>4, <1>6 DEF Rendered, Replaced, Takes
  <2>2. Queued(c)' = Queued(c)
    BY <1>2, <2>1 DEF Queued
  <2> QED
    BY <1>1, <1>3, <2>1, <2>2
<1> QED
  BY <1>5, <1>6

(* The keyframe that a channel renders, before and after. *)
LEMMA RenderPlays ==
  ASSUME IInv, NEW c \in Channels, Rendered(c) # NULL
  PROVE  /\ Playing(c) \in Keyframe
         /\ Playing(c).repeat = heap[Rendered(c)].repeat
         /\ ~Ends(c) => /\ KeyframeAfter(c) \in Keyframe /\ WellTimed(KeyframeAfter(c))
                        /\ KeyframeAfter(c).repeat =
                             IF Completes(c) THEN RepeatsLeft(Playing(c))
                             ELSE Playing(c).repeat
         /\ ~Completes(c) => Time(c) < KeyframeAfter(c).finish
<1>1. /\ HeapTypes /\ framerate \in Nat /\ color[c] \in Colors
      /\ Time(c) \in Nat
  <2>1. HeapTypes /\ framerate \in Framerates /\ color[c] \in Colors
        /\ framecount[c] \in 0 .. Timesteps - 1
    BY TypeParts DEF IInv, PlayTypes
  <2> QED
    BY <2>1, KeyframeConstants DEF Time
<1>2. Rendered(c) \in Objects /\ heap[Rendered(c)] \in Keyframe
  BY RenderOwns DEF IInv, OwnershipInv
<1>3. WellTimed(heap[Rendered(c)])
  BY <1>1, <1>2 DEF HeapTypes
<1>4. /\ Playing(c) \in Keyframe /\ WellTimed(Playing(c))
      /\ Playing(c).repeat = heap[Rendered(c)].repeat
  <2>1. CASE Takes(c)
    BY <1>1, <1>2, <1>3, <2>1, RenderInitKeyframe DEF Playing
  <2>2. CASE ~Takes(c)
    BY <1>2, <1>3, <2>2 DEF Playing, Rendered
  <2> QED
    BY <2>1, <2>2
<1>5. ColorAfter(c) \in Colors
  BY <1>1, <1>4, FrameColors DEF ColorAfter
<1>6. CASE Completes(c) /\ ~Ends(c)
  <2>0. PICK n, x : n = RepeatsLeft(Playing(c)) /\ x = [Playing(c) EXCEPT !.repeat = n]
    OBVIOUS
  <2>1. n \in Int
    BY <1>4, <2>0 DEF RepeatsLeft, Keyframe
  <2>2. x \in Keyframe /\ WellTimed(x) /\ x.repeat = n
    BY <1>4, <2>0, <2>1, SetRepeat
  <2>3. KeyframeAfter(c) = RenderInit(x, framerate, ColorAfter(c))
    BY <1>6, <2>0 DEF KeyframeAfter
  <2> QED
    <3>1. /\ KeyframeAfter(c) \in Keyframe /\ WellTimed(KeyframeAfter(c))
          /\ KeyframeAfter(c).repeat = n
      BY <1>1, <1>5, <2>2, <2>3, RenderInitKeyframe
    <3> QED
      BY <1>4, <1>6, <2>0, <3>1
<1>7. CASE Ends(c)
  BY <1>4, <1>7 DEF Ends
<1>8. CASE ~Completes(c)
  <2>1. KeyframeAfter(c) = Playing(c)
    BY <1>8 DEF KeyframeAfter, Ends
  <2>2. Playing(c).finish \in Nat
    BY <1>4 DEF Keyframe
  <2>3. Time(c) < Playing(c).finish
    BY <1>1, <1>8, <2>2 DEF Completes, Finished
  <2> QED
    BY <1>4, <1>8, <2>1, <2>3
<1> QED
  BY <1>6, <1>7, <1>8

(* Frame counts wrap around at the width of a timestep_t. *)
LEMMA RenderTypes == IInv /\ RenderFrame => \A c \in Channels :
    Time(c) \in 0 .. Timesteps - 1 /\ ColorAfter(c) \in Colors
<1> SUFFICES ASSUME IInv, RenderFrame, NEW c \in Channels
             PROVE  Time(c) \in 0 .. Timesteps - 1 /\ ColorAfter(c) \in Colors
  OBVIOUS
<1>1. framecount[c] \in Nat /\ color[c] \in Colors
  BY TypeParts, KeyframeConstants DEF IInv, PlayTypes
<1>2. Time(c) \in 0 .. Timesteps - 1
  BY <1>1, KeyframeConstants DEF Time
<1>3. ColorAfter(c) \in Colors
  BY <1>1, RenderPlays, FrameColors DEF ColorAfter
<1> QED
  BY <1>2, <1>3

(* Every keyframe is rendered by its own channel, replaced by it, or left  *)
(* as it is.                                                               *)
LEMMA RenderHeap ==
  ASSUME IInv, RenderFrame
  PROVE  /\ \A c \in Channels : Rendered(c) # NULL =>
              /\ heap'[Rendered(c)] = KeyframeAfter(c)
              /\ history'[Rendered(c)] =
                   IF Completes(c) /\ Counted(history[Rendered(c)])
                   THEN [history[Rendered(c)] EXCEPT !.plays = @ + 1]
                   ELSE history[Rendered(c)]
         /\ \A c \in Channels : Replaced(c) # NULL =>
              heap'[Replaced(c)] = Leaked /\ history'[Replaced(c)] = NoHistory
         /\ \A o \in Objects :
              (\A c \in Channels : Rendered(c) # o /\ Replaced(c) # o) =>
                heap'[o] = heap[o] /\ history'[o] = history[o]
         /\ DOMAIN heap' = Objects /\ DOMAIN history' = Objects
<1>1. \A c, d \in Channels : Rendered(c) # NULL /\ Rendered(c) = Rendered(d) => c = d
  BY RenderOwns DEF IInv, OwnershipInv
<1>2. \A c, d \in Channels : Rendered(c) # NULL => Rendered(c) # Replaced(d)
  BY RenderOwns DEF IInv, OwnershipInv
<1>3. \A c \in Channels : /\ Rendered(c) # NULL => Rendered(c) \in Objects
                          /\ Replaced(c) # NULL => Replaced(c) \in Objects
  BY RenderOwns
<1>4. /\ heap' = [o \in Objects |->
            CASE \E c \in Channels : Rendered(c) = o ->
                   KeyframeAfter(CHOOSE c \in Channels : Rendered(c) = o)
              [] \E c \in Channels : Replaced(c) = o -> Leaked
              [] OTHER -> heap[o]]
      /\ history' = [o \in Objects |->
            CASE \E c \in Channels : Rendered(c) = o /\ Completes(c) /\ Counted(history[o]) ->
                   [history[o] EXCEPT !.plays = @ + 1]
              [] \E c \in Channels : Replaced(c) = o -> NoHistory
              [] OTHER -> history[o]]
  BY DEF RenderFrame
<1>5. ASSUME NEW c \in Channels, Rendered(c) # NULL
      PROVE  /\ heap'[Rendered(c)] = KeyframeAfter(c)
             /\ history'[Rendered(c)] =
                  IF Completes(c) /\ Counted(history[Rendered(c)])
                  THEN [history[Rendered(c)] EXCEPT !.plays = @ + 1]
                  ELSE history[Rendered(c)]
  <2>0. PICK o : o = Rendered(c)
    OBVIOUS
  <2>1. o \in Objects /\ \A d \in Channels : Rendered(d) = o <=> d = c
    BY <1>1, <1>3, <1>5, <2>0
  <2>2. \A d \in Channels : Replaced(d) # o
    BY <1>2, <1>5, <2>0
  <2>3. (CHOOSE d \in Channels : Rendered(d) = o) = c
    BY <2>1
  <2>4. heap'[o] = KeyframeAfter(c)
    <3>1. heap'[o] = KeyframeAfter(CHOOSE d \in Channels : Rendered(d) = o)
      BY <1>4, <2>1, <2>2
    <3> QED
      BY <2>3, <3>1
  <2>5. history'[o] = IF Completes(c) /\ Counted(history[o])
                      THEN [history[o] EXCEPT !.plays = @ + 1] ELSE history[o]
    BY <1>4, <2>1, <2>2
  <2> QED
    BY <2>0, <2>4, <2>5
<1>6. ASSUME NEW c \in Channels, Replaced(c) # NULL
      PROVE  heap'[Replaced(c)] = Leaked /\ history'[Replaced(c)] = NoHistory
  <2>0. PICK o : o = Replaced(c)
    OBVIOUS
  <2>1. o \in Objects /\ \A d \in Channels : Rendered(d) # o
    BY <1>2, <1>3, <1>6, <2>0
  <2>2. heap'[o] = Leaked
    BY <1>4, <2>0, <2>1
  <2>3. history'[o] = NoHistory
    BY <1>4, <2>0, <2>1
  <2> QED
    BY <2>0, <2>2, <2>3
<1>7. ASSUME NEW o \in Objects, \A c \in Channels : Rendered(c) # o /\ Replaced(c) # o
      PROVE  heap'[o] = heap[o] /\ history'[o] = history[o]
  BY <1>4, <1>7
<1>8. DOMAIN heap' = Objects /\ DOMAIN history' = Objects
  BY <1>4
<1> QED
  BY <1>5, <1>6, <1>7, <1>8

(* A finished play is counted on both sides; a keyframe is freed when none *)
(* is left.                                                                *)
LEMMA PlayCounted ==
  ASSUME NEW h \in [modified : BOOLEAN, asked : Int, plays : Nat], NEW x \in Keyframe,
         PlaysLeft(h, x.repeat)
  PROVE  /\ Counted(h) <=> h.asked >= 0
         /\ h.asked >= 0 =>
              IF RepeatsLeft(x) = 0 THEN AllPlayed([h EXCEPT !.plays = @ + 1])
              ELSE PlaysLeft([h EXCEPT !.plays = @ + 1], RepeatsLeft(x))
         /\ h.asked < 0 => RepeatsLeft(x) # 0 /\ PlaysLeft(h, RepeatsLeft(x))
<1>1. h.asked \in Int /\ h.plays \in Nat /\ x.repeat \in Int
  BY DEF Keyframe
<1>2. /\ [h EXCEPT !.plays = @ + 1].asked = h.asked
      /\ [h EXCEPT !.plays = @ + 1].plays = h.plays + 1
  OBVIOUS
<1> QED
  BY <1>1, <1>2 DEF PlaysLeft, AllPlayed, Counted, RepeatsLeft

(* A render keeps every channel's keyframes its own, in time and counted.  *)
LEMMA RenderFrameInv == IInv /\ RenderFrame => IInv'
<1> SUFFICES ASSUME IInv, RenderFrame PROVE IInv'
  OBVIOUS
<1>1. HeapTypes /\ PlayTypes /\ CommandTypes /\ CrashType
  BY TypeParts DEF IInv
<1>2. /\ queue' = [c \in Channels |-> IF Takes(c) THEN Tail(queue[c]) ELSE queue[c]]
      /\ current' = [c \in Channels |-> CurrentAfter(c)]
      /\ framecount' = [c \in Channels |-> IF Completes(c) /\ ~Ends(c) THEN 0 ELSE Time(c)]
      /\ color' = [c \in Channels |-> ColorAfter(c)]
      /\ UNCHANGED <<framerate, modifier, command, crashed>>
  BY DEF RenderFrame
<1>3. CommandTypes' /\ CrashType'
  BY <1>1, <1>2 DEF CommandTypes, CrashType
<1>4. \A o \in Objects :
        \/ \E c \in Channels : Rendered(c) = o /\ o # NULL
        \/ \E c \in Channels : Replaced(c) = o /\ o # NULL
        \/ heap'[o] = heap[o] /\ history'[o] = history[o]
  <2>1. NULL \notin Objects
    BY KeyframeConstants DEF Objects, NULL
  <2> QED
    BY <2>1, RenderHeap
<1>5. \A c \in Channels : Rendered(c) # NULL =>
        IF Ends(c) THEN heap'[Rendered(c)] = Free
        ELSE heap'[Rendered(c)] \in Keyframe /\ WellTimed(heap'[Rendered(c)])
  BY RenderHeap, RenderPlays DEF KeyframeAfter
<1>6. \A c \in Channels : Ends(c) => Rendered(c) # NULL /\ Completes(c)
  BY DEF Ends, Completes
<1>7. HeapTypes'
  <2>1. \A o \in Objects : \/ heap'[o] \in Keyframe /\ WellTimed(heap'[o])
                           \/ heap'[o] \in {Free, Leaked}
    <3> SUFFICES ASSUME NEW o \in Objects
                 PROVE  \/ heap'[o] \in Keyframe /\ WellTimed(heap'[o])
                        \/ heap'[o] \in {Free, Leaked}
      OBVIOUS
    <3>1. CASE \E c \in Channels : Rendered(c) = o /\ o # NULL
      BY <1>5, <3>1
    <3>2. CASE \E c \in Channels : Replaced(c) = o /\ o # NULL
      BY <3>2, RenderHeap
    <3>3. CASE heap'[o] = heap[o]
      BY <1>1, <3>3 DEF HeapTypes
    <3> QED
      BY <1>4, <3>1, <3>2, <3>3
  <2>2. heap' = [o \in Objects |-> heap'[o]]
    BY DEF RenderFrame
  <2>3. heap' \in [Objects -> Keyframe \cup {Free, Leaked}]
    BY <2>1, <2>2
  <2> QED
    BY <2>1, <2>3, KindsDiffer DEF HeapTypes
<1>8. history' \in [Objects -> [modified : BOOLEAN, asked : Int, plays : Nat]]
  <2>1. \A o \in Objects : history'[o] \in [modified : BOOLEAN, asked : Int, plays : Nat]
    <3> SUFFICES ASSUME NEW o \in Objects
                 PROVE  history'[o] \in [modified : BOOLEAN, asked : Int, plays : Nat]
      OBVIOUS
    <3>1. history[o] \in [modified : BOOLEAN, asked : Int, plays : Nat]
      BY <1>1 DEF PlayTypes
    <3>2. [history[o] EXCEPT !.plays = @ + 1] \in [modified : BOOLEAN, asked : Int, plays : Nat]
      BY <3>1
    <3>3. NoHistory \in [modified : BOOLEAN, asked : Int, plays : Nat]
      BY DEF NoHistory
    <3>4. CASE \E c \in Channels : Rendered(c) = o /\ o # NULL
      BY <3>1, <3>2, <3>4, RenderHeap
    <3>5. CASE \E c \in Channels : Replaced(c) = o /\ o # NULL
      BY <3>3, <3>5, RenderHeap
    <3> QED
      BY <1>4, <3>1, <3>4, <3>5
  <2>2. history' = [o \in Objects |-> history'[o]]
    BY DEF RenderFrame
  <2> QED
    BY <2>1, <2>2
<1>9. \A c \in Channels : CurrentAfter(c) \in {Rendered(c), NULL}
                          /\ (CurrentAfter(c) # NULL => ~Ends(c) /\ CurrentAfter(c) = Rendered(c))
  BY DEF CurrentAfter
<1>10. PlayTypes'
  <2>1. queue' \in [Channels -> Seq(Objects)] /\ \A c \in Channels : Len(queue'[c]) < QueueLength
    <3>1. \A c \in Channels : queue'[c] \in Seq(Objects) /\ Len(queue'[c]) < QueueLength
      BY RenderQueue
    <3> QED
      BY <1>2, <3>1
  <2>2. current' \in [Channels -> Objects \cup {NULL}]
    <3>1. \A c \in Channels : Rendered(c) \in Objects \cup {NULL}
      BY RenderOwns
    <3> QED
      BY <1>2, <1>9, <3>1
  <2>3. framecount' \in [Channels -> 0 .. Timesteps - 1]
    <3>1. 0 \in 0 .. Timesteps - 1
      BY KeyframeConstants
    <3>2. \A c \in Channels : Time(c) \in 0 .. Timesteps - 1
      BY RenderTypes
    <3> QED
      BY <1>2, <3>1, <3>2
  <2>4. color' \in [Channels -> Colors]
    BY <1>2, RenderTypes
  <2> QED
    BY <1>1, <1>2, <1>8, <2>1, <2>2, <2>3, <2>4 DEF PlayTypes
<1>11. \A c \in Channels : Held(c)' \subseteq Held(c)
  <2> SUFFICES ASSUME NEW c \in Channels PROVE Held(c)' \subseteq Held(c)
    OBVIOUS
  <2>1. current'[c] = NULL \/ current'[c] \in Held(c)
    BY <1>2, <1>9, RenderOwns
  <2>2. Queued(c)' \subseteq Held(c)
    BY RenderQueue DEF Held
  <2>3. Held(c)' = Queued(c)' \cup ({current'[c]} \ {NULL})
    BY DEF Held
  <2> QED
    BY <2>1, <2>2, <2>3
<1>12. \A c \in Channels : \A o \in Queued(c)' : heap'[o] = heap[o] /\ o \in Held(c)
  <2> SUFFICES ASSUME NEW c \in Channels, NEW o \in Queued(c)'
               PROVE  heap'[o] = heap[o] /\ o \in Held(c)
    OBVIOUS
  <2>1. o \in Held(c) /\ o \in Objects /\ o # NULL
    BY RenderQueue, RenderOwns DEF Held
  <2>2. \A d \in Channels : Rendered(d) # o /\ Replaced(d) # o
    BY <2>1, RenderQueue, RenderOwns DEF IInv, OwnershipInv
  <2> QED
    BY <2>1, <2>2, RenderHeap
<1>13. OwnershipInv'
  <2>1. \A c \in Channels : \A o \in Held(c)' : heap'[o] \in Keyframe
    <3> SUFFICES ASSUME NEW c \in Channels, NEW o \in Held(c)' PROVE heap'[o] \in Keyframe
      OBVIOUS
    <3>1. CASE o \in Queued(c)'
      BY <1>12, <3>1 DEF IInv, OwnershipInv
    <3>2. CASE o = current'[c] /\ o # NULL
      BY <1>2, <1>5, <1>9, <3>2
    <3> QED
      BY <3>1, <3>2 DEF Held
  <2>2. \A c, d \in Channels : \A o \in Held(c)' : o \in Held(d)' => c = d
    BY <1>11 DEF IInv, OwnershipInv
  <2>3. \A c \in Channels : current'[c] \notin Queued(c)'
    <3>1. \A c \in Channels : NULL \notin Queued(c)'
      BY RenderQueue, RenderOwns DEF Held
    <3> QED
      BY <1>2, <1>9, <3>1, RenderQueue
  <2>4. \A c \in Channels : \A i, j \in 1 .. Len(queue'[c]) :
          queue'[c][i] = queue'[c][j] => i = j
    BY RenderQueue
  <2> QED
    BY <2>1, <2>2, <2>3, <2>4 DEF OwnershipInv
<1>14. RepeatInv'
  <2> SUFFICES ASSUME NEW o \in Objects
               PROVE  /\ heap'[o] = Free => AllPlayed(history'[o])
                      /\ heap'[o] \in Keyframe => PlaysLeft(history'[o], heap'[o].repeat)
    BY DEF RepeatInv
  <2>1. CASE \E c \in Channels : Rendered(c) = o /\ o # NULL
    <3>1. PICK c \in Channels : Rendered(c) = o /\ o # NULL
      BY <2>1
    <3>2. PICK x : x = Playing(c)
      OBVIOUS
    <3>3. x \in Keyframe /\ x.repeat = heap[o].repeat /\ heap[o] \in Keyframe
      BY <3>1, <3>2, RenderPlays, RenderOwns DEF IInv, OwnershipInv
    <3>4. /\ PlaysLeft(history[o], x.repeat)
          /\ history[o] \in [modified : BOOLEAN, asked : Int, plays : Nat]
      BY <1>1, <3>3 DEF IInv, RepeatInv, PlayTypes
    <3>5. /\ Counted(history[o]) <=> history[o].asked >= 0
          /\ history[o].asked >= 0 =>
               IF RepeatsLeft(x) = 0 THEN AllPlayed([history[o] EXCEPT !.plays = @ + 1])
               ELSE PlaysLeft([history[o] EXCEPT !.plays = @ + 1], RepeatsLeft(x))
          /\ history[o].asked < 0 => RepeatsLeft(x) # 0 /\ PlaysLeft(history[o], RepeatsLeft(x))
      BY <3>3, <3>4, PlayCounted
    <3>6. history'[o] = IF Completes(c) /\ Counted(history[o])
                        THEN [history[o] EXCEPT !.plays = @ + 1] ELSE history[o]
      BY <3>1, RenderHeap
    <3>7. history[o].asked \in Int
      BY <3>4
    <3>8. CASE Ends(c)
      <4>1. heap'[o] = Free /\ Completes(c) /\ RepeatsLeft(x) = 0
        BY <1>5, <3>1, <3>2, <3>8 DEF Ends
      <4>2. history[o].asked >= 0
        BY <3>5, <3>7, <4>1
      <4> QED
        BY <3>5, <3>6, <4>1, <4>2, KindsDiffer
    <3>9. CASE Completes(c) /\ ~Ends(c)
      <4>1. heap'[o] # Free /\ heap'[o].repeat = RepeatsLeft(x) /\ RepeatsLeft(x) # 0
        BY <1>5, <3>1, <3>2, <3>9, RenderHeap, RenderPlays, KindsDiffer DEF Ends
      <4> QED
        BY <3>5, <3>6, <3>7, <3>9, <4>1
    <3>10. CASE ~Completes(c)
      <4>1. heap'[o] # Free /\ heap'[o].repeat = x.repeat
        BY <1>5, <1>6, <3>1, <3>2, <3>10, RenderHeap, RenderPlays, KindsDiffer
      <4> QED
        BY <3>4, <3>6, <3>10, <4>1
    <3> QED
      BY <1>6, <3>8, <3>9, <3>10
  <2>2. CASE \E c \in Channels : Replaced(c) = o /\ o # NULL
    BY <2>2, RenderHeap, KindsDiffer
  <2>3. CASE heap'[o] = heap[o] /\ history'[o] = history[o]
    BY <2>3 DEF IInv, RepeatInv
  <2> QED
    BY <1>4, <2>1, <2>2, <2>3
<1>15. TimeWithinKeyframe'
  <2> SUFFICES ASSUME NEW c \in Channels, current'[c] # NULL
               PROVE  framecount'[c] = 0 \/ framecount'[c] < heap'[current'[c]].finish
    BY DEF TimeWithinKeyframe
  <2>1. ~Ends(c) /\ current'[c] = Rendered(c) /\ Rendered(c) # NULL
    BY <1>2, <1>9
  <2>2. heap'[Rendered(c)] = KeyframeAfter(c)
    BY <2>1, RenderHeap
  <2>3. framecount'[c] = IF Completes(c) THEN 0 ELSE Time(c)
    BY <1>2, <2>1
  <2> QED
    BY <2>1, <2>2, <2>3, RenderPlays
<1> QED
  BY <1>3, <1>7, <1>10, <1>13, <1>14, <1>15, TypePartsNext DEF IInv

-----------------------------------------------------------------------------
(* A frame rate change restarts the current keyframe of each channel.      *)
LEMMA FramerateSetInv ==
  ASSUME IInv, NEW rate \in Framerates, FramerateSet(rate)
  PROVE  IInv'
<1>1. HeapTypes /\ PlayTypes /\ CommandTypes /\ CrashType
  BY TypeParts DEF IInv
<1>2. /\ framerate' = rate /\ framecount' = [c \in Channels |-> 0]
      /\ heap' = Restarted(rate)
      /\ UNCHANGED <<queue, current, color, modifier, command, history>>
  BY DEF FramerateSet
<1>3. CommandTypes' /\ CrashType'
  <2>1. CommandTypes'
    BY <1>1, <1>2 DEF CommandTypes
  <2>2. CrashType'
    BY DEF FramerateSet, CrashType
  <2> QED
    BY <2>1, <2>2
<1>4. ASSUME NEW o \in Objects
      PROVE  \/ heap'[o] = heap[o]
             \/ /\ heap[o] \in Keyframe /\ heap'[o] \in Keyframe /\ WellTimed(heap'[o])
                /\ heap'[o].repeat = heap[o].repeat
  <2>1. CASE \E c \in Channels : current[c] = o
    <3>1. PICK c \in Channels : c = CHOOSE d \in Channels : current[d] = o
      BY <2>1
    <3>2. current[c] = o
      BY <2>1, <3>1
    <3>3. heap'[o] = RenderInit(heap[o], rate, color[c])
      BY <1>2, <2>1, <3>1 DEF Restarted
    <3>4. heap[o] \in Keyframe
      <4>1. o \in Held(c)
        BY <3>2, KeyframeConstants DEF Held, Objects, NULL
      <4> QED
        BY <4>1 DEF IInv, OwnershipInv
    <3>5. WellTimed(heap[o]) /\ color[c] \in Colors /\ rate \in Nat
      BY <1>1, <3>4, KeyframeConstants DEF HeapTypes, PlayTypes
    <3> QED
      BY <3>3, <3>4, <3>5, RenderInitKeyframe
  <2>2. CASE ~\E c \in Channels : current[c] = o
    BY <1>2, <2>2 DEF Restarted
  <2> QED
    BY <2>1, <2>2
<1>5. HeapTypes'
  <2>1. heap' = [o \in Objects |-> heap'[o]]
    BY <1>2 DEF Restarted
  <2>2. \A o \in Objects : heap'[o] \in Keyframe \cup {Free, Leaked}
    BY <1>1, <1>4 DEF HeapTypes
  <2>3. heap' \in [Objects -> Keyframe \cup {Free, Leaked}]
    BY <2>1, <2>2
  <2> QED
    BY <1>1, <1>4, <2>3 DEF HeapTypes
<1>6. PlayTypes'
  <2>1. framecount' \in [Channels -> 0 .. Timesteps - 1]
    BY <1>2, KeyframeConstants
  <2> QED
    BY <1>1, <1>2, <2>1 DEF PlayTypes
<1>7. \A c \in Channels : Queued(c)' = Queued(c) /\ Held(c)' = Held(c) /\ Held(c) \subseteq Objects
  BY <1>2, RenderOwns DEF Queued, Held
<1>8. OwnershipInv'
  <2>1. \A c \in Channels : \A o \in Held(c) : heap'[o] \in Keyframe
    BY <1>4, <1>7 DEF IInv, OwnershipInv
  <2> QED
    BY <1>2, <1>7, <2>1 DEF IInv, OwnershipInv
<1>9. RepeatInv'
  BY <1>2, <1>4, KindsDiffer DEF IInv, RepeatInv
<1>10. TimeWithinKeyframe'
  BY <1>2 DEF TimeWithinKeyframe
<1> QED
  BY <1>3, <1>5, <1>6, <1>8, <1>9, <1>10, TypePartsNext DEF IInv

-----------------------------------------------------------------------------
(* Every step keeps the invariant. *)
LEMMA StepInv == IInv /\ [Next]_vars => IInv'
<1> SUFFICES ASSUME IInv, [Next]_vars PROVE IInv'
  OBVIOUS
<1>1. ASSUME NEW n \in Repeats, RepeatModifier(n) PROVE IInv'
  BY <1>1, RepeatModifierInv
<1>2. ASSUME NEW x \in Keyframes, NEW channels \in ChannelLists, Wrapper(x, channels)
      PROVE  IInv'
  BY <1>2, WrapperInv
<1>3. CASE CommandStep
  BY <1>3, CloneAndPushInv, CloneFailsInv, WrapperReturnInv DEF CommandStep
<1>4. CASE RenderFrame
  BY <1>4, RenderFrameInv
<1>5. CASE ChangeFramerate
  BY <1>5, FramerateSetInv DEF ChangeFramerate
<1>6. CASE UNCHANGED vars
  <2>1. CommandTypes /\ CrashType /\ UNCHANGED vars
    BY <1>6, TypeParts DEF IInv
  <2>2. CommandTypes' /\ CrashType'
    BY <2>1 DEF vars, CommandTypes, CrashType
  <2> QED
    BY <1>6, <2>2, CommandOnly DEF vars
<1> QED
  BY <1>1, <1>2, <1>3, <1>4, <1>5, <1>6 DEF Next

(* Ownership, times and repeat counts hold in every reachable state. *)
THEOREM Invariance == Spec => []IInv
<1> QED
  BY InitInv, StepInv, PTL DEF Spec

(* Keyframes, queues, times and colors keep to their types: a queue never  *)
(* holds more than its ring buffer takes.                                  *)
THEOREM TypeCorrect == Spec => []TypeOK
<1>1. IInv => TypeOK
  BY DEF IInv
<1> QED
  BY <1>1, Invariance, PTL

(* A queue without duplicates has as many members as it is long. *)
LEMMA DistinctLength ==
  ASSUME NEW s \in Seq(Objects), \A i, j \in 1 .. Len(s) : s[i] = s[j] => i = j
  PROVE  Cardinality({s[i] : i \in 1 .. Len(s)}) = Len(s)
<1> DEFINE S == {s[i] : i \in 1 .. Len(s)}
           f == [i \in 1 .. Len(s) |-> s[i]]
<1>1. f \in [1 .. Len(s) -> S]
  OBVIOUS
<1>2. f \in Injection(1 .. Len(s), S)
  BY <1>1 DEF Injection, IsInjective
<1>3. f \in Surjection(1 .. Len(s), S)
  BY <1>1 DEF Surjection
<1>4. ExistsBijection(1 .. Len(s), S)
  BY <1>2, <1>3 DEF ExistsBijection, Bijection
<1>5. IsFiniteSet(1 .. Len(s)) /\ Cardinality(1 .. Len(s)) = Len(s)
  <2>1. Len(s) \in Nat
    OBVIOUS
  <2>2. /\ IsFiniteSet(1 .. Len(s))
        /\ Cardinality(1 .. Len(s)) = IF 1 > Len(s) THEN 0 ELSE Len(s) - 1 + 1
    BY <2>1, FS_Interval
  <2> QED
    BY <2>1, <2>2
<1>6. Cardinality(S) = Cardinality(1 .. Len(s))
  BY <1>4, <1>5, FS_Bijection
<1> QED
  BY <1>5, <1>6

(* A channel never queues or plays a keyframe that was freed or that       *)
(* another channel holds, however commands, renders and frame rate changes *)
(* follow one another, and whatever a failing clone or a full queue leaves.*)
THEOREM NoFreedOrShared == Spec => []HeapSafe
<1>1. IInv => HeapSafe
  <2> SUFFICES ASSUME IInv, NEW c \in Channels
               PROVE  /\ \A o \in Held(c) :
                           /\ heap[o] \notin {Free, Leaked}
                           /\ \A d \in Channels \ {c} : o \notin Queued(d) \cup {current[d]}
                      /\ current[c] \notin Queued(c)
                      /\ Cardinality(Queued(c)) = Len(queue[c])
    BY DEF HeapSafe, Held
  <2>1. \A o \in Held(c) : heap[o] \notin {Free, Leaked}
    BY KindsDiffer DEF IInv, OwnershipInv
  <2>2. \A o \in Held(c), d \in Channels \ {c} : o \notin Queued(d) \cup {current[d]}
    <3>1. \A o \in Held(c), d \in Channels \ {c} : o \notin Held(d) /\ o # NULL
      BY RenderOwns DEF IInv, OwnershipInv
    <3> QED
      BY <3>1 DEF Held
  <2>3. queue[c] \in Seq(Objects) /\ \A i, j \in 1 .. Len(queue[c]) :
          queue[c][i] = queue[c][j] => i = j
    BY TypeParts DEF IInv, PlayTypes, OwnershipInv
  <2>4. Cardinality(Queued(c)) = Len(queue[c])
    BY <2>3, DistinctLength DEF Queued
  <2> QED
    BY <2>1, <2>2, <2>4 DEF IInv, OwnershipInv
<1> QED
  BY <1>1, Invariance, PTL

(* No keyframe plays beyond its last frame at any frame rate. *)
THEOREM TimeBounded == Spec => []TimeWithinKeyframe
<1>1. IInv => TimeWithinKeyframe
  BY DEF IInv
<1> QED
  BY <1>1, Invariance, PTL

(* Every keyframe plays exactly as often as its repeat count says, but for *)
(* a repeat modifier of 0, whose meaning code and documentation dispute.   *)
THEOREM PlaysAsAsked == Spec => []RepeatAccounting
<1>1. IInv => RepeatAccounting
  <2> SUFFICES ASSUME IInv, NEW o \in Objects, ~RepeatZero(o)
               PROVE  CASE heap[o] = Leaked -> TRUE
                        [] heap[o] = Free -> AllPlayed(history[o])
                        [] OTHER ->
                             /\ history[o].asked > 0 =>
                                  history[o].plays + heap[o].repeat = history[o].asked
                             /\ history[o].asked < 0 => heap[o].repeat = history[o].asked
    BY DEF RepeatAccounting, AllPlayed
  <2>1. CASE heap[o] = Leaked
    BY <2>1, KindsDiffer
  <2>2. CASE heap[o] = Free
    BY <2>2, KindsDiffer DEF IInv, RepeatInv
  <2>3. CASE heap[o] # Free /\ heap[o] # Leaked
    <3>1. heap[o] \in Keyframe
      BY <2>3, TypeParts DEF IInv, HeapTypes
    <3> QED
      BY <2>3, <3>1 DEF IInv, RepeatInv, PlaysLeft
  <2> QED
    BY <2>1, <2>2, <2>3
<1> QED
  BY <1>1, Invariance, PTL
=============================================================================
