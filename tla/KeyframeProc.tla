---------------------------- MODULE KeyframeProc ----------------------------
(***************************************************************************)
(* The keyframe processor of pixelkey/keyframe_processor.c with the        *)
(* command handlers that feed it (pixelkey/command_processor.c): keyframes *)
(* are heap objects, cloned by a command into the queue of each channel,   *)
(* started, played, repeated and freed by the render task.                 *)
(*                                                                         *)
(* The queues are ring buffers, taken here as the FIFO queues that         *)
(* RingBuffer implements.  Commands and renders are tasks of the one       *)
(* thread: a render never comes between two steps of a command.  Of the    *)
(* keyframes, set and blink are modelled; a fade differs in how it mixes   *)
(* colors, not in how it is queued, timed, repeated or freed.              *)
(***************************************************************************)
EXTENDS Integers, Sequences, FiniteSets

CONSTANTS
  NeoPixels,     (* PIXELKEY_NEOPIXEL_COUNT                                *)
  QueueLength,   (* PIXELKEY_KEYFRAME_QUEUE_LENGTH                         *)
  HeapSize,      (* bound: how many keyframes the heap has room for        *)
  Startup,       (* the keyframe that hal_entry starts on every channel    *)
  Keyframes,     (* the parsed keyframes that commands carry               *)
  ChannelLists,  (* the channel numbers of a command; << >> means all      *)
  Repeats,       (* the counts of repeat modifiers                         *)
  Framerates,    (* the frame rates that config-set framerate gives        *)
  Black,         (* the color that is off                                  *)
  Timesteps      (* the number of values of a timestep_t                   *)

Channels == 0 .. NeoPixels - 1
Objects == 1 .. HeapSize

NULL == 0
Free == [kind |-> "free"]
Leaked == [kind |-> "leaked"]   (* allocated, and nothing points to it     *)
NoCommand == [kind |-> "none"]
NoModifier == [given |-> FALSE, count |-> 0]
NoHistory == [modified |-> FALSE, asked |-> 0, plays |-> 1]

Colors == {Black} \cup UNION {{k.color1, k.color2} : k \in Keyframes \cup {Startup}}

(* keyframe_set_t and keyframe_blink_t; a period is counted in half        *)
(* seconds.                                                                *)
Keyframe ==
  [kind : {"set", "blink"}, color1 : Colors, color2 : Colors,
   given1 : BOOLEAN, given2 : BOOLEAN, halves : Nat, duty : 1 .. 99,
   repeat : Int, finish : Nat, transition : Nat]

(* A parsed keyframe has the state of keyframe_blink_init: all zero. *)
ASSUME KeyframeConstants ==
  /\ NeoPixels \in Nat \ {0} /\ HeapSize \in Nat /\ HeapSize >= NeoPixels
  /\ QueueLength \in Nat \ {0, 1}
  /\ Repeats \subseteq Int
  /\ ChannelLists \subseteq Seq(Nat)
  /\ Framerates \subseteq Nat \ {0} /\ Framerates # {}
  /\ Timesteps \in Nat \ {0, 1}
  /\ Keyframes \cup {Startup} \subseteq Keyframe
  /\ \A k \in Keyframes \cup {Startup} : k.finish = 0 /\ k.transition = 0

VARIABLES
  heap,        (* [Objects -> a keyframe, Free or Leaked]                  *)
  queue,       (* keyframe_queue                                           *)
  current,     (* current_keyframe                                         *)
  framecount,  (* current_framecount                                       *)
  color,       (* current_color                                            *)
  framerate,   (* current_framerate                                        *)
  modifier,    (* has_repeat_modifier, repeat_modifier                     *)
  command,     (* handler_keyframe_wrapper in progress                     *)
  crashed,     (* a NULL pointer was used                                  *)
  history      (* history: the repeats asked for and the plays finished    *)

vars == <<heap, queue, current, framecount, color, framerate, modifier,
          command, crashed, history>>

-----------------------------------------------------------------------------
(* Keyframes: the member functions of set and blink. *)

(* render_init. A blink without colors takes the current one and black.    *)
RenderInit(k, rate, now) ==
  IF k.kind = "set" THEN k
  ELSE LET finish == (k.halves * rate) \div 2 IN
       [k EXCEPT !.color1 = IF k.given1 THEN @ ELSE now,
                 !.color2 = IF k.given2 THEN @ ELSE Black,
                 !.finish = finish,
                 !.transition = (finish * k.duty) \div 100]

(* render_frame: the color at a time, and whether that was the last frame. *)
FrameColor(k, time) ==
  IF k.kind = "set" \/ time < k.transition THEN k.color1 ELSE k.color2

Finished(k, time) == k.kind = "set" \/ time >= k.finish

(* hal_entry's keyframe, of six seconds, goes on after its first frame. *)
ASSUME StartupConstants ==
  \A rate \in Framerates : ~Finished(RenderInit(Startup, rate, Black), 1)

-----------------------------------------------------------------------------
(* hal_entry: every channel has been given a clone of the startup keyframe *)
(* and has rendered its first frame before the tasks run.                  *)
Init ==
  /\ framerate \in Framerates
  /\ LET first == RenderInit(Startup, framerate, Black) IN
       /\ heap = [o \in Objects |-> IF o \in 1 .. NeoPixels THEN first ELSE Free]
       /\ color = [c \in Channels |-> FrameColor(first, 1)]
  /\ queue = [c \in Channels |-> <<>>]
  /\ current = [c \in Channels |-> c + 1]
  /\ framecount = [c \in Channels |-> 1]
  /\ modifier = NoModifier
  /\ command = NoCommand
  /\ crashed = FALSE
  /\ history = [o \in Objects |->
       IF o \in 1 .. NeoPixels
       THEN [modified |-> FALSE, asked |-> Startup.repeat, plays |-> 0]
       ELSE NoHistory]

Ready == command = NoCommand /\ ~crashed

(* handler_keyframe_mod_repeat. *)
RepeatModifier(n) ==
  /\ Ready
  /\ modifier' = [given |-> TRUE, count |-> n]
  /\ UNCHANGED <<heap, queue, current, framecount, color, framerate, command,
                 crashed, history>>

(* handler_keyframe_wrapper is called with keyframe k for a channel list.  *)
AllChannels == [i \in 1 .. NeoPixels |-> i]

Wrapper(k, channels) ==
  /\ Ready
  /\ command' = [kind |-> "wrapper", keyframe |-> k,
                 channels |-> IF channels = <<>> THEN AllChannels ELSE channels]
  /\ UNCHANGED <<heap, queue, current, framecount, color, framerate, modifier,
                 crashed, history>>

FreeObjects == {o \in Objects : heap[o] = Free}

(* Mutant: a full queue takes one more. *)
Accepts_OneMore(c) == c \in Channels /\ Len(queue[c]) < QueueLength

(* pixelkey_keyframeproc_push: is there such a channel, with room for it?  *)
Accepts(c) == c \in Channels /\ Len(queue[c]) < QueueLength - 1

(* One turn of the loop over the channels: clone, apply the modifier, push *)
(* and ignore what the push returns.                                       *)
CloneAndPush ==
  /\ ~crashed
  /\ command # NoCommand /\ command.channels # <<>>
  /\ FreeObjects # {}
  /\ LET o == CHOOSE x \in FreeObjects : TRUE
         c == Head(command.channels) - 1
         repeat == IF modifier.given THEN modifier.count ELSE command.keyframe.repeat
     IN  IF Accepts(c)
         THEN /\ heap' = [heap EXCEPT ![o] = [command.keyframe EXCEPT !.repeat = repeat]]
              /\ history' = [history EXCEPT ![o] =
                    [modified |-> modifier.given, asked |-> repeat, plays |-> 0]]
              /\ queue' = [queue EXCEPT ![c] = Append(@, o)]
         ELSE /\ heap' = [heap EXCEPT ![o] = Leaked]
              /\ history' = [history EXCEPT ![o] = NoHistory]
              /\ UNCHANGED queue
  /\ command' = [command EXCEPT !.channels = Tail(@)]
  /\ UNCHANGED <<current, framecount, color, framerate, modifier, crashed>>

(* malloc fails: the handler answers NAK and returns, modifier and all.    *)
CloneFails ==
  /\ ~crashed
  /\ command # NoCommand /\ command.channels # <<>>
  /\ FreeObjects = {}
  /\ command' = NoCommand
  /\ UNCHANGED <<heap, queue, current, framecount, color, framerate, modifier,
                 crashed, history>>

(* After the last channel the modifier is cleared. *)
WrapperReturn ==
  /\ ~crashed
  /\ command # NoCommand /\ command.channels = <<>>
  /\ command' = NoCommand
  /\ modifier' = NoModifier
  /\ UNCHANGED <<heap, queue, current, framecount, color, framerate, crashed,
                 history>>

-----------------------------------------------------------------------------
(* pixelkey_keyframeproc_render_frame: for every channel, the keyframe     *)
(* rendered, its time, what it holds when it is rendered, and afterwards.  *)
Takes(c) == queue[c] # <<>>

Rendered(c) == IF Takes(c) THEN Head(queue[c]) ELSE current[c]

Time(c) ==
  IF Takes(c) THEN 1 ELSE (framecount[c] + 1) % Timesteps

Playing(c) ==
  IF Takes(c) THEN RenderInit(heap[Rendered(c)], framerate, color[c])
             ELSE heap[current[c]]

ColorAfter(c) ==
  IF Rendered(c) = NULL THEN color[c] ELSE FrameColor(Playing(c), Time(c))

Completes(c) == Rendered(c) # NULL /\ Finished(Playing(c), Time(c))

(* Mutants: never counted down; counted down also when indefinite.         *)
RepeatsLeft_Forever(k) == k.repeat
RepeatsLeft_Indefinite(k) == k.repeat - 1

RepeatsLeft(k) == IF k.repeat > 0 THEN k.repeat - 1 ELSE k.repeat

Ends(c) == Completes(c) /\ RepeatsLeft(Playing(c)) = 0

KeyframeAfter(c) ==
  IF Ends(c) THEN Free
  ELSE IF Completes(c)
  THEN RenderInit([Playing(c) EXCEPT !.repeat = RepeatsLeft(Playing(c))],
                  framerate, ColorAfter(c))
  ELSE Playing(c)

(* The keyframe that a queued one replaces: nothing frees it. *)
Replaced(c) == IF Takes(c) THEN current[c] ELSE NULL

(* Mutant: a finished keyframe stays current after it was freed. *)
CurrentAfter_Dangling(c) == Rendered(c)

CurrentAfter(c) == IF Ends(c) THEN NULL ELSE Rendered(c)

(* History: plays of a finite keyframe are counted, to one too many.       *)
Counted(h) == h.asked >= 0 /\ h.plays <= (IF h.asked = 0 THEN 1 ELSE h.asked)

RenderFrame ==
  /\ Ready
  /\ queue' = [c \in Channels |-> IF Takes(c) THEN Tail(queue[c]) ELSE queue[c]]
  /\ current' = [c \in Channels |-> CurrentAfter(c)]
  /\ framecount' = [c \in Channels |-> IF Completes(c) /\ ~Ends(c) THEN 0 ELSE Time(c)]
  /\ color' = [c \in Channels |-> ColorAfter(c)]
  /\ heap' = [o \in Objects |->
       CASE \E c \in Channels : Rendered(c) = o ->
              KeyframeAfter(CHOOSE c \in Channels : Rendered(c) = o)
         [] \E c \in Channels : Replaced(c) = o -> Leaked
         [] OTHER -> heap[o]]
  /\ history' = [o \in Objects |->
       CASE \E c \in Channels : Rendered(c) = o /\ Completes(c) /\ Counted(history[o]) ->
              [history[o] EXCEPT !.plays = @ + 1]
         [] \E c \in Channels : Replaced(c) = o -> NoHistory
         [] OTHER -> history[o]]
  /\ UNCHANGED <<framerate, modifier, command, crashed>>

-----------------------------------------------------------------------------
Restarted(rate) ==
  [o \in Objects |->
     IF \E c \in Channels : current[c] = o
     THEN RenderInit(heap[o], rate, color[CHOOSE c \in Channels : current[c] = o])
     ELSE heap[o]]

(* Mutant: the keyframes are restarted in the middle. *)
FramerateSet_KeepsTime(rate) ==
  /\ Ready
  /\ framerate' = rate
  /\ heap' = Restarted(rate)
  /\ crashed' = (\E c \in Channels : current[c] = NULL)
  /\ UNCHANGED <<queue, current, framecount, color, modifier, command, history>>

(* pixelkey_keyframeproc_framerate_set: every channel's current keyframe   *)
(* is restarted.  A channel without one makes init_keyframe use NULL.      *)
FramerateSet(rate) ==
  /\ Ready
  /\ framerate' = rate
  /\ framecount' = [c \in Channels |-> 0]
  /\ heap' = Restarted(rate)
  /\ crashed' = (\E c \in Channels : current[c] = NULL)
  /\ UNCHANGED <<queue, current, color, modifier, command, history>>

ChangeFramerate == \E rate \in Framerates : FramerateSet(rate)

CommandStep == CloneAndPush \/ CloneFails \/ WrapperReturn

Next ==
  \/ \E n \in Repeats : RepeatModifier(n)
  \/ \E k \in Keyframes, channels \in ChannelLists : Wrapper(k, channels)
  \/ CommandStep
  \/ RenderFrame
  \/ ChangeFramerate

(***************************************************************************)
(* The task manager runs a command's handler to its end, and runs the      *)
(* render task again and again whatever commands arrive (IsrTasksServed of *)
(* TaskManager): weak fairness of the handler, strong of the render.       *)
(***************************************************************************)
Spec ==
  /\ Init /\ [][Next]_vars
  /\ WF_vars(CommandStep)
  /\ SF_vars(RenderFrame)

-----------------------------------------------------------------------------
Queued(c) == {queue[c][i] : i \in 1 .. Len(queue[c])}

TypeOK ==
  /\ heap \in [Objects -> Keyframe \cup {Free, Leaked}]
  /\ \A o \in Objects : heap[o] \in Keyframe => heap[o].transition <= heap[o].finish
  /\ queue \in [Channels -> Seq(Objects)]
  /\ \A c \in Channels : Len(queue[c]) < QueueLength
  /\ current \in [Channels -> Objects \cup {NULL}]
  /\ framecount \in [Channels -> 0 .. Timesteps - 1]
  /\ color \in [Channels -> Colors]
  /\ framerate \in Framerates
  /\ modifier \in [given : BOOLEAN, count : Int]
  /\ command = NoCommand \/
       command \in [kind : {"wrapper"}, keyframe : Keyframes, channels : Seq(Nat)]
  /\ crashed \in BOOLEAN
  /\ history \in [Objects -> [modified : BOOLEAN, asked : Int, plays : Nat]]

(* No channel queues or plays a keyframe that was freed, and none is held  *)
(* twice: freeing or restarting one never touches another channel's.       *)
HeapSafe ==
  \A c \in Channels :
    /\ \A o \in Queued(c) \cup ({current[c]} \ {NULL}) :
         /\ heap[o] \notin {Free, Leaked}
         /\ \A d \in Channels \ {c} : o \notin Queued(d) \cup {current[d]}
    /\ current[c] \notin Queued(c)
    /\ Cardinality(Queued(c)) = Len(queue[c])

(* A keyframe never plays beyond its last frame, however the frame rate    *)
(* changes while it plays: its time is before its finish, or it is to be   *)
(* started.                                                                *)
TimeWithinKeyframe ==
  \A c \in Channels : current[c] # NULL =>
    framecount[c] = 0 \/ framecount[c] < heap[current[c]].finish

(* A repeat modifier of 0. The code plays such a keyframe once, the        *)
(* documentation has it repeat until the next keyframe: the two properties *)
(* on repeats say nothing of it.                                           *)
RepeatZero(o) == history[o].modified /\ history[o].asked = 0

(* A repeat count of n > 0 means n plays: the plays finished and the count *)
(* left add up to it, and a keyframe is freed only after all its plays:    *)
(* one if it had no repeat modifier, and never for a negative count.       *)
RepeatAccounting ==
  \A o \in Objects :
    LET h == history[o] IN
    ~RepeatZero(o) =>
    CASE heap[o] = Leaked -> TRUE
      [] heap[o] = Free -> h.plays = (IF h.asked > 0 THEN h.asked ELSE 1)
      [] OTHER ->
         /\ h.asked > 0 => h.plays + heap[o].repeat = h.asked
         /\ h.asked < 0 => heap[o].repeat = h.asked

(* A keyframe with a count that is not negative leaves its channel, once   *)
(* the frame rate is no longer changed.                                    *)
FiniteKeyframesEnd ==
  <>[][~ChangeFramerate]_vars =>
    \A c \in Channels, o \in Objects :
      (current[c] = o /\ heap[o].repeat >= 0 /\ ~RepeatZero(o))
        ~> (current[c] # o \/ crashed)
=============================================================================
