--------------------------- MODULE NpDataTransfer ---------------------------
(***************************************************************************)
(* The NeoPixel data transfer of hal_npdata_transfer.c: two small buffers  *)
(* that the DMA controller reads in turn while its interrupt handler       *)
(* refills the other one from the frame buffer.                            *)
(*                                                                         *)
(* Four actors run at the same time: the bit timer (GPT5), whose overflow  *)
(* requests a DMA transfer; the DMA controller; its repeat interrupt       *)
(* handler, which no other code can interrupt; and the thread, which runs  *)
(* npdata_frame_send and pixelkey_task_do_frame.  No actor is assumed to   *)
(* be fast: in particular the timer may overflow any number of times       *)
(* before the handler restarts the DMA controller.                         *)
(*                                                                         *)
(* A color word is the identity <<frame version, pixel>>: what the         *)
(* properties need is which bit of which pixel of which frame goes out.    *)
(***************************************************************************)
EXTENDS Naturals

CONSTANTS
  Pixels,        (* num_neopixels                                          *)
  ColorBits,     (* NEOPIXEL_COLOR_BITS                                    *)
  BufferLength,  (* NPDATA_GPT_BUFFER_LENGTH                               *)
  Versions,      (* frame versions are counted modulo this number          *)
  NoSymbol       (* content of a buffer that was never written             *)

(* hal_npdata_transfer divides without a remainder, and DMCRAL - 1 must    *)
(* not become 0, which the hardware takes for the maximum.                 *)
ASSUME TransferConstants ==
  /\ Pixels \in Nat \ {0} /\ ColorBits \in Nat \ {0}
  /\ BufferLength \in Nat \ {0, 1}
  /\ (Pixels * ColorBits) % BufferLength = 0
  /\ Versions \in Nat \ {0}

Pixel   == 0 .. Pixels - 1
Version == 0 .. Versions - 1
Offset  == 0 .. BufferLength - 1
Symbol  == [ver : Version, pixel : Pixel, bit : 0 .. ColorBits - 1]
Blocks  == (Pixels * ColorBits) \div BufferLength

VARIABLES
  frame,     (* g_npdata_frame: the version of each pixel's color          *)
  buf,       (* npdata_gpt_buffer                                          *)
  cnt, idx,  (* npdata_frame_cnt, npdata_frame_idx                         *)
  bit,       (* npdata_color_bit, as the position of the one bit set       *)
  word,      (* npdata_color_word, as <<version, pixel>>                   *)
  fill, k,   (* push_data_to_buffer: its argument and loop counter         *)
  dmsar,     (* DMA source address: [buf, off]                             *)
  dmcral,    (* DMA transfers left in this block                           *)
  dmcrb,     (* DMA blocks left                                            *)
  dmcnt,     (* DMA channel enabled                                        *)
  request,   (* a DMA request is latched                                   *)
  irq,       (* the DMA repeat interrupt is pending                        *)
  counting,  (* the bit timer runs                                         *)
  gtccr,     (* the timer's compare buffer register, GTCCR[3]              *)
  sent,      (* history: symbols written to it in this transfer            *)
  sending,   (* history: the version the transfer started with             *)
  isr,       (* the interrupt handler: "off", "push" or "stopped"          *)
  thread,    (* the thread: "idle", "push", "wait" or "copy"               *)
  render,    (* TASK_FRAME_RENDER is queued                                *)
  next,      (* version of temp_frame, the last rendered frame             *)
  copied     (* memcpy: pixels copied so far                               *)

pushVars == <<buf, cnt, idx, bit, word, fill, k>>
dmaVars  == <<dmsar, dmcral, dmcrb, dmcnt, request, irq>>
wireVars == <<counting, gtccr, sent, sending>>
taskVars == <<thread, render, next, copied, frame>>
vars == <<pushVars, dmaVars, wireVars, taskVars, isr>>

-----------------------------------------------------------------------------
(* npdata_open, then the first pixelkey_task_do_frame of hal_entry. *)
Init ==
  /\ frame = [p \in Pixel |-> 0]
  /\ buf = [b \in {0, 1} |-> [o \in Offset |-> NoSymbol]]
  /\ cnt = 0 /\ idx = 0 /\ bit = ColorBits - 1 /\ word = <<0, 0>>
  /\ fill = 0 /\ k = BufferLength
  /\ dmsar = [buf |-> 0, off |-> 0] /\ dmcral = BufferLength /\ dmcrb = Blocks
  /\ dmcnt = FALSE /\ request = FALSE /\ irq = FALSE
  /\ counting = FALSE /\ gtccr = NoSymbol /\ sent = 0 /\ sending = 0
  /\ isr = "off"
  /\ thread = "idle" /\ render = FALSE /\ next = 0 /\ copied = 0

(* One iteration of push_data_to_buffer: write one symbol, shift, and load *)
(* the next color after the last bit.  k = BufferLength: it has returned.  *)
PushSymbol ==
  /\ k < BufferLength
  /\ buf' = [buf EXCEPT ![fill][k] =
               [ver |-> word[1], pixel |-> word[2], bit |-> bit]]
  /\ IF bit > 0
     THEN /\ bit' = bit - 1
          /\ k' = k + 1
          /\ UNCHANGED <<cnt, idx, word>>
     ELSE /\ bit' = ColorBits - 1
          /\ idx' = idx + 1
          /\ cnt' = cnt - 1
          /\ IF cnt = 1
             THEN k' = BufferLength /\ UNCHANGED word
             ELSE k' = k + 1 /\ word' = <<frame[idx + 1], idx + 1>>
  /\ UNCHANGED fill

(* The call push_data_to_buffer(b), which returns at once when no color is *)
(* left.                                                                   *)
CallPush(b) ==
  /\ fill' = b
  /\ k' = IF cnt = 0 THEN BufferLength ELSE 0

-----------------------------------------------------------------------------
(* The hardware.  A timer overflow latches a DMA request; the channel      *)
(* serves it if it is enabled.                                             *)
Overflow ==
  /\ counting
  /\ request' = TRUE
  /\ UNCHANGED <<pushVars, dmsar, dmcral, dmcrb, dmcnt, irq, wireVars, taskVars, isr>>

(* One DMA transfer to GTCCR[3].  After the last of a block the source     *)
(* address and the count reload, the block count drops, the channel turns  *)
(* itself off and the repeat interrupt is raised.                          *)
DmaTransfer ==
  /\ dmcnt /\ request
  /\ request' = FALSE
  /\ gtccr' = buf[dmsar.buf][dmsar.off]
  /\ sent' = sent + 1
  /\ IF dmcral > 1
     THEN /\ dmcral' = dmcral - 1
          /\ dmsar' = [dmsar EXCEPT !.off = @ + 1]
          /\ UNCHANGED <<dmcrb, dmcnt, irq>>
     ELSE /\ dmcral' = BufferLength
          /\ dmsar' = [dmsar EXCEPT !.off = 0]
          /\ dmcrb' = dmcrb - 1
          /\ dmcnt' = FALSE
          /\ irq' = TRUE
  /\ UNCHANGED <<pushVars, counting, sending, taskVars, isr>>

-----------------------------------------------------------------------------
(* Mutant: the handler refills the buffer it has just handed over. *)
IsrSwap_WrongBuffer ==
  /\ isr = "off" /\ irq
  /\ dmcrb > 0
  /\ irq' = FALSE
  /\ LET done == IF dmsar = [buf |-> 0, off |-> 0] THEN 0 ELSE 1 IN
       /\ dmsar' = [buf |-> 1 - done, off |-> 0]
       /\ CallPush(1 - done)
  /\ dmcnt' = TRUE
  /\ isr' = "push"
  /\ UNCHANGED <<buf, cnt, idx, bit, word, dmcral, dmcrb, request, wireVars, taskVars>>

(* dmac0_repeat_isr: clear the interrupt, then either point the channel at *)
(* the other buffer, restart it and refill the one it finished ...         *)
IsrSwap ==
  /\ isr = "off" /\ irq
  /\ dmcrb > 0
  /\ irq' = FALSE
  /\ LET done == IF dmsar = [buf |-> 0, off |-> 0] THEN 0 ELSE 1 IN
       /\ dmsar' = [buf |-> 1 - done, off |-> 0]
       /\ CallPush(done)
  /\ dmcnt' = TRUE
  /\ isr' = "push"
  /\ UNCHANGED <<buf, cnt, idx, bit, word, dmcral, dmcrb, request, wireVars, taskVars>>

IsrPush ==
  /\ isr = "push"
  /\ PushSymbol
  /\ UNCHANGED <<dmaVars, wireVars, taskVars, isr>>

(* Mutant: the interrupt is cleared when the handler returns. *)
IsrReturn_ClearsIrq ==
  /\ isr = "push" /\ k = BufferLength
  /\ isr' = "off"
  /\ irq' = FALSE
  /\ UNCHANGED <<pushVars, dmsar, dmcral, dmcrb, dmcnt, request, wireVars, taskVars>>

IsrReturn ==
  /\ isr = "push" /\ k = BufferLength
  /\ isr' = "off"
  /\ UNCHANGED <<pushVars, dmaVars, wireVars, taskVars>>

(* ... or stop the timer, and then disable the channel, which clears a     *)
(* request that a last overflow latched.                                   *)
IsrStop ==
  /\ isr = "off" /\ irq
  /\ dmcrb = 0
  /\ irq' = FALSE
  /\ counting' = FALSE
  /\ isr' = "stopped"
  /\ UNCHANGED <<pushVars, dmsar, dmcral, dmcrb, dmcnt, request,
                 gtccr, sent, sending, taskVars>>

IsrDisable ==
  /\ isr = "stopped"
  /\ dmcnt' = FALSE /\ request' = FALSE
  /\ isr' = "off"
  /\ UNCHANGED <<pushVars, dmsar, dmcral, dmcrb, irq, wireVars, taskVars>>

-----------------------------------------------------------------------------
(* npdata_frame_send up to the first fill.  While a frame is on its way it *)
(* returns at once: a step that changes nothing.                           *)
SendBegin ==
  /\ isr = "off" /\ thread = "idle"
  /\ ~counting
  /\ idx' = 0 /\ bit' = ColorBits - 1 /\ cnt' = Pixels
  /\ word' = <<frame[0], 0>>
  /\ fill' = 0 /\ k' = 0
  /\ thread' = "push"
  /\ UNCHANGED <<buf, dmaVars, wireVars, render, next, copied, frame, isr>>

SendPush ==
  /\ isr = "off" /\ thread = "push"
  /\ PushSymbol
  /\ UNCHANGED <<dmaVars, wireVars, taskVars, isr>>

SendPushOther ==
  /\ isr = "off" /\ thread = "push" /\ k = BufferLength /\ fill = 0
  /\ CallPush(1)
  /\ UNCHANGED <<buf, cnt, idx, bit, word, dmaVars, wireVars, taskVars, isr>>

(* Mutants: the hand-made first transfer is not counted, or not skipped. *)
SendStart_NotCounted ==
  /\ isr = "off" /\ thread = "push" /\ k = BufferLength /\ fill = 1
  /\ dmsar' = [buf |-> 0, off |-> 1]
  /\ dmcrb' = Blocks
  /\ dmcnt' = TRUE /\ request' = FALSE
  /\ gtccr' = buf[0][0]
  /\ sent' = 1 /\ sending' = frame[0]
  /\ counting' = TRUE /\ render' = TRUE
  /\ thread' = "idle"
  /\ UNCHANGED <<pushVars, dmcral, irq, next, copied, frame, isr>>

SendStart_NotSkipped ==
  /\ isr = "off" /\ thread = "push" /\ k = BufferLength /\ fill = 1
  /\ dmsar' = [buf |-> 0, off |-> 0]
  /\ dmcrb' = Blocks
  /\ dmcral' = dmcral - 1
  /\ dmcnt' = TRUE /\ request' = FALSE
  /\ gtccr' = buf[0][0]
  /\ sent' = 1 /\ sending' = frame[0]
  /\ counting' = TRUE /\ render' = TRUE
  /\ thread' = "idle"
  /\ UNCHANGED <<pushVars, irq, next, copied, frame, isr>>

(* R_DMAC_Reset, the hand-made first transfer, the timer start, and the    *)
(* request for the next frame.  Nothing else can happen in between: the    *)
(* timer is stopped and the channel has no request.                        *)
SendStart ==
  /\ isr = "off" /\ thread = "push" /\ k = BufferLength /\ fill = 1
  /\ dmsar' = [buf |-> 0, off |-> 1]
  /\ dmcrb' = Blocks
  /\ dmcral' = dmcral - 1
  /\ dmcnt' = TRUE /\ request' = FALSE
  /\ gtccr' = buf[0][0]
  /\ sent' = 1 /\ sending' = frame[0]
  /\ counting' = TRUE
  /\ render' = TRUE
  /\ thread' = "idle"
  /\ UNCHANGED <<pushVars, irq, next, copied, frame, isr>>

(* pixelkey_task_do_frame: render into temp_frame, wait until no transfer  *)
(* runs, copy into the frame buffer (one pixel at a time here).            *)
RenderFrame ==
  /\ isr = "off" /\ thread = "idle" /\ render
  /\ render' = FALSE
  /\ next' = (next + 1) % Versions
  /\ thread' = "wait"
  /\ UNCHANGED <<pushVars, dmaVars, wireVars, copied, frame, isr>>

(* Mutant: the render task does not wait. *)
WaitDone_NoWait ==
  /\ isr = "off" /\ thread = "wait"
  /\ copied' = 0
  /\ thread' = "copy"
  /\ UNCHANGED <<pushVars, dmaVars, wireVars, render, next, frame, isr>>

WaitDone ==
  /\ isr = "off" /\ thread = "wait"
  /\ ~counting
  /\ copied' = 0
  /\ thread' = "copy"
  /\ UNCHANGED <<pushVars, dmaVars, wireVars, render, next, frame, isr>>

CopyPixel ==
  /\ isr = "off" /\ thread = "copy"
  /\ frame' = [frame EXCEPT ![copied] = next]
  /\ copied' = copied + 1
  /\ thread' = IF copied + 1 = Pixels THEN "idle" ELSE "copy"
  /\ UNCHANGED <<pushVars, dmaVars, wireVars, render, next, isr>>

-----------------------------------------------------------------------------
Isr    == IsrSwap \/ IsrPush \/ IsrReturn \/ IsrStop \/ IsrDisable
Send   == SendPush \/ SendPushOther \/ SendStart
Render == RenderFrame \/ WaitDone \/ CopyPixel

Next == Overflow \/ DmaTransfer \/ Isr \/ SendBegin \/ Send \/ Render

Spec == Init /\ [][Next]_vars

(* Timer and DMA controller are hardware; the interrupt handler and a task *)
(* body, once started, run on; the task manager starts a queued render.    *)
(* SendBegin, the frame tick, is not needed for anything to finish.        *)
Fairness ==
  /\ WF_vars(Overflow) /\ WF_vars(DmaTransfer) /\ WF_vars(Isr)
  /\ WF_vars(Send) /\ WF_vars(Render)

FairSpec == Spec /\ Fairness

-----------------------------------------------------------------------------
TypeOK ==
  /\ frame \in [Pixel -> Version]
  /\ buf \in [{0, 1} -> [Offset -> Symbol \cup {NoSymbol}]]
  /\ cnt \in 0 .. Pixels /\ idx \in 0 .. Pixels /\ bit \in 0 .. ColorBits - 1
  /\ word \in Version \X Pixel
  /\ fill \in {0, 1} /\ k \in 0 .. BufferLength
  /\ dmsar \in [buf : {0, 1}, off : Offset]
  /\ dmcral \in 1 .. BufferLength /\ dmcrb \in 0 .. Blocks
  /\ {dmcnt, request, irq, counting, render} \subseteq BOOLEAN
  /\ gtccr \in Symbol \cup {NoSymbol}
  /\ sent \in 0 .. Pixels * ColorBits /\ sending \in Version
  /\ isr \in {"off", "push", "stopped"}
  /\ thread \in {"idle", "push", "wait", "copy"}
  /\ next \in Version /\ copied \in 0 .. Pixels

(* Every transfer hands over the frame it started with, in order, each     *)
(* symbol once, and stops after the last: no symbol is skipped, repeated,  *)
(* stale or of another frame, however slowly the interrupt handler runs.   *)
Stream == INSTANCE FrameStream
            WITH Versions <- Version, busy <- counting, version <- sending,
                 count <- sent, symbol <- gtccr

StreamsFrame == Stream!Spec

(* While the handler refills a buffer, the DMA channel reads the other. *)
NoBufferRace ==
  isr = "push" /\ k < BufferLength => dmsar.buf = 1 - fill

(* What a DMA transfer will read next has been written for this frame. *)
NextSymbolReady ==
  counting /\ dmcnt => buf[dmsar.buf][dmsar.off] = Stream!SymbolAt(sending, sent)

(* A transfer ends: no interrupt is lost and the channel is always turned  *)
(* on again.                                                               *)
TransferEnds == counting ~> ~counting
=============================================================================
