------------------------ MODULE NpDataTransferProofs ------------------------
(***************************************************************************)
(* Proofs about NpDataTransfer, for any number of pixels, color bits and   *)
(* symbols in a buffer, and any number of frame versions.                  *)
(*                                                                         *)
(* The argument counts in blocks, the symbols of one buffer.  The blocks   *)
(* the DMA controller has finished, Done, and those the thread and the     *)
(* handler have filled differ by at most two: the buffer the controller    *)
(* reads holds block Done, and the other one holds, or is being given,     *)
(* the block Target.  This is what dmsar, dmcrb, the color index and the   *)
(* pending interrupt say together, although each is moved by another actor.*)
(***************************************************************************)
EXTENDS NpDataTransfer, Integers, TLAPS

-----------------------------------------------------------------------------
(* The inductive invariant. *)

(* The symbols of this frame that were pushed into the buffers. *)
Position == idx * ColorBits + (ColorBits - 1 - bit)

(* The blocks that the DMA controller has finished. *)
Done == Blocks - dmcrb

(* The block that the buffer it does not read is for. *)
Target == IF irq THEN Done ELSE Done + 1

(* How much of that buffer has been written. *)
Filled == IF isr = "push" THEN k ELSE BufferLength

(* push_data_to_buffer holds the color of the pixel that it pushes. *)
PushInv ==
  thread = "push" \/ counting =>
    /\ cnt = Pixels - idx
    /\ cnt > 0 => word = <<frame[0], idx>>
    /\ cnt = 0 => bit = ColorBits - 1

(* All pixels are of one frame, except while a frame is copied, and that   *)
(* is not while one is sent.                                               *)
FrameInv ==
  /\ thread # "copy" => \A p \in Pixel : frame[p] = frame[0]
  /\ thread = "copy" => /\ ~counting /\ copied < Pixels
                        /\ \A p \in Pixel : p < copied => frame[p] = next
  /\ counting => sending = frame[0]

(* Between transfers the DMA controller and its handler rest. *)
QuietInv ==
  ~counting => ~irq /\ ~dmcnt /\ dmcral = BufferLength /\ isr # "push"

(* npdata_frame_send fills the first buffer, then the second, if there is  *)
(* a second block.                                                         *)
SendInv ==
  thread = "push" =>
    /\ ~counting /\ isr = "off"
    /\ Position = IF fill = 0 THEN k
                  ELSE IF Blocks = 1 THEN BufferLength ELSE BufferLength + k
    /\ fill = 1 /\ Blocks = 1 => k = BufferLength
    /\ \A o \in Offset : fill = 1 \/ o < k => buf[0][o] = Stream!SymbolAt(frame[0], o)
    /\ fill = 1 /\ Blocks > 1 =>
         \A o \in Offset : o < k =>
           buf[1][o] = Stream!SymbolAt(frame[0], BufferLength + o)

(* During a transfer. *)
StreamInv ==
  counting =>
    /\ isr # "stopped"
    /\ dmcral = BufferLength - dmsar.off
    /\ sent = Done * BufferLength + dmsar.off
    /\ dmcnt <=> ~irq
    /\ irq => dmsar.off = 0
    /\ ~irq => dmcrb > 0
    /\ Position = IF Target < Blocks THEN Target * BufferLength + Filled
                  ELSE Pixels * ColorBits
    /\ Target >= Blocks => Filled = BufferLength
    /\ isr = "push" => fill = 1 - dmsar.buf
    /\ ~irq => \A o \in Offset : o >= dmsar.off =>
         buf[dmsar.buf][o] = Stream!SymbolAt(sending, Done * BufferLength + o)
    /\ Target < Blocks => \A o \in Offset : o < Filled =>
         buf[1 - dmsar.buf][o] = Stream!SymbolAt(sending, Target * BufferLength + o)

IInv == TypeOK /\ PushInv /\ FrameInv /\ QuietInv /\ SendInv /\ StreamInv

-----------------------------------------------------------------------------
(* Arithmetic on blocks and bits, for the provers. *)
LEMMA Products ==
  ASSUME NEW a \in Int, NEW b \in Int, NEW c \in Nat
  PROVE  /\ a * c \in Int
         /\ (a + 1) * c = a * c + c
         /\ a < b => a * c + c <= b * c
<1>1. a * c \in Int /\ b * c \in Int
  OBVIOUS
<1>2. (a + 1) * c = a * c + c
  OBVIOUS
<1>3. ASSUME a < b PROVE a * c + c <= b * c
  <2>1. b - (a + 1) \in Nat
    BY <1>3
  <2>2. (b - (a + 1)) * c >= 0
    BY <2>1
  <2> QED
    BY <1>1, <2>2
<1> QED
  BY <1>1, <1>2, <1>3

(* Division with remainder is unique. *)
LEMMA Quotient ==
  ASSUME NEW q \in Nat, NEW c \in Nat \ {0}, NEW r \in 0 .. c - 1
  PROVE  (q * c + r) \div c = q /\ (q * c + r) % c = r
<1> DEFINE n == q * c + r
           d == n \div c
           m == n % c
<1>1. n \in Nat /\ d \in Nat /\ m \in 0 .. c - 1 /\ n = d * c + m
  OBVIOUS
<1>2. ~(d < q)
  BY <1>1, Products
<1>3. ~(q < d)
  BY <1>1, Products
<1> QED
  BY <1>1, <1>2, <1>3

(* The frame is a whole number of buffers (hal_npdata_transfer divides     *)
(* without a remainder).                                                   *)
LEMMA WholeBlocks ==
  /\ Blocks \in Nat \ {0}
  /\ Blocks * BufferLength = Pixels * ColorBits
  /\ Pixels * ColorBits \in Nat \ {0}
<1> DEFINE t == Pixels * ColorBits
<1>1. t \in Nat \ {0} /\ BufferLength \in Nat \ {0} /\ t % BufferLength = 0
  BY TransferConstants
<1> HIDE DEF t
<1>2. (t \div BufferLength) * BufferLength = t /\ t \div BufferLength \in Nat \ {0}
  BY <1>1
<1> QED
  BY <1>1, <1>2 DEF Blocks, t

(* Pixel p's bit b is the symbol that FrameStream counts at its place. *)
LEMMA SymbolAtPosition ==
  ASSUME NEW v, NEW p \in Nat, NEW b \in 0 .. ColorBits - 1
  PROVE  Stream!SymbolAt(v, p * ColorBits + (ColorBits - 1 - b))
           = [ver |-> v, pixel |-> p, bit |-> b]
<1> DEFINE r == ColorBits - 1 - b
<1>1. r \in 0 .. ColorBits - 1 /\ ColorBits \in Nat \ {0} /\ ColorBits - 1 - r = b
  BY TransferConstants
<1> HIDE DEF r
<1>2. (p * ColorBits + r) \div ColorBits = p /\ (p * ColorBits + r) % ColorBits = r
  BY <1>1, Quotient
<1>3. Stream!SymbolAt(v, p * ColorBits + r) = [ver |-> v, pixel |-> p, bit |-> b]
  BY <1>1, <1>2 DEF Stream!SymbolAt
<1> QED
  BY <1>3 DEF r

(* The symbols pushed are never more than the frame has. *)
LEMMA PositionBounds ==
  ASSUME TypeOK
  PROVE  /\ Position \in Nat
         /\ idx < Pixels => Position < Pixels * ColorBits
         /\ idx = Pixels /\ bit = ColorBits - 1 => Position = Pixels * ColorBits
<1>1. /\ idx \in Nat /\ idx <= Pixels /\ bit \in 0 .. ColorBits - 1
      /\ Pixels \in Nat /\ ColorBits \in Nat
  BY TransferConstants DEF TypeOK
<1>2. idx * ColorBits \in Nat
  BY <1>1
<1>3. idx < Pixels => idx * ColorBits + ColorBits <= Pixels * ColorBits
  BY <1>1, Products
<1>4. Pixels * ColorBits \in Nat
  BY WholeBlocks
<1> QED
  BY <1>1, <1>2, <1>3, <1>4 DEF Position

(* One turn of push_data_to_buffer in block a: it writes the symbol whose  *)
(* turn it is, and when it returns, the block is complete.                 *)
LEMMA Push ==
  ASSUME TypeOK, PushInv, thread = "push" \/ counting,
         \A p \in Pixel : frame[p] = frame[0],
         NEW a \in 0 .. Blocks - 1, Position = a * BufferLength + k,
         PushSymbol
  PROVE  /\ buf' = [buf EXCEPT ![fill][k] = Stream!SymbolAt(frame[0], a * BufferLength + k)]
         /\ buf' \in [{0, 1} -> [Offset -> Symbol \cup {NoSymbol}]]
         /\ fill' = fill /\ k' = k + 1 /\ k < BufferLength
         /\ Position' = Position + 1
         /\ cnt' \in 0 .. Pixels /\ idx' \in 0 .. Pixels /\ bit' \in 0 .. ColorBits - 1
         /\ word' \in Version \X Pixel
         /\ cnt' = Pixels - idx'
         /\ cnt' > 0 => word' = <<frame[0], idx'>>
         /\ cnt' = 0 => bit' = ColorBits - 1
<1>1. /\ idx \in 0 .. Pixels /\ bit \in 0 .. ColorBits - 1 /\ cnt \in 0 .. Pixels
      /\ k \in 0 .. BufferLength - 1 /\ fill \in {0, 1}
      /\ Pixels \in Nat \ {0} /\ ColorBits \in Nat \ {0} /\ BufferLength \in Nat \ {0, 1}
      /\ Blocks \in Nat \ {0} /\ a \in Nat /\ a < Blocks
      /\ frame \in [Pixel -> Version] /\ word \in Version \X Pixel
      /\ buf \in [{0, 1} -> [Offset -> Symbol \cup {NoSymbol}]]
  BY TransferConstants, WholeBlocks DEF TypeOK, PushSymbol
<1>2. /\ a * BufferLength \in Nat
      /\ a * BufferLength + BufferLength <= Pixels * ColorBits
      /\ a + 1 < Blocks => a * BufferLength + BufferLength + BufferLength <= Pixels * ColorBits
  <2>1. a * BufferLength \in Nat
    BY <1>1
  <2>2. a * BufferLength + BufferLength <= Blocks * BufferLength
    BY <1>1, Products
  <2>3. (a + 1) * BufferLength = a * BufferLength + BufferLength
    BY <1>1, Products
  <2>4. a + 1 < Blocks =>
          (a + 1) * BufferLength + BufferLength <= Blocks * BufferLength
    BY <1>1, Products
  <2> QED
    BY <2>1, <2>2, <2>3, <2>4, WholeBlocks
<1>3. idx < Pixels
  BY <1>1, <1>2, PositionBounds, WholeBlocks DEF PushInv
<1>4. cnt = Pixels - idx /\ cnt > 0 /\ word = <<frame[0], idx>> /\ idx \in Pixel /\ 0 \in Pixel
  BY <1>1, <1>3 DEF PushInv, Pixel
<1>5. [ver |-> word[1], pixel |-> word[2], bit |-> bit]
        = Stream!SymbolAt(frame[0], a * BufferLength + k)
  <2>1. Stream!SymbolAt(frame[0], Position) = [ver |-> frame[0], pixel |-> idx, bit |-> bit]
    <3>1. idx \in Nat /\ bit \in 0 .. ColorBits - 1
      BY <1>1
    <3>2. Stream!SymbolAt(frame[0], idx * ColorBits + (ColorBits - 1 - bit))
            = [ver |-> frame[0], pixel |-> idx, bit |-> bit]
      BY <3>1, SymbolAtPosition
    <3> QED
      BY <3>2 DEF Position
  <2> QED
    BY <1>4, <2>1
<1>6. buf' = [buf EXCEPT ![fill][k] = Stream!SymbolAt(frame[0], a * BufferLength + k)]
  BY <1>5 DEF PushSymbol
<1>7. buf' \in [{0, 1} -> [Offset -> Symbol \cup {NoSymbol}]]
  <2>1. [ver |-> word[1], pixel |-> word[2], bit |-> bit] \in Symbol
    BY <1>1, <1>4 DEF Symbol
  <2>2. k \in Offset
    BY <1>1 DEF Offset
  <2> DEFINE s == [ver |-> word[1], pixel |-> word[2], bit |-> bit]
  <2>3. buf' = [buf EXCEPT ![fill] = [buf[fill] EXCEPT ![k] = s]]
    BY DEF PushSymbol
  <2> HIDE DEF s
  <2>4. [buf[fill] EXCEPT ![k] = s] \in [Offset -> Symbol \cup {NoSymbol}]
    BY <1>1, <2>1, <2>2 DEF s
  <2> QED
    BY <1>1, <2>3, <2>4
<1>8. CASE bit > 0
  <2>1. bit' = bit - 1 /\ k' = k + 1 /\ UNCHANGED <<cnt, idx, word, fill>>
    BY <1>8 DEF PushSymbol
  <2>2. Position' = Position + 1
    BY <1>1, <2>1 DEF Position
  <2> QED
    BY <1>1, <1>4, <1>6, <1>7, <1>8, <2>1, <2>2
<1>9. CASE bit = 0
  <2>1. /\ bit' = ColorBits - 1 /\ idx' = idx + 1 /\ cnt' = cnt - 1 /\ fill' = fill
        /\ IF cnt = 1 THEN k' = BufferLength /\ word' = word
           ELSE k' = k + 1 /\ word' = <<frame[idx + 1], idx + 1>>
    BY <1>1, <1>9 DEF PushSymbol
  <2>2. Position' = Position + 1
    <3>1. (idx + 1) * ColorBits = idx * ColorBits + ColorBits /\ idx * ColorBits \in Int
      BY <1>1, Products
    <3>2. Position' = (idx + 1) * ColorBits
      BY <1>1, <2>1, <3>1 DEF Position
    <3> QED
      BY <1>1, <1>9, <3>1, <3>2 DEF Position
  <2>3. cnt = 1 => k + 1 = BufferLength
    <3> SUFFICES ASSUME cnt = 1 PROVE k + 1 = BufferLength
      OBVIOUS
    <3>1. idx + 1 = Pixels /\ (idx + 1) * ColorBits = idx * ColorBits + ColorBits
          /\ idx * ColorBits \in Int
      BY <1>1, <1>4, Products
    <3>2. Position + 1 = Pixels * ColorBits
      BY <1>1, <1>9, <3>1 DEF Position
    <3>3. a + 1 = Blocks
      BY <1>1, <1>2, <3>2, WholeBlocks
    <3>4. (a + 1) * BufferLength = a * BufferLength + BufferLength
      BY <1>1, Products
    <3> QED
      BY <1>1, <1>2, <3>2, <3>3, <3>4, WholeBlocks
  <2>4. k' = k + 1
    BY <2>1, <2>3
  <2>5. cnt # 1 => idx + 1 \in Pixel /\ frame[idx + 1] = frame[0] /\ frame[0] \in Version
    <3>1. frame[0] \in Version
      BY <1>1, <1>4
    <3>2. cnt # 1 => idx + 1 \in Pixel
      BY <1>1, <1>4 DEF Pixel
    <3> QED
      BY <3>1, <3>2
  <2>6. word' \in Version \X Pixel /\ (cnt' > 0 => word' = <<frame[0], idx'>>)
    BY <1>1, <1>4, <2>1, <2>5
  <2> QED
    BY <1>1, <1>4, <1>6, <1>7, <2>1, <2>2, <2>4, <2>6
<1> QED
  BY <1>1, <1>8, <1>9

-----------------------------------------------------------------------------
(* TypeOK by the actors that the variables belong to. *)
PushTypes ==
  /\ buf \in [{0, 1} -> [Offset -> Symbol \cup {NoSymbol}]]
  /\ cnt \in 0 .. Pixels /\ idx \in 0 .. Pixels /\ bit \in 0 .. ColorBits - 1
  /\ word \in Version \X Pixel
  /\ fill \in {0, 1} /\ k \in 0 .. BufferLength

DmaTypes ==
  /\ dmsar \in [buf : {0, 1}, off : Offset]
  /\ dmcral \in 1 .. BufferLength /\ dmcrb \in 0 .. Blocks

WireTypes ==
  /\ gtccr \in Symbol \cup {NoSymbol}
  /\ sent \in 0 .. Pixels * ColorBits /\ sending \in Version

TaskTypes ==
  /\ frame \in [Pixel -> Version]
  /\ isr \in {"off", "push", "stopped"}
  /\ thread \in {"idle", "push", "wait", "copy"}
  /\ next \in Version /\ copied \in 0 .. Pixels

FlagTypes ==
  /\ dmcnt \in BOOLEAN /\ request \in BOOLEAN /\ irq \in BOOLEAN
  /\ counting \in BOOLEAN /\ render \in BOOLEAN

LEMMA TypeParts ==
  TypeOK <=> PushTypes /\ DmaTypes /\ WireTypes /\ TaskTypes /\ FlagTypes
BY DEF TypeOK, PushTypes, DmaTypes, WireTypes, TaskTypes, FlagTypes

LEMMA TypePartsNext ==
  TypeOK' <=> PushTypes' /\ DmaTypes' /\ WireTypes' /\ TaskTypes' /\ FlagTypes'
BY DEF TypeOK, PushTypes, DmaTypes, WireTypes, TaskTypes, FlagTypes

(* npdata_open leaves the transfer at rest. *)
LEMMA InitInv == Init => IInv
<1> SUFFICES ASSUME Init PROVE IInv
  OBVIOUS
<1>1. 0 \in Pixel /\ 0 \in Version /\ 0 \in Offset
  BY TransferConstants DEF Pixel, Version, Offset
<1>2. TypeOK
  <2>1. PushTypes
    <3>1. [o \in Offset |-> NoSymbol] \in [Offset -> Symbol \cup {NoSymbol}]
      OBVIOUS
    <3> QED
      BY <1>1, <3>1, TransferConstants DEF Init, PushTypes
  <2>2. DmaTypes
    BY <1>1, TransferConstants, WholeBlocks DEF Init, DmaTypes
  <2>3. WireTypes
    BY <1>1, WholeBlocks DEF Init, WireTypes
  <2>4. TaskTypes
    BY <1>1, TransferConstants DEF Init, TaskTypes
  <2>5. FlagTypes
    BY DEF Init, FlagTypes
  <2> QED
    BY <2>1, <2>2, <2>3, <2>4, <2>5, TypeParts
<1> QED
  BY <1>1, <1>2 DEF Init, IInv, PushInv, FrameInv, QuietInv, SendInv, StreamInv

(* The timer only latches a request. *)
LEMMA OverflowInv == IInv /\ Overflow => IInv'
<1> SUFFICES ASSUME IInv, Overflow PROVE IInv'
  OBVIOUS
<1> USE DEF Overflow, pushVars, wireVars, taskVars
<1>1. TypeOK' BY DEF IInv, TypeOK
<1>2. PushInv' BY DEF IInv, PushInv
<1>3. FrameInv' BY DEF IInv, FrameInv
<1>4. QuietInv' BY DEF IInv, QuietInv
<1>5. SendInv' BY DEF IInv, SendInv, Position
<1>6. StreamInv' BY DEF IInv, StreamInv, Position, Done, Target, Filled
<1> QED BY <1>1, <1>2, <1>3, <1>4, <1>5, <1>6 DEF IInv

(* A transfer to the timer reads the symbol whose turn it is; the last of  *)
(* a block ends the block, so Target stays what it was.                    *)
LEMMA DmaTransferReads ==
  ASSUME IInv, DmaTransfer
  PROVE  /\ counting /\ ~irq /\ dmcrb \in 1 .. Blocks
         /\ dmsar.buf \in {0, 1} /\ dmsar.off \in Offset
         /\ dmcral = BufferLength - dmsar.off
         /\ Done \in 0 .. Blocks - 1 /\ Done * BufferLength \in Nat
         /\ sent = Done * BufferLength + dmsar.off
         /\ sent < Pixels * ColorBits
         /\ (Done + 1) * BufferLength = Done * BufferLength + BufferLength
         /\ gtccr' = Stream!SymbolAt(sending, sent)
<1>1. /\ counting /\ ~irq /\ dmcrb > 0
  BY DEF IInv, TypeOK, QuietInv, StreamInv, DmaTransfer
<1>2. /\ dmcrb \in 1 .. Blocks /\ dmsar.buf \in {0, 1} /\ dmsar.off \in Offset
      /\ dmsar.off \in 0 .. BufferLength - 1 /\ BufferLength \in Nat \ {0}
      /\ Blocks \in Nat \ {0} /\ Done \in 0 .. Blocks - 1
  BY <1>1, WholeBlocks, TransferConstants DEF IInv, TypeOK, Offset, Done
<1>3. /\ dmcral = BufferLength - dmsar.off
      /\ sent = Done * BufferLength + dmsar.off
      /\ \A o \in Offset : o >= dmsar.off =>
           buf[dmsar.buf][o] = Stream!SymbolAt(sending, Done * BufferLength + o)
  BY <1>1 DEF IInv, StreamInv
<1>4. /\ Done * BufferLength \in Int
      /\ (Done + 1) * BufferLength = Done * BufferLength + BufferLength
      /\ Done * BufferLength + BufferLength <= Blocks * BufferLength
  <2>1. Done \in Int /\ Blocks \in Int /\ BufferLength \in Nat /\ Done < Blocks
    BY <1>2
  <2> QED
    BY <2>1, Products
<1>5. Done * BufferLength \in Nat
  BY <1>2
<1>6. gtccr' = Stream!SymbolAt(sending, sent)
  <2>1. gtccr' = buf[dmsar.buf][dmsar.off]
    BY DEF DmaTransfer
  <2> QED
    BY <1>2, <1>3, <2>1
<1> QED
  BY <1>1, <1>2, <1>3, <1>4, <1>5, <1>6, WholeBlocks

LEMMA DmaTransferInv == IInv /\ DmaTransfer => IInv'
<1> SUFFICES ASSUME IInv, DmaTransfer PROVE IInv'
  OBVIOUS
<1>1. /\ counting /\ ~irq /\ dmcrb \in 1 .. Blocks
      /\ dmsar.buf \in {0, 1} /\ dmsar.off \in Offset
      /\ dmcral = BufferLength - dmsar.off
      /\ Done \in 0 .. Blocks - 1 /\ Done * BufferLength \in Nat
      /\ sent = Done * BufferLength + dmsar.off
      /\ sent < Pixels * ColorBits
      /\ (Done + 1) * BufferLength = Done * BufferLength + BufferLength
  BY DmaTransferReads
<1>2. /\ dmsar.off \in 0 .. BufferLength - 1 /\ BufferLength \in Nat \ {0} /\ Blocks \in Nat
      /\ Pixels * ColorBits \in Nat
      /\ dmsar \in [buf : {0, 1}, off : Offset]
  BY <1>1, TransferConstants, WholeBlocks DEF Offset, IInv, TypeOK
<1>3. /\ UNCHANGED <<buf, cnt, idx, bit, word, fill, k>>
      /\ UNCHANGED <<counting, sending>>
      /\ UNCHANGED <<thread, render, next, copied, frame, isr>>
      /\ sent' = sent + 1 /\ request' = FALSE
  BY DEF DmaTransfer, pushVars, taskVars
<1>4. thread # "push" /\ thread # "copy" /\ isr # "stopped"
  BY <1>1 DEF IInv, SendInv, FrameInv, StreamInv
<1>5. PushInv' /\ FrameInv' /\ QuietInv' /\ SendInv'
  BY <1>1, <1>3, <1>4 DEF IInv, PushInv, FrameInv, QuietInv, SendInv
<1>6. gtccr' \in Symbol \cup {NoSymbol}
  BY <1>1 DEF DmaTransfer, IInv, TypeOK
<1>7. PushTypes' /\ WireTypes' /\ TaskTypes' /\ FlagTypes' /\ DmaTypes
  <2>1. PushTypes /\ DmaTypes /\ WireTypes /\ TaskTypes /\ FlagTypes
    BY TypeParts DEF IInv
  <2>2. sent \in 0 .. Pixels * ColorBits
    BY <2>1 DEF WireTypes
  <2>3. sent + 1 \in 0 .. Pixels * ColorBits
    BY <1>1, <1>2, <2>2
  <2>4. PushTypes'
    BY <1>3, <2>1 DEF PushTypes
  <2>5. WireTypes'
    BY <1>3, <1>6, <2>1, <2>3 DEF WireTypes
  <2>6. TaskTypes'
    BY <1>3, <2>1 DEF TaskTypes
  <2>7. FlagTypes'
    BY <1>3, <2>1 DEF FlagTypes, DmaTransfer
  <2> QED
    BY <2>1, <2>4, <2>5, <2>6, <2>7
<1>8. CASE dmcral > 1
  <2>1. /\ dmcral' = dmcral - 1 /\ dmsar' = [dmsar EXCEPT !.off = @ + 1]
        /\ UNCHANGED <<dmcrb, dmcnt, irq>>
    BY <1>8 DEF DmaTransfer
  <2>2. /\ dmsar'.buf = dmsar.buf /\ dmsar'.off = dmsar.off + 1 /\ dmsar'.off \in Offset
        /\ dmsar' \in [buf : {0, 1}, off : Offset]
    BY <1>1, <1>2, <1>8, <2>1 DEF Offset
  <2>3. TypeOK'
    <3>1. dmcral' \in 1 .. BufferLength /\ dmcrb' \in 0 .. Blocks
      BY <1>1, <1>2, <1>8, <2>1
    <3>2. DmaTypes'
      BY <2>2, <3>1 DEF DmaTypes
    <3> QED
      BY <1>7, <3>2, TypePartsNext
  <2>4. Done' = Done /\ Target' = Target /\ Filled' = Filled /\ Position' = Position
    BY <1>3, <2>1 DEF Done, Target, Filled, Position
  <2>5. StreamInv'
    BY <1>1, <1>2, <1>3, <2>1, <2>2, <2>4 DEF IInv, StreamInv, Offset
  <2> QED
    BY <1>5, <2>3, <2>5 DEF IInv
<1>9. CASE ~(dmcral > 1)
  <2>1. /\ dmcral' = BufferLength /\ dmsar' = [dmsar EXCEPT !.off = 0]
        /\ dmcrb' = dmcrb - 1 /\ dmcnt' = FALSE /\ irq' = TRUE
    BY <1>9 DEF DmaTransfer
  <2>2. /\ dmsar'.buf = dmsar.buf /\ dmsar'.off = 0 /\ 0 \in Offset
        /\ dmsar' \in [buf : {0, 1}, off : Offset]
    BY <1>1, <1>2, <2>1 DEF Offset
  <2>3. dmsar.off = BufferLength - 1
    BY <1>1, <1>2, <1>9
  <2>4. TypeOK'
    <3>1. dmcral' \in 1 .. BufferLength /\ dmcrb' \in 0 .. Blocks
      BY <1>1, <1>2, <2>1
    <3>2. DmaTypes'
      BY <2>2, <3>1 DEF DmaTypes
    <3> QED
      BY <1>7, <3>2, TypePartsNext
  <2>5. /\ Done' = Done + 1 /\ Target' = Target /\ Target = Done + 1
        /\ Filled' = Filled /\ Position' = Position
    BY <1>1, <1>2, <1>3, <2>1 DEF Done, Target, Filled, Position
  <2>6. sent' = Done' * BufferLength + dmsar'.off
    BY <1>1, <1>2, <1>3, <2>2, <2>3, <2>5
  <2>7. StreamInv'
    <3>1. /\ dmcral' = BufferLength - dmsar'.off
          /\ (dmcnt' <=> ~irq') /\ irq' /\ isr' # "stopped"
      BY <1>2, <1>3, <1>4, <2>1, <2>2
    <3>2. Position' = IF Target' < Blocks THEN Target' * BufferLength + Filled'
                      ELSE Pixels * ColorBits
      BY <1>1, <2>5 DEF IInv, StreamInv
    <3>3. Target' >= Blocks => Filled' = BufferLength
      BY <1>1, <2>5 DEF IInv, StreamInv
    <3>4. isr' = "push" => fill' = 1 - dmsar'.buf
      BY <1>1, <1>3, <2>2 DEF IInv, StreamInv
    <3>5. Target' < Blocks => \A o \in Offset : o < Filled' =>
            buf'[1 - dmsar'.buf][o] = Stream!SymbolAt(sending', Target' * BufferLength + o)
      BY <1>1, <1>3, <2>2, <2>5 DEF IInv, StreamInv
    <3> QED
      BY <2>2, <2>6, <3>1, <3>2, <3>3, <3>4, <3>5 DEF StreamInv
  <2> QED
    BY <1>5, <2>4, <2>7 DEF IInv
<1> QED
  BY <1>8, <1>9

-----------------------------------------------------------------------------
(* The handler hands the full buffer over and takes the other one; all of  *)
(* the block before was pushed, so the next push is the first of a block.  *)
LEMMA IsrSwapInv == IInv /\ IsrSwap => IInv'
<1> SUFFICES ASSUME IInv, IsrSwap PROVE IInv'
  OBVIOUS
<1>1. PushTypes /\ DmaTypes /\ WireTypes /\ TaskTypes /\ FlagTypes
  BY TypeParts DEF IInv
<1>2. /\ isr = "off" /\ irq /\ dmcrb > 0 /\ irq' = FALSE /\ dmcnt' = TRUE /\ isr' = "push"
      /\ UNCHANGED <<buf, cnt, idx, bit, word, dmcral, dmcrb, request>>
      /\ UNCHANGED <<counting, gtccr, sent, sending>>
      /\ UNCHANGED <<thread, render, next, copied, frame>>
  BY DEF IsrSwap, wireVars, taskVars
<1>3. /\ counting /\ thread # "push" /\ thread # "copy"
  BY <1>2 DEF IInv, QuietInv, SendInv, FrameInv
<1>4. dmsar.off = 0 /\ dmsar.buf \in {0, 1} /\ dmsar = [buf |-> dmsar.buf, off |-> dmsar.off]
  BY <1>1, <1>2, <1>3 DEF IInv, StreamInv, DmaTypes
<1>5. /\ dmsar' = [buf |-> 1 - dmsar.buf, off |-> 0]
      /\ fill' = dmsar.buf
      /\ k' = IF cnt = 0 THEN BufferLength ELSE 0
  BY <1>4 DEF IsrSwap, CallPush
<1>6. /\ BufferLength \in Nat \ {0, 1} /\ Blocks \in Nat \ {0} /\ 0 \in Offset
      /\ dmcrb \in 1 .. Blocks /\ Done \in 0 .. Blocks - 1
      /\ Pixels * ColorBits \in Nat \ {0} /\ Pixels \in Nat
      /\ idx \in 0 .. Pixels /\ cnt = Pixels - idx /\ cnt \in 0 .. Pixels
      /\ 1 - dmsar.buf \in {0, 1}
  BY <1>1, <1>2, <1>3, <1>4, TransferConstants, WholeBlocks
     DEF Offset, DmaTypes, PushTypes, Done, IInv, PushInv
<1>7. TypeOK'
  <2>1. PushTypes'
    BY <1>1, <1>2, <1>4, <1>5, <1>6 DEF PushTypes
  <2>2. DmaTypes'
    BY <1>1, <1>2, <1>4, <1>5, <1>6 DEF DmaTypes
  <2>3. WireTypes' /\ TaskTypes'
    BY <1>1, <1>2 DEF WireTypes, TaskTypes
  <2>4. FlagTypes'
    BY <1>1, <1>2 DEF FlagTypes
  <2> QED
    BY <2>1, <2>2, <2>3, <2>4, TypePartsNext
<1>8. PushInv' /\ FrameInv' /\ QuietInv' /\ SendInv'
  BY <1>2, <1>3 DEF IInv, PushInv, FrameInv, QuietInv, SendInv
<1>9. /\ Target = Done /\ Target' = Done + 1 /\ Done' = Done /\ Position' = Position
      /\ Filled = BufferLength /\ Filled' = k'
  BY <1>2 DEF Target, Done, Position, Filled
<1>10. /\ Position = Done * BufferLength + BufferLength
       /\ (Done + 1) * BufferLength = Done * BufferLength + BufferLength
       /\ Done + 1 < Blocks =>
            (Done + 1) * BufferLength + BufferLength <= Pixels * ColorBits
  <2>1. Position = Done * BufferLength + BufferLength
    BY <1>3, <1>6, <1>9 DEF IInv, StreamInv
  <2>2. Done \in Int /\ Done + 1 \in Int /\ Blocks \in Int /\ BufferLength \in Nat
    BY <1>6
  <2> QED
    BY <2>1, <2>2, Products, WholeBlocks
<1>11. cnt = 0 <=> Done + 1 >= Blocks
  <2>1. cnt = 0 => Position = Pixels * ColorBits
    BY <1>3, <1>6, PositionBounds DEF IInv, PushInv
  <2>2. cnt # 0 => Position < Pixels * ColorBits
    BY <1>6, PositionBounds DEF IInv
  <2>3. Done + 1 = Blocks => Position = Pixels * ColorBits
    BY <1>10, WholeBlocks
  <2>4. Done + 1 < Blocks => Position < Pixels * ColorBits
    BY <1>6, <1>10
  <2> QED
    BY <1>6, <2>1, <2>2, <2>3, <2>4
<1>12. StreamInv'
  <2>1. /\ isr' # "stopped" /\ (dmcnt' <=> ~irq') /\ ~irq'
    BY <1>2
  <2>2. /\ dmcral' = BufferLength - dmsar'.off /\ sent' = Done' * BufferLength + dmsar'.off
        /\ dmcrb' > 0
    BY <1>2, <1>3, <1>4, <1>5, <1>9 DEF IInv, StreamInv
  <2>3. Position' = IF Target' < Blocks THEN Target' * BufferLength + Filled'
                    ELSE Pixels * ColorBits
    <3>1. CASE Done + 1 < Blocks
      BY <1>5, <1>6, <1>9, <1>10, <1>11, <3>1
    <3>2. CASE Done + 1 >= Blocks
      <4>1. Done + 1 = Blocks
        BY <1>6, <3>2
      <4> QED
        BY <1>6, <1>9, <1>10, <4>1, WholeBlocks
    <3> QED
      BY <1>6, <3>1, <3>2
  <2>4. Target' >= Blocks => Filled' = BufferLength
    BY <1>5, <1>6, <1>9, <1>11
  <2>5. fill' = 1 - dmsar'.buf
    BY <1>4, <1>5
  <2>6. \A o \in Offset : o >= dmsar'.off =>
          buf'[dmsar'.buf][o] = Stream!SymbolAt(sending', Done' * BufferLength + o)
    <3>1. \A o \in Offset : o < BufferLength =>
            buf[1 - dmsar.buf][o] = Stream!SymbolAt(sending, Done * BufferLength + o)
      BY <1>3, <1>6, <1>9 DEF IInv, StreamInv
    <3>2. \A o \in Offset : o < BufferLength
      BY <1>6 DEF Offset
    <3> QED
      BY <1>2, <1>5, <1>9, <3>1, <3>2
  <2>7. Target' < Blocks => Filled' = 0
    BY <1>5, <1>6, <1>9, <1>11
  <2>8. Target' < Blocks => \A o \in Offset : o < Filled' =>
          buf'[1 - dmsar'.buf][o] = Stream!SymbolAt(sending', Target' * BufferLength + o)
    <3>1. \A o \in Offset : ~(o < 0)
      BY <1>6 DEF Offset
    <3> QED
      BY <2>7, <3>1
  <2> QED
    BY <2>1, <2>2, <2>3, <2>4, <2>5, <2>6, <2>8 DEF StreamInv
<1> QED
  BY <1>7, <1>8, <1>12 DEF IInv

(* The handler fills the buffer that the controller does not read. *)
LEMMA IsrPushInv == IInv /\ IsrPush => IInv'
<1> SUFFICES ASSUME IInv, IsrPush PROVE IInv'
  OBVIOUS
<1>1. PushTypes /\ DmaTypes /\ WireTypes /\ TaskTypes /\ FlagTypes
  BY TypeParts DEF IInv
<1>2. /\ isr = "push" /\ isr' = "push" /\ PushSymbol
      /\ UNCHANGED <<dmsar, dmcral, dmcrb, dmcnt, request, irq>>
      /\ UNCHANGED <<counting, gtccr, sent, sending>>
      /\ UNCHANGED <<thread, render, next, copied, frame>>
  BY DEF IsrPush, dmaVars, wireVars, taskVars
<1>3. counting /\ thread # "push" /\ thread # "copy" /\ k < BufferLength
  BY <1>2 DEF IInv, QuietInv, SendInv, FrameInv, PushSymbol
<1>4. /\ Target \in 0 .. Blocks - 1 /\ Filled = k /\ Filled' = k'
      /\ Position = Target * BufferLength + k
      /\ fill = 1 - dmsar.buf /\ Target' = Target /\ Done' = Done
      /\ dmsar.buf \in {0, 1} /\ k \in Offset /\ k \in Nat /\ BufferLength \in Nat
  <2>1. Done \in Int /\ Target \in Nat /\ Blocks \in Nat /\ k \in Nat /\ BufferLength \in Nat
    BY <1>1, WholeBlocks, TransferConstants DEF Done, Target, DmaTypes, PushTypes
  <2>2. Filled = k /\ Filled' = k' /\ Target' = Target /\ Done' = Done
    BY <1>2 DEF Filled, Target, Done
  <2>3. Target < Blocks
    BY <1>3, <2>1, <2>2 DEF IInv, StreamInv
  <2>4. Position = Target * BufferLength + k /\ fill = 1 - dmsar.buf
    BY <1>2, <1>3, <2>2, <2>3 DEF IInv, StreamInv
  <2> QED
    BY <1>1, <1>3, <2>1, <2>2, <2>3, <2>4 DEF DmaTypes, Offset
<1>5. sending = frame[0] /\ \A p \in Pixel : frame[p] = frame[0]
  BY <1>3 DEF IInv, FrameInv
<1>6. /\ buf' = [buf EXCEPT ![fill][k] = Stream!SymbolAt(frame[0], Target * BufferLength + k)]
      /\ buf' \in [{0, 1} -> [Offset -> Symbol \cup {NoSymbol}]]
      /\ fill' = fill /\ k' = k + 1
      /\ Position' = Position + 1
      /\ cnt' \in 0 .. Pixels /\ idx' \in 0 .. Pixels /\ bit' \in 0 .. ColorBits - 1
      /\ word' \in Version \X Pixel
      /\ cnt' = Pixels - idx'
      /\ cnt' > 0 => word' = <<frame[0], idx'>>
      /\ cnt' = 0 => bit' = ColorBits - 1
  BY <1>2, <1>3, <1>4, <1>5, Push DEF IInv
<1>7. TypeOK'
  <2>1. PushTypes'
    BY <1>1, <1>3, <1>4, <1>6 DEF PushTypes
  <2>2. DmaTypes' /\ WireTypes' /\ TaskTypes' /\ FlagTypes'
    BY <1>1, <1>2 DEF DmaTypes, WireTypes, TaskTypes, FlagTypes
  <2> QED
    BY <2>1, <2>2, TypePartsNext
<1>8. PushInv' /\ FrameInv' /\ QuietInv' /\ SendInv'
  <2>1. PushInv'
    BY <1>2, <1>6 DEF PushInv
  <2>2. FrameInv' /\ QuietInv' /\ SendInv'
    BY <1>2, <1>3 DEF IInv, FrameInv, QuietInv, SendInv
  <2> QED
    BY <2>1, <2>2
<1>9. /\ \A o \in Offset : buf'[dmsar.buf][o] = buf[dmsar.buf][o]
      /\ \A o \in Offset : buf'[1 - dmsar.buf][o] =
           IF o = k THEN Stream!SymbolAt(frame[0], Target * BufferLength + k)
           ELSE buf[1 - dmsar.buf][o]
  BY <1>1, <1>4, <1>6 DEF PushTypes
<1>10. StreamInv'
  <2>1. Position' = Target' * BufferLength + Filled' /\ Target' < Blocks
    BY <1>4, <1>6, WholeBlocks
  <2>2. ~irq' => \A o \in Offset : o >= dmsar'.off =>
          buf'[dmsar'.buf][o] = Stream!SymbolAt(sending', Done' * BufferLength + o)
    BY <1>2, <1>3, <1>4, <1>9 DEF IInv, StreamInv
  <2>3. \A o \in Offset : o < Filled' =>
          buf'[1 - dmsar'.buf][o] = Stream!SymbolAt(sending', Target' * BufferLength + o)
    <3>1. \A o \in Offset : o < k =>
            buf[1 - dmsar.buf][o] = Stream!SymbolAt(sending, Target * BufferLength + o)
      <4>1. Target < Blocks
        BY <1>4, WholeBlocks
      <4> QED
        BY <1>3, <1>4, <4>1 DEF IInv, StreamInv
    <3>2. \A o \in Offset : o < k + 1 => o < k \/ o = k
      BY <1>4 DEF Offset
    <3> QED
      BY <1>2, <1>4, <1>5, <1>6, <1>9, <3>1, <3>2
  <2>4. /\ isr' # "stopped"
        /\ dmcral' = BufferLength - dmsar'.off
        /\ sent' = Done' * BufferLength + dmsar'.off
        /\ dmcnt' <=> ~irq'
        /\ irq' => dmsar'.off = 0
        /\ ~irq' => dmcrb' > 0
        /\ fill' = 1 - dmsar'.buf
    BY <1>2, <1>3, <1>4, <1>6 DEF IInv, StreamInv
  <2>5. ~(Target' >= Blocks)
    BY <1>4, WholeBlocks
  <2> QED
    BY <2>1, <2>2, <2>3, <2>4, <2>5 DEF StreamInv
<1> QED
  BY <1>7, <1>8, <1>10 DEF IInv

(* The handler returns, or ends the transfer. *)
LEMMA IsrReturnInv == IInv /\ IsrReturn => IInv'
<1> SUFFICES ASSUME IInv, IsrReturn PROVE IInv'
  OBVIOUS
<1> USE DEF IsrReturn, pushVars, dmaVars, wireVars, taskVars
<1>1. TypeOK' BY DEF IInv, TypeOK
<1>2. PushInv' /\ FrameInv' /\ QuietInv' BY DEF IInv, PushInv, FrameInv, QuietInv
<1>3. SendInv' BY DEF IInv, SendInv, Position
<1>4. Position' = Position /\ Done' = Done /\ Target' = Target /\ Filled' = Filled
  BY DEF Position, Done, Target, Filled
<1>5. StreamInv' BY <1>4 DEF IInv, StreamInv
<1> QED BY <1>1, <1>2, <1>3, <1>5 DEF IInv

LEMMA IsrStopInv == IInv /\ IsrStop => IInv'
<1> SUFFICES ASSUME IInv, IsrStop PROVE IInv'
  OBVIOUS
<1> USE DEF IsrStop, pushVars, taskVars
<1>1. TypeOK' BY DEF IInv, TypeOK
<1>2. counting /\ thread # "push" /\ thread # "copy" /\ ~dmcnt /\ dmsar.off = 0
  BY DEF IInv, QuietInv, SendInv, FrameInv, StreamInv
<1>3. PushInv' /\ FrameInv' /\ SendInv' /\ StreamInv'
  BY <1>2 DEF IInv, PushInv, FrameInv, SendInv, StreamInv
<1>4. dmcral = BufferLength
  BY <1>2, TransferConstants DEF IInv, StreamInv
<1>5. QuietInv'
  BY <1>2, <1>4 DEF QuietInv
<1> QED BY <1>1, <1>3, <1>5 DEF IInv

LEMMA IsrDisableInv == IInv /\ IsrDisable => IInv'
<1> SUFFICES ASSUME IInv, IsrDisable PROVE IInv'
  OBVIOUS
<1> USE DEF IsrDisable, pushVars, wireVars, taskVars
<1>1. TypeOK' BY DEF IInv, TypeOK
<1>2. ~counting /\ thread # "push"
  BY DEF IInv, StreamInv, SendInv
<1>3. PushInv' /\ FrameInv' /\ SendInv' /\ StreamInv' /\ QuietInv'
  BY <1>2 DEF IInv, PushInv, FrameInv, SendInv, StreamInv, QuietInv
<1> QED BY <1>1, <1>3 DEF IInv

-----------------------------------------------------------------------------
(* npdata_frame_send. *)
LEMMA SendBeginInv == IInv /\ SendBegin => IInv'
<1> SUFFICES ASSUME IInv, SendBegin PROVE IInv'
  OBVIOUS
<1>1. PushTypes /\ DmaTypes /\ WireTypes /\ TaskTypes /\ FlagTypes
  BY TypeParts DEF IInv
<1>2. /\ isr = "off" /\ thread = "idle" /\ ~counting
      /\ idx' = 0 /\ bit' = ColorBits - 1 /\ cnt' = Pixels /\ word' = <<frame[0], 0>>
      /\ fill' = 0 /\ k' = 0 /\ thread' = "push" /\ buf' = buf
      /\ UNCHANGED <<dmsar, dmcral, dmcrb, dmcnt, request, irq>>
      /\ UNCHANGED <<counting, gtccr, sent, sending>>
      /\ UNCHANGED <<render, next, copied, frame, isr>>
  BY DEF SendBegin, dmaVars, wireVars
<1>3. /\ Pixels \in Nat \ {0} /\ ColorBits \in Nat \ {0} /\ BufferLength \in Nat \ {0, 1}
      /\ 0 \in Pixel
  BY TransferConstants DEF Pixel
<1>4. TypeOK'
  <2>1. frame[0] \in Version
    BY <1>1, <1>3 DEF TaskTypes
  <2>2. PushTypes'
    BY <1>1, <1>2, <1>3, <2>1 DEF PushTypes
  <2>3. DmaTypes' /\ WireTypes' /\ TaskTypes' /\ FlagTypes'
    BY <1>1, <1>2 DEF DmaTypes, WireTypes, TaskTypes, FlagTypes
  <2> QED
    BY <2>2, <2>3, TypePartsNext
<1>5. PushInv' /\ FrameInv' /\ QuietInv' /\ StreamInv'
  BY <1>2, <1>3 DEF IInv, PushInv, FrameInv, QuietInv, StreamInv
<1>6. SendInv'
  <2>1. Position' = 0
    BY <1>2, <1>3 DEF Position
  <2>2. \A o \in Offset : ~(o < 0)
    BY <1>3 DEF Offset
  <2> QED
    BY <1>2, <2>1, <2>2 DEF SendInv
<1> QED
  BY <1>4, <1>5, <1>6 DEF IInv

(* push_data_to_buffer fills block 0 into the first buffer, then block 1.  *)
LEMMA SendPushInv == IInv /\ SendPush => IInv'
<1> SUFFICES ASSUME IInv, SendPush PROVE IInv'
  OBVIOUS
<1>1. PushTypes /\ DmaTypes /\ WireTypes /\ TaskTypes /\ FlagTypes
  BY TypeParts DEF IInv
<1>2. /\ isr = "off" /\ thread = "push" /\ PushSymbol /\ k < BufferLength
      /\ UNCHANGED <<dmsar, dmcral, dmcrb, dmcnt, request, irq>>
      /\ UNCHANGED <<counting, gtccr, sent, sending>>
      /\ UNCHANGED <<thread, render, next, copied, frame, isr>>
  BY DEF SendPush, PushSymbol, dmaVars, wireVars, taskVars
<1>3. ~counting /\ \A p \in Pixel : frame[p] = frame[0]
  BY <1>2 DEF IInv, SendInv, FrameInv
<1>4. /\ k \in 0 .. BufferLength - 1 /\ k \in Offset /\ fill \in {0, 1} /\ Blocks \in Nat \ {0}
      /\ BufferLength \in Nat \ {0, 1}
  BY <1>1, <1>2, TransferConstants, WholeBlocks DEF PushTypes, Offset
<1>5. /\ fill \in 0 .. Blocks - 1 /\ Position = fill * BufferLength + k
      /\ fill * BufferLength = (IF fill = 0 THEN 0 ELSE BufferLength)
  <2>1. CASE fill = 0
    BY <1>2, <1>4, <2>1 DEF IInv, SendInv
  <2>2. CASE fill = 1
    <3>1. Blocks > 1
      BY <1>2, <1>4, <2>2 DEF IInv, SendInv
    <3> QED
      BY <1>2, <1>4, <2>2, <3>1 DEF IInv, SendInv
  <2> QED
    BY <1>4, <2>1, <2>2
<1> DEFINE start == fill * BufferLength
<1>6. /\ buf' = [buf EXCEPT ![fill][k] = Stream!SymbolAt(frame[0], start + k)]
      /\ buf' \in [{0, 1} -> [Offset -> Symbol \cup {NoSymbol}]]
      /\ fill' = fill /\ k' = k + 1
      /\ Position' = Position + 1
      /\ cnt' \in 0 .. Pixels /\ idx' \in 0 .. Pixels /\ bit' \in 0 .. ColorBits - 1
      /\ word' \in Version \X Pixel
      /\ cnt' = Pixels - idx'
      /\ cnt' > 0 => word' = <<frame[0], idx'>>
      /\ cnt' = 0 => bit' = ColorBits - 1
  BY <1>2, <1>3, <1>5, Push DEF IInv
<1>7. start = IF fill = 0 THEN 0 ELSE BufferLength
  BY <1>5
<1> HIDE DEF start
<1>8. TypeOK'
  <2>1. PushTypes'
    BY <1>1, <1>4, <1>6 DEF PushTypes
  <2>2. DmaTypes' /\ WireTypes' /\ TaskTypes' /\ FlagTypes'
    BY <1>1, <1>2 DEF DmaTypes, WireTypes, TaskTypes, FlagTypes
  <2> QED
    BY <2>1, <2>2, TypePartsNext
<1>9. PushInv' /\ FrameInv' /\ QuietInv' /\ StreamInv'
  <2>1. PushInv'
    BY <1>2, <1>6 DEF PushInv
  <2> QED
    BY <1>2, <1>3, <2>1 DEF IInv, FrameInv, QuietInv, StreamInv
<1>10. \A b \in {0, 1}, o \in Offset : buf'[b][o] =
         IF b = fill /\ o = k THEN Stream!SymbolAt(frame[0], start + k) ELSE buf[b][o]
  BY <1>1, <1>4, <1>6 DEF PushTypes
<1>11. \A o \in Offset : o \in Nat /\ (o < k + 1 => o < k \/ o = k)
  BY <1>4 DEF Offset
<1>12. SendInv'
  <2>1. CASE fill = 0
    <3>1. Position' = k' /\ fill' = 0
      BY <1>2, <1>4, <1>6, <2>1 DEF IInv, SendInv
    <3>2. \A o \in Offset : o < k => buf[0][o] = Stream!SymbolAt(frame[0], o)
      BY <1>2 DEF IInv, SendInv
    <3>3. start + k = k
      BY <1>4, <1>7, <2>1
    <3>4. \A o \in Offset : o < k' => buf'[0][o] = Stream!SymbolAt(frame[0], o)
      BY <1>4, <1>6, <1>10, <1>11, <2>1, <3>2, <3>3
    <3> QED
      BY <1>2, <1>3, <3>1, <3>4 DEF SendInv
  <2>2. CASE fill = 1
    <3>1. Blocks > 1
      BY <1>4, <1>5, <2>2
    <3>2. Position' = BufferLength + k' /\ fill' = 1
      BY <1>2, <1>4, <1>6, <2>2, <3>1 DEF IInv, SendInv
    <3>3. /\ \A o \in Offset : buf[0][o] = Stream!SymbolAt(frame[0], o)
          /\ \A o \in Offset : o < k => buf[1][o] = Stream!SymbolAt(frame[0], BufferLength + o)
      BY <1>2, <2>2, <3>1 DEF IInv, SendInv
    <3>4. start = BufferLength
      BY <1>7, <2>2
    <3>5. \A o \in Offset : buf'[0][o] = Stream!SymbolAt(frame[0], o)
      BY <1>10, <2>2, <3>3
    <3>6. \A o \in Offset : o < k' => buf'[1][o] = Stream!SymbolAt(frame[0], BufferLength + o)
      BY <1>6, <1>10, <1>11, <2>2, <3>3, <3>4
    <3>7. Blocks # 1
      BY <3>1
    <3> QED
      BY <1>2, <1>3, <3>2, <3>5, <3>6, <3>7 DEF SendInv
  <2> QED
    BY <1>4, <2>1, <2>2
<1> QED
  BY <1>8, <1>9, <1>12 DEF IInv

(* The second fill returns at once exactly when the frame is one block.   *)
LEMMA SendPushOtherInv == IInv /\ SendPushOther => IInv'
<1> SUFFICES ASSUME IInv, SendPushOther PROVE IInv'
  OBVIOUS
<1>1. PushTypes /\ DmaTypes /\ WireTypes /\ TaskTypes /\ FlagTypes
  BY TypeParts DEF IInv
<1>2. /\ isr = "off" /\ thread = "push" /\ k = BufferLength /\ fill = 0
      /\ fill' = 1 /\ k' = IF cnt = 0 THEN BufferLength ELSE 0
      /\ UNCHANGED <<buf, cnt, idx, bit, word>>
      /\ UNCHANGED <<dmsar, dmcral, dmcrb, dmcnt, request, irq>>
      /\ UNCHANGED <<counting, gtccr, sent, sending>>
      /\ UNCHANGED <<thread, render, next, copied, frame, isr>>
  BY DEF SendPushOther, CallPush, dmaVars, wireVars, taskVars
<1>3. /\ BufferLength \in Nat \ {0, 1} /\ Blocks \in Nat \ {0} /\ Pixels \in Nat
      /\ cnt = Pixels - idx /\ idx \in 0 .. Pixels /\ cnt \in 0 .. Pixels
      /\ Position = BufferLength
  BY <1>1, <1>2, TransferConstants, WholeBlocks DEF PushTypes, IInv, PushInv, SendInv
<1>4. cnt = 0 <=> Blocks = 1
  <2>1. 1 \in Int /\ Blocks \in Int /\ BufferLength \in Nat /\ 1 * BufferLength = BufferLength
    BY <1>3
  <2>2. Blocks > 1 => BufferLength < Pixels * ColorBits
    BY <1>3, <2>1, Products, WholeBlocks
  <2>3. Blocks = 1 => BufferLength = Pixels * ColorBits
    BY <1>3, WholeBlocks
  <2>4. cnt = 0 => Position = Pixels * ColorBits
    BY <1>2, <1>3, PositionBounds DEF IInv, PushInv
  <2>5. cnt # 0 => Position < Pixels * ColorBits
    BY <1>3, PositionBounds DEF IInv
  <2> QED
    BY <1>3, <2>2, <2>3, <2>4, <2>5, WholeBlocks
<1>5. TypeOK'
  <2>1. PushTypes'
    BY <1>1, <1>2, <1>3 DEF PushTypes
  <2>2. DmaTypes' /\ WireTypes' /\ TaskTypes' /\ FlagTypes'
    BY <1>1, <1>2 DEF DmaTypes, WireTypes, TaskTypes, FlagTypes
  <2> QED
    BY <2>1, <2>2, TypePartsNext
<1>6. PushInv' /\ FrameInv' /\ QuietInv' /\ StreamInv'
  BY <1>2 DEF IInv, PushInv, FrameInv, QuietInv, StreamInv, SendInv
<1>7. SendInv'
  <2>1. ~counting' /\ Position' = Position
    BY <1>2 DEF IInv, SendInv, Position
  <2>2. \A o \in Offset : o < BufferLength /\ ~(o < 0)
    BY <1>3 DEF Offset
  <2>3. \A o \in Offset : buf'[0][o] = Stream!SymbolAt(frame[0], o)
    BY <1>2, <2>2 DEF IInv, SendInv
  <2>4. Position' = IF Blocks = 1 THEN BufferLength ELSE BufferLength + k'
    BY <1>2, <1>3, <1>4, <2>1
  <2>5. Blocks > 1 => \A o \in Offset : ~(o < k')
    BY <1>2, <1>4, <2>2
  <2> QED
    BY <1>2, <1>4, <2>1, <2>3, <2>4, <2>5 DEF SendInv
<1> QED
  BY <1>5, <1>6, <1>7 DEF IInv

(* The hand-made first transfer is symbol 0, and the channel goes on at 1. *)
LEMMA SendStartInv == IInv /\ SendStart => IInv' /\ gtccr' = Stream!SymbolAt(sending', 0)
<1> SUFFICES ASSUME IInv, SendStart PROVE IInv' /\ gtccr' = Stream!SymbolAt(sending', 0)
  OBVIOUS
<1>1. PushTypes /\ DmaTypes /\ WireTypes /\ TaskTypes /\ FlagTypes
  BY TypeParts DEF IInv
<1>2. /\ isr = "off" /\ thread = "push" /\ k = BufferLength /\ fill = 1
      /\ dmsar' = [buf |-> 0, off |-> 1] /\ dmcrb' = Blocks /\ dmcral' = dmcral - 1
      /\ dmcnt' = TRUE /\ request' = FALSE /\ gtccr' = buf[0][0]
      /\ sent' = 1 /\ sending' = frame[0] /\ counting' = TRUE /\ render' = TRUE
      /\ thread' = "idle"
      /\ UNCHANGED <<buf, cnt, idx, bit, word, fill, k>>
      /\ UNCHANGED <<irq, next, copied, frame, isr>>
  BY DEF SendStart, pushVars
<1>3. /\ ~counting /\ ~irq /\ dmcral = BufferLength
      /\ Position = (IF Blocks = 1 THEN BufferLength ELSE BufferLength + BufferLength)
      /\ \A o \in Offset : buf[0][o] = Stream!SymbolAt(frame[0], o)
      /\ Blocks > 1 => \A o \in Offset : o < BufferLength =>
           buf[1][o] = Stream!SymbolAt(frame[0], BufferLength + o)
  BY <1>2 DEF IInv, SendInv, QuietInv
<1>4. /\ BufferLength \in Nat \ {0, 1} /\ Blocks \in Nat \ {0} /\ 0 \in Offset /\ 1 \in Offset
      /\ 0 \in Pixel /\ Pixels * ColorBits \in Nat \ {0}
      /\ \A o \in Offset : o \in Nat /\ o < BufferLength
  BY TransferConstants, WholeBlocks DEF Offset, Pixel
<1>5. gtccr' = Stream!SymbolAt(sending', 0)
  BY <1>2, <1>3, <1>4
<1>6. TypeOK'
  <2>1. PushTypes'
    BY <1>1, <1>2 DEF PushTypes
  <2>2. DmaTypes'
    BY <1>1, <1>2, <1>3, <1>4 DEF DmaTypes
  <2>3. WireTypes'
    <3>1. buf[0][0] \in Symbol \cup {NoSymbol} /\ frame[0] \in Version
      BY <1>1, <1>4 DEF PushTypes, TaskTypes
    <3> QED
      BY <1>2, <1>4, <3>1 DEF WireTypes
  <2>4. TaskTypes' /\ FlagTypes'
    BY <1>1, <1>2 DEF TaskTypes, FlagTypes
  <2> QED
    BY <2>1, <2>2, <2>3, <2>4, TypePartsNext
<1>7. PushInv' /\ FrameInv' /\ QuietInv' /\ SendInv'
  BY <1>2 DEF IInv, PushInv, FrameInv, QuietInv, SendInv
<1>8. StreamInv'
  <2>1. /\ Done' = 0 /\ Target' = 1 /\ Filled' = BufferLength /\ Position' = Position
        /\ dmsar'.buf = 0 /\ dmsar'.off = 1
    BY <1>2, <1>3, <1>4 DEF Done, Target, Filled, Position
  <2>2. 0 * BufferLength = 0 /\ 1 * BufferLength = BufferLength
    BY <1>4
  <2>3. Position' = IF Target' < Blocks THEN Target' * BufferLength + Filled'
                    ELSE Pixels * ColorBits
    BY <1>3, <1>4, <2>1, <2>2, WholeBlocks
  <2>4. \A o \in Offset : buf'[0][o] = Stream!SymbolAt(sending', 0 * BufferLength + o)
    BY <1>2, <1>3, <1>4, <2>2
  <2>5. 1 < Blocks => \A o \in Offset :
          buf'[1][o] = Stream!SymbolAt(sending', 1 * BufferLength + o)
    BY <1>2, <1>3, <1>4, <2>2
  <2>6. /\ dmcral' = BufferLength - dmsar'.off
        /\ sent' = Done' * BufferLength + dmsar'.off
        /\ dmcrb' > 0
    BY <1>2, <1>3, <1>4, <2>1, <2>2
  <2>7. isr' # "stopped" /\ isr' # "push" /\ (dmcnt' <=> ~irq') /\ ~irq'
    BY <1>2, <1>3
  <2> QED
    BY <2>1, <2>3, <2>4, <2>5, <2>6, <2>7 DEF StreamInv
<1> QED
  BY <1>5, <1>6, <1>7, <1>8 DEF IInv

-----------------------------------------------------------------------------
(* The render task. *)
LEMMA RenderInv == IInv /\ Render => IInv'
<1> SUFFICES ASSUME IInv, Render PROVE IInv'
  OBVIOUS
<1>1. PushTypes /\ DmaTypes /\ WireTypes /\ TaskTypes /\ FlagTypes
  BY TypeParts DEF IInv
<1>2. /\ UNCHANGED <<buf, cnt, idx, bit, word, fill, k>>
      /\ UNCHANGED <<dmsar, dmcral, dmcrb, dmcnt, request, irq>>
      /\ UNCHANGED <<counting, gtccr, sent, sending, isr>>
      /\ thread # "push" /\ thread' # "push"
  BY DEF Render, RenderFrame, WaitDone, CopyPixel, pushVars, dmaVars, wireVars
<1>3. PushTypes' /\ DmaTypes' /\ WireTypes'
  BY <1>1, <1>2 DEF PushTypes, DmaTypes, WireTypes
<1>4. FlagTypes'
  BY <1>1, <1>2 DEF FlagTypes, Render, RenderFrame, WaitDone, CopyPixel
<1>5. QuietInv' /\ SendInv'
  BY <1>2 DEF IInv, QuietInv, SendInv
<1>6. Position' = Position /\ Done' = Done /\ Target' = Target /\ Filled' = Filled
  BY <1>2 DEF Position, Done, Target, Filled
<1>7. StreamInv'
  BY <1>2, <1>6 DEF IInv, StreamInv
<1>8. CASE RenderFrame
  <2>1. (next + 1) % Versions \in Version
    BY <1>1, TransferConstants DEF TaskTypes, Version
  <2>2. TaskTypes'
    BY <1>1, <1>2, <1>8, <2>1 DEF RenderFrame, TaskTypes
  <2>3. PushInv' /\ FrameInv'
    BY <1>2, <1>8 DEF RenderFrame, IInv, PushInv, FrameInv
  <2> QED
    BY <1>3, <1>4, <1>5, <1>7, <2>2, <2>3, TypePartsNext DEF IInv
<1>9. CASE WaitDone
  <2>1. TaskTypes'
    BY <1>1, <1>2, <1>9, TransferConstants DEF WaitDone, TaskTypes
  <2>2. 0 < Pixels /\ \A p \in Pixel : ~(p < 0)
    BY TransferConstants DEF Pixel
  <2>3. PushInv' /\ FrameInv'
    BY <1>2, <1>9, <2>2 DEF WaitDone, IInv, PushInv, FrameInv
  <2> QED
    BY <1>3, <1>4, <1>5, <1>7, <2>1, <2>3, TypePartsNext DEF IInv
<1>10. CASE CopyPixel
  <2>1. /\ ~counting /\ copied \in Pixel /\ copied + 1 \in 0 .. Pixels /\ 0 \in Pixel
        /\ Pixels \in Nat
        /\ \A p \in Pixel : p < copied => frame[p] = next
    BY <1>1, <1>10, TransferConstants DEF CopyPixel, IInv, FrameInv, TaskTypes, Pixel
  <2>2. /\ frame' = [frame EXCEPT ![copied] = next] /\ copied' = copied + 1 /\ next' = next
        /\ thread' = IF copied + 1 = Pixels THEN "idle" ELSE "copy"
    BY <1>10 DEF CopyPixel
  <2>3. TaskTypes'
    BY <1>1, <1>2, <2>1, <2>2 DEF TaskTypes
  <2>4. \A p \in Pixel : p < copied + 1 => frame'[p] = next
    <3>1. \A p \in Pixel : p < copied + 1 => p < copied \/ p = copied
      BY <2>1 DEF Pixel
    <3> QED
      BY <1>1, <2>1, <2>2, <3>1 DEF TaskTypes
  <2>5. copied + 1 = Pixels => \A p \in Pixel : frame'[p] = frame'[0]
    <3>1. copied + 1 = Pixels => \A p \in Pixel : p < copied + 1
      BY <2>1 DEF Pixel
    <3> QED
      BY <2>1, <2>4, <3>1
  <2>6. PushInv'
    BY <1>2, <2>1 DEF PushInv
  <2>7. FrameInv'
    BY <1>2, <2>1, <2>2, <2>4, <2>5 DEF FrameInv
  <2> QED
    BY <1>3, <1>4, <1>5, <1>7, <2>3, <2>6, <2>7, TypePartsNext DEF IInv
<1> QED
  BY <1>8, <1>9, <1>10 DEF Render


-----------------------------------------------------------------------------
(* Every step of every actor keeps the invariant. *)
LEMMA StepInv == IInv /\ [Next]_vars => IInv'
<1> SUFFICES ASSUME IInv, [Next]_vars PROVE IInv'
  OBVIOUS
<1>1. CASE Overflow
  BY <1>1, OverflowInv
<1>2. CASE DmaTransfer
  BY <1>2, DmaTransferInv
<1>3. CASE Isr
  BY <1>3, IsrSwapInv, IsrPushInv, IsrReturnInv, IsrStopInv, IsrDisableInv DEF Isr
<1>4. CASE SendBegin
  BY <1>4, SendBeginInv
<1>5. CASE Send
  BY <1>5, SendPushInv, SendPushOtherInv, SendStartInv DEF Send
<1>6. CASE Render
  BY <1>6, RenderInv
<1>7. CASE UNCHANGED vars
  <2>1. /\ UNCHANGED <<buf, cnt, idx, bit, word, fill, k>>
        /\ UNCHANGED <<dmsar, dmcral, dmcrb, dmcnt, request, irq>>
        /\ UNCHANGED <<counting, gtccr, sent, sending>>
        /\ UNCHANGED <<thread, render, next, copied, frame, isr>>
    BY <1>7 DEF vars, pushVars, dmaVars, wireVars, taskVars
  <2>2. TypeOK'
    BY <2>1 DEF IInv, TypeOK
  <2>3. PushInv' /\ FrameInv' /\ QuietInv'
    BY <2>1 DEF IInv, PushInv, FrameInv, QuietInv
  <2>4. Position' = Position /\ Done' = Done /\ Target' = Target /\ Filled' = Filled
    BY <2>1 DEF Position, Done, Target, Filled
  <2>5. SendInv' /\ StreamInv'
    BY <2>1, <2>4 DEF IInv, SendInv, StreamInv
  <2> QED
    BY <2>2, <2>3, <2>5 DEF IInv
<1> QED
  BY <1>1, <1>2, <1>3, <1>4, <1>5, <1>6, <1>7 DEF Next

(* The counting in blocks holds in every reachable state. *)
THEOREM Invariance == Spec => []IInv
<1> QED
  BY InitInv, StepInv, PTL DEF Spec

(* Every variable keeps to its range: the transfer count never exceeds the *)
(* frame, push_data_to_buffer never writes beyond a buffer, and the DMA    *)
(* controller's counters never wrap around.                                *)
THEOREM TypeCorrect == Spec => []TypeOK
<1>1. IInv => TypeOK
  BY DEF IInv
<1> QED
  BY <1>1, Invariance, PTL

(* dmac0_repeat_isr refills the buffer that the DMA channel does not read, *)
(* however far the channel has gone since the handler restarted it.        *)
THEOREM NoRace == Spec => []NoBufferRace
<1>1. IInv => NoBufferRace
  <2> SUFFICES ASSUME IInv, isr = "push" PROVE dmsar.buf = 1 - fill
    BY DEF NoBufferRace
  <2>1. counting /\ fill = 1 - dmsar.buf /\ dmsar.buf \in {0, 1}
    BY DEF IInv, QuietInv, StreamInv, TypeOK
  <2> QED
    BY <2>1
<1> QED
  BY <1>1, Invariance, PTL

(* While the channel is enabled, the symbol that it will read next is the  *)
(* one of this frame whose turn it is: the handler's refill is never late. *)
THEOREM NextReady == Spec => []NextSymbolReady
<1>1. IInv => NextSymbolReady
  <2> SUFFICES ASSUME IInv, counting, dmcnt
               PROVE  buf[dmsar.buf][dmsar.off] = Stream!SymbolAt(sending, sent)
    BY DEF NextSymbolReady
  <2>1. ~irq /\ sent = Done * BufferLength + dmsar.off
    BY DEF IInv, StreamInv
  <2>2. dmsar.off \in Offset /\ dmsar.off >= dmsar.off
    BY TransferConstants DEF IInv, TypeOK, Offset
  <2>3. \A o \in Offset : o >= dmsar.off =>
          buf[dmsar.buf][o] = Stream!SymbolAt(sending, Done * BufferLength + o)
    BY <2>1 DEF IInv, StreamInv
  <2> QED
    BY <2>1, <2>2, <2>3
<1> QED
  BY <1>1, Invariance, PTL

-----------------------------------------------------------------------------
(* The transfer implements FrameStream: a DMA transfer emits, SendStart    *)
(* begins, the handler's stop finishes, and no other step is visible.      *)
LEMMA StreamStep == IInv /\ [Next]_vars => [Stream!Next]_(Stream!vars)
<1> SUFFICES ASSUME IInv, [Next]_vars PROVE Stream!Next \/ UNCHANGED Stream!vars
  OBVIOUS
<1>1. CASE DmaTransfer
  <2>1. /\ counting /\ sent < Pixels * ColorBits
        /\ gtccr' = Stream!SymbolAt(sending, sent)
    BY <1>1, DmaTransferReads
  <2>2. sent' = sent + 1 /\ UNCHANGED <<counting, sending>>
    BY <1>1 DEF DmaTransfer
  <2>3. Stream!Emit
    BY <2>1, <2>2 DEF Stream!Emit, Stream!Total
  <2> QED
    BY <2>3 DEF Stream!Next
<1>2. CASE IsrStop
  <2>1. /\ irq /\ dmcrb = 0 /\ counting' = FALSE
        /\ UNCHANGED <<gtccr, sent, sending>>
    BY <1>2 DEF IsrStop
  <2>2. counting /\ sent = Done * BufferLength + dmsar.off /\ dmsar.off = 0
    BY <2>1 DEF IInv, QuietInv, StreamInv
  <2>3. Done = Blocks
    BY <2>1, WholeBlocks DEF Done
  <2>4. sent = Pixels * ColorBits
    BY <2>2, <2>3, WholeBlocks
  <2>5. Stream!Finish
    BY <2>1, <2>2, <2>4 DEF Stream!Finish, Stream!Total
  <2> QED
    BY <2>5 DEF Stream!Next
<1>3. CASE SendStart
  <2>1. gtccr' = Stream!SymbolAt(sending', 0)
    BY <1>3, SendStartInv
  <2>2. sent' = 1 /\ sending' = frame[0] /\ counting' = TRUE /\ thread = "push"
    BY <1>3 DEF SendStart
  <2>3. ~counting
    BY <2>2 DEF IInv, SendInv
  <2>4. frame[0] \in Version
    BY TransferConstants DEF IInv, TypeOK, Pixel
  <2>5. Stream!Begin(frame[0])
    BY <2>1, <2>2, <2>3 DEF Stream!Begin
  <2> QED
    BY <2>4, <2>5 DEF Stream!Next
<1>4. CASE Overflow \/ IsrSwap \/ IsrPush \/ IsrReturn \/ IsrDisable
  BY <1>4 DEF Overflow, IsrSwap, IsrPush, IsrReturn, IsrDisable, wireVars, Stream!vars
<1>5. CASE SendBegin \/ SendPush \/ SendPushOther \/ Render
  BY <1>5 DEF SendBegin, SendPush, SendPushOther, Render, RenderFrame, WaitDone,
      CopyPixel, wireVars, Stream!vars
<1>6. CASE UNCHANGED vars
  BY <1>6 DEF vars, wireVars, Stream!vars
<1> QED
  BY <1>1, <1>2, <1>3, <1>4, <1>5, <1>6 DEF Next, Isr, Send

(* What goes out on the wire is one whole frame, each symbol once and in   *)
(* order, whatever the speed of the timer, the DMA controller, the         *)
(* interrupt handler and the thread.                                       *)
THEOREM ImplementsStream == Spec => StreamsFrame
<1>1. Init => Stream!Init
  BY DEF Init, Stream!Init
<1> QED
  BY <1>1, Invariance, StreamStep, PTL DEF Spec, StreamsFrame, Stream!Spec
=============================================================================
