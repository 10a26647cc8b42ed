-------------------------- MODULE RingBufferProofs --------------------------
(***************************************************************************)
(* Proofs about RingBuffer for every length of the array.                  *)
(***************************************************************************)
EXTENDS RingBuffer, TLAPS, SequenceTheorems

(* Elements queued between the indices are real pointers. *)
QueuedAreElements == \A j \in 0 .. Used - 1 : data[SlotAt(j)] \in Elements

(* The inductive invariant: TypeOK alone does not say that the slots       *)
(* between the indices were written.                                       *)
IInv == TypeOK /\ QueuedAreElements

-----------------------------------------------------------------------------
(* The remainder only wraps the one index that would leave the array. *)
LEMMA NewHeadWraps ==
  ASSUME head \in Slots
  PROVE  NewHead = IF head = Length - 1 THEN 0 ELSE head + 1
<1>1. Length \in Nat /\ Length > 0 /\ head \in Nat /\ head < Length
  BY RingConstants DEF Slots
<1>2. CASE head = Length - 1
  BY <1>1, <1>2 DEF NewHead
<1>3. CASE head # Length - 1
  <2>1. head + 1 \in 0 .. Length - 1
    BY <1>1, <1>3
  <2> QED
    BY <1>1, <1>3, <2>1 DEF NewHead
<1> QED
  BY <1>2, <1>3

(* The number of elements and their slots stay inside the array, and the   *)
(* slot at head_idx is the first one not in use.                           *)
LEMMA UsedSlots ==
  ASSUME head \in Slots, tail \in Slots
  PROVE  /\ Used \in 0 .. Length - 1
         /\ Empty <=> Used = 0
         /\ Full <=> Used = Length - 1
         /\ SlotAt(0) = tail
         /\ SlotAt(Used) = head
         /\ \A j \in 0 .. Used - 1 : SlotAt(j) \in Slots /\ SlotAt(j) # head
<1>1. NewHead = IF head = Length - 1 THEN 0 ELSE head + 1
  BY NewHeadWraps
<1> QED
  BY <1>1, RingConstants DEF Slots, Used, SlotAt, Empty, Full

(* What an accepted push does to the numbering of the elements. *)
LEMMA PushUses ==
  ASSUME TypeOK, NEW x \in Elements, Push(x), ~Full
  PROVE  /\ Used' = Used + 1
         /\ \A j \in 0 .. Used : SlotAt(j)' = SlotAt(j)
         /\ \A j \in 0 .. Used - 1 : data'[SlotAt(j)] = data[SlotAt(j)]
         /\ data'[SlotAt(Used)] = x
         /\ TypeOK'
<1>1. head \in Slots /\ tail \in Slots /\ data \in [Slots -> Elements \cup {NULL}]
  BY DEF TypeOK
<1>2. NewHead = IF head = Length - 1 THEN 0 ELSE head + 1
  BY <1>1, NewHeadWraps
<1>3. /\ data' = [data EXCEPT ![head] = x]
      /\ head' = NewHead /\ tail' = tail
      /\ answer' = [ok |-> TRUE, element |-> NULL]
      /\ NewHead # tail
  BY DEF Push, Full
<1>4. Used' = Used + 1
  BY <1>1, <1>2, <1>3, RingConstants DEF Slots, Used
<1>5. \A j \in 0 .. Used : SlotAt(j)' = SlotAt(j)
  BY <1>3 DEF SlotAt
<1>6. \A j \in 0 .. Used - 1 : data'[SlotAt(j)] = data[SlotAt(j)]
  BY <1>1, <1>3, UsedSlots
<1>7. data'[SlotAt(Used)] = x
  BY <1>1, <1>3, UsedSlots
<1>8. TypeOK'
  BY <1>1, <1>2, <1>3, RingConstants DEF TypeOK, Slots
<1> QED
  BY <1>4, <1>5, <1>6, <1>7, <1>8

(* What a pop of a buffer with elements does to their numbering. *)
LEMMA PopUses ==
  ASSUME TypeOK, Pop, ~Empty
  PROVE  /\ Used' = Used - 1
         /\ \A j \in 0 .. Used - 2 : SlotAt(j)' = SlotAt(j + 1)
         /\ data' = data
         /\ answer' = [ok |-> TRUE, element |-> data[SlotAt(0)]]
         /\ TypeOK'
<1>1. head \in Slots /\ tail \in Slots /\ data \in [Slots -> Elements \cup {NULL}]
  BY DEF TypeOK
<1>2. /\ tail' = IF tail = Length - 1 THEN 0 ELSE tail + 1
      /\ data' = data /\ head' = head
      /\ answer' = [ok |-> TRUE, element |-> data[tail]]
      /\ head # tail
  BY DEF Pop, Empty
<1>3. Used' = Used - 1
  BY <1>1, <1>2, RingConstants DEF Slots, Used
<1>4. \A j \in 0 .. Used - 2 : SlotAt(j)' = SlotAt(j + 1)
  BY <1>1, <1>2, RingConstants DEF Slots, Used, SlotAt
<1>5. SlotAt(0) = tail
  BY <1>1, UsedSlots
<1>6. TypeOK'
  BY <1>1, <1>2, RingConstants DEF TypeOK, Slots
<1> QED
  BY <1>2, <1>3, <1>4, <1>5, <1>6

(* A call that leaves the buffer alone leaves the elements alone. *)
LEMMA SameBuffer ==
  ASSUME UNCHANGED <<data, head, tail>>
  PROVE  /\ Used' = Used
         /\ Contents' = Contents
         /\ QueuedAreElements => QueuedAreElements'
<1>1. Used' = Used /\ data' = data
  BY DEF Used
<1>2. \A j : SlotAt(j)' = SlotAt(j)
  BY DEF SlotAt
<1>3. Contents' = Contents
  BY <1>1, <1>2 DEF Contents
<1> QED
  BY <1>1, <1>2, <1>3 DEF QueuedAreElements

-----------------------------------------------------------------------------
(* An initialised buffer satisfies the invariant. *)
LEMMA InitIInv == Init => IInv
<1> SUFFICES ASSUME Init PROVE IInv
  OBVIOUS
<1>1. TypeOK
  BY RingConstants DEF Init, TypeOK, Slots
<1>2. Used = 0
  BY DEF Init, Used
<1> QED
  BY <1>1, <1>2 DEF IInv, QueuedAreElements

(* Every call preserves it: only push and pop move an index. *)
LEMMA NextIInv == IInv /\ [Next]_vars => IInv'
<1> SUFFICES ASSUME IInv, [Next]_vars PROVE IInv'
  OBVIOUS
<1>0. /\ TypeOK /\ QueuedAreElements
      /\ head \in Slots /\ tail \in Slots
      /\ data \in [Slots -> Elements \cup {NULL}]
  BY DEF IInv, TypeOK
<1>a. Used \in Nat
  BY <1>0, UsedSlots, RingConstants
<1>b. ASSUME UNCHANGED <<data, head, tail>>,
             answer' \in [ok : BOOLEAN, element : Elements \cup {NULL}]
      PROVE  IInv'
  <2>1. TypeOK'
    BY <1>0, <1>b DEF TypeOK
  <2>2. QueuedAreElements'
    BY <1>0, <1>b, SameBuffer
  <2> QED
    BY <2>1, <2>2 DEF IInv
<1>1. ASSUME NEW x \in Elements, Push(x) PROVE IInv'
  <2>1. CASE Full
    <3>1. UNCHANGED <<data, head, tail>> /\ answer' = [ok |-> FALSE, element |-> NULL]
      BY <1>1, <2>1 DEF Push
    <3> QED
      BY <1>b, <3>1
  <2>2. CASE ~Full
    <3>1. /\ Used' = Used + 1
          /\ \A j \in 0 .. Used : SlotAt(j)' = SlotAt(j)
          /\ \A j \in 0 .. Used - 1 : data'[SlotAt(j)] = data[SlotAt(j)]
          /\ data'[SlotAt(Used)] = x
          /\ TypeOK'
      BY <1>0, <1>1, <2>2, PushUses
    <3>2. ASSUME NEW j \in 0 .. Used' - 1
          PROVE  data'[SlotAt(j)'] \in Elements
      <4>1. CASE j = Used
        BY <1>1, <1>a, <3>1, <4>1
      <4>2. CASE j # Used
        <5>1. j \in 0 .. Used - 1 /\ j \in 0 .. Used
          BY <1>a, <3>1, <4>2
        <5> QED
          BY <1>0, <3>1, <5>1 DEF QueuedAreElements
      <4> QED
        BY <4>1, <4>2
    <3> QED
      BY <3>1, <3>2 DEF IInv, QueuedAreElements
  <2> QED
    BY <2>1, <2>2
<1>2. CASE Pop
  <2>1. CASE Empty
    <3>1. UNCHANGED <<data, head, tail>> /\ answer' = [ok |-> FALSE, element |-> NULL]
      BY <1>2, <2>1 DEF Pop
    <3> QED
      BY <1>b, <3>1
  <2>2. CASE ~Empty
    <3>1. /\ Used' = Used - 1
          /\ \A j \in 0 .. Used - 2 : SlotAt(j)' = SlotAt(j + 1)
          /\ data' = data
          /\ TypeOK'
      BY <1>0, <1>2, <2>2, PopUses
    <3>2. ASSUME NEW j \in 0 .. Used' - 1
          PROVE  data'[SlotAt(j)'] \in Elements
      <4>1. j \in 0 .. Used - 2 /\ j + 1 \in 0 .. Used - 1
        BY <1>a, <3>1
      <4> QED
        BY <1>0, <3>1, <4>1 DEF QueuedAreElements
    <3> QED
      BY <3>1, <3>2 DEF IInv, QueuedAreElements
  <2> QED
    BY <2>1, <2>2
<1>3. CASE Peek
  <2>1. (IF Empty THEN NULL ELSE data[tail]) \in Elements \cup {NULL}
    BY <1>0
  <2> QED
    BY <1>3, <1>b, <2>1 DEF Peek
<1>4. CASE IsEmpty
  BY <1>4, <1>b DEF IsEmpty, Empty
<1>5. CASE UNCHANGED vars
  BY <1>0, <1>5, <1>b DEF vars, TypeOK
<1> QED
  BY <1>1, <1>2, <1>3, <1>4, <1>5 DEF Next

(* Nothing but pushed pointers is between the indices in any state. *)
THEOREM Invariance == Spec => []IInv
  BY InitIInv, NextIInv, PTL DEF Spec

(* The types hold for every length and every set of elements. *)
THEOREM TypeCorrect == Spec => []TypeOK
<1>1. IInv => TypeOK
  BY DEF IInv
<1> QED
  BY <1>1, Invariance, PTL

(* A queued element is never NULL: peek's NULL means empty. *)
THEOREM PeekNullMeansEmpty == Spec => []NoNullQueued
<1>1. IInv => NoNullQueued
  <2> SUFFICES ASSUME IInv, NEW j \in 1 .. Used PROVE Contents[j] # NULL
    BY DEF NoNullQueued
  <2>1. Used \in Nat
    BY UsedSlots, RingConstants DEF IInv, TypeOK
  <2>2. j - 1 \in 0 .. Used - 1 /\ Contents[j] = data[SlotAt(j - 1)]
    BY <2>1 DEF Contents
  <2> QED
    BY <2>2, RingConstants DEF IInv, QueuedAreElements
<1> QED
  BY <1>1, Invariance, PTL

-----------------------------------------------------------------------------
(* A function on 1 .. n is a sequence of length n. *)
LEMMA FunctionIsSeq ==
  ASSUME NEW S, NEW n \in Nat, NEW c \in [1 .. n -> S]
  PROVE  c \in Seq(S) /\ Len(c) = n
<1>1. c \in Seq(S)
  BY SeqDef
<1>2. Len(c) \in Nat /\ DOMAIN c = 1 .. Len(c) /\ DOMAIN c = 1 .. n
  BY <1>1, LenProperties
<1> QED
  BY <1>1, <1>2

(* The contents are a sequence of elements, as long as Used says. *)
LEMMA ContentsSeq ==
  ASSUME IInv
  PROVE  Contents \in Seq(Elements) /\ Len(Contents) = Used /\ Used \in Nat
<1>1. Used \in Nat
  BY UsedSlots, RingConstants DEF IInv, TypeOK
<1>2. \A j \in 1 .. Used : j - 1 \in 0 .. Used - 1
  BY <1>1
<1>3. Contents \in [1 .. Used -> Elements]
  BY <1>2 DEF Contents, IInv, QueuedAreElements
<1> QED
  BY <1>1, <1>3, FunctionIsSeq

(* ContentsSeq for the next state. *)
LEMMA ContentsSeqNext ==
  ASSUME IInv'
  PROVE  Contents' \in Seq(Elements) /\ Len(Contents') = Used'
<1>1. Used' \in Nat
  <2>1. head' \in 0 .. Length - 1 /\ tail' \in 0 .. Length - 1
    BY DEF IInv, TypeOK, Slots
  <2>2. Used' = IF tail' <= head' THEN head' - tail' ELSE Length + head' - tail'
    BY DEF Used
  <2>3. \A h, t \in 0 .. Length - 1 :
          (IF t <= h THEN h - t ELSE Length + h - t) \in Nat
    BY RingConstants
  <2> QED
    BY <2>1, <2>2, <2>3
<1>2. \A j \in 1 .. Used' : j - 1 \in 0 .. Used' - 1
  <2>1. \A n \in Nat : \A j \in 1 .. n : j - 1 \in 0 .. n - 1
    OBVIOUS
  <2> QED
    BY <1>1, <2>1
<1>3. Contents' \in [1 .. Used' -> Elements]
  BY <1>2 DEF Contents, IInv, QueuedAreElements
<1> QED
  BY <1>1, <1>3, FunctionIsSeq

(* An accepted push appends. *)
LEMMA PushAppends ==
  ASSUME IInv, IInv', NEW x \in Elements, Push(x), ~Full
  PROVE  Contents' = Append(Contents, x)
<1>1. /\ Used' = Used + 1
      /\ \A j \in 0 .. Used : SlotAt(j)' = SlotAt(j)
      /\ \A j \in 0 .. Used - 1 : data'[SlotAt(j)] = data[SlotAt(j)]
      /\ data'[SlotAt(Used)] = x
  BY PushUses DEF IInv
<1>2. Contents \in Seq(Elements) /\ Len(Contents) = Used /\ Used \in Nat
  BY ContentsSeq
<1>3. Contents' \in Seq(Elements) /\ Len(Contents') = Used'
  BY ContentsSeqNext
<1>4. /\ Append(Contents, x) \in Seq(Elements)
      /\ Len(Append(Contents, x)) = Used + 1
  BY <1>2
<1>5. ASSUME NEW i \in 1 .. Used'
      PROVE  Contents'[i] = Append(Contents, x)[i]
  <2>1. Contents'[i] = data'[SlotAt(i - 1)'] /\ i - 1 \in 0 .. Used
    BY <1>1, <1>2 DEF Contents
  <2>2. CASE i = Used + 1
    BY <1>1, <1>2, <2>1, <2>2
  <2>3. CASE i # Used + 1
    <3>1. i \in 1 .. Used /\ i - 1 \in 0 .. Used - 1
      BY <1>1, <1>2, <2>3
    <3>2. Append(Contents, x)[i] = Contents[i]
      BY <1>2, <3>1
    <3> QED
      BY <1>1, <2>1, <3>1, <3>2 DEF Contents
  <2> QED
    BY <2>2, <2>3
<1> QED
  BY <1>1, <1>3, <1>4, <1>5, SeqEqual

(* A pop answers with the oldest element and removes it. *)
LEMMA PopRemovesHead ==
  ASSUME IInv, IInv', Pop, ~Empty
  PROVE  /\ Contents # <<>>
         /\ Contents' = Tail(Contents)
         /\ answer' = [ok |-> TRUE, element |-> Head(Contents)]
<1>1. /\ Used' = Used - 1
      /\ \A j \in 0 .. Used - 2 : SlotAt(j)' = SlotAt(j + 1)
      /\ data' = data
      /\ answer' = [ok |-> TRUE, element |-> data[SlotAt(0)]]
  BY PopUses DEF IInv
<1>2. /\ Contents \in Seq(Elements) /\ Len(Contents) = Used /\ Used \in Nat
      /\ Used # 0
  BY ContentsSeq, UsedSlots DEF IInv, TypeOK
<1>3. Contents' \in Seq(Elements) /\ Len(Contents') = Used'
  BY ContentsSeqNext
<1>4. Contents # <<>>
  BY <1>2
<1>5. /\ Tail(Contents) \in Seq(Elements)
      /\ Len(Tail(Contents)) = Used - 1
      /\ \A i \in 1 .. Used - 1 : Tail(Contents)[i] = Contents[i + 1]
  BY <1>2, <1>4, HeadTailProperties
<1>6. ASSUME NEW i \in 1 .. Used'
      PROVE  Contents'[i] = Tail(Contents)[i]
  <2>1. i - 1 \in 0 .. Used - 2 /\ i \in 1 .. Used - 1 /\ i + 1 \in 1 .. Used
    BY <1>1, <1>2
  <2>2. Contents'[i] = data[SlotAt((i - 1) + 1)]
    BY <1>1, <2>1 DEF Contents
  <2>3. Contents[i + 1] = data[SlotAt((i + 1) - 1)]
    BY <2>1 DEF Contents
  <2>4. (i - 1) + 1 = (i + 1) - 1
    BY <1>1, <1>2
  <2> QED
    BY <1>5, <2>1, <2>2, <2>3, <2>4
<1>7. Contents' = Tail(Contents)
  BY <1>1, <1>3, <1>5, <1>6, SeqEqual
<1>8. Head(Contents) = data[SlotAt(0)]
  <2>1. 1 \in 1 .. Used /\ 1 - 1 = 0
    BY <1>2
  <2>2. Contents[1] = data[SlotAt(0)]
    BY <2>1 DEF Contents
  <2> QED
    BY <2>2
<1> QED
  BY <1>1, <1>4, <1>7, <1>8

(* An initialised buffer is an empty queue. *)
LEMMA InitRefines == Init => Fifo!Init
<1> SUFFICES ASSUME Init PROVE Fifo!Init
  OBVIOUS
<1>1. Used = 0
  BY DEF Init, Used
<1>2. IInv
  BY InitIInv
<1>3. Contents = <<>>
  BY <1>1, <1>2, ContentsSeq
<1> QED
  BY <1>3 DEF Init, Fifo!Init

(* Every call is the call of the same name of the abstract queue. *)
LEMMA NextRefines == IInv /\ IInv' /\ [Next]_vars => [Fifo!Next]_(Fifo!vars)
<1> SUFFICES ASSUME IInv, IInv', [Next]_vars PROVE [Fifo!Next]_(Fifo!vars)
  OBVIOUS
<1>a. /\ Contents \in Seq(Elements) /\ Len(Contents) = Used /\ Used \in Nat
      /\ Used \in 0 .. Length - 1
      /\ (Empty <=> Used = 0) /\ (Full <=> Used = Length - 1)
  BY ContentsSeq, UsedSlots DEF IInv, TypeOK
<1>b. Empty <=> Contents = <<>>
  BY <1>a
<1>c. Empty \/ (data[tail] = Head(Contents) /\ data[tail] # NULL)
  <2> SUFFICES ASSUME ~Empty PROVE data[tail] = Head(Contents) /\ data[tail] # NULL
    OBVIOUS
  <2>1. 1 \in 1 .. Used /\ 1 - 1 = 0 /\ 0 \in 0 .. Used - 1
    BY <1>a
  <2>2. Contents[1] = data[SlotAt(0)] /\ SlotAt(0) = tail
    BY <2>1, UsedSlots DEF Contents, IInv, TypeOK
  <2>3. data[SlotAt(0)] \in Elements
    BY <2>1 DEF IInv, QueuedAreElements
  <2> QED
    BY <2>2, <2>3, RingConstants
<1>1. ASSUME NEW x \in Elements, Push(x) PROVE Fifo!Push(x)
  <2>1. CASE Full
    <3>1. /\ UNCHANGED <<data, head, tail>>
          /\ answer' = [ok |-> FALSE, element |-> NULL]
      BY <1>1, <2>1 DEF Push
    <3>2. Contents' = Contents
      BY <3>1, SameBuffer
    <3> QED
      BY <1>a, <2>1, <3>1, <3>2 DEF Fifo!Push
  <2>2. CASE ~Full
    <3>1. Contents' = Append(Contents, x)
      BY <1>1, <2>2, PushAppends
    <3>2. answer' = [ok |-> TRUE, element |-> NULL]
      BY <1>1, <2>2 DEF Push
    <3>3. Len(Contents) < Length - 1
      BY <1>a, <2>2, RingConstants
    <3> QED
      BY <3>1, <3>2, <3>3 DEF Fifo!Push
  <2> QED
    BY <2>1, <2>2
<1>2. ASSUME Pop PROVE Fifo!Pop
  <2>1. CASE Empty
    <3>1. /\ UNCHANGED <<data, head, tail>>
          /\ answer' = [ok |-> FALSE, element |-> NULL]
      BY <1>2, <2>1 DEF Pop
    <3>2. Contents' = Contents
      BY <3>1, SameBuffer
    <3> QED
      BY <1>b, <2>1, <3>1, <3>2 DEF Fifo!Pop
  <2>2. CASE ~Empty
    BY <1>2, <2>2, PopRemovesHead DEF Fifo!Pop
  <2> QED
    BY <2>1, <2>2
<1>3. ASSUME Peek PROVE Fifo!Peek
  <2>1. Contents' = Contents
    BY <1>3, SameBuffer DEF Peek
  <2> QED
    BY <1>3, <1>b, <1>c, <2>1 DEF Peek, Fifo!Peek
<1>4. ASSUME IsEmpty PROVE Fifo!IsEmpty
  <2>1. Contents' = Contents
    BY <1>4, SameBuffer DEF IsEmpty
  <2> QED
    BY <1>4, <1>b, <2>1 DEF IsEmpty, Fifo!IsEmpty
<1>5. ASSUME UNCHANGED vars PROVE UNCHANGED Fifo!vars
  <2>1. Contents' = Contents
    BY <1>5, SameBuffer DEF vars
  <2> QED
    BY <1>5, <2>1 DEF vars, Fifo!vars
<1> QED
  BY <1>1, <1>2, <1>3, <1>4, <1>5 DEF Next, Fifo!Next

(* The calls answer exactly as those of a FIFO queue that is one shorter   *)
(* than the array, whatever the length and however the indices wrapped.    *)
THEOREM RingIsFifo == Spec => ImplementsFifo
  BY Invariance, InitRefines, NextRefines, PTL DEF Spec, ImplementsFifo, Fifo!Spec

-----------------------------------------------------------------------------
(* ring_buffer_count is right only while the head is not below the tail;   *)
(* after it has wrapped the answer is one more than what is queued.        *)
THEOREM CountOneTooMany ==
  Spec => [](Count = IF tail <= head THEN Used ELSE Used + 1)
<1>1. IInv => Count = IF tail <= head THEN Used ELSE Used + 1
  BY RingConstants DEF IInv, TypeOK, Slots, Count, Used
<1> QED
  BY <1>1, Invariance, PTL
=============================================================================
