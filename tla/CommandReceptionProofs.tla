------------------------ MODULE CommandReceptionProofs ------------------------
(***************************************************************************)
(* Proofs about CommandReception, for any lengths of the buffers, of the   *)
(* packets and of the command queue.                                       *)
(*                                                                         *)
(* The invariant has two halves.  The input half: index and bytes left add *)
(* up to no more than the buffer, whatever a turn of the scan cuts out.    *)
(* The queue half: commands in the queue are different, none is from a     *)
(* line to come, they are exactly what is allocated, and as long as there  *)
(* are any, their task is queued or running.  The restart comes before     *)
(* every other task, so it must also hold that a command can only ask for  *)
(* it from inside the loop that then runs the commands behind it.          *)
(***************************************************************************)
EXTENDS CommandReception, FiniteSetTheorems, SequenceTheorems, WellFoundedInduction, TLAPS

-----------------------------------------------------------------------------
(* The inductive invariant. *)

Command == [line : Nat \ {0}, pos : 1 .. BufferLength]

InputInv ==
  /\ rx \in Seq(Typed) /\ Len(rx) <= PacketLength
  /\ buf \in [Cells -> Bytes]
  /\ idx \in 0 .. BufferLength /\ left \in 0 .. BufferLength /\ csi \in Cells \cup {NoCsi}
  /\ idx + left <= BufferLength
  /\ InCsi => csi < idx
  /\ sent \in 0 .. MaxBytes /\ offline \in 0 .. MaxOffline /\ cut \in BOOLEAN

(* The commands that wait are different and of lines that were typed, and  *)
(* they are what is allocated.                                             *)
QueueInv ==
  /\ cmds \in Seq(Command) /\ Len(cmds) <= Capacity
  /\ nodes \in Nat /\ lines \in Nat /\ nakLine \in Nat
  /\ \A i, j \in 1 .. Len(cmds) : cmds[i] = cmds[j] => i = j
  /\ \A i \in 1 .. Len(cmds) : cmds[i].line <= lines
  /\ live = {cmds[k] : k \in 1 .. Len(cmds)}

(* Commands that wait have their task queued, or it runs; and none waits    *)
(* for a task behind a restart.                                            *)
TaskInv ==
  /\ tasks \subseteq {REBOOT, CMD_RX, CMD_HANDLER, CMD_PROMPT} /\ handling \in BOOLEAN
  /\ left > 0 => ~handling
  /\ cmds # <<>> => handling \/ CMD_HANDLER \in tasks
  /\ REBOOT \in tasks => left = 0 /\ (handling \/ cmds = <<>>)

IInv == InputInv /\ QueueInv /\ TaskInv

(* The tasks, as numbers.                                                  *)
LEMMA TasksDiffer ==
  /\ CMD_PROMPT = 6 /\ CMD_HANDLER = 5 /\ CMD_RX = 4 /\ REBOOT = 0
  /\ REBOOT \notin {CMD_RX, CMD_HANDLER, CMD_PROMPT}
BY DEF CMD_PROMPT, CMD_HANDLER, CMD_RX, REBOOT

-----------------------------------------------------------------------------
(* Sequences. *)
(* Every set of natural numbers has a least one.                           *)
LEMMA Least ==
  ASSUME NEW T, T \subseteq Nat, T # {}
  PROVE  \E x \in T : \A y \in T : x <= y
<1>1. PICK x \in T : \A y \in T : ~(<<y, x>> \in OpToRel(<, Nat))
  BY WFMin, NatLessThanWellFounded, Zenon
<1>2. ASSUME NEW y \in T PROVE x <= y
  <2>1. x \in Nat /\ y \in Nat
    OBVIOUS
  <2>2. ~(<<y, x>> \in OpToRel(<, Nat))
    BY <1>1, Zenon
  <2>3. ~(y < x)
    BY <2>1, <2>2, Zenon DEF OpToRel
  <2> QED
    BY <2>1, <2>3
<1> QED
  BY <1>2

(* The string at the start of some bytes is a part of them.                *)
LEMMA StringOfBytes ==
  ASSUME NEW b \in Seq(Bytes)
  PROVE  CString(b) \in Seq(Bytes) /\ Len(CString(b)) <= Len(b)
<1> DEFINE ends == {k \in 1 .. Len(b) : b[k] \in {NUL, Cut}}
           first == CHOOSE k \in ends : \A j \in ends : k <= j
<1>1. CASE ends = {}
  BY <1>1 DEF CString
<1>2. CASE ends # {}
  <2>1. ends \subseteq Nat
    OBVIOUS
  <2>2. \E k \in ends : \A j \in ends : k <= j
    <3> HIDE DEF ends
    <3> QED
      BY <1>2, <2>1, Least
  <2>3. first \in ends
    BY <2>2
  <2>4. first \in 1 .. Len(b)
    BY <2>3
  <2>5. CString(b) = SubSeq(b, 1, IF b[first] = Cut THEN first ELSE first - 1)
    BY <1>2, Zenon DEF CString
  <2> HIDE DEF first
  <2>6. /\ CString(b) \in Seq(Bytes)
        /\ Len(CString(b)) = IF b[first] = Cut THEN first ELSE first - 1
    BY <2>4, <2>5
  <2> QED
    BY <2>4, <2>6
<1> QED
  BY <1>1, <1>2

(* A part of the input buffer, as a sequence.                              *)
LEMMA PartOfBuffer ==
  ASSUME NEW n \in Nat, NEW at \in Nat, at + n <= BufferLength, buf \in [Cells -> Bytes]
  PROVE  /\ [k \in 1 .. n |-> buf[at + k - 1]] \in Seq(Bytes)
         /\ Len([k \in 1 .. n |-> buf[at + k - 1]]) = n
<1>1. \A k \in 1 .. n : at + k - 1 \in Cells
  BY ReceptionConstants DEF Cells
<1> QED
  BY <1>1

(* Moving bytes leaves bytes in the buffer.                                *)
LEMMA MovedBytes ==
  ASSUME NEW cells \in [Cells -> Bytes], NEW to, NEW from, NEW n, NEW behind \in Bytes
  PROVE  Moved(cells, to, from, n, behind) \in [Cells -> Bytes]
BY DEF Moved

(* A sequence without duplicates has as many members as it is long.        *)
LEMMA DistinctLength ==
  ASSUME NEW S, NEW s \in Seq(S), \A i, j \in 1 .. Len(s) : s[i] = s[j] => i = j
  PROVE  Cardinality({s[i] : i \in 1 .. Len(s)}) = Len(s)
<1> DEFINE T == {s[i] : i \in 1 .. Len(s)}
           f == [i \in 1 .. Len(s) |-> s[i]]
<1>1. f \in [1 .. Len(s) -> T]
  OBVIOUS
<1>2. f \in Injection(1 .. Len(s), T) /\ f \in Surjection(1 .. Len(s), T)
  BY <1>1 DEF Injection, IsInjective, Surjection
<1>3. ExistsBijection(1 .. Len(s), T)
  BY <1>2 DEF ExistsBijection, Bijection
<1>4. Len(s) \in Nat
  OBVIOUS
<1>5. IsFiniteSet(1 .. Len(s)) /\ Cardinality(1 .. Len(s)) = Len(s)
  <2>1. /\ IsFiniteSet(1 .. Len(s))
        /\ Cardinality(1 .. Len(s)) = IF 1 > Len(s) THEN 0 ELSE Len(s) - 1 + 1
    BY <1>4, FS_Interval
  <2> QED
    BY <1>4, <2>1
<1>6. Cardinality(T) = Cardinality(1 .. Len(s))
  BY <1>3, <1>5, FS_Bijection
<1> QED
  BY <1>5, <1>6

-----------------------------------------------------------------------------
(* The command queue. *)
(* An accepted line: its first commands join the queue as far as there is  *)
(* room, and those alone stay allocated.                                   *)
LEMMA Accepted ==
  ASSUME QueueInv, NEW text \in Seq(Bytes), Len(text) <= BufferLength, NEW prompt,
         ParseAndPush(text, prompt)
  PROVE  /\ QueueInv'
         /\ cmds' # <<>> => cmds # <<>> \/ CMD_HANDLER \in tasks'
         /\ tasks \subseteq tasks' /\ tasks' \subseteq tasks \cup {CMD_HANDLER} \cup prompt
<1>0. PICK list, n, len, new :
        /\ list = [k \in 1 .. Len(text) |-> [line |-> lines + 1, pos |-> k]]
        /\ n = (IF Len(list) < Capacity - Len(cmds) THEN Len(list) ELSE Capacity - Len(cmds))
        /\ len = Len(text) /\ new = SubSeq(list, 1, n)
  OBVIOUS
<1>1. /\ cmds \in Seq(Command) /\ Len(cmds) \in Nat /\ Len(cmds) <= Capacity
      /\ Capacity \in Nat \ {0} /\ lines \in Nat /\ nodes \in Nat /\ nakLine \in Nat
  BY ProcessorConstants DEF QueueInv
<1>2. /\ cmds' = cmds \o new
      /\ live' = (live \cup {list[k] : k \in 1 .. Len(list)}) \ Freed(list, n)
      /\ nodes' = nodes + n /\ lines' = lines + 1 /\ nakLine' = nakLine
      /\ tasks' = Pushed(list, n) \cup prompt
  BY <1>0 DEF ParseAndPush
<1>3. len \in Nat /\ len <= BufferLength /\ BufferLength \in Nat
  BY <1>0, ReceptionConstants
<1>4. list \in Seq(Command) /\ Len(list) = len
  <2>1. \A k \in 1 .. len : [line |-> lines + 1, pos |-> k] \in Command
    BY <1>1, <1>3 DEF Command
  <2> QED
    BY <1>0, <1>3, <2>1
<1>5. \A k \in 1 .. len : list[k].line = lines + 1 /\ list[k].pos = k
  BY <1>0
<1>6. n \in 0 .. len /\ Len(cmds) + n <= Capacity
  BY <1>0, <1>1, <1>3, <1>4
<1>7. /\ new \in Seq(Command) /\ Len(new) = n
      /\ \A k \in 1 .. n : new[k] = list[k]
  <2>1. SubSeq(list, 1, n) \in Seq(Command) /\ Len(SubSeq(list, 1, n)) = n
    BY <1>4, <1>6
  <2>2. \A k \in 1 .. n : SubSeq(list, 1, n)[k] = list[k]
    BY <1>4, <1>6
  <2> QED
    BY <1>0, <2>1, <2>2
<1>8. /\ cmds' \in Seq(Command) /\ Len(cmds') = Len(cmds) + n
      /\ \A k \in 1 .. Len(cmds) : cmds'[k] = cmds[k]
      /\ \A k \in 1 .. n : cmds'[Len(cmds) + k] = list[k]
  <2>1. /\ cmds' \in Seq(Command) /\ Len(cmds') = Len(cmds) + n
        /\ \A i \in 1 .. Len(cmds) + n :
             cmds'[i] = IF i <= Len(cmds) THEN cmds[i] ELSE new[i - Len(cmds)]
    BY <1>1, <1>2, <1>7, ConcatProperties
  <2>2. \A k \in 1 .. n : /\ Len(cmds) + k \in 1 .. Len(cmds) + n
                          /\ ~(Len(cmds) + k <= Len(cmds))
                          /\ (Len(cmds) + k) - Len(cmds) = k
    BY <1>1, <1>6
  <2>3. \A k \in 1 .. Len(cmds) : k \in 1 .. Len(cmds) + n /\ k <= Len(cmds)
    BY <1>1, <1>6
  <2> QED
    BY <1>7, <2>1, <2>2, <2>3
<1>9. \A i \in 1 .. Len(cmds') :
        \/ i \in 1 .. Len(cmds)
        \/ \E k \in 1 .. n : i = Len(cmds) + k
  <2> SUFFICES ASSUME NEW i \in 1 .. Len(cmds'), i \notin 1 .. Len(cmds)
               PROVE  \E k \in 1 .. n : i = Len(cmds) + k
    OBVIOUS
  <2>1. i - Len(cmds) \in 1 .. n /\ i = Len(cmds) + (i - Len(cmds))
    BY <1>1, <1>6, <1>8
  <2> QED
    BY <2>1
<1>10. \A i \in 1 .. Len(cmds) : cmds[i].line <= lines /\ cmds[i].line \in Nat
  <2> SUFFICES ASSUME NEW i \in 1 .. Len(cmds)
               PROVE  cmds[i].line <= lines /\ cmds[i].line \in Nat
    OBVIOUS
  <2>1. cmds[i] \in Command
    BY <1>1
  <2>2. cmds[i].line \in Nat
    BY <2>1 DEF Command
  <2> QED
    BY <2>2 DEF QueueInv
<1>11. \A k \in 1 .. n : list[k].line = lines + 1 /\ list[k].pos = k /\ k \in 1 .. len
  <2>1. \A k \in 1 .. n : k \in 1 .. len
    BY <1>3, <1>6
  <2> QED
    BY <1>5, <2>1
<1>12. \A i \in 1 .. Len(cmds') : cmds'[i].line <= lines'
  <2> SUFFICES ASSUME NEW i \in 1 .. Len(cmds') PROVE cmds'[i].line <= lines + 1
    BY <1>2
  <2>1. CASE i \in 1 .. Len(cmds)
    BY <1>1, <1>8, <1>10, <2>1
  <2>2. ASSUME NEW k \in 1 .. n, i = Len(cmds) + k PROVE cmds'[i].line <= lines + 1
    BY <1>1, <1>8, <1>11, <2>2
  <2> QED
    BY <1>9, <2>1, <2>2
<1>13. \A i, j \in 1 .. Len(cmds') : cmds'[i] = cmds'[j] => i = j
  <2> SUFFICES ASSUME NEW i \in 1 .. Len(cmds'), NEW j \in 1 .. Len(cmds'), cmds'[i] = cmds'[j]
               PROVE  i = j
    OBVIOUS
  <2>0. \A a \in 1 .. Len(cmds), k \in 1 .. n : cmds[a] # list[k]
    <3> SUFFICES ASSUME NEW a \in 1 .. Len(cmds), NEW k \in 1 .. n PROVE cmds[a].line # list[k].line
      OBVIOUS
    <3> QED
      BY <1>1, <1>10, <1>11
  <2>1. CASE i \in 1 .. Len(cmds) /\ j \in 1 .. Len(cmds)
    BY <1>8, <2>1 DEF QueueInv
  <2>2. ASSUME i \in 1 .. Len(cmds), NEW k \in 1 .. n, j = Len(cmds) + k PROVE FALSE
    BY <1>8, <2>0, <2>2
  <2>3. ASSUME j \in 1 .. Len(cmds), NEW k \in 1 .. n, i = Len(cmds) + k PROVE FALSE
    BY <1>8, <2>0, <2>3
  <2>4. ASSUME NEW k \in 1 .. n, i = Len(cmds) + k, NEW l \in 1 .. n, j = Len(cmds) + l
        PROVE  i = j
    <3>1. list[k] = list[l]
      BY <1>8, <2>4
    <3>2. k = l
      BY <1>11, <3>1
    <3> QED
      BY <2>4, <3>2
  <2> QED
    BY <1>9, <2>1, <2>2, <2>3, <2>4
<1>14. live' = {cmds'[k] : k \in 1 .. Len(cmds')}
  <2>1. live = {cmds[k] : k \in 1 .. Len(cmds)}
    BY DEF QueueInv
  <2>2. Freed(list, n) = {list[k] : k \in n + 1 .. len}
    BY <1>4 DEF Freed
  <2>3. ASSUME NEW a \in 1 .. Len(cmds) PROVE cmds[a] \notin Freed(list, n)
    <3> SUFFICES ASSUME NEW k \in n + 1 .. len PROVE cmds[a].line # list[k].line
      BY <2>2
    <3>1. list[k].line = lines + 1
      <4>1. k \in 1 .. len
        BY <1>3, <1>6
      <4> QED
        BY <1>5, <4>1
    <3> QED
      BY <1>1, <1>10, <3>1
  <2>4. ASSUME NEW a \in 1 .. n PROVE list[a] \notin Freed(list, n)
    <3> SUFFICES ASSUME NEW k \in n + 1 .. len PROVE list[a].pos # list[k].pos
      BY <2>2
    <3>1. list[k].pos = k
      <4>1. k \in 1 .. len
        BY <1>3, <1>6
      <4> QED
        BY <1>5, <4>1
    <3> QED
      BY <1>3, <1>6, <1>11, <3>1
  <2>5. ASSUME NEW c \in live' PROVE \E k \in 1 .. Len(cmds') : c = cmds'[k]
    <3>1. CASE c \in live
      <4>1. PICK a \in 1 .. Len(cmds) : c = cmds[a]
        BY <2>1, <3>1
      <4>2. a \in 1 .. Len(cmds') /\ c = cmds'[a]
        BY <1>1, <1>6, <1>8, <4>1
      <4> QED
        BY <4>2
    <3>2. CASE c \notin live
      <4>1. PICK a \in 1 .. len : c = list[a]
        BY <1>2, <1>4, <2>5, <3>2
      <4>2. a \notin n + 1 .. len
        BY <1>2, <2>2, <2>5, <4>1
      <4>3. a \in 1 .. n
        BY <1>3, <1>6, <4>2
      <4>4. Len(cmds) + a \in 1 .. Len(cmds') /\ c = cmds'[Len(cmds) + a]
        BY <1>1, <1>6, <1>8, <4>1, <4>3
      <4> QED
        BY <4>4
    <3> QED
      BY <3>1, <3>2
  <2>6. ASSUME NEW k \in 1 .. Len(cmds') PROVE cmds'[k] \in live'
    <3>1. CASE k \in 1 .. Len(cmds)
      BY <1>2, <1>8, <2>1, <2>3, <3>1
    <3>2. ASSUME NEW a \in 1 .. n, k = Len(cmds) + a PROVE cmds'[k] \in live'
      <4>1. a \in 1 .. Len(list)
        BY <1>3, <1>4, <1>6
      <4> QED
        BY <1>2, <1>8, <2>4, <3>2, <4>1
    <3> QED
      BY <1>9, <3>1, <3>2
  <2> QED
    BY <2>5, <2>6
<1>15. QueueInv'
  <2>1. nodes' \in Nat /\ lines' \in Nat /\ nakLine' \in Nat /\ Len(cmds') <= Capacity
    BY <1>1, <1>2, <1>3, <1>6, <1>8
  <2> QED
    BY <1>8, <1>12, <1>13, <1>14, <2>1 DEF QueueInv
<1>16. n > 0 => CMD_HANDLER \in tasks'
  BY <1>2 DEF Pushed
<1>17. cmds' # <<>> => cmds # <<>> \/ n > 0
  <2> SUFFICES ASSUME cmds = <<>>, ~(n > 0) PROVE cmds' = <<>>
    OBVIOUS
  <2>1. Len(cmds') = 0
    BY <1>1, <1>3, <1>6, <1>8
  <2> QED
    BY <1>8, <2>1
<1>18. tasks \subseteq tasks' /\ tasks' \subseteq tasks \cup {CMD_HANDLER} \cup prompt
  BY <1>2 DEF Pushed
<1> QED
  BY <1>15, <1>16, <1>17, <1>18

(* The first command runs and is freed.                                    *)
LEMMA CommandRun ==
  ASSUME QueueInv, RunCommand
  PROVE  QueueInv'
<1>1. /\ cmds \in Seq(Command) /\ cmds # <<>> /\ Len(cmds) <= Capacity
      /\ nodes' = nodes /\ lines' = lines /\ nodes \in Nat /\ lines \in Nat
      /\ cmds' = Tail(cmds) /\ live' = live \ {Head(cmds)}
      /\ Capacity \in Nat
  BY ProcessorConstants DEF QueueInv, RunCommand
<1>2. /\ Len(cmds) \in Nat \ {0} /\ cmds' \in Seq(Command) /\ Len(cmds') = Len(cmds) - 1
      /\ Head(cmds) = cmds[1]
      /\ \A i \in 1 .. Len(cmds') : cmds'[i] = cmds[i + 1] /\ i + 1 \in 1 .. Len(cmds)
  <2>1. /\ cmds' \in Seq(Command) /\ Len(cmds') = Len(cmds) - 1
        /\ \A i \in 1 .. Len(cmds') : cmds'[i] = cmds[i + 1]
    BY <1>1, HeadTailProperties
  <2>2. Len(cmds) \in Nat \ {0}
    BY <1>1
  <2>3. \A i \in 1 .. Len(cmds') : i + 1 \in 1 .. Len(cmds)
    BY <2>1, <2>2
  <2> QED
    BY <1>1, <2>1, <2>2, <2>3
<1>3. nakLine' \in Nat
  <2>1. Head(cmds) \in Command
    BY <1>1
  <2>2. Head(cmds).line \in Nat
    BY <2>1 DEF Command
  <2> QED
    BY <2>2 DEF RunCommand
<1>4. \A i, j \in 1 .. Len(cmds') : cmds'[i] = cmds'[j] => i = j
  <2> SUFFICES ASSUME NEW i \in 1 .. Len(cmds'), NEW j \in 1 .. Len(cmds'), cmds'[i] = cmds'[j]
               PROVE  i = j
    OBVIOUS
  <2>1. cmds[i + 1] = cmds[j + 1] /\ i + 1 \in 1 .. Len(cmds) /\ j + 1 \in 1 .. Len(cmds)
    BY <1>2
  <2>2. i + 1 = j + 1
    BY <2>1 DEF QueueInv
  <2> QED
    BY <1>2, <2>2
<1>5. \A i \in 1 .. Len(cmds') : cmds'[i].line <= lines'
  BY <1>1, <1>2 DEF QueueInv
<1>6. live' = {cmds'[k] : k \in 1 .. Len(cmds')}
  <2>1. live = {cmds[k] : k \in 1 .. Len(cmds)}
    BY DEF QueueInv
  <2>2. ASSUME NEW c \in live' PROVE \E k \in 1 .. Len(cmds') : c = cmds'[k]
    <3>1. PICK a \in 1 .. Len(cmds) : c = cmds[a]
      BY <1>1, <2>1, <2>2
    <3>2. a # 1
      BY <1>1, <1>2, <2>2, <3>1
    <3>3. a - 1 \in 1 .. Len(cmds') /\ (a - 1) + 1 = a
      BY <1>2, <3>2
    <3>4. c = cmds'[a - 1]
      BY <1>2, <3>1, <3>3
    <3> QED
      BY <3>3, <3>4
  <2>3. ASSUME NEW k \in 1 .. Len(cmds') PROVE cmds'[k] \in live'
    <3>1. cmds'[k] = cmds[k + 1] /\ k + 1 \in 1 .. Len(cmds) /\ 1 \in 1 .. Len(cmds)
      BY <1>2
    <3>2. k + 1 # 1
      BY <1>2
    <3>3. cmds[k + 1] # cmds[1]
      BY <3>1, <3>2 DEF QueueInv
    <3> QED
      BY <1>1, <1>2, <2>1, <3>1, <3>3
  <2> QED
    BY <2>2, <2>3
<1> QED
  BY <1>1, <1>2, <1>3, <1>4, <1>5, <1>6 DEF QueueInv

-----------------------------------------------------------------------------
(* The input buffer. *)
(* What the invariant says of the bytes, as numbers.                       *)
LEMMA InputFacts ==
  ASSUME InputInv
  PROVE  /\ BufferLength \in Nat \ {0} /\ \A c : c \in Cells <=> c \in 0 .. BufferLength - 1
         /\ idx \in Nat /\ left \in Nat /\ csi \in Nat /\ idx + left <= BufferLength
         /\ InCsi => csi < idx /\ csi \in Cells
         /\ left > 0 => idx \in Cells
         /\ buf \in [Cells -> Bytes] /\ rx \in Seq(Typed)
<1>1. BufferLength \in Nat \ {0}
  BY ReceptionConstants
<1>2. idx \in Nat /\ left \in Nat /\ idx + left <= BufferLength
  BY <1>1 DEF InputInv
<1>3. csi \in Nat
  BY <1>1 DEF InputInv, Cells, NoCsi
<1>4. InCsi => csi < idx /\ csi \in Cells
  BY DEF InputInv, InCsi
<1>5. \A c : c \in Cells <=> c \in 0 .. BufferLength - 1
  BY DEF Cells
<1>6. left > 0 => idx \in Cells
  BY <1>1, <1>2, <1>5
<1> QED
  BY <1>1, <1>2, <1>3, <1>4, <1>5, <1>6 DEF InputInv

(* A turn of the scan that leaves the queue alone.                         *)
LEMMA Turn ==
  ASSUME IInv, left > 0, left' = left - 1,
         UNCHANGED <<queue, tasks, handling, rx, sent, offline, cut>>,
         buf' \in [Cells -> Bytes], idx' \in 0 .. BufferLength, idx' + left' <= BufferLength,
         csi' \in Cells \cup {NoCsi}, csi' # NoCsi => csi' < idx'
  PROVE  IInv'
<1>1. QueueInv'
  BY DEF IInv, QueueInv, queue
<1>2. left' \in 0 .. BufferLength
  BY InputFacts DEF IInv
<1>3. InCsi' <=> csi' # NoCsi
  BY DEF InCsi, NoCsi
<1>4. InputInv'
  <2>1. InCsi' => csi' < idx'
    BY <1>3
  <2>2. /\ rx' \in Seq(Typed) /\ Len(rx') <= PacketLength
        /\ sent' \in 0 .. MaxBytes /\ offline' \in 0 .. MaxOffline /\ cut' \in BOOLEAN
    BY DEF IInv, InputInv
  <2>3. csi' \in Cells' \cup {NoCsi'} /\ buf' \in [Cells' -> Bytes']
    BY DEF Cells, NoCsi
  <2> QED
    BY <1>2, <2>1, <2>2, <2>3 DEF InputInv
<1>5. TaskInv'
  <2>1. REBOOT \notin tasks /\ ~handling
    BY InputFacts DEF IInv, TaskInv
  <2> QED
    BY <2>1 DEF IInv, TaskInv, queue
<1> QED
  BY <1>1, <1>4, <1>5 DEF IInv

(* A packet arrives.                                                       *)
LEMMA Received ==
  ASSUME IInv, Receive
  PROVE  IInv'
<1>1. PICK n \in 1 .. PacketLength :
        sent + n <= MaxBytes /\ sent' = sent + n /\ rx' \in [1 .. n -> Typed]
  BY DEF Receive
<1>2. /\ tasks' = tasks \cup {CMD_RX}
      /\ UNCHANGED <<queue, handling, buffer, offline, cut>>
  BY DEF Receive
<1>3. PacketLength \in Nat /\ n \in Nat /\ n <= PacketLength
  BY ReceptionConstants
<1>4. rx' \in Seq(Typed) /\ Len(rx') = n
  BY <1>1, <1>3
<1>5. sent' \in 0 .. MaxBytes
  BY <1>1, <1>3, ReceptionConstants DEF IInv, InputInv
<1>6. QueueInv'
  BY <1>2 DEF IInv, QueueInv, queue
<1>7. InputInv'
  <2>1. /\ buf' = buf /\ idx' = idx /\ left' = left /\ csi' = csi
        /\ offline' = offline /\ cut' = cut
    BY <1>2 DEF buffer
  <2> QED
    BY <1>3, <1>4, <1>5, <2>1 DEF IInv, InputInv, InCsi
<1>8. TaskInv'
  BY <1>2, TasksDiffer DEF IInv, TaskInv, queue, buffer
<1> QED
  BY <1>6, <1>7, <1>8 DEF IInv

(* The read leaves the commands and their task alone.                      *)
LEMMA ReadTasks ==
  ASSUME IInv, Idle, NextTask(CMD_RX), tasks' = tasks \ {CMD_RX}, UNCHANGED <<queue, handling>>
  PROVE  QueueInv' /\ TaskInv'
<1>1. QueueInv'
  BY DEF IInv, QueueInv, queue
<1>2. TaskInv'
  <2>1. CMD_RX # CMD_HANDLER
    BY DEF CMD_RX, CMD_HANDLER
  <2>2. ~handling'
    BY DEF Idle
  <2>3. REBOOT \notin tasks
    BY TasksDiffer DEF NextTask
  <2> QED
    BY <2>1, <2>2, <2>3 DEF IInv, TaskInv, queue
<1> QED
  BY <1>1, <1>2

(* The bytes that fit are read.                                            *)
LEMMA ReadStarted ==
  ASSUME IInv, StartRead
  PROVE  IInv'
<1>0. PICK n : n = Read_Length
  OBVIOUS
<1>1. /\ Idle /\ NextTask(CMD_RX) /\ tasks' = tasks \ {CMD_RX}
      /\ buf' = [c \in Cells |-> IF c \in idx .. idx + n - 1 THEN rx[c - idx + 1] ELSE buf[c]]
      /\ left' = n /\ rx' = SubSeq(rx, 1, Len(rx) - n) /\ cut' = (cut \/ n < Len(rx))
      /\ UNCHANGED <<queue, handling, idx, csi, sent, offline>>
  BY <1>0 DEF StartRead
<1>2. /\ BufferLength \in Nat \ {0} /\ idx \in Nat /\ idx <= BufferLength
      /\ rx \in Seq(Typed) /\ buf \in [Cells -> Bytes] /\ Len(rx) \in Nat
  BY InputFacts DEF IInv, InputInv
<1>3. n \in 0 .. Len(rx) /\ idx + n <= BufferLength
  BY <1>0, <1>2 DEF Read_Length, Room
<1>4. buf' \in [Cells -> Bytes]
  <2>1. ASSUME NEW c \in Cells, c \in idx .. idx + n - 1 PROVE rx[c - idx + 1] \in Bytes
    <3>1. c - idx + 1 \in 1 .. Len(rx)
      BY <1>2, <1>3, <2>1
    <3> QED
      BY <1>2, <3>1 DEF Bytes
  <2> QED
    BY <1>1, <1>2, <2>1
<1>5. rx' \in Seq(Typed) /\ Len(rx') <= Len(rx)
  BY <1>1, <1>2, <1>3
<1>6. Len(rx') <= PacketLength
  <2>1. Len(rx) <= PacketLength /\ PacketLength \in Nat /\ Len(rx') \in Nat
    BY <1>5, ReceptionConstants DEF IInv, InputInv
  <2> QED
    BY <1>2, <1>5, <2>1
<1>7. InputInv'
  <2>1. /\ left' \in 0 .. BufferLength /\ idx' \in 0 .. BufferLength
        /\ idx' + left' <= BufferLength
    BY <1>1, <1>2, <1>3
  <2>2. cut' \in BOOLEAN
    BY <1>1 DEF IInv, InputInv
  <2>3. idx' = idx /\ csi' = csi /\ sent' = sent /\ offline' = offline
    BY <1>1
  <2> QED
    BY <1>4, <1>5, <1>6, <2>1, <2>2, <2>3 DEF IInv, InputInv, InCsi
<1> QED
  BY <1>1, <1>7, ReadTasks DEF IInv

(* Offline, the scan will run over as many bytes as there was room for.    *)
LEMMA ReadOffline ==
  ASSUME IInv, StartReadOffline
  PROVE  IInv'
<1>1. /\ Idle /\ NextTask(CMD_RX) /\ tasks' = tasks \ {CMD_RX} /\ left' = BufferLength - idx
      /\ offline < MaxOffline /\ offline' = offline + 1 /\ cut' = TRUE
      /\ UNCHANGED <<queue, handling, rx, buf, idx, csi, sent>>
  BY DEF StartReadOffline, Room
<1>2. BufferLength \in Nat \ {0} /\ idx \in Nat /\ idx <= BufferLength
  BY InputFacts DEF IInv, InputInv
<1>3. left' \in 0 .. BufferLength /\ idx' + left' <= BufferLength
  BY <1>1, <1>2
<1>4. offline' \in 0 .. MaxOffline
  BY <1>1, ReceptionConstants DEF IInv, InputInv
<1>5. InputInv'
  BY <1>1, <1>3, <1>4 DEF IInv, InputInv, InCsi
<1> QED
  BY <1>1, <1>5, ReadTasks DEF IInv

-----------------------------------------------------------------------------
(* The scan. *)
(* The turns that leave the queue alone.                                   *)
LEMMA ScanKept ==
  ASSUME IInv,
         \/ ScanCsiEnd \/ ScanCsi \/ ScanEscape \/ ScanBackspace \/ ScanLeadingBackspace
         \/ ScanCharacter
  PROVE  IInv'
<1>0. /\ left > 0 /\ left' = left - 1
      /\ UNCHANGED <<queue, tasks, handling, rx, sent, offline, cut>>
  BY DEF ScanCsiEnd, ScanCsi, ScanEscape, ScanBackspace, ScanLeadingBackspace, ScanCharacter,
         Scan
<1>1. /\ BufferLength \in Nat \ {0} /\ \A c : c \in Cells <=> c \in 0 .. BufferLength - 1
      /\ idx \in Cells /\ idx \in Nat /\ left \in Nat /\ idx + left <= BufferLength
      /\ csi \in Nat /\ csi \in Cells \cup {NoCsi} /\ (csi # NoCsi => csi < idx)
      /\ buf \in [Cells -> Bytes] /\ NUL \in Bytes
  BY <1>0, InputFacts DEF IInv, InputInv, InCsi, Bytes
<1>2. /\ idx \in 0 .. BufferLength /\ idx + 1 \in 0 .. BufferLength
      /\ idx + 1 + (left - 1) <= BufferLength
      /\ idx + (left - 1) <= BufferLength
  BY <1>0, <1>1
<1>3. CASE ScanCsiEnd
  <2>1. csi # NoCsi /\ idx' = csi /\ csi' = NoCsi /\ buf' = Moved(buf, csi, idx + 1, left - 1, NUL)
    BY <1>3 DEF ScanCsiEnd, InCsi
  <2>2. buf' \in [Cells -> Bytes]
    BY <1>1, <2>1, MovedBytes
  <2>3. idx' \in 0 .. BufferLength /\ idx' + left' <= BufferLength
    BY <1>0, <1>1, <2>1
  <2> QED
    BY <1>0, <2>1, <2>2, <2>3, Turn
<1>4. CASE ScanCsi
  <2>1. csi # NoCsi /\ idx' = idx + 1 /\ csi' = csi /\ buf' = buf
    BY <1>4 DEF ScanCsi, InCsi
  <2>2. csi' < idx'
    BY <1>1, <2>1
  <2> QED
    BY <1>0, <1>1, <1>2, <2>1, <2>2, Turn
<1>5. CASE ScanEscape
  <2>1. csi' = idx /\ idx' = idx + 1 /\ buf' = buf
    BY <1>5 DEF ScanEscape
  <2>2. csi' < idx'
    BY <1>1, <2>1
  <2> QED
    BY <1>0, <1>1, <1>2, <2>1, <2>2, Turn
<1>6. CASE ScanBackspace
  <2>1. /\ csi = NoCsi /\ csi' = csi /\ idx > 0 /\ idx' = idx - 1
        /\ buf' = Moved(buf, idx - 1, idx + 1, left - 1, NUL)
    BY <1>6 DEF ScanBackspace, InCsi
  <2>2. buf' \in [Cells -> Bytes]
    BY <1>1, <2>1, MovedBytes
  <2>3. idx' \in 0 .. BufferLength /\ idx' + left' <= BufferLength
    BY <1>0, <1>1, <2>1
  <2> QED
    BY <1>0, <2>1, <2>2, <2>3, Turn
<1>7. CASE ScanLeadingBackspace
  <2>1. csi = NoCsi /\ csi' = csi /\ idx' = idx /\ buf' = buf
    BY <1>7 DEF ScanLeadingBackspace, InCsi
  <2> QED
    BY <1>0, <1>1, <1>2, <2>1, Turn
<1>8. CASE ScanCharacter
  <2>1. csi = NoCsi /\ csi' = csi /\ idx' = idx + 1 /\ buf' = buf
    BY <1>8 DEF ScanCharacter, InCsi
  <2> QED
    BY <1>0, <1>1, <1>2, <2>1, Turn
<1> QED
  BY <1>3, <1>4, <1>5, <1>6, <1>7, <1>8

(* The line, as the parser sees it, is no longer than the buffer.          *)
LEMMA LineOfBuffer ==
  ASSUME InputInv
  PROVE  /\ Line \in Seq(Bytes) /\ Len(Line) \in Nat
         /\ Len(Line) <= idx /\ Len(Line) <= BufferLength
<1> DEFINE b == [k \in 1 .. idx |-> buf[k - 1]]
<1>1. \A k \in 1 .. idx : k - 1 \in Cells
  BY InputFacts
<1>2. b \in Seq(Bytes) /\ Len(b) = idx
  BY <1>1, InputFacts
<1> HIDE DEF b
<1>3. CString(b) \in Seq(Bytes) /\ Len(CString(b)) <= idx /\ Len(CString(b)) \in Nat
  <2>1. CString(b) \in Seq(Bytes) /\ Len(CString(b)) <= Len(b)
    BY <1>2, StringOfBytes
  <2> QED
    BY <1>2, <2>1
<1>4. Line = CString(b)
  BY DEF Line, b
<1> QED
  BY <1>3, <1>4, InputFacts DEF InputInv

(* Parsing leaves bytes in the buffer.                                     *)
LEMMA ParsedBytes ==
  ASSUME InputInv, NEW changed
  PROVE  Parsed(changed) \in [Cells -> Bytes]
BY DEF InputInv, Parsed, Text, Bytes

(* A new-line: the input moves up, and the line is accepted or refused.    *)
LEMMA NewlineScanned ==
  ASSUME IInv, ScanNewline
  PROVE  IInv'
<1>1. PICK prompt \in {{}, {CMD_PROMPT}} : ParseFails(prompt) \/ ParseAndPush(Line, prompt)
  BY DEF ScanNewline
<1>2. \E changed : \E behind \in Bytes :
        buf' = Moved(Parsed(changed), 0, idx + 1, left, behind)
  <2>1. PICK reached \in Reached, taken \in TakenAsArguments,
             behind \in IF idx + left = BufferLength THEN Bytes ELSE {NUL} :
          buf' = Moved(Parsed(reached \cup taken), 0, idx + 1, left, behind)
    BY DEF ScanNewline
  <2>2. behind \in Bytes
    BY <2>1 DEF Bytes
  <2>3. PICK changed : changed = reached \cup taken
    OBVIOUS
  <2> QED
    BY <2>1, <2>2, <2>3
<1>3. /\ csi = NoCsi /\ left > 0 /\ left' = left - 1 /\ idx' = 0
      /\ UNCHANGED <<handling, rx, csi, sent, offline, cut>>
  BY DEF ScanNewline, Scan, InCsi
<1>4. InputInv /\ QueueInv /\ TaskInv
  BY DEF IInv
<1>5. buf' \in [Cells -> Bytes]
  <2>1. PICK changed : \E behind \in Bytes :
          buf' = Moved(Parsed(changed), 0, idx + 1, left, behind)
    BY <1>2
  <2>2. Parsed(changed) \in [Cells -> Bytes]
    BY <1>4, ParsedBytes
  <2> QED
    BY <2>1, <2>2, MovedBytes
<1>6. left' \in 0 .. BufferLength /\ idx' \in 0 .. BufferLength /\ idx' + left' <= BufferLength
  BY <1>3, <1>4, InputFacts
<1>7. InputInv'
  BY <1>3, <1>4, <1>5, <1>6 DEF InputInv, InCsi
<1>r. REBOOT \notin tasks /\ REBOOT \notin {CMD_HANDLER} \cup prompt /\ ~handling
  BY <1>1, <1>3, <1>4, InputFacts, TasksDiffer DEF TaskInv
<1>8. CASE ParseFails(prompt)
  <2>1. tasks' = tasks \cup prompt /\ UNCHANGED queue
    BY <1>8 DEF ParseFails
  <2>2. QueueInv'
    BY <1>4, <2>1 DEF QueueInv, queue
  <2>3. TaskInv'
    BY <1>1, <1>3, <1>4, <1>r, <2>1 DEF TaskInv, queue
  <2> QED
    BY <1>7, <2>2, <2>3 DEF IInv
<1>9. CASE ParseAndPush(Line, prompt)
  <2>1. /\ QueueInv'
        /\ cmds' # <<>> => cmds # <<>> \/ CMD_HANDLER \in tasks'
        /\ tasks \subseteq tasks' /\ tasks' \subseteq tasks \cup {CMD_HANDLER} \cup prompt
    BY <1>4, <1>9, Accepted, LineOfBuffer
  <2>2. TaskInv'
    BY <1>1, <1>3, <1>4, <1>r, <2>1 DEF TaskInv
  <2> QED
    BY <1>7, <2>1, <2>2 DEF IInv
<1> QED
  BY <1>1, <1>8, <1>9

-----------------------------------------------------------------------------
(* The other tasks. *)
(* They leave the input alone.                                             *)
LEMMA InputKept ==
  ASSUME InputInv, UNCHANGED <<rx, buffer, sent, offline, cut>>
  PROVE  InputInv'
BY DEF InputInv, InCsi, buffer

(* The handler's loop.                                                     *)
LEMMA HandlerStep ==
  ASSUME IInv, Handler
  PROVE  IInv'
<1>1. InputInv /\ QueueInv /\ TaskInv
  BY DEF IInv
<1>2. InputInv' /\ left' = left /\ left \in Nat
  BY <1>1, InputKept, InputFacts DEF Handler, buffer
<1>3. CASE Idle /\ StartHandler
  <2>1. QueueInv' /\ cmds' = cmds
    BY <1>1, <1>3 DEF QueueInv, StartHandler, queue
  <2>2. TaskInv'
    BY <1>1, <1>2, <1>3, <2>1 DEF TaskInv, StartHandler, Idle
  <2> QED
    BY <1>2, <2>1, <2>2 DEF IInv
<1>4. CASE RunCommand
  <2>1. left = 0 /\ handling /\ handling' = handling /\ tasks' \subseteq tasks \cup {REBOOT}
    BY <1>1, <1>2, <1>4 DEF TaskInv, RunCommand
  <2>2. TaskInv'
    BY <1>1, <1>2, <2>1 DEF TaskInv
  <2> QED
    BY <1>1, <1>2, <1>4, <2>2, CommandRun DEF IInv
<1>5. CASE EndHandler
  <2>1. QueueInv' /\ cmds' = cmds /\ cmds = <<>> /\ handling' = FALSE /\ tasks' = tasks
    BY <1>1, <1>5 DEF QueueInv, EndHandler, queue
  <2>2. left = 0
    BY <1>1, <1>2, <1>5 DEF TaskInv, EndHandler
  <2>3. TaskInv'
    BY <1>1, <1>2, <2>1, <2>2 DEF TaskInv
  <2> QED
    BY <1>2, <2>1, <2>3 DEF IInv
<1> QED
  BY <1>3, <1>4, <1>5 DEF Handler

(* The prompt.                                                             *)
LEMMA PromptStep ==
  ASSUME IInv, Prompt
  PROVE  IInv'
<1>1. InputInv /\ QueueInv /\ TaskInv
  BY DEF IInv
<1>2. InputInv' /\ left' = left
  BY <1>1, InputKept DEF Prompt, buffer
<1>3. QueueInv' /\ cmds' = cmds
  BY <1>1 DEF QueueInv, Prompt, SendPrompt, queue
<1>4. tasks' = tasks \ {CMD_PROMPT} /\ handling' = handling /\ CMD_PROMPT # CMD_HANDLER
  BY DEF Prompt, SendPrompt, CMD_PROMPT, CMD_HANDLER
<1>5. TaskInv'
  BY <1>1, <1>2, <1>3, <1>4 DEF TaskInv
<1> QED
  BY <1>2, <1>3, <1>5 DEF IInv

(* The restart.                                                            *)
LEMMA RebootStep ==
  ASSUME IInv, Reboot
  PROVE  IInv'
<1>1. /\ cmds' = <<>> /\ live' = {} /\ nodes' = 0 /\ nakLine' = 0 /\ lines' = lines
      /\ tasks' = {} /\ handling' = FALSE
      /\ rx' = <<>> /\ buf' = [c \in Cells |-> NUL]
      /\ idx' = 0 /\ left' = 0 /\ csi' = NoCsi /\ cut' = FALSE
      /\ sent' = sent /\ offline' = offline
  BY DEF Reboot, RebootProcessor
<1>2. InputInv'
  <2>1. BufferLength \in Nat \ {0} /\ PacketLength \in Nat /\ NUL \in Bytes
    BY ReceptionConstants DEF Bytes
  <2>2. buf' \in [Cells -> Bytes] /\ rx' \in Seq(Typed) /\ Len(rx') <= PacketLength
    BY <1>1, <2>1
  <2>3. 0 \in 0 .. BufferLength /\ 0 + 0 <= BufferLength
    BY <2>1
  <2> QED
    BY <1>1, <2>2, <2>3 DEF IInv, InputInv, InCsi
<1>3. QueueInv'
  <2>1. cmds' \in Seq(Command) /\ Len(cmds') = 0 /\ 1 .. Len(cmds') = {}
    BY <1>1
  <2>2. Len(cmds') <= Capacity
    BY <2>1, ProcessorConstants
  <2> QED
    BY <1>1, <2>1, <2>2 DEF IInv, QueueInv
<1>4. TaskInv'
  BY <1>1 DEF TaskInv
<1> QED
  BY <1>2, <1>3, <1>4 DEF IInv

-----------------------------------------------------------------------------
(* The invariant is inductive. *)
(* The first state: nothing received, nothing waits.                       *)
LEMMA Initially == Init => IInv
<1> SUFFICES ASSUME Init PROVE IInv
  OBVIOUS
<1>1. /\ cmds = <<>> /\ live = {} /\ nodes = 0 /\ nakLine = 0 /\ lines = 0
      /\ tasks = {} /\ handling = FALSE
      /\ rx = <<>> /\ buf = [c \in Cells |-> NUL]
      /\ idx = 0 /\ left = 0 /\ csi = NoCsi /\ cut = FALSE
      /\ sent = 0 /\ offline = 0
  BY DEF Init, ProcessorInit
<1>2. InputInv
  <2>1. BufferLength \in Nat \ {0} /\ PacketLength \in Nat /\ NUL \in Bytes
    BY ReceptionConstants DEF Bytes
  <2>2. buf \in [Cells -> Bytes] /\ rx \in Seq(Typed) /\ Len(rx) <= PacketLength
    BY <1>1, <2>1
  <2>3. 0 \in 0 .. BufferLength /\ 0 + 0 <= BufferLength /\ 0 \in 0 .. MaxBytes
        /\ 0 \in 0 .. MaxOffline
    BY <2>1, ReceptionConstants
  <2> QED
    BY <1>1, <2>2, <2>3 DEF InputInv, InCsi
<1>3. QueueInv
  <2>1. cmds \in Seq(Command) /\ Len(cmds) = 0 /\ 1 .. Len(cmds) = {}
    BY <1>1
  <2>2. Len(cmds) <= Capacity
    BY <2>1, ProcessorConstants
  <2> QED
    BY <1>1, <2>1, <2>2 DEF QueueInv
<1>4. TaskInv
  BY <1>1 DEF TaskInv
<1> QED
  BY <1>2, <1>3, <1>4 DEF IInv

(* Every step keeps the invariant.                                         *)
LEMMA Inductive == IInv /\ [Next]_vars => IInv'
<1> SUFFICES ASSUME IInv, [Next]_vars PROVE IInv'
  OBVIOUS
<1>1. CASE Receive
  BY <1>1, Received
<1>2. CASE StartRead
  BY <1>2, ReadStarted
<1>3. CASE StartReadOffline
  BY <1>3, ReadOffline
<1>4. CASE \/ ScanCsiEnd \/ ScanCsi \/ ScanEscape \/ ScanBackspace \/ ScanLeadingBackspace
           \/ ScanCharacter
  BY <1>4, ScanKept
<1>5. CASE ScanNewline
  BY <1>5, NewlineScanned
<1>6. CASE Handler
  BY <1>6, HandlerStep
<1>7. CASE Prompt
  BY <1>7, PromptStep
<1>8. CASE Reboot
  BY <1>8, RebootStep
<1>9. CASE UNCHANGED vars
  <2>1. InputInv' /\ QueueInv' /\ TaskInv'
    BY <1>9 DEF IInv, InputInv, QueueInv, TaskInv, InCsi, vars, buffer, queue
  <2> QED
    BY <2>1 DEF IInv
<1> QED
  BY <1>1, <1>2, <1>3, <1>4, <1>5, <1>6, <1>7, <1>8, <1>9 DEF Next, Thread

(* The invariant holds in every reachable state.                           *)
LEMMA Invariant == Spec => []IInv
BY Initially, Inductive, PTL DEF Spec

-----------------------------------------------------------------------------
(* Buffers, indices, queue and tasks keep to their types.                  *)
THEOREM TypeCorrect == Spec => []TypeOK
<1>1. IInv => TypeOK
  BY DEF IInv, InputInv, QueueInv, TaskInv, TypeOK, Command
<1> QED
  BY <1>1, Invariant, PTL

(* No turn of the scan leaves input_buffer, and none happens inside the    *)
(* handler's loop.                                                         *)
THEOREM StaysInBuffer == Spec => []ScanInBounds
<1>1. IInv => ScanInBounds
  BY DEF IInv, InputInv, TaskInv, ScanInBounds
<1> QED
  BY <1>1, Invariant, PTL

(* What waits is what is allocated: no command is lost, leaked, or run     *)
(* after it was freed, also when a line met a full queue.                  *)
THEOREM NoLostOrFreed == Spec => []CommandsOwned
<1>1. IInv => CommandsOwned
  BY DistinctLength DEF IInv, QueueInv, CommandsOwned
<1> QED
  BY <1>1, Invariant, PTL

(* The prompt is sent, or lost in a restart, only when every command typed *)
(* before it has answered: the handler's task comes before it.             *)
THEOREM PromptLast == Spec => PromptAfterCommands
<1> DEFINE A == (CMD_PROMPT \in tasks \ tasks') => cmds = <<>> /\ ~handling
<1>1. ASSUME IInv, [Next]_vars PROVE [A]_vars
  <2> SUFFICES ASSUME CMD_PROMPT \in tasks, CMD_PROMPT \notin tasks'
               PROVE  cmds = <<>> /\ ~handling
    OBVIOUS
  <2>1. CASE Prompt
    <3>1. Idle /\ CMD_HANDLER \notin tasks
      BY <2>1, TasksDiffer DEF Prompt, SendPrompt, NextTask
    <3> QED
      BY <1>1, <3>1 DEF Idle, IInv, TaskInv
  <2>2. CASE Reboot
    <3>1. Idle /\ REBOOT \in tasks
      BY <2>2 DEF Reboot, RebootProcessor, NextTask
    <3> QED
      BY <1>1, <3>1 DEF Idle, IInv, TaskInv
  <2>3. CASE StartRead \/ StartReadOffline
    BY <2>3, TasksDiffer DEF StartRead, StartReadOffline
  <2>4. CASE ScanNewline
    <3>1. PICK prompt : ParseFails(prompt) \/ ParseAndPush(Line, prompt)
      BY <2>4 DEF ScanNewline
    <3>2. tasks \subseteq tasks'
      BY <3>1 DEF ParseFails, ParseAndPush, Pushed
    <3> QED
      BY <3>2
  <2>5. CASE Handler
    BY <2>5, TasksDiffer DEF Handler, StartHandler, RunCommand, EndHandler
  <2>6. CASE Receive
    BY <2>6 DEF Receive
  <2>7. CASE \/ ScanCsiEnd \/ ScanCsi \/ ScanEscape \/ ScanBackspace \/ ScanLeadingBackspace
             \/ ScanCharacter
    BY <2>7 DEF ScanCsiEnd, ScanCsi, ScanEscape, ScanBackspace, ScanLeadingBackspace,
                ScanCharacter
  <2>8. CASE UNCHANGED vars
    BY <2>8 DEF vars
  <2> QED
    BY <1>1, <2>1, <2>2, <2>3, <2>4, <2>5, <2>6, <2>7, <2>8 DEF Next, Thread
<1> QED
  BY <1>1, Invariant, PTL DEF Spec, PromptAfterCommands

-----------------------------------------------------------------------------
(* The refinement: the buffer holds the line and the bytes that wait. *)

Waiting == [k \in 1 .. left |-> buf[idx + k - 1]]
Visible == [k \in 1 .. LineEnd |-> buf[k - 1]]
Escaped == IF InCsi THEN idx - csi ELSE 0

(* The instance speaks of the same bytes.                                  *)
LEMMA SameBytes ==
  /\ Terminal!Bytes = Bytes
  /\ \A d, b : Terminal!EndsSequence(d, b) <=> EndsSequence(d, b)
  /\ \A t : Terminal!CString(t) = CString(t)
  /\ \A t : Terminal!WellFormed(t) <=> WellFormed(t)
  /\ \A t : Terminal!LooksBehind(t) <=> LooksBehind(t)
BY DEF Terminal!Bytes, Bytes, Terminal!Typed, Typed, Terminal!EndsSequence, EndsSequence,
       Terminal!CSI_CHAR_END_START, CSI_CHAR_END_START, Terminal!CString, CString,
       Terminal!WellFormed, WellFormed, Terminal!LooksBehind, LooksBehind

(* The two parts of the buffer are sequences of bytes.                     *)
LEMMA Parts ==
  ASSUME InputInv
  PROVE  /\ Waiting \in Seq(Bytes) /\ Len(Waiting) = left
         /\ \A k \in 1 .. left : Waiting[k] = buf[idx + k - 1]
         /\ Waiting = <<>> <=> left = 0
         /\ left > 0 => Head(Waiting) = buf[idx]
         /\ LineEnd \in Nat /\ LineEnd <= idx
         /\ Visible \in Seq(Bytes) /\ Len(Visible) = LineEnd
         /\ Visible = <<>> <=> LineEnd = 0
         /\ InCsi => Escaped = idx - csi /\ Escaped > 0 /\ Escaped \in Nat
         /\ ~InCsi => Escaped = 0 /\ LineEnd = idx
<1>1. /\ BufferLength \in Nat \ {0} /\ \A c : c \in Cells <=> c \in 0 .. BufferLength - 1
      /\ idx \in Nat /\ left \in Nat /\ csi \in Nat /\ idx + left <= BufferLength
      /\ buf \in [Cells -> Bytes] /\ (InCsi => csi < idx)
  BY InputFacts
<1>2. /\ LineEnd \in Nat /\ LineEnd <= idx /\ (~InCsi => LineEnd = idx)
      /\ (InCsi => Escaped = idx - csi /\ Escaped > 0 /\ Escaped \in Nat)
      /\ (~InCsi => Escaped = 0)
  BY <1>1 DEF LineEnd, Escaped
<1>3. \A k \in 1 .. left : buf[idx + k - 1] \in Bytes
  BY <1>1
<1>4. \A k \in 1 .. LineEnd : buf[k - 1] \in Bytes
  <2>1. \A k \in 1 .. LineEnd : k - 1 \in Cells
    BY <1>1, <1>2
  <2> QED
    BY <1>1, <2>1
<1>5. /\ Waiting \in Seq(Bytes) /\ Len(Waiting) = left
      /\ \A k \in 1 .. left : Waiting[k] = buf[idx + k - 1]
  BY <1>1, <1>3 DEF Waiting
<1>6. Visible \in Seq(Bytes) /\ Len(Visible) = LineEnd
  BY <1>2, <1>4 DEF Visible
<1>7. Waiting = <<>> <=> left = 0
  BY <1>1, <1>5
<1>8. Visible = <<>> <=> LineEnd = 0
  BY <1>2, <1>6
<1>9. left > 0 => Head(Waiting) = buf[idx]
  <2> SUFFICES ASSUME left > 0 PROVE Head(Waiting) = buf[idx]
    OBVIOUS
  <2>1. Waiting # <<>> /\ 1 \in 1 .. left /\ idx + 1 - 1 = idx
    BY <1>1, <1>7
  <2>2. Head(Waiting) = Waiting[1]
    BY <1>5, <2>1
  <2> QED
    BY <1>5, <2>1, <2>2
<1> QED
  BY <1>2, <1>5, <1>6, <1>7, <1>8, <1>9

(* One byte is consumed: the others are where they wait now.               *)
LEMMA Consumed ==
  ASSUME InputInv, left > 0, left' = left - 1,
         \A k \in 1 .. left - 1 : buf'[idx' + k - 1] = buf[idx + k]
  PROVE  Waiting # <<>> /\ Waiting' = Tail(Waiting)
<1>1. /\ Waiting \in Seq(Bytes) /\ Len(Waiting) = left /\ Waiting # <<>> /\ left \in Nat
      /\ \A k \in 1 .. left : Waiting[k] = buf[idx + k - 1]
      /\ idx \in Nat
  BY Parts, InputFacts
<1>2. PICK w, m : m = left - 1 /\ w = [k \in 1 .. m |-> buf'[idx' + k - 1]]
  OBVIOUS
<1>3. \A k \in 1 .. m : /\ k + 1 \in 1 .. left /\ idx + (k + 1) - 1 = idx + k
                        /\ Waiting[k + 1] \in Bytes
  BY <1>1, <1>2
<1>4. \A k \in 1 .. m : w[k] = Waiting[k + 1]
  BY <1>1, <1>2, <1>3
<1>5. w \in Seq(Bytes) /\ Len(w) = m
  <2>0. \A k \in 1 .. m : buf[idx + k] = Waiting[k + 1] /\ buf'[idx' + k - 1] = buf[idx + k]
    BY <1>1, <1>2, <1>3
  <2>1. \A k \in 1 .. m : buf'[idx' + k - 1] \in Bytes
    BY <1>3, <2>0
  <2>2. m \in Nat
    BY <1>1, <1>2
  <2> QED
    BY <1>2, <2>1, <2>2
<1>6. PICK t : t = Tail(Waiting)
  OBVIOUS
<1>7. /\ t \in Seq(Bytes) /\ Len(t) = m
      /\ \A k \in 1 .. Len(t) : t[k] = Waiting[k + 1]
  BY <1>1, <1>2, <1>6, HeadTailProperties
<1>8. w = t
  BY <1>4, <1>5, <1>7, SeqEqual
<1>9. Waiting' = w
  BY <1>2 DEF Waiting
<1> QED
  BY <1>1, <1>6, <1>8, <1>9

(* The line does not change with the bytes behind it.                      *)
LEMMA LineKept ==
  ASSUME LineEnd' = LineEnd, LineEnd \in Nat, \A c \in 0 .. LineEnd - 1 : buf'[c] = buf[c]
  PROVE  Visible' = Visible
<1>1. \A k \in 1 .. LineEnd : buf'[k - 1] = buf[k - 1]
  <2>1. \A k \in 1 .. LineEnd : k - 1 \in 0 .. LineEnd - 1
    OBVIOUS
  <2> QED
    BY <2>1
<1> QED
  BY <1>1 DEF Visible

(* Nothing of the terminal's changes.                                      *)
LEMMA Stutters ==
  ASSUME UNCHANGED <<lines, cmds, buffer>>
  PROVE  UNCHANGED Terminal!vars
<1>1. LineEnd' = LineEnd /\ (InCsi' <=> InCsi)
  BY DEF LineEnd, InCsi, buffer, NoCsi
<1>2. Waiting' = Waiting /\ Visible' = Visible /\ Escaped' = Escaped
  BY <1>1 DEF Waiting, Visible, Escaped, buffer
<1> QED
  BY <1>2 DEF Terminal!vars, Waiting, Visible, Escaped

(* A read receives bytes.                                                  *)
LEMMA ReadReceives ==
  ASSUME IInv, IInv', StartRead \/ StartReadOffline
  PROVE  Terminal!Receive
<1>1. /\ left = 0 /\ idx' = idx /\ csi' = csi /\ cmds' = cmds /\ lines' = lines
  BY DEF StartRead, StartReadOffline, Idle, queue
<1>2. InputInv /\ InputInv'
  BY DEF IInv
<1>3. \A c \in 0 .. LineEnd - 1 : buf'[c] = buf[c]
  <2>1. CASE StartReadOffline
    BY <2>1 DEF StartReadOffline
  <2>2. CASE StartRead
    <3>1. PICK n : buf' = [c \in Cells |-> IF c \in idx .. idx + n - 1
                                         THEN rx[c - idx + 1] ELSE buf[c]]
      BY <2>2 DEF StartRead
    <3>2. \A c \in 0 .. LineEnd - 1 : c \in Cells /\ c \notin idx .. idx + n - 1
      <4>1. LineEnd \in Nat /\ LineEnd <= idx
        BY <1>2, Parts
      <4> QED
        BY <1>2, <4>1, InputFacts
    <3> QED
      BY <3>1, <3>2
  <2> QED
    BY <2>1, <2>2
<1>4. LineEnd' = LineEnd /\ (InCsi' <=> InCsi) /\ Escaped' = Escaped
  BY <1>1 DEF LineEnd, InCsi, NoCsi, Escaped
<1>5. LineEnd \in Nat /\ Waiting = <<>>
  BY <1>1, <1>2, Parts
<1>6. Visible' = Visible
  BY <1>3, <1>4, <1>5, LineKept
<1>7. Waiting' \in Seq(Bytes)
  <2>1. left' \in Nat /\ idx' \in Nat /\ idx' + left' <= BufferLength
    <3>1. left' \in 0 .. BufferLength /\ idx' \in 0 .. BufferLength /\ idx' + left' <= BufferLength
      BY <1>2, Zenon DEF InputInv
    <3>2. PICK n, i, top : n = left' /\ i = idx' /\ top = BufferLength
      OBVIOUS
    <3>3. n \in 0 .. top /\ i \in 0 .. top /\ i + n <= top /\ top \in Nat
      BY <3>1, <3>2, ReceptionConstants
    <3>4. n \in Nat /\ i \in Nat
      BY <3>3
    <3>5. left' \in Nat /\ idx' \in Nat
      BY <3>2, <3>4
    <3> QED
      BY <3>1, <3>5
  <2>2. \A k \in 1 .. left' : idx' + k - 1 \in Cells
    <3>1. PICK n, i : n = left' /\ i = idx'
      OBVIOUS
    <3>2. n \in Nat /\ i \in Nat /\ i + n <= BufferLength /\ BufferLength \in Nat
      BY <2>1, <3>1, ReceptionConstants
    <3>3. \A k \in 1 .. n : i + k - 1 \in 0 .. BufferLength - 1
      BY <3>2
    <3> QED
      BY <3>1, <3>3 DEF Cells
  <2>3. buf' \in [Cells -> Bytes]
    BY <1>2 DEF InputInv, Cells, Bytes, Typed
  <2>4. \A k \in 1 .. left' : buf'[idx' + k - 1] \in Bytes
    BY <2>2, <2>3
  <2> QED
    BY <2>1, <2>4 DEF Waiting
<1> QED
  BY <1>1, <1>4, <1>5, <1>6, <1>7, SameBytes
  DEF Terminal!Receive, Waiting, Visible, Escaped

(* What moving bytes down leaves where.                                    *)
LEMMA MovedCells ==
  ASSUME InputInv, NEW cells, NEW to \in Nat, NEW from \in Nat, NEW n \in Nat, NEW behind,
         to + n <= BufferLength
  PROVE  LET moved == Moved(cells, to, from, n, behind) IN
           /\ \A k \in 1 .. n :
                from + k - 1 \in Cells => moved[to + k - 1] = cells[from + k - 1]
           /\ \A c \in 0 .. to - 1 : moved[c] = cells[c]
<1>1. /\ BufferLength \in Nat \ {0} /\ \A c : c \in Cells <=> c \in 0 .. BufferLength - 1
  BY InputFacts
<1>2. ASSUME NEW k \in 1 .. n, from + k - 1 \in Cells
      PROVE  Moved(cells, to, from, n, behind)[to + k - 1] = cells[from + k - 1]
  <2>1. PICK c : c = to + k - 1
    OBVIOUS
  <2>2. c \in Cells /\ c \in to .. to + n - 1 /\ from + c - to = from + k - 1
    BY <1>1, <2>1
  <2>3. Moved(cells, to, from, n, behind)[c] = cells[from + k - 1]
    BY <1>2, <2>2 DEF Moved
  <2> QED
    BY <2>1, <2>3
<1>3. ASSUME NEW c \in 0 .. to - 1 PROVE Moved(cells, to, from, n, behind)[c] = cells[c]
  <2>1. c \in Cells /\ c \notin to .. to + n - 1
    BY <1>1
  <2> QED
    BY <2>1 DEF Moved
<1> QED
  BY <1>2, <1>3

(* The bytes of an escape sequence, up to its last.                        *)
LEMMA CsiEnds ==
  ASSUME InputInv, ScanCsiEnd
  PROVE  Terminal!InEscape
<1>1. /\ left > 0 /\ left' = left - 1 /\ InCsi /\ EndsSequence(idx - csi, buf[idx])
      /\ buf' = Moved(buf, csi, idx + 1, left - 1, NUL) /\ idx' = csi /\ csi' = NoCsi
      /\ lines' = lines /\ cmds' = cmds
  BY DEF ScanCsiEnd, Scan, queue
<1>2. /\ BufferLength \in Nat \ {0} /\ \A c : c \in Cells <=> c \in 0 .. BufferLength - 1
      /\ idx \in Nat /\ left \in Nat /\ csi \in Nat /\ idx + left <= BufferLength /\ csi < idx
  BY <1>1, InputFacts
<1>3. /\ \A k \in 1 .. left - 1 : buf'[csi + k - 1] = buf[idx + k]
      /\ \A c \in 0 .. csi - 1 : buf'[c] = buf[c]
  <2>1. left - 1 \in Nat /\ idx + 1 \in Nat /\ csi + (left - 1) <= BufferLength
    BY <1>1, <1>2
  <2>2. /\ \A k \in 1 .. left - 1 :
             (idx + 1) + k - 1 \in Cells => buf'[csi + k - 1] = buf[(idx + 1) + k - 1]
        /\ \A c \in 0 .. csi - 1 : buf'[c] = buf[c]
    <3>1. csi \in Nat
      BY <1>2
    <3> QED
      BY <1>1, <2>1, <3>1, MovedCells
  <2>3. \A k \in 1 .. left - 1 : (idx + 1) + k - 1 = idx + k /\ idx + k \in Cells
    BY <1>2
  <2> QED
    BY <2>2, <2>3
<1>4. Waiting # <<>> /\ Waiting' = Tail(Waiting)
  BY <1>1, <1>3, Consumed
<1>5. ~InCsi' /\ LineEnd = csi /\ LineEnd' = csi
  BY <1>1 DEF InCsi, LineEnd, NoCsi
<1>6. Visible' = Visible
  BY <1>2, <1>3, <1>5, LineKept
<1>7. /\ Head(Waiting) = buf[idx] /\ Escaped = idx - csi /\ Escaped > 0
  BY <1>1, Parts
<1>8. Escaped' = 0
  BY <1>5 DEF Escaped
<1>9. Terminal!EndsSequence(Escaped, Head(Waiting))
  BY <1>1, <1>7, SameBytes
<1> QED
  BY <1>1, <1>4, <1>6, <1>7, <1>8, <1>9 DEF Terminal!InEscape, Waiting, Visible, Escaped

(* The bytes inside it.                                                    *)
LEMMA CsiContinues ==
  ASSUME InputInv, ScanCsi
  PROVE  Terminal!InEscape
<1>1. /\ left > 0 /\ left' = left - 1 /\ InCsi /\ ~EndsSequence(idx - csi, buf[idx])
      /\ buf' = buf /\ idx' = idx + 1 /\ csi' = csi
      /\ lines' = lines /\ cmds' = cmds
  BY DEF ScanCsi, Scan, queue
<1>2. idx \in Nat /\ left \in Nat /\ csi \in Nat /\ csi < idx
  BY <1>1, InputFacts
<1>3. \A k \in 1 .. left - 1 : buf'[idx' + k - 1] = buf[idx + k]
  <2>1. \A k \in 1 .. left - 1 : idx' + k - 1 = idx + k
    BY <1>1, <1>2
  <2> QED
    BY <1>1, <2>1
<1>4. Waiting # <<>> /\ Waiting' = Tail(Waiting)
  BY <1>1, <1>3, Consumed
<1>5. InCsi' /\ LineEnd = csi /\ LineEnd' = csi
  BY <1>1 DEF InCsi, LineEnd, NoCsi
<1>6. Visible' = Visible
  BY <1>1, <1>2, <1>5, LineKept
<1>7. /\ Head(Waiting) = buf[idx] /\ Escaped = idx - csi /\ Escaped > 0
  BY <1>1, Parts
<1>8. Escaped' = Escaped + 1
  <2>1. Escaped' = idx' - csi'
    BY <1>5 DEF Escaped
  <2> QED
    BY <1>1, <1>2, <1>7, <2>1
<1>9. ~Terminal!EndsSequence(Escaped, Head(Waiting))
  BY <1>1, <1>7, SameBytes
<1> QED
  BY <1>1, <1>4, <1>6, <1>7, <1>8, <1>9 DEF Terminal!InEscape, Waiting, Visible, Escaped

(* An escape sequence begins.                                              *)
LEMMA EscapeBegins ==
  ASSUME InputInv, ScanEscape
  PROVE  Terminal!Escape
<1>1. /\ left > 0 /\ left' = left - 1 /\ ~InCsi /\ buf[idx] = ESC
      /\ buf' = buf /\ idx' = idx + 1 /\ csi' = idx
      /\ lines' = lines /\ cmds' = cmds
  BY DEF ScanEscape, Scan, queue
<1>2. idx \in Nat /\ left \in Nat /\ idx + left <= BufferLength /\ BufferLength \in Nat
  BY InputFacts
<1>3. \A k \in 1 .. left - 1 : buf'[idx' + k - 1] = buf[idx + k]
  <2>1. \A k \in 1 .. left - 1 : idx' + k - 1 = idx + k
    BY <1>1, <1>2
  <2> QED
    BY <1>1, <2>1
<1>4. Waiting # <<>> /\ Waiting' = Tail(Waiting)
  BY <1>1, <1>3, Consumed
<1>5. InCsi' /\ LineEnd = idx /\ LineEnd' = idx
  <2>1. idx # BufferLength
    BY <1>1, <1>2
  <2>2. csi' # NoCsi'
    BY <1>1, <2>1 DEF NoCsi
  <2> QED
    BY <1>1, <2>2 DEF InCsi, LineEnd
<1>6. Visible' = Visible
  BY <1>1, <1>2, <1>5, LineKept
<1>7. Head(Waiting) = ESC /\ Escaped = 0
  BY <1>1, Parts
<1>8. Escaped' = 1
  <2>1. Escaped' = idx' - csi'
    BY <1>5 DEF Escaped
  <2> QED
    BY <1>1, <1>2, <2>1
<1> QED
  BY <1>1, <1>4, <1>6, <1>7, <1>8
  DEF Terminal!Escape, Terminal!Now, Waiting, Visible, Escaped

(* A backspace takes one byte back.                                        *)
LEMMA BackspaceErases ==
  ASSUME InputInv, ScanBackspace
  PROVE  Terminal!Erase
<1>1. /\ left > 0 /\ left' = left - 1 /\ ~InCsi /\ buf[idx] = BS /\ idx > 0
      /\ buf' = Moved(buf, idx - 1, idx + 1, left - 1, NUL) /\ idx' = idx - 1 /\ csi' = csi
      /\ lines' = lines /\ cmds' = cmds
  BY DEF ScanBackspace, Scan, queue
<1>2. /\ BufferLength \in Nat \ {0} /\ \A c : c \in Cells <=> c \in 0 .. BufferLength - 1
      /\ idx \in Nat /\ left \in Nat /\ idx + left <= BufferLength
      /\ buf \in [Cells -> Bytes]
  BY InputFacts
<1>3. /\ \A k \in 1 .. left - 1 : buf'[idx' + k - 1] = buf[idx + k]
      /\ \A c \in 0 .. idx - 2 : buf'[c] = buf[c]
  <2>1. left - 1 \in Nat /\ idx + 1 \in Nat /\ idx - 1 \in Nat
        /\ (idx - 1) + (left - 1) <= BufferLength
    BY <1>1, <1>2
  <2>2. /\ \A k \in 1 .. left - 1 :
             (idx + 1) + k - 1 \in Cells => buf'[(idx - 1) + k - 1] = buf[(idx + 1) + k - 1]
        /\ \A c \in 0 .. (idx - 1) - 1 : buf'[c] = buf[c]
    BY <1>1, <2>1, MovedCells
  <2>3. \A k \in 1 .. left - 1 : (idx + 1) + k - 1 = idx + k /\ idx + k \in Cells
    BY <1>2
  <2>4. (idx - 1) - 1 = idx - 2
    BY <1>2
  <2> QED
    BY <1>1, <2>2, <2>3, <2>4
<1>4. Waiting # <<>> /\ Waiting' = Tail(Waiting)
  BY <1>1, <1>3, Consumed
<1>5. ~InCsi' /\ LineEnd = idx /\ LineEnd' = idx - 1
  BY <1>1 DEF InCsi, LineEnd, NoCsi
<1>6. Visible # <<>> /\ Len(Visible) = idx /\ Visible \in Seq(Bytes)
  BY <1>1, <1>2, <1>5, Parts
<1>7. Visible' = SubSeq(Visible, 1, Len(Visible) - 1)
  <2>1. \A k \in 1 .. idx - 1 : buf'[k - 1] = buf[k - 1]
    <3>1. \A k \in 1 .. idx - 1 : k - 1 \in 0 .. idx - 2
      BY <1>2
    <3> QED
      BY <1>3, <3>1
  <2>2. PICK v, m : v = [k \in 1 .. m |-> buf[k - 1]] /\ m = idx - 1
    OBVIOUS
  <2>3. Visible' = v
    BY <1>5, <2>1, <2>2 DEF Visible
  <2>4. m \in Nat /\ \A k \in 1 .. m : buf[k - 1] \in Bytes /\ Visible[k] = buf[k - 1]
    <3>1. m \in Nat /\ m < idx
      BY <1>1, <1>2, <2>2
    <3>2. \A k \in 1 .. m : k - 1 \in Cells /\ k \in 1 .. idx
      BY <1>2, <3>1
    <3> QED
      BY <1>2, <1>5, <3>1, <3>2 DEF Visible
  <2>5. v \in Seq(Bytes) /\ Len(v) = m /\ \A k \in 1 .. m : v[k] = Visible[k]
    BY <2>2, <2>4
  <2>6. m \in 0 .. Len(Visible)
    BY <1>2, <1>6, <2>2, <2>4
  <2>7. SubSeq(Visible, 1, m) \in Seq(Bytes) /\ Len(SubSeq(Visible, 1, m)) = m
    BY <1>6, <2>6
  <2>8. \A k \in 1 .. m : SubSeq(Visible, 1, m)[k] = Visible[k]
    BY <1>6, <2>6
  <2>9. v = SubSeq(Visible, 1, m)
    BY <2>5, <2>7, <2>8, SeqEqual
  <2> QED
    BY <1>6, <2>2, <2>3, <2>9
<1>8. Head(Waiting) = BS /\ Escaped = 0
  BY <1>1, Parts
<1>9. Escaped' = 0
  BY <1>5 DEF Escaped
<1> QED
  BY <1>1, <1>4, <1>6, <1>7, <1>8, <1>9
  DEF Terminal!Erase, Terminal!Now, Waiting, Visible, Escaped

(* A backspace on an empty line costs the last byte.                       *)
LEMMA BackspaceLoses ==
  ASSUME InputInv, ScanLeadingBackspace
  PROVE  Terminal!EraseNothing
<1>1. /\ left > 0 /\ left' = left - 1 /\ ~InCsi /\ buf[idx] = BS /\ idx = 0
      /\ buf' = buf /\ idx' = idx /\ csi' = csi /\ lines' = lines /\ cmds' = cmds
  BY DEF ScanLeadingBackspace, Scan, queue
<1>2. left \in Nat /\ idx \in Nat
  BY InputFacts
<1>3. /\ Waiting \in Seq(Bytes) /\ Len(Waiting) = left /\ Waiting # <<>>
      /\ \A k \in 1 .. left : Waiting[k] = buf[idx + k - 1]
      /\ Head(Waiting) = BS /\ Escaped = 0 /\ Visible = <<>>
  BY <1>1, <1>2, Parts
<1>4. Waiting' = SubSeq(Waiting, 1, Len(Waiting) - 1)
  <2>1. PICK w, m : m = left - 1 /\ w = [k \in 1 .. m |-> buf[idx + k - 1]]
    OBVIOUS
  <2>2. Waiting' = w
    BY <1>1, <2>1 DEF Waiting
  <2>3. m \in 0 .. Len(Waiting) /\ m \in Nat /\ \A k \in 1 .. m : k \in 1 .. left
    BY <1>1, <1>2, <1>3, <2>1
  <2>4. \A k \in 1 .. m : w[k] = Waiting[k] /\ w[k] \in Bytes
    BY <1>3, <2>1, <2>3
  <2>5. w \in Seq(Bytes) /\ Len(w) = m
    <3>1. \A k \in 1 .. m : buf[idx + k - 1] \in Bytes
      BY <1>3, <2>3
    <3> QED
      BY <2>1, <2>3, <3>1
  <2>6. SubSeq(Waiting, 1, m) \in Seq(Bytes) /\ Len(SubSeq(Waiting, 1, m)) = m
    BY <1>3, <2>3
  <2>7. \A k \in 1 .. m : SubSeq(Waiting, 1, m)[k] = Waiting[k]
    BY <1>3, <2>3
  <2>8. w = SubSeq(Waiting, 1, m)
    BY <2>4, <2>5, <2>6, <2>7, SeqEqual
  <2> QED
    BY <1>3, <2>1, <2>2, <2>8
<1>5. LineEnd' = LineEnd /\ (InCsi' <=> InCsi)
  BY <1>1 DEF LineEnd, InCsi, NoCsi
<1>6. Visible' = Visible /\ Escaped' = Escaped
  BY <1>1, <1>5 DEF Visible, Escaped
<1> QED
  BY <1>1, <1>3, <1>4, <1>6
  DEF Terminal!EraseNothing, Terminal!Now, Waiting, Visible, Escaped

(* Any other byte joins the line.                                          *)
LEMMA CharacterShows ==
  ASSUME InputInv, ScanCharacter
  PROVE  Terminal!Show
<1>1. PICK byte \in Bytes \ {ESC, BS, NL} : buf[idx] = byte
  BY DEF ScanCharacter, Scan
<1>2. /\ left > 0 /\ left' = left - 1 /\ ~InCsi /\ buf' = buf /\ idx' = idx + 1 /\ csi' = csi
      /\ lines' = lines /\ cmds' = cmds
  BY DEF ScanCharacter, Scan, queue
<1>3. /\ BufferLength \in Nat \ {0} /\ \A c : c \in Cells <=> c \in 0 .. BufferLength - 1
      /\ idx \in Nat /\ left \in Nat /\ idx + left <= BufferLength
      /\ buf \in [Cells -> Bytes]
  BY InputFacts
<1>4. \A k \in 1 .. left - 1 : buf'[idx' + k - 1] = buf[idx + k]
  <2>1. \A k \in 1 .. left - 1 : idx' + k - 1 = idx + k
    BY <1>2, <1>3
  <2> QED
    BY <1>2, <2>1
<1>5. Waiting # <<>> /\ Waiting' = Tail(Waiting)
  BY <1>2, <1>4, Consumed
<1>6. ~InCsi' /\ LineEnd = idx /\ LineEnd' = idx + 1
  BY <1>2 DEF InCsi, LineEnd, NoCsi
<1>7. Len(Visible) = idx /\ Visible \in Seq(Bytes) /\ byte \in Bytes
  BY <1>1, <1>6, Parts DEF Bytes, Typed
<1>8. Visible' = Append(Visible, byte)
  <2>1. PICK v, m : v = [k \in 1 .. m |-> buf[k - 1]] /\ m = idx + 1
    OBVIOUS
  <2>2. Visible' = v
    BY <1>2, <1>6, <2>1 DEF Visible
  <2>3. m \in Nat /\ \A k \in 1 .. m : k - 1 \in Cells
    BY <1>2, <1>3, <2>1
  <2>4. v \in Seq(Bytes) /\ Len(v) = m
    <3>1. \A k \in 1 .. m : buf[k - 1] \in Bytes
      BY <1>3, <2>3
    <3> QED
      BY <2>1, <2>3, <3>1
  <2>5. PICK a : a = Append(Visible, byte)
    OBVIOUS
  <2>6. /\ a \in Seq(Bytes) /\ Len(a) = m
        /\ \A k \in 1 .. idx : a[k] = Visible[k]
        /\ a[m] = byte
    BY <1>7, <2>1, <2>5, AppendProperties
  <2>7. \A k \in 1 .. idx : Visible[k] = buf[k - 1]
    BY <1>6 DEF Visible
  <2>8. \A k \in 1 .. m : v[k] = a[k]
    <3> SUFFICES ASSUME NEW k \in 1 .. m PROVE v[k] = a[k]
      OBVIOUS
    <3>1. CASE k = m
      <4>1. k - 1 = idx
        BY <1>3, <2>1, <3>1
      <4>2. v[k] = buf[k - 1]
        BY <2>1
      <4> QED
        BY <1>1, <2>6, <3>1, <4>1, <4>2
    <3>2. CASE k # m
      <4>1. k \in 1 .. idx
        BY <1>3, <2>1, <3>2
      <4> QED
        BY <2>1, <2>6, <2>7, <4>1
    <3> QED
      BY <3>1, <3>2
  <2>9. v = a
    BY <2>4, <2>6, <2>8, SeqEqual
  <2> QED
    BY <2>2, <2>5, <2>9
<1>9. Head(Waiting) = byte /\ Escaped = 0
  BY <1>1, <1>2, Parts
<1>10. Escaped' = 0
  BY <1>6 DEF Escaped
<1> QED
  BY <1>1, <1>2, <1>5, <1>8, <1>9, <1>10, SameBytes
  DEF Terminal!Show, Terminal!Now, Waiting, Visible, Escaped

(* What a new-line leaves of the bytes that waited behind it.              *)
LEMMA BehindNewline ==
  ASSUME InputInv, left > 0, left' = left - 1, idx' = 0, NEW changed, NEW behind,
         buf' = Moved(Parsed(changed), 0, idx + 1, left, behind)
  PROVE  \A k \in 1 .. left - 1 :
           buf'[idx' + k - 1] = IF idx + k \in changed THEN Cut ELSE buf[idx + k]
<1>1. /\ BufferLength \in Nat \ {0} /\ \A c : c \in Cells <=> c \in 0 .. BufferLength - 1
      /\ idx \in Nat /\ left \in Nat /\ idx + left <= BufferLength
      /\ buf \in [Cells -> Bytes]
  BY InputFacts
<1>2. \A k \in 1 .. left :
        (idx + 1) + k - 1 \in Cells => buf'[0 + k - 1] = Parsed(changed)[(idx + 1) + k - 1]
  <2>1. 0 \in Nat /\ idx + 1 \in Nat /\ 0 + left <= BufferLength
    BY <1>1
  <2>2. PICK cells : cells = Parsed(changed)
    OBVIOUS
  <2> QED
    BY <1>1, <2>1, <2>2, MovedCells
<1> SUFFICES ASSUME NEW k \in 1 .. left - 1
             PROVE  buf'[idx' + k - 1] = IF idx + k \in changed THEN Cut ELSE buf[idx + k]
  OBVIOUS
<1>3. /\ k \in 1 .. left /\ (idx + 1) + k - 1 = idx + k /\ idx + k \in Cells
      /\ 0 + k - 1 = k - 1 /\ idx' + k - 1 = k - 1 /\ idx + k # idx
  BY <1>1
<1>4. buf'[k - 1] = Parsed(changed)[idx + k]
  BY <1>2, <1>3
<1>5. Parsed(changed)[idx + k] = IF idx + k \in changed THEN Cut ELSE buf[idx + k]
  BY <1>1, <1>3 DEF Parsed, Text
<1> QED
  BY <1>3, <1>4, <1>5

(* They stay what they were when the parser touched only the line.         *)
LEMMA WaitingMoved ==
  ASSUME InputInv, left > 0, left' = left - 1, idx' = 0, NEW changed, NEW behind,
         \A c \in changed : c < idx,
         buf' = Moved(Parsed(changed), 0, idx + 1, left, behind)
  PROVE  Waiting # <<>> /\ Waiting' = Tail(Waiting)
<1>1. idx \in Nat /\ left \in Nat
  BY InputFacts
<1>2. \A k \in 1 .. left - 1 : idx + k \notin changed
  BY <1>1
<1>3. \A k \in 1 .. left - 1 : buf'[idx' + k - 1] = buf[idx + k]
  BY <1>2, BehindNewline
<1> QED
  BY <1>3, Consumed

(* Otherwise some commands among them are cut.                             *)
LEMMA WaitingCut ==
  ASSUME InputInv, left > 0, left' = left - 1, idx' = 0, NEW changed, NEW behind,
         \A c \in changed : Text[c] = Letter,
         buf' = Moved(Parsed(changed), 0, idx + 1, left, behind)
  PROVE  Waiting # <<>> /\ Terminal!SomeCut(Tail(Waiting), Waiting')
<1>1. /\ BufferLength \in Nat \ {0} /\ \A c : c \in Cells <=> c \in 0 .. BufferLength - 1
      /\ idx \in Nat /\ left \in Nat /\ idx + left <= BufferLength
      /\ buf \in [Cells -> Bytes]
  BY InputFacts
<1>2. /\ Waiting \in Seq(Bytes) /\ Len(Waiting) = left /\ Waiting # <<>>
      /\ \A k \in 1 .. left : Waiting[k] = buf[idx + k - 1]
  BY Parts
<1>3. PICK w, t, m :
        m = left - 1 /\ w = [k \in 1 .. m |-> buf'[idx' + k - 1]] /\ t = Tail(Waiting)
  OBVIOUS
<1>4. m \in Nat /\ Len(t) = m /\ \A k \in 1 .. m : t[k] = Waiting[k + 1]
  BY <1>1, <1>2, <1>3, HeadTailProperties
<1>5. Len(w) = m /\ \A k \in 1 .. m : w[k] = buf'[idx' + k - 1]
  BY <1>3, <1>4
<1>6. ASSUME NEW k \in 1 .. m PROVE w[k] = t[k] \/ (t[k] = Letter /\ w[k] = Cut)
  <2>1. /\ k + 1 \in 1 .. left /\ idx + (k + 1) - 1 = idx + k
        /\ idx + k \in Cells /\ idx + k # idx
    BY <1>1, <1>3
  <2>2. t[k] = buf[idx + k]
    BY <1>2, <1>4, <2>1
  <2>3. w[k] = IF idx + k \in changed THEN Cut ELSE buf[idx + k]
    BY <1>3, <1>5, BehindNewline
  <2>4. idx + k \in changed => buf[idx + k] = Letter
    BY <1>1, <2>1 DEF Text
  <2> QED
    BY <2>2, <2>3, <2>4
<1>7. Waiting' = w
  BY <1>3 DEF Waiting
<1> QED
  BY <1>2, <1>3, <1>4, <1>5, <1>6, <1>7 DEF Terminal!SomeCut

(* A new-line enters the line.                                             *)
LEMMA NewlineEnters ==
  ASSUME InputInv, QueueInv, ScanNewline
  PROVE  Terminal!Enter
<1>1. PICK prompt : ParseFails(prompt) \/ ParseAndPush(Line, prompt)
  BY DEF ScanNewline
<1>3. /\ left > 0 /\ left' = left - 1 /\ ~InCsi /\ buf[idx] = NL /\ idx' = 0 /\ csi' = csi
  BY DEF ScanNewline, Scan
<1>4. /\ BufferLength \in Nat \ {0} /\ \A c : c \in Cells <=> c \in 0 .. BufferLength - 1
      /\ idx \in Nat /\ left \in Nat /\ idx + left <= BufferLength
  BY InputFacts
<1>6. /\ Waiting # <<>>
      /\ IF Terminal!LooksBehind(Line) THEN Terminal!SomeCut(Tail(Waiting), Waiting')
                                       ELSE Waiting' = Tail(Waiting)
  <2>1. PICK reached \in Reached, taken \in TakenAsArguments,
             behind \in IF idx + left = BufferLength THEN Bytes ELSE {NUL} :
          buf' = Moved(Parsed(reached \cup taken), 0, idx + 1, left, behind)
    BY DEF ScanNewline
  <2>2. CASE LooksBehind(Line)
    <3>1. \A c \in reached \cup taken : Text[c] = Letter
      <4>1. \A c \in reached : c \in 0 .. c
        BY <1>4, <2>1 DEF Reached
      <4>2. \A c \in reached : Text[c] = Letter
        BY <2>1, <4>1 DEF Reached
      <4>3. \A c \in taken : Text[c] = Letter
        BY <2>1, <2>2 DEF TakenAsArguments
      <4> QED
        BY <4>2, <4>3
    <3> QED
      BY <1>3, <2>1, <2>2, <3>1, WaitingCut, SameBytes
  <2>3. CASE ~LooksBehind(Line)
    <3>1. \A c \in reached \cup taken : c < idx
      <4>1. \A c \in reached \cup taken : c \in Cells /\ c < Len(Line)
        BY <2>1, <2>3 DEF Reached, TakenAsArguments
      <4>2. Len(Line) \in Nat /\ Len(Line) <= idx
        BY LineOfBuffer
      <4> QED
        BY <1>4, <4>1, <4>2
    <3> QED
      BY <1>3, <2>1, <2>3, <3>1, WaitingMoved, SameBytes
  <2> QED
    BY <2>2, <2>3
<1>7. ~InCsi' /\ LineEnd = idx /\ LineEnd' = 0
  BY <1>3 DEF InCsi, LineEnd, NoCsi
<1>8. Visible' = <<>>
  BY <1>7 DEF Visible
<1>9. Head(Waiting) = NL /\ Escaped = 0 /\ Escaped' = 0
  BY <1>3, <1>7, Parts DEF Escaped
<1>10. Line = Terminal!CString(Visible)
  BY <1>7, SameBytes DEF Line, Visible
<1>11. ASSUME ParseAndPush(Line, prompt)
       PROVE  LET room == Capacity - Len(cmds)
                  n    == IF Len(Line) < room THEN Len(Line) ELSE room
              IN  /\ Terminal!WellFormed(Line)
                  /\ lines' = lines + 1
                  /\ cmds' = cmds \o [k \in 1 .. n |-> [line |-> lines', pos |-> k]]
  <2>1. PICK len, list, n, new :
          /\ len = Len(Line)
          /\ list = [k \in 1 .. len |-> [line |-> lines + 1, pos |-> k]]
          /\ n = (IF len < Capacity - Len(cmds) THEN len ELSE Capacity - Len(cmds))
          /\ new = [k \in 1 .. n |-> [line |-> lines + 1, pos |-> k]]
    OBVIOUS
  <2>2. len \in Nat /\ len <= BufferLength /\ Len(cmds) \in Nat /\ Len(cmds) <= Capacity
        /\ Capacity \in Nat /\ lines \in Nat
    <3>1. Line \in Seq(Bytes) /\ Len(Line) <= BufferLength
      BY LineOfBuffer
    <3> QED
      BY <2>1, <3>1, ProcessorConstants DEF QueueInv
  <2>3. n \in 0 .. len /\ n \in Nat
    BY <2>1, <2>2
  <2>4. \A k \in 1 .. len : [line |-> lines + 1, pos |-> k] \in Command
    BY <1>4, <2>2 DEF Command
  <2>5. list \in Seq(Command) /\ Len(list) = len
    BY <2>1, <2>2, <2>4
  <2>6. \A k \in 1 .. n : k \in 1 .. len
    BY <2>2, <2>3
  <2>7. new \in Seq(Command) /\ Len(new) = n
    BY <2>1, <2>3, <2>4, <2>6
  <2>8. SubSeq(list, 1, n) \in Seq(Command) /\ Len(SubSeq(list, 1, n)) = n
    BY <2>3, <2>5
  <2>9. \A k \in 1 .. n : SubSeq(list, 1, n)[k] = list[k]
    BY <2>3, <2>5
  <2>10. \A k \in 1 .. n : list[k] = new[k]
    BY <2>1, <2>6
  <2>11. SubSeq(list, 1, n) = new
    BY <2>7, <2>8, <2>9, <2>10, SeqEqual
  <2>12. /\ WellFormed(Line) /\ lines' = lines + 1
         /\ cmds' = cmds \o SubSeq(list, 1, n)
    BY <1>11, <2>1, <2>5 DEF ParseAndPush
  <2> QED
    BY <2>1, <2>11, <2>12, SameBytes
<1>12. CASE ParseFails(prompt)
  <2>1. lines' = lines /\ cmds' = cmds
    BY <1>12 DEF ParseFails, queue
  <2> QED
    BY <1>6, <1>8, <1>9, <1>10, <2>1
    DEF Terminal!Enter, Terminal!Now, Waiting, Visible, Escaped
<1>13. CASE ParseAndPush(Line, prompt)
  BY <1>6, <1>8, <1>9, <1>10, <1>11, <1>13
  DEF Terminal!Enter, Terminal!Now, Waiting, Visible, Escaped
<1> QED
  BY <1>1, <1>12, <1>13

-----------------------------------------------------------------------------
(* A command that runs is the first that waits; a restart finds none.      *)
LEMMA HandlerMaps ==
  ASSUME Handler
  PROVE  Terminal!Run \/ UNCHANGED Terminal!vars
<1>1. UNCHANGED buffer
  BY DEF Handler
<1>2. CASE RunCommand
  <2>1. lines' = lines /\ cmds # <<>> /\ cmds' = Tail(cmds)
    BY <1>2 DEF RunCommand
  <2>2. LineEnd' = LineEnd /\ (InCsi' <=> InCsi)
    BY <1>1 DEF LineEnd, InCsi, buffer, NoCsi
  <2>3. Waiting' = Waiting /\ Visible' = Visible /\ Escaped' = Escaped
    BY <1>1, <2>2 DEF Waiting, Visible, Escaped, buffer
  <2> QED
    BY <2>1, <2>3 DEF Terminal!Run, Waiting, Visible, Escaped
<1>3. CASE StartHandler \/ EndHandler
  <2>1. lines' = lines /\ cmds' = cmds
    BY <1>3 DEF StartHandler, EndHandler, queue
  <2> QED
    BY <1>1, <2>1, Stutters
<1> QED
  BY <1>2, <1>3 DEF Handler

(* The restart finds nothing that waits.                                   *)
LEMMA RebootRestarts ==
  ASSUME IInv, Reboot
  PROVE  Terminal!Restart
<1>1. /\ left = 0 /\ ~handling /\ REBOOT \in tasks
      /\ lines' = lines /\ cmds' = <<>> /\ idx' = 0 /\ left' = 0 /\ csi' = NoCsi
  BY DEF Reboot, RebootProcessor, Idle, NextTask
<1>2. cmds = <<>> /\ Waiting = <<>>
  BY <1>1, Parts DEF IInv, TaskInv
<1>3. ~InCsi' /\ LineEnd' = 0
  BY <1>1 DEF InCsi, LineEnd, NoCsi
<1>4. Waiting' = <<>> /\ Visible' = <<>> /\ Escaped' = 0
  BY <1>1, <1>3 DEF Waiting, Visible, Escaped
<1> QED
  BY <1>1, <1>2, <1>4 DEF Terminal!Restart, Waiting, Visible, Escaped

(* Every step is a step of the terminal, or leaves it alone.               *)
LEMMA StepMaps ==
  ASSUME IInv, IInv', [Next]_vars
  PROVE  [Terminal!Next]_(Terminal!vars)
<1>1. InputInv /\ QueueInv
  BY DEF IInv
<1>2. CASE Receive
  BY <1>2, Stutters DEF Receive, queue
<1>3. CASE StartRead \/ StartReadOffline
  BY <1>3, ReadReceives DEF Terminal!Next
<1>4. CASE ScanCsiEnd
  BY <1>1, <1>4, CsiEnds DEF Terminal!Next
<1>5. CASE ScanCsi
  BY <1>1, <1>5, CsiContinues DEF Terminal!Next
<1>6. CASE ScanEscape
  BY <1>1, <1>6, EscapeBegins DEF Terminal!Next
<1>7. CASE ScanBackspace
  BY <1>1, <1>7, BackspaceErases DEF Terminal!Next
<1>8. CASE ScanLeadingBackspace
  BY <1>1, <1>8, BackspaceLoses DEF Terminal!Next
<1>9. CASE ScanNewline
  BY <1>1, <1>9, NewlineEnters DEF Terminal!Next
<1>10. CASE ScanCharacter
  BY <1>1, <1>10, CharacterShows DEF Terminal!Next
<1>11. CASE Handler
  BY <1>11, HandlerMaps DEF Terminal!Next
<1>12. CASE Prompt
  BY <1>12, Stutters DEF Prompt, SendPrompt, queue
<1>13. CASE Reboot
  BY <1>13, RebootRestarts DEF Terminal!Next
<1>14. CASE UNCHANGED vars
  BY <1>14, Stutters DEF vars, queue
<1> QED
  BY <1>2, <1>3, <1>4, <1>5, <1>6, <1>7, <1>8, <1>9, <1>10, <1>11, <1>12, <1>13, <1>14
  DEF Next, Thread

(* The buffer that is edited in place, the queue and its task are, for the *)
(* user, a terminal with one line: what was typed and edited is what is    *)
(* parsed, and what was accepted runs once, in order, before a restart.    *)
THEOREM ImplementsTheTerminal == Spec => ImplementsTerminal
<1>1. Init => Terminal!Init
  <2> SUFFICES ASSUME Init PROVE Terminal!Init
    OBVIOUS
  <2>1. left = 0 /\ idx = 0 /\ csi = NoCsi /\ cmds = <<>> /\ lines = 0
    BY DEF Init, ProcessorInit
  <2>2. ~InCsi /\ LineEnd = 0
    BY <2>1 DEF InCsi, LineEnd
  <2>3. Waiting = <<>> /\ Visible = <<>> /\ Escaped = 0
    BY <2>1, <2>2 DEF Waiting, Visible, Escaped
  <2> QED
    BY <2>1, <2>3 DEF Terminal!Init, Waiting, Visible, Escaped
<1>2. IInv /\ IInv' /\ [Next]_vars => [Terminal!Next]_(Terminal!vars)
  BY StepMaps
<1> QED
  BY <1>1, <1>2, Invariant, PTL DEF Spec, ImplementsTerminal, Terminal!Spec
=============================================================================
