-------------------------- MODULE CommandTerminal --------------------------
(***************************************************************************)
(* What a user at the terminal gets from the command reception of tasks.c: *)
(* received bytes are applied to the line one at a time and in order; an   *)
(* escape sequence vanishes, a backspace takes back one byte, and at a     *)
(* new-line the visible line becomes commands, which run once each and in  *)
(* order; only then can the device be restarted by a command.              *)
(*                                                                         *)
(* Four weaknesses of the firmware are stated, so that it has no others:   *)
(* a backspace on an empty line throws away a byte that waits behind it, a *)
(* read while the interface is offline delivers bytes that nobody sent, a  *)
(* line may be refused for lack of memory, and a line that ends in a       *)
(* keyframe without arguments looks for them in the bytes that wait and    *)
(* may cut commands there.                                                 *)
(***************************************************************************)
EXTENDS TerminalBytes

CONSTANT Capacity  (* the most commands that wait                          *)

VARIABLES
  waiting,  (* received bytes that are not applied yet                     *)
  line,     (* the visible line                                            *)
  escape,   (* the bytes of an escape sequence, 0 outside one              *)
  lines,    (* the number of lines that became commands                    *)
  pending   (* the commands that wait, each [line, pos]                    *)

vars == <<waiting, line, escape, lines, pending>>

Init == waiting = <<>> /\ line = <<>> /\ escape = 0 /\ lines = 0 /\ pending = <<>>

Receive ==
  /\ waiting = <<>>
  /\ waiting' \in Seq(Bytes)
  /\ UNCHANGED <<line, escape, lines, pending>>

Now(byte) == waiting # <<>> /\ Head(waiting) = byte

Escape ==
  /\ Now(ESC) /\ escape = 0
  /\ waiting' = Tail(waiting) /\ escape' = 1
  /\ UNCHANGED <<line, lines, pending>>

InEscape ==
  /\ waiting # <<>> /\ escape > 0
  /\ waiting' = Tail(waiting)
  /\ escape' = IF EndsSequence(escape, Head(waiting)) THEN 0 ELSE escape + 1
  /\ UNCHANGED <<line, lines, pending>>

Erase ==
  /\ Now(BS) /\ escape = 0 /\ line # <<>>
  /\ waiting' = Tail(waiting)
  /\ line' = SubSeq(line, 1, Len(line) - 1)
  /\ UNCHANGED <<escape, lines, pending>>

(* The last byte that waits is thrown away, in the end the backspace. *)
EraseNothing ==
  /\ Now(BS) /\ escape = 0 /\ line = <<>>
  /\ waiting' = SubSeq(waiting, 1, Len(waiting) - 1)
  /\ UNCHANGED <<line, escape, lines, pending>>

Show ==
  /\ \E byte \in Bytes \ {ESC, BS, NL} : Now(byte) /\ line' = Append(line, byte)
  /\ escape = 0
  /\ waiting' = Tail(waiting)
  /\ UNCHANGED <<escape, lines, pending>>

(* Of the bytes, some commands are cut and nothing else is changed. *)
SomeCut(bytes, after) ==
  /\ Len(after) = Len(bytes)
  /\ \A k \in 1 .. Len(bytes) :
       after[k] = bytes[k] \/ (bytes[k] = Letter /\ after[k] = Cut)

(* As many commands of the line as there is room for, from the first on.   *)
Enter ==
  /\ Now(NL) /\ escape = 0
  /\ IF LooksBehind(CString(line)) THEN SomeCut(Tail(waiting), waiting')
                                   ELSE waiting' = Tail(waiting)
  /\ line' = <<>>
  /\ UNCHANGED escape
  /\ \/ UNCHANGED <<lines, pending>>
     \/ LET text == CString(line)
            room == Capacity - Len(pending)
            n    == IF Len(text) < room THEN Len(text) ELSE room
        IN  /\ WellFormed(text)
            /\ lines' = lines + 1
            /\ pending' = pending \o [k \in 1 .. n |-> [line |-> lines', pos |-> k]]

(* The next command runs. *)
Run ==
  /\ pending # <<>>
  /\ pending' = Tail(pending)
  /\ UNCHANGED <<waiting, line, escape, lines>>

(* The device starts again, when all that was accepted has run. *)
Restart ==
  /\ waiting = <<>> /\ pending = <<>>
  /\ line' = <<>> /\ escape' = 0
  /\ UNCHANGED <<waiting, lines, pending>>

Next ==
  \/ Receive \/ Escape \/ InEscape \/ Erase \/ EraseNothing
  \/ Show \/ Enter \/ Run \/ Restart

Spec == Init /\ [][Next]_vars
=============================================================================
