--------------------------- MODULE TerminalBytes ---------------------------
(***************************************************************************)
(* The bytes of the command reception in tasks.c, by the class that the    *)
(* scan and the parser tell apart.  A Letter stands for a whole command of *)
(* a line with its argument and semi-colon, a Name for a keyframe command  *)
(* without argument or semi-colon, a Digit for a text that is no command   *)
(* but an argument of one.  Commands begin in the column of the final      *)
(* bytes of escape sequences, a Digit does not.                            *)
(*                                                                         *)
(* The parser works in place: it writes NULs between the words it reads.   *)
(* A Cut is a command with such a NUL behind its name.                     *)
(***************************************************************************)
EXTENDS Naturals, Sequences

CONSTANTS Letter, Name, Digit, Cut, ESC, BS, NL, NUL

Typed == {Letter, Name, Digit, ESC, BS, NL}
Bytes == Typed \cup {Cut, NUL}

ASSUME BytesDiffer ==
  /\ Letter \notin {Name, Digit, Cut, ESC, BS, NL, NUL}
  /\ Name \notin {Digit, Cut, ESC, BS, NL, NUL}
  /\ Digit \notin {Cut, ESC, BS, NL, NUL} /\ Cut \notin {ESC, BS, NL, NUL}
  /\ ESC \notin {BS, NL, NUL} /\ BS \notin {NL, NUL} /\ NL # NUL

(* CSI_CHAR_END_START: how far from the ESC a sequence may end. *)
CSI_CHAR_END_START == 2

(* The byte at this distance from the ESC ends the sequence. *)
EndsSequence(distance, byte) ==
  distance >= CSI_CHAR_END_START /\ byte \in {Letter, Name, Cut}

(* The string at the start of some bytes: up to the first NUL, which may   *)
(* be the one inside of a Cut.                                             *)
CString(bytes) ==
  LET ends == {k \in 1 .. Len(bytes) : bytes[k] \in {NUL, Cut}}
      last == CHOOSE k \in ends : \A j \in ends : k <= j
  IN  IF ends = {} THEN bytes
      ELSE SubSeq(bytes, 1, IF bytes[last] = Cut THEN last ELSE last - 1)

(* What the parser may take for one or more commands: only the last of     *)
(* them can be without argument or semi-colon.                             *)
WellFormed(text) ==
  /\ text # <<>>
  /\ \A k \in 1 .. Len(text) - 1 : text[k] = Letter
  /\ text[Len(text)] \in {Letter, Name, Cut}

(* The last command is a name with nothing behind it but a NUL: the parser *)
(* takes the bytes behind that NUL for its arguments.                      *)
LooksBehind(text) == WellFormed(text) /\ text[Len(text)] \in {Name, Cut}
=============================================================================
