-------------------------- MODULE CommandReception --------------------------
(***************************************************************************)
(* The task CMD_RX of tasks.c: it reads what the serial interface received *)
(* into the input buffer, behind the unfinished line, scans it byte by     *)
(* byte and edits the buffer in place.  A new-line gives the buffer to the *)
(* parser and the command queue of CommandProcessor.                       *)
(*                                                                         *)
(* The scan echoes and flushes, so the serial interface can receive at any *)
(* step of it (UsbSerial); the other tasks run between the tasks.          *)
(***************************************************************************)
EXTENDS CommandProcessor, FiniteSets

CONSTANTS
  BufferLength,  (* PIXELKEY_INPUT_COMMAND_BUFFER_LENGTH                   *)
  PacketLength,  (* USB_BUFFER_LENGTH, the most bytes of one read          *)
  MaxBytes,      (* bound on the bytes that the host sends                 *)
  MaxOffline     (* bound on the reads while offline                       *)

ASSUME ReceptionConstants ==
  /\ BufferLength \in Nat \ {0} /\ PacketLength \in Nat \ {0}
  /\ MaxBytes \in Nat /\ MaxOffline \in Nat

Cells == 0 .. BufferLength - 1

VARIABLES
  rx,       (* the bytes of rx_buffer that rx_length counts                *)
  buf,      (* input_buffer                                                *)
  idx,      (* input_buffer_idx                                            *)
  left,     (* i, the bytes left to scan; the task runs while it is > 0    *)
  csi,      (* csi_start, BufferLength standing for -1                     *)
  sent,     (* history: the bytes the host has sent                        *)
  offline,  (* history: the reads while offline                            *)
  cut       (* history: a read met too little room, or was offline         *)

buffer == <<buf, idx, left, csi>>
vars == <<queue, tasks, handling, rx, buffer, sent, offline, cut>>

NoCsi == BufferLength

Init ==
  /\ ProcessorInit
  /\ rx = <<>> /\ buf = [c \in Cells |-> NUL]
  /\ idx = 0 /\ left = 0 /\ csi = NoCsi
  /\ sent = 0 /\ offline = 0 /\ cut = FALSE

-----------------------------------------------------------------------------
(* rx_end: a packet arrives.  A read is started only with rx_length 0. *)
Receive ==
  /\ rx = <<>>
  /\ \E n \in 1 .. PacketLength :
       /\ sent + n <= MaxBytes
       /\ sent' = sent + n
       /\ rx' \in [1 .. n -> Typed]
  /\ tasks' = tasks \cup {CMD_RX}
  /\ UNCHANGED <<queue, handling, buffer, offline, cut>>

Idle == left = 0 /\ ~handling

Room_OneMore == BufferLength + 1 - idx

Room == BufferLength - idx

(* serial()->read into the rest of the buffer.  After a read of a part of  *)
(* them the first bytes of rx_buffer are those that would be read next.    *)
Read_Whole == Len(rx)

Read_Length == IF Len(rx) < Room THEN Len(rx) ELSE Room

StartRead ==
  /\ Idle /\ NextTask(CMD_RX)
  /\ tasks' = tasks \ {CMD_RX}
  /\ LET n == Read_Length IN
       /\ buf' = [c \in Cells |-> IF c \in idx .. idx + n - 1 THEN rx[c - idx + 1] ELSE buf[c]]
       /\ left' = n
       /\ rx' = SubSeq(rx, 1, Len(rx) - n)
       /\ cut' = (cut \/ n < Len(rx))
  /\ UNCHANGED <<queue, handling, idx, csi, sent, offline>>

(* The interface went offline in the meantime: the read answers an error   *)
(* that is not looked at, and the length stays that of the room.           *)
StartReadOffline ==
  /\ Idle /\ NextTask(CMD_RX) /\ offline < MaxOffline
  /\ tasks' = tasks \ {CMD_RX}
  /\ left' = Room
  /\ offline' = offline + 1 /\ cut' = TRUE
  /\ UNCHANGED <<queue, handling, rx, buf, idx, csi, sent>>
-----------------------------------------------------------------------------
(* The turns of the scan.  Byte is the one at input_buffer_idx. *)
Scan(byte) == left > 0 /\ buf[idx] = byte /\ left' = left - 1

InCsi == csi # NoCsi

(* The cells after n bytes were moved down from cell `from' to cell `to'.  *)
(* A byte behind the buffer is whatever variable lies there.               *)
Moved(cells, to, from, n, behind) ==
  [c \in Cells |-> IF c \in to .. to + n - 1
                   THEN IF from + c - to \in Cells THEN cells[from + c - to] ELSE behind
                   ELSE cells[c]]

(* The end of an escape sequence: it is cut out of the buffer. *)
ScanCsiEnd ==
  /\ \E byte \in Bytes : Scan(byte) /\ InCsi /\ EndsSequence(idx - csi, byte)
  /\ buf' = Moved(buf, csi, idx + 1, left - 1, NUL)
  /\ idx' = csi /\ csi' = NoCsi
  /\ UNCHANGED <<queue, tasks, handling, rx, sent, offline, cut>>

ScanCsi ==
  /\ \E byte \in Bytes : Scan(byte) /\ InCsi /\ ~EndsSequence(idx - csi, byte)
  /\ idx' = idx + 1
  /\ UNCHANGED <<queue, tasks, handling, rx, buf, csi, sent, offline, cut>>

ScanEscape ==
  /\ ~InCsi /\ Scan(ESC)
  /\ csi' = idx /\ idx' = idx + 1
  /\ UNCHANGED <<queue, tasks, handling, rx, buf, sent, offline, cut>>

ScanBackspace_ShiftByOne ==
  /\ ~InCsi /\ Scan(BS) /\ idx > 0
  /\ idx' = idx - 1
  /\ buf' = Moved(buf, idx - 1, idx, left - 1, NUL)
  /\ UNCHANGED <<queue, tasks, handling, rx, csi, sent, offline, cut>>

(* A backspace, and the byte before it, are cut out of the buffer. *)
ScanBackspace ==
  /\ ~InCsi /\ Scan(BS) /\ idx > 0
  /\ idx' = idx - 1
  /\ buf' = Moved(buf, idx - 1, idx + 1, left - 1, NUL)
  /\ UNCHANGED <<queue, tasks, handling, rx, csi, sent, offline, cut>>

(* A backspace at the start: the next turn compares it again. *)
ScanLeadingBackspace ==
  /\ ~InCsi /\ Scan(BS) /\ idx = 0
  /\ UNCHANGED <<queue, tasks, handling, rx, buf, idx, csi, sent, offline, cut>>

(* The line, as the parser sees it: NUL has replaced the new-line. *)
Text == [buf EXCEPT ![idx] = NUL]

Line == CString([k \in 1 .. idx |-> buf[k - 1]])

(* The cells in which a keyframe command that ends the line finds its      *)
(* arguments: from behind its NUL to the next one.                         *)
Behind ==
  LET from == IF Line[Len(Line)] = Name THEN Len(Line) + 1 ELSE Len(Line)
  IN  {c \in Cells : c >= from /\ \A d \in from .. c : Text[d] # NUL /\ (d < c => Text[d] # Cut)}

(* There is a first argument: the command's own behind a Cut, a Digit      *)
(* behind white space, or whatever lies behind the buffer.                 *)
FindsArgument ==
  \/ Line[Len(Line)] = Cut
  \/ \E c \in Behind : Text[c] = Digit /\ \A d \in Behind : d < c => Text[d] = NL
  \/ Len(Line) + 1 .. BufferLength - 1 \subseteq {c \in Behind : Text[c] = NL}

(* Where the parser may have put NULs: into the commands that it reached,  *)
(* from the first on, and into those that it took for arguments, the first *)
(* word of which decides whether more are read.  (What lies behind the     *)
(* buffer may be cut as well; it is not modelled.)                         *)
Reached ==
  {r \in SUBSET Cells : \A c \in r : c < Len(Line) /\ \A d \in 0 .. c : d \in r /\ Text[d] = Letter}

TakenAsArguments ==
  IF ~LooksBehind(Line) THEN {{}}
  ELSE {a \in SUBSET {c \in Behind : Text[c] = Letter} : FindsArgument \/ Cardinality(a) <= 1}

Parsed(cells) == [c \in Cells |-> IF c \in cells THEN Cut ELSE Text[c]]

(* A new-line: the line is parsed and its commands are pushed; then what   *)
(* is behind it, and one byte more, is moved to the start of the buffer.   *)
(* The prompt is asked for when the new-line ends the read and RTS is set. *)
ScanNewline ==
  /\ ~InCsi /\ Scan(NL)
  /\ \E prompt \in IF left = 1 THEN {{}, {CMD_PROMPT}} ELSE {{}} :
       \/ ParseFails(prompt)
       \/ (LooksBehind(Line) => FindsArgument) /\ ParseAndPush(Line, prompt)
  /\ \E reached \in Reached, taken \in TakenAsArguments,
        behind \in IF idx + left = BufferLength THEN Bytes ELSE {NUL} :
       buf' = Moved(Parsed(reached \cup taken), 0, idx + 1, left, behind)
  /\ idx' = 0
  /\ UNCHANGED <<handling, rx, csi, sent, offline, cut>>

(* Any other byte belongs to the line. *)
ScanCharacter ==
  /\ ~InCsi /\ \E byte \in Bytes \ {ESC, BS, NL} : Scan(byte)
  /\ idx' = idx + 1
  /\ UNCHANGED <<queue, tasks, handling, rx, buf, csi, sent, offline, cut>>

-----------------------------------------------------------------------------
(* The tasks of the command processor, which leave the input alone. *)
Handler ==
  /\ \/ Idle /\ StartHandler
     \/ RunCommand
     \/ EndHandler
  /\ UNCHANGED <<rx, buffer, sent, offline, cut>>

Prompt ==
  /\ Idle /\ SendPrompt
  /\ UNCHANGED <<rx, buffer, sent, offline, cut>>

Reboot ==
  /\ Idle /\ RebootProcessor
  /\ rx' = <<>> /\ buf' = [c \in Cells |-> NUL]
  /\ idx' = 0 /\ left' = 0 /\ csi' = NoCsi /\ cut' = FALSE
  /\ UNCHANGED <<sent, offline>>

Thread ==
  \/ StartRead \/ StartReadOffline
  \/ ScanCsiEnd \/ ScanCsi \/ ScanEscape \/ ScanBackspace \/ ScanLeadingBackspace
  \/ ScanNewline \/ ScanCharacter
  \/ Handler \/ Prompt \/ Reboot

Next == Receive \/ Thread

(* The thread never stops between tasks (TaskManager!WorkConserving).  It  *)
(* is assumed to come back from the flushes of the echo and of the answers *)
(* as well, which hal_usb.c 118 does not promise when the link is lost:    *)
(* UsbSerial shows when a flush returns.                                   *)
Spec == Init /\ [][Next]_vars /\ WF_vars(Thread)

-----------------------------------------------------------------------------
TypeOK ==
  /\ rx \in Seq(Typed) /\ Len(rx) <= PacketLength
  /\ buf \in [Cells -> Bytes]
  /\ idx \in 0 .. BufferLength /\ left \in 0 .. BufferLength /\ csi \in Cells \cup {NoCsi}
  /\ sent \in 0 .. MaxBytes /\ offline \in 0 .. MaxOffline /\ cut \in BOOLEAN
  /\ cmds \in Seq([line : Nat \ {0}, pos : 1 .. BufferLength])
  /\ nodes \in Nat /\ lines \in Nat /\ nakLine \in Nat
  /\ tasks \subseteq {REBOOT, CMD_RX, CMD_HANDLER, CMD_PROMPT} /\ handling \in BOOLEAN

(* However the line is edited, the bytes left to scan lie in the buffer,   *)
(* an escape sequence begins before the index, and the scan never runs     *)
(* inside the handler's loop: no turn of the scan reads or writes outside  *)
(* input_buffer (but for the byte behind it that a new-line moves).        *)
ScanInBounds ==
  /\ idx + left <= BufferLength
  /\ InCsi => csi < idx
  /\ left > 0 => ~handling

(* The commands that are allocated are those that wait in the queue, each  *)
(* once, also when a line met a full queue: none is lost and none that was *)
(* freed will be run.                                                      *)
CommandsOwned ==
  /\ live = {cmds[k] : k \in 1 .. Len(cmds)}
  /\ Cardinality(live) = Len(cmds)
  /\ Len(cmds) <= Capacity

(* The prompt appears when the commands typed before it have answered. *)
PromptAfterCommands ==
  [][(CMD_PROMPT \in tasks \ tasks') => cmds = <<>> /\ ~handling]_vars

(* The buffer, which is edited in place, is the line of CommandTerminal    *)
(* followed by the bytes that wait: what the parser gets is what was typed *)
(* and edited, but for the bytes that an earlier line, without arguments   *)
(* at its end, took for them; and what runs is what it accepted.           *)
LineEnd == IF InCsi THEN csi ELSE idx

Terminal == INSTANCE CommandTerminal WITH
  waiting <- [k \in 1 .. left |-> buf[idx + k - 1]],
  line    <- [k \in 1 .. LineEnd |-> buf[k - 1]],
  escape  <- IF InCsi THEN idx - csi ELSE 0,
  pending <- cmds

ImplementsTerminal == Terminal!Spec

(* Received bytes are read in the end, if no read was cut short and if the *)
(* flushes return.                                                         *)
InputRead == rx # <<>> ~> rx = <<>> \/ cut

(* Queued commands run in the end, if the flushes return. *)
CommandsRun == cmds # <<>> ~> cmds = <<>>

(* README.md: `For errors, it will reply with <error code> NAK and halt    *)
(* executing any following commands in that sequence.'  No command runs    *)
(* after one of its line has answered NAK.                                 *)
ErrorHaltsSequence ==
  [][(cmds # <<>> /\ cmds' = Tail(cmds)) => Head(cmds).line # nakLine]_vars
=============================================================================
