-------------------------- MODULE CommandProcessor --------------------------
(***************************************************************************)
(* The command parser, the command queue and the task that runs commands:  *)
(* command_parser.c as far as it allocates and fails, and                  *)
(* command_processor.c 107-181.  The queue is a RingBuffer; RingBuffer     *)
(* proves that it is a sequence of at most Length - 1 elements.            *)
(*                                                                         *)
(* All of it runs in the thread of the tasks.  A command is its line and   *)
(* its place in the line; its arguments and the effect of its handler are  *)
(* left out, except whether the handler answers OK or NAK.                 *)
(***************************************************************************)
EXTENDS TerminalBytes, FirmwareTasks

CONSTANT Capacity  (* PIXELKEY_COMMAND_BUFFER_LENGTH - 1                   *)

ASSUME ProcessorConstants == Capacity \in Nat \ {0}

VARIABLES
  cmds,      (* cmd_buffer, oldest first                                   *)
  live,      (* the commands that are allocated                            *)
  nodes,     (* the list nodes that are allocated                          *)
  lines,     (* history: the lines that became commands                    *)
  tasks,     (* queued_tasks, the command tasks of it                      *)
  handling,  (* pixelkey_commandproc_task is in its loop                   *)
  nakLine    (* history: the line whose command has last answered NAK,     *)
             (* while commands of that line wait, else 0                   *)

queue == <<cmds, live, nodes, lines, nakLine>>

ProcessorInit ==
  /\ cmds = <<>> /\ live = {} /\ nodes = 0 /\ lines = 0
  /\ tasks = {} /\ handling = FALSE /\ nakLine = 0

-----------------------------------------------------------------------------
(* pixelkey_command_parse fails: the text is no command, or an allocation  *)
(* fails, which it always may: the heap is shared with keyframes.  What    *)
(* was allocated is freed.  Prompt is the task that the scan queues after  *)
(* the line, if any.  What the parser does to the bytes of the buffer,     *)
(* this way or the other, is in CommandReception!ScanNewline.              *)
ParseFails(prompt) == tasks' = tasks \cup prompt /\ UNCHANGED queue

(* The commands that pixelkey_cmd_list_free frees when the push of command *)
(* n + 1 was refused.  (Mutant: all but that one.)                         *)
Freed_AfterRefused(list, n) == {list[k] : k \in n + 2 .. Len(list)}

Freed(list, n) == {list[k] : k \in n + 1 .. Len(list)}

(* Mutants: the other task flags are lost; a line cut short is not run.    *)
Pushed_Assigned(list, n) == IF n > 0 THEN {CMD_HANDLER} ELSE tasks

Pushed_LastOnly(list, n) == IF n = Len(list) THEN tasks \cup {CMD_HANDLER} ELSE tasks

(* The task flags after n commands of a line were pushed. *)
Pushed(list, n) == IF n > 0 THEN tasks \cup {CMD_HANDLER} ELSE tasks

(* The parsed commands are pushed until the queue is full.  The nodes of   *)
(* those that were pushed stay allocated.                                  *)
ParseAndPush(text, prompt) ==
  LET list == [k \in 1 .. Len(text) |-> [line |-> lines + 1, pos |-> k]]
      room == Capacity - Len(cmds)
      n    == IF Len(list) < room THEN Len(list) ELSE room
  IN  /\ WellFormed(text)
      /\ cmds' = cmds \o SubSeq(list, 1, n)
      /\ live' = (live \cup {list[k] : k \in 1 .. Len(list)}) \ Freed(list, n)
      /\ nodes' = nodes + n
      /\ lines' = lines + 1
      /\ tasks' = Pushed(list, n) \cup prompt
      /\ UNCHANGED nakLine

-----------------------------------------------------------------------------
(* The first queued task, which the thread runs next (TaskManager). *)
NextTask(t) == t \in tasks /\ \A other \in tasks : t <= other

StartHandler ==
  /\ NextTask(CMD_HANDLER)
  /\ tasks' = tasks \ {CMD_HANDLER}
  /\ handling' = TRUE
  /\ UNCHANGED queue

(* One turn of the loop: pop, the handler, pixelkey_cmd_free.  The handler *)
(* of $reboot queues a task.                                               *)
RunCommand ==
  /\ handling /\ cmds # <<>>
  /\ cmds' = Tail(cmds)
  /\ live' = live \ {Head(cmds)}
  /\ \E nak \in BOOLEAN :
       nakLine' = IF /\ nak \/ nakLine = Head(cmds).line
                     /\ \E k \in 2 .. Len(cmds) : cmds[k].line = Head(cmds).line
                  THEN Head(cmds).line ELSE 0
  /\ \E reboot \in {{}, {REBOOT}} : tasks' = tasks \cup reboot
  /\ UNCHANGED <<nodes, lines, handling>>

EndHandler ==
  /\ handling /\ cmds = <<>>
  /\ handling' = FALSE
  /\ UNCHANGED queue /\ UNCHANGED tasks

(* pixelkey_commandproc_send_prompt. *)
SendPrompt_Early ==
  /\ CMD_PROMPT \in tasks
  /\ tasks' = tasks \ {CMD_PROMPT}
  /\ UNCHANGED queue /\ UNCHANGED handling

SendPrompt ==
  /\ NextTask(CMD_PROMPT)
  /\ tasks' = tasks \ {CMD_PROMPT}
  /\ UNCHANGED queue /\ UNCHANGED handling

(* pixelkey_reboot: the firmware starts again. *)
RebootProcessor ==
  /\ NextTask(REBOOT)
  /\ cmds' = <<>> /\ live' = {} /\ nodes' = 0 /\ nakLine' = 0
  /\ tasks' = {} /\ handling' = FALSE
  /\ UNCHANGED lines
=============================================================================
