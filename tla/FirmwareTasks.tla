--------------------------- MODULE FirmwareTasks ---------------------------
(***************************************************************************)
(* The task list of the firmware and which code queues which task: the     *)
(* values that hal_tasks.h, and the callers of tasks_queue, give to the    *)
(* parameters of TaskManager.                                              *)
(***************************************************************************)
EXTENDS Naturals

REBOOT             == 0
FRAME_TX           == 1
FRAME_RENDER       == 2
TERMINAL_CONNECTED == 3
CMD_RX             == 4
CMD_HANDLER        == 5
CMD_PROMPT         == 6
TASK_COUNT         == 7

(* hal_frame_timer_callback. *)
TimerTasks == {FRAME_TX}

(* pixelkey_reboot is declared __NO_RETURN. *)
NoReturnTasks == {REBOOT}

(* hal_usb_idle: a SET_CONTROL_LINE_STATE request and rx_end. *)
UsbIdleTasks == {TERMINAL_CONNECTED, CMD_RX}

(* Every task that writes or flushes the serial port may call hal_usb_idle *)
(* while it waits.                                                         *)
QueuedByTask ==
  [t \in 0 .. TASK_COUNT - 1 |->
     CASE t = FRAME_TX           -> {FRAME_RENDER}
       [] t = TERMINAL_CONNECTED -> UsbIdleTasks
       [] t = CMD_RX             -> UsbIdleTasks \cup {CMD_HANDLER, CMD_PROMPT}
       [] t = CMD_HANDLER        -> UsbIdleTasks \cup {REBOOT}
       [] t = CMD_PROMPT         -> UsbIdleTasks
       [] OTHER                  -> {}]
=============================================================================
