------------------------------ MODULE UsbSerial ------------------------------
(***************************************************************************)
(* The serial interface over USB of hal_usb.c, and the part of the USB     *)
(* driver (r_usb_basic, r_usb_pcdc) that it polls.                         *)
(*                                                                         *)
(* hal_usb_idle() takes one event of the driver and acts on it; with no    *)
(* event and op_state ONLINE it starts a transfer.  It is called by the    *)
(* idle function, and again and again by usb_serial_write() and            *)
(* usb_serial_flush() inside a task, until a condition holds.  The driver  *)
(* handles one bus interrupt when it is polled, so an action of the host   *)
(* is one step, taken when the driver handles its interrupt.               *)
(*                                                                         *)
(* Data is abstracted to lengths.  The bytes in tx_buffer keep their order *)
(* and a transfer always carries the first ones, so two counts say what    *)
(* became of them: got, the bytes of the buffer the host has received, and *)
(* cut, those of a transfer that unplugging has stopped.                   *)
(***************************************************************************)
EXTENDS Naturals, Sequences

CONSTANTS
  BufferLength,  (* USB_BUFFER_LENGTH                                      *)
  LineStates,    (* the line states the host sets, sets of "DTR" and "RTS" *)
  EventMax       (* bound on the events that wait in the driver            *)

ASSUME SerialConstants ==
  /\ BufferLength \in Nat \ {0} /\ EventMax \in Nat
  /\ LineStates \subseteq SUBSET {"DTR", "RTS"}

Length == 0 .. BufferLength

VARIABLES
  op_state,      (* the state of the serial interface                      *)
  tx_length,     (* bytes in tx_buffer                                     *)
  rx_length,     (* bytes in rx_buffer                                     *)
  line_state,    (* the set of line signals the host has raised            *)
  queued,        (* tasks that hal_usb_idle has queued                     *)
  pc,            (* the thread: "tasks", or inside "write" or "flush"      *)
  write_length,  (* the argument of the write                              *)
  link,          (* the bus: "powered", "configured", "suspended" or, when *)
                 (* a connected device has been reset, "default"           *)
  pipeIn,        (* bytes of the write transfer in progress, or 0          *)
  pipeOut,       (* a read transfer is in progress                         *)
  control,       (* the control transfer with data: "idle", "setup" until  *)
                 (* the application answers it, "data" until it ends       *)
  events,        (* g_usb_cstd_event: the events not yet taken             *)
  got, cut       (* history of the bytes in tx_buffer                      *)

serial == <<op_state, tx_length, rx_length, line_state>>
thread == <<pc, write_length>>
driver == <<link, pipeIn, pipeOut, control>>
vars   == <<serial, queued, thread, driver, events, got, cut>>

States == {"OFFLINE", "ONLINE", "CONTROL_SEQUENCE", "READ", "WRITE"}
Tasks  == {"TERMINAL_CONNECTED", "CMD_RX"}
Codes  == {"CONFIGURED", "DETACH", "SUSPEND", "RESUME", "READ_COMPLETE",
           "WRITE_COMPLETE", "REQUEST", "DATA_REQUEST", "REQUEST_COMPLETE"}

(* An event and its information: the length of a read, the line state that *)
(* SET_CONTROL_LINE_STATE carries.  DATA_REQUEST is a request with a data  *)
(* stage (the line coding ones).                                           *)
EventType == [code : Codes, size : Length, line : LineStates \cup {{}}]
Event(c)  == [code |-> c, size |-> 0, line |-> {}]
Read(n)   == [code |-> "READ_COMPLETE", size |-> n, line |-> {}]
SetLine(s) == [code |-> "REQUEST", size |-> 0, line |-> s]

Init ==
  /\ op_state = "OFFLINE" /\ tx_length = 0 /\ rx_length = 0 /\ line_state = {}
  /\ queued = {} /\ pc = "tasks" /\ write_length = 0
  /\ link = "powered" /\ pipeIn = 0 /\ pipeOut = FALSE /\ control = "idle"
  /\ events = <<>> /\ got = 0 /\ cut = 0

(***************************************************************************)
(* The driver and the host.                                                *)
(***************************************************************************)

Raise(list) ==
  /\ Len(events) + Len(list) <= EventMax
  /\ events' = events \o list

(* g_usb_peri_connected: set when the host has selected the configuration, *)
(* cleared by a detach and by a bus reset.                                 *)
Connected == link \in {"configured", "suspended"}

(* The host selects the configuration; the pipes are set up afresh, and a  *)
(* transfer of before a bus reset is forgotten without an event.           *)
Configure ==
  /\ link \in {"powered", "default"}
  /\ link' = "configured" /\ pipeIn' = 0 /\ pipeOut' = FALSE
  /\ Raise(<<Event("CONFIGURED")>>)
  /\ UNCHANGED <<serial, thread, queued, control, got, cut>>

(* A bus reset of a connected device ends the connection: the driver's     *)
(* device-default callback detaches it, with its event.  The pipes are     *)
(* left alone, but what still completes on them is no longer reported.     *)
BusReset ==
  /\ Connected
  /\ link' = "default" /\ control' = "idle"
  /\ Raise(<<Event("DETACH")>>)
  /\ UNCHANGED <<serial, thread, queued, pipeIn, pipeOut, got, cut>>

Suspend ==
  /\ link = "configured" /\ link' = "suspended"
  /\ Raise(<<Event("SUSPEND")>>)
  /\ UNCHANGED <<serial, thread, queued, pipeIn, pipeOut, control, got, cut>>

Resume ==
  /\ link = "suspended" /\ link' = "configured"
  /\ Raise(<<Event("RESUME")>>)
  /\ UNCHANGED <<serial, thread, queued, pipeIn, pipeOut, control, got, cut>>

(* The cable is unplugged: every transfer in progress ends at once, each   *)
(* with its completion event, a read with no data.                         *)
Detach ==
  /\ Connected /\ link' = "powered"
  /\ pipeIn' = 0 /\ pipeOut' = FALSE /\ control' = "idle"
  /\ cut' = IF pipeIn > 0 THEN pipeIn ELSE cut
  /\ Raise((IF pipeIn > 0 THEN <<Event("WRITE_COMPLETE")>> ELSE <<>>)
           \o (IF pipeOut THEN <<Read(0)>> ELSE <<>>)
           \o <<Event("DETACH")>>)
  /\ UNCHANGED <<serial, thread, queued, got>>

(* The cable is unplugged after a bus reset: the device counts as detached *)
(* already, and neither the transfers nor the detach raise an event.       *)
DetachReset ==
  /\ link = "default" /\ link' = "powered"
  /\ pipeIn' = 0 /\ pipeOut' = FALSE /\ control' = "idle"
  /\ UNCHANGED <<serial, thread, queued, events, got, cut>>

(* The host reads the data of the write transfer. *)
HostReads ==
  /\ link = "configured" /\ pipeIn > 0
  /\ pipeIn' = 0 /\ got' = IF pipeIn > got THEN pipeIn ELSE got
  /\ Raise(<<Event("WRITE_COMPLETE")>>)
  /\ UNCHANGED <<serial, thread, queued, link, pipeOut, control, cut>>

(* The host sends n bytes, which the driver puts into rx_buffer. *)
HostWrites(n) ==
  /\ link = "configured" /\ pipeOut /\ pipeOut' = FALSE
  /\ Raise(<<Read(n)>>)
  /\ UNCHANGED <<serial, thread, queued, link, pipeIn, control, got, cut>>

(* SET_CONTROL_LINE_STATE has no data stage: the driver answers it without *)
(* the application and raises one event, the request; never that it is     *)
(* complete.                                                               *)
HostSetsLine(s) ==
  /\ link = "configured" /\ control = "idle"
  /\ Raise(<<SetLine(s)>>)
  /\ UNCHANGED <<serial, thread, queued, driver, got, cut>>

(* SET_LINE_CODING and GET_LINE_CODING wait for the application's answer.  *)
HostRequests ==
  /\ link = "configured" /\ control = "idle" /\ control' = "setup"
  /\ Raise(<<Event("DATA_REQUEST")>>)
  /\ UNCHANGED <<serial, thread, queued, link, pipeIn, pipeOut, got, cut>>

HostEndsRequest ==
  /\ link = "configured" /\ control = "data" /\ control' = "idle"
  /\ Raise(<<Event("REQUEST_COMPLETE")>>)
  /\ UNCHANGED <<serial, thread, queued, link, pipeIn, pipeOut, got, cut>>

Host ==
  \/ Configure \/ BusReset \/ Suspend \/ Resume
  \/ Detach \/ DetachReset
  \/ HostReads \/ HostRequests \/ HostEndsRequest
  \/ \E n \in Length \ {0} : HostWrites(n)
  \/ \E s \in LineStates : HostSetsLine(s)

(***************************************************************************)
(* hal_usb_idle.                                                           *)
(***************************************************************************)

Take(codes) ==
  /\ events # <<>> /\ Head(events).code \in codes
  /\ events' = Tail(events)

(* READ_COMPLETE: rx_end. *)
RxEnd ==
  /\ Take({"READ_COMPLETE"}) /\ op_state' = "ONLINE"
  /\ IF Head(events).size # 0
     THEN rx_length' = Head(events).size /\ queued' = queued \cup {"CMD_RX"}
     ELSE UNCHANGED <<rx_length, queued>>
  /\ UNCHANGED <<tx_length, line_state, driver, got, cut>>

TxEnd_Always ==
  /\ Take({"WRITE_COMPLETE"})
  /\ tx_length' = 0 /\ op_state' = "ONLINE" /\ got' = 0 /\ cut' = 0
  /\ UNCHANGED <<rx_length, line_state, queued, driver>>

TxEnd_KeepsState ==
  /\ Take({"WRITE_COMPLETE"})
  /\ IF op_state = "WRITE" THEN tx_length' = 0 /\ got' = 0 /\ cut' = 0
     ELSE UNCHANGED <<tx_length, got, cut>>
  /\ UNCHANGED <<op_state, rx_length, line_state, queued, driver>>

(* WRITE_COMPLETE: tx_end, which does not look at how the transfer ended.  *)
TxEnd ==
  /\ Take({"WRITE_COMPLETE"})
  /\ IF op_state = "WRITE"
     THEN tx_length' = 0 /\ op_state' = "ONLINE" /\ got' = 0 /\ cut' = 0
     ELSE UNCHANGED <<tx_length, op_state, got, cut>>
  /\ UNCHANGED <<rx_length, line_state, queued, driver>>

SetControlLineState ==
  /\ Take({"REQUEST"}) /\ op_state' = "CONTROL_SEQUENCE"
  /\ line_state' = Head(events).line
  /\ queued' = IF "DTR" \notin line_state /\ {"DTR", "RTS"} \subseteq line_state'
               THEN queued \cup {"TERMINAL_CONNECTED"} ELSE queued
  /\ UNCHANGED <<tx_length, rx_length, driver, got, cut>>

(* The line coding is exchanged; on a link that is no longer configured    *)
(* the driver refuses.                                                     *)
LineCoding ==
  /\ Take({"DATA_REQUEST"}) /\ op_state' = "CONTROL_SEQUENCE"
  /\ control' = IF link = "configured" /\ control = "setup" THEN "data" ELSE control
  /\ UNCHANGED <<tx_length, rx_length, line_state, queued,
                 link, pipeIn, pipeOut, got, cut>>

GoOnline ==
  /\ Take({"CONFIGURED", "REQUEST_COMPLETE"}) /\ op_state' = "ONLINE"
  /\ UNCHANGED <<tx_length, rx_length, line_state, queued, driver, got, cut>>

GoOffline_KeepsWrite ==
  /\ Take({"DETACH", "SUSPEND"})
  /\ op_state' = IF op_state = "WRITE" THEN "WRITE" ELSE "OFFLINE"
  /\ UNCHANGED <<tx_length, rx_length, line_state, queued, driver, got, cut>>

GoOffline ==
  /\ Take({"DETACH", "SUSPEND"}) /\ op_state' = "OFFLINE"
  /\ UNCHANGED <<tx_length, rx_length, line_state, queued, driver, got, cut>>

(* The switch has no case for RESUME. *)
Ignore ==
  /\ Take({"RESUME"})
  /\ UNCHANGED <<serial, queued, driver, got, cut>>

(* No event: tx_start, which fails when the pipe is busy or the link not   *)
(* configured, and then rx_start.                                          *)
CanSend == tx_length > 0 /\ link = "configured" /\ pipeIn = 0

TxStart_NotMarked ==
  /\ events = <<>> /\ op_state = "ONLINE" /\ CanSend
  /\ pipeIn' = tx_length
  /\ UNCHANGED <<serial, queued, link, pipeOut, control, events, got, cut>>

TxStart ==
  /\ events = <<>> /\ op_state = "ONLINE" /\ CanSend
  /\ pipeIn' = tx_length /\ op_state' = "WRITE"
  /\ UNCHANGED <<tx_length, rx_length, line_state, queued, link, pipeOut,
                 control, events, got, cut>>

RxStart_Unread ==
  /\ events = <<>> /\ op_state = "ONLINE" /\ ~CanSend
  /\ link = "configured" /\ ~pipeOut /\ pipeOut' = TRUE
  /\ UNCHANGED <<serial, queued, link, pipeIn, control, events, got, cut>>

RxStart ==
  /\ events = <<>> /\ op_state = "ONLINE" /\ ~CanSend
  /\ rx_length = 0 /\ link = "configured" /\ ~pipeOut
  /\ pipeOut' = TRUE
  /\ UNCHANGED <<serial, queued, link, pipeIn, control, events, got, cut>>

UsbIdle ==
  \/ RxEnd \/ TxEnd \/ SetControlLineState \/ LineCoding
  \/ GoOnline \/ GoOffline \/ Ignore \/ TxStart \/ RxStart

(***************************************************************************)
(* The thread.  A call returns at once while the interface is offline, and *)
(* changes nothing then.                                                   *)
(***************************************************************************)

(* The idle function runs when no task is queued. *)
IdleFunction ==
  /\ pc = "tasks" /\ queued = {} /\ UsbIdle
  /\ UNCHANGED thread

(* Some task writes n bytes or flushes. *)
CallWrite(n) ==
  /\ pc = "tasks" /\ op_state # "OFFLINE"
  /\ pc' = "write" /\ write_length' = n
  /\ UNCHANGED <<serial, queued, driver, events, got, cut>>

CallFlush ==
  /\ pc = "tasks" /\ op_state # "OFFLINE" /\ tx_length > 0
  /\ pc' = "flush"
  /\ UNCHANGED <<serial, queued, write_length, driver, events, got, cut>>

(* The welcome of a terminal is written and not flushed. *)
TerminalConnected(n) ==
  /\ pc = "tasks" /\ "TERMINAL_CONNECTED" \in queued
  /\ queued' = queued \ {"TERMINAL_CONNECTED"}
  /\ IF op_state = "OFFLINE" THEN UNCHANGED thread
     ELSE pc' = "write" /\ write_length' = n
  /\ UNCHANGED <<serial, driver, events, got, cut>>

(* pixelkey_task_command_rx reads into the room left in its buffer.  (Its  *)
(* echo is a CallWrite and a CallFlush.)                                   *)
CommandRx(room) ==
  /\ pc = "tasks" /\ "CMD_RX" \in queued
  /\ queued' = queued \ {"CMD_RX"}
  /\ rx_length' = IF op_state = "OFFLINE" THEN rx_length
                  ELSE IF rx_length < room THEN 0 ELSE rx_length - room
  /\ UNCHANGED <<op_state, tx_length, line_state, thread, driver, events, got, cut>>

WriteWaits ==
  /\ pc = "write" /\ op_state = "WRITE" /\ UsbIdle
  /\ UNCHANGED thread

WriteCopies_NoLimit ==
  /\ pc = "write" /\ op_state # "WRITE"
  /\ tx_length' = tx_length + write_length
  /\ pc' = "tasks" /\ write_length' = 0
  /\ UNCHANGED <<op_state, rx_length, line_state, queued, driver, events, got, cut>>

WriteCopies ==
  /\ pc = "write" /\ op_state # "WRITE"
  /\ tx_length' = IF tx_length + write_length > BufferLength
                  THEN tx_length ELSE tx_length + write_length
  /\ pc' = "tasks" /\ write_length' = 0
  /\ UNCHANGED <<op_state, rx_length, line_state, queued, driver, events, got, cut>>

FlushWaits ==
  /\ pc = "flush" /\ tx_length > 0 /\ UsbIdle
  /\ UNCHANGED thread

FlushReturns ==
  /\ pc = "flush" /\ tx_length = 0 /\ pc' = "tasks"
  /\ UNCHANGED <<serial, queued, write_length, driver, events, got, cut>>

Thread ==
  \/ IdleFunction \/ WriteWaits \/ WriteCopies \/ FlushWaits \/ FlushReturns
  \/ CallFlush
  \/ \E n \in Length \ {0} : CallWrite(n) \/ TerminalConnected(n)
  \/ \E room \in Length : CommandRx(room)

Next == Thread \/ Host

Spec == Init /\ [][Next]_vars

(***************************************************************************)
(* The task manager never stops running the thread (WorkConserving and     *)
(* IsrTasksServed of TaskManager), so a loop inside a call is executed     *)
(* over and over.  A host that is attached polls the IN pipe, and ends a   *)
(* control transfer whose data the device has provided.                    *)
(***************************************************************************)
Fairness ==
  /\ WF_vars(WriteWaits \/ WriteCopies) /\ WF_vars(FlushWaits \/ FlushReturns)
  /\ WF_vars(HostReads) /\ WF_vars(HostEndsRequest)

FairSpec == Spec /\ Fairness

(***************************************************************************)
(* Properties.                                                             *)
(***************************************************************************)

(* Every variable of hal_usb.c and of the driver has a value of its type;  *)
(* tx_length never exceeds the buffer that usb_serial_write copies into.   *)
TypeOK ==
  /\ op_state \in States /\ tx_length \in Length /\ rx_length \in Length
  /\ line_state \in LineStates \cup {{}} /\ queued \subseteq Tasks
  /\ pc \in {"tasks", "write", "flush"} /\ write_length \in Length
  /\ link \in {"powered", "configured", "suspended", "default"}
  /\ pipeIn \in Length /\ pipeOut \in BOOLEAN
  /\ control \in {"idle", "setup", "data"}
  /\ events \in Seq(EventType) /\ got \in Length /\ cut \in Length

Waits(list, c) == \E e \in DOMAIN list : list[e].code = c

(* The driver works on the buffers of hal_usb.c themselves: while a write  *)
(* transfer is in progress its bytes stay at the front of tx_buffer, and   *)
(* no read is in progress while rx_buffer holds bytes that were not read,  *)
(* whatever order the completions and the calls come in.                   *)
BuffersNotReused == pipeIn <= tx_length /\ (pipeOut => rx_length = 0)

(* usb_serial_write waits while op_state is WRITE: in that state either    *)
(* the whole buffer is in a transfer whose completion the driver will      *)
(* still report, or the event that ends the state is on its way.  After a  *)
(* bus reset no completion comes any more; the DETACH has to end it.       *)
WriteStateEnds ==
  op_state = "WRITE" =>
    \/ Connected /\ pipeIn > 0 /\ pipeIn = tx_length
    \/ Waits(events, "WRITE_COMPLETE") \/ Waits(events, "DETACH")

(* tx_end empties tx_buffer only when the host has received every byte in  *)
(* it, or was unplugged while it received them: output accepted by         *)
(* usb_serial_write reaches the host at least once, although a completion  *)
(* may be taken for another transfer's and writes go on in between.        *)
NoOutputLost ==
  [][tx_length' < tx_length => tx_length <= got \/ tx_length <= cut]_vars

(* A write that waits for a transfer to end returns, whatever the host     *)
(* does: reads on, suspends, resets, unplugs or configures the device.     *)
WriteReturns == pc = "write" ~> pc # "write"

(* A flush returns, however often rx_end and tx_end mistake the state of   *)
(* the transfer, unless the link leaves the configured state or a control  *)
(* sequence or a suspension has taken the interface out of service.        *)
FlushReturnsInService ==
  pc = "flush" ~>
    (pc # "flush" \/ link # "configured" \/ op_state \notin {"ONLINE", "WRITE"})
=============================================================================
