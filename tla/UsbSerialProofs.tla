--------------------------- MODULE UsbSerialProofs ---------------------------
(***************************************************************************)
(* Proofs about UsbSerial, for a buffer of any length, any number of       *)
(* waiting events and any line states.                                     *)
(*                                                                         *)
(* The argument: a transfer is only started when no event waits, so the    *)
(* completion that waits is always the last transfer's; and while op_state *)
(* is WRITE nothing is appended, so that transfer carries the whole        *)
(* buffer.  Hence the completion that tx_end acts on says that the whole   *)
(* buffer was received, or was cut off by unplugging.                      *)
(***************************************************************************)
EXTENDS UsbSerial, TLAPS

(* The order of transfers and completions, the strengthening that makes    *)
(* the invariants inductive.                                               *)
CompletionsInOrder ==
  /\ pipeIn > 0 => ~Waits(events, "WRITE_COMPLETE")
  /\ pipeOut => ~Waits(events, "READ_COMPLETE")
  /\ op_state = "WRITE" =>
       /\ pipeIn > 0 => pipeIn = tx_length
       /\ Waits(events, "WRITE_COMPLETE") => tx_length <= got \/ tx_length <= cut

Inv == TypeOK /\ BuffersNotReused /\ WriteStateEnds /\ CompletionsInOrder

(* An event appended to the driver's queue waits, and those that waited    *)
(* still do.                                                               *)
LEMMA Raised ==
  ASSUME NEW q \in Seq(EventType), NEW list \in Seq(EventType), NEW c
  PROVE  /\ q \o list \in Seq(EventType)
         /\ Waits(q \o list, c) <=> Waits(q, c) \/ Waits(list, c)
<1>1. /\ q \o list \in Seq(EventType)
      /\ Len(q \o list) = Len(q) + Len(list)
      /\ \A e \in 1 .. Len(q) : (q \o list)[e] = q[e]
      /\ \A e \in 1 .. Len(list) : (q \o list)[Len(q) + e] = list[e]
  OBVIOUS
<1>2. Waits(q \o list, c) => Waits(q, c) \/ Waits(list, c)
  <2> SUFFICES ASSUME NEW e \in DOMAIN (q \o list), (q \o list)[e].code = c
               PROVE  Waits(q, c) \/ Waits(list, c)
    BY DEF Waits
  <2>1. CASE e \in 1 .. Len(q)
    BY <1>1, <2>1 DEF Waits
  <2>2. CASE e \notin 1 .. Len(q)
    <3>1. e - Len(q) \in 1 .. Len(list) /\ e = Len(q) + (e - Len(q))
      BY <1>1, <2>2
    <3> QED BY <1>1, <3>1 DEF Waits
  <2> QED BY <2>1, <2>2
<1>3. Waits(q, c) => Waits(q \o list, c)
  BY <1>1 DEF Waits
<1>4. Waits(list, c) => Waits(q \o list, c)
  <2> SUFFICES ASSUME NEW e \in DOMAIN list, list[e].code = c
               PROVE  Waits(q \o list, c)
    BY DEF Waits
  <2>1. Len(q) + e \in DOMAIN (q \o list) BY <1>1
  <2> QED BY <1>1, <2>1 DEF Waits
<1> QED BY <1>1, <1>2, <1>3, <1>4

(* Taking an event leaves every other event waiting. *)
LEMMA Taken ==
  ASSUME NEW q \in Seq(EventType), q # <<>>, NEW c
  PROVE  /\ Head(q) \in EventType /\ Tail(q) \in Seq(EventType)
         /\ Waits(Tail(q), c) => Waits(q, c)
         /\ Waits(q, c) /\ Head(q).code # c => Waits(Tail(q), c)
         /\ Head(q).code = c => Waits(q, c)
<1>1. /\ Len(q) \in Nat \ {0} /\ Head(q) = q[1] /\ Len(Tail(q)) = Len(q) - 1
      /\ \A e \in 1 .. Len(q) - 1 : Tail(q)[e] = q[e + 1]
      /\ Tail(q) \in Seq(EventType) /\ Head(q) \in EventType
  OBVIOUS
<1>2. Waits(Tail(q), c) => Waits(q, c)
  <2> SUFFICES ASSUME NEW e \in DOMAIN Tail(q), Tail(q)[e].code = c
               PROVE  Waits(q, c)
    BY DEF Waits
  <2>1. e + 1 \in DOMAIN q /\ q[e + 1] = Tail(q)[e] BY <1>1
  <2> QED BY <2>1 DEF Waits
<1>3. Waits(q, c) /\ Head(q).code # c => Waits(Tail(q), c)
  <2> SUFFICES ASSUME NEW e \in DOMAIN q, q[e].code = c, q[1].code # c
               PROVE  Waits(Tail(q), c)
    BY <1>1 DEF Waits
  <2>1. e - 1 \in DOMAIN Tail(q) /\ Tail(q)[e - 1] = q[e] BY <1>1
  <2> QED BY <2>1 DEF Waits
<1>4. Head(q).code = c => Waits(q, c)
  <2>1. 1 \in DOMAIN q BY <1>1
  <2> QED BY <1>1, <2>1 DEF Waits
<1> QED BY <1>1, <1>2, <1>3, <1>4

(* A list of one event, and the events that unplugging raises. *)
LEMMA OneEvent ==
  ASSUME NEW e \in EventType, NEW c
  PROVE  <<e>> \in Seq(EventType) /\ (Waits(<<e>>, c) <=> e.code = c)
<1>1. DOMAIN <<e>> = {1} /\ <<e>>[1] = e
  OBVIOUS
<1> QED BY <1>1 DEF Waits

LEMMA NoEvents ==
  ASSUME NEW c
  PROVE  <<>> \in Seq(EventType) /\ ~Waits(<<>>, c)
BY DEF Waits

LEMMA EventTypes ==
  /\ \A c \in Codes : Event(c) \in EventType /\ Event(c).code = c
  /\ \A n \in Length : Read(n) \in EventType /\ Read(n).code = "READ_COMPLETE"
  /\ \A s \in LineStates : SetLine(s) \in EventType /\ SetLine(s).code = "REQUEST"
  /\ 0 \in Length /\ Length \subseteq Nat
BY SerialConstants DEF Event, Read, SetLine, EventType, Codes, Length

LEMMA DetachEvents ==
  ASSUME NEW w \in BOOLEAN, NEW r \in BOOLEAN, NEW list,
         list = (IF w THEN <<Event("WRITE_COMPLETE")>> ELSE <<>>)
                \o (IF r THEN <<Read(0)>> ELSE <<>>)
                \o <<Event("DETACH")>>
  PROVE  /\ list \in Seq(EventType)
         /\ Waits(list, "WRITE_COMPLETE") <=> w
         /\ Waits(list, "READ_COMPLETE") <=> r
         /\ Waits(list, "DETACH")
<1> DEFINE wr == IF w THEN <<Event("WRITE_COMPLETE")>> ELSE <<>>
           rd == IF r THEN <<Read(0)>> ELSE <<>>
           dt == <<Event("DETACH")>>
<1>1. /\ "WRITE_COMPLETE" \in Codes /\ "DETACH" \in Codes
      /\ Event("WRITE_COMPLETE") \in EventType /\ Event("DETACH") \in EventType
      /\ Event("WRITE_COMPLETE").code = "WRITE_COMPLETE"
      /\ Event("DETACH").code = "DETACH"
      /\ Read(0) \in EventType /\ Read(0).code = "READ_COMPLETE"
  BY EventTypes DEF Codes
<1>2. /\ wr \in Seq(EventType)
      /\ \A c : Waits(wr, c) <=> w /\ c = "WRITE_COMPLETE"
  BY <1>1, OneEvent, NoEvents
<1>3. /\ rd \in Seq(EventType)
      /\ \A c : Waits(rd, c) <=> r /\ c = "READ_COMPLETE"
  BY <1>1, OneEvent, NoEvents
<1>4. /\ dt \in Seq(EventType)
      /\ \A c : Waits(dt, c) <=> c = "DETACH"
  BY <1>1, OneEvent
<1> HIDE DEF wr, rd, dt
<1>5. /\ wr \o rd \in Seq(EventType)
      /\ \A c : Waits(wr \o rd, c) <=> Waits(wr, c) \/ Waits(rd, c)
  BY <1>2, <1>3, Raised
<1>6. /\ (wr \o rd) \o dt \in Seq(EventType)
      /\ \A c : Waits((wr \o rd) \o dt, c) <=> Waits(wr \o rd, c) \/ Waits(dt, c)
  BY <1>4, <1>5, Raised
<1>7. list = (wr \o rd) \o dt
  BY DEF wr, rd, dt
<1>8. \A c : Waits((wr \o rd) \o dt, c) <=>
              (w /\ c = "WRITE_COMPLETE") \/ (r /\ c = "READ_COMPLETE") \/ c = "DETACH"
  BY <1>2, <1>3, <1>4, <1>5, <1>6, Zenon
<1>9. \A c : Waits(list, c) <=>
              (w /\ c = "WRITE_COMPLETE") \/ (r /\ c = "READ_COMPLETE") \/ c = "DETACH"
  BY <1>7, <1>8, Zenon
<1>10. /\ "WRITE_COMPLETE" # "READ_COMPLETE" /\ "WRITE_COMPLETE" # "DETACH"
       /\ "READ_COMPLETE" # "DETACH"
  OBVIOUS
<1>11. /\ Waits(list, "WRITE_COMPLETE") <=> w
       /\ Waits(list, "READ_COMPLETE") <=> r
       /\ Waits(list, "DETACH")
  BY <1>9, <1>10, Zenon
<1>12. list \in Seq(EventType)
  BY <1>6, <1>7
<1> QED BY <1>11, <1>12

(* What Take and Raise do to the events that wait. *)
LEMMA TakeEvent ==
  ASSUME TypeOK, NEW codes, Take(codes)
  PROVE  /\ Head(events) \in EventType /\ Head(events).code \in codes
         /\ Waits(events, Head(events).code)
         /\ events' \in Seq(EventType)
         /\ \A c : Waits(events', c) => Waits(events, c)
         /\ \A c : Waits(events, c) /\ c \notin codes => Waits(events', c)
BY Taken DEF TypeOK, Take

LEMMA RaiseEvents ==
  ASSUME TypeOK, NEW list \in Seq(EventType), Raise(list)
  PROVE  /\ events' \in Seq(EventType)
         /\ \A c : Waits(events', c) <=> Waits(events, c) \/ Waits(list, c)
BY Raised DEF TypeOK, Raise

LEMMA RaiseOne ==
  ASSUME TypeOK, NEW e \in EventType, Raise(<<e>>)
  PROVE  /\ events' \in Seq(EventType)
         /\ \A c : Waits(events', c) <=> Waits(events, c) \/ c = e.code
BY OneEvent, RaiseEvents

-----------------------------------------------------------------------------
LEMMA InitInv == Init => Inv
<1> SUFFICES ASSUME Init PROVE Inv
  OBVIOUS
<1>1. TypeOK
  <2>1. events \in Seq(EventType)
    BY DEF Init
  <2>2. op_state \in States /\ queued \subseteq Tasks
    BY DEF Init, States
  <2> QED BY <2>1, <2>2, EventTypes DEF Init, TypeOK
<1>2. BuffersNotReused /\ WriteStateEnds /\ CompletionsInOrder
  BY DEF Init, BuffersNotReused, WriteStateEnds, CompletionsInOrder
<1> QED BY <1>1, <1>2 DEF Inv

(* The steps of the driver and the host. *)
LEMMA HostStep ==
  ASSUME Inv, Host
  PROVE  Inv'
<1> USE DEF Inv, BuffersNotReused, WriteStateEnds, CompletionsInOrder,
            Connected, serial, thread, driver
<1>1. CASE Configure
  <2>1. Event("CONFIGURED") \in EventType /\ Event("CONFIGURED").code = "CONFIGURED"
    BY EventTypes DEF Codes
  <2>2. /\ events' \in Seq(EventType)
        /\ \A c : Waits(events', c) <=> Waits(events, c) \/ c = "CONFIGURED"
    BY <1>1, <2>1, RaiseOne DEF Configure
  <2>3. TypeOK'
    BY <1>1, <2>2, EventTypes DEF Configure, TypeOK
  <2> QED BY <1>1, <2>2, <2>3 DEF Configure, TypeOK, Length
<1>2. CASE BusReset
  <2>1. Event("DETACH") \in EventType /\ Event("DETACH").code = "DETACH"
    BY EventTypes DEF Codes
  <2>2. /\ events' \in Seq(EventType)
        /\ \A c : Waits(events', c) <=> Waits(events, c) \/ c = "DETACH"
    BY <1>2, <2>1, RaiseOne DEF BusReset
  <2>3. TypeOK'
    BY <1>2, <2>2 DEF BusReset, TypeOK
  <2> QED BY <1>2, <2>2, <2>3 DEF BusReset
<1>3. CASE Suspend
  <2>1. Event("SUSPEND") \in EventType /\ Event("SUSPEND").code = "SUSPEND"
    BY EventTypes DEF Codes
  <2>2. /\ events' \in Seq(EventType)
        /\ \A c : Waits(events', c) <=> Waits(events, c) \/ c = "SUSPEND"
    BY <1>3, <2>1, RaiseOne DEF Suspend
  <2>3. TypeOK'
    BY <1>3, <2>2 DEF Suspend, TypeOK
  <2> QED BY <1>3, <2>2, <2>3 DEF Suspend
<1>4. CASE Resume
  <2>1. Event("RESUME") \in EventType /\ Event("RESUME").code = "RESUME"
    BY EventTypes DEF Codes
  <2>2. /\ events' \in Seq(EventType)
        /\ \A c : Waits(events', c) <=> Waits(events, c) \/ c = "RESUME"
    BY <1>4, <2>1, RaiseOne DEF Resume
  <2>3. TypeOK'
    BY <1>4, <2>2 DEF Resume, TypeOK
  <2> QED BY <1>4, <2>2, <2>3 DEF Resume
<1>5. CASE Detach
  <2> DEFINE list == (IF pipeIn > 0 THEN <<Event("WRITE_COMPLETE")>> ELSE <<>>)
                     \o (IF pipeOut THEN <<Read(0)>> ELSE <<>>)
                     \o <<Event("DETACH")>>
  <2>1. /\ list \in Seq(EventType)
        /\ Waits(list, "WRITE_COMPLETE") <=> (pipeIn > 0)
        /\ Waits(list, "READ_COMPLETE") <=> pipeOut
        /\ Waits(list, "DETACH")
    <3>1. (pipeIn > 0) \in BOOLEAN /\ pipeOut \in BOOLEAN
      BY DEF TypeOK
    <3> QED BY <3>1, DetachEvents, Zenon
  <2>2. /\ events' \in Seq(EventType)
        /\ \A c : Waits(events', c) <=> Waits(events, c) \/ Waits(list, c)
    <3>1. Raise(list) BY <1>5 DEF Detach
    <3> HIDE DEF list
    <3> QED BY <2>1, <3>1, RaiseEvents
  <2> HIDE DEF list
  <2>3. TypeOK'
    BY <1>5, <2>2, EventTypes DEF Detach, TypeOK
  <2>4. BuffersNotReused'
    BY <1>5 DEF Detach, TypeOK, Length
  <2>5. Waits(events', "WRITE_COMPLETE") <=> Waits(events, "WRITE_COMPLETE") \/ pipeIn > 0
    BY <2>1, <2>2
  <2>6. \A c : Waits(events, c) => Waits(events', c)
    BY <2>2
  <2>7. Waits(events', "DETACH")
    BY <2>1, <2>2
  <2>8. WriteStateEnds' /\ CompletionsInOrder'
    BY <1>5, <2>5, <2>6, <2>7 DEF Detach, TypeOK, Length
  <2> QED BY <2>3, <2>4, <2>8
<1>6. CASE HostReads
  <2>1. /\ Event("WRITE_COMPLETE") \in EventType
        /\ Event("WRITE_COMPLETE").code = "WRITE_COMPLETE"
    BY EventTypes DEF Codes
  <2>2. /\ events' \in Seq(EventType)
        /\ \A c : Waits(events', c) <=> Waits(events, c) \/ c = "WRITE_COMPLETE"
    BY <1>6, <2>1, RaiseOne DEF HostReads
  <2>3. TypeOK'
    BY <1>6, <2>2, EventTypes DEF HostReads, TypeOK
  <2> QED BY <1>6, <2>2, <2>3 DEF HostReads, TypeOK, Length
<1>7. CASE HostRequests
  <2>1. Event("DATA_REQUEST") \in EventType /\ Event("DATA_REQUEST").code = "DATA_REQUEST"
    BY EventTypes DEF Codes
  <2>2. /\ events' \in Seq(EventType)
        /\ \A c : Waits(events', c) <=> Waits(events, c) \/ c = "DATA_REQUEST"
    BY <1>7, <2>1, RaiseOne DEF HostRequests
  <2>3. TypeOK'
    BY <1>7, <2>2 DEF HostRequests, TypeOK
  <2> QED BY <1>7, <2>2, <2>3 DEF HostRequests
<1>8. CASE HostEndsRequest
  <2>1. /\ Event("REQUEST_COMPLETE") \in EventType
        /\ Event("REQUEST_COMPLETE").code = "REQUEST_COMPLETE"
    BY EventTypes DEF Codes
  <2>2. /\ events' \in Seq(EventType)
        /\ \A c : Waits(events', c) <=> Waits(events, c) \/ c = "REQUEST_COMPLETE"
    BY <1>8, <2>1, RaiseOne DEF HostEndsRequest
  <2>3. TypeOK'
    BY <1>8, <2>2 DEF HostEndsRequest, TypeOK
  <2> QED BY <1>8, <2>2, <2>3 DEF HostEndsRequest
<1>9. ASSUME NEW n \in Length \ {0}, HostWrites(n)
      PROVE  Inv'
  <2>1. /\ events' \in Seq(EventType)
        /\ \A c : Waits(events', c) <=> Waits(events, c) \/ c = "READ_COMPLETE"
    BY <1>9, EventTypes, RaiseOne DEF HostWrites
  <2>2. TypeOK'
    BY <1>9, <2>1 DEF HostWrites, TypeOK
  <2> QED BY <1>9, <2>1, <2>2 DEF HostWrites
<1>10. ASSUME NEW s \in LineStates, HostSetsLine(s)
       PROVE  Inv'
  <2>1. /\ events' \in Seq(EventType)
        /\ \A c : Waits(events', c) <=> Waits(events, c) \/ c = "REQUEST"
    BY <1>10, EventTypes, RaiseOne DEF HostSetsLine
  <2>2. TypeOK'
    BY <1>10, <2>1 DEF HostSetsLine, TypeOK
  <2> QED BY <1>10, <2>1, <2>2 DEF HostSetsLine
<1>11. CASE DetachReset
  <2>1. TypeOK'
    BY <1>11, EventTypes DEF DetachReset, TypeOK
  <2> QED BY <1>11, <2>1 DEF DetachReset, TypeOK, Length, Connected
<1> QED BY <1>1, <1>2, <1>3, <1>4, <1>5, <1>6, <1>7, <1>8, <1>9, <1>10, <1>11 DEF Host

(* The steps of hal_usb_idle, whichever loop of the thread takes them. *)
LEMMA IdleStep ==
  ASSUME Inv, UsbIdle, UNCHANGED thread
  PROVE  Inv'
<1> USE DEF Inv, BuffersNotReused, WriteStateEnds, CompletionsInOrder,
            Connected, thread
<1>1. CASE RxEnd
  <2>1. Take({"READ_COMPLETE"})
    BY <1>1 DEF RxEnd
  <2>2. /\ Head(events) \in EventType /\ Waits(events, "READ_COMPLETE")
        /\ events' \in Seq(EventType)
        /\ \A c : Waits(events', c) => Waits(events, c)
    <3>1. Head(events).code = "READ_COMPLETE"
      BY <2>1, TakeEvent
    <3> QED BY <2>1, <3>1, TakeEvent
  <2>3. Head(events).size \in Length
    BY <2>2 DEF EventType
  <2>4. TypeOK'
    BY <1>1, <2>2, <2>3 DEF RxEnd, TypeOK, States, Tasks, driver
  <2> QED BY <1>1, <2>2, <2>4 DEF RxEnd, driver
<1>2. CASE TxEnd
  <2>1. Take({"WRITE_COMPLETE"})
    BY <1>2 DEF TxEnd
  <2>2. /\ Waits(events, "WRITE_COMPLETE")
        /\ events' \in Seq(EventType)
        /\ \A c : Waits(events', c) => Waits(events, c)
    <3>1. Head(events).code = "WRITE_COMPLETE"
      BY <2>1, TakeEvent
    <3> QED BY <2>1, <3>1, TakeEvent
  <2>3. TypeOK'
    BY <1>2, <2>2, EventTypes DEF TxEnd, TypeOK, States, driver
  <2> QED BY <1>2, <2>2, <2>3 DEF TxEnd, driver, TypeOK, Length
<1>3. CASE SetControlLineState
  <2>1. Take({"REQUEST"})
    BY <1>3 DEF SetControlLineState
  <2>2. /\ Head(events) \in EventType
        /\ events' \in Seq(EventType)
        /\ \A c : Waits(events', c) => Waits(events, c)
    BY <2>1, TakeEvent
  <2>3. Head(events).line \in LineStates \cup {{}}
    BY <2>2 DEF EventType
  <2>4. queued' \subseteq Tasks /\ op_state' \in States
    BY <1>3 DEF SetControlLineState, TypeOK, Tasks, States
  <2>5. TypeOK'
    BY <1>3, <2>2, <2>3, <2>4 DEF SetControlLineState, TypeOK, driver
  <2> QED BY <1>3, <2>2, <2>5 DEF SetControlLineState, driver
<1>4. CASE LineCoding
  <2>1. Take({"DATA_REQUEST"})
    BY <1>4 DEF LineCoding
  <2>2. /\ events' \in Seq(EventType)
        /\ \A c : Waits(events', c) => Waits(events, c)
    BY <2>1, TakeEvent
  <2>3. TypeOK'
    BY <1>4, <2>2 DEF LineCoding, TypeOK, States
  <2> QED BY <1>4, <2>2, <2>3 DEF LineCoding
<1>5. CASE GoOnline
  <2>1. Take({"CONFIGURED", "REQUEST_COMPLETE"})
    BY <1>5 DEF GoOnline
  <2>2. /\ events' \in Seq(EventType)
        /\ \A c : Waits(events', c) => Waits(events, c)
    BY <2>1, TakeEvent
  <2>3. TypeOK'
    BY <1>5, <2>2 DEF GoOnline, TypeOK, States, driver
  <2> QED BY <1>5, <2>2, <2>3 DEF GoOnline, driver
<1>6. CASE GoOffline
  <2>1. Take({"DETACH", "SUSPEND"})
    BY <1>6 DEF GoOffline
  <2>2. /\ events' \in Seq(EventType)
        /\ \A c : Waits(events', c) => Waits(events, c)
    BY <2>1, TakeEvent
  <2>3. TypeOK'
    BY <1>6, <2>2 DEF GoOffline, TypeOK, States, driver
  <2> QED BY <1>6, <2>2, <2>3 DEF GoOffline, driver
<1>7. CASE Ignore
  <2>1. Take({"RESUME"})
    BY <1>7 DEF Ignore
  <2>2. /\ events' \in Seq(EventType)
        /\ \A c : Waits(events', c) => Waits(events, c)
        /\ \A c : Waits(events, c) /\ c # "RESUME" => Waits(events', c)
    BY <2>1, TakeEvent
  <2>3. TypeOK'
    BY <1>7, <2>2 DEF Ignore, TypeOK, serial, driver
  <2> QED BY <1>7, <2>2, <2>3 DEF Ignore, serial, driver
<1>8. CASE TxStart
  <2>1. \A c : ~Waits(events', c)
    BY <1>8, NoEvents DEF TxStart
  <2>2. TypeOK'
    BY <1>8 DEF TxStart, TypeOK, States
  <2> QED BY <1>8, <2>1, <2>2 DEF TxStart, CanSend, TypeOK, Length
<1>9. CASE RxStart
  <2>1. \A c : ~Waits(events', c)
    BY <1>9, NoEvents DEF RxStart
  <2>2. TypeOK'
    BY <1>9 DEF RxStart, TypeOK, serial
  <2> QED BY <1>9, <2>1, <2>2 DEF RxStart, serial
<1> QED BY <1>1, <1>2, <1>3, <1>4, <1>5, <1>6, <1>7, <1>8, <1>9 DEF UsbIdle

(* The steps of the thread. *)
LEMMA ThreadStep ==
  ASSUME Inv, Thread
  PROVE  Inv'
<1> USE DEF Inv, BuffersNotReused, WriteStateEnds, CompletionsInOrder, Connected
<1>1. CASE IdleFunction
  BY <1>1, IdleStep DEF IdleFunction
<1>2. CASE WriteWaits
  BY <1>2, IdleStep DEF WriteWaits
<1>3. CASE FlushWaits
  BY <1>3, IdleStep DEF FlushWaits
<1>4. CASE WriteCopies
  <2>1. tx_length' \in Length /\ tx_length <= tx_length'
    BY <1>4, SerialConstants DEF WriteCopies, TypeOK, Length
  <2>2. TypeOK'
    BY <1>4, <2>1, EventTypes DEF WriteCopies, TypeOK, driver
  <2> QED BY <1>4, <2>1, <2>2 DEF WriteCopies, driver, TypeOK, Length
<1>5. CASE FlushReturns
  <2>1. TypeOK'
    BY <1>5 DEF FlushReturns, TypeOK, serial, driver
  <2> QED BY <1>5, <2>1 DEF FlushReturns, serial, driver
<1>6. CASE CallFlush
  <2>1. TypeOK'
    BY <1>6 DEF CallFlush, TypeOK, serial, driver
  <2> QED BY <1>6, <2>1 DEF CallFlush, serial, driver
<1>7. ASSUME NEW n \in Length \ {0}, CallWrite(n)
      PROVE  Inv'
  <2>1. TypeOK'
    BY <1>7 DEF CallWrite, TypeOK, serial, driver
  <2> QED BY <1>7, <2>1 DEF CallWrite, serial, driver
<1>8. ASSUME NEW n \in Length \ {0}, TerminalConnected(n)
      PROVE  Inv'
  <2>1. TypeOK'
    BY <1>8 DEF TerminalConnected, TypeOK, serial, driver, thread
  <2> QED BY <1>8, <2>1 DEF TerminalConnected, serial, driver
<1>9. ASSUME NEW room \in Length, CommandRx(room)
      PROVE  Inv'
  <2>1. rx_length' \in Length /\ (rx_length = 0 => rx_length' = 0)
    BY <1>9, SerialConstants DEF CommandRx, TypeOK, Length
  <2>2. TypeOK'
    BY <1>9, <2>1 DEF CommandRx, TypeOK, driver, thread
  <2> QED BY <1>9, <2>1, <2>2 DEF CommandRx, driver
<1> QED BY <1>1, <1>2, <1>3, <1>4, <1>5, <1>6, <1>7, <1>8, <1>9 DEF Thread

(* A step that changes nothing, or any step of the specification. *)
LEMMA NextInv ==
  ASSUME Inv, [Next]_vars
  PROVE  Inv'
<1>1. CASE Next
  BY <1>1, HostStep, ThreadStep DEF Next
<1>2. CASE UNCHANGED vars
  BY <1>2 DEF vars, serial, thread, driver, Inv, TypeOK, BuffersNotReused,
              WriteStateEnds, CompletionsInOrder, Connected
<1> QED BY <1>1, <1>2

(* The whole invariant holds in every reachable state. *)
THEOREM Invariance == Spec => []Inv
  BY InitInv, NextInv, PTL DEF Spec

(* Every variable has its type: usb_serial_write stays in tx_buffer. *)
THEOREM TypeCorrect == Spec => []TypeOK
<1>1. Inv => TypeOK
  BY DEF Inv
<1> QED BY <1>1, Invariance, PTL

(* No transfer's bytes are overwritten while the driver works on them. *)
THEOREM BuffersSafe == Spec => []BuffersNotReused
<1>1. Inv => BuffersNotReused
  BY DEF Inv
<1> QED BY <1>1, Invariance, PTL

(* The write state ends: the transfer that carries the whole buffer is one *)
(* the driver still reports on, or its completion or a detach waits to be  *)
(* taken, whatever bus resets, unplugging and suspensions come between.    *)
THEOREM WriteStateHasEnd == Spec => []WriteStateEnds
<1>1. Inv => WriteStateEnds
  BY DEF Inv
<1> QED BY <1>1, Invariance, PTL

(* Output leaves tx_buffer only when the host has received all of it, or   *)
(* was unplugged in the middle of it: only tx_end shortens the buffer.     *)
THEOREM OutputNotLost == Spec => NoOutputLost
<1>1. Inv /\ [Next]_vars => [tx_length' < tx_length => tx_length <= got \/ tx_length <= cut]_vars
  <2> SUFFICES ASSUME Inv, [Next]_vars, tx_length' < tx_length
               PROVE  tx_length <= got \/ tx_length <= cut
    OBVIOUS
  <2>1. tx_length \in Nat /\ tx_length' # tx_length
    BY SerialConstants DEF Inv, TypeOK, Length
  <2>2. CASE Host
    BY <2>1, <2>2 DEF Host, Configure, BusReset, Suspend, Resume, Detach,
        DetachReset, HostReads, HostRequests, HostEndsRequest, HostWrites, HostSetsLine, serial
  <2>3. CASE UsbIdle
    <3>1. TxEnd
      BY <2>1, <2>3 DEF UsbIdle, RxEnd, SetControlLineState, LineCoding, GoOnline,
          GoOffline, Ignore, TxStart, RxStart, serial
    <3>2. Take({"WRITE_COMPLETE"}) /\ op_state = "WRITE"
      BY <2>1, <3>1 DEF TxEnd
    <3>3. Waits(events, "WRITE_COMPLETE")
      <4>1. Head(events).code = "WRITE_COMPLETE"
        BY <3>2, TakeEvent DEF Inv
      <4> QED BY <3>2, <4>1, TakeEvent DEF Inv
    <3> QED BY <3>2, <3>3 DEF Inv, CompletionsInOrder
  <2>4. CASE WriteCopies
    BY <2>1, <2>4, SerialConstants DEF WriteCopies, Inv, TypeOK, Length
  <2>5. CASE FlushReturns \/ CallFlush
    BY <2>1, <2>5 DEF FlushReturns, CallFlush, serial
  <2>6. ASSUME NEW n \in Length \ {0}, CallWrite(n) \/ TerminalConnected(n)
        PROVE  FALSE
    BY <2>1, <2>6 DEF CallWrite, TerminalConnected, serial
  <2>7. ASSUME NEW room \in Length, CommandRx(room)
        PROVE  FALSE
    BY <2>1, <2>7 DEF CommandRx
  <2>8. CASE UNCHANGED vars
    BY <2>1, <2>8 DEF vars, serial
  <2> QED BY <2>2, <2>3, <2>4, <2>5, <2>6, <2>7, <2>8
          DEF Next, Thread, IdleFunction, WriteWaits, FlushWaits
<1> QED BY <1>1, Invariance, PTL DEF Spec, NoOutputLost
=============================================================================
