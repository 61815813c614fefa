---------------------------- MODULE TxLite_proofs ----------------------------
(***************************************************************************)
(* Theorems about TxLite, for every number of signals and addresses, every *)
(* timeout up to half of the tick range, every bound and every combination *)
(* of the things that may go wrong (Overlap, Late, Lossy, Garbled,         *)
(* Exchange, ReadErrors, WriteErrors).                                     *)
(***************************************************************************)
EXTENDS TxLite, TLAPS

\* The chunk conn_poll read has frames left exactly while the thread is in
\* its loop over them: no frame is left behind when WM_TIMER goes on.
ChunkIsBeingRead == chunk # <<>> <=> thread = "frames"

\* The deadline of the pending command, the clock and the time since it was
\* sent fit together, modulo the range of the tick count.
AgeIsElapsed ==
  pending.active /\ thread # "exited" =>
    TickAdd(now, Timeout) = TickAdd(pending.deadline, age)

Inv ==
  /\ TypeOK
  /\ PortStateAgrees
  /\ ChunkIsBeingRead
  /\ PendingOutputIsShown
  /\ AgeIsElapsed

-----------------------------------------------------------------------------
(* Tick counts *)

\* A tick count plus a duration below the range is a tick count.
LEMMA TickAddType ==
  ASSUME NEW t \in Ticks, NEW d \in 0 .. TickMod - 1
  PROVE  TickAdd(t, d) \in Ticks
BY HalfRangeAssumption DEF TickAdd, Ticks, TickMod

\* Durations up to MaxAge, and the timeout, are below the range.
LEMMA Durations ==
  /\ 0 .. MaxAge \subseteq 0 .. TickMod - 1
  /\ Timeout \in 0 .. TickMod - 1
  /\ MaxAge \in Nat /\ Timeout \in Nat /\ HalfRange \in Nat
BY HalfRangeAssumption, DeviceAssumption, TxLiteAssumption DEF TickMod

\* Adding nothing changes nothing, and one tick more on both sides of the
\* equation of AgeIsElapsed leaves it true, wherever the count wraps around.
LEMMA TickAddZero ==
  ASSUME NEW t \in Ticks
  PROVE  TickAdd(t, 0) = t
BY HalfRangeAssumption DEF TickAdd, Ticks, TickMod

LEMMA TickAddOne ==
  ASSUME NEW t \in Ticks, NEW u \in Ticks, NEW a \in Nat, a + 1 <= MaxAge,
         TickAdd(t, Timeout) = TickAdd(u, a)
  PROVE  TickAdd(TickAdd(t, 1), Timeout) = TickAdd(u, a + 1)
<1>1. /\ HalfRange \in Nat \ {0} /\ Timeout \in 1 .. HalfRange
      /\ MaxAge \in Timeout .. Timeout + HalfRange - 1
  BY HalfRangeAssumption, DeviceAssumption, TxLiteAssumption
<1> QED
  BY <1>1, SMTT(60) DEF TickAdd, Ticks, TickMod

\* The wraparound-safe comparison of device_poll_timeout tells whether the
\* timeout has elapsed.
LEMMA DeadlinePassedMeansElapsed ==
  ASSUME NEW t \in Ticks, NEW u \in Ticks, NEW a \in 0 .. MaxAge,
         TickAdd(t, Timeout) = TickAdd(u, a)
  PROVE  DeadlinePassed(t, u) <=> a >= Timeout
<1>1. /\ HalfRange \in Nat \ {0} /\ Timeout \in 1 .. HalfRange
      /\ MaxAge \in Timeout .. Timeout + HalfRange - 1
  BY HalfRangeAssumption, DeviceAssumption, TxLiteAssumption
<1> QED
  BY <1>1, SMTT(60)
  DEF DeadlinePassed, AsSigned, TickDiff, TickAdd, Ticks, TickMod

-----------------------------------------------------------------------------
(* The invariant *)

\* The program starts with the port closed and nothing pending.
LEMMA InitInv == Init => Inv
<1> SUFFICES ASSUME Init PROVE Inv
  OBVIOUS
<1>1. TypeOK
  <2>1. ConnTypeOK
    BY DEF Init, ConnInit, ConnTypeOK, Threads, Banners
  <2>2. LineTypeOK
    BY DEF Init, ConnInit, LineTypeOK
  <2>3. DeviceTypeOK
    BY DeviceAssumption
    DEF Init, DeviceInit, DeviceTypeOK, States, Pendings
  <2>4. UnitTypeOK
    BY Durations DEF Init, UnitTypeOK
  <2> QED
    BY <2>1, <2>2, <2>3, <2>4 DEF TypeOK
<1>2. PortStateAgrees /\ ChunkIsBeingRead
  BY DEF Init, ConnInit, DeviceInit, PortStateAgrees, ChunkIsBeingRead
<1>3. PendingOutputIsShown /\ AgeIsElapsed
  BY DEF Init, DeviceInit, NoPending, PendingOutputIsShown, AgeIsElapsed
<1> QED
  BY <1>1, <1>2, <1>3 DEF Inv

\* A command the user gives keeps the invariant, whether it is sent or not:
\* what device.c stores with the new pending command has the type of its
\* kind, an output switch is shown at once, and its age starts at zero.
LEMMA SendKeepsInv ==
  ASSUME Inv, MayCommand,
         NEW request \in Requests, ConnSends(request),
         NEW kind, NEW arg, NEW prev, SetPending(kind, arg, prev),
         \A d \in Ticks : [active |-> TRUE, kind |-> kind, arg |-> arg,
                           prev |-> prev, deadline |-> d] \in Pendings,
         state' \in {state, [state EXCEPT !.output_on = arg]},
         kind = "OUTPUT" => arg \in BOOLEAN /\ state'.output_on = arg,
         state' # state => kind = "OUTPUT",
         age' = IF out' = out THEN age ELSE 0,
         UNCHANGED <<portVars, thread, rx, chunk, now, unit>>
  PROVE  Inv'
<1>1. out' = Append(out, request) /\ out' \in Seq(Requests) /\ out' # out
  BY DEF Inv, TypeOK, LineTypeOK, ConnSends
<1>2. age' = 0
  BY <1>1
<1>3. /\ TickAdd(now, Timeout) \in Ticks
      /\ pending' = [active |-> TRUE, kind |-> kind, arg |-> arg,
                     prev |-> prev, deadline |-> TickAdd(now, Timeout)]
      /\ pending' \in Pendings
  BY TickAddType, Durations DEF SetPending, Inv, TypeOK, DeviceTypeOK
<1>4. TypeOK'
  <2>1. ConnTypeOK' /\ LineTypeOK' /\ UnitTypeOK'
    BY <1>1, <1>2, Durations
    DEF Inv, TypeOK, ConnTypeOK, LineTypeOK, UnitTypeOK, portVars, ConnSends
  <2>2. state' \in States
    BY DEF Inv, TypeOK, DeviceTypeOK, States
  <2> QED
    BY <1>3, <2>1, <2>2 DEF TypeOK, DeviceTypeOK, Inv
<1>5. PortStateAgrees' /\ ChunkIsBeingRead'
  BY DEF Inv, TypeOK, DeviceTypeOK, States, PortStateAgrees,
         ChunkIsBeingRead, portVars
<1>6. PendingOutputIsShown'
  BY <1>3 DEF PendingOutputIsShown
<1>7. AgeIsElapsed'
  BY <1>2, <1>3, TickAddZero DEF AgeIsElapsed
<1> QED
  BY <1>4, <1>5, <1>6, <1>7 DEF Inv

\* A command that could not be sent changes the banner and nothing else.
LEMMA FailedSendKeepsInv ==
  ASSUME Inv, ConnSendFails,
         age' = IF out' = out THEN age ELSE 0,
         UNCHANGED <<portVars, thread, rx, chunk, state, pending, now, unit>>
  PROVE  Inv'
<1>1. UNCHANGED <<out, age>> /\ banner' \in Banners
  BY DEF ConnSendFails, Banners
<1> QED
  BY <1>1
  DEF Inv, TypeOK, ConnTypeOK, LineTypeOK, DeviceTypeOK, UnitTypeOK,
      PortStateAgrees, ChunkIsBeingRead, PendingOutputIsShown, AgeIsElapsed,
      portVars

\* Switching the output and the four other commands keep the invariant.
LEMMA CommandsKeepInv ==
  ASSUME Inv, TurnOutput \/ ApplySignal \/ ReadStatus \/ QueryAddress \/ SetAddress
  PROVE  Inv'
<1> USE DEF Command
<1>1. state.address \in Addresses /\ state.output_on \in BOOLEAN
  BY DEF Inv, TypeOK, DeviceTypeOK, States
<1>2. CASE TurnOutput
  <2>1. PICK on \in BOOLEAN : Command(DeviceSendOutput(on))
    BY <1>2 DEF TurnOutput
  <2>2. CASE ConnSendFails /\ UNCHANGED <<state, pending>>
    BY <2>1, <2>2, FailedSendKeepsInv
  <2>3. CASE /\ ConnSends(Request("OUTPUT_SWITCH", state.address, on))
             /\ state' = [state EXCEPT !.output_on = on]
             /\ SetPending("OUTPUT", on, state.output_on)
    <3>1. Request("OUTPUT_SWITCH", state.address, on) \in Requests
      BY <1>1 DEF Request, Requests
    <3>2. state'.output_on = on
      BY <2>3 DEF Inv, TypeOK, DeviceTypeOK, States
    <3>3. \A d \in Ticks :
            [active |-> TRUE, kind |-> "OUTPUT", arg |-> on,
             prev |-> state.output_on, deadline |-> d] \in Pendings
      BY <1>1 DEF Pendings
    <3> QED
      BY <2>1, <2>3, <3>1, <3>2, <3>3, SendKeepsInv
  <2> QED
    BY <2>1, <2>2, <2>3 DEF DeviceSendOutput
<1>3. ASSUME NEW request \in Requests, NEW kind \in {"SIGNAL", "QUERY", "ADDR_SET"},
             NEW arg, Command(DeviceSend(request, kind, arg)),
             \A d \in Ticks : [active |-> TRUE, kind |-> kind, arg |-> arg,
                               prev |-> FALSE, deadline |-> d] \in Pendings
      PROVE  Inv'
  <2>1. CASE ConnSends(request) /\ SetPending(kind, arg, FALSE)
    BY <1>3, <2>1, SendKeepsInv DEF DeviceSend
  <2>2. CASE ConnSendFails /\ UNCHANGED pending
    BY <1>3, <2>2, FailedSendKeepsInv DEF DeviceSend
  <2> QED
    BY <1>3, <2>1, <2>2 DEF DeviceSend
<1>4. CASE ApplySignal
  <2>1. PICK s \in Signals : Command(DeviceApplySignalSettings(s))
    BY <1>4 DEF ApplySignal
  <2>2. Request("SIGNAL_CONTROL", state.address, s) \in Requests
    BY <1>1 DEF Request, Requests
  <2> QED
    BY <1>3, <2>1, <2>2 DEF DeviceApplySignalSettings, Pendings
<1>5. CASE ReadStatus
  <2>1. Request("STATUS_QUERY", state.address, UNKNOWN) \in Requests
    BY <1>1 DEF Request, Requests
  <2> QED
    BY <1>3, <1>5, <2>1 DEF ReadStatus, DeviceReadStatus, Pendings
<1>6. CASE QueryAddress
  <2>1. Request("ADDR_QUERY", Broadcast, UNKNOWN) \in Requests
    BY DEF Request, Requests
  <2> QED
    BY <1>3, <1>6, <2>1 DEF QueryAddress, DeviceQueryAddress, Pendings
<1>7. CASE SetAddress
  <2>1. PICK a \in Addresses : Command(DeviceSetAddress(a))
    BY <1>7 DEF SetAddress
  <2>2. Request("ADDR_SET", Broadcast, a) \in Requests
    BY DEF Request, Requests
  <2> QED
    BY <1>3, <2>1, <2>2 DEF DeviceSetAddress, Pendings
<1> QED
  BY <1>2, <1>4, <1>5, <1>6, <1>7

\* What opening and closing a port does to the module and to the requests on
\* their way to it: nothing, or another module is there and none is.
LEMMA PortMeetsModule ==
  ASSUME Connect \/ ConnectRetry \/ Disconnect \/ CloseWindow
  PROVE  \/ UNCHANGED <<out, unit>>
         \/ PortOpened /\ out' = <<>> /\ unit' \in Units
BY DEF Connect, ConnectRetry, Disconnect, CloseWindow, PortOpened, ModuleAtPort,
       ConnOpenFailed, ConnOpenDenied, ConnDisconnect

\* Opening (with its retry), closing and leaving keep the three records of
\* the port and the handle of the system together.
LEMMA PortKeepsInv ==
  ASSUME Inv, Connect \/ ConnectRetry \/ Disconnect \/ CloseWindow
  PROVE  Inv'
<1>1. /\ thread' \in {"idle", "retry", "exited"} /\ thread \in {"idle", "retry"}
      /\ chunk = <<>> /\ chunk' = <<>>
      /\ UNCHANGED <<pending, now, age>>
      /\ banner' \in {banner, "open_failed"}
      /\ rx' \in {rx, <<>>}
  BY DEF Connect, ConnectRetry, Disconnect, CloseWindow, PortOpened,
         ConnOpened,
         ConnOpenFailed, ConnOpenDenied, ConnDisconnect, SerialOpenOk,
         SerialOpenFails, SerialClose, DeviceOnConnectedChanged, Inv,
         ChunkIsBeingRead
<1>2. state' = [state EXCEPT !.connected = connected'] /\ state' \in States
  BY DEF Connect, ConnectRetry, Disconnect, CloseWindow, PortOpened,
         ConnOpened,
         ConnOpenFailed, ConnOpenDenied, ConnDisconnect, portVars,
         DeviceOnConnectedChanged, Inv, TypeOK, ConnTypeOK, DeviceTypeOK,
         States, PortStateAgrees
<1>3. /\ handle' \in {"INVALID", "OPEN"} /\ connected' \in BOOLEAN
      /\ connected' <=> handle' = "OPEN"
      /\ osOpen' = IF connected' THEN 1 ELSE 0
      /\ ~connected' => rx' = <<>>
      /\ thread' \in {"retry", "exited"} => ~connected'
  <2>1. /\ handle \in {"INVALID", "OPEN"} /\ connected \in BOOLEAN
        /\ connected <=> handle = "OPEN"
        /\ osOpen = IF connected THEN 1 ELSE 0
        /\ ~connected => rx = <<>>
        /\ thread = "retry" => ~connected
    BY DEF Inv, TypeOK, ConnTypeOK, PortStateAgrees
  <2>2. CASE Connect \/ ConnectRetry
    <3>1. ~connected
      BY <2>1, <2>2 DEF Connect, ConnectRetry, ConnIsConnected
    <3>2. CASE PortOpened
      <4>1. connected' = TRUE /\ handle' = "OPEN" /\ osOpen' = 1 /\ thread' = "idle"
        BY <3>2 DEF PortOpened, ConnOpened, SerialOpenOk
      <4> QED
        BY <4>1
    <3>3. CASE ConnOpenFailed \/ ConnOpenDenied
      <4>1. handle' = "INVALID" /\ UNCHANGED <<connected, osOpen, rx>>
        BY <3>3 DEF ConnOpenFailed, ConnOpenDenied, SerialOpenFails
      <4> QED
        BY <2>1, <3>1, <4>1
    <3> QED
      BY <2>2, <3>2, <3>3 DEF Connect, ConnectRetry
  <2>3. CASE ConnDisconnect
    <3>1. connected' = FALSE /\ handle' = "INVALID" /\ rx' = <<>>
      BY <2>3 DEF ConnDisconnect, SerialClose
    <3>2. osOpen' = 0
      BY <2>1, <2>3 DEF ConnDisconnect, SerialClose
    <3> QED
      BY <3>1, <3>2
  <2>4. CASE CloseWindow /\ ~ConnDisconnect
    BY <2>1, <2>4 DEF CloseWindow, ConnIsConnected, portVars
  <2>5. CASE Disconnect
    BY <2>3, <2>5 DEF Disconnect
  <2> QED
    BY <2>2, <2>3, <2>4, <2>5
<1>4. TypeOK'
  <2>1. out' \in Seq(Requests) /\ unit' \in Units
    <3>1. out \in Seq(Requests) /\ <<>> \in Seq(Requests) /\ unit \in Units
      BY DEF Inv, TypeOK, LineTypeOK, UnitTypeOK
    <3> QED
      BY <3>1, PortMeetsModule
  <2> QED
    BY <1>1, <1>2, <1>3, <2>1
    DEF Inv, TypeOK, ConnTypeOK, LineTypeOK, DeviceTypeOK, UnitTypeOK, Threads,
        Banners
<1>5. PortStateAgrees' /\ ChunkIsBeingRead'
  BY <1>1, <1>2, <1>3
  DEF PortStateAgrees, ChunkIsBeingRead, Inv, TypeOK, DeviceTypeOK, States
<1>6. PendingOutputIsShown' /\ AgeIsElapsed'
  BY <1>1, <1>2
  DEF Inv, TypeOK, DeviceTypeOK, States, PendingOutputIsShown, AgeIsElapsed
<1> QED
  BY <1>4, <1>5, <1>6 DEF Inv

\* Reading the driver's queue only moves frames.
LEMMA PollKeepsInv ==
  ASSUME Inv, TimerPoll
  PROVE  Inv'
<1>1. /\ thread = "idle" /\ chunk = <<>>
      /\ thread' = IF chunk' = <<>> THEN "timeout" ELSE "frames"
      /\ chunk' \in {<<>>, rx} /\ rx' \in {<<>>, rx}
      /\ ~connected => chunk' = <<>> /\ rx' = rx
      /\ banner' \in {banner, "read_failed"}
      /\ UNCHANGED <<handle, osOpen, connected, out, state, pending, now, unit, age>>
  BY DEF TimerPoll, ConnPoll, ConnIsConnected, portVars, deviceVars, Inv,
         ChunkIsBeingRead
<1>2. TypeOK'
  BY <1>1
  DEF Inv, TypeOK, ConnTypeOK, LineTypeOK, DeviceTypeOK, UnitTypeOK, Threads,
      Banners
<1>3. PortStateAgrees' /\ ChunkIsBeingRead'
  BY <1>1 DEF Inv, PortStateAgrees, ChunkIsBeingRead
<1>4. PendingOutputIsShown' /\ AgeIsElapsed'
  BY <1>1 DEF Inv, PendingOutputIsShown, AgeIsElapsed
<1> QED
  BY <1>2, <1>3, <1>4 DEF Inv

\* The argument of a command is one its kind can be applied with.
LEMMA PendingFits ==
  ASSUME NEW p \in Pendings
  PROVE  /\ p.kind = "OUTPUT" => p.arg \in BOOLEAN
         /\ p.kind = "SIGNAL" => p.arg \in Signals
         /\ p.kind = "ADDR_SET" => p.arg \in Addresses
         /\ p.prev \in BOOLEAN
         /\ p.active => p.deadline \in Ticks
<1>1. CASE p = NoPending
  BY <1>1 DEF NoPending
<1>2. CASE p # NoPending
  BY <1>2 DEF Pendings
<1> QED
  BY <1>1, <1>2

\* Whatever frame is handled, no command is pending afterwards, and the state
\* keeps its type because the argument of a command fits its kind.
LEMMA FrameKeepsInv ==
  ASSUME Inv, TimerFrame
  PROVE  Inv'
<1>1. /\ thread = "frames" /\ chunk # <<>>
      /\ Head(chunk) \in Replies /\ Tail(chunk) \in Seq(Replies)
  BY DEF TimerFrame, ConnNextFrame, Inv, TypeOK, LineTypeOK, ChunkIsBeingRead
<1>2. /\ chunk' = Tail(chunk)
      /\ thread' = IF chunk' = <<>> THEN "timeout" ELSE "frames"
      /\ UNCHANGED <<handle, osOpen, connected, out, rx, now, unit, age>>
  BY DEF TimerFrame, ConnNextFrame, portVars
<1>3. pending' = NoPending /\ banner' \in Banners
  BY DEF TimerFrame, DeviceOnFrame, CancelPending, Banners
<1>4. /\ AcceptedState \in States /\ AcceptedState.connected = state.connected
      /\ RevertedState \in States /\ RevertedState.connected = state.connected
  <2>1. /\ pending.kind = "OUTPUT" => pending.arg \in BOOLEAN
        /\ pending.kind = "SIGNAL" => pending.arg \in Signals
        /\ pending.kind = "ADDR_SET" => pending.arg \in Addresses
        /\ pending.prev \in BOOLEAN
    BY PendingFits DEF Inv, TypeOK, DeviceTypeOK
  <2> QED
    BY <2>1 DEF AcceptedState, RevertedState, Inv, TypeOK, DeviceTypeOK, States
<1>5. state' \in States /\ state'.connected = state.connected
  <2>1. CASE state' \in {AcceptedState, RevertedState, state}
    BY <1>4, <2>1 DEF Inv, TypeOK, DeviceTypeOK
  <2>2. CASE Head(chunk).type = "STATUS_QUERY" /\ state' = StatusState(Head(chunk))
    <3>1. Head(chunk).data \in Settings
      BY <1>1, <2>2 DEF Replies, AckTypes
    <3> QED
      BY <2>2, <3>1 DEF StatusState, Settings, Inv, TypeOK, DeviceTypeOK, States
  <2>3. CASE /\ Head(chunk).type = "ADDR_QUERY"
             /\ state' = [state EXCEPT !.address = Head(chunk).data,
                                       !.address_known = TRUE]
    <3>1. Head(chunk).data \in Addresses
      BY <1>1, <2>3 DEF Replies, AckTypes
    <3> QED
      BY <2>3, <3>1 DEF Inv, TypeOK, DeviceTypeOK, States
  <2> QED
    BY <2>1, <2>2, <2>3 DEF TimerFrame, DeviceOnFrame
<1>6. TypeOK'
  BY <1>1, <1>2, <1>3, <1>5
  DEF Inv, TypeOK, ConnTypeOK, LineTypeOK, DeviceTypeOK, UnitTypeOK, Threads,
      Pendings
<1>7. PortStateAgrees' /\ ChunkIsBeingRead'
  BY <1>1, <1>2, <1>5 DEF Inv, PortStateAgrees, ChunkIsBeingRead
<1>8. PendingOutputIsShown' /\ AgeIsElapsed'
  BY <1>3 DEF PendingOutputIsShown, AgeIsElapsed, NoPending
<1> QED
  BY <1>6, <1>7, <1>8 DEF Inv

\* Giving a command up, or finding that it is not yet time to.
LEMMA TimeoutKeepsInv ==
  ASSUME Inv, TimerTimeout
  PROVE  Inv'
<1>1. /\ thread = "timeout" /\ thread' = "idle" /\ banner' \in Banners
      /\ UNCHANGED <<handle, osOpen, connected, out, rx, chunk, now, unit, age>>
      /\ \/ state' = RevertedState /\ pending' = NoPending
         \/ UNCHANGED <<state, pending>>
  BY DEF TimerTimeout, DevicePollTimeout, CancelPending, portVars, lineVars,
         Banners, Inv, TypeOK, ConnTypeOK
<1>2. RevertedState \in States /\ RevertedState.connected = state.connected
  BY PendingFits DEF RevertedState, Inv, TypeOK, DeviceTypeOK, States
<1>3. TypeOK'
  BY <1>1, <1>2
  DEF Inv, TypeOK, ConnTypeOK, LineTypeOK, DeviceTypeOK, UnitTypeOK, Threads,
      Pendings
<1>4. PortStateAgrees' /\ ChunkIsBeingRead'
  BY <1>1, <1>2 DEF Inv, PortStateAgrees, ChunkIsBeingRead
<1>5. PendingOutputIsShown' /\ AgeIsElapsed'
  BY <1>1 DEF Inv, PendingOutputIsShown, AgeIsElapsed, NoPending
<1> QED
  BY <1>3, <1>4, <1>5 DEF Inv

\* The clock and the age of the pending command advance together.
LEMMA ClockKeepsInv ==
  ASSUME Inv, ClockTick
  PROVE  Inv'
<1>1. /\ UNCHANGED <<portVars, thread, lineVars, banner, state, pending, unit>>
      /\ now \in Ticks /\ now' = TickAdd(now, 1)
      /\ age \in 0 .. MaxAge /\ MaxAge \in Nat
  BY Durations DEF ClockTick, Inv, TypeOK, DeviceTypeOK, UnitTypeOK
<1>2. 1 \in 0 .. TickMod - 1
  BY HalfRangeAssumption DEF TickMod
<1>3. now' \in Ticks
  BY <1>1, <1>2, TickAddType
<1>4. CASE pending.active /\ thread # "exited"
  <2>1. age < MaxAge /\ age' = age + 1
    BY <1>4 DEF ClockTick
  <2>2. age + 1 <= MaxAge /\ age' \in 0 .. MaxAge /\ age \in Nat
    BY <1>1, <2>1
  <2>3. pending.deadline \in Ticks
    BY <1>4, PendingFits DEF Inv, TypeOK, DeviceTypeOK
  <2>4. AgeIsElapsed'
    BY <1>1, <1>4, <2>1, <2>2, <2>3, TickAddOne DEF Inv, AgeIsElapsed
  <2> QED
    BY <1>1, <1>3, <2>2, <2>4
    DEF Inv, TypeOK, ConnTypeOK, LineTypeOK, DeviceTypeOK, UnitTypeOK,
        PortStateAgrees, ChunkIsBeingRead, PendingOutputIsShown, portVars,
        lineVars
<1>5. CASE ~(pending.active /\ thread # "exited")
  <2>1. age' = age
    BY <1>5 DEF ClockTick
  <2> QED
    BY <1>1, <1>3, <1>5, <2>1
    DEF Inv, TypeOK, ConnTypeOK, LineTypeOK, DeviceTypeOK, UnitTypeOK,
        PortStateAgrees, ChunkIsBeingRead, PendingOutputIsShown, AgeIsElapsed,
        portVars, lineVars
<1> QED
  BY <1>4, <1>5

\* The module only takes requests off the line and puts replies on it.
LEMMA UnitKeepsInv ==
  ASSUME Inv, UnitAct
  PROVE  Inv'
<1>1. out # <<>>
  BY DEF UnitAct, UnitIgnores, UnitAccepts, UnitRejects, UnitReports
<1>2. Head(out) \in Requests /\ Tail(out) \in Seq(Requests)
  BY <1>1 DEF Inv, TypeOK, LineTypeOK
<1>3. ASSUME NEW reply \in Replies, Answer(reply),
             unit' \in Units
      PROVE  Inv'
  <2>1. /\ rx' \in Seq(Replies) /\ out' \in Seq(Requests)
        /\ ~connected => rx' = rx
        /\ UNCHANGED <<handle, osOpen, connected, thread, chunk, banner, state,
                       pending, now, age>>
    <3>1. [type |-> "UNMATCHED"] \in Replies
      BY DEF Replies
    <3>2. /\ out' = Tail(out) /\ rx' \in {rx, Append(rx, reply),
                                           Append(rx, [type |-> "UNMATCHED"])}
          /\ rx' # rx => handle = "OPEN"
          /\ UNCHANGED <<handle, osOpen, connected, thread, chunk, banner,
                         state, pending, now, age>>
      BY <1>3 DEF Answer, portVars, deviceVars
    <3>3. rx \in Seq(Replies) /\ (connected <=> handle = "OPEN")
      BY DEF Inv, TypeOK, LineTypeOK, PortStateAgrees
    <3>4. \A r \in Replies : Append(rx, r) \in Seq(Replies)
      BY <3>3
    <3>5. rx' \in Seq(Replies)
      BY <1>3, <3>1, <3>2, <3>3, <3>4
    <3> QED
      BY <1>2, <3>2, <3>3, <3>5
  <2> QED
    BY <1>3, <2>1
    DEF Inv, TypeOK, ConnTypeOK, LineTypeOK, DeviceTypeOK, UnitTypeOK,
        PortStateAgrees, ChunkIsBeingRead, PendingOutputIsShown, AgeIsElapsed
<1>4. CASE UnitIgnores
  BY <1>2, <1>4
  DEF UnitIgnores, Inv, TypeOK, ConnTypeOK, LineTypeOK, DeviceTypeOK,
      UnitTypeOK, PortStateAgrees, ChunkIsBeingRead, PendingOutputIsShown,
      AgeIsElapsed, portVars, deviceVars
<1>5. CASE UnitAccepts
  <2>1. Done(Head(out)) \in Replies
    BY <1>2, <1>5 DEF UnitAccepts, Done, AckTypes, Requests, Replies
  <2>2. unit' \in Units
    BY <1>2, <1>5
    DEF UnitAccepts, FieldOf, AckTypes, Requests, Inv, TypeOK, UnitTypeOK, Units
  <2> QED
    BY <1>3, <1>5, <2>1, <2>2 DEF UnitAccepts
<1>6. CASE UnitRejects
  <2>1. [type |-> Head(out).type, data |-> "FAILED"] \in Replies
    BY <1>6 DEF UnitRejects, Replies
  <2> QED
    BY <1>3, <1>6, <2>1 DEF UnitRejects, Inv, TypeOK, UnitTypeOK
<1>7. CASE UnitReports
  <2>1. /\ unit \in Units /\ unit.address \in Addresses
        /\ unit.output \in BOOLEAN /\ unit.signal \in Signals
    BY DEF Inv, TypeOK, UnitTypeOK, Units
  <2>2. [type |-> "STATUS_QUERY",
         data |-> [output_on |-> unit.output, signal |-> unit.signal]] \in Replies
    BY <2>1 DEF Replies, Settings
  <2>3. [type |-> "ADDR_QUERY", data |-> unit.address] \in Replies
    BY <2>1 DEF Replies
  <2> QED
    BY <1>3, <1>7, <2>1, <2>2, <2>3 DEF UnitReports
<1> QED
  BY <1>4, <1>5, <1>6, <1>7 DEF UnitAct

\* Every step keeps the invariant.
LEMMA NextInv == Inv /\ [Next]_vars => Inv'
<1> SUFFICES ASSUME Inv, [Next]_vars PROVE Inv'
  OBVIOUS
<1>1. CASE UserAct
  BY <1>1, CommandsKeepInv, PortKeepsInv DEF UserAct, AnyCommand
<1>2. CASE ThreadAct
  BY <1>2, PollKeepsInv, FrameKeepsInv, TimeoutKeepsInv, PortKeepsInv
  DEF ThreadAct
<1>3. CASE ClockTick
  BY <1>3, ClockKeepsInv
<1>4. CASE UnitAct
  BY <1>4, UnitKeepsInv
<1>5. CASE UNCHANGED vars
  BY <1>5
  DEF vars, Inv, TypeOK, ConnTypeOK, LineTypeOK, DeviceTypeOK, UnitTypeOK,
      PortStateAgrees, ChunkIsBeingRead, PendingOutputIsShown, AgeIsElapsed
<1> QED
  BY <1>1, <1>2, <1>3, <1>4, <1>5 DEF Next

\* The inductive invariant holds in every reachable state.
THEOREM Invariance == Spec => []Inv
BY InitInv, NextInv, PTL DEF Spec

-----------------------------------------------------------------------------
(* The theorems *)

\* Every variable keeps its type, and the argument of the pending command
\* fits the branch of device_on_frame that will use it.
THEOREM TypeCorrect == Spec => []TypeOK
<1>1. Inv => TypeOK
  BY DEF Inv
<1> QED
  BY <1>1, Invariance, PTL

\* The handle, Connection.connected, DeviceState.connected and what the
\* system holds open for the process agree in every reachable state.
THEOREM PortCorrect == Spec => []PortStateAgrees
<1>1. Inv => PortStateAgrees
  BY DEF Inv
<1> QED
  BY <1>1, Invariance, PTL

\* The output shown is the one the pending output command asked for, so its
\* revert undoes that command and nothing else.
THEOREM OptimismCorrect == Spec => []PendingOutputIsShown
<1>1. Inv => PendingOutputIsShown
  BY DEF Inv
<1> QED
  BY <1>1, Invariance, PTL

\* A command times out at the first timer tick after its time, and ends in no
\* other way but by a frame.
THEOREM TimeoutCorrect == Spec => TimeoutIsExact
<1> DEFINE Exact ==
      pending.active =>
        /\ thread = "timeout" /\ thread' # thread
             => (pending'.active <=> age < Timeout)
        /\ ~pending'.active => thread = "timeout" \/ chunk' # chunk
<1>1. ASSUME Inv, [Next]_vars, pending.active PROVE Exact
  <2>1. CASE TimerTimeout
    <3>1. /\ thread = "timeout" /\ pending.deadline \in Ticks /\ now \in Ticks
          /\ age \in 0 .. MaxAge /\ age \in Nat /\ Timeout \in Nat
      BY <1>1, <2>1, Durations, PendingFits
      DEF TimerTimeout, DevicePollTimeout, Inv, TypeOK, DeviceTypeOK, UnitTypeOK
    <3>2. TimedOut <=> age >= Timeout
      BY <1>1, <3>1, DeadlinePassedMeansElapsed DEF TimedOut, Inv, AgeIsElapsed
    <3>3. pending'.active <=> ~TimedOut
      BY <1>1, <2>1
      DEF TimerTimeout, DevicePollTimeout, CancelPending, NoPending
    <3> QED
      BY <3>1, <3>2, <3>3
  <2>2. CASE TimerFrame
    <3>1. thread = "frames" /\ chunk' = Tail(chunk) /\ chunk # <<>>
      BY <1>1, <2>2 DEF TimerFrame, ConnNextFrame, Inv, ChunkIsBeingRead
    <3>2. chunk \in Seq(Replies)
      BY <1>1 DEF Inv, TypeOK, LineTypeOK
    <3> QED
      BY <3>1, <3>2
  <2>3. CASE /\ ~TimerTimeout /\ ~TimerFrame
    <3>1. thread = "timeout" => thread' = thread
      BY <1>1, <2>3
      DEF Next, UserAct, AnyCommand, ThreadAct, UnitAct, vars, TurnOutput, ApplySignal,
          ReadStatus, QueryAddress, SetAddress, Command, MayCommand, Connect,
          ConnectRetry, Disconnect, CloseWindow, TimerPoll, ConnPoll,
          ClockTick, UnitIgnores, UnitAccepts, UnitRejects, UnitReports, Answer
    <3>2. pending' = pending \/ pending'.active
      BY <1>1, <2>3
      DEF Next, UserAct, AnyCommand, ThreadAct, UnitAct, vars, TurnOutput, ApplySignal,
          ReadStatus, QueryAddress, SetAddress, Command, DeviceSendOutput,
          DeviceApplySignalSettings, DeviceReadStatus, DeviceQueryAddress,
          DeviceSetAddress, DeviceSend, SetPending, Connect, ConnectRetry,
          Disconnect, CloseWindow, PortOpened, DeviceOnConnectedChanged, TimerPoll,
          deviceVars, ClockTick, UnitIgnores, UnitAccepts, UnitRejects,
          UnitReports, Answer
    <3> QED
      BY <1>1, <3>1, <3>2
  <2> QED
    BY <2>1, <2>2, <2>3
<1>2. Inv /\ [Next]_vars => [Exact]_vars
  BY <1>1
<1> QED
  BY <1>2, Invariance, PTL DEF Spec, TimeoutIsExact

=============================================================================
