------------------------------- MODULE TxLite -------------------------------
(***************************************************************************)
(* The program at the end of its serial line: the user's commands, the     *)
(* 50 ms timer (main.c), device.c over connection.c, and on the other side *)
(* the clock and the RF module.  The module is not part of this code; it   *)
(* is modelled by the frames device.c sends to it and expects from it.     *)
(***************************************************************************)
EXTENDS Device

CONSTANTS
  Overlap,    \* the user may send a command while one is pending
  Late,       \* an answer may come after the command timed out
  Lossy,      \* the line may lose frames
  Garbled,    \* the module may answer with a frame no branch matches
  Exchange,   \* another module may be behind the port that is opened next
  LineMax,    \* bound: frames on the line and in the queues
  MaxAge      \* bound: ticks the UI thread may stall past a command

ASSUME TxLiteAssumption ==
  /\ {Overlap, Late, Lossy, Garbled, Exchange} \subseteq BOOLEAN
  /\ LineMax \in Nat \ {0}
  /\ MaxAge \in Timeout .. Timeout + HalfRange - 1

VARIABLES
  unit,   \* the module: its address, RF output and signal
  age     \* ticks since the pending command was sent

vars == <<handle, osOpen, connected, thread, out, rx, chunk, banner,
          state, pending, now, unit, age>>

Units == [address : Addresses, output : BOOLEAN, signal : Signals]

\* The field of the module that a command changes.
FieldOf(type) == CASE type = "OUTPUT_SWITCH" -> "output"
                   [] type = "SIGNAL_CONTROL" -> "signal"
                   [] type = "ADDR_SET" -> "address"

Frames == Len(out) + Len(rx) + Len(chunk)

Init ==
  /\ ConnInit
  /\ DeviceInit
  /\ now \in Ticks
  /\ unit \in Units
  /\ age = 0

-----------------------------------------------------------------------------
(* The user *)

\* Clicks reach the window between handlers.  Nothing in the window stops a
\* second command before the first is answered; ~Overlap is a user who waits.
MayCommand == thread = "idle" /\ (Overlap \/ ~pending.active) /\ Frames < LineMax

Command(deviceCall) ==
  /\ MayCommand
  /\ deviceCall
  /\ age' = IF out' = out THEN age ELSE 0
  /\ UNCHANGED <<portVars, thread, rx, chunk, now, unit>>

TurnOutput == \E on \in BOOLEAN : Command(DeviceSendOutput(on))
ApplySignal == \E s \in Signals : Command(DeviceApplySignalSettings(s))
ReadStatus == Command(DeviceReadStatus)
QueryAddress == Command(DeviceQueryAddress)
SetAddress == \E a \in Addresses : Command(DeviceSetAddress(a))

\* The port is the one selected now.  Behind it is the module as it was
\* left, or else another one, or one that was changed while no port was
\* open; requests on their way to the old one do not reach it.
ModuleAtPort ==
  \/ UNCHANGED <<out, unit>>
  \/ Exchange /\ out' = <<>> /\ unit' \in Units

\* DeviceState and the pending command are what they were, but for the flag.
PortOpened == ConnOpened /\ ModuleAtPort /\ DeviceOnConnectedChanged(TRUE)

Connect ==
  /\ thread = "idle" /\ ~ConnIsConnected
  /\ \/ PortOpened
     \/ (ConnOpenFailed \/ ConnOpenDenied) /\ UNCHANGED <<state, pending, unit>>
  /\ UNCHANGED <<now, age>>

\* The second open of conn_connect, 300 ms later.
ConnectRetry ==
  /\ thread = "retry"
  /\ \/ PortOpened
     \/ ConnOpenFailed /\ UNCHANGED <<state, pending, unit>>
  /\ UNCHANGED <<now, age>>

Disconnect ==
  /\ thread = "idle" /\ ConnIsConnected
  /\ ConnDisconnect
  /\ DeviceOnConnectedChanged(FALSE)
  /\ UNCHANGED <<thread, now, unit, age>>

\* WM_DESTROY: the timer is killed and an open port closed.
CloseWindow ==
  /\ thread = "idle"
  /\ IF ConnIsConnected
       THEN ConnDisconnect /\ DeviceOnConnectedChanged(FALSE)
       ELSE UNCHANGED <<portVars, out, rx, chunk, banner, state, pending>>
  /\ thread' = "exited"
  /\ UNCHANGED <<now, unit, age>>

-----------------------------------------------------------------------------
(* The timer *)

TimerPoll ==
  /\ ConnPoll
  /\ UNCHANGED <<deviceVars, unit, age>>

TimerFrame ==
  /\ ConnNextFrame
  /\ DeviceOnFrame(Head(chunk))
  /\ UNCHANGED <<now, unit, age>>

TimerTimeout ==
  /\ DevicePollTimeout
  /\ UNCHANGED <<now, unit, age>>

-----------------------------------------------------------------------------
(* The clock and the module *)

\* A module that answers in time has its answer in the driver's queue, or
\* the request is lost, before the last ReadFile ahead of the deadline.
InTime ==
  \/ Late \/ ~pending.active
  \/ age + 1 < Timeout
  \/ out = <<>> /\ (thread = "idle" \/ rx = <<>>)

\* Time passes whatever the thread does; its longest stall is bounded.
ClockTick ==
  /\ now' = TickAdd(now, 1)
  /\ IF pending.active /\ thread # "exited"
       THEN age < MaxAge /\ InTime /\ age' = age + 1
       ELSE age' = age
  /\ UNCHANGED <<portVars, thread, lineVars, banner, state, pending, unit>>

\* The next request is lost, or it is for another address.
UnitIgnores ==
  /\ out # <<>>
  /\ Lossy \/ Head(out).addr \notin {unit.address, Broadcast}
  /\ out' = Tail(out)
  /\ UNCHANGED <<portVars, thread, rx, chunk, banner, deviceVars, unit, age>>

\* The module takes the next request and sends a reply, which reaches the
\* driver's queue if a port is open and the line does not lose it.
Answer(reply) ==
  /\ out # <<>>
  /\ Head(out).addr \in {unit.address, Broadcast}
  /\ out' = Tail(out)
  /\ \/ handle = "OPEN" /\ rx' = Append(rx, reply)
     \/ handle = "OPEN" /\ Garbled /\ rx' = Append(rx, [type |-> "UNMATCHED"])
     \/ (handle = "OPEN" => Lossy) /\ UNCHANGED rx
  /\ UNCHANGED <<portVars, thread, chunk, banner, deviceVars, age>>

\* The module does what it is told.  "did" is not in the frame: it keeps
\* for the properties which command the success code answers.
Done(request) ==
  [type |-> request.type, data |-> "SUCCESS", did |-> request.arg]

UnitAccepts ==
  /\ out # <<>> /\ Head(out).type \in AckTypes
  /\ Answer(Done(Head(out)))
  /\ unit' = [unit EXCEPT ![FieldOf(Head(out).type)] = Head(out).arg]

UnitRejects ==
  /\ out # <<>> /\ Head(out).type \in AckTypes
  /\ Answer([type |-> Head(out).type, data |-> "FAILED"])
  /\ UNCHANGED unit

UnitReports ==
  /\ out # <<>>
  /\ \/ /\ Head(out).type = "STATUS_QUERY"
        /\ Answer([type |-> "STATUS_QUERY",
                   data |-> [output_on |-> unit.output, signal |-> unit.signal]])
     \/ /\ Head(out).type = "ADDR_QUERY"
        /\ Answer([type |-> "ADDR_QUERY", data |-> unit.address])
  /\ UNCHANGED unit

-----------------------------------------------------------------------------

AnyCommand ==
  TurnOutput \/ ApplySignal \/ ReadStatus \/ QueryAddress \/ SetAddress

\* What the user does with the mouse.
UserAct == AnyCommand \/ Connect \/ Disconnect \/ CloseWindow

\* What the UI thread does by itself.
ThreadAct == TimerPoll \/ TimerFrame \/ TimerTimeout \/ ConnectRetry

UnitAct == UnitIgnores \/ UnitAccepts \/ UnitRejects \/ UnitReports

Next == UserAct \/ ThreadAct \/ ClockTick \/ UnitAct

Spec == Init /\ [][Next]_vars

\* SetTimer's WM_TIMER keeps coming, a handler that started goes on, and
\* time passes.  Neither the user nor the module owes anything.
Fairness == WF_vars(ThreadAct) /\ WF_vars(ClockTick)

FairSpec == Spec /\ Fairness

-----------------------------------------------------------------------------
(* Properties *)

Settings == [output_on : BOOLEAN, signal : Signals]

Requests ==
  [type : {"OUTPUT_SWITCH"}, addr : Addresses, arg : BOOLEAN]
    \cup [type : {"SIGNAL_CONTROL"}, addr : Addresses, arg : Signals]
    \cup [type : {"STATUS_QUERY"}, addr : Addresses, arg : {UNKNOWN}]
    \cup [type : {"ADDR_QUERY"}, addr : {Broadcast}, arg : {UNKNOWN}]
    \cup [type : {"ADDR_SET"}, addr : {Broadcast}, arg : Addresses]

Replies ==
  [type : {"OUTPUT_SWITCH"}, data : {"SUCCESS"}, did : BOOLEAN]
    \cup [type : {"SIGNAL_CONTROL"}, data : {"SUCCESS"}, did : Signals]
    \cup [type : {"ADDR_SET"}, data : {"SUCCESS"}, did : Addresses]
    \cup [type : AckTypes, data : {"FAILED"}]
    \cup [type : {"STATUS_QUERY"}, data : Settings]
    \cup [type : {"ADDR_QUERY"}, data : Addresses]
    \cup [type : {"UNMATCHED"}]

Pendings ==
  {NoPending}
    \cup [active : {TRUE}, kind : {"OUTPUT"}, arg : BOOLEAN, prev : BOOLEAN,
          deadline : Ticks]
    \cup [active : {TRUE}, kind : {"SIGNAL"}, arg : Signals, prev : {FALSE},
          deadline : Ticks]
    \cup [active : {TRUE}, kind : {"ADDR_SET"}, arg : Addresses,
          prev : {FALSE}, deadline : Ticks]
    \cup [active : {TRUE}, kind : {"QUERY"}, arg : {UNKNOWN}, prev : {FALSE},
          deadline : Ticks]

ConnTypeOK ==
  /\ handle \in {"INVALID", "OPEN"}
  /\ osOpen \in {0, 1}
  /\ connected \in BOOLEAN
  /\ thread \in Threads
  /\ banner \in Banners

LineTypeOK == out \in Seq(Requests) /\ rx \in Seq(Replies) /\ chunk \in Seq(Replies)

States ==
  [connected : BOOLEAN, address : Addresses, address_known : BOOLEAN,
   output_on : BOOLEAN, signal : Signals \cup {UNKNOWN}]

DeviceTypeOK == state \in States /\ pending \in Pendings /\ now \in Ticks

UnitTypeOK ==
  /\ unit \in Units
  /\ age \in 0 .. MaxAge

\* Every variable keeps its type: in particular the argument of the pending
\* command is always one its kind can be applied with (device.c's switch in
\* device_on_frame reads the field the kind selects without a check).
TypeOK == ConnTypeOK /\ LineTypeOK /\ DeviceTypeOK /\ UnitTypeOK

\* The three records of "is the port open" (the handle, Connection.connected
\* and the DeviceState.connected the window shows) agree with what the
\* system holds for the process, whatever opening, the retry, closing and
\* the end of the window did; and no answer outlives its port.
PortStateAgrees ==
  /\ connected <=> handle = "OPEN"
  /\ state.connected = connected
  /\ osOpen = IF connected THEN 1 ELSE 0
  /\ ~connected => rx = <<>> /\ chunk = <<>>
  /\ thread \in {"retry", "exited"} => ~connected

\* While an output command is pending the window shows the state it asked
\* for: no frame, reconnection or other command changes the output behind
\* a pending switch, so the revert of device_poll_timeout undoes that switch
\* and nothing else.
PendingOutputIsShown ==
  pending.active /\ pending.kind = "OUTPUT" => state.output_on = pending.arg

\* device_poll_timeout gives a command up at the first timer tick at which
\* DEVICE_RESPONSE_TIMEOUT_MS have passed since it was sent, never before
\* and never later, wherever the tick count wraps around; and nothing but
\* that and a frame ends a command, a new connection included.
TimeoutIsExact ==
  [][pending.active =>
       /\ thread = "timeout" /\ thread' # thread
            => (pending'.active <=> age < Timeout)
       /\ ~pending'.active => thread = "timeout" \/ chunk' # chunk]_vars

\* Every command is answered, times out or is replaced by another one: no
\* command is pending for ever unless the user goes on sending new ones, not
\* even if the port is closed and opened all the time.  Opens that are denied
\* for ever are the exception: clicks come before timer messages, and each
\* of them holds the thread for 300 ms.
EveryCommandIsSettled ==
  \/ []<>(~pending.active \/ thread = "exited")
  \/ []<><<AnyCommand>>_vars
  \/ []<><<ConnectRetry>>_vars

=============================================================================
