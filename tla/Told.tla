-------------------------------- MODULE Told --------------------------------
(***************************************************************************)
(* What the RF module has told the program, kept beside the program: two   *)
(* history variables over TxLite, and the properties that compare what the *)
(* window shows with what was told and with what the module really does.   *)
(***************************************************************************)
EXTENDS TxLite

VARIABLES
  heard,  \* per field, what the module's answers last said of it
  stale   \* fields changed since: by a command whose answer was lost, or with
          \* the module behind the port

toldVars == <<heard, stale>>

allVars == <<vars, toldVars>>

Fields == {"output", "signal", "address"}

ToldInit ==
  /\ Init
  /\ heard = [f \in Fields |-> UNKNOWN]
  /\ stale = {}

\* What frame f says of the module, whatever device_on_frame makes of it.
Says(f) ==
  CASE f.type \in AckTypes /\ f.data = "SUCCESS" ->
         [x \in {FieldOf(f.type)} |-> f.did]
    [] f.type = "STATUS_QUERY" ->
         [output |-> f.data.output_on, signal |-> f.data.signal]
    [] f.type = "ADDR_QUERY" -> [address |-> f.data]
    [] OTHER -> <<>>

\* The fields of which the replies would have told a change.
Untold(replies) ==
  {FieldOf(replies[i].type) : i \in
     {j \in DOMAIN replies : replies[j].type \in AckTypes
                               /\ replies[j].data = "SUCCESS"}}

\* A frame is heard when it reaches device_on_frame.
HearFrame ==
  /\ TimerFrame
  /\ LET said == Says(Head(chunk)) IN
       heard' = [x \in Fields |-> IF x \in DOMAIN said THEN said[x] ELSE heard[x]]
  /\ stale' = stale \ DOMAIN Says(Head(chunk))

\* Answers in the driver's queue go with the handle, and what was heard was
\* heard of the module that was there.
LoseQueue ==
  /\ Connect \/ ConnectRetry \/ Disconnect \/ CloseWindow
  /\ stale' = IF unit' = unit THEN stale \cup Untold(rx) ELSE Fields
  /\ UNCHANGED heard

\* The module obeys a command, and its answer may be lost on the line.
Obey ==
  /\ UnitAccepts
  /\ stale' = IF rx' = Append(rx, Done(Head(out)))
                 THEN stale ELSE stale \cup {FieldOf(Head(out).type)}
  /\ UNCHANGED heard

OtherSteps ==
  /\ \/ AnyCommand
     \/ TimerPoll \/ TimerTimeout \/ ClockTick
     \/ UnitIgnores \/ UnitRejects \/ UnitReports
  /\ UNCHANGED toldVars

ToldNext == HearFrame \/ LoseQueue \/ Obey \/ OtherSteps

ToldSpec == ToldInit /\ [][ToldNext]_allVars

-----------------------------------------------------------------------------
(* Properties *)

\* The history variables keep their types.
ToldTypeOK ==
  /\ TypeOK
  /\ heard \in [Fields -> Args]
  /\ stale \subseteq Fields

\* Once every command is settled the output shown is what the module last
\* said, or OFF before it said anything: the optimistic switch of
\* device_send_output is undone unless the module confirmed it.
OutputIsHeard ==
  ~pending.active /\ Frames = 0 =>
    state.output_on = IF heard["output"] = UNKNOWN THEN FALSE
                                                   ELSE heard["output"]

\* A switch the module never answered is not left standing: while it has
\* said nothing of its output, a program with no command pending shows the
\* OFF it started with (the comment in device_send_output: "reverted ... if
\* the device rejects it or never responds").
UnansweredSwitchIsUndone ==
  ~pending.active /\ Frames = 0 /\ heard["output"] = UNKNOWN => ~state.output_on

\* The signal shown is what the module last said: no acknowledgement is
\* missed, and none is taken for settings it did not acknowledge.
SignalIsHeard == state.signal = heard["signal"]

\* The signal shown changes only to what the module has just acknowledged or
\* reported (device.h: signal changes "only take effect on ACK").
SignalChangesOnAck ==
  [][state'.signal # state.signal => state'.signal = heard'["signal"]]_allVars

\* The address is shown as known only once the module has confirmed it
\* (DeviceState.address_known in device.h).
KnownAddressIsConfirmed == state.address_known => heard["address"] # UNKNOWN

\* ... and then it is the address the module last told.
AddressIsHeard ==
  state.address_known => state.address = heard["address"]

\* With no command pending, no request or answer is left on the way that
\* could be taken for the answer to the next command.
IdleIsQuiet == ~pending.active => Frames = 0

\* What the window shows.
Shown == [output |-> state.output_on, signal |-> state.signal,
          address |-> state.address]

\* With no command pending, the window is right about the module behind the
\* port: each setting it was ever told of is shown as the module has it now,
\* unless the answer to a command that changed it was lost, or the module is
\* another or a changed one and has not spoken of it yet (device_on_connected_changed
\* keeps all that is shown).
IdleMatchesUnit ==
  ~pending.active =>
    \A f \in Fields \ stale : heard[f] # UNKNOWN => Shown[f] = unit[f]

\* The program against the promise of device.h: a pending output command is the
\* guess, and an address that is not known is shown as "-".
Promise ==
  INSTANCE View WITH
    guess <- pending.active /\ pending.kind = "OUTPUT",
    shown <- [Shown EXCEPT !.address = IF state.address_known THEN @ ELSE UNKNOWN]

\* Every step of the program shows what the promise allows: a setting changes
\* only to what the module just said, a guess is the output's alone, one at
\* a time, and gone without a trace when it is rejected or times out.
KeepsPromise == Promise!Spec

=============================================================================
