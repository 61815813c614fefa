------------------------------- MODULE Device -------------------------------
(***************************************************************************)
(* device.c: what the program believes of the module (state), the one      *)
(* command it is waiting on (pending), and the handlers that change them.  *)
(*                                                                         *)
(* Mode, frequency, bandwidth and power always change together; they are   *)
(* one value, the signal.  pending.arg stands for output_new, the sig_*    *)
(* fields or addr_new, whichever pending.kind makes meaningful, and        *)
(* pending.prev for output_prev.                                           *)
(***************************************************************************)
EXTENDS Connection, TickCount

CONSTANTS
  Signals,        \* signal settings a user can apply or a module report
  Addresses,      \* module addresses
  Address0,       \* the address of a zeroed DeviceState
  Broadcast,      \* PROTO_BROADCAST_ADDR
  UNKNOWN,        \* DEVICE_UNKNOWN: no value yet
  Timeout         \* DEVICE_RESPONSE_TIMEOUT_MS, in ticks

ASSUME DeviceAssumption ==
  /\ Address0 \in Addresses
  /\ Broadcast \notin Addresses
  /\ UNKNOWN \notin BOOLEAN /\ UNKNOWN \notin Signals /\ UNKNOWN \notin Addresses
  /\ Timeout \in 1 .. HalfRange

VARIABLES
  state,      \* DeviceState
  pending,    \* PendingCommand
  now         \* what GetTickCount() returns

deviceVars == <<state, pending, now>>

\* Commands and queries that are answered with a result code.
AckTypes == {"OUTPUT_SWITCH", "SIGNAL_CONTROL", "ADDR_SET"}

Args == BOOLEAN \cup Signals \cup Addresses \cup {UNKNOWN}

\* The request frames the proto_build_ functions make.
Request(type, addr, arg) == [type |-> type, addr |-> addr, arg |-> arg]

-----------------------------------------------------------------------------

NoPending ==
  [active |-> FALSE, kind |-> "NONE", arg |-> UNKNOWN, prev |-> FALSE,
   deadline |-> 0]

DeviceInit ==
  /\ state = [connected |-> FALSE, address |-> Address0,
              address_known |-> FALSE, output_on |-> FALSE,
              signal |-> UNKNOWN]
  /\ pending = NoPending

\* device_cancel_pending.  The fields it leaves behind are not read again
\* before device_set_pending and its caller have written them.
CancelPending == pending' = NoPending

\* device_set_pending with the deadline added up in a wider type.
SetPendingWide(kind, arg, prev) ==
  pending' = [active |-> TRUE, kind |-> kind, arg |-> arg, prev |-> prev,
              deadline |-> now + Timeout]

\* device_set_pending with what its caller stores after it.
SetPending(kind, arg, prev) ==
  pending' = [active |-> TRUE, kind |-> kind, arg |-> arg, prev |-> prev,
              deadline |-> TickAdd(now, Timeout)]

\* device_send_output without the revert of a send that failed outright.
DeviceSendOutputKept(on) ==
  \/ /\ ConnSends(Request("OUTPUT_SWITCH", state.address, on))
     /\ state' = [state EXCEPT !.output_on = on]
     /\ SetPending("OUTPUT", on, state.output_on)
  \/ /\ ConnSendFails
     /\ state' = [state EXCEPT !.output_on = on]
     /\ UNCHANGED pending

\* device_send_output that notes the new value as the one to go back to.
DeviceSendOutputForgets(on) ==
  \/ /\ ConnSends(Request("OUTPUT_SWITCH", state.address, on))
     /\ state' = [state EXCEPT !.output_on = on]
     /\ SetPending("OUTPUT", on, on)
  \/ /\ ConnSendFails
     /\ UNCHANGED <<state, pending>>

\* device_send_output: the output is shown switched before the module has
\* answered, and shown as it was if the frame could not be sent.
DeviceSendOutput(on) ==
  \/ /\ ConnSends(Request("OUTPUT_SWITCH", state.address, on))
     /\ state' = [state EXCEPT !.output_on = on]
     /\ SetPending("OUTPUT", on, state.output_on)
  \/ /\ ConnSendFails
     /\ UNCHANGED <<state, pending>>

\* The four commands that change nothing shown before an answer.
DeviceSend(request, kind, arg) ==
  /\ \/ ConnSends(request) /\ SetPending(kind, arg, FALSE)
     \/ ConnSendFails /\ UNCHANGED pending
  /\ UNCHANGED state

DeviceApplySignalSettings(signal) ==
  DeviceSend(Request("SIGNAL_CONTROL", state.address, signal),
             "SIGNAL", signal)

DeviceReadStatus ==
  DeviceSend(Request("STATUS_QUERY", state.address, UNKNOWN),
             "QUERY", UNKNOWN)

DeviceQueryAddress ==
  DeviceSend(Request("ADDR_QUERY", Broadcast, UNKNOWN), "QUERY", UNKNOWN)

DeviceSetAddress(new_addr) ==
  DeviceSend(Request("ADDR_SET", Broadcast, new_addr), "ADDR_SET", new_addr)

-----------------------------------------------------------------------------
(* device_on_frame *)

\* The switch of device_on_frame without the break after PENDING_SIGNAL.
AcceptedStateFallsThrough ==
  CASE pending.kind = "OUTPUT" -> [state EXCEPT !.output_on = pending.arg]
    [] pending.kind = "SIGNAL" ->
         [state EXCEPT !.signal = pending.arg, !.address_known = TRUE]
    [] pending.kind = "ADDR_SET" ->
         [state EXCEPT !.address = pending.arg, !.address_known = TRUE]
    [] OTHER -> state

\* A success code makes the pending command's argument the value shown.
AcceptedState ==
  CASE pending.kind = "OUTPUT" -> [state EXCEPT !.output_on = pending.arg]
    [] pending.kind = "SIGNAL" -> [state EXCEPT !.signal = pending.arg]
    [] pending.kind = "ADDR_SET" ->
         [state EXCEPT !.address = pending.arg, !.address_known = TRUE]
    [] OTHER -> state

\* A revert that takes the output to be off whenever a switch fails.
RevertedStateOff ==
  IF pending.kind = "OUTPUT" THEN [state EXCEPT !.output_on = FALSE] ELSE state

\* A rejection or a timeout undoes the optimistic switch.
RevertedState ==
  IF pending.kind = "OUTPUT" THEN [state EXCEPT !.output_on = pending.prev]
                             ELSE state

\* A status report that is only taken for the state of the output.
StatusStateOutputOnly(f) == [state EXCEPT !.output_on = f.data.output_on]

\* A status report is shown whole.
StatusState(f) ==
  [state EXCEPT !.output_on = f.data.output_on, !.signal = f.data.signal]

\* device_on_frame that cancels only for the answer to a command, so that
\* a status report changes the state under a pending command.
DeviceOnFrameKeeps(f) ==
  \/ /\ f.type \in AckTypes /\ f.data = "SUCCESS"
     /\ state' = AcceptedState
     /\ CancelPending
     /\ banner' = "hidden"
  \/ /\ f.type \in AckTypes /\ f.data = "FAILED"
     /\ state' = RevertedState
     /\ CancelPending
     /\ banner' = "rejected"
  \/ /\ f.type = "STATUS_QUERY"
     /\ state' = StatusState(f)
     /\ UNCHANGED pending
     /\ banner' = "hidden"
  \/ /\ f.type \in {"ADDR_QUERY", "UNMATCHED"}
     /\ UNCHANGED <<state, pending>>
     /\ banner' = "hidden"

\* Called on every frame: conn_on_frame hides the banner first, and
\* whatever is pending is cancelled, whether or not this is its answer.
DeviceOnFrame(f) ==
  /\ CancelPending
  /\ \/ /\ f.type \in AckTypes /\ f.data = "SUCCESS"
        /\ state' = AcceptedState
        /\ banner' = "hidden"
     \/ /\ f.type \in AckTypes /\ f.data = "FAILED"
        /\ state' = RevertedState
        /\ banner' = "rejected"
     \/ /\ f.type = "STATUS_QUERY"
        /\ state' = StatusState(f)
        /\ banner' = "hidden"
     \/ /\ f.type = "ADDR_QUERY"
        /\ state' = [state EXCEPT !.address = f.data, !.address_known = TRUE]
        /\ banner' = "hidden"
     \/ /\ f.type = "UNMATCHED"
        /\ state' = state
        /\ banner' = "hidden"

DeviceOnConnectedChanged(b) ==
  /\ state' = [state EXCEPT !.connected = b]
  /\ UNCHANGED pending

\* A timeout that is looked for only while the port is open.
TimedOutIfConnected ==
  ConnIsConnected /\ pending.active /\ DeadlinePassed(now, pending.deadline)

\* device_poll_timeout, the second half of WM_TIMER.
TimedOut == pending.active /\ DeadlinePassed(now, pending.deadline)

DevicePollTimeout ==
  /\ thread = "timeout"
  /\ thread' = "idle"
  /\ IF TimedOut
       THEN /\ state' = RevertedState
            /\ CancelPending
            /\ banner' = "timeout"
       ELSE UNCHANGED <<state, pending, banner>>
  /\ UNCHANGED <<portVars, lineVars>>

=============================================================================
