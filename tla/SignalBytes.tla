----------------------------- MODULE SignalBytes -----------------------------
(***************************************************************************)
(* The signal settings at the level of bytes: the window hands numbers to  *)
(* proto_build_signal_control, the module keeps the bytes it was sent, and *)
(* device_on_frame turns the bytes of a status report into numbers again.  *)
(***************************************************************************)
EXTENDS Protocol

CONSTANTS
  Asked,    \* settings the window may ask for: mode, freq, bandwidth, power
  Held      \* payloads a module may hold before it is told anything

ASSUME PayloadAssumption == \A b \in Held : b \in Seq(Bytes) /\ Len(b) = 5

\* The parameters of device_apply_signal_settings, all but power_db unsigned.
ASSUME AskedAssumption ==
  Asked \subseteq [mode : Nat, freq : Nat, bandwidth : Nat, power : Int]

VARIABLES
  held,     \* the five bytes of settings in the module
  shown,    \* the settings in DeviceState, or Nothing
  acked     \* the settings last acknowledged, until others were reported

vars == <<held, shown, acked>>

Nothing == [mode |-> DEVICE_UNKNOWN, freq |-> DEVICE_UNKNOWN,
            bandwidth |-> DEVICE_UNKNOWN, power |-> DEVICE_UNKNOWN]

\* The payload of a frame.
Payload(frame) == SubSeq(frame, 6, 5 + frame[5])

Init == held \in Held /\ shown = Nothing /\ acked = Nothing

\* device_apply_signal_settings and the success code: the settings are shown
\* as they were typed.
Apply(s) ==
  /\ SignalStatus(s) = "OK"
  /\ held' = Payload(SignalControl(BROADCAST_ADDR, s))
  /\ shown' = s
  /\ acked' = s

\* Settings the protocol has no code for are refused and never sent.
Refuse(s) ==
  /\ SignalStatus(s) # "OK"
  /\ UNCHANGED vars

\* device_read_status and the report.
Report ==
  /\ shown' = StatusSignal(<<1>> \o held)
  /\ UNCHANGED <<held, acked>>

Next == (\E s \in Asked : Apply(s) \/ Refuse(s)) \/ Report

Spec == Init /\ [][Next]_vars

-----------------------------------------------------------------------------
(* Properties *)

\* A report of settings the module was told reads back as the settings that
\* were typed: the two ways DeviceState comes to its numbers (the pending
\* command's on an acknowledgement, the decoded bytes on a report) agree.
ReportAgreesWithAck == acked # Nothing => shown = acked

\* The settings DeviceState holds are the module's to the byte: handed to
\* device_apply_signal_settings again, if the protocol accepts them at all,
\* they are sent as the bytes they were read from.  (The Apply button hands
\* it the window's own selections, which a report does not rewrite.)
ReapplyingChangesNothing ==
  shown # Nothing /\ SignalStatus(shown) = "OK" =>
    Payload(SignalControl(BROADCAST_ADDR, shown)) = held

=============================================================================
