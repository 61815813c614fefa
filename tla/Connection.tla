----------------------------- MODULE Connection -----------------------------
(***************************************************************************)
(* connection.c over serial_port.c: opening (with the one retry), closing, *)
(* sending a frame, and the poll that drains the driver.  The operators    *)
(* are fragments of actions: TxLite composes them with the device, so that *)
(* a call that ends in a callback is one step with what the callback does. *)
(*                                                                         *)
(* A frame is one element of a sequence.  A frame whose bytes the parser   *)
(* still holds (part of it has not come, or the parser gave up for this    *)
(* call) counts as not yet received.                                       *)
(***************************************************************************)
EXTENDS Naturals, Sequences

CONSTANTS
  ReadErrors,   \* ReadFile may fail on an open port
  WriteErrors   \* WriteFile may fail on an open port

ASSUME PortErrorsAssumption == {ReadErrors, WriteErrors} \subseteq BOOLEAN

VARIABLES
  handle,     \* SerialPort.handle: INVALID_HANDLE_VALUE or a COM port
  osOpen,     \* handles the system holds open for the process on the port
  connected,  \* Connection.connected
  thread,     \* where the UI thread is; see Threads
  out,        \* request frames written, not yet at the module
  rx,         \* reply frames in the driver's input queue
  chunk,      \* reply frames this poll read, not yet given to on_frame
  banner      \* the warning label: what it tells, or that it is hidden

portVars == <<handle, osOpen, connected>>
lineVars == <<out, rx, chunk>>

(***************************************************************************)
(* The program has one thread.  A handler runs to its end before the next  *)
(* one starts, while the clock and the module go on beside it, so the two  *)
(* handlers that take time or look at the world twice are split:           *)
(*   idle     in GetMessage                                                *)
(*   retry    in conn_connect's Sleep(300)                                 *)
(*   frames   in WM_TIMER, inside conn_poll, with frames left in chunk     *)
(*   timeout  in WM_TIMER, between conn_poll and device_poll_timeout       *)
(*   exited   after WM_DESTROY                                             *)
(***************************************************************************)
Threads == {"idle", "retry", "frames", "timeout", "exited"}

Banners == {"hidden", "open_failed", "not_connected", "write_failed",
            "read_failed", "timeout", "rejected"}

ConnInit ==
  /\ handle = "INVALID"
  /\ osOpen = 0
  /\ connected = FALSE
  /\ thread = "idle"
  /\ out = <<>> /\ rx = <<>> /\ chunk = <<>>
  /\ banner = "hidden"

ConnIsConnected == connected /\ handle = "OPEN"

-----------------------------------------------------------------------------
(* serial_port.c *)

\* serial_open succeeds.  A COM port is opened without sharing, so only when
\* the process holds no other handle on it; the driver's queue is purged.
SerialOpenOk ==
  /\ osOpen = 0
  /\ handle' = "OPEN"
  /\ osOpen' = osOpen + 1
  /\ rx' = <<>>

\* serial_open without the CloseHandle on a port it cannot configure.
SerialOpenFailsLeaking ==
  /\ handle' = "INVALID"
  /\ \/ UNCHANGED osOpen
     \/ osOpen = 0 /\ osOpen' = osOpen + 1
  /\ UNCHANGED rx

\* serial_open fails: at CreateFile, or at one of the three configuration
\* calls after it, and then the new handle is closed again.
SerialOpenFails ==
  /\ handle' = "INVALID"
  /\ UNCHANGED <<osOpen, rx>>

\* serial_close; what the driver had queued goes with the handle.
SerialClose ==
  /\ osOpen' = IF handle = "OPEN" THEN osOpen - 1 ELSE osOpen
  /\ handle' = "INVALID"
  /\ rx' = <<>>

-----------------------------------------------------------------------------
(* connection.c *)

\* An open that worked, up to the callback on_connected_changed(true).
ConnOpened ==
  /\ SerialOpenOk
  /\ connected' = TRUE
  /\ thread' = "idle"
  /\ UNCHANGED <<chunk, banner>>

\* An open that failed for good, up to on_error.
ConnOpenFailed ==
  /\ SerialOpenFails
  /\ banner' = "open_failed"
  /\ thread' = "idle"
  /\ UNCHANGED <<connected, out, chunk>>

\* The first open was denied access: the thread sleeps, then tries again.
ConnOpenDenied ==
  /\ SerialOpenFails
  /\ thread' = "retry"
  /\ UNCHANGED <<connected, out, chunk, banner>>

ConnDisconnect ==
  /\ SerialClose
  /\ connected' = FALSE
  /\ UNCHANGED <<out, chunk, banner>>

\* conn_send returns true, or false after on_error.
ConnSends(frame) ==
  /\ ConnIsConnected
  /\ out' = Append(out, frame)
  /\ UNCHANGED banner

ConnSendFails ==
  /\ ConnIsConnected => WriteErrors
  /\ banner' = IF ConnIsConnected THEN "write_failed" ELSE "not_connected"
  /\ UNCHANGED out

\* conn_poll up to the first frame.  A port that is closed, silent or
\* failing leaves the thread at the second half of WM_TIMER.  The 256-byte
\* chunk holds every frame the models let the driver queue.
ConnPoll ==
  /\ thread = "idle"
  /\ \/ /\ ~ConnIsConnected
        /\ thread' = "timeout"
        /\ UNCHANGED <<rx, chunk, banner>>
     \/ /\ ConnIsConnected
        /\ chunk' = rx
        /\ rx' = <<>>
        /\ thread' = IF rx = <<>> THEN "timeout" ELSE "frames"
        /\ UNCHANGED banner
     \/ /\ ConnIsConnected /\ ReadErrors
        /\ banner' = "read_failed"
        /\ thread' = "timeout"
        /\ UNCHANGED <<rx, chunk>>
  /\ UNCHANGED <<portVars, out>>

\* proto_parser_feed takes the next frame of the chunk to its callback.
ConnNextFrame ==
  /\ thread = "frames"
  /\ chunk' = Tail(chunk)
  /\ thread' = IF Tail(chunk) = <<>> THEN "timeout" ELSE "frames"
  /\ UNCHANGED <<portVars, out, rx>>

=============================================================================
