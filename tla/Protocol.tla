------------------------------ MODULE Protocol ------------------------------
(***************************************************************************)
(* The pure half of protocol.c, byte by byte: how a frame is built, the    *)
(* one that carries signal settings, the tables behind them, and the       *)
(* settings device.c reads back out of a status report.  The other         *)
(* requests are records, in Device.  Bytes are numbers 0 .. 255, frames    *)
(* sequences of bytes.                                                     *)
(***************************************************************************)
EXTENDS Integers, Sequences

Bytes == 0 .. 255
HEAD == 126         \* 0x7E, sent twice
STOP == <<10, 13>>

OUTPUT_SWITCH == 1
SIGNAL_CONTROL == 2
STATUS_QUERY == 255
ADDR_QUERY == 191

BROADCAST_ADDR == 255
MODE_COUNT == 4
FREQ_MIN_MHZ == 300
FREQ_MAX_MHZ == 6000

RESP_FAILED == 1
RESP_SUCCESS == 255

DEVICE_UNKNOWN == -1

\* proto_frame_build.
FrameBuild(type, addr, buf) ==
  <<HEAD, HEAD, type, addr, Len(buf)>> \o buf \o STOP

BANDWIDTH_MHZ == <<10, 20, 50, 100, 150, 200, 250, 300>>

POWER_DB == <<0, -6, -12>>

\* proto_bandwidth_code and proto_power_code: the index of the first entry.
CodeIn(table, value) ==
  IF \E i \in DOMAIN table : table[i] = value
    THEN (CHOOSE i \in DOMAIN table :
            table[i] = value /\ \A j \in 1 .. i - 1 : table[j] # value) - 1
    ELSE -1

\* A table that answers a code it does not have with its first entry.
ValueInOrFirst(table, code) ==
  IF code < Len(table) THEN table[code + 1] ELSE table[1]

\* proto_bandwidth_mhz and proto_power_db.
ValueIn(table, code) ==
  IF code < Len(table) THEN table[code + 1] ELSE -1

\* What proto_build_signal_control returns; the checks are made in this order.
SignalStatus(s) ==
  CASE s.mode >= MODE_COUNT -> "ERR_MODE"
    [] s.mode < MODE_COUNT /\ s.freq \notin FREQ_MIN_MHZ .. FREQ_MAX_MHZ ->
         "ERR_FREQ_RANGE"
    [] s.mode < MODE_COUNT /\ s.freq \in FREQ_MIN_MHZ .. FREQ_MAX_MHZ ->
         IF CodeIn(BANDWIDTH_MHZ, s.bandwidth) < 0 THEN "ERR_BANDWIDTH"
         ELSE IF CodeIn(POWER_DB, s.power) < 0 THEN "ERR_POWER" ELSE "OK"

\* The bytes of the frequency the wrong way round.
SignalControlSwapped(addr, s) ==
  FrameBuild(SIGNAL_CONTROL, addr,
             <<s.mode, s.freq % 256, s.freq \div 256,
               CodeIn(BANDWIDTH_MHZ, s.bandwidth), CodeIn(POWER_DB, s.power)>>)

\* The frame it builds for settings it accepts.
SignalControl(addr, s) ==
  FrameBuild(SIGNAL_CONTROL, addr,
             <<s.mode, s.freq \div 256, s.freq % 256,
               CodeIn(BANDWIDTH_MHZ, s.bandwidth), CodeIn(POWER_DB, s.power)>>)

\* The payload of a status report as device_on_frame reads it.
StatusSignal(buf) ==
  LET bw == ValueIn(BANDWIDTH_MHZ, buf[5])
      pw == ValueIn(POWER_DB, buf[6])
  IN [mode |-> buf[2],
      freq |-> buf[3] * 256 + buf[4],
      bandwidth |-> IF bw >= 0 THEN bw ELSE DEVICE_UNKNOWN,
      power |-> IF pw # -1 THEN pw ELSE DEVICE_UNKNOWN]

=============================================================================
