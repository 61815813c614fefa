-------------------------- MODULE SignalBytes_proofs --------------------------
(***************************************************************************)
(* Theorems about SignalBytes, for every set of settings that may be asked *)
(* for and every five bytes a module may hold: the tables of protocol.c    *)
(* and the two ways DeviceState comes to its numbers.                      *)
(***************************************************************************)
EXTENDS SignalBytes, SequenceTheorems, TLAPS

-----------------------------------------------------------------------------
(* The tables *)

\* A table names a value once.
Distinct(table) == \A i, j \in DOMAIN table : table[i] = table[j] => i = j

\* The code of a value is the place of the entry that has it ...
LEMMA CodeOfEntry ==
  ASSUME NEW table \in Seq(Int), Distinct(table), NEW i \in DOMAIN table
  PROVE  CodeIn(table, table[i]) = i - 1
<1>1. \A j \in 1 .. i - 1 : table[j] # table[i]
  BY DEF Distinct
<1>2. \A k \in DOMAIN table :
        table[k] = table[i] /\ (\A j \in 1 .. k - 1 : table[j] # table[i]) <=> k = i
  BY <1>1 DEF Distinct
<1> DEFINE isCode(k) ==
      table[k] = table[i] /\ \A j \in 1 .. k - 1 : table[j] # table[i]
<1>3. (CHOOSE k \in DOMAIN table : isCode(k)) = i
  BY <1>2
<1> QED
  BY <1>3 DEF CodeIn

\* ... and a value of which no entry has it has none.
LEMMA NoCode ==
  ASSUME NEW table, NEW value, CodeIn(table, value) # -1
  PROVE  \E i \in DOMAIN table : table[i] = value
BY DEF CodeIn

LEMMA BandwidthTable ==
  BANDWIDTH_MHZ \in Seq(Int) /\ Distinct(BANDWIDTH_MHZ) /\ Len(BANDWIDTH_MHZ) = 8
  /\ \A i \in DOMAIN BANDWIDTH_MHZ : BANDWIDTH_MHZ[i] >= 0
BY DEF BANDWIDTH_MHZ, Distinct

LEMMA PowerTable ==
  POWER_DB \in Seq(Int) /\ Distinct(POWER_DB) /\ Len(POWER_DB) = 3
  /\ \A i \in DOMAIN POWER_DB : POWER_DB[i] # -1
BY DEF POWER_DB, Distinct

\* A code beyond the end of a table has no value.
LEMMA ValueOfBandwidth ==
  ASSUME NEW code \in Nat
  PROVE  LET bw == ValueIn(BANDWIDTH_MHZ, code)
         IN  /\ bw = IF code < 8 THEN BANDWIDTH_MHZ[code + 1] ELSE -1
             /\ bw >= 0 \/ bw = -1
BY BandwidthTable DEF ValueIn

LEMMA ValueOfPower ==
  ASSUME NEW code \in Nat
  PROVE  ValueIn(POWER_DB, code) = IF code < 3 THEN POWER_DB[code + 1] ELSE -1
BY PowerTable DEF ValueIn

-----------------------------------------------------------------------------
(* Settings to bytes and back *)

\* The numbers a DeviceState may hold, DEVICE_UNKNOWN among them.
Settings == [mode : Nat, freq : Nat, bandwidth : Int, power : Int]

\* Bytes are small numbers, and so are the entries of a payload.
LEMMA ByteIsNat == \A x \in Bytes : x \in Nat /\ x < 256
BY DEF Bytes

LEMMA PayloadBytes ==
  ASSUME NEW b \in Seq(Bytes), Len(b) = 5, NEW i \in 1 .. 5
  PROVE  b[i] \in Bytes /\ b[i] \in Nat
<1>1. b[i] \in Bytes
  BY ElementOfSeq
<1> QED
  BY <1>1, ByteIsNat

\* A frame carries the payload it was built with.
LEMMA PayloadOfFrame ==
  ASSUME NEW type, NEW addr, NEW b \in Seq(Bytes)
  PROVE  Payload(FrameBuild(type, addr, b)) = b
<1> DEFINE start == <<HEAD, HEAD, type, addr, Len(b)>>
           frame == FrameBuild(type, addr, b)
<1>1. /\ Len(start) = 5 /\ start[5] = Len(b)
      /\ frame = (start \o b) \o STOP /\ Len(STOP) = 2
  BY DEF FrameBuild, STOP
<1>2. /\ Len(frame) = 7 + Len(b) /\ frame[5] = Len(b)
      /\ \A i \in 1 .. Len(b) : frame[5 + i] = b[i]
  BY <1>1 DEF FrameBuild, STOP
<1> QED
  BY <1>2 DEF Payload

\* The numbers of two bytes.
Word == 65536

\* The two bytes of a frequency make the frequency, and the other way round.
LEMMA WordToBytes ==
  ASSUME NEW n \in Nat, n < Word
  PROVE  /\ n \div 256 \in Bytes /\ n % 256 \in Bytes
         /\ (n \div 256) * 256 + (n % 256) = n
BY DEF Bytes, Word

LEMMA BytesToWord ==
  ASSUME NEW h \in Bytes, NEW l \in Bytes
  PROVE  (h * 256 + l) \div 256 = h /\ (h * 256 + l) % 256 = l
BY DEF Bytes

\* What the checks of proto_build_signal_control let through.
LEMMA Accepted ==
  ASSUME NEW s \in Settings, SignalStatus(s) = "OK"
  PROVE  /\ s.mode \in 0 .. 3 /\ s.freq \in Nat /\ s.freq < Word
         /\ \E i \in 1 .. 8 : BANDWIDTH_MHZ[i] = s.bandwidth
         /\ \E i \in 1 .. 3 : POWER_DB[i] = s.power
<1>1. s.mode \in Nat /\ (s.mode >= MODE_COUNT <=> ~(s.mode < MODE_COUNT))
  BY DEF Settings, MODE_COUNT
<1>2. s.mode < MODE_COUNT
  BY <1>1, Zenon DEF SignalStatus
<1>3. s.freq \in FREQ_MIN_MHZ .. FREQ_MAX_MHZ
  BY <1>1, <1>2, Zenon DEF SignalStatus
<1>4. SignalStatus(s) = IF CodeIn(BANDWIDTH_MHZ, s.bandwidth) < 0
                          THEN "ERR_BANDWIDTH"
                          ELSE IF CodeIn(POWER_DB, s.power) < 0
                                 THEN "ERR_POWER" ELSE "OK"
  BY <1>1, <1>2, <1>3, Zenon DEF SignalStatus
<1>5. CodeIn(BANDWIDTH_MHZ, s.bandwidth) # -1 /\ CodeIn(POWER_DB, s.power) # -1
  BY <1>4
<1>6. \E i \in 1 .. 8 : BANDWIDTH_MHZ[i] = s.bandwidth
  <2>1. DOMAIN BANDWIDTH_MHZ = 1 .. 8
    BY BandwidthTable
  <2> QED
    BY <1>5, <2>1, NoCode
<1>7. \E i \in 1 .. 3 : POWER_DB[i] = s.power
  <2>1. DOMAIN POWER_DB = 1 .. 3
    BY PowerTable
  <2> QED
    BY <1>5, <2>1, NoCode
<1>8. s.freq \in Nat /\ s.freq < Word
  <2>1. \A n \in FREQ_MIN_MHZ .. FREQ_MAX_MHZ : n \in Nat /\ n < Word
    BY DEF FREQ_MIN_MHZ, FREQ_MAX_MHZ, Word
  <2> QED
    BY <1>3, <2>1
<1> QED
  BY <1>1, <1>2, <1>6, <1>7, <1>8 DEF MODE_COUNT

\* The five bytes proto_build_signal_control sends for accepted settings.
LEMMA PayloadOfSignal ==
  ASSUME NEW s, s.mode \in 0 .. 3, s.freq \in Nat, s.freq < Word,
         NEW i \in 1 .. 8, BANDWIDTH_MHZ[i] = s.bandwidth,
         NEW j \in 1 .. 3, POWER_DB[j] = s.power
  PROVE  /\ Payload(SignalControl(BROADCAST_ADDR, s)) =
              <<s.mode, s.freq \div 256, s.freq % 256, i - 1, j - 1>>
         /\ <<s.mode, s.freq \div 256, s.freq % 256, i - 1, j - 1>> \in Seq(Bytes)
<1> DEFINE b == <<s.mode, s.freq \div 256, s.freq % 256, i - 1, j - 1>>
<1>1. CodeIn(BANDWIDTH_MHZ, s.bandwidth) = i - 1
  <2>1. i \in DOMAIN BANDWIDTH_MHZ
    BY BandwidthTable
  <2> QED
    BY <2>1, CodeOfEntry, BandwidthTable
<1>2. CodeIn(POWER_DB, s.power) = j - 1
  <2>1. j \in DOMAIN POWER_DB
    BY PowerTable
  <2> QED
    BY <2>1, CodeOfEntry, PowerTable
<1>3. SignalControl(BROADCAST_ADDR, s) = FrameBuild(SIGNAL_CONTROL, BROADCAST_ADDR, b)
  BY <1>1, <1>2 DEF SignalControl
<1>4. s.freq \div 256 \in Bytes /\ s.freq % 256 \in Bytes
  BY WordToBytes
<1>5. b \in Seq(Bytes)
  BY <1>4 DEF Bytes
<1> HIDE DEF b
<1>6. Payload(FrameBuild(SIGNAL_CONTROL, BROADCAST_ADDR, b)) = b
  BY <1>5, PayloadOfFrame
<1> QED
  BY <1>3, <1>5, <1>6 DEF b

\* A status report carries the state of the output before the settings.
LEMMA ReportPayload ==
  ASSUME NEW b \in Seq(Bytes), Len(b) = 5
  PROVE  \A i \in 1 .. 5 : (<<1>> \o b)[i + 1] = b[i]
<1>1. <<1>> \in Seq(Bytes) /\ Len(<<1>>) = 1
  BY DEF Bytes
<1>2. ASSUME NEW a \in Seq(Bytes), Len(a) = 1
      PROVE  \A i \in 1 .. 5 : (a \o b)[i + 1] = b[i]
  <2> DEFINE buf == a \o b
  <2>1. \A k \in 1 .. Len(a) + Len(b) :
          buf[k] = IF k <= Len(a) THEN a[k] ELSE b[k - Len(a)]
    BY ConcatProperties
  <2> HIDE DEF buf
  <2>2. \A i \in 1 .. 5 : buf[i + 1] = b[i]
    BY <1>2, <2>1
  <2> QED
    BY <2>2 DEF buf
<1> QED
  BY <1>1, <1>2, Zenon

\* What a status report with the five bytes b is read as.
LEMMA StatusOf ==
  ASSUME NEW b \in Seq(Bytes), Len(b) = 5
  PROVE  StatusSignal(<<1>> \o b) =
           [mode |-> b[1], freq |-> b[2] * 256 + b[3],
            bandwidth |-> IF b[4] < 8 THEN BANDWIDTH_MHZ[b[4] + 1] ELSE -1,
            power |-> IF b[5] < 3 THEN POWER_DB[b[5] + 1] ELSE -1]
<1> DEFINE buf == <<1>> \o b
           bw == ValueIn(BANDWIDTH_MHZ, b[4])
           pw == ValueIn(POWER_DB, b[5])
<1>1. /\ buf[2] = b[1] /\ buf[3] = b[2] /\ buf[4] = b[3]
      /\ buf[5] = b[4] /\ buf[6] = b[5]
  BY ReportPayload
<1>2. StatusSignal(buf) =
        [mode |-> b[1], freq |-> b[2] * 256 + b[3],
         bandwidth |-> IF bw >= 0 THEN bw ELSE -1,
         power |-> IF pw # -1 THEN pw ELSE -1]
  <2> HIDE DEF buf
  <2>1. StatusSignal(buf) =
          [mode |-> buf[2], freq |-> buf[3] * 256 + buf[4],
           bandwidth |-> IF ValueIn(BANDWIDTH_MHZ, buf[5]) >= 0
                           THEN ValueIn(BANDWIDTH_MHZ, buf[5]) ELSE -1,
           power |-> IF ValueIn(POWER_DB, buf[6]) # -1
                       THEN ValueIn(POWER_DB, buf[6]) ELSE -1]
    BY DEF StatusSignal, DEVICE_UNKNOWN
  <2>2. ValueIn(BANDWIDTH_MHZ, buf[5]) = bw /\ ValueIn(POWER_DB, buf[6]) = pw
    BY <1>1
  <2> HIDE DEF bw, pw
  <2> QED
    BY <1>1, <2>1, <2>2
<1>3. b[4] \in Nat /\ b[5] \in Nat
  BY PayloadBytes
<1>4. bw = (IF b[4] < 8 THEN BANDWIDTH_MHZ[b[4] + 1] ELSE -1)
      /\ (bw >= 0 \/ bw = -1)
  BY <1>3, ValueOfBandwidth
<1>5. pw = (IF b[5] < 3 THEN POWER_DB[b[5] + 1] ELSE -1)
  BY <1>3, ValueOfPower
<1> HIDE DEF bw, pw
<1>6. (IF bw >= 0 THEN bw ELSE -1) = bw /\ (IF pw # -1 THEN pw ELSE -1) = pw
  BY <1>4
<1> QED
  BY <1>2, <1>4, <1>5, <1>6

\* What is read out of the five bytes of accepted settings is those settings.
LEMMA ReadBack ==
  ASSUME NEW s \in Settings, SignalStatus(s) = "OK"
  PROVE  LET b == Payload(SignalControl(BROADCAST_ADDR, s))
         IN  b \in Seq(Bytes) /\ Len(b) = 5 /\ StatusSignal(<<1>> \o b) = s
<1> DEFINE b == Payload(SignalControl(BROADCAST_ADDR, s))
<1>1. /\ s.mode \in 0 .. 3 /\ s.freq \in Nat /\ s.freq < Word
  BY Accepted
<1>2. PICK i \in 1 .. 8, j \in 1 .. 3 :
        BANDWIDTH_MHZ[i] = s.bandwidth /\ POWER_DB[j] = s.power
  BY Accepted
<1>3. /\ b = <<s.mode, s.freq \div 256, s.freq % 256, i - 1, j - 1>>
      /\ b \in Seq(Bytes)
  <2> DEFINE t == <<s.mode, s.freq \div 256, s.freq % 256, i - 1, j - 1>>
  <2>1. Payload(SignalControl(BROADCAST_ADDR, s)) = t /\ t \in Seq(Bytes)
    BY <1>1, <1>2, PayloadOfSignal
  <2> QED
    BY <2>1
<1> HIDE DEF b
<1>4. /\ Len(b) = 5 /\ b[1] = s.mode /\ b[2] = s.freq \div 256
      /\ b[3] = s.freq % 256 /\ b[4] = i - 1 /\ b[5] = j - 1
  BY <1>3
<1>5. b[2] * 256 + b[3] = s.freq
  BY <1>1, <1>4, WordToBytes
<1>6. /\ b[4] < 8 /\ b[4] + 1 = i /\ b[5] < 3 /\ b[5] + 1 = j
  BY <1>4
<1>7. StatusSignal(<<1>> \o b) =
        [mode |-> s.mode, freq |-> s.freq, bandwidth |-> s.bandwidth,
         power |-> s.power]
  <2>1. StatusSignal(<<1>> \o b) =
          [mode |-> b[1], freq |-> b[2] * 256 + b[3],
           bandwidth |-> IF b[4] < 8 THEN BANDWIDTH_MHZ[b[4] + 1] ELSE -1,
           power |-> IF b[5] < 3 THEN POWER_DB[b[5] + 1] ELSE -1]
    <3>1. b \in Seq(Bytes) /\ Len(b) = 5
      BY <1>3, <1>4
    <3> QED
      BY <3>1, StatusOf, Zenon
  <2> QED
    BY <1>2, <1>4, <1>5, <1>6, <2>1, Zenon
<1>8. s = [mode |-> s.mode, freq |-> s.freq, bandwidth |-> s.bandwidth,
           power |-> s.power]
  BY DEF Settings
<1>9. StatusSignal(<<1>> \o b) = s
  BY <1>7, <1>8, Zenon
<1> QED
  BY <1>3, <1>4, <1>9 DEF b

LEMMA EntryOfCode ==
  \A c \in Nat : /\ c < 8 => c + 1 \in 1 .. 8
                 /\ c < 3 => c + 1 \in 1 .. 3
OBVIOUS

\* The settings shown after a report of the bytes b.
Reported(b) == StatusSignal(<<1>> \o b)

\* Settings that were read and are accepted are sent as the bytes they were
\* read from.
LEMMA SentBack ==
  ASSUME NEW b \in Seq(Bytes), Len(b) = 5, SignalStatus(Reported(b)) = "OK"
  PROVE  Payload(SignalControl(BROADCAST_ADDR, Reported(b))) = b
<1> DEFINE s == Reported(b)
<1>1. /\ b[1] \in Nat /\ b[2] \in Nat /\ b[3] \in Nat /\ b[4] \in Nat
      /\ b[5] \in Nat /\ b[2] \in Bytes /\ b[3] \in Bytes
  BY PayloadBytes
<1>2. s = [mode |-> b[1], freq |-> b[2] * 256 + b[3],
           bandwidth |-> IF b[4] < 8 THEN BANDWIDTH_MHZ[b[4] + 1] ELSE -1,
           power |-> IF b[5] < 3 THEN POWER_DB[b[5] + 1] ELSE -1]
  BY StatusOf DEF Reported
<1>3. /\ \A i \in 1 .. 8 : BANDWIDTH_MHZ[i] \in Int /\ BANDWIDTH_MHZ[i] # -1
      /\ \A i, j \in 1 .. 8 : BANDWIDTH_MHZ[i] = BANDWIDTH_MHZ[j] => i = j
      /\ \A i \in 1 .. 3 : POWER_DB[i] \in Int /\ POWER_DB[i] # -1
      /\ \A i, j \in 1 .. 3 : POWER_DB[i] = POWER_DB[j] => i = j
      /\ b[4] < 8 => b[4] + 1 \in 1 .. 8
      /\ b[5] < 3 => b[5] + 1 \in 1 .. 3
  <2>1. /\ \A i \in 1 .. 8 : BANDWIDTH_MHZ[i] \in Int /\ BANDWIDTH_MHZ[i] # -1
        /\ \A i, j \in 1 .. 8 : BANDWIDTH_MHZ[i] = BANDWIDTH_MHZ[j] => i = j
    BY DEF BANDWIDTH_MHZ
  <2>2. /\ \A i \in 1 .. 3 : POWER_DB[i] \in Int /\ POWER_DB[i] # -1
        /\ \A i, j \in 1 .. 3 : POWER_DB[i] = POWER_DB[j] => i = j
    BY DEF POWER_DB
  <2>3. /\ b[4] < 8 => b[4] + 1 \in 1 .. 8
        /\ b[5] < 3 => b[5] + 1 \in 1 .. 3
    BY <1>1, EntryOfCode, Zenon
  <2> QED
    BY <2>1, <2>2, <2>3, Zenon
<1> HIDE DEF s
<1>4. s.mode = b[1] /\ s.freq = b[2] * 256 + b[3]
  BY <1>2
<1>5. s.bandwidth = (IF b[4] < 8 THEN BANDWIDTH_MHZ[b[4] + 1] ELSE -1)
  BY <1>2
<1>6. s.power = (IF b[5] < 3 THEN POWER_DB[b[5] + 1] ELSE -1)
  BY <1>2
<1>7. s \in Settings
  <2>1. (IF b[4] < 8 THEN BANDWIDTH_MHZ[b[4] + 1] ELSE -1) \in Int
    <3>1. CASE b[4] < 8
      <4>1. BANDWIDTH_MHZ[b[4] + 1] \in Int
        BY <1>3, <3>1, Zenon
      <4> QED
        BY <3>1, <4>1
    <3>2. CASE ~(b[4] < 8)
      BY <3>2
    <3> QED
      BY <3>1, <3>2
  <2>2. (IF b[5] < 3 THEN POWER_DB[b[5] + 1] ELSE -1) \in Int
    <3>1. CASE b[5] < 3
      <4>1. POWER_DB[b[5] + 1] \in Int
        BY <1>3, <3>1, Zenon
      <4> QED
        BY <3>1, <4>1
    <3>2. CASE ~(b[5] < 3)
      BY <3>2
    <3> QED
      BY <3>1, <3>2
  <2>3. b[2] * 256 + b[3] \in Nat
    BY <1>1
  <2> QED
    BY <1>1, <1>2, <2>1, <2>2, <2>3 DEF Settings
<1>8. PICK i \in 1 .. 8, j \in 1 .. 3 :
        BANDWIDTH_MHZ[i] = s.bandwidth /\ POWER_DB[j] = s.power
  BY <1>7, Accepted DEF s
<1>9. b[4] = i - 1
  <2>1. s.bandwidth # -1
    BY <1>3, <1>8
  <2>2. b[4] < 8 /\ BANDWIDTH_MHZ[b[4] + 1] = BANDWIDTH_MHZ[i]
    BY <1>5, <1>8, <2>1
  <2>3. b[4] + 1 = i
    BY <1>3, <2>2, Zenon
  <2> QED
    BY <1>1, <2>3
<1>10. b[5] = j - 1
  <2>1. s.power # -1
    BY <1>3, <1>8
  <2>2. b[5] < 3 /\ POWER_DB[b[5] + 1] = POWER_DB[j]
    BY <1>6, <1>8, <2>1
  <2>3. b[5] + 1 = j
    BY <1>3, <2>2, Zenon
  <2> QED
    BY <1>1, <2>3
<1>11. s.mode \in 0 .. 3 /\ s.freq \in Nat /\ s.freq < Word
  BY <1>7, Accepted DEF s
<1>12. Payload(SignalControl(BROADCAST_ADDR, s)) =
         <<s.mode, s.freq \div 256, s.freq % 256, i - 1, j - 1>>
  BY <1>8, <1>11, PayloadOfSignal, SMTT(60)
<1>13. s.freq \div 256 = b[2] /\ s.freq % 256 = b[3]
  BY <1>1, <1>4, BytesToWord
<1>14. b = <<b[1], b[2], b[3], b[4], b[5]>>
  OBVIOUS
<1> QED
  BY <1>4, <1>9, <1>10, <1>12, <1>13, <1>14, Zenon DEF s

-----------------------------------------------------------------------------
(* The module and the window *)

\* The settings shown are those of the bytes the module has, unless nothing
\* was acknowledged or reported yet; so are the settings acknowledged.
InStep ==
  /\ held \in Seq(Bytes) /\ Len(held) = 5
  /\ shown \in {Nothing, StatusSignal(<<1>> \o held)}
  /\ acked # Nothing => shown = acked

LEMMA InitInStep == Init => InStep
BY PayloadAssumption DEF Init, InStep

LEMMA NextInStep == InStep /\ [Next]_vars => InStep'
<1> SUFFICES ASSUME InStep, [Next]_vars PROVE InStep'
  OBVIOUS
<1>1. ASSUME NEW s \in Asked, Apply(s) PROVE InStep'
  <2>1. s \in Settings
    BY <1>1, AskedAssumption DEF Settings
  <2> DEFINE b == Payload(SignalControl(BROADCAST_ADDR, s))
  <2>2. b \in Seq(Bytes) /\ Len(b) = 5 /\ StatusSignal(<<1>> \o b) = s
    BY <1>1, <2>1, ReadBack DEF Apply
  <2>3. held' = b /\ shown' = s /\ acked' = s
    BY <1>1 DEF Apply
  <2> HIDE DEF b
  <2> QED
    BY <2>2, <2>3 DEF InStep
<1>2. CASE Report
  <2>1. /\ held' = held /\ acked' = acked
        /\ shown' = StatusSignal(<<1>> \o held)
    BY <1>2 DEF Report
  <2> QED
    BY <2>1 DEF InStep
<1>3. CASE UNCHANGED vars
  BY <1>3 DEF vars, InStep
<1> QED
  BY <1>1, <1>2, <1>3 DEF Next, Refuse

LEMMA StepInvariance == Spec => []InStep
BY InitInStep, NextInStep, PTL DEF Spec

\* The two ways DeviceState comes to its numbers agree: what a report says
\* of settings the module acknowledged is what the user typed.
THEOREM ReportAgrees == Spec => []ReportAgreesWithAck
<1>1. InStep => ReportAgreesWithAck
  BY DEF InStep, ReportAgreesWithAck
<1> QED
  BY <1>1, StepInvariance, PTL

\* What a module reported is sent back to it as the same bytes, whatever
\* bytes it held, if the protocol accepts them at all.
THEOREM ReapplyingIsIdle == Spec => []ReapplyingChangesNothing
<1>1. InStep => ReapplyingChangesNothing
  BY SentBack DEF InStep, ReapplyingChangesNothing, Reported
<1> QED
  BY <1>1, StepInvariance, PTL

=============================================================================
