---------------------------- MODULE Window_proofs ----------------------------
(***************************************************************************)
(* Proofs about Window: its steps are steps of the program of TxLite, and  *)
(* what the controls promise holds for every range of frequencies, every   *)
(* step width and whatever the user types.                                 *)
(***************************************************************************)
EXTENDS Window, TxLite_proofs

\* The mark a No would put back is the output, unless it changed meanwhile.
HeldIsOpposite == dialog = "output" /\ ~crossed => held = ~state.output_on

\* Only an enabled field has the focus, only an open lock enables it, and
\* then the user has confirmed it; no field has the focus under a prompt.
LockIsHonest ==
  /\ enabled => ~lock /\ opened
  /\ focus = "freq" => enabled
  /\ dialog # "none" => focus = "other"
  /\ dialog = "unlock" => ~lock

\* What was read for the prompt of a bandwidth is what was shown, unless the
\* lock had been opened.
ReadIsGuarded ==
  dialog = "bandwidth" => read.opened \/ held = NumberIn(read.shown)

ControlsInv ==
  /\ WindowTypeOK
  /\ LabelsShowState
  /\ CheckShowsOutput
  /\ HeldIsOpposite
  /\ FrequencyIsGuarded
  /\ LockIsHonest
  /\ ReadIsGuarded

WindowInv == Inv /\ ControlsInv

-----------------------------------------------------------------------------
(* What the handlers do to the controls *)

\* The state has the types the controls show.
LEMMA ShownTypes ==
  ASSUME TypeOK
  PROVE  /\ state.output_on \in BOOLEAN /\ state.connected \in BOOLEAN
         /\ state.address \in Nat /\ state.address_known \in BOOLEAN
         /\ state.signal \in Signals \cup {UNKNOWN}
         /\ state.signal \in Nat \cup {UNKNOWN}
<1>1. state \in States
  BY DEF TypeOK, DeviceTypeOK
<1>2. Signals \subseteq Nat /\ Addresses \subseteq Nat
  BY WindowAssumption
<1> QED
  BY <1>1, <1>2 DEF States

\* A refresh sets every control to the state, spares the field with the
\* focus, and leaves the lock alone.
LEMMA RefreshStatusKeeps ==
  ASSUME ControlsInv, TypeOK, TypeOK', RefreshStatus,
         button' = ButtonText(connected'),
         UNCHANGED <<lock, enabled, focus>>,
         \/ UNCHANGED <<dialog, held, read>>
         \/ dialog' = "none" /\ held' = UNKNOWN /\ read' = UNKNOWN
  PROVE  ControlsInv'
<1>1. /\ state'.output_on \in BOOLEAN
      /\ state'.signal \in Nat \cup {UNKNOWN}
      /\ AddressShown(state') \in Nat \cup {UNKNOWN}
      /\ state.output_on \in BOOLEAN
  <2>1. /\ state'.output_on \in BOOLEAN /\ state'.address \in Nat
        /\ state'.signal \in Nat \cup {UNKNOWN}
    <3>1. state' \in States
      BY DEF TypeOK, DeviceTypeOK
    <3>2. Signals \subseteq Nat /\ Addresses \subseteq Nat
      BY WindowAssumption
    <3> QED
      BY <3>1, <3>2 DEF States
  <2> QED
    BY <2>1, ShownTypes DEF AddressShown
<1>2. check' = state'.output_on /\ label' = LabelOf(state')
  BY DEF RefreshStatus
<1>3. crossed' \in BOOLEAN /\ opened' \in BOOLEAN
  BY DEF RefreshStatus, ControlsInv, WindowTypeOK
<1>4. WindowTypeOK'
  BY <1>1, <1>2, <1>3 DEF RefreshStatus, ControlsInv, WindowTypeOK, Dialogs
<1>5. LabelsShowState' /\ CheckShowsOutput'
  BY <1>2 DEF LabelsShowState, CheckShowsOutput
<1>6. HeldIsOpposite'
  <2> SUFFICES ASSUME dialog' = "output", ~crossed'
               PROVE  held' = ~state'.output_on
    BY DEF HeldIsOpposite
  <2>1. dialog = "output" /\ held' = held
    OBVIOUS
  <2>2. ~crossed /\ state'.output_on = state.output_on
    BY <2>1 DEF RefreshStatus
  <2> QED
    BY <2>1, <2>2 DEF ControlsInv, HeldIsOpposite
<1>7. FrequencyIsGuarded' /\ LockIsHonest' /\ ReadIsGuarded'
  BY DEF RefreshStatus, ControlsInv, FrequencyIsGuarded, LockIsHonest,
         ReadIsGuarded
<1> QED
  BY <1>4, <1>5, <1>6, <1>7 DEF ControlsInv

\* A refresh while the port stays as it is leaves the Connect button right.
LEMMA RefreshKeeps ==
  ASSUME ControlsInv, TypeOK, TypeOK', Refresh,
         UNCHANGED <<lock, enabled, focus, connected>>,
         \/ UNCHANGED <<dialog, held, read>>
         \/ dialog' = "none" /\ held' = UNKNOWN /\ read' = UNKNOWN
  PROVE  ControlsInv'
<1>1. RefreshStatus /\ button' = ButtonText(connected')
  BY DEF Refresh, ControlsInv, LabelsShowState
<1> QED
  BY <1>1, RefreshStatusKeeps

\* A step that shows nothing and changes nothing that is shown.
LEMMA QuietKeeps ==
  ASSUME ControlsInv, UNCHANGED <<windowVars, state, connected>>
  PROVE  ControlsInv'
BY DEF ControlsInv, WindowTypeOK, LabelsShowState, CheckShowsOutput,
       HeldIsOpposite, FrequencyIsGuarded, LockIsHonest, ReadIsGuarded,
       windowVars, controls, handling

\* The handlers that notify only if something happened.
LEMMA RefreshIfKeeps ==
  ASSUME ControlsInv, TypeOK, TypeOK', UNCHANGED <<handling, connected>>,
         NEW notified \in BOOLEAN, RefreshIf(notified),
         ~notified => UNCHANGED state
  PROVE  ControlsInv'
<1>1. CASE notified
  BY <1>1, RefreshKeeps DEF RefreshIf, handling
<1>2. CASE ~notified
  BY <1>2, QuietKeeps DEF RefreshIf, windowVars
<1> QED
  BY <1>1, <1>2

-----------------------------------------------------------------------------
(* Every step of the window is a step of the program *)

\* What a field reads as can be sent.
LEMMA FieldsReadAsNumbers ==
  ASSUME WindowTypeOK
  PROVE  NumberIn(freqEdit) \in Nat /\ AddressIn(addrEdit) \in Addresses
<1>1. NumberIn(freqEdit) \in Nat /\ NumberIn(addrEdit) \in Nat
  BY DEF WindowTypeOK, NumberIn
<1>2. AddrMin \in Nat /\ AddrMax \in Nat /\ AddrMin <= AddrMax
      /\ Addresses = AddrMin .. AddrMax
  BY DeviceAssumption, WindowAssumption
<1> QED
  BY <1>1, <1>2 DEF AddressIn, Between

\* Sending a frequency is applying settings, or changes nothing at all.
LEMMA SendIsApply ==
  ASSUME NEW freq, Send(freq)
  PROVE  ApplySignal \/ UNCHANGED vars
BY DEF Send, ApplySignal

\* A step of the window, in a prompt or not, is a command, another step of
\* the program, or a stutter.
LEMMA WindowStepIsStep == ControlsInv /\ [WindowNext]_allWindowVars => [Next]_vars
<1> SUFFICES ASSUME ControlsInv, [WindowNext]_allWindowVars PROVE [Next]_vars
  OBVIOUS
<1> USE DEF Next, UserAct, AnyCommand, ThreadAct
<1>1. CASE EnterFreq \/ EnterAddr \/ Leave \/ TypeFreq \/ TypeAddr
             \/ StepFrequency \/ ClickOutput \/ ClickLock \/ AnswerUnlock
             \/ AnswerInvalid
  BY <1>1 DEF EnterFreq, EnterAddr, Leave, TypeFreq, TypeAddr, StepFrequency,
              ClickOutput, ClickLock, AnswerUnlock, AnswerInvalid
<1>2. CASE ClickRead \/ ClickQuery \/ ClickConnect \/ WindowRetry
             \/ WindowClose \/ WindowFrame \/ WindowTimeout \/ Elsewhere
  BY <1>2 DEF ClickRead, ClickQuery, ClickConnect, WindowRetry, WindowClose,
              WindowFrame, WindowTimeout, Elsewhere
<1>3. CASE ClickSetAddress
  <2>1. AddressIn(addrEdit) \in Addresses
    BY FieldsReadAsNumbers DEF ControlsInv
  <2> QED
    BY <1>3, <2>1 DEF ClickSetAddress, SetAddress
<1>4. CASE AnswerOutput
  <2>1. held \in BOOLEAN
    BY <1>4 DEF AnswerOutput, ControlsInv, WindowTypeOK
  <2> QED
    BY <1>4, <2>1 DEF AnswerOutput, TurnOutput
<1>5. CASE ClickApply \/ AnswerWarn \/ AnswerBandwidth
  BY <1>5, SendIsApply
  DEF ClickApply, AnswerWarn, AnswerBandwidth, OnApplyClicked
<1>6. CASE UNCHANGED allWindowVars
  BY <1>6 DEF allWindowVars
<1> QED
  BY <1>1, <1>2, <1>3, <1>4, <1>5, <1>6 DEF WindowNext

-----------------------------------------------------------------------------
(* The invariant *)

\* The window opens locked, with its controls as the state is.
LEMMA WindowInitInv == WindowInit => WindowInv
<1> SUFFICES ASSUME WindowInit PROVE WindowInv
  OBVIOUS
<1>1. Inv
  BY InitInv DEF WindowInit
<1>2. /\ state.output_on \in BOOLEAN
      /\ state.signal \in Nat \cup {UNKNOWN}
      /\ AddressShown(state) \in Nat \cup {UNKNOWN}
  BY <1>1, ShownTypes DEF Inv, AddressShown
<1>3. button = ButtonText(connected)
  BY DEF WindowInit, Init, ConnInit
<1> QED
  BY <1>1, <1>2, <1>3
  DEF WindowInit, WindowInv, ReadIsGuarded, ControlsInv, WindowTypeOK, LabelsShowState,
      CheckShowsOutput, HeldIsOpposite, FrequencyIsGuarded, LockIsHonest, Dialogs

\* Focus and typing: only an enabled field is edited, so the user has
\* confirmed it.
LEMMA EditsKeepControls ==
  ASSUME ControlsInv, EnterFreq \/ EnterAddr \/ Leave \/ TypeFreq \/ TypeAddr
                        \/ StepFrequency
  PROVE  ControlsInv'
<1> USE DEF ControlsInv, Usable, Clickable, controls, handling, vars
<1>1. UNCHANGED <<state, connected, lock, enabled, dialog, held, read, check,
                  label, button, opened, crossed>>
  BY DEF EnterFreq, EnterAddr, Leave, TypeFreq, TypeAddr, StepFrequency
<1>2. /\ focus' \in {"freq", "addr", "other"}
      /\ focus' = "freq" => enabled
      /\ dialog # "none" => focus' = focus
  BY DEF EnterFreq, EnterAddr, Leave, TypeFreq, TypeAddr, StepFrequency,
         WindowTypeOK, LockIsHonest
<1>3. addrEdit' \in Nat \cup {UNKNOWN}
  BY WindowAssumption
  DEF EnterFreq, EnterAddr, Leave, TypeFreq, TypeAddr, StepFrequency,
         WindowTypeOK
<1>4. freqEdit' \in Nat \cup {UNKNOWN}
  <2>1. CASE StepFrequency
    <3>1. PICK step \in Steps, d \in {-1, 1} :
            freqEdit' = Between(FreqMin, FreqMax, NumberIn(freqEdit) + d * step)
      BY <2>1 DEF StepFrequency
    <3>2. NumberIn(freqEdit) \in Nat /\ step \in Nat /\ Steps \subseteq Nat
      BY FieldsReadAsNumbers, WindowAssumption
    <3>3. d * step \in {step, -step}
      BY <3>2
    <3>4. NumberIn(freqEdit) + d * step \in Int
      BY <3>2, <3>3
    <3>5. \A n \in Int : Between(FreqMin, FreqMax, n) \in Nat
      BY WindowAssumption DEF Between
    <3> QED
      BY <3>1, <3>4, <3>5
  <2> QED
    BY <2>1, WindowAssumption
    DEF EnterFreq, EnterAddr, Leave, TypeFreq, TypeAddr, WindowTypeOK
<1>5. freqEdit' # freqEdit => enabled
  BY DEF EnterFreq, EnterAddr, Leave, TypeFreq, TypeAddr, StepFrequency,
         LockIsHonest
<1>6. WindowTypeOK'
  BY <1>1, <1>2, <1>3, <1>4 DEF WindowTypeOK
<1>7. LabelsShowState' /\ CheckShowsOutput' /\ HeldIsOpposite'
  BY <1>1 DEF LabelsShowState, CheckShowsOutput, HeldIsOpposite
<1>8. FrequencyIsGuarded' /\ LockIsHonest' /\ ReadIsGuarded'
  BY <1>1, <1>2, <1>5 DEF FrequencyIsGuarded, LockIsHonest, ReadIsGuarded
<1> QED
  BY <1>6, <1>7, <1>8

\* The output check box and its prompt.
LEMMA OutputKeepsControls ==
  ASSUME ControlsInv, TypeOK, TypeOK', ClickOutput \/ AnswerOutput
  PROVE  ControlsInv'
<1>1. check \in BOOLEAN
  BY DEF ControlsInv, WindowTypeOK
<1>2. CASE ClickOutput
  <2>1. /\ held' \in BOOLEAN /\ check' \in BOOLEAN /\ held' = ~check
        /\ dialog' = "output" /\ focus = "other" /\ dialog = "none"
        /\ UNCHANGED <<state, connected, lock, enabled, focus, read, freqEdit,
                       addrEdit, label, button, opened, crossed>>
    BY <1>1, <1>2 DEF ClickOutput, Clickable, Usable, vars
  <2>2. WindowTypeOK'
    BY <2>1 DEF ControlsInv, WindowTypeOK, Dialogs
  <2>3. HeldIsOpposite' /\ CheckShowsOutput'
    BY <2>1 DEF ControlsInv, CheckShowsOutput, HeldIsOpposite
  <2>4. LabelsShowState' /\ FrequencyIsGuarded' /\ LockIsHonest' /\ ReadIsGuarded'
    BY <2>1
    DEF ControlsInv, LabelsShowState, FrequencyIsGuarded, LockIsHonest, ReadIsGuarded
  <2> QED
    BY <2>2, <2>3, <2>4 DEF ControlsInv
<1>3. CASE AnswerOutput /\ Refresh
  <2>1. UNCHANGED <<lock, enabled, focus, connected>>
    BY <1>3 DEF AnswerOutput, Command, portVars, vars
  <2>2. dialog' = "none" /\ held' = UNKNOWN /\ read' = UNKNOWN
    BY <1>3 DEF AnswerOutput, ControlsInv, WindowTypeOK
  <2> QED
    BY <1>3, <2>1, <2>2, RefreshKeeps
<1>4. CASE AnswerOutput /\ ~Refresh
  <2>1. /\ check' = ~held /\ held \in BOOLEAN /\ check' \in BOOLEAN
        /\ dialog = "output" /\ dialog' = "none" /\ held' = UNKNOWN
        /\ UNCHANGED <<state, connected, lock, enabled, focus, read, freqEdit,
                       addrEdit, label, button, opened, crossed>>
    BY <1>4 DEF AnswerOutput, vars, ControlsInv, WindowTypeOK
  <2>2. WindowTypeOK'
    BY <2>1 DEF ControlsInv, WindowTypeOK, Dialogs
  <2>3. HeldIsOpposite' /\ CheckShowsOutput'
    <3>1. state.output_on \in BOOLEAN
      BY ShownTypes
    <3>2. ~crossed => check' = state.output_on
      BY <2>1, <3>1 DEF ControlsInv, HeldIsOpposite
    <3> QED
      BY <2>1, <3>2 DEF CheckShowsOutput, HeldIsOpposite
  <2>4. LabelsShowState' /\ FrequencyIsGuarded' /\ LockIsHonest' /\ ReadIsGuarded'
    BY <2>1
    DEF ControlsInv, LabelsShowState, FrequencyIsGuarded, LockIsHonest, ReadIsGuarded
  <2> QED
    BY <2>2, <2>3, <2>4 DEF ControlsInv
<1> QED
  BY <1>2, <1>3, <1>4

\* The lock and its prompt: while it asks, the mark is already gone, and the
\* field still disabled.
LEMMA LockKeepsControls ==
  ASSUME ControlsInv, ClickLock \/ AnswerUnlock
  PROVE  ControlsInv'
<1>1. /\ UNCHANGED <<state, connected, freqEdit, addrEdit, check, label, button,
                     crossed, focus, held, read>>
      /\ dialog' \in {"none", "unlock"} /\ dialog \in {"none", "unlock"}
      /\ focus = "other" /\ held = UNKNOWN
  BY DEF ClickLock, AnswerUnlock, Clickable, Usable, vars, controls,
         ControlsInv, WindowTypeOK, LockIsHonest
<1>2. /\ lock' \in BOOLEAN /\ enabled' \in BOOLEAN /\ opened' \in BOOLEAN
      /\ enabled' => ~lock' /\ opened'
      /\ dialog' = "unlock" => ~lock'
      /\ opened => opened'
  <2>1. /\ lock \in BOOLEAN /\ enabled \in BOOLEAN /\ opened \in BOOLEAN
        /\ enabled => ~lock /\ opened
        /\ dialog = "unlock" => ~lock
    BY DEF ControlsInv, WindowTypeOK, LockIsHonest
  <2>2. CASE ClickLock /\ lock
    <3>1. lock' = ~lock /\ enabled' = enabled /\ opened' = opened
      BY <2>2 DEF ClickLock, controls
    <3>2. lock' = FALSE /\ ~enabled /\ enabled' \in BOOLEAN
      BY <2>1, <2>2, <3>1
    <3> QED
      BY <2>1, <3>1, <3>2
  <2>3. CASE ClickLock /\ ~lock
    <3>1. lock' = ~lock /\ enabled' = FALSE /\ opened' = opened
          /\ dialog' = dialog /\ dialog = "none"
      BY <2>3 DEF ClickLock, Clickable, Usable, controls
    <3>2. lock' \in BOOLEAN
      BY <3>1
    <3> QED
      BY <2>1, <3>1, <3>2
  <2>4. CASE AnswerUnlock
    <3>1. dialog = "unlock" /\ dialog' = "none"
      BY <2>4 DEF AnswerUnlock
    <3>2. \/ enabled' = TRUE /\ opened' = TRUE /\ lock' = lock
          \/ enabled' = FALSE /\ lock' = TRUE /\ opened' = opened
      BY <2>4 DEF AnswerUnlock
    <3>3. ~lock
      BY <2>1, <3>1
    <3>4. dialog' # "unlock"
      BY <3>1
    <3>5. CASE enabled' = TRUE /\ opened' = TRUE /\ lock' = lock
      BY <2>1, <3>3, <3>4, <3>5, Zenon
    <3>6. CASE enabled' = FALSE /\ lock' = TRUE /\ opened' = opened
      BY <2>1, <3>4, <3>6, Zenon
    <3> QED
      BY <3>2, <3>5, <3>6
  <2> QED
    BY <2>2, <2>3, <2>4
<1>3. WindowTypeOK'
  BY <1>1, <1>2 DEF ControlsInv, WindowTypeOK, Dialogs
<1>4. LabelsShowState' /\ CheckShowsOutput' /\ HeldIsOpposite'
  BY <1>1 DEF ControlsInv, LabelsShowState, CheckShowsOutput, HeldIsOpposite
<1>5. FrequencyIsGuarded' /\ LockIsHonest' /\ ReadIsGuarded'
  BY <1>1, <1>2 DEF ControlsInv, FrequencyIsGuarded, LockIsHonest, ReadIsGuarded
<1> QED
  BY <1>3, <1>4, <1>5 DEF ControlsInv

\* Apply with its three prompts opens and closes prompts, and refreshes when
\* it sends.
LEMMA ApplyKeepsControls ==
  ASSUME ControlsInv, TypeOK, TypeOK',
         ClickApply \/ AnswerWarn \/ AnswerBandwidth \/ AnswerInvalid
  PROVE  ControlsInv'
<1>1. /\ UNCHANGED <<lock, enabled, focus>>
      /\ focus = "other" /\ dialog \notin {"output", "unlock"}
  BY DEF ClickApply, AnswerWarn, AnswerBandwidth, AnswerInvalid, Send,
         OnApplyClicked, Clickable, Usable, ControlsInv, WindowTypeOK,
         LockIsHonest
<1>2. CASE UNCHANGED <<state, connected, controls>>
  <2>1. /\ dialog' \in {"none", "warn", "bandwidth", "invalid"}
        /\ dialog' = "bandwidth"
             => /\ held' = NumberIn(freqEdit) /\ held' \in Nat
                /\ read' = [shown |-> state.signal, opened |-> opened]
        /\ dialog' # "bandwidth" => held' = UNKNOWN /\ read' = UNKNOWN
    <3>1. CASE AnswerBandwidth \/ AnswerInvalid
      BY <1>2, <3>1
      DEF AnswerBandwidth, AnswerInvalid, Send, ControlsInv, WindowTypeOK
    <3>2. CASE ClickApply \/ AnswerWarn
      BY <1>2, <3>2, FieldsReadAsNumbers
      DEF ClickApply, AnswerWarn, OnApplyClicked, Send, Clickable, Usable,
          ControlsInv, WindowTypeOK
    <3> QED
      BY <3>1, <3>2
  <2>2. WindowTypeOK'
    BY <1>1, <1>2, <2>1, ShownTypes DEF ControlsInv, WindowTypeOK, Dialogs, controls
  <2>3. LabelsShowState' /\ CheckShowsOutput' /\ HeldIsOpposite'
    BY <1>1, <1>2, <2>1
    DEF ControlsInv, LabelsShowState, CheckShowsOutput, HeldIsOpposite, controls
  <2>4. FrequencyIsGuarded' /\ LockIsHonest'
    BY <1>1, <1>2, <2>1
    DEF ControlsInv, FrequencyIsGuarded, LockIsHonest, controls
  <2>5. ReadIsGuarded'
    <3>1. ~opened => freqEdit = state.signal
      BY DEF ControlsInv, FrequencyIsGuarded
    <3> QED
      BY <2>1, <3>1 DEF ReadIsGuarded, NumberIn
  <2> QED
    BY <2>2, <2>3, <2>4, <2>5 DEF ControlsInv
<1>3. CASE ~UNCHANGED <<state, connected, controls>>
  <2>1. /\ Refresh /\ dialog' = "none" /\ held' = UNKNOWN /\ read' = UNKNOWN
        /\ UNCHANGED connected
    BY <1>3
    DEF ClickApply, AnswerWarn, AnswerBandwidth, AnswerInvalid, Send,
        OnApplyClicked, Command, portVars, vars
  <2> QED
    BY <1>1, <2>1, RefreshKeeps
<1> QED
  BY <1>2, <1>3

\* An open that fails, and a timer without a timeout, leave the state alone.
LEMMA PortKeepsControls ==
  ASSUME ControlsInv, Inv, TypeOK',
         ClickConnect \/ WindowRetry \/ WindowClose
  PROVE  ControlsInv'
<1>1. connected' = connected => state' = state
  <2>1. /\ connected <=> handle = "OPEN" /\ connected \in BOOLEAN
        /\ thread = "retry" => ~connected
    BY DEF Inv, TypeOK, ConnTypeOK, PortStateAgrees
  <2>2. PortOpened => connected' = TRUE
    BY DEF PortOpened, ConnOpened
  <2>3. ConnDisconnect => connected' = FALSE
    BY DEF ConnDisconnect
  <2>4. CASE ClickConnect \/ WindowRetry
    <3>1. Connect \/ ConnectRetry => ~connected
      BY <2>1 DEF Connect, ConnectRetry, ConnIsConnected
    <3>2. Connect \/ ConnectRetry => PortOpened \/ state' = state
      BY DEF Connect, ConnectRetry
    <3>3. Disconnect => connected /\ ConnDisconnect
      BY DEF Disconnect, ConnIsConnected
    <3> QED
      BY <2>2, <2>3, <2>4, <3>1, <3>2, <3>3 DEF ClickConnect, WindowRetry
  <2>5. CASE WindowClose
    <3>1. (connected /\ ConnDisconnect) \/ state' = state
      BY <2>5 DEF WindowClose, CloseWindow, ConnIsConnected
    <3> QED
      BY <2>3, <3>1
  <2> QED
    BY <2>4, <2>5
<1>2. UNCHANGED handling /\ ShowPort
  BY DEF ClickConnect, WindowRetry, WindowClose
<1>3. CASE connected' = connected
  BY <1>1, <1>2, <1>3, QuietKeeps DEF ShowPort, windowVars
<1>4. CASE connected' # connected
  BY <1>2, <1>4, RefreshStatusKeeps DEF ShowPort, handling, Inv
<1> QED
  BY <1>3, <1>4

\* Everything else.
LEMMA OthersKeepControls ==
  ASSUME ControlsInv, Inv, TypeOK',
         \/ ClickRead \/ ClickQuery \/ ClickSetAddress \/ WindowFrame
         \/ WindowTimeout \/ Elsewhere
  PROVE  ControlsInv'
<1>1. CASE ClickRead \/ ClickQuery \/ ClickSetAddress \/ WindowFrame
  <2>1. Refresh /\ UNCHANGED handling
    BY <1>1 DEF ClickRead, ClickQuery, ClickSetAddress, WindowFrame
  <2>2. UNCHANGED connected
    BY <1>1
    DEF ClickRead, ClickQuery, ClickSetAddress, WindowFrame, ReadStatus,
        QueryAddress, Command, TimerFrame, ConnNextFrame, portVars
  <2> QED
    BY <2>1, <2>2, RefreshKeeps DEF handling, Inv
<1>2. CASE WindowTimeout
  <2>1. UNCHANGED <<handling, connected>> /\ RefreshIf(TimedOut)
    BY <1>2 DEF WindowTimeout, TimerTimeout, DevicePollTimeout, portVars
  <2>2. ~TimedOut => UNCHANGED state
    BY <1>2 DEF WindowTimeout, TimerTimeout, DevicePollTimeout
  <2>3. TimedOut \in BOOLEAN
    BY DEF TimedOut, DeadlinePassed, Inv, TypeOK, DeviceTypeOK, Pendings, NoPending
  <2> QED
    BY <2>1, <2>2, <2>3, RefreshIfKeeps DEF Inv
<1>3. CASE Elsewhere
  <2>1. UNCHANGED <<windowVars, state, connected>>
    BY <1>3
    DEF Elsewhere, TimerPoll, ConnPoll, ClockTick, UnitAct, UnitIgnores,
        UnitAccepts, UnitRejects, UnitReports, Answer, deviceVars, portVars
  <2> QED
    BY <2>1, QuietKeeps
<1> QED
  BY <1>1, <1>2, <1>3

LEMMA WindowNextInv == WindowInv /\ [WindowNext]_allWindowVars => WindowInv'
<1> SUFFICES ASSUME WindowInv, [WindowNext]_allWindowVars PROVE WindowInv'
  OBVIOUS
<1>1. ControlsInv /\ Inv /\ TypeOK
  BY DEF WindowInv, Inv
<1>2. Inv' /\ TypeOK'
  <2>1. Inv'
    BY <1>1, WindowStepIsStep, NextInv
  <2> QED
    BY <2>1 DEF Inv
<1>3. CASE UNCHANGED allWindowVars
  BY <1>1, <1>2, <1>3, QuietKeeps DEF allWindowVars, vars, WindowInv
<1>4. CASE WindowNext
  <2>1. ControlsInv'
    BY <1>1, <1>2, <1>4, EditsKeepControls, OutputKeepsControls,
       LockKeepsControls, ApplyKeepsControls, PortKeepsControls,
       OthersKeepControls
    DEF WindowNext
  <2> QED
    BY <1>2, <2>1 DEF WindowInv
<1> QED
  BY <1>3, <1>4

\* The controls' invariant holds in every reachable state.
THEOREM WindowInvariance == WindowSpec => []WindowInv
BY WindowInitInv, WindowNextInv, PTL DEF WindowSpec

-----------------------------------------------------------------------------
(* The theorems *)

\* Whatever is clicked, typed and answered, in prompts and out of them, the
\* window takes only steps of the program: what is proved of TxLite holds
\* of it, with any frequency, and with the "-" of an empty field.
THEOREM WindowIsTxLite == WindowSpec => Spec
<1>1. WindowInit => Init
  BY DEF WindowInit
<1>2. WindowInv /\ [WindowNext]_allWindowVars => [Next]_vars
  BY WindowStepIsStep DEF WindowInv
<1> QED
  BY <1>1, <1>2, WindowInvariance, PTL DEF WindowSpec, Spec

\* No field ever holds what cannot be sent or clamped.
THEOREM WindowTypeCorrect == WindowSpec => []WindowTypeOK
<1>1. WindowInv => WindowTypeOK
  BY DEF WindowInv, ControlsInv
<1> QED
  BY <1>1, WindowInvariance, PTL

\* No path that changes DeviceState forgets to notify the window.
THEOREM LabelsCorrect == WindowSpec => []LabelsShowState
<1>1. WindowInv => LabelsShowState
  BY DEF WindowInv, ControlsInv
<1> QED
  BY <1>1, WindowInvariance, PTL

\* The check box is right but for its prompt and a No to an outdated one.
THEOREM CheckCorrect == WindowSpec => []CheckShowsOutput
<1>1. WindowInv => CheckShowsOutput
  BY DEF WindowInv, ControlsInv
<1> QED
  BY <1>1, WindowInvariance, PTL

\* Without the confirmation to unlock, the frequency field shows what the
\* module's frequency is shown to be.
THEOREM GuardCorrect == WindowSpec => []FrequencyIsGuarded
<1>1. WindowInv => FrequencyIsGuarded
  BY DEF WindowInv, ControlsInv
<1> QED
  BY <1>1, WindowInvariance, PTL

\* Only Apply puts signal settings on the line.
LEMMA OnlyApplySendsSettings ==
  ASSUME ControlsInv, LineTypeOK, WindowNext, Sends("SIGNAL_CONTROL")
  PROVE  ClickApply \/ AnswerWarn \/ AnswerBandwidth
<1>1. out \in Seq(Requests)
  BY DEF LineTypeOK
<1>2. /\ out' \notin {out, <<>>}
      /\ out # <<>> => out' # Tail(out)
      /\ \A request : request.type # "SIGNAL_CONTROL" => out' # Append(out, request)
  <2>1. Len(out') > Len(out) /\ out'[Len(out')].type = "SIGNAL_CONTROL"
    BY DEF Sends
  <2>2. out' \notin {out, <<>>}
    BY <1>1, <2>1
  <2>3. ASSUME out # <<>>, out' = Tail(out) PROVE FALSE
    <3>1. Len(out') = Len(out) - 1 /\ Len(out) \in Nat
      BY <1>1, <2>3
    <3>2. Len(out') > Len(out)
      BY <2>1
    <3> QED
      BY <3>1, <3>2
  <2>4. ASSUME NEW request, request.type # "SIGNAL_CONTROL", out' = Append(out, request)
        PROVE  FALSE
    <3>1. Len(out') = Len(out) + 1 /\ out'[Len(out) + 1] = request
      BY <1>1, <2>4
    <3> QED
      BY <2>1, <2>4, <3>1
  <2> QED
    BY <2>2, <2>3, <2>4
<1>3. ~(EnterFreq \/ EnterAddr \/ Leave \/ TypeFreq \/ TypeAddr \/ StepFrequency
          \/ ClickOutput \/ ClickLock \/ AnswerUnlock \/ AnswerInvalid)
  BY <1>2 DEF EnterFreq, EnterAddr, Leave, TypeFreq, TypeAddr, StepFrequency,
              ClickOutput, ClickLock, AnswerUnlock, AnswerInvalid, vars
<1>4. ~(ClickConnect \/ WindowRetry \/ WindowClose \/ WindowFrame \/ WindowTimeout)
  BY <1>2
  DEF ClickConnect, WindowRetry, WindowClose, WindowFrame, WindowTimeout, Connect,
      ConnectRetry, Disconnect, CloseWindow, PortOpened, ModuleAtPort,
      ConnOpenFailed, ConnOpenDenied, ConnDisconnect, TimerFrame, ConnNextFrame, TimerTimeout,
      DevicePollTimeout, lineVars
<1>5. ~Elsewhere
  BY <1>2
  DEF Elsewhere, TimerPoll, ConnPoll, ClockTick, UnitAct, UnitIgnores, UnitAccepts,
      UnitRejects, UnitReports, Answer, lineVars
<1>6. \A type, addr, arg :
        type # "SIGNAL_CONTROL" => /\ Request(type, addr, arg).type # "SIGNAL_CONTROL"
                                   /\ out' # Append(out, Request(type, addr, arg))
  BY <1>2 DEF Request
<1>7. ASSUME NEW type, NEW addr, NEW arg, NEW kind, NEW value,
             type # "SIGNAL_CONTROL",
             DeviceSend(Request(type, addr, arg), kind, value)
      PROVE  FALSE
  BY <1>2, <1>6, <1>7 DEF DeviceSend, ConnSends, ConnSendFails
<1>8. ~ClickRead
  BY <1>7 DEF ClickRead, ReadStatus, Command, DeviceReadStatus
<1>9. ~ClickQuery
  BY <1>7 DEF ClickQuery, QueryAddress, Command, DeviceQueryAddress
<1>10. ~ClickSetAddress
  BY <1>7 DEF ClickSetAddress, Command, DeviceSetAddress
<1>11. ~AnswerOutput
  BY <1>2, <1>6
  DEF AnswerOutput, Command, DeviceSendOutput, ConnSends, ConnSendFails, vars
<1> QED
  BY <1>3, <1>4, <1>5, <1>8, <1>9, <1>10, <1>11 DEF WindowNext

\* A field that shows the frequency of the state sends that frequency, and a
\* field that shows "-" sends nothing.
LEMMA ShownFrequencyIsSent ==
  ASSUME NEW signal \in Signals \cup {UNKNOWN},
         NumberIn(signal) % WordSize \in Signals
  PROVE  NumberIn(signal) % WordSize = signal
<1>1. /\ WordSize \in Nat /\ FreqMin \in Nat \ {0} /\ FreqMax \in Nat
      /\ FreqMax < WordSize /\ Signals = FreqMin .. FreqMax
  BY WindowAssumption
<1>2. 0 % WordSize = 0
  BY <1>1
<1>3. CASE signal = UNKNOWN
  BY <1>1, <1>2, <1>3 DEF NumberIn
<1>4. CASE signal \in Signals
  <2>1. NumberIn(signal) = signal
    BY <1>4, DeviceAssumption DEF NumberIn
  <2>2. signal \in Nat /\ signal < WordSize
    BY <1>1, <1>4
  <2>3. signal % WordSize = signal
    BY <1>1, <2>2
  <2> QED
    BY <2>1, <2>3
<1> QED
  BY <1>3, <1>4

\* No sequence of clicks, locking included, sends another frequency than the
\* one shown when it was read without a confirmed unlock.
THEOREM ChangeCorrect == WindowSpec => ChangedFrequencyIsConfirmed
<1> DEFINE Confirmed ==
      Sends("SIGNAL_CONTROL") => SentAsConfirmed(out'[Len(out')].arg)
<1>1. ASSUME WindowInv, WindowNext PROVE Confirmed
  <2> SUFFICES ASSUME Sends("SIGNAL_CONTROL")
               PROVE  SentAsConfirmed(out'[Len(out')].arg)
    OBVIOUS
  <2>1. ControlsInv /\ LineTypeOK /\ TypeOK
    BY <1>1 DEF WindowInv, Inv, TypeOK
  <2>2. ClickApply \/ AnswerWarn \/ AnswerBandwidth
    BY <1>1, <2>1, OnlyApplySendsSettings
  <2>3. out' # out
    BY DEF Sends
  <2>4. ASSUME NEW freq, Send(freq)
        PROVE  /\ freq % WordSize \in Signals
               /\ out'[Len(out')].arg = freq % WordSize
    <3>1. freq % WordSize \in Signals
          /\ Command(DeviceApplySignalSettings(freq % WordSize))
      BY <2>3, <2>4 DEF Send, vars
    <3>2. out' = Append(out, Request("SIGNAL_CONTROL", state.address, freq % WordSize))
      BY <2>3, <3>1
      DEF Command, DeviceApplySignalSettings, DeviceSend, ConnSends, ConnSendFails
    <3>3. Len(out') = Len(out) + 1
          /\ out'[Len(out) + 1]
               = Request("SIGNAL_CONTROL", state.address, freq % WordSize)
      BY <2>1, <3>2 DEF LineTypeOK
    <3> QED
      BY <3>1, <3>3 DEF Request
  <2>5. CASE AnswerBandwidth
    <3>1. dialog = "bandwidth" /\ Send(held)
      BY <2>3, <2>5 DEF AnswerBandwidth, vars
    <3>2. /\ read.shown \in Signals \cup {UNKNOWN}
          /\ read.opened \/ held = NumberIn(read.shown)
      BY <2>1, <3>1 DEF ControlsInv, WindowTypeOK, ReadIsGuarded
    <3> QED
      BY <2>4, <3>1, <3>2, ShownFrequencyIsSent DEF SentAsConfirmed
  <2>6. CASE ClickApply \/ AnswerWarn
    <3>1. dialog # "bandwidth" /\ Send(NumberIn(freqEdit))
      BY <2>3, <2>6
      DEF ClickApply, Clickable, Usable, AnswerWarn, OnApplyClicked, vars
    <3>2. /\ opened \/ freqEdit = state.signal
          /\ state.signal \in Signals \cup {UNKNOWN}
      BY <2>1, ShownTypes DEF ControlsInv, FrequencyIsGuarded
    <3> QED
      BY <2>4, <3>1, <3>2, ShownFrequencyIsSent DEF SentAsConfirmed
  <2> QED
    BY <2>2, <2>5, <2>6
<1>2. WindowInv /\ [WindowNext]_allWindowVars => [Confirmed]_allWindowVars
  BY <1>1
<1> QED
  BY <1>2, WindowInvariance, PTL DEF WindowSpec, ChangedFrequencyIsConfirmed

=============================================================================
