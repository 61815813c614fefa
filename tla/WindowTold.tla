----------------------------- MODULE WindowTold -----------------------------
(***************************************************************************)
(* The window and what the RF module told it: Window and Told, each over   *)
(* TxLite, put together, so that what the controls show can be compared    *)
(* with what the module said and with what it really does.  Window_proofs  *)
(* says that the controls show DeviceState, Told_proofs that DeviceState   *)
(* is what was heard; neither can speak of the other's variables.          *)
(***************************************************************************)
EXTENDS Window_proofs, Told_proofs

togetherVars == <<vars, windowVars, toldVars>>

TogetherInit == WindowInit /\ ToldInit

\* A step of the window, with the history kept if it is one of the program.
TogetherNext == WindowNext /\ (ToldNext \/ UNCHANGED <<vars, toldVars>>)

TogetherSpec == TogetherInit /\ [][TogetherNext]_togetherVars

-----------------------------------------------------------------------------
(* Properties *)

\* The labels show what the module last said: its settings at any time, its
\* output when no switch is waiting for an answer.
LabelsShowHeard ==
  /\ label.signal = heard["signal"]
  /\ ~pending.active => label.output = HeardOutput

\* The controls the user works with show it too: the frequency field unless
\* the lock was opened, the check box but for its own prompt.
ControlsShowHeard ==
  /\ ~opened => freqEdit = heard["signal"]
  /\ ~pending.active /\ dialog # "output" /\ ~crossed => check = HeardOutput

\* With no command pending, what the window shows of a setting it was ever
\* told of is what the module behind the port has now, unless an answer about
\* that setting was lost, or the module is another or a changed one and has
\* not told it yet.
WindowMatchesUnit ==
  \A f \in Fields \ stale :
    ~pending.active /\ heard[f] # UNKNOWN =>
      CASE f = "output" ->
             /\ label.output = unit.output
             /\ dialog # "output" /\ ~crossed => check = unit.output
        [] f = "signal" ->
             /\ label.signal = unit.signal
             /\ ~opened => freqEdit = unit.signal
        [] f = "address" -> AddressShown(state) = unit.address

\* Apply sends a frequency the module had not told when Apply read the field
\* only if the user had by then confirmed opening the lock: what it reads
\* ahead of the prompt for the bandwidth is compared with what was told then.
UntoldFrequencyIsConfirmed ==
  [][/\ dialog # "bandwidth" /\ dialog' = "bandwidth"
          => read' = [shown |-> heard["signal"], opened |-> opened]
     /\ Sends("SIGNAL_CONTROL") =>
          IF dialog = "bandwidth"
            THEN out'[Len(out')].arg # read.shown => read.opened
            ELSE out'[Len(out')].arg # heard["signal"] => opened]_togetherVars

-----------------------------------------------------------------------------
(* Both specifications hold of the two together *)

\* What is proved of the window holds of the two together ...
THEOREM TogetherIsWindow == TogetherSpec => WindowSpec
<1>1. TogetherInit => WindowInit
  BY DEF TogetherInit
<1>2. [TogetherNext]_togetherVars => [WindowNext]_allWindowVars
  BY DEF TogetherNext, togetherVars, allWindowVars
<1> QED
  BY <1>1, <1>2, PTL DEF TogetherSpec, WindowSpec

\* ... and so does what is proved of the program and its history.
THEOREM TogetherIsTold == TogetherSpec => ToldSpec
<1>1. TogetherInit => ToldInit
  BY DEF TogetherInit
<1>2. [TogetherNext]_togetherVars => [ToldNext]_allVars
  BY DEF TogetherNext, togetherVars, allVars
<1> QED
  BY <1>1, <1>2, PTL DEF TogetherSpec, ToldSpec

\* One command at a time, the invariants of both hold of the two together.
LEMMA TogetherInvariance ==
  ASSUME OneAtATime
  PROVE  TogetherSpec => [](WindowInv /\ HeardInv)
BY TogetherIsWindow, TogetherIsTold, WindowInvariance, HeardInvariance, PTL

-----------------------------------------------------------------------------
(* What the controls show is what was heard, and true *)

\* The output of the state, as Told knows it with no command pending.
LEMMA SettledOutputIsHeard ==
  ASSUME HeardInv, ~pending.active
  PROVE  state.output_on = HeardOutput
BY DEF HeardInv, OutputIsHeardOrGuessed, Guessing

\* Every handler that changes what is shown refreshes the labels, and changes
\* it only to what the module said: so the labels show what it said.
THEOREM LabelsHeardCorrect ==
  ASSUME OneAtATime
  PROVE  TogetherSpec => []LabelsShowHeard
<1>1. WindowInv /\ HeardInv => LabelsShowHeard
  BY SettledOutputIsHeard
  DEF WindowInv, ControlsInv, LabelsShowState, LabelOf, HeardInv, SignalIsHeard,
      LabelsShowHeard
<1> QED
  BY <1>1, TogetherInvariance, PTL

\* The frequency field and the check box, which the user changes as well.
THEOREM ControlsHeardCorrect ==
  ASSUME OneAtATime
  PROVE  TogetherSpec => []ControlsShowHeard
<1>1. WindowInv /\ HeardInv => ControlsShowHeard
  BY SettledOutputIsHeard
  DEF WindowInv, ControlsInv, FrequencyIsGuarded, CheckShowsOutput, HeardInv,
      SignalIsHeard, ControlsShowHeard
<1> QED
  BY <1>1, TogetherInvariance, PTL

\* From the module's memory, over answers, device_on_frame and DeviceState to
\* the refresh of the controls: the window is right about the module, but for
\* the fields counted as stale, which opening a port to another module makes
\* all of them.
THEOREM WindowMatchesUnitCorrect ==
  ASSUME OneAtATime
  PROVE  TogetherSpec => []WindowMatchesUnit
<1>1. ASSUME WindowInv, HeardInv, ~pending.active,
             NEW f \in Fields \ stale, heard[f] # UNKNOWN
      PROVE  CASE f = "output" ->
                    /\ label.output = unit.output
                    /\ dialog # "output" /\ ~crossed => check = unit.output
               [] f = "signal" ->
                    /\ label.signal = unit.signal
                    /\ ~opened => freqEdit = unit.signal
               [] f = "address" -> AddressShown(state) = unit.address
  <2>1. heard[f] = unit[f] /\ Shown[f] = unit[f]
    BY <1>1, HeardMatchesUnit
  <2>2. CASE f = "output"
    <3>1. state.output_on = unit.output
      BY <2>1, <2>2 DEF Shown
    <3>2. label.output = state.output_on
          /\ (dialog # "output" /\ ~crossed => check = state.output_on)
      BY <1>1 DEF WindowInv, ControlsInv, LabelsShowState, LabelOf, CheckShowsOutput
    <3> QED
      BY <2>2, <3>1, <3>2
  <2>3. CASE f = "signal"
    <3>1. state.signal = unit.signal
      BY <2>1, <2>3 DEF Shown
    <3>2. label.signal = state.signal /\ (~opened => freqEdit = state.signal)
      BY <1>1 DEF WindowInv, ControlsInv, LabelsShowState, LabelOf, FrequencyIsGuarded
    <3> QED
      BY <2>3, <3>1, <3>2
  <2>4. CASE f = "address"
    <3>1. state.address = unit.address
      BY <2>1, <2>4 DEF Shown
    <3>2. state.address_known
      BY <1>1, <2>4 DEF HeardInv, AddressIsKnownFromHearing
    <3> QED
      BY <2>4, <3>1, <3>2 DEF AddressShown
  <2> QED
    BY <2>2, <2>3, <2>4 DEF Fields
<1>2. WindowInv /\ HeardInv => WindowMatchesUnit
  BY <1>1 DEF WindowMatchesUnit
<1> QED
  BY <1>2, TogetherInvariance, PTL

\* on_apply_clicked sends back the frequency the module had told when the
\* field was read, or one from behind an unlock the user had confirmed.
THEOREM UntoldFrequencyCorrect ==
  ASSUME OneAtATime
  PROVE  TogetherSpec => UntoldFrequencyIsConfirmed
<1> DEFINE Recorded ==
      dialog # "bandwidth" /\ dialog' = "bandwidth"
        => read' = [shown |-> heard["signal"], opened |-> opened]
           Confirmed ==
      Sends("SIGNAL_CONTROL") =>
        IF dialog = "bandwidth"
          THEN out'[Len(out')].arg # read.shown => read.opened
          ELSE out'[Len(out')].arg # heard["signal"] => opened
<1>1. HeardInv => state.signal = heard["signal"]
  BY DEF HeardInv, SignalIsHeard
<1>2. TogetherSpec => ChangedFrequencyIsConfirmed
  BY TogetherIsWindow, ChangeCorrect, PTL
<1>3. ASSUME HeardInv, UNCHANGED allWindowVars
             \/ (Sends("SIGNAL_CONTROL") => SentAsConfirmed(out'[Len(out')].arg))
      PROVE  Confirmed
  BY <1>1, <1>3 DEF SentAsConfirmed, allWindowVars, vars, lineVars, Sends
<1>4. ASSUME WindowInv, HeardInv, WindowNext PROVE Recorded
  <2> SUFFICES ASSUME dialog # "bandwidth", dialog' = "bandwidth"
               PROVE  read' = [shown |-> heard["signal"], opened |-> opened]
    OBVIOUS
  <2>1. OnApplyClicked
    BY <1>4
    DEF WindowNext, EnterFreq, EnterAddr, Leave, TypeFreq, TypeAddr, StepFrequency,
        ClickRead, ClickQuery, ClickSetAddress, ClickConnect, WindowRetry,
        WindowClose, ClickOutput, AnswerOutput, ClickLock, AnswerUnlock, ClickApply,
        AnswerWarn, AnswerBandwidth, AnswerInvalid, WindowFrame, WindowTimeout,
        Elsewhere, handling, windowVars
  <2> QED
    BY <1>1, <1>4, <2>1 DEF OnApplyClicked, Send
<1>5. [TogetherNext]_togetherVars /\ WindowInv /\ HeardInv
        /\ [Sends("SIGNAL_CONTROL")
              => SentAsConfirmed(out'[Len(out')].arg)]_allWindowVars
      => [Recorded /\ Confirmed]_togetherVars
  <2> SUFFICES ASSUME TogetherNext, WindowInv, HeardInv,
                      [Sends("SIGNAL_CONTROL")
                         => SentAsConfirmed(out'[Len(out')].arg)]_allWindowVars
               PROVE  Recorded /\ Confirmed
    OBVIOUS
  <2>1. WindowNext
    BY DEF TogetherNext
  <2> QED
    BY <1>3, <1>4, <2>1
<1> QED
  BY <1>2, <1>5, TogetherInvariance, PTL
  DEF TogetherSpec, ChangedFrequencyIsConfirmed, UntoldFrequencyIsConfirmed

=============================================================================
