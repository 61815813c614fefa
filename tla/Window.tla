------------------------------- MODULE Window -------------------------------
(***************************************************************************)
(* The controls of main.c over the program of TxLite: the frequency field  *)
(* with its lock and its step buttons, the address field, the output check *)
(* box, the labels, and the prompts.  A prompt runs a message loop of its  *)
(* own: the main window takes no clicks, and frames, timeouts and their    *)
(* refreshes go on under it.                                               *)
(*                                                                         *)
(* Of the signal settings the frequency is the one modelled: a member of   *)
(* Signals is a frequency in MHz, and one of Addresses a number too.       *)
(* UNKNOWN in a field is the text "-".                                     *)
(***************************************************************************)
EXTENDS TxLite

CONSTANTS
  FreqMin, FreqMax,   \* PROTO_FREQ_MIN_MHZ, PROTO_FREQ_MAX_MHZ
  AddrMin, AddrMax,   \* PROTO_ADDR_MIN, PROTO_ADDR_MAX
  WordSize,           \* 2^16: a frequency is passed on as a uint16_t
  Entries,            \* numbers the user may type as a frequency, and as an
  AddrEntries,        \* address: below 2^31, where an int turns negative
  Steps               \* STEP_OPTIONS

ASSUME WindowAssumption ==
  /\ FreqMin \in Nat \ {0} /\ FreqMax \in Nat
  /\ Signals = FreqMin .. FreqMax
  /\ AddrMin \in Nat /\ AddrMax \in Nat
  /\ Addresses = AddrMin .. AddrMax
  /\ WordSize \in Nat /\ WordSize > FreqMax
  /\ Entries \subseteq Nat /\ AddrEntries \subseteq Nat
  /\ Steps \subseteq Nat \ {0}

VARIABLES
  lock,       \* the Lock check box is checked
  enabled,    \* the frequency field and its buttons are enabled
  freqEdit,   \* the frequency field
  addrEdit,   \* the address field
  focus,      \* "freq", "addr" or "other"
  check,      \* the output check box
  dialog,     \* the prompt that is open, or "none"
  held,       \* what the handler under the prompt has read: checked or freq
  label,      \* what the labels show of DeviceState
  button,     \* the text of the Connect button
  opened,     \* history: the lock was open since the field was last refreshed
  crossed,    \* history: the output changed under its prompt
  read        \* history: frequency shown, and opened, when held was read

controls == <<freqEdit, addrEdit, check, label, button, opened, crossed>>
handling == <<lock, enabled, focus, dialog, held, read>>

windowVars == <<controls, handling>>

allWindowVars == <<vars, windowVars>>

Dialogs == {"none", "output", "unlock", "warn", "bandwidth", "invalid"}

-----------------------------------------------------------------------------
(* ui_refresh_status and ui_update_connect_button *)

LabelOf(s) == [connected |-> s.connected, output |-> s.output_on,
               signal |-> s.signal]

ButtonText(isConnected) == IF isConnected THEN "Disconnect" ELSE "Connect"

AddressShown(s) == IF s.address_known THEN s.address ELSE UNKNOWN

\* The fields are spared while they have the focus, which no field has while
\* a prompt is open.
RefreshStatus ==
  /\ label' = LabelOf(state')
  /\ check' = state'.output_on
  /\ freqEdit' = IF focus = "freq" THEN freqEdit ELSE state'.signal
  /\ addrEdit' = IF focus = "addr" THEN addrEdit ELSE AddressShown(state')
  /\ opened' = IF focus = "freq" THEN opened ELSE enabled
  /\ crossed' = /\ dialog' = "output"
                /\ crossed \/ state'.output_on # state.output_on

\* Every device_notify ends here.
Refresh == RefreshStatus /\ UNCHANGED button

RefreshIf(notified) == IF notified THEN Refresh ELSE UNCHANGED controls

\* conn_on_connected_changed notifies, and then sets the Connect button.
ShowPort ==
  IF connected' # connected
    THEN RefreshStatus /\ button' = ButtonText(connected')
    ELSE UNCHANGED controls

\* "-" read as the least frequency there is.
NumberInOrMin(edit) == IF edit = UNKNOWN THEN FreqMin ELSE edit

\* GetDlgItemInt: "-" is no number, and reads as 0.
NumberIn(edit) == IF edit = UNKNOWN THEN 0 ELSE edit

Between(low, high, n) == IF n < low THEN low ELSE IF n > high THEN high ELSE n

AddressIn(edit) == Between(AddrMin, AddrMax, NumberIn(edit))

WindowInit ==
  /\ Init
  /\ lock = TRUE /\ enabled = FALSE
  /\ freqEdit = state.signal
  /\ addrEdit = AddressShown(state)
  /\ focus = "other"
  /\ check = state.output_on
  /\ dialog = "none" /\ held = UNKNOWN /\ read = UNKNOWN
  /\ label = LabelOf(state) /\ button = ButtonText(FALSE)
  /\ opened = FALSE /\ crossed = FALSE

-----------------------------------------------------------------------------
(* Focus and typing *)

\* The main window takes input; what it is depends on where the focus is.
Usable == thread = "idle" /\ dialog = "none"

\* Pressing a button moves the focus to it; the click comes with the release.
Clickable == Usable /\ focus = "other"

EnterFreq ==
  /\ Usable /\ enabled
  /\ focus' = "freq"
  /\ UNCHANGED <<vars, controls, lock, enabled, dialog, held, read>>

EnterAddr ==
  /\ Usable
  /\ focus' = "addr"
  /\ UNCHANGED <<vars, controls, lock, enabled, dialog, held, read>>

\* A press on another control, or on another window.
Leave ==
  /\ Usable
  /\ focus' = "other"
  /\ UNCHANGED <<vars, controls, lock, enabled, dialog, held, read>>

TypeFreq ==
  /\ Usable /\ focus = "freq"
  /\ freqEdit' \in Entries
  /\ UNCHANGED <<vars, handling, addrEdit, check, label, button, opened, crossed>>

TypeAddr ==
  /\ Usable /\ focus = "addr"
  /\ addrEdit' \in AddrEntries
  /\ UNCHANGED <<vars, handling, freqEdit, check, label, button, opened, crossed>>

\* step_frequency without the bound from below.
StepFrequencyUnbounded ==
  /\ Clickable /\ enabled
  /\ \E s \in Steps, d \in {-1, 1} :
       freqEdit' = IF NumberIn(freqEdit) + d * s > FreqMax
                     THEN FreqMax ELSE NumberIn(freqEdit) + d * s
  /\ UNCHANGED <<vars, handling, addrEdit, check, label, button, opened, crossed>>

\* step_frequency, from the - and + buttons.
StepFrequency ==
  /\ Clickable /\ enabled
  /\ \E s \in Steps, d \in {-1, 1} :
       freqEdit' = Between(FreqMin, FreqMax, NumberIn(freqEdit) + d * s)
  /\ UNCHANGED <<vars, handling, addrEdit, check, label, button, opened, crossed>>

-----------------------------------------------------------------------------
(* Buttons without a prompt *)

ClickRead == Clickable /\ ReadStatus /\ UNCHANGED handling /\ Refresh

ClickQuery == Clickable /\ QueryAddress /\ UNCHANGED handling /\ Refresh

ClickSetAddress ==
  /\ Clickable
  /\ Command(DeviceSetAddress(AddressIn(addrEdit)))
  /\ UNCHANGED handling /\ Refresh

\* An open that fails, at once or after the retry, shows only the banner.
ClickConnect ==
  /\ Clickable
  /\ Connect \/ Disconnect
  /\ UNCHANGED handling /\ ShowPort

WindowRetry ==
  /\ ConnectRetry
  /\ UNCHANGED handling /\ ShowPort

WindowClose ==
  /\ Usable
  /\ CloseWindow
  /\ UNCHANGED handling /\ ShowPort

-----------------------------------------------------------------------------
(* The output check box *)

\* The click flips the check mark before the handler reads it.
ClickOutput ==
  /\ Clickable
  /\ check' = ~check
  /\ held' = check'
  /\ dialog' = "output"
  /\ UNCHANGED <<vars, lock, enabled, focus, read, freqEdit, addrEdit,
                 label, button, opened, crossed>>

\* A Yes whose frame cannot be sent, and that leaves the window as it is.
AnswerOutputSilent ==
  /\ thread = "idle" /\ dialog = "output"
  /\ dialog' = "none" /\ held' = UNKNOWN
  /\ \/ Command(DeviceSendOutput(held)) /\ RefreshIf(out' # out)
     \/ /\ check' = ~held
        /\ UNCHANGED <<vars, freqEdit, addrEdit, label, button, opened, crossed>>
  /\ UNCHANGED <<lock, enabled, focus, read>>

\* Yes sends the switch; No puts the mark where it was when it was clicked.
AnswerOutput ==
  /\ thread = "idle" /\ dialog = "output"
  /\ dialog' = "none" /\ held' = UNKNOWN
  /\ \/ Command(DeviceSendOutput(held)) /\ Refresh
     \/ /\ check' = ~held
        /\ UNCHANGED <<vars, freqEdit, addrEdit, label, button, opened, crossed>>
  /\ UNCHANGED <<lock, enabled, focus, read>>

-----------------------------------------------------------------------------
(* The lock *)

\* Closing needs no prompt.
ClickLock ==
  /\ Clickable
  /\ lock' = ~lock
  /\ IF lock THEN dialog' = "unlock" /\ UNCHANGED enabled
             ELSE enabled' = FALSE /\ UNCHANGED dialog
  /\ UNCHANGED <<vars, controls, focus, held, read>>

\* A No that puts the check mark back and enables the field all the same.
AnswerUnlockStale ==
  /\ thread = "idle" /\ dialog = "unlock"
  /\ dialog' = "none"
  /\ \/ /\ opened' = TRUE
        /\ UNCHANGED lock
     \/ lock' = TRUE /\ UNCHANGED opened
  /\ enabled' = TRUE
  /\ UNCHANGED <<vars, freqEdit, addrEdit, check, label, button, crossed,
                 focus, held, read>>

AnswerUnlock ==
  /\ thread = "idle" /\ dialog = "unlock"
  /\ dialog' = "none"
  /\ \/ /\ enabled' = TRUE /\ opened' = TRUE
        /\ UNCHANGED lock
     \/ /\ lock' = TRUE /\ enabled' = FALSE
        /\ UNCHANGED opened
  /\ UNCHANGED <<vars, freqEdit, addrEdit, check, label, button, crossed,
                 focus, held, read>>

-----------------------------------------------------------------------------
(* Apply *)

\* device_apply_signal_settings((uint16_t)freq), and what its result leads to.
Send(freq) ==
  LET sent == freq % WordSize IN
    /\ held' = UNKNOWN /\ read' = UNKNOWN
    /\ IF sent \in Signals
         THEN /\ Command(DeviceApplySignalSettings(sent))
              /\ dialog' = "none"
              /\ Refresh
         ELSE /\ dialog' = "invalid"
              /\ UNCHANGED <<vars, controls>>
    /\ UNCHANGED <<lock, enabled, focus>>

\* on_apply_clicked: the fields are read, and then comes the prompt of a
\* bandwidth with a guessed code.
OnApplyClicked ==
  \/ Send(NumberIn(freqEdit))
  \/ /\ dialog' = "bandwidth"
     /\ held' = NumberIn(freqEdit)
     /\ read' = [shown |-> state.signal, opened |-> opened]
     /\ UNCHANGED <<vars, controls, lock, enabled, focus>>

\* The warning about the frequency is for an open lock.
ClickApply ==
  /\ Clickable
  /\ IF lock THEN OnApplyClicked
             ELSE /\ dialog' = "warn"
                  /\ UNCHANGED <<vars, controls, lock, enabled, focus, held, read>>

AnswerWarn ==
  /\ thread = "idle" /\ dialog = "warn"
  /\ \/ OnApplyClicked
     \/ /\ dialog' = "none"
        /\ UNCHANGED <<vars, controls, lock, enabled, focus, held, read>>

AnswerBandwidth ==
  /\ thread = "idle" /\ dialog = "bandwidth"
  /\ \/ Send(held)
     \/ /\ dialog' = "none" /\ held' = UNKNOWN /\ read' = UNKNOWN
        /\ UNCHANGED <<vars, controls, lock, enabled, focus>>

AnswerInvalid ==
  /\ thread = "idle" /\ dialog = "invalid"
  /\ dialog' = "none"
  /\ UNCHANGED <<vars, controls, lock, enabled, focus, held, read>>

-----------------------------------------------------------------------------
(* The rest of the program, under a prompt or not *)

\* device_on_frame notifies whatever the frame was.
WindowFrame == TimerFrame /\ UNCHANGED handling /\ Refresh

\* A timeout that changes the state and leaves the window as it is.
WindowTimeoutSilent == TimerTimeout /\ UNCHANGED windowVars

WindowTimeout ==
  TimerTimeout /\ UNCHANGED handling /\ RefreshIf(TimedOut)

Elsewhere == (TimerPoll \/ ClockTick \/ UnitAct) /\ UNCHANGED windowVars

WindowNext ==
  \/ EnterFreq \/ EnterAddr \/ Leave \/ TypeFreq \/ TypeAddr \/ StepFrequency
  \/ ClickRead \/ ClickQuery \/ ClickSetAddress \/ ClickConnect \/ WindowRetry
  \/ WindowClose \/ ClickOutput \/ AnswerOutput \/ ClickLock \/ AnswerUnlock
  \/ ClickApply \/ AnswerWarn \/ AnswerBandwidth \/ AnswerInvalid
  \/ WindowFrame \/ WindowTimeout \/ Elsewhere

WindowSpec == WindowInit /\ [][WindowNext]_allWindowVars

-----------------------------------------------------------------------------
(* Properties *)

\* The controls keep their types: the frequency field never holds a negative
\* number, and what Apply holds under its prompt is no negative number.
WindowTypeOK ==
  /\ {lock, enabled, check, opened, crossed} \subseteq BOOLEAN
  /\ freqEdit \in Nat \cup {UNKNOWN}
  /\ addrEdit \in Nat \cup {UNKNOWN}
  /\ focus \in {"freq", "addr", "other"}
  /\ dialog \in Dialogs
  /\ CASE dialog = "output" -> held \in BOOLEAN
       [] dialog = "bandwidth" -> held \in Nat
       [] OTHER -> held = UNKNOWN
  /\ IF dialog = "bandwidth"
       THEN read \in [shown : Signals \cup {UNKNOWN}, opened : BOOLEAN]
       ELSE read = UNKNOWN

\* The labels show DeviceState as it is after every handler, in a prompt or
\* not, and the Connect button offers what a click on it will do: no path
\* that changes the state or the connection forgets to say so.
LabelsShowState ==
  /\ label = LabelOf(state)
  /\ button = ButtonText(connected)

\* The output check box agrees with the output, but for its own prompt and
\* for an output that changed under that prompt before a No: then the mark
\* is put where it was at the click, and is wrong until the next refresh.
CheckShowsOutput ==
  dialog # "output" /\ ~crossed => check = state.output_on

\* The frequency field holds another frequency than the one shown as the
\* module's only if the user confirmed opening the lock since the field was
\* last refreshed, and can be edited only while the lock is open.
FrequencyIsGuarded ==
  /\ enabled => ~lock
  /\ freqEdit # state.signal => opened

\* A request for these settings goes out.
Sends(type) == Len(out') > Len(out) /\ out'[Len(out')].type = type

\* What went out is another frequency than the one shown when Apply read the
\* field, which is now or before the prompt for the bandwidth, only if the
\* user had by then confirmed opening the lock since the field was last
\* refreshed, whether Apply came with its own warning or not.
SentAsConfirmed(freq) ==
  IF dialog = "bandwidth" THEN freq # read.shown => read.opened
                          ELSE freq # state.signal => opened

ChangedFrequencyIsConfirmed ==
  [][Sends("SIGNAL_CONTROL") => SentAsConfirmed(out'[Len(out')].arg)]_allWindowVars

=============================================================================
