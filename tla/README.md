# TX Lite: a TLA+ model of the program and its serial protocol

TX Lite (`src/README.md`) is a one-window Win32 program that controls an RF
module over an RS422 line. It sends a command, waits up to two seconds for an
answer, and shows what it believes of the module: its output, its signal
settings (mode, frequency, bandwidth, power) and its address. This directory
holds a model of that program, the TLC runs that check it and the theorems TLAPS
proves about it. File names below are those of `src/src/`.

## 1. The system

| part | source | state it keeps | operations |
|---|---|---|---|
| frames and tables | `protocol.c`, first half | none | five builders, two code tables |
| parser | `protocol.c`, second half | a buffer of 128 bytes | init, feed |
| serial port | `serial_port.c` | the handle | open, close, read, write |
| port list | `serial_list_ports`, `refresh_port_list` in `main.c` | combo box and its selection | refresh, select |
| connection | `connection.c` | `connected`, the port, the parser | connect (with one retry), disconnect, send, poll |
| device | `device.c` | `DeviceState` (what is shown) and one `PendingCommand` | output on/off, apply signal, read status, query and set address; on_frame, on_connected_changed, poll_timeout |
| window | `main.c` | lock, edit fields, output checkbox, labels, banner | clicks, typing, the 50 ms timer, prompts, painting |
| the RF module | not in the repository | address, output, signal | answers commands and queries |

**How they interact.** There is one thread. A click calls a `device_` function, which
builds a frame and hands it to `conn_send`. Every 50 ms `WM_TIMER` calls
`conn_poll`, which reads what the driver has, feeds the parser and so calls
`conn_on_frame` once per frame (it hides the banner, then calls
`device_on_frame`), and after that calls `device_poll_timeout`. Errors come back
through `on_error`, which shows the banner. Opening and closing the port call
`device_on_connected_changed`. Every change `device.c` makes ends in `ui_refresh_status`,
which rewrites labels, checkbox and fields, but spares a field being edited. Five
prompts (switch the output, unlock, warning before Apply, guessed bandwidth code,
invalid settings) are message boxes: each runs a message loop of its own inside the
handler that opened it, so that frames, timeouts and refreshes go on between what that
handler read before the prompt and what it does after it.

**What is hard.** The thread is alone, but the world is not: the module and the
clock move while a handler runs, between the `ReadFile` and the `GetTickCount`
of one timer message, during the `Sleep(300)` of the retry, and under a prompt. The
registry changes while it is enumerated. Answers carry no
sequence number and the program remembers one command: a second command, or a
late answer, meets the wrong memory. An output switch is shown before it is
answered and must be undone on every way it can fail. The tick count wraps
around. The line cuts and damages the byte stream, and the buffer that puts it
together is bounded. `PROJECT.json` lists these hazards one by one, each at its
line.

**What makes each part correct.** *Tick arithmetic and timeouts*: a command is
given up at the first poll after its deadline, never earlier, and every command
ends. *Port*: handle, flags and what the system holds open agree whatever failed.
*Device*: what is shown is what the module last said; a switch is undone unless
confirmed; an address shown as known was confirmed. *Parser*: frames come out
whole, once and in order however the bytes are cut; damage is bounded; every
call ends. *Codec*: the two ways settings reach the screen agree. *Window*: labels and checkbox show
the device state on every path; the frequency shown as the module's is replaced
only by a user who confirmed that, and none but the one shown when the field was read is sent
without that. *Port list*: a registry that stands still is listed as it is, a port there all
along is missed only if another went and listed twice only if another came, the selection moves
only to a port whose name begins with the old one, and a refresh ends.

## 2. The modules

| module | models | extends |
|---|---|---|
| `TickCount` | DWORD arithmetic on `GetTickCount()` | |
| `Connection` | `connection.c` over `serial_port.c`, as fragments of actions | |
| `Device` | `device.c`, as fragments of actions | `Connection`, `TickCount` |
| `TxLite` | the program: user, timer, clock, line and RF module | `Device` |
| `View` | abstract: what the window promises to show | |
| `Told` | `TxLite` with a record of what the module said; implements `View` | `TxLite` |
| `Window` | the controls of `main.c` and its prompts over `TxLite` | `TxLite` |
| `PortList` | listing the ports of a registry that changes | |
| `Protocol` | frames, the SIGNAL_CONTROL builder, tables, decoding of a status report (pure) | |
| `SignalBytes` | signal settings through the bytes and back | `Protocol` |
| `FrameStream` | abstract: frames are delivered once, in order, whole | |
| `FrameParser` | `ProtoParser` on bytes; implements `FrameStream` | `Protocol` |
| `TxLite_proofs` | the theorems about `TxLite` | `TxLite` |
| `Window_proofs` | the theorems about `Window` | `Window`, `TxLite_proofs` |
| `Told_proofs` | the theorems about `Told`, the refinement of `View` among them | `Told`, `TxLite_proofs` |
| `WindowTold` | `Window` and `Told` put together, and the theorems about the two | `Window_proofs`, `Told_proofs` |
| `ListFacts` | lemmas about minima and sequences that the next two cite | |
| `PortList_proofs` | the theorems about `PortList` | `PortList`, `ListFacts` |
| `FrameParser_proofs` | the theorems about `FrameParser`, the refinement of `FrameStream` among them | `FrameParser`, `ListFacts` |
| `SignalBytes_proofs` | the theorems about `SignalBytes` and the code tables | `SignalBytes` |
| `MC...` | constants of the runs | |

### TxLite (with TickCount, Connection, Device)

State: `handle`, `connected`, `state` and `pending` are the C variables of those
names; `banner` is the warning label; `osOpen` is the number of handles the system
holds for the process on the port, which the code does not store but can leak;
`out`, `rx` and `chunk` are frames on their way (requests written; replies in the
driver's queue; replies already read by this poll); `unit` is the RF module; `now`
is the tick count and `age` a history variable, the ticks since the last command.

`thread` says where the UI thread is. A handler is one step, except the two
during which the outside world matters: `WM_TIMER` is `TimerPoll` (the read),
one `TimerFrame` per frame, and `TimerTimeout`; `conn_connect` is `Connect` and, if
the first open was denied, `ConnectRetry` after the sleep. `ClockTick` and the
module's steps are possible at every value of `thread`. In `TxLite` the user may send
any command with any argument whenever the thread is idle; which of them the
controls let through, and when, is the subject of `Window`.

A command (`TurnOutput`, `ApplySignal`, `ReadStatus`, `QueryAddress`, `SetAddress`)
is one step with everything the handler does: the optimistic flip, the send, its
failure and the revert. Settings the protocol refuses never reach the line and
change nothing; `Signals` is the set of settings it accepts.

`DeviceOnFrame` takes the five kinds of frame the code tells apart: a success code,
a failure code, a status report, an address report, and anything else. It cancels
the pending command in each case, as the code does. Frames carry no command
number: a success code becomes the value of whatever command is pending. The
field `did` of a success reply is not in the real frame and no action of the program
reads it; properties use it to know which command was answered.

Five constants choose what the outside may do: `Overlap` (the user sends a command
while one is pending: nothing in the window prevents it), `Late` (an answer may come
after the timeout), `Lossy` (frames get lost), `Garbled` (the module may answer
with a frame that matches no branch), `Exchange` (the module behind the port opened next is
another one, or one that was changed while no port was open); two more, `ReadErrors` and
`WriteErrors`, let the port fail. A request lost covers also the queue purged by
`serial_open`, and a frame `WriteFile` wrote only in part.

`on_connect_clicked` opens whatever port is selected, and `device_on_connected_changed` keeps
everything in `DeviceState` but the flag: so `ModuleAtPort` lets `unit` be any module whenever a
port is opened, and what the window shows then is what an earlier one said. `Exchange` is TRUE in
every run. While a port is open, the settings of the module change only by commands: a
module changed by hand then is not in the model.

### Told and View

`Told` adds two history variables: `heard`, per field what the module's answers last
said of it, and `stale`, the fields changed by a command whose answer was lost and, once another
or a changed module is behind the port, all fields of which that has not spoken yet. `View`
is the promise in the head comment of `device.h` as a specification of its own: a
setting changes on the screen only to what the module just said, but for one
guess at a time, which is the output's and goes without a trace when it is
rejected or not answered. `Told` implements it with guess <- an output command is pending,
shown <- `DeviceState`, with an address that is not known as "-".

### Window

`Window` adds to `TxLite` the controls: the Lock checkbox and whether it enables the
frequency field and its step buttons, the two edit fields, the focus, the output checkbox,
the labels and the Connect button, the prompt that is open (`dialog`) and what the handler
under it has read already (`held`: the check mark, or the frequency). Each click is an
action with everything up to its first prompt; each answer is one with everything
after it. The steps of `TxLite` that change `DeviceState` carry the refresh the code runs
(`Refresh`), those that end without `device_notify` carry none. The text of the Connect button is
set by `conn_on_connected_changed` alone (`ShowPort`), which notifies as well.

- A prompt's loop is `idle` for the timer and closed to clicks: the box disables its
  owner. A field has lost the focus when a button is clicked, so no field is edited
  under a prompt, and `Refresh` overwrites both.
- `Refresh` spares the field that has the focus. `opened`, `crossed` and `read` are history: the lock
  was open since the field was last rewritten; the output changed under its own prompt; what was
  shown, and `opened`, when the frequency was read ahead of the bandwidth prompt.
- Text is its number. "-" and an empty field read as 0 (`GetDlgItemInt`). An address is moved to the
  nearer bound (`AddressIn`), a stepped frequency too; a typed frequency is passed on as a `uint16_t`
  and its range checked after that (`freq % WordSize`). Typed numbers are below 2^31: `NumberIn` has no
  conversion of an unsigned number to a negative one.
- Of the signal settings it is the frequency that is modelled, with its field, lock,
  buttons and prompts; the drop-downs of mode, bandwidth and power have no rules.
  The prompt of a guessed bandwidth may come at any Apply.

### PortList

`EnumValue` is one turn of the loop in `serial_list_ports`; between two turns drivers may
`Plug` and `Unplug`, anywhere in the order of enumeration. `StartRefresh` is `refresh_port_list`
up to the call, `EndRefresh` the rest of it. `count` goes on when the array is full, as in the
code. A value that is no string, or cannot be read, is skipped. `CB_SELECTSTRING` finds the
first item that *begins* with the text, and `Begins` says which names begin with which:
COM10 with COM1. `steady`, `added` and `removed` are history.

### FrameParser and FrameStream

`buf` is `ProtoParser.buf` up to `len`; `data` what is still to be copied of this
call's chunk. `Fill` is one turn of the outer loop of `proto_parser_feed` up to the
copy, with the half dropped from a full buffer; `NoHead`, `Incomplete`, `BadStop`
and `TakeFrame` are the outcomes of `proto_try_extract_one`. `Reopen` is
`conn_connect`, which empties the parser, at any point of the stream. The property
`FramesAreDelivered` is the refinement of `FrameStream` (due <- the frames sent on
this connection, got <- the frames given to `on_frame`).

### SignalBytes

`Apply` is `device_apply_signal_settings` and the acknowledgement; `Report` is a status
query and its answer; `held` are the five bytes in the module. It is about the numbers in
`DeviceState`. What the Apply button passes on are the window's selections, which are those numbers
only if the user made them so.

## 3. The runs

| run | cfg | shows | distinct states |
|---|---|---|---|
| any_use | `AnyUse` | everything allowed; type invariant, agreement of the port's records, the optimistic output, exact timeouts | 1.9 million |
| one_at_a_time | `OneAtATime` | a user who waits and a module that answers in time or never, over a line that loses frames, to ports behind which modules are exchanged: what is shown is what was said, is true of the module at the port unless an answer was lost or it has not spoken yet, and is all that `View` allows | 0.8 million |
| prompts | `Prompts` | the window over the whole program, prompts included: labels, Connect button, checkbox and frequency field against the state, and what it takes to send another frequency | 1.7 million |
| port_list | `PortList` | listing the ports while drivers come and go | 283,000 |
| settling | `Settling` | every command is answered, times out or is replaced | 190,000 |
| cut_frames | `CutFrames` | frames survive any cut of the stream and any reconnection | 11,000 |
| noise | `Noise` | one damaged reply costs a bounded number of replies; no call runs for ever | 26,000 |
| settings | `Settings` | settings through the bytes and back | 960 |
| overlapping_switch, overlapping_set_address, late_ack, garbage | | violated: see section 5 | |

**Bounds.** `HalfRange = 2`, `Timeout = 2`: four tick values, so that every run starts at
every tick count and wraps around while a command is pending; a tick stands
for a timer period. `LineMax = 2` (frames on the line and in the queues) is the
least with two commands on the way, and with two replies in one chunk; the runs
with one command at a time need 1. `MaxAge` bounds how long the thread may be
stalled past a command; one tick more than the timeout lets a poll come late.
Two addresses are needed to have a command reach nobody; two signals, to
confuse one with another. In the parser's runs the buffer has 16 bytes (128 in
the code): the longest reply has 13, the shortest 8, a damaged length can
claim more than the buffer, and a chunk can overfill it, as 128 and 256 do in
the code. Replies are chosen among those whose address or payload
contains the bytes of head and stop. The settings' run uses every mode and
table entry, the values beside them, and the frequencies at the bounds of
the range, of a byte and of a word.

`Prompts` has the frequencies 2 and 3 in a word of 8 values: 0 is what an emptied field reads as
and 11 is 3 when cut to a word, so typed numbers are below, in, and above the range, and
above the word; the one address is 0, and 1 is typed out of its range. One tick of timeout and one
frame on the line are enough for it: its properties are about the window and the state next to it, and a timeout, a frame,
a failed open, a second command and a lost frame all still happen under each of its prompts.
`PortList` has three ports, two of which one begins with the other, room for two (16 in the
code), and a registry of up to three values: the array overflows, and values come and go
before, at and behind the index.

**Views and symmetry.** `AllButBanner` leaves the banner out of a state's
fingerprint: actions write it and none reads it, and no property but the type
invariant mentions it (`TypeCorrect` proves that one without a view). In
one_at_a_time the signals are symmetric: nothing compares them except for
equality. Neither is used with a liveness property.

**Deadlock** is checked in every run: time never stops and the parser can always be
reopened.

**Fairness.** `FairSpec` asks weak fairness of the thread (`WM_TIMER` is sent again and
again, and a handler that started goes on) and of the clock. The thread waits in two places, the
`Sleep` of the retry and the synchronous `WriteFile` of a send, which has no timeout
(`serial_port.c:56-57`, `86`); that the second one returns is assumed, as a driver that holds a
write back for ever holds the window for ever. The user, the module and the line owe nothing, and
`EveryCommandIsSettled` holds without them. Two behaviours are excepted in the property
itself: a user who sends commands for ever, each before the last one timed
out, and opens that are denied for ever. Input goes before `WM_TIMER` in the message
queue; handlers take no time to speak of, so the timer still gets its turn, but for the
retry, which sleeps 300 ms while further clicks queue up. (Without this
exception TLC shows the loop: disconnect, denied open, retry, disconnect.) In `PortList` it is
weak fairness of the refresh alone, one handler without a wait in it; the drivers
owe nothing, and `RefreshEnds` holds because an index only grows and the registry is bounded. The parser's `FairSpec` is the
same for reading and feeding; a new connection is never owed.

**What one_at_a_time assumes.** The user waits (`~Overlap`), and an answer that comes at all
is in the driver's queue before the last read ahead of the deadline (`InTime`). The code
enforces neither. Without the first, overlapping_switch and
overlapping_set_address show what goes wrong, and without the second,
late_ack does; all four promises about what is shown hold with both.
`IdleMatchesUnit` excludes just the `stale` fields: those changed by a command whose answer was
lost, for which no program could know better, and those an exchanged module has not spoken of
yet, for which this one could (section 5).

overlapping_switch has a module that never answers (`SilentSpec` in `MCTold`): the trace ends after a
timeout that reverts nothing, with no help of an answer taken for another.

## 4. The proofs

### The program (`TxLite_proofs`)

`TxLite_proofs` proves, for all values of the constants allowed by the named
assumptions, `Spec => []TypeOK`, `[]PortStateAgrees`, `[]PendingOutputIsShown` and
`TimeoutIsExact`. The assumptions are: the options are Booleans, `UNKNOWN` is no
setting or address, the broadcast address belongs to no module, the timeout is
at least a tick and at most half the tick range (2000 ms against 2^31 ms), and
the thread is not stalled for so long that a signed difference of ticks would
turn over (`MaxAge < Timeout + HalfRange`, about 25 days).

The inductive invariant `Inv` adds two parts to the properties. `ChunkIsBeingRead`
says that replies are in `chunk` exactly while the thread is in the frame loop;
without it the end of a poll, or a closing port, could leave an answer
behind and `PortStateAgrees` would not be preserved. `AgeIsElapsed` says that
while a command is pending, `now` plus `Timeout` is `deadline` plus `age` modulo the
range; it ties the test on ticks that wrap around to the time that really passed, and
`DeadlinePassedMeansElapsed`, the arithmetic lemma under it, turns the cast to a
signed integer into `age >= Timeout`. One lemma per group of actions shows that
`Inv` is preserved; `TimeoutIsExact` then follows from `Inv` on each step.

### The window (`Window_proofs`)

`Window_proofs` proves that every behaviour of the window is one of `TxLite`
(`WindowIsTxLite`: the controls add no step of their own to the device, the port or the line, so
all theorems above hold of the window as well), and `WindowSpec => []WindowTypeOK`,
`[]LabelsShowState`, `[]CheckShowsOutput`, `[]FrequencyIsGuarded` and `ChangedFrequencyIsConfirmed`. Its
additional assumptions are that the settings are a range of frequencies above 0 that fits
in a word, that the addresses are a range, and that what is typed is a number. The invariant
`WindowInv` is `Inv`, the four invariants, and three facts they need: under the prompt of the output, `held` is the opposite of the output unless that
has changed since the click (`HeldIsOpposite`; a No restores the right mark from it); under
that of the bandwidth, it is what was shown when it was read, unless the lock had been opened
(`ReadIsGuarded`); and lock, field and focus agree (`LockIsHonest`: the field is enabled only with the lock open and
that confirmed, focused only when enabled, and never under a prompt; without the
last a refresh under a prompt could leave an edit nobody confirmed).

### What is shown is what was said (`Told_proofs`)

`ToldIsTxLite` says that the history is only kept beside the program, so that `Inv` holds here too, and
`ToldTypeCorrect` holds of every use. The other theorems have one hypothesis, `OneAtATime`: the user
waits, answers come in time or never, the module sends nothing the program does not know, and `ReadFile` does
not fail (`~Overlap /\ ~Late /\ ~Garbled /\ ~ReadErrors`, the constants of the run one_at_a_time). Frames may be lost, opens
be denied and writes fail, and the port may be closed and opened at any moment. Under it, for every
number of settings and addresses and every timeout: `[]OutputIsHeard`, `[]SignalIsHeard`,
`[]AddressIsHeard`, `[]IdleIsQuiet`, `[]IdleMatchesUnit`, and `KeepsPromise`, the refinement of `View`.
The three promises that section 5 shows broken (`UnansweredSwitchIsUndone`,
`KnownAddressIsConfirmed`, `SignalChangesOnAck`) are proved as well: without overlap, lateness,
unknown frames and failing reads nothing else breaks them. The last two are excluded because an unknown
frame cancels the pending command (which `device.h:7-9` documents), and a read that fails leaves an
answer in the queue until its command has timed out.

None of this is inductive by itself. The invariant `HeardInv` adds:

- `OneOnTheWay`: at most one frame is on its way, and it is the pending command's request or an answer to it.
  This is what replaces the number that frames do not carry.
- `NoAnswerIsLate`: once the timeout has elapsed, an answer is either already in the driver's queue, to be read
  by the next `WM_TIMER`, or will not come. Without it a command could time out with its answer on the way
  and leave `OneOnTheWay` broken. `TimeoutIsExact` is what makes it a fact about ticks.
- `OutputIsHeardOrGuessed` and `AddressIsKnownFromHearing`: `OutputIsHeard` and `AddressIsHeard` said of
  every state, with the pending switch's `output_prev` for what was heard.
- `AnswersAreTrue` and `HeardIsTrue`: an answer on its way, and what was heard, say what the module still
  has, `stale` fields excepted. `IdleMatchesUnit` follows from these two and `OneOnTheWay`.

### What the controls show is true (`WindowTold`)

`Window_proofs` says that the controls show `DeviceState`, `Told_proofs` that `DeviceState` is what was heard.
`WindowTold` takes the steps of both specifications at once (a step of the window is a step of `Told` where it is one of
the program, and leaves the history alone where it is not), so that it implements both and has both
invariants. From them, under `OneAtATime`: `[]LabelsShowHeard`, `[]ControlsShowHeard`, `[]WindowMatchesUnit`
(with no command pending the labels, the check box and the frequency field agree with the module's own
settings, `stale` fields excepted) and `UntoldFrequencyIsConfirmed` (Apply sends a frequency the module had not told
when the field was read only behind an unlock confirmed by then). These four are proved and in
no run: the product of the window and the history is too large for one, and its two halves
are checked in prompts and one_at_a_time. The history takes no step away from the window: each disjunct of `Next`
in `TxLite` is in `ToldNext` too, which adds nothing but the values of `heard'` and `stale'`.

### The port list (`PortList_proofs`)

For every set of names, every relation of one name beginning with another and every room in the array:
`[]ListTypeOK`, `SelectionIsCarriedOver`, `[]NoPortTwice`, `[]SteadyPortsAreListed` and
`UndisturbedListIsExact`. The invariant `ListInv` relates the loop of `serial_list_ports`, in
the middle of it, to the registry as it is now: `ReadOnce` (while nothing came, a name that was read is at
no index still to come), `ReadOrAhead` (while nothing went, a port there from the start was
read or is at an index still to come) and `ExactSoFar` (while nothing changed, `count` is the number of ports
up to the index, and each name is where its number says). `OneValueEach` is the convention of the drivers
that two values do not name one port; the registry itself does not enforce it, `Plug` assumes it. `UndisturbedListIsExact` counts (`PortsUpTo`) instead of selecting a
subsequence: the number of ports up to an index is a cardinality, which can be reasoned about, and
`SelectSeq` is a recursive definition, which cannot. `SelectionIsCarriedOver` says which item is selected
(one whose name begins with the old one, the old one itself if no other such name is ahead of it) and, from
`SteadyPortsAreListed`, that a port that stayed is not lost from the selection.

### The parser (`FrameParser_proofs`)

`[]TypeOK` is proved of every stream: whatever bytes come, and however they are cut, the buffer is not
left and a frame given to `on_frame` is one. That *all* frames come out, `[]NothingIsHeldBack` and `FramesAreDelivered` (the
refinement of `FrameStream`), is proved for every size of buffer and record, every chunk size and
every set of streams on which nothing was lost: `Clean` says that a stream is perhaps the end of
something in which no head is, and then frames that fit into the buffer and the record, one behind
the other. Bytes of a payload may look like heads and stops. The
hypothesis holds of streams: `MCFrameParser` assumes (`CutStreamsAreClean`), and TLC evaluates, that each stream of
cut_frames is `Clean`. It is needed: on a stream that is not, `garbage` refutes
`NothingIsHeldBack`.

The invariant `CleanInv` says that what was heard is a prefix of what was sent, and that the buffer,
the rest of the chunk and the line, joined, are again whole: perhaps an end without a head, then
the frames not yet heard (`Whole`, with `at` for where each begins). Between two runs of the inner loop the first of them is
not complete in the buffer (`NotYet`). As it fits, the buffer is not full then, and the
outer loop of `proto_parser_feed` never drops its older half. The lemma behind the steps of the inner
loop, `HeadIsNextFrame`, is that the first head in the buffer begins the next frame, that it is complete
if the frame is all there, and that its stop is then right: `BadStop` cannot be taken.

`[]DamageIsBounded` is proved of streams that are not clean: `Damaged` says that a stream begins with *any*
bytes, and that from some point on it is replies, one behind the other, each in room of the buffer and the record, with
no head but their own. A damaged reply, its length included, is one kind of such bytes. A head
inside a payload is excluded because it can be taken for a reply's once the bytes before it were misread. `MCFrameParser` assumes
(`NoisyStreamsAreDamaged`), and TLC evaluates, that the streams of noise satisfy it. The second hypothesis is that
the buffer is a number of shortest replies long (128 is 16 times 8, 16 in the run twice 8); otherwise a reply could lie
across its end and the bound is one more.

`DamagedInv` has two parts. `InDamage`: no reply was reached yet, and they all are in the bytes not parsed, behind
anything. `Recovered`: the first `l` replies were lost, and together they fit into the buffer; those from there to
the `k`-th were the last ones heard; the others are whole in the bytes not parsed. The step
from the one to the other is the last frame that seems to begin in the damage. If its stop is wrong, two bytes are dropped and
the next head is looked for by the next call. If it looks complete, what goes with it was all in the buffer, so that
the replies it swallows fit into it (`CutFrames` counts them). If the
buffer fills up before it is complete, its older half goes (`FillLoses`), and with that at most what was in it. A
`BadStop` ends the inner loop of its call with whole replies possibly still in the buffer; `Recovered`
keeps that they are among those that may be lost.

### The codec (`SignalBytes_proofs`)

For all settings asked for and all bytes the module may hold: `[]ReportAgreesWithAck` and
`[]ReapplyingChangesNothing`. They come from two lemmas about the code, `ReadBack` (accepted settings,
built into a frame, taken out of it and decoded as a report, are the settings) and `SentBack`
(a decoded report that the protocol accepts is encoded to the bytes it came from), which rest on lemmas
about the two tables (`CodeOfEntry`: no value occurs twice, so the search finds the code it was taken
from), the two bytes of a word, and the place of a payload in a frame (`PayloadOfFrame`).

### What is only model-checked

Liveness (`EveryCommandIsSettled`, `FeedReturns`, `RefreshEnds`) and `ENABLED` are out of the
prover's reach, and so is what a recursively defined operator computes for every input.
They stay with TLC. The first four disagreements of section 5 are counterexamples and need no proof.

## 5. Where the code and its comments disagree

1. `device.c:46-49` promises that an optimistic output switch is reverted if the device
   "never responds". Any second command overwrites `pending` and with it
   `output_prev`; if neither is answered the window keeps showing the switch
   (overlapping_switch).
2. `device.h:23-25` promises that an address is shown as known only after an address
   query or set was confirmed. `device_on_frame` applies a success code of any type
   to the pending command, so the acknowledgement of an output switch sent just
   before confirms a Set Address (overlapping_set_address).
3. `device.h:6` promises that settings take effect only on ACK. The late ACK of a
   command that timed out is taken for the command pending now (late_ack).
4. `protocol.c:137-138` promises that garbage before a head is discarded. One byte
   0x7E of garbage just before a head is taken for its first byte, and the
   reply behind it is lost or held back (garbage).

Two more were met in reading, and no run is about them:

5. `device.h:78` says "PROTO_OK means the command was sent".
   `device_apply_signal_settings` returns `PROTO_OK` when `conn_send` failed (`device.c:86-94`). The one caller
   reads the status only to choose a message, and the banner tells of the failure. What
   matters of it, that unsent settings are not shown as applied, is `SignalIsHeard`.
6. `device.c:207-209` says that on a connect address "(and everything else) stays "-" until the
   user explicitly hits Query/Read". That is so on the first connection only: `DeviceState` is
   not reset, so on a later one, to another module perhaps, address, output and settings are
   shown as the last one had them (`Told` makes them `stale`).

What the model also does, and no document rules out, so that no run is about it:

- A lock closed after an edit lets Apply send the edited frequency without the warning
  (`main.c:1071`). The comment at `main.c:1066-1070` takes a locked frequency for one not in
  play. What does hold is `ChangedFrequencyIsConfirmed`: opening the lock was confirmed.
- A frequency of 65836 is cut to 300 before its range is checked (`main.c:738`), and sent.
- A frame handled under the warning before Apply overwrites the edited frequency, which
  has lost the focus to the button (`main.c:589`): the reported one is sent.
- Set Address with the address box at "-" sends address 0 to the broadcast address
  (`main.c:1022`).
- With COM1 gone, or behind COM10 in the list, a refresh moves the selection from COM1 to
  COM10 (`main.c:649`).
- A report rewrites the frequency field, but not the selections of mode, bandwidth and
  power (`main.c:577-615`): the next Apply sends whatever they were.
- The listing goes by index, so a port removed meanwhile hides the one behind it, and a
  port added shows one twice; and it ends only on `ERROR_NO_MORE_ITEMS`, so a key deleted
  under it would keep it running (`serial_port.c:122`). `PortList` has no deleted key.

That any frame cancels whatever is pending, an unmatched one too, is documented
(`device.h:7-9`) and counts as intended.

## 6. The plan

Done: the core (`TxLite` and below), the parser and the codec, the window with its prompts,
the port list, the abstract promise `View` with `Told` as its implementation, and the
theorems of section 4: every safety property of the passing runs is proved. What is left, in this order:

1. Bytes under frames: `FrameParser` composed with `Device`, so that a reply the parser
   holds back meets the timeout and the next command. Today the two meet only in the frame:
   a reply held back is a late or lost one to `TxLite`. `FramesAreDelivered` is what makes
   that sound on a line that loses nothing.
2. Proofs: what holds of the window's address field, which has no guard, and, once 1 is there, that
   the composition implements `TxLite`.

Not modelled: painting, fonts and layout (`main.c:106-397`, `746-935` and the drawing messages),
which hold no state the program acts on; the selections of mode, bandwidth, power, step, baud rate
and parity, which are read when a button is clicked and never written after the controls are built;
`proto_describe`, which formats text and is called by the test alone; `test_protocol.c`, read
for the frames it expects; the DCB settings of the port; `on_raw_tx` and `on_raw_rx`, which
fill the two hex read-outs; resources and the build script.

## 7. Running it

    tlc -config AnyUse.cfg MCTxLite
    tlc -config OneAtATime.cfg MCTold
    tlc -config Prompts.cfg MCWindow
    tlc -config PortList.cfg MCPortList
    tlc -config CutFrames.cfg MCFrameParser
    tlapm TxLite_proofs.tla

and `tlapm` likewise on the other modules whose name ends in `_proofs`, on `ListFacts` and on `WindowTold`.

`PROJECT.json` lists all runs with their modules, a mutant of the code for each property of a
passing run that TLC must find violated, and the lines each definition models.
