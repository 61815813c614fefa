----------------------------- MODULE Told_proofs -----------------------------
(***************************************************************************)
(* Theorems about Told.  The type theorem holds of every use of the        *)
(* program; the others hold of a user who waits for the answer, and of a   *)
(* module that answers in time or never, in frames the program knows       *)
(* (OneAtATime): for every number of signals and addresses, every timeout  *)
(* up to half of the tick range, every bound, whether the line loses       *)
(* frames or not and whether the port fails to write or not.               *)
(***************************************************************************)
EXTENDS Told, TxLite_proofs

\* The use that the run one_at_a_time checks.
OneAtATime == ~Overlap /\ ~Late /\ ~Garbled /\ ~ReadErrors

-----------------------------------------------------------------------------
(* The inductive invariant *)

\* What was heard of a field is a value of that field.
HeardTypeOK == heard \in Promise!Heard /\ stale \subseteq Fields

KindOf(type) == CASE type = "OUTPUT_SWITCH" -> "OUTPUT"
                  [] type = "SIGNAL_CONTROL" -> "SIGNAL"
                  [] type = "ADDR_SET" -> "ADDR_SET"
                  [] OTHER -> "QUERY"

\* r is the request of the pending command.
IsPending(r) ==
  pending.active /\ pending.kind = KindOf(r.type) /\ pending.arg = r.arg

\* f is an answer the pending command may get.
IsAwaited(f) ==
  /\ pending.active
  /\ f.type # "UNMATCHED" /\ pending.kind = KindOf(f.type)
  /\ f.type \in AckTypes /\ f.data = "SUCCESS" => f.did = pending.arg

\* At most one frame is on its way, the request of the pending command or
\* its answer.
OneOnTheWay ==
  \/ out = <<>> /\ rx = <<>> /\ chunk = <<>>
  \/ \E r \in Requests :
       out = <<r>> /\ rx = <<>> /\ chunk = <<>> /\ IsPending(r)
  \/ \E f \in Replies :
       out = <<>> /\ rx = <<f>> /\ chunk = <<>> /\ IsAwaited(f)
  \/ \E f \in Replies :
       out = <<>> /\ rx = <<>> /\ chunk = <<f>> /\ IsAwaited(f)

\* Once the timeout has elapsed no answer can come any more, but for one
\* the poll of the next WM_TIMER will read.
NoAnswerIsLate ==
  pending.active /\ age >= Timeout =>
    out = <<>> /\ (thread = "idle" \/ rx = <<>>)

Guessing == pending.active /\ pending.kind = "OUTPUT"

HeardOutput == IF heard["output"] = UNKNOWN THEN FALSE ELSE heard["output"]

\* The output shown is the one heard, or a pending switch knows the one
\* heard as that to go back to.
OutputIsHeardOrGuessed ==
  HeardOutput = IF Guessing THEN pending.prev ELSE state.output_on

AddressIsKnownFromHearing ==
  /\ state.address_known <=> heard["address"] # UNKNOWN
  /\ state.address_known => state.address = heard["address"]

\* An answer on its way tells what the module still has.
AnswersAreTrue ==
  \A f \in Replies : <<f>> \in {rx, chunk} =>
    \A x \in DOMAIN Says(f) : Says(f)[x] = unit[x]

\* What was heard of a field is what the module has, unless the answer to a
\* command that changed it was lost or is still on its way.
HeardIsTrue ==
  \A x \in Fields \ stale :
    \/ heard[x] \in {UNKNOWN, unit[x]}
    \/ x \in Untold(rx) \cup Untold(chunk)

HeardInv ==
  /\ HeardTypeOK
  /\ OneOnTheWay
  /\ NoAnswerIsLate
  /\ OutputIsHeardOrGuessed
  /\ SignalIsHeard
  /\ AddressIsKnownFromHearing
  /\ AnswersAreTrue
  /\ HeardIsTrue

-----------------------------------------------------------------------------
(* What a frame says *)

\* The kinds of reply, and what each of them says of the module.
LEMMA ReplyCases ==
  ASSUME NEW f \in Replies
  PROVE  \/ /\ f.type \in AckTypes /\ f.data = "SUCCESS"
            /\ DOMAIN Says(f) = {FieldOf(f.type)}
            /\ Says(f)[FieldOf(f.type)] = f.did
            /\ Untold(<<f>>) = {FieldOf(f.type)}
         \/ /\ f.type \in AckTypes /\ f.data = "FAILED"
            /\ DOMAIN Says(f) = {} /\ Untold(<<f>>) = {}
         \/ /\ f.type = "STATUS_QUERY" /\ f.data \in Settings
            /\ DOMAIN Says(f) = {"output", "signal"}
            /\ Says(f)["output"] = f.data.output_on
            /\ Says(f)["signal"] = f.data.signal
            /\ Untold(<<f>>) = {}
         \/ /\ f.type = "ADDR_QUERY" /\ f.data \in Addresses
            /\ DOMAIN Says(f) = {"address"}
            /\ Says(f)["address"] = f.data
            /\ Untold(<<f>>) = {}
         \/ /\ f.type = "UNMATCHED"
            /\ DOMAIN Says(f) = {} /\ Untold(<<f>>) = {}
<1>1. Untold(<<f>>) = IF f.type \in AckTypes /\ f.data = "SUCCESS"
                        THEN {FieldOf(f.type)} ELSE {}
  BY DEF Untold
<1>2. CASE f.type \in AckTypes /\ f.data = "SUCCESS"
  <2>1. Says(f) = [x \in {FieldOf(f.type)} |-> f.did]
    BY <1>2 DEF Says, AckTypes
  <2> QED
    BY <1>1, <1>2, <2>1
<1>3. CASE f.type \in AckTypes /\ f.data = "FAILED"
  BY <1>1, <1>3 DEF Says, AckTypes
<1>4. CASE f.type = "STATUS_QUERY"
  BY <1>1, <1>4 DEF Says, AckTypes, Replies
<1>5. CASE f.type = "ADDR_QUERY"
  BY <1>1, <1>5 DEF Says, AckTypes, Replies
<1>6. CASE f.type = "UNMATCHED"
  BY <1>1, <1>6 DEF Says, AckTypes
<1>7. \/ f.type \in AckTypes /\ f.data = "SUCCESS"
      \/ f.type \in AckTypes /\ f.data = "FAILED"
      \/ f.type = "STATUS_QUERY" \/ f.type = "ADDR_QUERY" \/ f.type = "UNMATCHED"
  BY DEF Replies, AckTypes
<1> QED
  BY <1>2, <1>3, <1>4, <1>5, <1>6, <1>7, Zenon

\* No answers, nothing untold.
LEMMA NothingUntold == Untold(<<>>) = {}
BY DEF Untold

\* A success code is about one field, and tells a value of it.
LEMMA AckFits ==
  ASSUME NEW f \in Replies, f.type \in AckTypes, f.data = "SUCCESS"
  PROVE  \/ /\ f.type = "OUTPUT_SWITCH" /\ FieldOf(f.type) = "output"
            /\ f.did \in BOOLEAN
         \/ /\ f.type = "SIGNAL_CONTROL" /\ FieldOf(f.type) = "signal"
            /\ f.did \in Signals
         \/ /\ f.type = "ADDR_SET" /\ FieldOf(f.type) = "address"
            /\ f.did \in Addresses
BY DEF Replies, FieldOf, AckTypes

-----------------------------------------------------------------------------
(* The history keeps beside the program *)

\* Every step of Told is one of the program.
THEOREM ToldIsTxLite == ToldSpec => Spec
<1>1. ToldInit => Init
  BY DEF ToldInit
<1>2. ToldNext => Next
  BY DEF ToldNext, HearFrame, LoseQueue, Obey, OtherSteps, Next, UserAct,
         ThreadAct, UnitAct
<1>3. UNCHANGED allVars => UNCHANGED vars
  BY DEF allVars
<1> QED
  BY <1>1, <1>2, <1>3, PTL DEF ToldSpec, Spec

\* What a frame says of a field is a value of that field.
LEMMA SaysFit ==
  ASSUME NEW f \in Replies
  PROVE  /\ DOMAIN Says(f) \subseteq Fields
         /\ "output" \in DOMAIN Says(f) => Says(f)["output"] \in BOOLEAN
         /\ "signal" \in DOMAIN Says(f) => Says(f)["signal"] \in Signals
         /\ "address" \in DOMAIN Says(f) => Says(f)["address"] \in Addresses
<1>1. CASE f.type \in AckTypes /\ f.data = "SUCCESS"
  <2>1. DOMAIN Says(f) = {FieldOf(f.type)} /\ Says(f)[FieldOf(f.type)] = f.did
    BY <1>1, ReplyCases DEF AckTypes
  <2> QED
    BY <1>1, <2>1, AckFits DEF Fields
<1>2. CASE DOMAIN Says(f) = {}
  BY <1>2
<1>3. CASE f.type = "STATUS_QUERY"
  <2>1. /\ f.data \in Settings
        /\ DOMAIN Says(f) = {"output", "signal"}
        /\ Says(f)["output"] = f.data.output_on
        /\ Says(f)["signal"] = f.data.signal
    BY <1>3, ReplyCases DEF AckTypes
  <2>2. f.data.output_on \in BOOLEAN /\ f.data.signal \in Signals
    BY <2>1 DEF Settings
  <2> QED
    BY <2>1, <2>2 DEF Fields
<1>4. CASE f.type = "ADDR_QUERY"
  <2>1. /\ f.data \in Addresses
        /\ DOMAIN Says(f) = {"address"}
        /\ Says(f)["address"] = f.data
    BY <1>4, ReplyCases DEF AckTypes
  <2> QED
    BY <2>1 DEF Fields
<1> QED
  BY <1>1, <1>2, <1>3, <1>4, ReplyCases

\* A frame that is heard tells values of its fields, and the others keep
\* what was heard of them.
LEMMA Hearing ==
  ASSUME HeardTypeOK, NEW f \in Replies,
         heard' = [x \in Fields |->
                     IF x \in DOMAIN Says(f) THEN Says(f)[x] ELSE heard[x]]
  PROVE  heard' \in Promise!Heard
<1>1. heard \in Promise!Heard
  BY DEF HeardTypeOK
<1>2. heard' = [output |-> heard'["output"], signal |-> heard'["signal"],
                address |-> heard'["address"]]
  BY DEF Fields
<1>3. /\ heard["output"] \in BOOLEAN \cup {UNKNOWN}
      /\ heard["signal"] \in Signals \cup {UNKNOWN}
      /\ heard["address"] \in Addresses \cup {UNKNOWN}
  BY <1>1 DEF Promise!Heard
<1>4. heard'["output"] \in BOOLEAN \cup {UNKNOWN}
  BY <1>3, SaysFit DEF Fields
<1>5. heard'["signal"] \in Signals \cup {UNKNOWN}
  BY <1>3, SaysFit DEF Fields
<1>6. heard'["address"] \in Addresses \cup {UNKNOWN}
  BY <1>3, SaysFit DEF Fields
<1> QED
  BY <1>2, <1>4, <1>5, <1>6 DEF Promise!Heard

\* What could go untold is about the three fields.
LEMMA UntoldFields ==
  ASSUME NEW s \in Seq(Replies)
  PROVE  Untold(s) \subseteq Fields
<1> SUFFICES ASSUME NEW i \in DOMAIN s, s[i].type \in AckTypes
             PROVE  FieldOf(s[i].type) \in Fields
  BY DEF Untold
<1> QED
  BY DEF FieldOf, AckTypes, Fields

\* A frame that is handled is a reply.
LEMMA FrameIsReply ==
  ASSUME Inv, TimerFrame
  PROVE  /\ chunk # <<>> /\ chunk \in Seq(Replies) /\ Head(chunk) \in Replies
         /\ chunk' = Tail(chunk)
BY DEF TimerFrame, ConnNextFrame, Inv, TypeOK, LineTypeOK, ChunkIsBeingRead

\* Every step keeps the types of the history.
LEMMA HeardTypeKept ==
  ASSUME Inv, HeardTypeOK, [ToldNext]_allVars
  PROVE  HeardTypeOK'
<1>1. CASE HearFrame
  <2>1. Head(chunk) \in Replies
    BY <1>1, FrameIsReply DEF HearFrame
  <2>2. heard' \in Promise!Heard
    BY <1>1, <2>1, Hearing DEF HearFrame
  <2> QED
    BY <1>1, <2>2 DEF HearFrame, HeardTypeOK
<1>2. CASE LoseQueue
  <2>1. Untold(rx) \subseteq Fields
    BY UntoldFields DEF Inv, TypeOK, LineTypeOK
  <2> QED
    BY <1>2, <2>1 DEF LoseQueue, HeardTypeOK
<1>3. CASE Obey
  <2>1. FieldOf(Head(out).type) \in Fields
    BY <1>3 DEF Obey, UnitAccepts, FieldOf, AckTypes, Fields
  <2> QED
    BY <1>3, <2>1 DEF Obey, HeardTypeOK
<1>4. CASE UNCHANGED toldVars
  BY <1>4 DEF toldVars, HeardTypeOK
<1> QED
  BY <1>1, <1>2, <1>3, <1>4 DEF ToldNext, OtherSteps, allVars

\* At the start nothing was heard.
LEMMA NothingHeard ==
  ASSUME ToldInit
  PROVE  /\ heard = [output |-> UNKNOWN, signal |-> UNKNOWN, address |-> UNKNOWN]
         /\ heard["output"] = UNKNOWN /\ heard["signal"] = UNKNOWN
         /\ heard["address"] = UNKNOWN
BY DEF ToldInit, Fields

\* The types of the history are right from the start, whatever the user, the
\* line and the module do.
LEMMA HeardTypeInvariance == ToldSpec => [](Inv /\ HeardTypeOK)
<1>1. ToldInit => HeardTypeOK
  BY NothingHeard DEF ToldInit, HeardTypeOK, Promise!Heard
<1>2. Inv /\ HeardTypeOK /\ [ToldNext]_allVars => HeardTypeOK'
  BY HeardTypeKept
<1> QED
  BY <1>1, <1>2, ToldIsTxLite, Invariance, PTL DEF ToldSpec

\* Every variable of Told keeps its type.
THEOREM ToldTypeCorrect == ToldSpec => []ToldTypeOK
<1>1. HeardTypeOK => heard \in [Fields -> Args] /\ stale \subseteq Fields
  BY DEF HeardTypeOK, Promise!Heard, Fields, Args
<1>2. Inv /\ HeardTypeOK => ToldTypeOK
  BY <1>1 DEF Inv, ToldTypeOK
<1> QED
  BY <1>2, HeardTypeInvariance, PTL

-----------------------------------------------------------------------------
(* The steps keep the invariant *)

\* With no command pending nothing is on its way.
LEMMA IdleMeansQuiet ==
  ASSUME HeardInv, ~pending.active
  PROVE  out = <<>> /\ rx = <<>> /\ chunk = <<>>
BY DEF HeardInv, OneOnTheWay, IsPending, IsAwaited

\* The program starts with nothing heard, shown or on its way.
LEMMA InitHeardInv == ToldInit => HeardInv
<1> SUFFICES ASSUME ToldInit PROVE HeardInv
  OBVIOUS
<1>1. out = <<>> /\ rx = <<>> /\ chunk = <<>> /\ pending = NoPending
  BY DEF ToldInit, Init, ConnInit, DeviceInit
<1>2. /\ state.output_on = FALSE /\ state.signal = UNKNOWN
      /\ state.address_known = FALSE
  BY DEF ToldInit, Init, DeviceInit
<1>3. HeardTypeOK
  BY NothingHeard DEF ToldInit, HeardTypeOK, Promise!Heard
<1>4. OneOnTheWay /\ NoAnswerIsLate /\ AnswersAreTrue
  BY <1>1 DEF OneOnTheWay, NoAnswerIsLate, NoPending, AnswersAreTrue
<1>5. OutputIsHeardOrGuessed /\ SignalIsHeard /\ AddressIsKnownFromHearing
  BY <1>1, <1>2, NothingHeard
  DEF OutputIsHeardOrGuessed, HeardOutput, Guessing, NoPending, SignalIsHeard,
      AddressIsKnownFromHearing
<1>6. HeardIsTrue
  BY DEF ToldInit, HeardIsTrue
<1> QED
  BY <1>3, <1>4, <1>5, <1>6 DEF HeardInv

\* What follows nothing is alone.
LEMMA AppendToNothing == \A r : Append(<<>>, r) = <<r>>
OBVIOUS

\* A command is sent while nothing is on its way, and is the one frame then.
LEMMA SendKeepsHeard ==
  ASSUME OneAtATime, Inv, HeardInv, MayCommand, HeardTypeOK',
         NEW request \in Requests, ConnSends(request),
         NEW prev, SetPending(KindOf(request.type), request.arg, prev),
         \/ request.type = "OUTPUT_SWITCH" /\ prev = state.output_on
         \/ request.type # "OUTPUT_SWITCH" /\ state' = state,
         state' \in {state, [state EXCEPT !.output_on = request.arg]},
         age' = 0,
         UNCHANGED <<thread, rx, chunk, unit, toldVars>>
  PROVE  HeardInv'
<1>1. ~pending.active
  BY DEF MayCommand, OneAtATime
<1>2. out' = <<request>> /\ rx' = <<>> /\ chunk' = <<>>
  <2>1. out = <<>> /\ rx = <<>> /\ chunk = <<>>
    BY <1>1, IdleMeansQuiet
  <2>2. out' = Append(out, request)
    BY DEF ConnSends
  <2> QED
    BY <2>1, <2>2, AppendToNothing
<1>3. /\ pending'.active /\ pending'.kind = KindOf(request.type)
      /\ pending'.arg = request.arg /\ pending'.prev = prev
  BY DEF SetPending
<1>4. OneOnTheWay'
  BY <1>2, <1>3 DEF OneOnTheWay, IsPending, KindOf
<1>5. NoAnswerIsLate'
  BY Durations, DeviceAssumption DEF NoAnswerIsLate
<1>6. HeardOutput = state.output_on /\ HeardOutput' = HeardOutput
  BY <1>1 DEF HeardInv, OutputIsHeardOrGuessed, Guessing, HeardOutput, toldVars
<1>7. OutputIsHeardOrGuessed'
  <2>1. CASE request.type = "OUTPUT_SWITCH"
    BY <1>3, <1>6, <2>1 DEF OutputIsHeardOrGuessed, Guessing, KindOf
  <2>2. CASE request.type # "OUTPUT_SWITCH"
    BY <1>3, <1>6, <2>2
    DEF OutputIsHeardOrGuessed, Guessing, KindOf, Requests
  <2> QED
    BY <2>1, <2>2
<1>8. SignalIsHeard' /\ AddressIsKnownFromHearing'
  BY DEF HeardInv, SignalIsHeard, AddressIsKnownFromHearing, toldVars, Inv,
         TypeOK, DeviceTypeOK, States
<1>9. AnswersAreTrue' /\ HeardIsTrue'
  BY <1>2 DEF HeardInv, AnswersAreTrue, HeardIsTrue, Untold, toldVars
<1> QED
  BY <1>4, <1>5, <1>7, <1>8, <1>9 DEF HeardInv

\* What the invariant speaks of.
heardVars == <<thread, out, rx, chunk, state, pending, unit, age, toldVars>>

\* What the answers on their way and the answers heard say stays true while
\* they and the module stay what they are.
LEMMA AnswersStay ==
  ASSUME AnswersAreTrue, UNCHANGED <<rx, chunk, unit>>
  PROVE  AnswersAreTrue'
<1>1. \A f \in Replies : Says(f)' = Says(f)
  BY DEF Says
<1> QED
  BY <1>1 DEF AnswersAreTrue

LEMMA HeardStays ==
  ASSUME HeardIsTrue, UNCHANGED <<rx, chunk, unit, heard, stale>>
  PROVE  HeardIsTrue'
<1>1. Untold(rx)' = Untold(rx) /\ Untold(chunk)' = Untold(chunk)
  BY DEF Untold
<1> QED
  BY <1>1 DEF HeardIsTrue

\* A step that changes none of it keeps the invariant.
LEMMA StutterKeepsHeard ==
  ASSUME HeardInv, UNCHANGED heardVars
  PROVE  HeardInv'
<1>1. UNCHANGED <<thread, out, rx, chunk, state, pending, unit, age, heard, stale>>
  BY DEF heardVars, toldVars
<1>2. HeardTypeOK' /\ OneOnTheWay' /\ NoAnswerIsLate'
  BY <1>1 DEF HeardInv, HeardTypeOK, OneOnTheWay, IsPending, IsAwaited,
              NoAnswerIsLate
<1>3. OutputIsHeardOrGuessed' /\ SignalIsHeard' /\ AddressIsKnownFromHearing'
  BY <1>1 DEF HeardInv, OutputIsHeardOrGuessed, HeardOutput, Guessing,
              SignalIsHeard, AddressIsKnownFromHearing
<1>4. AnswersAreTrue' /\ HeardIsTrue'
  BY <1>1, AnswersStay, HeardStays DEF HeardInv
<1> QED
  BY <1>2, <1>3, <1>4 DEF HeardInv

\* The five commands keep the invariant, sent or not.
LEMMA CommandsKeepHeard ==
  ASSUME OneAtATime, Inv, HeardInv, HeardTypeOK', AnyCommand, UNCHANGED toldVars
  PROVE  HeardInv'
<1>1. state.address \in Addresses /\ state.output_on \in BOOLEAN
  BY DEF Inv, TypeOK, DeviceTypeOK, States
<1>2. ASSUME ConnSendFails, UNCHANGED <<state, pending>>,
             age' = IF out' = out THEN age ELSE 0,
             UNCHANGED <<portVars, thread, rx, chunk, now, unit>>
      PROVE  HeardInv'
  <2>1. UNCHANGED <<out, age>>
    BY <1>2 DEF ConnSendFails
  <2> QED
    BY <1>2, <2>1, StutterKeepsHeard DEF heardVars
<1>3. ASSUME NEW request \in Requests, MayCommand, ConnSends(request),
             age' = IF out' = out THEN age ELSE 0,
             UNCHANGED <<portVars, thread, rx, chunk, now, unit>>
      PROVE  /\ age' = 0
             /\ UNCHANGED <<thread, rx, chunk, unit, toldVars>>
  <2>1. out' = Append(out, request) /\ out' # out
    BY <1>3 DEF Inv, TypeOK, LineTypeOK, ConnSends
  <2> QED
    BY <1>3, <2>1
<1>4. CASE TurnOutput
  <2>1. PICK on \in BOOLEAN : Command(DeviceSendOutput(on))
    BY <1>4 DEF TurnOutput
  <2> DEFINE request == Request("OUTPUT_SWITCH", state.address, on)
  <2>2. request \in Requests
    BY <1>1 DEF Request, Requests
  <2>3. request.type = "OUTPUT_SWITCH" /\ request.arg = on
    BY DEF Request
  <2>4. CASE ConnSendFails /\ UNCHANGED <<state, pending>>
    BY <1>2, <2>1, <2>4 DEF Command
  <2>5. CASE /\ ConnSends(request)
             /\ state' = [state EXCEPT !.output_on = on]
             /\ SetPending("OUTPUT", on, state.output_on)
    <3>1. KindOf(request.type) = "OUTPUT"
      BY <2>3 DEF KindOf
    <3> HIDE DEF request
    <3>2. MayCommand /\ age' = 0 /\ UNCHANGED <<thread, rx, chunk, unit, toldVars>>
      BY <1>3, <2>1, <2>2, <2>5 DEF Command
    <3> QED
      BY <2>2, <2>3, <2>5, <3>1, <3>2, SendKeepsHeard
  <2> QED
    BY <2>1, <2>4, <2>5 DEF Command, DeviceSendOutput
<1>5. ASSUME NEW request \in Requests, request.type # "OUTPUT_SWITCH",
             Command(DeviceSend(request, KindOf(request.type), request.arg))
      PROVE  HeardInv'
  <2>1. CASE /\ ConnSends(request)
             /\ SetPending(KindOf(request.type), request.arg, FALSE)
             /\ state' = state
    <3>1. MayCommand /\ age' = 0 /\ UNCHANGED <<thread, rx, chunk, unit, toldVars>>
      BY <1>3, <1>5, <2>1 DEF Command
    <3> QED
      BY <1>5, <2>1, <3>1, SendKeepsHeard
  <2>2. CASE ConnSendFails /\ UNCHANGED <<state, pending>>
    BY <1>2, <1>5, <2>2 DEF Command
  <2> QED
    BY <1>5, <2>1, <2>2 DEF Command, DeviceSend
<1>6. CASE ApplySignal
  <2>1. PICK s \in Signals : Command(DeviceApplySignalSettings(s))
    BY <1>6 DEF ApplySignal
  <2>2. Request("SIGNAL_CONTROL", state.address, s) \in Requests
    BY <1>1 DEF Request, Requests
  <2> QED
    BY <1>5, <2>1, <2>2 DEF DeviceApplySignalSettings, Request, KindOf
<1>7. CASE ReadStatus
  <2>1. Request("STATUS_QUERY", state.address, UNKNOWN) \in Requests
    BY <1>1 DEF Request, Requests
  <2> QED
    BY <1>5, <1>7, <2>1 DEF ReadStatus, DeviceReadStatus, Request, KindOf
<1>8. CASE QueryAddress
  <2>1. Request("ADDR_QUERY", Broadcast, UNKNOWN) \in Requests
    BY DEF Request, Requests
  <2> QED
    BY <1>5, <1>8, <2>1 DEF QueryAddress, DeviceQueryAddress, Request, KindOf
<1>9. CASE SetAddress
  <2>1. PICK a \in Addresses : Command(DeviceSetAddress(a))
    BY <1>9 DEF SetAddress
  <2>2. Request("ADDR_SET", Broadcast, a) \in Requests
    BY DEF Request, Requests
  <2> QED
    BY <1>5, <2>1, <2>2 DEF DeviceSetAddress, Request, KindOf
<1> QED
  BY <1>4, <1>6, <1>7, <1>8, <1>9 DEF AnyCommand

\* A frame on its way is a frame.
LEMMA OneIsNotNone == \A f : <<f>> # <<>>
OBVIOUS

\* Opening and closing lose what the driver had queued: if an answer was
\* there, the field it was about is counted as stale; and behind another
\* module every field is.
LEMMA PortKeepsHeard ==
  ASSUME Inv, HeardInv, HeardTypeOK', LoseQueue
  PROVE  HeardInv'
<1>1. /\ chunk = <<>> /\ chunk' = <<>> /\ out' \in {out, <<>>}
      /\ rx' \in {rx, <<>>}
      /\ UNCHANGED <<pending, age, heard>>
      /\ stale' = IF unit' = unit THEN stale \cup Untold(rx) ELSE Fields
  BY DEF LoseQueue, Connect, ConnectRetry, Disconnect, CloseWindow, PortOpened,
         ModuleAtPort, ConnOpened,
         ConnOpenFailed, ConnOpenDenied, ConnDisconnect, SerialOpenOk,
         SerialOpenFails, SerialClose, DeviceOnConnectedChanged, Inv,
         ChunkIsBeingRead
<1>2. rx' = <<>>
  <2>1. CASE rx = <<>>
    BY <1>1, <2>1
  <2>2. CASE connected
    <3>1. ConnIsConnected
      BY <2>2 DEF ConnIsConnected, Inv, PortStateAgrees
    <3>2. Disconnect \/ CloseWindow
      BY <3>1, <2>2 DEF LoseQueue, Connect, ConnectRetry, Inv, PortStateAgrees
    <3>3. ConnDisconnect
      BY <3>1, <3>2 DEF Disconnect, CloseWindow
    <3> QED
      BY <3>3 DEF ConnDisconnect, SerialClose
  <2> QED
    BY <2>1, <2>2 DEF Inv, PortStateAgrees
<1>3. /\ state'.output_on = state.output_on /\ state'.signal = state.signal
      /\ state'.address = state.address
      /\ state'.address_known = state.address_known
  BY DEF LoseQueue, Connect, ConnectRetry, Disconnect, CloseWindow, PortOpened,
         ModuleAtPort, ConnOpened,
         ConnOpenFailed, ConnOpenDenied, ConnDisconnect,
         DeviceOnConnectedChanged, Inv, TypeOK, DeviceTypeOK, States
<1>4. OneOnTheWay'
  BY <1>1, <1>2, OneIsNotNone DEF HeardInv, OneOnTheWay, IsPending
<1>5. NoAnswerIsLate'
  BY <1>1, <1>2 DEF HeardInv, NoAnswerIsLate
<1>6. OutputIsHeardOrGuessed' /\ SignalIsHeard' /\ AddressIsKnownFromHearing'
  BY <1>1, <1>3
  DEF HeardInv, OutputIsHeardOrGuessed, Guessing, HeardOutput, SignalIsHeard,
      AddressIsKnownFromHearing
<1>7. AnswersAreTrue'
  BY <1>1, <1>2, OneIsNotNone DEF AnswersAreTrue
<1>8. HeardIsTrue'
  <2>1. CASE unit' = unit
    BY <1>1, <1>2, <2>1, NothingUntold DEF HeardInv, HeardIsTrue
  <2>2. CASE unit' # unit
    BY <1>1, <2>2 DEF HeardIsTrue
  <2> QED
    BY <2>1, <2>2
<1> QED
  BY <1>4, <1>5, <1>6, <1>7, <1>8 DEF HeardInv

\* The poll takes the answer that is there, if any, to the loop over frames.
LEMMA PollKeepsHeard ==
  ASSUME OneAtATime, Inv, HeardInv, HeardTypeOK', TimerPoll, UNCHANGED toldVars
  PROVE  HeardInv'
<1>1. /\ chunk = <<>> /\ out' = out
      /\ \/ chunk' = rx /\ rx' = <<>>
         \/ rx = <<>> /\ rx' = <<>> /\ chunk' = <<>>
      /\ UNCHANGED <<state, pending, unit, age, heard, stale>>
  BY DEF OneAtATime, TimerPoll, ConnPoll, ConnIsConnected, portVars, deviceVars,
         toldVars, Inv, ChunkIsBeingRead, PortStateAgrees
<1>2. chunk' = rx /\ rx' = <<>>
  BY <1>1
<1>3. OneOnTheWay'
  BY <1>1, <1>2 DEF HeardInv, OneOnTheWay, IsPending, IsAwaited
<1>4. NoAnswerIsLate'
  BY <1>1, <1>2 DEF HeardInv, NoAnswerIsLate
<1>5. OutputIsHeardOrGuessed' /\ SignalIsHeard' /\ AddressIsKnownFromHearing'
  BY <1>1
  DEF HeardInv, OutputIsHeardOrGuessed, Guessing, HeardOutput, SignalIsHeard,
      AddressIsKnownFromHearing
<1>6. AnswersAreTrue'
  BY <1>1, <1>2, OneIsNotNone DEF HeardInv, AnswersAreTrue, Says
<1>7. HeardIsTrue'
  BY <1>1, <1>2, NothingUntold DEF HeardInv, HeardIsTrue, Untold
<1> QED
  BY <1>3, <1>4, <1>5, <1>6, <1>7 DEF HeardInv

\* The clock only moves past the timeout when no answer can come any more.
LEMMA ClockKeepsHeard ==
  ASSUME OneAtATime, Inv, HeardInv, HeardTypeOK', ClockTick, UNCHANGED toldVars
  PROVE  HeardInv'
<1>1. UNCHANGED <<thread, out, rx, chunk, state, pending, unit, heard, stale>>
  BY DEF ClockTick, lineVars, toldVars
<1>2. NoAnswerIsLate'
  <2>1. CASE pending.active /\ thread # "exited"
    <3>1. /\ age' = age + 1
          /\ \/ age + 1 < Timeout
             \/ out = <<>> /\ (thread = "idle" \/ rx = <<>>)
      BY <2>1 DEF ClockTick, InTime, OneAtATime
    <3>2. ~(age + 1 >= Timeout /\ age + 1 < Timeout)
      BY Durations DEF Inv, TypeOK, UnitTypeOK
    <3> QED
      BY <1>1, <3>1, <3>2 DEF NoAnswerIsLate
  <2>2. CASE ~(pending.active /\ thread # "exited")
    <3>1. age' = age
      BY <2>2 DEF ClockTick
    <3> QED
      BY <1>1, <3>1 DEF HeardInv, NoAnswerIsLate
  <2> QED
    BY <2>1, <2>2
<1>3. OneOnTheWay'
  BY <1>1 DEF HeardInv, OneOnTheWay, IsPending, IsAwaited
<1>4. AnswersAreTrue'
  BY <1>1, AnswersStay DEF HeardInv
<1>5. HeardIsTrue'
  BY <1>1, HeardStays DEF HeardInv
<1>6. OutputIsHeardOrGuessed' /\ SignalIsHeard' /\ AddressIsKnownFromHearing'
  BY <1>1
  DEF HeardInv, OutputIsHeardOrGuessed, Guessing, HeardOutput, SignalIsHeard,
      AddressIsKnownFromHearing
<1> QED
  BY <1>2, <1>3, <1>4, <1>5, <1>6 DEF HeardInv

\* The first of a sequence of one, and what follows it.
LEMMA OneElement == \A f : Head(<<f>>) = f /\ Tail(<<f>>) = <<>>
OBVIOUS

LEMMA SameElement == \A f, g : <<f>> = <<g>> => f = g
OBVIOUS

\* When the module takes a request it is the one of the pending command, and
\* nothing else is on its way.
LEMMA RequestTaken ==
  ASSUME HeardInv, out # <<>>
  PROVE  /\ Head(out) \in Requests /\ IsPending(Head(out))
         /\ Tail(out) = <<>> /\ rx = <<>> /\ chunk = <<>>
BY OneElement DEF HeardInv, OneOnTheWay

\* A request the module ignores is gone, and with it the command's answer.
LEMMA IgnoreKeepsHeard ==
  ASSUME HeardInv, HeardTypeOK', UnitIgnores, UNCHANGED toldVars
  PROVE  HeardInv'
<1>1. /\ out' = <<>> /\ rx' = <<>> /\ chunk' = <<>> /\ rx = <<>> /\ chunk = <<>>
      /\ UNCHANGED <<thread, state, pending, unit, age, heard, stale>>
  BY RequestTaken DEF UnitIgnores, deviceVars, toldVars
<1>2. OneOnTheWay' /\ NoAnswerIsLate'
  BY <1>1 DEF OneOnTheWay, NoAnswerIsLate
<1>3. OutputIsHeardOrGuessed' /\ SignalIsHeard' /\ AddressIsKnownFromHearing'
  BY <1>1
  DEF HeardInv, OutputIsHeardOrGuessed, Guessing, HeardOutput, SignalIsHeard,
      AddressIsKnownFromHearing
<1>4. AnswersAreTrue'
  BY <1>1, OneIsNotNone DEF AnswersAreTrue
<1>5. HeardIsTrue'
  BY <1>1, HeardStays DEF HeardInv
<1> QED
  BY <1>2, <1>3, <1>4, <1>5 DEF HeardInv

\* The module answers the request of the pending command, or the line loses
\* its answer: what it says is true of it, and what no longer is true of it
\* is told by the answer or counted as stale.
LEMMA AnswerKeepsHeard ==
  ASSUME OneAtATime, HeardInv, HeardTypeOK', NEW reply \in Replies,
         Answer(reply), heard' = heard,
         reply.type = Head(out).type,
         reply.type \in AckTypes /\ reply.data = "SUCCESS"
           => reply.did = Head(out).arg,
         \A x \in DOMAIN Says(reply) : Says(reply)[x] = unit'[x],
         \A x \in Fields \ stale' : \/ x \notin stale /\ unit'[x] = unit[x]
                                    \/ rx' # <<>> /\ x \in Untold(<<reply>>)
  PROVE  HeardInv'
<1>1. /\ out # <<>> /\ out' = <<>> /\ chunk' = <<>> /\ rx = <<>> /\ chunk = <<>>
      /\ UNCHANGED <<thread, state, pending, age>>
  BY RequestTaken DEF Answer, deviceVars
<1>2. rx' = <<reply>> \/ rx' = <<>>
  BY <1>1, AppendToNothing DEF Answer, OneAtATime
<1>3. Head(out) \in Requests /\ IsPending(Head(out))
  BY <1>1, RequestTaken
<1>4. IsAwaited(reply)'
  <2>1. reply.type # "UNMATCHED"
    BY <1>3 DEF Requests
  <2> QED
    BY <1>1, <1>3, <2>1 DEF IsPending, IsAwaited, KindOf
<1>5. OneOnTheWay'
  BY <1>1, <1>2, <1>4 DEF OneOnTheWay
<1>6. NoAnswerIsLate'
  BY <1>1 DEF HeardInv, NoAnswerIsLate
<1>7. OutputIsHeardOrGuessed' /\ SignalIsHeard' /\ AddressIsKnownFromHearing'
  BY <1>1
  DEF HeardInv, OutputIsHeardOrGuessed, Guessing, HeardOutput, SignalIsHeard,
      AddressIsKnownFromHearing
<1>8. AnswersAreTrue'
  <2> SUFFICES ASSUME NEW f \in Replies, <<f>> \in {rx', chunk'}
               PROVE  \A x \in DOMAIN Says(f) : Says(f)[x] = unit'[x]
    BY DEF AnswersAreTrue, Says
  <2>1. f = reply
    BY <1>1, <1>2, OneIsNotNone, SameElement
  <2> QED
    BY <2>1
<1>9. HeardIsTrue'
  <2> SUFFICES ASSUME NEW x \in Fields \ stale'
               PROVE  heard[x] \in {UNKNOWN, unit'[x]} \/ x \in Untold(rx')
    BY DEF HeardIsTrue, Untold
  <2>1. CASE x \notin stale /\ unit'[x] = unit[x]
    <3>1. heard[x] \in {UNKNOWN, unit[x]} \/ x \in Untold(rx) \/ x \in Untold(chunk)
      BY <2>1 DEF HeardInv, HeardIsTrue
    <3> QED
      BY <1>1, <2>1, <3>1, NothingUntold
  <2>2. CASE rx' # <<>> /\ x \in Untold(<<reply>>)
    BY <1>2, <2>2
  <2> QED
    BY <2>1, <2>2
<1> QED
  BY <1>5, <1>6, <1>7, <1>8, <1>9 DEF HeardInv

\* The module obeys, rejects or reports.
LEMMA ModuleKeepsHeard ==
  ASSUME OneAtATime, Inv, HeardInv, HeardTypeOK',
         Obey \/ ((UnitRejects \/ UnitReports) /\ UNCHANGED toldVars)
  PROVE  HeardInv'
<1>1. /\ out # <<>> /\ Head(out) \in Requests /\ rx = <<>>
      /\ unit \in [address : Addresses, output : BOOLEAN, signal : Signals]
  BY RequestTaken
  DEF Obey, UnitAccepts, UnitRejects, UnitReports, Inv, TypeOK, UnitTypeOK, Units
<1>2. CASE Obey
  <2> DEFINE reply == Done(Head(out))
             field == FieldOf(Head(out).type)
  <2>1. /\ reply \in Replies /\ reply.type = Head(out).type
        /\ reply.data = "SUCCESS" /\ reply.did = Head(out).arg
        /\ reply.type \in AckTypes
    BY <1>1, <1>2 DEF Obey, UnitAccepts, Done, AckTypes, Requests, Replies
  <2>2. field \in {"output", "signal", "address"}
    BY <2>1 DEF FieldOf, AckTypes
  <2>3. /\ DOMAIN Says(reply) = {field} /\ Says(reply)[field] = Head(out).arg
        /\ Untold(<<reply>>) = {field}
    BY <2>1, ReplyCases DEF AckTypes
  <2>4. /\ unit'[field] = Head(out).arg
        /\ \A x \in Fields : x # field => unit'[x] = unit[x]
    BY <1>1, <1>2, <2>2 DEF Obey, UnitAccepts, Fields
  <2>5. Answer(reply) /\ heard' = heard
    BY <1>2 DEF Obey, UnitAccepts
  <2>6. \A x \in Fields \ stale' : \/ x \notin stale /\ unit'[x] = unit[x]
                                   \/ rx' # <<>> /\ x \in Untold(<<reply>>)
    <3>1. \/ rx' = Append(rx, reply) /\ stale' = stale
          \/ stale' = stale \cup {field}
      BY <1>2 DEF Obey
    <3>2. CASE rx' = Append(rx, reply) /\ stale' = stale
      <4>1. rx' # <<>>
        BY <1>1, <3>2, AppendToNothing, OneIsNotNone
      <4> QED
        BY <2>3, <2>4, <3>2, <4>1
    <3>3. CASE stale' = stale \cup {field}
      BY <2>4, <3>3
    <3> QED
      BY <3>1, <3>2, <3>3
  <2> HIDE DEF reply, field
  <2> QED
    BY <2>1, <2>3, <2>4, <2>5, <2>6, AnswerKeepsHeard
<1>3. ASSUME NEW reply \in Replies, Answer(reply), unit' = unit,
             UNCHANGED toldVars, reply.type = Head(out).type,
             ~(reply.type \in AckTypes /\ reply.data = "SUCCESS"),
             \A x \in DOMAIN Says(reply) : Says(reply)[x] = unit[x]
      PROVE  HeardInv'
  BY <1>3, AnswerKeepsHeard DEF toldVars
<1>4. CASE UnitRejects /\ UNCHANGED toldVars
  <2> DEFINE reply == [type |-> Head(out).type, data |-> "FAILED"]
  <2>1. /\ reply \in Replies /\ reply.type = Head(out).type
        /\ reply.type \in AckTypes /\ reply.data = "FAILED"
    BY <1>4 DEF UnitRejects, Replies
  <2>2. DOMAIN Says(reply) = {}
    BY <2>1, ReplyCases DEF AckTypes
  <2>3. Answer(reply) /\ unit' = unit
    BY <1>4 DEF UnitRejects
  <2> HIDE DEF reply
  <2> QED
    BY <1>3, <1>4, <2>1, <2>2, <2>3
<1>5. CASE /\ Head(out).type = "STATUS_QUERY" /\ UNCHANGED <<unit, toldVars>>
           /\ Answer([type |-> "STATUS_QUERY",
                      data |-> [output_on |-> unit.output,
                                signal |-> unit.signal]])
  <2> DEFINE reply == [type |-> "STATUS_QUERY",
                       data |-> [output_on |-> unit.output,
                                 signal |-> unit.signal]]
  <2>1. /\ reply \in Replies /\ reply.type = "STATUS_QUERY"
        /\ reply.data.output_on = unit.output /\ reply.data.signal = unit.signal
    BY <1>1 DEF Replies, Settings
  <2>2. /\ DOMAIN Says(reply) = {"output", "signal"}
        /\ Says(reply)["output"] = unit.output
        /\ Says(reply)["signal"] = unit.signal
    BY <2>1, ReplyCases DEF AckTypes
  <2> HIDE DEF reply
  <2>3. \A x \in DOMAIN Says(reply) : Says(reply)[x] = unit[x]
    BY <2>2
  <2> QED
    BY <1>3, <1>5, <2>1, <2>3 DEF AckTypes, reply
<1>6. CASE /\ Head(out).type = "ADDR_QUERY" /\ UNCHANGED <<unit, toldVars>>
           /\ Answer([type |-> "ADDR_QUERY", data |-> unit.address])
  <2> DEFINE reply == [type |-> "ADDR_QUERY", data |-> unit.address]
  <2>1. reply \in Replies /\ reply.type = "ADDR_QUERY" /\ reply.data = unit.address
    BY <1>1 DEF Replies
  <2>2. DOMAIN Says(reply) = {"address"} /\ Says(reply)["address"] = unit.address
    BY <2>1, ReplyCases DEF AckTypes
  <2> HIDE DEF reply
  <2>3. \A x \in DOMAIN Says(reply) : Says(reply)[x] = unit[x]
    BY <2>2
  <2> QED
    BY <1>3, <1>6, <2>1, <2>3 DEF AckTypes, reply
<1> QED
  BY <1>2, <1>4, <1>5, <1>6 DEF UnitReports

\* A command that is given up has no answer on its way, and its switch is
\* taken back to what was heard.
LEMMA TimeoutKeepsHeard ==
  ASSUME Inv, HeardInv, HeardTypeOK', TimerTimeout, UNCHANGED toldVars
  PROVE  HeardInv'
<1>1. /\ thread = "timeout" /\ chunk = <<>>
      /\ UNCHANGED <<out, rx, chunk, unit, age, heard, stale>>
  BY DEF TimerTimeout, DevicePollTimeout, lineVars, toldVars, Inv,
         ChunkIsBeingRead
<1>2. AnswersAreTrue'
  BY <1>1, AnswersStay DEF HeardInv
<1>3. HeardIsTrue'
  BY <1>1, HeardStays DEF HeardInv
<1>4. CASE TimedOut
  <2>1. /\ pending.deadline \in Ticks /\ now \in Ticks /\ age \in 0 .. MaxAge
        /\ pending.active
    BY <1>4, PendingFits DEF TimedOut, Inv, TypeOK, DeviceTypeOK, UnitTypeOK
  <2>2. age >= Timeout
    BY <1>1, <1>4, <2>1, DeadlinePassedMeansElapsed
    DEF TimedOut, Inv, AgeIsElapsed
  <2>3. out' = <<>> /\ rx' = <<>> /\ chunk' = <<>>
    BY <1>1, <2>1, <2>2 DEF HeardInv, NoAnswerIsLate
  <2>4. /\ ~pending'.active
        /\ state' = [state EXCEPT !.output_on = IF pending.kind = "OUTPUT"
                                                  THEN pending.prev ELSE @]
    BY <1>4
    DEF TimerTimeout, DevicePollTimeout, CancelPending, NoPending,
        RevertedState, Inv, TypeOK, DeviceTypeOK, States
  <2>5. OneOnTheWay' /\ NoAnswerIsLate'
    BY <2>3, <2>4 DEF OneOnTheWay, NoAnswerIsLate
  <2>6. OutputIsHeardOrGuessed' /\ SignalIsHeard' /\ AddressIsKnownFromHearing'
    BY <1>1, <2>1, <2>4
    DEF HeardInv, OutputIsHeardOrGuessed, Guessing, HeardOutput, SignalIsHeard,
        AddressIsKnownFromHearing, Inv, TypeOK, DeviceTypeOK, States
  <2> QED
    BY <1>2, <1>3, <2>5, <2>6 DEF HeardInv
<1>5. CASE ~TimedOut
  <2>1. thread' = "idle" /\ UNCHANGED <<state, pending>>
    BY <1>5 DEF TimerTimeout, DevicePollTimeout
  <2>2. OneOnTheWay'
    BY <1>1, <2>1 DEF HeardInv, OneOnTheWay, IsPending, IsAwaited
  <2>3. NoAnswerIsLate'
    BY <1>1, <2>1 DEF HeardInv, NoAnswerIsLate
  <2>4. OutputIsHeardOrGuessed' /\ SignalIsHeard' /\ AddressIsKnownFromHearing'
    BY <1>1, <2>1
    DEF HeardInv, OutputIsHeardOrGuessed, Guessing, HeardOutput, SignalIsHeard,
        AddressIsKnownFromHearing
  <2> QED
    BY <1>2, <1>3, <2>2, <2>3, <2>4 DEF HeardInv
<1> QED
  BY <1>4, <1>5

\* An answer to the pending command makes the fields it speaks of shown as it
\* says, and leaves the others as they were before a switch it rejects.
LEMMA AnswerIsShown ==
  ASSUME Inv, NEW f \in Replies, IsAwaited(f), DeviceOnFrame(f)
  PROVE  /\ state'.output_on =
              IF "output" \in DOMAIN Says(f) THEN Says(f)["output"]
              ELSE IF Guessing THEN pending.prev ELSE state.output_on
         /\ state'.signal = IF "signal" \in DOMAIN Says(f) THEN Says(f)["signal"]
                                                          ELSE state.signal
         /\ IF "address" \in DOMAIN Says(f)
              THEN state'.address_known /\ state'.address = Says(f)["address"]
              ELSE UNCHANGED <<state.address, state.address_known>>
<1>1. /\ state = [connected |-> state.connected, address |-> state.address,
                  address_known |-> state.address_known,
                  output_on |-> state.output_on, signal |-> state.signal]
      /\ DOMAIN state = {"connected", "address", "address_known", "output_on",
                         "signal"}
  BY DEF Inv, TypeOK, DeviceTypeOK, States
<1>2. CASE f.type \in AckTypes /\ f.data = "SUCCESS"
  <2>1. /\ DOMAIN Says(f) = {FieldOf(f.type)}
        /\ Says(f)[FieldOf(f.type)] = pending.arg
    BY <1>2, ReplyCases DEF AckTypes, IsAwaited
  <2>2. state' = AcceptedState
    BY <1>2 DEF DeviceOnFrame, AckTypes
  <2>3. CASE f.type = "OUTPUT_SWITCH"
    <3>1. pending.kind = "OUTPUT" /\ FieldOf(f.type) = "output"
      BY <2>3 DEF IsAwaited, KindOf, FieldOf
    <3> QED
      BY <1>1, <2>1, <2>2, <3>1 DEF AcceptedState
  <2>4. CASE f.type = "SIGNAL_CONTROL"
    <3>1. pending.kind = "SIGNAL" /\ FieldOf(f.type) = "signal"
      BY <2>4 DEF IsAwaited, KindOf, FieldOf
    <3> QED
      BY <1>1, <2>1, <2>2, <3>1 DEF AcceptedState, Guessing
  <2>5. CASE f.type = "ADDR_SET"
    <3>1. pending.kind = "ADDR_SET" /\ FieldOf(f.type) = "address"
      BY <2>5 DEF IsAwaited, KindOf, FieldOf
    <3> QED
      BY <1>1, <2>1, <2>2, <3>1 DEF AcceptedState, Guessing
  <2> QED
    BY <1>2, <2>3, <2>4, <2>5 DEF AckTypes
<1>3. CASE f.type \in AckTypes /\ f.data = "FAILED"
  <2>1. DOMAIN Says(f) = {}
    BY <1>3, ReplyCases DEF AckTypes
  <2>2. state' = RevertedState
    BY <1>3 DEF DeviceOnFrame, AckTypes
  <2> QED
    BY <1>1, <2>1, <2>2 DEF RevertedState, Guessing, IsAwaited
<1>4. CASE f.type = "STATUS_QUERY"
  <2>1. /\ DOMAIN Says(f) = {"output", "signal"}
        /\ Says(f)["output"] = f.data.output_on
        /\ Says(f)["signal"] = f.data.signal
    BY <1>4, ReplyCases DEF AckTypes
  <2>2. state' = StatusState(f)
    BY <1>4 DEF DeviceOnFrame, AckTypes
  <2> QED
    BY <1>1, <2>1, <2>2 DEF StatusState
<1>5. CASE f.type = "ADDR_QUERY"
  <2>1. DOMAIN Says(f) = {"address"} /\ Says(f)["address"] = f.data
    BY <1>5, ReplyCases DEF AckTypes
  <2>2. state' = [state EXCEPT !.address = f.data, !.address_known = TRUE]
    BY <1>5 DEF DeviceOnFrame, AckTypes
  <2>3. ~Guessing
    BY <1>5 DEF Guessing, IsAwaited, KindOf
  <2> QED
    BY <1>1, <2>1, <2>2, <2>3
<1> QED
  BY <1>2, <1>3, <1>4, <1>5, ReplyCases DEF IsAwaited

\* While frames are handled there is one, the answer to the pending command.
LEMMA FrameIsAwaited ==
  ASSUME Inv, HeardInv, TimerFrame
  PROVE  /\ Head(chunk) \in Replies /\ IsAwaited(Head(chunk))
         /\ chunk = <<Head(chunk)>> /\ chunk' = <<>>
         /\ out = <<>> /\ rx = <<>>
BY FrameIsReply, OneElement DEF HeardInv, OneOnTheWay

\* The answer is heard, shown and true, and ends the command.
LEMMA HearKeepsHeard ==
  ASSUME Inv, HeardInv, HeardTypeOK', HearFrame
  PROVE  HeardInv'
<1> DEFINE f == Head(chunk)
           heardOf(x) == IF x \in DOMAIN Says(f) THEN Says(f)[x] ELSE heard[x]
<1>1. /\ f \in Replies /\ IsAwaited(f) /\ chunk = <<f>> /\ chunk' = <<>>
      /\ out = <<>> /\ rx = <<>>
  BY FrameIsAwaited DEF HearFrame
<1>2. /\ out' = <<>> /\ rx' = <<>> /\ ~pending'.active /\ unit' = unit
  BY <1>1
  DEF HearFrame, TimerFrame, ConnNextFrame, DeviceOnFrame, CancelPending,
      NoPending
<1>3. /\ \A x \in Fields : heard'[x] = heardOf(x)
      /\ stale' = stale \ DOMAIN Says(f)
  BY DEF HearFrame
<1>4. /\ state'.output_on =
              IF "output" \in DOMAIN Says(f) THEN Says(f)["output"]
              ELSE IF Guessing THEN pending.prev ELSE state.output_on
      /\ state'.signal = IF "signal" \in DOMAIN Says(f) THEN Says(f)["signal"]
                                                       ELSE state.signal
      /\ IF "address" \in DOMAIN Says(f)
           THEN state'.address_known /\ state'.address = Says(f)["address"]
           ELSE UNCHANGED <<state.address, state.address_known>>
  BY <1>1, AnswerIsShown DEF HearFrame, TimerFrame
<1> HIDE DEF f
<1>5. OneOnTheWay' /\ NoAnswerIsLate'
  BY <1>1, <1>2 DEF OneOnTheWay, NoAnswerIsLate
<1>6. OutputIsHeardOrGuessed' /\ SignalIsHeard' /\ AddressIsKnownFromHearing'
  <2>1. /\ heard'["output"] = heardOf("output")
        /\ heard'["signal"] = heardOf("signal")
        /\ heard'["address"] = heardOf("address")
    BY <1>3 DEF Fields
  <2>2. OutputIsHeardOrGuessed'
    BY <1>1, <1>2, <1>4, <2>1, SaysFit, DeviceAssumption
    DEF HeardInv, OutputIsHeardOrGuessed, Guessing, HeardOutput
  <2>3. SignalIsHeard'
    BY <1>4, <2>1 DEF HeardInv, SignalIsHeard
  <2>4. AddressIsKnownFromHearing'
    BY <1>1, <1>4, <2>1, SaysFit, DeviceAssumption
    DEF HeardInv, AddressIsKnownFromHearing
  <2> QED
    BY <2>2, <2>3, <2>4
<1>7. AnswersAreTrue'
  BY <1>1, <1>2, OneIsNotNone DEF AnswersAreTrue
<1>8. HeardIsTrue'
  <2> SUFFICES ASSUME NEW x \in Fields \ stale'
               PROVE  heard'[x] \in {UNKNOWN, unit[x]}
    BY <1>2 DEF HeardIsTrue
  <2>1. CASE x \in DOMAIN Says(f)
    BY <1>1, <1>3, <2>1 DEF HeardInv, AnswersAreTrue
  <2>2. CASE x \notin DOMAIN Says(f)
    <3>1. Untold(chunk) \subseteq DOMAIN Says(f) /\ Untold(rx) = {}
      BY <1>1, ReplyCases, NothingUntold
    <3> QED
      BY <1>3, <2>2, <3>1 DEF HeardInv, HeardIsTrue
  <2> QED
    BY <2>1, <2>2
<1> QED
  BY <1>5, <1>6, <1>7, <1>8 DEF HeardInv

\* Every step keeps the invariant.
LEMMA NextHeardInv ==
  ASSUME OneAtATime, Inv, HeardInv, [ToldNext]_allVars
  PROVE  HeardInv'
<1>1. HeardTypeOK'
  BY HeardTypeKept DEF HeardInv
<1>2. CASE HearFrame
  BY <1>1, <1>2, HearKeepsHeard
<1>3. CASE LoseQueue
  BY <1>1, <1>3, PortKeepsHeard
<1>4. CASE Obey
  BY <1>1, <1>4, ModuleKeepsHeard
<1>5. CASE OtherSteps
  BY <1>1, <1>5, CommandsKeepHeard, PollKeepsHeard, TimeoutKeepsHeard,
     ClockKeepsHeard, IgnoreKeepsHeard, ModuleKeepsHeard
  DEF OtherSteps
<1>6. CASE UNCHANGED allVars
  BY <1>6, StutterKeepsHeard DEF allVars, vars, heardVars
<1> QED
  BY <1>2, <1>3, <1>4, <1>5, <1>6 DEF ToldNext

\* The invariant holds in every reachable state.
LEMMA HeardInvariance ==
  ASSUME OneAtATime
  PROVE  ToldSpec => [](Inv /\ HeardInv)
<1>1. Inv /\ HeardInv /\ [ToldNext]_allVars => HeardInv'
  BY NextHeardInv
<1> QED
  BY <1>1, InitHeardInv, ToldIsTxLite, Invariance, PTL DEF ToldSpec

-----------------------------------------------------------------------------
(* The theorems: what the window shows is true *)

\* Once no command is pending the output shown is what the module last said
\* of it, or OFF: device_send_output's switch is taken back unless confirmed.
THEOREM OutputCorrect ==
  ASSUME OneAtATime
  PROVE  ToldSpec => []OutputIsHeard
<1>1. HeardInv => OutputIsHeard
  BY DEF HeardInv, OutputIsHeardOrGuessed, Guessing, HeardOutput, OutputIsHeard
<1> QED
  BY <1>1, HeardInvariance, PTL

\* The signal shown is the one the module last acknowledged or reported:
\* device_on_frame misses no acknowledgement and misreads none.
THEOREM SignalCorrect ==
  ASSUME OneAtATime
  PROVE  ToldSpec => []SignalIsHeard
<1>1. HeardInv => SignalIsHeard
  BY DEF HeardInv
<1> QED
  BY <1>1, HeardInvariance, PTL

\* An address shown as known is the one the module last told.
THEOREM AddressCorrect ==
  ASSUME OneAtATime
  PROVE  ToldSpec => []AddressIsHeard
<1>1. HeardInv => AddressIsHeard
  BY DEF HeardInv, AddressIsKnownFromHearing, AddressIsHeard
<1> QED
  BY <1>1, HeardInvariance, PTL

\* When no command is pending no frame is on its way that the next command
\* could take for its answer (frames carry no number that would tell).
THEOREM QuietCorrect ==
  ASSUME OneAtATime
  PROVE  ToldSpec => []IdleIsQuiet
<1>1. HeardInv => IdleIsQuiet
  BY IdleMeansQuiet DEF IdleIsQuiet, Frames
<1> QED
  BY <1>1, HeardInvariance, PTL

\* What was heard of a field and what is shown of it is what the module has.
LEMMA HeardMatchesUnit ==
  ASSUME HeardInv, ~pending.active, NEW x \in Fields \ stale, heard[x] # UNKNOWN
  PROVE  heard[x] = unit[x] /\ Shown[x] = unit[x]
<1>1. heard[x] = unit[x]
  <2>1. Untold(rx) = {} /\ Untold(chunk) = {}
    BY IdleMeansQuiet, NothingUntold
  <2> QED
    BY <2>1 DEF HeardInv, HeardIsTrue
<1>2. CASE x = "output"
  BY <1>1, <1>2
  DEF HeardInv, OutputIsHeardOrGuessed, Guessing, HeardOutput, Shown
<1>3. CASE x = "signal"
  BY <1>1, <1>3 DEF HeardInv, SignalIsHeard, Shown
<1>4. CASE x = "address"
  BY <1>1, <1>4 DEF HeardInv, AddressIsKnownFromHearing, Shown
<1> QED
  BY <1>1, <1>2, <1>3, <1>4 DEF Fields

\* When no command is pending the window is right about the module behind the
\* port, but for the fields changed by a command whose answer was lost or,
\* all of them until they are told again, by a port opened to another module.
THEOREM WindowCorrect ==
  ASSUME OneAtATime
  PROVE  ToldSpec => []IdleMatchesUnit
<1>1. HeardInv => IdleMatchesUnit
  BY HeardMatchesUnit DEF IdleMatchesUnit
<1> QED
  BY <1>1, HeardInvariance, PTL

\* Three promises of device.h and device.c that the program breaks when
\* commands overlap or answers come late hold when neither happens: a signal
\* changes only to what was acknowledged or reported ...
THEOREM SignalChangesCorrect ==
  ASSUME OneAtATime
  PROVE  ToldSpec => SignalChangesOnAck
<1>1. HeardInv' => (state'.signal # state.signal => state'.signal = heard'["signal"])
  BY DEF HeardInv, SignalIsHeard
<1> QED
  BY <1>1, HeardInvariance, PTL DEF SignalChangesOnAck

\* ... an address is shown as known only once the module confirmed it ...
THEOREM KnownAddressCorrect ==
  ASSUME OneAtATime
  PROVE  ToldSpec => []KnownAddressIsConfirmed
<1>1. HeardInv => KnownAddressIsConfirmed
  BY DEF HeardInv, AddressIsKnownFromHearing, KnownAddressIsConfirmed
<1> QED
  BY <1>1, HeardInvariance, PTL

\* ... and a switch the module never answered is not left standing.
THEOREM UnansweredSwitchCorrect ==
  ASSUME OneAtATime
  PROVE  ToldSpec => []UnansweredSwitchIsUndone
<1>1. HeardInv => UnansweredSwitchIsUndone
  BY DEF HeardInv, OutputIsHeardOrGuessed, Guessing, HeardOutput,
         UnansweredSwitchIsUndone
<1> QED
  BY <1>1, HeardInvariance, PTL

-----------------------------------------------------------------------------
(* The program keeps the promise of device.h *)

\* What View calls shown.
PromisedShown ==
  [Shown EXCEPT !.address = IF state.address_known THEN @ ELSE UNKNOWN]

LEMMA PromisedFields ==
  PromisedShown = [output |-> state.output_on, signal |-> state.signal,
                   address |-> IF state.address_known THEN state.address
                                                      ELSE UNKNOWN]
BY DEF PromisedShown, Shown

LEMMA ShownForFields ==
  ASSUME NEW h \in Promise!Heard
  PROVE  Promise!ShownFor(h) =
           [output |-> IF h.output = UNKNOWN THEN FALSE ELSE h.output,
            signal |-> h.signal, address |-> h.address]
<1> DEFINE output == IF h.output = UNKNOWN THEN FALSE ELSE h.output
<1>1. Promise!ShownFor(h) = [h EXCEPT !.output = output]
  BY DEF Promise!ShownFor
<1> HIDE DEF output
<1>2. [h EXCEPT !.output = output] =
        [output |-> output, signal |-> h.signal, address |-> h.address]
  BY DEF Promise!Heard
<1> QED
  BY <1>1, <1>2 DEF output

\* With no guess shown the window shows what was heard.
ShownIsHeard == ~Guessing => PromisedShown = Promise!ShownFor(heard)

LEMMA ShownWithoutGuess == HeardInv => ShownIsHeard
<1> SUFFICES ASSUME HeardInv, ~Guessing
             PROVE  PromisedShown = Promise!ShownFor(heard)
  BY DEF ShownIsHeard
<1>1. heard \in Promise!Heard
  BY DEF HeardInv, HeardTypeOK
<1>2. Promise!ShownFor(heard) =
        [output |-> HeardOutput, signal |-> heard["signal"],
         address |-> heard["address"]]
  BY <1>1, ShownForFields DEF HeardOutput
<1>3. /\ HeardOutput = state.output_on /\ state.signal = heard["signal"]
      /\ IF state.address_known THEN state.address = heard["address"]
                                ELSE heard["address"] = UNKNOWN
  BY DEF HeardInv, OutputIsHeardOrGuessed, SignalIsHeard,
         AddressIsKnownFromHearing
<1> QED
  BY <1>2, <1>3, PromisedFields

\* The first state of the program is one of the promise.
LEMMA InitKeepsPromise == ToldInit => Promise!Init
<1> SUFFICES ASSUME ToldInit PROVE Promise!Init
  OBVIOUS
<1>1. ~Guessing
  BY DEF ToldInit, Init, DeviceInit, NoPending, Guessing
<1>2. PromisedShown = Promise!ShownFor(heard)
  BY <1>1, InitHeardInv, ShownWithoutGuess DEF ShownIsHeard
<1> QED
  BY <1>1, <1>2, NothingHeard DEF Promise!Init, Guessing, PromisedShown

\* A frame that is handled is the module speaking.
LEMMA HearingIsHear ==
  ASSUME HeardInv', HearFrame, ShownIsHeard'
  PROVE  Promise!Hear
<1>1. ~pending'.active
  BY DEF HearFrame, TimerFrame, DeviceOnFrame, CancelPending, NoPending
<1> QED
  BY <1>1
  DEF Promise!Hear, PromisedShown, HeardInv, HeardTypeOK, Promise!ShownFor,
      ShownIsHeard, Guessing

\* The program's part of View's variables.
promiseVars == <<heard, Guessing, PromisedShown>>

\* Switching the output is a guess, if the command could be sent.
LEMMA SwitchIsGuess ==
  ASSUME OneAtATime, Inv, TurnOutput, UNCHANGED toldVars
  PROVE  Promise!Guess \/ UNCHANGED promiseVars
<1>1. PICK on \in BOOLEAN : Command(DeviceSendOutput(on))
  BY DEF TurnOutput
<1>2. ~pending.active /\ heard' = heard
  BY <1>1 DEF Command, MayCommand, OneAtATime, toldVars
<1>3. CASE UNCHANGED <<state, pending>>
  BY <1>2, <1>3, PromisedFields DEF promiseVars, Guessing, PromisedShown, Shown
<1>4. CASE /\ state' = [state EXCEPT !.output_on = on]
           /\ SetPending("OUTPUT", on, state.output_on)
  <2>1. /\ state'.output_on = on /\ state'.signal = state.signal
        /\ state'.address = state.address
        /\ state'.address_known = state.address_known
    BY <1>4 DEF Inv, TypeOK, DeviceTypeOK, States
  <2>2. PromisedShown' = [PromisedShown EXCEPT !.output = on]
    <3>1. PromisedShown' =
            [output |-> state'.output_on, signal |-> state'.signal,
             address |-> IF state'.address_known THEN state'.address ELSE UNKNOWN]
      BY DEF PromisedShown, Shown
    <3> QED
      BY <2>1, <3>1, PromisedFields
  <2>3. ~Guessing /\ Guessing'
    BY <1>2, <1>4 DEF Guessing, SetPending
  <2> QED
    BY <1>2, <2>2, <2>3 DEF Promise!Guess, Guessing, PromisedShown
<1> QED
  BY <1>1, <1>3, <1>4 DEF Command, DeviceSendOutput

\* A switch that times out is given up; another command's end, or none, is
\* no step of the promise.
LEMMA TimeoutIsGiveUp ==
  ASSUME Inv, TimerTimeout, UNCHANGED toldVars, ShownIsHeard'
  PROVE  Promise!GiveUp \/ UNCHANGED promiseVars
<1>1. heard' = heard
  BY DEF toldVars
<1>2. CASE UNCHANGED <<state, pending>>
  BY <1>1, <1>2 DEF promiseVars, Guessing, PromisedShown, Shown
<1>3. CASE TimedOut
  <2>1. ~pending'.active /\ state' = RevertedState
    BY <1>3 DEF TimerTimeout, DevicePollTimeout, CancelPending, NoPending
  <2>2. CASE Guessing
    BY <1>1, <2>1, <2>2
    DEF Promise!GiveUp, Promise!ShownFor, Guessing, PromisedShown, ShownIsHeard
  <2>3. CASE ~Guessing
    <3>1. state' = state
      BY <1>3, <2>1, <2>3 DEF RevertedState, Guessing, TimedOut
    <3> QED
      BY <1>1, <2>1, <2>3, <3>1 DEF promiseVars, Guessing, PromisedShown, Shown
  <2> QED
    BY <2>2, <2>3
<1> QED
  BY <1>2, <1>3 DEF TimerTimeout, DevicePollTimeout

\* No other step changes what is heard, guessed or shown.
LEMMA OthersShowNothing ==
  ASSUME OneAtATime, Inv,
         \/ LoseQueue \/ Obey \/ UNCHANGED allVars
         \/ OtherSteps /\ ~TurnOutput /\ ~TimerTimeout
  PROVE  UNCHANGED promiseVars
<1>1. heard' = heard
  BY DEF LoseQueue, Obey, OtherSteps, toldVars, allVars
<1>2. CASE LoseQueue
  <2>1. /\ pending' = pending
        /\ state'.output_on = state.output_on /\ state'.signal = state.signal
        /\ state'.address = state.address
        /\ state'.address_known = state.address_known
    BY <1>2
    DEF LoseQueue, Connect, ConnectRetry, Disconnect, CloseWindow,
        PortOpened, DeviceOnConnectedChanged, Inv, TypeOK, DeviceTypeOK, States
  <2> QED
    BY <1>1, <2>1 DEF promiseVars, Guessing, PromisedShown, Shown
<1>3. CASE AnyCommand /\ ~TurnOutput
  <2>1. ~pending.active /\ state' = state
    BY <1>3
    DEF AnyCommand, ApplySignal, ReadStatus, QueryAddress, SetAddress, Command,
        DeviceApplySignalSettings, DeviceReadStatus, DeviceQueryAddress,
        DeviceSetAddress, DeviceSend, MayCommand, OneAtATime
  <2>2. ~Guessing'
    BY <1>3, <2>1
    DEF AnyCommand, ApplySignal, ReadStatus, QueryAddress, SetAddress, Command,
        DeviceApplySignalSettings, DeviceReadStatus, DeviceQueryAddress,
        DeviceSetAddress, DeviceSend, SetPending, Guessing
  <2> QED
    BY <1>1, <2>1, <2>2 DEF promiseVars, Guessing, PromisedShown, Shown
<1>4. CASE UNCHANGED <<state, pending>>
  BY <1>1, <1>4 DEF promiseVars, Guessing, PromisedShown, Shown
<1>5. CASE Obey \/ UnitIgnores \/ UnitRejects \/ UnitReports
  BY <1>4, <1>5
  DEF Obey, UnitAccepts, UnitIgnores, UnitRejects, UnitReports, Answer, deviceVars
<1>6. CASE TimerPoll \/ ClockTick \/ UNCHANGED allVars
  BY <1>4, <1>6 DEF TimerPoll, ClockTick, deviceVars, allVars, vars
<1> QED
  BY <1>2, <1>3, <1>5, <1>6 DEF OtherSteps

\* Every step of the program is one of the promise or none.
LEMMA NextKeepsPromise ==
  ASSUME OneAtATime, Inv, HeardInv', ShownIsHeard', [ToldNext]_allVars
  PROVE  [Promise!Next]_Promise!vars
<1>1. CASE HearFrame
  BY <1>1, HearingIsHear DEF Promise!Next
<1>2. UNCHANGED promiseVars => UNCHANGED Promise!vars
  BY DEF promiseVars, Promise!vars, Guessing, PromisedShown
<1>3. CASE TurnOutput /\ UNCHANGED toldVars
  BY <1>2, <1>3, SwitchIsGuess DEF Promise!Next
<1>4. CASE TimerTimeout /\ UNCHANGED toldVars
  BY <1>2, <1>4, TimeoutIsGiveUp DEF Promise!Next
<1>5. CASE ~HearFrame /\ ~(TurnOutput /\ UNCHANGED toldVars)
           /\ ~(TimerTimeout /\ UNCHANGED toldVars)
  BY <1>2, <1>5, OthersShowNothing DEF ToldNext, OtherSteps
<1> QED
  BY <1>1, <1>3, <1>4, <1>5

\* The program implements View, the promise of device.h's head comment: each
\* frame handled is the module speaking, each switch sent a guess, each
\* switch timed out a guess given up, and every other step shows nothing new.
THEOREM PromiseKept ==
  ASSUME OneAtATime
  PROVE  ToldSpec => KeepsPromise
<1>1. ToldInit => Promise!Init
  BY InitKeepsPromise
<1>2. Inv /\ HeardInv' /\ ShownIsHeard' /\ [ToldNext]_allVars
        => [Promise!Next]_Promise!vars
  BY NextKeepsPromise
<1> QED
  BY <1>1, <1>2, ShownWithoutGuess, HeardInvariance, PTL
  DEF ToldSpec, KeepsPromise, Promise!Spec

=============================================================================
