----------------------------- MODULE FrameParser -----------------------------
(***************************************************************************)
(* ProtoParser: bytes go in by chunks of whatever the driver has, frames   *)
(* come out through on_frame.  One step is one turn of the outer loop of   *)
(* proto_parser_feed (a copy into the buffer) or one call of               *)
(* proto_try_extract_one.                                                  *)
(***************************************************************************)
EXTENDS Protocol, SequencesExt

CONSTANTS
  BufSize,      \* PROTO_PARSE_BUF_SIZE
  PayloadMax,   \* sizeof ProtoParsedFrame.buf
  ChunkSizes,   \* how many bytes a ReadFile may return
  Streams       \* what a connection may bring: [bytes, frames] records of
                \* the bytes that come and the frames the module sent in them

Frame == [type : Bytes, addr : Bytes, payload : Seq(Bytes)]

ASSUME ParserAssumption ==
  /\ BufSize \in Nat /\ BufSize >= 8
  /\ PayloadMax \in Nat
  /\ ChunkSizes \subseteq Nat \ {0}
  /\ Streams \subseteq [bytes : Seq(Bytes), frames : Seq(Frame)]

VARIABLES
  buf,    \* ProtoParser.buf up to ProtoParser.len
  data,   \* the bytes of this call of proto_parser_feed still to be copied
  pc,     \* "idle", "fill" or "extract"
  line,   \* the bytes still to come
  sent,   \* the frames in the stream of this connection
  heard   \* the frames given to on_frame on this connection

vars == <<buf, data, pc, line, sent, heard>>

From(s, i) == SubSeq(s, i, Len(s))

\* What proto_parser_init leaves in the buffer.
ParserInit == <<>>

Init ==
  /\ buf = ParserInit
  /\ data = <<>> /\ pc = "idle"
  /\ \E s \in Streams : line = s.bytes /\ sent = s.frames
  /\ heard = <<>>

\* conn_connect after a disconnect that did not reset the parser.
ReopenAsItWas ==
  /\ pc = "idle"
  /\ \E s \in Streams : line' = s.bytes /\ sent' = s.frames
  /\ heard' = <<>>
  /\ UNCHANGED <<buf, data, pc>>

\* conn_connect: a new connection, with an empty parser.
Reopen ==
  /\ pc = "idle"
  /\ buf' = ParserInit
  /\ \E s \in Streams : line' = s.bytes /\ sent' = s.frames
  /\ heard' = <<>>
  /\ UNCHANGED <<data, pc>>

\* conn_poll hands the parser what ReadFile returned.
Read ==
  /\ pc = "idle" /\ line # <<>>
  /\ \E n \in ChunkSizes :
       LET k == Min({n, Len(line)}) IN
         data' = SubSeq(line, 1, k) /\ line' = From(line, k + 1)
  /\ pc' = "fill"
  /\ UNCHANGED <<buf, sent, heard>>

\* The copy of a whole chunk, whatever room there is.
FillPastEnd ==
  /\ pc = "fill"
  /\ buf' = buf \o data
  /\ data' = <<>>
  /\ pc' = "extract"
  /\ UNCHANGED <<line, sent, heard>>

\* The copy without making room first.
FillAsItIs ==
  /\ pc = "fill"
  /\ LET take == Min({BufSize - Len(buf), Len(data)})
     IN /\ buf' = buf \o SubSeq(data, 1, take)
        /\ data' = From(data, take + 1)
  /\ pc' = "extract"
  /\ UNCHANGED <<line, sent, heard>>

\* The copy after dropping the younger half of a full buffer.
FillDropsYounger ==
  /\ pc = "fill"
  /\ LET kept == IF Len(buf) = BufSize THEN SubSeq(buf, 1, BufSize \div 2)
                                       ELSE buf
         take == Min({BufSize - Len(kept), Len(data)})
     IN /\ buf' = kept \o SubSeq(data, 1, take)
        /\ data' = From(data, take + 1)
  /\ pc' = "extract"
  /\ UNCHANGED <<line, sent, heard>>

\* The outer loop: a full buffer loses its older half, then as much of the
\* chunk as fits is copied.
Fill ==
  /\ pc = "fill"
  /\ LET kept == IF Len(buf) = BufSize THEN From(buf, BufSize \div 2 + 1)
                                       ELSE buf
         take == Min({BufSize - Len(kept), Len(data)})
     IN /\ buf' = kept \o SubSeq(data, 1, take)
        /\ data' = From(data, take + 1)
  /\ pc' = "extract"
  /\ UNCHANGED <<line, sent, heard>>

-----------------------------------------------------------------------------
(* proto_try_extract_one *)

Heads == {i \in 1 .. Len(buf) - 1 : buf[i] = HEAD /\ buf[i + 1] = HEAD}

\* The buffer from the first head on.
AtHead == From(buf, Min(Heads))

TotalLen(b) == 5 + b[5] + 2

Complete(b) == Len(b) >= 5 /\ Len(b) >= TotalLen(b)

StopIsRight(b) == SubSeq(b, TotalLen(b) - 1, TotalLen(b)) = STOP

\* false ends the inner loop: the next copy, or the end of the call.
NoFrame ==
  /\ pc = "extract"
  /\ pc' = IF data = <<>> THEN "idle" ELSE "fill"
  /\ UNCHANGED <<data, line, sent, heard>>

\* Without a head all but the last byte is garbage.
NoHead ==
  /\ NoFrame
  /\ Heads = {}
  /\ buf' = IF buf = <<>> THEN buf ELSE From(buf, Len(buf))

Incomplete ==
  /\ NoFrame
  /\ Heads # {}
  /\ ~Complete(AtHead)
  /\ buf' = AtHead

\* The head was none: it is dropped, and the rest is left for a later call.
BadStop ==
  /\ NoFrame
  /\ Heads # {}
  /\ Complete(AtHead) /\ ~StopIsRight(AtHead)
  /\ buf' = From(AtHead, 3)

\* A frame that drops its stop together with everything behind it.
TakeFrameAndRest ==
  /\ pc = "extract"
  /\ Heads # {}
  /\ Complete(AtHead) /\ StopIsRight(AtHead)
  /\ heard' = Append(heard, [type |-> AtHead[3], addr |-> AtHead[4],
                             payload |-> SubSeq(AtHead, 6, 5 + Min({AtHead[5], PayloadMax}))])
  /\ buf' = <<>>
  /\ UNCHANGED <<data, pc, line, sent>>

\* true: on_frame gets the frame, its payload cut to what the record holds.
TakeFrame ==
  /\ pc = "extract"
  /\ Heads # {}
  /\ Complete(AtHead) /\ StopIsRight(AtHead)
  /\ heard' = Append(heard, [type |-> AtHead[3], addr |-> AtHead[4],
                             payload |-> SubSeq(AtHead, 6, 5 + Min({AtHead[5], PayloadMax}))])
  /\ buf' = From(AtHead, TotalLen(AtHead) + 1)
  /\ UNCHANGED <<data, pc, line, sent>>

-----------------------------------------------------------------------------

Feed == Fill \/ NoHead \/ Incomplete \/ BadStop \/ TakeFrame

Next == Read \/ Feed \/ Reopen

Spec == Init /\ [][Next]_vars

\* The timer keeps reading and a call that started goes on; nobody owes the
\* program a new connection.
FairSpec == Spec /\ WF_vars(Read \/ Feed)

-----------------------------------------------------------------------------
(* Streams on which nothing was lost *)

HeadAt(bytes, i) == i < Len(bytes) /\ bytes[i] = HEAD /\ bytes[i + 1] = HEAD

FrameEnd(frame) == 7 + Len(frame.payload)

\* The bytes from i on are those of the frame.
FrameAt(bytes, i, frame) ==
  /\ i + FrameEnd(frame) <= Len(bytes) + 1
  /\ SubSeq(bytes, i, i + FrameEnd(frame) - 1)
       = FrameBuild(frame.type, frame.addr, frame.payload)

\* Where the frames after the first n begin in the bytes, one behind the other
\* in their order, and where the last one ends, with the bytes.
Adjoin(bytes, frames, n, at) ==
  /\ at \in [n + 1 .. Len(frames) + 1 -> 1 .. Len(bytes) + 1]
  /\ \A i, j \in n + 1 .. Len(frames) + 1 : i <= j => at[i] <= at[j]
  /\ \A i \in n + 1 .. Len(frames) :
       /\ FrameAt(bytes, at[i], frames[i])
       /\ at[i + 1] = at[i] + FrameEnd(frames[i])
  /\ at[Len(frames) + 1] = Len(bytes) + 1

\* What is left of the bytes when n of the frames are gone: perhaps the end of
\* something, in which no head is, then the other frames.
Whole(bytes, frames, n, at) ==
  /\ Adjoin(bytes, frames, n, at)
  /\ \A i \in 1 .. at[n + 1] - 1 : ~HeadAt(bytes, i)

\* The frame fits into the buffer and into the record of on_frame.
Fits(frame) == FrameEnd(frame) <= BufSize /\ Len(frame.payload) <= PayloadMax

CleanAt(s, at) ==
  Whole(s.bytes, s.frames, 0, at) /\ \A i \in DOMAIN s.frames : Fits(s.frames[i])

\* A stream on which nothing was lost and nothing is too long.
Clean(s) == \E at : CleanAt(s, at)

\* The shortest reply: a head, a type, an address, a length, a code, a stop.
ReplyLen == 8

\* From the first of the frames on, a head is the head of one of them.
OwnHeads(bytes, frames, at) ==
  \A i \in at[1] .. Len(bytes) :
    HeadAt(bytes, i) => \E j \in 1 .. Len(frames) : i = at[j]

\* A stream on which only replies came after some point; what came before is
\* any bytes at all.
DamagedAt(s, at) ==
  /\ Adjoin(s.bytes, s.frames, 0, at)
  /\ OwnHeads(s.bytes, s.frames, at)
  /\ \A i \in DOMAIN s.frames :
       Fits(s.frames[i]) /\ FrameEnd(s.frames[i]) >= ReplyLen

Damaged(s) == \E at : DamagedAt(s, at)

-----------------------------------------------------------------------------
(* Properties *)

\* The buffer never holds more than its array, and between calls nothing of
\* a chunk is left.
TypeOK ==
  /\ buf \in Seq(Bytes) /\ Len(buf) <= BufSize
  /\ data \in Seq(Bytes) /\ line \in Seq(Bytes)
  /\ pc \in {"idle", "fill", "extract"}
  /\ pc = "idle" => data = <<>>
  /\ heard \in Seq(Frame) /\ sent \in Seq(Frame)

\* Parsing implements the stream of frames: FrameStream's promise holds of
\* the frames given to on_frame.
Delivered == INSTANCE FrameStream WITH due <- sent, got <- heard

FramesAreDelivered == Delivered!Spec

\* Once every byte has been read and the call has returned, every frame that
\* was sent has been handled: none waits in the buffer for bytes that will
\* not come.
NothingIsHeldBack == pc = "idle" /\ line = <<>> => heard = sent

\* A damaged reply costs at most the replies the buffer can hold: once the
\* bytes of all of them were read, those that came later were handled, in
\* order, whatever length the damaged one claimed.
DamageIsBounded ==
  pc = "idle" /\ line = <<>> => IsSuffix(From(sent, BufSize \div ReplyLen + 1), heard)

\* Every call of proto_parser_feed ends, whatever the bytes are.
FeedReturns == []<>(pc = "idle")

=============================================================================
