--------------------------- MODULE MCFrameParser ---------------------------
(***************************************************************************)
(* Instances of FrameParser for TLC.                                       *)
(***************************************************************************)
EXTENDS FrameParser

Bytes2Frame(b) == [type |-> b[3], addr |-> b[4], payload |-> SubSeq(b, 6, Len(b) - 2)]

\* Replies of the module, among them those whose bytes look most like the
\* delimiters: address 126 is 0x7E, 10 and 13 the bytes of STOP.
Ack == FrameBuild(OUTPUT_SWITCH, 5, <<RESP_SUCCESS>>)
Nak == FrameBuild(SIGNAL_CONTROL, 10, <<RESP_FAILED>>)
AddressReply == FrameBuild(ADDR_QUERY, 126, <<126>>)
StatusReply == FrameBuild(STATUS_QUERY, 13, <<1, 0, 10, 13, 3, 1>>)

Replies == {Ack, Nak, AddressReply, StatusReply}

StreamOf(before, replies) ==
  [bytes |-> before \o FlattenSeq(replies),
   frames |-> [i \in DOMAIN replies |-> Bytes2Frame(replies[i])]]

\* Up to two replies, the first perhaps preceded by the end of one whose
\* beginning was lost (the port was opened in the middle of it).
Tails == {SubSeq(r, i, Len(r)) : r \in Replies, i \in 2 .. 14}

Fragments == Tails \cup {<<>>}

CutStreams == {StreamOf(t, rs) : t \in Fragments, rs \in SeqOf(Replies, 2)}

\* They are the streams the theorems about FrameParser speak of.
StartsOf(before, replies) ==
  [i \in 1 .. Len(replies) + 1 |->
     Len(before) + 1 + Len(FlattenSeq(SubSeq(replies, 1, i - 1)))]

ASSUME CutStreamsAreClean ==
  BufSize >= 16 /\ PayloadMax >= 8 =>
    \A t \in Fragments, rs \in SeqOf(Replies, 2) :
      CleanAt(StreamOf(t, rs), StartsOf(t, rs))

\* A reply of which one byte was lost or changed on the line (9 claims the
\* longest payload that fits the buffer, 255 one that does not), and five
\* good replies after it.
OneByteWrong(r) ==
  {RemoveAt(r, i) : i \in DOMAIN r}
    \cup {[r EXCEPT ![i] = b] : i \in DOMAIN r, b \in {0, 9, HEAD, 255}}

FiveReplies == [i \in 1 .. 5 |-> FrameBuild(OUTPUT_SWITCH, i, <<RESP_SUCCESS>>)]

WrongReplies == UNION {OneByteWrong(r) : r \in Replies}

NoisyStreams == {StreamOf(d, FiveReplies) : d \in WrongReplies}

\* They are the streams the theorem about damage speaks of, and the buffer of
\* the instance is a number of replies long, as that of the code is.
ASSUME NoisyStreamsAreDamaged ==
  /\ BufSize % ReplyLen = 0
  /\ \A d \in WrongReplies :
       DamagedAt(StreamOf(d, FiveReplies), StartsOf(d, FiveReplies))

\* A reply behind a byte or two of noise that is no head.
Garbage == SeqOf({0, HEAD, 255}, 2) \ {<<HEAD, HEAD>>}

GarbageStreams == {StreamOf(g, <<Ack>>) : g \in Garbage}

=============================================================================
