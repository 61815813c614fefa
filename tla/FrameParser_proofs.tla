-------------------------- MODULE FrameParser_proofs --------------------------
(***************************************************************************)
(* Theorems about FrameParser, for every size of buffer and record, every  *)
(* way the driver may cut the bytes and every stream: that the buffer is   *)
(* never left; on a connection on which nothing is lost, that the frames   *)
(* sent are the frames given to on_frame; and on one that begins with any  *)
(* bytes at all, how many of the frames that follow them may be lost.      *)
(***************************************************************************)
EXTENDS FrameParser, ListFacts

-----------------------------------------------------------------------------
(* The copy and the types *)

\* One turn of the outer loop: a room of at least half a buffer is made, and
\* filled as far as there are bytes.
LEMMA FillTypes ==
  ASSUME TypeOK, Fill
  PROVE  /\ buf' \in Seq(Bytes) /\ Len(buf') <= BufSize
         /\ data' \in Seq(Bytes)
<1> DEFINE kept == IF Len(buf) = BufSize THEN From(buf, BufSize \div 2 + 1) ELSE buf
           take == Min({BufSize - Len(kept), Len(data)})
           copied == SubSeq(data, 1, take)
<1>1. buf' = kept \o copied /\ data' = From(data, take + 1)
  BY DEF Fill
<1>2. kept \in Seq(Bytes) /\ Len(kept) <= BufSize /\ Len(kept) \in Nat
  <2>1. CASE Len(buf) = BufSize
    <3>1. BufSize \div 2 \in 0 .. BufSize
      BY ParserAssumption
    <3>2. From(buf, BufSize \div 2 + 1) \in Seq(Bytes)
          /\ Len(From(buf, BufSize \div 2 + 1)) = BufSize - BufSize \div 2
      BY <2>1, <3>1, RestFacts DEF From, TypeOK
    <3> QED
      BY <2>1, <3>1, <3>2, ParserAssumption
  <2>2. CASE Len(buf) # BufSize
    BY <2>2, LenProperties DEF TypeOK
  <2> QED
    BY <2>1, <2>2
<1>3. take \in 0 .. Len(data) /\ Len(kept) + take <= BufSize
  <2> HIDE DEF kept
  <2>1. Len(data) \in Nat /\ BufSize - Len(kept) \in Nat
    BY <1>2, ParserAssumption, LenProperties DEF TypeOK
  <2>2. take = IF BufSize - Len(kept) <= Len(data) THEN BufSize - Len(kept)
                                                   ELSE Len(data)
    BY <2>1, MinOfTwo
  <2> HIDE DEF take
  <2> QED
    BY <1>2, <2>1, <2>2, ParserAssumption
<1> HIDE DEF kept, take
<1>4. copied \in Seq(Bytes) /\ Len(copied) = take
  BY <1>3, FirstFacts DEF TypeOK
<1>5. From(data, take + 1) \in Seq(Bytes)
  BY <1>3, RestFacts DEF From, TypeOK
<1> HIDE DEF copied
<1>6. kept \o copied \in Seq(Bytes) /\ Len(kept \o copied) = Len(kept) + Len(copied)
  BY <1>2, <1>4, ConcatProperties
<1> QED
  BY <1>1, <1>3, <1>4, <1>5, <1>6

\* The first head of the buffer, and the buffer from there on.
LEMMA FirstHead ==
  ASSUME TypeOK, Heads # {}
  PROVE  /\ Min(Heads) \in 1 .. Len(buf) - 1 /\ Min(Heads) \in Heads
         /\ AtHead \in Seq(Bytes)
         /\ Len(AtHead) = Len(buf) - (Min(Heads) - 1)
         /\ Len(AtHead) \in Nat /\ Len(AtHead) >= 2
         /\ \A i \in 1 .. Len(AtHead) : AtHead[i] = buf[i + (Min(Heads) - 1)]
<1>1. Heads \in SUBSET Nat /\ Heads \subseteq 1 .. Len(buf) - 1
  BY LenProperties DEF Heads, TypeOK
<1>2. Min(Heads) \in Heads
  BY <1>1, MinOfSet
<1> DEFINE h == Min(Heads)
           d == h - 1
<1>3. h \in 1 .. Len(buf) - 1 /\ h \in Heads /\ Len(buf) \in Nat
  BY <1>1, <1>2, LenProperties DEF TypeOK
<1>4. AtHead = SubSeq(buf, h, Len(buf))
  BY DEF AtHead, From
<1> HIDE DEF h
<1>5. d \in 0 .. Len(buf) /\ d + 1 = h
  BY <1>3
<1> HIDE DEF d
<1>6. /\ AtHead \in Seq(Bytes) /\ Len(AtHead) = Len(buf) - d
      /\ \A i \in 1 .. Len(AtHead) : AtHead[i] = buf[i + d]
  BY <1>4, <1>5, RestFacts DEF TypeOK
<1>7. Len(AtHead) \in Nat /\ Len(AtHead) >= 2
  BY <1>3, <1>5, <1>6
<1> QED
  BY <1>3, <1>6, <1>7 DEF d, h

\* The bytes of the head frame where the rest of the buffer may begin.
LEMMA RestOfHead ==
  ASSUME TypeOK, Heads # {}, NEW d \in Nat, d <= Len(AtHead)
  PROVE  /\ From(AtHead, d + 1) \in Seq(Bytes)
         /\ Len(From(AtHead, d + 1)) = Len(AtHead) - d
         /\ \A i \in 1 .. Len(AtHead) - d : From(AtHead, d + 1)[i] = AtHead[i + d]
<1>1. AtHead \in Seq(Bytes) /\ d \in 0 .. Len(AtHead)
  BY FirstHead
<1> QED
  BY <1>1, RestFacts DEF From

\* A complete frame: its length byte says how far it goes.
LEMMA CompleteHead ==
  ASSUME TypeOK, Heads # {}, Complete(AtHead)
  PROVE  /\ Len(AtHead) >= 5 /\ AtHead[5] \in Nat /\ AtHead[5] \in Bytes
         /\ TotalLen(AtHead) = AtHead[5] + 7 /\ TotalLen(AtHead) <= Len(AtHead)
<1>1. AtHead \in Seq(Bytes) /\ Len(AtHead) \in Nat /\ Len(AtHead) >= 5
  BY FirstHead DEF Complete
<1>2. 5 \in 1 .. Len(AtHead)
  BY <1>1
<1>3. AtHead[5] \in Bytes
  BY <1>1, <1>2, ElementOfSeq
<1>4. AtHead[5] \in Nat
  BY <1>3 DEF Bytes
<1> QED
  BY <1>1, <1>3, <1>4 DEF Complete, TotalLen

\* What on_frame is given.
LEMMA FrameOfHead ==
  ASSUME TypeOK, Heads # {}, Complete(AtHead)
  PROVE  LET n == AtHead[5]
             m == Min({n, PayloadMax})
             payload == SubSeq(AtHead, 6, 5 + m)
         IN  /\ [type |-> AtHead[3], addr |-> AtHead[4], payload |-> payload] \in Frame
             /\ m = IF n <= PayloadMax THEN n ELSE PayloadMax
             /\ Len(payload) = m /\ payload \in Seq(Bytes)
             /\ \A i \in 1 .. m : payload[i] = AtHead[5 + i]
<1> DEFINE n == AtHead[5]
           m == Min({n, PayloadMax})
           payload == SubSeq(AtHead, 6, 5 + m)
<1>1. /\ AtHead \in Seq(Bytes) /\ Len(AtHead) \in Nat /\ n \in Nat
      /\ n + 7 <= Len(AtHead)
  BY FirstHead, CompleteHead
<1>2. AtHead[3] \in Bytes /\ AtHead[4] \in Bytes
  BY <1>1, ElementOfSeq
<1>3. m = IF n <= PayloadMax THEN n ELSE PayloadMax
  BY <1>1, MinOfTwo, ParserAssumption
<1> HIDE DEF n
<1>4. m \in Nat /\ m + 7 <= Len(AtHead)
  BY <1>1, <1>3, ParserAssumption
<1> HIDE DEF m
<1>5. \A i \in 6 .. 5 + m : AtHead[i] \in Bytes
  BY <1>1, <1>4, ElementOfSeq
<1>6. /\ payload \in Seq(Bytes) /\ Len(payload) = m
      /\ \A i \in 1 .. m : payload[i] = AtHead[5 + i]
  BY <1>4, <1>5, SubSeqProperties
<1> HIDE DEF payload
<1>7. [type |-> AtHead[3], addr |-> AtHead[4], payload |-> payload] \in Frame
  BY <1>2, <1>6 DEF Frame
<1> QED
  BY <1>3, <1>6, <1>7 DEF payload, m, n

LEMMA InitTypeOK == Init => TypeOK
BY ParserAssumption, EmptySeq DEF Init, TypeOK, ParserInit

LEMMA NextTypeOK == TypeOK /\ [Next]_vars => TypeOK'
<1> SUFFICES ASSUME TypeOK, [Next]_vars PROVE TypeOK'
  OBVIOUS
<1> DEFINE shorter == buf' \in Seq(Bytes) /\ Len(buf') <= BufSize
<1>1. CASE Read
  <2>1. PICK n \in ChunkSizes :
          /\ data' = SubSeq(line, 1, Min({n, Len(line)}))
          /\ line' = From(line, Min({n, Len(line)}) + 1)
    BY <1>1 DEF Read
  <2>2. Min({n, Len(line)}) \in 0 .. Len(line)
    <3>1. n \in Nat /\ Len(line) \in Nat
      BY ParserAssumption, LenProperties DEF TypeOK
    <3> QED
      BY <3>1, MinOfTwo
  <2>3. data' \in Seq(Bytes) /\ line' \in Seq(Bytes)
    BY <2>1, <2>2, FirstFacts, RestFacts DEF TypeOK, From
  <2> QED
    BY <1>1, <2>3 DEF Read, TypeOK
<1>2. CASE Fill
  BY <1>2, FillTypes DEF Fill, TypeOK
<1>3. ASSUME NoFrame, shorter PROVE TypeOK'
  BY <1>3 DEF NoFrame, TypeOK
<1>4. CASE NoHead
  <2>1. ASSUME buf = <<>> PROVE shorter
    BY <1>4, <2>1 DEF NoHead, TypeOK
  <2>2. ASSUME buf # <<>> PROVE shorter
    <3>1. Len(buf) \in Nat \ {0} /\ Len(buf) - 1 \in 0 .. Len(buf)
      BY <2>2, EmptySeq DEF TypeOK
    <3>2. buf' = SubSeq(buf, (Len(buf) - 1) + 1, Len(buf))
      BY <1>4, <2>2, <3>1 DEF NoHead, From
    <3>3. buf' \in Seq(Bytes) /\ Len(buf') = Len(buf) - (Len(buf) - 1)
      BY <3>1, <3>2, RestFacts DEF TypeOK
    <3> QED
      BY <3>1, <3>3, ParserAssumption
  <2>3. shorter
    BY <2>1, <2>2
  <2> QED
    BY <1>3, <1>4, <2>3 DEF NoHead
<1>head. ASSUME Heads # {}
         PROVE  AtHead \in Seq(Bytes) /\ Len(AtHead) \in 2 .. BufSize
  <2>1. /\ AtHead \in Seq(Bytes) /\ Len(AtHead) \in Nat /\ Len(AtHead) >= 2
        /\ Min(Heads) \in 1 .. Len(buf) - 1
        /\ Len(AtHead) = Len(buf) - (Min(Heads) - 1)
    BY <1>head, FirstHead
  <2>2. Len(buf) \in Nat /\ Len(buf) <= BufSize
    BY LenProperties DEF TypeOK
  <2> QED
    BY <2>1, <2>2, ParserAssumption
<1>5. CASE Incomplete
  <2>1. shorter
    BY <1>5, <1>head, ParserAssumption DEF Incomplete
  <2> QED
    BY <1>3, <1>5, <2>1 DEF Incomplete
<1>6. CASE BadStop
  <2>1. buf' \in Seq(Bytes) /\ Len(buf') = Len(AtHead) - 2
    BY <1>6, RestOfHead, FirstHead DEF BadStop
  <2>2. shorter
    BY <1>6, <1>head, <2>1, ParserAssumption DEF BadStop
  <2> QED
    BY <1>3, <1>6, <2>2 DEF BadStop
<1>7. CASE TakeFrame
  <2>1. heard' \in Seq(Frame)
    BY <1>7, FrameOfHead DEF TakeFrame, TypeOK
  <2>2. TotalLen(AtHead) \in Nat /\ TotalLen(AtHead) <= Len(AtHead)
    BY <1>7, CompleteHead DEF TakeFrame
  <2>3. buf' \in Seq(Bytes) /\ Len(buf') = Len(AtHead) - TotalLen(AtHead)
    BY <1>7, <2>2, RestOfHead DEF TakeFrame
  <2>4. shorter
    <3>1. Len(AtHead) <= BufSize /\ Len(AtHead) \in Nat
      BY <1>7, <1>head, ParserAssumption DEF TakeFrame
    <3> QED
      BY <2>2, <2>3, <3>1, ParserAssumption
  <2> QED
    BY <1>7, <2>1, <2>4 DEF TakeFrame, TypeOK
<1>8. CASE Reopen
  BY <1>8, ParserAssumption, EmptySeq DEF Reopen, ParserInit, TypeOK
<1>9. CASE UNCHANGED vars
  BY <1>9 DEF vars, TypeOK
<1> QED
  BY <1>1, <1>2, <1>4, <1>5, <1>6, <1>7, <1>8, <1>9 DEF Next, Feed

\* Whatever bytes come and however they are cut, proto_parser_feed never
\* writes behind the end of its buffer, and what is on the way between the
\* driver, the buffer and on_frame keeps its type.
THEOREM TypeCorrect == Spec => []TypeOK
BY InitTypeOK, NextTypeOK, PTL DEF Spec

-----------------------------------------------------------------------------
(* Frames in the stream *)

\* The bytes of a frame, one by one.
LEMMA BytesOfFrame ==
  ASSUME NEW f \in Frame
  PROVE  LET b == FrameBuild(f.type, f.addr, f.payload)
             n == Len(f.payload)
         IN  /\ n \in Nat /\ f.payload \in Seq(Bytes)
             /\ b \in Seq(Nat) /\ Len(b) = n + 7
             /\ b[1] = HEAD /\ b[2] = HEAD /\ b[3] = f.type /\ b[4] = f.addr
             /\ b[5] = n /\ \A i \in 1 .. n : b[5 + i] = f.payload[i]
             /\ b[n + 6] = 10 /\ b[n + 7] = 13
<1> DEFINE p == f.payload
           n == Len(p)
           front == <<HEAD, HEAD, f.type, f.addr, n>>
           m == front \o p
<1>1. p \in Seq(Bytes) /\ n \in Nat /\ f.type \in Bytes /\ f.addr \in Bytes
  BY DEF Frame
<1>2. Bytes \subseteq Nat /\ p \in Seq(Nat) /\ f.type \in Nat /\ f.addr \in Nat
  <2>1. Bytes \subseteq Nat
    BY DEF Bytes
  <2> QED
    BY <1>1, <2>1, SeqMonotonic
<1>3. FrameBuild(f.type, f.addr, f.payload) = m \o STOP
  BY DEF FrameBuild
<1> HIDE DEF p, n
<1>4. front \in Seq(Nat) /\ Len(front) = 5
      /\ front[1] = HEAD /\ front[2] = HEAD /\ front[3] = f.type
      /\ front[4] = f.addr /\ front[5] = n
  BY <1>1, <1>2 DEF HEAD
<1> HIDE DEF front
<1>5. m \in Seq(Nat) /\ Len(m) = 5 + n
      /\ \A i \in 1 .. 5 + n : m[i] = IF i <= 5 THEN front[i] ELSE p[i - 5]
  <2>1. /\ m \in Seq(Nat) /\ Len(m) = Len(front) + Len(p)
        /\ \A i \in 1 .. Len(front) + Len(p) :
             m[i] = IF i <= Len(front) THEN front[i] ELSE p[i - Len(front)]
    BY <1>2, <1>4, ConcatProperties
  <2>2. Len(front) = 5 /\ Len(p) = n
    BY <1>4 DEF n
  <2> HIDE DEF m
  <2> QED
    BY <2>1, <2>2
<1> HIDE DEF m
<1>6. STOP \in Seq(Nat) /\ Len(STOP) = 2 /\ STOP[1] = 10 /\ STOP[2] = 13
  BY DEF STOP
<1> DEFINE b == m \o STOP
<1>7. b \in Seq(Nat) /\ Len(b) = (5 + n) + 2
      /\ \A i \in 1 .. (5 + n) + 2 : b[i] = IF i <= 5 + n THEN m[i] ELSE STOP[i - (5 + n)]
  <2>1. /\ b \in Seq(Nat) /\ Len(b) = Len(m) + Len(STOP)
        /\ \A i \in 1 .. Len(m) + Len(STOP) :
             b[i] = IF i <= Len(m) THEN m[i] ELSE STOP[i - Len(m)]
    BY <1>5, <1>6, ConcatProperties
  <2> HIDE DEF b
  <2> QED
    BY <1>5, <1>6, <2>1
<1> HIDE DEF b
<1>8. \A i \in 1 .. 5 : b[i] = front[i]
  BY <1>1, <1>5, <1>7
<1>9. \A i \in 1 .. n : b[5 + i] = p[i]
  <2> TAKE i \in 1 .. n
  <2>1. b[5 + i] = m[5 + i]
    BY <1>1, <1>7
  <2>2. m[5 + i] = p[(5 + i) - 5] /\ (5 + i) - 5 = i
    <3>1. 5 + i \in 1 .. 5 + n /\ ~(5 + i <= 5) /\ (5 + i) - 5 = i
      BY <1>1
    <3> QED
      BY <1>5, <3>1
  <2> QED
    BY <2>1, <2>2
<1>10. b[n + 6] = 10 /\ b[n + 7] = 13
  <2>1. b[n + 6] = STOP[(n + 6) - (5 + n)] /\ (n + 6) - (5 + n) = 1
    BY <1>1, <1>7
  <2>2. b[n + 7] = STOP[(n + 7) - (5 + n)] /\ (n + 7) - (5 + n) = 2
    BY <1>1, <1>7
  <2> QED
    BY <1>6, <2>1, <2>2
<1>11. b[1] = HEAD /\ b[2] = HEAD /\ b[3] = f.type /\ b[4] = f.addr /\ b[5] = n
  BY <1>4, <1>8
<1>12. Len(b) = n + 7
  BY <1>1, <1>7
<1>13. FrameBuild(f.type, f.addr, f.payload) = b
  BY <1>3 DEF b
<1> QED
  BY <1>1, <1>7, <1>9, <1>10, <1>11, <1>12, <1>13, Zenon DEF p, n

\* A frame in a stream of bytes, one by one.
LEMMA BytesAt ==
  ASSUME NEW b \in Seq(Bytes), NEW f \in Frame, NEW k \in Nat \ {0},
         FrameAt(b, k, f)
  PROVE  LET n == Len(f.payload)
         IN  /\ n \in Nat /\ k + 6 + n <= Len(b) /\ FrameEnd(f) = 7 + n
             /\ b[k] = HEAD /\ b[k + 1] = HEAD /\ b[k + 2] = f.type
             /\ b[k + 3] = f.addr /\ b[k + 4] = n
             /\ \A i \in 1 .. n : b[k + 4 + i] = f.payload[i]
             /\ b[k + 5 + n] = 10 /\ b[k + 6 + n] = 13
<1> DEFINE n == Len(f.payload)
           w == FrameBuild(f.type, f.addr, f.payload)
<1>1. /\ n \in Nat /\ Len(w) = n + 7
      /\ w[1] = HEAD /\ w[2] = HEAD /\ w[3] = f.type /\ w[4] = f.addr
      /\ w[5] = n /\ \A i \in 1 .. n : w[5 + i] = f.payload[i]
      /\ w[n + 6] = 10 /\ w[n + 7] = 13
  BY BytesOfFrame
<1>2. FrameEnd(f) = 7 + n
  BY DEF FrameEnd
<1>3. k + (7 + n) <= Len(b) + 1 /\ SubSeq(b, k, k + (7 + n) - 1) = w
  BY <1>2 DEF FrameAt
<1> HIDE DEF n, w
<1>4. Len(b) \in Nat /\ \A i \in k .. k + (7 + n) - 1 : b[i] \in Bytes
  BY <1>1, <1>3, ElementOfSeq, LenProperties
<1>5. \A i \in 1 .. 7 + n : w[i] = b[k + i - 1]
  <2>1. k + (7 + n) - 1 \in Int /\ (k + (7 + n) - 1) - k + 1 = 7 + n
    BY <1>1
  <2>2. \A i \in 1 .. (k + (7 + n) - 1) - k + 1 :
          SubSeq(b, k, k + (7 + n) - 1)[i] = b[k + i - 1]
    BY <1>4, <2>1, SubSeqProperties
  <2> QED
    BY <1>3, <2>1, <2>2
<1>6. k + 6 + n <= Len(b)
  BY <1>1, <1>3, <1>4
<1>7. /\ b[k] = w[1] /\ b[k + 1] = w[2] /\ b[k + 2] = w[3] /\ b[k + 3] = w[4]
      /\ b[k + 4] = w[5] /\ b[k + 5 + n] = w[n + 6] /\ b[k + 6 + n] = w[n + 7]
  <2>1. k + 1 - 1 = k /\ k + 2 - 1 = k + 1 /\ k + 3 - 1 = k + 2
        /\ k + 4 - 1 = k + 3 /\ k + 5 - 1 = k + 4
        /\ k + (n + 6) - 1 = k + 5 + n /\ k + (n + 7) - 1 = k + 6 + n
    BY <1>1
  <2>2. {1, 2, 3, 4, 5, n + 6, n + 7} \subseteq 1 .. 7 + n
    BY <1>1
  <2>3. \A i \in {1, 2, 3, 4, 5, n + 6, n + 7} : w[i] = b[k + i - 1]
    BY <1>5, <2>2, Zenon
  <2> QED
    BY <2>1, <2>3, Zenon
<1>8. \A i \in 1 .. n : b[k + 4 + i] = w[5 + i]
  <2> TAKE i \in 1 .. n
  <2>1. 5 + i \in 1 .. 7 + n /\ k + (5 + i) - 1 = k + 4 + i
    BY <1>1
  <2> QED
    BY <1>5, <2>1
<1> QED
  BY <1>1, <1>2, <1>6, <1>7, <1>8, Zenon DEF n

\* The bytes c are those of b without the first d.
Without(c, b, d) ==
  Len(c) = Len(b) - d /\ \A i \in 1 .. Len(c) : c[i] = b[i + d]

\* A frame stays what it is when the bytes before it go.
LEMMA FrameMoves ==
  ASSUME NEW b \in Seq(Bytes), NEW c \in Seq(Bytes), NEW f \in Frame,
         NEW k \in Nat, NEW d \in Nat, d < k,
         Without(c, b, d),
         FrameAt(b, k, f)
  PROVE  FrameAt(c, k - d, f)
<1> DEFINE e == FrameEnd(f)
           s == SubSeq(b, k, k + e - 1)
           t == SubSeq(c, k - d, (k - d) + e - 1)
<1>1. e \in Nat /\ e >= 1
  BY BytesOfFrame DEF FrameEnd
<1>2. k + e <= Len(b) + 1 /\ s = FrameBuild(f.type, f.addr, f.payload)
  BY DEF FrameAt
<1> HIDE DEF e
<1>3. Len(b) \in Nat /\ Len(c) \in Nat /\ (k - d) + e <= Len(c) + 1
  BY <1>1, <1>2, LenProperties DEF Without
<1>4. /\ s \in Seq(Bytes) /\ Len(s) = e
      /\ \A i \in 1 .. e : s[i] = b[k + i - 1]
  <2>1. \A i \in k .. k + e - 1 : b[i] \in Bytes
    BY <1>1, <1>2, <1>3, ElementOfSeq
  <2>2. k + e - 1 \in Int /\ k <= k + e - 1 /\ (k + e - 1) - k + 1 = e
    BY <1>1
  <2> QED
    BY <2>1, <2>2, SubSeqProperties
<1>5. /\ t \in Seq(Bytes) /\ Len(t) = e
      /\ \A i \in 1 .. e : t[i] = c[(k - d) + i - 1]
  <2> DEFINE h == k - d
  <2>1. h \in Int /\ h >= 1
    OBVIOUS
  <2> HIDE DEF h
  <2>2. \A i \in h .. h + e - 1 : c[i] \in Bytes
    BY <1>1, <1>3, <2>1, ElementOfSeq DEF h
  <2>3. h + e - 1 \in Int /\ h <= h + e - 1 /\ (h + e - 1) - h + 1 = e
    BY <1>1, <2>1
  <2>4. /\ SubSeq(c, h, h + e - 1) \in Seq(Bytes)
        /\ Len(SubSeq(c, h, h + e - 1)) = e
        /\ \A i \in 1 .. e : SubSeq(c, h, h + e - 1)[i] = c[h + i - 1]
    BY <2>1, <2>2, <2>3, SubSeqProperties
  <2> QED
    BY <2>4 DEF h
<1> HIDE DEF s, t
<1>6. ASSUME NEW i \in 1 .. e PROVE s[i] = t[i]
  <2> DEFINE q == (k - d) + i - 1
  <2>1. q \in 1 .. Len(c) /\ q + d = k + i - 1
    BY <1>1, <1>3
  <2>2. t[i] = c[q] /\ s[i] = b[k + i - 1]
    BY <1>4, <1>5
  <2> HIDE DEF q
  <2> QED
    BY <2>1, <2>2 DEF Without
<1>7. s = t
  BY <1>1, <1>4, <1>5, <1>6, SeqEqual
<1> QED
  BY <1>2, <1>3, <1>7 DEF FrameAt, s, t, e

\* The same of all the frames that are left ...
LEMMA FramesMove ==
  ASSUME NEW b \in Seq(Bytes), NEW c \in Seq(Bytes), NEW fs \in Seq(Frame),
         NEW n \in 0 .. Len(fs), NEW at, Adjoin(b, fs, n, at),
         NEW d \in Nat, d < at[n + 1],
         Without(c, b, d)
  PROVE  Adjoin(c, fs, n, [i \in n + 1 .. Len(fs) + 1 |-> at[i] - d])
<1> DEFINE there == [i \in n + 1 .. Len(fs) + 1 |-> at[i] - d]
<1>1. Len(b) \in Nat /\ Len(c) \in Nat /\ Len(fs) \in Nat /\ n \in Nat
  BY LenProperties
<1>2. /\ at \in [n + 1 .. Len(fs) + 1 -> 1 .. Len(b) + 1]
      /\ \A i, j \in n + 1 .. Len(fs) + 1 : i <= j => at[i] <= at[j]
  BY DEF Adjoin
<1>3. ASSUME NEW i \in n + 1 .. Len(fs) + 1
      PROVE  at[i] \in Nat /\ d < at[i] /\ at[i] <= Len(b) + 1
  <2>1. n + 1 \in n + 1 .. Len(fs) + 1 /\ n + 1 <= i
    BY <1>1
  <2>2. at[i] \in 1 .. Len(b) + 1 /\ at[n + 1] \in 1 .. Len(b) + 1
    BY <1>2, <2>1
  <2>3. at[n + 1] <= at[i]
    BY <1>2, <2>1
  <2> QED
    BY <1>1, <2>2, <2>3
<1>4. there \in [n + 1 .. Len(fs) + 1 -> 1 .. Len(c) + 1]
  BY <1>1, <1>3 DEF Without
<1>5. \A i, j \in n + 1 .. Len(fs) + 1 : i <= j => there[i] <= there[j]
  <2> SUFFICES ASSUME NEW i \in n + 1 .. Len(fs) + 1,
                      NEW j \in n + 1 .. Len(fs) + 1, i <= j
               PROVE  there[i] <= there[j]
    OBVIOUS
  <2>1. there[i] = at[i] - d /\ there[j] = at[j] - d
    OBVIOUS
  <2>2. at[i] \in Nat /\ at[j] \in Nat /\ at[i] <= at[j]
    BY <1>2, <1>3
  <2> HIDE DEF there
  <2> QED
    BY <2>1, <2>2
<1>6. ASSUME NEW i \in n + 1 .. Len(fs)
      PROVE  /\ FrameAt(c, there[i], fs[i])
             /\ there[i + 1] = there[i] + FrameEnd(fs[i])
  <2>1. i \in n + 1 .. Len(fs) + 1 /\ i + 1 \in n + 1 .. Len(fs) + 1
    BY <1>1
  <2>2. fs[i] \in Frame
    BY <1>1, ElementOfSeq
  <2>3. FrameAt(b, at[i], fs[i]) /\ at[i + 1] = at[i] + FrameEnd(fs[i])
    BY DEF Adjoin
  <2>4. at[i] \in Nat /\ at[i + 1] \in Nat /\ d < at[i]
    BY <1>3, <2>1
  <2>5. FrameAt(c, at[i] - d, fs[i])
    BY <2>2, <2>3, <2>4, FrameMoves
  <2>6. there[i] = at[i] - d /\ there[i + 1] = at[i + 1] - d
    BY <2>1
  <2>7. FrameEnd(fs[i]) \in Nat
    BY <2>2, BytesOfFrame DEF FrameEnd
  <2> QED
    BY <2>3, <2>4, <2>5, <2>6, <2>7
<1>7. there[Len(fs) + 1] = Len(c) + 1
  <2>1. Len(fs) + 1 \in n + 1 .. Len(fs) + 1 /\ at[Len(fs) + 1] = Len(b) + 1
    BY <1>1 DEF Adjoin
  <2> QED
    BY <1>1, <2>1 DEF Without
<1> HIDE DEF there
<1>8. Adjoin(c, fs, n, there)
  BY <1>4, <1>5, <1>6, <1>7 DEF Adjoin
<1> QED
  BY <1>8 DEF there

\* A head was one before the bytes in front of it went.
LEMMA HeadMoves ==
  ASSUME NEW b \in Seq(Bytes), NEW c \in Seq(Bytes), NEW d \in Nat,
         Without(c, b, d), NEW i \in Nat \ {0}, HeadAt(c, i)
  PROVE  HeadAt(b, i + d)
<1>1. Len(b) \in Nat /\ Len(c) \in Nat
  BY LenProperties
<1>2. i < Len(c) /\ c[i] = HEAD /\ c[i + 1] = HEAD
  BY DEF HeadAt
<1>3. i \in 1 .. Len(c) /\ i + 1 \in 1 .. Len(c) /\ i + d < Len(b)
  BY <1>1, <1>2 DEF Without
<1>4. c[i] = b[i + d] /\ c[i + 1] = b[(i + d) + 1]
  BY <1>3 DEF Without
<1> QED
  BY <1>2, <1>3, <1>4 DEF HeadAt

\* ... and of what comes before them, if what goes is part of that.
LEMMA WholeMoves ==
  ASSUME NEW b \in Seq(Bytes), NEW c \in Seq(Bytes), NEW fs \in Seq(Frame),
         NEW n \in 0 .. Len(fs), NEW at, Whole(b, fs, n, at),
         NEW d \in Nat, d < at[n + 1],
         Without(c, b, d)
  PROVE  Whole(c, fs, n, [i \in n + 1 .. Len(fs) + 1 |-> at[i] - d])
<1> DEFINE there == [i \in n + 1 .. Len(fs) + 1 |-> at[i] - d]
<1>1. Adjoin(b, fs, n, at)
  BY DEF Whole
<1>2. Adjoin(c, fs, n, there)
  BY <1>1, FramesMove
<1>3. ASSUME NEW i \in 1 .. there[n + 1] - 1, HeadAt(c, i) PROVE FALSE
  <2>1. n + 1 \in n + 1 .. Len(fs) + 1 /\ Len(b) \in Nat /\ Len(c) \in Nat
    BY LenProperties
  <2>2. at[n + 1] \in Nat /\ there[n + 1] = at[n + 1] - d
    <3>1. at \in [n + 1 .. Len(fs) + 1 -> 1 .. Len(b) + 1]
      BY <1>1 DEF Adjoin
    <3>2. at[n + 1] \in 1 .. Len(b) + 1
      BY <2>1, <3>1
    <3> QED
      BY <2>1, <3>2
  <2>3. i + d \in 1 .. at[n + 1] - 1
    BY <2>2
  <2>4. HeadAt(b, i + d)
    BY <1>3, <2>2, HeadMoves
  <2> QED
    BY <2>3, <2>4 DEF Whole
<1> HIDE DEF there
<1>4. Whole(c, fs, n, there)
  BY <1>2, <1>3 DEF Whole
<1> QED
  BY <1>4 DEF there

\* When all that comes before the first frame goes, that frame is first.
LEMMA WholeFromFirst ==
  ASSUME NEW b \in Seq(Bytes), NEW c \in Seq(Bytes), NEW fs \in Seq(Frame),
         NEW n \in 0 .. Len(fs), NEW at, Adjoin(b, fs, n, at),
         NEW d \in Nat, at[n + 1] = d + 1,
         Without(c, b, d)
  PROVE  \E there : Whole(c, fs, n, there) /\ there[n + 1] = 1
<1> DEFINE there == [i \in n + 1 .. Len(fs) + 1 |-> at[i] - d]
<1>1. d < at[n + 1] /\ n + 1 \in n + 1 .. Len(fs) + 1
  BY LenProperties
<1>2. Adjoin(c, fs, n, there)
  BY <1>1, FramesMove
<1>3. there[n + 1] = 1
  BY <1>1
<1> HIDE DEF there
<1>4. Whole(c, fs, n, there)
  BY <1>2, <1>3 DEF Whole
<1> QED
  BY <1>3, <1>4

\* The later ones of frames that adjoin.
LEMMA AdjoinLater ==
  ASSUME NEW b \in Seq(Bytes), NEW fs \in Seq(Frame), NEW n \in 0 .. Len(fs),
         NEW m \in n .. Len(fs), NEW at, Adjoin(b, fs, n, at)
  PROVE  Adjoin(b, fs, m, [i \in m + 1 .. Len(fs) + 1 |-> at[i]])
<1> DEFINE rest == [i \in m + 1 .. Len(fs) + 1 |-> at[i]]
<1>1. m \in Nat /\ n \in Nat /\ n <= m /\ m <= Len(fs) /\ Len(fs) \in Nat
  BY LenProperties
<1>2. m + 1 .. Len(fs) + 1 \subseteq n + 1 .. Len(fs) + 1
      /\ m + 1 .. Len(fs) \subseteq n + 1 .. Len(fs)
      /\ Len(fs) + 1 \in m + 1 .. Len(fs) + 1
      /\ \A i \in m + 1 .. Len(fs) : {i, i + 1} \subseteq m + 1 .. Len(fs) + 1
  BY <1>1
<1>3. rest \in [m + 1 .. Len(fs) + 1 -> 1 .. Len(b) + 1]
  BY <1>2 DEF Adjoin
<1>4. \A i, j \in m + 1 .. Len(fs) + 1 : i <= j => rest[i] <= rest[j]
  BY <1>2 DEF Adjoin
<1>5. \A i \in m + 1 .. Len(fs) :
        /\ FrameAt(b, rest[i], fs[i])
        /\ rest[i + 1] = rest[i] + FrameEnd(fs[i])
  BY <1>2 DEF Adjoin
<1>6. rest[Len(fs) + 1] = Len(b) + 1
  BY <1>2 DEF Adjoin
<1> HIDE DEF rest
<1>7. Adjoin(b, fs, m, rest)
  BY <1>3, <1>4, <1>5, <1>6 DEF Adjoin
<1> QED
  BY <1>7 DEF rest

\* When the first frame goes with all that came before it, the next one is
\* the first that comes.
LEMMA WholeWithoutFirst ==
  ASSUME NEW b \in Seq(Bytes), NEW c \in Seq(Bytes), NEW fs \in Seq(Frame),
         NEW n \in 0 .. Len(fs), n < Len(fs), NEW at, Adjoin(b, fs, n, at),
         NEW d \in Nat, d + 1 = at[n + 1] + FrameEnd(fs[n + 1]),
         Without(c, b, d)
  PROVE  \E there : Whole(c, fs, n + 1, there) /\ there[n + 2] = 1
<1> DEFINE m == n + 1
           rest == [i \in m + 1 .. Len(fs) + 1 |-> at[i]]
<1>1. m \in 0 .. Len(fs) /\ m \in n .. Len(fs) /\ m + 1 = n + 2
      /\ m \in n + 1 .. Len(fs) /\ m + 1 \in m + 1 .. Len(fs) + 1
  BY LenProperties
<1>2. Adjoin(b, fs, m, rest)
  BY <1>1, AdjoinLater
<1>3. rest[m + 1] = d + 1
  BY <1>1 DEF Adjoin
<1> HIDE DEF rest, m
<1>4. \E there : Whole(c, fs, m, there) /\ there[m + 1] = 1
  BY <1>1, <1>2, <1>3, WholeFromFirst
<1> QED
  BY <1>1, <1>4 DEF m

-----------------------------------------------------------------------------
(* The stream, the buffer and the frames heard *)

\* The bytes not yet parsed: in the buffer, in the chunk, on the line.
Pending == buf \o (data \o line)

\* The frame after the first n is not all in the buffer.
NotYet(n, at) ==
  n < Len(sent) => at[n + 1] + FrameEnd(sent[n + 1]) > Len(buf) + 1

\* What was heard is what was sent first, and the frames not heard are still
\* whole in the bytes not parsed.  Between two runs of the inner loop the
\* first of them is not complete, so that the buffer has room left and the
\* outer loop drops nothing.
CleanInv ==
  /\ Len(heard) <= Len(sent)
  /\ \A i \in 1 .. Len(heard) : heard[i] = sent[i]
  /\ \A i \in 1 .. Len(sent) : Fits(sent[i])
  /\ pc # "extract" => Len(buf) < BufSize
  /\ \E at \in [Len(heard) + 1 .. Len(sent) + 1 -> 1 .. Len(Pending) + 1] :
       /\ Whole(Pending, sent, Len(heard), at)
       /\ pc # "extract" => NotYet(Len(heard), at)

LEMMA JoinTwo ==
  \A b, c \in Seq(Bytes) :
    /\ b \o c \in Seq(Bytes) /\ Len(b \o c) = Len(b) + Len(c)
    /\ \A i \in 1 .. Len(b) + Len(c) :
         (b \o c)[i] = IF i <= Len(b) THEN b[i] ELSE c[i - Len(b)]
BY ConcatProperties

LEMMA JoinThree ==
  \A b, c, e \in Seq(Bytes) : (b \o c) \o e = b \o (c \o e)
BY ConcatAssociative

LEMMA WithoutBefore ==
  ASSUME NEW b \in Seq(Bytes), NEW c \in Seq(Bytes), NEW r \in Seq(Bytes),
         NEW d \in 0 .. Len(b), Without(c, b, d)
  PROVE  Without(c \o r, b \o r, d)
<1> DEFINE x == c \o r
           y == b \o r
<1>1. /\ Len(x) = Len(c) + Len(r)
      /\ \A i \in 1 .. Len(c) + Len(r) :
           x[i] = IF i <= Len(c) THEN c[i] ELSE r[i - Len(c)]
  BY ConcatProperties
<1>2. /\ Len(y) = Len(b) + Len(r)
      /\ \A i \in 1 .. Len(b) + Len(r) :
           y[i] = IF i <= Len(b) THEN b[i] ELSE r[i - Len(b)]
  BY ConcatProperties
<1> HIDE DEF x, y
<1>3. Len(b) \in Nat /\ Len(c) \in Nat /\ Len(r) \in Nat /\ Len(c) = Len(b) - d
  BY LenProperties DEF Without
<1>4. ASSUME NEW i \in 1 .. Len(x) PROVE x[i] = y[i + d]
  <2>1. i \in 1 .. Len(c) + Len(r) /\ i + d \in 1 .. Len(b) + Len(r)
    BY <1>1, <1>3
  <2>2. CASE i <= Len(c)
    <3>1. i \in 1 .. Len(c) /\ i + d <= Len(b)
      BY <1>3, <2>2
    <3>2. x[i] = c[i] /\ y[i + d] = b[i + d]
      BY <1>1, <1>2, <2>1, <2>2, <3>1
    <3> QED
      BY <3>1, <3>2 DEF Without
  <2>3. CASE ~(i <= Len(c))
    <3>1. ~(i + d <= Len(b)) /\ (i + d) - Len(b) = i - Len(c)
      BY <1>3, <2>3
    <3>2. x[i] = r[i - Len(c)] /\ y[i + d] = r[(i + d) - Len(b)]
      BY <1>1, <1>2, <2>1, <2>3, <3>1, Zenon
    <3> QED
      BY <3>1, <3>2
  <2> QED
    BY <2>2, <2>3
<1>5. Len(x) = Len(y) - d
  BY <1>1, <1>2, <1>3
<1> QED
  BY <1>4, <1>5 DEF Without, x, y

\* The bytes not parsed begin with those of the buffer ...
LEMMA PendingFacts ==
  ASSUME TypeOK
  PROVE  /\ Pending \in Seq(Bytes) /\ Len(Pending) \in Nat
         /\ Len(Pending) = Len(buf) + Len(data) + Len(line)
         /\ {Len(buf), Len(data), Len(line), Len(heard), Len(sent)} \subseteq Nat
         /\ \A i \in 1 .. Len(buf) : Pending[i] = buf[i]
<1> DEFINE rest == data \o line
<1>1. rest \in Seq(Bytes) /\ Len(rest) = Len(data) + Len(line)
  BY ConcatProperties DEF TypeOK
<1>2. Pending = buf \o rest
  BY DEF Pending
<1> HIDE DEF rest
<1>3. /\ buf \o rest \in Seq(Bytes) /\ Len(buf \o rest) = Len(buf) + Len(rest)
      /\ \A i \in 1 .. Len(buf) + Len(rest) :
           (buf \o rest)[i] = IF i <= Len(buf) THEN buf[i] ELSE rest[i - Len(buf)]
  <2>1. buf \in Seq(Bytes)
    BY DEF TypeOK
  <2> QED
    BY <1>1, <2>1, JoinTwo, Zenon
<1>4. /\ Pending \in Seq(Bytes) /\ Len(Pending) = Len(buf) + Len(rest)
      /\ \A i \in 1 .. Len(buf) + Len(rest) :
           Pending[i] = IF i <= Len(buf) THEN buf[i] ELSE rest[i - Len(buf)]
  BY <1>2, <1>3
<1>5. {Len(buf), Len(data), Len(line), Len(heard), Len(sent), Len(rest)} \subseteq Nat
  BY <1>1, LenProperties DEF TypeOK
<1>6. \A i \in 1 .. Len(buf) : Pending[i] = buf[i]
  BY <1>4, <1>5
<1> QED
  BY <1>1, <1>4, <1>5, <1>6, LenProperties

\* ... so do those of the next state ...
LEMMA PendingNext == (TypeOK => Pending \in Seq(Bytes))'
BY PendingFacts, PTL

\* ... and lose what the buffer loses.
LEMMA PendingLoses ==
  ASSUME TypeOK, TypeOK', UNCHANGED <<data, line>>,
         NEW d \in 0 .. Len(buf), Without(buf', buf, d)
  PROVE  Without(Pending', Pending, d)
<1> DEFINE rest == data \o line
<1>1. rest \in Seq(Bytes)
  BY ConcatProperties DEF TypeOK
<1>2. Pending = buf \o rest /\ Pending' = buf' \o rest
  BY DEF Pending
<1> HIDE DEF rest
<1>3. buf \in Seq(Bytes) /\ buf' \in Seq(Bytes)
  BY DEF TypeOK
<1> QED
  BY <1>1, <1>2, <1>3, WithoutBefore

\* Cutting a list in two and joining it again.
LEMMA CutAndJoin ==
  ASSUME NEW s \in Seq(Bytes), NEW k \in 0 .. Len(s)
  PROVE  /\ SubSeq(s, 1, k) \in Seq(Bytes) /\ From(s, k + 1) \in Seq(Bytes)
         /\ SubSeq(s, 1, k) \o From(s, k + 1) = s
<1>1. SubSeq(s, 1, k) \in Seq(Bytes)
  BY FirstFacts
<1>2. From(s, k + 1) \in Seq(Bytes)
  BY RestFacts DEF From
<1>3. SubSeq(s, 1, k) \o SubSeq(s, k + 1, Len(s)) = SubSeq(s, 1, Len(s))
  <2>1. /\ 1 \in 1 .. Len(s) + 1 /\ k \in 1 - 1 .. Len(s)
        /\ Len(s) \in k .. Len(s)
    BY LenProperties
  <2> QED
    BY <2>1, ConcatAdjacentSubSeq, Zenon
<1>4. SubSeq(s, 1, Len(s)) = s
  BY SubSeqFull
<1> QED
  BY <1>1, <1>2, <1>3, <1>4 DEF From

\* Reading a chunk moves bytes from the line, and the copy of a chunk into a
\* buffer that is not full from the chunk: no byte is lost.
LEMMA ReadKeepsPending ==
  ASSUME TypeOK, Read
  PROVE  Pending' = Pending
<1>1. PICK n \in ChunkSizes :
        /\ data' = SubSeq(line, 1, Min({n, Len(line)}))
        /\ line' = From(line, Min({n, Len(line)}) + 1)
  BY DEF Read
<1>2. Min({n, Len(line)}) \in 0 .. Len(line)
  <2>1. n \in Nat /\ Len(line) \in Nat
    BY ParserAssumption, LenProperties DEF TypeOK
  <2> QED
    BY <2>1, MinOfTwo
<1>3. data' \o line' = line
  BY <1>1, <1>2, CutAndJoin DEF TypeOK
<1>4. data \o line = line
  BY ConcatEmptySeq DEF Read, TypeOK
<1> QED
  BY <1>3, <1>4 DEF Pending, Read

LEMMA FillMoves ==
  ASSUME TypeOK, Fill
  PROVE  LET kept == IF Len(buf) = BufSize THEN From(buf, BufSize \div 2 + 1)
                                           ELSE buf
         IN  kept \in Seq(Bytes) /\ Pending' = kept \o (data \o line)
<1> DEFINE kept == IF Len(buf) = BufSize THEN From(buf, BufSize \div 2 + 1) ELSE buf
           take == Min({BufSize - Len(kept), Len(data)})
           first == SubSeq(data, 1, take)
           rest == From(data, take + 1)
<1>1. buf' = kept \o first /\ data' = rest /\ line' = line
  BY DEF Fill
<1>2. kept \in Seq(Bytes) /\ Len(kept) \in Nat /\ Len(kept) <= BufSize
  <2>1. CASE Len(buf) = BufSize
    <3>1. BufSize \div 2 \in 0 .. Len(buf)
      BY <2>1, ParserAssumption
    <3>2. From(buf, BufSize \div 2 + 1) \in Seq(Bytes)
          /\ Len(From(buf, BufSize \div 2 + 1)) = Len(buf) - BufSize \div 2
      BY <3>1, RestFacts DEF From, TypeOK
    <3> QED
      BY <2>1, <3>1, <3>2, ParserAssumption
  <2>2. CASE Len(buf) # BufSize
    BY <2>2, LenProperties DEF TypeOK
  <2> QED
    BY <2>1, <2>2
<1> HIDE DEF kept
<1>3. take \in 0 .. Len(data)
  <2>1. BufSize - Len(kept) \in Nat /\ Len(data) \in Nat
    BY <1>2, PendingFacts, ParserAssumption
  <2> QED
    BY <2>1, MinOfTwo
<1> HIDE DEF take
<1>4. first \in Seq(Bytes) /\ rest \in Seq(Bytes) /\ first \o rest = data
  BY <1>3, CutAndJoin DEF TypeOK
<1> HIDE DEF first, rest
<1>5. rest \o line \in Seq(Bytes)
  BY <1>4, ConcatProperties DEF TypeOK
<1>6. (kept \o first) \o (rest \o line) = kept \o (first \o (rest \o line))
  BY <1>2, <1>4, <1>5, JoinThree, Zenon
<1>7. first \o (rest \o line) = (first \o rest) \o line
  <2>1. line \in Seq(Bytes)
    BY DEF TypeOK
  <2> QED
    BY <1>4, <2>1, JoinThree, Zenon
<1>8. Pending' = kept \o (data \o line)
  BY <1>1, <1>4, <1>6, <1>7 DEF Pending
<1> QED
  BY <1>2, <1>8 DEF kept

LEMMA FillKeepsPending ==
  ASSUME TypeOK, Fill, Len(buf) < BufSize
  PROVE  Pending' = Pending
<1>1. Len(buf) # BufSize
  BY PendingFacts, ParserAssumption
<1> QED
  BY <1>1, FillMoves DEF Pending

\* A full buffer loses bytes, but none that it does not hold.
LEMMA FillLoses ==
  ASSUME TypeOK, Fill
  PROVE  \E d \in 0 .. Len(buf) : Without(Pending', Pending, d)
<1> DEFINE rest == data \o line
<1>1. buf \in Seq(Bytes) /\ rest \in Seq(Bytes) /\ Pending = buf \o rest
  BY ConcatProperties DEF TypeOK, Pending
<1>2. CASE Len(buf) = BufSize
  <2> DEFINE d == BufSize \div 2
             kept == From(buf, d + 1)
  <2>1. d \in 0 .. Len(buf)
    BY <1>2, ParserAssumption
  <2>2. kept \in Seq(Bytes) /\ Pending' = kept \o rest
    BY <1>2, FillMoves
  <2> HIDE DEF d, rest
  <2>3. Without(kept, buf, d)
    BY <1>1, <2>1, RestFacts DEF Without, From
  <2> HIDE DEF kept
  <2>4. Without(kept \o rest, buf \o rest, d)
    BY <1>1, <2>1, <2>2, <2>3, WithoutBefore
  <2> QED
    BY <1>1, <2>1, <2>2, <2>4
<1>3. CASE Len(buf) # BufSize
  <2>1. Pending' = Pending
    BY <1>3, FillMoves DEF Pending
  <2>2. Pending \in Seq(Bytes) /\ 0 \in 0 .. Len(buf)
    BY PendingFacts
  <2> HIDE DEF rest
  <2>3. Without(Pending, Pending, 0)
    BY <2>2, LenProperties DEF Without
  <2> QED
    BY <2>1, <2>2, <2>3
<1> QED
  BY <1>2, <1>3

\* What a call of proto_try_extract_one drops: all but the last byte ...
LEMMA NoHeadDrops ==
  ASSUME TypeOK, NoHead
  PROVE  LET d == IF buf = <<>> THEN 0 ELSE Len(buf) - 1
         IN  d \in 0 .. Len(buf) /\ Len(buf) - d <= 1 /\ Without(buf', buf, d)
<1> DEFINE d == IF buf = <<>> THEN 0 ELSE Len(buf) - 1
<1>1. d \in 0 .. Len(buf) /\ Len(buf) - d <= 1
  <2>1. buf # <<>> => Len(buf) # 0
    BY EmptySeq DEF TypeOK
  <2>2. buf = <<>> => Len(buf) = 0
    BY EmptySeq
  <2> QED
    BY <2>1, <2>2, PendingFacts
<1>2. Without(buf', buf, d)
  <2>1. CASE buf = <<>>
    BY <2>1 DEF NoHead, Without
  <2>2. CASE buf # <<>>
    <3>1. buf' = SubSeq(buf, d + 1, Len(buf))
      BY <2>2, PendingFacts DEF NoHead, From
    <3> HIDE DEF d
    <3>2. /\ Len(buf') = Len(buf) - d
          /\ \A i \in 1 .. Len(buf') : buf'[i] = buf[i + d]
      BY <1>1, <3>1, RestFacts DEF TypeOK
    <3> QED
      BY <3>2 DEF Without
  <2> QED
    BY <2>1, <2>2
<1> QED
  BY <1>1, <1>2

\* ... or what is before the head and so many bytes from the head on.
LEMMA HeadDrops ==
  ASSUME TypeOK, Heads # {}, NEW e \in Nat, e <= Len(AtHead),
         buf' = From(AtHead, e + 1)
  PROVE  LET d == (Min(Heads) - 1) + e
         IN  d \in 0 .. Len(buf) /\ Without(buf', buf, d)
<1> DEFINE h == Min(Heads)
           d == (h - 1) + e
<1>1. /\ h \in 1 .. Len(buf) - 1 /\ Len(AtHead) = Len(buf) - (h - 1)
      /\ \A i \in 1 .. Len(AtHead) : AtHead[i] = buf[i + (h - 1)]
  BY FirstHead
<1>2. /\ Len(buf') = Len(AtHead) - e
      /\ \A i \in 1 .. Len(AtHead) - e : buf'[i] = AtHead[i + e]
  BY RestOfHead
<1>3. Len(buf) \in Nat
  BY PendingFacts
<1> HIDE DEF h
<1>4. d \in 0 .. Len(buf) /\ Len(buf') = Len(buf) - d
  BY <1>1, <1>2, <1>3
<1>5. ASSUME NEW i \in 1 .. Len(buf') PROVE buf'[i] = buf[i + d]
  <2>1. i \in 1 .. Len(AtHead) - e /\ i + e \in 1 .. Len(AtHead)
        /\ (i + e) + (h - 1) = i + d
    BY <1>1, <1>2, <1>3
  <2>2. buf'[i] = AtHead[i + e] /\ AtHead[i + e] = buf[(i + e) + (h - 1)]
    BY <1>1, <1>2, <2>1
  <2> QED
    BY <2>1, <2>2
<1>6. Without(buf', buf, d)
  BY <1>4, <1>5 DEF Without
<1> QED
  BY <1>4, <1>6 DEF h

-----------------------------------------------------------------------------
(* The head in the buffer is that of the next frame *)

\* Where the next frame begins, if there is one; else everything was parsed.
LEMMA NextFrame ==
  ASSUME TypeOK, NEW n \in 0 .. Len(sent),
         NEW at, Whole(Pending, sent, n, at)
  PROVE  LET k == at[n + 1]
             f == sent[n + 1]
         IN  /\ k \in Nat \ {0}
             /\ n < Len(sent) => f \in Frame /\ FrameAt(Pending, k, f)
             /\ n = Len(sent) => k = Len(Pending) + 1
             /\ Adjoin(Pending, sent, n, at)
<1>1. n \in Nat /\ Len(sent) \in Nat /\ n <= Len(sent)
  BY PendingFacts
<1>2. n + 1 \in n + 1 .. Len(sent) + 1
  BY <1>1
<1>3. Adjoin(Pending, sent, n, at)
  BY DEF Whole
<1>4. at[n + 1] \in 1 .. Len(Pending) + 1
  BY <1>2, <1>3 DEF Adjoin
<1>5. at[n + 1] \in Nat \ {0}
  BY <1>4
<1>6. ASSUME n < Len(sent)
      PROVE  sent[n + 1] \in Frame /\ FrameAt(Pending, at[n + 1], sent[n + 1])
  <2>1. n + 1 \in 1 .. Len(sent) /\ n + 1 \in n + 1 .. Len(sent)
    BY <1>1, <1>6
  <2>2. sent[n + 1] \in Frame
    BY <2>1, ElementOfSeq DEF TypeOK
  <2> QED
    BY <1>3, <2>1, <2>2 DEF Adjoin
<1>7. n = Len(sent) => at[n + 1] = Len(Pending) + 1
  BY <1>3 DEF Adjoin
<1> QED
  BY <1>1, <1>3, <1>5, <1>6, <1>7

LEMMA HeadsAreNext ==
  ASSUME TypeOK, NEW n \in 0 .. Len(sent),
         NEW at, Whole(Pending, sent, n, at)
  PROVE  LET k == at[n + 1]
         IN  /\ Heads # {} => n < Len(sent) /\ Min(Heads) = k
             /\ Heads = {} => Len(buf) <= k
<1> DEFINE k == at[n + 1]
<1>1. k \in Nat \ {0} /\ n \in Nat /\ Len(sent) \in Nat /\ n <= Len(sent)
  BY NextFrame, PendingFacts
<1>2. Len(buf) \in Nat /\ Len(Pending) \in Nat /\ Len(buf) <= Len(Pending)
  BY PendingFacts
<1>3. n = Len(sent) => k = Len(Pending) + 1
  BY NextFrame
<1>4. ASSUME n < Len(sent)
      PROVE  k + 1 <= Len(Pending) /\ Pending[k] = HEAD /\ Pending[k + 1] = HEAD
  <2>1. sent[n + 1] \in Frame /\ FrameAt(Pending, k, sent[n + 1])
    BY <1>4, NextFrame
  <2>2. Pending \in Seq(Bytes)
    BY PendingFacts
  <2> DEFINE p == Len(sent[n + 1].payload)
  <2>3. p \in Nat /\ k + 6 + p <= Len(Pending)
        /\ Pending[k] = HEAD /\ Pending[k + 1] = HEAD
    BY <1>1, <2>1, <2>2, BytesAt
  <2> HIDE DEF k, p
  <2> QED
    BY <1>1, <1>2, <2>3
<1>5. \A i \in 1 .. k - 1 : ~HeadAt(Pending, i)
  BY DEF Whole
<1> HIDE DEF k
<1>6. \A i \in 1 .. Len(buf) : Pending[i] = buf[i]
  BY PendingFacts
<1>7. ASSUME NEW i \in Heads
      PROVE  i \in 1 .. Len(buf) - 1 /\ ~(i < k) /\ n < Len(sent)
  <2>1. i \in 1 .. Len(buf) - 1 /\ buf[i] = HEAD /\ buf[i + 1] = HEAD
    BY DEF Heads
  <2>2. i \in 1 .. Len(buf) /\ i + 1 \in 1 .. Len(buf)
    BY <1>2, <2>1
  <2>3. Pending[i] = HEAD /\ Pending[i + 1] = HEAD
    BY <1>6, <2>1, <2>2
  <2>4. HeadAt(Pending, i)
    BY <1>2, <2>2, <2>3 DEF HeadAt
  <2>5. ~(i < k)
    BY <1>1, <1>5, <2>2, <2>4
  <2>6. i < k \/ n < Len(sent)
    BY <1>1, <1>2, <1>3, <2>2
  <2> QED
    BY <2>1, <2>5, <2>6
<1>8. ASSUME n < Len(sent), k < Len(buf) PROVE k \in Heads
  <2>1. k \in 1 .. Len(buf) - 1 /\ k \in 1 .. Len(buf) /\ k + 1 \in 1 .. Len(buf)
    BY <1>1, <1>2, <1>8
  <2>2. buf[k] = HEAD /\ buf[k + 1] = HEAD
    BY <1>4, <1>6, <1>8, <2>1
  <2> QED
    BY <2>1, <2>2 DEF Heads
<1>9. ASSUME Heads # {} PROVE n < Len(sent) /\ Min(Heads) = k
  <2> DEFINE h == Min(Heads)
  <2>1. h \in Heads /\ \A i \in Heads : h <= i
    <3>1. Heads \in SUBSET Nat
      BY <1>2 DEF Heads
    <3> QED
      BY <1>9, <3>1, MinOfSet
  <2> HIDE DEF h
  <2>2. h \in 1 .. Len(buf) - 1 /\ ~(h < k) /\ n < Len(sent)
    BY <1>7, <2>1
  <2>3. k < Len(buf)
    BY <1>1, <1>2, <2>2
  <2>4. h <= k
    BY <1>8, <2>1, <2>2, <2>3
  <2> QED
    BY <1>1, <2>2, <2>4 DEF h
<1>10. ASSUME Heads = {} PROVE Len(buf) <= k
  <2>1. CASE n < Len(sent)
    BY <1>1, <1>2, <1>8, <1>10, <2>1
  <2>2. CASE n = Len(sent)
    BY <1>1, <1>2, <1>3, <2>2
  <2> QED
    BY <1>1, <2>1, <2>2
<1> QED
  BY <1>9, <1>10 DEF k

\* The buffer from its head on holds the next frame, or as much of it as has
\* come; if all of it has, it is what on_frame is given.
LEMMA HeadIsNextFrame ==
  ASSUME TypeOK, NEW n \in 0 .. Len(sent),
         NEW at, Whole(Pending, sent, n, at), Heads # {}
  PROVE  LET f == sent[n + 1]
             end == FrameEnd(f)
         IN  /\ n < Len(sent) /\ f \in Frame /\ end \in Nat /\ end >= 7
             /\ Complete(AtHead) <=> end <= Len(AtHead)
             /\ Complete(AtHead) =>
                  /\ TotalLen(AtHead) = end /\ StopIsRight(AtHead)
                  /\ Fits(f) =>
                       f = [type |-> AtHead[3], addr |-> AtHead[4],
                            payload |-> SubSeq(AtHead, 6, 5 + Min({AtHead[5], PayloadMax}))]
<1> DEFINE f == sent[n + 1]
           p == Len(f.payload)
           k == at[n + 1]
           h == Min(Heads)
<1>1. n < Len(sent) /\ h = k
  BY HeadsAreNext
<1>2. f \in Frame /\ FrameAt(Pending, k, f) /\ k \in Nat \ {0}
  BY <1>1, NextFrame
<1>3. Pending \in Seq(Bytes) /\ \A i \in 1 .. Len(buf) : Pending[i] = buf[i]
  BY PendingFacts
<1>4. /\ p \in Nat /\ FrameEnd(f) = 7 + p
      /\ Pending[k + 2] = f.type /\ Pending[k + 3] = f.addr /\ Pending[k + 4] = p
      /\ \A i \in 1 .. p : Pending[k + 4 + i] = f.payload[i]
      /\ Pending[k + 5 + p] = 10 /\ Pending[k + 6 + p] = 13
  <2> HIDE DEF f, k
  <2>1. Pending \in Seq(Bytes)
    BY <1>3
  <2> HIDE DEF p
  <2> QED
    BY <1>2, <2>1, BytesAt DEF p
<1>5. /\ h \in 1 .. Len(buf) - 1 /\ AtHead \in Seq(Bytes)
      /\ Len(AtHead) = Len(buf) - (h - 1) /\ Len(AtHead) \in Nat
      /\ \A i \in 1 .. Len(AtHead) : AtHead[i] = buf[i + (h - 1)]
  BY FirstHead
<1>6. Len(buf) \in Nat
  BY PendingFacts
<1>7. f.payload \in Seq(Bytes)
  BY <1>2, BytesOfFrame
<1> HIDE DEF f, p, k, h
<1>8. ASSUME NEW i \in 1 .. Len(AtHead) PROVE AtHead[i] = Pending[k + i - 1]
  <2>1. i + (h - 1) \in 1 .. Len(buf) /\ i + (h - 1) = k + i - 1
    BY <1>1, <1>2, <1>5, <1>6
  <2> QED
    BY <1>3, <1>5, <2>1
<1>nat. k \in Nat \ {0} /\ p \in Nat /\ Len(AtHead) \in Nat
  BY <1>2, <1>4, <1>5
<1>9. ASSUME Len(AtHead) >= 5
      PROVE  AtHead[3] = f.type /\ AtHead[4] = f.addr /\ AtHead[5] = p
  <2>1. /\ {3, 4, 5} \subseteq 1 .. Len(AtHead)
        /\ k + 3 - 1 = k + 2 /\ k + 4 - 1 = k + 3 /\ k + 5 - 1 = k + 4
    BY <1>nat, <1>9
  <2>2. /\ AtHead[3] = Pending[k + 2] /\ AtHead[4] = Pending[k + 3]
        /\ AtHead[5] = Pending[k + 4]
    BY <1>8, <2>1
  <2> QED
    BY <1>4, <2>2, Zenon
<1>10. Complete(AtHead) <=> 7 + p <= Len(AtHead)
  BY <1>nat, <1>9 DEF Complete, TotalLen
<1>11. ASSUME Complete(AtHead)
       PROVE  /\ AtHead[5] = p /\ TotalLen(AtHead) = 7 + p
              /\ StopIsRight(AtHead)
              /\ AtHead[3] = f.type /\ AtHead[4] = f.addr
              /\ \A i \in 1 .. p : AtHead[5 + i] = f.payload[i]
  <2>1. AtHead[5] = p /\ 7 + p <= Len(AtHead)
    BY <1>4, <1>9, <1>10, <1>11 DEF Complete
  <2>2. TotalLen(AtHead) = 7 + p
    BY <1>4, <2>1 DEF TotalLen
  <2>3. AtHead[6 + p] = 10 /\ AtHead[7 + p] = 13
    <3>1. AtHead[6 + p] = Pending[k + (6 + p) - 1]
          /\ AtHead[7 + p] = Pending[k + (7 + p) - 1]
      <4>1. 6 + p \in 1 .. Len(AtHead) /\ 7 + p \in 1 .. Len(AtHead)
        BY <1>nat, <2>1
      <4> QED
        BY <1>8, <4>1
    <3>2. k + (6 + p) - 1 = k + 5 + p /\ k + (7 + p) - 1 = k + 6 + p
      BY <1>nat
    <3> QED
      BY <1>4, <3>1, <3>2, Zenon
  <2>4. StopIsRight(AtHead)
    <3> DEFINE t == SubSeq(AtHead, 6 + p, 7 + p)
    <3>1. \A i \in 6 + p .. 7 + p : AtHead[i] \in Nat
      <4>1. \A i \in 6 + p .. 7 + p : i = 6 + p \/ i = 7 + p
        BY <1>nat
      <4> QED
        BY <2>3, <4>1
    <3>2. /\ t \in Seq(Nat) /\ Len(t) = 2
          /\ \A i \in 1 .. 2 : t[i] = AtHead[(6 + p) + i - 1]
      BY <1>4, <3>1, SubSeqProperties
    <3>3. t[1] = 10 /\ t[2] = 13
      <4>1. (6 + p) + 1 - 1 = 6 + p /\ (6 + p) + 2 - 1 = 7 + p
        BY <1>nat
      <4>2. t[1] = AtHead[(6 + p) + 1 - 1] /\ t[2] = AtHead[(6 + p) + 2 - 1]
        BY <3>2
      <4> QED
        BY <2>3, <4>1, <4>2, Zenon
    <3> HIDE DEF t
    <3>4. t = STOP
      BY <3>2, <3>3 DEF STOP
    <3>5. TotalLen(AtHead) - 1 = 6 + p
      BY <1>4, <2>2
    <3> QED
      BY <2>2, <3>4, <3>5 DEF StopIsRight, t
  <2>5. AtHead[3] = f.type /\ AtHead[4] = f.addr
    BY <1>9, <1>11 DEF Complete
  <2>6. ASSUME NEW i \in 1 .. p PROVE AtHead[5 + i] = f.payload[i]
    <3>1. 5 + i \in 1 .. Len(AtHead) /\ k + (5 + i) - 1 = k + 4 + i
      BY <1>2, <1>4, <1>5, <2>1
    <3> QED
      BY <1>4, <1>8, <3>1
  <2> QED
    BY <2>1, <2>2, <2>4, <2>5, <2>6
<1>12. ASSUME Complete(AtHead), Fits(f)
       PROVE  f = [type |-> AtHead[3], addr |-> AtHead[4],
                   payload |-> SubSeq(AtHead, 6, 5 + Min({AtHead[5], PayloadMax}))]
  <2> DEFINE m == Min({AtHead[5], PayloadMax})
             payload == SubSeq(AtHead, 6, 5 + m)
  <2>1. /\ m = IF AtHead[5] <= PayloadMax THEN AtHead[5] ELSE PayloadMax
        /\ Len(payload) = m /\ payload \in Seq(Bytes)
        /\ \A i \in 1 .. m : payload[i] = AtHead[5 + i]
    BY <1>12, FrameOfHead
  <2>2. AtHead[5] = p /\ p <= PayloadMax
    BY <1>11, <1>12 DEF Fits, p
  <2>3. m = p
    BY <2>1, <2>2
  <2> HIDE DEF payload, m
  <2>4. payload = f.payload
    <3>1. Len(payload) = Len(f.payload)
      BY <2>1, <2>3 DEF p
    <3>2. \A i \in 1 .. Len(payload) : payload[i] = f.payload[i]
      BY <1>11, <1>12, <2>1, <2>3
    <3> QED
      BY <1>7, <2>1, <3>1, <3>2, SeqEqual
  <2>5. f = [type |-> f.type, addr |-> f.addr, payload |-> f.payload]
    BY <1>2 DEF Frame
  <2>6. f = [type |-> AtHead[3], addr |-> AtHead[4], payload |-> payload]
    BY <1>11, <1>12, <2>4, <2>5
  <2> QED
    BY <2>6 DEF payload, m
<1>13. FrameEnd(f) \in Nat /\ FrameEnd(f) >= 7
  BY <1>4
<1> QED
  BY <1>1, <1>2, <1>4, <1>10, <1>11, <1>12, <1>13, Zenon DEF f

-----------------------------------------------------------------------------
(* The steps on a stream on which nothing was lost *)

\* A call of proto_try_extract_one that finds no frame drops nothing but what
\* comes before the next one.
LEMMA DropsGarbage ==
  ASSUME TypeOK, TypeOK', NoFrame, NEW n \in 0 .. Len(sent),
         NEW at, Whole(Pending, sent, n, at),
         NEW d \in 0 .. Len(buf), Without(buf', buf, d), d < at[n + 1],
         n < Len(sent) => (at[n + 1] - d) + FrameEnd(sent[n + 1]) > Len(buf') + 1
  PROVE  \E there :
           /\ Whole(Pending', sent, n, there)
           /\ n < Len(sent) => there[n + 1] + FrameEnd(sent[n + 1]) > Len(buf') + 1
<1> DEFINE there == [i \in n + 1 .. Len(sent) + 1 |-> at[i] - d]
<1>1. UNCHANGED <<data, line>>
  BY DEF NoFrame
<1>2. Without(Pending', Pending, d)
  BY <1>1, PendingLoses
<1>3. Pending \in Seq(Bytes) /\ Pending' \in Seq(Bytes) /\ d \in Nat
  BY PendingFacts, PendingNext
<1>4. sent \in Seq(Frame)
  BY DEF TypeOK
<1>5. Whole(Pending', sent, n, there)
  BY <1>2, <1>3, <1>4, WholeMoves
<1>6. there[n + 1] = at[n + 1] - d
  <2>1. n + 1 \in n + 1 .. Len(sent) + 1
    BY PendingFacts
  <2> QED
    BY <2>1
<1> HIDE DEF there
<1> QED
  BY <1>5, <1>6

\* The call that finds no frame, with the bytes of the next one behind what
\* has no head: it leaves the frame whole and the buffer with room.
LEMMA FindsNoFrame ==
  ASSUME TypeOK, TypeOK', NEW n \in 0 .. Len(sent),
         NEW at, Whole(Pending, sent, n, at),
         \A i \in 1 .. Len(sent) : Fits(sent[i]),
         NoHead \/ Incomplete \/ BadStop
  PROVE  /\ UNCHANGED <<sent, heard>> /\ Len(buf') < BufSize
         /\ \E there :
              /\ Whole(Pending', sent, n, there)
              /\ n < Len(sent) =>
                   there[n + 1] + FrameEnd(sent[n + 1]) > Len(buf') + 1
<1> DEFINE k == at[n + 1]
           f == sent[n + 1]
<1>1. n <= Len(sent) /\ n \in Nat /\ Len(sent) \in Nat /\ Len(buf) \in Nat
  BY PendingFacts
<1>2. k \in Nat \ {0} /\ (n < Len(sent) => f \in Frame)
  BY NextFrame
<1>3. n < Len(sent) => FrameEnd(f) \in Nat /\ FrameEnd(f) >= 7
  BY <1>2, BytesOfFrame DEF FrameEnd
<1>4. NoFrame /\ UNCHANGED <<sent, heard>>
  BY DEF NoHead, Incomplete, BadStop, NoFrame
<1>5. CASE NoHead
  <2> DEFINE d == IF buf = <<>> THEN 0 ELSE Len(buf) - 1
  <2>1. d \in 0 .. Len(buf) /\ Len(buf) - d <= 1 /\ Without(buf', buf, d)
    BY <1>5, NoHeadDrops
  <2>2. Len(buf') = Len(buf) - d
    BY <2>1 DEF Without
  <2>3. Len(buf) <= k
    BY <1>5, HeadsAreNext DEF NoHead
  <2>4. d < k
    <3>1. buf # <<>> => Len(buf) - 1 < k
      BY <1>1, <1>2, <2>3
    <3> QED
      BY <1>2, <3>1
  <2> HIDE DEF d, k, f
  <2>5. Len(buf') < BufSize
    BY <1>1, <2>1, <2>2, ParserAssumption
  <2>6. n < Len(sent) => (k - d) + FrameEnd(f) > Len(buf') + 1
    BY <1>1, <1>2, <1>3, <2>1, <2>2, <2>4
  <2> QED
    BY <1>4, <2>1, <2>2, <2>4, <2>5, <2>6, DropsGarbage DEF k, f
<1>6. CASE Incomplete
  <2> DEFINE h == Min(Heads)
             d == h - 1
  <2>1. Heads # {} /\ ~Complete(AtHead) /\ buf' = AtHead
    BY <1>6 DEF Incomplete
  <2>2. h = k /\ n < Len(sent)
    BY <2>1, HeadsAreNext
  <2>3. /\ h \in 1 .. Len(buf) - 1 /\ Len(AtHead) = Len(buf) - (h - 1)
        /\ \A i \in 1 .. Len(AtHead) : AtHead[i] = buf[i + (h - 1)]
    BY <2>1, FirstHead
  <2>4. FrameEnd(f) > Len(AtHead)
    <3>1. ~(FrameEnd(f) <= Len(AtHead))
      BY <2>1, HeadIsNextFrame
    <3> QED
      BY <1>1, <1>3, <2>2, <2>3, <3>1
  <2>5. FrameEnd(f) <= BufSize
    <3>1. n + 1 \in 1 .. Len(sent)
      BY <1>1, <2>2
    <3> QED
      BY <3>1 DEF Fits
  <2>6. Without(buf', buf, d)
    BY <2>1, <2>3 DEF Without
  <2> HIDE DEF h, k, f
  <2>7. d \in 0 .. Len(buf) /\ d < k /\ k - d = 1
    BY <1>1, <1>2, <2>2, <2>3
  <2>8. Len(buf') < BufSize
    BY <1>1, <1>3, <2>1, <2>2, <2>3, <2>4, <2>5, ParserAssumption
  <2>9. (k - d) + FrameEnd(f) > Len(buf') + 1
    BY <1>1, <1>3, <2>1, <2>2, <2>3, <2>4, <2>7
  <2> HIDE DEF d
  <2> QED
    BY <1>4, <2>6, <2>7, <2>8, <2>9, DropsGarbage DEF k, f
<1>7. CASE BadStop
  <2>1. Heads # {} /\ Complete(AtHead) /\ ~StopIsRight(AtHead)
    BY <1>7 DEF BadStop
  <2> QED
    BY <2>1, HeadIsNextFrame
<1> QED
  BY <1>5, <1>6, <1>7

\* The frame that is taken is the next one.
LEMMA TakesNext ==
  ASSUME TypeOK, TypeOK', NEW n \in 0 .. Len(sent),
         NEW at, Whole(Pending, sent, n, at),
         \A i \in 1 .. Len(sent) : Fits(sent[i]),
         TakeFrame
  PROVE  /\ n < Len(sent) /\ sent[n + 1] \in Frame
         /\ heard' = Append(heard, sent[n + 1])
         /\ sent' = sent /\ pc' = "extract"
         /\ \E there : Whole(Pending', sent, n + 1, there)
<1> DEFINE f == sent[n + 1]
<1>1. n \in Nat /\ Len(sent) \in Nat /\ Len(buf) \in Nat
  BY PendingFacts
<1>2. Heads # {} /\ Complete(AtHead) /\ UNCHANGED <<data, pc, line, sent>>
      /\ pc = "extract"
  BY DEF TakeFrame
<1>3. /\ n < Len(sent) /\ f \in Frame /\ FrameEnd(f) \in Nat /\ FrameEnd(f) >= 7
      /\ FrameEnd(f) <= Len(AtHead) /\ TotalLen(AtHead) = FrameEnd(f)
      /\ Fits(f) =>
           f = [type |-> AtHead[3], addr |-> AtHead[4],
                payload |-> SubSeq(AtHead, 6, 5 + Min({AtHead[5], PayloadMax}))]
  BY <1>2, HeadIsNextFrame, ZenonT(60)
<1>4. heard' = Append(heard, f)
  <2>1. Fits(f)
    <3>1. n + 1 \in 1 .. Len(sent)
      BY <1>1, <1>3
    <3> QED
      BY <3>1
  <2> QED
    BY <1>3, <2>1 DEF TakeFrame
<1> DEFINE k == at[n + 1]
           h == Min(Heads)
           e == FrameEnd(f)
           d == (k - 1) + e
<1>5. h = k /\ Adjoin(Pending, sent, n, at) /\ k \in Nat \ {0}
  BY <1>2, HeadsAreNext, NextFrame
<1>6. d \in 0 .. Len(buf) /\ Without(buf', buf, d)
  <2>1. buf' = From(AtHead, e + 1) /\ e \in Nat /\ e <= Len(AtHead)
    BY <1>3 DEF TakeFrame
  <2> HIDE DEF e
  <2> QED
    BY <1>2, <1>5, <2>1, HeadDrops
<1>7. Without(Pending', Pending, d)
  <2> HIDE DEF d
  <2> QED
    BY <1>2, <1>6, PendingLoses
<1>8. d \in Nat /\ d + 1 = at[n + 1] + FrameEnd(sent[n + 1])
  BY <1>3, <1>5
<1>9. Pending \in Seq(Bytes) /\ Pending' \in Seq(Bytes)
  BY PendingFacts, PendingNext
<1>10. sent \in Seq(Frame)
  BY DEF TypeOK
<1> HIDE DEF d
<1>11. \E there : Whole(Pending', sent, n + 1, there)
  BY <1>3, <1>5, <1>7, <1>8, <1>9, <1>10, WholeWithoutFirst
<1> QED
  BY <1>2, <1>3, <1>4, <1>11

\* What a step that hears nothing has to show.
LEMMA NothingHeard ==
  ASSUME TypeOK, CleanInv, UNCHANGED <<sent, heard>>,
         pc' # "extract" => Len(buf') < BufSize,
         NEW there, Whole(Pending', sent, Len(heard), there),
         pc' # "extract" /\ Len(heard) < Len(sent) =>
           there[Len(heard) + 1] + FrameEnd(sent[Len(heard) + 1]) > Len(buf') + 1
  PROVE  CleanInv'
<1>1. there \in [Len(heard) + 1 .. Len(sent) + 1 -> 1 .. Len(Pending') + 1]
  BY DEF Whole, Adjoin
<1>2. pc' # "extract" => NotYet(Len(heard), there)'
  BY DEF NotYet
<1> QED
  BY <1>1, <1>2 DEF CleanInv

LEMMA InitClean ==
  ASSUME \A s \in Streams : Clean(s), TypeOK, buf = <<>>, data = <<>>,
         pc = "idle", heard = <<>>,
         NEW s \in Streams, line = s.bytes, sent = s.frames
  PROVE  CleanInv
<1>1. PICK at : CleanAt(s, at)
  BY DEF Clean
<1>2. s.bytes \in Seq(Bytes) /\ s.frames \in Seq(Frame)
  BY ParserAssumption
<1>3. Pending = line
  BY <1>2, ConcatEmptySeq DEF Pending
<1>4. Len(heard) = 0 /\ Len(buf) = 0 /\ Len(sent) \in Nat
  BY <1>2, LenProperties
<1>5. Whole(Pending, sent, Len(heard), at)
  BY <1>1, <1>3, <1>4 DEF CleanAt
<1>6. at \in [Len(heard) + 1 .. Len(sent) + 1 -> 1 .. Len(Pending) + 1]
  BY <1>5 DEF Whole, Adjoin
<1>7. \A i \in 1 .. Len(sent) : Fits(sent[i])
  BY <1>1, <1>2, LenProperties DEF CleanAt
<1>8. NotYet(Len(heard), at)
  <2> SUFFICES ASSUME Len(heard) < Len(sent)
               PROVE  at[Len(heard) + 1] + FrameEnd(sent[Len(heard) + 1]) > Len(buf) + 1
    BY DEF NotYet
  <2> DEFINE k == at[Len(heard) + 1]
             f == sent[Len(heard) + 1]
  <2>1. k \in Nat \ {0} /\ f \in Frame
    BY <1>4, <1>5, NextFrame
  <2>2. FrameEnd(f) \in Nat /\ FrameEnd(f) >= 7
    BY <2>1, BytesOfFrame DEF FrameEnd
  <2> HIDE DEF k, f
  <2>3. k + FrameEnd(f) > Len(buf) + 1
    BY <1>4, <2>1, <2>2
  <2> QED
    BY <2>3 DEF k, f
<1> QED
  BY <1>4, <1>5, <1>6, <1>7, <1>8, ParserAssumption DEF CleanInv

\* The parser of a connection that was just opened.
Opened ==
  /\ buf = <<>> /\ data = <<>> /\ pc = "idle" /\ heard = <<>>
  /\ \E s \in Streams : line = s.bytes /\ sent = s.frames

LEMMA OpenedClean == (\A q \in Streams : Clean(q)) /\ TypeOK /\ Opened => CleanInv
<1> SUFFICES ASSUME \A q \in Streams : Clean(q), TypeOK, Opened PROVE CleanInv
  OBVIOUS
<1>1. PICK s \in Streams : line = s.bytes /\ sent = s.frames
  BY DEF Opened
<1> QED
  BY <1>1, InitClean DEF Opened

LEMMA OpenedCleanNext ==
  ((\A q \in Streams : Clean(q)) /\ TypeOK /\ Opened => CleanInv)'
BY OpenedClean, PTL

LEMMA NextClean ==
  ASSUME \A s \in Streams : Clean(s), TypeOK, TypeOK', CleanInv, [Next]_vars
  PROVE  CleanInv'
<1> DEFINE n == Len(heard)
<1>1. PICK at : /\ Whole(Pending, sent, n, at)
                /\ pc # "extract" => NotYet(n, at)
  BY DEF CleanInv
<1>2. n \in 0 .. Len(sent) /\ n \in Nat /\ Len(sent) \in Nat
  BY PendingFacts DEF CleanInv
<1>3. \A i \in 1 .. Len(sent) : Fits(sent[i])
  BY DEF CleanInv
<1>4. CASE Read
  <2>1. Pending' = Pending /\ UNCHANGED <<buf, sent, heard>> /\ pc = "idle"
    BY <1>4, ReadKeepsPending DEF Read
  <2>2. n < Len(sent) => at[n + 1] + FrameEnd(sent[n + 1]) > Len(buf') + 1
    BY <1>1, <2>1 DEF NotYet
  <2>3. Len(buf') < BufSize
    BY <2>1 DEF CleanInv
  <2> QED
    BY <1>1, <2>1, <2>2, <2>3, NothingHeard
<1>5. CASE Fill
  <2>1. pc = "fill" /\ pc' = "extract" /\ UNCHANGED <<sent, heard>>
    BY <1>5 DEF Fill
  <2>2. Pending' = Pending
    BY <1>5, <2>1, FillKeepsPending DEF CleanInv
  <2> QED
    BY <1>1, <2>1, <2>2, NothingHeard
<1>6. CASE NoHead \/ Incomplete \/ BadStop
  <2> HIDE DEF n
  <2>1. /\ UNCHANGED <<sent, heard>> /\ Len(buf') < BufSize
        /\ \E there :
             /\ Whole(Pending', sent, n, there)
             /\ n < Len(sent) =>
                  there[n + 1] + FrameEnd(sent[n + 1]) > Len(buf') + 1
    BY <1>1, <1>2, <1>3, <1>6, FindsNoFrame
  <2> QED
    BY <2>1, NothingHeard DEF n
<1>7. CASE TakeFrame
  <2> HIDE DEF n
  <2>1. /\ n < Len(sent) /\ sent[n + 1] \in Frame
        /\ heard' = Append(heard, sent[n + 1])
        /\ sent' = sent /\ pc' = "extract"
        /\ \E there : Whole(Pending', sent, n + 1, there)
    BY <1>1, <1>2, <1>3, <1>7, TakesNext
  <2>2. PICK there : Whole(Pending', sent, n + 1, there)
    BY <2>1
  <2>3. there \in [(n + 1) + 1 .. Len(sent) + 1 -> 1 .. Len(Pending') + 1]
    BY <2>2 DEF Whole, Adjoin
  <2>4. /\ Len(heard') = n + 1 /\ \A i \in 1 .. n : heard'[i] = heard[i]
        /\ heard'[n + 1] = sent[n + 1]
    BY <2>1, AppendFacts DEF TypeOK, n
  <2>5. \A i \in 1 .. n + 1 : heard'[i] = sent[i]
    <3>1. \A i \in 1 .. n + 1 : i \in 1 .. n \/ i = n + 1
      BY <1>2
    <3>2. \A i \in 1 .. n : heard[i] = sent[i]
      BY DEF CleanInv, n
    <3> QED
      BY <2>4, <3>1, <3>2
  <2>6. n + 1 <= Len(sent)
    BY <1>2, <2>1
  <2> QED
    BY <1>3, <2>1, <2>2, <2>3, <2>4, <2>5, <2>6 DEF CleanInv
<1>8. CASE Reopen
  <2>1. PICK s \in Streams : line' = s.bytes /\ sent' = s.frames
    BY <1>8 DEF Reopen
  <2>2. buf' = <<>> /\ data' = <<>> /\ pc' = "idle" /\ heard' = <<>>
    BY <1>8 DEF Reopen, ParserInit, TypeOK
  <2> QED
    BY <2>1, <2>2, OpenedCleanNext DEF Opened
<1>9. CASE UNCHANGED vars
  BY <1>9 DEF vars, CleanInv, NotYet, Pending
<1> QED
  BY <1>4, <1>5, <1>6, <1>7, <1>8, <1>9 DEF Next, Feed

-----------------------------------------------------------------------------
(* The promises of the parser *)

LEMMA CleanInvariance ==
  ASSUME \A s \in Streams : Clean(s)
  PROVE  Spec => [](TypeOK /\ CleanInv)
<1>1. Init => TypeOK /\ CleanInv
  <2> SUFFICES ASSUME Init PROVE TypeOK /\ CleanInv
    OBVIOUS
  <2>1. PICK s \in Streams : line = s.bytes /\ sent = s.frames
    BY DEF Init
  <2>2. TypeOK
    BY InitTypeOK
  <2>3. buf = <<>> /\ data = <<>> /\ pc = "idle" /\ heard = <<>>
    BY DEF Init, ParserInit
  <2> QED
    BY <2>1, <2>2, <2>3, InitClean
<1>2. TypeOK /\ CleanInv /\ [Next]_vars => (TypeOK /\ CleanInv)'
  BY NextTypeOK, NextClean
<1> QED
  BY <1>1, <1>2, PTL DEF Spec

\* On connections on which nothing is lost and no frame is too long for the
\* buffer and the record, however the driver cuts the bytes and whatever is
\* left of a frame the port was opened in the middle of: once every byte was
\* read, every frame sent was given to on_frame.
THEOREM NothingHeldBack ==
  ASSUME \A s \in Streams : Clean(s)
  PROVE  Spec => []NothingIsHeldBack
<1>1. TypeOK /\ CleanInv => NothingIsHeldBack
  <2> SUFFICES ASSUME TypeOK, CleanInv, pc = "idle", line = <<>>
               PROVE  heard = sent
    BY DEF NothingIsHeldBack
  <2>1. PICK at : /\ Whole(Pending, sent, Len(heard), at)
                  /\ NotYet(Len(heard), at)
    BY DEF CleanInv
  <2>2. Len(heard) <= Len(sent) /\ Len(heard) \in Nat /\ Len(sent) \in Nat
    BY PendingFacts DEF CleanInv
  <2>3. Len(Pending) = Len(buf)
    <3>1. Len(data) = 0 /\ Len(line) = 0 /\ Len(buf) \in Nat
      BY PendingFacts DEF TypeOK
    <3> QED
      BY <3>1, PendingFacts
  <2>4. ~(Len(heard) < Len(sent))
    <3> SUFFICES ASSUME Len(heard) < Len(sent) PROVE FALSE
      OBVIOUS
    <3>1. FrameAt(Pending, at[Len(heard) + 1], sent[Len(heard) + 1])
      BY <2>1, <2>2, NextFrame
    <3>2. at[Len(heard) + 1] + FrameEnd(sent[Len(heard) + 1]) <= Len(buf) + 1
      BY <2>3, <3>1 DEF FrameAt
    <3>3. at[Len(heard) + 1] + FrameEnd(sent[Len(heard) + 1]) > Len(buf) + 1
      BY <2>1 DEF NotYet
    <3>4. at[Len(heard) + 1] \in Nat /\ FrameEnd(sent[Len(heard) + 1]) \in Nat
          /\ Len(buf) \in Nat
      <4>1. at[Len(heard) + 1] \in Nat /\ sent[Len(heard) + 1] \in Frame
        BY <2>1, <2>2, NextFrame
      <4>2. FrameEnd(sent[Len(heard) + 1]) \in Nat
        BY <4>1, BytesOfFrame DEF FrameEnd
      <4> QED
        BY <4>1, <4>2, PendingFacts
    <3> QED
      BY <3>2, <3>3, <3>4
  <2>5. Len(heard) = Len(sent)
    BY <2>2, <2>4
  <2>6. \A i \in 1 .. Len(heard) : heard[i] = sent[i]
    BY DEF CleanInv
  <2> QED
    BY <2>5, <2>6, SeqEqual DEF TypeOK
<1> QED
  BY <1>1, CleanInvariance, PTL

\* On the same connections the parser implements the stream of frames: what
\* is given to on_frame is what was sent, each frame once, in order, whole.
THEOREM FramesDelivered ==
  ASSUME \A s \in Streams : Clean(s)
  PROVE  Spec => FramesAreDelivered
<1>1. Init => Delivered!Init
  BY ParserAssumption DEF Init, Delivered!Init
<1>2. TypeOK /\ CleanInv /\ TypeOK' /\ [Next]_vars => [Delivered!Next]_<<sent, heard>>
  <2> SUFFICES ASSUME TypeOK, CleanInv, TypeOK', [Next]_vars
               PROVE  [Delivered!Next]_<<sent, heard>>
    OBVIOUS
  <2>1. CASE TakeFrame
    <3>1. Len(heard) < Len(sent) /\ heard' = Append(heard, sent[Len(heard) + 1])
      <4>1. Len(heard) \in 0 .. Len(sent) /\ \A i \in 1 .. Len(sent) : Fits(sent[i])
        BY PendingFacts DEF CleanInv
      <4>2. PICK at : Whole(Pending, sent, Len(heard), at)
        BY DEF CleanInv
      <4> QED
        BY <2>1, <4>1, <4>2, TakesNext
    <3>2. sent' = sent
      BY <2>1 DEF TakeFrame
    <3> QED
      BY <3>1, <3>2 DEF Delivered!Next, Delivered!Deliver
  <2>2. CASE Reopen
    <3>1. sent' \in Seq(Frame) /\ heard' = <<>>
      BY <2>2 DEF Reopen, TypeOK
    <3> QED
      BY <3>1 DEF Delivered!Next, Delivered!Restart
  <2>3. CASE UNCHANGED <<sent, heard>>
    BY <2>3
  <2> QED
    BY <2>1, <2>2, <2>3 DEF Next, Feed, Read, Fill, NoFrame, NoHead,
       Incomplete, BadStop, vars
<1> QED
  BY <1>1, <1>2, CleanInvariance, PTL DEF Spec, FramesAreDelivered, Delivered!Spec

-----------------------------------------------------------------------------
(* A cut into the frames *)

\* Frames take room: each is at least as long as the shortest reply.
LEMMA FramesTakeRoom ==
  ASSUME NEW b \in Seq(Bytes), NEW fs \in Seq(Frame), NEW at,
         Adjoin(b, fs, 0, at),
         \A i \in 1 .. Len(fs) : FrameEnd(fs[i]) >= ReplyLen
  PROVE  \A j \in 0 .. Len(fs) : ReplyLen * j + 1 <= at[j + 1]
<1> DEFINE Short == {j \in 0 .. Len(fs) : ~(ReplyLen * j + 1 <= at[j + 1])}
           m == Min(Short)
<1>1. Len(b) \in Nat /\ Len(fs) \in Nat
  BY LenProperties
<1>2. at \in [1 .. Len(fs) + 1 -> 1 .. Len(b) + 1]
  BY DEF Adjoin
<1>3. SUFFICES ASSUME Short # {} PROVE FALSE
  BY <1>3
<1>4. m \in Short /\ \A y \in Short : m <= y
  <2>1. Short \in SUBSET Nat
    OBVIOUS
  <2> HIDE DEF Short
  <2> QED
    BY <1>3, <2>1, MinOfSet
<1> HIDE DEF m
<1>5. m \in 0 .. Len(fs) /\ ~(ReplyLen * m + 1 <= at[m + 1])
  BY <1>4
<1>6. m # 0
  <2>1. at[0 + 1] \in 1 .. Len(b) + 1
    BY <1>1, <1>2
  <2> QED
    BY <1>5, <2>1 DEF ReplyLen
<1> DEFINE p == m - 1
<1>7. /\ p \in 0 .. Len(fs) /\ m \in 1 .. Len(fs) /\ m = p + 1
      /\ ~(m <= p)
  BY <1>1, <1>5, <1>6
<1>8. ReplyLen * p + 1 <= at[m]
  BY <1>4, <1>7
<1> HIDE DEF p, Short
<1>9. at[m + 1] = at[m] + FrameEnd(fs[m])
  <2>1. m \in 0 + 1 .. Len(fs)
    BY <1>7
  <2> QED
    BY <2>1 DEF Adjoin
<1>10. FrameEnd(fs[m]) \in Nat /\ FrameEnd(fs[m]) >= ReplyLen
  <2>1. fs[m] \in Frame
    BY <1>7, ElementOfSeq
  <2> QED
    BY <1>7, <2>1, BytesOfFrame DEF FrameEnd
<1>11. at[m] \in Nat /\ at[m + 1] \in Nat
  <2>1. m \in 1 .. Len(fs) + 1 /\ m + 1 \in 1 .. Len(fs) + 1
    BY <1>1, <1>7
  <2>2. at[m] \in 1 .. Len(b) + 1 /\ at[m + 1] \in 1 .. Len(b) + 1
    BY <1>2, <2>1
  <2> QED
    BY <2>2
<1>12. p \in Nat /\ m \in Nat
  BY <1>7
<1> QED
  BY <1>5, <1>7, <1>8, <1>9, <1>10, <1>11, <1>12 DEF ReplyLen

\* While the cut is before the frames, their heads go with them.
LEMMA OwnHeadsMove ==
  ASSUME NEW b \in Seq(Bytes), NEW c \in Seq(Bytes), NEW fs \in Seq(Frame),
         NEW at, Adjoin(b, fs, 0, at), OwnHeads(b, fs, at),
         NEW d \in Nat, d < at[1], Without(c, b, d)
  PROVE  LET there == [i \in 1 .. Len(fs) + 1 |-> at[i] - d]
         IN  Adjoin(c, fs, 0, there) /\ OwnHeads(c, fs, there)
<1> DEFINE there == [i \in 1 .. Len(fs) + 1 |-> at[i] - d]
<1>1. Len(b) \in Nat /\ Len(c) \in Nat /\ Len(fs) \in Nat /\ 0 \in 0 .. Len(fs)
  BY LenProperties
<1>2. Adjoin(c, fs, 0, there)
  <2>1. d < at[0 + 1]
    OBVIOUS
  <2>2. Adjoin(c, fs, 0, [i \in 0 + 1 .. Len(fs) + 1 |-> at[i] - d])
    BY <1>1, <2>1, FramesMove
  <2> QED
    BY <2>2
<1>3. at \in [1 .. Len(fs) + 1 -> 1 .. Len(b) + 1]
  BY DEF Adjoin
<1>4. at[1] \in Nat /\ there[1] = at[1] - d
  <2>1. 1 \in 1 .. Len(fs) + 1
    BY <1>1
  <2>2. at[1] \in 1 .. Len(b) + 1
    BY <1>3, <2>1
  <2> QED
    BY <2>1, <2>2
<1>5. ASSUME NEW i \in there[1] .. Len(c), HeadAt(c, i)
      PROVE  \E j \in 1 .. Len(fs) : i = there[j]
  <2>1. i \in Nat \ {0} /\ i + d \in at[1] .. Len(b)
    BY <1>1, <1>4 DEF Without
  <2>2. HeadAt(b, i + d)
    BY <1>5, <2>1, HeadMoves
  <2>3. PICK j \in 1 .. Len(fs) : i + d = at[j]
    BY <2>1, <2>2 DEF OwnHeads
  <2>4. there[j] = at[j] - d
    BY <1>1
  <2> QED
    BY <2>1, <2>3, <2>4
<1> HIDE DEF there
<1>6. OwnHeads(c, fs, there)
  BY <1>5 DEF OwnHeads
<1> QED
  BY <1>2, <1>6 DEF there

\* The first l frames began in the d bytes that went, no more than have room
\* there, and the others are whole in what is left.
CutLeaves(c, fs, d, l, there) ==
  /\ Whole(c, fs, l, there)
  /\ ReplyLen * (l - 1) + 1 <= d
  /\ \A j \in l .. Len(fs) : ReplyLen * j + 1 <= there[j + 1] + d

\* A cut behind the beginning of the first frame.
LEMMA CutFrames ==
  ASSUME NEW b \in Seq(Bytes), NEW c \in Seq(Bytes), NEW fs \in Seq(Frame),
         NEW at, Adjoin(b, fs, 0, at), OwnHeads(b, fs, at),
         \A i \in 1 .. Len(fs) : FrameEnd(fs[i]) >= ReplyLen,
         NEW d \in 0 .. Len(b), at[1] <= d, Without(c, b, d)
  PROVE  \E l \in 1 .. Len(fs) : \E there : CutLeaves(c, fs, d, l, there)
<1>1. Len(b) \in Nat /\ Len(c) \in Nat /\ Len(fs) \in Nat /\ d \in Nat
  BY LenProperties
<1>2. /\ at \in [1 .. Len(fs) + 1 -> 1 .. Len(b) + 1]
      /\ \A i, j \in 1 .. Len(fs) + 1 : i <= j => at[i] <= at[j]
      /\ at[Len(fs) + 1] = Len(b) + 1
  BY DEF Adjoin
<1>nat. ASSUME NEW i \in 1 .. Len(fs) + 1 PROVE at[i] \in Nat
  <2>1. at[i] \in 1 .. Len(b) + 1
    BY <1>2
  <2> QED
    BY <2>1
<1> DEFINE Later == {i \in 1 .. Len(fs) + 1 : d < at[i]}
           m == Min(Later)
<1>3. m \in Later /\ \A y \in Later : m <= y
  <2>1. Later \in SUBSET Nat
    OBVIOUS
  <2>2. Len(fs) + 1 \in Later
    BY <1>1, <1>2
  <2> HIDE DEF Later
  <2> QED
    BY <2>1, <2>2, MinOfSet
<1> HIDE DEF m
<1>4. m \in 1 .. Len(fs) + 1 /\ d < at[m] /\ m # 1
  <2>1. at[1] \in Nat
    BY <1>1, <1>nat
  <2> QED
    BY <1>1, <1>3, <2>1
<1> DEFINE l == m - 1
           rest == [i \in l + 1 .. Len(fs) + 1 |-> at[i]]
           there == [i \in l + 1 .. Len(fs) + 1 |-> rest[i] - d]
<1>5. l \in 1 .. Len(fs) /\ m = l + 1 /\ l \in 0 .. Len(fs)
  BY <1>1, <1>4
<1>6. at[l] <= d
  <2>1. l \in 1 .. Len(fs) + 1 /\ ~(m <= l)
    BY <1>1, <1>5
  <2>2. ~(d < at[l])
    BY <1>3, <2>1
  <2> QED
    BY <1>1, <1>nat, <2>1, <2>2
<1> HIDE DEF l, Later
<1>7. l + 1 \in l + 1 .. Len(fs) + 1 /\ rest[l + 1] = at[l + 1]
  BY <1>1, <1>5
<1>8. Adjoin(b, fs, l, rest)
  <2>1. 0 \in 0 .. Len(fs) /\ l \in 0 .. Len(fs)
    BY <1>1, <1>5
  <2> QED
    BY <2>1, AdjoinLater
<1>9. Adjoin(c, fs, l, there)
  <2>1. d < rest[l + 1]
    BY <1>4, <1>5, <1>7
  <2> HIDE DEF rest
  <2> QED
    BY <1>1, <1>5, <1>8, <2>1, FramesMove
<1>10. \A j \in l .. Len(fs) : there[j + 1] = at[j + 1] - d
  BY <1>1, <1>5
<1> HIDE DEF rest, there
<1>11. ASSUME NEW i \in 1 .. there[l + 1] - 1, HeadAt(c, i) PROVE FALSE
  <2>1. there[l + 1] = at[l + 1] - d /\ at[l + 1] \in Nat
    BY <1>1, <1>4, <1>5, <1>10, <1>nat
  <2>2. i \in Nat \ {0} /\ d < i + d /\ i + d < at[l + 1]
    BY <1>1, <2>1
  <2>3. HeadAt(b, i + d)
    BY <1>1, <1>11, <2>2, HeadMoves
  <2>4. i + d \in at[1] .. Len(b)
    <3>1. at[1] \in Nat /\ i + d < Len(b)
      BY <1>1, <1>nat, <2>3 DEF HeadAt
    <3> QED
      BY <1>1, <2>2, <3>1
  <2>5. PICK j \in 1 .. Len(fs) : i + d = at[j]
    BY <2>3, <2>4 DEF OwnHeads
  <2>6. CASE j <= l
    <3>1. j \in 1 .. Len(fs) + 1 /\ l \in 1 .. Len(fs) + 1
      BY <1>1, <1>5
    <3>2. at[j] <= at[l] /\ at[j] \in Nat /\ at[l] \in Nat
      BY <1>2, <1>nat, <2>6, <3>1
    <3> QED
      BY <1>1, <1>6, <2>2, <2>5, <3>2
  <2>7. CASE l + 1 <= j
    <3>1. j \in 1 .. Len(fs) + 1 /\ l + 1 \in 1 .. Len(fs) + 1
      BY <1>1, <1>5
    <3>2. at[l + 1] <= at[j] /\ at[j] \in Nat
      BY <1>2, <1>nat, <2>7, <3>1
    <3> QED
      BY <1>1, <2>1, <2>2, <2>5, <3>2
  <2> QED
    BY <1>5, <2>6, <2>7
<1>12. Whole(c, fs, l, there)
  BY <1>9, <1>11 DEF Whole
<1>13. \A j \in 0 .. Len(fs) : ReplyLen * j + 1 <= at[j + 1]
  BY FramesTakeRoom
<1>14. ReplyLen * (l - 1) + 1 <= d
  <2>1. l - 1 \in 0 .. Len(fs) /\ (l - 1) + 1 = l /\ at[l] \in Nat
    BY <1>1, <1>5, <1>nat
  <2>2. ReplyLen * (l - 1) + 1 <= at[l]
    BY <1>13, <2>1
  <2> QED
    BY <1>1, <1>6, <2>1, <2>2 DEF ReplyLen
<1>15. \A j \in l .. Len(fs) : ReplyLen * j + 1 <= there[j + 1] + d
  <2> TAKE j \in l .. Len(fs)
  <2>1. j \in 0 .. Len(fs) /\ at[j + 1] \in Nat
    BY <1>1, <1>5, <1>nat
  <2>2. ReplyLen * j + 1 <= at[j + 1] /\ there[j + 1] = at[j + 1] - d
    BY <1>10, <1>13, <2>1
  <2> QED
    BY <1>1, <2>1, <2>2 DEF ReplyLen
<1> QED
  BY <1>5, <1>12, <1>14, <1>15 DEF CutLeaves

-----------------------------------------------------------------------------
(* The steps on a damaged stream *)

\* No frame was reached yet: they are all there, behind any bytes at all.
InDamage(at) ==
  Adjoin(Pending, sent, 0, at) /\ OwnHeads(Pending, sent, at)

\* The first l frames were lost, as many as the buffer has room for; those
\* from there to the k-th were heard last; the others are whole in the bytes
\* not parsed.  Between two runs of the inner loop the buffer has room, and
\* the only whole frames left in it are such as might as well have been lost
\* (a head that was none was dropped, and the call ended).
Recovered(l, k, at) ==
  /\ l <= k /\ ReplyLen * l <= BufSize
  /\ k - l <= Len(heard)
  /\ \A i \in 1 .. k - l : heard[(Len(heard) - (k - l)) + i] = sent[l + i]
  /\ Whole(Pending, sent, k, at)
  /\ pc # "extract" =>
       /\ Len(buf) < BufSize
       /\ \A j \in k + 1 .. Len(sent) :
            at[j + 1] <= Len(buf) + 1 => ReplyLen * j <= BufSize

FramesFit ==
  \A i \in 1 .. Len(sent) : Fits(sent[i]) /\ FrameEnd(sent[i]) >= ReplyLen

DamagedInv ==
  /\ FramesFit
  /\ \/ \E at \in [1 .. Len(sent) + 1 -> 1 .. Len(Pending) + 1] : InDamage(at)
     \/ \E l, k \in 0 .. Len(sent) :
          \E at \in [k + 1 .. Len(sent) + 1 -> 1 .. Len(Pending) + 1] :
            Recovered(l, k, at)

LEMMA StaysInDamage ==
  ASSUME FramesFit, sent' = sent, NEW there,
         Adjoin(Pending', sent, 0, there), OwnHeads(Pending', sent, there)
  PROVE  DamagedInv'
<1>1. there \in [1 .. Len(sent) + 1 -> 1 .. Len(Pending') + 1]
  BY DEF Adjoin
<1>2. InDamage(there)'
  BY DEF InDamage
<1>3. FramesFit'
  BY DEF FramesFit
<1> QED
  BY <1>1, <1>2, <1>3 DEF DamagedInv

LEMMA IsRecovered ==
  ASSUME FramesFit, sent' = sent, NEW l \in 0 .. Len(sent),
         NEW k \in 0 .. Len(sent), l <= k, ReplyLen * l <= BufSize,
         k - l <= Len(heard'),
         \A i \in 1 .. k - l : heard'[(Len(heard') - (k - l)) + i] = sent[l + i],
         NEW there, Whole(Pending', sent, k, there),
         pc' # "extract" =>
           /\ Len(buf') < BufSize
           /\ \A j \in k + 1 .. Len(sent) :
                there[j + 1] <= Len(buf') + 1 => ReplyLen * j <= BufSize
  PROVE  DamagedInv'
<1>1. there \in [k + 1 .. Len(sent) + 1 -> 1 .. Len(Pending') + 1]
  BY DEF Whole, Adjoin
<1>2. Recovered(l, k, there)'
  BY DEF Recovered
<1>3. FramesFit'
  BY DEF FramesFit
<1> QED
  BY <1>1, <1>2, <1>3 DEF DamagedInv

\* Whatever goes of a damaged stream, if it was in the buffer: the frames are
\* still behind what comes first, or those that have room in what went are
\* lost and the others can be heard.
LEMMA DamageLoses ==
  ASSUME BufSize % ReplyLen = 0, TypeOK, TypeOK', FramesFit, sent' = sent,
         NEW at, InDamage(at),
         NEW d \in 0 .. Len(buf), Without(Pending', Pending, d),
         pc' # "extract" => Len(buf') + d <= Len(buf)
  PROVE  DamagedInv'
<1>1. Pending \in Seq(Bytes) /\ Pending' \in Seq(Bytes) /\ sent \in Seq(Frame)
  BY PendingFacts, PendingNext DEF TypeOK
<1>2. /\ Len(buf) \in Nat /\ Len(buf) <= BufSize /\ Len(buf) <= Len(Pending)
      /\ Len(Pending) \in Nat /\ Len(sent) \in Nat /\ d \in Nat
  BY PendingFacts DEF TypeOK
<1>3. Adjoin(Pending, sent, 0, at) /\ OwnHeads(Pending, sent, at)
  BY DEF InDamage
<1>4. at[1] \in Nat \ {0}
  <2>1. at \in [1 .. Len(sent) + 1 -> 1 .. Len(Pending) + 1]
    BY <1>3 DEF Adjoin
  <2>2. at[1] \in 1 .. Len(Pending) + 1
    BY <1>2, <2>1
  <2> QED
    BY <2>2
<1>5. CASE d < at[1]
  <2> DEFINE there == [i \in 1 .. Len(sent) + 1 |-> at[i] - d]
  <2>1. Adjoin(Pending', sent, 0, there) /\ OwnHeads(Pending', sent, there)
    BY <1>1, <1>2, <1>3, <1>5, OwnHeadsMove
  <2> HIDE DEF there
  <2> QED
    BY <2>1, StaysInDamage
<1>6. CASE at[1] <= d
  <2>1. d \in 0 .. Len(Pending) /\ d >= 1
    BY <1>2, <1>4, <1>6
  <2>2. \A i \in 1 .. Len(sent) : FrameEnd(sent[i]) >= ReplyLen
    BY DEF FramesFit
  <2>3. \E l \in 1 .. Len(sent) : \E there : CutLeaves(Pending', sent, d, l, there)
    BY <1>1, <1>3, <1>6, <2>1, <2>2, CutFrames
  <2> PICK l \in 1 .. Len(sent) : \E there : CutLeaves(Pending', sent, d, l, there)
    BY <2>3
  <2>4. PICK there :
          /\ Whole(Pending', sent, l, there)
          /\ ReplyLen * (l - 1) + 1 <= d
          /\ \A j \in l .. Len(sent) : ReplyLen * j + 1 <= there[j + 1] + d
    BY DEF CutLeaves
  <2>5. ReplyLen * l <= BufSize
    <3> DEFINE m == BufSize \div 8
    <3>1. m \in Nat /\ BufSize = 8 * m
      BY ParserAssumption DEF ReplyLen
    <3> HIDE DEF m
    <3>2. l \in Nat /\ 8 * (l - 1) + 1 <= 8 * m
      BY <1>2, <2>4, <3>1 DEF ReplyLen
    <3> QED
      BY <3>1, <3>2 DEF ReplyLen
  <2>6. ASSUME pc' # "extract"
        PROVE  /\ Len(buf') < BufSize
               /\ \A j \in l + 1 .. Len(sent) :
                    there[j + 1] <= Len(buf') + 1 => ReplyLen * j <= BufSize
    <3>1. Len(buf') \in Nat /\ Len(buf') + d <= Len(buf)
      BY <2>6, LenProperties DEF TypeOK
    <3>2. Len(buf') < BufSize
      BY <1>2, <2>1, <3>1, ParserAssumption
    <3>3. ASSUME NEW j \in l + 1 .. Len(sent), there[j + 1] <= Len(buf') + 1
          PROVE  ReplyLen * j <= BufSize
      <4>1. j \in l .. Len(sent) /\ j \in Nat
        BY <1>2
      <4>2. there[j + 1] \in Nat
        <5>1. there \in [l + 1 .. Len(sent) + 1 -> 1 .. Len(Pending') + 1]
          BY <2>4 DEF Whole, Adjoin
        <5>2. j + 1 \in l + 1 .. Len(sent) + 1
          BY <1>2
        <5>3. there[j + 1] \in 1 .. Len(Pending') + 1
          BY <5>1, <5>2
        <5> QED
          BY <5>3
      <4>3. ReplyLen * j + 1 <= there[j + 1] + d
        BY <2>4, <4>1
      <4> QED
        BY <1>2, <3>1, <3>3, <4>1, <4>2, <4>3, ParserAssumption DEF ReplyLen
    <3> QED
      BY <3>2, <3>3
  <2>7. l \in 0 .. Len(sent) /\ l <= l /\ l - l = 0 /\ l - l <= Len(heard')
    BY <1>2, LenProperties DEF TypeOK
  <2>8. \A i \in 1 .. l - l : heard'[(Len(heard') - (l - l)) + i] = sent[l + i]
    BY <2>7
  <2> QED
    BY <2>4, <2>5, <2>6, <2>7, <2>8, IsRecovered
<1> QED
  BY <1>2, <1>4, <1>5, <1>6

\* A call of proto_try_extract_one loses nothing but bytes of the buffer.
LEMMA ExtractLoses ==
  ASSUME TypeOK, TypeOK', NoHead \/ Incomplete \/ BadStop \/ TakeFrame
  PROVE  \E d \in 0 .. Len(buf) :
           Without(Pending', Pending, d) /\ Len(buf') + d <= Len(buf)
<1>1. UNCHANGED <<data, line>>
  BY DEF NoHead, Incomplete, BadStop, TakeFrame, NoFrame
<1>2. \E d \in 0 .. Len(buf) : Without(buf', buf, d)
  <2>1. CASE NoHead
    BY <2>1, NoHeadDrops
  <2>2. CASE Incomplete
    <3> DEFINE d == Min(Heads) - 1
    <3>1. Heads # {} /\ buf' = AtHead
      BY <2>2 DEF Incomplete
    <3>2. d \in 0 .. Len(buf) /\ Without(buf', buf, d)
      BY <3>1, FirstHead, PendingFacts DEF Without
    <3> QED
      BY <3>2
  <2>3. CASE BadStop
    <3>1. Heads # {} /\ buf' = From(AtHead, 2 + 1) /\ 2 <= Len(AtHead)
      BY <2>3, FirstHead DEF BadStop
    <3> QED
      BY <3>1, HeadDrops
  <2>4. CASE TakeFrame
    <3> DEFINE e == TotalLen(AtHead)
    <3>1. /\ Heads # {} /\ e \in Nat /\ e <= Len(AtHead)
          /\ buf' = From(AtHead, e + 1)
      BY <2>4, CompleteHead DEF TakeFrame
    <3> HIDE DEF e
    <3> QED
      BY <3>1, HeadDrops
  <2> QED
    BY <2>1, <2>2, <2>3, <2>4
<1>3. PICK d \in 0 .. Len(buf) : Without(buf', buf, d)
  BY <1>2
<1>4. Without(Pending', Pending, d)
  BY <1>1, <1>3, PendingLoses
<1>5. Len(buf') + d <= Len(buf)
  BY <1>3, PendingFacts DEF Without
<1> QED
  BY <1>4, <1>5

\* What comes after the damage is heard, one frame behind the other.
LEMMA RecoveredGoesOn ==
  ASSUME TypeOK, TypeOK', FramesFit, NEW l \in 0 .. Len(sent),
         NEW k \in 0 .. Len(sent), NEW at, Recovered(l, k, at),
         NoHead \/ Incomplete \/ BadStop \/ TakeFrame
  PROVE  DamagedInv'
<1>1. /\ l <= k /\ ReplyLen * l <= BufSize /\ k - l <= Len(heard)
      /\ \A i \in 1 .. k - l : heard[(Len(heard) - (k - l)) + i] = sent[l + i]
      /\ Whole(Pending, sent, k, at)
  BY DEF Recovered
<1>2. \A i \in 1 .. Len(sent) : Fits(sent[i])
  BY DEF FramesFit
<1>3. /\ k \in Nat /\ l \in Nat /\ Len(sent) \in Nat /\ Len(heard) \in Nat
      /\ Len(buf') \in Nat /\ k <= Len(sent)
  BY PendingFacts, LenProperties DEF TypeOK
<1>4. CASE NoHead \/ Incomplete \/ BadStop
  <2>1. /\ UNCHANGED <<sent, heard>> /\ Len(buf') < BufSize
        /\ \E there :
             /\ Whole(Pending', sent, k, there)
             /\ k < Len(sent) =>
                  there[k + 1] + FrameEnd(sent[k + 1]) > Len(buf') + 1
    BY <1>1, <1>2, <1>4, FindsNoFrame
  <2>2. PICK there :
          /\ Whole(Pending', sent, k, there)
          /\ k < Len(sent) => there[k + 1] + FrameEnd(sent[k + 1]) > Len(buf') + 1
    BY <2>1
  <2>3. ASSUME NEW j \in k + 1 .. Len(sent), there[j + 1] <= Len(buf') + 1
        PROVE  FALSE
    <3>1. /\ there \in [k + 1 .. Len(sent) + 1 -> 1 .. Len(Pending') + 1]
          /\ \A p, q \in k + 1 .. Len(sent) + 1 : p <= q => there[p] <= there[q]
          /\ \A i \in k + 1 .. Len(sent) : there[i + 1] = there[i] + FrameEnd(sent[i])
      BY <2>2 DEF Whole, Adjoin
    <3>2. /\ k < Len(sent) /\ k + 1 \in k + 1 .. Len(sent)
          /\ k + 2 \in k + 1 .. Len(sent) + 1 /\ j + 1 \in k + 1 .. Len(sent) + 1
          /\ k + 2 <= j + 1 /\ (k + 1) + 1 = k + 2
      BY <1>3
    <3>3. there[k + 2] <= there[j + 1]
      BY <3>1, <3>2
    <3>4. there[k + 2] = there[k + 1] + FrameEnd(sent[k + 1])
      BY <3>1, <3>2
    <3>5. there[k + 2] > Len(buf') + 1
      BY <2>2, <3>2, <3>4
    <3>6. there[k + 2] \in 1 .. Len(Pending') + 1 /\ there[j + 1] \in 1 .. Len(Pending') + 1
      BY <3>1, <3>2
    <3>7. there[k + 2] \in Nat /\ there[j + 1] \in Nat
      BY <3>6
    <3> QED
      BY <1>3, <2>3, <3>3, <3>5, <3>7
  <2> QED
    BY <1>1, <2>1, <2>2, <2>3, IsRecovered
<1>5. CASE TakeFrame
  <2>1. /\ k < Len(sent) /\ sent[k + 1] \in Frame
        /\ heard' = Append(heard, sent[k + 1])
        /\ sent' = sent /\ pc' = "extract"
        /\ \E there : Whole(Pending', sent, k + 1, there)
    BY <1>1, <1>2, <1>5, TakesNext
  <2>2. PICK there : Whole(Pending', sent, k + 1, there)
    BY <2>1
  <2>3. /\ Len(heard') = Len(heard) + 1
        /\ \A i \in 1 .. Len(heard) : heard'[i] = heard[i]
        /\ heard'[Len(heard) + 1] = sent[k + 1]
    BY <2>1, AppendFacts DEF TypeOK
  <2>4. /\ k + 1 \in 0 .. Len(sent) /\ l <= k + 1 /\ (k + 1) - l <= Len(heard')
        /\ Len(heard') - ((k + 1) - l) = Len(heard) - (k - l)
    <3> DEFINE x == Len(heard)
               y == Len(heard')
               z == Len(sent)
    <3>1. x \in Nat /\ z \in Nat /\ y = x + 1 /\ k < z /\ l <= k /\ k - l <= x
      BY <1>1, <1>3, <2>1, <2>3
    <3> HIDE DEF x, y, z
    <3>2. /\ k + 1 \in 0 .. z /\ l <= k + 1 /\ (k + 1) - l <= y
          /\ y - ((k + 1) - l) = x - (k - l)
      BY <1>3, <3>1
    <3> QED
      BY <3>2 DEF x, y, z
  <2>5. ASSUME NEW i \in 1 .. (k + 1) - l
        PROVE  heard'[(Len(heard') - ((k + 1) - l)) + i] = sent[l + i]
    <3>1. CASE i \in 1 .. k - l
      <4>1. (Len(heard) - (k - l)) + i \in 1 .. Len(heard)
        BY <1>1, <1>3, <3>1
      <4> QED
        BY <1>1, <2>3, <2>4, <3>1, <4>1
    <3>2. CASE i = (k + 1) - l
      <4>1. (Len(heard) - (k - l)) + i = Len(heard) + 1 /\ l + i = k + 1
        BY <1>1, <1>3, <3>2
      <4> QED
        BY <2>3, <2>4, <4>1
    <3> QED
      BY <1>1, <1>3, <3>1, <3>2
  <2> QED
    BY <1>1, <2>1, <2>2, <2>4, <2>5, IsRecovered
<1> QED
  BY <1>4, <1>5

LEMMA InitDamaged == (\A q \in Streams : Damaged(q)) /\ TypeOK /\ Opened => DamagedInv
<1> SUFFICES ASSUME \A q \in Streams : Damaged(q), TypeOK, Opened PROVE DamagedInv
  OBVIOUS
<1>1. PICK s \in Streams : line = s.bytes /\ sent = s.frames
  BY DEF Opened
<1>2. PICK at : DamagedAt(s, at)
  BY DEF Damaged
<1>3. s.bytes \in Seq(Bytes) /\ s.frames \in Seq(Frame)
  BY ParserAssumption
<1>4. Pending = line
  BY <1>1, <1>3, ConcatEmptySeq DEF Pending, Opened
<1>5. InDamage(at)
  BY <1>1, <1>2, <1>4 DEF DamagedAt, InDamage
<1>6. at \in [1 .. Len(sent) + 1 -> 1 .. Len(Pending) + 1]
  BY <1>5 DEF InDamage, Adjoin
<1>7. FramesFit
  BY <1>1, <1>2, <1>3, LenProperties DEF DamagedAt, FramesFit
<1> QED
  BY <1>5, <1>6, <1>7 DEF DamagedInv

LEMMA InitDamagedNext ==
  ((\A q \in Streams : Damaged(q)) /\ TypeOK /\ Opened => DamagedInv)'
BY InitDamaged, PTL

LEMMA NextDamaged ==
  ASSUME \A s \in Streams : Damaged(s), BufSize % ReplyLen = 0,
         TypeOK, TypeOK', DamagedInv, [Next]_vars
  PROVE  DamagedInv'
<1> DEFINE Step == Read \/ Fill \/ NoHead \/ Incomplete \/ BadStop \/ TakeFrame
                   \/ UNCHANGED vars
<1>1. FramesFit
  BY DEF DamagedInv
<1>2. CASE Reopen
  <2>1. PICK s \in Streams : line' = s.bytes /\ sent' = s.frames
    BY <1>2 DEF Reopen
  <2>2. buf' = <<>> /\ data' = <<>> /\ pc' = "idle" /\ heard' = <<>>
    BY <1>2 DEF Reopen, ParserInit, TypeOK
  <2> QED
    BY <2>1, <2>2, InitDamagedNext DEF Opened
<1>same. UNCHANGED vars => UNCHANGED <<buf, sent, heard, pc>> /\ Pending' = Pending
  BY DEF vars, Pending
<1>step. Read \/ Fill \/ NoHead \/ Incomplete \/ BadStop \/ TakeFrame => sent' = sent
  BY DEF Read, Fill, NoHead, Incomplete, BadStop, TakeFrame, NoFrame
<1>read. Read => Pending' = Pending /\ UNCHANGED <<buf, sent, heard>>
                 /\ pc = "idle" /\ pc' = "fill"
  BY ReadKeepsPending DEF Read
<1>fill. Fill => pc = "fill" /\ pc' = "extract" /\ UNCHANGED <<sent, heard>>
  BY DEF Fill
<1>3. ASSUME NEW at, InDamage(at), Step
      PROVE  DamagedInv'
  <2>1. sent' = sent
    BY <1>3, <1>step, <1>same
  <2>2. CASE Read
    BY <1>1, <1>3, <1>read, <2>2, StaysInDamage DEF InDamage
  <2>3. CASE Fill
    <3>1. PICK d \in 0 .. Len(buf) : Without(Pending', Pending, d)
      BY <2>3, FillLoses
    <3> QED
      BY <1>1, <1>3, <1>fill, <2>1, <2>3, <3>1, DamageLoses
  <2>4. CASE NoHead \/ Incomplete \/ BadStop \/ TakeFrame
    <3>1. PICK d \in 0 .. Len(buf) :
            Without(Pending', Pending, d) /\ Len(buf') + d <= Len(buf)
      BY <2>4, ExtractLoses
    <3> QED
      BY <1>1, <1>3, <2>1, <3>1, DamageLoses
  <2>5. CASE UNCHANGED vars
    BY <1>1, <1>3, <1>same, <2>5, StaysInDamage DEF InDamage
  <2> QED
    BY <1>3, <2>2, <2>3, <2>4, <2>5
<1>4. ASSUME NEW l \in 0 .. Len(sent), NEW k \in 0 .. Len(sent), NEW at,
             Recovered(l, k, at), Step
      PROVE  DamagedInv'
  <2>1. CASE Read
    BY <1>1, <1>4, <1>read, <2>1, IsRecovered DEF Recovered
  <2>2. CASE Fill
    <3>1. Pending' = Pending
      BY <1>4, <1>fill, <2>2, FillKeepsPending DEF Recovered
    <3> QED
      BY <1>1, <1>4, <1>fill, <2>2, <3>1, IsRecovered DEF Recovered
  <2>3. CASE NoHead \/ Incomplete \/ BadStop \/ TakeFrame
    BY <1>1, <1>4, <2>3, RecoveredGoesOn
  <2>4. CASE UNCHANGED vars
    BY <1>1, <1>4, <1>same, <2>4, IsRecovered DEF Recovered
  <2> QED
    BY <1>4, <2>1, <2>2, <2>3, <2>4
<1>5. Step => DamagedInv'
  BY <1>3, <1>4 DEF DamagedInv
<1> QED
  BY <1>2, <1>5 DEF Next, Feed

LEMMA DamagedPromise ==
  ASSUME BufSize % ReplyLen = 0, TypeOK, DamagedInv, pc = "idle", line = <<>>
  PROVE  IsSuffix(From(sent, BufSize \div ReplyLen + 1), heard)
<1> DEFINE m == BufSize \div ReplyLen
           tail == From(sent, m + 1)
<1>1. /\ m \in Nat /\ BufSize = ReplyLen * m
      /\ Len(sent) \in Nat /\ Len(heard) \in Nat
      /\ sent \in Seq(Frame) /\ heard \in Seq(Frame)
  BY PendingFacts, ParserAssumption DEF ReplyLen, TypeOK
<1>2. Len(Pending) = Len(buf) /\ Len(buf) \in Nat /\ Len(buf) <= BufSize
  BY PendingFacts, EmptySeq DEF TypeOK
<1> HIDE DEF m
<1>3. ASSUME Len(sent) <= m PROVE IsSuffix(tail, heard)
  <2>1. tail = <<>>
    BY <1>1, <1>3 DEF From
  <2> HIDE DEF tail
  <2>2. tail \in Seq(Frame) /\ Len(tail) = 0
    BY <2>1
  <2>3. \A i \in 1 .. Len(tail) : tail[i] = heard[(Len(heard) - Len(tail)) + i]
    BY <2>2
  <2>4. Len(tail) <= Len(heard) /\ heard \in Seq(Frame)
    BY <1>1, <2>2
  <2> QED
    BY <2>2, <2>3, <2>4, SuffixFacts
<1>4. ASSUME NEW at, InDamage(at) PROVE IsSuffix(tail, heard)
  <2>2. Adjoin(Pending, sent, 0, at) /\ Pending \in Seq(Bytes)
    BY <1>4, PendingFacts DEF InDamage
  <2>3. \A j \in 0 .. Len(sent) : ReplyLen * j + 1 <= at[j + 1]
    BY <1>1, <2>2, FramesTakeRoom DEF DamagedInv, FramesFit
  <2>4. at[Len(sent) + 1] = Len(buf) + 1
    BY <1>2, <2>2 DEF Adjoin
  <2>5. ReplyLen * Len(sent) + 1 <= Len(buf) + 1
    BY <1>1, <2>3, <2>4
  <2>6. Len(sent) <= m
    BY <1>1, <1>2, <2>5 DEF ReplyLen
  <2> QED
    BY <1>3, <2>6
<1>5. ASSUME NEW l \in 0 .. Len(sent), NEW k \in 0 .. Len(sent), NEW at,
             Recovered(l, k, at)
      PROVE  IsSuffix(tail, heard)
  <2>1. /\ l <= k /\ ReplyLen * l <= BufSize /\ k - l <= Len(heard)
        /\ \A i \in 1 .. k - l : heard[(Len(heard) - (k - l)) + i] = sent[l + i]
        /\ Whole(Pending, sent, k, at)
        /\ \A j \in k + 1 .. Len(sent) :
             at[j + 1] <= Len(buf) + 1 => ReplyLen * j <= BufSize
    BY <1>5 DEF Recovered
  <2>2. l \in Nat /\ k \in Nat /\ l <= m
    BY <1>1, <2>1 DEF ReplyLen
  <2>3. CASE k < Len(sent)
    <3>1. at[Len(sent) + 1] = Len(buf) + 1
      BY <1>2, <2>1 DEF Whole, Adjoin
    <3>2. Len(sent) \in k + 1 .. Len(sent) /\ Len(buf) + 1 <= Len(buf) + 1
      BY <1>1, <1>2, <2>2, <2>3
    <3>3. ReplyLen * Len(sent) <= BufSize
      BY <2>1, <3>1, <3>2
    <3>4. Len(sent) <= m
      BY <1>1, <3>3 DEF ReplyLen
    <3> QED
      BY <1>3, <3>4
  <2>4. CASE k = Len(sent) /\ m <= Len(sent)
    <3>1. m \in 0 .. Len(sent)
      BY <1>1, <2>4
    <3>2. /\ tail \in Seq(Frame) /\ Len(tail) = Len(sent) - m
          /\ \A i \in 1 .. Len(tail) : tail[i] = sent[i + m]
      BY <1>1, <3>1, RestFacts DEF From
    <3> HIDE DEF tail
    <3>3. Len(tail) <= Len(heard)
      BY <1>1, <2>1, <2>2, <2>4, <3>2
    <3>4. ASSUME NEW i \in 1 .. Len(tail)
          PROVE  tail[i] = heard[(Len(heard) - Len(tail)) + i]
      <4> DEFINE q == (m - l) + i
      <4>1. /\ q \in 1 .. k - l /\ l + q = i + m
            /\ (Len(heard) - (k - l)) + q = (Len(heard) - Len(tail)) + i
        BY <1>1, <2>1, <2>2, <2>4, <3>2
      <4> HIDE DEF q
      <4>2. heard[(Len(heard) - (k - l)) + q] = sent[l + q]
        BY <2>1, <4>1
      <4> QED
        BY <3>2, <4>1, <4>2
    <3> QED
      BY <1>1, <3>2, <3>3, <3>4, SuffixFacts
  <2> QED
    BY <1>1, <1>3, <2>2, <2>3, <2>4
<1>6. IsSuffix(tail, heard)
  BY <1>4, <1>5 DEF DamagedInv
<1> QED
  BY <1>6 DEF m, tail

\* On connections that begin with any bytes at all and then bring replies
\* only, whatever the driver makes of them and whatever frame the first bytes
\* seem to begin: no more replies are lost than the buffer has room for, and
\* all that come later are handled, in order.
THEOREM DamageBounded ==
  ASSUME \A s \in Streams : Damaged(s), BufSize % ReplyLen = 0
  PROVE  Spec => []DamageIsBounded
<1>1. Init => TypeOK /\ DamagedInv
  <2> SUFFICES ASSUME Init PROVE TypeOK /\ DamagedInv
    OBVIOUS
  <2>1. TypeOK
    BY InitTypeOK
  <2>2. Opened
    BY DEF Init, Opened, ParserInit
  <2> QED
    BY <2>1, <2>2, InitDamaged
<1>2. TypeOK /\ DamagedInv /\ [Next]_vars => (TypeOK /\ DamagedInv)'
  BY NextTypeOK, NextDamaged
<1>3. TypeOK /\ DamagedInv => DamageIsBounded
  BY DamagedPromise DEF DamageIsBounded
<1> QED
  BY <1>1, <1>2, <1>3, PTL DEF Spec

=============================================================================
