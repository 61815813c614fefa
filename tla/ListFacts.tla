------------------------------ MODULE ListFacts ------------------------------
(***************************************************************************)
(* Facts about operators of the community modules that the proofs about    *)
(* PortList and FrameParser share: the smallest of a set of numbers, and   *)
(* what a list holds after one value came or went.                         *)
(***************************************************************************)
EXTENDS Integers, SequencesExt, SequenceTheorems, WellFoundedInduction, TLAPS

\* A set of numbers that is not empty has a smallest one, and Min finds it.
LEMMA MinOfSet ==
  ASSUME NEW S \in SUBSET Nat, S # {}
  PROVE  Min(S) \in S /\ \A y \in S : Min(S) <= y
<1>1. \E x \in S : \A y \in S : ~(<<y, x>> \in OpToRel(<, Nat))
  BY NatLessThanWellFounded, WFMin
<1>2. \A x, y \in Nat : <<y, x>> \in OpToRel(<, Nat) <=> y < x
  BY DEF OpToRel
<1>3. \E x \in S : \A y \in S : x <= y
  <2>1. PICK x \in S : \A y \in S : ~(<<y, x>> \in OpToRel(<, Nat))
    BY <1>1
  <2>2. ASSUME NEW y \in S PROVE x <= y
    <3>1. x \in Nat /\ y \in Nat
      OBVIOUS
    <3>2. ~(y < x)
      BY <1>2, <2>1, <3>1, Zenon
    <3> QED
      BY <3>1, <3>2
  <2> QED
    BY <2>2
<1> QED
  BY <1>3 DEF Min

\* The smaller of two numbers.
LEMMA MinOfTwo ==
  ASSUME NEW a \in Int, NEW b \in Int
  PROVE  Min({a, b}) = IF a <= b THEN a ELSE b
<1>1. CASE a <= b
  <2>1. \A x \in {a, b} : (\A y \in {a, b} : x <= y) <=> x = a
    BY <1>1
  <2> QED
    BY <1>1, <2>1 DEF Min
<1>2. CASE ~(a <= b)
  <2>1. \A x \in {a, b} : (\A y \in {a, b} : x <= y) <=> x = b
    BY <1>2
  <2> QED
    BY <1>2, <2>1 DEF Min
<1> QED
  BY <1>1, <1>2

\* Appending one element.
LEMMA AppendFacts ==
  ASSUME NEW S, NEW s \in Seq(S), NEW e \in S
  PROVE  /\ Append(s, e) \in Seq(S)
         /\ Len(Append(s, e)) = Len(s) + 1
         /\ \A i \in 1 .. Len(s) : Append(s, e)[i] = s[i]
         /\ Append(s, e)[Len(s) + 1] = e
OBVIOUS

\* A list without its first d elements.
LEMMA RestFacts ==
  ASSUME NEW S, NEW s \in Seq(S), NEW d \in 0 .. Len(s)
  PROVE  LET r == SubSeq(s, d + 1, Len(s))
         IN  /\ r \in Seq(S) /\ Len(r) = Len(s) - d
             /\ \A i \in 1 .. Len(r) : r[i] = s[i + d]
OBVIOUS

\* The first d elements of a list.
LEMMA FirstFacts ==
  ASSUME NEW S, NEW s \in Seq(S), NEW d \in 0 .. Len(s)
  PROVE  LET r == SubSeq(s, 1, d)
         IN  /\ r \in Seq(S) /\ Len(r) = d
             /\ \A i \in 1 .. d : r[i] = s[i]
OBVIOUS

\* A value that came moves those behind it by one ...
LEMMA InsertFacts ==
  ASSUME NEW S, NEW s \in Seq(S), NEW at \in 1 .. Len(s) + 1, NEW e \in S
  PROVE  /\ InsertAt(s, at, e) \in Seq(S)
         /\ Len(InsertAt(s, at, e)) = Len(s) + 1
         /\ \A i \in 1 .. Len(s) + 1 :
              InsertAt(s, at, e)[i] = IF i < at THEN s[i]
                                      ELSE IF i = at THEN e ELSE s[i - 1]
<1> DEFINE l == SubSeq(s, 1, at - 1)
           r == SubSeq(s, at, Len(s))
           m == l \o <<e>>
<1>1. l \in Seq(S) /\ Len(l) = at - 1 /\ \A i \in 1 .. at - 1 : l[i] = s[i]
  BY FirstFacts
<1>2. r \in Seq(S) /\ Len(r) = Len(s) + 1 - at
      /\ \A i \in 1 .. Len(r) : r[i] = s[i + at - 1]
  BY RestFacts
<1>3. InsertAt(s, at, e) = m \o r
  BY DEF InsertAt
<1> HIDE DEF l, r
<1>4. m \in Seq(S) /\ Len(m) = at
      /\ \A i \in 1 .. at : m[i] = IF i < at THEN s[i] ELSE e
  BY <1>1, ConcatProperties
<1> HIDE DEF m
<1>5. /\ m \o r \in Seq(S) /\ Len(m \o r) = Len(m) + Len(r)
      /\ \A i \in 1 .. Len(m) + Len(r) :
           (m \o r)[i] = IF i <= Len(m) THEN m[i] ELSE r[i - Len(m)]
  BY <1>2, <1>4, ConcatProperties
<1> DEFINE w == m \o r
<1>6. w = InsertAt(s, at, e) /\ w \in Seq(S) /\ Len(w) = Len(m) + Len(r)
      /\ \A i \in 1 .. Len(m) + Len(r) :
           w[i] = IF i <= Len(m) THEN m[i] ELSE r[i - Len(m)]
  BY <1>3, <1>5
<1> HIDE DEF w
<1>7. Len(w) = Len(s) + 1
  BY <1>2, <1>4, <1>6
<1>8. ASSUME NEW i \in 1 .. Len(s) + 1
      PROVE  w[i] = IF i < at THEN s[i] ELSE IF i = at THEN e ELSE s[i - 1]
  <2>1. CASE i <= at
    BY <1>4, <1>6, <1>7, <2>1
  <2>2. CASE at < i
    <3>1. w[i] = r[i - at] /\ i - at \in 1 .. Len(r) /\ (i - at) + at - 1 = i - 1
      BY <1>2, <1>4, <1>6, <2>2
    <3> QED
      BY <1>2, <2>2, <3>1
  <2> QED
    BY <2>1, <2>2
<1> QED
  BY <1>6, <1>7, <1>8, Zenon

\* ... and one that went lets them up by one.
LEMMA RemoveFacts ==
  ASSUME NEW S, NEW s \in Seq(S), NEW at \in 1 .. Len(s)
  PROVE  /\ RemoveAt(s, at) \in Seq(S)
         /\ Len(RemoveAt(s, at)) = Len(s) - 1
         /\ \A i \in 1 .. Len(s) - 1 :
              RemoveAt(s, at)[i] = IF i < at THEN s[i] ELSE s[i + 1]
<1> DEFINE l == SubSeq(s, 1, at - 1)
           r == SubSeq(s, at + 1, Len(s))
<1>1. l \in Seq(S) /\ Len(l) = at - 1 /\ \A i \in 1 .. at - 1 : l[i] = s[i]
  BY FirstFacts
<1>2. r \in Seq(S) /\ Len(r) = Len(s) - at
      /\ \A i \in 1 .. Len(r) : r[i] = s[i + at]
  BY RestFacts
<1>3. RemoveAt(s, at) = l \o r
  BY DEF RemoveAt
<1> HIDE DEF l, r
<1> DEFINE w == l \o r
<1>4. w = RemoveAt(s, at) /\ w \in Seq(S) /\ Len(w) = Len(l) + Len(r)
      /\ \A i \in 1 .. Len(l) + Len(r) :
           w[i] = IF i <= Len(l) THEN l[i] ELSE r[i - Len(l)]
  BY <1>1, <1>2, <1>3, ConcatProperties
<1> HIDE DEF w
<1>5. Len(w) = Len(s) - 1
  BY <1>1, <1>2, <1>4
<1>6. ASSUME NEW i \in 1 .. Len(s) - 1
      PROVE  w[i] = IF i < at THEN s[i] ELSE s[i + 1]
  <2>1. CASE i < at
    BY <1>1, <1>2, <1>4, <2>1
  <2>2. CASE ~(i < at)
    <3> DEFINE k == i - (at - 1)
    <3>1. w[i] = r[k] /\ k \in 1 .. Len(r) /\ k + at = i + 1
      <4>1. i \in 1 .. Len(l) + Len(r) /\ ~(i <= Len(l)) /\ k = i - Len(l)
        BY <1>1, <1>2, <2>2
      <4>2. w[i] = r[k]
        BY <1>4, <4>1, Zenon
      <4> QED
        BY <1>1, <1>2, <2>2, <4>2
    <3> HIDE DEF k
    <3> QED
      BY <1>2, <2>2, <3>1
  <2> QED
    BY <2>1, <2>2
<1> QED
  BY <1>4, <1>5, <1>6, Zenon

\* A list is the end of another if its elements are the last ones of that.
LEMMA SuffixFacts ==
  ASSUME NEW S, NEW s \in Seq(S), NEW t \in Seq(S), Len(s) <= Len(t),
         \A i \in 1 .. Len(s) : s[i] = t[(Len(t) - Len(s)) + i]
  PROVE  IsSuffix(s, t)
<1> DEFINE m == Len(s)
           n == Len(t)
           r == Reverse(s)
           w == Reverse(t)
           v == SubSeq(w, 1, m)
<1>1. m \in Nat /\ n \in Nat /\ m <= n
  BY LenProperties
<1>2. /\ r \in Seq(S) /\ Len(r) = m
      /\ \A i \in 1 .. m : r[i] = s[(m - i) + 1]
  BY <1>1 DEF Reverse
<1>3. /\ w \in Seq(S) /\ Len(w) = n
      /\ \A i \in 1 .. n : w[i] = t[(n - i) + 1]
  BY <1>1 DEF Reverse
<1>4. \A i \in 1 .. m : s[i] = t[(n - m) + i]
  OBVIOUS
<1> HIDE DEF m, n, r, w
<1>5. m \in 0 .. Len(w) /\ m \in 0 .. Len(r)
  BY <1>1, <1>2, <1>3
<1>6. v \in Seq(S) /\ Len(v) = m /\ \A i \in 1 .. m : v[i] = w[i]
  BY <1>3, <1>5, FirstFacts
<1> HIDE DEF v
<1>7. ASSUME NEW i \in 1 .. m PROVE r[i] = v[i]
  <2>1. /\ (m - i) + 1 \in 1 .. m /\ i \in 1 .. n
        /\ (n - m) + ((m - i) + 1) = (n - i) + 1
    BY <1>1
  <2>2. r[i] = s[(m - i) + 1] /\ v[i] = t[(n - i) + 1]
    BY <1>2, <1>3, <1>6, <2>1
  <2>3. s[(m - i) + 1] = t[(n - m) + ((m - i) + 1)]
    BY <1>4, <2>1
  <2> QED
    BY <2>1, <2>2, <2>3
<1>8. r = v
  BY <1>2, <1>6, <1>7, SeqEqual
<1>9. SubSeq(r, 1, m) = r
  BY <1>2, SubSeqFull
<1>10. IsPrefix(r, w)
  BY <1>1, <1>2, <1>3, <1>8, <1>9 DEF IsPrefix, v
<1> QED
  BY <1>10 DEF IsSuffix, r, w

=============================================================================
