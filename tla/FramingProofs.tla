----------------------------- MODULE FramingProofs -----------------------------
(***************************************************************************)
(* What the C++ DUT keeps of a line that has not ended, that its answers   *)
(* do not depend on how the network cuts the stream into chunks, and that  *)
(* the Python DUT answers the same: for any stream and any line limit.     *)
(* Then the characters of a request: that both sides read the same text,   *)
(* for any bytes, and that any string comes back as it was sent.           *)
(***************************************************************************)
EXTENDS StreamFraming, RequestText, FiniteSetTheorems, WellFoundedInduction, TLAPS

\* The least of a non-empty set of numbers.
LEMMA LeastNumber ==
  ASSUME NEW S \in SUBSET Nat, S # {}
  PROVE  \E n \in S : \A m \in S : n <= m
<1>1. IsWellFoundedOn(OpToRel(<, Nat), Nat)
  BY NatLessThanWellFounded
<1>2. PICK n \in S : \A m \in S : ~(<<m, n>> \in OpToRel(<, Nat))
  BY <1>1, WFMin
<1>3. \A m \in S : ~(m < n)
  BY <1>2 DEF OpToRel
<1>4. \A m \in S : n <= m
  BY <1>3
<1> QED
  BY <1>4

\* Min finds it, and Max the greatest of a bounded one.
LEMMA MinIsLeast ==
  ASSUME NEW S \in SUBSET Nat, S # {}
  PROVE  Min(S) \in S /\ \A m \in S : Min(S) <= m
BY LeastNumber DEF Min

LEMMA MaxIsGreatest ==
  ASSUME NEW bound \in Nat, NEW S \in SUBSET (0..bound), S # {}
  PROVE  Max(S) \in S /\ \A m \in S : m <= Max(S)
<1> DEFINE T == {bound - m : m \in S}
<1>1. T \in SUBSET Nat /\ T # {}
  <2>1. \A m \in S : bound - m \in Nat
    OBVIOUS
  <2> QED
    BY <2>1
<1>2. PICK t \in T : \A u \in T : t <= u
  BY <1>1, LeastNumber
<1>3. PICK n \in S : t = bound - n
  BY <1>2
<1>4. \A m \in S : bound - n <= bound - m
  BY <1>2, <1>3
<1>5. \A m \in S : n >= m
  BY <1>4
<1>6. Max(S) \in S /\ \A m \in S : Max(S) >= m
  BY <1>3, <1>5 DEF Max
<1> QED
  BY <1>6

\* Strip cuts a line behind its last byte of payload.
LEMMA Stripped ==
  ASSUME NEW line \in Seq(Byte)
  PROVE  /\ Len(Strip(line)) \in 0..Len(line)
         /\ \A i \in DOMAIN line : i > Len(Strip(line)) => line[i] # "x"
<1> DEFINE S == {0} \cup {i \in DOMAIN line : line[i] = "x"}
<1>1. Len(line) \in Nat /\ S \in SUBSET (0..Len(line)) /\ S # {}
  OBVIOUS
<1>2. Max(S) \in S /\ \A m \in S : m <= Max(S)
  BY <1>1, MaxIsGreatest
<1>3. Max(S) \in 0..Len(line)
  BY <1>1, <1>2
<1>4. \A n \in 0..Len(line) : Len(SubSeq(line, 1, n)) = n
  OBVIOUS
<1>5. \A i \in DOMAIN line : line[i] = "x" => i <= Max(S)
  BY <1>2
<1> DEFINE n == Max(S)
<1>6. Strip(line) = SubSeq(line, 1, n)
  BY DEF Strip
<1> HIDE DEF n, S
<1>7. Len(Strip(line)) = n /\ n \in 0..Len(line)
  BY <1>3, <1>4, <1>6 DEF n
<1>8. \A i \in DOMAIN line : i > n => line[i] # "x"
  BY <1>3, <1>5 DEF n
<1> QED
  BY <1>7, <1>8

\* What has been read and not answered is the last part of what recv() returned, and
\* while recv() waits, it is one line that is not too long.
FramingInv ==
  /\ stream \in Seq(Byte)
  /\ \A i \in 1..(Len(stream) - LongestCR) : \E j \in i..(i + LongestCR) : stream[j] # "r"
  /\ cppPc \in {"recv", "extract", "closed"}
  /\ buffer \in Seq(Byte)
  /\ cppRead \in Nat /\ Len(buffer) <= cppRead /\ cppRead <= Len(stream)
  /\ \A i \in 1..Len(buffer) : buffer[i] = stream[cppRead - Len(buffer) + i]
  /\ cppPc = "recv" => Newlines(buffer) = {} /\ Len(Strip(buffer)) <= MaxLineBytes

\* What appending a chunk does.
LEMMA Appended ==
  ASSUME NEW a \in Seq(Byte), NEW b \in Seq(Byte)
  PROVE  /\ a \o b \in Seq(Byte) /\ Len(a \o b) = Len(a) + Len(b)
         /\ \A i \in 1..Len(a) : (a \o b)[i] = a[i]
         /\ \A i \in 1..Len(b) : (a \o b)[Len(a) + i] = b[i]
<1>1. a \o b \in Seq(Byte) /\ Len(a \o b) = Len(a) + Len(b)
  OBVIOUS
<1>2. \A i \in 1..Len(a) : (a \o b)[i] = a[i]
  OBVIOUS
<1>3. \A i \in 1..Len(b) : (a \o b)[Len(a) + i] = b[i]
  OBVIOUS
<1> QED
  BY <1>1, <1>2, <1>3

\* The receive buffer after recv() returned k bytes.
LEMMA Received ==
  ASSUME FramingInv, NEW k \in 1..MaxChunk, CppRecv(k)
  PROVE  FramingInv'
<1> DEFINE chunk == SubSeq(stream, cppRead + 1, cppRead + k)
<1>1. /\ k <= Len(stream) - cppRead /\ cppRead' = cppRead + k
      /\ buffer' = buffer \o chunk /\ cppPc' = "extract" /\ stream' = stream
  BY DEF CppRecv
<1>2. k \in Nat /\ cppRead + k <= Len(stream)
  BY <1>1, FramingAssumption DEF FramingInv
<1>3. chunk \in Seq(Byte) /\ Len(chunk) = k /\ \A i \in 1..k : chunk[i] = stream[cppRead + i]
  BY <1>2 DEF FramingInv
<1> HIDE DEF chunk
<1> DEFINE n == Len(buffer)
<1>4. n \in Nat /\ cppRead \in Nat /\ n <= cppRead
  BY DEF FramingInv
<1>5. /\ buffer' \in Seq(Byte) /\ Len(buffer') = n + k
      /\ \A i \in 1..n : buffer'[i] = stream[cppRead - n + i]
      /\ \A i \in 1..k : buffer'[n + i] = stream[cppRead + i]
  BY <1>1, <1>3, Appended DEF FramingInv
<1> HIDE DEF n
<1>6. ASSUME NEW i \in 1..(n + k)
      PROVE  buffer'[i] = stream[cppRead' - (n + k) + i]
  <2>1. cppRead' - (n + k) + i = cppRead - n + i
    BY <1>1, <1>2, <1>4
  <2>2. CASE i <= n
    BY <1>4, <1>5, <2>1, <2>2
  <2>3. CASE i > n
    <3> DEFINE m == i - n
    <3>1. m \in 1..k /\ i = n + m
      BY <1>2, <1>4, <2>3
    <3> HIDE DEF m
    <3>2. cppRead - n + i = cppRead + m
      BY <1>4, <3>1
    <3> QED
      BY <1>5, <2>1, <3>1, <3>2
  <2> QED
    BY <1>4, <2>2, <2>3
<1>7. n + k <= cppRead' /\ cppRead' <= Len(stream') /\ cppRead' \in Nat
  BY <1>1, <1>2, <1>4
<1> QED
  BY <1>1, <1>5, <1>6, <1>7 DEF FramingInv

\* The buffer once its first line is taken out of it.
LEMMA LineHandled ==
  ASSUME FramingInv, CppHandleLine
  PROVE  FramingInv'
<1> DEFINE newline == Min(Newlines(buffer))
           rest == SubSeq(buffer, newline + 1, Len(buffer))
<1>1. /\ cppPc = "extract" /\ Newlines(buffer) # {}
      /\ buffer' = rest /\ cppPc' \in {"closed", "extract"}
      /\ UNCHANGED <<stream, cppRead>>
  BY DEF CppHandleLine
<1>2. newline \in 1..Len(buffer)
  <2>1. Newlines(buffer) \in SUBSET (1..Len(buffer))
    BY DEF Newlines, FramingInv
  <2>2. Newlines(buffer) \in SUBSET Nat
    BY <2>1
  <2> QED
    BY <1>1, <2>1, <2>2, MinIsLeast
<1> HIDE DEF newline
<1>3. /\ rest \in Seq(Byte) /\ Len(rest) = Len(buffer) - newline
      /\ \A i \in 1..Len(rest) : rest[i] = buffer[newline + i]
  BY <1>2 DEF FramingInv
<1> HIDE DEF rest
<1>4. ASSUME NEW i \in 1..Len(rest)
      PROVE  rest[i] = stream[cppRead - Len(rest) + i]
  <2>1. newline + i \in 1..Len(buffer) /\ rest[i] = buffer[newline + i]
    BY <1>2, <1>3 DEF FramingInv
  <2>2. cppRead - Len(buffer) + (newline + i) = cppRead - Len(rest) + i
    BY <1>2, <1>3 DEF FramingInv
  <2> QED
    BY <2>1, <2>2 DEF FramingInv
<1>5. Len(rest) <= cppRead
  BY <1>2, <1>3 DEF FramingInv
<1> QED
  BY <1>1, <1>3, <1>4, <1>5 DEF FramingInv

\* The invariant of the framing.
THEOREM FramingInvariance == Spec => []FramingInv
<1>1. Init => FramingInv
  <2> SUFFICES ASSUME Init
               PROVE  FramingInv
    OBVIOUS
  <2>1. stream \in Seq(Byte)
    BY FramingAssumption DEF Init, Streams, BoundedSeq, SeqOf
  <2>2. \A i \in 1..(Len(stream) - LongestCR) : \E j \in i..(i + LongestCR) : stream[j] # "r"
    BY DEF Init, Streams
  <2>3. buffer = <<>> /\ buffer \in Seq(Byte) /\ Len(buffer) = 0 /\ DOMAIN buffer = {}
    BY DEF Init
  <2>4. Newlines(buffer) = {}
    BY <2>3 DEF Newlines
  <2>5. Len(Strip(buffer)) <= MaxLineBytes
    <3>1. Len(Strip(buffer)) \in 0..0
      BY <2>3, Stripped
    <3> QED
      BY <3>1, FramingAssumption
  <2>6. cppPc = "recv" /\ cppRead = 0 /\ 0 <= Len(stream)
    BY <2>1 DEF Init
  <2> QED
    BY <2>1, <2>2, <2>3, <2>4, <2>5, <2>6 DEF FramingInv
<1>2. FramingInv /\ [Next]_vars => FramingInv'
  <2> SUFFICES ASSUME FramingInv, [Next]_vars
               PROVE  FramingInv'
    OBVIOUS
  <2>1. CASE CppCap
    <3>1. UNCHANGED <<stream, cppRead, buffer>> /\ Newlines(buffer) = {}
          /\ cppPc' \in {"closed", "recv"} /\ (cppPc' = "recv" => Reply(buffer) # TooLong)
      BY <2>1 DEF CppCap
    <3>2. cppPc' = "recv" => Len(Strip(buffer)) <= MaxLineBytes
      <4>1. Len(Strip(buffer)) \in Nat
        BY Stripped DEF FramingInv
      <4> QED
        BY <3>1, <4>1, FramingAssumption DEF Reply
    <3>3. Newlines(buffer)' = Newlines(buffer) /\ Strip(buffer)' = Strip(buffer)
      BY <3>1 DEF Newlines, Strip
    <3> QED
      BY <3>1, <3>2, <3>3 DEF FramingInv
  <2>2. CASE CppEof
    <3>1. UNCHANGED <<stream, cppRead, buffer>> /\ cppPc' = "closed"
      BY <2>2 DEF CppEof
    <3> QED
      BY <3>1 DEF FramingInv
  <2>3. CASE PyHandleLine \/ PyEof \/ HalfClose \/ UNCHANGED vars
    <3>1. UNCHANGED <<stream, cppPc, cppRead, buffer>>
      BY <2>3 DEF PyHandleLine, PyEof, HalfClose, vars, cppVars
    <3>2. Newlines(buffer)' = Newlines(buffer) /\ Strip(buffer)' = Strip(buffer)
      BY <3>1 DEF Newlines, Strip
    <3> QED
      BY <3>1, <3>2 DEF FramingInv
  <2> QED
    BY <2>1, <2>2, <2>3, Received, LineHandled DEF Next
<1> QED
  BY <1>1, <1>2, PTL DEF Spec

\* What is kept of an unfinished line is the line limit and the longest run of CRs that
\* the client sends, whatever it sends.
KeepsLineAndCRs == cppPc = "recv" => Len(buffer) <= MaxLineBytes + LongestCR

THEOREM BufferHoldsOneLine == Spec => []KeepsLineAndCRs
<1>1. FramingInv => KeepsLineAndCRs
  <2> SUFFICES ASSUME FramingInv, cppPc = "recv", Len(buffer) > MaxLineBytes + LongestCR
               PROVE  FALSE
    BY FramingAssumption DEF KeepsLineAndCRs, FramingInv
  <2> DEFINE start == cppRead - Len(buffer) + MaxLineBytes + 1
  <2>1. Newlines(buffer) = {} /\ Len(Strip(buffer)) <= MaxLineBytes
        /\ Len(Strip(buffer)) \in Nat
    BY Stripped DEF FramingInv
  <2>2. ASSUME NEW i \in 1..Len(buffer), i > MaxLineBytes
        PROVE  buffer[i] = "r"
    <3>1. buffer[i] \in Byte /\ i \in DOMAIN buffer
      BY DEF FramingInv
    <3>2. i > Len(Strip(buffer))
      BY <2>1, <2>2, FramingAssumption
    <3>3. buffer[i] # "x" /\ buffer[i] # "n"
      BY <2>1, <3>1, <3>2, Stripped DEF Newlines, FramingInv
    <3> QED
      BY <3>1, <3>3 DEF Byte
  <2>3. start \in 1..(Len(stream) - LongestCR)
    BY FramingAssumption DEF FramingInv
  <2>4. PICK j \in start..(start + LongestCR) : stream[j] # "r"
    BY <2>3 DEF FramingInv
  <2> DEFINE i == j - (cppRead - Len(buffer))
  <2>5. i \in 1..Len(buffer) /\ i > MaxLineBytes /\ cppRead - Len(buffer) + i = j
    BY <2>4, FramingAssumption DEF FramingInv
  <2>6. buffer[i] = stream[j]
    BY <2>5 DEF FramingInv
  <2> QED
    BY <2>2, <2>4, <2>5, <2>6
<1> QED
  BY <1>1, FramingInvariance, PTL

\* "A client that streams without ever sending a newline" (server.cpp:44) does not make
\* the buffer grow: with one CR at most in a row, what is kept is a full payload and its CR.
THEOREM UnfinishedLineIsBounded ==
  ASSUME LongestCR <= 1
  PROVE  Spec => []BufferBounded
<1>1. KeepsLineAndCRs /\ FramingInv => BufferBounded
  BY FramingAssumption DEF KeepsLineAndCRs, BufferBounded, FramingInv
<1> QED
  BY <1>1, FramingInvariance, BufferHoldsOneLine, PTL

--------------------------------------------------------------------------------
(* The lines of a stream, counted by their newlines.                           *)

\* The count of line ends, along the stream.
LEMMA CountedLines ==
  ASSUME NEW s \in Seq(Byte)
  PROVE  /\ Newlines(s) \in SUBSET (1..Len(s)) /\ IsFiniteSet(Newlines(s))
         /\ Cardinality(Newlines(s)) \in Nat
         /\ \A d \in Nat : LinesUpTo(s, d) \in Nat
         /\ LinesUpTo(s, 0) = 0
         /\ \A d \in Nat : d >= Len(s) => LinesUpTo(s, d) = Cardinality(Newlines(s))
<1>1. Newlines(s) \in SUBSET (1..Len(s)) /\ Len(s) \in Nat
  BY DEF Newlines
<1>2. IsFiniteSet(Newlines(s))
  <2>1. IsFiniteSet(1..Len(s))
    BY <1>1, FS_Interval
  <2> QED
    BY <1>1, <2>1, FS_Subset
<1>3. \A d \in Nat : IsFiniteSet({n \in Newlines(s) : n <= d})
  <2> SUFFICES ASSUME NEW d \in Nat PROVE IsFiniteSet({n \in Newlines(s) : n <= d})
    OBVIOUS
  <2>1. {n \in Newlines(s) : n <= d} \in SUBSET Newlines(s)
    OBVIOUS
  <2> QED
    BY <1>2, <2>1, FS_Subset
<1>4. \A d \in Nat : LinesUpTo(s, d) \in Nat
  BY <1>3, FS_CardinalityType DEF LinesUpTo
<1>5. {n \in Newlines(s) : n <= 0} = {}
  BY <1>1
<1>6. \A d \in Nat : d >= Len(s) => {n \in Newlines(s) : n <= d} = Newlines(s)
  BY <1>1
<1> QED
  BY <1>1, <1>2, <1>4, <1>5, <1>6, FS_EmptySet, FS_CardinalityType DEF LinesUpTo

\* Between two positions the count grows by the newlines between them.
LEMMA CountAlong ==
  ASSUME NEW s \in Seq(Byte), NEW d \in Nat, NEW e \in Nat, d <= e
  PROVE  /\ LinesUpTo(s, d) <= LinesUpTo(s, e)
         /\ e \in Newlines(s) /\ d < e => LinesUpTo(s, d) < LinesUpTo(s, e)
         /\ (\A n \in Newlines(s) : ~(d < n /\ n <= e)) => LinesUpTo(s, e) = LinesUpTo(s, d)
         /\ e \in Newlines(s) /\ d < e /\ (\A n \in Newlines(s) : ~(d < n /\ n < e))
              => LinesUpTo(s, e) = LinesUpTo(s, d) + 1
<1> DEFINE A == {n \in Newlines(s) : n <= d}
           B == {n \in Newlines(s) : n <= e}
<1>1. Newlines(s) \in SUBSET (1..Len(s)) /\ IsFiniteSet(Newlines(s))
      /\ LinesUpTo(s, d) \in Nat /\ LinesUpTo(s, e) \in Nat
  BY CountedLines
<1>2. \A n \in Newlines(s) : n \in Nat
  BY <1>1
<1>3. A \in SUBSET B /\ B \in SUBSET Newlines(s)
  BY <1>2
<1>4. IsFiniteSet(A) /\ IsFiniteSet(B)
  BY <1>1, <1>3, FS_Subset
<1>5. LinesUpTo(s, d) = Cardinality(A) /\ LinesUpTo(s, e) = Cardinality(B)
  BY DEF LinesUpTo
<1>6. Cardinality(A) <= Cardinality(B) /\ (Cardinality(A) = Cardinality(B) => A = B)
  BY <1>3, <1>4, FS_Subset
<1>7. e \in Newlines(s) /\ d < e => e \in B /\ e \notin A
  OBVIOUS
<1>8. (\A n \in Newlines(s) : ~(d < n /\ n <= e)) => A = B
  BY <1>2
<1>9. e \in Newlines(s) /\ d < e /\ (\A n \in Newlines(s) : ~(d < n /\ n < e)) => B = A \cup {e}
  <2> SUFFICES ASSUME e \in Newlines(s), d < e, \A n \in Newlines(s) : ~(d < n /\ n < e)
               PROVE  B = A \cup {e}
    OBVIOUS
  <2>1. \A n \in Newlines(s) : n <= e <=> n <= d \/ n = e
    BY <1>2
  <2> QED
    BY <2>1
<1>10. Cardinality(A \cup {e}) = IF e \in A THEN Cardinality(A) ELSE Cardinality(A) + 1
  BY <1>4, FS_AddElement
<1> HIDE DEF A, B
<1>11. LinesUpTo(s, d) <= LinesUpTo(s, e)
  BY <1>5, <1>6
<1>12. e \in Newlines(s) /\ d < e => LinesUpTo(s, d) < LinesUpTo(s, e)
  <2>1. e \in Newlines(s) /\ d < e => A # B
    BY <1>7
  <2> QED
    BY <1>1, <1>5, <1>6, <2>1
<1>13. (\A n \in Newlines(s) : ~(d < n /\ n <= e)) => LinesUpTo(s, e) = LinesUpTo(s, d)
  BY <1>5, <1>8, Zenon
<1>14. ASSUME e \in Newlines(s), d < e, \A n \in Newlines(s) : ~(d < n /\ n < e)
       PROVE  LinesUpTo(s, e) = LinesUpTo(s, d) + 1
  <2>1. B = A \cup {e} /\ e \notin A
    BY <1>7, <1>9, <1>14
  <2> QED
    BY <1>5, <1>10, <2>1
<1> QED
  BY <1>11, <1>12, <1>13, <1>14

\* A line ends where its number says.
LEMMA LineEndOf ==
  ASSUME NEW s \in Seq(Byte)
  PROVE  /\ \A e \in Newlines(s) : LinesUpTo(s, e) # 0 /\ LineEnd(s, LinesUpTo(s, e)) = e
         /\ LineEnd(s, LinesUpTo(s, 0)) = 0
<1>1. Newlines(s) \in SUBSET (1..Len(s)) /\ LinesUpTo(s, 0) = 0
      /\ \A d \in Nat : LinesUpTo(s, d) \in Nat
  BY CountedLines
<1>2. \A n \in Newlines(s) : n \in Nat /\ n > 0
  BY <1>1
<1>3. ASSUME NEW e \in Newlines(s)
      PROVE  LinesUpTo(s, e) # 0 /\ LineEnd(s, LinesUpTo(s, e)) = e
  <2>1. LinesUpTo(s, e) # 0
    <3>1. LinesUpTo(s, 0) < LinesUpTo(s, e)
      BY <1>2, CountAlong
    <3> QED
      BY <1>1, <1>2, <3>1
  <2>2. ASSUME NEW n \in Newlines(s), LinesUpTo(s, n) = LinesUpTo(s, e)
        PROVE  n = e
    <3>1. n < e => LinesUpTo(s, n) < LinesUpTo(s, e)
      BY <1>2, CountAlong
    <3>2. e < n => LinesUpTo(s, e) < LinesUpTo(s, n)
      BY <1>2, CountAlong
    <3>3. LinesUpTo(s, n) \in Nat /\ n \in Nat /\ e \in Nat
      BY <1>1, <1>2
    <3> QED
      BY <2>2, <3>1, <3>2, <3>3
  <2>3. (CHOOSE n \in Newlines(s) : LinesUpTo(s, n) = LinesUpTo(s, e)) = e
    BY <2>2
  <2> QED
    BY <2>1, <2>3 DEF LineEnd
<1>4. LineEnd(s, LinesUpTo(s, 0)) = 0
  BY <1>1 DEF LineEnd
<1> QED
  BY <1>3, <1>4

\* R answers the lines of s up to position d, none of them refused.
Answered(s, d, R) ==
  /\ d \in 0..Len(s) /\ (d = 0 \/ d \in Newlines(s))
  /\ R \in Seq(Seq(Byte)) /\ Len(R) = LinesUpTo(s, d)
  /\ \A i \in 1..Len(R) :
       R[i] = Reply(Line(s, i)) /\ R[i] # TooLong /\ LineEnd(s, i) \in 1..d

\* The lines of what has been received are lines of the stream.
LEMMA AnsweredSoFar ==
  ASSUME NEW s \in Seq(Byte), NEW c \in 0..Len(s), NEW d, NEW R, Answered(s, d, R), d <= c
  PROVE  Answered(SubSeq(s, 1, c), d, R)
<1> DEFINE p == SubSeq(s, 1, c)
<1>1. p \in Seq(Byte) /\ Len(p) = c /\ c \in Nat /\ \A i \in 1..c : p[i] = s[i]
  OBVIOUS
<1>2. d \in Nat
  BY DEF Answered
<1>3. DOMAIN p = 1..c /\ DOMAIN s = 1..Len(s) /\ Len(s) \in Nat
  BY <1>1
<1> HIDE DEF p
<1>4. Newlines(p) = {n \in Newlines(s) : n <= c}
  BY <1>1, <1>3 DEF Newlines
<1>5. \A n \in Newlines(s) : n \in Nat
  BY <1>3 DEF Newlines
<1>6. ASSUME NEW e \in Nat, e <= c
      PROVE  LinesUpTo(p, e) = LinesUpTo(s, e)
  <2>1. {n \in Newlines(p) : n <= e} = {n \in Newlines(s) : n <= e}
    BY <1>1, <1>4, <1>5, <1>6
  <2> QED
    BY <2>1 DEF LinesUpTo
<1>7. LinesUpTo(s, d) <= LinesUpTo(s, c) /\ LinesUpTo(s, c) \in Nat /\ LinesUpTo(s, d) \in Nat
  BY <1>1, <1>2, CountAlong, CountedLines
<1>8. ASSUME NEW i \in Nat, i <= LinesUpTo(s, d)
      PROVE  LineEnd(p, i) = LineEnd(s, i)
  <2>1. ASSUME NEW e \in Newlines(s), LinesUpTo(s, e) = i
        PROVE  e <= c
    <3>1. e \in Nat
      BY <1>5
    <3>2. c < e => LinesUpTo(s, c) < LinesUpTo(s, e)
      BY <1>1, <3>1, CountAlong
    <3>3. LinesUpTo(s, e) <= LinesUpTo(s, c) /\ LinesUpTo(s, e) \in Nat
      BY <1>7, <1>8, <2>1
    <3> HIDE DEF LinesUpTo
    <3> QED
      BY <1>1, <1>7, <3>1, <3>2, <3>3
  <2>2. \A e : (e \in Newlines(p) /\ LinesUpTo(p, e) = i)
                 <=> (e \in Newlines(s) /\ LinesUpTo(s, e) = i)
    BY <1>4, <1>5, <1>6, <2>1
  <2> DEFINE inP == CHOOSE e \in Newlines(p) : LinesUpTo(p, e) = i
             inS == CHOOSE e \in Newlines(s) : LinesUpTo(s, e) = i
  <2>3. inP = inS
    BY <2>2
  <2>4. /\ LineEnd(p, i) = IF i = 0 THEN 0 ELSE inP
        /\ LineEnd(s, i) = IF i = 0 THEN 0 ELSE inS
    BY DEF LineEnd
  <2> HIDE DEF inP, inS
  <2> QED
    BY <2>3, <2>4
<1>9. ASSUME NEW i \in 1..Len(R)
      PROVE  Line(p, i) = Line(s, i) /\ LineEnd(p, i) \in 1..d
  <2> DEFINE a == LineEnd(s, i - 1)
             b == LineEnd(s, i)
  <2>1. i \in Nat /\ i <= LinesUpTo(s, d) /\ i - 1 \in Nat /\ i - 1 <= LinesUpTo(s, d)
    BY <1>7 DEF Answered
  <2>2. LineEnd(p, i) = b /\ LineEnd(p, i - 1) = a
    BY <1>8, <2>1
  <2>3. b \in 1..d
    BY DEF Answered
  <2>4. a \in 0..d
    <3>1. CASE i = 1
      BY <1>2, <3>1 DEF LineEnd
    <3>2. CASE i # 1
      <4>1. i - 1 \in 1..Len(R)
        BY <3>2
      <4> QED
        BY <1>2, <4>1 DEF Answered
    <3> QED
      BY <3>1, <3>2
  <2> HIDE DEF a, b
  <2>5. SubSeq(p, a + 1, b - 1) = SubSeq(s, a + 1, b - 1)
    BY <1>1, <1>2, <1>3, <2>3, <2>4
  <2> QED
    BY <2>2, <2>3, <2>5 DEF a, b, Line
<1>10. d \in 0..Len(p) /\ (d = 0 \/ d \in Newlines(p))
  BY <1>1, <1>2, <1>4 DEF Answered
<1>11. Answered(p, d, R)
  BY <1>2, <1>6, <1>9, <1>10 DEF Answered
<1> QED
  BY <1>11 DEF p

\* The next line of the stream.
LEMMA NextLine ==
  ASSUME NEW s \in Seq(Byte), NEW d, NEW R, Answered(s, d, R),
         NEW e \in Newlines(s), d < e, \A n \in Newlines(s) : ~(d < n /\ n < e)
  PROVE  /\ LinesUpTo(s, e) = Len(R) + 1 /\ LineEnd(s, Len(R) + 1) = e
         /\ Line(s, Len(R) + 1) = SubSeq(s, d + 1, e - 1)
         /\ Len(R) + 1 <= Cardinality(Newlines(s))
<1>1. d \in Nat /\ e \in 1..Len(s) /\ Len(s) \in Nat /\ e \in Nat
  <2>1. Newlines(s) \in SUBSET (1..Len(s)) /\ Len(s) \in Nat
    BY CountedLines
  <2>2. e \in 1..Len(s)
    BY <2>1
  <2> QED
    BY <2>1, <2>2 DEF Answered
<1>2. LinesUpTo(s, e) = LinesUpTo(s, d) + 1 /\ LinesUpTo(s, d) = Len(R) /\ Len(R) \in Nat
  BY <1>1, CountAlong DEF Answered
<1>3. LineEnd(s, Len(R) + 1) = e
  BY <1>2, LineEndOf
<1>4. LineEnd(s, Len(R)) = d
  <2>1. LineEnd(s, LinesUpTo(s, d)) = d
    <3>1. CASE d = 0
      BY <3>1, LineEndOf
    <3>2. CASE d \in Newlines(s)
      BY <3>2, LineEndOf
    <3> QED
      BY <3>1, <3>2 DEF Answered
  <2> QED
    BY <1>2, <2>1
<1>5. (Len(R) + 1) - 1 = Len(R)
  BY <1>2
<1>6. LinesUpTo(s, e) <= Cardinality(Newlines(s))
  <2>1. LinesUpTo(s, Len(s)) = Cardinality(Newlines(s)) /\ LinesUpTo(s, e) <= LinesUpTo(s, Len(s))
    BY <1>1, CountedLines, CountAlong
  <2> QED
    BY <2>1
<1> QED
  BY <1>2, <1>3, <1>4, <1>5, <1>6 DEF Line

\* A line that is not refused leaves the connection in step with the stream.
LEMMA OneMoreAnswered ==
  ASSUME NEW s \in Seq(Byte), NEW d, NEW R, Answered(s, d, R),
         NEW e \in Newlines(s), d < e, \A n \in Newlines(s) : ~(d < n /\ n < e),
         NEW reply \in Seq(Byte), reply = Reply(SubSeq(s, d + 1, e - 1)), reply # TooLong
  PROVE  Answered(s, e, Append(R, reply))
<1> DEFINE k == Len(R)
           A == Append(R, reply)
<1>1. R \in Seq(Seq(Byte)) /\ k \in Nat /\ d \in Nat /\ Len(s) \in Nat /\ e \in 1..Len(s)
  BY CountedLines DEF Answered
<1>2. A \in Seq(Seq(Byte)) /\ Len(A) = k + 1 /\ A[k + 1] = reply /\ \A i \in 1..k : A[i] = R[i]
  BY <1>1
<1>3. LinesUpTo(s, e) = k + 1 /\ LineEnd(s, k + 1) = e /\ Line(s, k + 1) = SubSeq(s, d + 1, e - 1)
  BY NextLine
<1>4. \A i \in 1..k : R[i] = Reply(Line(s, i)) /\ R[i] # TooLong /\ LineEnd(s, i) \in 1..d
  BY DEF Answered
<1> HIDE DEF A, k
<1>5. ASSUME NEW i \in 1..Len(A)
      PROVE  A[i] = Reply(Line(s, i)) /\ A[i] # TooLong /\ LineEnd(s, i) \in 1..e
  <2>1. CASE i \in 1..k
    <3>1. LineEnd(s, i) \in 1..d /\ A[i] = R[i]
      BY <1>2, <1>4, <2>1
    <3>2. LineEnd(s, i) \in 1..e
      BY <1>1, <3>1
    <3> QED
      BY <1>4, <2>1, <3>1, <3>2
  <2>2. CASE i = k + 1
    <3>1. LineEnd(s, i) \in 1..e
      BY <1>1, <1>3, <2>2
    <3> QED
      BY <1>2, <1>3, <2>2, <3>1
  <2> QED
    BY <1>1, <1>2, <2>1, <2>2
<1>6. Answered(s, e, A)
  BY <1>1, <1>2, <1>3, <1>5 DEF Answered
<1> QED
  BY <1>6 DEF A

--------------------------------------------------------------------------------
(* A line's payload, and the replies up to a refusal.                         *)

\* What Strip leaves is a beginning of the line that ends in payload.
LEMMA StripEnds ==
  ASSUME NEW line \in Seq(Byte)
  PROVE  /\ Len(Strip(line)) \in 0..Len(line) /\ Strip(line) = SubSeq(line, 1, Len(Strip(line)))
         /\ Len(Strip(line)) # 0 => line[Len(Strip(line))] = "x"
         /\ Strip(line) \in Seq(Byte)
<1> DEFINE S == {0} \cup {i \in DOMAIN line : line[i] = "x"}
<1>1. Len(line) \in Nat /\ S \in SUBSET (0..Len(line)) /\ S # {}
  OBVIOUS
<1>2. Max(S) \in S
  BY <1>1, MaxIsGreatest
<1>3. Max(S) \in 0..Len(line) /\ (Max(S) # 0 => line[Max(S)] = "x")
  BY <1>1, <1>2
<1> DEFINE n == Max(S)
<1>4. Strip(line) = SubSeq(line, 1, n)
  BY DEF Strip
<1> HIDE DEF n, S
<1>5. n \in 0..Len(line) /\ (n # 0 => line[n] = "x")
  BY <1>3 DEF n
<1>6. Len(SubSeq(line, 1, n)) = n /\ SubSeq(line, 1, n) \in Seq(Byte)
  BY <1>1, <1>5
<1> QED
  BY <1>4, <1>5, <1>6

\* A line is refused exactly when its payload is over the limit.
LEMMA Refused ==
  ASSUME NEW line \in Seq(Byte)
  PROVE  /\ Reply(line) \in Seq(Byte)
         /\ Reply(line) = TooLong <=> Len(Strip(line)) > MaxLineBytes
<1>1. Strip(line) # TooLong
  <2> SUFFICES ASSUME Strip(line) = <<"n">> PROVE FALSE
    BY DEF TooLong
  <2>1. Len(Strip(line)) = 1 /\ Strip(line)[1] = "n"
    OBVIOUS
  <2> DEFINE m == Len(Strip(line))
  <2>2. /\ m \in 0..Len(line) /\ Len(line) \in Nat /\ Strip(line) = SubSeq(line, 1, m)
        /\ m # 0 => line[m] = "x"
    BY StripEnds
  <2>3. m = 1
    BY <2>1
  <2> HIDE DEF m
  <2>4. SubSeq(line, 1, 1)[1] = line[1] /\ Strip(line) = SubSeq(line, 1, 1) /\ line[1] = "x"
    BY <2>2, <2>3
  <2> QED
    BY <2>1, <2>4
<1>2. TooLong \in Seq(Byte)
  BY DEF TooLong, Byte
<1> QED
  BY <1>1, <1>2, StripEnds DEF Reply

\* More of a line has no shorter payload, and the same if there is no payload in it.
LEMMA StripExtends ==
  ASSUME NEW line \in Seq(Byte), NEW longer \in Seq(Byte), Len(line) <= Len(longer),
         \A i \in 1..Len(line) : longer[i] = line[i]
  PROVE  /\ Len(Strip(line)) <= Len(Strip(longer))
         /\ (\A i \in 1..Len(longer) : i > Len(line) => longer[i] # "x")
              => Strip(line) = Strip(longer)
<1> DEFINE m == Len(Strip(line))
           n == Len(Strip(longer))
<1>1. /\ m \in 0..Len(line) /\ Strip(line) = SubSeq(line, 1, m) /\ (m # 0 => line[m] = "x")
      /\ n \in 0..Len(longer) /\ Strip(longer) = SubSeq(longer, 1, n) /\ (n # 0 => longer[n] = "x")
      /\ Len(line) \in Nat /\ Len(longer) \in Nat
  BY StripEnds
<1>2. /\ \A i \in 1..Len(line) : i > m => line[i] # "x"
      /\ \A i \in 1..Len(longer) : i > n => longer[i] # "x"
  BY Stripped
<1> HIDE DEF m, n
<1>3. m <= n
  <2> SUFFICES ASSUME m > n PROVE FALSE
    BY <1>1
  <2>1. m \in 1..Len(line) /\ m \in 1..Len(longer)
    BY <1>1
  <2> QED
    BY <1>1, <1>2, <2>1
<1>4. ASSUME \A i \in 1..Len(longer) : i > Len(line) => longer[i] # "x"
      PROVE  m = n
  <2> SUFFICES ASSUME m < n PROVE FALSE
    BY <1>1, <1>3
  <2>1. n \in 1..Len(longer) /\ longer[n] = "x"
    BY <1>1
  <2>2. n \in 1..Len(line)
    BY <1>1, <1>4, <2>1
  <2> QED
    BY <1>1, <1>2, <2>1, <2>2
<1>5. m = n => SubSeq(line, 1, m) = SubSeq(longer, 1, n)
  BY <1>1
<1> QED
  BY <1>1, <1>3, <1>4, <1>5 DEF m, n

\* Up to and including the first refusal.
LEMMA UpToTheRefusal ==
  ASSUME NEW T, NEW replies \in Seq(T)
  PROVE  /\ (\A i \in 1..Len(replies) : replies[i] # TooLong) => UpToRefusal(replies) = replies
         /\ \A k \in 1..Len(replies) :
              replies[k] = TooLong /\ (\A i \in 1..(k - 1) : replies[i] # TooLong)
                => UpToRefusal(replies) = SubSeq(replies, 1, k)
<1> DEFINE refused == {i \in DOMAIN replies : replies[i] = TooLong}
<1>1. DOMAIN replies = 1..Len(replies) /\ Len(replies) \in Nat /\ refused \in SUBSET Nat
  OBVIOUS
<1>2. UpToRefusal(replies) = IF refused = {} THEN replies ELSE SubSeq(replies, 1, Min(refused))
  BY DEF UpToRefusal
<1>3. ASSUME NEW k \in 1..Len(replies), replies[k] = TooLong,
             \A i \in 1..(k - 1) : replies[i] # TooLong
      PROVE  refused # {} /\ Min(refused) = k
  <2>1. k \in refused
    BY <1>1, <1>3
  <2>2. Min(refused) \in refused /\ Min(refused) <= k
    BY <1>1, <2>1, MinIsLeast
  <2> DEFINE n == Min(refused)
  <2>3. n \in 1..Len(replies) /\ replies[n] = TooLong /\ n <= k
    BY <1>1, <2>2
  <2> HIDE DEF n
  <2>4. n = k
    BY <1>1, <1>3, <2>3
  <2> QED
    BY <2>1, <2>4 DEF n
<1>4. (\A i \in 1..Len(replies) : replies[i] # TooLong) => refused = {}
  BY <1>1
<1> HIDE DEF refused
<1> QED
  BY <1>2, <1>3, <1>4

\* What is answered once the stream is over: its lines and its rest, up to a refusal.
LineReplies(s) == [i \in 1..Cardinality(Newlines(s)) |-> Reply(Line(s, i))]

AllAnswers(s) ==
  UpToRefusal(LineReplies(s) \o (IF Rest(s) = <<>> THEN <<>> ELSE <<Reply(Rest(s))>>))

\* The reference in the same terms.
LEMMA AnswersAre ==
  ASSUME NEW s \in Seq(Byte)
  PROVE  Answers(s) =
           UpToRefusal(LineReplies(s) \o (IF Reply(Rest(s)) = TooLong THEN <<TooLong>> ELSE <<>>))
<1>1. DOMAIN Lines(s) = 1..Cardinality(Newlines(s))
      /\ \A i \in 1..Cardinality(Newlines(s)) : Lines(s)[i] = Line(s, i)
  BY DEF Lines
<1>2. [i \in DOMAIN Lines(s) |-> Reply(Lines(s)[i])] = LineReplies(s)
  BY <1>1 DEF LineReplies
<1> QED
  BY <1>2 DEF Answers

\* When no line ends after d, what is left is the rest.
LEMMA TheRest ==
  ASSUME NEW s \in Seq(Byte), NEW d \in 0..Len(s), d = 0 \/ d \in Newlines(s),
         \A n \in Newlines(s) : n <= d
  PROVE  Rest(s) = SubSeq(s, d + 1, Len(s))
<1> DEFINE S == {0} \cup Newlines(s)
<1>1. Newlines(s) \in SUBSET (1..Len(s)) /\ Len(s) \in Nat
  BY CountedLines
<1>2. S \in SUBSET (0..Len(s)) /\ S # {} /\ d \in S /\ \A n \in S : n <= d
  BY <1>1
<1>3. Max(S) \in S /\ \A n \in S : n <= Max(S)
  BY <1>1, <1>2, MaxIsGreatest
<1> DEFINE m == Max(S)
<1>4. m \in S /\ d <= m
  BY <1>2, <1>3
<1>5. m = d
  <2> HIDE DEF m, S
  <2>1. m \in Nat /\ d \in Nat /\ m <= d
    BY <1>2, <1>4
  <2> QED
    BY <1>4, <2>1
<1> QED
  BY <1>5 DEF Rest

\* The end of a stream whose lines are all answered.
LEMMA AnswersOnceRead ==
  ASSUME NEW s \in Seq(Byte), NEW d, NEW R, Answered(s, d, R), \A n \in Newlines(s) : n <= d
  PROVE  LET rest == SubSeq(s, d + 1, Len(s))
         IN  /\ Answers(s) = IF Reply(rest) = TooLong THEN Append(R, TooLong) ELSE R
             /\ AllAnswers(s) = IF rest = <<>> THEN R ELSE Append(R, Reply(rest))
<1> DEFINE rest == SubSeq(s, d + 1, Len(s))
<1>1. d \in 0..Len(s) /\ Len(s) \in Nat /\ d \in Nat /\ R \in Seq(Seq(Byte)) /\ Len(R) \in Nat
  BY DEF Answered
<1>2. Rest(s) = rest /\ rest \in Seq(Byte)
  BY <1>1, TheRest DEF Answered
<1>3. Len(R) = Cardinality(Newlines(s))
  <2>1. \A n \in Newlines(s) : ~(d < n /\ n <= Len(s))
    <3>1. \A n \in Newlines(s) : n \in Nat
      BY CountedLines
    <3> QED
      BY <1>1, <3>1
  <2>2. LinesUpTo(s, Len(s)) = LinesUpTo(s, d)
    BY <1>1, <2>1, CountAlong
  <2> QED
    BY <1>1, <2>2, CountedLines DEF Answered
<1>4. LineReplies(s) = R
  <2>1. R = [i \in 1..Len(R) |-> R[i]]
    BY <1>1
  <2>2. \A i \in 1..Len(R) : R[i] = Reply(Line(s, i))
    BY DEF Answered
  <2> QED
    BY <1>3, <2>1, <2>2 DEF LineReplies
<1>5. \A i \in 1..Len(R) : R[i] # TooLong
  BY DEF Answered
<1>6. UpToRefusal(R) = R
  BY <1>1, <1>5, UpToTheRefusal
<1>7. ASSUME NEW x \in Seq(Byte)
      PROVE  UpToRefusal(R \o <<x>>) = Append(R, x)
  <2> DEFINE A == Append(R, x)
             k == Len(R) + 1
  <2>1. A \in Seq(Seq(Byte)) /\ Len(A) = k /\ A[k] = x /\ \A i \in 1..(k - 1) : A[i] = R[i]
    BY <1>1
  <2>2. R \o <<x>> = A
    BY <1>1
  <2>3. k \in 1..Len(A) /\ k - 1 = Len(R)
    BY <1>1, <2>1
  <2> HIDE DEF A, k
  <2>4. SubSeq(A, 1, k) = A
    BY <2>1
  <2>5. \A i \in 1..(k - 1) : A[i] # TooLong
    BY <1>5, <2>1, <2>3
  <2>6. x # TooLong => \A i \in 1..Len(A) : A[i] # TooLong
    <3>1. \A i \in 1..Len(A) : i = k \/ i \in 1..(k - 1)
      BY <2>1, <2>3
    <3> QED
      BY <2>1, <2>5, <3>1
  <2>7. UpToRefusal(A) = A
    BY <2>1, <2>3, <2>4, <2>5, <2>6, UpToTheRefusal
  <2> QED
    BY <2>2, <2>7 DEF A
<1>8. R \o <<>> = R
  BY <1>1
<1>9. Reply(rest) \in Seq(Byte) /\ TooLong \in Seq(Byte)
  <2>1. TooLong \in Seq(Byte)
    BY DEF TooLong, Byte
  <2> HIDE DEF rest
  <2> QED
    BY <1>2, <2>1, Refused
<1> HIDE DEF rest
<1>10. Answers(s) = IF Reply(rest) = TooLong THEN Append(R, TooLong) ELSE R
  BY <1>2, <1>4, <1>6, <1>7, <1>8, <1>9, AnswersAre
<1>11. AllAnswers(s) = IF rest = <<>> THEN R ELSE Append(R, Reply(rest))
  BY <1>2, <1>4, <1>6, <1>7, <1>8, <1>9 DEF AllAnswers
<1> QED
  BY <1>10, <1>11 DEF rest

\* A refused line is the last that is answered.
LEMMA AnswersToRefusedLine ==
  ASSUME NEW s \in Seq(Byte), NEW d, NEW R, Answered(s, d, R),
         NEW e \in Newlines(s), d < e, \A n \in Newlines(s) : ~(d < n /\ n < e),
         Reply(SubSeq(s, d + 1, e - 1)) = TooLong
  PROVE  Answers(s) = Append(R, TooLong) /\ AllAnswers(s) = Append(R, TooLong)
<1> DEFINE N == Cardinality(Newlines(s))
           k == Len(R) + 1
           A == Append(R, TooLong)
<1>1. R \in Seq(Seq(Byte)) /\ Len(R) \in Nat /\ N \in Nat
  BY CountedLines DEF Answered
<1>2. k <= N /\ Reply(Line(s, k)) = TooLong
  BY NextLine
<1>3. \A i \in 1..Len(R) : R[i] = Reply(Line(s, i)) /\ R[i] # TooLong
  BY DEF Answered
<1>4. TooLong \in Seq(Byte)
  BY DEF TooLong, Byte
<1>5. A \in Seq(Seq(Byte)) /\ Len(A) = k /\ A[k] = TooLong /\ \A i \in 1..Len(R) : A[i] = R[i]
  BY <1>1, <1>4
<1>6. ASSUME NEW x, NEW tail \in {<<>>, <<x>>}
      PROVE  UpToRefusal(LineReplies(s) \o tail) = A
  <2> DEFINE T == {x, TooLong} \cup {LineReplies(s)[i] : i \in 1..N}
             Q == LineReplies(s) \o tail
  <2>1. LineReplies(s) \in Seq(T) /\ Len(LineReplies(s)) = N
        /\ \A i \in 1..N : LineReplies(s)[i] = Reply(Line(s, i))
    <3>1. LineReplies(s) \in [1..N -> T]
      BY DEF LineReplies
    <3>2. \A i \in 1..N : LineReplies(s)[i] = Reply(Line(s, i))
      BY DEF LineReplies
    <3> HIDE DEF T, N
    <3>3. LineReplies(s) \in Seq(T) /\ Len(LineReplies(s)) = N
      BY <1>1, <3>1
    <3> QED
      BY <3>2, <3>3
  <2>2. tail \in Seq(T)
    <3>1. x \in T
      OBVIOUS
    <3> HIDE DEF T
    <3>2. <<>> \in Seq(T) /\ <<x>> \in Seq(T)
      BY <3>1
    <3> QED
      BY <3>2
  <2> HIDE DEF T, N, A, k
  <2>3. Q \in Seq(T) /\ Len(Q) >= N /\ \A i \in 1..N : Q[i] = Reply(Line(s, i))
    BY <1>1, <2>1, <2>2
  <2> HIDE DEF Q
  <2>4. k \in 1..Len(Q) /\ Q[k] = TooLong
    BY <1>1, <1>2, <2>3 DEF k
  <2>5. k - 1 = Len(R) /\ k \in Nat
    BY <1>1 DEF k
  <2>6. \A i \in 1..Len(R) : Q[i] = R[i]
    <3>1. \A i \in 1..Len(R) : i \in 1..N
      BY <1>1, <1>2 DEF k
    <3> QED
      BY <1>3, <2>3, <3>1
  <2>7. UpToRefusal(Q) = SubSeq(Q, 1, k)
    BY <1>3, <2>3, <2>4, <2>5, <2>6, UpToTheRefusal
  <2>8. SubSeq(Q, 1, k) = A
    <3> DEFINE B == SubSeq(Q, 1, k)
    <3>1. B \in Seq(T) /\ Len(B) = k /\ \A i \in 1..k : B[i] = Q[i]
      BY <2>3, <2>4, <2>5
    <3> HIDE DEF B
    <3>2. \A i \in 1..k : i = k \/ i \in 1..Len(R)
      BY <2>5
    <3>3. \A i \in 1..k : B[i] = A[i]
      BY <1>5, <2>4, <2>6, <3>1, <3>2 DEF A, k
    <3>4. Len(A) = k /\ A = [i \in 1..Len(A) |-> A[i]] /\ B = [i \in 1..Len(B) |-> B[i]]
      BY <1>5, <3>1
    <3>5. B = A
      BY <3>1, <3>3, <3>4
    <3> QED
      BY <3>5 DEF B
  <2> QED
    BY <2>7, <2>8 DEF Q
<1> HIDE DEF A
<1>7. Answers(s) = A
  BY <1>6, AnswersAre
<1>8. AllAnswers(s) = A
  BY <1>6 DEF AllAnswers
<1> QED
  BY <1>7, <1>8 DEF A

\* More of a refused line is refused, too.
LEMMA RefusedAsAWhole ==
  ASSUME NEW s \in Seq(Byte), NEW d \in Nat, NEW c \in d..Len(s), NEW e \in c..Len(s),
         Reply(SubSeq(s, d + 1, c)) = TooLong
  PROVE  Reply(SubSeq(s, d + 1, e)) = TooLong /\ SubSeq(s, d + 1, e) # <<>>
<1> DEFINE part == SubSeq(s, d + 1, c)
           whole == SubSeq(s, d + 1, e)
<1>1. c \in Nat /\ e \in Nat /\ d <= c /\ c <= e /\ e <= Len(s) /\ Len(s) \in Nat
  OBVIOUS
<1>2. /\ part \in Seq(Byte) /\ Len(part) = c - d /\ \A i \in 1..(c - d) : part[i] = s[d + i]
      /\ whole \in Seq(Byte) /\ Len(whole) = e - d /\ \A i \in 1..(e - d) : whole[i] = s[d + i]
  BY <1>1
<1> HIDE DEF part, whole
<1>3. Len(part) <= Len(whole) /\ \A i \in 1..Len(part) : whole[i] = part[i]
  BY <1>1, <1>2
<1>4. /\ Len(Strip(part)) <= Len(Strip(whole)) /\ Len(Strip(part)) \in Nat
      /\ Len(Strip(whole)) \in 0..Len(whole)
  <2>1. Len(Strip(part)) \in 0..Len(part) /\ Len(Strip(whole)) \in 0..Len(whole)
    BY <1>2, StripEnds
  <2>2. Len(Strip(part)) <= Len(Strip(whole))
    BY <1>2, <1>3, StripExtends
  <2> QED
    BY <2>1, <2>2
<1>5. Len(Strip(part)) > MaxLineBytes
  BY <1>2, Refused DEF part
<1>6. Len(Strip(whole)) > MaxLineBytes /\ Len(whole) > 0
  BY <1>1, <1>2, <1>4, <1>5, FramingAssumption
<1>7. Reply(whole) = TooLong
  BY <1>2, <1>6, Refused
<1>8. whole # <<>>
  BY <1>6
<1> QED
  BY <1>7, <1>8 DEF whole

\* A line that is refused before its end is in sight is refused by its end.
LEMMA AnswersToRefusedPart ==
  ASSUME NEW s \in Seq(Byte), NEW d, NEW R, Answered(s, d, R), NEW c \in d..Len(s),
         \A n \in Newlines(s) : ~(d < n /\ n <= c), Reply(SubSeq(s, d + 1, c)) = TooLong
  PROVE  AllAnswers(s) = Append(R, TooLong)
<1>1. d \in Nat /\ Len(s) \in Nat /\ c \in Nat /\ d <= c /\ c <= Len(s)
  BY DEF Answered
<1>2. Newlines(s) \in SUBSET (1..Len(s))
  BY CountedLines
<1>3. CASE \A n \in Newlines(s) : n <= d
  <2>1. Reply(SubSeq(s, d + 1, Len(s))) = TooLong /\ SubSeq(s, d + 1, Len(s)) # <<>>
    <3>1. Len(s) \in c..Len(s)
      BY <1>1
    <3> QED
      BY <1>1, <3>1, RefusedAsAWhole
  <2> QED
    BY <1>3, <2>1, AnswersOnceRead
<1>4. CASE \E n \in Newlines(s) : d < n
  <2> DEFINE T == {n \in Newlines(s) : d < n}
  <2>1. T \in SUBSET Nat /\ T # {}
    BY <1>2, <1>4
  <2>2. PICK e \in T : \A n \in T : e <= n
    BY <2>1, LeastNumber
  <2>3. e \in Newlines(s) /\ d < e /\ e \in 1..Len(s) /\ e \in Nat
    BY <1>2, <2>1, <2>2
  <2>4. \A n \in Newlines(s) : ~(d < n /\ n < e)
    BY <1>2, <2>2, <2>3
  <2>5. e - 1 \in c..Len(s)
    BY <1>1, <2>3
  <2>6. Reply(SubSeq(s, d + 1, e - 1)) = TooLong
    BY <1>1, <2>5, RefusedAsAWhole
  <2> QED
    BY <2>3, <2>4, <2>6, AnswersToRefusedLine
<1>5. \A n \in Newlines(s) : n \in Nat
  BY <1>2
<1> QED
  BY <1>1, <1>3, <1>4, <1>5

--------------------------------------------------------------------------------
\* Where the C++ DUT is in the stream: what it has answered are the lines up to the
\* start of its buffer, and a connection that is over has got all its answers.
Answering == cppRead - Len(buffer)

CppInv ==
  /\ FramingInv
  /\ cppPc \in {"recv", "extract"} => Answered(stream, Answering, cppReplies)
  /\ cppPc = "closed" => cppReplies = AllAnswers(stream)
  /\ cppPc = "closed" /\ TooLong \in Range(cppReplies) =>
       cppReplies = Answers(SubSeq(stream, 1, cppRead))

\* The buffer is a part of the stream.
LEMMA BufferIsPart ==
  ASSUME FramingInv
  PROVE  /\ Answering \in Nat /\ Answering <= cppRead /\ cppRead \in 0..Len(stream)
         /\ buffer = SubSeq(stream, Answering + 1, cppRead)
         /\ \A n \in Newlines(stream) :
              Answering < n /\ n <= cppRead => n - Answering \in Newlines(buffer)
         /\ \A i \in Newlines(buffer) : Answering + i \in Newlines(stream)
<1> DEFINE d == Answering
<1>1. /\ stream \in Seq(Byte) /\ buffer \in Seq(Byte) /\ Len(stream) \in Nat /\ Len(buffer) \in Nat
      /\ cppRead \in Nat /\ Len(buffer) <= cppRead /\ cppRead <= Len(stream)
  BY DEF FramingInv
<1>2. d \in Nat /\ d <= cppRead /\ Len(buffer) = cppRead - d
  BY <1>1 DEF Answering
<1>3. \A i \in 1..Len(buffer) : buffer[i] = stream[d + i]
  BY DEF FramingInv, Answering
<1> HIDE DEF d
<1>4. buffer = SubSeq(stream, d + 1, cppRead)
  BY <1>1, <1>2, <1>3
<1>5. ASSUME NEW n \in Newlines(stream), d < n, n <= cppRead
      PROVE  n - d \in Newlines(buffer)
  <2> DEFINE i == n - d
  <2>1. stream[n] = "n" /\ n \in Nat
    BY <1>1 DEF Newlines
  <2>2. i \in 1..Len(buffer) /\ d + i = n
    BY <1>1, <1>2, <1>5, <2>1
  <2> HIDE DEF i
  <2>3. buffer[i] = "n"
    BY <1>3, <2>1, <2>2
  <2>4. i \in Newlines(buffer)
    BY <1>1, <2>2, <2>3 DEF Newlines
  <2> QED
    BY <2>4 DEF i
<1>6. ASSUME NEW i \in Newlines(buffer)
      PROVE  d + i \in Newlines(stream)
  <2>1. i \in 1..Len(buffer) /\ buffer[i] = "n"
    BY <1>1 DEF Newlines
  <2>2. d + i \in 1..Len(stream) /\ stream[d + i] = "n"
    BY <1>1, <1>2, <1>3, <2>1
  <2> QED
    BY <1>1, <2>2 DEF Newlines
<1> QED
  BY <1>1, <1>2, <1>4, <1>5, <1>6 DEF d

\* What was received is a stream of its own, with the buffer at its end.
LEMMA WhatWasReceived ==
  ASSUME FramingInv, NEW R, Answered(stream, Answering, R)
  PROVE  LET p == SubSeq(stream, 1, cppRead)
         IN  /\ p \in Seq(Byte) /\ Len(p) = cppRead
             /\ Answered(p, Answering, R)
             /\ SubSeq(p, Answering + 1, Len(p)) = buffer
             /\ Newlines(p) = {n \in Newlines(stream) : n <= cppRead}
             /\ Newlines(buffer) = {} => \A n \in Newlines(p) : n <= Answering
<1> DEFINE p == SubSeq(stream, 1, cppRead)
           d == Answering
<1>1. /\ stream \in Seq(Byte) /\ Len(stream) \in Nat /\ cppRead \in 0..Len(stream)
      /\ d \in Nat /\ d <= cppRead /\ cppRead \in Nat
      /\ buffer = SubSeq(stream, d + 1, cppRead)
      /\ \A n \in Newlines(stream) : d < n /\ n <= cppRead => n - d \in Newlines(buffer)
  BY BufferIsPart DEF FramingInv
<1> HIDE DEF d
<1>2. p \in Seq(Byte) /\ Len(p) = cppRead /\ \A i \in 1..cppRead : p[i] = stream[i]
  BY <1>1
<1>3. SubSeq(p, d + 1, cppRead) = buffer
  BY <1>1
<1>4. Answered(p, d, R)
  BY <1>1, AnsweredSoFar DEF d
<1> HIDE DEF p
<1>5. Newlines(p) = {n \in Newlines(stream) : n <= cppRead}
  BY <1>1, <1>2 DEF Newlines
<1>6. \A n \in Newlines(stream) : n \in Nat
  BY <1>1 DEF Newlines
<1>7. Newlines(buffer) = {} => \A n \in Newlines(p) : n <= d
  BY <1>1, <1>5, <1>6
<1> QED
  BY <1>2, <1>3, <1>4, <1>5, <1>7 DEF p, d

\* recv() answers nothing.
LEMMA RecvKeepsStep ==
  ASSUME CppInv, NEW k \in 1..MaxChunk, CppRecv(k)
  PROVE  CppInv'
<1>1. FramingInv'
  BY Received DEF CppInv
<1>2. /\ cppPc = "recv" /\ cppPc' = "extract" /\ stream' = stream /\ cppReplies' = cppReplies
      /\ cppRead' = cppRead + k /\ k <= Len(stream) - cppRead
      /\ buffer' = buffer \o SubSeq(stream, cppRead + 1, cppRead + k)
  BY DEF CppRecv
<1>3. Answering' = Answering
  <2>1. stream \in Seq(Byte) /\ buffer \in Seq(Byte) /\ cppRead \in Nat /\ k \in Nat
        /\ Len(stream) \in Nat /\ Len(buffer) \in Nat
    BY <1>2, FramingAssumption DEF CppInv, FramingInv
  <2> DEFINE chunk == SubSeq(stream, cppRead + 1, cppRead + k)
  <2>2. chunk \in Seq(Byte) /\ Len(chunk) = k
    BY <1>2, <2>1
  <2> HIDE DEF chunk
  <2>3. Len(buffer') = Len(buffer) + k
    BY <1>2, <2>1, <2>2 DEF chunk
  <2> QED
    BY <1>2, <2>1, <2>3 DEF Answering
<1>4. Answered(stream, Answering, cppReplies)
  BY <1>2 DEF CppInv
<1>5. Answered(stream, Answering, cppReplies)'
  BY <1>2, <1>3, <1>4
<1> QED
  BY <1>1, <1>2, <1>5 DEF CppInv

\* A line of the buffer is the next line of the stream.
LEMMA HandleKeepsStep ==
  ASSUME CppInv, CppHandleLine
  PROVE  CppInv'
<1> DEFINE d == Answering
           newline == Min(Newlines(buffer))
           e == d + newline
           reply == Reply(SubSeq(buffer, 1, newline - 1))
           p == SubSeq(stream, 1, cppRead)
<1>1. FramingInv' /\ FramingInv
  BY LineHandled DEF CppInv
<1>2. /\ cppPc = "extract" /\ Newlines(buffer) # {}
      /\ cppReplies' = Append(cppReplies, reply)
      /\ buffer' = SubSeq(buffer, newline + 1, Len(buffer))
      /\ cppPc' = IF reply = TooLong THEN "closed" ELSE cppPc
      /\ stream' = stream /\ cppRead' = cppRead
  BY DEF CppHandleLine
<1>3. Answered(stream, d, cppReplies)
  BY <1>2 DEF CppInv
<1>4. /\ stream \in Seq(Byte) /\ buffer \in Seq(Byte) /\ Len(stream) \in Nat /\ Len(buffer) \in Nat
      /\ cppRead \in Nat
  BY <1>1 DEF FramingInv
<1>5. /\ d \in Nat /\ d <= cppRead /\ cppRead \in 0..Len(stream)
      /\ buffer = SubSeq(stream, d + 1, cppRead)
      /\ \A n \in Newlines(stream) : d < n /\ n <= cppRead => n - d \in Newlines(buffer)
      /\ \A i \in Newlines(buffer) : d + i \in Newlines(stream)
  BY <1>1, BufferIsPart
<1>6. Newlines(buffer) \in SUBSET (1..Len(buffer))
  BY <1>4, CountedLines
<1>7. newline \in Newlines(buffer) /\ \A i \in Newlines(buffer) : newline <= i
  <2>1. Newlines(buffer) \in SUBSET Nat
    BY <1>6
  <2> QED
    BY <1>2, <2>1, MinIsLeast
<1> HIDE DEF d, newline
<1>8. Len(buffer) = cppRead - d
  BY <1>4, <1>5
<1>9. newline \in 1..Len(buffer) /\ newline \in Nat /\ e \in Nat /\ d < e /\ e <= cppRead
  BY <1>4, <1>5, <1>6, <1>7, <1>8
<1>10. e \in Newlines(stream) /\ \A n \in Newlines(stream) : ~(d < n /\ n < e)
  <2>1. e \in Newlines(stream)
    BY <1>5, <1>7
  <2>2. ASSUME NEW n \in Newlines(stream), d < n, n < e PROVE FALSE
    <3>1. n \in Nat
      BY <1>4, CountedLines
    <3>2. n <= cppRead
      BY <1>4, <1>9, <2>2, <3>1
    <3>3. newline <= n - d
      BY <1>5, <1>7, <2>2, <3>2
    <3> QED
      BY <1>5, <1>9, <2>2, <3>1, <3>3
  <2> QED
    BY <2>1, <2>2
<1>11. SubSeq(buffer, 1, newline - 1) = SubSeq(stream, d + 1, e - 1)
  BY <1>4, <1>5, <1>9
<1>12. reply = Reply(SubSeq(stream, d + 1, e - 1)) /\ reply \in Seq(Byte)
  <2>1. SubSeq(buffer, 1, newline - 1) \in Seq(Byte)
    BY <1>4, <1>9
  <2> QED
    BY <1>11, <2>1, Refused
<1>13. Answering' = e
  <2>1. Len(buffer') = Len(buffer) - newline
    BY <1>2, <1>4, <1>9
  <2> QED
    BY <1>2, <1>4, <1>5, <1>8, <1>9, <2>1 DEF Answering
<1> HIDE DEF e, reply
<1>14. CASE reply # TooLong
  <2>1. Answered(stream, e, Append(cppReplies, reply))
    BY <1>3, <1>4, <1>9, <1>10, <1>12, <1>14, OneMoreAnswered
  <2>2. Answered(stream, Answering, cppReplies)'
    BY <1>2, <1>13, <2>1
  <2>3. cppPc' = "extract"
    BY <1>2, <1>14
  <2> QED
    BY <1>1, <2>2, <2>3 DEF CppInv
<1>15. CASE reply = TooLong
  <2>1. AllAnswers(stream) = Append(cppReplies, TooLong)
    BY <1>3, <1>4, <1>9, <1>10, <1>12, <1>15, AnswersToRefusedLine
  <2>2. /\ p \in Seq(Byte) /\ Answered(p, d, cppReplies)
        /\ Newlines(p) = {n \in Newlines(stream) : n <= cppRead}
    BY <1>1, <1>3, WhatWasReceived DEF d
  <2>3. SubSeq(p, d + 1, e - 1) = SubSeq(stream, d + 1, e - 1)
    BY <1>4, <1>5, <1>9
  <2> HIDE DEF p
  <2>4. e \in Newlines(p) /\ \A n \in Newlines(p) : ~(d < n /\ n < e)
    BY <1>9, <1>10, <2>2
  <2>5. Answers(p) = Append(cppReplies, TooLong)
    BY <1>9, <1>12, <1>15, <2>2, <2>3, <2>4, AnswersToRefusedLine
  <2>6. cppPc' = "closed" /\ cppReplies' = Append(cppReplies, TooLong)
    BY <1>2, <1>15
  <2>7. /\ AllAnswers(stream)' = AllAnswers(stream)
        /\ Answers(SubSeq(stream, 1, cppRead))' = Answers(p)
    BY <1>2 DEF p
  <2> QED
    BY <1>1, <2>1, <2>5, <2>6, <2>7 DEF CppInv
<1> QED
  BY <1>14, <1>15

\* The unterminated rest is refused as soon as the line it begins would be.
LEMMA CapKeepsStep ==
  ASSUME CppInv, FramingInv', CppCap
  PROVE  CppInv'
<1> DEFINE p == SubSeq(stream, 1, cppRead)
<1>1. /\ cppPc = "extract" /\ Newlines(buffer) = {}
      /\ stream' = stream /\ cppRead' = cppRead /\ buffer' = buffer
      /\ IF Reply(buffer) = TooLong
         THEN cppPc' = "closed" /\ cppReplies' = Append(cppReplies, TooLong)
         ELSE cppPc' = "recv" /\ cppReplies' = cppReplies
  BY DEF CppCap
<1>2. FramingInv /\ Answered(stream, Answering, cppReplies)
  BY <1>1 DEF CppInv
<1>3. CASE Reply(buffer) = TooLong
  <2>1. /\ p \in Seq(Byte) /\ Len(p) = cppRead /\ Answered(p, Answering, cppReplies)
        /\ SubSeq(p, Answering + 1, Len(p)) = buffer /\ \A n \in Newlines(p) : n <= Answering
    BY <1>1, <1>2, WhatWasReceived
  <2>2. /\ Answering \in Nat /\ Answering <= cppRead /\ cppRead \in 0..Len(stream)
        /\ buffer = SubSeq(stream, Answering + 1, cppRead)
        /\ \A n \in Newlines(stream) : ~(Answering < n /\ n <= cppRead)
        /\ stream \in Seq(Byte)
    BY <1>1, <1>2, BufferIsPart DEF FramingInv
  <2>3. cppRead \in Answering..Len(stream)
    BY <2>2
  <2>4. AllAnswers(stream) = Append(cppReplies, TooLong)
    BY <1>2, <1>3, <2>2, <2>3, AnswersToRefusedPart
  <2> HIDE DEF p
  <2>5. Answers(p) = Append(cppReplies, TooLong)
    BY <1>3, <2>1, AnswersOnceRead
  <2>6. cppPc' = "closed" /\ cppReplies' = Append(cppReplies, TooLong)
    BY <1>1, <1>3
  <2>7. /\ AllAnswers(stream)' = AllAnswers(stream)
        /\ Answers(SubSeq(stream, 1, cppRead))' = Answers(p)
    BY <1>1 DEF p
  <2> QED
    BY <2>4, <2>5, <2>6, <2>7 DEF CppInv
<1>4. CASE Reply(buffer) # TooLong
  <2>1. Answered(stream, Answering, cppReplies)'
    BY <1>1, <1>2, <1>4 DEF Answering
  <2> QED
    BY <1>1, <1>4, <2>1 DEF CppInv
<1> QED
  BY <1>3, <1>4

\* At the half-close the fragment is the rest of the stream.
LEMMA EofKeepsStep ==
  ASSUME CppInv, FramingInv', CppEof
  PROVE  CppInv'
<1>1. /\ cppPc = "recv" /\ cppRead = Len(stream) /\ cppPc' = "closed"
      /\ cppReplies' = IF buffer = <<>> THEN cppReplies ELSE Append(cppReplies, Reply(buffer))
      /\ stream' = stream /\ cppRead' = cppRead /\ buffer' = buffer
  BY DEF CppEof
<1>2. FramingInv /\ Answered(stream, Answering, cppReplies) /\ Newlines(buffer) = {}
      /\ stream \in Seq(Byte) /\ buffer \in Seq(Byte)
  BY <1>1 DEF CppInv, FramingInv
<1>3. Reply(buffer) # TooLong /\ Reply(buffer) \in Seq(Byte)
  <2>1. Len(Strip(buffer)) <= MaxLineBytes
    BY <1>1, <1>2 DEF FramingInv
  <2>2. Len(Strip(buffer)) \in Nat
    BY <1>2, StripEnds
  <2> QED
    BY <1>2, <2>1, <2>2, Refused, FramingAssumption
<1>4. /\ SubSeq(stream, Answering + 1, Len(stream)) = buffer
      /\ \A n \in Newlines(stream) : n <= Answering
  <2>1. SubSeq(stream, 1, Len(stream)) = stream
    BY <1>2
  <2> QED
    BY <1>1, <1>2, <2>1, WhatWasReceived
<1>5. AllAnswers(stream) = cppReplies'
  BY <1>1, <1>2, <1>4, AnswersOnceRead
<1>6. TooLong \notin Range(cppReplies')
  <2>1. cppReplies \in Seq(Seq(Byte)) /\ \A i \in 1..Len(cppReplies) : cppReplies[i] # TooLong
    BY <1>2 DEF Answered
  <2>2. CASE buffer = <<>>
    BY <1>1, <2>1, <2>2 DEF Range
  <2>3. CASE buffer # <<>>
    <3> DEFINE A == Append(cppReplies, Reply(buffer))
    <3>1. DOMAIN A = 1..(Len(cppReplies) + 1) /\ \A i \in DOMAIN A : A[i] # TooLong
      BY <1>3, <2>1
    <3>2. cppReplies' = A
      BY <1>1, <2>3
    <3> QED
      BY <3>1, <3>2 DEF Range
  <2> QED
    BY <2>2, <2>3
<1>7. AllAnswers(stream)' = AllAnswers(stream)
  BY <1>1
<1> QED
  BY <1>1, <1>5, <1>6, <1>7 DEF CppInv

--------------------------------------------------------------------------------
(* The Python DUT reads line by line.                                         *)

\* Where the Python DUT is in the stream, with the last line unfinished or not.
PyInv ==
  /\ pyPc \in {"readline", "closed"}
  /\ pyRead \in 0..Len(stream)
  /\ pyPc = "readline" =>
       \/ Answered(stream, pyRead, pyReplies)
       \/ halfClosed /\ pyRead = Len(stream) /\ pyReplies = AllAnswers(stream)
  /\ pyPc = "closed" => pyReplies = AllAnswers(stream)

\* What readline() returns: the next line, the limit without one, or the rest.
LEMMA WhatReadlineReturns ==
  ASSUME stream \in Seq(Byte), pyRead \in 0..Len(stream), ReadLineLength > 0
  PROVE  LET n == ReadLineLength
         IN  /\ n \in 1..(Len(stream) - pyRead)
             /\ SubSeq(Unread, 1, n) = SubSeq(stream, pyRead + 1, pyRead + n)
             /\ \A k \in Newlines(stream) : ~(pyRead < k /\ k < pyRead + n)
             /\ \/ pyRead + n \in Newlines(stream)
                \/ /\ \A k \in Newlines(stream) : ~(pyRead < k /\ k <= pyRead + n)
                   /\ n = MaxLineBytes + 2 \/ (halfClosed /\ pyRead + n = Len(stream))
<1> DEFINE d == pyRead
           u == Unread
           first == Min(Newlines(u))
           limit == MaxLineBytes + 2
           n == ReadLineLength
<1>1. d \in Nat /\ Len(stream) \in Nat /\ d <= Len(stream) /\ limit \in Nat
  BY FramingAssumption
<1>2. u \in Seq(Byte) /\ Len(u) = Len(stream) - d /\ \A i \in 1..Len(u) : u[i] = stream[d + i]
  BY <1>1 DEF Unread
<1>3. n = IF Newlines(u) # {} /\ first <= limit THEN first
          ELSE IF Len(u) >= limit THEN limit ELSE IF halfClosed THEN Len(u) ELSE 0
  BY DEF ReadLineLength
<1> HIDE DEF u, n, d, limit, first
<1>4. Newlines(u) \in SUBSET (1..Len(u)) /\ Len(u) \in Nat
  BY <1>2, CountedLines
<1>5. Newlines(u) # {} => first \in Newlines(u) /\ \A i \in Newlines(u) : first <= i
  <2>1. Newlines(u) \in SUBSET Nat
    BY <1>4
  <2> QED
    BY <2>1, MinIsLeast DEF first
<1>6. \A k \in Newlines(stream) : d < k => k - d \in Newlines(u)
  <2> SUFFICES ASSUME NEW k \in Newlines(stream), d < k PROVE k - d \in Newlines(u)
    OBVIOUS
  <2> DEFINE i == k - d
  <2>1. k \in 1..Len(stream) /\ stream[k] = "n"
    BY <1>1 DEF Newlines
  <2>2. i \in 1..Len(u) /\ d + i = k
    BY <1>1, <1>2, <2>1
  <2> HIDE DEF i
  <2>3. i \in Newlines(u)
    BY <1>2, <2>1, <2>2 DEF Newlines
  <2> QED
    BY <2>3 DEF i
<1>7. \A i \in Newlines(u) : d + i \in Newlines(stream)
  <2> SUFFICES ASSUME NEW i \in Newlines(u) PROVE d + i \in Newlines(stream)
    OBVIOUS
  <2>1. i \in 1..Len(u) /\ u[i] = "n"
    BY <1>4 DEF Newlines
  <2>2. d + i \in 1..Len(stream) /\ stream[d + i] = "n"
    BY <1>1, <1>2, <2>1
  <2> QED
    BY <1>1, <2>2 DEF Newlines
<1>8. n > 0
  BY DEF n
<1>9. n \in 1..Len(u)
  BY <1>1, <1>3, <1>4, <1>5, <1>8
<1>10. \A i \in Newlines(u) : n <= i
  BY <1>1, <1>3, <1>4, <1>5, <1>9
<1>11. \A k \in Newlines(stream) : k \in Nat
  BY <1>1 DEF Newlines
<1>12. \A k \in Newlines(stream) : ~(d < k /\ k < d + n)
  <2> SUFFICES ASSUME NEW k \in Newlines(stream), d < k, k < d + n PROVE FALSE
    OBVIOUS
  <2>1. n <= k - d /\ k \in Nat /\ n \in Nat
    BY <1>6, <1>9, <1>10, <1>11
  <2> QED
    BY <1>1, <2>1
<1>13. \/ d + n \in Newlines(stream)
       \/ /\ \A k \in Newlines(stream) : ~(d < k /\ k <= d + n)
          /\ n = limit \/ (halfClosed /\ d + n = Len(stream))
  <2>1. CASE n \in Newlines(u)
    BY <1>7, <2>1
  <2>2. CASE n \notin Newlines(u)
    <3>1. n = limit \/ (halfClosed /\ n = Len(u))
      BY <1>3, <1>5, <1>8, <2>2
    <3>2. halfClosed /\ n = Len(u) => halfClosed /\ d + n = Len(stream)
      BY <1>1, <1>2
    <3>3. ASSUME NEW k \in Newlines(stream), d < k, k <= d + n PROVE FALSE
      <4>1. k - d \in Newlines(u) /\ n <= k - d /\ k \in Nat /\ n \in Nat
        BY <1>6, <1>9, <1>10, <1>11, <3>3
      <4>2. n = k - d
        BY <1>1, <3>3, <4>1
      <4> QED
        BY <2>2, <4>1, <4>2
    <3> QED
      BY <3>1, <3>2, <3>3
  <2> QED
    BY <2>1, <2>2
<1>14. SubSeq(u, 1, n) = SubSeq(stream, d + 1, d + n)
  <2> DEFINE B == SubSeq(u, 1, n)
             C == SubSeq(stream, d + 1, d + n)
  <2>1. n \in Nat /\ n <= Len(u) /\ d + n <= Len(stream)
    BY <1>1, <1>2, <1>9
  <2>2. B \in Seq(Byte) /\ Len(B) = n /\ \A i \in 1..n : B[i] = u[i]
    BY <1>2, <2>1
  <2>3. C \in Seq(Byte) /\ Len(C) = n /\ \A i \in 1..n : C[i] = stream[d + i]
    <3> DEFINE e == d + n
    <3>1. e \in Nat /\ d <= e /\ e <= Len(stream) /\ e - d = n
      BY <1>1, <2>1
    <3> HIDE DEF e
    <3>2. SubSeq(stream, d + 1, e) \in Seq(Byte) /\ Len(SubSeq(stream, d + 1, e)) = e - d
          /\ \A i \in 1..(e - d) : SubSeq(stream, d + 1, e)[i] = stream[d + i]
      BY <1>1, <3>1
    <3> QED
      BY <3>1, <3>2 DEF e
  <2> HIDE DEF B, C
  <2>4. \A i \in 1..n : B[i] = C[i]
    BY <1>2, <2>1, <2>2, <2>3
  <2>5. B = [i \in 1..Len(B) |-> B[i]] /\ C = [i \in 1..Len(C) |-> C[i]]
    BY <2>2, <2>3
  <2>6. B = C
    BY <2>2, <2>3, <2>4, <2>5
  <2> QED
    BY <2>6 DEF B, C
<1>15. n \in 1..(Len(stream) - d)
  BY <1>2, <1>9
<1> QED
  BY <1>12, <1>13, <1>14, <1>15 DEF d, u, n, limit

\* The newline that readline() returns with a line is no payload.
LEMMA WithItsNewline ==
  ASSUME NEW s \in Seq(Byte), NEW d \in Nat, NEW e \in Newlines(s), d < e
  PROVE  /\ Reply(SubSeq(s, d + 1, e)) = Reply(SubSeq(s, d + 1, e - 1))
         /\ Reply(SubSeq(s, d + 1, e)) \in Seq(Byte)
<1> DEFINE line == SubSeq(s, d + 1, e - 1)
           longer == SubSeq(s, d + 1, e)
<1>1. e \in 1..Len(s) /\ s[e] = "n" /\ Len(s) \in Nat /\ e \in Nat
  BY DEF Newlines
<1>2. /\ line \in Seq(Byte) /\ Len(line) = e - 1 - d /\ \A i \in 1..(e - 1 - d) : line[i] = s[d + i]
      /\ longer \in Seq(Byte) /\ Len(longer) = e - d /\ \A i \in 1..(e - d) : longer[i] = s[d + i]
  BY <1>1
<1> HIDE DEF line, longer
<1>3. Len(line) <= Len(longer) /\ \A i \in 1..Len(line) : longer[i] = line[i]
  BY <1>1, <1>2
<1>4. \A i \in 1..Len(longer) : i > Len(line) => longer[i] # "x"
  <2> SUFFICES ASSUME NEW i \in 1..Len(longer), i > Len(line) PROVE longer[i] # "x"
    OBVIOUS
  <2>1. i = e - d /\ i \in 1..(e - d) /\ d + i = e
    BY <1>1, <1>2
  <2> QED
    BY <1>1, <1>2, <2>1
<1>5. Strip(line) = Strip(longer)
  BY <1>2, <1>3, <1>4, StripExtends
<1>6. Reply(longer) = Reply(line) /\ Reply(longer) \in Seq(Byte)
  BY <1>2, <1>5, Refused DEF Reply
<1> QED
  BY <1>6 DEF line, longer

\* As many bytes as readline() takes are over the limit, with one CR at most in a row.
LEMMA LimitIsOver ==
  ASSUME FramingInv, LongestCR <= 1, NEW d \in Nat, d + MaxLineBytes + 2 <= Len(stream),
         \A k \in Newlines(stream) : ~(d < k /\ k <= d + MaxLineBytes + 2)
  PROVE  Reply(SubSeq(stream, d + 1, d + MaxLineBytes + 2)) = TooLong
<1> DEFINE n == MaxLineBytes + 2
           line == SubSeq(stream, d + 1, d + n)
           i == d + MaxLineBytes + 1
<1>1. stream \in Seq(Byte) /\ Len(stream) \in Nat /\ MaxLineBytes \in Nat /\ LongestCR \in Nat
  BY FramingAssumption DEF FramingInv
<1>2. i \in 1..(Len(stream) - LongestCR)
  BY <1>1
<1>3. PICK j \in i..(i + LongestCR) : stream[j] # "r"
  BY <1>2 DEF FramingInv
<1>4. j \in Nat /\ j > d + MaxLineBytes /\ j <= d + n /\ j <= Len(stream) /\ j >= 1
  BY <1>1, <1>3
<1>5. stream[j] = "x"
  <2>1. stream[j] \in Byte /\ j \in DOMAIN stream
    BY <1>1, <1>4
  <2>2. stream[j] # "n"
    <3>1. stream[j] = "n" => j \in Newlines(stream)
      BY <2>1 DEF Newlines
    <3> QED
      BY <1>1, <1>4, <3>1
  <2> QED
    BY <1>3, <2>1, <2>2 DEF Byte
<1>6. line \in Seq(Byte) /\ Len(line) = n /\ \A k \in 1..n : line[k] = stream[d + k]
  <2>1. n \in Nat /\ d + n \in Nat /\ d + n <= Len(stream)
    BY <1>1
  <2> HIDE DEF n
  <2> QED
    BY <1>1, <2>1
<1> HIDE DEF line
<1> DEFINE k == j - d
<1>7. k \in 1..n /\ d + k = j /\ k > MaxLineBytes
  BY <1>1, <1>4
<1> HIDE DEF k
<1>8. k \in DOMAIN line /\ line[k] = "x"
  BY <1>5, <1>6, <1>7
<1>9. k <= Len(Strip(line)) /\ Len(Strip(line)) \in Nat
  <2>1. Len(Strip(line)) \in 0..Len(line) /\ ~(k > Len(Strip(line)))
    BY <1>6, <1>8, Stripped
  <2> QED
    BY <1>1, <1>6, <1>7, <2>1
<1>10. Len(Strip(line)) > MaxLineBytes
  BY <1>1, <1>7, <1>9
<1>11. Reply(line) = TooLong
  BY <1>6, <1>10, Refused
<1> QED
  BY <1>1, <1>11 DEF line

--------------------------------------------------------------------------------

\* A line that Python reads, whole or not, is answered as the stream's.
LEMMA PythonLineKeepsStep ==
  ASSUME LongestCR <= 1, FramingInv, PyInv, PyHandleLine
  PROVE  PyInv'
<1> DEFINE d == pyRead
           n == ReadLineLength
           reply == Reply(SubSeq(Unread, 1, n))
           R == pyReplies
<1>1. /\ pyPc = "readline" /\ n > 0 /\ R' = Append(R, reply)
      /\ pyPc' = IF reply = TooLong THEN "closed" ELSE pyPc
      /\ pyRead' = d + n /\ stream' = stream /\ halfClosed' = halfClosed
  BY DEF PyHandleLine
<1>2. stream \in Seq(Byte) /\ d \in 0..Len(stream) /\ Len(stream) \in Nat /\ d \in Nat
  BY DEF FramingInv, PyInv
<1>3. /\ n \in 1..(Len(stream) - d)
      /\ SubSeq(Unread, 1, n) = SubSeq(stream, d + 1, d + n)
      /\ \A k \in Newlines(stream) : ~(d < k /\ k < d + n)
      /\ \/ d + n \in Newlines(stream)
         \/ /\ \A k \in Newlines(stream) : ~(d < k /\ k <= d + n)
            /\ n = MaxLineBytes + 2 \/ (halfClosed /\ d + n = Len(stream))
  BY <1>1, <1>2, WhatReadlineReturns
<1> DEFINE e == d + n
<1>4. e \in Nat /\ d < e /\ e <= Len(stream) /\ reply = Reply(SubSeq(stream, d + 1, e))
  <2>1. reply = Reply(SubSeq(stream, d + 1, e))
    BY <1>3
  <2> HIDE DEF n, d, reply
  <2>2. e \in Nat /\ d < e /\ e <= Len(stream)
    BY <1>2, <1>3
  <2> QED
    BY <2>1, <2>2
<1>5. Answered(stream, d, R)
  <2>1. d # Len(stream)
    BY <1>2, <1>4
  <2> QED
    BY <1>1, <2>1 DEF PyInv
<1>6. AllAnswers(stream)' = AllAnswers(stream)
  BY <1>1
<1>7. /\ \A k \in Newlines(stream) : ~(d < k /\ k < e)
      /\ \/ e \in Newlines(stream)
         \/ /\ \A k \in Newlines(stream) : ~(d < k /\ k <= e)
            /\ n = MaxLineBytes + 2 \/ (halfClosed /\ e = Len(stream))
  BY <1>3
<1> HIDE DEF d, n, reply, e, R
<1>8. pyRead' = e /\ e \in 0..Len(stream)'
  BY <1>1, <1>2, <1>4 DEF e
<1>9. CASE e \in Newlines(stream)
  <2>1. reply = Reply(SubSeq(stream, d + 1, e - 1)) /\ reply \in Seq(Byte)
    BY <1>2, <1>4, <1>9, WithItsNewline
  <2>2. CASE reply = TooLong
    <3>1. AllAnswers(stream) = Append(R, TooLong)
      BY <1>2, <1>4, <1>5, <1>7, <1>9, <2>1, <2>2, AnswersToRefusedLine
    <3> QED
      BY <1>1, <1>6, <1>8, <2>2, <3>1 DEF PyInv, R
  <2>3. CASE reply # TooLong
    <3>1. Answered(stream, e, Append(R, reply))
      BY <1>2, <1>4, <1>5, <1>7, <1>9, <2>1, <2>3, OneMoreAnswered
    <3>2. Answered(stream, pyRead, pyReplies)'
      BY <1>1, <1>8, <3>1 DEF R
    <3> QED
      BY <1>1, <1>8, <2>3, <3>2 DEF PyInv
  <2> QED
    BY <2>2, <2>3
<1>10. CASE /\ \A k \in Newlines(stream) : ~(d < k /\ k <= e)
            /\ n = MaxLineBytes + 2
  <2>1. e = d + MaxLineBytes + 2
    BY <1>2, <1>10, FramingAssumption DEF e
  <2>2. reply = TooLong
    BY <1>2, <1>4, <1>10, <2>1, LimitIsOver
  <2>3. e \in d..Len(stream)
    BY <1>2, <1>4
  <2>4. AllAnswers(stream) = Append(R, TooLong)
    BY <1>2, <1>4, <1>5, <1>10, <2>2, <2>3, AnswersToRefusedPart
  <2> QED
    BY <1>1, <1>6, <1>8, <2>2, <2>4 DEF PyInv, R
<1>11. CASE /\ \A k \in Newlines(stream) : ~(d < k /\ k <= e)
            /\ halfClosed /\ e = Len(stream)
  <2>1. \A k \in Newlines(stream) : k <= d
    <3>1. \A k \in Newlines(stream) : k \in Nat /\ k <= Len(stream)
      BY <1>2 DEF Newlines
    <3> QED
      BY <1>2, <1>11, <3>1
  <2>2. SubSeq(stream, d + 1, Len(stream)) # <<>>
    <3> DEFINE rest == SubSeq(stream, d + 1, Len(stream))
    <3>1. Len(rest) = Len(stream) - d /\ Len(<<>>) = 0
      BY <1>2
    <3>2. Len(stream) - d # 0
      BY <1>2, <1>4, <1>11
    <3> HIDE DEF rest
    <3>3. rest # <<>>
      BY <3>1, <3>2
    <3> QED
      BY <3>3 DEF rest
  <2>3. AllAnswers(stream) = Append(R, reply)
    BY <1>2, <1>4, <1>5, <1>11, <2>1, <2>2, AnswersOnceRead
  <2> QED
    BY <1>1, <1>6, <1>8, <1>11, <2>3 DEF PyInv, R
<1> QED
  BY <1>7, <1>9, <1>10, <1>11

\* readline() has nothing left.
LEMMA PythonEofKeepsStep ==
  ASSUME FramingInv, PyInv, PyEof
  PROVE  PyInv'
<1>1. /\ pyPc = "readline" /\ halfClosed /\ Unread = <<>> /\ pyPc' = "closed"
      /\ pyRead' = pyRead /\ pyReplies' = pyReplies /\ stream' = stream
  BY DEF PyEof
<1>2. stream \in Seq(Byte) /\ pyRead \in 0..Len(stream) /\ Len(stream) \in Nat
  BY DEF FramingInv, PyInv
<1>3. CASE Answered(stream, pyRead, pyReplies)
  <2>1. SubSeq(stream, pyRead + 1, Len(stream)) = <<>>
    BY <1>1 DEF Unread
  <2>2. pyRead = Len(stream)
    <3> DEFINE rest == SubSeq(stream, pyRead + 1, Len(stream))
    <3>1. Len(rest) = Len(stream) - pyRead /\ Len(<<>>) = 0
      BY <1>2
    <3> HIDE DEF rest
    <3>2. Len(rest) = 0
      BY <2>1, <3>1 DEF rest
    <3> QED
      BY <1>2, <3>1, <3>2
  <2>3. \A k \in Newlines(stream) : k <= pyRead
    BY <1>2, <2>2 DEF Newlines
  <2>4. AllAnswers(stream) = pyReplies
    BY <1>2, <1>3, <2>1, <2>3, AnswersOnceRead
  <2>5. AllAnswers(stream)' = AllAnswers(stream)
    BY <1>1
  <2> QED
    BY <1>1, <1>2, <2>4, <2>5 DEF PyInv
<1>4. CASE pyReplies = AllAnswers(stream)
  <2>1. AllAnswers(stream)' = AllAnswers(stream)
    BY <1>1
  <2> QED
    BY <1>1, <1>2, <1>4, <2>1 DEF PyInv
<1> QED
  BY <1>1, <1>3, <1>4 DEF PyInv

\* The invariant of what the C++ DUT answers.
THEOREM CppInvariance == Spec => []CppInv
<1>1. Init => Answered(stream, 0, <<>>) /\ Answering = 0
  <2> SUFFICES ASSUME Init PROVE Answered(stream, 0, <<>>) /\ Answering = 0
    OBVIOUS
  <2>1. stream \in Seq(Byte) /\ Len(stream) \in Nat
    BY FramingAssumption DEF Init, Streams, BoundedSeq, SeqOf
  <2>2. LinesUpTo(stream, 0) = 0
    BY <2>1, CountedLines
  <2>3. Len(<<>>) = 0 /\ <<>> \in Seq(Seq(Byte)) /\ 1..0 = {}
    OBVIOUS
  <2>4. Answering = 0
    <3>1. cppRead \in Int /\ Len(buffer) \in Int /\ Len(buffer) = cppRead
      BY DEF Init
    <3>2. \A a, b \in Int : a = b => b - a = 0
      OBVIOUS
    <3> QED
      BY <3>1, <3>2 DEF Answering
  <2> QED
    BY <2>1, <2>2, <2>3, <2>4 DEF Answered
<1>2. Init /\ FramingInv => CppInv
  BY <1>1 DEF Init, CppInv
<1>3. FramingInv' /\ CppInv /\ [Next]_vars => CppInv'
  <2> SUFFICES ASSUME FramingInv', CppInv, [Next]_vars PROVE CppInv'
    OBVIOUS
  <2>1. CASE PyHandleLine \/ PyEof \/ HalfClose \/ UNCHANGED vars
    <3>1. UNCHANGED <<stream, cppPc, cppRead, buffer, cppReplies>>
      BY <2>1 DEF PyHandleLine, PyEof, HalfClose, vars, cppVars
    <3>2. AllAnswers(stream)' = AllAnswers(stream)
          /\ Answers(SubSeq(stream, 1, cppRead))' = Answers(SubSeq(stream, 1, cppRead))
          /\ Answered(stream, Answering, cppReplies)' = Answered(stream, Answering, cppReplies)
      BY <3>1 DEF Answering
    <3> QED
      BY <3>1, <3>2 DEF CppInv
  <2> QED
    BY <2>1, RecvKeepsStep, HandleKeepsStep, CapKeepsStep, EofKeepsStep DEF Next
<1> QED
  BY <1>2, <1>3, FramingInvariance, PTL DEF Spec

\* "The newline is the frame boundary, not the packet" (docs/PROTOCOL.md): for any stream
\* and any way it is cut into chunks, what the C++ DUT has answered when it waits for
\* more, or has hung up on an over-long line, depends on the bytes received alone.
THEOREM ChunksDoNotShow == Spec => []ChunkingIsInvisible
<1>1. CppInv => ChunkingIsInvisible
  <2> SUFFICES ASSUME CppInv, cppPc = "recv"
               PROVE  cppReplies = Answers(SubSeq(stream, 1, cppRead))
    BY DEF CppInv, ChunkingIsInvisible
  <2>1. FramingInv /\ Answered(stream, Answering, cppReplies) /\ Newlines(buffer) = {}
        /\ buffer \in Seq(Byte) /\ Len(Strip(buffer)) <= MaxLineBytes
    BY DEF CppInv, FramingInv
  <2>2. Reply(buffer) # TooLong
    <3>1. Len(Strip(buffer)) \in Nat
      BY <2>1, StripEnds
    <3> QED
      BY <2>1, <3>1, Refused, FramingAssumption
  <2> DEFINE p == SubSeq(stream, 1, cppRead)
  <2>3. /\ p \in Seq(Byte) /\ Answered(p, Answering, cppReplies)
        /\ SubSeq(p, Answering + 1, Len(p)) = buffer /\ \A n \in Newlines(p) : n <= Answering
    BY <2>1, WhatWasReceived
  <2> HIDE DEF p
  <2>4. Answers(p) = cppReplies
    BY <2>2, <2>3, AnswersOnceRead
  <2> QED
    BY <2>4 DEF p
<1> QED
  BY <1>1, CppInvariance, PTL

\* The invariant of what the Python DUT answers.
THEOREM PyInvariance ==
  ASSUME LongestCR <= 1
  PROVE  Spec => []PyInv
<1>1. Init => PyInv
  <2> SUFFICES ASSUME Init PROVE PyInv
    OBVIOUS
  <2>1. stream \in Seq(Byte) /\ Len(stream) \in Nat
    BY FramingAssumption DEF Init, Streams, BoundedSeq, SeqOf
  <2>2. LinesUpTo(stream, 0) = 0
    BY <2>1, CountedLines
  <2>3. Len(<<>>) = 0 /\ <<>> \in Seq(Seq(Byte)) /\ 1..0 = {}
    OBVIOUS
  <2>4. Answered(stream, 0, <<>>)
    BY <2>1, <2>2, <2>3 DEF Answered
  <2> QED
    BY <2>1, <2>4 DEF Init, PyInv
<1>2. FramingInv /\ PyInv /\ [Next]_vars => PyInv'
  <2> SUFFICES ASSUME FramingInv, PyInv, [Next]_vars PROVE PyInv'
    OBVIOUS
  <2>1. CASE UNCHANGED <<stream, pyVars>> /\ (halfClosed => halfClosed')
    <3>1. stream' = stream /\ pyPc' = pyPc /\ pyRead' = pyRead /\ pyReplies' = pyReplies
      BY <2>1 DEF pyVars
    <3>2. AllAnswers(stream)' = AllAnswers(stream)
          /\ Answered(stream, pyRead, pyReplies)' = Answered(stream, pyRead, pyReplies)
      BY <3>1
    <3> QED
      BY <2>1, <3>1, <3>2 DEF PyInv
  <2>2. CASE (\E k \in 1..MaxChunk : CppRecv(k)) \/ CppHandleLine \/ CppCap \/ CppEof
             \/ HalfClose \/ UNCHANGED vars
    <3>1. UNCHANGED <<stream, pyVars>> /\ (halfClosed => halfClosed')
      BY <2>2 DEF CppRecv, CppHandleLine, CppCap, CppEof, HalfClose, vars, pyVars
    <3> QED
      BY <2>1, <3>1
  <2> QED
    BY <2>2, PythonLineKeepsStep, PythonEofKeepsStep DEF Next
<1> QED
  BY <1>1, <1>2, FramingInvariance, PTL DEF Spec

\* The same request bytes get the same answers from both DUTs, refusals and the line that
\* has no end included, for any stream without two CRs in a row and any chunks.
THEOREM DutsAnswerAlike ==
  ASSUME LongestCR <= 1
  PROVE  Spec => []SameAnswers
<1>1. CppInv /\ PyInv => SameAnswers
  BY DEF CppInv, PyInv, SameAnswers
<1> QED
  BY <1>1, CppInvariance, PyInvariance, PTL

--------------------------------------------------------------------------------
(* Text: any bytes, any escapes.                                              *)

\* Of any sequences, one is no longer than the others.
LEMMA ShortestOfMany ==
  ASSUME NEW A, NEW Many \in SUBSET Seq(A), Many # {}
  PROVE  \E s \in Many : \A t \in Many : ~(Len(t) < Len(s))
<1> DEFINE Lengths == {Len(s) : s \in Many}
<1>1. \A s \in Many : Len(s) \in Nat
  OBVIOUS
<1>2. Lengths # {} /\ Lengths \in SUBSET Nat
  BY <1>1
<1>3. PICK n \in Lengths : \A m \in Lengths : n <= m
  <2> HIDE DEF Lengths
  <2> QED
    BY <1>2, LeastNumber
<1>4. PICK s \in Many : n = Len(s)
  BY <1>3
<1>5. \A t \in Many : Len(t) \in Nat /\ Len(s) <= Len(t)
  BY <1>1, <1>3, <1>4
<1> QED
  BY <1>1, <1>4, <1>5

\* f is made by a recursion on shorter sequences: a head, before what it makes of the rest.
Solves(f, A, head, rest) ==
  f = [s \in Seq(A) |-> IF s = <<>> THEN <<>> ELSE head[s] \o f[rest[s]]]
OnlySolution(f, A, head, rest) ==
  Solves(f, A, head, rest) /\ \A g : Solves(g, A, head, rest) => g = f
Shortens(rest, A) == \A s \in Seq(A) : s # <<>> => Len(rest[s]) < Len(s)

\* Such a recursion has a solution, and only one: the pairs that it forces.
LEMMA RecursionOnShorter ==
  ASSUME NEW A, NEW B, NEW head \in [Seq(A) -> Seq(B)], NEW rest \in [Seq(A) -> Seq(A)],
         Shortens(rest, A)
  PROVE  \E f \in [Seq(A) -> Seq(B)] : OnlySolution(f, A, head, rest)
<1> DEFINE Pairs == Seq(A) \X Seq(B)
           Closed(C) ==
             /\ << <<>>, <<>> >> \in C
             /\ \A s \in Seq(A), v \in Seq(B) :
                  s # <<>> /\ <<rest[s], v>> \in C => <<s, head[s] \o v>> \in C
           Forced == {x \in Pairs : \A C \in SUBSET Pairs : Closed(C) => x \in C}
           OnlyForced(s, v) == /\ <<s, v>> \in Forced
                               /\ \A w \in Seq(B) : <<s, w>> \in Forced => w = v
           Bad == {s \in Seq(A) : ~ \E v \in Seq(B) : OnlyForced(s, v)}
<1>13. \A s \in Seq(A) : s # <<>> => Len(rest[s]) < Len(s)
  BY DEF Shortens
<1>0. /\ <<>> \in Seq(A) /\ <<>> \in Seq(B)
      /\ \A x, y \in Seq(B) : x \o y \in Seq(B)
  OBVIOUS
<1>1. << <<>>, <<>> >> \in Forced
  BY <1>0
<1>2. ASSUME NEW s \in Seq(A), NEW v \in Seq(B), s # <<>>, <<rest[s], v>> \in Forced
      PROVE  <<s, head[s] \o v>> \in Forced
  <2>1. head[s] \in Seq(B) /\ head[s] \o v \in Seq(B)
    OBVIOUS
  <2>2. <<s, head[s] \o v>> \in Pairs
    BY <2>1
  <2>3. ASSUME NEW C \in SUBSET Pairs, Closed(C) PROVE <<s, head[s] \o v>> \in C
    <3>1. <<rest[s], v>> \in C
      BY <1>2, <2>3
    <3> QED
      BY <1>2, <2>3, <3>1
  <2> HIDE DEF Pairs, Closed
  <2> QED
    BY <2>2, <2>3
<1>3. Forced \in SUBSET Pairs /\ Closed(Forced)
  <2> HIDE DEF Pairs
  <2>1. Forced \in SUBSET Pairs
    OBVIOUS
  <2> HIDE DEF Forced
  <2> QED
    BY <1>1, <1>2, <2>1
<1>4. \A C \in SUBSET Pairs : Closed(C) => Forced \subseteq C
  <2> HIDE DEF Pairs, Closed
  <2> QED
    OBVIOUS
<1> HIDE DEF Forced
<1>5. ASSUME NEW w \in Seq(B), << <<>>, w>> \in Forced
      PROVE  w = <<>>
  <2> SUFFICES ASSUME w # <<>> PROVE FALSE
    OBVIOUS
  <2> DEFINE C == Forced \ {<< <<>>, w>>}
  <2>1. C \in SUBSET Pairs /\ << <<>>, <<>> >> \in C
    BY <1>1, <1>3
  <2>2. ASSUME NEW s \in Seq(A), NEW v \in Seq(B), s # <<>>, <<rest[s], v>> \in C
        PROVE  <<s, head[s] \o v>> \in C
    BY <1>2, <2>2
  <2>3. Closed(C)
    BY <2>1, <2>2
  <2> HIDE DEF Closed, Pairs
  <2> QED
    BY <1>4, <1>5, <2>1, <2>3
<1>6. ASSUME NEW s \in Seq(A), s # <<>>, NEW v \in Seq(B), <<rest[s], v>> \in Forced,
             \A w \in Seq(B) : <<rest[s], w>> \in Forced => w = v,
             NEW w \in Seq(B), <<s, w>> \in Forced
      PROVE  w = head[s] \o v
  <2> SUFFICES ASSUME w # head[s] \o v PROVE FALSE
    OBVIOUS
  <2> DEFINE C == Forced \ {<<s, w>>}
  <2>1. C \in SUBSET Pairs /\ << <<>>, <<>> >> \in C
    BY <1>1, <1>3, <1>6
  <2>2. ASSUME NEW t \in Seq(A), NEW u \in Seq(B), t # <<>>, <<rest[t], u>> \in C
        PROVE  <<t, head[t] \o u>> \in C
    <3>1. <<t, head[t] \o u>> \in Forced
      BY <1>2, <2>2
    <3>2. CASE t = s
      <4>1. u = v
        BY <1>6, <2>2, <3>2
      <4> QED
        BY <3>1, <3>2, <4>1
    <3> QED
      BY <3>1, <3>2
  <2>3. Closed(C)
    BY <2>1, <2>2
  <2> HIDE DEF Closed, Pairs
  <2> QED
    BY <1>4, <1>6, <2>1, <2>3
<1>7. Bad = {}
  <2> SUFFICES ASSUME Bad # {} PROVE FALSE
    OBVIOUS
  <2>4. PICK s \in Bad : \A t \in Bad : ~(Len(t) < Len(s))
    <3>1. Bad \in SUBSET Seq(A)
      OBVIOUS
    <3> HIDE DEF Bad
    <3> QED
      BY <3>1, ShortestOfMany
  <2>6. s \in Seq(A)
    BY <2>4
  <2>7. s # <<>>
    BY <1>0, <1>1, <1>5, <2>4
  <2>8. rest[s] \in Seq(A) /\ rest[s] \notin Bad
    BY <1>13, <2>4, <2>6, <2>7
  <2>9. PICK v \in Seq(B) : <<rest[s], v>> \in Forced
                            /\ \A w \in Seq(B) : <<rest[s], w>> \in Forced => w = v
    BY <2>8
  <2>10. <<s, head[s] \o v>> \in Forced /\ head[s] \o v \in Seq(B)
    <3>1. head[s] \in Seq(B)
      BY <2>6
    <3>2. head[s] \o v \in Seq(B)
      BY <1>0, <2>9, <3>1
    <3> QED
      BY <1>2, <2>6, <2>7, <2>9, <3>2
  <2>11. \A w \in Seq(B) : <<s, w>> \in Forced => w = head[s] \o v
    BY <1>6, <2>6, <2>7, <2>9
  <2> QED
    BY <2>4, <2>10, <2>11
<1> DEFINE f == [s \in Seq(A) |-> CHOOSE v \in Seq(B) : <<s, v>> \in Forced]
<1>8. ASSUME NEW s \in Seq(A)
      PROVE  /\ f[s] \in Seq(B) /\ <<s, f[s]>> \in Forced
             /\ \A w \in Seq(B) : <<s, w>> \in Forced => w = f[s]
  <2>1. \E v \in Seq(B) : <<s, v>> \in Forced /\ \A w \in Seq(B) : <<s, w>> \in Forced => w = v
    BY <1>7
  <2> QED
    BY <2>1
<1>9. f \in [Seq(A) -> Seq(B)]
  BY <1>8
<1> HIDE DEF f
<1>10. ASSUME NEW s \in Seq(A)
       PROVE  f[s] = IF s = <<>> THEN <<>> ELSE head[s] \o f[rest[s]]
  <2>1. CASE s = <<>>
    BY <1>5, <1>8, <2>1
  <2>2. CASE s # <<>>
    <3>1. rest[s] \in Seq(A) /\ head[s] \in Seq(B)
      OBVIOUS
    <3>2. <<rest[s], f[rest[s]]>> \in Forced /\ f[rest[s]] \in Seq(B)
      BY <1>8, <3>1
    <3>3. <<s, head[s] \o f[rest[s]]>> \in Forced /\ head[s] \o f[rest[s]] \in Seq(B)
      <4>1. head[s] \o f[rest[s]] \in Seq(B)
        BY <1>0, <3>1, <3>2
      <4> QED
        BY <1>2, <2>2, <3>2, <4>1
    <3> QED
      BY <1>8, <2>2, <3>3
  <2> QED
    BY <2>1, <2>2
<1>11. Solves(f, A, head, rest)
  BY <1>9, <1>10 DEF Solves
<1>12. ASSUME NEW g, Solves(g, A, head, rest)
       PROVE  g = f
  <2> DEFINE Differ == {s \in Seq(A) : g[s] # f[s]}
  <2>1. g = [s \in Seq(A) |-> g[s]] /\ f = [s \in Seq(A) |-> f[s]]
    BY <1>9, <1>12 DEF Solves
  <2>2. SUFFICES ASSUME \E s \in Seq(A) : g[s] # f[s] PROVE FALSE
    BY <2>1
  <2>6. PICK s \in Differ : \A t \in Differ : ~(Len(t) < Len(s))
    <3>1. Differ \in SUBSET Seq(A) /\ Differ # {}
      BY <2>2
    <3> HIDE DEF Differ
    <3> QED
      BY <3>1, ShortestOfMany
  <2>7. \A t \in Seq(A) : Len(t) < Len(s) => g[t] = f[t]
    BY <2>6
  <2>8. g[s] = IF s = <<>> THEN <<>> ELSE head[s] \o g[rest[s]]
    BY <1>12 DEF Solves
  <2>9. s # <<>> => rest[s] \in Seq(A) /\ Len(rest[s]) < Len(s)
    BY <1>13
  <2> QED
    BY <1>10, <2>6, <2>7, <2>8, <2>9
<1> QED
  BY <1>9, <1>11, <1>12 DEF OnlySolution

\* What parse_string does with the first escapes of a string.
IsPair(s) == Len(s) > 1 /\ s[1] \in High /\ s[2] \in Low
FirstPoint(s) == IF IsPair(s) THEN 65536 + (s[1] - 55296) * 1024 + (s[2] - 56320) ELSE s[1]
AfterPoint(s) == IF IsPair(s) THEN SubSeq(s, 3, Len(s)) ELSE Tail(s)

LEMMA UnitIsSmall == \A u \in Unit : u \in Nat /\ u < 65536
  BY SMT DEF Unit

\* A code point, written as escapes, is what it was read from.
LEMMA FirstOfString ==
  ASSUME NEW s \in Seq(Unit), s # <<>>
  PROVE  /\ FirstPoint(s) \in Nat /\ AfterPoint(s) \in Seq(Unit) /\ Len(AfterPoint(s)) < Len(s)
         /\ Escapes(FirstPoint(s)) \o AfterPoint(s) = s
<1>1. Len(s) \in Nat /\ Len(s) > 0 /\ s[1] \in Unit
  OBVIOUS
<1>2. CASE IsPair(s)
  <2> DEFINE h == s[1]
             l == s[2]
             r == SubSeq(s, 3, Len(s))
             p == 65536 + (h - 55296) * 1024 + (l - 56320)
  <2>1. h \in 55296..56319 /\ l \in 56320..57343 /\ Len(s) > 1
    BY <1>2 DEF IsPair, High, Low
  <2>2. r \in Seq(Unit) /\ Len(r) = Len(s) - 2 /\ s = <<h, l>> \o r
    BY <1>1, <2>1
  <2>3. FirstPoint(s) = p /\ AfterPoint(s) = r
    BY <1>2 DEF FirstPoint, AfterPoint
  <2> HIDE DEF h, l, r
  <2>4. p \in Nat /\ ~(p < 65536) /\ p - 65536 = (h - 55296) * 1024 + (l - 56320)
    BY <2>1
  <2>5. /\ ((h - 55296) * 1024 + (l - 56320)) \div 1024 = h - 55296
        /\ ((h - 55296) * 1024 + (l - 56320)) % 1024 = l - 56320
    BY <2>1
  <2>6. 55296 + (h - 55296) = h /\ 56320 + (l - 56320) = l
    BY <2>1
  <2>7. Escapes(p) = <<h, l>>
    <3> DEFINE q == p - 65536
    <3>1. Escapes(p) = <<55296 + q \div 1024, 56320 + (q % 1024)>>
      BY <2>4 DEF Escapes
    <3>2. q \div 1024 = h - 55296 /\ q % 1024 = l - 56320
      BY <2>4, <2>5
    <3> HIDE DEF p, q
    <3> QED
      BY <2>6, <3>1, <3>2
  <2>8. Len(r) < Len(s)
    BY <1>1, <2>1, <2>2
  <2>12. p \in Nat
    BY <2>4
  <2> HIDE DEF p
  <2>9. Escapes(FirstPoint(s)) \o AfterPoint(s) = s
    BY <2>2, <2>3, <2>7, Zenon
  <2>10. FirstPoint(s) \in Nat
    BY <2>3, <2>12, Zenon
  <2>11. AfterPoint(s) \in Seq(Unit) /\ Len(AfterPoint(s)) < Len(s)
    BY <2>2, <2>3, <2>8, Zenon
  <2> QED
    BY <2>9, <2>10, <2>11, Zenon
<1>3. CASE ~IsPair(s)
  <2>1. FirstPoint(s) = s[1] /\ AfterPoint(s) = Tail(s)
    BY <1>3 DEF FirstPoint, AfterPoint
  <2>2. s[1] \in Nat /\ s[1] < 65536
    BY <1>1, UnitIsSmall
  <2>3. Escapes(s[1]) = <<s[1]>>
    BY <2>2 DEF Escapes
  <2>4. Tail(s) \in Seq(Unit) /\ Len(Tail(s)) < Len(s) /\ <<s[1]>> \o Tail(s) = s
    BY <1>1
  <2> QED
    BY <2>1, <2>2, <2>3, <2>4
<1> QED
  BY <1>2, <1>3

\* CodePoints is what its recursive definition says.
LEMMA CodePointsAre ==
  \A s \in Seq(Unit) :
    /\ CodePoints[s] \in Seq(Nat)
    /\ CodePoints[s] = IF s = <<>> THEN <<>> ELSE <<FirstPoint(s)>> \o CodePoints[AfterPoint(s)]
<1> DEFINE head == [s \in Seq(Unit) |-> IF s = <<>> THEN <<>> ELSE <<FirstPoint(s)>>]
           rest == [s \in Seq(Unit) |-> IF s = <<>> THEN <<>> ELSE AfterPoint(s)]
           Body(f) ==
             [s \in Seq(Unit) |->
                CASE s = <<>> -> <<>>
                  [] Len(s) > 1 /\ s[1] \in High /\ s[2] \in Low ->
                       <<65536 + (s[1] - 55296) * 1024 + (s[2] - 56320)>> \o f[SubSeq(s, 3, Len(s))]
                  [] OTHER -> <<s[1]>> \o f[Tail(s)]]
           Step(f, s) == IF s = <<>> THEN <<>> ELSE head[s] \o f[rest[s]]
<1>1. ASSUME NEW f, NEW s \in Seq(Unit)
      PROVE  Body(f)[s] = Step(f, s)
  <2>1. CASE s = <<>>
    BY <2>1
  <2>2. CASE s # <<>> /\ IsPair(s)
    <3>1. Step(f, s) = <<FirstPoint(s)>> \o f[AfterPoint(s)]
      BY <2>2
    <3>2. Body(f)[s] =
            <<65536 + (s[1] - 55296) * 1024 + (s[2] - 56320)>> \o f[SubSeq(s, 3, Len(s))]
      BY <2>2 DEF IsPair
    <3> QED
      BY <2>2, <3>1, <3>2 DEF FirstPoint, AfterPoint
  <2>3. CASE s # <<>> /\ ~IsPair(s)
    <3>1. Step(f, s) = <<FirstPoint(s)>> \o f[AfterPoint(s)]
      BY <2>3
    <3>2. Body(f)[s] = <<s[1]>> \o f[Tail(s)]
      BY <2>3 DEF IsPair
    <3> QED
      BY <2>3, <3>1, <3>2 DEF FirstPoint, AfterPoint
  <2> QED
    BY <2>1, <2>2, <2>3
<1>2. head \in [Seq(Unit) -> Seq(Nat)] /\ rest \in [Seq(Unit) -> Seq(Unit)] /\ Shortens(rest, Unit)
  <2>1. ASSUME NEW s \in Seq(Unit)
        PROVE  /\ (IF s = <<>> THEN <<>> ELSE <<FirstPoint(s)>>) \in Seq(Nat)
               /\ (IF s = <<>> THEN <<>> ELSE AfterPoint(s)) \in Seq(Unit)
    BY FirstOfString
  <2>2. \A s \in Seq(Unit) : s # <<>> => Len(rest[s]) < Len(s)
    BY FirstOfString
  <2> QED
    BY <2>1, <2>2 DEF Shortens
<1>3. \A f : Body(f) = [s \in Seq(Unit) |-> Step(f, s)]
  <2>1. \A f : Body(f) = [s \in Seq(Unit) |-> Body(f)[s]]
    OBVIOUS
  <2> HIDE DEF Body, Step
  <2> QED
    BY <1>1, <2>1
<1>4. CodePoints = CHOOSE g : g = Body(g)
  BY DEF CodePoints
<1>5. \A s \in Seq(Unit) : s # <<>> => head[s] = <<FirstPoint(s)>> /\ rest[s] = AfterPoint(s)
  OBVIOUS
<1> HIDE DEF head, rest, Body
<1>6. \A f : f = Body(f) <=> Solves(f, Unit, head, rest)
  BY <1>3 DEF Solves
<1>7. PICK f \in [Seq(Unit) -> Seq(Nat)] : OnlySolution(f, Unit, head, rest)
  BY <1>2, RecursionOnShorter
<1>8. Solves(CodePoints, Unit, head, rest) /\ CodePoints = f
  <2>1. f = Body(f)
    BY <1>6, <1>7 DEF OnlySolution
  <2>2. CodePoints = Body(CodePoints)
    BY <1>4, <2>1
  <2> QED
    BY <1>6, <1>7, <2>2 DEF OnlySolution
<1> QED
  BY <1>5, <1>7, <1>8 DEF Solves

LEMMA EscapesType == \A n \in Nat : Escapes(n) \in Seq(Nat)
<1> SUFFICES ASSUME NEW n \in Nat PROVE Escapes(n) \in Seq(Nat)
  OBVIOUS
<1>1. CASE n < 65536
  BY <1>1 DEF Escapes
<1>2. CASE ~(n < 65536)
  <2> DEFINE q == n - 65536
  <2>1. q \in Nat
    BY <1>2
  <2>2. Escapes(n) = <<55296 + q \div 1024, 56320 + (q % 1024)>>
    BY <1>2 DEF Escapes
  <2> HIDE DEF q
  <2>3. 55296 + q \div 1024 \in Nat /\ 56320 + (q % 1024) \in Nat
    BY <2>1
  <2> QED
    BY <2>2, <2>3
<1> QED
  BY <1>1, <1>2

\* DumpString is what its recursive definition says.
LEMMA DumpStringIs ==
  \A p \in Seq(Nat) :
    DumpString[p] = IF p = <<>> THEN <<>> ELSE Escapes(p[1]) \o DumpString[Tail(p)]
<1> DEFINE head == [p \in Seq(Nat) |-> IF p = <<>> THEN <<>> ELSE Escapes(p[1])]
           rest == [p \in Seq(Nat) |-> IF p = <<>> THEN <<>> ELSE Tail(p)]
           Body(f) == [p \in Seq(Nat) |-> IF p = <<>> THEN <<>> ELSE Escapes(p[1]) \o f[Tail(p)]]
<1>1. head \in [Seq(Nat) -> Seq(Nat)] /\ rest \in [Seq(Nat) -> Seq(Nat)] /\ Shortens(rest, Nat)
  <2>1. ASSUME NEW p \in Seq(Nat), p # <<>>
        PROVE  Escapes(p[1]) \in Seq(Nat) /\ Tail(p) \in Seq(Nat) /\ Len(Tail(p)) < Len(p)
    <3>1. p[1] \in Nat
      BY <2>1
    <3>2. Tail(p) \in Seq(Nat) /\ Len(Tail(p)) < Len(p)
      BY <2>1
    <3>3. Escapes(p[1]) \in Seq(Nat)
      BY <3>1, EscapesType, Zenon
    <3> QED
      BY <3>2, <3>3
  <2>2. \A p \in Seq(Nat) : p # <<>> => head[p] = Escapes(p[1]) /\ rest[p] = Tail(p)
    OBVIOUS
  <2>3. <<>> \in Seq(Nat) /\ (<<>> \in Seq(Nat) => head[<<>>] = <<>> /\ rest[<<>>] = <<>>)
    OBVIOUS
  <2>4. head = [p \in Seq(Nat) |-> head[p]] /\ rest = [p \in Seq(Nat) |-> rest[p]]
    OBVIOUS
  <2> HIDE DEF head, rest
  <2>5. ASSUME NEW p \in Seq(Nat)
        PROVE  head[p] \in Seq(Nat) /\ rest[p] \in Seq(Nat) /\ (p # <<>> => Len(rest[p]) < Len(p))
    BY <2>1, <2>2, <2>3
  <2> QED
    BY <2>4, <2>5 DEF Shortens
<1>2. \A p \in Seq(Nat) : p # <<>> => head[p] = Escapes(p[1]) /\ rest[p] = Tail(p)
  OBVIOUS
<1>3. DumpString = CHOOSE g : g = Body(g)
  BY DEF DumpString
<1>4. \A f : Body(f) = [p \in Seq(Nat) |-> IF p = <<>> THEN <<>> ELSE head[p] \o f[rest[p]]]
  <2> HIDE DEF head, rest
  <2> QED
    BY <1>2
<1> HIDE DEF head, rest, Body
<1>5. \A f : f = Body(f) <=> Solves(f, Nat, head, rest)
  BY <1>4 DEF Solves
<1>6. PICK f \in [Seq(Nat) -> Seq(Nat)] : OnlySolution(f, Nat, head, rest)
  BY <1>1, RecursionOnShorter
<1>7. Solves(DumpString, Nat, head, rest)
  <2>1. f = Body(f)
    BY <1>5, <1>6 DEF OnlySolution
  <2>2. DumpString = Body(DumpString)
    BY <1>3, <2>1
  <2> QED
    BY <1>5, <2>2
<1> QED
  BY <1>2, <1>7 DEF Solves

\* A string comes back in the escapes that it was sent in.
LEMMA StringsComeBack == \A s \in Seq(Unit) : DumpString[CodePoints[s]] = s
<1> DEFINE Changed == {s \in Seq(Unit) : DumpString[CodePoints[s]] # s}
<1> SUFFICES ASSUME Changed # {} PROVE FALSE
  OBVIOUS
<1>1. PICK s \in Changed : \A t \in Changed : ~(Len(t) < Len(s))
  <2>1. Changed \in SUBSET Seq(Unit)
    OBVIOUS
  <2> HIDE DEF Changed
  <2> QED
    BY <2>1, ShortestOfMany
<1>2. s \in Seq(Unit) /\ DumpString[CodePoints[s]] # s
  OBVIOUS
<1>3. <<>> \in Seq(Unit) /\ <<>> \in Seq(Nat)
  OBVIOUS
<1>4. s # <<>>
  <2>1. CodePoints[<<>>] = <<>>
    BY <1>3, CodePointsAre
  <2>2. DumpString[<<>>] = <<>>
    BY <1>3, DumpStringIs
  <2> QED
    BY <1>2, <2>1, <2>2
<1> DEFINE r == AfterPoint(s)
           q == CodePoints[r]
<1>5. /\ FirstPoint(s) \in Nat /\ r \in Seq(Unit) /\ Len(r) < Len(s)
      /\ Escapes(FirstPoint(s)) \o r = s
  BY <1>2, <1>4, FirstOfString
<1>6. DumpString[q] = r
  BY <1>1, <1>5
<1>7. CodePoints[s] = <<FirstPoint(s)>> \o q /\ q \in Seq(Nat) /\ CodePoints[s] \in Seq(Nat)
  BY <1>2, <1>4, <1>5, CodePointsAre
<1> HIDE DEF q, r, Changed
<1>8. DumpString[<<FirstPoint(s)>> \o q] = Escapes(FirstPoint(s)) \o DumpString[q]
  <2> DEFINE p == <<FirstPoint(s)>> \o q
  <2>1. p \in Seq(Nat) /\ p # <<>> /\ p[1] = FirstPoint(s) /\ Tail(p) = q
    <3> DEFINE n == FirstPoint(s)
    <3>1. n \in Nat
      BY <1>5
    <3> HIDE DEF n
    <3>2. /\ <<n>> \o q \in Seq(Nat) /\ <<n>> \o q # <<>>
          /\ (<<n>> \o q)[1] = n /\ Tail(<<n>> \o q) = q
      BY <1>7, <3>1
    <3> QED
      BY <3>2 DEF n
  <2> HIDE DEF p
  <2>2. DumpString[p] = Escapes(FirstPoint(s)) \o DumpString[q]
    BY <2>1, DumpStringIs
  <2> QED
    BY <2>2 DEF p
<1> QED
  BY <1>2, <1>5, <1>6, <1>7, <1>8

LEMMA BytesAreNumbers == \A b \in Octet : b \in Nat
  BY SMT DEF Octet

LEMMA LengthsAnnounced == \A b \in Nat : Expected(b) \in 0..4
  BY DEF Expected

\* The forms of the standard that a lead byte can begin are those of sanitize_utf8.
LEMMA FormsOfALead ==
  ASSUME NEW b \in Nat, NEW form \in WellFormed, b \in form[1]
  PROVE  /\ Len(form) = Expected(b)
         /\ 1 < Len(form) => form[2] = SecondByte(b)
         /\ \A i \in 3..Len(form) : form[i] = Continuation
<1>1. CASE form = <<0..127>>
  <2>1. b < 128
    BY <1>1
  <2>2. Expected(b) = 1
    BY <2>1 DEF Expected
  <2> QED
    BY <1>1, <2>2
<1>2. CASE form = <<194..223, Continuation>>
  <2>1. b \in 194..223
    BY <1>2
  <2>2. Expected(b) = 2 /\ SecondByte(b) = Continuation
    BY <2>1 DEF Expected, SecondByte
  <2> QED
    BY <1>2, <2>2
<1>3. CASE form = <<224..224, 160..191, Continuation>>
  <2>1. b = 224
    BY <1>3
  <2>2. Expected(b) = 3 /\ SecondByte(b) = 160..191
    BY <2>1 DEF Expected, SecondByte
  <2> QED
    BY <1>3, <2>2
<1>4. CASE form = <<225..236, Continuation, Continuation>>
  <2>1. b \in 225..236
    BY <1>4
  <2>2. Expected(b) = 3 /\ SecondByte(b) = Continuation
    BY <2>1 DEF Expected, SecondByte
  <2> QED
    BY <1>4, <2>2
<1>5. CASE form = <<237..237, 128..159, Continuation>>
  <2>1. b = 237
    BY <1>5
  <2>2. Expected(b) = 3 /\ SecondByte(b) = 128..159
    BY <2>1 DEF Expected, SecondByte
  <2> QED
    BY <1>5, <2>2
<1>6. CASE form = <<238..239, Continuation, Continuation>>
  <2>1. b \in 238..239
    BY <1>6
  <2>2. Expected(b) = 3 /\ SecondByte(b) = Continuation
    BY <2>1 DEF Expected, SecondByte
  <2> QED
    BY <1>6, <2>2
<1>7. CASE form = <<240..240, 144..191, Continuation, Continuation>>
  <2>1. b = 240
    BY <1>7
  <2>2. Expected(b) = 4 /\ SecondByte(b) = 144..191
    BY <2>1 DEF Expected, SecondByte
  <2> QED
    BY <1>7, <2>2
<1>8. CASE form = <<241..243, Continuation, Continuation, Continuation>>
  <2>1. b \in 241..243
    BY <1>8
  <2>2. Expected(b) = 4 /\ SecondByte(b) = Continuation
    BY <2>1 DEF Expected, SecondByte
  <2> QED
    BY <1>8, <2>2
<1>9. CASE form = <<244..244, 128..143, Continuation, Continuation>>
  <2>1. b = 244
    BY <1>9
  <2>2. Expected(b) = 4 /\ SecondByte(b) = 128..143
    BY <2>1 DEF Expected, SecondByte
  <2> QED
    BY <1>9, <2>2
<1>10. \/ form = <<0..127>>
       \/ form = <<194..223, Continuation>>
       \/ form = <<224..224, 160..191, Continuation>>
       \/ form = <<225..236, Continuation, Continuation>>
       \/ form = <<237..237, 128..159, Continuation>>
       \/ form = <<238..239, Continuation, Continuation>>
       \/ form = <<240..240, 144..191, Continuation, Continuation>>
       \/ form = <<241..243, Continuation, Continuation, Continuation>>
       \/ form = <<244..244, 128..143, Continuation, Continuation>>
  BY Zenon DEF WellFormed
<1> QED
  BY <1>1, <1>2, <1>3, <1>4, <1>5, <1>6, <1>7, <1>8, <1>9, <1>10, Zenon

LEMMA LeadsHaveForms ==
  ASSUME NEW b \in Nat, Expected(b) # 0
  PROVE  \E form \in WellFormed : b \in form[1]
<1>1. b < 128 \/ b \in 194..223 \/ b \in 224..239 \/ b \in 240..244
  BY DEF Expected
<1>2. /\ b < 128 => b \in <<0..127>>[1]
      /\ b \in 194..223 => b \in <<194..223, Continuation>>[1]
      /\ b \in 224..239 => \/ b \in <<224..224, 160..191, Continuation>>[1]
                           \/ b \in <<225..236, Continuation, Continuation>>[1]
                           \/ b \in <<237..237, 128..159, Continuation>>[1]
                           \/ b \in <<238..239, Continuation, Continuation>>[1]
      /\ b \in 240..244 => \/ b \in <<240..240, 144..191, Continuation, Continuation>>[1]
                           \/ b \in <<241..243, Continuation, Continuation, Continuation>>[1]
                           \/ b \in <<244..244, 128..143, Continuation, Continuation>>[1]
  OBVIOUS
<1> QED
  BY <1>1, <1>2 DEF WellFormed

\* The first n bytes of s are as a sequence that its first one leads would have them.
Fitting(s, n) ==
  /\ n <= Expected(s[1]) /\ n <= Len(s)
  /\ n > 1 => s[2] \in SecondByte(s[1])
  /\ \A i \in 3..n : s[i] \in Continuation

\* The length of the longest such beginning.
Prefix(s) == Max({1} \cup {k \in 1..4 : Fitting(s, k)})

\* Both sides look for those.
LEMMA BegunIsFitting ==
  ASSUME NEW s \in Seq(Octet), s # <<>>, NEW n \in 1..4
  PROVE  /\ (Begun(s, n) # {}) <=> Fitting(s, n)
         /\ \A form \in Begun(s, n) : Len(form) = Expected(s[1])
<1>1. s[1] \in Nat
  <2>1. s[1] \in Octet
    OBVIOUS
  <2> QED
    BY <2>1, BytesAreNumbers
<1>2. Len(s) \in Nat /\ n \in Nat /\ 1 <= n
  OBVIOUS
<1>3. Expected(s[1]) \in 0..4
  BY <1>1, LengthsAnnounced
<1>4. ASSUME NEW form \in Begun(s, n)
      PROVE  Len(form) = Expected(s[1]) /\ Fitting(s, n)
  <2>1. /\ form \in WellFormed /\ n <= Len(form) /\ n <= Len(s)
        /\ \A i \in 1..n : s[i] \in form[i]
    BY DEF Begun
  <2>2. s[1] \in form[1]
    BY <1>2, <2>1
  <2>3. /\ Len(form) = Expected(s[1])
        /\ 1 < Len(form) => form[2] = SecondByte(s[1])
        /\ \A i \in 3..Len(form) : form[i] = Continuation
    BY <1>1, <2>1, <2>2, FormsOfALead
  <2>4. n > 1 => s[2] \in SecondByte(s[1])
    BY <1>2, <1>3, <2>1, <2>3
  <2>5. ASSUME NEW i \in 3..n PROVE s[i] \in Continuation
    <3>1. i \in 1..n /\ i \in 3..Len(form)
      BY <1>2, <1>3, <2>1, <2>3
    <3> QED
      BY <2>1, <2>3, <3>1
  <2> QED
    BY <2>1, <2>3, <2>4, <2>5 DEF Fitting
<1>5. ASSUME Fitting(s, n) PROVE Begun(s, n) # {}
  <2>1. /\ n <= Expected(s[1]) /\ n <= Len(s)
        /\ n > 1 => s[2] \in SecondByte(s[1])
        /\ \A i \in 3..n : s[i] \in Continuation
    BY <1>5 DEF Fitting
  <2>2. PICK form \in WellFormed : s[1] \in form[1]
    BY <1>1, <1>2, <1>3, <2>1, LeadsHaveForms
  <2>3. /\ Len(form) = Expected(s[1])
        /\ 1 < Len(form) => form[2] = SecondByte(s[1])
        /\ \A i \in 3..Len(form) : form[i] = Continuation
    BY <1>1, <2>2, FormsOfALead
  <2>4. ASSUME NEW i \in 1..n PROVE s[i] \in form[i]
    <3>1. CASE i = 1
      BY <2>2, <3>1
    <3>2. CASE i = 2
      <4>1. n > 1 /\ 1 < Len(form)
        BY <1>2, <1>3, <2>1, <2>3, <3>2
      <4> QED
        BY <2>1, <2>3, <3>2, <4>1
    <3>3. CASE i # 1 /\ i # 2
      <4>1. i \in 3..n /\ i \in 3..Len(form)
        BY <1>2, <1>3, <2>1, <2>3, <3>3
      <4> QED
        BY <2>1, <2>3, <4>1
    <3> QED
      BY <3>1, <3>2, <3>3
  <2>5. form \in Begun(s, n)
    BY <2>1, <2>2, <2>3, <2>4 DEF Begun
  <2> QED
    BY <2>5
<1> QED
  BY <1>4, <1>5

LEMMA PrefixIsLongest ==
  ASSUME NEW s \in Seq(Octet), s # <<>>
  PROVE  /\ Prefix(s) \in 1..4 /\ Prefix(s) <= Len(s)
         /\ Prefix(s) = 1 \/ Fitting(s, Prefix(s))
         /\ \A k \in 1..4 : Fitting(s, k) => k <= Prefix(s)
<1> DEFINE Lengths == {1} \cup {k \in 1..4 : Fitting(s, k)}
<1>1. Lengths \in SUBSET (0..4) /\ Lengths # {}
  OBVIOUS
<1>2. Prefix(s) \in Lengths /\ \A k \in Lengths : k <= Prefix(s)
  <2>1. Prefix(s) = Max(Lengths)
    BY DEF Prefix
  <2> HIDE DEF Lengths
  <2> QED
    BY <1>1, <2>1, MaxIsGreatest
<1>3. Prefix(s) = 1 \/ Fitting(s, Prefix(s))
  BY <1>2
<1>4. Len(s) \in Nat /\ 1 <= Len(s)
  OBVIOUS
<1>5. Prefix(s) <= Len(s)
  BY <1>3, <1>4 DEF Fitting
<1> QED
  BY <1>2, <1>3, <1>5

\* valid_prefix finds the longest beginning.
LEMMA ValidPrefixIs ==
  ASSUME NEW s \in Seq(Octet), s # <<>>
  PROVE  ValidPrefix(s) = Prefix(s)
<1> DEFINE E == Expected(s[1])
           Fits(n) == /\ n <= Len(s)
                      /\ n > 1 => s[2] \in SecondByte(s[1])
                      /\ \A i \in 3..n : s[i] \in Continuation
           Found(n) == (n = 1 \/ (n <= E /\ Fits(n))) /\ (n < E => ~Fits(n + 1))
           p == Prefix(s)
<1>1. ValidPrefix(s) = CHOOSE n \in 1..4 : Found(n)
  BY DEF ValidPrefix
<1>2. E \in 0..4
  <2>1. s[1] \in Octet
    OBVIOUS
  <2> QED
    BY <2>1, BytesAreNumbers, LengthsAnnounced
<1>3. \A n \in 1..5 : Fitting(s, n) <=> n <= E /\ Fits(n)
  BY DEF Fitting
<1>4. \A m, n \in 1..5 : m <= n /\ Fits(n) => Fits(m)
  <2> SUFFICES ASSUME NEW m \in 1..5, NEW n \in 1..5, m <= n, Fits(n) PROVE Fits(m)
    OBVIOUS
  <2>1. Len(s) \in Nat
    OBVIOUS
  <2>2. \A i \in 3..m : i \in 3..n
    OBVIOUS
  <2> QED
    BY <2>1, <2>2
<1>5. /\ p \in 1..4
      /\ p = 1 \/ Fitting(s, p)
      /\ \A k \in 1..4 : Fitting(s, k) => k <= p
  BY PrefixIsLongest
<1> HIDE DEF E, Fits, p
<1>6. Found(p)
  <2>1. p = 1 \/ (p <= E /\ Fits(p))
    BY <1>3, <1>5
  <2>2. ASSUME p < E, Fits(p + 1) PROVE FALSE
    <3>1. p + 1 \in 1..4 /\ p + 1 \in 1..5 /\ p + 1 <= E
      BY <1>2, <1>5, <2>2
    <3>2. Fitting(s, p + 1)
      BY <1>3, <2>2, <3>1
    <3>3. p + 1 <= p
      BY <1>5, <3>1, <3>2
    <3> QED
      BY <1>5, <3>3
  <2> QED
    BY <2>1, <2>2
<1>7. ASSUME NEW n \in 1..4, Found(n) PROVE n = p
  <2>1. n <= p
    <3>1. n = 1 \/ Fitting(s, n)
      BY <1>3, <1>7
    <3> QED
      BY <1>5, <3>1
  <2>2. ASSUME n < p PROVE FALSE
    <3>1. Fitting(s, p) /\ p \in 1..5
      BY <1>5, <2>2
    <3>2. p <= E /\ Fits(p)
      BY <1>3, <3>1
    <3>3. n + 1 \in 1..5 /\ n + 1 <= p /\ n < E
      BY <1>2, <1>5, <2>2, <3>2
    <3>4. Fits(n + 1)
      BY <1>4, <3>1, <3>2, <3>3
    <3> QED
      BY <1>7, <3>3, <3>4
  <2> QED
    BY <1>5, <2>1, <2>2
<1> HIDE DEF Found
<1>8. (CHOOSE n \in 1..4 : Found(n)) = p
  BY <1>5, <1>6, <1>7
<1> QED
  BY <1>1, <1>8 DEF p

\* Both sides copy the beginning of a line when it is a whole sequence, and replace it
\* when it is not.
Beginning(s) ==
  IF Prefix(s) = Expected(s[1]) THEN SubSeq(s, 1, Prefix(s)) ELSE Replacement
AfterBeginning(s) == SubSeq(s, Prefix(s) + 1, Len(s))

LEMMA BeginningType ==
  ASSUME NEW s \in Seq(Octet), s # <<>>
  PROVE  /\ Beginning(s) \in Seq(Octet) /\ AfterBeginning(s) \in Seq(Octet)
         /\ Len(AfterBeginning(s)) < Len(s)
<1>1. Prefix(s) \in 1..4 /\ Prefix(s) <= Len(s)
  BY PrefixIsLongest
<1>2. \A n \in 1..4 : n <= Len(s) => /\ SubSeq(s, 1, n) \in Seq(Octet)
                                     /\ SubSeq(s, n + 1, Len(s)) \in Seq(Octet)
                                     /\ Len(SubSeq(s, n + 1, Len(s))) < Len(s)
  <2> SUFFICES ASSUME NEW n \in 1..4, n <= Len(s)
               PROVE  /\ SubSeq(s, 1, n) \in Seq(Octet)
                      /\ SubSeq(s, n + 1, Len(s)) \in Seq(Octet)
                      /\ Len(SubSeq(s, n + 1, Len(s))) < Len(s)
    OBVIOUS
  <2>1. Len(s) \in Nat /\ n \in Nat /\ 1 <= n
    OBVIOUS
  <2>2. SubSeq(s, 1, n) \in Seq(Octet)
    BY <2>1
  <2>3. SubSeq(s, n + 1, Len(s)) \in Seq(Octet) /\ Len(SubSeq(s, n + 1, Len(s))) = Len(s) - n
    BY <2>1
  <2> QED
    BY <2>1, <2>2, <2>3
<1>3. Replacement \in Seq(Octet)
  <2>1. 239 \in Octet /\ 191 \in Octet /\ 189 \in Octet
    BY SMT DEF Octet
  <2> QED
    BY <2>1 DEF Replacement
<1> QED
  BY <1>1, <1>2, <1>3 DEF Beginning, AfterBeginning

\* sanitize_utf8 makes of any bytes what the Python DUT's decoder makes of them.
LEMMA BytesAreReplacedAlike == SanitizeUtf8 = DecodeReplace
<1> DEFINE head == [s \in Seq(Octet) |-> IF s = <<>> THEN <<>> ELSE Beginning(s)]
           rest == [s \in Seq(Octet) |-> IF s = <<>> THEN <<>> ELSE AfterBeginning(s)]
           Step(f, s) == IF s = <<>> THEN <<>> ELSE head[s] \o f[rest[s]]
           CppBody(f) ==
             [s \in Seq(Octet) |->
                IF s = <<>> THEN <<>>
                ELSE LET n == ValidPrefix(s)
                     IN  (IF n = Expected(s[1]) THEN SubSeq(s, 1, n) ELSE Replacement)
                           \o f[SubSeq(s, n + 1, Len(s))]]
           PyBody(f) ==
             [s \in Seq(Octet) |->
                IF s = <<>> THEN <<>>
                ELSE LET n == Max({1} \cup {k \in 1..4 : Begun(s, k) # {}})
                         whole == \E form \in Begun(s, n) : Len(form) = n
                     IN  (IF whole THEN SubSeq(s, 1, n) ELSE Replacement)
                           \o f[SubSeq(s, n + 1, Len(s))]]
<1>1. /\ head \in [Seq(Octet) -> Seq(Octet)] /\ rest \in [Seq(Octet) -> Seq(Octet)]
      /\ Shortens(rest, Octet)
  <2>1. \A s \in Seq(Octet) : s # <<>> => head[s] = Beginning(s) /\ rest[s] = AfterBeginning(s)
    OBVIOUS
  <2>2. <<>> \in Seq(Octet) /\ (<<>> \in Seq(Octet) => head[<<>>] = <<>> /\ rest[<<>>] = <<>>)
    OBVIOUS
  <2>3. head = [s \in Seq(Octet) |-> head[s]] /\ rest = [s \in Seq(Octet) |-> rest[s]]
    OBVIOUS
  <2> HIDE DEF head, rest
  <2>4. ASSUME NEW s \in Seq(Octet)
        PROVE  /\ head[s] \in Seq(Octet) /\ rest[s] \in Seq(Octet)
               /\ s # <<>> => Len(rest[s]) < Len(s)
    BY <2>1, <2>2, BeginningType
  <2> QED
    BY <2>3, <2>4 DEF Shortens
<1>2. \A f, s : s # <<>> /\ s \in Seq(Octet) => Step(f, s) = Beginning(s) \o f[AfterBeginning(s)]
  OBVIOUS
<1>3. \A f : CppBody(f) = [s \in Seq(Octet) |-> Step(f, s)]
  <2> SUFFICES ASSUME NEW f PROVE CppBody(f) = [s \in Seq(Octet) |-> Step(f, s)]
    OBVIOUS
  <2>1. ASSUME NEW s \in Seq(Octet) PROVE CppBody(f)[s] = Step(f, s)
    <3>1. CASE s = <<>>
      BY <3>1
    <3>2. CASE s # <<>>
      <4>1. CppBody(f)[s] =
              (IF ValidPrefix(s) = Expected(s[1]) THEN SubSeq(s, 1, ValidPrefix(s))
               ELSE Replacement) \o f[SubSeq(s, ValidPrefix(s) + 1, Len(s))]
        BY <3>2
      <4>2. ValidPrefix(s) = Prefix(s)
        BY <3>2, ValidPrefixIs
      <4> QED
        BY <1>2, <3>2, <4>1, <4>2 DEF Beginning, AfterBeginning
    <3> QED
      BY <3>1, <3>2
  <2>2. CppBody(f) = [s \in Seq(Octet) |-> CppBody(f)[s]]
    OBVIOUS
  <2> HIDE DEF CppBody, Step
  <2> QED
    BY <2>1, <2>2
<1>4. \A f : PyBody(f) = [s \in Seq(Octet) |-> Step(f, s)]
  <2> SUFFICES ASSUME NEW f PROVE PyBody(f) = [s \in Seq(Octet) |-> Step(f, s)]
    OBVIOUS
  <2>1. ASSUME NEW s \in Seq(Octet) PROVE PyBody(f)[s] = Step(f, s)
    <3>1. CASE s = <<>>
      BY <3>1
    <3>2. CASE s # <<>>
      <4> DEFINE m == Max({1} \cup {k \in 1..4 : Begun(s, k) # {}})
                 whole == \E form \in Begun(s, m) : Len(form) = m
      <4>1. PyBody(f)[s] =
              (IF whole THEN SubSeq(s, 1, m) ELSE Replacement) \o f[SubSeq(s, m + 1, Len(s))]
        BY <3>2
      <4>2. m = Prefix(s)
        <5>1. {k \in 1..4 : Begun(s, k) # {}} = {k \in 1..4 : Fitting(s, k)}
          BY <3>2, BegunIsFitting
        <5> QED
          BY <5>1 DEF Prefix
      <4> HIDE DEF m
      <4>3. m \in 1..4 /\ (m = 1 \/ Fitting(s, m)) /\ m <= Len(s)
        BY <3>2, <4>2, PrefixIsLongest
      <4>4. whole <=> m = Expected(s[1])
        <5>1. whole => m = Expected(s[1])
          BY <3>2, <4>3, BegunIsFitting
        <5>2. ASSUME m = Expected(s[1]) PROVE whole
          <6>1. Fitting(s, m)
            BY <3>2, <4>3, <5>2 DEF Fitting
          <6>2. PICK form \in Begun(s, m) : Len(form) = Expected(s[1])
            BY <3>2, <4>3, <6>1, BegunIsFitting
          <6> QED
            BY <5>2, <6>2
        <5> QED
          BY <5>1, <5>2
      <4> HIDE DEF whole
      <4> QED
        BY <1>2, <3>2, <4>1, <4>2, <4>4 DEF Beginning, AfterBeginning
    <3> QED
      BY <3>1, <3>2
  <2>2. PyBody(f) = [s \in Seq(Octet) |-> PyBody(f)[s]]
    OBVIOUS
  <2> HIDE DEF PyBody, Step
  <2> QED
    BY <2>1, <2>2
<1>5. SanitizeUtf8 = CHOOSE g : g = CppBody(g)
  BY DEF SanitizeUtf8
<1>6. DecodeReplace = CHOOSE g : g = PyBody(g)
  BY DEF DecodeReplace
<1> HIDE DEF head, rest, CppBody, PyBody
<1>7. \A f : Solves(f, Octet, head, rest) <=> f = [s \in Seq(Octet) |-> Step(f, s)]
  BY DEF Solves
<1> HIDE DEF Step
<1>8. \A f : f = CppBody(f) <=> Solves(f, Octet, head, rest)
  BY <1>3, <1>7
<1>9. \A f : f = PyBody(f) <=> Solves(f, Octet, head, rest)
  BY <1>4, <1>7
<1>10. PICK f \in [Seq(Octet) -> Seq(Octet)] : OnlySolution(f, Octet, head, rest)
  BY <1>1, RecursionOnShorter
<1>11. f = CppBody(f) /\ f = PyBody(f)
  BY <1>8, <1>9, <1>10 DEF OnlySolution
<1>12. SanitizeUtf8 = CppBody(SanitizeUtf8) /\ DecodeReplace = PyBody(DecodeReplace)
  BY <1>5, <1>6, <1>11
<1>13. Solves(SanitizeUtf8, Octet, head, rest) /\ Solves(DecodeReplace, Octet, head, rest)
  BY <1>8, <1>9, <1>12
<1> QED
  BY <1>10, <1>13 DEF OnlySolution

TextSpec(lines, strings) == TextInit(lines, strings) /\ [][TextNext]_textVars

\* What a request says comes back the same, for every line of bytes and every string of
\* escapes that a client can send.
THEOREM TextIsTheSame ==
  ASSUME NEW lines \in SUBSET Seq(Octet), NEW strings \in SUBSET Seq(Unit)
  PROVE  TextSpec(lines, strings) => []SameText
<1> DEFINE Inv == units \in Seq(Unit) /\ SameText
<1>1. TextInit(lines, strings) => Inv
  <2>1. <<>> \in Seq(Unit)
    OBVIOUS
  <2> QED
    BY <2>1 DEF TextInit, SameText
<1>2. Inv /\ [TextNext]_textVars => Inv'
  <2> SUFFICES ASSUME Inv, [TextNext]_textVars PROVE Inv'
    OBVIOUS
  <2>1. CASE TextNext
    <3>1. /\ echo' = <<SanitizeUtf8[bytes], DumpString[CodePoints[units]]>>
          /\ bytes' = bytes /\ units' = units
      BY <2>1 DEF TextNext, EchoText
    <3>2. SanitizeUtf8[bytes] = DecodeReplace[bytes] /\ DumpString[CodePoints[units]] = units
      BY BytesAreReplacedAlike, StringsComeBack
    <3> QED
      BY <3>1, <3>2 DEF SameText
  <2>2. CASE UNCHANGED textVars
    BY <2>2 DEF textVars, SameText
  <2> QED
    BY <2>1, <2>2
<1> QED
  BY <1>1, <1>2, PTL DEF TextSpec
================================================================================
