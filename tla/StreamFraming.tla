----------------------------- MODULE StreamFraming -----------------------------
(***************************************************************************)
(* One request connection, served by the C++ DUT and by the Python DUT:    *)
(* the same bytes go to both, the network cuts them into arbitrary chunks  *)
(* for recv(), and each side finds request lines in its own way.           *)
(*                                                                         *)
(* A byte is "x" (payload), "r" (CR) or "n" (newline).  A reply is the     *)
(* payload it answers, which decoding maps to the same answer on both      *)
(* sides, or TooLong, after which the connection is closed.                *)
(***************************************************************************)
EXTENDS Integers, Sequences, FiniteSets, FiniteSetsExt, SequencesExt

CONSTANTS
  MaxLineBytes,  \* kMaxLineBytes, MAX_LINE_BYTES
  MaxChunk,      \* size of the recv() buffer
  MaxBytes,      \* bound: bytes a client sends on the connection
  LongestCR      \* bound: the longest run of CRs among them

ASSUME FramingAssumption ==
  /\ MaxLineBytes \in Nat
  /\ MaxChunk \in Nat \ {0}
  /\ MaxBytes \in Nat
  /\ LongestCR \in Nat

Byte == {"x", "r", "n"}
TooLong == <<"n">>  \* no payload contains a newline

VARIABLES
  stream,      \* what the client sends
  halfClosed,  \* has it shut down its sending side?
  cppPc,       \* "recv", "extract" or "closed"
  cppRead,     \* bytes recv() has returned
  buffer,      \* std::string buffer
  cppReplies,
  pyPc,        \* "readline" or "closed"
  pyRead,      \* bytes readline() has returned
  pyReplies

cppVars == <<cppPc, cppRead, buffer, cppReplies>>
pyVars == <<pyPc, pyRead, pyReplies>>
vars == <<stream, halfClosed, cppPc, cppRead, buffer, cppReplies, pyPc, pyRead, pyReplies>>

\* rstrip("\r\n"), and the pop_back loop of handle_line: drop the delimiter.
Strip(line) ==
  SubSeq(line, 1, Max({0} \cup {i \in DOMAIN line : line[i] = "x"}))

Newlines(s) == {i \in DOMAIN s : s[i] = "n"}

\* The bound is on the stripped payload; past it the reply is the refusal.
Reply(line) == IF Len(Strip(line)) > MaxLineBytes THEN TooLong ELSE Strip(line)

--------------------------------------------------------------------------------
(* C++: handle_connection and handle_line.                                   *)

\* Mutant: the cap is applied to the whole buffer, before lines are extracted.
CppRecv_CapFirst(k) ==
  /\ cppPc = "recv"
  /\ k <= Len(stream) - cppRead
  /\ cppRead' = cppRead + k
  /\ buffer' = buffer \o SubSeq(stream, cppRead + 1, cppRead + k)
  /\ IF Len(buffer') > MaxLineBytes + 1
     THEN cppPc' = "closed" /\ cppReplies' = Append(cppReplies, TooLong)
     ELSE cppPc' = "extract" /\ UNCHANGED cppReplies
  /\ UNCHANGED <<stream, halfClosed, pyVars>>

\* recv() returns whatever has arrived, at least one byte.
CppRecv(k) ==
  /\ cppPc = "recv"
  /\ k <= Len(stream) - cppRead
  /\ cppRead' = cppRead + k
  /\ buffer' = buffer \o SubSeq(stream, cppRead + 1, cppRead + k)
  /\ cppPc' = "extract"
  /\ UNCHANGED <<stream, halfClosed, cppReplies, pyVars>>

\* One round of the extraction loop: the first line of the buffer is answered.
CppHandleLine ==
  /\ cppPc = "extract"
  /\ Newlines(buffer) # {}
  /\ LET newline == Min(Newlines(buffer))
         reply == Reply(SubSeq(buffer, 1, newline - 1))
     IN  /\ cppReplies' = Append(cppReplies, reply)
         /\ buffer' = SubSeq(buffer, newline + 1, Len(buffer))
         /\ cppPc' = IF reply = TooLong THEN "closed" ELSE cppPc
  /\ UNCHANGED <<stream, halfClosed, cppRead, pyVars>>

\* Mutant: no cap on the unterminated rest.
CppCap_Missing ==
  /\ cppPc = "extract"
  /\ Newlines(buffer) = {}
  /\ cppPc' = "recv"
  /\ UNCHANGED <<stream, halfClosed, cppRead, buffer, cppReplies, pyVars>>

\* The loop has run dry: the unterminated rest is held to the same bound.
CppCap ==
  /\ cppPc = "extract"
  /\ Newlines(buffer) = {}
  /\ IF Reply(buffer) = TooLong
     THEN cppPc' = "closed" /\ cppReplies' = Append(cppReplies, TooLong)
     ELSE cppPc' = "recv" /\ UNCHANGED cppReplies
  /\ UNCHANGED <<stream, halfClosed, cppRead, buffer, pyVars>>

\* Mutants: the fragment left at a half-close is dropped; recv() = 0 is ignored.
CppEof_Discard ==
  /\ cppPc = "recv"
  /\ halfClosed /\ cppRead = Len(stream)
  /\ cppPc' = "closed"
  /\ UNCHANGED <<stream, halfClosed, cppRead, buffer, cppReplies, pyVars>>

CppEof_Ignored ==
  /\ cppPc = "recv"
  /\ halfClosed /\ cppRead = Len(stream)
  /\ UNCHANGED vars

\* recv() returns 0: the fragment left in the buffer is answered, then the end.
CppEof ==
  /\ cppPc = "recv"
  /\ halfClosed /\ cppRead = Len(stream)
  /\ cppPc' = "closed"
  /\ cppReplies' = IF buffer = <<>> THEN cppReplies
                   ELSE Append(cppReplies, Reply(buffer))
  /\ UNCHANGED <<stream, halfClosed, cppRead, buffer, pyVars>>

--------------------------------------------------------------------------------
(* Python: DutRequestHandler.handle, with no fault configured.                *)

Unread == SubSeq(stream, pyRead + 1, Len(stream))

\* rfile.readline(MAX_LINE_BYTES + 2) blocks until it has a newline, that many
\* bytes, or the end of the stream; 0 stands for "still blocked".
ReadLineLength ==
  LET limit == MaxLineBytes + 2
  IN  IF Newlines(Unread) # {} /\ Min(Newlines(Unread)) <= limit
      THEN Min(Newlines(Unread))
      ELSE IF Len(Unread) >= limit THEN limit
           ELSE IF halfClosed THEN Len(Unread) ELSE 0

PyHandleLine ==
  /\ pyPc = "readline"
  /\ ReadLineLength > 0
  /\ LET reply == Reply(SubSeq(Unread, 1, ReadLineLength))
     IN  /\ pyReplies' = Append(pyReplies, reply)
         /\ pyPc' = IF reply = TooLong THEN "closed" ELSE pyPc
  /\ pyRead' = pyRead + ReadLineLength
  /\ UNCHANGED <<stream, halfClosed, cppVars>>

\* readline() returns b"".
PyEof ==
  /\ pyPc = "readline"
  /\ halfClosed /\ Unread = <<>>
  /\ pyPc' = "closed"
  /\ UNCHANGED <<stream, halfClosed, pyRead, pyReplies, cppVars>>

--------------------------------------------------------------------------------

\* The client is done sending and shuts down its side.
HalfClose ==
  /\ ~halfClosed
  /\ halfClosed' = TRUE
  /\ UNCHANGED <<stream, cppVars, pyVars>>

Streams ==
  {s \in BoundedSeq(Byte, MaxBytes) :
     \A i \in 1..(Len(s) - LongestCR) : \E j \in i..(i + LongestCR) : s[j] # "r"}

Init ==
  /\ stream \in Streams
  /\ halfClosed = FALSE
  /\ cppPc = "recv"
  /\ cppRead = 0
  /\ buffer = <<>>
  /\ cppReplies = <<>>
  /\ pyPc = "readline"
  /\ pyRead = 0
  /\ pyReplies = <<>>

Cpp == (\E k \in 1..MaxChunk : CppRecv(k)) \/ CppHandleLine \/ CppCap \/ CppEof
Py == PyHandleLine \/ PyEof

Next ==
  \/ \E k \in 1..MaxChunk : CppRecv(k)
  \/ CppHandleLine
  \/ CppCap
  \/ CppEof
  \/ PyHandleLine
  \/ PyEof
  \/ HalfClose

Spec == Init /\ [][Next]_vars

\* Handler threads are scheduled and the network delivers; a client need never
\* shut down its side.
FairSpec == Spec /\ WF_vars(Cpp) /\ WF_vars(Py)

--------------------------------------------------------------------------------
(* Properties.                                                               *)

\* Reference: the lines of a stream and its unterminated rest, cut at newlines; the
\* i-th line ends at the newline that has i newlines up to it.
LinesUpTo(s, e) == Cardinality({n \in Newlines(s) : n <= e})

LineEnd(s, i) == IF i = 0 THEN 0 ELSE CHOOSE e \in Newlines(s) : LinesUpTo(s, e) = i

Line(s, i) == SubSeq(s, LineEnd(s, i - 1) + 1, LineEnd(s, i) - 1)

Lines(s) == [i \in 1..Cardinality(Newlines(s)) |-> Line(s, i)]

Rest(s) == SubSeq(s, Max({0} \cup Newlines(s)) + 1, Len(s))

\* Reference: the replies to those lines, up to and including the first refusal.
UpToRefusal(replies) ==
  LET refused == {i \in DOMAIN replies : replies[i] = TooLong}
  IN  IF refused = {} THEN replies ELSE SubSeq(replies, 1, Min(refused))

Answers(s) ==
  LET replies == [i \in DOMAIN Lines(s) |-> Reply(Lines(s)[i])]
      tail == IF Reply(Rest(s)) = TooLong THEN <<TooLong>> ELSE <<>>
  IN  UpToRefusal(replies \o tail)

\* "The newline is the frame boundary, not the packet": whenever the C++ DUT
\* waits for more, and when it has hung up on an over-long line, what it has
\* answered is a function of the bytes received so far, however they were cut
\* into chunks.
ChunkingIsInvisible ==
  cppPc = "recv" \/ (cppPc = "closed" /\ TooLong \in Range(cppReplies)) =>
    cppReplies = Answers(SubSeq(stream, 1, cppRead))

\* The same request bytes get the same answers from both implementations: when
\* both connections are over, the replies are equal, refusals and the unfinished
\* last line included.
SameAnswers == cppPc = "closed" /\ pyPc = "closed" => cppReplies = pyReplies

\* What the C++ DUT keeps of a line that has not ended is at most a full-size
\* payload and its CR: a client that never sends a newline cannot make it grow.
BufferBounded == cppPc = "recv" => Len(buffer) <= MaxLineBytes + 1

\* "An over-long line is answered INVALID_JSON and the connection closed,
\* identically on both": once the C++ DUT has refused a line, the Python DUT is
\* not left waiting for more of it.  One byte past the limit it is: see the README.
RefusalIsShared ==
  ~halfClosed /\ cppPc = "closed" /\ pyPc = "readline" => ReadLineLength > 0

\* A half-close is always followed by both DUTs answering what is left and
\* hanging up.
HalfCloseDrains == halfClosed ~> (cppPc = "closed" /\ pyPc = "closed")
================================================================================
