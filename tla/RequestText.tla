------------------------------ MODULE RequestText ------------------------------
(***************************************************************************)
(* The characters of a request.  The Python DUT decodes a line with        *)
(* errors="replace" and lets json handle the \uXXXX escapes; the C++ DUT   *)
(* has its own pass over the bytes (sanitize_utf8) and its own handling of *)
(* surrogates, when it parses a string and when it writes one back.        *)
(***************************************************************************)
EXTENDS Integers, Sequences, SequencesExt

VARIABLES
  bytes,   \* the bytes of a line
  units,   \* the code units that the escapes of a string spell
  echo     \* what the C++ DUT makes of both, <<>> before

textVars == <<bytes, units, echo>>

--------------------------------------------------------------------------------
(* sanitize_utf8                                                             *)

Octet == 0..255
Continuation == 128..191
Replacement == <<239, 191, 189>>   \* U+FFFD

\* The length that a lead byte announces, 0 for a byte that leads nothing.
Expected(lead) ==
  CASE lead < 128 -> 1
    [] lead \in 194..223 -> 2
    [] lead \in 224..239 -> 3
    [] lead \in 240..244 -> 4
    [] OTHER -> 0

\* Mutant: any continuation byte will do.
SecondByte_Any(lead) == Continuation

\* The second byte of an overlong form, of a surrogate and of what lies beyond
\* U+10FFFF is excluded.
SecondByte(lead) ==
  CASE lead = 224 -> 160..191
    [] lead = 237 -> 128..159
    [] lead = 240 -> 144..191
    [] lead = 244 -> 128..143
    [] OTHER -> Continuation

\* valid_prefix: how much of the announced sequence is there.
ValidPrefix(s) ==
  LET expected == Expected(s[1])
      Fits(n) == /\ n <= Len(s)
                 /\ n > 1 => s[2] \in SecondByte(s[1])
                 /\ \A i \in 3..n : s[i] \in Continuation
  IN  CHOOSE n \in 1..4 :
        /\ n = 1 \/ (n <= expected /\ Fits(n))
        /\ n < expected => ~Fits(n + 1)

SanitizeUtf8[s \in Seq(Octet)] ==
  IF s = <<>> THEN <<>>
  ELSE LET n == ValidPrefix(s)
       IN  (IF n = Expected(s[1]) THEN SubSeq(s, 1, n) ELSE Replacement)
             \o SanitizeUtf8[SubSeq(s, n + 1, Len(s))]

--------------------------------------------------------------------------------
(* bytes.decode("utf-8", errors="replace"): the well-formed sequences of the *)
(* Unicode standard, and one U+FFFD for each maximal subpart of another.     *)

WellFormed ==
  {<<0..127>>,
   <<194..223, Continuation>>,
   <<224..224, 160..191, Continuation>>,
   <<225..236, Continuation, Continuation>>,
   <<237..237, 128..159, Continuation>>,
   <<238..239, Continuation, Continuation>>,
   <<240..240, 144..191, Continuation, Continuation>>,
   <<241..243, Continuation, Continuation, Continuation>>,
   <<244..244, 128..143, Continuation, Continuation>>}

\* The forms that the first n bytes of s begin, or are.
Begun(s, n) ==
  {form \in WellFormed : n <= Len(form) /\ n <= Len(s) /\ \A i \in 1..n : s[i] \in form[i]}

DecodeReplace[s \in Seq(Octet)] ==
  IF s = <<>> THEN <<>>
  ELSE LET n == Max({1} \cup {k \in 1..4 : Begun(s, k) # {}})
           whole == \E form \in Begun(s, n) : Len(form) = n
       IN  (IF whole THEN SubSeq(s, 1, n) ELSE Replacement)
             \o DecodeReplace[SubSeq(s, n + 1, Len(s))]

--------------------------------------------------------------------------------
(* Escapes: parse_string reads them, dump_string writes them.                *)

Unit == 0..(256 * 256 - 1)
High == 55296..56319   \* D800..DBFF
Low == 56320..57343    \* DC00..DFFF

\* The case 'u' of parse_string: a high surrogate takes the escape after it when that
\* is a low one, and leaves it alone otherwise.
CodePoints[s \in Seq(Unit)] ==
  CASE s = <<>> -> <<>>
    [] Len(s) > 1 /\ s[1] \in High /\ s[2] \in Low ->
         <<65536 + (s[1] - 55296) * 1024 + (s[2] - 56320)>> \o CodePoints[SubSeq(s, 3, Len(s))]
    [] OTHER -> <<s[1]>> \o CodePoints[Tail(s)]

\* dump_string: ASCII only, beyond U+FFFF as a pair.
Escapes(point) ==
  IF point < 65536 THEN <<point>>
  ELSE <<55296 + (point - 65536) \div 1024, 56320 + ((point - 65536) % 1024)>>

DumpString[points \in Seq(Nat)] ==
  IF points = <<>> THEN <<>> ELSE Escapes(points[1]) \o DumpString[Tail(points)]

--------------------------------------------------------------------------------

\* Bound: up to four bytes at the limits of every range, up to four escapes at the
\* limits of the surrogates.
SomeBytes == {65, 128, 143, 144, 159, 160, 191, 193, 194, 224, 225, 237, 240, 241, 244, 245}
SomeUnits == {65, 55295, 55296, 56319, 56320, 57343, 57344}

BytesTried == SeqOf(SomeBytes, 4)
UnitsTried == SeqOf(SomeUnits, 4)

\* A line of raw bytes, or one whose string is made of escapes.
TextInit(lines, strings) ==
  /\ \/ bytes \in lines /\ units = <<>>
     \/ bytes = <<>> /\ units \in strings
  /\ echo = <<>>

\* parse, and dump of a string that the reply repeats.
EchoText ==
  /\ echo = <<>>
  /\ echo' = <<SanitizeUtf8[bytes], DumpString[CodePoints[units]]>>
  /\ UNCHANGED <<bytes, units>>

TextNext == EchoText

--------------------------------------------------------------------------------

\* "Byte-identical on malformed input": the pass over the bytes replaces what the
\* Python DUT's decoder replaces, once per maximal subpart, and a string comes back
\* in the escapes it was sent in, paired and unpaired surrogates alike.
SameText == echo # <<>> => echo = <<DecodeReplace[bytes], units>>
================================================================================
