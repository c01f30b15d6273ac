---------------------------- MODULE RequestDecoding ----------------------------
(***************************************************************************)
(* What a request line means to the two DUTs.  The C++ DUT has a parser of *)
(* its own, which goes down the text with the depth as a parameter; the    *)
(* Python DUT lets json.loads build the value and measures its depth       *)
(* afterwards.  The module has both, and one line that both are sent.      *)
(*                                                                         *)
(* A line is a sequence of tokens.  White space between them is skipped by *)
(* both; "junk" stands for whatever neither takes for a token: an          *)
(* unterminated string, a number like 1+2, one of too many digits.         *)
(***************************************************************************)
EXTENDS Integers, Sequences, FiniteSets, SequencesExt

CONSTANTS
  MaxDepth,     \* MAX_NESTING_DEPTH of simulator.py, kMaxDepth of json.cpp
  HiddenDepth   \* may a line nest too deep in a value that a repeated key discards?

ASSUME DecodingAssumption == MaxDepth \in Nat \ {0} /\ HiddenDepth \in BOOLEAN

VARIABLES
  line,     \* the request
  answers   \* what each DUT replies, <<>> before

decodingVars == <<line, answers>>

Strings == {"command", "sequence", "status"}
Literals == {"1", "null"}
Tokens == Strings \cup Literals \cup {"{", "}", "[", "]", ":", ",", "junk"}

Scalar(t) == [kind |-> "scalar", text |-> t]
Array(items) == [kind |-> "array", items |-> items]
Object(members) == [kind |-> "object", members |-> members]
Null == Scalar("null")

--------------------------------------------------------------------------------
(* The C++ DUT: dut::parse.                                                  *)

Failed == [ok |-> FALSE]
Parsed(value, next) == [ok |-> TRUE, value |-> value, next |-> next]

TokenAt(i) == IF i <= Len(line) THEN line[i] ELSE "end"

\* A repeated key replaces the earlier one.
SetMember(members, key, value) == (key :> value) @@ members

RECURSIVE ParseValue(_, _)
RECURSIVE ParseMembers(_, _, _)
RECURSIVE ParseItems(_, _, _)

\* The loop of parse_object, from a key on.
ParseMembers(at, depth, members) ==
  LET value == ParseValue(at + 2, depth + 1)
  IN  IF TokenAt(at) \notin Strings \/ TokenAt(at + 1) # ":" \/ ~value.ok
      THEN Failed
      ELSE LET object == SetMember(members, TokenAt(at), value.value)
           IN  CASE TokenAt(value.next) = "," -> ParseMembers(value.next + 1, depth, object)
                 [] TokenAt(value.next) = "}" -> Parsed(Object(object), value.next + 1)
                 [] OTHER -> Failed

\* The loop of parse_array.
ParseItems(at, depth, items) ==
  LET value == ParseValue(at, depth + 1)
  IN  IF ~value.ok
      THEN Failed
      ELSE LET array == Append(items, value.value)
           IN  CASE TokenAt(value.next) = "," -> ParseItems(value.next + 1, depth, array)
                 [] TokenAt(value.next) = "]" -> Parsed(Array(array), value.next + 1)
                 [] OTHER -> Failed

\* parse_value, with the first tests of parse_object and parse_array.
ParseValue(at, depth) ==
  LET token == TokenAt(at)
      next == TokenAt(at + 1)
  IN  CASE depth > MaxDepth -> Failed
        [] depth <= MaxDepth /\ token = "{" ->
             IF next = "}" THEN Parsed(Object(<<>>), at + 2) ELSE ParseMembers(at + 1, depth, <<>>)
        [] depth <= MaxDepth /\ token = "[" ->
             IF next = "]" THEN Parsed(Array(<<>>), at + 2) ELSE ParseItems(at + 1, depth, <<>>)
        [] depth <= MaxDepth /\ token \in Strings \cup Literals -> Parsed(Scalar(token), at + 1)
        [] OTHER -> Failed

\* Mutant: the document itself does not count as a level.
CppDecode_FromZero ==
  LET document == ParseValue(1, 0)
  IN  IF document.ok /\ document.next = Len(line) + 1 THEN {document.value} ELSE {}

\* parse_document: the value at depth 1, and nothing after it.
CppDecode ==
  LET document == ParseValue(1, 1)
  IN  IF document.ok /\ document.next = Len(line) + 1 THEN {document.value} ELSE {}

--------------------------------------------------------------------------------
(* The Python DUT: json.loads, then exceeds_nesting_limit.                   *)

\* The grammar of JSON (json.loads): the documents that a text spells, at most one.
\* An object keeps its members in a list here, repeated keys and all.
RECURSIVE Spelled(_)
RECURSIVE SpelledItems(_)
RECURSIVE SpelledMembers(_)

Cuts(s) == {i \in DOMAIN s : s[i] = ","}
Before(s, i) == SubSeq(s, 1, i - 1)
After(s, i) == SubSeq(s, i + 1, Len(s))
Inside(s) == SubSeq(s, 2, Len(s) - 1)
Enclosed(s, open, close) == Len(s) > 1 /\ s[1] = open /\ s[Len(s)] = close

SpelledItems(s) ==
  {<<v>> : v \in Spelled(s)}
  \cup UNION {{<<v>> \o rest : v \in Spelled(Before(s, i)), rest \in SpelledItems(After(s, i))} :
                i \in Cuts(s)}

SpelledMember(s) ==
  IF Len(s) > 2 /\ s[1] \in Strings /\ s[2] = ":"
  THEN {[key |-> s[1], value |-> v] : v \in Spelled(SubSeq(s, 3, Len(s)))}
  ELSE {}

SpelledMembers(s) ==
  {<<m>> : m \in SpelledMember(s)}
  \cup UNION {{<<m>> \o rest : m \in SpelledMember(Before(s, i)),
                               rest \in SpelledMembers(After(s, i))} : i \in Cuts(s)}

Spelled(s) ==
  CASE Len(s) = 1 -> {Scalar(t) : t \in {s[1]} \cap (Strings \cup Literals)}
    [] Enclosed(s, "[", "]") ->
         IF Len(s) = 2 THEN {Array(<<>>)} ELSE {Array(items) : items \in SpelledItems(Inside(s))}
    [] Enclosed(s, "{", "}") ->
         {[kind |-> "members", list |-> list] :
            list \in IF Len(s) = 2 THEN {<<>>} ELSE SpelledMembers(Inside(s))}
    [] OTHER -> {}

\* json.loads: an object becomes a dict, in which a repeated key has its last value.
RECURSIVE Loaded(_)
Loaded(v) ==
  CASE v.kind = "array" -> Array([i \in DOMAIN v.items |-> Loaded(v.items[i])])
    [] v.kind = "members" ->
         Object(FoldLeft(LAMBDA dict, m : (m.key :> Loaded(m.value)) @@ dict, <<>>, v.list))
    [] OTHER -> v

Parts(v) ==
  CASE v.kind = "array" -> Range(v.items)
    [] v.kind = "members" -> {m.value : m \in Range(v.list)}
    [] v.kind = "object" -> Range(v.members)
    [] OTHER -> {}

\* exceeds_nesting_limit: the walk that counts the value itself as depth 1.
RECURSIVE ExceedsNestingLimit(_, _)
ExceedsNestingLimit(v, limit) ==
  limit = 0 \/ \E part \in Parts(v) : ExceedsNestingLimit(part, limit - 1)

\* decode_request
PyDecode ==
  {v \in {Loaded(spelled) : spelled \in Spelled(line)} : ~ExceedsNestingLimit(v, MaxDepth)}

--------------------------------------------------------------------------------
(* build_response is the same function in both, line by line.                *)

\* find() and message.get(): an absent member and an explicit null are one case.
Get(message, key) == IF key \in DOMAIN message.members THEN message.members[key] ELSE Null

BuildResponse(message) ==
  IF message.kind # "object"
  THEN [code |-> "INVALID_MESSAGE_TYPE"]
  ELSE LET command == Get(message, "command")
           sequence == Get(message, "sequence")
       IN  CASE command = Null -> [code |-> "MISSING_COMMAND", sequence |-> sequence]
             [] command = Scalar("status") -> [code |-> "READY", sequence |-> sequence]
             [] OTHER -> [code |-> "UNSUPPORTED_COMMAND", command |-> command, sequence |-> sequence]

\* handle_request_line: no document, or one.
Response(documents) ==
  IF documents = {} THEN [code |-> "INVALID_JSON"]
  ELSE BuildResponse(CHOOSE message \in documents : TRUE)

--------------------------------------------------------------------------------
(* The lines tried.                                                          *)

Listed(items) == <<"[">> \o items \o <<"]">>
Member(key, value) == <<key, ":">> \o value
Braced(members) == <<"{">> \o members \o <<"}">>
Then(a, b) == a \o <<",">> \o b

Simple == {<<"status">>, <<"1">>, <<"null">>}
Around(values) ==
  {Listed(<<>>), Braced(<<>>)} \cup {Listed(v) : v \in values}
  \cup {Braced(Member("command", v)) : v \in values}
Nested == Simple \cup Around(Simple)
Deep == Nested \cup Around(Nested)

\* Bound: values nested three deep, in an object of one or two members or in an array;
\* every sequence of at most four tokens; and every object of one shallow member with
\* one token removed or changed.
Documents ==
  Deep \cup {Listed(v) : v \in Deep} \cup {Listed(Then(v, w)) : v, w \in Simple}
  \cup {Braced(Member(k, v)) : k \in {"command", "sequence"}, v \in Deep}
  \cup {Braced(Then(Member(k, v), Member(l, w))) :
          k, l \in {"command", "sequence"}, v, w \in Deep}

Small == {Braced(Member("command", v)) : v \in Nested}
         \cup {Braced(Then(Member("command", v), Member("sequence", w))) : v, w \in Simple}

Edited(s) ==
  {RemoveAt(s, i) : i \in DOMAIN s} \cup {[s EXCEPT ![i] = t] : i \in DOMAIN s, t \in Tokens}

\* Too deep as it is spelled, and not once it is loaded.
HidesDepth(s) ==
  \E v \in Spelled(s) :
    ExceedsNestingLimit(v, MaxDepth) /\ ~ExceedsNestingLimit(Loaded(v), MaxDepth)

LinesTried ==
  {s \in Documents \cup UNION {Edited(s) : s \in Small} \cup SeqOf(Tokens, 4) :
     HiddenDepth \/ ~HidesDepth(s)}

DecodingInit(lines) == line \in lines /\ answers = <<>>

\* Both DUTs answer the line.
AnswerLine ==
  /\ answers = <<>>
  /\ answers' = <<Response(CppDecode), Response(PyDecode)>>
  /\ UNCHANGED line

DecodingNext == AnswerLine

--------------------------------------------------------------------------------

\* "The two implementations have to reject at the same depth, or a payload's meaning
\* would depend on which DUT answered it" (json.cpp): the parser that counts on its
\* way down and the walk over the finished value accept the same lines, and what they
\* accept is answered the same, repeated members included.
SameAnswer == answers # <<>> => answers[1] = answers[2]
================================================================================
