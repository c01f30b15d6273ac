-------------------------------- MODULE MCParts ---------------------------------
(* The rules that decide, which share no state with one another: what the      *)
(* loader accepts, what the gate counts as complete, what the checks let pass, *)
(* what the DUTs take for a request.                                           *)
(* One part at a time; the state of the others stays at one of their initial   *)
(* states.                                                                     *)
EXTENDS CompletionGate, SourceExercises, EvidenceChecks, ProbeConversation, CurriculumLoader,
  NativeLessons, RequestDecoding, RequestText

VARIABLE part

partsVars ==
  <<gateVars, sourceVars, evidenceVars, probeVars, loaderVars, nativeVars, decodingVars, textVars,
    part>>

\* A file, a checkout, a graph, a program and a machine for the parts that rest.
SomeExercise == [rule |-> "lock", file |-> SourceFile(TRUE, FALSE, FALSE, TRUE, <<>>)]
EmptyCheckout == [tests |-> TestFile("missing", {}), rows |-> EmptyFile, kept |-> EmptyFile]
NoPrerequisites == [l \in Lessons |-> <<>>]
SomeProgram == [p \in Positions |-> Plain(p, <<>>)]
SomeMachine == [found |-> Tools, ftlCxx |-> "unset"]

\* The inputs of a part, and the one it rests with.
For(p, inputs, resting) == IF part = p THEN inputs ELSE {resting}

PartsInit ==
  /\ part \in {"gate", "source", "evidence", "probe", "loader", "native", "decoding", "text"}
  /\ part # "gate" => marked = {} /\ open = {}
  /\ GateInit(For("gate", Curricula, NoPrerequisites))
  /\ SourceInit(For("source", ExercisesTried, SomeExercise))
  /\ EvidenceInit(For("evidence", CheckoutsTried, EmptyCheckout))
  /\ ProbeInit(For("probe", ProbeLessons, StatusLesson), For("probe", Faults, "none"))
  /\ part \notin {"loader", "native"} => machine = SomeMachine
  /\ LoaderInit(For("loader", Programs, SomeProgram))
  /\ NativeInit
  /\ DecodingInit(For("decoding", LinesTried, <<>>))
  /\ TextInit(For("text", BytesTried, <<>>), For("text", UnitsTried, <<>>))

\* The state of every other part stays as it is.
OthersRest(p, variables) == IF part = p THEN TRUE ELSE UNCHANGED variables

PartsNext ==
  /\ \/ part = "gate" /\ GateNext
     \/ part = "source" /\ SourceNext
     \/ part = "evidence" /\ EvidenceNext
     \/ part = "probe" /\ ProbeNext
     \/ part = "loader" /\ LoaderNext
     \/ part = "native" /\ NativeNext
     \/ part = "decoding" /\ DecodingNext
     \/ part = "text" /\ TextNext
  /\ OthersRest("gate", gateVars)
  /\ OthersRest("source", sourceVars)
  /\ OthersRest("evidence", evidenceVars)
  /\ OthersRest("probe", probeVars)
  /\ OthersRest("loader", <<program, state, offered, done>>)
  /\ OthersRest("native", <<detected, tree, exe, targets, nativeVerdict, ours, configured, built>>)
  /\ IF part \in {"loader", "native"} THEN TRUE ELSE UNCHANGED machine
  /\ OthersRest("decoding", decodingVars)
  /\ OthersRest("text", textVars)
  /\ UNCHANGED part

\* The exercises tried are such as the proofs about the checks of source code take in.
ASSUME TriedAreExercises == \A e \in ExercisesTried : IsExercise(e)

ThreeRequires == {<<>>, <<"cpp-build">>, <<"cpp-build", "gdb">>, <<"cpp-build", "gbd">>}

\* Complete, without gdb, without a build tool, without a compiler, with nothing; FTL_CXX of
\* every kind.
SomeMachines ==
  [found : {Tools, Tools \ {"gdb"}, Tools \ {"ninja", "make"}, Tools \ {"cxx"}, {}},
   ftlCxx : Overrides]
================================================================================
