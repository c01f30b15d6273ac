--------------------------- MODULE CurriculumLoader ---------------------------
(***************************************************************************)
(* load_curriculum: a program of lessons as authored, and the machine the  *)
(* server starts on, are turned into the lessons the server offers, or the *)
(* server refuses to start.  Afterwards a learner completes what is        *)
(* unlocked: a program that loads must not have a dead end.                *)
(*                                                                         *)
(* A block, a hint and a concept list are each one value: in order or not. *)
(***************************************************************************)
EXTENDS Toolchain, SequencesExt

CONSTANTS
  N,             \* lessons the program lists
  RequiresLists  \* the `requires` lists a lesson may carry

ASSUME LoaderAssumption == N \in Nat \ {0}

Positions == 1..N
Ghost == 0  \* an id that no lesson has

\* One lesson as authored.  `fields` is everything that is checked by itself:
\* strings, blocks that are there, hints, concepts, flow; `blocks` is that some are.
OddLessons ==
  [id : Positions, prerequisites : {<<>>}, requires : RequiresLists,
   status : {"available", "unavailable"}, fields : BOOLEAN, blocks : BOOLEAN]

Plain(p, list) ==
  [id |-> p, prerequisites |-> list, requires |-> <<>>, status |-> "available",
   fields |-> TRUE, blocks |-> TRUE]

\* Programs to try: any prerequisite lists of which one may have two entries, and
\* at most one lesson that is odd in another respect.
Programs ==
  LET lists(n) == SeqOf({Ghost} \cup Positions, n)
      graphs == {[p \in Positions |-> Plain(p, IF p = 1 THEN a ELSE IF p = N THEN z ELSE b)]
                   : a, b \in lists(1), z \in lists(2)}
      chain == [p \in Positions |-> Plain(p, IF p = 1 THEN <<>> ELSE <<p - 1>>)]
  IN  graphs \cup {[chain EXCEPT ![q] = o] : q \in Positions, o \in OddLessons}

VARIABLES
  program,   \* the program files
  state,     \* "starting", "refused" or "serving"
  offered,   \* lessons loaded as available
  done       \* lessons the learner has completed

loaderVars == <<program, machine, state, offered, done>>

--------------------------------------------------------------------------------

\* The part of `requires` that _parse_lesson looks at: it stops at the first
\* entry the machine does not satisfy.
Scanned(requires, m) ==
  {i \in DOMAIN requires : \A j \in 1..(i - 1) : Satisfies(m, requires[j])}

Status(e, m) ==
  IF \A i \in DOMAIN e.requires : Satisfies(m, e.requires[i]) THEN e.status ELSE "unavailable"

\* _parse_lesson and _validate_blocks
Parses(e, m) ==
  /\ e.fields
  /\ \A i \in Scanned(e.requires, m) : e.requires[i] \in KnownRequirements
  /\ Status(e, m) = "available" => e.blocks

\* Mutant: a prerequisite only has to exist.
PointsBackwards_Exists(prog, p) ==
  \A q \in Range(prog[p].prerequisites) : q \in Positions

\* The checks behind the last lesson: prerequisites resolve and come earlier.
PointsBackwards(prog, p) ==
  \A q \in Range(prog[p].prerequisites) : q \in Positions /\ q < p

Accepted(prog, m) ==
  /\ \A p \in Positions : Parses(prog[p], m) /\ PointsBackwards(prog, p)
  /\ \A p, q \in Positions : prog[p].id = prog[q].id => p = q

LoaderInit(programs) ==
  /\ program \in programs
  /\ machine \in MachinesTried
  /\ state = "starting"
  /\ offered = {}
  /\ done = {}

\* build_server: with a CurriculumError the process ends before it listens.
Load ==
  /\ state = "starting"
  /\ IF Accepted(program, machine)
     THEN /\ state' = "serving"
          /\ offered' = {p \in Positions : Status(program[p], machine) = "available"}
     ELSE /\ state' = "refused"
          /\ UNCHANGED offered
  /\ UNCHANGED <<program, machine, done>>

\* A learner works through a lesson; the store accepts it over a complete chain.
Complete(p) ==
  /\ state = "serving"
  /\ p \in offered \ done
  /\ Range(program[p].prerequisites) \subseteq done
  /\ done' = done \cup {p}
  /\ UNCHANGED <<program, machine, state, offered>>

LoaderNext == Load \/ \E p \in Positions : Complete(p)


--------------------------------------------------------------------------------

\* The lessons a lesson transitively builds on, whatever the graph looks like.
Below(p) ==
  {m \in Positions : \A S \in SUBSET Positions :
     (Range(program[p].prerequisites) \cap Positions \subseteq S
        /\ \A x \in S : Range(program[x].prerequisites) \cap Positions \subseteq S) => m \in S}

\* "A forward or circular dependency leaves that lesson permanently locked": in a
\* program that loads, the learner is stuck only when every lesson offered is done
\* or builds on one that this machine cannot offer.
NoDeadEnd ==
  state = "serving" /\ (\A p \in offered \ done : ~(Range(program[p].prerequisites) \subseteq done))
    => \A p \in offered : p \in done \/ ~(Below(p) \subseteq offered)

\* "Everything is checked at load time" (curriculum.py): whether a program loads
\* does not depend on the machine.  It does: see the README.
AcceptanceIsPortable ==
  state = "serving" => \A m \in Machines : Accepted(program, m)
================================================================================
