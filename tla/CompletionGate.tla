---------------------------- MODULE CompletionGate ----------------------------
(***************************************************************************)
(* The mutually recursive gate evaluation of ProgressStore, with its       *)
(* `seen` set, against a reference definition of "complete all the way up  *)
(* the chain", over every curriculum the loader accepts and every recorded *)
(* state of a few lessons.                                                 *)
(*                                                                         *)
(* `seen` is a mutable set: _lesson_is_complete_locked adds to the set it  *)
(* is given, _lesson_completion_locked copies its own first.  So lessons   *)
(* evaluated earlier in the same list of prerequisites are already seen    *)
(* when a later one is evaluated, and count as complete by status alone.   *)
(***************************************************************************)
EXTENDS Integers, Sequences, FiniteSets, SequencesExt

CONSTANT GateLessons  \* number of lessons, in program order

ASSUME GateAssumption == GateLessons \in Nat \ {0}

Lessons == 1..GateLessons

VARIABLES
  prerequisites,  \* [lesson -> sequence of earlier lessons], in authored order
  marked,         \* lessons whose stored status is "complete"
  open,           \* available lessons whose own checks and quizzes all pass
  asked,          \* the lesson last asked about, 0 before the first question
  verdict,        \* lesson_completion(asked): all gates hold
  unmet           \* the prerequisites it reported as not complete

gateVars == <<prerequisites, marked, open, asked, verdict, unmet>>

\* What the loop over the prerequisites of l has put into its `seen` when it comes to
\* the i-th: a marked lesson is in it after it has been asked about.
AskedBefore(l, i) == marked \cap {prerequisites[l][j] : j \in 1..(i - 1)}

\* _lesson_is_complete_locked, and the _lesson_completion_locked in it, for every
\* lesson and every `seen` it may be given.
IsComplete ==
  LET complete[l \in Lessons] ==
        [seen \in SUBSET Lessons |->
           /\ l \in marked
           /\ \/ l \in seen
              \/ /\ l \in open
                 /\ \A i \in DOMAIN prerequisites[l] :
                      complete[prerequisites[l][i]][seen \cup {l} \cup AskedBefore(l, i)]]
  IN  complete

\* The loop over lesson.prerequisites, `seen` being the copy that it starts with.
UnmetPrerequisites(l, seen) ==
  LET list == prerequisites[l]
  IN  {list[i] : i \in {i \in DOMAIN list : ~IsComplete[list[i]][seen \cup AskedBefore(l, i)]}}

\* Mutant: one `seen` set shared by all the lessons of the map.
CompletionMap_SharedSeen ==
  {l \in Lessons : IsComplete[l][{k \in marked : k < l}]}

\* completion_map: a fresh `seen` for every lesson.
CompletionMap == {l \in Lessons : IsComplete[l][{}]}

--------------------------------------------------------------------------------

\* Prerequisite lists as load_curriculum admits them: earlier lessons only, in any
\* order; nothing rules out that one is listed twice.  Bound: lists of two, and every
\* order of all the earlier lessons.
Lists(l) == SeqOf(1..(l - 1), 2) \cup SetToSeqs(1..(l - 1))

Curricula ==
  {f \in [Lessons -> Lists(GateLessons)] : \A l \in Lessons : f[l] \in Lists(l)}

GateInit(curricula) ==
  /\ prerequisites \in curricula
  /\ marked \in SUBSET Lessons
  /\ open \in SUBSET Lessons
  /\ asked = 0
  /\ verdict = FALSE
  /\ unmet = {}

\* lesson_completion(lesson, curriculum) for a lesson that has been started.
Ask(l) ==
  /\ asked' = l
  /\ unmet' = UnmetPrerequisites(l, {l})
  /\ verdict' = (l \in open /\ unmet' = {})
  /\ UNCHANGED <<prerequisites, marked, open>>

GateNext == \E l \in Lessons : asked = 0 /\ Ask(l)

--------------------------------------------------------------------------------

\* Reference: the lessons below l in the prerequisite graph, the smallest set with the
\* prerequisites of l and of its own members.
LessonsBelow(l) ==
  {m \in Lessons :
     \A S \in SUBSET Lessons :
       Range(prerequisites[l]) \subseteq S /\ (\A k \in S : Range(prerequisites[k]) \subseteq S)
         => m \in S}

\* Reference: complete all the way up the chain.
Genuine(l) == \A m \in LessonsBelow(l) \cup {l} : m \in marked /\ m \in open

\* The evaluation accepts a lesson exactly when its own gates hold and every
\* lesson below it is marked complete with its gates holding: the shortcut
\* through `seen` never lets a broken chain pass and never refuses a sound one,
\* neither in lesson_completion's verdict nor in completion_map, which roadmap,
\* counters and navigation read.
GateIsReference ==
  /\ CompletionMap = {l \in Lessons : Genuine(l)}
  /\ asked # 0 =>
       (verdict <=> asked \in open /\ \A m \in LessonsBelow(asked) : m \in marked /\ m \in open)

\* "Prerequisites, roadmap locks, navigation and the counters all ask it, so they
\* cannot drift apart in either direction": the prerequisites reported as not
\* complete are the ones the roadmap shows as not complete.  They are not, when one
\* of them was already seen below an earlier one: see the README.
ReportAgreesWithMap ==
  asked # 0 => unmet = Range(prerequisites[asked]) \ CompletionMap
================================================================================
