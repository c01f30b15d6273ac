------------------------------ MODULE PartsProofs ------------------------------
(***************************************************************************)
(* Proofs about the parts of the learning server that decide by rules: the *)
(* checks of evidence, the native lessons, the loader of the curriculum,   *)
(* the conversation with a probed DUT, the instance lock, the gate of      *)
(* lesson completion and the checks of source code.  Each part has its own *)
(* variables and is proved about by itself.                                *)
(***************************************************************************)
EXTENDS CompletionGate, SourceExercises, EvidenceChecks, ProbeConversation, NativeLessons,
        CurriculumLoader, ServerInstances, FiniteSetTheorems, WellFoundedInduction, TLAPS

--------------------------------------------------------------------------------
(* Evidence: any checkout, the checks pressed in any order.                   *)

AnyEvidenceSpec == EvidenceInit(Checkouts) /\ [][EvidenceNext]_evidenceVars

\* A check that passed was judged on the checkout that is still there.
EvidenceInv ==
  /\ checkout \in Checkouts
  /\ \A c \in passed : \E timedOut \in BOOLEAN : Verdict(c, timedOut)

\* The invariant of the evidence checks, for any files of any length and any names.
THEOREM EvidenceInvariance == AnyEvidenceSpec => []EvidenceInv
<1>1. EvidenceInit(Checkouts) => EvidenceInv
  BY DEF EvidenceInit, EvidenceInv
<1>2. EvidenceInv /\ [EvidenceNext]_evidenceVars => EvidenceInv'
  <2> SUFFICES ASSUME EvidenceInv, [EvidenceNext]_evidenceVars
               PROVE  EvidenceInv'
    OBVIOUS
  <2>1. ASSUME NEW c \in Checks, NEW timedOut \in BOOLEAN, Press(c, timedOut)
        PROVE  EvidenceInv'
    <3>1. checkout' = checkout
          /\ passed' = IF Verdict(c, timedOut) THEN passed \cup {c} ELSE passed \ {c}
      BY <2>1 DEF Press
    <3>2. \A d, t : Verdict(d, t) => Verdict(d, t)'
      BY <3>1 DEF Verdict
    <3>3. ASSUME NEW d \in passed' PROVE \E t \in BOOLEAN : Verdict(d, t)
      BY <3>1, <3>3 DEF EvidenceInv
    <3>4. \A d \in passed' : \E t \in BOOLEAN : Verdict(d, t)'
      BY <3>2, <3>3
    <3> QED
      BY <3>1, <3>4 DEF EvidenceInv
  <2>2. CASE UNCHANGED evidenceVars
    BY <2>2 DEF evidenceVars, EvidenceInv, Verdict
  <2> QED
    BY <2>1, <2>2 DEF EvidenceNext
<1> QED
  BY <1>1, <1>2, PTL DEF AnyEvidenceSpec

\* What a passed check has found.
LEMMA PassedChecks ==
  ASSUME EvidenceInv
  PROVE  /\ "red" \in passed => PytestCheck(checkout.tests, "fail", TRUE, FALSE)
         /\ "green" \in passed => PytestCheck(checkout.tests, "pass", FALSE, FALSE)
         /\ "marker" \in passed => MustMarkFunction(checkout.tests)
         /\ "trace" \in passed => CsvRowMatches(checkout.rows)
         /\ "audit" \in passed => JunitTestcase(checkout.kept, "passed")
<1>1. /\ \A t : Verdict("red", t) => PytestCheck(checkout.tests, "fail", TRUE, t)
      /\ \A t : Verdict("green", t) => PytestCheck(checkout.tests, "pass", FALSE, t)
      /\ \A t : Verdict("marker", t) => MustMarkFunction(checkout.tests)
      /\ \A t : Verdict("trace", t) => CsvRowMatches(checkout.rows)
      /\ \A t : Verdict("audit", t) => JunitTestcase(checkout.kept, "passed")
  BY DEF Verdict
<1>2. \A t \in BOOLEAN : \A expect, assertion :
        PytestCheck(checkout.tests, expect, assertion, t) =>
          PytestCheck(checkout.tests, expect, assertion, FALSE)
  BY DEF PytestCheck
<1> QED
  BY <1>1, <1>2 DEF EvidenceInv

\* A testcase of a file that imports is a test function of the file.
LEMMA TestcaseIsATest ==
  ASSUME NEW unit, unit.state # "broken", NEW c \in Report(unit)
  PROVE  \E t \in unit.tests : c.name = t.name /\ c.outcome = t.outcome
<1>1. PICK t \in unit.tests : c = [name |-> t.name, outcome |-> t.outcome]
  BY DEF Report
<1> QED
  BY <1>1

\* A red stage that passed was red because a test of the lesson failed: a file that
\* does not import, an error or another test's failure do not pass it.
THEOREM RedForTheRightReason == AnyEvidenceSpec => []RedIsAFailedTest
<1>1. EvidenceInv => RedIsAFailedTest
  <2> SUFFICES ASSUME EvidenceInv, "red" \in passed
               PROVE  \E t \in Matching(checkout.tests) : t.outcome = "failed"
    BY DEF RedIsAFailedTest
  <2> DEFINE unit == checkout.tests
  <2>1. JunitShows(Report(unit), TRUE)
    BY PassedChecks DEF PytestCheck
  <2>2. PICK n \in MatchingNames : n \in NamesWith(Report(unit), "failed")
    BY <2>1 DEF JunitShows
  <2>3. PICK c \in Report(unit) : c.outcome = "failed" /\ c.name = n
    BY <2>2 DEF NamesWith, NamesIn
  <2>4. unit.state # "broken"
    <3>1. ASSUME unit.state = "broken" PROVE c.outcome = "error"
      BY <3>1 DEF Report
    <3> QED
      BY <2>3, <3>1
  <2>5. PICK t \in unit.tests : c.name = t.name /\ c.outcome = t.outcome
    BY <2>4, TestcaseIsATest
  <2> QED
    BY <2>2, <2>3, <2>5 DEF Matching
<1> QED
  BY <1>1, EvidenceInvariance, PTL

\* A report in which the lesson's pattern is green, in one of the two ways it is asked, of a
\* file in which one test matches.
LEMMA GreenTest ==
  ASSUME NEW unit, unit.state # "broken", NEW t \in Matching(unit),
         \A u \in Matching(unit) : u = t,
         \/ ExitZero(unit) /\ JunitShows(Report(unit), FALSE)
         \/ JunitTestcase(File(Report(unit)), "passed")
  PROVE  t.outcome = "passed"
<1>1. ASSUME NEW c \in Report(unit), c.name \in MatchingNames
      PROVE  c.outcome = t.outcome
  BY <1>1, TestcaseIsATest DEF Matching
<1>2. CASE ExitZero(unit) /\ JunitShows(Report(unit), FALSE)
  <2>1. PICK c \in Report(unit) :
          c.name \in MatchingNames /\ c.name \notin NamesWith(Report(unit), "skipped")
    BY <1>2 DEF JunitShows, NamesIn
  <2>2. c.outcome # "skipped"
    BY <2>1 DEF NamesWith, NamesIn
  <2>3. c.outcome \in {"passed", "skipped"}
    BY <1>2 DEF ExitZero
  <2> QED
    BY <1>1, <2>1, <2>2, <2>3
<1>3. CASE JunitTestcase(File(Report(unit)), "passed")
  <2>1. PICK c \in Report(unit) : c.name \in MatchingNames /\ c.outcome = "passed"
    BY <1>3 DEF JunitTestcase, File
  <2> QED
    BY <1>1, <2>1
<1> QED
  BY <1>2, <1>3

\* Marker, row and a run that are accepted show one test that carries the marker, is cited by
\* the requirement's row, and was executed and passed; or the checks did not see why not.
THEOREM EvidenceErrsOutOfSight == AnyEvidenceSpec => []UnlinkedOnlyOutOfSight
<1>1. EvidenceInv => UnlinkedOnlyOutOfSight
  <2> DEFINE unit == checkout.tests
             rows == checkout.rows
  <2> SUFFICES ASSUME EvidenceInv, ~SeveralMatch, ~NothingThere,
                      "marker" \in passed, "trace" \in passed,
                      "green" \in passed \/ ("audit" \in passed /\ ~KeptIsOther)
               PROVE  OneLinked
    BY DEF UnlinkedOnlyOutOfSight
  <2>1. MustMarkFunction(unit) /\ CsvRowMatches(rows)
    BY PassedChecks
  <2>2. \/ ExitZero(unit) /\ JunitShows(Report(unit), FALSE)
        \/ JunitTestcase(File(Report(unit)), "passed")
    BY PassedChecks DEF PytestCheck, KeptIsOther
  <2>3. PICK t \in Matching(unit) : t.name \in MarkedNames(unit) /\ t.parametrized
    BY <2>1 DEF MustMarkFunction, NothingThere
  <2>4. unit.state # "broken"
    BY <2>1 DEF MustMarkFunction, NothingThere
  <2>5. \A u \in Matching(unit) : u = t
    BY <2>3 DEF SeveralMatch
  <2>6. t.marked
    <3>1. PICK u \in unit.tests : u.marked /\ u.name = t.name
      BY <2>3 DEF MarkedNames
    <3>2. u \in Matching(unit)
      BY <2>3, <3>1 DEF Matching
    <3> QED
      BY <2>5, <3>1, <3>2
  <2>7. t.outcome = "passed"
    BY <2>2, <2>3, <2>4, <2>5, GreenTest
  <2>8. [requirement |-> "this", cites |-> t.name] \in rows.entries
    <3>1. PICK r \in rows.entries : r.requirement = "this" /\ r.cites \in MatchingNames
      BY <2>1 DEF CsvRowMatches, NothingThere
    <3>2. r.cites = t.name
      BY <2>3, <3>1 DEF SeveralMatch
    <3>3. rows.entries \subseteq Rows
      BY DEF EvidenceInv, Checkouts, File, EmptyFile
    <3>4. r = [requirement |-> "this", cites |-> t.name]
      BY <3>1, <3>2, <3>3 DEF Rows
    <3> QED
      BY <3>1, <3>4
  <2> QED
    BY <2>3, <2>6, <2>7, <2>8 DEF OneLinked
<1> QED
  BY <1>1, EvidenceInvariance, PTL

--------------------------------------------------------------------------------
(* Native lessons: any machines, any order of checks, edits and restarts.     *)

NativeTypeOK ==
  /\ tree \in Trees \cup {NoTree}
  /\ exe \in [Executables -> [state : {"absent", "current", "leftover"}, readable : BOOLEAN]]
  /\ nativeVerdict \in [{"configure", "build", "backtrace"} -> {"none", "passed", "failed"}]
  /\ ours \in BOOLEAN /\ configured \in BOOLEAN /\ built \in BOOLEAN
  /\ machine \in MachinesTried /\ detected \in MachinesTried

\* A tree that the configure check let pass, with gdb known, keeps the frames that
\* gdb needs; what was built from it then has readable symbols.
SymbolsInv ==
  /\ configured => tree # NoTree /\ Readable(tree)
  /\ targets = Executables /\ configured /\ built => exe["dut"].readable
  /\ DropTargets \/ targets = Executables

\* A tree that the configure check made by itself is a debug build, by a compiler that was
\* found by its name or named by FTL_CXX.
OursInv ==
  ours => tree # NoTree /\ tree.type = "debug" /\ tree.compiler \in {"gnu", "renamed"}

NativeInv == NativeTypeOK /\ SymbolsInv /\ OursInv

\* No tree is not a tree.
LEMMA NoTreeIsNone == NoTree \notin Trees
BY DEF NoTree, Trees

\* What a fresh configure makes on a machine that can build.
LEMMA FreshTreeFacts ==
  ASSUME NEW m
  PROVE  /\ FreshTree(m) \in Trees \cup {NoTree}
         /\ FreshTree(m) # NoTree => /\ FreshTree(m).type = "debug"
                                     /\ Readable(FreshTree(m))
                                     /\ FreshTree(m).compiler \in {"gnu", "renamed"}
         /\ Satisfies(m, "cpp-build") => FreshTree(m) # NoTree
<1> DEFINE t == [compiler |-> CompilerName(m), type |-> "debug"]
<1>1. /\ t.compiler = IF m.ftlCxx = "renamed" THEN "renamed" ELSE "gnu"
      /\ t.type = "debug" /\ t \in Trees
  BY DEF CompilerName, Trees
<1>2. FreshTree(m) = t \/ FreshTree(m) = NoTree
  BY DEF FreshTree
<1>3. Satisfies(m, "cpp-build") => FreshTree(m) = t
  BY DEF Satisfies, CanBuildCpp, FreshTree
<1> HIDE DEF t
<1>4. Readable(t)
  BY <1>1 DEF Readable
<1> QED
  BY <1>1, <1>2, <1>3, <1>4, NoTreeIsNone

\* The server has just started and there is no cpp/build.
LEMMA NativeInitHolds == NativeInit => NativeInv
<1> SUFFICES ASSUME NativeInit
             PROVE  NativeInv
  OBVIOUS
<1>1. NotBuilt \in [state : {"absent", "current", "leftover"}, readable : BOOLEAN]
  BY DEF NotBuilt
<1>2. NativeTypeOK
  BY <1>1 DEF NativeInit, NativeTypeOK
<1>3. SymbolsInv /\ OursInv
  BY DEF NativeInit, SymbolsInv, OursInv
<1> QED
  BY <1>2, <1>3 DEF NativeInv

\* The configure check: an incompatible tree is refused, any other is kept or made.
LEMMA ConfigureStep ==
  ASSUME NativeInv, CheckConfigure
  PROVE  /\ NativeInv'
         /\ tree = NoTree \/ (ours /\ ~UnusualName) =>
              nativeVerdict'["configure"] = "passed"
<1> USE DEF NativeInv
<1>1. /\ Satisfies(detected, "cpp-build")
      /\ machine' = machine /\ detected' = detected /\ exe' = exe /\ targets' = targets
  BY DEF CheckConfigure, Offers
<1>2. CASE Incompatible(tree, detected)
  <2>1. /\ tree' = tree /\ ours' = ours /\ configured' = configured /\ built' = built
        /\ nativeVerdict' = [nativeVerdict EXCEPT !["configure"] = "failed"]
    BY <1>2 DEF CheckConfigure, Judge
  <2>2. NativeTypeOK'
    BY <1>1, <2>1 DEF NativeTypeOK
  <2>3. SymbolsInv' /\ OursInv'
    BY <1>1, <2>1 DEF SymbolsInv, OursInv
  <2>4. /\ tree # NoTree /\ "gdb" \in Detected(detected)
        /\ tree.type = "release" \/ tree.compiler # "gnu"
    BY <1>2 DEF Incompatible
  <2> QED
    BY <2>2, <2>3, <2>4 DEF OursInv, UnusualName
<1>3. CASE ~Incompatible(tree, detected)
  <2> DEFINE outcome == IF tree' # NoTree THEN "passed" ELSE "failed"
  <2>1. /\ tree' = IF tree = NoTree THEN FreshTree(detected) ELSE tree
        /\ nativeVerdict' = [nativeVerdict EXCEPT !["configure"] = outcome]
        /\ ours' = (ours \/ (tree = NoTree /\ tree' # NoTree))
        /\ configured' = (tree' # NoTree /\ "gdb" \in Detected(detected))
        /\ built' = FALSE
    BY <1>3 DEF CheckConfigure, Judge
  <2>2. tree' \in Trees /\ tree' # NoTree
    BY <1>1, <2>1, FreshTreeFacts, NoTreeIsNone DEF NativeTypeOK
  <2>3. NativeTypeOK'
    BY <1>1, <2>1, <2>2 DEF NativeTypeOK
  <2>4. ASSUME configured' PROVE Readable(tree')
    <3>1. CASE tree = NoTree
      BY <2>1, <2>2, <3>1, FreshTreeFacts
    <3>2. CASE tree # NoTree
      BY <1>3, <2>1, <2>4, <3>2 DEF Incompatible, Readable
    <3> QED
      BY <3>1, <3>2
  <2>5. SymbolsInv'
    BY <1>1, <2>1, <2>2, <2>4 DEF SymbolsInv
  <2>6. OursInv'
    <3>1. CASE tree = NoTree
      BY <2>1, <2>2, <3>1, FreshTreeFacts DEF OursInv, NativeTypeOK
    <3>2. CASE tree # NoTree
      BY <2>1, <2>2, <3>2 DEF OursInv
    <3> QED
      BY <3>1, <3>2
  <2>7. nativeVerdict'["configure"] = "passed"
    BY <2>1, <2>2 DEF NativeTypeOK
  <2> QED
    BY <2>3, <2>5, <2>6, <2>7
<1> QED
  BY <1>2, <1>3

\* The build check brings every target up to date with the tree.
LEMMA BuildStep ==
  ASSUME NativeInv, CheckBuild
  PROVE  NativeInv' /\ nativeVerdict'["configure"] = nativeVerdict["configure"]
<1> USE DEF NativeInv
<1>1. /\ machine' = machine /\ detected' = detected /\ tree' = tree /\ targets' = targets
      /\ ours' = ours /\ configured' = configured
      /\ built' = (tree # NoTree /\ \A e \in Executables : exe'[e] # NotBuilt)
  BY DEF CheckBuild
<1>2. /\ nativeVerdict' \in [{"configure", "build", "backtrace"} -> {"none", "passed", "failed"}]
      /\ nativeVerdict'["configure"] = nativeVerdict["configure"]
  BY DEF CheckBuild, Judge, NativeTypeOK
<1>3. Readable(tree) \in BOOLEAN
  BY DEF Readable
<1>4. exe' \in [Executables -> [state : {"absent", "current", "leftover"}, readable : BOOLEAN]]
  <2>1. CASE tree = NoTree
    BY <2>1 DEF CheckBuild, NativeTypeOK
  <2>2. CASE tree # NoTree
    <3> DEFINE built1(e) == IF e \in targets
                            THEN [state |-> "current", readable |-> Readable(tree)]
                            ELSE IF exe[e] = NotBuilt THEN NotBuilt
                            ELSE [exe[e] EXCEPT !.state = "leftover"]
    <3>1. exe' = [e \in Executables |-> built1(e)]
      BY <2>2 DEF CheckBuild
    <3>2. ASSUME NEW e \in Executables
          PROVE  built1(e) \in [state : {"absent", "current", "leftover"}, readable : BOOLEAN]
      BY <1>3 DEF NativeTypeOK, NotBuilt
    <3> HIDE DEF built1
    <3> QED
      BY <3>1, <3>2
  <2> QED
    BY <2>1, <2>2
<1>5. SymbolsInv'
  <2> SUFFICES ASSUME targets = Executables, configured, built'
               PROVE  exe'["dut"].readable
    BY <1>1 DEF SymbolsInv
  <2>1. tree # NoTree /\ Readable(tree)
    BY DEF SymbolsInv
  <2>2. exe'["dut"] = [state |-> "current", readable |-> Readable(tree)]
    BY <2>1 DEF CheckBuild, Executables
  <2> QED
    BY <2>1, <2>2
<1>6. OursInv'
  BY <1>1 DEF OursInv
<1>7. NativeTypeOK'
  <2>1. built' \in BOOLEAN
    BY <1>1
  <2> QED
    BY <1>1, <1>2, <1>4, <2>1 DEF NativeTypeOK
<1> QED
  BY <1>2, <1>5, <1>6, <1>7

\* Everything else: the learner's own configure and edits, the debugger, a restart.
LEMMA OtherNativeStep ==
  ASSUME NativeInv, NativeNext, ~CheckConfigure, ~CheckBuild
  PROVE  NativeInv' /\ nativeVerdict'["configure"] = nativeVerdict["configure"]
<1> USE DEF NativeInv, NativeTypeOK, SymbolsInv, OursInv
<1>1. CASE CheckBacktrace
  BY <1>1 DEF CheckBacktrace, Judge
<1>2. ASSUME NEW t \in Trees, LearnerConfigure(t)
      PROVE  NativeInv' /\ nativeVerdict'["configure"] = nativeVerdict["configure"]
  BY <1>2 DEF LearnerConfigure
<1>3. CASE DeleteTree
  BY <1>3 DEF DeleteTree, NotBuilt
<1>4. ASSUME NEW e \in Executables, DropTarget(e)
      PROVE  NativeInv' /\ nativeVerdict'["configure"] = nativeVerdict["configure"]
  <2>1. targets' # Executables /\ DropTargets
    BY <1>4 DEF DropTarget
  <2> QED
    BY <1>4, <2>1 DEF DropTarget
<1>5. ASSUME NEW m \in MachinesTried, Install(m)
      PROVE  NativeInv' /\ nativeVerdict'["configure"] = nativeVerdict["configure"]
  BY <1>5 DEF Install
<1>6. CASE Restart
  BY <1>6 DEF Restart
<1> QED
  BY <1>1, <1>2, <1>3, <1>4, <1>5, <1>6 DEF NativeNext

\* The invariant of the native lessons, for any machines.
THEOREM NativeInvariance == NativeSpec => []NativeInv
<1>1. NativeInv /\ [NativeNext]_nativeVars => NativeInv'
  <2>1. CASE UNCHANGED nativeVars
    BY <2>1 DEF nativeVars, NativeInv, NativeTypeOK, SymbolsInv, OursInv
  <2> QED
    BY <2>1, ConfigureStep, BuildStep, OtherNativeStep
<1> QED
  BY <1>1, NativeInitHolds, PTL DEF NativeSpec

\* Green configure and build checks mean that gdb can read the crash, whatever was
\* configured, edited and deleted before; an executable that an edit has removed from
\* the build may be left over from another tree.
THEOREM DebuggableBehindGreenChecks ==
  ASSUME DropTargets = FALSE
  PROVE  NativeSpec => []GreenBuildIsDebuggable
<1>1. NativeInv => GreenBuildIsDebuggable
  BY DEF NativeInv, SymbolsInv, GreenBuildIsDebuggable
<1> QED
  BY <1>1, NativeInvariance, PTL

\* A lesson that is offered can be configured, on any machine: where there is no tree, and
\* where the tree is the check's own and its compiler has a usual name, the check passes.
THEOREM OfferedIsConfigurable == NativeSpec => OfferedLessonConfigures
<1>1. ASSUME NativeInv, [NativeNext]_nativeVars
      PROVE  [tree = NoTree \/ (ours /\ ~UnusualName) =>
                 nativeVerdict'["configure"] = nativeVerdict["configure"]
                   \/ nativeVerdict'["configure"] = "passed"]_nativeVars
  BY <1>1, ConfigureStep, BuildStep, OtherNativeStep
<1> QED
  BY <1>1, NativeInvariance, PTL DEF NativeSpec, OfferedLessonConfigures

--------------------------------------------------------------------------------
(* The loader: any program files, any machine, any order of completion.       *)

LoaderSpec(programs) == LoaderInit(programs) /\ [][LoaderNext]_loaderVars

\* The server serves only what it has accepted.
LoaderInv ==
  /\ state = "serving" => Accepted(program, machine)
  /\ offered \subseteq Positions

\* Of some positions one is first.
LEMMA FirstPosition ==
  ASSUME NEW T \in SUBSET Positions, T # {}
  PROVE  \E m \in T : \A k \in T : m <= k
<1>1. T \subseteq Nat
  BY LoaderAssumption DEF Positions
<1> HIDE DEF Positions
<1>2. PICK m \in T : \A k \in T : ~ (<<k, m>> \in OpToRel(<, Nat))
  BY <1>1, NatLessThanWellFounded, WFMin
<1>3. \A k \in T : ~(k < m)
  BY <1>1, <1>2 DEF OpToRel
<1> QED
  BY <1>1, <1>3

\* What a lesson builds on contains its prerequisites and theirs.
LEMMA BelowClosed ==
  ASSUME NEW p \in Positions
  PROVE  /\ Below(p) \subseteq Positions
         /\ Range(program[p].prerequisites) \cap Positions \subseteq Below(p)
         /\ \A x \in Below(p) :
              Range(program[x].prerequisites) \cap Positions \subseteq Below(p)
<1> DEFINE Pre(x) == Range(program[x].prerequisites) \cap Positions
           Good(S) == Pre(p) \subseteq S /\ \A x \in S : Pre(x) \subseteq S
<1>1. Below(p) = {m \in Positions : \A S \in SUBSET Positions : Good(S) => m \in S}
  BY DEF Below
<1> HIDE DEF Positions
<1>2. \A x : Pre(x) \subseteq Positions
  OBVIOUS
<1> HIDE DEF Pre
<1>3. Pre(p) \subseteq Below(p)
  BY <1>1, <1>2
<1>4. ASSUME NEW x \in Below(p), NEW q \in Pre(x)
      PROVE  q \in Below(p)
  <2>1. ASSUME NEW S \in SUBSET Positions, Good(S)
        PROVE  q \in S
    BY <1>1, <1>4, <2>1
  <2> QED
    BY <1>1, <1>2, <2>1
<1> QED
  BY <1>1, <1>3, <1>4 DEF Pre

\* The invariant of the loader.
THEOREM LoaderInvariance ==
  ASSUME NEW programs
  PROVE  LoaderSpec(programs) => []LoaderInv
<1>1. LoaderInit(programs) => LoaderInv
  BY DEF LoaderInit, LoaderInv
<1>2. LoaderInv /\ [LoaderNext]_loaderVars => LoaderInv'
  <2> SUFFICES ASSUME LoaderInv, [LoaderNext]_loaderVars
               PROVE  LoaderInv'
    OBVIOUS
  <2>1. CASE Load
    <3>1. program' = program /\ machine' = machine
      BY <2>1 DEF Load
    <3>2. CASE Accepted(program, machine)
      BY <2>1, <3>1, <3>2 DEF Load, LoaderInv
    <3>3. CASE ~Accepted(program, machine)
      BY <2>1, <3>1, <3>3 DEF Load, LoaderInv
    <3> QED
      BY <3>2, <3>3
  <2>2. ASSUME NEW p \in Positions, Complete(p)
        PROVE  LoaderInv'
    <3>1. program' = program /\ machine' = machine /\ state' = state /\ offered' = offered
      BY <2>2 DEF Complete
    <3> QED
      BY <3>1 DEF LoaderInv
  <2>3. CASE UNCHANGED loaderVars
    <3>1. program' = program /\ machine' = machine /\ state' = state /\ offered' = offered
      BY <2>3 DEF loaderVars
    <3> QED
      BY <3>1 DEF LoaderInv
  <2> QED
    BY <2>1, <2>2, <2>3 DEF LoaderNext
<1> QED
  BY <1>1, <1>2, PTL DEF LoaderSpec

\* A program that loads has no dead end: a learner who can do nothing more has done
\* every lesson offered that builds on offered lessons only.  The first lesson left
\* would have its prerequisites, which come earlier, done.
THEOREM LoadedProgramHasNoDeadEnd ==
  ASSUME NEW programs
  PROVE  LoaderSpec(programs) => []NoDeadEnd
<1>1. LoaderInv => NoDeadEnd
  <2> SUFFICES ASSUME LoaderInv, state = "serving",
                      \A p \in offered \ done : ~(Range(program[p].prerequisites) \subseteq done),
                      NEW p \in offered, p \notin done, Below(p) \subseteq offered
               PROVE  FALSE
    BY DEF NoDeadEnd
  <2> DEFINE T == {x \in {p} \cup Below(p) : x \notin done}
  <2>1. /\ offered \subseteq Positions /\ Positions \subseteq Nat
        /\ \A x \in Positions : \A q \in Range(program[x].prerequisites) :
             q \in Positions /\ q < x
    BY LoaderAssumption DEF LoaderInv, Accepted, PointsBackwards, Positions
  <2> HIDE DEF Positions
  <2>2. T \in SUBSET Positions /\ p \in T
    BY <2>1
  <2>3. PICK m \in T : \A k \in T : m <= k
    BY <2>2, FirstPosition
  <2>4. m \in offered \ done /\ m \in Positions
    BY <2>1, <2>3
  <2>5. PICK q \in Range(program[m].prerequisites) : q \notin done
    BY <2>4
  <2>6. q \in Positions /\ q < m
    BY <2>1, <2>4
  <2>7. q \in Below(p)
    BY <2>1, <2>3, <2>6, BelowClosed
  <2>8. m <= q
    BY <2>3, <2>5, <2>7
  <2> QED
    BY <2>1, <2>4, <2>6, <2>8
<1> QED
  BY <1>1, LoaderInvariance, PTL

--------------------------------------------------------------------------------
(* behavior_probe: any lesson that uses it, any fault, probe and DUT in any order. *)

ProbeSpec == ProbeInit(ProbeLessons, Faults) /\ [][ProbeNext]_probeVars

\* The faults of fault_manifest.json and the command line, and "none".
FaultsKnown == Faults \subseteq {"none", "delay", "malformed", "drop", "exit", "hang"}

Talking == {"start", "send", "read"}

\* Request n is somewhere between the probe's send and its read, and alone there.
InFlight(n) ==
  \/ inbox = <<n>> /\ serving = 0 /\ outbox = <<>>
  \/ inbox = <<>> /\ serving = n /\ outbox = <<>>
  \/ inbox = <<>> /\ serving = 0 /\ Len(outbox) = 1 /\ outbox[1].for = n

\* Where the probe is in its lesson.
PlaceInv ==
  /\ lesson \in ProbeLessons /\ fault \in Faults
  /\ step \in Nat \ {0}
  /\ phase \in Talking \cup {"log", "done"}
  /\ phase = "start" => step = 1
  /\ phase \in {"send", "read"} => step <= Len(lesson.steps)
  /\ DOMAIN accepted = 1..2
  /\ probeVerdict = "passed" => phase = "done" /\ Judged(failures)
  /\ probeVerdict = "passed" /\ lesson.log => logged \/ "log" \in failures

\* What is under way.
PipeTyped ==
  /\ outbox \in Seq([for : Nat, json : BOOLEAN, right : BOOLEAN, slow : BOOLEAN])
  /\ inbox \in Seq(Nat)
  /\ serving \in Nat

\* As long as the reader works and the connection is open, one request is under way
\* while the probe reads, and none before it sends.
PipeInv ==
  /\ eof => fault \in {"exit", "drop"}
  /\ fault \in {"exit", "drop"} => serving = 0 /\ outbox = <<>>
  /\ ~latched /\ ~eof /\ phase \in {"start", "send"} =>
       inbox = <<>> /\ serving = 0 /\ outbox = <<>>
  /\ ~latched /\ ~eof /\ phase = "read" => InFlight(step)

\* A failure that no lesson asks for.
Unexpected == failures \ {"over budget"} # {}

\* Steps behind the probe took a line of their own, and a conversation that was cut
\* short left a failure no lesson asks for.
TakenInv ==
  /\ \A i \in DOMAIN lesson.steps :
       i < step /\ lesson.steps[i].want \in {"answer", "invalid"} => accepted[i].for = i
  /\ phase \in {"log", "done"} =>
       step > Len(lesson.steps) \/ Unexpected

ProbeInv == PlaceInv /\ PipeTyped /\ PipeInv /\ TakenInv

Wants == {"answer", "invalid", "closed", "timeout"}
Budgets == {"none", "max", "min"}

\* The lessons that run the probe have one or two steps, and only one has to go red.
LEMMA LessonsOfTheProbe ==
  ASSUME NEW l \in ProbeLessons
  PROVE  /\ l.steps \in Seq([want : Wants, budget : Budgets])
         /\ Len(l.steps) \in 1..2
         /\ DOMAIN l.steps = 1..Len(l.steps)
         /\ l.expectFailure \in BOOLEAN
         /\ l.expectFailure => l = SymptomLesson
<1> DEFINE Expectation == [want : Wants, budget : Budgets]
           Fine(s) == s \in Seq(Expectation) /\ Len(s) \in 1..2 /\ DOMAIN s = 1..Len(s)
           Short(p) == Fine(p.steps) /\ p.expectFailure \in BOOLEAN
<1>1. {Step("answer", "max"), Step("answer", "none"), Step("answer", "min"),
       Step("invalid", "none"), Step("closed", "none"), Step("timeout", "none")}
        \subseteq Expectation
  <2>1. \A want \in Wants, budget \in Budgets : Step(want, budget) \in Expectation
    BY DEF Step
  <2> HIDE DEF Expectation
  <2> QED
    BY <2>1 DEF Wants, Budgets
<1>2. /\ \A e \in Expectation : Fine(<<e>>)
      /\ \A e, f \in Expectation : Fine(<<e, f>>)
  OBVIOUS
<1>3. \A steps, log, expectFailure :
        Probe(steps, log, expectFailure).steps = steps
        /\ Probe(steps, log, expectFailure).expectFailure = expectFailure
  BY DEF Probe
<1> HIDE DEF Expectation, Fine
<1>4. \A e \in Expectation : \A log, expectFailure \in BOOLEAN :
        /\ Short(Probe(<<e>>, log, expectFailure))
        /\ Probe(<<e>>, log, expectFailure).expectFailure = expectFailure
  BY <1>2, <1>3
<1>5. \A e, f \in Expectation : \A log, expectFailure \in BOOLEAN :
        /\ Short(Probe(<<e, f>>, log, expectFailure))
        /\ Probe(<<e, f>>, log, expectFailure).expectFailure = expectFailure
  BY <1>2, <1>3
<1> HIDE DEF Short
<1>6. Short(StatusLesson) /\ StatusLesson.expectFailure = FALSE
  BY <1>1, <1>4 DEF StatusLesson
<1>7. Short(CounterLesson) /\ CounterLesson.expectFailure = FALSE
  BY <1>1, <1>5 DEF CounterLesson
<1>8. Short(DelayLesson) /\ DelayLesson.expectFailure = FALSE
  BY <1>1, <1>4 DEF DelayLesson
<1>9. Short(MalformedLesson) /\ MalformedLesson.expectFailure = FALSE
  BY <1>1, <1>4 DEF MalformedLesson
<1>10. Short(DropLesson) /\ DropLesson.expectFailure = FALSE
  BY <1>1, <1>4 DEF DropLesson
<1>11. Short(SymptomLesson)
  BY <1>1, <1>4 DEF SymptomLesson
<1>12. Short(SilenceThenAnswer) /\ SilenceThenAnswer.expectFailure = FALSE
  BY <1>1, <1>5 DEF SilenceThenAnswer
<1>13. Short(l) /\ (l.expectFailure => l = SymptomLesson)
  BY <1>6, <1>7, <1>8, <1>9, <1>10, <1>11, <1>12 DEF ProbeLessons
<1> QED
  BY <1>13 DEF Short, Fine, Expectation

\* The DUT's steps keep the probe's place, and the pipe.
LEMMA DutKeepsProbeInv ==
  ASSUME ProbeInv,
         DutStarts \/ DutTakes \/ \E right, slow \in BOOLEAN : DutAnswers(right, slow)
  PROVE  ProbeInv'
<1> DEFINE Line == [for : Nat, json : BOOLEAN, right : BOOLEAN, slow : BOOLEAN]
<1>1. /\ UNCHANGED <<lesson, fault, step, phase, latched, failures, accepted, probeVerdict>>
      /\ logged => logged'
  <2> DEFINE Kept ==
        /\ UNCHANGED <<lesson, fault, step, phase, latched, failures, accepted, probeVerdict>>
        /\ logged => logged'
  <2>1. DutStarts => Kept
    BY DEF DutStarts
  <2>2. DutTakes => Kept
    BY DEF DutTakes
  <2>3. \A right, slow \in BOOLEAN : DutAnswers(right, slow) => Kept
    BY DEF DutAnswers
  <2> QED
    BY <2>1, <2>2, <2>3
<1>2. PlaceInv'
  <2>1. Judged(failures)' <=> Judged(failures)
    BY <1>1 DEF Judged
  <2> QED
    BY <1>1, <2>1 DEF ProbeInv, PlaceInv
<1>3. TakenInv'
  BY <1>1 DEF ProbeInv, TakenInv, Unexpected
<1>4. PipeTyped' /\ PipeInv'
  <2>1. CASE DutStarts
    BY <1>1, <2>1 DEF DutStarts, ProbeInv, PipeTyped, PipeInv, InFlight
  <2>2. CASE DutTakes
    <3>1. /\ Head(inbox) \in Nat /\ Tail(inbox) \in Seq(Nat)
          /\ inbox' = Tail(inbox) /\ outbox' = outbox
          /\ serving = 0 /\ ~eof /\ inbox # <<>>
      BY <2>2 DEF DutTakes, ProbeInv, PipeTyped
    <3>2. serving' \in Nat
      BY <2>2, <3>1 DEF DutTakes
    <3>3. PipeTyped'
      BY <3>1, <3>2 DEF ProbeInv, PipeTyped
    <3>4. CASE fault \in {"exit", "drop"}
      <4>1. serving' = 0 /\ eof' /\ outbox = <<>>
        BY <2>2, <3>4 DEF DutTakes, ProbeInv, PipeInv
      <4> QED
        BY <1>1, <3>1, <3>3, <3>4, <4>1 DEF PipeInv
    <3>5. CASE fault \notin {"exit", "drop"}
      <4>1. serving' = Head(inbox) /\ ~eof'
        BY <2>2, <3>5 DEF DutTakes
      <4>2. ASSUME inbox = <<step>> PROVE Head(inbox) = step /\ Tail(inbox) = <<>>
        BY <4>2
      <4>3. ~latched => phase \notin {"start", "send"}
        BY <3>1 DEF ProbeInv, PipeInv
      <4>4. ~latched /\ phase = "read" => InFlight(step)'
        BY <1>1, <3>1, <4>1, <4>2 DEF ProbeInv, PipeInv, InFlight
      <4> QED
        BY <1>1, <3>3, <3>5, <4>1, <4>3, <4>4 DEF PipeInv
    <3> QED
      BY <3>4, <3>5
  <2>3. ASSUME NEW right \in BOOLEAN, NEW slow \in BOOLEAN, DutAnswers(right, slow)
        PROVE  PipeTyped' /\ PipeInv'
    <3> DEFINE line == [for |-> serving, json |-> fault # "malformed",
                        right |-> right, slow |-> slow]
    <3>1. /\ outbox' = Append(outbox, line) /\ serving' = 0 /\ serving # 0
          /\ inbox' = inbox /\ eof' = eof
      BY <2>3 DEF DutAnswers
    <3>2. line \in Line /\ line.for = serving
      BY DEF ProbeInv, PipeTyped
    <3> HIDE DEF line
    <3>3. PipeTyped'
      BY <3>1, <3>2 DEF ProbeInv, PipeTyped
    <3>4. outbox = <<>> => Len(outbox') = 1 /\ outbox'[1] = line
      BY <3>1, <3>2
    <3>5. ~eof /\ fault \notin {"exit", "drop"}
      BY <3>1 DEF ProbeInv, PipeInv
    <3>6. ~latched => phase \notin {"start", "send"}
      BY <3>1, <3>5 DEF ProbeInv, PipeInv
    <3>7. ~latched /\ phase = "read" => InFlight(step)'
      BY <1>1, <3>1, <3>2, <3>4, <3>5 DEF ProbeInv, PipeInv, InFlight
    <3> QED
      BY <1>1, <3>1, <3>3, <3>5, <3>6, <3>7 DEF PipeInv
  <2> QED
    BY <2>1, <2>2, <2>3
<1> QED
  BY <1>2, <1>3, <1>4 DEF ProbeInv

\* A verdict is given only at the end.
LEMMA TalkingIsUndecided ==
  ASSUME ProbeInv, phase # "done"
  PROVE  probeVerdict # "passed"
BY DEF ProbeInv, PlaceInv

\* Ways to move on: the next step, or to leave with a failure that no lesson asks for.
MovesOn ==
  \/ phase = "start" /\ ToStep(1)
  \/ phase = "read" /\ ToStep(step + 1)
  \/ Leave /\ Unexpected'
  \/ phase = "send" /\ phase' = "read" /\ step' = step

\* Where moving on leads.
LEMMA MovingOn ==
  ASSUME ProbeInv, phase \in {"start", "send", "read"}, MovesOn
  PROVE  /\ step' \in Nat \ {0}
         /\ phase' \in {"send", "read", "log"}
         /\ phase' = "send" => step' <= Len(lesson.steps)
         /\ phase' = "read" => phase = "send" /\ step' = step
         /\ phase' = "log" => step' > Len(lesson.steps) \/ Unexpected'
<1> DEFINE L == Len(lesson.steps)
<1>1. L \in 1..2
  BY LessonsOfTheProbe DEF ProbeInv, PlaceInv
<1>2. step \in Nat \ {0} /\ (phase = "start" => step = 1)
  BY DEF ProbeInv, PlaceInv
<1> HIDE DEF L
<1> DEFINE Far == /\ step' \in Nat \ {0}
                  /\ phase' \in {"send", "read", "log"}
                  /\ phase' = "send" => step' <= L
                  /\ phase' = "read" => phase = "send" /\ step' = step
                  /\ phase' = "log" => step' > L \/ Unexpected'
<1>3. ASSUME NEW n \in Nat \ {0}, step' = n, phase' = IF n > L THEN "log" ELSE "send"
      PROVE  Far
  BY <1>1, <1>3
<1>4. phase = "start" /\ ToStep(1) => Far
  BY <1>3 DEF ToStep, L
<1>5. phase = "read" /\ ToStep(step + 1) => Far
  BY <1>2, <1>3 DEF ToStep, L
<1>6. Leave /\ Unexpected' => Far
  BY <1>2 DEF Leave
<1>7. phase = "send" /\ phase' = "read" /\ step' = step => Far
  BY <1>2
<1> QED
  BY <1>4, <1>5, <1>6, <1>7 DEF MovesOn, L

\* Whichever way, the place is kept.
LEMMA MovingOnKeepsPlace ==
  ASSUME ProbeInv, phase \in {"start", "send", "read"}, MovesOn,
         UNCHANGED <<lesson, fault, probeVerdict>>, DOMAIN accepted' = 1..2
  PROVE  PlaceInv'
<1>1. probeVerdict' # "passed"
  BY TalkingIsUndecided
<1>2. lesson' \in ProbeLessons /\ fault' \in Faults /\ lesson' = lesson
  BY DEF ProbeInv, PlaceInv
<1>3. phase = "send" => step <= Len(lesson.steps)
  BY DEF ProbeInv, PlaceInv
<1>4. phase' \in {"send", "read"} => step' <= Len(lesson.steps)
  BY <1>3, MovingOn
<1>5. step' \in Nat \ {0} /\ phase' \in {"send", "read", "log"}
  BY MovingOn
<1> QED
  BY <1>1, <1>2, <1>4, <1>5 DEF PlaceInv, Talking

\* The probe's steps before the log keep the invariant.
LEMMA ProbeKeepsProbeInv ==
  ASSUME ProbeInv,
         ProbeConnects \/ ProbeSends \/ ProbeTimesOut \/ ProbeReadsEnd \/ ProbeReads
  PROVE  ProbeInv'
<1>1. Leave /\ (\E kind \in {"not ready", "send", "timed out", "closed"} :
                  failures' = failures \cup {kind}) => MovesOn
  BY DEF MovesOn, Unexpected
<1>2. CASE ProbeConnects
  <2>1. phase = "start" /\ MovesOn
    BY <1>1, <1>2 DEF ProbeConnects, MovesOn
  <2>2. UNCHANGED <<lesson, fault, inbox, serving, outbox, eof, latched, accepted, probeVerdict>>
    BY <1>2 DEF ProbeConnects, dutVars
  <2>3. PlaceInv' /\ PipeTyped'
    BY <2>1, <2>2, MovingOnKeepsPlace DEF ProbeInv, PlaceInv, PipeTyped
  <2>4. PipeInv'
    BY <2>1, <2>2, MovingOn DEF ProbeInv, PipeInv
  <2>5. step' = 1
    BY <1>2 DEF ProbeConnects, ToStep, Leave, ProbeInv, PlaceInv
  <2>6. TakenInv'
    <3>1. \A i \in DOMAIN lesson.steps : ~(i < 1)
      BY LessonsOfTheProbe DEF ProbeInv, PlaceInv
    <3> QED
      BY <2>1, <2>2, <2>5, <3>1, MovingOn DEF TakenInv
  <2> QED
    BY <2>3, <2>4, <2>6 DEF ProbeInv
<1>3. CASE ProbeSends
  <2>1. phase = "send" /\ MovesOn
    BY <1>1, <1>3 DEF ProbeSends, MovesOn
  <2>2. UNCHANGED <<lesson, fault, serving, outbox, eof, latched, accepted, probeVerdict>>
    BY <1>3 DEF ProbeSends
  <2>3. step' = step
    BY <1>3 DEF ProbeSends, Leave
  <2>4. phase' = "read" => inbox' = Append(inbox, step)
    BY <1>3 DEF ProbeSends, Leave
  <2>5. inbox' \in Seq(Nat)
    <3>1. inbox' = inbox \/ inbox' = Append(inbox, step)
      BY <1>3 DEF ProbeSends
    <3>2. inbox \in Seq(Nat) /\ step \in Nat
      BY DEF ProbeInv, PipeTyped, PlaceInv
    <3> QED
      BY <3>1, <3>2
  <2>6. PlaceInv' /\ PipeTyped'
    BY <2>1, <2>2, <2>5, MovingOnKeepsPlace DEF ProbeInv, PlaceInv, PipeTyped
  <2>7. PipeInv'
    <3>1. inbox = <<>> => Append(inbox, step) = <<step>>
      OBVIOUS
    <3>2. phase' \in {"read", "log"}
      BY <1>3 DEF ProbeSends, Leave
    <3> QED
      BY <2>1, <2>2, <2>3, <2>4, <3>1, <3>2 DEF ProbeInv, PipeInv, InFlight
  <2>8. TakenInv'
    BY <2>1, <2>2, <2>3, MovingOn DEF ProbeInv, TakenInv
  <2> QED
    BY <2>6, <2>7, <2>8 DEF ProbeInv
<1>4. CASE ProbeTimesOut \/ ProbeReadsEnd
  <2>1. phase = "read" /\ MovesOn
    BY <1>1, <1>4 DEF ProbeTimesOut, ProbeReadsEnd, MovesOn
  <2>2. UNCHANGED <<lesson, fault, inbox, serving, outbox, eof, accepted, probeVerdict>>
    BY <1>4 DEF ProbeTimesOut, ProbeReadsEnd, dutVars
  <2>3. latched' \/ eof'
    BY <1>4, <2>2 DEF ProbeTimesOut, ProbeReadsEnd
  <2>4. step' # step => step' = step + 1 /\ Want \in {"timeout", "closed"}
    BY <1>4 DEF ProbeTimesOut, ProbeReadsEnd, ToStep, Leave
  <2>5. PlaceInv' /\ PipeTyped'
    BY <2>1, <2>2, MovingOnKeepsPlace DEF ProbeInv, PlaceInv, PipeTyped
  <2>6. PipeInv'
    BY <2>2, <2>3 DEF ProbeInv, PipeInv
  <2>7. TakenInv'
    <3>1. ASSUME NEW i \in DOMAIN lesson.steps, i < step',
                 lesson.steps[i].want \in {"answer", "invalid"}
          PROVE  accepted[i].for = i
      <4>1. i \in Nat /\ step \in Nat
        BY LessonsOfTheProbe DEF ProbeInv, PlaceInv
      <4>2. i < step \/ i = step
        BY <2>4, <3>1, <4>1
      <4>3. i # step \/ step' = step
        BY <2>4, <3>1 DEF Want
      <4>4. i < step
        BY <3>1, <4>1, <4>2, <4>3
      <4> QED
        BY <3>1, <4>4 DEF ProbeInv, TakenInv
    <3> QED
      BY <2>1, <2>2, <3>1, MovingOn DEF TakenInv
  <2> QED
    BY <2>5, <2>6, <2>7 DEF ProbeInv
<1>5. CASE ProbeReads
  <2>1. phase = "read" /\ MovesOn
    BY <1>5 DEF ProbeReads, MovesOn
  <2>2. UNCHANGED <<lesson, fault, inbox, serving, eof, latched, probeVerdict>>
        /\ outbox' = Tail(outbox) /\ outbox # <<>>
        /\ accepted' = [accepted EXCEPT ![step] = Head(outbox)]
    BY <1>5 DEF ProbeReads
  <2>3. ~latched /\ ~eof
    BY <1>5 DEF ProbeReads, ReadRaises, ProbeInv, PipeInv
  <2>4. step' = step + 1
    BY <1>5 DEF ProbeReads, ToStep
  <2>5. step \in 1..2
    <3> DEFINE L == Len(lesson.steps)
    <3>1. step \in Nat \ {0} /\ step <= L
      BY <2>1 DEF ProbeInv, PlaceInv
    <3>2. L \in 1..2
      BY LessonsOfTheProbe DEF ProbeInv, PlaceInv
    <3> HIDE DEF L
    <3> QED
      BY <3>1, <3>2
  <2>6. DOMAIN accepted' = 1..2 /\ accepted'[step] = Head(outbox)
        /\ \A i \in 1..2 : i # step => accepted'[i] = accepted[i]
    BY <2>2, <2>5 DEF ProbeInv, PlaceInv
  <2>7. outbox' \in Seq([for : Nat, json : BOOLEAN, right : BOOLEAN, slow : BOOLEAN])
    BY <2>2 DEF ProbeInv, PipeTyped
  <2>8. PlaceInv' /\ PipeTyped'
    BY <2>1, <2>2, <2>6, <2>7, MovingOnKeepsPlace DEF ProbeInv, PipeTyped
  <2>9. inbox = <<>> /\ serving = 0 /\ Len(outbox) = 1 /\ outbox[1].for = step
    BY <2>1, <2>2, <2>3 DEF ProbeInv, PipeInv, InFlight
  <2>10. outbox' = <<>> /\ Head(outbox).for = step
    BY <2>2, <2>9 DEF ProbeInv, PipeTyped
  <2>11. PipeInv'
    BY <2>1, <2>2, <2>9, <2>10, MovingOn DEF ProbeInv, PipeInv
  <2>12. TakenInv'
    <3>1. ASSUME NEW i \in DOMAIN lesson.steps, i < step',
                 lesson.steps[i].want \in {"answer", "invalid"}
          PROVE  accepted'[i].for = i
      <4>1. i \in 1..2
        BY LessonsOfTheProbe DEF ProbeInv, PlaceInv
      <4>2. CASE i = step
        BY <2>6, <2>10, <4>2
      <4>3. CASE i # step
        <5>1. i < step
          BY <2>4, <2>5, <3>1, <4>1, <4>3
        <5> QED
          BY <2>6, <3>1, <4>1, <4>3, <5>1 DEF ProbeInv, TakenInv
      <4> QED
        BY <4>2, <4>3
    <3> QED
      BY <2>1, <2>2, <3>1, MovingOn DEF TakenInv
  <2> QED
    BY <2>8, <2>11, <2>12 DEF ProbeInv
<1> QED
  BY <1>2, <1>3, <1>4, <1>5

\* The verdict.
LEMMA JudgingKeepsProbeInv ==
  ASSUME ProbeInv, NEW overrun \in BOOLEAN, ProbeJudges(overrun)
  PROVE  ProbeInv'
<1>1. /\ phase = "log" /\ phase' = "done"
      /\ UNCHANGED <<lesson, fault, inbox, serving, outbox, eof, logged, step, latched, accepted>>
      /\ failures' = failures \cup (IF lesson.log /\ ~logged THEN {"log"} ELSE {})
                              \cup (IF overrun THEN {"overrun"} ELSE {})
      /\ probeVerdict' = IF Judged(failures') THEN "passed" ELSE "failed"
  BY DEF ProbeJudges
<1>2. probeVerdict' = "passed" => Judged(failures)'
  <2>1. Judged(failures') <=> Judged(failures)'
    BY <1>1 DEF Judged
  <2> QED
    BY <1>1, <2>1
<1>3. lesson.log => logged \/ "log" \in failures'
  BY <1>1
<1>4. PlaceInv'
  BY <1>1, <1>2, <1>3 DEF ProbeInv, PlaceInv, Talking
<1>5. PipeTyped' /\ PipeInv'
  BY <1>1 DEF ProbeInv, PipeTyped, PipeInv
<1>6. Unexpected => Unexpected'
  BY <1>1 DEF Unexpected
<1>7. TakenInv'
  BY <1>1, <1>6 DEF ProbeInv, TakenInv
<1> QED
  BY <1>4, <1>5, <1>7 DEF ProbeInv

\* The invariant of a conversation, for every lesson that uses the probe, every fault
\* and every order of the two sides' steps.
THEOREM ProbeInvariance == ProbeSpec => []ProbeInv
<1>1. ProbeInit(ProbeLessons, Faults) => ProbeInv
  <2> SUFFICES ASSUME ProbeInit(ProbeLessons, Faults)
               PROVE  ProbeInv
    OBVIOUS
  <2>1. \A i \in DOMAIN lesson.steps : ~(i < 1)
    BY LessonsOfTheProbe DEF ProbeInit
  <2>2. PlaceInv
    BY DEF ProbeInit, PlaceInv, Talking
  <2>3. PipeTyped /\ PipeInv
    BY DEF ProbeInit, PipeTyped, PipeInv
  <2>4. TakenInv
    BY <2>1 DEF ProbeInit, TakenInv
  <2> QED
    BY <2>2, <2>3, <2>4 DEF ProbeInv
<1>2. ProbeInv /\ [ProbeNext]_probeVars => ProbeInv'
  <2> SUFFICES ASSUME ProbeInv, [ProbeNext]_probeVars
               PROVE  ProbeInv'
    OBVIOUS
  <2>1. CASE UNCHANGED probeVars
    <3>1. /\ Judged(failures)' <=> Judged(failures)
          /\ InFlight(step)' <=> InFlight(step)
          /\ Unexpected' <=> Unexpected
      BY <2>1 DEF probeVars, Judged, InFlight, Unexpected
    <3> QED
      BY <2>1, <3>1 DEF probeVars, ProbeInv, PlaceInv, PipeTyped, PipeInv, TakenInv
  <2> QED
    BY <2>1, DutKeepsProbeInv, ProbeKeepsProbeInv, JudgingKeepsProbeInv DEF ProbeNext
<1> QED
  BY <1>1, <1>2, PTL DEF ProbeSpec

\* A line read late never counts for another step: in a run that passed, every reply
\* that was checked answers the request of the step that checked it.
THEOREM RepliesAreForTheirSteps == ProbeSpec => []CheckedReplyIsForItsStep
<1>1. ProbeInv => CheckedReplyIsForItsStep
  <2> SUFFICES ASSUME ProbeInv, probeVerdict = "passed",
                      NEW i \in DOMAIN lesson.steps,
                      lesson.steps[i].want \in {"answer", "invalid"}
               PROVE  accepted[i].for = i
    BY DEF CheckedReplyIsForItsStep
  <2>1. phase = "done" /\ Judged(failures)
    BY DEF ProbeInv, PlaceInv
  <2>2. ~Unexpected
    BY <2>1 DEF Judged, Unexpected
  <2>3. step > Len(lesson.steps)
    BY <2>1, <2>2 DEF ProbeInv, TakenInv
  <2> DEFINE L == Len(lesson.steps)
  <2>4. L \in 1..2 /\ i \in 1..L /\ step \in Nat /\ step > L
    BY <2>3, LessonsOfTheProbe DEF ProbeInv, PlaceInv
  <2> HIDE DEF L
  <2>5. i < step
    BY <2>4
  <2> QED
    BY <2>5 DEF ProbeInv, TakenInv
<1> QED
  BY <1>1, ProbeInvariance, PTL

\* What a line says of the fault behind it.
Tells(line) == line.json = (fault # "malformed") /\ fault # "hang"

\* A DUT that hangs answers nothing, a log entry means a fault, and lines are as the
\* fault makes them.
FaultInv ==
  /\ logged => fault # "none"
  /\ serving # 0 => dut # "starting" /\ (dut = "serving" => fault # "hang")
  /\ \A i \in DOMAIN outbox : Tells(outbox[i])

\* In a lesson that has to go red nothing is wrong until the one reply is read, and
\* "over budget" is said of a slow line that is JSON, a wrong payload beside it.
SymptomInv ==
  lesson.expectFailure =>
    /\ phase \in Talking => failures = {}
    /\ "over budget" \in failures =>
         /\ fault \notin {"malformed", "hang", "exit", "drop"}
         /\ accepted[1].slow /\ (accepted[1].right \/ "payload" \in failures)

\* The lesson that has to go red.
LEMMA TheSymptomLesson ==
  ASSUME ProbeInv, lesson.expectFailure
  PROVE  /\ Len(lesson.steps) = 1 /\ lesson.steps[1].want = "answer"
         /\ lesson.steps[1].budget = "max" /\ lesson.log
<1>1. lesson = SymptomLesson
  BY LessonsOfTheProbe DEF ProbeInv, PlaceInv
<1>2. SymptomLesson.steps = <<Step("answer", "max")>> /\ SymptomLesson.log
  BY DEF SymptomLesson, Probe
<1>3. Step("answer", "max").want = "answer" /\ Step("answer", "max").budget = "max"
  BY DEF Step
<1> QED
  BY <1>1, <1>2, <1>3

\* Each step keeps the two.
LEMMA FaultStep ==
  ASSUME ProbeInv, FaultInv, [ProbeNext]_probeVars
  PROVE  FaultInv'
<1>1. CASE DutStarts
  BY <1>1 DEF DutStarts, FaultInv, Tells
<1>2. CASE DutTakes
  <2>1. /\ UNCHANGED <<fault, outbox>> /\ dut = "serving"
        /\ dut' = CASE fault = "exit" -> "exited" [] fault = "hang" -> "hung" [] OTHER -> dut
        /\ logged' = (logged \/ fault # "none")
    BY <1>2 DEF DutTakes
  <2>2. dut' \in {"exited", "hung", "serving"} /\ (fault = "hang" => dut' = "hung")
    BY <2>1
  <2> QED
    BY <2>1, <2>2 DEF FaultInv, Tells
<1>3. ASSUME NEW right \in BOOLEAN, NEW slow \in BOOLEAN, DutAnswers(right, slow)
      PROVE  FaultInv'
  <2> DEFINE line == [for |-> serving, json |-> fault # "malformed",
                      right |-> right, slow |-> slow]
  <2>1. /\ outbox' = Append(outbox, line) /\ serving' = 0
        /\ dut = "serving" /\ serving # 0
        /\ UNCHANGED <<fault, dut, logged>>
    BY <1>3 DEF DutAnswers
  <2>2. Tells(line)
    BY <2>1 DEF Tells, FaultInv
  <2> HIDE DEF line
  <2>3. \A i \in DOMAIN outbox' : (i \in DOMAIN outbox /\ outbox'[i] = outbox[i]) \/ outbox'[i] = line
    <3>1. PICK S : outbox \in Seq(S)
      BY DEF ProbeInv, PipeTyped
    <3>2. /\ DOMAIN outbox = 1..Len(outbox) /\ Len(outbox) \in Nat
          /\ DOMAIN Append(outbox, line) = 1..(Len(outbox) + 1)
          /\ \A i \in 1..Len(outbox) : Append(outbox, line)[i] = outbox[i]
          /\ Append(outbox, line)[Len(outbox) + 1] = line
      BY <3>1
    <3> QED
      BY <2>1, <3>2
  <2>4. \A l : Tells(l)' <=> Tells(l)
    BY <2>1 DEF Tells
  <2>5. \A i \in DOMAIN outbox' : Tells(outbox'[i])
    BY <2>2, <2>3 DEF FaultInv
  <2> QED
    BY <2>1, <2>5 DEF FaultInv, Tells
<1>4. CASE ProbeConnects \/ ProbeTimesOut \/ ProbeReadsEnd
  <2>1. UNCHANGED dutVars
    BY <1>4 DEF ProbeConnects, ProbeTimesOut, ProbeReadsEnd
  <2> QED
    BY <2>1 DEF dutVars, FaultInv, Tells
<1>5. CASE ProbeSends
  BY <1>5 DEF ProbeSends, FaultInv, Tells
<1>6. CASE ProbeReads
  <2>1. outbox' = Tail(outbox) /\ outbox # <<>> /\ UNCHANGED <<fault, dut, serving, logged>>
    BY <1>6 DEF ProbeReads
  <2>2. \A i \in DOMAIN outbox' : i + 1 \in DOMAIN outbox /\ outbox'[i] = outbox[i + 1]
    BY <2>1 DEF ProbeInv, PipeTyped
  <2> QED
    BY <2>1, <2>2 DEF FaultInv, Tells
<1>7. ASSUME NEW overrun \in BOOLEAN, ProbeJudges(overrun)
      PROVE  FaultInv'
  BY <1>7 DEF ProbeJudges, FaultInv, Tells
<1>8. CASE UNCHANGED probeVars
  BY <1>8 DEF probeVars, FaultInv, Tells
<1> QED
  BY <1>1, <1>2, <1>3, <1>4, <1>5, <1>6, <1>7, <1>8 DEF ProbeNext

\* Each step keeps the symptom's invariant.
LEMMA SymptomStep ==
  ASSUME ProbeInv, FaultInv, SymptomInv, [ProbeNext]_probeVars
  PROVE  SymptomInv'
<1> DEFINE Red == /\ fault \notin {"malformed", "hang", "exit", "drop"}
                  /\ accepted[1].slow /\ (accepted[1].right \/ "payload" \in failures)
<1>1. UNCHANGED <<lesson, fault>>
  BY DEF ProbeNext, DutStarts, DutTakes, DutAnswers, ProbeConnects, ProbeSends, ProbeTimesOut,
         ProbeReadsEnd, ProbeReads, ProbeJudges, dutVars, probeVars
<1> SUFFICES ASSUME lesson.expectFailure
             PROVE  /\ phase' \in Talking => failures' = {}
                    /\ "over budget" \in failures' => Red'
  BY <1>1 DEF SymptomInv
<1>2. /\ phase \in Talking => failures = {}
      /\ "over budget" \in failures => Red
  BY DEF SymptomInv
<1>3. CASE UNCHANGED <<phase, failures, accepted>>
  BY <1>1, <1>2, <1>3
<1>4. CASE DutStarts \/ DutTakes \/ (\E right, slow \in BOOLEAN : DutAnswers(right, slow))
           \/ UNCHANGED probeVars
  <2>1. UNCHANGED <<phase, failures, accepted>>
    BY <1>4 DEF DutStarts, DutTakes, DutAnswers, probeVars
  <2> QED
    BY <2>1, <1>3
<1>5. ASSUME phase \in Talking, phase' = "log" \/ failures' = failures,
             "over budget" \in failures' => "over budget" \in failures
      PROVE  /\ phase' \in Talking => failures' = {}
             /\ "over budget" \in failures' => Red'
  BY <1>2, <1>5 DEF Talking
<1>6. CASE ProbeConnects
  <2>1. phase = "start" /\ (failures' = failures
                            \/ (phase' = "log" /\ failures' = failures \cup {"not ready"}))
    <3>1. CASE dut = "serving"
      BY <1>6, <3>1 DEF ProbeConnects
    <3>2. CASE dut # "serving"
      BY <1>6, <3>2 DEF ProbeConnects, Leave
    <3> QED
      BY <3>1, <3>2
  <2>2. phase \in Talking /\ (phase' = "log" \/ failures' = failures)
    BY <2>1 DEF Talking
  <2>3. failures' \subseteq failures \cup {"not ready"} /\ "over budget" # "not ready"
    BY <2>1
  <2>4. "over budget" \in failures' => "over budget" \in failures
    BY <2>3
  <2> QED
    BY <1>5, <2>2, <2>4
<1>7. CASE ProbeSends
  <2>1. phase = "send" /\ (failures' = failures
                           \/ (phase' = "log" /\ failures' = failures \cup {"send"}))
    <3>1. phase = "send"
      BY <1>7 DEF ProbeSends
    <3>2. UNCHANGED failures \/ (Leave /\ failures' = failures \cup {"send"})
      BY <1>7 DEF ProbeSends
    <3> QED
      BY <3>1, <3>2 DEF Leave
  <2>2. phase \in Talking /\ (phase' = "log" \/ failures' = failures)
    BY <2>1 DEF Talking
  <2>3. failures' \subseteq failures \cup {"send"} /\ "over budget" # "send"
    BY <2>1
  <2>4. "over budget" \in failures' => "over budget" \in failures
    BY <2>3
  <2> QED
    BY <1>5, <2>2, <2>4
<1>8. CASE ProbeTimesOut \/ ProbeReadsEnd
  <2>1. /\ phase = "read"
        /\ \/ failures' = failures
           \/ /\ phase' = "log"
              /\ failures' \subseteq failures \cup {"timed out", "closed"}
    BY <1>8 DEF ProbeTimesOut, ProbeReadsEnd, Leave
  <2> QED
    BY <1>5, <2>1 DEF Talking
<1>9. CASE ProbeReads
  <2>1. phase = "read" /\ outbox # <<>> /\ accepted' = [accepted EXCEPT ![step] = Head(outbox)]
        /\ failures' = failures \cup Misses(Head(outbox), Want, lesson.steps[step].budget)
    BY <1>9 DEF ProbeReads
  <2>2. step = 1 /\ Want = "answer" /\ lesson.steps[step].budget = "max"
    <3> DEFINE L == Len(lesson.steps)
    <3>1. step \in Nat \ {0} /\ step <= L
      BY <2>1 DEF ProbeInv, PlaceInv
    <3>2. L = 1
      BY TheSymptomLesson
    <3> HIDE DEF L
    <3>3. step = 1
      BY <3>1, <3>2
    <3> QED
      BY <3>3, TheSymptomLesson DEF Want
  <2>3. phase' = "log"
    <3>1. ToStep(step + 1)
      BY <1>9 DEF ProbeReads
    <3>2. Len(lesson.steps) = 1 /\ step + 1 > 1
      BY <2>2, TheSymptomLesson
    <3> QED
      BY <3>1, <3>2 DEF ToStep
  <2> DEFINE line == Head(outbox)
  <2>4. accepted'[1] = line
    BY <2>1, <2>2 DEF ProbeInv, PlaceInv
  <2>5. Tells(line) /\ fault \notin {"exit", "drop"}
    <3>1. 1 \in DOMAIN outbox /\ Head(outbox) = outbox[1]
      BY <2>1 DEF ProbeInv, PipeTyped
    <3> QED
      BY <2>1, <3>1 DEF FaultInv, ProbeInv, PipeInv
  <2>6. line.json \in BOOLEAN
    BY <2>5 DEF Tells
  <2> HIDE DEF line
  <2>7. failures' = Misses(line, "answer", "max")
    BY <1>2, <2>1, <2>2 DEF line, Talking
  <2>8. "over budget" \in failures' => line.json /\ line.slow /\ (line.right \/ "payload" \in failures')
    BY <2>7 DEF Misses
  <2> QED
    BY <1>1, <2>3, <2>4, <2>5, <2>6, <2>8 DEF Talking, Tells
<1>10. ASSUME NEW overrun \in BOOLEAN, ProbeJudges(overrun)
       PROVE  /\ phase' \in Talking => failures' = {}
              /\ "over budget" \in failures' => Red'
  <2>1. phase' = "done" /\ UNCHANGED accepted
        /\ failures \subseteq failures' /\ failures' \subseteq failures \cup {"log", "overrun"}
    BY <1>10 DEF ProbeJudges
  <2> QED
    BY <1>1, <1>2, <2>1 DEF Talking
<1> QED
  BY <1>4, <1>6, <1>7, <1>8, <1>9, <1>10 DEF ProbeNext

\* A lesson that has to go red, and passed, was red because of the configured delay: no
\* other fault, no slow machine alone and no wrong payload passes it.
THEOREM RedIsTheInjectedSymptom ==
  ASSUME FaultsKnown
  PROVE  ProbeSpec => []SymptomIsInjected
<1>1. ProbeInit(ProbeLessons, Faults) => FaultInv /\ SymptomInv
  BY DEF ProbeInit, FaultInv, SymptomInv, Tells
<1>2. ProbeInv /\ FaultInv /\ SymptomInv /\ [ProbeNext]_probeVars => FaultInv' /\ SymptomInv'
  BY FaultStep, SymptomStep
<1>3. ProbeInv /\ FaultInv /\ SymptomInv => SymptomIsInjected
  <2> SUFFICES ASSUME ProbeInv, FaultInv, SymptomInv,
                      probeVerdict = "passed", lesson.expectFailure
               PROVE  fault = "delay" /\ accepted[1].right /\ accepted[1].slow
    BY DEF SymptomIsInjected
  <2>1. Judged(failures) /\ (logged \/ "log" \in failures)
    BY TheSymptomLesson DEF ProbeInv, PlaceInv
  <2>2. failures = {"over budget"}
    BY <2>1 DEF Judged
  <2>3. fault \in Faults /\ fault # "none"
    BY <2>1, <2>2 DEF ProbeInv, PlaceInv, FaultInv
  <2>4. fault \notin {"malformed", "hang", "exit", "drop"} /\ accepted[1].slow /\ accepted[1].right
    BY <2>2 DEF SymptomInv
  <2> QED
    BY <2>3, <2>4 DEF FaultsKnown
<1> QED
  BY <1>1, <1>2, <1>3, ProbeInvariance, PTL DEF ProbeSpec

--------------------------------------------------------------------------------
(* The instance lock keeps what was confirmed undisturbed, for any number of       *)
(* processes, answers, faults of the file and handler threads that outlive it.     *)

InstancesTyped ==
  /\ stage \in [Processes -> {"off", "locked", "serving", "closing", "released"}]
  /\ mem \in [Processes -> SUBSET Answers]
  /\ file \in [answers : SUBSET Answers, damaged : BOOLEAN]
  /\ temp \in [Processes -> [answer : Answers \cup {"none"}, state : SUBSET Answers]]
  /\ threads \in [Processes -> SUBSET Answers]

\* The lock is held by whoever is between taking and releasing it.
LockInv == \A p \in Processes : stage[p] \in {"locked", "serving", "closing"} => holder = p

\* What a save is about to put in place is the memory, with the answer it is for.
SaveInv ==
  \A p \in Processes :
    temp[p] # NoSave =>
      /\ stage[p] \notin {"off", "locked"}
      /\ temp[p].state = mem[p]
      /\ temp[p].answer \in mem[p]

\* Whoever can still write the file has in memory what was promised.
MemoryInv ==
  \A p \in Processes :
    stage[p] \in {"serving", "closing"} \/ TailAtWork(p) => promised \subseteq mem[p]

InstancesInv ==
  InstancesTyped /\ LockInv /\ SaveInv /\ MemoryInv /\ ConfirmedAloneSurvives

--------------------------------------------------------------------------------

\* No process, no answer, no fault.
LEMMA InstancesInitially == InstancesInit => InstancesInv
<1> SUFFICES ASSUME InstancesInit
             PROVE  InstancesInv
  OBVIOUS
<1> USE DEF InstancesInit
<1>1. InstancesTyped
  BY DEF InstancesTyped, NoSave
<1>2. LockInv /\ SaveInv
  BY DEF LockInv, SaveInv
<1>3. MemoryInv /\ ConfirmedAloneSurvives
  BY DEF MemoryInv, ConfirmedAloneSurvives
<1> QED
  BY <1>1, <1>2, <1>3 DEF InstancesInv

\* A load: what was promised is in the memory, or has just been copied, or is promised
\* no more.
LEMMA LoadPreserves ==
  ASSUME InstancesInv, NEW p \in Processes, NEW unreadable \in BOOLEAN, LoadFile(p, unreadable)
  PROVE  InstancesInv'
<1> USE DEF InstancesInv
<1>1. /\ stage[p] = "locked"
      /\ stage' = [stage EXCEPT ![p] = "serving"]
      /\ UNCHANGED <<holder, file, temp, threads, acked>>
  BY DEF LoadFile
<1>2. InstancesTyped'
  <2>1. mem' \in [Processes -> SUBSET Answers]
    BY DEF LoadFile, InstancesTyped
  <2> QED
    BY <1>1, <2>1 DEF InstancesTyped
<1>3. LockInv'
  BY <1>1 DEF LockInv, InstancesTyped
<1>4. SaveInv'
  BY <1>1 DEF SaveInv, LoadFile, InstancesTyped
<1>5. CASE ~unreadable /\ Loadable(file)
  <2>1. mem' = [mem EXCEPT ![p] = file.answers] /\ UNCHANGED <<backup, promised, copied>>
    BY <1>5 DEF LoadFile
  <2>2. ConfirmedAloneSurvives'
    BY <1>1, <2>1 DEF ConfirmedAloneSurvives
  <2>3. MemoryInv'
    BY <1>1, <2>1 DEF MemoryInv, TailAtWork, ConfirmedAloneSurvives, InstancesTyped
  <2> QED
    BY <1>2, <1>3, <1>4, <2>2, <2>3
<1>6. CASE unreadable \/ ~Loadable(file)
  <2>1. /\ promised' = {}
        /\ \/ backup' = file.answers /\ copied' = promised
           \/ UNCHANGED <<backup, copied>>
    BY <1>6 DEF LoadFile
  <2>2. ConfirmedAloneSurvives'
    BY <2>1 DEF ConfirmedAloneSurvives
  <2>3. MemoryInv'
    BY <2>1 DEF MemoryInv
  <2> QED
    BY <1>2, <1>3, <1>4, <2>2, <2>3
<1> QED
  BY <1>5, <1>6

\* The one step that changes the file.  A promise is made only when nobody else is
\* left who could write it over.
LEMMA ReplacePreserves ==
  ASSUME InstancesInv, NEW p \in Processes, Replace(p)
  PROVE  InstancesInv'
<1> USE DEF InstancesInv
<1>1. /\ temp[p] # NoSave /\ temp[p].state = mem[p] /\ temp[p].answer \in mem[p]
      /\ file' = [answers |-> mem[p], damaged |-> FALSE]
      /\ temp' = [temp EXCEPT ![p] = NoSave]
      /\ UNCHANGED <<stage, holder, mem, backup, threads, copied>>
      /\ promised' = IF Undisturbed(p) THEN promised \cup {temp[p].answer} ELSE promised
  BY DEF Replace, SaveInv
<1>2. promised \subseteq mem[p]
  BY <1>1 DEF Replace, Running, TailAtWork, MemoryInv
<1>3. promised' \subseteq mem[p]
  BY <1>1, <1>2
<1>4. InstancesTyped' /\ LockInv'
  BY <1>1 DEF InstancesTyped, LockInv, NoSave
<1>5. SaveInv'
  BY <1>1 DEF SaveInv, InstancesTyped
<1>6. ConfirmedAloneSurvives'
  BY <1>1, <1>3 DEF ConfirmedAloneSurvives
<1>7. MemoryInv'
  <2> SUFFICES ASSUME NEW q \in Processes, q # p,
                      (stage[q] \in {"serving", "closing"} \/ TailAtWork(q))'
               PROVE  promised' \subseteq mem[q]
    BY <1>1, <1>3 DEF MemoryInv
  <2>1. stage[q] \in {"serving", "closing"} \/ TailAtWork(q)
    BY <1>1 DEF TailAtWork, InstancesTyped
  <2>2. CASE Undisturbed(p)
    BY <2>1, <2>2 DEF Undisturbed, LockInv
  <2>3. CASE ~Undisturbed(p)
    BY <1>1, <2>1, <2>3 DEF MemoryInv
  <2> QED
    BY <2>2, <2>3
<1> QED
  BY <1>4, <1>5, <1>6, <1>7

\* An answer is recorded in memory and in the temp file.
LEMMA RecordPreserves ==
  ASSUME InstancesInv, NEW p \in Processes, NEW a \in Answers, Record(p, a)
  PROVE  InstancesInv'
<1> USE DEF InstancesInv
<1>1. /\ Running(p) /\ a \in threads[p]
      /\ threads' = [threads EXCEPT ![p] = threads[p] \ {a}]
      /\ mem' = [mem EXCEPT ![p] = mem[p] \cup {a}]
      /\ temp' = [temp EXCEPT ![p] = [answer |-> a, state |-> mem[p] \cup {a}]]
      /\ UNCHANGED <<stage, holder, acked, file, backup, promised, copied>>
  BY DEF Record, storage, InstancesTyped
<1>2. InstancesTyped'
  BY <1>1 DEF InstancesTyped
<1>3. SaveInv'
  BY <1>1 DEF SaveInv, Running, InstancesTyped
<1>4. LockInv' /\ ConfirmedAloneSurvives'
  BY <1>1 DEF LockInv, ConfirmedAloneSurvives
<1>5. promised \subseteq mem[p]
  BY <1>1 DEF MemoryInv, Running, TailAtWork
<1>6. MemoryInv'
  <2> SUFFICES ASSUME NEW q \in Processes, q # p,
                      (stage[q] \in {"serving", "closing"} \/ TailAtWork(q))'
               PROVE  promised \subseteq mem[q]
    BY <1>1, <1>5 DEF MemoryInv, InstancesTyped
  <2> QED
    BY <1>1 DEF MemoryInv, TailAtWork, InstancesTyped
<1> QED
  BY <1>2, <1>3, <1>4, <1>6

\* A process is gone, in order or not; its memory and its save go with it.
LEMMA EndPreserves ==
  ASSUME InstancesInv, NEW p \in Processes, Exit(p) \/ Kill(p)
  PROVE  InstancesInv'
<1> USE DEF InstancesInv
<1>1. /\ stage' = [stage EXCEPT ![p] = "off"]
      /\ mem' = [mem EXCEPT ![p] = {}]
      /\ threads' = [threads EXCEPT ![p] = {}]
      /\ temp' = [temp EXCEPT ![p] = NoSave]
      /\ holder' = holder \/ holder = p
      /\ UNCHANGED <<acked, file, backup, promised, copied>>
  BY DEF Exit, Kill, storage
<1>2. InstancesTyped'
  BY <1>1 DEF InstancesTyped, NoSave
<1>3. SaveInv' /\ LockInv'
  BY <1>1 DEF SaveInv, LockInv, InstancesTyped
<1>4. ConfirmedAloneSurvives'
  BY <1>1 DEF ConfirmedAloneSurvives
<1>5. MemoryInv'
  BY <1>1 DEF MemoryInv, TailAtWork, InstancesTyped
<1> QED
  BY <1>2, <1>3, <1>4, <1>5

\* Every step.
LEMMA InstancesPreservation == InstancesInv /\ [InstancesNext]_instanceVars => InstancesInv'
<1> SUFFICES ASSUME InstancesInv, [InstancesNext]_instanceVars
             PROVE  InstancesInv'
  OBVIOUS
<1> USE DEF InstancesInv, InstancesTyped, LockInv, SaveInv, MemoryInv, TailAtWork,
            ConfirmedAloneSurvives
<1>1. CASE DamageFile
  <2>1. /\ file' \in [answers : SUBSET Answers, damaged : BOOLEAN]
        /\ file'.answers = file.answers
        /\ UNCHANGED <<stage, holder, mem, backup, temp, threads, promised, copied>>
    BY <1>1 DEF DamageFile
  <2> QED
    BY <2>1
<1>2. ASSUME NEW p \in Processes, TryLock(p)
      PROVE  InstancesInv'
  BY <1>2, InstancesAssumption DEF TryLock, storage
<1>3. ASSUME NEW p \in Processes, NEW unreadable \in BOOLEAN, LoadFile(p, unreadable)
      PROVE  InstancesInv'
  BY <1>3, LoadPreserves
<1>4. ASSUME NEW p \in Processes, NEW a \in Answers, Submit(p, a)
      PROVE  InstancesInv'
  BY <1>4 DEF Submit, storage
<1>5. ASSUME NEW p \in Processes, NEW a \in Answers, Record(p, a)
      PROVE  InstancesInv'
  BY <1>5, RecordPreserves
<1>6. ASSUME NEW p \in Processes, Replace(p)
      PROVE  InstancesInv'
  BY <1>6, ReplacePreserves
<1>7. ASSUME NEW p \in Processes, Interrupt(p)
      PROVE  InstancesInv'
  BY <1>7 DEF Interrupt, storage
<1>8. ASSUME NEW p \in Processes, Release(p)
      PROVE  InstancesInv'
  BY <1>8 DEF Release, storage
<1>9. ASSUME NEW p \in Processes, Exit(p) \/ Kill(p)
      PROVE  InstancesInv'
  BY <1>9, EndPreserves
<1>10. CASE UNCHANGED instanceVars
  BY <1>10 DEF instanceVars
<1> QED
  BY <1>1, <1>2, <1>3, <1>4, <1>5, <1>6, <1>7, <1>8, <1>9, <1>10 DEF InstancesNext

\* What a server confirms when no earlier one has a request left to finish stays in the
\* file, and in the copy a reset makes of it: for any number of processes, answers and
\* faults, with threads that outlive the lock and copies that fail.
THEOREM NothingConfirmedAloneIsLost == InstancesSpec => []ConfirmedAloneSurvives
<1>1. InstancesInit => InstancesInv
  BY InstancesInitially
<1>2. InstancesInv /\ [InstancesNext]_instanceVars => InstancesInv'
  BY InstancesPreservation
<1>3. InstancesInv => ConfirmedAloneSurvives
  BY DEF InstancesInv
<1> QED
  BY <1>1, <1>2, <1>3, PTL DEF InstancesSpec

--------------------------------------------------------------------------------
(* The gate: any curriculum, any marks and any gates that are open.             *)

\* What load_curriculum lets through: every prerequisite is a lesson that comes before.
GraphTyped ==
  /\ prerequisites \in [Lessons -> Seq(Lessons)]
  /\ \A l \in Lessons : \A i \in DOMAIN prerequisites[l] : prerequisites[l][i] < l

\* One evaluation, given the outcome of those below it.
Evaluates(c, l, seen) ==
  /\ l \in marked
  /\ \/ l \in seen
     \/ /\ l \in open
        /\ \A i \in DOMAIN prerequisites[l] :
             c[prerequisites[l][i]][seen \cup {l} \cup AskedBefore(l, i)]

\* What _lesson_is_complete_locked passes its `seen` to is a lesson and a set of lessons.
LEMMA BelowTyped ==
  ASSUME GraphTyped, NEW l \in Lessons, NEW seen \in SUBSET Lessons, NEW i \in DOMAIN prerequisites[l]
  PROVE  /\ prerequisites[l][i] \in Lessons
         /\ seen \cup {l} \cup AskedBefore(l, i) \in SUBSET Lessons
         /\ seen \cup AskedBefore(l, i) \in SUBSET Lessons
<1>1. prerequisites[l] \in Seq(Lessons) /\ DOMAIN prerequisites[l] = 1..Len(prerequisites[l])
      /\ Len(prerequisites[l]) \in Nat
  BY DEF GraphTyped
<1>2. \A j \in DOMAIN prerequisites[l] : prerequisites[l][j] \in Lessons
  <2> HIDE DEF Lessons
  <2> QED
    BY <1>1
<1>3. AskedBefore(l, i) \subseteq Lessons
  <2>1. 1..(i - 1) \subseteq DOMAIN prerequisites[l]
    BY <1>1
  <2> HIDE DEF Lessons
  <2> QED
    BY <1>2, <2>1 DEF AskedBefore
<1> HIDE DEF Lessons
<1> QED
  BY <1>2, <1>3

\* IsComplete is what its recursive definition says.
LEMMA GateEquation ==
  ASSUME GraphTyped
  PROVE  \A l \in Lessons, seen \in SUBSET Lessons :
           IsComplete[l][seen] <=> Evaluates(IsComplete, l, seen)
<1> DEFINE Pairs == Lessons \X SUBSET Lessons
           Closed(S) == \A l \in Lessons, seen \in SUBSET Lessons :
             <<l, seen>> \in S =>
               /\ l \in marked
               /\ \/ l \in seen
                  \/ /\ l \in open
                     /\ \A i \in DOMAIN prerequisites[l] :
                          <<prerequisites[l][i], seen \cup {l} \cup AskedBefore(l, i)>> \in S
           G == UNION {S \in SUBSET Pairs : Closed(S)}
           g == [l \in Lessons |-> [seen \in SUBSET Lessons |-> IF <<l, seen>> \in G THEN TRUE ELSE FALSE]]
           Body(f) ==
             [l \in Lessons |->
               [seen \in SUBSET Lessons |->
                  /\ l \in marked
                  /\ \/ l \in seen
                     \/ /\ l \in open
                        /\ \A i \in DOMAIN prerequisites[l] :
                             f[prerequisites[l][i]][seen \cup {l} \cup AskedBefore(l, i)]]]
<1> HIDE DEF Lessons
<1>1. G \subseteq Pairs /\ Closed(G)
  <2>1. G \subseteq Pairs
    OBVIOUS
  <2>2. ASSUME NEW l \in Lessons, NEW seen \in SUBSET Lessons, <<l, seen>> \in G
        PROVE  /\ l \in marked
               /\ \/ l \in seen
                  \/ /\ l \in open
                     /\ \A i \in DOMAIN prerequisites[l] :
                          <<prerequisites[l][i], seen \cup {l} \cup AskedBefore(l, i)>> \in G
    <3>1. PICK S \in SUBSET Pairs : Closed(S) /\ <<l, seen>> \in S
      BY <2>2
    <3>2. S \subseteq G
      BY <3>1
    <3> HIDE DEF G
    <3> QED
      BY <3>1, <3>2
  <2> HIDE DEF G
  <2> QED
    BY <2>1, <2>2
<1>3. ASSUME NEW l \in Lessons, NEW seen \in SUBSET Lessons
      PROVE  <<l, seen>> \in G <=>
               /\ l \in marked
               /\ \/ l \in seen
                  \/ /\ l \in open
                     /\ \A i \in DOMAIN prerequisites[l] :
                          <<prerequisites[l][i], seen \cup {l} \cup AskedBefore(l, i)>> \in G
  <2> DEFINE H == G \cup {<<l, seen>>}
  <2>1. SUFFICES ASSUME l \in marked,
                        \/ l \in seen
                        \/ /\ l \in open
                           /\ \A i \in DOMAIN prerequisites[l] :
                                <<prerequisites[l][i], seen \cup {l} \cup AskedBefore(l, i)>> \in G
                 PROVE  <<l, seen>> \in G
    BY <1>1
  <2>2. H \in SUBSET Pairs
    BY <1>1
  <2>3. Closed(H)
    <3> SUFFICES ASSUME NEW k \in Lessons, NEW s \in SUBSET Lessons, <<k, s>> \in H
                 PROVE  /\ k \in marked
                        /\ \/ k \in s
                           \/ /\ k \in open
                              /\ \A i \in DOMAIN prerequisites[k] :
                                   <<prerequisites[k][i], s \cup {k} \cup AskedBefore(k, i)>> \in H
      OBVIOUS
    <3>1. CASE <<k, s>> \in G
      <4> HIDE DEF G
      <4> QED
        BY <1>1, <3>1
    <3>2. CASE k = l /\ s = seen
      <4> HIDE DEF G
      <4> QED
        BY <2>1, <3>2
    <3> QED
      BY <3>1, <3>2
  <2>4. <<l, seen>> \in H
    OBVIOUS
  <2> HIDE DEF H, Closed, Pairs
  <2> QED
    BY <2>2, <2>3, <2>4
<1> HIDE DEF G
<1>4. g = Body(g)
  <2> DEFINE h == Body(g)
  <2>1. ASSUME NEW l \in Lessons, NEW seen \in SUBSET Lessons
        PROVE  g[l][seen] = h[l][seen]
    <3>1. \A i \in DOMAIN prerequisites[l] :
            g[prerequisites[l][i]][seen \cup {l} \cup AskedBefore(l, i)] <=>
              <<prerequisites[l][i], seen \cup {l} \cup AskedBefore(l, i)>> \in G
      BY BelowTyped
    <3>2. g[l][seen] \in BOOLEAN /\ (g[l][seen] <=> <<l, seen>> \in G)
      OBVIOUS
    <3> HIDE DEF g
    <3>3. h[l][seen] = (/\ l \in marked
                        /\ \/ l \in seen
                           \/ /\ l \in open
                              /\ \A i \in DOMAIN prerequisites[l] :
                                   g[prerequisites[l][i]][seen \cup {l} \cup AskedBefore(l, i)])
      OBVIOUS
    <3> HIDE DEF h
    <3> QED
      BY <1>3, <3>1, <3>2, <3>3
  <2>2. /\ g = [l \in Lessons |-> g[l]] /\ h = [l \in Lessons |-> h[l]]
        /\ \A l \in Lessons : g[l] = [seen \in SUBSET Lessons |-> g[l][seen]]
        /\ \A l \in Lessons : h[l] = [seen \in SUBSET Lessons |-> h[l][seen]]
    OBVIOUS
  <2> HIDE DEF g, h
  <2>3. \A l \in Lessons : g[l] = h[l]
    <3> SUFFICES ASSUME NEW l \in Lessons PROVE g[l] = h[l]
      OBVIOUS
    <3>1. \A seen \in SUBSET Lessons : g[l][seen] = h[l][seen]
      BY <2>1
    <3>2. g[l] = [seen \in SUBSET Lessons |-> g[l][seen]] /\ h[l] = [seen \in SUBSET Lessons |-> h[l][seen]]
      BY <2>2
    <3> QED
      BY <3>1, <3>2
  <2>4. g = h
    BY <2>2, <2>3
  <2> QED
    BY <2>4 DEF h
<1>5. IsComplete = CHOOSE f : f = Body(f)
  BY DEF IsComplete
<1>6. IsComplete = Body(IsComplete)
  <2> HIDE DEF g, Body
  <2>1. (CHOOSE f : f = Body(f)) = Body(CHOOSE f : f = Body(f))
    BY <1>4, Zenon
  <2> QED
    BY <1>5, <2>1
<1> HIDE DEF g, Pairs, Closed
<1>7. ASSUME NEW l \in Lessons, NEW seen \in SUBSET Lessons
      PROVE  Body(IsComplete)[l][seen] <=> Evaluates(IsComplete, l, seen)
  BY DEF Evaluates
<1> HIDE DEF Body
<1> QED
  BY <1>6, <1>7

--------------------------------------------------------------------------------
\* The lessons below one: its prerequisites, and theirs.
LEMMA ClosedBelow ==
  ASSUME GraphTyped, NEW l \in Lessons
  PROVE  /\ LessonsBelow(l) \subseteq Lessons
         /\ Range(prerequisites[l]) \subseteq LessonsBelow(l)
         /\ \A k \in LessonsBelow(l) : Range(prerequisites[k]) \subseteq LessonsBelow(l)
<1>1. \A k \in Lessons : Range(prerequisites[k]) \subseteq Lessons
  <2> HIDE DEF Lessons
  <2> QED
    BY DEF GraphTyped, Range
<1> HIDE DEF Lessons
<1>2. Range(prerequisites[l]) \subseteq LessonsBelow(l)
  BY <1>1 DEF LessonsBelow
<1>3. ASSUME NEW k \in LessonsBelow(l), NEW p \in Range(prerequisites[k])
      PROVE  p \in LessonsBelow(l)
  <2>1. k \in Lessons /\ p \in Lessons
    BY <1>1, <1>3 DEF LessonsBelow
  <2>2. ASSUME NEW S \in SUBSET Lessons, Range(prerequisites[l]) \subseteq S,
               \A y \in S : Range(prerequisites[y]) \subseteq S
        PROVE  p \in S
    BY <1>3, <2>2 DEF LessonsBelow
  <2> QED
    BY <2>1, <2>2 DEF LessonsBelow
<1> QED
  BY <1>2, <1>3 DEF LessonsBelow

\* Nothing else.
LEMMA BelowLeast ==
  ASSUME NEW l \in Lessons, NEW S \in SUBSET Lessons, Range(prerequisites[l]) \subseteq S,
         \A k \in S : Range(prerequisites[k]) \subseteq S
  PROVE  LessonsBelow(l) \subseteq S
<1> HIDE DEF Lessons
<1> QED
  BY DEF LessonsBelow

\* A lesson is complete all the way up exactly when it is marked with its own gates
\* holding, and its prerequisites are complete all the way up.
LEMMA GenuineStep ==
  ASSUME GraphTyped, NEW l \in Lessons
  PROVE  /\ (\A m \in LessonsBelow(l) : m \in marked /\ m \in open)
              <=> \A i \in DOMAIN prerequisites[l] : Genuine(prerequisites[l][i])
         /\ Genuine(l) <=>
              /\ l \in marked /\ l \in open
              /\ \A i \in DOMAIN prerequisites[l] : Genuine(prerequisites[l][i])
<1> DEFINE S == {k \in Lessons : Genuine(k)}
<1>1. \A k \in Lessons : /\ LessonsBelow(k) \subseteq Lessons
                         /\ Range(prerequisites[k]) \subseteq LessonsBelow(k)
                         /\ \A x \in LessonsBelow(k) :
                              Range(prerequisites[x]) \subseteq LessonsBelow(k)
  BY ClosedBelow
<1>2. \A k \in Lessons : Range(prerequisites[k]) = {prerequisites[k][i] : i \in DOMAIN prerequisites[k]}
  BY DEF Range
<1>3. ASSUME NEW k \in Lessons, NEW p \in LessonsBelow(k)
      PROVE  LessonsBelow(p) \subseteq LessonsBelow(k)
  <2>1. p \in Lessons /\ LessonsBelow(k) \in SUBSET Lessons
    BY <1>1, <1>3
  <2>2. Range(prerequisites[p]) \subseteq LessonsBelow(k)
        /\ \A x \in LessonsBelow(k) : Range(prerequisites[x]) \subseteq LessonsBelow(k)
    BY <1>1, <1>3
  <2> HIDE DEF Lessons
  <2> QED
    BY <2>1, <2>2, BelowLeast
<1> HIDE DEF Lessons
<1>4. ASSUME NEW k \in Lessons, \A m \in LessonsBelow(k) : m \in marked /\ m \in open,
             NEW i \in DOMAIN prerequisites[k]
      PROVE  Genuine(prerequisites[k][i])
  <2>1. prerequisites[k][i] \in LessonsBelow(k)
    BY <1>1, <1>2, <1>4
  <2> QED
    BY <1>3, <1>4, <2>1 DEF Genuine
<1>5. ASSUME \A i \in DOMAIN prerequisites[l] : Genuine(prerequisites[l][i]), NEW m \in LessonsBelow(l)
      PROVE  m \in marked /\ m \in open
  <2>1. \A k \in S : Range(prerequisites[k]) \subseteq S
    <3> SUFFICES ASSUME NEW k \in S, NEW p \in Range(prerequisites[k]) PROVE p \in S
      OBVIOUS
    <3>1. p \in Lessons
      BY <1>1
    <3>2. PICK i \in DOMAIN prerequisites[k] : p = prerequisites[k][i]
      BY <1>2
    <3>3. Genuine(p)
      BY <1>4, <3>2 DEF Genuine
    <3> QED
      BY <3>1, <3>3
  <2>2. Range(prerequisites[l]) \subseteq S
    BY <1>1, <1>2, <1>5
  <2>3. S \in SUBSET Lessons
    OBVIOUS
  <2> HIDE DEF S
  <2>4. m \in S
    BY <1>5, <2>1, <2>2, <2>3, BelowLeast
  <2> QED
    BY <2>4 DEF S, Genuine
<1>6. Genuine(l) <=> l \in marked /\ l \in open /\ \A m \in LessonsBelow(l) : m \in marked /\ m \in open
  BY DEF Genuine
<1>7. (\A m \in LessonsBelow(l) : m \in marked /\ m \in open)
              <=> \A i \in DOMAIN prerequisites[l] : Genuine(prerequisites[l][i])
  BY <1>4, <1>5
<1> QED
  BY <1>6, <1>7

\* Of some numbers one is the least.
LEMMA LeastOf ==
  ASSUME NEW T \in SUBSET Nat, T # {}
  PROVE  \E m \in T : \A k \in T : m <= k
<1>3. PICK m \in T : \A k \in T : ~ (<<k, m>> \in OpToRel(<, Nat))
  BY NatLessThanWellFounded, WFMin
<1>4. \A k \in T : ~(k < m)
  BY <1>3 DEF OpToRel
<1> QED
  BY <1>4

\* A sound chain passes, whatever was seen before.
LEMMA SoundChainPasses ==
  ASSUME GraphTyped, NEW l \in Lessons, Genuine(l), NEW seen \in SUBSET Lessons
  PROVE  IsComplete[l][seen]
<1> DEFINE T == {k \in Lessons : Genuine(k) /\ \E s \in SUBSET Lessons : ~IsComplete[k][s]}
<1>1. Lessons \subseteq Nat
  BY GateAssumption DEF Lessons
<1> HIDE DEF Lessons
<1>2. SUFFICES ASSUME T # {} PROVE FALSE
  OBVIOUS
<1>3. PICK m \in T : \A k \in T : m <= k
  BY <1>1, <1>2, LeastOf
<1>4. PICK s \in SUBSET Lessons : ~IsComplete[m][s]
  BY <1>3
<1>5. m \in Lessons /\ Genuine(m)
  BY <1>3
<1> HIDE DEF T
<1>6. ASSUME NEW i \in DOMAIN prerequisites[m]
      PROVE  IsComplete[prerequisites[m][i]][s \cup {m} \cup AskedBefore(m, i)]
  <2>1. /\ prerequisites[m][i] \in Lessons /\ prerequisites[m][i] < m
        /\ s \cup {m} \cup AskedBefore(m, i) \in SUBSET Lessons
    BY <1>5, BelowTyped DEF GraphTyped
  <2>2. Genuine(prerequisites[m][i])
    BY <1>5, GenuineStep
  <2>3. prerequisites[m][i] \notin T
    <3>1. m \in Nat /\ prerequisites[m][i] \in Nat
      BY <1>1, <1>5, <2>1
    <3>2. ~(m <= prerequisites[m][i])
      BY <2>1, <3>1
    <3> QED
      BY <1>3, <3>2
  <2>4. \A k \in Lessons : Genuine(k) /\ k \notin T
          => \A z \in SUBSET Lessons : IsComplete[k][z]
    BY DEF T
  <2> QED
    BY <2>1, <2>2, <2>3, <2>4
<1>7. m \in marked /\ m \in open
  BY <1>5, GenuineStep
<1>8. Evaluates(IsComplete, m, s)
  BY <1>6, <1>7 DEF Evaluates
<1> QED
  BY <1>4, <1>5, <1>8, GateEquation

\* What a lesson's evaluation may take on trust: the lessons up to it that were seen.
Safe(l) ==
  \A seen \in SUBSET Lessons :
    IsComplete[l][seen] /\ (\A k \in seen : k <= l => Genuine(k)) => Genuine(l)

\* The loop over the prerequisites of l reports one of them unless all are complete all
\* the way up: the first that is not has only sound ones in its `seen`, of those that
\* matter to it.
LEMMA LoopIsSound ==
  ASSUME GraphTyped, NEW l \in Lessons, NEW seen \in SUBSET Lessons,
         \A p \in Lessons : p < l => Safe(p),
         \A k \in seen : k < l => Genuine(k),
         \A i \in DOMAIN prerequisites[l] :
           IsComplete[prerequisites[l][i]][seen \cup AskedBefore(l, i)]
  PROVE  \A i \in DOMAIN prerequisites[l] : Genuine(prerequisites[l][i])
<1> DEFINE T == {i \in DOMAIN prerequisites[l] : ~Genuine(prerequisites[l][i])}
<1>1. Lessons \subseteq Nat
  BY GateAssumption DEF Lessons
<1> HIDE DEF Lessons
<1>2. DOMAIN prerequisites[l] = 1..Len(prerequisites[l]) /\ Len(prerequisites[l]) \in Nat
  BY DEF GraphTyped
<1>3. T \in SUBSET Nat
  BY <1>2
<1>4. SUFFICES ASSUME T # {} PROVE FALSE
  OBVIOUS
<1>5. PICK i \in T : \A j \in T : i <= j
  BY <1>3, <1>4, LeastOf
<1>6. i \in DOMAIN prerequisites[l] /\ ~Genuine(prerequisites[l][i])
  BY <1>5
<1>7. \A j \in 1..(i - 1) : Genuine(prerequisites[l][j])
  BY <1>2, <1>5
<1> HIDE DEF T
<1>8. /\ prerequisites[l][i] \in Lessons /\ prerequisites[l][i] < l
      /\ seen \cup AskedBefore(l, i) \in SUBSET Lessons
  BY <1>6, BelowTyped DEF GraphTyped
<1>9. ASSUME NEW k \in seen \cup AskedBefore(l, i), k <= prerequisites[l][i]
      PROVE  Genuine(k)
  <2>1. CASE k \in seen
    <3>1. k \in Nat /\ l \in Nat /\ prerequisites[l][i] \in Nat
      BY <1>1, <1>8, <2>1
    <3> QED
      BY <1>8, <1>9, <2>1, <3>1
  <2>2. CASE k \in AskedBefore(l, i)
    BY <1>7, <2>2 DEF AskedBefore
  <2> QED
    BY <2>1, <2>2
<1> QED
  BY <1>6, <1>8, <1>9 DEF Safe

\* The shortcut through `seen` lets no broken chain pass: a lesson that is accepted is
\* complete all the way up when those of the seen ones that come before it are.
LEMMA ShortcutIsSafe == ASSUME GraphTyped PROVE \A l \in Lessons : Safe(l)
<1> DEFINE T == {k \in Lessons : ~Safe(k)}
<1>1. Lessons \subseteq Nat
  BY GateAssumption DEF Lessons
<1> HIDE DEF Lessons
<1>2. SUFFICES ASSUME T # {} PROVE FALSE
  OBVIOUS
<1>3. PICK m \in T : \A k \in T : m <= k
  BY <1>1, <1>2, LeastOf
<1>4. m \in Lessons /\ ~Safe(m)
  BY <1>3
<1>5. \A p \in Lessons : p < m => Safe(p)
  BY <1>1, <1>3
<1> HIDE DEF T
<1>6. PICK s \in SUBSET Lessons :
        IsComplete[m][s] /\ (\A k \in s : k <= m => Genuine(k)) /\ ~Genuine(m)
  BY <1>4 DEF Safe
<1>7. Evaluates(IsComplete, m, s)
  BY <1>4, <1>6, GateEquation
<1>8. m \notin s
  BY <1>1, <1>4, <1>6
<1>9. /\ m \in marked /\ m \in open
      /\ \A i \in DOMAIN prerequisites[m] :
           IsComplete[prerequisites[m][i]][(s \cup {m}) \cup AskedBefore(m, i)]
  BY <1>7, <1>8 DEF Evaluates
<1>10. \A k \in s \cup {m} : k < m => Genuine(k)
  <2>1. \A k \in s \cup {m} : k \in Nat
    BY <1>1, <1>4
  <2> QED
    BY <1>6, <2>1
<1>11. s \cup {m} \in SUBSET Lessons
  BY <1>4
<1>12. \A i \in DOMAIN prerequisites[m] : Genuine(prerequisites[m][i])
  BY <1>4, <1>5, <1>9, <1>10, <1>11, LoopIsSound
<1> QED
  BY <1>4, <1>6, <1>9, <1>12, GenuineStep

--------------------------------------------------------------------------------
GateSpec(curricula) == GateInit(curricula) /\ [][GateNext]_gateVars

\* What lesson_completion has answered follows from the recorded state.
GateInv ==
  /\ GraphTyped
  /\ asked # 0 =>
       /\ asked \in Lessons
       /\ verdict <=> asked \in open /\ UnmetPrerequisites(asked, {asked}) = {}

\* "Complete all the way up the chain": the gate of lesson_completion and the map that
\* roadmap, counters and navigation read accept exactly the lessons whose own gates
\* hold and below which every lesson is marked complete with its gates holding, for
\* every curriculum that load_curriculum accepts, in any order of prerequisites.
THEOREM GateIsTheReference ==
  ASSUME NEW curricula,
         \A f \in curricula :
           /\ f \in [Lessons -> Seq(Lessons)]
           /\ \A l \in Lessons : \A i \in DOMAIN f[l] : f[l][i] < l
  PROVE  GateSpec(curricula) => []GateIsReference
<1>1. GateInit(curricula) => GateInv
  BY DEF GateInit, GateInv, GraphTyped
<1>2. GateInv /\ [GateNext]_gateVars => GateInv'
  <2> SUFFICES ASSUME GateInv, [GateNext]_gateVars PROVE GateInv'
    OBVIOUS
  <2>1. ASSUME NEW l \in Lessons, Ask(l) PROVE GateInv'
    <3>1. prerequisites' = prerequisites /\ marked' = marked /\ open' = open /\ asked' = l
      BY <2>1 DEF Ask
    <3>2. IsComplete' = IsComplete
      BY <3>1 DEF IsComplete, AskedBefore
    <3>3. UnmetPrerequisites(l, {l})' = UnmetPrerequisites(l, {l})
      BY <3>1, <3>2 DEF UnmetPrerequisites, AskedBefore
    <3>4. GraphTyped'
      BY <3>1 DEF GateInv, GraphTyped
    <3>5. verdict' <=> l \in open /\ UnmetPrerequisites(l, {l}) = {}
      BY <2>1 DEF Ask
    <3>6. UnmetPrerequisites(asked, {asked})' = UnmetPrerequisites(l, {l})
      BY <3>1, <3>2 DEF UnmetPrerequisites, AskedBefore
    <3> QED
      BY <3>1, <3>4, <3>5, <3>6 DEF GateInv
  <2>2. CASE UNCHANGED gateVars
    <3>1. /\ prerequisites' = prerequisites /\ marked' = marked /\ open' = open
          /\ asked' = asked /\ verdict' = verdict
      BY <2>2 DEF gateVars
    <3>2. IsComplete' = IsComplete
      BY <3>1 DEF IsComplete, AskedBefore
    <3>3. UnmetPrerequisites(asked, {asked})' = UnmetPrerequisites(asked, {asked})
      BY <3>1, <3>2 DEF UnmetPrerequisites, AskedBefore
    <3>4. GraphTyped'
      BY <3>1 DEF GateInv, GraphTyped
    <3> QED
      BY <3>1, <3>3, <3>4 DEF GateInv
  <2> QED
    BY <2>1, <2>2 DEF GateNext
<1>3. GateInv => GateIsReference
  <2> SUFFICES ASSUME GateInv PROVE GateIsReference
    OBVIOUS
  <2>1. GraphTyped /\ {} \in SUBSET Lessons
    BY DEF GateInv
  <2>2. CompletionMap = {l \in Lessons : Genuine(l)}
    <3>1. ASSUME NEW l \in Lessons PROVE IsComplete[l][{}] <=> Genuine(l)
      BY <2>1, ShortcutIsSafe, SoundChainPasses DEF Safe
    <3> QED
      BY <3>1 DEF CompletionMap
  <2>3. ASSUME asked # 0
        PROVE  verdict <=> asked \in open /\ \A m \in LessonsBelow(asked) : m \in marked /\ m \in open
    <3>1. asked \in Lessons /\ (verdict <=> asked \in open /\ UnmetPrerequisites(asked, {asked}) = {})
      BY <2>3 DEF GateInv
    <3>2. {asked} \in SUBSET Lessons
      BY <3>1
    <3>3. UnmetPrerequisites(asked, {asked}) = {} <=>
            \A i \in DOMAIN prerequisites[asked] :
              IsComplete[prerequisites[asked][i]][{asked} \cup AskedBefore(asked, i)]
      BY DEF UnmetPrerequisites
    <3>4. \A k \in {asked} : k < asked => Genuine(k)
      BY <3>1, GateAssumption DEF Lessons
    <3>5. ASSUME NEW i \in DOMAIN prerequisites[asked]
          PROVE  /\ prerequisites[asked][i] \in Lessons
                 /\ {asked} \cup AskedBefore(asked, i) \in SUBSET Lessons
      BY <2>1, <3>1, <3>2, BelowTyped
    <3> HIDE DEF Lessons
    <3>6. (\A i \in DOMAIN prerequisites[asked] :
              IsComplete[prerequisites[asked][i]][{asked} \cup AskedBefore(asked, i)])
            <=> \A i \in DOMAIN prerequisites[asked] : Genuine(prerequisites[asked][i])
      BY <2>1, <3>1, <3>2, <3>4, <3>5, LoopIsSound, ShortcutIsSafe, SoundChainPasses
    <3> QED
      BY <2>1, <3>1, <3>3, <3>6, GenuineStep
  <2> QED
    BY <2>2, <2>3 DEF GateIsReference
<1> QED
  BY <1>1, <1>2, <1>3, PTL DEF GateSpec

--------------------------------------------------------------------------------
(* Exercises read in the source: any branch, any acquire().                   *)

SourceSpec(exercises) == SourceInit(exercises) /\ [][SourceNext]_sourceVars

Locking(code, i) == code[i].kind = "with" /\ code[i].header.lock \in Locks
PastEntry(t, i) == IF i < pc[t] THEN 1 ELSE 0

SourceTyped ==
  /\ IsExercise(exercise)
  /\ ruling \in {"none", "passed", "failed"}
  /\ pc \in [Threads -> Nat \ {0}]
  /\ local \in [Threads -> Nat]
  /\ counter \in Nat
  /\ held \in [Locks -> Threads \cup {Nobody}]
  /\ result \in [Threads -> {"none", "True", "False"}]

\* What was accepted has the rule's consent, and before that no thread runs.
RulingIsEarned ==
  IF ruling = "passed"
  THEN \/ exercise.rule = "lock" /\ MustHoldLock(exercise.file)
       \/ exercise.rule = "exclusive" /\ MustCreateExclusively(exercise.file)
  ELSE pc = [t \in Threads |-> 1] /\ counter = 0 /\ result = [t \in Threads |-> "none"]

\* A thread inside a locking `with` holds its lock, which is not taken again there.
LocksHeld ==
  exercise.rule = "lock" =>
    \A t \in Threads : \A j \in DOMAIN Code :
      Locking(Code, j) /\ j < pc[t] /\ pc[t] <= j + Code[j].size + 1
        => /\ held[Code[j].header.lock] = t
           /\ \A i \in (j + 1)..(pc[t] - 1) :
                ~(Locking(Code, i) /\ Code[i].header.lock = Code[j].header.lock)

\* Unless the rule does not see what is wrong: the counter has counted the threads that are
\* past the write, and one between the read and the write has read it.
Counted ==
  exercise.rule = "lock" /\ ruling = "passed" /\ ~OutOfSight(exercise) =>
    \A r, w \in DOMAIN Code :
      Code[r].kind = "read" /\ Code[w].kind = "write" =>
        /\ counter = PastEntry(1, w) + PastEntry(2, w)
        /\ \A t \in Threads : r < pc[t] /\ pc[t] <= w => local[t] = counter

\* One contender at most is past a call, not a link, that creates the lock exclusively.
Contending(t, i) == i < pc[t] /\ result[t] # "False"
OneContender ==
  exercise.rule = "exclusive" =>
    /\ \A t \in Threads : result[t] = "True" => pc[t] > Len(Code)
    /\ \A i \in DOMAIN Code : CreatesExclusively(Code[i], TRUE) /\ Code[i].name # "link" =>
         /\ \A t \in Threads : Contending(t, i) => "lock" \in paths
         /\ ~(Contending(1, i) /\ Contending(2, i))

SourceInv == SourceTyped /\ RulingIsEarned /\ LocksHeld /\ Counted /\ OneContender

LEMMA ExclusiveCalls ==
  ASSUME NEW c \in Calls, CreatesExclusively(c, TRUE), c.name # "link"
  PROVE  c.creates = "lock" /\ FailsIfExists(c)
  BY DEF Calls, Call, CreatesExclusively, FailsIfExists

\* What a step of a thread in a branch needs of the branch.
LEMMA BranchSteps ==
  ASSUME NEW code, IsBranch(code)
  PROVE  /\ Len(code) \in Nat /\ DOMAIN code = 1..Len(code)
         /\ \A i \in DOMAIN code : code[i].kind = "with" => code[i].size \in Nat
         /\ \A i \in DOMAIN code : code[i].kind = "end" =>
              \E j \in 1..(i - 1) : /\ code[j].kind = "with" /\ i = j + code[j].size + 1
                                    /\ code[j].header = code[i].header
<1>1. code \in Seq(Entries)
  BY DEF IsBranch
<1>2. Len(code) \in Nat /\ DOMAIN code = 1..Len(code) /\ \A i \in DOMAIN code : code[i] \in Entries
  BY <1>1
<1>3. \A x \in Entries : x.kind = "with" => x.size \in Nat
  BY DEF Entries
<1> QED
  BY <1>2, <1>3 DEF IsBranch

\* A branch that the rule accepts and sees has its read and its write under one lock.
LEMMA AcceptedBranch ==
  ASSUME NEW f, f.text, f.code = <<>> \/ IsBranch(f.code), MustHoldLock(f),
         ~UnderNamesOnly(f.code), ~Split(f.code)
  PROVE  /\ IsBranch(f.code)
         /\ \E r, w, j \in DOMAIN f.code :
              /\ \A i \in DOMAIN f.code : /\ f.code[i].kind = "read" <=> i = r
                                          /\ f.code[i].kind = "write" <=> i = w
              /\ r < w /\ Locking(f.code, j)
              /\ j < r /\ w <= j + f.code[j].size
<1> DEFINE code == f.code
<1>1. IsBranch(code) /\ \A i \in DOMAIN code : ~UnguardedUse(code, i)
  BY DEF MustHoldLock
<1>2. PICK r, w \in DOMAIN code :
        /\ \A i \in DOMAIN code : (code[i].kind = "read" <=> i = r) /\ (code[i].kind = "write" <=> i = w)
        /\ r < w
  BY <1>1 DEF IsBranch
<1>3. DOMAIN code = 1..Len(code) /\ Len(code) \in Nat
  BY <1>1, BranchSteps
<1>4. Guarded(code, r) /\ Guarded(code, w)
  BY <1>1, <1>2 DEF UnguardedUse
<1>5. /\ r \in Uses(code, "read") /\ w \in Uses(code, "write")
      /\ Within(code, r) \subseteq Within(code, w) \/ Within(code, w) \subseteq Within(code, r)
  BY <1>2 DEF Uses, Split
<1>6. PICK j \in Within(code, r) \cap Within(code, w) :
        code[j].header.named /\ code[j].header.lock # "none"
  BY <1>4, <1>5 DEF UnderNamesOnly
<1>7. j \in 1..(r - 1) /\ code[j].kind = "with" /\ w <= j + code[j].size
  BY <1>6 DEF Within
<1>8. j \in DOMAIN code /\ code[j] \in Entries
  <2>1. j \in DOMAIN code
    BY <1>2, <1>3, <1>7
  <2> QED
    BY <1>1, <2>1 DEF IsBranch
<1>9. \A x \in Entries : x.kind = "with" => x.header.lock \in Locks \cup {"none"}
  BY DEF Entries, SomeHeaders
<1>10. Locking(code, j)
  BY <1>6, <1>7, <1>8, <1>9 DEF Locking
<1> QED
  BY <1>1, <1>2, <1>3, <1>7, <1>8, <1>10

LEMMA SourceInitially ==
  ASSUME NEW exercises, \A e \in exercises : IsExercise(e), SourceInit(exercises)
  PROVE  SourceInv
<1>1. /\ IsExercise(exercise) /\ ruling = "none" /\ counter = 0 /\ paths = {}
      /\ pc = [t \in Threads |-> 1] /\ local = [t \in Threads |-> 0]
      /\ held = [k \in Locks |-> Nobody] /\ result = [t \in Threads |-> "none"]
  BY DEF SourceInit
<1>2. SourceTyped /\ RulingIsEarned
  BY <1>1 DEF SourceTyped, RulingIsEarned
<1>3. LocksHeld
  <2> SUFFICES ASSUME exercise.rule = "lock", NEW t \in Threads, NEW j \in DOMAIN Code, j < pc[t]
               PROVE  FALSE
    BY DEF LocksHeld
  <2>1. IsBranch(Code)
    BY <1>1 DEF IsExercise, Code
  <2>2. j \in 1..Len(Code) /\ Len(Code) \in Nat
    BY <2>1, BranchSteps
  <2> QED
    BY <1>1, <2>2
<1>4. Counted
  BY <1>1 DEF Counted
<1>5. OneContender
  <2> SUFFICES ASSUME exercise.rule = "exclusive"
               PROVE  \A t \in Threads : result[t] # "True" /\ \A i \in DOMAIN Code : ~(i < pc[t])
    BY DEF OneContender, Contending, Threads
  <2>1. Code \in Seq(Calls)
    BY <1>1 DEF IsExercise, Code
  <2>2. \A i \in DOMAIN Code : i \in Nat /\ 1 <= i
    BY <2>1
  <2> QED
    BY <1>1, <2>2
<1> QED
  BY <1>2, <1>3, <1>4, <1>5 DEF SourceInv

\* The check changes nothing but its ruling.
LEMMA CheckKeepsStep == SourceInv /\ CheckSource => SourceInv'
<1> SUFFICES ASSUME SourceInv, CheckSource PROVE SourceInv'
  OBVIOUS
<1>1. /\ ruling = "none" /\ exercise' = exercise /\ pc' = pc /\ local' = local
      /\ counter' = counter /\ held' = held /\ paths' = paths /\ result' = result
      /\ ruling' = IF \/ exercise.rule = "lock" /\ MustHoldLock(exercise.file)
                      \/ exercise.rule = "exclusive" /\ MustCreateExclusively(exercise.file)
                   THEN "passed" ELSE "failed"
  BY DEF CheckSource
<1>2. /\ SourceTyped /\ LocksHeld /\ OneContender
      /\ pc = [t \in Threads |-> 1] /\ counter = 0 /\ result = [t \in Threads |-> "none"]
  BY <1>1 DEF SourceInv, RulingIsEarned
<1>3. SourceTyped'
  BY <1>1, <1>2 DEF SourceTyped
<1>4. RulingIsEarned'
  BY <1>1, <1>2 DEF RulingIsEarned
<1>5. LocksHeld'
  <2>1. Code' = Code
    BY <1>1 DEF Code
  <2> QED
    BY <1>1, <1>2, <2>1 DEF LocksHeld
<1>6. OneContender'
  <2>1. Code' = Code /\ \A t, i : Contending(t, i)' = Contending(t, i)
    BY <1>1 DEF Code, Contending
  <2> QED
    BY <1>1, <1>2, <2>1 DEF OneContender
<1>7. Counted'
  <2> SUFFICES ASSUME exercise.rule = "lock", NEW r \in DOMAIN Code, NEW w \in DOMAIN Code
               PROVE  ~(r < 1) /\ ~(w < 1)
    <3>1. 1 \in Threads /\ 2 \in Threads
      BY DEF Threads
    <3> QED
      BY <1>1, <1>2, <3>1 DEF Counted, PastEntry, Code
  <2>1. IsBranch(Code)
    BY <1>2 DEF SourceTyped, IsExercise, Code
  <2> QED
    BY <2>1, BranchSteps
<1> QED
  BY <1>3, <1>4, <1>5, <1>6, <1>7 DEF SourceInv

\* Two threads are not inside a locking `with` at the same time.
LEMMA OneInside ==
  ASSUME SourceTyped, LocksHeld, exercise.rule = "lock",
         NEW t \in Threads, NEW u \in Threads, NEW j \in DOMAIN Code, Locking(Code, j),
         j < pc[t], pc[t] <= j + Code[j].size + 1, j < pc[u], pc[u] <= j + Code[j].size + 1
  PROVE  t = u
BY DEF LocksHeld

LEMMA LocksStayHeld ==
  ASSUME SourceTyped, LocksHeld, NEW t \in Threads, RunBranch(t)
  PROVE  LocksHeld'
<1> DEFINE p == pc[t]
           s == Code[p]
<1>1. /\ exercise.rule = "lock" /\ exercise' = exercise /\ Code' = Code /\ ~Done(t)
      /\ pc' = [pc EXCEPT ![t] = @ + 1]
  BY DEF RunBranch, Advance, Code
<1>2. /\ pc \in [Threads -> Nat \ {0}] /\ held \in [Locks -> Threads \cup {Nobody}]
      /\ p \in Nat \ {0}
  BY DEF SourceTyped
<1>3. Nobody \notin Threads
  BY DEF Nobody, Threads
<1>4. Len(Code) \in Nat /\ DOMAIN Code = 1..Len(Code) /\ IsBranch(Code)
  <2>1. Code = <<>> \/ IsBranch(Code)
    BY <1>1 DEF SourceTyped, IsExercise, Code
  <2>2. Code # <<>>
    <3>1. CASE Code = <<>>
      <4>1. Len(Code) = 0
        BY <3>1
      <4> QED
        BY <1>1, <1>2, <4>1 DEF Done
    <3> QED
      BY <3>1
  <2> QED
    BY <2>1, <2>2, BranchSteps
<1>5. p \in DOMAIN Code
  BY <1>1, <1>2, <1>4 DEF Done
<1>6. /\ \A i \in DOMAIN Code : Code[i].kind = "with" => Code[i].size \in Nat
      /\ \A i \in DOMAIN Code : Code[i].kind = "end" =>
              \E j \in 1..(i - 1) : /\ Code[j].kind = "with" /\ i = j + Code[j].size + 1
                                    /\ Code[j].header = Code[i].header
  BY <1>4, BranchSteps
<1>7. pc'[t] = p + 1 /\ \A u \in Threads : u # t => pc'[u] = pc[u]
  BY <1>1, <1>2
<1>8. SUFFICES ASSUME NEW u \in Threads, NEW j \in DOMAIN Code,
                      Locking(Code, j), j < pc'[u], pc'[u] <= j + Code[j].size + 1
               PROVE  /\ held'[Code[j].header.lock] = u
                      /\ \A i \in (j + 1)..(pc'[u] - 1) :
                           ~(Locking(Code, i) /\ Code[i].header.lock = Code[j].header.lock)
  BY <1>1 DEF LocksHeld
<1> DEFINE k == Code[j].header.lock
<1>9. k \in Locks /\ Code[j].size \in Nat /\ j \in Nat
  BY <1>4, <1>6, <1>8 DEF Locking
<1>10. ASSUME NEW v \in Threads, NEW m \in DOMAIN Code, Locking(Code, m), m < pc[v],
              pc[v] <= m + Code[m].size + 1
       PROVE  /\ held[Code[m].header.lock] = v
              /\ \A i \in (m + 1)..(pc[v] - 1) :
                   ~(Locking(Code, i) /\ Code[i].header.lock = Code[m].header.lock)
  BY <1>1, <1>10 DEF LocksHeld
<1>11. CASE ~Locking(Code, p) /\ held' = held
  <2>1. CASE u # t
    BY <1>7, <1>8, <1>10, <1>11, <2>1
  <2>2. CASE u = t
    <3>1. j # p /\ j < p /\ p <= j + Code[j].size + 1
      BY <1>2, <1>7, <1>8, <1>9, <1>11, <2>2
    <3>2. /\ held[k] = t
          /\ \A i \in (j + 1)..(p - 1) : ~(Locking(Code, i) /\ Code[i].header.lock = k)
      BY <1>8, <1>10, <3>1
    <3>3. \A i \in (j + 1)..p : i \in (j + 1)..(p - 1) \/ i = p
      BY <1>2, <1>9
    <3> HIDE DEF p, k
    <3> QED
      BY <1>2, <1>7, <1>11, <2>2, <3>2, <3>3 DEF k
  <2> QED
    BY <2>1, <2>2
<1>12. CASE Locking(Code, p) /\ held[s.header.lock] = Nobody
             /\ held' = [held EXCEPT ![s.header.lock] = t]
  <2>1. CASE u # t
    <3>1. /\ held[k] = u
          /\ \A i \in (j + 1)..(pc[u] - 1) : ~(Locking(Code, i) /\ Code[i].header.lock = k)
      BY <1>7, <1>8, <1>10, <2>1
    <3>2. k # s.header.lock
      BY <1>3, <1>12, <3>1
    <3>3. held'[k] = u
      BY <1>2, <1>9, <1>12, <3>1, <3>2
    <3> QED
      BY <1>7, <2>1, <3>1, <3>3
  <2>2. CASE u = t /\ j = p
    <3>1. held'[k] = t
      BY <1>2, <1>9, <1>12, <2>2
    <3>2. (j + 1)..(pc'[u] - 1) = {}
      BY <1>2, <1>7, <2>2
    <3> QED
      BY <2>2, <3>1, <3>2
  <2>3. CASE u = t /\ j # p
    <3>1. j < p /\ p <= j + Code[j].size + 1
      BY <1>2, <1>7, <1>8, <1>9, <2>3
    <3>2. /\ held[k] = t
          /\ \A i \in (j + 1)..(p - 1) : ~(Locking(Code, i) /\ Code[i].header.lock = k)
      BY <1>8, <1>10, <3>1
    <3>3. k # s.header.lock
      BY <1>3, <1>12, <3>2
    <3>4. held'[k] = t
      BY <1>2, <1>9, <1>12, <3>2, <3>3
    <3>5. \A i \in (j + 1)..p : i \in (j + 1)..(p - 1) \/ i = p
      BY <1>2, <1>9
    <3> HIDE DEF k
    <3>6. \A i \in (j + 1)..p : ~(Locking(Code, i) /\ Code[i].header.lock = k)
      BY <3>2, <3>3, <3>5
    <3> HIDE DEF p
    <3> QED
      BY <1>2, <1>7, <2>3, <3>4, <3>6 DEF k
  <2> QED
    BY <2>1, <2>2, <2>3
<1>13. CASE s.kind = "end" /\ s.header.lock \in Locks /\ held' = [held EXCEPT ![s.header.lock] = Nobody]
  <2>1. PICK m \in 1..(p - 1) : /\ Code[m].kind = "with" /\ p = m + Code[m].size + 1
                                 /\ Code[m].header = s.header
    BY <1>5, <1>6, <1>13
  <2>2. m \in DOMAIN Code /\ m \in Nat /\ m < p
    BY <1>2, <1>4, <1>5
  <2>3. Locking(Code, m) /\ Code[m].header.lock = s.header.lock
    BY <1>13, <2>1 DEF Locking
  <2>4. /\ held[s.header.lock] = t
        /\ \A i \in (m + 1)..(p - 1) :
             ~(Locking(Code, i) /\ Code[i].header.lock = s.header.lock)
    BY <1>2, <1>10, <2>1, <2>2, <2>3
  <2>5. CASE u # t
    <3>1. /\ held[k] = u
          /\ \A i \in (j + 1)..(pc[u] - 1) : ~(Locking(Code, i) /\ Code[i].header.lock = k)
      BY <1>7, <1>8, <1>10, <2>5
    <3>2. k # s.header.lock
      BY <2>4, <2>5, <3>1
    <3>3. held'[k] = u
      BY <1>2, <1>9, <1>13, <3>1, <3>2
    <3> QED
      BY <1>7, <2>5, <3>1, <3>3
  <2>6. CASE u = t
    <3>1. j # p
      BY <1>8, <1>13 DEF Locking
    <3>2. j < p /\ p <= j + Code[j].size
      BY <1>2, <1>7, <1>8, <1>9, <2>6, <3>1
    <3>3. /\ held[k] = t
          /\ \A i \in (j + 1)..(p - 1) : ~(Locking(Code, i) /\ Code[i].header.lock = k)
      <4>1. p <= j + Code[j].size + 1
        BY <1>2, <1>9, <3>2
      <4> QED
        BY <1>8, <1>10, <3>2, <4>1
    <3>4. k # s.header.lock
      <4> SUFFICES ASSUME k = s.header.lock PROVE FALSE
        OBVIOUS
      <4>1. m # j
        BY <1>2, <1>9, <2>1, <3>2
      <4>2. CASE j < m
        <5>1. m \in (j + 1)..(p - 1)
          BY <1>2, <1>9, <2>2, <4>2
        <5> QED
          BY <2>3, <3>3, <5>1
      <4>3. CASE m < j
        <5>1. j \in (m + 1)..(p - 1)
          BY <1>2, <1>9, <2>2, <3>2, <4>3
        <5> QED
          BY <1>8, <2>4, <5>1
      <4> QED
        BY <1>9, <2>2, <4>1, <4>2, <4>3
    <3>5. held'[k] = t
      BY <1>2, <1>9, <1>13, <3>3, <3>4
    <3>6. ~Locking(Code, p)
      BY <1>13 DEF Locking
    <3>7. \A i \in (j + 1)..p : i \in (j + 1)..(p - 1) \/ i = p
      BY <1>2, <1>9
    <3> HIDE DEF k
    <3>8. \A i \in (j + 1)..p : ~(Locking(Code, i) /\ Code[i].header.lock = k)
      BY <3>3, <3>6, <3>7
    <3> HIDE DEF p
    <3> QED
      BY <1>2, <1>7, <2>6, <3>5, <3>8 DEF k
  <2> QED
    BY <2>5, <2>6
<1>14. \/ ~Locking(Code, p) /\ held' = held
       \/ Locking(Code, p) /\ held[s.header.lock] = Nobody /\ held' = [held EXCEPT ![s.header.lock] = t]
       \/ s.kind = "end" /\ s.header.lock \in Locks /\ held' = [held EXCEPT ![s.header.lock] = Nobody]
  <2>1. \/ s.kind = "read" /\ held' = held
        \/ s.kind = "write" /\ held' = held
        \/ /\ s.kind = "with" /\ s.header.lock \in Locks /\ held[s.header.lock] = Nobody
           /\ held' = [held EXCEPT ![s.header.lock] = t]
        \/ s.kind = "end" /\ s.header.lock \in Locks /\ held' = [held EXCEPT ![s.header.lock] = Nobody]
        \/ s.kind \in {"with", "end"} /\ s.header.lock = "none" /\ held' = held
    BY DEF RunBranch
  <2>2. "none" \notin Locks
    BY DEF Locks
  <2> QED
    BY <2>1, <2>2 DEF Locking
<1> QED
  BY <1>11, <1>12, <1>13, <1>14

LEMMA BranchStaysTyped ==
  ASSUME SourceTyped, RulingIsEarned, NEW t \in Threads, RunBranch(t)
  PROVE  SourceTyped' /\ RulingIsEarned'
<1>1. /\ exercise' = exercise /\ ruling' = ruling /\ result' = result /\ ruling = "passed"
      /\ pc' = [pc EXCEPT ![t] = @ + 1]
  BY DEF RunBranch, Advance
<1>2. pc' \in [Threads -> Nat \ {0}]
  BY <1>1 DEF SourceTyped
<1>3. local' \in [Threads -> Nat] /\ counter' \in Nat
  BY DEF RunBranch, SourceTyped
<1>4. held' \in [Locks -> Threads \cup {Nobody}]
  BY DEF RunBranch, SourceTyped
<1> QED
  BY <1>1, <1>2, <1>3, <1>4 DEF SourceTyped, RulingIsEarned

\* No thread reads or writes between the read and the write of another.
LEMMA NothingIsLost ==
  ASSUME SourceInv, NEW t \in Threads, RunBranch(t), ~OutOfSight(exercise)
  PROVE  Counted'
<1> DEFINE p == pc[t]
           s == Code[p]
<1>1. /\ exercise.rule = "lock" /\ ruling = "passed" /\ exercise' = exercise /\ Code' = Code
      /\ pc' = [pc EXCEPT ![t] = @ + 1] /\ ~Done(t)
  BY DEF RunBranch, Advance, Code
<1>2. /\ pc \in [Threads -> Nat \ {0}] /\ local \in [Threads -> Nat] /\ counter \in Nat
      /\ p \in Nat \ {0}
  BY DEF SourceInv, SourceTyped
<1>3. pc'[t] = p + 1 /\ \A u \in Threads : u # t => pc'[u] = pc[u]
  BY <1>1, <1>2
<1>4. PICK r, w, j \in DOMAIN Code :
        /\ \A i \in DOMAIN Code : (Code[i].kind = "read" <=> i = r) /\ (Code[i].kind = "write" <=> i = w)
        /\ r < w /\ Locking(Code, j)
        /\ j < r /\ w <= j + Code[j].size
  <2>1. /\ exercise.file.text /\ (Code = <<>> \/ IsBranch(Code)) /\ MustHoldLock(exercise.file)
        /\ ~UnderNamesOnly(Code) /\ ~Split(Code)
    BY <1>1 DEF SourceInv, SourceTyped, IsExercise, RulingIsEarned, OutOfSight, Code
  <2> QED
    BY <2>1, AcceptedBranch DEF Code
<1>5. /\ Len(Code) \in Nat /\ DOMAIN Code = 1..Len(Code) /\ Code[j].size \in Nat
  <2>1. Code # <<>>
    BY <1>4
  <2>2. IsBranch(Code)
    BY <1>1, <2>1 DEF SourceInv, SourceTyped, IsExercise, Code
  <2> QED
    BY <1>4, <2>2, BranchSteps DEF Locking
<1>6. p \in DOMAIN Code /\ r \in Nat /\ w \in Nat /\ j \in Nat
  BY <1>1, <1>2, <1>5 DEF Done
<1>7. /\ counter = PastEntry(1, w) + PastEntry(2, w)
      /\ \A u \in Threads : r < pc[u] /\ pc[u] <= w => local[u] = counter
  BY <1>1, <1>4 DEF SourceInv, Counted
<1>8. ASSUME NEW u \in Threads, r < pc[u], pc[u] <= w, r < p, p <= w PROVE u = t
  <2>1. j < pc[u] /\ pc[u] <= j + Code[j].size + 1 /\ j < p /\ p <= j + Code[j].size + 1
    BY <1>2, <1>4, <1>5, <1>6, <1>8
  <2> QED
    BY <1>1, <1>4, <2>1, OneInside DEF SourceInv
<1>9. SUFFICES /\ counter' = PastEntry(1, w)' + PastEntry(2, w)'
               /\ \A u \in Threads : r < pc'[u] /\ pc'[u] <= w => local'[u] = counter'
  <2>1. \A a, b \in DOMAIN Code : Code[a].kind = "read" /\ Code[b].kind = "write" => a = r /\ b = w
    BY <1>4
  <2> QED
    BY <1>1, <2>1 DEF Counted
<1>10. PastEntry(1, w) \in Nat /\ PastEntry(2, w) \in Nat
  BY DEF PastEntry
<1>11. /\ 1 \in Threads /\ 2 \in Threads /\ (t = 1 \/ t = 2)
  BY DEF Threads
<1>12. CASE p = r
  <2>1. s.kind = "read"
    BY <1>4, <1>6, <1>12
  <2>2. local' = [local EXCEPT ![t] = counter] /\ counter' = counter
    BY <2>1 DEF RunBranch
  <2>3. PastEntry(1, w)' = PastEntry(1, w) /\ PastEntry(2, w)' = PastEntry(2, w)
    <3>1. \A u \in Threads : (w < pc'[u]) <=> (w < pc[u])
      BY <1>2, <1>3, <1>4, <1>6, <1>12
    <3> QED
      BY <1>11, <3>1 DEF PastEntry
  <2>4. ASSUME NEW u \in Threads, r < pc'[u], pc'[u] <= w PROVE local'[u] = counter'
    <3>1. CASE u = t
      BY <1>2, <2>2, <3>1
    <3>2. CASE u # t
      BY <1>2, <1>3, <1>7, <2>2, <2>4, <3>2
    <3> QED
      BY <3>1, <3>2
  <2> QED
    BY <1>7, <2>2, <2>3, <2>4
<1>13. CASE p = w
  <2>1. s.kind = "write"
    BY <1>4, <1>6, <1>13
  <2>2. counter' = local[t] + 1 /\ local' = local
    BY <2>1 DEF RunBranch
  <2>3. local[t] = counter
    BY <1>2, <1>4, <1>7, <1>13
  <2>4. PastEntry(t, w) = 0 /\ PastEntry(t, w)' = 1 /\ \A u \in Threads : u # t => PastEntry(u, w)' = PastEntry(u, w)
    <3>1. ~(w < pc[t]) /\ w < pc'[t] /\ \A u \in Threads : u # t => pc'[u] = pc[u]
      BY <1>2, <1>3, <1>6, <1>13
    <3> QED
      BY <3>1 DEF PastEntry
  <2>5. counter' = PastEntry(1, w)' + PastEntry(2, w)'
    <3>1. CASE t = 1
      BY <1>7, <1>10, <1>11, <2>2, <2>3, <2>4, <3>1
    <3>2. CASE t = 2
      BY <1>7, <1>10, <1>11, <2>2, <2>3, <2>4, <3>2
    <3> QED
      BY <1>11, <3>1, <3>2
  <2>6. ASSUME NEW u \in Threads, r < pc'[u], pc'[u] <= w PROVE FALSE
    <3>1. u # t
      BY <1>2, <1>3, <1>13, <2>6
    <3>2. r < pc[u] /\ pc[u] <= w
      BY <1>3, <2>6, <3>1
    <3>3. r < p /\ p <= w
      BY <1>4, <1>6, <1>13
    <3> QED
      BY <1>8, <3>1, <3>2, <3>3
  <2> QED
    BY <2>5, <2>6
<1>14. CASE p # r /\ p # w
  <2>1. s.kind # "read" /\ s.kind # "write"
    BY <1>4, <1>6, <1>14
  <2>2. local' = local /\ counter' = counter
    BY <2>1 DEF RunBranch
  <2>3. PastEntry(1, w)' = PastEntry(1, w) /\ PastEntry(2, w)' = PastEntry(2, w)
    <3>1. \A u \in Threads : (w < pc'[u]) <=> (w < pc[u])
      BY <1>2, <1>3, <1>6, <1>14
    <3> QED
      BY <1>11, <3>1 DEF PastEntry
  <2>4. ASSUME NEW u \in Threads, r < pc'[u], pc'[u] <= w PROVE local'[u] = counter'
    <3>1. r < pc[u] /\ pc[u] <= w
      BY <1>2, <1>3, <1>6, <1>14, <2>4
    <3> QED
      BY <1>7, <2>2, <3>1
  <2> QED
    BY <1>7, <2>2, <2>3, <2>4
<1> QED
  BY <1>12, <1>13, <1>14

LEMMA BranchKeepsStep ==
  ASSUME SourceInv, NEW t \in Threads, RunBranch(t)
  PROVE  SourceInv'
<1>1. SourceTyped' /\ RulingIsEarned'
  BY BranchStaysTyped DEF SourceInv
<1>2. LocksHeld'
  BY LocksStayHeld DEF SourceInv
<1>3. OneContender'
  BY DEF RunBranch, OneContender
<1>4. Counted'
  <2>1. CASE OutOfSight(exercise)
    BY <2>1 DEF RunBranch, Counted
  <2> QED
    BY <2>1, NothingIsLost
<1> QED
  BY <1>1, <1>2, <1>3, <1>4 DEF SourceInv

\* Whoever creates the lock first is the last to find that it is not there.
LEMMA AcquireKeepsStep ==
  ASSUME SourceInv, NEW t \in Threads, RunAcquire(t)
  PROVE  SourceInv'
<1> DEFINE p == pc[t]
           c == Code[p]
           taken == "lock" \in paths /\ (c.name = "exists" \/ (c.creates = "lock" /\ FailsIfExists(c)))
<1>1. /\ exercise.rule = "exclusive" /\ ruling = "passed" /\ exercise' = exercise /\ ruling' = ruling
      /\ Code' = Code /\ local' = local /\ counter' = counter /\ held' = held
      /\ ~Done(t) /\ result[t] = "none"
      /\ pc' = [pc EXCEPT ![t] = @ + 1]
      /\ paths' = paths \cup ({c.creates} \ {"none"})
      /\ result' = [result EXCEPT ![t] = IF taken THEN "False"
                                         ELSE IF p = Len(Code) THEN "True" ELSE "none"]
  BY DEF RunAcquire, Advance, Code
<1>2. /\ pc \in [Threads -> Nat \ {0}] /\ result \in [Threads -> {"none", "True", "False"}]
      /\ p \in Nat \ {0}
  BY DEF SourceInv, SourceTyped
<1>3. Code \in Seq(Calls) /\ Len(Code) \in Nat /\ DOMAIN Code = 1..Len(Code)
  <2>1. Code \in Seq(Calls)
    BY <1>1 DEF SourceInv, SourceTyped, IsExercise, Code
  <2> QED
    BY <2>1
<1>4. p \in DOMAIN Code /\ c \in Calls
  BY <1>1, <1>2, <1>3 DEF Done
<1>5. /\ pc'[t] = p + 1 /\ \A u \in Threads : u # t => pc'[u] = pc[u] /\ result'[u] = result[u]
      /\ result'[t] = IF taken THEN "False" ELSE IF p = Len(Code) THEN "True" ELSE "none"
  BY <1>1, <1>2
<1>6. SourceTyped'
  <2>1. pc' \in [Threads -> Nat \ {0}]
    BY <1>1, <1>2
  <2>2. result' \in [Threads -> {"none", "True", "False"}]
    <3> HIDE DEF taken
    <3> QED
      BY <1>1, <1>2
  <2> QED
    BY <1>1, <2>1, <2>2 DEF SourceInv, SourceTyped
<1>7. RulingIsEarned'
  BY <1>1 DEF SourceInv, RulingIsEarned
<1>8. LocksHeld' /\ Counted'
  <2>1. CASE exercise.rule # "lock"
    BY <1>1, <2>1 DEF LocksHeld, Counted
  <2> QED
    BY <1>1, <2>1
<1>9. \A u \in Threads : result'[u] = "True" => pc'[u] > Len(Code)
  <2>1. \A u \in Threads : result[u] = "True" => pc[u] > Len(Code)
    BY <1>1 DEF SourceInv, OneContender
  <2>2. result'[t] = "True" => p + 1 > Len(Code)
    <3> HIDE DEF taken
    <3> QED
      BY <1>2, <1>3, <1>5
  <2> QED
    BY <1>5, <2>1, <2>2
<1>10. ASSUME NEW i \in DOMAIN Code, CreatesExclusively(Code[i], TRUE), Code[i].name # "link"
       PROVE  /\ \A u \in Threads : Contending(u, i)' => "lock" \in paths'
              /\ ~(Contending(1, i)' /\ Contending(2, i)')
  <2>1. /\ \A u \in Threads : Contending(u, i) => "lock" \in paths
        /\ ~(Contending(1, i) /\ Contending(2, i))
    BY <1>1, <1>10 DEF SourceInv, OneContender
  <2>2. \A u \in Threads : u # t => Contending(u, i)' = Contending(u, i)
    BY <1>5 DEF Contending
  <2>3. "lock" \in paths => "lock" \in paths'
    BY <1>1
  <2>4. Threads = {1, 2}
    BY DEF Threads
  <2>5. CASE i # p
    <3>1. Contending(t, i)' => Contending(t, i)
      BY <1>1, <1>2, <1>3, <1>5, <2>5 DEF Contending
    <3> QED
      BY <2>1, <2>2, <2>3, <2>4, <3>1
  <2>6. CASE i = p
    <3>1. c.creates = "lock" /\ FailsIfExists(c)
      BY <1>4, <1>10, <2>6, ExclusiveCalls
    <3>2. "lock" \in paths'
      BY <1>1, <3>1
    <3>3. CASE "lock" \in paths
      <4>1. ~Contending(t, i)'
        BY <1>5, <3>1, <3>3 DEF Contending
      <4>2. t \in {1, 2}
        BY <2>4
      <4> QED
        BY <3>2, <4>1, <4>2
    <3>4. CASE "lock" \notin paths
      <4>1. \A u \in Threads : u # t => ~Contending(u, i)'
        BY <2>1, <2>2, <3>4
      <4>2. 1 \in Threads /\ 2 \in Threads /\ 1 # 2
        BY <2>4
      <4> QED
        BY <3>2, <4>1, <4>2
    <3> QED
      BY <3>3, <3>4
  <2> QED
    BY <2>5, <2>6
<1>11. OneContender'
  BY <1>1, <1>9, <1>10 DEF OneContender
<1> QED
  BY <1>6, <1>7, <1>8, <1>11 DEF SourceInv

\* Whatever is read, of any size: of the code that the rules accept, two threads lose no
\* update in a branch and of two contenders one at most acquires the lock, but for what
\* OutOfSight names.
THEOREM AcceptedCodeErrsOutOfSight ==
  ASSUME NEW exercises, \A e \in exercises : IsExercise(e)
  PROVE  SourceSpec(exercises) => []WrongOnlyOutOfSight
<1>1. SourceInit(exercises) => SourceInv
  BY SourceInitially
<1>2. SourceInv /\ [SourceNext]_sourceVars => SourceInv'
  <2>1. ASSUME SourceInv, UNCHANGED sourceVars PROVE SourceInv'
    <3>1. /\ exercise' = exercise /\ ruling' = ruling /\ pc' = pc /\ local' = local
          /\ counter' = counter /\ held' = held /\ paths' = paths /\ result' = result
      BY <2>1 DEF sourceVars
    <3>2. SourceTyped' /\ RulingIsEarned'
      BY <2>1, <3>1 DEF SourceInv, SourceTyped, RulingIsEarned
    <3>3. LocksHeld' /\ Counted'
      BY <2>1, <3>1 DEF SourceInv, LocksHeld, Counted, Code, PastEntry
    <3>4. OneContender'
      BY <2>1, <3>1 DEF SourceInv, OneContender, Code, Contending
    <3> QED
      BY <3>2, <3>3, <3>4 DEF SourceInv
  <2> QED
    BY <2>1, CheckKeepsStep, BranchKeepsStep, AcquireKeepsStep DEF SourceNext
<1>3. SourceInv => WrongOnlyOutOfSight
  <2> SUFFICES ASSUME SourceInv, ruling = "passed", ~OutOfSight(exercise)
               PROVE  ~LosesAnUpdate /\ ~TwoHolders
    BY DEF WrongOnlyOutOfSight
  <2>1. 1 \in Threads /\ 2 \in Threads
    BY DEF Threads
  <2>2. ASSUME exercise.rule = "lock", \A t \in Threads : Done(t) PROVE counter = 2
    <3>1. /\ exercise.file.text /\ (Code = <<>> \/ IsBranch(Code)) /\ MustHoldLock(exercise.file)
          /\ ~UnderNamesOnly(Code) /\ ~Split(Code)
      BY <2>2 DEF SourceInv, SourceTyped, IsExercise, RulingIsEarned, OutOfSight, Code
    <3>2. PICK r, w \in DOMAIN Code : Code[r].kind = "read" /\ Code[w].kind = "write"
      BY <3>1, AcceptedBranch DEF Code
    <3>3. IsBranch(Code) /\ w <= Len(Code) /\ Len(Code) \in Nat /\ w \in Nat
      <4>1. IsBranch(Code)
        BY <3>1, <3>2
      <4> QED
        BY <3>2, <4>1, BranchSteps
    <3>4. pc[1] \in Nat /\ pc[2] \in Nat
      BY <2>1 DEF SourceInv, SourceTyped
    <3>5. PastEntry(1, w) = 1 /\ PastEntry(2, w) = 1
      BY <2>1, <2>2, <3>3, <3>4 DEF Done, PastEntry
    <3> QED
      BY <2>2, <3>2, <3>5 DEF SourceInv, Counted
  <2>3. ASSUME exercise.rule = "exclusive" PROVE \E t \in Threads : result[t] # "True"
    <3> SUFFICES ASSUME \A t \in Threads : result[t] = "True" PROVE FALSE
      OBVIOUS
    <3>1. Code \in Seq(Calls) /\ exercise.file.text /\ ~LinksOnly(Code)
      BY <2>3 DEF SourceInv, SourceTyped, IsExercise, OutOfSight, Code
    <3>2. PICK i \in DOMAIN Code : CreatesExclusively(Code[i], TRUE) /\ Code[i].name # "link"
      BY <3>1 DEF LinksOnly
    <3>3. Len(Code) \in Nat /\ i \in Nat /\ i <= Len(Code)
      BY <3>1
    <3>4. pc[1] > Len(Code) /\ pc[2] > Len(Code) /\ pc[1] \in Nat /\ pc[2] \in Nat
      BY <2>1, <2>3 DEF SourceInv, SourceTyped, OneContender
    <3>5. Contending(1, i) /\ Contending(2, i)
      BY <2>1, <3>3, <3>4 DEF Contending
    <3> QED
      BY <2>3, <3>2, <3>5 DEF SourceInv, OneContender
  <2> QED
    BY <2>2, <2>3 DEF LosesAnUpdate, TwoHolders
<1> QED
  BY <1>1, <1>2, <1>3, PTL DEF SourceSpec
================================================================================
