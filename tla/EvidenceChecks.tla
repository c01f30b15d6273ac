----------------------------- MODULE EvidenceChecks -----------------------------
(***************************************************************************)
(* The checks that follow one requirement through the learner's checkout   *)
(* (Days 2, 5, 7 and 10): pytest_check runs the test file, red first and   *)
(* then green, source_check looks for the requirement marker, and          *)
(* artifact_check for the traceability row and for the JUnit report that   *)
(* the learner kept, which is a file of its own and may be of an earlier   *)
(* run.  Each judges a different file by a name pattern; what a lesson with*)
(* all of them green means to show is one linked, executed test.           *)
(*                                                                         *)
(* A checkout is chosen once; the checks are then pressed in any order, as *)
(* often as one likes, and a pytest run may time out.  A name is one value.*)
(***************************************************************************)

CONSTANTS
  Names,          \* names a test function may have
  MatchingNames,  \* those that match the lesson's pattern
  ModuleName      \* what pytest calls the testcase of a file that does not import

ASSUME EvidenceAssumption == MatchingNames \subseteq Names \cup {ModuleName}

Outcomes == {"passed", "failed", "error", "skipped"}
Tests == [name : Names, marked : BOOLEAN, parametrized : BOOLEAN, outcome : Outcomes]

\* The test file: it may be missing, empty, or not parse.
TestFile(state, tests) == [state |-> state, tests |-> tests]
NoTests == {TestFile(state, {}) : state \in {"missing", "broken", "empty"}}

\* traceability.csv: the requirement a row is about and the test it cites.  And a JUnit
\* report: testcases.  Either is a file with entries, or with no text at all.
Rows == [requirement : {"this", "other"}, cites : Names]
Testcases == [name : Names \cup {ModuleName}, outcome : Outcomes]
File(entries) == [text |-> TRUE, entries |-> entries]
EmptyFile == [text |-> FALSE, entries |-> {}]

--------------------------------------------------------------------------------
(* What pytest does with the file.                                           *)

\* The JUnit report: a testcase per test, or one for a file that does not import.
Report(file) ==
  IF file.state = "broken"
  THEN {[name |-> ModuleName, outcome |-> "error"]}
  ELSE {[name |-> t.name, outcome |-> t.outcome] : t \in file.tests}

ExitZero(file) ==
  /\ Report(file) # {}
  /\ \A c \in Report(file) : c.outcome \in {"passed", "skipped"}

\* _junit_test_names: names, not testcases.
NamesIn(cases) == {c.name : c \in cases}
NamesWith(report, outcome) == NamesIn({c \in report : c.outcome = outcome})

\* Mutant: any nonzero exit is red enough.
JunitShows_AnyRed(report, assertion) ==
  LET names == NamesIn(report) \cap MatchingNames
  IN  names # {} /\ ~(names \subseteq NamesWith(report, "skipped"))

\* The loop over junit_contains, for the lesson's pattern.
JunitShows(report, assertion) ==
  LET names == NamesIn(report) \cap MatchingNames
  IN  /\ names # {}
      /\ ~(names \subseteq NamesWith(report, "skipped"))
      /\ assertion => names \cap NamesWith(report, "failed") # {}

\* pytest_check.run.  The report of a run that timed out is not there.
PytestCheck(file, expect, assertion, timedOut) ==
  /\ ~timedOut
  /\ (expect = "pass") <=> ExitZero(file)
  /\ JunitShows(Report(file), assertion)

--------------------------------------------------------------------------------
(* What the files say.                                                       *)

Matching(file) == {t \in file.tests : t.name \in MatchingNames}

\* Mutant: some function is marked, some function matches.
MarkedNames_AnyFunction(file) == IF \E t \in file.tests : t.marked THEN Names ELSE {}

\* _marked_functions returns names.
MarkedNames(file) == {t.name : t \in {u \in file.tests : u.marked}}

\* must_mark_function of source_check; a file without text is not looked at.
MustMarkFunction(file) ==
  \/ file.state = "empty"
  \/ /\ file.state = "python"
     /\ \E t \in Matching(file) : t.name \in MarkedNames(file) /\ t.parametrized

\* csv_row_matches of artifact_check: every column in the same row.
CsvRowMatches(file) ==
  \/ ~file.text
  \/ \E r \in file.entries : r.requirement = "this" /\ r.cites \in MatchingNames

\* junit_testcase of artifact_check, on the report the learner kept.
JunitTestcase(file, expected) ==
  \/ ~file.text
  \/ \E c \in file.entries : c.name \in MatchingNames /\ c.outcome = expected

--------------------------------------------------------------------------------

Checks == {"red", "green", "marker", "trace", "audit"}

VARIABLES
  checkout,  \* the test file, the rows, and the report the learner kept
  passed     \* the checks that passed when they were last pressed

evidenceVars == <<checkout, passed>>

\* Any checkout; and those tried: at most two tests and two rows, and a report of the test
\* file as it is, or one with at most one testcase, passed or failed.
Checkouts ==
  [tests : NoTests \cup {TestFile("python", ts) : ts \in SUBSET Tests},
   rows : {File(rs) : rs \in SUBSET Rows} \cup {EmptyFile},
   kept : {File(cs) : cs \in SUBSET Testcases} \cup {EmptyFile}]

AtMostTwo(S) == {{}} \cup {{x, y} : x, y \in S}
OtherReports ==
  {File({}), EmptyFile}
  \cup {File({[name |-> n, outcome |-> o]}) : n \in Names \cup {ModuleName}, o \in {"passed", "failed"}}
CheckoutsTried ==
  UNION {[tests : {file},
          rows : {File(rs) : rs \in AtMostTwo(Rows)} \cup {EmptyFile},
          kept : {File(Report(file))} \cup OtherReports]
           : file \in NoTests \cup {TestFile("python", ts) : ts \in AtMostTwo(Tests)}}

EvidenceInit(checkouts) ==
  /\ checkout \in checkouts
  /\ passed = {}

Verdict(c, timedOut) ==
  CASE c = "red"    -> PytestCheck(checkout.tests, "fail", TRUE, timedOut)
    [] c = "green"  -> PytestCheck(checkout.tests, "pass", FALSE, timedOut)
    [] c = "marker" -> MustMarkFunction(checkout.tests)
    [] c = "trace"  -> CsvRowMatches(checkout.rows)
    [] c = "audit"  -> JunitTestcase(checkout.kept, "passed")

\* Verify, one press.  Only pytest_check runs something that can time out.
Press(c, timedOut) ==
  /\ timedOut => c \in {"red", "green"}
  /\ passed' = IF Verdict(c, timedOut) THEN passed \cup {c} ELSE passed \ {c}
  /\ UNCHANGED checkout

EvidenceNext == \E c \in Checks, timedOut \in BOOLEAN : Press(c, timedOut)

EvidenceSpec == EvidenceInit(CheckoutsTried) /\ [][EvidenceNext]_evidenceVars

--------------------------------------------------------------------------------

\* One test that carries the marker, is cited by the requirement's row, and was executed
\* and passed.
OneLinked ==
  \E t \in Matching(checkout.tests) :
    /\ t.marked /\ t.parametrized /\ t.outcome = "passed"
    /\ [requirement |-> "this", cites |-> t.name] \in checkout.rows.entries

\* What the checks do not see: that several tests match the pattern, in the file or between
\* file and rows; that a file they skip is empty; that the kept report is not of this file.
SeveralMatch ==
  \E t \in Matching(checkout.tests) :
    \/ \E u \in Matching(checkout.tests) : u # t
    \/ \E r \in checkout.rows.entries : r.cites \in MatchingNames \ {t.name}
NothingThere == checkout.tests.state = "empty" \/ ~checkout.rows.text
KeptIsOther == checkout.kept # File(Report(checkout.tests))

\* "Which binds the marker to the function the other gates match" (source_check.py:420):
\* when marker, traceability row and a run, pressed or kept, are all accepted and yet no one
\* test is marked, cited, executed and passed, it is for one of the reasons above.
UnlinkedOnlyOutOfSight ==
  /\ {"marker", "trace", "green"} \subseteq passed =>
       OneLinked \/ SeveralMatch \/ NothingThere
  /\ {"marker", "trace", "audit"} \subseteq passed =>
       OneLinked \/ SeveralMatch \/ NothingThere \/ KeptIsOther

\* "Every condition here must hold on ONE function" (source_check.py:410): of files that are
\* there, tests of different names and rows that cite tests of the file, marker, row and
\* green run together show one linked test.  Not so in the code.
OneTestIsLinked ==
  {"marker", "trace", "green"} \subseteq passed =>
    \/ OneLinked
    \/ NothingThere
    \/ \E t, u \in checkout.tests.tests : t # u /\ t.name = u.name
    \/ \E r \in checkout.rows.entries : r.cites \notin NamesIn(checkout.tests.tests)

\* "A red stage has to be red for the right reason" (pytest_check.py): a test of
\* the lesson failed by assertion, and the file imported.
RedIsAFailedTest ==
  "red" \in passed => \E t \in Matching(checkout.tests) : t.outcome = "failed"
================================================================================
