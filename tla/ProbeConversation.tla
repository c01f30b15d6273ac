---------------------------- MODULE ProbeConversation ----------------------------
(***************************************************************************)
(* behavior_probe: the validator that starts the DUT, talks to it step by  *)
(* step and turns what it saw into a verdict.  The DUT is the learner's    *)
(* edit of the simulator under a fault the lesson or the learner's         *)
(* manifest selects; probe and DUT take their steps in any order, so an    *)
(* answer may come before or after the probe's timeout.                    *)
(*                                                                         *)
(* A line is the number of the request it answers and what the checks can  *)
(* tell apart in it; elapsed time is whether the line was slow.  Killing   *)
(* and reaping the DUT are the subject of ValidatePipeline.                *)
(***************************************************************************)
EXTENDS Integers, Sequences, FiniteSets

CONSTANTS
  Faults,       \* faults the DUT may run with
  OrganicDelay  \* may the DUT, or the machine, be slow without a fault?

\* What a step expects of the reply, and the budget it must be inside.
Step(want, budget) == [want |-> want, budget |-> budget]

\* ProbeLessons that run the probe: the steps, whether the log has to show the fault,
\* whether the run has to go red, and for which failure.
Probe(steps, log, expectFailure) ==
  [steps |-> steps, log |-> log, expectFailure |-> expectFailure]

StatusLesson == Probe(<<Step("answer", "max")>>, FALSE, FALSE)             \* Days 1, 2
CounterLesson == Probe(<<Step("answer", "none"), Step("answer", "none")>>, FALSE, FALSE)
DelayLesson == Probe(<<Step("answer", "min")>>, TRUE, FALSE)               \* Day 8
MalformedLesson == Probe(<<Step("invalid", "none")>>, FALSE, FALSE)        \* Day 8
DropLesson == Probe(<<Step("closed", "none")>>, FALSE, FALSE)              \* Day 8
SymptomLesson == Probe(<<Step("answer", "max")>>, TRUE, TRUE)              \* Day 14

\* No lesson uses expect_timeout yet; the probe offers it.
SilenceThenAnswer == Probe(<<Step("timeout", "none"), Step("answer", "none")>>, FALSE, FALSE)

ProbeLessons ==
  {StatusLesson, CounterLesson, DelayLesson, MalformedLesson, DropLesson,
   SymptomLesson, SilenceThenAnswer}

VARIABLES
  lesson,    \* the check that runs
  fault,     \* the fault the DUT runs with
  dut,       \* "starting", "serving", "hung" or "exited"
  inbox,     \* requests the DUT has not taken yet
  serving,   \* the request it works on, 0 for none
  outbox,    \* lines on their way to the probe
  eof,       \* has the DUT closed the connection?
  logged,    \* did it log fault_injected?
  step,      \* step of the probe; phase is where it is in it
  phase,     \* "start", "send", "read", "log" or "done"
  latched,   \* reader has timed out once: it raises from then on
  failures,  \* kinds of failures collected
  accepted,  \* history: which line each step took for its reply
  probeVerdict

probeVars == <<lesson, fault, dut, inbox, serving, outbox, eof, logged, step, phase,
               latched, failures, accepted, probeVerdict>>

dutVars == <<fault, dut, inbox, serving, outbox, eof, logged>>

--------------------------------------------------------------------------------
(* The DUT.                                                                  *)

\* It is listening, or gone before it was (a manifest that does not load).
DutStarts ==
  /\ dut = "starting"
  /\ dut' \in {"serving", "exited"}
  /\ UNCHANGED <<lesson, fault, inbox, serving, outbox, eof, logged, step, phase,
                 latched, failures, accepted, probeVerdict>>

\* The handler takes a line; faults that end the conversation come first.
DutTakes ==
  /\ dut = "serving" /\ serving = 0 /\ ~eof
  /\ inbox # <<>>
  /\ inbox' = Tail(inbox)
  /\ serving' = IF fault \in {"exit", "drop"} THEN 0 ELSE Head(inbox)
  /\ dut' = CASE fault = "exit" -> "exited" [] fault = "hang" -> "hung" [] OTHER -> dut
  /\ eof' = (fault \in {"exit", "drop"})
  /\ logged' = (logged \/ fault # "none")
  /\ UNCHANGED <<lesson, fault, outbox, step, phase, latched, failures, accepted, probeVerdict>>

\* It answers, rightly or wrongly, at any time.
DutAnswers(right, slow) ==
  /\ dut = "serving" /\ serving # 0
  /\ fault = "delay" => slow
  /\ slow => fault = "delay" \/ OrganicDelay
  /\ outbox' = Append(outbox, [for |-> serving, json |-> fault # "malformed",
                               right |-> right, slow |-> slow])
  /\ serving' = 0
  /\ UNCHANGED <<lesson, fault, dut, inbox, eof, logged, step, phase, latched, failures,
                 accepted, probeVerdict>>

--------------------------------------------------------------------------------
(* The probe.                                                                *)

\* The end of a step: the next one, or the end of the conversation.
ToStep(n) ==
  /\ step' = n
  /\ phase' = IF n > Len(lesson.steps) THEN "log" ELSE "send"

Leave == step' = step /\ phase' = "log"

\* _wait_for_port, and the look at process.poll() behind it.
ProbeConnects ==
  /\ phase = "start"
  /\ dut # "starting"
  /\ IF dut = "serving"
     THEN ToStep(1) /\ UNCHANGED failures
     ELSE Leave /\ failures' = failures \cup {"not ready"}
  /\ UNCHANGED dutVars
  /\ UNCHANGED <<lesson, latched, accepted, probeVerdict>>

\* sendall: behind an end of file it may fail or go nowhere.
ProbeSends ==
  /\ phase = "send"
  /\ \/ /\ inbox' = Append(inbox, step)
        /\ phase' = "read"
        /\ UNCHANGED <<step, failures>>
     \/ /\ eof
        /\ Leave
        /\ failures' = failures \cup {"send"}
        /\ UNCHANGED inbox
  /\ UNCHANGED <<lesson, fault, dut, serving, outbox, eof, logged, latched, accepted,
                 probeVerdict>>

Want == lesson.steps[step].want

\* Mutant: the reader can be used again after it has timed out.
ReadRaises_OnlyWhileSilent == outbox = <<>> /\ ~eof

\* readline raises: nothing came within response_timeout, or it had raised before
\* ("cannot read from timed out object").
ReadRaises == latched \/ (outbox = <<>> /\ ~eof)

ProbeTimesOut ==
  /\ phase = "read"
  /\ ReadRaises
  /\ latched' = TRUE
  /\ IF Want = "timeout"
     THEN ToStep(step + 1) /\ UNCHANGED failures
     ELSE Leave /\ failures' = failures \cup {"timed out"}
  /\ UNCHANGED dutVars
  /\ UNCHANGED <<lesson, accepted, probeVerdict>>

ProbeReadsEnd ==
  /\ phase = "read"
  /\ ~ReadRaises
  /\ outbox = <<>> /\ eof
  /\ IF Want = "closed"
     THEN ToStep(step + 1) /\ UNCHANGED failures
     ELSE Leave /\ failures' = failures \cup {"closed"}
  /\ UNCHANGED dutVars
  /\ UNCHANGED <<lesson, latched, accepted, probeVerdict>>

\* What is wrong with a line, for a step that expects `want` inside `budget`.
Misses(line, want, budget) ==
  IF want \in {"timeout", "closed"} THEN {"unexpected reply"}
  ELSE IF ~line.json THEN (IF want = "invalid" THEN {} ELSE {"not json"})
  ELSE IF want = "invalid" THEN {"valid json"}
  ELSE (IF line.right THEN {} ELSE {"payload"})
       \cup (IF budget = "max" /\ line.slow THEN {"over budget"} ELSE {})
       \cup (IF budget = "min" /\ ~line.slow THEN {"under minimum"} ELSE {})

ProbeReads ==
  /\ phase = "read"
  /\ ~ReadRaises
  /\ outbox # <<>>
  /\ failures' = failures \cup Misses(Head(outbox), Want, lesson.steps[step].budget)
  /\ accepted' = [accepted EXCEPT ![step] = Head(outbox)]
  /\ outbox' = Tail(outbox)
  /\ ToStep(step + 1)
  /\ UNCHANGED <<lesson, fault, dut, inbox, serving, eof, logged, latched, probeVerdict>>

\* Mutant: the stated failure, whatever else is wrong.
Judged_SymptomAmongOthers(f) ==
  IF lesson.expectFailure THEN "over budget" \in f ELSE f = {}

\* The verdict: no failure, or exactly the stated one.
Judged(f) ==
  IF lesson.expectFailure THEN f = {"over budget"} ELSE f = {}

\* The log is read, the DUT stopped, and the whole judged; `overrun` is a run that
\* took longer than timeout_seconds.
ProbeJudges(overrun) ==
  /\ phase = "log"
  /\ phase' = "done"
  /\ failures' = failures
       \cup (IF lesson.log /\ ~logged THEN {"log"} ELSE {})
       \cup (IF overrun THEN {"overrun"} ELSE {})
  /\ probeVerdict' = IF Judged(failures') THEN "passed" ELSE "failed"
  /\ dut' = "exited"
  /\ UNCHANGED <<lesson, fault, inbox, serving, outbox, eof, logged, step, latched, accepted>>

ProbeInit(lessons, faults) ==
  /\ lesson \in lessons
  /\ fault \in faults
  /\ dut = "starting"
  /\ inbox = <<>> /\ serving = 0 /\ outbox = <<>>
  /\ eof = FALSE /\ logged = FALSE
  /\ step = 1 /\ phase = "start" /\ latched = FALSE
  /\ failures = {}
  /\ accepted = [i \in 1..2 |-> [for |-> 0]]
  /\ probeVerdict = "none"

ProbeNext ==
  \/ DutStarts
  \/ DutTakes
  \/ \E right, slow \in BOOLEAN : DutAnswers(right, slow)
  \/ ProbeConnects
  \/ ProbeSends
  \/ ProbeTimesOut
  \/ ProbeReadsEnd
  \/ ProbeReads
  \/ \E overrun \in BOOLEAN : ProbeJudges(overrun)

--------------------------------------------------------------------------------

\* A line read late must not count for another step: in a run that passed, every
\* reply that was checked answers the request of the step that checked it.
CheckedReplyIsForItsStep ==
  probeVerdict = "passed" =>
    \A i \in DOMAIN lesson.steps :
      lesson.steps[i].want \in {"answer", "invalid"} => accepted[i].for = i

\* "It has to be red for the stated reason, and for that reason only": a symptom
\* run that passed had a configured delay and a right answer behind it, not a slow
\* machine, a slow edit or a wrong payload.
SymptomIsInjected ==
  probeVerdict = "passed" /\ lesson.expectFailure =>
    fault = "delay" /\ accepted[1].right /\ accepted[1].slow

\* "It only passes because your file exists and says drop_connection" (day08.json):
\* a manifest that ends the process closes the connection too, see the README.
DropLessonShowsDrop ==
  probeVerdict = "passed" /\ lesson = DropLesson => fault = "drop"
================================================================================
