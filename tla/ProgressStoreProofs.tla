-------------------------- MODULE ProgressStoreProofs --------------------------
(***************************************************************************)
(* Proofs about ProgressStore, for every curriculum and every bound.       *)
(*                                                                         *)
(* Each store method takes one state to another; Advance(s, t) says what   *)
(* every one of them keeps.  The inductive invariant adds to the checked   *)
(* invariants that the memory of a running process has at least what the   *)
(* file has, which is why writing the whole memory back loses nothing.     *)
(***************************************************************************)
EXTENDS ProgressStore, TLAPS

\* A record that does not exist has nothing in it.
Canonical(rec) ==
  \A l \in Lessons : rec[l].status = "absent" => rec[l] = AbsentRecord

Gated(rec) ==
  \A l \in Lessons : rec[l].status = "complete" => OwnGates(rec[l], l)

\* rec2 still has every step, answer, explanation and red-stage pass of rec1.
Keeps(rec1, rec2) ==
  \A l \in Lessons :
    /\ rec1[l].steps \subseteq rec2[l].steps
    /\ rec1[l].quiz \subseteq rec2[l].quiz
    /\ rec1[l].explain \subseteq rec2[l].explain
    /\ \A b \in Historical[l] :
         rec1[l].verdict[b] = "passed" => rec2[l].verdict[b] = "passed"

\* A completion that is gone was contradicted by a mandatory check.
RevokedRightly(rec1, rec2) ==
  \A l \in Lessons :
    rec1[l].status = "complete" /\ rec2[l].status # "complete"
    => \E b \in Mandatory[l] :
         rec1[l].verdict[b] = "passed" /\ rec2[l].verdict[b] = "failed"

Good(s) == s \in State /\ Canonical(s.rec) /\ Gated(s.rec)

Advance(s, t) == Good(t) /\ Keeps(s.rec, t.rec) /\ RevokedRightly(s.rec, t.rec)

--------------------------------------------------------------------------------
(* Lemmas about records and states.                                          *)

\* The record a method works on: the stored one, or the template when there is
\* none, which differs from an absent one in its status only.
LEMMA LessonRecordFacts ==
  ASSUME NEW s, Good(s), NEW l \in Lessons
  PROVE  LET r == LessonRecord(s, l)
         IN  /\ r \in Record
             /\ r.status # "absent"
             /\ r.status = "complete" <=> s.rec[l].status = "complete"
             /\ r.steps = s.rec[l].steps
             /\ r.verdict = s.rec[l].verdict
             /\ r.quiz = s.rec[l].quiz
             /\ r.explain = s.rec[l].explain
             /\ r.hints = s.rec[l].hints
<1>1. s.rec[l] \in Record
  BY DEF Good, State
<1>2. EmptyLessonRecord \in Record
  BY DEF EmptyLessonRecord, AbsentRecord, Record, Statuses, Verdicts
<1>3. CASE s.rec[l].status = "absent"
  <2>1. s.rec[l] = AbsentRecord
    BY <1>3 DEF Good, Canonical
  <2>2. LessonRecord(s, l) = EmptyLessonRecord
    BY <1>3 DEF LessonRecord
  <2> QED
    BY <1>2, <2>1, <2>2 DEF EmptyLessonRecord, AbsentRecord
<1>4. CASE s.rec[l].status # "absent"
  BY <1>1, <1>4 DEF LessonRecord
<1> QED
  BY <1>3, <1>4

\* Storing a record q for lesson l is an advance when q keeps what the lesson
\* had, passes the gates if it is complete, and gives a completion up only for a
\* mandatory check that has just failed.
LEMMA SetRecordAdvances ==
  ASSUME NEW s, Good(s), NEW l \in Lessons, NEW q \in Record,
         q.status # "absent",
         q.status = "complete" => OwnGates(q, l),
         s.rec[l].steps \subseteq q.steps,
         s.rec[l].quiz \subseteq q.quiz,
         s.rec[l].explain \subseteq q.explain,
         \A b \in Historical[l] :
           s.rec[l].verdict[b] = "passed" => q.verdict[b] = "passed",
         s.rec[l].status = "complete" /\ q.status # "complete"
           => \E b \in Mandatory[l] :
                s.rec[l].verdict[b] = "passed" /\ q.verdict[b] = "failed"
  PROVE  Advance(s, SetRecord(s, l, q))
<1> DEFINE t == SetRecord(s, l, q)
<1>1. s \in State /\ s.rec \in [Lessons -> Record]
  BY DEF Good, State
<1>2. t.rec = [s.rec EXCEPT ![l] = q]
  BY <1>1 DEF SetRecord, State
<1>3. t \in State
  BY <1>1 DEF SetRecord, State
<1>4. t.rec[l] = q /\ \A k \in Lessons : k # l => t.rec[k] = s.rec[k]
  BY <1>1, <1>2
<1> HIDE DEF t
<1>5. Canonical(t.rec)
  BY <1>4 DEF Canonical, Good
<1>6. Gated(t.rec)
  BY <1>4 DEF Gated, Good
<1>7. Keeps(s.rec, t.rec)
  BY <1>4 DEF Keeps
<1>8. RevokedRightly(s.rec, t.rec)
  BY <1>4 DEF RevokedRightly
<1> QED
  BY <1>3, <1>5, <1>6, <1>7, <1>8 DEF Advance, Good, t

\* last_lesson_id is no part of any record.
LEMMA VisitAdvances ==
  ASSUME NEW s, NEW t, Advance(s, t), NEW l \in Lessons
  PROVE  Advance(s, Visit(t, l)) /\ Visit(t, l).rec = t.rec
<1>1. t \in State
  BY DEF Advance, Good
<1>2. Visit(t, l) \in State /\ Visit(t, l).rec = t.rec
  BY <1>1 DEF Visit, State
<1> QED
  BY <1>2 DEF Advance, Good

\* Neither are the concept counters.
LEMMA BumpAdvances ==
  ASSUME NEW s, NEW t, Advance(s, t), NEW concepts, NEW correct \in BOOLEAN
  PROVE  /\ Advance(s, BumpConcepts(t, concepts, correct))
         /\ BumpConcepts(t, concepts, correct).rec = t.rec
<1>1. t \in State
  BY DEF Advance, Good
<1>2. /\ BumpConcepts(t, concepts, correct) \in State
      /\ BumpConcepts(t, concepts, correct).rec = t.rec
  BY <1>1 DEF BumpConcepts, State
<1> QED
  BY <1>2 DEF Advance, Good

\* Changing nothing is an advance.
LEMMA AdvanceReflexive ==
  ASSUME NEW s, Good(s)
  PROVE  Advance(s, s)
BY DEF Advance, Keeps, RevokedRightly

\* Keeping is transitive: file to memory to new memory.
LEMMA KeepsTransitive ==
  ASSUME NEW r1, NEW r2, NEW r3, Keeps(r1, r2), Keeps(r2, r3)
  PROVE  Keeps(r1, r3)
BY DEF Keeps

--------------------------------------------------------------------------------
(* Every store method is an advance.                                         *)

\* mark_started keeps a completion and everything recorded.
LEMMA MarkStartedAdvances ==
  ASSUME NEW s, Good(s), NEW l \in Lessons
  PROVE  Advance(s, MarkStarted(s, l))
<1> DEFINE r == LessonRecord(s, l)
           q == [r EXCEPT !.started = TRUE,
                          !.baseline = IF r.started THEN @ ELSE s.answered,
                          !.status = IF @ = "not_started" THEN "in_progress" ELSE @]
<1>1. /\ r \in Record /\ r.status # "absent"
      /\ r.status = "complete" <=> s.rec[l].status = "complete"
      /\ r.steps = s.rec[l].steps /\ r.verdict = s.rec[l].verdict
      /\ r.quiz = s.rec[l].quiz /\ r.explain = s.rec[l].explain
  BY LessonRecordFacts
<1> HIDE DEF r
<1>2. s.answered \in Nat
  BY DEF Good, State
<1>3. /\ q \in Record /\ q.status # "absent"
      /\ q.status = "complete" <=> r.status = "complete"
      /\ q.steps = r.steps /\ q.verdict = r.verdict
      /\ q.quiz = r.quiz /\ q.explain = r.explain
  BY <1>1, <1>2 DEF Record, Statuses
<1> HIDE DEF q
<1>4. q.status = "complete" => OwnGates(q, l)
  BY <1>1, <1>3 DEF Good, Gated, OwnGates
<1>5. Advance(s, SetRecord(s, l, q))
  BY <1>1, <1>3, <1>4, SetRecordAdvances
<1>6. Advance(s, Visit(SetRecord(s, l, q), l))
  BY <1>5, VisitAdvances
<1> QED
  BY <1>6 DEF MarkStarted, q, r

\* record_step adds the step and opens no gate.
LEMMA RecordStepAdvances ==
  ASSUME NEW s, Good(s), NEW l \in Lessons, NEW b \in Blocks
  PROVE  /\ Advance(s, RecordStep(s, l, b))
         /\ b \in RecordStep(s, l, b).rec[l].steps
<1> DEFINE r == LessonRecord(s, l)
           q == [r EXCEPT !.steps = @ \cup {b}]
<1>1. /\ r \in Record /\ r.status # "absent"
      /\ r.status = "complete" <=> s.rec[l].status = "complete"
      /\ r.steps = s.rec[l].steps /\ r.verdict = s.rec[l].verdict
      /\ r.quiz = s.rec[l].quiz /\ r.explain = s.rec[l].explain
  BY LessonRecordFacts
<1> HIDE DEF r
<1>2. /\ q \in Record /\ q.status = r.status
      /\ q.steps = r.steps \cup {b} /\ q.verdict = r.verdict
      /\ q.quiz = r.quiz /\ q.explain = r.explain
  BY <1>1 DEF Record
<1> HIDE DEF q
<1>3. q.status = "complete" => OwnGates(q, l)
  BY <1>1, <1>2 DEF Good, Gated, OwnGates
<1>4. Advance(s, SetRecord(s, l, q)) /\ SetRecord(s, l, q).rec[l] = q
  <2>1. Advance(s, SetRecord(s, l, q))
    BY <1>1, <1>2, <1>3, SetRecordAdvances
  <2> QED
    BY <2>1 DEF SetRecord, Good, State
<1>5. /\ Advance(s, Visit(SetRecord(s, l, q), l))
      /\ Visit(SetRecord(s, l, q), l).rec[l] = q
  BY <1>4, VisitAdvances
<1> QED
  BY <1>2, <1>5 DEF RecordStep, q, r

\* record_quiz adds a correct answer and forgets none.
LEMMA RecordQuizAdvances ==
  ASSUME NEW s, Good(s), NEW l \in Lessons, NEW b \in Blocks, NEW correct \in BOOLEAN
  PROVE  /\ Advance(s, RecordQuiz(s, l, b, correct))
         /\ correct => b \in RecordQuiz(s, l, b, correct).rec[l].quiz
<1> DEFINE r == LessonRecord(s, l)
           q == [r EXCEPT !.quiz = IF correct THEN @ \cup {b} ELSE @]
           t == SetRecord(s, l, q)
           u == BumpConcepts(t, LessonConcepts[l], correct)
<1>1. /\ r \in Record /\ r.status # "absent"
      /\ r.status = "complete" <=> s.rec[l].status = "complete"
      /\ r.steps = s.rec[l].steps /\ r.verdict = s.rec[l].verdict
      /\ r.quiz = s.rec[l].quiz /\ r.explain = s.rec[l].explain
  BY LessonRecordFacts
<1> HIDE DEF r
<1>2. /\ q \in Record /\ q.status = r.status
      /\ q.quiz = IF correct THEN r.quiz \cup {b} ELSE r.quiz
      /\ q.verdict = r.verdict /\ q.steps = r.steps /\ q.explain = r.explain
  BY <1>1 DEF Record
<1> HIDE DEF q
<1>3. q.status = "complete" => OwnGates(q, l)
  BY <1>1, <1>2 DEF Good, Gated, OwnGates
<1>4. Advance(s, t) /\ t.rec[l] = q
  <2>1. Advance(s, t)
    BY <1>1, <1>2, <1>3, SetRecordAdvances
  <2> QED
    BY <2>1 DEF SetRecord, Good, State
<1> HIDE DEF t
<1>5. Advance(s, u) /\ u.rec[l] = q
  BY <1>4, BumpAdvances
<1> HIDE DEF u
<1>6. Advance(s, Visit(u, l)) /\ Visit(u, l).rec[l] = q
  BY <1>5, VisitAdvances
<1>7. RecordQuiz(s, l, b, correct) = Visit(u, l)
  BY DEF RecordQuiz, u, t, q, r
<1> QED
  BY <1>2, <1>6, <1>7

\* record_explain adds an accepted explanation and forgets none.
LEMMA RecordExplainAdvances ==
  ASSUME NEW s, Good(s), NEW l \in Lessons, NEW b \in Blocks, NEW passed \in BOOLEAN
  PROVE  /\ Advance(s, RecordExplain(s, l, b, passed))
         /\ passed => b \in RecordExplain(s, l, b, passed).rec[l].explain
<1> DEFINE r == LessonRecord(s, l)
           q == [r EXCEPT !.explain = IF passed THEN @ \cup {b} ELSE @]
           t == SetRecord(s, l, q)
           u == BumpConcepts(t, LessonConcepts[l], passed)
<1>1. /\ r \in Record /\ r.status # "absent"
      /\ r.status = "complete" <=> s.rec[l].status = "complete"
      /\ r.steps = s.rec[l].steps /\ r.verdict = s.rec[l].verdict
      /\ r.quiz = s.rec[l].quiz /\ r.explain = s.rec[l].explain
  BY LessonRecordFacts
<1> HIDE DEF r
<1>2. /\ q \in Record /\ q.status = r.status
      /\ q.explain = IF passed THEN r.explain \cup {b} ELSE r.explain
      /\ q.verdict = r.verdict /\ q.steps = r.steps /\ q.quiz = r.quiz
  BY <1>1 DEF Record
<1> HIDE DEF q
<1>3. q.status = "complete" => OwnGates(q, l)
  BY <1>1, <1>2 DEF Good, Gated, OwnGates
<1>4. Advance(s, t) /\ t.rec[l] = q
  <2>1. Advance(s, t)
    BY <1>1, <1>2, <1>3, SetRecordAdvances
  <2> QED
    BY <2>1 DEF SetRecord, Good, State
<1> HIDE DEF t
<1>5. Advance(s, u) /\ u.rec[l] = q
  BY <1>4, BumpAdvances
<1> HIDE DEF u
<1>6. Advance(s, Visit(u, l)) /\ Visit(u, l).rec[l] = q
  BY <1>5, VisitAdvances
<1>7. RecordExplain(s, l, b, passed) = Visit(u, l)
  BY DEF RecordExplain, u, t, q, r
<1> QED
  BY <1>2, <1>6, <1>7

\* A red-stage check that already passed changes no verdict; any other one
\* overwrites its own verdict and, if it is mandatory and failed, the status.
LEMMA RecordValidationAdvances ==
  ASSUME NEW s, Good(s), NEW l \in Lessons, NEW b \in Verify[l],
         NEW passed \in BOOLEAN, NEW concepts
  PROVE  Advance(s, RecordValidation(s, l, b, passed, concepts))
<1> DEFINE r == LessonRecord(s, l)
           q == [r EXCEPT !.verdict[b] = IF passed THEN "passed" ELSE "failed",
                          !.status = IF Revokes(r, l, b, passed)
                                     THEN "in_progress" ELSE @]
           t == SetRecord(s, l, q)
           credit == IF b \in Mandatory[l] THEN concepts ELSE {}
           u == BumpConcepts(t, credit, passed)
<1>1. /\ r \in Record /\ r.status # "absent"
      /\ r.status = "complete" <=> s.rec[l].status = "complete"
      /\ r.steps = s.rec[l].steps /\ r.verdict = s.rec[l].verdict
      /\ r.quiz = s.rec[l].quiz /\ r.explain = s.rec[l].explain
  BY LessonRecordFacts
<1>2. b \in Blocks /\ Mandatory[l] \subseteq Blocks /\ Historical[l] \subseteq Blocks
  BY CurriculumAssumption
<1>3. r.status = "complete" => OwnGates(r, l)
  BY <1>1 DEF Good, Gated, OwnGates
<1>a. HistoricalStands(s, l, b) <=> b \in Historical[l] /\ r.verdict[b] = "passed"
  BY DEF HistoricalStands
<1>4. CASE HistoricalStands(s, l, b)
  <2>1. Advance(s, SetRecord(s, l, r))
    <3> HIDE DEF r
    <3> QED
      BY <1>1, <1>3, SetRecordAdvances
  <2>2. Advance(s, Visit(SetRecord(s, l, r), l))
    BY <2>1, VisitAdvances
  <2>3. RecordValidation(s, l, b, passed, concepts) = Visit(SetRecord(s, l, r), l)
    BY <1>4 DEF RecordValidation
  <2> QED
    BY <2>2, <2>3
<1>5. CASE ~HistoricalStands(s, l, b)
  <2> HIDE DEF r
  <2>1. /\ q \in Record
        /\ q.status = IF Revokes(r, l, b, passed) THEN "in_progress" ELSE r.status
        /\ q.verdict = [r.verdict EXCEPT ![b] = IF passed THEN "passed" ELSE "failed"]
        /\ q.steps = r.steps /\ q.quiz = r.quiz /\ q.explain = r.explain
    BY <1>1, <1>2 DEF Record, Statuses, Verdicts
  <2>2. r.verdict \in [Blocks -> Verdicts]
    BY <1>1 DEF Record
  <2> HIDE DEF q
  <2>3. /\ q.verdict[b] = IF passed THEN "passed" ELSE "failed"
        /\ \A c \in Blocks : c # b => q.verdict[c] = r.verdict[c]
    BY <2>1, <2>2, <1>2
  <2>4. q.status = "complete" => OwnGates(q, l)
    <3> SUFFICES ASSUME q.status = "complete"
                 PROVE  OwnGates(q, l)
      OBVIOUS
    <3>1. r.status = "complete" /\ (passed \/ b \notin Mandatory[l])
      BY <2>1 DEF Revokes
    <3>2. OwnGates(r, l)
      BY <3>1, <1>3
    <3> QED
      BY <3>1, <3>2, <2>1, <2>3, <1>2 DEF OwnGates
  <2>5. \A c \in Historical[l] :
          s.rec[l].verdict[c] = "passed" => q.verdict[c] = "passed"
    BY <1>1, <1>2, <1>5, <1>a, <2>3
  <2>6. s.rec[l].status = "complete" /\ q.status # "complete"
          => \E c \in Mandatory[l] :
               s.rec[l].verdict[c] = "passed" /\ q.verdict[c] = "failed"
    <3> SUFFICES ASSUME s.rec[l].status = "complete", q.status # "complete"
                 PROVE  /\ b \in Mandatory[l]
                        /\ s.rec[l].verdict[b] = "passed" /\ q.verdict[b] = "failed"
      OBVIOUS
    <3>1. ~passed /\ b \in Mandatory[l]
      BY <1>1, <2>1 DEF Revokes
    <3> QED
      BY <3>1, <1>1, <1>3, <2>3 DEF OwnGates
  <2>7. Advance(s, t)
    BY <1>1, <2>1, <2>4, <2>5, <2>6, SetRecordAdvances
  <2> HIDE DEF t
  <2>8. Advance(s, u)
    BY <2>7, BumpAdvances
  <2> HIDE DEF u
  <2>9. Advance(s, Visit(u, l))
    BY <2>8, VisitAdvances
  <2>10. RecordValidation(s, l, b, passed, concepts) = Visit(u, l)
    BY <1>5 DEF RecordValidation, u, t, q, r
  <2> QED
    BY <2>9, <2>10
<1> QED
  BY <1>4, <1>5

\* record_hint touches the hint count only.
LEMMA RecordHintAdvances ==
  ASSUME NEW s, Good(s), NEW l \in Lessons, NEW index \in Nat
  PROVE  /\ Advance(s, RecordHint(s, l, index))
         /\ RecordHint(s, l, index).rec[l].hints \in Nat
<1> DEFINE r == LessonRecord(s, l)
           q == [r EXCEPT !.hints = IF index + 1 > @ THEN index + 1 ELSE @]
<1>1. /\ r \in Record /\ r.status # "absent"
      /\ r.status = "complete" <=> s.rec[l].status = "complete"
      /\ r.steps = s.rec[l].steps /\ r.verdict = s.rec[l].verdict
      /\ r.quiz = s.rec[l].quiz /\ r.explain = s.rec[l].explain
  BY LessonRecordFacts
<1> HIDE DEF r
<1>2. /\ q \in Record /\ q.status = r.status
      /\ q.verdict = r.verdict /\ q.steps = r.steps
      /\ q.quiz = r.quiz /\ q.explain = r.explain
  BY <1>1 DEF Record
<1> HIDE DEF q
<1>3. q.status = "complete" => OwnGates(q, l)
  BY <1>1, <1>2 DEF Good, Gated, OwnGates
<1>4. Advance(s, SetRecord(s, l, q))
  BY <1>1, <1>2, <1>3, SetRecordAdvances
<1>5. RecordHint(s, l, index) = SetRecord(s, l, q)
  BY DEF RecordHint, q, r
<1>6. RecordHint(s, l, index).rec \in [Lessons -> Record]
  BY <1>4, <1>5 DEF Advance, Good, State
<1> QED
  BY <1>4, <1>5, <1>6 DEF Record

\* record_interview touches no lesson record.
LEMMA RecordInterviewAdvances ==
  ASSUME NEW s, Good(s), NEW concepts, NEW correct \in BOOLEAN
  PROVE  Advance(s, RecordInterview(s, concepts, correct))
<1> DEFINE t == [s EXCEPT !.answered = @ + 1]
<1>1. t \in State /\ t.rec = s.rec
  BY DEF Good, State
<1> HIDE DEF t
<1>2. Advance(s, t)
  BY <1>1, AdvanceReflexive DEF Advance, Good
<1> QED
  BY <1>2, BumpAdvances DEF RecordInterview, t

\* The gates were evaluated on the very state the status is written to.
LEMMA MarkCompleteAdvances ==
  ASSUME NEW s, Good(s), NEW l \in Lessons, OwnGates(s.rec[l], l)
  PROVE  Advance(s, MarkComplete(s, l))
<1> DEFINE r == LessonRecord(s, l)
           q == [r EXCEPT !.status = "complete"]
<1>1. /\ r \in Record
      /\ r.steps = s.rec[l].steps /\ r.verdict = s.rec[l].verdict
      /\ r.quiz = s.rec[l].quiz /\ r.explain = s.rec[l].explain
  BY LessonRecordFacts
<1> HIDE DEF r
<1>2. /\ q \in Record /\ q.status = "complete"
      /\ q.verdict = r.verdict /\ q.steps = r.steps
      /\ q.quiz = r.quiz /\ q.explain = r.explain
  BY <1>1 DEF Record, Statuses
<1> HIDE DEF q
<1>3. OwnGates(q, l)
  BY <1>1, <1>2 DEF OwnGates
<1>4. Advance(s, SetRecord(s, l, q))
  BY <1>1, <1>2, <1>3, SetRecordAdvances
<1> QED
  BY <1>4 DEF MarkComplete, q, r

--------------------------------------------------------------------------------
(* The inductive invariant.                                                  *)

Inv ==
  /\ Good(mem)
  /\ Good(disk)
  /\ up \in BOOLEAN
  /\ avail \in Availabilities
  /\ acked \subseteq Facts \cup HintFacts
  /\ up => Keeps(disk.rec, mem.rec)
  /\ AckedSurvives

\* A step of the store, seen as a step of DurableFacts.
PromiseStep == Promise!Next \/ UNCHANGED Promise!vars

\* What one step may do to the memory of a running process, and to the file.
StepInv ==
  /\ up /\ up' => RevokedRightly(mem.rec, mem'.rec)
  /\ Keeps(disk.rec, disk'.rec)
  /\ PromiseStep

\* The facts of a well-typed state are facts.
LEMMA FactsOfTyped ==
  ASSUME NEW s, Good(s)
  PROVE  FactsOf(s) \subseteq Facts
<1>1. \A l \in Lessons : /\ s.rec[l].steps \subseteq Blocks
                         /\ s.rec[l].quiz \subseteq Blocks
                         /\ s.rec[l].explain \subseteq Blocks
  BY DEF Good, State, Record
<1> QED
  BY <1>1 DEF FactsOf, Fact, Facts

\* A state that keeps another one has its facts.
LEMMA FactsOfKept ==
  ASSUME NEW s, NEW t, Keeps(s.rec, t.rec)
  PROVE  FactsOf(s) \subseteq FactsOf(t)
<1>1. \A l \in Lessons : /\ s.rec[l].steps \subseteq t.rec[l].steps
                         /\ s.rec[l].quiz \subseteq t.rec[l].quiz
                         /\ s.rec[l].explain \subseteq t.rec[l].explain
  BY DEF Keeps
<1> QED
  BY <1>1 DEF FactsOf

\* What is recorded is a fact of the state.
LEMMA RecordedIsFact ==
  ASSUME NEW s, NEW f \in Facts, Recorded(s.rec, f)
  PROVE  f \in FactsOf(s)
<1>1. /\ f.lesson \in Lessons
      /\ f.kind \in {"step", "quiz", "explain"}
      /\ f = Fact(f.kind, f.lesson, f.block)
  BY DEF Facts, Fact
<1>2. CASE f.kind = "step"
  BY <1>1, <1>2 DEF Recorded, FactsOf
<1>3. CASE f.kind = "quiz"
  BY <1>1, <1>3 DEF Recorded, FactsOf
<1>4. CASE f.kind = "explain"
  BY <1>1, <1>4 DEF Recorded, FactsOf
<1> QED
  BY <1>1, <1>2, <1>3, <1>4

\* A missing file has none.
LEMMA EmptyStateFacts == FactsOf(EmptyState) = {}
<1>1. \A l \in Lessons : /\ EmptyState.rec[l].steps = {}
                         /\ EmptyState.rec[l].quiz = {}
                         /\ EmptyState.rec[l].explain = {}
  BY DEF EmptyState, AbsentRecord
<1> QED
  BY <1>1 DEF FactsOf

\* What is recorded stays recorded in a state that keeps it.
LEMMA RecordedKept ==
  ASSUME NEW rec1, NEW rec2, Keeps(rec1, rec2), NEW f \in Facts, Recorded(rec1, f)
  PROVE  Recorded(rec2, f)
<1>1. /\ f.lesson \in Lessons
      /\ f.kind \in {"step", "quiz", "explain"}
  BY DEF Facts
<1>2. /\ rec1[f.lesson].steps \subseteq rec2[f.lesson].steps
      /\ rec1[f.lesson].quiz \subseteq rec2[f.lesson].quiz
      /\ rec1[f.lesson].explain \subseteq rec2[f.lesson].explain
  BY <1>1 DEF Keeps
<1> QED
  BY <1>1, <1>2 DEF Recorded

\* The facts a reply confirms are of the two kinds, which are disjoint.
LEMMA FactsTyped ==
  ASSUME NEW l \in Lessons
  PROVE  /\ \A b \in Blocks, k \in {"step", "quiz", "explain"} : Fact(k, l, b) \in Facts
         /\ \A n \in Nat : HintFact(l, n) \in HintFacts /\ HintFact(l, n) \notin Facts
BY DEF Fact, HintFact, Facts, HintFacts

\* The state of a missing file is a good one.
LEMMA EmptyStateGood == Good(EmptyState)
<1>1. AbsentRecord \in Record
  BY DEF AbsentRecord, Record, Statuses, Verdicts
<1>2. EmptyState \in State /\ \A l \in Lessons : EmptyState.rec[l] = AbsentRecord
  BY <1>1 DEF EmptyState, State, NoLesson
<1>3. AbsentRecord.status = "absent"
  BY DEF AbsentRecord
<1> QED
  BY <1>2, <1>3 DEF Good, Canonical, Gated

\* The first start satisfies the invariant.
LEMMA InitInv == Init => Inv
<1> SUFFICES ASSUME Init PROVE Inv
  OBVIOUS
<1>1. Good(mem) /\ Good(disk)
  BY EmptyStateGood DEF Init
<1>2. Keeps(disk.rec, mem.rec)
  BY DEF Init, Keeps
<1> QED
  BY <1>1, <1>2 DEF Init, Inv, AckedSurvives

\* Saving an advance of the memory keeps the invariant, whether or not the save
\* succeeds.
LEMMA SaveKeepsInv ==
  ASSUME Inv, up, NEW t, Advance(mem, t), NEW facts,
         facts \subseteq Facts \cup HintFacts,
         \A f \in facts \cap Facts : Recorded(t.rec, f),
         SaveLocked(t, facts)
  PROVE  Inv' /\ StepInv
<1>1. Good(t) /\ Keeps(mem.rec, t.rec) /\ RevokedRightly(mem.rec, t.rec)
  BY DEF Advance
<1>2. Keeps(disk.rec, t.rec)
  BY <1>1, KeepsTransitive DEF Inv
<1>3. mem' = t /\ up' = up /\ avail' = avail
  BY DEF SaveLocked
<1>a. FactsOf(mem') \in SUBSET Facts /\ FactsOf(mem) \subseteq FactsOf(mem')
  BY <1>1, <1>3, FactsOfTyped, FactsOfKept
<1>4. CASE disk' = t /\ acked' = acked \cup facts
  <2>1. AckedSurvives'
    BY <1>2, <1>4, RecordedKept DEF Inv, AckedSurvives
  <2>2. Keeps(t.rec, t.rec)
    BY DEF Keeps
  <2>3. acked' \cap Facts \subseteq FactsOf(disk')
    BY <2>1, RecordedIsFact DEF AckedSurvives
  <2>4. Promise!Request
    BY <1>3, <1>4, <1>a, <2>3 DEF Promise!Request
  <2> QED
    BY <1>1, <1>2, <1>3, <1>4, <2>1, <2>2, <2>4 DEF Inv, StepInv, PromiseStep, Promise!Next
<1>5. CASE UNCHANGED <<disk, acked>>
  <2>1. Keeps(disk.rec, disk.rec)
    BY DEF Keeps
  <2>2. Promise!Request
    BY <1>3, <1>5, <1>a DEF Promise!Request
  <2> QED
    BY <1>1, <1>2, <1>3, <1>5, <2>1, <2>2
       DEF Inv, StepInv, AckedSurvives, PromiseStep, Promise!Next
<1> QED
  BY <1>4, <1>5 DEF SaveLocked

\* Every handler, crash and restart preserves the invariant and, as a step, only
\* revokes what a mandatory failure contradicts and only adds to the file.
LEMMA NextInv == Inv /\ [Next]_vars => Inv' /\ StepInv
<1> SUFFICES ASSUME Inv, [Next]_vars
             PROVE  Inv' /\ StepInv
  OBVIOUS
<1> USE DEF Inv
<1>1. ASSUME NEW l \in Lessons, HandleStart(l)
      PROVE  Inv' /\ StepInv
  <2>1. Advance(mem, MarkStarted(mem, l))
    BY MarkStartedAdvances
  <2> QED
    BY <1>1, <2>1, SaveKeepsInv DEF HandleStart
<1>2. ASSUME NEW l \in Lessons, NEW b \in StepBlocks, HandleStep(l, b)
      PROVE  Inv' /\ StepInv
  <2> DEFINE t == RecordStep(mem, l, b)
  <2>1. b \in Blocks
    BY CurriculumAssumption
  <2>2. Advance(mem, t) /\ b \in t.rec[l].steps
    BY <2>1, RecordStepAdvances
  <2> HIDE DEF t
  <2>3. Fact("step", l, b) \in Facts /\ Recorded(t.rec, Fact("step", l, b))
    BY <2>1, <2>2, FactsTyped DEF Recorded, Fact
  <2>4. up /\ SaveLocked(t, {Fact("step", l, b)})
    BY <1>2 DEF HandleStep, t
  <2> QED
    BY <2>2, <2>3, <2>4, SaveKeepsInv
<1>3. ASSUME NEW l \in Lessons, NEW b \in Blocks, NEW correct \in BOOLEAN,
             HandleQuiz(l, b, correct)
      PROVE  Inv' /\ StepInv
  <2> DEFINE t == RecordQuiz(mem, l, b, correct)
             facts == IF correct THEN {Fact("quiz", l, b)} ELSE {}
  <2>1. Advance(mem, t) /\ (correct => b \in t.rec[l].quiz)
    BY RecordQuizAdvances
  <2> HIDE DEF t
  <2>2. correct => /\ Fact("quiz", l, b) \in Facts
               /\ Recorded(t.rec, Fact("quiz", l, b))
    BY <2>1, FactsTyped DEF Recorded, Fact
  <2>3. up /\ SaveLocked(t, facts)
    BY <1>3 DEF HandleQuiz, t
  <2>4. /\ facts \subseteq Facts \cup HintFacts
        /\ \A f \in facts \cap Facts : Recorded(t.rec, f)
    BY <2>2
  <2> HIDE DEF facts
  <2> QED
    BY <2>1, <2>3, <2>4, SaveKeepsInv
<1>4. ASSUME NEW l \in Lessons, NEW b \in Blocks, NEW passed \in BOOLEAN,
             HandleExplain(l, b, passed)
      PROVE  Inv' /\ StepInv
  <2> DEFINE t == RecordExplain(mem, l, b, passed)
             facts == IF passed THEN {Fact("explain", l, b)} ELSE {}
  <2>1. Advance(mem, t) /\ (passed => b \in t.rec[l].explain)
    BY RecordExplainAdvances
  <2> HIDE DEF t
  <2>2. passed => /\ Fact("explain", l, b) \in Facts
               /\ Recorded(t.rec, Fact("explain", l, b))
    BY <2>1, FactsTyped DEF Recorded, Fact
  <2>3. up /\ SaveLocked(t, facts)
    BY <1>4 DEF HandleExplain, t
  <2>4. /\ facts \subseteq Facts \cup HintFacts
        /\ \A f \in facts \cap Facts : Recorded(t.rec, f)
    BY <2>2
  <2> HIDE DEF facts
  <2> QED
    BY <2>1, <2>3, <2>4, SaveKeepsInv
<1>5. ASSUME NEW l \in Lessons, NEW b \in Blocks, NEW passed \in BOOLEAN,
             NEW crashed \in BOOLEAN, HandleValidate(l, b, passed, crashed)
      PROVE  Inv' /\ StepInv
  <2> DEFINE t == RecordValidation(mem, l, b, passed,
                                   IF crashed THEN {} ELSE LessonConcepts[l])
  <2>1. up /\ b \in Verify[l] /\ SaveLocked(t, {})
    BY <1>5 DEF HandleValidate
  <2>2. Advance(mem, t)
    BY <2>1, RecordValidationAdvances
  <2> HIDE DEF t
  <2> QED
    BY <2>1, <2>2, SaveKeepsInv
<1>6. ASSUME NEW l \in Lessons, NEW index \in 0..(Hints[l] - 1), HandleHint(l, index)
      PROVE  Inv' /\ StepInv
  <2> DEFINE t == RecordHint(mem, l, index)
             told == {HintFact(l, t.rec[l].hints)}
  <2>1. index \in Nat
    BY CurriculumAssumption
  <2>2. Advance(mem, t) /\ t.rec[l].hints \in Nat
    BY <2>1, RecordHintAdvances
  <2>3. up /\ (SaveLocked(t, told)
               \/ (acked' = acked \cup told /\ UNCHANGED <<mem, disk, up, avail>>))
    BY <1>6 DEF HandleHint
  <2> HIDE DEF t
  <2>4. told \subseteq HintFacts /\ told \cap Facts = {}
    BY <2>2, FactsTyped
  <2> HIDE DEF told
  <2>5. CASE SaveLocked(t, told)
    BY <2>2, <2>3, <2>4, <2>5, SaveKeepsInv
  <2>6. CASE acked' = acked \cup told /\ UNCHANGED <<mem, disk, up, avail>>
    <3>1. AckedSurvives'
      BY <2>4, <2>6 DEF AckedSurvives
    <3>2. acked' \cap Facts = acked \cap Facts
      BY <2>4, <2>6
    <3>3. PromiseStep
      BY <2>6, <3>2 DEF PromiseStep, Promise!vars
    <3>4. StepInv
      BY <2>6, <3>3 DEF StepInv, RevokedRightly, Keeps
    <3> QED
      BY <2>4, <2>6, <3>1, <3>4
  <2> QED
    BY <2>3, <2>5, <2>6
<1>7. ASSUME NEW l \in Lessons, HandleComplete(l)
      PROVE  Inv' /\ StepInv
  <2>1. up /\ OwnGates(mem.rec[l], l) /\ SaveLocked(MarkComplete(mem, l), {})
    BY <1>7 DEF HandleComplete, LessonCompletion
  <2>2. Advance(mem, MarkComplete(mem, l))
    BY <2>1, MarkCompleteAdvances
  <2> QED
    BY <2>1, <2>2, SaveKeepsInv
<1>8. ASSUME NEW concepts \in QuestionConcepts, NEW correct \in BOOLEAN,
             HandleInterviewAnswer(concepts, correct)
      PROVE  Inv' /\ StepInv
  <2>1. Advance(mem, RecordInterview(mem, concepts, correct))
    BY RecordInterviewAdvances
  <2> QED
    BY <1>8, <2>1, SaveKeepsInv DEF HandleInterviewAnswer
<1>9. CASE Crash
  <2>1. Good(mem')
    BY <1>9, EmptyStateGood DEF Crash
  <2>3. PromiseStep
    BY <1>9, EmptyStateFacts DEF Crash, PromiseStep, Promise!Next, Promise!Stop
  <2>2. StepInv
    BY <1>9, <2>3 DEF Crash, StepInv, Keeps
  <2> QED
    BY <1>9, <2>1, <2>2 DEF Crash, AckedSurvives
<1>10. ASSUME NEW av \in Availabilities, Restart(av)
       PROVE  Inv' /\ StepInv
  <2>1. Keeps(disk.rec, disk.rec)
    BY DEF Keeps
  <2>2. PromiseStep
    BY <1>10 DEF Restart, PromiseStep, Promise!Next, Promise!Start
  <2> QED
    BY <1>10, <2>1, <2>2 DEF Restart, AckedSurvives, StepInv
<1>11. CASE UNCHANGED vars
  <2>1. PromiseStep
    BY <1>11 DEF vars, PromiseStep, Promise!vars
  <2> QED
    BY <1>11, <2>1 DEF vars, AckedSurvives, StepInv, RevokedRightly, Keeps
<1> QED
  BY <1>1, <1>2, <1>3, <1>4, <1>5, <1>6, <1>7, <1>8, <1>9, <1>10, <1>11 DEF Next

--------------------------------------------------------------------------------
(* The theorems.                                                             *)

\* The invariant holds in every reachable state.
THEOREM Invariance == Spec => []Inv
<1>1. Init => Inv
  BY InitInv
<1>2. Inv /\ [Next]_vars => Inv'
  BY NextInv
<1> QED
  BY <1>1, <1>2, PTL DEF Spec

\* Memory and file are well-typed, for every curriculum and any number of
\* crashes, restarts and failed saves.
THEOREM TypeCorrect == Spec => []TypeOK
<1>1. Inv => TypeOK
  BY DEF Inv, Good, TypeOK
<1> QED
  BY <1>1, Invariance, PTL

\* No lesson is stored as complete, in memory or on disk, without its mandatory
\* checks passed, its quizzes answered and its explanations accepted.
THEOREM CompletionIsEarned == Spec => []CompleteImpliesGates
<1>1. Inv => CompleteImpliesGates
  BY DEF Inv, Good, Gated, CompleteImpliesGates
<1> QED
  BY <1>1, Invariance, PTL

\* What a reply confirmed stays in the file.
THEOREM Durability == Spec => []AckedSurvives
<1>1. Inv => AckedSurvives
  BY DEF Inv
<1> QED
  BY <1>1, Invariance, PTL

\* Only the failure of a mandatory check takes a completion back.
THEOREM RevocationIsJustified == Spec => RevokedOnlyByMandatoryFailure
<1>1. StepInv => [\A l \in Lessons :
         up /\ up' /\ mem.rec[l].status = "complete" /\ mem'.rec[l].status # "complete"
         => \E b \in Mandatory[l] :
              mem.rec[l].verdict[b] = "passed" /\ mem'.rec[l].verdict[b] = "failed"]_vars
  BY DEF StepInv, RevokedRightly
<1>2. Inv /\ [Next]_vars => StepInv
  BY NextInv
<1> QED
  BY <1>1, <1>2, Invariance, PTL DEF Spec, RevokedOnlyByMandatoryFailure

\* A red-stage pass in the file is there for good.
THEOREM RedStageStands == Spec => HistoricalPassStands
<1>1. StepInv => [\A l \in Lessons : \A b \in Historical[l] :
         disk.rec[l].verdict[b] = "passed" => disk'.rec[l].verdict[b] = "passed"]_vars
  BY DEF StepInv, Keeps
<1>2. Inv /\ [Next]_vars => StepInv
  BY NextInv
<1> QED
  BY <1>1, <1>2, Invariance, PTL DEF Spec, HistoricalPassStands

\* The store implements DurableFacts: every handler is a request that is saved as a
\* whole or not at all, and every end and start of the process is one there.
THEOREM Refinement == Spec => ImplementsPromise
<1>1. Init => Promise!Init
  BY EmptyStateFacts DEF Init, Promise!Init
<1>2. Inv /\ [Next]_vars => [Promise!Next]_(Promise!vars)
  BY NextInv DEF StepInv, PromiseStep
<1> QED
  BY <1>1, <1>2, Invariance, PTL DEF Spec, ImplementsPromise, Promise!Spec
================================================================================
