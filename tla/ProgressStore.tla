----------------------------- MODULE ProgressStore -----------------------------
(***************************************************************************)
(* The learner-progress store of the learning server: the in-memory state  *)
(* that every request handler updates under ProgressStore._lock, the file  *)
(* it is saved to, and the process that may die and be started again.      *)
(*                                                                         *)
(* One action is one call of a store method by its HTTP handler.  The lock *)
(* is held for the whole method, so a method is one step; what is not      *)
(* atomic is "memory, then file": the save at the end of a method can fail *)
(* (OSError), which leaves the memory changed, the file as it was, and the *)
(* request without an answer.                                              *)
(*                                                                         *)
(* Data is kept as far as the gates read it.  Lists of ids that are only   *)
(* ever appended to without duplicates are sets; timestamps, attempts and  *)
(* quiz_attempts, which nothing reads back, are left out; a concept's two  *)
(* counters are kept as "has this counter moved"; the interview section is *)
(* kept as the total that _interview_total_locked computes from it.        *)
(***************************************************************************)
EXTENDS Integers

CONSTANTS
  N,                 \* number of lessons; lesson l is ordered_lesson_ids[l-1]
  Blocks,            \* block ids
  Concepts,
  Prerequisites,     \* the curriculum, one function of the lesson each
  Verify,
  Mandatory,
  Historical,
  Quiz,
  Explain,
  Hints,             \* number of hints
  LessonConcepts,
  QuestionConcepts,  \* the concept sets an interview question may carry
  Availabilities,    \* the sets of lessons a toolchain can make available
  StepBlocks,        \* bound: the ids /api/step is asked to record
  MaxAnswers,        \* bound on interview answers
  DiskFaults         \* may _save_locked raise OSError?

Lessons == 1..N

\* What load_curriculum has checked before a server exists: prerequisites
\* resolve and point backwards, and every id belongs to its own block list.
ASSUME CurriculumAssumption ==
  /\ N \in Nat \ {0}
  /\ Prerequisites \in [Lessons -> SUBSET Lessons]
  /\ \A l \in Lessons : \A p \in Prerequisites[l] : p < l
  /\ Verify \in [Lessons -> SUBSET Blocks]
  /\ Mandatory \in [Lessons -> SUBSET Blocks]
  /\ Historical \in [Lessons -> SUBSET Blocks]
  /\ \A l \in Lessons : Mandatory[l] \cup Historical[l] \subseteq Verify[l]
  /\ Quiz \in [Lessons -> SUBSET Blocks]
  /\ Explain \in [Lessons -> SUBSET Blocks]
  /\ Hints \in [Lessons -> Nat]
  /\ LessonConcepts \in [Lessons -> SUBSET Concepts]
  /\ QuestionConcepts \subseteq SUBSET Concepts
  /\ Availabilities \subseteq SUBSET Lessons
  /\ Availabilities # {}
  /\ StepBlocks \subseteq Blocks
  /\ MaxAnswers \in Nat
  /\ DiskFaults \in BOOLEAN

NoLesson == 0

Statuses == {"absent", "not_started", "in_progress", "complete"}
Verdicts == {"none", "failed", "passed"}

Record ==
  [status   : Statuses,
   steps    : SUBSET Blocks,
   verdict  : [Blocks -> Verdicts],
   quiz     : SUBSET Blocks,
   explain  : SUBSET Blocks,
   hints    : Nat,
   baseline : Nat,
   started  : BOOLEAN]

State ==
  [rec      : [Lessons -> Record],
   last     : Lessons \cup {NoLesson},
   evidence : [Concepts -> SUBSET {"correct", "incorrect"}],
   answered : Nat]

\* An absent record is written with the template's values and its own status,
\* so that "absent" and "present" differ in one field.
AbsentRecord ==
  [status |-> "absent", steps |-> {}, verdict |-> [b \in Blocks |-> "none"],
   quiz |-> {}, explain |-> {}, hints |-> 0, baseline |-> 0, started |-> FALSE]

EmptyLessonRecord == [AbsentRecord EXCEPT !.status = "not_started"]

EmptyState ==
  [rec |-> [l \in Lessons |-> AbsentRecord], last |-> NoLesson,
   evidence |-> [c \in Concepts |-> {}], answered |-> 0]

VARIABLES
  mem,     \* ProgressStore._state
  disk,    \* .progress.json; EmptyState stands for "no file", which loads as it
  up,      \* is a server process running?
  avail,   \* lessons whose status the running process loaded as "available"
  acked    \* history: what an HTTP reply has said is recorded

vars == <<mem, disk, up, avail, acked>>

Facts == [kind : {"step", "quiz", "explain"}, lesson : Lessons, block : Blocks]
HintFacts == [kind : {"hint"}, lesson : Lessons, revealed : Nat]

--------------------------------------------------------------------------------
(* Completion: the gates of a lesson and of the lessons it builds on.        *)

\* The part of the gate that is read from the lesson's own record.
OwnGates(r, l) ==
  /\ \A b \in Mandatory[l] : r.verdict[b] = "passed"
  /\ Quiz[l] \subseteq r.quiz
  /\ Explain[l] \subseteq r.explain

\* Mutant: stored statuses are trusted, the chain is not re-evaluated.
CompletionMap_StoredStatus(s, av) ==
  [l \in Lessons |-> s.rec[l].status = "complete"]

\* completion_map: the single definition of "complete", for every lesson.
\* (What the `seen` set of the code adds is the subject of CompletionGate.)
CompletionMap(s, av) ==
  LET complete[l \in Lessons] ==
        /\ s.rec[l].status = "complete"
        /\ l \in av
        /\ \A p \in Prerequisites[l] : complete[p]
        /\ OwnGates(s.rec[l], l)
  IN  complete

LessonCompletion(s, av, l) ==
  /\ l \in av
  /\ s.rec[l].status # "absent"
  /\ \A p \in Prerequisites[l] : CompletionMap(s, av)[p]
  /\ OwnGates(s.rec[l], l)

\* Mutant: a lesson that is open is taken for one that can be worked on.
Actionable_AnyIncomplete(complete, av, l) == l \in av /\ ~complete[l]

\* is_actionable of resume_lesson_id, over the map it has taken.
Actionable(complete, av, l) ==
  /\ l \in av
  /\ ~complete[l]
  /\ \A p \in Prerequisites[l] : complete[p]

\* The rest of resume_lesson_id: the map and last_lesson_id are two reads.
ResumeFrom(complete, last, av) ==
  IF last # NoLesson /\ Actionable(complete, av, last)
  THEN last
  ELSE IF \E l \in Lessons : Actionable(complete, av, l)
       THEN CHOOSE l \in Lessons :
              /\ Actionable(complete, av, l)
              /\ \A k \in 1..(l - 1) : ~Actionable(complete, av, k)
       ELSE N

--------------------------------------------------------------------------------
(* The state each store method leaves in memory.                             *)

\* Mutant: the template replaces what is there.
LessonRecord_Fresh(s, l) == EmptyLessonRecord

LessonRecord(s, l) ==
  IF s.rec[l].status = "absent" THEN EmptyLessonRecord ELSE s.rec[l]

SetRecord(s, l, r) == [s EXCEPT !.rec[l] = r]

BumpConcepts(s, concepts, correct) ==
  [s EXCEPT !.evidence =
     [c \in Concepts |-> IF c \in concepts
                         THEN @[c] \cup {IF correct THEN "correct" ELSE "incorrect"}
                         ELSE @[c]]]

Visit(s, l) == [s EXCEPT !.last = l]

\* Mutant: a baseline at every entry.
MarkStarted_EveryTime(s, l) ==
  LET r == LessonRecord(s, l)
  IN  Visit(SetRecord(s, l,
        [r EXCEPT !.started = TRUE,
                  !.baseline = s.answered,
                  !.status = IF @ = "not_started" THEN "in_progress" ELSE @]), l)

MarkStarted(s, l) ==
  LET r == LessonRecord(s, l)
  IN  Visit(SetRecord(s, l,
        [r EXCEPT !.started = TRUE,
                  !.baseline = IF r.started THEN @ ELSE s.answered,
                  !.status = IF @ = "not_started" THEN "in_progress" ELSE @]), l)

RecordStep(s, l, b) ==
  Visit(SetRecord(s, l, [LessonRecord(s, l) EXCEPT !.steps = @ \cup {b}]), l)

RecordQuiz(s, l, b, correct) ==
  LET r == LessonRecord(s, l)
      t == SetRecord(s, l, [r EXCEPT !.quiz = IF correct THEN @ \cup {b} ELSE @])
  IN  Visit(BumpConcepts(t, LessonConcepts[l], correct), l)

RecordExplain(s, l, b, passed) ==
  LET r == LessonRecord(s, l)
      t == SetRecord(s, l, [r EXCEPT !.explain = IF passed THEN @ \cup {b} ELSE @])
  IN  Visit(BumpConcepts(t, LessonConcepts[l], passed), l)

\* Mutant: a red-stage check is overwritten like any other.
HistoricalStands_Never(s, l, b) == FALSE

\* A red-stage pass stands: nothing but last_lesson_id moves.
HistoricalStands(s, l, b) ==
  b \in Historical[l] /\ LessonRecord(s, l).verdict[b] = "passed"

\* Mutants: a red check never revokes; any red check revokes.
Revokes_Never(r, l, b, passed) == FALSE

Revokes_AnyCheck(r, l, b, passed) == ~passed /\ r.status = "complete"

Revokes(r, l, b, passed) ==
  ~passed /\ b \in Mandatory[l] /\ r.status = "complete"

RecordValidation(s, l, b, passed, concepts) ==
  LET r == LessonRecord(s, l)
      t == SetRecord(s, l,
             [r EXCEPT !.verdict[b] = IF passed THEN "passed" ELSE "failed",
                       !.status = IF Revokes(r, l, b, passed)
                                  THEN "in_progress" ELSE @])
      credit == IF b \in Mandatory[l] THEN concepts ELSE {}
  IN  IF HistoricalStands(s, l, b)
      THEN Visit(SetRecord(s, l, r), l)
      ELSE Visit(BumpConcepts(t, credit, passed), l)

RecordHint(s, l, index) ==
  LET r == LessonRecord(s, l)
  IN  SetRecord(s, l, [r EXCEPT !.hints = IF index + 1 > @ THEN index + 1 ELSE @])

RecordInterview(s, concepts, correct) ==
  BumpConcepts([s EXCEPT !.answered = @ + 1], concepts, correct)

MarkComplete(s, l) ==
  SetRecord(s, l, [LessonRecord(s, l) EXCEPT !.status = "complete"])

--------------------------------------------------------------------------------
(* The handlers.                                                             *)

\* Mutant: the OSError is suppressed and the request answered all the same.
SaveLocked_Suppressed(s, facts) ==
  /\ mem' = s
  /\ disk' = s \/ (DiskFaults /\ UNCHANGED disk)
  /\ acked' = acked \cup facts
  /\ UNCHANGED <<up, avail>>

\* The end of every mutating method.  temp file + os.replace: the file is the
\* old state or the new one, never a torn one.  When the save raises, the
\* handler dies without a reply and the memory keeps the change.
SaveLocked(s, facts) ==
  /\ mem' = s
  /\ \/ disk' = s /\ acked' = acked \cup facts
     \/ DiskFaults /\ UNCHANGED <<disk, acked>>
  /\ UNCHANGED <<up, avail>>

Fact(kind, l, b) == [kind |-> kind, lesson |-> l, block |-> b]
HintFact(l, n) == [kind |-> "hint", lesson |-> l, revealed |-> n]

HandleStart(l) ==
  /\ up
  /\ l \in avail
  /\ SaveLocked(MarkStarted(mem, l), {})

\* /api/step with kind learn, do or predict.  The block id is not looked up:
\* any string is recorded, also for a lesson that is unavailable or locked.
HandleStep(l, b) ==
  /\ up
  /\ SaveLocked(RecordStep(mem, l, b), {Fact("step", l, b)})

HandleQuiz(l, b, correct) ==
  /\ up
  /\ b \in Quiz[l]
  /\ SaveLocked(RecordQuiz(mem, l, b, correct),
                IF correct THEN {Fact("quiz", l, b)} ELSE {})

HandleExplain(l, b, passed) ==
  /\ up
  /\ b \in Explain[l]
  /\ SaveLocked(RecordExplain(mem, l, b, passed),
                IF passed THEN {Fact("explain", l, b)} ELSE {})

\* The part of /api/validate that runs after the validator: a check that
\* crashed is a failure that says nothing about the lesson's concepts.
HandleValidate(l, b, passed, crashed) ==
  /\ up
  /\ l \in avail
  /\ b \in Verify[l]
  /\ crashed => ~passed
  /\ SaveLocked(RecordValidation(mem, l, b, passed,
                                 IF crashed THEN {} ELSE LessonConcepts[l]), {})

\* Asking again for a hint already revealed is answered without a save.
HandleHint(l, index) ==
  /\ up
  /\ LET s == RecordHint(mem, l, index)
         told == {HintFact(l, s.rec[l].hints)}
     IN  IF s.rec[l].hints # mem.rec[l].hints
         THEN SaveLocked(s, told)
         ELSE /\ acked' = acked \cup told
              /\ UNCHANGED <<mem, disk, up, avail>>

HandleComplete(l) ==
  /\ up
  /\ LessonCompletion(mem, avail, l)
  /\ SaveLocked(MarkComplete(mem, l), {})

HandleInterviewAnswer(concepts, correct) ==
  /\ up
  /\ mem.answered < MaxAnswers
  /\ SaveLocked(RecordInterview(mem, concepts, correct), {})

\* Any end of the process: Ctrl+C, kill, power.
Crash ==
  /\ up
  /\ up' = FALSE
  /\ mem' = EmptyState
  /\ UNCHANGED <<disk, avail, acked>>

\* python -m learning: detect the toolchain, load the curriculum, load the file.
Restart(av) ==
  /\ ~up
  /\ up' = TRUE
  /\ avail' = av
  /\ mem' = disk
  /\ UNCHANGED <<disk, acked>>

--------------------------------------------------------------------------------

Init ==
  /\ mem = EmptyState
  /\ disk = EmptyState
  /\ up = TRUE
  /\ avail \in Availabilities
  /\ acked = {}

Next ==
  \/ \E l \in Lessons : HandleStart(l)
  \/ \E l \in Lessons, b \in StepBlocks : HandleStep(l, b)
  \/ \E l \in Lessons, b \in Blocks, correct \in BOOLEAN : HandleQuiz(l, b, correct)
  \/ \E l \in Lessons, b \in Blocks, passed \in BOOLEAN : HandleExplain(l, b, passed)
  \/ \E l \in Lessons, b \in Blocks, passed, crashed \in BOOLEAN :
        HandleValidate(l, b, passed, crashed)
  \/ \E l \in Lessons : \E index \in 0..(Hints[l] - 1) : HandleHint(l, index)
  \/ \E l \in Lessons : HandleComplete(l)
  \/ \E concepts \in QuestionConcepts, correct \in BOOLEAN :
        HandleInterviewAnswer(concepts, correct)
  \/ Crash
  \/ \E av \in Availabilities : Restart(av)

Spec == Init /\ [][Next]_vars

--------------------------------------------------------------------------------
(* Properties.                                                               *)

\* The memory and the file always hold well-typed states.
TypeOK ==
  /\ mem \in State
  /\ disk \in State
  /\ up \in BOOLEAN
  /\ avail \in Availabilities
  /\ acked \subseteq Facts \cup HintFacts

\* A lesson stored as "complete", in memory or in the file a restart will load,
\* has every mandatory check passed, every quiz answered and every explanation
\* accepted: mark_complete writes under the lock it evaluated the gates under,
\* and record_validation takes the status back when a mandatory check goes red.
CompleteImpliesGates ==
  \A l \in Lessons : \A s \in {mem, disk} :
    s.rec[l].status = "complete" => OwnGates(s.rec[l], l)

Recorded(rec, f) ==
  f.block \in CASE f.kind = "step" -> rec[f.lesson].steps
                [] f.kind = "quiz" -> rec[f.lesson].quiz
                [] f.kind = "explain" -> rec[f.lesson].explain

\* A step, a correct quiz answer or an accepted explanation that a reply has
\* confirmed is in the file, so no later crash, failed save or restart loses it.
AckedSurvives == \A f \in acked \cap Facts : Recorded(disk.rec, f)

\* "Hints already revealed come back with the lesson" (app.py, _lesson_public):
\* a hint the server has shown is counted in the file that the next start loads.
\* It is not when the save failed and the learner asks again: see the README.
AckedHintsSurvive ==
  \A f \in acked \cap HintFacts : disk.rec[f.lesson].hints >= f.revealed

\* While a process runs, a complete lesson loses that status only in a step that
\* records a failure of one of its mandatory checks; neither a demonstration
\* check, nor a red-stage check already passed, nor any other handler revokes it.
RevokedOnlyByMandatoryFailure ==
  [][\A l \in Lessons :
       up /\ up' /\ mem.rec[l].status = "complete" /\ mem'.rec[l].status # "complete"
       => \E b \in Mandatory[l] :
            mem.rec[l].verdict[b] = "passed" /\ mem'.rec[l].verdict[b] = "failed"]_vars

\* The pass of a red-stage (historical) check, once seen, stands: no later run of
\* it, in this process or after any restart, takes it out of the file.
HistoricalPassStands ==
  [][\A l \in Lessons : \A b \in Historical[l] :
       disk.rec[l].verdict[b] = "passed" => disk'.rec[l].verdict[b] = "passed"]_vars

\* The lessons a lesson transitively builds on.
Ancestors(l) ==
  {m \in Lessons : \A S \in SUBSET Lessons :
     (Prerequisites[l] \subseteq S /\ \A x \in S : Prerequisites[x] \subseteq S)
       => m \in S}

\* A lesson is accepted as complete only when every lesson it transitively
\* builds on is available, marked complete and passing its gates at that moment,
\* not merely nominally complete one level up.
CompletedOverSoundChain ==
  [][\A l \in Lessons :
       up /\ up' /\ mem.rec[l].status # "complete" /\ mem'.rec[l].status = "complete"
       => \A m \in Ancestors(l) :
            /\ mem.rec[m].status = "complete"
            /\ m \in avail
            /\ OwnGates(mem.rec[m], m)]_vars

\* The facts that a state of the store holds.
FactsOf(s) ==
  UNION {{Fact("step", l, b) : b \in s.rec[l].steps}
         \cup {Fact("quiz", l, b) : b \in s.rec[l].quiz}
         \cup {Fact("explain", l, b) : b \in s.rec[l].explain} : l \in Lessons}

\* The store seen as a set of facts.
Promise == INSTANCE DurableFacts
             WITH Entries <- Facts, known <- FactsOf(mem), durable <- FactsOf(disk),
                  confirmed <- acked \cap Facts, running <- up

\* The handlers, the saves that fail, crashes and restarts implement the promise:
\* no request makes the memory forget, a save is all or nothing, a fact is confirmed
\* only after the file has it, and a restart knows exactly what the file has.
ImplementsPromise == Promise!Spec
================================================================================
