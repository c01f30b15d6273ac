--------------------------- MODULE StoreClientsProofs ---------------------------
(***************************************************************************)
(* Proofs about what is built on the progress store, for every curriculum  *)
(* that loads: completion over the prerequisite chain, the views of the    *)
(* dashboard beside the requests that record, and Day 14's drill.          *)
(*                                                                         *)
(* completion_map is recursive.  Its value is the largest set of lessons   *)
(* that are sound by themselves and whose prerequisites are in the set,    *)
(* so the equation that defines it needs no induction; that a lesson's own *)
(* record has no say in its prerequisites does, and takes the first lesson *)
(* for which it would fail.                                                *)
(***************************************************************************)
EXTENDS Dashboard, InterviewDrill, ProgressStoreProofs, WellFoundedInduction

--------------------------------------------------------------------------------
(* Lessons in program order, and the lessons below one.                      *)

\* Of some lessons one comes first in program order.
LEMMA FirstLesson ==
  ASSUME NEW T \in SUBSET Lessons, T # {}
  PROVE  \E m \in T : \A k \in T : m <= k
<1>1. Lessons \subseteq Nat
  BY CurriculumAssumption DEF Lessons
<1>2. T \subseteq Nat
  BY <1>1
<1> HIDE DEF Lessons
<1>3. PICK m \in T : \A k \in T : ~ (<<k, m>> \in OpToRel(<, Nat))
  BY <1>2, NatLessThanWellFounded, WFMin
<1>4. \A k \in T : ~(k < m)
  BY <1>2, <1>3 DEF OpToRel
<1> QED
  BY <1>2, <1>4

\* A lesson that comes before another one is another one.
LEMMA EarlierIsOther == \A k, l \in Lessons : k < l => k # l
BY CurriculumAssumption DEF Lessons

\* What the completion of a lesson asks of the lesson itself.
SoundAlone(s, av, l) ==
  /\ s.rec[l].status = "complete"
  /\ l \in av
  /\ OwnGates(s.rec[l], l)

\* completion_map is what its recursive definition says.
LEMMA CompletionMapEquation ==
  ASSUME NEW s, NEW av
  PROVE  LET c == CompletionMap(s, av)
         IN  /\ c = [l \in Lessons |-> c[l]]
             /\ \A l \in Lessons :
                  c[l] <=> SoundAlone(s, av, l) /\ \A p \in Prerequisites[l] : c[p]
<1> DEFINE Closed(S) == \A l \in S : SoundAlone(s, av, l) /\ Prerequisites[l] \subseteq S
           G == UNION {S \in SUBSET Lessons : Closed(S)}
           g == [l \in Lessons |-> IF l \in G THEN TRUE ELSE FALSE]
           Body(f) == [l \in Lessons |->
                         /\ s.rec[l].status = "complete"
                         /\ l \in av
                         /\ \A p \in Prerequisites[l] : f[p]
                         /\ OwnGates(s.rec[l], l)]
<1>1. \A l \in Lessons : Prerequisites[l] \subseteq Lessons
  BY CurriculumAssumption
<1>2. G \subseteq Lessons /\ Closed(G)
  OBVIOUS
<1>3. ASSUME NEW l \in Lessons, SoundAlone(s, av, l), Prerequisites[l] \subseteq G
      PROVE  l \in G
  <2>1. Closed(G \cup {l}) /\ G \cup {l} \in SUBSET Lessons
    BY <1>2, <1>3
  <2> QED
    BY <2>1
<1> HIDE DEF G
<1>4. g = Body(g)
  <2>1. ASSUME NEW l \in Lessons
        PROVE  (l \in G) <=> SoundAlone(s, av, l) /\ \A p \in Prerequisites[l] : p \in G
    BY <1>2, <1>3
  <2>2. ASSUME NEW l \in Lessons
        PROVE  (l \in G) <=> SoundAlone(s, av, l) /\ \A p \in Prerequisites[l] : g[p]
    BY <1>1, <2>1
  <2> DEFINE h == Body(g)
  <2>3. /\ h = [l \in Lessons |-> h[l]]
        /\ \A l \in Lessons : h[l] \in BOOLEAN
        /\ \A l \in Lessons :
             h[l] <=> SoundAlone(s, av, l) /\ \A p \in Prerequisites[l] : g[p]
    <3> HIDE DEF g
    <3> QED
      BY DEF SoundAlone
  <2>4. /\ g = [l \in Lessons |-> g[l]]
        /\ \A l \in Lessons : g[l] \in BOOLEAN /\ (g[l] <=> l \in G)
    OBVIOUS
  <2> HIDE DEF g, h
  <2>5. \A l \in Lessons : g[l] = h[l]
    BY <2>2, <2>3, <2>4
  <2>6. g = h
    BY <2>3, <2>4, <2>5
  <2> QED
    BY <2>6 DEF h
<1>5. CompletionMap(s, av) = CHOOSE f : f = Body(f)
  BY DEF CompletionMap
<1>6. CompletionMap(s, av) = Body(CompletionMap(s, av))
  <2> HIDE DEF g, Body
  <2>1. (CHOOSE f : f = Body(f)) = Body(CHOOSE f : f = Body(f))
    BY <1>4, Zenon
  <2> QED
    BY <1>5, <2>1
<1> HIDE DEF Closed, g
<1> QED
  BY <1>6 DEF SoundAlone

\* Of what a lesson builds on: its prerequisites, and what they build on.
LEMMA AncestorsClosed ==
  ASSUME NEW l \in Lessons
  PROVE  /\ Ancestors(l) \subseteq Lessons
         /\ Prerequisites[l] \subseteq Ancestors(l)
         /\ \A x \in Ancestors(l) : Prerequisites[x] \subseteq Ancestors(l)
<1>1. \A x \in Lessons : Prerequisites[x] \subseteq Lessons
  BY CurriculumAssumption
<1> HIDE DEF Lessons
<1>2. Prerequisites[l] \subseteq Ancestors(l)
  BY <1>1 DEF Ancestors
<1>3. ASSUME NEW x \in Ancestors(l), NEW p \in Prerequisites[x]
      PROVE  p \in Ancestors(l)
  <2>1. x \in Lessons /\ p \in Lessons
    BY <1>1, <1>3 DEF Ancestors
  <2>2. ASSUME NEW S \in SUBSET Lessons, Prerequisites[l] \subseteq S,
               \A y \in S : Prerequisites[y] \subseteq S
        PROVE  p \in S
    BY <1>3, <2>2 DEF Ancestors
  <2> QED
    BY <2>1, <2>2 DEF Ancestors
<1> QED
  BY <1>2, <1>3 DEF Ancestors

\* Nothing else: they are in every set of lessons with these two properties.
LEMMA AncestorsLeast ==
  ASSUME NEW l \in Lessons, NEW S \in SUBSET Lessons, Prerequisites[l] \subseteq S,
         \A x \in S : Prerequisites[x] \subseteq S
  PROVE  Ancestors(l) \subseteq S
<1> HIDE DEF Lessons
<1> QED
  BY DEF Ancestors

--------------------------------------------------------------------------------
(* What the completion map says.                                             *)

\* Prerequisites that are complete are complete all the way down: every lesson of
\* the chain is available, stored as complete and passes its gates.
LEMMA ChainIsSound ==
  ASSUME NEW s, NEW av, NEW l \in Lessons,
         \A p \in Prerequisites[l] : CompletionMap(s, av)[p]
  PROVE  \A m \in Ancestors(l) : SoundAlone(s, av, m)
<1> DEFINE S == {m \in Lessons : CompletionMap(s, av)[m]}
<1>1. \A x \in Lessons : Prerequisites[x] \subseteq Lessons
  BY CurriculumAssumption
<1> HIDE DEF Lessons
<1>2. Prerequisites[l] \subseteq S
  BY <1>1
<1>3. \A x \in S : SoundAlone(s, av, x) /\ Prerequisites[x] \subseteq S
  BY <1>1, CompletionMapEquation
<1> HIDE DEF S
<1>4. S \in SUBSET Lessons
  BY DEF S
<1> QED
  BY <1>2, <1>3, <1>4, AncestorsLeast

\* The completion of a lesson depends on the records of no later lesson.
LEMMA EarlierLessonsDecide ==
  ASSUME NEW s, NEW t, NEW av, NEW l \in Lessons,
         \A k \in Lessons : k < l => s.rec[k] = t.rec[k]
  PROVE  \A p \in Lessons :
           p < l => (CompletionMap(s, av)[p] <=> CompletionMap(t, av)[p])
<1> DEFINE c == CompletionMap(s, av)
           d == CompletionMap(t, av)
           T == {p \in Lessons : p < l /\ ~(c[p] <=> d[p])}
<1>1. /\ \A x \in Lessons : c[x] <=> SoundAlone(s, av, x) /\ \A p \in Prerequisites[x] : c[p]
      /\ \A x \in Lessons : d[x] <=> SoundAlone(t, av, x) /\ \A p \in Prerequisites[x] : d[p]
  BY CompletionMapEquation
<1> HIDE DEF c, d
<1>2. SUFFICES ASSUME T # {} PROVE FALSE
  BY DEF c, d
<1>3. PICK m \in T : \A k \in T : m <= k
  BY <1>2, FirstLesson
<1>a. m \in Lessons /\ m < l /\ ~(c[m] <=> d[m])
  BY <1>3, Zenon
<1>4. \A p \in Prerequisites[m] : p \in Lessons /\ p < m
  BY <1>a, CurriculumAssumption
<1>5. Lessons \subseteq Nat
  BY CurriculumAssumption DEF Lessons
<1> HIDE DEF Lessons
<1>6. ASSUME NEW p \in Prerequisites[m]
      PROVE  c[p] <=> d[p]
  <2>a. p \in Lessons /\ p < m /\ m < l
    BY <1>a, <1>4, Zenon
  <2>b. p \in Nat /\ m \in Nat /\ l \in Nat
    BY <2>a, <1>a, <1>5, Zenon
  <2>1. p \in Lessons /\ p < l /\ ~(m <= p)
    BY <2>a, <2>b
  <2>2. p \notin T
    BY <1>3, <2>1
  <2> QED
    BY <2>1, <2>2, Zenon
<1>7. SoundAlone(s, av, m) <=> SoundAlone(t, av, m)
  BY <1>a DEF SoundAlone
<1>8. /\ c[m] <=> SoundAlone(s, av, m) /\ \A p \in Prerequisites[m] : c[p]
      /\ d[m] <=> SoundAlone(t, av, m) /\ \A p \in Prerequisites[m] : d[p]
  BY <1>1, <1>a, Zenon
<1>9. (\A p \in Prerequisites[m] : c[p]) <=> (\A p \in Prerequisites[m] : d[p])
  BY <1>6, Zenon
<1>10. c[m] <=> d[m]
  BY <1>7, <1>8, <1>9, Zenon
<1> QED
  BY <1>a, <1>10, Zenon

--------------------------------------------------------------------------------
(* The lesson to resume.                                                     *)

\* A lesson named to resume is one that could be worked on; when none could, every
\* available lesson is complete or builds on one that is not available: the first
\* incomplete lesson of a chain that is all there could be worked on.
LEMMA ResumeFromIsSound ==
  ASSUME NEW s, NEW last, NEW av
  PROVE  LET c == CompletionMap(s, av)
             r == ResumeFrom(c, last, av)
         IN  \/ r \in av /\ ~c[r] /\ \A p \in Prerequisites[r] : c[p]
             \/ r = N /\ \A l \in av \cap Lessons : c[l] \/ ~(Ancestors(l) \subseteq av)
<1> DEFINE c == CompletionMap(s, av)
           r == ResumeFrom(c, last, av)
<1>1. /\ \A x \in Lessons : c[x] <=> SoundAlone(s, av, x) /\ \A p \in Prerequisites[x] : c[p]
      /\ Lessons \subseteq Nat
  BY CompletionMapEquation, CurriculumAssumption DEF Lessons
<1> HIDE DEF c
<1>2. CASE last # NoLesson /\ Actionable(c, av, last)
  BY <1>2 DEF ResumeFrom, Actionable, c
<1>3. CASE /\ ~(last # NoLesson /\ Actionable(c, av, last))
           /\ \E l \in Lessons : Actionable(c, av, l)
  <2> DEFINE T == {l \in Lessons : Actionable(c, av, l)}
             First(l) == /\ Actionable(c, av, l)
                         /\ \A k \in 1..(l - 1) : ~Actionable(c, av, k)
  <2>1. PICK m \in T : \A k \in T : m <= k
    BY <1>3, FirstLesson
  <2>2. First(m)
    <3>1. \A k \in 1..(m - 1) : k \in Lessons /\ ~(m <= k)
      BY <2>1, CurriculumAssumption DEF Lessons
    <3>2. \A k \in 1..(m - 1) : k \notin T
      BY <2>1, <3>1
    <3> QED
      BY <2>1, <3>1, <3>2
  <2>3. r = CHOOSE l \in Lessons : First(l)
    BY <1>3 DEF ResumeFrom
  <2> HIDE DEF First
  <2>4. First(r)
    BY <2>1, <2>2, <2>3
  <2> QED
    BY <2>4 DEF First, Actionable, c
<1>4. CASE /\ ~(last # NoLesson /\ Actionable(c, av, last))
           /\ ~\E l \in Lessons : Actionable(c, av, l)
  <2>1. r = N
    BY <1>4 DEF ResumeFrom
  <2>2. ASSUME NEW l \in av \cap Lessons, ~c[l], Ancestors(l) \subseteq av
        PROVE  FALSE
    <3> DEFINE T == {x \in {l} \cup Ancestors(l) : ~c[x]}
    <3>1. /\ T \subseteq Lessons /\ T # {}
          /\ \A x \in {l} \cup Ancestors(l) : Prerequisites[x] \subseteq Ancestors(l)
      BY <2>2, AncestorsClosed
    <3>2. PICK m \in T : \A k \in T : m <= k
      BY <3>1, FirstLesson
    <3>3. m \in Lessons /\ m \in av /\ ~c[m]
      BY <2>2, <3>1, <3>2
    <3>4. ASSUME NEW p \in Prerequisites[m]
          PROVE  c[p]
      <4>1. p \in Ancestors(l) /\ p \in Lessons
        BY <3>1, <3>2, AncestorsClosed
      <4>2. p < m
        BY <3>3, CurriculumAssumption
      <4>3. p \notin T
        BY <1>1, <3>2, <3>3, <4>1, <4>2
      <4> QED
        BY <4>1, <4>3, Zenon
    <3>5. Actionable(c, av, m)
      BY <3>3, <3>4 DEF Actionable
    <3> QED
      BY <1>4, <3>3, <3>5
  <2>3. \A l \in av \cap Lessons : c[l] \/ ~(Ancestors(l) \subseteq av)
    BY <2>2, Zenon
  <2> QED
    BY <2>1, <2>3 DEF c
<1> QED
  BY <1>2, <1>3, <1>4

--------------------------------------------------------------------------------
(* Who completes a lesson.                                                   *)

\* Every lesson that is complete in t was complete in s.
NoneNew(s, t) ==
  \A k \in Lessons : t.rec[k].status = "complete" => s.rec[k].status = "complete"

\* Storing a record that is complete only where one was, completes nothing; nor do
\* last_lesson_id and the concept counters that are written with it.
LEMMA StoringCompletesNothing ==
  ASSUME NEW s, Good(s), NEW l \in Lessons, NEW q \in Record,
         q.status = "complete" => s.rec[l].status = "complete"
  PROVE  LET t == SetRecord(s, l, q)
         IN  /\ NoneNew(s, t) /\ NoneNew(s, Visit(t, l))
             /\ \A concepts, correct :
                  NoneNew(s, Visit(BumpConcepts(t, concepts, correct), l))
<1> DEFINE t == SetRecord(s, l, q)
<1>1. s \in State /\ s.rec \in [Lessons -> Record]
  BY DEF Good, State
<1>2. t.rec = [s.rec EXCEPT ![l] = q] /\ t \in State
  BY <1>1 DEF SetRecord, State
<1>3. NoneNew(s, t)
  BY <1>1, <1>2 DEF NoneNew
<1> HIDE DEF t
<1>4. Visit(t, l).rec = t.rec
  BY <1>2 DEF Visit, State
<1>5. ASSUME NEW concepts, NEW correct
      PROVE  Visit(BumpConcepts(t, concepts, correct), l).rec = t.rec
  BY <1>2 DEF Visit, BumpConcepts, State
<1>6. ASSUME NEW u, u.rec = t.rec
      PROVE  NoneNew(s, u)
  BY <1>3, <1>6 DEF NoneNew
<1> QED
  BY <1>3, <1>4, <1>5, <1>6 DEF t

\* Every method but mark_complete completes nothing.
LEMMA OthersCompleteNothing ==
  ASSUME NEW s, Good(s), NEW l \in Lessons, NEW yes \in BOOLEAN, NEW concepts
  PROVE  /\ NoneNew(s, MarkStarted(s, l))
         /\ \A b \in Blocks :
              /\ NoneNew(s, RecordStep(s, l, b))
              /\ NoneNew(s, RecordQuiz(s, l, b, yes))
              /\ NoneNew(s, RecordExplain(s, l, b, yes))
              /\ NoneNew(s, RecordValidation(s, l, b, yes, concepts))
         /\ \A index \in Nat : NoneNew(s, RecordHint(s, l, index))
         /\ NoneNew(s, RecordInterview(s, concepts, yes))
<1> DEFINE r == LessonRecord(s, l)
<1>1. r \in Record /\ (r.status = "complete" => s.rec[l].status = "complete")
  BY LessonRecordFacts
<1>a. s \in State
  BY DEF Good
<1> HIDE DEF r
<1>2. NoneNew(s, MarkStarted(s, l))
  <2> DEFINE q == [r EXCEPT !.started = TRUE,
                            !.baseline = IF r.started THEN @ ELSE s.answered,
                            !.status = IF @ = "not_started" THEN "in_progress" ELSE @]
  <2>1. q \in Record /\ (q.status = "complete" => r.status = "complete")
    BY <1>1, <1>a DEF Record, Statuses, State
  <2>2. MarkStarted(s, l) = Visit(SetRecord(s, l, q), l)
    BY DEF MarkStarted, r
  <2> HIDE DEF q
  <2> QED
    BY <1>1, <2>1, <2>2, StoringCompletesNothing
<1>3. ASSUME NEW b \in Blocks
      PROVE  NoneNew(s, RecordStep(s, l, b))
  <2> DEFINE q == [r EXCEPT !.steps = @ \cup {b}]
  <2>1. q \in Record /\ q.status = r.status
    BY <1>1 DEF Record
  <2>2. RecordStep(s, l, b) = Visit(SetRecord(s, l, q), l)
    BY DEF RecordStep, r
  <2> HIDE DEF q
  <2> QED
    BY <1>1, <2>1, <2>2, StoringCompletesNothing
<1>4. ASSUME NEW b \in Blocks
      PROVE  NoneNew(s, RecordQuiz(s, l, b, yes))
  <2> DEFINE q == [r EXCEPT !.quiz = IF yes THEN @ \cup {b} ELSE @]
  <2>1. q \in Record /\ q.status = r.status
    BY <1>1 DEF Record
  <2>2. RecordQuiz(s, l, b, yes)
          = Visit(BumpConcepts(SetRecord(s, l, q), LessonConcepts[l], yes), l)
    BY DEF RecordQuiz, r
  <2> HIDE DEF q
  <2> QED
    BY <1>1, <2>1, <2>2, StoringCompletesNothing
<1>5. ASSUME NEW b \in Blocks
      PROVE  NoneNew(s, RecordExplain(s, l, b, yes))
  <2> DEFINE q == [r EXCEPT !.explain = IF yes THEN @ \cup {b} ELSE @]
  <2>1. q \in Record /\ q.status = r.status
    BY <1>1 DEF Record
  <2>2. RecordExplain(s, l, b, yes)
          = Visit(BumpConcepts(SetRecord(s, l, q), LessonConcepts[l], yes), l)
    BY DEF RecordExplain, r
  <2> HIDE DEF q
  <2> QED
    BY <1>1, <2>1, <2>2, StoringCompletesNothing
<1>6. ASSUME NEW b \in Blocks
      PROVE  NoneNew(s, RecordValidation(s, l, b, yes, concepts))
  <2> DEFINE q == [r EXCEPT !.verdict[b] = IF yes THEN "passed" ELSE "failed",
                            !.status = IF Revokes(r, l, b, yes)
                                       THEN "in_progress" ELSE @]
             credit == IF b \in Mandatory[l] THEN concepts ELSE {}
  <2>1. q \in Record /\ (q.status = "complete" => r.status = "complete")
    BY <1>1 DEF Record, Statuses, Verdicts
  <2>2. RecordValidation(s, l, b, yes, concepts)
          = IF HistoricalStands(s, l, b)
            THEN Visit(SetRecord(s, l, r), l)
            ELSE Visit(BumpConcepts(SetRecord(s, l, q), credit, yes), l)
    BY DEF RecordValidation, r
  <2> HIDE DEF q, credit
  <2>3. NoneNew(s, Visit(SetRecord(s, l, r), l))
    BY <1>1, StoringCompletesNothing
  <2>4. NoneNew(s, Visit(BumpConcepts(SetRecord(s, l, q), credit, yes), l))
    BY <1>1, <2>1, StoringCompletesNothing
  <2> QED
    BY <2>2, <2>3, <2>4
<1>7. ASSUME NEW index \in Nat
      PROVE  NoneNew(s, RecordHint(s, l, index))
  <2> DEFINE q == [r EXCEPT !.hints = IF index + 1 > @ THEN index + 1 ELSE @]
  <2>1. q \in Record /\ q.status = r.status
    BY <1>1 DEF Record
  <2>2. RecordHint(s, l, index) = SetRecord(s, l, q)
    BY DEF RecordHint, r
  <2> HIDE DEF q
  <2> QED
    BY <1>1, <2>1, <2>2, StoringCompletesNothing
<1>8. NoneNew(s, RecordInterview(s, concepts, yes))
  <2> DEFINE t == [s EXCEPT !.answered = @ + 1]
  <2>1. t \in State /\ t.rec = s.rec
    BY <1>a DEF State
  <2> HIDE DEF t
  <2>2. BumpConcepts(t, concepts, yes).rec = s.rec
    BY <2>1 DEF BumpConcepts, State
  <2> QED
    BY <2>2 DEF RecordInterview, NoneNew, t
<1> QED
  BY <1>2, <1>3, <1>4, <1>5, <1>6, <1>7, <1>8

\* A step that completes a lesson is one of POST /api/validate, whose chain held.
LEMMA CompletingStep ==
  ASSUME Inv, [Next]_vars, up, up', NEW k \in Lessons,
         mem.rec[k].status # "complete", mem'.rec[k].status = "complete"
  PROVE  \A p \in Prerequisites[k] : CompletionMap(mem, avail)[p]
<1> USE DEF Inv
<1>1. ~NoneNew(mem, mem')
  BY DEF NoneNew
<1>2. ASSUME NEW l \in Lessons, HandleStart(l)
      PROVE  FALSE
  <2>1. NoneNew(mem, MarkStarted(mem, l))
    BY OthersCompleteNothing
  <2> QED
    BY <1>1, <1>2, <2>1 DEF HandleStart, SaveLocked
<1>3. ASSUME NEW l \in Lessons, NEW b \in StepBlocks, HandleStep(l, b)
      PROVE  FALSE
  <2>1. b \in Blocks
    BY CurriculumAssumption
  <2>2. NoneNew(mem, RecordStep(mem, l, b))
    BY <2>1, OthersCompleteNothing
  <2> QED
    BY <1>1, <1>3, <2>2 DEF HandleStep, SaveLocked
<1>4. ASSUME NEW l \in Lessons, NEW b \in Blocks, NEW correct \in BOOLEAN,
             HandleQuiz(l, b, correct)
      PROVE  FALSE
  <2>1. NoneNew(mem, RecordQuiz(mem, l, b, correct))
    BY OthersCompleteNothing
  <2> QED
    BY <1>1, <1>4, <2>1 DEF HandleQuiz, SaveLocked
<1>5. ASSUME NEW l \in Lessons, NEW b \in Blocks, NEW passed \in BOOLEAN,
             HandleExplain(l, b, passed)
      PROVE  FALSE
  <2>1. NoneNew(mem, RecordExplain(mem, l, b, passed))
    BY OthersCompleteNothing
  <2> QED
    BY <1>1, <1>5, <2>1 DEF HandleExplain, SaveLocked
<1>6. ASSUME NEW l \in Lessons, NEW b \in Blocks, NEW passed \in BOOLEAN,
             NEW crashed \in BOOLEAN, HandleValidate(l, b, passed, crashed)
      PROVE  FALSE
  <2> DEFINE concepts == IF crashed THEN {} ELSE LessonConcepts[l]
  <2>1. mem' = RecordValidation(mem, l, b, passed, concepts)
    BY <1>6 DEF HandleValidate, SaveLocked
  <2> HIDE DEF concepts
  <2>2. NoneNew(mem, RecordValidation(mem, l, b, passed, concepts))
    BY OthersCompleteNothing
  <2> QED
    BY <1>1, <2>1, <2>2
<1>7. ASSUME NEW l \in Lessons, NEW index \in 0..(Hints[l] - 1), HandleHint(l, index)
      PROVE  FALSE
  <2>1. index \in Nat
    BY CurriculumAssumption
  <2>2. NoneNew(mem, RecordHint(mem, l, index))
    BY <2>1, OthersCompleteNothing
  <2>3. mem' = RecordHint(mem, l, index) \/ mem' = mem
    BY <1>7 DEF HandleHint, SaveLocked
  <2> QED
    BY <1>1, <2>2, <2>3 DEF NoneNew
<1>8. ASSUME NEW l \in Lessons, HandleComplete(l)
      PROVE  \A p \in Prerequisites[k] : CompletionMap(mem, avail)[p]
  <2>1. /\ mem' = MarkComplete(mem, l)
        /\ \A p \in Prerequisites[l] : CompletionMap(mem, avail)[p]
    BY <1>8 DEF HandleComplete, SaveLocked, LessonCompletion
  <2>2. mem.rec \in [Lessons -> Record]
    BY DEF Good, State
  <2>3. k # l => mem'.rec[k] = mem.rec[k]
    BY <2>1, <2>2 DEF MarkComplete, SetRecord, Good, State
  <2> QED
    BY <2>1, <2>3
<1>9. ASSUME NEW concepts \in QuestionConcepts, NEW correct \in BOOLEAN,
             HandleInterviewAnswer(concepts, correct)
      PROVE  FALSE
  <2>1. NoneNew(mem, RecordInterview(mem, concepts, correct))
    BY OthersCompleteNothing
  <2> QED
    BY <1>1, <1>9, <2>1 DEF HandleInterviewAnswer, SaveLocked
<1>10. ~Crash /\ \A av \in Availabilities : ~Restart(av)
  BY DEF Crash, Restart
<1>11. ~UNCHANGED vars
  BY <1>1 DEF vars, NoneNew
<1> QED
  BY <1>2, <1>3, <1>4, <1>5, <1>6, <1>7, <1>8, <1>9, <1>10, <1>11 DEF Next

\* A lesson is completed only over a chain that is sound down to the first lesson,
\* for every curriculum that loads: whatever else is recorded, saved or lost.
THEOREM CompletionIsOverASoundChain == Spec => CompletedOverSoundChain
<1>1. ASSUME Inv, [Next]_vars
      PROVE  [\A l \in Lessons :
                up /\ up' /\ mem.rec[l].status # "complete"
                          /\ mem'.rec[l].status = "complete"
                => \A m \in Ancestors(l) :
                     /\ mem.rec[m].status = "complete"
                     /\ m \in avail
                     /\ OwnGates(mem.rec[m], m)]_vars
  BY <1>1, CompletingStep, ChainIsSound DEF SoundAlone
<1> QED
  BY <1>1, Invariance, PTL DEF Spec, CompletedOverSoundChain

--------------------------------------------------------------------------------
(* The views.                                                                *)

\* The roadmap that is being looked at was drawn from the map of this very state.
RoadmapInv ==
  view.kind = "roadmap reply" =>
    /\ view.locked = {l \in avail :
                        ~\A p \in Prerequisites[l] : CompletionMap(mem, avail)[p]}
    /\ \A l \in Lessons : l \in view.green => CompletionMap(mem, avail)[l]
    /\ view.green \subseteq Lessons

\* The map of a resume request is the map of a state that the running process was in.
MapInv ==
  view.kind \in {"state", "state resumed", "state reply"} =>
    \E s : view.complete = CompletionMap(s, avail)

ResumeInv ==
  view.kind \in {"state resumed", "state reply"} =>
    \/ /\ view.resume \in avail
       /\ ~view.complete[view.resume]
       /\ \A p \in Prerequisites[view.resume] : view.complete[p]
    \/ /\ view.resume = N
       /\ \A l \in avail : view.complete[l] \/ ~(Ancestors(l) \subseteq avail)

\* A view dies with its process: which lessons are available cannot change under it.
ViewInv ==
  /\ view # NoView => up
  /\ RoadmapInv
  /\ MapInv
  /\ ResumeInv

\* A process that goes on running offers the same lessons.
LEMMA AvailabilityFixed ==
  ASSUME [Next]_vars, up, up'
  PROVE  avail' = avail
BY DEF Next, vars, SaveLocked, HandleStart, HandleStep, HandleQuiz, HandleExplain,
       HandleValidate, HandleHint, HandleComplete, HandleInterviewAnswer, Crash, Restart

\* Every step of the dashboard is a step of the store, or leaves the store alone.
LEMMA DashboardStepsAreStoreSteps == [DashboardNext]_dashboardVars => [Next]_vars
BY DEF DashboardNext, dashboardVars, RoadmapSnapshot, RoadmapReply, StateMap, StateResume,
       StateReply, ViewEnds, Records

\* No view is in progress at first.
LEMMA DashboardInitInv == DashboardInit => ViewInv
BY DEF DashboardInit, NoView, ViewInv, RoadmapInv, MapInv, ResumeInv

\* Every read of a view, and every request that records beside it, keeps ViewInv.
LEMMA DashboardNextInv == ViewInv /\ Inv /\ [DashboardNext]_dashboardVars => ViewInv'
<1> SUFFICES ASSUME ViewInv, Inv, [DashboardNext]_dashboardVars
             PROVE  ViewInv'
  OBVIOUS
<1>1. avail \subseteq Lessons
  BY CurriculumAssumption DEF Inv
<1> HIDE DEF Lessons
<1>2. CASE RoadmapSnapshot
  <2>1. view' # NoView => up'
    BY <1>2 DEF RoadmapSnapshot, vars
  <2>2. view'.kind = "roadmap"
    BY <1>2 DEF RoadmapSnapshot
  <2> QED
    BY <2>1, <2>2 DEF ViewInv, RoadmapInv, MapInv, ResumeInv
<1>3. CASE RoadmapReply
  <2> DEFINE c == CompletionMap(mem, avail)
  <2>1. /\ view'.kind = "roadmap reply"
        /\ view'.green = {l \in Lessons : ShownComplete(view.snapshot, c, l)}
        /\ view'.locked = {l \in Lessons : ShownLocked(view.snapshot, c, l)}
        /\ mem' = mem /\ avail' = avail /\ up'
    BY <1>3 DEF RoadmapReply, vars
  <2>2. CompletionMap(mem', avail') = c
    BY <2>1
  <2> HIDE DEF c
  <2>3. RoadmapInv'
    <3>1. view'.locked = {l \in avail' : ~\A p \in Prerequisites[l] : c[p]}
      BY <1>1, <2>1 DEF ShownLocked
    <3>2. view'.green \subseteq Lessons /\ \A l \in view'.green : c[l]
      BY <2>1 DEF ShownComplete
    <3> QED
      BY <2>2, <3>1, <3>2 DEF RoadmapInv
  <2> QED
    BY <2>1, <2>3 DEF ViewInv, MapInv, ResumeInv
<1>4. CASE StateMap
  <2>1. /\ view' = [kind |-> "state", complete |-> CompletionMap(mem, avail)]
        /\ avail' = avail /\ up'
    BY <1>4 DEF StateMap, vars
  <2>2. view'.kind = "state" /\ view'.complete = CompletionMap(mem, avail')
    BY <2>1
  <2> QED
    BY <2>1, <2>2 DEF ViewInv, RoadmapInv, MapInv, ResumeInv
<1>5. CASE StateResume
  <2>1. /\ view' = [kind |-> "state resumed", complete |-> view.complete,
                    resume |-> ResumeFrom(view.complete, mem.last, avail)]
        /\ view.kind = "state"
        /\ avail' = avail /\ up'
    BY <1>5 DEF StateResume, vars
  <2>2. /\ view'.kind = "state resumed" /\ view'.complete = view.complete
        /\ view'.resume = ResumeFrom(view.complete, mem.last, avail)
    BY <2>1
  <2>3. PICK s : view.complete = CompletionMap(s, avail)
    BY <2>1 DEF ViewInv, MapInv
  <2>4. ResumeInv'
    <3> DEFINE c == CompletionMap(s, avail)
               r == ResumeFrom(c, mem.last, avail)
    <3>1. \/ r \in avail /\ ~c[r] /\ \A p \in Prerequisites[r] : c[p]
          \/ r = N /\ \A l \in avail \cap Lessons : c[l] \/ ~(Ancestors(l) \subseteq avail)
      BY ResumeFromIsSound
    <3>2. view'.complete = c /\ view'.resume = r
      BY <2>2, <2>3
    <3> HIDE DEF c, r
    <3> QED
      BY <1>1, <2>1, <3>1, <3>2 DEF ResumeInv
  <2>5. MapInv'
    BY <2>1, <2>2, <2>3 DEF MapInv
  <2> QED
    BY <2>1, <2>2, <2>4, <2>5 DEF ViewInv, RoadmapInv
<1>6. CASE StateReply
  <2>1. /\ view.kind = "state resumed"
        /\ view'.kind = "state reply" /\ view'.complete = view.complete
        /\ view'.resume = view.resume
        /\ avail' = avail /\ up'
    BY <1>6 DEF StateReply, vars
  <2>2. ResumeInv'
    BY <2>1 DEF ViewInv, ResumeInv
  <2>3. MapInv'
    BY <2>1 DEF ViewInv, MapInv
  <2> QED
    BY <2>1, <2>2, <2>3 DEF ViewInv, RoadmapInv
<1>7. CASE view' = NoView
  BY <1>7 DEF NoView, ViewInv, RoadmapInv, MapInv, ResumeInv
<1>8. CASE Records /\ view' = view /\ view # NoView
  <2>1. up /\ up' /\ [Next]_vars /\ view' = view /\ view.kind # "roadmap reply"
    BY <1>8 DEF Records, ViewInv, NoView
  <2>2. avail' = avail
    BY <2>1, AvailabilityFixed
  <2>3. MapInv'
    BY <2>1, <2>2 DEF ViewInv, MapInv
  <2>4. ResumeInv'
    BY <2>1, <2>2 DEF ViewInv, ResumeInv
  <2> QED
    BY <2>1, <2>3, <2>4 DEF ViewInv, RoadmapInv
<1>9. CASE UNCHANGED dashboardVars
  <2>1. mem' = mem /\ avail' = avail /\ up' = up /\ view' = view
    BY <1>9 DEF dashboardVars, vars
  <2>2. CompletionMap(mem', avail') = CompletionMap(mem, avail)
    BY <2>1
  <2>3. RoadmapInv'
    BY <2>1, <2>2 DEF ViewInv, RoadmapInv
  <2>4. MapInv'
    BY <2>1 DEF ViewInv, MapInv
  <2>5. ResumeInv'
    BY <2>1 DEF ViewInv, ResumeInv
  <2> QED
    BY <2>1, <2>3, <2>4, <2>5 DEF ViewInv
<1> QED
  BY <1>2, <1>3, <1>4, <1>5, <1>6, <1>7, <1>8, <1>9 DEF DashboardNext, ViewEnds, Records

\* Passing a lesson's own gates leaves every other record alone and satisfies them.
LEMMA GatesPassedFacts ==
  ASSUME Inv, NEW l \in Lessons
  PROVE  /\ GatesPassed(l).rec[l].status # "absent"
         /\ OwnGates(GatesPassed(l).rec[l], l)
         /\ \A k \in Lessons : k # l => GatesPassed(l).rec[k] = mem.rec[k]
<1> DEFINE r == LessonRecord(mem, l)
           q == [r EXCEPT !.verdict = [b \in Blocks |-> "passed"],
                          !.quiz = Quiz[l], !.explain = Explain[l]]
<1>1. r \in Record /\ r.status # "absent"
  BY LessonRecordFacts DEF Inv
<1> HIDE DEF r
<1>2. /\ q.status # "absent"
      /\ q.verdict = [b \in Blocks |-> "passed"]
      /\ q.quiz = Quiz[l] /\ q.explain = Explain[l]
  BY <1>1 DEF Record
<1>3. Mandatory[l] \subseteq Blocks
  BY CurriculumAssumption
<1> HIDE DEF q
<1>4. OwnGates(q, l)
  BY <1>2, <1>3 DEF OwnGates
<1>5. mem \in State /\ mem.rec \in [Lessons -> Record]
  BY DEF Inv, Good, State
<1>6. GatesPassed(l).rec = [mem.rec EXCEPT ![l] = q]
  BY <1>5 DEF GatesPassed, SetRecord, State, q, r
<1> QED
  BY <1>2, <1>4, <1>5, <1>6

--------------------------------------------------------------------------------
(* The theorems about the dashboard.                                         *)

\* A dashboard beside the store leaves the behaviour of the store as it was.
LEMMA DashboardOverStore == DashboardSpec => Spec
<1>1. DashboardInit => Init
  BY DEF DashboardInit
<1> QED
  BY <1>1, DashboardStepsAreStoreSteps, PTL DEF DashboardSpec, Spec

\* The invariant of the store and that of the views hold in every reachable state.
THEOREM DashboardInvariance == DashboardSpec => [](Inv /\ ViewInv)
<1>1. DashboardSpec => []Inv
  BY DashboardOverStore, Invariance, PTL
<1>2. DashboardInit => ViewInv
  BY DashboardInitInv
<1>3. ViewInv /\ Inv /\ [DashboardNext]_dashboardVars => ViewInv'
  BY DashboardNextInv
<1> QED
  BY <1>1, <1>2, <1>3, PTL DEF DashboardSpec

\* The requests of the dashboard notwithstanding, a lesson is completed only over a
\* sound chain.
THEOREM DashboardCompletesOverASoundChain == DashboardSpec => CompletedOverSoundChain
BY DashboardOverStore, CompletionIsOverASoundChain, PTL

\* No roadmap locks a lesson behind lessons that it all shows as complete, although
\* it is put together from two states of the store.
THEOREM RoadmapContradictsNothing == DashboardSpec => []GreenNeverLocks
<1>1. Inv /\ ViewInv => GreenNeverLocks
  <2> SUFFICES ASSUME ViewInv, view.kind = "roadmap reply", NEW l \in view.locked
               PROVE  ~(Prerequisites[l] \subseteq view.green)
    BY DEF GreenNeverLocks
  <2> DEFINE c == CompletionMap(mem, avail)
  <2>1. PICK p \in Prerequisites[l] : ~c[p]
    BY DEF ViewInv, RoadmapInv
  <2>2. p \notin view.green
    BY <2>1 DEF ViewInv, RoadmapInv
  <2> QED
    BY <2>1, <2>2
<1> QED
  BY <1>1, DashboardInvariance, PTL

\* A lesson is shown as unlocked exactly when passing its own gates would make
\* /api/validate complete it: the locks of the roadmap and the gate agree, because
\* nothing in a lesson's own record decides about its prerequisites.
THEOREM RoadmapAgreesWithTheGate == DashboardSpec => []UnlockedMeansCompletable
<1>1. Inv /\ ViewInv => UnlockedMeansCompletable
  <2> SUFFICES ASSUME Inv, ViewInv, view.kind = "roadmap reply", NEW l \in avail
               PROVE  l \notin view.locked <=> LessonCompletion(GatesPassed(l), avail, l)
    BY DEF UnlockedMeansCompletable
  <2> DEFINE c == CompletionMap(mem, avail)
             g == GatesPassed(l)
             d == CompletionMap(g, avail)
  <2>1. l \in Lessons /\ \A p \in Prerequisites[l] : p \in Lessons /\ p < l
    BY CurriculumAssumption DEF Inv
  <2>2. l \notin view.locked <=> \A p \in Prerequisites[l] : c[p]
    BY DEF ViewInv, RoadmapInv
  <2>3. /\ g.rec[l].status # "absent" /\ OwnGates(g.rec[l], l)
        /\ \A k \in Lessons : k # l => g.rec[k] = mem.rec[k]
    BY <2>1, GatesPassedFacts
  <2> HIDE DEF g
  <2>4. \A k \in Lessons : k < l => mem.rec[k] = g.rec[k]
    <3>1. \A k \in Lessons : k < l => k # l
      BY <2>1, EarlierIsOther
    <3> QED
      BY <2>3, <3>1
  <2>5. \A p \in Lessons : p < l => (c[p] <=> d[p])
    BY <2>1, <2>4, EarlierLessonsDecide
  <2>6. LessonCompletion(g, avail, l) <=> \A p \in Prerequisites[l] : d[p]
    BY <2>3 DEF LessonCompletion
  <2> HIDE DEF c, d
  <2>7. (\A p \in Prerequisites[l] : c[p]) <=> (\A p \in Prerequisites[l] : d[p])
    BY <2>1, <2>5
  <2> QED
    BY <2>2, <2>6, <2>7 DEF g
<1> QED
  BY <1>1, DashboardInvariance, PTL

\* The lesson to resume could be worked on when the request read the map; or nothing
\* could, and what is left builds on lessons this machine does not offer.
THEOREM ResumeLandsOnWork == DashboardSpec => []ResumeSound
<1>1. Inv /\ ViewInv => ResumeSound
  BY DEF ViewInv, ResumeInv, ResumeSound
<1> QED
  BY <1>1, DashboardInvariance, PTL

--------------------------------------------------------------------------------
(* Day 14's drill, for any number of lessons, request threads and answers, with    *)
(* clients that open lessons or not, saves that fail, crashes and restarts.         *)

\* A lesson counts as started in a process from its first opening on, with the count of
\* answers of that moment; the file may lag behind, in openings and in answers, but what
\* it says of an opening is what the process knew.
MemoryMeasures ==
  up => /\ disk.answered <= mem.answered
        /\ \A l \in Lessons :
             /\ mem.rec[l].started <=> openedAt[l] # NotOpened
             /\ mem.rec[l].started => mem.rec[l].baseline = openedAt[l]

FileMeasures ==
  \A l \in Lessons :
    /\ disk.rec[l].started
         => openedAt[l] # NotOpened /\ disk.rec[l].baseline = openedAt[l]
    /\ ~up /\ openedAt[l] # NotOpened => disk.rec[l].started

\* A pass in a thread's hand stays earned while it waits to be recorded.
HeldPassIsEarned ==
  \A r \in Checkers :
    /\ ~up => results[r] = NoResult
    /\ results[r].passed /\ results[r].since # NotOpened
         => mem.answered - results[r].since >= Minimum

DrillTypes ==
  openedAt \in [Lessons -> Nat \cup {NotOpened}] /\ results \in [Checkers -> Results]

DrillInv == DrillTypes /\ MemoryMeasures /\ FileMeasures /\ HeldPassIsEarned

\* What a method other than mark_started leaves alone.
SameStart(s, t) ==
  /\ s.answered <= t.answered
  /\ \A l \in Lessons : /\ t.rec[l].started = s.rec[l].started
                        /\ t.rec[l].baseline = s.rec[l].baseline

\* The record a method works on starts as the stored one does, present or not.
LEMMA WorkedOnStart ==
  ASSUME NEW s, Good(s), NEW l \in Lessons
  PROVE  LET r == LessonRecord(s, l)
         IN  /\ r \in Record
             /\ r.status # "absent"
             /\ r.started = s.rec[l].started
             /\ r.baseline = s.rec[l].baseline
<1>1. LessonRecord(s, l) \in Record /\ LessonRecord(s, l).status # "absent"
  BY LessonRecordFacts
<1>2. CASE s.rec[l].status = "absent"
  BY <1>1, <1>2 DEF LessonRecord, EmptyLessonRecord, AbsentRecord, Good, Canonical
<1>3. CASE s.rec[l].status # "absent"
  BY <1>1, <1>3 DEF LessonRecord
<1> QED
  BY <1>2, <1>3

\* Storing a record that starts as the lesson's own does.
LEMMA SetRecordKeepsStart ==
  ASSUME NEW s \in State, NEW l \in Lessons, NEW q \in Record,
         q.started = s.rec[l].started, q.baseline = s.rec[l].baseline
  PROVE  LET t == SetRecord(s, l, q)
         IN  t \in State /\ SameStart(s, t) /\ t.rec[l] = q
<1> DEFINE t == SetRecord(s, l, q)
<1>1. /\ t.rec = [s.rec EXCEPT ![l] = q] /\ s.rec \in [Lessons -> Record]
      /\ t.answered = s.answered /\ s.answered \in Nat
  BY DEF SetRecord, State
<1>2. t.rec[l] = q /\ \A k \in Lessons : k # l => t.rec[k] = s.rec[k]
  BY <1>1
<1>3. t \in State
  BY DEF SetRecord, State
<1> HIDE DEF t
<1>4. SameStart(s, t)
  BY <1>1, <1>2 DEF SameStart
<1> QED
  BY <1>2, <1>3, <1>4 DEF t

\* Visiting a lesson page writes no answer and no record (progress.py, last_lesson_id).
LEMMA VisitKeepsStart ==
  ASSUME NEW s \in State, NEW t \in State, SameStart(s, t), NEW l \in Lessons
  PROVE  Visit(t, l) \in State /\ SameStart(s, Visit(t, l)) /\ Visit(t, l).rec = t.rec
<1>1. /\ Visit(t, l) \in State /\ Visit(t, l).rec = t.rec
      /\ Visit(t, l).answered = t.answered
  BY DEF Visit, State
<1> QED
  BY <1>1 DEF SameStart

\* Counting an answer against its concepts touches no lesson's record.
LEMMA BumpKeepsStart ==
  ASSUME NEW s \in State, NEW t \in State, SameStart(s, t), NEW concepts,
         NEW correct \in BOOLEAN
  PROVE  LET u == BumpConcepts(t, concepts, correct)
         IN  u \in State /\ SameStart(s, u) /\ u.rec = t.rec
<1>1. /\ BumpConcepts(t, concepts, correct) \in State
      /\ BumpConcepts(t, concepts, correct).rec = t.rec
      /\ BumpConcepts(t, concepts, correct).answered = t.answered
  BY DEF BumpConcepts, State
<1> QED
  BY <1>1 DEF SameStart

\* A step that is done leaves every starting count where it was.
LEMMA StepKeepsStart ==
  ASSUME NEW s, Good(s), NEW l \in Lessons, NEW b \in Blocks
  PROVE  SameStart(s, RecordStep(s, l, b))
<1> DEFINE r == LessonRecord(s, l)
           q == [r EXCEPT !.steps = @ \cup {b}]
<1>1. /\ s \in State /\ r \in Record
      /\ r.started = s.rec[l].started /\ r.baseline = s.rec[l].baseline
  BY WorkedOnStart DEF Good
<1> HIDE DEF r
<1>2. q \in Record /\ q.started = r.started /\ q.baseline = r.baseline
  BY <1>1 DEF Record
<1> HIDE DEF q
<1>3. SetRecord(s, l, q) \in State /\ SameStart(s, SetRecord(s, l, q))
  BY <1>1, <1>2, SetRecordKeepsStart
<1> QED
  BY <1>1, <1>3, VisitKeepsStart DEF RecordStep, q, r

\* Revealing a hint leaves every starting count where it was.
LEMMA HintKeepsStart ==
  ASSUME NEW s, Good(s), NEW l \in Lessons, NEW index \in Nat
  PROVE  SameStart(s, RecordHint(s, l, index))
<1> DEFINE r == LessonRecord(s, l)
           q == [r EXCEPT !.hints = IF index + 1 > @ THEN index + 1 ELSE @]
<1>1. /\ s \in State /\ r \in Record
      /\ r.started = s.rec[l].started /\ r.baseline = s.rec[l].baseline
  BY WorkedOnStart DEF Good
<1> HIDE DEF r
<1>2. q \in Record /\ q.started = r.started /\ q.baseline = r.baseline
  BY <1>1 DEF Record
<1> HIDE DEF q
<1>3. SameStart(s, SetRecord(s, l, q))
  BY <1>1, <1>2, SetRecordKeepsStart
<1> QED
  BY <1>3 DEF RecordHint, q, r

\* Completing a lesson leaves every starting count where it was.
LEMMA CompleteKeepsStart ==
  ASSUME NEW s, Good(s), NEW l \in Lessons
  PROVE  SameStart(s, MarkComplete(s, l))
<1> DEFINE r == LessonRecord(s, l)
           q == [r EXCEPT !.status = "complete"]
<1>1. /\ s \in State /\ r \in Record
      /\ r.started = s.rec[l].started /\ r.baseline = s.rec[l].baseline
  BY WorkedOnStart DEF Good
<1> HIDE DEF r
<1>2. q \in Record /\ q.started = r.started /\ q.baseline = r.baseline
  BY <1>1 DEF Record, Statuses
<1> HIDE DEF q
<1>3. SameStart(s, SetRecord(s, l, q))
  BY <1>1, <1>2, SetRecordKeepsStart
<1> QED
  BY <1>3 DEF MarkComplete, q, r

\* The answers count, and no lesson's record changes.
LEMMA InterviewKeepsStart ==
  ASSUME NEW s \in State, NEW concepts, NEW correct \in BOOLEAN
  PROVE  SameStart(s, RecordInterview(s, concepts, correct))
<1> DEFINE t == [s EXCEPT !.answered = @ + 1]
<1>1. t \in State /\ SameStart(s, t)
  BY DEF State, SameStart
<1> HIDE DEF t
<1> QED
  BY <1>1, BumpKeepsStart DEF RecordInterview, t

\* A verdict, of a check that is judged every time, is what the validator said, and
\* recording it gives the lesson no starting count it did not have.
LEMMA ValidationKeepsStart ==
  ASSUME NEW s, Good(s), NEW l \in Lessons,
         NEW b \in Blocks, b \notin Historical[l], NEW passed \in BOOLEAN, NEW concepts
  PROVE  LET t == RecordValidation(s, l, b, passed, concepts)
         IN  /\ SameStart(s, t)
             /\ t.rec[l].verdict[b] = IF passed THEN "passed" ELSE "failed"
<1> DEFINE r == LessonRecord(s, l)
           verdict == IF passed THEN "passed" ELSE "failed"
           status == IF Revokes(r, l, b, passed) THEN "in_progress" ELSE r.status
           q == [r EXCEPT !.verdict[b] = verdict, !.status = status]
           t == SetRecord(s, l, q)
           credit == IF b \in Mandatory[l] THEN concepts ELSE {}
           u == BumpConcepts(t, credit, passed)
<1>1. /\ s \in State /\ r \in Record
      /\ r.started = s.rec[l].started /\ r.baseline = s.rec[l].baseline
  BY WorkedOnStart DEF Good
<1>2. ~HistoricalStands(s, l, b)
  BY DEF HistoricalStands
<1>3. RecordValidation(s, l, b, passed, concepts) = Visit(u, l)
  BY <1>2 DEF RecordValidation
<1>4. verdict \in Verdicts
  BY DEF Verdicts
<1>5. status \in Statuses
  <2>1. r.status \in Statuses
    BY <1>1 DEF Record
  <2> QED
    BY <2>1 DEF Statuses
<1> HIDE DEF r, verdict, status
<1>6. /\ q \in Record /\ q.verdict[b] = verdict
      /\ q.started = r.started /\ q.baseline = r.baseline
  BY <1>1, <1>4, <1>5 DEF Record
<1> HIDE DEF q
<1>7. t \in State /\ SameStart(s, t) /\ t.rec[l] = q
  BY <1>1, <1>6, SetRecordKeepsStart
<1> HIDE DEF t
<1>8. u \in State /\ SameStart(s, u) /\ u.rec = t.rec
  BY <1>1, <1>7, BumpKeepsStart
<1> HIDE DEF u
<1>9. SameStart(s, Visit(u, l)) /\ Visit(u, l).rec = u.rec
  BY <1>1, <1>8, VisitKeepsStart
<1> QED
  BY <1>3, <1>6, <1>7, <1>8, <1>9 DEF verdict

\* Opening a lesson: the count is taken when there is none yet.
LEMMA StartTakesCount ==
  ASSUME NEW s, Good(s), NEW l \in Lessons
  PROVE  LET t == MarkStarted(s, l)
         IN  /\ t.answered = s.answered
             /\ t.rec[l].started = TRUE
             /\ t.rec[l].baseline
                  = IF s.rec[l].started THEN s.rec[l].baseline ELSE s.answered
             /\ \A k \in Lessons : k # l => t.rec[k] = s.rec[k]
<1> DEFINE r == LessonRecord(s, l)
           q == [r EXCEPT !.started = TRUE,
                          !.baseline = IF r.started THEN @ ELSE s.answered,
                          !.status = IF @ = "not_started" THEN "in_progress" ELSE @]
           t == SetRecord(s, l, q)
<1>1. /\ s \in State /\ r \in Record /\ s.answered \in Nat
      /\ r.started = s.rec[l].started /\ r.baseline = s.rec[l].baseline
  BY WorkedOnStart DEF Good, State
<1> HIDE DEF r
<1>2. /\ q.started = TRUE
      /\ q.baseline = IF r.started THEN r.baseline ELSE s.answered
  BY <1>1 DEF Record
<1> HIDE DEF q
<1>3. /\ t.rec[l] = q /\ t.answered = s.answered
      /\ \A k \in Lessons : k # l => t.rec[k] = s.rec[k]
  BY <1>1 DEF SetRecord, State
<1>4. MarkStarted(s, l) = Visit(t, l)
  BY DEF MarkStarted, q, r
<1>5. Visit(t, l).rec = t.rec /\ Visit(t, l).answered = t.answered
  BY <1>1 DEF Visit, SetRecord, State
<1> HIDE DEF t
<1> QED
  BY <1>1, <1>2, <1>3, <1>4, <1>5

\* A method that leaves every lesson's start alone, whether its save succeeds or not.
LEMMA SaveKeepsDrillInv ==
  ASSUME Inv, Inv', DrillInv, up, NEW t, SameStart(mem, t), NEW facts,
         SaveLocked(t, facts), UNCHANGED openedAt,
         \/ UNCHANGED results
         \/ \E r \in Checkers : results' = [results EXCEPT ![r] = NoResult]
  PROVE  DrillInv'
<1>1. mem' = t /\ disk' \in {t, disk} /\ up' = up /\ openedAt' = openedAt
  BY DEF SaveLocked
<1>2. mem.answered \in Nat /\ mem'.answered \in Nat /\ disk.answered \in Nat
  BY DEF Inv, Good, State
<1>3. MemoryMeasures'
  BY <1>1, <1>2 DEF DrillInv, MemoryMeasures, SameStart
<1>4. FileMeasures'
  BY <1>1 DEF DrillInv, FileMeasures, MemoryMeasures, SameStart
<1>5. DrillTypes'
  <2>1. NoResult \in Results
    BY DEF Results, NoResult
  <2>2. results \in [Checkers -> Results]
    BY DEF DrillInv, DrillTypes
  <2>3. results' \in [Checkers -> Results]
    BY <2>1, <2>2
  <2> QED
    BY <1>1, <2>3 DEF DrillInv, DrillTypes
<1>6. ASSUME NEW r \in Checkers
      PROVE  /\ results'[r].passed /\ results'[r].since # NotOpened
                  => mem'.answered - results'[r].since >= Minimum
  <2>1. results'[r] \in {results[r], NoResult}
    BY DEF DrillInv, DrillTypes
  <2>2. CASE results'[r] = NoResult
    BY <2>2 DEF NoResult
  <2>3. CASE results'[r] = results[r]
    <3>1. results[r].since \in Nat \cup {NotOpened}
      BY DEF DrillInv, DrillTypes, Results
    <3>2. mem.answered <= mem'.answered
      BY <1>1 DEF SameStart
    <3> QED
      BY <1>2, <2>3, <3>1, <3>2, DrillAssumption DEF DrillInv, HeldPassIsEarned, NotOpened
  <2> QED
    BY <2>1, <2>2, <2>3
<1>7. HeldPassIsEarned'
  BY <1>1, <1>6 DEF HeldPassIsEarned
<1> QED
  BY <1>3, <1>4, <1>5, <1>7 DEF DrillInv

\* Opening a lesson stores the count of answers of its first opening.
LEMMA StartKeepsDrillInv ==
  ASSUME Inv, DrillInv, NEW l \in Lessons, DrillStart(l)
  PROVE  DrillInv'
<1> DEFINE t == MarkStarted(mem, l)
<1>1. /\ up /\ up' /\ mem' = t /\ disk' \in {t, disk} /\ results' = results
      /\ openedAt' = [openedAt EXCEPT ![l] = IF @ = NotOpened THEN mem.answered ELSE @]
  BY DEF DrillStart, HandleStart, SaveLocked, Inv
<1>2. mem.answered \in Nat /\ disk.answered \in Nat
  BY DEF Inv, Good, State
<1>3. /\ t.answered = mem.answered
      /\ t.rec[l].started = TRUE
      /\ t.rec[l].baseline
           = IF mem.rec[l].started THEN mem.rec[l].baseline ELSE mem.answered
      /\ \A k \in Lessons : k # l => t.rec[k] = mem.rec[k]
  BY StartTakesCount DEF Inv
<1> HIDE DEF t
<1>4. DrillTypes'
  BY <1>1, <1>2 DEF DrillInv, DrillTypes
<1>5. /\ openedAt'[l] = IF openedAt[l] = NotOpened THEN mem.answered ELSE openedAt[l]
      /\ openedAt'[l] # NotOpened
      /\ \A k \in Lessons : k # l => openedAt'[k] = openedAt[k]
  BY <1>1, <1>2 DEF DrillInv, DrillTypes, NotOpened
<1>6. t.rec[l].baseline = openedAt'[l]
  BY <1>1, <1>3, <1>5 DEF DrillInv, MemoryMeasures
<1>7. MemoryMeasures'
  BY <1>1, <1>2, <1>3, <1>5, <1>6 DEF DrillInv, MemoryMeasures
<1>8. FileMeasures'
  <2> SUFFICES ASSUME NEW k \in Lessons, disk'.rec[k].started
               PROVE  openedAt'[k] # NotOpened /\ disk'.rec[k].baseline = openedAt'[k]
    BY <1>1 DEF FileMeasures
  <2>1. CASE k = l /\ disk' = t
    BY <1>5, <1>6, <2>1
  <2>2. CASE k = l /\ disk' = disk
    BY <1>5, <2>2 DEF DrillInv, FileMeasures
  <2>3. CASE k # l /\ disk' = t
    BY <1>1, <1>3, <1>5, <2>3 DEF DrillInv, MemoryMeasures
  <2>4. CASE k # l /\ disk' = disk
    BY <1>5, <2>4 DEF DrillInv, FileMeasures
  <2> QED
    BY <1>1, <2>1, <2>2, <2>3, <2>4
<1>9. HeldPassIsEarned'
  BY <1>1, <1>3 DEF DrillInv, HeldPassIsEarned
<1> QED
  BY <1>4, <1>7, <1>8, <1>9 DEF DrillInv

\* Once the opening is in the file, the check passes exactly when enough of the answers
\* in the file were given since then.
LEMMA CheckMeasures ==
  ASSUME Inv, DrillInv, NEW l \in Lessons, disk.rec[l].started
  PROVE  ProgressCheck(disk, l) <=> disk.answered - openedAt[l] >= Minimum
<1>1. disk.rec[l].status # "absent"
  BY DEF Inv, Good, Canonical, AbsentRecord
<1> QED
  BY <1>1 DEF ProgressCheck, DrillInv, FileMeasures

\* What a check has in hand when it is done.
LEMMA CheckKeepsDrillInv ==
  ASSUME Inv, DrillInv, NEW r \in Checkers, NEW l \in Lessons, DrillCheck(r, l)
  PROVE  DrillInv'
<1> DEFINE found == [lesson |-> l, passed |-> ProgressCheck(disk, l),
                     since |-> IF disk.rec[l].started THEN openedAt[l] ELSE NotOpened]
<1>1. /\ up /\ UNCHANGED <<mem, disk, up, openedAt>>
      /\ results' = [results EXCEPT ![r] = found]
  BY DEF DrillCheck, vars
<1>2. openedAt[l] \in Nat \cup {NotOpened}
  BY DEF DrillInv, DrillTypes
<1>3. found \in Results
  BY <1>2 DEF Results, ProgressCheck
<1>4. mem.answered \in Nat /\ disk.answered \in Nat /\ disk.answered <= mem.answered
  BY <1>1 DEF Inv, Good, State, DrillInv, MemoryMeasures
<1>5. found.passed /\ found.since # NotOpened => mem.answered - found.since >= Minimum
  <2> SUFFICES ASSUME ProgressCheck(disk, l), disk.rec[l].started, openedAt[l] # NotOpened
               PROVE  mem.answered - openedAt[l] >= Minimum
    OBVIOUS
  <2>1. disk.answered - openedAt[l] >= Minimum
    BY CheckMeasures
  <2> QED
    BY <1>2, <1>4, <2>1, DrillAssumption
<1> HIDE DEF found
<1>6. DrillTypes'
  BY <1>1, <1>3 DEF DrillInv, DrillTypes
<1>7. HeldPassIsEarned'
  BY <1>1, <1>5 DEF DrillInv, DrillTypes, HeldPassIsEarned
<1>8. MemoryMeasures' /\ FileMeasures'
  BY <1>1 DEF DrillInv, MemoryMeasures, FileMeasures
<1> QED
  BY <1>6, <1>7, <1>8 DEF DrillInv

\* A result that is recorded is one of a lesson of the curriculum.
LEMMA HeldResult ==
  ASSUME Inv, DrillTypes, NEW r \in Checkers, DrillRecord(r)
  PROVE  /\ results[r].lesson \in Lessons /\ results[r].passed \in BOOLEAN
         /\ results[r].since \in Nat \cup {NotOpened}
<1>1. results[r] \in Results
  BY DEF DrillTypes
<1>2. results[r].lesson \in avail /\ avail \in Availabilities
  BY DEF DrillRecord, HandleValidate, Inv
<1> QED
  BY <1>1, <1>2, CurriculumAssumption DEF Results

\* The requests of the drill are requests of the store.
LEMMA DrillStepsAreStoreSteps ==
  ASSUME Inv, DrillTypes PROVE [DrillNext]_drillVars => [Next]_vars
<1>1. \A l \in Lessons : DrillStart(l) => Next
  BY DEF DrillStart, Next
<1>2. ASSUME NEW r \in Checkers, DrillRecord(r)
      PROVE  Next
  <2> DEFINE l == results[r].lesson
             passed == results[r].passed
  <2>1. l \in Lessons /\ passed \in BOOLEAN /\ DrillBlock \in Blocks
    BY <1>2, HeldResult, DrillAssumption
  <2>2. HandleValidate(l, DrillBlock, passed, FALSE)
    BY <1>2 DEF DrillRecord
  <2> HIDE DEF l, passed
  <2> QED
    BY <2>1, <2>2 DEF Next
<1>3. \A r \in Checkers, l \in Lessons : DrillCheck(r, l) => UNCHANGED vars
  BY DEF DrillCheck
<1>4. DrillCrash \/ DrillOther => Next
  BY DEF DrillCrash, DrillOther, Next
<1> QED
  BY <1>1, <1>2, <1>3, <1>4 DEF DrillNext, drillVars

\* Recording what a check found.
LEMMA RecordKeepsDrillInv ==
  ASSUME Inv, Inv', DrillInv, NEW r \in Checkers, DrillRecord(r)
  PROVE  DrillInv'
<1> DEFINE l == results[r].lesson
           passed == results[r].passed
<1>1. /\ l \in Lessons /\ passed \in BOOLEAN
      /\ DrillBlock \in Blocks /\ DrillBlock \notin Historical[l]
  BY HeldResult, DrillAssumption DEF DrillInv
<1> HIDE DEF l, passed
<1>2. PICK concepts :
        SaveLocked(RecordValidation(mem, l, DrillBlock, passed, concepts), {})
  BY DEF DrillRecord, HandleValidate, l, passed
<1>3. /\ up /\ UNCHANGED openedAt
      /\ results' = [results EXCEPT ![r] = NoResult]
  BY DEF DrillRecord, HandleValidate
<1>4. SameStart(mem, RecordValidation(mem, l, DrillBlock, passed, concepts))
  BY <1>1, ValidationKeepsStart DEF Inv
<1> QED
  BY <1>2, <1>3, <1>4, SaveKeepsDrillInv

\* Every step of the drill's server keeps the invariant.
LEMMA DrillNextInv == Inv /\ Inv' /\ DrillInv /\ [DrillNext]_drillVars => DrillInv'
<1> SUFFICES ASSUME Inv, Inv', DrillInv, [DrillNext]_drillVars
             PROVE  DrillInv'
  OBVIOUS
<1>1. mem \in State /\ Good(mem)
  BY DEF Inv, Good
<1>2. ASSUME NEW l \in Lessons, DrillStart(l)
      PROVE  DrillInv'
  BY <1>2, StartKeepsDrillInv
<1>3. ASSUME NEW r \in Checkers, NEW l \in Lessons, DrillCheck(r, l)
      PROVE  DrillInv'
  BY <1>3, CheckKeepsDrillInv
<1>4. ASSUME NEW r \in Checkers, DrillRecord(r)
      PROVE  DrillInv'
  BY <1>4, RecordKeepsDrillInv
<1>5. ASSUME UNCHANGED <<results, openedAt>>, NEW l \in Lessons, NEW b \in StepBlocks,
             HandleStep(l, b)
      PROVE  DrillInv'
  <2>1. b \in Blocks
    BY CurriculumAssumption
  <2>2. up /\ SaveLocked(RecordStep(mem, l, b), {Fact("step", l, b)})
    BY <1>5 DEF HandleStep
  <2> QED
    BY <1>1, <1>5, <2>1, <2>2, StepKeepsStart, SaveKeepsDrillInv
<1>6. ASSUME UNCHANGED <<results, openedAt>>, NEW l \in Lessons,
             NEW index \in 0..(Hints[l] - 1), HandleHint(l, index)
      PROVE  DrillInv'
  <2> DEFINE t == RecordHint(mem, l, index)
  <2>1. up /\ (SaveLocked(t, {HintFact(l, t.rec[l].hints)}) \/ UNCHANGED <<mem, disk, up>>)
    BY <1>6 DEF HandleHint
  <2>2. index \in Nat
    OBVIOUS
  <2>3. SameStart(mem, t)
    BY <1>1, <2>2, HintKeepsStart
  <2> HIDE DEF t
  <2>4. CASE UNCHANGED <<mem, disk, up>>
    BY <1>6, <2>4
       DEF DrillInv, DrillTypes, MemoryMeasures, FileMeasures, HeldPassIsEarned
  <2> QED
    BY <1>6, <2>1, <2>3, <2>4, SaveKeepsDrillInv
<1>7. ASSUME UNCHANGED <<results, openedAt>>, NEW l \in Lessons, HandleComplete(l)
      PROVE  DrillInv'
  <2>1. up /\ SaveLocked(MarkComplete(mem, l), {})
    BY <1>7 DEF HandleComplete
  <2> QED
    BY <1>1, <1>7, <2>1, CompleteKeepsStart, SaveKeepsDrillInv
<1>8. ASSUME UNCHANGED <<results, openedAt>>, NEW concepts \in QuestionConcepts,
             NEW correct \in BOOLEAN, HandleInterviewAnswer(concepts, correct)
      PROVE  DrillInv'
  <2>1. up /\ SaveLocked(RecordInterview(mem, concepts, correct), {})
    BY <1>8 DEF HandleInterviewAnswer
  <2> QED
    BY <1>1, <1>8, <2>1, InterviewKeepsStart, SaveKeepsDrillInv
<1>9. ASSUME DrillCrash
      PROVE  DrillInv'
  <2>1. /\ ~up' /\ disk' = disk
        /\ results' = [r \in Checkers |-> NoResult]
        /\ openedAt' = [l \in Lessons |->
                          IF disk.rec[l].started THEN openedAt[l] ELSE NotOpened]
    BY <1>9 DEF DrillCrash, Crash
  <2>2. DrillTypes'
    BY <2>1 DEF DrillInv, DrillTypes, Results, NoResult
  <2>3. MemoryMeasures' /\ FileMeasures' /\ HeldPassIsEarned'
    BY <2>1 DEF DrillInv, MemoryMeasures, FileMeasures, HeldPassIsEarned, NoResult
  <2> QED
    BY <2>2, <2>3 DEF DrillInv
<1>10. ASSUME UNCHANGED <<results, openedAt>>, NEW av \in Availabilities, Restart(av)
       PROVE  DrillInv'
  <2>1. ~up /\ up' /\ disk' = disk /\ mem' = disk /\ disk.answered \in Nat
    BY <1>10 DEF Restart, Inv, Good, State
  <2>2. \A r \in Checkers : results'[r] = NoResult
    BY <1>10, <2>1 DEF DrillInv, HeldPassIsEarned
  <2>3. MemoryMeasures' /\ FileMeasures'
    BY <1>10, <2>1 DEF DrillInv, MemoryMeasures, FileMeasures
  <2>4. DrillTypes' /\ HeldPassIsEarned'
    BY <1>10, <2>1, <2>2 DEF DrillInv, DrillTypes, HeldPassIsEarned, NoResult
  <2> QED
    BY <2>3, <2>4 DEF DrillInv
<1>11. CASE UNCHANGED drillVars
  BY <1>11 DEF drillVars, vars, DrillInv, DrillTypes, MemoryMeasures, FileMeasures,
               HeldPassIsEarned
<1> QED
  BY <1>2, <1>3, <1>4, <1>5, <1>6, <1>7, <1>8, <1>9, <1>10, <1>11
     DEF DrillNext, DrillOther

\* The invariants of the store and of the drill hold together: a step of the drill's
\* server is one of the store, or leaves it alone.
THEOREM DrillInvariance == DrillSpec => [](Inv /\ DrillInv)
<1>1. DrillInit => Inv /\ DrillInv
  <2>1. DrillInit => Inv
    BY InitInv DEF DrillInit
  <2>2. DrillInit => DrillInv
    BY DEF DrillInit, Init, DrillInv, DrillTypes, MemoryMeasures, FileMeasures,
           HeldPassIsEarned, Results, NoResult, EmptyState, AbsentRecord
  <2> QED
    BY <2>1, <2>2
<1>2. Inv /\ DrillInv /\ [DrillNext]_drillVars => (Inv /\ DrillInv)'
  <2> SUFFICES ASSUME Inv, DrillInv, [DrillNext]_drillVars
               PROVE  Inv' /\ DrillInv'
    OBVIOUS
  <2>1. Inv'
    BY DrillStepsAreStoreSteps, NextInv DEF DrillInv
  <2> QED
    BY <2>1, DrillNextInv
<1> QED
  BY <1>1, <1>2, PTL DEF DrillSpec

\* The drill counts from the first opening, for any number of request threads that
\* validate beside answers and openings, and for clients that open no lesson at all.
THEOREM DrillCountsFromOpening == DrillSpec => DrillMeasuredFromOpening
<1> DEFINE Checked(r, l) ==
             DrillCheck(r, l) /\ disk.rec[l].started
               => (results'[r].passed <=> disk.answered - openedAt[l] >= Minimum)
           Stored(r, l) ==
             (/\ DrillRecord(r)
              /\ l = results[r].lesson /\ results[r].since # NotOpened
              /\ mem'.rec[l].verdict[DrillBlock] = "passed")
               => mem.answered - results[r].since >= Minimum
           Step == /\ \A r \in Checkers, l \in Lessons : Checked(r, l)
                   /\ \A r \in Checkers, l \in Lessons : Stored(r, l)
<1>1. ASSUME Inv, DrillInv, NEW r \in Checkers, NEW l \in Lessons
      PROVE  Checked(r, l)
  <2> SUFFICES ASSUME DrillCheck(r, l), disk.rec[l].started
               PROVE  results'[r].passed <=> disk.answered - openedAt[l] >= Minimum
    OBVIOUS
  <2>1. results'[r].passed = ProgressCheck(disk, l)
    BY <1>1 DEF DrillCheck, DrillInv, DrillTypes
  <2> QED
    BY <1>1, <2>1, CheckMeasures
<1>2. ASSUME Inv, DrillInv, NEW r \in Checkers, NEW l \in Lessons
      PROVE  Stored(r, l)
  <2> SUFFICES ASSUME DrillRecord(r), l = results[r].lesson,
                      results[r].since # NotOpened,
                      mem'.rec[l].verdict[DrillBlock] = "passed"
               PROVE  mem.answered - results[r].since >= Minimum
    OBVIOUS
  <2> DEFINE passed == results[r].passed
  <2>1. passed \in BOOLEAN /\ DrillBlock \in Blocks /\ DrillBlock \notin Historical[l]
    BY <1>2, HeldResult, DrillAssumption DEF DrillInv
  <2>2. PICK concepts : mem' = RecordValidation(mem, l, DrillBlock, passed, concepts)
    BY DEF DrillRecord, HandleValidate, SaveLocked
  <2> HIDE DEF passed
  <2>3. passed
    BY <1>2, <2>1, <2>2, ValidationKeepsStart DEF Inv
  <2> QED
    BY <1>2, <2>3 DEF DrillInv, HeldPassIsEarned, passed
<1>3. Inv /\ DrillInv => Step
  BY <1>1, <1>2
<1> HIDE DEF Checked, Stored
<1>4. Inv /\ DrillInv => [Step]_drillVars
  BY <1>3
<1> QED
  BY <1>4, DrillInvariance, PTL DEF DrillMeasuredFromOpening, Step, Checked, Stored
================================================================================
