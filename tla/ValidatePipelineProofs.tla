------------------------ MODULE ValidatePipelineProofs ------------------------
(***************************************************************************)
(* Proofs about ValidatePipeline, for any set of request threads and any   *)
(* number of requests.                                                     *)
(***************************************************************************)
EXTENDS ValidatePipeline, FiniteSetTheorems, TLAPS

\* The lock is held exactly by the handler that is inside the `with` block.
LockInv == \A h \in Handlers : pc[h] \in Locked <=> lock = h

\* A live child belongs to a handler between Popen and the end of its run.
LiveInv == \A h \in Handlers : child[h] = "live" => pc[h] \in {"spawned", "running"}

\* The main thread has set shutting_down before it does anything else.
DoorInv == main # "serving" => shutting

\* A handler that started a child behind the closed door was the last one past
\* its first check.
LateInv ==
  \/ late = {}
  \/ \E h \in Handlers :
       late = {h} /\ shutting /\ \A g \in Handlers : pc[g] # "starting"

Inv == TypeOK /\ LockInv /\ LiveInv /\ DoorInv /\ LateInv

\* A killed child means shutdown has begun, and its handler is on the way to the
\* second look or has an exception to record.
KilledInv ==
  \A h \in Handlers :
    child[h] = "killed"
      => /\ shutting
         /\ \/ pc[h] \in {"spawned", "running", "ran", "refused"}
            \/ pc[h] \in {"recording", "recorded", "unsaved"} /\ verdict[h] = "crashed"

\* The initial state satisfies the invariant.
LEMMA InitInv == Init => Inv /\ KilledInv
<1> SUFFICES ASSUME Init PROVE Inv /\ KilledInv
  OBVIOUS
<1> USE DEF Init
<1>1. TypeOK
  BY DEF TypeOK, PCs, Over, Locked, Verdicts, Children
<1>2. LockInv
  BY PipelineAssumption DEF LockInv, Locked
<1>3. LiveInv /\ KilledInv
  BY DEF LiveInv, KilledInv
<1>4. DoorInv /\ LateInv
  BY DEF DoorInv, LateInv
<1> QED
  BY <1>1, <1>2, <1>3, <1>4 DEF Inv

\* Every step preserves the types.
LEMMA NextTypeOK == TypeOK /\ [Next]_vars => TypeOK'
<1> SUFFICES ASSUME TypeOK, [Next]_vars PROVE TypeOK'
  OBVIOUS
<1> USE DEF TypeOK, PCs, Over, Locked, Verdicts, Children, At, Goto, Passed
<1>1. ASSUME NEW h \in Handlers, Arrive(h) PROVE TypeOK'
  BY <1>1 DEF Arrive
<1>2. ASSUME NEW h \in Handlers, AcquireLock(h) PROVE TypeOK'
  BY <1>2 DEF AcquireLock
<1>3. ASSUME NEW h \in Handlers, CheckBeforeRun(h) PROVE TypeOK'
  BY <1>3 DEF CheckBeforeRun, Refuse, Raise
<1>4. ASSUME NEW h \in Handlers, RunWithoutChild(h) PROVE TypeOK'
  BY <1>4 DEF RunWithoutChild
<1>5. ASSUME NEW h \in Handlers, Spawn(h) PROVE TypeOK'
  BY <1>5 DEF Spawn
<1>6. ASSUME NEW h \in Handlers, Register(h) PROVE TypeOK'
  BY <1>6 DEF Register
<1>7. ASSUME NEW h \in Handlers, CrashEarly(h) PROVE TypeOK'
  BY <1>7 DEF CrashEarly, Raise
<1>8. ASSUME NEW h \in Handlers, RunEnds(h) PROVE TypeOK'
  BY <1>8 DEF RunEnds, Raise
<1>9. ASSUME NEW h \in Handlers, FindChildKilled(h) PROVE TypeOK'
  BY <1>9 DEF FindChildKilled, Raise
<1>10. ASSUME NEW h \in Handlers, CheckAfterRun(h) PROVE TypeOK'
  BY <1>10 DEF CheckAfterRun, Refuse, Raise
<1>11. ASSUME NEW h \in Handlers, RecordVerdict(h) PROVE TypeOK'
  BY <1>11 DEF RecordVerdict
<1>12. ASSUME NEW h \in Handlers, KillNext(h) PROVE TypeOK'
  BY <1>12 DEF KillNext
<1>13. CASE Complete \/ Edit \/ BeginShutdown \/ CopyActive \/ Exit
  BY <1>13 DEF Complete, Edit, BeginShutdown, CopyActive, Exit
<1>14. CASE UNCHANGED vars
  BY <1>14 DEF vars
<1> QED
  BY <1>1, <1>2, <1>3, <1>4, <1>5, <1>6, <1>7, <1>8, <1>9, <1>10, <1>11, <1>12,
     <1>13, <1>14 DEF Next, Handle

\* Every step preserves the lock discipline and what follows from it.
LEMMA NextInv == Inv /\ [Next]_vars => Inv'
<1> SUFFICES ASSUME Inv, [Next]_vars
             PROVE  (LockInv /\ LiveInv /\ DoorInv /\ LateInv)'
  BY NextTypeOK DEF Inv
<1> USE PipelineAssumption
        DEF Inv, LockInv, LiveInv, DoorInv, LateInv, TypeOK, Over, Locked, At, Goto
<1>1. ASSUME NEW h \in Handlers, Arrive(h)
      PROVE  (LockInv /\ LiveInv /\ DoorInv /\ LateInv)'
  BY <1>1 DEF Arrive
<1>2. ASSUME NEW h \in Handlers, AcquireLock(h)
      PROVE  (LockInv /\ LiveInv /\ DoorInv /\ LateInv)'
  BY <1>2 DEF AcquireLock
<1>3. ASSUME NEW h \in Handlers, CheckBeforeRun(h)
      PROVE  (LockInv /\ LiveInv /\ DoorInv /\ LateInv)'
  BY <1>3 DEF CheckBeforeRun, Refuse, Raise
<1>4. ASSUME NEW h \in Handlers, RunWithoutChild(h)
      PROVE  (LockInv /\ LiveInv /\ DoorInv /\ LateInv)'
  BY <1>4 DEF RunWithoutChild
<1>5. ASSUME NEW h \in Handlers, Spawn(h)
      PROVE  (LockInv /\ LiveInv /\ DoorInv /\ LateInv)'
  <2>1. (LockInv /\ LiveInv /\ DoorInv)'
    BY <1>5 DEF Spawn
  <2>2. late = {} /\ \A g \in Handlers : g # h => pc[g] # "starting"
    BY <1>5 DEF Spawn
  <2>3. \A g \in Handlers : pc'[g] # "starting"
    BY <1>5, <2>2 DEF Spawn
  <2>4. late' = {} \/ (late' = {h} /\ shutting')
    BY <1>5, <2>2 DEF Spawn
  <2>5. LateInv'
    BY <2>3, <2>4
  <2> QED
    BY <2>1, <2>5
<1>6. ASSUME NEW h \in Handlers, Register(h)
      PROVE  (LockInv /\ LiveInv /\ DoorInv /\ LateInv)'
  BY <1>6 DEF Register
<1>7. ASSUME NEW h \in Handlers, CrashEarly(h)
      PROVE  (LockInv /\ LiveInv /\ DoorInv /\ LateInv)'
  BY <1>7 DEF CrashEarly, Raise
<1>8. ASSUME NEW h \in Handlers, RunEnds(h)
      PROVE  (LockInv /\ LiveInv /\ DoorInv /\ LateInv)'
  BY <1>8 DEF RunEnds, Raise
<1>9. ASSUME NEW h \in Handlers, FindChildKilled(h)
      PROVE  (LockInv /\ LiveInv /\ DoorInv /\ LateInv)'
  BY <1>9 DEF FindChildKilled, Raise
<1>10. ASSUME NEW h \in Handlers, CheckAfterRun(h)
       PROVE  (LockInv /\ LiveInv /\ DoorInv /\ LateInv)'
  BY <1>10 DEF CheckAfterRun, Refuse, Raise
<1>11. ASSUME NEW h \in Handlers, RecordVerdict(h)
       PROVE  (LockInv /\ LiveInv /\ DoorInv /\ LateInv)'
  BY <1>11 DEF RecordVerdict
<1>12. ASSUME NEW h \in Handlers, KillNext(h)
       PROVE  (LockInv /\ LiveInv /\ DoorInv /\ LateInv)'
  BY <1>12 DEF KillNext
<1>13. CASE Complete \/ Edit \/ BeginShutdown \/ CopyActive \/ Exit
  BY <1>13 DEF Complete, Edit, BeginShutdown, CopyActive, Exit
<1>14. CASE UNCHANGED vars
  BY <1>14 DEF vars
<1> QED
  BY <1>1, <1>2, <1>3, <1>4, <1>5, <1>6, <1>7, <1>8, <1>9, <1>10, <1>11, <1>12,
     <1>13, <1>14 DEF Next, Handle

\* Whatever the validator makes of its killed child, the handler is steered to the
\* second look, and past it only with an exception.
LEMMA NextKilledInv == Inv /\ KilledInv /\ [Next]_vars => KilledInv'
<1> SUFFICES ASSUME Inv, KilledInv, [Next]_vars PROVE KilledInv'
  OBVIOUS
<1> USE DEF Inv, LiveInv, DoorInv, TypeOK, KilledInv, Over, At, Goto
<1>1. ASSUME NEW h \in Handlers, Arrive(h) PROVE KilledInv'
  BY <1>1 DEF Arrive
<1>2. ASSUME NEW h \in Handlers, Handle(h) PROVE KilledInv'
  <2>1. CASE AcquireLock(h) \/ CheckBeforeRun(h) \/ RunWithoutChild(h)
    BY <2>1 DEF AcquireLock, CheckBeforeRun, RunWithoutChild, Refuse, Raise
  <2>2. CASE Spawn(h) \/ Register(h)
    BY <2>2 DEF Spawn, Register
  <2>3. CASE CrashEarly(h) \/ RunEnds(h)
    BY <2>3 DEF CrashEarly, RunEnds, Raise
  <2>4. CASE FindChildKilled(h)
    BY <2>4 DEF FindChildKilled, Raise
  <2>5. CASE CheckAfterRun(h) \/ RecordVerdict(h)
    BY <2>5 DEF CheckAfterRun, RecordVerdict, Refuse, Raise
  <2> QED
    BY <1>2, <2>1, <2>2, <2>3, <2>4, <2>5 DEF Handle
<1>3. ASSUME NEW h \in Handlers, KillNext(h) PROVE KilledInv'
  BY <1>3 DEF KillNext
<1>4. CASE Complete \/ Edit \/ BeginShutdown \/ CopyActive \/ Exit
  BY <1>4 DEF Complete, Edit, BeginShutdown, CopyActive, Exit
<1>5. CASE UNCHANGED vars
  BY <1>5 DEF vars
<1> QED
  BY <1>1, <1>2, <1>3, <1>4, <1>5 DEF Next

--------------------------------------------------------------------------------

\* The inductive invariant holds in every reachable state.
THEOREM Invariance == Spec => []Inv
<1>1. Init => Inv
  BY InitInv
<1>2. Inv /\ [Next]_vars => Inv'
  BY NextInv
<1> QED
  BY <1>1, <1>2, PTL DEF Spec

\* However many request threads there are, at most one validator child is alive.
THEOREM ValidatorsTakeTurns == Spec => []OneChildAtATime
<1>1. Inv => OneChildAtATime
  BY DEF Inv, LockInv, LiveInv, OneChildAtATime, Locked
<1> QED
  BY <1>1, Invariance, PTL

\* However many requests are queued, shutdown lets at most one more child start.
THEOREM QueuedRequestsRefuse == Spec => []AtMostOneLateStart
<1>1. Inv => AtMostOneLateStart
  <2> SUFFICES ASSUME LateInv PROVE Cardinality(late) <= 1
    BY DEF Inv, AtMostOneLateStart
  <2>1. CASE late = {}
    BY <2>1, FS_EmptySet
  <2>2. ASSUME NEW h \in Handlers, late = {h} PROVE Cardinality(late) <= 1
    BY <2>2, FS_Singleton
  <2> QED
    BY <2>1, <2>2 DEF LateInv
<1> QED
  BY <1>1, Invariance, PTL

\* For every validator, any number of request threads, failing saves and clients
\* that hang up, what a killed run reports is discarded.
THEOREM StoppedRunsAreDiscarded == Spec => []StoppedRunIsNoVerdict
<1>1. Init => Inv /\ KilledInv
  BY InitInv
<1>2. (Inv /\ KilledInv) /\ [Next]_vars => (Inv /\ KilledInv)'
  BY NextInv, NextKilledInv
<1>3. KilledInv => StoppedRunIsNoVerdict
  BY DEF KilledInv, StoppedRunIsNoVerdict
<1> QED
  BY <1>1, <1>2, <1>3, PTL DEF Spec
================================================================================
