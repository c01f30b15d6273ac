---------------------------- MODULE ValidatePipeline ----------------------------
(***************************************************************************)
(* POST /api/validate as concurrent request threads see it: the wait for   *)
(* validator_lock, the child process a validator starts and registers in   *)
(* _ACTIVE, the verdict that is recorded after the lock is released, and   *)
(* the shutdown of the server running beside all of it.                    *)
(*                                                                         *)
(* Every handler asks for the same mandatory check of one lesson whose     *)
(* other gates are open.  `works` is the learner's checkout: does it pass  *)
(* that check at this moment?                                              *)
(***************************************************************************)
EXTENDS Integers, FiniteSets

CONSTANTS
  Handlers,     \* request threads
  Validator,    \* how the check runs: see Validators
  MaxRequests,  \* bound on the requests accepted
  SaveFaults,   \* may writing the progress file fail with an OSError?
  NoHandler

\* "static":     reads files, no child to sweep (source_check, artifact_check,
\*               progress_check)
\* "subprocess": run_subprocess waits for the child (pytest_check, python_probe,
\*               toolchain_check but for its two-child gdb-attach mode)
\* "probe":      behavior_probe talks to the child; losing it may raise
Validators == {"static", "subprocess", "probe"}

ASSUME PipelineAssumption ==
  /\ Validator \in Validators
  /\ MaxRequests \in Nat
  /\ SaveFaults \in BOOLEAN
  /\ NoHandler \notin Handlers

VARIABLES
  pc,        \* where each handler thread is in _handle_validate
  verdict,   \* result.passed / crashed, local to the handler
  child,     \* the process the handler's validator started
  lock,      \* holder of LearningServer.validator_lock
  active,    \* _ACTIVE: handlers whose child is registered
  shutting,  \* LearningServer.shutting_down
  main,      \* the main thread: serve_forever and the finally of _serve
  snapshot,  \* the list terminate_active_validators copied from _ACTIVE
  works,     \* would the check pass on the checkout as it is now?
  stored,    \* record["validations"][block]["passed"]
  status,    \* record["status"]
  requests,  \* how many requests have been accepted
  latest,    \* history: verdict of the last run that released the lock
  late       \* history: handlers that started a child after the server was interrupted

vars == <<pc, verdict, child, lock, active, shutting, main, snapshot, works,
          stored, status, requests, latest, late>>

Locked == {"checking", "starting", "spawned", "running", "ran"}
\* "recorded" and "refused" are requests with a reply; "unsaved" is a thread that
\* ended with the OSError of its save, whose connection closes without one.
Over == {"recorded", "refused", "unsaved"}
PCs == {"idle", "queued", "recording"} \cup Over \cup Locked
Verdicts == {"none", "passed", "failed", "crashed"}
Children == {"none", "live", "ended", "killed"}

TypeOK ==
  /\ pc \in [Handlers -> PCs]
  /\ verdict \in [Handlers -> Verdicts]
  /\ child \in [Handlers -> Children]
  /\ lock \in Handlers \cup {NoHandler}
  /\ active \subseteq Handlers
  /\ shutting \in BOOLEAN
  /\ main \in {"serving", "closing", "sweeping", "exited"}
  /\ snapshot \subseteq Handlers
  /\ works \in BOOLEAN
  /\ stored \in {"none", "passed", "failed"}
  /\ status \in {"in_progress", "complete"}
  /\ requests \in Nat
  /\ latest \in {"none", "passed", "failed"}
  /\ late \subseteq Handlers

Init ==
  /\ pc = [h \in Handlers |-> "idle"]
  /\ verdict = [h \in Handlers |-> "none"]
  /\ child = [h \in Handlers |-> "none"]
  /\ lock = NoHandler
  /\ active = {}
  /\ shutting = FALSE
  /\ main = "serving"
  /\ snapshot = {}
  /\ works \in BOOLEAN
  /\ stored = "none"
  /\ status = "in_progress"
  /\ requests = 0
  /\ latest = "none"
  /\ late = {}

Alive == main # "exited"
At(h, label) == Alive /\ pc[h] = label
Goto(h, label) == pc' = [pc EXCEPT ![h] = label]
Passed(v) == IF v = "passed" THEN "passed" ELSE "failed"

--------------------------------------------------------------------------------
(* A handler thread.                                                         *)

\* serve_forever accepts the request and starts a daemon thread for it.
Arrive(h) ==
  /\ main = "serving"
  /\ pc[h] \in Over \cup {"idle"}
  /\ requests < MaxRequests
  /\ requests' = requests + 1
  /\ Goto(h, "queued")
  /\ child' = [child EXCEPT ![h] = "none"]
  /\ verdict' = [verdict EXCEPT ![h] = "none"]
  /\ UNCHANGED <<lock, active, shutting, main, snapshot, works, stored, status,
                 latest, late>>

\* Mutant: validators do not take turns.
AcquireLock_Free(h) ==
  /\ At(h, "queued")
  /\ lock' = h
  /\ Goto(h, "checking")
  /\ UNCHANGED <<verdict, child, active, shutting, main, snapshot, works, stored,
                 status, requests, latest, late>>

\* with self.server.validator_lock
AcquireLock(h) ==
  /\ At(h, "queued")
  /\ lock = NoHandler
  /\ lock' = h
  /\ Goto(h, "checking")
  /\ UNCHANGED <<verdict, child, active, shutting, main, snapshot, works, stored,
                 status, requests, latest, late>>

\* Mutant: acquire() and release() without `with`, so raising keeps the lock.
Raise_KeepsLock(h) ==
  /\ verdict' = [verdict EXCEPT ![h] = "crashed"]
  /\ Goto(h, "recording")
  /\ UNCHANGED lock

\* The except branch: the `with` block has released the lock on the way out and
\* the second look at shutting_down is skipped.
Raise(h) ==
  /\ verdict' = [verdict EXCEPT ![h] = "crashed"]
  /\ lock' = NoHandler
  /\ Goto(h, "recording")

\* The reply "the learning server is shutting down" is written inside the try
\* statement, before `return`: to a client that has hung up the write raises, and
\* the except branch takes that for a validator that could not run.
Refuse(h) ==
  /\ \/ Goto(h, "refused") /\ lock' = NoHandler /\ UNCHANGED verdict
     \/ Raise(h)
  /\ UNCHANGED latest

\* The first look at shutting_down, inside the lock.
CheckBeforeRun(h) ==
  /\ At(h, "checking")
  /\ IF shutting
     THEN Refuse(h)
     ELSE Goto(h, "starting") /\ UNCHANGED <<lock, verdict, latest>>
  /\ UNCHANGED <<child, active, shutting, main, snapshot, works, stored, status,
                 requests, late>>

\* A validator that reads files only, or one that gives up before its child:
\* no built DUT, no tool, an incompatible build tree.
RunWithoutChild(h) ==
  /\ At(h, "starting")
  /\ verdict' = [verdict EXCEPT ![h] = IF Validator = "static" /\ works
                                       THEN "passed" ELSE "failed"]
  /\ Goto(h, "ran")
  /\ UNCHANGED <<child, lock, active, shutting, main, snapshot, works, stored,
                 status, requests, latest, late>>

\* subprocess.Popen: the child exists, in its own process group, unregistered.
Spawn(h) ==
  /\ At(h, "starting")
  /\ Validator # "static"
  /\ child' = [child EXCEPT ![h] = "live"]
  /\ late' = IF main # "serving" THEN late \cup {h} ELSE late
  /\ Goto(h, "spawned")
  /\ UNCHANGED <<verdict, lock, active, shutting, main, snapshot, works, stored,
                 status, requests, latest>>

\* _ACTIVE.add(process), or register_child
Register(h) ==
  /\ At(h, "spawned")
  /\ active' = active \cup {h}
  /\ Goto(h, "running")
  /\ UNCHANGED <<verdict, child, lock, shutting, main, snapshot, works, stored,
                 status, requests, latest, late>>

\* The validator raises before a child exists: bad arguments, Popen failing.
CrashEarly(h) ==
  /\ At(h, "starting")
  /\ Raise(h)
  /\ latest' = "failed"
  /\ UNCHANGED <<child, active, shutting, main, snapshot, works, stored, status,
                 requests, late>>

\* The child ends by itself, or is killed on timeout or terminated by the probe.
\* Its verdict is about the checkout it ran on; a timeout is a failure, and a DUT
\* that goes away or answers garbage can make the probe raise.
RunEnds(h) ==
  /\ At(h, "running")
  /\ child[h] = "live"
  /\ child' = [child EXCEPT ![h] = "ended"]
  /\ active' = active \ {h}
  /\ \/ /\ \E timed_out \in BOOLEAN :
             verdict' = [verdict EXCEPT ![h] = IF works /\ ~timed_out
                                               THEN "passed" ELSE "failed"]
        /\ Goto(h, "ran")
        /\ UNCHANGED <<lock, latest>>
     \/ Validator = "probe" /\ Raise(h) /\ latest' = "failed"
  /\ UNCHANGED <<shutting, main, snapshot, works, stored, status, requests, late>>

\* The sweep has killed the child under the validator.  run_subprocess returns
\* what a killed child leaves, behavior_probe reports a failed step, and a check
\* that expects a failure takes either for the symptom and passes.  The probe
\* raises when the DUT is gone by the time it opens its connection: the OSError
\* passes through its finally block to the handler.
FindChildKilled(h) ==
  /\ At(h, "running")
  /\ child[h] = "killed"
  /\ active' = active \ {h}
  /\ \/ /\ \E v \in {"passed", "failed"} : verdict' = [verdict EXCEPT ![h] = v]
        /\ Goto(h, "ran")
        /\ UNCHANGED <<lock, latest>>
     \/ Validator = "probe" /\ Raise(h) /\ latest' = "failed"
  /\ UNCHANGED <<child, shutting, main, snapshot, works, stored, status, requests,
                 late>>

\* Mutant: no second look.
CheckAfterRun_Missing(h) ==
  /\ At(h, "ran")
  /\ lock' = NoHandler
  /\ Goto(h, "recording")
  /\ latest' = Passed(verdict[h])
  /\ UNCHANGED <<verdict, child, active, shutting, main, snapshot, works, stored,
                 status, requests, late>>

\* The second look at shutting_down, still inside the lock; then its release.
CheckAfterRun(h) ==
  /\ At(h, "ran")
  /\ IF shutting
     THEN Refuse(h)
     ELSE /\ Goto(h, "recording")
          /\ lock' = NoHandler
          /\ latest' = Passed(verdict[h])
          /\ UNCHANGED verdict
  /\ UNCHANGED <<child, active, shutting, main, snapshot, works, stored, status,
                 requests, late>>

\* record_validation, outside validator_lock and atomic under the store's own
\* lock: overwrite the verdict, take back a completion the verdict contradicts,
\* save.  It is called after the try statement: when the save raises, memory has
\* changed and the exception ends the thread before _send_json.
RecordVerdict(h) ==
  /\ At(h, "recording")
  /\ stored' = Passed(verdict[h])
  /\ status' = IF Passed(verdict[h]) = "failed" THEN "in_progress" ELSE status
  /\ Goto(h, "recorded") \/ (SaveFaults /\ Goto(h, "unsaved"))
  /\ UNCHANGED <<verdict, child, lock, active, shutting, main, snapshot, works,
                 requests, latest, late>>

--------------------------------------------------------------------------------
(* The learner and the other requests.                                       *)

\* POST /api/complete: gate and write under one hold of the store's lock.
Complete ==
  /\ Alive
  /\ stored = "passed"
  /\ status' = "complete"
  /\ UNCHANGED <<pc, verdict, child, lock, active, shutting, main, snapshot, works,
                 stored, requests, latest, late>>

\* The learner edits the code the check is about.
Edit ==
  /\ works' = ~works
  /\ UNCHANGED <<pc, verdict, child, lock, active, shutting, main, snapshot, stored,
                 status, requests, latest, late>>

--------------------------------------------------------------------------------
(* The main thread, from Ctrl+C on.                                          *)

\* Mutant: the sweep goes first, and the flag comes too late for it.
BeginShutdown_SweepFirst ==
  /\ main = "serving"
  /\ main' = "closing"
  /\ UNCHANGED <<pc, verdict, child, lock, active, shutting, snapshot, works, stored,
                 status, requests, latest, late>>

BeginShutdown ==
  /\ main = "serving"
  /\ shutting' = TRUE
  /\ main' = "closing"
  /\ UNCHANGED <<pc, verdict, child, lock, active, snapshot, works, stored, status,
                 requests, latest, late>>

\* processes = list(_ACTIVE)
CopyActive ==
  /\ main = "closing"
  /\ snapshot' = active
  /\ main' = "sweeping"
  /\ UNCHANGED <<pc, verdict, child, lock, active, shutting, works, stored, status,
                 requests, latest, late>>

\* if process.poll() is None: kill_process_tree(process)
KillNext(h) ==
  /\ main = "sweeping"
  /\ h \in snapshot
  /\ snapshot' = snapshot \ {h}
  /\ child' = [child EXCEPT ![h] = IF @ = "live" THEN "killed" ELSE @]
  /\ UNCHANGED <<pc, verdict, lock, active, shutting, main, works, stored, status,
                 requests, latest, late>>

\* server_close, return 0: daemon threads end with the process, children do not.
Exit ==
  /\ main = "sweeping"
  /\ snapshot = {}
  /\ main' = "exited"
  /\ UNCHANGED <<pc, verdict, child, lock, active, shutting, snapshot, works, stored,
                 status, requests, latest, late>>

--------------------------------------------------------------------------------

\* What a handler thread does by itself once its request is accepted.
Handle(h) ==
  \/ AcquireLock(h)
  \/ CheckBeforeRun(h)
  \/ RunWithoutChild(h)
  \/ Spawn(h)
  \/ Register(h)
  \/ CrashEarly(h)
  \/ RunEnds(h)
  \/ FindChildKilled(h)
  \/ CheckAfterRun(h)
  \/ RecordVerdict(h)

Next ==
  \/ \E h \in Handlers : Arrive(h) \/ Handle(h) \/ KillNext(h)
  \/ Complete
  \/ Edit
  \/ BeginShutdown
  \/ CopyActive
  \/ Exit

Spec == Init /\ [][Next]_vars

\* Threads are scheduled, every run ends (each validator has a timeout), and the
\* main thread, once interrupted, runs to its end.
Fairness ==
  /\ \A h \in Handlers : WF_vars(Handle(h)) /\ WF_vars(KillNext(h))
  /\ WF_vars(CopyActive)
  /\ WF_vars(Exit)

FairSpec == Spec /\ Fairness

--------------------------------------------------------------------------------
(* Properties.                                                               *)

\* Validators take turns on the one checkout: two children are never alive at
\* the same time, however many requests are in flight and whatever shutdown does.
OneChildAtATime ==
  \A g, h \in Handlers : child[g] = "live" /\ child[h] = "live" => g = h

\* "A handler queued on the validator lock refuses instead of starting a fresh
\* subprocess after the sweep below has already run": once the server has been
\* interrupted, only the one handler already past its check can still start a
\* child, however the door and the sweep interleave with the queue.
AtMostOneLateStart == Cardinality(late) <= 1

\* What a validator makes of a child that shutdown killed is no verdict on the
\* learner's work: whatever it reports, a pass included, the second look discards.
\* Only an exception in place of a result is recorded.
StoppedRunIsNoVerdict ==
  \A h \in Handlers :
    child[h] = "killed" /\ pc[h] \in {"recording", "recorded", "unsaved"}
      => verdict[h] = "crashed"

\* "Shutdown kills the running child, so this result is 'we stopped it', not 'the
\* learner's work is broken'": a check that shutdown stopped is never recorded.
StoppedCheckNeverRecorded ==
  \A h \in Handlers :
    child[h] = "killed" => pc[h] \notin {"recording", "recorded", "unsaved"}

\* No validator child outlives the server: the door is closed first, then the
\* registered children are swept.
NoOrphan == main = "exited" => \A h \in Handlers : child[h] # "live"

\* "Re-running a check that now fails un-completes the lesson": with every
\* verdict recorded, a lesson whose last run failed is not complete.
RerunUncompletes ==
  (\A h \in Handlers : pc[h] # "recording") /\ latest = "failed"
    => status # "complete"

\* A request that waits for validator_lock does not wait for ever: whatever the
\* requests before it do, a validator that raises and a save that fails
\* included, its thread ends, or the process does.
EveryRequestEnds ==
  \A h \in Handlers : pc[h] = "queued" ~> (pc[h] \in Over \/ main = "exited")

\* "A crash must still answer: with no handler here the exception ends the thread,
\* the connection closes with no body, and the page sits on 'Running...' forever".
\* Every accepted request gets a reply, or the process ends.
EveryRequestAnswered ==
  \A h \in Handlers :
    pc[h] = "queued" ~> (pc[h] \in {"recorded", "refused"} \/ main = "exited")
================================================================================
