---------------------------- MODULE InterviewDrill ----------------------------
(***************************************************************************)
(* Day 14's drill: a mandatory check, progress_check, that reads the       *)
(* progress *file* and counts the interview answers given since the lesson *)
(* was first opened.  It composes the store of ProgressStore (which keeps  *)
(* the count and the baseline) with the request threads that read them     *)
(* back, one at a time, and record what they found after validator_lock    *)
(* has been released: answers, openings and other verdicts fall in         *)
(* between.                                                                *)
(***************************************************************************)
EXTENDS ProgressStore

CONSTANTS
  DrillBlock,  \* id of the verify block that runs progress_check
  Minimum,     \* min_interview_answers
  Checkers     \* request threads that may be validating at the same time

\* The drill is no red-stage check, so every run of it is recorded.
ASSUME DrillAssumption ==
  /\ DrillBlock \in Blocks
  /\ \A l \in Lessons : DrillBlock \notin Historical[l]
  /\ Minimum \in Nat \ {0}

VARIABLES
  results,  \* the CheckResult a thread has in hand, between its two looks
  openedAt  \* history: answers given when a lesson was first opened, or NotOpened

drillVars == <<vars, results, openedAt>>

NotOpened == -1

\* since is history too: the opening that was in the file when the check read it.
NoResult == [lesson |-> NoLesson, passed |-> FALSE, since |-> NotOpened]
Results ==
  [lesson : Lessons \cup {NoLesson}, passed : BOOLEAN, since : Nat \cup {NotOpened}]

\* progress_check: no record in the file means no baseline, which is a failure; a
\* record that some other request has created has the template's baseline, zero.
ProgressCheck(file, l) ==
  /\ file.rec[l].status # "absent"
  /\ file.answered - file.rec[l].baseline >= Minimum

\* run_validator, in the hold of validator_lock: one read of the file.
DrillCheck(r, l) ==
  /\ up
  /\ l \in avail
  /\ DrillBlock \in Verify[l]
  /\ results[r] = NoResult
  /\ results' = [results EXCEPT ![r] =
       [lesson |-> l, passed |-> ProgressCheck(disk, l),
        since |-> IF disk.rec[l].started THEN openedAt[l] ELSE NotOpened]]
  /\ UNCHANGED <<vars, openedAt>>

\* record_validation with the result in hand, at any later moment.
DrillRecord(r) ==
  /\ results[r] # NoResult
  /\ HandleValidate(results[r].lesson, DrillBlock, results[r].passed, FALSE)
  /\ results' = [results EXCEPT ![r] = NoResult]
  /\ UNCHANGED openedAt

DrillStart(l) ==
  /\ HandleStart(l)
  /\ openedAt' = [openedAt EXCEPT ![l] = IF @ = NotOpened THEN mem.answered ELSE @]
  /\ UNCHANGED results

\* The threads end with the process; an opening that no save has brought to the file
\* has not happened.
DrillCrash ==
  /\ Crash
  /\ results' = [r \in Checkers |-> NoResult]
  /\ openedAt' = [l \in Lessons |->
                    IF disk.rec[l].started THEN openedAt[l] ELSE NotOpened]

\* Nothing makes a client open a lesson before it uses it.
DrillOther ==
  /\ \/ \E l \in Lessons, b \in StepBlocks : HandleStep(l, b)
     \/ \E l \in Lessons : \E index \in 0..(Hints[l] - 1) : HandleHint(l, index)
     \/ \E l \in Lessons : HandleComplete(l)
     \/ \E concepts \in QuestionConcepts, correct \in BOOLEAN :
          HandleInterviewAnswer(concepts, correct)
     \/ \E av \in Availabilities : Restart(av)
  /\ UNCHANGED <<results, openedAt>>

DrillInit ==
  /\ Init
  /\ results = [r \in Checkers |-> NoResult]
  /\ openedAt = [l \in Lessons |-> NotOpened]

DrillNext ==
  \/ \E l \in Lessons : DrillStart(l)
  \/ \E r \in Checkers, l \in Lessons : DrillCheck(r, l)
  \/ \E r \in Checkers : DrillRecord(r)
  \/ DrillCrash
  \/ DrillOther

DrillSpec == DrillInit /\ [][DrillNext]_drillVars

--------------------------------------------------------------------------------

\* "Measure from there": once the opening of the lesson is in the file, a run of the
\* check passes exactly when Minimum of the answers in the file were given since the
\* lesson was first opened.  Reopening, steps and verdicts that come first, failed
\* saves and restarts do not move that point, and a pass that is recorded later, when
\* more has happened, is still one of a drill that was done.
DrillMeasuredFromOpening ==
  [][/\ \A r \in Checkers, l \in Lessons :
          DrillCheck(r, l) /\ disk.rec[l].started
            => (results'[r].passed <=> disk.answered - openedAt[l] >= Minimum)
     /\ \A r \in Checkers, l \in Lessons :
          (/\ DrillRecord(r)
           /\ l = results[r].lesson /\ results[r].since # NotOpened
           /\ mem'.rec[l].verdict[DrillBlock] = "passed")
            => mem.answered - results[r].since >= Minimum]_drillVars

\* "No baseline means the lesson was never opened": a client that uses the API
\* directly is not handed the lifetime total; the drill of a lesson that was never
\* opened does not pass.
UnopenedDrillFails ==
  \A l \in Lessons :
    openedAt[l] = NotOpened => mem.rec[l].verdict[DrillBlock] # "passed"
================================================================================
