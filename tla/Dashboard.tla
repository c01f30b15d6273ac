------------------------------- MODULE Dashboard -------------------------------
(***************************************************************************)
(* The read-only views of the dashboard beside the handlers that record:   *)
(* GET /api/curriculum (the roadmap) and GET /api/state (the lesson to     *)
(* resume and the counts).  Each takes ProgressStore._lock more than once, *)
(* so a reply may be put together from two states of the store.            *)
(*                                                                         *)
(* One view is in progress at a time.  Of the copy that snapshot() takes   *)
(* the roadmap only asks which lessons are stored as complete; the mastery *)
(* figures, a read of their own, are left out.                             *)
(***************************************************************************)
EXTENDS ProgressStore

VARIABLE view  \* what the request in progress has read so far

dashboardVars == <<vars, view>>

NoView == [kind |-> "none"]

StoredComplete == {l \in Lessons : mem.rec[l].status = "complete"}

\* _handle_curriculum, first read: snapshot()
RoadmapSnapshot ==
  /\ up
  /\ view = NoView
  /\ view' = [kind |-> "roadmap", snapshot |-> StoredComplete]
  /\ UNCHANGED vars

\* Mutant: what is stored is shown.
ShownComplete_AsStored(snapshot, complete, l) == l \in snapshot

\* "progress" of a lesson is "complete" when it is stored so and its chain holds.
ShownComplete(snapshot, complete, l) == l \in snapshot /\ complete[l]

\* Mutant: locks come from the copy of the stored statuses.
ShownLocked_FromSnapshot(snapshot, complete, l) ==
  l \in avail /\ ~(Prerequisites[l] \subseteq snapshot)

ShownLocked(snapshot, complete, l) ==
  l \in avail /\ ~(\A p \in Prerequisites[l] : complete[p])

\* Second read, and the reply.
RoadmapReply ==
  /\ up
  /\ view.kind = "roadmap"
  /\ LET complete == CompletionMap(mem, avail)
     IN  view' = [kind   |-> "roadmap reply",
                  green  |-> {l \in Lessons : ShownComplete(view.snapshot, complete, l)},
                  locked |-> {l \in Lessons : ShownLocked(view.snapshot, complete, l)}]
  /\ UNCHANGED vars

\* _handle_state: resume_lesson_id takes the map, then last_lesson_id.
StateMap ==
  /\ up
  /\ view = NoView
  /\ view' = [kind |-> "state", complete |-> CompletionMap(mem, avail)]
  /\ UNCHANGED vars

StateResume ==
  /\ up
  /\ view.kind = "state"
  /\ view' = [kind |-> "state resumed", complete |-> view.complete,
              resume |-> ResumeFrom(view.complete, mem.last, avail)]
  /\ UNCHANGED vars

\* The counts are taken from a map of their own.
StateReply ==
  /\ up
  /\ view.kind = "state resumed"
  /\ view' = [kind |-> "state reply", complete |-> view.complete, resume |-> view.resume,
              done |-> {l \in avail : CompletionMap(mem, avail)[l]}]
  /\ UNCHANGED vars

ViewEnds ==
  /\ view.kind \in {"roadmap reply", "state reply"}
  /\ view' = NoView
  /\ UNCHANGED vars

\* A request that records, beside the view; a reply is looked at before the next.
Records ==
  /\ view.kind \in {"none", "roadmap", "state", "state resumed"}
  /\ Next
  /\ view' = IF up' THEN view ELSE NoView

DashboardInit == Init /\ view = NoView

DashboardNext ==
  \/ RoadmapSnapshot
  \/ RoadmapReply
  \/ StateMap
  \/ StateResume
  \/ StateReply
  \/ ViewEnds
  \/ Records

DashboardSpec == DashboardInit /\ [][DashboardNext]_dashboardVars

--------------------------------------------------------------------------------

\* "A lesson stored complete whose chain has since broken must not stay green while
\* it locks the next one" (_handle_curriculum): in no roadmap, whatever was recorded
\* between its two reads, is a lesson locked by prerequisites that are all green.
GreenNeverLocks ==
  view.kind = "roadmap reply" =>
    \A l \in view.locked : ~(Prerequisites[l] \subseteq view.green)

\* The state in which a learner has passed every gate that lesson l itself has.
GatesPassed(l) ==
  SetRecord(mem, l, [LessonRecord(mem, l) EXCEPT
                       !.verdict = [b \in Blocks |-> "passed"],
                       !.quiz = Quiz[l], !.explain = Explain[l]])

\* "The roadmap cannot show a lesson as unlocked that /api/validate would then
\* refuse to complete", nor the other way round: at the moment of the reply a lesson
\* is unlocked exactly when passing its own gates would make it completable.
UnlockedMeansCompletable ==
  view.kind = "roadmap reply" =>
    \A l \in avail : l \notin view.locked <=> LessonCompletion(GatesPassed(l), avail, l)

\* "So the learner never lands on a lesson whose prerequisite chain is broken": the
\* lesson to resume is one that could be worked on when the request read the map,
\* wherever last_lesson_id has moved since; or nothing could, because every available
\* lesson was complete or builds on one that this machine does not offer.
ResumeSound ==
  view.kind = "state reply" =>
    \/ /\ view.resume \in avail
       /\ ~view.complete[view.resume]
       /\ \A p \in Prerequisites[view.resume] : view.complete[p]
    \/ /\ view.resume = N
       /\ \A l \in avail : view.complete[l] \/ ~(Ancestors(l) \subseteq avail)

\* One reply may nevertheless count a lesson as done and name it to resume: the
\* counts are read later.  See the README.
ReplyIsOneState ==
  view.kind = "state reply" =>
    view.resume \notin view.done \/ \A l \in avail : view.complete[l]
================================================================================
