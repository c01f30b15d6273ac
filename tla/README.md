# Formal models of flight-test-lab

flight-test-lab is a two-part teaching environment. A *learning server*
(`learning/`) walks a learner through lessons, runs checks on the learner's
checkout and records progress in one JSON file; a page of JavaScript shows it. A
*device under test* exists twice, in Python (`simulator/`) and in C++ (`cpp/`),
and a client library (`src/testlab/`) and the test suite talk to either over TCP.
This directory models the parts that keep state, run concurrently, survive
failures or decide by rules that are easy to get wrong. TLC checks the models on
small instances and TLAPS proves their main invariants for every value of the
constants.

## Inventory

| Part | State | Operations | What is hard | What makes it correct |
| --- | --- | --- | --- | --- |
| Progress store (`learning/server/progress.py`) | `_state` in memory, `.progress.json` | one method per kind of progress, `mark_complete`, `_save_locked`, `_load` | memory changes before the save, the save can fail, the process can die, the file can be damaged | completion is earned and revoked by the gates only; what a reply confirmed is not lost |
| Completion gate (same file) | none: a recursive reading of the state | `lesson_completion`, `completion_map`, `resume_lesson_id` | a mutable `seen` set shared between siblings; stale stored statuses | equals "complete all the way up the chain" |
| HTTP handlers (`learning/server/app.py`) | `validator_lock`, `shutting_down` | `/api/start`, `step`, `hint`, `validate`, `complete`, `interview`; the views `curriculum` and `state` | one daemon thread per request; a view reads the store several times | requests are answered; verdicts are recorded in the order of their runs; a view does not contradict the gate |
| Validation and shutdown (`app.py`, `checks/common.py`, `__main__.py`) | `_ACTIVE`, child processes | run, register, time out, sweep | Ctrl+C at any point of a run; children live in their own process groups | one check at a time; a stopped check leaves no verdict; no child survives |
| Instance lock (`learning/server/instance_lock.py`) | flock on `.progress.lock` | take, release | several processes with whole copies of one file | nobody overwrites somebody else's answers |
| Validators that read the checkout (`source_check`, `artifact_check`, `pytest_check`) | none | one `run` each | rules on names and syntax stand for behaviour; one requirement is judged in three files | what a rule accepts does what the lesson asks for |
| `behavior_probe` | its conversation, the DUT it starts | send, read, log, judge | late answers, a slow machine, a fault that was never configured | a green conversation is the one the lesson describes; a red symptom has the stated cause |
| `progress_check` | none | `run` | reads the file the store writes | a drill is counted from the lesson's first opening |
| `toolchain_check`, toolchain detection (`learning/server/toolchain.py`) | `cpp/build`, a cache of the tools | configure, build, gdb | the learner configures, edits and deletes in between | an offered lesson can be worked on; a green build can be debugged |
| Curriculum loader (`learning/server/curriculum.py`) | lessons, offered or not | load once at start | `requires`, prerequisites and order together | no dead end; its guarantees are the store's assumptions |
| Browser page (`learning/static/app.js`) | lesson, hint position, navigation and question tokens | load, Hint, Run check, Continue, Submit, Next | replies in any order, a page that is replaced under a handler, double clicks | the newest choice is shown, with the hints that were spent on it; one answer counts once |
| Python DUT (`simulator/simulator.py`) | `request_count`, fault configuration | `handle` per connection | handler threads, delayed and garbled answers, `os._exit` | the configured fault happens when it should |
| C++ DUT (`cpp/src/server.cpp`, `main.cpp`) | handler vector, `g_request_count`, stop flag | accept, reap, handle a line, inject a fault, shut down | threads that do not end, a grace period, deliberate memory errors | no handler outlives what it uses; the fault is one event; stop is honoured |
| Line framing and decoding (both DUTs; `json.cpp`, `protocol.cpp`) | receive buffer | recv, extract, refuse, half-close, parse | arbitrary chunking, two parsers, three places that count bytes differently | the same bytes get the same answers |
| LabClient (`src/testlab/client.py`) | socket and reader | connect, request, wait_until_ready, close | late answers after a timeout | an answer belongs to its request |
| C++ logging, test harness, curriculum content, scripts | see "Not modelled" | | | |

The server's request threads share the store (under `ProgressStore._lock`) and
the validator lock. Validators run children, read the learner's files and, in the
case of `progress_check`, the file the store writes. The main thread ends the
server beside the request threads. The page talks to the request threads by
`fetch`, several requests at a time. The DUTs share no code: they agree, or not, on
what bytes on a connection mean.

## Modules

| Module | Models | Checked by |
| --- | --- | --- |
| `ProgressStore` | the store, its handlers, failing saves, process death and restart | `store_faults` (constants in `MCProgressStore`) |
| `DurableFacts` | what the store promises; `ProgressStore` implements it | `store_faults` |
| `Dashboard` | the views that read the store in several steps, beside the handlers | `dashboard` (`MCDashboard`) |
| `InterviewDrill` | the store composed with `progress_check` | `interview_drill` (`MCInterviewDrill`) |
| `ValidatePipeline` | `/api/validate` in concurrent request threads, and shutdown | `validate_shutdown`, `validate_two_tabs`, `validate_orphan` |
| `StreamFraming` | one connection at the C++ DUT and at the Python DUT | `cpp_dut` (`MCCppDut`), `framing_cr_buffer` |
| `CppServer` | `run_server` of the C++ DUT | `cpp_dut` |
| `FaultConfiguration` | the Python DUT's command line and manifest, resolved to one fault configuration | `overlaps` |
| `LabSession` (extends it) | a `LabClient` and the Python DUT | `overlaps` (`MCOverlaps`) |
| `CompletionGate` | the recursive gate with its `seen` set, against a reference | `parts` (`MCParts`) |
| `ServerInstances` | several server processes and one progress file | `overlaps` |
| `SourceExercises` | `must_hold_lock` and `must_create_exclusively`, and the code they accept at work | `parts` |
| `EvidenceChecks` | the checks that follow one requirement through test, marker, row and report | `parts` |
| `ProbeConversation` | `behavior_probe` and the DUT it talks to | `parts` |
| `Toolchain`, `CurriculumLoader`, `NativeLessons` | detection of tools; loading a program on a machine; configure, build and backtrace | `parts` |
| `RequestDecoding`, `RequestText` | the two decoders of a request line; the characters in it | `parts` |
| `LessonView` | the lesson page of `app.js` with its requests under way | `overlaps`, `hint_skipped` |
| `InterviewView` | the interview page of it | `overlaps`, `interview_feedback` |
| `ProgressStoreProofs` | theorems about the store | TLAPS |
| `StoreClientsProofs` (extends it) | theorems about the completion chain, the dashboard and the drill | TLAPS |
| `ValidatePipelineProofs`, `CppServerProofs`, `LabSessionProofs` | theorems about the module of that name | TLAPS |
| `FramingProofs` | theorems about `StreamFraming` and `RequestText` | TLAPS |
| `BrowserProofs` | theorems about `LessonView` and `InterviewView` | TLAPS |
| `PartsProofs` | theorems about `CompletionGate`, `SourceExercises`, `EvidenceChecks`, `NativeLessons`, `CurriculumLoader`, `ProbeConversation` and `ServerInstances` | TLAPS |

`MCParts`, `MCOverlaps` and `MCCppDut` put modules that share no state with one another
side by side in one state space and let exactly one of them move; they add nothing to
them but the inputs they are tried with.

In every module an operator named `X_Something` next to an operator `X`, under a
comment that starts with "Mutant", is a deliberately wrong version of `X`. It is
used to see that a property fails when the code has that mistake, and no
specification refers to it.

### ProgressStore and DurableFacts

`mem` is `_state`, `disk` the file, `up` the process, `avail` the lessons the
running process loaded as available. `acked` is a history of what replies have
confirmed. Each handler is one action. The store's lock is held for the whole
method, so a method is one step; `SaveLocked` ends every one of them and either
writes the file or raises. A save that raises leaves memory changed and sends no
reply. `Crash` loses the memory; `Restart` loads the file, with a toolchain that
may differ from the last one.

Lists that are only appended to without duplicates are sets. Timestamps and
attempt counts, which nothing reads back, are left out. A concept's counters are
kept as "has moved". The file is read back as it was written; damage and the
loader's reset are in `ServerInstances`.

`DurableFacts` says the same thing without records and methods: a process knows a
set of facts that grows one request at a time; what it knows becomes durable as a
whole or not at all; only what is durable is confirmed; a new process knows what
was durable. `FactsOf` maps a state of the store to the facts in it: steps that were
done, quizzes that were answered, explanations that passed. What may be overwritten
or revoked (verdicts, statuses) is not a fact.

### Dashboard

Adds `view`, one GET request in progress. `/api/curriculum` copies the stored
statuses and takes the completion map later; `/api/state` takes the map, the last
lesson and the counts one after another (`ResumeFrom` of `ProgressStore` is the
rule on what was read). Between any two of these reads any handler, crash or
restart may happen.

### InterviewDrill

Adds `openedAt`, the number of interview answers when the lesson was first opened,
and threads that validate. A thread runs `ProgressCheck` against `disk` (`DrillCheck`,
`app.py:633`) and records the result later (`DrillRecord`, `app.py:677`); answers,
openings, other verdicts, failed saves and crashes fall in between. Clients may do
anything in any order. An opening counts when a save has brought it to the file, for
that is where the check looks.

### CompletionGate

Pure evaluation: the initial states choose any prerequisite lists the loader
accepts, any set of lessons marked complete and any set of lessons whose own gates
are open; `Ask` evaluates `lesson_completion`. The `seen` set is threaded the way
the code mutates it: `_lesson_is_complete_locked` adds to the set it is given and
`_lesson_completion_locked` copies its own. The recursion is one function of a lesson
and a `seen` set; what the loop over the prerequisites has added to the set before it
asks about one of them is written in closed form (`AskedBefore`). `ProgressStore` uses
the plain recursive function without `seen`, which `GateIsReference` shows to be equal
to it.

### ValidatePipeline

`pc[h]` follows a request thread through `_handle_validate`: queued on
`validator_lock`, the first look at `shutting_down`, `Popen`, registration in
`_ACTIVE`, the run, the second look, and the recording of the verdict after the
lock is free (`SaveFaults`: its save may raise, which ends the thread without a reply,
`unsaved`). A refusal is written inside the `try`, so that a client which has hung up
leads to the `except` branch (`Refuse`). `Validator` selects the kind of check: without a child, with a child
that is waited for, or a probe that talks to its child and may raise. The main
thread sets the flag, copies `_ACTIVE`, kills the copies and exits. `works` is the
state of the learner's checkout, which the learner may edit at any time. All
requests are for the same mandatory check; its other gates are taken as open.

### ServerInstances

Each process takes the lock, loads the file once, and writes its whole copy at
every answer: to a temp file, then over the old one. The file may be damaged from
outside and a read of it may fail; the loader then copies it to
`.progress.corrupt.json`, over an earlier copy, and starts from nothing. Counters
beyond `MaxCounter` count as damage. A process may be killed between any two
steps. `TailThreads` says whether a daemon handler thread may still save between
the release of the lock and the end of its interpreter, `BackupFaults` whether the
copy may fail. `promised` are the answers confirmed by a server while no earlier one
had a request left to finish (`Undisturbed`), since a start last found the file
unusable; `copied` are those of them that it copied.

### SourceExercises and EvidenceChecks

`source_check` judges the learner's Python by its syntax tree. For the two rules
about concurrency the model has both the rule and a machine that runs what it
accepted: two threads in the counting branch of Day 9, two contenders in
`acquire()`. A file is a branch or the calls of `acquire()`; the rest of Python is one
bit (parses, found). A branch is its reads, writes and `with`s in the order of the text,
each `with` followed by its body and its end. Files without text, names that mention a
lock and are none, a read and a write in sections of their own and `os.link` are all
among the files tried; `OutOfSight` says of a file which of these it has.

`EvidenceChecks` follows one requirement: pytest red and green with its JUnit report,
the marker on the test function, the row of the traceability file and the report that
the learner kept. Test functions, rows and kept report are chosen independently of one
another, so the report may be of an earlier run, and a name may match the lesson's
pattern in one file and not be the function that matches in another. A name is one
value.

### ProbeConversation

The probe's `step` and `phase` follow `_run_steps`; the DUT takes lines from
`inbox`, serves one at a time and puts answers in `outbox`, under a fault that the
probe does not see. A startup delay, which is logged as an injected fault too, is not
among the faults: no lesson uses one. `latched` is Python's socket reader after its first timeout,
which raises from then on. A line is the number of the request it answers with what
the checks can tell apart (valid, right, slow). Starting and killing the DUT is in
`ValidatePipeline`.

### Toolchain, CurriculumLoader and NativeLessons

A machine is the set of tools that a search finds and what `FTL_CXX` says. What
`FTL_CXX` names is taken to be a compiler whose symbols gdb reads, by whatever name. The
loader turns a program (order, prerequisites, `requires`, well-formed or not) and a
machine into the lessons offered, or refuses; afterwards a learner completes what is
unlocked. `NativeLessons` has the tree `cpp/build` (compiler and build type of its
cache), the two executables in it (absent, current or left over, readable by gdb or
not) and the three checks of Days 11 and 12, between which the learner configures by
hand, edits, deletes, installs tools and restarts the server.

### RequestDecoding and RequestText

A line is a sequence of tokens. The C++ parser is a recursive descent with the depth
as a parameter, member by member as `json.cpp` does it; the Python side is the
grammar that `json.loads` accepts (external), the measuring walk of
`exceeds_nesting_limit` on the finished value, and `decode_request`. `RequestText`
compares `sanitize_utf8` with Python's `errors="replace"`, and the reading and
writing of `\u` escapes: each is a recursive function of what is left of the input, so
that it can be proved about. The two parsers of `RequestDecoding` are recursive
operators, which cannot. A number is the token `1`, or junk that both scanners refuse.

### LessonView and InterviewView

The page's script runs one piece at a time, up to its next `await`; a request under
way is a record with the closure of its handler (lesson, token, page) and, once
the server has dealt with it, the reply. Replies arrive in any order. `LessonView`
numbers the pages that `renderFocus` makes, because a handler that is still waiting
works on the elements of its own page, and keeps the server's `hints_used`, which the
hint replies carry. `InterviewView` lets requests fail before and after the server
has recorded the answer. Whatever button the page has not disabled may be pressed
while requests are under way.

### StreamFraming

A byte is payload, CR or newline; the same `stream` goes to both implementations.
The C++ side receives chunks of any size, extracts lines, refuses over-long ones,
holds the unterminated rest to the same limit and answers it at a half-close. The
Python side is `readline(MAX_LINE_BYTES + 2)`, which waits for a newline, for that
many bytes or for the end. What a payload decodes to is the subject of
`RequestDecoding`: here a reply is the payload it answers, or the refusal.

### CppServer

The model begins when `listen()` has succeeded (an earlier failure returns before
any thread exists) and follows the accept loop, one handler thread per connection,
reaping, the four injected faults, the stop flag, the two passes of the shutdown
and its two ways out. A handler raises its flag *before* its thread ends, and
joining waits for the end. The out-of-bounds write of `bad-access` is undefined
behaviour: it may kill the process at once, later, or never.

### FaultConfiguration and LabSession

`ResolveFaultConfig` maps a command line (preset, delay, manifest) to the configuration
the DUT runs with, or to a refusal; a manifest's syntax and types are one bit. It gives
`LabSession` its initial states. `injected` collects the faults the DUT logs as
`fault_injected`, and is compared with what the operator typed.

One client, several connections over time, handler threads on the DUT's side, and
any mixture of dropped connections, garbage, delays (an action not taken) and exit
after N requests. A timeout leaves Python's socket reader unusable
(`ReaderUsable`, a fact about the standard library), which is what keeps a late
answer from reaching the next request.

## Runs

| Run | Bounds | Distinct states | Shows |
| --- | --- | --- | --- |
| `store_faults` | 1 lesson with a red-stage, a mandatory and a demonstration check, a quiz, an explanation and a hint; any save may fail | 457,880 | completion is earned, confirmed work is durable, revocation is justified, red-stage passes stand, the store implements `DurableFacts` |
| `dashboard` | 4 lessons in two branches, toolchain present or absent, a restart that offers a lesson without its prerequisite, one interview answer, one view at a time | 579,848 | completion only over a sound chain; a roadmap never locks a lesson behind green ones and unlocks exactly what can be completed; resume lands on a lesson that could be worked on, or there is none |
| `interview_drill` | 2 answers needed, 5 given at most, 2 checking threads, any client, any save may fail | 242,916 | the drill counts from the opening that is in the file, and a recorded pass is a drill that was done |
| `parts` | per part, see below | 1,962,791 | the rules, the probe and the native lessons |
| `overlaps` | per part, see below | 3,215,784 | the two pages, the server processes, a client and the Python DUT |
| `cpp_dut` | framing: limit 1 byte, chunks up to 3, streams up to 6 bytes, no two adjacent CRs; server: 2 clients, 3 requests, every fault at 0, 1 and 2 | 380,693 | chunking is invisible, equal answers, bounded buffer, half-close drains; orderly end, one controlled fault, clients cannot kill it, stop is honoured |
| `hint_skipped` | 2 lessons of 2 hints, 2 loads, no checks | | **violation**: a hint moves the position of another lesson |
| `validate_shutdown` | 3 request threads, 3 requests, failing saves, clients that hang up | 513,410 | turns, refusals, results of stopped children discarded, and no request waits for ever |
| `validate_two_tabs` | 2 threads, 3 requests | | **violation**: an older verdict overwrites a newer one |
| `validate_orphan` | 1 thread, 1 request | | **violation**: a child that is started but not yet registered escapes the sweep |
| `framing_cr_buffer` | streams up to 4 bytes, any CRs | | **violation**: CRs are not counted, so the buffer grows |
| `interview_feedback` | 3 questions | | **violation**: feedback lands under the next question |

The parts of `parts` and of `overlaps`:

| Part | Bounds | Property |
| --- | --- | --- |
| gate | every graph on 4 lessons, every order, every state | `GateIsReference`: verdict and map equal the reference |
| source | one read and one write under at most two `with` blocks, `acquire()` of at most three calls, two threads | `WrongOnlyOutOfSight`: accepted code that loses an update or admits two holders does so by something the rules do not look at |
| probe | 6 faults, the shapes of conversation the lessons use, answers early, late or never | `CheckedReplyIsForItsStep`, `SymptomIsInjected` |
| loader | 3 lessons, 4 `requires` lists (one misspelt), 20 machines | `NoDeadEnd` |
| native | the same machines, any order of checks and edits | `GreenBuildIsDebuggable`, `OfferedLessonConfigures` |
| decoding | values nested three deep around a limit of 3, objects with repeated keys, every sequence of 4 tokens, one-token edits | `SameAnswer` |
| text | 4 bytes and 4 escapes at the limits of every range | `SameText` |
| evidence | 2 tests, 2 rows and 1 testcase at most, of 3 names of which 2 match; checks pressed in any order and again | `UnlinkedOnlyOutOfSight`: accepted evidence is of one test, or it is for a reason the checks do not look at; `RedIsAFailedTest` |
| lesson view | 2 lessons of 1 hint, 3 loads and checks, 1 of them a check at most | `NewestChoiceShown`, `ShownHintsAreCounted` |
| interview view | 3 questions, each answered twice at most | `AnsweredOnce` |
| instances | 3 processes, 3 answers, 2 damages or read errors, failing copies, threads that outlive the lock | `ConfirmedAloneSurvives` |
| lab | 4 requests, 3 connections, every preset with delays absent, -1, 0, the maximum and one more, 16 manifests | `AnswerIsForRequest`, `ExitCountsEveryRequest`, `CommandLineDescribesRun` |

Why these bounds are enough to be of interest. Four lessons give a chain of three
with a branch, so a break two levels up and a branch that stays workable both
occur. A line limit of one byte with six bytes of stream gives lines of length
limit, limit + 1 and limit + 2 on either side of a chunk boundary, followed by
another line. Two handlers and a fault at request 2 let the numbered request come
from either connection while the other one is hung. Three requests on three
validation threads leave two queued when shutdown begins. Three processes let two
start while one is leaving. Values are nested up to one level past the depth limit.
Three lesson loads let a Continue be late for the choice that was made since, and with a
check two loads and its fetch of the lesson overtake one another. Three questions let an answer be late
by one while another is already loading.

Deadlock is checked in the store, dashboard, drill and pipeline runs. The other
systems may stop: both connections closed, a process ended, a question answered.

### Fairness

- `ValidatePipeline!FairSpec`: request threads are scheduled, every run ends because
  every validator has a timeout, and the main thread, once interrupted, runs its
  `finally` block to the end. No fairness on arrivals, on the learner or on Ctrl+C.
- `CppServer!FairServerSpec`: the main thread and the handlers' own steps are scheduled and
  the two seconds of grace pass. Nothing is assumed of clients, so one may stay
  connected and silent for ever, and none of the hang fault, which never ends.
- `StreamFraming!FairSpec`: both DUTs are scheduled and the network delivers. A
  client need never half-close.

`MCCppDut!DutSpec` has the conjuncts of the last two, each for the half that runs.

## Proofs

All theorems hold for every value of the constants that satisfies the assumption
named in the module of the constants: any acyclic curriculum
(`CurriculumAssumption`, which is what `load_curriculum` enforces), any set of
request threads (`PipelineAssumption`), any set of connections and command lines
(`ServerAssumption`, `SessionAssumption`), any line limit, chunk size and stream
(`FramingAssumption`), any set of processes and answers (`InstancesAssumption`), any
number of lessons and questions (`LessonViewAssumption`, `InterviewViewAssumption`),
and so on. What a theorem assumes beyond that is written in front of it and repeated
below. Each part first proves an inductive invariant (`Invariance`, `...Invariance`),
then draws the results from it. Where an argument would be an induction over lessons,
over the bytes of a stream or over a shorter rest of the input, the first
counterexample takes its place: a nonempty set of numbers has a least element
(`WellFoundedInduction`), and the step before it is sound.

- **ProgressStoreProofs**: `TypeCorrect`, `CompletionIsEarned`, `Durability`,
  `RevocationIsJustified`, `RedStageStands` and `Refinement`. A lesson's completion
  in the *file* is not inductive by itself, because a save copies memory: the
  invariant speaks of `mem` and `disk` alike, and of absent records holding the
  template's values. For durability it adds that memory holds at least what the
  file holds in the sets that only grow while a process runs, so that no save can
  shrink the file, and the same for the passes of red-stage checks. Every store
  method has a lemma saying what it preserves; the handlers follow. `Refinement`
  states that the store implements `DurableFacts` under the mapping `FactsOf`:
  each handler's change of memory is a gain of facts, its save makes all of them
  durable or none, and what it confirms is among them; crash and restart map to
  those of the abstract process.
- **StoreClientsProofs**, chain: `CompletionIsOverASoundChain`. `completion_map` is
  recursive. Its equation is proved by way of the largest set of lessons that are sound
  alone and have their prerequisites in the set, and a lesson's own record is shown
  to have no say in the completion of the lessons before it; so `mark_complete`, which
  asks the gate before it writes, completes over a sound chain only.
- **StoreClientsProofs**, dashboard: `RoadmapContradictsNothing`,
  `RoadmapAgreesWithTheGate` and `ResumeLandsOnWork`. The statuses that a view has
  copied may be older than the map it takes later. The invariant says what a view
  still shows to be true of itself: each of its reads is the map, or the rule, over
  what it had read. `ResumeLandsOnWork` takes the first incomplete lesson of the
  ancestors. `progress.py:541` says of the case without one that everything
  available is complete; that holds when an offered lesson's prerequisites are offered,
  and the theorem states the rest: otherwise what is left builds on a lesson that this
  machine does not offer.
- **StoreClientsProofs**, drill: `DrillCountsFromOpening`, for any clients, failing saves
  and crashes, and any number of threads between check and recording. The invariant says
  of memory and of the file that a lesson which was opened has in its record the count
  of that moment, that the file may lag behind in openings and answers but not contradict
  what the process knows, and of a pass in a thread's hand that it stays earned while it
  waits to be recorded. What the code does for all this is no
  more than `mark_started` taking the count once; a record that other requests
  created first has baseline 0 until then, which is statement 10 below.
- **ValidatePipelineProofs**: `ValidatorsTakeTurns`, `QueuedRequestsRefuse` and
  `StoppedRunsAreDiscarded`. The invariant ties the lock to the one thread that is
  between acquiring and releasing it, a live child in an unfinished run to that
  thread, `late` to the thread past its first look, and a killed child to
  `shutting_down` being set. `StoppedRunsAreDiscarded` is about what a validator
  reports. That nothing at all is recorded of a stopped check is false (statement 6).
- **CppServerProofs**: `TypeCorrect`, `HandlersEndFirst`, `OneControlledEvent` and
  `ClientsCannotKill`. The invariant says that a joined slot belongs to an ended
  thread and a thread that exists has a slot, that in the second pass what has been
  visited is joined or `all_joined` is false, that the current request numbers are
  distinct and bounded by the count, and that the fault has fired exactly when its
  number has been passed.
- **LabSessionProofs**: `ResolvedAsAsked` is about the resolution alone: every
  configuration that any command line and manifest resolve to. On it rest
  `LogMatchesCommandLine` and `ExitBeforeTheLastAnswer`; for the latter the invariant
  counts the requests that handler threads hold (a finite set, which it has to say)
  with those that were answered: together they never exceed the count, which stays
  below the limit while the process runs. `EveryAnswerIsForItsRequest`: on a connection whose reader is usable
  nothing is outstanding but the request being asked, because a timeout leaves the
  reader unusable for good.
- **FramingProofs**: `BufferHoldsOneLine` needs nothing but the assumption: of an
  unfinished line the C++ server keeps at most the limit and the longest run of CRs
  that the client sends. `UnfinishedLineIsBounded` (`LongestCR <= 1`) is the bound the
  code means; statement 3 below is what happens otherwise. The invariant says that the
  buffer is the stream between two positions, has no newline while the server
  waits, and fits the limit once its trailing CRs are taken off.
  `ChunksDoNotShow` and `DutsAnswerAlike` add what has been answered (`CppInv`,
  `PyInv`): the replies so far are the answers, one by one, to the lines up to a
  position of the stream, which is where the buffer (the next read) begins, and after a
  refusal nothing follows. Bytes that arrive later change no line that was complete.
  The C++ DUT's replies are the right ones for any stream; that the Python DUT gives the
  same ones needs `LongestCR <= 1`. With two CRs in a row TLC finds them
  different (statement 21 below).
- **FramingProofs**, text: `TextIsTheSame`, for lines of any bytes and any strings of
  `\u` escapes. A recursion that puts a head in front of its result on a shorter rest
  has exactly one solution (`RecursionOnShorter`). `sanitize_utf8` and Python's
  decoder are both shown to solve the same one, because the forms that the Unicode
  standard allows behind each lead byte are exactly those that `sanitize_utf8` counts.
  For strings, the shortest one that writing and reading would change has a tail that
  comes back.
- **BrowserProofs**: `AnswersCountOnce`: the invariant orders the tokens
  (what is loading has been asked for and is not on the screen), says that a question
  not yet shown, or shown with its button enabled, has no answer, and that a question
  has at most one post, which the server has recorded once or not at all; no request
  is lost. `NewestChoiceIsShown`: tokens are handed out in order, and only the
  request that carries the newest may still paint. `HintsOnScreenAreCounted`: a hint
  under way on this page is of the lesson on it, a hint that was served is counted, no
  reply about a lesson is ahead of the server's count, and that count only grows. The
  position, unlike the hints on the screen, may be another lesson's (statement 5).
- **PartsProofs**
  - `GateIsTheReference`, for any curriculum that the loader accepts. The equation of
    the recursion comes from the largest set of lessons that is closed under it; then
    the least lesson with a broken chain is asked about, and of its prerequisites the
    first broken one has only sound ones in `seen` before it, so that it is looked into
    and not skipped.
  - `AcceptedCodeErrsOutOfSight`, for any files: branches of any size and nesting with any
    names, and an `acquire()` of any calls. It leaves the ways of statement 14
    below to be wrong, each of which TLC shows, and says that there is no other. The
    invariant: a thread that is inside a `with` of a real lock holds that lock, and
    nobody else does; in an accepted branch that is not out of sight read and write are
    in one such `with`; the counter is the number of threads past their write; and of
    two contenders one at most is past the call that creates the lock file exclusively.
  - `RedForTheRightReason` and `EvidenceErrsOutOfSight`, for any test file, rows and kept
    report and any names. The latter leaves three ways (statements 14 and 16): several
    matching tests, files without text, a report of another run.
  - `DebuggableBehindGreenChecks` when edits drop no target (statement 19);
    `OfferedIsConfigurable` for any machine, but for own trees whose compiler `FTL_CXX`
    named unusually where gdb is known (statement 19 again). The invariant: an executable
    that was built from a debug tree is readable, and a tree that the check configured
    itself is a debug tree of a compiler found by its name or named by `FTL_CXX`.
  - `LoadedProgramHasNoDeadEnd`, for any program files on any machine: of the lessons
    left, the first has its prerequisites done.
  - `RepliesAreForTheirSteps`, for any conversation, any fault and any timing. The
    invariant: while the probe's reader is usable and the connection open, at most
    one request is in flight (inbox, DUT or outbox), and it is the current step's.
    `RedIsTheInjectedSymptom` adds what each fault lets a DUT answer, for the faults
    the simulator has.
  - `NothingConfirmedAloneIsLost`, for any number of processes that start, stop and die,
    threads that outlive the lock, damages, read errors and copies that fail. The
    invariant says that a process between lock and release is the holder, that a
    prepared save is its memory, and that whoever can still write the file, a thread left
    behind included, has in memory what was promised. An answer that is confirmed while an
    earlier server still has a request left is outside of it (statement 7).

Only model-checked:

- everything with `~>` (`EveryRequestEnds`, `StopIsHonoured`, `HalfCloseDrains`): the
  prover has no rules for fairness;
- `SameAnswer` of `RequestDecoding`: three mutually recursive functions build values of
  any depth on one side, a grammar and a measuring walk on the other. To compare them
  for every input is an induction over the values, and the recursion is not on a rest
  of the input alone as it is in `RequestText`.

## Statements the code does not satisfy

Five have a run, and a finding in `PROJECT.json` with the words of the repository that
they contradict:

1. *Re-running a check that now fails un-completes the lesson.* The verdict is
   recorded after `validator_lock` is released (`app.py:677`), so a failed run can be
   overwritten by an older pass (`validate_two_tabs`).
2. *No child outlives the server.* Between `Popen` and `_ACTIVE.add`
   (`checks/common.py:117-130`) the sweep does not see it (`validate_orphan`).
3. *A client that never sends a newline cannot grow the buffer.* The cap leaves
   trailing CRs out of its count (`server.cpp:261-265`; `framing_cr_buffer`).
4. *Feedback must not land under a different question.* The token is bumped when Next
   is pressed, and the old question stays answerable until the new one arrives; an
   answer given in between carries the new token (`app.js:543-580`;
   `interview_feedback`).
5. *A reply for this lesson must not overwrite another one's position.* A hint asked for
   while another lesson is loading carries the token of that load, so its reply moves
   the other lesson's position (`app.js:205-210`; `hint_skipped`).

The others are stated in the modules under the names given here. No run checks them: TLC
refutes each when it is named among the invariants or properties of the run that is
given (and with the constants given, if any).

*Server and store*

6. `StoppedCheckNeverRecorded` in `validate_shutdown`: *this result is "we stopped it", not
   "the learner's work is broken"* (`app.py:636-640`). The 503 is written inside the `try`:
   when the client has hung up, the write raises, and the `except` path, which does not look
   at `shutting_down` again, records a failure. With `Validator = "probe"` the `OSError` of a
   probe that is about to connect to the killed DUT takes the same path.
   `EveryRequestAnswered` in the same run: *a crash must still answer* (`app.py:648`).
   `record_validation` is outside the `try`, so when its save raises there is no answer.
7. `NoLostAnswer` in `overlaps`: *two servers would each overwrite the other's progress*
   (`instance_lock.py:62`), and they do: the lock is released while daemon handler threads
   can still save. What is confirmed undisturbed is safe from that
   (`ConfirmedAloneSurvives`), but a copy that fails is ignored, and a second one replaces
   the first.
8. `OwnFileAccepted` in `overlaps`, with `MaxCounter` below the number of answers: counters
   are incremented without the limit the loader enforces (`progress.py:363`).
9. `AckedHintsSurvive` in `store_faults`: a hint whose save failed is served from
   memory on the next request and is gone after a restart.
10. `UnopenedDrillFails` in `interview_drill`: *no baseline means the lesson was never
    opened* (`progress_check.py:65`). A hint, a step or a verdict creates the lesson's record
    with baseline 0, so by the API a drill can pass in a lesson that was never opened.
    `app.js` opens a lesson first.
11. `ReportAgreesWithMap` in the gate of `parts`: a prerequisite already in `seen` is not
    listed as unmet, although the roadmap shows it as incomplete. The verdict is right.
12. `ReplyIsOneState` in `dashboard`: one reply of `/api/state` may name a lesson to
    resume and count it as done.
13. `NoHintSkipped` in `overlaps`: besides statement 5, when a check's fetch of the lesson,
    or the same lesson picked again, replaces the page while a hint is on its way, the hint
    goes to the old page and the position moves past it.

*Checks* (all in `parts`)

14. `AcceptedCodeExcludes`: *the whole read-modify-write is under the lock*
    (`day09.json:143`). `must_hold_lock` accepts a branch that reads the counter under one
    `with` and writes it under another, and a header such as `with clock:` whose name
    contains "lock". An empty file passes several rules of `source_check` and
    `artifact_check`. An `acquire()` may create exclusively something else than the lock,
    by a link.
15. `CorrectAcquireAccepted`: an `acquire()` that links a temp file onto the lock path
    is rejected, and when no parameter of `__init__` mentions "path" everything is,
    although `source_check.py:127-129` speaks of falling back to accepting any
    target.
16. `OneTestIsLinked`: *every condition here must hold on ONE function*
    (`source_check.py:410`). When two test functions match the pattern, or have the same
    name, marker, row and run may belong to different ones. `junit_testcase` passes when one
    of several matches has the outcome, and reads a report that may be of an earlier run.
17. `DropLessonShowsDrop`: a manifest with `exit_after_requests: 1` closes the
    connection too and passes the drop lesson of Day 8. `expect_timeout` is satisfied
    by a reset and by the error that an earlier timeout left in the reader;
    `expect_closed` is not satisfied by a reset.
18. `AcceptanceIsPortable`: an unknown entry in `requires` is rejected only on a
    machine that has the tools listed before it.
19. `BuildVerdictIsCurrent` with `DropTargets = TRUE`: an executable left over from an
    earlier build passes the build check. `OwnTreeIsAccepted`: *a lesson the machine cannot
    verify is shown as unavailable* (`toolchain.py:6`), but when `FTL_CXX` names a compiler
    by a name that the configure check does not know, it rejects the tree that it configured
    with that compiler itself.

*Protocol*

20. `SameAnswer` in `parts`, with `HiddenDepth = TRUE`: in
    `{"command": <101 levels>, "command": "status"}` the deep value is discarded by
    the second key. The C++ parser has refused it by then (`INVALID_JSON`); the Python
    DUT measures what is left and answers `READY`. `json.cpp:44-50` says that the limit
    is enforced identically.
21. `SameAnswers` in `cpp_dut`, with `LongestCR = MaxBytes = 5`: `readline(MAX_LINE_BYTES + 2)` splits
    a line that ends in several CRs past the limit, the C++ DUT does not. Without two
    CRs in a row the answers are the same (`DutsAnswerAlike`).
22. `RefusalIsShared` in `cpp_dut`: with exactly one byte too many and no
    newline, the C++ DUT has refused and the Python DUT still waits.
23. `StopIsHonoured` leaves one command line out: `--fault hang --fault-after 0` blocks
    the main thread before the loop that looks at the stop flag. The option's help
    announces a fault during startup.

## Not modelled

- In the store: the field-by-field validation of a damaged file (one bit), concept
  mastery and interview weights (numbers for display).
- In the HTTP layer: parsing of requests, body limit, Origin and Host checks, static
  files, and the GET routes other than the two views.
- In the native lessons: an `FTL_CXX` that names a compiler whose symbols gdb cannot read.
- In the checks: the gdb-attach mode with two children, ctest, plain patterns, JSON
  fields, `python_probe`'s comparison, and the steps `expect_send_error`,
  `expect_dut_exit` and `wait_ready`.
- In the DUTs: scanning of numbers and the other escapes, layout of a reply (sorted
  keys, floats), the Python DUT's SIGTERM.
- In the page: quiz, explain and step buttons, roadmap and flow diagrams, and failed
  requests of the lesson page.
- The test harness; C++ logging (one mutex around one write); curriculum content;
  scripts.

## Plan

Done: everything in the table of modules, and a theorem for each invariant and action
property of the runs but `SameAnswer`. What would come next:

1. Proofs: the abstract specification of a session that `LabSession` implements, and
   `DebuggableBehindGreenChecks` with edits that drop a target.
2. `SameAnswer`, with the parsers written as functions of the position and the depth.
3. The two-child check in `ValidatePipeline`; the harness that starts and stops a DUT
   per test; the Python DUT's SIGTERM.
4. Failed requests on the lesson page, and its other buttons.
