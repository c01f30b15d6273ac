---------------------------- MODULE ServerInstances ----------------------------
(***************************************************************************)
(* Several `python -m learning` processes and one progress file: the       *)
(* advisory lock that lets one of them in, the copy of the file each keeps *)
(* in memory and writes back whole, and the daemon handler threads that    *)
(* live until the interpreter is gone.                                     *)
(*                                                                         *)
(* The file is read once by each process, and may be found damaged, or not *)
(* be readable at that moment: ProgressStore._load then copies it aside    *)
(* and starts from nothing.  A process's state is the set of answers it    *)
(* has recorded; damage changes bytes that a person could still read.      *)
(***************************************************************************)
EXTENDS Integers, FiniteSets

CONSTANTS
  Processes,
  Answers,      \* bound: the answers learners submit, each once
  TailThreads,  \* may a handler thread run after its process released the lock?
  MaxCounter,   \* MAX_COUNTER of progress.py
  MaxFaults,    \* bound: times the file is damaged or cannot be read
  BackupFaults, \* may the copy to .progress.corrupt.json fail?
  NoProcess

ASSUME InstancesAssumption ==
  /\ NoProcess \notin Processes
  /\ {TailThreads, BackupFaults} \subseteq BOOLEAN
  /\ {MaxCounter, MaxFaults} \subseteq Nat

VARIABLES
  stage,    \* where each process is in main()
  holder,   \* who holds the flock on .progress.lock
  mem,      \* ProgressStore._state of each process
  file,     \* .progress.json: its answers, and whether the loader can use it
  backup,   \* .progress.corrupt.json
  temp,     \* the temp file of each process: the state a save is about to put in place
  threads,  \* answers whose handler thread has not recorded them yet
  acked,    \* history: answers whose reply was sent
  mishaps,   \* history: damages and read errors so far
  promised, \* history: answers confirmed undisturbed since the file was last reset
  copied    \* history: those promised when a reset last copied the file

instanceVars ==
  <<stage, holder, mem, file, backup, temp, threads, acked, mishaps, promised, copied>>

storage == <<file, backup, mishaps, promised, copied>>

NoSave == [answer |-> "none", state |-> {}]

InstancesInit ==
  /\ stage = [p \in Processes |-> "off"]
  /\ holder = NoProcess
  /\ mem = [p \in Processes |-> {}]
  /\ file = [answers |-> {}, damaged |-> FALSE]
  /\ backup = {}
  /\ temp = [p \in Processes |-> NoSave]
  /\ threads = [p \in Processes |-> {}]
  /\ acked = {}
  /\ mishaps = 0
  /\ promised = {}
  /\ copied = {}

\* Mutant: a second server starts anyway.
TryLock_Shared(p) ==
  /\ stage[p] = "off"
  /\ holder' = p
  /\ stage' = [stage EXCEPT ![p] = "locked"]
  /\ UNCHANGED <<mem, temp, threads, acked, storage>>

\* single_instance: non-blocking.  A process that finds the lock taken prints
\* why and exits with status 3, having read nothing.
TryLock(p) ==
  /\ stage[p] = "off"
  /\ holder = NoProcess
  /\ holder' = p
  /\ stage' = [stage EXCEPT ![p] = "locked"]
  /\ UNCHANGED <<mem, temp, threads, acked, storage>>

\* _load: parses, has the right shape, and no counter is beyond MAX_COUNTER.
Loadable(f) == ~f.damaged /\ Cardinality(f.answers) <= MaxCounter

\* build_server: the store loads the file once.  `unreadable` is an OSError.  The
\* backup has one fixed name, and an error while it is written is suppressed.
LoadFile(p, unreadable) ==
  /\ stage[p] = "locked"
  /\ stage' = [stage EXCEPT ![p] = "serving"]
  /\ unreadable => mishaps < MaxFaults
  /\ mishaps' = IF unreadable THEN mishaps + 1 ELSE mishaps
  /\ IF ~unreadable /\ Loadable(file)
     THEN /\ mem' = [mem EXCEPT ![p] = file.answers]
          /\ UNCHANGED <<backup, promised, copied>>
     ELSE /\ mem' = [mem EXCEPT ![p] = {}]
          /\ promised' = {}
          /\ \/ backup' = file.answers /\ copied' = promised
             \/ BackupFaults /\ UNCHANGED <<backup, copied>>
  /\ UNCHANGED <<holder, file, temp, threads, acked>>

\* The file is damaged from outside: an editor, a disk, a merge.
DamageFile ==
  /\ mishaps < MaxFaults
  /\ mishaps' = mishaps + 1
  /\ file' = [file EXCEPT !.damaged = TRUE]
  /\ UNCHANGED <<stage, holder, mem, backup, temp, threads, acked, promised, copied>>

\* serve_forever starts a daemon thread for a request.
Submit(p, a) ==
  /\ stage[p] = "serving"
  /\ a \notin acked /\ \A q \in Processes : a \notin threads[q] /\ temp[q].answer # a
  /\ threads' = [threads EXCEPT ![p] = @ \cup {a}]
  /\ UNCHANGED <<stage, holder, mem, temp, acked, storage>>

\* Nothing waits for a handler thread: it may run while _serve is in its finally
\* block, and after the lock is gone until the interpreter ends.
Running(p) == stage[p] \in {"serving", "closing"} \/ (TailThreads /\ stage[p] = "released")

\* Under ProgressStore._lock: the answer is recorded in memory, and the whole state
\* is written to a temp file of this process.
Record(p, a) ==
  /\ Running(p)
  /\ a \in threads[p]
  /\ temp[p] = NoSave
  /\ threads' = [threads EXCEPT ![p] = @ \ {a}]
  /\ mem' = [mem EXCEPT ![p] = @ \cup {a}]
  /\ temp' = [temp EXCEPT ![p] = [answer |-> a, state |-> mem'[p]]]
  /\ UNCHANGED <<stage, holder, acked, storage>>

\* A handler thread of a process that has given up the lock is still at work.
TailAtWork(q) == stage[q] = "released" /\ (threads[q] # {} \/ temp[q] # NoSave)

\* The process serves, and no earlier one has a request left to finish.
Undisturbed(p) ==
  stage[p] \in {"serving", "closing"} /\ \A q \in Processes \ {p} : ~TailAtWork(q)

\* os.replace, the end of the lock, and the reply.
Replace(p) ==
  /\ Running(p)
  /\ temp[p] # NoSave
  /\ file' = [answers |-> temp[p].state, damaged |-> FALSE]
  /\ acked' = acked \cup {temp[p].answer}
  /\ promised' = IF Undisturbed(p) THEN promised \cup {temp[p].answer} ELSE promised
  /\ temp' = [temp EXCEPT ![p] = NoSave]
  /\ UNCHANGED <<stage, holder, mem, backup, threads, mishaps, copied>>

\* Ctrl+C: serve_forever ends, the finally block of _serve runs.
Interrupt(p) ==
  /\ stage[p] = "serving"
  /\ stage' = [stage EXCEPT ![p] = "closing"]
  /\ UNCHANGED <<holder, mem, temp, threads, acked, storage>>

\* The finally blocks of single_instance: LOCK_UN, close.
Release(p) ==
  /\ stage[p] = "closing"
  /\ stage' = [stage EXCEPT ![p] = "released"]
  /\ holder' = NoProcess
  /\ UNCHANGED <<mem, temp, threads, acked, storage>>

\* The interpreter ends and its daemon threads with it.
Exit(p) ==
  /\ stage[p] = "released"
  /\ stage' = [stage EXCEPT ![p] = "off"]
  /\ mem' = [mem EXCEPT ![p] = {}]
  /\ threads' = [threads EXCEPT ![p] = {}]
  /\ temp' = [temp EXCEPT ![p] = NoSave]
  /\ UNCHANGED <<holder, acked, storage>>

\* The process dies at any point: the kernel drops its lock.
Kill(p) ==
  /\ stage[p] # "off"
  /\ stage' = [stage EXCEPT ![p] = "off"]
  /\ holder' = IF holder = p THEN NoProcess ELSE holder
  /\ mem' = [mem EXCEPT ![p] = {}]
  /\ threads' = [threads EXCEPT ![p] = {}]
  /\ temp' = [temp EXCEPT ![p] = NoSave]
  /\ UNCHANGED <<acked, storage>>

InstancesNext ==
  \/ DamageFile
  \/ \E p \in Processes :
       \/ TryLock(p)
       \/ \E unreadable \in BOOLEAN : LoadFile(p, unreadable)
       \/ \E a \in Answers : Submit(p, a) \/ Record(p, a)
       \/ Replace(p)
       \/ Interrupt(p)
       \/ Release(p)
       \/ Exit(p)
       \/ Kill(p)

InstancesSpec == InstancesInit /\ [][InstancesNext]_instanceVars

--------------------------------------------------------------------------------

\* What a server confirms when no earlier one has a request left to finish is in the
\* file from then on, whichever processes start, stop, die and leave threads behind,
\* at whatever step of a save; and when a start finds the file unusable and copies
\* it, in the backup until another start does.
ConfirmedAloneSurvives == promised \subseteq file.answers /\ copied \subseteq backup

\* "Two servers would each overwrite the other's progress, so this one will not
\* start": what a reply has confirmed stays in the file, or in the backup that was
\* made when the file could not be used.
NoLostAnswer == acked \subseteq file.answers \cup backup

\* "A corrupt file is backed up and reset" (progress.py), and only such a file: one
\* that a store has written is accepted by the next loader.  It is not, once more
\* than MaxCounter answers have been counted: see the README.
OwnFileAccepted == ~file.damaged => Loadable(file)
================================================================================
