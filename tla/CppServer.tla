------------------------------- MODULE CppServer -------------------------------
(***************************************************************************)
(* The life of the C++ DUT's run_server: the accept loop with its reaping, *)
(* one handler thread per connection, the injected fault, and the shutdown *)
(* that may wait for its handlers only so long.                            *)
(*                                                                         *)
(* How bytes become request lines is StreamFraming's subject; here a       *)
(* request is one step of its handler.                                     *)
(***************************************************************************)
EXTENDS Integers, FiniteSets

CONSTANTS
  Connections,
  Options,      \* bound: the [fault, fault_after] command lines considered
  MaxRequests   \* bound on the requests all clients send

Faults == {"none", "crash", "bad-access", "hang", "slow"}

ASSUME ServerAssumption ==
  /\ Options \subseteq [fault : Faults, after : Nat]
  /\ MaxRequests \in Nat

VARIABLES
  options,    \* ServerOptions, as main() parsed them
  main,       \* where the main thread is in run_server
  scan,       \* handlers the current pass over the vector has not reached
  allJoined,  \* all_joined
  expired,    \* has kShutdownGrace passed?
  stop,       \* stop_requested
  exit,       \* how the process has ended
  client,     \* the other end of each connection
  queued,     \* the listener's backlog
  thread,     \* where each handler thread is
  number,     \* request_number of its current request
  slot,       \* the std::thread object in the vector `handlers`
  count,      \* g_request_count
  corrupted,  \* has bad-access written past its allocation and survived?
  fired       \* history: how often the fault was injected

mainVars == <<main, scan, allJoined, expired>>
serverVars == <<options, mainVars, stop, exit, client, queued, thread, number, slot,
          count, corrupted, fired>>

Running == exit = "running"
Done(c) == thread[c] \in {"flagged", "ended"}
Joinable == {c \in Connections : slot[c] = "joinable"}
Listening == main \in {"starting", "checking", "accepting", "reaping"}

TypeOK ==
  /\ options \in Options
  /\ main \in {"starting", "checking", "accepting", "reaping", "grace", "second", "stuck"}
  /\ scan \subseteq Connections
  /\ allJoined \in BOOLEAN
  /\ expired \in BOOLEAN
  /\ stop \in BOOLEAN
  /\ exit \in {"running", "returned", "quick", "killed"}
  /\ client \in [Connections -> {"away", "here", "gone"}]
  /\ queued \subseteq Connections
  /\ thread \in [Connections -> {"none", "recv", "counted", "hung", "slow", "reply",
                                 "leaving", "flagged", "ended"}]
  /\ number \in [Connections -> Nat]
  /\ slot \in [Connections -> {"none", "joinable", "joined"}]
  /\ count \in Nat
  /\ corrupted \in BOOLEAN
  /\ fired \in Nat

ServerInit ==
  /\ options \in Options
  /\ main = "starting"
  /\ scan = {}
  /\ allJoined = TRUE
  /\ expired = FALSE
  /\ stop = FALSE
  /\ exit = "running"
  /\ client = [c \in Connections |-> "away"]
  /\ queued = {}
  /\ thread = [c \in Connections |-> "none"]
  /\ number = [c \in Connections |-> 0]
  /\ slot = [c \in Connections |-> "none"]
  /\ count = 0
  /\ corrupted = FALSE
  /\ fired = 0

--------------------------------------------------------------------------------
(* Fault injection.                                                          *)

\* Mutant: the fault fires on request N and on every one after it.
Fires_AtLeast(n) == options.fault # "none" /\ n >= options.after

\* maybe_inject_fault: equality, not >=.
Fires(n) == options.fault # "none" /\ n = options.after

\* A null dereference kills the process; a write past the allocation may do so
\* at once or leave a corrupted heap behind.
Damage ==
  \/ /\ options.fault \in {"crash", "bad-access"}
     /\ exit' = "killed"
     /\ UNCHANGED corrupted
  \/ /\ options.fault = "bad-access"
     /\ corrupted' = TRUE
     /\ UNCHANGED exit
  \/ /\ options.fault \in {"hang", "slow"}
     /\ UNCHANGED <<exit, corrupted>>

--------------------------------------------------------------------------------
(* The main thread.                                                          *)

\* listen() has succeeded; --fault-after 0 fires here, without a client.  The
\* hang fault then blocks the main thread on the mutex it holds itself.
Start ==
  /\ Running /\ main = "starting"
  /\ IF Fires(0)
     THEN /\ Damage
          /\ fired' = fired + 1
          /\ main' = IF options.fault = "hang" THEN "stuck" ELSE "checking"
     ELSE main' = "checking" /\ UNCHANGED <<exit, corrupted, fired>>
  /\ UNCHANGED <<options, scan, allJoined, expired, stop, client, queued, thread,
                 number, slot, count>>

\* while (!stop_requested.load()); leaving the loop closes the listener.
CheckStop ==
  /\ Running /\ main = "checking"
  /\ IF stop
     THEN /\ main' = "grace"
          /\ scan' = Joinable
          /\ queued' = {}
          /\ client' = [c \in Connections |-> IF c \in queued THEN "gone" ELSE client[c]]
     ELSE main' = "accepting" /\ UNCHANGED <<scan, queued, client>>
  /\ UNCHANGED <<options, allJoined, expired, stop, exit, thread, number, slot,
                 count, corrupted, fired>>

\* accept() times out after 200 ms or is interrupted.
AcceptTimeout ==
  /\ Running /\ main = "accepting"
  /\ main' = "checking"
  /\ UNCHANGED <<options, scan, allJoined, expired, stop, exit, client, queued,
                 thread, number, slot, count, corrupted, fired>>

Accept(c) ==
  /\ Running /\ main = "accepting"
  /\ c \in queued
  /\ queued' = queued \ {c}
  /\ thread' = [thread EXCEPT ![c] = "recv"]
  /\ slot' = [slot EXCEPT ![c] = "joinable"]
  /\ scan' = Joinable \cup {c}
  /\ main' = "reaping"
  /\ UNCHANGED <<options, allJoined, expired, stop, exit, client, number, count,
                 corrupted, fired>>

\* A handler whose flag is up is joined, which waits for the thread to end.
JoinIfDone(c) ==
  /\ Done(c) => thread[c] = "ended"
  /\ slot' = [slot EXCEPT ![c] = IF Done(c) THEN "joined" ELSE @]
  /\ scan' = scan \ {c}

\* reap_finished
ReapNext(c) ==
  /\ Running /\ main = "reaping"
  /\ c \in scan
  /\ JoinIfDone(c)
  /\ UNCHANGED <<options, main, allJoined, expired, stop, exit, client, queued,
                 thread, number, count, corrupted, fired>>

ReapEnd ==
  /\ Running /\ main = "reaping"
  /\ scan = {}
  /\ main' = "checking"
  /\ UNCHANGED <<options, scan, allJoined, expired, stop, exit, client, queued,
                 thread, number, slot, count, corrupted, fired>>

Expire ==
  /\ Running /\ main = "grace" /\ ~expired
  /\ expired' = TRUE
  /\ UNCHANGED <<options, main, scan, allJoined, stop, exit, client, queued, thread,
                 number, slot, count, corrupted, fired>>

\* Mutant: shutdown joins every handler, however long that takes.
GraceNext_NoDeadline(c) ==
  /\ Running /\ main = "grace"
  /\ c \in scan
  /\ Done(c)
  /\ JoinIfDone(c)
  /\ UNCHANGED <<options, main, allJoined, expired, stop, exit, client, queued,
                 thread, number, count, corrupted, fired>>

\* First pass: each handler is waited for until its flag is up or the deadline
\* has passed.
GraceNext(c) ==
  /\ Running /\ main = "grace"
  /\ c \in scan
  /\ Done(c) \/ expired
  /\ JoinIfDone(c)
  /\ UNCHANGED <<options, main, allJoined, expired, stop, exit, client, queued,
                 thread, number, count, corrupted, fired>>

GraceEnd ==
  /\ Running /\ main = "grace"
  /\ scan = {}
  /\ main' = "second"
  /\ scan' = Joinable
  /\ UNCHANGED <<options, allJoined, expired, stop, exit, client, queued, thread,
                 number, slot, count, corrupted, fired>>

\* Mutant: the second pass believes the flag and joins nobody.
SecondNext_TrustsFlag(c) ==
  /\ Running /\ main = "second"
  /\ c \in scan
  /\ scan' = scan \ {c}
  /\ allJoined' = (allJoined /\ Done(c))
  /\ UNCHANGED <<options, main, expired, stop, exit, client, queued, thread, number,
                 slot, count, corrupted, fired>>

\* Second pass: the decision is "did we join it".
SecondNext(c) ==
  /\ Running /\ main = "second"
  /\ c \in scan
  /\ JoinIfDone(c)
  /\ allJoined' = (allJoined /\ slot'[c] # "joinable")
  /\ UNCHANGED <<options, main, expired, stop, exit, client, queued, thread, number,
                 count, corrupted, fired>>

\* return 0, which destroys the vector, WinsockGuard and the logging globals, or
\* std::_Exit(0), which destroys nothing.
Leave ==
  /\ Running /\ main = "second"
  /\ scan = {}
  /\ exit' = IF allJoined THEN "returned" ELSE "quick"
  /\ UNCHANGED <<options, mainVars, stop, client, queued, thread, number, slot,
                 count, corrupted, fired>>

--------------------------------------------------------------------------------
(* A handler thread.                                                         *)

\* A request line: ++g_request_count is atomic, so its number is its own.
Request(c) ==
  /\ Running /\ thread[c] = "recv" /\ client[c] = "here"
  /\ count < MaxRequests
  /\ count' = count + 1
  /\ number' = [number EXCEPT ![c] = count + 1]
  /\ thread' = [thread EXCEPT ![c] = "counted"]
  /\ UNCHANGED <<options, mainVars, stop, exit, client, queued, slot, corrupted, fired>>

Inject(c) ==
  /\ Running /\ thread[c] = "counted"
  /\ IF Fires(number[c])
     THEN /\ Damage
          /\ fired' = fired + 1
          /\ thread' = [thread EXCEPT ![c] = CASE options.fault = "hang" -> "hung"
                                               [] options.fault = "slow" -> "slow"
                                               [] OTHER -> "reply"]
     ELSE /\ thread' = [thread EXCEPT ![c] = "reply"]
          /\ UNCHANGED <<exit, corrupted, fired>>
  /\ UNCHANGED <<options, mainVars, stop, client, queued, number, slot, count>>

\* sleep_for(fault_delay_ms) returns.
SlowEnds(c) ==
  /\ Running /\ thread[c] = "slow"
  /\ thread' = [thread EXCEPT ![c] = "reply"]
  /\ UNCHANGED <<options, mainVars, stop, exit, client, queued, number, slot, count,
                 corrupted, fired>>

\* Mutant: writing to a closed socket raises SIGPIPE.
SendReply_Sigpipe(c) ==
  /\ Running /\ thread[c] = "reply"
  /\ IF client[c] = "gone"
     THEN exit' = "killed" /\ UNCHANGED thread
     ELSE thread' = [thread EXCEPT ![c] = "recv"] /\ UNCHANGED exit
  /\ UNCHANGED <<options, mainVars, stop, client, queued, number, slot, count,
                 corrupted, fired>>

\* send_all: a client that has gone may make it fail, which ends the connection.
SendReply(c) ==
  /\ Running /\ thread[c] = "reply"
  /\ \/ thread' = [thread EXCEPT ![c] = "recv"]
     \/ client[c] = "gone" /\ thread' = [thread EXCEPT ![c] = "leaving"]
  /\ UNCHANGED <<options, mainVars, stop, exit, client, queued, number, slot, count,
                 corrupted, fired>>

\* recv() returns 0 or an error.
RecvEnds(c) ==
  /\ Running /\ thread[c] = "recv" /\ client[c] = "gone"
  /\ thread' = [thread EXCEPT ![c] = "leaving"]
  /\ UNCHANGED <<options, mainVars, stop, exit, client, queued, number, slot, count,
                 corrupted, fired>>

\* done->store(true), while the thread is still running.
RaiseFlag(c) ==
  /\ Running /\ thread[c] = "leaving"
  /\ thread' = [thread EXCEPT ![c] = "flagged"]
  /\ UNCHANGED <<options, mainVars, stop, exit, client, queued, number, slot, count,
                 corrupted, fired>>

ThreadEnds(c) ==
  /\ Running /\ thread[c] = "flagged"
  /\ thread' = [thread EXCEPT ![c] = "ended"]
  /\ UNCHANGED <<options, mainVars, stop, exit, client, queued, number, slot, count,
                 corrupted, fired>>

--------------------------------------------------------------------------------
(* The environment: clients, SIGINT or SIGTERM, and a corrupted heap.        *)

Connect(c) ==
  /\ Running /\ Listening /\ client[c] = "away"
  /\ client' = [client EXCEPT ![c] = "here"]
  /\ queued' = queued \cup {c}
  /\ UNCHANGED <<options, mainVars, stop, exit, thread, number, slot, count,
                 corrupted, fired>>

Disconnect(c) ==
  /\ Running /\ client[c] = "here"
  /\ client' = [client EXCEPT ![c] = "gone"]
  /\ UNCHANGED <<options, mainVars, stop, exit, queued, thread, number, slot, count,
                 corrupted, fired>>

Signal ==
  /\ Running /\ ~stop
  /\ stop' = TRUE
  /\ UNCHANGED <<options, mainVars, exit, client, queued, thread, number, slot,
                 count, corrupted, fired>>

Corruption ==
  /\ Running /\ corrupted
  /\ exit' = "killed"
  /\ UNCHANGED <<options, mainVars, stop, client, queued, thread, number, slot,
                 count, corrupted, fired>>

--------------------------------------------------------------------------------

MainThread ==
  \/ Start \/ CheckStop \/ AcceptTimeout \/ ReapEnd \/ GraceEnd \/ Leave
  \/ \E c \in Connections :
       Accept(c) \/ ReapNext(c) \/ GraceNext(c) \/ SecondNext(c)

HandlerThread(c) ==
  \/ Inject(c)
  \/ SlowEnds(c)
  \/ SendReply(c)
  \/ RecvEnds(c)
  \/ RaiseFlag(c)
  \/ ThreadEnds(c)

ServerNext ==
  \/ MainThread
  \/ \E c \in Connections :
       HandlerThread(c) \/ Request(c) \/ Connect(c) \/ Disconnect(c)
  \/ Expire
  \/ Signal
  \/ Corruption

ServerSpec == ServerInit /\ [][ServerNext]_serverVars

\* Both kinds of thread are scheduled and time passes; clients owe nothing.
FairServerSpec ==
  /\ ServerSpec
  /\ WF_serverVars(MainThread)
  /\ WF_serverVars(Expire)
  /\ \A c \in Connections : WF_serverVars(HandlerThread(c))

--------------------------------------------------------------------------------
(* Properties.                                                               *)

\* "Every handler now has a lifetime that ends before the resources it uses do":
\* run_server returns, and so destroys the vector, Winsock and the logs, only
\* when every handler thread has ended and been joined.  (Destroying a joinable
\* std::thread would be std::terminate.)
NothingOutlivesReturn ==
  exit = "returned" =>
    \A c \in Connections : thread[c] \in {"none", "ended"} /\ slot[c] # "joinable"

\* The configured fault is one controlled event: it fires exactly once, on
\* request number fault_after, whichever connection that request came in on.
FaultFiresOnRequestN ==
  /\ fired <= 1
  /\ fired = 1 => count >= options.after
  /\ main # "starting" /\ options.fault # "none" /\ count >= options.after =>
       \/ fired = 1
       \/ \E c \in Connections : thread[c] = "counted" /\ number[c] = options.after

\* "One client hanging up mid-conversation must cost one connection, not the
\* DUT": nothing kills the process but a crash or bad-access fault that fired.
KilledOnlyByFault ==
  exit = "killed" => fired > 0 /\ options.fault \in {"crash", "bad-access"}

\* SIGTERM ends the DUT, also when a client never leaves or the hang fault holds
\* a handler for ever.  (--fault hang --fault-after 0 blocks the main thread
\* itself, on purpose, before it ever looks at the flag.)
StopIsHonoured ==
  (stop /\ options # [fault |-> "hang", after |-> 0]) ~> exit # "running"
================================================================================
