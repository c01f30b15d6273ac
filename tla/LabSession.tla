------------------------------- MODULE LabSession -------------------------------
(***************************************************************************)
(* A LabClient talking to the Python DUT: connect, request and             *)
(* wait_until_ready on one side; on the other one handler thread per       *)
(* connection and the faults its command line asks for.  Answers may come  *)
(* late, never, garbled, or be cut off by the DUT's exit.                  *)
(*                                                                         *)
(* A request is a number that is never used twice, an answer the number of *)
(* the request it answers.                                                 *)
(***************************************************************************)
EXTENDS FaultConfiguration, Sequences

CONSTANTS
  CommandLines,    \* bound: the command lines considered
  MaxRequests,     \* bound on the requests sent
  MaxConnections   \* bound on the connections opened

ASSUME SessionAssumption ==
  /\ CommandLines \subseteq CommandLine
  /\ MaxRequests \in Nat
  /\ MaxConnections \in Nat

Connections == 1..MaxConnections
NotConnected == 0
Garbage == 0  \* b"this-is-not-json\n", the answer to no request

VARIABLES
  args,      \* the DUT's command line
  faults,    \* server.fault_config
  dut,       \* the process: "starting", "up" or "exited"
  counted,   \* server.request_count
  handler,   \* per connection: "none", "reading", "answering" or "gone"
  current,   \* the request a handler is answering
  inbox,     \* requests on their way to the DUT
  outbox,    \* answers on their way to the client
  conn,      \* the client's connection, or NotConnected
  latched,   \* has a read on its reader timed out?
  pc,        \* the client: "idle", "polling" or "requesting"
  polling,   \* is request() called by wait_until_ready?
  sent,      \* number of the last request sent
  opened,    \* number of connections opened
  returned,  \* history: <<request, answer>> of the last LabResponse
  answered,  \* history: answers the DUT has written
  injected   \* history: the faults logged as fault_injected

dutVars == <<dut, counted, handler, current>>
config == <<args, faults>>
vars == <<config, dutVars, inbox, outbox, conn, latched, pc, polling, sent, opened,
          returned, answered, injected>>

Init ==
  /\ args \in CommandLines
  /\ faults \in ResolveFaultConfig(args)
  /\ dut = "starting"
  /\ counted = 0
  /\ handler = [k \in Connections |-> "none"]
  /\ current = [k \in Connections |-> 0]
  /\ inbox = [k \in Connections |-> <<>>]
  /\ outbox = [k \in Connections |-> <<>>]
  /\ conn = NotConnected
  /\ latched = FALSE
  /\ pc = "idle"
  /\ polling = FALSE
  /\ sent = 0
  /\ opened = 0
  /\ returned = <<0, 0>>
  /\ answered = 0
  /\ injected = {}

--------------------------------------------------------------------------------
(* The client.                                                               *)

\* connect: a refused connection leaves the client as it was.
Connect ==
  /\ pc \in {"idle", "polling"}
  /\ conn = NotConnected
  /\ dut = "up"
  /\ opened < MaxConnections
  /\ opened' = opened + 1
  /\ conn' = opened + 1
  /\ latched' = FALSE
  /\ handler' = [handler EXCEPT ![opened + 1] = "reading"]
  /\ UNCHANGED <<config, dut, counted, current, inbox, outbox, pc, polling, sent,
                 returned, answered, injected>>

\* wait_until_ready enters its polling loop.
WaitUntilReady ==
  /\ pc = "idle"
  /\ pc' = "polling"
  /\ UNCHANGED <<config, dutVars, inbox, outbox, conn, latched, polling, sent, opened,
                 returned, answered, injected>>

\* request: sendall puts the line on the wire.
Send ==
  /\ pc \in {"idle", "polling"}
  /\ conn # NotConnected
  /\ sent < MaxRequests
  /\ sent' = sent + 1
  /\ polling' = (pc = "polling")
  /\ pc' = "requesting"
  /\ inbox' = IF handler[conn] = "gone" THEN inbox
              ELSE [inbox EXCEPT ![conn] = Append(@, sent + 1)]
  /\ UNCHANGED <<config, dutVars, outbox, conn, latched, opened, returned,
                 answered, injected>>

\* Mutant: wait_until_ready polls on over the connection that failed, with the
\* reader made afresh.
Fail_KeepsConnection(latch) ==
  /\ pc' = IF polling THEN "polling" ELSE "idle"
  /\ latched' = (latch /\ ~polling)
  /\ UNCHANGED conn

\* LabCommunicationError: wait_until_ready closes and polls on; any other caller
\* sees it, with the connection still open.
Fail(latch) ==
  /\ pc' = IF polling THEN "polling" ELSE "idle"
  /\ conn' = IF polling THEN NotConnected ELSE conn
  /\ latched' = (latch /\ ~polling)

\* A socket's file object refuses every read after one has timed out.
ReaderUsable == ~latched

\* readline returns a line.  Anything but a JSON object is an error.
ReadLine ==
  /\ pc = "requesting"
  /\ ReaderUsable
  /\ outbox[conn] # <<>>
  /\ outbox' = [outbox EXCEPT ![conn] = Tail(@)]
  /\ IF Head(outbox[conn]) = Garbage
     THEN Fail(FALSE) /\ UNCHANGED returned
     ELSE /\ returned' = <<sent, Head(outbox[conn])>>
          /\ pc' = "idle"
          /\ UNCHANGED <<conn, latched>>
  /\ UNCHANGED <<config, dutVars, inbox, polling, sent, opened, answered, injected>>

\* No line within response_timeout.
TimeOut ==
  /\ pc = "requesting"
  /\ ReaderUsable
  /\ outbox[conn] = <<>>
  /\ Fail(TRUE)
  /\ UNCHANGED <<config, dutVars, inbox, outbox, polling, sent, opened, returned,
                 answered, injected>>

\* The connection is closed or reset, at sendall or at readline, or the reader
\* has timed out before.
ReadFails ==
  /\ pc = "requesting"
  /\ ~ReaderUsable \/ (handler[conn] = "gone" /\ outbox[conn] = <<>>)
  /\ Fail(latched)
  /\ UNCHANGED <<config, dutVars, inbox, outbox, polling, sent, opened, returned,
                 answered, injected>>

\* close, called by whoever owns the client; connecting anew follows it.
Close ==
  /\ pc = "idle"
  /\ conn # NotConnected
  /\ conn' = NotConnected
  /\ latched' = FALSE
  /\ UNCHANGED <<config, dutVars, inbox, outbox, pc, polling, sent, opened, returned,
                 answered, injected>>

\* wait_until_ready reaches its deadline and raises TimeoutError.
Deadline ==
  /\ pc = "polling"
  /\ pc' = "idle"
  /\ UNCHANGED <<config, dutVars, inbox, outbox, conn, latched, polling, sent, opened,
                 returned, answered, injected>>

--------------------------------------------------------------------------------
(* The DUT.                                                                  *)

\* main: the startup delay, if any, is logged and passes, the port is bound,
\* serve_forever runs.
StartUp ==
  /\ dut = "starting"
  /\ dut' = "up"
  /\ injected' = IF faults.startup_delay_ms > 0 THEN {"startup_delay"} ELSE {}
  /\ UNCHANGED <<config, counted, handler, current, inbox, outbox, conn, latched, pc,
                 polling, sent, opened, returned, answered>>

\* Mutant: the request that should end the process is still served.
ExitsNow_OffByOne(n) == \E limit \in faults.exit_after_requests : n > limit

ExitsNow(n) == \E limit \in faults.exit_after_requests : n >= limit

\* The fault handle logs for request number n before it answers, if any.
LoggedFirst(n) ==
  IF ExitsNow(n) THEN {"process_termination"}
  ELSE IF faults.drop_connection THEN {"dropped_connection"}
  ELSE IF faults.response_delay_ms > 0 THEN {"delayed_response"}
  ELSE {}

\* handle, up to the delay: read a line, count it, exit or drop where the
\* configuration says so.  os._exit ends every handler.
Handle(k) ==
  /\ dut = "up"
  /\ handler[k] = "reading"
  /\ inbox[k] # <<>>
  /\ inbox' = [inbox EXCEPT ![k] = Tail(@)]
  /\ counted' = IF faults.exit_after_requests = {} THEN counted ELSE counted + 1
  /\ \/ /\ ExitsNow(counted + 1)
        /\ dut' = "exited"
        /\ handler' = [j \in Connections |->
                         IF handler[j] = "none" THEN "none" ELSE "gone"]
        /\ UNCHANGED current
     \/ /\ ~ExitsNow(counted + 1)
        /\ handler' = [handler EXCEPT ![k] = IF faults.drop_connection THEN "gone"
                                             ELSE "answering"]
        /\ current' = [current EXCEPT ![k] = Head(inbox[k])]
        /\ UNCHANGED dut
  /\ injected' = injected \cup LoggedFirst(counted + 1)
  /\ UNCHANGED <<config, outbox, conn, latched, pc, polling, sent, opened, returned,
                 answered>>

\* After response_delay_ms, however long: write the answer, or the garbage.
Answer(k) ==
  /\ dut = "up"
  /\ handler[k] = "answering"
  /\ handler' = [handler EXCEPT ![k] = "reading"]
  /\ outbox' = [outbox EXCEPT ![k] = Append(@, IF faults.malformed_response
                                               THEN Garbage ELSE current[k])]
  /\ answered' = answered + 1
  /\ injected' = injected \cup (IF faults.malformed_response
                               THEN {"malformed_response"} ELSE {})
  /\ UNCHANGED <<config, dut, counted, current, inbox, conn, latched, pc, polling,
                 sent, opened, returned>>

\* The client has closed the connection: readline returns b"" or the write fails.
PeerGone(k) ==
  /\ dut = "up"
  /\ handler[k] \in {"reading", "answering"}
  /\ conn # k
  /\ handler[k] = "reading" => inbox[k] = <<>>
  /\ handler' = [handler EXCEPT ![k] = "gone"]
  /\ UNCHANGED <<config, dut, counted, current, inbox, outbox, conn, latched, pc,
                 polling, sent, opened, returned, answered, injected>>

--------------------------------------------------------------------------------

Next ==
  \/ Connect
  \/ WaitUntilReady
  \/ Send
  \/ ReadLine
  \/ TimeOut
  \/ ReadFails
  \/ Close
  \/ Deadline
  \/ StartUp
  \/ \E k \in Connections : Handle(k) \/ Answer(k) \/ PeerGone(k)

Spec == Init /\ [][Next]_vars

--------------------------------------------------------------------------------
(* Properties.                                                               *)

\* A LabResponse answers the request it was returned for: a late answer to a
\* request that timed out is never handed to a later one, whether the caller
\* keeps the connection, closes it, or polls for readiness.
AnswerIsForRequest == returned[1] = returned[2]

\* process_termination: the DUT with exit_after_requests = N answers at most
\* N - 1 requests, counted over all its connections and handler threads.
ExitCountsEveryRequest ==
  \A limit \in faults.exit_after_requests : answered < limit

\* The command line describes the run: only faults it asks for are logged as
\* injected, and once a run with --fault has answered a request that fault, and
\* no other, is in the log; it is never a clean run that claims a fault.
CommandLineDescribesRun ==
  /\ injected \subseteq AskedFor(args)
  /\ args.fault # {} /\ answered > 0 => injected = args.fault
================================================================================
