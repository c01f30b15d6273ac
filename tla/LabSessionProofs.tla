---------------------------- MODULE LabSessionProofs ----------------------------
(***************************************************************************)
(* Proofs about LabSession: for any set of command lines, any number of    *)
(* requests and any number of connections.                                 *)
(***************************************************************************)
EXTENDS LabSession, FiniteSetTheorems, TLAPS

\* The handlers about to answer.
Answering == {k \in Connections : handler[k] = "answering"}

\* The faults a configuration switches on.
Active(f) ==
  {name \in FaultNames :
     \/ name = "delayed_response" /\ f.response_delay_ms > 0
     \/ name = "dropped_connection" /\ f.drop_connection
     \/ name = "malformed_response" /\ f.malformed_response
     \/ name = "startup_delay" /\ f.startup_delay_ms > 0
     \/ name = "process_termination" /\ f.exit_after_requests # {}}

TypeOK ==
  /\ args \in CommandLines
  /\ faults \in ResolveFaultConfig(args)
  /\ dut \in {"starting", "up", "exited"}
  /\ counted \in Nat
  /\ handler \in [Connections -> {"none", "reading", "answering", "gone"}]
  /\ current \in [Connections -> Nat]
  /\ inbox \in [Connections -> Seq(Nat)]
  /\ outbox \in [Connections -> Seq(Nat)]
  /\ conn \in 0..MaxConnections
  /\ latched \in BOOLEAN
  /\ pc \in {"idle", "polling", "requesting"}
  /\ polling \in BOOLEAN
  /\ sent \in Nat
  /\ opened \in 0..MaxConnections
  /\ returned \in Nat \X Nat
  /\ answered \in Nat
  /\ injected \subseteq FaultNames

\* A connection the client has not opened yet is nobody's and carries nothing;
\* the client's own connection is one it opened.
OpenedInv ==
  /\ conn <= opened
  /\ pc = "requesting" => conn # NotConnected
  /\ \A k \in Connections :
       /\ k > opened <=> handler[k] = "none"
       /\ k > opened => inbox[k] = <<>> /\ outbox[k] = <<>>

\* Nothing more will come of connection k than what is in its outbox.
Quiet(k) == handler[k] # "answering" /\ (handler[k] = "gone" \/ inbox[k] = <<>>)

\* At most the answer to the last request, or garbage for it, is still to come on
\* connection k.
OnlyLast(k) ==
  \/ Quiet(k) /\ outbox[k] = <<>>
  \/ Quiet(k) /\ outbox[k] \in {<<sent>>, <<Garbage>>}
  \/ handler[k] = "reading" /\ inbox[k] = <<sent>> /\ outbox[k] = <<>>
  \/ handler[k] = "answering" /\ current[k] = sent /\ inbox[k] = <<>> /\ outbox[k] = <<>>

\* As long as the reader can be used, the connection carries what belongs to the
\* request under way, and nothing between two requests.
OutstandingInv ==
  conn # NotConnected /\ ~latched =>
    /\ OnlyLast(conn)
    /\ pc # "requesting" => Quiet(conn) /\ outbox[conn] = <<>>

\* Every answer, written or about to be, has been counted below the limit.
CountInv ==
  \A limit \in faults.exit_after_requests :
    /\ answered < limit
    /\ dut # "exited" => answered + Cardinality(Answering) <= counted /\ counted < limit

\* Before serve_forever nothing has happened; what is logged is switched on, and an
\* answer, written or about to be, has been through every fault that precedes it.
InjectedInv ==
  /\ injected \subseteq Active(faults)
  /\ dut = "starting" => injected = {} /\ answered = 0 /\ Answering = {}
  /\ dut # "starting" /\ faults.startup_delay_ms > 0 => "startup_delay" \in injected
  /\ answered > 0 \/ Answering # {} =>
       /\ ~faults.drop_connection
       /\ faults.response_delay_ms > 0 => "delayed_response" \in injected
  /\ answered > 0 /\ faults.malformed_response => "malformed_response" \in injected

Inv == TypeOK /\ OpenedInv /\ OutstandingInv /\ AnswerIsForRequest /\ CountInv /\ InjectedInv

--------------------------------------------------------------------------------
(* What a command line resolves to.                                          *)

\* An option that is given has one value, and that is the one the DUT takes.
LEMMA OptionValue ==
  ASSUME NEW S, NEW option \in Optional(S), NEW default
  PROVE  /\ option = {} => OrElse(option, default) = default
         /\ option # {} => option = {OrElse(option, default)} /\ OrElse(option, default) \in S
<1>1. CASE option = {}
  BY <1>1 DEF OrElse
<1>2. CASE option # {}
  <2>1. PICK v \in option : TRUE
    BY <1>2
  <2>2. option = {v} /\ v \in S
    BY <2>1 DEF Optional
  <2>3. (CHOOSE w \in option : TRUE) = v
    BY <2>2
  <2> QED
    BY <1>2, <2>2, <2>3 DEF OrElse
<1> QED
  BY <1>1, <1>2

\* load_fault_config: what it accepts is a FaultConfig that switches on what the
\* manifest says, with a count of requests that is at least one.
LEMMA ManifestResolved ==
  ASSUME NEW m \in Manifest, NEW f \in LoadFaultConfig(m)
  PROVE  /\ f \in FaultConfig
         /\ \A limit \in f.exit_after_requests : limit \in Nat /\ limit >= 1
         /\ f.response_delay_ms > 0 => m.response_delay_ms \notin {{}, {0}}
         /\ f.drop_connection => m.drop_connection = {TRUE}
         /\ f.malformed_response => m.malformed_response = {TRUE}
         /\ f.startup_delay_ms > 0 => m.startup_delay_ms \notin {{}, {0}}
         /\ f.exit_after_requests = m.exit_after_requests
<1> DEFINE rd == OrElse(m.response_delay_ms, 0)
           dc == OrElse(m.drop_connection, FALSE)
           mr == OrElse(m.malformed_response, FALSE)
           sd == OrElse(m.startup_delay_ms, 0)
<1>1. /\ m.response_delay_ms \in Optional(Int) /\ m.startup_delay_ms \in Optional(Int)
      /\ m.drop_connection \in Optional(BOOLEAN) /\ m.malformed_response \in Optional(BOOLEAN)
      /\ m.exit_after_requests \in Optional(Int)
  BY DEF Manifest
<1>2. /\ \A ms \in m.response_delay_ms \cup m.startup_delay_ms : DelayInRange(ms)
      /\ CountInRange(m.exit_after_requests)
      /\ f = [response_delay_ms |-> rd, drop_connection |-> dc, malformed_response |-> mr,
              startup_delay_ms |-> sd, exit_after_requests |-> m.exit_after_requests]
  BY DEF LoadFaultConfig
<1>3. rd \in Nat /\ (rd > 0 => m.response_delay_ms \notin {{}, {0}})
  BY <1>1, <1>2, OptionValue DEF DelayInRange
<1>4. sd \in Nat /\ (sd > 0 => m.startup_delay_ms \notin {{}, {0}})
  BY <1>1, <1>2, OptionValue DEF DelayInRange
<1>5. dc \in BOOLEAN /\ (dc => m.drop_connection = {TRUE})
  BY <1>1, OptionValue
<1>6. mr \in BOOLEAN /\ (mr => m.malformed_response = {TRUE})
  BY <1>1, OptionValue
<1>7. /\ m.exit_after_requests \in Optional(Nat)
      /\ \A limit \in m.exit_after_requests : limit \in Nat /\ limit >= 1
  BY <1>1, <1>2 DEF CountInRange, Optional
<1> QED
  BY <1>2, <1>3, <1>4, <1>5, <1>6, <1>7 DEF FaultConfig

\* FaultConfig.for_preset switches on the fault it is named for and no other.
LEMMA PresetResolved ==
  ASSUME NEW name \in FaultNames, NEW ms \in Int, DelayServes(name, ms)
  PROVE  /\ Preset(name, ms) \in FaultConfig
         /\ Active(Preset(name, ms)) = {name}
         /\ \A limit \in Preset(name, ms).exit_after_requests : limit = 1
<1>1. ms \in Nat /\ (name \in {"delayed_response", "startup_delay"} => ms > 0)
  BY DEF DelayServes, DelayInRange
<1>2. /\ NoFault \in FaultConfig
      /\ NoFault.response_delay_ms = 0 /\ NoFault.startup_delay_ms = 0
      /\ NoFault.drop_connection = FALSE /\ NoFault.malformed_response = FALSE
      /\ NoFault.exit_after_requests = {} /\ {1} \in Optional(Nat)
  BY DEF NoFault, FaultConfig, Optional
<1>3. CASE name = "delayed_response"
  <2>1. Preset(name, ms) = [NoFault EXCEPT !.response_delay_ms = ms]
    BY <1>3, Zenon DEF Preset
  <2> QED
    BY <1>1, <1>2, <1>3, <2>1 DEF FaultConfig, Active, FaultNames
<1>4. CASE name = "dropped_connection"
  <2> DEFINE f == Preset(name, ms)
  <2>1. f = [NoFault EXCEPT !.drop_connection = TRUE]
    BY <1>4, Zenon DEF Preset
  <2>2. /\ f \in FaultConfig
        /\ f.response_delay_ms = 0 /\ f.startup_delay_ms = 0 /\ f.exit_after_requests = {}
        /\ f.drop_connection = TRUE /\ f.malformed_response = FALSE
    BY <1>2, <2>1 DEF FaultConfig
  <2> HIDE DEF f
  <2>3. \A n \in FaultNames : n \in Active(f) <=> n = name
    BY <1>4, <2>2 DEF Active, FaultNames
  <2>4. Active(f) = {name}
    BY <2>3 DEF Active
  <2> QED
    BY <2>2, <2>4 DEF f
<1>5. CASE name = "malformed_response"
  <2> DEFINE f == Preset(name, ms)
  <2>1. f = [NoFault EXCEPT !.malformed_response = TRUE]
    BY <1>5, Zenon DEF Preset
  <2>2. /\ f \in FaultConfig
        /\ f.response_delay_ms = 0 /\ f.startup_delay_ms = 0 /\ f.exit_after_requests = {}
        /\ f.malformed_response = TRUE /\ f.drop_connection = FALSE
    BY <1>2, <2>1 DEF FaultConfig
  <2> HIDE DEF f
  <2>3. \A n \in FaultNames : n \in Active(f) <=> n = name
    BY <1>5, <2>2 DEF Active, FaultNames
  <2>4. Active(f) = {name}
    BY <2>3 DEF Active
  <2> QED
    BY <2>2, <2>4 DEF f
<1>6. CASE name = "startup_delay"
  <2>1. Preset(name, ms) = [NoFault EXCEPT !.startup_delay_ms = ms]
    BY <1>6, Zenon DEF Preset
  <2> QED
    BY <1>1, <1>2, <1>6, <2>1 DEF FaultConfig, Active, FaultNames
<1>7. CASE name = "process_termination"
  <2>1. Preset(name, ms) = [NoFault EXCEPT !.exit_after_requests = {1}]
    BY <1>7, Zenon DEF Preset
  <2> QED
    BY <1>1, <1>2, <1>7, <2>1 DEF FaultConfig, Active, FaultNames
<1> QED
  BY <1>3, <1>4, <1>5, <1>6, <1>7 DEF FaultNames

\* resolve_fault_config: whatever command line it accepts, the configuration
\* switches on nothing the operator did not ask for, and with --fault exactly that
\* fault; a process that is to end is given at least one request.
THEOREM ResolvedAsAsked ==
  ASSUME NEW a \in CommandLine, NEW f \in ResolveFaultConfig(a)
  PROVE  /\ f \in FaultConfig
         /\ Active(f) \subseteq AskedFor(a)
         /\ a.fault # {} =>
              Active(f) = a.fault /\ \A limit \in f.exit_after_requests : limit = 1
         /\ \A limit \in f.exit_after_requests : limit \in Nat /\ limit >= 1
<1> DEFINE delay == OrElse(a.fault_delay_ms, DefaultFaultDelayMs)
<1>1. /\ a.fault \in Optional(FaultNames) /\ a.fault_delay_ms \in Optional(Int)
      /\ a.fault_config \in Optional(Manifest)
  BY DEF CommandLine
<1>2. delay \in Int
  BY <1>1, OptionValue DEF DefaultFaultDelayMs
<1> HIDE DEF delay
<1>3. CASE a.fault_config # {}
  <2>1. a.fault = {} /\ \E m \in a.fault_config : f \in LoadFaultConfig(m)
    BY <1>3 DEF ResolveFaultConfig
  <2>2. PICK m \in a.fault_config : f \in LoadFaultConfig(m)
    BY <2>1
  <2>3. m \in Manifest
    BY <1>1 DEF Optional
  <2>4. Active(f) \subseteq AskedFor(a)
    <3> SUFFICES ASSUME NEW name \in Active(f) PROVE name \in AskedFor(a)
      OBVIOUS
    <3> DEFINE Named(q) ==
          {n \in FaultNames :
             \/ n = "delayed_response" /\ q.response_delay_ms \notin {{}, {0}}
             \/ n = "dropped_connection" /\ q.drop_connection = {TRUE}
             \/ n = "malformed_response" /\ q.malformed_response = {TRUE}
             \/ n = "startup_delay" /\ q.startup_delay_ms \notin {{}, {0}}
             \/ n = "process_termination" /\ q.exit_after_requests # {}}
    <3>1. name \in Named(m)
      BY <2>2, <2>3, ManifestResolved DEF Active
    <3>2. AskedFor(a) = a.fault \cup UNION {Named(q) : q \in a.fault_config}
      BY DEF AskedFor
    <3> HIDE DEF Named
    <3> QED
      BY <2>2, <3>1, <3>2
  <2> QED
    BY <2>1, <2>2, <2>3, <2>4, ManifestResolved
<1>4. CASE a.fault_config = {} /\ a.fault = {}
  <2>1. f = NoFault
    BY <1>4 DEF ResolveFaultConfig
  <2> QED
    BY <1>4, <2>1 DEF NoFault, FaultConfig, Active, Optional
<1>5. CASE a.fault_config = {} /\ a.fault # {}
  <2>1. \E name \in a.fault : DelayServes(name, delay) /\ f = Preset(name, delay)
    BY <1>5 DEF ResolveFaultConfig, delay
  <2>2. PICK name \in a.fault : DelayServes(name, delay) /\ f = Preset(name, delay)
    BY <2>1
  <2>3. name \in FaultNames /\ a.fault = {name}
    BY <1>1 DEF Optional
  <2>4. f \in FaultConfig /\ Active(f) = {name} /\ \A limit \in f.exit_after_requests : limit = 1
    BY <1>2, <2>2, <2>3, PresetResolved
  <2> QED
    BY <2>3, <2>4 DEF AskedFor
<1> QED
  BY <1>3, <1>4, <1>5

--------------------------------------------------------------------------------
(* The session.                                                              *)

\* The initial state satisfies the invariant.
LEMMA InitInv == Init => Inv
<1> SUFFICES ASSUME Init PROVE Inv
  OBVIOUS
<1>1. /\ args \in CommandLine
      /\ faults \in FaultConfig
      /\ \A limit \in faults.exit_after_requests : limit \in Nat /\ limit >= 1
  BY SessionAssumption, ResolvedAsAsked DEF Init
<1>2. Answering = {}
  BY DEF Init, Answering
<1>3. TypeOK
  <2>1. <<>> \in Seq(Nat) /\ 0 \in 0..MaxConnections
    BY SessionAssumption
  <2> QED
    BY <2>1 DEF Init, TypeOK, NotConnected
<1>4. OpenedInv /\ OutstandingInv /\ AnswerIsForRequest
  BY DEF Init, OpenedInv, OutstandingInv, AnswerIsForRequest, NotConnected, Connections
<1>5. CountInv
  BY <1>1, <1>2, FS_EmptySet DEF Init, CountInv
<1>6. InjectedInv
  BY <1>1, <1>2 DEF Init, InjectedInv, FaultConfig
<1> QED
  BY <1>3, <1>4, <1>5, <1>6 DEF Inv

\* The configuration of the run is what its command line resolves to.
LEMMA Configured ==
  ASSUME TypeOK
  PROVE  /\ faults \in FaultConfig
         /\ Active(faults) \subseteq AskedFor(args) /\ Active(faults) \subseteq FaultNames
         /\ args.fault # {} =>
              Active(faults) = args.fault /\ \A limit \in faults.exit_after_requests : limit = 1
         /\ \A limit \in faults.exit_after_requests : limit \in Nat /\ limit >= 1
  BY SessionAssumption, ResolvedAsAsked DEF TypeOK, Active

\* The handlers about to answer are finitely many.
LEMMA AnsweringFinite == IsFiniteSet(Answering) /\ Cardinality(Answering) \in Nat
<1>1. IsFiniteSet(Connections)
  BY SessionAssumption, FS_Interval DEF Connections
<1>2. Answering \in SUBSET Connections
  BY DEF Answering
<1> QED
  BY <1>1, <1>2, FS_Subset, FS_CardinalityType

\* What the client does leaves the DUT's side of the invariant alone.
LEMMA ClientKeepsDut ==
  ASSUME Inv, UNCHANGED <<args, faults, dut, counted, answered, injected>>,
         Answering' = Answering
  PROVE  CountInv' /\ InjectedInv'
  BY DEF Inv, CountInv, InjectedInv, Active

\* A step of the client that sends and reads nothing on its connection.
LEMMA FailInv ==
  ASSUME Inv, NEW latch \in BOOLEAN, pc = "requesting", Fail(latch),
         latched => latch,
         ~latch => Quiet(conn) /\ outbox[conn] = <<>>,
         UNCHANGED <<config, dutVars, inbox, outbox, polling, sent, opened, returned,
                     answered, injected>>
  PROVE  Inv'
<1> USE DEF Inv
<1>1. TypeOK'
  BY SessionAssumption DEF TypeOK, Fail, config, dutVars, NotConnected
<1>2. OpenedInv'
  BY DEF OpenedInv, TypeOK, Fail, config, dutVars, NotConnected
<1>3. OutstandingInv'
  BY DEF OutstandingInv, OnlyLast, Quiet, TypeOK, Fail, config, dutVars, NotConnected
<1>4. AnswerIsForRequest'
  BY DEF AnswerIsForRequest
<1>5. CountInv' /\ InjectedInv'
  BY ClientKeepsDut DEF config, dutVars, Answering
<1> QED
  BY <1>1, <1>2, <1>3, <1>4, <1>5

\* connect keeps the invariant: a new connection carries nothing.
LEMMA ConnectInv == Inv /\ Connect => Inv'
<1> SUFFICES ASSUME Inv, Connect PROVE Inv'
  OBVIOUS
<1> USE DEF Inv
<1>1. opened + 1 \in Connections /\ opened + 1 # NotConnected
  BY SessionAssumption DEF TypeOK, Connect, Connections, NotConnected
<1>2. handler[opened + 1] = "none" /\ inbox[opened + 1] = <<>> /\ outbox[opened + 1] = <<>>
  BY <1>1 DEF TypeOK, OpenedInv
<1>3. TypeOK'
  <2>1. opened' \in 0..MaxConnections /\ conn' \in 0..MaxConnections
    BY <1>1 DEF Connect, Connections
  <2>2. handler' \in [Connections -> {"none", "reading", "answering", "gone"}]
    BY <1>1 DEF TypeOK, Connect
  <2> QED
    BY <2>1, <2>2 DEF TypeOK, Connect, config
<1>4. OpenedInv'
  <2>1. conn' <= opened' /\ pc' # "requesting"
    BY <1>1 DEF Connect, Connections
  <2>2. ASSUME NEW k \in Connections
        PROVE  /\ k > opened' <=> handler'[k] = "none"
               /\ k > opened' => inbox'[k] = <<>> /\ outbox'[k] = <<>>
    <3>1. handler'[k] = IF k = opened + 1 THEN "reading" ELSE handler[k]
      BY <1>1 DEF TypeOK, Connect
    <3>2. k \in Int /\ opened \in Int
      BY DEF TypeOK, Connections
    <3> QED
      BY <1>1, <3>1, <3>2 DEF OpenedInv, Connect
  <2> QED
    BY <2>1, <2>2 DEF OpenedInv
<1>5. OutstandingInv'
  BY <1>1, <1>2 DEF TypeOK, OutstandingInv, OnlyLast, Quiet, Connect
<1>6. AnswerIsForRequest'
  BY DEF AnswerIsForRequest, Connect
<1>7. Answering' = Answering
  BY <1>1, <1>2 DEF TypeOK, Answering, Connect
<1>8. CountInv' /\ InjectedInv'
  BY <1>7, ClientKeepsDut DEF Connect, config
<1> QED
  BY <1>3, <1>4, <1>5, <1>6, <1>8

\* Sending keeps the invariant: on a connection whose reader can be used nothing
\* was outstanding.
LEMMA SendInv == Inv /\ Send => Inv'
<1> SUFFICES ASSUME Inv, Send PROVE Inv'
  OBVIOUS
<1> USE DEF Inv
<1>1. conn \in Connections /\ conn <= opened
  BY SessionAssumption DEF TypeOK, OpenedInv, Send, Connections, NotConnected
<1>2. TypeOK'
  BY SessionAssumption, <1>1 DEF TypeOK, Send, config, dutVars
<1>3. OpenedInv'
  BY <1>1 DEF TypeOK, OpenedInv, Send, dutVars, Connections
<1>4. OutstandingInv'
  <2> SUFFICES ASSUME ~latched
               PROVE  OnlyLast(conn)'
    BY DEF OutstandingInv, Send
  <2>1. Quiet(conn) /\ outbox[conn] = <<>>
    BY DEF OutstandingInv, Send
  <2>2. CASE handler[conn] = "gone"
    BY <2>1, <2>2 DEF OnlyLast, Quiet, Send, dutVars
  <2>3. CASE handler[conn] = "reading"
    <3>1. inbox[conn] = <<>> /\ inbox'[conn] = Append(<<>>, sent + 1)
      BY <1>1, <2>1, <2>3 DEF Quiet, Send, TypeOK
    <3>2. inbox'[conn] = <<sent + 1>>
      BY <3>1 DEF TypeOK
    <3> QED
      BY <2>1, <2>3, <3>2 DEF OnlyLast, Send, dutVars
  <2> QED
    BY <1>1, <2>1, <2>2, <2>3 DEF Quiet, TypeOK, OpenedInv, Connections
<1>5. AnswerIsForRequest'
  BY DEF AnswerIsForRequest, Send
<1>6. CountInv' /\ InjectedInv'
  BY ClientKeepsDut DEF Send, config, dutVars, Answering
<1> QED
  BY <1>2, <1>3, <1>4, <1>5, <1>6

\* Entering and leaving the polling loop, and close, keep the invariant.
LEMMA LoopInv == Inv /\ (WaitUntilReady \/ Deadline \/ Close) => Inv'
<1> SUFFICES ASSUME Inv, WaitUntilReady \/ Deadline \/ Close PROVE Inv'
  OBVIOUS
<1> USE DEF Inv
<1>1. /\ UNCHANGED <<config, dutVars, inbox, outbox, polling, sent, opened, returned,
                     answered, injected>>
      /\ pc' \in {"idle", "polling"} /\ pc # "requesting" /\ latched' \in BOOLEAN
      /\ (conn' = conn /\ latched' = latched) \/ conn' = NotConnected
  BY DEF WaitUntilReady, Deadline, Close, TypeOK
<1> HIDE DEF WaitUntilReady, Deadline, Close
<1>2. TypeOK'
  BY <1>1, SessionAssumption DEF TypeOK, config, dutVars, NotConnected
<1>3. OpenedInv'
  BY <1>1 DEF OpenedInv, TypeOK, config, dutVars, NotConnected
<1>4. OutstandingInv'
  BY <1>1 DEF OutstandingInv, OnlyLast, Quiet, config, dutVars
<1>5. AnswerIsForRequest'
  BY <1>1 DEF AnswerIsForRequest
<1>6. CountInv' /\ InjectedInv'
  BY <1>1, ClientKeepsDut DEF config, dutVars, Answering
<1> QED
  BY <1>2, <1>3, <1>4, <1>5, <1>6

\* A line that is read is the answer to the last request, or garbage.
LEMMA ReadLineInv == Inv /\ ReadLine => Inv'
<1> SUFFICES ASSUME Inv, ReadLine PROVE Inv'
  OBVIOUS
<1> USE DEF Inv
<1>1. conn \in Connections /\ conn # NotConnected /\ ~latched
  BY SessionAssumption DEF TypeOK, OpenedInv, ReadLine, ReaderUsable, Connections, NotConnected
<1>2. Quiet(conn) /\ outbox[conn] \in {<<sent>>, <<Garbage>>}
  BY <1>1 DEF ReadLine, OutstandingInv, OnlyLast
<1>3. /\ Head(outbox[conn]) \in {sent, Garbage} /\ Tail(outbox[conn]) = <<>>
      /\ sent \in Nat /\ Garbage \in Nat
  <2>1. PICK a \in {sent, Garbage} : outbox[conn] = <<a>>
    BY <1>2
  <2>2. sent \in Nat /\ Garbage \in Nat
    BY DEF TypeOK, Garbage
  <2>3. Head(<<a>>) = a /\ Tail(<<a>>) = <<>>
    BY <2>2
  <2> QED
    BY <2>1, <2>2, <2>3
<1>4. outbox' = [outbox EXCEPT ![conn] = <<>>]
  BY <1>3 DEF ReadLine
<1>5. outbox' \in [Connections -> Seq(Nat)] /\ outbox'[conn] = <<>>
  <2>1. <<>> \in Seq(Nat)
    OBVIOUS
  <2> QED
    BY <1>1, <1>4, <2>1 DEF TypeOK
<1>6. /\ returned' \in Nat \X Nat /\ returned'[1] = returned'[2]
      /\ pc' \in {"idle", "polling"} /\ latched' = FALSE
      /\ conn' = conn \/ conn' = NotConnected
  <2>1. CASE Head(outbox[conn]) = Garbage
    BY <1>1, <2>1 DEF TypeOK, AnswerIsForRequest, ReadLine, Fail
  <2>2. CASE Head(outbox[conn]) # Garbage
    <3>1. returned' = <<sent, sent>>
      BY <1>3, <2>2 DEF ReadLine
    <3> QED
      BY <1>1, <1>3, <2>2, <3>1 DEF ReadLine
  <2> QED
    BY <2>1, <2>2
<1>7. UNCHANGED <<config, dutVars, inbox, polling, sent, opened, answered, injected>>
  BY DEF ReadLine
<1>8. TypeOK'
  <2>1. returned' \in Nat \X Nat /\ latched' \in BOOLEAN
    BY <1>6
  <2>2. pc' \in {"idle", "polling", "requesting"} /\ conn' \in 0..MaxConnections
    BY <1>6, SessionAssumption DEF TypeOK, NotConnected
  <2>3. outbox' \in [Connections -> Seq(Nat)]
    BY <1>5
  <2> QED
    BY <1>7, <2>1, <2>2, <2>3 DEF TypeOK, config, dutVars
<1>9. OpenedInv'
  <2>1. conn' <= opened' /\ pc' # "requesting"
    BY <1>6, <1>7 DEF OpenedInv, TypeOK, NotConnected
  <2>2. \A k \in Connections : outbox[k] = <<>> => outbox'[k] = <<>>
    BY <1>1, <1>4 DEF TypeOK
  <2> QED
    BY <1>7, <2>1, <2>2 DEF OpenedInv, dutVars
<1>10. OutstandingInv'
  <2> SUFFICES ASSUME conn' # NotConnected
               PROVE  Quiet(conn)' /\ outbox'[conn'] = <<>>
    BY DEF OutstandingInv, OnlyLast
  <2>1. conn' = conn
    BY <1>6
  <2> QED
    BY <1>2, <1>5, <1>7, <2>1 DEF Quiet, dutVars
<1>11. AnswerIsForRequest'
  BY <1>6 DEF AnswerIsForRequest
<1>12. CountInv' /\ InjectedInv'
  BY <1>7, ClientKeepsDut DEF config, dutVars, Answering
<1> QED
  BY <1>8, <1>9, <1>10, <1>11, <1>12

\* After a read that times out or fails, the reader is latched, the connection is
\* given up, or nothing is to come on it.
LEMMA ReadFailureInv == Inv /\ (TimeOut \/ ReadFails) => Inv'
<1> SUFFICES ASSUME Inv, TimeOut \/ ReadFails PROVE Inv'
  OBVIOUS
<1>1. CASE TimeOut
  BY <1>1, FailInv DEF TimeOut, ReaderUsable
<1>2. CASE ReadFails
  <2>1. ~latched => Quiet(conn) /\ outbox[conn] = <<>>
    BY <1>2 DEF ReadFails, ReaderUsable, Quiet
  <2>2. latched \in BOOLEAN
    BY DEF Inv, TypeOK
  <2> QED
    BY <1>2, <2>1, <2>2, FailInv DEF ReadFails
<1> QED
  BY <1>1, <1>2

\* main reaches serve_forever: only the startup delay can have been logged.
LEMMA StartUpInv == Inv /\ StartUp => Inv'
<1> SUFFICES ASSUME Inv, StartUp PROVE Inv'
  OBVIOUS
<1> USE DEF Inv
<1>1. faults \in FaultConfig
  BY Configured
<1>2. TypeOK'
  BY DEF TypeOK, StartUp, config, FaultNames
<1>3. OpenedInv' /\ OutstandingInv' /\ AnswerIsForRequest'
  BY DEF OpenedInv, OutstandingInv, OnlyLast, Quiet, AnswerIsForRequest, StartUp
<1>4. CountInv'
  BY DEF CountInv, StartUp, config, Answering
<1>5. InjectedInv'
  BY <1>1 DEF InjectedInv, StartUp, config, Answering, Active, FaultNames, FaultConfig
<1> QED
  BY <1>2, <1>3, <1>4, <1>5

\* A request that is handled is counted, and is answered only if its number is
\* below the limit; the exit leaves no handler that could answer.
LEMMA HandleInv == ASSUME Inv, NEW k \in Connections, Handle(k) PROVE Inv'
<1> USE DEF Inv
<1>1. faults \in FaultConfig /\ \A limit \in faults.exit_after_requests : limit \in Nat
  BY Configured
<1>2. /\ inbox' = [inbox EXCEPT ![k] = Tail(@)] /\ inbox[k] # <<>>
      /\ counted' = IF faults.exit_after_requests = {} THEN counted ELSE counted + 1
      /\ injected' = injected \cup LoggedFirst(counted + 1)
      /\ dut = "up" /\ handler[k] = "reading"
      /\ UNCHANGED <<args, faults, outbox, conn, latched, pc, polling, sent, opened,
                     returned, answered>>
  BY DEF Handle, config
<1>3. \/ /\ ExitsNow(counted + 1)
         /\ dut' = "exited" /\ current' = current
         /\ handler' = [j \in Connections |->
                          IF handler[j] = "none" THEN "none" ELSE "gone"]
      \/ /\ ~ExitsNow(counted + 1)
         /\ dut' = "up" /\ current' = [current EXCEPT ![k] = Head(inbox[k])]
         /\ handler' = [handler EXCEPT ![k] = IF faults.drop_connection THEN "gone"
                                              ELSE "answering"]
  BY DEF Handle
<1>4. LoggedFirst(counted + 1) \subseteq Active(faults)
  BY <1>1 DEF LoggedFirst, Active, FaultNames, FaultConfig, ExitsNow
<1>5. inbox[k] \in Seq(Nat) /\ Tail(inbox[k]) \in Seq(Nat) /\ Head(inbox[k]) \in Nat
  BY <1>2 DEF TypeOK
<1>6. TypeOK'
  <2>1. handler' \in [Connections -> {"none", "reading", "answering", "gone"}]
    BY <1>3 DEF TypeOK
  <2>2. current' \in [Connections -> Nat] /\ inbox' \in [Connections -> Seq(Nat)]
    BY <1>2, <1>3, <1>5 DEF TypeOK
  <2>3. counted' \in Nat /\ dut' \in {"starting", "up", "exited"}
    BY <1>2, <1>3 DEF TypeOK
  <2>4. injected' \subseteq FaultNames
    BY <1>2, <1>4 DEF TypeOK, Active
  <2> QED
    BY <1>2, <2>1, <2>2, <2>3, <2>4 DEF TypeOK
<1>7. \A j \in Connections :
        /\ handler'[j] = "none" <=> handler[j] = "none"
        /\ j # k => inbox'[j] = inbox[j] /\ current'[j] = current[j]
        /\ j # k => handler'[j] \in {handler[j], "gone"}
        /\ inbox[j] = <<>> => inbox'[j] = <<>>
  BY <1>2, <1>3 DEF TypeOK
<1>8. OpenedInv'
  BY <1>2, <1>7 DEF OpenedInv
<1>9. OutstandingInv'
  <2> SUFFICES ASSUME conn # NotConnected, ~latched
               PROVE  OnlyLast(conn)' /\ (pc # "requesting" => Quiet(conn)' /\ outbox[conn] = <<>>)
    BY <1>2 DEF OutstandingInv
  <2>1. conn \in Connections
    BY DEF TypeOK, Connections, NotConnected
  <2>2. OnlyLast(conn) /\ (pc # "requesting" => Quiet(conn) /\ outbox[conn] = <<>>)
    BY DEF OutstandingInv
  <2>3. CASE handler'[conn] = "gone"
    BY <1>2, <2>2, <2>3 DEF OnlyLast, Quiet
  <2>4. CASE conn # k /\ handler'[conn] # "gone"
    <3>1. handler'[conn] = handler[conn] /\ inbox'[conn] = inbox[conn]
            /\ current'[conn] = current[conn]
      BY <1>7, <2>1, <2>4
    <3> QED
      BY <1>2, <2>2, <3>1 DEF OnlyLast, Quiet
  <2>5. CASE conn = k /\ handler'[conn] # "gone"
    <3>1. /\ handler'[conn] = "answering" /\ current'[conn] = Head(inbox[conn])
          /\ inbox'[conn] = Tail(inbox[conn])
      BY <1>2, <1>3, <2>1, <2>5 DEF TypeOK
    <3>2. pc = "requesting" /\ inbox[conn] = <<sent>> /\ outbox[conn] = <<>>
      BY <1>2, <2>2, <2>5 DEF OnlyLast, Quiet
    <3>3. Head(<<sent>>) = sent /\ Tail(<<sent>>) = <<>>
      BY DEF TypeOK
    <3> QED
      BY <1>2, <3>1, <3>2, <3>3 DEF OnlyLast
  <2> QED
    BY <2>3, <2>4, <2>5
<1>10. AnswerIsForRequest'
  BY <1>2 DEF AnswerIsForRequest
<1>11. Answering' \subseteq Answering \cup {k} /\ (dut' = "exited" => Answering' = {})
  BY <1>3 DEF TypeOK, Answering
<1>12. CountInv'
  <2> SUFFICES ASSUME NEW limit \in faults.exit_after_requests
               PROVE  /\ answered < limit
                      /\ dut' # "exited" => /\ answered + Cardinality(Answering') <= counted'
                                            /\ counted' < limit
    BY <1>2 DEF CountInv
  <2>1. answered < limit /\ answered + Cardinality(Answering) <= counted /\ counted < limit
    BY <1>2 DEF CountInv
  <2>2. counted' = counted + 1 /\ limit \in Nat
    BY <1>1, <1>2
  <2>3. dut' # "exited" => ~(counted + 1 >= limit)
    BY <1>3 DEF ExitsNow
  <2>4. Cardinality(Answering') <= Cardinality(Answering) + 1 /\ Cardinality(Answering') \in Nat
    <3>1. IsFiniteSet(Answering \cup {k})
             /\ Cardinality(Answering \cup {k}) <= Cardinality(Answering) + 1
      <4>1. /\ IsFiniteSet(Answering \cup {k})
            /\ Cardinality(Answering \cup {k}) =
                 IF k \in Answering THEN Cardinality(Answering) ELSE Cardinality(Answering) + 1
        BY AnsweringFinite, FS_AddElement
      <4> QED
        BY <4>1, AnsweringFinite
    <3>2. IsFiniteSet(Answering') /\ Cardinality(Answering') <= Cardinality(Answering \cup {k})
      BY <1>11, <3>1, FS_Subset
    <3> QED
      BY <3>1, <3>2, AnsweringFinite, FS_CardinalityType
  <2> QED
    BY <2>1, <2>2, <2>3, <2>4, AnsweringFinite DEF TypeOK
<1>13. InjectedInv'
  <2>1. injected' \subseteq Active(faults')
    BY <1>2, <1>4 DEF InjectedInv, Active
  <2>2. dut' # "starting"
    BY <1>3
  <2>3. faults.startup_delay_ms > 0 => "startup_delay" \in injected'
    BY <1>2 DEF InjectedInv
  <2>4. ASSUME answered > 0 \/ Answering' # {}
        PROVE  /\ ~faults.drop_connection
               /\ faults.response_delay_ms > 0 => "delayed_response" \in injected'
    <3>1. CASE answered > 0 \/ Answering # {}
      BY <1>2, <3>1 DEF InjectedInv
    <3>2. CASE ~(answered > 0 \/ Answering # {})
      <4>1. handler'[k] = "answering" /\ ~ExitsNow(counted + 1) /\ ~faults.drop_connection
        BY <1>3, <1>11, <2>4, <3>2 DEF TypeOK, Answering
      <4> QED
        BY <1>2, <4>1 DEF LoggedFirst
    <3> QED
      BY <3>1, <3>2
  <2>5. answered > 0 /\ faults.malformed_response => "malformed_response" \in injected'
    BY <1>2 DEF InjectedInv
  <2> QED
    BY <1>2, <2>1, <2>2, <2>3, <2>4, <2>5 DEF InjectedInv
<1> QED
  BY <1>6, <1>8, <1>9, <1>10, <1>12, <1>13

\* An answer is for the request its handler read, which is the client's last one if
\* the client is still there to read it; one handler fewer is about to answer.
LEMMA AnswerInv == ASSUME Inv, NEW k \in Connections, Answer(k) PROVE Inv'
<1> USE DEF Inv
<1> DEFINE reply == IF faults.malformed_response THEN Garbage ELSE current[k]
           shown == IF faults.malformed_response THEN {"malformed_response"} ELSE {}
<1>1. /\ outbox' = [outbox EXCEPT ![k] = Append(@, reply)]
      /\ handler' = [handler EXCEPT ![k] = "reading"]
      /\ handler[k] = "answering" /\ dut = "up" /\ answered' = answered + 1
      /\ injected' = injected \cup shown
      /\ UNCHANGED <<args, faults, dut, counted, current, inbox, conn, latched, pc,
                     polling, sent, opened, returned>>
  BY DEF Answer, config
<1>2. reply \in Nat /\ reply \in {Garbage, current[k]}
  BY DEF TypeOK, Garbage
<1>3. shown \subseteq Active(faults) /\ (faults.malformed_response => "malformed_response" \in shown)
  BY DEF Active, FaultNames
<1> HIDE DEF reply, shown
<1>4. Append(outbox[k], reply) \in Seq(Nat)
  BY <1>2 DEF TypeOK
<1>5. TypeOK'
  <2>1. handler' \in [Connections -> {"none", "reading", "answering", "gone"}]
    BY <1>1 DEF TypeOK
  <2>2. outbox' \in [Connections -> Seq(Nat)]
    BY <1>1, <1>4 DEF TypeOK
  <2>3. injected' \subseteq FaultNames /\ answered' \in Nat
    BY <1>1, <1>3 DEF TypeOK, Active
  <2> QED
    BY <1>1, <2>1, <2>2, <2>3 DEF TypeOK
<1>6. \A j \in Connections :
        /\ handler'[j] = "none" <=> handler[j] = "none"
        /\ j # k => handler'[j] = handler[j] /\ outbox'[j] = outbox[j]
  BY <1>1 DEF TypeOK
<1>7. OpenedInv'
  BY <1>1, <1>6 DEF OpenedInv
<1>8. OutstandingInv'
  <2> SUFFICES ASSUME conn # NotConnected, ~latched
               PROVE  /\ OnlyLast(conn)'
                      /\ pc # "requesting" => Quiet(conn)' /\ outbox'[conn] = <<>>
    BY <1>1 DEF OutstandingInv
  <2>1. conn \in Connections
    BY DEF TypeOK, Connections, NotConnected
  <2>2. OnlyLast(conn) /\ (pc # "requesting" => Quiet(conn) /\ outbox[conn] = <<>>)
    BY DEF OutstandingInv
  <2>3. CASE conn # k
    <3>1. handler'[conn] = handler[conn] /\ outbox'[conn] = outbox[conn]
      BY <1>6, <2>1, <2>3
    <3> QED
      BY <1>1, <2>2, <3>1 DEF OnlyLast, Quiet
  <2>4. CASE conn = k
    <3>1. /\ pc = "requesting" /\ current[conn] = sent
          /\ inbox[conn] = <<>> /\ outbox[conn] = <<>>
      BY <1>1, <2>2, <2>4 DEF OnlyLast, Quiet
    <3>2. handler'[conn] = "reading" /\ outbox'[conn] = Append(<<>>, reply)
      BY <1>1, <2>1, <2>4, <3>1 DEF TypeOK
    <3>3. Append(<<>>, reply) \in {<<sent>>, <<Garbage>>}
      BY <1>2, <2>4, <3>1
    <3> QED
      BY <1>1, <3>1, <3>2, <3>3 DEF OnlyLast, Quiet
  <2> QED
    BY <2>3, <2>4
<1>9. AnswerIsForRequest'
  BY <1>1 DEF AnswerIsForRequest
<1>10. k \in Answering /\ Answering' = Answering \ {k}
  BY <1>1 DEF TypeOK, Answering
<1>11. CountInv'
  <2> SUFFICES ASSUME NEW limit \in faults.exit_after_requests
               PROVE  /\ answered' < limit
                      /\ answered' + Cardinality(Answering') <= counted /\ counted < limit
    BY <1>1 DEF CountInv
  <2>1. answered + Cardinality(Answering) <= counted /\ counted < limit /\ limit \in Nat
    BY <1>1, Configured DEF CountInv
  <2>2. Cardinality(Answering \ {k}) = Cardinality(Answering) - 1
    BY <1>10, AnsweringFinite, FS_RemoveElement
  <2>3. Cardinality(Answering \ {k}) \in Nat
    BY AnsweringFinite, FS_RemoveElement, FS_CardinalityType
  <2> QED
    BY <1>1, <1>10, <2>1, <2>2, <2>3, AnsweringFinite DEF TypeOK
<1>12. InjectedInv'
  <2>1. injected' \subseteq Active(faults')
    BY <1>1, <1>3 DEF InjectedInv, Active
  <2>2. /\ ~faults.drop_connection
        /\ faults.response_delay_ms > 0 => "delayed_response" \in injected
    BY <1>10 DEF InjectedInv
  <2> QED
    BY <1>1, <1>3, <2>1, <2>2 DEF InjectedInv
<1> QED
  BY <1>5, <1>7, <1>8, <1>9, <1>11, <1>12

\* A handler whose client has gone ends without another word.
LEMMA PeerGoneInv == ASSUME Inv, NEW k \in Connections, PeerGone(k) PROVE Inv'
<1> USE DEF Inv
<1>1. /\ handler' = [handler EXCEPT ![k] = "gone"] /\ handler[k] \in {"reading", "answering"}
      /\ dut = "up" /\ conn # k
      /\ UNCHANGED <<args, faults, dut, counted, current, inbox, outbox, conn, latched,
                     pc, polling, sent, opened, returned, answered, injected>>
  BY DEF PeerGone, config
<1>2. TypeOK'
  BY <1>1 DEF TypeOK
<1>3. OpenedInv'
  BY <1>1 DEF OpenedInv, TypeOK
<1>4. OutstandingInv'
  <2>1. handler'[conn] = handler[conn] \/ conn = NotConnected
    BY <1>1 DEF TypeOK, Connections, NotConnected
  <2> QED
    BY <1>1, <2>1 DEF OutstandingInv, OnlyLast, Quiet
<1>5. AnswerIsForRequest'
  BY <1>1 DEF AnswerIsForRequest
<1>6. Answering' \in SUBSET Answering
  BY <1>1 DEF TypeOK, Answering
<1>7. CountInv'
  <2>1. Cardinality(Answering') <= Cardinality(Answering) /\ Cardinality(Answering') \in Nat
    BY <1>6, AnsweringFinite, FS_Subset, FS_CardinalityType
  <2>2. answered \in Nat /\ counted \in Nat
    BY DEF TypeOK
  <2> QED
    BY <1>1, <2>1, <2>2, AnsweringFinite DEF CountInv
<1>8. InjectedInv'
  BY <1>1, <1>6 DEF InjectedInv, Active
<1> QED
  BY <1>2, <1>3, <1>4, <1>5, <1>7, <1>8

\* The invariant holds of every reachable state.
THEOREM Invariance == Spec => []Inv
<1>1. Inv /\ [Next]_vars => Inv'
  <2> SUFFICES ASSUME Inv, [Next]_vars PROVE Inv'
    OBVIOUS
  <2>1. CASE Connect \/ Send \/ ReadLine
    BY <2>1, ConnectInv, SendInv, ReadLineInv
  <2>2. CASE WaitUntilReady \/ Deadline \/ Close
    BY <2>2, LoopInv
  <2>3. CASE TimeOut \/ ReadFails
    BY <2>3, ReadFailureInv
  <2>4. CASE StartUp
    BY <2>4, StartUpInv
  <2>5. ASSUME NEW k \in Connections, Handle(k) \/ Answer(k) \/ PeerGone(k) PROVE Inv'
    BY <2>5, HandleInv, AnswerInv, PeerGoneInv
  <2>6. CASE UNCHANGED vars
    <3>1. TypeOK' /\ OpenedInv' /\ AnswerIsForRequest'
      BY <2>6 DEF vars, config, dutVars, Inv, TypeOK, OpenedInv, AnswerIsForRequest
    <3>2. OutstandingInv'
      BY <2>6 DEF vars, dutVars, Inv, OutstandingInv, OnlyLast, Quiet
    <3>3. CountInv' /\ InjectedInv'
      BY <2>6, ClientKeepsDut DEF vars, config, dutVars, Answering
    <3> QED
      BY <3>1, <3>2, <3>3 DEF Inv
  <2> QED
    BY <2>1, <2>2, <2>3, <2>4, <2>5, <2>6 DEF Next
<1> QED
  BY <1>1, InitInv, PTL DEF Spec

\* LabClient.request: whatever is late, lost, garbled or polled for, a LabResponse is
\* the answer to the request it was returned for.
THEOREM EveryAnswerIsForItsRequest == Spec => []AnswerIsForRequest
<1>1. Inv => AnswerIsForRequest
  BY DEF Inv
<1> QED
  BY <1>1, Invariance, PTL

\* exit_after_requests: over all connections and handler threads, the DUT ends before
\* it answers the request it is to end on.
THEOREM ExitBeforeTheLastAnswer == Spec => []ExitCountsEveryRequest
<1>1. Inv => ExitCountsEveryRequest
  BY DEF Inv, CountInv, ExitCountsEveryRequest
<1> QED
  BY <1>1, Invariance, PTL

\* The log of a run names only faults its command line asks for, and once a run with
\* --fault has answered a request, exactly that fault.
THEOREM LogMatchesCommandLine == Spec => []CommandLineDescribesRun
<1>1. Inv => CommandLineDescribesRun
  <2> SUFFICES ASSUME Inv PROVE CommandLineDescribesRun
    OBVIOUS
  <2> USE DEF Inv
  <2>1. /\ injected \subseteq Active(faults) /\ Active(faults) \subseteq AskedFor(args)
        /\ args.fault # {} => Active(faults) = args.fault
    BY Configured DEF InjectedInv
  <2>2. ASSUME args.fault # {}, answered > 0, NEW name \in Active(faults)
        PROVE  name \in injected
    <3>1. name # "process_termination"
      <4>1. \A limit \in faults.exit_after_requests : limit = 1 /\ answered < limit
        BY <2>2, Configured DEF CountInv
      <4>2. faults.exit_after_requests = {}
        BY <2>2, <4>1 DEF TypeOK
      <4> QED
        BY <2>2, <4>2 DEF Active
    <3>2. name # "dropped_connection"
      BY <2>2 DEF InjectedInv, Active
    <3>3. dut # "starting"
      BY <2>2 DEF InjectedInv, TypeOK
    <3> QED
      BY <2>2, <3>1, <3>2, <3>3 DEF InjectedInv, Active
  <2> QED
    BY <2>1, <2>2 DEF CommandLineDescribesRun
<1> QED
  BY <1>1, Invariance, PTL
================================================================================
