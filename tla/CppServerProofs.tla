---------------------------- MODULE CppServerProofs ----------------------------
(***************************************************************************)
(* Proofs about CppServer: for any set of connections, any number of       *)
(* requests and any command line.                                          *)
(***************************************************************************)
EXTENDS CppServer, TLAPS

\* A connection is nobody's before it is accepted; its std::thread object is
\* joined only after its thread has ended.
ThreadInv ==
  \A c \in Connections :
    /\ client[c] = "away" => c \notin queued /\ thread[c] = "none"
    /\ c \in queued => thread[c] = "none"
    /\ thread[c] = "none" <=> slot[c] = "none"
    /\ slot[c] = "joined" => thread[c] = "ended"

\* In the second pass a handler behind the scan is joined, or all_joined is
\* false; run_server returns with that pass complete.
PassInv ==
  /\ main = "second" /\ allJoined => Joinable \subseteq scan
  /\ exit = "returned" => main = "second" /\ allJoined /\ scan = {}

\* Requests in flight have numbers of their own, none of them zero.
NumberInv ==
  /\ \A c \in Connections : thread[c] = "counted" => number[c] \in 1..count
  /\ \A c, d \in Connections :
       thread[c] = "counted" /\ thread[d] = "counted" /\ c # d
         => number[c] # number[d]

\* Before the accept loop nothing has happened; once the fault has fired, no
\* request in flight can fire it again.
FaultInv ==
  /\ main = "starting" =>
       fired = 0 /\ count = 0 /\ \A c \in Connections : thread[c] = "none"
  /\ fired = 1 =>
       \A c \in Connections : thread[c] = "counted" => number[c] # options.after

\* Only the two memory faults damage the process.
DamageInv ==
  corrupted \/ exit = "killed"
    => fired > 0 /\ options.fault \in {"crash", "bad-access"}

Inv == TypeOK /\ ThreadInv /\ PassInv /\ NumberInv /\ FaultInv
         /\ FaultFiresOnRequestN /\ DamageInv

\* The initial state satisfies the invariant.
LEMMA InitInv == ServerInit => Inv
<1> SUFFICES ASSUME ServerInit PROVE Inv
  OBVIOUS
<1> USE ServerAssumption DEF ServerInit
<1>1. TypeOK
  BY DEF TypeOK
<1>2. ThreadInv /\ PassInv
  BY DEF ThreadInv, PassInv
<1>3. NumberInv /\ FaultInv /\ FaultFiresOnRequestN /\ DamageInv
  BY DEF NumberInv, FaultInv, FaultFiresOnRequestN, DamageInv
<1> QED
  BY <1>1, <1>2, <1>3 DEF Inv

\* The steps of the main thread preserve the invariant.
LEMMA MainInv == Inv /\ MainThread => Inv'
<1> SUFFICES ASSUME Inv, MainThread PROVE Inv'
  OBVIOUS
<1> USE ServerAssumption
        DEF Inv, TypeOK, ThreadInv, PassInv, NumberInv, FaultInv,
            FaultFiresOnRequestN, DamageInv, Running, Done, Joinable, Faults
<1>1. CASE Start
  <2>1. options.fault \in Faults /\ options.after \in Nat
    OBVIOUS
  <2>2. CASE Fires(0)
    <3>1. /\ options.after = 0 /\ options.fault # "none"
          /\ fired = 0 /\ fired' = 1 /\ count = 0
          /\ \A c \in Connections : thread[c] = "none"
          /\ main' \in {"stuck", "checking"}
          /\ UNCHANGED <<options, scan, allJoined, expired, stop, client, queued,
                         thread, number, slot, count>>
      BY <1>1, <2>1, <2>2 DEF Start, Fires
    <3>2. /\ exit' \in {"running", "killed"} /\ corrupted' \in BOOLEAN
          /\ exit' = "killed" \/ corrupted' => options.fault \in {"crash", "bad-access"}
      BY <1>1, <2>1, <2>2 DEF Start, Damage
    <3> QED
      BY <2>1, <3>1, <3>2
  <2>3. CASE ~Fires(0)
    BY <1>1, <2>1, <2>3 DEF Start, Fires
  <2> QED
    BY <2>2, <2>3
<1>2. CASE CheckStop
  BY <1>2 DEF CheckStop
<1>3. CASE AcceptTimeout \/ ReapEnd \/ GraceEnd
  BY <1>3 DEF AcceptTimeout, ReapEnd, GraceEnd
<1>4. CASE Leave
  BY <1>4 DEF Leave, mainVars
<1>5. ASSUME NEW c \in Connections, Accept(c) PROVE Inv'
  BY <1>5 DEF Accept
<1>6. ASSUME NEW c \in Connections, ReapNext(c) PROVE Inv'
  BY <1>6 DEF ReapNext, JoinIfDone
<1>7. ASSUME NEW c \in Connections, GraceNext(c) PROVE Inv'
  BY <1>7 DEF GraceNext, JoinIfDone
<1>8. ASSUME NEW c \in Connections, SecondNext(c) PROVE Inv'
  BY <1>8 DEF SecondNext, JoinIfDone
<1> QED
  BY <1>1, <1>2, <1>3, <1>4, <1>5, <1>6, <1>7, <1>8 DEF MainThread

\* The steps of a handler thread preserve the invariant.
LEMMA HandlerInv ==
  ASSUME NEW c \in Connections, Inv, HandlerThread(c) \/ Request(c)
  PROVE  Inv'
<1> USE ServerAssumption
        DEF Inv, TypeOK, ThreadInv, PassInv, NumberInv, FaultInv,
            FaultFiresOnRequestN, DamageInv, Running, Joinable, Faults, mainVars
<1>1. CASE Request(c)
  BY <1>1 DEF Request
<1>2. CASE Inject(c)
  <2>1. options.fault \in Faults /\ options.after \in Nat
    OBVIOUS
  <2>2. CASE Fires(number[c])
    <3>1. /\ options.after = number[c] /\ options.fault # "none"
          /\ thread[c] = "counted" /\ fired' = fired + 1
          /\ UNCHANGED <<options, main, scan, allJoined, expired, stop, client,
                         queued, number, slot, count>>
      BY <1>2, <2>1, <2>2 DEF Inject, Fires
    <3>2. PICK p \in {"hung", "slow", "reply"} : thread' = [thread EXCEPT ![c] = p]
      BY <1>2, <2>1, <2>2 DEF Inject
    <3>3. /\ exit = "running" /\ exit' \in {"running", "killed"}
          /\ corrupted' \in BOOLEAN
          /\ exit' = "killed" \/ corrupted' => options.fault \in {"crash", "bad-access"}
      BY <1>2, <2>1, <2>2 DEF Inject, Damage
    <3>4. fired = 0
      BY <3>1
    <3>5. TypeOK' /\ ThreadInv' /\ PassInv'
      BY <2>1, <3>1, <3>2, <3>3
    <3>6. NumberInv' /\ FaultInv' /\ FaultFiresOnRequestN' /\ DamageInv'
      BY <2>1, <3>1, <3>2, <3>3, <3>4
    <3> QED
      BY <3>5, <3>6
  <2>3. CASE ~Fires(number[c])
    BY <1>2, <2>1, <2>3 DEF Inject, Fires
  <2> QED
    BY <2>2, <2>3
<1>3. CASE SlowEnds(c)
  BY <1>3 DEF SlowEnds
<1>4. CASE SendReply(c)
  BY <1>4 DEF SendReply
<1>5. CASE RecvEnds(c)
  BY <1>5 DEF RecvEnds
<1>6. CASE RaiseFlag(c) \/ ThreadEnds(c)
  BY <1>6 DEF RaiseFlag, ThreadEnds
<1> QED
  BY <1>1, <1>2, <1>3, <1>4, <1>5, <1>6 DEF HandlerThread

\* So do the steps of the environment, and a stutter.
LEMMA EnvironmentInv ==
  ASSUME Inv,
         \/ \E c \in Connections : Connect(c) \/ Disconnect(c)
         \/ Expire \/ Signal \/ Corruption
         \/ UNCHANGED serverVars
  PROVE  Inv'
<1> USE ServerAssumption
        DEF Inv, TypeOK, ThreadInv, PassInv, NumberInv, FaultInv,
            FaultFiresOnRequestN, DamageInv, Running, Joinable, Faults, mainVars
<1>1. ASSUME NEW c \in Connections, Connect(c) PROVE Inv'
  BY <1>1 DEF Connect
<1>2. ASSUME NEW c \in Connections, Disconnect(c) PROVE Inv'
  BY <1>2 DEF Disconnect
<1>3. CASE Expire \/ Signal
  <2>1. /\ expired' \in BOOLEAN /\ stop' \in BOOLEAN
        /\ UNCHANGED <<options, main, scan, allJoined, exit, client, queued, thread,
                       number, slot, count, corrupted, fired>>
    BY <1>3 DEF Expire, Signal
  <2> QED
    BY <2>1
<1>4. CASE Corruption
  BY <1>4 DEF Corruption
<1>5. CASE UNCHANGED serverVars
  BY <1>5 DEF serverVars
<1> QED
  BY <1>1, <1>2, <1>3, <1>4, <1>5

--------------------------------------------------------------------------------

\* The inductive invariant holds in every reachable state.
THEOREM Invariance == ServerSpec => []Inv
<1>1. ServerInit => Inv
  BY InitInv
<1>2. Inv /\ [ServerNext]_serverVars => Inv'
  BY MainInv, HandlerInv, EnvironmentInv DEF ServerNext
<1> QED
  BY <1>1, <1>2, PTL DEF ServerSpec

\* Every state the run checks for types is typed, for all constants.
THEOREM TypeCorrect == ServerSpec => []TypeOK
<1>1. Inv => TypeOK
  BY DEF Inv
<1> QED
  BY <1>1, Invariance, PTL

\* run_server returns only after every handler thread has ended and been joined.
THEOREM HandlersEndFirst == ServerSpec => []NothingOutlivesReturn
<1>1. Inv => NothingOutlivesReturn
  BY DEF Inv, TypeOK, ThreadInv, PassInv, Joinable, NothingOutlivesReturn
<1> QED
  BY <1>1, Invariance, PTL

\* The configured fault fires once, on the request it was configured for.
THEOREM OneControlledEvent == ServerSpec => []FaultFiresOnRequestN
<1>1. Inv => FaultFiresOnRequestN
  BY DEF Inv
<1> QED
  BY <1>1, Invariance, PTL

\* Nothing a client does kills the DUT.
THEOREM ClientsCannotKill == ServerSpec => []KilledOnlyByFault
<1>1. Inv => KilledOnlyByFault
  BY DEF Inv, DamageInv, KilledOnlyByFault
<1> QED
  BY <1>1, Invariance, PTL
================================================================================
