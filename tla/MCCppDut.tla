-------------------------------- MODULE MCCppDut --------------------------------
(* The two halves of server.cpp, one at a time: the bytes of one connection,   *)
(* read by either DUT, and the threads of run_server with every fault at       *)
(* start-up, first and second request.                                         *)
EXTENDS CppServer, StreamFraming

VARIABLE half

EveryFault == [fault : Faults, after : 0..2]
NoFault == [fault |-> "none", after |-> 0]

DutInit ==
  /\ half \in {"framing", "server"}
  /\ half # "framing" => stream = <<>>
  /\ Init
  /\ half # "server" => options = NoFault
  /\ ServerInit

DutNext ==
  \/ half = "framing" /\ Next /\ UNCHANGED <<serverVars, half>>
  \/ half = "server" /\ ServerNext /\ UNCHANGED <<vars, half>>

\* The fairness of FairSpec and of FairServerSpec, each for the half that runs.
DutSpec ==
  /\ DutInit
  /\ [][DutNext]_<<serverVars, vars, half>>
  /\ WF_vars(half = "framing" /\ Cpp)
  /\ WF_vars(half = "framing" /\ Py)
  /\ WF_serverVars(half = "server" /\ MainThread)
  /\ WF_serverVars(half = "server" /\ Expire)
  /\ \A c \in Connections : WF_serverVars(half = "server" /\ HandlerThread(c))
================================================================================
