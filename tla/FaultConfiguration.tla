--------------------------- MODULE FaultConfiguration ---------------------------
(***************************************************************************)
(* How the Python DUT turns its command line into the one FaultConfig it   *)
(* runs with: a preset with a delay, or a manifest file, never both.       *)
(*                                                                         *)
(* An option is a set of at most one value, {} when it is not given (an    *)
(* integer of a manifest: or null).  A resolution is a set too: {} is a    *)
(* refusal (SystemExit), before the log file is opened.                    *)
(***************************************************************************)
EXTENDS Integers

Optional(S) == {option \in SUBSET S : \A v, w \in option : v = w}

\* The value of an option, or a default.
OrElse(option, default) ==
  IF option = {} THEN default ELSE CHOOSE v \in option : TRUE

MaxDelayMs == 86400000

DefaultFaultDelayMs == 400

FaultNames == {"delayed_response", "dropped_connection", "malformed_response",
               "startup_delay", "process_termination"}

FaultConfig ==
  [response_delay_ms : Nat, drop_connection : BOOLEAN, malformed_response : BOOLEAN,
   startup_delay_ms : Nat, exit_after_requests : Optional(Nat)]

NoFault ==
  [response_delay_ms |-> 0, drop_connection |-> FALSE, malformed_response |-> FALSE,
   startup_delay_ms |-> 0, exit_after_requests |-> {}]

\* The file as an operator wrote it.  well_formed: it can be read, is one JSON
\* object without a repeated or unknown key, its booleans are true or false and
\* its numbers integers.
Manifest ==
  [well_formed : BOOLEAN,
   response_delay_ms : Optional(Int), drop_connection : Optional(BOOLEAN),
   malformed_response : Optional(BOOLEAN), startup_delay_ms : Optional(Int),
   exit_after_requests : Optional(Int)]

CommandLine ==
  [fault : Optional(FaultNames), fault_delay_ms : Optional(Int),
   fault_config : Optional(Manifest)]

DelayInRange(ms) == 0 <= ms /\ ms <= MaxDelayMs

\* A count of zero would be neither "off" nor a number of requests.
CountInRange(option) == \A n \in option : n >= 1

LoadFaultConfig(m) ==
  IF /\ m.well_formed
     /\ \A ms \in m.response_delay_ms \cup m.startup_delay_ms : DelayInRange(ms)
     /\ CountInRange(m.exit_after_requests)
  THEN {[response_delay_ms |-> OrElse(m.response_delay_ms, 0),
         drop_connection |-> OrElse(m.drop_connection, FALSE),
         malformed_response |-> OrElse(m.malformed_response, FALSE),
         startup_delay_ms |-> OrElse(m.startup_delay_ms, 0),
         exit_after_requests |-> m.exit_after_requests]}
  ELSE {}

\* Mutant: zero is accepted for every preset.
DelayServes_Always(name, ms) == DelayInRange(ms)

\* A timing preset with a zero delay would disable the fault it asks for.
DelayServes(name, ms) ==
  /\ DelayInRange(ms)
  /\ name \in {"delayed_response", "startup_delay"} => ms > 0

Preset(name, ms) ==
  CASE name = "delayed_response" -> [NoFault EXCEPT !.response_delay_ms = ms]
    [] name = "dropped_connection" -> [NoFault EXCEPT !.drop_connection = TRUE]
    [] name = "malformed_response" -> [NoFault EXCEPT !.malformed_response = TRUE]
    [] name = "startup_delay" -> [NoFault EXCEPT !.startup_delay_ms = ms]
    [] name = "process_termination" -> [NoFault EXCEPT !.exit_after_requests = {1}]

ResolveFaultConfig(args) ==
  LET delay == OrElse(args.fault_delay_ms, DefaultFaultDelayMs)
  IN  CASE args.fault_config # {} ->
             IF args.fault = {} /\ args.fault_delay_ms = {}
             THEN UNION {LoadFaultConfig(m) : m \in args.fault_config}
             ELSE {}
        [] args.fault_config = {} /\ args.fault = {} ->
             IF DelayInRange(delay) THEN {NoFault} ELSE {}
        [] OTHER ->
             {Preset(name, delay) : name \in {n \in args.fault : DelayServes(n, delay)}}

--------------------------------------------------------------------------------

\* What the command line asks for, read off the options the operator typed: the
\* preset's name, or the name of every fault the manifest switches on.
AskedFor(args) ==
  args.fault \cup
  UNION {{name \in FaultNames :
            \/ name = "delayed_response" /\ m.response_delay_ms \notin {{}, {0}}
            \/ name = "dropped_connection" /\ m.drop_connection = {TRUE}
            \/ name = "malformed_response" /\ m.malformed_response = {TRUE}
            \/ name = "startup_delay" /\ m.startup_delay_ms \notin {{}, {0}}
            \/ name = "process_termination" /\ m.exit_after_requests # {}}
         : m \in args.fault_config}
================================================================================
