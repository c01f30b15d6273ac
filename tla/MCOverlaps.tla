------------------------------- MODULE MCOverlaps -------------------------------
(* The parts in which requests, processes and replies overlap, one at a time:  *)
(* the two pages, the server processes on one progress file, and a LabClient   *)
(* with the Python DUT.                                                        *)
EXTENDS LessonView, InterviewView, ServerInstances, LabSession

VARIABLE part

\* Every preset at the edges of the delay's range, and manifests with mixed faults, some of
\* them to be refused.
Manifests ==
  LET mixed == [well_formed : {TRUE}, response_delay_ms : {{}},
                drop_connection : {{}, {TRUE}}, malformed_response : {{FALSE}, {TRUE}},
                startup_delay_ms : {{}}, exit_after_requests : {{}, {0}, {3}}]
      plain == [well_formed |-> TRUE, response_delay_ms |-> {250},
                drop_connection |-> {}, malformed_response |-> {},
                startup_delay_ms |-> {0}, exit_after_requests |-> {3}]
  IN  mixed \cup {plain,
                  [plain EXCEPT !.well_formed = FALSE],
                  [plain EXCEPT !.startup_delay_ms = {-1}],
                  [plain EXCEPT !.response_delay_ms = {MaxDelayMs + 1}]}

SomeCommandLines ==
  [fault : Optional(FaultNames),
   fault_delay_ms : {{}, {-1}, {0}, {MaxDelayMs}, {MaxDelayMs + 1}},
   fault_config : {{}}]
  \cup
  [fault : {{}, {"dropped_connection"}}, fault_delay_ms : {{}, {250}},
   fault_config : {{m} : m \in Manifests}]

NoOptions == [fault |-> {}, fault_delay_ms |-> {}, fault_config |-> {}]

OverlapsInit ==
  /\ part \in {"lesson view", "interview view", "instances", "lab"}
  /\ LessonViewInit
  /\ InterviewInit
  /\ InstancesInit
  /\ part # "lab" => args = NoOptions
  /\ Init

OverlapsNext ==
  /\ \/ /\ part = "lesson view" /\ LessonViewNext
        /\ UNCHANGED <<interviewVars, instanceVars, vars>>
     \/ /\ part = "interview view" /\ InterviewNext
        /\ UNCHANGED <<viewVars, instanceVars, vars>>
     \/ /\ part = "instances" /\ InstancesNext
        /\ UNCHANGED <<viewVars, interviewVars, vars>>
     \/ /\ part = "lab" /\ Next
        /\ UNCHANGED <<viewVars, interviewVars, instanceVars>>
  /\ UNCHANGED part
================================================================================
