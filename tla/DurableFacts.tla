------------------------------ MODULE DurableFacts ------------------------------
(***************************************************************************)
(* What the progress store promises its clients, without records, files,   *)
(* or the methods that get there: facts are learned one request after      *)
(* another; what is known is made durable as a whole or not at all; only   *)
(* what is durable is confirmed; a new process knows what was durable.     *)
(***************************************************************************)
CONSTANT Entries

VARIABLES
  known,      \* facts the running process knows
  durable,    \* facts a restart will find
  confirmed,  \* facts some reply has confirmed
  running

vars == <<known, durable, confirmed, running>>

Init == known = {} /\ durable = {} /\ confirmed = {} /\ running = TRUE

\* A request forgets nothing.  It is saved, and may be confirmed, or it is neither.
Request ==
  /\ running
  /\ known' \in SUBSET Entries
  /\ known \subseteq known'
  /\ \/ /\ durable' = known'
        /\ confirmed' \in SUBSET known'
        /\ confirmed \subseteq confirmed'
     \/ UNCHANGED <<durable, confirmed>>
  /\ UNCHANGED running

Stop == running /\ running' = FALSE /\ known' = {} /\ UNCHANGED <<durable, confirmed>>

Start == ~running /\ running' = TRUE /\ known' = durable /\ UNCHANGED <<durable, confirmed>>

Next == Request \/ Stop \/ Start

Spec == Init /\ [][Next]_vars
================================================================================
