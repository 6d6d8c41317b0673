------------------------------ MODULE AtomicState ------------------------------
(***************************************************************************)
(* What src/src/nigrains/state.py promises of one grain's state, whoever   *)
(* writes it: one value, to which every change is applied whole, once, and *)
(* on top of all the changes before it.  A change somebody was told had    *)
(* been saved stays until somebody clears the state.                       *)
(***************************************************************************)

CONSTANT Item          \* the changes that can be made, each adding itself

VARIABLES
    data,              \* the state: the changes that are in it
    erased,            \* those that were in it when it was cleared
    acknowledged       \* those whose save() returned

vars == <<data, erased, acknowledged>>

Init == data = {} /\ erased = {} /\ acknowledged = {}

Add(i) ==
    /\ i \notin data \union erased
    /\ data' = data \union {i}
    /\ UNCHANGED <<erased, acknowledged>>

Clear ==
    /\ data' = {}
    /\ erased' = erased \union data
    /\ UNCHANGED acknowledged

Acknowledge(i) ==
    /\ i \in data \union erased
    /\ acknowledged' = acknowledged \union {i}
    /\ UNCHANGED <<data, erased>>

Next == Clear \/ \E i \in Item : Add(i) \/ Acknowledge(i)

Spec == Init /\ [][Next]_vars

=============================================================================
