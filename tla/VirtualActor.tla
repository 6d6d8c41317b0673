------------------------------ MODULE VirtualActor ------------------------------
(***************************************************************************)
(* What the life cycle of src/src/nigrains/runtime.py promises of each     *)
(* identity, whoever calls it and whatever fails: it is activated before   *)
(* it serves, a call it has accepted keeps it activated, it takes one turn *)
(* at a time unless it is reentrant, its schedules run while it is         *)
(* activated, and it is deactivated only when nothing of this is going on. *)
(* There are no records, no table, no locks and no waiters here.           *)
(***************************************************************************)

CONSTANTS
    Caller,          \* tasks that call grains
    Grain,           \* identities
    Reentrant        \* those that take several turns at once

VARIABLES
    phase,           \* "cold" | "warming" | "warm"
    inside,          \* the calls an activation has accepted and not yet ended
    serving,         \* those that have their turn
    ticking          \* the identities with a schedule at work

vars == <<phase, inside, serving, ticking>>

Init ==
    /\ phase = [g \in Grain |-> "cold"]
    /\ inside = [g \in Grain |-> {}]
    /\ serving = [g \in Grain |-> {}]
    /\ ticking = {}

TurnIsFree(g) == g \in Reentrant \/ serving[g] = {}

\* Somebody begins to activate g.
Warm(g) ==
    /\ phase[g] = "cold"
    /\ phase' = [phase EXCEPT ![g] = "warming"]
    /\ UNCHANGED <<inside, serving, ticking>>

\* The activation fails or is cancelled: g is as if nobody had tried.
GiveUp(g) ==
    /\ phase[g] = "warming"
    /\ phase' = [phase EXCEPT ![g] = "cold"]
    /\ UNCHANGED <<inside, serving, ticking>>

\* Caller c is let in, and has its turn at once or queues for it.
Enter(c, g) ==
    /\ \A h \in Grain : c \notin inside[h]
    /\ inside' = [inside EXCEPT ![g] = @ \union {c}]
    /\ \/ TurnIsFree(g) /\ serving' = [serving EXCEPT ![g] = @ \union {c}]
       \/ UNCHANGED serving

\* The activation has succeeded; who built it is the first to be let in.
Open(c, g) ==
    /\ phase[g] = "warming"
    /\ phase' = [phase EXCEPT ![g] = "warm"]
    /\ Enter(c, g)
    /\ UNCHANGED ticking

Accept(c, g) ==
    /\ phase[g] = "warm"
    /\ Enter(c, g)
    /\ UNCHANGED <<phase, ticking>>

TakeTurn(c, g) ==
    /\ c \in inside[g] \ serving[g]
    /\ TurnIsFree(g)
    /\ serving' = [serving EXCEPT ![g] = @ \union {c}]
    /\ UNCHANGED <<phase, inside, ticking>>

\* A call ends, with its turn or without having had one.
Exit(c, g) ==
    /\ c \in inside[g]
    /\ inside' = [inside EXCEPT ![g] = @ \ {c}]
    /\ serving' = [serving EXCEPT ![g] = @ \ {c}]
    /\ UNCHANGED <<phase, ticking>>

Tick(g) ==
    /\ phase[g] = "warm"
    /\ ticking' = IF g \in ticking THEN ticking \ {g} ELSE ticking \union {g}
    /\ UNCHANGED <<phase, inside, serving>>

\* deactivate() begins: the grain is given no more work of any kind.
Cool(g) ==
    /\ phase[g] = "warm"
    /\ inside[g] = {} /\ g \notin ticking
    /\ phase' = [phase EXCEPT ![g] = "cold"]
    /\ UNCHANGED <<inside, serving, ticking>>

Next ==
    \/ \E g \in Grain : Warm(g) \/ GiveUp(g) \/ Tick(g) \/ Cool(g)
    \/ \E c \in Caller, g \in Grain :
          Open(c, g) \/ Accept(c, g) \/ TakeTurn(c, g) \/ Exit(c, g)

Spec == Init /\ [][Next]_vars

=============================================================================
