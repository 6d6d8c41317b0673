---------------------------- MODULE LeaseMembership ----------------------------
(***************************************************************************)
(* ValkeyMembership of src/src/nigrains/valkey.py: every node keeps a key  *)
(* that expires and re-reads the fleet once per heartbeat.  What routing   *)
(* reads is the snapshot of the last read.                                 *)
(*                                                                         *)
(* Time is counted in ticks.  An announcement is answered within the tick  *)
(* in which it is sent or fails, and a beat that is late, because the      *)
(* process was paused or the store slow, is a beat that failed.  A read    *)
(* goes page by page and may take longer, while others come, go and expire *)
(* between its pages.                                                      *)
(***************************************************************************)
EXTENDS Nodes, FiniteSetsExt

CONSTANTS
    Second,          \* ticks in a second
    Lease,           \* the lease in ticks, as it was asked for
    Heartbeat,       \* ticks that a beat sleeps
    Scan,            \* the ticks that a read may take
    MaxStarts,       \* bound: how often nodes start, over all of them
    MaxFaults        \* bound: failed round trips and killed processes

\* int(self._lease): a key lives for whole seconds.
KeyTicks == (Lease \div Second) * Second

ASSUME LeaseAssumption ==
    /\ Second \in Nat \ {0} /\ Lease \in Nat /\ Heartbeat \in Nat \ {0} /\ Scan \in Nat
    /\ Heartbeat < Lease                  \* what __init__ checks
    /\ KeyTicks > 0                       \* SET refuses an expiry of zero
    /\ MaxStarts \in Nat /\ MaxFaults \in Nat

VARIABLES
    pc,              \* "off" | "joining" | "asleep" | "reading": start() and _beat()
    key,             \* ticks the node's key in the store has left, 0: no key
    wait,            \* ticks left of the sleep between two beats, or for the read
    unread, seen,    \* the scan: nodes it has still to come past, and what it found
    view,            \* _members, the snapshot
    unsure,          \* history: nodes that came or went since the last read ended
    lost, blind,     \* history: rounds in a row that did not announce, did not read
    silent,          \* history: ticks since the node went off
    starts, faults   \* what is used of the two bounds

vars == <<pc, key, wait, unread, seen, view, unsure, lost, blind, silent, starts, faults>>

\* A sleep and a read.
Round == Heartbeat + Scan

\* Bound on silent: past it nothing depends on its value.
Longest == KeyTicks + Scan + (MaxFaults + 1) * Round + 1

TypeOK ==
    /\ pc \in [Node -> {"off", "joining", "asleep", "reading"}]
    /\ key \in [Node -> 0..KeyTicks]
    /\ wait \in [Node -> 0..Round]
    /\ unread \in [Node -> SUBSET Node] /\ seen \in [Node -> SUBSET Node]
    /\ view \in [Node -> SUBSET Node] /\ unsure \in [Node -> SUBSET Node]
    /\ lost \in [Node -> 0..MaxFaults] /\ blind \in [Node -> 0..MaxFaults]
    /\ silent \in [Node -> 0..Longest]
    /\ starts \in 0..MaxStarts /\ faults \in 0..MaxFaults

Running(n) == pc[n] \in {"asleep", "reading"}

Reading(n) == pc[n] \in {"joining", "reading"}

Init ==
    /\ pc = [n \in Node |-> "off"]
    /\ key = [n \in Node |-> 0]
    /\ wait = [n \in Node |-> 0]
    /\ unread = [n \in Node |-> {}] /\ seen = [n \in Node |-> {}]
    /\ view = [n \in Node |-> {n}] /\ unsure = [n \in Node |-> {}]
    /\ lost = [n \in Node |-> 0] /\ blind = [n \in Node |-> 0]
    /\ silent = [n \in Node |-> Longest]
    /\ starts = 0 /\ faults = 0

Listed == {m \in Node : key[m] > 0}

-----------------------------------------------------------------------------
Fault == faults < MaxFaults /\ faults' = faults + 1

\* Fault: the key is written without renewing what it has left.
AnnouncedOnce(n) == IF key[n] = 0 THEN KeyTicks ELSE key[n]

\* Fault: the lease is not cut to whole seconds.
AnnouncedInTicks(n) == Lease

\* _announce: the key of n is written with a whole lease.
Announced(n) == KeyTicks

\* The history of a step.
Tracked ==
    unsure' = [n \in Node |->
                 IF pc'[n] = "off" THEN {}
                 ELSE unsure[n] \union (SymDiff(Listed, Listed') \ {n})]

\* A scan begins.
Scans(n) ==
    /\ unread' = [unread EXCEPT ![n] = Node \ {n}]
    /\ seen' = [seen EXCEPT ![n] = {}]
    /\ wait' = [wait EXCEPT ![n] = Scan]

\* A round ends, its scan over or given up, and the beat sleeps.
Sleeps(n) ==
    /\ pc' = [pc EXCEPT ![n] = "asleep"]
    /\ unread' = [unread EXCEPT ![n] = {}]
    /\ seen' = [seen EXCEPT ![n] = {}]
    /\ wait' = [wait EXCEPT ![n] = Heartbeat]

\* Fault: start() reads first and leaves the announcement to the first beat.
JoinsUnannounced(n) ==
    /\ pc[n] = "off" /\ starts < MaxStarts
    /\ starts' = starts + 1
    /\ pc' = [pc EXCEPT ![n] = "joining"]
    /\ Scans(n)
    /\ silent' = [silent EXCEPT ![n] = 0]
    /\ UNCHANGED <<key, view, unsure, lost, blind, faults>>

\* start(): the first announcement, after which the scan begins; when it fails,
\* start() raises.
Join(n) ==
    /\ pc[n] = "off" /\ starts < MaxStarts
    /\ starts' = starts + 1
    /\ pc' = [pc EXCEPT ![n] = "joining"]
    /\ key' = [key EXCEPT ![n] = Announced(n)]
    /\ Scans(n)
    /\ silent' = [silent EXCEPT ![n] = 0]
    /\ UNCHANGED <<view, lost, blind, faults>>
    /\ Tracked

\* A page brings what is in a part of the key space as it is now.
Page(n, m) ==
    /\ Reading(n) /\ m \in unread[n]
    /\ unread' = [unread EXCEPT ![n] = @ \ {m}]
    /\ seen' = [seen EXCEPT ![n] = @ \union ({m} \intersect Listed)]
    /\ UNCHANGED <<pc, key, wait, view, unsure, lost, blind, silent, starts, faults>>

\* Fault: what was seen before is kept.
ReadAdds(n) == view[n] \union seen[n] \union {n}

\* _refresh: what the scan found, and this node whatever the store says.
Read(n) == seen[n] \union {n}

\* The scan of start(), or of a beat, has come round.
Refresh(n) ==
    /\ Reading(n) /\ unread[n] = {}
    /\ view' = [view EXCEPT ![n] = Read(n)]
    /\ unsure' = [unsure EXCEPT ![n] = {}]
    /\ blind' = [blind EXCEPT ![n] = 0]
    /\ Sleeps(n)
    /\ UNCHANGED <<key, lost, silent, starts, faults>>

\* A beat announces, and scans.
Beat(n) ==
    /\ pc[n] = "asleep" /\ wait[n] = 0
    /\ key' = [key EXCEPT ![n] = Announced(n)]
    /\ lost' = [lost EXCEPT ![n] = 0]
    /\ pc' = [pc EXCEPT ![n] = "reading"]
    /\ Scans(n)
    /\ UNCHANGED <<view, blind, silent, starts, faults>>
    /\ Tracked

\* An announcement that fails, or whose answer is lost: logged, and the read
\* of this round is skipped with it.
BeatFails(n) ==
    /\ pc[n] = "asleep" /\ wait[n] = 0 /\ Fault
    /\ \/ UNCHANGED key
       \/ key' = [key EXCEPT ![n] = Announced(n)]
    /\ lost' = [lost EXCEPT ![n] = @ + 1] /\ blind' = [blind EXCEPT ![n] = @ + 1]
    /\ Sleeps(n)
    /\ UNCHANGED <<view, silent, starts>>
    /\ Tracked

\* A process ends, and its snapshot with it: the next one starts with itself.
Gone(n) ==
    /\ pc' = [pc EXCEPT ![n] = "off"]
    /\ unread' = [unread EXCEPT ![n] = {}]
    /\ seen' = [seen EXCEPT ![n] = {}]
    /\ wait' = [wait EXCEPT ![n] = 0]
    /\ view' = [view EXCEPT ![n] = {n}]
    /\ lost' = [lost EXCEPT ![n] = 0] /\ blind' = [blind EXCEPT ![n] = 0]
    /\ Tracked

\* A page that fails: logged in a beat, raised out of start(), which leaves the
\* key behind.
ReadFails(n) ==
    /\ Fault
    /\ UNCHANGED key
    /\ \/ /\ pc[n] = "reading"
          /\ Sleeps(n)
          /\ blind' = [blind EXCEPT ![n] = @ + 1]
          /\ UNCHANGED <<view, unsure, lost>>
       \/ /\ pc[n] = "joining"
          /\ Gone(n)
    /\ UNCHANGED <<silent, starts>>

\* stop(): the beat is cancelled wherever it is and the key deleted.
Leave(n) ==
    /\ Running(n)
    /\ key' = [key EXCEPT ![n] = 0]
    /\ Gone(n)
    /\ UNCHANGED <<silent, starts, faults>>

\* stop() whose delete fails, which is suppressed, or a process that dies:
\* the key stays until it expires.
Vanish(n) ==
    /\ pc[n] # "off" /\ Fault
    /\ UNCHANGED key
    /\ Gone(n)
    /\ UNCHANGED <<silent, starts>>

\* Something a node does before time goes on.
Due(n) == pc[n] # "off" /\ wait[n] = 0

Down(x) == IF x = 0 THEN 0 ELSE x - 1

Tick ==
    /\ \A n \in Node : ~Due(n)
    /\ \E n \in Node : pc[n] # "off" \/ key[n] > 0
    /\ key' = [n \in Node |-> Down(key[n])]
    /\ wait' = [n \in Node |-> Down(wait[n])]
    /\ silent' = [n \in Node |->
                    IF pc[n] = "off" /\ silent[n] < Longest THEN silent[n] + 1 ELSE silent[n]]
    /\ UNCHANGED <<pc, unread, seen, view, lost, blind, starts, faults>>
    /\ Tracked

Next ==
    \/ Tick
    \/ \E n \in Node :
          \/ Join(n) \/ Refresh(n) \/ Beat(n) \/ BeatFails(n)
          \/ ReadFails(n) \/ Leave(n) \/ Vanish(n)
          \/ \E m \in Node : Page(n, m)

\* Time passes, and a node that is due takes its step: the beat is a task of
\* an event loop that runs.  Nobody has to start, to stop or to fail.
Fairness ==
    /\ WF_vars(Tick)
    /\ \A n \in Node :
          WF_vars(Refresh(n) \/ \E m \in Node : Page(n, m)) /\ WF_vars(Beat(n))

Spec == Init /\ [][Next]_vars /\ Fairness

-----------------------------------------------------------------------------
\* A node that runs is in the store as long as the beats it lost in a row, the
\* sleep before the next one and a read leave a second of the lease it asked for:
\* the hazard of int() in _announce, of beats that fail and of slow reads.
StaysListed ==
    \A n \in Node :
        Running(n) /\ (lost[n] + 1) * Heartbeat + Scan + Second <= Lease => key[n] > 0

\* What DEFAULT_HEARTBEAT promises of a heartbeat of a third of the lease: TLC
\* finds a node that has lost two beats and is not in the store.
TwoMayBeLost ==
    3 * Heartbeat <= Lease =>
        \A n \in Node : Running(n) /\ lost[n] <= 2 => key[n] > 0

\* What __init__ promises of any heartbeat below the lease: with a lease of 5
\* ticks, seconds of 3 and a heartbeat of 4 TLC finds a node that has lost no beat
\* and drops out between two.
NoneLostBetweenBeats ==
    \A n \in Node : Running(n) /\ lost[n] = 0 => key[n] > 0

\* A node that went off without a word is out of every snapshot after the life
\* of its key, the rest of the read that found it and one round, and one more for
\* every round the reader lost: nobody routes to the dead for longer.
GoneInTime ==
    \A m, n \in Node :
        Running(m) /\ pc[n] = "off" /\ n \in view[m]
            => silent[n] <= KeyTicks + Scan + (blind[m] + 1) * Round

\* When nodes stop coming, going and failing, every node that runs sees exactly
\* the nodes that run, after lost beats, dead processes and torn reads alike:
\* the fleet agrees with itself again, so placement does.  It takes a key that
\* outlives a round.
ViewsConverge ==
    <>[](\A n \in Node : Running(n) => view[n] = {m \in Node : Running(m)})

-----------------------------------------------------------------------------
Port == INSTANCE Membership WITH
    status <- [n \in Node |-> IF Running(n) THEN "in" ELSE pc[n]],
    listed <- Listed

\* The leases are a membership as routing understands it.  Leaving and dying,
\* a beat whose answer was lost and a key that ran out under a live node are
\* all steps the port allows, and no read invents, keeps or drops a node but
\* those that came or went since the one before.
ImplementsMembership == Port!MemberSpec

=============================================================================
