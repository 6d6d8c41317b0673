------------------------------ MODULE Membership ------------------------------
(***************************************************************************)
(* What routing relies on, the Membership port of                          *)
(* src/src/nigrains/cluster.py: every node reads a snapshot of its own     *)
(* that somebody refreshes in the background.  A node is listed because it *)
(* says so; when it stops saying so it is listed for a while longer, and   *)
(* what the others have read lasts until they read again.  A read goes     *)
(* through the listing bit by bit, while it changes: what it brings need   *)
(* not have been listed at any one time.  LeaseMembership implements this  *)
(* and Fleet routes over it.                                               *)
(***************************************************************************)
EXTENDS Nodes, FiniteSetsExt

VARIABLES
    status,          \* "off" | "joining" | "in"
    listed,          \* the nodes that are listed
    view,            \* members(): each node's snapshot
    unsure           \* node -> those whose listing has changed since its last read

memberVars == <<status, listed, view, unsure>>

MemberTypeOK ==
    /\ status \in [Node -> {"off", "joining", "in"}]
    /\ listed \subseteq Node
    /\ view \in [Node -> SUBSET Node] /\ \A n \in Node : n \in view[n]
    /\ unsure \in [Node -> SUBSET Node]

MemberInit ==
    /\ status = [n \in Node |-> "off"]
    /\ listed = {}
    /\ view = [n \in Node |-> {n}]
    /\ unsure = [n \in Node |-> {}]

\* The listing changes for some nodes, and every read under way may have come
\* past them or not.
Changes(nodes) ==
    unsure' = [n \in Node |-> IF status'[n] = "off" THEN {} ELSE unsure[n] \union (nodes \ {n})]

\* start(), up to its first read.
Join(n) ==
    /\ status[n] = "off"
    /\ status' = [status EXCEPT ![n] = "joining"]
    /\ listed' = listed \union {n}
    /\ Changes({n} \ listed)
    /\ UNCHANGED view

\* Fault: a snapshot is what the read found and no more.
FoundAlone(n, found) == found

\* The reader is a member whether or not it is listed.
Snapshot(n, found) == found \union {n}

\* A read, of start() or in the background, ends: it is right about every node
\* whose listing has stayed as it was.
Read(n) ==
    /\ status[n] # "off"
    /\ status' = [status EXCEPT ![n] = "in"]
    /\ \E wrong \in SUBSET unsure[n] :
          view' = [view EXCEPT ![n] = Snapshot(n, SymDiff(listed, wrong))]
    /\ unsure' = [unsure EXCEPT ![n] = {}]
    /\ UNCHANGED listed

\* Fault: only a listing that is still there is renewed.
RenewIfListed(n) ==
    /\ status[n] = "in" /\ n \in listed
    /\ UNCHANGED memberVars

\* A node that runs says again that it does.
Renew(n) ==
    /\ status[n] = "in" /\ listed' = listed \union {n}
    /\ UNCHANGED <<status, view>>
    /\ Changes({n} \ listed)

\* Nodes that have not said so for too long, whether they run or not.
Lapse(gone) ==
    /\ listed' = listed \ gone
    /\ UNCHANGED <<status, view>>
    /\ Changes(gone \intersect listed)

\* stop(), with which the process ends: the next one starts from a snapshot of
\* its own node alone.
Leave(n) ==
    /\ status[n] = "in"
    /\ status' = [status EXCEPT ![n] = "off"]
    /\ listed' = listed \ {n}
    /\ view' = [view EXCEPT ![n] = {n}]
    /\ Changes({n} \intersect listed)

\* A process that dies, or a start() or stop() that fails.
Vanish(n) ==
    /\ status[n] # "off"
    /\ status' = [status EXCEPT ![n] = "off"]
    /\ view' = [view EXCEPT ![n] = {n}]
    /\ Changes({})
    /\ UNCHANGED listed

MemberNext ==
    \/ \E n \in Node : Join(n) \/ Read(n) \/ Renew(n) \/ Leave(n) \/ Vanish(n)
    \/ \E gone \in SUBSET Node : Lapse(gone)

MemberSpec == MemberInit /\ [][MemberNext]_memberVars

=============================================================================
