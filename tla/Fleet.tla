--------------------------------- MODULE Fleet ---------------------------------
(***************************************************************************)
(* A clustered Runtime: every node routes by the ring over its own         *)
(* snapshot of the membership, forwards what is not its own, and serves    *)
(* whatever is delivered to it (src/src/nigrains/runtime.py, cluster.py).  *)
(* Composes Ring and Membership; the life of an activation inside one      *)
(* node is GrainRuntime's and is one set here.                             *)
(***************************************************************************)
EXTENDS Membership, Ring

CONSTANTS
    Call,            \* calls under way at once, anywhere
    NoNode,
    MaxChanges       \* bound: how often nodes start, close, die or lose their listing

ASSUME FleetAssumption ==
    /\ NoNode \notin Node /\ Id # {}
    /\ MaxChanges \in Nat

VARIABLES
    held,            \* node -> identity -> the view that placed it here, {} if none
    call,            \* call -> where it is, and until it is served the view it went by
    closing,         \* nodes whose __aexit__ has emptied the table
    changes          \* what is used of the bound

fleetVars == <<held, call, closing>>
vars == <<memberVars, fleetVars, changes>>

Idle == [at |-> "idle", to |-> NoNode, id |-> CHOOSE i \in Id : TRUE, by |-> {}]

Calls == [at : {"idle", "sent", "serving"}, to : Node \union {NoNode}, id : Id,
          by : SUBSET Node]

TypeOK ==
    /\ MemberTypeOK
    /\ held \in [Node -> [Id -> SUBSET Node]]
    /\ call \in [Call -> Calls]
    /\ closing \subseteq Node
    /\ changes \in 0..MaxChanges

Nothing == [i \in Id |-> {}]

Init ==
    /\ MemberInit
    /\ held = [n \in Node |-> Nothing]
    /\ call = [c \in Call |-> Idle]
    /\ closing = {}
    /\ changes = 0

Up(n) == status[n] # "off"

-----------------------------------------------------------------------------
\* Fault: the receiver decides the placement again.
ServeOrPassOn(c, n) ==
    LET owner == OwnerOf(view[n], call[c].id)
    IN  IF owner = n
        THEN /\ held' = [held EXCEPT ![n][call[c].id] = IF @ = {} THEN call[c].by ELSE @]
             /\ call' = [call EXCEPT ![c].at = "serving"]
        ELSE /\ call' = [call EXCEPT ![c].to = owner]
             /\ UNCHANGED held

\* _dispatch_here: an activation if there is none, and the call is served.
Serve(c, n) ==
    /\ held' = [held EXCEPT ![n][call[c].id] = IF @ = {} THEN call[c].by ELSE @]
    /\ call' = [call EXCEPT ![c].at = "serving", ![c].by = {}]

\* Runtime.call and _dispatch on node n: served here when the ring over n's
\* snapshot says so, sent to the owner otherwise.
Ask(c, n, id) ==
    /\ call[c] = Idle /\ status[n] = "in" /\ n \notin closing
    /\ LET owner == OwnerOf(view[n], id)
           asked == [at |-> "sent", to |-> owner, id |-> id, by |-> view[n]]
       IN  IF owner = n
           THEN /\ call' = [call EXCEPT ![c] = [asked EXCEPT !.at = "serving", !.by = {}]]
                /\ held' = [held EXCEPT ![n][id] = IF @ = {} THEN view[n] ELSE @]
           ELSE /\ call' = [call EXCEPT ![c] = asked]
                /\ UNCHANGED held
    /\ UNCHANGED <<memberVars, changes, closing>>

\* Runtime.deliver: no routing here.
Deliver(c) ==
    /\ call[c].at = "sent" /\ Up(call[c].to)
    /\ Serve(c, call[c].to)
    /\ UNCHANGED <<memberVars, changes, closing>>

\* The call returns or raises, and its caller hears of it.
Finish(c) ==
    /\ call[c].at = "serving"
    /\ call' = [call EXCEPT ![c] = Idle]
    /\ UNCHANGED <<memberVars, changes, held, closing>>

\* Nobody listens on the node a call was sent to: UnreachableNodeError.
Unreachable(c) ==
    /\ call[c].at = "sent" /\ ~Up(call[c].to)
    /\ call' = [call EXCEPT ![c] = Idle]
    /\ UNCHANGED <<memberVars, changes, held, closing>>

Busy(n, i) == \E c \in Call : call[c].at = "serving" /\ call[c].to = n /\ call[c].id = i

\* The sweep: idleness is all that ends an activation, not the loss of its
\* place on the ring.
Collect(n, i) ==
    /\ Up(n) /\ held[n][i] # {} /\ ~Busy(n, i)
    /\ held' = [held EXCEPT ![n][i] = {}]
    /\ UNCHANGED <<memberVars, changes, call, closing>>

Counted == changes < MaxChanges /\ changes' = changes + 1

\* __aexit__ after the drain, which gives up on calls that do not end:
\* everything in the table is deactivated ...
CloseTable(n) ==
    /\ status[n] = "in" /\ n \notin closing /\ Counted
    /\ closing' = closing \union {n}
    /\ held' = [held EXCEPT ![n] = Nothing]
    /\ UNCHANGED <<memberVars, call>>

\* What ends with a process: its table and the calls it was serving.
Ends(n) ==
    /\ held' = [held EXCEPT ![n] = Nothing]
    /\ call' = [c \in Call |-> IF call[c].at = "serving" /\ call[c].to = n THEN Idle ELSE call[c]]
    /\ closing' = closing \ {n}

\* ... and only then does the node leave the membership.
Exit(n) ==
    /\ n \in closing /\ Leave(n)
    /\ Ends(n)
    /\ UNCHANGED changes

Dies(n) == Vanish(n) /\ Counted /\ Ends(n)

Start(n) ==
    /\ Join(n) /\ Counted
    /\ UNCHANGED fleetVars

\* A live node that is late with its lease is not listed until it renews it.
LosesLease(n) ==
    /\ Up(n) /\ n \in listed /\ Lapse({n}) /\ Counted
    /\ UNCHANGED fleetVars

Reads(n) == Read(n) /\ UNCHANGED <<fleetVars, changes>>

Beats(n) == Renew(n) /\ UNCHANGED <<fleetVars, changes>>

Forgotten(n) == ~Up(n) /\ Lapse({n}) /\ UNCHANGED <<fleetVars, changes>>

Next ==
    \/ \E n \in Node :
          \/ Start(n) \/ Reads(n) \/ Beats(n) \/ LosesLease(n) \/ Forgotten(n)
          \/ CloseTable(n) \/ Exit(n) \/ Dies(n)
    \/ \E n \in Node, i \in Id : Collect(n, i)
    \/ \E c \in Call : Deliver(c) \/ Unreachable(c) \/ Finish(c)
    \/ \E c \in Call, n \in Node, i \in Id : Ask(c, n, i)

\* The event loops run: beats and calls go on, and what stays idle is swept.
\* Nobody has to start, to stop, to fail or to ask.
Fairness ==
    /\ \A n \in Node :
          /\ WF_vars(Reads(n)) /\ WF_vars(Beats(n)) /\ WF_vars(Forgotten(n))
          /\ WF_vars(Exit(n))
          /\ \A i \in Id : WF_vars(Collect(n, i))
    /\ \A c \in Call : WF_vars(Deliver(c) \/ Unreachable(c) \/ Finish(c))

Spec == Init /\ [][Next]_vars /\ Fairness

-----------------------------------------------------------------------------
\* No two nodes ever hold an identity on the word of the same view: two
\* activations of it mean that two different snapshots placed it, also when the
\* receiver of a call has read another one since.
OneViewOneOwner ==
    \A m, n \in Node, i \in Id :
        held[m][i] # {} /\ held[m][i] = held[n][i] => m = n

\* A change of view moves an identity only to a node that joined or away from
\* one that left; nothing shuffles among those that stayed.
MovesAreMinimal ==
    [][\A n \in Node : view'[n] # view[n] => \A i \in Id :
          LET old == OwnerOf(view[n], i)  new == OwnerOf(view'[n], i)
          IN  old # new => old \notin view'[n] \/ new \notin view[n]]_vars

\* When nodes stop coming and going, every identity ends up on its owner among
\* the nodes that run and nowhere else, although nothing hands an activation
\* over: the strays lose their callers and are found by the sweep.
SettlesOnOwners ==
    <>[](\A n \in Node, i \in Id :
            held[n][i] # {} => n = OwnerOf({m \in Node : Up(m)}, i))

\* A runtime that has deactivated everything on its way out holds nothing.
NothingLeftBehind == \A n \in closing : held[n] = Nothing

=============================================================================
