------------------------------ MODULE GrainState ------------------------------
(***************************************************************************)
(* The persistent state of one grain: src/src/nigrains/state.py, with the  *)
(* attachment of its handle in runtime.py.  Several activations of the     *)
(* grain may be alive at once (a partition, an eviction that raced), and   *)
(* one that is reentrant runs several calls on one handle; each reads,     *)
(* saves and clears through the store.                                     *)
(*                                                                         *)
(* The store is the port StateStore with the behaviour of                  *)
(* InMemoryStateStore.  Every operation on it is awaited, so a call may be *)
(* suspended between asking and being answered, other calls run meanwhile, *)
(* and a call that is cancelled there leaves a request that may still be   *)
(* carried out.                                                            *)
(*                                                                         *)
(* Data is a set of items, and a call adds one item of its own to what its *)
(* handle holds: the shape of Stubborn.add in tests/test_state.py.  Data   *)
(* is a value here; that the in-memory store hands out the object itself   *)
(* is outside this module.                                                 *)
(***************************************************************************)
EXTENDS Naturals, FiniteSets

CONSTANTS
    Call,            \* tasks running a method of the grain
    Handle,          \* activations of the grain, each with its GrainState
    Interleaved,     \* those of a reentrant class
    Item,            \* what the calls add; each item is asked for once
    Interrupts,      \* whether awaits may be cancelled
    None

ASSUME HandlesAssumption ==
    /\ None \notin Handle /\ None \notin Item
    /\ Interleaved \subseteq Handle
    /\ Interrupts \in BOOLEAN

VARIABLES
    row,             \* the store's row, Nothing when there is none
    next,            \* _next, the last version given
    attached,        \* the activations that have a handle
    handle,          \* GrainState.data and version
    pc,              \* what the call does, or how it ended
    of,              \* the activation it runs on
    item,            \* what it adds
    wire,            \* its request: asked, then stored or refused
    paper,           \* what the request is based on; once stored, what was answered
    late,            \* requests whose caller has been cancelled
    used,            \* the items that were asked for
    acknowledged, erased   \* history: saves that returned, items that were cleared

store == <<row, next, erased>>
calls == <<pc, of, item, wire, paper, used>>
vars == <<store, attached, handle, calls, late, acknowledged>>

\* Version 0 stands for None: there is nothing.
Stored == [data : SUBSET Item, version : Nat]
Nothing == [data |-> {}, version |-> 0]

Busy == {"saving", "reloading", "clearing"}
Ended == {"idle", "saved", "cleared", "refused", "interrupted"}

\* Every variable has its type, and nobody runs on a handle that is gone.
TypeOK ==
    /\ row \in Stored /\ next \in Nat
    /\ attached \subseteq Handle
    /\ handle \in [Handle -> Stored]
    /\ pc \in [Call -> Busy \union Ended]
    /\ of \in [Call -> Handle \union {None}]
    /\ item \in [Call -> Item \union {None}]
    /\ wire \in [Call -> {"silent", "asked", "stored", "refused"}]
    /\ paper \in [Call -> Stored]
    /\ late \subseteq [what : {"saving", "clearing"}, item : Item \union {None}, base : Stored]
    /\ used \subseteq Item /\ acknowledged \subseteq Item /\ erased \subseteq Item
    /\ \A c \in Call : pc[c] \in Busy => of[c] \in attached

Init ==
    /\ row = Nothing /\ next = 0
    /\ attached = {}
    /\ handle = [h \in Handle |-> Nothing]
    /\ pc = [c \in Call |-> "idle"]
    /\ of = [c \in Call |-> None]
    /\ item = [c \in Call |-> None]
    /\ wire = [c \in Call |-> "silent"]
    /\ paper = [c \in Call |-> Nothing]
    /\ late = {}
    /\ used = {} /\ acknowledged = {} /\ erased = {}

-----------------------------------------------------------------------------
(******************************* The handle ********************************)

\* The handle is attached with what the store held when it was read; nobody uses it before
\* the read is over, so the read and the attachment are one step.
Activate(h) ==
    /\ h \notin attached
    /\ attached' = attached \union {h}
    /\ handle' = [handle EXCEPT ![h] = row]
    /\ UNCHANGED <<store, calls, late, acknowledged>>

\* Fault: the activation ends under a call.
DeactivateBusy(h) ==
    /\ h \in attached
    /\ attached' = attached \ {h}
    /\ handle' = [handle EXCEPT ![h] = Nothing]
    /\ UNCHANGED <<store, calls, late, acknowledged>>

\* The activation ends, which the runtime sees to happen under no call.
Deactivate(h) ==
    /\ h \in attached
    /\ \A c \in Call : of[c] # h
    /\ attached' = attached \ {h}
    /\ handle' = [handle EXCEPT ![h] = Nothing]
    /\ UNCHANGED <<store, calls, late, acknowledged>>

\* The call sends a request based on what it knows and awaits the answer.
Asks(c, what, base) ==
    /\ pc' = [pc EXCEPT ![c] = what]
    /\ wire' = [wire EXCEPT ![c] = "asked"]
    /\ paper' = [paper EXCEPT ![c] = base]

Ends(c, how) ==
    /\ pc' = [pc EXCEPT ![c] = how]
    /\ of' = [of EXCEPT ![c] = None]
    /\ item' = [item EXCEPT ![c] = None]
    /\ wire' = [wire EXCEPT ![c] = "silent"]
    /\ paper' = [paper EXCEPT ![c] = Nothing]
    /\ UNCHANGED used

\* A call gets its turn.
Enters(c, h) ==
    /\ pc[c] \in Ended
    /\ h \in attached
    /\ h \in Interleaved \/ \A d \in Call : of[d] # h
    /\ of' = [of EXCEPT ![c] = h]
    /\ UNCHANGED <<store, attached, handle, late, acknowledged>>

Save(c, h, i) ==
    /\ i \notin used
    /\ Enters(c, h)
    /\ item' = [item EXCEPT ![c] = i]
    /\ used' = used \union {i}
    /\ Asks(c, "saving", handle[h])

Clear(c, h) ==
    /\ Enters(c, h)
    /\ Asks(c, "clearing", handle[h])
    /\ UNCHANGED <<item, used>>

\* save() got its version: the handle takes version and data in one segment.
SaveReturns(c) ==
    /\ pc[c] = "saving" /\ wire[c] = "stored"
    /\ handle' = [handle EXCEPT ![of[c]] = paper[c]]
    /\ acknowledged' = acknowledged \union {item[c]}
    /\ Ends(c, "saved")
    /\ UNCHANGED <<store, attached, late>>

\* ConcurrentChange out of save(): the handle is left as it was, the grain gives up or
\* asks to read again.
SaveConflicts(c) ==
    /\ pc[c] = "saving" /\ wire[c] = "refused"
    /\ \/ Ends(c, "refused")
       \/ Asks(c, "reloading", Nothing) /\ UNCHANGED <<of, item, used>>
    /\ UNCHANGED <<store, attached, handle, late, acknowledged>>

\* Fault: the reload takes the data and not the version.
ReloadKeepsVersion(c) ==
    /\ pc[c] = "reloading" /\ wire[c] = "stored"
    /\ handle' = [handle EXCEPT ![of[c]].data = paper[c].data]
    /\ Asks(c, "saving", handle'[of[c]])
    /\ UNCHANGED <<store, attached, of, item, used, late, acknowledged>>

\* reload() returns, and the grain saves its item on top of what it got.
ReloadReturns(c) ==
    /\ pc[c] = "reloading" /\ wire[c] = "stored"
    /\ handle' = [handle EXCEPT ![of[c]] = paper[c]]
    /\ Asks(c, "saving", paper[c])
    /\ UNCHANGED <<store, attached, of, item, used, late, acknowledged>>

ClearReturns(c) ==
    /\ pc[c] = "clearing" /\ wire[c] = "stored"
    /\ handle' = [handle EXCEPT ![of[c]] = Nothing]
    /\ Ends(c, "cleared")
    /\ UNCHANGED <<store, attached, late, acknowledged>>

ClearConflicts(c) ==
    /\ pc[c] = "clearing" /\ wire[c] = "refused"
    /\ Ends(c, "refused")
    /\ UNCHANGED <<store, attached, handle, late, acknowledged>>

\* The call is cancelled, or the store fails, at the await: the handle is as it was, and a
\* write that is under way may still reach the store.
Interrupted(c) ==
    /\ Interrupts
    /\ pc[c] \in Busy
    /\ late' = IF wire[c] = "asked" /\ pc[c] # "reloading"
               THEN late \union {[what |-> pc[c], item |-> item[c], base |-> paper[c]]}
               ELSE late
    /\ Ends(c, "interrupted")
    /\ UNCHANGED <<store, attached, handle, acknowledged>>

-----------------------------------------------------------------------------
(******************************** The store ********************************)

\* Fault: a write does not look at the version.
WriteUnchecked(base, i) ==
    /\ next' = next + 1
    /\ row' = [data |-> base.data \union {i}, version |-> next + 1]
    /\ UNCHANGED erased

Write(base, i) ==
    /\ row.version = base.version
    /\ next' = next + 1
    /\ row' = [data |-> base.data \union {i}, version |-> next + 1]
    /\ UNCHANGED erased

\* Fault: versions start again with a new row.
DeleteRestarts(base) ==
    /\ row.version = base.version
    /\ row' = Nothing
    /\ next' = 0
    /\ erased' = erased \union row.data

\* Fault: a delete does not look at the version.
DeleteUnchecked(base) ==
    /\ row' = Nothing
    /\ erased' = erased \union base.data
    /\ UNCHANGED next

Delete(base) ==
    /\ row.version = base.version
    /\ row' = Nothing
    /\ erased' = erased \union row.data
    /\ UNCHANGED next

\* The store carries out a request, unless the version has moved.
Takes(what, base, i) ==
    \/ what = "saving" /\ Write(base, i)
    \/ what = "clearing" /\ Delete(base)
    \/ what = "reloading" /\ UNCHANGED store

Answers(c) ==
    /\ wire[c] = "asked"
    /\ \/ /\ Takes(pc[c], paper[c], item[c])
          /\ paper' = [paper EXCEPT ![c] = row']
          /\ wire' = [wire EXCEPT ![c] = "stored"]
       \/ /\ pc[c] # "reloading" /\ row.version # paper[c].version
          /\ wire' = [wire EXCEPT ![c] = "refused"]
          /\ UNCHANGED <<store, paper>>
    /\ UNCHANGED <<attached, handle, pc, of, item, used, late, acknowledged>>

\* A request whose caller has gone arrives after all, or is found to be outdated.
TakesLate(r) ==
    /\ r \in late
    /\ late' = late \ {r}
    /\ \/ Takes(r.what, r.base, r.item)
       \/ row.version # r.base.version /\ UNCHANGED store
    /\ UNCHANGED <<attached, handle, calls, acknowledged>>

-----------------------------------------------------------------------------
CallStep(c) ==
    \/ \E h \in Handle : Clear(c, h) \/ \E i \in Item : Save(c, h, i)
    \/ SaveReturns(c)
    \/ SaveConflicts(c)
    \/ ReloadReturns(c)
    \/ ClearReturns(c)
    \/ ClearConflicts(c)
    \/ Interrupted(c)
    \/ Answers(c)

Next ==
    \/ \E c \in Call : CallStep(c)
    \/ \E h \in Handle : Activate(h) \/ Deactivate(h)
    \/ \E r \in late : TakesLate(r)

Spec == Init /\ [][Next]_vars

\* The store answers what is awaited, and the event loop resumes whom it answered.
Fairness ==
    \A c \in Call :
        /\ WF_vars(Answers(c))
        /\ WF_vars(SaveReturns(c)) /\ WF_vars(SaveConflicts(c)) /\ WF_vars(ReloadReturns(c))
        /\ WF_vars(ClearReturns(c)) /\ WF_vars(ClearConflicts(c))

FairSpec == Spec /\ Fairness

-----------------------------------------------------------------------------
(****************************** Correctness ********************************)

\* A version names one value of the data: whoever holds the version that is stored, in a
\* handle or in a request under way, holds the data that is stored - also when the state
\* was cleared and written anew meanwhile (InMemoryStateStore._next, GrainState).
VersionNamesData ==
    /\ \A h \in attached : handle[h].version = row.version => handle[h].data = row.data
    /\ \A c \in Call : wire[c] = "asked" /\ pc[c] # "reloading" /\ paper[c].version = row.version
                          => paper[c].data = row.data
    /\ \A r \in late : r.base.version = row.version => r.base.data = row.data

\* No lost update: what a save() has confirmed is in the state until somebody clears it,
\* with any number of activations, conflicts and writes that arrive late (state.py:1-18).
NoLostUpdate == acknowledged \subseteq row.data \union erased

\* The state behaves as one value to which each change is applied once, whole, on top of all
\* the others (the promise of ConcurrentChange and of StateStore.write).
Promise == INSTANCE AtomicState WITH data <- row.data
ImplementsPromise == Promise!Spec

\* A call that meets conflicts does not go on for ever: each conflict it meets is somebody
\* else's write, and those it competes with run out of items to add (the recovery loop).
RecoveryEnds == \A c \in Call : pc[c] \in Busy ~> pc[c] \in Ended

=============================================================================
