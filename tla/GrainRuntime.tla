----------------------------- MODULE GrainRuntime -----------------------------
(***************************************************************************)
(* The activation life cycle of one node: src/src/nigrains/runtime.py,     *)
(* class Runtime, from a call arriving for an identity to the grain being  *)
(* deactivated by the idle sweep, by an eviction or by the shutdown.       *)
(*                                                                         *)
(* The program runs on one asyncio event loop, so an action is a SEGMENT:  *)
(* what one task does between two points where it can be suspended.        *)
(* Segments of different tasks interleave in any order.  A place where the *)
(* code may or may not suspend (a hook that awaits nothing, say) is        *)
(* modelled as suspending, which contains the other case.                  *)
(*                                                                         *)
(* An _Activation record is an element of Activation.  The set is finite,  *)
(* so a record nobody refers to any more returns to it (Forget), which is  *)
(* what Python's memory management does to the object.                     *)
(***************************************************************************)
EXTENDS Integers, FiniteSets

CONSTANTS
    Caller,          \* tasks that call grains
    Sweeper,         \* the task of _sweep
    Closer,          \* the task that runs __aexit__
    Grain,           \* grain identities
    Registered,      \* those whose type has a factory
    Reentrant,       \* those whose class is reentrant
    Timed,           \* those whose activate() asks for a schedule with every()
    Activation,      \* identities of _Activation records
    MaxActivations,  \* max_activations, or None
    Env,             \* what the environment may do, see Behaviour
    None

(***************************************************************************)
(* What the surroundings of the runtime may do in an instance:             *)
(*   cancel    a caller is cancelled, or its deadline expires              *)
(*   fail      a factory or an activate() raises                           *)
(*   missing   a call names a method the grain does not have               *)
(*   idle      idle_seconds go by without a call finishing                 *)
(*   close     the runtime is left (__aexit__)                             *)
(*   late      calls still arrive once it has been left                    *)
(*   timeout   drain_seconds run out while calls are in flight             *)
(***************************************************************************)
Behaviour == {"cancel", "fail", "missing", "idle", "close", "late", "timeout"}

ASSUME CallersAssumption ==
    /\ IsFiniteSet(Caller)
    /\ Sweeper \notin Caller /\ Closer \notin Caller /\ Sweeper # Closer
    /\ None \notin Caller
ASSUME GrainsAssumption ==
    /\ None \notin Grain
    /\ Registered \subseteq Grain /\ Reentrant \subseteq Grain /\ Timed \subseteq Grain
ASSUME RecordsAssumption == None \notin Activation
ASSUME BoundAssumption ==
    /\ MaxActivations \in Nat \union {None}
    /\ None \notin Nat
ASSUME EnvAssumption == Env \subseteq Behaviour

Task == Caller \union {Sweeper, Closer}
Bounded == MaxActivations # None

VARIABLES
    \* ---- the table, an OrderedDict
    activations,  \* identity -> record
    before,       \* its order, kept only when there is a bound: <<g, h>> when g precedes h
    usedSince,    \* history, kept with it: identity -> those in the table used after it was
    \* ---- the fields of the records
    grainOf,      \* record -> identity, None while the record is unused
    ready,        \* ready and failure: pending, ready, failed, cancelled
    inFlight,     \* in_flight
    lock,         \* the caller that holds the lock
    idle,         \* records whose last_used is idle_seconds or more in the past
    timer,        \* the task of the schedule
    teardown,     \* how far _deactivate has come with the record
    \* ---- the tasks that call
    pc,           \* where the call is suspended, or how it ended
    act,          \* the record the call refers to
    want,         \* the identity it will build once an eviction is done
    asked,        \* its own cancellation was requested
    \* ---- _deactivate, run by any task
    victim,       \* the record the task is deactivating
    \* ---- the sweeper and the shutdown
    sweeper, stale, closer, closing

table == <<activations, before, usedSince>>
records == <<grainOf, ready, inFlight, lock, idle, timer, teardown>>
calls == <<pc, act, want, asked>>
background == <<sweeper, stale, closer, closing>>
vars == <<table, records, calls, victim, background>>

Ended == {"idle", "answered", "failed", "refused", "cancelled", "keyerror"}
Counted == {"locking", "serving"}

Types ==
    /\ activations \in [Grain -> Activation \union {None}]
    /\ before \subseteq Grain \X Grain
    /\ usedSince \in [Grain -> SUBSET Grain]
    /\ grainOf \in [Activation -> Grain \union {None}]
    /\ ready \in [Activation -> {"pending", "ready", "failed", "cancelled"}]
    /\ inFlight \in [Activation -> Int]
    /\ lock \in [Activation -> Caller \union {None}]
    /\ idle \subseteq Activation
    /\ timer \in [Activation ->
         {"none", "asleep", "ticking", "cancelled", "unwinding", "done"}]
    /\ teardown \in [Activation -> {"none", "timers", "hook", "done", "cut"}]
    /\ pc \in [Caller -> Ended \union Counted \union {"waiting", "activating", "evicting"}]
    /\ act \in [Caller -> Activation \union {None}]
    /\ want \in [Caller -> Grain \union {None}]
    /\ asked \in [Caller -> BOOLEAN]
    /\ victim \in [Task -> Activation \union {None}]
    /\ sweeper \in {"asleep", "walking", "stopped"}
    /\ stale \subseteq Activation
    /\ closer \in {"open", "stopping", "draining", "closing", "closed"}
    /\ closing \subseteq Grain

\* Every variable has its type, and no count is ever given back twice (_counted, _tick).
TypeOK ==
    /\ Types
    /\ \A a \in Activation : inFlight[a] >= 0

Init ==
    /\ activations = [g \in Grain |-> None]
    /\ before = {}
    /\ usedSince = [g \in Grain |-> {}]
    /\ grainOf = [a \in Activation |-> None]
    /\ ready = [a \in Activation |-> "pending"]
    /\ inFlight = [a \in Activation |-> 0]
    /\ lock = [a \in Activation |-> None]
    /\ idle = {}
    /\ timer = [a \in Activation |-> "none"]
    /\ teardown = [a \in Activation |-> "none"]
    /\ pc = [c \in Caller |-> "idle"]
    /\ act = [c \in Caller |-> None]
    /\ want = [c \in Caller |-> None]
    /\ asked = [c \in Caller |-> FALSE]
    /\ victim = [t \in Task |-> None]
    /\ sweeper = "asleep"
    /\ stale = {}
    /\ closer = "open"
    /\ closing = {}

-----------------------------------------------------------------------------
(***************************** The table's order ***************************)

Live == {g \in Grain : activations[g] # None}

\* The order once g has gone, and once g has moved to the end.
Without(g) == {p \in before : p[1] # g /\ p[2] # g}
AtEnd(g) ==
    IF Bounded
    THEN {p \in before : p[1] # g} \union {<<h, g>> : h \in Live \ {g}}
    ELSE before

\* Not by the table's order but by last_used, which is set where a record is made and where a
\* counted call ends: the history once g has gone, and once g has been used.
Forgotten(g) == [h \in Grain |-> IF h = g THEN {} ELSE usedSince[h] \ {g}]
UsedNow(g) ==
    IF Bounded
    THEN [h \in Grain |-> IF h = g THEN {}
                          ELSE IF h \in Live THEN usedSince[h] \union {g} ELSE usedSince[h]]
    ELSE usedSince

\* Neither answering nor still activating: what _make_room may collect.
Evictable ==
    {g \in Live : inFlight[activations[g]] = 0 /\ ready[activations[g]] = "ready"}
\* Fault: the bound is compared the wrong way round and evicts only far beyond it.
FullLate == Bounded /\ Cardinality(Live) > MaxActivations + 1
Full == Bounded /\ Cardinality(Live) >= MaxActivations

-----------------------------------------------------------------------------
(****************************** _deactivate ********************************)

\* What cancel() makes of the task of a schedule.
AfterCancel(state) ==
    IF state = "asleep" THEN "cancelled"
    ELSE IF state = "ticking" THEN "unwinding"
    ELSE state

\* Fault: the timers are cancelled but not awaited.
DetachAtOnce(t, g) ==
    LET a == activations[g] IN
    /\ victim[t] = None /\ a # None
    /\ activations' = [activations EXCEPT ![g] = None]
    /\ before' = Without(g) /\ usedSince' = Forgotten(g)
    /\ victim' = [victim EXCEPT ![t] = a]
    /\ timer' = [timer EXCEPT ![a] = AfterCancel(@)]
    /\ teardown' = [teardown EXCEPT ![a] = "hook"]

\* Task t takes g out of the table and cancels its timer, which is the segment up to the
\* first await.
Detach(t, g) ==
    LET a == activations[g] IN
    /\ victim[t] = None
    /\ a # None
    /\ activations' = [activations EXCEPT ![g] = None]
    /\ before' = Without(g) /\ usedSince' = Forgotten(g)
    /\ victim' = [victim EXCEPT ![t] = a]
    /\ timer' = [timer EXCEPT ![a] = AfterCancel(@)]
    /\ teardown' = [teardown EXCEPT ![a] =
                      IF timer[a] \in {"none", "done"} THEN "hook" ELSE "timers"]

\* Fault: the count is given back although no tick was running.
TimerStopsTwice(a) ==
    /\ timer[a] \in {"cancelled", "unwinding"}
    /\ timer' = [timer EXCEPT ![a] = "done"]
    /\ inFlight' = [inFlight EXCEPT ![a] = @ - 1]
    /\ UNCHANGED <<table, grainOf, ready, lock, idle, teardown, calls, victim, background>>

\* The cancelled timer comes to its end; a tick it was in the middle of is uncounted.
TimerStops(a) ==
    /\ timer[a] \in {"cancelled", "unwinding"}
    /\ timer' = [timer EXCEPT ![a] = "done"]
    /\ inFlight' = [inFlight EXCEPT ![a] = IF timer[a] = "unwinding" THEN @ - 1 ELSE @]
    /\ UNCHANGED <<table, grainOf, ready, lock, idle, teardown, calls, victim, background>>

\* The deactivating task has awaited every timer and enters deactivate().
TimersGone(t) ==
    LET a == victim[t] IN
    /\ a # None
    /\ teardown[a] = "timers"
    /\ timer[a] = "done"
    /\ teardown' = [teardown EXCEPT ![a] = "hook"]
    /\ UNCHANGED <<table, grainOf, ready, inFlight, lock, idle, timer, calls, victim, background>>

\* deactivate() returns, or raises an Exception, which is logged and changes nothing.
HookReturns(t) ==
    LET a == victim[t] IN
    /\ a # None
    /\ teardown[a] = "hook"
    /\ teardown' = [teardown EXCEPT ![a] = "done"]
    /\ victim' = [victim EXCEPT ![t] = None]

\* A cancellation interrupts deactivate() and leaves it unfinished.
HookIsCut(t) ==
    LET a == victim[t] IN
    /\ a # None
    /\ teardown[a] = "hook"
    /\ teardown' = [teardown EXCEPT ![a] = "cut"]
    /\ victim' = [victim EXCEPT ![t] = None]

-----------------------------------------------------------------------------
(************************** Serving, _dispatch_here ************************)

\* Fault: every call makes a lock of its own.
LockIsAlwaysNew(a) == TRUE

\* asyncio.Lock grants an unheld lock at once only when nobody is queueing for it.
LockIsOpen(a) ==
    /\ lock[a] = None
    /\ \A d \in Caller : ~(pc[d] = "locking" /\ act[d] = a)

\* A caller that has its activation: the method is looked up, the call is counted, the lock
\* is taken or queued for, in one segment.
Dispatch(c, a) ==
    \/ /\ "missing" \in Env
       /\ pc' = [pc EXCEPT ![c] = "refused"]
       /\ act' = [act EXCEPT ![c] = None]
       /\ UNCHANGED <<inFlight, lock>>
    \/ /\ act' = [act EXCEPT ![c] = a]
       /\ inFlight' = [inFlight EXCEPT ![a] = @ + 1]
       /\ \/ /\ grainOf[a] \in Reentrant
             /\ pc' = [pc EXCEPT ![c] = "serving"]
             /\ UNCHANGED lock
          \/ /\ grainOf[a] \notin Reentrant
             /\ LockIsOpen(a)
             /\ pc' = [pc EXCEPT ![c] = "serving"]
             /\ lock' = [lock EXCEPT ![a] = c]
          \/ /\ grainOf[a] \notin Reentrant
             /\ ~LockIsOpen(a)
             /\ pc' = [pc EXCEPT ![c] = "locking"]
             /\ UNCHANGED lock

\* The lock is handed to one of those queueing for it.
Acquire(c) ==
    /\ pc[c] = "locking"
    /\ lock[act[c]] = None
    /\ lock' = [lock EXCEPT ![act[c]] = c]
    /\ pc' = [pc EXCEPT ![c] = "serving"]
    /\ UNCHANGED <<table, grainOf, ready, inFlight, idle, timer, teardown, act, want, asked,
                   victim, background>>

\* Fault: the count and the lock are given back only by a call that returns.
LeaveWithoutFinally(c, outcome) ==
    LET a == act[c] IN
    /\ inFlight' = [inFlight EXCEPT ![a] = IF outcome = "answered" THEN @ - 1 ELSE @]
    /\ lock' = [lock EXCEPT ![a] = IF @ = c /\ outcome = "answered" THEN None ELSE @]
    /\ idle' = idle \ {a}
    /\ stale' = stale \ {a}
    /\ act' = [act EXCEPT ![c] = None]
    /\ pc' = [pc EXCEPT ![c] = outcome]
    /\ UNCHANGED <<table, grainOf, ready, timer, teardown, want, victim,
                   sweeper, closer, closing>>

\* Fault: the lock is not given back.
LeaveLocked(c, outcome) ==
    LET a == act[c] IN
    /\ inFlight' = [inFlight EXCEPT ![a] = @ - 1]
    /\ idle' = idle \ {a}
    /\ stale' = stale \ {a}
    /\ act' = [act EXCEPT ![c] = None]
    /\ pc' = [pc EXCEPT ![c] = outcome]
    /\ UNCHANGED <<table, grainOf, ready, lock, timer, teardown, want, victim,
                   sweeper, closer, closing>>

\* Fault: the identity stays where it is in the table, which makes it first in, first out.
LeaveInPlace(c, outcome) ==
    LET a == act[c] IN
    /\ inFlight' = [inFlight EXCEPT ![a] = @ - 1]
    /\ lock' = [lock EXCEPT ![a] = IF @ = c THEN None ELSE @]
    /\ idle' = idle \ {a}
    /\ stale' = stale \ {a}
    /\ act' = [act EXCEPT ![c] = None]
    /\ pc' = [pc EXCEPT ![c] = outcome]
    /\ usedSince' = UsedNow(grainOf[a])
    /\ UNCHANGED <<activations, before, grainOf, ready, timer, teardown, want, victim,
                   sweeper, closer, closing>>

\* A counted call leaves its grain: the lock and the count are given back, last_used is now.
\* With a bound the identity is then moved to the end of the table, which raises KeyError
\* over whatever the call had come to when the identity is not in it.
Leave(c, outcome) ==
    LET a == act[c]
        g == grainOf[a]
    IN
    /\ inFlight' = [inFlight EXCEPT ![a] = @ - 1]
    /\ lock' = [lock EXCEPT ![a] = IF @ = c THEN None ELSE @]
    /\ idle' = idle \ {a}
    /\ stale' = stale \ {a}
    /\ act' = [act EXCEPT ![c] = None]
    /\ IF Bounded /\ activations[g] = None
       THEN pc' = [pc EXCEPT ![c] = "keyerror"] /\ UNCHANGED <<before, usedSince>>
       ELSE /\ pc' = [pc EXCEPT ![c] = outcome]
            /\ before' = AtEnd(g) /\ usedSince' = UsedNow(g)
    /\ UNCHANGED <<activations, grainOf, ready, timer, teardown, want, victim,
                   sweeper, closer, closing>>

\* The grain's method returns, or raises: "answered" either way.
Finish(c) ==
    /\ pc[c] = "serving"
    /\ Leave(c, "answered")
    /\ UNCHANGED asked

-----------------------------------------------------------------------------
(************************* Activating, _activated **************************)

\* What the caller's segments from the lookup on may change; the rest is Aside.
Aside == <<idle, asked, background>>

\* The call ends without having been counted.
Give(c, outcome) ==
    /\ pc' = [pc EXCEPT ![c] = outcome]
    /\ act' = [act EXCEPT ![c] = None]
    /\ want' = [want EXCEPT ![c] = None]

\* After _make_room: the factory runs, the record is published under g over whatever is
\* there, and activate() begins.
Build(c, g) ==
    \/ /\ "fail" \in Env
       /\ Give(c, "failed")
       /\ UNCHANGED <<table, grainOf>>
    \/ \E a \in Activation :
       /\ grainOf[a] = None
       /\ grainOf' = [grainOf EXCEPT ![a] = g]
       /\ activations' = [activations EXCEPT ![g] = a]
       /\ before' = IF g \in Live THEN before ELSE AtEnd(g)
       /\ usedSince' = UsedNow(g)
       /\ pc' = [pc EXCEPT ![c] = "activating"]
       /\ act' = [act EXCEPT ![c] = a]
       /\ want' = [want EXCEPT ![c] = None]

\* _make_room collects the least recently used grain that can be collected, if the fleet is
\* full and there is one.
Evict(c, g) ==
    \E v \in Evictable :
       /\ \A h \in Evictable : <<h, v>> \notin before
       /\ Detach(c, v)
       /\ pc' = [pc EXCEPT ![c] = "evicting"]
       /\ act' = [act EXCEPT ![c] = None]
       /\ want' = [want EXCEPT ![c] = g]

\* One turn of the loop in _activated, as far as it goes without waiting.
Lookup(c, g) ==
    \/ /\ activations[g] # None
       /\ ready[activations[g]] = "pending"
       /\ pc' = [pc EXCEPT ![c] = "waiting"]
       /\ act' = [act EXCEPT ![c] = activations[g]]
       /\ UNCHANGED <<table, grainOf, ready, inFlight, lock, timer, teardown, want, victim>>
    \/ /\ activations[g] # None
       /\ ready[activations[g]] # "pending"
       /\ Dispatch(c, activations[g])
       /\ UNCHANGED <<table, grainOf, ready, timer, teardown, want, victim>>
    \/ /\ activations[g] = None
       /\ g \notin Registered
       /\ Give(c, "failed")
       /\ UNCHANGED <<table, grainOf, ready, inFlight, lock, timer, teardown, victim>>
    \/ /\ activations[g] = None
       /\ g \in Registered
       /\ ~Full \/ Evictable = {}
       /\ Build(c, g)
       /\ UNCHANGED <<ready, inFlight, lock, timer, teardown, victim>>
    \/ /\ activations[g] = None
       /\ g \in Registered
       /\ Full
       /\ Evict(c, g)
       /\ UNCHANGED <<grainOf, ready, inFlight, lock>>

\* A call arrives for g.
Call(c, g) ==
    /\ pc[c] \in Ended
    /\ closer = "open" \/ "late" \in Env
    /\ asked' = [asked EXCEPT ![c] = FALSE]
    /\ Lookup(c, g)
    /\ UNCHANGED <<idle, background>>

\* activate() returned: the timers start, the waiters are released, and the caller goes on
\* to serve its own call, all in one segment.
ActivateReturns(c) ==
    LET a == act[c] IN
    /\ pc[c] = "activating"
    /\ ready' = [ready EXCEPT ![a] = "ready"]
    /\ timer' = [timer EXCEPT ![a] = IF grainOf[a] \in Timed THEN "asleep" ELSE @]
    /\ Dispatch(c, a)
    /\ UNCHANGED <<table, grainOf, teardown, want, victim, Aside>>

\* Fault: the failure is raised to the builder and the waiters are not released.
ActivateFailsAlone(c, how) ==
    /\ pc[c] = "activating"
    /\ activations' = [activations EXCEPT ![grainOf[act[c]]] = None]
    /\ before' = Without(grainOf[act[c]]) /\ usedSince' = Forgotten(grainOf[act[c]])
    /\ Give(c, how)
    /\ UNCHANGED <<grainOf, ready, inFlight, lock, idle, timer, teardown, victim, background>>

\* activate() raised: whatever stands under the identity is taken out of the table, the
\* waiters are released with the failure, the caller gets it raised.
ActivateFails(c, how) ==
    LET a == act[c] IN
    /\ pc[c] = "activating"
    /\ activations' = [activations EXCEPT ![grainOf[a]] = None]
    /\ before' = Without(grainOf[a]) /\ usedSince' = Forgotten(grainOf[a])
    /\ ready' = [ready EXCEPT ![a] = how]
    /\ Give(c, how)
    /\ UNCHANGED <<grainOf, inFlight, lock, idle, timer, teardown, victim, background>>

\* Fault: a waiter takes over the cancellation of the builder (a shared future).
WakeCancelled(c) ==
    /\ pc[c] = "waiting"
    /\ \/ /\ ready[act[c]] = "ready"
          /\ Dispatch(c, act[c])
          /\ UNCHANGED <<table, grainOf, ready, timer, teardown, want, victim>>
       \/ /\ ready[act[c]] \in {"failed", "cancelled"}
          /\ Give(c, ready[act[c]])
          /\ UNCHANGED <<table, grainOf, ready, inFlight, lock, timer, teardown, victim>>
    /\ UNCHANGED Aside

\* Fault: a waiter whose builder was cancelled builds without looking again.
WakeBuilds(c) ==
    /\ pc[c] = "waiting"
    /\ \/ /\ ready[act[c]] = "ready"
          /\ Dispatch(c, act[c])
          /\ UNCHANGED <<table, grainOf, ready, timer, teardown, want, victim>>
       \/ /\ ready[act[c]] = "cancelled"
          /\ Build(c, grainOf[act[c]])
          /\ UNCHANGED <<ready, inFlight, lock, timer, teardown, victim>>
    /\ UNCHANGED Aside

\* A caller that waited for somebody else's activation runs again.
Wake(c) ==
    LET a == act[c] IN
    /\ pc[c] = "waiting"
    /\ \/ /\ ready[a] = "ready"
          /\ Dispatch(c, a)
          /\ UNCHANGED <<table, grainOf, ready, timer, teardown, want, victim>>
       \/ /\ ready[a] = "failed"
          /\ Give(c, "failed")
          /\ UNCHANGED <<table, grainOf, ready, inFlight, lock, timer, teardown, victim>>
       \/ /\ ready[a] = "cancelled"
          /\ Lookup(c, grainOf[a])
    /\ UNCHANGED Aside

\* The eviction is over and the caller builds what it came for, without looking again.
Evicted(c) ==
    /\ pc[c] = "evicting"
    /\ HookReturns(c)
    /\ Build(c, want[c])
    /\ UNCHANGED <<ready, inFlight, lock, timer, Aside>>

-----------------------------------------------------------------------------
(****************************** Cancellation *******************************)

\* Fault: a waiter that gives up takes the pending activation out of the table.
CancelPops(c) ==
    /\ "cancel" \in Env
    /\ ~asked[c]
    /\ asked' = [asked EXCEPT ![c] = TRUE]
    /\ pc[c] = "waiting"
    /\ activations' = [activations EXCEPT ![grainOf[act[c]]] = None]
    /\ Give(c, "cancelled")
    /\ UNCHANGED <<before, usedSince, records, victim, background>>

\* A caller is cancelled, or the asyncio.timeout of its deadline fires, at the await where it
\* stands.  While it awaits the timers of a grain it evicts, suppress(CancelledError)
\* swallows the request.
Cancel(c) ==
    /\ "cancel" \in Env
    /\ ~asked[c]
    /\ asked' = [asked EXCEPT ![c] = TRUE]
    /\ \/ /\ pc[c] = "waiting"
          /\ Give(c, "cancelled")
          /\ UNCHANGED <<table, records, victim, background>>
       \/ ActivateFails(c, "cancelled")
       \/ /\ pc[c] \in Counted
          /\ Leave(c, "cancelled")
       \/ /\ pc[c] = "evicting"
          /\ HookIsCut(c)
          /\ Give(c, "cancelled")
          /\ UNCHANGED <<table, grainOf, ready, inFlight, lock, idle, timer, background>>
       \/ /\ pc[c] = "evicting"
          /\ teardown[victim[c]] = "timers"
          /\ UNCHANGED <<table, records, pc, act, want, victim, background>>

-----------------------------------------------------------------------------
(**************************** Timers, _tick ********************************)

TickBegins(a) ==
    /\ timer[a] = "asleep"
    /\ timer' = [timer EXCEPT ![a] = "ticking"]
    /\ inFlight' = [inFlight EXCEPT ![a] = @ + 1]
    /\ UNCHANGED <<table, grainOf, ready, lock, idle, teardown, calls, victim, background>>

\* The work returns or raises an Exception, which is logged; the schedule goes on.
TickEnds(a) ==
    /\ timer[a] = "ticking"
    /\ timer' = [timer EXCEPT ![a] = "asleep"]
    /\ inFlight' = [inFlight EXCEPT ![a] = @ - 1]
    /\ UNCHANGED <<table, grainOf, ready, lock, idle, teardown, calls, victim, background>>

-----------------------------------------------------------------------------
(************************ The sweeper, _sweep and collect ******************)

\* The clock moves idle_seconds past last_used.  The idle span is taken to be longer than
\* one turn of the loop, so callers whose wait is over have run before it has gone by.
GoesIdle(a) ==
    /\ "idle" \in Env
    /\ grainOf[a] # None /\ teardown[a] = "none" /\ a \notin idle
    /\ \A c \in Caller : ~(pc[c] = "waiting" /\ act[c] = a /\ ready[a] = "ready")
    /\ idle' = idle \union {a}
    /\ UNCHANGED <<table, grainOf, ready, inFlight, lock, timer, teardown, calls, victim,
                   background>>

\* Fault: the sweep does not look at the calls in flight.
CollectableBusy(a) == ready[a] = "ready"

Collectable(a) ==
    /\ ready[a] = "ready"
    /\ inFlight[a] = 0

SweepBegins ==
    /\ sweeper = "asleep"
    /\ sweeper' = "walking"
    /\ stale' = {activations[g] : g \in {h \in Live : /\ Collectable(activations[h])
                                                      /\ activations[h] \in idle}}
    /\ UNCHANGED <<table, records, calls, victim, closer, closing>>

\* The next of the list: deactivated if it is still what it was when it was listed.
SweepTakes(a) ==
    /\ sweeper = "walking"
    /\ a \in stale
    /\ activations[grainOf[a]] = a
    /\ Collectable(a)
    /\ Detach(Sweeper, grainOf[a])
    /\ stale' = stale \ {a}
    /\ UNCHANGED <<grainOf, ready, inFlight, lock, idle, calls, sweeper, closer, closing>>

SweepSkips(a) ==
    /\ sweeper = "walking"
    /\ victim[Sweeper] = None
    /\ a \in stale
    /\ activations[grainOf[a]] # a \/ ~Collectable(a)
    /\ stale' = stale \ {a}
    /\ UNCHANGED <<table, records, calls, victim, sweeper, closer, closing>>

SweepGoesOn ==
    /\ HookReturns(Sweeper)
    /\ UNCHANGED <<table, grainOf, ready, inFlight, lock, idle, timer, calls, background>>

\* Fault: the sweeper ends with its first sweep.
SweepEndsForGood ==
    /\ sweeper = "walking"
    /\ victim[Sweeper] = None
    /\ stale = {}
    /\ sweeper' = "stopped"
    /\ UNCHANGED <<table, records, calls, victim, stale, closer, closing>>

SweepEnds ==
    /\ sweeper = "walking"
    /\ victim[Sweeper] = None
    /\ stale = {}
    /\ sweeper' = "asleep"
    /\ UNCHANGED <<table, records, calls, victim, stale, closer, closing>>

-----------------------------------------------------------------------------
(*********************** Shutdown, __aexit__ and _drain ********************)

\* __aexit__ cancels the sweeper at its await.  In the sleep, between two grains or in a
\* deactivate() the sweeper ends; while it awaits the timers of a grain the request is
\* swallowed there and the sweep goes on.
CloseBegins ==
    /\ "close" \in Env
    /\ closer = "open"
    /\ closer' = "stopping"
    /\ \/ /\ victim[Sweeper] = None
          /\ sweeper' = "stopped"
          /\ stale' = {}
          /\ UNCHANGED <<teardown, victim>>
       \/ /\ HookIsCut(Sweeper)
          /\ sweeper' = "stopped"
          /\ stale' = {}
       \/ /\ victim[Sweeper] # None
          /\ teardown[victim[Sweeper]] = "timers"
          /\ UNCHANGED <<sweeper, stale, teardown, victim>>
    /\ UNCHANGED <<table, grainOf, ready, inFlight, lock, idle, timer, calls, closing>>

\* The sweeper has ended, and the drain starts to poll.
DrainBegins ==
    /\ closer = "stopping"
    /\ sweeper = "stopped"
    /\ closer' = "draining"
    /\ UNCHANGED <<table, records, calls, victim, sweeper, stale, closing>>

\* Fault: only what is not in flight is listed.
DrainEndsIdleOnly ==
    /\ closer = "draining"
    /\ closer' = "closing"
    /\ closing' = {g \in Live : inFlight[activations[g]] = 0}
    /\ UNCHANGED <<table, records, calls, victim, sweeper, stale>>

\* Nothing in the table is in flight, or the grace is over; the identities to deactivate
\* are listed in the same segment.
DrainEnds ==
    /\ closer = "draining"
    /\ \/ \A g \in Live : inFlight[activations[g]] = 0
       \/ "timeout" \in Env
    /\ closer' = "closing"
    /\ closing' = Live
    /\ UNCHANGED <<table, records, calls, victim, sweeper, stale>>

CloseTakes(g) ==
    /\ closer = "closing"
    /\ g \in closing
    /\ Detach(Closer, g)
    /\ closing' = closing \ {g}
    /\ UNCHANGED <<grainOf, ready, inFlight, lock, idle, calls, sweeper, stale, closer>>

\* Fault: an identity that has left the table stops the walk (pop without a default).
CloseSkipsNothing(g) == FALSE

\* _deactivate of an identity that has left the table meanwhile.
CloseSkips(g) ==
    /\ closer = "closing"
    /\ victim[Closer] = None
    /\ g \in closing
    /\ activations[g] = None
    /\ closing' = closing \ {g}
    /\ UNCHANGED <<table, records, calls, victim, sweeper, stale, closer>>

CloseGoesOn ==
    /\ HookReturns(Closer)
    /\ UNCHANGED <<table, grainOf, ready, inFlight, lock, idle, timer, calls, background>>

CloseEnds ==
    /\ closer = "closing"
    /\ victim[Closer] = None
    /\ closing = {}
    /\ closer' = "closed"
    /\ UNCHANGED <<table, records, calls, victim, sweeper, stale, closing>>

-----------------------------------------------------------------------------
(************************** Memory of the records **************************)

\* Nothing refers to the record any more: no entry of the table, no task, no timer.
Unreferenced(a) ==
    /\ \A g \in Grain : activations[g] # a
    /\ \A c \in Caller : act[c] # a
    /\ \A t \in Task : victim[t] # a
    /\ timer[a] \in {"none", "done"}

Forget(a) ==
    /\ grainOf[a] # None
    /\ Unreferenced(a)
    /\ grainOf' = [grainOf EXCEPT ![a] = None]
    /\ ready' = [ready EXCEPT ![a] = "pending"]
    /\ timer' = [timer EXCEPT ![a] = "none"]
    /\ teardown' = [teardown EXCEPT ![a] = "none"]
    /\ idle' = idle \ {a}
    /\ stale' = stale \ {a}
    /\ UNCHANGED <<table, inFlight, lock, calls, victim, sweeper, closer, closing>>

-----------------------------------------------------------------------------
CallerStep(c) ==
    \/ \E g \in Grain : Call(c, g)
    \/ ActivateReturns(c)
    \/ "fail" \in Env /\ ActivateFails(c, "failed") /\ UNCHANGED asked
    \/ Wake(c)
    \/ Evicted(c)
    \/ Acquire(c)
    \/ Finish(c)
    \/ Cancel(c)

RecordStep(a) ==
    \/ TimerStops(a)
    \/ TickBegins(a)
    \/ TickEnds(a)
    \/ GoesIdle(a)
    \/ SweepTakes(a)
    \/ SweepSkips(a)
    \/ Forget(a)

NodeStep ==
    \/ SweepBegins
    \/ SweepGoesOn
    \/ SweepEnds
    \/ CloseBegins
    \/ DrainBegins
    \/ DrainEnds
    \/ CloseGoesOn
    \/ CloseEnds

Next ==
    \/ \E c \in Caller : CallerStep(c)
    \/ \E a \in Activation : RecordStep(a)
    \/ \E t \in Task : TimersGone(t)
    \/ \E g \in Grain : CloseTakes(g) \/ CloseSkips(g)
    \/ NodeStep

Spec == Init /\ [][Next]_vars

\* One event loop runs every task that can run.  asyncio.Lock is first in, first out, which
\* is strong fairness for each caller in its queue.  What activate(), deactivate(), a method
\* and a tick await is assumed to come: nothing in the runtime bounds them.
Fairness ==
    /\ \A c \in Caller :
         /\ WF_vars(ActivateReturns(c))
         /\ WF_vars(Wake(c))
         /\ WF_vars(Evicted(c))
         /\ SF_vars(Acquire(c))
         /\ WF_vars(Finish(c))
    /\ \A a \in Activation :
         /\ WF_vars(TimerStops(a))
         /\ WF_vars(TickEnds(a))
         /\ WF_vars(SweepTakes(a) \/ SweepSkips(a))
    /\ \A t \in Task : WF_vars(TimersGone(t))
    /\ \A g \in Grain : WF_vars(CloseTakes(g) \/ CloseSkips(g))
    /\ WF_vars(SweepBegins) /\ WF_vars(SweepGoesOn) /\ WF_vars(SweepEnds)
    /\ WF_vars(DrainBegins) /\ WF_vars(DrainEnds)
    /\ WF_vars(CloseGoesOn) /\ WF_vars(CloseEnds)

FairSpec == Spec /\ Fairness

-----------------------------------------------------------------------------
(****************************** Correctness ********************************)

\* A record whose grain may still be given work: being activated, or activated and not yet
\* on its way out.
Alive(a) ==
    /\ grainOf[a] # None
    /\ ready[a] \in {"pending", "ready"}
    /\ teardown[a] = "none"

\* While the runtime is open one identity has one activation that is being built or serving.
\* _activated publishes the record before the hook runs so that a second caller finds it
\* (runtime.py:656-660), whatever fails, is cancelled or is collected meanwhile.
SingleActivation ==
    closer = "open" =>
        \A a, b \in Activation : Alive(a) /\ Alive(b) /\ grainOf[a] = grainOf[b] => a = b

\* While the runtime is open an activated grain is in the table or being deactivated: none
\* is left where neither the sweep nor the shutdown will find it (_activated, _deactivate).
NothingLost ==
    closer = "open" =>
        \A a \in Activation :
            grainOf[a] # None /\ ready[a] = "ready" /\ teardown[a] = "none"
                => activations[grainOf[a]] = a

\* While the runtime is open a call that is running or queueing for its turn has the
\* activation the table holds, and nobody deactivates it: the double check of collect and
\* the count of calls in flight keep the sweep away from a grain in use.
ServedWhileOpen ==
    closer = "open" =>
        \A c \in Caller : pc[c] \in Counted =>
            /\ activations[grainOf[act[c]]] = act[c]
            /\ teardown[act[c]] = "none"
            /\ ready[act[c]] = "ready"

\* While the runtime is open a grain that is not reentrant serves one call at a time, over
\* all its activations: the lock is one per record, so it takes the lock and the table to
\* make it one per identity (_dispatch_here).
OneAtATime ==
    closer = "open" =>
        \A c, d \in Caller :
            /\ pc[c] = "serving" /\ pc[d] = "serving"
            /\ grainOf[act[c]] = grainOf[act[d]]
            /\ grainOf[act[c]] \notin Reentrant
            => c = d

\* The life of an identity as its grains see it, over all the records it ever has.
Phase ==
    [g \in Grain |->
        IF \E a \in Activation : Alive(a) /\ grainOf[a] = g /\ ready[a] = "ready" THEN "warm"
        ELSE IF \E a \in Activation : Alive(a) /\ grainOf[a] = g THEN "warming"
        ELSE "cold"]
Inside == [g \in Grain |-> {c \in Caller : pc[c] \in Counted /\ grainOf[act[c]] = g}]
Serving == [g \in Grain |-> {c \in Caller : pc[c] = "serving" /\ grainOf[act[c]] = g}]
Ticking ==
    {g \in Grain :
        \E a \in Activation : grainOf[a] = g /\ timer[a] \in {"ticking", "unwinding"}}

Actors == INSTANCE VirtualActor WITH
    phase <- Phase, inside <- Inside, serving <- Serving, ticking <- Ticking

\* As long as it is open, a runtime without a bound is a virtual actor for every identity:
\* no interleaving of lookups, waits, failures, cancellations, sweeps and schedules can be
\* told from the one life that VirtualActor describes (call to _deactivate).
ImplementsVirtualActor == Actors!Spec

\* Somebody else's cancellation is never raised to a caller (_activated: the event, and the
\* retry on CancelledError): a call ends as cancelled only if it was asked to.
CancelIsolation == \A c \in Caller : pc[c] = "cancelled" => asked[c]

\* Whoever waits for an activation waits for one that a live task is still running, so
\* nobody waits for ever when the builder fails, is cancelled or is overtaken (_activated).
WaitersHaveBuilder ==
    \A c \in Caller :
        pc[c] = "waiting" /\ ready[act[c]] = "pending"
            => \E b \in Caller : pc[b] = "activating" /\ act[b] = act[c]

\* in_flight is the number of calls and ticks that are using the record, on every path by
\* which they end: a count left over pins the grain in memory, one too few lets the sweep
\* deactivate it under a call (_counted, _tick).
InFlightExact ==
    \A a \in Activation :
        inFlight[a] = Cardinality({c \in Caller : pc[c] \in Counted /\ act[c] = a})
                      + (IF timer[a] \in {"ticking", "unwinding"} THEN 1 ELSE 0)

\* While the runtime is open no schedule of a grain runs or is due once its deactivate() has
\* begun (_deactivate cancels and awaits every timer; _start_timers runs once).
QuietTeardown ==
    closer = "open" =>
        \A a \in Activation :
            teardown[a] \in {"hook", "done", "cut"} => timer[a] \in {"none", "done"}

\* However calls, evictions and cancellations interleave, the fleet outgrows its bound by
\* fewer than there are callers, or else by no more than the callers and schedules that can
\* keep every grain of it busy (_make_room).
FleetBounded ==
    Bounded =>
        \/ Cardinality(Live) < MaxActivations + Cardinality(Caller)
        \/ Cardinality(Live) <= Cardinality(Caller) + Cardinality(Timed)

\* What _make_room says of itself, that the fleet goes over its bound only when every grain
\* is busy: with runtime_bounded.cfg TLC finds a caller that publishes beside an idle grain,
\* which another call brought while the caller made room.
OverOnlyWhenBusy ==
    [][Bounded /\ Cardinality(Live) >= MaxActivations /\ Cardinality(Live') > Cardinality(Live)
          => Evictable = {}]_vars

\* The call of c has just begun to evict v.
Evicts(c, v) == pc[c] # "evicting" /\ pc'[c] = "evicting" /\ v = grainOf[victim'[c]]

\* Whatever a full fleet evicts was used longer ago than everything else it could have
\* evicted, although the table is ordered by move_to_end at the end of a call, entries are
\* replaced where they stand, and calls end, fail and are cancelled in any order
\* (_make_room: "collects the least recently used idle grain").
EvictsLeastRecentlyUsed ==
    [][\A c \in Caller, v \in Grain :
          Evicts(c, v) => \A h \in Evictable \ {v} : h \in usedSince[v]]_vars

\* Leaving the runtime leaves no activated grain whose deactivate() has not been run
\* (__aexit__: "deactivates everything still activated").
CloseDeactivatesAll ==
    closer = "closed" =>
        /\ Live = {}
        /\ \A a \in Activation :
            grainOf[a] # None /\ ready[a] = "ready" => teardown[a] \in {"done", "cut"}

\* The shutdown never deactivates a grain whose activate() is still running (__aexit__ and
\* _drain, which waits so as not to run deactivate() under work in progress).
NoDeactivateUnderActivate ==
    \A c \in Caller : pc[c] = "activating" => teardown[act[c]] = "none"

\* Every call comes to an end (no deadline and no cancellation needed).
CallsEnd == \A c \in Caller : pc[c] \notin Ended ~> pc[c] \in Ended

\* A grain without a schedule that nobody has called for idle_seconds is called again, or
\* else collected (collect).
IdleIsCollected ==
    \A a \in Activation :
        (a \in idle /\ Alive(a) /\ grainOf[a] \notin Timed) ~> ~(a \in idle /\ Alive(a))

\* Leaving the runtime comes to an end (__aexit__).
CloseTerminates == closer = "stopping" ~> closer = "closed"

=============================================================================
