-------------------------- MODULE GrainRuntime_proofs --------------------------
(***************************************************************************)
(* What GrainRuntime guarantees for every set of callers, identities and   *)
(* records, and every behaviour of the environment.                        *)
(***************************************************************************)
EXTENDS GrainRuntime, FiniteSetTheorems, TLAPS

\* What refers to what: the table's entries are records of their identity, a call under way
\* has its record, a record that is referred to is in use, a caller that evicts remembers what
\* it came to build.
Refs ==
    /\ \A g \in Grain : activations[g] # None => grainOf[activations[g]] = g
    /\ \A c \in Caller :
         pc[c] \in {"locking", "serving", "waiting", "activating"} => act[c] # None
    /\ \A c \in Caller : act[c] # None => grainOf[act[c]] # None
    /\ \A c \in Caller : pc[c] = "evicting" => want[c] # None
    /\ \A a \in stale : grainOf[a] # None

-----------------------------------------------------------------------------
(********************************* Types ***********************************)

LEMMA InitTypes == Init => Types
BY DEF Init, Types, Ended, Counted, Task

LEMMA DetachTypes ==
    ASSUME Types, NEW t \in Task, NEW g \in Grain, Detach(t, g)
    PROVE  /\ activations' \in [Grain -> Activation \union {None}]
           /\ before' \subseteq Grain \X Grain
           /\ usedSince' \in [Grain -> SUBSET Grain]
           /\ timer' \in [Activation ->
                {"none", "asleep", "ticking", "cancelled", "unwinding", "done"}]
           /\ teardown' \in [Activation -> {"none", "timers", "hook", "done", "cut"}]
           /\ victim' \in [Task -> Activation \union {None}]
BY DEF Types, Detach, Without, Forgotten, AfterCancel

LEMMA DispatchTypes ==
    ASSUME Types, NEW c \in Caller, NEW a \in Activation, Dispatch(c, a)
    PROVE  /\ inFlight' \in [Activation -> Int]
           /\ lock' \in [Activation -> Caller \union {None}]
           /\ pc' \in [Caller -> Ended \union Counted \union {"waiting", "activating", "evicting"}]
           /\ act' \in [Caller -> Activation \union {None}]
BY DEF Types, Dispatch, Ended, Counted

LEMMA BuildTypes ==
    ASSUME Types, NEW c \in Caller, NEW g \in Grain, Build(c, g)
    PROVE  /\ activations' \in [Grain -> Activation \union {None}]
           /\ before' \subseteq Grain \X Grain
           /\ usedSince' \in [Grain -> SUBSET Grain]
           /\ grainOf' \in [Activation -> Grain \union {None}]
           /\ pc' \in [Caller -> Ended \union Counted \union {"waiting", "activating", "evicting"}]
           /\ act' \in [Caller -> Activation \union {None}]
           /\ want' \in [Caller -> Grain \union {None}]
BY DEF Types, Build, Give, AtEnd, UsedNow, Live, Ended, table

LEMMA LookupTypes ==
    ASSUME Types, NEW c \in Caller, NEW g \in Grain, Lookup(c, g),
           UNCHANGED <<idle, background>>, asked' \in [Caller -> BOOLEAN]
    PROVE  Types'
<1>1. CASE /\ activations[g] # None
           /\ ready[activations[g]] = "pending"
           /\ pc' = [pc EXCEPT ![c] = "waiting"]
           /\ act' = [act EXCEPT ![c] = activations[g]]
           /\ UNCHANGED <<table, grainOf, ready, inFlight, lock, timer, teardown, want, victim>>
    BY <1>1 DEF Types, table, background
<1>2. CASE /\ activations[g] # None
           /\ Dispatch(c, activations[g])
           /\ UNCHANGED <<table, grainOf, ready, timer, teardown, want, victim>>
    BY <1>2, DispatchTypes DEF Types, table, background
<1>3. CASE /\ Give(c, "failed")
           /\ UNCHANGED <<table, grainOf, ready, inFlight, lock, timer, teardown, victim>>
    BY <1>3 DEF Types, Give, table, background, Ended
<1>4. CASE /\ Build(c, g)
           /\ UNCHANGED <<ready, inFlight, lock, timer, teardown, victim>>
    BY <1>4, BuildTypes DEF Types, background
<1>5. CASE /\ Evict(c, g)
           /\ UNCHANGED <<grainOf, ready, inFlight, lock>>
  <2>1. PICK v \in Grain : Detach(c, v)
    BY <1>5 DEF Evict, Evictable, Live
  <2> QED
    BY <1>5, <2>1, DetachTypes DEF Types, Evict, Task, background
<1> QED
    BY <1>1, <1>2, <1>3, <1>4, <1>5 DEF Lookup

LEMMA StepTypes == Types /\ Refs /\ [Next]_vars => Types'
<1> SUFFICES ASSUME Types, Refs, [Next]_vars PROVE Types'
    OBVIOUS
<1>1. CASE UNCHANGED vars
    BY <1>1 DEF Types, vars, table, records, calls, background
<1>2. ASSUME NEW c \in Caller, CallerStep(c) PROVE Types'
  <2>1. ASSUME NEW g \in Grain, Call(c, g) PROVE Types'
    BY <2>1, LookupTypes DEF Call, Types
  <2>2. CASE ActivateReturns(c)
    <3>1. act[c] \in Activation
      BY <2>2 DEF ActivateReturns, Types, Refs
    <3> QED
      BY <2>2, <3>1, DispatchTypes DEF ActivateReturns, Aside, Types, table, background
  <2>3. CASE ActivateFails(c, "failed") /\ UNCHANGED asked
    BY <2>3 DEF ActivateFails, Give, Without, Forgotten, Types, background, Ended
  <2>4. CASE Wake(c)
    <3>1. act[c] \in Activation /\ grainOf[act[c]] \in Grain
      BY <2>4 DEF Wake, Types, Refs
    <3>2. CASE Dispatch(c, act[c]) /\ UNCHANGED <<table, grainOf, ready, timer, teardown, want, victim>>
      BY <2>4, <3>1, <3>2, DispatchTypes DEF Wake, Aside, Types, table, background
    <3>3. CASE /\ Give(c, "failed")
               /\ UNCHANGED <<table, grainOf, ready, inFlight, lock, timer, teardown, victim>>
      BY <2>4, <3>3 DEF Wake, Aside, Give, Types, table, background, Ended
    <3>4. CASE Lookup(c, grainOf[act[c]])
      BY <2>4, <3>1, <3>4, LookupTypes DEF Wake, Aside, Types
    <3> QED
      BY <2>4, <3>2, <3>3, <3>4 DEF Wake
  <2>5. CASE Evicted(c)
    <3>1. want[c] \in Grain
      BY <2>5 DEF Evicted, Types, Refs
    <3> QED
      BY <2>5, <3>1, BuildTypes DEF Evicted, HookReturns, Aside, Types, Task, background
  <2>6. CASE Acquire(c)
    BY <2>6 DEF Acquire, Types, table, background, Counted
  <2>7. CASE pc[c] \in Counted /\ (\E how \in {"answered", "cancelled"} : Leave(c, how)) /\ asked' \in [Caller -> BOOLEAN]
    <3>1. act[c] \in Activation /\ grainOf[act[c]] \in Grain
      BY <2>7 DEF Types, Refs, Counted
    <3>2. AtEnd(grainOf[act[c]]) \subseteq Grain \X Grain
      BY <3>1 DEF AtEnd, Live, Types
    <3>3. PICK how \in {"answered", "cancelled"} : Leave(c, how)
      BY <2>7
    <3>4. before' \subseteq Grain \X Grain /\ usedSince' \in [Grain -> SUBSET Grain]
      BY <3>1, <3>2, <3>3 DEF Leave, UsedNow, Types
    <3>5. pc' \in [Caller -> Ended \union Counted \union {"waiting", "activating", "evicting"}]
      BY <3>3 DEF Leave, Types, Ended
    <3> QED
      BY <2>7, <3>1, <3>3, <3>4, <3>5 DEF Leave, Types
  <2>8. CASE Cancel(c)
    <3> asked' \in [Caller -> BOOLEAN]
      BY <2>8 DEF Cancel, Types
    <3>1. CASE ActivateFails(c, "cancelled")
      BY <3>1 DEF ActivateFails, Give, Without, Forgotten, Types, background, Ended
    <3>2. CASE Give(c, "cancelled") /\ UNCHANGED <<table, records, victim, background>>
      BY <3>2 DEF Give, Types, table, records, background, Ended
    <3>3. CASE /\ HookIsCut(c)
               /\ Give(c, "cancelled")
               /\ UNCHANGED <<table, grainOf, ready, inFlight, lock, idle, timer, background>>
      BY <3>3 DEF HookIsCut, Give, Types, Task, table, background, Ended
    <3>4. CASE UNCHANGED <<table, records, pc, act, want, victim, background>>
      BY <3>4 DEF Types, table, records, background
    <3> QED
      BY <2>8, <2>7, <3>1, <3>2, <3>3, <3>4 DEF Cancel
  <2> QED
    BY <1>2, <2>1, <2>2, <2>3, <2>4, <2>5, <2>6, <2>7, <2>8 DEF CallerStep, Finish, Counted, Types
<1>3. ASSUME NEW a \in Activation, RecordStep(a) PROVE Types'
  <2>1. CASE TimerStops(a) \/ TickBegins(a) \/ TickEnds(a)
    BY <2>1 DEF TimerStops, TickBegins, TickEnds, Types, table, calls, background
  <2>2. CASE SweepTakes(a)
    <3>1. grainOf[a] \in Grain
      BY <2>2 DEF SweepTakes, Types, Refs
    <3> QED
      BY <2>2, <3>1, DetachTypes DEF SweepTakes, Types, calls, Task
  <2>3. CASE GoesIdle(a) \/ SweepSkips(a) \/ Forget(a)
    BY <2>3 DEF GoesIdle, SweepSkips, Forget, Types, table, records, calls, background
  <2> QED
    BY <1>3, <2>1, <2>2, <2>3 DEF RecordStep
<1>4. ASSUME NEW t \in Task, TimersGone(t) PROVE Types'
    BY <1>4 DEF TimersGone, Types, table, calls, background
<1>5. ASSUME NEW g \in Grain, CloseTakes(g) \/ CloseSkips(g) PROVE Types'
    BY <1>5, DetachTypes DEF CloseTakes, CloseSkips, Types, Task, table, records, calls
<1>6. CASE NodeStep
    BY <1>6 DEF NodeStep, SweepBegins, SweepGoesOn, SweepEnds, CloseBegins, DrainBegins, DrainEnds,
         CloseGoesOn, CloseEnds, HookReturns, HookIsCut, Live, Types, Task, table,
         records, calls, background
<1> QED
    BY <1>1, <1>2, <1>3, <1>4, <1>5, <1>6 DEF Next

-----------------------------------------------------------------------------
(****************************** References *********************************)

LEMMA InitRefs == Init => Refs
BY RecordsAssumption DEF Init, Refs

LEMMA DetachRefs ==
    ASSUME Types, Refs, NEW t \in Task, NEW g \in Grain, Detach(t, g)
    PROVE  \A h \in Grain : activations'[h] # None => grainOf[activations'[h]] = h
BY DEF Types, Refs, Detach

LEMMA DispatchRefs ==
    ASSUME Types, Refs, NEW c \in Caller, NEW a \in Activation, grainOf[a] # None,
           Dispatch(c, a), UNCHANGED <<table, grainOf, want, stale>>
    PROVE  Refs'
BY RecordsAssumption DEF Types, Refs, Dispatch, table

LEMMA GiveRefs ==
    ASSUME Types, Refs, NEW c \in Caller, NEW how \in {"failed", "cancelled"}, Give(c, how),
           UNCHANGED <<grainOf, stale>>,
           \A g \in Grain : activations'[g] \in {activations[g], None}
    PROVE  Refs'
BY DEF Types, Refs, Give

LEMMA BuildRefs ==
    ASSUME Types, Refs, NEW c \in Caller, NEW g \in Grain, Build(c, g), UNCHANGED stale
    PROVE  Refs'
<1>1. CASE Give(c, "failed") /\ UNCHANGED <<table, grainOf>>
    BY <1>1, GiveRefs DEF table
<1>2. ASSUME NEW a \in Activation,
             grainOf[a] = None,
             grainOf' = [grainOf EXCEPT ![a] = g],
             activations' = [activations EXCEPT ![g] = a],
             pc' = [pc EXCEPT ![c] = "activating"],
             act' = [act EXCEPT ![c] = a],
             want' = [want EXCEPT ![c] = None]
      PROVE  Refs'
    BY <1>2, RecordsAssumption, GrainsAssumption DEF Types, Refs
<1> QED
    BY <1>1, <1>2 DEF Build

LEMMA LookupRefs ==
    ASSUME Types, Refs, NEW c \in Caller, NEW g \in Grain, Lookup(c, g), UNCHANGED background
    PROVE  Refs'
<1>1. CASE /\ activations[g] # None
           /\ pc' = [pc EXCEPT ![c] = "waiting"]
           /\ act' = [act EXCEPT ![c] = activations[g]]
           /\ UNCHANGED <<table, grainOf, ready, inFlight, lock, timer, teardown, want, victim>>
    BY <1>1, GrainsAssumption DEF Types, Refs, table, background
<1>2. CASE /\ activations[g] # None
           /\ Dispatch(c, activations[g])
           /\ UNCHANGED <<table, grainOf, ready, timer, teardown, want, victim>>
  <2>1. activations[g] \in Activation /\ grainOf[activations[g]] # None
    BY <1>2, GrainsAssumption DEF Types, Refs
  <2> QED
    BY <1>2, <2>1, DispatchRefs DEF background
<1>3. CASE /\ Give(c, "failed")
           /\ UNCHANGED <<table, grainOf, ready, inFlight, lock, timer, teardown, victim>>
    BY <1>3, GiveRefs DEF table, background
<1>4. CASE /\ Build(c, g)
           /\ UNCHANGED <<ready, inFlight, lock, timer, teardown, victim>>
    BY <1>4, BuildRefs DEF background
<1>5. CASE /\ Evict(c, g)
           /\ UNCHANGED <<grainOf, ready, inFlight, lock>>
  <2>1. PICK v \in Grain : Detach(c, v)
    BY <1>5 DEF Evict, Evictable, Live
  <2> QED
    BY <1>5, <2>1, DetachRefs, GrainsAssumption DEF Types, Refs, Evict, Task, background
<1> QED
    BY <1>1, <1>2, <1>3, <1>4, <1>5 DEF Lookup

LEMMA StepRefs == Types /\ Refs /\ [Next]_vars => Refs'
<1> SUFFICES ASSUME Types, Refs, [Next]_vars PROVE Refs'
    OBVIOUS
<1>1. CASE UNCHANGED vars
    BY <1>1 DEF Refs, vars, table, records, calls, background
<1>2. ASSUME NEW c \in Caller, CallerStep(c) PROVE Refs'
  <2>1. ASSUME NEW g \in Grain, Call(c, g) PROVE Refs'
    BY <2>1, LookupRefs DEF Call
  <2>2. CASE ActivateReturns(c)
    <3>1. act[c] \in Activation /\ grainOf[act[c]] # None
      BY <2>2 DEF ActivateReturns, Types, Refs
    <3> QED
      BY <2>2, <3>1, DispatchRefs DEF ActivateReturns, Aside, background
  <2>3. ASSUME NEW how \in {"failed", "cancelled"}, ActivateFails(c, how) PROVE Refs'
    BY <2>3, GiveRefs DEF ActivateFails, Types, background
  <2>4. CASE Wake(c)
    <3>1. act[c] \in Activation /\ grainOf[act[c]] \in Grain /\ grainOf[act[c]] # None
      BY <2>4, GrainsAssumption DEF Wake, Types, Refs
    <3>2. CASE Dispatch(c, act[c]) /\ UNCHANGED <<table, grainOf, ready, timer, teardown, want, victim>>
      BY <2>4, <3>1, <3>2, DispatchRefs DEF Wake, Aside, background
    <3>3. CASE /\ Give(c, "failed")
               /\ UNCHANGED <<table, grainOf, ready, inFlight, lock, timer, teardown, victim>>
      BY <2>4, <3>3, GiveRefs DEF Wake, Aside, table, background
    <3>4. CASE Lookup(c, grainOf[act[c]])
      BY <2>4, <3>1, <3>4, LookupRefs DEF Wake, Aside
    <3> QED
      BY <2>4, <3>2, <3>3, <3>4 DEF Wake
  <2>5. CASE Evicted(c)
    <3>1. want[c] \in Grain
      BY <2>5 DEF Evicted, Types, Refs
    <3> QED
      BY <2>5, <3>1, BuildRefs DEF Evicted, Aside, background
  <2>6. CASE Acquire(c)
    BY <2>6 DEF Acquire, Types, Refs, table, background
  <2>7. ASSUME NEW how \in {"answered", "cancelled"}, Leave(c, how) PROVE Refs'
    <3>1. \/ pc' = [pc EXCEPT ![c] = how]
          \/ pc' = [pc EXCEPT ![c] = "keyerror"]
      BY <2>7 DEF Leave
    <3> QED
      BY <2>7, <3>1 DEF Leave, Types, Refs
  <2>8. CASE Cancel(c)
    <3>1. CASE Give(c, "cancelled") /\ UNCHANGED <<activations, grainOf, stale>>
      BY <3>1, GiveRefs
    <3>2. CASE UNCHANGED <<table, records, pc, act, want, victim, background>>
      BY <3>2 DEF Refs, table, records, background
    <3> QED
      BY <2>8, <2>3, <2>7, <3>1, <3>2 DEF Cancel, table, records, background
  <2> QED
    BY <1>2, <2>1, <2>2, <2>3, <2>4, <2>5, <2>6, <2>7, <2>8 DEF CallerStep, Finish
<1>3. ASSUME NEW a \in Activation, RecordStep(a) PROVE Refs'
  <2>1. CASE TimerStops(a) \/ TickBegins(a) \/ TickEnds(a) \/ GoesIdle(a)
    BY <2>1 DEF TimerStops, TickBegins, TickEnds, GoesIdle, Refs, table, calls, background
  <2>2. CASE SweepTakes(a)
    <3>1. grainOf[a] \in Grain
      BY <2>2 DEF SweepTakes, Types, Refs
    <3> QED
      BY <2>2, <3>1, DetachRefs DEF SweepTakes, Refs, calls, Task
  <2>3. CASE SweepSkips(a)
    BY <2>3 DEF SweepSkips, Refs, table, records, calls
  <2>4. CASE Forget(a)
    BY <2>4 DEF Forget, Unreferenced, Types, Refs, table, calls
  <2> QED
    BY <1>3, <2>1, <2>2, <2>3, <2>4 DEF RecordStep
<1>4. ASSUME NEW t \in Task, TimersGone(t) PROVE Refs'
    BY <1>4 DEF TimersGone, Refs, table, calls, background
<1>5. ASSUME NEW g \in Grain, CloseTakes(g) \/ CloseSkips(g) PROVE Refs'
    BY <1>5, DetachRefs DEF CloseTakes, CloseSkips, Refs, Task, table, records, calls
<1>6. CASE NodeStep
    BY <1>6, GrainsAssumption DEF NodeStep, SweepBegins, SweepGoesOn, SweepEnds, CloseBegins,
         DrainBegins, DrainEnds, CloseGoesOn, CloseEnds, Live, Types, Refs, table,
         records, calls, background
<1> QED
    BY <1>1, <1>2, <1>3, <1>4, <1>5, <1>6 DEF Next

\* Every variable keeps its type, and what is referred to is in use.
THEOREM TypesCorrect == Spec => [](Types /\ Refs)
BY InitTypes, InitRefs, StepTypes, StepRefs, PTL DEF Spec

-----------------------------------------------------------------------------
(************************ Cancellation is one's own ************************)

LEMMA LookupOutcome ==
    ASSUME NEW c \in Caller, NEW g \in Grain, Lookup(c, g)
    PROVE  \E s \in {"waiting", "refused", "serving", "locking", "failed", "activating", "evicting"} :
              pc' = [pc EXCEPT ![c] = s]
BY DEF Lookup, Dispatch, Give, Build, Evict

LEMMA StepCancelIsolation == Types /\ CancelIsolation /\ [Next]_vars => CancelIsolation'
<1> SUFFICES ASSUME Types, CancelIsolation, [Next]_vars PROVE CancelIsolation'
    OBVIOUS
<1>1. CASE UNCHANGED <<pc, asked>>
    BY <1>1 DEF CancelIsolation
<1>2. ASSUME NEW c \in Caller, CallerStep(c) PROVE CancelIsolation'
  <2>1. ASSUME NEW s, s # "cancelled", pc' = [pc EXCEPT ![c] = s],
               asked' = asked \/ asked' = [asked EXCEPT ![c] = FALSE]
        PROVE  CancelIsolation'
    BY <2>1 DEF CancelIsolation, Types
  <2>2. ASSUME NEW g \in Grain, Call(c, g) PROVE CancelIsolation'
    <3>1. PICK s \in {"waiting", "refused", "serving", "locking", "failed", "activating", "evicting"} :
             pc' = [pc EXCEPT ![c] = s]
      BY <2>2, LookupOutcome DEF Call
    <3> QED
      BY <2>1, <2>2, <3>1 DEF Call
  <2>3. CASE Wake(c)
    <3>1. CASE Lookup(c, grainOf[act[c]])
      BY <2>1, <2>3, <3>1 DEF Wake, Aside, Lookup, Dispatch, Give, Build, Evict
    <3>2. CASE Dispatch(c, act[c]) \/ Give(c, "failed")
      BY <2>1, <2>3, <3>2 DEF Wake, Aside, Dispatch, Give
    <3> QED
      BY <2>3, <3>1, <3>2 DEF Wake
  <2>4. CASE ActivateReturns(c)
    BY <2>1, <2>4 DEF ActivateReturns, Aside, Dispatch
  <2>5. CASE ActivateFails(c, "failed") /\ UNCHANGED asked
    BY <2>1, <2>5 DEF ActivateFails, Give
  <2>6. CASE Evicted(c)
    BY <2>1, <2>6 DEF Evicted, Aside, Build, Give
  <2>7. CASE Acquire(c)
    BY <2>1, <2>7 DEF Acquire
  <2>8. CASE Finish(c)
    BY <2>1, <2>8 DEF Finish, Leave
  <2>9. CASE Cancel(c)
    <3>1. asked' = [asked EXCEPT ![c] = TRUE]
      BY <2>9 DEF Cancel
    <3>2. \E s : pc' = [pc EXCEPT ![c] = s] \/ pc' = pc
      BY <2>9 DEF Cancel, Give, ActivateFails, Leave
    <3> QED
      BY <3>1, <3>2 DEF CancelIsolation, Types
  <2> QED
    BY <1>2, <2>2, <2>3, <2>4, <2>5, <2>6, <2>7, <2>8, <2>9 DEF CallerStep
<1>3. CASE \E a \in Activation : RecordStep(a)
    BY <1>1, <1>3 DEF RecordStep, TimerStops, TickBegins, TickEnds, GoesIdle, SweepTakes, SweepSkips,
         Forget, calls
<1>4. CASE (\E t \in Task : TimersGone(t)) \/ (\E g \in Grain : CloseTakes(g) \/ CloseSkips(g))
    BY <1>1, <1>4 DEF TimersGone, CloseTakes, CloseSkips, calls
<1>5. CASE NodeStep
    BY <1>1, <1>5 DEF NodeStep, SweepBegins, SweepGoesOn, SweepEnds, CloseBegins, DrainBegins,
         DrainEnds, CloseGoesOn, CloseEnds, calls
<1> QED
    BY <1>1, <1>2, <1>3, <1>4, <1>5 DEF Next, vars, calls

\* A call ends as cancelled only if it was itself cancelled or timed out: whoever else's
\* cancellation stops the activation it waits for (_activated).
THEOREM OwnCancellationOnly == Spec => []CancelIsolation
<1>1. Init => CancelIsolation
    BY DEF Init, CancelIsolation
<1> QED
    BY <1>1, StepCancelIsolation, TypesCorrect, PTL DEF Spec

-----------------------------------------------------------------------------
(************************* Waiting is for a builder ************************)

\* An activation under way is run by exactly one task; schedules belong to activated grains;
\* an unused record is as new.
Builders ==
    /\ \A a \in Activation :
         grainOf[a] # None /\ ready[a] = "pending"
            => \E b \in Caller : pc[b] = "activating" /\ act[b] = a
    /\ \A c \in Caller : pc[c] = "activating" => ready[act[c]] = "pending"
    /\ \A c, d \in Caller :
         pc[c] = "activating" /\ pc[d] = "activating" /\ act[c] = act[d] => c = d
    /\ \A a \in Activation : ready[a] # "ready" => timer[a] = "none"
    /\ \A a \in Activation :
         grainOf[a] = None => ready[a] = "pending" /\ teardown[a] = "none"

LEMMA InitBuilders == Init => Builders
BY DEF Init, Builders

\* Steps that leave the builders and what they build alone.
LEMMA FrameBuilders ==
    ASSUME Types, Refs, Builders, UNCHANGED <<grainOf, ready>>,
           \A c \in Caller : /\ pc'[c] = "activating" <=> pc[c] = "activating"
                             /\ pc[c] = "activating" => act'[c] = act[c],
           \A a \in Activation : timer[a] = "none" => timer'[a] = "none",
           \A a \in Activation : grainOf[a] = None => teardown'[a] = teardown[a]
    PROVE  Builders'
BY DEF Types, Builders

LEMMA BuildBuilders ==
    ASSUME Types, Refs, Builders, NEW c \in Caller, NEW g \in Grain, Build(c, g),
           pc[c] # "activating", UNCHANGED <<ready, timer>>,
           \A a \in Activation : grainOf[a] = None => teardown'[a] = teardown[a]
    PROVE  Builders'
<1>1. CASE Give(c, "failed") /\ UNCHANGED <<table, grainOf>>
    BY <1>1, FrameBuilders DEF Give, Types
<1>2. ASSUME NEW a \in Activation,
             grainOf[a] = None,
             grainOf' = [grainOf EXCEPT ![a] = g],
             pc' = [pc EXCEPT ![c] = "activating"],
             act' = [act EXCEPT ![c] = a]
      PROVE  Builders'
    BY <1>2, RecordsAssumption, GrainsAssumption DEF Types, Refs, Builders
<1> QED
    BY <1>1, <1>2 DEF Build

LEMMA LookupBuilders ==
    ASSUME Types, Refs, Builders, NEW c \in Caller, NEW g \in Grain, Lookup(c, g),
           pc[c] # "activating"
    PROVE  Builders'
<1>1. CASE /\ \E s \in {"waiting", "refused", "serving", "locking", "failed"} :
                 pc' = [pc EXCEPT ![c] = s]
           /\ \E a : act' = [act EXCEPT ![c] = a]
           /\ UNCHANGED <<grainOf, ready, timer, teardown>>
    BY <1>1, FrameBuilders DEF Types
<1>2. CASE /\ Build(c, g)
           /\ UNCHANGED <<ready, inFlight, lock, timer, teardown, victim>>
    BY <1>2, BuildBuilders
<1>3. CASE /\ Evict(c, g)
           /\ UNCHANGED <<grainOf, ready, inFlight, lock>>
  <2>1. PICK v \in Grain : Detach(c, v)
    BY <1>3 DEF Evict, Evictable, Live
  <2>2. \A a \in Activation : timer[a] = "none" => timer'[a] = "none"
    BY <2>1 DEF Detach, AfterCancel, Types
  <2>3. \A a \in Activation : grainOf[a] = None => teardown'[a] = teardown[a]
    BY <2>1, GrainsAssumption DEF Detach, Types, Refs
  <2> QED
    BY <1>3, <2>2, <2>3, FrameBuilders DEF Evict, Types
<1> QED
    BY <1>1, <1>2, <1>3 DEF Lookup, Dispatch, Give, table

LEMMA StepBuilders == Types /\ Refs /\ Builders /\ [Next]_vars => Builders'
<1> SUFFICES ASSUME Types, Refs, Builders, [Next]_vars PROVE Builders'
    OBVIOUS
<1>1. CASE UNCHANGED vars
    BY <1>1, FrameBuilders DEF vars, table, records, calls, background
<1>2. ASSUME NEW c \in Caller, CallerStep(c) PROVE Builders'
  <2>1. ASSUME NEW g \in Grain, Call(c, g) PROVE Builders'
    BY <2>1, LookupBuilders DEF Call, Ended
  <2>2. CASE ActivateReturns(c)
    <3>1. PICK s \in {"refused", "serving", "locking"}, a \in {act[c], None} :
             pc' = [pc EXCEPT ![c] = s] /\ act' = [act EXCEPT ![c] = a]
      BY <2>2 DEF ActivateReturns, Dispatch
    <3>2. act[c] \in Activation /\ grainOf[act[c]] # None
      BY <2>2 DEF ActivateReturns, Types, Refs
    <3> QED
      BY <2>2, <3>1, <3>2 DEF ActivateReturns, Types, Builders
  <2>3. ASSUME NEW how \in {"failed", "cancelled"}, ActivateFails(c, how) PROVE Builders'
    <3>1. act[c] \in Activation /\ grainOf[act[c]] # None
      BY <2>3 DEF ActivateFails, Types, Refs
    <3> QED
      BY <2>3, <3>1 DEF ActivateFails, Give, Types, Builders
  <2>4. CASE Wake(c)
    <3>1. grainOf[act[c]] \in Grain
      BY <2>4 DEF Wake, Types, Refs
    <3>2. CASE (Dispatch(c, act[c]) \/ Give(c, "failed")) /\ UNCHANGED <<grainOf, ready, timer, teardown>>
      BY <2>4, <3>2, FrameBuilders DEF Wake, Dispatch, Give, Types
    <3>3. CASE Lookup(c, grainOf[act[c]])
      BY <2>4, <3>1, <3>3, LookupBuilders DEF Wake
    <3> QED
      BY <2>4, <3>2, <3>3 DEF Wake
  <2>5. CASE Evicted(c)
    <3>1. want[c] \in Grain
      BY <2>5 DEF Evicted, Types, Refs
    <3>2. \A a \in Activation : grainOf[a] = None => teardown'[a] = teardown[a]
      BY <2>5 DEF Evicted, HookReturns, Types, Builders
    <3> QED
      BY <2>5, <3>1, <3>2, BuildBuilders DEF Evicted
  <2>6. CASE Acquire(c)
    BY <2>6, FrameBuilders DEF Acquire, Types
  <2>7. ASSUME NEW how \in {"answered", "cancelled"}, pc[c] \in Counted, Leave(c, how) PROVE Builders'
    <3>1. \/ pc' = [pc EXCEPT ![c] = how]
          \/ pc' = [pc EXCEPT ![c] = "keyerror"]
      BY <2>7 DEF Leave
    <3> QED
      BY <2>7, <3>1, FrameBuilders DEF Leave, Types, Counted
  <2>8. CASE Cancel(c)
    <3>1. CASE /\ pc[c] = "waiting"
               /\ Give(c, "cancelled")
               /\ UNCHANGED <<table, records, victim, background>>
      BY <3>1, FrameBuilders DEF Give, Types, records
    <3>2. CASE /\ pc[c] = "evicting"
               /\ HookIsCut(c)
               /\ Give(c, "cancelled")
               /\ UNCHANGED <<table, grainOf, ready, inFlight, lock, idle, timer, background>>
      <4>1. \A a \in Activation : grainOf[a] = None => teardown'[a] = teardown[a]
        BY <3>2 DEF HookIsCut, Types, Builders
      <4> QED
        BY <3>2, <4>1, FrameBuilders DEF Give, Types
    <3>3. CASE UNCHANGED <<table, records, pc, act, want, victim, background>>
      BY <3>3, FrameBuilders DEF records
    <3> QED
      BY <2>8, <2>3, <2>7, <3>1, <3>2, <3>3 DEF Cancel
  <2> QED
    BY <1>2, <2>1, <2>2, <2>3, <2>4, <2>5, <2>6, <2>7, <2>8 DEF CallerStep, Finish, Counted
<1>3. ASSUME NEW t \in Task, NEW g \in Grain, Detach(t, g), UNCHANGED <<grainOf, ready, calls>>
      PROVE  Builders'
    BY <1>3, FrameBuilders, GrainsAssumption DEF Detach, AfterCancel, Types, Refs, calls
<1>4. ASSUME NEW a \in Activation, RecordStep(a) PROVE Builders'
  <2>1. CASE TimerStops(a) \/ TickBegins(a) \/ TickEnds(a) \/ GoesIdle(a) \/ SweepSkips(a)
    BY <2>1, FrameBuilders DEF TimerStops, TickBegins, TickEnds, GoesIdle, SweepSkips, Types, records,
         calls
  <2>2. CASE SweepTakes(a)
    <3>1. grainOf[a] \in Grain
      BY <2>2 DEF SweepTakes, Types, Refs
    <3> QED
      BY <1>3, <2>2, <3>1 DEF SweepTakes, Task
  <2>3. CASE Forget(a)
    BY <2>3 DEF Forget, Unreferenced, Types, Builders, calls
  <2> QED
    BY <1>4, <2>1, <2>2, <2>3 DEF RecordStep
<1>5. ASSUME NEW t \in Task, TimersGone(t) PROVE Builders'
    BY <1>5, FrameBuilders DEF TimersGone, Types, Builders, calls
<1>6. ASSUME NEW g \in Grain, CloseTakes(g) \/ CloseSkips(g) PROVE Builders'
    BY <1>3, <1>6, FrameBuilders DEF CloseTakes, CloseSkips, Task, records, calls
<1>7. CASE NodeStep
  <2>1. \A a \in Activation : grainOf[a] = None => teardown'[a] = teardown[a]
    BY <1>7 DEF NodeStep, SweepBegins, SweepGoesOn, SweepEnds, CloseBegins, DrainBegins, DrainEnds,
         CloseGoesOn, CloseEnds, HookReturns, HookIsCut, Types, Builders, records
  <2> QED
    BY <1>7, <2>1, FrameBuilders DEF NodeStep, SweepBegins, SweepGoesOn, SweepEnds, CloseBegins,
         DrainBegins, DrainEnds, CloseGoesOn, CloseEnds, records, calls
<1> QED
    BY <1>1, <1>2, <1>4, <1>5, <1>6, <1>7 DEF Next

LEMMA BuildersCorrect == Spec => [](Types /\ Refs /\ Builders)
BY InitBuilders, StepBuilders, TypesCorrect, PTL DEF Spec

\* Nobody waits for an activation that no task is running any more (_activated).
THEOREM NobodyWaitsInVain == Spec => []WaitersHaveBuilder
<1>1. Types /\ Refs /\ Builders => WaitersHaveBuilder
    BY DEF Types, Refs, Builders, WaitersHaveBuilder
<1> QED
    BY <1>1, BuildersCorrect, PTL

-----------------------------------------------------------------------------
(*************************** The count is exact ****************************)

\* The calls that are counted on a record, and the tick that is.
Users(a) == {c \in Caller : pc[c] \in Counted /\ act[c] = a}
Ticks(a) == timer[a] \in {"ticking", "unwinding"}

LEMMA ExactMeans ==
    InFlightExact <=>
        \A a \in Activation : inFlight[a] = Cardinality(Users(a)) + (IF Ticks(a) THEN 1 ELSE 0)
BY DEF InFlightExact, Users, Ticks

LEMMA ExactMeansNext ==
    InFlightExact' <=>
        \A a \in Activation :
            inFlight'[a] = Cardinality(Users(a)') + (IF Ticks(a)' THEN 1 ELSE 0)
BY DEF InFlightExact, Users, Ticks

LEMMA UsersFinite == \A a : IsFiniteSet(Users(a)) /\ Cardinality(Users(a)) \in Nat
BY CallersAssumption, FS_Subset, FS_CardinalityType DEF Users

\* Steps that start, end or count nothing.
LEMMA FrameExact ==
    ASSUME Types, InFlightExact, UNCHANGED inFlight,
           \A c \in Caller : \/ UNCHANGED <<pc[c], act[c]>>
                             \/ pc[c] \notin Counted /\ pc'[c] \notin Counted
                             \/ pc[c] \in Counted /\ pc'[c] \in Counted /\ act'[c] = act[c],
           \A a \in Activation : Ticks(a)' <=> Ticks(a)
    PROVE  InFlightExact'
<1>1. \A a \in Activation : Users(a)' = Users(a)
    BY DEF Users
<1> QED
    BY <1>1, ExactMeans, ExactMeansNext

LEMMA JoinExact ==
    ASSUME Types, InFlightExact, NEW c \in Caller, NEW a \in Activation, pc[c] \notin Counted,
           NEW s \in Counted, pc' = [pc EXCEPT ![c] = s], act' = [act EXCEPT ![c] = a],
           inFlight' = [inFlight EXCEPT ![a] = @ + 1],
           \A b \in Activation : Ticks(b)' <=> Ticks(b)
    PROVE  InFlightExact'
<1> SUFFICES ASSUME NEW b \in Activation
             PROVE  inFlight'[b] = Cardinality(Users(b)') + (IF Ticks(b)' THEN 1 ELSE 0)
    BY ExactMeansNext
<1>1. inFlight[b] = Cardinality(Users(b)) + (IF Ticks(b) THEN 1 ELSE 0)
    BY ExactMeans
<1>2. CASE b = a
  <2>1. Users(b)' = Users(b) \union {c} /\ c \notin Users(b)
    BY <1>2 DEF Users, Types
  <2>2. Cardinality(Users(b)') = Cardinality(Users(b)) + 1
    BY <2>1, UsersFinite, FS_AddElement
  <2> QED
    BY <1>1, <1>2, <2>2, UsersFinite DEF Types
<1>3. CASE b # a
  <2>1. Users(b)' = Users(b)
    BY <1>3 DEF Users, Types
  <2> QED
    BY <1>1, <1>3, <2>1 DEF Types
<1> QED
    BY <1>2, <1>3

LEMMA LeaveExact ==
    ASSUME Types, InFlightExact, NEW c \in Caller, pc[c] \in Counted, act[c] \in Activation,
           pc'[c] \notin Counted, \A d \in Caller \ {c} : UNCHANGED <<pc[d], act[d]>>,
           inFlight' = [inFlight EXCEPT ![act[c]] = @ - 1], UNCHANGED timer
    PROVE  InFlightExact'
<1> SUFFICES ASSUME NEW b \in Activation
             PROVE  inFlight'[b] = Cardinality(Users(b)') + (IF Ticks(b)' THEN 1 ELSE 0)
    BY ExactMeansNext
<1>0. Ticks(b)' <=> Ticks(b)
    BY DEF Ticks
<1>1. inFlight[b] = Cardinality(Users(b)) + (IF Ticks(b) THEN 1 ELSE 0)
    BY ExactMeans
<1>2. CASE b = act[c]
  <2>1. Users(b)' = Users(b) \ {c} /\ c \in Users(b)
    BY <1>2 DEF Users, Types
  <2>2. Cardinality(Users(b)') = Cardinality(Users(b)) - 1
    BY <2>1, UsersFinite, FS_RemoveElement
  <2> QED
    BY <1>0, <1>1, <1>2, <2>2, UsersFinite DEF Types
<1>3. CASE b # act[c]
  <2>1. Users(b)' = Users(b)
    BY <1>3 DEF Users, Types
  <2> QED
    BY <1>0, <1>1, <1>3, <2>1 DEF Types
<1> QED
    BY <1>2, <1>3

LEMMA TickExact ==
    ASSUME Types, InFlightExact, NEW a \in Activation, UNCHANGED <<pc, act>>,
           \/ Ticks(a) /\ ~Ticks(a)' /\ inFlight' = [inFlight EXCEPT ![a] = @ - 1]
           \/ ~Ticks(a) /\ Ticks(a)' /\ inFlight' = [inFlight EXCEPT ![a] = @ + 1],
           \A b \in Activation \ {a} : Ticks(b)' <=> Ticks(b)
    PROVE  InFlightExact'
<1>1. \A b \in Activation : Users(b)' = Users(b)
    BY DEF Users
<1> QED
    BY <1>1, UsersFinite, ExactMeans, ExactMeansNext DEF Types

LEMMA DetachTicks ==
    ASSUME Types, NEW t \in Task, NEW g \in Grain, Detach(t, g)
    PROVE  \A a \in Activation : Ticks(a)' <=> Ticks(a)
BY DEF Detach, AfterCancel, Types, Ticks

LEMMA DispatchExact ==
    ASSUME Types, InFlightExact, NEW c \in Caller, NEW a \in Activation, pc[c] \notin Counted,
           Dispatch(c, a), \A b \in Activation : Ticks(b)' <=> Ticks(b)
    PROVE  InFlightExact'
<1>1. CASE pc' = [pc EXCEPT ![c] = "refused"] /\ act' = [act EXCEPT ![c] = None] /\ UNCHANGED inFlight
    BY <1>1, FrameExact DEF Types, Counted
<1>2. CASE /\ \E s \in {"serving", "locking"} : pc' = [pc EXCEPT ![c] = s]
           /\ act' = [act EXCEPT ![c] = a]
           /\ inFlight' = [inFlight EXCEPT ![a] = @ + 1]
    BY <1>2, JoinExact DEF Counted
<1> QED
    BY <1>1, <1>2 DEF Dispatch

LEMMA LookupExact ==
    ASSUME Types, Refs, InFlightExact, NEW c \in Caller, NEW g \in Grain, pc[c] \notin Counted,
           Lookup(c, g)
    PROVE  InFlightExact'
<1>1. CASE activations[g] # None /\ Dispatch(c, activations[g]) /\ UNCHANGED timer
    BY <1>1, DispatchExact DEF Types, Ticks
<1>2. CASE /\ \E s \in {"waiting", "failed", "activating"} : pc' = [pc EXCEPT ![c] = s]
           /\ \E a : act' = [act EXCEPT ![c] = a]
           /\ UNCHANGED <<inFlight, timer>>
    BY <1>2, FrameExact DEF Types, Counted, Ticks
<1>3. CASE Evict(c, g) /\ UNCHANGED inFlight
  <2>1. PICK v \in Grain : Detach(c, v)
    BY <1>3 DEF Evict, Evictable, Live
  <2>2. \A a \in Activation : Ticks(a)' <=> Ticks(a)
    BY <2>1, DetachTicks DEF Task
  <2> QED
    BY <1>3, <2>2, FrameExact DEF Evict, Types, Counted
<1> QED
    BY <1>1, <1>2, <1>3 DEF Lookup, Give, Build

LEMMA StepExact == Types /\ Refs /\ Builders /\ InFlightExact /\ [Next]_vars => InFlightExact'
<1> SUFFICES ASSUME Types, Refs, Builders, InFlightExact, [Next]_vars PROVE InFlightExact'
    OBVIOUS
<1>1. CASE UNCHANGED vars
    BY <1>1, FrameExact DEF vars, records, calls, Ticks
<1>2. ASSUME NEW c \in Caller, CallerStep(c) PROVE InFlightExact'
  <2>1. ASSUME NEW g \in Grain, Call(c, g) PROVE InFlightExact'
    BY <2>1, LookupExact DEF Call, Ended, Counted
  <2>2. CASE ActivateReturns(c)
    <3>1. act[c] \in Activation /\ ready[act[c]] = "pending" /\ timer[act[c]] = "none"
      BY <2>2 DEF ActivateReturns, Types, Refs, Builders
    <3>2. \A b \in Activation : Ticks(b)' <=> Ticks(b)
      BY <2>2, <3>1 DEF ActivateReturns, Types, Ticks
    <3> QED
      BY <2>2, <3>1, <3>2, DispatchExact DEF ActivateReturns, Counted
  <2>3. ASSUME NEW how \in {"failed", "cancelled"}, ActivateFails(c, how) PROVE InFlightExact'
    BY <2>3, FrameExact DEF ActivateFails, Give, Types, Counted, Ticks
  <2>4. CASE Wake(c)
    <3>1. act[c] \in Activation /\ grainOf[act[c]] \in Grain /\ pc[c] \notin Counted
      BY <2>4 DEF Wake, Types, Refs, Counted
    <3>2. CASE Dispatch(c, act[c]) /\ UNCHANGED timer
      BY <3>1, <3>2, DispatchExact DEF Ticks
    <3>3. CASE Give(c, "failed") /\ UNCHANGED <<inFlight, timer>>
      BY <3>1, <3>3, FrameExact DEF Give, Types, Counted, Ticks
    <3>4. CASE Lookup(c, grainOf[act[c]])
      BY <3>1, <3>4, LookupExact
    <3> QED
      BY <2>4, <3>2, <3>3, <3>4 DEF Wake
  <2>5. CASE Evicted(c)
    BY <2>5, FrameExact DEF Evicted, Build, Give, Types, Counted, Ticks
  <2>6. CASE Acquire(c)
    BY <2>6, FrameExact DEF Acquire, Types, Counted, Ticks
  <2>7. ASSUME NEW how \in {"answered", "cancelled"}, pc[c] \in Counted, Leave(c, how)
        PROVE  InFlightExact'
    <3>1. \/ pc' = [pc EXCEPT ![c] = how]
          \/ pc' = [pc EXCEPT ![c] = "keyerror"]
      BY <2>7 DEF Leave
    <3>2. act[c] \in Activation
      BY <2>7 DEF Types, Refs, Counted
    <3>3. pc'[c] \notin Counted /\ \A d \in Caller \ {c} : UNCHANGED <<pc[d], act[d]>>
      BY <2>7, <3>1 DEF Leave, Types, Counted
    <3> QED
      BY <2>7, <3>2, <3>3, LeaveExact DEF Leave
  <2>8. CASE Cancel(c)
    <3>1. CASE pc[c] \in {"waiting", "evicting"} /\ Give(c, "cancelled") /\ UNCHANGED <<inFlight, timer>>
      BY <3>1, FrameExact DEF Give, Types, Counted, Ticks
    <3>2. CASE UNCHANGED <<records, pc, act>>
      BY <3>2, FrameExact DEF records, Ticks
    <3> QED
      BY <2>8, <2>3, <2>7, <3>1, <3>2 DEF Cancel, records
  <2> QED
    BY <1>2, <2>1, <2>2, <2>3, <2>4, <2>5, <2>6, <2>7, <2>8 DEF CallerStep, Finish, Counted
<1>3. ASSUME NEW a \in Activation, RecordStep(a) PROVE InFlightExact'
  <2>1. CASE TimerStops(a)
    <3>1. CASE timer[a] = "unwinding"
      BY <2>1, <3>1, TickExact DEF TimerStops, Types, Ticks, calls
    <3>2. CASE timer[a] = "cancelled"
      <4>1. UNCHANGED inFlight
        BY <2>1, <3>2 DEF TimerStops, Types
      <4> QED
        BY <2>1, <3>2, <4>1, FrameExact DEF TimerStops, Types, Ticks, calls
    <3> QED
      BY <2>1, <3>1, <3>2 DEF TimerStops
  <2>2. CASE TickBegins(a) \/ TickEnds(a)
    BY <2>2, TickExact DEF TickBegins, TickEnds, Types, Ticks, calls
  <2>3. CASE GoesIdle(a) \/ SweepSkips(a)
    BY <2>3, FrameExact DEF GoesIdle, SweepSkips, Ticks, records, calls
  <2>4. CASE SweepTakes(a)
    <3>1. grainOf[a] \in Grain
      BY <2>4 DEF SweepTakes, Types, Refs
    <3> QED
      BY <2>4, <3>1, DetachTicks, FrameExact DEF SweepTakes, Task, calls
  <2>5. CASE Forget(a)
    BY <2>5, FrameExact DEF Forget, Unreferenced, Types, Ticks, calls
  <2> QED
    BY <1>3, <2>1, <2>2, <2>3, <2>4, <2>5 DEF RecordStep
<1>4. ASSUME NEW t \in Task, TimersGone(t) PROVE InFlightExact'
    BY <1>4, FrameExact DEF TimersGone, Ticks, calls
<1>5. ASSUME NEW g \in Grain, CloseTakes(g) \/ CloseSkips(g) PROVE InFlightExact'
    BY <1>5, DetachTicks, FrameExact DEF CloseTakes, CloseSkips, Task, Ticks, records, calls
<1>6. CASE NodeStep
  <2>1. UNCHANGED <<inFlight, timer, pc, act>>
    BY <1>6 DEF NodeStep, SweepBegins, SweepGoesOn, SweepEnds, CloseBegins, DrainBegins, DrainEnds,
         CloseGoesOn, CloseEnds, records, calls
  <2> QED
    BY <2>1, FrameExact DEF Ticks
<1> QED
    BY <1>1, <1>2, <1>3, <1>4, <1>5, <1>6 DEF Next

\* in_flight is the number of calls and ticks that use the record, whichever way they end
\* (_counted, _tick).
THEOREM CountIsExact == Spec => []InFlightExact
<1>1. Init => InFlightExact
  <2>1. SUFFICES ASSUME Init PROVE InFlightExact
    OBVIOUS
  <2>2. \A a \in Activation : Users(a) = {}
    BY <2>1 DEF Init, Users, Counted
  <2>3. Cardinality({}) = 0
    BY FS_EmptySet
  <2> QED
    BY <2>1, <2>2, <2>3, ExactMeans DEF Init, Ticks
<1> QED
    BY <1>1, StepExact, BuildersCorrect, PTL DEF Spec

\* Every variable has its type and no count is negative.
THEOREM TypeCorrect == Spec => []TypeOK
<1>1. Types /\ InFlightExact => TypeOK
  <2>1. SUFFICES ASSUME Types, InFlightExact, NEW a \in Activation PROVE inFlight[a] >= 0
    BY DEF TypeOK
  <2> QED
    BY <2>1, ExactMeans, UsersFinite
<1> QED
    BY <1>1, CountIsExact, TypesCorrect, PTL

-----------------------------------------------------------------------------
(************************ The lock, record by record ***********************)

\* Who serves on a record of a grain that is not reentrant holds its lock.
Locked ==
    \A c \in Caller :
        pc[c] = "serving" /\ grainOf[act[c]] \notin Reentrant => lock[act[c]] = c

LEMMA FrameLocked ==
    ASSUME Types, Refs, Locked, UNCHANGED lock,
           \A c \in Caller : pc'[c] = "serving" => pc[c] = "serving" /\ act'[c] = act[c],
           \A a \in Activation : grainOf'[a] # grainOf[a] =>
               grainOf[a] = None \/ \A c \in Caller : act[c] # a
    PROVE  Locked'
BY DEF Types, Refs, Locked

LEMMA DispatchLocked ==
    ASSUME Types, Refs, Locked, NEW c \in Caller, NEW a \in Activation, Dispatch(c, a),
           UNCHANGED grainOf
    PROVE  Locked'
<1>1. CASE pc' = [pc EXCEPT ![c] = "refused"] /\ act' = [act EXCEPT ![c] = None] /\ UNCHANGED lock
    BY <1>1, FrameLocked DEF Types
<1>2. CASE /\ act' = [act EXCEPT ![c] = a]
           /\ \/ /\ grainOf[a] \in Reentrant
                 /\ pc' = [pc EXCEPT ![c] = "serving"]
                 /\ UNCHANGED lock
              \/ /\ pc' = [pc EXCEPT ![c] = "locking"]
                 /\ UNCHANGED lock
              \/ /\ lock[a] = None
                 /\ pc' = [pc EXCEPT ![c] = "serving"]
                 /\ lock' = [lock EXCEPT ![a] = c]
    BY <1>2, CallersAssumption DEF Types, Refs, Locked
<1> QED
    BY <1>1, <1>2 DEF Dispatch, LockIsOpen

LEMMA LookupLocked ==
    ASSUME Types, Refs, Locked, NEW c \in Caller, NEW g \in Grain, Lookup(c, g)
    PROVE  Locked'
<1>1. CASE activations[g] # None /\ Dispatch(c, activations[g]) /\ UNCHANGED grainOf
    BY <1>1, DispatchLocked DEF Types
<1>2. CASE /\ \E s \in {"waiting", "failed", "activating", "evicting"} : pc' = [pc EXCEPT ![c] = s]
           /\ \E a : act' = [act EXCEPT ![c] = a]
           /\ UNCHANGED lock
           /\ \A a \in Activation : grainOf'[a] # grainOf[a] => grainOf[a] = None
    BY <1>2, FrameLocked DEF Types
<1> QED
    BY <1>1, <1>2 DEF Lookup, Give, Build, Evict, Types

LEMMA StepLocked == Types /\ Refs /\ Locked /\ [Next]_vars => Locked'
<1> SUFFICES ASSUME Types, Refs, Locked, [Next]_vars PROVE Locked'
    OBVIOUS
<1>1. CASE UNCHANGED <<lock, grainOf, calls>>
    BY <1>1, FrameLocked DEF calls
<1>2. ASSUME NEW c \in Caller, CallerStep(c) PROVE Locked'
  <2>1. ASSUME NEW g \in Grain, Call(c, g) PROVE Locked'
    BY <2>1, LookupLocked DEF Call
  <2>2. CASE ActivateReturns(c)
    BY <2>2, DispatchLocked DEF ActivateReturns, Types, Refs
  <2>3. ASSUME NEW how \in {"failed", "cancelled"}, ActivateFails(c, how) PROVE Locked'
    BY <2>3, FrameLocked DEF ActivateFails, Give, Types
  <2>4. CASE Wake(c)
    <3>1. act[c] \in Activation /\ grainOf[act[c]] \in Grain
      BY <2>4 DEF Wake, Types, Refs
    <3>2. CASE Dispatch(c, act[c]) /\ UNCHANGED grainOf
      BY <3>1, <3>2, DispatchLocked
    <3>3. CASE Give(c, "failed") /\ UNCHANGED <<grainOf, lock>>
      BY <3>3, FrameLocked DEF Give, Types
    <3>4. CASE Lookup(c, grainOf[act[c]])
      BY <3>1, <3>4, LookupLocked
    <3> QED
      BY <2>4, <3>2, <3>3, <3>4 DEF Wake
  <2>5. CASE Evicted(c)
    BY <2>5, FrameLocked DEF Evicted, Build, Give, Types
  <2>6. CASE Acquire(c)
    BY <2>6, CallersAssumption DEF Acquire, Types, Refs, Locked
  <2>7. ASSUME NEW how \in {"answered", "cancelled"}, pc[c] \in Counted, Leave(c, how) PROVE Locked'
    <3>1. \/ pc' = [pc EXCEPT ![c] = how]
          \/ pc' = [pc EXCEPT ![c] = "keyerror"]
      BY <2>7 DEF Leave
    <3> QED
      BY <2>7, <3>1, CallersAssumption DEF Leave, Types, Refs, Locked, Counted
  <2>8. CASE Cancel(c)
    <3>1. CASE Give(c, "cancelled") /\ UNCHANGED <<grainOf, lock>>
      BY <3>1, FrameLocked DEF Give, Types
    <3>2. CASE UNCHANGED <<grainOf, lock, pc, act>>
      BY <3>2, FrameLocked
    <3> QED
      BY <2>8, <2>3, <2>7, <3>1, <3>2 DEF Cancel, records
  <2> QED
    BY <1>2, <2>1, <2>2, <2>3, <2>4, <2>5, <2>6, <2>7, <2>8 DEF CallerStep, Finish, Counted
<1>3. ASSUME NEW a \in Activation, RecordStep(a) PROVE Locked'
  <2>1. CASE Forget(a)
    BY <2>1, FrameLocked DEF Forget, Unreferenced, Types, calls
  <2> QED
    BY <1>1, <1>3, <2>1 DEF RecordStep, TimerStops, TickBegins, TickEnds, GoesIdle, SweepTakes,
       SweepSkips, records
<1>4. CASE (\E t \in Task : TimersGone(t)) \/ (\E g \in Grain : CloseTakes(g) \/ CloseSkips(g))
    BY <1>1, <1>4 DEF TimersGone, CloseTakes, CloseSkips, records
<1>5. CASE NodeStep
    BY <1>1, <1>5 DEF NodeStep, SweepBegins, SweepGoesOn, SweepEnds, CloseBegins, DrainBegins,
         DrainEnds, CloseGoesOn, CloseEnds, records
<1> QED
    BY <1>1, <1>2, <1>3, <1>4, <1>5 DEF Next, vars, records

LEMMA LockedCorrect == Spec => []Locked
<1>1. Init => Locked
    BY DEF Init, Locked
<1> QED
    BY <1>1, StepLocked, TypesCorrect, PTL DEF Spec

\* However the runtime is bounded, left or interrupted, an activation of a grain that is not
\* reentrant serves one call at a time (the lock of _dispatch_here and of _Activation).
THEOREM OneTurnPerRecord ==
    Spec => [](\A c, d \in Caller :
                  /\ pc[c] = "serving" /\ pc[d] = "serving"
                  /\ act[c] = act[d] /\ grainOf[act[c]] \notin Reentrant
                  => c = d)
<1>1. Locked => \A c, d \in Caller :
                  /\ pc[c] = "serving" /\ pc[d] = "serving"
                  /\ act[c] = act[d] /\ grainOf[act[c]] \notin Reentrant
                  => c = d
    BY DEF Locked
<1> QED
    BY <1>1, LockedCorrect, PTL

-----------------------------------------------------------------------------
(**************** The table of an open runtime without a bound **************)

\* While the runtime is open, the record of an activation under way and the record of an
\* activated grain nobody deactivates are the ones in the table, what is in the table is not
\* being deactivated, and what is being deactivated has no schedule left to run.
TableSound ==
    /\ \A c \in Caller : pc[c] = "activating" => activations[grainOf[act[c]]] = act[c]
    /\ \A a \in Activation :
         grainOf[a] # None /\ ready[a] = "ready" /\ teardown[a] = "none"
            => activations[grainOf[a]] = a
    /\ \A g \in Grain : activations[g] # None =>
         /\ teardown[activations[g]] = "none"
         /\ ready[activations[g]] \in {"pending", "ready"}
    /\ \A a \in Activation :
         teardown[a] \in {"hook", "done", "cut"} => timer[a] \in {"none", "done"}

OpenInv ==
    /\ \A c \in Caller : pc[c] # "evicting"
    /\ closer = "open" => TableSound

\* Only the shutdown itself moves on.
LEMMA CloserMoves ==
    [Next]_vars => closer' = closer \/ CloseBegins \/ DrainBegins \/ DrainEnds \/ CloseEnds
<1> SUFFICES ASSUME [Next]_vars
             PROVE  closer' = closer \/ CloseBegins \/ DrainBegins \/ DrainEnds \/ CloseEnds
    OBVIOUS
<1>1. CASE UNCHANGED closer
    BY <1>1
<1>2. ASSUME NEW c \in Caller, CallerStep(c) PROVE closer' = closer
  <2>1. CASE \E g \in Grain : Call(c, g)
    BY <2>1 DEF Call, background
  <2>2. CASE ActivateReturns(c) \/ Wake(c) \/ Evicted(c) \/ Acquire(c)
    BY <2>2 DEF ActivateReturns, Wake, Evicted, Acquire, Aside, background
  <2>3. CASE ActivateFails(c, "failed") \/ Finish(c) \/ Cancel(c)
    BY <2>3 DEF ActivateFails, Finish, Leave, Cancel, background
  <2> QED
    BY <1>2, <2>1, <2>2, <2>3 DEF CallerStep
<1>3. ASSUME NEW a \in Activation, RecordStep(a) PROVE closer' = closer
    BY <1>3 DEF RecordStep, TimerStops, TickBegins, TickEnds, GoesIdle, SweepTakes, SweepSkips,
         Forget, background
<1>4. CASE (\E t \in Task : TimersGone(t)) \/ (\E g \in Grain : CloseTakes(g) \/ CloseSkips(g))
    BY <1>1, <1>4 DEF TimersGone, CloseTakes, CloseSkips, background
<1>5. CASE SweepBegins \/ SweepGoesOn \/ SweepEnds \/ CloseGoesOn
    BY <1>5 DEF SweepBegins, SweepGoesOn, SweepEnds, CloseGoesOn, background
<1> QED
    BY <1>1, <1>2, <1>3, <1>4, <1>5 DEF Next, NodeStep, vars, background

LEMMA OpenStays == [Next]_vars /\ closer' = "open" => closer = "open"
BY CloserMoves DEF CloseBegins, DrainBegins, DrainEnds, CloseEnds

\* Steps that neither build nor deactivate.
LEMMA FrameTable ==
    ASSUME Types, TableSound, UNCHANGED <<activations, grainOf, ready, teardown>>,
           \A c \in Caller : pc'[c] = "activating" => pc[c] = "activating" /\ act'[c] = act[c],
           \A a \in Activation : timer'[a] # timer[a] => timer[a] \notin {"none", "done"}
    PROVE  TableSound'
BY DEF Types, TableSound

LEMMA DetachTable ==
    ASSUME Types, Refs, Builders, TableSound, NEW t \in Task, NEW g \in Grain, Detach(t, g),
           ready[activations[g]] = "ready", UNCHANGED <<grainOf, ready, pc, act>>
    PROVE  TableSound'
<1>1. activations[g] \in Activation /\ grainOf[activations[g]] = g
    BY DEF Detach, Types, Refs
<1>2. \A c \in Caller : pc[c] = "activating" => act[c] # activations[g] /\ grainOf[act[c]] \in Grain
    BY DEF Types, Refs, Builders
<1>3. \A c \in Caller : pc'[c] = "activating" => activations'[grainOf'[act'[c]]] = act'[c]
    BY <1>1, <1>2 DEF Detach, Types, TableSound
<1>4. \A a \in Activation :
         grainOf'[a] # None /\ ready'[a] = "ready" /\ teardown'[a] = "none"
            => activations'[grainOf'[a]] = a
    BY <1>1 DEF Detach, Types, TableSound
<1>5. \A h \in Grain : activations'[h] # None =>
         /\ teardown'[activations'[h]] = "none"
         /\ ready'[activations'[h]] \in {"pending", "ready"}
    BY <1>1 DEF Detach, Types, Refs, TableSound
<1>6. \A a \in Activation :
         teardown'[a] \in {"hook", "done", "cut"} => timer'[a] \in {"none", "done"}
    BY <1>1 DEF Detach, AfterCancel, Types, TableSound
<1> QED
    BY <1>3, <1>4, <1>5, <1>6 DEF TableSound

LEMMA BuildTable ==
    ASSUME Types, Refs, Builders, TableSound, NEW c \in Caller, NEW g \in Grain,
           activations[g] = None, Build(c, g), UNCHANGED <<ready, timer, teardown>>
    PROVE  TableSound'
<1>1. CASE Give(c, "failed") /\ UNCHANGED <<table, grainOf>>
    BY <1>1, FrameTable DEF Give, Types, table
<1>2. ASSUME NEW a \in Activation,
             grainOf[a] = None,
             grainOf' = [grainOf EXCEPT ![a] = g],
             activations' = [activations EXCEPT ![g] = a],
             pc' = [pc EXCEPT ![c] = "activating"],
             act' = [act EXCEPT ![c] = a]
      PROVE  TableSound'
  <2>1. ready[a] = "pending" /\ teardown[a] = "none"
    BY <1>2 DEF Builders
  <2>2. \A d \in Caller : pc'[d] = "activating" => activations'[grainOf'[act'[d]]] = act'[d]
    <3>1. SUFFICES ASSUME NEW d \in Caller, d # c, pc[d] = "activating"
                   PROVE  activations'[grainOf'[act'[d]]] = act'[d]
      BY <1>2 DEF Types
    <3>2. act[d] \in Activation /\ grainOf[act[d]] \in Grain /\ act[d] # a
      BY <1>2, <3>1 DEF Types, Refs
    <3>3. activations[grainOf[act[d]]] = act[d]
      BY <3>1 DEF TableSound
    <3> QED
      BY <1>2, <3>1, <3>2, <3>3, RecordsAssumption DEF Types
  <2>3. \A b \in Activation :
           grainOf'[b] # None /\ ready'[b] = "ready" /\ teardown'[b] = "none"
              => activations'[grainOf'[b]] = b
    BY <1>2, <2>1, RecordsAssumption DEF Types, TableSound
  <2>4. \A h \in Grain : activations'[h] # None =>
           /\ teardown'[activations'[h]] = "none"
           /\ ready'[activations'[h]] \in {"pending", "ready"}
    BY <1>2, <2>1 DEF Types, TableSound
  <2> QED
    BY <2>2, <2>3, <2>4 DEF TableSound
<1> QED
    BY <1>1, <1>2 DEF Build

LEMMA LookupTable ==
    ASSUME MaxActivations = None, Types, Refs, Builders, TableSound,
           NEW c \in Caller, NEW g \in Grain, Lookup(c, g)
    PROVE  TableSound'
<1>1. CASE /\ \E s \in {"waiting", "refused", "serving", "locking", "failed"} :
                 pc' = [pc EXCEPT ![c] = s]
           /\ \E a : act' = [act EXCEPT ![c] = a]
           /\ UNCHANGED <<activations, grainOf, ready, timer, teardown>>
    BY <1>1, FrameTable DEF Types
<1>2. CASE activations[g] = None /\ Build(c, g) /\ UNCHANGED <<ready, timer, teardown>>
    BY <1>2, BuildTable
<1> QED
    BY <1>1, <1>2 DEF Lookup, Dispatch, Give, Full, Bounded, table

LEMMA StepTable ==
    ASSUME MaxActivations = None, Types, Refs, Builders, OpenInv, [Next]_vars, closer' = "open"
    PROVE  TableSound'
<1>0. closer = "open" /\ TableSound
    BY OpenStays DEF OpenInv
<1>1. CASE UNCHANGED vars
    BY <1>0, <1>1, FrameTable DEF vars, table, records, calls
<1>2. ASSUME NEW c \in Caller, CallerStep(c) PROVE TableSound'
  <2>1. ASSUME NEW g \in Grain, Call(c, g) PROVE TableSound'
    BY <1>0, <2>1, LookupTable DEF Call
  <2>2. CASE ActivateReturns(c)
    <3>1. PICK s \in {"refused", "serving", "locking"}, a \in {act[c], None} :
             pc' = [pc EXCEPT ![c] = s] /\ act' = [act EXCEPT ![c] = a]
      BY <2>2 DEF ActivateReturns, Dispatch
    <3>2. /\ act[c] \in Activation /\ grainOf[act[c]] \in Grain
          /\ activations[grainOf[act[c]]] = act[c]
          /\ teardown[act[c]] = "none"
      BY <1>0, <2>2, RecordsAssumption DEF ActivateReturns, Types, Refs, TableSound
    <3> QED
      BY <1>0, <2>2, <3>1, <3>2 DEF ActivateReturns, Types, Builders, TableSound, table
  <2>3. ASSUME NEW how \in {"failed", "cancelled"}, ActivateFails(c, how) PROVE TableSound'
    <3>1. /\ pc[c] = "activating"
          /\ act[c] \in Activation /\ grainOf[act[c]] \in Grain
          /\ activations[grainOf[act[c]]] = act[c]
          /\ ready[act[c]] = "pending"
      BY <1>0, <2>3 DEF ActivateFails, Types, Refs, Builders, TableSound
    <3>2. \A d \in Caller : pc'[d] = "activating" => activations'[grainOf'[act'[d]]] = act'[d]
      <4>1. SUFFICES ASSUME NEW d \in Caller, d # c, pc[d] = "activating"
                     PROVE  activations'[grainOf'[act'[d]]] = act'[d]
        BY <2>3 DEF ActivateFails, Give, Types
      <4>2. act[d] \in Activation /\ grainOf[act[d]] \in Grain /\ act[d] # act[c]
        BY <3>1, <4>1 DEF Types, Refs, Builders
      <4>3. activations[grainOf[act[d]]] = act[d]
        BY <1>0, <4>1 DEF TableSound
      <4> QED
        BY <2>3, <3>1, <4>1, <4>2, <4>3 DEF ActivateFails, Give, Types
    <3>3. \A b \in Activation :
             grainOf'[b] # None /\ ready'[b] = "ready" /\ teardown'[b] = "none"
                => activations'[grainOf'[b]] = b
      BY <1>0, <2>3, <3>1 DEF ActivateFails, Types, TableSound
    <3>4. \A h \in Grain : activations'[h] # None =>
             /\ teardown'[activations'[h]] = "none"
             /\ ready'[activations'[h]] \in {"pending", "ready"}
      BY <1>0, <2>3, <3>1 DEF ActivateFails, Types, Refs, TableSound
    <3> QED
      BY <1>0, <2>3, <3>2, <3>3, <3>4 DEF ActivateFails, TableSound
  <2>4. CASE Wake(c)
    <3>1. grainOf[act[c]] \in Grain
      BY <2>4 DEF Wake, Types, Refs
    <3>2. CASE (Dispatch(c, act[c]) \/ Give(c, "failed")) /\ UNCHANGED <<table, grainOf, ready, timer, teardown>>
      BY <1>0, <2>4, <3>2, FrameTable DEF Dispatch, Give, Types, table
    <3>3. CASE Lookup(c, grainOf[act[c]])
      BY <1>0, <3>1, <3>3, LookupTable
    <3> QED
      BY <2>4, <3>2, <3>3 DEF Wake
  <2>5. CASE Acquire(c)
    BY <1>0, <2>5, FrameTable DEF Acquire, Types, table
  <2>6. ASSUME NEW how \in {"answered", "cancelled"}, Leave(c, how) PROVE TableSound'
    <3>1. \/ pc' = [pc EXCEPT ![c] = how]
          \/ pc' = [pc EXCEPT ![c] = "keyerror"]
      BY <2>6 DEF Leave
    <3> QED
      BY <1>0, <2>6, <3>1, FrameTable DEF Leave, Types
  <2>7. CASE Cancel(c)
    <3>1. CASE Give(c, "cancelled") /\ UNCHANGED <<table, records>>
      BY <1>0, <3>1, FrameTable DEF Give, Types, table, records
    <3> QED
      BY <2>3, <2>6, <2>7, <3>1 DEF Cancel, OpenInv
  <2> QED
    BY <1>2, <2>1, <2>2, <2>3, <2>4, <2>5, <2>6, <2>7 DEF CallerStep, Finish, Evicted, OpenInv
<1>3. ASSUME NEW a \in Activation, RecordStep(a) PROVE TableSound'
  <2>1. CASE TimerStops(a) \/ TickBegins(a) \/ TickEnds(a)
    BY <1>0, <2>1 DEF TimerStops, TickBegins, TickEnds, Types, TableSound, table, calls
  <2>2. CASE GoesIdle(a) \/ SweepSkips(a)
    BY <1>0, <2>2, FrameTable DEF GoesIdle, SweepSkips, table, records, calls
  <2>3. CASE SweepTakes(a)
    <3>1. grainOf[a] \in Grain
      BY <2>3 DEF SweepTakes, Types, Refs
    <3> QED
      BY <1>0, <2>3, <3>1, DetachTable DEF SweepTakes, Collectable, Task, calls
  <2>4. CASE Forget(a)
    <3>1. /\ \A g \in Grain : activations[g] # a
          /\ \A c \in Caller : act[c] # a
      BY <2>4 DEF Forget, Unreferenced
    <3> QED
      BY <1>0, <2>4, <3>1 DEF Forget, Types, TableSound, table, calls
  <2> QED
    BY <1>3, <2>1, <2>2, <2>3, <2>4 DEF RecordStep
<1>4. ASSUME NEW t \in Task, TimersGone(t) PROVE TableSound'
    BY <1>0, <1>4, RecordsAssumption DEF TimersGone, Types, TableSound, table, calls
<1>5. ASSUME NEW t \in Task, HookReturns(t) \/ HookIsCut(t),
             UNCHANGED <<activations, grainOf, ready, timer, pc, act>>
      PROVE  TableSound'
    BY <1>0, <1>5 DEF HookReturns, HookIsCut, Types, TableSound
<1>6. CASE NodeStep
  <2>1. CASE SweepBegins \/ SweepEnds
    BY <1>0, <2>1, FrameTable DEF SweepBegins, SweepEnds, table, records, calls
  <2>2. CASE SweepGoesOn \/ CloseGoesOn
    BY <1>5, <2>2 DEF SweepGoesOn, CloseGoesOn, Task, table, calls
  <2> QED
    BY <1>0, <1>6, <2>1, <2>2 DEF NodeStep, CloseBegins, DrainBegins, DrainEnds, CloseEnds
<1> QED
    BY <1>0, <1>1, <1>2, <1>3, <1>4, <1>6 DEF Next, CloseTakes, CloseSkips

LEMMA StepOpenInv ==
    ASSUME MaxActivations = None, Types, Refs, Builders, OpenInv, [Next]_vars
    PROVE  OpenInv'
<1>1. \A c \in Caller : pc'[c] # "evicting"
  <2>1. CASE UNCHANGED pc
    BY <2>1 DEF OpenInv
  <2>2. ASSUME NEW c \in Caller, NEW s, s # "evicting", pc' = [pc EXCEPT ![c] = s]
        PROVE  \A d \in Caller : pc'[d] # "evicting"
    BY <2>2 DEF OpenInv, Types
  <2>3. ASSUME NEW c \in Caller, NEW g, Lookup(c, g) PROVE \A d \in Caller : pc'[d] # "evicting"
    BY <2>2, <2>3 DEF Lookup, Dispatch, Give, Build, Full, Bounded
  <2>4. ASSUME NEW c \in Caller, CallerStep(c) PROVE \A d \in Caller : pc'[d] # "evicting"
    <3>1. CASE \E g \in Grain : Call(c, g)
      BY <2>3, <3>1 DEF Call
    <3>2. CASE ActivateReturns(c)
      BY <2>2, <3>2 DEF ActivateReturns, Dispatch
    <3>3. CASE ActivateFails(c, "failed")
      BY <2>2, <3>3 DEF ActivateFails, Give
    <3>4. CASE Wake(c)
      BY <2>2, <2>3, <3>4 DEF Wake, Dispatch, Give
    <3>5. CASE Acquire(c) \/ Finish(c)
      BY <2>2, <3>5 DEF Acquire, Finish, Leave
    <3>6. CASE Cancel(c)
      BY <2>1, <2>2, <3>6 DEF Cancel, Give, ActivateFails, Leave
    <3> QED
      BY <2>4, <3>1, <3>2, <3>3, <3>4, <3>5, <3>6 DEF CallerStep, Evicted, OpenInv
  <2>5. CASE \E a \in Activation : RecordStep(a)
    BY <2>1, <2>5 DEF RecordStep, TimerStops, TickBegins, TickEnds, GoesIdle, SweepTakes, SweepSkips,
       Forget, calls
  <2>6. CASE (\E t \in Task : TimersGone(t)) \/ (\E g \in Grain : CloseTakes(g) \/ CloseSkips(g))
    BY <2>1, <2>6 DEF TimersGone, CloseTakes, CloseSkips, calls
  <2>7. CASE NodeStep
    BY <2>1, <2>7 DEF NodeStep, SweepBegins, SweepGoesOn, SweepEnds, CloseBegins, DrainBegins,
       DrainEnds, CloseGoesOn, CloseEnds, calls
  <2> QED
    BY <2>1, <2>4, <2>5, <2>6, <2>7 DEF Next, vars, calls
<1> QED
    BY <1>1, StepTable DEF OpenInv

LEMMA OpenCorrect ==
    ASSUME MaxActivations = None
    PROVE  Spec => [](Types /\ Refs /\ Builders /\ OpenInv)
<1>1. Init => OpenInv
    BY DEF Init, OpenInv, TableSound
<1>2. Types /\ Refs /\ Builders /\ OpenInv /\ [Next]_vars => OpenInv'
    BY StepOpenInv
<1> QED
    BY <1>1, <1>2, BuildersCorrect, PTL DEF Spec

\* Without a bound, one identity never has two activations being built or serving while the
\* runtime is open, whatever fails, is cancelled or is swept in between (_activated).
THEOREM OneActivation ==
    ASSUME MaxActivations = None
    PROVE  Spec => []SingleActivation
<1>1. Types /\ Refs /\ Builders /\ OpenInv => SingleActivation
  <2>1. SUFFICES ASSUME Types, Refs, Builders, OpenInv, closer = "open",
                        NEW a \in Activation, Alive(a)
                 PROVE  activations[grainOf[a]] = a
    BY DEF SingleActivation
  <2>2. TableSound
    BY <2>1 DEF OpenInv
  <2>3. CASE ready[a] = "pending"
    <3>1. PICK b \in Caller : pc[b] = "activating" /\ act[b] = a
      BY <2>1, <2>3 DEF Builders, Alive
    <3> QED
      BY <2>2, <3>1 DEF TableSound
  <2>4. CASE ready[a] = "ready"
    BY <2>1, <2>2, <2>4 DEF TableSound, Alive
  <2> QED
    BY <2>1, <2>3, <2>4 DEF Alive
<1> QED
    BY <1>1, OpenCorrect, PTL

\* Without a bound, no activated grain of an open runtime is out of reach of the sweep and
\* of the shutdown (_activated, _deactivate).
THEOREM NothingIsLost ==
    ASSUME MaxActivations = None
    PROVE  Spec => []NothingLost
<1>1. OpenInv => NothingLost
    BY DEF OpenInv, TableSound, NothingLost
<1> QED
    BY <1>1, OpenCorrect, PTL

\* Without a bound, no schedule of a grain is left once its deactivate() has begun, while
\* the runtime is open (_deactivate, _start_timers).
THEOREM TeardownIsQuiet ==
    ASSUME MaxActivations = None
    PROVE  Spec => []QuietTeardown
<1>1. OpenInv => QuietTeardown
    BY DEF OpenInv, TableSound, QuietTeardown
<1> QED
    BY <1>1, OpenCorrect, PTL

-----------------------------------------------------------------------------
(********************* Served by what the table holds **********************)

\* Calls that are counted, and calls whose wait for an activation is over, have the record the
\* table holds.  Until the latter run, what protects their record from the sweep is that it is
\* not on the sweeper's list and that it is fresh, or in use by the caller that built it.
ServingSound ==
    /\ \A c \in Caller : pc[c] \in Counted =>
         activations[grainOf[act[c]]] = act[c] /\ ready[act[c]] = "ready"
    /\ \A c \in Caller : pc[c] = "waiting" /\ ready[act[c]] = "ready" =>
         /\ activations[grainOf[act[c]]] = act[c]
         /\ act[c] \notin stale
         /\ act[c] \notin idle \/ \E d \in Caller : pc[d] \in Counted /\ act[d] = act[c]
    /\ \A a \in stale : ready[a] = "ready"

Served == closer = "open" => ServingSound

\* Everything a step may rely on, once closer is open.
Base == Types /\ Refs /\ Builders /\ InFlightExact /\ TableSound /\ ServingSound

LEMMA BusyIsCounted ==
    ASSUME Types, InFlightExact, NEW c \in Caller, pc[c] \in Counted, act[c] \in Activation
    PROVE  inFlight[act[c]] # 0
<1>1. inFlight[act[c]] = Cardinality(Users(act[c])) + (IF Ticks(act[c]) THEN 1 ELSE 0)
    BY ExactMeans
<1>2. Users(act[c]) # {} /\ IsFiniteSet(Users(act[c]))
    BY UsersFinite DEF Users
<1>3. Cardinality(Users(act[c])) \in Nat /\ Cardinality(Users(act[c])) # 0
    BY <1>2, FS_EmptySet, FS_CardinalityType
<1> QED
    BY <1>1, <1>3

\* Steps that leave the table and the lists alone and let nobody join or leave.
LEMMA FrameServing ==
    ASSUME Types, Refs, ServingSound, UNCHANGED <<activations, grainOf, ready, idle, stale>>,
           \A c \in Caller :
               \/ UNCHANGED <<pc[c], act[c]>>
               \/ pc[c] \notin Counted /\ pc'[c] \notin Counted \union {"waiting"}
               \/ pc[c] \in Counted /\ pc'[c] \in Counted /\ act'[c] = act[c]
    PROVE  ServingSound'
BY DEF ServingSound, Types, Counted

LEMMA DispatchServing ==
    ASSUME "missing" \notin Env, Base, NEW c \in Caller, NEW a \in Activation, Dispatch(c, a),
           pc[c] \notin Counted, activations[grainOf[a]] = a, ready[a] = "ready",
           UNCHANGED <<activations, grainOf, ready, idle, stale>>
    PROVE  ServingSound'
<1>1. PICK s \in Counted : pc' = [pc EXCEPT ![c] = s] /\ act' = [act EXCEPT ![c] = a]
    BY DEF Dispatch, Counted
<1> QED
    BY <1>1 DEF Base, ServingSound, Types, Counted

LEMMA BuildServing ==
    ASSUME Base, NEW c \in Caller, NEW g \in Grain, activations[g] = None, Build(c, g),
           pc[c] \notin Counted, UNCHANGED <<ready, idle, stale>>
    PROVE  ServingSound'
<1>1. CASE Give(c, "failed") /\ UNCHANGED <<table, grainOf>>
    BY <1>1, FrameServing DEF Give, Base, Types, Counted, table
<1>2. ASSUME NEW a \in Activation,
             grainOf[a] = None,
             grainOf' = [grainOf EXCEPT ![a] = g],
             activations' = [activations EXCEPT ![g] = a],
             pc' = [pc EXCEPT ![c] = "activating"],
             act' = [act EXCEPT ![c] = a]
      PROVE  ServingSound'
  <2>1. \A d \in Caller : pc'[d] \in Counted \union {"waiting"} =>
           /\ d # c /\ pc'[d] = pc[d] /\ act'[d] = act[d]
           /\ act[d] \in Activation /\ act[d] # a /\ grainOf[act[d]] \in Grain
    BY <1>2 DEF Base, Types, Refs, Counted
  <2>2. \A d \in Caller : pc'[d] \in Counted \union {"waiting"} /\ activations[grainOf[act[d]]] = act[d]
           => activations'[grainOf'[act'[d]]] = act'[d]
    BY <1>2, <2>1, RecordsAssumption DEF Base, Types
  <2>3. \A d \in Caller : pc[d] \in Counted => pc'[d] \in Counted /\ act'[d] = act[d]
    BY <1>2 DEF Base, Types
  <2> QED
    BY <2>1, <2>2, <2>3 DEF Base, ServingSound
<1> QED
    BY <1>1, <1>2 DEF Build

LEMMA LookupServing ==
    ASSUME MaxActivations = None, "missing" \notin Env, Base, NEW c \in Caller, NEW g \in Grain,
           Lookup(c, g), pc[c] \notin Counted, UNCHANGED <<idle, stale>>
    PROVE  ServingSound'
<1>1. CASE /\ activations[g] # None
           /\ ready[activations[g]] = "pending"
           /\ pc' = [pc EXCEPT ![c] = "waiting"]
           /\ act' = [act EXCEPT ![c] = activations[g]]
           /\ UNCHANGED <<table, grainOf, ready, inFlight, lock, timer, teardown, want, victim>>
    BY <1>1 DEF Base, Types, ServingSound, Counted, table
<1>2. CASE /\ activations[g] # None
           /\ ready[activations[g]] # "pending"
           /\ Dispatch(c, activations[g])
           /\ UNCHANGED <<table, grainOf, ready, timer, teardown, want, victim>>
  <2>1. activations[g] \in Activation /\ grainOf[activations[g]] = g /\ ready[activations[g]] = "ready"
    BY <1>2 DEF Base, Types, Refs, TableSound
  <2> QED
    BY <1>2, <2>1, DispatchServing DEF table
<1>3. CASE Give(c, "failed") /\ UNCHANGED <<table, grainOf, ready>>
    BY <1>3, FrameServing DEF Give, Base, Types, Counted, table
<1>4. CASE activations[g] = None /\ Build(c, g) /\ UNCHANGED ready
    BY <1>4, BuildServing
<1> QED
    BY <1>1, <1>2, <1>3, <1>4 DEF Lookup, Full, Bounded

LEMMA StepServing ==
    ASSUME MaxActivations = None, "missing" \notin Env, Types, Refs, Builders, InFlightExact,
           OpenInv, Served, [Next]_vars, closer' = "open"
    PROVE  ServingSound'
<1>0. closer = "open" /\ Base
    BY OpenStays DEF OpenInv, Served, Base
<1>1. CASE UNCHANGED vars
    BY <1>0, <1>1, FrameServing DEF Base, vars, table, records, calls, background
<1>2. ASSUME NEW c \in Caller, CallerStep(c) PROVE ServingSound'
  <2>1. ASSUME NEW g \in Grain, Call(c, g) PROVE ServingSound'
    BY <1>0, <2>1, LookupServing DEF Call, Ended, Counted, background
  <2>2. CASE ActivateReturns(c)
    <3>1. PICK s \in Counted : pc' = [pc EXCEPT ![c] = s] /\ act' = act
      <4>1. PICK s \in Counted :
               pc' = [pc EXCEPT ![c] = s] /\ act' = [act EXCEPT ![c] = act[c]]
        BY <2>2 DEF ActivateReturns, Dispatch, Counted
      <4> QED
        BY <1>0, <4>1 DEF Base, Types
    <3>2. /\ act[c] \in Activation
          /\ activations[grainOf[act[c]]] = act[c]
          /\ ready[act[c]] = "pending" /\ act[c] \notin stale
      BY <1>0, <2>2 DEF ActivateReturns, Base, Types, Refs, Builders, TableSound, ServingSound
    <3>3. /\ ready' = [ready EXCEPT ![act[c]] = "ready"]
          /\ UNCHANGED <<activations, grainOf, idle, stale>>
      BY <2>2 DEF ActivateReturns, Aside, table, background
    <3> QED
      BY <1>0, <3>1, <3>2, <3>3 DEF Base, Types, ServingSound, Counted
  <2>3. ASSUME NEW how \in {"failed", "cancelled"}, ActivateFails(c, how) PROVE ServingSound'
    <3>1. /\ act[c] \in Activation /\ grainOf[act[c]] \in Grain
          /\ activations[grainOf[act[c]]] = act[c]
          /\ ready[act[c]] = "pending" /\ act[c] \notin stale
      BY <1>0, <2>3 DEF ActivateFails, Base, Types, Refs, Builders, TableSound, ServingSound
    <3>2. \A d \in Caller : pc'[d] \in Counted \union {"waiting"} =>
             /\ d # c /\ pc'[d] = pc[d] /\ act'[d] = act[d]
             /\ act[d] \in Activation /\ grainOf[act[d]] \in Grain
      BY <1>0, <2>3 DEF ActivateFails, Give, Base, Types, Refs, Counted
    <3>3. \A d \in Caller : pc[d] \in Counted => pc'[d] = pc[d] /\ act'[d] = act[d]
      BY <1>0, <2>3 DEF ActivateFails, Give, Base, Types, Counted
    <3>4. \A a \in Activation : ready'[a] = "ready" <=> ready[a] = "ready"
      BY <1>0, <2>3, <3>1 DEF ActivateFails, Base, Types
    <3>5. \A a \in Activation :
             ready[a] = "ready" /\ grainOf[a] \in Grain /\ activations[grainOf[a]] = a
                => activations'[grainOf[a]] = a
      BY <1>0, <2>3, <3>1 DEF ActivateFails, Base, Types
    <3> QED
      BY <1>0, <2>3, <3>2, <3>3, <3>4, <3>5 DEF ActivateFails, Base, Types, ServingSound, background
  <2>4. CASE Wake(c)
    <3>1. act[c] \in Activation /\ grainOf[act[c]] \in Grain /\ pc[c] = "waiting"
      BY <1>0, <2>4 DEF Wake, Base, Types, Refs
    <3>2. CASE ready[act[c]] = "ready" /\ Dispatch(c, act[c]) /\ UNCHANGED <<table, grainOf, ready>>
      BY <1>0, <2>4, <3>1, <3>2, DispatchServing DEF Wake, Aside, Base, ServingSound, Counted, table, background
    <3>3. CASE Give(c, "failed") /\ UNCHANGED <<table, grainOf, ready>>
      BY <1>0, <2>4, <3>1, <3>3, FrameServing DEF Wake, Aside, Give, Base, Types, Counted, table, background
    <3>4. CASE Lookup(c, grainOf[act[c]])
      BY <1>0, <2>4, <3>1, <3>4, LookupServing DEF Wake, Aside, Counted, background
    <3> QED
      BY <2>4, <3>2, <3>3, <3>4 DEF Wake
  <2>5. CASE Acquire(c)
    BY <1>0, <2>5, FrameServing DEF Acquire, Base, Types, Counted, table, background
  <2>6. ASSUME NEW how \in {"answered", "cancelled"}, pc[c] \in Counted, Leave(c, how)
        PROVE  ServingSound'
    <3>1. \/ pc' = [pc EXCEPT ![c] = how]
          \/ pc' = [pc EXCEPT ![c] = "keyerror"]
      BY <2>6 DEF Leave
    <3>2. \A d \in Caller : pc'[d] \in Counted \union {"waiting"} =>
             d # c /\ pc'[d] = pc[d] /\ act'[d] = act[d]
      BY <1>0, <2>6, <3>1 DEF Leave, Base, Types, Counted
    <3>3. \A d \in Caller \ {c} : pc'[d] = pc[d] /\ act'[d] = act[d]
      BY <1>0, <2>6, <3>1 DEF Leave, Base, Types
    <3>4. /\ UNCHANGED <<activations, grainOf, ready>>
          /\ idle' = idle \ {act[c]} /\ stale' = stale \ {act[c]}
      BY <2>6 DEF Leave
    <3> QED
      BY <1>0, <3>2, <3>3, <3>4 DEF Base, ServingSound
  <2>7. CASE Cancel(c)
    <3>1. CASE /\ pc[c] = "waiting"
               /\ Give(c, "cancelled") /\ UNCHANGED <<table, records, victim, background>>
      BY <1>0, <3>1, FrameServing DEF Give, Base, Types, Counted, table, records, background
    <3> QED
      BY <2>3, <2>6, <2>7, <3>1 DEF Cancel, OpenInv
  <2> QED
    BY <1>2, <2>1, <2>2, <2>3, <2>4, <2>5, <2>6, <2>7 DEF CallerStep, Finish, Evicted, OpenInv, Counted
<1>3. ASSUME NEW a \in Activation, RecordStep(a) PROVE ServingSound'
  <2>1. CASE TimerStops(a) \/ TickBegins(a) \/ TickEnds(a)
    BY <1>0, <2>1, FrameServing DEF TimerStops, TickBegins, TickEnds, Base, table, calls, background
  <2>2. CASE GoesIdle(a)
    BY <1>0, <2>2 DEF GoesIdle, Base, ServingSound, table, calls, background
  <2>3. CASE SweepSkips(a)
    BY <1>0, <2>3 DEF SweepSkips, Base, ServingSound, table, records, calls
  <2>4. CASE SweepTakes(a)
    <3>1. grainOf[a] \in Grain /\ activations[grainOf[a]] = a
      BY <1>0, <2>4 DEF SweepTakes, Base, Types, Refs
    <3>2. \A c \in Caller : pc[c] \in Counted => act[c] # a
      BY <1>0, <2>4, BusyIsCounted DEF SweepTakes, Collectable, Base
    <3>3. \A c \in Caller : pc[c] = "waiting" /\ ready[act[c]] = "ready" => act[c] # a
      BY <1>0, <2>4 DEF SweepTakes, Base, ServingSound
    <3>4. \A c \in Caller : pc[c] \in Counted \union {"waiting"} =>
             act[c] \in Activation /\ grainOf[act[c]] \in Grain
      BY <1>0 DEF Base, Types, Refs, Counted
    <3>5. \A b \in Activation : b # a /\ grainOf[b] \in Grain /\ activations[grainOf[b]] = b
             => activations'[grainOf[b]] = b
      BY <1>0, <2>4, <3>1 DEF SweepTakes, Detach, Base, Types
    <3>6. UNCHANGED <<grainOf, ready, idle, pc, act>> /\ stale' = stale \ {a}
      BY <2>4 DEF SweepTakes, calls
    <3> QED
      BY <1>0, <3>2, <3>3, <3>4, <3>5, <3>6 DEF Base, ServingSound, Counted
  <2>5. CASE Forget(a)
    <3>1. \A c \in Caller : act[c] # a
      BY <2>5 DEF Forget, Unreferenced
    <3> QED
      BY <1>0, <2>5, <3>1 DEF Forget, Base, Types, Refs, ServingSound, Counted, table, calls
  <2> QED
    BY <1>3, <2>1, <2>2, <2>3, <2>4, <2>5 DEF RecordStep
<1>4. ASSUME NEW t \in Task, TimersGone(t) PROVE ServingSound'
    BY <1>0, <1>4, FrameServing DEF TimersGone, Base, table, calls, background
<1>5. CASE SweepBegins
  <2>1. \A a \in stale' : a \in Activation /\ ready[a] = "ready" /\ inFlight[a] = 0 /\ a \in idle
    BY <1>0, <1>5 DEF SweepBegins, Collectable, Live, Base, Types
  <2>2. \A c \in Caller : pc[c] \in Counted => act[c] \notin stale'
    BY <1>0, <2>1, BusyIsCounted DEF Base
  <2>3. \A c \in Caller : pc[c] = "waiting" /\ ready[act[c]] = "ready" => act[c] \notin stale'
    BY <1>0, <2>1, <2>2 DEF Base, ServingSound
  <2> QED
    BY <1>0, <1>5, <2>1, <2>3 DEF SweepBegins, Base, ServingSound, table, records, calls
<1>6. CASE SweepGoesOn \/ SweepEnds \/ CloseGoesOn
    BY <1>0, <1>6, FrameServing DEF SweepGoesOn, SweepEnds, CloseGoesOn, Base, table, records, calls, background
<1> QED
    BY <1>0, <1>1, <1>2, <1>3, <1>4, <1>5, <1>6 DEF Next, NodeStep, CloseTakes, CloseSkips,
       CloseBegins, DrainBegins, DrainEnds, CloseEnds

LEMMA ServedCorrect ==
    ASSUME MaxActivations = None, "missing" \notin Env
    PROVE  Spec => [](Types /\ Refs /\ OpenInv /\ Served)
<1>1. Init => Served
    BY DEF Init, Served, ServingSound, Counted
<1>2. Types /\ Refs /\ Builders /\ InFlightExact /\ OpenInv /\ Served /\ [Next]_vars => Served'
    BY StepServing DEF Served
<1> QED
    BY <1>1, <1>2, OpenCorrect, CountIsExact, PTL DEF Spec

\* Without a bound, and when calls name methods that exist, a running or queued call of an
\* open runtime has the activation the table holds and nobody is deactivating it (collect,
\* _counted, _dispatch_here).
THEOREM NoDeactivationUnderACall ==
    ASSUME MaxActivations = None, "missing" \notin Env
    PROVE  Spec => []ServedWhileOpen
<1>1. Types /\ Refs /\ OpenInv /\ Served => ServedWhileOpen
  <2>1. SUFFICES ASSUME Types, Refs, OpenInv, Served, closer = "open",
                        NEW c \in Caller, pc[c] \in Counted
                 PROVE  /\ activations[grainOf[act[c]]] = act[c]
                        /\ teardown[act[c]] = "none"
                        /\ ready[act[c]] = "ready"
    BY DEF ServedWhileOpen
  <2>2. TableSound /\ ServingSound
    BY <2>1 DEF OpenInv, Served
  <2>3. act[c] # None /\ grainOf[act[c]] \in Grain
    BY <2>1 DEF Types, Refs, Counted
  <2> QED
    BY <2>1, <2>2, <2>3 DEF TableSound, ServingSound
<1> QED
    BY <1>1, ServedCorrect, PTL

\* Without a bound, and when calls name methods that exist, a grain that is not reentrant
\* serves one call at a time while the runtime is open, across all the activations it ever
\* has (_dispatch_here).
THEOREM TurnsAreTaken ==
    ASSUME MaxActivations = None, "missing" \notin Env
    PROVE  Spec => []OneAtATime
<1>1. Served /\ Locked => OneAtATime
  <2>1. SUFFICES ASSUME ServingSound, Locked, NEW c \in Caller, NEW d \in Caller,
                        pc[c] = "serving", pc[d] = "serving",
                        grainOf[act[c]] = grainOf[act[d]], grainOf[act[c]] \notin Reentrant
                 PROVE  c = d
    BY DEF OneAtATime, Served
  <2>2. act[c] = act[d]
    BY <2>1 DEF ServingSound, Counted
  <2> QED
    BY <2>1, <2>2 DEF Locked
<1> QED
    BY <1>1, ServedCorrect, LockedCorrect, PTL
=============================================================================
