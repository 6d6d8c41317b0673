------------------------ MODULE GrainRuntimeTable_proofs ------------------------
(***************************************************************************)
(* More about GrainRuntime, in this order: the order of the table, and     *)
(* that evictions take what was used longest ago; the bound on its size;   *)
(* that a record is deactivated once and by one task; that without a bound *)
(* the runtime implements VirtualActor while it is open; and what leaving  *)
(* it leaves behind.                                                       *)
(***************************************************************************)
EXTENDS GrainRuntime_proofs

-----------------------------------------------------------------------------
(***************************** The table's order ***************************)

\* What a step may make of the table: an entry is taken out, put at the end or
\* replaced in its place, or moved to the end.
Removes(g) ==
    /\ activations' = [activations EXCEPT ![g] = None]
    /\ before' = Without(g) /\ usedSince' = Forgotten(g)

Publishes(g) ==
    \E a \in Activation :
        /\ activations' = [activations EXCEPT ![g] = a]
        /\ before' = IF g \in Live THEN before ELSE AtEnd(g)
        /\ usedSince' = UsedNow(g)

Moves(g) ==
    /\ UNCHANGED activations
    /\ before' = AtEnd(g) /\ usedSince' = UsedNow(g)
    /\ Bounded => g \in Live

Changes ==
    \/ UNCHANGED table
    \/ \E g \in Grain : Removes(g) \/ Publishes(g) \/ Moves(g)

\* A lookup leaves the table, publishes or evicts.
LEMMA LookupChanges ==
    ASSUME Types, NEW c \in Caller, NEW g \in Grain, Lookup(c, g)
    PROVE  Changes
<1>1. CASE UNCHANGED table
  BY <1>1 DEF Changes
<1>2. CASE Build(c, g)
  BY <1>2 DEF Build, Changes, Publishes, table
<1>3. CASE Evict(c, g)
  <2>1. PICK v \in Grain : Detach(c, v)
    BY <1>3 DEF Evict, Evictable, Live
  <2> QED BY <2>1 DEF Detach, Changes, Removes
<1> QED BY <1>1, <1>2, <1>3 DEF Lookup

\* Every step does one of these things to the table.
LEMMA StepChanges ==
    ASSUME Types, Refs, [Next]_vars
    PROVE  Changes
<1>1. CASE UNCHANGED table
  BY <1>1 DEF Changes
<1>2. ASSUME NEW c \in Caller, NEW how, ActivateFails(c, how) PROVE Changes
  <2>1. grainOf[act[c]] \in Grain
    BY <1>2 DEF ActivateFails, Types, Refs
  <2> QED BY <1>2, <2>1 DEF ActivateFails, Changes, Removes
<1>3. ASSUME NEW c \in Caller, NEW how, Leave(c, how), pc[c] \in Counted PROVE Changes
  <2>1. grainOf[act[c]] \in Grain
    BY <1>3 DEF Counted, Types, Refs
  <2>2. CASE Bounded /\ activations[grainOf[act[c]]] = None
    BY <1>3, <2>2 DEF Leave, Changes, table
  <2>3. CASE ~(Bounded /\ activations[grainOf[act[c]]] = None)
    <3>1. Moves(grainOf[act[c]])
      BY <1>3, <2>1, <2>3 DEF Leave, Moves, Live
    <3> QED BY <2>1, <3>1 DEF Changes
  <2> QED BY <2>2, <2>3
<1>4. ASSUME NEW c \in Caller, CallerStep(c) PROVE Changes
  <2>1. CASE \E g \in Grain : Call(c, g)
    BY <2>1, LookupChanges DEF Call
  <2>2. CASE ActivateReturns(c) \/ Acquire(c)
    BY <1>1, <2>2 DEF ActivateReturns, Acquire, table
  <2>3. CASE ActivateFails(c, "failed")
    BY <1>2, <2>3
  <2>4. CASE Wake(c)
    <3>1. grainOf[act[c]] \in Grain
      BY <2>4 DEF Wake, Types, Refs
    <3> QED BY <1>1, <2>4, <3>1, LookupChanges DEF Wake
  <2>5. CASE Evicted(c)
    <3>1. want[c] \in Grain
      BY <2>5 DEF Evicted, Types, Refs
    <3> QED BY <2>5, <3>1 DEF Evicted, Build, Changes, Publishes, table
  <2>6. CASE Finish(c)
    BY <1>3, <2>6 DEF Finish, Counted
  <2>7. CASE Cancel(c)
    BY <1>1, <1>2, <1>3, <2>7 DEF Cancel, table
  <2> QED BY <1>4, <2>1, <2>2, <2>3, <2>4, <2>5, <2>6, <2>7 DEF CallerStep
<1>5. ASSUME NEW a \in Activation, RecordStep(a) PROVE Changes
  <2>1. CASE SweepTakes(a)
    <3>1. grainOf[a] \in Grain
      BY <2>1 DEF SweepTakes, Types, Refs
    <3> QED BY <2>1, <3>1 DEF SweepTakes, Detach, Changes, Removes
  <2> QED BY <1>1, <1>5, <2>1 DEF RecordStep, TimerStops, TickBegins, TickEnds, GoesIdle,
       SweepSkips, Forget, table
<1>6. ASSUME NEW g \in Grain, CloseTakes(g) PROVE Changes
  BY <1>6 DEF CloseTakes, Detach, Changes, Removes
<1>7. CASE UNCHANGED vars \/ (\E t \in Task : TimersGone(t)) \/ (\E g \in Grain : CloseSkips(g))
  BY <1>1, <1>7 DEF vars, TimersGone, CloseSkips, table
<1>8. CASE NodeStep
  BY <1>1, <1>8 DEF NodeStep, SweepBegins, SweepGoesOn, SweepEnds, CloseBegins, DrainBegins,
       DrainEnds, CloseGoesOn, CloseEnds, table
<1> QED BY <1>4, <1>5, <1>6, <1>7, <1>8 DEF Next

\* A strict total order R of exactly the members of S.
Orders(R, S) ==
    /\ R \subseteq S \X S
    /\ \A g \in S : <<g, g>> \notin R
    /\ \A g, h \in S : g # h => (<<g, h>> \in R <=> <<h, g>> \notin R)
    /\ \A g, h, i \in S : <<g, h>> \in R /\ <<h, i>> \in R => <<g, i>> \in R

\* What before stands for: the order in which an OrderedDict keeps its keys.
TableOrdered == Bounded => Orders(before, Live)

\* Taking an entry out leaves a total order of the others.
LEMMA RemovalKeepsOrder ==
    ASSUME NEW R, NEW S, NEW g, Orders(R, S)
    PROVE  Orders({p \in R : p[1] # g /\ p[2] # g}, S \ {g})
<1> DEFINE Q == {p \in R : p[1] # g /\ p[2] # g}
<1>1. \A h, i : <<h, i>> \in Q <=> <<h, i>> \in R /\ h # g /\ i # g
  OBVIOUS
<1>2. Q \subseteq (S \ {g}) \X (S \ {g})
  BY DEF Orders
<1> HIDE DEF Q
<1>3. Orders(Q, S \ {g})
  BY <1>1, <1>2 DEF Orders
<1> QED BY <1>3 DEF Q

\* Putting an entry after all the others extends the order to it.
LEMMA AdditionKeepsOrder ==
    ASSUME NEW R, NEW S, NEW g, g \notin S, Orders(R, S)
    PROVE  Orders(R \union {<<h, g>> : h \in S}, S \union {g})
<1> DEFINE Q == R \union {<<h, g>> : h \in S}
           T == S \union {g}
<1>1. \A h, i : <<h, i>> \in Q <=> <<h, i>> \in R \/ (h \in S /\ i = g)
  OBVIOUS
<1>2. Q \subseteq T \X T
  BY DEF Orders
<1>3. \A h, i : <<h, i>> \in R => h \in S /\ i \in S
  BY DEF Orders
<1>4. \A h : h \in T <=> h \in S \/ h = g
  OBVIOUS
<1> HIDE DEF Q, T
<1>5. \A h \in T : <<h, h>> \notin Q
  BY <1>1, <1>3, <1>4 DEF Orders
<1>6. \A h, i \in T : h # i => (<<h, i>> \in Q <=> <<i, h>> \notin Q)
  BY <1>1, <1>3, <1>4 DEF Orders
<1>7. \A h, i, j \in T : <<h, i>> \in Q /\ <<i, j>> \in Q => <<h, j>> \in Q
  BY <1>1, <1>3, <1>4 DEF Orders
<1>8. Orders(Q, T)
  BY <1>2, <1>5, <1>6, <1>7 DEF Orders
<1> QED BY <1>8 DEF Q, T

\* Every change of the table keeps its order total: moving to the end is
\* taking out and putting at the end.
LEMMA ChangesKeepOrder ==
    ASSUME Types, TableOrdered, Changes
    PROVE  TableOrdered'
<1> SUFFICES ASSUME Bounded PROVE Orders(before', Live')
  BY DEF TableOrdered, Bounded
<1>0. Orders(before, Live)
  BY DEF TableOrdered
<1>1. CASE UNCHANGED table
  BY <1>0, <1>1 DEF table, Live
<1>2. ASSUME NEW g \in Grain, Removes(g) PROVE Orders(before', Live')
  <2>1. Live' = Live \ {g}
    BY <1>2 DEF Removes, Live, Types
  <2> QED BY <1>0, <1>2, <2>1, RemovalKeepsOrder DEF Removes, Without
<1>3. ASSUME NEW g \in Grain, Publishes(g), g \in Live PROVE Orders(before', Live')
  <2>1. Live' = Live /\ before' = before
    BY <1>3, RecordsAssumption DEF Publishes, Live, Types
  <2> QED BY <1>0, <2>1
<1>4. ASSUME NEW g \in Grain, Publishes(g), g \notin Live PROVE Orders(before', Live')
  <2>1. Live' = Live \union {g}
    BY <1>4, RecordsAssumption DEF Publishes, Live, Types
  <2>2. before' = before \union {<<h, g>> : h \in Live}
    <3>1. \A p \in before : p[1] # g
      BY <1>0, <1>4 DEF Orders
    <3>2. Live \ {g} = Live /\ {p \in before : p[1] # g} = before
      BY <1>4, <3>1
    <3> QED BY <1>4, <3>2 DEF Publishes, AtEnd
  <2> QED BY <1>0, <1>4, <2>1, <2>2, AdditionKeepsOrder
<1>5. ASSUME NEW g \in Grain, Moves(g) PROVE Orders(before', Live')
  <2> DEFINE rest == {p \in before : p[1] # g /\ p[2] # g}
  <2>1. Live' = Live /\ (Live \ {g}) \union {g} = Live
    BY <1>5 DEF Moves, Live
  <2>2. Orders(rest, Live \ {g})
    BY <1>0, RemovalKeepsOrder
  <2>3. Orders(rest \union {<<h, g>> : h \in Live \ {g}}, (Live \ {g}) \union {g})
    <3> HIDE DEF rest
    <3> QED BY <2>2, AdditionKeepsOrder
  <2>4. before' = rest \union {<<h, g>> : h \in Live \ {g}}
    <3>1. before' = {p \in before : p[1] # g} \union {<<h, g>> : h \in Live \ {g}}
      BY <1>5 DEF Moves, AtEnd
    <3>2. \A p \in before : p \in rest \/ p[1] = g \/ p \in {<<h, g>> : h \in Live \ {g}}
      BY <1>0 DEF Orders
    <3> QED BY <3>1, <3>2
  <2> QED BY <2>1, <2>3, <2>4
<1> QED BY <1>1, <1>2, <1>3, <1>4, <1>5 DEF Changes

\* The relation is an order of what is in the table, as long as the runtime runs.
LEMMA OrderIsTotal == Spec => []TableOrdered
<1>1. Init => TableOrdered
  BY DEF Init, TableOrdered, Orders, Live
<1>2. Types /\ Refs /\ TableOrdered /\ [Next]_vars => TableOrdered'
  BY StepChanges, ChangesKeepOrder
<1> QED
  BY <1>1, <1>2, TypesCorrect, PTL DEF Spec

-----------------------------------------------------------------------------
(************************** Least recently used ****************************)

\* Calls that will move their identity to the end of the table when they are over.
Busy == Counted \union {"activating"}

\* Such a call is under way on the record that the table holds for g.
InUse(g) == \E c \in Caller : pc[c] \in Busy /\ act[c] = activations[g]

\* What stands before another was used before it, or is in use: an entry that was replaced
\* where it stood is older in the table than it is in fact until its first call is over.
Recent ==
    Bounded =>
        \A g, h \in Live : <<g, h>> \in before => h \in usedSince[g] \/ InUse(g)

\* The call of c comes to its end, whichever way: its identity is moved to the end, is taken
\* out, or is not there any more.
EndsCall(c) ==
    /\ pc[c] \in Busy
    /\ \A d \in Caller \ {c} : pc'[d] = pc[d] /\ act'[d] = act[d]
    /\ \/ pc[c] = "activating" /\ Removes(grainOf[act[c]])
       \/ pc[c] \in Counted /\ pc'[c] \notin Counted /\ Moves(grainOf[act[c]])
       \/ /\ pc[c] \in Counted /\ pc'[c] \notin Counted /\ UNCHANGED table
          /\ activations[grainOf[act[c]]] = None

\* No call ends.
GoOn ==
    \A c \in Caller :
        pc[c] \in Busy => pc'[c] \in Busy /\ act'[c] = act[c] /\ (pc[c] \in Counted => pc'[c] \in Counted)

\* A record is published for g and its activation begins.
Opens(g) ==
    /\ Publishes(g)
    /\ activations'[g] # activations[g]
    /\ \E c \in Caller : pc'[c] = "activating" /\ act'[c] = activations'[g]

\* What a step does to the order of the table and to the calls.
Reorders ==
    \/ \E c \in Caller : EndsCall(c)
    \/ GoOn /\ (UNCHANGED table \/ \E g \in Grain : Removes(g) \/ Opens(g))

LEMMA BuildOpens ==
    ASSUME Types, Refs, NEW c \in Caller, NEW g \in Grain, pc[c] \notin Busy, Build(c, g)
    PROVE  Reorders
<1>1. GoOn
  BY DEF GoOn, Build, Give, Types
<1>2. CASE UNCHANGED table
  BY <1>1, <1>2 DEF Reorders
<1>3. ASSUME NEW a \in Activation, grainOf[a] = None,
             activations' = [activations EXCEPT ![g] = a],
             before' = IF g \in Live THEN before ELSE AtEnd(g),
             usedSince' = UsedNow(g),
             pc' = [pc EXCEPT ![c] = "activating"],
             act' = [act EXCEPT ![c] = a]
      PROVE  Opens(g)
  <2>1. activations'[g] = a /\ pc'[c] = "activating" /\ act'[c] = a
    BY <1>3 DEF Types
  <2>2. activations[g] # a
    BY <1>3, GrainsAssumption, RecordsAssumption DEF Refs
  <2> QED BY <1>3, <2>1, <2>2 DEF Opens, Publishes
<1> QED BY <1>1, <1>2, <1>3 DEF Build, Reorders, table

LEMMA LookupReorders ==
    ASSUME Types, Refs, NEW c \in Caller, NEW g \in Grain, pc[c] \notin Busy, Lookup(c, g)
    PROVE  Reorders
<1>1. CASE GoOn /\ UNCHANGED table
  BY <1>1 DEF Reorders
<1>2. CASE Build(c, g)
  BY <1>2, BuildOpens
<1>3. CASE Evict(c, g)
  <2>1. PICK v \in Grain : Detach(c, v)
    BY <1>3 DEF Evict, Evictable, Live
  <2>2. GoOn
    BY <1>3 DEF Evict, GoOn, Types
  <2> QED BY <2>1, <2>2 DEF Detach, Reorders, Removes
<1>4. ASSUME NEW a, Dispatch(c, a) PROVE GoOn
  BY <1>4 DEF Dispatch, GoOn, Types
<1>5. ASSUME NEW how, Give(c, how) PROVE GoOn
  BY <1>5 DEF Give, GoOn, Types
<1>6. ASSUME pc' = [pc EXCEPT ![c] = "waiting"], act' = [act EXCEPT ![c] = activations[g]]
      PROVE  GoOn
  BY <1>6 DEF GoOn, Types
<1> QED BY <1>1, <1>2, <1>3, <1>4, <1>5, <1>6 DEF Lookup, table

\* Every step does one of these things, when calls name methods that exist.
LEMMA StepReorders ==
    ASSUME "missing" \notin Env, Types, Refs, [Next]_vars
    PROVE  Reorders
<1> USE DEF Busy, Counted
<1>1. CASE UNCHANGED <<table, pc, act>>
  BY <1>1 DEF Reorders, GoOn
<1>2. ASSUME NEW c \in Caller, NEW how, ActivateFails(c, how) PROVE Reorders
  <2>1. pc[c] = "activating" /\ Removes(grainOf[act[c]])
        /\ \A d \in Caller \ {c} : pc'[d] = pc[d] /\ act'[d] = act[d]
    BY <1>2 DEF ActivateFails, Give, Removes, Types
  <2> QED BY <2>1 DEF Reorders, EndsCall
<1>3. ASSUME NEW c \in Caller, NEW how, Leave(c, how), pc[c] \in Counted, how \notin Counted
      PROVE  Reorders
  <2>1. grainOf[act[c]] \in Grain
    BY <1>3 DEF Types, Refs
  <2>2. /\ \A d \in Caller \ {c} : pc'[d] = pc[d] /\ act'[d] = act[d]
        /\ pc'[c] \in {how, "keyerror"}
    BY <1>3 DEF Leave, Types
  <2>3. CASE Bounded /\ activations[grainOf[act[c]]] = None
    BY <1>3, <2>2, <2>3 DEF Leave, Reorders, EndsCall, table
  <2>4. CASE ~(Bounded /\ activations[grainOf[act[c]]] = None)
    <3>1. Moves(grainOf[act[c]])
      BY <1>3, <2>1, <2>4 DEF Leave, Moves, Live
    <3> QED BY <1>3, <2>2, <3>1 DEF Reorders, EndsCall
  <2> QED BY <2>3, <2>4
<1>4. ASSUME NEW c \in Caller, CallerStep(c) PROVE Reorders
  <2>1. CASE \E g \in Grain : Call(c, g)
    BY <2>1, LookupReorders DEF Call, Ended
  <2>2. CASE ActivateReturns(c) \/ Acquire(c)
    <3>1. GoOn
      BY <2>2 DEF ActivateReturns, Dispatch, Acquire, GoOn, Types
    <3> QED BY <2>2, <3>1 DEF ActivateReturns, Acquire, Reorders, table
  <2>3. CASE ActivateFails(c, "failed")
    BY <1>2, <2>3
  <2>4. CASE Wake(c)
    <3>1. grainOf[act[c]] \in Grain /\ pc[c] = "waiting"
      BY <2>4 DEF Wake, Types, Refs
    <3>2. CASE Lookup(c, grainOf[act[c]])
      BY <3>1, <3>2, LookupReorders
    <3>3. CASE Dispatch(c, act[c]) /\ UNCHANGED table
      <4>1. GoOn
        BY <3>1, <3>3 DEF Dispatch, GoOn, Types
      <4> QED BY <3>3, <4>1 DEF Reorders
    <3>4. CASE Give(c, "failed") /\ UNCHANGED table
      <4>1. GoOn
        BY <3>1, <3>4 DEF Give, GoOn, Types
      <4> QED BY <3>4, <4>1 DEF Reorders
    <3> QED BY <2>4, <3>2, <3>3, <3>4 DEF Wake, table
  <2>5. CASE Evicted(c)
    <3>1. want[c] \in Grain /\ pc[c] = "evicting" /\ Build(c, want[c])
      BY <2>5 DEF Evicted, Types, Refs
    <3> QED BY <3>1, BuildOpens
  <2>6. CASE Finish(c)
    BY <1>3, <2>6 DEF Finish
  <2>7. CASE Cancel(c)
    <3>1. CASE \/ pc[c] = "waiting" /\ Give(c, "cancelled") /\ UNCHANGED table
               \/ pc[c] = "evicting" /\ Give(c, "cancelled") /\ UNCHANGED table
      <4>1. GoOn
        BY <3>1 DEF Give, GoOn, Types
      <4> QED BY <3>1, <4>1 DEF Reorders
    <3>2. CASE ActivateFails(c, "cancelled")
      BY <1>2, <3>2
    <3>3. CASE pc[c] \in Counted /\ Leave(c, "cancelled")
      BY <1>3, <3>3
    <3>4. CASE UNCHANGED <<table, pc, act>>
      BY <1>1, <3>4
    <3> QED BY <2>7, <3>1, <3>2, <3>3, <3>4 DEF Cancel, table
  <2> QED BY <1>4, <2>1, <2>2, <2>3, <2>4, <2>5, <2>6, <2>7 DEF CallerStep
<1>5. ASSUME NEW t \in Task, NEW g \in Grain, Detach(t, g), UNCHANGED <<pc, act>> PROVE Reorders
  BY <1>5 DEF Detach, Reorders, GoOn, Removes
<1>6. ASSUME NEW a \in Activation, RecordStep(a) PROVE Reorders
  <2>1. CASE SweepTakes(a)
    <3>1. grainOf[a] \in Grain /\ Sweeper \in Task
      BY <2>1 DEF SweepTakes, Types, Refs, Task
    <3> QED BY <1>5, <2>1, <3>1 DEF SweepTakes, calls
  <2> QED BY <1>1, <1>6, <2>1 DEF RecordStep, TimerStops, TickBegins, TickEnds, GoesIdle,
       SweepSkips, Forget, table, calls
<1>7. ASSUME NEW g \in Grain, CloseTakes(g) PROVE Reorders
  BY <1>5, <1>7 DEF CloseTakes, calls, Task
<1>8. CASE UNCHANGED vars \/ (\E t \in Task : TimersGone(t)) \/ (\E g \in Grain : CloseSkips(g))
  BY <1>1, <1>8 DEF vars, TimersGone, CloseSkips, table, calls
<1>9. CASE NodeStep
  BY <1>1, <1>9 DEF NodeStep, SweepBegins, SweepGoesOn, SweepEnds, CloseBegins, DrainBegins,
       DrainEnds, CloseGoesOn, CloseEnds, table, calls
<1> QED BY <1>4, <1>6, <1>7, <1>8, <1>9 DEF Next

\* A step keeps the order of the table in step with the uses.
LEMMA RecentStep ==
    ASSUME "missing" \notin Env, Types, Refs, TableOrdered, Recent, [Next]_vars
    PROVE  Recent'
<1> SUFFICES ASSUME Bounded, NEW g \in Live', NEW h \in Live', <<g, h>> \in before'
             PROVE  h \in usedSince'[g] \/ InUse(g)'
  BY DEF Recent, Bounded
<1>0. /\ g \in Grain /\ h \in Grain
      /\ activations'[g] # None /\ activations'[h] # None
  BY DEF Live
<1> DEFINE Kept == h \in Live /\ <<g, h>> \in before /\ (h \in usedSince[g] => h \in usedSince'[g])
<1>1. ASSUME Kept, g \in Live PROVE h \in usedSince'[g] \/ InUse(g)
  BY <1>1 DEF Recent
<1>2. ASSUME NEW k \in Grain, Removes(k)
      PROVE  k # g /\ g \in Live /\ activations'[g] = activations[g] /\ Kept
  <2>1. k # g /\ k # h
    BY <1>0, <1>2 DEF Removes, Types
  <2>2. activations'[g] = activations[g] /\ activations'[h] = activations[h]
    BY <1>2, <2>1 DEF Removes, Types
  <2>3. <<g, h>> \in before
    BY <1>2 DEF Removes, Without
  <2>4. usedSince'[g] = usedSince[g] \ {k}
    BY <1>0, <1>2, <2>1 DEF Removes, Forgotten
  <2> QED BY <1>0, <2>1, <2>2, <2>3, <2>4 DEF Live
<1>3. ASSUME NEW k \in Grain, k # g, g \in Live, usedSince' = UsedNow(k) PROVE k \in usedSince'[g]
  BY <1>0, <1>3 DEF UsedNow
<1>4. ASSUME NEW k \in Grain, k # g, g \in Live, usedSince' = UsedNow(k)
      PROVE  h \in usedSince[g] => h \in usedSince'[g]
  BY <1>0, <1>4 DEF UsedNow
<1>5. ASSUME NEW k \in Grain, Moves(k)
      PROVE  k # g /\ g \in Live /\ activations'[g] = activations[g] /\ (h \in usedSince'[g] \/ Kept)
  <2>1. k # g
    BY <1>5 DEF Moves, AtEnd
  <2>2. g \in Live /\ h \in Live /\ activations'[g] = activations[g]
    BY <1>0, <1>5 DEF Moves, Live
  <2>3. h = k \/ <<g, h>> \in before
    BY <1>5 DEF Moves, AtEnd
  <2> QED BY <1>3, <1>4, <1>5, <2>1, <2>2, <2>3 DEF Moves
<1>6. ASSUME NEW k \in Grain, Opens(k), k # g
      PROVE  g \in Live /\ activations'[g] = activations[g] /\ (h \in usedSince'[g] \/ Kept)
  <2>1. g \in Live /\ activations'[g] = activations[g]
    BY <1>0, <1>6 DEF Opens, Publishes, Live, Types
  <2>2. usedSince' = UsedNow(k)
    BY <1>6 DEF Opens, Publishes
  <2>3. h # k => h \in Live /\ <<g, h>> \in before
    BY <1>0, <1>6 DEF Opens, Publishes, AtEnd, Live, Types
  <2> QED BY <1>3, <1>4, <1>6, <2>1, <2>2, <2>3
<1> HIDE DEF Kept
<1>7. ASSUME NEW c \in Caller, EndsCall(c) PROVE h \in usedSince'[g] \/ InUse(g)'
  <2> DEFINE k == grainOf[act[c]]
  <2>1. k \in Grain
    BY <1>7 DEF EndsCall, Busy, Counted, Types, Refs
  <2>2. \A d \in Caller \ {c} : pc'[d] = pc[d] /\ act'[d] = act[d]
    BY <1>7 DEF EndsCall
  <2>3. k # g /\ g \in Live /\ activations'[g] = activations[g] /\ (h \in usedSince'[g] \/ Kept)
    <3>1. CASE UNCHANGED table /\ activations[k] = None
      BY <1>0, <3>1 DEF table, Live, Kept
    <3> QED BY <1>2, <1>5, <1>7, <2>1, <3>1 DEF EndsCall
  <2>4. ASSUME InUse(g) PROVE InUse(g)'
    <3>1. PICK d \in Caller : pc[d] \in Busy /\ act[d] = activations[g]
      BY <2>4 DEF InUse
    <3>2. grainOf[act[d]] = g
      BY <1>0, <2>3, <3>1 DEF Refs
    <3>3. d # c
      BY <2>3, <3>2
    <3> QED BY <2>2, <2>3, <3>1, <3>3 DEF InUse
  <2> QED BY <1>1, <2>3, <2>4
<1>8. CASE GoOn /\ (UNCHANGED table \/ \E k \in Grain : Removes(k) \/ Opens(k))
  <2>1. CASE Opens(g)
    <3>1. PICK c \in Caller : pc'[c] = "activating" /\ act'[c] = activations'[g]
      BY <2>1 DEF Opens
    <3> QED BY <3>1 DEF InUse, Busy
  <2>2. CASE ~Opens(g)
    <3>1. g \in Live /\ activations'[g] = activations[g] /\ (h \in usedSince'[g] \/ Kept)
      <4>1. CASE UNCHANGED table
        BY <1>0, <4>1 DEF table, Live, Kept
      <4> QED BY <1>2, <1>6, <1>8, <2>2, <4>1
    <3>2. ASSUME InUse(g) PROVE InUse(g)'
      BY <1>8, <3>1, <3>2 DEF InUse, GoOn
    <3> QED BY <1>1, <3>1, <3>2
  <2> QED BY <2>1, <2>2
<1> QED BY <1>7, <1>8, StepReorders DEF Reorders

\* A caller begins an eviction only in a lookup.
LEMMA EvictsWhatIsFirst ==
    ASSUME Types, Refs, [Next]_vars, NEW c \in Caller, NEW v \in Grain, Evicts(c, v)
    PROVE  Bounded /\ v \in Evictable /\ \A h \in Evictable : <<h, v>> \notin before
<1>0. pc[c] # "evicting" /\ pc'[c] = "evicting" /\ v = grainOf[victim'[c]]
  BY DEF Evicts
<1>1. ASSUME NEW g \in Grain, Evict(c, g)
      PROVE  v \in Evictable /\ \A h \in Evictable : <<h, v>> \notin before
  <2>1. PICK w \in Evictable : Detach(c, w) /\ \A h \in Evictable : <<h, w>> \notin before
    BY <1>1 DEF Evict
  <2>2. w \in Grain /\ activations[w] # None
    BY DEF Evictable, Live
  <2>3. victim'[c] = activations[w]
    BY <2>1 DEF Detach, Types, Task
  <2>4. w = v
    BY <1>0, <2>2, <2>3 DEF Refs
  <2> QED BY <2>1, <2>4
<1>2. ASSUME NEW g \in Grain, Lookup(c, g)
      PROVE  Bounded /\ v \in Evictable /\ \A h \in Evictable : <<h, v>> \notin before
  <2>1. CASE Evict(c, g) /\ Full
    BY <1>1, <2>1 DEF Full
  <2>2. CASE Build(c, g)
    BY <1>0, <2>2 DEF Build, Give, Types
  <2>3. ASSUME NEW a, Dispatch(c, a) PROVE FALSE
    BY <1>0, <2>3 DEF Dispatch, Types
  <2>4. CASE Give(c, "failed")
    BY <1>0, <2>4 DEF Give, Types
  <2> QED BY <1>0, <1>2, <2>1, <2>2, <2>3, <2>4 DEF Lookup, Types
<1>3. ASSUME NEW d \in Caller, CallerStep(d)
      PROVE  \/ d = c /\ \E g \in Grain : Lookup(c, g)
             \/ pc'[c] # "evicting" \/ pc[c] = "evicting"
  <2>1. CASE \E g \in Grain : Call(d, g)
    <3>1. ASSUME NEW g \in Grain, Lookup(d, g), d # c PROVE pc'[c] = pc[c]
      BY <3>1 DEF Lookup, Dispatch, Give, Build, Evict, Types
    <3> QED BY <2>1, <3>1 DEF Call
  <2>2. CASE ActivateReturns(d) \/ Acquire(d)
    BY <2>2 DEF ActivateReturns, Dispatch, Acquire, Types
  <2>3. CASE ActivateFails(d, "failed")
    BY <2>3 DEF ActivateFails, Give, Types
  <2>4. CASE Wake(d)
    <3>1. grainOf[act[d]] \in Grain
      BY <2>4 DEF Wake, Types, Refs
    <3>2. CASE Lookup(d, grainOf[act[d]])
      <4>1. d # c => pc'[c] = pc[c]
        BY <3>2 DEF Lookup, Dispatch, Give, Build, Evict, Types
      <4> QED BY <3>1, <3>2, <4>1
    <3>3. CASE Dispatch(d, act[d]) \/ Give(d, "failed")
      BY <3>3 DEF Dispatch, Give, Types
    <3> QED BY <2>4, <3>2, <3>3 DEF Wake
  <2>5. CASE Evicted(d)
    BY <2>5 DEF Evicted, Build, Give, Types
  <2>6. CASE Finish(d)
    BY <2>6 DEF Finish, Leave, Types
  <2>7. CASE Cancel(d)
    BY <2>7 DEF Cancel, ActivateFails, Leave, Give, Types
  <2> QED BY <1>3, <2>1, <2>2, <2>3, <2>4, <2>5, <2>6, <2>7 DEF CallerStep
<1>4. ASSUME UNCHANGED pc PROVE FALSE
  BY <1>0, <1>4
<1>5. ASSUME NEW a \in Activation, RecordStep(a) PROVE UNCHANGED pc
  BY <1>5 DEF RecordStep, TimerStops, TickBegins, TickEnds, GoesIdle, SweepTakes, SweepSkips,
      Forget, calls
<1>6. ASSUME \/ UNCHANGED vars \/ (\E t \in Task : TimersGone(t))
             \/ \E g \in Grain : CloseTakes(g) \/ CloseSkips(g)
      PROVE  UNCHANGED pc
  BY <1>6 DEF vars, TimersGone, CloseTakes, CloseSkips, calls
<1>7. ASSUME NodeStep PROVE UNCHANGED pc
  BY <1>7 DEF NodeStep, SweepBegins, SweepGoesOn, SweepEnds, CloseBegins, DrainBegins,
       DrainEnds, CloseGoesOn, CloseEnds, calls
<1> QED BY <1>0, <1>2, <1>3, <1>4, <1>5, <1>6, <1>7 DEF Next

\* What can be evicted is not in use.
LEMMA EvictableIsUnused ==
    ASSUME Types, Refs, Builders, InFlightExact, NEW g \in Evictable
    PROVE  ~InUse(g)
<1> SUFFICES ASSUME NEW c \in Caller, pc[c] \in Busy, act[c] = activations[g] PROVE FALSE
  BY DEF InUse
<1> DEFINE a == activations[g]
<1>1. g \in Grain /\ a \in Activation /\ inFlight[a] = 0 /\ ready[a] = "ready"
  BY DEF Evictable, Live, Types
<1>2. pc[c] # "activating"
  BY <1>1 DEF Builders
<1>3. c \in Users(a)
  BY <1>2 DEF Busy, Users
<1>4. Cardinality(Users(a)) # 0
  BY <1>3, UsersFinite, FS_EmptySet
<1> HIDE DEF a
<1>5. inFlight[a] = Cardinality(Users(a)) + (IF Ticks(a) THEN 1 ELSE 0)
  BY <1>1, ExactMeans
<1> QED BY <1>1, <1>4, <1>5, UsersFinite

\* A full fleet evicts what was used longest ago of what it can evict, for any number of
\* identities, callers and any bound, whatever fails and is cancelled, as long as calls name
\* methods their grains have: a call that names none is not counted and moves nothing
\* (_make_room, move_to_end in _counted).
THEOREM LeastRecentlyUsedGoes ==
    ASSUME "missing" \notin Env
    PROVE  Spec => EvictsLeastRecentlyUsed
<1>1. Init => Recent
  BY DEF Init, Recent, Live
<1>2. Types /\ Refs /\ TableOrdered /\ Recent /\ [Next]_vars => Recent'
  BY RecentStep
<1>3. Types /\ Refs /\ Builders /\ InFlightExact /\ TableOrdered /\ Recent /\ [Next]_vars
      => [\A c \in Caller, v \in Grain :
              Evicts(c, v) => \A h \in Evictable \ {v} : h \in usedSince[v]]_vars
  <2> SUFFICES ASSUME Types, Refs, Builders, InFlightExact, TableOrdered, Recent, Next,
                      NEW c \in Caller, NEW v \in Grain, Evicts(c, v), NEW h \in Evictable \ {v}
               PROVE  h \in usedSince[v]
    OBVIOUS
  <2>1. Bounded /\ v \in Evictable /\ <<h, v>> \notin before
    BY EvictsWhatIsFirst
  <2>2. v \in Live /\ h \in Live /\ v # h
    BY <2>1 DEF Evictable
  <2>3. <<v, h>> \in before
    BY <2>1, <2>2 DEF TableOrdered, Orders
  <2> QED BY <2>1, <2>2, <2>3, EvictableIsUnused DEF Recent
<1> QED
  BY <1>1, <1>2, <1>3, BuildersCorrect, CountIsExact, OrderIsTotal, PTL
     DEF Spec, EvictsLeastRecentlyUsed

-----------------------------------------------------------------------------
(**************************** The bound of the fleet ***********************)

Evictors == {c \in Caller : pc[c] = "evicting"}

\* What is in the table is pending or ready, and schedules belong to grains that
\* ask for them.
Listed ==
    /\ \A g \in Grain : activations[g] # None => ready[activations[g]] \in {"pending", "ready"}
    /\ \A a \in Activation : timer[a] # "none" => grainOf[a] \in Timed

\* An identity taken out to make room is as good as in the table until the one
\* it makes room for is.
Load == Cardinality(Live) + Cardinality(Evictors)

Fits(n) ==
    \/ n < MaxActivations + Cardinality(Caller)
    \/ n <= Cardinality(Caller) + Cardinality(Timed)

Room == IsFiniteSet(Live) /\ (Bounded => Fits(Load))

LEMMA CountsAreNat ==
    /\ IsFiniteSet(Evictors) /\ Cardinality(Evictors) \in Nat
    /\ Cardinality(Caller) \in Nat
    /\ IsFiniteSet(Live) => Cardinality(Live) \in Nat
    /\ IsFiniteSet(Timed) => Cardinality(Timed) \in Nat
<1>1. IsFiniteSet(Evictors)
  BY CallersAssumption, FS_Subset DEF Evictors
<1> QED BY <1>1, CallersAssumption, FS_CardinalityType

\* The table and the callers that evict, after a step that publishes nothing and
\* evicts nothing.
Eases == Live' \subseteq Live /\ Evictors' \subseteq Evictors

\* An eviction begins, and it ends with what it was for.
Trades ==
    \E c \in Caller \ Evictors, v \in Live :
        Live' = Live \ {v} /\ Evictors' = Evictors \union {c}
Settles ==
    \E c \in Evictors, g \in Grain :
        Live' = Live \union {g} /\ Evictors' = Evictors \ {c}

\* A caller that uses no activation publishes one because there is room, or
\* because everything else is in use.
Adds ==
    \E c \in Caller, g \in Grain :
        /\ pc[c] \notin Counted \union {"activating", "evicting"}
        /\ ~Full \/ Evictable = {}
        /\ Live' = Live \union {g} /\ Evictors' = Evictors

LEMMA LookupLoads ==
    ASSUME Types, NEW c \in Caller, NEW g \in Grain, Lookup(c, g),
           pc[c] \notin Counted \union {"activating", "evicting"}
    PROVE  Eases \/ Trades \/ Adds
<1>1. CASE /\ UNCHANGED activations
           /\ \E s \in {"waiting", "refused", "serving", "locking", "failed"} :
                 pc' = [pc EXCEPT ![c] = s]
  BY <1>1 DEF Eases, Live, Evictors, Types
<1>2. CASE Build(c, g) /\ (~Full \/ Evictable = {})
  <2>1. CASE \E a \in Activation : activations' = [activations EXCEPT ![g] = a]
                                   /\ pc' = [pc EXCEPT ![c] = "activating"]
    <3>1. Live' = Live \union {g} /\ Evictors' = Evictors
      BY <2>1, RecordsAssumption DEF Live, Evictors, Types
    <3> QED BY <1>2, <3>1 DEF Adds
  <2> QED BY <1>1, <1>2, <2>1 DEF Build, Give, table
<1>3. CASE Evict(c, g)
  <2>1. PICK v \in Live : Detach(c, v) /\ pc' = [pc EXCEPT ![c] = "evicting"]
    BY <1>3 DEF Evict, Evictable
  <2>2. Live' = Live \ {v} /\ Evictors' = Evictors \union {c} /\ c \notin Evictors
    BY <2>1 DEF Detach, Live, Evictors, Types
  <2> QED BY <2>2 DEF Trades
<1> QED BY <1>1, <1>2, <1>3 DEF Lookup, Dispatch, Give, table

LEMMA StepLoads ==
    ASSUME Types, Refs, [Next]_vars
    PROVE  Eases \/ Trades \/ Settles \/ Adds
<1>1. ASSUME UNCHANGED <<activations, pc>> PROVE Eases
  BY <1>1 DEF Eases, Live, Evictors
<1>2. ASSUME NEW t \in Task, NEW g \in Grain, Detach(t, g), UNCHANGED pc PROVE Eases
  BY <1>2 DEF Detach, Eases, Live, Evictors, Types
<1>3. ASSUME NEW c \in Caller, CallerStep(c) PROVE Eases \/ Trades \/ Settles \/ Adds
  <2>1. ASSUME NEW s, s # "evicting", pc' = [pc EXCEPT ![c] = s],
               Live' \subseteq Live
        PROVE  Eases
    BY <2>1 DEF Eases, Evictors, Types
  <2>2. CASE \E g \in Grain : Call(c, g)
    BY <2>2, LookupLoads DEF Call, Ended, Counted
  <2>3. CASE ActivateReturns(c)
    BY <2>1, <2>3 DEF ActivateReturns, Dispatch, Live, table
  <2>4. ASSUME NEW how \in {"failed", "cancelled"}, ActivateFails(c, how) PROVE Eases
    <3>1. Live' \subseteq Live
      BY <2>4 DEF ActivateFails, Live, Types
    <3> QED BY <2>1, <2>4, <3>1 DEF ActivateFails, Give
  <2>5. CASE Wake(c)
    <3>1. CASE (Dispatch(c, act[c]) \/ Give(c, "failed")) /\ UNCHANGED table
      BY <2>1, <3>1 DEF Dispatch, Give, Live, table
    <3>2. CASE Lookup(c, grainOf[act[c]])
      <4>1. grainOf[act[c]] \in Grain
        BY <2>5 DEF Wake, Types, Refs
      <4> QED BY <2>5, <3>2, <4>1, LookupLoads DEF Wake, Counted
    <3> QED BY <2>5, <3>1, <3>2 DEF Wake
  <2>6. CASE Evicted(c)
    <3>1. want[c] \in Grain /\ pc[c] = "evicting"
      BY <2>6 DEF Evicted, Types, Refs
    <3>2. CASE Give(c, "failed") /\ UNCHANGED activations
      BY <2>1, <3>2 DEF Give, Live
    <3>3. CASE \E a \in Activation : activations' = [activations EXCEPT ![want[c]] = a]
                                     /\ pc' = [pc EXCEPT ![c] = "activating"]
      <4>1. Live' = Live \union {want[c]} /\ Evictors' = Evictors \ {c} /\ c \in Evictors
        BY <3>1, <3>3, RecordsAssumption DEF Live, Evictors, Types
      <4> QED BY <3>1, <4>1 DEF Settles
    <3> QED BY <2>6, <3>2, <3>3 DEF Evicted, Build, table
  <2>7. CASE Acquire(c)
    BY <2>1, <2>7 DEF Acquire, Live, table
  <2>8. ASSUME NEW how \in {"answered", "cancelled"}, Leave(c, how) PROVE Eases
    BY <2>1, <2>8 DEF Leave, Live
  <2>9. CASE Cancel(c)
    <3>1. CASE Give(c, "cancelled") /\ UNCHANGED activations
      BY <2>1, <3>1 DEF Give, Live
    <3> QED BY <1>1, <2>4, <2>8, <2>9, <3>1 DEF Cancel, table
  <2> QED BY <1>3, <2>2, <2>3, <2>4, <2>5, <2>6, <2>7, <2>8, <2>9 DEF CallerStep, Finish
<1>4. ASSUME NEW a \in Activation, RecordStep(a) PROVE Eases
  <2>1. CASE SweepTakes(a)
    <3>1. grainOf[a] \in Grain
      BY <2>1 DEF SweepTakes, Types, Refs
    <3> QED BY <1>2, <2>1, <3>1 DEF SweepTakes, Task, calls
  <2>2. CASE \/ TimerStops(a) \/ TickBegins(a) \/ TickEnds(a) \/ GoesIdle(a)
             \/ SweepSkips(a) \/ Forget(a)
    <3>1. UNCHANGED <<activations, pc>>
      BY <2>2 DEF TimerStops, TickBegins, TickEnds, GoesIdle, SweepSkips, Forget, table, calls
    <3> QED BY <1>1, <3>1
  <2> QED BY <1>4, <2>1, <2>2 DEF RecordStep
<1>5. ASSUME NEW g \in Grain, CloseTakes(g) PROVE Eases
  BY <1>2, <1>5 DEF CloseTakes, Task, calls
<1>6. CASE UNCHANGED vars \/ (\E t \in Task : TimersGone(t)) \/ (\E g \in Grain : CloseSkips(g))
  BY <1>1, <1>6 DEF vars, TimersGone, CloseSkips, table, calls
<1>7. CASE NodeStep
  BY <1>1, <1>7 DEF NodeStep, SweepBegins, SweepGoesOn, SweepEnds, CloseBegins, DrainBegins,
       DrainEnds, CloseGoesOn, CloseEnds, table, calls
<1> QED BY <1>3, <1>4, <1>5, <1>6, <1>7 DEF Next

\* When nothing of the table can be evicted each of its grains is in use, by a call
\* or by a schedule, and neither the caller nor those that evict use any.
LEMMA NothingToEvict ==
    ASSUME Types, Refs, Builders, InFlightExact, Listed, IsFiniteSet(Timed),
           IsFiniteSet(Live), Evictable = {}, NEW c \in Caller,
           pc[c] \notin Counted \union {"activating", "evicting"}
    PROVE  Load + 1 <= Cardinality(Caller) + Cardinality(Timed)
<1> DEFINE busy == {d \in Caller : pc[d] \in Counted \union {"activating"}}
           held == {grainOf[act[d]] : d \in busy}
<1>1. Live \subseteq held \union Timed
  <2>1. SUFFICES ASSUME NEW g \in Live, g \notin Timed PROVE g \in held
    OBVIOUS
  <2> DEFINE a == activations[g]
  <2>2. a \in Activation /\ grainOf[a] = g /\ ready[a] \in {"pending", "ready"}
    BY DEF Live, Types, Refs, Listed
  <2>3. CASE ready[a] = "pending"
    <3>1. PICK d \in Caller : pc[d] = "activating" /\ act[d] = a
      BY <2>2, <2>3, GrainsAssumption DEF Builders, Live
    <3> QED BY <2>2, <3>1
  <2>4. CASE ready[a] = "ready"
    <3>1. inFlight[a] # 0
      BY <2>4 DEF Evictable
    <3>2. timer[a] = "none"
      BY <2>1, <2>2 DEF Listed
    <3>3. inFlight[a] = Cardinality(Users(a))
      BY <2>2, <3>2, ExactMeans, UsersFinite DEF Ticks
    <3>4. Users(a) # {}
      BY <3>1, <3>3, FS_EmptySet
    <3>5. PICK d \in Caller : pc[d] \in Counted /\ act[d] = a
      BY <3>4 DEF Users
    <3> QED BY <2>2, <3>5
  <2> QED BY <2>2, <2>3, <2>4
<1>2. IsFiniteSet(busy) /\ IsFiniteSet(held) /\ Cardinality(held) <= Cardinality(busy)
  <2>1. IsFiniteSet(busy)
    BY CallersAssumption, FS_Subset
  <2> DEFINE f == [d \in busy |-> grainOf[act[d]]]
  <2>2. f \in Surjection(busy, held)
    BY DEF Surjection
  <2> HIDE DEF f, busy, held
  <2> QED BY <2>1, <2>2, FS_Surjection
<1>3. Cardinality(Live) <= Cardinality(held) + Cardinality(Timed)
  <2>1. /\ IsFiniteSet(held \union Timed) /\ IsFiniteSet(held \intersect Timed)
        /\ Cardinality(held \union Timed)
             = Cardinality(held) + Cardinality(Timed) - Cardinality(held \intersect Timed)
    BY <1>2, FS_Union, FS_Intersection
  <2>2. Cardinality(Live) <= Cardinality(held \union Timed)
    BY <1>1, <2>1, FS_Subset
  <2>3. /\ Cardinality(held \intersect Timed) \in Nat /\ Cardinality(held) \in Nat
        /\ Cardinality(Timed) \in Nat /\ Cardinality(Live) \in Nat
    BY <1>2, <2>1, FS_CardinalityType
  <2> HIDE DEF held
  <2> QED BY <2>1, <2>2, <2>3
<1>4. Cardinality(busy) + Cardinality(Evictors) + 1 <= Cardinality(Caller)
  <2> DEFINE some == busy \union Evictors
  <2>1. busy \intersect Evictors = {} /\ c \notin some /\ some \union {c} \subseteq Caller
    BY DEF Evictors, Counted
  <2>2. /\ IsFiniteSet(some)
        /\ Cardinality(some) = Cardinality(busy) + Cardinality(Evictors)
    <3>1. /\ IsFiniteSet(some)
          /\ Cardinality(some)
               = Cardinality(busy) + Cardinality(Evictors) - Cardinality(busy \intersect Evictors)
      BY <1>2, CountsAreNat, FS_Union
    <3>2. Cardinality(busy) \in Nat /\ Cardinality(busy \intersect Evictors) = 0
      BY <1>2, <2>1, FS_EmptySet, FS_CardinalityType
    <3> HIDE DEF some, busy
    <3> QED BY <3>1, <3>2, CountsAreNat
  <2>3. Cardinality(some \union {c}) = Cardinality(some) + 1
    <3> HIDE DEF some
    <3> QED BY <2>1, <2>2, FS_AddElement
  <2>4. Cardinality(some \union {c}) <= Cardinality(Caller)
    <3> HIDE DEF some
    <3> QED BY <2>1, CallersAssumption, FS_Subset
  <2> HIDE DEF some, busy
  <2> QED BY <2>2, <2>3, <2>4
<1>5. Cardinality(busy) \in Nat /\ Cardinality(held) \in Nat
  BY <1>2, FS_CardinalityType
<1> HIDE DEF busy, held
<1> QED BY <1>2, <1>3, <1>4, <1>5, CountsAreNat DEF Load

\* Every step keeps the table within its room: an eviction trades an entry for a
\* claim, a claim is settled by an entry, and whoever adds one without a claim found
\* room or found everything in use.
LEMMA StepRoom ==
    ASSUME Types, Refs, Builders, InFlightExact, Listed, IsFiniteSet(Timed), Room,
           [Next]_vars
    PROVE  Room'
<1> USE DEF Room
<1>0. /\ Cardinality(Live) \in Nat /\ Cardinality(Evictors) \in Nat /\ IsFiniteSet(Evictors)
      /\ Cardinality(Caller) \in Nat /\ Cardinality(Timed) \in Nat
      /\ Bounded => MaxActivations \in Nat
  BY CountsAreNat, BoundAssumption DEF Bounded
<1>1. SUFFICES /\ IsFiniteSet(Live')
               /\ Bounded => \/ Load' <= Load
                             \/ Load' \in Nat /\ Fits(Load')
  <2>1. ASSUME Bounded, Load' <= Load, Load' \in Int PROVE Fits(Load')
    BY <1>0, <2>1 DEF Fits, Load
  <2>2. IsFiniteSet(Live') => Load' \in Int
    <3>1. IsFiniteSet(Evictors') /\ Cardinality(Evictors') \in Nat
      <4>1. Evictors' \subseteq Caller
        BY DEF Evictors
      <4> QED BY <4>1, CallersAssumption, FS_Subset, FS_CardinalityType
    <3> QED BY <3>1, FS_CardinalityType DEF Load
  <2> QED BY <2>1, <2>2 DEF Bounded, Fits
<1>2. CASE Eases
  <2>1. /\ IsFiniteSet(Live') /\ Cardinality(Live') <= Cardinality(Live)
        /\ IsFiniteSet(Evictors') /\ Cardinality(Evictors') <= Cardinality(Evictors)
    BY <1>0, <1>2, FS_Subset DEF Eases
  <2>2. Cardinality(Live') \in Nat /\ Cardinality(Evictors') \in Nat
    BY <2>1, FS_CardinalityType
  <2> QED BY <1>0, <2>1, <2>2 DEF Load
<1>3. CASE Trades
  <2>1. PICK c \in Caller \ Evictors, v \in Live :
           Live' = Live \ {v} /\ Evictors' = Evictors \union {c}
    BY <1>3 DEF Trades
  <2>2. /\ IsFiniteSet(Live') /\ Cardinality(Live') = Cardinality(Live) - 1
        /\ Cardinality(Evictors') = Cardinality(Evictors) + 1
    <3>1. IsFiniteSet(Live \ {v}) /\ Cardinality(Live \ {v}) = Cardinality(Live) - 1
      BY <2>1, FS_RemoveElement
    <3>2. Cardinality(Evictors \union {c}) = Cardinality(Evictors) + 1
      BY <1>0, <2>1, FS_AddElement
    <3> QED BY <2>1, <3>1, <3>2
  <2> QED BY <1>0, <2>2 DEF Load
<1>4. CASE Settles
  <2>1. PICK c \in Evictors, g \in Grain :
           Live' = Live \union {g} /\ Evictors' = Evictors \ {c}
    BY <1>4 DEF Settles
  <2>2. /\ IsFiniteSet(Live') /\ Cardinality(Live') <= Cardinality(Live) + 1
        /\ Cardinality(Live') \in Nat
        /\ Cardinality(Evictors') = Cardinality(Evictors) - 1
    <3>1. /\ IsFiniteSet(Live \union {g})
          /\ Cardinality(Live \union {g})
               = IF g \in Live THEN Cardinality(Live) ELSE Cardinality(Live) + 1
      BY FS_AddElement
    <3>2. Cardinality(Evictors \ {c}) = Cardinality(Evictors) - 1
      BY <1>0, <2>1, FS_RemoveElement
    <3> QED BY <1>0, <2>1, <3>1, <3>2
  <2> QED BY <1>0, <2>2 DEF Load
<1>5. CASE Adds
  <2>1. PICK c \in Caller, g \in Grain :
           /\ pc[c] \notin Counted \union {"activating", "evicting"}
           /\ ~Full \/ Evictable = {}
           /\ Live' = Live \union {g} /\ Evictors' = Evictors
    BY <1>5 DEF Adds
  <2>2. /\ IsFiniteSet(Live') /\ Cardinality(Live') <= Cardinality(Live) + 1
        /\ Cardinality(Live') \in Nat
    <3>1. /\ IsFiniteSet(Live \union {g})
          /\ Cardinality(Live \union {g})
               = IF g \in Live THEN Cardinality(Live) ELSE Cardinality(Live) + 1
      BY FS_AddElement
    <3> QED BY <1>0, <2>1, <3>1
  <2>3. Load' \in Nat /\ Load' <= Load + 1
    BY <1>0, <2>1, <2>2 DEF Load
  <2>4. CASE Bounded /\ ~Full
    <3>1. Cardinality(Live) < MaxActivations
      BY <1>0, <2>4 DEF Full
    <3>2. Cardinality(Evictors) + 1 <= Cardinality(Caller)
      <4>1. c \notin Evictors /\ Evictors \union {c} \subseteq Caller
        BY <2>1 DEF Evictors
      <4>2. Cardinality(Evictors \union {c}) = Cardinality(Evictors) + 1
        BY <1>0, <4>1, FS_AddElement
      <4>3. Cardinality(Evictors \union {c}) <= Cardinality(Caller)
        BY <4>1, CallersAssumption, FS_Subset
      <4> QED BY <4>2, <4>3
    <3>3. Load' < MaxActivations + Cardinality(Caller)
      BY <1>0, <2>3, <2>4, <3>1, <3>2 DEF Load
    <3> QED BY <2>2, <2>3, <3>3 DEF Fits
  <2>5. CASE Evictable = {}
    <3>1. Load + 1 <= Cardinality(Caller) + Cardinality(Timed)
      BY <2>1, <2>5, NothingToEvict
    <3>2. Load' <= Cardinality(Caller) + Cardinality(Timed)
      BY <1>0, <2>3, <3>1 DEF Load
    <3> QED BY <2>2, <2>3, <3>2 DEF Fits
  <2> QED BY <2>1, <2>2, <2>4, <2>5
<1> QED BY <1>2, <1>3, <1>4, <1>5, StepLoads

\* Steps that publish nothing and end no activation.
LEMMA FrameListed ==
    ASSUME Types, Listed, UNCHANGED <<grainOf, ready>>,
           \A g \in Grain : activations'[g] # None => activations'[g] = activations[g],
           \A a \in Activation : timer'[a] # "none" => timer[a] # "none"
    PROVE  Listed'
BY DEF Types, Listed

LEMMA DetachListed ==
    ASSUME Types, Listed, NEW t \in Task, NEW g \in Grain, Detach(t, g),
           UNCHANGED <<grainOf, ready>>
    PROVE  Listed'
<1>1. \A h \in Grain : activations'[h] # None => activations'[h] = activations[h]
  BY DEF Detach, Types
<1>2. \A a \in Activation : timer'[a] # "none" => timer[a] # "none"
  BY DEF Detach, AfterCancel, Types
<1> QED BY <1>1, <1>2, FrameListed

LEMMA BuildListed ==
    ASSUME Types, Refs, Builders, Listed, NEW c \in Caller, NEW g \in Grain, Build(c, g),
           UNCHANGED <<ready, timer>>
    PROVE  Listed'
<1>1. CASE UNCHANGED <<activations, grainOf>>
  BY <1>1, FrameListed
<1>2. ASSUME NEW a \in Activation, grainOf[a] = None,
             grainOf' = [grainOf EXCEPT ![a] = g],
             activations' = [activations EXCEPT ![g] = a]
      PROVE  Listed'
  <2>1. ready[a] = "pending" /\ timer[a] = "none"
    BY <1>2 DEF Builders
  <2> QED BY <1>2, <2>1 DEF Types, Listed
<1> QED BY <1>1, <1>2 DEF Build, table

LEMMA LookupListed ==
    ASSUME Types, Refs, Builders, Listed, NEW c \in Caller, NEW g \in Grain, Lookup(c, g)
    PROVE  Listed'
<1>1. CASE UNCHANGED <<table, grainOf, ready, timer>>
  BY <1>1, FrameListed DEF table
<1>2. CASE Build(c, g) /\ UNCHANGED <<ready, timer>>
  BY <1>2, BuildListed
<1>3. CASE Evict(c, g) /\ UNCHANGED <<grainOf, ready>>
  <2>1. PICK v \in Live : Detach(c, v)
    BY <1>3 DEF Evict, Evictable
  <2> QED BY <1>3, <2>1, DetachListed DEF Live, Task
<1> QED BY <1>1, <1>2, <1>3 DEF Lookup

LEMMA StepListed ==
    ASSUME Types, Refs, Builders, Listed, [Next]_vars
    PROVE  Listed'
<1>1. ASSUME UNCHANGED <<activations, grainOf, ready, timer>> PROVE Listed'
  BY <1>1, FrameListed
<1>2. ASSUME NEW c \in Caller, CallerStep(c) PROVE Listed'
  <2>1. CASE \E g \in Grain : Call(c, g)
    BY <2>1, LookupListed DEF Call
  <2>2. CASE ActivateReturns(c)
    <3>1. act[c] \in Activation
      BY <2>2 DEF ActivateReturns, Types, Refs
    <3> QED BY <2>2, <3>1 DEF ActivateReturns, Types, Listed, table
  <2>3. ASSUME NEW how, ActivateFails(c, how) PROVE Listed'
    <3>1. act[c] \in Activation /\ grainOf[act[c]] \in Grain
      BY <2>3 DEF ActivateFails, Types, Refs
    <3>2. \A g \in Grain : activations'[g] # None =>
             activations'[g] = activations[g] /\ activations[g] # act[c]
      BY <2>3, <3>1 DEF ActivateFails, Types, Refs
    <3> QED BY <2>3, <3>1, <3>2 DEF ActivateFails, Types, Listed
  <2>4. CASE Wake(c)
    <3>1. grainOf[act[c]] \in Grain
      BY <2>4 DEF Wake, Types, Refs
    <3> QED BY <1>1, <2>4, <3>1, LookupListed DEF Wake, table
  <2>5. CASE Evicted(c)
    <3>1. want[c] \in Grain
      BY <2>5 DEF Evicted, Types, Refs
    <3> QED BY <2>5, <3>1, BuildListed DEF Evicted
  <2>6. CASE Acquire(c)
    BY <1>1, <2>6 DEF Acquire, table
  <2>7. ASSUME NEW how, Leave(c, how) PROVE Listed'
    BY <1>1, <2>7 DEF Leave
  <2>8. CASE Cancel(c)
    BY <1>1, <2>3, <2>7, <2>8 DEF Cancel, table, records
  <2> QED BY <1>2, <2>1, <2>2, <2>3, <2>4, <2>5, <2>6, <2>7, <2>8 DEF CallerStep, Finish
<1>3. ASSUME NEW a \in Activation, RecordStep(a) PROVE Listed'
  <2>1. CASE TimerStops(a) \/ TickBegins(a) \/ TickEnds(a)
    <3>1. \A b \in Activation : timer'[b] # "none" => timer[b] # "none"
      BY <2>1 DEF TimerStops, TickBegins, TickEnds, Types
    <3> QED BY <2>1, <3>1, FrameListed DEF TimerStops, TickBegins, TickEnds, table
  <2>2. CASE GoesIdle(a) \/ SweepSkips(a)
    BY <1>1, <2>2 DEF GoesIdle, SweepSkips, table, records
  <2>3. CASE SweepTakes(a)
    <3>1. grainOf[a] \in Grain
      BY <2>3 DEF SweepTakes, Types, Refs
    <3> QED BY <2>3, <3>1, DetachListed DEF SweepTakes, Task
  <2>4. CASE Forget(a)
    BY <2>4 DEF Forget, Types, Listed, table
  <2> QED BY <1>3, <2>1, <2>2, <2>3, <2>4 DEF RecordStep
<1>4. ASSUME NEW g \in Grain, CloseTakes(g) PROVE Listed'
  BY <1>4, DetachListed DEF CloseTakes, Task
<1>5. CASE UNCHANGED vars \/ (\E t \in Task : TimersGone(t)) \/ (\E g \in Grain : CloseSkips(g))
  BY <1>1, <1>5 DEF vars, TimersGone, CloseSkips, table, records
<1>6. CASE NodeStep
  BY <1>1, <1>6 DEF NodeStep, SweepBegins, SweepGoesOn, SweepEnds, CloseBegins, DrainBegins,
       DrainEnds, CloseGoesOn, CloseEnds, table, records
<1> QED BY <1>2, <1>3, <1>4, <1>5, <1>6 DEF Next

\* A fleet with a bound outgrows it by fewer than there are callers, or by no more
\* than the callers and schedules that can keep every grain of it busy - for every
\* bound, zero included, and however evictions, failures and cancellations interleave
\* (_make_room, which looks for room once and does not look again).
THEOREM BoundIsNearlyKept ==
    ASSUME IsFiniteSet(Timed)
    PROVE  Spec => []FleetBounded
<1>1. Init => Listed /\ Room
  <2>1. SUFFICES ASSUME Init PROVE Listed /\ Room
    OBVIOUS
  <2>2. Live = {} /\ Evictors = {}
    BY <2>1 DEF Init, Live, Evictors
  <2>3. Load = 0 /\ IsFiniteSet(Live)
    BY <2>2, FS_EmptySet DEF Load
  <2>4. Fits(0)
    BY <2>3, CountsAreNat DEF Fits
  <2>5. Listed
    BY <2>1 DEF Init, Listed
  <2> QED BY <2>3, <2>4, <2>5 DEF Room
<1>2. /\ Types /\ Refs /\ Builders /\ InFlightExact /\ Listed /\ Room /\ [Next]_vars
      => Listed' /\ Room'
  BY StepListed, StepRoom
<1>3. Room => FleetBounded
  BY CountsAreNat, BoundAssumption DEF Room, Load, Fits, FleetBounded, Bounded
<1> QED BY <1>1, <1>2, <1>3, BuildersCorrect, CountIsExact, PTL DEF Spec

-----------------------------------------------------------------------------
(**************************** Deactivated once *****************************)

\* A deactivation under way is one task's, that task knows the record, and what the table
\* holds nobody deactivates.
Once ==
    /\ \A g \in Grain : activations[g] # None => teardown[activations[g]] = "none"
    /\ \A t \in Task : victim[t] # None =>
         grainOf[victim[t]] # None /\ teardown[victim[t]] \in {"timers", "hook"}
    /\ \A t, u \in Task : victim[t] # None /\ victim[t] = victim[u] => t = u
    /\ \A a \in Activation :
         teardown[a] \in {"timers", "hook"} => \E t \in Task : victim[t] = a

\* How a deactivation goes on; Forget is the record's end.
GoesOn(from, to) ==
    <<from, to>> \in {<<"none", "timers">>, <<"none", "hook">>, <<"timers", "hook">>,
                      <<"hook", "done">>, <<"hook", "cut">>}

Forward == \A a \in Activation :
    teardown'[a] = teardown[a] \/ GoesOn(teardown[a], teardown'[a]) \/ Forget(a)

\* The table loses entries, and gets records that are new.
Renewed ==
    /\ \A g \in Grain :
         \/ activations'[g] \in {activations[g], None}
         \/ activations'[g] \in Activation /\ grainOf[activations'[g]] = None
    /\ \A a \in Activation : grainOf'[a] = grainOf[a] \/ (grainOf[a] = None /\ grainOf'[a] # None)

\* What a step may do to the deactivations.
Deactivates ==
    \/ Renewed /\ UNCHANGED <<teardown, victim>>
    \/ \E t \in Task, g \in Grain : Detach(t, g) /\ UNCHANGED grainOf
    \/ \E t \in Task : Renewed /\ (HookReturns(t) \/ HookIsCut(t))
    \/ \E t \in Task : TimersGone(t)
    \/ \E a \in Activation : Forget(a)

LEMMA BuildRenews ==
    ASSUME Types, NEW c \in Caller, NEW g \in Grain, Build(c, g)
    PROVE  Renewed
<1>1. CASE UNCHANGED <<activations, grainOf>>
  BY <1>1 DEF Renewed
<1>2. ASSUME NEW a \in Activation, grainOf[a] = None, grainOf' = [grainOf EXCEPT ![a] = g],
             activations' = [activations EXCEPT ![g] = a]
      PROVE  Renewed
  BY <1>2, GrainsAssumption DEF Types, Renewed
<1> QED BY <1>1, <1>2 DEF Build, table

LEMMA KeepsTheTable == UNCHANGED <<activations, grainOf>> => Renewed
BY DEF Renewed

LEMMA LookupDeactivates ==
    ASSUME Types, NEW c \in Caller, NEW g \in Grain, Lookup(c, g)
    PROVE  Deactivates
<1>1. CASE UNCHANGED <<table, grainOf, teardown, victim>>
  BY <1>1, KeepsTheTable DEF Deactivates, table
<1>2. CASE Build(c, g) /\ UNCHANGED <<teardown, victim>>
  <2>1. Renewed
    BY <1>2, BuildRenews
  <2> QED BY <1>2, <2>1 DEF Deactivates
<1>3. CASE Evict(c, g) /\ UNCHANGED grainOf
  BY <1>3 DEF Evict, Evictable, Live, Deactivates, Task
<1> QED BY <1>1, <1>2, <1>3 DEF Lookup

LEMMA StepDeactivates ==
    ASSUME Types, Refs, [Next]_vars
    PROVE  Deactivates
<1>1. CASE UNCHANGED <<activations, grainOf, teardown, victim>>
  BY <1>1, KeepsTheTable DEF Deactivates
<1>2. ASSUME NEW c \in Caller, CallerStep(c) PROVE Deactivates
  <2>1. ASSUME NEW how, ActivateFails(c, how) PROVE Deactivates
    <3>1. Renewed
      BY <2>1 DEF ActivateFails, Renewed, Types
    <3> QED BY <2>1, <3>1 DEF ActivateFails, Deactivates
  <2>2. CASE Wake(c)
    <3>1. grainOf[act[c]] \in Grain
      BY <2>2 DEF Wake, Types, Refs
    <3> QED BY <1>1, <2>2, <3>1, LookupDeactivates DEF Wake, table
  <2>3. CASE Evicted(c)
    <3>1. want[c] \in Grain /\ c \in Task
      BY <2>3 DEF Evicted, Types, Refs, Task
    <3>2. Renewed
      BY <2>3, <3>1, BuildRenews DEF Evicted
    <3> QED BY <2>3, <3>1, <3>2 DEF Evicted, Deactivates
  <2>4. CASE Cancel(c)
    <3>1. CASE HookIsCut(c) /\ UNCHANGED <<activations, grainOf>>
      BY <3>1, KeepsTheTable DEF Deactivates, Task
    <3> QED BY <1>1, <2>1, <2>4, <3>1 DEF Cancel, Leave, table, records
  <2> QED BY <1>1, <1>2, <2>1, <2>2, <2>3, <2>4, LookupDeactivates DEF CallerStep, Call,
             ActivateReturns, Acquire, Finish, Leave, table
<1>3. ASSUME NEW a \in Activation, RecordStep(a) PROVE Deactivates
  <2>1. CASE SweepTakes(a)
    <3>1. grainOf[a] \in Grain
      BY <2>1 DEF SweepTakes, Types, Refs
    <3> QED BY <2>1, <3>1 DEF SweepTakes, Deactivates, Task
  <2>2. CASE Forget(a)
    BY <2>2 DEF Deactivates
  <2> QED BY <1>1, <1>3, <2>1, <2>2 DEF RecordStep, TimerStops, TickBegins, TickEnds, GoesIdle,
             SweepSkips, table, records
<1>4. ASSUME NEW g \in Grain, CloseTakes(g) PROVE Deactivates
  BY <1>4 DEF CloseTakes, Deactivates, Task
<1>5. CASE (\E t \in Task : TimersGone(t)) \/ UNCHANGED vars \/ (\E g \in Grain : CloseSkips(g))
  BY <1>1, <1>5 DEF Deactivates, CloseSkips, vars, table, records
<1>6. CASE NodeStep
  <2>1. CASE SweepGoesOn \/ CloseGoesOn
    <3>1. \E t \in Task : HookReturns(t)
      BY <2>1 DEF SweepGoesOn, CloseGoesOn, Task
    <3>2. Renewed
      BY <2>1, KeepsTheTable DEF SweepGoesOn, CloseGoesOn, table
    <3> QED BY <3>1, <3>2 DEF Deactivates
  <2>2. CASE CloseBegins
    <3>1. Renewed
      BY <2>2, KeepsTheTable DEF CloseBegins, table
    <3>2. CASE HookIsCut(Sweeper)
      BY <3>1, <3>2 DEF Deactivates, Task
    <3> QED BY <1>1, <2>2, <3>2 DEF CloseBegins, table
  <2> QED BY <1>1, <1>6, <2>1, <2>2 DEF NodeStep, SweepBegins, SweepEnds, DrainBegins, DrainEnds,
             CloseEnds, table, records
<1> QED BY <1>2, <1>3, <1>4, <1>5, <1>6 DEF Next

LEMMA DeactivatesOnce ==
    ASSUME Types, Refs, Builders, Once, Deactivates, Types'
    PROVE  Once' /\ Forward
<1> USE RecordsAssumption DEF Types
<1>1. CASE Renewed /\ UNCHANGED <<teardown, victim>>
  BY <1>1 DEF Renewed, Once, Builders, Forward
<1>2. ASSUME NEW t \in Task, NEW g \in Grain, Detach(t, g), UNCHANGED grainOf
      PROVE  Once' /\ Forward
  <2> DEFINE a == activations[g]
  <2>1. /\ a \in Activation /\ grainOf[a] = g /\ teardown[a] = "none" /\ victim[t] = None
        /\ \A u \in Task : victim[u] # a
    BY <1>2 DEF Detach, Refs, Once
  <2>2. /\ activations' = [activations EXCEPT ![g] = None]
        /\ victim' = [victim EXCEPT ![t] = a]
        /\ teardown'[a] \in {"timers", "hook"}
        /\ \A b \in Activation : b # a => teardown'[b] = teardown[b]
    BY <1>2, <2>1 DEF Detach
  <2>3. \A h \in Grain : activations[h] # None /\ h # g => activations[h] # a
    BY <2>1 DEF Refs
  <2> HIDE DEF a
  <2>4. Once'
    <3>1. \A u \in Task : victim'[u] = IF u = t THEN a ELSE victim[u]
      BY <2>2
    <3>2. \A h \in Grain : activations'[h] # None => teardown'[activations'[h]] = "none"
      BY <1>2, <2>2, <2>3 DEF Once
    <3>3. \A u \in Task : victim'[u] # None =>
             grainOf'[victim'[u]] # None /\ teardown'[victim'[u]] \in {"timers", "hook"}
      BY <1>2, <2>1, <2>2, <3>1, GrainsAssumption DEF Once
    <3>4. \A u, w \in Task : victim'[u] # None /\ victim'[u] = victim'[w] => u = w
      BY <2>1, <3>1 DEF Once
    <3>5. \A b \in Activation :
             teardown'[b] \in {"timers", "hook"} => \E u \in Task : victim'[u] = b
      BY <2>1, <2>2, <3>1 DEF Once
    <3> QED BY <3>2, <3>3, <3>4, <3>5 DEF Once
  <2>5. Forward
    BY <2>1, <2>2 DEF Forward, GoesOn
  <2> QED BY <2>4, <2>5
<1>3. ASSUME NEW t \in Task, Renewed, HookReturns(t) \/ HookIsCut(t) PROVE Once' /\ Forward
  <2> DEFINE a == victim[t]
  <2>1. /\ a \in Activation /\ teardown[a] = "hook" /\ grainOf[a] # None
        /\ \A u \in Task : u # t => victim[u] # a
        /\ \A h \in Grain : activations[h] # a
    BY <1>3 DEF HookReturns, HookIsCut, Once
  <2>2. /\ victim' = [victim EXCEPT ![t] = None]
        /\ teardown'[a] \in {"done", "cut"}
        /\ \A b \in Activation : b # a => teardown'[b] = teardown[b]
    BY <1>3, <2>1 DEF HookReturns, HookIsCut
  <2> HIDE DEF a
  <2>3. \A u \in Task : victim'[u] = IF u = t THEN None ELSE victim[u]
    BY <2>2
  <2>4. \A h \in Grain : activations'[h] # None => teardown'[activations'[h]] = "none"
    BY <1>3, <2>1, <2>2 DEF Renewed, Once, Builders
  <2>5. \A b \in Activation :
           teardown'[b] \in {"timers", "hook"} => \E u \in Task : victim'[u] = b
    <3> SUFFICES ASSUME NEW b \in Activation, teardown'[b] \in {"timers", "hook"}
                 PROVE  \E u \in Task : victim'[u] = b
      OBVIOUS
    <3>1. b # a /\ teardown[b] \in {"timers", "hook"}
      BY <2>2
    <3>2. PICK u \in Task : victim[u] = b
      BY <3>1 DEF Once
    <3>3. u # t
      BY <3>1, <3>2 DEF a
    <3> QED BY <2>3, <3>2, <3>3
  <2>6. \A u \in Task : victim'[u] # None =>
           grainOf'[victim'[u]] # None /\ teardown'[victim'[u]] \in {"timers", "hook"}
    BY <1>3, <2>1, <2>2, <2>3 DEF Renewed, Once
  <2>7. \A u, w \in Task : victim'[u] # None /\ victim'[u] = victim'[w] => u = w
    BY <2>3 DEF Once
  <2>8. Forward
    BY <1>3, <2>1, <2>2 DEF HookReturns, HookIsCut, Forward, GoesOn
  <2> QED BY <2>4, <2>5, <2>6, <2>7, <2>8 DEF Once
<1>4. ASSUME NEW t \in Task, TimersGone(t) PROVE Once' /\ Forward
  <2> DEFINE a == victim[t]
  <2>1. a \in Activation /\ teardown[a] = "timers" /\ teardown' = [teardown EXCEPT ![a] = "hook"]
        /\ UNCHANGED <<activations, grainOf, victim>>
    BY <1>4 DEF TimersGone, table
  <2> QED BY <2>1 DEF Once, Forward, GoesOn
<1>5. ASSUME NEW a \in Activation, Forget(a) PROVE Once' /\ Forward
  <2>1. /\ \A g \in Grain : activations[g] # a
        /\ \A t \in Task : victim[t] # a
        /\ UNCHANGED <<activations, victim>>
        /\ grainOf' = [grainOf EXCEPT ![a] = None]
        /\ teardown' = [teardown EXCEPT ![a] = "none"]
    BY <1>5 DEF Forget, Unreferenced, table
  <2>2. Forward
    BY <1>5, <2>1 DEF Forward
  <2> QED BY <2>1, <2>2 DEF Once
<1> QED BY <1>1, <1>2, <1>3, <1>4, <1>5 DEF Deactivates

LEMMA OnceCorrect == Spec => [](Types /\ Refs /\ Builders /\ Once)
<1>1. Init => Once
  BY DEF Init, Once
<1>2. Types /\ Refs /\ Builders /\ Once /\ Types' /\ [Next]_vars => Once'
  BY StepDeactivates, DeactivatesOnce
<1> QED BY <1>1, <1>2, BuildersCorrect, PTL DEF Spec

\* A grain is deactivated by one task at a time and none that is being deactivated can be
\* looked up, whoever comes first of the sweep, an eviction and the shutdown: _deactivate
\* takes the record out of the table before it awaits anything.
THEOREM OneDeactivates ==
    Spec => [](/\ \A t, u \in Task : victim[t] # None /\ victim[t] = victim[u] => t = u
               /\ \A g \in Grain : activations[g] # None => teardown[activations[g]] = "none")
<1>1. Once => /\ \A t, u \in Task : victim[t] # None /\ victim[t] = victim[u] => t = u
              /\ \A g \in Grain : activations[g] # None => teardown[activations[g]] = "none"
  BY DEF Once
<1> QED BY <1>1, OnceCorrect, PTL

\* deactivate() is entered once for a record, after its timers, and a deactivation never
\* starts over, whatever is cancelled in the middle of it (_deactivate).
THEOREM DeactivationGoesForward ==
    Spec => [][Forward]_vars
<1>1. (Types /\ Refs /\ Builders /\ Once) /\ Types' /\ [Next]_vars => [Forward]_vars
  BY StepDeactivates, DeactivatesOnce
<1> QED BY <1>1, OnceCorrect, TypesCorrect, PTL DEF Spec

-----------------------------------------------------------------------------
(************************** One life per identity **************************)

\* While the runtime is open and without a bound, a schedule runs only on a record that
\* nobody deactivates, so no tick is ever interrupted: the sweep does not take a record with
\* a tick in flight.
Calm ==
    \A a \in Activation :
        /\ timer[a] # "unwinding"
        /\ timer[a] \in {"asleep", "ticking"} => teardown[a] = "none"

OpenlyCalm == closer = "open" => Calm

\* Steps that start no schedule and take no record away.
LEMMA FrameCalm ==
    ASSUME Types, Calm,
           \A a \in Activation : timer'[a] = timer[a] \/ timer'[a] \in {"none", "done"},
           \A a \in Activation : teardown[a] = "none" => teardown'[a] = "none"
    PROVE  Calm'
BY DEF Types, Calm

LEMMA StepCalm ==
    ASSUME MaxActivations = None, Types, Refs, Builders, InFlightExact, OpenInv, OpenlyCalm,
           [Next]_vars, closer' = "open"
    PROVE  Calm'
<1>0. closer = "open" /\ Calm /\ TableSound
  BY OpenStays DEF OpenlyCalm, OpenInv
<1>1. CASE UNCHANGED <<timer, teardown>>
  BY <1>0, <1>1, FrameCalm
<1>2. ASSUME NEW c \in Caller, CallerStep(c) PROVE Calm'
  <2>1. ASSUME NEW g \in Grain, Lookup(c, g) PROVE Calm'
    BY <1>1, <2>1 DEF Lookup, Full, Bounded
  <2>2. CASE ActivateReturns(c)
    <3>1. act[c] \in Activation /\ grainOf[act[c]] \in Grain /\ activations[grainOf[act[c]]] = act[c]
      BY <1>0, <2>2 DEF ActivateReturns, Types, Refs, TableSound
    <3>2. teardown[act[c]] = "none"
      BY <1>0, <3>1, RecordsAssumption DEF TableSound
    <3> QED BY <1>0, <2>2, <3>1, <3>2 DEF ActivateReturns, Types, Calm
  <2>3. CASE Wake(c)
    <3>1. grainOf[act[c]] \in Grain
      BY <2>3 DEF Wake, Types, Refs
    <3> QED BY <1>1, <2>1, <2>3, <3>1 DEF Wake
  <2>4. CASE Cancel(c)
    BY <1>1, <2>4 DEF Cancel, ActivateFails, Leave, OpenInv, records
  <2> QED BY <1>1, <1>2, <2>1, <2>2, <2>3, <2>4 DEF CallerStep, Call, ActivateFails, Evicted,
             Acquire, Finish, Leave, OpenInv
<1>3. ASSUME NEW a \in Activation, RecordStep(a) PROVE Calm'
  <2>1. CASE TimerStops(a) \/ Forget(a)
    BY <1>0, <2>1, FrameCalm DEF TimerStops, Forget, Unreferenced, Types
  <2>2. CASE TickBegins(a) \/ TickEnds(a)
    BY <1>0, <2>2 DEF TickBegins, TickEnds, Types, Calm
  <2>3. CASE SweepTakes(a)
    <3>1. timer[a] \notin {"ticking", "unwinding"}
      <4>1. inFlight[a] = Cardinality(Users(a)) + (IF Ticks(a) THEN 1 ELSE 0) /\ inFlight[a] = 0
        BY <2>3, ExactMeans DEF SweepTakes, Collectable
      <4> QED BY <4>1, UsersFinite DEF Ticks
    <3>2. /\ timer' = [timer EXCEPT ![a] = AfterCancel(@)]
          /\ teardown' = [teardown EXCEPT ![a] =
                            IF timer[a] \in {"none", "done"} THEN "hook" ELSE "timers"]
      BY <2>3 DEF SweepTakes, Detach
    <3> QED BY <1>0, <3>1, <3>2 DEF AfterCancel, Types, Calm
  <2>4. CASE GoesIdle(a) \/ SweepSkips(a)
    BY <1>1, <2>4 DEF GoesIdle, SweepSkips, records
  <2> QED BY <1>3, <2>1, <2>2, <2>3, <2>4 DEF RecordStep
<1>4. ASSUME NEW t \in Task, TimersGone(t) PROVE Calm'
  BY <1>0, <1>4, FrameCalm DEF TimersGone, Types
<1>5. CASE SweepGoesOn \/ CloseGoesOn
  BY <1>0, <1>5, FrameCalm DEF SweepGoesOn, CloseGoesOn, HookReturns, Types, Task
<1>6. CASE SweepBegins \/ SweepEnds
  BY <1>1, <1>6 DEF SweepBegins, SweepEnds, records
<1> QED BY <1>0, <1>1, <1>2, <1>3, <1>4, <1>5, <1>6 DEF Next, NodeStep, CloseTakes, CloseSkips,
           CloseBegins, DrainBegins, DrainEnds, CloseEnds, vars, records

\* What an identity has in the table is what its grains see of its life.
PhaseOf(g) ==
    IF activations[g] = None THEN "cold"
    ELSE IF ready[activations[g]] = "ready" THEN "warm"
    ELSE "warming"
TicksOn(g) == activations[g] # None /\ timer[activations[g]] = "ticking"

Seen ==
    /\ Phase = [g \in Grain |-> PhaseOf(g)]
    /\ Ticking = {g \in Grain : TicksOn(g)}

LEMMA TableIsSeen ==
    ASSUME Types, Refs, Builders, TableSound, Calm
    PROVE  Seen
<1>1. ASSUME NEW a \in Activation, Alive(a)
      PROVE  activations[grainOf[a]] = a
  <2>1. CASE ready[a] = "pending"
    <3>1. PICK b \in Caller : pc[b] = "activating" /\ act[b] = a
      BY <1>1, <2>1 DEF Builders, Alive
    <3> QED BY <3>1 DEF TableSound
  <2>2. CASE ready[a] = "ready"
    BY <1>1, <2>2 DEF TableSound, Alive
  <2> QED BY <1>1, <2>1, <2>2 DEF Alive
<1>2. ASSUME NEW g \in Grain, activations[g] # None
      PROVE  /\ activations[g] \in Activation /\ grainOf[activations[g]] = g
             /\ Alive(activations[g])
  BY <1>2, GrainsAssumption DEF Types, Refs, TableSound, Alive
<1>3. ASSUME NEW g \in Grain
      PROVE  /\ (\E a \in Activation : Alive(a) /\ grainOf[a] = g /\ ready[a] = "ready")
                   <=> activations[g] # None /\ ready[activations[g]] = "ready"
             /\ (\E a \in Activation : Alive(a) /\ grainOf[a] = g) <=> activations[g] # None
  BY <1>1, <1>2, RecordsAssumption
<1>4. ASSUME NEW g \in Grain
      PROVE  (\E a \in Activation : grainOf[a] = g /\ timer[a] \in {"ticking", "unwinding"})
                   <=> TicksOn(g)
  <2>1. ASSUME NEW a \in Activation, grainOf[a] = g, timer[a] \in {"ticking", "unwinding"}
        PROVE  activations[g] = a /\ timer[a] = "ticking"
    BY <2>1, GrainsAssumption DEF Calm, Builders, TableSound
  <2> QED BY <1>2, <2>1, RecordsAssumption DEF TicksOn
<1>5. \A g \in Grain : Phase[g] = PhaseOf(g)
  BY <1>3 DEF Phase, PhaseOf
<1>6. Ticking = {g \in Grain : TicksOn(g)}
  BY <1>4 DEF Ticking
<1> QED BY <1>5, <1>6 DEF Seen, Phase

\* The calls seen inside are those of the records: they change with who is counted only.
LEMMA FrameCalls ==
    ASSUME Types, Refs,
           \A c \in Caller :
               \/ pc[c] \notin Counted /\ pc'[c] \notin Counted
               \/ UNCHANGED <<pc[c], act[c], grainOf[act[c]]>>
    PROVE  UNCHANGED <<Inside, Serving>>
<1>1. \A c \in Caller, g \in Grain :
         (pc'[c] \in Counted /\ grainOf'[act'[c]] = g) <=> (pc[c] \in Counted /\ grainOf[act[c]] = g)
  OBVIOUS
<1>2. \A c \in Caller, g \in Grain :
         (pc'[c] = "serving" /\ grainOf'[act'[c]] = g) <=> (pc[c] = "serving" /\ grainOf[act[c]] = g)
  BY DEF Counted
<1> QED BY <1>1, <1>2 DEF Inside, Serving

LEMMA CallsAreSets ==
    /\ Inside \in [Grain -> SUBSET Caller] /\ Inside' \in [Grain -> SUBSET Caller]
    /\ Serving \in [Grain -> SUBSET Caller] /\ Serving' \in [Grain -> SUBSET Caller]
BY DEF Inside, Serving

LEMMA FramePhases ==
    ASSUME Types, Seen, Seen', UNCHANGED activations,
           \A g \in Grain : activations[g] # None =>
               /\ ready'[activations[g]] = ready[activations[g]]
               /\ timer'[activations[g]] = "ticking" <=> timer[activations[g]] = "ticking"
    PROVE  UNCHANGED <<Phase, Ticking>>
BY DEF Seen, PhaseOf, TicksOn

\* A call that finds its grain activated is accepted.
LEMMA DispatchAccepts ==
    ASSUME "missing" \notin Env, Base, Locked, Seen, Seen', NEW c \in Caller,
           NEW a \in Activation, NEW g \in Grain, grainOf[a] = g, activations[g] = a,
           pc[c] \notin Counted, Dispatch(c, a), UNCHANGED grainOf
    PROVE  Actors!Enter(c, g)
<1>1. PICK s \in Counted :
         /\ pc' = [pc EXCEPT ![c] = s] /\ act' = [act EXCEPT ![c] = a]
         /\ s = "serving" => grainOf[a] \in Reentrant \/ LockIsOpen(a)
  BY DEF Dispatch, Counted
<1>2. \A h \in Grain : c \notin Inside[h]
  BY DEF Inside
<1>3. \A d \in Caller : d # c => pc'[d] = pc[d] /\ act'[d] = act[d]
  BY <1>1 DEF Base, Types
<1>4. pc'[c] = s /\ act'[c] = a
  BY <1>1 DEF Base, Types
<1>5. Inside' = [Inside EXCEPT ![g] = @ \union {c}]
  <2>1. \A h \in Grain : Inside'[h] = IF h = g THEN Inside[h] \union {c} ELSE Inside[h]
    BY <1>2, <1>3, <1>4 DEF Inside
  <2> QED BY <2>1, CallsAreSets
<1>6. CASE s = "serving"
  <2>1. \A h \in Grain : Serving'[h] = IF h = g THEN Serving[h] \union {c} ELSE Serving[h]
    BY <1>3, <1>4, <1>6 DEF Serving, Counted
  <2>2. Serving' = [Serving EXCEPT ![g] = @ \union {c}]
    BY <2>1, CallsAreSets
  <2>3. g \in Reentrant \/ Serving[g] = {}
    <3>1. SUFFICES ASSUME g \notin Reentrant, NEW d \in Caller, pc[d] = "serving",
                          grainOf[act[d]] = g
                   PROVE  FALSE
      BY DEF Serving
    <3>2. act[d] = a
      BY <3>1 DEF Base, ServingSound, Counted
    <3>3. lock[a] = d
      BY <3>1, <3>2 DEF Locked
    <3> QED BY <1>1, <1>6, <3>1, <3>3, CallersAssumption DEF LockIsOpen
  <2> QED BY <1>2, <1>5, <2>2, <2>3 DEF Actors!Enter, Actors!TurnIsFree
<1>7. CASE s # "serving"
  <2>1. \A h \in Grain : Serving'[h] = Serving[h]
    BY <1>3, <1>4, <1>7 DEF Serving, Counted
  <2>2. Serving' = Serving
    BY <2>1 DEF Serving
  <2> QED BY <1>2, <1>5, <2>2 DEF Actors!Enter
<1> QED BY <1>6, <1>7

\* What an open runtime makes of its actors in one step.
Acts == Actors!Next \/ UNCHANGED <<Phase, Inside, Serving, Ticking>>

\* All that holds of an open runtime without a bound.
OpenBase == Base /\ Locked /\ Seen /\ \A c \in Caller : pc[c] # "evicting"

LEMMA AcceptActs ==
    ASSUME "missing" \notin Env, OpenBase, Seen', NEW c \in Caller, NEW a \in Activation,
           NEW g \in Grain, activations[g] = a, ready[a] = "ready", pc[c] \notin Counted,
           Dispatch(c, a), UNCHANGED <<table, grainOf, ready, timer>>
    PROVE  Acts
<1>1. grainOf[a] = g
  BY RecordsAssumption DEF OpenBase, Base, Types, Refs
<1>2. Actors!Enter(c, g)
  BY <1>1, DispatchAccepts DEF OpenBase
<1>3. UNCHANGED <<Phase, Ticking>>
  BY FramePhases DEF OpenBase, Base, table
<1>4. Phase[g] = "warm"
  BY RecordsAssumption DEF OpenBase, Seen, PhaseOf
<1>5. Actors!Accept(c, g)
  BY <1>2, <1>3, <1>4 DEF Actors!Accept
<1> QED BY <1>5 DEF Acts, Actors!Next

LEMMA GiveActs ==
    ASSUME OpenBase, Seen', NEW c \in Caller, NEW how \in {"failed", "cancelled"}, Give(c, how),
           pc[c] \notin Counted, UNCHANGED <<activations, grainOf, ready, timer>>
    PROVE  Acts
<1>1. UNCHANGED <<Inside, Serving>>
  BY FrameCalls DEF Give, OpenBase, Base, Types, Counted
<1> QED BY <1>1, FramePhases DEF Acts, OpenBase, Base

LEMMA BuildActs ==
    ASSUME OpenBase, Seen', NEW c \in Caller, NEW g \in Grain, activations[g] = None, Build(c, g),
           pc[c] \notin Counted, UNCHANGED <<ready, timer>>
    PROVE  Acts
<1>1. CASE Give(c, "failed") /\ UNCHANGED <<activations, grainOf>>
  BY <1>1, GiveActs
<1>2. ASSUME NEW a \in Activation,
             grainOf[a] = None,
             grainOf' = [grainOf EXCEPT ![a] = g],
             activations' = [activations EXCEPT ![g] = a],
             pc' = [pc EXCEPT ![c] = "activating"],
             act' = [act EXCEPT ![c] = a]
      PROVE  Acts
  <2>1. UNCHANGED <<Inside, Serving>>
    BY <1>2, FrameCalls DEF OpenBase, Base, Types, Refs, Counted
  <2>2. ready[a] = "pending" /\ timer[a] = "none" /\ a # None
    BY <1>2, RecordsAssumption DEF OpenBase, Base, Builders
  <2>3. /\ Phase[g] = "cold" /\ Phase' = [Phase EXCEPT ![g] = "warming"]
        /\ Ticking' = Ticking
    <3>1. \A h \in Grain : activations'[h] = IF h = g THEN a ELSE activations[h]
      BY <1>2 DEF OpenBase, Base, Types
    <3>2. \A h \in Grain : PhaseOf(h)' = IF h = g THEN "warming" ELSE PhaseOf(h)
      BY <2>2, <3>1 DEF PhaseOf
    <3>3. \A h \in Grain : TicksOn(h)' <=> TicksOn(h)
      BY <2>2, <3>1 DEF TicksOn
    <3>4. PhaseOf(g) = "cold"
      BY DEF PhaseOf
    <3> QED BY <3>2, <3>3, <3>4 DEF OpenBase, Seen
  <2>4. Actors!Warm(g)
    BY <2>1, <2>3 DEF Actors!Warm
  <2> QED BY <2>4 DEF Acts, Actors!Next
<1> QED BY <1>1, <1>2 DEF Build, table

LEMMA LookupActs ==
    ASSUME MaxActivations = None, "missing" \notin Env, OpenBase, Seen',
           NEW c \in Caller, NEW g \in Grain, Lookup(c, g), pc[c] \notin Counted
    PROVE  Acts
<1>1. CASE /\ pc' = [pc EXCEPT ![c] = "waiting"]
           /\ act' = [act EXCEPT ![c] = activations[g]]
           /\ UNCHANGED <<table, grainOf, ready, inFlight, lock, timer, teardown, want, victim>>
  <2>1. UNCHANGED <<Inside, Serving>>
    BY <1>1, FrameCalls DEF OpenBase, Base, Types, Counted
  <2> QED BY <1>1, <2>1, FramePhases DEF Acts, OpenBase, Base, table
<1>2. CASE /\ activations[g] # None
           /\ ready[activations[g]] # "pending"
           /\ Dispatch(c, activations[g])
           /\ UNCHANGED <<table, grainOf, ready, timer, teardown, want, victim>>
  <2>1. activations[g] \in Activation /\ ready[activations[g]] = "ready"
    BY <1>2 DEF OpenBase, Base, Types, TableSound
  <2> QED BY <1>2, <2>1, AcceptActs
<1>3. CASE Give(c, "failed") /\ UNCHANGED <<table, grainOf, ready, timer>>
  BY <1>3, GiveActs DEF table
<1>4. CASE activations[g] = None /\ Build(c, g) /\ UNCHANGED <<ready, timer>>
  BY <1>4, BuildActs
<1> QED BY <1>1, <1>2, <1>3, <1>4 DEF Lookup, Full, Bounded

LEMMA OpenActs ==
    ASSUME "missing" \notin Env, OpenBase, Seen', NEW c \in Caller, ActivateReturns(c)
    PROVE  Acts
<1> DEFINE a == act[c]
           g == grainOf[a]
<1>1. /\ a \in Activation /\ g \in Grain /\ activations[g] = a /\ a # None
      /\ ready[a] = "pending" /\ timer[a] = "none" /\ pc[c] \notin Counted
  BY RecordsAssumption DEF ActivateReturns, OpenBase, Base, Types, Refs, Builders, TableSound, Counted
<1>2. /\ Dispatch(c, a) /\ UNCHANGED <<activations, grainOf>>
      /\ ready' = [ready EXCEPT ![a] = "ready"]
      /\ timer' = [timer EXCEPT ![a] = IF grainOf[a] \in Timed THEN "asleep" ELSE @]
  BY DEF ActivateReturns, table
<1> HIDE DEF a, g
<1>3. grainOf[a] = g
  BY DEF g
<1>4. Actors!Enter(c, g)
  BY <1>1, <1>2, <1>3, DispatchAccepts DEF OpenBase
<1>5. /\ Phase[g] = "warming" /\ Phase' = [Phase EXCEPT ![g] = "warm"]
      /\ Ticking' = Ticking
  <2>1. \A h \in Grain : activations[h] # None => (activations[h] = a <=> h = g)
    BY <1>1, <1>3 DEF OpenBase, Base, Refs
  <2>2. \A h \in Grain : activations[h] \in Activation \union {None}
    BY DEF OpenBase, Base, Types
  <2>3. \A b \in Activation : /\ ready'[b] = IF b = a THEN "ready" ELSE ready[b]
                              /\ b # a => timer'[b] = timer[b]
    BY <1>2 DEF OpenBase, Base, Types
  <2>4. timer'[a] # "ticking"
    BY <1>1, <1>2 DEF OpenBase, Base, Types
  <2>5. \A h \in Grain : PhaseOf(h)' = IF h = g THEN "warm" ELSE PhaseOf(h)
    BY <1>1, <1>2, <2>1, <2>2, <2>3 DEF PhaseOf
  <2>6. \A h \in Grain : TicksOn(h)' <=> TicksOn(h)
    BY <1>1, <1>2, <2>1, <2>2, <2>3, <2>4 DEF TicksOn
  <2>7. PhaseOf(g) = "warming"
    BY <1>1 DEF PhaseOf
  <2> QED BY <1>1, <2>5, <2>6, <2>7 DEF OpenBase, Seen
<1>6. Actors!Open(c, g)
  BY <1>4, <1>5 DEF Actors!Open
<1> QED BY <1>1, <1>6 DEF Acts, Actors!Next

LEMMA GiveUpActs ==
    ASSUME OpenBase, Seen', NEW c \in Caller, NEW how \in {"failed", "cancelled"},
           ActivateFails(c, how)
    PROVE  Acts
<1> DEFINE a == act[c]
           g == grainOf[a]
<1>1. /\ a \in Activation /\ g \in Grain /\ activations[g] = a /\ a # None
      /\ ready[a] = "pending" /\ timer[a] = "none" /\ pc[c] \notin Counted
  BY RecordsAssumption DEF ActivateFails, OpenBase, Base, Types, Refs, Builders, TableSound, Counted
<1>2. /\ Give(c, how) /\ UNCHANGED <<grainOf, timer>>
      /\ activations' = [activations EXCEPT ![g] = None]
      /\ ready' = [ready EXCEPT ![a] = how]
  BY DEF ActivateFails
<1> HIDE DEF a, g
<1>3. UNCHANGED <<Inside, Serving>>
  BY <1>1, <1>2, FrameCalls DEF Give, OpenBase, Base, Types, Counted
<1>4. grainOf[a] = g
  BY DEF g
<1>5. /\ Phase[g] = "warming" /\ Phase' = [Phase EXCEPT ![g] = "cold"]
      /\ Ticking' = Ticking
  <2>1. \A h \in Grain : activations'[h] = IF h = g THEN None ELSE activations[h]
    BY <1>2 DEF OpenBase, Base, Types
  <2>2. \A h \in Grain : activations[h] # None /\ h # g =>
           activations[h] # a /\ ready'[activations[h]] = ready[activations[h]]
    BY <1>2, <1>4 DEF OpenBase, Base, Types, Refs
  <2>3. \A h \in Grain : PhaseOf(h)' = IF h = g THEN "cold" ELSE PhaseOf(h)
    BY <2>1, <2>2 DEF PhaseOf
  <2>4. \A h \in Grain : TicksOn(h)' <=> TicksOn(h)
    BY <1>1, <1>2, <2>1 DEF TicksOn
  <2>5. PhaseOf(g) = "warming"
    BY <1>1 DEF PhaseOf
  <2> QED BY <1>1, <2>3, <2>4, <2>5 DEF OpenBase, Seen
<1>6. Actors!GiveUp(g)
  BY <1>3, <1>5 DEF Actors!GiveUp
<1> QED BY <1>1, <1>6 DEF Acts, Actors!Next

LEMMA TurnActs ==
    ASSUME OpenBase, Seen', NEW c \in Caller, Acquire(c)
    PROVE  Acts
<1> DEFINE a == act[c]
           g == grainOf[a]
<1>1. /\ a \in Activation /\ g \in Grain /\ activations[g] = a /\ a # None
      /\ pc[c] = "locking" /\ lock[a] = None
  BY RecordsAssumption DEF Acquire, OpenBase, Base, Types, Refs, ServingSound, Counted
<1>2. pc' = [pc EXCEPT ![c] = "serving"] /\ UNCHANGED <<activations, grainOf, ready, timer, act>>
  BY DEF Acquire, table
<1>3. UNCHANGED <<Phase, Ticking>>
  BY <1>2, FramePhases DEF OpenBase, Base
<1>4. UNCHANGED Inside
  <2>1. \A d \in Caller : pc'[d] \in Counted <=> pc[d] \in Counted
    BY <1>1, <1>2 DEF OpenBase, Base, Types, Counted
  <2> QED BY <1>2, <2>1 DEF Inside
<1>5. \A h \in Grain : Serving'[h] = IF h = g THEN Serving[h] \union {c} ELSE Serving[h]
  <2>1. \A d \in Caller : pc'[d] = IF d = c THEN "serving" ELSE pc[d]
    BY <1>2 DEF OpenBase, Base, Types
  <2> QED BY <1>1, <1>2, <2>1 DEF Serving
<1>6. Serving' = [Serving EXCEPT ![g] = @ \union {c}]
  <2> HIDE DEF g
  <2> QED BY <1>5, CallsAreSets
<1>7. c \in Inside[g] \ Serving[g]
  BY <1>1 DEF Inside, Serving, Counted
<1>8. g \in Reentrant \/ Serving[g] = {}
  <2>1. SUFFICES ASSUME g \notin Reentrant, NEW d \in Caller, pc[d] = "serving", grainOf[act[d]] = g
                 PROVE  FALSE
    BY <1>1 DEF Serving
  <2>2. act[d] = a
    BY <1>1, <2>1 DEF OpenBase, Base, ServingSound, Counted
  <2> QED BY <1>1, <2>1, <2>2, CallersAssumption DEF OpenBase, Locked
<1>9. Actors!TakeTurn(c, g)
  BY <1>3, <1>4, <1>6, <1>7, <1>8 DEF Actors!TakeTurn, Actors!TurnIsFree
<1> QED BY <1>1, <1>9 DEF Acts, Actors!Next

LEMMA LeaveActs ==
    ASSUME MaxActivations = None, OpenBase, Seen', NEW c \in Caller,
           NEW how \in {"answered", "cancelled"}, pc[c] \in Counted, Leave(c, how)
    PROVE  Acts
<1> DEFINE g == grainOf[act[c]]
<1>1. act[c] \in Activation /\ g \in Grain
  BY DEF OpenBase, Base, Types, Refs, Counted
<1>2. /\ pc' = [pc EXCEPT ![c] = how] /\ act' = [act EXCEPT ![c] = None]
      /\ UNCHANGED <<activations, grainOf, ready, timer>>
  BY DEF Leave, Bounded
<1>3. UNCHANGED <<Phase, Ticking>>
  BY <1>2, FramePhases DEF OpenBase, Base
<1>4. /\ \A d \in Caller : d # c => pc'[d] = pc[d] /\ act'[d] = act[d]
      /\ pc'[c] = how /\ how \notin Counted /\ how # "serving"
  BY <1>2 DEF OpenBase, Base, Types, Counted
<1>5. \A h \in Grain : /\ Inside'[h] = IF h = g THEN Inside[h] \ {c} ELSE Inside[h]
                       /\ Serving'[h] = IF h = g THEN Serving[h] \ {c} ELSE Serving[h]
  BY <1>2, <1>4 DEF Inside, Serving
<1>6. c \in Inside[g]
  BY <1>1 DEF Inside
<1> HIDE DEF g
<1>7. /\ Inside' = [Inside EXCEPT ![g] = @ \ {c}]
      /\ Serving' = [Serving EXCEPT ![g] = @ \ {c}]
  BY <1>5, CallsAreSets
<1>8. Actors!Exit(c, g)
  BY <1>3, <1>6, <1>7 DEF Actors!Exit
<1> QED BY <1>1, <1>8 DEF Acts, Actors!Next

LEMMA TickActs ==
    ASSUME OpenBase, Calm, Seen', NEW a \in Activation, TickBegins(a) \/ TickEnds(a)
    PROVE  Acts
<1> DEFINE g == grainOf[a]
<1>1. timer[a] \in {"asleep", "ticking"} /\ UNCHANGED <<activations, grainOf, ready, pc, act>>
  BY DEF TickBegins, TickEnds, table, calls
<1>2. /\ teardown[a] = "none" /\ ready[a] = "ready" /\ g \in Grain
      /\ activations[g] = a /\ a # None
  BY <1>1, RecordsAssumption DEF Calm, OpenBase, Base, Types, Builders, TableSound
<1>3. UNCHANGED <<Inside, Serving>>
  BY <1>1, FrameCalls DEF OpenBase, Base
<1>4. /\ \A b \in Activation : b # a => timer'[b] = timer[b]
      /\ timer'[a] = "ticking" <=> timer[a] # "ticking"
  BY <1>1 DEF TickBegins, TickEnds, OpenBase, Base, Types
<1>5. grainOf[a] = g
  OBVIOUS
<1> HIDE DEF g
<1>6. Phase' = Phase /\ Phase[g] = "warm"
  <2>1. \A h \in Grain : PhaseOf(h)' = PhaseOf(h)
    BY <1>1 DEF PhaseOf
  <2>2. PhaseOf(g) = "warm"
    BY <1>2 DEF PhaseOf
  <2> QED BY <1>2, <2>1, <2>2 DEF OpenBase, Seen
<1>7. \A h \in Grain : TicksOn(h)' <=> IF h = g THEN ~TicksOn(h) ELSE TicksOn(h)
  <2>1. \A h \in Grain : activations[h] # None => /\ activations[h] \in Activation
                                                  /\ (activations[h] = a <=> h = g)
    BY <1>2, <1>5 DEF OpenBase, Base, Types, Refs
  <2> QED BY <1>1, <1>2, <1>4, <2>1 DEF TicksOn
<1>8. Ticking' = IF g \in Ticking THEN Ticking \ {g} ELSE Ticking \union {g}
  BY <1>2, <1>7 DEF OpenBase, Seen
<1>9. Actors!Tick(g)
  BY <1>3, <1>6, <1>8 DEF Actors!Tick
<1> QED BY <1>2, <1>9 DEF Acts, Actors!Next

LEMMA SweepActs ==
    ASSUME OpenBase, Seen', NEW a \in Activation, SweepTakes(a)
    PROVE  Acts
<1> DEFINE g == grainOf[a]
<1>1. /\ a # None /\ g \in Grain /\ activations[g] = a
      /\ ready[a] = "ready" /\ inFlight[a] = 0
  BY RecordsAssumption DEF SweepTakes, Collectable, Detach, OpenBase, Base, Types, Refs
<1>2. /\ activations' = [activations EXCEPT ![g] = None]
      /\ timer' = [timer EXCEPT ![a] = AfterCancel(@)]
      /\ UNCHANGED <<grainOf, ready, pc, act>>
  BY <1>1 DEF SweepTakes, Detach, calls
<1>3. UNCHANGED <<Inside, Serving>>
  BY <1>2, FrameCalls DEF OpenBase, Base
<1>4. Inside[g] = {}
  <2>1. SUFFICES ASSUME NEW d \in Caller, pc[d] \in Counted, grainOf[act[d]] = g
                 PROVE  FALSE
    BY <1>1 DEF Inside
  <2>2. act[d] = a
    BY <1>1, <2>1 DEF OpenBase, Base, ServingSound
  <2> QED BY <1>1, <2>1, <2>2, BusyIsCounted DEF OpenBase, Base
<1>5. timer[a] # "ticking"
  <2>1. inFlight[a] = Cardinality(Users(a)) + (IF Ticks(a) THEN 1 ELSE 0)
    BY ExactMeans DEF OpenBase, Base
  <2> QED BY <1>1, <2>1, UsersFinite DEF Ticks
<1>6. grainOf[a] = g
  OBVIOUS
<1> HIDE DEF g
<1>7. /\ Phase[g] = "warm" /\ Phase' = [Phase EXCEPT ![g] = "cold"]
      /\ Ticking' = Ticking /\ g \notin Ticking
  <2>1. \A h \in Grain : activations'[h] = IF h = g THEN None ELSE activations[h]
    BY <1>2 DEF OpenBase, Base, Types
  <2>2. \A h \in Grain : activations[h] # None /\ h # g =>
           activations[h] # a /\ timer'[activations[h]] = timer[activations[h]]
    BY <1>2, <1>6 DEF OpenBase, Base, Types, Refs
  <2>3. \A h \in Grain : PhaseOf(h)' = IF h = g THEN "cold" ELSE PhaseOf(h)
    BY <1>2, <2>1 DEF PhaseOf
  <2>4. \A h \in Grain : TicksOn(h)' <=> TicksOn(h)
    BY <1>1, <1>5, <2>1, <2>2 DEF TicksOn
  <2>5. PhaseOf(g) = "warm" /\ ~TicksOn(g)
    BY <1>1, <1>5 DEF PhaseOf, TicksOn
  <2> QED BY <1>1, <2>3, <2>4, <2>5 DEF OpenBase, Seen
<1>8. Actors!Cool(g)
  BY <1>3, <1>4, <1>7 DEF Actors!Cool
<1> QED BY <1>1, <1>8 DEF Acts, Actors!Next

\* A record that nobody refers to is in no life.
LEMMA ForgetActs ==
    ASSUME OpenBase, Seen', NEW a \in Activation, Forget(a)
    PROVE  Acts
<1>1. /\ \A g \in Grain : activations[g] # a
      /\ \A c \in Caller : act[c] # a
  BY DEF Forget, Unreferenced
<1>2. /\ UNCHANGED <<activations, pc, act>>
      /\ \A b : b # a /\ b \in Activation =>
           UNCHANGED <<grainOf[b], ready[b], timer[b]>>
  BY DEF Forget, table, calls, OpenBase, Base, Types
<1>3. UNCHANGED <<Inside, Serving>>
  BY <1>1, <1>2, FrameCalls DEF OpenBase, Base, Types, Refs, Counted
<1> QED BY <1>1, <1>2, <1>3, FramePhases DEF Acts, OpenBase, Base, Types

LEMMA IdleActs ==
    ASSUME OpenBase, Seen', UNCHANGED <<activations, grainOf, ready, pc, act>>,
           \A a \in Activation : timer'[a] = "ticking" <=> timer[a] = "ticking"
    PROVE  Acts
<1>1. UNCHANGED <<Inside, Serving>>
  BY FrameCalls DEF OpenBase, Base
<1> QED BY <1>1, FramePhases DEF Acts, OpenBase, Base, Types

LEMMA StepActs ==
    ASSUME MaxActivations = None, "missing" \notin Env, OpenBase, Calm, Seen', closer = "open",
           closer' = "open", [Next]_vars
    PROVE  Acts
<1>1. CASE UNCHANGED <<activations, grainOf, ready, timer, pc, act>>
  BY <1>1, IdleActs
<1>2. ASSUME NEW c \in Caller, CallerStep(c) PROVE Acts
  <2>1. ASSUME NEW g \in Grain, Call(c, g) PROVE Acts
    BY <2>1, LookupActs DEF Call, Ended, Counted
  <2>2. CASE Wake(c)
    <3>1. act[c] \in Activation /\ grainOf[act[c]] \in Grain /\ pc[c] = "waiting"
      BY <2>2 DEF Wake, OpenBase, Base, Types, Refs
    <3>2. CASE ready[act[c]] = "ready" /\ Dispatch(c, act[c])
               /\ UNCHANGED <<table, grainOf, ready, timer>>
      BY <3>1, <3>2, AcceptActs DEF OpenBase, Base, ServingSound, Counted
    <3>3. CASE Give(c, "failed") /\ UNCHANGED <<table, grainOf, ready, timer>>
      BY <3>1, <3>3, GiveActs DEF Counted, table
    <3>4. CASE Lookup(c, grainOf[act[c]])
      BY <3>1, <3>4, LookupActs DEF Counted
    <3> QED BY <2>2, <3>2, <3>3, <3>4 DEF Wake
  <2>3. CASE Cancel(c)
    <3>1. CASE pc[c] = "waiting" /\ Give(c, "cancelled") /\ UNCHANGED <<table, records>>
      BY <3>1, GiveActs DEF Counted, table, records
    <3> QED BY <2>3, <3>1, GiveUpActs, LeaveActs DEF Cancel, OpenBase
  <2> QED BY <1>2, <2>1, <2>2, <2>3, OpenActs, GiveUpActs, TurnActs, LeaveActs
          DEF CallerStep, Evicted, Finish, OpenBase, Counted
<1>3. ASSUME NEW a \in Activation, RecordStep(a) PROVE Acts
  <2>1. CASE TimerStops(a)
    <3>1. timer[a] = "cancelled" /\ timer' = [timer EXCEPT ![a] = "done"]
      BY <2>1 DEF TimerStops, Calm
    <3>2. \A b \in Activation : timer'[b] = "ticking" <=> timer[b] = "ticking"
      BY <3>1 DEF OpenBase, Base, Types
    <3> QED BY <2>1, <3>2, IdleActs DEF TimerStops, table, calls
  <2>2. CASE GoesIdle(a) \/ SweepSkips(a)
    BY <1>1, <2>2 DEF GoesIdle, SweepSkips, table, records, calls
  <2> QED BY <1>3, <2>1, <2>2, TickActs, SweepActs, ForgetActs DEF RecordStep
<1>4. ASSUME NEW t \in Task, TimersGone(t) PROVE Acts
  BY <1>1, <1>4 DEF TimersGone, table, calls
<1>5. CASE SweepGoesOn \/ CloseGoesOn \/ SweepBegins \/ SweepEnds \/ UNCHANGED vars
  BY <1>1, <1>5 DEF SweepGoesOn, CloseGoesOn, SweepBegins, SweepEnds, vars, table, records, calls
<1> QED BY <1>2, <1>3, <1>4, <1>5 DEF Next, NodeStep, CloseTakes, CloseSkips, CloseBegins,
           DrainBegins, DrainEnds, CloseEnds

LEMMA SeenCorrect ==
    ASSUME MaxActivations = None, "missing" \notin Env
    PROVE  Spec => [](closer = "open" => OpenBase /\ Calm)
<1>1. Init => OpenlyCalm
  BY DEF Init, OpenlyCalm, Calm
<1>2. /\ Types /\ Refs /\ Builders /\ InFlightExact /\ OpenInv /\ OpenlyCalm /\ [Next]_vars
      => OpenlyCalm'
  BY StepCalm DEF OpenlyCalm
<1>3. /\ Types /\ Refs /\ Builders /\ InFlightExact /\ OpenInv /\ Served /\ Locked /\ OpenlyCalm
      => (closer = "open" => OpenBase /\ Calm)
  BY TableIsSeen DEF OpenInv, Served, OpenlyCalm, Base, OpenBase
<1> QED BY <1>1, <1>2, <1>3, BuildersCorrect, CountIsExact, OpenCorrect, ServedCorrect,
           LockedCorrect, PTL DEF Spec

LEMMA InitActors == Init => Actors!Init
<1> SUFFICES ASSUME Init PROVE Actors!Init
  OBVIOUS
<1>1. \A a \in Activation : ~Alive(a) /\ timer[a] = "none"
  BY DEF Init, Alive
<1>2. \A c \in Caller : pc[c] \notin Counted /\ pc[c] # "serving"
  BY DEF Init, Counted
<1>3. Phase = [g \in Grain |-> "cold"]
  BY <1>1 DEF Phase
<1>4. Inside = [g \in Grain |-> {}] /\ Serving = [g \in Grain |-> {}]
  BY <1>2 DEF Inside, Serving
<1>5. Ticking = {}
  BY <1>1 DEF Ticking
<1> QED BY <1>3, <1>4, <1>5 DEF Actors!Init

\* As long as it is open, a runtime without a bound behaves towards every identity as a
\* virtual actor, when calls name methods that exist: every step of every caller, of the
\* sweep and of a schedule is a step of that one life, or none (call to _deactivate).
THEOREM ActorsWhileOpen ==
    ASSUME MaxActivations = None, "missing" \notin Env
    PROVE  Spec => Actors!Init /\ [][closer' = "open" => Acts]_vars
<1>1. /\ (closer = "open" => OpenBase /\ Calm) /\ (closer = "open" => OpenBase /\ Calm)'
      /\ [Next]_vars
      => [closer' = "open" => Acts]_vars
  BY StepActs, OpenStays DEF OpenBase
<1> QED BY <1>1, SeenCorrect, InitActors, PTL DEF Spec

\* A runtime without a bound that is never left implements the virtual actor, for every
\* number of callers, identities and records.
THEOREM RuntimeIsVirtualActor ==
    ASSUME MaxActivations = None, "missing" \notin Env, "close" \notin Env
    PROVE  Spec => ImplementsVirtualActor
<1> DEFINE IsOpen == closer = "open"
<1>1. Init => IsOpen
  BY DEF Init
<1>2. IsOpen /\ [Next]_vars => IsOpen'
  BY CloserMoves DEF CloseBegins, DrainBegins, DrainEnds, CloseEnds
<1>3. [closer' = "open" => Acts]_vars /\ IsOpen' => [Actors!Next]_(Actors!vars)
  <2>1. UNCHANGED vars => UNCHANGED <<Phase, Inside, Serving, Ticking>>
    BY DEF vars, records, calls, table, Phase, Alive, Inside, Serving, Ticking
  <2> QED BY <2>1 DEF Acts, Actors!vars
<1> HIDE DEF IsOpen
<1>4. Spec => []IsOpen
  BY <1>1, <1>2, PTL DEF Spec
<1> QED BY <1>3, <1>4, ActorsWhileOpen, PTL DEF ImplementsVirtualActor, Actors!Spec

-----------------------------------------------------------------------------
(********************************* Shutdown ********************************)

\* Without a bound, cancellations of callers and calls after the runtime was
\* left: nobody evicts, and no waiter looks an identity up a second time.
Plain ==
    /\ \A c \in Caller : pc[c] # "evicting"
    /\ \A a \in Activation : ready[a] # "cancelled"

\* Whatever is built or serves is in the table, but for activations that the
\* shutdown has overtaken; and what is in the table nobody deactivates.
Reachable ==
    /\ \A c \in Caller : pc[c] = "activating" =>
         \/ activations[grainOf[act[c]]] = act[c]
         \/ /\ activations[grainOf[act[c]]] = None
            /\ teardown[act[c]] # "none" /\ closer \in {"closing", "closed"}
    /\ \A a \in Activation :
         grainOf[a] # None /\ ready[a] = "ready" /\ teardown[a] = "none"
            => activations[grainOf[a]] = a
    /\ \A g \in Grain : activations[g] # None => teardown[activations[g]] = "none"

\* A deactivation that has begun is the sweeper's or the shutdown's, the sweeper
\* ends before the drain, and what is in the table of a runtime that closes is
\* on the list of the shutdown.
Progress ==
    /\ \A a \in Activation :
         teardown[a] \in {"timers", "hook"} => victim[Sweeper] = a \/ victim[Closer] = a
    /\ sweeper = "stopped" => victim[Sweeper] = None
    /\ closer \in {"draining", "closing", "closed"} => sweeper = "stopped"
    /\ closer \in {"closing", "closed"} => Live \subseteq closing
    /\ closer = "closed" => closing = {} /\ victim[Closer] = None

Shutdown == Plain /\ Reachable /\ Progress

\* Steps of callers that neither build nor fail.
LEMMA FrameShutdown ==
    ASSUME Types, Shutdown,
           UNCHANGED <<activations, grainOf, ready, teardown, victim, sweeper, closer, closing>>,
           \A c \in Caller : /\ pc'[c] # "evicting"
                             /\ pc'[c] = "activating" => pc[c] = "activating" /\ act'[c] = act[c]
    PROVE  Shutdown'
<1>1. Plain'
  BY DEF Shutdown, Plain
<1>2. Reachable'
  BY DEF Shutdown, Reachable
<1>3. Progress'
  BY DEF Shutdown, Progress, Live
<1> QED BY <1>1, <1>2, <1>3 DEF Shutdown

\* A lookup of an open runtime.
LEMMA LookupShutdown ==
    ASSUME MaxActivations = None, Types, Refs, Builders, Shutdown, closer = "open",
           NEW c \in Caller, NEW g \in Grain, Lookup(c, g), UNCHANGED background
    PROVE  Shutdown'
<1> USE DEF Shutdown
<1>1. CASE /\ \E s \in {"waiting", "refused", "serving", "locking", "failed"} :
                 pc' = [pc EXCEPT ![c] = s]
           /\ \E a : act' = [act EXCEPT ![c] = a]
           /\ UNCHANGED <<activations, grainOf, ready, teardown, victim>>
  <2>1. \A d \in Caller : /\ pc'[d] # "evicting"
                          /\ pc'[d] = "activating" => pc[d] = "activating" /\ act'[d] = act[d]
    BY <1>1 DEF Types, Plain
  <2> QED BY <1>1, <2>1, FrameShutdown DEF background
<1>2. ASSUME NEW a \in Activation,
             activations[g] = None,
             grainOf[a] = None,
             grainOf' = [grainOf EXCEPT ![a] = g],
             activations' = [activations EXCEPT ![g] = a],
             pc' = [pc EXCEPT ![c] = "activating"],
             act' = [act EXCEPT ![c] = a],
             UNCHANGED <<ready, teardown, victim>>
      PROVE  Shutdown'
  <2>1. ready[a] = "pending" /\ teardown[a] = "none"
    BY <1>2 DEF Builders
  <2>2. Plain'
    BY <1>2 DEF Plain, Types
  <2>3. \A d \in Caller : pc'[d] = "activating" => activations'[grainOf'[act'[d]]] = act'[d]
    <3>1. SUFFICES ASSUME NEW d \in Caller, d # c, pc[d] = "activating"
                   PROVE  activations'[grainOf'[act'[d]]] = act'[d]
      BY <1>2 DEF Types
    <3>2. act[d] \in Activation /\ grainOf[act[d]] \in Grain /\ act[d] # a
      BY <1>2, <3>1 DEF Types, Refs
    <3>3. activations[grainOf[act[d]]] = act[d]
      BY <3>1 DEF Reachable
    <3> QED BY <1>2, <3>1, <3>2, <3>3, RecordsAssumption DEF Types
  <2>4. \A b \in Activation :
           grainOf'[b] # None /\ ready'[b] = "ready" /\ teardown'[b] = "none"
              => activations'[grainOf'[b]] = b
    BY <1>2, <2>1, RecordsAssumption DEF Types, Reachable
  <2>5. \A h \in Grain : activations'[h] # None => teardown'[activations'[h]] = "none"
    BY <1>2, <2>1 DEF Types, Reachable
  <2>6. Progress'
    BY <1>2 DEF Progress, background
  <2> QED BY <2>2, <2>3, <2>4, <2>5, <2>6 DEF Reachable
<1>3. CASE activations[g] = None /\ Build(c, g) /\ UNCHANGED <<ready, teardown, victim>>
  BY <1>1, <1>2, <1>3 DEF Build, Give, table
<1> QED BY <1>1, <1>3 DEF Lookup, Dispatch, Give, Full, Bounded, table

\* Taking an identity out of the table, for the sweeper or the shutdown.
LEMMA DetachShutdown ==
    ASSUME Types, Refs, Builders, Shutdown, NEW t \in {Sweeper, Closer}, NEW g \in Grain,
           Detach(t, g), UNCHANGED <<grainOf, ready, pc, act, sweeper, closer>>,
           \/ closing' = closing /\ t = Sweeper /\ sweeper # "stopped"
              /\ ready[activations[g]] = "ready"
           \/ closing' = closing \ {g} /\ t = Closer /\ closer = "closing"
    PROVE  Shutdown'
<1> USE DEF Shutdown
<1>1. /\ activations[g] \in Activation /\ grainOf[activations[g]] = g
      /\ victim[t] = None /\ t \in Task
  BY DEF Detach, Types, Refs, Task
<1>2. Plain'
  BY DEF Plain
<1>3. \A c \in Caller : pc[c] = "activating" =>
         act[c] \in Activation /\ grainOf[act[c]] \in Grain /\ ready[act[c]] = "pending"
  BY DEF Types, Refs, Builders
<1>4. teardown'[activations[g]] \in {"hook", "timers"}
  BY <1>1 DEF Detach, Types
<1>5. \A c \in Caller : pc'[c] = "activating" =>
         \/ activations'[grainOf'[act'[c]]] = act'[c]
         \/ /\ activations'[grainOf'[act'[c]]] = None
            /\ teardown'[act'[c]] # "none" /\ closer' \in {"closing", "closed"}
  <2>1. SUFFICES ASSUME NEW c \in Caller, pc[c] = "activating"
                 PROVE  \/ activations'[grainOf[act[c]]] = act[c]
                        \/ /\ activations'[grainOf[act[c]]] = None
                           /\ teardown'[act[c]] # "none" /\ closer \in {"closing", "closed"}
    OBVIOUS
  <2>2. CASE act[c] = activations[g]
    BY <1>1, <1>3, <1>4, <2>1, <2>2 DEF Detach, Types
  <2>3. CASE act[c] # activations[g]
    <3>1. teardown'[act[c]] = teardown[act[c]]
      BY <1>1, <1>3, <2>1, <2>3 DEF Detach, Types
    <3>2. CASE grainOf[act[c]] = g
      <4>1. activations[g] # None
        BY <1>1, RecordsAssumption
      <4> QED BY <2>1, <2>3, <3>2, <4>1 DEF Reachable
    <3>3. CASE grainOf[act[c]] # g
      <4>1. activations'[grainOf[act[c]]] = activations[grainOf[act[c]]]
        BY <1>3, <2>1, <3>3 DEF Detach, Types
      <4> QED BY <2>1, <3>1, <4>1 DEF Reachable
    <3> QED BY <3>2, <3>3
  <2> QED BY <2>2, <2>3
<1>6. \A a \in Activation :
         grainOf'[a] # None /\ ready'[a] = "ready" /\ teardown'[a] = "none"
            => activations'[grainOf'[a]] = a
  BY <1>1, <1>4 DEF Detach, Types, Reachable
<1>7. \A h \in Grain : activations'[h] # None => teardown'[activations'[h]] = "none"
  BY <1>1 DEF Detach, Types, Refs, Reachable
<1>8. Progress'
  <2>1. \A a \in Activation :
           teardown'[a] \in {"timers", "hook"} => victim'[Sweeper] = a \/ victim'[Closer] = a
    <3>1. SUFFICES ASSUME NEW a \in Activation, teardown'[a] \in {"timers", "hook"}
                   PROVE  victim'[Sweeper] = a \/ victim'[Closer] = a
      OBVIOUS
    <3>2. victim'[t] = activations[g] /\ \A u \in Task : u # t => victim'[u] = victim[u]
      BY <1>1 DEF Detach, Types
    <3>3. CASE a = activations[g]
      BY <3>2, <3>3
    <3>4. CASE a # activations[g]
      <4>1. teardown'[a] = teardown[a]
        BY <1>1, <3>4 DEF Detach, Types
      <4>2. victim[Sweeper] = a \/ victim[Closer] = a
        BY <3>1, <4>1 DEF Progress
      <4> QED BY <1>1, <3>2, <4>2, RecordsAssumption DEF Task
    <3> QED BY <3>3, <3>4
  <2>2. Live' = Live \ {g}
    BY DEF Detach, Live, Types
  <2>3. sweeper = "stopped" => victim'[Sweeper] = None
    BY <1>1, CallersAssumption DEF Detach, Types, Task, Progress
  <2>4. closer = "closed" => closing' = {} /\ victim'[Closer] = None
    BY <1>1 DEF Progress
  <2> QED BY <2>1, <2>2, <2>3, <2>4 DEF Progress
<1> QED BY <1>2, <1>5, <1>6, <1>7, <1>8 DEF Reachable

\* Every step of a runtime without a bound, of callers that are not cancelled
\* and do not call a runtime that has been left, keeps the invariant.
LEMMA StepShutdown ==
    ASSUME MaxActivations = None, "cancel" \notin Env, "late" \notin Env,
           Types, Refs, Builders, Shutdown, [Next]_vars
    PROVE  Shutdown'
<1>1. CASE UNCHANGED vars
  BY <1>1 DEF vars, table, records, calls, background, Shutdown, Plain, Reachable, Progress, Live
<1>2. ASSUME NEW c \in Caller, CallerStep(c) PROVE Shutdown'
  <2>1. ASSUME NEW g \in Grain, Call(c, g) PROVE Shutdown'
    BY <2>1, LookupShutdown DEF Call
  <2>2. CASE ActivateReturns(c)
    <3>1. PICK s \in {"refused", "serving", "locking"}, a \in {act[c], None} :
             pc' = [pc EXCEPT ![c] = s] /\ act' = [act EXCEPT ![c] = a]
      BY <2>2 DEF ActivateReturns, Dispatch
    <3>2. act[c] \in Activation /\ grainOf[act[c]] \in Grain /\ pc[c] = "activating"
      BY <2>2 DEF ActivateReturns, Types, Refs
    <3>3. Plain'
      BY <2>2, <3>1 DEF ActivateReturns, Types, Shutdown, Plain
    <3>4. \A d \in Caller : pc'[d] = "activating" => pc[d] = "activating" /\ act'[d] = act[d]
      BY <3>1 DEF Types
    <3>5. Reachable'
      BY <2>2, <3>2, <3>4 DEF ActivateReturns, Types, Shutdown, Reachable, table, background, Aside
    <3>6. Progress'
      BY <2>2 DEF ActivateReturns, Shutdown, Progress, Live, table, background, Aside
    <3> QED BY <3>3, <3>5, <3>6 DEF Shutdown
  <2>3. CASE ActivateFails(c, "failed")
    <3>1. /\ pc[c] = "activating" /\ act[c] \in Activation
          /\ grainOf[act[c]] \in Grain /\ ready[act[c]] = "pending"
          /\ activations[grainOf[act[c]]] \in {act[c], None}
      BY <2>3 DEF ActivateFails, Types, Refs, Builders, Shutdown, Reachable
    <3>2. Plain'
      BY <2>3 DEF ActivateFails, Give, Types, Shutdown, Plain
    <3>3. \A d \in Caller : pc'[d] = "activating" =>
             \/ activations'[grainOf'[act'[d]]] = act'[d]
             \/ /\ activations'[grainOf'[act'[d]]] = None
                /\ teardown'[act'[d]] # "none" /\ closer' \in {"closing", "closed"}
      <4>1. SUFFICES ASSUME NEW d \in Caller, d # c, pc[d] = "activating"
                     PROVE  \/ activations'[grainOf[act[d]]] = act[d]
                            \/ /\ activations'[grainOf[act[d]]] = None
                               /\ teardown[act[d]] # "none" /\ closer \in {"closing", "closed"}
        BY <2>3 DEF ActivateFails, Give, Types, background
      <4>2. act[d] \in Activation /\ grainOf[act[d]] \in Grain /\ act[d] # act[c]
        BY <3>1, <4>1 DEF Types, Refs, Builders
      <4>3. \/ activations[grainOf[act[d]]] = act[d]
            \/ /\ activations[grainOf[act[d]]] = None
               /\ teardown[act[d]] # "none" /\ closer \in {"closing", "closed"}
        BY <4>1 DEF Shutdown, Reachable
      <4>4. activations' = [activations EXCEPT ![grainOf[act[c]]] = None]
        BY <2>3 DEF ActivateFails
      <4> QED BY <3>1, <4>2, <4>3, <4>4, RecordsAssumption DEF Types
    <3>4. \A b \in Activation :
             grainOf'[b] # None /\ ready'[b] = "ready" /\ teardown'[b] = "none"
                => activations'[grainOf'[b]] = b
      BY <2>3, <3>1, RecordsAssumption DEF ActivateFails, Types, Shutdown, Reachable
    <3>5. \A h \in Grain : activations'[h] # None => teardown'[activations'[h]] = "none"
      BY <2>3, <3>1 DEF ActivateFails, Types, Shutdown, Reachable
    <3>6. Progress'
      <4>1. Live' \subseteq Live
        BY <2>3, <3>1 DEF ActivateFails, Live, Types
      <4> QED BY <2>3, <4>1 DEF ActivateFails, Shutdown, Progress, background
    <3> QED BY <3>2, <3>3, <3>4, <3>5, <3>6 DEF Shutdown, Reachable
  <2>4. ASSUME NEW s \in Ended \union Counted, pc' = [pc EXCEPT ![c] = s],
               \/ UNCHANGED act
               \/ \E a : act' = [act EXCEPT ![c] = a],
               UNCHANGED <<activations, grainOf, ready, teardown, victim, sweeper, closer, closing>>
        PROVE  Shutdown'
    <3>1. \A d \in Caller : /\ pc'[d] # "evicting"
                            /\ pc'[d] = "activating" => pc[d] = "activating" /\ act'[d] = act[d]
      BY <2>4 DEF Types, Shutdown, Plain, Ended, Counted
    <3> QED BY <2>4, <3>1, FrameShutdown
  <2>5. CASE Wake(c)
    <3>1. ready[act[c]] # "cancelled"
      BY <2>5 DEF Wake, Types, Refs, Shutdown, Plain
    <3> QED BY <2>4, <2>5, <3>1 DEF Wake, Dispatch, Give, Aside, table, background, Ended, Counted
  <2>6. CASE Acquire(c)
    BY <2>4, <2>6 DEF Acquire, table, background, Counted
  <2>7. CASE Finish(c)
    BY <2>4, <2>7 DEF Finish, Leave, Ended
  <2> QED BY <1>2, <2>1, <2>2, <2>3, <2>5, <2>6, <2>7
       DEF CallerStep, Evicted, Cancel, Shutdown, Plain
<1>3. ASSUME NEW a \in Activation, RecordStep(a) PROVE Shutdown'
  <2>1. CASE TimerStops(a) \/ TickBegins(a) \/ TickEnds(a) \/ GoesIdle(a) \/ SweepSkips(a)
    <3>1. /\ UNCHANGED <<activations, grainOf, ready, teardown, victim, sweeper, closer, closing>>
          /\ UNCHANGED <<pc, act>>
      BY <2>1 DEF TimerStops, TickBegins, TickEnds, GoesIdle, SweepSkips, table, records, calls,
           background
    <3> QED BY <3>1, FrameShutdown DEF Shutdown, Plain
  <2>2. CASE SweepTakes(a)
    <3>1. grainOf[a] \in Grain
      BY <2>2 DEF SweepTakes, Types, Refs
    <3> QED BY <2>2, <3>1, DetachShutdown DEF SweepTakes, Collectable, calls
  <2>3. CASE Forget(a)
    <3>1. /\ \A g \in Grain : activations[g] # a
          /\ \A c \in Caller : act[c] # a
      BY <2>3 DEF Forget, Unreferenced
    <3>2. Plain'
      BY <2>3 DEF Forget, Types, Shutdown, Plain, calls
    <3>3. Reachable'
      BY <2>3, <3>1 DEF Forget, Types, Shutdown, Reachable, table, calls
    <3>4. Progress'
      BY <2>3 DEF Forget, Types, Shutdown, Progress, Live, table
    <3> QED BY <3>2, <3>3, <3>4 DEF Shutdown
  <2> QED BY <1>3, <2>1, <2>2, <2>3 DEF RecordStep
  \* A deactivate() that is entered, returns or is cut short.
<1>4. ASSUME NEW t \in Task, TimersGone(t) PROVE Shutdown'
  <2>1. Plain'
    BY <1>4 DEF TimersGone, Shutdown, Plain, calls
  <2>2. Reachable'
    BY <1>4, RecordsAssumption DEF TimersGone, Types, Shutdown, Reachable, table, calls, background
  <2>3. Progress'
    BY <1>4, RecordsAssumption DEF TimersGone, Types, Shutdown, Progress, Live, table, background
  <2> QED BY <2>1, <2>2, <2>3 DEF Shutdown
<1>5. ASSUME NEW t \in Task, HookReturns(t) \/ HookIsCut(t),
             UNCHANGED <<activations, grainOf, ready, pc, act>>,
             closer' \in {"closing", "closed"} <=> closer \in {"closing", "closed"}
      PROVE  /\ Plain' /\ Reachable'
             /\ \A a \in Activation :
                  teardown'[a] \in {"timers", "hook"} => victim'[Sweeper] = a \/ victim'[Closer] = a
  <2>1. victim[t] \in Activation /\ teardown[victim[t]] = "hook"
    BY <1>5 DEF HookReturns, HookIsCut, Types
  <2>2. Plain'
    BY <1>5 DEF Shutdown, Plain
  <2>3. Reachable'
    BY <1>5, <2>1 DEF HookReturns, HookIsCut, Types, Shutdown, Reachable
  <2>4. ASSUME NEW a \in Activation, teardown'[a] \in {"timers", "hook"}
        PROVE  victim'[Sweeper] = a \/ victim'[Closer] = a
    <3>1. a # victim[t] /\ teardown'[a] = teardown[a]
      BY <1>5, <2>1, <2>4 DEF HookReturns, HookIsCut, Types
    <3>2. \A u \in Task : u # t => victim'[u] = victim[u]
      BY <1>5 DEF HookReturns, HookIsCut, Types
    <3>3. victim[Sweeper] = a \/ victim[Closer] = a
      BY <2>4, <3>1 DEF Shutdown, Progress
    <3> QED BY <3>1, <3>2, <3>3 DEF Task
  <2> QED BY <2>2, <2>3, <2>4
<1>6. ASSUME NEW g \in Grain, CloseTakes(g) PROVE Shutdown'
  BY <1>6, DetachShutdown DEF CloseTakes, calls
<1>7. ASSUME NEW g \in Grain, CloseSkips(g) PROVE Shutdown'
  <2>1. Plain' /\ Reachable'
    BY <1>7 DEF CloseSkips, Shutdown, Plain, Reachable, table, records, calls
  <2>2. Progress'
    BY <1>7 DEF CloseSkips, Shutdown, Progress, Live, table, records
  <2> QED BY <2>1, <2>2 DEF Shutdown
<1>8. CASE NodeStep
  <2>1. CASE SweepBegins \/ SweepEnds \/ DrainBegins \/ DrainEnds \/ CloseEnds
    <3>1. Plain' /\ Reachable'
      BY <2>1 DEF SweepBegins, SweepEnds, DrainBegins, DrainEnds, CloseEnds, Shutdown, Plain,
           Reachable, table, records, calls
    <3>2. Progress'
      BY <2>1 DEF SweepBegins, SweepEnds, DrainBegins, DrainEnds, CloseEnds, Shutdown, Progress,
           Live, table, records
    <3> QED BY <3>1, <3>2 DEF Shutdown
  <2>2. CASE SweepGoesOn \/ CloseGoesOn
    <3>1. PICK t \in {Sweeper, Closer} : /\ HookReturns(t)
                                         /\ UNCHANGED <<table, grainOf, ready, calls, background>>
      BY <2>2 DEF SweepGoesOn, CloseGoesOn
    <3>2. /\ Plain' /\ Reachable'
          /\ \A a \in Activation :
               teardown'[a] \in {"timers", "hook"} => victim'[Sweeper] = a \/ victim'[Closer] = a
      BY <1>5, <3>1 DEF Task, table, calls, background
    <3>3. /\ victim[Sweeper] = None => victim'[Sweeper] = None
          /\ victim[Closer] = None => victim'[Closer] = None
      BY <3>1 DEF HookReturns, Types, Task
    <3>4. Progress'
      BY <3>1, <3>2, <3>3 DEF Shutdown, Progress, Live, table, background
    <3> QED BY <3>2, <3>4 DEF Shutdown
  <2>3. CASE CloseBegins
    <3>1. UNCHANGED <<activations, grainOf, ready, pc, act, closing>> /\ closer = "open"
          /\ closer' = "stopping"
      BY <2>3 DEF CloseBegins, table, calls
    <3>2. CASE HookIsCut(Sweeper)
      <4>1. /\ Plain' /\ Reachable'
            /\ \A a \in Activation :
                 teardown'[a] \in {"timers", "hook"} => victim'[Sweeper] = a \/ victim'[Closer] = a
        BY <1>5, <3>1, <3>2 DEF Task
      <4>2. victim'[Sweeper] = None
        BY <3>2 DEF HookIsCut, Types, Task
      <4> QED BY <3>1, <4>1, <4>2 DEF Shutdown, Progress
    <3>3. CASE UNCHANGED <<teardown, victim>> /\ (victim[Sweeper] = None \/ UNCHANGED sweeper)
      <4>1. Plain' /\ Reachable'
        BY <3>1, <3>3 DEF Shutdown, Plain, Reachable
      <4>2. Progress'
        BY <3>1, <3>3 DEF Shutdown, Progress
      <4> QED BY <4>1, <4>2 DEF Shutdown
    <3> QED BY <2>3, <3>2, <3>3 DEF CloseBegins
  <2> QED BY <1>8, <2>1, <2>2, <2>3 DEF NodeStep
<1> QED BY <1>1, <1>2, <1>3, <1>4, <1>6, <1>7, <1>8 DEF Next

\* Leaving a runtime leaves nothing activated that was not deactivated: without a
\* bound, when callers are not cancelled and do not call on (__aexit__, _drain).
THEOREM NothingIsLeftActivated ==
    ASSUME MaxActivations = None, "cancel" \notin Env, "late" \notin Env
    PROVE  Spec => []CloseDeactivatesAll
<1>1. Init => Shutdown
  BY DEF Init, Shutdown, Plain, Reachable, Progress, Live
<1>2. Types /\ Refs /\ Builders /\ Shutdown /\ [Next]_vars => Shutdown'
  BY StepShutdown
<1>3. Types /\ Refs /\ Shutdown => CloseDeactivatesAll
  <2>1. SUFFICES ASSUME Types, Refs, Shutdown, closer = "closed"
                 PROVE  /\ Live = {}
                        /\ \A a \in Activation :
                             grainOf[a] # None /\ ready[a] = "ready" => teardown[a] \in {"done", "cut"}
    BY DEF CloseDeactivatesAll
  <2>2. Live = {} /\ victim[Sweeper] = None /\ victim[Closer] = None
    BY <2>1 DEF Shutdown, Progress
  <2>3. ASSUME NEW a \in Activation, grainOf[a] # None, ready[a] = "ready"
        PROVE  teardown[a] \in {"done", "cut"}
    <3>1. teardown[a] # "none"
      BY <2>1, <2>2, <2>3, RecordsAssumption DEF Types, Shutdown, Reachable, Live
    <3>2. teardown[a] \notin {"timers", "hook"}
      BY <2>1, <2>2, RecordsAssumption DEF Shutdown, Progress
    <3> QED BY <2>1, <3>1, <3>2 DEF Types
  <2> QED BY <2>2, <2>3
<1> QED BY <1>1, <1>2, <1>3, BuildersCorrect, PTL DEF Spec

=============================================================================
