------------------------------- MODULE Reminders -------------------------------
(***************************************************************************)
(* Reminders: rows in one store, and on every node a scanner that calls    *)
(* the grains whose rows are due and whose place, as that node sees the    *)
(* ring, is there (src/src/nigrains/reminders.py and fire_due_reminders in *)
(* src/src/nigrains/runtime.py).  The store is the one in memory: its      *)
(* methods never suspend, so a scanner runs from one call to the next      *)
(* without anybody in between, and the list it walks is as old as the      *)
(* calls it has made from it.                                              *)
(*                                                                         *)
(* Time is counted down in each row instead of up in a clock.              *)
(***************************************************************************)
EXTENDS Ring

CONSTANTS
    Kind,            \* [Id -> SUBSET {"every", "once"}]: what is asked of a reminder
    Interval, Delay, \* ticks: of every(), of once()
    MaxAsks,         \* bound: requests of grains, cancellations included
    MaxMoves,        \* bound: changes of a node's membership
    MaxStops,        \* bound: scanners stopped in the middle of their work
    None

ASSUME RemindersAssumption ==
    /\ Kind \in [Id -> SUBSET {"every", "once"}]
    /\ Interval \in Nat \ {0} /\ Delay \in Nat \ {0}    \* every() and once() refuse less
    /\ MaxAsks \in Nat /\ MaxMoves \in Nat /\ MaxStops \in Nat
    /\ None \notin [left : Nat, every : BOOLEAN, ask : Nat]

VARIABLES
    row,             \* the store: one row per grain and name, an Id here
    todo,            \* node -> what is left of the list it read
    now,             \* node -> the entry whose call is under way
    view,            \* node -> members()
    wish,            \* history: what was last asked of a reminder
    last,            \* history: the ask that fired last, and how long ago
    asks, moves, stops

vars == <<row, todo, now, view, wish, last, asks, moves, stops>>

Longest == IF Interval < Delay THEN Delay ELSE Interval

Rows == [left : 0..Longest, every : BOOLEAN, ask : 1..MaxAsks]

\* What a scanner keeps of a row: a copy, without the due time it never uses.
Entries == [id : Id, every : BOOLEAN, ask : 1..MaxAsks]

TypeOK ==
    /\ row \in [Id -> Rows \union {None}]
    /\ todo \in [Node -> SUBSET Entries]
    /\ now \in [Node -> Entries \union {None}]
    /\ view \in [Node -> SUBSET Node] /\ \A n \in Node : n \in view[n]
    /\ wish \in [Id -> {"nothing", "every", "once", "cancel"}]
    /\ last \in [Id -> [ask : 0..MaxAsks, ago : 0..Interval]]
    /\ asks \in 0..MaxAsks /\ moves \in 0..MaxMoves /\ stops \in 0..MaxStops

Init ==
    /\ row = [i \in Id |-> None]
    /\ todo = [n \in Node |-> {}]
    /\ now = [n \in Node |-> None]
    /\ view = [n \in Node |-> Node]
    /\ wish = [i \in Id |-> "nothing"]
    /\ last = [i \in Id |-> [ask |-> 0, ago |-> 0]]
    /\ asks = 0 /\ moves = 0 /\ stops = 0

-----------------------------------------------------------------------------
\* every() and once(): a row of the same name is replaced.
AskedFor(i, kind) ==
    /\ kind \in Kind[i] /\ asks < MaxAsks /\ asks' = asks + 1
    /\ row' = [row EXCEPT ![i] = [left  |-> IF kind = "every" THEN Interval ELSE Delay,
                                  every |-> kind = "every", ask |-> asks + 1]]
    /\ wish' = [wish EXCEPT ![i] = kind]
    /\ UNCHANGED <<todo, now, view, last, moves, stops>>

\* cancel().
Cancel(i) ==
    /\ asks < MaxAsks /\ asks' = asks + 1
    /\ row' = [row EXCEPT ![i] = None]
    /\ wish' = [wish EXCEPT ![i] = "cancel"]
    /\ UNCHANGED <<todo, now, view, last, moves, stops>>

\* due(): the rows whose time has come.
Due == {i \in Id : row[i] # None /\ row[i].left = 0}

Entry(i) == [id |-> i, every |-> row[i].every, ask |-> row[i].ask]

\* Fault: every node fires whatever it finds.
MineAnyway(n, i) == TRUE

\* Cluster.is_mine.
Mine(n, i) == OwnerOf(view[n], i) = n

\* Fault: the copy is written back as it was read, still due.
AsItWas(r) == IF r.every THEN [left |-> 0, every |-> TRUE, ask |-> r.ask] ELSE None

\* Fault: nothing is due while a call is made.
TakenOff(r) == None

\* Fault: the interval is added to a due time that already lies one ahead.
TwiceAhead(r) ==
    IF r.every THEN [left |-> 2 * Interval, every |-> TRUE, ask |-> r.ask] ELSE None

\* What the store is told before the call: drop, or put the copy with a new time.
Rescheduled(r) ==
    IF r.every THEN [left |-> Interval, every |-> TRUE, ask |-> r.ask] ELSE None

Take(n, r, rest) ==
    /\ row' = [row EXCEPT ![r.id] = Rescheduled(r)]
    /\ now' = [now EXCEPT ![n] = r]
    /\ todo' = [todo EXCEPT ![n] = rest]
    /\ last' = [last EXCEPT ![r.id] = [ask |-> r.ask, ago |-> 0]]

\* The loop over a list, in whatever order it is, up to its next call: what
\* comes before it and belongs elsewhere is passed over for good.
Walk(n, list) ==
    LET own == {r \in list : Mine(n, r.id)}
    IN  \/ \E r \in own, over \in SUBSET (list \ own) : Take(n, r, list \ (over \union {r}))
        \/ /\ own = {}
           /\ now' = [now EXCEPT ![n] = None]
           /\ todo' = [todo EXCEPT ![n] = {}]
           /\ UNCHANGED <<row, last>>

\* fire_due_reminders, from _scan_reminders, when something is due here.
Scan(n) ==
    /\ now[n] = None /\ \E i \in Due : Mine(n, i)
    /\ Walk(n, {Entry(i) : i \in Due})
    /\ UNCHANGED <<view, wish, asks, moves, stops>>

\* Fault: a call that raises ends the walk.
WalkEnds(n) ==
    /\ now[n] # None
    /\ now' = [now EXCEPT ![n] = None]
    /\ todo' = [todo EXCEPT ![n] = {}]
    /\ UNCHANGED <<row, last, view, wish, asks, moves, stops>>

\* The call of on_reminder returns or raises; either way the walk goes on.
CallEnds(n) ==
    /\ now[n] # None
    /\ Walk(n, todo[n])
    /\ UNCHANGED <<view, wish, asks, moves, stops>>

\* The runtime is left, or dies, while its scanner works, and starts again.
Stop(n) ==
    /\ now[n] # None /\ stops < MaxStops /\ stops' = stops + 1
    /\ now' = [now EXCEPT ![n] = None]
    /\ todo' = [todo EXCEPT ![n] = {}]
    /\ UNCHANGED <<row, view, wish, last, asks, moves>>

\* StaticMembership.replace, or a read of a membership that keeps leases.
Replace(n, members) ==
    /\ moves < MaxMoves /\ moves' = moves + 1
    /\ n \in members /\ members # view[n]
    /\ view' = [view EXCEPT ![n] = members]
    /\ UNCHANGED <<row, todo, now, wish, last, asks, stops>>

Tick ==
    /\ row' = [i \in Id |-> IF row[i] # None /\ row[i].left > 0
                            THEN [row[i] EXCEPT !.left = @ - 1] ELSE row[i]]
    /\ last' = [i \in Id |-> IF last[i].ago < Interval
                             THEN [last[i] EXCEPT !.ago = @ + 1] ELSE last[i]]
    /\ UNCHANGED <<todo, now, view, wish, asks, moves, stops>>

Next ==
    \/ Tick
    \/ \E i \in Id : Cancel(i) \/ \E kind \in Kind[i] : AskedFor(i, kind)
    \/ \E n \in Node : Scan(n) \/ CallEnds(n) \/ Stop(n)
    \/ \E n \in Node, members \in Members : Replace(n, members)

\* Time passes, scanners scan and calls end; a scanner does one or the other.
Fairness == WF_vars(Tick) /\ \A n \in Node : WF_vars(Scan(n) \/ CallEnds(n))

Spec == Init /\ [][Next]_vars /\ Fairness

-----------------------------------------------------------------------------
\* As long as the nodes agree on the membership, one ask is not fired twice
\* within its interval, and a one-shot is not fired twice at all - however long
\* the calls take, however stale the lists, whatever is asked in between: only
\* the owner fires, and it reschedules before it calls.
Paced ==
    [][moves = 0 =>
         \A n \in Node :
             now'[n] # now[n] /\ now'[n] # None /\ last[now'[n].id].ask = now'[n].ask
                 => now'[n].every /\ last[now'[n].id].ago = Interval]_vars

\* A grain that was last asked to be woken every so often, and never by a
\* one-shot of the same name, is in the store: no crash, failed call, change of
\* owner or stale list loses a periodic reminder.
ScheduleStands ==
    \A i \in Id : Kind[i] = {"every"} /\ wish[i] = "every" => row[i] # None

\* A reminder that is due is taken by somebody, whoever has failed or moved
\* meanwhile, unless no node takes it for its own.
DueIsTaken ==
    \A i \in Id : i \in Due ~> ~(i \in Due /\ \E n \in Node : Mine(n, i))

\* A reminder that was cancelled and not asked for again is forgotten.
Forgotten == \A i \in Id : wish[i] = "cancel" => row[i] = None

=============================================================================
