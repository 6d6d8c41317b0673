------------------------ MODULE LeaseMembership_proofs ------------------------
(***************************************************************************)
(* The safety of the lease membership, for every lease, heartbeat, length  *)
(* of a read and fleet, and that it implements the port.  The argument is  *)
(* a budget: what a key has lost since it was written is the read that     *)
(* followed, one heartbeat for every beat that failed and the part of this *)
(* sleep that is over; what a snapshot has aged is counted the same way.   *)
(* That a scan finds the fleet page by page is met by what the port is     *)
(* unsure of: what the pages brought is as it is now or has changed since. *)
(***************************************************************************)
EXTENDS LeaseMembership, TLAPS

\* The history counters count no more than the faults there were, and no sleep
\* or read lasts longer than it may.
Counted ==
    \A n \in Node :
        /\ lost[n] <= faults /\ blind[n] <= faults
        /\ pc[n] \in {"off", "joining"} => lost[n] = 0 /\ blind[n] = 0
        /\ pc[n] # "off" => silent[n] = 0
        /\ pc[n] = "asleep" => wait[n] <= Heartbeat
        /\ Reading(n) => wait[n] <= Scan

\* What a key has left.
Fresh ==
    \A n \in Node :
        /\ Reading(n) => KeyTicks <= key[n] + (Scan - wait[n]) /\ lost[n] = 0
        /\ pc[n] = "asleep" =>
              KeyTicks <= key[n] + Scan + (lost[n] * Heartbeat) + (Heartbeat - wait[n])

\* A key outlives its node by no more than its lease.
Fading ==
    \A n \in Node : pc[n] = "off" /\ key[n] > 0 => silent[n] + key[n] <= KeyTicks

\* What a page brought has aged no more than the scan.
Torn ==
    \A m, n \in Node :
        Reading(m) /\ pc[n] = "off" /\ n \in seen[m] =>
            silent[n] <= KeyTicks + (Scan - wait[m])

\* How much of its round a running node has behind it.
Behind(m) == IF pc[m] = "asleep" THEN Heartbeat - wait[m] ELSE Heartbeat + (Scan - wait[m])

\* What a snapshot has aged.
Aged ==
    \A m, n \in Node :
        Running(m) /\ pc[n] = "off" /\ n \in view[m] =>
            silent[n] <= KeyTicks + Scan + (blind[m] * Round) + Behind(m)

\* What the pages have brought is right about every node whose listing has not
\* changed.
Scanned ==
    \A n \in Node :
        /\ pc[n] = "off" => unsure[n] = {}
        /\ Reading(n) =>
              /\ n \notin unread[n] /\ seen[n] \intersect unread[n] = {}
              /\ \A m \in Node \ ({n} \union unread[n] \union unsure[n]) :
                    m \in seen[n] <=> m \in Listed

IInv == TypeOK /\ Counted /\ Fresh /\ Fading /\ Torn /\ Aged /\ Scanned

-----------------------------------------------------------------------------
\* A lease is worth a whole number of ticks, at least one.
LEMMA KeyTicksIsPositive == KeyTicks \in Nat /\ KeyTicks > 0
<1>1. Lease \in Nat /\ Second \in Nat \ {0} /\ KeyTicks > 0
  BY LeaseAssumption
<1>2. Lease \div Second \in Nat
  BY <1>1
<1> DEFINE q == Lease \div Second
<1>3. q * Second \in Nat
  <2> HIDE DEF q
  <2>1. q \in Nat
    BY <1>2 DEF q
  <2> QED BY <1>1, <2>1
<1> QED BY <1>1, <1>3 DEF KeyTicks

\* What is cut off a lease is less than a second.
LEMMA TheCutIsShort == Lease < KeyTicks + Second
<1> DEFINE q == Lease \div Second
           r == Lease % Second
<1>1. Lease \in Nat /\ Second \in Nat /\ Second > 0
  BY LeaseAssumption
<1>2. r \in 0..(Second - 1) /\ q \in Nat /\ Lease = Second * q + r
  BY <1>1
<1>3. KeyTicks = Second * q
  <2>1. KeyTicks = q * Second
    BY DEF KeyTicks
  <2> HIDE DEF q
  <2> QED BY <1>1, <1>2, <2>1
<1> DEFINE k == Second * q
<1>4. Lease = k + r /\ KeyTicks = k
  BY <1>2, <1>3
<1>5. k \in Nat
  BY <1>4, KeyTicksIsPositive
<1> HIDE DEF k, q, r
<1> QED BY <1>1, <1>2, <1>4, <1>5

\* The facts about the constants that the steps use.
LEMMA ConstantFacts ==
    /\ KeyTicks \in Nat /\ KeyTicks > 0
    /\ Heartbeat \in Nat /\ Heartbeat > 0 /\ Scan \in Nat
    /\ Round \in Nat /\ Round = Heartbeat + Scan
    /\ MaxFaults \in Nat /\ MaxStarts \in Nat
    /\ Longest \in Nat
<1>1. Round \in Nat /\ MaxFaults \in Nat
  BY LeaseAssumption DEF Round
<1>2. (MaxFaults + 1) * Round \in Nat
  BY <1>1
<1> QED BY <1>1, <1>2, KeyTicksIsPositive, LeaseAssumption DEF Longest, Round

\* Heartbeats, or rounds, add up.
LEMMA OneMore ==
    ASSUME NEW k \in Nat, NEW ticks \in Nat
    PROVE  k * ticks \in Nat /\ (k + 1) * ticks = (k * ticks) + ticks /\ 0 * ticks = 0
OBVIOUS

\* With every node off and no key in the store the invariant holds.
THEOREM Initially == Init => IInv
<1> SUFFICES ASSUME Init PROVE IInv
  OBVIOUS
<1> USE DEF Init, Running, Reading
<1>1. TypeOK
  BY ConstantFacts DEF TypeOK
<1> QED BY <1>1 DEF IInv, Counted, Fresh, Fading, Torn, Aged, Scanned

\* What a step of one node may do to another: its snapshot, its scan and its
\* counters are its own.
LEMMA NodesKeepToThemselves ==
    ASSUME TypeOK, NEW n \in Node, NEW m \in Node, m # n,
           \/ Join(n) \/ Refresh(n) \/ Beat(n) \/ BeatFails(n)
           \/ ReadFails(n) \/ Leave(n) \/ Vanish(n) \/ \E k \in Node : Page(n, k)
    PROVE  /\ pc'[m] = pc[m] /\ key'[m] = key[m] /\ wait'[m] = wait[m]
           /\ unread'[m] = unread[m] /\ seen'[m] = seen[m] /\ view'[m] = view[m]
           /\ lost'[m] = lost[m] /\ blind'[m] = blind[m] /\ silent'[m] = silent[m]
<1> USE DEF TypeOK, Scans, Sleeps, Gone
<1>1. CASE Join(n)
  BY <1>1 DEF Join
<1>2. CASE Refresh(n)
  BY <1>2 DEF Refresh
<1>3. CASE Beat(n)
  BY <1>3 DEF Beat
<1>4. CASE BeatFails(n)
  BY <1>4 DEF BeatFails
<1>5. CASE ReadFails(n)
  BY <1>5 DEF ReadFails
<1>6. CASE Leave(n)
  BY <1>6 DEF Leave
<1>7. CASE Vanish(n)
  BY <1>7 DEF Vanish
<1>8. CASE \E k \in Node : Page(n, k)
  BY <1>8 DEF Page
<1> QED BY <1>1, <1>2, <1>3, <1>4, <1>5, <1>6, <1>7, <1>8

\* What a step does to its own node: it joins or beats, its scan gets on, its
\* round ends, or it goes.
LEMMA OneNode ==
    ASSUME TypeOK, NEW n \in Node,
           \/ Join(n) \/ Refresh(n) \/ Beat(n) \/ BeatFails(n)
           \/ ReadFails(n) \/ Leave(n) \/ Vanish(n) \/ \E k \in Node : Page(n, k)
    PROVE  \/ /\ pc[n] = "off" /\ pc'[n] = "joining" /\ key'[n] = KeyTicks
              /\ wait'[n] = Scan /\ unread'[n] = Node \ {n} /\ seen'[n] = {}
              /\ view'[n] = view[n] /\ lost'[n] = lost[n] /\ blind'[n] = blind[n]
              /\ silent'[n] = 0 /\ faults' = faults
           \/ /\ pc[n] = "asleep" /\ wait[n] = 0 /\ pc'[n] = "reading" /\ key'[n] = KeyTicks
              /\ wait'[n] = Scan /\ unread'[n] = Node \ {n} /\ seen'[n] = {}
              /\ view'[n] = view[n] /\ lost'[n] = 0 /\ blind'[n] = blind[n]
              /\ silent'[n] = silent[n] /\ faults' = faults
           \/ /\ Reading(n) /\ pc'[n] = pc[n] /\ key'[n] = key[n] /\ wait'[n] = wait[n]
              /\ \E k \in Node : Page(n, k)
              /\ view'[n] = view[n] /\ lost'[n] = lost[n] /\ blind'[n] = blind[n]
              /\ silent'[n] = silent[n] /\ faults' = faults
           \/ /\ Reading(n) /\ pc'[n] = "asleep" /\ key'[n] = key[n] /\ wait'[n] = Heartbeat
              /\ view'[n] = seen[n] \union {n} /\ lost'[n] = lost[n] /\ blind'[n] = 0
              /\ silent'[n] = silent[n] /\ faults' = faults
           \/ /\ pc[n] = "reading" /\ pc'[n] = "asleep" /\ key'[n] = key[n]
              /\ wait'[n] = Heartbeat /\ view'[n] = view[n]
              /\ lost'[n] = lost[n] /\ blind'[n] = blind[n] + 1
              /\ silent'[n] = silent[n] /\ faults' = faults + 1 /\ faults < MaxFaults
           \/ /\ pc[n] = "asleep" /\ wait[n] = 0 /\ pc'[n] = "asleep"
              /\ key'[n] \in {key[n], KeyTicks}
              /\ wait'[n] = Heartbeat /\ view'[n] = view[n]
              /\ lost'[n] = lost[n] + 1 /\ blind'[n] = blind[n] + 1
              /\ silent'[n] = silent[n] /\ faults' = faults + 1 /\ faults < MaxFaults
           \/ /\ pc[n] # "off" /\ pc'[n] = "off" /\ key'[n] \in {key[n], 0} /\ wait'[n] = 0
              /\ view'[n] = {n} /\ lost'[n] = 0 /\ blind'[n] = 0
              /\ silent'[n] = silent[n]
              /\ faults' = faults \/ (faults' = faults + 1 /\ faults < MaxFaults)
<1> USE DEF TypeOK, Scans, Sleeps, Gone, Announced, Fault, Running
<1>1. CASE Join(n)
  BY <1>1 DEF Join
<1>2. CASE Refresh(n)
  BY <1>2 DEF Refresh, Read
<1>3. CASE Beat(n)
  BY <1>3 DEF Beat
<1>4. CASE BeatFails(n)
  BY <1>4 DEF BeatFails
<1>5. CASE ReadFails(n)
  BY <1>5 DEF ReadFails, Reading
<1>6. CASE Leave(n)
  BY <1>6 DEF Leave
<1>7. CASE Vanish(n)
  BY <1>7 DEF Vanish
<1>8. CASE \E k \in Node : Page(n, k)
  BY <1>8 DEF Page
<1> QED BY <1>1, <1>2, <1>3, <1>4, <1>5, <1>6, <1>7, <1>8

\* The history of a step is of nodes.
LEMMA TrackedType ==
    ASSUME TypeOK, Tracked
    PROVE  unsure' \in [Node -> SUBSET Node]
BY DEF TypeOK, Tracked, SymDiff, Listed

\* Every step keeps the types.
LEMMA TypesStep ==
    ASSUME TypeOK, Counted, [Next]_vars
    PROVE  TypeOK'
<1> USE ConstantFacts DEF TypeOK
<1>0. \A n \in Node : lost[n] <= faults /\ blind[n] <= faults
  BY DEF Counted
<1>1. CASE Tick
  <2>1. \A n \in Node : Down(key[n]) \in 0..KeyTicks /\ Down(wait[n]) \in 0..Round
    BY DEF Down
  <2>2. \A n \in Node : silent[n] < Longest => silent[n] + 1 \in 0..Longest
    OBVIOUS
  <2>3. key' \in [Node -> 0..KeyTicks] /\ wait' \in [Node -> 0..Round]
    BY <1>1, <2>1 DEF Tick
  <2>4. silent' \in [Node -> 0..Longest]
    BY <1>1, <2>2 DEF Tick
  <2>5. unsure' \in [Node -> SUBSET Node]
    BY <1>1, TrackedType DEF Tick
  <2> QED BY <1>1, <2>3, <2>4, <2>5 DEF Tick
<1>2. ASSUME NEW n \in Node, Scans(n)
      PROVE  /\ unread' \in [Node -> SUBSET Node] /\ seen' \in [Node -> SUBSET Node]
             /\ wait' \in [Node -> 0..Round]
  BY <1>2 DEF Scans
<1>3. ASSUME NEW n \in Node, Sleeps(n)
      PROVE  /\ pc' \in [Node -> {"off", "joining", "asleep", "reading"}]
             /\ unread' \in [Node -> SUBSET Node] /\ seen' \in [Node -> SUBSET Node]
             /\ wait' \in [Node -> 0..Round]
  BY <1>3 DEF Sleeps
<1>4. ASSUME NEW n \in Node, Gone(n)
      PROVE  /\ pc' \in [Node -> {"off", "joining", "asleep", "reading"}]
             /\ unread' \in [Node -> SUBSET Node] /\ seen' \in [Node -> SUBSET Node]
             /\ wait' \in [Node -> 0..Round]
             /\ view' \in [Node -> SUBSET Node] /\ unsure' \in [Node -> SUBSET Node]
             /\ lost' \in [Node -> 0..MaxFaults] /\ blind' \in [Node -> 0..MaxFaults]
  BY <1>4, TrackedType DEF Gone
<1>5. ASSUME NEW n \in Node, Join(n) PROVE TypeOK'
  <2>1. key' \in [Node -> 0..KeyTicks] /\ silent' \in [Node -> 0..Longest]
        /\ starts' \in 0..MaxStarts
    BY <1>5 DEF Join, Announced
  <2>2. unsure' \in [Node -> SUBSET Node]
    BY <1>5, TrackedType DEF Join
  <2> QED BY <1>2, <1>5, <2>1, <2>2 DEF Join
<1>6. ASSUME NEW n \in Node, Refresh(n) PROVE TypeOK'
  <2>1. Read(n) \in SUBSET Node
    BY DEF Read
  <2> QED BY <1>3, <1>6, <2>1 DEF Refresh
<1>7. ASSUME NEW n \in Node, Beat(n) PROVE TypeOK'
  <2>1. key' \in [Node -> 0..KeyTicks] /\ unsure' \in [Node -> SUBSET Node]
    BY <1>7, TrackedType DEF Beat, Announced
  <2> QED BY <1>2, <1>7, <2>1 DEF Beat
<1>8. ASSUME NEW n \in Node, BeatFails(n) PROVE TypeOK'
  <2>1. lost[n] + 1 \in 0..MaxFaults /\ blind[n] + 1 \in 0..MaxFaults
        /\ faults' \in 0..MaxFaults
    BY <1>0, <1>8 DEF BeatFails, Fault
  <2>2. key' \in [Node -> 0..KeyTicks] /\ unsure' \in [Node -> SUBSET Node]
    BY <1>8, TrackedType DEF BeatFails, Announced
  <2>3. /\ lost' = [lost EXCEPT ![n] = lost[n] + 1]
        /\ blind' = [blind EXCEPT ![n] = blind[n] + 1]
        /\ UNCHANGED <<view, silent, starts>> /\ Sleeps(n)
    BY <1>8 DEF BeatFails
  <2>4. lost' \in [Node -> 0..MaxFaults] /\ blind' \in [Node -> 0..MaxFaults]
    BY <2>1, <2>3
  <2> QED BY <1>3, <2>1, <2>2, <2>3, <2>4
<1>9. ASSUME NEW n \in Node, NEW m \in Node, Page(n, m) PROVE TypeOK'
  BY <1>9 DEF Page
<1>10. ASSUME NEW n \in Node, ReadFails(n) PROVE TypeOK'
  <2>1. blind[n] + 1 \in 0..MaxFaults /\ faults' \in 0..MaxFaults
    BY <1>0, <1>10 DEF ReadFails, Fault
  <2>2. CASE Sleeps(n) /\ blind' = [blind EXCEPT ![n] = @ + 1] /\ UNCHANGED <<view, unsure, lost>>
    BY <1>3, <1>10, <2>1, <2>2 DEF ReadFails
  <2>3. CASE Gone(n)
    BY <1>4, <1>10, <2>1, <2>3 DEF ReadFails
  <2> QED BY <1>10, <2>2, <2>3 DEF ReadFails
<1>11. ASSUME NEW n \in Node, Leave(n) PROVE TypeOK'
  <2>1. key' \in [Node -> 0..KeyTicks]
    BY <1>11 DEF Leave
  <2> QED BY <1>4, <1>11, <2>1 DEF Leave
<1>12. ASSUME NEW n \in Node, Vanish(n) PROVE TypeOK'
  <2>1. faults' \in 0..MaxFaults
    BY <1>12 DEF Vanish, Fault
  <2> QED BY <1>4, <1>12, <2>1 DEF Vanish
<1>13. CASE UNCHANGED vars
  BY <1>13 DEF vars
<1> QED
  BY <1>1, <1>5, <1>6, <1>7, <1>8, <1>9, <1>10, <1>11, <1>12, <1>13 DEF Next

\* A step is time going on, a step of one node, or nothing.
LEMMA WhoSteps ==
    ASSUME [Next]_vars
    PROVE  \/ Tick
           \/ \E n \in Node :
                 \/ Join(n) \/ Refresh(n) \/ Beat(n) \/ BeatFails(n)
                 \/ ReadFails(n) \/ Leave(n) \/ Vanish(n) \/ \E k \in Node : Page(n, k)
           \/ UNCHANGED vars
BY DEF Next

\* What a tick does to a node: it waits, asleep, for a page or not at all.
LEMMA OneTick ==
    ASSUME TypeOK, NEW n \in Node, Tick
    PROVE  /\ pc'[n] = pc[n] /\ view'[n] = view[n] /\ seen'[n] = seen[n]
           /\ unread'[n] = unread[n] /\ lost'[n] = lost[n] /\ blind'[n] = blind[n]
           /\ faults' = faults
           /\ pc[n] # "off" => wait[n] > 0 /\ wait'[n] = wait[n] - 1 /\ silent'[n] = silent[n]
           /\ key'[n] = IF key[n] = 0 THEN 0 ELSE key[n] - 1
           /\ silent'[n] \in {silent[n], silent[n] + 1}
<1>1. ~Due(n) /\ wait[n] \in Nat
  BY ConstantFacts DEF Tick, TypeOK
<1> QED BY <1>1 DEF Tick, Due, Down, TypeOK

\* Every step keeps the counters.
LEMMA CountedStep ==
    ASSUME TypeOK, Counted, [Next]_vars
    PROVE  Counted'
<1> SUFFICES ASSUME NEW m \in Node
             PROVE  /\ lost'[m] <= faults' /\ blind'[m] <= faults'
                    /\ pc'[m] \in {"off", "joining"} => lost'[m] = 0 /\ blind'[m] = 0
                    /\ pc'[m] # "off" => silent'[m] = 0
                    /\ pc'[m] = "asleep" => wait'[m] <= Heartbeat
                    /\ pc'[m] \in {"joining", "reading"} => wait'[m] <= Scan
  BY DEF Counted, Reading
<1> USE ConstantFacts
<1>1. /\ lost[m] \in Nat /\ blind[m] \in Nat /\ faults \in Nat /\ wait[m] \in Nat
      /\ pc[m] \in {"off", "joining", "asleep", "reading"}
      /\ lost[m] <= faults /\ blind[m] <= faults
      /\ pc[m] \in {"off", "joining"} => lost[m] = 0 /\ blind[m] = 0
      /\ pc[m] # "off" => silent[m] = 0
      /\ pc[m] = "asleep" => wait[m] <= Heartbeat
      /\ Reading(m) => wait[m] <= Scan
  BY DEF TypeOK, Counted
<1>2. CASE Tick
  BY <1>1, <1>2, OneTick DEF Reading
<1>3. ASSUME NEW n \in Node, n # m,
             \/ Join(n) \/ Refresh(n) \/ Beat(n) \/ BeatFails(n)
             \/ ReadFails(n) \/ Leave(n) \/ Vanish(n) \/ \E k \in Node : Page(n, k)
      PROVE  /\ pc'[m] = pc[m] /\ wait'[m] = wait[m] /\ silent'[m] = silent[m]
             /\ lost'[m] = lost[m] /\ blind'[m] = blind[m] /\ faults' \in {faults, faults + 1}
  <2>1. faults' \in {faults, faults + 1}
    BY <1>3, OneNode
  <2> QED BY <1>3, <2>1, NodesKeepToThemselves
<1>4. CASE \/ Join(m) \/ Refresh(m) \/ Beat(m) \/ BeatFails(m)
           \/ ReadFails(m) \/ Leave(m) \/ Vanish(m) \/ \E k \in Node : Page(m, k)
  BY <1>1, <1>4, OneNode DEF Reading
<1>5. CASE UNCHANGED vars
  BY <1>1, <1>5 DEF vars, Reading
<1> QED BY <1>1, <1>2, <1>3, <1>4, <1>5, WhoSteps DEF Reading

\* Every step keeps what the keys have left.
LEMMA FreshStep ==
    ASSUME TypeOK, Counted, Fresh, [Next]_vars
    PROVE  Fresh'
<1> SUFFICES ASSUME NEW m \in Node
             PROVE  /\ pc'[m] \in {"joining", "reading"} =>
                          KeyTicks <= key'[m] + (Scan - wait'[m]) /\ lost'[m] = 0
                    /\ pc'[m] = "asleep" =>
                          KeyTicks <= key'[m] + Scan + (lost'[m] * Heartbeat)
                                        + (Heartbeat - wait'[m])
  BY DEF Fresh, Reading
<1> USE ConstantFacts
<1> DEFINE Owed == lost[m] * Heartbeat
           Owed1 == lost'[m] * Heartbeat
<1>1. /\ key[m] \in Nat /\ key[m] <= KeyTicks /\ wait[m] \in Nat /\ lost[m] \in Nat
      /\ pc[m] = "asleep" => wait[m] <= Heartbeat
      /\ Reading(m) => wait[m] <= Scan
  BY DEF TypeOK, Counted
<1>2. Owed \in Nat /\ (lost[m] + 1) * Heartbeat = Owed + Heartbeat /\ 0 * Heartbeat = 0
  BY <1>1, OneMore
<1>3. /\ Reading(m) => KeyTicks <= key[m] + (Scan - wait[m]) /\ lost[m] = 0
      /\ pc[m] = "asleep" => KeyTicks <= key[m] + Scan + Owed + (Heartbeat - wait[m])
  BY DEF Fresh
<1>4. /\ lost'[m] = lost[m] => Owed1 = Owed
      /\ lost'[m] = lost[m] + 1 => Owed1 = Owed + Heartbeat
      /\ lost'[m] = 0 => Owed1 = 0
  BY <1>2
<1> DEFINE Goal ==
             /\ pc'[m] \in {"joining", "reading"} =>
                   KeyTicks <= key'[m] + (Scan - wait'[m]) /\ lost'[m] = 0
             /\ pc'[m] = "asleep" =>
                   KeyTicks <= key'[m] + Scan + Owed1 + (Heartbeat - wait'[m])
<1> SUFFICES Goal
  OBVIOUS
<1> HIDE DEF Owed, Owed1
<1>5. CASE Tick
  BY <1>1, <1>2, <1>3, <1>4, <1>5, OneTick DEF Reading
<1>6. ASSUME NEW n \in Node, n # m,
             \/ Join(n) \/ Refresh(n) \/ Beat(n) \/ BeatFails(n)
             \/ ReadFails(n) \/ Leave(n) \/ Vanish(n) \/ \E k \in Node : Page(n, k)
      PROVE  pc'[m] = pc[m] /\ key'[m] = key[m] /\ lost'[m] = lost[m] /\ wait'[m] = wait[m]
  BY <1>6, NodesKeepToThemselves
<1>7. CASE \/ Join(m) \/ Refresh(m) \/ Beat(m) \/ BeatFails(m)
           \/ ReadFails(m) \/ Leave(m) \/ Vanish(m) \/ \E k \in Node : Page(m, k)
  <2>1. \/ pc'[m] \in {"joining", "reading"} /\ key'[m] = KeyTicks /\ wait'[m] = Scan /\ lost'[m] = 0
        \/ /\ Reading(m) /\ pc'[m] = pc[m]
           /\ key'[m] = key[m] /\ wait'[m] = wait[m] /\ lost'[m] = lost[m]
        \/ /\ Reading(m) /\ pc'[m] = "asleep"
           /\ key'[m] = key[m] /\ wait'[m] = Heartbeat /\ lost'[m] = lost[m]
        \/ /\ pc[m] = "asleep" /\ wait[m] = 0 /\ pc'[m] = "asleep"
           /\ key'[m] \in {key[m], KeyTicks} /\ wait'[m] = Heartbeat /\ lost'[m] = lost[m] + 1
        \/ pc'[m] = "off"
    <3>1. pc[m] = "off" => lost[m] = 0
      BY DEF Counted
    <3> QED BY <1>7, <3>1, OneNode DEF Reading
  <2>2. Owed \in Nat
    BY <1>2
  <2> QED BY <1>1, <1>3, <1>4, <2>1, <2>2 DEF Reading
<1>8. CASE UNCHANGED vars
  BY <1>3, <1>4, <1>8 DEF vars, Reading
<1>9. ASSUME pc'[m] = pc[m], key'[m] = key[m], lost'[m] = lost[m], wait'[m] = wait[m]
      PROVE  Goal
  BY <1>3, <1>4, <1>9 DEF Reading
<1> QED BY <1>5, <1>6, <1>7, <1>8, <1>9, WhoSteps

\* Every step keeps the end of a key near.
LEMMA FadingStep ==
    ASSUME TypeOK, Counted, Fading, [Next]_vars
    PROVE  Fading'
<1> SUFFICES ASSUME NEW m \in Node, pc'[m] = "off", key'[m] > 0
             PROVE  silent'[m] + key'[m] <= KeyTicks
  BY DEF Fading
<1> USE ConstantFacts
<1>1. /\ key[m] \in Nat /\ key[m] <= KeyTicks /\ silent[m] \in Nat
      /\ pc[m] = "off" /\ key[m] > 0 => silent[m] + key[m] <= KeyTicks
      /\ pc[m] # "off" => silent[m] = 0
  BY DEF TypeOK, Counted, Fading
<1>2. CASE Tick
  BY <1>1, <1>2, OneTick
<1>3. ASSUME NEW n \in Node, n # m,
             \/ Join(n) \/ Refresh(n) \/ Beat(n) \/ BeatFails(n)
             \/ ReadFails(n) \/ Leave(n) \/ Vanish(n) \/ \E k \in Node : Page(n, k)
      PROVE  pc'[m] = pc[m] /\ key'[m] = key[m] /\ silent'[m] = silent[m]
  BY <1>3, NodesKeepToThemselves
<1>4. CASE \/ Join(m) \/ Refresh(m) \/ Beat(m) \/ BeatFails(m)
           \/ ReadFails(m) \/ Leave(m) \/ Vanish(m) \/ \E k \in Node : Page(m, k)
  BY <1>1, <1>4, OneNode DEF Reading
<1>5. CASE UNCHANGED vars
  BY <1>1, <1>5 DEF vars
<1> QED BY <1>1, <1>2, <1>3, <1>4, <1>5, WhoSteps

\* Every step keeps the age of what the pages brought: a page brings a node that
\* is off only while its key lasts.
LEMMA TornStep ==
    ASSUME TypeOK, Counted, Fading, Torn, [Next]_vars
    PROVE  Torn'
<1> SUFFICES ASSUME NEW m \in Node, NEW n \in Node,
                    pc'[m] \in {"joining", "reading"}, pc'[n] = "off", n \in seen'[m]
             PROVE  silent'[n] <= KeyTicks + (Scan - wait'[m])
  BY DEF Torn, Reading
<1> USE ConstantFacts
<1>1. /\ key[n] \in Nat /\ silent[n] \in Nat /\ wait[m] \in Nat
      /\ pc[n] = "off" /\ key[n] > 0 => silent[n] <= KeyTicks
      /\ pc[n] # "off" => silent[n] = 0
      /\ Reading(m) => wait[m] <= Scan
      /\ Reading(m) /\ pc[n] = "off" /\ n \in seen[m] =>
            silent[n] <= KeyTicks + (Scan - wait[m])
  BY DEF TypeOK, Counted, Fading, Torn
<1>2. Reading(m) /\ (pc[n] # "off" \/ n \in seen[m] \/ key[n] > 0)
      => silent[n] <= KeyTicks + (Scan - wait[m])
  BY <1>1
<1>3. CASE Tick
  <2>1. /\ Reading(m) /\ n \in seen[m] /\ pc[n] = "off"
        /\ wait'[m] = wait[m] - 1 /\ silent'[n] \in {silent[n], silent[n] + 1}
    BY <1>3, OneTick DEF Reading
  <2> QED BY <1>1, <2>1
<1>4. ASSUME NEW k \in Node,
             \/ Join(k) \/ Refresh(k) \/ Beat(k) \/ BeatFails(k)
             \/ ReadFails(k) \/ Leave(k) \/ Vanish(k) \/ \E j \in Node : Page(k, j)
      PROVE  silent'[n] <= KeyTicks + (Scan - wait'[m])
  <2>1. silent'[n] = silent[n] /\ (pc[n] # "off" \/ pc'[n] = pc[n])
    <3>1. CASE k = n
      BY <1>1, <1>4, <3>1, OneNode
    <3>2. CASE k # n
      BY <1>4, <3>2, NodesKeepToThemselves
    <3> QED BY <3>1, <3>2
  <2>2. CASE k # m
    <3>1. pc'[m] = pc[m] /\ wait'[m] = wait[m] /\ seen'[m] = seen[m]
      BY <1>4, <2>2, NodesKeepToThemselves
    <3> QED BY <1>2, <2>1, <3>1 DEF Reading
  <2>3. CASE k = m /\ \E j \in Node : Page(m, j)
    <3>1. /\ Reading(m) /\ wait'[m] = wait[m]
          /\ n \in seen[m] \/ key[n] > 0
      BY <2>3 DEF Page, Listed, TypeOK
    <3> QED BY <1>2, <2>1, <3>1
  <2>4. CASE k = m /\ ~\E j \in Node : Page(m, j)
    <3>1. seen'[m] = {}
      BY <1>4, <2>4, OneNode DEF Reading
    <3> QED BY <3>1
  <2> QED BY <2>2, <2>3, <2>4
<1>5. CASE UNCHANGED vars
  BY <1>1, <1>5 DEF vars, Reading
<1> QED BY <1>3, <1>4, <1>5, WhoSteps

\* Every step keeps the age of a snapshot.
LEMMA AgedStep ==
    ASSUME TypeOK, Counted, Torn, Aged, [Next]_vars
    PROVE  Aged'
<1> DEFINE Later(m) == IF pc'[m] = "asleep" THEN Heartbeat - wait'[m]
                       ELSE Heartbeat + (Scan - wait'[m])
<1> SUFFICES ASSUME NEW m \in Node, NEW n \in Node,
                    pc'[m] \in {"asleep", "reading"}, pc'[n] = "off", n \in view'[m]
             PROVE  silent'[n] <= KeyTicks + Scan + (blind'[m] * Round) + Later(m)
  BY DEF Aged, Running, Behind
<1> USE ConstantFacts
<1> DEFINE Old == blind[m] * Round
           Old1 == blind'[m] * Round
<1>1. /\ silent[n] \in Nat /\ blind[m] \in Nat /\ wait[m] \in Nat
      /\ pc[m] \in {"off", "joining", "asleep", "reading"}
      /\ pc[n] # "off" => silent[n] = 0
      /\ pc[m] = "asleep" => wait[m] <= Heartbeat
      /\ Reading(m) => wait[m] <= Scan
      /\ Reading(m) /\ pc[n] = "off" /\ n \in seen[m] =>
            silent[n] <= KeyTicks + (Scan - wait[m])
  BY DEF TypeOK, Counted, Torn
<1>2. Old \in Nat /\ (blind[m] + 1) * Round = Old + Round /\ 0 * Round = 0
  BY <1>1, OneMore
<1>3. /\ blind'[m] = blind[m] => Old1 = Old
      /\ blind'[m] = blind[m] + 1 => Old1 = Old + Round
      /\ blind'[m] = 0 => Old1 = 0
  BY <1>2
<1>4. pc[m] \in {"asleep", "reading"} /\ pc[n] = "off" /\ n \in view[m] =>
            silent[n] <= KeyTicks + Scan + Old + Behind(m)
  BY DEF Aged, Running
<1> HIDE DEF Old, Old1
<1>5. CASE Tick
  <2>1. /\ pc'[m] = pc[m] /\ n \in view[m] /\ pc[n] = "off" /\ blind'[m] = blind[m]
        /\ wait[m] > 0 /\ wait'[m] = wait[m] - 1
        /\ silent'[n] \in {silent[n], silent[n] + 1}
    BY <1>5, OneTick
  <2>2. Later(m) = Behind(m) + 1 /\ Behind(m) \in Int
    BY <1>1, <2>1 DEF Behind
  <2> QED BY <1>1, <1>2, <1>3, <1>4, <2>1, <2>2 DEF Old1
<1>6. ASSUME NEW k \in Node,
             \/ Join(k) \/ Refresh(k) \/ Beat(k) \/ BeatFails(k)
             \/ ReadFails(k) \/ Leave(k) \/ Vanish(k) \/ \E j \in Node : Page(k, j)
      PROVE  silent'[n] <= KeyTicks + Scan + Old1 + Later(m)
  <2>1. silent'[n] = silent[n] /\ (pc[n] # "off" \/ pc'[n] = pc[n])
    <3>1. CASE k = n
      BY <1>1, <1>6, <3>1, OneNode
    <3>2. CASE k # n
      BY <1>6, <3>2, NodesKeepToThemselves
    <3> QED BY <3>1, <3>2
  <2>2. Later(m) \in Nat
    <3>1. CASE k = m
      BY <1>1, <1>6, <3>1, OneNode DEF Reading
    <3>2. CASE k # m
      <4>1. pc'[m] = pc[m] /\ wait'[m] = wait[m]
        BY <1>6, <3>2, NodesKeepToThemselves
      <4> QED BY <1>1, <4>1 DEF Reading
    <3> QED BY <3>1, <3>2
  <2>3. CASE pc[n] # "off"
    <3>1. Old1 \in Nat
      <4>1. blind'[m] \in Nat
        BY TypesStep DEF TypeOK
      <4> QED BY <4>1, OneMore DEF Old1
    <3> QED BY <1>1, <2>1, <2>2, <2>3, <3>1
  <2>4. CASE pc[n] = "off" /\ k # m
    <3>1. /\ pc'[m] = pc[m] /\ wait'[m] = wait[m] /\ view'[m] = view[m]
          /\ blind'[m] = blind[m]
      BY <1>6, <2>4, NodesKeepToThemselves
    <3>2. Later(m) = Behind(m)
      BY <3>1 DEF Behind
    <3> QED BY <1>3, <1>4, <2>1, <2>4, <3>1, <3>2
  <2>5. CASE pc[n] = "off" /\ k = m
    <3>1. CASE Reading(m) /\ blind'[m] = 0 /\ view'[m] = seen[m] \union {m}
      <4>1. silent[n] <= KeyTicks + (Scan - wait[m])
        BY <1>1, <2>5, <3>1 DEF Reading
      <4> QED BY <1>1, <1>2, <1>3, <2>1, <2>2, <3>1, <4>1
    <3>2. CASE /\ pc[m] \in {"asleep", "reading"} /\ view'[m] = view[m]
               /\ ~(Reading(m) /\ blind'[m] = 0 /\ view'[m] = seen[m] \union {m})
      <4>1. silent[n] <= KeyTicks + Scan + Old + Behind(m)
        BY <1>4, <2>5, <3>2
      <4>2. \/ Old1 = Old /\ Later(m) = Behind(m)
            \/ Old1 = Old /\ pc[m] = "asleep" /\ wait[m] = 0 /\ Later(m) = Heartbeat
            \/ Old1 = Old + Round /\ Later(m) = 0
        BY <1>1, <1>3, <1>6, <2>5, <3>2, OneNode DEF Behind, Reading
      <4>3. Behind(m) \in Int /\ Behind(m) <= Round
            /\ (pc[m] = "asleep" /\ wait[m] = 0 => Behind(m) = Heartbeat)
        BY <1>1, <3>2 DEF Behind, Reading
      <4> HIDE DEF Later
      <4> QED BY <1>1, <1>2, <2>1, <2>2, <4>1, <4>2, <4>3
    <3> QED BY <1>6, <2>5, <3>1, <3>2, OneNode DEF Reading
  <2> QED BY <2>3, <2>4, <2>5
<1>7. CASE UNCHANGED vars
  <2>1. /\ pc'[m] = pc[m] /\ n \in view[m] /\ pc[n] = "off" /\ blind'[m] = blind[m]
        /\ wait'[m] = wait[m] /\ silent'[n] = silent[n]
    BY <1>7 DEF vars
  <2>2. Later(m) = Behind(m)
    BY <2>1 DEF Behind
  <2> QED BY <1>3, <1>4, <2>1, <2>2 DEF Old1
<1> QED BY <1>5, <1>6, <1>7, WhoSteps DEF Old1

\* Every step keeps what the scans have brought right about those who have stayed
\* as they were.
LEMMA ScannedStep ==
    ASSUME TypeOK, Scanned, [Next]_vars
    PROVE  Scanned'
<1> SUFFICES ASSUME NEW n \in Node
             PROVE  /\ pc'[n] = "off" => unsure'[n] = {}
                    /\ pc'[n] \in {"joining", "reading"} =>
                          /\ n \notin unread'[n] /\ seen'[n] \intersect unread'[n] = {}
                          /\ \A m \in Node \ ({n} \union unread'[n] \union unsure'[n]) :
                                m \in seen'[n] <=> m \in Listed'
  BY DEF Scanned, Reading
<1> DEFINE Goal ==
             /\ pc'[n] = "off" => unsure'[n] = {}
             /\ pc'[n] \in {"joining", "reading"} =>
                   /\ n \notin unread'[n] /\ seen'[n] \intersect unread'[n] = {}
                   /\ \A m \in Node \ ({n} \union unread'[n] \union unsure'[n]) :
                         m \in seen'[n] <=> m \in Listed'
<1>1. /\ pc[n] = "off" => unsure[n] = {}
      /\ pc[n] \in {"joining", "reading"} =>
            /\ n \notin unread[n] /\ seen[n] \intersect unread[n] = {}
            /\ \A m \in Node \ ({n} \union unread[n] \union unsure[n]) :
                  m \in seen[n] <=> m \in Listed
  BY DEF Scanned, Reading
<1>2. ASSUME Tracked
      PROVE  unsure'[n] = IF pc'[n] = "off" THEN {}
                          ELSE unsure[n] \union (SymDiff(Listed, Listed') \ {n})
  BY <1>2 DEF Tracked
<1>3. ASSUME Tracked, pc'[n] = pc[n], unread'[n] = unread[n], seen'[n] = seen[n]
      PROVE  Goal
  BY <1>1, <1>2, <1>3 DEF SymDiff
<1>4. ASSUME key' = key, unsure'[n] = unsure[n], pc'[n] = pc[n],
             unread'[n] = unread[n], seen'[n] = seen[n]
      PROVE  Goal
  <2>1. Listed' = Listed
    BY <1>4 DEF Listed
  <2> QED BY <1>1, <1>4, <2>1
<1>5. ASSUME NEW k \in Node, Scans(k), Tracked, pc'[k] # "off",
             pc' = [pc EXCEPT ![k] = pc'[k]]
      PROVE  Goal
  <2>1. CASE k # n
    BY <1>3, <1>5, <2>1 DEF Scans, TypeOK
  <2>2. CASE k = n
    BY <1>5, <2>2 DEF Scans, TypeOK
  <2> QED BY <2>1, <2>2
<1>6. ASSUME NEW k \in Node, Sleeps(k)
      PROVE  /\ k = n => pc'[n] = "asleep"
             /\ k # n => pc'[n] = pc[n] /\ unread'[n] = unread[n] /\ seen'[n] = seen[n]
  BY <1>6 DEF Sleeps, TypeOK
<1>7. ASSUME NEW k \in Node, Gone(k) PROVE Goal
  <2>1. CASE k # n
    BY <1>3, <1>7, <2>1 DEF Gone, TypeOK
  <2>2. CASE k = n
    BY <1>2, <1>7, <2>2 DEF Gone, TypeOK
  <2> QED BY <2>1, <2>2
<1>8. ASSUME Tick PROVE Goal
  BY <1>3, <1>8 DEF Tick
<1>9. ASSUME NEW k \in Node, Join(k) PROVE Goal
  <2>1. pc'[k] = "joining" /\ pc' = [pc EXCEPT ![k] = pc'[k]]
    BY <1>9 DEF Join, TypeOK
  <2> QED BY <1>5, <1>9, <2>1 DEF Join
<1>10. ASSUME NEW k \in Node, Beat(k) PROVE Goal
  <2>1. pc'[k] = "reading" /\ pc' = [pc EXCEPT ![k] = pc'[k]]
    BY <1>10 DEF Beat, TypeOK
  <2> QED BY <1>5, <1>10, <2>1 DEF Beat
<1>11. ASSUME NEW k \in Node, Refresh(k) PROVE Goal
  <2>1. CASE k = n
    BY <1>6, <1>11, <2>1 DEF Refresh
  <2>2. CASE k # n
    <3>1. unsure'[n] = unsure[n] /\ key' = key
      BY <1>11, <2>2 DEF Refresh, TypeOK
    <3>2. pc'[n] = pc[n] /\ unread'[n] = unread[n] /\ seen'[n] = seen[n]
      BY <1>6, <1>11, <2>2 DEF Refresh
    <3> QED BY <1>4, <3>1, <3>2
  <2> QED BY <2>1, <2>2
<1>12. ASSUME NEW k \in Node, BeatFails(k) PROVE Goal
  <2>1. Sleeps(k) /\ Tracked
    BY <1>12 DEF BeatFails
  <2>2. CASE k = n
    BY <1>6, <2>1, <2>2
  <2>3. CASE k # n
    BY <1>3, <1>6, <2>1, <2>3
  <2> QED BY <2>2, <2>3
<1>13. ASSUME NEW k \in Node, NEW j \in Node, Page(k, j) PROVE Goal
  <2>1. /\ key' = key /\ unsure' = unsure /\ pc' = pc
        /\ unread' = [unread EXCEPT ![k] = unread[k] \ {j}]
        /\ seen' = [seen EXCEPT ![k] = seen[k] \union ({j} \intersect Listed)]
        /\ j \in unread[k]
    BY <1>13 DEF Page
  <2>2. CASE k # n
    BY <1>4, <2>1, <2>2 DEF TypeOK
  <2>3. CASE k = n
    <3>1. Listed' = Listed
      BY <2>1 DEF Listed
    <3>2. unread'[n] = unread[n] \ {j} /\ seen'[n] = seen[n] \union ({j} \intersect Listed)
      BY <2>1, <2>3 DEF TypeOK
    <3> QED BY <1>1, <2>1, <2>3, <3>1, <3>2
  <2> QED BY <2>2, <2>3
<1>14. ASSUME NEW k \in Node, ReadFails(k) PROVE Goal
  <2>1. key' = key
    BY <1>14 DEF ReadFails
  <2>2. CASE Gone(k)
    BY <1>7, <2>2
  <2>3. CASE Sleeps(k) /\ unsure' = unsure
    BY <1>4, <1>6, <2>1, <2>3
  <2> QED BY <1>14, <2>2, <2>3 DEF ReadFails
<1>15. ASSUME NEW k \in Node, Leave(k) \/ Vanish(k) PROVE Goal
  BY <1>7, <1>15 DEF Leave, Vanish
<1>16. ASSUME UNCHANGED vars PROVE Goal
  BY <1>4, <1>16 DEF vars
<1> SUFFICES Goal
  OBVIOUS
<1> HIDE DEF Goal
<1>17. ASSUME NEW k \in Node,
              \/ Join(k) \/ Refresh(k) \/ Beat(k) \/ BeatFails(k)
              \/ ReadFails(k) \/ Leave(k) \/ Vanish(k) \/ \E j \in Node : Page(k, j)
       PROVE  Goal
  BY <1>9, <1>10, <1>11, <1>12, <1>13, <1>14, <1>15, <1>17
<1> QED BY <1>8, <1>16, <1>17, WhoSteps

\* Every round trip, page, failure, start, stop and tick keeps the invariant.
THEOREM Stepwise == IInv /\ [Next]_vars => IInv'
BY TypesStep, CountedStep, FreshStep, FadingStep, TornStep, AgedStep, ScannedStep DEF IInv

\* The invariant holds in every state of every fleet that keeps leases.
THEOREM Invariantly == Spec => []IInv
<1>1. Spec => Init /\ [][Next]_vars
  BY DEF Spec
<1> QED BY <1>1, Initially, Stepwise, PTL

\* Every variable keeps its type: no key outlives a lease, and no sleep and no
\* read its time.
THEOREM TypeCorrect == Spec => []TypeOK
BY Invariantly, PTL DEF IInv

\* A node that runs is listed while the beats it lost in a row, the next one and
\* a read leave a second of the lease that was asked for (_beat and _announce),
\* for every lease, heartbeat and number of nodes: int() takes less than that.
THEOREM ListedWhileItBeats == Spec => []StaysListed
<1>1. IInv => StaysListed
  <2> SUFFICES ASSUME IInv, NEW n \in Node, Running(n),
                      (lost[n] + 1) * Heartbeat + Scan + Second <= Lease
               PROVE  key[n] > 0
    BY DEF StaysListed
  <2> DEFINE Owed == lost[n] * Heartbeat
  <2>1. /\ key[n] \in Nat /\ wait[n] \in Nat /\ lost[n] \in Nat
        /\ KeyTicks \in Nat /\ KeyTicks > 0 /\ Heartbeat \in Nat /\ Scan \in Nat
        /\ Lease \in Nat /\ Second \in Nat
    BY ConstantFacts, LeaseAssumption DEF IInv, TypeOK
  <2>2. Owed \in Nat /\ (lost[n] + 1) * Heartbeat = Owed + Heartbeat
    BY <2>1, OneMore
  <2>3. Owed + Heartbeat + Scan + Second <= Lease
    BY <2>1, <2>2
  <2>4. Owed \in Nat
    BY <2>2
  <2> HIDE DEF Owed
  <2>5. Owed + Heartbeat + Scan < KeyTicks
    BY <2>1, <2>3, <2>4, TheCutIsShort
  <2>6. CASE pc[n] = "reading"
    <3>1. KeyTicks <= key[n] + (Scan - wait[n])
      BY <2>6 DEF IInv, Fresh, Reading
    <3> QED BY <2>1, <2>4, <2>5, <3>1
  <2>7. CASE pc[n] = "asleep"
    <3>1. KeyTicks <= key[n] + Scan + Owed + (Heartbeat - wait[n])
      BY <2>7 DEF IInv, Fresh, Owed
    <3> QED BY <2>1, <2>4, <2>5, <3>1
  <2> QED BY <2>6, <2>7 DEF Running
<1> QED BY <1>1, Invariantly, PTL

\* A node that went off is in no snapshot after its lease, a read and one round,
\* and one more for every round the reader lost (_refresh): the time for which
\* calls are still sent to the dead.
THEOREM TheDeadAreForgotten == Spec => []GoneInTime
<1>1. IInv => GoneInTime
  <2> SUFFICES ASSUME IInv, NEW m \in Node, NEW n \in Node,
                      Running(m), pc[n] = "off", n \in view[m]
               PROVE  silent[n] <= KeyTicks + Scan + (blind[m] + 1) * Round
    BY DEF GoneInTime
  <2> DEFINE Old == blind[m] * Round
  <2>1. /\ wait[m] \in Nat /\ blind[m] \in Nat /\ silent[n] \in Nat
        /\ KeyTicks \in Nat /\ Heartbeat \in Nat /\ Scan \in Nat /\ Round = Heartbeat + Scan
        /\ Round \in Nat
    BY ConstantFacts DEF IInv, TypeOK
  <2>2. Old \in Nat /\ (blind[m] + 1) * Round = Old + Round
    BY <2>1, OneMore
  <2>3. silent[n] <= KeyTicks + Scan + Old + Behind(m)
    BY DEF IInv, Aged
  <2>4. Behind(m) \in Int /\ Behind(m) <= Round
    BY <2>1 DEF Behind
  <2>5. SUFFICES silent[n] <= KeyTicks + Scan + (Old + Round)
    BY <2>2
  <2>6. Old \in Nat
    BY <2>2
  <2> HIDE DEF Old
  <2> QED BY <2>1, <2>3, <2>4, <2>6
<1> QED BY <1>1, Invariantly, PTL

-----------------------------------------------------------------------------
\* A step of the leases is a step of the port or changes nothing of it.
LEMMA PortStep ==
    ASSUME IInv, [Next]_vars
    PROVE  [Port!MemberNext]_(Port!memberVars)
<1> USE DEF IInv, TypeOK
<1> DEFINE status == [n \in Node |-> IF Running(n) THEN "in" ELSE pc[n]]
           Changed(nodes) ==
               unsure' = [n \in Node |-> IF status'[n] = "off" THEN {}
                                         ELSE unsure[n] \union (nodes \ {n})]
<1>0. ASSUME NEW nodes, Tracked, SymDiff(Listed, Listed') = nodes
      PROVE  Changed(nodes)
  <2>1. \A n \in Node : status'[n] = "off" <=> pc'[n] = "off"
    BY DEF Running
  <2> HIDE DEF status
  <2> QED BY <1>0, <2>1 DEF Tracked
<1>1. CASE Tick
  <2> DEFINE gone == {n \in Node : key[n] = 1}
  <2>1. status' = status /\ view' = view
    BY <1>1 DEF Tick, Running
  <2>2. Listed' = Listed \ gone
    <3>1. \A n \in Node : key'[n] > 0 <=> key[n] > 0 /\ key[n] # 1
      BY <1>1, ConstantFacts DEF Tick, Down
    <3> QED BY <3>1 DEF Listed
  <2>3. SymDiff(Listed, Listed') = gone \intersect Listed
    BY <2>2 DEF SymDiff
  <2>4. Changed(gone \intersect Listed)
    BY <1>1, <2>3, <1>0 DEF Tick
  <2>5. gone \in SUBSET Node
    OBVIOUS
  <2> HIDE DEF gone
  <2>6. \E nodes \in SUBSET Node : Port!Lapse(nodes)
    BY <2>1, <2>2, <2>4, <2>5 DEF Port!Lapse, Port!Changes
  <2> QED BY <2>6 DEF Port!MemberNext
<1>2. ASSUME NEW n \in Node, Join(n) PROVE Port!Join(n)
  <2>1. pc[n] = "off" /\ pc' = [pc EXCEPT ![n] = "joining"] /\ view' = view
        /\ key' = [key EXCEPT ![n] = KeyTicks] /\ Tracked
    BY <1>2 DEF Join, Announced
  <2>2. Listed' = Listed \union {n}
    BY <2>1, ConstantFacts DEF Listed
  <2>3. status[n] = "off" /\ status' = [status EXCEPT ![n] = "joining"]
    BY <2>1 DEF Running
  <2>4. SymDiff(Listed, Listed') = {n} \ Listed
    BY <2>2 DEF SymDiff
  <2>5. Changed({n} \ Listed)
    BY <2>1, <2>4, <1>0
  <2> QED BY <2>1, <2>2, <2>3, <2>5 DEF Port!Join, Port!Changes
<1>3. ASSUME NEW n \in Node, Refresh(n) PROVE Port!Read(n)
  <2> DEFINE wrong == SymDiff(Listed, seen[n]) \ {n}
  <2>1. /\ pc[n] \in {"joining", "reading"} /\ pc' = [pc EXCEPT ![n] = "asleep"]
        /\ key' = key /\ view' = [view EXCEPT ![n] = seen[n] \union {n}]
        /\ unsure' = [unsure EXCEPT ![n] = {}] /\ unread[n] = {}
    BY <1>3 DEF Refresh, Read, Sleeps, Reading
  <2>2. Listed' = Listed
    BY <2>1 DEF Listed
  <2>3. status[n] # "off" /\ status' = [status EXCEPT ![n] = "in"]
    BY <2>1 DEF Running
  <2>4. \A m \in Node \ ({n} \union unsure[n]) : m \in seen[n] <=> m \in Listed
    BY <2>1 DEF Scanned, Reading
  <2>5. wrong \in SUBSET unsure[n]
    BY <2>4 DEF SymDiff, Listed
  <2>6. Port!SymDiff(Listed, wrong) \union {n} = seen[n] \union {n}
    BY DEF SymDiff, Port!SymDiff
  <2>7. view' = [view EXCEPT ![n] = Port!Snapshot(n, Port!SymDiff(Listed, wrong))]
    BY <2>1, <2>6 DEF Port!Snapshot
  <2> HIDE DEF wrong
  <2> QED BY <2>1, <2>2, <2>3, <2>5, <2>7 DEF Port!Read
<1>4. ASSUME NEW n \in Node,
             Beat(n) \/ (BeatFails(n) /\ key' = [key EXCEPT ![n] = KeyTicks])
      PROVE  Port!Renew(n)
  <2>1. /\ pc[n] = "asleep" /\ pc' \in {pc, [pc EXCEPT ![n] = "reading"]} /\ view' = view
        /\ key' = [key EXCEPT ![n] = KeyTicks] /\ Tracked
    BY <1>4 DEF Beat, BeatFails, Announced, Sleeps
  <2>2. Listed' = Listed \union {n}
    BY <2>1, ConstantFacts DEF Listed
  <2>3. status[n] = "in" /\ status' = status
    BY <2>1 DEF Running
  <2>4. SymDiff(Listed, Listed') = {n} \ Listed
    BY <2>2 DEF SymDiff
  <2>5. Changed({n} \ Listed)
    BY <2>1, <2>4, <1>0
  <2> QED BY <2>1, <2>2, <2>3, <2>5 DEF Port!Renew, Port!Changes
<1>5. ASSUME key' = key, Tracked, \A k \in Node : pc'[k] = "off" => pc[k] = "off"
      PROVE  unsure' = unsure
  <2>1. Listed' = Listed
    BY <1>5 DEF Listed
  <2>2. SymDiff(Listed, Listed') = {}
    BY <2>1 DEF SymDiff
  <2>3. \A k \in Node : pc'[k] = "off" => unsure[k] = {}
    BY <1>5 DEF Scanned
  <2> QED BY <1>5, <2>2, <2>3 DEF Tracked
<1>6. ASSUME NEW n \in Node,
             \/ BeatFails(n) /\ key' = key
             \/ ReadFails(n) /\ pc[n] = "reading"
             \/ \E m \in Node : Page(n, m)
      PROVE  UNCHANGED Port!memberVars
  <2>1. /\ \/ pc[n] \in {"asleep", "reading"} /\ pc' = [pc EXCEPT ![n] = "asleep"]
           \/ pc' = pc
        /\ key' = key /\ view' = view
        /\ unsure' = unsure \/ Tracked
    BY <1>6 DEF BeatFails, ReadFails, Page, Sleeps
  <2>2. status' = status /\ Listed' = Listed
    BY <2>1 DEF Running, Listed
  <2>3. \A k \in Node : pc'[k] = "off" => pc[k] = "off"
    BY <2>1
  <2>4. unsure' = unsure
    BY <1>5, <2>1, <2>3
  <2> QED BY <2>1, <2>2, <2>4 DEF Port!memberVars
<1>7. ASSUME NEW n \in Node, Gone(n), pc[n] # "off"
      PROVE  /\ status[n] # "off" /\ status' = [status EXCEPT ![n] = "off"]
             /\ view' = [view EXCEPT ![n] = {n}] /\ Tracked
             /\ Running(n) => status[n] = "in"
  BY <1>7 DEF Gone, Running
<1>8. ASSUME NEW n \in Node, Vanish(n) \/ (ReadFails(n) /\ pc[n] # "reading")
      PROVE  Port!Vanish(n)
  <2>1. Gone(n) /\ pc[n] # "off" /\ key' = key
    BY <1>8 DEF Vanish, ReadFails
  <2>2. Listed' = Listed
    BY <2>1 DEF Listed
  <2>3. SymDiff(Listed, Listed') = {}
    BY <2>2 DEF SymDiff
  <2>4. Changed({})
    BY <1>7, <2>1, <2>3, <1>0
  <2> QED BY <1>7, <2>1, <2>2, <2>4 DEF Port!Vanish, Port!Changes
<1>9. ASSUME NEW n \in Node, Leave(n) PROVE Port!Leave(n)
  <2>1. Gone(n) /\ Running(n) /\ pc[n] # "off" /\ key' = [key EXCEPT ![n] = 0]
    BY <1>9 DEF Leave, Running
  <2>2. Listed' = Listed \ {n}
    BY <2>1 DEF Listed
  <2>3. SymDiff(Listed, Listed') = {n} \intersect Listed
    BY <2>2 DEF SymDiff
  <2>4. Changed({n} \intersect Listed)
    BY <1>7, <2>1, <2>3, <1>0
  <2> QED BY <1>7, <2>1, <2>2, <2>4 DEF Port!Leave, Port!Changes
<1>10. CASE UNCHANGED vars
  <2>1. pc' = pc /\ key' = key /\ view' = view /\ unsure' = unsure
    BY <1>10 DEF vars
  <2>2. status' = status /\ Listed' = Listed
    BY <2>1 DEF Running, Listed
  <2> QED BY <2>1, <2>2 DEF Port!memberVars
<1>11. ASSUME NEW n \in Node, BeatFails(n)
       PROVE  key' = key \/ key' = [key EXCEPT ![n] = KeyTicks]
  BY <1>11 DEF BeatFails, Announced
<1> QED
  BY <1>1, <1>2, <1>3, <1>4, <1>6, <1>8, <1>9, <1>10, <1>11 DEF Next, Port!MemberNext

\* The leases are a membership as routing understands it, though a read goes page
\* by page while nodes come, go and expire.
THEOREM LeasesImplementThePort == Spec => ImplementsMembership
<1>1. Init => Port!MemberInit
  BY ConstantFacts DEF Init, Port!MemberInit, Running, Listed
<1>2. Spec => Init /\ [][Next]_vars
  BY DEF Spec
<1>3. Spec => Port!MemberInit /\ [][Port!MemberNext]_(Port!memberVars)
  BY <1>1, <1>2, PortStep, Invariantly, PTL
<1> QED BY <1>3 DEF ImplementsMembership, Port!MemberSpec

=============================================================================
