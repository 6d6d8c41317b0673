---------------------------- MODULE Reminders_proofs ----------------------------
(***************************************************************************)
(* The safety of Reminders, for every ring, number of nodes and reminders, *)
(* interval and bound.  A scanner works from copies of rows, so what is    *)
(* true of the rows has to be true of the copies: IInv says of a list what *)
(* it says of the store, as long as the list is walked.                    *)
(***************************************************************************)
EXTENDS Reminders, TLAPS

Always(i) == Kind[i] = {"every"}

\* What is said of the rows, and what of a list read from them.
RowsFit ==
    \A i \in Id :
        /\ last[i].ask <= asks
        /\ row[i] # None => row[i].ask <= asks
        /\ row[i] # None /\ Always(i) => row[i].every

ListFits(list) ==
    /\ \A e \in list : e.ask <= asks /\ (Always(e.id) => e.every)
    /\ \A e, f \in list : e.id = f.id => e = f

\* While nobody's membership has changed, one node walks the rows of an
\* identity, and neither the row nor its copy is due again too early.
RowsPaced ==
    moves = 0 =>
        \A i \in Id : row[i] # None /\ last[i].ask = row[i].ask =>
            row[i].every /\ Interval <= row[i].left + last[i].ago

ListPaced(n, list) ==
    moves = 0 =>
        \A e \in list : Mine(n, e.id) /\ last[e.id].ask = e.ask =>
            e.every /\ last[e.id].ago = Interval

Agreed == moves = 0 => \A n \in Node : view[n] = Node

IInv ==
    /\ TypeOK /\ Agreed
    /\ RowsFit /\ ScheduleStands /\ RowsPaced
    /\ \A n \in Node : ListFits(todo[n]) /\ ListPaced(n, todo[n])

-----------------------------------------------------------------------------
\* The facts about the constants that the steps use.
LEMMA ConstantFacts ==
    /\ Interval \in Nat /\ Interval > 0 /\ Delay \in Nat /\ MaxAsks \in Nat
    /\ MaxMoves \in Nat /\ MaxStops \in Nat
    /\ Longest \in Nat /\ Interval <= Longest /\ Delay <= Longest
BY RemindersAssumption DEF Longest

\* A row is not None, so a periodic reminder that is put back is in the store.
LEMMA RowFacts ==
    ASSUME NEW r \in Entries
    PROVE  /\ r.every => /\ Rescheduled(r) = [left |-> Interval, every |-> TRUE, ask |-> r.ask]
                         /\ Rescheduled(r) \in Rows
           /\ ~r.every => Rescheduled(r) = None
           /\ Rescheduled(r) \in Rows \union {None}
           /\ Rescheduled(r) # None <=> r.every
<1> DEFINE again == [left |-> Interval, every |-> TRUE, ask |-> r.ask]
<1>1. Interval \in 0..Longest /\ Interval \in Nat /\ TRUE \in BOOLEAN
  BY ConstantFacts
<1>2. r.ask \in 1..MaxAsks /\ r.ask \in Nat
  BY ConstantFacts DEF Entries
<1>3. again \in Rows
  BY <1>1, <1>2 DEF Rows
<1>4. again \in [left : Nat, every : BOOLEAN, ask : Nat]
  BY <1>1, <1>2
<1>5. again # None
  BY <1>4, RemindersAssumption
<1> QED BY <1>3, <1>5 DEF Rescheduled

\* An empty store satisfies the invariant.
THEOREM Initially == Init => IInv
<1> SUFFICES ASSUME Init PROVE IInv
  OBVIOUS
<1> USE ConstantFacts DEF Init
<1>1. TypeOK
  BY DEF TypeOK
<1>2. Agreed /\ RowsFit /\ ScheduleStands /\ RowsPaced
  BY DEF Agreed, RowsFit, ScheduleStands, RowsPaced
<1>3. \A n \in Node : ListFits(todo[n]) /\ ListPaced(n, todo[n])
  BY DEF ListFits, ListPaced
<1> QED BY <1>1, <1>2, <1>3 DEF IInv

\* A walk over a list that fits keeps everything, and calls nobody too early.
LEMMA WalkStep ==
    ASSUME IInv, NEW n \in Node, NEW list \in SUBSET Entries,
           ListFits(list), ListPaced(n, list), Walk(n, list),
           UNCHANGED <<view, wish, asks, moves>>, stops' = stops
    PROVE  /\ IInv'
           /\ moves = 0 /\ now'[n] # None /\ last[now'[n].id].ask = now'[n].ask
                 => now'[n].every /\ last[now'[n].id].ago = Interval
           /\ \A m \in Node : m # n => now'[m] = now[m]
<1> USE ConstantFacts DEF IInv, TypeOK
<1> DEFINE own == {r \in list : Mine(n, r.id)}
<1>0. Agreed'
  BY DEF Agreed
<1>1. CASE /\ now' = [now EXCEPT ![n] = None]
           /\ todo' = [todo EXCEPT ![n] = {}]
           /\ UNCHANGED <<row, last>>
  <2>1. \A m \in Node : todo'[m] = {} \/ todo'[m] = todo[m]
    BY <1>1
  <2>2. TypeOK'
    BY <1>1
  <2>3. RowsFit' /\ ScheduleStands' /\ RowsPaced'
    BY <1>1 DEF RowsFit, ScheduleStands, RowsPaced
  <2>4. \A m \in Node : ListFits(todo[m])' /\ ListPaced(m, todo[m])'
    BY <1>1, <2>1 DEF ListFits, ListPaced, Mine, Always
  <2> QED BY <1>0, <1>1, <2>2, <2>3, <2>4
<1>2. ASSUME NEW r \in own, NEW over \in SUBSET (list \ own),
             Take(n, r, list \ (over \union {r}))
      PROVE  /\ IInv'
             /\ moves = 0 /\ now'[n] # None /\ last[now'[n].id].ask = now'[n].ask
                   => now'[n].every /\ last[now'[n].id].ago = Interval
             /\ \A m \in Node : m # n => now'[m] = now[m]
  <2> DEFINE rest == list \ (over \union {r})
             i == r.id
  <2>1. /\ r \in Entries /\ r \in list /\ Mine(n, i) /\ i \in Id /\ rest \in SUBSET list
        /\ r.every \in BOOLEAN /\ r.ask \in 1..MaxAsks /\ r.ask <= asks
        /\ Always(i) => r.every
    BY DEF Entries, ListFits
  <2>2. /\ row' = [row EXCEPT ![i] = Rescheduled(r)]
        /\ now' = [now EXCEPT ![n] = r]
        /\ todo' = [todo EXCEPT ![n] = rest]
        /\ last' = [last EXCEPT ![i] = [ask |-> r.ask, ago |-> 0]]
    BY <1>2 DEF Take
  <2>3. \A j \in Id : /\ row'[j] = IF j = i THEN Rescheduled(r) ELSE row[j]
                      /\ last'[j] = IF j = i THEN [ask |-> r.ask, ago |-> 0] ELSE last[j]
    BY <2>1, <2>2
  <2>4. \A m \in Node : /\ todo'[m] = IF m = n THEN rest ELSE todo[m]
                        /\ now'[m] = IF m = n THEN r ELSE now[m]
    BY <2>2
  <2> HIDE DEF own, rest
  <2>5. TypeOK'
    <3>1. row' \in [Id -> Rows \union {None}]
      BY <2>1, <2>2, RowFacts
    <3>2. now' \in [Node -> Entries \union {None}] /\ todo' \in [Node -> SUBSET Entries]
      BY <2>1, <2>2
    <3>3. [ask |-> r.ask, ago |-> 0] \in [ask : 0..MaxAsks, ago : 0..Interval]
      BY <2>1
    <3>4. last' \in [Id -> [ask : 0..MaxAsks, ago : 0..Interval]]
      BY <2>1, <2>2, <3>3
    <3> QED BY <3>1, <3>2, <3>4
  <2>6. RowsFit'
    <3>1. Rescheduled(r) # None => r.every /\ Rescheduled(r).ask = r.ask
                                   /\ Rescheduled(r).every
      BY <2>1, RowFacts
    <3>2. \A j \in Id :
            /\ last'[j].ask <= asks
            /\ row'[j] # None => row'[j].ask <= asks
            /\ row'[j] # None /\ Always(j) => row'[j].every
      BY <2>1, <2>3, <3>1 DEF RowsFit
    <3> QED BY <3>2 DEF RowsFit, Always
  <2>7. ScheduleStands'
    <3>1. Always(i) => Rescheduled(r) # None
      BY <2>1, RowFacts
    <3> QED BY <2>3, <3>1 DEF ScheduleStands, Always
  <2>8. RowsPaced'
    <3>1. Rescheduled(r) # None => Rescheduled(r).every /\ Rescheduled(r).left = Interval
      BY <2>1, RowFacts
    <3> SUFFICES ASSUME moves = 0, NEW j \in Id, row'[j] # None, last'[j].ask = row'[j].ask
                 PROVE  row'[j].every /\ Interval <= row'[j].left + last'[j].ago
      BY DEF RowsPaced
    <3>2. CASE j = i
      BY <2>3, <3>1, <3>2
    <3>3. CASE j # i
      BY <2>3, <3>3 DEF RowsPaced
    <3> QED BY <3>2, <3>3
  <2>9. \A m \in Node : ListFits(todo[m])'
    <3> TAKE m \in Node
    <3>1. ListFits(todo'[m])
      <4>1. ListFits(rest)
        BY <2>1 DEF ListFits
      <4> QED BY <2>4, <4>1
    <3> QED BY <3>1 DEF ListFits, Always
  <2>10. \A m \in Node : ListPaced(m, todo[m])'
    <3> SUFFICES ASSUME NEW m \in Node, moves = 0, NEW e \in todo'[m],
                        Mine(m, e.id), last'[e.id].ask = e.ask
                 PROVE  e.every /\ last'[e.id].ago = Interval
      BY DEF ListPaced, Mine
    <3>1. e \in Entries /\ e.id \in Id
      BY <2>5 DEF Entries
    <3>2. CASE m = n
      <4>1. e \in list /\ e # r
        BY <2>4, <3>2 DEF rest
      <4>2. e.id # i
        BY <2>1, <4>1 DEF ListFits
      <4> QED BY <2>3, <3>1, <3>2, <4>1, <4>2 DEF ListPaced
    <3>3. CASE m # n
      <4>1. e \in todo[m] /\ view[m] = view[n]
        BY <2>4, <3>3 DEF Agreed
      <4>2. e.id # i
        BY <2>1, <3>3, <4>1 DEF Mine
      <4> QED BY <2>3, <3>1, <4>1, <4>2 DEF ListPaced
    <3> QED BY <3>2, <3>3
  <2>11. moves = 0 /\ last[r.id].ask = r.ask => r.every /\ last[r.id].ago = Interval
    BY <2>1 DEF ListPaced
  <2>12. IInv'
    BY <1>0, <2>5, <2>6, <2>7, <2>8, <2>9, <2>10
  <2> QED BY <2>4, <2>11, <2>12
<1> QED BY <1>1, <1>2 DEF Walk

\* What is read from the store fits.
LEMMA ScanFits ==
    ASSUME IInv, NEW n \in Node
    PROVE  LET list == {Entry(i) : i \in Due}
           IN  list \in SUBSET Entries /\ ListFits(list) /\ ListPaced(n, list)
<1> USE ConstantFacts DEF IInv, TypeOK
<1> DEFINE list == {Entry(i) : i \in Due}
<1>1. \A i \in Due : /\ i \in Id /\ row[i] # None /\ row[i] \in Rows /\ row[i].left = 0
                     /\ Entry(i) = [id |-> i, every |-> row[i].every, ask |-> row[i].ask]
                     /\ Entry(i) \in Entries
  BY DEF Due, Entry, Rows, Entries
<1>2. ListFits(list)
  <2>1. \A e \in list : e.ask <= asks /\ (Always(e.id) => e.every)
    BY <1>1 DEF RowsFit
  <2>2. \A e, f \in list : e.id = f.id => e = f
    BY <1>1
  <2> QED BY <2>1, <2>2 DEF ListFits
<1>3. ListPaced(n, list)
  <2> SUFFICES ASSUME moves = 0, NEW i \in Due, last[i].ask = row[i].ask
               PROVE  row[i].every /\ last[i].ago = Interval
    BY <1>1 DEF ListPaced
  <2> DEFINE ago == last[i].ago
  <2>1. ago \in 0..Interval
    BY <1>1
  <2>2. row[i].every /\ Interval <= row[i].left + ago /\ row[i].left = 0
    BY <1>1 DEF RowsPaced
  <2>3. ago = Interval
    <3> HIDE DEF ago
    <3> QED BY <2>1, <2>2
  <2> QED BY <2>2, <2>3
<1> QED BY <1>1, <1>2, <1>3

\* A list that a node has begun to walk or has dropped fits.
LEMMA OthersStep ==
    ASSUME IInv, UNCHANGED <<view, last>>, asks' \in Nat, asks <= asks', UNCHANGED moves,
           NEW n \in Node, todo'[n] = todo[n] \/ todo'[n] = {}
    PROVE  ListFits(todo[n])' /\ ListPaced(n, todo[n])'
<1>1. \A e \in todo[n] : e.ask \in Nat /\ asks \in Nat
  BY ConstantFacts DEF IInv, TypeOK, Entries
<1> QED BY <1>1 DEF IInv, ListFits, ListPaced, Mine, Always

\* What the walk of a scanner may not do.
NoneTooEarly ==
    moves = 0 =>
        \A n \in Node :
            now'[n] # now[n] /\ now'[n] # None /\ last[now'[n].id].ask = now'[n].ask
                => now'[n].every /\ last[now'[n].id].ago = Interval

\* Every step keeps the invariant and paces the calls.
THEOREM Stepwise == IInv /\ [Next]_vars => IInv' /\ NoneTooEarly
<1> SUFFICES ASSUME IInv, [Next]_vars PROVE IInv' /\ NoneTooEarly
  OBVIOUS
<1> USE ConstantFacts DEF IInv
<1>1. ASSUME now' = now PROVE NoneTooEarly
  BY <1>1 DEF NoneTooEarly
<1>2. ASSUME NEW n \in Node, Scan(n) PROVE IInv' /\ NoneTooEarly
  <2> DEFINE list == {Entry(i) : i \in Due}
  <2>1. Walk(n, list) /\ UNCHANGED <<view, wish, asks, moves, stops>>
    BY <1>2 DEF Scan
  <2>2. list \in SUBSET Entries /\ ListFits(list) /\ ListPaced(n, list)
    BY ScanFits
  <2> HIDE DEF list
  <2> QED BY <2>1, <2>2, WalkStep DEF NoneTooEarly
<1>3. ASSUME NEW n \in Node, CallEnds(n) PROVE IInv' /\ NoneTooEarly
  <2>1. Walk(n, todo[n]) /\ UNCHANGED <<view, wish, asks, moves, stops>>
    BY <1>3 DEF CallEnds
  <2>2. todo[n] \in SUBSET Entries /\ ListFits(todo[n]) /\ ListPaced(n, todo[n])
    BY DEF TypeOK
  <2> QED BY <2>1, <2>2, WalkStep DEF NoneTooEarly
<1>4. ASSUME NEW i \in Id, NEW kind \in Kind[i], AskedFor(i, kind) PROVE IInv' /\ NoneTooEarly
  <2> DEFINE new == [left |-> IF kind = "every" THEN Interval ELSE Delay,
                     every |-> kind = "every", ask |-> asks + 1]
  <2>1. /\ row' = [row EXCEPT ![i] = new] /\ wish' = [wish EXCEPT ![i] = kind]
        /\ asks' = asks + 1 /\ asks + 1 \in 1..MaxAsks /\ asks \in Nat
        /\ UNCHANGED <<todo, now, view, last, moves, stops>>
    BY <1>4 DEF AskedFor, TypeOK
  <2>2. kind \in {"every", "once"}
    BY RemindersAssumption
  <2>3. (IF kind = "every" THEN Interval ELSE Delay) \in 0..Longest
        /\ (kind = "every") \in BOOLEAN
    OBVIOUS
  <2>4. new \in Rows
    BY <2>1, <2>3 DEF Rows
  <2>5. new # None
    <3>1. asks + 1 \in Nat /\ (IF kind = "every" THEN Interval ELSE Delay) \in Nat
      BY <2>1
    <3>2. new \in [left : Nat, every : BOOLEAN, ask : Nat]
      BY <2>3, <3>1
    <3> QED BY <3>2, RemindersAssumption
  <2>6. \A j \in Id : row'[j] = IF j = i THEN new ELSE row[j]
    BY <2>1 DEF TypeOK
  <2>7. new.ask = asks + 1 /\ (Always(i) => new.every)
    BY RemindersAssumption DEF Always
  <2> HIDE DEF new
  <2>8. TypeOK'
    <3>1. row' \in [Id -> Rows \union {None}]
      BY <2>1, <2>4 DEF TypeOK
    <3>2. wish' \in [Id -> {"nothing", "every", "once", "cancel"}]
      BY <2>1, <2>2 DEF TypeOK
    <3> QED BY <2>1, <3>1, <3>2 DEF TypeOK
  <2>9. RowsFit'
    <3>1. \A j \in Id : /\ last[j].ask \in Nat /\ last[j].ask <= asks
                        /\ row[j] # None => row[j].ask \in Nat /\ row[j].ask <= asks
      BY DEF TypeOK, RowsFit, Rows
    <3> QED BY <2>1, <2>6, <2>7, <3>1 DEF RowsFit, Always
  <2>10. ScheduleStands'
    BY <2>1, <2>5, <2>6 DEF ScheduleStands, TypeOK
  <2>11. RowsPaced'
    <3>1. \A j \in Id : last[j].ask \in Nat /\ last[j].ask <= asks
      BY DEF TypeOK, RowsFit
    <3> QED BY <2>1, <2>6, <2>7, <3>1 DEF RowsPaced
  <2>12. Agreed'
    BY <2>1 DEF Agreed
  <2>13. \A n \in Node : ListFits(todo[n])' /\ ListPaced(n, todo[n])'
    BY <2>1, OthersStep
  <2> QED BY <1>1, <2>1, <2>8, <2>9, <2>10, <2>11, <2>12, <2>13
<1>5. ASSUME NEW i \in Id, Cancel(i) PROVE IInv' /\ NoneTooEarly
  <2>1. /\ row' = [row EXCEPT ![i] = None] /\ wish' = [wish EXCEPT ![i] = "cancel"]
        /\ asks' = asks + 1 /\ asks + 1 \in 0..MaxAsks /\ asks \in Nat
        /\ UNCHANGED <<todo, now, view, last, moves, stops>>
    BY <1>5 DEF Cancel, TypeOK
  <2>2. \A j \in Id : row'[j] = IF j = i THEN None ELSE row[j]
    BY <2>1 DEF TypeOK
  <2>3. TypeOK'
    BY <2>1 DEF TypeOK
  <2>4. RowsFit'
    <3>1. \A j \in Id : /\ last[j].ask \in Nat /\ last[j].ask <= asks
                        /\ row[j] # None => row[j].ask \in Nat /\ row[j].ask <= asks
      BY DEF TypeOK, RowsFit, Rows
    <3> QED BY <2>1, <2>2, <3>1 DEF RowsFit, Always
  <2>5. ScheduleStands' /\ RowsPaced' /\ Agreed'
    BY <2>1, <2>2 DEF ScheduleStands, RowsPaced, Agreed, TypeOK
  <2>6. \A n \in Node : ListFits(todo[n])' /\ ListPaced(n, todo[n])'
    BY <2>1, OthersStep
  <2> QED BY <1>1, <2>1, <2>3, <2>4, <2>5, <2>6
<1>6. ASSUME NEW n \in Node, Stop(n) PROVE IInv' /\ NoneTooEarly
  <2>1. /\ now' = [now EXCEPT ![n] = None] /\ todo' = [todo EXCEPT ![n] = {}]
        /\ stops' \in 0..MaxStops /\ UNCHANGED <<row, view, wish, last, asks, moves>>
    BY <1>6 DEF Stop, TypeOK
  <2>2. TypeOK'
    BY <2>1 DEF TypeOK
  <2>3. RowsFit' /\ ScheduleStands' /\ RowsPaced' /\ Agreed'
    BY <2>1 DEF RowsFit, ScheduleStands, RowsPaced, Agreed, Always
  <2>4. \A m \in Node : todo'[m] = todo[m] \/ todo'[m] = {}
    BY <2>1 DEF TypeOK
  <2>5. \A m \in Node : ListFits(todo[m])' /\ ListPaced(m, todo[m])'
    BY <2>1, <2>4, OthersStep DEF TypeOK
  <2>6. NoneTooEarly
    BY <2>1 DEF NoneTooEarly, TypeOK
  <2> QED BY <2>2, <2>3, <2>5, <2>6
<1>7. ASSUME NEW n \in Node, NEW members \in Members, Replace(n, members)
      PROVE  IInv' /\ NoneTooEarly
  <2>1. /\ view' = [view EXCEPT ![n] = members] /\ n \in members /\ members \in SUBSET Node
        /\ moves' \in 0..MaxMoves /\ moves' # 0
        /\ UNCHANGED <<row, todo, now, wish, last, asks, stops>>
    BY <1>7 DEF Replace, TypeOK, Members
  <2>2. TypeOK'
    <3>1. view' \in [Node -> SUBSET Node] /\ \A m \in Node : m \in view'[m]
      BY <2>1 DEF TypeOK
    <3> QED BY <2>1, <3>1 DEF TypeOK
  <2>3. RowsFit' /\ ScheduleStands' /\ RowsPaced' /\ Agreed'
    BY <2>1 DEF RowsFit, ScheduleStands, RowsPaced, Agreed, Always
  <2>4. \A m \in Node : ListFits(todo[m])' /\ ListPaced(m, todo[m])'
    BY <2>1 DEF ListFits, ListPaced, Always
  <2> QED BY <1>1, <2>1, <2>2, <2>3, <2>4
<1>8. ASSUME Tick PROVE IInv' /\ NoneTooEarly
  <2>1. /\ UNCHANGED <<todo, now, view, wish, asks, moves, stops>>
        /\ row' = [i \in Id |-> IF row[i] # None /\ row[i].left > 0
                                THEN [row[i] EXCEPT !.left = @ - 1] ELSE row[i]]
        /\ last' = [i \in Id |-> IF last[i].ago < Interval
                                 THEN [last[i] EXCEPT !.ago = @ + 1] ELSE last[i]]
    BY <1>8 DEF Tick
  <2>2. ASSUME NEW i \in Id
        PROVE  /\ row[i] # None => /\ row'[i] \in Rows /\ row'[i].every = row[i].every
                                   /\ row'[i].ask = row[i].ask
                                   /\ row'[i].left = IF row[i].left > 0 THEN row[i].left - 1
                                                     ELSE row[i].left
               /\ row[i] = None => row'[i] = None
    <3>1. CASE row[i] # None
      <4>1. row[i] \in Rows /\ row[i].left \in 0..Longest
        BY <3>1 DEF TypeOK, Rows
      <4> QED BY <2>1, <3>1, <4>1 DEF Rows
    <3>2. CASE row[i] = None
      BY <2>1, <3>2
    <3> QED BY <3>1, <3>2
  <2>3. ASSUME NEW i \in Id
        PROVE  /\ last'[i] \in [ask : 0..MaxAsks, ago : 0..Interval] /\ last'[i].ask = last[i].ask
               /\ last'[i].ago = IF last[i].ago < Interval THEN last[i].ago + 1 ELSE last[i].ago
    BY <2>1 DEF TypeOK
  <2>4. TypeOK'
    <3>1. row' \in [Id -> Rows \union {None}]
      BY <2>1, <2>2
    <3>2. last' \in [Id -> [ask : 0..MaxAsks, ago : 0..Interval]]
      BY <2>1, <2>3
    <3> QED BY <2>1, <3>1, <3>2 DEF TypeOK
  <2>5. \A i \in Id : row'[i] # None => row[i] # None
    BY <2>2
  <2>6. \A i \in Id : row[i] # None => row'[i] # None
    <3> SUFFICES ASSUME NEW i \in Id, row[i] # None PROVE row'[i] # None
      OBVIOUS
    <3>1. row'[i] \in [left : Nat, every : BOOLEAN, ask : Nat]
      BY <2>2 DEF Rows
    <3> QED BY <3>1, RemindersAssumption
  <2>7. RowsFit' /\ ScheduleStands' /\ Agreed'
    <3>1. RowsFit'
      BY <2>1, <2>2, <2>3, <2>5 DEF RowsFit, Always
    <3>2. ScheduleStands' /\ Agreed'
      BY <2>1, <2>6 DEF ScheduleStands, Agreed
    <3> QED BY <3>1, <3>2
  <2>8. RowsPaced'
    <3> SUFFICES ASSUME moves = 0, NEW i \in Id, row'[i] # None, last'[i].ask = row'[i].ask
                 PROVE  row'[i].every /\ Interval <= row'[i].left + last'[i].ago
      BY <2>1 DEF RowsPaced
    <3>1. /\ row[i] # None /\ row[i].left \in Nat /\ last[i].ago \in 0..Interval
          /\ last[i].ask = row[i].ask
      BY <2>2, <2>3, <2>5 DEF TypeOK, Rows
    <3>2. row[i].every /\ Interval <= row[i].left + last[i].ago
      BY <3>1 DEF RowsPaced
    <3> QED BY <2>2, <2>3, <3>1, <3>2
  <2>9. \A n \in Node : ListFits(todo[n])' /\ ListPaced(n, todo[n])'
    <3> TAKE n \in Node
    <3>1. ListFits(todo[n])'
      BY <2>1 DEF ListFits, Always
    <3>2. \A e \in todo[n] : e.id \in Id
      BY DEF TypeOK, Entries
    <3>3. ListPaced(n, todo[n])'
      BY <2>1, <2>3, <3>2 DEF ListPaced, Mine
    <3> QED BY <3>1, <3>3
  <2> QED BY <1>1, <2>1, <2>4, <2>7, <2>8, <2>9
<1>9. CASE UNCHANGED vars
  <2>1. UNCHANGED <<row, todo, now, view, wish, last, asks, moves, stops>>
    BY <1>9 DEF vars
  <2>2. TypeOK' /\ Agreed' /\ RowsFit' /\ ScheduleStands' /\ RowsPaced'
    BY <2>1 DEF TypeOK, Agreed, RowsFit, ScheduleStands, RowsPaced, Always
  <2>3. \A n \in Node : ListFits(todo[n])' /\ ListPaced(n, todo[n])'
    BY <2>1 DEF ListFits, ListPaced, Mine, Always
  <2> QED BY <1>1, <2>1, <2>2, <2>3
<1> QED BY <1>2, <1>3, <1>4, <1>5, <1>6, <1>7, <1>8, <1>9 DEF Next

\* The invariant holds in every state, whatever the nodes see of each other.
THEOREM Invariantly == Spec => []IInv
<1>1. Spec => Init /\ [][Next]_vars
  BY DEF Spec
<1>2. IInv /\ [Next]_vars => IInv'
  BY Stepwise
<1> QED BY <1>1, <1>2, Initially, PTL

\* Every variable keeps its type, and every node is in its own view.
THEOREM TypeCorrect == Spec => []TypeOK
BY Invariantly, PTL DEF IInv

\* A periodic reminder that was asked for is in the store
\* (fire_due_reminders puts it back before the call, whatever becomes of it).
THEOREM ScheduleIsKept == Spec => []ScheduleStands
BY Invariantly, PTL DEF IInv

\* While the memberships agree, no ask fires twice within its interval and no
\* one-shot twice (is_mine and the put before the call), for every number of
\* nodes and reminders.
THEOREM CallsArePaced == Spec => Paced
<1>1. IInv /\ [Next]_vars =>
        [moves = 0 =>
           \A n \in Node :
             now'[n] # now[n] /\ now'[n] # None /\ last[now'[n].id].ask = now'[n].ask
                 => now'[n].every /\ last[now'[n].id].ago = Interval]_vars
  BY Stepwise DEF NoneTooEarly
<1>2. Spec => [][Next]_vars
  BY DEF Spec
<1> QED BY <1>1, <1>2, Invariantly, PTL DEF Paced

-----------------------------------------------------------------------------
(********************** What comes back after cancel() *********************)

\* Only who may be asked for periodically is periodic, in the store and on the lists, and a
\* cancelled reminder that is in the store is.
Periodic(e, i) == e.every => "every" \in Kind[i]

OnlyPeriodic ==
    /\ \A i \in Id : row[i] # None => Periodic(row[i], i)
    /\ \A n \in Node : \A e \in todo[n] : Periodic(e, e.id)
    /\ \A i \in Id : wish[i] = "cancel" /\ row[i] # None => row[i].every

\* A row appears because it is asked for, or out of a list that holds a periodic copy of it.
FromAList ==
    \A i \in Id : wish'[i] = "cancel" /\ row[i] = None /\ row'[i] # None =>
        \E n \in Node : \E e \in todo[n] : e.id = i /\ e.every

\* A walk keeps this when it holds of the list, and brings back what is on it.
LEMMA WalkPeriodic ==
    ASSUME TypeOK, OnlyPeriodic, NEW n \in Node, NEW list \in SUBSET Entries, Walk(n, list),
           \A e \in list : Periodic(e, e.id), UNCHANGED wish
    PROVE  /\ OnlyPeriodic'
           /\ \A i \in Id : row[i] = None /\ row'[i] # None =>
                 \E e \in list : e.id = i /\ e.every
<1>1. CASE /\ todo' = [todo EXCEPT ![n] = {}]
           /\ UNCHANGED <<row, last>>
  <2>1. \A m \in Node : todo'[m] = {} \/ todo'[m] = todo[m]
    BY <1>1 DEF TypeOK
  <2> QED BY <1>1, <2>1 DEF OnlyPeriodic, Periodic
<1>2. ASSUME NEW r \in list, NEW rest \in SUBSET list, Take(n, r, rest)
      PROVE  /\ OnlyPeriodic'
             /\ \A i \in Id : row[i] = None /\ row'[i] # None =>
                   \E e \in list : e.id = i /\ e.every
  <2>1. r \in Entries /\ r.id \in Id
    BY DEF Entries
  <2>2. /\ \A i \in Id : row'[i] = IF i = r.id THEN Rescheduled(r) ELSE row[i]
        /\ \A m \in Node : todo'[m] = IF m = n THEN rest ELSE todo[m]
    BY <1>2, <2>1 DEF Take, TypeOK
  <2>3. Rescheduled(r) # None => r.every /\ Rescheduled(r).every
    BY <2>1, RowFacts
  <2>4. \A i \in Id : row'[i] # None => Periodic(row'[i], i)
    BY <2>2, <2>3 DEF OnlyPeriodic, Periodic
  <2>5. \A m \in Node : \A e \in todo'[m] : Periodic(e, e.id)
    BY <2>2 DEF OnlyPeriodic
  <2>6. \A i \in Id : wish'[i] = "cancel" /\ row'[i] # None => row'[i].every
    BY <2>2, <2>3 DEF OnlyPeriodic
  <2> QED BY <2>2, <2>3, <2>4, <2>5, <2>6 DEF OnlyPeriodic, Periodic
<1> QED BY <1>1, <1>2 DEF Walk

LEMMA StepPeriodic ==
    ASSUME IInv, OnlyPeriodic, [Next]_vars
    PROVE  OnlyPeriodic' /\ FromAList
<1> USE DEF IInv
<1>1. ASSUME NEW n \in Node, Scan(n) PROVE OnlyPeriodic' /\ FromAList
  <2> DEFINE list == {Entry(i) : i \in Due}
  <2>1. Walk(n, list) /\ UNCHANGED wish
    BY <1>1 DEF Scan
  <2>2. list \in SUBSET Entries
    BY ScanFits
  <2>3. \A e \in list : e.id \in Id /\ row[e.id] # None /\ Periodic(e, e.id)
    BY DEF Entry, Due, OnlyPeriodic, Periodic
  <2> HIDE DEF list
  <2> QED BY <2>1, <2>2, <2>3, WalkPeriodic DEF FromAList
<1>2. ASSUME NEW n \in Node, CallEnds(n) PROVE OnlyPeriodic' /\ FromAList
  <2>1. Walk(n, todo[n]) /\ UNCHANGED wish /\ todo[n] \in SUBSET Entries
    BY <1>2 DEF CallEnds, TypeOK
  <2>2. \A e \in todo[n] : Periodic(e, e.id)
    BY DEF OnlyPeriodic
  <2> QED BY <2>1, <2>2, WalkPeriodic DEF FromAList
<1>3. ASSUME NEW i \in Id, NEW kind \in Kind[i], AskedFor(i, kind) PROVE OnlyPeriodic' /\ FromAList
  <2>1. kind \in {"every", "once"}
    BY RemindersAssumption
  <2>2. /\ \A j \in Id : /\ j # i => row'[j] = row[j] /\ wish'[j] = wish[j]
                         /\ row'[i].every = (kind = "every") /\ wish'[i] = kind
        /\ todo' = todo
    BY <1>3 DEF AskedFor, TypeOK
  <2> QED BY <2>1, <2>2 DEF OnlyPeriodic, Periodic, FromAList
<1>4. ASSUME NEW i \in Id, Cancel(i) PROVE OnlyPeriodic' /\ FromAList
  <2>1. /\ \A j \in Id : /\ j # i => row'[j] = row[j] /\ wish'[j] = wish[j]
                         /\ row'[i] = None
        /\ todo' = todo
    BY <1>4 DEF Cancel, TypeOK
  <2> QED BY <2>1 DEF OnlyPeriodic, Periodic, FromAList
<1>5. ASSUME NEW n \in Node, Stop(n) \/ \E members \in Members : Replace(n, members)
      PROVE  OnlyPeriodic' /\ FromAList
  <2>1. UNCHANGED <<row, wish>> /\ \A m \in Node : todo'[m] = todo[m] \/ todo'[m] = {}
    BY <1>5 DEF Stop, Replace, TypeOK
  <2> QED BY <2>1 DEF OnlyPeriodic, Periodic, FromAList
<1>6. CASE Tick
  <2>1. /\ UNCHANGED <<todo, wish>>
        /\ \A i \in Id : /\ row[i] = None => row'[i] = None
                         /\ row[i] # None => row'[i].every = row[i].every
    BY <1>6 DEF Tick, TypeOK, Rows
  <2> QED BY <2>1 DEF OnlyPeriodic, Periodic, FromAList
<1>7. CASE UNCHANGED vars
  BY <1>7 DEF vars, OnlyPeriodic, Periodic, FromAList
<1> QED BY <1>1, <1>2, <1>3, <1>4, <1>5, <1>6, <1>7 DEF Next

LEMMA PeriodicCorrect == Spec => []OnlyPeriodic
<1>1. Init => OnlyPeriodic
  BY DEF Init, OnlyPeriodic
<1>2. IInv /\ OnlyPeriodic /\ [Next]_vars => OnlyPeriodic'
  BY StepPeriodic
<1>3. Spec => Init /\ [][Next]_vars
  BY DEF Spec
<1> QED BY <1>1, <1>2, <1>3, Invariantly, PTL

\* A cancelled reminder that is in the store all the same is a periodic one: what was only
\* ever asked for with once() stays forgotten (cancel() drops the row, and the scanner
\* puts back periodic rows alone).
THEOREM OneShotsStayForgotten ==
    Spec => [](\A i \in Id : wish[i] = "cancel" /\ row[i] # None =>
                 row[i].every /\ "every" \in Kind[i])
<1>1. OnlyPeriodic =>
        \A i \in Id : wish[i] = "cancel" /\ row[i] # None => row[i].every /\ "every" \in Kind[i]
  BY DEF OnlyPeriodic, Periodic
<1> QED BY <1>1, PeriodicCorrect, PTL

\* A cancelled reminder comes back in one way only: a scanner walks a list it read before
\* the cancellation and puts its copy of the row (fire_due_reminders).
THEOREM ComesBackFromAList == Spec => [][FromAList]_vars
<1>1. IInv /\ OnlyPeriodic /\ [Next]_vars => [FromAList]_vars
  BY StepPeriodic
<1>2. Spec => [][Next]_vars
  BY DEF Spec
<1> QED BY <1>1, <1>2, Invariantly, PeriodicCorrect, PTL

=============================================================================
