------------------------------ MODULE Fleet_proofs ------------------------------
(***************************************************************************)
(* The safety of Fleet, for every fleet, hash and number of calls, and     *)
(* whatever the bound on how often it changes.  What makes it inductive is *)
(* that the owner is computed once, by whoever routes the call: the node   *)
(* that serves stands where the view that came with the call put it, and   *)
(* its own view plays no part.                                             *)
(***************************************************************************)
EXTENDS Fleet, FiniteSetTheorems, FunctionTheorems, TLAPS

-----------------------------------------------------------------------------
(***************************************************************************)
(* The ring, for every hash and every membership: an identity has an       *)
(* owner, the owner is a member, and a change of the membership moves      *)
(* identities only to who came or away from who went.                      *)
(***************************************************************************)

\* The points of a ring are finitely many pairs of a position and a node.
LEMMA PointsAreFinite ==
    ASSUME NEW M \in Members
    PROVE  /\ IsFiniteSet(Points(M)) /\ Points(M) # {}
           /\ \A q \in Points(M) : q = <<q[1], q[2]>> /\ q[1] \in Nat /\ q[2] \in Nat /\ q[2] \in M
<1>1. IsFiniteSet(M) /\ M \subseteq Node /\ M # {}
  <2>1. M \in SUBSET Node /\ M # {}
    BY DEF Members
  <2> QED BY <2>1, NodeAssumption, FS_Subset
<1>2. IsFiniteSet(M \X Replica)
  BY <1>1, RingAssumption, FS_Product
<1> DEFINE f == [p \in M \X Replica |-> <<Place[p], p[1]>>]
<1>3. f \in Surjection(M \X Replica, Points(M))
  <2>1. \A p \in M \X Replica : f[p] \in Points(M)
    BY DEF Points
  <2>2. ASSUME NEW q \in Points(M) PROVE \E p \in M \X Replica : f[p] = q
    BY DEF Points
  <2> QED BY <2>1, <2>2 DEF Surjection
<1>4. IsFiniteSet(Points(M))
  BY <1>2, <1>3, FS_Surjection
<1>5. Points(M) # {}
  <2>1. PICK n \in M, i \in Replica : TRUE
    BY <1>1, RingAssumption
  <2>2. <<n, i>> \in M \X Replica
    OBVIOUS
  <2>3. <<Place[<<n, i>>], <<n, i>>[1]>> \in Points(M)
    BY <2>2 DEF Points
  <2> QED BY <2>3
<1>6. ASSUME NEW q \in Points(M)
      PROVE  q = <<q[1], q[2]>> /\ q[1] \in Nat /\ q[2] \in Nat /\ q[2] \in M
  <2>1. PICK p \in M \X Replica : q = <<Place[p], p[1]>>
    BY DEF Points
  <2>2. p[1] \in M /\ p \in Node \X Replica
    BY <1>1
  <2>3. Place[p] \in Nat /\ p[1] \in Nat
    BY <1>1, <2>2, RingAssumption, NodeAssumption
  <2> QED BY <2>1, <2>2, <2>3
<1> QED BY <1>4, <1>5, <1>6

\* Precedes orders the points of a ring.
LEMMA PrecedesIsAnOrder ==
    ASSUME NEW M \in Members, NEW q \in Points(M), NEW r \in Points(M)
    PROVE  /\ ~Precedes(q, q)
           /\ q = r \/ Precedes(q, r) \/ Precedes(r, q)
           /\ ~(Precedes(q, r) /\ Precedes(r, q))
           /\ \A s \in Points(M) : Precedes(q, r) /\ Precedes(r, s) => Precedes(q, s)
BY PointsAreFinite DEF Precedes

\* The sorted list has an entry for every index below its length.
LEMMA NthExists ==
    ASSUME NEW M \in Members, NEW k \in 0..Cardinality(Points(M)) - 1
    PROVE  /\ Nth(Points(M), k) \in Points(M)
           /\ Cardinality(Before(Points(M), Nth(Points(M), k))) = k
<1> DEFINE P == Points(M)
           N == Cardinality(P)
           rank == [q \in P |-> Cardinality(Before(P, q))]
<1>1. IsFiniteSet(P) /\ N \in Nat
  BY PointsAreFinite, FS_CardinalityType
<1>2. \A q \in P : /\ IsFiniteSet(Before(P, q)) /\ Before(P, q) \subseteq P
                   /\ Cardinality(Before(P, q)) \in Nat /\ Cardinality(Before(P, q)) < N
  <2> TAKE q \in P
  <2>1. Before(P, q) \subseteq P /\ q \notin Before(P, q)
    BY PrecedesIsAnOrder DEF Before
  <2>2. Before(P, q) # P
    BY <2>1
  <2>3. IsFiniteSet(Before(P, q)) /\ Cardinality(Before(P, q)) \in Nat
    BY <1>1, <2>1, FS_Subset, FS_CardinalityType
  <2> QED BY <1>1, <2>1, <2>2, <2>3, FS_Subset
<1>3. ASSUME NEW q \in P, NEW r \in P, Precedes(q, r)
      PROVE  Cardinality(Before(P, q)) < Cardinality(Before(P, r))
  <2>1. Before(P, q) \subseteq Before(P, r)
    BY <1>3, PrecedesIsAnOrder DEF Before
  <2>2. q \in Before(P, r) /\ q \notin Before(P, q)
    BY <1>3, PrecedesIsAnOrder DEF Before
  <2>3. Before(P, q) # Before(P, r)
    BY <2>2
  <2> QED BY <1>2, <2>1, <2>3, FS_Subset
<1>4. rank \in Injection(P, 0..N - 1)
  <2>1. \A q \in P : rank[q] \in 0..N - 1
    BY <1>1, <1>2
  <2>2. ASSUME NEW q \in P, NEW r \in P, rank[q] = rank[r] PROVE q = r
    <3>1. Cardinality(Before(P, q)) = Cardinality(Before(P, r))
      BY <2>2
    <3>2. ~Precedes(q, r) /\ ~Precedes(r, q)
      BY <3>1, <1>2, <1>3
    <3> QED BY <3>2, PrecedesIsAnOrder
  <2> QED BY <2>1, <2>2 DEF Injection, IsInjective
<1>5. IsFiniteSet(0..N - 1) /\ Cardinality(0..N - 1) = N
  <2> HIDE DEF N
  <2>1. 0 \in Int /\ N - 1 \in Int
    BY <1>1
  <2>2. IsFiniteSet(0..N - 1)
        /\ Cardinality(0..N - 1) = IF 0 > N - 1 THEN 0 ELSE (N - 1) - 0 + 1
    BY <2>1, FS_Interval
  <2> QED BY <1>1, <2>2
<1>6. rank \in Surjection(P, 0..N - 1)
  BY <1>4, <1>5, FS_Injection
<1>7. \E q \in P : Cardinality(Before(P, q)) = k
  BY <1>6 DEF Surjection
<1> QED BY <1>7 DEF Nth

\* The point an identity at position p belongs to: the first one past p, and
\* the first of all when there is none.
FirstPast(points, p, q) ==
    /\ q \in points
    /\ \/ /\ q[1] > p
          /\ \A r \in points : r[1] > p => ~Precedes(r, q)
       \/ /\ \A r \in points : ~(r[1] > p)
          /\ \A r \in points : ~Precedes(r, q)

\* The binary search and its wrap find that point.
LEMMA OwnerIsFirstPast ==
    ASSUME NEW M \in Members, NEW p \in Nat
    PROVE  \E q \in Points(M) : FirstPast(Points(M), p, q) /\ Owner(M, p) = q[2]
<1> DEFINE P == Points(M)
           N == Cardinality(P)
           low == {q \in P : q[1] <= p}
           k == Cardinality(low) % N
           q == Nth(P, k)
<1>1. IsFiniteSet(P) /\ N \in Nat /\ N # 0
  BY PointsAreFinite, FS_CardinalityType, FS_EmptySet
<1>2. IsFiniteSet(low) /\ Cardinality(low) \in Nat /\ Cardinality(low) <= N
      /\ (Cardinality(low) = N => low = P)
  BY <1>1, FS_Subset, FS_CardinalityType
<1>3. k \in 0..N - 1 /\ k = IF Cardinality(low) = N THEN 0 ELSE Cardinality(low)
  BY <1>1, <1>2
<1>4. q \in P /\ Cardinality(Before(P, q)) = k
  BY <1>3, NthExists
<1>5. Owner(M, p) = q[2]
  BY DEF Owner, Bisect
<1>6. IsFiniteSet(Before(P, q)) /\ Before(P, q) \subseteq P
  BY <1>1, FS_Subset DEF Before
<1>7. CASE Cardinality(low) = N
  <2>1. Before(P, q) = {}
    BY <1>3, <1>4, <1>6, <1>7, FS_EmptySet
  <2>2. \A r \in P : ~(r[1] > p)
    BY <1>2, <1>7, PointsAreFinite
  <2>3. \A r \in P : ~Precedes(r, q)
    BY <2>1 DEF Before
  <2> QED BY <1>4, <1>5, <2>2, <2>3 DEF FirstPast
<1>8. CASE Cardinality(low) # N
  <2>1. Cardinality(Before(P, q)) = Cardinality(low)
    BY <1>3, <1>4, <1>8
  <2>2. q \notin low
    <3> SUFFICES ASSUME q \in low PROVE FALSE
      OBVIOUS
    <3>1. Before(P, q) \subseteq low
      BY <1>4, PointsAreFinite DEF Before, Precedes
    <3>2. q \notin Before(P, q)
      BY <1>4, PrecedesIsAnOrder DEF Before
    <3>3. Before(P, q) # low
      BY <3>2
    <3>4. Cardinality(Before(P, q)) # Cardinality(low)
      <4> HIDE DEF low, q, k
      <4> QED BY <1>2, <3>1, <3>3, FS_Subset
    <3> QED BY <1>2, <2>1, <3>4
  <2>3. q[1] > p
    BY <1>4, <2>2, PointsAreFinite
  <2>4. low \subseteq Before(P, q)
    BY <1>4, <2>3, PointsAreFinite DEF Before, Precedes
  <2>5. low = Before(P, q)
    <3>1. low \in SUBSET Before(P, q)
      BY <2>4
    <3> HIDE DEF low, q, k
    <3> QED BY <1>6, <2>1, <3>1, FS_Subset
  <2>6. \A r \in P : r[1] > p => ~Precedes(r, q)
    BY <2>5, PointsAreFinite DEF Before
  <2> QED BY <1>4, <1>5, <2>3, <2>6 DEF FirstPast
<1> QED BY <1>7, <1>8

\* Every identity has an owner, and it is a member.
THEOREM OwnerIsMember ==
    ASSUME NEW M \in Members, NEW i \in Id
    PROVE  OwnerOf(M, i) \in M /\ OwnerOf(M, i) \in Node
<1>1. Where[i] \in Nat
  BY RingAssumption
<1>2. PICK q \in Points(M) : Owner(M, Where[i]) = q[2]
  BY <1>1, OwnerIsFirstPast
<1>3. Owner(M, Where[i]) \in M
  BY <1>2, PointsAreFinite
<1> QED BY <1>3 DEF OwnerOf, Placed, Members

\* When the membership changes, an identity moves only to a node that came or
\* away from a node that went.
THEOREM RingMovesAreMinimal ==
    ASSUME NEW M \in Members, NEW L \in Members, NEW i \in Id,
           OwnerOf(M, i) \in L, OwnerOf(L, i) \in M
    PROVE  OwnerOf(M, i) = OwnerOf(L, i)
<1> DEFINE p == Where[i]
<1>1. p \in Nat
  BY RingAssumption
<1>2. PICK q \in Points(M) : FirstPast(Points(M), p, q) /\ Owner(M, p) = q[2]
  BY <1>1, OwnerIsFirstPast
<1>3. PICK r \in Points(L) : FirstPast(Points(L), p, r) /\ Owner(L, p) = r[2]
  BY <1>1, OwnerIsFirstPast
<1>4. q[2] \in L /\ r[2] \in M
  BY <1>2, <1>3 DEF OwnerOf, Placed
<1>5. q \in Points(L) /\ r \in Points(M)
  <2>1. PICK a \in M \X Replica : q = <<Place[a], a[1]>>
    BY DEF Points
  <2>2. PICK b \in L \X Replica : r = <<Place[b], b[1]>>
    BY DEF Points
  <2>3. a \in L \X Replica /\ b \in M \X Replica
    BY <1>4, <2>1, <2>2
  <2> QED BY <2>1, <2>2, <2>3 DEF Points
<1>6. ~Precedes(q, r) /\ ~Precedes(r, q)
  BY <1>2, <1>3, <1>5 DEF FirstPast
<1>7. q = r
  BY <1>5, <1>6, PrecedesIsAnOrder
<1> QED BY <1>2, <1>3, <1>7 DEF OwnerOf, Placed

-----------------------------------------------------------------------------
(******************************** The fleet ********************************)

\* Every activation is where its view places it, and so is every call on its way.
WellPlaced ==
    /\ \A n \in Node, i \in Id :
          held[n][i] # {} => OwnerOf(held[n][i], i) = n
    /\ \A c \in Call :
          call[c].at = "sent" =>
              call[c].by # {} /\ OwnerOf(call[c].by, call[c].id) = call[c].to

IInv == TypeOK /\ WellPlaced

\* The membership keeps its type, and every node stays in its own snapshot.
LEMMA MemberStep ==
    ASSUME MemberTypeOK,
           \/ \E n \in Node : Join(n) \/ Read(n) \/ Renew(n) \/ Leave(n) \/ Vanish(n)
           \/ \E gone \in SUBSET Node : Lapse(gone)
           \/ UNCHANGED memberVars
    PROVE  MemberTypeOK'
<1> USE DEF MemberTypeOK
<1>0. ASSUME NEW nodes \in SUBSET Node, Changes(nodes)
      PROVE  unsure' \in [Node -> SUBSET Node]
  BY <1>0 DEF Changes
<1>1. ASSUME NEW n \in Node, Join(n) PROVE MemberTypeOK'
  <2>1. unsure' \in [Node -> SUBSET Node]
    BY <1>0, <1>1 DEF Join
  <2> QED BY <1>1, <2>1 DEF Join
<1>2. ASSUME NEW n \in Node, Read(n) PROVE MemberTypeOK'
  <2>1. PICK wrong \in SUBSET unsure[n] :
            view' = [view EXCEPT ![n] = Snapshot(n, SymDiff(listed, wrong))]
    BY <1>2 DEF Read
  <2>2. Snapshot(n, SymDiff(listed, wrong)) \in SUBSET Node
        /\ n \in Snapshot(n, SymDiff(listed, wrong))
    BY DEF Snapshot, SymDiff
  <2>3. view' \in [Node -> SUBSET Node] /\ \A m \in Node : m \in view'[m]
    BY <2>1, <2>2
  <2> QED BY <1>2, <2>3 DEF Read
<1>3. ASSUME NEW n \in Node, Renew(n) PROVE MemberTypeOK'
  <2>1. unsure' \in [Node -> SUBSET Node]
    BY <1>0, <1>3 DEF Renew
  <2> QED BY <1>3, <2>1 DEF Renew
<1>4. ASSUME NEW n \in Node, Leave(n) PROVE MemberTypeOK'
  <2>1. unsure' \in [Node -> SUBSET Node]
    BY <1>0, <1>4 DEF Leave
  <2> QED BY <1>4, <2>1 DEF Leave
<1>5. ASSUME NEW n \in Node, Vanish(n) PROVE MemberTypeOK'
  <2>1. unsure' \in [Node -> SUBSET Node]
    BY <1>0, <1>5 DEF Vanish
  <2> QED BY <1>5, <2>1 DEF Vanish
<1>6. ASSUME NEW gone \in SUBSET Node, Lapse(gone) PROVE MemberTypeOK'
  <2>1. unsure' \in [Node -> SUBSET Node]
    BY <1>0, <1>6 DEF Lapse
  <2> QED BY <1>6, <2>1 DEF Lapse
<1>7. ASSUME UNCHANGED memberVars PROVE MemberTypeOK'
  BY <1>7 DEF memberVars
<1> QED BY <1>1, <1>2, <1>3, <1>4, <1>5, <1>6, <1>7

\* A snapshot that a node routes by is never empty, so it has an owner.
LEMMA Routable ==
    ASSUME MemberTypeOK, NEW n \in Node, NEW i \in Id
    PROVE  /\ view[n] \in Members /\ view[n] \subseteq Node /\ view[n] # {}
           /\ OwnerOf(view[n], i) \in Node
<1>1. view[n] \in Members /\ view[n] \subseteq Node /\ view[n] # {}
  BY DEF MemberTypeOK, Members
<1> QED BY <1>1, OwnerIsMember

\* The call that nobody makes is well typed.
LEMMA IdleIsACall == Idle \in Calls /\ Idle.at = "idle"
<1>1. (CHOOSE i \in Id : TRUE) \in Id
  BY FleetAssumption
<1> QED BY <1>1 DEF Idle, Calls

\* Serving a call that is well placed leaves everything well placed.
LEMMA ServeStep ==
    ASSUME IInv, NEW c \in Call, call[c].at = "sent", Up(call[c].to), call[c].to \in Node,
           Serve(c, call[c].to)
    PROVE  /\ held' \in [Node -> [Id -> SUBSET Node]]
           /\ call' \in [Call -> Calls]
           /\ WellPlaced'
<1> USE DEF IInv, TypeOK, WellPlaced
<1> DEFINE n == call[c].to
           i == call[c].id
<1>1. call[c] \in Calls /\ i \in Id /\ n \in Node
  BY DEF Calls
<1>2. call' = [call EXCEPT ![c] = [call[c] EXCEPT !.at = "serving", !.by = {}]]
  BY DEF Serve
<1>3. [call[c] EXCEPT !.at = "serving", !.by = {}] \in Calls
  BY <1>1 DEF Calls
<1>4. call' \in [Call -> Calls]
  BY <1>2, <1>3
<1>5. held[n] \in [Id -> SUBSET Node] /\ call[c].by \in SUBSET Node
  BY <1>1 DEF Calls
<1>6. held' = [held EXCEPT ![n] = [held[n] EXCEPT ![i] =
                   IF held[n][i] = {} THEN call[c].by ELSE held[n][i]]]
  BY <1>1 DEF Serve
<1>7. [held[n] EXCEPT ![i] = IF held[n][i] = {} THEN call[c].by ELSE held[n][i]]
          \in [Id -> SUBSET Node]
  BY <1>1, <1>5
<1>8. held' \in [Node -> [Id -> SUBSET Node]]
  BY <1>6, <1>7
<1>9. ASSUME NEW m \in Node, NEW j \in Id, held'[m][j] # {}
      PROVE  OwnerOf(held'[m][j], j) = m
  <2>1. CASE m = n /\ j = i
    <3>1. held'[m][j] = IF held[n][i] = {} THEN call[c].by ELSE held[n][i]
      BY <1>1, <1>5, <1>6, <2>1
    <3> QED BY <1>1, <2>1, <3>1
  <2>2. CASE ~(m = n /\ j = i)
    <3>1. held'[m][j] = held[m][j]
      BY <1>1, <1>5, <1>6, <2>2
    <3> QED BY <1>9, <3>1
  <2> QED BY <2>1, <2>2
<1>10. ASSUME NEW d \in Call, call'[d].at = "sent"
       PROVE  call'[d].by # {} /\ OwnerOf(call'[d].by, call'[d].id) = call'[d].to
  <2>1. call'[d] = call[d]
    BY <1>1, <1>2, <1>10 DEF Calls
  <2> QED BY <1>10, <2>1
<1> QED BY <1>4, <1>8, <1>9, <1>10

\* Activations and calls that end leave the others where they were.
LEMMA EndsStep ==
    ASSUME IInv,
           held' \in [Node -> [Id -> SUBSET Node]],
           \A n \in Node, i \in Id : held'[n][i] \in {held[n][i], {}},
           call' \in [Call -> Calls],
           \A c \in Call : call'[c] \in {call[c], Idle}
    PROVE  WellPlaced'
BY IdleIsACall DEF IInv, WellPlaced

\* The empty table.
LEMMA NothingIsATable == Nothing \in [Id -> SUBSET Node] /\ \A i \in Id : Nothing[i] = {}
BY DEF Nothing

\* A fleet of which no node has started satisfies the invariant.
THEOREM Initially == Init => IInv
<1> SUFFICES ASSUME Init PROVE IInv
  OBVIOUS
<1>1. MemberTypeOK
  BY DEF Init, MemberInit, MemberTypeOK
<1>2. held \in [Node -> [Id -> SUBSET Node]] /\ \A n \in Node, i \in Id : held[n][i] = {}
  BY NothingIsATable DEF Init
<1>3. call \in [Call -> Calls] /\ \A c \in Call : call[c].at = "idle"
  BY IdleIsACall DEF Init
<1> QED BY <1>1, <1>2, <1>3, FleetAssumption DEF Init, IInv, TypeOK, WellPlaced

\* Every step keeps the types and the placement.
THEOREM Stepwise == IInv /\ [Next]_vars => IInv'
<1> SUFFICES ASSUME IInv, [Next]_vars PROVE IInv'
  OBVIOUS
<1> USE DEF IInv, TypeOK
<1>1. MemberTypeOK /\ changes \in Nat /\ (Counted => changes' \in 0..MaxChanges)
  BY FleetAssumption DEF Counted
<1>2. ASSUME NEW c \in Call, NEW n \in Node, NEW i \in Id, Ask(c, n, i) PROVE IInv'
  <2> DEFINE owner == OwnerOf(view[n], i)
             asked == [at |-> "sent", to |-> owner, id |-> i, by |-> view[n]]
             served == [asked EXCEPT !.at = "serving", !.by = {}]
  <2>1. UNCHANGED <<memberVars, changes, closing>> /\ call[c] = Idle
    BY <1>2 DEF Ask
  <2>2. view[n] \subseteq Node /\ view[n] # {} /\ owner \in Node
    BY Routable
  <2>3. MemberTypeOK'
    BY <2>1, MemberStep
  <2>4. asked \in Calls /\ served \in Calls /\ served.at = "serving"
    BY <2>2 DEF Calls
  <2>5. \/ /\ owner = n
           /\ call' = [call EXCEPT ![c] = served]
           /\ held' = [held EXCEPT ![n] = [held[n] EXCEPT ![i] =
                           IF held[n][i] = {} THEN view[n] ELSE held[n][i]]]
        \/ /\ call' = [call EXCEPT ![c] = asked]
           /\ held' = held
    BY <1>2 DEF Ask
  <2>6. call' \in [Call -> Calls]
    BY <2>4, <2>5
  <2>7. \A d \in Call : call'[d].at = "sent" =>
            call'[d].by # {} /\ OwnerOf(call'[d].by, call'[d].id) = call'[d].to
    <3> TAKE d \in Call
    <3>1. CASE d = c
      <4>1. call'[c] = served \/ call'[c] = asked
        BY <2>5
      <4>2. asked.by = view[n] /\ asked.to = OwnerOf(view[n], i) /\ asked.id = i
        OBVIOUS
      <4>3. call'[c].at = "sent" => call'[c] = asked
        BY <2>4, <4>1
      <4> HIDE DEF asked
      <4> QED BY <2>2, <3>1, <4>2, <4>3
    <3>2. CASE d # c
      <4>1. call'[d] = call[d]
        BY <2>5, <3>2
      <4> QED BY <4>1 DEF WellPlaced
    <3> QED BY <3>1, <3>2
  <2>8. [held[n] EXCEPT ![i] = IF held[n][i] = {} THEN view[n] ELSE held[n][i]]
            \in [Id -> SUBSET Node]
    BY <2>2
  <2>9. held' \in [Node -> [Id -> SUBSET Node]]
    BY <2>5, <2>8
  <2>10. \A m \in Node, j \in Id : held'[m][j] # {} => OwnerOf(held'[m][j], j) = m
    <3> TAKE m \in Node, j \in Id
    <3>1. CASE held' # held /\ m = n /\ j = i
      <4>1. held'[m][j] = IF held[n][i] = {} THEN view[n] ELSE held[n][i]
        BY <2>5, <3>1
      <4> QED BY <2>5, <3>1, <4>1 DEF WellPlaced
    <3>2. CASE ~(held' # held /\ m = n /\ j = i)
      <4>1. held'[m][j] = held[m][j]
        BY <2>5, <3>2
      <4> QED BY <4>1 DEF WellPlaced
    <3> QED BY <3>1, <3>2
  <2> QED BY <2>1, <2>3, <2>6, <2>7, <2>9, <2>10 DEF WellPlaced
<1>3. ASSUME NEW c \in Call, Deliver(c) PROVE IInv'
  <2>1. /\ call[c].at = "sent" /\ Up(call[c].to) /\ Serve(c, call[c].to)
        /\ UNCHANGED <<memberVars, changes, closing>>
    BY <1>3 DEF Deliver
  <2>2. call[c].to \in Node
    <3>1. OwnerOf(call[c].by, call[c].id) = call[c].to /\ call[c].by # {}
      BY <2>1 DEF WellPlaced
    <3>2. call[c].by \in Members /\ call[c].id \in Id
      BY <3>1 DEF Calls, Members
    <3> QED BY <3>1, <3>2, OwnerIsMember
  <2>3. MemberTypeOK'
    BY <2>1, MemberStep
  <2>4. /\ held' \in [Node -> [Id -> SUBSET Node]] /\ call' \in [Call -> Calls]
        /\ WellPlaced'
    BY <2>1, <2>2, ServeStep
  <2> QED BY <2>1, <2>3, <2>4
<1>4. ASSUME NEW c \in Call, Unreachable(c) \/ Finish(c) PROVE IInv'
  <2>1. call' = [call EXCEPT ![c] = Idle] /\ UNCHANGED <<memberVars, changes, held, closing>>
    BY <1>4 DEF Unreachable, Finish
  <2>2. MemberTypeOK'
    BY <2>1, MemberStep
  <2>3. call' \in [Call -> Calls] /\ \A d \in Call : call'[d] \in {call[d], Idle}
    BY <2>1, IdleIsACall
  <2>4. WellPlaced'
    BY <2>1, <2>3, EndsStep
  <2> QED BY <2>1, <2>2, <2>3, <2>4
<1>5. ASSUME NEW n \in Node, NEW i \in Id, Collect(n, i) PROVE IInv'
  <2>1. /\ held' = [held EXCEPT ![n] = [held[n] EXCEPT ![i] = {}]]
        /\ UNCHANGED <<memberVars, changes, call, closing>>
    BY <1>5 DEF Collect
  <2>2. MemberTypeOK'
    BY <2>1, MemberStep
  <2>3. held' \in [Node -> [Id -> SUBSET Node]]
        /\ \A m \in Node, j \in Id : held'[m][j] \in {held[m][j], {}}
    BY <2>1
  <2>4. WellPlaced'
    BY <2>1, <2>3, EndsStep
  <2> QED BY <2>1, <2>2, <2>3, <2>4
<1>6. ASSUME NEW n \in Node, CloseTable(n) PROVE IInv'
  <2>1. /\ held' = [held EXCEPT ![n] = Nothing] /\ closing' = closing \union {n}
        /\ UNCHANGED <<memberVars, call>> /\ changes' \in 0..MaxChanges
    BY <1>1, <1>6 DEF CloseTable
  <2>2. MemberTypeOK'
    BY <2>1, MemberStep
  <2>3. held' \in [Node -> [Id -> SUBSET Node]]
        /\ \A m \in Node, j \in Id : held'[m][j] \in {held[m][j], {}}
    BY <2>1, NothingIsATable
  <2>4. WellPlaced'
    BY <2>1, <2>3, EndsStep
  <2> QED BY <2>1, <2>2, <2>3, <2>4
<1>7. ASSUME NEW n \in Node, Ends(n)
      PROVE  /\ held' \in [Node -> [Id -> SUBSET Node]] /\ call' \in [Call -> Calls]
             /\ closing' \subseteq Node
             /\ WellPlaced'
  <2>1. held' \in [Node -> [Id -> SUBSET Node]]
        /\ \A m \in Node, j \in Id : held'[m][j] \in {held[m][j], {}}
    BY <1>7, NothingIsATable DEF Ends
  <2>2. call' \in [Call -> Calls] /\ \A c \in Call : call'[c] \in {call[c], Idle}
    BY <1>7, IdleIsACall DEF Ends
  <2>3. closing' \subseteq Node
    BY <1>7 DEF Ends
  <2> QED BY <2>1, <2>2, <2>3, EndsStep
<1>8. ASSUME NEW n \in Node, Exit(n) PROVE IInv'
  <2>1. MemberTypeOK'
    BY <1>8, MemberStep DEF Exit
  <2> QED BY <1>7, <1>8, <2>1 DEF Exit
<1>9. ASSUME NEW n \in Node, Dies(n) PROVE IInv'
  <2>1. MemberTypeOK'
    BY <1>9, MemberStep DEF Dies
  <2>2. changes' \in 0..MaxChanges
    BY <1>1, <1>9 DEF Dies
  <2> QED BY <1>7, <1>9, <2>1, <2>2 DEF Dies
<1>10. ASSUME UNCHANGED fleetVars PROVE WellPlaced' /\ UNCHANGED <<held, call, closing>>
  BY <1>10 DEF fleetVars, WellPlaced
<1>11. ASSUME NEW n \in Node, Start(n) PROVE IInv'
  <2>1. MemberTypeOK'
    BY <1>11, MemberStep DEF Start
  <2>2. changes' \in 0..MaxChanges /\ UNCHANGED fleetVars
    BY <1>1, <1>11 DEF Start
  <2> QED BY <1>10, <2>1, <2>2
<1>12. ASSUME NEW n \in Node, LosesLease(n) PROVE IInv'
  <2>1. MemberTypeOK'
    BY <1>12, MemberStep DEF LosesLease
  <2>2. changes' \in 0..MaxChanges /\ UNCHANGED fleetVars
    BY <1>1, <1>12 DEF LosesLease
  <2> QED BY <1>10, <2>1, <2>2
<1>13. ASSUME NEW n \in Node, Reads(n) \/ Beats(n) \/ Forgotten(n) PROVE IInv'
  <2>1. MemberTypeOK'
    BY <1>13, MemberStep DEF Reads, Beats, Forgotten
  <2>2. UNCHANGED fleetVars /\ UNCHANGED changes
    BY <1>13 DEF Reads, Beats, Forgotten
  <2> QED BY <1>10, <2>1, <2>2
<1>14. ASSUME UNCHANGED vars PROVE IInv'
  <2>1. UNCHANGED memberVars /\ UNCHANGED fleetVars /\ UNCHANGED changes
    BY <1>14 DEF vars
  <2>2. MemberTypeOK'
    BY <2>1, MemberStep
  <2> QED BY <1>10, <2>1, <2>2
<1> QED BY <1>2, <1>3, <1>4, <1>5, <1>6, <1>8, <1>9, <1>11, <1>12, <1>13, <1>14 DEF Next

\* The invariant holds in every state of every fleet.
THEOREM Invariantly == Spec => []IInv
<1>1. Spec => Init /\ [][Next]_vars
  BY DEF Spec
<1> QED BY <1>1, Initially, Stepwise, PTL

\* Every variable keeps its type; in particular no node ever routes by a
\* snapshot without itself (members() of src/src/nigrains/valkey.py).
THEOREM TypeCorrect == Spec => []TypeOK
BY Invariantly, PTL DEF IInv

\* Two nodes never hold one identity on the word of the same view: forwarding
\* (Runtime._forward, deliver) makes a second activation only out of a
\* disagreement about the membership.
THEOREM OneOwnerForAView == Spec => []OneViewOneOwner
<1>1. IInv => OneViewOneOwner
  BY DEF IInv, WellPlaced, OneViewOneOwner
<1> QED BY <1>1, Invariantly, PTL

\* A change of view moves an identity only to a node that joined or away from
\* one that left (Ring.owner), for every hash, ties included.
THEOREM MovesOnlyWhatItMust == Spec => MovesAreMinimal
<1>1. IInv /\ IInv' /\ [Next]_vars =>
        [\A n \in Node : view'[n] # view[n] => \A i \in Id :
            LET old == OwnerOf(view[n], i)  new == OwnerOf(view'[n], i)
            IN  old # new => old \notin view'[n] \/ new \notin view[n]]_vars
  <2> SUFFICES ASSUME IInv, IInv', NEW n \in Node, NEW i \in Id,
                      OwnerOf(view[n], i) \in view'[n], OwnerOf(view'[n], i) \in view[n]
               PROVE  OwnerOf(view[n], i) = OwnerOf(view'[n], i)
    OBVIOUS
  <2>1. view[n] \in Members /\ view'[n] \in Members
    BY DEF IInv, TypeOK, MemberTypeOK, Members
  <2> QED BY <2>1, RingMovesAreMinimal
<1>2. Spec => [][Next]_vars
  BY DEF Spec
<1> QED BY <1>1, <1>2, Invariantly, PTL DEF MovesAreMinimal

\* The nodes of a fleet use the membership through its port and no other way: whatever they
\* ask, serve, collect or close, the membership goes through what Membership allows, so the
\* results about routing hold over any membership that implements it, leases among them.
THEOREM FleetKeepsToThePort == Spec => MemberSpec
<1>1. Init => MemberInit
  BY DEF Init
<1>2. [Next]_vars => [MemberNext]_memberVars
  <2>1. SUFFICES ASSUME Next PROVE MemberNext \/ UNCHANGED memberVars
    BY DEF vars
  <2>2. ASSUME NEW n \in Node,
               \/ Start(n) \/ Reads(n) \/ Beats(n) \/ Exit(n) \/ Dies(n)
        PROVE  MemberNext
    BY <2>2 DEF Start, Reads, Beats, Exit, Dies, MemberNext
  <2>3. ASSUME NEW n \in Node, LosesLease(n) \/ Forgotten(n) PROVE MemberNext
    BY <2>3 DEF LosesLease, Forgotten, MemberNext
  <2>4. ASSUME NEW n \in Node, CloseTable(n) \/ \E i \in Id : Collect(n, i)
        PROVE  UNCHANGED memberVars
    BY <2>4 DEF CloseTable, Collect
  <2>5. ASSUME NEW c \in Call,
               \/ Deliver(c) \/ Unreachable(c) \/ Finish(c)
               \/ \E n \in Node, i \in Id : Ask(c, n, i)
        PROVE  UNCHANGED memberVars
    BY <2>5 DEF Deliver, Unreachable, Finish, Ask
  <2> QED BY <2>1, <2>2, <2>3, <2>4, <2>5 DEF Next
<1> QED BY <1>1, <1>2, PTL DEF Spec, MemberSpec

=============================================================================
