--------------------------------- MODULE Ring ---------------------------------
(***************************************************************************)
(* Placement: the consistent hash of src/src/nigrains/cluster.py.  Every   *)
(* node occupies some points of the ring and an identity belongs to the    *)
(* node of the first point past its own position.  The hash itself is a    *)
(* parameter: nothing here depends on where it puts anything, ties between *)
(* nodes included.                                                         *)
(***************************************************************************)
EXTENDS Nodes

CONSTANTS
    Replica,         \* range(replicas): the points of one node
    Place,           \* _position of the point of a node: [Node \X Replica -> Nat]
    Id,              \* identities, already routed through any pool
    Where            \* _position of an identity: [Id -> Nat]

ASSUME RingAssumption ==
    /\ IsFiniteSet(Replica) /\ Replica # {}
    /\ Place \in [Node \X Replica -> Nat]
    /\ Where \in [Id -> Nat]

Members == (SUBSET Node) \ {{}}

\* What Ring.__init__ sorts.  A node with two points at one position has one
\* here, which moves no owner: the list reads the same node at both places.
Points(members) == {<<Place[p], p[1]>> : p \in members \X Replica}

\* The order of sorted() on pairs: by position, then by name.
Precedes(q, r) == q[1] < r[1] \/ (q[1] = r[1] /\ q[2] < r[2])

Before(points, q) == {r \in points : Precedes(r, q)}

\* Entry k of the sorted list.
Nth(points, k) == CHOOSE q \in points : Cardinality(Before(points, q)) = k

\* bisect(): how many entries are at the position or before it.
Bisect(points, p) == Cardinality({q \in points : q[1] <= p})

\* Fault: an identity is spread by the remainder of its position, as a plain
\* hash table would.
OwnerByRemainder(members, p) ==
    CHOOSE n \in members :
        Cardinality({m \in members : m < n}) = p % Cardinality(members)

\* Ring.owner: the modulo is the wrap past the last point.
Owner(members, p) ==
    LET points == Points(members)
    IN  Nth(points, Bisect(points, p) % Cardinality(points))[2]

\* The ring that Cluster keeps for as long as it sees these members.
Placed == [members \in Members |-> [id \in Id |-> Owner(members, Where[id])]]

\* Cluster.owner_of for a node that sees these members.
OwnerOf(members, id) == Placed[members][id]

=============================================================================
