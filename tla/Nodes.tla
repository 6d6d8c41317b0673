--------------------------------- MODULE Nodes ---------------------------------
(***************************************************************************)
(* The nodes of a fleet: what placement, membership and reminders share.   *)
(***************************************************************************)
EXTENDS Integers, FiniteSets

CONSTANT Node        \* node identifiers, as the ranks of their names

ASSUME NodeAssumption == IsFiniteSet(Node) /\ Node \subseteq Nat

=============================================================================
