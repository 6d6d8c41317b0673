-------------------------- MODULE MCStateInMemory --------------------------
(***************************************************************************)
(* The instances of StateInMemory.                                         *)
(***************************************************************************)
EXTENDS StateInMemory, TLC

CONSTANTS h1, h2, i1, i2, i3, o1, o2, o3, o4

Symmetry == Permutations(Handle) \union Permutations(Item) \union Permutations(Object)

=============================================================================
