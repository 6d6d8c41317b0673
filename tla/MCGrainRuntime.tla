---------------------------- MODULE MCGrainRuntime ----------------------------
(* Small instances of GrainRuntime for TLC: the names of callers, identities and  *)
(* records, which each configuration puts into the sets it wants.                 *)
EXTENDS GrainRuntime, TLC

CONSTANTS c1, c2, c3, g1, g2, g3, a1, a2, a3, a4

\* Callers are alike, and so are records.  Identities are not: some are reentrant, timed.
Symmetry == Permutations(Caller) \union Permutations(Activation)
=============================================================================
