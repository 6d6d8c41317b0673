---------------------------- MODULE MCGrainState ----------------------------
(***************************************************************************)
(* The instances of GrainState.                                            *)
(***************************************************************************)
EXTENDS GrainState

CONSTANTS c1, c2, h1, h2, i1, i2

=============================================================================
