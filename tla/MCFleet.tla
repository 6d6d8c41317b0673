-------------------------------- MODULE MCFleet --------------------------------
(***************************************************************************)
(* The instance of Fleet: three nodes of two points each on a ring of      *)
(* eight positions, two of them taken twice, and an identity exactly on a  *)
(* shared point.                                                           *)
(***************************************************************************)
EXTENDS Fleet, TLC

Spots == <<1, 4,  4, 6,  6, 2>>

RingPlace == [p \in Node \X Replica |-> Spots[2 * (p[1] - 1) + p[2] + 1]]
IdWhere == "k" :> 4

=============================================================================
