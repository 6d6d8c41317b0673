------------------------------ MODULE MCReminders ------------------------------
(***************************************************************************)
(* The instances of Reminders: two nodes on a ring of four points, a       *)
(* reminder that is always periodic and one that may also be a one-shot;   *)
(* both belong to one node while both nodes are members.                   *)
(***************************************************************************)
EXTENDS Reminders, TLC

RingPlace == [p \in Node \X Replica |-> 2 * p[2] + p[1]]
IdWhere == "job" :> 1 @@ "alarm" :> 5
IdKind == "job" :> {"every"} @@ "alarm" :> {"every", "once"}

=============================================================================
