------------------------------ MODULE MCOperator ------------------------------
(***************************************************************************)
(* Model checking of Operator: the ways of working the runs tell apart.    *)
(* In all of them the operator itself is unrestricted.                     *)
(***************************************************************************)
EXTENDS Operator

(* The users wait for trsync, and for each other. *)
CalmSpec == Init /\ [][OperatorStep \/ (Quiet /\ UserActs)]_vars

(* All users work in the folder, at any time. *)
UpstreamSpec == Init /\ [][OperatorStep \/ (UserActs /\ RemoteUnchanged)]_vars

(* Remote users only rename and move, at any time. *)
ReorderingStep == (UserLabelsRemote \/ UserMovesRemote) /\ UserActs
ReorderingSpec == Init /\ [][OperatorStep \/ ReorderingStep]_vars

===============================================================================
