-------------------------------- MODULE MCRemote --------------------------------
(***************************************************************************)
(* Model checking of Operator, with all users on the remote side, at any   *)
(* time.  Either they start with nothing, work on contents and rename      *)
(* files, or they start with two folders, one in the other, and swap them  *)
(* around.                                                                 *)
(***************************************************************************)
EXTENDS MCOperator

VARIABLE swapping  \* whether users only rename and move, folders as well

rvars == <<vars, swapping>>

FoldersStay ==
    \A id \in DOMAIN remote : remote[id].type = "folder" =>
        remote'[id].name = remote[id].name /\ remote'[id].parent = remote[id].parent

RemoteInit == Init /\ swapping = (DOMAIN remote # {})

RemoteUsers ==
    IF swapping THEN ReorderingStep ELSE UserActs /\ DiskUnchanged /\ FoldersStay

RemoteNext == (OperatorStep \/ RemoteUsers) /\ UNCHANGED swapping

RemoteSpec == RemoteInit /\ [][RemoteNext]_rvars

(* Whenever the operator is idle and nothing is queued the folder equals   *)
(* the space, whatever remote users did meanwhile and whatever calls       *)
(* failed, unless a change was taken for an echo (operator.rs and the      *)
(* executors of disk/).                                                    *)
DownstreamConverged == ~swapping => Converged

===============================================================================
