------------------------------- MODULE SpaceRun -------------------------------
(***************************************************************************)
(* The run of a space as the daemon and the user see it, whatever happens  *)
(* inside (module Lifecycle implements it, module Manager relies on it):   *)
(* it works, it waits for the user, it is over for good. The daemon may    *)
(* raise its stop signal once; a run that ends on it takes it back.        *)
(***************************************************************************)
VARIABLES at,     \* "busy", "asking" or "over"
          stop    \* the stop signal: "unset", "set", "cleared"

vars == <<at, stop>>

Init == at = "busy" /\ stop = "unset"

Signal == stop = "unset" /\ at # "over" /\ stop' = "set" /\ UNCHANGED at

Ask    == at = "busy" /\ at' = "asking" /\ UNCHANGED stop
Resume == at = "asking" /\ at' = "busy" /\ UNCHANGED stop

End ==
    /\ at = "busy"
    /\ at' = "over"
    /\ stop' \in {stop} \cup (IF stop = "set" THEN {"cleared"} ELSE {})

Next == Signal \/ Ask \/ Resume \/ End

(* A run that is asked to stop does so, unless it waits for the user for   *)
(* ever.                                                                   *)
Fairness == SF_vars(stop = "set" /\ End)

SafeSpec == Init /\ [][Next]_vars
Spec     == SafeSpec /\ Fairness

===============================================================================
