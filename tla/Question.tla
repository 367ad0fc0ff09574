------------------------------- MODULE Question -------------------------------
(***************************************************************************)
(* What a run and its windows promise each other about a question: it is   *)
(* asked, the user answers it once, the run takes that answer before it    *)
(* asks again. Abstract: module Lifecycle implements it twice, for the     *)
(* confirmation of a startup synchronization (core/src/sync.rs) and for    *)
(* the decision after an error (core/src/error.rs).                        *)
(***************************************************************************)
CONSTANTS Answers     \* what the user may answer
VARIABLE  exchange    \* "none", "asked" or the answer not yet taken

Init == exchange = "none"

Ask    == exchange = "none" /\ exchange' = "asked"
Answer == exchange = "asked" /\ exchange' \in Answers
Take   == exchange \in Answers /\ exchange' = "none"

Next == Ask \/ Answer \/ Take

(* A question stays within sight of the user until it is answered, and an  *)
(* answer reaches the run.                                                 *)
Fairness == WF_exchange(Answer) /\ WF_exchange(Take)

SafeSpec == Init /\ [][Next]_exchange
Spec     == SafeSpec /\ Fairness

===============================================================================
