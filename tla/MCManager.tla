------------------------------ MODULE MCManager ------------------------------
(* Two servers with one workspace each. The file is as the window has left *)
(* it, or by hand: two instances of one server.                            *)
EXTENDS Manager
CONSTANTS a, b, w

Server(name, address) == [name |-> name, address |-> address, selected |-> {w}]
OneOrTwice == {<<Server(a, a)>>, <<Server(a, b), Server(b, b)>>}
===============================================================================
