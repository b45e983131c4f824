-------------------------- MODULE MCConnectionCatalog --------------------------
(* A small instance of ConnectionCatalog: three requests at a time, two     *)
(* connections.                                                             *)
EXTENDS ConnectionCatalog

CONSTANTS a, b, w1, w2, w3

MCConnections == {a, b}
MCTasks == {w1, w2, w3}
=============================================================================
