---------------------------- MODULE MCQueryHistory ----------------------------
(* A small instance of QueryHistory: two requests, both queries that       *)
(* compete for the prefetch window, or one the opening of a session.       *)
EXTENDS QueryHistory

CONSTANTS ask1, ask2, con1

MCAsks == {ask1, ask2}
MCConnects == {con1}
=============================================================================
