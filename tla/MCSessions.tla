------------------------------- MODULE MCSessions -------------------------------
(* A small instance of Sessions: two requests at a time, two sessions.      *)
EXTENDS Sessions

CONSTANTS c1, s1, s2, w1, w2

MCConnections == {c1}
MCSessionIds == {s1, s2}
MCTasks == {w1, w2}
=============================================================================
