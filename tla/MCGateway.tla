-------------------------------- MODULE MCGateway --------------------------------
(* A small instance of Gateway: two requests at a time, on one route of each    *)
(* kind: with a body the service takes, with a body the DTO refuses, and one    *)
(* the service refuses.                                                        *)
EXTENDS Gateway

CONSTANTS c1, c2

MCCalls == {c1, c2}
MCRoutes == {"ask", "add", "remove"}
=============================================================================
