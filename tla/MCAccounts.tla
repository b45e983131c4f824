------------------------------- MODULE MCAccounts -------------------------------
(* A small instance of Accounts: two requests at a time, two rows, two       *)
(* addresses.                                                                *)
EXTENDS Accounts

CONSTANTS u1, u2, e1, e2, r1, r2

MCUsers == {u1, u2}
MCEmails == {e1, e2}
MCRequests == {r1, r2}
=============================================================================
