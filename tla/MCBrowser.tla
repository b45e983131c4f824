------------------------------- MODULE MCBrowser -------------------------------
(* Small instances of the three parts of the browser: sign-in with two     *)
(* accounts and three forms on their way; the query page with two          *)
(* connections, two openings and two requests under way, and results of up *)
(* to four pages; the dashboard with two connections, two urls and a save. *)
(*                                                                         *)
(* The parts have no variable in common, and no property is about two of   *)
(* them: what holds of the behaviours in which one part moves holds of all *)
(* their interleavings.  So a behaviour picks its part, and the others     *)
(* stay as they begin, with nothing under way that fairness would ask for. *)
EXTENDS SignIn, QueryPage, Dashboard

CONSTANTS a1, a2, f1, f2, f3, c1, c2, o1, o2, r1, r2, d1, d2, u1, u2, s1

MCAccounts == {a1, a2}
MCForms == {f1, f2, f3}
MCConnections == {c1, c2}
MCOpenings == {o1, o2}
MCRequests == {r1, r2}
MCUserConnections == {d1, d2}
MCUrls == {u1, u2}
MCSaves == {s1}

VARIABLE part   \* the part that moves

vars == <<part, signInVars, queryPageVars, dashboardVars>>

Init ==
    /\ part \in {"signin", "querypage", "dashboard"}
    /\ SignInInit /\ QueryPageInit /\ DashboardInit
    /\ part # "dashboard" => live = {}   \* not looked at

Next ==
    \/ part = "signin" /\ SignInNext /\ UNCHANGED <<part, queryPageVars, dashboardVars>>
    \/ part = "querypage" /\ QueryPageNext /\ UNCHANGED <<part, signInVars, dashboardVars>>
    \/ part = "dashboard" /\ DashboardNext /\ UNCHANGED <<part, signInVars, queryPageVars>>

Spec == Init /\ [][Next]_vars

FairSpec == Spec /\ SignInFairness /\ QueryPageFairness
=============================================================================
