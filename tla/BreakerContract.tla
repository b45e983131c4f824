--------------------------- MODULE BreakerContract ---------------------------
(***************************************************************************)
(* What the gateway's circuit breaker promises to the callers of           *)
(* QueryMindClient, without its three named states: a request is forwarded *)
(* unless Threshold answers in a row were failures and the last of them is *)
(* younger than ResetTimeout.  A forwarded request after that pause opens  *)
(* a trial period, which the next answer ends.  CircuitBreaker implements  *)
(* this contract.                                                          *)
(***************************************************************************)
EXTENDS Integers

CONSTANTS
    Calls,         \* slots for concurrent calls of QueryMindClient
    Threshold,     \* proxy.circuitBreakerThreshold
    ResetTimeout   \* proxy.circuitBreakerResetTimeout, in clock ticks

VARIABLES
    fails,   \* failed answers since the last successful one, up to Threshold
    age,     \* ticks since the last failure, up to ResetTimeout; Never if none
    trial,   \* whether requests are forwarded on trial
    phase    \* phase of each call: idle, sent, answered, failed, rejected

vars == <<fails, age, trial, phase>>

Never == -1

Forwards == fails < Threshold \/ trial \/ age = ResetTimeout

Init ==
    /\ fails = 0
    /\ age = Never
    /\ trial = FALSE
    /\ phase = [c \in Calls |-> "idle"]

Forward(c) ==
    /\ phase[c] = "idle"
    /\ Forwards
    /\ phase' = [phase EXCEPT ![c] = "sent"]
    /\ trial' = (fails >= Threshold)
    /\ UNCHANGED <<fails, age>>

Refuse(c) ==
    /\ phase[c] = "idle"
    /\ ~Forwards
    /\ phase' = [phase EXCEPT ![c] = "rejected"]
    /\ UNCHANGED <<fails, age, trial>>

Answer(c) ==
    /\ phase[c] = "sent"
    /\ phase' = [phase EXCEPT ![c] = "answered"]
    /\ fails' = 0
    /\ age' = Never
    /\ trial' = FALSE

Miss(c) ==
    /\ phase[c] = "sent"
    /\ phase' = [phase EXCEPT ![c] = "failed"]
    /\ fails' = IF fails < Threshold THEN fails + 1 ELSE Threshold
    /\ age' = 0
    /\ trial' = FALSE

Finish(c) ==
    /\ phase[c] \in {"answered", "failed", "rejected"}
    /\ phase' = [phase EXCEPT ![c] = "idle"]
    /\ UNCHANGED <<fails, age, trial>>

Tick ==
    /\ age \in 0 .. ResetTimeout - 1
    /\ age' = age + 1
    /\ UNCHANGED <<fails, trial, phase>>

Next ==
    \/ Tick
    \/ \E c \in Calls : Forward(c) \/ Refuse(c) \/ Answer(c) \/ Miss(c) \/ Finish(c)

Spec == Init /\ [][Next]_vars
=============================================================================
