---------------------------- MODULE CircuitBreaker ----------------------------
(***************************************************************************)
(* The gateway's CircuitBreakerService and the calls of                    *)
(* QueryMindClient.executeWithResilience that consult it.                  *)
(*                                                                         *)
(* Node runs one callback at a time, so canExecute, recordSuccess and      *)
(* recordFailure are atomic; between the canExecute of a call and its      *)
(* record there is an await on the HTTP request, and other calls run.  The *)
(* breaker is shared: an answer is recorded whatever the breaker's state   *)
(* has become since the call was admitted.                                 *)
(*                                                                         *)
(* The clock is kept as the time since the last failure, up to             *)
(* ResetTimeout, and the failure count up to Threshold: the code only      *)
(* compares the two with these bounds, so nothing is lost.                 *)
(***************************************************************************)
EXTENDS Integers, FiniteSets

CONSTANTS
    Calls,          \* slots for concurrent calls; a slot is used again and again
    Threshold,      \* proxy.circuitBreakerThreshold (5)
    ResetTimeout    \* proxy.circuitBreakerResetTimeout (60 s), in clock ticks

ASSUME ThresholdAssumption == Threshold \in Nat \ {0}
ASSUME ResetTimeoutAssumption == ResetTimeout \in Nat \ {0}

VARIABLES
    state,          \* CircuitState of the service
    failureCount,   \* failures since the last success, up to Threshold
    sinceFailure,   \* Date.now() - lastFailureTime, up to ResetTimeout; Never for null
    call            \* phase of each call

breaker == <<state, failureCount, sinceFailure, call>>

Never == -1
CircuitState == {"CLOSED", "OPEN", "HALF_OPEN"}
InFlight == {"sent", "probing"}
Returning == {"answered", "failed", "rejected"}

(* Types: the breaker's count and clock stay within their bounds, and a    *)
(* call is idle, in flight or settled.                                     *)
BreakerTypeOK ==
    /\ state \in CircuitState
    /\ failureCount \in 0 .. Threshold
    /\ sinceFailure \in Never .. ResetTimeout
    /\ call \in [Calls -> {"idle"} \cup InFlight \cup Returning]

-----------------------------------------------------------------------------
(* canExecute *)
ResetElapsed == sinceFailure = ResetTimeout

CanExecuteWithoutPause == state # "OPEN" \/ sinceFailure # Never   \* mutant

CanExecute == state # "OPEN" \/ ResetElapsed

(* Mutants of recordSuccess: the count goes down by one instead of to 0;   *)
(* the count is not reset; only a test request closes the breaker.         *)
RecordSuccessStepDown ==
    /\ state' = "CLOSED"
    /\ failureCount' = failureCount - 1
    /\ sinceFailure' = Never

RecordSuccessKeepsCount ==
    /\ state' = "CLOSED"
    /\ sinceFailure' = Never
    /\ UNCHANGED failureCount

RecordSuccessOnlyHalfOpen ==
    /\ state' = IF state = "HALF_OPEN" THEN "CLOSED" ELSE state
    /\ failureCount' = 0
    /\ sinceFailure' = Never

(* recordSuccess *)
RecordSuccess ==
    /\ state' = "CLOSED"
    /\ failureCount' = 0
    /\ sinceFailure' = Never

(* recordFailure *)
Incremented(n) == IF n < Threshold THEN n + 1 ELSE Threshold

(* Mutant: > instead of >= in the comparison with the threshold. *)
RecordFailureOffByOne ==
    /\ failureCount' = Incremented(failureCount)
    /\ sinceFailure' = 0
    /\ state' = IF state = "HALF_OPEN" \/ failureCount' > Threshold
                THEN "OPEN" ELSE state

RecordFailure ==
    /\ failureCount' = Incremented(failureCount)
    /\ sinceFailure' = 0
    /\ state' = IF state = "HALF_OPEN" \/ failureCount' >= Threshold
                THEN "OPEN" ELSE state

-----------------------------------------------------------------------------
BreakerInit ==
    /\ state = "CLOSED"
    /\ failureCount = 0
    /\ sinceFailure = Never
    /\ call = [c \in Calls |-> "idle"]

(* The head of executeWithResilience, up to the await: the request leaves. *)
(* A call admitted while the breaker is not CLOSED is told apart as        *)
(* "probing"; the code itself does not remember it.                        *)
Admit(c) ==
    /\ call[c] = "idle"
    /\ CanExecute
    /\ state' = IF state = "OPEN" THEN "HALF_OPEN" ELSE state
    /\ call' = [call EXCEPT ![c] = IF state = "CLOSED" THEN "sent" ELSE "probing"]
    /\ UNCHANGED <<failureCount, sinceFailure>>

(* canExecute returns false: 503 at once, nothing is sent. *)
Reject(c) ==
    /\ call[c] = "idle"
    /\ ~CanExecute
    /\ call' = [call EXCEPT ![c] = "rejected"]
    /\ UNCHANGED <<state, failureCount, sinceFailure>>

(* The request resolves with a 2xx answer. *)
Succeed(c) ==
    /\ call[c] \in InFlight
    /\ call' = [call EXCEPT ![c] = "answered"]
    /\ RecordSuccess

(* The request rejects: connection error, timeout, 5xx, and 4xx as well. *)
Fail(c) ==
    /\ call[c] \in InFlight
    /\ call' = [call EXCEPT ![c] = "failed"]
    /\ RecordFailure

(* The call returns or throws to the controller; the slot is free again. *)
Return(c) ==
    /\ call[c] \in Returning
    /\ call' = [call EXCEPT ![c] = "idle"]
    /\ UNCHANGED <<state, failureCount, sinceFailure>>

(* Time passes while a failure is remembered. *)
Tick ==
    /\ sinceFailure \in 0 .. ResetTimeout - 1
    /\ sinceFailure' = sinceFailure + 1
    /\ UNCHANGED <<state, failureCount, call>>

CallStep(c) == Admit(c) \/ Reject(c) \/ Succeed(c) \/ Fail(c) \/ Return(c)

BreakerNext == Tick \/ \E c \in Calls : CallStep(c)

BreakerSpec == BreakerInit /\ [][BreakerNext]_breaker

(* Time passes; axios gives up on a request after its timeout, so a request *)
(* in flight resolves or rejects; and a settled call returns.               *)
BreakerFairness ==
    /\ WF_breaker(Tick)
    /\ \A c \in Calls : WF_breaker(Succeed(c) \/ Fail(c)) /\ WF_breaker(Return(c))

FairBreakerSpec == BreakerSpec /\ BreakerFairness

-----------------------------------------------------------------------------
(* The three fields of the service agree whatever the order in which       *)
(* answers come back: the breaker is CLOSED exactly while fewer than       *)
(* Threshold failures have been counted, lastFailureTime is null exactly   *)
(* when none has, and in HALF_OPEN the pause has elapsed since the last    *)
(* failure.  (Hence "state === HALF_OPEN ||" in recordFailure never        *)
(* decides.)                                                               *)
Consistent ==
    /\ state = "CLOSED" <=> failureCount < Threshold
    /\ sinceFailure = Never <=> failureCount = 0
    /\ state = "HALF_OPEN" => ResetElapsed

(* Fail fast: from the Threshold-th failure in a row until ResetTimeout    *)
(* after the latest failure, a new call is rejected without a request,     *)
(* whatever late answers of earlier calls do to the state in between.      *)
FailFast ==
    [][\A c \in Calls :
          (call[c] = "idle" /\ call'[c] # "idle"
             /\ failureCount >= Threshold /\ sinceFailure < ResetTimeout)
          => call'[c] = "rejected"]_breaker

(* The contract's view of the breaker: a call in flight is a call in       *)
(* flight, and HALF_OPEN is a trial.                                       *)
Contract == INSTANCE BreakerContract WITH
    fails <- failureCount,
    age <- sinceFailure,
    trial <- (state = "HALF_OPEN"),
    phase <- [c \in Calls |-> IF call[c] = "probing" THEN "sent" ELSE call[c]]

(* No false alarm: the breaker rejects a call only if the last Threshold   *)
(* answers were failures, and after rejecting it admits a call again only  *)
(* by the contract's rules.                                                *)
ImplementsContract == Contract!Spec

Arrival == \E c \in Calls : Admit(c) \/ Reject(c)
Failure == \E c \in Calls : Fail(c)

(* Recovery: if calls keep arriving and from some time on no request fails,*)
(* the breaker ends up CLOSED and stays so; it cannot reject for ever.     *)
Recovery ==
    ([]<><<Arrival>>_breaker /\ <>[][~Failure]_breaker) => <>[](state = "CLOSED")

-----------------------------------------------------------------------------
(* What the comments say of HALF_OPEN ("Testing one request", "allow one   *)
(* test request through"): at most one test request is in flight.          *)
OneTestRequest == Cardinality({c \in Calls : call[c] = "probing"}) <= 1
=============================================================================
