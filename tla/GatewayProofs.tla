----------------------------- MODULE GatewayProofs -----------------------------
(***************************************************************************)
(* Theorems about CircuitBreaker and Gateway for every set of calls and    *)
(* routes, threshold and reset timeout.                                    *)
(*                                                                         *)
(* The breaker alone: its types, the agreement of its fields, fail-fast,   *)
(* and that it implements BreakerContract.  The gateway around it: its     *)
(* types, what it keeps of the breaker and of its contract although        *)
(* processes end and start, that a sound request is served unless there is *)
(* trouble, and that each step brings a request nearer to its end.         *)
(***************************************************************************)
EXTENDS Gateway, TLAPS

USE DEF Never

(* The types of the breaker are inductive.                                 *)
LEMMA BreakerTypeStep ==
    BreakerTypeOK /\ [BreakerNext]_breaker => BreakerTypeOK'
<1> USE ThresholdAssumption, ResetTimeoutAssumption
<1> SUFFICES ASSUME BreakerTypeOK, [BreakerNext]_breaker PROVE BreakerTypeOK'
  OBVIOUS
<1> USE DEF BreakerTypeOK, CircuitState, InFlight, Returning
<1>1. CASE Tick
  BY <1>1 DEF Tick
<1>2. ASSUME NEW c \in Calls, Admit(c) PROVE BreakerTypeOK'
  BY <1>2 DEF Admit
<1>3. ASSUME NEW c \in Calls, Reject(c) PROVE BreakerTypeOK'
  BY <1>3 DEF Reject
<1>4. ASSUME NEW c \in Calls, Succeed(c) PROVE BreakerTypeOK'
  BY <1>4 DEF Succeed, RecordSuccess
<1>5. ASSUME NEW c \in Calls, Fail(c) PROVE BreakerTypeOK'
  BY <1>5 DEF Fail, RecordFailure, Incremented
<1>6. ASSUME NEW c \in Calls, Return(c) PROVE BreakerTypeOK'
  BY <1>6 DEF Return
<1>7. CASE UNCHANGED breaker
  BY <1>7 DEF breaker
<1> QED BY <1>1, <1>2, <1>3, <1>4, <1>5, <1>6, <1>7 DEF BreakerNext, CallStep

(* A breaker at rest has its types, and its fields agree.                  *)
LEMMA AtRest ==
    ASSUME state = "CLOSED", failureCount = 0, sinceFailure = Never,
           call \in [Calls -> {"idle"} \cup InFlight \cup Returning]
    PROVE  BreakerTypeOK /\ Consistent
BY ThresholdAssumption, ResetTimeoutAssumption
   DEF BreakerTypeOK, Consistent, CircuitState

(* The fields of the breaker and the phases of the calls have their types  *)
(* in every reachable state.                                               *)
THEOREM BreakerTypeCorrect == BreakerSpec => []BreakerTypeOK
<1>1. BreakerInit => BreakerTypeOK
  BY AtRest DEF BreakerInit
<1> QED BY <1>1, BreakerTypeStep, PTL DEF BreakerSpec

(* Consistent is inductive relative to the types: each record* sets the    *)
(* three fields together, and canExecute leaves OPEN only after the pause. *)
LEMMA ConsistentStep ==
    BreakerTypeOK /\ Consistent /\ [BreakerNext]_breaker => Consistent'
<1> USE ThresholdAssumption, ResetTimeoutAssumption
<1> SUFFICES ASSUME BreakerTypeOK, Consistent, [BreakerNext]_breaker PROVE Consistent'
  OBVIOUS
<1> USE DEF BreakerTypeOK, Consistent, ResetElapsed, CircuitState
<1>1. CASE Tick
  BY <1>1 DEF Tick
<1>2. ASSUME NEW c \in Calls, Admit(c) PROVE Consistent'
  BY <1>2 DEF Admit, CanExecute
<1>3. ASSUME NEW c \in Calls, Reject(c) PROVE Consistent'
  BY <1>3 DEF Reject
<1>4. ASSUME NEW c \in Calls, Succeed(c) PROVE Consistent'
  BY <1>4 DEF Succeed, RecordSuccess
<1>5. ASSUME NEW c \in Calls, Fail(c) PROVE Consistent'
  BY <1>5 DEF Fail, RecordFailure, Incremented
<1>6. ASSUME NEW c \in Calls, Return(c) PROVE Consistent'
  BY <1>6 DEF Return
<1>7. CASE UNCHANGED breaker
  BY <1>7 DEF breaker
<1> QED BY <1>1, <1>2, <1>3, <1>4, <1>5, <1>6, <1>7 DEF BreakerNext, CallStep

(* Whatever the order of answers, the breaker is CLOSED exactly while      *)
(* fewer than Threshold failures are counted, and lastFailureTime is null  *)
(* exactly when none is.                                                   *)
THEOREM FieldsAgree == BreakerSpec => []Consistent
<1>1. BreakerInit => Consistent
  BY AtRest DEF BreakerInit
<1> QED BY <1>1, BreakerTypeCorrect, ConsistentStep, PTL DEF BreakerSpec

(* No call leaves idle for another phase than rejected from the            *)
(* Threshold-th failure in a row until the pause has elapsed.              *)
QuietStep ==
    \A c \in Calls :
        (call[c] = "idle" /\ call'[c] # "idle"
           /\ failureCount >= Threshold /\ sinceFailure < ResetTimeout)
        => call'[c] = "rejected"

(* The breaker is then OPEN, and canExecute refuses.                       *)
LEMMA BreakerIsQuiet ==
    BreakerTypeOK /\ Consistent /\ [BreakerNext]_breaker => QuietStep
<1> USE ThresholdAssumption, ResetTimeoutAssumption
<1> SUFFICES ASSUME BreakerTypeOK, Consistent, [BreakerNext]_breaker,
                    NEW c \in Calls,
                    call[c] = "idle", call'[c] # "idle",
                    failureCount >= Threshold, sinceFailure < ResetTimeout
             PROVE  call'[c] = "rejected"
  BY DEF QuietStep
<1> USE DEF BreakerTypeOK, Consistent
<1>1. state = "OPEN" /\ ~CanExecute
  BY DEF CanExecute, ResetElapsed, CircuitState
<1>2. CASE Tick
  BY <1>2 DEF Tick
<1>3. ASSUME NEW d \in Calls, Admit(d) PROVE FALSE
  BY <1>1, <1>3 DEF Admit
<1>4. ASSUME NEW d \in Calls, Reject(d) PROVE call'[c] = "rejected"
  BY <1>4 DEF Reject
<1>5. ASSUME NEW d \in Calls, Succeed(d) PROVE call'[c] = "idle"
  BY <1>5 DEF Succeed, InFlight
<1>6. ASSUME NEW d \in Calls, Fail(d) PROVE call'[c] = "idle"
  BY <1>6 DEF Fail, InFlight
<1>7. ASSUME NEW d \in Calls, Return(d) PROVE call'[c] = "idle"
  BY <1>7 DEF Return
<1>8. CASE UNCHANGED breaker
  BY <1>8 DEF breaker
<1> QED BY <1>2, <1>3, <1>4, <1>5, <1>6, <1>7, <1>8 DEF BreakerNext, CallStep

(* From the Threshold-th failure in a row until the pause has elapsed no   *)
(* new call sends a request.                                               *)
THEOREM FailsFast == BreakerSpec => FailFast
<1>1. BreakerSpec => [][QuietStep]_breaker
  BY BreakerIsQuiet, BreakerTypeCorrect, FieldsAgree, PTL DEF BreakerSpec
<1> QED BY <1>1 DEF FailFast, QuietStep

(* Every step of the breaker is a step of its contract, with the states    *)
(* mapped to the count of failures and the time of the last.               *)
LEMMA ContractStep ==
    BreakerTypeOK /\ Consistent /\ [BreakerNext]_breaker => [Contract!Next]_Contract!vars
<1> USE ThresholdAssumption, ResetTimeoutAssumption
<1> DEFINE Phase == [c \in Calls |-> IF call[c] = "probing" THEN "sent" ELSE call[c]]
<1> USE DEF Contract!Never
<1> SUFFICES ASSUME BreakerTypeOK, Consistent, [BreakerNext]_breaker
             PROVE  [Contract!Next]_Contract!vars
  OBVIOUS
<1> USE DEF BreakerTypeOK, Consistent, CircuitState, ResetElapsed
<1>0. Phase \in [Calls -> {"idle", "sent"} \cup Returning]
  BY DEF InFlight, Returning
<1>1. CASE Tick
  <2>1. Contract!Tick
    BY <1>1 DEF Tick, Contract!Tick
  <2> QED BY <2>1 DEF Contract!Next
<1>2. ASSUME NEW c \in Calls, Admit(c) PROVE Contract!Forward(c)
  <2>1. Phase' = [Phase EXCEPT ![c] = "sent"]
    BY <1>2 DEF Admit
  <2>2. Phase[c] = "idle" /\ Contract!Forwards
    BY <1>2 DEF Admit, CanExecute, Contract!Forwards
  <2>3. (state' = "HALF_OPEN") <=> failureCount >= Threshold
    BY <1>2 DEF Admit
  <2> QED BY <1>2, <2>1, <2>2, <2>3 DEF Admit, Contract!Forward
<1>3. ASSUME NEW c \in Calls, Reject(c) PROVE Contract!Refuse(c)
  <2>1. Phase' = [Phase EXCEPT ![c] = "rejected"]
    BY <1>3 DEF Reject
  <2>2. Phase[c] = "idle" /\ ~Contract!Forwards
    BY <1>3 DEF Reject, CanExecute, Contract!Forwards
  <2> QED BY <1>3, <2>1, <2>2 DEF Reject, Contract!Refuse
<1>4. ASSUME NEW c \in Calls, Succeed(c) PROVE Contract!Answer(c)
  <2>1. Phase' = [Phase EXCEPT ![c] = "answered"]
    BY <1>4 DEF Succeed
  <2>2. Phase[c] = "sent"
    BY <1>4 DEF Succeed, InFlight
  <2> QED BY <1>4, <2>1, <2>2 DEF Succeed, RecordSuccess, Contract!Answer
<1>5. ASSUME NEW c \in Calls, Fail(c) PROVE Contract!Miss(c)
  <2>1. Phase' = [Phase EXCEPT ![c] = "failed"]
    BY <1>5 DEF Fail
  <2>2. Phase[c] = "sent"
    BY <1>5 DEF Fail, InFlight
  <2>3. state' # "HALF_OPEN"
    BY <1>5 DEF Fail, RecordFailure
  <2> QED BY <1>5, <2>1, <2>2, <2>3
          DEF Fail, RecordFailure, Incremented, Contract!Miss
<1>6. ASSUME NEW c \in Calls, Return(c) PROVE Contract!Finish(c)
  <2>1. Phase' = [Phase EXCEPT ![c] = "idle"]
    BY <1>6 DEF Return
  <2>2. Phase[c] \in {"answered", "failed", "rejected"}
    BY <1>6 DEF Return, Returning
  <2> QED BY <1>6, <2>1, <2>2 DEF Return, Contract!Finish
<1>7. CASE UNCHANGED breaker
  BY <1>7 DEF breaker, Contract!vars
<1> QED BY <1>1, <1>2, <1>3, <1>4, <1>5, <1>6, <1>7
        DEF BreakerNext, CallStep, Contract!Next

(* The breaker implements its contract: the names of the three states add  *)
(* nothing to counting failures and timing the last one.                   *)
THEOREM BreakerImplementsContract == BreakerSpec => ImplementsContract
<1>1. BreakerInit => Contract!Init
  BY DEF BreakerInit, Contract!Init, Contract!Never
<1> QED BY <1>1, ContractStep, BreakerTypeCorrect, FieldsAgree, PTL
        DEF BreakerSpec, ImplementsContract, Contract!Spec

-----------------------------------------------------------------------------
(* A request that is in flight has been sent by the controller.            *)
LEMMA FlyingIsChecked ==
    TypeOK => \A c \in Flying : c \in checked /\ request[c] # NoRequest
BY DEF TypeOK, Flying, InFlight

(* What a step of the gateway does to the breaker: a step of the breaker,  *)
(* none, the end of the process with its calls, or a new process.          *)
Ended ==
    /\ process' = "down"
    /\ call' = [c \in Calls |-> "idle"]
    /\ UNCHANGED <<state, failureCount, sinceFailure>>

Started ==
    /\ process = "down"
    /\ state' = "CLOSED" /\ failureCount' = 0 /\ sinceFailure' = Never
    /\ UNCHANGED call

LEMMA StepOfBreaker ==
    [Next]_vars => BreakerNext \/ UNCHANGED breaker \/ Ended \/ Started
<1> SUFFICES ASSUME [Next]_vars
             PROVE  BreakerNext \/ UNCHANGED breaker \/ Ended \/ Started
  OBVIOUS
<1>1. ASSUME NEW c \in Calls, Step(c) PROVE BreakerNext \/ UNCHANGED breaker
  <2>1. CASE Unauthorized(c) \/ Invalid(c) \/ Accept(c)
    BY <2>1 DEF Unauthorized, Invalid, Accept
  <2>2. CASE Forward(c) \/ TurnAway(c) \/ Answered(c) \/ NotAnswered(c) \/ Reply(c)
    BY <2>2 DEF Forward, TurnAway, Answered, NotAnswered, Reply, BreakerNext, CallStep
  <2> QED BY <1>1, <2>1, <2>2 DEF Step
<1>2. CASE \E c \in Calls, q \in Request : Arrive(c, q)
  BY <1>2 DEF Arrive
<1>3. CASE TimePasses
  BY <1>3 DEF TimePasses, BreakerNext
<1>4. CASE ServiceStops \/ ServiceStarts \/ \E c \in Calls : Failing(c)
  BY <1>4 DEF ServiceStops, ServiceStarts, Failing
<1>5. CASE Sigterm \/ Close \/ Exit
  BY <1>5 DEF Sigterm, Close, Exit
<1>6. CASE ForcedExit
  BY <1>6 DEF ForcedExit, CutOff, Ended
<1>7. CASE Start
  BY <1>7 DEF Start, Started
<1>8. CASE UNCHANGED vars
  BY <1>8 DEF vars
<1> QED BY <1>1, <1>2, <1>3, <1>4, <1>5, <1>6, <1>7, <1>8 DEF Next

(* The end of a process, and a new one, keep the breaker's invariants.     *)
LEMMA BreakerInGatewayStep ==
    BreakerTypeOK /\ Consistent /\ [Next]_vars => BreakerTypeOK' /\ Consistent'
<1> SUFFICES ASSUME BreakerTypeOK, Consistent, [Next]_vars
             PROVE  BreakerTypeOK' /\ Consistent'
  OBVIOUS
<1>1. CASE BreakerNext \/ UNCHANGED breaker
  BY <1>1, BreakerTypeStep, ConsistentStep
<1>2. CASE Ended
  BY <1>2 DEF Ended, BreakerTypeOK, Consistent, ResetElapsed
<1>3. CASE Started
  BY <1>3, ThresholdAssumption, ResetTimeoutAssumption
     DEF Started, BreakerTypeOK, Consistent, CircuitState
<1> QED BY <1>1, <1>2, <1>3, StepOfBreaker

LEMMA BreakerInGateway == Spec => [](BreakerTypeOK /\ Consistent)
<1>1. Init => BreakerTypeOK /\ Consistent
  BY AtRest DEF Init, BreakerInit
<1> QED BY <1>1, BreakerInGatewayStep, PTL DEF Spec

(* The fields of the breaker agree in the gateway, too, whatever requests  *)
(* come, and although the process may end at any moment and start again.   *)
THEOREM FieldsAgreeInGateway == Spec => []Consistent
BY BreakerInGateway, PTL

(* The gateway fails fast: while the breaker cools down no request leaves  *)
(* for the service, whatever comes in.                                     *)
THEOREM GatewayFailsFast == Spec => FailFast
<1>1. BreakerTypeOK /\ Consistent /\ [Next]_vars => [QuietStep]_breaker
  <2> SUFFICES ASSUME BreakerTypeOK, Consistent, [Next]_vars PROVE [QuietStep]_breaker
    OBVIOUS
  <2>1. CASE BreakerNext \/ UNCHANGED breaker
    BY <2>1, BreakerIsQuiet
  <2>2. CASE Ended \/ Started
    BY <2>2 DEF Ended, Started, QuietStep
  <2> QED BY <2>1, <2>2, StepOfBreaker
<1>2. Spec => [][QuietStep]_breaker
  BY <1>1, BreakerInGateway, PTL DEF Spec
<1> QED BY <1>2 DEF FailFast, QuietStep

(* What the callers of the client rely on, in a gateway whose process may  *)
(* end: every step is one of the contract, but for the end of the process, *)
(* which takes its calls with it and nothing else, and the start of a new  *)
(* one, which has forgotten the failures.                                  *)
ContractBetweenStarts == [][Contract!Next \/ Ended \/ Started]_Contract!vars

(* No request of a client, no guard, no validation, no outage of the       *)
(* service makes the breaker of the gateway leave its contract.            *)
THEOREM GatewayKeepsContract == Spec => ContractBetweenStarts
<1>1. BreakerTypeOK /\ Consistent /\ [Next]_vars
        => [Contract!Next \/ Ended \/ Started]_Contract!vars
  BY StepOfBreaker, ContractStep
<1> QED BY <1>1, BreakerInGateway, PTL DEF Spec, ContractBetweenStarts

-----------------------------------------------------------------------------
(* Who is in flight after one call has changed its phase.                  *)
LEMMA FlyingAfter ==
    ASSUME BreakerTypeOK, NEW c \in Calls, NEW p,
           call' = [call EXCEPT ![c] = p]
    PROVE  Flying' = IF p \in InFlight THEN Flying \cup {c} ELSE Flying \ {c}
BY DEF BreakerTypeOK, Flying

(* The types of the gateway are inductive: a slot gives its request up     *)
(* only when it makes no call, and the server closes when none has any.    *)
LEMMA TypeStep == TypeOK /\ Consistent /\ [Next]_vars => TypeOK'
<1> SUFFICES ASSUME TypeOK, Consistent, [Next]_vars PROVE TypeOK'
  OBVIOUS
<1> USE NoRequestAssumption
<1>0. BreakerTypeOK /\ BreakerTypeOK'
  BY BreakerInGatewayStep DEF TypeOK
<1> USE DEF TypeOK
<1>1. ASSUME UNCHANGED breaker PROVE Flying' = Flying
  BY <1>1 DEF breaker, Flying
<1>2. ASSUME NEW c \in Calls, NEW q \in Request, Arrive(c, q) PROVE TypeOK'
  BY <1>0, <1>1, <1>2 DEF Arrive, breaker
<1>3. ASSUME NEW c \in Calls, Unauthorized(c) \/ Invalid(c) PROVE TypeOK'
  BY <1>0, <1>1, <1>3 DEF Unauthorized, Invalid, Leaves, breaker
<1>4. ASSUME NEW c \in Calls, Accept(c) PROVE TypeOK'
  BY <1>0, <1>1, <1>4 DEF Accept, breaker
<1>5. ASSUME NEW c \in Calls, Forward(c) PROVE TypeOK'
  <2>1. Flying' = Flying \cup {c}
    BY <1>0, <1>5, FlyingAfter DEF Forward, Admit, InFlight
  <2>2. \A d \in Calls : d # c => call'[d] = call[d]
    BY <1>0, <1>5 DEF Forward, Admit, BreakerTypeOK
  <2>3. troubled' \in BOOLEAN
    BY <1>5, Zenon DEF Forward
  <2> QED BY <1>0, <1>5, <2>1, <2>2, <2>3 DEF Forward
<1>6. ASSUME NEW c \in Calls, TurnAway(c) PROVE TypeOK'
  <2>1. Flying' = Flying \ {c} /\ c \notin Flying
    BY <1>0, <1>6, FlyingAfter DEF TurnAway, Reject, InFlight, Flying
  <2>2. \A d \in Calls : d # c => call'[d] = call[d]
    BY <1>0, <1>6 DEF TurnAway, Reject, BreakerTypeOK
  <2> QED BY <1>0, <1>6, <2>1, <2>2 DEF TurnAway
<1>7. ASSUME NEW c \in Calls, Answered(c) PROVE TypeOK'
  <2>1. Flying' = Flying \ {c} /\ c \in Flying
    BY <1>0, <1>7, FlyingAfter DEF Answered, Succeed, InFlight, Flying
  <2>2. \A d \in Calls : d # c => call'[d] = call[d]
    BY <1>0, <1>7 DEF Answered, Succeed, BreakerTypeOK
  <2>3. troubled' \in BOOLEAN
    BY <1>7, Zenon DEF Answered
  <2> QED BY <1>0, <1>7, <2>1, <2>2, <2>3, FlyingIsChecked DEF Answered
<1>8. ASSUME NEW c \in Calls, NotAnswered(c) PROVE TypeOK'
  <2>1. Flying' = Flying \ {c} /\ c \in Flying
    BY <1>0, <1>8, FlyingAfter DEF NotAnswered, Fail, InFlight, Flying
  <2>2. \A d \in Calls : d # c => call'[d] = call[d]
    BY <1>0, <1>8 DEF NotAnswered, Fail, BreakerTypeOK
  <2> QED BY <1>0, <1>8, <2>1, <2>2, FlyingIsChecked DEF NotAnswered
<1>9. ASSUME NEW c \in Calls, Reply(c) PROVE TypeOK'
  <2>1. Flying' = Flying \ {c} /\ c \notin Flying
    BY <1>0, <1>9, FlyingAfter DEF Reply, Return, InFlight, Returning, Flying
  <2>2. \A d \in Calls : d # c => call'[d] = call[d] /\ request'[d] = request[d]
    BY <1>0, <1>9 DEF Reply, Return, Leaves, BreakerTypeOK
  <2>3. call'[c] = "idle" /\ request'[c] = NoRequest
    BY <1>0, <1>9 DEF Reply, Return, Leaves, BreakerTypeOK
  <2>4. request' \in [Calls -> Request \cup {NoRequest}]
    BY <1>9 DEF Reply, Leaves
  <2> QED BY <1>0, <1>9, <2>1, <2>2, <2>3, <2>4 DEF Reply
<1>10. CASE TimePasses
  <2>1. Flying' = Flying /\ UNCHANGED call
    BY <1>10 DEF TimePasses, Tick, Flying
  <2> QED BY <1>0, <1>10, <2>1 DEF TimePasses
<1>11. CASE ServiceStops \/ ServiceStarts \/ \E c \in Calls : Failing(c)
  BY <1>0, <1>1, <1>11 DEF ServiceStops, ServiceStarts, Failing, breaker
<1>12. CASE Sigterm \/ Close \/ Exit
  BY <1>0, <1>1, <1>12 DEF Sigterm, Close, Exit, breaker
<1>13. CASE ForcedExit
  <2>1. \A c \in Calls : request'[c] = NoRequest /\ call'[c] = "idle"
    BY <1>13 DEF ForcedExit, CutOff
  <2> QED BY <1>0, <1>13, <2>1 DEF ForcedExit, CutOff
<1>14. CASE Start
  BY <1>0, <1>14 DEF Start, Flying
<1>15. CASE UNCHANGED vars
  BY <1>0, <1>1, <1>15 DEF vars, breaker
<1> QED
  BY <1>2, <1>3, <1>4, <1>5, <1>6, <1>7, <1>8, <1>9, <1>10, <1>11, <1>12, <1>13,
     <1>14, <1>15 DEF Next, Step

LEMMA AlwaysTyped == Spec => [](TypeOK /\ Consistent)
<1>1. Init => TypeOK /\ Consistent
  BY AtRest, NoRequestAssumption
     DEF Init, BreakerInit, TypeOK, Flying, InFlight
<1>2. TypeOK /\ Consistent /\ [Next]_vars => TypeOK' /\ Consistent'
  BY TypeStep, BreakerInGatewayStep DEF TypeOK
<1> QED BY <1>1, <1>2, PTL DEF Spec

(* The gateway's variables keep their types: calls are made for requests   *)
(* that passed guard and pipe, and a closed server works on nothing.       *)
THEOREM TypeCorrect == Spec => []TypeOK
BY AlwaysTyped, PTL

-----------------------------------------------------------------------------
(* Guard and pipe let pass only requests with a token and without foreign  *)
(* fields.                                                                 *)
Admitted == \A c \in checked : request[c].token /\ request[c].fields # "foreign"

(* Without trouble the breaker is CLOSED, the service runs, and whatever   *)
(* is in flight will be answered with 2xx.                                 *)
Untroubled ==
    ~troubled => state = "CLOSED" /\ service /\ \A c \in Flying : Sound(c) /\ c \notin hit

(* Of what guard and pipe let pass the service refuses what Forward counts *)
(* as trouble, and nothing else.                                           *)
LEMMA RefusedIsTrouble ==
    ASSUME NEW q \in Request,
           q.fields # "foreign", q.fields # "missing",
           q.route \notin {"remove", "schema", "execute"}
    PROVE  Served(q)
BY RoutesAssumption DEF Request, Served, AllRoutes, WithBody

(* Admitted is inductive: a slot's request changes only while the slot is  *)
(* not with the controller.                                                *)
LEMMA AdmittedStep == TypeOK /\ Admitted /\ [Next]_vars => Admitted'
<1> SUFFICES ASSUME TypeOK, Admitted, [Next]_vars PROVE Admitted'
  OBVIOUS
<1> USE DEF TypeOK, Admitted
<1>1. ASSUME NEW c \in Calls, NEW q \in Request, Arrive(c, q) PROVE Admitted'
  BY <1>1 DEF Arrive
<1>2. ASSUME NEW c \in Calls, Unauthorized(c) \/ Invalid(c) PROVE Admitted'
  BY <1>2 DEF Unauthorized, Invalid, Leaves
<1>3. ASSUME NEW c \in Calls, Accept(c) PROVE Admitted'
  BY <1>3 DEF Accept
<1>4. ASSUME NEW c \in Calls, Reply(c) PROVE Admitted'
  BY <1>4 DEF Reply, Leaves
<1>5. CASE ForcedExit
  BY <1>5 DEF ForcedExit, CutOff
<1>6. CASE UNCHANGED <<request, checked>>
  BY <1>6
<1>7. ASSUME NEW c \in Calls,
             Forward(c) \/ TurnAway(c) \/ Answered(c) \/ NotAnswered(c) \/ Failing(c)
      PROVE  Admitted'
  BY <1>6, <1>7 DEF Forward, TurnAway, Answered, NotAnswered, Failing
<1>8. CASE TimePasses \/ ServiceStops \/ ServiceStarts
  BY <1>6, <1>8 DEF TimePasses, ServiceStops, ServiceStarts
<1>9. CASE Sigterm \/ Close \/ Exit \/ Start
  BY <1>6, <1>9 DEF Sigterm, Close, Exit, Start
<1>10. CASE UNCHANGED vars
  BY <1>6, <1>10 DEF vars
<1> QED
  BY <1>1, <1>2, <1>3, <1>4, <1>5, <1>7, <1>8, <1>9, <1>10 DEF Next, Step

(* Untroubled is inductive.  Only Answered ends trouble, and only with     *)
(* nothing doomed in flight; without trouble no call fails, so nothing     *)
(* opens the breaker; and only Forward sends.                              *)
LEMMA UntroubledStep ==
    TypeOK /\ Admitted /\ Untroubled /\ [Next]_vars => Untroubled'
<1> SUFFICES ASSUME TypeOK, Admitted, Untroubled, [Next]_vars, ~troubled'
             PROVE  /\ state' = "CLOSED" /\ service'
                    /\ \A c \in Flying' : Sound(c)' /\ c \notin hit'
  BY DEF Untroubled
<1> DEFINE Goal == /\ state' = "CLOSED" /\ service'
                   /\ \A c \in Flying' : Sound(c)' /\ c \notin hit'
<1>0. BreakerTypeOK
  BY DEF TypeOK
<1> USE DEF Untroubled
<1>1. ASSUME UNCHANGED <<call, request, hit>>, UNCHANGED <<state, service, troubled>>
      PROVE  Goal
  BY <1>1 DEF Flying, Sound
<1>2. ASSUME NEW c \in Calls, NEW q \in Request, Arrive(c, q) PROVE Goal
  <2>1. c \notin Flying
    BY <1>2, FlyingIsChecked DEF Arrive
  <2>2. Flying' = Flying /\ \A d \in Flying : Sound(d)' <=> Sound(d)
    BY <1>2, <2>1 DEF Arrive, breaker, Flying, Sound, TypeOK
  <2> QED BY <1>2, <2>2 DEF Arrive, breaker
<1>3. ASSUME NEW c \in Calls, Unauthorized(c) \/ Invalid(c) PROVE Goal
  <2>1. c \notin Flying
    BY <1>3, FlyingIsChecked DEF Unauthorized, Invalid
  <2>2. Flying' = Flying /\ \A d \in Flying : Sound(d)' <=> Sound(d)
    BY <1>3, <2>1 DEF Unauthorized, Invalid, Leaves, breaker, Flying, Sound, TypeOK
  <2> QED BY <1>3, <2>2 DEF Unauthorized, Invalid, breaker
<1>4. ASSUME NEW c \in Calls, Accept(c) PROVE Goal
  BY <1>1, <1>4 DEF Accept, breaker
<1>5. ASSUME NEW c \in Calls, Forward(c) PROVE Goal
  <2>1. ~troubled /\ request[c].fields # "missing"
          /\ request[c].route \notin {"remove", "schema", "execute"}
    BY <1>5, Zenon DEF Forward
  <2>2. service /\ hit' = hit /\ UNCHANGED request
    BY <1>5, <2>1 DEF Forward
  <2>3. Sound(c) /\ c \notin hit
    BY <1>5, <2>1, RefusedIsTrouble
       DEF Forward, Admit, TypeOK, Admitted, Sound, Flying, InFlight
  <2>4. Flying' = Flying \cup {c}
    BY <1>0, <1>5, FlyingAfter DEF Forward, Admit, InFlight
  <2>5. state' = "CLOSED" /\ service'
    BY <1>5, <2>1, <2>2 DEF Forward, Admit
  <2> QED BY <2>1, <2>2, <2>3, <2>4, <2>5 DEF Sound
<1>6. ASSUME NEW c \in Calls, TurnAway(c) PROVE Goal
  <2>1. Flying' = Flying \ {c}
    BY <1>0, <1>6, FlyingAfter DEF TurnAway, Reject, InFlight
  <2> QED BY <1>6, <2>1 DEF TurnAway, Reject, Sound
<1>7. ASSUME NEW c \in Calls, Answered(c) PROVE Goal
  <2>1. Flying' = Flying \ {c}
    BY <1>0, <1>7, FlyingAfter DEF Answered, Succeed, InFlight
  <2>2. service /\ Doomed = {}
    BY <1>7, Zenon DEF Answered
  <2>3. \A d \in Flying : Sound(d) /\ d \notin hit
    BY <2>2 DEF Doomed
  <2> QED BY <1>7, <2>1, <2>2, <2>3 DEF Answered, Succeed, RecordSuccess, Sound
<1>8. ASSUME NEW c \in Calls, NotAnswered(c) PROVE FALSE
  BY <1>8 DEF NotAnswered, Doomed
<1>9. ASSUME NEW c \in Calls, Reply(c) PROVE Goal
  <2>1. Flying' = Flying \ {c}
    BY <1>0, <1>9, FlyingAfter DEF Reply, Return, InFlight
  <2>2. \A d \in Flying : d # c => (Sound(d)' <=> Sound(d))
    BY <1>9 DEF Reply, Leaves, Sound, Flying, TypeOK
  <2> QED BY <1>9, <2>1, <2>2 DEF Reply, Return
<1>10. CASE TimePasses
  BY <1>1, <1>10 DEF TimePasses, Tick
<1>11. CASE ServiceStops \/ \E c \in Calls : Failing(c)
  BY <1>11 DEF ServiceStops, Failing
<1>12. CASE ServiceStarts
  BY <1>12 DEF ServiceStarts
<1>13. CASE Sigterm \/ Close \/ Exit
  BY <1>1, <1>13 DEF Sigterm, Close, Exit, breaker
<1>14. CASE ForcedExit
  BY <1>14 DEF ForcedExit, CutOff, Flying, InFlight
<1>15. CASE Start
  <2>1. Flying' = {}
    BY <1>15 DEF Start, TypeOK, Flying, InFlight
  <2>2. service
    BY <1>15, Zenon DEF Start
  <2> QED BY <1>15, <2>1, <2>2 DEF Start
<1>16. CASE UNCHANGED vars
  BY <1>1, <1>16 DEF vars, breaker
<1> QED
  BY <1>2, <1>3, <1>4, <1>5, <1>6, <1>7, <1>8, <1>9, <1>10, <1>11, <1>12, <1>13,
     <1>14, <1>15, <1>16 DEF Next, Step

LEMMA AlwaysUntroubled == Spec => [](TypeOK /\ Admitted /\ Untroubled)
<1>1. Init => Admitted /\ Untroubled
  BY DEF Init, BreakerInit, Admitted, Untroubled, Flying, InFlight
<1> QED BY <1>1, AdmittedStep, UntroubledStep, AlwaysTyped, PTL DEF Spec

(* A sound request fails or is turned away only in times of trouble, for   *)
(* any number of calls and any threshold: in particular, no sequence of    *)
(* requests that guard and pipe refuse brings the breaker to open.         *)
THEOREM SoundRequestsAreServed == Spec => SoundIsServed
<1> DEFINE ServedStep ==
      \A c \in Calls :
          Sound(c) /\ call'[c] # call[c] /\ call'[c] \in {"failed", "rejected"}
          => troubled
<1>1. TypeOK /\ Admitted /\ Untroubled /\ [Next]_vars => [ServedStep]_vars
  <2> SUFFICES ASSUME TypeOK, Untroubled, [Next]_vars, ~troubled,
                      NEW c \in Calls,
                      Sound(c), call'[c] # call[c], call'[c] \in {"failed", "rejected"}
               PROVE  FALSE
    OBVIOUS
  <2>1. call \in [Calls -> {"idle"} \cup InFlight \cup Returning]
    BY DEF TypeOK, BreakerTypeOK
  <2>2. ASSUME NEW d \in Calls, Step(d) PROVE FALSE
    <3>1. CASE TurnAway(d)
      BY <3>1 DEF TurnAway, Reject, CanExecute, Untroubled
    <3>2. CASE NotAnswered(d)
      BY <3>2 DEF NotAnswered, Doomed, Untroubled
    <3>3. CASE Forward(d) \/ Answered(d) \/ Reply(d)
      BY <2>1, <3>3 DEF Forward, Answered, Reply, Admit, Succeed, Return
    <3>4. CASE Unauthorized(d) \/ Invalid(d) \/ Accept(d)
      BY <3>4 DEF Unauthorized, Invalid, Accept, breaker
    <3> QED BY <2>2, <3>1, <3>2, <3>3, <3>4 DEF Step
  <2>3. CASE ForcedExit
    BY <2>3 DEF ForcedExit, CutOff
  <2>4. CASE UNCHANGED call
    BY <2>4
  <2>5. CASE \E d \in Calls, q \in Request : Arrive(d, q)
    BY <2>4, <2>5 DEF Arrive, breaker
  <2>6. CASE TimePasses \/ Start
    BY <2>4, <2>6 DEF TimePasses, Tick, Start
  <2>7. CASE ServiceStops \/ ServiceStarts \/ \E d \in Calls : Failing(d)
    BY <2>4, <2>7 DEF ServiceStops, ServiceStarts, Failing, breaker
  <2>8. CASE Sigterm \/ Close \/ Exit
    BY <2>4, <2>8 DEF Sigterm, Close, Exit, breaker
  <2> QED BY <2>2, <2>3, <2>4, <2>5, <2>6, <2>7, <2>8 DEF Next, vars, breaker
<1>2. Spec => [][ServedStep]_vars
  BY <1>1, AlwaysUntroubled, PTL DEF Spec
<1> QED BY <1>2 DEF SoundIsServed

-----------------------------------------------------------------------------
(* How far a slot is from being free: the controller, the client and the   *)
(* reply take one step each, the client's wait for the answer another.     *)
Distance(c) ==
    CASE request[c] = NoRequest -> 0
      [] request[c] # NoRequest /\ c \notin checked -> 4
      [] c \in checked /\ call[c] = "idle" -> 3
      [] c \in checked /\ call[c] \in InFlight -> 2
      [] c \in checked /\ call[c] \in Returning -> 1

(* A step of a request brings it nearer to its end, and nothing takes it   *)
(* back: neither other requests, nor the breaker, nor the service.         *)
NearsItsEnd ==
    [][\A c \in Calls :
          /\ Step(c) => Distance(c)' < Distance(c)
          /\ request[c] # NoRequest => Distance(c)' =< Distance(c)]_vars

(* The safety half of Terminates: no request is tried twice or sent back,  *)
(* so after at most four steps of its own it is done.                      *)
THEOREM RequestsNearTheirEnd == Spec => NearsItsEnd
<1> DEFINE NearsStep ==
      \A c \in Calls :
          /\ Step(c) => Distance(c)' < Distance(c)
          /\ request[c] # NoRequest => Distance(c)' =< Distance(c)
<1>1. TypeOK /\ TypeOK' /\ [Next]_vars => [NearsStep]_vars
  <2> SUFFICES ASSUME TypeOK, TypeOK', Next, NEW c \in Calls
               PROVE  /\ Step(c) => Distance(c)' < Distance(c)
                      /\ request[c] # NoRequest => Distance(c)' =< Distance(c)
    OBVIOUS
  <2>0. /\ call \in [Calls -> {"idle"} \cup InFlight \cup Returning]
        /\ checked \subseteq {d \in Calls : request[d] # NoRequest}
        /\ request \in [Calls -> Request \cup {NoRequest}]
    BY DEF TypeOK, BreakerTypeOK
  <2>1. /\ call' \in [Calls -> {"idle"} \cup InFlight \cup Returning]
        /\ checked' \subseteq {d \in Calls : request'[d] # NoRequest}
        /\ request' \in [Calls -> Request \cup {NoRequest}]
    BY DEF TypeOK, BreakerTypeOK
  <2>2. ASSUME UNCHANGED request, UNCHANGED checked, UNCHANGED call
        PROVE  Distance(c)' = Distance(c)
    BY <2>2 DEF Distance
  <2>3. Distance(c) \in 0 .. 4 /\ Distance(c)' \in 0 .. 4
    BY <2>0, <2>1 DEF Distance
  <2>4. ASSUME NEW d \in Calls, Step(d)
        PROVE  /\ Distance(d)' < Distance(d)
               /\ c # d => Distance(c)' = Distance(c)
    <3>1. CASE Unauthorized(d) \/ Invalid(d)
      BY <2>0, <2>1, <3>1 DEF Distance, InFlight, Returning,
         Unauthorized, Invalid, Leaves, breaker
    <3>2. CASE Accept(d)
      BY <2>0, <2>1, <3>2 DEF Distance, InFlight, Returning,
         Accept, breaker, TypeOK
    <3>3. CASE Forward(d)
      BY <2>0, <2>1, <3>3 DEF Distance, InFlight, Returning,
         Forward, Admit
    <3>4. CASE TurnAway(d)
      BY <2>0, <2>1, <3>4 DEF Distance, InFlight, Returning,
         TurnAway, Reject
    <3>5. CASE Answered(d)
      BY <2>0, <2>1, <3>5 DEF Distance, InFlight, Returning,
         Answered, Succeed, TypeOK
    <3>6. CASE NotAnswered(d)
      BY <2>0, <2>1, <3>6 DEF Distance, InFlight, Returning,
         NotAnswered, Fail, TypeOK
    <3>7. CASE Reply(d)
      BY <2>0, <2>1, <3>7 DEF Distance, InFlight, Returning,
         Reply, Return, Leaves, TypeOK
    <3> QED BY <2>4, <3>1, <3>2, <3>3, <3>4, <3>5, <3>6, <3>7 DEF Step
  <2>5. Step(c) => Distance(c)' < Distance(c)
    BY <2>4
  <2>6. ASSUME request[c] # NoRequest PROVE Distance(c)' =< Distance(c)
    <3>1. ASSUME NEW d \in Calls, Step(d) PROVE Distance(c)' =< Distance(c)
      BY <2>3, <2>4, <3>1
    <3>2. CASE \E d \in Calls, q \in Request : Arrive(d, q)
      BY <2>0, <2>1, <2>6, <3>2 DEF Distance, Arrive, breaker
    <3>3. CASE TimePasses \/ Start
      BY <2>2, <2>3, <3>3 DEF TimePasses, Tick, Start
    <3>4. CASE ServiceStops \/ ServiceStarts \/ \E d \in Calls : Failing(d)
      BY <2>2, <2>3, <3>4 DEF ServiceStops, ServiceStarts, Failing, breaker
    <3>5. CASE Sigterm \/ Close \/ Exit
      BY <2>2, <2>3, <3>5 DEF Sigterm, Close, Exit, breaker
    <3>6. CASE ForcedExit
      <4>1. Distance(c)' = 0
        BY <3>6 DEF Distance, ForcedExit, CutOff
      <4> QED BY <2>3, <4>1
    <3> QED BY <3>1, <3>2, <3>3, <3>4, <3>5, <3>6 DEF Next
  <2> QED BY <2>5, <2>6
<1>2. Spec => [][NearsStep]_vars
  BY <1>1, AlwaysTyped, PTL DEF Spec
<1> QED BY <1>2 DEF NearsItsEnd
=============================================================================
