-------------------------- MODULE QueryHistoryProofs --------------------------
(***************************************************************************)
(* Theorems about QueryHistory for every set of requests, prefetch count   *)
(* and number of faults: its types, that no answered query is lost         *)
(* silently, the bound on duplicate rows, and where a session opening's    *)
(* row comes from.                                                         *)
(***************************************************************************)
EXTENDS QueryHistory, TLAPS

(* The variables of the pipeline have their types in every reachable state;*)
(* an orphan only ends if it was started.                                  *)
THEOREM TypeCorrect == Spec => []TypeOK
<1> USE MaxFaultsAssumption
<1> USE DEF Handling, Over, Unacked, Gone, Requests
<1>1. Init => TypeOK
  <2> SUFFICES ASSUME Init PROVE TypeOK
    OBVIOUS
  <2>1. serviceUp \in BOOLEAN /\ brokerUp \in BOOLEAN /\ consumerUp \in BOOLEAN
    BY Zenon DEF Init
  <2>2. faults \in 0 .. MaxFaults
    BY DEF Init
  <2> QED BY <2>1, <2>2 DEF Init, TypeOK
<1>2. TypeOK /\ [Next]_vars => TypeOK'
  <2> SUFFICES ASSUME TypeOK, [Next]_vars PROVE TypeOK'
    OBVIOUS
  <2> USE DEF TypeOK, serviceVars, consumerVars, recordVars
  <2>1. CASE ProcessNext
    <3>1. CASE ServiceStart  BY <3>1 DEF ServiceStart
    <3>2. CASE ServiceStop   BY <3>2 DEF ServiceStop
    <3>3. CASE BrokerDown
      <4>1. faults' \in 0 .. MaxFaults
        BY <3>3 DEF BrokerDown
      <4>2. msg' \in [Requests -> {"none", "ready"} \cup Unacked \cup Gone]
        BY <3>3 DEF BrokerDown, TakenBack
      <4>3. orphans' \in [Requests -> Nat]
        BY <3>3 DEF BrokerDown
      <4> QED BY <3>3, <4>1, <4>2, <4>3, Zenon DEF BrokerDown
    <3>4. CASE BrokerRestart BY <3>4 DEF BrokerRestart
    <3>5. CASE ConsumerStart BY <3>5 DEF ConsumerStart
    <3>6. CASE ConsumerCrash
      <4>1. faults' \in 0 .. MaxFaults
        BY <3>6 DEF ConsumerCrash
      <4>2. msg' \in [Requests -> {"none", "ready"} \cup Unacked \cup Gone]
        BY <3>6 DEF ConsumerCrash, TakenBack
      <4>3. orphans' \in [Requests -> Nat]
        BY <3>6 DEF ConsumerCrash
      <4> QED BY <3>6, <4>1, <4>2, <4>3, Zenon DEF ConsumerCrash
    <3> QED BY <2>1, <3>1, <3>2, <3>3, <3>4, <3>5, <3>6 DEF ProcessNext
  <2>2. ASSUME NEW r \in Requests, ServiceNext(r) PROVE TypeOK'
    <3>1. CASE CallPublish(r)        BY <3>1 DEF CallPublish
    <3>2. CASE Refuse(r)             BY <3>2 DEF Refuse
    <3>3. CASE PublishConfirmed(r)   BY <3>3 DEF PublishConfirmed
    <3>4. CASE PublishInterrupted(r) BY <3>4 DEF PublishInterrupted
    <3>5. CASE FallbackPersisted(r)  BY <3>5 DEF FallbackPersisted
    <3>6. CASE FallbackFailed(r)     BY <3>6 DEF FallbackFailed
    <3>7. CASE Answer(r)             BY <3>7 DEF Answer
    <3> QED BY <2>2, <3>1, <3>2, <3>3, <3>4, <3>5, <3>6, <3>7 DEF ServiceNext
  <2>3. ASSUME NEW r \in Requests, BrokerNext(r) PROVE TypeOK'
    BY <2>3 DEF BrokerNext, Deliver, Expire
  <2>4. ASSUME NEW r \in Requests, ConsumerNext(r) PROVE TypeOK'
    <3>1. CASE HandlerPersists(r) BY <3>1 DEF HandlerPersists, Persisted
    <3>2. CASE HandlerFails(r)    BY <3>2 DEF HandlerFails
    <3>3. CASE Ack(r)             BY <3>3 DEF Ack
    <3>4. CASE OrphanPersists(r)  BY <3>4 DEF OrphanPersists, Persisted
    <3>5. CASE OrphanFails(r)     BY <3>5 DEF OrphanFails
    <3> QED BY <2>4, <3>1, <3>2, <3>3, <3>4, <3>5 DEF ConsumerNext
  <2>5. CASE UNCHANGED vars
    BY <2>5 DEF vars
  <2> QED BY <2>1, <2>2, <2>3, <2>4, <2>5 DEF Next
<1> QED BY <1>1, <1>2, PTL DEF Spec

-----------------------------------------------------------------------------
(* AccountedFor is not inductive: a message that is acknowledged must have *)
(* been handled.  Settled says so, from the moment a handler ends.         *)
Settled == \A r \in Asks : msg[r] \in {"finished", "acked"} => Recorded(r)

Accounts == AccountedFor /\ Settled

(* Every step of the three processes keeps both parts together.            *)
LEMMA AccountsStep == TypeOK /\ Accounts /\ [Next]_vars => Accounts'
<1> USE DEF Handling, Over, Unacked, Gone, Requests
<1> SUFFICES ASSUME TypeOK, Accounts, [Next]_vars PROVE Accounts'
  OBVIOUS
<1> USE DEF TypeOK, Accounts, AccountedFor, Settled, Recorded,
            serviceVars, consumerVars, recordVars
<1>1. CASE ProcessNext
  <2>1. CASE ServiceStart  BY <2>1 DEF ServiceStart
  <2>2. CASE ServiceStop   BY <2>2 DEF ServiceStop
  <2>3. CASE BrokerDown    BY <2>3 DEF BrokerDown, TakenBack
  <2>4. CASE BrokerRestart BY <2>4 DEF BrokerRestart
  <2>5. CASE ConsumerStart BY <2>5 DEF ConsumerStart
  <2>6. CASE ConsumerCrash BY <2>6 DEF ConsumerCrash, TakenBack
  <2> QED BY <1>1, <2>1, <2>2, <2>3, <2>4, <2>5, <2>6 DEF ProcessNext
<1>2. ASSUME NEW r \in Requests, ServiceNext(r) PROVE Accounts'
  <2>1. CASE CallPublish(r)        BY <2>1 DEF CallPublish
  <2>2. CASE Refuse(r)             BY <2>2 DEF Refuse
  <2>3. CASE PublishConfirmed(r)   BY <2>3 DEF PublishConfirmed
  <2>4. CASE PublishInterrupted(r) BY <2>4 DEF PublishInterrupted
  <2>5. CASE FallbackPersisted(r)  BY <2>5 DEF FallbackPersisted
  <2>6. CASE FallbackFailed(r)     BY <2>6 DEF FallbackFailed
  <2>7. CASE Answer(r)             BY <2>7 DEF Answer
  <2> QED BY <1>2, <2>1, <2>2, <2>3, <2>4, <2>5, <2>6, <2>7 DEF ServiceNext
<1>3. ASSUME NEW r \in Requests, BrokerNext(r) PROVE Accounts'
  BY <1>3 DEF BrokerNext, Deliver, Expire
<1>4. ASSUME NEW r \in Requests, ConsumerNext(r) PROVE Accounts'
  <2>1. CASE HandlerPersists(r) BY <2>1 DEF HandlerPersists, Persisted
  <2>2. CASE HandlerFails(r)    BY <2>2 DEF HandlerFails
  <2>3. CASE Ack(r)             BY <2>3 DEF Ack
  <2>4. CASE OrphanPersists(r)  BY <2>4 DEF OrphanPersists, Persisted
  <2>5. CASE OrphanFails(r)     BY <2>5 DEF OrphanFails
  <2> QED BY <1>4, <2>1, <2>2, <2>3, <2>4, <2>5 DEF ConsumerNext
<1>5. CASE UNCHANGED vars
  BY <1>5 DEF vars
<1> QED BY <1>1, <1>2, <1>3, <1>4, <1>5 DEF Next

(* However the service, the broker and the consumer stop and start, an     *)
(* answered query has a row, or its message is in the broker, or it was    *)
(* lost by expiry or by a caught failure.                                  *)
THEOREM NoSilentLoss == Spec => []AccountedFor
<1>1. Init => Accounts
  BY DEF Init, Accounts, AccountedFor, Settled, Requests
<1>2. Accounts => AccountedFor
  BY DEF Accounts
<1> QED BY <1>1, <1>2, TypeCorrect, AccountsStep, PTL DEF Spec

-----------------------------------------------------------------------------
(* Why duplicates are bounded.  Chances(r) counts the rows of a request    *)
(* and everything that may still add one: the fallback, a message that     *)
(* waits or is being handled, and the orphans.  Only a fault adds a chance.*)
(* A publish that breaks adds two at once (the stored message and the      *)
(* fallback), but it needs the broker to have failed since the channel was *)
(* opened, so at least one fault pays for the second.                      *)
Chances(r) ==
    rows[r] + orphans[r]
      + (IF phase[r] = "fallback" THEN 1 ELSE 0)
      + (IF msg[r] \in {"ready", "running"} THEN 1 ELSE 0)

(* A message taken back after its handler ended gives a new chance.        *)
ChancesBounded ==
    /\ \A r \in Requests : Chances(r) <= 1 + faults
    /\ \A r \in Requests : phase[r] \in {"idle", "publishing"} =>
          msg[r] = "none" /\ rows[r] = 0 /\ orphans[r] = 0
    /\ channel = "open" => brokerUp \/ faults > 0
    /\ ~serviceUp => channel = "none"
    /\ \A r \in Requests : phase[r] \in Handling => serviceUp
    /\ \A r \in Requests : phase[r] = "publishing" => channel = "open"

(* A step that is no fault creates no chance of a row, and a fault at most *)
(* one for each request.                                                   *)
LEMMA ChancesStep == TypeOK /\ ChancesBounded /\ [Next]_vars => ChancesBounded'
<1> USE MaxFaultsAssumption DEF Handling, Over, Unacked, Gone, Requests
<1> SUFFICES ASSUME TypeOK, ChancesBounded, [Next]_vars PROVE ChancesBounded'
  OBVIOUS
<1> USE DEF TypeOK, ChancesBounded, Chances,
            serviceVars, consumerVars, recordVars
<1>1. CASE ProcessNext
  <2>1. CASE ServiceStart  BY <2>1 DEF ServiceStart
  <2>2. CASE ServiceStop   BY <2>2 DEF ServiceStop
  <2>3. CASE BrokerDown    BY <2>3 DEF BrokerDown, TakenBack
  <2>4. CASE BrokerRestart BY <2>4 DEF BrokerRestart
  <2>5. CASE ConsumerStart BY <2>5 DEF ConsumerStart
  <2>6. CASE ConsumerCrash BY <2>6 DEF ConsumerCrash, TakenBack
  <2> QED BY <1>1, <2>1, <2>2, <2>3, <2>4, <2>5, <2>6 DEF ProcessNext
<1>2. ASSUME NEW r \in Requests, ServiceNext(r) PROVE ChancesBounded'
  <2>1. CASE CallPublish(r)        BY <2>1 DEF CallPublish
  <2>2. CASE Refuse(r)             BY <2>2 DEF Refuse
  <2>3. CASE PublishConfirmed(r)   BY <2>3 DEF PublishConfirmed
  <2>4. CASE PublishInterrupted(r) BY <2>4 DEF PublishInterrupted
  <2>5. CASE FallbackPersisted(r)  BY <2>5 DEF FallbackPersisted
  <2>6. CASE FallbackFailed(r)     BY <2>6 DEF FallbackFailed
  <2>7. CASE Answer(r)             BY <2>7 DEF Answer
  <2> QED BY <1>2, <2>1, <2>2, <2>3, <2>4, <2>5, <2>6, <2>7 DEF ServiceNext
<1>3. ASSUME NEW r \in Requests, BrokerNext(r) PROVE ChancesBounded'
  <2>1. CASE Deliver(r) BY <2>1 DEF Deliver
  <2>2. CASE Expire(r)  BY <2>2 DEF Expire
  <2> QED BY <1>3, <2>1, <2>2 DEF BrokerNext
<1>4. ASSUME NEW r \in Requests, ConsumerNext(r) PROVE ChancesBounded'
  <2>1. CASE HandlerPersists(r) BY <2>1 DEF HandlerPersists, Persisted
  <2>2. CASE HandlerFails(r)    BY <2>2 DEF HandlerFails
  <2>3. CASE Ack(r)             BY <2>3 DEF Ack
  <2>4. CASE OrphanPersists(r)  BY <2>4 DEF OrphanPersists, Persisted
  <2>5. CASE OrphanFails(r)     BY <2>5 DEF OrphanFails
  <2> QED BY <1>4, <2>1, <2>2, <2>3, <2>4, <2>5 DEF ConsumerNext
<1>5. CASE UNCHANGED vars
  BY <1>5 DEF vars
<1> QED BY <1>1, <1>2, <1>3, <1>4, <1>5 DEF Next

(* A request has at most one row more than there were faults.              *)
THEOREM DuplicatesBounded == Spec => []RowBound
<1>1. Init => ChancesBounded
  BY MaxFaultsAssumption DEF Init, ChancesBounded, Chances, Handling
<1>2. TypeOK /\ ChancesBounded => RowBound
  BY DEF TypeOK, ChancesBounded, Chances, RowBound
<1> QED BY <1>1, <1>2, TypeCorrect, ChancesStep, PTL DEF Spec

-----------------------------------------------------------------------------
(* A session opening has no row until its publish has fallen back.         *)
OpeningsBlank ==
    \A r \in Connects : phase[r] \in {"idle", "publishing", "fallback"} => rows[r] = 0

(* Only the fallback adds a row to a session opening: handlers and orphans *)
(* add rows to queries.                                                    *)
LEMMA OpeningsStep ==
    TypeOK /\ OpeningsBlank /\ [Next]_vars
        => /\ OpeningsBlank'
           /\ \A r \in Connects :
                 rows'[r] # rows[r] => phase[r] = "fallback" /\ rows[r] = 0
<1> USE RequestsDisjoint DEF Handling, Requests
<1> SUFFICES ASSUME TypeOK, OpeningsBlank, [Next]_vars
             PROVE  /\ OpeningsBlank'
                    /\ \A r \in Connects :
                          rows'[r] # rows[r] => phase[r] = "fallback" /\ rows[r] = 0
  OBVIOUS
<1> DEFINE Goal == /\ OpeningsBlank'
                   /\ \A r \in Connects :
                         rows'[r] # rows[r] => phase[r] = "fallback" /\ rows[r] = 0
<1> USE DEF TypeOK, OpeningsBlank, serviceVars, consumerVars, recordVars
<1>1. CASE ProcessNext
  BY <1>1 DEF ProcessNext, ServiceStart, ServiceStop, BrokerDown, BrokerRestart,
              ConsumerStart, ConsumerCrash
<1>2. ASSUME NEW r \in Requests, ServiceNext(r) PROVE Goal
  <2>1. CASE CallPublish(r)        BY <2>1 DEF CallPublish
  <2>2. CASE Refuse(r)             BY <2>2 DEF Refuse
  <2>3. CASE PublishConfirmed(r)   BY <2>3 DEF PublishConfirmed
  <2>4. CASE PublishInterrupted(r) BY <2>4 DEF PublishInterrupted
  <2>5. CASE FallbackPersisted(r)  BY <2>5 DEF FallbackPersisted
  <2>6. CASE FallbackFailed(r)     BY <2>6 DEF FallbackFailed
  <2>7. CASE Answer(r)             BY <2>7 DEF Answer
  <2> QED BY <1>2, <2>1, <2>2, <2>3, <2>4, <2>5, <2>6, <2>7 DEF ServiceNext
<1>3. ASSUME NEW r \in Requests, BrokerNext(r) PROVE Goal
  BY <1>3 DEF BrokerNext, Deliver, Expire
<1>4. ASSUME NEW r \in Requests, ConsumerNext(r) PROVE Goal
  <2>1. CASE HandlerPersists(r) BY <2>1 DEF HandlerPersists, Persisted
  <2>2. CASE HandlerFails(r)    BY <2>2 DEF HandlerFails
  <2>3. CASE Ack(r)             BY <2>3 DEF Ack
  <2>4. CASE OrphanPersists(r)  BY <2>4 DEF OrphanPersists, Persisted
  <2>5. CASE OrphanFails(r)     BY <2>5 DEF OrphanFails
  <2> QED BY <1>4, <2>1, <2>2, <2>3, <2>4, <2>5 DEF ConsumerNext
<1>5. CASE UNCHANGED vars
  BY <1>5 DEF vars
<1> QED BY <1>1, <1>2, <1>3, <1>4, <1>5 DEF Next

(* A session opening leaves a row of history only by its fallback, and     *)
(* once, for any number of faults, deliveries and orphans of its message.  *)
THEOREM OpeningsOnlyFallBack == Spec => OpeningsFallBack
<1>1. Init => OpeningsBlank
  BY DEF Init, OpeningsBlank, Requests
<1>2. TypeOK /\ OpeningsBlank /\ [Next]_vars => OpeningsBlank'
  BY OpeningsStep
<1>3. TypeOK /\ OpeningsBlank /\ [Next]_vars
        => [\A r \in Connects :
              rows'[r] # rows[r] => phase[r] = "fallback" /\ rows[r] = 0]_vars
  BY OpeningsStep
<1> QED BY <1>1, <1>2, <1>3, TypeCorrect, PTL DEF Spec, OpeningsFallBack
=============================================================================
