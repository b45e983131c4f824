----------------------------- MODULE QueryHistory -----------------------------
(***************************************************************************)
(* How a query reaches the query_history table.                            *)
(*                                                                         *)
(* One process of querymind-service runs the handlers of /query/ask and    *)
(* /session/connect; each hands one record to RabbitMQClient.publish,      *)
(* which sends it to a durable queue or, when that fails, writes a row     *)
(* itself.  The broker (external) keeps each message until the consumer    *)
(* process rabbitmq_consumer.py acknowledges it, or until it expires.      *)
(* Both processes and the broker may stop and start between any two steps. *)
(*                                                                         *)
(* A request publishes at most one message, so a message is named by its   *)
(* request.  A handler whose delivery the broker has taken back keeps      *)
(* running: it is an orphan of that message, and may still write its row.  *)
(***************************************************************************)
EXTENDS Integers, FiniteSets

CONSTANTS
    Asks,        \* requests POST /query/ask
    Connects,    \* requests POST /session/connect
    MaxRequests, \* bound: requests of a behaviour
    Prefetch,    \* prefetch_count of each consumer (10)
    MaxFaults    \* bound: broker failures and consumer crashes of a behaviour

ASSUME RequestsDisjoint == Asks \cap Connects = {}
ASSUME MaxRequestsAssumption == MaxRequests \in Nat
ASSUME PrefetchAssumption == Prefetch \in Nat \ {0}
ASSUME MaxFaultsAssumption == MaxFaults \in Nat

Requests == Asks \cup Connects

VARIABLES
    serviceUp,   \* the service process runs
    channel,     \* RabbitMQClient._channel: "none" (None) or "open"
    brokerUp,    \* the broker accepts and delivers messages
    consumerUp,  \* the consumer process runs
    phase,       \* progress of each request's handler in the service
    msg,         \* state of each request's message in the broker
    orphans,     \* handlers still running for a delivery that was taken back
    rows,        \* rows of query_history written for each request
    swallowed,   \* requests for which a failed write was caught and dropped
    faults       \* broker failures and consumer crashes so far

serviceVars == <<serviceUp, channel, phase>>
consumerVars == <<consumerUp, orphans>>
recordVars == <<rows, swallowed>>
vars == <<serviceUp, channel, brokerUp, consumerUp, phase, msg, orphans,
          rows, swallowed, faults>>

Handling == {"publishing", "fallback", "replying"}
Over == {"answered", "refused", "aborted"}
Unacked == {"running", "finished"}
Gone == {"acked", "expired"}

(* Types: requests, messages and orphans are in one of their phases, rows  *)
(* and orphans are counted from 0.                                         *)
TypeOK ==
    /\ serviceUp \in BOOLEAN /\ brokerUp \in BOOLEAN /\ consumerUp \in BOOLEAN
    /\ channel \in {"none", "open"}
    /\ phase \in [Requests -> {"idle"} \cup Handling \cup Over]
    /\ msg \in [Requests -> {"none", "ready"} \cup Unacked \cup Gone]
    /\ orphans \in [Requests -> Nat]
    /\ rows \in [Requests -> Nat]
    /\ swallowed \in SUBSET Requests
    /\ faults \in 0 .. MaxFaults

Init ==
    /\ serviceUp = FALSE /\ consumerUp = FALSE
    /\ channel = "none"
    /\ brokerUp \in BOOLEAN
    /\ phase = [r \in Requests |-> "idle"]
    /\ msg = [r \in Requests |-> "none"]
    /\ orphans = [r \in Requests |-> 0]
    /\ rows = [r \in Requests |-> 0]
    /\ swallowed = {}
    /\ faults = 0

-----------------------------------------------------------------------------
(* The service process.                                                    *)

(* lifespan and RabbitMQClient.connect: one attempt.  If it fails, _channel *)
(* stays None for the life of the process.                                 *)
ServiceStart ==
    /\ ~serviceUp
    /\ serviceUp' = TRUE
    /\ channel' \in IF brokerUp THEN {"open", "none"} ELSE {"none"}
    /\ UNCHANGED <<brokerUp, phase, msg, consumerVars, recordVars, faults>>

(* The process ends, orderly or not, and with it every handler. *)
ServiceStop ==
    /\ serviceUp
    /\ serviceUp' = FALSE
    /\ channel' = "none"
    /\ phase' = [r \in Requests |->
                    IF phase[r] \in Handling THEN "aborted" ELSE phase[r]]
    /\ UNCHANGED <<brokerUp, msg, consumerVars, recordVars, faults>>

Begun == {r \in Requests : phase[r] # "idle"}

(* The record is ready and publish is called: by ask_query when the SQL has *)
(* been executed, by connect_session when the session is stored.           *)
CallPublish(r) ==
    /\ serviceUp
    /\ phase[r] = "idle" /\ Cardinality(Begun) < MaxRequests
    /\ phase' = [phase EXCEPT ![r] = IF channel = "none" THEN "fallback"
                                                         ELSE "publishing"]
    /\ UNCHANGED <<serviceUp, channel, brokerUp, msg, consumerVars, recordVars, faults>>

(* An exception before that: success is false or the status is 500, and    *)
(* nothing is recorded.                                                    *)
Refuse(r) ==
    /\ serviceUp
    /\ phase[r] = "idle" /\ Cardinality(Begun) < MaxRequests
    /\ phase' = [phase EXCEPT ![r] = "refused"]
    /\ UNCHANGED <<serviceUp, channel, brokerUp, msg, consumerVars, recordVars, faults>>

(* The broker confirms the message; publish returns True. *)
PublishConfirmed(r) ==
    /\ phase[r] = "publishing"
    /\ brokerUp
    /\ phase' = [phase EXCEPT ![r] = "replying"]
    /\ msg' = [msg EXCEPT ![r] = "ready"]
    /\ UNCHANGED <<serviceUp, channel, brokerUp, consumerVars, recordVars, faults>>

(* publish raises and falls back: before anything was sent (a record that  *)
(* json cannot take, a channel that was closed), or because the connection *)
(* broke before the confirm, when the broker may have stored the message   *)
(* all the same.                                                           *)
PublishInterrupted(r) ==
    /\ phase[r] = "publishing"
    /\ phase' = [phase EXCEPT ![r] = "fallback"]
    /\ \E stored \in {"none"} \cup (IF brokerUp THEN {} ELSE {"ready"}) :
          msg' = [msg EXCEPT ![r] = stored]
    /\ UNCHANGED <<serviceUp, channel, brokerUp, consumerVars, recordVars, faults>>

(* _fallback_sync_persist: a row, whatever the queue was; or an exception, *)
(* logged and dropped.                                                     *)
FallbackPersisted(r) ==
    /\ phase[r] = "fallback"
    /\ phase' = [phase EXCEPT ![r] = "replying"]
    /\ rows' = [rows EXCEPT ![r] = @ + 1]
    /\ UNCHANGED <<serviceUp, channel, brokerUp, msg, consumerVars, swallowed, faults>>

FallbackFailed(r) ==
    /\ phase[r] = "fallback"
    /\ phase' = [phase EXCEPT ![r] = "replying"]
    /\ swallowed' = swallowed \cup {r}
    /\ UNCHANGED <<serviceUp, channel, brokerUp, msg, consumerVars, rows, faults>>

(* The handler returns success to the client. *)
Answer(r) ==
    /\ phase[r] = "replying"
    /\ phase' = [phase EXCEPT ![r] = "answered"]
    /\ UNCHANGED <<serviceUp, channel, brokerUp, msg, consumerVars, recordVars, faults>>

-----------------------------------------------------------------------------
(* The broker.                                                             *)

SameQueue(r) == IF r \in Asks THEN Asks ELSE Connects

Outstanding(r) == Cardinality({q \in SameQueue(r) : msg[q] \in Unacked})

(* Mutant: the consumer of the history queue acknowledges on delivery. *)
DeliverAutoAck(r) ==
    /\ consumerUp /\ brokerUp
    /\ msg[r] = "ready"
    /\ msg' = [msg EXCEPT ![r] = "acked"]
    /\ orphans' = [orphans EXCEPT ![r] = @ + 1]
    /\ UNCHANGED <<serviceVars, brokerUp, consumerUp, recordVars, faults>>

(* Mutant: the consumer only consumes the introspection queue. *)
DeliverIntrospectionOnly(r) ==
    /\ consumerUp /\ brokerUp
    /\ msg[r] = "ready" /\ r \in Connects
    /\ msg' = [msg EXCEPT ![r] = "running"]
    /\ UNCHANGED <<serviceVars, brokerUp, consumerVars, recordVars, faults>>

(* A message is delivered and on_message starts; several run at once, up   *)
(* to the prefetch count of the queue's consumer.                          *)
Deliver(r) ==
    /\ consumerUp /\ brokerUp
    /\ msg[r] = "ready"
    /\ Outstanding(r) < Prefetch
    /\ msg' = [msg EXCEPT ![r] = "running"]
    /\ UNCHANGED <<serviceVars, brokerUp, consumerVars, recordVars, faults>>

(* A message that has waited MESSAGE_EXPIRATION_MS is dropped. *)
Expire(r) ==
    /\ brokerUp
    /\ msg[r] = "ready"
    /\ msg' = [msg EXCEPT ![r] = "expired"]
    /\ UNCHANGED <<serviceVars, brokerUp, consumerVars, recordVars, faults>>

TakenBack == [r \in Requests |-> IF msg[r] \in Unacked THEN "ready" ELSE msg[r]]

(* The broker or its connections fail.  The queues are durable and the     *)
(* messages persistent; unacknowledged ones will be delivered again.       *)
BrokerDown ==
    /\ brokerUp
    /\ faults < MaxFaults
    /\ faults' = faults + 1
    /\ brokerUp' = FALSE
    /\ msg' = TakenBack
    /\ orphans' = [r \in Requests |->
                     IF msg[r] = "running" THEN orphans[r] + 1 ELSE orphans[r]]
    /\ UNCHANGED <<serviceVars, consumerUp, recordVars>>

(* It is back; connect_robust reconnects the clients that were connected. *)
BrokerRestart ==
    /\ ~brokerUp
    /\ brokerUp' = TRUE
    /\ UNCHANGED <<serviceVars, msg, consumerVars, recordVars, faults>>

-----------------------------------------------------------------------------
(* The consumer process.                                                   *)

(* main: without a broker the first connect fails, the process ends, and   *)
(* the container is restarted.                                             *)
ConsumerStart ==
    /\ ~consumerUp
    /\ brokerUp
    /\ consumerUp' = TRUE
    /\ UNCHANGED <<serviceVars, brokerUp, msg, orphans, recordVars, faults>>

ConsumerCrash ==
    /\ consumerUp
    /\ faults < MaxFaults
    /\ faults' = faults + 1
    /\ consumerUp' = FALSE
    /\ msg' = TakenBack
    /\ orphans' = [r \in Requests |-> 0]
    /\ UNCHANGED <<serviceVars, brokerUp, recordVars>>

PersistedAnyway(r) == rows' = [rows EXCEPT ![r] = @ + 1]           \* mutant

(* What on_message does with a record: _async_persist commits a row for a  *)
(* query; for a session it introspects the schema.                         *)
Persisted(r) == rows' = [rows EXCEPT ![r] = IF r \in Asks THEN @ + 1 ELSE @]

HandlerPersists(r) ==
    /\ msg[r] = "running"
    /\ Persisted(r)
    /\ msg' = [msg EXCEPT ![r] = "finished"]
    /\ UNCHANGED <<serviceVars, brokerUp, consumerVars, swallowed, faults>>

(* Any exception is printed inside message.process(), so the message will  *)
(* be acknowledged as if it had been handled.                              *)
HandlerFails(r) ==
    /\ msg[r] = "running"
    /\ swallowed' = swallowed \cup {r}
    /\ msg' = [msg EXCEPT ![r] = "finished"]
    /\ UNCHANGED <<serviceVars, brokerUp, consumerVars, rows, faults>>

(* Mutant: the finished message is put back instead of acknowledged. *)
AckRequeues(r) ==
    /\ msg[r] = "finished"
    /\ brokerUp
    /\ msg' = [msg EXCEPT ![r] = "ready"]
    /\ UNCHANGED <<serviceVars, brokerUp, consumerVars, recordVars, faults>>

Ack(r) ==
    /\ msg[r] = "finished"
    /\ brokerUp
    /\ msg' = [msg EXCEPT ![r] = "acked"]
    /\ UNCHANGED <<serviceVars, brokerUp, consumerVars, recordVars, faults>>

(* An orphan ends; its acknowledgement goes to a closed channel. *)
OrphanPersists(r) ==
    /\ orphans[r] > 0
    /\ Persisted(r)
    /\ orphans' = [orphans EXCEPT ![r] = @ - 1]
    /\ UNCHANGED <<serviceVars, brokerUp, consumerUp, msg, swallowed, faults>>

OrphanFails(r) ==
    /\ orphans[r] > 0
    /\ swallowed' = swallowed \cup {r}
    /\ orphans' = [orphans EXCEPT ![r] = @ - 1]
    /\ UNCHANGED <<serviceVars, brokerUp, consumerUp, msg, rows, faults>>

-----------------------------------------------------------------------------
ServiceNext(r) ==
    \/ CallPublish(r) \/ Refuse(r)
    \/ PublishConfirmed(r) \/ PublishInterrupted(r)
    \/ FallbackPersisted(r) \/ FallbackFailed(r) \/ Answer(r)

BrokerNext(r) == Deliver(r) \/ Expire(r)

ConsumerNext(r) ==
    \/ HandlerPersists(r) \/ HandlerFails(r) \/ Ack(r)
    \/ OrphanPersists(r) \/ OrphanFails(r)

ProcessNext ==
    \/ ServiceStart \/ ServiceStop
    \/ BrokerDown \/ BrokerRestart
    \/ ConsumerStart \/ ConsumerCrash

Next ==
    \/ ProcessNext
    \/ \E r \in Requests : ServiceNext(r) \/ BrokerNext(r) \/ ConsumerNext(r)

Spec == Init /\ [][Next]_vars

(* The containers of the broker and of the consumer restart, the broker    *)
(* delivers what is ready, and a handler that started ends.                *)
Fairness ==
    /\ WF_vars(BrokerRestart) /\ WF_vars(ConsumerStart)
    /\ \A r \in Requests :
          /\ WF_vars(PublishConfirmed(r) \/ PublishInterrupted(r))
          /\ WF_vars(FallbackPersisted(r) \/ FallbackFailed(r))
          /\ WF_vars(Answer(r))
          /\ WF_vars(Deliver(r))
          /\ WF_vars(HandlerPersists(r) \/ HandlerFails(r))
          /\ WF_vars(Ack(r))

FairSpec == Spec /\ Fairness

-----------------------------------------------------------------------------
Recorded(r) == rows[r] > 0 \/ r \in swallowed

(* No silent loss: when the client has its answer (or is about to), its    *)
(* query has a row, or its message is still in the broker, or it was lost  *)
(* in one of the two ways the code has: the message expired, or a failed   *)
(* write was caught (in the fallback or in on_message).  Crashes of the    *)
(* consumer, broker failures and restarts of the service lose nothing.     *)
AccountedFor ==
    \A r \in Asks :
        phase[r] \in {"replying", "answered"} =>
            Recorded(r) \/ msg[r] \in {"ready", "running", "finished", "expired"}

(* Duplicates only from faults: a request never has more rows than one     *)
(* plus the number of broker failures and consumer crashes; without faults *)
(* it has at most one, whichever way publish took.                         *)
RowBound == \A r \in Requests : rows[r] <= 1 + faults

(* A session opening leaves a row of history only when its publish falls   *)
(* back, and then once: its message, stored by a broker that failed before *)
(* the confirm, delivered again or still handled by an orphan, adds none.  *)
OpeningsFallBack ==
    [][\A r \in Connects :
          rows'[r] # rows[r] => phase[r] = "fallback" /\ rows[r] = 0]_vars

(* Every answered query is eventually recorded or lost in one of the two   *)
(* ways: a message does not wait for ever in the broker while faults are   *)
(* finite.                                                                 *)
EventuallyRecorded ==
    \A r \in Asks :
        phase[r] = "answered" ~> (Recorded(r) \/ msg[r] = "expired")
=============================================================================
