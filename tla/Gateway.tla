--------------------------------- MODULE Gateway ---------------------------------
(***************************************************************************)
(* Requests to /api/v1 on their way through one gateway process: guard,    *)
(* ValidationPipe, ProxyController and QueryMindClient with the shared     *)
(* circuit breaker of module CircuitBreaker, down to the reply; and the    *)
(* end of the process on SIGTERM.                                          *)
(*                                                                         *)
(* What decides the fate of a request is its route and whether its fields  *)
(* are the right ones, first in the eyes of ForwardRequestDto, then in     *)
(* those of the service.  The service is a contract here: it can be down,  *)
(* slower than the timeout of axios, or fail on a request it serves (5xx,  *)
(* or 404 for what is gone); otherwise it answers what it serves with 2xx  *)
(* and the rest with 4xx.  Envelopes, headers and the request log, which   *)
(* nobody waits for, are left out.                                         *)
(***************************************************************************)
EXTENDS CircuitBreaker

CONSTANTS
    Routes,         \* the routes that are called
    NoRequest

AllRoutes == {"add", "list", "test", "remove", "connect", "schema", "ask",
              "execute", "history"}

ASSUME RoutesAssumption == Routes \subseteq AllRoutes

(* With Calls, the slots for requests the process works on, and breaker,   *)
(* the variables of the circuit breaker.                                   *)
VARIABLES
    request,     \* what each slot works on
    checked,     \* slots whose request is with the controller
    process,     \* life of the gateway process
    service,     \* whether the service runs
    hit,         \* calls in flight the service fails: no answer in time, or an error
    troubled     \* history: see SoundIsServed

vars == <<breaker, request, checked, process, service, hit, troubled>>

-----------------------------------------------------------------------------
WithBody == {"add", "test", "connect", "ask", "execute"}

(* The requests clients send.  ForwardRequestDto has no url, so for add    *)
(* and test the fields the service wants are foreign ones.                 *)
Request ==
    {q \in [route : Routes, fields : {"right", "foreign", "missing"}, token : BOOLEAN] :
        /\ q.route \notin WithBody => q.fields = "right"
        /\ q.route \in {"add", "test"} => q.fields # "right"}

ASSUME NoRequestAssumption == NoRequest \notin Request

(* What the service answers with 2xx by its routes and their parameters.   *)
(* It has no /query/execute; it wants the user in the query of a deletion  *)
(* and of a schema, where the gateway does not put it.                     *)
Served(q) ==
    q.route \in {"list", "connect", "ask", "history"} /\ q.fields = "right"

Sound(c) == request[c] # NoRequest /\ Served(request[c])
Flying == {c \in Calls : call[c] \in InFlight}

(* In flight, and not to be answered with 2xx. *)
Doomed == {c \in Flying : c \in hit \/ ~Sound(c)}

(* Types: a call is made only for a request the controller has, and once   *)
(* the server is closed nothing is being worked on.                        *)
TypeOK ==
    /\ BreakerTypeOK
    /\ request \in [Calls -> Request \cup {NoRequest}]
    /\ checked \subseteq {c \in Calls : request[c] # NoRequest}
    /\ process \in {"up", "closing", "closed", "down"}
    /\ service \in BOOLEAN
    /\ hit \subseteq Flying
    /\ troubled \in BOOLEAN
    /\ \A c \in Calls : call[c] # "idle" => c \in checked
    /\ process \in {"closed", "down"} => \A c \in Calls : request[c] = NoRequest

-----------------------------------------------------------------------------
Init ==
    /\ BreakerInit
    /\ request = [c \in Calls |-> NoRequest]
    /\ checked = {}
    /\ process = "up"
    /\ service = TRUE
    /\ hit = {}
    /\ troubled = FALSE

(* A request comes in; to a server that is closing, on a connection that   *)
(* is still in use.                                                        *)
Arrive(c, q) ==
    /\ \/ process = "up"
       \/ process = "closing" /\ \E d \in Calls : request[d] # NoRequest
    /\ request[c] = NoRequest
    /\ request' = [request EXCEPT ![c] = q]
    /\ UNCHANGED <<breaker, checked, process, service, hit, troubled>>

Leaves(c) == request' = [request EXCEPT ![c] = NoRequest]

(* JwtAuthGuard: 401. *)
Unauthorized(c) ==
    /\ request[c] # NoRequest /\ c \notin checked
    /\ ~request[c].token
    /\ Leaves(c)
    /\ UNCHANGED <<breaker, checked, process, service, hit, troubled>>

(* ValidationPipe, after the guard: 400. *)
Invalid(c) ==
    /\ request[c] # NoRequest /\ c \notin checked
    /\ request[c].token
    /\ request[c].fields = "foreign"
    /\ Leaves(c)
    /\ UNCHANGED <<breaker, checked, process, service, hit, troubled>>

(* Mutant: without forbidNonWhitelisted the pipe passes foreign fields. *)
AcceptForeign(c) ==
    /\ request[c] # NoRequest /\ c \notin checked
    /\ request[c].token
    /\ checked' = checked \cup {c}
    /\ UNCHANGED <<breaker, request, process, service, hit, troubled>>

Accept(c) ==
    /\ request[c] # NoRequest /\ c \notin checked
    /\ request[c].token
    /\ request[c].fields # "foreign"
    /\ checked' = checked \cup {c}
    /\ UNCHANGED <<breaker, request, process, service, hit, troubled>>

-----------------------------------------------------------------------------
(* The handler calls the client with the request and the user of its token.*)
(* A request the service will refuse is trouble from the moment it leaves. *)
Forward(c) ==
    /\ c \in checked
    /\ Admit(c)
    /\ hit' = IF service THEN hit ELSE hit \cup {c}
    /\ troubled' = (troubled \/ request[c].fields = "missing"
                             \/ request[c].route \in {"remove", "schema", "execute"})
    /\ UNCHANGED <<request, checked, process, service>>

TurnAway(c) ==
    /\ c \in checked
    /\ Reject(c)
    /\ UNCHANGED <<request, checked, process, service, hit, troubled>>

(* A 2xx answer; with it, past trouble is over. *)
Answered(c) ==
    /\ Sound(c) /\ c \notin hit
    /\ Succeed(c)
    /\ troubled' = (~service \/ Doomed # {})
    /\ UNCHANGED <<request, checked, process, service, hit>>

(* A 4xx or 5xx answer, a lost connection, or none before the timeout. *)
NotAnswered(c) ==
    /\ c \in Doomed
    /\ Fail(c)
    /\ hit' = hit \ {c}
    /\ UNCHANGED <<request, checked, process, service, troubled>>

(* ResponseInterceptor replies 2xx, or GlobalExceptionFilter 503. *)
Reply(c) ==
    /\ Return(c)
    /\ Leaves(c)
    /\ checked' = checked \ {c}
    /\ UNCHANGED <<process, service, hit, troubled>>

TimePasses ==
    /\ Tick
    /\ UNCHANGED <<request, checked, process, service, hit, troubled>>

-----------------------------------------------------------------------------
(* The service stops, with some answers already on their way. *)
ServiceStops ==
    /\ service
    /\ service' = FALSE
    /\ hit' \in {h \in SUBSET Flying : hit \subseteq h}
    /\ troubled' = TRUE
    /\ UNCHANGED <<breaker, request, checked, process>>

ServiceStarts ==
    /\ ~service
    /\ service' = TRUE
    /\ UNCHANGED <<breaker, request, checked, process, hit, troubled>>

(* The service takes longer than the timeout of axios, or comes to fail on *)
(* the request: an exception it answers with 500, a row that is gone.      *)
Failing(c) ==
    /\ c \in Flying \ hit
    /\ hit' = hit \cup {c}
    /\ troubled' = TRUE
    /\ UNCHANGED <<breaker, request, checked, process, service>>

-----------------------------------------------------------------------------
(* SIGTERM: server.close, and the timer that forces the exit. *)
Sigterm ==
    /\ process = "up"
    /\ process' = "closing"
    /\ UNCHANGED <<breaker, request, checked, service, hit, troubled>>

(* The last connection is closed; the data source goes, one second passes. *)
Close ==
    /\ process = "closing"
    /\ \A c \in Calls : request[c] = NoRequest
    /\ process' = "closed"
    /\ UNCHANGED <<breaker, request, checked, service, hit, troubled>>

Exit ==
    /\ process = "closed"
    /\ process' = "down"
    /\ UNCHANGED <<breaker, request, checked, service, hit, troubled>>

(* The process ends, and what it was working on with it. *)
CutOff ==
    /\ process' = "down"
    /\ request' = [c \in Calls |-> NoRequest]
    /\ call' = [c \in Calls |-> "idle"]
    /\ checked' = {}
    /\ hit' = {}
    /\ UNCHANGED <<state, failureCount, sinceFailure, service, troubled>>

(* Mutant: the timer is there, but waits for the server to be closed. *)
ForcedExitWhenClosed == process = "closed" /\ CutOff

ForcedExit == process \in {"closing", "closed"} /\ CutOff

(* A new process, with a breaker that remembers nothing. *)
Start ==
    /\ process = "down"
    /\ process' = "up"
    /\ state' = "CLOSED"
    /\ failureCount' = 0
    /\ sinceFailure' = Never
    /\ troubled' = ~service
    /\ UNCHANGED <<call, request, checked, service, hit>>

Step(c) ==
    Unauthorized(c) \/ Invalid(c) \/ Accept(c) \/ Forward(c) \/ TurnAway(c)
        \/ Answered(c) \/ NotAnswered(c) \/ Reply(c)

Next ==
    \/ \E c \in Calls, q \in Request : Arrive(c, q)
    \/ \E c \in Calls : Step(c) \/ Failing(c)
    \/ TimePasses \/ ServiceStops \/ ServiceStarts
    \/ Sigterm \/ Close \/ Exit \/ ForcedExit \/ Start

Spec == Init /\ [][Next]_vars

(* A request makes progress: the service answers, or axios gives up after  *)
(* its timeout.  The timer of the forced exit fires.                       *)
Fairness ==
    /\ \A c \in Calls : WF_vars(Step(c))
    /\ WF_vars(Close) /\ WF_vars(Exit) /\ WF_vars(ForcedExit)

FairSpec == Spec /\ Fairness

-----------------------------------------------------------------------------
(* A sound request is answered with 503 only in times of trouble: since    *)
(* the last good answer with nothing doubtful in flight, the service was   *)
(* down, slow or failing, or was sent a request it refuses.  Requests the  *)
(* gateway itself refuses, with 400 or 401, never bring the breaker closer *)
(* to opening, in whatever numbers and order they come.                    *)
SoundIsServed ==
    [][\A c \in Calls :
          Sound(c) /\ call'[c] # call[c] /\ call'[c] \in {"failed", "rejected"}
          => troubled]_vars

(* Every request is done with, and a process told to end does, although a  *)
(* connection in use may bring new requests for ever.                      *)
Terminates ==
    /\ \A c \in Calls : request[c] # NoRequest ~> request[c] = NoRequest
    /\ process = "closing" ~> process = "down"
=============================================================================
