-------------------------------- MODULE Sessions --------------------------------
(***************************************************************************)
(* The sessions one user opens on database connections: /session/connect,  *)
(* the questions and refreshes that resolve a session to its connection,   *)
(* close_session, and what they keep in Redis under the session's id: the  *)
(* session itself for an hour, its schema for a day.                       *)
(*                                                                         *)
(* A request is a task with an await at each Redis command, commit and     *)
(* publication.  SchemaCache has the detail of a session's schema,         *)
(* QueryHistory that of the queue, AskQuery what a question does with its  *)
(* connection.                                                             *)
(***************************************************************************)
EXTENDS FiniteSets

CONSTANTS
    Connections,    \* connections of the user, live or deleted
    SessionIds,     \* values of uuid4().hex, each drawn once
    Tasks,          \* slots for concurrent requests
    NoConnection,   \* stands for a key that is missing, or for None
    NoSession       \* the session of a task that has none yet

ASSUME NoConnectionAssumption == NoConnection \notin Connections
ASSUME NoSessionAssumption == NoSession \notin SessionIds

VARIABLES
    key,       \* the connection under session:{id}, if the key is there
    schema,    \* sessions with keys of their schema
    queue,     \* sessions with a message in the introspection queue
    drawn,     \* ids that connect_session has drawn
    known,     \* ids that have been answered to the client
    ended,     \* sessions that have been closed or have expired
    pc,        \* where each task is
    sid,       \* the session of each task
    target,    \* the connection a task opens the session on or works on
    late       \* whether the session had ended when the request began

redisVars == <<key, schema, ended>>
taskVars == <<pc, sid, target, late>>
vars == <<redisVars, queue, drawn, known, taskVars>>

Steps == {"idle", "store", "commit", "publish", "connected",
          "resolve", "serving", "answered",
          "check", "remove", "forget", "closed", "failed"}
Over == {"connected", "answered", "closed", "failed"}

(* Types: a session's key is a connection or missing, the other keys are   *)
(* sets of sessions.                                                       *)
TypeOK ==
    /\ key \in [SessionIds -> Connections \cup {NoConnection}]
    /\ schema \in SUBSET SessionIds
    /\ queue \in SUBSET SessionIds
    /\ drawn \in SUBSET SessionIds
    /\ known \in SUBSET SessionIds
    /\ ended \in SUBSET SessionIds
    /\ pc \in [Tasks -> Steps]
    /\ sid \in [Tasks -> SessionIds \cup {NoSession}]
    /\ target \in [Tasks -> Connections \cup {NoConnection}]
    /\ late \in [Tasks -> BOOLEAN]

Init ==
    /\ key = [s \in SessionIds |-> NoConnection]
    /\ schema = {} /\ queue = {} /\ drawn = {} /\ known = {} /\ ended = {}
    /\ pc = [w \in Tasks |-> "idle"]
    /\ sid = [w \in Tasks |-> NoSession]
    /\ target = [w \in Tasks |-> NoConnection]
    /\ late = [w \in Tasks |-> FALSE]

Open(s) == key[s] # NoConnection

-----------------------------------------------------------------------------
Begin(w, step, s, c) ==
    /\ pc[w] = "idle"
    /\ pc' = [pc EXCEPT ![w] = step]
    /\ sid' = [sid EXCEPT ![w] = s]
    /\ target' = [target EXCEPT ![w] = c]
    /\ late' = [late EXCEPT ![w] = s \in ended]
    /\ UNCHANGED <<redisVars, queue, drawn, known>>

Goto(w, step) == pc' = [pc EXCEPT ![w] = step]

(* The slot of a task is free again, its local state gone. *)
Leave(w) ==
    /\ pc' = [pc EXCEPT ![w] = "idle"]
    /\ sid' = [sid EXCEPT ![w] = NoSession]
    /\ target' = [target EXCEPT ![w] = NoConnection]
    /\ late' = [late EXCEPT ![w] = FALSE]
    /\ UNCHANGED <<redisVars, queue, drawn>>

(* The client receives the answer, and with it the id of a new session. *)
Finish(w) ==
    /\ pc[w] \in Over
    /\ known' = IF pc[w] = "connected" THEN known \cup {sid[w]} ELSE known
    /\ Leave(w)

(* An exception (Redis, the database, introspection) or a crash *)
Abandon(w) ==
    /\ pc[w] \notin Over \cup {"idle"}
    /\ Leave(w)
    /\ UNCHANGED known

-----------------------------------------------------------------------------
(* /session/connect: db.get finds the connection, also a deleted one. *)
BeginConnect(w) == \E c \in Connections : Begin(w, "store", NoSession, c)

(* setex of session:{id} under a new id *)
StoreSession(w) ==
    /\ pc[w] = "store"
    /\ \E s \in SessionIds \ drawn :
          /\ drawn' = drawn \cup {s}
          /\ sid' = [sid EXCEPT ![w] = s]
          /\ key' = [key EXCEPT ![s] = target[w]]
    /\ Goto(w, "commit")
    /\ UNCHANGED <<schema, ended, queue, known, target, late>>

(* last_accessed is committed. *)
CommitAccess(w) ==
    /\ pc[w] = "commit"
    /\ Goto(w, "publish")
    /\ UNCHANGED <<redisVars, queue, drawn, known, sid, target, late>>

(* publish to the introspection queue; it may fall back and send nothing. *)
PublishSession(w) ==
    /\ pc[w] = "publish"
    /\ \E sent \in {{}, {sid[w]}} : queue' = queue \cup sent
    /\ Goto(w, "connected")
    /\ UNCHANGED <<redisVars, drawn, known, sid, target, late>>

-----------------------------------------------------------------------------
(* /query/ask and /schema/refresh                                          *)
BeginAsk(w) == \E s \in known : Begin(w, "resolve", s, NoConnection)

(* _get_connection_string_for_session: a session whose key is gone raises. *)
Resolve(w) ==
    /\ pc[w] = "resolve"
    /\ target' = [target EXCEPT ![w] = key[sid[w]]]
    /\ Goto(w, IF Open(sid[w]) THEN "serving" ELSE "failed")
    /\ UNCHANGED <<redisVars, queue, drawn, known, sid, late>>

(* Mutant: a served request prolongs its session. *)
ServeProlongs(w) ==
    /\ pc[w] = "serving"
    /\ schema' = schema \cup {sid[w]}
    /\ key' = [key EXCEPT ![sid[w]] = target[w]]
    /\ Goto(w, "answered")
    /\ UNCHANGED <<ended, queue, drawn, known, sid, target, late>>

(* The schema is found in the cache, or introspected and cached. *)
Serve(w) ==
    /\ pc[w] = "serving"
    /\ schema' = schema \cup {sid[w]}
    /\ Goto(w, "answered")
    /\ UNCHANGED <<key, ended, queue, drawn, known, sid, target, late>>

-----------------------------------------------------------------------------
(* close_session                                                           *)
BeginClose(w) == \E s \in known : Begin(w, "check", s, NoConnection)

(* 404 if the session has ended *)
CheckClose(w) ==
    /\ pc[w] = "check"
    /\ Goto(w, IF Open(sid[w]) THEN "remove" ELSE "failed")
    /\ UNCHANGED <<redisVars, queue, drawn, known, sid, target, late>>

RemoveSession(w) ==
    /\ pc[w] = "remove"
    /\ key' = [key EXCEPT ![sid[w]] = NoConnection]
    /\ ended' = ended \cup {sid[w]}
    /\ Goto(w, "forget")
    /\ UNCHANGED <<schema, queue, drawn, known, sid, target, late>>

(* schema:{id} is deleted, which is none of the schema's keys. *)
ForgetSchema(w) ==
    /\ pc[w] = "forget"
    /\ Goto(w, "closed")
    /\ UNCHANGED <<redisVars, queue, drawn, known, sid, target, late>>

-----------------------------------------------------------------------------
(* The consumer introspects the session's database, be it closed or not,   *)
(* or fails; the message expires after five minutes.                       *)
Consume(s) ==
    /\ s \in queue
    /\ queue' = queue \ {s}
    /\ \E cached \in {{}, {s}} : schema' = schema \cup cached
    /\ UNCHANGED <<key, ended, drawn, known, taskVars>>

(* Mutant: sessions are stored without a time to live. *)
ExpireSessionNever(s) == FALSE /\ UNCHANGED vars

ExpireSession(s) ==
    /\ Open(s)
    /\ key' = [key EXCEPT ![s] = NoConnection]
    /\ ended' = ended \cup {s}
    /\ UNCHANGED <<schema, queue, drawn, known, taskVars>>

ExpireSchema(s) ==
    /\ s \in schema
    /\ schema' = schema \ {s}
    /\ UNCHANGED <<key, ended, queue, drawn, known, taskVars>>

-----------------------------------------------------------------------------
TaskStep(w) ==
    \/ StoreSession(w) \/ CommitAccess(w) \/ PublishSession(w)
    \/ Resolve(w) \/ Serve(w)
    \/ CheckClose(w) \/ RemoveSession(w) \/ ForgetSchema(w)
    \/ Finish(w)

Next ==
    \/ \E w \in Tasks :
          \/ BeginConnect(w) \/ BeginAsk(w) \/ BeginClose(w)
          \/ TaskStep(w) \/ Abandon(w)
    \/ \E s \in SessionIds : Consume(s) \/ ExpireSession(s) \/ ExpireSchema(s)

Spec == Init /\ [][Next]_vars

(* A request that has begun goes on or is abandoned, messages are consumed *)
(* or expire, keys expire.                                                 *)
Fairness ==
    /\ \A w \in Tasks : WF_vars(TaskStep(w) \/ Abandon(w))
    /\ \A s \in SessionIds :
          WF_vars(Consume(s)) /\ WF_vars(ExpireSession(s)) /\ WF_vars(ExpireSchema(s))

FairSpec == Spec /\ Fairness

-----------------------------------------------------------------------------
(* A session that has been closed or has expired serves no question that   *)
(* comes in later, whatever was under way when it ended: no request        *)
(* brings its key back.                                                    *)
EndedServesNothing == \A w \in Tasks : pc[w] = "serving" => ~late[w]

(* Every session is released in the end, even if its connection has been   *)
(* deleted, its client never closes it or never learned its id, and even   *)
(* if the consumer or a question caches the schema after the session was   *)
(* closed: neither its key nor its schema stays in Redis.                  *)
EventuallyReleased == \A s \in SessionIds : <>[](~Open(s) /\ s \notin schema)
=============================================================================
