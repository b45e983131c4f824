--------------------------- MODULE ConnectionCatalog ---------------------------
(***************************************************************************)
(* The database connections of one user: the rows of the connections table *)
(* and the list of them that connection_service caches in Redis.           *)
(*                                                                         *)
(* A request is a task with an await at each Redis command and at each     *)
(* statement or commit; the other requests of the user, in the same        *)
(* process or another, run in between.                                     *)
(***************************************************************************)
EXTENDS FiniteSets

CONSTANTS
    Connections,   \* connections the user may add
    Tasks,         \* slots for concurrent requests
    NoConnection   \* stands for None

ASSUME NoConnectionAssumption == NoConnection \notin Connections

VARIABLES
    row,        \* committed row of each connection: none, live, deleted
    cache,      \* the cached list; {} if the key is missing or the list empty
    pc,         \* where each task is
    target,     \* the connection a task adds or deletes
    got,        \* what a task has read from the table or the cache
    disturbed   \* whether tasks have ever overlapped or been abandoned

taskVars == <<pc, target, got>>
vars == <<row, cache, taskVars, disturbed>>

Steps == {"idle", "list", "query", "fill", "listed",
          "insert", "forget", "added",
          "select", "drop", "commit", "deleted"}

(* Types: lists are sets of connections, and a task has a target or none.  *)
TypeOK ==
    /\ row \in [Connections -> {"none", "live", "deleted"}]
    /\ cache \in SUBSET Connections
    /\ pc \in [Tasks -> Steps]
    /\ target \in [Tasks -> Connections \cup {NoConnection}]
    /\ got \in [Tasks -> SUBSET Connections]
    /\ disturbed \in BOOLEAN

Init ==
    /\ row = [c \in Connections |-> "none"]
    /\ cache = {}
    /\ pc = [w \in Tasks |-> "idle"]
    /\ target = [w \in Tasks |-> NoConnection]
    /\ got = [w \in Tasks |-> {}]
    /\ disturbed = FALSE

Live == {c \in Connections : row[c] = "live"}
Quiet == \A w \in Tasks : pc[w] = "idle"
Adding(c) == \E w \in Tasks : target[w] = c /\ pc[w] = "insert"

-----------------------------------------------------------------------------
Begin(w, step, c) ==
    /\ pc[w] = "idle"
    /\ pc' = [pc EXCEPT ![w] = step]
    /\ target' = [target EXCEPT ![w] = c]
    /\ disturbed' = (disturbed \/ ~Quiet)
    /\ UNCHANGED <<row, cache, got>>

Goto(w, step) ==
    /\ pc' = [pc EXCEPT ![w] = step]
    /\ UNCHANGED <<target, disturbed>>

(* The slot of a task is free again, its local state gone. *)
Leave(w) ==
    /\ pc' = [pc EXCEPT ![w] = "idle"]
    /\ target' = [target EXCEPT ![w] = NoConnection]
    /\ got' = [got EXCEPT ![w] = {}]
    /\ UNCHANGED <<row, cache>>

Finish(w) ==
    /\ pc[w] \in {"listed", "added", "deleted"}
    /\ Leave(w)
    /\ UNCHANGED disturbed

(* An exception (Redis, the database) or a crash: what was committed or    *)
(* deleted from Redis stays, and the open transaction is rolled back.      *)
Abandon(w) ==
    /\ pc[w] \notin {"idle", "listed", "added", "deleted"}
    /\ Leave(w)
    /\ disturbed' = TRUE

-----------------------------------------------------------------------------
(* get_connections_for_user *)
BeginList(w) == Begin(w, "list", NoConnection)

ReadCacheRaw(w) ==   \* mutant: the cached value is not decoded
    /\ pc[w] = "list"
    /\ got' = [got EXCEPT ![w] = {cache}]
    /\ Goto(w, IF cache = {} THEN "query" ELSE "listed")
    /\ UNCHANGED <<row, cache>>

ReadCache(w) ==
    /\ pc[w] = "list"
    /\ got' = [got EXCEPT ![w] = cache]
    /\ Goto(w, IF cache = {} THEN "query" ELSE "listed")
    /\ UNCHANGED <<row, cache>>

QueryRows(w) ==
    /\ pc[w] = "query"
    /\ got' = [got EXCEPT ![w] = Live]
    /\ Goto(w, "fill")
    /\ UNCHANGED <<row, cache>>

FillCache(w) ==
    /\ pc[w] = "fill"
    /\ cache' = got[w]
    /\ Goto(w, "listed")
    /\ UNCHANGED <<row, got>>

-----------------------------------------------------------------------------
(* /connections/add, from the moment the database's tables are counted *)
BeginAdd(w) ==
    \E c \in Connections :
        row[c] = "none" /\ ~Adding(c) /\ Begin(w, "insert", c)

(* flush and commit of add_connection *)
InsertRow(w) ==
    /\ pc[w] = "insert"
    /\ row' = [row EXCEPT ![target[w]] = "live"]
    /\ Goto(w, "forget")
    /\ UNCHANGED <<cache, got>>

(* redis_delete of the list, after the commit *)
ForgetListNot(w) ==   \* mutant: the list is not deleted
    /\ pc[w] = "forget"
    /\ Goto(w, "added")
    /\ UNCHANGED <<row, cache, got>>

ForgetList(w) ==
    /\ pc[w] = "forget"
    /\ cache' = {}
    /\ Goto(w, "added")
    /\ UNCHANGED <<row, got>>

-----------------------------------------------------------------------------
(* DELETE /connections/{id}: soft_delete_connection, and then the commit   *)
(* that get_db does when the endpoint has returned.                        *)
BeginDelete(w) ==
    \E c \in Connections : row[c] # "none" /\ Begin(w, "select", c)

(* A row that is deleted is not found: 404. *)
SelectRow(w) ==
    /\ pc[w] = "select"
    /\ Goto(w, IF row[target[w]] = "live" THEN "drop" ELSE "deleted")
    /\ UNCHANGED <<row, cache, got>>

(* redis_delete of the list, before the commit *)
DropList(w) ==
    /\ pc[w] = "drop"
    /\ cache' = {}
    /\ Goto(w, "commit")
    /\ UNCHANGED <<row, got>>

CommitDelete(w) ==
    /\ pc[w] = "commit"
    /\ row' = [row EXCEPT ![target[w]] = "deleted"]
    /\ Goto(w, "deleted")
    /\ UNCHANGED <<cache, got>>

-----------------------------------------------------------------------------
(* Mutant: the list is cached without a time to live. *)
ExpireListNever == FALSE /\ UNCHANGED vars

(* 300 seconds after FillCache *)
ExpireList ==
    /\ cache # {}
    /\ cache' = {}
    /\ UNCHANGED <<row, taskVars, disturbed>>

-----------------------------------------------------------------------------
TaskStep(w) ==
    \/ ReadCache(w) \/ QueryRows(w) \/ FillCache(w)
    \/ InsertRow(w) \/ ForgetList(w)
    \/ SelectRow(w) \/ DropList(w) \/ CommitDelete(w)
    \/ Finish(w)

Next ==
    \/ \E w \in Tasks :
          \/ BeginList(w) \/ BeginAdd(w) \/ BeginDelete(w)
          \/ TaskStep(w) \/ Abandon(w)
    \/ ExpireList

Spec == Init /\ [][Next]_vars

(* A request that has begun goes on or is abandoned; the cached list expires. *)
Fairness == WF_vars(ExpireList) /\ \A w \in Tasks : WF_vars(TaskStep(w))

FairSpec == Spec /\ Fairness

-----------------------------------------------------------------------------
(* Used by one request at a time, without failures, the cached list always *)
(* agrees with the table between requests: add and delete both invalidate  *)
(* it, on either side of their commit.                                     *)
SerialListAgrees == (~disturbed /\ Quiet) => cache \in {{}, Live}

(* Whatever overlaps or fails, a stale list does not stay: when nothing is *)
(* added or deleted any more, the cache ends up agreeing with the table.   *)
EventuallyAgrees ==
    <>[][UNCHANGED row]_vars => <>[](cache \in {{}, Live})
=============================================================================
