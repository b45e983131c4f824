------------------------------ MODULE SchemaCache ------------------------------
(***************************************************************************)
(* The schema of one session's database, cached in Redis by schema_service *)
(* under one key per table and one index key.                              *)
(*                                                                         *)
(* Three kinds of tasks use the cache at the same time, in several         *)
(* processes and with an await at every Redis command: /query/ask          *)
(* (get_cached_schema, then introspect_and_cache on a miss), the consumer  *)
(* of the introspection queue (introspect_and_cache), and /schema/refresh  *)
(* (introspect_and_cache with force_refresh).  Meanwhile the owner of the  *)
(* database changes its tables, and keys expire one by one.                *)
(*                                                                         *)
(* A table has a form, a value of Forms.  An introspection is no snapshot: *)
(* it lists the tables, then asks for one table after another, and for     *)
(* each its columns first and then the rest (primary and foreign keys,     *)
(* indexes, rows: the keys for short), each query seeing the database as   *)
(* it is then.  So a description is a pair of forms.                       *)
(***************************************************************************)
EXTENDS Sequences, Integers, FiniteSets

CONSTANTS
    Tables,      \* names of tables of the user's database
    Forms,       \* forms a table can have
    Tasks,       \* slots for concurrent tasks of all processes
    MaxChanges   \* bound: schema changes of a behaviour

ASSUME FormsAssumption == Forms \cap {"absent", "never", "expired"} = {}
ASSUME MaxChangesAssumption == MaxChanges \in Nat

VARIABLES
    history,   \* the schemas the database has had, the present one last
    index,     \* tables listed under the index key; {} if missing or empty
    entry,     \* description cached of each table, if any
    session,   \* whether the session is open
    pc,        \* where each task is
    kind,      \* what each task is: ask, consume, refresh
    todo,      \* tables a task has yet to read, describe or write
    got,       \* the descriptions a task has gathered so far
    since      \* Len(history) when the task started

taskVars == <<pc, kind, todo, got, since>>
cacheVars == <<index, entry>>
vars == <<history, cacheVars, session, taskVars>>

Kinds == {"ask", "consume", "refresh"}
Schemas == [Tables -> Forms \cup {"absent"}]
Present(s) == {t \in Tables : s[t] # "absent"}
Database == history[Len(history)]

(* What a query may say of a table, or that there is nothing to say.       *)
Descriptions == [columns : Forms, keys : Forms \cup {"absent"}]
No(what) == [columns |-> what, keys |-> what]
Readings == [Tables -> Descriptions \cup {No("absent")}]
Nothing == [t \in Tables |-> No("absent")]
Described(r) == {t \in Tables : r[t].columns # "absent"}
Cached(t) == entry[t].columns \in Forms

(* Types: what is cached for a table, and what a task has gathered of it,  *)
(* is a description or a sign that there is none.                          *)
TypeOK ==
    /\ history \in Seq(Schemas) /\ Len(history) \in 1 .. MaxChanges + 1
    /\ index \in SUBSET Tables
    /\ entry \in [Tables -> Descriptions \cup {No("never"), No("expired")}]
    /\ session \in {"open", "closed"}
    /\ pc \in [Tasks -> {"idle", "lookup", "collect", "index", "gather",
                         "introspect", "columns", "keys", "write", "returned"}]
    /\ kind \in [Tasks -> Kinds]
    /\ todo \in [Tasks -> SUBSET Tables]
    /\ got \in [Tasks -> Readings]
    /\ since \in [Tasks -> 1 .. MaxChanges + 1]

Init ==
    /\ history \in {<<s>> : s \in Schemas}
    /\ index = {}
    /\ entry = [t \in Tables |-> No("never")]
    /\ session = "open"
    /\ pc = [w \in Tasks |-> "idle"]
    /\ kind = [w \in Tasks |-> "ask"]
    /\ todo = [w \in Tasks |-> {}]
    /\ got = [w \in Tasks |-> Nothing]
    /\ since = [w \in Tasks |-> 1]

-----------------------------------------------------------------------------
FirstStepUnforced(k) == IF k = "ask" THEN "lookup" ELSE "index"   \* mutant

(* ask_query begins with get_cached_schema; introspect_and_cache with its  *)
(* own look at the index, unless force_refresh.                            *)
FirstStep(k) == CASE k = "ask"     -> "lookup"
                  [] k = "consume" -> "index"
                  [] k = "refresh" -> "introspect"

(* ask and refresh need the session; a queued message outlives it. *)
Start(w) ==
    /\ pc[w] = "idle"
    /\ \E k \in Kinds :
          /\ k = "consume" \/ session = "open"
          /\ kind' = [kind EXCEPT ![w] = k]
          /\ pc' = [pc EXCEPT ![w] = FirstStep(k)]
    /\ since' = [since EXCEPT ![w] = Len(history)]
    /\ UNCHANGED <<history, cacheVars, session, todo, got>>

Miss(step) == IF step \in {"lookup", "collect"} THEN "index" ELSE "introspect"

(* redis_get of the index key: an expired key and an empty list both miss. *)
ReadIndex(w) ==
    /\ pc[w] \in {"lookup", "index"}
    /\ todo' = [todo EXCEPT ![w] = index]
    /\ pc' = [pc EXCEPT ![w] = IF index = {} THEN Miss(@)
                               ELSE IF @ = "lookup" THEN "collect" ELSE "gather"]
    /\ UNCHANGED <<history, cacheVars, session, kind, got, since>>

(* Mutant: a schema of which nothing is left is returned all the same. *)
ReadTableOrNothing(w) ==
    /\ pc[w] \in {"collect", "gather"}
    /\ \E t \in todo[w] :
          /\ todo' = [todo EXCEPT ![w] = @ \ {t}]
          /\ got' = [got EXCEPT ![w][t] = IF Cached(t) THEN entry[t]
                                                       ELSE No("absent")]
    /\ pc' = [pc EXCEPT ![w] = IF todo'[w] # {} THEN @ ELSE "returned"]
    /\ UNCHANGED <<history, cacheVars, session, kind, since>>

(* redis_get of the next listed table; one that is gone is skipped, and    *)
(* the schema is a miss only if nothing at all was found.                  *)
ReadTable(w) ==
    /\ pc[w] \in {"collect", "gather"}
    /\ \E t \in todo[w] :
          /\ todo' = [todo EXCEPT ![w] = @ \ {t}]
          /\ got' = [got EXCEPT ![w][t] = IF Cached(t) THEN entry[t]
                                                       ELSE No("absent")]
    /\ pc' = [pc EXCEPT ![w] = IF todo'[w] # {} THEN @
                               ELSE IF got'[w] = Nothing THEN Miss(@)
                               ELSE "returned"]
    /\ UNCHANGED <<history, cacheVars, session, kind, since>>

(* _sync_introspect, in the executor, begins with get_table_names. *)
ListTables(w) ==
    /\ pc[w] = "introspect"
    /\ got' = [got EXCEPT ![w] = Nothing]
    /\ todo' = [todo EXCEPT ![w] = Present(Database)]
    /\ pc' = [pc EXCEPT ![w] = IF Present(Database) = {} THEN "write" ELSE "columns"]
    /\ UNCHANGED <<history, cacheVars, session, kind, since>>

(* get_columns of the next listed table, as it is by now. *)
ReadColumns(w) ==
    /\ pc[w] = "columns"
    /\ \E t \in todo[w] \cap Present(Database) :
          got' = [got EXCEPT ![w][t] = [columns |-> Database[t], keys |-> "absent"]]
    /\ pc' = [pc EXCEPT ![w] = "keys"]
    /\ UNCHANGED <<history, cacheVars, session, kind, todo, since>>

(* The other queries about that table, which find nothing if it has gone   *)
(* since; after the last table everything gathered is to be written.       *)
ReadKeys(w) ==
    /\ pc[w] = "keys"
    /\ \E t \in todo[w] \cap Described(got[w]) :
          /\ got' = [got EXCEPT ![w][t].keys = Database[t]]
          /\ LET rest == todo[w] \ {t}
                 step == IF rest = {} THEN "write" ELSE "columns"
             IN /\ todo' = [todo EXCEPT ![w] = IF rest = {} THEN Described(got[w])
                                                            ELSE rest]
                /\ pc' = [pc EXCEPT ![w] = step]
    /\ UNCHANGED <<history, cacheVars, session, kind, since>>

(* redis_set of the next table, with its own time to live. *)
WriteTable(w) ==
    /\ pc[w] = "write"
    /\ \E t \in todo[w] :
          /\ todo' = [todo EXCEPT ![w] = @ \ {t}]
          /\ entry' = [entry EXCEPT ![t] = got[w][t]]
    /\ UNCHANGED <<history, index, session, pc, kind, got, since>>

(* Mutant: the index is written without waiting for the tables. *)
WriteIndexEarly(w) ==
    /\ pc[w] = "write"
    /\ index' = Described(got[w])
    /\ pc' = [pc EXCEPT ![w] = "returned"]
    /\ UNCHANGED <<history, entry, session, kind, todo, got, since>>

(* redis_set of the index, last; the schema is returned. *)
WriteIndex(w) ==
    /\ pc[w] = "write"
    /\ todo[w] = {}
    /\ index' = Described(got[w])
    /\ pc' = [pc EXCEPT ![w] = "returned"]
    /\ UNCHANGED <<history, entry, session, kind, todo, got, since>>

(* The slot of a task is free again, its local state gone. *)
Leave(w) ==
    /\ pc' = [pc EXCEPT ![w] = "idle"]
    /\ kind' = [kind EXCEPT ![w] = "ask"]
    /\ todo' = [todo EXCEPT ![w] = {}]
    /\ got' = [got EXCEPT ![w] = Nothing]
    /\ since' = [since EXCEPT ![w] = 1]
    /\ UNCHANGED <<history, cacheVars, session>>

(* The task goes on with the schema, out of this module's sight. *)
Finish(w) == pc[w] = "returned" /\ Leave(w)

(* get_columns raises an exception: the next listed table is gone. *)
NoSuchTable(w) == pc[w] = "columns" /\ ~(todo[w] \subseteq Present(Database)) /\ Leave(w)

(* An exception (the database or Redis cannot be reached) or a crash of    *)
(* the process: what has been written stays.                               *)
Abandon(w) == pc[w] \notin {"idle", "returned"} /\ Leave(w)

-----------------------------------------------------------------------------
(* Mutant: the keys are set without a time to live. *)
ExpireTableNever(t) == FALSE /\ UNCHANGED vars

(* A key's time to live (SCHEMA_CACHE_TTL) ends. *)
ExpireTable(t) ==
    /\ Cached(t)
    /\ entry' = [entry EXCEPT ![t] = No("expired")]
    /\ UNCHANGED <<history, index, session, taskVars>>

ExpireIndex ==
    /\ index # {}
    /\ index' = {}
    /\ UNCHANGED <<history, entry, session, taskVars>>

(* The database's owner creates, alters or drops a table. *)
Change(t) ==
    /\ Len(history) <= MaxChanges
    /\ \E f \in (Forms \cup {"absent"}) \ {Database[t]} :
          history' = Append(history, [Database EXCEPT ![t] = f])
    /\ UNCHANGED <<cacheVars, session, taskVars>>

(* close_session deletes session:{id} and the key schema:{id}, which       *)
(* nobody writes; the index and the tables stay.                           *)
CloseSession ==
    /\ session = "open"
    /\ session' = "closed"
    /\ UNCHANGED <<history, cacheVars, taskVars>>

-----------------------------------------------------------------------------
TaskStep(w) ==
    \/ ReadIndex(w) \/ ReadTable(w)
    \/ ListTables(w) \/ ReadColumns(w) \/ ReadKeys(w) \/ NoSuchTable(w)
    \/ WriteTable(w) \/ WriteIndex(w) \/ Finish(w)

Next ==
    \/ \E w \in Tasks : Start(w) \/ TaskStep(w) \/ Abandon(w)
    \/ \E t \in Tables : ExpireTable(t) \/ Change(t)
    \/ ExpireIndex \/ CloseSession

Spec == Init /\ [][Next]_vars

(* A task that has started goes on or is abandoned; keys expire. *)
Fairness ==
    /\ \A w \in Tasks : WF_vars(TaskStep(w))
    /\ \A t \in Tables : WF_vars(ExpireTable(t))
    /\ WF_vars(ExpireIndex)

FairSpec == Spec /\ Fairness

-----------------------------------------------------------------------------
(* The index never lists a table that has not been cached: whatever tasks  *)
(* interleave and wherever they are abandoned, a listed table's key can    *)
(* only be missing because it expired.                                     *)
IndexBacked == \A t \in index : entry[t] # No("never")

(* The contract's view of a task: the keys, and what it has gathered until *)
(* it returns, are out of sight.                                           *)
Contract == INSTANCE SchemaContract WITH
    phase <- [w \in Tasks |-> CASE pc[w] = "idle" -> "idle"
                                 [] pc[w] = "returned" -> "answered"
                                 [] OTHER -> "busy"],
    answer <- [w \in Tasks |-> IF pc[w] = "returned" THEN got[w] ELSE Nothing]

(* What /schema/refresh answers was read from the database since the       *)
(* request came in, whatever other tasks do to the cache meanwhile: the    *)
(* tables are those of one moment, and what it says of each was so then or *)
(* later, the columns no later than the keys.  No more: a change while it  *)
(* reads may leave a mixture of schemas.                                   *)
RefreshIsRecent ==
    \A w \in Tasks :
        (pc[w] = "returned" /\ kind[w] = "refresh") => Contract!Recent(w, got[w])

(* However reads, writes, expiries and crashes interleave key by key, an   *)
(* answer has been read from the database since the request came in, or is *)
(* some of the cached tables, each described as the database once had it;  *)
(* and once the session is closed nothing but queued introspections begins.*)
ImplementsSchemaContract == Contract!Spec

Fresh ==
    /\ index \in {{}, Present(Database)}
    /\ \A t \in Tables : Cached(t) => entry[t] = No(Database[t])

(* When the database's schema stops changing, the cache ends up with       *)
(* nothing but its present schema: neither a stale introspection written   *)
(* late nor one that mixes two schemas stays for ever.                     *)
EventuallyFresh == <>[]Fresh
=============================================================================
