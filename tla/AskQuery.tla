-------------------------------- MODULE AskQuery --------------------------------
(***************************************************************************)
(* POST /query/ask for the questions of one session: from the schema in    *)
(* the cache to the SQL, from the cache of generated SQL or from an AI     *)
(* provider (external), through validate_sql to its execution on the       *)
(* user's database.                                                        *)
(*                                                                         *)
(* Requests overlap, with an await at each Redis command, introspection,   *)
(* provider call and execution.  SQL is abstracted to two sets of tables:  *)
(* those validate_sql sees in it, and those the database will look for.    *)
(* They need not be the same, for validate_sql takes one bare name after   *)
(* each FROM and JOIN: it does not see the second of "FROM a, b" nor the   *)
(* quoted one of FROM "a", and it sees a column in EXTRACT(x FROM c).  SQL *)
(* that it refuses for any schema (empty, no SELECT, a refused pattern, a  *)
(* seen name that is no table's) has Bad among the seen; SQL that the      *)
(* database refuses whatever tables it has (because of a column, say) has  *)
(* Wrong among the tables it reads.                                        *)
(* SchemaCache has the detail of the schema's keys; here the cached schema *)
(* is the set of listed tables that are still cached, and an introspection *)
(* is the one query that lists the tables.                                 *)
(***************************************************************************)
EXTENDS Integers

CONSTANTS
    Tables,       \* names of tables
    Questions,    \* questions asked in the session
    Tasks,        \* slots for concurrent requests
    Sql,          \* SQL the providers may come up with
    NoQuestion,   \* a task that only caches the schema: refresh, queued introspection
    Bad, Wrong,   \* stand for what no schema and no database has; no tables
    MaxChanges    \* bound: schema changes of a behaviour

ASSUME QuestionsAssumption == NoQuestion \notin Questions
ASSUME BadAssumption == Bad \notin Tables \cup {Wrong} /\ Wrong \notin Tables
ASSUME SqlAssumption ==
    Sql \subseteq [seen : SUBSET (Tables \cup {Bad}), reads : SUBSET (Tables \cup {Wrong})]
ASSUME MaxChangesAssumption == MaxChanges \in Nat

VARIABLES
    database,    \* tables of the user's database
    ever,        \* tables it has had so far
    changes,     \* schema changes so far
    schema,      \* listed tables whose description is cached; {} is a miss
    sqlCache,    \* generated SQL cached for each question: {} or {the SQL}
    pc,          \* where each task is
    question,    \* the question of each task
    got,         \* the schema each task works with
    sql,         \* the SQL each task works with
    disturbed    \* a change, a partly expired schema, or a failure so far

databaseVars == <<database, ever, changes>>
cacheVars == <<schema, sqlCache>>
taskVars == <<pc, question, got, sql>>
vars == <<databaseVars, cacheVars, taskVars, disturbed>>

NoSql == [seen |-> {}, reads |-> {}]
Steps == {"idle", "lookup", "recheck", "introspect", "cache", "recall",
          "generate", "store", "execute", "failed", "answered", "cached"}
Ended == {"failed", "answered", "cached"}

(* Types: what is cached and held as SQL is SQL, also where nothing has    *)
(* validated it, and a schema is a set of tables.                          *)
TypeOK ==
    /\ database \in SUBSET Tables /\ ever \in SUBSET Tables
    /\ changes \in 0 .. MaxChanges
    /\ schema \in SUBSET Tables
    /\ sqlCache \in [Questions -> SUBSET Sql]
    /\ pc \in [Tasks -> Steps]
    /\ question \in [Tasks -> Questions \cup {NoQuestion}]
    /\ got \in [Tasks -> SUBSET Tables]
    /\ sql \in [Tasks -> Sql \cup {NoSql}]
    /\ disturbed \in BOOLEAN

Init ==
    /\ database \in SUBSET Tables
    /\ ever = database
    /\ changes = 0
    /\ schema = {}
    /\ sqlCache = [q \in Questions |-> {}]
    /\ pc = [w \in Tasks |-> "idle"]
    /\ question = [w \in Tasks |-> NoQuestion]
    /\ got = [w \in Tasks |-> {}]
    /\ sql = [w \in Tasks |-> NoSql]
    /\ disturbed = FALSE

Goto(w, step) == pc' = [pc EXCEPT ![w] = step]

-----------------------------------------------------------------------------
Ask(w, q) ==
    /\ pc[w] = "idle"
    /\ Goto(w, "lookup")
    /\ question' = [question EXCEPT ![w] = q]
    /\ UNCHANGED <<databaseVars, cacheVars, got, sql, disturbed>>

(* /schema/refresh, or a message of the introspection queue that misses *)
Refill(w) ==
    /\ pc[w] = "idle"
    /\ Goto(w, "introspect")
    /\ UNCHANGED <<databaseVars, cacheVars, question, got, sql, disturbed>>

(* Mutants: the cached value is wrapped once more; a second miss is taken  *)
(* for a database without tables.                                          *)
ReadSchemaWrapped(w) ==
    /\ pc[w] \in {"lookup", "recheck"}
    /\ got' = [got EXCEPT ![w] = {schema}]
    /\ Goto(w, IF pc[w] = "lookup" THEN "recheck" ELSE "introspect")
    /\ UNCHANGED <<databaseVars, cacheVars, question, sql, disturbed>>

ReadSchemaOrNothing(w) ==
    /\ pc[w] \in {"lookup", "recheck"}
    /\ got' = [got EXCEPT ![w] = schema]
    /\ Goto(w, IF schema = {} /\ pc[w] = "lookup" THEN "recheck" ELSE "recall")
    /\ UNCHANGED <<databaseVars, cacheVars, question, sql, disturbed>>

(* get_cached_schema; on a miss introspect_and_cache looks once more *)
ReadSchema(w) ==
    /\ pc[w] \in {"lookup", "recheck"}
    /\ got' = [got EXCEPT ![w] = schema]
    /\ Goto(w, CASE schema # {} -> "recall"
                 [] schema = {} /\ pc[w] = "lookup" -> "recheck"
                 [] OTHER -> "introspect")
    /\ UNCHANGED <<databaseVars, cacheVars, question, sql, disturbed>>

Introspect(w) ==
    /\ pc[w] = "introspect"
    /\ got' = [got EXCEPT ![w] = database]
    /\ Goto(w, "cache")
    /\ UNCHANGED <<databaseVars, cacheVars, question, sql, disturbed>>

CacheSchema(w) ==
    /\ pc[w] = "cache"
    /\ schema' = got[w]
    /\ Goto(w, IF question[w] = NoQuestion THEN "cached" ELSE "recall")
    /\ UNCHANGED <<databaseVars, sqlCache, question, got, sql, disturbed>>

-----------------------------------------------------------------------------
(* validate_sql and the branch on its verdict: what it sees is known to    *)
(* the schema this request works with, whichever schema the SQL was        *)
(* generated for.                                                          *)
Passes(w, s) == s.seen \subseteq got[w]

Verdict(w, s) == IF Passes(w, s) THEN "execute" ELSE "failed"

(* Mutant: SQL that was cached is taken to have been validated. *)
RecallSqlTrusted(w) ==
    /\ pc[w] = "recall"
    /\ \/ /\ sqlCache[question[w]] = {}
          /\ Goto(w, "generate")
          /\ UNCHANGED sql
       \/ \E s \in sqlCache[question[w]] :
             /\ sql' = [sql EXCEPT ![w] = s]
             /\ Goto(w, "execute")
    /\ UNCHANGED <<databaseVars, cacheVars, question, got, disturbed>>

(* generate_sql: the cached SQL of the session and question, or a miss. *)
RecallSql(w) ==
    /\ pc[w] = "recall"
    /\ \/ /\ sqlCache[question[w]] = {}
          /\ Goto(w, "generate")
          /\ UNCHANGED sql
       \/ \E s \in sqlCache[question[w]] :
             /\ sql' = [sql EXCEPT ![w] = s]
             /\ Goto(w, Verdict(w, s))
    /\ UNCHANGED <<databaseVars, cacheVars, question, got, disturbed>>

Over(s, tables) == s.seen \subseteq tables /\ s.reads \subseteq tables

(* A provider answers with SQL over the schema it was given, in which      *)
(* validate_sql sees no other names; or with anything else, for            *)
(* _parse_ai_response takes any text for SQL.                              *)
GenerateSound(w) ==
    /\ pc[w] = "generate"
    /\ \E s \in Sql : Over(s, got[w]) /\ sql' = [sql EXCEPT ![w] = s]
    /\ Goto(w, "store")
    /\ UNCHANGED <<databaseVars, cacheVars, question, got, disturbed>>

GenerateUnsound(w) ==
    /\ pc[w] = "generate"
    /\ \E s \in Sql : ~Over(s, got[w]) /\ sql' = [sql EXCEPT ![w] = s]
    /\ Goto(w, "store")
    /\ disturbed' = TRUE
    /\ UNCHANGED <<databaseVars, cacheVars, question, got>>

(* All providers fail, or Redis: generate_sql returns {}. *)
GenerateNothing(w) ==
    /\ pc[w] \in {"recall", "generate", "store"}
    /\ Goto(w, "failed")
    /\ disturbed' = TRUE
    /\ UNCHANGED <<databaseVars, cacheVars, question, got, sql>>

(* The result is cached, and only then validated. *)
StoreSql(w) ==
    /\ pc[w] = "store"
    /\ sqlCache' = [sqlCache EXCEPT ![question[w]] = {sql[w]}]
    /\ Goto(w, Verdict(w, sql[w]))
    /\ UNCHANGED <<databaseVars, schema, question, got, sql, disturbed>>

(* execute_query on the database as it is now *)
Execute(w) ==
    /\ pc[w] = "execute"
    /\ Goto(w, IF sql[w].reads \subseteq database THEN "answered" ELSE "failed")
    /\ UNCHANGED <<databaseVars, cacheVars, question, got, sql, disturbed>>

(* The slot of a task is free again, its local state gone. *)
Leave(w) ==
    /\ pc' = [pc EXCEPT ![w] = "idle"]
    /\ question' = [question EXCEPT ![w] = NoQuestion]
    /\ got' = [got EXCEPT ![w] = {}]
    /\ sql' = [sql EXCEPT ![w] = NoSql]
    /\ UNCHANGED <<databaseVars, cacheVars>>

Finish(w) == pc[w] \in Ended /\ Leave(w) /\ UNCHANGED disturbed

(* An exception elsewhere (Redis, introspection, execution) or a crash *)
Abandon(w) == pc[w] \notin Ended \cup {"idle"} /\ Leave(w) /\ disturbed' = TRUE

-----------------------------------------------------------------------------
(* Keys expire: the index, or a table before the index, or generated SQL.  *)
ExpireSchema ==
    /\ schema # {}
    /\ schema' = {}
    /\ UNCHANGED <<databaseVars, sqlCache, taskVars, disturbed>>

ExpireTable(t) ==
    /\ t \in schema
    /\ schema' = schema \ {t}
    /\ disturbed' = TRUE
    /\ UNCHANGED <<databaseVars, sqlCache, taskVars>>

(* Mutant: generated SQL is cached without a time to live. *)
ExpireSqlNever(q) == FALSE /\ UNCHANGED vars

ExpireSql(q) ==
    /\ sqlCache[q] # {}
    /\ sqlCache' = [sqlCache EXCEPT ![q] = {}]
    /\ UNCHANGED <<databaseVars, schema, taskVars, disturbed>>

(* The database's owner creates or drops a table. *)
Change(t) ==
    /\ changes < MaxChanges
    /\ changes' = changes + 1
    /\ database' = IF t \in database THEN database \ {t} ELSE database \cup {t}
    /\ ever' = ever \cup {t}
    /\ disturbed' = TRUE
    /\ UNCHANGED <<cacheVars, taskVars>>

-----------------------------------------------------------------------------
(* What a request does when nothing fails *)
TaskStep(w) ==
    \/ ReadSchema(w) \/ Introspect(w) \/ CacheSchema(w)
    \/ RecallSql(w) \/ GenerateSound(w) \/ StoreSql(w)
    \/ Execute(w) \/ Finish(w)

Failure(w) == GenerateUnsound(w) \/ GenerateNothing(w) \/ Abandon(w)

Next ==
    \/ \E w \in Tasks, q \in Questions : Ask(w, q)
    \/ \E w \in Tasks : Refill(w) \/ TaskStep(w) \/ Failure(w)
    \/ \E t \in Tables : ExpireTable(t) \/ Change(t)
    \/ \E q \in Questions : ExpireSql(q)
    \/ ExpireSchema

Spec == Init /\ [][Next]_vars

(* A request that has begun goes on or fails; keys expire. *)
Fairness ==
    /\ \A w \in Tasks : WF_vars(TaskStep(w) \/ Failure(w))
    /\ \A q \in Questions : WF_vars(ExpireSql(q))
    /\ WF_vars(ExpireSchema)

FairSpec == Spec /\ Fairness
-----------------------------------------------------------------------------
(* No SQL in which validate_sql sees a table the database never had is     *)
(* executed, also not by way of the caches: SQL that was invented for      *)
(* another request is cached before it is validated, but it is validated   *)
(* again when recalled.                                                    *)
SeenTablesAreReal == \A w \in Tasks : pc[w] = "execute" => sql[w].seen \subseteq ever

(* What the documentation promises of that validation: tables exist before *)
(* execution.  The code does not keep it where validate_sql sees too few.  *)
NoPhantomTables ==
    \A w \in Tasks : pc[w] = "execute" => sql[w].reads \subseteq ever \cup {Wrong}

(* A question only fails for a reason: as long as the database has not     *)
(* changed, no table has expired before the index, and no provider or      *)
(* command has failed (a provider also by SQL that validate_sql misreads), *)
(* every request is answered, however requests, refreshes and expiries of  *)
(* the index and of generated SQL interleave.                              *)
OnlyDisturbancesFail == \A w \in Tasks : pc[w] = "failed" => disturbed

Settles ==
    <>[][/\ \A t \in Tables : ~Change(t)
         /\ \A w \in Tasks : ~Failure(w) /\ ~Refill(w)]_vars

AskedAgain(q) == []<><<\E w \in Tasks : Ask(w, q)>>_vars

Answered(q) == \E w \in Tasks : pc[w] = "answered" /\ question[w] = q

(* Bad or outdated SQL does not stay in the way of its question: when the  *)
(* database has settled and providers and commands fail no more, a         *)
(* question that is asked again and again is answered again and again.     *)
(* (Refreshes are excluded too: each of them restarts the time in which    *)
(* tables can expire before the index.)                                    *)
EventuallyServed == Settles => \A q \in Questions : AskedAgain(q) => []<>Answered(q)
=============================================================================
