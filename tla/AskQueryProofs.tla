----------------------------- MODULE AskQueryProofs -----------------------------
(***************************************************************************)
(* Theorems about AskQuery for every set of tables, questions and          *)
(* concurrent requests, and all SQL that providers may come up with: its   *)
(* types, that no SQL is executed in which validate_sql sees an invented   *)
(* table, and that a question only fails for a reason.                     *)
(***************************************************************************)
EXTENDS AskQuery, TLAPS

(* A task that looks up the schema for a question, or generated SQL, has a *)
(* question: the SQL cache is never consulted without one.                 *)
HasQuestion ==
    \A w \in Tasks :
        pc[w] \in {"lookup", "recheck", "recall", "generate", "store"} =>
            question[w] \in Questions

(* What is about to be cached came from a provider.                        *)
HasSql == \A w \in Tasks : pc[w] = "store" => sql[w] \in Sql

Typed == TypeOK /\ HasQuestion /\ HasSql

(* The types are inductive together with these two.                        *)
LEMMA TypedStep == Typed /\ [Next]_vars => Typed'
<1> USE QuestionsAssumption, MaxChangesAssumption
<1> SUFFICES ASSUME Typed, [Next]_vars PROVE Typed'
  OBVIOUS
<1> USE DEF Typed, TypeOK, HasQuestion, HasSql, Steps, Ended, Goto,
            databaseVars, cacheVars, taskVars
<1>1. ASSUME NEW w \in Tasks, NEW q \in Questions, Ask(w, q) PROVE Typed'
  BY <1>1 DEF Ask
<1>2. ASSUME NEW w \in Tasks, Refill(w) PROVE Typed'
  BY <1>2 DEF Refill
<1>3. ASSUME NEW w \in Tasks, ReadSchema(w) PROVE Typed'
  BY <1>3 DEF ReadSchema
<1>4. ASSUME NEW w \in Tasks, Introspect(w) PROVE Typed'
  BY <1>4 DEF Introspect
<1>5. ASSUME NEW w \in Tasks, CacheSchema(w) PROVE Typed'
  BY <1>5 DEF CacheSchema
<1>6. ASSUME NEW w \in Tasks, RecallSql(w) PROVE Typed'
  BY <1>6 DEF RecallSql, Verdict
<1>7. ASSUME NEW w \in Tasks, GenerateSound(w) PROVE Typed'
  BY <1>7 DEF GenerateSound
<1>8. ASSUME NEW w \in Tasks, StoreSql(w) PROVE Typed'
  <2>1. question[w] \in Questions /\ {sql[w]} \in SUBSET Sql
    BY <1>8 DEF StoreSql
  <2> QED BY <1>8, <2>1 DEF StoreSql, Verdict
<1>9. ASSUME NEW w \in Tasks, Execute(w) PROVE Typed'
  BY <1>9 DEF Execute
<1>10. ASSUME NEW w \in Tasks, Finish(w) PROVE Typed'
  BY <1>10 DEF Finish, Leave
<1>11. ASSUME NEW w \in Tasks, GenerateUnsound(w) PROVE Typed'
  BY <1>11 DEF GenerateUnsound
<1>12. ASSUME NEW w \in Tasks, GenerateNothing(w) PROVE Typed'
  BY <1>12 DEF GenerateNothing
<1>13. ASSUME NEW w \in Tasks, Abandon(w) PROVE Typed'
  BY <1>13 DEF Abandon, Leave
<1>14. ASSUME NEW t \in Tables, ExpireTable(t) PROVE Typed'
  BY <1>14 DEF ExpireTable
<1>15. ASSUME NEW t \in Tables, Change(t) PROVE Typed'
  BY <1>15 DEF Change
<1>16. ASSUME NEW q \in Questions, ExpireSql(q) PROVE Typed'
  BY <1>16 DEF ExpireSql
<1>17. CASE ExpireSchema
  BY <1>17 DEF ExpireSchema
<1>18. CASE UNCHANGED vars
  BY <1>18 DEF vars
<1> QED
  BY <1>1, <1>2, <1>3, <1>4, <1>5, <1>6, <1>7, <1>8, <1>9, <1>10, <1>11,
     <1>12, <1>13, <1>14, <1>15, <1>16, <1>17, <1>18 DEF Next, TaskStep, Failure

(* Hence they hold in every reachable state.                               *)
LEMMA TypedInvariant == Spec => []Typed
<1>1. Init => Typed
  <2>1. {} \in SUBSET Sql
    OBVIOUS
  <2> SUFFICES ASSUME Init PROVE Typed
    OBVIOUS
  <2>2. sqlCache \in [Questions -> SUBSET Sql] /\ sql \in [Tasks -> Sql \cup {NoSql}]
    BY <2>1, Zenon DEF Init
  <2>3. pc \in [Tasks -> Steps] /\ got \in [Tasks -> SUBSET Tables]
    BY DEF Init, Steps
  <2>4. TypeOK
    <3>1. question \in [Tasks -> Questions \cup {NoQuestion}]
      BY DEF Init
    <3>2. changes \in 0 .. MaxChanges
      BY MaxChangesAssumption DEF Init
    <3>3. database \in SUBSET Tables /\ ever \in SUBSET Tables /\ schema \in SUBSET Tables
      BY DEF Init
    <3>4. disturbed \in BOOLEAN
      BY DEF Init
    <3> QED BY <2>2, <2>3, <3>1, <3>2, <3>3, <3>4 DEF TypeOK
  <2>5. HasQuestion /\ HasSql
    BY DEF Init, HasQuestion, HasSql
  <2> QED BY <2>4, <2>5 DEF Typed
<1> QED BY <1>1, TypedStep, PTL DEF Spec

(* The caches and the requests have their types in every reachable state.  *)
THEOREM TypeCorrect == Spec => []TypeOK
<1>1. Typed => TypeOK
  BY DEF Typed
<1> QED BY <1>1, TypedInvariant, PTL
-----------------------------------------------------------------------------
(* Why no seen table is invented: what is cached or held as a schema was   *)
(* read from the database, and SQL is executed only if the schema has all  *)
(* that is seen in it.                                                     *)
KnownTables ==
    /\ database \subseteq ever
    /\ schema \subseteq ever
    /\ \A w \in Tasks : got[w] \subseteq ever
    /\ SeenTablesAreReal

(* Generated SQL does not enter into it: the verdict that sends SQL to the *)
(* database compares it with the schema the request holds.                 *)
LEMMA KnownStep == Typed /\ KnownTables /\ [Next]_vars => KnownTables'
<1> SUFFICES ASSUME Typed, KnownTables, [Next]_vars PROVE KnownTables'
  OBVIOUS
<1> USE DEF KnownTables, SeenTablesAreReal, Typed, TypeOK, Steps, Ended, Goto,
            databaseVars, cacheVars, taskVars
<1>1. ASSUME NEW w \in Tasks, NEW q \in Questions, Ask(w, q) PROVE KnownTables'
  BY <1>1 DEF Ask
<1>2. ASSUME NEW w \in Tasks, Refill(w) PROVE KnownTables'
  BY <1>2 DEF Refill
<1>3. ASSUME NEW w \in Tasks, ReadSchema(w) PROVE KnownTables'
  BY <1>3 DEF ReadSchema
<1>4. ASSUME NEW w \in Tasks, Introspect(w) PROVE KnownTables'
  BY <1>4 DEF Introspect
<1>5. ASSUME NEW w \in Tasks, CacheSchema(w) PROVE KnownTables'
  BY <1>5 DEF CacheSchema
<1>6. ASSUME NEW w \in Tasks, RecallSql(w) PROVE KnownTables'
  BY <1>6 DEF RecallSql, Verdict, Passes
<1>7. ASSUME NEW w \in Tasks, GenerateSound(w) PROVE KnownTables'
  BY <1>7 DEF GenerateSound
<1>8. ASSUME NEW w \in Tasks, StoreSql(w) PROVE KnownTables'
  BY <1>8 DEF StoreSql, Verdict, Passes
<1>9. ASSUME NEW w \in Tasks, Execute(w) PROVE KnownTables'
  BY <1>9 DEF Execute
<1>10. ASSUME NEW w \in Tasks, Finish(w) PROVE KnownTables'
  BY <1>10 DEF Finish, Leave
<1>11. ASSUME NEW w \in Tasks, GenerateUnsound(w) PROVE KnownTables'
  BY <1>11 DEF GenerateUnsound
<1>12. ASSUME NEW w \in Tasks, GenerateNothing(w) PROVE KnownTables'
  BY <1>12 DEF GenerateNothing
<1>13. ASSUME NEW w \in Tasks, Abandon(w) PROVE KnownTables'
  BY <1>13 DEF Abandon, Leave
<1>14. ASSUME NEW t \in Tables, ExpireTable(t) PROVE KnownTables'
  BY <1>14 DEF ExpireTable
<1>15. ASSUME NEW t \in Tables, Change(t) PROVE KnownTables'
  BY <1>15 DEF Change
<1>16. ASSUME NEW q \in Questions, ExpireSql(q) PROVE KnownTables'
  BY <1>16 DEF ExpireSql
<1>17. CASE ExpireSchema
  BY <1>17 DEF ExpireSchema
<1>18. CASE UNCHANGED vars
  BY <1>18 DEF vars
<1> QED
  BY <1>1, <1>2, <1>3, <1>4, <1>5, <1>6, <1>7, <1>8, <1>9, <1>10, <1>11,
     <1>12, <1>13, <1>14, <1>15, <1>16, <1>17, <1>18 DEF Next, TaskStep, Failure

(* In SQL that is executed validate_sql sees only tables the database has  *)
(* had, whatever the providers make up and whichever request's SQL was     *)
(* cached.  (Of the tables it does not see nothing can be said.)           *)
THEOREM SeenInventionsAreStopped == Spec => []SeenTablesAreReal
<1>1. Init => KnownTables
  BY DEF Init, KnownTables, SeenTablesAreReal
<1>2. KnownTables => SeenTablesAreReal
  BY DEF KnownTables
<1> QED BY <1>1, <1>2, TypedInvariant, KnownStep, PTL DEF Spec

-----------------------------------------------------------------------------
(* Why questions only fail for a reason: as long as nothing has disturbed  *)
(* them, both caches and every request agree with the database.            *)
Agreement ==
    /\ schema \in {{}, database}
    /\ \A q \in Questions : \A s \in sqlCache[q] : Over(s, database)
    /\ \A w \in Tasks :
          /\ pc[w] # "failed"
          /\ pc[w] \in {"cache", "recall", "generate", "store", "execute"} =>
                got[w] = database
          /\ pc[w] \in {"store", "execute"} => Over(sql[w], database)

Calm == ~disturbed => Agreement

(* A step that does not disturb keeps the agreement, whichever requests    *)
(* fill the caches first.                                                  *)
LEMMA CalmStep == Typed /\ Calm /\ [Next]_vars => Calm'
<1> SUFFICES ASSUME Typed, Agreement, ~disturbed, [Next]_vars, ~disturbed'
             PROVE  Agreement'
  <2>1. ASSUME [Next]_vars, Typed PROVE disturbed => disturbed'
    BY <2>1 DEF Next, TaskStep, Failure, Ask, Refill, ReadSchema, Introspect,
       CacheSchema, RecallSql, GenerateSound, StoreSql, Execute, Finish,
       GenerateUnsound, GenerateNothing, Abandon, ExpireTable, Change,
       ExpireSql, ExpireSchema, vars
  <2> QED BY <2>1 DEF Calm
<1> USE DEF Agreement, Typed, TypeOK, HasQuestion, Steps, Ended, Goto,
            databaseVars, cacheVars, taskVars
<1>1. ASSUME NEW w \in Tasks, NEW q \in Questions, Ask(w, q) PROVE Agreement'
  BY <1>1 DEF Ask
<1>2. ASSUME NEW w \in Tasks, Refill(w) PROVE Agreement'
  BY <1>2 DEF Refill
<1>3. ASSUME NEW w \in Tasks, ReadSchema(w) PROVE Agreement'
  BY <1>3 DEF ReadSchema
<1>4. ASSUME NEW w \in Tasks, Introspect(w) PROVE Agreement'
  BY <1>4 DEF Introspect
<1>5. ASSUME NEW w \in Tasks, CacheSchema(w) PROVE Agreement'
  BY <1>5 DEF CacheSchema
<1>6. ASSUME NEW w \in Tasks, RecallSql(w) PROVE Agreement'
  BY <1>6 DEF RecallSql, Verdict, Passes, Over
<1>7. ASSUME NEW w \in Tasks, GenerateSound(w) PROVE Agreement'
  BY <1>7 DEF GenerateSound, Over
<1>8. ASSUME NEW w \in Tasks, StoreSql(w) PROVE Agreement'
  BY <1>8 DEF StoreSql, Verdict, Passes, Over
<1>9. ASSUME NEW w \in Tasks, Execute(w) PROVE Agreement'
  BY <1>9 DEF Execute, Over
<1>10. ASSUME NEW w \in Tasks, Finish(w) PROVE Agreement'
  BY <1>10 DEF Finish, Leave
<1>11. ASSUME NEW q \in Questions, ExpireSql(q) PROVE Agreement'
  BY <1>11 DEF ExpireSql
<1>12. CASE ExpireSchema
  BY <1>12 DEF ExpireSchema
<1>13. CASE UNCHANGED vars
  BY <1>13 DEF vars
<1>14. ASSUME NEW w \in Tasks, Failure(w) PROVE FALSE
  BY <1>14 DEF Failure, GenerateUnsound, GenerateNothing, Abandon
<1>15. ASSUME NEW t \in Tables, ExpireTable(t) \/ Change(t) PROVE FALSE
  BY <1>15 DEF ExpireTable, Change
<1> QED
  BY <1>1, <1>2, <1>3, <1>4, <1>5, <1>6, <1>7, <1>8, <1>9, <1>10, <1>11,
     <1>12, <1>13, <1>14, <1>15 DEF Next, TaskStep

(* A request only fails after the database has changed, a table expired    *)
(* before the index, or a provider or a command failed.                    *)
THEOREM FailuresHaveReasons == Spec => []OnlyDisturbancesFail
<1>1. Init => Calm
  BY DEF Init, Calm, Agreement
<1>2. Calm => OnlyDisturbancesFail
  BY DEF Calm, Agreement, OnlyDisturbancesFail
<1> QED BY <1>1, <1>2, TypedInvariant, CalmStep, PTL DEF Spec
=============================================================================
