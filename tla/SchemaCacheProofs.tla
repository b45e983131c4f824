--------------------------- MODULE SchemaCacheProofs ---------------------------
(***************************************************************************)
(* Theorems about SchemaCache for every set of tables, forms and tasks:    *)
(* its types, that the index never lists a table that was not cached,      *)
(* that a refresh answers what was read since it started, that the cache   *)
(* implements SchemaContract, and that staleness feeds on nothing but the  *)
(* requests under way when the schema changed.                             *)
(***************************************************************************)
EXTENDS SchemaCache, TLAPS

Steps == {"idle", "lookup", "collect", "index", "gather",
          "introspect", "columns", "keys", "write", "returned"}

(* The database always has a present schema: the last one of its history.  *)
LEMMA DatabaseType == TypeOK => Len(history) \in Nat \ {0} /\ Database \in Schemas
  BY DEF TypeOK, Database

(* A change appends one schema and keeps the earlier ones. *)
LEMMA ChangeAppends ==
  ASSUME TypeOK, NEW t \in Tables, Change(t)
  PROVE  /\ history' \in Seq(Schemas)
         /\ Len(history') = Len(history) + 1
         /\ Len(history') \in 1 .. MaxChanges + 1
         /\ \A i \in 1 .. Len(history) : history'[i] = history[i]
<1>1. PICK f \in Forms \cup {"absent"} :
          history' = Append(history, [Database EXCEPT ![t] = f])
  BY DEF Change
<1>2. [Database EXCEPT ![t] = f] \in Schemas
  BY DatabaseType DEF Schemas
<1>3. history \in Seq(Schemas) /\ Len(history) \in Nat /\ Len(history) <= MaxChanges
  BY DEF TypeOK, Change
<1> QED BY <1>1, <1>2, <1>3, MaxChangesAssumption

(* What is described is a description, and the other tables are missing.   *)
LEMMA DescribedType ==
  ASSUME NEW r \in Readings
  PROVE  /\ \A t \in Described(r) : t \in Tables /\ r[t] \in Descriptions
         /\ \A t \in Tables \ Described(r) : r[t] = No("absent")
BY FormsAssumption DEF Readings, Described, Descriptions, No

(* One table more is described when its columns have been read.            *)
LEMMA ColumnsRead ==
  ASSUME TypeOK, NEW w \in Tasks, ReadColumns(w)
  PROVE  \E t \in todo[w] :
            /\ t \in Tables /\ Database[t] \in Forms
            /\ \A v \in Tasks : v # w => got'[v] = got[v]
            /\ got'[w] = [got[w] EXCEPT ![t] = [columns |-> Database[t], keys |-> "absent"]]
            /\ got' \in [Tasks -> Readings]
            /\ Described(got'[w]) = Described(got[w]) \cup {t}
<1>1. PICK t \in todo[w] \cap Present(Database) :
          got' = [got EXCEPT ![w][t] = [columns |-> Database[t], keys |-> "absent"]]
  BY DEF ReadColumns
<1>2. /\ t \in Tables /\ got \in [Tasks -> Readings]
      /\ Database[t] \in Forms /\ Database[t] # "absent"
  BY <1>1, DatabaseType DEF TypeOK, Present, Schemas
<1> DEFINE d == [columns |-> Database[t], keys |-> "absent"]
<1>3. d \in Descriptions
  BY <1>2 DEF Descriptions
<1>4. d.columns = Database[t]
  OBVIOUS
<1> HIDE DEF d
<1>5. got'[w] = [got[w] EXCEPT ![t] = d] /\ \A v \in Tasks : v # w => got'[v] = got[v]
  BY <1>1, <1>2 DEF d
<1>6. got' = [got EXCEPT ![w] = [got[w] EXCEPT ![t] = d]]
  BY <1>1, <1>2 DEF d
<1>7. [got[w] EXCEPT ![t] = d] \in Readings
  BY <1>2, <1>3 DEF Readings
<1>8. Described(got'[w]) = Described(got[w]) \cup {t}
  BY <1>2, <1>4, <1>5 DEF Described, Readings
<1> QED BY <1>1, <1>2, <1>5, <1>6, <1>7, <1>8 DEF d

(* The rest of a description is filled in; its columns are kept.           *)
LEMMA KeysRead ==
  ASSUME TypeOK, NEW w \in Tasks, ReadKeys(w)
  PROVE  \E t \in todo[w] \cap Described(got[w]) :
            /\ t \in Tables
            /\ \A v \in Tasks : v # w => got'[v] = got[v]
            /\ got'[w] = [got[w] EXCEPT ![t] = [columns |-> got[w][t].columns,
                                                keys |-> Database[t]]]
            /\ got' \in [Tasks -> Readings]
            /\ Described(got'[w]) = Described(got[w])
            /\ todo' = [todo EXCEPT ![w] = IF todo[w] \ {t} = {} THEN Described(got[w])
                                                                  ELSE todo[w] \ {t}]
            /\ pc' = [pc EXCEPT ![w] = IF todo[w] \ {t} = {} THEN "write" ELSE "columns"]
<1>1. PICK t \in todo[w] \cap Described(got[w]) :
          /\ got' = [got EXCEPT ![w][t].keys = Database[t]]
          /\ todo' = [todo EXCEPT ![w] = IF todo[w] \ {t} = {} THEN Described(got[w])
                                                                ELSE todo[w] \ {t}]
          /\ pc' = [pc EXCEPT ![w] = IF todo[w] \ {t} = {} THEN "write" ELSE "columns"]
  BY DEF ReadKeys
<1>2. /\ t \in Tables /\ got \in [Tasks -> Readings] /\ got[w][t] \in Descriptions
      /\ Database[t] \in Forms \cup {"absent"}
  BY <1>1, DatabaseType, DescribedType DEF TypeOK, Schemas, Described
<1> DEFINE d == [columns |-> got[w][t].columns, keys |-> Database[t]]
<1>3. d \in Descriptions /\ d.columns = got[w][t].columns
  BY <1>2 DEF Descriptions
<1>4. [got[w][t] EXCEPT !.keys = Database[t]] = d
  BY <1>2 DEF Descriptions
<1>5. got' = [got EXCEPT ![w] = [got[w] EXCEPT ![t] = [got[w][t] EXCEPT !.keys = Database[t]]]]
  BY <1>1, <1>2
<1>6. got' = [got EXCEPT ![w] = [got[w] EXCEPT ![t] = d]]
  BY <1>4, <1>5
<1> HIDE DEF d
<1>7. [got[w] EXCEPT ![t] = d] \in Readings
  BY <1>2, <1>3 DEF Readings
<1>8. got'[w] = [got[w] EXCEPT ![t] = d] /\ \A v \in Tasks : v # w => got'[v] = got[v]
  BY <1>2, <1>6
<1>9. Described(got'[w]) = Described(got[w])
  BY <1>1, <1>2, <1>3, <1>8 DEF Described, Readings
<1>10. got' \in [Tasks -> Readings]
  BY <1>2, <1>6, <1>7
<1> WITNESS t \in todo[w] \cap Described(got[w])
<1> QED BY <1>1, <1>2, <1>8, <1>9, <1>10 DEF d

-----------------------------------------------------------------------------
(* A task only writes tables it has found: without this a table could be   *)
(* cached as absent.                                                       *)
WritesDescribed ==
    \A w \in Tasks : pc[w] = "write" => todo[w] \subseteq Described(got[w])

Typed == TypeOK /\ WritesDescribed

(* The types are inductive together with WritesDescribed.                  *)
LEMMA TypedStep == Typed /\ [Next]_vars => Typed'
<1> USE MaxChangesAssumption, FormsAssumption
<1> SUFFICES ASSUME Typed, [Next]_vars PROVE Typed'
  OBVIOUS
<1>0. TypeOK /\ WritesDescribed /\ Len(history) \in 1 .. MaxChanges + 1
       /\ Database \in Schemas /\ Nothing \in Readings
  BY DatabaseType DEF Typed, TypeOK, Nothing, Readings
<1> USE DEF Typed, WritesDescribed
<1>1. ASSUME NEW w \in Tasks, Start(w) PROVE Typed'
  BY <1>0, <1>1 DEF Start, FirstStep, TypeOK, Kinds, cacheVars
<1>2. ASSUME NEW w \in Tasks, ReadIndex(w) PROVE Typed'
  BY <1>0, <1>2 DEF ReadIndex, Miss, TypeOK, cacheVars
<1>3. ASSUME NEW w \in Tasks, ReadTable(w) PROVE Typed'
  <2>1. todo' \in [Tasks -> SUBSET Tables]
    BY <1>0, <1>3 DEF ReadTable, TypeOK
  <2>2. got' \in [Tasks -> Readings]
    <3>1. PICK t \in todo[w] : got' = [got EXCEPT ![w][t] = IF Cached(t) THEN entry[t]
                                                                        ELSE No("absent")]
      BY <1>3 DEF ReadTable
    <3>2. t \in Tables /\ (Cached(t) => entry[t] \in Descriptions)
      BY <1>0, <3>1 DEF TypeOK, Cached, No
    <3>3. (IF Cached(t) THEN entry[t] ELSE No("absent")) \in Descriptions \cup {No("absent")}
      BY <3>2
    <3> QED BY <1>0, <3>1, <3>2, <3>3 DEF TypeOK, Readings
  <2>3. pc' \in [Tasks -> Steps]
    BY <1>0, <1>3 DEF ReadTable, TypeOK, Miss, Steps
  <2>4. TypeOK'
    BY <1>0, <1>3, <2>1, <2>2, <2>3 DEF ReadTable, TypeOK, cacheVars, Steps
  <2>5. pc'[w] # "write"
    BY <1>0, <1>3 DEF ReadTable, TypeOK, Miss
  <2>6. \A v \in Tasks \ {w} : pc'[v] = pc[v] /\ todo'[v] = todo[v] /\ got'[v] = got[v]
    BY <1>0, <1>3 DEF ReadTable, TypeOK
  <2> QED BY <1>0, <2>4, <2>5, <2>6 DEF Described
<1>4. ASSUME NEW w \in Tasks, ListTables(w) PROVE Typed'
  BY <1>0, <1>4 DEF ListTables, Present, TypeOK, cacheVars
<1>5. ASSUME NEW w \in Tasks, ReadColumns(w) PROVE Typed'
  <2>1. got' \in [Tasks -> Readings] /\ \A v \in Tasks : v # w => got'[v] = got[v]
    BY <1>0, <1>5, ColumnsRead
  <2>2. TypeOK'
    BY <1>0, <1>5, <2>1 DEF ReadColumns, TypeOK, cacheVars
  <2> QED BY <1>0, <1>5, <2>1, <2>2 DEF ReadColumns, TypeOK
<1>6. ASSUME NEW w \in Tasks, ReadKeys(w) PROVE Typed'
  <2>1. PICK t \in todo[w] \cap Described(got[w]) :
            /\ \A v \in Tasks : v # w => got'[v] = got[v]
            /\ got' \in [Tasks -> Readings]
            /\ Described(got'[w]) = Described(got[w])
            /\ todo' = [todo EXCEPT ![w] = IF todo[w] \ {t} = {} THEN Described(got[w])
                                                                  ELSE todo[w] \ {t}]
            /\ pc' = [pc EXCEPT ![w] = IF todo[w] \ {t} = {} THEN "write" ELSE "columns"]
    BY <1>0, <1>6, KeysRead
  <2>2. Described(got[w]) \subseteq Tables
    BY DEF Described
  <2>3. TypeOK'
    BY <1>0, <1>6, <2>1, <2>2 DEF ReadKeys, TypeOK, cacheVars
  <2>4. \A v \in Tasks : v # w => pc'[v] = pc[v] /\ todo'[v] = todo[v] /\ got'[v] = got[v]
    BY <1>0, <2>1 DEF TypeOK
  <2>5. pc'[w] = "write" => todo'[w] = Described(got'[w])
    BY <1>0, <2>1 DEF TypeOK
  <2>6. WritesDescribed'
    BY <1>0, <2>4, <2>5
  <2> QED BY <2>3, <2>6
<1>7. ASSUME NEW w \in Tasks, WriteTable(w) PROVE Typed'
  <2>1. PICK t \in todo[w] : /\ todo' = [todo EXCEPT ![w] = @ \ {t}]
                             /\ entry' = [entry EXCEPT ![t] = got[w][t]]
    BY <1>7 DEF WriteTable
  <2>2. t \in Tables /\ got[w][t] \in Descriptions
    BY <1>0, <1>7, <2>1, DescribedType DEF WriteTable, TypeOK
  <2>3. todo' \in [Tasks -> SUBSET Tables]
    BY <1>0, <2>1 DEF TypeOK
  <2>4. entry' \in [Tables -> Descriptions \cup {No("never"), No("expired")}]
    BY <1>0, <2>1, <2>2 DEF TypeOK
  <2>5. TypeOK'
    BY <1>0, <1>7, <2>3, <2>4 DEF WriteTable, TypeOK
  <2>6. WritesDescribed'
    BY <1>0, <1>7, <2>1 DEF WriteTable, TypeOK
  <2> QED BY <2>5, <2>6
<1>8. ASSUME NEW w \in Tasks, WriteIndex(w) PROVE Typed'
  BY <1>0, <1>8 DEF WriteIndex, TypeOK, Described
<1>9. ASSUME NEW w \in Tasks, Leave(w) PROVE Typed'
  <2>1. TypeOK'
    BY <1>0, <1>9 DEF Leave, TypeOK, Kinds, cacheVars
  <2> QED BY <1>0, <1>9, <2>1 DEF Leave, TypeOK
<1>10. ASSUME NEW t \in Tables, ExpireTable(t) PROVE Typed'
  BY <1>0, <1>10 DEF ExpireTable, TypeOK, taskVars
<1>11. ASSUME NEW t \in Tables, Change(t) PROVE Typed'
  BY <1>0, <1>11, ChangeAppends DEF Change, TypeOK, cacheVars, taskVars
<1>12. CASE ExpireIndex
  BY <1>0, <1>12 DEF ExpireIndex, TypeOK, taskVars
<1>13. CASE CloseSession
  BY <1>0, <1>13 DEF CloseSession, TypeOK, cacheVars, taskVars
<1>14. CASE UNCHANGED vars
  BY <1>0, <1>14 DEF vars, TypeOK, cacheVars, taskVars
<1> QED BY <1>1, <1>2, <1>3, <1>4, <1>5, <1>6, <1>7, <1>8, <1>9, <1>10, <1>11, <1>12,
           <1>13, <1>14
        DEF Next, TaskStep, NoSuchTable, Finish, Abandon

(* Hence both hold in every reachable state.                               *)
LEMMA TypedInvariant == Spec => []Typed
<1>1. Init => Typed
  <2> SUFFICES ASSUME Init PROVE Typed
    OBVIOUS
  <2>1. PICK s \in Schemas : history = <<s>>
    BY DEF Init
  <2>2. history \in Seq(Schemas) /\ Len(history) = 1
    BY <2>1
  <2> QED BY <2>2, MaxChangesAssumption
          DEF Init, Typed, TypeOK, WritesDescribed, Kinds, Nothing, Readings
<1> QED BY <1>1, TypedStep, PTL DEF Spec

(* The keys, the tasks and the history have their types in every reachable *)
(* state; in particular no task takes an expired key for a description.    *)
THEOREM TypeCorrect == Spec => []TypeOK
<1>1. Typed => TypeOK
  BY DEF Typed
<1> QED BY <1>1, TypedInvariant, PTL

-----------------------------------------------------------------------------
(* Why the index is backed: a task that is about to write the index has    *)
(* cached every table it will list, except those still to be written.      *)
WritesTablesFirst ==
    \A w \in Tasks : pc[w] = "write" =>
        \A t \in Described(got[w]) \ todo[w] : entry[t] # No("never")

Backed == IndexBacked /\ WritesTablesFirst

(* Nothing a task does to the cache makes a table one that was never       *)
(* cached, so the two parts carry each other over every step.              *)
LEMMA BackedStep == Typed /\ Backed /\ [Next]_vars => Backed'
<1> SUFFICES ASSUME Typed, Backed, [Next]_vars PROVE Backed'
  OBVIOUS
<1>0. TypeOK /\ WritesDescribed
  BY DEF Typed
<1> USE FormsAssumption DEF Backed, IndexBacked, WritesTablesFirst
<1>1. ASSUME NEW w \in Tasks, UNCHANGED cacheVars, pc'[w] # "write" \/ todo'[w] = Described(got'[w]),
             \A v \in Tasks : v # w => pc'[v] = pc[v] /\ todo'[v] = todo[v] /\ got'[v] = got[v]
      PROVE  Backed'
  BY <1>1 DEF cacheVars
<1>2. ASSUME NEW w \in Tasks, Start(w) PROVE Backed'
  BY <1>0, <1>1, <1>2 DEF Start, FirstStep, Kinds, TypeOK
<1>3. ASSUME NEW w \in Tasks, ReadIndex(w) PROVE Backed'
  BY <1>0, <1>1, <1>3 DEF ReadIndex, Miss, TypeOK
<1>4. ASSUME NEW w \in Tasks, ReadTable(w) PROVE Backed'
  <2>1. pc'[w] # "write"
    BY <1>0, <1>4 DEF ReadTable, Miss, TypeOK
  <2>2. \A v \in Tasks : v # w => pc'[v] = pc[v] /\ todo'[v] = todo[v] /\ got'[v] = got[v]
    BY <1>0, <1>4 DEF ReadTable, TypeOK
  <2> QED BY <1>1, <1>4, <2>1, <2>2 DEF ReadTable
<1>5. ASSUME NEW w \in Tasks, ListTables(w) PROVE Backed'
  <2>1. pc'[w] # "write" \/ (todo'[w] = {} /\ got'[w] = Nothing)
    BY <1>0, <1>5 DEF ListTables, TypeOK
  <2>2. \A v \in Tasks : v # w => pc'[v] = pc[v] /\ todo'[v] = todo[v] /\ got'[v] = got[v]
    BY <1>0, <1>5 DEF ListTables, TypeOK
  <2>3. Described(Nothing) = {}
    BY DEF Described, Nothing, No
  <2> QED BY <1>1, <1>5, <2>1, <2>2, <2>3 DEF ListTables, Described
<1>6. ASSUME NEW w \in Tasks, ReadColumns(w) PROVE Backed'
  <2>1. pc'[w] # "write"
    BY <1>0, <1>6 DEF ReadColumns, TypeOK
  <2>2. \A v \in Tasks : v # w => pc'[v] = pc[v] /\ todo'[v] = todo[v] /\ got'[v] = got[v]
    BY <1>0, <1>6, ColumnsRead DEF ReadColumns, TypeOK
  <2> QED BY <1>1, <1>6, <2>1, <2>2 DEF ReadColumns
<1>7. ASSUME NEW w \in Tasks, ReadKeys(w) PROVE Backed'
  <2>1. PICK t \in todo[w] \cap Described(got[w]) :
            /\ \A v \in Tasks : v # w => got'[v] = got[v]
            /\ Described(got'[w]) = Described(got[w])
            /\ todo' = [todo EXCEPT ![w] = IF todo[w] \ {t} = {} THEN Described(got[w])
                                                                  ELSE todo[w] \ {t}]
            /\ pc' = [pc EXCEPT ![w] = IF todo[w] \ {t} = {} THEN "write" ELSE "columns"]
    BY <1>0, <1>7, KeysRead
  <2>2. \A v \in Tasks : v # w => pc'[v] = pc[v] /\ todo'[v] = todo[v] /\ got'[v] = got[v]
    BY <1>0, <2>1 DEF TypeOK
  <2>3. pc'[w] # "write" \/ todo'[w] = Described(got'[w])
    BY <1>0, <2>1 DEF TypeOK
  <2> QED BY <1>1, <1>7, <2>2, <2>3 DEF ReadKeys
<1>8. ASSUME NEW w \in Tasks, WriteTable(w) PROVE Backed'
  <2>1. PICK t \in todo[w] : /\ todo' = [todo EXCEPT ![w] = @ \ {t}]
                             /\ entry' = [entry EXCEPT ![t] = got[w][t]]
    BY <1>8 DEF WriteTable
  <2>2. t \in Tables /\ got[w][t] \in Descriptions
    BY <1>0, <1>8, <2>1, DescribedType DEF WriteTable, WritesDescribed, TypeOK
  <2>3. got[w][t] # No("never")
    BY <2>2 DEF Descriptions, No
  <2>4. entry'[t] # No("never") /\ \A u \in Tables : u # t => entry'[u] = entry[u]
    BY <1>0, <2>1, <2>2, <2>3 DEF TypeOK
  <2>5. \A v \in Tasks, u \in Tables :
          u \notin todo'[v] => u \notin todo[v] \/ (v = w /\ u = t)
    BY <1>0, <2>1 DEF TypeOK
  <2>6. index' = index /\ pc' = pc /\ got' = got
    BY <1>8 DEF WriteTable
  <2>7. \A u \in index : u \in Tables
    BY <1>0 DEF TypeOK
  <2>8. IndexBacked'
    BY <2>4, <2>6, <2>7
  <2>9. WritesTablesFirst'
    BY <2>4, <2>5, <2>6 DEF Described
  <2> QED BY <2>8, <2>9
<1>9. ASSUME NEW w \in Tasks, WriteIndex(w) PROVE Backed'
  <2>1. /\ pc[w] = "write" /\ todo[w] = {} /\ index' = Described(got[w]) /\ pc'[w] # "write"
        /\ UNCHANGED <<entry, todo, got>>
    BY <1>0, <1>9 DEF WriteIndex, TypeOK
  <2>2. \A v \in Tasks : v # w => pc'[v] = pc[v]
    BY <1>0, <1>9 DEF WriteIndex, TypeOK
  <2> QED BY <2>1, <2>2
<1>10. ASSUME NEW w \in Tasks, Leave(w) PROVE Backed'
  BY <1>0, <1>1, <1>10 DEF Leave, TypeOK
<1>11. ASSUME NEW t \in Tables, ExpireTable(t) PROVE Backed'
  <2>1. \A u \in Tables : entry[u] # No("never") => entry'[u] # No("never")
    BY <1>0, <1>11 DEF ExpireTable, TypeOK, No
  <2>2. UNCHANGED <<index, pc, todo, got>>
    BY <1>11 DEF ExpireTable, taskVars
  <2>3. index \subseteq Tables
    BY <1>0 DEF TypeOK
  <2> QED BY <2>1, <2>2, <2>3 DEF Described
<1>12. CASE UNCHANGED <<cacheVars, taskVars>>
  BY <1>12 DEF cacheVars, taskVars
<1>13. CASE ExpireIndex
  BY <1>13 DEF ExpireIndex, taskVars
<1> QED BY <1>2, <1>3, <1>4, <1>5, <1>6, <1>7, <1>8, <1>9, <1>10, <1>11, <1>12, <1>13
        DEF Next, TaskStep, NoSuchTable, Finish, Abandon, Change, CloseSession, vars

(* Wherever a task is abandoned, a table in the index has been cached.     *)
THEOREM IndexIsBacked == Spec => []IndexBacked
<1>1. Init => Backed
  BY DEF Init, Backed, IndexBacked, WritesTablesFirst
<1> QED BY <1>1, TypedInvariant, BackedStep, PTL DEF Spec, Backed

-----------------------------------------------------------------------------
(* The contract names the same things, in its own scope.                   *)
LEMMA SameNames ==
    /\ Contract!Nothing = Nothing /\ Contract!Readings = Readings
    /\ Contract!Database = Database
    /\ \A r : Contract!Described(r) = Described(r) /\ Contract!Present(r) = Present(r)
BY DEF Contract!Nothing, Nothing, Contract!Readings, Readings, Descriptions, Contract!Database,
       Database, Contract!Described, Described, Contract!Present, Present, Contract!No, No

(* What the cache has for a table is what the database once had.           *)
GenuineEntries == \A t \in Tables : Cached(t) => Contract!TrueSince(1, entry, t)

(* While it reads, a task holds a list the database had at one moment, and *)
(* columns and keys from that moment on.                                   *)
Listed(w) == Described(got[w]) \cup todo[w]

HoldsColumns(m, w, t) == \E i \in m .. Len(history) : got[w][t].columns = history[i][t]

Gathers(w) ==
    \E m \in since[w] .. Len(history) :
        /\ Listed(w) = Present(history[m])
        /\ \A t \in Described(got[w]) :
              /\ HoldsColumns(m, w, t)
              /\ t \notin todo[w] => Contract!TrueSince(m, got[w], t)

(* What a task holds: nothing until it has read; parts of the cache, unless *)
(* it is a refresh; or what it reads, and then has read, from the database. *)
Holds(w) ==
    /\ since[w] <= Len(history)
    /\ pc[w] \in {"lookup", "collect", "index", "gather"} => kind[w] # "refresh"
    /\ pc[w] \in {"idle", "lookup", "index", "introspect"} => got[w] = Nothing
    /\ pc[w] \in {"collect", "gather"} => Contract!Genuine(got[w])
    /\ pc[w] \in {"columns", "keys"} => Gathers(w)
    /\ pc[w] = "write" => Contract!Recent(w, got[w])
    /\ pc[w] = "returned" =>
          \/ Contract!Recent(w, got[w])
          \/ kind[w] # "refresh" /\ got[w] # Nothing /\ Contract!Genuine(got[w])

Genuine == GenuineEntries /\ \A w \in Tasks : Holds(w)

(* No step takes anything back from the history.                           *)
LEMMA HistoryGrows ==
    TypeOK /\ [Next]_vars =>
        /\ Len(history) \in Nat /\ Len(history') \in Nat
        /\ Len(history) <= Len(history')
        /\ \A i \in 1 .. Len(history) : history'[i] = history[i]
<1> SUFFICES ASSUME TypeOK, [Next]_vars
             PROVE  /\ Len(history) \in Nat /\ Len(history') \in Nat
                    /\ Len(history) <= Len(history')
                    /\ \A i \in 1 .. Len(history) : history'[i] = history[i]
  OBVIOUS
<1>1. Len(history) \in Nat
  BY DEF TypeOK
<1>2. CASE UNCHANGED history
  BY <1>1, <1>2
<1>3. ASSUME NEW t \in Tables, Change(t)
      PROVE  Len(history') \in Nat /\ Len(history) <= Len(history')
             /\ \A i \in 1 .. Len(history) : history'[i] = history[i]
  BY <1>1, <1>3, ChangeAppends, MaxChangesAssumption
<1> QED
  BY <1>1, <1>2, <1>3 DEF Next, TaskStep, Start, ReadIndex, ReadTable, ListTables, ReadColumns,
     ReadKeys, NoSuchTable, WriteTable, WriteIndex, Finish, Abandon, Leave, ExpireTable,
     ExpireIndex, CloseSession, vars

(* Hence moments of the history remain so, and in the same order.          *)
LEMMA MomentsStay ==
    ASSUME TypeOK, [Next]_vars, NEW m \in Nat \ {0}, NEW i \in m .. Len(history)
    PROVE  /\ i \in Nat \ {0} /\ i \in m .. Len(history') /\ history'[i] = history[i]
           /\ \A j \in i .. Len(history) : j \in i .. Len(history') /\ history'[j] = history[j]
BY HistoryGrows

(* Hence what a task holds stays good while the task does nothing.         *)
LEMMA HoldsOn ==
    ASSUME Typed, [Next]_vars, NEW w \in Tasks, Holds(w), pc'[w] = pc[w], kind'[w] = kind[w],
           todo'[w] = todo[w], got'[w] = got[w], since'[w] = since[w]
    PROVE  Holds(w)'
<1>1. TypeOK /\ since[w] \in Nat \ {0}
  BY DEF Typed, TypeOK
<1>2. Len(history) \in Nat /\ Len(history') \in Nat /\ Len(history) <= Len(history')
        /\ \A i \in 1 .. Len(history) : history'[i] = history[i]
  BY <1>1, HistoryGrows
<1>3. ASSUME NEW m \in Nat \ {0}, NEW t, Contract!TrueSince(m, got[w], t)
      PROVE  Contract!TrueSince(m, got[w], t)'
  <2>1. PICK i \in m .. Len(history) : \E j \in i .. Len(history) :
            got[w][t] = [columns |-> history[i][t], keys |-> history[j][t]]
    BY <1>3 DEF Contract!TrueSince
  <2>2. PICK j \in i .. Len(history) : got[w][t] = [columns |-> history[i][t], keys |-> history[j][t]]
    BY <2>1
  <2>3. /\ i \in m .. Len(history') /\ history'[i] = history[i]
        /\ j \in i .. Len(history') /\ history'[j] = history[j]
    BY <1>1, MomentsStay
  <2>4. got[w]'[t] = [columns |-> history'[i][t], keys |-> history'[j][t]]
    BY <1>1, <2>2, <2>3
  <2> QED BY <2>3, <2>4 DEF Contract!TrueSince
<1>4. \A m \in since[w] .. Len(history) :
          m \in Nat \ {0} /\ m \in since'[w] .. Len(history') /\ history'[m] = history[m]
  BY <1>1, <1>2
<1>5. Contract!Genuine(got[w]) => Contract!Genuine(got[w])'
  BY <1>3 DEF Contract!Genuine, Contract!Described
<1>6. Contract!Recent(w, got[w]) => Contract!Recent(w, got[w])'
  <2> SUFFICES ASSUME Contract!Recent(w, got[w]) PROVE Contract!Recent(w, got[w])'
    OBVIOUS
  <2>1. PICK m \in since[w] .. Len(history) :
            /\ Contract!Described(got[w]) = Contract!Present(history[m])
            /\ \A t \in Contract!Described(got[w]) : Contract!TrueSince(m, got[w], t)
    BY DEF Contract!Recent
  <2>2. \A t \in Contract!Described(got[w]) : Contract!TrueSince(m, got[w], t)'
    BY <1>3, <1>4, <2>1
  <2>3. (Contract!Described(got[w]) = Contract!Present(history[m]))'
    BY <1>4, <2>1 DEF Contract!Described, Contract!Present
  <2> QED BY <1>4, <2>2, <2>3 DEF Contract!Recent, Contract!Described
<1>7. Gathers(w) => Gathers(w)'
  <2> SUFFICES ASSUME Gathers(w) PROVE Gathers(w)'
    OBVIOUS
  <2>1. PICK m \in since[w] .. Len(history) :
            /\ Listed(w) = Present(history[m])
            /\ \A t \in Described(got[w]) :
                  /\ HoldsColumns(m, w, t)
                  /\ t \notin todo[w] => Contract!TrueSince(m, got[w], t)
    BY DEF Gathers
  <2>2. \A t \in Described(got[w]) : t \notin todo[w] => Contract!TrueSince(m, got[w], t)'
    BY <1>3, <1>4, <2>1
  <2>3. \A t \in Described(got[w]) : HoldsColumns(m, w, t)'
    BY <1>1, <1>2, <1>4, <2>1 DEF HoldsColumns
  <2>4. (Listed(w) = Present(history[m]))'
    BY <1>4, <2>1 DEF Listed, Described, Present
  <2> QED BY <1>4, <2>2, <2>3, <2>4 DEF Gathers, Described
<1> QED BY <1>1, <1>2, <1>5, <1>6, <1>7 DEF Holds, Nothing

(* Entries come from introspections, and the history keeps them all.       *)
LEMMA EntriesStep == Typed /\ Genuine /\ [Next]_vars => GenuineEntries'
<1> SUFFICES ASSUME Typed, Genuine, [Next]_vars PROVE GenuineEntries'
  OBVIOUS
<1>0. TypeOK /\ WritesDescribed
  BY DEF Typed
<1>1. ASSUME NEW t \in Tables, Cached(t), entry'[t] = entry[t] PROVE Contract!TrueSince(1, entry, t)'
  <2>1. PICK i \in 1 .. Len(history) : \E j \in i .. Len(history) :
            entry[t] = [columns |-> history[i][t], keys |-> history[j][t]]
    BY <1>1 DEF Genuine, GenuineEntries, Contract!TrueSince
  <2>2. PICK j \in i .. Len(history) : entry[t] = [columns |-> history[i][t], keys |-> history[j][t]]
    BY <2>1
  <2>3. /\ i \in 1 .. Len(history') /\ history'[i] = history[i]
        /\ j \in i .. Len(history') /\ history'[j] = history[j]
    BY <1>0, MomentsStay
  <2>4. entry'[t] = [columns |-> history'[i][t], keys |-> history'[j][t]]
    BY <1>1, <2>2, <2>3
  <2> QED BY <2>3, <2>4 DEF Contract!TrueSince
<1>2. ASSUME UNCHANGED entry PROVE GenuineEntries'
  BY <1>1, <1>2 DEF GenuineEntries, Cached
<1>3. ASSUME NEW w \in Tasks, WriteTable(w) PROVE GenuineEntries'
  <2>1. PICK t \in todo[w] : entry' = [entry EXCEPT ![t] = got[w][t]]
    BY <1>3 DEF WriteTable
  <2>2. Contract!Recent(w, got[w]) /\ t \in Described(got[w]) /\ UNCHANGED history
    BY <1>0, <1>3 DEF WriteTable, Genuine, Holds, WritesDescribed
  <2>3. PICK m \in since[w] .. Len(history) : Contract!TrueSince(m, got[w], t)
    BY <2>2, SameNames DEF Contract!Recent
  <2>4. PICK i \in m .. Len(history) : \E j \in i .. Len(history) :
            got[w][t] = [columns |-> history[i][t], keys |-> history[j][t]]
    BY <2>3 DEF Contract!TrueSince
  <2>5. i \in 1 .. Len(history)
    BY <1>0, <2>3, <2>4 DEF TypeOK
  <2>6. t \in Tables /\ entry'[t] = got[w][t] /\ \A u \in Tables : u # t => entry'[u] = entry[u]
    BY <1>0, <2>1, <2>2 DEF TypeOK, Described
  <2>7. Contract!TrueSince(1, entry, t)'
    BY <2>2, <2>4, <2>5, <2>6 DEF Contract!TrueSince
  <2> QED BY <1>1, <2>6, <2>7 DEF GenuineEntries, Cached
<1>4. ASSUME NEW t \in Tables, ExpireTable(t) PROVE GenuineEntries'
  <2>1. ~Cached(t)' /\ \A u \in Tables : u # t => entry'[u] = entry[u]
    BY <1>0, <1>4, FormsAssumption DEF ExpireTable, Cached, TypeOK, No
  <2> QED BY <1>1, <2>1 DEF GenuineEntries, Cached
<1> QED
  BY <1>2, <1>3, <1>4 DEF Next, TaskStep, Start, ReadIndex, ReadTable, ListTables, ReadColumns,
     ReadKeys, NoSuchTable, Change, WriteIndex, Finish, Abandon, Leave, ExpireIndex,
     CloseSession, vars, cacheVars

(* What the listing leaves is a list of one moment, with nothing described.*)
LEMMA ListedNow ==
    ASSUME Typed, Genuine, NEW w \in Tasks, ListTables(w)
    PROVE  Holds(w)'
<1>1. /\ TypeOK /\ Len(history) \in Nat \ {0} /\ since[w] \in Nat \ {0}
      /\ since[w] <= Len(history) /\ Described(Nothing) = {}
  BY DatabaseType DEF Typed, TypeOK, Genuine, Holds, Described, Nothing, No
<1>2. /\ got'[w] = Nothing /\ todo'[w] = Present(Database) /\ UNCHANGED <<history, since>>
      /\ pc'[w] = IF Present(Database) = {} THEN "write" ELSE "columns"
  BY <1>1 DEF ListTables, TypeOK
<1>3. Len(history) \in since[w] .. Len(history)
  BY <1>1
<1>4. Gathers(w)'
  <2>1. Listed(w)' = Present(history[Len(history)])
    BY <1>1, <1>2 DEF Listed, Database, Described
  <2>2. Described(got[w])' = {}
    BY <1>1, <1>2 DEF Described
  <2> QED BY <1>2, <1>3, <2>1, <2>2 DEF Gathers, Present
<1>5. Present(Database) = {} => Contract!Recent(w, got[w])'
  <2> SUFFICES ASSUME Present(Database) = {} PROVE Contract!Recent(w, got[w])'
    OBVIOUS
  <2>1. Contract!Described(got[w])' = {}
    BY <1>1, <1>2 DEF Contract!Described, Described
  <2>2. Contract!Present(history[Len(history)]) = {}
    BY DEF Contract!Present, Present, Database
  <2>3. (Contract!Present(history[Len(history)]))' = {}
    BY <1>2, <2>2 DEF Contract!Present
  <2> QED BY <1>2, <1>3, <2>1, <2>3 DEF Contract!Recent
<1> QED BY <1>1, <1>2, <1>4, <1>5 DEF Holds

(* The columns of a listed table are those of a moment after the listing.  *)
LEMMA GathersColumns ==
    ASSUME Typed, Genuine, NEW w \in Tasks, ReadColumns(w)
    PROVE  Holds(w)'
<1>1. /\ TypeOK /\ Len(history) \in Nat \ {0} /\ since[w] \in Nat \ {0}
      /\ since[w] <= Len(history) /\ Gathers(w)
  BY DatabaseType DEF Typed, TypeOK, Genuine, Holds, ReadColumns
<1>2. PICK t \in todo[w] :
          /\ got'[w] = [got[w] EXCEPT ![t] = [columns |-> Database[t], keys |-> "absent"]]
          /\ t \in Tables /\ Described(got'[w]) = Described(got[w]) \cup {t}
  BY <1>1, ColumnsRead
<1>3. /\ \A u \in Described(got[w]) : u # t => got'[w][u] = got[w][u]
      /\ got'[w][t].columns = Database[t]
  BY <1>1, <1>2 DEF TypeOK, Readings, Described
<1>4. pc'[w] = "keys" /\ UNCHANGED <<history, todo, since>>
  BY <1>1 DEF ReadColumns, TypeOK
<1>5. PICK m \in since[w] .. Len(history) :
          /\ Listed(w) = Present(history[m])
          /\ \A u \in Described(got[w]) :
                /\ HoldsColumns(m, w, u)
                /\ u \notin todo[w] => Contract!TrueSince(m, got[w], u)
  BY <1>1 DEF Gathers
<1>6. (Listed(w) = Present(history[m]))'
  BY <1>2, <1>4, <1>5 DEF Listed, Present, Described
<1>7. ASSUME NEW u \in Described(got'[w])
      PROVE  HoldsColumns(m, w, u)' /\ (u \notin todo'[w] => Contract!TrueSince(m, got[w], u)')
  <2>1. CASE u = t
    <3>1. Len(history) \in m .. Len(history) /\ got'[w][u].columns = history[Len(history)][u]
      BY <1>1, <1>3, <2>1 DEF Database
    <3> QED BY <1>2, <1>4, <2>1, <3>1 DEF HoldsColumns
  <2>2. CASE u # t
    BY <1>2, <1>3, <1>4, <1>5, <2>2 DEF HoldsColumns, Contract!TrueSince
  <2> QED BY <2>1, <2>2
<1>8. Gathers(w)'
  BY <1>4, <1>5, <1>6, <1>7 DEF Gathers, Described
<1> QED BY <1>1, <1>4, <1>8 DEF Holds

(* The keys are those of a moment after the columns; with the last table   *)
(* done, everything gathered is recent.                                    *)
LEMMA GathersKeys ==
    ASSUME Typed, Genuine, NEW w \in Tasks, ReadKeys(w)
    PROVE  Holds(w)'
<1>1. /\ TypeOK /\ Len(history) \in Nat \ {0} /\ since[w] \in Nat \ {0}
      /\ since[w] <= Len(history) /\ Gathers(w)
  BY DatabaseType DEF Typed, TypeOK, Genuine, Holds, ReadKeys
<1>2. PICK t \in todo[w] \cap Described(got[w]) :
          /\ t \in Tables
          /\ got'[w] = [got[w] EXCEPT ![t] = [columns |-> got[w][t].columns, keys |-> Database[t]]]
          /\ Described(got'[w]) = Described(got[w])
          /\ todo' = [todo EXCEPT ![w] = IF todo[w] \ {t} = {} THEN Described(got[w])
                                                                ELSE todo[w] \ {t}]
          /\ pc' = [pc EXCEPT ![w] = IF todo[w] \ {t} = {} THEN "write" ELSE "columns"]
  BY <1>1, KeysRead
<1>3. /\ \A u \in Described(got[w]) : u # t => got'[w][u] = got[w][u]
      /\ got'[w][t] = [columns |-> got[w][t].columns, keys |-> Database[t]]
  BY <1>1, <1>2 DEF TypeOK, Readings, Described
<1>4. UNCHANGED <<history, since>>
  BY DEF ReadKeys
<1>5. PICK m \in since[w] .. Len(history) :
          /\ Listed(w) = Present(history[m])
          /\ \A u \in Described(got[w]) :
                /\ HoldsColumns(m, w, u)
                /\ u \notin todo[w] => Contract!TrueSince(m, got[w], u)
  BY <1>1 DEF Gathers
<1>6. ASSUME NEW u \in Described(got[w]), u = t \/ u \notin todo[w]
      PROVE  Contract!TrueSince(m, got[w], u)'
  <2>1. CASE u = t
    <3>1. PICK i \in m .. Len(history) : got[w][t].columns = history[i][t]
      BY <1>2, <1>5 DEF HoldsColumns
    <3>2. Len(history) \in i .. Len(history)
      BY <1>1, <3>1
    <3>3. got'[w][u] = [columns |-> history[i][u], keys |-> history[Len(history)][u]]
      BY <1>3, <2>1, <3>1 DEF Database
    <3> QED BY <1>4, <3>1, <3>2, <3>3 DEF Contract!TrueSince
  <2>2. CASE u # t
    BY <1>3, <1>4, <1>5, <1>6, <2>2 DEF Contract!TrueSince
  <2> QED BY <2>1, <2>2
<1>7. ASSUME NEW u \in Described(got[w]) PROVE HoldsColumns(m, w, u)'
  <2>1. got'[w][u].columns = got[w][u].columns
    BY <1>3
  <2> QED BY <1>4, <1>5, <2>1 DEF HoldsColumns
<1>8. CASE todo[w] \ {t} # {}
  <2>1. pc'[w] = "columns" /\ todo'[w] = todo[w] \ {t}
    BY <1>1, <1>2, <1>8 DEF TypeOK
  <2>2. (Listed(w) = Present(history[m]))'
    BY <1>2, <1>4, <1>5, <2>1 DEF Listed, Present, Described
  <2>3. Gathers(w)'
    BY <1>2, <1>4, <1>5, <1>6, <1>7, <2>1, <2>2 DEF Gathers, Described
  <2> QED BY <1>1, <1>4, <2>1, <2>3 DEF Holds
<1>9. CASE todo[w] \ {t} = {}
  <2>1. pc'[w] = "write"
    BY <1>1, <1>2, <1>9 DEF TypeOK
  <2>2. (Contract!Described(got[w]) = Contract!Present(history[m]))'
    BY <1>2, <1>4, <1>5, <1>9 DEF Listed, Present, Described, Contract!Present, Contract!Described
  <2>3. Contract!Recent(w, got[w])'
    BY <1>2, <1>4, <1>5, <1>6, <1>9, <2>2 DEF Contract!Recent, Contract!Described, Described
  <2> QED BY <1>1, <1>4, <2>1, <2>3 DEF Holds
<1> QED BY <1>8, <1>9

(* Genuine is inductive.                                                   *)
LEMMA GenuineStep == Typed /\ Genuine /\ [Next]_vars => Genuine'
<1> SUFFICES ASSUME Typed, Genuine, [Next]_vars PROVE Genuine'
  OBVIOUS
<1>0. /\ TypeOK /\ Len(history) \in Nat \ {0}
      /\ \A v \in Tasks : since[v] \in Nat \ {0} /\ Holds(v)
  BY DatabaseType DEF Typed, TypeOK, Genuine
<1> SUFFICES ASSUME NEW v \in Tasks PROVE Holds(v)'
  BY EntriesStep DEF Genuine
<1> DEFINE Still(w) == pc'[w] = pc[w] /\ kind'[w] = kind[w] /\ todo'[w] = todo[w]
                         /\ got'[w] = got[w] /\ since'[w] = since[w]
<1>1. Still(v) => Holds(v)'
  BY <1>0, HoldsOn
<1> USE DEF TypeOK
<1>2. ASSUME NEW w \in Tasks, Start(w) PROVE Holds(v)'
  <2>1. v # w => Still(v)
    BY <1>0, <1>2 DEF Start
  <2>2. CASE v = w
    BY <1>0, <1>2, <2>2 DEF Start, FirstStep, Kinds, Holds, Nothing
  <2> QED BY <1>1, <2>1, <2>2
<1>3. ASSUME NEW w \in Tasks, ReadIndex(w) PROVE Holds(v)'
  <2>1. v # w => Still(v)
    BY <1>0, <1>3 DEF ReadIndex
  <2>2. CASE v = w
    <3>1. Contract!Genuine(Nothing)'
      BY DEF Contract!Genuine, Contract!Described, Nothing, No
    <3> QED BY <1>0, <1>3, <2>2, <3>1 DEF ReadIndex, Miss, Holds, Nothing
  <2> QED BY <1>1, <2>1, <2>2
<1>4. ASSUME NEW w \in Tasks, ReadTable(w) PROVE Holds(v)'
  <2>1. v # w => Still(v)
    BY <1>0, <1>4 DEF ReadTable
  <2>2. CASE v = w
    <3>1. PICK t \in todo[w] :
              got' = [got EXCEPT ![w][t] = IF Cached(t) THEN entry[t] ELSE No("absent")]
      BY <1>4 DEF ReadTable
    <3>2. t \in Tables /\ got[w] \in Readings
      BY <1>0
    <3>3. \A u \in Tables : got'[w][u] =
              IF u # t THEN got[w][u] ELSE IF Cached(u) THEN entry[u] ELSE No("absent")
      BY <1>0, <3>1, <3>2 DEF Readings
    <3>4. Contract!Genuine(got[w]) /\ kind[w] # "refresh" /\ since[w] <= Len(history)
      BY <1>0, <1>4 DEF ReadTable, Holds
    <3>5. UNCHANGED <<history, kind, since>>
      BY <1>4 DEF ReadTable
    <3>6. ASSUME NEW u \in Contract!Described(got'[w])
          PROVE  Contract!TrueSince(1, got[w], u)'
      <4>1. u \in Tables /\ got'[w][u].columns # "absent"
        BY DEF Contract!Described
      <4>2. CASE u # t
        <5>1. Contract!TrueSince(1, got[w], u)
          BY <3>3, <3>4, <4>1, <4>2 DEF Contract!Genuine, Contract!Described
        <5> QED BY <3>3, <3>5, <4>1, <4>2, <5>1 DEF Contract!TrueSince
      <4>3. CASE u = t
        <5>1. Cached(u) /\ got'[w][u] = entry[u]
          BY <3>3, <4>1, <4>3 DEF No
        <5>2. Contract!TrueSince(1, entry, u)
          BY <4>1, <5>1 DEF Genuine, GenuineEntries
        <5> QED BY <3>5, <5>1, <5>2 DEF Contract!TrueSince
      <4> QED BY <4>2, <4>3
    <3>7. Contract!Genuine(got[w])'
      BY <3>6 DEF Contract!Genuine, Contract!Described
    <3>8. \/ pc'[w] \in {"collect", "gather"}
          \/ pc'[w] \in {"index", "introspect"} /\ got'[w] = Nothing
          \/ pc'[w] = "returned" /\ got'[w] # Nothing
      BY <1>0, <1>4 DEF ReadTable, Miss
    <3> QED BY <2>2, <3>4, <3>5, <3>7, <3>8 DEF Holds, Nothing
  <2> QED BY <1>1, <2>1, <2>2
<1>5. ASSUME NEW w \in Tasks, ListTables(w) PROVE Holds(v)'
  <2>1. v # w => Still(v)
    BY <1>0, <1>5 DEF ListTables
  <2> QED BY <1>1, <1>5, <2>1, ListedNow
<1>6. ASSUME NEW w \in Tasks, ReadColumns(w) PROVE Holds(v)'
  <2>1. v # w => Still(v)
    BY <1>0, <1>6, ColumnsRead DEF ReadColumns
  <2> QED BY <1>1, <1>6, <2>1, GathersColumns
<1>7. ASSUME NEW w \in Tasks, ReadKeys(w) PROVE Holds(v)'
  <2>1. PICK t \in todo[w] :
            /\ \A u \in Tasks : u # w => got'[u] = got[u]
            /\ todo' = [todo EXCEPT ![w] = IF todo[w] \ {t} = {} THEN Described(got[w])
                                                                  ELSE todo[w] \ {t}]
            /\ pc' = [pc EXCEPT ![w] = IF todo[w] \ {t} = {} THEN "write" ELSE "columns"]
    BY <1>0, <1>7, KeysRead
  <2>2. v # w => Still(v)
    BY <1>0, <1>7, <2>1 DEF ReadKeys
  <2> QED BY <1>1, <1>7, <2>2, GathersKeys
<1>8. ASSUME NEW w \in Tasks, WriteTable(w) PROVE Holds(v)'
  <2>1. v # w => Still(v)
    BY <1>0, <1>8 DEF WriteTable
  <2>2. CASE v = w
    <3>0. Contract!Recent(w, got[w]) /\ UNCHANGED <<history, since, got>>
      BY <1>0, <1>8 DEF WriteTable, Holds
    <3>1. Contract!Recent(w, got[w])'
      BY <3>0 DEF Contract!Recent, Contract!TrueSince, Contract!Described, Contract!Present
    <3> QED BY <1>0, <1>8, <2>2, <3>1 DEF WriteTable, Holds
  <2> QED BY <1>1, <2>1, <2>2
<1>9. ASSUME NEW w \in Tasks, WriteIndex(w) PROVE Holds(v)'
  <2>1. v # w => Still(v)
    BY <1>0, <1>9 DEF WriteIndex
  <2>2. CASE v = w
    <3>0. Contract!Recent(w, got[w]) /\ UNCHANGED <<history, since, got>>
      BY <1>0, <1>9 DEF WriteIndex, Holds
    <3>1. Contract!Recent(w, got[w])'
      BY <3>0 DEF Contract!Recent, Contract!TrueSince, Contract!Described, Contract!Present
    <3> QED BY <1>0, <1>9, <2>2, <3>1 DEF WriteIndex, Holds
  <2> QED BY <1>1, <2>1, <2>2
<1>10. ASSUME NEW w \in Tasks, Leave(w) PROVE Holds(v)'
  <2>1. v # w => Still(v)
    BY <1>0, <1>10 DEF Leave
  <2>2. CASE v = w
    BY <1>0, <1>10, <2>2 DEF Leave, Holds, Nothing
  <2> QED BY <1>1, <2>1, <2>2
<1>11. CASE UNCHANGED taskVars
  BY <1>1, <1>11 DEF taskVars
<1> QED BY <1>2, <1>3, <1>4, <1>5, <1>6, <1>7, <1>8, <1>9, <1>10, <1>11
        DEF Next, TaskStep, NoSuchTable, Finish, Abandon, ExpireTable, Change, ExpireIndex,
            CloseSession, vars

(* Every description in the cache and in a task's hands is one the         *)
(* database once had.                                                      *)
LEMMA AlwaysGenuine == Spec => [](Typed /\ Genuine)
<1>1. Init => Genuine
  <2> SUFFICES ASSUME Init PROVE Genuine
    OBVIOUS
  <2>1. PICK s \in Schemas : history = <<s>>
    BY DEF Init
  <2>2. Len(history) = 1
    BY <2>1
  <2> QED BY <2>2, FormsAssumption DEF Init, Genuine, GenuineEntries, Holds, Cached, No
<1> QED BY <1>1, TypedInvariant, GenuineStep, PTL DEF Spec

(* The answer of /schema/refresh lists the tables of one moment since the  *)
(* request came in, and describes each as it was from that moment on.      *)
THEOREM RefreshAnswersRecentSchema == Spec => []RefreshIsRecent
<1>1. Genuine => RefreshIsRecent
  BY DEF Genuine, Holds, RefreshIsRecent
<1> QED BY <1>1, AlwaysGenuine, PTL
-----------------------------------------------------------------------------
(* What the contract sees of the tasks.                                    *)
Phase == [w \in Tasks |-> CASE pc[w] = "idle" -> "idle"
                             [] pc[w] = "returned" -> "answered"
                             [] OTHER -> "busy"]
Answers == [w \in Tasks |-> IF pc[w] = "returned" THEN got[w] ELSE Nothing]

(* A task that goes on out of sight, and one that returns.                 *)
LEMMA UnseenOrAnswered ==
    ASSUME Typed, Genuine, Genuine', NEW w \in Tasks,
           pc[w] \notin {"idle", "returned"}, pc'[w] # "idle",
           pc' = [pc EXCEPT ![w] = pc'[w]],
           \A v \in Tasks : v # w => got'[v] = got[v],
           got' \in [Tasks -> Readings],
           UNCHANGED <<history, session, kind, since>>
    PROVE  Contract!Answer(w) \/ UNCHANGED Contract!vars
<1>1. pc \in [Tasks -> Steps]
  BY DEF Typed, TypeOK, Steps
<1>2. CASE pc'[w] # "returned"
  <2>1. Phase' = Phase /\ Answers' = Answers
    BY <1>1, <1>2 DEF Phase, Answers, Nothing
  <2> QED BY <2>1 DEF Phase, Answers, Contract!vars, Contract!taskVars
<1>3. CASE pc'[w] = "returned"
  <2>1. Phase[w] = "busy" /\ Phase' = [Phase EXCEPT ![w] = "answered"]
    BY <1>1, <1>3 DEF Phase
  <2>2. Answers' = [Answers EXCEPT ![w] = got'[w]]
    BY <1>1, <1>3 DEF Answers, Nothing
  <2>3. got'[w] \in Contract!Readings
    BY SameNames
  <2>4. Holds(w)' /\ Contract!Nothing = Nothing
    BY SameNames DEF Genuine
  <2>5. \/ Contract!Recent(w, got[w])'
        \/ kind[w] # "refresh" /\ got'[w] # Contract!Nothing /\ Contract!Genuine(got[w])'
    BY <1>3, <2>4 DEF Holds, Nothing
  <2>6. \/ Contract!Recent(w, got'[w])
        \/ kind[w] # "refresh" /\ got'[w] # Contract!Nothing /\ Contract!Genuine(got'[w])
    BY <2>5 DEF Contract!Recent, Contract!Genuine, Contract!TrueSince, Contract!Described,
       Contract!Present
  <2> QED BY <2>1, <2>2, <2>3, <2>6 DEF Phase, Answers, Contract!Answer
<1> QED BY <1>2, <1>3

(* Every step maps to a step of the contract or to none: reads and writes  *)
(* of single keys, the queries of an introspection and expiries are out of *)
(* sight, and a request is answered by its last read or by the write of    *)
(* the index.                                                              *)
LEMMA ContractStep ==
    Typed /\ Genuine /\ [Next]_vars => [Contract!Next]_Contract!vars
<1> SUFFICES ASSUME Typed, Genuine, [Next]_vars PROVE [Contract!Next]_Contract!vars
  OBVIOUS
<1>0. /\ pc \in [Tasks -> Steps] /\ kind \in [Tasks -> Kinds] /\ got \in [Tasks -> Readings]
      /\ todo \in [Tasks -> SUBSET Tables] /\ TypeOK
      /\ Genuine' /\ Typed' /\ got' \in [Tasks -> Readings]
  BY GenuineStep, TypedStep DEF Typed, TypeOK, Steps
<1>1. ASSUME NEW w \in Tasks, Start(w)
      PROVE  \E k \in {"ask", "consume", "refresh"} : Contract!Request(w, k)
  <2>1. PICK k \in Kinds : /\ k = "consume" \/ session = "open"
                           /\ kind' = [kind EXCEPT ![w] = k]
                           /\ pc' = [pc EXCEPT ![w] = FirstStep(k)]
    BY <1>1 DEF Start
  <2>2. FirstStep(k) \in {"lookup", "index", "introspect"}
    BY DEF FirstStep, Kinds
  <2>3. Phase[w] = "idle" /\ Phase' = [Phase EXCEPT ![w] = "busy"] /\ Answers' = Answers
    BY <1>0, <1>1, <2>1, <2>2 DEF Start, Phase, Answers, Nothing
  <2>4. Contract!Request(w, k)
    BY <1>1, <2>1, <2>3 DEF Start, Phase, Answers, Contract!Request
  <2> QED BY <2>4 DEF Kinds
<1>2. ASSUME NEW w \in Tasks,
             \/ ReadIndex(w) \/ ReadTable(w) \/ ListTables(w) \/ ReadColumns(w)
             \/ WriteTable(w) \/ WriteIndex(w)
      PROVE  Contract!Answer(w) \/ UNCHANGED Contract!vars
  <2>1. pc[w] \notin {"idle", "returned"} /\ pc'[w] # "idle" /\ pc' = [pc EXCEPT ![w] = pc'[w]]
    BY <1>0, <1>2 DEF ReadIndex, ReadTable, ListTables, ReadColumns, WriteTable, WriteIndex, Miss
  <2>2. \A v \in Tasks : v # w => got'[v] = got[v]
    BY <1>0, <1>2, ColumnsRead DEF ReadIndex, ReadTable, ListTables, WriteTable, WriteIndex
  <2>3. UNCHANGED <<history, session, kind, since>>
    BY <1>2 DEF ReadIndex, ReadTable, ListTables, ReadColumns, WriteTable, WriteIndex
  <2> QED BY <1>0, <2>1, <2>2, <2>3, UnseenOrAnswered
<1>3. ASSUME NEW w \in Tasks, ReadKeys(w)
      PROVE  Contract!Answer(w) \/ UNCHANGED Contract!vars
  <2>1. PICK t \in todo[w] :
            /\ \A v \in Tasks : v # w => got'[v] = got[v]
            /\ pc' = [pc EXCEPT ![w] = IF todo[w] \ {t} = {} THEN "write" ELSE "columns"]
    BY <1>0, <1>3, KeysRead
  <2>2. pc[w] \notin {"idle", "returned"} /\ pc'[w] # "idle" /\ pc' = [pc EXCEPT ![w] = pc'[w]]
    BY <1>0, <1>3, <2>1 DEF ReadKeys
  <2>3. UNCHANGED <<history, session, kind, since>>
    BY <1>3 DEF ReadKeys
  <2> QED BY <1>0, <2>1, <2>2, <2>3, UnseenOrAnswered
<1>4. ASSUME NEW w \in Tasks, pc[w] # "idle", Leave(w) PROVE Contract!Leave(w)
  <2>1. /\ Phase[w] # "idle" /\ Phase' = [Phase EXCEPT ![w] = "idle"]
        /\ Answers' = [Answers EXCEPT ![w] = Nothing]
    BY <1>0, <1>4 DEF Leave, Phase, Answers, Nothing
  <2> QED BY <1>4, <2>1, SameNames DEF Leave, Phase, Answers, Contract!Leave
<1>5. ASSUME UNCHANGED taskVars PROVE UNCHANGED Contract!taskVars
  BY <1>5 DEF taskVars, Contract!taskVars, Nothing
<1>6. ASSUME NEW t \in Tables, Change(t) PROVE Contract!Change(t)
  BY <1>5, <1>6 DEF Change, Database, Contract!Change, Contract!Database
<1>7. CASE CloseSession
  <2>1. Contract!Close
    BY <1>5, <1>7 DEF CloseSession, Contract!Close
  <2> QED BY <2>1 DEF Contract!Next
<1>8. CASE ExpireIndex \/ \E t \in Tables : ExpireTable(t)
  BY <1>5, <1>8 DEF ExpireIndex, ExpireTable, Contract!vars
<1>9. CASE UNCHANGED vars
  BY <1>5, <1>9 DEF vars, Contract!vars
<1> QED BY <1>1, <1>2, <1>3, <1>4, <1>6, <1>7, <1>8, <1>9
        DEF Next, TaskStep, NoSuchTable, Finish, Abandon, Contract!Next

(* The cache, key by key and with all its races, implements the contract:  *)
(* an answer was read from the database since the request came in, or is   *)
(* made of cached descriptions the database once had, and a refresh never  *)
(* answers from the cache.                                                 *)
THEOREM CacheImplementsContract == Spec => ImplementsSchemaContract
<1>1. Init => Contract!Init
  <2> SUFFICES ASSUME Init PROVE Contract!Init
    OBVIOUS
  <2>1. \E s \in [Tables -> Forms \cup {"absent"}] : history = <<s>>
    BY DEF Init, Schemas
  <2> QED BY <2>1, SameNames DEF Init, Contract!Init
<1> QED BY <1>1, ContractStep, AlwaysGenuine, PTL
        DEF Spec, ImplementsSchemaContract, Contract!Spec

-----------------------------------------------------------------------------
(* A task is misled when what it has read from the database, and will      *)
(* cache, is not so: its list of tables, or something it holds of one.     *)
Misled(w) ==
    /\ pc[w] \in {"columns", "keys", "write"}
    /\ \/ Listed(w) # Present(Database)
       \/ \E t \in Described(got[w]) :
             \/ got[w][t].columns # Database[t]
             \/ (pc[w] = "write" \/ t \notin todo[w]) /\ got[w][t].keys # Database[t]
Outdated == {w \in Tasks : Misled(w)}

(* The tables a task has yet to cache.                                     *)
Pending(w) == IF pc[w] = "write" THEN todo[w] ELSE Listed(w)

(* Tables whose cached description is outdated, and an outdated index.     *)
StaleTables == {t \in Tables : Cached(t) /\ entry[t] # No(Database[t])}
StaleIndex == index \notin {{}, Present(Database)}

(* Only a change of the database misleads: the queries of an introspection *)
(* that goes on see the database as it is.                                 *)
LEMMA MisledAlready ==
    ASSUME Typed, [Next]_vars, UNCHANGED history, NEW v \in Tasks, Misled(v)'
    PROVE  Misled(v) /\ Pending(v)' \subseteq Pending(v)
<1>0. TypeOK /\ WritesDescribed /\ UNCHANGED Database
  BY DEF Typed, Database
<1> DEFINE Still == pc'[v] = pc[v] /\ todo'[v] = todo[v] /\ got'[v] = got[v]
<1>1. Still => Misled(v) /\ Pending(v)' \subseteq Pending(v)
  BY <1>0 DEF Misled, Pending, Listed, Described, Present
<1>2. pc'[v] \in {"columns", "keys", "write"}
  BY DEF Misled
<1>3. ASSUME NEW w \in Tasks, Start(w) PROVE Still
  BY <1>0, <1>2, <1>3 DEF Start, FirstStep, Kinds, TypeOK
<1>4. ASSUME NEW w \in Tasks, ReadIndex(w) PROVE Still
  BY <1>0, <1>2, <1>4 DEF ReadIndex, Miss, TypeOK
<1>5. ASSUME NEW w \in Tasks, ReadTable(w) PROVE Still
  <2>1. pc'[w] \notin {"columns", "keys", "write"}
    BY <1>0, <1>5 DEF ReadTable, Miss, TypeOK
  <2>2. v # w => Still
    BY <1>0, <1>5 DEF ReadTable, TypeOK
  <2> QED BY <1>2, <2>1, <2>2
<1>6. ASSUME NEW w \in Tasks, ListTables(w) PROVE Still
  <2>1. v # w => Still
    BY <1>0, <1>6 DEF ListTables, TypeOK
  <2>2. Described(got'[w]) = {} /\ todo'[w] = Present(Database)
    BY <1>0, <1>6 DEF ListTables, TypeOK, Described, Nothing, No
  <2>3. ~Misled(w)'
    BY <1>0, <2>2 DEF Misled, Listed, Described, Present
  <2> QED BY <2>1, <2>3
<1>7. ASSUME NEW w \in Tasks, ReadColumns(w) PROVE Misled(v) /\ Pending(v)' \subseteq Pending(v)
  <2>1. v # w => Still
    BY <1>0, <1>7, ColumnsRead DEF ReadColumns, TypeOK
  <2>2. CASE v = w
    <3>1. PICK t \in todo[w] :
              /\ t \in Tables
              /\ got'[w] = [got[w] EXCEPT ![t] = [columns |-> Database[t], keys |-> "absent"]]
              /\ Described(got'[w]) = Described(got[w]) \cup {t}
      BY <1>0, <1>7, ColumnsRead
    <3>2. pc[w] = "columns" /\ pc'[w] = "keys" /\ todo'[w] = todo[w]
      BY <1>0, <1>7 DEF ReadColumns, TypeOK
    <3>3. Listed(w)' = Listed(w)
      BY <3>1, <3>2 DEF Listed, Described
    <3>4. got'[w][t].columns = Database[t] /\ \A u \in Tables : u # t => got'[w][u] = got[w][u]
      BY <1>0, <3>1 DEF TypeOK, Readings
    <3>5. Misled(w)
      <4>1. CASE Listed(w) # Present(Database)
        BY <3>2, <4>1 DEF Misled
      <4>2. CASE Listed(w) = Present(Database)
        <5>1. Listed(w)' = Present(Database)'
          BY <1>0, <3>3, <4>2 DEF Present
        <5>2. PICK u \in Described(got'[w]) :
                  \/ got'[w][u].columns # Database[u]
                  \/ u \notin todo[w] /\ got'[w][u].keys # Database[u]
          BY <1>0, <2>2, <3>2, <5>1 DEF Misled, Described
        <5>3. u # t /\ u \in Described(got[w]) /\ got'[w][u] = got[w][u]
          BY <3>1, <3>4, <5>2 DEF Described
        <5> QED BY <3>2, <5>2, <5>3 DEF Misled
      <4> QED BY <4>1, <4>2
    <3>6. Pending(w)' = Pending(w)
      BY <3>2, <3>3 DEF Pending
    <3> QED BY <2>2, <3>5, <3>6
  <2> QED BY <1>1, <2>1, <2>2
<1>8. ASSUME NEW w \in Tasks, ReadKeys(w) PROVE Misled(v) /\ Pending(v)' \subseteq Pending(v)
  <2>0. PICK t \in todo[w] \cap Described(got[w]) :
            /\ t \in Tables
            /\ \A u \in Tasks : u # w => got'[u] = got[u]
            /\ got'[w] = [got[w] EXCEPT ![t] = [columns |-> got[w][t].columns,
                                                keys |-> Database[t]]]
            /\ Described(got'[w]) = Described(got[w])
            /\ todo' = [todo EXCEPT ![w] = IF todo[w] \ {t} = {} THEN Described(got[w])
                                                                  ELSE todo[w] \ {t}]
            /\ pc' = [pc EXCEPT ![w] = IF todo[w] \ {t} = {} THEN "write" ELSE "columns"]
    BY <1>0, <1>8, KeysRead
  <2>1. v # w => Still
    BY <1>0, <2>0 DEF TypeOK
  <2>2. CASE v = w
    <3>1. pc[w] = "keys" /\ pc'[w] # "keys"
      BY <1>0, <1>8, <2>0 DEF ReadKeys, TypeOK
    <3>2. todo'[w] \subseteq Listed(w) /\ Listed(w)' = Listed(w)
      BY <1>0, <2>0 DEF TypeOK, Listed, Described
    <3>3. \A u \in Described(got[w]) :
              (pc'[w] = "write" \/ u \notin todo'[w]) => u = t \/ u \notin todo[w]
      BY <1>0, <2>0 DEF TypeOK
    <3>4. /\ got'[w][t].columns = got[w][t].columns /\ got'[w][t].keys = Database[t]
          /\ \A u \in Tables : u # t => got'[w][u] = got[w][u]
      BY <1>0, <2>0 DEF TypeOK, Readings
    <3>5. Misled(w)
      <4>1. CASE Listed(w) # Present(Database)
        BY <3>1, <4>1 DEF Misled
      <4>2. CASE Listed(w) = Present(Database)
        <5>1. Listed(w)' = Present(Database)'
          BY <1>0, <3>2, <4>2 DEF Present
        <5>2. PICK u \in Described(got'[w]) :
                  \/ got'[w][u].columns # Database[u]
                  \/ (pc'[w] = "write" \/ u \notin todo'[w]) /\ got'[w][u].keys # Database[u]
          BY <1>0, <2>2, <5>1 DEF Misled, Described
        <5>3. u \in Described(got[w]) /\ u \in Tables
          BY <2>0, <5>2 DEF Described
        <5>4. CASE u = t
          BY <2>0, <3>1, <3>4, <5>2, <5>3, <5>4 DEF Misled
        <5>5. CASE u # t
          BY <3>1, <3>3, <3>4, <5>2, <5>3, <5>5 DEF Misled
        <5> QED BY <5>4, <5>5
      <4> QED BY <4>1, <4>2
    <3>6. Pending(w)' \subseteq Pending(w)
      BY <3>1, <3>2 DEF Pending
    <3> QED BY <2>2, <3>5, <3>6
  <2> QED BY <1>1, <2>1, <2>2
<1>9. ASSUME NEW w \in Tasks, WriteTable(w) PROVE Misled(v) /\ Pending(v)' \subseteq Pending(v)
  <2>1. v # w => Still
    BY <1>0, <1>9 DEF WriteTable, TypeOK
  <2>2. CASE v = w
    <3>1. /\ pc[w] = "write" /\ pc'[w] = "write" /\ got'[w] = got[w] /\ todo'[w] \subseteq todo[w]
          /\ todo[w] \subseteq Described(got[w])
      BY <1>0, <1>9 DEF WriteTable, TypeOK, WritesDescribed
    <3>2. Listed(w)' = Listed(w)
      BY <3>1 DEF Listed, Described
    <3>3. Misled(w)
      BY <1>0, <2>2, <3>1, <3>2 DEF Misled, Described, Present
    <3> QED BY <2>2, <3>1, <3>3 DEF Pending
  <2> QED BY <1>1, <2>1, <2>2
<1>10. ASSUME NEW w \in Tasks, WriteIndex(w) \/ Leave(w) PROVE Still
  BY <1>0, <1>2, <1>10 DEF WriteIndex, Leave, TypeOK
<1>11. ASSUME UNCHANGED taskVars PROVE Still
  BY <1>11 DEF taskVars
<1> QED BY <1>1, <1>3, <1>4, <1>5, <1>6, <1>7, <1>8, <1>9, <1>10, <1>11
        DEF Next, TaskStep, NoSuchTable, Finish, Abandon, ExpireTable, Change, ExpireIndex,
            CloseSession, vars

(* While the database does not change no task is misled that was not, and  *)
(* only those that are make anything in the cache stale, each table and    *)
(* the index once.                                                         *)
StalenessDwindles ==
    [][UNCHANGED history =>
          /\ Outdated' \subseteq Outdated
          /\ \A w \in Outdated' : Pending(w)' \subseteq Pending(w)
          /\ ~(StaleTables' \subseteq StaleTables) =>
                \E w \in Outdated : Pending(w)' # Pending(w)
          /\ ~StaleIndex /\ StaleIndex' => Outdated' # Outdated]_vars

(* The safety half of EventuallyFresh: what becomes stale in the cache     *)
(* comes from introspections that were under way at the last change.       *)
THEOREM StaleSchemasDryUp == Spec => StalenessDwindles
<1> DEFINE Goal == /\ Outdated' \subseteq Outdated
                   /\ \A w \in Outdated' : Pending(w)' \subseteq Pending(w)
                   /\ ~(StaleTables' \subseteq StaleTables) =>
                         \E w \in Outdated : Pending(w)' # Pending(w)
                   /\ ~StaleIndex /\ StaleIndex' => Outdated' # Outdated
<1>1. Typed /\ [Next]_vars => [UNCHANGED history => Goal]_vars
  <2> SUFFICES ASSUME Typed, Next, UNCHANGED history PROVE Goal
    OBVIOUS
  <2>0. TypeOK /\ WritesDescribed /\ UNCHANGED Database /\ UNCHANGED Present(Database)
    BY DEF Typed, Database, Present
  <2>1. \A v \in Tasks : Misled(v)' => Misled(v) /\ Pending(v)' \subseteq Pending(v)
    BY MisledAlready
  <2>2. Outdated' \subseteq Outdated /\ \A w \in Outdated' : Pending(w)' \subseteq Pending(w)
    BY <2>1 DEF Outdated
  <2>3. ASSUME NEW t \in StaleTables', t \notin StaleTables
        PROVE  \E w \in Outdated : Pending(w)' # Pending(w)
    <3>1. t \in Tables /\ Cached(t)' /\ entry'[t] # No(Database[t]) /\ entry'[t] # entry[t]
      BY <2>0, <2>3 DEF StaleTables, Cached
    <3>2. \A u \in Tables : ExpireTable(u) => ~Cached(t)'
      BY <2>0, <3>1, FormsAssumption DEF ExpireTable, TypeOK, Cached, No
    <3>3. \E w \in Tasks : WriteTable(w)
      BY <3>1, <3>2 DEF Next, TaskStep, Start, ReadIndex, ReadTable, ListTables, ReadColumns,
         ReadKeys, NoSuchTable, WriteIndex, Finish, Abandon, Leave, Change, ExpireIndex,
         CloseSession, cacheVars
    <3>4. PICK w \in Tasks : WriteTable(w)
      BY <3>3
    <3>5. /\ pc[w] = "write" /\ UNCHANGED <<pc, got>>
          /\ \E u \in todo[w] : /\ todo' = [todo EXCEPT ![w] = @ \ {u}]
                                /\ entry' = [entry EXCEPT ![u] = got[w][u]]
      BY <3>4 DEF WriteTable
    <3>6. t \in todo[w] /\ entry'[t] = got[w][t] /\ t \notin todo'[w]
      BY <2>0, <3>1, <3>5 DEF TypeOK
    <3>7. t \in Described(got[w]) /\ got[w][t] \in Descriptions
      BY <2>0, <3>5, <3>6, DescribedType DEF WritesDescribed, TypeOK
    <3>8. got[w][t].columns # Database[t] \/ got[w][t].keys # Database[t]
      BY <3>1, <3>6, <3>7 DEF Descriptions, No
    <3>9. w \in Outdated
      BY <3>5, <3>7, <3>8 DEF Outdated, Misled
    <3>10. Pending(w)' # Pending(w)
      BY <3>5, <3>6 DEF Pending
    <3> QED BY <3>9, <3>10
  <2>4. ASSUME ~StaleIndex, StaleIndex' PROVE Outdated' # Outdated
    <3>1. index' \notin {{}, Present(Database)} /\ index' # index
      BY <2>0, <2>4 DEF StaleIndex
    <3>2. \E w \in Tasks : WriteIndex(w)
      BY <3>1 DEF Next, TaskStep, Start, ReadIndex, ReadTable, ListTables, ReadColumns,
         ReadKeys, NoSuchTable, WriteTable, Finish, Abandon, Leave, Change, ExpireIndex,
         ExpireTable, CloseSession, cacheVars
    <3>3. PICK w \in Tasks : WriteIndex(w)
      BY <3>2
    <3>4. /\ pc[w] = "write" /\ todo[w] = {} /\ pc'[w] = "returned"
          /\ index' = Described(got[w])
      BY <2>0, <3>3 DEF WriteIndex, TypeOK
    <3>5. Misled(w) /\ ~Misled(w)'
      BY <3>1, <3>4 DEF Misled, Listed
    <3> QED BY <3>5 DEF Outdated
  <2> QED BY <2>2, <2>3, <2>4
<1>2. Spec => [][UNCHANGED history => Goal]_vars
  BY <1>1, TypedInvariant, PTL DEF Spec
<1> QED BY <1>2 DEF StalenessDwindles
=============================================================================
