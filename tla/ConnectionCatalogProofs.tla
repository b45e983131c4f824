------------------------ MODULE ConnectionCatalogProofs ------------------------
(***************************************************************************)
(* Theorems about ConnectionCatalog for every set of connections and any   *)
(* number of concurrent requests: its types, that the cached list agrees   *)
(* with the table as long as requests neither overlap nor fail, and that   *)
(* a settled table is spoilt only by requests from before.                 *)
(***************************************************************************)
EXTENDS ConnectionCatalog, TLAPS

(* The requests keep their types in every reachable state.                 *)
THEOREM TypeCorrect == Spec => []TypeOK
<1> USE DEF TypeOK, Steps
<1>1. Init => TypeOK
  BY DEF Init
<1>2. TypeOK /\ [Next]_vars => TypeOK'
  <2> SUFFICES ASSUME TypeOK, [Next]_vars PROVE TypeOK'
    OBVIOUS
  <2> USE DEF taskVars, Goto, Leave
  <2>1. ASSUME NEW w \in Tasks,
               BeginList(w) \/ BeginAdd(w) \/ BeginDelete(w)
        PROVE  TypeOK'
    <3>1. PICK step \in {"list", "insert", "select"},
               c \in Connections \cup {NoConnection} : Begin(w, step, c)
      BY <2>1 DEF BeginList, BeginAdd, BeginDelete
    <3>2. disturbed' \in BOOLEAN
      BY <3>1 DEF Begin
    <3> QED BY <3>1, <3>2 DEF Begin
  <2>2. ASSUME NEW w \in Tasks, ReadCache(w) \/ QueryRows(w) \/ FillCache(w)
        PROVE  TypeOK'
    BY <2>2 DEF ReadCache, QueryRows, FillCache, Live
  <2>3. ASSUME NEW w \in Tasks, InsertRow(w) \/ ForgetList(w) PROVE TypeOK'
    BY <2>3 DEF InsertRow, ForgetList
  <2>4. ASSUME NEW w \in Tasks,
               SelectRow(w) \/ DropList(w) \/ CommitDelete(w)
        PROVE  TypeOK'
    BY <2>4 DEF SelectRow, DropList, CommitDelete
  <2>5. ASSUME NEW w \in Tasks, Finish(w) \/ Abandon(w) PROVE TypeOK'
    BY <2>5 DEF Finish, Abandon
  <2>6. CASE ExpireList
    BY <2>6 DEF ExpireList
  <2>7. CASE UNCHANGED vars
    BY <2>7 DEF vars
  <2> QED
    BY <2>1, <2>2, <2>3, <2>4, <2>5, <2>6, <2>7 DEF Next, TaskStep
<1> QED BY <1>1, <1>2, PTL DEF Spec

-----------------------------------------------------------------------------
(* Without overlap there is one request at a time; what it has read is     *)
(* still the table, the list it deletes before its commit stays deleted    *)
(* until then, and only between the commit of an insertion and the         *)
(* deletion of the list may the list be out of date.                       *)
Alone == \A v, w \in Tasks : pc[v] # "idle" /\ pc[w] # "idle" => v = w

InStep ==
    /\ Alone
    /\ \A w \in Tasks : pc[w] = "fill" => got[w] = Live
    /\ \A w \in Tasks : pc[w] = "commit" => cache = {}
    /\ (\A w \in Tasks : pc[w] # "forget") => cache \in {{}, Live}

Serial == ~disturbed => InStep

(* A request that begins while none is under way finds the list in step    *)
(* with the table, and leaves it so.                                       *)
LEMMA SerialStep == TypeOK /\ Serial /\ [Next]_vars => Serial'
<1> SUFFICES ASSUME TypeOK, Serial, [Next]_vars, ~disturbed' PROVE InStep'
  BY DEF Serial
<1>1. ~disturbed
  BY DEF Next, TaskStep, BeginList, BeginAdd, BeginDelete, Begin, ReadCache,
     QueryRows, FillCache, InsertRow, ForgetList, SelectRow, DropList,
     CommitDelete, Goto, Finish, Abandon, ExpireList, vars, TypeOK
<1>2. InStep
  BY <1>1 DEF Serial
<1> USE <1>2 DEF InStep, Alone, Live, TypeOK, Steps, taskVars
<1>3. ASSUME NEW w \in Tasks, BeginList(w) \/ BeginAdd(w) \/ BeginDelete(w)
      PROVE  InStep'
  <2>1. Quiet /\ UNCHANGED <<row, cache, got>>
    BY <1>3 DEF BeginList, BeginAdd, BeginDelete, Begin
  <2>2. \E s \in {"list", "insert", "select"} : pc' = [pc EXCEPT ![w] = s]
    BY <1>3 DEF BeginList, BeginAdd, BeginDelete, Begin
  <2> QED BY <2>1, <2>2 DEF Quiet
<1>4. ASSUME NEW w \in Tasks, ReadCache(w) PROVE InStep'
  BY <1>4 DEF ReadCache, Goto
<1>5. ASSUME NEW w \in Tasks, QueryRows(w) PROVE InStep'
  BY <1>5 DEF QueryRows, Goto
<1>6. ASSUME NEW w \in Tasks, FillCache(w) PROVE InStep'
  BY <1>6 DEF FillCache, Goto
<1>7. ASSUME NEW w \in Tasks, InsertRow(w) PROVE InStep'
  BY <1>7 DEF InsertRow, Goto
<1>8. ASSUME NEW w \in Tasks, ForgetList(w) PROVE InStep'
  BY <1>8 DEF ForgetList, Goto
<1>9. ASSUME NEW w \in Tasks, SelectRow(w) PROVE InStep'
  BY <1>9 DEF SelectRow, Goto
<1>10. ASSUME NEW w \in Tasks, DropList(w) PROVE InStep'
  BY <1>10 DEF DropList, Goto
<1>11. ASSUME NEW w \in Tasks, CommitDelete(w) PROVE InStep'
  BY <1>11 DEF CommitDelete, Goto
<1>12. ASSUME NEW w \in Tasks, Finish(w) PROVE InStep'
  BY <1>12 DEF Finish, Leave
<1>13. ASSUME NEW w \in Tasks, Abandon(w) PROVE FALSE
  BY <1>13 DEF Abandon
<1>14. CASE ExpireList
  BY <1>14 DEF ExpireList
<1>15. CASE UNCHANGED vars
  BY <1>15 DEF vars
<1> QED
  BY <1>3, <1>4, <1>5, <1>6, <1>7, <1>8, <1>9, <1>10, <1>11, <1>12, <1>13,
     <1>14, <1>15 DEF Next, TaskStep

(* Requests that do not overlap and do not fail leave a cached list that   *)
(* agrees with the table, in every order of adding, deleting and listing.  *)
THEOREM ListAgreesSerially == Spec => []SerialListAgrees
<1>1. Init => Serial
  BY DEF Init, Serial, InStep, Alone
<1>2. Serial => SerialListAgrees
  BY DEF Serial, InStep, SerialListAgrees, Quiet
<1> QED BY <1>1, <1>2, TypeCorrect, SerialStep, PTL DEF Spec

-----------------------------------------------------------------------------
(* Requests that hold an outdated list and will cache it.                  *)
Outdated == {w \in Tasks : pc[w] = "fill" /\ got[w] # Live}

ListAgrees == cache \in {{}, Live}

(* While no row changes, no request comes to hold an outdated list, and    *)
(* only one that holds it takes the cache out of step.                     *)
StalenessDwindles ==
    [][UNCHANGED row =>
          /\ Outdated' \subseteq Outdated
          /\ ListAgrees /\ ~ListAgrees' => Outdated' # Outdated]_vars

(* The safety half of EventuallyAgrees: a settled table is spoilt at most  *)
(* once by each request under way when it settled.                         *)
THEOREM StaleListsDryUp == Spec => StalenessDwindles
<1> DEFINE DwindleStep ==
      UNCHANGED row =>
          /\ Outdated' \subseteq Outdated
          /\ ListAgrees /\ ~ListAgrees' => Outdated' # Outdated
<1>1. TypeOK /\ [Next]_vars => [DwindleStep]_vars
  <2> SUFFICES ASSUME TypeOK, Next, UNCHANGED row
               PROVE  /\ Outdated' \subseteq Outdated
                      /\ ListAgrees /\ ~ListAgrees' => Outdated' # Outdated
    OBVIOUS
  <2> DEFINE Goal == /\ Outdated' \subseteq Outdated
                     /\ ListAgrees /\ ~ListAgrees' => Outdated' # Outdated
  <2>0. Live' = Live
    BY DEF Live
  <2> USE DEF TypeOK, Outdated, ListAgrees
  <2>1. ASSUME NEW w \in Tasks, FillCache(w) PROVE Goal
    BY <2>0, <2>1 DEF FillCache, Goto
  <2>2. ASSUME NEW w \in Tasks, QueryRows(w) PROVE Goal
    BY <2>0, <2>2 DEF QueryRows, Goto
  <2>3. ASSUME NEW w \in Tasks, NEW step \in {"list", "insert", "select"}, NEW c,
               Begin(w, step, c)
        PROVE  Goal
    BY <2>0, <2>3 DEF Begin
  <2>4. ASSUME NEW w \in Tasks, ReadCache(w) \/ InsertRow(w) \/ SelectRow(w) \/ CommitDelete(w)
        PROVE  Goal
    BY <2>0, <2>4 DEF ReadCache, InsertRow, SelectRow, CommitDelete, Goto
  <2>5. ASSUME NEW w \in Tasks, ForgetList(w) \/ DropList(w) PROVE Goal
    BY <2>0, <2>5 DEF ForgetList, DropList, Goto
  <2>6. ASSUME NEW w \in Tasks, Leave(w) PROVE Goal
    BY <2>0, <2>6 DEF Leave
  <2>7. CASE ExpireList
    BY <2>0, <2>7 DEF ExpireList, taskVars
  <2> QED BY <2>1, <2>2, <2>3, <2>4, <2>5, <2>6, <2>7
          DEF Next, BeginList, BeginAdd, BeginDelete, TaskStep, Finish, Abandon
<1>2. Spec => [][DwindleStep]_vars
  BY <1>1, TypeCorrect, PTL DEF Spec
<1> QED BY <1>2 DEF StalenessDwindles
=============================================================================
