----------------------------- MODULE AccountsProofs -----------------------------
(***************************************************************************)
(* Theorems about Accounts for any number of users, addresses and          *)
(* concurrent requests: its types, that no two rows share an address, that *)
(* tokens name rows, that the server error of the unique index has one of  *)
(* its two causes, that only an overlapping update undoes a deletion, and  *)
(* that the access of a deleted user is not renewed.                       *)
(***************************************************************************)
EXTENDS Accounts, TLAPS

(* Whoever works on a user, or holds a token, knows a row of the table;    *)
(* rows are never removed.                                                 *)
KnowsRows ==
    /\ \A t \in tokens : Row(t.user)
    /\ \A r \in Requests :
          pc[r] \in {"comparing", "signing", "checking", "saving"} => Row(uid[r])

Typed == TypeOK /\ KnowsRows

(* The types are inductive together with KnowsRows.                        *)
LEMMA TypedStep == Typed /\ [Next]_vars => Typed'
<1> SUFFICES ASSUME Typed, [Next]_vars PROVE Typed'
  OBVIOUS
<1> USE NoEmailAssumption, NoUserAssumption
<1> USE DEF Typed, TypeOK, KnowsRows, Row, Live, Working, Replies, Token, TokenType,
            Goto, Begins, rowVars, memory
<1>1. ASSUME NEW r \in Requests, NEW e \in Emails, BeginRegister(r, e) PROVE Typed'
  BY <1>1 DEF BeginRegister
<1>2. ASSUME NEW r \in Requests, InsertFails(r) PROVE Typed'
  BY <1>2 DEF InsertFails
<1>3. ASSUME NEW r \in Requests, NEW u \in Users, Insert(r, u) PROVE Typed'
  BY <1>3 DEF Insert, Wrote
<1>4. ASSUME NEW r \in Requests, NEW e \in Emails, BeginLogin(r, e) PROVE Typed'
  BY <1>4 DEF BeginLogin, FoundByEmail
<1>5. ASSUME NEW r \in Requests, Compare(r) PROVE Typed'
  BY <1>5 DEF Compare
<1>6. ASSUME NEW r \in Requests, NEW t \in Token, BeginRefresh(r, t) PROVE Typed'
  BY <1>6 DEF BeginRefresh, FoundById
<1>7. ASSUME NEW r \in Requests, Sign(r) PROVE Typed'
  BY <1>7 DEF Sign
<1>8. ASSUME NEW r \in Requests, NEW t \in Token, NEW e \in Emails \cup {NoEmail},
             BeginUpdate(r, t, e)
      PROVE  Typed'
  BY <1>8 DEF BeginUpdate, FoundById, Unchanged
<1>9. ASSUME NEW r \in Requests, CheckNew(r) PROVE Typed'
  BY <1>9 DEF CheckNew
<1>10. ASSUME NEW r \in Requests, Save(r) PROVE Typed'
  BY <1>10 DEF Save, Wrote
<1>11. ASSUME NEW r \in Requests, Reply(r) PROVE Typed'
  BY <1>11 DEF Reply
<1>12. ASSUME NEW u \in Users, SoftDelete(u) PROVE Typed'
  BY <1>12 DEF SoftDelete, Wrote
<1>13. ASSUME NEW t \in Token, Expire(t) PROVE Typed'
  BY <1>13 DEF Expire
<1>14. CASE UNCHANGED vars
  BY <1>14 DEF vars
<1> QED
  BY <1>1, <1>2, <1>3, <1>4, <1>5, <1>6, <1>7, <1>8, <1>9, <1>10, <1>11, <1>12,
     <1>13, <1>14 DEF Next, Begin, Continue

(* Init establishes the inductive invariants.                              *)
LEMMA TypedInit == Init => Typed
BY NoEmailAssumption, NoUserAssumption
   DEF Init, Typed, TypeOK, KnowsRows, Row, Working, Replies

LEMMA AlwaysTyped == Spec => []Typed
BY TypedInit, TypedStep, PTL DEF Spec

(* The table, the tokens and the requests keep their types.                *)
THEOREM TypeCorrect == Spec => []TypeOK
<1>1. Typed => TypeOK
  BY DEF Typed
<1> QED BY <1>1, AlwaysTyped, PTL

(* A token, and a user tokens are about to be made for, names a row.       *)
THEOREM TokensAreOfRows == Spec => []TokensNameRows
<1>1. Typed => TokensNameRows
  BY DEF Typed, KnowsRows, TokensNameRows
<1> QED BY <1>1, AlwaysTyped, PTL

-----------------------------------------------------------------------------
(* Only Insert and Save write addresses, and the unique index stops both   *)
(* from writing one that another row has.                                  *)
LEMMA UniqueStep == Typed /\ OneRowPerAddress /\ [Next]_vars => OneRowPerAddress'
<1> SUFFICES ASSUME Typed, OneRowPerAddress, [Next]_vars PROVE OneRowPerAddress'
  OBVIOUS
<1> USE DEF OneRowPerAddress, Row, rowVars
<1>1. ASSUME NEW r \in Requests, NEW u \in Users, Insert(r, u)
      PROVE  OneRowPerAddress'
  BY <1>1, NoUserAssumption DEF Insert, Taken, Typed, TypeOK
<1>2. ASSUME NEW r \in Requests, Save(r) PROVE OneRowPerAddress'
  BY <1>2 DEF Save, Taken, Typed, TypeOK
<1>3. CASE UNCHANGED email
  BY <1>3
<1>4. ASSUME NEW r \in Requests, Begin(r) PROVE UNCHANGED email
  BY <1>4 DEF Begin, BeginRegister, BeginLogin, BeginRefresh, BeginUpdate
<1>5. ASSUME NEW r \in Requests,
             InsertFails(r) \/ Compare(r) \/ Sign(r) \/ CheckNew(r) \/ Reply(r)
      PROVE  UNCHANGED email
  BY <1>5 DEF InsertFails, Compare, Sign, CheckNew, Reply
<1>6. ASSUME NEW u \in Users, SoftDelete(u) PROVE UNCHANGED email
  BY <1>6 DEF SoftDelete
<1>7. ASSUME NEW t \in Token, Expire(t) PROVE UNCHANGED email
  BY <1>7 DEF Expire
<1>8. CASE UNCHANGED vars
  BY <1>8 DEF vars
<1> QED
  BY <1>1, <1>2, <1>3, <1>4, <1>5, <1>6, <1>7, <1>8 DEF Next, Continue

(* No two rows share an address, whatever requests overlap.                *)
THEOREM AddressesAreUnique == Spec => []OneRowPerAddress
<1>1. Init => OneRowPerAddress
  BY DEF Init, OneRowPerAddress, Row
<1> QED BY <1>1, UniqueStep, AlwaysTyped, PTL DEF Spec

-----------------------------------------------------------------------------
(* A request that is about to write, and that no other write has overtaken,*)
(* has looked: whoever else has its address is deleted.                    *)
HasLooked ==
    \A r \in Requests :
        pc[r] \in {"hashing", "saving"} /\ ~rival[r] =>
            \A v \in Users :
                email[v] = mail[r] /\ (pc[r] = "saving" => v # uid[r]) => v \in deleted

Excused == HasLooked /\ ErrorHasCause

LEMMA ExcusedStep ==
    Typed /\ OneRowPerAddress /\ Excused /\ [Next]_vars => Excused'
<1> SUFFICES ASSUME Typed, OneRowPerAddress, Excused, [Next]_vars PROVE Excused'
  OBVIOUS
<1> USE NoEmailAssumption, NoUserAssumption
<1> USE DEF Typed, TypeOK, Excused, HasLooked, ErrorHasCause, Working, Replies, Token,
            TokenType, Goto, Begins, rowVars, memory
<1>1. ASSUME NEW r \in Requests, NEW e \in Emails, BeginRegister(r, e) PROVE Excused'
  BY <1>1 DEF BeginRegister, FoundByEmail
<1>2. ASSUME NEW r \in Requests, InsertFails(r) PROVE Excused'
  BY <1>2 DEF InsertFails, Taken
<1>3. ASSUME NEW r \in Requests, NEW u \in Users, Insert(r, u) PROVE Excused'
  BY <1>3 DEF Insert, Wrote, Row
<1>4. ASSUME NEW r \in Requests, NEW e \in Emails, BeginLogin(r, e) PROVE Excused'
  BY <1>4 DEF BeginLogin, FoundByEmail
<1>5. ASSUME NEW r \in Requests, Compare(r) PROVE Excused'
  BY <1>5 DEF Compare
<1>6. ASSUME NEW r \in Requests, NEW t \in Token, BeginRefresh(r, t) PROVE Excused'
  BY <1>6 DEF BeginRefresh, FoundById, Live, Row
<1>7. ASSUME NEW r \in Requests, Sign(r) PROVE Excused'
  BY <1>7 DEF Sign
<1>8. ASSUME NEW r \in Requests, NEW t \in Token, NEW e \in Emails \cup {NoEmail},
             BeginUpdate(r, t, e)
      PROVE  Excused'
  BY <1>8 DEF BeginUpdate, FoundById, Unchanged, Live, Row, OneRowPerAddress
<1>9. ASSUME NEW r \in Requests, CheckNew(r) PROVE Excused'
  BY <1>9 DEF CheckNew, FoundByEmail
<1>10. ASSUME NEW r \in Requests, Save(r) PROVE Excused'
  BY <1>10 DEF Save, Wrote, Taken
<1>11. ASSUME NEW r \in Requests, Reply(r) PROVE Excused'
  BY <1>11 DEF Reply
<1>12. ASSUME NEW u \in Users, SoftDelete(u) PROVE Excused'
  BY <1>12 DEF SoftDelete, Wrote
<1>13. ASSUME NEW t \in Token, Expire(t) PROVE Excused'
  BY <1>13 DEF Expire
<1>14. CASE UNCHANGED vars
  BY <1>14 DEF vars
<1> QED
  BY <1>1, <1>2, <1>3, <1>4, <1>5, <1>6, <1>7, <1>8, <1>9, <1>10, <1>11, <1>12,
     <1>13, <1>14 DEF Next, Begin, Continue

(* A request that fails on the unique index was overtaken by another one's *)
(* write, or asked for the address of a deleted user.                      *)
THEOREM ErrorsHaveCauses == Spec => []ErrorHasCause
<1>1. Init => Excused
  BY DEF Init, Excused, HasLooked, ErrorHasCause
<1>2. Excused => ErrorHasCause
  BY DEF Excused
<1> QED BY <1>1, <1>2, ExcusedStep, AlwaysTyped, AddressesAreUnique, PTL DEF Spec

-----------------------------------------------------------------------------
(* An update whose user has been deleted was under way when that happened. *)
UpdatesAreOlder ==
    \A r \in Requests :
        pc[r] \in {"checking", "saving"} /\ uid[r] \in deleted => rival[r]

(* UpdatesAreOlder is inductive: an update begins with a user that is not  *)
(* deleted, and a deletion is a rival of every request under way.          *)
LEMMA OlderStep == Typed /\ UpdatesAreOlder /\ [Next]_vars => UpdatesAreOlder'
<1> SUFFICES ASSUME Typed, UpdatesAreOlder, [Next]_vars PROVE UpdatesAreOlder'
  OBVIOUS
<1> USE NoEmailAssumption, NoUserAssumption
<1> USE DEF Typed, TypeOK, UpdatesAreOlder, Working, Replies, Token, TokenType,
            Goto, Begins, rowVars, memory
<1>1. ASSUME NEW r \in Requests, NEW e \in Emails, BeginRegister(r, e)
      PROVE  UpdatesAreOlder'
  BY <1>1 DEF BeginRegister
<1>2. ASSUME NEW r \in Requests, NEW u \in Users, Insert(r, u) PROVE UpdatesAreOlder'
  BY <1>2 DEF Insert, Wrote
<1>3. ASSUME NEW r \in Requests, NEW e \in Emails, BeginLogin(r, e)
      PROVE  UpdatesAreOlder'
  BY <1>3 DEF BeginLogin
<1>4. ASSUME NEW r \in Requests, NEW t \in Token, BeginRefresh(r, t)
      PROVE  UpdatesAreOlder'
  BY <1>4 DEF BeginRefresh
<1>5. ASSUME NEW r \in Requests, NEW t \in Token, NEW e \in Emails \cup {NoEmail},
             BeginUpdate(r, t, e)
      PROVE  UpdatesAreOlder'
  BY <1>5 DEF BeginUpdate, FoundById, Live
<1>6. ASSUME NEW r \in Requests,
             InsertFails(r) \/ Compare(r) \/ Sign(r) \/ CheckNew(r) \/ Reply(r)
      PROVE  UpdatesAreOlder'
  BY <1>6 DEF InsertFails, Compare, Sign, CheckNew, Reply
<1>7. ASSUME NEW r \in Requests, Save(r) PROVE UpdatesAreOlder'
  BY <1>7 DEF Save, Wrote
<1>8. ASSUME NEW u \in Users, SoftDelete(u) PROVE UpdatesAreOlder'
  BY <1>8 DEF SoftDelete, Wrote
<1>9. ASSUME NEW t \in Token, Expire(t) PROVE UpdatesAreOlder'
  BY <1>9 DEF Expire
<1>10. CASE UNCHANGED vars
  BY <1>10 DEF vars
<1> QED
  BY <1>1, <1>2, <1>3, <1>4, <1>5, <1>6, <1>7, <1>8, <1>9, <1>10
     DEF Next, Begin, Continue

(* Only an update that read the user before its deletion undoes it, for    *)
(* any number of updates and deletions in any order.                       *)
THEOREM OnlyOverlapUndeletes == Spec => UndeletedByOverlap
<1> DEFINE Undeletes ==
      \A u \in Users :
          u \in deleted /\ u \notin deleted' =>
              \E r \in Requests : pc[r] = "saving" /\ uid[r] = u /\ rival[r]
<1>1. Init => UpdatesAreOlder
  BY DEF Init, UpdatesAreOlder
<1>2. UpdatesAreOlder /\ [Next]_vars => [Undeletes]_vars
  <2> SUFFICES ASSUME UpdatesAreOlder, Next PROVE Undeletes
    OBVIOUS
  <2>1. ASSUME NEW r \in Requests, Save(r) PROVE Undeletes
    BY <2>1 DEF Save, rowVars, UpdatesAreOlder
  <2>2. ASSUME NEW r \in Requests, Begin(r) PROVE UNCHANGED deleted
    BY <2>2 DEF Begin, BeginRegister, BeginLogin, BeginRefresh, BeginUpdate, rowVars
  <2>3. ASSUME NEW r \in Requests, Continue(r), ~Save(r) PROVE UNCHANGED deleted
    BY <2>3 DEF Continue, InsertFails, Insert, Compare, Sign, CheckNew, Reply, rowVars
  <2>4. ASSUME NEW u \in Users, SoftDelete(u) PROVE Undeletes
    BY <2>4 DEF SoftDelete
  <2>5. ASSUME NEW t \in Token, Expire(t) PROVE UNCHANGED deleted
    BY <2>5 DEF Expire, rowVars
  <2>6. UNCHANGED deleted => Undeletes
    OBVIOUS
  <2> QED BY <2>1, <2>2, <2>3, <2>4, <2>5, <2>6 DEF Next
<1>3. Spec => [][Undeletes]_vars
  BY <1>1, <1>2, OlderStep, AlwaysTyped, PTL DEF Spec
<1> QED BY <1>3 DEF UndeletedByOverlap

-----------------------------------------------------------------------------
(* Requests that can still make tokens for a user, and its tokens.         *)
Sources(u) == {r \in Requests : uid[r] = u /\ pc[r] \in {"comparing", "signing"}}
Held(u) == {t \in tokens : t.user = u}

(* As long as a user is deleted, no further request comes to make tokens   *)
(* for it, and each of those under way makes them once.                    *)
AccessDwindles ==
    [][\A u \in Users :
          u \in deleted /\ u \in deleted' =>
              /\ Sources(u)' \subseteq Sources(u)
              /\ Held(u)' \subseteq Held(u) \/ Sources(u)' # Sources(u)]_vars

(* The safety half of AccessEnds: neither log-in nor refresh begins for a  *)
(* deleted user, and no registration takes its row, whatever overlaps.     *)
THEOREM DeletionDriesUp == Spec => AccessDwindles
<1> DEFINE DwindleStep ==
      \A u \in Users :
          u \in deleted /\ u \in deleted' =>
              /\ Sources(u)' \subseteq Sources(u)
              /\ Held(u)' \subseteq Held(u) \/ Sources(u)' # Sources(u)
<1>1. Typed /\ [Next]_vars => [DwindleStep]_vars
  <2> SUFFICES ASSUME Typed, Next, NEW u \in Users, u \in deleted
               PROVE  /\ Sources(u)' \subseteq Sources(u)
                      /\ Held(u)' \subseteq Held(u) \/ Sources(u)' # Sources(u)
    OBVIOUS
  <2> DEFINE Goal == /\ Sources(u)' \subseteq Sources(u)
                     /\ Held(u)' \subseteq Held(u) \/ Sources(u)' # Sources(u)
  <2> USE NoUserAssumption
  <2>0. TypeOK /\ Row(u) /\ ~Live(u)
    BY DEF Typed, TypeOK, Row, Live
  <2> USE DEF TypeOK, Sources, Held, Goto, Begins, rowVars, memory
  <2>1. ASSUME NEW r \in Requests, NEW e \in Emails, BeginRegister(r, e) PROVE Goal
    BY <2>0, <2>1 DEF BeginRegister
  <2>2. ASSUME NEW r \in Requests, NEW e \in Emails, BeginLogin(r, e) PROVE Goal
    BY <2>0, <2>2 DEF BeginLogin, FoundByEmail
  <2>3. ASSUME NEW r \in Requests, NEW t \in Token, BeginRefresh(r, t) PROVE Goal
    BY <2>0, <2>3 DEF BeginRefresh, FoundById
  <2>4. ASSUME NEW r \in Requests, NEW t \in Token, NEW e \in Emails \cup {NoEmail},
               BeginUpdate(r, t, e)
        PROVE  Goal
    BY <2>0, <2>4 DEF BeginUpdate
  <2>5. ASSUME NEW r \in Requests, NEW v \in Users, Insert(r, v) PROVE Goal
    BY <2>0, <2>5 DEF Insert
  <2>6. ASSUME NEW r \in Requests, Sign(r) PROVE Goal
    <3>1. CASE uid[r] = u
      BY <2>0, <2>6, <3>1 DEF Sign
    <3>2. CASE uid[r] # u
      BY <2>0, <2>6, <3>2 DEF Sign
    <3> QED BY <3>1, <3>2
  <2>7. ASSUME NEW r \in Requests,
               InsertFails(r) \/ Compare(r) \/ CheckNew(r) \/ Save(r) \/ Reply(r)
        PROVE  Goal
    BY <2>0, <2>7 DEF InsertFails, Compare, CheckNew, Save, Reply, Replies
  <2>8. CASE \E v \in Users : SoftDelete(v)
    BY <2>8 DEF SoftDelete
  <2>9. CASE \E t \in Token : Expire(t)
    BY <2>9 DEF Expire
  <2> QED BY <2>1, <2>2, <2>3, <2>4, <2>5, <2>6, <2>7, <2>8, <2>9
          DEF Next, Begin, Continue
<1>2. Spec => [][DwindleStep]_vars
  BY <1>1, AlwaysTyped, PTL DEF Spec
<1> QED BY <1>2 DEF AccessDwindles
=============================================================================
