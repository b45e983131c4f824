-------------------------------- MODULE Accounts --------------------------------
(***************************************************************************)
(* The gateway's users and tokens: UsersService, AuthService and the       *)
(* routes of AuthController.                                               *)
(*                                                                         *)
(* A request gives up the thread at every await: the look-up of a user,    *)
(* bcrypt, and save are steps of their own, and what a request read before *)
(* an await it uses after it.  TypeORM's save of a loaded user writes every*)
(* column that differs from the row, deleted_at included.  The unique index*)
(* on the e-mail counts deleted rows, findByEmail and findById do not see  *)
(* them.                                                                   *)
(*                                                                         *)
(* Addresses are those the DTOs leave: trimmed and in lower case.  A token *)
(* is the user and the type it names; nothing reads its e-mail.  No route  *)
(* calls softDeleteUser, but it is an operation of the service and may run *)
(* at any time; reading a profile changes nothing and is left out.         *)
(***************************************************************************)
EXTENDS FiniteSets

CONSTANTS
    Users,      \* rows the table may come to hold
    Emails,     \* addresses
    Requests,   \* slots for concurrent requests; a slot is used again and again
    NoEmail,    \* no row; or no address in the body
    NoUser

ASSUME NoEmailAssumption == NoEmail \notin Emails
ASSUME NoUserAssumption == NoUser \notin Users

VARIABLES
    email,      \* the e-mail column; NoEmail where there is no row
    deleted,    \* users whose deleted_at is set
    tokens,     \* tokens that somebody holds and that have not expired
    pc,         \* phase of each request
    uid, mail,  \* the user object a request has in memory
    rival       \* history: another request has written a row since this one began

rowVars == <<email, deleted>>
memory == <<uid, mail>>
vars == <<email, deleted, tokens, pc, uid, mail, rival>>

TokenType == {"access", "refresh"}
Token == [user : Users, type : TokenType]
Working == {"hashing", "comparing", "signing", "checking", "saving"}
Replies == {"granted", "updated", "denied", "missing", "conflict", "error"}

(* Types: a row has an address, only rows are deleted, and a request that  *)
(* works on a user has that user in memory.                                *)
TypeOK ==
    /\ email \in [Users -> Emails \cup {NoEmail}]
    /\ deleted \in SUBSET {u \in Users : email[u] # NoEmail}
    /\ tokens \in SUBSET Token
    /\ pc \in [Requests -> {"idle"} \cup Working \cup Replies]
    /\ uid \in [Requests -> Users \cup {NoUser}]
    /\ mail \in [Requests -> Emails \cup {NoEmail}]
    /\ rival \in [Requests -> BOOLEAN]
    /\ \A r \in Requests :
          /\ pc[r] \in {"hashing", "checking", "saving"} => mail[r] # NoEmail
          /\ pc[r] \in {"comparing", "signing", "checking", "saving"} =>
                uid[r] # NoUser

-----------------------------------------------------------------------------
Row(u) == email[u] # NoEmail
Live(u) == Row(u) /\ u \notin deleted

(* findByEmail *)
FoundByEmail(e) == {u \in Users : email[u] = e /\ u \notin deleted}

FoundByIdAnyway(u) == {v \in {u} : Row(v)}                         \* mutant

(* findById *)
FoundById(u) == {v \in {u} : Live(v)}

TakenAmongLive(e, u) == \E v \in FoundByEmail(e) : v # u           \* mutant

(* The unique index refuses an address another row has, deleted or not.    *)
Taken(e, u) == \E v \in Users \ {u} : email[v] = e

Goto(r, phase) == pc' = [pc EXCEPT ![r] = phase]

(* The other requests that are under way have had a rival. *)
Wrote(by) ==
    rival' = [r \in Requests |-> rival[r] \/ (r \notin by /\ pc[r] # "idle")]

Begins(r) == pc[r] = "idle" /\ UNCHANGED rival

Init ==
    /\ email = [u \in Users |-> NoEmail]
    /\ deleted = {}
    /\ tokens = {}
    /\ pc = [r \in Requests |-> "idle"]
    /\ uid = [r \in Requests |-> NoUser]
    /\ mail = [r \in Requests |-> NoEmail]
    /\ rival = [r \in Requests |-> FALSE]

-----------------------------------------------------------------------------
(* POST auth/register: createUser up to bcrypt.hash. *)
BeginRegister(r, e) ==
    /\ Begins(r)
    /\ IF FoundByEmail(e) # {} THEN Goto(r, "conflict") ELSE Goto(r, "hashing")
    /\ mail' = [mail EXCEPT ![r] = e]
    /\ UNCHANGED <<rowVars, tokens, uid>>

(* Mutant: the user is kept in memory, and tokens made for it, although    *)
(* its save has failed.                                                    *)
InsertFailsUnseen(r) ==
    /\ pc[r] = "hashing"
    /\ Taken(mail[r], NoUser)
    /\ \E u \in Users :
          /\ ~Row(u)
          /\ uid' = [uid EXCEPT ![r] = u]
    /\ Goto(r, "signing")
    /\ UNCHANGED <<rowVars, tokens, mail, rival>>

(* save of a new user.  A violation of the index is no HttpException: 500. *)
InsertFails(r) ==
    /\ pc[r] = "hashing"
    /\ Taken(mail[r], NoUser)
    /\ Goto(r, "error")
    /\ UNCHANGED <<rowVars, tokens, memory, rival>>

Insert(r, u) ==
    /\ pc[r] = "hashing"
    /\ ~Row(u)
    /\ ~Taken(mail[r], NoUser)
    /\ email' = [email EXCEPT ![u] = mail[r]]
    /\ uid' = [uid EXCEPT ![r] = u]
    /\ Wrote({r})
    /\ Goto(r, "signing")
    /\ UNCHANGED <<deleted, tokens, mail>>

(* POST auth/login: findByEmail. *)
BeginLogin(r, e) ==
    /\ Begins(r)
    /\ \/ FoundByEmail(e) = {} /\ Goto(r, "denied") /\ UNCHANGED memory
       \/ \E u \in FoundByEmail(e) :
             /\ uid' = [uid EXCEPT ![r] = u]
             /\ mail' = [mail EXCEPT ![r] = e]
             /\ Goto(r, "comparing")
    /\ UNCHANGED <<rowVars, tokens>>

(* bcrypt.compare: the password of the request is right or wrong. *)
Compare(r) ==
    /\ pc[r] = "comparing"
    /\ Goto(r, "signing") \/ Goto(r, "denied")
    /\ UNCHANGED <<rowVars, tokens, memory, rival>>

(* POST auth/refresh: verify, the token's type, findById. *)
BeginRefresh(r, t) ==
    /\ Begins(r)
    /\ t \in tokens
    /\ \/ /\ t.type # "refresh" \/ FoundById(t.user) = {}
          /\ Goto(r, "denied")
          /\ UNCHANGED memory
       \/ /\ t.type = "refresh"
          /\ \E u \in FoundById(t.user) :
                /\ uid' = [uid EXCEPT ![r] = u]
                /\ mail' = [mail EXCEPT ![r] = email[u]]
          /\ Goto(r, "signing")
    /\ UNCHANGED <<rowVars, tokens>>

(* generateTokens, for the user as it was read. *)
Sign(r) ==
    /\ pc[r] = "signing"
    /\ tokens' = tokens \cup [user : {uid[r]}, type : TokenType]
    /\ Goto(r, "granted")
    /\ UNCHANGED <<rowVars, memory, rival>>

UnchangedOrGiven(u, e) == e = email[u]                             \* mutant

(* The body of a profile update has no address, or the present one. *)
Unchanged(u, e) == e \in {NoEmail, email[u]}

(* PUT users/profile: JwtStrategy accepts an access token without a look at*)
(* the user; updateUser up to the second look-up.  Without an address, or  *)
(* with the present one, it saves at once.                                 *)
BeginUpdate(r, t, e) ==
    /\ Begins(r)
    /\ t \in tokens
    /\ \/ /\ t.type # "access"
          /\ Goto(r, "denied")
          /\ UNCHANGED memory
       \/ /\ t.type = "access"
          /\ FoundById(t.user) = {}
          /\ Goto(r, "missing")
          /\ UNCHANGED memory
       \/ /\ t.type = "access"
          /\ \E u \in FoundById(t.user) :
                /\ uid' = [uid EXCEPT ![r] = u]
                /\ mail' = [mail EXCEPT ![r] = IF Unchanged(u, e) THEN email[u] ELSE e]
                /\ Goto(r, IF Unchanged(u, e) THEN "saving" ELSE "checking")
    /\ UNCHANGED <<rowVars, tokens>>

(* Mutant: the check whether the new address is in use is left out. *)
CheckNothing(r) ==
    /\ pc[r] = "checking"
    /\ Goto(r, "saving")
    /\ UNCHANGED <<rowVars, tokens, memory, rival>>

CheckNew(r) ==
    /\ pc[r] = "checking"
    /\ IF FoundByEmail(mail[r]) # {} THEN Goto(r, "conflict") ELSE Goto(r, "saving")
    /\ UNCHANGED <<rowVars, tokens, memory, rival>>

(* save of the loaded user: what differs from the row is written. *)
Save(r) ==
    /\ pc[r] = "saving"
    /\ IF Taken(mail[r], uid[r])
       THEN Goto(r, "error") /\ UNCHANGED <<rowVars, rival>>
       ELSE /\ email' = [email EXCEPT ![uid[r]] = mail[r]]
            /\ deleted' = deleted \ {uid[r]}
            /\ Goto(r, "updated")
            /\ Wrote({r})
    /\ UNCHANGED <<tokens, memory>>

(* The answer has been sent; the slot is free again. *)
Reply(r) ==
    /\ pc[r] \in Replies
    /\ Goto(r, "idle")
    /\ uid' = [uid EXCEPT ![r] = NoUser]
    /\ mail' = [mail EXCEPT ![r] = NoEmail]
    /\ rival' = [rival EXCEPT ![r] = FALSE]
    /\ UNCHANGED <<rowVars, tokens>>

(* softDeleteUser *)
SoftDelete(u) ==
    /\ Live(u)
    /\ deleted' = deleted \cup {u}
    /\ Wrote({})
    /\ UNCHANGED <<email, tokens, pc, memory>>

(* The time of jwt.accessExpiry or jwt.refreshExpiry is over. *)
Expire(t) ==
    /\ t \in tokens
    /\ tokens' = tokens \ {t}
    /\ UNCHANGED <<rowVars, pc, memory, rival>>

Begin(r) ==
    \/ \E e \in Emails : BeginRegister(r, e) \/ BeginLogin(r, e)
    \/ \E t \in Token : BeginRefresh(r, t)
    \/ \E t \in Token, e \in Emails \cup {NoEmail} : BeginUpdate(r, t, e)

Continue(r) ==
    \/ InsertFails(r)
    \/ \E u \in Users : Insert(r, u)
    \/ Compare(r) \/ Sign(r) \/ CheckNew(r) \/ Save(r)
    \/ Reply(r)

Next ==
    \/ \E r \in Requests : Begin(r) \/ Continue(r)
    \/ \E u \in Users : SoftDelete(u)
    \/ \E t \in Token : Expire(t)

Spec == Init /\ [][Next]_vars

(* A request that was accepted goes on, and time passes. *)
Fairness ==
    /\ \A r \in Requests : WF_vars(Continue(r))
    /\ \A t \in Token : WF_vars(Expire(t))

FairSpec == Spec /\ Fairness

-----------------------------------------------------------------------------
(* Two requests can find an address free and both go on to save it; still  *)
(* no two rows, deleted ones included, ever share an address.              *)
OneRowPerAddress ==
    \A u, v \in Users : Row(u) /\ email[u] = email[v] => u = v

(* Whatever overlaps, a token, and a user that tokens are about to be made *)
(* for, names a row of the table.                                          *)
TokensNameRows ==
    /\ \A t \in tokens : Row(t.user)
    /\ \A r \in Requests : pc[r] = "signing" => Row(uid[r])

(* The server error of the index is the exception: a request that neither  *)
(* overlapped another one's write nor asked for the address of a deleted   *)
(* user is told of a conflict properly.                                    *)
ErrorHasCause ==
    \A r \in Requests :
        pc[r] = "error" => rival[r] \/ \E u \in deleted : email[u] = mail[r]

(* A deletion is undone only by an update that overlaps it: one that had   *)
(* read the user before the deletion and saves it afterwards, with the     *)
(* null deleted_at it has in memory.  One that comes later finds nobody.   *)
UndeletedByOverlap ==
    [][\A u \in Users :
          u \in deleted /\ u \notin deleted' =>
              \E r \in Requests : pc[r] = "saving" /\ uid[r] = u /\ rival[r]]_vars

(* Tokens cannot be revoked; but once a user is deleted for good, nobody   *)
(* can renew them, and sooner or later none is left.                       *)
AccessEnds ==
    \A u \in Users :
        <>[](u \in deleted) => <>[](\A t \in tokens : t.user # u)
=============================================================================
