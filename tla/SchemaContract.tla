---------------------------- MODULE SchemaContract ----------------------------
(***************************************************************************)
(* What schema_service promises to those who ask it for the schema of a    *)
(* session's database, without keys, their times to live or the order of   *)
(* reads and writes.  An answer has either been read from the database     *)
(* since the request came in, its list of tables at one moment and each    *)
(* table's columns and keys at moments of their own after that; or it      *)
(* comes from the cache: at least one table, each described as the         *)
(* database once had it.  A refresh is answered the first way.             *)
(* SchemaCache implements this contract.                                   *)
(***************************************************************************)
EXTENDS Sequences, Integers

CONSTANTS
    Tables,      \* names of tables of the user's database
    Forms,       \* forms a table can have
    Tasks,       \* slots for concurrent requests
    MaxChanges   \* bound: schema changes of a behaviour

VARIABLES
    history,   \* the schemas the database has had, the present one last
    session,   \* whether the session is open
    phase,     \* idle, busy or answered
    kind,      \* what each request is: ask, consume, refresh
    since,     \* Len(history) when the request came in
    answer     \* the descriptions it was answered

taskVars == <<phase, kind, since, answer>>
vars == <<history, session, taskVars>>

Database == history[Len(history)]
Present(s) == {t \in Tables : s[t] # "absent"}

No(what) == [columns |-> what, keys |-> what]
Readings == [Tables -> [columns : Forms, keys : Forms \cup {"absent"}] \cup {No("absent")}]
Nothing == [t \in Tables |-> No("absent")]
Described(r) == {t \in Tables : r[t].columns # "absent"}

(* What r says of t was so at moments of the history from the m-th on. *)
TrueSince(m, r, t) ==
    \E i \in m .. Len(history) : \E j \in i .. Len(history) :
        r[t] = [columns |-> history[i][t], keys |-> history[j][t]]

Recent(w, r) ==
    \E m \in since[w] .. Len(history) :
        /\ Described(r) = Present(history[m])
        /\ \A t \in Described(r) : TrueSince(m, r, t)

Genuine(r) == \A t \in Described(r) : TrueSince(1, r, t)

Init ==
    /\ \E s \in [Tables -> Forms \cup {"absent"}] : history = <<s>>
    /\ session = "open"
    /\ phase = [w \in Tasks |-> "idle"]
    /\ kind = [w \in Tasks |-> "ask"]
    /\ since = [w \in Tasks |-> 1]
    /\ answer = [w \in Tasks |-> Nothing]

Request(w, k) ==
    /\ phase[w] = "idle"
    /\ k = "consume" \/ session = "open"
    /\ phase' = [phase EXCEPT ![w] = "busy"]
    /\ kind' = [kind EXCEPT ![w] = k]
    /\ since' = [since EXCEPT ![w] = Len(history)]
    /\ UNCHANGED <<history, session, answer>>

Answer(w) ==
    /\ phase[w] = "busy"
    /\ phase' = [phase EXCEPT ![w] = "answered"]
    /\ \E r \in Readings :
          /\ answer' = [answer EXCEPT ![w] = r]
          /\ Recent(w, r) \/ (kind[w] # "refresh" /\ r # Nothing /\ Genuine(r))
    /\ UNCHANGED <<history, session, kind, since>>

(* The request is over, with an answer or without. *)
Leave(w) ==
    /\ phase[w] # "idle"
    /\ phase' = [phase EXCEPT ![w] = "idle"]
    /\ kind' = [kind EXCEPT ![w] = "ask"]
    /\ since' = [since EXCEPT ![w] = 1]
    /\ answer' = [answer EXCEPT ![w] = Nothing]
    /\ UNCHANGED <<history, session>>

Change(t) ==
    /\ Len(history) <= MaxChanges
    /\ \E f \in (Forms \cup {"absent"}) \ {Database[t]} :
          history' = Append(history, [Database EXCEPT ![t] = f])
    /\ UNCHANGED <<session, taskVars>>

Close ==
    /\ session = "open"
    /\ session' = "closed"
    /\ UNCHANGED <<history, taskVars>>

Next ==
    \/ \E w \in Tasks, k \in {"ask", "consume", "refresh"} : Request(w, k)
    \/ \E w \in Tasks : Answer(w) \/ Leave(w)
    \/ \E t \in Tables : Change(t)
    \/ Close

Spec == Init /\ [][Next]_vars
=============================================================================
