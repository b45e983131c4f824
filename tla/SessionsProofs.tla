----------------------------- MODULE SessionsProofs -----------------------------
(***************************************************************************)
(* Theorems about Sessions for any number of connections, sessions and     *)
(* concurrent requests: its types, that an ended session serves nothing    *)
(* that comes in later, and that nothing new comes to cache its schema.    *)
(***************************************************************************)
EXTENDS Sessions, TLAPS

(* A request that works on a session has one that was drawn; so the key    *)
(* that a new session is stored under is nobody else's.                    *)
HasSession ==
    /\ known \subseteq drawn
    /\ queue \subseteq drawn
    /\ ended \subseteq drawn
    /\ \A s \in SessionIds : Open(s) => s \in drawn
    /\ \A w \in Tasks :
          pc[w] \in {"commit", "publish", "connected", "resolve", "serving",
                     "answered", "check", "remove", "forget", "closed"} =>
              sid[w] \in drawn

Typed == TypeOK /\ HasSession

(* The types are inductive together with HasSession.                       *)
LEMMA TypedStep == Typed /\ [Next]_vars => Typed'
<1> SUFFICES ASSUME Typed, [Next]_vars PROVE Typed'
  OBVIOUS
<1> USE NoConnectionAssumption, NoSessionAssumption
<1> USE DEF Typed, TypeOK, HasSession, Open, Steps, Over, Goto, redisVars, taskVars
<1>1. ASSUME NEW w \in Tasks, BeginConnect(w) PROVE Typed'
  BY <1>1 DEF BeginConnect, Begin
<1>2. ASSUME NEW w \in Tasks, BeginAsk(w) PROVE Typed'
  BY <1>2 DEF BeginAsk, Begin
<1>3. ASSUME NEW w \in Tasks, BeginClose(w) PROVE Typed'
  BY <1>3 DEF BeginClose, Begin
<1>4. ASSUME NEW w \in Tasks, StoreSession(w) PROVE Typed'
  BY <1>4 DEF StoreSession
<1>5. ASSUME NEW w \in Tasks, CommitAccess(w) PROVE Typed'
  BY <1>5 DEF CommitAccess
<1>6. ASSUME NEW w \in Tasks, PublishSession(w) PROVE Typed'
  BY <1>6 DEF PublishSession
<1>7. ASSUME NEW w \in Tasks, Resolve(w) PROVE Typed'
  BY <1>7 DEF Resolve
<1>8. ASSUME NEW w \in Tasks, Serve(w) PROVE Typed'
  BY <1>8 DEF Serve
<1>9. ASSUME NEW w \in Tasks, CheckClose(w) PROVE Typed'
  BY <1>9 DEF CheckClose
<1>10. ASSUME NEW w \in Tasks, RemoveSession(w) PROVE Typed'
  BY <1>10 DEF RemoveSession
<1>11. ASSUME NEW w \in Tasks, ForgetSchema(w) PROVE Typed'
  BY <1>11 DEF ForgetSchema
<1>12. ASSUME NEW w \in Tasks, Finish(w) PROVE Typed'
  BY <1>12 DEF Finish, Leave
<1>13. ASSUME NEW w \in Tasks, Abandon(w) PROVE Typed'
  BY <1>13 DEF Abandon, Leave
<1>14. ASSUME NEW s \in SessionIds, Consume(s) PROVE Typed'
  BY <1>14 DEF Consume
<1>15. ASSUME NEW s \in SessionIds, ExpireSession(s) PROVE Typed'
  BY <1>15 DEF ExpireSession
<1>16. ASSUME NEW s \in SessionIds, ExpireSchema(s) PROVE Typed'
  BY <1>16 DEF ExpireSchema
<1>17. CASE UNCHANGED vars
  BY <1>17 DEF vars
<1> QED
  BY <1>1, <1>2, <1>3, <1>4, <1>5, <1>6, <1>7, <1>8, <1>9, <1>10, <1>11,
     <1>12, <1>13, <1>14, <1>15, <1>16, <1>17 DEF Next, TaskStep

(* Hence both hold in every reachable state.                               *)
LEMMA TypedInvariant == Spec => []Typed
<1>1. Init => Typed
  BY DEF Init, Typed, TypeOK, HasSession, Open, Steps
<1> QED BY <1>1, TypedStep, PTL DEF Spec

(* The keys and the requests have their types in every reachable state.    *)
THEOREM TypeCorrect == Spec => []TypeOK
<1>1. Typed => TypeOK
  BY DEF Typed
<1> QED BY <1>1, TypedInvariant, PTL

-----------------------------------------------------------------------------
(* Why nothing is served: an ended session's key is gone for good, since   *)
(* ids are drawn once, and only an ended session makes a request late.     *)
EndIsFinal ==
    /\ \A s \in ended : ~Open(s)
    /\ \A w \in Tasks : late[w] => sid[w] \in ended /\ pc[w] # "store"
    /\ EndedServesNothing

(* A request that begins is late only if its session has ended.           *)
LEMMA BeginKeepsEnds ==
    ASSUME TypeOK, EndIsFinal, NEW w \in Tasks, NEW s, NEW c,
           NEW step \in {"store", "resolve", "check"}, Begin(w, step, s, c),
           step = "store" => s \notin ended
    PROVE  EndIsFinal'
<1> USE DEF TypeOK, Begin, redisVars
<1>1. \A v \in Tasks : v # w => late'[v] = late[v] /\ sid'[v] = sid[v] /\ pc'[v] = pc[v]
  OBVIOUS
<1>2. late'[w] = (s \in ended)
  BY Zenon
<1>3. sid'[w] = s /\ pc'[w] = step
  OBVIOUS
<1> QED BY <1>1, <1>2, <1>3 DEF EndIsFinal, EndedServesNothing, Open

(* A step that stores a key stores it under a fresh id.                    *)
LEMMA EndStep == Typed /\ EndIsFinal /\ [Next]_vars => EndIsFinal'
<1> SUFFICES ASSUME Typed, EndIsFinal, [Next]_vars PROVE EndIsFinal'
  OBVIOUS
<1> USE NoConnectionAssumption, NoSessionAssumption
<1> USE DEF Typed, TypeOK, HasSession, EndIsFinal, EndedServesNothing, Open,
            Steps, Over, Goto, redisVars, taskVars
<1>1. ASSUME NEW w \in Tasks, BeginConnect(w) PROVE EndIsFinal'
  <2>1. PICK c : Begin(w, "store", NoSession, c)
    BY <1>1 DEF BeginConnect
  <2> QED BY <2>1, BeginKeepsEnds
<1>2. ASSUME NEW w \in Tasks, BeginAsk(w) PROVE EndIsFinal'
  <2>1. PICK s, c : Begin(w, "resolve", s, c)
    BY <1>2 DEF BeginAsk
  <2> QED BY <2>1, BeginKeepsEnds
<1>3. ASSUME NEW w \in Tasks, BeginClose(w) PROVE EndIsFinal'
  <2>1. PICK s, c : Begin(w, "check", s, c)
    BY <1>3 DEF BeginClose
  <2> QED BY <2>1, BeginKeepsEnds
<1>4. ASSUME NEW w \in Tasks, StoreSession(w) PROVE EndIsFinal'
  <2>1. PICK s \in SessionIds \ drawn :
               /\ sid' = [sid EXCEPT ![w] = s]
               /\ key' = [key EXCEPT ![s] = target[w]]
    BY <1>4 DEF StoreSession
  <2>2. s \notin ended /\ \A r \in ended : key'[r] = key[r]
    BY <2>1
  <2>3. pc[w] = "store" /\ pc' = [pc EXCEPT ![w] = "commit"] /\ UNCHANGED <<ended, late>>
    BY <1>4 DEF StoreSession
  <2>4. ~late[w]
    BY <2>3
  <2> QED BY <2>1, <2>2, <2>3, <2>4
<1>5. ASSUME NEW w \in Tasks, CommitAccess(w) PROVE EndIsFinal'
  BY <1>5 DEF CommitAccess
<1>6. ASSUME NEW w \in Tasks, PublishSession(w) PROVE EndIsFinal'
  BY <1>6 DEF PublishSession
<1>7. ASSUME NEW w \in Tasks, Resolve(w) PROVE EndIsFinal'
  BY <1>7 DEF Resolve
<1>8. ASSUME NEW w \in Tasks, Serve(w) PROVE EndIsFinal'
  BY <1>8 DEF Serve
<1>9. ASSUME NEW w \in Tasks, CheckClose(w) PROVE EndIsFinal'
  BY <1>9 DEF CheckClose
<1>10. ASSUME NEW w \in Tasks, RemoveSession(w) PROVE EndIsFinal'
  BY <1>10 DEF RemoveSession
<1>11. ASSUME NEW w \in Tasks, ForgetSchema(w) PROVE EndIsFinal'
  BY <1>11 DEF ForgetSchema
<1>12. ASSUME NEW w \in Tasks, Finish(w) PROVE EndIsFinal'
  BY <1>12 DEF Finish, Leave
<1>13. ASSUME NEW w \in Tasks, Abandon(w) PROVE EndIsFinal'
  BY <1>13 DEF Abandon, Leave
<1>14. ASSUME NEW s \in SessionIds, Consume(s) PROVE EndIsFinal'
  BY <1>14 DEF Consume
<1>15. ASSUME NEW s \in SessionIds, ExpireSession(s) PROVE EndIsFinal'
  BY <1>15 DEF ExpireSession
<1>16. ASSUME NEW s \in SessionIds, ExpireSchema(s) PROVE EndIsFinal'
  BY <1>16 DEF ExpireSchema
<1>17. CASE UNCHANGED vars
  BY <1>17 DEF vars
<1> QED
  BY <1>1, <1>2, <1>3, <1>4, <1>5, <1>6, <1>7, <1>8, <1>9, <1>10, <1>11,
     <1>12, <1>13, <1>14, <1>15, <1>16, <1>17 DEF Next, TaskStep

LEMMA AlwaysFinal == Spec => [](Typed /\ EndIsFinal)
<1>1. Init => EndIsFinal
  BY DEF Init, EndIsFinal, EndedServesNothing
<1> QED BY <1>1, TypedInvariant, EndStep, PTL DEF Spec

(* A session that has been closed or has expired serves no later question, *)
(* for any number of requests under way when it ended.                     *)
THEOREM EndedSessionsServeNothing == Spec => []EndedServesNothing
<1>1. EndIsFinal => EndedServesNothing
  BY DEF EndIsFinal
<1> QED BY <1>1, AlwaysFinal, PTL

-----------------------------------------------------------------------------
(* Requests that can still have a session's schema cached, themselves or   *)
(* by a message.                                                           *)
Writers(s) ==
    {w \in Tasks : sid[w] = s /\ pc[w] \in {"commit", "publish", "serving"}}

(* Once a session has ended its key is gone, no further request comes to   *)
(* cache its schema, and those under way do it, or send a message for it,  *)
(* once each; a message has it cached once.                                *)
EndedDwindles ==
    [][\A s \in ended :
          /\ s \in ended' /\ ~Open(s)'
          /\ Writers(s)' \subseteq Writers(s)
          /\ s \in queue' \ queue => Writers(s)' # Writers(s)
          /\ s \in schema' \ schema => Writers(s)' # Writers(s) \/ s \in queue \ queue']_vars

(* The safety half of EventuallyReleased.                                  *)
THEOREM EndedSessionsDryUp == Spec => EndedDwindles
<1> DEFINE DwindleStep ==
      \A s \in ended :
          /\ s \in ended' /\ ~Open(s)'
          /\ Writers(s)' \subseteq Writers(s)
          /\ s \in queue' \ queue => Writers(s)' # Writers(s)
          /\ s \in schema' \ schema => Writers(s)' # Writers(s) \/ s \in queue \ queue'
<1>1. Typed /\ EndIsFinal /\ EndIsFinal' /\ [Next]_vars => [DwindleStep]_vars
  <2> SUFFICES ASSUME Typed, EndIsFinal, EndIsFinal', Next, NEW s \in ended
               PROVE  /\ s \in ended' /\ ~Open(s)'
                      /\ Writers(s)' \subseteq Writers(s)
                      /\ s \in queue' \ queue => Writers(s)' # Writers(s)
                      /\ s \in schema' \ schema =>
                            Writers(s)' # Writers(s) \/ s \in queue \ queue'
    OBVIOUS
  <2> DEFINE Goal == /\ s \in ended'
                     /\ Writers(s)' \subseteq Writers(s)
                     /\ s \in queue' \ queue => Writers(s)' # Writers(s)
                     /\ s \in schema' \ schema =>
                           Writers(s)' # Writers(s) \/ s \in queue \ queue'
  <2> USE NoConnectionAssumption, NoSessionAssumption
  <2>0. TypeOK /\ s \in SessionIds /\ s \in drawn /\ ~Open(s)
    BY DEF Typed, TypeOK, HasSession, EndIsFinal
  <2> USE DEF TypeOK, Writers, Over, Goto, redisVars, taskVars
  <2>1. ASSUME NEW w \in Tasks, BeginConnect(w) \/ BeginAsk(w) \/ BeginClose(w) PROVE Goal
    BY <2>0, <2>1 DEF BeginConnect, BeginAsk, BeginClose, Begin
  <2>2. ASSUME NEW w \in Tasks, StoreSession(w) PROVE Goal
    BY <2>0, <2>2 DEF StoreSession
  <2>3. ASSUME NEW w \in Tasks, CommitAccess(w) PROVE Goal
    BY <2>0, <2>3 DEF CommitAccess
  <2>4. ASSUME NEW w \in Tasks, PublishSession(w) PROVE Goal
    <3>1. CASE sid[w] = s
      BY <2>0, <2>4, <3>1 DEF PublishSession
    <3>2. CASE sid[w] # s
      BY <2>0, <2>4, <3>2 DEF PublishSession
    <3> QED BY <3>1, <3>2
  <2>5. ASSUME NEW w \in Tasks, Resolve(w) PROVE Goal
    BY <2>0, <2>5 DEF Resolve
  <2>6. ASSUME NEW w \in Tasks, Serve(w) PROVE Goal
    <3>1. CASE sid[w] = s
      BY <2>0, <2>6, <3>1 DEF Serve
    <3>2. CASE sid[w] # s
      BY <2>0, <2>6, <3>2 DEF Serve
    <3> QED BY <3>1, <3>2
  <2>7. ASSUME NEW w \in Tasks, CheckClose(w) \/ RemoveSession(w) \/ ForgetSchema(w)
        PROVE  Goal
    BY <2>0, <2>7 DEF CheckClose, RemoveSession, ForgetSchema
  <2>8. ASSUME NEW w \in Tasks, Leave(w) PROVE Goal
    BY <2>0, <2>8 DEF Leave
  <2>9. ASSUME NEW r \in SessionIds, Consume(r) \/ ExpireSession(r) \/ ExpireSchema(r)
        PROVE  Goal
    BY <2>0, <2>9 DEF Consume, ExpireSession, ExpireSchema
  <2>10. Goal
    BY <2>1, <2>2, <2>3, <2>4, <2>5, <2>6, <2>7, <2>8, <2>9
       DEF Next, TaskStep, Finish, Abandon
  <2> QED BY <2>10 DEF EndIsFinal
<1>2. Spec => [][DwindleStep]_vars
  BY <1>1, AlwaysFinal, PTL DEF Spec
<1> QED BY <1>2 DEF EndedDwindles
=============================================================================
