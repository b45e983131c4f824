------------------------------ MODULE BrowserProofs ------------------------------
(***************************************************************************)
(* Theorems about the three components of the browser: QueryPage, SignIn   *)
(* and Dashboard, for any number of accounts, connections, urls, and of    *)
(* openings, forms, saves and questions under way.                         *)
(*                                                                         *)
(* Of QueryPage: its types, that the session shown is the page's, that     *)
(* questions do not race, and that the pager stays on the result.  Of      *)
(* SignIn: its types, and whose tokens are in the store.  Of Dashboard:    *)
(* its types, that the url saved is the one tested, and that the cards     *)
(* agree with the service.                                                 *)
(***************************************************************************)
EXTENDS QueryPage, SignIn, Dashboard, TLAPS

-----------------------------------------------------------------------------
(* A page that waits, waits for an opening of its own connection.  Unless  *)
(* one is left from before, it is the only opening under way, and once it  *)
(* has connected the session is the page's.                                *)
OwnOpening ==
    /\ waiting # NoOpening => opens[waiting] # NotOpening /\ opens[waiting].conn = page
    /\ page # Dashboard /\ ~overlap =>
          /\ \A o \in Openings : opens[o] # NotOpening => o = waiting
          /\ waiting = NoOpening \/ opens[waiting].at = "history" => session = page

QueryPageInv == QueryPageTypeOK /\ OwnOpening /\ OneAtATime /\ TurnedPageHasRows

(* A result that has pages has a first one.                                *)
LEMMA FirstPage == 0 \in 0..MaxPages - 1
BY MaxPagesAssumption

(* What becomes of an opening that has connected.                          *)
LEMMA OnwardOpening ==
    \A i \in Opening : [i EXCEPT !.at = "history"] = [at |-> "history", conn |-> i.conn]
BY DEF Opening

(* The types are inductive.                                                *)
LEMMA QueryPageTypeStep == QueryPageTypeOK /\ [QueryPageNext]_queryPageVars => QueryPageTypeOK'
<1> SUFFICES ASSUME QueryPageTypeOK, [QueryPageNext]_queryPageVars PROVE QueryPageTypeOK'
  OBVIOUS
<1> USE DashboardAssumption, NoSessionAssumption, NoOpeningAssumption, FirstPage
<1> USE DEF QueryPageTypeOK, store, panel
<1>1. ASSUME NEW c \in Connections, NEW o \in Openings, OpenPage(c, o) PROVE QueryPageTypeOK'
  <2>1. [at |-> "connect", conn |-> c] \in Opening
    BY DEF Opening
  <2>2. overlap' \in BOOLEAN
    BY <1>1, Zenon DEF OpenPage
  <2> QED BY <1>1, <2>1, <2>2 DEF OpenPage
<1>2. ASSUME NEW o \in Openings, Connected(o) PROVE QueryPageTypeOK'
  <2>1. opens[o] \in Opening
    BY <1>2 DEF Connected, NotOpening
  <2>2. [opens[o] EXCEPT !.at = "history"] \in Opening
    BY <2>1 DEF Opening
  <2>3. opens[o].conn \in Connections
    BY <2>1 DEF Opening
  <2> QED BY <1>2, <2>2, <2>3 DEF Connected
<1>3. ASSUME NEW o \in Openings, Loaded(o) PROVE QueryPageTypeOK'
  BY <1>3 DEF Loaded
<1>4. ASSUME NEW o \in Openings, OpeningFails(o) PROVE QueryPageTypeOK'
  BY <1>4 DEF OpeningFails, Unmount
<1>5. ASSUME NEW o \in Openings, ReloadPage(o) PROVE QueryPageTypeOK'
  <2>1. [at |-> "connect", conn |-> page] \in Opening
    BY <1>5 DEF ReloadPage, Opening
  <2> QED BY <1>5, <2>1 DEF ReloadPage, Reload
<1>6. ASSUME NEW r \in Requests, Ask(r) PROVE QueryPageTypeOK'
  BY <1>6 DEF Ask
<1>7. ASSUME NEW r \in Requests, Rerun(r) PROVE QueryPageTypeOK'
  <2>1. crossed' \in BOOLEAN
    BY <1>7, Zenon DEF Rerun
  <2> QED BY <1>7, <2>1 DEF Rerun
<1>8. ASSUME NEW r \in Requests, Ends(r) PROVE crossed' \in BOOLEAN
  BY <1>8, Zenon DEF Ends
<1>9. ASSUME NEW r \in Requests, AskSucceeds(r) PROVE QueryPageTypeOK'
  <2>1. newer' \in BOOLEAN
    BY <1>9, Zenon DEF AskSucceeds
  <2>2. crossed' \in BOOLEAN
    BY <1>8, <1>9 DEF AskSucceeds
  <2> QED BY <1>9, <2>1, <2>2 DEF AskSucceeds, Ends
<1>10. ASSUME NEW r \in Requests, AskFails(r) \/ RerunFails(r) PROVE QueryPageTypeOK'
  <2>1. crossed' \in BOOLEAN
    BY <1>8, <1>10 DEF AskFails, RerunFails
  <2> QED BY <1>10, <2>1 DEF AskFails, RerunFails, Ends
<1>11. CASE Leave
  BY <1>11 DEF Leave, Unmount
<1>12. CASE ReloadDashboard
  BY <1>12 DEF ReloadDashboard, Reload
<1>13. CASE TurnBack
  <2>1. pager' \in 0..MaxPages - 1
    BY <1>13, MaxPagesAssumption DEF TurnBack
  <2> QED BY <1>13, <2>1 DEF TurnBack
<1>14. CASE TurnOn
  <2>1. pager' \in 0..MaxPages - 1
    BY <1>14, MaxPagesAssumption, NoResultAssumption DEF TurnOn, PagerShown
  <2> QED BY <1>14, <2>1 DEF TurnOn
<1>15. CASE UNCHANGED queryPageVars
  BY <1>15 DEF queryPageVars
<1> QED
  BY <1>1, <1>2, <1>3, <1>4, <1>5, <1>6, <1>7, <1>9, <1>10, <1>11, <1>12, <1>13,
     <1>14, <1>15 DEF QueryPageNext

(* OwnOpening is inductive, given the types.                               *)
LEMMA OwnOpeningStep == QueryPageTypeOK /\ OwnOpening /\ [QueryPageNext]_queryPageVars => OwnOpening'
<1> SUFFICES ASSUME QueryPageTypeOK, OwnOpening, [QueryPageNext]_queryPageVars PROVE OwnOpening'
  OBVIOUS
<1> USE DashboardAssumption, NoSessionAssumption, NoOpeningAssumption
<1> USE DEF QueryPageTypeOK, OwnOpening
<1>1. ASSUME NEW c \in Connections, NEW o \in Openings, OpenPage(c, o)
      PROVE  OwnOpening'
  <2>1. ~overlap' => \A p \in Openings : opens[p] = NotOpening
    BY <1>1, Zenon DEF OpenPage
  <2> QED BY <1>1, <2>1 DEF OpenPage, NotOpening
<1>2. ASSUME NEW o \in Openings, Connected(o) PROVE OwnOpening'
  <2>1. opens[o] \in Opening
    BY <1>2 DEF Connected, NotOpening
  <2>2. opens' = [opens EXCEPT ![o] = [at |-> "history", conn |-> opens[o].conn]]
    BY <1>2, <2>1, OnwardOpening DEF Connected
  <2>3. opens[o] # NotOpening /\ opens'[o] # NotOpening
    BY <1>2, <2>2 DEF Connected, NotOpening
  <2>4. opens'[o].at = "history" /\ opens'[o].conn = opens[o].conn
    BY <2>2
  <2>5. \A p \in Openings : p # o => opens'[p] = opens[p]
    BY <2>2
  <2>6. session' = opens[o].conn /\ UNCHANGED <<page, waiting, overlap>>
    BY <1>2 DEF Connected
  <2> QED BY <2>3, <2>4, <2>5, <2>6
<1>3. ASSUME NEW o \in Openings, Loaded(o) PROVE OwnOpening'
  BY <1>3 DEF Loaded, store, NotOpening
<1>4. ASSUME page' = Dashboard, waiting' = NoOpening PROVE OwnOpening'
  BY <1>4
<1>5. ASSUME NEW o \in Openings, OpeningFails(o) PROVE OwnOpening'
  BY <1>4, <1>5 DEF OpeningFails, Unmount
<1>6. CASE Leave
  BY <1>4, <1>6 DEF Leave, Unmount
<1>7. ASSUME NEW o \in Openings, ReloadPage(o) PROVE OwnOpening'
  BY <1>7 DEF ReloadPage, Reload, NotOpening
<1>8. CASE ReloadDashboard
  BY <1>4, <1>8 DEF ReloadDashboard, Reload
<1>9. CASE UNCHANGED <<page, opens, waiting, session, overlap>>
  BY <1>9
<1>10. ASSUME NEW r \in Requests,
              Ask(r) \/ Rerun(r) \/ AskSucceeds(r) \/ AskFails(r) \/ RerunFails(r)
       PROVE  OwnOpening'
  BY <1>9, <1>10 DEF Ask, Rerun, AskSucceeds, AskFails, RerunFails
<1>11. CASE TurnBack \/ TurnOn
  BY <1>9, <1>11 DEF TurnBack, TurnOn, store
<1>12. CASE UNCHANGED queryPageVars
  BY <1>9, <1>12 DEF queryPageVars, store
<1> QED
  BY <1>1, <1>2, <1>3, <1>5, <1>6, <1>7, <1>8, <1>10, <1>11, <1>12 DEF QueryPageNext

(* Init establishes all the invariants.                                    *)
LEMMA QueryPageInvInit == QueryPageInit => QueryPageInv
<1> SUFFICES ASSUME QueryPageInit PROVE QueryPageInv
  OBVIOUS
<1> USE DEF QueryPageInit
<1>1. QueryPageTypeOK
  BY FirstPage DEF QueryPageTypeOK
<1>2. OwnOpening
  BY DEF OwnOpening
<1>3. OneAtATime
  BY DEF OneAtATime, UnderWay
<1>4. TurnedPageHasRows
  BY MaxPagesAssumption, NoResultAssumption DEF TurnedPageHasRows
<1> QED BY <1>1, <1>2, <1>3, <1>4 DEF QueryPageInv

LEMMA AlwaysOpening == QueryPageSpec => [](QueryPageTypeOK /\ OwnOpening)
<1>1. QueryPageInit => QueryPageTypeOK /\ OwnOpening
  BY QueryPageInvInit DEF QueryPageInv
<1> QED BY <1>1, QueryPageTypeStep, OwnOpeningStep, PTL DEF QueryPageSpec

(* The page, the store and the requests keep their types.                  *)
THEOREM QueryPageTypeCorrect == QueryPageSpec => []QueryPageTypeOK
BY AlwaysOpening, PTL

(* A page rendered in full has a session on its own connection, for any    *)
(* number of openings, unless one was left from before.                    *)
THEOREM SessionIsOfPage == QueryPageSpec => []SessionOfPage
<1>1. QueryPageTypeOK /\ OwnOpening => SessionOfPage
  BY DEF OwnOpening, SessionOfPage, Shown
<1> QED BY <1>1, AlwaysOpening, PTL

-----------------------------------------------------------------------------
(* Only Ask and Rerun add a request; Ask finds none, Rerun keeps the record*)
(* of finding some.                                                        *)
LEMMA OneAtATimeStep == QueryPageTypeOK /\ OneAtATime /\ [QueryPageNext]_queryPageVars => OneAtATime'
<1> SUFFICES ASSUME QueryPageTypeOK, OneAtATime, [QueryPageNext]_queryPageVars PROVE OneAtATime'
  OBVIOUS
<1> USE DEF QueryPageTypeOK, OneAtATime, UnderWay
<1>1. ASSUME NEW r \in Requests, Ask(r) PROVE OneAtATime'
  BY <1>1 DEF Ask
<1>2. ASSUME NEW r \in Requests, Rerun(r) PROVE OneAtATime'
  BY <1>2 DEF Rerun
<1>3. ASSUME NEW r \in Requests, Ends(r), requests[r] # "none" PROVE OneAtATime'
  <2>1. UnderWay' = UnderWay \ {r}
    BY <1>3 DEF Ends
  <2>2. ~crossed' => UnderWay' = {}
    BY <1>3, <2>1 DEF Ends
  <2> QED BY <1>3, <2>2 DEF Ends
<1>4. ASSUME NEW r \in Requests, AskSucceeds(r) \/ AskFails(r) \/ RerunFails(r)
      PROVE  OneAtATime'
  BY <1>3, <1>4 DEF AskSucceeds, AskFails, RerunFails
<1>5. CASE ReloadDashboard \/ \E o \in Openings : ReloadPage(o)
  BY <1>5 DEF ReloadDashboard, ReloadPage, Reload
<1>6. CASE UNCHANGED <<isLoading, requests, crossed>>
  BY <1>6
<1>7. CASE \E c \in Connections, o \in Openings : OpenPage(c, o)
  BY <1>6, <1>7 DEF OpenPage, store
<1>8. CASE \E o \in Openings : Connected(o) \/ Loaded(o) \/ OpeningFails(o)
  BY <1>6, <1>8 DEF Connected, Loaded, OpeningFails, store
<1>9. CASE Leave \/ TurnBack \/ TurnOn
  BY <1>6, <1>9 DEF Leave, TurnBack, TurnOn, store
<1>10. CASE UNCHANGED queryPageVars
  BY <1>6, <1>10 DEF queryPageVars, store
<1> QED
  BY <1>1, <1>2, <1>4, <1>5, <1>7, <1>8, <1>9, <1>10 DEF QueryPageNext

(* Questions never race for the result, on whichever pages they were asked;*)
(* a re-run over a request is the only exception.                          *)
THEOREM QuestionsDoNotRace == QueryPageSpec => []OneAtATime
<1>1. QueryPageInit => OneAtATime
  BY QueryPageInvInit DEF QueryPageInv
<1> QED BY <1>1, OneAtATimeStep, AlwaysOpening, PTL DEF QueryPageSpec

-----------------------------------------------------------------------------
(* A result finds the pager at zero or leaves a record; turning on stays   *)
(* on the result, and turning back cannot leave it.                        *)
LEMMA PagerStep == QueryPageTypeOK /\ TurnedPageHasRows /\ [QueryPageNext]_queryPageVars => TurnedPageHasRows'
<1> SUFFICES ASSUME QueryPageTypeOK, TurnedPageHasRows, [QueryPageNext]_queryPageVars PROVE TurnedPageHasRows'
  OBVIOUS
<1> USE MaxPagesAssumption, NoResultAssumption
<1> USE DEF QueryPageTypeOK, TurnedPageHasRows
<1>1. ASSUME NEW r \in Requests, AskSucceeds(r) PROVE TurnedPageHasRows'
  <2>1. ~newer' => pager = 0
    BY <1>1, Zenon DEF AskSucceeds
  <2> QED BY <1>1, <2>1 DEF AskSucceeds
<1>2. CASE TurnBack
  BY <1>2 DEF TurnBack, PagerShown, store
<1>3. CASE TurnOn
  BY <1>3 DEF TurnOn, PagerShown, store
<1>4. CASE pager' = 0
  BY <1>4
<1>5. CASE UNCHANGED <<result, pager, newer>>
  BY <1>5
<1>6. CASE ReloadDashboard \/ Leave \/ \E o \in Openings : ReloadPage(o) \/ OpeningFails(o)
  BY <1>4, <1>6 DEF ReloadDashboard, ReloadPage, Reload, Leave, OpeningFails, Unmount
<1>7. CASE \E c \in Connections, o \in Openings : OpenPage(c, o)
  BY <1>5, <1>7 DEF OpenPage, store, panel
<1>8. CASE \E o \in Openings : Connected(o) \/ Loaded(o)
  BY <1>5, <1>8 DEF Connected, Loaded, store, panel
<1>9. CASE \E r \in Requests : Ask(r) \/ Rerun(r) \/ AskFails(r) \/ RerunFails(r)
  BY <1>5, <1>9 DEF Ask, Rerun, AskFails, RerunFails, panel
<1>10. CASE UNCHANGED queryPageVars
  BY <1>5, <1>10 DEF queryPageVars, store, panel
<1> QED
  BY <1>1, <1>2, <1>3, <1>6, <1>7, <1>8, <1>9, <1>10 DEF QueryPageNext

(* The pager stands at a page that has rows, for results of any length,    *)
(* but for a result that came since it was turned on.                      *)
THEOREM PagerStaysOnResult == QueryPageSpec => []TurnedPageHasRows
<1>1. QueryPageInit => TurnedPageHasRows
  BY QueryPageInvInit DEF QueryPageInv
<1> QED BY <1>1, PagerStep, AlwaysOpening, PTL DEF QueryPageSpec

-----------------------------------------------------------------------------
(* The types of SignIn are inductive: nobody waits for a form once         *)
(* somebody is signed in, because setAuth takes the page away.             *)
LEMMA SignInTypeStep == SignInTypeOK /\ [SignInNext]_signInVars => SignInTypeOK'
<1> SUFFICES ASSUME SignInTypeOK, [SignInNext]_signInVars PROVE SignInTypeOK'
  OBVIOUS
<1> USE DEF SignInTypeOK, MaybeAccount, Page, auth, history
<1>1. ASSUME HandsChange PROVE overtaken' \in BOOLEAN /\ late' = FALSE
  BY <1>1, Zenon DEF HandsChange
<1>2. ASSUME NEW f \in Forms, NEW a \in Accounts, Submit(f, a) PROVE SignInTypeOK'
  <2>1. [page |-> publicPage, account |-> a] \in [page : Page, account : Accounts]
    OBVIOUS
  <2> QED BY <1>2, <2>1 DEF Submit
<1>3. ASSUME NEW f \in Forms, FormSucceeds(f) PROVE SignInTypeOK'
  <2>1. Read(sent[f]) \in MaybeAccount
    BY <1>3 DEF FormSucceeds, Read
  <2> QED BY <1>1, <1>3, <2>1 DEF FormSucceeds, SetAuth
<1>4. ASSUME NEW f \in Forms, FormFails(f) PROVE SignInTypeOK'
  BY <1>4 DEF FormFails
<1>5. CASE SwitchPage
  BY <1>5 DEF SwitchPage
<1>6. CASE SignOut
  BY <1>1, <1>6 DEF SignOut, Logout
<1>7. CASE Load
  BY <1>7 DEF Load
<1>8. CASE RefreshSucceeds
  BY <1>8 DEF RefreshSucceeds, UpdateTokens
<1>9. CASE RefreshFails
  BY <1>9 DEF RefreshFails, Logout
<1>10. CASE UNCHANGED signInVars
  BY <1>10 DEF signInVars
<1> QED
  BY <1>2, <1>3, <1>4, <1>5, <1>6, <1>7, <1>8, <1>9, <1>10 DEF SignInNext

(* The refresh in flight is for the tokens that are stored, unless somebody*)
(* has signed in or out since it was sent, or they were late already.      *)
OwnRefresh ==
    ~overtaken /\ ~late /\ refreshing # NoAccount => refreshing = stored

(* OwnTokens is inductive together with OwnRefresh.                        *)
LEMMA OwnTokensStep ==
    OwnTokens /\ OwnRefresh /\ [SignInNext]_signInVars => OwnTokens' /\ OwnRefresh'
<1> SUFFICES ASSUME OwnTokens, OwnRefresh, [SignInNext]_signInVars
             PROVE  OwnTokens' /\ OwnRefresh'
  OBVIOUS
<1> USE DEF OwnTokens, OwnRefresh, auth, history
<1>1. ASSUME HandsChange PROVE late' = FALSE /\ (~overtaken' => refreshing = NoAccount)
  BY <1>1, Zenon DEF HandsChange
<1>2. ASSUME NEW f \in Forms, FormSucceeds(f) PROVE OwnTokens' /\ OwnRefresh'
  BY <1>1, <1>2 DEF FormSucceeds, SetAuth
<1>3. CASE SignOut
  BY <1>1, <1>3 DEF SignOut, Logout
<1>4. CASE Load
  BY <1>4 DEF Load
<1>5. CASE RefreshSucceeds
  <2>1. ~late' => ~late /\ ~overtaken
    BY <1>5, Zenon DEF RefreshSucceeds
  <2> QED BY <1>5, <2>1 DEF RefreshSucceeds, UpdateTokens
<1>6. CASE RefreshFails
  BY <1>6 DEF RefreshFails, Logout
<1>7. CASE UNCHANGED <<stored, auth, refreshing, history>>
  BY <1>7
<1>8. ASSUME NEW f \in Forms, FormFails(f) \/ \E a \in Accounts : Submit(f, a)
      PROVE  OwnTokens' /\ OwnRefresh'
  BY <1>7, <1>8 DEF FormFails, Submit
<1>9. CASE SwitchPage \/ UNCHANGED signInVars
  BY <1>7, <1>9 DEF SwitchPage, signInVars
<1> QED BY <1>2, <1>3, <1>4, <1>5, <1>6, <1>8, <1>9 DEF SignInNext

(* The store, the forms and the refresh keep their types.                  *)
THEOREM SignInTypeCorrect == SignInSpec => []SignInTypeOK
<1>1. SignInInit => SignInTypeOK
  BY DEF SignInInit, SignInTypeOK, MaybeAccount, Page
<1> QED BY <1>1, SignInTypeStep, PTL DEF SignInSpec

(* Store and token storage hold the same tokens, those of the account that *)
(* is shown, however many forms are answered and in whatever order; only a *)
(* refresh overtaken by a sign-in or sign-out breaks it.                   *)
THEOREM TokensAreOwn == SignInSpec => []OwnTokens
<1>1. SignInInit => OwnTokens /\ OwnRefresh
  BY DEF SignInInit, OwnTokens, OwnRefresh
<1> QED BY <1>1, OwnTokensStep, PTL DEF SignInSpec

-----------------------------------------------------------------------------
(* What Edit, Test and the answers to a test do to the modal's fields.     *)
LEMMA EditFields ==
    ASSUME modal \in Modal, NEW u \in Urls \cup {NoUrl},
           modal' = [modal EXCEPT !.url = u, !.tested = FALSE]
    PROVE  /\ modal' \in Modal /\ modal'.open = modal.open
           /\ modal'.url = u /\ modal'.testing = modal.testing /\ ~modal'.tested
<1>1. modal' \in Modal
  BY DEF Modal
<1>2. modal'.open = modal.open
  BY DEF Modal
<1>3. modal'.url = u /\ modal'.testing = modal.testing
  BY DEF Modal
<1>4. ~modal'.tested
  BY DEF Modal
<1> QED BY <1>1, <1>2, <1>3, <1>4

LEMMA TestFields ==
    ASSUME modal \in Modal,
           modal' = [modal EXCEPT !.testing = modal.url, !.tested = FALSE]
    PROVE  /\ modal' \in Modal /\ modal'.open = modal.open
           /\ modal'.url = modal.url /\ modal'.testing = modal.url /\ ~modal'.tested
BY DEF Modal

LEMMA TestSucceedsFields ==
    ASSUME modal \in Modal,
           modal' = [modal EXCEPT !.testing = NoUrl, !.tested = TRUE]
    PROVE  /\ modal' \in Modal /\ modal'.open = modal.open
           /\ modal'.url = modal.url /\ modal'.testing = NoUrl
BY DEF Modal

LEMMA TestFailsFields ==
    ASSUME modal \in Modal, modal' = [modal EXCEPT !.testing = NoUrl]
    PROVE  /\ modal' \in Modal /\ modal'.open = modal.open
           /\ modal'.url = modal.url /\ modal'.testing = NoUrl
           /\ modal'.tested = modal.tested
BY DEF Modal

LEMMA ClosedFields ==
    /\ Closed \in Modal /\ [Closed EXCEPT !.open = TRUE] \in Modal
    /\ Closed.testing = NoUrl /\ [Closed EXCEPT !.open = TRUE].testing = NoUrl
    /\ ~Closed.tested /\ ~[Closed EXCEPT !.open = TRUE].tested
BY DEF Closed, Modal

(* A save that takes effect stays its modal's; disowning and ending saves  *)
(* gives none to a modal.                                                  *)
SaveState == [at : {"none", "sent", "done"}, own : BOOLEAN]

LEMMA SaveFields ==
    /\ \A i \in SaveState : [i EXCEPT !.at = "done"] = [at |-> "done", own |-> i.own]
    /\ \A i \in SaveState : [i EXCEPT !.own = FALSE] \in SaveState
    /\ \A i \in SaveState : [i EXCEPT !.own = FALSE].at = i.at
    /\ \A i \in SaveState : ~[i EXCEPT !.own = FALSE].own
    /\ NoSave \in SaveState /\ ~NoSave.own /\ NoSave.at = "none"
<1>1. \A i \in SaveState : [i EXCEPT !.at = "done"] = [at |-> "done", own |-> i.own]
  BY DEF SaveState
<1>2. \A i \in SaveState : [i EXCEPT !.own = FALSE] \in SaveState
  BY DEF SaveState
<1>3. \A i \in SaveState : [i EXCEPT !.own = FALSE].at = i.at
  BY DEF SaveState
<1>4. \A i \in SaveState : ~[i EXCEPT !.own = FALSE].own
  BY DEF SaveState
<1>5. NoSave \in SaveState
  BY DEF SaveState, NoSave
<1>6. ~NoSave.own /\ NoSave.at = "none"
  BY DEF NoSave
<1> QED BY <1>1, <1>2, <1>3, <1>4, <1>5, <1>6

LEMMA DisownedSaves ==
    ASSUME DashboardTypeOK
    PROVE  /\ Disowned \in [Saves -> SaveState]
           /\ \A s \in Saves : ~Disowned[s].own /\ Disowned[s].at = saves[s].at
<1>1. saves \in [Saves -> SaveState]
  BY DEF DashboardTypeOK, SaveState
<1> QED BY <1>1, SaveFields DEF Disowned

(* The types of the dashboard are inductive: the button keeps a modal to   *)
(* one save, and closing it disowns that one.                              *)
LEMMA DashboardTypeStep ==
    DashboardTypeOK /\ [DashboardNext]_dashboardVars => DashboardTypeOK'
<1> SUFFICES ASSUME DashboardTypeOK, [DashboardNext]_dashboardVars PROVE DashboardTypeOK'
  OBVIOUS
<1>0. saves \in [Saves -> SaveState] /\ modal \in Modal /\ modal.url \in Urls \cup {NoUrl}
      /\ modal.testing \in Urls \cup {NoUrl}
  BY DEF DashboardTypeOK, SaveState, Modal
<1> USE DEF DashboardTypeOK, modalVars
<1>1. CASE Mount
  BY <1>1, SaveFields, ClosedFields DEF Mount, Fetch, SaveState
<1>2. CASE ChangedElsewhere
  <2>1. live' \subseteq UserConnections
    BY <1>2 DEF ChangedElsewhere
  <2>2. astray' \in BOOLEAN
    BY <1>2, Zenon DEF ChangedElsewhere
  <2> QED BY <1>2, <2>1, <2>2 DEF ChangedElsewhere
<1>3. CASE ListTaken
  <2>1. PICK l \in {live} \cup (SUBSET UserConnections \ {{}}) :
              list' = [at |-> "taken", got |-> l] /\ gap' = Difference(l, live)
    BY <1>3 DEF ListTaken
  <2>2. l \subseteq UserConnections
    BY <2>1
  <2> QED BY <1>3, <2>1, <2>2 DEF ListTaken, Difference
<1>4. CASE ListArrives
  <2>1. astray' \in BOOLEAN
    BY <1>4, Zenon DEF ListArrives
  <2> QED BY <1>4, <2>1 DEF ListArrives, Fetched
<1>5. CASE ListFails
  <2>1. blank' \in BOOLEAN
    BY <1>5 DEF ListFails
  <2> QED BY <1>5, <2>1 DEF ListFails, Fetched
<1>6. ASSUME NEW c \in UserConnections, Delete(c) \/ DeleteTakesEffect(c) \/ DeleteSucceeds(c)
      PROVE  DashboardTypeOK'
  BY <1>6 DEF Delete, DeleteTakesEffect, DeleteSucceeds
<1>7. ASSUME NEW c \in UserConnections, DeleteFails(c) PROVE DashboardTypeOK'
  <2>1. astray' \in BOOLEAN
    BY <1>7, Zenon DEF DeleteFails
  <2> QED BY <1>7, <2>1 DEF DeleteFails
<1>8. CASE OpenModal
  <2>1. \A s \in Saves : ~saves[s].own
    BY <1>8 DEF OpenModal
  <2> QED BY <1>8, <2>1, ClosedFields DEF OpenModal
<1>9. CASE CloseModal
  BY <1>9, ClosedFields, DisownedSaves DEF CloseModal, SaveState
<1>10. ASSUME NEW u \in Urls \cup {NoUrl}, Edit(u) PROVE DashboardTypeOK'
  <2>1. edited' \in BOOLEAN
    BY <1>10, Zenon DEF Edit
  <2>2. modal' \in Modal /\ modal'.open = modal.open
    BY <1>0, <1>10, EditFields DEF Edit
  <2> QED BY <1>10, <2>1, <2>2 DEF Edit
<1>11. CASE Test
  <2>1. modal' \in Modal /\ modal'.open = modal.open
    BY <1>0, <1>11, TestFields DEF Test
  <2> QED BY <1>11, <2>1 DEF Test
<1>12. CASE TestSucceeds
  <2>1. modal' \in Modal /\ modal'.open = modal.open
    BY <1>0, <1>12, TestSucceedsFields DEF TestSucceeds
  <2> QED BY <1>0, <1>12, <2>1 DEF TestSucceeds
<1>13. CASE TestFails
  <2>1. modal' \in Modal /\ modal'.open = modal.open
    BY <1>0, <1>13, TestFailsFields DEF TestFails
  <2> QED BY <1>13, <2>1 DEF TestFails
<1>14. ASSUME NEW s \in Saves, Save(s) PROVE DashboardTypeOK'
  BY <1>14 DEF Save
<1>15. ASSUME NEW s \in Saves, SaveTakesEffect(s) PROVE DashboardTypeOK'
  <2>1. live' \subseteq UserConnections
    BY <1>15 DEF SaveTakesEffect
  <2>2. saves' = [saves EXCEPT ![s] = [at |-> "done", own |-> saves[s].own]]
    BY <1>0, <1>15, SaveFields DEF SaveTakesEffect
  <2>3. saves' \in [Saves -> SaveState] /\ \A t \in Saves : saves'[t].own = saves[t].own
    BY <1>0, <2>2 DEF SaveState
  <2> QED BY <1>15, <2>1, <2>3 DEF SaveTakesEffect, SaveState
<1>16. ASSUME NEW s \in Saves, SaveSucceeds(s) PROVE DashboardTypeOK'
  <2>1. blank' \in BOOLEAN
    BY <1>16, Zenon DEF SaveSucceeds
  <2>2. saves' \in [Saves -> SaveState] /\ \A t \in Saves : ~saves'[t].own
    BY <1>16, DisownedSaves, SaveFields DEF SaveSucceeds
  <2> QED BY <1>16, <2>1, <2>2, ClosedFields DEF SaveSucceeds, SaveState
<1>17. ASSUME NEW s \in Saves, SaveFails(s) PROVE DashboardTypeOK'
  <2>1. astray' \in BOOLEAN
    BY <1>17, Zenon DEF SaveFails
  <2> QED BY <1>17, <2>1, SaveFields DEF SaveFails, SaveState
<1>18. CASE UNCHANGED dashboardVars
  BY <1>18 DEF dashboardVars
<1> QED
  BY <1>1, <1>2, <1>3, <1>4, <1>5, <1>6, <1>7, <1>8, <1>9, <1>10, <1>11, <1>12,
     <1>13, <1>14, <1>15, <1>16, <1>17, <1>18 DEF DashboardNext

(* The page, the modal and the saves keep their types, for any number of   *)
(* saves under way.                                                        *)
THEOREM DashboardTypeCorrect == DashboardSpec => []DashboardTypeOK
<1>1. DashboardInit => DashboardTypeOK
  <2> SUFFICES ASSUME DashboardInit PROVE DashboardTypeOK
    OBVIOUS
  <2>1. saves \in [Saves -> SaveState] /\ \A s \in Saves : ~saves[s].own
    BY SaveFields DEF DashboardInit
  <2> QED BY <2>1, ClosedFields DEF DashboardInit, DashboardTypeOK, Fetch, SaveState
<1> QED BY <1>1, DashboardTypeStep, PTL DEF DashboardSpec

-----------------------------------------------------------------------------
(* A test is for the url the modal shows, unless that was edited since.    *)
UnderTest == modal.testing # NoUrl /\ ~edited => modal.url = modal.testing

(* SavesTestedUrl is inductive together with UnderTest.                    *)
LEMMA TestedStep ==
    DashboardTypeOK /\ SavesTestedUrl /\ UnderTest /\ [DashboardNext]_dashboardVars
        => SavesTestedUrl' /\ UnderTest'
<1> SUFFICES ASSUME DashboardTypeOK, SavesTestedUrl, UnderTest,
                    [DashboardNext]_dashboardVars
             PROVE  SavesTestedUrl' /\ UnderTest'
  OBVIOUS
<1>0. modal \in Modal
  BY DEF DashboardTypeOK
<1> USE DEF SavesTestedUrl, UnderTest
<1>1. ASSUME ~modal'.tested, modal'.testing = NoUrl PROVE SavesTestedUrl' /\ UnderTest'
  BY <1>1
<1>2. CASE Mount \/ OpenModal \/ CloseModal \/ \E s \in Saves : SaveSucceeds(s)
  BY <1>1, <1>2, ClosedFields DEF Mount, OpenModal, CloseModal, SaveSucceeds
<1>3. ASSUME NEW u \in Urls \cup {NoUrl}, Edit(u) PROVE SavesTestedUrl' /\ UnderTest'
  <2>1. ~modal'.tested /\ modal'.testing = modal.testing
    BY <1>0, <1>3, EditFields DEF Edit
  <2>2. ~edited' => modal.testing = NoUrl
    BY <1>3, Zenon DEF Edit
  <2> QED BY <2>1, <2>2
<1>4. CASE Test
  BY <1>0, <1>4, TestFields DEF Test
<1>5. CASE TestSucceeds
  BY <1>0, <1>5, TestSucceedsFields DEF TestSucceeds
<1>6. CASE TestFails
  BY <1>0, <1>6, TestFailsFields DEF TestFails
<1>7. CASE UNCHANGED modalVars
  BY <1>7 DEF modalVars
<1>8. CASE ChangedElsewhere \/ ListTaken \/ ListArrives \/ ListFails
  BY <1>7, <1>8 DEF ChangedElsewhere, ListTaken, ListArrives, ListFails
<1>9. ASSUME NEW c \in UserConnections,
             Delete(c) \/ DeleteTakesEffect(c) \/ DeleteSucceeds(c) \/ DeleteFails(c)
      PROVE  SavesTestedUrl' /\ UnderTest'
  BY <1>7, <1>9 DEF Delete, DeleteTakesEffect, DeleteSucceeds, DeleteFails
<1>10. ASSUME NEW s \in Saves, Save(s) \/ SaveTakesEffect(s) \/ SaveFails(s)
       PROVE  SavesTestedUrl' /\ UnderTest'
  BY <1>7, <1>10 DEF Save, SaveTakesEffect, SaveFails
<1>11. CASE UNCHANGED dashboardVars
  BY <1>7, <1>11 DEF dashboardVars, modalVars
<1> QED
  BY <1>2, <1>3, <1>4, <1>5, <1>6, <1>8, <1>9, <1>10, <1>11 DEF DashboardNext

(* A url that is saved was tested, however often the user edits, tests,    *)
(* closes and reopens the modal, unless it was edited during its test.     *)
THEOREM SavedUrlsAreTested == DashboardSpec => []SavesTestedUrl
<1>1. DashboardInit => SavesTestedUrl /\ UnderTest
  BY ClosedFields DEF DashboardInit, SavesTestedUrl, UnderTest
<1> QED BY <1>1, TestedStep, DashboardTypeCorrect, PTL DEF DashboardSpec

-----------------------------------------------------------------------------
Saved == \E s \in Saves : saves[s].at = "done"

(* While the list is loading there is no card to delete.  Unless the page  *)
(* is blank or astray, and but for what the list had wrong:                *)
(*   - a list on its way misses at most what is being saved or has been;   *)
(*   - a card the service does not have is of a deletion to be answered,   *)
(*     and a connection without a card of a save to be answered;           *)
(*   - what has been deleted is gone.                                      *)
NothingDeleted == Loading => \A c \in UserConnections : deletes[c] = "none"

ListHolds ==
    list.at = "taken" =>
        /\ list.got \ live \subseteq gap
        /\ live \ list.got \subseteq gap \/ Saved \/ Unreadable \in cards

CardsHold ==
    ~Loading =>
        /\ \A c \in cards \ live :
              c \in UserConnections /\ (deletes[c] = "done" \/ c \in gap)
        /\ live \ cards \subseteq gap \/ Saved

DeletedIsGone == \A c \in UserConnections : deletes[c] = "done" => c \notin live

InStep ==
    NothingDeleted /\ (~blank /\ ~astray => ListHolds /\ CardsHold /\ DeletedIsGone)

(* What the dashboard promises when nothing is under way.                  *)
LEMMA InStepAgrees == DashboardTypeOK /\ InStep => CardsAgree
BY SaveFields
   DEF InStep, CardsHold, CardsAgree, Unanswered, DashboardTypeOK, Saved, Difference

(* NothingDeleted is inductive: a card is clicked only when the list has   *)
(* come, and only a new page loads it again.                               *)
LEMMA NothingDeletedStep ==
    DashboardTypeOK /\ NothingDeleted /\ [DashboardNext]_dashboardVars => NothingDeleted'
<1> SUFFICES ASSUME DashboardTypeOK, NothingDeleted, [DashboardNext]_dashboardVars
             PROVE  NothingDeleted'
  OBVIOUS
<1> USE DEF NothingDeleted, Loading
<1>1. CASE Mount
  BY <1>1 DEF Mount
<1>2. CASE ListTaken
  BY <1>2 DEF ListTaken
<1>3. CASE ListArrives \/ ListFails
  BY <1>3 DEF ListArrives, ListFails, Fetched
<1>4. ASSUME NEW c \in UserConnections,
             Delete(c) \/ DeleteTakesEffect(c) \/ DeleteSucceeds(c) \/ DeleteFails(c)
      PROVE  NothingDeleted'
  BY <1>4 DEF Delete, DeleteTakesEffect, DeleteSucceeds, DeleteFails, Loading,
              DashboardTypeOK
<1>5. CASE UNCHANGED <<list, deletes>>
  BY <1>5
<1>6. CASE ChangedElsewhere \/ OpenModal \/ CloseModal
  BY <1>5, <1>6 DEF ChangedElsewhere, OpenModal, CloseModal
<1>7. CASE Test \/ TestSucceeds \/ TestFails \/ \E u \in Urls \cup {NoUrl} : Edit(u)
  BY <1>5, <1>7 DEF Test, TestSucceeds, TestFails, Edit
<1>8. ASSUME NEW s \in Saves,
             Save(s) \/ SaveTakesEffect(s) \/ SaveSucceeds(s) \/ SaveFails(s)
      PROVE  NothingDeleted'
  BY <1>5, <1>8 DEF Save, SaveTakesEffect, SaveSucceeds, SaveFails
<1>9. CASE UNCHANGED dashboardVars
  BY <1>5, <1>9 DEF dashboardVars
<1> QED
  BY <1>1, <1>2, <1>3, <1>4, <1>6, <1>7, <1>8, <1>9 DEF DashboardNext

(* The rest is inductive with it.  Each change of the service's            *)
(* connections is of a deletion or a save whose answer is still to come;   *)
(* answers that bring the page out of step make it astray or blank.        *)
LEMMA InStepStep ==
    DashboardTypeOK /\ InStep /\ [DashboardNext]_dashboardVars
        => (~blank' /\ ~astray' => ListHolds' /\ CardsHold' /\ DeletedIsGone')
<1> SUFFICES ASSUME DashboardTypeOK, InStep, [DashboardNext]_dashboardVars,
                    ~blank', ~astray'
             PROVE  ListHolds' /\ CardsHold' /\ DeletedIsGone'
  OBVIOUS
<1> USE UnreadableAssumption
<1> DEFINE Good == ListHolds /\ CardsHold /\ DeletedIsGone
<1> USE DEF InStep, Loading
<1>0. saves \in [Saves -> SaveState] /\ deletes \in [UserConnections -> {"none", "sent", "done"}]
      /\ list \in [at : {"none", "sent", "taken"}, got : SUBSET UserConnections]
      /\ live \subseteq UserConnections
  BY DEF DashboardTypeOK, SaveState
<1>1. CASE Mount
  BY <1>1 DEF Mount, Fetch, ListHolds, CardsHold, DeletedIsGone
<1>2. CASE ChangedElsewhere
  <2>1. list.at = "sent"
    BY <1>2, Zenon DEF ChangedElsewhere
  <2>2. \A c \in UserConnections : deletes[c] = "none"
    BY <2>1 DEF NothingDeleted
  <2> QED BY <1>2, <2>1, <2>2 DEF ChangedElsewhere, ListHolds, CardsHold, DeletedIsGone
<1>3. ASSUME UNCHANGED <<live, list, cards, deletes, blank, astray, gap>>, Saved => Saved'
      PROVE  Good'
  BY <1>3 DEF ListHolds, CardsHold, DeletedIsGone
<1>4. CASE ListTaken
  <2>1. \A c \in UserConnections : deletes[c] = "none"
    BY <1>4 DEF ListTaken, NothingDeleted
  <2>2. PICK l \in {live} \cup (SUBSET UserConnections \ {{}}) :
              list' = [at |-> "taken", got |-> l] /\ gap' = Difference(l, live)
    BY <1>4 DEF ListTaken
  <2> QED BY <1>4, <2>1, <2>2 DEF ListTaken, ListHolds, CardsHold, DeletedIsGone, Difference
<1>5. CASE ListArrives
  <2>1. ~astray /\ Unreadable \notin cards
    BY <1>5, Zenon DEF ListArrives
  <2>2. ListHolds /\ DeletedIsGone /\ list.at = "taken"
    BY <1>5, <2>1 DEF ListArrives
  <2>3. list' = Fetched /\ cards' = list.got
        /\ UNCHANGED <<live, deletes, saves, gap>>
    BY <1>5 DEF ListArrives
  <2>4. ListHolds' /\ DeletedIsGone'
    BY <2>2, <2>3 DEF Fetched, ListHolds, DeletedIsGone
  <2>5. list.got \ live \subseteq gap /\ (live \ list.got \subseteq gap \/ Saved)
    BY <2>1, <2>2 DEF ListHolds
  <2>6. list.got \subseteq UserConnections
    BY <1>0
  <2>7. CardsHold'
    BY <2>3, <2>5, <2>6 DEF CardsHold, Saved
  <2> QED BY <2>4, <2>7
<1>6. CASE ListFails
  BY <1>6 DEF ListFails
<1>7. ASSUME NEW c \in UserConnections, Delete(c) PROVE Good'
  <2>1. Good
    BY <1>7 DEF Delete
  <2> QED BY <1>0, <1>7, <2>1 DEF Delete, ListHolds, CardsHold, DeletedIsGone, Saved
<1>8. ASSUME NEW c \in UserConnections, DeleteTakesEffect(c) PROVE Good'
  <2>1. Good /\ ~Loading
    BY <1>8 DEF DeleteTakesEffect, NothingDeleted
  <2> QED BY <1>0, <1>8, <2>1
          DEF DeleteTakesEffect, ListHolds, CardsHold, DeletedIsGone, Saved
<1>9. ASSUME NEW c \in UserConnections, DeleteSucceeds(c) PROVE Good'
  <2>1. Good /\ ~Loading /\ c \notin live
    BY <1>9 DEF DeleteSucceeds, NothingDeleted, DeletedIsGone
  <2> QED BY <1>0, <1>9, <2>1
          DEF DeleteSucceeds, ListHolds, CardsHold, DeletedIsGone, Saved
<1>10. ASSUME NEW c \in UserConnections, DeleteFails(c) PROVE Good'
  <2>1. ~astray /\ deletes[c] # "done"
    BY <1>10, Zenon DEF DeleteFails
  <2>2. Good /\ ~Loading
    BY <1>10, <2>1 DEF DeleteFails, NothingDeleted
  <2> QED BY <1>0, <1>10, <2>1, <2>2
          DEF DeleteFails, ListHolds, CardsHold, DeletedIsGone, Saved
<1>11. CASE OpenModal \/ Test \/ TestSucceeds \/ TestFails
            \/ \E u \in Urls \cup {NoUrl} : Edit(u)
  BY <1>3, <1>11 DEF OpenModal, Test, TestSucceeds, TestFails, Edit, Saved
<1>12. CASE CloseModal
  BY <1>3, <1>12, DisownedSaves DEF CloseModal, Saved
<1>13. ASSUME NEW s \in Saves, Save(s) PROVE Good'
  <2>1. saves[s].at = "none"
    BY <1>13, SaveFields DEF Save
  <2>2. Saved => Saved'
    BY <1>0, <1>13, <2>1 DEF Save, Saved
  <2> QED BY <1>3, <1>13, <2>2 DEF Save
<1>14. ASSUME NEW s \in Saves, SaveTakesEffect(s) PROVE Good'
  <2>1. PICK c \in UserConnections \ (live \cup cards \cup list.got) :
              deletes[c] = "none" /\ live' = live \cup {c}
    BY <1>14 DEF SaveTakesEffect
  <2>2. Saved'
    BY <1>0, <1>14, SaveFields DEF SaveTakesEffect, Saved
  <2>3. Good
    BY <1>14 DEF SaveTakesEffect
  <2> QED BY <1>14, <2>1, <2>2, <2>3 DEF SaveTakesEffect, ListHolds, CardsHold, DeletedIsGone
<1>15. ASSUME NEW s \in Saves, SaveSucceeds(s) PROVE Good'
  <2>1. Loading
    BY <1>15, Zenon DEF SaveSucceeds
  <2>2. Good /\ \A c \in UserConnections : deletes[c] = "none"
    BY <1>15, <2>1 DEF SaveSucceeds, NothingDeleted
  <2> QED BY <1>15, <2>1, <2>2
          DEF SaveSucceeds, ListHolds, CardsHold, DeletedIsGone
<1>16. ASSUME NEW s \in Saves, SaveFails(s) PROVE Good'
  <2>1. ~astray /\ saves[s].at # "done"
    BY <1>16, Zenon DEF SaveFails
  <2>2. Saved => Saved'
    BY <1>0, <1>16, <2>1 DEF SaveFails, Saved
  <2> QED BY <1>16, <2>1, <2>2 DEF SaveFails, ListHolds, CardsHold, DeletedIsGone
<1>17. CASE UNCHANGED dashboardVars
  BY <1>3, <1>17 DEF dashboardVars, Saved
<1> QED
  BY <1>1, <1>2, <1>4, <1>5, <1>6, <1>7, <1>8, <1>9, <1>10, <1>11, <1>12, <1>13,
     <1>14, <1>15, <1>16, <1>17 DEF DashboardNext

(* When nothing is under way the cards are the service's connections but   *)
(* for what the list had wrong when it was taken, for any number of        *)
(* deletions and saves answered in any order, unless an answer was lost or *)
(* the connections were changed elsewhere.                                 *)
THEOREM CardsAreConnections == DashboardSpec => []CardsAgree
<1>1. DashboardInit => InStep
  BY DEF DashboardInit, InStep, NothingDeleted, ListHolds, CardsHold, DeletedIsGone,
         Fetch, Loading
<1>2. DashboardTypeOK /\ InStep /\ [DashboardNext]_dashboardVars => InStep'
  BY NothingDeletedStep, InStepStep DEF InStep
<1> QED BY <1>1, <1>2, DashboardTypeCorrect, InStepAgrees, PTL DEF DashboardSpec
=============================================================================
