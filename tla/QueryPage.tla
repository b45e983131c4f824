-------------------------------- MODULE QueryPage --------------------------------
(***************************************************************************)
(* The query page of one tab: QueryPage, QueryInput, ResultsPanel, the     *)
(* buttons of HistoryPanel, and queryStore.                                *)
(*                                                                         *)
(* The store is one for all pages and outlives them: an opening of a       *)
(* session, or a question, is answered into the store whichever page is    *)
(* shown by then.  What belongs to a page (sessionLoading, the pager) goes *)
(* when the user leaves it.  A callback runs to its next await without     *)
(* interruption; a request is answered or fails at any time.               *)
(*                                                                         *)
(* A session is represented by its connection, a result by the number of   *)
(* its pages of PAGE_SIZE rows.  The entries of the history panel are left *)
(* out: no handler decides anything by them.                               *)
(***************************************************************************)
EXTENDS Integers

CONSTANTS
    Connections,  \* connections with a card on the dashboard
    Openings,     \* slots for calls of initSession under way
    Requests,     \* slots for questions and re-runs under way
    MaxPages,     \* bound: pages of a result
    Dashboard,    \* the page that is no query page
    NoSession, NoOpening, NoResult

ASSUME MaxPagesAssumption == MaxPages \in Nat \ {0}
ASSUME DashboardAssumption == Dashboard \notin Connections
ASSUME NoSessionAssumption == NoSession \notin Connections
ASSUME NoOpeningAssumption == NoOpening \notin Openings
ASSUME NoResultAssumption == NoResult \notin Nat

VARIABLES
    page,       \* connection whose page is shown, or Dashboard
    opens,      \* the calls of initSession: their await and connection
    waiting,    \* the call the shown page waits for (sessionLoading)
    session, result, isLoading,   \* the fields of queryStore
    requests,   \* kind of each question or re-run under way
    pager,      \* page of ResultsPanel
    overlap,    \* history: the page was opened while another opening ran
    crossed,    \* history: a re-run was started over another request
    newer       \* history: a result came since the pager was turned on

store == <<session, result, isLoading>>
panel == <<pager, newer>>
queryPageVars == <<page, opens, waiting, store, requests, panel, overlap, crossed>>

Opening == [at : {"connect", "history"}, conn : Connections]
NotOpening == [at |-> "none", conn |-> NoSession]

(* Types: only a query page waits, and the pager does not go below zero.   *)
QueryPageTypeOK ==
    /\ page \in Connections \cup {Dashboard}
    /\ opens \in [Openings -> Opening \cup {NotOpening}]
    /\ waiting \in Openings \cup {NoOpening}
    /\ session \in Connections \cup {NoSession}
    /\ result \in 0..MaxPages \cup {NoResult}
    /\ isLoading \in BOOLEAN
    /\ requests \in [Requests -> {"none", "ask", "rerun"}]
    /\ pager \in 0..MaxPages - 1
    /\ overlap \in BOOLEAN
    /\ crossed \in BOOLEAN
    /\ newer \in BOOLEAN
    /\ waiting # NoOpening => page # Dashboard

UnderWay == {r \in Requests : requests[r] # "none"}

(* The page is rendered in full. *)
Shown == page # Dashboard /\ waiting = NoOpening

-----------------------------------------------------------------------------
QueryPageInit ==
    /\ page = Dashboard
    /\ opens = [o \in Openings |-> NotOpening]
    /\ waiting = NoOpening
    /\ session = NoSession
    /\ result = NoResult
    /\ isLoading = FALSE
    /\ requests = [r \in Requests |-> "none"]
    /\ pager = 0
    /\ overlap = FALSE
    /\ crossed = FALSE
    /\ newer = FALSE

(* The shown page goes, and with it what it kept itself. *)
Unmount == waiting' = NoOpening /\ pager' = 0 /\ newer' = FALSE

(* A card of the dashboard is clicked; initSession starts. *)
OpenPage(c, o) ==
    /\ page = Dashboard
    /\ opens[o] = NotOpening
    /\ page' = c
    /\ opens' = [opens EXCEPT ![o] = [at |-> "connect", conn |-> c]]
    /\ waiting' = o
    /\ overlap' = (\E p \in Openings : opens[p] # NotOpening)
    /\ UNCHANGED <<store, requests, panel, crossed>>

(* The session is there; getHistory follows. *)
Connected(o) ==
    /\ opens[o].at = "connect"
    /\ session' = opens[o].conn
    /\ opens' = [opens EXCEPT ![o].at = "history"]
    /\ UNCHANGED <<page, waiting, result, isLoading, requests, panel, overlap, crossed>>

(* Mutant: the finally branch is missing. *)
LoadedStillWaiting(o) ==
    /\ opens[o].at = "history"
    /\ opens' = [opens EXCEPT ![o] = NotOpening]
    /\ UNCHANGED <<page, waiting, store, requests, panel, overlap, crossed>>

(* The history is there; the page that waits for this call is shown. *)
Loaded(o) ==
    /\ opens[o].at = "history"
    /\ opens' = [opens EXCEPT ![o] = NotOpening]
    /\ waiting' = IF waiting = o THEN NoOpening ELSE waiting
    /\ UNCHANGED <<page, store, requests, panel, overlap, crossed>>

(* Mutant: the failure is reported, and the user stays on the page. *)
OpeningFailsInPlace(o) ==
    /\ opens[o] # NotOpening
    /\ opens' = [opens EXCEPT ![o] = NotOpening]
    /\ waiting' = IF waiting = o THEN NoOpening ELSE waiting
    /\ UNCHANGED <<page, store, requests, panel, overlap, crossed>>

(* Either await fails: to the dashboard, from whichever page is shown. *)
OpeningFails(o) ==
    /\ opens[o] # NotOpening
    /\ opens' = [opens EXCEPT ![o] = NotOpening]
    /\ page' = Dashboard
    /\ Unmount
    /\ UNCHANGED <<store, requests, overlap, crossed>>

(* Mutant: what the page kept itself outlives it. *)
LeaveKeepsState ==
    /\ page # Dashboard
    /\ page' = Dashboard
    /\ UNCHANGED <<opens, waiting, store, requests, panel, overlap, crossed>>

(* The link to the dashboard, or the back button of the browser. *)
Leave ==
    /\ page # Dashboard
    /\ page' = Dashboard
    /\ Unmount
    /\ UNCHANGED <<opens, store, requests, overlap, crossed>>

(* The tab is reloaded: of the store only the history is persisted, and a  *)
(* query page opens its session anew.                                      *)
Reload ==
    /\ session' = NoSession
    /\ result' = NoResult
    /\ isLoading' = FALSE
    /\ requests' = [r \in Requests |-> "none"]
    /\ pager' = 0
    /\ overlap' = FALSE
    /\ crossed' = FALSE
    /\ newer' = FALSE
    /\ UNCHANGED page

ReloadDashboard ==
    /\ page = Dashboard
    /\ Reload
    /\ opens' = [o \in Openings |-> NotOpening]
    /\ UNCHANGED waiting

ReloadPage(o) ==
    /\ page # Dashboard
    /\ opens[o] = NotOpening
    /\ Reload
    /\ opens' = [p \in Openings |->
                    IF p = o THEN [at |-> "connect", conn |-> page] ELSE NotOpening]
    /\ waiting' = o

-----------------------------------------------------------------------------
(* Mutant: the input stays enabled while a question is under way. *)
AskAnyway(r) ==
    /\ Shown
    /\ session # NoSession
    /\ requests[r] = "none"
    /\ requests' = [requests EXCEPT ![r] = "ask"]
    /\ isLoading' = TRUE
    /\ UNCHANGED <<page, opens, waiting, session, result, panel, overlap, crossed>>

(* handleSubmit; button and text area are disabled while isLoading. *)
Ask(r) ==
    /\ Shown
    /\ ~isLoading
    /\ session # NoSession
    /\ requests[r] = "none"
    /\ requests' = [requests EXCEPT ![r] = "ask"]
    /\ isLoading' = TRUE
    /\ UNCHANGED <<page, opens, waiting, session, result, panel, overlap, crossed>>

(* handleRerun; the button of the history panel is never disabled. *)
Rerun(r) ==
    /\ Shown
    /\ session # NoSession
    /\ requests[r] = "none"
    /\ requests' = [requests EXCEPT ![r] = "rerun"]
    /\ isLoading' = TRUE
    /\ crossed' = (UnderWay # {})
    /\ UNCHANGED <<page, opens, waiting, session, result, panel, overlap>>

(* Request r is done with, and whatever it was the page stops loading. *)
Ends(r) ==
    /\ requests' = [requests EXCEPT ![r] = "none"]
    /\ isLoading' = FALSE
    /\ crossed' = (crossed /\ UnderWay # {r})

AskSucceeds(r) ==
    /\ requests[r] = "ask"
    /\ result' \in 0..MaxPages
    /\ newer' = (pager # 0)
    /\ Ends(r)
    /\ UNCHANGED <<page, opens, waiting, session, pager, overlap>>

(* The service says success: false, or the request fails. *)
AskFails(r) ==
    /\ requests[r] = "ask"
    /\ Ends(r)
    /\ UNCHANGED <<page, opens, waiting, session, result, panel, overlap>>

(* The service has no /query/execute, so a re-run only fails. *)
RerunFails(r) ==
    /\ requests[r] = "rerun"
    /\ Ends(r)
    /\ UNCHANGED <<page, opens, waiting, session, result, panel, overlap>>

-----------------------------------------------------------------------------
(* The pager is there when the result has more than one page. *)
PagerShown == Shown /\ result \in 2..MaxPages

(* The pager stands beyond the last page of a newer, shorter result until  *)
(* it has been turned back far enough, or is turned on.                    *)
TurnBack ==
    /\ PagerShown
    /\ pager # 0
    /\ pager' = pager - 1
    /\ UNCHANGED <<page, opens, waiting, store, requests, overlap, crossed, newer>>

(* Mutant: the last page is taken for the one before it. *)
TurnOnTooFar ==
    /\ PagerShown
    /\ pager < result
    /\ pager + 1 < MaxPages
    /\ pager' = pager + 1
    /\ newer' = FALSE
    /\ UNCHANGED <<page, opens, waiting, store, requests, overlap, crossed>>

TurnOn ==
    /\ PagerShown
    /\ pager # result - 1
    /\ pager' = IF pager + 1 < result THEN pager + 1 ELSE result - 1
    /\ newer' = FALSE
    /\ UNCHANGED <<page, opens, waiting, store, requests, overlap, crossed>>

QueryPageNext ==
    \/ \E c \in Connections, o \in Openings : OpenPage(c, o)
    \/ \E o \in Openings :
          Connected(o) \/ Loaded(o) \/ OpeningFails(o) \/ ReloadPage(o)
    \/ \E r \in Requests :
          Ask(r) \/ Rerun(r) \/ AskSucceeds(r) \/ AskFails(r) \/ RerunFails(r)
    \/ Leave \/ ReloadDashboard \/ TurnBack \/ TurnOn

QueryPageSpec == QueryPageInit /\ [][QueryPageNext]_queryPageVars

(* Every request is answered, if only by an error of the browser. *)
QueryPageFairness ==
    /\ \A o \in Openings : WF_queryPageVars(Connected(o) \/ Loaded(o) \/ OpeningFails(o))
    /\ \A r \in Requests : WF_queryPageVars(AskSucceeds(r) \/ AskFails(r) \/ RerunFails(r))

FairQueryPageSpec == QueryPageSpec /\ QueryPageFairness

-----------------------------------------------------------------------------
(* Questions on a page go to a session on its connection, although the     *)
(* answer of an opening is stored whichever page is shown.  The exception  *)
(* is a page opened while an earlier opening was still under way.          *)
SessionOfPage == Shown /\ ~overlap => session = page

(* The input is enabled only when no question and no re-run is under way,  *)
(* also for a question asked on a page the user has left: two questions    *)
(* never race for the result.  The exception is a re-run over a request.   *)
OneAtATime == ~crossed => (isLoading <=> UnderWay # {}) /\
                          \A r, s \in UnderWay : r = s

(* The page the pager stands at has rows, but for a result that came since *)
(* the user last turned on: only that can leave it beyond the last page.   *)
TurnedPageHasRows == ~newer /\ result \in 1..MaxPages => pager < result

(* A page does not wait for one opening for ever, and loading ends.        *)
Settles ==
    /\ \A o \in Openings : waiting = o ~> waiting # o
    /\ isLoading ~> ~isLoading
=============================================================================
