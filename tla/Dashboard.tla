-------------------------------- MODULE Dashboard --------------------------------
(***************************************************************************)
(* The dashboard of one tab: DashboardPage, AddConnectionModal,            *)
(* ConnectionCard, and the connections the service keeps for the user.     *)
(*                                                                         *)
(* The list is fetched once, when the page is mounted; after that the page *)
(* edits its own copy with the answers of its requests.  A request takes   *)
(* effect in the service at some time, and is answered, or fails, at some  *)
(* later time.  A callback runs to its next await without interruption.    *)
(* lib/api is not part of the repository: a request may have any outcome.  *)
(***************************************************************************)
CONSTANTS
    UserConnections,  \* connections of the user, past, present and to come
    Urls,             \* connection urls the modal accepts
    Saves,            \* slots for saves under way
    Unreadable,       \* what a good answer to a save adds to the cards
    NoUrl

ASSUME UnreadableAssumption == Unreadable \notin UserConnections
ASSUME NoUrlAssumption == NoUrl \notin Urls

VARIABLES
    live,        \* the connections the service has for the user
    list,        \* the fetch of the list: its progress and content
    cards,       \* DashboardPage's connections
    deletes,     \* progress of the deletion of each card
    saves,       \* saves under way; own: by the modal that is open now
    modal,       \* whether the modal is open, and its fields
    blank,       \* rendering threw, and React took the whole page down
    answered,    \* history: the url of the latest good answer to a test
    edited,      \* history: the url was edited during that test
    astray,      \* history: see CardsAgree
    gap          \* history: where the list was out of date when it was taken

dashboardVars ==
    <<live, list, cards, deletes, saves, modal, blank, answered, edited, astray, gap>>
modalVars == <<modal, answered, edited>>

Closed == [open |-> FALSE, url |-> NoUrl, tested |-> FALSE, testing |-> NoUrl]
NoSave == [at |-> "none", own |-> FALSE]
Fetch == [at |-> "sent", got |-> {}]
Fetched == [at |-> "none", got |-> {}]

Loading == list.at # "none"
Unanswered ==
    \/ \E c \in UserConnections : deletes[c] # "none"
    \/ \E s \in Saves : saves[s] # NoSave

Modal == [open : BOOLEAN, url : Urls \cup {NoUrl}, tested : BOOLEAN,
          testing : Urls \cup {NoUrl}]

(* Types: a modal that is open has at most one save of its own under way,  *)
(* a closed one has none.                                                  *)
DashboardTypeOK ==
    /\ live \subseteq UserConnections
    /\ list \in [at : {"none", "sent", "taken"}, got : SUBSET UserConnections]
    /\ cards \subseteq UserConnections \cup {Unreadable}
    /\ deletes \in [UserConnections -> {"none", "sent", "done"}]
    /\ saves \in [Saves -> [at : {"none", "sent", "done"}, own : BOOLEAN]]
    /\ modal \in Modal
    /\ blank \in BOOLEAN
    /\ answered \in Urls \cup {NoUrl}
    /\ edited \in BOOLEAN
    /\ astray \in BOOLEAN
    /\ gap \subseteq UserConnections
    /\ \A s \in Saves : saves[s].own => modal.open
    /\ \A s, t \in Saves : saves[s].own /\ saves[t].own => s = t

-----------------------------------------------------------------------------
DashboardInit ==
    /\ live \in SUBSET UserConnections
    /\ list = Fetch
    /\ cards = {}
    /\ deletes = [c \in UserConnections |-> "none"]
    /\ saves = [s \in Saves |-> NoSave]
    /\ modal = Closed
    /\ blank = FALSE
    /\ answered = NoUrl
    /\ edited = FALSE
    /\ astray = FALSE
    /\ gap = {}

(* The page is mounted anew, and sends for the list: the user comes back   *)
(* from another page, or reloads the tab.  What is under way has no effect *)
(* on the new page, and on the service that of a change made elsewhere.    *)
Mount ==
    /\ list' = Fetch
    /\ cards' = {}
    /\ deletes' = [c \in UserConnections |-> "none"]
    /\ saves' = [s \in Saves |-> NoSave]
    /\ modal' = Closed
    /\ blank' = FALSE
    /\ answered' = NoUrl
    /\ edited' = FALSE
    /\ astray' = FALSE
    /\ gap' = {}
    /\ UNCHANGED live

(* Another tab, or a request of an earlier mount. *)
ChangedElsewhere ==
    /\ \E c \in UserConnections :
          live' = IF c \in live THEN live \ {c} ELSE live \cup {c}
    /\ astray' = (astray \/ list.at # "sent")
    /\ UNCHANGED <<list, cards, deletes, saves, modalVars, blank, gap>>

-----------------------------------------------------------------------------
(* Where two sets of connections differ. *)
Difference(S, T) == (S \ T) \cup (T \ S)

(* The service reads the user's connections, or finds a list of them in    *)
(* Redis.  One that was cached over a deletion or an insertion (see        *)
(* ConnectionCatalog) is out of date for up to 300 s; an empty one counts  *)
(* as none.                                                                *)
ListTaken ==
    /\ list.at = "sent"
    /\ \E l \in {live} \cup (SUBSET UserConnections \ {{}}) :
          /\ list' = [at |-> "taken", got |-> l]
          /\ gap' = Difference(l, live)
    /\ UNCHANGED <<live, cards, deletes, saves, modalVars, blank, astray>>

(* The list replaces whatever the page has; a save answered before it      *)
(* leaves no card.                                                         *)
ListArrives ==
    /\ ~blank
    /\ list.at = "taken"
    /\ cards' = list.got
    /\ list' = Fetched
    /\ astray' = (astray \/ Unreadable \in cards)
    /\ UNCHANGED <<live, deletes, saves, modalVars, blank, gap>>

(* "Failed to load connections": the page shows what it has. *)
ListFails ==
    /\ ~blank
    /\ Loading
    /\ list' = Fetched
    /\ astray' = TRUE
    /\ blank' = (Unreadable \in cards)
    /\ UNCHANGED <<live, cards, deletes, saves, modalVars, gap>>

(* "Remove" on a card.  A second click while the first is under way sends  *)
(* a second request, with no effect but an error message.                  *)
Delete(c) ==
    /\ ~blank /\ ~Loading /\ ~modal.open
    /\ c \in cards
    /\ deletes[c] = "none"
    /\ deletes' = [deletes EXCEPT ![c] = "sent"]
    /\ UNCHANGED <<live, list, cards, saves, modalVars, blank, astray, gap>>

DeleteTakesEffect(c) ==
    /\ deletes[c] = "sent"
    /\ c \in live
    /\ live' = live \ {c}
    /\ deletes' = [deletes EXCEPT ![c] = "done"]
    /\ UNCHANGED <<list, cards, saves, modalVars, blank, astray, gap>>

DeleteSucceeds(c) ==
    /\ ~blank
    /\ deletes[c] = "done"
    /\ cards' = cards \ {c}
    /\ deletes' = [deletes EXCEPT ![c] = "none"]
    /\ UNCHANGED <<live, list, saves, modalVars, blank, astray, gap>>

(* Mutant: the card goes whatever the answer. *)
DeleteFailsOptimistic(c) ==
    /\ ~blank
    /\ deletes[c] # "none"
    /\ cards' = cards \ {c}
    /\ deletes' = [deletes EXCEPT ![c] = "none"]
    /\ astray' = (astray \/ deletes[c] = "done")
    /\ UNCHANGED <<live, list, saves, modalVars, blank, gap>>

(* The request is refused, or its answer is lost. *)
DeleteFails(c) ==
    /\ ~blank
    /\ deletes[c] # "none"
    /\ deletes' = [deletes EXCEPT ![c] = "none"]
    /\ astray' = (astray \/ deletes[c] = "done")
    /\ UNCHANGED <<live, list, cards, saves, modalVars, blank, gap>>

-----------------------------------------------------------------------------
(* "Add New DB", also while the list is loading. *)
OpenModal ==
    /\ ~blank
    /\ ~modal.open
    /\ modal' = [Closed EXCEPT !.open = TRUE]
    /\ answered' = NoUrl
    /\ edited' = FALSE
    /\ UNCHANGED <<live, list, cards, deletes, saves, blank, astray, gap>>

Disowned == [s \in Saves |-> [saves[s] EXCEPT !.own = FALSE]]

CloseModal ==
    /\ ~blank
    /\ modal.open
    /\ modal' = Closed
    /\ saves' = Disowned
    /\ UNCHANGED <<live, list, cards, deletes, blank, answered, edited, astray, gap>>

(* Mutant: an edit leaves the tested flag as it is. *)
EditStaysTested(u) ==
    /\ ~blank
    /\ modal.open
    /\ modal' = [modal EXCEPT !.url = u]
    /\ edited' = (edited \/ modal.testing # NoUrl)
    /\ UNCHANGED <<live, list, cards, deletes, saves, blank, answered, astray, gap>>

(* The url is edited; an answer still to come sets the flag again. *)
Edit(u) ==
    /\ ~blank
    /\ modal.open
    /\ modal' = [modal EXCEPT !.url = u, !.tested = FALSE]
    /\ edited' = (edited \/ modal.testing # NoUrl)
    /\ UNCHANGED <<live, list, cards, deletes, saves, blank, answered, astray, gap>>

(* handleTest; the button is disabled while a test is under way. *)
Test ==
    /\ ~blank
    /\ modal.open
    /\ modal.url # NoUrl
    /\ modal.testing = NoUrl
    /\ modal' = [modal EXCEPT !.testing = modal.url, !.tested = FALSE]
    /\ edited' = FALSE
    /\ UNCHANGED <<live, list, cards, deletes, saves, blank, answered, astray, gap>>

(* The answer is good: a 2xx one, whatever it says. *)
TestSucceeds ==
    /\ ~blank
    /\ modal.testing # NoUrl
    /\ modal' = [modal EXCEPT !.testing = NoUrl, !.tested = TRUE]
    /\ answered' = modal.testing
    /\ UNCHANGED <<live, list, cards, deletes, saves, blank, edited, astray, gap>>

TestFails ==
    /\ ~blank
    /\ modal.testing # NoUrl
    /\ modal' = [modal EXCEPT !.testing = NoUrl]
    /\ UNCHANGED <<live, list, cards, deletes, saves, blank, answered, edited, astray, gap>>

(* handleSave; the button is disabled while this modal saves. *)
Save(s) ==
    /\ ~blank
    /\ modal.open /\ modal.tested
    /\ \A t \in Saves : ~saves[t].own
    /\ saves[s] = NoSave
    /\ saves' = [saves EXCEPT ![s] = [at |-> "sent", own |-> TRUE]]
    /\ UNCHANGED <<live, list, cards, deletes, modalVars, blank, astray, gap>>

(* A new connection: its id is nowhere yet. *)
SaveTakesEffect(s) ==
    /\ saves[s].at = "sent"
    /\ \E c \in UserConnections \ (live \cup cards \cup list.got) :
          deletes[c] = "none" /\ live' = live \cup {c}
    /\ saves' = [saves EXCEPT ![s].at = "done"]
    /\ UNCHANGED <<list, cards, deletes, modalVars, blank, astray, gap>>

(* onAdded puts the envelope of the answer among the cards, and onClose    *)
(* closes the modal that is open by now.  ConnectionCard reads table_names *)
(* of the envelope, which has none: once cards are shown, rendering throws.*)
SaveSucceeds(s) ==
    /\ ~blank
    /\ saves[s].at = "done"
    /\ cards' = cards \cup {Unreadable}
    /\ modal' = Closed
    /\ saves' = [Disowned EXCEPT ![s] = NoSave]
    /\ blank' = ~Loading
    /\ UNCHANGED <<live, list, deletes, answered, edited, astray, gap>>

SaveFails(s) ==
    /\ ~blank
    /\ saves[s] # NoSave
    /\ saves' = [saves EXCEPT ![s] = NoSave]
    /\ astray' = (astray \/ saves[s].at = "done")
    /\ UNCHANGED <<live, list, cards, deletes, modalVars, blank, gap>>

DashboardNext ==
    \/ Mount \/ ChangedElsewhere
    \/ ListTaken \/ ListArrives \/ ListFails
    \/ \E c \in UserConnections :
          Delete(c) \/ DeleteTakesEffect(c) \/ DeleteSucceeds(c) \/ DeleteFails(c)
    \/ OpenModal \/ CloseModal \/ Test \/ TestSucceeds \/ TestFails
    \/ \E u \in Urls \cup {NoUrl} : Edit(u)
    \/ \E s \in Saves : Save(s) \/ SaveTakesEffect(s) \/ SaveSucceeds(s) \/ SaveFails(s)

DashboardSpec == DashboardInit /\ [][DashboardNext]_dashboardVars

-----------------------------------------------------------------------------
(* The url Save sends is the one the latest test has answered for.  The    *)
(* exception is a url edited while its test was under way: the answer sets *)
(* the flag for the edited url.                                            *)
SavesTestedUrl == modal.tested /\ ~edited => modal.url = answered

(* When nothing is under way, the cards are the service's connections but  *)
(* for what the list already had wrong when it was taken: deletions of     *)
(* several cards may be answered in any order, a card the service no       *)
(* longer knows may be deleted in vain, and modals closed and reopened.    *)
(* A page is astray when the list or the answer to a change was lost, when *)
(* a save was answered before the list, or when the connections were       *)
(* changed elsewhere since the list was taken.                             *)
CardsAgree ==
    ~(blank \/ Loading \/ Unanswered \/ astray) => Difference(cards, live) \subseteq gap
=============================================================================
