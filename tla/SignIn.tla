--------------------------------- MODULE SignIn ---------------------------------
(***************************************************************************)
(* Who is signed in, in one tab of the browser: App, LoginPage,            *)
(* RegisterPage and authStore, with the token storage of lib/api.          *)
(*                                                                         *)
(* Three kinds of answers come back at their own pace and write the same   *)
(* state: a form's, also after the user has left its page, and the one of  *)
(* the refresh that App sends when it starts.  A callback runs to its next *)
(* await without interruption.  The store and the token storage survive a  *)
(* reload, requests do not.                                                *)
(*                                                                         *)
(* Tokens are represented by the account they were issued for.  Input the  *)
(* forms reject sends nothing and changes nothing.  lib/api is not part of *)
(* the repository: whether tokens are about to expire is left open.        *)
(***************************************************************************)
CONSTANTS
    Accounts,   \* accounts the user of the browser has or makes
    Forms,      \* slots for submitted forms that have not been answered
    NoAccount,  \* null or undefined
    NoForm

ASSUME NoAccountAssumption == NoAccount \notin Accounts
ASSUME NoFormAssumption == NoForm \notin Forms

VARIABLES
    stored,      \* the tokens in lib/api's storage
    user, tokens, isLoggedIn,   \* the fields of authStore
    publicPage,  \* the page PublicRoute shows while nobody is signed in
    sent,        \* what each form asked: its page and account
    awaited,     \* the form the shown page waits for (loading), or NoForm
    refreshing,  \* account of the refresh in flight
    overtaken,   \* history: somebody signed in or out during that refresh
    late         \* history: the tokens are those of an overtaken refresh

auth == <<user, tokens, isLoggedIn>>
history == <<overtaken, late>>
signInVars == <<stored, auth, publicPage, sent, awaited, refreshing, history>>

Page == {"login", "register"}
Idle == [page |-> "none", account |-> NoAccount]
MaybeAccount == Accounts \cup {NoAccount}

(* Types: a form's page waits only while nobody is signed in.              *)
SignInTypeOK ==
    /\ stored \in MaybeAccount
    /\ user \in MaybeAccount
    /\ tokens \in MaybeAccount
    /\ isLoggedIn \in BOOLEAN
    /\ publicPage \in Page
    /\ sent \in [Forms -> [page : Page, account : Accounts] \cup {Idle}]
    /\ awaited \in Forms \cup {NoForm}
    /\ refreshing \in MaybeAccount
    /\ overtaken \in BOOLEAN
    /\ late \in BOOLEAN
    /\ awaited # NoForm => ~isLoggedIn

SignInInit ==
    /\ stored = NoAccount
    /\ user = NoAccount
    /\ tokens = NoAccount
    /\ isLoggedIn = FALSE
    /\ publicPage = "login"
    /\ sent = [f \in Forms |-> Idle]
    /\ awaited = NoForm
    /\ refreshing = NoAccount
    /\ overtaken = FALSE
    /\ late = FALSE

-----------------------------------------------------------------------------
(* The account in the browser changes hands; what a refresh in flight will *)
(* bring is then out of date.                                              *)
HandsChange ==
    /\ overtaken' = (refreshing # NoAccount)
    /\ late' = FALSE

(* setAuth, for an answer that names account a; the public page goes.      *)
SetAuth(a) ==
    /\ stored' = a
    /\ user' = a
    /\ tokens' = a
    /\ isLoggedIn' = TRUE
    /\ awaited' = NoForm
    /\ publicPage' = "login"
    /\ HandsChange

(* updateTokens *)
UpdateTokens(a) == stored' = a /\ tokens' = a

(* Mutant of logout: the user stays in the store. *)
LogoutKeepsUser ==
    /\ stored' = NoAccount
    /\ tokens' = NoAccount
    /\ isLoggedIn' = FALSE
    /\ UNCHANGED user

(* logout *)
Logout ==
    /\ stored' = NoAccount
    /\ user' = NoAccount
    /\ tokens' = NoAccount
    /\ isLoggedIn' = FALSE

-----------------------------------------------------------------------------
(* The pages link to each other; the old page goes, its request does not.  *)
SwitchPage ==
    /\ ~isLoggedIn
    /\ publicPage' \in Page \ {publicPage}
    /\ awaited' = NoForm
    /\ UNCHANGED <<stored, auth, sent, refreshing, history>>

(* Mutant: the form stays when somebody is signed in. *)
SubmitAnyway(f, a) ==
    /\ awaited = NoForm
    /\ sent[f] = Idle
    /\ sent' = [sent EXCEPT ![f] = [page |-> publicPage, account |-> a]]
    /\ awaited' = f
    /\ UNCHANGED <<stored, auth, publicPage, refreshing, history>>

(* handleSubmit of the shown page, with input it accepts.  The button is   *)
(* disabled while the page waits.                                          *)
Submit(f, a) ==
    /\ ~isLoggedIn
    /\ awaited = NoForm
    /\ sent[f] = Idle
    /\ sent' = [sent EXCEPT ![f] = [page |-> publicPage, account |-> a]]
    /\ awaited' = f
    /\ UNCHANGED <<stored, auth, publicPage, refreshing, history>>

(* The account a page finds in a good answer.  RegisterPage looks for user *)
(* and tokens in the envelope of the gateway, not in its data.             *)
Read(form) == IF form.page = "login" THEN form.account ELSE NoAccount

FormSucceeds(f) ==
    /\ sent[f] # Idle
    /\ SetAuth(Read(sent[f]))
    /\ sent' = [sent EXCEPT ![f] = Idle]
    /\ UNCHANGED refreshing

(* Mutant: the catch branch leaves the page loading. *)
FormFailsLoading(f) ==
    /\ sent[f] # Idle
    /\ sent' = [sent EXCEPT ![f] = Idle]
    /\ UNCHANGED <<stored, auth, publicPage, awaited, refreshing, history>>

FormFails(f) ==
    /\ sent[f] # Idle
    /\ sent' = [sent EXCEPT ![f] = Idle]
    /\ awaited' = IF awaited = f THEN NoForm ELSE awaited
    /\ UNCHANGED <<stored, auth, publicPage, refreshing, history>>

(* "Sign out" on the dashboard. *)
SignOut ==
    /\ isLoggedIn
    /\ Logout
    /\ HandsChange
    /\ UNCHANGED <<publicPage, sent, awaited, refreshing>>

-----------------------------------------------------------------------------
(* App is loaded anew: the store comes back from its storage, and AppInit  *)
(* refreshes tokens that are about to expire.                              *)
Load ==
    /\ publicPage' = "login"
    /\ sent' = [f \in Forms |-> Idle]
    /\ awaited' = NoForm
    /\ refreshing' \in {NoAccount, stored}
    /\ overtaken' = FALSE
    /\ UNCHANGED <<stored, auth, late>>

RefreshSucceeds ==
    /\ refreshing # NoAccount
    /\ UpdateTokens(refreshing)
    /\ refreshing' = NoAccount
    /\ late' = (late \/ overtaken)
    /\ overtaken' = FALSE
    /\ UNCHANGED <<user, isLoggedIn, publicPage, sent, awaited>>

RefreshFails ==
    /\ refreshing # NoAccount
    /\ Logout
    /\ refreshing' = NoAccount
    /\ late' = FALSE
    /\ overtaken' = FALSE
    /\ UNCHANGED <<publicPage, sent, awaited>>

SignInNext ==
    \/ \E f \in Forms :
          (\E a \in Accounts : Submit(f, a)) \/ FormSucceeds(f) \/ FormFails(f)
    \/ SwitchPage \/ SignOut \/ Load \/ RefreshSucceeds \/ RefreshFails

SignInSpec == SignInInit /\ [][SignInNext]_signInVars

(* Every request is answered, if only by an error of the browser. *)
SignInFairness ==
    /\ \A f \in Forms : WF_signInVars(FormSucceeds(f) \/ FormFails(f))
    /\ WF_signInVars(RefreshSucceeds \/ RefreshFails)

FairSignInSpec == SignInSpec /\ SignInFairness

-----------------------------------------------------------------------------
(* The store and the token storage never disagree about the tokens, which  *)
(* are those of the account shown, and nobody's when nobody is signed in.  *)
(* The one exception is a refresh that was in flight when the user signed  *)
(* out or in, and whose answer came after that.                            *)
OwnTokens ==
    /\ stored = tokens
    /\ ~late => tokens = user /\ (~isLoggedIn => user = NoAccount)

(* The form comes back: whatever the answer, and however the user moves    *)
(* between the pages, a page does not wait for ever.                       *)
FormComesBack == awaited # NoForm ~> awaited = NoForm
=============================================================================
