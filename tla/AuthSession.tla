---------------------------- MODULE AuthSession ----------------------------
(***************************************************************************)
(* The session of the web console: the pair of tokens kept in the          *)
(* browser's local storage, the calls that use it, and the one shared      *)
(* promise through which the calls of a tab renew it (utils/api.ts).       *)
(*                                                                         *)
(* Every API call goes through apiWrapper.  It reads the stored access     *)
(* token when it is sent; a 401 makes it refresh the pair and try again.   *)
(* A tab has one refreshTokenPromise: the call that finds it null sends    *)
(* the request, the others wait for the same answer.  Local storage is     *)
(* shared by the tabs of a browser, the promise is not.                    *)
(*                                                                         *)
(* A pair of tokens is a number in the order of issue.  An answer of the   *)
(* refresh request resumes every waiting call of its tab before the        *)
(* browser runs another task, so Settle is one step.                       *)
(***************************************************************************)
EXTENDS Naturals, FiniteSets

CONSTANTS
    Tab,             \* the tabs open on the console
    Call,            \* API calls that may be outstanding at a time
    LogoutCall,      \* the ones made by the logout action
    None,            \* null
    MaxPairs,        \* bound: pairs of tokens issued
    MaxExpirations,  \* bound: pairs whose access token expires (30 min)
    MaxEvents        \* bound: further logins, failed requests and changes users
                     \* make to themselves, together

ASSUME AuthAssumption ==
    /\ LogoutCall \subseteq Call
    /\ MaxPairs \in Nat \ {0}
    /\ None \notin Nat \cup Tab

VARIABLES
    auth,      \* deepfence_auth in local storage: a pair or None
    page,      \* page[t]: "app", or "login" after redirectToLogin
    pc,        \* pc[c]: progress of call c
    tab,       \* tab[c]: the tab call c is made in, None when it is idle
    tok,       \* tok[c]: the pair whose access token the request of c carries
    promise,   \* promise[t]: the pair refreshTokenPromise was sent with, or None
    answer,    \* answer[t]: what has become of that request
    granted,   \* granted[t]: the pair in the answer, when there is one
    issued,    \* number of pairs the server has issued
    spent,     \* spent[t]: pairs that tab t exchanged, unless the answer was lost
    expired,   \* pairs whose access token has expired
    dead,      \* pairs whose refresh token has expired too (26 h)
    revoked,   \* pairs revoked by a logout or a change of one's own role
    active,    \* the user exists and is active
    logins,    \* logins so far
    outages    \* failures, and changes users make to themselves, so far

callVars    == <<pc, tab, tok>>
refreshVars == <<promise, answer, granted>>
serverVars  == <<issued, spent, expired, dead, revoked, active>>
countVars   == <<logins, outages>>
vars == <<auth, page, callVars, refreshVars, serverVars, countVars>>

Pair == 1..MaxPairs
MayHappen == logins + outages < MaxEvents
Waiters(t) == {c \in Call : tab[c] = t /\ pc[c] = "waiting"}

Init ==
    /\ auth = 1
    /\ page = [t \in Tab |-> "app"]
    /\ pc = [c \in Call |-> "idle"]
    /\ tab = [c \in Call |-> None]
    /\ tok = [c \in Call |-> None]
    /\ promise = [t \in Tab |-> None]
    /\ answer = [t \in Tab |-> "none"]
    /\ granted = [t \in Tab |-> None]
    /\ issued = 1
    /\ spent = [t \in Tab |-> {}]
    /\ expired = {} /\ dead = {} /\ revoked = {}
    /\ active = TRUE
    /\ logins = 0
    /\ outages = 0

-----------------------------------------------------------------------------
(* API calls *)

\* A loader, a query or an action of the console calls the server with the
\* access token that is stored now (or with none).
Start(c, t) ==
    /\ pc[c] = "idle"
    /\ page[t] = "app"
    /\ tab' = [tab EXCEPT ![c] = t]
    /\ pc' = [pc EXCEPT ![c] = "sent"]
    /\ tok' = [tok EXCEPT ![c] = auth]
    /\ UNCHANGED <<auth, page, refreshVars, serverVars, countVars>>

AccessValid(p) == p # None /\ p \notin expired

\* Bug: the token of a logout is revoked before it is verified.
RevokedUnverified(c) == IF c \in LogoutCall THEN revoked \cup {tok[c]} ELSE revoked

\* The pairs revoked once call c has been served.
RevokedBy(c) ==
    IF c \in LogoutCall /\ AccessValid(tok[c]) THEN revoked \cup {tok[c]} ELSE revoked

\* The server answers call c.  A logout revokes the pair it was made with;
\* revocation is not looked at by ordinary calls.
Serve(c) ==
    /\ pc[c] = "sent"
    /\ pc' = [pc EXCEPT ![c] = IF AccessValid(tok[c]) THEN "ok" ELSE "unauthorized"]
    /\ revoked' = RevokedBy(c)
    /\ tok' = [tok EXCEPT ![c] = None]
    /\ UNCHANGED <<auth, page, tab, refreshVars, issued, spent, expired, dead, active,
                   countVars>>

\* The request or its answer is lost, or the answer is a 5xx.
FailCall(c) ==
    /\ pc[c] \in {"sent", "ok"}
    /\ MayHappen
    /\ outages' = outages + 1
    /\ pc' = [pc EXCEPT ![c] = "error"]
    /\ tok' = [tok EXCEPT ![c] = None]
    /\ UNCHANGED <<auth, page, tab, refreshVars, serverVars, logins>>

\* apiWrapper returns or throws; the caller is done.  A logout that went well
\* clears the stored session and leaves for the login page.
DeliverResult(c) ==
    /\ pc[c] \in {"ok", "error"}
    /\ pc' = [pc EXCEPT ![c] = "idle"]
    /\ tab' = [tab EXCEPT ![c] = None]
    /\ IF c \in LogoutCall /\ pc[c] = "ok"
       THEN /\ auth' = None
            /\ page' = [page EXCEPT ![tab[c]] = "login"]
       ELSE UNCHANGED <<auth, page>>
    /\ UNCHANGED <<tok, refreshVars, serverVars, countVars>>

\* Bug: every 401 sends a refresh request of its own.
SendsAlways(t) == TRUE

\* if (!refreshTokenPromise)
SendsRefresh(t) == promise[t] = None

\* A 401: refreshAccessTokenIfPossible.  Without a stored session there is
\* nothing to refresh; otherwise the call waits for the promise of its tab,
\* and makes it when there is none.
DeliverUnauthorized(c) ==
    LET t == tab[c] IN
    /\ pc[c] = "unauthorized"
    /\ IF auth = None
       THEN /\ pc' = [pc EXCEPT ![c] = "idle"]
            /\ tab' = [tab EXCEPT ![c] = None]
            /\ page' = [page EXCEPT ![t] = "login"]
            /\ UNCHANGED refreshVars
       ELSE /\ pc' = [pc EXCEPT ![c] = "waiting"]
            /\ promise' = [promise EXCEPT ![t] = IF SendsRefresh(t) THEN auth ELSE @]
            /\ answer' = [answer EXCEPT ![t] = IF SendsRefresh(t) THEN "pending" ELSE @]
            /\ granted' = [granted EXCEPT ![t] = IF SendsRefresh(t) THEN None ELSE @]
            /\ UNCHANGED <<page, tab>>
    /\ UNCHANGED <<auth, tok, serverVars, countVars>>

-----------------------------------------------------------------------------
(* The refresh request *)

RefreshGranted(p) == p \notin dead /\ p \notin revoked /\ active

\* RefreshTokenHandler: 401 for an expired refresh token, 403, 400 or 404 for
\* a revoked one or a user who is not active or gone, else a new pair.
ServeRefresh(t) ==
    /\ answer[t] = "pending"
    /\ IF RefreshGranted(promise[t])
       THEN /\ issued < MaxPairs
            /\ issued' = issued + 1
            /\ spent' = [spent EXCEPT ![t] = @ \cup {promise[t]}]
            /\ granted' = [granted EXCEPT ![t] = issued + 1]
            /\ answer' = [answer EXCEPT ![t] = "granted"]
       ELSE /\ answer' = [answer EXCEPT ![t] =
                            IF promise[t] \in dead THEN "unauthorized" ELSE "error"]
            /\ UNCHANGED <<issued, spent, granted>>
    /\ UNCHANGED <<auth, page, callVars, promise, expired, dead, revoked,
                   active, countVars>>

\* The refresh request or its answer is lost, or the answer is a 5xx.
FailRefresh(t) ==
    /\ answer[t] \in {"pending", "granted"}
    /\ MayHappen
    /\ outages' = outages + 1
    /\ answer' = [answer EXCEPT ![t] = "error"]
    /\ spent' = IF answer[t] = "granted"
                THEN [spent EXCEPT ![t] = @ \ {promise[t]}] ELSE spent
    /\ granted' = [granted EXCEPT ![t] = None]
    /\ UNCHANGED <<auth, page, callVars, promise, issued, expired, dead, revoked,
                   active, logins>>

\* Bug: any failure of the refresh ends the session.
SettledAuthOrNone(t) == IF answer[t] = "granted" THEN granted[t] ELSE None

\* The session stored once the answer of tab t has been dealt with.
SettledAuth(t) ==
    CASE answer[t] = "granted"      -> granted[t]
      [] answer[t] = "unauthorized" -> None
      [] answer[t] = "error"        -> auth

\* Bug: the promise is kept when the refresh failed.
CleanupUnlessError(t) ==
    IF answer[t] = "error" THEN UNCHANGED refreshVars
    ELSE /\ promise' = [promise EXCEPT ![t] = None]
         /\ answer' = [answer EXCEPT ![t] = "none"]
         /\ granted' = [granted EXCEPT ![t] = None]

\* refreshTokenPromise = null
Cleanup(t) ==
    /\ promise' = [promise EXCEPT ![t] = None]
    /\ answer' = [answer EXCEPT ![t] = "none"]
    /\ granted' = [granted EXCEPT ![t] = None]

\* The shared promise settles: every call of the tab that waits for it sends
\* its request again with the session that is stored now, or gives up when
\* the refresh token was refused with 401.
Settle(t) ==
    /\ answer[t] \in {"granted", "unauthorized", "error"}
    /\ auth' = SettledAuth(t)
    /\ Cleanup(t)
    /\ IF answer[t] = "unauthorized"
       THEN /\ pc' = [c \in Call |-> IF c \in Waiters(t) THEN "idle" ELSE pc[c]]
            /\ tab' = [c \in Call |-> IF c \in Waiters(t) THEN None ELSE tab[c]]
            /\ page' = [page EXCEPT ![t] = "login"]
            /\ UNCHANGED tok
       ELSE /\ pc' = [c \in Call |-> IF c \in Waiters(t) THEN "sent" ELSE pc[c]]
            /\ tok' = [c \in Call |-> IF c \in Waiters(t) THEN SettledAuth(t) ELSE tok[c]]
            /\ UNCHANGED <<page, tab>>
    /\ UNCHANGED <<serverVars, countVars>>

-----------------------------------------------------------------------------
(* Login, navigation and time *)

\* loginAction and handleLoginAndRedirect.
Login(t) ==
    /\ page[t] = "login"
    /\ active
    /\ MayHappen
    /\ issued < MaxPairs
    /\ logins' = logins + 1
    /\ issued' = issued + 1
    /\ auth' = issued + 1
    /\ page' = [page EXCEPT ![t] = "app"]
    /\ UNCHANGED <<callVars, refreshVars, spent, expired, dead, revoked, active,
                   outages>>

\* The login and register pages send a browser with a session on to the console.
LoginLoader(t) ==
    /\ page[t] = "login"
    /\ auth # None
    /\ page' = [page EXCEPT ![t] = "app"]
    /\ UNCHANGED <<auth, callVars, refreshVars, serverVars, countVars>>

\* requireLogin: a page of the console loaded without a session.
RequireLogin(t) ==
    /\ page[t] = "app"
    /\ auth = None
    /\ page' = [page EXCEPT ![t] = "login"]
    /\ UNCHANGED <<auth, callVars, refreshVars, serverVars, countVars>>

\* The access token of pair p expires; ...
Expire(p) ==
    /\ p <= issued /\ p \notin expired
    /\ Cardinality(expired) < MaxExpirations
    /\ expired' = expired \cup {p}
    /\ UNCHANGED <<auth, page, callVars, refreshVars, issued, spent, dead,
                   revoked, active, countVars>>

\* ... and, a day later, its refresh token.
ExpireRefresh(p) ==
    /\ p \in expired \ dead
    /\ dead' = dead \cup {p}
    /\ UNCHANGED <<auth, page, callVars, refreshVars, issued, spent, expired,
                   revoked, active, countVars>>

\* updateUserHandler, deleteUserHandler: an administrator deactivates or deletes
\* the user, or users do so to themselves or change their own role, which
\* revokes the pair their request was made with.
UpdateUser ==
    /\ active
    /\ \/ active' = FALSE /\ UNCHANGED <<revoked, outages>>
       \/ /\ MayHappen
          /\ outages' = outages + 1
          /\ active' \in BOOLEAN
          /\ \E p \in 1..issued : AccessValid(p) /\ revoked' = revoked \cup {p}
    /\ UNCHANGED <<auth, page, callVars, refreshVars, issued, spent, expired,
                   dead, logins>>

-----------------------------------------------------------------------------

Next ==
    \/ \E c \in Call, t \in Tab : Start(c, t)
    \/ \E c \in Call : \/ Serve(c) \/ FailCall(c)
                       \/ DeliverResult(c) \/ DeliverUnauthorized(c)
    \/ \E t \in Tab : \/ ServeRefresh(t) \/ FailRefresh(t) \/ Settle(t)
                      \/ Login(t) \/ LoginLoader(t) \/ RequireLogin(t)
    \/ \E p \in Pair : Expire(p) \/ ExpireRefresh(p)
    \/ UpdateUser

\* Requests are answered, answers are handled by the event loop, and time
\* passes for a session whose access token has expired.
Fairness ==
    /\ \A c \in Call : /\ WF_vars(Serve(c))
                       /\ WF_vars(DeliverResult(c))
                       /\ WF_vars(DeliverUnauthorized(c))
    /\ \A t \in Tab : WF_vars(ServeRefresh(t)) /\ WF_vars(Settle(t))
    /\ \A p \in Pair : WF_vars(ExpireRefresh(p))

Spec == Init /\ [][Next]_vars
FairSpec == Spec /\ Fairness

-----------------------------------------------------------------------------
(* Properties *)

Issued == 1..issued

\* Every variable has its type; pairs that are stored, carried or being
\* refreshed were issued, and a tab has an answer exactly when it has a
\* promise and a granted pair exactly when the answer grants one.
TypeOK ==
    /\ auth \in Issued \cup {None}
    /\ page \in [Tab -> {"app", "login"}]
    /\ pc \in [Call -> {"idle", "sent", "ok", "unauthorized", "error", "waiting"}]
    /\ tab \in [Call -> Tab \cup {None}]
    /\ \A c \in Call : (pc[c] = "idle") <=> (tab[c] = None)
    /\ tok \in [Call -> Issued \cup {None}]
    /\ promise \in [Tab -> Issued \cup {None}]
    /\ answer \in [Tab -> {"none", "pending", "granted", "unauthorized", "error"}]
    /\ granted \in [Tab -> Issued \cup {None}]
    /\ \A t \in Tab : /\ (answer[t] = "none") <=> (promise[t] = None)
                      /\ (answer[t] = "granted") <=> (granted[t] # None)
    /\ issued \in Pair
    /\ spent \in [Tab -> SUBSET Issued]
    /\ dead \subseteq expired
    /\ expired \subseteq Issued
    /\ revoked \subseteq Issued
    /\ active \in BOOLEAN
    /\ logins \in Nat
    /\ outages \in Nat

\* A tab exchanges a refresh token once, however many of its calls find their
\* access token expired and whenever their 401s arrive, unless the answer to
\* the first exchange never reached it (the shared refreshTokenPromise).
RefreshOnce ==
    [][\A t \in Tab : answer[t] = "pending" /\ answer'[t] = "granted"
                        => promise[t] \notin spent[t]]_vars

\* The stored session changes only for a reason: a login, a renewal of this
\* very session, a logout that the server carried out, the expiry of its
\* refresh token, or the late answer of a refresh that a logout or the other
\* tab has overtaken.  In particular no failure of a refresh ends a session
\* that could still be renewed.
SessionKept ==
    [][auth' # auth =>
          \/ auth' # None /\ logins' # logins
          \/ auth' # None /\ \E t \in Tab : auth' = granted[t] /\ promise[t] = auth
          \/ auth' = None /\ auth \in dead
          \/ auth' = None /\ \E c \in LogoutCall : pc[c] = "ok" /\ pc'[c] = "idle"
          \/ \E t \in Tab : promise[t] \notin {None, auth} /\ promise'[t] = None]_vars

\* Every call comes back to its caller: no 401 is retried for ever and no call
\* waits for a refresh that nobody will finish.
CallsEnd ==
    \A c \in Call : pc[c] # "idle" ~> pc[c] = "idle"
=============================================================================
