------------------------- MODULE AuthSession_proofs -------------------------
(***************************************************************************)
(* Theorems about AuthSession for any number of tabs, calls, logins and    *)
(* failures.                                                               *)
(*                                                                         *)
(* RefreshOnce and SessionKept are not inductive.  They follow from        *)
(* Renewals, which says where an exchanged pair may still be held: the     *)
(* stored session has been exchanged by a tab only while that tab holds    *)
(* the answer, and a granted pair is new to everyone else until then.      *)
(***************************************************************************)
EXTENDS AuthSession, TLAPS

\* A tab that has exchanged the pair of its promise holds the answer.
PromiseUnspent ==
    \A t \in Tab : promise[t] \in spent[t] => answer[t] = "granted"

\* A tab that has exchanged the stored session is about to replace it.
AuthUnspent ==
    \A t \in Tab : auth \in spent[t] => answer[t] = "granted" /\ promise[t] = auth

\* A pair in an answer that is not yet handled is held by nobody else.
GrantedFresh ==
    \A t \in Tab : granted[t] # None =>
        /\ granted[t] # auth
        /\ \A u \in Tab : /\ granted[t] \notin spent[u]
                          /\ granted[t] # promise[u]
                          /\ granted[u] = granted[t] => u = t

\* The server refuses a refresh with 401 only when its token has expired.
RefusedIsDead ==
    \A t \in Tab : answer[t] = "unauthorized" => promise[t] \in dead

Renewals == PromiseUnspent /\ AuthUnspent /\ GrantedFresh /\ RefusedIsDead

IInv == TypeOK /\ Renewals

USE AuthAssumption

\* Before the first call nothing has been exchanged.
LEMMA InitIInv == Init => IInv
  BY DEF Init, IInv, TypeOK, Issued, Pair, Renewals, PromiseUnspent, AuthUnspent,
         GrantedFresh, RefusedIsDead

\* One step per action.
LEMMA TypeStep == TypeOK /\ [Next]_vars => TypeOK'
<1> SUFFICES ASSUME TypeOK, [Next]_vars PROVE TypeOK'
  OBVIOUS
<1> USE DEF TypeOK, Issued, Pair
<1>1. ASSUME NEW c \in Call, NEW t \in Tab, Start(c, t) PROVE TypeOK'
  BY <1>1 DEF Start, refreshVars, serverVars, countVars
<1>2. ASSUME NEW c \in Call, Serve(c) PROVE TypeOK'
  BY <1>2 DEF Serve, RevokedBy, AccessValid, refreshVars, countVars
<1>3. ASSUME NEW c \in Call, FailCall(c) PROVE TypeOK'
  BY <1>3 DEF FailCall, refreshVars, serverVars
<1>4. ASSUME NEW c \in Call, DeliverResult(c) PROVE TypeOK'
  BY <1>4 DEF DeliverResult, refreshVars, serverVars, countVars
<1>5. ASSUME NEW c \in Call, DeliverUnauthorized(c) PROVE TypeOK'
  BY <1>5 DEF DeliverUnauthorized, SendsRefresh, refreshVars, serverVars, countVars
<1>6. ASSUME NEW t \in Tab, ServeRefresh(t) PROVE TypeOK'
  BY <1>6 DEF ServeRefresh, callVars, countVars
<1>7. ASSUME NEW t \in Tab, FailRefresh(t) PROVE TypeOK'
  BY <1>7 DEF FailRefresh, callVars
<1>8. ASSUME NEW t \in Tab, Settle(t) PROVE TypeOK'
  BY <1>8 DEF Settle, SettledAuth, Cleanup, Waiters, serverVars, countVars
<1>9. ASSUME NEW t \in Tab, Login(t) PROVE TypeOK'
  BY <1>9 DEF Login, callVars, refreshVars
<1>10. ASSUME NEW t \in Tab, LoginLoader(t) \/ RequireLogin(t) PROVE TypeOK'
  BY <1>10 DEF LoginLoader, RequireLogin, callVars, refreshVars, serverVars, countVars
<1>11. ASSUME NEW p \in Pair, Expire(p) PROVE TypeOK'
  BY <1>11 DEF Expire, callVars, refreshVars, countVars
<1>12. ASSUME NEW p \in Pair, ExpireRefresh(p) PROVE TypeOK'
  BY <1>12 DEF ExpireRefresh, callVars, refreshVars, countVars
<1>13. CASE UpdateUser
  <2>1. outages \in Nat
    OBVIOUS
  <2>4. outages' = outages \/ outages' = outages + 1
    BY <1>13 DEF UpdateUser
  <2>5. outages' \in Nat
    BY <2>1, <2>4
  <2>6. active' \in BOOLEAN
    BY <1>13, Zenon DEF UpdateUser
  <2>2. revoked' \subseteq 1..issued
    BY <1>13 DEF UpdateUser
  <2>3. UNCHANGED <<auth, page, pc, tab, tok, promise, answer, granted, issued, spent,
                    expired, dead, logins>>
    BY <1>13 DEF UpdateUser, callVars, refreshVars
  <2> QED
    BY <2>2, <2>3, <2>5, <2>6
<1>14. CASE UNCHANGED vars
  BY <1>14 DEF vars, callVars, refreshVars, serverVars, countVars
<1> QED
  BY <1>1, <1>2, <1>3, <1>4, <1>5, <1>6, <1>7, <1>8, <1>9, <1>10, <1>11, <1>12,
     <1>13, <1>14 DEF Next

\* One step per action that touches sessions, promises or answers.
LEMMA RenewalsStep == IInv /\ [Next]_vars => Renewals'
<1> SUFFICES ASSUME IInv, [Next]_vars PROVE Renewals'
  OBVIOUS
<1> USE DEF IInv, TypeOK, Issued, Pair, Renewals, PromiseUnspent, AuthUnspent,
            GrantedFresh, RefusedIsDead
<1>1. ASSUME NEW c \in Call, NEW t \in Tab, Start(c, t) PROVE Renewals'
  BY <1>1 DEF Start, refreshVars, serverVars, countVars
<1>2. ASSUME NEW c \in Call, Serve(c) \/ FailCall(c) PROVE Renewals'
  BY <1>2 DEF Serve, FailCall, refreshVars, serverVars
<1>3. ASSUME NEW c \in Call, DeliverResult(c) PROVE Renewals'
  BY <1>3 DEF DeliverResult, refreshVars, serverVars
<1>4. ASSUME NEW c \in Call, DeliverUnauthorized(c) PROVE Renewals'
  BY <1>4 DEF DeliverUnauthorized, SendsRefresh, refreshVars, serverVars
<1>5. ASSUME NEW t \in Tab, ServeRefresh(t) PROVE Renewals'
  BY <1>5 DEF ServeRefresh, RefreshGranted
<1>6. ASSUME NEW t \in Tab, FailRefresh(t) PROVE Renewals'
  BY <1>6 DEF FailRefresh
<1>7. ASSUME NEW t \in Tab, Settle(t) PROVE Renewals'
  BY <1>7 DEF Settle, SettledAuth, Cleanup, serverVars
<1>8. ASSUME NEW t \in Tab, Login(t) PROVE Renewals'
  BY <1>8 DEF Login, refreshVars
<1>9. ASSUME NEW t \in Tab, LoginLoader(t) \/ RequireLogin(t) PROVE Renewals'
  BY <1>9 DEF LoginLoader, RequireLogin, refreshVars, serverVars
<1>10. ASSUME NEW p \in Pair, Expire(p) \/ ExpireRefresh(p) PROVE Renewals'
  BY <1>10 DEF Expire, ExpireRefresh, refreshVars
<1>11. CASE UpdateUser
  BY <1>11 DEF UpdateUser, refreshVars
<1>12. CASE UNCHANGED vars
  BY <1>12 DEF vars, refreshVars, serverVars
<1> QED
  BY <1>1, <1>2, <1>3, <1>4, <1>5, <1>6, <1>7, <1>8, <1>9, <1>10, <1>11, <1>12 DEF Next

\* Every reachable state of the session is well typed, with any number of
\* tabs and calls.
THEOREM TypeCorrect == Spec => []TypeOK
<1>1. Init => TypeOK
  BY InitIInv DEF IInv
<1> QED
  BY <1>1, TypeStep, PTL DEF Spec

LEMMA Inductive == Spec => []IInv
<1>1. IInv /\ [Next]_vars => IInv'
  BY TypeStep, RenewalsStep DEF IInv
<1> QED
  BY <1>1, InitIInv, PTL DEF Spec

\* However the calls of a tab and the answers to them interleave, the tab does
\* not exchange a refresh token again that it has already exchanged.
THEOREM RefreshedOnce == Spec => RefreshOnce
<1>1. IInv /\ [Next]_vars =>
        [\A t \in Tab : answer[t] = "pending" /\ answer'[t] = "granted"
                          => promise[t] \notin spent[t]]_vars
  BY DEF IInv, Renewals, PromiseUnspent
<1> QED
  BY <1>1, Inductive, PTL DEF Spec, RefreshOnce

\* The stored session is replaced or cleared only by a login, by its own
\* renewal, by a logout, by the expiry of its refresh token, or by an answer
\* that a logout or another tab has overtaken: with any number of tabs, and
\* however many refresh requests fail.
THEOREM SessionIsKept == Spec => SessionKept
<1> DEFINE Kept ==
      auth' # auth =>
          \/ auth' # None /\ logins' # logins
          \/ auth' # None /\ \E t \in Tab : auth' = granted[t] /\ promise[t] = auth
          \/ auth' = None /\ auth \in dead
          \/ auth' = None /\ \E c \in LogoutCall : pc[c] = "ok" /\ pc'[c] = "idle"
          \/ \E t \in Tab : promise[t] \notin {None, auth} /\ promise'[t] = None
<1>1. IInv /\ [Next]_vars => [Kept]_vars
  <2> SUFFICES ASSUME IInv, Next PROVE Kept
    OBVIOUS
  <2> USE DEF IInv, TypeOK, Issued, Pair
  <2>1. ASSUME NEW c \in Call, NEW t \in Tab, Start(c, t) PROVE Kept
    BY <2>1 DEF Start
  <2>2. ASSUME NEW c \in Call, Serve(c) \/ FailCall(c) \/ DeliverUnauthorized(c)
        PROVE  Kept
    BY <2>2 DEF Serve, FailCall, DeliverUnauthorized
  <2>3. ASSUME NEW c \in Call, DeliverResult(c) PROVE Kept
    BY <2>3 DEF DeliverResult
  <2>4. ASSUME NEW t \in Tab, ServeRefresh(t) \/ FailRefresh(t) PROVE Kept
    BY <2>4 DEF ServeRefresh, FailRefresh
  <2>5. ASSUME NEW t \in Tab, Settle(t) PROVE Kept
    <3>1. promise[t] # None /\ promise'[t] = None
      BY <2>5 DEF Settle, Cleanup
    <3>2. CASE promise[t] # auth
      BY <3>1, <3>2
    <3>3. CASE promise[t] = auth /\ answer[t] = "granted"
      BY <2>5, <3>3 DEF Settle, SettledAuth
    <3>4. CASE promise[t] = auth /\ answer[t] = "unauthorized"
      BY <2>5, <3>4 DEF Settle, SettledAuth, Renewals, RefusedIsDead
    <3>5. CASE answer[t] = "error"
      BY <2>5, <3>5 DEF Settle, SettledAuth
    <3> QED
      BY <2>5, <3>2, <3>3, <3>4, <3>5 DEF Settle
  <2>6. ASSUME NEW t \in Tab, Login(t) PROVE Kept
    BY <2>6 DEF Login
  <2>7. ASSUME NEW t \in Tab, LoginLoader(t) \/ RequireLogin(t) PROVE Kept
    BY <2>7 DEF LoginLoader, RequireLogin
  <2>8. ASSUME NEW p \in Pair, Expire(p) \/ ExpireRefresh(p) PROVE Kept
    BY <2>8 DEF Expire, ExpireRefresh
  <2>9. CASE UpdateUser
    BY <2>9 DEF UpdateUser
  <2> QED
    BY <2>1, <2>2, <2>3, <2>4, <2>5, <2>6, <2>7, <2>8, <2>9 DEF Next
<1> QED
  BY <1>1, Inductive, PTL DEF Spec, SessionKept
=============================================================================
