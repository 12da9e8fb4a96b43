-------------------------- MODULE AuthSessionsProofs --------------------------
(* Proofs about AuthSessions. *)
EXTENDS AuthSessions, FiniteSetTheorems, TLAPS

(* Revoking sessions keeps the table well typed. *)
LEMMA RevokeType ==
    ASSUME TypeOK, NEW S
    PROVE  Revoke(S) \in [Session -> SessionRow \cup {Fresh, Gone}]
<1>1. SUFFICES ASSUME NEW s \in Session, s \in S, Live(s)
               PROVE  [sessions[s] EXCEPT !.state = "revoked"] \in SessionRow
  BY DEF Revoke, TypeOK
<1>2. sessions[s] \in SessionRow
  BY <1>1 DEF TypeOK, Live, Fresh, Gone
<1>. QED
  BY <1>2 DEF SessionRow

(* Rotating a session's refresh token keeps its row well typed. *)
LEMMA RotatedRowType ==
    ASSUME NEW row \in SessionRow, NEW p \in Pair, NEW t \in Time
    PROVE  [row EXCEPT !.refresh = p, !.refreshExpiresAt = t] \in SessionRow
BY DEF SessionRow

LEMMA InitType == Init => TypeOK
BY BoundsAssumption
   DEF Init, TypeOK, AccountRow, Fresh, Idle, Limit, Password, Time

(* Every step keeps every variable in its type. *)
LEMMA TypeStep == TypeOK /\ [Next]_vars => TypeOK'
<1> SUFFICES ASSUME TypeOK, [Next]_vars
             PROVE  TypeOK'
  OBVIOUS
<1>1. ASSUME NEW r \in Request, NEW a \in Account, NEW d \in Device,
             NEW pw \in Password, BeginLogin(r, a, d, pw)
      PROVE  TypeOK'
  BY <1>1 DEF TypeOK, BeginLogin, Verifying, AccountRow
<1>2. ASSUME NEW r \in Request, NEW s \in Session, NEW p \in Pair,
             AcceptLogin(r, s, p)
      PROVE  TypeOK'
  <2> DEFINE q == login[r]
  <2>1. q \in Verifying
    BY <1>2 DEF TypeOK, AcceptLogin
  <2>2. [state |-> "live", account |-> q.account, device |-> q.device,
         refresh |-> p, refreshExpiresAt |-> clock + RefreshTtl,
         password |-> q.presented] \in SessionRow
    BY <2>1, TtlAssumption DEF TypeOK, Verifying, SessionRow, Time
  <2>3. AccessToken(s) \in AccessRow
    BY TtlAssumption DEF TypeOK, AccessToken, AccessRow, Time
  <2>. QED
    BY <1>2, <2>2, <2>3, RevokeType DEF TypeOK, AcceptLogin
<1>3. ASSUME NEW r \in Request, RefuseLogin(r)
      PROVE  TypeOK'
  BY <1>3 DEF TypeOK, RefuseLogin
<1>4. ASSUME NEW p \in Pair, Replay(p) \/ Logout(p)
      PROVE  TypeOK'
  BY <1>4, RevokeType DEF TypeOK, Replay, Logout
<1>5. ASSUME NEW s \in Session, NEW p \in Pair, RefreshDisabled(s, p)
      PROVE  TypeOK'
  BY <1>5, RevokeType DEF TypeOK, RefreshDisabled
<1>15. ASSUME NEW s \in Session, NEW p \in Pair, NEW next \in Pair,
              NEW d \in Device, Rotate(s, p, d, next)
       PROVE  TypeOK'
  <2>1. sessions[s] \in SessionRow
    BY <1>15 DEF TypeOK, Rotate, HoldersOf, Stored, Fresh, Gone
  <2>2. [sessions[s] EXCEPT !.refresh = next,
                            !.refreshExpiresAt = clock + RefreshTtl] \in SessionRow
    <3>1. clock + RefreshTtl \in Time
      BY TtlAssumption DEF TypeOK, Time
    <3>. QED
      BY <2>1, <3>1, RotatedRowType
  <2>3. sessions' \in [Session -> SessionRow \cup {Fresh, Gone}]
    <3>. DEFINE t == clock + RefreshTtl
    <3>1. sessions \in [Session -> SessionRow \cup {Fresh, Gone}]
      BY DEF TypeOK
    <3>2. sessions' = [sessions EXCEPT ![s].refresh = next, ![s].refreshExpiresAt = t]
      BY <1>15 DEF Rotate
    <3>3. [sessions[s] EXCEPT !.refresh = next, !.refreshExpiresAt = t] \in SessionRow
      BY <2>2
    <3>. HIDE DEF t
    <3>4. sessions' = [sessions EXCEPT ![s] =
              [sessions[s] EXCEPT !.refresh = next, !.refreshExpiresAt = t]]
      BY <3>1, <3>2
    <3>. QED
      BY <3>1, <3>3, <3>4
  <2>4. AccessToken(s) \in AccessRow
    BY TtlAssumption DEF TypeOK, AccessToken, AccessRow, Time
  <2>. QED
    BY <1>15, <2>3, <2>4 DEF TypeOK, Rotate
<1>6. ASSUME NEW a \in Account, NEW limit \in Limit,
             CreateAccount(a, limit) \/ SetDeviceLimit(a, limit)
      PROVE  TypeOK'
  <2>1. accounts \in [Account -> AccountRow]
    BY DEF TypeOK
  <2>2. accounts' \in [Account -> AccountRow]
    <3>1. CASE CreateAccount(a, limit)
      <4>1. 1 \in Password
        BY BoundsAssumption DEF Password
      <4>. QED
        BY <2>1, <3>1, <4>1 DEF CreateAccount, AccountRow
    <3>2. CASE SetDeviceLimit(a, limit)
      <4>1. [accounts[a] EXCEPT !.limit = limit] \in AccountRow
        BY <2>1 DEF AccountRow
      <4>2. accounts' = [accounts EXCEPT ![a] = [accounts[a] EXCEPT !.limit = limit]]
        BY <2>1, <3>2 DEF SetDeviceLimit
      <4>. QED
        BY <2>1, <4>1, <4>2
    <3>. QED
      BY <1>6, <3>1, <3>2
  <2>. QED
    BY <1>6, <2>2, BoundsAssumption DEF TypeOK, CreateAccount, SetDeviceLimit, Limit
<1>7. ASSUME NEW a \in Account, EnableAccount(a)
      PROVE  TypeOK'
  BY <1>7 DEF TypeOK, EnableAccount, AccountRow
<1>8. ASSUME NEW a \in Account, DisableAccount(a) \/ ResetPassword(a)
      PROVE  TypeOK'
  <2>1. /\ sessions' \in [Session -> SessionRow \cup {Fresh, Gone}]
        /\ login' \in [Request -> Verifying \cup {Idle}]
    BY <1>8, RevokeType DEF TypeOK, DisableAccount, ResetPassword, ThenRevokeAll
  <2>2. accounts' \in [Account -> AccountRow]
    <3>1. CASE DisableAccount(a)
      BY <3>1 DEF TypeOK, DisableAccount, AccountRow
    <3>2. CASE ResetPassword(a)
      <4>1. accounts[a].password + 1 \in Password
        BY <3>2, BoundsAssumption DEF TypeOK, ResetPassword, AccountRow, Password
      <4>. QED
        BY <3>2, <4>1 DEF TypeOK, ResetPassword, AccountRow
    <3>. QED
      BY <1>8, <3>1, <3>2
  <2>. QED
    BY <1>8, <2>1, <2>2 DEF TypeOK, DisableAccount, ResetPassword
<1>9. ASSUME NEW a \in Account, DeleteAccount(a)
      PROVE  TypeOK'
  BY <1>9 DEF TypeOK, DeleteAccount, AccountRow
<1>10. ASSUME NEW a \in Account, RevokeAllSessions(a)
       PROVE  TypeOK'
  BY <1>10, RevokeType DEF TypeOK, RevokeAllSessions
<1>11. ASSUME NEW s \in Session, RevokeSession(s)
       PROVE  TypeOK'
  BY <1>11, RevokeType DEF TypeOK, RevokeSession
<1>12. CASE Tick
  BY <1>12, BoundsAssumption DEF TypeOK, Tick, Time
<1>13. CASE Restart
  BY <1>13 DEF TypeOK, Restart
<1>14. CASE UNCHANGED vars
  BY <1>14 DEF TypeOK, vars
<1>. QED
  BY <1>1, <1>2, <1>3, <1>4, <1>5, <1>6, <1>7, <1>8, <1>9, <1>10, <1>11,
     <1>12, <1>13, <1>14, <1>15 DEF Next

(* The tables of AuthSessions are always well typed. *)
THEOREM TypeCorrect == Spec => []TypeOK
<1>. QED
  BY InitType, TypeStep, PTL DEF Spec

-----------------------------------------------------------------------------
(* What the end of a login may do to the tables. *)

(* only what a login's end may do to the tables, seen from one request *)
EndOfLogin(r) ==
    \/ UNCHANGED <<sessions, access, history>>
    \/ /\ \E s \in Session : sessions[s] = Fresh /\ sessions'[s] # Fresh
       /\ \A s \in Session :
             Live(s) /\ sessions'[s] # sessions[s] =>
                 s \in OnDevice(login[r].account, login[r].device)

(* An accepted login changes no session but its own and its device's. *)
LEMMA AcceptTouches ==
    ASSUME TypeOK, NEW r \in Request, NEW s \in Session, NEW p \in Pair,
           AcceptLogin(r, s, p)
    PROVE  EndOfLogin(r)
<1> DEFINE q == login[r]
           mine == OnDevice(q.account, q.device)
           row == [state |-> "live", account |-> q.account, device |-> q.device,
                   refresh |-> p, refreshExpiresAt |-> clock + RefreshTtl,
                   password |-> q.presented]
<1>1. sessions[s] = Fresh /\ sessions' = [Revoke(mine) EXCEPT ![s] = row]
  BY DEF AcceptLogin
<1>2. sessions'[s] = row
  BY <1>1 DEF Revoke
<1>3. sessions'[s] # Fresh
  <2>1. sessions'[s].state = "live"
    BY <1>2
  <2>. QED
    BY <2>1 DEF Fresh
<1>4. ASSUME NEW t \in Session, Live(t), sessions'[t] # sessions[t]
      PROVE  t \in mine
  <2>1. t # s
    BY <1>1, <1>4 DEF Live, Fresh
  <2>2. sessions'[t] = Revoke(mine)[t]
    BY <1>1, <2>1 DEF Revoke
  <2>. QED
    BY <1>4, <2>2 DEF Revoke
<1>. QED
  BY <1>1, <1>3, <1>4 DEF EndOfLogin

(* No other step ends a login, except with the process. *)
LEMMA LoginsEnd ==
    ASSUME TypeOK, [Next]_vars, NEW r \in Request,
           login[r] # Idle, login'[r] = Idle
    PROVE  EndOfLogin(r)
<1>1. ASSUME NEW q \in Request, NEW a \in Account, NEW d \in Device,
             NEW pw \in Password, BeginLogin(q, a, d, pw)
      PROVE  EndOfLogin(r)
  BY <1>1 DEF BeginLogin, EndOfLogin
<1>2. ASSUME NEW q \in Request, NEW s \in Session, NEW p \in Pair,
             AcceptLogin(q, s, p)
      PROVE  EndOfLogin(r)
  <2>1. q = r
    BY <1>2 DEF TypeOK, AcceptLogin
  <2>. QED
    BY <1>2, <2>1, AcceptTouches
<1>3. ASSUME NEW q \in Request, RefuseLogin(q)
      PROVE  EndOfLogin(r)
  BY <1>3 DEF RefuseLogin, EndOfLogin
<1>4. ASSUME NEW p \in Pair, Replay(p) \/ Logout(p)
      PROVE  FALSE
  BY <1>4 DEF Replay, Logout
<1>5. ASSUME NEW s \in Session, NEW p \in Pair, RefreshDisabled(s, p)
      PROVE  FALSE
  BY <1>5 DEF RefreshDisabled
<1>6. ASSUME NEW s \in Session, NEW p \in Pair, NEW next \in Pair,
             NEW d \in Device, Rotate(s, p, d, next)
      PROVE  FALSE
  BY <1>6 DEF Rotate
<1>7. ASSUME NEW a \in Account, NEW limit \in Limit,
             CreateAccount(a, limit) \/ SetDeviceLimit(a, limit)
      PROVE  FALSE
  BY <1>7 DEF CreateAccount, SetDeviceLimit
<1>8. ASSUME NEW a \in Account, DisableAccount(a) \/ ResetPassword(a)
      PROVE  EndOfLogin(r)
  BY <1>8 DEF DisableAccount, ResetPassword, ThenRevokeAll, EndOfLogin
<1>9. ASSUME NEW a \in Account,
             EnableAccount(a) \/ DeleteAccount(a) \/ RevokeAllSessions(a)
      PROVE  FALSE
  BY <1>9 DEF EnableAccount, DeleteAccount, RevokeAllSessions
<1>10. ASSUME NEW s \in Session, RevokeSession(s)
       PROVE  FALSE
  BY <1>10 DEF RevokeSession
<1>11. CASE Tick
  BY <1>11 DEF Tick
<1>12. CASE Restart
  BY <1>12 DEF Restart, EndOfLogin
<1>13. CASE UNCHANGED vars
  BY <1>13 DEF vars
<1>. QED
  BY <1>1, <1>2, <1>3, <1>4, <1>5, <1>6, <1>7, <1>8, <1>9, <1>10, <1>11,
     <1>12, <1>13 DEF Next

(***************************************************************************)
(* createLoginSession: a login that ends refused, or with the process,     *)
(* changes no table, and one that is accepted revokes the sessions of its  *)
(* own device only.                                                        *)
(***************************************************************************)
THEOREM LoginsKeepToTheirDevice == Spec => LoginTouchesOnlyItsDevice
<1>1. TypeOK /\ [Next]_vars =>
          [\A r \in Request : login[r] # Idle /\ login'[r] = Idle => EndOfLogin(r)]_vars
  BY LoginsEnd
<1>. QED
  BY <1>1, TypeCorrect, PTL DEF Spec, LoginTouchesOnlyItsDevice, EndOfLogin

-----------------------------------------------------------------------------
(***************************************************************************)
(* Tokens, owners and devices.  The three invariants are inductive         *)
(* together: a revocation preserves them because it changes no key and no  *)
(* token, and only AcceptLogin, Rotate and DeleteAccount do more than      *)
(* revoke.                                                                 *)
(***************************************************************************)
TableInv == /\ ReuseIsDetectable
            /\ SessionsHaveOwners
            /\ OneLiveSessionPerDevice

(* Revoking S leaves every column but the state of rows in S. *)
LEMMA RevokedRow ==
    ASSUME TypeOK, NEW S, NEW s \in Session
    PROVE  /\ Revoke(S)[s].state \in {"live", "revoked"} <=> Stored(s)
           /\ Revoke(S)[s].state = "live" <=> Live(s) /\ s \notin S
           /\ Revoke(S)[s] = Fresh <=> sessions[s] = Fresh
           /\ Stored(s) => /\ Revoke(S)[s].account = sessions[s].account
                           /\ Revoke(S)[s].device = sessions[s].device
                           /\ Revoke(S)[s].refresh = sessions[s].refresh
                           /\ Revoke(S)[s].refreshExpiresAt =
                                  sessions[s].refreshExpiresAt
<1>1. CASE s \in S /\ Live(s)
  <2>1. sessions[s] \in SessionRow
    BY <1>1 DEF TypeOK, Live, Fresh, Gone
  <2>2. Revoke(S)[s] = [sessions[s] EXCEPT !.state = "revoked"]
    BY <1>1 DEF Revoke
  <2>. QED
    BY <1>1, <2>1, <2>2 DEF SessionRow, Stored, Live, Fresh
<1>2. CASE ~(s \in S /\ Live(s))
  <2>1. Revoke(S)[s] = sessions[s]
    BY <1>2 DEF Revoke
  <2>. QED
    BY <1>2, <2>1 DEF Stored, Live
<1>. QED
  BY <1>1, <1>2

(* The same of a step that revokes S and does nothing else to the table. *)
LEMMA RevokeRows ==
    ASSUME TypeOK, NEW S, NEW s \in Session, sessions' = Revoke(S)
    PROVE  /\ Stored(s)' <=> Stored(s)
           /\ Live(s)' <=> Live(s) /\ s \notin S
           /\ sessions'[s] = Fresh <=> sessions[s] = Fresh
           /\ Stored(s) => /\ sessions'[s].account = sessions[s].account
                           /\ sessions'[s].device = sessions[s].device
                           /\ sessions'[s].refresh = sessions[s].refresh
                           /\ sessions'[s].refreshExpiresAt =
                                  sessions[s].refreshExpiresAt
BY RevokedRow DEF Stored, Live

(* A step that at most revokes sessions, and takes no account away. *)
LEMMA RevokeTables ==
    ASSUME TypeOK, TableInv, NEW S, sessions' = Revoke(S),
           UNCHANGED <<access, history>>,
           \A a \in Account : Exists(a) => Exists(a)'
    PROVE  TableInv'
<1>1. ReuseIsDetectable'
  <2>1. ASSUME NEW p \in Pair, access[p].state = "stored"
        PROVE  /\ Stored(access[p].session)'
               /\ sessions'[access[p].session].refresh = p <=> history[p] = NoSession
    <3>1. access[p].session \in Session /\ Stored(access[p].session)
      BY <2>1 DEF TypeOK, AccessRow, Fresh, Gone, TableInv, ReuseIsDetectable
    <3>2. /\ Stored(access[p].session)' <=> Stored(access[p].session)
          /\ sessions'[access[p].session].refresh = sessions[access[p].session].refresh
      BY <3>1, RevokeRows
    <3>. QED
      BY <2>1, <3>1, <3>2 DEF TableInv, ReuseIsDetectable
  <2>2. ASSUME NEW s \in Session, Stored(s)'
        PROVE  /\ access[sessions'[s].refresh].state = "stored"
               /\ access[sessions'[s].refresh].session = s
    BY <2>2, RevokeRows DEF TableInv, ReuseIsDetectable
  <2>. QED
    BY <2>1, <2>2 DEF TableInv, ReuseIsDetectable
<1>2. SessionsHaveOwners'
  <2>. SUFFICES ASSUME NEW s \in Session, Stored(s)'
                PROVE  Exists(sessions[s].account)'
    BY DEF SessionsHaveOwners
  <2>1. Stored(s) /\ sessions'[s].account = sessions[s].account
    BY RevokeRows
  <2>2. sessions[s].account \in Account
    BY <2>1 DEF TypeOK, Stored, SessionRow, Fresh, Gone
  <2>. QED
    BY <2>1, <2>2 DEF TableInv, SessionsHaveOwners, Exists
<1>3. OneLiveSessionPerDevice'
  BY RevokeRows DEF TableInv, OneLiveSessionPerDevice, Live, Stored
<1>. QED
  BY <1>1, <1>2, <1>3 DEF TableInv

(* Leaving the table alone is revoking nothing. *)
LEMMA RevokeNothing == TypeOK => sessions = Revoke({})
BY DEF TypeOK, Revoke

(* Accepting a login opens a session with a fresh token on a freed device. *)
LEMMA AcceptTables ==
    ASSUME TypeOK, TableInv, NEW r \in Request, NEW s \in Session,
           NEW p \in Pair, AcceptLogin(r, s, p)
    PROVE  TableInv'
<1> DEFINE q == login[r]
           D == OnDevice(q.account, q.device)
<1>1. q \in Verifying
  BY DEF TypeOK, AcceptLogin
<1>2. /\ sessions'[s].state = "live"
      /\ sessions'[s].account = q.account
      /\ sessions'[s].device = q.device
      /\ sessions'[s].refresh = p
  BY DEF AcceptLogin, Revoke
<1>3. ASSUME NEW t \in Session, t # s
      PROVE  sessions'[t] = Revoke(D)[t]
  BY <1>3 DEF AcceptLogin, Revoke
<1>4. ASSUME NEW t \in Session, t # s
      PROVE  /\ Stored(t)' <=> Stored(t)
             /\ Live(t)' <=> Live(t) /\ t \notin D
             /\ Stored(t) => /\ sessions'[t].account = sessions[t].account
                             /\ sessions'[t].device = sessions[t].device
                             /\ sessions'[t].refresh = sessions[t].refresh
  BY <1>3, <1>4, RevokedRow DEF Stored, Live
<1>5. /\ ~Stored(s) /\ ~Live(s)
      /\ access[p].state # "stored"
      /\ access' = [access EXCEPT ![p] = AccessToken(s)]
      /\ access'[p].state = "stored" /\ access'[p].session = s
      /\ history' = history /\ accounts' = accounts
  BY DEF AcceptLogin, TypeOK, Fresh, Stored, Live, AccessToken
<1>6. ReuseIsDetectable'
  <2>1. ASSUME NEW u \in Pair, access'[u].state = "stored"
        PROVE  /\ Stored(access[u].session)'
               /\ (sessions[access[u].session].refresh = u <=> history[u] = NoSession)'
    <3>1. CASE u = p
      BY <1>2, <1>5, <3>1 DEF Stored, TableInv, ReuseIsDetectable
    <3>2. CASE u # p
      <4>1. /\ access'[u] = access[u]
            /\ access[u].session \in Session
            /\ Stored(access[u].session)
        BY <2>1, <3>2, <1>5
           DEF TypeOK, AccessRow, Fresh, Gone, TableInv, ReuseIsDetectable
      <4>. QED
        BY <2>1, <4>1, <1>4, <1>5 DEF TableInv, ReuseIsDetectable
    <3>. QED
      BY <3>1, <3>2
  <2>2. ASSUME NEW u \in Pair, history'[u] # NoSession
        PROVE  access'[u].state = "stored" /\ access'[u].session = history'[u]
    BY <2>2, <1>5 DEF TypeOK, TableInv, ReuseIsDetectable
  <2>3. ASSUME NEW t \in Session, Stored(t)'
        PROVE  /\ access'[sessions'[t].refresh].state = "stored"
               /\ access'[sessions'[t].refresh].session = t
    <3>1. CASE t = s
      BY <1>2, <1>5, <3>1
    <3>2. CASE t # s
      <4>1. /\ Stored(t) /\ sessions'[t].refresh = sessions[t].refresh
            /\ sessions[t].refresh \in Pair
        BY <2>3, <3>2, <1>4 DEF TypeOK, Stored, SessionRow, Fresh, Gone
      <4>. QED
        BY <4>1, <1>5 DEF TypeOK, TableInv, ReuseIsDetectable
    <3>. QED
      BY <3>1, <3>2
  <2>. QED
    BY <2>1, <2>2, <2>3 DEF ReuseIsDetectable
<1>7. SessionsHaveOwners'
  <2>1. Exists(q.account)
    BY DEF AcceptLogin, Admissible
  <2>. QED
    BY <1>2, <1>4, <1>5, <2>1 DEF TableInv, SessionsHaveOwners, Exists
<1>8. OneLiveSessionPerDevice'
  <2>1. ASSUME NEW t \in Session, t # s, Live(t)'
        PROVE  ~(sessions'[t].account = q.account /\ sessions'[t].device = q.device)
    BY <2>1, <1>4 DEF OnDevice, Live, Stored
  <2>2. ASSUME NEW t \in Session, NEW u \in Session, t # s, u # s,
               Live(t)', Live(u)',
               sessions'[t].account = sessions'[u].account,
               sessions'[t].device = sessions'[u].device
        PROVE  t = u
    BY <2>2, <1>4 DEF TableInv, OneLiveSessionPerDevice, Live, Stored
  <2>. QED
    BY <1>2, <2>1, <2>2 DEF OneLiveSessionPerDevice
<1>. QED
  BY <1>6, <1>7, <1>8 DEF TableInv

(* Rotating moves the presented token into the history of its own session. *)
LEMMA RotateTables ==
    ASSUME TypeOK, TableInv, NEW s \in Session, NEW p \in Pair,
           NEW d \in Device, NEW next \in Pair, Rotate(s, p, d, next)
    PROVE  TableInv'
<1>1. /\ Stored(s) /\ sessions[s] \in SessionRow
      /\ sessions[s].refresh = p
      /\ access[p].state = "stored" /\ access[p].session = s
  BY DEF Rotate, HoldersOf, TypeOK, Stored, Fresh, Gone, TableInv, ReuseIsDetectable
<1>2. /\ access[next].state = "fresh" /\ next # p /\ history[next] = NoSession
      /\ access' = [access EXCEPT ![next] = AccessToken(s)]
      /\ access'[next].state = "stored" /\ access'[next].session = s
      /\ history' = [history EXCEPT ![p] = s]
      /\ accounts' = accounts
  BY <1>1 DEF Rotate, TypeOK, Fresh, AccessToken, TableInv, ReuseIsDetectable
<1>3. /\ sessions'[s].state = sessions[s].state
      /\ sessions'[s].account = sessions[s].account
      /\ sessions'[s].device = sessions[s].device
      /\ sessions'[s].refresh = next
  BY <1>1 DEF Rotate, TypeOK, SessionRow
<1>4. ASSUME NEW t \in Session, t # s
      PROVE  sessions'[t] = sessions[t]
  BY <1>4 DEF Rotate, TypeOK
<1>5. ASSUME NEW t \in Session
      PROVE  /\ Stored(t)' <=> Stored(t)
             /\ Live(t)' <=> Live(t)
             /\ Stored(t) => /\ sessions'[t].account = sessions[t].account
                             /\ sessions'[t].device = sessions[t].device
  BY <1>3, <1>4 DEF Stored, Live
<1>6. ReuseIsDetectable'
  <2>1. ASSUME NEW u \in Pair, access'[u].state = "stored"
        PROVE  /\ Stored(access[u].session)'
               /\ (sessions[access[u].session].refresh = u <=> history[u] = NoSession)'
    <3>1. CASE u = next
      BY <3>1, <1>1, <1>2, <1>3, <1>5
    <3>2. CASE u = p
      BY <3>2, <1>1, <1>2, <1>3, <1>5, NoSessionAssumption DEF TypeOK
    <3>3. CASE u # next /\ u # p
      <4>1. /\ access'[u] = access[u] /\ history'[u] = history[u]
            /\ access[u].session \in Session
            /\ Stored(access[u].session)
        BY <2>1, <3>3, <1>2
           DEF TypeOK, AccessRow, Fresh, Gone, TableInv, ReuseIsDetectable
      <4>2. access[u].session = s => history[u] # NoSession
        BY <2>1, <3>3, <4>1, <1>1 DEF TableInv, ReuseIsDetectable
      <4>. QED
        BY <2>1, <3>3, <4>1, <4>2, <1>3, <1>4, <1>5 DEF TableInv, ReuseIsDetectable
    <3>. QED
      BY <3>1, <3>2, <3>3
  <2>2. ASSUME NEW u \in Pair, history'[u] # NoSession
        PROVE  access'[u].state = "stored" /\ access'[u].session = history'[u]
    BY <2>2, <1>1, <1>2 DEF TypeOK, TableInv, ReuseIsDetectable
  <2>3. ASSUME NEW t \in Session, Stored(t)'
        PROVE  /\ access'[sessions'[t].refresh].state = "stored"
               /\ access'[sessions'[t].refresh].session = t
    <3>1. CASE t = s
      BY <1>2, <1>3, <3>1
    <3>2. CASE t # s
      <4>1. /\ Stored(t) /\ sessions'[t].refresh = sessions[t].refresh
            /\ sessions[t].refresh \in Pair
        BY <2>3, <3>2, <1>4, <1>5 DEF TypeOK, Stored, SessionRow, Fresh, Gone
      <4>. QED
        BY <4>1, <1>2 DEF TypeOK, TableInv, ReuseIsDetectable
    <3>. QED
      BY <3>1, <3>2
  <2>. QED
    BY <2>1, <2>2, <2>3 DEF ReuseIsDetectable
<1>7. SessionsHaveOwners'
  BY <1>2, <1>5 DEF TableInv, SessionsHaveOwners, Exists
<1>8. OneLiveSessionPerDevice'
  BY <1>5 DEF TableInv, OneLiveSessionPerDevice, Live, Stored
<1>. QED
  BY <1>6, <1>7, <1>8 DEF TableInv

(* Deleting an account takes its sessions, tokens and history with it. *)
LEMMA DeleteTables ==
    ASSUME TypeOK, TableInv, NEW a \in Account, DeleteAccount(a)
    PROVE  TableInv'
<1>1. ASSUME NEW s \in Session
      PROVE  /\ s \in SessionsOf(a) => sessions'[s] = Gone
             /\ s \notin SessionsOf(a) => sessions'[s] = sessions[s]
             /\ Stored(s)' <=> Stored(s) /\ sessions[s].account # a
             /\ Stored(s)' => sessions'[s] = sessions[s]
             /\ Live(s)' => Live(s)
  BY DEF DeleteAccount, SessionsOf, Stored, Live, Gone
<1>2. ASSUME NEW p \in Pair
      PROVE  /\ access'[p].state = "stored" =>
                   access'[p] = access[p] /\ access[p].session \notin SessionsOf(a)
             /\ access[p].state = "stored" /\ access[p].session \notin SessionsOf(a)
                   => access'[p] = access[p]
             /\ history'[p] # NoSession =>
                   history'[p] = history[p] /\ history[p] \notin SessionsOf(a)
             /\ history[p] \notin SessionsOf(a) => history'[p] = history[p]
  BY DEF DeleteAccount, Gone
<1>3. ReuseIsDetectable'
  <2>1. ASSUME NEW p \in Pair, access'[p].state = "stored"
        PROVE  /\ Stored(access[p].session)'
               /\ (sessions[access[p].session].refresh = p <=> history[p] = NoSession)'
    <3>1. /\ access'[p] = access[p]
          /\ access[p].session \in Session \ SessionsOf(a)
          /\ Stored(access[p].session)
      BY <2>1, <1>2 DEF TypeOK, AccessRow, Fresh, Gone, TableInv, ReuseIsDetectable
    <3>2. sessions'[access[p].session] = sessions[access[p].session]
      BY <3>1, <1>1
    <3>3. history[p] \notin SessionsOf(a)
      BY <3>1, NoSessionAssumption DEF TableInv, ReuseIsDetectable, SessionsOf
    <3>. QED
      BY <2>1, <3>1, <3>2, <3>3, <1>2 DEF TableInv, ReuseIsDetectable, Stored
  <2>2. ASSUME NEW p \in Pair, history'[p] # NoSession
        PROVE  access'[p].state = "stored" /\ access'[p].session = history'[p]
    BY <2>2, <1>2 DEF TableInv, ReuseIsDetectable
  <2>3. ASSUME NEW s \in Session, Stored(s)'
        PROVE  /\ access'[sessions'[s].refresh].state = "stored"
               /\ access'[sessions'[s].refresh].session = s
    <3>1. /\ Stored(s) /\ s \notin SessionsOf(a) /\ sessions'[s] = sessions[s]
          /\ sessions[s].refresh \in Pair
      BY <2>3, <1>1 DEF SessionsOf, TypeOK, Stored, SessionRow, Fresh, Gone
    <3>. QED
      BY <3>1, <1>2 DEF TableInv, ReuseIsDetectable
  <2>. QED
    BY <2>1, <2>2, <2>3 DEF ReuseIsDetectable
<1>4. SessionsHaveOwners'
  <2>. SUFFICES ASSUME NEW s \in Session, Stored(s)'
                PROVE  Exists(sessions[s].account)'
    BY DEF SessionsHaveOwners
  <2>1. /\ Stored(s) /\ sessions'[s] = sessions[s] /\ sessions[s].account # a
        /\ sessions[s].account \in Account
    BY <1>1 DEF TypeOK, Stored, SessionRow, Fresh, Gone
  <2>2. accounts'[sessions[s].account] = accounts[sessions[s].account]
    BY <2>1 DEF DeleteAccount, TypeOK
  <2>. QED
    BY <2>1, <2>2 DEF TableInv, SessionsHaveOwners, Exists
<1>5. OneLiveSessionPerDevice'
  BY <1>1 DEF TableInv, OneLiveSessionPerDevice, Live, Stored
<1>. QED
  BY <1>3, <1>4, <1>5 DEF TableInv

LEMMA InitTables == Init => TableInv
BY DEF Init, TableInv, ReuseIsDetectable, SessionsHaveOwners,
       OneLiveSessionPerDevice, Stored, Live, Fresh

LEMMA TableStep == TypeOK /\ TableInv /\ [Next]_vars => TableInv'
<1> SUFFICES ASSUME TypeOK, TableInv, [Next]_vars
             PROVE  TableInv'
  OBVIOUS
<1>1. ASSUME NEW r \in Request, NEW s \in Session, NEW p \in Pair,
             AcceptLogin(r, s, p)
      PROVE  TableInv'
  BY <1>1, AcceptTables
<1>2. ASSUME NEW s \in Session, NEW p \in Pair, NEW next \in Pair,
             NEW d \in Device, Rotate(s, p, d, next)
      PROVE  TableInv'
  BY <1>2, RotateTables
<1>3. ASSUME NEW a \in Account, DeleteAccount(a)
      PROVE  TableInv'
  BY <1>3, DeleteTables
<1>4. ASSUME NEW p \in Pair, Replay(p) \/ Logout(p)
      PROVE  TableInv'
  BY <1>4, RevokeTables DEF Replay, Logout, Exists
<1>5. ASSUME NEW s \in Session, NEW p \in Pair, RefreshDisabled(s, p)
      PROVE  TableInv'
  BY <1>5, RevokeTables DEF RefreshDisabled, Exists
<1>13. ASSUME NEW s \in Session, RevokeSession(s)
       PROVE  TableInv'
  BY <1>13, RevokeTables DEF RevokeSession, Exists
<1>6. ASSUME NEW a \in Account, RevokeAllSessions(a)
      PROVE  TableInv'
  BY <1>6, RevokeTables DEF RevokeAllSessions, Exists
<1>7. ASSUME NEW a \in Account, DisableAccount(a) \/ ResetPassword(a)
      PROVE  TableInv'
  <2>1. PICK S : sessions' = Revoke(S)
    BY <1>7, RevokeNothing DEF DisableAccount, ResetPassword, ThenRevokeAll
  <2>2. \A b \in Account : Exists(b) => Exists(b)'
    BY <1>7 DEF DisableAccount, ResetPassword, TypeOK, AccountRow, Exists
  <2>. QED
    BY <1>7, <2>1, <2>2, RevokeTables DEF DisableAccount, ResetPassword
<1>8. ASSUME NEW a \in Account, NEW limit \in Limit,
             CreateAccount(a, limit) \/ SetDeviceLimit(a, limit)
      PROVE  TableInv'
  <2>1. \A b \in Account : Exists(b) => Exists(b)'
    BY <1>8 DEF CreateAccount, SetDeviceLimit, TypeOK, AccountRow, Exists
  <2>. QED
    BY <1>8, <2>1, RevokeNothing, RevokeTables DEF CreateAccount, SetDeviceLimit
<1>9. ASSUME NEW a \in Account, EnableAccount(a)
      PROVE  TableInv'
  <2>1. \A b \in Account : Exists(b) => Exists(b)'
    BY <1>9 DEF EnableAccount, TypeOK, AccountRow, Exists
  <2>. QED
    BY <1>9, <2>1, RevokeNothing, RevokeTables DEF EnableAccount
<1>10. ASSUME NEW r \in Request, NEW a \in Account, NEW d \in Device,
              NEW pw \in Password, BeginLogin(r, a, d, pw)
       PROVE  TableInv'
  BY <1>10, RevokeNothing, RevokeTables DEF BeginLogin, Exists
<1>11. ASSUME NEW r \in Request, RefuseLogin(r)
       PROVE  TableInv'
  BY <1>11, RevokeNothing, RevokeTables DEF RefuseLogin, Exists
<1>12. CASE Tick \/ Restart \/ UNCHANGED vars
  BY <1>12, RevokeNothing, RevokeTables DEF Tick, Restart, vars, Exists
<1>. QED
  BY <1>1, <1>2, <1>3, <1>4, <1>5, <1>6, <1>7, <1>8, <1>9, <1>10, <1>11, <1>12,
     <1>13 DEF Next

LEMMA TablesHold == Spec => []TableInv
BY InitTables, TableStep, TypeCorrect, PTL DEF Spec

(***************************************************************************)
(* Every token ever issued for a session that still has a row is the       *)
(* current one or recorded as spent, under its own session.                *)
(***************************************************************************)
THEOREM ReuseDetectable == Spec => []ReuseIsDetectable
<1>1. TableInv => ReuseIsDetectable
  BY DEF TableInv
<1>. QED
  BY <1>1, TablesHold, PTL

(***************************************************************************)
(* However many logins of one device overlap, at most one of the sessions  *)
(* they open is live.                                                      *)
(***************************************************************************)
THEOREM OneLivePerDevice == Spec => []OneLiveSessionPerDevice
<1>1. TableInv => OneLiveSessionPerDevice
  BY DEF TableInv
<1>. QED
  BY <1>1, TablesHold, PTL

(* No session row outlives its account. *)
THEOREM OwnersExist == Spec => []SessionsHaveOwners
<1>1. TableInv => SessionsHaveOwners
  BY DEF TableInv
<1>. QED
  BY <1>1, TablesHold, PTL

-----------------------------------------------------------------------------
(***************************************************************************)
(* The device limit.  A login in flight holds a limit that some            *)
(* administrator once set; no limit in force exceeds the largest one.      *)
(***************************************************************************)
LimitInv ==
    /\ DeviceLimitHolds
    /\ \A r \in Request :
          login[r] # Idle => login[r].limit <= granted[login[r].account]
    /\ \A a \in Account :
          /\ Exists(a) => accounts[a].limit <= granted[a]
          /\ accounts[a].status = "absent" => granted[a] = 0

(* Sets of sessions are finite, and a subset has at most as many members. *)
LEMMA FewerSessions ==
    ASSUME NEW S \in SUBSET Session, NEW T \in SUBSET S
    PROVE  /\ IsFiniteSet(T)
           /\ Cardinality(S) \in Nat
           /\ Cardinality(T) \in Nat
           /\ Cardinality(T) <= Cardinality(S)
<1>1. IsFiniteSet(S)
  BY SessionsFinite, FS_Subset
<1>2. IsFiniteSet(T) /\ Cardinality(T) <= Cardinality(S)
  BY <1>1, FS_Subset
<1>. QED
  BY <1>1, <1>2, FS_CardinalityType

LEMMA OneMoreSession ==
    ASSUME NEW S, NEW s, IsFiniteSet(S), Cardinality(S) \in Nat
    PROVE  Cardinality(S \cup {s}) <= Cardinality(S) + 1
<1>1. Cardinality(S \cup {s}) = IF s \in S THEN Cardinality(S) ELSE Cardinality(S) + 1
  BY FS_AddElement
<1>. QED
  BY <1>1

(* A step after which no account has a new active session or a lower peak. *)
LEMMA LimitShrinks ==
    ASSUME TypeOK, TypeOK', LimitInv,
           \A a \in Account : Active(a, clock)' \subseteq Active(a, clock),
           \A a \in Account : granted[a] <= granted'[a]
    PROVE  DeviceLimitHolds'
<1>. SUFFICES ASSUME NEW a \in Account
              PROVE  (Cardinality(Active(a, clock)) <= granted[a])'
  BY DEF DeviceLimitHolds
<1>1. Active(a, clock) \in SUBSET Session
  BY DEF Active
<1>2. Active(a, clock)' \in SUBSET Active(a, clock)
  OBVIOUS
<1>3. /\ Cardinality(Active(a, clock)) \in Nat
      /\ Cardinality(Active(a, clock)') \in Nat
      /\ Cardinality(Active(a, clock)') <= Cardinality(Active(a, clock))
  BY <1>1, <1>2, FewerSessions
<1>4. Cardinality(Active(a, clock)) <= granted[a]
  BY DEF LimitInv, DeviceLimitHolds
<1>5. granted[a] \in Nat /\ granted'[a] \in Nat /\ granted[a] <= granted'[a]
  BY DEF TypeOK
<1>. QED
  BY <1>3, <1>4, <1>5

(* Revoking makes no session active. *)
LEMMA RevokeShrinks ==
    ASSUME TypeOK, NEW S, sessions' = Revoke(S), clock' = clock,
           NEW a \in Account
    PROVE  Active(a, clock)' \subseteq Active(a, clock)
<1>. SUFFICES ASSUME NEW s \in Session, Live(s)', sessions'[s].account = a,
                     sessions'[s].refreshExpiresAt > clock
              PROVE  /\ Live(s) /\ sessions[s].account = a
                     /\ sessions[s].refreshExpiresAt > clock
  BY DEF Active
<1>. QED
  BY RevokeRows DEF Live, Stored

(* Accepting a login fills a place that the limit it read left free. *)
LEMMA AcceptLimit ==
    ASSUME TypeOK, TypeOK', LimitInv, NEW r \in Request, NEW s \in Session,
           NEW p \in Pair, AcceptLogin(r, s, p)
    PROVE  DeviceLimitHolds'
<1> DEFINE q == login[r]
           D == OnDevice(q.account, q.device)
<1>1. q \in Verifying /\ q # Idle
  BY DEF TypeOK, AcceptLogin
<1>2. ASSUME NEW t \in Session, t # s, NEW a \in Account,
             Live(t)', sessions'[t].account = a, sessions'[t].refreshExpiresAt > clock
      PROVE  t \in Active(a, clock) \ D
  <2>1. sessions'[t] = Revoke(D)[t]
    BY <1>2 DEF AcceptLogin, Revoke
  <2>2. Live(t) /\ t \notin D
    BY <1>2, <2>1, RevokedRow DEF Live
  <2>. QED
    BY <1>2, <2>1, <2>2, RevokedRow DEF Active, Live, Stored
<1>3. clock' = clock /\ granted' = granted /\ sessions'[s].account = q.account
  BY DEF AcceptLogin, Revoke
<1>. SUFFICES ASSUME NEW a \in Account
              PROVE  (Cardinality(Active(a, clock)) <= granted[a])'
  BY DEF DeviceLimitHolds
<1>4. CASE a # q.account
  <2>1. Active(a, clock)' \in SUBSET Active(a, clock)
    BY <1>2, <1>3, <1>4 DEF Active
  <2>2. Active(a, clock) \in SUBSET Session
    BY DEF Active
  <2>3. Cardinality(Active(a, clock)) <= granted[a] /\ granted[a] \in Nat
    BY DEF LimitInv, DeviceLimitHolds, TypeOK
  <2>. QED
    BY <2>1, <2>2, <2>3, <1>3, FewerSessions
<1>5. CASE a = q.account
  <2> DEFINE Others == OtherDevices(q)
  <2>1. Others \in SUBSET Session
    BY DEF OtherDevices, Active
  <2>2. Active(a, clock)' \in SUBSET (Others \cup {s})
    BY <1>2, <1>3, <1>5 DEF Active, OtherDevices
  <2>3. IsFiniteSet(Others) /\ Cardinality(Others) \in Nat
    BY <2>1, FewerSessions
  <2>4. Cardinality(Others \cup {s}) <= Cardinality(Others) + 1
    BY <2>3, OneMoreSession
  <2>5. Cardinality(Others) < q.limit /\ q.limit <= granted[a]
    BY <1>1, <1>5 DEF AcceptLogin, Admissible, LimitInv
  <2>6. /\ Cardinality(Active(a, clock)') \in Nat
        /\ Cardinality(Others \cup {s}) \in Nat
        /\ Cardinality(Active(a, clock)') <= Cardinality(Others \cup {s})
    BY <2>1, <2>2, FewerSessions
  <2>7. q.limit \in Nat /\ granted[a] \in Nat
    BY <1>1, BoundsAssumption DEF TypeOK, Verifying, Limit
  <2>. QED
    BY <2>3, <2>4, <2>5, <2>6, <2>7, <1>3
<1>. QED
  BY <1>4, <1>5

LEMMA InitLimit == Init => LimitInv
<1>. SUFFICES ASSUME Init
              PROVE  LimitInv
  OBVIOUS
<1>1. \A a \in Account : Active(a, clock) = {}
  BY DEF Init, Active, Live, Fresh
<1>. QED
  BY <1>1, FS_EmptySet DEF Init, LimitInv, DeviceLimitHolds, Exists

LEMMA LimitStep == TypeOK /\ TypeOK' /\ TableInv /\ LimitInv /\ [Next]_vars => LimitInv'
<1> SUFFICES ASSUME TypeOK, TypeOK', TableInv, LimitInv, [Next]_vars
             PROVE  LimitInv'
  OBVIOUS
<1> USE DEF LimitInv
<1>1. ASSUME NEW r \in Request, NEW a \in Account, NEW d \in Device,
             NEW pw \in Password, BeginLogin(r, a, d, pw)
      PROVE  LimitInv'
  <2>1. DeviceLimitHolds'
    BY <1>1 DEF BeginLogin, DeviceLimitHolds, Active, Live
  <2>. QED
    BY <1>1, <2>1 DEF BeginLogin, Exists, TypeOK, AccountRow, Verifying
<1>2. ASSUME NEW r \in Request, NEW s \in Session, NEW p \in Pair,
             AcceptLogin(r, s, p)
      PROVE  LimitInv'
  BY <1>2, AcceptLimit DEF AcceptLogin, Exists, TypeOK
<1>3. ASSUME NEW r \in Request, RefuseLogin(r)
      PROVE  LimitInv'
  BY <1>3 DEF RefuseLogin, Exists, TypeOK, DeviceLimitHolds, Active, Live
<1>4. ASSUME NEW S, sessions' = Revoke(S), UNCHANGED <<accounts, login, clock, granted>>
      PROVE  LimitInv'
  <2>1. \A a \in Account : granted[a] <= granted'[a]
    BY <1>4 DEF TypeOK
  <2>2. DeviceLimitHolds'
    BY <1>4, <2>1, RevokeShrinks, LimitShrinks
  <2>. QED
    BY <1>4, <2>2 DEF Exists
<1>5. ASSUME NEW p \in Pair, Replay(p) \/ Logout(p)
      PROVE  LimitInv'
  BY <1>4, <1>5 DEF Replay, Logout
<1>6. ASSUME NEW s \in Session, NEW p \in Pair, RefreshDisabled(s, p)
      PROVE  LimitInv'
  BY <1>4, <1>6 DEF RefreshDisabled
<1>7. ASSUME NEW s \in Session, NEW p \in Pair, NEW next \in Pair,
             NEW d \in Device, Rotate(s, p, d, next)
      PROVE  LimitInv'
  <2>1. ASSUME NEW t \in Session, t # s
        PROVE  sessions'[t] = sessions[t]
    BY <1>7, <2>1 DEF Rotate, TypeOK
  <2>2. /\ sessions'[s].account = sessions[s].account
        /\ Live(s) /\ sessions[s].refreshExpiresAt > clock
        /\ clock' = clock /\ granted' = granted
    BY <1>7 DEF Rotate, Rotatable, TypeOK, Live, Fresh, Gone, SessionRow
  <2>3. \A a \in Account : Active(a, clock)' \subseteq Active(a, clock)
    BY <2>1, <2>2 DEF Active, Live
  <2>4. DeviceLimitHolds'
    BY <2>2, <2>3, LimitShrinks DEF TypeOK
  <2>. QED
    BY <1>7, <2>4 DEF Rotate, Exists
<1>8. ASSUME NEW a \in Account, NEW limit \in Limit, CreateAccount(a, limit)
      PROVE  LimitInv'
  <2>1. Active(a, clock)' = {}
    BY <1>8 DEF CreateAccount, Active, Live, Stored, TableInv, SessionsHaveOwners, Exists
  <2>2. Cardinality(Active(a, clock)') = 0
    BY <2>1, FS_EmptySet
  <2>3. \A b \in Account : b # a => Active(b, clock)' = Active(b, clock)
    BY <1>8 DEF CreateAccount, Active, Live
  <2>4. DeviceLimitHolds'
    BY <1>8, <2>2, <2>3, BoundsAssumption DEF CreateAccount, DeviceLimitHolds, TypeOK, Limit
  <2>5. \A r \in Request : login[r] # Idle => login[r].limit <= granted'[login[r].account]
    <3>. SUFFICES ASSUME NEW r \in Request, login[r] # Idle
                  PROVE  login[r].limit <= granted'[login[r].account]
      OBVIOUS
    <3>1. login[r] \in Verifying /\ login[r].limit > 0
      BY BoundsAssumption DEF TypeOK, Verifying, Limit
    <3>2. login[r].account # a
      BY <1>8, <3>1, BoundsAssumption DEF CreateAccount, Verifying, Limit
    <3>. QED
      BY <1>8, <3>1, <3>2 DEF CreateAccount, TypeOK, Verifying
  <2>. QED
    BY <1>8, <2>4, <2>5 DEF CreateAccount, Exists, TypeOK
<1>9. ASSUME NEW a \in Account, NEW limit \in Limit, SetDeviceLimit(a, limit)
      PROVE  LimitInv'
  <2>1. limit \in Nat
    BY BoundsAssumption DEF Limit
  <2>2. \A b \in Account : granted[b] <= granted'[b]
    BY <1>9, <2>1 DEF SetDeviceLimit, TypeOK
  <2>3. \A b \in Account : Active(b, clock)' = Active(b, clock)
    BY <1>9 DEF SetDeviceLimit, Active, Live
  <2>4. DeviceLimitHolds'
    BY <2>2, <2>3, LimitShrinks
  <2>5. \A r \in Request : login[r] # Idle => login[r].limit <= granted'[login[r].account]
    <3>. SUFFICES ASSUME NEW r \in Request, login[r] # Idle
                  PROVE  login[r].limit <= granted'[login[r].account]
      OBVIOUS
    <3>1. login[r] \in Verifying
      BY DEF TypeOK
    <3>2. /\ login[r].limit \in Nat
          /\ granted[login[r].account] \in Nat
          /\ granted'[login[r].account] \in Nat
      BY <3>1, BoundsAssumption DEF TypeOK, Verifying, Limit
    <3>. QED
      BY <2>2, <3>1, <3>2 DEF Verifying
  <2>6. \A b \in Account :
           /\ Exists(b)' => accounts'[b].limit <= granted'[b]
           /\ accounts'[b].status = "absent" => granted'[b] = 0
    <3>1. CASE limit > granted[a]
      BY <1>9, <3>1, <2>1, BoundsAssumption DEF SetDeviceLimit, Exists, TypeOK, AccountRow
    <3>2. CASE ~(limit > granted[a])
      BY <1>9, <3>2, <2>1, BoundsAssumption DEF SetDeviceLimit, Exists, TypeOK, AccountRow
    <3>. QED
      BY <3>1, <3>2
  <2>. QED
    BY <1>9, <2>4, <2>5, <2>6 DEF SetDeviceLimit
<1>10. ASSUME NEW a \in Account, EnableAccount(a)
       PROVE  LimitInv'
  <2>1. DeviceLimitHolds'
    BY <1>10 DEF EnableAccount, DeviceLimitHolds, Active, Live
  <2>. QED
    BY <1>10, <2>1 DEF EnableAccount, Exists, TypeOK, AccountRow
<1>11. ASSUME NEW a \in Account, DisableAccount(a) \/ ResetPassword(a)
       PROVE  LimitInv'
  <2>1. PICK S : sessions' = Revoke(S)
    BY <1>11, RevokeNothing DEF DisableAccount, ResetPassword, ThenRevokeAll
  <2>2. clock' = clock /\ granted' = granted
    BY <1>11 DEF DisableAccount, ResetPassword
  <2>3. DeviceLimitHolds'
    BY <2>1, <2>2, RevokeShrinks, LimitShrinks DEF TypeOK
  <2>4. \A r \in Request : login'[r] = login[r] \/ login'[r] = Idle
    BY <1>11 DEF DisableAccount, ResetPassword, ThenRevokeAll
  <2>5. \A b \in Account :
           /\ Exists(b)' => accounts'[b].limit <= granted'[b]
           /\ accounts'[b].status = "absent" => granted'[b] = 0
    BY <1>11 DEF DisableAccount, ResetPassword, Exists, TypeOK, AccountRow
  <2>. QED
    BY <2>2, <2>3, <2>4, <2>5
<1>12. ASSUME NEW a \in Account, DeleteAccount(a)
       PROVE  LimitInv'
  <2>1. \A b \in Account : Active(b, clock)' \subseteq Active(b, clock)
    BY <1>12 DEF DeleteAccount, Active, Live, Gone
  <2>2. DeviceLimitHolds'
    BY <1>12, <2>1, LimitShrinks DEF DeleteAccount, TypeOK
  <2>. QED
    BY <1>12, <2>2 DEF DeleteAccount, Exists, TypeOK, AccountRow
<1>13. ASSUME NEW a \in Account, RevokeAllSessions(a)
       PROVE  LimitInv'
  BY <1>4, <1>13 DEF RevokeAllSessions
<1>14. ASSUME NEW s \in Session, RevokeSession(s)
       PROVE  LimitInv'
  BY <1>4, <1>14 DEF RevokeSession
<1>15. CASE Tick
  <2>1. \A a \in Account : Active(a, clock)' \subseteq Active(a, clock)
    BY <1>15 DEF Tick, Active, Live, TypeOK, SessionRow, Fresh, Gone, Time
  <2>2. DeviceLimitHolds'
    BY <1>15, <2>1, LimitShrinks DEF Tick, TypeOK
  <2>. QED
    BY <1>15, <2>2 DEF Tick, Exists
<1>16. CASE Restart
  BY <1>16 DEF Restart, DeviceLimitHolds, Active, Live, Exists
<1>17. CASE UNCHANGED vars
  BY <1>17 DEF vars, DeviceLimitHolds, Active, Live, Exists
<1>. QED
  BY <1>1, <1>2, <1>3, <1>5, <1>6, <1>7, <1>8, <1>9, <1>10, <1>11, <1>12,
     <1>13, <1>14, <1>15, <1>16, <1>17 DEF Next

(***************************************************************************)
(* No interleaving of logins, refreshes and changes of the limit gives an  *)
(* account more active sessions than the largest limit it ever had.        *)
(***************************************************************************)
THEOREM DeviceLimit == Spec => []DeviceLimitHolds
<1>1. LimitInv => DeviceLimitHolds
  BY DEF LimitInv
<1>2. Spec => []LimitInv
  BY InitLimit, LimitStep, TypeCorrect, TablesHold, PTL DEF Spec
<1>. QED
  BY <1>1, <1>2, PTL

-----------------------------------------------------------------------------
(***************************************************************************)
(* Who can call the API is counted against the device limit, provided that *)
(* an access token's lifetime is no longer than a refresh token's.         *)
(***************************************************************************)
ExpiryInv ==
    /\ \A p \in Pair : access[p].state = "stored" =>
          access[p].expiresAt <= sessions[access[p].session].refreshExpiresAt
    /\ \A s \in Session : Stored(s) =>
          sessions[s].refreshExpiresAt <= clock + RefreshTtl

LEMMA ExpiryStep ==
    ASSUME AccessTtl <= RefreshTtl, TypeOK, TableInv, ExpiryInv, [Next]_vars
    PROVE  ExpiryInv'
<1>1. ASSUME NEW p \in Pair, access[p].state = "stored"
      PROVE  access[p].session \in Session /\ Stored(access[p].session)
  BY <1>1 DEF TypeOK, AccessRow, Fresh, Gone, TableInv, ReuseIsDetectable
<1>2. ASSUME NEW S, sessions' = Revoke(S), access' = access, clock' = clock
      PROVE  ExpiryInv'
  BY <1>1, <1>2, RevokeRows DEF ExpiryInv
<1>3. ASSUME NEW r \in Request, NEW s \in Session, NEW p \in Pair,
             AcceptLogin(r, s, p)
      PROVE  ExpiryInv'
  <2> DEFINE D == OnDevice(login[r].account, login[r].device)
  <2>1. /\ sessions'[s].refreshExpiresAt = clock + RefreshTtl
        /\ access'[p].session = s /\ access'[p].expiresAt = clock + AccessTtl
        /\ clock + AccessTtl <= clock + RefreshTtl
        /\ clock' = clock
    BY <1>3, TtlAssumption DEF AcceptLogin, AccessToken, TypeOK, Revoke, Time
  <2>2. ASSUME NEW t \in Session, t # s
        PROVE  sessions'[t] = Revoke(D)[t]
    BY <1>3, <2>2 DEF AcceptLogin, Revoke
  <2>3. ASSUME NEW q \in Pair, q # p, access'[q].state = "stored"
        PROVE  access'[q].expiresAt <= sessions'[access'[q].session].refreshExpiresAt
    <3>1. access'[q] = access[q]
      BY <1>3, <2>3 DEF AcceptLogin, TypeOK
    <3>2. Stored(access[q].session) /\ access[q].session \in Session \ {s}
      BY <1>3, <2>3, <3>1, <1>1 DEF AcceptLogin, Stored, Fresh
    <3>. QED
      BY <2>2, <2>3, <3>1, <3>2, RevokedRow DEF ExpiryInv
  <2>4. ASSUME NEW t \in Session, t # s, Stored(t)'
        PROVE  sessions'[t].refreshExpiresAt <= clock + RefreshTtl
    BY <2>2, <2>4, RevokedRow DEF ExpiryInv, Stored
  <2>5. sessions'[s].refreshExpiresAt <= clock + RefreshTtl
    BY <2>1, TtlAssumption DEF TypeOK, Time
  <2>. QED
    BY <2>1, <2>3, <2>4, <2>5 DEF ExpiryInv
<1>4. ASSUME NEW s \in Session, NEW p \in Pair, NEW next \in Pair,
             NEW d \in Device, Rotate(s, p, d, next)
      PROVE  ExpiryInv'
  <2>1. /\ sessions'[s].refreshExpiresAt = clock + RefreshTtl
        /\ access'[next].session = s /\ access'[next].expiresAt = clock + AccessTtl
        /\ clock + AccessTtl <= clock + RefreshTtl
        /\ clock' = clock
    BY <1>4, TtlAssumption
       DEF Rotate, HoldersOf, Stored, AccessToken, TypeOK, SessionRow, Time, Fresh, Gone
  <2>2. ASSUME NEW t \in Session, t # s
        PROVE  sessions'[t] = sessions[t]
    BY <1>4, <2>2 DEF Rotate, TypeOK
  <2>3. ASSUME NEW q \in Pair, q # next, access'[q].state = "stored"
        PROVE  access'[q].expiresAt <= sessions'[access'[q].session].refreshExpiresAt
    <3>1. access'[q] = access[q] /\ access[q].session \in Session
      BY <1>4, <2>3, <1>1 DEF Rotate, TypeOK
    <3>2. access[q].expiresAt <= sessions[access[q].session].refreshExpiresAt
      BY <2>3, <3>1 DEF ExpiryInv
    <3>3. CASE access[q].session # s
      BY <2>2, <3>1, <3>2, <3>3
    <3>4. CASE access[q].session = s
      <4>1. sessions[s] \in SessionRow /\ access[q] \in AccessRow
        BY <1>4, <2>3, <3>1 DEF Rotate, HoldersOf, Stored, TypeOK, Fresh, Gone
      <4>2. sessions[s].refreshExpiresAt \in Nat /\ access[q].expiresAt \in Nat
        BY <4>1 DEF SessionRow, AccessRow, Time
      <4>3. sessions[s].refreshExpiresAt <= clock + RefreshTtl
        BY <1>4 DEF ExpiryInv, Rotate, HoldersOf
      <4>. QED
        BY <2>1, <3>1, <3>2, <3>4, <4>2, <4>3, TtlAssumption DEF TypeOK, Time
    <3>. QED
      BY <3>3, <3>4
  <2>4. ASSUME NEW t \in Session, Stored(t)'
        PROVE  sessions'[t].refreshExpiresAt <= clock + RefreshTtl
    <3>1. CASE t = s
      BY <2>1, <3>1, TtlAssumption DEF TypeOK, Time
    <3>2. CASE t # s
      BY <2>2, <2>4, <3>2 DEF ExpiryInv, Stored
    <3>. QED
      BY <3>1, <3>2
  <2>. QED
    BY <2>1, <2>3, <2>4 DEF ExpiryInv
<1>5. ASSUME NEW a \in Account, DeleteAccount(a)
      PROVE  ExpiryInv'
  <2>1. ASSUME NEW p \in Pair, access'[p].state = "stored"
        PROVE  access'[p].expiresAt <= sessions'[access'[p].session].refreshExpiresAt
    <3>1. access'[p] = access[p] /\ access[p].session \notin SessionsOf(a)
      BY <1>5, <2>1 DEF DeleteAccount, Gone
    <3>2. sessions'[access[p].session] = sessions[access[p].session]
      BY <2>1, <3>1, <1>1, <1>5 DEF DeleteAccount
    <3>. QED
      BY <2>1, <3>1, <3>2 DEF ExpiryInv
  <2>2. ASSUME NEW s \in Session, Stored(s)'
        PROVE  sessions'[s].refreshExpiresAt <= clock + RefreshTtl
    BY <1>5, <2>2 DEF DeleteAccount, ExpiryInv, Stored, Gone
  <2>. QED
    BY <1>5, <2>1, <2>2 DEF DeleteAccount, ExpiryInv
<1>6. CASE Tick
  <2>1. ASSUME NEW s \in Session, Stored(s)
        PROVE  sessions[s].refreshExpiresAt <= clock + 1 + RefreshTtl
    <3>1. sessions[s] \in SessionRow
      BY <2>1 DEF TypeOK, Stored, Fresh, Gone
    <3>2. sessions[s].refreshExpiresAt \in Nat
      BY <3>1 DEF SessionRow, Time
    <3>3. sessions[s].refreshExpiresAt <= clock + RefreshTtl
      BY <2>1 DEF ExpiryInv
    <3>. QED
      BY <3>2, <3>3, TtlAssumption DEF TypeOK, Time
  <2>. QED
    BY <1>6, <2>1 DEF Tick, ExpiryInv, Stored
<1>7. ASSUME UNCHANGED <<sessions, access, clock>>
      PROVE  ExpiryInv'
  BY <1>7 DEF ExpiryInv, Stored
<1>8. ASSUME NEW a \in Account, DisableAccount(a) \/ ResetPassword(a)
      PROVE  ExpiryInv'
  BY <1>2, <1>7, <1>8 DEF DisableAccount, ResetPassword, ThenRevokeAll
<1>9. \/ UNCHANGED <<sessions, access, clock>>
      \/ \E S : sessions' = Revoke(S) /\ access' = access /\ clock' = clock
      \/ \E r \in Request, s \in Session, p \in Pair : AcceptLogin(r, s, p)
      \/ \E s \in Session, p, next \in Pair, d \in Device : Rotate(s, p, d, next)
      \/ \E a \in Account : DeleteAccount(a)
      \/ \E a \in Account : DisableAccount(a) \/ ResetPassword(a)
      \/ Tick
  BY DEF Next, vars, BeginLogin, RefuseLogin, Replay, Logout, RefreshDisabled,
         CreateAccount, SetDeviceLimit, EnableAccount, RevokeAllSessions,
         RevokeSession, Restart
<1>. QED
  BY <1>2, <1>3, <1>4, <1>5, <1>6, <1>7, <1>8, <1>9

(***************************************************************************)
(* Every session whose access tokens are accepted is one of the sessions   *)
(* the device limit counts.                                                *)
(***************************************************************************)
THEOREM AccessCounted ==
    ASSUME AccessTtl <= RefreshTtl
    PROVE  Spec => []AccessIsCounted
<1>1. Init => ExpiryInv
  BY DEF Init, ExpiryInv, Stored, Fresh
<1>2. TypeOK /\ TableInv /\ ExpiryInv /\ [Next]_vars => ExpiryInv'
  BY ExpiryStep
<1>3. TypeOK /\ ExpiryInv => AccessIsCounted
  <2>. SUFFICES ASSUME TypeOK, ExpiryInv, NEW p \in Pair, Authenticates(p)
                PROVE  access[p].session \in
                          Active(sessions[access[p].session].account, clock)
    BY DEF AccessIsCounted
  <2>1. access[p] \in AccessRow /\ Live(access[p].session)
    BY DEF Authenticates, TypeOK, Fresh, Gone
  <2>2. access[p].session \in Session /\ access[p].expiresAt \in Nat
    BY <2>1 DEF AccessRow, Time
  <2>3. sessions[access[p].session] \in SessionRow
    BY <2>1, <2>2 DEF TypeOK, Live, Fresh, Gone
  <2>4. sessions[access[p].session].refreshExpiresAt \in Nat
    BY <2>3 DEF SessionRow, Time
  <2>5. access[p].expiresAt <= sessions[access[p].session].refreshExpiresAt
    BY DEF ExpiryInv, Authenticates
  <2>. QED
    BY <2>1, <2>2, <2>4, <2>5 DEF Authenticates, Active, TypeOK, Time
<1>. QED
  BY <1>1, <1>2, <1>3, TypeCorrect, TablesHold, PTL DEF Spec

-----------------------------------------------------------------------------
(***************************************************************************)
(* Sessions implement token families.  A step of AuthSessions opens one    *)
(* family (closing those of its device), redeems a token, or closes a      *)
(* possibly empty set of families; what it needs of the tables is that a   *)
(* stored session's token was issued, and to that session alone.           *)
(***************************************************************************)
LEMMA TokensAreTheirOwn ==
    ASSUME TableInv, NEW s \in Session, Stored(s)
    PROVE  /\ access[sessions[s].refresh].state = "stored"
           /\ access[sessions[s].refresh].session = s
           /\ access[sessions[s].refresh] # Fresh
BY DEF TableInv, ReuseIsDetectable, Fresh

LEMMA RedeemablePairs ==
    ASSUME TypeOK, NEW s \in Session
    PROVE  Redeemable(s) \in SUBSET Pair
BY DEF TypeOK, Redeemable, Live, SessionRow, Fresh, Gone

(* A step that ends the sessions in F and touches no other live one. *)
LEMMA ClosingStep ==
    ASSUME TypeOK, TypeOK', TableInv, NEW F \in SUBSET Session,
           \A s \in Session :
               /\ s \in F => Live(s) /\ ~Live(s)'
               /\ s \notin F => /\ Live(s)' <=> Live(s)
                                /\ Live(s) => sessions'[s].refresh = sessions[s].refresh
               /\ sessions'[s] = Fresh <=> sessions[s] = Fresh,
           \A p \in Pair : access'[p] = Fresh <=> access[p] = Fresh
    PROVE  Families!Next
<1>1. \A s \in F : FamilyStatus(s) # "unborn"
  BY DEF FamilyStatus, Live, Fresh
<1>2. \A s \in Session :
         FamilyStatus(s)' = IF s \in F THEN "closed" ELSE FamilyStatus(s)
  BY DEF FamilyStatus, Live, Fresh
<1>3. \A s \in Session :
         Redeemable(s)' = IF s \in F THEN {} ELSE Redeemable(s)
  BY DEF Redeemable
<1>4. ASSUME NEW p \in Pair
      PROVE  (access'[p] # Fresh /\ \A s \in Session : p \notin Redeemable(s)')
             <=> \/ access[p] # Fresh /\ \A s \in Session : p \notin Redeemable(s)
                 \/ \E s \in F : p \in Redeemable(s)
  <2>1. ASSUME NEW s \in F, p \in Redeemable(s)
        PROVE  access'[p] # Fresh /\ \A t \in Session : p \notin Redeemable(t)'
    <3>1. Live(s) /\ p = sessions[s].refresh
      BY <2>1 DEF Redeemable
    <3>2. access[p] # Fresh /\ access[p].session = s
      BY <3>1, TokensAreTheirOwn DEF Live, Stored
    <3>3. ASSUME NEW t \in Session, t \notin F
          PROVE  p \notin Redeemable(t)
      BY <3>2, <3>3, TokensAreTheirOwn DEF Redeemable, Live, Stored
    <3>. QED
      BY <3>2, <3>3, <1>3
  <2>. QED
    BY <2>1, <1>3
<1>5. SpentTokens' = SpentTokens \cup UNION {Redeemable(s) : s \in F}
  BY <1>4, RedeemablePairs DEF SpentTokens
<1>6. Families!Lost(F) = UNION {Redeemable(s) : s \in F}
  BY DEF Families!Lost
<1>7. Families!Close(F)
  BY <1>1, <1>2, <1>3, <1>5, <1>6 DEF Families!Close
<1>. QED
  BY <1>7 DEF Families!Next

(* Opening a session opens a family with a token nobody has seen. *)
LEMMA AcceptOpens ==
    ASSUME TypeOK, TypeOK', TableInv, NEW r \in Request, NEW s \in Session,
           NEW p \in Pair, AcceptLogin(r, s, p)
    PROVE  Families!Next
<1> DEFINE F == OnDevice(login[r].account, login[r].device)
<1>1. /\ F \in SUBSET Session /\ s \notin F
      /\ sessions[s] = Fresh /\ ~Live(s) /\ access[p] = Fresh
      /\ \A t \in F : Live(t)
      /\ access' = [access EXCEPT ![p] = AccessToken(s)]
      /\ sessions'[s].state = "live" /\ sessions'[s].refresh = p
  BY DEF AcceptLogin, OnDevice, Live, Fresh, Revoke
<1>2. ASSUME NEW t \in Session, t # s
      PROVE  /\ Live(t)' <=> Live(t) /\ t \notin F
             /\ sessions'[t] = Fresh <=> sessions[t] = Fresh
             /\ Live(t) => sessions'[t].refresh = sessions[t].refresh
  <2>1. sessions'[t] = Revoke(F)[t]
    BY <1>2 DEF AcceptLogin, Revoke
  <2>. QED
    BY <2>1, RevokedRow DEF Live, Stored
<1>3. \A t \in Session :
         FamilyStatus(t)' = IF t = s THEN "live"
                            ELSE IF t \in F THEN "closed" ELSE FamilyStatus(t)
  BY <1>1, <1>2 DEF FamilyStatus, Live, Fresh
<1>4. \A t \in Session :
         Redeemable(t)' = IF t = s THEN {p}
                          ELSE IF t \in F THEN {} ELSE Redeemable(t)
  BY <1>1, <1>2 DEF Redeemable, Live
<1>5. \A t \in Session : p \notin Redeemable(t)
  BY <1>1, TokensAreTheirOwn DEF Redeemable, Live, Stored
<1>6. access'[p] # Fresh /\ \A q \in Pair : q # p => access'[q] = access[q]
  BY <1>1 DEF TypeOK, AccessToken, Fresh
<1>7. ASSUME NEW q \in Pair
      PROVE  (access'[q] # Fresh /\ \A t \in Session : q \notin Redeemable(t)')
             <=> \/ access[q] # Fresh /\ \A t \in Session : q \notin Redeemable(t)
                 \/ \E t \in F : q \in Redeemable(t)
  <2>1. ASSUME NEW t \in F, q \in Redeemable(t)
        PROVE  access'[q] # Fresh /\ \A u \in Session : q \notin Redeemable(u)'
    <3>1. Live(t) /\ q = sessions[t].refresh
      BY <2>1 DEF Redeemable
    <3>2. access[q] # Fresh /\ access[q].session = t
      BY <1>1, <3>1, TokensAreTheirOwn DEF Live, Stored
    <3>3. ASSUME NEW u \in Session, u \notin F
          PROVE  q \notin Redeemable(u)
      BY <3>2, <3>3, TokensAreTheirOwn DEF Redeemable, Live, Stored
    <3>. QED
      BY <3>2, <3>3, <1>1, <1>4, <1>6
  <2>2. CASE q = p
    BY <2>2, <1>1, <1>4, <1>5
  <2>3. CASE q # p
    BY <2>1, <2>3, <1>1, <1>4, <1>6 DEF Redeemable
  <2>. QED
    BY <2>2, <2>3
<1> HIDE DEF F
<1>8. Families!Open(s, p, F)
  <2>1. FamilyStatus(s) = "unborn" /\ \A g \in F : FamilyStatus(g) = "live"
    BY <1>1 DEF FamilyStatus, Live, Fresh
  <2>2. Families!Unused(p)
    BY <1>1, <1>5 DEF Families!Unused, SpentTokens
  <2>3. SpentTokens' = SpentTokens \cup UNION {Redeemable(t) : t \in F}
    BY <1>1, <1>7, RedeemablePairs DEF SpentTokens
  <2>4. Families!Lost(F) = UNION {Redeemable(t) : t \in F}
    BY <1>1 DEF Families!Lost
  <2>. QED
    BY <1>1, <1>3, <1>4, <2>1, <2>2, <2>3, <2>4 DEF Families!Open
<1>. QED
  BY <1>1, <1>8 DEF Families!Next

(* Rotating a refresh token redeems it for one nobody has seen. *)
LEMMA RotateRedeems ==
    ASSUME TypeOK, TypeOK', TableInv, NEW s \in Session, NEW p \in Pair,
           NEW d \in Device, NEW next \in Pair, Rotate(s, p, d, next)
    PROVE  Families!Next
<1>1. /\ Live(s) /\ Stored(s) /\ sessions[s] \in SessionRow
      /\ sessions[s].refresh = p
      /\ access[next] = Fresh
      /\ access' = [access EXCEPT ![next] = AccessToken(s)]
  BY DEF Rotate, Rotatable, HoldersOf, TypeOK, Stored, Live, Fresh, Gone
<1>2. /\ sessions'[s].state = "live" /\ sessions'[s].refresh = next
      /\ \A t \in Session : t # s => sessions'[t] = sessions[t]
  BY <1>1 DEF Rotate, TypeOK, SessionRow, Live
<1>3. access[p] # Fresh /\ access[p].session = s /\ p # next
  BY <1>1, TokensAreTheirOwn
<1>4. \A t \in Session : next \notin Redeemable(t)
  BY <1>1, TokensAreTheirOwn DEF Redeemable, Live, Stored
<1>5. \A t \in Session : t # s => p \notin Redeemable(t)
  BY <1>3, TokensAreTheirOwn DEF Redeemable, Live, Stored
<1>6. \A t \in Session : FamilyStatus(t)' = FamilyStatus(t)
  BY <1>1, <1>2 DEF FamilyStatus, Live, Fresh
<1>7. \A t \in Session : Redeemable(t)' = IF t = s THEN {next} ELSE Redeemable(t)
  BY <1>2 DEF Redeemable, Live
<1>8. access'[next] # Fresh /\ \A q \in Pair : q # next => access'[q] = access[q]
  BY <1>1 DEF TypeOK, AccessToken, Fresh
<1>9. ASSUME NEW q \in Pair
      PROVE  (access'[q] # Fresh /\ \A t \in Session : q \notin Redeemable(t)')
             <=> \/ access[q] # Fresh /\ \A t \in Session : q \notin Redeemable(t)
                 \/ q = p
  <2>1. CASE q = next
    BY <2>1, <1>1, <1>3, <1>7
  <2>2. CASE q = p
    BY <2>2, <1>3, <1>5, <1>7, <1>8
  <2>3. CASE q # next /\ q # p
    BY <2>3, <1>1, <1>7, <1>8 DEF Redeemable
  <2>. QED
    BY <2>1, <2>2, <2>3
<1>10. Families!Redeem(s, p, next)
  <2>1. FamilyStatus(s) = "live" /\ p \in Redeemable(s)
    BY <1>1 DEF FamilyStatus, Redeemable, Live, Fresh
  <2>2. Families!Unused(next)
    BY <1>1, <1>4 DEF Families!Unused, SpentTokens
  <2>. QED
    BY <1>6, <1>7, <1>9, <2>1, <2>2 DEF Families!Redeem, SpentTokens
<1>. QED
  BY <1>10 DEF Families!Next

LEMMA RevokeCloses ==
    ASSUME TypeOK, TypeOK', TableInv, NEW S, sessions' = Revoke(S), access' = access
    PROVE  Families!Next
<1> DEFINE F == {s \in Session : Live(s) /\ s \in S}
<1>1. ASSUME NEW s \in Session
      PROVE  /\ s \in F => Live(s) /\ ~Live(s)'
             /\ s \notin F => /\ Live(s)' <=> Live(s)
                              /\ Live(s) => sessions'[s].refresh = sessions[s].refresh
             /\ sessions'[s] = Fresh <=> sessions[s] = Fresh
  BY RevokeRows DEF Live, Stored
<1>2. F \in SUBSET Session
  OBVIOUS
<1> HIDE DEF F
<1>. QED
  BY <1>1, <1>2, ClosingStep

LEMMA DeleteCloses ==
    ASSUME TypeOK, TypeOK', TableInv, NEW a \in Account, DeleteAccount(a)
    PROVE  Families!Next
<1> DEFINE F == {s \in Session : Live(s) /\ s \in SessionsOf(a)}
<1>1. ASSUME NEW s \in Session
      PROVE  /\ s \in F => Live(s) /\ ~Live(s)'
             /\ s \notin F => /\ Live(s)' <=> Live(s)
                              /\ Live(s) => sessions'[s].refresh = sessions[s].refresh
             /\ sessions'[s] = Fresh <=> sessions[s] = Fresh
  BY DEF DeleteAccount, SessionsOf, Stored, Live, Fresh, Gone
<1>2. ASSUME NEW p \in Pair
      PROVE  access'[p] = Fresh <=> access[p] = Fresh
  BY DEF DeleteAccount, Fresh, Gone
<1>3. F \in SUBSET Session
  OBVIOUS
<1> HIDE DEF F
<1>. QED
  BY <1>1, <1>2, <1>3, ClosingStep

LEMMA RefinementStep ==
    TypeOK /\ TypeOK' /\ TableInv /\ [Next]_vars => [Families!Next]_(Families!vars)
<1> SUFFICES ASSUME TypeOK, TypeOK', TableInv, [Next]_vars
             PROVE  Families!Next \/ UNCHANGED Families!vars
  OBVIOUS
<1>1. ASSUME UNCHANGED <<sessions, access>>
      PROVE  UNCHANGED Families!vars
  BY <1>1 DEF Families!vars, FamilyStatus, Redeemable, SpentTokens, Live
<1>2. ASSUME NEW a \in Account, DisableAccount(a) \/ ResetPassword(a)
      PROVE  Families!Next \/ UNCHANGED Families!vars
  <2>1. PICK S : sessions' = Revoke(S)
    BY <1>2, RevokeNothing DEF DisableAccount, ResetPassword, ThenRevokeAll
  <2>. QED
    BY <1>2, <2>1, RevokeCloses DEF DisableAccount, ResetPassword
<1>3. \/ UNCHANGED <<sessions, access>>
      \/ \E S : sessions' = Revoke(S) /\ access' = access
      \/ \E r \in Request, s \in Session, p \in Pair : AcceptLogin(r, s, p)
      \/ \E s \in Session, p, next \in Pair, d \in Device : Rotate(s, p, d, next)
      \/ \E a \in Account : DeleteAccount(a)
      \/ \E a \in Account : DisableAccount(a) \/ ResetPassword(a)
  BY DEF Next, vars, BeginLogin, RefuseLogin, Replay, Logout, RefreshDisabled,
         CreateAccount, SetDeviceLimit, EnableAccount, RevokeAllSessions,
         RevokeSession, Tick, Restart
<1>. QED
  BY <1>1, <1>2, <1>3, RevokeCloses, DeleteCloses, AcceptOpens, RotateRedeems

LEMMA RefinementInit == Init => Families!Init
BY DEF Init, Families!Init, FamilyStatus, Redeemable, SpentTokens, Live, Fresh

(***************************************************************************)
(* Whatever happens to accounts, passwords, devices and the clock, the     *)
(* sessions behave as token families: no refresh token is redeemed twice   *)
(* and no revoked session comes back.                                      *)
(***************************************************************************)
THEOREM FamiliesImplemented == Spec => ImplementsFamilies
<1>1. Spec => Families!Init /\ [][Families!Next]_(Families!vars)
  BY RefinementInit, RefinementStep, TypeCorrect, TablesHold, PTL DEF Spec
<1>. QED
  BY <1>1 DEF ImplementsFamilies, Families!Spec

(* what a token was spent for stays spent, and what was closed stays closed *)
SpentForGood ==
    /\ SpentTokens \subseteq SpentTokens'
    /\ \A s \in Session : FamilyStatus(s) = "closed" => FamilyStatus(s)' = "closed"

(***************************************************************************)
(* Said of the tables themselves: a refresh token that was rotated away,   *)
(* or whose session was revoked or deleted, is never redeemable again, and *)
(* rotateSession and createLoginSession bring no such session back.        *)
(***************************************************************************)
THEOREM TokensAreSpentForGood == Spec => [][SpentForGood]_vars
<1>1. TypeOK /\ TypeOK' /\ TableInv /\ [Next]_vars => [SpentForGood]_vars
  <2>. SUFFICES ASSUME TypeOK, TypeOK', TableInv, [Next]_vars
                PROVE  SpentForGood
    OBVIOUS
  <2>. DEFINE now == [s \in Session |-> FamilyStatus(s)]
  <2>1. CASE Families!Next
    <3>1. SpentTokens \subseteq SpentTokens'
      BY <2>1 DEF Families!Next, Families!Open, Families!Redeem, Families!Close
    <3>2. \A s \in Session : now[s] = "closed" => now'[s] = "closed"
      BY <2>1 DEF Families!Next, Families!Open, Families!Redeem, Families!Close
    <3>. QED
      BY <3>1, <3>2 DEF SpentForGood
  <2>2. CASE UNCHANGED Families!vars
    <3>1. SpentTokens' = SpentTokens /\ now' = now
      BY <2>2 DEF Families!vars
    <3>2. \A s \in Session : FamilyStatus(s)' = now'[s] /\ FamilyStatus(s) = now[s]
      OBVIOUS
    <3>. QED
      BY <3>1, <3>2 DEF SpentForGood
  <2>. QED
    BY <2>1, <2>2, RefinementStep
<1>. QED
  BY <1>1, TypeCorrect, TablesHold, PTL DEF Spec

-----------------------------------------------------------------------------
(***************************************************************************)
(* How a session comes to outlive a password reset or the end of its       *)
(* account's access.  Superseded: opened with a password that is not the   *)
(* account's; barred: of a disabled account.                               *)
(***************************************************************************)
Superseded(s) ==
    Live(s) /\ sessions[s].password # accounts[sessions[s].account].password

Barred(s) == Live(s) /\ accounts[sessions[s].account].status = "disabled"

(* the end of a login that read its account before the change *)
LoginInFlight(s, Read(_)) ==
    /\ sessions[s] = Fresh
    /\ \E r \in Request :
          /\ login[r] # Idle /\ login'[r] = Idle
          /\ login[r].account = sessions'[s].account
          /\ Read(login[r])

(* the service died between its two statements, and every login with it *)
DiedMidway ==
    /\ KilledMidway
    /\ UNCHANGED sessions
    /\ \A r \in Request : login'[r] = Idle

OldPassword(q) == q.password # accounts[q.account].password
StillEnabled(q) == q.enabled /\ accounts[q.account].status = "disabled"

OnlyInFlight ==
    \A s \in Session :
        /\ Superseded(s)' /\ ~Superseded(s) => LoginInFlight(s, OldPassword) \/ DiedMidway
        /\ Barred(s)' /\ ~Barred(s) => LoginInFlight(s, StillEnabled) \/ DiedMidway

(* a live session that was there is the one of the same account and password *)
Kept(s) ==
    Live(s)' => /\ Live(s)
                /\ sessions'[s].account = sessions[s].account
                /\ sessions'[s].password = sessions[s].password

LEMMA RevokedKept ==
  ASSUME TypeOK, NEW S, NEW s \in Session, Revoke(S)[s].state = "live"
  PROVE  Live(s) /\ s \notin S /\ Revoke(S)[s] = sessions[s]
<1>1. Live(s) /\ s \notin S
  BY RevokedRow
<1>. QED
  BY <1>1 DEF Revoke

LEMMA LiveOwner ==
  ASSUME TypeOK, NEW s \in Session, Live(s)
  PROVE  sessions[s] \in SessionRow /\ sessions[s].account \in Account
BY DEF TypeOK, Live, SessionRow, Fresh, Gone

LEMMA KeptUnderSameAccounts ==
  ASSUME NEW s \in Session, Kept(s),
         Live(s)' => LET a == sessions[s].account IN
                     /\ accounts'[a].password = accounts[a].password
                     /\ accounts'[a].status = "disabled" => accounts[a].status = "disabled"
  PROVE  (Superseded(s)' => Superseded(s)) /\ (Barred(s)' => Barred(s))
BY DEF Kept, Superseded, Barred

(* what revokes and leaves the accounts alone *)
LEMMA RevokingKeeps ==
  ASSUME TypeOK, NEW S, sessions' = Revoke(S), UNCHANGED accounts
  PROVE  OnlyInFlight
<1>1. \A s \in Session : Kept(s)
  BY RevokedKept DEF Kept, Live
<1>. QED
  BY <1>1, KeptUnderSameAccounts DEF OnlyInFlight

(* disabling and resetting revoke all sessions of the account, or die first *)
LEMMA ChangesRevoke ==
  ASSUME TypeOK, NEW a \in Account, DisableAccount(a) \/ ResetPassword(a)
  PROVE  OnlyInFlight
<1>1. \A b \in Account \ {a} : accounts'[b] = accounts[b]
  BY DEF TypeOK, DisableAccount, ResetPassword
<1>2. CASE sessions' = Revoke(SessionsOf(a))
  <2>. SUFFICES ASSUME NEW s \in Session
                PROVE  (Superseded(s)' => Superseded(s)) /\ (Barred(s)' => Barred(s))
    BY DEF OnlyInFlight
  <2>1. Live(s)' => Live(s) /\ s \notin SessionsOf(a) /\ sessions'[s] = sessions[s]
    BY <1>2, RevokedKept DEF Live
  <2>2. Live(s)' => sessions[s].account \in Account \ {a}
    BY <2>1, LiveOwner DEF SessionsOf, Stored, Live
  <2>. QED
    BY <1>1, <2>1, <2>2, KeptUnderSameAccounts DEF Kept
<1>3. CASE KilledMidway /\ login' = [r \in Request |-> Idle] /\ UNCHANGED sessions
  BY <1>3 DEF OnlyInFlight, DiedMidway
<1>. QED
  BY <1>2, <1>3 DEF DisableAccount, ResetPassword, ThenRevokeAll

(* a login that is accepted opens one session, with what it had read *)
LEMMA AcceptedInFlight ==
  ASSUME TypeOK, NEW r \in Request, NEW s \in Session, NEW p \in Pair, AcceptLogin(r, s, p)
  PROVE  OnlyInFlight
<1>. DEFINE q == login[r]
            row == [state |-> "live", account |-> q.account, device |-> q.device,
                    refresh |-> p, refreshExpiresAt |-> clock + RefreshTtl,
                    password |-> q.presented]
<1>1. /\ q # Idle /\ login'[r] = Idle /\ UNCHANGED accounts /\ sessions[s] = Fresh
      /\ q.presented = q.password /\ q.enabled
      /\ sessions' = [Revoke(OnDevice(q.account, q.device)) EXCEPT ![s] = row]
  BY DEF AcceptLogin, Verified, TypeOK
<1>2. /\ sessions'[s].state = "live" /\ sessions'[s].account = q.account
      /\ sessions'[s].password = q.password
  BY <1>1 DEF Revoke
<1>3. \A t \in Session \ {s} : sessions'[t] = Revoke(OnDevice(q.account, q.device))[t]
  BY <1>1 DEF Revoke
<1>. HIDE DEF row
<1>4. ASSUME NEW t \in Session \ {s}
      PROVE  (Superseded(t)' => Superseded(t)) /\ (Barred(t)' => Barred(t))
  <2>1. Kept(t)
    BY <1>3, RevokedKept DEF Kept, Live
  <2>. QED
    BY <1>1, <2>1, KeptUnderSameAccounts
<1>5. Superseded(s)' => LoginInFlight(s, OldPassword)
  BY <1>1, <1>2 DEF Superseded, LoginInFlight, OldPassword
<1>6. Barred(s)' => LoginInFlight(s, StillEnabled)
  BY <1>1, <1>2 DEF Barred, LoginInFlight, StillEnabled
<1>. QED
  BY <1>4, <1>5, <1>6 DEF OnlyInFlight

LEMMA RotatedInFlight ==
  ASSUME TypeOK, NEW s \in Session, NEW p \in Pair, NEW d \in Device, NEW next \in Pair,
         Rotate(s, p, d, next)
  PROVE  OnlyInFlight
<1>1. /\ sessions' = [sessions EXCEPT ![s].refresh = next,
                                      ![s].refreshExpiresAt = clock + RefreshTtl]
      /\ Live(s) /\ UNCHANGED accounts
  BY DEF Rotate, Rotatable
<1>2. sessions[s] \in SessionRow
  BY <1>1, LiveOwner
<1>3. \A t \in Session \ {s} : sessions'[t] = sessions[t]
  BY <1>1 DEF TypeOK
<1>4. sessions'[s] = [[sessions[s] EXCEPT !.refresh = next]
                        EXCEPT !.refreshExpiresAt = clock + RefreshTtl]
  BY <1>1 DEF TypeOK
<1>5. sessions'[s].account = sessions[s].account /\ sessions'[s].password = sessions[s].password
  BY <1>2, <1>4 DEF SessionRow
<1>6. \A t \in Session : Kept(t)
  BY <1>1, <1>3, <1>5 DEF Kept, Live
<1>. QED
  BY <1>1, <1>6, KeptUnderSameAccounts DEF OnlyInFlight

(* the administrator's other commands *)
LEMMA CommandsInFlight ==
  ASSUME TypeOK, TableInv, NEW a \in Account,
         \/ \E limit \in Limit : CreateAccount(a, limit) \/ SetDeviceLimit(a, limit)
         \/ EnableAccount(a) \/ DeleteAccount(a)
  PROVE  OnlyInFlight
<1>1. accounts \in [Account -> AccountRow] /\ \A b \in Account \ {a} : accounts'[b] = accounts[b]
  BY DEF TypeOK, CreateAccount, SetDeviceLimit, EnableAccount, DeleteAccount
<1>2. ASSUME NEW s \in Session, Live(s)'
      PROVE  /\ Live(s) /\ sessions'[s] = sessions[s]
             /\ DeleteAccount(a) => sessions[s].account # a
  <2>1. CASE DeleteAccount(a)
    <3>1. s \notin SessionsOf(a) /\ sessions'[s] = sessions[s]
      BY <1>2, <2>1 DEF DeleteAccount, Live, Gone
    <3>. QED
      BY <1>2, <3>1 DEF Live, Stored, SessionsOf
  <2>2. CASE ~DeleteAccount(a)
    BY <1>2, <2>2 DEF CreateAccount, SetDeviceLimit, EnableAccount, Live
  <2>. QED
    BY <2>1, <2>2
<1>3. ASSUME NEW s \in Session, Live(s)'
      PROVE  LET b == sessions[s].account IN
             /\ accounts'[b].password = accounts[b].password
             /\ accounts'[b].status = "disabled" => accounts[b].status = "disabled"
  <2>1. Live(s) /\ sessions[s].account \in Account
    BY <1>2, <1>3, LiveOwner
  <2>2. Exists(sessions[s].account)
    BY <2>1 DEF TableInv, SessionsHaveOwners, Stored, Live
  <2>3. CASE sessions[s].account # a
    BY <1>1, <2>1, <2>3
  <2>4. CASE sessions[s].account = a
    <3>1. ~DeleteAccount(a)
      BY <1>2, <1>3, <2>4
    <3>2. ASSUME NEW limit, CreateAccount(a, limit) PROVE FALSE
      BY <2>2, <2>4, <3>2 DEF CreateAccount, Exists
    <3>3. accounts[a] \in AccountRow
      BY <1>1
    <3>4. CASE EnableAccount(a)
      <4>1. accounts'[a] = [accounts[a] EXCEPT !.status = "enabled"]
        BY <1>1, <3>4 DEF EnableAccount
      <4>. QED
        BY <2>4, <3>3, <4>1 DEF AccountRow
    <3>5. ASSUME NEW limit, SetDeviceLimit(a, limit)
          PROVE  /\ accounts'[a].password = accounts[a].password
                 /\ accounts'[a].status = accounts[a].status
      <4>1. accounts'[a] = [accounts[a] EXCEPT !.limit = limit]
        BY <1>1, <3>5 DEF SetDeviceLimit
      <4>. QED
        BY <3>3, <4>1 DEF AccountRow
    <3>. QED
      BY <2>4, <3>1, <3>2, <3>4, <3>5
  <2>. QED
    BY <2>3, <2>4
<1>4. \A s \in Session : Kept(s)
  BY <1>2 DEF Kept
<1>. QED
  BY <1>3, <1>4, KeptUnderSameAccounts DEF OnlyInFlight

(***************************************************************************)
(* resetPassword and setAccountEnabled leave one way out each: a login     *)
(* that had read the account, and was waiting for scrypt, when they ran.   *)
(* No rotation, no other command and no restart lets a session past them,  *)
(* unless the process dies between their two statements.                   *)
(***************************************************************************)
THEOREM OnlyLoginsInFlightEscape == Spec => [][OnlyInFlight]_vars
<1>1. TypeOK /\ TableInv /\ [Next]_vars => [OnlyInFlight]_vars
  <2>. SUFFICES ASSUME TypeOK, TableInv, [Next]_vars PROVE OnlyInFlight \/ UNCHANGED vars
    OBVIOUS
  <2>1. CASE UNCHANGED <<sessions, accounts>>
    BY <2>1, RevokeNothing, RevokingKeeps
  <2>2. CASE UNCHANGED accounts /\ \E S : sessions' = Revoke(S)
    BY <2>2, RevokingKeeps
  <2>3. \/ UNCHANGED <<sessions, accounts>>
        \/ UNCHANGED accounts /\ \E S : sessions' = Revoke(S)
        \/ \E r \in Request, s \in Session, p \in Pair : AcceptLogin(r, s, p)
        \/ \E s \in Session, p, next \in Pair, d \in Device : Rotate(s, p, d, next)
        \/ \E a \in Account : DisableAccount(a) \/ ResetPassword(a)
        \/ \E a \in Account :
              \/ \E limit \in Limit : CreateAccount(a, limit) \/ SetDeviceLimit(a, limit)
              \/ EnableAccount(a) \/ DeleteAccount(a)
    BY DEF Next, vars, BeginLogin, RefuseLogin, Replay, Logout, RefreshDisabled,
           RevokeAllSessions, RevokeSession, Tick, Restart
  <2>. QED
    BY <2>1, <2>2, <2>3, AcceptedInFlight, RotatedInFlight, ChangesRevoke, CommandsInFlight
<1>. QED
  BY <1>1, TypeCorrect, TablesHold, PTL DEF Spec

===============================================================================
