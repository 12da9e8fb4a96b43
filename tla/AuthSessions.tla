----------------------------- MODULE AuthSessions -----------------------------
(***************************************************************************)
(* Sub-account logins, refresh-token rotation and session revocation:      *)
(* AuthService (src/services/auth-service.ts), the account half of         *)
(* AdminService (src/services/admin-service.ts) and the tables they share  *)
(* (accounts, sessions, refresh_history, access_tokens).                   *)
(*                                                                         *)
(* The process is single-threaded JavaScript: what runs between two awaits *)
(* is one step, and every await lets the other requests run.  login() is   *)
(* therefore two actions, one on each side of `await verifyPassword`; a    *)
(* refresh, which awaits before it reads anything, is one.                 *)
(***************************************************************************)
EXTENDS Integers, FiniteSets

CONSTANTS
    Account,        \* account ids (UUIDs, never reused)
    Device,         \* device ids the clients send
    Session,        \* session ids; a session is its own token family
    Pair,           \* TokenPairs: one access and one refresh token each
    Request,        \* login requests that can be in flight at once
    NoSession,      \* "no refresh_history row"
    AccessTtl,      \* accessTokenTtlMs
    RefreshTtl,     \* refreshTokenTtlMs
    MaxTime,        \* bound on the clock
    MaxLimit,       \* bound on an account's device limit (100 in the code)
    MaxPassword,    \* bound on the passwords an account has had
    KilledMidway    \* can the process die between two autocommit statements?

ASSUME SessionsFinite == IsFiniteSet(Session)
ASSUME NoSessionAssumption == NoSession \notin Session
ASSUME TtlAssumption == /\ AccessTtl \in Nat \ {0}
                        /\ RefreshTtl \in Nat \ {0}
ASSUME BoundsAssumption == /\ MaxTime \in Nat
                           /\ MaxLimit \in Nat \ {0}
                           /\ MaxPassword \in Nat \ {0}
                           /\ KilledMidway \in BOOLEAN

VARIABLES
    accounts,   \* accounts table
    sessions,   \* sessions table
    access,     \* access_tokens table, by the pair the token was issued in
    history,    \* refresh_history: spent refresh token -> its session
    login,      \* what each login in flight read before `await verifyPassword`
    clock,      \* Date.now()
    granted     \* history variable: the largest device limit ever set

vars == <<accounts, sessions, access, history, login, clock, granted>>

-----------------------------------------------------------------------------

(***************************************************************************)
(* A primary key is fresh (never inserted: ids and tokens are random), has *)
(* a row, or is gone (its row was deleted by ON DELETE CASCADE).           *)
(***************************************************************************)
Fresh == [state |-> "fresh"]
Gone  == [state |-> "gone"]
Idle  == [state |-> "idle"]

Time     == Nat
Password == 1 .. MaxPassword
Limit    == 1 .. MaxLimit

AccountRow == [status: {"absent", "enabled", "disabled", "deleted"},
               password: Password, limit: Limit]

(* `password` is a history field: the password the session was opened with. *)
SessionRow == [state: {"live", "revoked"}, account: Account, device: Device,
               refresh: Pair, refreshExpiresAt: Time, password: Password]

AccessRow == [state: {"stored"}, session: Session, expiresAt: Time]

(* login() between the read of the account and the result of scrypt *)
Verifying == [state: {"verifying"}, account: Account, device: Device,
              presented: Password, password: Password, enabled: BOOLEAN,
              limit: Limit]

TypeOK ==
    /\ accounts \in [Account -> AccountRow]
    /\ sessions \in [Session -> SessionRow \cup {Fresh, Gone}]
    /\ access \in [Pair -> AccessRow \cup {Fresh, Gone}]
    /\ history \in [Pair -> Session \cup {NoSession}]
    /\ login \in [Request -> Verifying \cup {Idle}]
    /\ clock \in Time
    /\ granted \in [Account -> 0 .. MaxLimit]

Init ==
    /\ accounts = [a \in Account |-> [status |-> "absent", password |-> 1, limit |-> 1]]
    /\ sessions = [s \in Session |-> Fresh]
    /\ access = [p \in Pair |-> Fresh]
    /\ history = [p \in Pair |-> NoSession]
    /\ login = [r \in Request |-> Idle]
    /\ clock = 0
    /\ granted = [a \in Account |-> 0]

-----------------------------------------------------------------------------

Exists(a) == accounts[a].status \in {"enabled", "disabled"}

Live(s)   == sessions[s].state = "live"
Stored(s) == sessions[s].state \in {"live", "revoked"}

SessionsOf(a) == {s \in Session : Stored(s) /\ sessions[s].account = a}

(* sessions that count against the device limit *)
Active(a, now) ==
    {s \in Session : /\ Live(s)
                     /\ sessions[s].account = a
                     /\ sessions[s].refreshExpiresAt > now}

(* faulty variant: revokes only the sessions that are still active *)
OnDeviceUnexpired(a, d) ==
    {s \in Session : /\ Live(s)
                     /\ sessions[s].account = a
                     /\ sessions[s].device = d
                     /\ sessions[s].refreshExpiresAt > clock}

OnDevice(a, d) ==
    {s \in Session : /\ Live(s)
                     /\ sessions[s].account = a
                     /\ sessions[s].device = d}

(* UPDATE sessions SET revoked_at = now WHERE ... AND revoked_at IS NULL *)
Revoke(S) ==
    [s \in Session |-> IF s \in S /\ Live(s)
                       THEN [sessions[s] EXCEPT !.state = "revoked"]
                       ELSE sessions[s]]

(* findSessionByRefreshHash: sessions whose current refresh token is p's *)
HoldersOf(p) == {s \in Session : Stored(s) /\ sessions[s].refresh = p}

(* faulty variant: the expiry of the access token is not looked at *)
AuthenticatesForever(p) ==
    /\ access[p].state = "stored"
    /\ Live(access[p].session)
    /\ accounts[sessions[access[p].session].account].status = "enabled"

(* authenticateAccess returns a principal for p's access token *)
Authenticates(p) ==
    /\ access[p].state = "stored"
    /\ Live(access[p].session)
    /\ accounts[sessions[access[p].session].account].status = "enabled"
    /\ access[p].expiresAt > clock

(* faulty variant: the lifetime is counted backwards *)
AccessTokenSwapped(s) ==
    [state |-> "stored", session |-> s, expiresAt |-> clock - AccessTtl]

AccessToken(s) ==
    [state |-> "stored", session |-> s, expiresAt |-> clock + AccessTtl]

-----------------------------------------------------------------------------
(* POST /auth/login *)

(***************************************************************************)
(* The account is read, then scrypt is awaited.  A presented password is   *)
(* one the account has or had; any other fails like a superseded one.  An  *)
(* unknown username answers at once and changes nothing: no step.          *)
(***************************************************************************)
BeginLogin(r, a, d, pw) ==
    /\ login[r] = Idle
    /\ Exists(a)
    /\ pw <= accounts[a].password
    /\ login' = [login EXCEPT ![r] =
                    [state |-> "verifying", account |-> a, device |-> d,
                     presented |-> pw, password |-> accounts[a].password,
                     enabled |-> (accounts[a].status = "enabled"),
                     limit |-> accounts[a].limit]]
    /\ UNCHANGED <<accounts, sessions, access, history, clock, granted>>

(* verifyPassword, then the enabled flag that was read before it *)
Verified(q) == q.presented = q.password /\ q.enabled

(* createLoginSession's count, taken after the device's own revocation *)
OtherDevices(q) ==
    Active(q.account, clock) \ OnDevice(q.account, q.device)

(* faulty variant: no foreign key from sessions to accounts *)
AdmissibleOrphan(q) == Cardinality(OtherDevices(q)) < q.limit

(* the count is below the limit read, and the foreign key finds its account *)
Admissible(q) ==
    /\ Cardinality(OtherDevices(q)) < q.limit
    /\ Exists(q.account)

AcceptLogin(r, s, p) ==
    LET q == login[r] IN
    /\ q # Idle
    /\ Verified(q)
    /\ Admissible(q)
    /\ sessions[s] = Fresh
    /\ access[p] = Fresh
    /\ sessions' = [Revoke(OnDevice(q.account, q.device)) EXCEPT ![s] =
                       [state |-> "live", account |-> q.account,
                        device |-> q.device, refresh |-> p,
                        refreshExpiresAt |-> clock + RefreshTtl,
                        password |-> q.presented]]
    /\ access' = [access EXCEPT ![p] = AccessToken(s)]
    /\ login' = [login EXCEPT ![r] = Idle]
    /\ UNCHANGED <<accounts, history, clock, granted>>

(* faulty variant: the device's revocation is not rolled back *)
RefuseLoginHalfway(r) ==
    LET q == login[r] IN
    /\ q # Idle
    /\ ~Verified(q) \/ ~Admissible(q)
    /\ sessions' = Revoke(OnDevice(q.account, q.device))
    /\ login' = [login EXCEPT ![r] = Idle]
    /\ UNCHANGED <<accounts, access, history, clock, granted>>

(* wrong password, disabled, or ROLLBACK (limit reached, account deleted) *)
RefuseLogin(r) ==
    LET q == login[r] IN
    /\ q # Idle
    /\ ~Verified(q) \/ ~Admissible(q)
    /\ login' = [login EXCEPT ![r] = Idle]
    /\ UNCHANGED <<accounts, sessions, access, history, clock, granted>>

-----------------------------------------------------------------------------
(* POST /auth/refresh: any token ever issued may be presented again.  A     *)
(* request that is refused without a state change is no step.               *)

(* no session holds the token, but refresh_history does: revokeFamily *)
Replay(p) ==
    /\ HoldersOf(p) = {}
    /\ history[p] # NoSession
    /\ sessions' = Revoke({history[p]})
    /\ UNCHANGED <<accounts, access, history, login, clock, granted>>

RefreshDisabled(s, p) ==
    /\ s \in HoldersOf(p)
    /\ accounts[sessions[s].account].status = "disabled"
    /\ sessions' = Revoke({s})
    /\ UNCHANGED <<accounts, access, history, login, clock, granted>>

(* faulty variant: an expired session is rotated *)
RotatableExpired(s, d) ==
    /\ accounts[sessions[s].account].status = "enabled"
    /\ Live(s)
    /\ sessions[s].device = d

(* faulty variant: a revoked session is rotated *)
RotatableRevoked(s, d) ==
    /\ accounts[sessions[s].account].status = "enabled"
    /\ sessions[s].refreshExpiresAt > clock
    /\ sessions[s].device = d

Rotatable(s, d) ==
    /\ accounts[sessions[s].account].status = "enabled"
    /\ Live(s)
    /\ sessions[s].refreshExpiresAt > clock
    /\ sessions[s].device = d

(* faulty variant: the spent token is not written to refresh_history *)
RotateForgetting(s, p, d, next) ==
    /\ s \in HoldersOf(p)
    /\ Rotatable(s, d)
    /\ access[next] = Fresh
    /\ sessions' = [sessions EXCEPT ![s].refresh = next,
                                   ![s].refreshExpiresAt = clock + RefreshTtl]
    /\ access' = [access EXCEPT ![next] = AccessToken(s)]
    /\ UNCHANGED <<accounts, history, login, clock, granted>>

(* rotateSession: older access tokens of the session stay in the table *)
Rotate(s, p, d, next) ==
    /\ s \in HoldersOf(p)
    /\ Rotatable(s, d)
    /\ access[next] = Fresh
    /\ history' = [history EXCEPT ![p] = s]
    /\ sessions' = [sessions EXCEPT ![s].refresh = next,
                                   ![s].refreshExpiresAt = clock + RefreshTtl]
    /\ access' = [access EXCEPT ![next] = AccessToken(s)]
    /\ UNCHANGED <<accounts, login, clock, granted>>

-----------------------------------------------------------------------------
(* POST /auth/logout: authenticate, then revoke the principal's session.    *)
(* A revocation that lands between the two is RevokeSession below.          *)
Logout(p) ==
    /\ Authenticates(p)
    /\ sessions' = Revoke({access[p].session})
    /\ UNCHANGED <<accounts, access, history, login, clock, granted>>

-----------------------------------------------------------------------------
(* AdminService, called by the bot's commands *)

CreateAccount(a, limit) ==
    /\ accounts[a].status = "absent"
    /\ accounts' = [accounts EXCEPT ![a] =
                       [status |-> "enabled", password |-> 1, limit |-> limit]]
    /\ granted' = [granted EXCEPT ![a] = limit]
    /\ UNCHANGED <<sessions, access, history, login, clock>>

EnableAccount(a) ==
    /\ Exists(a)
    /\ accounts' = [accounts EXCEPT ![a].status = "enabled"]
    /\ UNCHANGED <<sessions, access, history, login, clock, granted>>

(* two statements, no transaction: a death between them loses the second,   *)
(* and with the process every login in flight                               *)
ThenRevokeAll(a) ==
    \/ /\ sessions' = Revoke(SessionsOf(a))
       /\ UNCHANGED login
    \/ /\ KilledMidway
       /\ login' = [r \in Request |-> Idle]
       /\ UNCHANGED sessions

DisableAccount(a) ==
    /\ Exists(a)
    /\ accounts' = [accounts EXCEPT ![a].status = "disabled"]
    /\ ThenRevokeAll(a)
    /\ UNCHANGED <<access, history, clock, granted>>

(* nothing is read before `await hashPassword`, so the reset is one step *)
ResetPassword(a) ==
    /\ Exists(a)
    /\ accounts[a].password < MaxPassword
    /\ accounts' = [accounts EXCEPT ![a].password = @ + 1]
    /\ ThenRevokeAll(a)
    /\ UNCHANGED <<access, history, clock, granted>>

SetDeviceLimit(a, limit) ==
    /\ Exists(a)
    /\ accounts' = [accounts EXCEPT ![a].limit = limit]
    /\ granted' = [granted EXCEPT ![a] = IF limit > @ THEN limit ELSE @]
    /\ UNCHANGED <<sessions, access, history, login, clock>>

(* sessions, access tokens and refresh history go with their account *)
DeleteAccount(a) ==
    /\ Exists(a)
    /\ accounts' = [accounts EXCEPT ![a].status = "deleted"]
    /\ sessions' = [s \in Session |-> IF s \in SessionsOf(a) THEN Gone
                                      ELSE sessions[s]]
    /\ access' = [p \in Pair |-> IF /\ access[p].state = "stored"
                                    /\ access[p].session \in SessionsOf(a)
                                 THEN Gone ELSE access[p]]
    /\ history' = [p \in Pair |-> IF history[p] \in SessionsOf(a)
                                  THEN NoSession ELSE history[p]]
    /\ UNCHANGED <<login, clock, granted>>

RevokeSession(s) ==
    /\ sessions' = Revoke({s})
    /\ UNCHANGED <<accounts, access, history, login, clock, granted>>

RevokeAllSessions(a) ==
    /\ sessions' = Revoke(SessionsOf(a))
    /\ UNCHANGED <<accounts, access, history, login, clock, granted>>

-----------------------------------------------------------------------------

Tick ==
    /\ clock < MaxTime
    /\ clock' = clock + 1
    /\ UNCHANGED <<accounts, sessions, access, history, login, granted>>

(* SQLite keeps the tables; the requests in flight are lost *)
Restart ==
    /\ login' = [r \in Request |-> Idle]
    /\ UNCHANGED <<accounts, sessions, access, history, clock, granted>>

Next ==
    \/ \E r \in Request, a \in Account, d \in Device, pw \in Password :
          BeginLogin(r, a, d, pw)
    \/ \E r \in Request, s \in Session, p \in Pair : AcceptLogin(r, s, p)
    \/ \E r \in Request : RefuseLogin(r)
    \/ \E p \in Pair : Replay(p) \/ Logout(p)
    \/ \E s \in Session, p \in Pair : RefreshDisabled(s, p)
    \/ \E s \in Session, p, next \in Pair, d \in Device : Rotate(s, p, d, next)
    \/ \E a \in Account, limit \in Limit :
          CreateAccount(a, limit) \/ SetDeviceLimit(a, limit)
    \/ \E a \in Account :
          \/ EnableAccount(a)
          \/ DisableAccount(a)
          \/ ResetPassword(a)
          \/ DeleteAccount(a)
          \/ RevokeAllSessions(a)
    \/ \E s \in Session : RevokeSession(s)
    \/ Tick
    \/ Restart

Spec == Init /\ [][Next]_vars

-----------------------------------------------------------------------------
(* Safety *)

(***************************************************************************)
(* A device of an account never holds two unrevoked sessions, whatever     *)
(* logins are in flight together: createLoginSession revokes the device's  *)
(* sessions in the transaction that inserts the new one.                   *)
(***************************************************************************)
OneLiveSessionPerDevice ==
    \A s, t \in Session :
        /\ Live(s) /\ Live(t)
        /\ sessions[s].account = sessions[t].account
        /\ sessions[s].device = sessions[t].device
        => s = t

(***************************************************************************)
(* The active sessions of an account never outnumber the largest device    *)
(* limit an administrator gave it.  A login may use a limit that was       *)
(* lowered while it waited for scrypt, so the current limit is not a       *)
(* bound; nor does lowering it revoke anything.  That a refresh refuses an *)
(* expired session is what keeps a freed place from being taken twice.     *)
(***************************************************************************)
DeviceLimitHolds ==
    \A a \in Account : Cardinality(Active(a, clock)) <= granted[a]

(***************************************************************************)
(* Whoever can call the API holds a session that the device limit counts:  *)
(* an access token never outlives the refresh expiry of its session.  It   *)
(* needs AccessTtl <= RefreshTtl, which config.ts does not enforce.        *)
(***************************************************************************)
AccessIsCounted ==
    \A p \in Pair : Authenticates(p) =>
        access[p].session \in
            Active(sessions[access[p].session].account, clock)

(***************************************************************************)
(* Reuse detection is complete: every refresh token ever handed out for a  *)
(* session that still has a row is either its current one or recorded in   *)
(* refresh_history under that session, and never both, so that presenting  *)
(* a spent token always reaches revokeFamily and presenting the current    *)
(* one never does.                                                         *)
(***************************************************************************)
ReuseIsDetectable ==
    /\ \A p \in Pair : access[p].state = "stored" =>
          /\ Stored(access[p].session)
          /\ sessions[access[p].session].refresh = p <=> history[p] = NoSession
    /\ \A p \in Pair : history[p] # NoSession =>
          /\ access[p].state = "stored"
          /\ access[p].session = history[p]
    /\ \A s \in Session : Stored(s) =>
          /\ access[sessions[s].refresh].state = "stored"
          /\ access[sessions[s].refresh].session = s

(***************************************************************************)
(* A session row always has its account: a login whose account was deleted *)
(* during scrypt is rolled back by the foreign key.                        *)
(***************************************************************************)
SessionsHaveOwners ==
    \A s \in Session : Stored(s) => Exists(sessions[s].account)

(***************************************************************************)
(* A login that is refused, at whatever point, changes no table, and one   *)
(* that is accepted revokes at most the sessions of its own device: the    *)
(* device's old session survives a login that fails on the device limit.   *)
(***************************************************************************)
LoginTouchesOnlyItsDevice ==
    [][ \A r \in Request : login[r] # Idle /\ login'[r] = Idle =>
          \/ UNCHANGED <<sessions, access, history>>
          \/ /\ \E s \in Session : sessions[s] = Fresh /\ sessions'[s] # Fresh
             /\ \A s \in Session :
                  Live(s) /\ sessions'[s] # sessions[s] =>
                      s \in OnDevice(login[r].account, login[r].device) ]_vars

-----------------------------------------------------------------------------
(***************************************************************************)
(* Refinement: sessions are token families.  A session that is disabled or *)
(* expired keeps its redeemable token (the account may be enabled again);  *)
(* a token is spent once it was issued and no live session holds it.       *)
(***************************************************************************)
FamilyStatus(s) == IF sessions[s] = Fresh THEN "unborn"
                   ELSE IF Live(s) THEN "live" ELSE "closed"

Redeemable(s) == IF Live(s) THEN {sessions[s].refresh} ELSE {}

SpentTokens == {p \in Pair : /\ access[p] # Fresh
                             /\ \A s \in Session : p \notin Redeemable(s)}

Families == INSTANCE TokenFamilies WITH
    Family <- Session,
    Token <- Pair,
    status <- [s \in Session |-> FamilyStatus(s)],
    redeemable <- [s \in Session |-> Redeemable(s)],
    spent <- SpentTokens

(***************************************************************************)
(* Through logins, rotations, replays, revocations, deletions and          *)
(* restarts, the sessions behave as token families do: no refresh token is *)
(* redeemed twice, none is honoured after its session was revoked, and no  *)
(* revoked session comes back.                                             *)
(***************************************************************************)
ImplementsFamilies == Families!Spec

-----------------------------------------------------------------------------
(* What the texts of the program say, and the code does not keep.           *)

(***************************************************************************)
(* After a password reset no live session was opened with a superseded     *)
(* password ("All existing sessions were revoked").                        *)
(***************************************************************************)
OldPasswordsHoldNoSession ==
    \A s \in Session : Live(s) =>
        sessions[s].password = accounts[sessions[s].account].password

(***************************************************************************)
(* A disabled account has no live session left ("disabling an account      *)
(* revokes existing access immediately").                                  *)
(***************************************************************************)
DisabledHoldNoSession ==
    \A s \in Session : Live(s) =>
        accounts[sessions[s].account].status # "disabled"

=============================================================================
