----------------------------- MODULE ProxyAccess -----------------------------
(***************************************************************************)
(* The S3/SQL proxy: the HTTP routes under /resources (src/http/app.ts),   *)
(* ProxyService with its authorisation and its audit                       *)
(* (src/proxy/proxy-service.ts), and what administrators do meanwhile to   *)
(* the accounts, connections and grants a call depends on                  *)
(* (src/services/admin-service.ts, src/repository/sqlite-repository.ts).   *)
(*                                                                         *)
(* A call yields to the rest of the process twice: at `await principal`    *)
(* and while the gateway works.  Everything else it does is one step, and  *)
(* what it read before a yield may be gone after it.                       *)
(***************************************************************************)
EXTENDS Integers, FiniteSets

CONSTANTS
    Account,     \* account ids
    Session,     \* session ids
    Connection,  \* connection ids; clients may name one that does not exist
    Call,        \* HTTP requests
    Route,       \* the routes in play, out of DOMAIN OperationOf
    NoRef        \* SQL NULL in a foreign-key column

VARIABLES
    accounts,    \* accounts table: the state of each id
    sessions,    \* sessions table
    connections, \* connections table
    grants,      \* grants table
    calls,       \* the requests and how far each one is
    audit        \* audit_events table

vars == <<accounts, sessions, connections, grants, calls, audit>>

-----------------------------------------------------------------------------

OperationOf ==
    [list |-> "s3.read", download |-> "s3.read", upload |-> "s3.write",
     remove |-> "s3.delete", tables |-> "sql.tables", query |-> "sql.query",
     exec |-> "sql.exec"]

KindOf == [list |-> "s3", download |-> "s3", upload |-> "s3", remove |-> "s3",
           tables |-> "sql", query |-> "sql", exec |-> "sql"]

ASSUME RoutesKnown == Route \subseteq DOMAIN OperationOf
ASSUME NoRefAssumption == NoRef \notin Account \cup Session \cup Connection

Operation == {OperationOf[x] : x \in Route}

(* faulty variant: any operation may be granted on any kind *)
OperationsOnAny(kind) == Operation

(* operationsByKind: what may be granted on a connection *)
OperationsOn(kind) == {OperationOf[x] : x \in {y \in Route : KindOf[y] = kind}}

Kind == {"s3", "sql"}

SessionRow == [state: {"live", "revoked"}, account: Account]
Unopened   == [state |-> "fresh"]
Closed     == [state |-> "gone"]

ConnectionRow == [state: {"enabled", "disabled"}, kind: Kind]
Uncreated     == [state |-> "absent"]
Deleted       == [state |-> "gone"]

(* `applied` is a history field: did the S3 bucket or the database do it? *)
CallRow == [phase: {"authenticated", "serving", "streaming",
                    "ok", "broken", "error", "lost"},
            account: Account, session: Session, connection: Connection,
            route: Route, served: BOOLEAN, applied: BOOLEAN]
Unsent  == [phase |-> "unsent"]

AuditRow == [call: Call, account: Account \cup {NoRef},
             session: Session \cup {NoRef},
             connection: Connection \cup {NoRef}, success: BOOLEAN]

TypeOK ==
    /\ accounts \in [Account -> {"absent", "enabled", "disabled", "gone"}]
    /\ sessions \in [Session -> SessionRow \cup {Unopened, Closed}]
    /\ connections \in [Connection -> ConnectionRow \cup {Uncreated, Deleted}]
    /\ grants \in SUBSET (Account \X Connection \X Operation)
    /\ calls \in [Call -> CallRow \cup {Unsent}]
    /\ audit \in SUBSET AuditRow

Init ==
    /\ accounts = [a \in Account |-> "absent"]
    /\ sessions = [s \in Session |-> Unopened]
    /\ connections = [c \in Connection |-> Uncreated]
    /\ grants = {}
    /\ calls = [k \in Call |-> Unsent]
    /\ audit = {}

-----------------------------------------------------------------------------

AccountExists(a)    == accounts[a] \in {"enabled", "disabled"}
SessionExists(s)    == sessions[s].state \in {"live", "revoked"}
ConnectionExists(c) == connections[c].state \in {"enabled", "disabled"}

(* faulty variant: connection and kind are checked, the grant is not *)
AuthorizedByKind(a, c, x) ==
    /\ connections[c].state = "enabled"
    /\ connections[c].kind = KindOf[x]

(* authorize, then the kind check of authorizedS3 and authorizedSQL *)
Authorized(a, c, x) ==
    /\ connections[c].state = "enabled"
    /\ <<a, c, OperationOf[x]>> \in grants
    /\ connections[c].kind = KindOf[x]

(* GET /resources: the operations shown on the enabled connections *)
Listed(a) ==
    {r \in Connection \X Operation :
        connections[r[1]].state = "enabled" /\ <<a, r[1], r[2]>> \in grants}

(* faulty variant: the row is written only for a session that is still live *)
ReferencedLive(k) ==
    /\ AccountExists(calls[k].account)
    /\ sessions[calls[k].session].state = "live"
    /\ ConnectionExists(calls[k].connection)

(* the foreign keys of an audit row for call k find their rows *)
Referenced(k) ==
    /\ AccountExists(calls[k].account)
    /\ SessionExists(calls[k].session)
    /\ ConnectionExists(calls[k].connection)

RowOf(k, success) ==
    [call |-> k, account |-> calls[k].account, session |-> calls[k].session,
     connection |-> calls[k].connection, success |-> success]

(* faulty variant: only failures are recorded *)
AppendFailures(k, success) ==
    audit' = IF Referenced(k) /\ ~success THEN audit \cup {RowOf(k, success)} ELSE audit

(* appendAudit: an INSERT that a foreign key may refuse *)
AppendAudit(k, success) ==
    audit' = IF Referenced(k) THEN audit \cup {RowOf(k, success)} ELSE audit

-----------------------------------------------------------------------------
(* A call to a route under /resources/:connectionId *)

(* `await principal(request)` has authenticated the access token of s *)
Authenticate(k, s, c, x) ==
    /\ calls[k] = Unsent
    /\ sessions[s].state = "live"
    /\ accounts[sessions[s].account] = "enabled"
    /\ calls' = [calls EXCEPT ![k] =
                    [phase |-> "authenticated", account |-> sessions[s].account,
                     session |-> s, connection |-> c, route |-> x,
                     served |-> FALSE, applied |-> FALSE]]
    /\ UNCHANGED <<accounts, sessions, connections, grants, audit>>

(* an upload without a binary body, or declared too long: no audit *)
RefuseBody(k) ==
    /\ calls[k].phase = "authenticated"
    /\ calls[k].route = "upload"
    /\ calls' = [calls EXCEPT ![k].phase = "error"]
    /\ UNCHANGED <<accounts, sessions, connections, grants, audit>>

(* authorisation, and the gateway is called without a yield in between *)
Dispatch(k) ==
    /\ calls[k].phase = "authenticated"
    /\ Authorized(calls[k].account, calls[k].connection, calls[k].route)
    /\ calls' = [calls EXCEPT ![k].phase = "serving", ![k].served = TRUE]
    /\ UNCHANGED <<accounts, sessions, connections, grants, audit>>

(* not authorised, or (on S3) a key that normalizeRelativeKey rejects *)
Deny(k) ==
    /\ calls[k].phase = "authenticated"
    /\ \/ ~Authorized(calls[k].account, calls[k].connection, calls[k].route)
       \/ KindOf[calls[k].route] = "s3"
    /\ AppendAudit(k, FALSE)
    /\ calls' = [calls EXCEPT ![k].phase = "error"]
    /\ UNCHANGED <<accounts, sessions, connections, grants>>

(***************************************************************************)
(* The gateway's promise resolves and withAudit records the success; when  *)
(* the insert throws, the catch block's insert throws too and the client   *)
(* is told of an error.  A download is answered with a stream to follow.   *)
(***************************************************************************)
GatewaySucceeds(k) ==
    /\ calls[k].phase = "serving"
    /\ AppendAudit(k, TRUE)
    /\ calls' = [calls EXCEPT
                    ![k].applied = TRUE,
                    ![k].phase = IF ~Referenced(k) THEN "error"
                                 ELSE IF calls[k].route = "download" THEN "streaming"
                                 ELSE "ok"]
    /\ UNCHANGED <<accounts, sessions, connections, grants>>

(* it rejects: refused, timed out, aborted, object too large; the other end *)
(* may have applied the operation all the same                              *)
GatewayFails(k, applied) ==
    /\ calls[k].phase = "serving"
    /\ AppendAudit(k, FALSE)
    /\ calls' = [calls EXCEPT ![k].phase = "error", ![k].applied = applied]
    /\ UNCHANGED <<accounts, sessions, connections, grants>>

(* the download's body ends, or breaks off (s3MaxBytes, S3, the client) *)
StreamEnds(k, outcome) ==
    /\ calls[k].phase = "streaming"
    /\ calls' = [calls EXCEPT ![k].phase = outcome]
    /\ UNCHANGED <<accounts, sessions, connections, grants, audit>>

-----------------------------------------------------------------------------
(* Administration.  Logins are AuthSessions'; here one opens a session.     *)

CreateAccount(a) ==
    /\ accounts[a] = "absent"
    /\ accounts' = [accounts EXCEPT ![a] = "enabled"]
    /\ UNCHANGED <<sessions, connections, grants, calls, audit>>

OpenSession(s, a) ==
    /\ sessions[s] = Unopened
    /\ accounts[a] = "enabled"
    /\ sessions' = [sessions EXCEPT ![s] = [state |-> "live", account |-> a]]
    /\ UNCHANGED <<accounts, connections, grants, calls, audit>>

SessionsOf(a) == {s \in Session : SessionExists(s) /\ sessions[s].account = a}

EnableAccount(a) ==
    /\ AccountExists(a)
    /\ accounts' = [accounts EXCEPT ![a] = "enabled"]
    /\ UNCHANGED <<sessions, connections, grants, calls, audit>>

DisableAccount(a) ==
    /\ AccountExists(a)
    /\ accounts' = [accounts EXCEPT ![a] = "disabled"]
    /\ sessions' = [s \in Session |-> IF s \in SessionsOf(a)
                                      THEN [sessions[s] EXCEPT !.state = "revoked"]
                                      ELSE sessions[s]]
    /\ UNCHANGED <<connections, grants, calls, audit>>

RevokeSession(s) ==
    /\ SessionExists(s)
    /\ sessions' = [sessions EXCEPT ![s].state = "revoked"]
    /\ UNCHANGED <<accounts, connections, grants, calls, audit>>

(* ON DELETE CASCADE on sessions and grants, SET NULL in audit_events *)
DeleteAccount(a) ==
    /\ AccountExists(a)
    /\ accounts' = [accounts EXCEPT ![a] = "gone"]
    /\ sessions' = [s \in Session |-> IF s \in SessionsOf(a) THEN Closed
                                      ELSE sessions[s]]
    /\ grants' = {g \in grants : g[1] # a}
    /\ audit' = {[e EXCEPT !.account = IF @ = a THEN NoRef ELSE @,
                           !.session = IF @ \in SessionsOf(a) THEN NoRef ELSE @]
                 : e \in audit}
    /\ UNCHANGED <<connections, calls>>

CreateConnection(c, kind) ==
    /\ connections[c] = Uncreated
    /\ connections' = [connections EXCEPT ![c] = [state |-> "enabled", kind |-> kind]]
    /\ UNCHANGED <<accounts, sessions, grants, calls, audit>>

SetConnectionEnabled(c, state) ==
    /\ ConnectionExists(c)
    /\ connections' = [connections EXCEPT ![c].state = state]
    /\ UNCHANGED <<accounts, sessions, grants, calls, audit>>

(* faulty variant: the audit keeps the id of a connection that is gone *)
DeleteConnectionAlone(c) ==
    /\ ConnectionExists(c)
    /\ connections' = [connections EXCEPT ![c] = Deleted]
    /\ grants' = {g \in grants : g[2] # c}
    /\ UNCHANGED <<accounts, sessions, calls, audit>>

DeleteConnection(c) ==
    /\ ConnectionExists(c)
    /\ connections' = [connections EXCEPT ![c] = Deleted]
    /\ grants' = {g \in grants : g[2] # c}
    /\ audit' = {[e EXCEPT !.connection = IF @ = c THEN NoRef ELSE @] : e \in audit}
    /\ UNCHANGED <<accounts, sessions, calls>>

(* setGrants and replaceGrants: the pair's grants are replaced as a whole *)
SetGrants(a, c, ops) ==
    /\ AccountExists(a)
    /\ ConnectionExists(c)
    /\ ops \subseteq OperationsOn(connections[c].kind)
    /\ grants' = {g \in grants : g[1] # a \/ g[2] # c}
                    \cup {<<a, c, o>> : o \in ops}
    /\ UNCHANGED <<accounts, sessions, connections, calls, audit>>

(* the process ends; SQLite keeps the tables, the calls get no answer *)
Restart ==
    /\ calls' = [k \in Call |->
                    IF calls[k].phase \in {"authenticated", "serving", "streaming"}
                    THEN [calls[k] EXCEPT !.phase = "lost"] ELSE calls[k]]
    /\ UNCHANGED <<accounts, sessions, connections, grants, audit>>

Next ==
    \/ \E k \in Call, s \in Session, c \in Connection, x \in Route :
          Authenticate(k, s, c, x)
    \/ \E k \in Call : RefuseBody(k) \/ Dispatch(k) \/ Deny(k) \/ GatewaySucceeds(k)
    \/ \E k \in Call, applied \in BOOLEAN : GatewayFails(k, applied)
    \/ \E k \in Call, outcome \in {"ok", "broken"} : StreamEnds(k, outcome)
    \/ \E a \in Account :
          CreateAccount(a) \/ EnableAccount(a) \/ DisableAccount(a) \/ DeleteAccount(a)
    \/ \E s \in Session, a \in Account : OpenSession(s, a)
    \/ \E s \in Session : RevokeSession(s)
    \/ \E c \in Connection, kind \in Kind : CreateConnection(c, kind)
    \/ \E c \in Connection, state \in {"enabled", "disabled"} :
          SetConnectionEnabled(c, state)
    \/ \E c \in Connection : DeleteConnection(c)
    \/ \E a \in Account, c \in Connection, ops \in SUBSET Operation : SetGrants(a, c, ops)
    \/ Restart

Spec == Init /\ [][Next]_vars

-----------------------------------------------------------------------------
(* Safety *)

Rows(k) == {e \in audit : e.call = k}

(***************************************************************************)
(* Nobody is told of a success that left no trace: when a client gets a    *)
(* good answer (for a download, its headers), the audit has exactly one    *)
(* row of the call, a success, whatever was deleted during the gateway's   *)
(* work or since.                                                          *)
(***************************************************************************)
SuccessIsAudited ==
    \A k \in Call :
        calls[k].phase \in {"ok", "streaming", "broken"} =>
            \E e \in Rows(k) : e.success /\ Rows(k) = {e}

(***************************************************************************)
(* What the proxy did and the audit does not show: a call that reached the *)
(* gateway and was answered has no row only when its account or its        *)
(* connection was deleted (the process dying before the answer apart).     *)
(***************************************************************************)
UnauditedAreOrphans ==
    \A k \in Call :
        /\ calls[k].phase \in {"ok", "broken", "error"}
        /\ calls[k].served
        /\ Rows(k) = {}
        => accounts[calls[k].account] = "gone" \/ connections[calls[k].connection] = Deleted

(***************************************************************************)
(* An audit row names who did what to which connection, or nothing once    *)
(* that is deleted: no row outlives what it points at or points at another *)
(* account's session, and none reports a success the remote end did not    *)
(* give.                                                                   *)
(***************************************************************************)
AuditTellsWhoDidIt ==
    \A e \in audit :
        LET k == calls[e.call] IN
        /\ e.account \in {k.account, NoRef} /\ e.session \in {k.session, NoRef}
        /\ e.connection \in {k.connection, NoRef}
        /\ e.account # NoRef => AccountExists(e.account)
        /\ e.session # NoRef => /\ SessionExists(e.session)
                                /\ sessions[e.session].account = e.account
        /\ e.connection # NoRef => ConnectionExists(e.connection)
        /\ e.success => k.applied

(***************************************************************************)
(* What GET /resources offers an account is what the proxy lets it do: no  *)
(* grant outlives its account or its connection, and none is for an        *)
(* operation of another kind, which the proxy would answer with 404.       *)
(***************************************************************************)
ListedIsUsable ==
    /\ \A a \in Account : \A r \in Listed(a) :
          \A x \in Route : OperationOf[x] = r[2] => Authorized(a, r[1], x)
    /\ \A g \in grants : AccountExists(g[1]) /\ ConnectionExists(g[2])

(***************************************************************************)
(* Deleting an account or a connection is effective between a call's       *)
(* authentication and its dispatch: the gateway is never called for one    *)
(* that is gone, although authorize looks at neither the account nor the   *)
(* session.  Disabling the account in that gap is not noticed.             *)
(***************************************************************************)
NeverServedOnceDeleted ==
    [][ \A k \in Call : calls'[k].phase = "serving" /\ calls[k].phase # "serving" =>
            AccountExists(calls[k].account) /\ SessionExists(calls[k].session)
            /\ ConnectionExists(calls[k].connection) ]_vars

=============================================================================
