--------------------------- MODULE ProxyAccessProofs ---------------------------
(* Proofs about ProxyAccess. *)
EXTENDS ProxyAccess, TLAPS

LEMMA InitType == Init => TypeOK
BY DEF Init, TypeOK, Unopened, Uncreated, Unsent

(* The foreign keys of an answered call never put an ill-typed row there.  *)
LEMMA AppendType ==
    ASSUME TypeOK, NEW k \in Call, calls[k] \in CallRow, NEW success \in BOOLEAN,
           AppendAudit(k, success)
    PROVE  audit' \in SUBSET AuditRow
BY DEF AppendAudit, RowOf, TypeOK, CallRow, AuditRow

(* Every step keeps every variable in its type. *)
LEMMA TypeStep == TypeOK /\ [Next]_vars => TypeOK'
<1> SUFFICES ASSUME TypeOK, [Next]_vars
             PROVE  TypeOK'
  OBVIOUS
<1>1. ASSUME NEW k \in Call, NEW s \in Session, NEW c \in Connection, NEW x \in Route,
             Authenticate(k, s, c, x)
      PROVE  TypeOK'
  <2>1. sessions[s] \in SessionRow
    BY <1>1 DEF Authenticate, TypeOK, Unopened, Closed
  <2>. QED
    BY <1>1, <2>1 DEF Authenticate, TypeOK, SessionRow, CallRow
<1>2. ASSUME NEW k \in Call, RefuseBody(k) \/ Dispatch(k)
      PROVE  TypeOK'
  <2>1. calls[k] \in CallRow
    BY <1>2 DEF RefuseBody, Dispatch, TypeOK, Unsent
  <2>2. calls' \in [Call -> CallRow \cup {Unsent}]
    BY <1>2, <2>1 DEF RefuseBody, Dispatch, TypeOK, CallRow
  <2>. QED
    BY <1>2, <2>2 DEF RefuseBody, Dispatch, TypeOK
<1>3. ASSUME NEW k \in Call, Deny(k)
      PROVE  TypeOK'
  <2>1. calls[k] \in CallRow
    BY <1>3 DEF Deny, TypeOK, Unsent
  <2>2. calls' \in [Call -> CallRow \cup {Unsent}]
    BY <1>3, <2>1 DEF Deny, TypeOK, CallRow
  <2>. QED
    BY <1>3, <2>1, <2>2, AppendType DEF Deny, TypeOK
<1>17. ASSUME NEW k \in Call, GatewaySucceeds(k)
       PROVE  TypeOK'
  <2>1. calls[k] \in CallRow
    BY <1>17 DEF GatewaySucceeds, TypeOK, Unsent
  <2>2. ASSUME NEW phase \in {"error", "streaming", "ok"}
        PROVE  [calls[k] EXCEPT !.applied = TRUE, !.phase = phase] \in CallRow
    BY <2>1 DEF CallRow
  <2>3. PICK phase \in {"error", "streaming", "ok"} :
            calls' = [calls EXCEPT ![k] = [calls[k] EXCEPT !.applied = TRUE,
                                                           !.phase = phase]]
    BY <1>17, <2>1 DEF GatewaySucceeds, TypeOK, CallRow
  <2>4. calls' \in [Call -> CallRow \cup {Unsent}]
    BY <2>2, <2>3 DEF TypeOK
  <2>. QED
    BY <1>17, <2>1, <2>4, AppendType DEF GatewaySucceeds, TypeOK
<1>4. ASSUME NEW k \in Call, NEW applied \in BOOLEAN, GatewayFails(k, applied)
      PROVE  TypeOK'
  <2>1. calls[k] \in CallRow
    BY <1>4 DEF GatewayFails, TypeOK, Unsent
  <2>2. calls' \in [Call -> CallRow \cup {Unsent}]
    BY <1>4, <2>1 DEF GatewayFails, TypeOK, CallRow
  <2>. QED
    BY <1>4, <2>1, <2>2, AppendType DEF GatewayFails, TypeOK
<1>5. ASSUME NEW k \in Call, NEW outcome \in {"ok", "broken"}, StreamEnds(k, outcome)
      PROVE  TypeOK'
  <2>1. calls[k] \in CallRow
    BY <1>5 DEF StreamEnds, TypeOK, Unsent
  <2>2. calls' \in [Call -> CallRow \cup {Unsent}]
    BY <1>5, <2>1 DEF StreamEnds, TypeOK, CallRow
  <2>. QED
    BY <1>5, <2>2 DEF StreamEnds, TypeOK
<1>6. ASSUME NEW a \in Account, CreateAccount(a) \/ EnableAccount(a)
      PROVE  TypeOK'
  BY <1>6 DEF CreateAccount, EnableAccount, TypeOK
<1>7. ASSUME NEW a \in Account, DisableAccount(a)
      PROVE  TypeOK'
  <2>1. ASSUME NEW s \in SessionsOf(a)
        PROVE  [sessions[s] EXCEPT !.state = "revoked"] \in SessionRow
    BY <2>1 DEF SessionsOf, SessionExists, TypeOK, SessionRow, Unopened, Closed
  <2>2. sessions' \in [Session -> SessionRow \cup {Unopened, Closed}]
    BY <1>7, <2>1 DEF DisableAccount, TypeOK
  <2>. QED
    BY <1>7, <2>2 DEF DisableAccount, TypeOK
<1>8. ASSUME NEW a \in Account, DeleteAccount(a)
      PROVE  TypeOK'
  <2>1. ASSUME NEW e \in AuditRow, NEW b \in Account \cup {NoRef},
               NEW s \in Session \cup {NoRef}
        PROVE  [e EXCEPT !.account = b, !.session = s] \in AuditRow
    BY <2>1 DEF AuditRow
  <2>2. ASSUME NEW e \in AuditRow
        PROVE  [e EXCEPT !.account = IF @ = a THEN NoRef ELSE @,
                         !.session = IF @ \in SessionsOf(a) THEN NoRef ELSE @]
               \in AuditRow
    BY <2>1, <2>2 DEF AuditRow
  <2>3. audit' \in SUBSET AuditRow
    BY <1>8, <2>2 DEF DeleteAccount, TypeOK
  <2>. QED
    BY <1>8, <2>3 DEF DeleteAccount, TypeOK
<1>9. ASSUME NEW s \in Session, NEW a \in Account, OpenSession(s, a)
      PROVE  TypeOK'
  BY <1>9 DEF OpenSession, TypeOK, SessionRow
<1>10. ASSUME NEW s \in Session, RevokeSession(s)
       PROVE  TypeOK'
  BY <1>10 DEF RevokeSession, SessionExists, TypeOK, SessionRow, Unopened, Closed
<1>11. ASSUME NEW c \in Connection, NEW kind \in Kind, CreateConnection(c, kind)
       PROVE  TypeOK'
  BY <1>11 DEF CreateConnection, TypeOK, ConnectionRow
<1>12. ASSUME NEW c \in Connection, NEW state \in {"enabled", "disabled"},
              SetConnectionEnabled(c, state)
       PROVE  TypeOK'
  BY <1>12 DEF SetConnectionEnabled, ConnectionExists, TypeOK, ConnectionRow,
               Uncreated, Deleted
<1>13. ASSUME NEW c \in Connection, DeleteConnection(c)
       PROVE  TypeOK'
  <2>1. audit' \in SUBSET AuditRow
    BY <1>13 DEF DeleteConnection, TypeOK, AuditRow
  <2>. QED
    BY <1>13, <2>1 DEF DeleteConnection, TypeOK
<1>14. ASSUME NEW a \in Account, NEW c \in Connection, NEW ops \in SUBSET Operation,
              SetGrants(a, c, ops)
       PROVE  TypeOK'
  BY <1>14 DEF SetGrants, TypeOK
<1>15. CASE Restart
  <2>1. ASSUME NEW k \in Call,
               calls[k].phase \in {"authenticated", "serving", "streaming"}
        PROVE  [calls[k] EXCEPT !.phase = "lost"] \in CallRow
    BY <2>1 DEF TypeOK, CallRow, Unsent
  <2>2. calls' \in [Call -> CallRow \cup {Unsent}]
    BY <1>15, <2>1 DEF Restart, TypeOK
  <2>. QED
    BY <1>15, <2>2 DEF Restart, TypeOK
<1>16. CASE UNCHANGED vars
  BY <1>16 DEF TypeOK, vars
<1>. QED
  BY <1>1, <1>2, <1>3, <1>4, <1>5, <1>6, <1>7, <1>8, <1>9, <1>10, <1>11,
     <1>12, <1>13, <1>14, <1>15, <1>16, <1>17 DEF Next

(* The tables behind the proxy are always well typed. *)
THEOREM TypeCorrect == Spec => []TypeOK
<1>. QED
  BY InitType, TypeStep, PTL DEF Spec

-----------------------------------------------------------------------------
(***************************************************************************)
(* The inductive invariant.  SessionsHaveAccounts and GrantsAreSound are   *)
(* what the cascades of the schema keep.  CallsKnowTheirSession is what a  *)
(* call read before a yield and may use after it: the rows may be gone,    *)
(* but they have been there, and a session is gone only with its account.  *)
(* UnansweredHaveNoRow is why GatewaySucceeds adds the first row of its    *)
(* call and the only one.                                                  *)
(***************************************************************************)
SessionsHaveAccounts ==
    \A s \in Session : SessionExists(s) => AccountExists(sessions[s].account)

GrantsAreSound ==
    \A g \in grants : /\ AccountExists(g[1])
                      /\ ConnectionExists(g[2])
                      /\ g[3] \in OperationsOn(connections[g[2]].kind)

CallsKnowTheirSession ==
    \A k \in Call : calls[k] # Unsent =>
        LET q == calls[k] IN
        /\ sessions[q.session] # Unopened
        /\ accounts[q.account] # "absent"
        /\ SessionExists(q.session) => sessions[q.session].account = q.account
        /\ ~SessionExists(q.session) => accounts[q.account] = "gone"
        /\ q.served => connections[q.connection] # Uncreated

UnansweredHaveNoRow ==
    \A k \in Call :
        calls[k].phase \in {"unsent", "authenticated", "serving"} => Rows(k) = {}

NotServedBeforeDispatch ==
    \A k \in Call : calls[k].phase = "authenticated" => ~calls[k].served

TablesInv == SessionsHaveAccounts /\ GrantsAreSound /\ CallsKnowTheirSession

AuditInv == /\ UnansweredHaveNoRow
            /\ NotServedBeforeDispatch
            /\ SuccessIsAudited
            /\ UnauditedAreOrphans
            /\ AuditTellsWhoDidIt

-----------------------------------------------------------------------------

(* The rows that are there have the fields of their table. *)
LEMMA RowTypes ==
    ASSUME TypeOK
    PROVE  /\ \A s \in Session : SessionExists(s) => sessions[s] \in SessionRow
           /\ \A c \in Connection : ConnectionExists(c) => connections[c] \in ConnectionRow
           /\ \A k \in Call : calls[k] # Unsent => calls[k] \in CallRow
BY DEF TypeOK, SessionExists, ConnectionExists, Unopened, Closed, Uncreated, Deleted

(* Kind by kind, an operation that may be granted is one the routes serve. *)
LEMMA OperationsTellKinds ==
    ASSUME NEW x \in Route, NEW kind, OperationOf[x] \in OperationsOn(kind)
    PROVE  KindOf[x] = kind
BY RoutesKnown DEF OperationsOn, OperationOf, KindOf

Progress(k) ==
    \/ RefuseBody(k) \/ Dispatch(k) \/ Deny(k) \/ GatewaySucceeds(k)
    \/ \E applied \in BOOLEAN : GatewayFails(k, applied)
    \/ \E outcome \in {"ok", "broken"} : StreamEnds(k, outcome)

(***************************************************************************)
(* A request that goes on is one that was authenticated; it keeps the rows *)
(* it was authenticated with, and is served only when it is authorised.    *)
(***************************************************************************)
LEMMA ProgressKeepsRows ==
    ASSUME TypeOK, NEW k \in Call, Progress(k)
    PROVE  /\ calls[k] \in CallRow
           /\ calls'[k] \in CallRow
           /\ calls' = [calls EXCEPT ![k] = calls'[k]]
           /\ calls'[k].account = calls[k].account
           /\ calls'[k].session = calls[k].session
           /\ calls'[k].connection = calls[k].connection
           /\ \/ calls'[k].served = calls[k].served
              \/ Authorized(calls[k].account, calls[k].connection, calls[k].route)
           /\ UNCHANGED <<accounts, sessions, connections, grants>>
<1>1. calls[k] \in CallRow
  <2>1. calls[k].phase \in {"authenticated", "serving", "streaming"}
    BY DEF Progress, RefuseBody, Dispatch, Deny, GatewaySucceeds, GatewayFails,
           StreamEnds
  <2>. QED
    BY <2>1 DEF TypeOK, Unsent
<1>2. CASE RefuseBody(k)
  BY <1>1, <1>2 DEF TypeOK, RefuseBody, CallRow
<1>3. CASE Dispatch(k)
  BY <1>1, <1>3 DEF TypeOK, Dispatch, CallRow
<1>4. CASE Deny(k)
  BY <1>1, <1>4 DEF TypeOK, Deny, CallRow
<1>5. CASE GatewaySucceeds(k)
  <2>1. PICK phase \in {"error", "streaming", "ok"} :
            calls' = [calls EXCEPT ![k] = [calls[k] EXCEPT !.applied = TRUE,
                                                           !.phase = phase]]
    BY <1>1, <1>5 DEF GatewaySucceeds, TypeOK, CallRow
  <2>2. calls'[k] = [calls[k] EXCEPT !.applied = TRUE, !.phase = phase]
    BY <2>1 DEF TypeOK
  <2>. QED
    BY <1>1, <1>5, <2>1, <2>2 DEF GatewaySucceeds, CallRow
<1>6. ASSUME NEW applied \in BOOLEAN, GatewayFails(k, applied)
      PROVE  calls'[k] = [calls[k] EXCEPT !.phase = "error", !.applied = applied]
  BY <1>1, <1>6 DEF TypeOK, GatewayFails, CallRow
<1>7. CASE \E applied \in BOOLEAN : GatewayFails(k, applied)
  <2>1. PICK applied \in BOOLEAN : GatewayFails(k, applied)
    BY <1>7
  <2>2. /\ calls' = [calls EXCEPT ![k] = calls'[k]]
        /\ UNCHANGED <<accounts, sessions, connections, grants>>
    BY <2>1 DEF GatewayFails, TypeOK
  <2>3. /\ calls'[k].account = calls[k].account
        /\ calls'[k].session = calls[k].session
        /\ calls'[k].connection = calls[k].connection
        /\ calls'[k].served = calls[k].served
        /\ calls'[k] \in CallRow
    <3>1. calls'[k] = [calls[k] EXCEPT !.phase = "error", !.applied = applied]
      BY <1>6, <2>1
    <3>. QED
      BY <1>1, <3>1 DEF CallRow
  <2>. QED
    BY <1>1, <2>2, <2>3
<1>8. CASE \E outcome \in {"ok", "broken"} : StreamEnds(k, outcome)
  BY <1>1, <1>8 DEF TypeOK, StreamEnds, CallRow
<1>. QED
  BY <1>2, <1>3, <1>4, <1>5, <1>7, <1>8 DEF Progress

(***************************************************************************)
(* Next with the steps of a request taken together: the disjuncts that     *)
(* proofs about the tables have to tell apart.                             *)
(***************************************************************************)
LEMMA NextCases ==
    ASSUME [Next]_vars
    PROVE  \/ \E k \in Call, s \in Session, c \in Connection, x \in Route :
                 Authenticate(k, s, c, x)
           \/ \E k \in Call : Progress(k)
           \/ \E a \in Account : \/ CreateAccount(a) \/ EnableAccount(a)
                                 \/ DisableAccount(a) \/ DeleteAccount(a)
           \/ \E s \in Session, a \in Account : OpenSession(s, a)
           \/ \E s \in Session : RevokeSession(s)
           \/ \E c \in Connection, kind \in Kind : CreateConnection(c, kind)
           \/ \E c \in Connection, state \in {"enabled", "disabled"} :
                 SetConnectionEnabled(c, state)
           \/ \E c \in Connection : DeleteConnection(c)
           \/ \E a \in Account, c \in Connection, ops \in SUBSET Operation :
                 SetGrants(a, c, ops)
           \/ Restart
           \/ UNCHANGED vars
BY DEF Next, Progress

-----------------------------------------------------------------------------

(* Disabling an account or revoking a session leaves every session its     *)
(* account, and closes none.                                               *)
LEMMA RevokeKeepsAccounts ==
    ASSUME TypeOK,
           \/ \E a \in Account : DisableAccount(a)
           \/ \E s \in Session : RevokeSession(s)
    PROVE  \A s \in Session :
              /\ SessionExists(s)' <=> SessionExists(s)
              /\ SessionExists(s) => sessions'[s].account = sessions[s].account
              /\ sessions'[s] = Unopened <=> sessions[s] = Unopened
<1>1. ASSUME NEW a \in Account, DisableAccount(a), NEW s \in Session
      PROVE  /\ SessionExists(s)' <=> SessionExists(s)
             /\ SessionExists(s) => sessions'[s].account = sessions[s].account
             /\ sessions'[s] = Unopened <=> sessions[s] = Unopened
  <2>1. CASE s \in SessionsOf(a)
    BY <1>1, <2>1 DEF DisableAccount, SessionsOf, SessionExists, TypeOK, SessionRow,
                      Unopened, Closed
  <2>2. CASE s \notin SessionsOf(a)
    BY <1>1, <2>2 DEF DisableAccount, SessionExists
  <2>. QED
    BY <2>1, <2>2
<1>2. ASSUME NEW t \in Session, RevokeSession(t), NEW s \in Session
      PROVE  /\ SessionExists(s)' <=> SessionExists(s)
             /\ SessionExists(s) => sessions'[s].account = sessions[s].account
             /\ sessions'[s] = Unopened <=> sessions[s] = Unopened
  BY <1>2 DEF RevokeSession, SessionExists, TypeOK, SessionRow, Unopened, Closed
<1>. QED
  BY <1>1, <1>2

LEMMA TablesInit == Init => TablesInv
BY DEF Init, TablesInv, SessionsHaveAccounts, GrantsAreSound, CallsKnowTheirSession,
       SessionExists, Unopened, Unsent

(***************************************************************************)
(* Every step keeps the tables and what requests know of them in order.    *)
(* DeleteAccount is the step that decides: grants, sessions and the        *)
(* account go together, so that a request that finds its session gone      *)
(* finds its account gone.                                                 *)
(***************************************************************************)
LEMMA TablesStep == TypeOK /\ TypeOK' /\ TablesInv /\ [Next]_vars => TablesInv'
<1> SUFFICES ASSUME TypeOK, TypeOK', TablesInv, [Next]_vars
             PROVE  TablesInv'
  OBVIOUS
<1> USE DEF TablesInv
<1>1. ASSUME NEW k \in Call, NEW s \in Session, NEW c \in Connection, NEW x \in Route,
             Authenticate(k, s, c, x)
      PROVE  TablesInv'
  <2>1. sessions[s] \in SessionRow
    BY <1>1 DEF Authenticate, TypeOK, Unopened, Closed
  <2>2. CallsKnowTheirSession'
    BY <1>1, <2>1 DEF Authenticate, CallsKnowTheirSession, TypeOK, SessionExists,
                      SessionRow, Unopened
  <2>. QED
    BY <1>1, <2>2 DEF Authenticate, SessionsHaveAccounts, GrantsAreSound,
                      SessionExists, AccountExists, ConnectionExists
<1>2. ASSUME NEW k \in Call, Progress(k)
      PROVE  TablesInv'
  <2>1. connections[calls[k].connection] # Uncreated
        \/ calls'[k].served = calls[k].served
    <3>1. Authorized(calls[k].account, calls[k].connection, calls[k].route)
          => connections[calls[k].connection] # Uncreated
      BY DEF Authorized, Uncreated
    <3>. QED
      BY <1>2, <3>1, ProgressKeepsRows
  <2>2. CallsKnowTheirSession'
    BY <1>2, <2>1, ProgressKeepsRows
       DEF CallsKnowTheirSession, SessionExists, CallRow, Unsent, TypeOK
  <2>. QED
    BY <1>2, <2>2, ProgressKeepsRows
       DEF SessionsHaveAccounts, GrantsAreSound, SessionExists, AccountExists,
           ConnectionExists
<1>3. ASSUME NEW a \in Account, CreateAccount(a) \/ EnableAccount(a)
      PROVE  TablesInv'
  <2>1. \A b \in Account : AccountExists(b) => AccountExists(b)'
    BY <1>3 DEF CreateAccount, EnableAccount, AccountExists, TypeOK
  <2>2. SessionsHaveAccounts'
    BY <1>3, <2>1, RowTypes
       DEF CreateAccount, EnableAccount, SessionsHaveAccounts, SessionExists, SessionRow
  <2>3. GrantsAreSound'
    BY <1>3, <2>1 DEF CreateAccount, EnableAccount, GrantsAreSound, ConnectionExists,
                      TypeOK
  <2>4. CallsKnowTheirSession'
    BY <1>3, RowTypes
       DEF CreateAccount, EnableAccount, CallsKnowTheirSession, SessionExists,
           AccountExists, TypeOK, CallRow
  <2>. QED
    BY <2>2, <2>3, <2>4
<1>4. ASSUME NEW a \in Account, DisableAccount(a)
      PROVE  TablesInv'
  <2>1. \A b \in Account : AccountExists(b) => AccountExists(b)'
    BY <1>4 DEF DisableAccount, AccountExists, TypeOK
  <2>2. SessionsHaveAccounts'
    BY <1>4, <2>1, RevokeKeepsAccounts, RowTypes DEF SessionsHaveAccounts, SessionRow
  <2>3. GrantsAreSound'
    BY <1>4, <2>1 DEF DisableAccount, GrantsAreSound, ConnectionExists, TypeOK
  <2>4. CallsKnowTheirSession'
    <3>1. ASSUME NEW b \in Account
          PROVE  /\ accounts[b] # "absent" => accounts'[b] # "absent"
                 /\ accounts[b] = "gone" => accounts'[b] = "gone"
      BY <1>4 DEF DisableAccount, AccountExists, TypeOK
    <3>2. UNCHANGED <<calls, connections>>
      BY <1>4 DEF DisableAccount
    <3>. QED
      BY <1>4, <3>1, <3>2, RevokeKeepsAccounts, RowTypes
         DEF CallsKnowTheirSession, CallRow
  <2>. QED
    BY <2>2, <2>3, <2>4
<1>5. ASSUME NEW a \in Account, DeleteAccount(a)
      PROVE  TablesInv'
  <2>1. ASSUME NEW s \in Session, SessionExists(s)'
        PROVE  /\ SessionExists(s)
               /\ sessions'[s] = sessions[s]
               /\ sessions[s].account # a
    BY <1>5, <2>1 DEF DeleteAccount, SessionsOf, SessionExists, Closed
  <2>2. SessionsHaveAccounts'
    BY <1>5, <2>1, RowTypes DEF DeleteAccount, SessionsHaveAccounts, AccountExists,
                                TypeOK, SessionRow
  <2>3. GrantsAreSound'
    BY <1>5 DEF DeleteAccount, GrantsAreSound, AccountExists, ConnectionExists, TypeOK
  <2>4. CallsKnowTheirSession'
    BY <1>5 DEF DeleteAccount, CallsKnowTheirSession, SessionsOf, SessionExists,
                AccountExists, Closed, Unopened, TypeOK, CallRow
  <2>. QED
    BY <2>2, <2>3, <2>4
<1>6. ASSUME NEW s \in Session, NEW a \in Account, OpenSession(s, a)
      PROVE  TablesInv'
  <2>1. SessionsHaveAccounts' /\ GrantsAreSound'
    BY <1>6 DEF OpenSession, SessionsHaveAccounts, GrantsAreSound, SessionExists,
                AccountExists, ConnectionExists, TypeOK
  <2>2. CallsKnowTheirSession'
    BY <1>6 DEF OpenSession, CallsKnowTheirSession, SessionExists, Unopened, TypeOK, CallRow
  <2>. QED
    BY <2>1, <2>2
<1>7. ASSUME NEW s \in Session, RevokeSession(s)
      PROVE  TablesInv'
  <2>1. SessionsHaveAccounts'
    BY <1>7, RevokeKeepsAccounts DEF RevokeSession, SessionsHaveAccounts, AccountExists
  <2>3. GrantsAreSound'
    BY <1>7 DEF RevokeSession, GrantsAreSound, AccountExists, ConnectionExists
  <2>2. CallsKnowTheirSession'
    BY <1>7, RevokeKeepsAccounts
       DEF RevokeSession, CallsKnowTheirSession, AccountExists, TypeOK, CallRow
  <2>. QED
    BY <2>1, <2>2, <2>3
<1>8. ASSUME NEW c \in Connection,
             \/ \E kind \in Kind : CreateConnection(c, kind)
             \/ \E state \in {"enabled", "disabled"} : SetConnectionEnabled(c, state)
             \/ DeleteConnection(c)
      PROVE  TablesInv'
  <2>1. /\ UNCHANGED <<accounts, sessions, calls>>
        /\ \A d \in Connection \ {c} : connections'[d] = connections[d]
        /\ connections'[c] # Uncreated
    BY <1>8 DEF CreateConnection, SetConnectionEnabled, DeleteConnection, TypeOK,
                ConnectionExists, ConnectionRow, Uncreated, Deleted
  <2>2. SessionsHaveAccounts'
    BY <2>1 DEF SessionsHaveAccounts, SessionExists, AccountExists
  <2>3. CallsKnowTheirSession'
    BY <2>1 DEF CallsKnowTheirSession, SessionExists, TypeOK, CallRow
  <2>4. CASE \E kind \in Kind : CreateConnection(c, kind)
    <3>1. \A g \in grants : g[2] # c
      BY <2>4 DEF CreateConnection, GrantsAreSound, ConnectionExists, Uncreated
    <3>2. GrantsAreSound'
      BY <2>1, <2>4, <3>1 DEF CreateConnection, GrantsAreSound, AccountExists,
                              ConnectionExists, TypeOK
    <3>. QED
      BY <2>2, <2>3, <3>2
  <2>5. CASE \E state \in {"enabled", "disabled"} : SetConnectionEnabled(c, state)
    <3>1. /\ connections'[c].state \in {"enabled", "disabled"}
          /\ connections'[c].kind = connections[c].kind
          /\ UNCHANGED grants
      BY <2>5 DEF SetConnectionEnabled, TypeOK, ConnectionExists, ConnectionRow,
                  Uncreated, Deleted
    <3>2. GrantsAreSound'
      BY <2>1, <3>1 DEF GrantsAreSound, AccountExists, ConnectionExists, TypeOK
    <3>. QED
      BY <2>2, <2>3, <3>2
  <2>6. CASE DeleteConnection(c)
    <3>1. GrantsAreSound'
      BY <2>1, <2>6 DEF DeleteConnection, GrantsAreSound, AccountExists,
                        ConnectionExists, TypeOK
    <3>. QED
      BY <2>2, <2>3, <3>1
  <2>. QED
    BY <1>8, <2>4, <2>5, <2>6
<1>9. ASSUME NEW a \in Account, NEW c \in Connection, NEW ops \in SUBSET Operation,
             SetGrants(a, c, ops)
      PROVE  TablesInv'
  <2>1. GrantsAreSound'
    BY <1>9 DEF SetGrants, GrantsAreSound, AccountExists, ConnectionExists
  <2>. QED
    BY <1>9, <2>1 DEF SetGrants, SessionsHaveAccounts, CallsKnowTheirSession,
                      SessionExists, AccountExists
<1>10. CASE Restart
  <2>1. \A k \in Call : calls[k] # Unsent => calls[k] \in CallRow
    BY DEF TypeOK
  <2>2. \A k \in Call : calls'[k] # Unsent =>
            /\ calls[k] # Unsent
            /\ calls'[k].account = calls[k].account
            /\ calls'[k].session = calls[k].session
            /\ calls'[k].connection = calls[k].connection
            /\ calls'[k].served = calls[k].served
    BY <1>10, <2>1 DEF Restart, CallRow, Unsent
  <2>3. CallsKnowTheirSession'
    BY <1>10, <2>2 DEF Restart, CallsKnowTheirSession, SessionExists
  <2>. QED
    BY <1>10, <2>3 DEF Restart, SessionsHaveAccounts, GrantsAreSound, SessionExists,
                       AccountExists, ConnectionExists
<1>11. CASE UNCHANGED vars
  BY <1>11 DEF vars, SessionsHaveAccounts, GrantsAreSound, CallsKnowTheirSession,
               SessionExists, AccountExists, ConnectionExists
<1>. QED
  BY NextCases, <1>1, <1>2, <1>3, <1>4, <1>5, <1>6, <1>7, <1>8, <1>9, <1>10, <1>11

-----------------------------------------------------------------------------

LEMMA AuditInit == Init => AuditInv
BY DEF Init, AuditInv, UnansweredHaveNoRow, NotServedBeforeDispatch, SuccessIsAudited,
       UnauditedAreOrphans, AuditTellsWhoDidIt, Rows, Unsent

(* Whatever exists stays, and whatever is gone stays gone. *)
NothingGoes ==
    /\ \A a \in Account : /\ AccountExists(a) => AccountExists(a)'
                          /\ accounts[a] = "gone" => accounts'[a] = "gone"
    /\ \A s \in Session : SessionExists(s) =>
          SessionExists(s)' /\ sessions'[s].account = sessions[s].account
    /\ \A c \in Connection : /\ ConnectionExists(c) => ConnectionExists(c)'
                             /\ connections[c] = Deleted => connections'[c] = Deleted

(* the steps of a request that write no audit row *)
Quiet(k) ==
    /\ calls[k] \in CallRow /\ calls'[k] \in CallRow
    /\ calls'[k].account = calls[k].account
    /\ calls'[k].session = calls[k].session
    /\ calls'[k].connection = calls[k].connection
    /\ calls'[k].applied = calls[k].applied
    /\ \/ /\ calls[k].phase = "authenticated" /\ calls'[k].phase = "serving"
       \/ /\ calls[k].phase = "authenticated" /\ calls'[k].phase = "error"
          /\ calls'[k].served = calls[k].served
       \/ /\ calls[k].phase = "streaming" /\ calls'[k].phase \in {"ok", "broken"}
       \/ calls'[k].phase = "lost"

(***************************************************************************)
(* A step that neither writes to the audit nor deletes anything keeps the  *)
(* audit in order.                                                         *)
(***************************************************************************)
LEMMA QuietStep ==
    ASSUME TypeOK, AuditInv, UNCHANGED audit, NothingGoes,
           \A k \in Call : \/ calls'[k] = calls[k]
                           \/ /\ calls[k] = Unsent
                              /\ calls'[k] \in CallRow
                              /\ calls'[k].phase = "authenticated"
                              /\ calls'[k].served = FALSE
                           \/ Quiet(k)
    PROVE  AuditInv'
<1> USE DEF AuditInv
<1>1. \A k \in Call : Rows(k)' = Rows(k)
  BY DEF Rows
<1>2. UnansweredHaveNoRow'
  BY <1>1 DEF UnansweredHaveNoRow, Quiet, Unsent
<1>3. NotServedBeforeDispatch'
  BY DEF NotServedBeforeDispatch, Quiet, CallRow
<1>4. SuccessIsAudited'
  BY <1>1 DEF SuccessIsAudited, Quiet
<1>5. UnauditedAreOrphans'
  <2>1. SUFFICES ASSUME NEW k \in Call, calls'[k].phase \in {"ok", "broken", "error"},
                        calls'[k].served, Rows(k) = {}
                 PROVE  /\ calls[k].phase \in {"ok", "broken", "error"}
                        /\ calls'[k] = calls[k]
                        /\ calls[k] \in CallRow
    BY <1>1 DEF UnauditedAreOrphans, NothingGoes, CallRow
  <2>2. ~Quiet(k)
    BY <2>1 DEF Quiet, SuccessIsAudited, NotServedBeforeDispatch, CallRow
  <2>3. calls'[k] = calls[k]
    BY <2>1, <2>2
  <2>. QED
    BY <2>1, <2>3 DEF TypeOK, Unsent
<1>6. AuditTellsWhoDidIt'
  <2>1. SUFFICES ASSUME NEW e \in audit
                 PROVE  AuditTellsWhoDidIt!(e)'
    BY DEF AuditTellsWhoDidIt
  <2>2. /\ e \in AuditRow
        /\ calls[e.call] # Unsent
    BY DEF TypeOK, UnansweredHaveNoRow, Rows, AuditRow, Unsent
  <2>3. /\ calls'[e.call].account = calls[e.call].account
        /\ calls'[e.call].session = calls[e.call].session
        /\ calls'[e.call].connection = calls[e.call].connection
        /\ calls'[e.call].applied = calls[e.call].applied
    BY <2>2 DEF Quiet, AuditRow
  <2>. QED
    BY <2>2, <2>3 DEF AuditTellsWhoDidIt, NothingGoes, AuditRow
<1>. QED
  BY <1>2, <1>3, <1>4, <1>5, <1>6

(***************************************************************************)
(* A request that is refused or answered writes its one audit row, or none *)
(* when a foreign key refuses it: then the account or the connection was   *)
(* deleted while the gateway worked.                                       *)
(***************************************************************************)
LEMMA AppendStep ==
    ASSUME TypeOK, TypeOK', TablesInv, AuditInv, NEW k \in Call, NEW success \in BOOLEAN,
           calls[k].phase \in {"authenticated", "serving"},
           AppendAudit(k, success),
           Progress(k),
           success => calls'[k].applied,
           calls'[k].phase \in {"error", "streaming", "ok"},
           calls'[k].phase # "error" => success /\ Referenced(k),
           calls'[k].served = calls[k].served
    PROVE  AuditInv'
<1> USE DEF AuditInv
<1> DEFINE row == RowOf(k, success)
<1>1. /\ Rows(k) = {}
      /\ row.call = k
      /\ row.success = success
  BY DEF UnansweredHaveNoRow, RowOf
<1>2. /\ Rows(k)' = IF Referenced(k) THEN {row} ELSE {}
      /\ \A j \in Call \ {k} : Rows(j)' = Rows(j) /\ calls'[j] = calls[j]
  <2>1. \A j \in Call \ {k} : calls'[j] = calls[j]
    BY ProgressKeepsRows DEF TypeOK
  <2>2. CASE Referenced(k)
    BY <1>1, <2>1, <2>2 DEF AppendAudit, Rows
  <2>3. CASE ~Referenced(k)
    BY <1>1, <2>1, <2>3 DEF AppendAudit, Rows
  <2>. QED
    BY <2>2, <2>3
<1> HIDE DEF row
<1>3. UnansweredHaveNoRow' /\ NotServedBeforeDispatch'
  BY <1>2 DEF UnansweredHaveNoRow, NotServedBeforeDispatch
<1>4. SuccessIsAudited'
  BY <1>1, <1>2 DEF SuccessIsAudited
<1>5. UnauditedAreOrphans'
  <2>1. ASSUME calls'[k].served, ~Referenced(k)
        PROVE  \/ accounts[calls[k].account] = "gone"
               \/ connections[calls[k].connection] = Deleted
    <3>1. calls[k] # Unsent /\ calls[k] \in CallRow /\ calls[k].served
      BY <2>1, ProgressKeepsRows DEF Unsent
    <3>2. CASE ~AccountExists(calls[k].account)
      BY <3>1, <3>2 DEF TablesInv, CallsKnowTheirSession, AccountExists, TypeOK, CallRow
    <3>3. CASE ~SessionExists(calls[k].session)
      BY <3>1, <3>3 DEF TablesInv, CallsKnowTheirSession
    <3>4. CASE ~ConnectionExists(calls[k].connection)
      BY <3>1, <3>4 DEF TablesInv, CallsKnowTheirSession, ConnectionExists, TypeOK,
                        CallRow, ConnectionRow
    <3>. QED
      BY <2>1, <3>2, <3>3, <3>4 DEF Referenced
  <2>2. UNCHANGED <<accounts, connections>>
        /\ calls'[k].account = calls[k].account
        /\ calls'[k].connection = calls[k].connection
    BY ProgressKeepsRows
  <2>. QED
    BY <1>2, <2>1, <2>2 DEF UnauditedAreOrphans
<1>6. AuditTellsWhoDidIt'
  <2>1. SUFFICES ASSUME NEW e \in audit'
                 PROVE  AuditTellsWhoDidIt!(e)'
    BY DEF AuditTellsWhoDidIt
  <2>2. CASE e \in audit
    <3>1. e.call \in Call /\ e.call # k
      BY <1>1, <2>2 DEF Rows, TypeOK, AuditRow
    <3>. QED
      BY <1>2, <2>2, <3>1, ProgressKeepsRows
         DEF AuditTellsWhoDidIt, AccountExists, SessionExists, ConnectionExists
  <2>3. CASE e \notin audit
    <3>1. e = row /\ Referenced(k)
      BY <2>3 DEF AppendAudit, row
    <3>2. /\ e.account = calls[k].account
          /\ e.session = calls[k].session
          /\ e.connection = calls[k].connection
          /\ e.call = k
          /\ e.success = success
      BY <3>1 DEF row, RowOf
    <3>3. sessions[calls[k].session].account = calls[k].account
      BY <3>1, ProgressKeepsRows DEF TablesInv, CallsKnowTheirSession, Referenced, Unsent
    <3>. QED
      BY <3>1, <3>2, <3>3, ProgressKeepsRows
         DEF Referenced, AccountExists, SessionExists, ConnectionExists
  <2>. QED
    BY <2>2, <2>3
<1>. QED
  BY <1>3, <1>4, <1>5, <1>6

(***************************************************************************)
(* A deletion that sets references in the audit to NULL keeps every        *)
(* request its rows.                                                       *)
(***************************************************************************)
LEMMA ForgetStep ==
    ASSUME TypeOK, AuditInv, NEW f, UNCHANGED calls,
           audit' = {f[e] : e \in audit},
           \A e \in audit : f[e].call = e.call /\ f[e].success = e.success,
           \A a \in Account : accounts[a] = "gone" => accounts'[a] = "gone",
           \A c \in Connection : connections[c] = Deleted => connections'[c] = Deleted
    PROVE  /\ UnansweredHaveNoRow' /\ NotServedBeforeDispatch'
           /\ SuccessIsAudited' /\ UnauditedAreOrphans'
<1> USE DEF AuditInv
<1>1. \A k \in Call : Rows(k)' = {f[e] : e \in Rows(k)}
  BY DEF Rows
<1>2. UnansweredHaveNoRow' /\ NotServedBeforeDispatch'
  BY <1>1 DEF UnansweredHaveNoRow, NotServedBeforeDispatch
<1>3. SuccessIsAudited'
  <2>1. SUFFICES ASSUME NEW k \in Call, calls[k].phase \in {"ok", "streaming", "broken"}
                 PROVE  \E e \in Rows(k)' : e.success /\ Rows(k)' = {e}
    BY DEF SuccessIsAudited
  <2>2. PICK e \in Rows(k) : e.success /\ Rows(k) = {e}
    BY <2>1 DEF SuccessIsAudited
  <2>3. Rows(k)' = {f[e]} /\ f[e].success
    BY <1>1, <2>2 DEF Rows
  <2>. QED
    BY <2>3
<1>4. UnauditedAreOrphans'
  <2>1. SUFFICES ASSUME NEW k \in Call, calls[k].phase \in {"ok", "broken", "error"},
                        calls[k].served, Rows(k)' = {}
                 PROVE  \/ accounts'[calls[k].account] = "gone"
                        \/ connections'[calls[k].connection] = Deleted
    BY DEF UnauditedAreOrphans
  <2>2. Rows(k) = {}
    BY <1>1, <2>1
  <2>3. calls[k].account \in Account /\ calls[k].connection \in Connection
    BY <2>1 DEF TypeOK, CallRow, Unsent
  <2>4. \/ accounts[calls[k].account] = "gone"
        \/ connections[calls[k].connection] = Deleted
    BY <2>1, <2>2 DEF UnauditedAreOrphans
  <2>. QED
    BY <2>3, <2>4
<1>. QED
  BY <1>2, <1>3, <1>4

LEMMA DeleteAccountStep ==
    ASSUME TypeOK, AuditInv, NEW a \in Account, DeleteAccount(a)
    PROVE  AuditInv'
<1> DEFINE Forgotten(e) == [e EXCEPT !.account = IF @ = a THEN NoRef ELSE @,
                                     !.session = IF @ \in SessionsOf(a) THEN NoRef ELSE @]
           f == [e \in audit |-> Forgotten(e)]
<1>1. ASSUME NEW e \in audit
      PROVE  /\ f[e].call = e.call
             /\ f[e].success = e.success
             /\ f[e].connection = e.connection
             /\ f[e].account = IF e.account = a THEN NoRef ELSE e.account
             /\ f[e].session = IF e.session \in SessionsOf(a) THEN NoRef ELSE e.session
  BY <1>1 DEF TypeOK, AuditRow
<1>2. audit' = {f[e] : e \in audit}
  BY DEF DeleteAccount
<1> HIDE DEF f
<1>3. /\ UnansweredHaveNoRow' /\ NotServedBeforeDispatch'
      /\ SuccessIsAudited' /\ UnauditedAreOrphans'
  <2>1. /\ UNCHANGED <<calls, connections>>
        /\ \A b \in Account : accounts[b] = "gone" => accounts'[b] = "gone"
    BY DEF DeleteAccount, TypeOK
  <2>. QED
    BY <1>1, <1>2, <2>1, ForgetStep
<1>4. AuditTellsWhoDidIt'
  <2>1. SUFFICES ASSUME NEW e \in audit, NEW o, o = f[e]
                 PROVE  AuditTellsWhoDidIt!(o)'
    BY <1>2 DEF AuditTellsWhoDidIt
  <2>2. /\ e \in AuditRow
        /\ AuditTellsWhoDidIt!(e)
    BY DEF AuditInv, AuditTellsWhoDidIt, TypeOK
  <2>3. /\ UNCHANGED <<calls, connections>>
        /\ \A b \in Account \ {a} : accounts'[b] = accounts[b]
        /\ \A s \in Session \ SessionsOf(a) : sessions'[s] = sessions[s]
    BY DEF DeleteAccount, TypeOK
  <2>4. f[e].account # NoRef => f[e].account = e.account /\ e.account \in Account \ {a}
    BY <1>1, <2>2 DEF AuditRow
  <2>5. f[e].session # NoRef =>
            /\ f[e].session = e.session
            /\ e.session \in Session \ SessionsOf(a)
            /\ f[e].account = e.account
    BY <1>1, <2>2 DEF AuditRow, SessionsOf
  <2>. QED
    BY <1>1, <2>1, <2>2, <2>3, <2>4, <2>5
       DEF AccountExists, SessionExists, ConnectionExists
<1>. QED
  BY <1>3, <1>4 DEF AuditInv

LEMMA DeleteConnectionStep ==
    ASSUME TypeOK, AuditInv, NEW c \in Connection, DeleteConnection(c)
    PROVE  AuditInv'
<1> DEFINE Forgotten(e) == [e EXCEPT !.connection = IF @ = c THEN NoRef ELSE @]
           f == [e \in audit |-> Forgotten(e)]
<1>1. ASSUME NEW e \in audit
      PROVE  /\ f[e].call = e.call
             /\ f[e].success = e.success
             /\ f[e].account = e.account
             /\ f[e].session = e.session
             /\ f[e].connection = IF e.connection = c THEN NoRef ELSE e.connection
  BY <1>1 DEF TypeOK, AuditRow
<1>2. audit' = {f[e] : e \in audit}
  BY DEF DeleteConnection
<1> HIDE DEF f
<1>3. /\ UnansweredHaveNoRow' /\ NotServedBeforeDispatch'
      /\ SuccessIsAudited' /\ UnauditedAreOrphans'
  <2>1. /\ UNCHANGED <<calls, accounts>>
        /\ \A d \in Connection : connections[d] = Deleted => connections'[d] = Deleted
    BY DEF DeleteConnection, TypeOK
  <2>. QED
    BY <1>1, <1>2, <2>1, ForgetStep
<1>4. AuditTellsWhoDidIt'
  <2>1. SUFFICES ASSUME NEW e \in audit, NEW o, o = f[e]
                 PROVE  AuditTellsWhoDidIt!(o)'
    BY <1>2 DEF AuditTellsWhoDidIt
  <2>2. /\ e \in AuditRow
        /\ AuditTellsWhoDidIt!(e)
    BY DEF AuditInv, AuditTellsWhoDidIt, TypeOK
  <2>3. /\ UNCHANGED <<calls, accounts, sessions>>
        /\ \A d \in Connection \ {c} : connections'[d] = connections[d]
    BY DEF DeleteConnection, TypeOK
  <2>4. f[e].connection # NoRef =>
            f[e].connection = e.connection /\ e.connection \in Connection \ {c}
    BY <1>1, <2>2 DEF AuditRow
  <2>. QED
    BY <1>1, <2>1, <2>2, <2>3, <2>4 DEF AccountExists, SessionExists, ConnectionExists
<1>. QED
  BY <1>3, <1>4 DEF AuditInv

(* Every step keeps the audit in order. *)
LEMMA AuditStep ==
    TypeOK /\ TypeOK' /\ TablesInv /\ AuditInv /\ [Next]_vars => AuditInv'
<1> SUFFICES ASSUME TypeOK, TypeOK', TablesInv, AuditInv, [Next]_vars
             PROVE  AuditInv'
  OBVIOUS
<1>0. ASSUME UNCHANGED <<accounts, sessions, connections>>
      PROVE  NothingGoes
  BY <1>0 DEF NothingGoes, AccountExists, SessionExists, ConnectionExists
<1>1. ASSUME NEW k \in Call, NEW s \in Session, NEW c \in Connection, NEW x \in Route,
             Authenticate(k, s, c, x)
      PROVE  AuditInv'
  <2>1. /\ calls[k] = Unsent
        /\ calls'[k].phase = "authenticated" /\ calls'[k].served = FALSE
        /\ \A j \in Call \ {k} : calls'[j] = calls[j]
    BY <1>1 DEF Authenticate, TypeOK
  <2>2. calls'[k] \in CallRow
    BY <2>1 DEF TypeOK, Unsent
  <2>. QED
    BY <1>0, <1>1, <2>1, <2>2, QuietStep DEF Authenticate
<1>2. ASSUME NEW k \in Call, Progress(k)
      PROVE  AuditInv'
  <2>1. \A j \in Call \ {k} : calls'[j] = calls[j]
    BY <1>2, ProgressKeepsRows DEF TypeOK
  <2>2. CASE RefuseBody(k) \/ Dispatch(k)
             \/ \E outcome \in {"ok", "broken"} : StreamEnds(k, outcome)
    <3>1. Quiet(k)
      BY <1>2, <2>2, ProgressKeepsRows
         DEF Quiet, RefuseBody, Dispatch, StreamEnds, TypeOK, CallRow
    <3>. QED
      BY <1>0, <1>2, <2>1, <2>2, <3>1, QuietStep, ProgressKeepsRows
         DEF RefuseBody, Dispatch, StreamEnds
  <2>3. CASE Deny(k)
    <3>1. calls'[k].phase = "error" /\ calls'[k].served = calls[k].served
      BY <1>2, <2>3, ProgressKeepsRows DEF Deny, TypeOK, CallRow
    <3>. QED
      BY <1>2, <2>3, <3>1, AppendStep DEF Deny
  <2>4. CASE GatewaySucceeds(k)
    <3>1. PICK phase \in {"error", "streaming", "ok"} :
              /\ calls' = [calls EXCEPT ![k] = [calls[k] EXCEPT !.applied = TRUE,
                                                                !.phase = phase]]
              /\ phase # "error" => Referenced(k)
      <4>1. CASE Referenced(k)
        BY <2>4, <4>1 DEF GatewaySucceeds
      <4>2. CASE ~Referenced(k)
        BY <2>4, <4>2 DEF GatewaySucceeds
      <4>. QED
        BY <4>1, <4>2
    <3>2. /\ calls'[k].applied = TRUE
          /\ calls'[k].phase = phase
          /\ calls'[k].served = calls[k].served
      BY <1>2, <3>1, ProgressKeepsRows DEF TypeOK, CallRow
    <3>. QED
      BY <1>2, <2>4, <3>1, <3>2, AppendStep DEF GatewaySucceeds
  <2>5. CASE \E applied \in BOOLEAN : GatewayFails(k, applied)
    <3>1. PICK applied \in BOOLEAN : GatewayFails(k, applied)
      BY <2>5
    <3>2. calls[k] \in CallRow
      BY <1>2, ProgressKeepsRows
    <3>3. calls'[k].phase = "error" /\ calls'[k].served = calls[k].served
      <4>1. calls'[k] = [calls[k] EXCEPT !.phase = "error", !.applied = applied]
        BY <3>1, <3>2 DEF GatewayFails, TypeOK
      <4>. QED
        BY <3>2, <4>1 DEF CallRow
    <3>. QED
      BY <1>2, <3>1, <3>3, AppendStep DEF GatewayFails
  <2>. QED
    BY <1>2, <2>2, <2>3, <2>4, <2>5 DEF Progress
<1>3. ASSUME NEW a \in Account,
             CreateAccount(a) \/ EnableAccount(a) \/ DisableAccount(a)
      PROVE  AuditInv'
  <2>1. NothingGoes
    BY <1>3, RevokeKeepsAccounts
       DEF CreateAccount, EnableAccount, DisableAccount, NothingGoes, AccountExists,
           SessionExists, ConnectionExists, TypeOK
  <2>. QED
    BY <1>3, <2>1, QuietStep DEF CreateAccount, EnableAccount, DisableAccount
<1>4. ASSUME NEW a \in Account, DeleteAccount(a)
      PROVE  AuditInv'
  BY <1>4, DeleteAccountStep
<1>5. ASSUME NEW s \in Session,
             RevokeSession(s) \/ \E a \in Account : OpenSession(s, a)
      PROVE  AuditInv'
  <2>1. NothingGoes
    BY <1>5, RevokeKeepsAccounts
       DEF RevokeSession, OpenSession, NothingGoes, AccountExists, SessionExists,
           ConnectionExists, TypeOK, Unopened
  <2>. QED
    BY <1>5, <2>1, QuietStep DEF RevokeSession, OpenSession
<1>6. ASSUME NEW c \in Connection,
             \/ \E kind \in Kind : CreateConnection(c, kind)
             \/ \E state \in {"enabled", "disabled"} : SetConnectionEnabled(c, state)
      PROVE  AuditInv'
  <2>1. NothingGoes
    BY <1>6 DEF CreateConnection, SetConnectionEnabled, NothingGoes, AccountExists,
                SessionExists, ConnectionExists, TypeOK, ConnectionRow, Uncreated, Deleted
  <2>. QED
    BY <1>6, <2>1, QuietStep DEF CreateConnection, SetConnectionEnabled
<1>7. ASSUME NEW c \in Connection, DeleteConnection(c)
      PROVE  AuditInv'
  BY <1>7, DeleteConnectionStep
<1>8. ASSUME NEW a \in Account, NEW c \in Connection, NEW ops \in SUBSET Operation,
             SetGrants(a, c, ops)
      PROVE  AuditInv'
  BY <1>0, <1>8, QuietStep DEF SetGrants
<1>9. CASE Restart
  <2>1. ASSUME NEW k \in Call
        PROVE  calls'[k] = calls[k] \/ Quiet(k)
    <3>1. CASE calls[k].phase \in {"authenticated", "serving", "streaming"}
      <4>1. calls[k] \in CallRow
        BY <3>1 DEF TypeOK, Unsent
      <4>2. calls'[k] = [calls[k] EXCEPT !.phase = "lost"]
        BY <1>9, <3>1 DEF Restart
      <4>. QED
        BY <4>1, <4>2 DEF Quiet, CallRow
    <3>2. CASE calls[k].phase \notin {"authenticated", "serving", "streaming"}
      BY <1>9, <3>2 DEF Restart
    <3>. QED
      BY <3>1, <3>2
  <2>. QED
    BY <1>0, <1>9, <2>1, QuietStep DEF Restart
<1>10. CASE UNCHANGED vars
  BY <1>0, <1>10, QuietStep DEF vars
<1>. QED
  BY NextCases, <1>1, <1>2, <1>3, <1>4, <1>5, <1>6, <1>7, <1>8, <1>9, <1>10

-----------------------------------------------------------------------------
(* What is proved about every number of accounts, sessions, connections,   *)
(* requests and routes.                                                    *)

(* Together with the types, the two invariants are inductive. *)
LEMMA InductiveInvariant == Spec => [](TypeOK /\ TablesInv /\ AuditInv)
<1>1. Init => TypeOK /\ TablesInv /\ AuditInv
  BY InitType, TablesInit, AuditInit
<1>2. TypeOK /\ TablesInv /\ AuditInv /\ [Next]_vars
      => (TypeOK /\ TablesInv /\ AuditInv)'
  BY TypeStep, TablesStep, AuditStep
<1>. QED
  BY <1>1, <1>2, PTL DEF Spec

(***************************************************************************)
(* withAudit: a client that was told of a success has exactly one audit    *)
(* row, a success, whatever was deleted during the gateway's work.         *)
(***************************************************************************)
THEOREM SuccessesAreAudited == Spec => []SuccessIsAudited
<1>1. AuditInv => SuccessIsAudited
  BY DEF AuditInv
<1>. QED
  BY <1>1, InductiveInvariant, PTL

(***************************************************************************)
(* withAudit and the foreign keys of audit_events: a call the gateway      *)
(* served and the client was answered has a row unless its account or its  *)
(* connection was deleted.                                                 *)
(***************************************************************************)
THEOREM OnlyOrphansAreUnaudited == Spec => []UnauditedAreOrphans
<1>1. AuditInv => UnauditedAreOrphans
  BY DEF AuditInv
<1>. QED
  BY <1>1, InductiveInvariant, PTL

(***************************************************************************)
(* ON DELETE SET NULL: an audit row names the account, session and         *)
(* connection of its call, or nothing once that is deleted, and reports no *)
(* success the remote end did not give.                                    *)
(***************************************************************************)
THEOREM AuditIsTrue == Spec => []AuditTellsWhoDidIt
<1>1. AuditInv => AuditTellsWhoDidIt
  BY DEF AuditInv
<1>. QED
  BY <1>1, InductiveInvariant, PTL

(***************************************************************************)
(* GET /resources: what an account is shown it may do, and no grant        *)
(* outlives its account or its connection.                                 *)
(***************************************************************************)
THEOREM ListedOperationsWork == Spec => []ListedIsUsable
<1>1. TypeOK /\ TablesInv => ListedIsUsable
  <2>1. SUFFICES ASSUME TypeOK, GrantsAreSound
                 PROVE  ListedIsUsable
    BY DEF TablesInv
  <2>2. ASSUME NEW a \in Account, NEW r \in Listed(a), NEW x \in Route,
               OperationOf[x] = r[2]
        PROVE  Authorized(a, r[1], x)
    <3>1. /\ r[1] \in Connection
          /\ connections[r[1]].state = "enabled"
          /\ <<a, r[1], OperationOf[x]>> \in grants
      BY <2>2 DEF Listed
    <3>2. OperationOf[x] \in OperationsOn(connections[r[1]].kind)
      BY <2>1, <3>1 DEF GrantsAreSound
    <3>. QED
      BY <3>1, <3>2, OperationsTellKinds DEF Authorized
  <2>. QED
    BY <2>1, <2>2 DEF ListedIsUsable, GrantsAreSound
<1>. QED
  BY <1>1, InductiveInvariant, PTL

(***************************************************************************)
(* authorize reads only the grant.  Since a deletion takes grants,         *)
(* sessions and account in one transaction, that is enough: no gateway is  *)
(* called for an account, a session or a connection that is gone.          *)
(***************************************************************************)
THEOREM DeletionIsEffective == Spec => NeverServedOnceDeleted
<1>1. ASSUME TypeOK, TypeOK', TablesInv, [Next]_vars, NEW k \in Call,
             calls'[k].phase = "serving", calls[k].phase # "serving"
      PROVE  /\ AccountExists(calls[k].account)
             /\ SessionExists(calls[k].session)
             /\ ConnectionExists(calls[k].connection)
  <2>1. Dispatch(k)
    <3>1. calls'[k] # calls[k]
      BY <1>1
    <3>2. ASSUME NEW j \in Call, Progress(j)
          PROVE  Dispatch(k)
      <4>1. j = k
        BY <1>1, <3>1, <3>2, ProgressKeepsRows DEF TypeOK
      <4>2. calls[k] \in CallRow
        BY <1>1, <3>2, <4>1, ProgressKeepsRows
      <4>3. ~RefuseBody(k) /\ ~Deny(k)
        <5>1. RefuseBody(k) \/ Deny(k) => calls'[k] = [calls[k] EXCEPT !.phase = "error"]
          BY <1>1 DEF RefuseBody, Deny, TypeOK
        <5>. QED
          BY <1>1, <4>2, <5>1 DEF CallRow
      <4>4. ~GatewaySucceeds(k) /\ \A applied \in BOOLEAN : ~GatewayFails(k, applied)
        BY <1>1 DEF GatewaySucceeds, GatewayFails
      <4>5. \A outcome \in {"ok", "broken"} : ~StreamEnds(k, outcome)
        BY <1>1, <4>2 DEF StreamEnds, TypeOK, CallRow
      <4>. QED
        BY <3>2, <4>1, <4>3, <4>4, <4>5 DEF Progress
    <3>3. ASSUME NEW j \in Call, NEW s \in Session, NEW c \in Connection, NEW x \in Route,
                 Authenticate(j, s, c, x)
          PROVE  FALSE
      BY <1>1, <3>3 DEF Authenticate, TypeOK
    <3>4. ~Restart
      <4>1. ASSUME Restart
            PROVE  FALSE
        <5>1. calls[k].phase \in {"authenticated", "serving", "streaming"}
              /\ calls'[k] = [calls[k] EXCEPT !.phase = "lost"]
          BY <3>1, <4>1 DEF Restart
        <5>2. calls[k] \in CallRow
          BY <1>1, <5>1 DEF TypeOK, Unsent
        <5>. QED
          BY <1>1, <5>1, <5>2 DEF CallRow
      <4>. QED
        BY <4>1
    <3>5. calls' # calls
      BY <3>1
    <3>. QED
      BY <1>1, <3>2, <3>3, <3>4, <3>5, NextCases
         DEF CreateAccount, EnableAccount, DisableAccount, DeleteAccount, OpenSession,
             RevokeSession, CreateConnection, SetConnectionEnabled, DeleteConnection,
             SetGrants, vars
  <2>2. calls[k] # Unsent
    BY <2>1 DEF Dispatch, Unsent
  <2>3. <<calls[k].account, calls[k].connection, OperationOf[calls[k].route]>> \in grants
    BY <2>1 DEF Dispatch, Authorized
  <2>4. AccountExists(calls[k].account) /\ ConnectionExists(calls[k].connection)
    BY <1>1, <2>3 DEF TablesInv, GrantsAreSound
  <2>. QED
    BY <1>1, <2>2, <2>4 DEF TablesInv, CallsKnowTheirSession, AccountExists
<1>2. (TypeOK /\ TablesInv) /\ (TypeOK /\ TablesInv)' /\ [Next]_vars
      => [ \A k \in Call : calls'[k].phase = "serving" /\ calls[k].phase # "serving" =>
             AccountExists(calls[k].account) /\ SessionExists(calls[k].session)
             /\ ConnectionExists(calls[k].connection) ]_vars
  BY <1>1
<1>. QED
  BY <1>2, InductiveInvariant, PTL DEF Spec, NeverServedOnceDeleted

=============================================================================
