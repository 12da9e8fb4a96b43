------------------------------- MODULE SqlGateway -------------------------------
(***************************************************************************)
(* One call on a remote database: DriverSQLGateway's four operations       *)
(* (src/adapters/sql-gateway.ts) for both drivers.  The caller may hang up *)
(* (its AbortSignal) and the link to the database may break at any await.  *)
(* What the remote server does with its session is part of the model.  The *)
(* gateway sends the client's text as it is, so the text may be several    *)
(* statements (node-postgres without parameters) or call a procedure, and  *)
(* may end by itself the transaction that the gateway began for it.        *)
(***************************************************************************)
EXTENDS Naturals

VARIABLES
    call,        \* the driver and the operation of the call
    pc,          \* the await the code has reached
    transaction, \* the code's `let transaction`
    conn,        \* the connection: none, up, broken, ended
    hungUp,      \* has the caller hung up: no, before or after the last check?
    outcome,     \* what the code is about to answer: pending, ok, failed
    server,      \* the server's session: none, idle, open (transaction), written
    effect,      \* has the client's text taken effect for good, in whole or part?
    committed    \* history variable: was a COMMIT sent, first by the text or the code?

vars == <<call, pc, transaction, conn, hungUp, outcome, server, effect, committed>>

(* the awaits of test() and of the four private methods, in their order;   *)
(* tables() is a query of the gateway's own                                *)
Calls == [driver : {"mysql", "postgres"}, op : {"test", "tables", "query", "exec"}]

Steps == {"start", "connect", "ping", "timeout", "begin", "statement", "check",
          "commit", "rollback", "end", "done"}

TypeOK ==
    /\ call \in Calls
    /\ pc \in Steps
    /\ transaction \in BOOLEAN
    /\ conn \in {"none", "up", "broken", "ended"}
    /\ hungUp \in {"no", "before", "after"}
    /\ outcome \in {"pending", "ok", "failed"}
    /\ server \in {"none", "idle", "open", "written"}
    /\ effect \in BOOLEAN
    /\ committed \in {"no", "text", "code"}

Init ==
    /\ call \in Calls
    /\ pc = "start"
    /\ transaction = FALSE
    /\ conn = "none"
    /\ hungUp = "no"
    /\ outcome = "pending"
    /\ server = "none"
    /\ effect = FALSE
    /\ committed = "no"

-----------------------------------------------------------------------------

MySQL == call.driver = "mysql"
Exec  == call.op = "exec"
Test  == call.op = "test"

(* options.signal.aborted *)
Aborted == hungUp # "no"

(* faulty variant: end() only after a ROLLBACK *)
FinallyWithoutEnd == IF transaction' THEN "rollback" ELSE "done"

(* the finally block: ROLLBACK only if `transaction` still says so *)
Finally == IF transaction' THEN "rollback" ELSE "end"

Fail ==
    /\ outcome' = "failed"
    /\ UNCHANGED transaction
    /\ pc' = Finally

(* a statement of the code's own that the connection carries, or not *)
Carried(next) ==
    \/ /\ conn = "up"
       /\ pc' = next
       /\ UNCHANGED outcome
    \/ /\ outcome' = "failed"
       /\ pc' = Finally

-----------------------------------------------------------------------------

(* options.signal.throwIfAborted(), before anything is opened *)
Enter ==
    /\ pc = "start"
    /\ IF Aborted THEN pc' = "done" /\ outcome' = "failed"
       ELSE pc' = "connect" /\ UNCHANGED outcome
    /\ UNCHANGED <<call, transaction, conn, hungUp, server, effect, committed>>

(* mysqlFactory throws before the try; client.connect() inside it *)
Connect ==
    /\ pc = "connect"
    /\ \/ /\ conn' = "up"
          /\ server' = "idle"
          /\ pc' = IF Test THEN "ping" ELSE IF MySQL THEN "timeout" ELSE "begin"
          /\ UNCHANGED outcome
       \/ /\ conn' = IF MySQL THEN "none" ELSE "broken"
          /\ outcome' = "failed"
          /\ pc' = IF MySQL THEN "done" ELSE "end"
          /\ UNCHANGED server
    /\ UNCHANGED <<call, transaction, hungUp, effect, committed>>

(* test(): ping(), or SELECT 1 unless the caller hung up meanwhile *)
Ping ==
    /\ pc = "ping"
    /\ \/ /\ conn = "up"
          /\ Aborted => MySQL
          /\ outcome' = "ok"
          /\ UNCHANGED transaction
          /\ pc' = Finally
       \/ Fail
    /\ UNCHANGED <<call, conn, hungUp, server, effect, committed>>

(* SET SESSION MAX_EXECUTION_TIME; SET LOCAL statement_timeout *)
SetTimeout ==
    /\ pc = "timeout"
    /\ UNCHANGED transaction
    /\ Carried(IF MySQL THEN "begin" ELSE "statement")
    /\ UNCHANGED <<call, conn, hungUp, server, effect, committed>>

Begin ==
    /\ pc = "begin"
    /\ \/ /\ conn = "up"
          /\ server' = "open"
          /\ transaction' = TRUE
          /\ pc' = IF MySQL THEN "statement" ELSE "timeout"
          /\ UNCHANGED outcome
       \/ /\ Fail
          /\ UNCHANGED server
    /\ UNCHANGED <<call, conn, hungUp, effect, committed>>

(* where the client's text may leave the session: a text that begins or    *)
(* ends transactions itself may leave it anywhere                          *)
After(written, commits) ==
    IF commits THEN {"idle", "open", "written"}
    ELSE IF written THEN {"written"}
    ELSE IF conn = "up" /\ call.op # "tables" THEN {server, "idle"}
    ELSE {server}

(***************************************************************************)
(* The text succeeds, is refused, times out or loses its answer.  One      *)
(* statement writes nothing in a READ ONLY transaction, but a text may     *)
(* leave that transaction first; a MySQL DDL statement commits the one it  *)
(* runs in.  Several statements never succeed: node-postgres answers them  *)
(* with a list, where createPostgresClient() looks for one result.  The    *)
(* text of an exec that succeeds is taken to be one that writes.           *)
(***************************************************************************)
Statement ==
    /\ pc = "statement"
    /\ \E written, commits \in BOOLEAN :
          /\ written => conn = "up" /\ call.op # "tables"
          /\ commits => written
          /\ \/ /\ conn = "up"
                /\ Exec => written
                /\ commits => MySQL
                /\ pc' = "check"
                /\ UNCHANGED <<transaction, outcome>>
             \/ Fail
          /\ server' \in After(written, commits)
          /\ effect' = commits
          /\ committed' = IF commits THEN "text" ELSE committed
    /\ UNCHANGED <<call, conn, hungUp>>

(* faulty variant: no check between the statement and the COMMIT *)
CheckNothing ==
    /\ pc = "check"
    /\ pc' = IF Exec THEN "commit" ELSE "rollback"
    /\ outcome' = IF Exec THEN outcome ELSE "ok"
    /\ UNCHANGED <<call, transaction, conn, hungUp, server, effect, committed>>

(* options.signal.throwIfAborted(); no await before COMMIT is sent *)
CheckAbort ==
    /\ pc = "check"
    /\ \/ /\ Aborted
          /\ Fail
       \/ /\ ~Aborted
          /\ UNCHANGED transaction
          /\ pc' = IF Exec THEN "commit" ELSE "rollback"
          /\ outcome' = IF Exec THEN outcome ELSE "ok"
    /\ UNCHANGED <<call, conn, hungUp, server, effect, committed>>

(* applied and acknowledged; refused; or its answer lost, applied or not *)
Commit ==
    /\ pc = "commit"
    /\ \E answered, applied \in BOOLEAN :
          /\ answered \/ applied => conn = "up"
          /\ effect' = (effect \/ (applied /\ server = "written"))
          /\ server' = IF answered \/ applied THEN "idle" ELSE server
          /\ conn' = IF answered THEN conn ELSE "broken"
          /\ transaction' = ~(answered /\ applied)
          /\ outcome' = IF answered /\ applied THEN "ok" ELSE "failed"
    /\ pc' = Finally
    /\ committed' = IF committed = "no" THEN "code" ELSE committed
    /\ UNCHANGED <<call, hungUp>>

(* a ROLLBACK that throws replaces the answer and skips the end() *)
Rollback ==
    /\ pc = "rollback"
    /\ \/ /\ conn = "up"
          /\ server' = "idle"
          /\ pc' = "end"
          /\ UNCHANGED outcome
       \/ /\ conn = "broken"
          /\ outcome' = "failed"
          /\ pc' = "done"
          /\ UNCHANGED server
    /\ UNCHANGED <<call, transaction, conn, hungUp, effect, committed>>

(* end() closes the socket; on a broken one it may throw *)
End ==
    /\ pc = "end"
    /\ pc' = "done"
    /\ conn' = "ended"
    /\ server' = "none"
    /\ \/ outcome' = outcome
       \/ conn = "broken" /\ outcome' = "failed"
    /\ UNCHANGED <<call, transaction, hungUp, effect, committed>>

-----------------------------------------------------------------------------

(* nothing looks at the signal once COMMIT or ROLLBACK is on its way *)
Abort ==
    /\ ~Aborted
    /\ pc # "done"
    /\ hungUp' = IF pc \in {"commit", "rollback", "end"} THEN "after" ELSE "before"
    /\ UNCHANGED <<call, pc, transaction, conn, outcome, server, effect, committed>>

LinkBreaks ==
    /\ conn = "up"
    /\ pc # "done"
    /\ conn' = "broken"
    /\ UNCHANGED <<call, pc, transaction, hungUp, outcome, server, effect, committed>>

(* the server notices a link that is gone and rolls its session back *)
ServerCleansUp ==
    /\ conn = "broken"
    /\ server # "none"
    /\ server' = "none"
    /\ UNCHANGED <<call, pc, transaction, conn, hungUp, outcome, effect, committed>>

Next ==
    \/ Enter \/ Connect \/ Ping \/ SetTimeout \/ Begin \/ Statement \/ CheckAbort
    \/ Commit \/ Rollback \/ End
    \/ Abort \/ LinkBreaks \/ ServerCleansUp

Spec == Init /\ [][Next]_vars

-----------------------------------------------------------------------------

Done == pc = "done"

(***************************************************************************)
(* An exec that answers success has taken effect for good, also when the   *)
(* link broke or the caller hung up after the COMMIT.                      *)
(***************************************************************************)
SuccessIsDurable == outcome = "ok" /\ Exec => effect

(***************************************************************************)
(* Whatever a call answers, nothing has changed for good unless its text   *)
(* committed by itself, or it is an exec whose caller had not hung up when *)
(* the code last looked, before it sent its COMMIT.                        *)
(***************************************************************************)
FailureIsClean ==
    effect => committed = "text" \/ (Exec /\ committed = "code" /\ hungUp # "before")

(***************************************************************************)
(* When the code is done with the call, no connection is up and no         *)
(* transaction waits on one; a connection is left without its end() only   *)
(* when it broke and the ROLLBACK that then failed made the call fail.     *)
(***************************************************************************)
NothingLeftOpen ==
    Done => /\ conn # "up"
            /\ conn = "broken" => transaction /\ outcome = "failed"
            /\ server \in {"open", "written"} => conn = "broken"

(***************************************************************************)
(* Not so (README.md:161 wants sql.exec for it): a text that commits by    *)
(* itself takes effect in a query too.                                     *)
(***************************************************************************)
QueriesOnlyRead == effect => Exec

(***************************************************************************)
(* Not so: a ROLLBACK that throws skips the end() of its connection.       *)
(***************************************************************************)
ConnectionsAreEnded == Done => conn \in {"none", "ended"}

=============================================================================
