---------------------------- MODULE RuntimeLifecycle ----------------------------
(***************************************************************************)
(* Starting and closing the process: Runtime.start and Runtime.close       *)
(* (src/runtime.ts) as main() drives them (src/index.ts).  SIGINT and      *)
(* SIGTERM may ask for the close at any moment, a failed start and a       *)
(* failed Telegram poll ask for it too, and the requests being served      *)
(* share the database handle that the close takes away.                    *)
(*                                                                         *)
(* Every await of the code is a program counter value here; what runs      *)
(* between two awaits is one action.                                       *)
(***************************************************************************)
EXTENDS Naturals, FiniteSets

CONSTANT Request    \* HTTP requests that can be in a handler at once

VARIABLES
    starting,   \* start(): idle, listening (await http.listen), done, failed
    closing,    \* close(): idle, or the await it has reached, or done
    errors,     \* the resources whose release failed (AggregateError)
    http,       \* Fastify: new, open, draining, closed
    bot,        \* grammY: idle, polling, failed, stopped
    timer,      \* is the audit interval set?
    db,         \* the SQLite handle: open, closed
    request     \* what each request is doing

vars == <<starting, closing, errors, http, bot, timer, db, request>>

CloseSteps == {"idle", "start", "bot", "http", "done"}

(* served: the client waits; abandoned: it hung up, the handler runs on;    *)
(* broken: the handler touched a closed database                            *)
RequestStates == {"none", "served", "abandoned", "broken"}

TypeOK ==
    /\ starting \in {"idle", "listening", "done", "failed"}
    /\ closing \in CloseSteps
    /\ errors \subseteq {"start", "bot", "http", "db"}
    /\ http \in {"new", "open", "draining", "closed"}
    /\ bot \in {"idle", "polling", "failed", "stopped"}
    /\ timer \in BOOLEAN
    /\ db \in {"open", "closed"}
    /\ request \in [Request -> RequestStates]

(* createRuntime has migrated the database and built every part *)
Init ==
    /\ starting = "idle"
    /\ closing = "idle"
    /\ errors = {}
    /\ http = "new"
    /\ bot = "idle"
    /\ timer = FALSE
    /\ db = "open"
    /\ request = [r \in Request |-> "none"]

-----------------------------------------------------------------------------
(* closeInternal, up to its first await: an interval that is not set yet is *)
(* not cleared later.  A second call of close() joins the first.            *)
AskToClose ==
    /\ closing' = IF closing # "idle" THEN closing
                  ELSE IF starting' \in {"listening", "done"} THEN "start" ELSE "bot"
    /\ timer' = (timer /\ closing # "idle")

(* SIGINT or SIGTERM; installShutdownHandlers runs before start() *)
Signal ==
    /\ closing = "idle"
    /\ UNCHANGED starting
    /\ AskToClose
    /\ UNCHANGED <<errors, http, bot, db, request>>

-----------------------------------------------------------------------------
(* start() *)

Start ==
    /\ starting = "idle"
    /\ closing = "idle"
    /\ starting' = "listening"
    /\ UNCHANGED <<closing, errors, http, bot, timer, db, request>>

(* start() after close() throws "runtime is closed"; main() closes again *)
StartRefused ==
    /\ starting = "idle"
    /\ closing # "idle"
    /\ starting' = "failed"
    /\ UNCHANGED <<closing, errors, http, bot, timer, db, request>>

(* the port is bound: the interval is set and polling starts, at once *)
Listening ==
    /\ starting = "listening"
    /\ starting' = "done"
    /\ http' = "open"
    /\ \/ /\ bot' = "polling"
          /\ timer' = TRUE
          /\ UNCHANGED closing
       \/ /\ bot' = "failed"        \* bot.start() threw: onBotError closes,
          /\ timer' = (closing # "idle")   \* and finds the interval set
          /\ closing' = IF closing = "idle" THEN "start" ELSE closing
    /\ UNCHANGED <<errors, db, request>>

(* the port is taken: startRuntime's catch calls shutdown() *)
ListenFails ==
    /\ starting = "listening"
    /\ starting' = "failed"
    /\ AskToClose
    /\ UNCHANGED <<errors, http, bot, db, request>>

(* getUpdates failed, or a handler and its error reply did: onBotError *)
PollingFails ==
    /\ bot = "polling"
    /\ bot' = "failed"
    /\ UNCHANGED starting
    /\ AskToClose
    /\ UNCHANGED <<errors, http, db, request>>

-----------------------------------------------------------------------------
(* closeInternal, from await to await; a failure is collected and passed over *)

(* faulty variant: a failed start is not caught *)
StartSucceeded ==
    /\ closing = "start"
    /\ starting = "done"
    /\ closing' = "bot"
    /\ UNCHANGED <<starting, errors, http, bot, timer, db, request>>

StartSettled ==
    /\ closing = "start"
    /\ starting # "listening"
    /\ closing' = "bot"
    /\ errors' = IF starting = "failed" THEN errors \cup {"start"} ELSE errors
    /\ UNCHANGED <<starting, http, bot, timer, db, request>>

(* bot.stop() ends the polling loop before its last call to Telegram *)
BotStopped ==
    /\ closing = "bot"
    /\ closing' = "http"
    /\ bot' = "stopped"
    /\ http' = "draining"
    /\ \/ UNCHANGED errors
       \/ errors' = errors \cup {"bot"}
    /\ UNCHANGED <<starting, timer, db, request>>

(* faulty variant: http.close() is not awaited *)
DatabaseClosedAtOnce ==
    /\ closing = "http"
    /\ closing' = "done"
    /\ http' = "closed"
    /\ db' = "closed"
    /\ UNCHANGED <<starting, errors, bot, timer, request>>

(* http.close() settles when no client waits, or fails; the next statement *)
(* closes the database, in the same step                                   *)
HttpAndDatabaseClosed ==
    /\ closing = "http"
    /\ closing' = "done"
    /\ \E failed \in SUBSET {"http", "db"} :
          /\ "http" \in failed \/ \A r \in Request : request[r] # "served"
          /\ http' = IF "http" \in failed THEN http ELSE "closed"
          /\ db' = IF "db" \in failed THEN db ELSE "closed"
          /\ errors' = errors \cup failed
    /\ UNCHANGED <<starting, bot, timer, request>>

-----------------------------------------------------------------------------
(* requests *)

Arrive(r) ==
    /\ http = "open"
    /\ request[r] = "none"
    /\ request' = [request EXCEPT ![r] = "served"]
    /\ UNCHANGED <<starting, closing, errors, http, bot, timer, db>>

HangUp(r) ==
    /\ request[r] = "served"
    /\ request' = [request EXCEPT ![r] = "abandoned"]
    /\ UNCHANGED <<starting, closing, errors, http, bot, timer, db>>

(* the handler's last statement is on the database (appendAudit) *)
Finish(r) ==
    /\ request[r] \in {"served", "abandoned"}
    /\ request' = [request EXCEPT ![r] = IF db = "open" THEN "none" ELSE "broken"]
    /\ UNCHANGED <<starting, closing, errors, http, bot, timer, db>>

-----------------------------------------------------------------------------

Next ==
    \/ Signal \/ Start \/ StartRefused \/ Listening \/ ListenFails
    \/ PollingFails
    \/ StartSettled \/ BotStopped \/ HttpAndDatabaseClosed
    \/ \E r \in Request : Arrive(r) \/ HangUp(r) \/ Finish(r)

Spec == Init /\ [][Next]_vars

-----------------------------------------------------------------------------
(* Safety *)

(***************************************************************************)
(* No client that still waits for an answer loses the database: unless     *)
(* http.close() itself failed, the handle is closed only after the last    *)
(* served request, however the close was asked for.  A handler whose       *)
(* client hung up has no such promise.                                     *)
(***************************************************************************)
ServedKeepTheDatabase ==
    db = "closed" /\ "http" \notin errors =>
        \A r \in Request : request[r] # "served"

-----------------------------------------------------------------------------
(* What closing is for *)

(* a signal, a failed start or a failed poll asks for the close *)
AskedToClose == closing # "idle" \/ starting = "failed" \/ bot = "failed"

(* the close has settled: port and database released or the failure reported *)
Settled ==
    /\ closing = "done"
    /\ http = "closed" \/ "http" \in errors
    /\ db = "closed" \/ "db" \in errors

(* ... and no interval keeps the process alive *)
Released == Settled /\ ~timer

-----------------------------------------------------------------------------
(* What the texts of the program say, and the code does not keep.           *)

(***************************************************************************)
(* A settled close leaves no interval behind ("closes all resources        *)
(* idempotently"); one that is set keeps the process alive.                *)
(***************************************************************************)
NoTimerLeft == closing = "done" => ~timer

=============================================================================
