------------------------------ MODULE ServerBoot ------------------------------
(***************************************************************************)
(* One server from its start to its exit, over and over: main()            *)
(* (src/index.ts) awaits createRuntime (src/runtime.ts), which migrates    *)
(* the database file, and only then starts the runtime.  Other processes   *)
(* may open the same file meanwhile, and every process may die anywhere.   *)
(*                                                                         *)
(* Migrations is the file and everyone's way through migrate();            *)
(* RuntimeLifecycle is what Server does once it has migrated; BotUpdates   *)
(* is what its administrators ask of the bot meanwhile.                    *)
(***************************************************************************)
EXTENDS Migrations

CONSTANTS
    Server,     \* the process whose runtime is looked at
    Request,    \* HTTP requests that can be in a handler at once
    MaxPending  \* bound: updates Telegram holds at once

ASSUME ServerAssumption == Server \in Process
ASSUME PendingAssumption == MaxPending \in Nat

VARIABLES starting, closing, errors, http, bot, timer, db, request,
          queue, tried, handling, enabled, live, told, wanted, doubt

R == INSTANCE RuntimeLifecycle
U == INSTANCE BotUpdates

file     == <<schema, recorded, writer, ran, process>>
runtime  == <<starting, closing, errors, http, bot, timer, db, request>>
updates  == <<queue, tried, handling, enabled, live, told, wanted, doubt>>
bootVars == <<schema, recorded, writer, ran, process,
              starting, closing, errors, http, bot, timer, db, request,
              queue, tried, handling, enabled, live, told, wanted, doubt>>

BootInit == Init /\ R!Init /\ U!Init

-----------------------------------------------------------------------------

(* createRuntime: a migration that fails closes the file, and main() ends *)
Migrate(p) ==
    /\ \/ Start(p) \/ ReadApplied(p) \/ BeginImmediate(p) \/ Busy(p)
       \/ RunSql(p) \/ Commit(p) \/ AlreadyThere(p) \/ Serve(p)
    /\ UNCHANGED <<runtime, updates>>

(* the runtime takes its steps once createRuntime has returned it *)
Serving == Is(Server, "serving") /\ UNCHANGED file

Run(Step) == Serving /\ Step /\ UNCHANGED updates

RuntimeNext ==
    \/ R!Signal \/ R!Start \/ R!StartRefused \/ R!Listening \/ R!ListenFails
    \/ R!StartSettled \/ R!HttpAndDatabaseClosed
    \/ \E r \in Request : R!Arrive(r) \/ R!HangUp(r) \/ R!Finish(r)

(* stop() fails if its getUpdates does, or loses its answer *)
BotStopped ==
    /\ Serving
    /\ R!BotStopped
    /\ \E through \in BOOLEAN :
          /\ bot = "polling" /\ ~through => "bot" \in errors'
          /\ U!Stop(through)

(* grammY gives up on a getUpdates that fails and on an answer that does *)
PollingFails == Serving /\ R!PollingFails /\ (U!PollFails \/ U!AnswerLost)

HandlerStep ==
    /\ Serving
    /\ \/ U!Take \/ U!Hashed \/ U!Answered \/ U!Confirm \/ U!LogIn
       \/ bot # "polling" /\ U!AnswerLost
    /\ UNCHANGED runtime

Send == \E command \in U!Command : U!Send(command) /\ UNCHANGED <<file, runtime>>

(* killed, or the end of main(): the next process starts from nothing *)
End(p) ==
    /\ Die(p)
    /\ IF p = Server
       THEN /\ starting' = "idle" /\ closing' = "idle" /\ errors' = {}
            /\ http' = "new" /\ bot' = "idle" /\ timer' = FALSE /\ db' = "open"
            /\ request' = [r \in Request |-> "none"]
            /\ U!Forget
       ELSE UNCHANGED <<runtime, updates>>

BootNext ==
    \/ \E p \in Process : Migrate(p) \/ End(p)
    \/ Run(RuntimeNext)
    \/ BotStopped \/ PollingFails
    \/ HandlerStep \/ Send

(***************************************************************************)
(* The event loop resumes every await whose promise has settled: listen()  *)
(* settles, so does bot.stop(), which grammY bounds in time, and so does   *)
(* http.close() once no client waits any more.  No handler has to return:  *)
(* S3 calls have no timeout (s3-gateway.ts:133), nor have requests         *)
(* (app.ts:368).  Nobody has to send a signal, to start a process or to    *)
(* end one.                                                                *)
(***************************************************************************)
NobodyWaits == \A r \in Request : request[r] # "served"

BootFairness ==
    /\ WF_bootVars(Run(R!Listening \/ R!ListenFails))
    /\ WF_bootVars(Run(R!StartSettled))
    /\ WF_bootVars(BotStopped)
    /\ WF_bootVars(NobodyWaits /\ Run(R!HttpAndDatabaseClosed))

BootSpec == BootInit /\ [][BootNext]_bootVars /\ BootFairness

-----------------------------------------------------------------------------

(***************************************************************************)
(* No client that still waits for an answer loses the database: unless     *)
(* http.close() itself failed, the handle is closed only after the last    *)
(* served request, however the close was asked for.                        *)
(***************************************************************************)
ServedKeepTheDatabase == R!ServedKeepTheDatabase

(***************************************************************************)
(* A server only listens on the newest schema, and what it serves is on    *)
(* it: after failed migrations, lost races for the write lock and crashes  *)
(* at any statement, its own or another process's.                         *)
(***************************************************************************)
ServedOnNewest == http \in {"open", "draining"} => schema = Version

(***************************************************************************)
(* If no client waits for ever for one answer, then a signal, a failed     *)
(* start and a failed poll all end in a settled close, port and database   *)
(* released or the failure reported, or the process dies first.  Unless    *)
(* the close was asked for during listen(), no interval is left either     *)
(* that would keep the process alive.                                      *)
(***************************************************************************)
StopsInTheEnd ==
    (\A r \in Request : []<>(request[r] # "served")) =>
        /\ R!AskedToClose ~> R!Settled \/ Is(Server, "down")
        /\ R!AskedToClose /\ ~timer /\ starting # "listening"
               ~> R!Released \/ Is(Server, "down")

(***************************************************************************)
(* What a dying process did by half is done again: a live session of an    *)
(* old password, a new password no administrator has seen, and a disabled  *)
(* account with live sessions are all the matter of a command Telegram     *)
(* still has to deliver - or of one no administrator saw succeed.          *)
(***************************************************************************)
HalfDoneIsRedelivered == U!HalfDoneIsRedelivered

(***************************************************************************)
(* Commands delivered again run again in their order, so the last one      *)
(* wins: once every update was taken, the account is enabled or disabled   *)
(* as the administrator last said.                                         *)
(***************************************************************************)
LastCommandWins == U!LastCommandWins

=============================================================================
