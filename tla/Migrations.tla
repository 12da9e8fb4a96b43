------------------------------- MODULE Migrations -------------------------------
(***************************************************************************)
(* Database.migrate (src/db/database.ts) by processes that start on the    *)
(* same SQLite file: a restart during a deployment, or the new process     *)
(* while the old one still runs.  Each may die between any two statements. *)
(* No migration says IF NOT EXISTS: its SQL runs once or fails.            *)
(***************************************************************************)
EXTENDS Naturals, FiniteSets

CONSTANTS
    Process,    \* processes that may run at once
    Last,       \* the newest migration's version (9)
    NoProcess   \* nobody holds the write lock

ASSUME LastAssumption == Last \in Nat \ {0} /\ NoProcess \notin Process

VARIABLES
    schema,     \* migrations whose SQL is in effect, committed
    recorded,   \* schema_migrations, committed
    writer,     \* who is inside BEGIN IMMEDIATE
    ran,        \* has the writer run its migration's SQL?
    process     \* where each process is, and the versions it has to apply

vars == <<schema, recorded, writer, ran, process>>

Version == 1 .. Last

Steps == {"down", "reading", "migrating", "serving", "failed"}

TypeOK ==
    /\ schema \in SUBSET Version
    /\ recorded \in SUBSET Version
    /\ writer \in Process \cup {NoProcess}
    /\ ran \in BOOLEAN
    /\ process \in [Process -> [step : Steps, todo : SUBSET Version]]

Down == [step |-> "down", todo |-> {}]

(* a new file, or one that an older release left at some version *)
Init ==
    /\ \E v \in 0 .. Last : schema = 1 .. v
    /\ recorded = schema
    /\ writer = NoProcess
    /\ ran = FALSE
    /\ process = [p \in Process |-> Down]

-----------------------------------------------------------------------------

Is(p, step) == process[p].step = step

(* the version the loop has reached *)
Current(p) == CHOOSE v \in process[p].todo : \A w \in process[p].todo : v <= w

Becomes(p, step) == process' = [process EXCEPT ![p].step = step]

Start(p) ==
    /\ Is(p, "down")
    /\ Becomes(p, "reading")
    /\ UNCHANGED <<schema, recorded, writer, ran>>

(* faulty variant: the next migration is left out *)
ReadAppliedSkipping(p) ==
    /\ Is(p, "reading")
    /\ process' = [process EXCEPT ![p] =
                      [step |-> "migrating",
                       todo |-> {v \in Version : v > Cardinality(recorded) + 1}]]
    /\ UNCHANGED <<schema, recorded, writer, ran>>

(* SELECT version FROM schema_migrations, once, outside any transaction *)
ReadApplied(p) ==
    /\ Is(p, "reading")
    /\ process' = [process EXCEPT ![p] =
                      [step |-> "migrating", todo |-> Version \ recorded]]
    /\ UNCHANGED <<schema, recorded, writer, ran>>

BeginImmediate(p) ==
    /\ Is(p, "migrating")
    /\ process[p].todo # {}
    /\ writer = NoProcess
    /\ writer' = p
    /\ UNCHANGED <<schema, recorded, ran, process>>

(* busy_timeout runs out: thrown before the try, createRuntime gives up *)
Busy(p) ==
    /\ Is(p, "migrating")
    /\ process[p].todo # {}
    /\ writer \notin {NoProcess, p}
    /\ Becomes(p, "failed")
    /\ UNCHANGED <<schema, recorded, writer, ran>>

(* faulty variant: the SQL runs outside the transaction *)
RunSqlAtOnce(p) ==
    /\ writer = p
    /\ ~ran
    /\ Current(p) \notin schema
    /\ schema' = schema \cup {Current(p)}
    /\ ran' = TRUE
    /\ UNCHANGED <<recorded, writer, process>>

RunSql(p) ==
    /\ writer = p
    /\ ~ran
    /\ Current(p) \notin schema
    /\ ran' = TRUE
    /\ UNCHANGED <<schema, recorded, writer, process>>

(* INSERT INTO schema_migrations, COMMIT *)
Commit(p) ==
    /\ writer = p
    /\ ran
    /\ schema' = schema \cup {Current(p)}
    /\ recorded' = recorded \cup {Current(p)}
    /\ process' = [process EXCEPT ![p].todo = @ \ {Current(p)}]
    /\ writer' = NoProcess
    /\ ran' = FALSE

(* the table is there already: ROLLBACK, and the start fails *)
AlreadyThere(p) ==
    /\ writer = p
    /\ Current(p) \in schema
    /\ writer' = NoProcess
    /\ ran' = FALSE
    /\ Becomes(p, "failed")
    /\ UNCHANGED <<schema, recorded>>

Serve(p) ==
    /\ Is(p, "migrating")
    /\ process[p].todo = {}
    /\ Becomes(p, "serving")
    /\ UNCHANGED <<schema, recorded, writer, ran>>

(* killed, or restarted after a failure; SQLite drops what was not committed *)
Die(p) ==
    /\ ~Is(p, "down")
    /\ process' = [process EXCEPT ![p] = Down]
    /\ writer' = IF writer = p THEN NoProcess ELSE writer
    /\ ran' = (ran /\ writer # p)
    /\ UNCHANGED <<schema, recorded>>

Next ==
    \E p \in Process :
        \/ Start(p) \/ ReadApplied(p) \/ BeginImmediate(p) \/ Busy(p)
        \/ RunSql(p) \/ Commit(p) \/ AlreadyThere(p) \/ Serve(p) \/ Die(p)

Spec == Init /\ [][Next]_vars

-----------------------------------------------------------------------------

(***************************************************************************)
(* Whatever process dies where, the file is at a version: the migrations   *)
(* in effect are the recorded ones, and they are the first so many.        *)
(***************************************************************************)
FileIsAtAVersion ==
    /\ schema = recorded
    /\ \E v \in 0 .. Last : recorded = 1 .. v

=============================================================================
