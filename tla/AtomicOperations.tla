---------------------------- MODULE AtomicOperations ----------------------------
(***************************************************************************)
(* What the repository promises of an operation on the database file: its  *)
(* rows are written all together or not at all, an operation that answers  *)
(* success has written them, and one that answers failure has not.         *)
(***************************************************************************)
CONSTANT Row     \* the rows operations write

VARIABLES
    disk,        \* the committed rows
    status,      \* idle, running, or applied: committed, not yet answered
    intended     \* the rows the operation in progress is to write

vars == <<disk, status, intended>>

Init ==
    /\ disk = {}
    /\ status = "idle"
    /\ intended = {}

Call ==
    /\ status = "idle"
    /\ status' = "running"
    /\ intended' \in SUBSET (Row \ disk)
    /\ UNCHANGED disk

Apply ==
    /\ status = "running"
    /\ status' = "applied"
    /\ disk' = disk \cup intended
    /\ UNCHANGED intended

AnswerSuccess ==
    /\ status = "applied"
    /\ status' = "idle"
    /\ intended' = {}
    /\ UNCHANGED disk

AnswerFailure ==
    /\ status = "running"
    /\ status' = "idle"
    /\ intended' = {}
    /\ UNCHANGED disk

Crash ==
    /\ status' = "idle"
    /\ intended' = {}
    /\ UNCHANGED disk

Next == Call \/ Apply \/ AnswerSuccess \/ AnswerFailure \/ Crash

Spec == Init /\ [][Next]_vars

=============================================================================
