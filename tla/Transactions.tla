------------------------------ MODULE Transactions ------------------------------
(***************************************************************************)
(* How SqliteRepository (src/repository/sqlite-repository.ts) makes an     *)
(* operation of several statements atomic on its one SQLite connection:    *)
(* transaction(), which nests by counting its depth, and the operations    *)
(* that bracket themselves with BEGIN IMMEDIATE and COMMIT.  All of it is  *)
(* synchronous, so one operation runs at a time; what goes wrong is a      *)
(* statement, a lock another process holds, a COMMIT the disk refuses, and *)
(* the process dying.  SQLite's own part is the stack of what is open.     *)
(***************************************************************************)
EXTENDS Integers, Sequences, FiniteSets

CONSTANTS
    Operation,      \* what the methods do: see Shape
    MaxOperations   \* bound: operations in a behaviour

(***************************************************************************)
(* `open` and `close` are the brackets of a transaction, `write` any       *)
(* statement that changes a row.  `counted` tells transaction() from a     *)
(* method with its own BEGIN IMMEDIATE.                                    *)
(***************************************************************************)
Shape == [counted: BOOLEAN, body: Seq({"open", "write", "close"})]

(* how many brackets are open behind the first n steps of a body *)
Level(body, n) ==
    Cardinality({i \in 1 .. n : body[i] = "open"})
      - Cardinality({i \in 1 .. n : body[i] = "close"})

(* All that is written is inside one outermost bracket, or is one statement. *)
(* transaction() is called inside itself once, by an import; the methods     *)
(* with their own BEGIN IMMEDIATE call none.                                 *)
WellBracketed(o) ==
    /\ o.body # <<>>
    /\ Level(o.body, Len(o.body)) = 0
    /\ \A n \in 1 .. Len(o.body) - 1 :
          Level(o.body, n) \in 1 .. (IF o.counted THEN 2 ELSE 1)

ASSUME OperationAssumption ==
    Operation \subseteq Shape /\ \A o \in Operation : WellBracketed(o)
ASSUME BoundAssumption == MaxOperations \in Nat

VARIABLES
    depth,      \* transactionDepth
    frames,     \* the code's open brackets: how each was opened
    operation,  \* the operation in progress
    at,         \* the place it has reached in its body
    mode,       \* idle, running, or unwinding: an exception is on its way up
    open,       \* SQLite: the open BEGIN and SAVEPOINTs, and the rows before each
    rows,       \* SQLite: the rows as this connection sees them
    disk,       \* SQLite: the committed rows
    number,     \* how many operations were called; it names their rows
    faulted,    \* history: did something else than the code fail this operation?
    refused     \* history: transaction()s whose COMMIT failed, in this process

vars == <<depth, frames, operation, at, mode, open, rows, disk, number, faulted, refused>>
sqlite == <<open, rows, disk>>

-----------------------------------------------------------------------------

NoOperation == [counted |-> FALSE, body |-> <<>>]

Position == UNION {DOMAIN o.body : o \in Operation}
Place    == (1 .. MaxOperations) \X Position
Begin    == <<0, 0>>

(* a savepoint's serial number is the place that set it *)
Frame  == [outermost: BOOLEAN, savepoint: Place]
Opened == [savepoint: Place \cup {Begin}, before: SUBSET Place]

TypeOK ==
    /\ depth \in Int
    /\ frames \in Seq(Frame)
    /\ operation \in Operation \cup {NoOperation}
    /\ at \in Nat
    /\ mode \in {"idle", "running", "unwinding"}
    /\ open \in Seq(Opened)
    /\ rows \in SUBSET Place
    /\ disk \in SUBSET Place
    /\ number \in 0 .. MaxOperations
    /\ faulted \in BOOLEAN
    /\ refused \in Nat

Init ==
    /\ depth = 0
    /\ frames = <<>>
    /\ operation = NoOperation
    /\ at = 1
    /\ mode = "idle"
    /\ open = <<>>
    /\ rows = {}
    /\ disk = {}
    /\ number = 0
    /\ faulted = FALSE
    /\ refused = 0

-----------------------------------------------------------------------------

Here == <<number, at>>

Top == frames[Len(frames)]
Pop(stack) == SubSeq(stack, 1, Len(stack) - 1)

NextIs(step) ==
    /\ mode = "running"
    /\ at <= Len(operation.body)
    /\ operation.body[at] = step

Counts(change) == depth' = IF operation.counted THEN depth + change ELSE depth

(* SQLite went back to the committed rows by itself, or on ROLLBACK *)
RolledBack == open' = <<>> /\ rows' = disk /\ UNCHANGED disk

(* an error code after which SQLite may have rolled everything back *)
StatementFails ==
    /\ mode' = "unwinding"
    /\ faulted' = TRUE
    /\ RolledBack \/ UNCHANGED sqlite

-----------------------------------------------------------------------------

Call(o) ==
    /\ mode = "idle"
    /\ number < MaxOperations
    /\ mode' = "running"
    /\ operation' = o
    /\ at' = 1
    /\ number' = number + 1
    /\ faulted' = FALSE
    /\ UNCHANGED <<depth, frames, sqlite, refused>>

(* faulty variant: every bracket is a BEGIN *)
AlwaysOutermost == TRUE

Outermost == ~operation.counted \/ depth = 0

(* BEGIN IMMEDIATE inside anything open is refused, and it may find the    *)
(* file locked; SAVEPOINT opens a transaction if there is none             *)
OpenBracket ==
    /\ NextIs("open")
    /\ \/ /\ Outermost => open = <<>>
          /\ open' = Append(open, [savepoint |-> IF Outermost THEN Begin ELSE Here,
                                   before |-> rows])
          /\ frames' = Append(frames, [outermost |-> Outermost, savepoint |-> Here])
          /\ Counts(1)
          /\ at' = at + 1
          /\ UNCHANGED <<mode, faulted>>
       \/ /\ Outermost
          /\ mode' = "unwinding"
          /\ faulted' = (open = <<>>)
          /\ UNCHANGED <<depth, frames, open, at>>
    /\ UNCHANGED <<operation, rows, disk, number, refused>>

(* a statement commits at once where nothing is open; it fails, or the     *)
(* method throws because of what it read                                   *)
Write ==
    /\ NextIs("write")
    /\ \/ /\ rows' = rows \cup {Here}
          /\ disk' = IF open = <<>> THEN rows' ELSE disk
          /\ at' = at + 1
          /\ UNCHANGED <<open, mode, faulted>>
       \/ StatementFails /\ UNCHANGED at
    /\ UNCHANGED <<depth, frames, operation, number, refused>>

(* how many brackets stay open when the frame's own is ended *)
Below(f) ==
    IF f.outermost THEN 0
    ELSE CHOOSE n \in 0 .. Len(open) - 1 : open[n + 1].savepoint = f.savepoint

(* is there a transaction to COMMIT, a savepoint of that name? *)
IsOpen(f) ==
    IF f.outermost THEN open # <<>>
    ELSE \E n \in DOMAIN open : open[n].savepoint = f.savepoint

(* COMMIT or RELEASE: the depth is counted down before it is tried *)
CloseBracket ==
    /\ NextIs("close")
    /\ Counts(-1)
    /\ \/ /\ IsOpen(Top)
          /\ open' = SubSeq(open, 1, Below(Top))
          /\ disk' = IF open' = <<>> THEN rows ELSE disk
          /\ frames' = Pop(frames)
          /\ at' = at + 1
          /\ UNCHANGED <<rows, mode, faulted, refused>>
       \/ /\ IsOpen(Top) => Below(Top) = 0      \* only what commits can fail
          /\ IF IsOpen(Top) THEN StatementFails
             ELSE mode' = "unwinding" /\ UNCHANGED <<sqlite, faulted>>
          /\ refused' = IF operation.counted THEN refused + 1 ELSE refused
          /\ UNCHANGED <<frames, at>>
    /\ UNCHANGED <<operation, number>>

(* faulty variant: a nested transaction releases what it should undo *)
CatchReleasing ==
    /\ mode = "unwinding"
    /\ frames # <<>>
    /\ Counts(-1)
    /\ frames' = Pop(frames)
    /\ IF ~IsOpen(Top) THEN UNCHANGED sqlite
       ELSE /\ open' = SubSeq(open, 1, Below(Top))
            /\ rows' = IF Top.outermost THEN disk ELSE rows
            /\ disk' = IF open' = <<>> THEN rows' ELSE disk
    /\ UNCHANGED <<operation, at, mode, number, faulted, refused>>

(* the catch block: ROLLBACK, or ROLLBACK TO and RELEASE; the depth is     *)
(* counted down (again, if it was the COMMIT that threw).  Where nothing   *)
(* is open these throw too, and the exception goes on up.                  *)
Catch ==
    /\ mode = "unwinding"
    /\ frames # <<>>
    /\ Counts(-1)
    /\ frames' = Pop(frames)
    /\ IF IsOpen(Top)
       THEN /\ open' = SubSeq(open, 1, Below(Top))
            /\ rows' = open[Below(Top) + 1].before
            /\ UNCHANGED disk
       ELSE UNCHANGED sqlite
    /\ UNCHANGED <<operation, at, mode, number, faulted, refused>>

Answer ==
    /\ \/ mode = "running" /\ at > Len(operation.body)
       \/ mode = "unwinding" /\ frames = <<>>
    /\ mode' = "idle"
    /\ operation' = NoOperation
    /\ at' = 1
    /\ faulted' = FALSE
    /\ UNCHANGED <<depth, frames, sqlite, number, refused>>

(* the process dies and is started again; SQLite drops what is uncommitted *)
Crash ==
    /\ depth' = 0
    /\ frames' = <<>>
    /\ operation' = NoOperation
    /\ at' = 1
    /\ mode' = "idle"
    /\ RolledBack
    /\ faulted' = FALSE
    /\ refused' = 0
    /\ UNCHANGED number

Next ==
    \/ \E o \in Operation : Call(o)
    \/ OpenBracket \/ Write \/ CloseBracket \/ Catch \/ Answer
    \/ Crash

Spec == Init /\ [][Next]_vars

-----------------------------------------------------------------------------

(***************************************************************************)
(* An operation fails only if one of its statements did, the file was      *)
(* locked, or it threw - with one exception: after exactly one transaction *)
(* whose COMMIT failed, transaction() believes itself one level too high   *)
(* until the process restarts, and a nested one is refused by SQLite.      *)
(***************************************************************************)
FailsOnlyForCause ==
    mode = "unwinding" /\ ~faulted => operation.counted /\ refused = 1

(***************************************************************************)
(* Every operation is all or nothing, nested transactions, failed COMMITs, *)
(* wrong depths and crashes included, and its answer says which.           *)
(***************************************************************************)
Intended == {<<number, i>> : i \in {j \in DOMAIN operation.body :
                                       operation.body[j] = "write"}}

Status == IF mode = "idle" THEN "idle"
          ELSE IF mode = "running" /\ at > Len(operation.body) THEN "applied"
          ELSE "running"

Abstract == INSTANCE AtomicOperations
              WITH Row <- Place, status <- Status,
                   intended <- IF mode = "idle" THEN {} ELSE Intended

ImplementsAtomic == Abstract!Spec

=============================================================================
