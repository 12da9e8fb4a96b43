-------------------------- MODULE TransactionsProofs --------------------------
(***************************************************************************)
(* What SqliteRepository's transactions promise, proved for every set of   *)
(* operations of the shapes its methods have: why an operation fails, and  *)
(* that it is atomic, by refinement of AtomicOperations.                   *)
(***************************************************************************)
EXTENDS Transactions, TLAPS, FiniteSetTheorems, SequenceTheorems

-----------------------------------------------------------------------------
(* The invariant *)

SavepointOf(f) == IF f.outermost THEN Begin ELSE f.savepoint

(* the rows of the statements the operation has come past *)
Written == {<<number, i>> : i \in {j \in 1 .. at - 1 : operation.body[j] = "write"}}

Phase ==
    /\ mode = "idle" => operation = NoOperation /\ frames = <<>> /\ open = <<>>
    /\ mode # "idle" => /\ operation \in Operation /\ number \in 1 .. MaxOperations
                        /\ at \in 1 .. Len(operation.body) + 1
    /\ mode = "unwinding" => at <= Len(operation.body)

(* the code's frames are the brackets it has come past *)
Balanced == mode = "running" => Len(frames) = Level(operation.body, at - 1)

(* only the first may be a BEGIN; no two savepoints have the same name *)
FramesNamed ==
    /\ \A i \in 1 .. Len(frames) :
          /\ frames[i].savepoint \in {number} \X (1 .. at - 1)
          /\ frames[i].outermost => i = 1
    /\ \A i, j \in 1 .. Len(frames) : frames[i].savepoint = frames[j].savepoint => i = j

(* SQLite's stack is the code's, until SQLite drops all of its own *)
OpenMatches ==
    \/ mode = "unwinding" /\ open = <<>>
    \/ /\ Len(open) = Len(frames)
       /\ \A i \in 1 .. Len(open) : open[i].savepoint = SavepointOf(frames[i])

(* where nothing is open the connection sees what is committed, and a *)
(* rollback to the bottom brings it back there                        *)
RowsKept ==
    /\ open = <<>> => rows = disk
    /\ open # <<>> => open[1].before = disk

WrittenKept ==
    mode = "running" /\ at <= Len(operation.body) => rows = disk \cup Written

DiskNamed == disk \in SUBSET ((1 .. number) \X Position)

(* each refused COMMIT has counted the depth down once too often *)
DepthKnown == depth = (IF operation.counted THEN Len(frames) ELSE 0) - refused

TxInv ==
    /\ TypeOK
    /\ Phase
    /\ Balanced
    /\ FramesNamed
    /\ OpenMatches
    /\ RowsKept
    /\ WrittenKept
    /\ DiskNamed
    /\ DepthKnown
    /\ FailsOnlyForCause

-----------------------------------------------------------------------------
(* Bodies *)

LEMMA LevelStep ==
  ASSUME NEW body, NEW n \in Nat
  PROVE  /\ Level(body, 0) = 0
         /\ Level(body, n) \in Int
         /\ body[n + 1] = "open"  => Level(body, n + 1) = Level(body, n) + 1
         /\ body[n + 1] = "close" => Level(body, n + 1) = Level(body, n) - 1
         /\ body[n + 1] = "write" => Level(body, n + 1) = Level(body, n)
<1>. DEFINE Until(m, step) == {i \in 1 .. m : body[i] = step}
<1>1. ASSUME NEW step
      PROVE  /\ Cardinality(Until(0, step)) = 0
             /\ Cardinality(Until(n, step)) \in Nat
             /\ Cardinality(Until(n + 1, step)) =
                   IF body[n + 1] = step THEN Cardinality(Until(n, step)) + 1
                   ELSE Cardinality(Until(n, step))
  <2>1. Until(0, step) = {}
    OBVIOUS
  <2>2. IsFiniteSet(Until(n, step)) /\ Cardinality(Until(n, step)) \in Nat
    <3>1. IsFiniteSet(1 .. n)
      BY FS_Interval
    <3>2. Until(n, step) \in SUBSET (1 .. n)
      OBVIOUS
    <3>3. IsFiniteSet(Until(n, step))
      BY <3>1, <3>2, FS_Subset
    <3>. QED
      BY <3>3, FS_CardinalityType
  <2>3. n + 1 \notin Until(n, step)
    OBVIOUS
  <2>4. Until(n + 1, step) = IF body[n + 1] = step THEN Until(n, step) \cup {n + 1}
                             ELSE Until(n, step)
    <3>1. 1 .. n + 1 = (1 .. n) \cup {n + 1}
      OBVIOUS
    <3>. QED
      BY <3>1
  <2>. HIDE DEF Until
  <2>5. Cardinality(Until(0, step)) = 0
    BY <2>1, FS_EmptySet
  <2>6. Cardinality(Until(n, step) \cup {n + 1}) = Cardinality(Until(n, step)) + 1
    BY <2>2, <2>3, FS_AddElement
  <2>. QED
    BY <2>2, <2>4, <2>5, <2>6
<1>2. \A m \in Nat : Level(body, m) = Cardinality(Until(m, "open")) - Cardinality(Until(m, "close"))
  BY DEF Level
<1>. HIDE DEF Until
<1>3. Level(body, 0) = 0
  <2>1. Cardinality(Until(0, "open")) = 0 /\ Cardinality(Until(0, "close")) = 0
    BY <1>1
  <2>. QED
    BY <1>2, <2>1
<1>. QED
  BY <1>1, <1>2, <1>3

LEMMA Bodies ==
  ASSUME NEW o \in Operation
  PROVE  /\ o.counted \in BOOLEAN
         /\ o.body \in Seq({"open", "write", "close"})
         /\ Len(o.body) \in Nat \ {0}
         /\ \A i \in 1 .. Len(o.body) : o.body[i] \in {"open", "write", "close"} /\ i \in Position
         /\ Level(o.body, Len(o.body)) = 0
         /\ \A n \in 1 .. Len(o.body) - 1 :
               Level(o.body, n) \in 1 .. 2 /\ (~o.counted => Level(o.body, n) = 1)
<1>1. o \in Shape /\ WellBracketed(o)
  BY OperationAssumption
<1>2. o.counted \in BOOLEAN /\ o.body \in Seq({"open", "write", "close"}) /\ o.body # <<>>
  BY <1>1 DEF Shape, WellBracketed
<1>3. Len(o.body) \in Nat \ {0} /\ DOMAIN o.body = 1 .. Len(o.body)
  BY <1>2, EmptySeq
<1>4. \A i \in 1 .. Len(o.body) : o.body[i] \in {"open", "write", "close"} /\ i \in Position
  BY <1>2, <1>3 DEF Position
<1>5. ASSUME NEW n \in 1 .. Len(o.body) - 1
      PROVE  Level(o.body, n) \in 1 .. 2 /\ (~o.counted => Level(o.body, n) = 1)
  <2>1. Level(o.body, n) \in 1 .. (IF o.counted THEN 2 ELSE 1)
    BY <1>1 DEF WellBracketed
  <2>2. CASE o.counted
    BY <2>1, <2>2
  <2>3. CASE ~o.counted
    BY <2>1, <2>3
  <2>. QED
    BY <2>2, <2>3
<1>. QED
  BY <1>1, <1>2, <1>3, <1>4, <1>5 DEF WellBracketed

(***************************************************************************)
(* The step a running operation takes next, and what is open around it:    *)
(* nothing is before the first step only, and after the last.              *)
(***************************************************************************)
LEMMA NextStep ==
  ASSUME TxInv, mode = "running", at <= Len(operation.body)
  PROVE  /\ operation \in Operation /\ number \in 1 .. MaxOperations
         /\ at \in 1 .. Len(operation.body) /\ at \in Position
         /\ Len(frames) \in Nat
         /\ Len(frames) = 0 => at = 1
         /\ operation.body[at] \in {"open", "write", "close"}
         /\ operation.body[at] = "open" =>
               /\ at < Len(operation.body)
               /\ Len(frames) = 0 \/ (operation.counted /\ Len(frames) = 1)
               /\ Level(operation.body, at) = Len(frames) + 1
         /\ operation.body[at] = "write" =>
               /\ at = Len(operation.body) <=> Len(frames) = 0
               /\ Level(operation.body, at) = Len(frames)
         /\ operation.body[at] = "close" =>
               /\ Len(frames) >= 1
               /\ at = Len(operation.body) <=> Len(frames) = 1
               /\ Level(operation.body, at) = Len(frames) - 1
<1>. DEFINE body == operation.body
            n == Len(body)
            f == Len(frames)
<1>1. /\ operation \in Operation /\ number \in 1 .. MaxOperations
      /\ at \in Nat /\ at >= 1 /\ at <= n /\ f \in Nat
  BY DEF TxInv, TypeOK, Phase
<1>2. /\ n \in Nat \ {0}
      /\ body[at] \in {"open", "write", "close"} /\ at \in Position
      /\ Level(body, n) = 0
      /\ \A m \in 1 .. n - 1 :
            Level(body, m) \in 1 .. 2 /\ (~operation.counted => Level(body, m) = 1)
  BY <1>1, Bodies
<1>3. f = Level(body, at - 1)
  BY DEF TxInv, Balanced
<1>4. at - 1 \in Nat /\ (at - 1) + 1 = at
  BY <1>1
<1>5. /\ body[at] = "open"  => Level(body, at) = f + 1
      /\ body[at] = "close" => Level(body, at) = f - 1
      /\ body[at] = "write" => Level(body, at) = f
  BY <1>3, <1>4, LevelStep
<1>. HIDE DEF body, n, f
<1>6. at = 1 \/ at - 1 \in 1 .. n - 1
  BY <1>1, <1>2
<1>7. at = n \/ at \in 1 .. n - 1
  BY <1>1, <1>2
<1>8. f = 0 => at = 1
  BY <1>2, <1>3, <1>6
<1>9. at = 1 => f = 0
  BY <1>3, LevelStep
<1>10. at < n => Level(body, at) \in 1 .. 2 /\ (~operation.counted => Level(body, at) = 1)
  BY <1>1, <1>2, <1>7
<1>11. at = n => Level(body, at) = 0
  BY <1>2
<1>12. CASE body[at] = "open"
  <2>1. at < n /\ (f = 0 \/ (operation.counted /\ f = 1))
    BY <1>1, <1>2, <1>5, <1>10, <1>11, <1>12
  <2>. QED
    BY <1>1, <1>2, <1>5, <1>8, <1>12, <2>1 DEF body, n, f
<1>13. CASE body[at] = "write"
  <2>1. at = n <=> f = 0
    BY <1>1, <1>2, <1>5, <1>10, <1>11, <1>13
  <2>. QED
    BY <1>1, <1>2, <1>5, <1>8, <1>13, <2>1 DEF body, n, f
<1>14. CASE body[at] = "close"
  <2>1. f >= 1 /\ (at = n <=> f = 1)
    BY <1>1, <1>2, <1>5, <1>10, <1>11, <1>14
  <2>. QED
    BY <1>1, <1>2, <1>5, <1>8, <1>14, <2>1 DEF body, n, f
<1>. QED
  BY <1>2, <1>12, <1>13, <1>14

-----------------------------------------------------------------------------
(* The two stacks *)

LEMMA Popped ==
  ASSUME NEW S, NEW s \in Seq(S), s # <<>>
  PROVE  /\ Len(s) \in Nat \ {0}
         /\ Pop(s) \in Seq(S) /\ Len(Pop(s)) = Len(s) - 1
         /\ \A i \in 1 .. Len(s) - 1 : Pop(s)[i] = s[i]
<1>1. Len(s) \in Nat \ {0}
  BY EmptySeq
<1>. DEFINE n == Len(s) - 1
            p == SubSeq(s, 1, n)
<1>2. n \in Nat /\ \A i \in 1 .. n : s[i] \in S
  BY <1>1
<1>3. Pop(s) = p
  BY DEF Pop
<1>4. n = Len(s) - 1
  OBVIOUS
<1>. HIDE DEF n
<1>5. /\ p \in Seq(S)
      /\ Len(p) = IF 1 <= n THEN n - 1 + 1 ELSE 0
      /\ \A i \in 1 .. n - 1 + 1 : p[i] = s[1 + i - 1]
  BY <1>2, SubSeqProperties
<1>. HIDE DEF p
<1>6. Len(p) = n /\ \A i \in 1 .. n : p[i] = s[i]
  BY <1>2, <1>5
<1>. QED
  BY <1>1, <1>3, <1>4, <1>5, <1>6

LEMMA FramesPopped ==
  ASSUME TxInv, frames # <<>>, frames' = Pop(frames), UNCHANGED number, at' \in {at, at + 1}
  PROVE  /\ FramesNamed' /\ frames' \in Seq(Frame)
         /\ Len(frames) \in Nat \ {0} /\ Len(frames') = Len(frames) - 1
         /\ \A i \in 1 .. Len(frames) - 1 : frames'[i] = frames[i]
<1>1. frames \in Seq(Frame) /\ at \in Nat
  BY DEF TxInv, TypeOK
<1>2. /\ frames' \in Seq(Frame)
      /\ Len(frames) \in Nat \ {0} /\ Len(frames') = Len(frames) - 1
      /\ \A i \in 1 .. Len(frames) - 1 : frames'[i] = frames[i]
  BY <1>1, Popped
<1>3. \A i \in 1 .. Len(frames') : i \in 1 .. Len(frames) /\ frames'[i] = frames[i]
  BY <1>2
<1>4. {number} \X (1 .. at - 1) \subseteq {number'} \X (1 .. at' - 1)
  BY <1>1
<1>5. FramesNamed'
  BY <1>3, <1>4 DEF TxInv, FramesNamed
<1>. QED
  BY <1>2, <1>5

(* the frame on top is the bracket on top, unless SQLite has dropped all *)
LEMMA TopIsOpen ==
  ASSUME TxInv, frames # <<>>, open # <<>>
  PROVE  /\ Len(open) \in Nat \ {0} /\ Len(open) = Len(frames)
         /\ IsOpen(Top) /\ Below(Top) = Len(open) - 1
<1>. DEFINE n == Len(open)
<1>1. open \in Seq(Opened) /\ frames \in Seq(Frame) /\ at \in Nat
  BY DEF TxInv, TypeOK
<1>2. n \in Nat \ {0} /\ n = Len(frames) /\ DOMAIN open = 1 .. n
  BY <1>1, EmptySeq DEF TxInv, OpenMatches
<1>3. \A i \in 1 .. n : open[i].savepoint = SavepointOf(frames[i])
  BY DEF TxInv, OpenMatches
<1>4. \A i \in 1 .. n : frames[i].outermost => i = 1
  BY <1>2 DEF TxInv, FramesNamed
<1>5. \A i, j \in 1 .. n : frames[i].savepoint = frames[j].savepoint => i = j
  BY <1>2 DEF TxInv, FramesNamed
<1>6. Top = frames[n] /\ n \in 1 .. n
  BY <1>2 DEF Top
<1>7. Begin \notin {number} \X (1 .. at - 1)
  BY <1>1 DEF Begin
<1>8. Top.savepoint # Begin
  BY <1>2, <1>6, <1>7 DEF TxInv, FramesNamed
<1>. HIDE DEF n
<1>9. CASE Top.outermost
  <2>1. n = 1
    BY <1>4, <1>6, <1>9
  <2>. QED
    BY <1>2, <1>9, <2>1 DEF IsOpen, Below, n
<1>10. CASE ~Top.outermost
  <2>1. open[n].savepoint = Top.savepoint
    BY <1>3, <1>6, <1>10 DEF SavepointOf
  <2>2. \A i \in 1 .. n : open[i].savepoint = Top.savepoint => i = n
    BY <1>3, <1>5, <1>6, <1>8 DEF SavepointOf
  <2>3. \A m \in 0 .. n - 1 : open[m + 1].savepoint = Top.savepoint => m = n - 1
    <3>. SUFFICES ASSUME NEW m \in 0 .. n - 1, open[m + 1].savepoint = Top.savepoint
                  PROVE  m = n - 1
      OBVIOUS
    <3>1. m + 1 \in 1 .. n
      BY <1>2
    <3>. QED
      BY <1>2, <2>2, <3>1
  <2>4. n - 1 \in 0 .. n - 1 /\ open[(n - 1) + 1].savepoint = Top.savepoint
    BY <1>2, <2>1
  <2>5. (CHOOSE m \in 0 .. n - 1 : open[m + 1].savepoint = Top.savepoint) = n - 1
    BY <2>3, <2>4
  <2>6. Below(Top) = n - 1
    BY <1>10, <2>5 DEF Below, n
  <2>7. IsOpen(Top)
    BY <1>2, <1>6, <1>10, <2>1 DEF IsOpen
  <2>. QED
    BY <1>2, <2>6, <2>7 DEF n
<1>. QED
  BY <1>9, <1>10

(* a running operation has both stacks of one height *)
LEMMA RunningMatches ==
  ASSUME TxInv, mode = "running"
  PROVE  /\ Len(open) = Len(frames) /\ Len(open) \in Nat
         /\ open = <<>> <=> Len(open) = 0
         /\ frames = <<>> <=> Len(frames) = 0
<1>1. open \in Seq(Opened) /\ frames \in Seq(Frame)
  BY DEF TxInv, TypeOK
<1>. QED
  BY <1>1, EmptySeq DEF TxInv, OpenMatches

-----------------------------------------------------------------------------
(* The steps *)

LEMMA TxInit == Init => TxInv
<1>. SUFFICES ASSUME Init PROVE TxInv
  OBVIOUS
<1>1. Len(<<>>) = 0 /\ <<>> \in Seq(Frame) /\ <<>> \in Seq(Opened)
  BY EmptySeq
<1>2. TypeOK
  <2>1. frames \in Seq(Frame) /\ open \in Seq(Opened)
    BY <1>1 DEF Init
  <2>2. number \in 0 .. MaxOperations
    BY BoundAssumption DEF Init
  <2>3. rows \in SUBSET Place /\ disk \in SUBSET Place
    BY DEF Init
  <2>4. depth \in Int /\ at \in Nat /\ refused \in Nat
    BY DEF Init
  <2>5. faulted \in BOOLEAN
    BY DEF Init
  <2>6. operation \in Operation \cup {NoOperation} /\ mode \in {"idle", "running", "unwinding"}
    BY DEF Init
  <2>. QED
    BY <2>1, <2>2, <2>3, <2>4, <2>5, <2>6 DEF TypeOK
<1>. QED
  BY <1>1, <1>2
     DEF Init, TxInv, Phase, Balanced, FramesNamed, OpenMatches, RowsKept, WrittenKept,
         DiskNamed, DepthKnown, FailsOnlyForCause, NoOperation

LEMMA CallStep ==
  ASSUME TxInv, NEW o \in Operation, Call(o)
  PROVE  TxInv'
<1>1. /\ mode = "idle" /\ number < MaxOperations
      /\ mode' = "running" /\ operation' = o /\ at' = 1 /\ number' = number + 1
      /\ faulted' = FALSE
      /\ UNCHANGED <<depth, frames, open, rows, disk, refused>>
  BY DEF Call, sqlite
<1>2. /\ frames = <<>> /\ open = <<>> /\ rows = disk /\ operation = NoOperation
      /\ number \in Nat /\ depth = 0 - refused
  BY <1>1 DEF TxInv, TypeOK, Phase, RowsKept, DepthKnown, NoOperation
<1>3. Len(frames) = 0 /\ number' \in 1 .. MaxOperations
  BY <1>1, <1>2, BoundAssumption
<1>4. Len(o.body) \in Nat \ {0} /\ Level(o.body, 0) = 0
  BY Bodies, LevelStep
<1>5. TypeOK'
  <2>1. number' \in 0 .. MaxOperations
    BY <1>3, BoundAssumption
  <2>. QED
    BY <1>1, <2>1 DEF TxInv, TypeOK
<1>6. Phase' /\ Balanced' /\ FramesNamed' /\ OpenMatches' /\ RowsKept'
  BY <1>1, <1>2, <1>3, <1>4 DEF Phase, Balanced, FramesNamed, OpenMatches, RowsKept
<1>7. WrittenKept'
  <2>1. Written' = {}
    BY <1>1 DEF Written
  <2>. QED
    BY <1>1, <1>2, <2>1 DEF WrittenKept
<1>8. DiskNamed'
  BY <1>1, <1>2 DEF TxInv, DiskNamed
<1>9. DepthKnown' /\ FailsOnlyForCause'
  BY <1>1, <1>2, <1>3, Bodies DEF DepthKnown, FailsOnlyForCause
<1>. QED
  BY <1>5, <1>6, <1>7, <1>8, <1>9 DEF TxInv

(* the exception of a step that has left the brackets as they were *)
LEMMA Unwinding ==
  ASSUME TxInv, mode = "running", at <= Len(operation.body), mode' = "unwinding",
         UNCHANGED <<frames, operation, at, number>>,
         (open' = <<>> /\ rows' = disk /\ disk' = disk) \/ UNCHANGED <<open, rows, disk>>,
         faulted' \in BOOLEAN, ~faulted' => operation.counted /\ refused' = 1,
         refused' \in Nat, depth' \in Int,
         depth' = (IF operation.counted THEN Len(frames) ELSE 0) - refused'
  PROVE  TxInv'
<1>1. TypeOK'
  <2>1. open' \in Seq(Opened)
    BY EmptySeq DEF TxInv, TypeOK
  <2>. QED
    BY <2>1 DEF TxInv, TypeOK
<1>2. Phase' /\ Balanced' /\ FramesNamed'
  BY DEF TxInv, Phase, Balanced, FramesNamed
<1>3. OpenMatches' /\ RowsKept' /\ WrittenKept' /\ DiskNamed'
  BY DEF TxInv, OpenMatches, RowsKept, WrittenKept, DiskNamed
<1>. QED
  BY <1>1, <1>2, <1>3 DEF TxInv, DepthKnown, FailsOnlyForCause

(***************************************************************************)
(* A bracket is opened: BEGIN only at the bottom of both stacks.  What     *)
(* refuses it there is a lock; anywhere else, the depth a failed COMMIT    *)
(* has left one too low.                                                   *)
(***************************************************************************)
LEMMA OpenStep ==
  ASSUME TxInv, OpenBracket
  PROVE  TxInv'
<1>0. /\ mode = "running" /\ at <= Len(operation.body) /\ operation.body[at] = "open"
      /\ UNCHANGED <<operation, rows, disk, number, refused>>
  BY DEF OpenBracket, NextIs
<1>1. /\ operation \in Operation /\ number \in 1 .. MaxOperations /\ MaxOperations \in Nat
      /\ at \in 1 .. Len(operation.body) /\ at \in Position /\ at < Len(operation.body)
      /\ Len(operation.body) \in Nat /\ operation.counted \in BOOLEAN
      /\ Len(frames) = 0 \/ (operation.counted /\ Len(frames) = 1)
      /\ Level(operation.body, at) = Len(frames) + 1
  BY <1>0, NextStep, Bodies, BoundAssumption
<1>2. /\ frames \in Seq(Frame) /\ open \in Seq(Opened)
      /\ rows \in SUBSET Place /\ depth \in Int /\ refused \in Nat
  BY DEF TxInv, TypeOK
<1>3. /\ Len(open) = Len(frames)
      /\ open = <<>> <=> Len(open) = 0
      /\ frames = <<>> <=> Len(frames) = 0
      /\ \A i \in 1 .. Len(open) : open[i].savepoint = SavepointOf(frames[i])
  BY <1>0, RunningMatches DEF TxInv, OpenMatches
<1>4. CASE ~(at' = at + 1)
  <2>1. /\ Outermost /\ mode' = "unwinding" /\ faulted' = (open = <<>>)
        /\ UNCHANGED <<depth, frames, open, at>>
    BY <1>4 DEF OpenBracket
  <2>2. depth = (IF operation.counted THEN Len(frames) ELSE 0) - refused
    BY DEF TxInv, DepthKnown
  <2>3. ~faulted' => operation.counted /\ refused = 1
    <3>. SUFFICES ASSUME open # <<>> PROVE operation.counted /\ refused = 1
      BY <2>1
    <3>2. operation.counted /\ Len(frames) = 1
      BY <1>1, <1>3
    <3>3. depth = 0
      BY <2>1, <3>2 DEF Outermost
    <3>. QED
      BY <1>2, <2>2, <3>2, <3>3
  <2>. QED
    BY <1>0, <1>2, <2>1, <2>2, <2>3, Unwinding
<1>5. CASE at' = at + 1
  <2>. DEFINE f == [outermost |-> Outermost, savepoint |-> Here]
              b == [savepoint |-> IF Outermost THEN Begin ELSE Here, before |-> rows]
              n == Len(frames)
  <2>1. /\ Outermost => open = <<>>
        /\ open' = Append(open, b)
        /\ frames' = Append(frames, f)
        /\ depth' = IF operation.counted THEN depth + 1 ELSE depth
        /\ UNCHANGED <<mode, faulted>>
    BY <1>1, <1>5 DEF OpenBracket, Counts
  <2>2. Here \in Place /\ Here \in {number} \X (1 .. at)
    BY <1>1 DEF Here, Place
  <2>3. Outermost \in BOOLEAN
    BY DEF Outermost
  <2>4. /\ f \in Frame /\ f.outermost = Outermost /\ f.savepoint = Here
        /\ b \in Opened /\ b.savepoint = SavepointOf(f) /\ b.before = rows
    BY <1>2, <2>2, <2>3 DEF Frame, Opened, SavepointOf
  <2>. HIDE DEF f, b
  <2>5. /\ frames' \in Seq(Frame) /\ Len(frames') = n + 1 /\ frames'[n + 1] = f
        /\ \A i \in 1 .. n : frames'[i] = frames[i]
    BY <1>2, <2>1, <2>4
  <2>6. /\ open' \in Seq(Opened) /\ Len(open') = n + 1 /\ open'[n + 1] = b
        /\ \A i \in 1 .. n : open'[i] = open[i]
    BY <1>2, <1>3, <2>1, <2>4
  <2>. HIDE DEF n
  <2>7. n \in Nat /\ (n = 0 => rows = disk) /\ (n # 0 => open[1].before = disk)
    BY <1>1, <1>3 DEF n, TxInv, RowsKept
  <2>8. TypeOK'
    BY <1>0, <1>1, <1>5, <2>1, <2>5, <2>6 DEF TxInv, TypeOK
  <2>9. Phase' /\ Balanced'
    <3>1. at' \in 1 .. Len(operation.body) + 1 /\ at' - 1 = at
      BY <1>1, <1>5
    <3>. QED
      BY <1>0, <1>1, <2>1, <2>5, <3>1 DEF TxInv, Phase, Balanced, n
  <2>10. FramesNamed'
    <3>1. \A i \in 1 .. n + 1 : i \in 1 .. n \/ i = n + 1
      BY <2>7
    <3>2. \A i \in 1 .. n : /\ frames[i].savepoint \in {number} \X (1 .. at - 1)
                            /\ frames[i].outermost => i = 1
      BY DEF TxInv, FramesNamed, n
    <3>3. \A i, j \in 1 .. n : frames[i].savepoint = frames[j].savepoint => i = j
      BY DEF TxInv, FramesNamed, n
    <3>4. Here \notin {number} \X (1 .. at - 1)
      BY <1>1 DEF Here
    <3>5. {number} \X (1 .. at - 1) \subseteq {number} \X (1 .. at) /\ at' - 1 = at
      BY <1>1, <1>5
    <3>6. f.outermost => n + 1 = 1
      BY <1>3, <2>1, <2>4, <2>7 DEF n
    <3>7. \A i \in 1 .. n + 1 : /\ frames'[i].savepoint \in {number'} \X (1 .. at' - 1)
                                /\ frames'[i].outermost => i = 1
      BY <1>0, <2>2, <2>4, <2>5, <3>1, <3>2, <3>5, <3>6
    <3>8. \A i, j \in 1 .. n + 1 : frames'[i].savepoint = frames'[j].savepoint => i = j
      BY <2>4, <2>5, <3>1, <3>2, <3>3, <3>4
    <3>. QED
      BY <2>5, <3>7, <3>8 DEF FramesNamed
  <2>11. OpenMatches'
    <3>1. \A i \in 1 .. n + 1 : i \in 1 .. n \/ i = n + 1
      BY <2>7
    <3>2. \A i \in 1 .. n : open[i].savepoint = SavepointOf(frames[i])
      BY <1>3 DEF n
    <3>3. \A i \in 1 .. n + 1 : open'[i].savepoint = SavepointOf(frames'[i])
      BY <2>4, <2>5, <2>6, <3>1, <3>2
    <3>. QED
      BY <2>5, <2>6, <3>3 DEF OpenMatches, SavepointOf
  <2>12. RowsKept'
    <3>1. open' # <<>>
      BY <2>6, <2>7, EmptySeq
    <3>2. open'[1].before = disk
      <4>1. CASE n = 0
        BY <2>4, <2>6, <2>7, <4>1
      <4>2. CASE n # 0
        BY <2>6, <2>7, <4>2
      <4>. QED
        BY <4>1, <4>2
    <3>. QED
      BY <1>0, <3>1, <3>2 DEF RowsKept
  <2>13. WrittenKept'
    <3>1. {j \in 1 .. at' - 1 : operation.body[j] = "write"}
             = {j \in 1 .. at - 1 : operation.body[j] = "write"}
      BY <1>0, <1>1, <1>5
    <3>2. Written' = Written
      BY <1>0, <3>1 DEF Written
    <3>. QED
      BY <1>0, <3>2 DEF TxInv, WrittenKept
  <2>14. DepthKnown'
    BY <1>0, <1>1, <1>2, <2>1, <2>5 DEF TxInv, DepthKnown, n
  <2>. QED
    BY <1>0, <2>1, <2>8, <2>9, <2>10, <2>11, <2>12, <2>13, <2>14
       DEF TxInv, DiskNamed, FailsOnlyForCause
<1>. QED
  BY <1>4, <1>5

(***************************************************************************)
(* A statement: where nothing is open it is the whole operation, and it is *)
(* committed at once.                                                      *)
(***************************************************************************)
LEMMA WriteStep ==
  ASSUME TxInv, Write
  PROVE  /\ TxInv'
         /\ \/ mode' = "unwinding" /\ UNCHANGED disk
            \/ /\ mode' = "running" /\ at' = at + 1
               /\ at < Len(operation.body) => UNCHANGED disk
               /\ at = Len(operation.body) => disk' = disk \cup Written'
<1>0. /\ mode = "running" /\ at <= Len(operation.body) /\ operation.body[at] = "write"
      /\ UNCHANGED <<depth, frames, operation, number, refused>>
  BY DEF Write, NextIs
<1>1. /\ operation \in Operation /\ number \in 1 .. MaxOperations /\ MaxOperations \in Nat
      /\ at \in 1 .. Len(operation.body) /\ at \in Position
      /\ Len(operation.body) \in Nat
      /\ Len(frames) \in Nat /\ (Len(frames) = 0 => at = 1)
      /\ at = Len(operation.body) <=> Len(frames) = 0
      /\ Level(operation.body, at) = Len(frames)
  BY <1>0, NextStep, Bodies, BoundAssumption
<1>2. /\ Len(open) = Len(frames)
      /\ open = <<>> <=> Len(open) = 0
      /\ \A i \in 1 .. Len(open) : open[i].savepoint = SavepointOf(frames[i])
  BY <1>0, RunningMatches DEF TxInv, OpenMatches
<1>3. CASE StatementFails /\ UNCHANGED at
  <2>1. /\ mode' = "unwinding" /\ faulted' = TRUE
        /\ (open' = <<>> /\ rows' = disk /\ disk' = disk) \/ UNCHANGED <<open, rows, disk>>
    BY <1>3 DEF StatementFails, RolledBack, sqlite
  <2>2. /\ refused' \in Nat /\ depth' \in Int
        /\ depth' = (IF operation.counted THEN Len(frames) ELSE 0) - refused'
    BY <1>0 DEF TxInv, TypeOK, DepthKnown
  <2>. QED
    BY <1>0, <1>3, <2>1, <2>2, Unwinding
<1>4. CASE ~(StatementFails /\ UNCHANGED at)
  <2>1. /\ rows' = rows \cup {Here}
        /\ disk' = IF open = <<>> THEN rows' ELSE disk
        /\ at' = at + 1
        /\ UNCHANGED <<open, mode, faulted>>
    BY <1>4 DEF Write
  <2>2. Here \in Place /\ Here \in (1 .. number) \X Position
    BY <1>1 DEF Here, Place
  <2>3. Written' = Written \cup {Here}
    <3>1. {j \in 1 .. at' - 1 : operation.body[j] = "write"}
             = {j \in 1 .. at - 1 : operation.body[j] = "write"} \cup {at}
      BY <1>0, <1>1, <2>1
    <3>. QED
      BY <1>0, <3>1 DEF Written, Here
  <2>4. rows = disk \cup Written
    BY <1>0 DEF TxInv, WrittenKept
  <2>5. open = <<>> => disk' = disk \cup Written'
    BY <2>1, <2>3, <2>4
  <2>6. TypeOK'
    BY <1>0, <1>1, <2>1, <2>2 DEF TxInv, TypeOK
  <2>7. Phase' /\ Balanced'
    <3>1. at' \in 1 .. Len(operation.body) + 1 /\ at' - 1 = at
      BY <1>1, <2>1
    <3>. QED
      BY <1>0, <1>1, <2>1, <3>1 DEF TxInv, Phase, Balanced
  <2>8. FramesNamed'
    <3>1. {number} \X (1 .. at - 1) \subseteq {number} \X (1 .. at' - 1)
      BY <1>1, <2>1
    <3>. QED
      BY <1>0, <3>1 DEF TxInv, FramesNamed
  <2>9. OpenMatches' /\ RowsKept'
    BY <1>0, <1>2, <2>1 DEF TxInv, OpenMatches, RowsKept, SavepointOf
  <2>10. WrittenKept'
    <3>. SUFFICES ASSUME at' <= Len(operation.body) PROVE rows' = disk' \cup Written'
      BY <1>0 DEF WrittenKept
    <3>1. open # <<>>
      BY <1>1, <1>2, <2>1
    <3>. QED
      BY <2>1, <2>3, <2>4, <3>1
  <2>11. DiskNamed'
    <3>1. rows \in SUBSET ((1 .. number) \X Position)
      <4>1. disk \in SUBSET ((1 .. number) \X Position)
        BY DEF TxInv, DiskNamed
      <4>2. \A j \in 1 .. at - 1 : j \in Position
        BY <1>1, Bodies
      <4>3. Written \in SUBSET ((1 .. number) \X Position)
        BY <1>1, <4>2 DEF Written
      <4>. QED
        BY <2>4, <4>1, <4>3
    <3>. QED
      BY <1>0, <2>1, <2>2, <3>1 DEF TxInv, DiskNamed
  <2>12. DepthKnown' /\ FailsOnlyForCause'
    BY <1>0, <2>1 DEF TxInv, DepthKnown, FailsOnlyForCause
  <2>13. TxInv'
    BY <2>6, <2>7, <2>8, <2>9, <2>10, <2>11, <2>12 DEF TxInv
  <2>. QED
    BY <1>0, <1>1, <1>2, <2>1, <2>5, <2>13
<1>5. StatementFails => mode' = "unwinding" /\ UNCHANGED disk
  BY DEF StatementFails, RolledBack, sqlite
<1>. QED
  BY <1>3, <1>4, <1>5

(***************************************************************************)
(* A bracket is closed.  A running operation has it open, on top of both   *)
(* stacks; the outermost one ends the body, and commits all of it.         *)
(***************************************************************************)
LEMMA CloseStep ==
  ASSUME TxInv, CloseBracket
  PROVE  /\ TxInv'
         /\ \/ mode' = "unwinding" /\ UNCHANGED disk
            \/ /\ mode' = "running" /\ at' = at + 1
               /\ at < Len(operation.body) => UNCHANGED disk
               /\ at = Len(operation.body) => disk' = disk \cup Written'
<1>0. /\ mode = "running" /\ at <= Len(operation.body) /\ operation.body[at] = "close"
      /\ UNCHANGED <<operation, number>>
      /\ depth' = IF operation.counted THEN depth - 1 ELSE depth
  BY DEF CloseBracket, NextIs, Counts, TxInv, TypeOK
<1>1. /\ operation \in Operation /\ number \in 1 .. MaxOperations /\ MaxOperations \in Nat
      /\ at \in 1 .. Len(operation.body) /\ at \in Position
      /\ Len(operation.body) \in Nat /\ operation.counted \in BOOLEAN
      /\ Len(frames) \in Nat /\ Len(frames) >= 1
      /\ at = Len(operation.body) <=> Len(frames) = 1
      /\ Level(operation.body, at) = Len(frames) - 1
  BY <1>0, NextStep, Bodies, BoundAssumption
<1>2. /\ Len(open) = Len(frames) /\ open # <<>> /\ frames # <<>>
      /\ \A i \in 1 .. Len(open) : open[i].savepoint = SavepointOf(frames[i])
  BY <1>0, <1>1, RunningMatches DEF TxInv, OpenMatches
<1>3. IsOpen(Top) /\ Below(Top) = Len(open) - 1
  BY <1>2, TopIsOpen
<1>4. depth \in Int /\ refused \in Nat
  BY DEF TxInv, TypeOK
<1>5. depth = (IF operation.counted THEN Len(frames) ELSE 0) - refused
  BY DEF TxInv, DepthKnown
<1>6. CASE mode' = "unwinding"
  <2>1. /\ Below(Top) = 0 /\ StatementFails
        /\ refused' = IF operation.counted THEN refused + 1 ELSE refused
        /\ UNCHANGED <<frames, at>>
    BY <1>0, <1>3, <1>6 DEF CloseBracket
  <2>2. /\ faulted' = TRUE
        /\ (open' = <<>> /\ rows' = disk /\ disk' = disk) \/ UNCHANGED <<open, rows, disk>>
    BY <2>1 DEF StatementFails, RolledBack, sqlite
  <2>3. /\ refused' \in Nat /\ depth' \in Int
        /\ depth' = (IF operation.counted THEN Len(frames) ELSE 0) - refused'
    <3>. DEFINE n == Len(frames)
    <3>1. n \in Nat
      BY <1>1
    <3>. HIDE DEF n
    <3>2. CASE operation.counted
      <4>1. depth = n - refused /\ depth' = depth - 1 /\ refused' = refused + 1
        BY <1>0, <1>5, <2>1, <3>2 DEF n
      <4>2. depth' = n - refused' /\ depth' \in Int /\ refused' \in Nat
        BY <1>4, <3>1, <4>1
      <4>. QED
        BY <3>2, <4>2 DEF n
    <3>3. CASE ~operation.counted
      BY <1>0, <1>4, <1>5, <2>1, <3>3
    <3>. QED
      BY <3>2, <3>3
  <2>. QED
    BY <1>0, <1>6, <2>1, <2>2, <2>3, Unwinding
<1>7. CASE mode' # "unwinding"
  <2>. DEFINE n == Len(frames)
  <2>1. /\ open' = Pop(open)
        /\ disk' = IF open' = <<>> THEN rows ELSE disk
        /\ frames' = Pop(frames)
        /\ at' = at + 1
        /\ UNCHANGED <<rows, mode, faulted, refused>>
    BY <1>3, <1>7 DEF CloseBracket, StatementFails, Pop
  <2>2. /\ FramesNamed' /\ frames' \in Seq(Frame) /\ Len(frames') = n - 1
        /\ \A i \in 1 .. n - 1 : frames'[i] = frames[i]
    BY <1>0, <1>2, <2>1, FramesPopped
  <2>3. /\ open' \in Seq(Opened) /\ Len(open') = n - 1
        /\ \A i \in 1 .. n - 1 : open'[i] = open[i]
    BY <1>2, <2>1, Popped DEF TxInv, TypeOK
  <2>. HIDE DEF n
  <2>4. n \in Nat \ {0} /\ (open' = <<>> <=> n = 1)
    BY <1>1, <2>3, EmptySeq DEF n
  <2>5. at = Len(operation.body) <=> open' = <<>>
    BY <1>1, <2>4 DEF n
  <2>6. Written' = Written
    <3>1. {j \in 1 .. at' - 1 : operation.body[j] = "write"}
             = {j \in 1 .. at - 1 : operation.body[j] = "write"}
      BY <1>0, <1>1, <2>1
    <3>. QED
      BY <1>0, <3>1 DEF Written
  <2>7. rows = disk \cup Written
    BY <1>0 DEF TxInv, WrittenKept
  <2>8. TypeOK'
    <3>1. depth' \in Int
      BY <1>0, <1>4
    <3>. QED
      BY <1>0, <1>1, <2>1, <2>2, <2>3, <3>1 DEF TxInv, TypeOK
  <2>9. Phase' /\ Balanced'
    <3>1. at' \in 1 .. Len(operation.body) + 1 /\ at' - 1 = at
      BY <1>1, <2>1
    <3>. QED
      BY <1>0, <1>1, <2>1, <2>2, <3>1 DEF TxInv, Phase, Balanced, n
  <2>10. OpenMatches'
    <3>1. \A i \in 1 .. n - 1 : open[i].savepoint = SavepointOf(frames[i])
      BY <1>2, <2>4 DEF n
    <3>2. \A i \in 1 .. n - 1 : open'[i].savepoint = SavepointOf(frames'[i])
      BY <2>2, <2>3, <3>1
    <3>. QED
      BY <2>2, <2>3, <3>2 DEF OpenMatches, SavepointOf
  <2>11. RowsKept'
    <3>1. CASE open' = <<>>
      BY <2>1, <3>1 DEF RowsKept
    <3>2. CASE open' # <<>>
      <4>1. 1 \in 1 .. n - 1 /\ disk' = disk
        BY <2>1, <2>4, <3>2
      <4>. QED
        BY <1>2, <2>3, <3>2, <4>1 DEF TxInv, RowsKept
    <3>. QED
      BY <3>1, <3>2
  <2>12. WrittenKept'
    <3>. SUFFICES ASSUME at' <= Len(operation.body) PROVE rows' = disk' \cup Written'
      BY <1>0 DEF WrittenKept
    <3>1. open' # <<>>
      BY <1>1, <2>1, <2>5
    <3>. QED
      BY <2>1, <2>6, <2>7, <3>1
  <2>13. DiskNamed'
    <3>1. disk \in SUBSET ((1 .. number) \X Position)
      BY DEF TxInv, DiskNamed
    <3>2. \A j \in 1 .. at - 1 : j \in Position
      BY <1>1, Bodies
    <3>3. Written \in SUBSET ((1 .. number) \X Position)
      BY <1>1, <3>2 DEF Written
    <3>. QED
      BY <1>0, <2>1, <2>7, <3>1, <3>3 DEF DiskNamed
  <2>14. DepthKnown' /\ FailsOnlyForCause'
    BY <1>0, <1>1, <1>4, <1>5, <2>1, <2>2 DEF DepthKnown, FailsOnlyForCause, n
  <2>15. TxInv'
    BY <2>2, <2>8, <2>9, <2>10, <2>11, <2>12, <2>13, <2>14 DEF TxInv
  <2>. QED
    BY <1>0, <1>1, <2>1, <2>5, <2>6, <2>7, <2>15
<1>. QED
  BY <1>6, <1>7, <1>3 DEF CloseBracket, StatementFails, RolledBack, sqlite

(***************************************************************************)
(* A catch block on the way up: it takes its bracket off both stacks, or,  *)
(* where SQLite has none, off the code's.                                  *)
(***************************************************************************)
LEMMA CatchStep ==
  ASSUME TxInv, Catch
  PROVE  TxInv' /\ UNCHANGED disk
<1>0. /\ mode = "unwinding" /\ frames # <<>> /\ frames' = Pop(frames)
      /\ depth' = IF operation.counted THEN depth - 1 ELSE depth
      /\ UNCHANGED <<operation, at, mode, number, faulted, refused>>
  BY DEF Catch, Counts, TxInv, TypeOK
<1>. DEFINE n == Len(frames)
<1>1. /\ FramesNamed' /\ frames' \in Seq(Frame)
      /\ n \in Nat \ {0} /\ Len(frames') = n - 1
      /\ \A i \in 1 .. n - 1 : frames'[i] = frames[i]
  BY <1>0, FramesPopped
<1>2. operation \in Operation /\ operation.counted \in BOOLEAN
  BY <1>0, Bodies DEF TxInv, Phase
<1>3. Phase' /\ Balanced' /\ WrittenKept'
  BY <1>0 DEF TxInv, Phase, Balanced, WrittenKept
<1>4. DepthKnown' /\ FailsOnlyForCause' /\ depth' \in Int
  <2>1. depth \in Int /\ refused \in Nat
    BY DEF TxInv, TypeOK
  <2>2. depth = (IF operation.counted THEN n ELSE 0) - refused
    BY DEF TxInv, DepthKnown
  <2>. QED
    BY <1>0, <1>1, <1>2, <2>1, <2>2 DEF TxInv, DepthKnown, FailsOnlyForCause
<1>5. CASE open = <<>>
  <2>1. ~IsOpen(Top)
    BY <1>5 DEF IsOpen
  <2>2. UNCHANGED <<open, rows, disk>>
    BY <2>1 DEF Catch, sqlite
  <2>3. TypeOK' /\ OpenMatches' /\ RowsKept' /\ DiskNamed'
    BY <1>0, <1>1, <1>4, <1>5, <2>2 DEF TxInv, TypeOK, OpenMatches, RowsKept, DiskNamed
  <2>. QED
    BY <1>1, <1>3, <1>4, <2>2, <2>3 DEF TxInv
<1>6. CASE open # <<>>
  <2>1. Len(open) = n /\ IsOpen(Top) /\ Below(Top) = n - 1
    BY <1>0, <1>6, TopIsOpen
  <2>2. /\ open' = Pop(open) /\ rows' = open[n].before /\ UNCHANGED disk
    BY <1>1, <2>1 DEF Catch, Pop
  <2>3. open \in Seq(Opened)
    BY DEF TxInv, TypeOK
  <2>4. /\ open' \in Seq(Opened) /\ Len(open') = n - 1
        /\ \A i \in 1 .. n - 1 : open'[i] = open[i]
    BY <1>6, <2>1, <2>2, <2>3, Popped
  <2>5. open[1].before = disk
    BY <1>6 DEF TxInv, RowsKept
  <2>6. rows' \in SUBSET Place
    <3>1. n \in 1 .. Len(open)
      BY <1>1, <2>1
    <3>2. open[n] \in Opened
      BY <2>3, <3>1
    <3>. QED
      BY <2>2, <3>2 DEF Opened
  <2>. HIDE DEF n
  <2>7. open' = <<>> <=> n = 1
    BY <1>1, <2>4, EmptySeq
  <2>8. TypeOK'
    BY <1>0, <1>1, <1>4, <2>2, <2>4, <2>6 DEF TxInv, TypeOK
  <2>9. OpenMatches'
    <3>1. \A i \in 1 .. n - 1 : open[i].savepoint = SavepointOf(frames[i])
      BY <1>1, <1>6, <2>1 DEF TxInv, OpenMatches
    <3>2. \A i \in 1 .. n - 1 : open'[i].savepoint = SavepointOf(frames'[i])
      BY <1>1, <2>4, <3>1
    <3>. QED
      BY <1>1, <2>4, <3>2 DEF OpenMatches, SavepointOf
  <2>10. RowsKept' /\ DiskNamed'
    <3>1. open' # <<>> => 1 \in 1 .. n - 1
      BY <1>1, <2>7
    <3>. QED
      BY <1>0, <2>2, <2>4, <2>5, <2>7, <3>1 DEF TxInv, RowsKept, DiskNamed
  <2>. QED
    BY <1>1, <1>3, <1>4, <2>2, <2>8, <2>9, <2>10 DEF TxInv
<1>. QED
  BY <1>5, <1>6

(* an answer and a crash both leave nothing in progress *)
LEMMA EndStep ==
  ASSUME TxInv, Answer \/ Crash
  PROVE  TxInv' /\ UNCHANGED disk
<1>1. /\ mode' = "idle" /\ operation' = NoOperation /\ at' = 1 /\ faulted' = FALSE
      /\ UNCHANGED <<disk, number>>
  BY DEF Answer, Crash, RolledBack, sqlite
<1>2. /\ frames' = <<>> /\ open' = <<>> /\ rows' = disk
      /\ refused' \in Nat /\ depth' = 0 - refused'
  <2>1. CASE Crash
    BY <2>1 DEF Crash, RolledBack
  <2>2. CASE Answer
    <3>1. /\ UNCHANGED <<depth, frames, open, rows, disk, refused>>
          /\ \/ mode = "running" /\ at > Len(operation.body)
             \/ mode = "unwinding" /\ frames = <<>>
      BY <2>2 DEF Answer, sqlite
    <3>2. /\ frames \in Seq(Frame) /\ open \in Seq(Opened) /\ depth \in Int /\ refused \in Nat
          /\ at \in Nat
      BY DEF TxInv, TypeOK
    <3>3. frames = <<>> /\ open = <<>>
      <4>1. CASE mode = "running" /\ at > Len(operation.body)
        <5>1. operation \in Operation /\ at \in 1 .. Len(operation.body) + 1
          BY <4>1 DEF TxInv, Phase
        <5>2. Len(operation.body) \in Nat /\ Level(operation.body, Len(operation.body)) = 0
          BY <5>1, Bodies
        <5>3. at - 1 = Len(operation.body)
          BY <4>1, <5>1, <5>2
        <5>4. Len(frames) = 0
          BY <4>1, <5>2, <5>3 DEF TxInv, Balanced
        <5>. QED
          BY <4>1, <5>4, RunningMatches
      <4>2. CASE mode = "unwinding" /\ frames = <<>>
        BY <3>2, <4>2, EmptySeq DEF TxInv, OpenMatches
      <4>. QED
        BY <3>1, <4>1, <4>2
    <3>4. depth = 0 - refused
      BY <3>2, <3>3 DEF TxInv, DepthKnown
    <3>. QED
      BY <3>1, <3>2, <3>3, <3>4 DEF TxInv, RowsKept
  <2>. QED
    BY <2>1, <2>2
<1>3. Len(<<>>) = 0 /\ <<>> \in Seq(Frame) /\ <<>> \in Seq(Opened)
  BY EmptySeq
<1>4. TypeOK'
  <2>1. depth' \in Int
    BY <1>2
  <2>2. faulted' \in BOOLEAN
    BY <1>1
  <2>. QED
    BY <1>1, <1>2, <1>3, <2>1, <2>2 DEF TxInv, TypeOK
<1>5. DepthKnown'
  <2>1. ~NoOperation.counted
    BY DEF NoOperation
  <2>. QED
    BY <1>1, <1>2, <2>1 DEF DepthKnown
<1>6. Phase' /\ Balanced' /\ FramesNamed' /\ OpenMatches' /\ RowsKept'
  BY <1>1, <1>2, <1>3 DEF Phase, Balanced, FramesNamed, OpenMatches, RowsKept
<1>. QED
  BY <1>1, <1>4, <1>5, <1>6 DEF TxInv, WrittenKept, DiskNamed, FailsOnlyForCause

LEMMA TxStep == TxInv /\ [Next]_vars => TxInv'
<1>. SUFFICES ASSUME TxInv, [Next]_vars PROVE TxInv'
  OBVIOUS
<1>1. CASE UNCHANGED vars
  BY <1>1 DEF vars, TxInv, TypeOK, Phase, Balanced, FramesNamed, OpenMatches, SavepointOf,
              RowsKept, WrittenKept, Written, DiskNamed, DepthKnown, FailsOnlyForCause
<1>. QED
  BY <1>1, CallStep, OpenStep, WriteStep, CloseStep, CatchStep, EndStep DEF Next

LEMMA TransactionsAreSound == Spec => []TxInv
  BY TxInit, TxStep, PTL DEF Spec

(***************************************************************************)
(* SqliteRepository's depth and the connection's own state keep their      *)
(* types, the depth as an integer: it may well fall below zero.            *)
(***************************************************************************)
THEOREM TypeCorrect == Spec => []TypeOK
<1>1. TxInv => TypeOK
  BY DEF TxInv
<1>. QED
  BY <1>1, TransactionsAreSound, PTL

(***************************************************************************)
(* However an operation ended - its COMMIT refused, its ROLLBACK thrown,   *)
(* its nested transaction unwound - the next one finds no transaction of   *)
(* it open and only committed rows; what transaction() and its catch got   *)
(* wrong is the depth alone, by one for every COMMIT that was refused      *)
(* since the process started.                                              *)
(***************************************************************************)
OperationsLeaveOnlyTheDepth ==
    mode = "idle" => open = <<>> /\ rows = disk /\ depth = 0 - refused

THEOREM NothingIsLeftBehind == Spec => []OperationsLeaveOnlyTheDepth
<1>1. TxInv => OperationsLeaveOnlyTheDepth
  <2>. SUFFICES ASSUME TxInv, mode = "idle"
                PROVE  open = <<>> /\ rows = disk /\ depth = 0 - refused
    BY DEF OperationsLeaveOnlyTheDepth
  <2>1. open = <<>> /\ Len(frames) = 0
    BY DEF TxInv, Phase
  <2>. QED
    BY <2>1 DEF TxInv, RowsKept, DepthKnown
<1>. QED
  BY <1>1, TransactionsAreSound, PTL

(***************************************************************************)
(* An operation fails only because a statement did, the file was locked or *)
(* it threw - except that after exactly one COMMIT that failed,            *)
(* transaction() takes the outer of two nested calls for an inner one, and *)
(* the inner one for the outermost.                                        *)
(***************************************************************************)
THEOREM FailuresHaveACause == Spec => []FailsOnlyForCause
<1>1. TxInv => FailsOnlyForCause
  BY DEF TxInv
<1>. QED
  BY <1>1, TransactionsAreSound, PTL

-----------------------------------------------------------------------------
(* The refinement of AtomicOperations *)

(* what AtomicOperations sees of a state *)
Promised == IF mode = "idle" THEN {} ELSE Intended

LEMMA AbstractInit == Init => Abstract!Init
  BY DEF Init, Abstract!Init, Status

(* an operation that is called has rows of its own to write *)
LEMMA CallIsAbstract ==
  ASSUME TxInv, NEW o \in Operation, Call(o)
  PROVE  Abstract!Next
<1>1. /\ mode = "idle" /\ mode' = "running" /\ operation' = o /\ at' = 1
      /\ number' = number + 1 /\ number < MaxOperations /\ UNCHANGED disk
  BY DEF Call, sqlite
<1>2. /\ Len(o.body) \in Nat \ {0} /\ DOMAIN o.body = 1 .. Len(o.body)
      /\ \A i \in 1 .. Len(o.body) : i \in Position
  BY Bodies
<1>3. Status = "idle" /\ Status' = "running"
  BY <1>1, <1>2 DEF Status
<1>4. number \in Nat
  BY DEF TxInv, TypeOK
<1>5. Intended' \in SUBSET (Place \ disk)
  <2>1. \A i \in 1 .. Len(o.body) : <<number + 1, i>> \in Place
    BY <1>1, <1>2, <1>4, BoundAssumption DEF Place
  <2>2. disk \in SUBSET ((1 .. number) \X Position)
    BY DEF TxInv, DiskNamed
  <2>3. \A i : <<number + 1, i>> \notin disk
    BY <1>4, <2>2
  <2>4. Intended' = {<<number + 1, i>> : i \in {j \in DOMAIN o.body : o.body[j] = "write"}}
    BY <1>1 DEF Intended
  <2>. QED
    BY <1>2, <2>1, <2>3, <2>4
<1>. QED
  BY <1>1, <1>3, <1>5 DEF Abstract!Next, Abstract!Call

(* the last step of a body makes its rows durable, all of them *)
LEMMA LastStepApplies ==
  ASSUME TxInv, mode = "running", at = Len(operation.body), UNCHANGED <<operation, number>>,
         mode' = "running", at' = at + 1, disk' = disk \cup Written'
  PROVE  Abstract!Next
<1>1. /\ operation \in Operation /\ at \in Nat
      /\ DOMAIN operation.body = 1 .. Len(operation.body) /\ Len(operation.body) \in Nat
  BY Bodies DEF TxInv, Phase, TypeOK
<1>2. Status = "running" /\ Status' = "applied"
  BY <1>1 DEF Status
<1>3. Intended' = Intended
  BY DEF Intended
<1>4. Written' = Intended
  <2>1. 1 .. at' - 1 = DOMAIN operation.body
    BY <1>1
  <2>. QED
    BY <2>1 DEF Written, Intended
<1>. QED
  BY <1>2, <1>3, <1>4 DEF Abstract!Next, Abstract!Apply

(* every other step of an operation is none of the abstract one's *)
LEMMA InnerStep ==
  ASSUME mode = "unwinding" \/ (mode = "running" /\ ~(at > Len(operation.body))),
         UNCHANGED <<operation, number, disk>>,
         mode' = "unwinding" \/ (mode' = "running" /\ ~(at' > Len(operation.body)))
  PROVE  UNCHANGED Abstract!vars
<1>1. Status = "running" /\ Status' = "running"
  BY DEF Status
<1>2. Intended' = Intended
  BY DEF Intended
<1>. QED
  BY <1>1, <1>2 DEF Abstract!vars

(* an operation answers success once its rows are durable, and only then *)
LEMMA EndIsAbstract ==
  ASSUME TxInv, Answer \/ Crash
  PROVE  Abstract!Next
<1>1. mode' = "idle" /\ UNCHANGED disk
  BY EndStep DEF Answer, Crash
<1>2. Status' = "idle"
  BY <1>1 DEF Status
<1>3. CASE Crash
  BY <1>1, <1>2, <1>3 DEF Abstract!Next, Abstract!Crash
<1>4. CASE Answer /\ mode = "running" /\ at > Len(operation.body)
  <2>1. Status = "applied"
    BY <1>4 DEF Status
  <2>. QED
    BY <1>1, <1>2, <2>1 DEF Abstract!Next, Abstract!AnswerSuccess
<1>5. CASE Answer /\ mode = "unwinding"
  <2>1. Status = "running"
    BY <1>5 DEF Status
  <2>. QED
    BY <1>1, <1>2, <2>1 DEF Abstract!Next, Abstract!AnswerFailure
<1>. QED
  BY <1>3, <1>4, <1>5 DEF Answer

LEMMA StepIsAbstract ==
  TxInv /\ [Next]_vars => [Abstract!Next]_(Abstract!vars)
<1>. SUFFICES ASSUME TxInv, [Next]_vars
              PROVE  Abstract!Next \/ UNCHANGED Abstract!vars
  OBVIOUS
<1>0. at \in Nat
  BY DEF TxInv, TypeOK
<1>1. ASSUME NEW o \in Operation, Call(o)
      PROVE  Abstract!Next
  BY <1>1, CallIsAbstract
<1>2. CASE OpenBracket
  <2>1. /\ mode = "running" /\ at <= Len(operation.body) /\ operation.body[at] = "open"
        /\ UNCHANGED <<operation, number, disk>>
        /\ mode' = "unwinding" \/ (mode' = mode /\ at' = at + 1)
    BY <1>2 DEF OpenBracket, NextIs
  <2>2. at < Len(operation.body) /\ operation \in Operation
    BY <2>1, NextStep
  <2>3. Len(operation.body) \in Nat
    BY <2>2, Bodies
  <2>. QED
    BY <1>0, <2>1, <2>2, <2>3, InnerStep
<1>3. CASE Write \/ CloseBracket
  <2>1. mode = "running" /\ at <= Len(operation.body) /\ UNCHANGED <<operation, number>>
    BY <1>3 DEF Write, CloseBracket, NextIs
  <2>2. Len(operation.body) \in Nat
    BY <2>1, NextStep, Bodies
  <2>3. \/ mode' = "unwinding" /\ UNCHANGED disk
        \/ /\ mode' = "running" /\ at' = at + 1
           /\ at < Len(operation.body) => UNCHANGED disk
           /\ at = Len(operation.body) => disk' = disk \cup Written'
    BY <1>3, WriteStep, CloseStep
  <2>4. CASE mode' = "unwinding" \/ at < Len(operation.body)
    BY <1>0, <2>1, <2>2, <2>3, <2>4, InnerStep
  <2>5. CASE mode' # "unwinding" /\ at = Len(operation.body)
    BY <2>1, <2>3, <2>5, LastStepApplies
  <2>. QED
    BY <1>0, <2>1, <2>2, <2>4, <2>5
<1>4. CASE Catch
  BY <1>4, CatchStep, InnerStep DEF Catch
<1>5. CASE Answer \/ Crash
  BY <1>5, EndIsAbstract
<1>6. CASE UNCHANGED vars
  BY <1>6 DEF vars, Abstract!vars, Status, Intended
<1>. QED
  BY <1>1, <1>2, <1>3, <1>4, <1>5, <1>6 DEF Next

(***************************************************************************)
(* Every operation of the repository is all or nothing, and its answer     *)
(* says which, through nested transactions, failed COMMITs, a depth that   *)
(* is counted wrong and crashes: SqliteRepository implements               *)
(* AtomicOperations.                                                       *)
(***************************************************************************)
THEOREM OperationsAreAtomic == Spec => ImplementsAtomic
<1>. QED
  BY AbstractInit, StepIsAbstract, TransactionsAreSound, PTL
     DEF Spec, ImplementsAtomic, Abstract!Spec

=============================================================================
