--------------------------- MODULE ServerBootProofs ---------------------------
(***************************************************************************)
(* What ServerBoot promises, proved for every number of processes,         *)
(* migrations, requests and pending updates, through every crash: first    *)
(* the database file, then the process' own life, then what it does with   *)
(* the administrator's commands.                                           *)
(***************************************************************************)
EXTENDS ServerBoot, TLAPS, SequenceTheorems

-----------------------------------------------------------------------------
(* The database file (Migrations) *)

(***************************************************************************)
(* A process that migrates, or has, knows of the first u migrations, and   *)
(* what is left for it are all the later ones; they can only have grown    *)
(* since it looked.                                                        *)
(***************************************************************************)
TodoSound(v) ==
    \A p \in Process :
        process[p].step \in {"migrating", "serving"} =>
            \E u \in 0 .. v : process[p].todo = u + 1 .. Last

(* who is inside BEGIN IMMEDIATE has something to apply *)
WriterSound ==
    /\ writer # NoProcess => Is(writer, "migrating") /\ process[writer].todo # {}
    /\ ran => writer # NoProcess /\ Current(writer) \notin schema

NothingLeftForServing ==
    \A p \in Process : Is(p, "serving") => process[p].todo = {}

FileInv ==
    /\ TypeOK
    /\ schema = recorded
    /\ \E v \in 0 .. Last : recorded = 1 .. v /\ TodoSound(v)
    /\ WriterSound
    /\ NothingLeftForServing

(* the least of the versions from u + 1 on *)
LEMMA CurrentIsNext ==
  ASSUME NEW p \in Process, NEW u \in 0 .. Last, process[p].todo = u + 1 .. Last,
         process[p].todo # {}
  PROVE  Current(p) = u + 1 /\ u < Last
<1>1. u + 1 \in process[p].todo /\ u < Last
  BY LastAssumption
<1>2. \A w \in process[p].todo : u + 1 <= w
  BY LastAssumption
<1>3. \A x \in process[p].todo : (\A w \in process[p].todo : x <= w) => x = u + 1
  BY <1>1, <1>2, LastAssumption
<1>. QED
  BY <1>1, <1>2, <1>3 DEF Current

LEMMA FileInit == Init => FileInv
<1>. SUFFICES ASSUME Init PROVE FileInv
  OBVIOUS
<1>1. PICK v \in 0 .. Last : schema = 1 .. v
  BY DEF Init
<1>2. schema \in SUBSET Version
  BY <1>1, LastAssumption DEF Version
<1>3. \A p \in Process : process[p] = [step |-> "down", todo |-> {}]
  BY DEF Init, Down
<1>4. process \in [Process -> [step : Steps, todo : SUBSET Version]]
  BY DEF Init, Down, Steps
<1>5. TypeOK
  BY <1>2, <1>4 DEF Init, TypeOK
<1>6. TodoSound(v)
  BY <1>3 DEF TodoSound
<1>7. NothingLeftForServing
  BY <1>3 DEF NothingLeftForServing, Is
<1>. QED
  BY <1>1, <1>5, <1>6, <1>7 DEF Init, FileInv, WriterSound

(***************************************************************************)
(* A step of one process that leaves the file alone, as most do: where the *)
(* process goes, and who holds the lock then.                              *)
(***************************************************************************)
LEMMA ProcessStep ==
  ASSUME FileInv, UNCHANGED <<schema, recorded>>, NEW p \in Process,
         NEW row \in [step : Steps, todo : SUBSET Version],
         process' = [process EXCEPT ![p] = row],
         row.step \in {"migrating", "serving"} =>
            row.todo = Version \ recorded \/
               (Is(p, "migrating") /\ row.todo = process[p].todo),
         row.step = "serving" => row.todo = {},
         writer' \in {writer, NoProcess},
         writer = p => writer' = NoProcess,
         ran' \in BOOLEAN, ran' => ran /\ writer' = writer
  PROVE  FileInv'
<1>1. process \in [Process -> [step : Steps, todo : SUBSET Version]]
  BY DEF FileInv, TypeOK
<1>2. /\ process'[p] = row
      /\ \A q \in Process \ {p} : process'[q] = process[q]
      /\ process' \in [Process -> [step : Steps, todo : SUBSET Version]]
  BY <1>1
<1>3. PICK v \in 0 .. Last : recorded = 1 .. v /\ TodoSound(v)
  BY DEF FileInv
<1>4. TypeOK'
  BY <1>2 DEF FileInv, TypeOK
<1>5. TodoSound(v)'
  <2>. SUFFICES ASSUME NEW q \in Process, process'[q].step \in {"migrating", "serving"}
                PROVE  \E u \in 0 .. v : process'[q].todo = u + 1 .. Last
    BY DEF TodoSound
  <2>1. CASE q # p
    BY <1>2, <1>3, <2>1 DEF TodoSound
  <2>2. CASE q = p /\ row.todo = Version \ recorded
    <3>1. Version \ recorded = v + 1 .. Last /\ v \in 0 .. v
      BY <1>3, LastAssumption DEF Version
    <3>. QED
      BY <1>2, <2>2, <3>1
  <2>3. CASE q = p /\ Is(p, "migrating") /\ row.todo = process[p].todo
    BY <1>2, <1>3, <2>3 DEF TodoSound, Is
  <2>. QED
    BY <1>2, <2>1, <2>2, <2>3
<1>6. WriterSound'
  <2>1. CASE writer' = NoProcess
    BY <2>1 DEF WriterSound, FileInv
  <2>2. CASE writer' # NoProcess
    <3>1. writer' = writer /\ writer # p /\ writer \in Process
      BY <1>4, <2>2 DEF FileInv, TypeOK
    <3>2. process'[writer] = process[writer]
      BY <1>2, <3>1
    <3>3. Current(writer)' = Current(writer)
      BY <3>1, <3>2 DEF Current
    <3>. QED
      BY <2>2, <3>1, <3>2, <3>3 DEF FileInv, WriterSound, Is
  <2>. QED
    BY <2>1, <2>2
<1>7. NothingLeftForServing'
  BY <1>2 DEF FileInv, NothingLeftForServing, Is
<1>. QED
  BY <1>3, <1>4, <1>5, <1>6, <1>7 DEF FileInv

(* every step of migrate() that does not commit, and the end of a process *)
LEMMA QuietStep ==
  ASSUME FileInv, NEW p \in Process,
         \/ Start(p) \/ ReadApplied(p) \/ Busy(p) \/ AlreadyThere(p) \/ Serve(p) \/ Die(p)
  PROVE  FileInv'
<1>. DEFINE row == process'[p]
<1>1. process \in [Process -> [step : Steps, todo : SUBSET Version]]
  BY DEF FileInv, TypeOK
<1>2. process[p] \in [step : Steps, todo : SUBSET Version]
  BY <1>1
<1>3. Version \ recorded \in SUBSET Version
  OBVIOUS
<1>4. UNCHANGED <<schema, recorded>> /\ ran' \in BOOLEAN
  BY DEF FileInv, TypeOK, Start, ReadApplied, Busy, AlreadyThere, Serve, Die
<1>5. CASE Start(p)
  <2>. DEFINE new == [process[p] EXCEPT !.step = "reading"]
  <2>1. process' = [process EXCEPT ![p] = new]
    BY <1>1, <1>5 DEF Start, Becomes
  <2>2. new \in [step : Steps, todo : SUBSET Version] /\ new.step = "reading"
    BY <1>2 DEF Steps
  <2>3. writer' = writer /\ ran' = ran /\ writer # p
    BY <1>5, LastAssumption DEF Start, FileInv, WriterSound, Is
  <2>. HIDE DEF new
  <2>. QED
    BY <1>4, <2>1, <2>2, <2>3, ProcessStep
<1>6. CASE ReadApplied(p)
  <2>. DEFINE new == [step |-> "migrating", todo |-> Version \ recorded]
  <2>1. process' = [process EXCEPT ![p] = new]
    BY <1>6 DEF ReadApplied
  <2>2. /\ new \in [step : Steps, todo : SUBSET Version]
        /\ new.step = "migrating" /\ new.todo = Version \ recorded
    BY <1>3 DEF Steps
  <2>3. writer' = writer /\ ran' = ran /\ writer # p
    BY <1>6, LastAssumption DEF ReadApplied, FileInv, WriterSound, Is
  <2>. HIDE DEF new
  <2>. QED
    BY <1>4, <2>1, <2>2, <2>3, ProcessStep
<1>7. CASE Busy(p) \/ AlreadyThere(p)
  <2>. DEFINE new == [process[p] EXCEPT !.step = "failed"]
  <2>1. process' = [process EXCEPT ![p] = new]
    BY <1>1, <1>7 DEF Busy, AlreadyThere, Becomes
  <2>2. new \in [step : Steps, todo : SUBSET Version] /\ new.step = "failed"
    BY <1>2 DEF Steps
  <2>3. /\ writer' \in {writer, NoProcess}
        /\ writer = p => writer' = NoProcess
        /\ ran' => ran /\ writer' = writer
    BY <1>7 DEF Busy, AlreadyThere
  <2>. HIDE DEF new
  <2>. QED
    BY <1>4, <2>1, <2>2, <2>3, ProcessStep
<1>8. CASE Serve(p)
  <2>. DEFINE new == [process[p] EXCEPT !.step = "serving"]
  <2>1. process' = [process EXCEPT ![p] = new]
    BY <1>1, <1>8 DEF Serve, Becomes
  <2>2. /\ new \in [step : Steps, todo : SUBSET Version]
        /\ new.step = "serving" /\ new.todo = process[p].todo
    BY <1>2 DEF Steps
  <2>3. /\ writer' = writer /\ ran' = ran /\ writer # p
        /\ process[p].todo = {} /\ Is(p, "migrating")
    BY <1>8, LastAssumption DEF Serve, FileInv, WriterSound, Is
  <2>. HIDE DEF new
  <2>. QED
    BY <1>4, <2>1, <2>2, <2>3, ProcessStep
<1>9. CASE Die(p)
  <2>1. process' = [process EXCEPT ![p] = Down]
    BY <1>9 DEF Die
  <2>2. Down \in [step : Steps, todo : SUBSET Version] /\ Down.step = "down"
    BY DEF Down, Steps
  <2>3. /\ writer' \in {writer, NoProcess}
        /\ writer = p => writer' = NoProcess
        /\ ran' => ran /\ writer' = writer
    BY <1>9 DEF Die
  <2>. QED
    BY <1>4, <2>1, <2>2, <2>3, ProcessStep
<1>. QED
  BY <1>5, <1>6, <1>7, <1>8, <1>9

(* the lock is taken, and the SQL is run, by who has something to apply *)
LEMMA LockStep ==
  ASSUME FileInv, NEW p \in Process, BeginImmediate(p) \/ RunSql(p)
  PROVE  FileInv'
<1>1. UNCHANGED <<schema, recorded, process>>
  BY DEF BeginImmediate, RunSql
<1>2. TypeOK'
  BY <1>1 DEF BeginImmediate, RunSql, FileInv, TypeOK
<1>3. WriterSound'
  <2>1. CASE BeginImmediate(p)
    BY <1>1, <2>1 DEF BeginImmediate, FileInv, WriterSound, Is
  <2>2. CASE RunSql(p)
    <3>1. writer' = writer /\ writer # NoProcess /\ writer = p
      BY <2>2, LastAssumption DEF RunSql
    <3>2. Current(writer)' = Current(writer)
      BY <1>1, <3>1 DEF Current
    <3>. QED
      BY <1>1, <2>2, <3>1, <3>2 DEF RunSql, FileInv, WriterSound, Is
  <2>. QED
    BY <2>1, <2>2
<1>. QED
  BY <1>1, <1>2, <1>3 DEF FileInv, TodoSound, NothingLeftForServing, Is

(***************************************************************************)
(* COMMIT: nobody else has applied this version, since it is not in the    *)
(* schema, so it is the one after the recorded ones.                       *)
(***************************************************************************)
LEMMA CommitStep ==
  ASSUME FileInv, NEW p \in Process, Commit(p)
  PROVE  FileInv'
<1>1. process \in [Process -> [step : Steps, todo : SUBSET Version]]
  BY DEF FileInv, TypeOK
<1>2. PICK v \in 0 .. Last : recorded = 1 .. v /\ TodoSound(v)
  BY DEF FileInv
<1>3. /\ writer = p /\ Is(p, "migrating") /\ process[p].todo # {}
      /\ Current(p) \notin 1 .. v /\ schema = 1 .. v
  BY <1>2, LastAssumption DEF Commit, FileInv, WriterSound
<1>4. PICK u \in 0 .. v : process[p].todo = u + 1 .. Last
  BY <1>2, <1>3 DEF TodoSound, Is
<1>5. Current(p) = u + 1 /\ u < Last /\ u = v
  <2>1. u \in 0 .. Last
    BY LastAssumption
  <2>2. Current(p) = u + 1 /\ u < Last
    BY <1>3, <1>4, <2>1, CurrentIsNext
  <2>3. u = v
    BY <1>3, <2>2
  <2>. QED
    BY <2>2, <2>3
<1>. DEFINE w == v + 1
            new == [process[p] EXCEPT !.todo = w + 1 .. Last]
<1>6. w \in 0 .. Last /\ schema' = 1 .. w /\ recorded' = 1 .. w
  BY <1>2, <1>3, <1>5, LastAssumption DEF Commit
<1>7. process[p].todo \ {Current(p)} = w + 1 .. Last
  BY <1>4, <1>5, LastAssumption
<1>8. process' = [process EXCEPT ![p] = new]
  BY <1>1, <1>7 DEF Commit
<1>9. /\ new \in [step : Steps, todo : SUBSET Version]
      /\ new.step = "migrating" /\ new.todo = w + 1 .. Last
  <2>1. w + 1 .. Last \in SUBSET Version
    BY <1>6, LastAssumption DEF Version
  <2>2. process[p] \in [step : Steps, todo : SUBSET Version] /\ process[p].step = "migrating"
    BY <1>1, <1>3 DEF Is
  <2>. HIDE DEF w
  <2>. QED
    BY <2>1, <2>2
<1>. HIDE DEF w, new
<1>10. /\ process'[p] = new
       /\ \A q \in Process \ {p} : process'[q] = process[q]
       /\ process' \in [Process -> [step : Steps, todo : SUBSET Version]]
  BY <1>1, <1>8, <1>9
<1>11. TypeOK'
  <2>1. 1 .. w \in SUBSET Version
    BY <1>6, LastAssumption DEF Version
  <2>. QED
    BY <1>6, <1>10, <2>1 DEF Commit, TypeOK
<1>12. TodoSound(w)'
  <2>. SUFFICES ASSUME NEW q \in Process, process'[q].step \in {"migrating", "serving"}
                PROVE  \E x \in 0 .. w : process'[q].todo = x + 1 .. Last
    BY DEF TodoSound
  <2>1. CASE q = p
    <3>1. w \in 0 .. w
      BY <1>6, LastAssumption
    <3>. QED
      BY <1>9, <1>10, <2>1, <3>1
  <2>2. CASE q # p
    <3>1. PICK x \in 0 .. v : process[q].todo = x + 1 .. Last
      BY <1>2, <1>10, <2>2 DEF TodoSound
    <3>2. x \in 0 .. w
      BY DEF w
    <3>. QED
      BY <1>10, <2>2, <3>1, <3>2
  <2>. QED
    BY <2>1, <2>2
<1>13. WriterSound' /\ NothingLeftForServing'
  BY <1>9, <1>10 DEF Commit, WriterSound, NothingLeftForServing, FileInv, Is
<1>. QED
  BY <1>6, <1>11, <1>12, <1>13 DEF FileInv

(***************************************************************************)
(* Every step of the server keeps the file's invariant: the steps of       *)
(* migrate() and the deaths by the lemmas above, the rest by not touching  *)
(* the file.                                                               *)
(***************************************************************************)
LEMMA FileStep == FileInv /\ [BootNext]_bootVars => FileInv'
<1>. SUFFICES ASSUME FileInv, [BootNext]_bootVars
              PROVE  FileInv'
  OBVIOUS
<1>1. ASSUME NEW p \in Process, Migrate(p) \/ End(p)
      PROVE  FileInv'
  BY <1>1, QuietStep, LockStep, CommitStep DEF Migrate, End
<1>2. CASE UNCHANGED file
  <2>1. UNCHANGED <<schema, recorded, writer, ran, process>>
    BY <1>2 DEF file
  <2>2. \A p \in Process : Current(p)' = Current(p)
    BY <2>1 DEF Current
  <2>. QED
    BY <2>1, <2>2 DEF FileInv, TypeOK, TodoSound, WriterSound, NothingLeftForServing, Is
<1>3. CASE UNCHANGED bootVars
  BY <1>2, <1>3 DEF bootVars, file
<1>4. CASE Run(RuntimeNext) \/ BotStopped \/ PollingFails \/ HandlerStep \/ Send
  <2>1. UNCHANGED file
    BY <1>4 DEF Run, BotStopped, PollingFails, HandlerStep, Send, Serving, file
  <2>. QED
    BY <1>2, <2>1
<1>. QED
  BY <1>1, <1>3, <1>4 DEF BootNext

-----------------------------------------------------------------------------
(* The process' own life (RuntimeLifecycle) *)

(* the port is bound only by a process that migrate() let through *)
ListenerServes == http # "new" => Is(Server, "serving")

(***************************************************************************)
(* The close waits for the listen; it gets to the database only after it   *)
(* has closed the port, and it does so with nobody waiting or with a       *)
(* failure on record.  A port that is closed is never opened again.        *)
(***************************************************************************)
RuntimeInv ==
    /\ R!TypeOK
    /\ starting = "listening" => closing \in {"idle", "start"}
    /\ closing \in {"http", "done"} => http # "open"
    /\ db = "closed" => closing = "done"
    /\ closing = "done" /\ "http" \notin errors =>
          \A r \in Request : request[r] # "served"
    /\ R!AskedToClose => closing # "idle"
    /\ closing = "done" => R!Settled

LEMMA ListenerInit == BootInit => ListenerServes
  BY DEF BootInit, R!Init, ListenerServes

LEMMA ListenerStep == FileInv /\ ListenerServes /\ [BootNext]_bootVars => ListenerServes'
<1>. SUFFICES ASSUME FileInv, ListenerServes, [BootNext]_bootVars
              PROVE  ListenerServes'
  OBVIOUS
<1>0. process \in [Process -> [step : Steps, todo : SUBSET Version]]
  BY DEF FileInv, TypeOK
<1>1. ASSUME NEW p \in Process, Migrate(p)
      PROVE  ListenerServes'
  <2>1. UNCHANGED http
    BY <1>1 DEF Migrate, runtime
  <2>2. \/ process' = process
        \/ \E row : process' = [process EXCEPT ![p] = row] /\ ~Is(p, "serving")
    <3>1. CASE BeginImmediate(p) \/ RunSql(p)
      BY <3>1 DEF BeginImmediate, RunSql
    <3>2. CASE Start(p) \/ ReadApplied(p) \/ Busy(p) \/ Serve(p)
      BY <3>2, <1>0 DEF Start, ReadApplied, Busy, Serve, Becomes, Is
    <3>3. CASE Commit(p) \/ AlreadyThere(p)
      <4>1. Is(p, "migrating")
        BY <3>3, LastAssumption DEF Commit, AlreadyThere, FileInv, WriterSound
      <4>. QED
        BY <3>3, <4>1, <1>0 DEF Commit, AlreadyThere, Becomes, Is
    <3>. QED
      BY <1>1, <3>1, <3>2, <3>3 DEF Migrate
  <2>3. Is(Server, "serving") => process'[Server] = process[Server]
    BY <2>2, <1>0, ServerAssumption DEF Is
  <2>. QED
    BY <2>1, <2>3 DEF ListenerServes, Is
<1>2. ASSUME NEW p \in Process, End(p)
      PROVE  ListenerServes'
  <2>1. CASE p = Server
    BY <1>2, <2>1 DEF End, ListenerServes
  <2>2. CASE p # Server
    BY <1>0, <1>2, <2>2, ServerAssumption DEF End, Die, runtime, ListenerServes, Is
  <2>. QED
    BY <2>1, <2>2
<1>3. CASE Run(RuntimeNext) \/ BotStopped \/ PollingFails \/ HandlerStep
  <2>1. Is(Server, "serving") /\ UNCHANGED process
    BY <1>3 DEF Run, BotStopped, PollingFails, HandlerStep, Serving, file
  <2>. QED
    BY <2>1 DEF ListenerServes, Is
<1>4. CASE Send \/ UNCHANGED bootVars
  BY <1>4 DEF Send, bootVars, file, runtime, ListenerServes, Is
<1>. QED
  BY <1>1, <1>2, <1>3, <1>4 DEF BootNext

LEMMA RuntimeInit == BootInit => RuntimeInv
  BY DEF BootInit, R!Init, RuntimeInv, R!TypeOK, R!RequestStates, R!CloseSteps, R!AskedToClose

(* a request arrives, hangs up or is answered *)
LEMMA RequestStep ==
  ASSUME RuntimeInv, NEW r \in Request, R!Arrive(r) \/ R!HangUp(r) \/ R!Finish(r)
  PROVE  RuntimeInv'
<1>1. request \in [Request -> R!RequestStates]
  BY DEF RuntimeInv, R!TypeOK
<1>2. UNCHANGED <<starting, closing, errors, http, bot, timer, db>>
  BY DEF R!Arrive, R!HangUp, R!Finish
<1>3. PICK s \in R!RequestStates : /\ request' = [request EXCEPT ![r] = s]
                                   /\ s = "served" => http = "open"
  BY DEF R!Arrive, R!HangUp, R!Finish, R!RequestStates
<1>4. request' \in [Request -> R!RequestStates]
  BY <1>1, <1>3
<1>5. closing = "done" => \A q \in Request : request'[q] = "served" => request[q] = "served"
  BY <1>1, <1>3 DEF RuntimeInv
<1>6. R!TypeOK'
  BY <1>2, <1>4 DEF RuntimeInv, R!TypeOK
<1>7. R!AskedToClose' = R!AskedToClose /\ R!Settled' = R!Settled
  BY <1>2 DEF R!AskedToClose, R!Settled
<1>. QED
  BY <1>2, <1>5, <1>6, <1>7 DEF RuntimeInv

(* start() and what asks for the close, which is under way from then on *)
LEMMA StartStep ==
  ASSUME RuntimeInv,
         \/ R!Signal \/ R!Start \/ R!StartRefused \/ R!Listening \/ R!ListenFails
         \/ R!PollingFails
  PROVE  RuntimeInv'
<1>1. UNCHANGED <<errors, db, request>>
  BY DEF R!Signal, R!Start, R!StartRefused, R!Listening, R!ListenFails, R!PollingFails
<1>2. starting = "listening" => closing \in {"idle", "start"}
  BY DEF RuntimeInv
<1>3. closing' \in {closing, "start", "bot"} /\ (closing' # closing => closing = "idle")
  BY DEF R!Signal, R!Start, R!StartRefused, R!Listening, R!ListenFails, R!PollingFails,
         R!AskToClose
<1>4. closing \in {"http", "done"} => http' = http
  BY <1>2 DEF R!Signal, R!Start, R!StartRefused, R!Listening, R!ListenFails, R!PollingFails
<1>5. R!TypeOK'
  <2>1. closing' \in R!CloseSteps
    BY <1>3 DEF RuntimeInv, R!TypeOK, R!CloseSteps
  <2>2. starting' \in {"idle", "listening", "done", "failed"}
    BY DEF R!Signal, R!Start, R!StartRefused, R!Listening, R!ListenFails, R!PollingFails,
           RuntimeInv, R!TypeOK
  <2>3. http' \in {http, "open"} /\ bot' \in {bot, "polling", "failed"}
    BY DEF R!Signal, R!Start, R!StartRefused, R!Listening, R!ListenFails, R!PollingFails
  <2>4. timer' \in BOOLEAN
    BY DEF R!Signal, R!Start, R!StartRefused, R!Listening, R!ListenFails, R!PollingFails,
           R!AskToClose, RuntimeInv, R!TypeOK
  <2>. QED
    BY <1>1, <2>1, <2>2, <2>3, <2>4 DEF RuntimeInv, R!TypeOK
<1>6. starting' = "listening" => closing' \in {"idle", "start"}
  BY <1>2 DEF R!Signal, R!Start, R!StartRefused, R!Listening, R!ListenFails, R!PollingFails,
              R!AskToClose
<1>7. R!AskedToClose' => closing' # "idle"
  <2>1. starting' = "failed" => starting = "failed" \/ closing' # "idle"
    BY DEF R!Signal, R!Start, R!StartRefused, R!Listening, R!ListenFails, R!PollingFails,
           R!AskToClose
  <2>2. bot' = "failed" => bot = "failed" \/ closing' # "idle"
    BY DEF R!Signal, R!Start, R!StartRefused, R!Listening, R!ListenFails, R!PollingFails,
           R!AskToClose
  <2>. QED
    BY <1>3, <2>1, <2>2 DEF RuntimeInv, R!AskedToClose
<1>. QED
  BY <1>1, <1>3, <1>4, <1>5, <1>6, <1>7 DEF RuntimeInv, R!Settled

(* closeInternal, from await to await *)
LEMMA CloseStep ==
  ASSUME RuntimeInv, R!StartSettled \/ R!BotStopped \/ R!HttpAndDatabaseClosed
  PROVE  RuntimeInv'
<1>1. UNCHANGED <<starting, timer, request>> /\ closing' \in {"bot", "http", "done"}
  BY DEF R!StartSettled, R!BotStopped, R!HttpAndDatabaseClosed
<1>2. starting # "listening"
  BY DEF RuntimeInv, R!StartSettled, R!BotStopped, R!HttpAndDatabaseClosed
<1>3. R!TypeOK'
  BY <1>1 DEF RuntimeInv, R!TypeOK, R!CloseSteps, R!StartSettled, R!BotStopped,
              R!HttpAndDatabaseClosed
<1>4. CASE R!StartSettled \/ R!BotStopped
  BY <1>1, <1>2, <1>3, <1>4 DEF RuntimeInv, R!StartSettled, R!BotStopped
<1>5. CASE R!HttpAndDatabaseClosed
  <2>1. PICK failed \in SUBSET {"http", "db"} :
             /\ "http" \in failed \/ \A r \in Request : request[r] # "served"
             /\ http' = IF "http" \in failed THEN http ELSE "closed"
             /\ db' = IF "db" \in failed THEN db ELSE "closed"
             /\ errors' = errors \cup failed
    BY <1>5 DEF R!HttpAndDatabaseClosed
  <2>2. closing = "http" /\ closing' = "done"
    BY <1>5 DEF R!HttpAndDatabaseClosed
  <2>3. R!Settled'
    BY <2>1, <2>2 DEF R!Settled
  <2>. QED
    BY <1>1, <1>2, <1>3, <2>1, <2>2, <2>3 DEF RuntimeInv
<1>. QED
  BY <1>4, <1>5

LEMMA RuntimeStep == RuntimeInv /\ [BootNext]_bootVars => RuntimeInv'
<1>. SUFFICES ASSUME RuntimeInv, [BootNext]_bootVars
              PROVE  RuntimeInv'
  OBVIOUS
<1>1. CASE UNCHANGED runtime
  BY <1>1 DEF runtime, RuntimeInv, R!TypeOK, R!AskedToClose, R!Settled
<1>2. ASSUME NEW p \in Process, Migrate(p) \/ End(p)
      PROVE  RuntimeInv'
  <2>1. CASE Migrate(p) \/ p # Server
    BY <1>1, <1>2, <2>1 DEF Migrate, End
  <2>2. CASE End(p) /\ p = Server
    BY <2>2 DEF End, RuntimeInv, R!TypeOK, R!RequestStates, R!CloseSteps, R!AskedToClose
  <2>. QED
    BY <1>2, <2>1, <2>2
<1>3. CASE Run(RuntimeNext)
  BY <1>3, StartStep, CloseStep, RequestStep DEF Run, RuntimeNext
<1>4. CASE BotStopped \/ PollingFails
  BY <1>4, StartStep, CloseStep DEF BotStopped, PollingFails
<1>5. CASE HandlerStep \/ Send \/ UNCHANGED bootVars
  BY <1>1, <1>5 DEF HandlerStep, Send, bootVars, runtime
<1>. QED
  BY <1>2, <1>3, <1>4, <1>5 DEF BootNext

-----------------------------------------------------------------------------
(* What becomes of the administrator's commands (BotUpdates) *)

(* among the updates this process has not taken yet *)
Ahead(command) == \E i \in tried + 1 .. Len(queue) : queue[i] = command
OnlyResetsAhead == \A i \in tried + 1 .. Len(queue) : queue[i] = "reset"

Resetting == handling \in {"scrypt", "reply to reset", "reply error"}

UpdateTypes ==
    /\ queue \in Seq(U!Command)
    /\ tried \in 0 .. Len(queue)
    /\ enabled \in BOOLEAN
    /\ told \in BOOLEAN
    /\ doubt \in BOOLEAN
    /\ live \in SUBSET {"current", "old"}

(* an enable or disable with nothing but resets behind it is the last one sent *)
LastDecides ==
    \A i \in DOMAIN queue :
        queue[i] # "reset" /\ (\A j \in i + 1 .. Len(queue) : queue[j] = "reset")
            => wanted = (queue[i] = "enable")

UpToDate == OnlyResetsAhead => enabled = wanted

(* a reset that is not done is ahead, in hand, or one that nobody saw succeed *)
ResetsAreFinished == "old" \in live \/ ~told => doubt \/ Resetting \/ Ahead("reset")

DisablesAreFinished == ~enabled /\ live # {} => Ahead("disable")

(* what is in hand comes again, unless its getUpdates has been confirmed *)
InHandIsQueued == Resetting => tried = 0 \/ queue[tried] = "reset"

HiddenUntilTold == handling = "reply to reset" => live = {} /\ ~told

UpdatesInv ==
    /\ UpdateTypes
    /\ LastDecides
    /\ UpToDate
    /\ ResetsAreFinished
    /\ DisablesAreFinished
    /\ InHandIsQueued
    /\ HiddenUntilTold

(***************************************************************************)
(* Confirming drops what was taken: what is ahead stays ahead, in its      *)
(* order.                                                                  *)
(***************************************************************************)
LEMMA ConfirmedKeepsRest ==
  ASSUME UpdateTypes, U!Confirmed
  PROVE  /\ queue' \in Seq(U!Command) /\ tried' = 0
         /\ Len(queue') = Len(queue) - tried
         /\ \A i \in 1 .. Len(queue') : queue'[i] = queue[tried + i]
<1>1. queue \in Seq(U!Command) /\ tried \in Nat /\ tried <= Len(queue) /\ Len(queue) \in Nat
  BY DEF UpdateTypes
<1>2. \A i \in tried + 1 .. Len(queue) : queue[i] \in U!Command
  BY <1>1
<1>. QED
  BY <1>1, <1>2, SubSeqProperties DEF U!Confirmed

LEMMA QueueStep ==
  ASSUME UpdateTypes, U!Confirmed \/ UNCHANGED <<queue, tried>>
  PROVE  /\ queue' \in Seq(U!Command) /\ tried' \in 0 .. Len(queue')
         /\ \A command \in U!Command : Ahead(command)' <=> Ahead(command)
         /\ OnlyResetsAhead' <=> OnlyResetsAhead
         /\ UNCHANGED wanted /\ LastDecides => LastDecides'
         /\ tried' = 0 \/ UNCHANGED <<queue, tried>>
<1>1. CASE UNCHANGED <<queue, tried>>
  BY <1>1 DEF UpdateTypes, Ahead, OnlyResetsAhead, LastDecides
<1>2. CASE U!Confirmed
  <2>0. queue \in Seq(U!Command) /\ tried \in Nat /\ tried <= Len(queue) /\ Len(queue) \in Nat
    BY DEF UpdateTypes
  <2>. DEFINE n == Len(queue)
              rest == Len(queue')
  <2>1. /\ queue' \in Seq(U!Command) /\ tried' = 0
        /\ rest = n - tried /\ rest \in Nat
        /\ \A i \in 1 .. rest : queue'[i] = queue[tried + i]
    BY <1>2, <2>0, ConfirmedKeepsRest
  <2>. HIDE DEF n, rest
  <2>2. \A i \in 1 .. rest : tried + i \in tried + 1 .. n
    BY <2>0, <2>1 DEF n
  <2>3. \A i \in tried + 1 .. n : i - tried \in 1 .. rest /\ tried + (i - tried) = i
    BY <2>0, <2>1 DEF n
  <2>4. \A i \in tried + 1 .. n : queue[i] = queue'[i - tried]
    BY <2>1, <2>3
  <2>5. \A command \in U!Command : Ahead(command)' <=> Ahead(command)
    <3>. SUFFICES ASSUME NEW command \in U!Command PROVE Ahead(command)' <=> Ahead(command)
      OBVIOUS
    <3>1. Ahead(command)' <=> \E i \in 1 .. rest : queue'[i] = command
      BY <2>1 DEF Ahead, rest
    <3>2. Ahead(command) <=> \E i \in tried + 1 .. n : queue[i] = command
      BY DEF Ahead, n
    <3>. QED
      BY <2>1, <2>2, <2>3, <2>4, <3>1, <3>2
  <2>6. OnlyResetsAhead' <=> OnlyResetsAhead
    <3>1. OnlyResetsAhead' <=> \A i \in 1 .. rest : queue'[i] = "reset"
      BY <2>1 DEF OnlyResetsAhead, rest
    <3>2. OnlyResetsAhead <=> \A i \in tried + 1 .. n : queue[i] = "reset"
      BY DEF OnlyResetsAhead, n
    <3>. QED
      BY <2>1, <2>2, <2>3, <2>4, <3>1, <3>2
  <2>7. ASSUME UNCHANGED wanted, LastDecides
        PROVE  LastDecides'
    <3>. SUFFICES ASSUME NEW i \in DOMAIN queue', queue'[i] # "reset",
                         \A j \in i + 1 .. Len(queue') : queue'[j] = "reset"
                  PROVE  wanted' = (queue'[i] = "enable")
      BY DEF LastDecides
    <3>1. i \in 1 .. rest
      BY <2>1 DEF rest
    <3>2. tried + i \in DOMAIN queue /\ queue'[i] = queue[tried + i]
      BY <2>0, <2>1, <2>2, <3>1 DEF n
    <3>3. ASSUME NEW j \in (tried + i) + 1 .. Len(queue)
          PROVE  queue[j] = "reset"
      <4>1. j \in tried + 1 .. n /\ j - tried \in i + 1 .. rest
        BY <2>0, <2>1, <3>1 DEF n
      <4>. QED
        BY <2>4, <4>1 DEF rest
    <3>. QED
      BY <2>7, <3>2, <3>3 DEF LastDecides
  <2>. QED
    BY <2>1, <2>5, <2>6, <2>7 DEF rest
<1>. QED
  BY <1>1, <1>2

LEMMA UpdatesInit == BootInit => UpdatesInv
<1>. SUFFICES ASSUME U!Init PROVE UpdatesInv
  BY DEF BootInit
<1>1. UpdateTypes
  <2>1. queue = <<>> /\ tried = 0 /\ Len(queue) = 0 /\ queue \in Seq(U!Command)
    BY EmptySeq DEF U!Init
  <2>2. tried \in 0 .. Len(queue)
    BY <2>1
  <2>3. enabled \in BOOLEAN /\ told \in BOOLEAN /\ doubt \in BOOLEAN /\ live = {}
    BY DEF U!Init
  <2>. QED
    BY <2>1, <2>2, <2>3 DEF UpdateTypes
<1>. QED
  BY <1>1 DEF U!Init, UpdatesInv, LastDecides, UpToDate, ResetsAreFinished,
              DisablesAreFinished, InHandIsQueued, HiddenUntilTold, Resetting

(* a new command goes behind all the others *)
LEMMA SendStep ==
  ASSUME UpdatesInv, NEW command \in U!Command, U!Send(command)
  PROVE  UpdatesInv'
<1>0. queue \in Seq(U!Command) /\ tried \in Nat /\ tried <= Len(queue) /\ Len(queue) \in Nat
  BY DEF UpdatesInv, UpdateTypes
<1>. DEFINE n == Len(queue)
<1>1. /\ UNCHANGED <<tried, handling, enabled, live, told, doubt>>
      /\ queue' = Append(queue, command)
      /\ wanted' = IF command = "reset" THEN wanted ELSE command = "enable"
  BY DEF U!Send, U!account
<1>2. /\ queue' \in Seq(U!Command) /\ Len(queue') = n + 1
      /\ \A i \in 1 .. n : queue'[i] = queue[i]
      /\ queue'[n + 1] = command
  BY <1>0, <1>1
<1>. HIDE DEF n
<1>3. n \in Nat /\ tried \in Nat /\ tried <= n /\ tried' = tried
  BY <1>0, <1>1 DEF n
<1>4. UpdateTypes'
  <2>1. tried' \in 0 .. Len(queue')
    BY <1>2, <1>3
  <2>. QED
    BY <1>1, <1>2, <2>1 DEF UpdatesInv, UpdateTypes
<1>5. \A c \in U!Command : Ahead(c) => Ahead(c)'
  <2>1. \A i \in tried + 1 .. n : i \in tried' + 1 .. Len(queue') /\ queue'[i] = queue[i]
    BY <1>2, <1>3
  <2>. QED
    BY <2>1 DEF Ahead, n
<1>6. UNCHANGED <<handling, enabled, live, told, doubt, tried>>
  BY <1>1
<1>7. InHandIsQueued' /\ HiddenUntilTold'
  <2>1. tried = 0 \/ tried \in 1 .. n
    BY <1>3
  <2>. QED
    BY <1>2, <1>6, <2>1 DEF UpdatesInv, InHandIsQueued, HiddenUntilTold, Resetting
<1>8. ResetsAreFinished' /\ DisablesAreFinished'
  BY <1>5, <1>6 DEF UpdatesInv, ResetsAreFinished, DisablesAreFinished, Resetting, U!Command
<1>9. CASE command = "reset"
  <2>1. OnlyResetsAhead' => OnlyResetsAhead
    <3>1. \A i \in tried + 1 .. n : i \in tried' + 1 .. Len(queue') /\ queue'[i] = queue[i]
      BY <1>2, <1>3
    <3>. QED
      BY <3>1 DEF OnlyResetsAhead, n
  <2>2. LastDecides'
    <3>. SUFFICES ASSUME NEW i \in DOMAIN queue', queue'[i] # "reset",
                         \A j \in i + 1 .. Len(queue') : queue'[j] = "reset"
                  PROVE  wanted' = (queue'[i] = "enable")
      BY DEF LastDecides
    <3>1. i \in 1 .. n /\ i # n + 1
      BY <1>2, <1>3, <1>9
    <3>2. \A j \in i + 1 .. n : queue[j] = "reset"
      BY <1>2, <1>3, <3>1
    <3>. QED
      BY <1>0, <1>1, <1>2, <1>9, <3>1, <3>2 DEF UpdatesInv, LastDecides, n
  <2>. QED
    BY <1>1, <1>4, <1>7, <1>8, <1>9, <2>1, <2>2 DEF UpdatesInv, UpToDate
<1>10. CASE command # "reset"
  <2>1. n + 1 \in tried' + 1 .. Len(queue')
    BY <1>2, <1>3
  <2>2. ~OnlyResetsAhead'
    BY <1>2, <1>10, <2>1 DEF OnlyResetsAhead
  <2>3. LastDecides'
    <3>. SUFFICES ASSUME NEW i \in DOMAIN queue', queue'[i] # "reset",
                         \A j \in i + 1 .. Len(queue') : queue'[j] = "reset"
                  PROVE  wanted' = (queue'[i] = "enable")
      BY DEF LastDecides
    <3>1. i = n + 1
      BY <1>2, <1>3, <1>10
    <3>. QED
      BY <1>1, <1>2, <1>10, <3>1
  <2>. QED
    BY <1>4, <1>7, <1>8, <2>2, <2>3 DEF UpdatesInv, UpToDate
<1>. QED
  BY <1>9, <1>10

(***************************************************************************)
(* grammY takes an update: an enable or disable is done at once, a reset   *)
(* is in hand from now on.                                                 *)
(***************************************************************************)
LEMMA TakeStep ==
  ASSUME UpdatesInv, U!Take
  PROVE  UpdatesInv'
<1>0. queue \in Seq(U!Command) /\ tried \in Nat /\ tried <= Len(queue) /\ Len(queue) \in Nat
  BY DEF UpdatesInv, UpdateTypes
<1>. DEFINE n == Len(queue)
            command == queue[tried + 1]
<1>1. /\ handling = "nothing" /\ tried < n
      /\ tried' = tried + 1
      /\ UNCHANGED <<queue, wanted, doubt>>
  BY DEF U!Take, U!CanTake
<1>2. tried + 1 \in DOMAIN queue /\ command \in U!Command /\ tried' \in 0 .. Len(queue')
  BY <1>0, <1>1
<1>3. \/ command = "reset" /\ handling' = "scrypt" /\ UNCHANGED <<enabled, live, told>>
      \/ /\ command = "enable" /\ handling' = "reply"
         /\ enabled' = TRUE /\ UNCHANGED <<live, told>>
      \/ /\ command = "disable" /\ handling' = "reply"
         /\ enabled' = FALSE /\ live' = {} /\ UNCHANGED told
  BY <1>2 DEF U!Take, U!Upcoming, U!account, U!SetAccountEnabled, U!Command
<1>4. UpdateTypes'
  BY <1>1, <1>2, <1>3 DEF UpdatesInv, UpdateTypes
<1>5. /\ \A i \in tried + 1 .. n : i = tried + 1 \/ i \in tried' + 1 .. Len(queue')
      /\ Len(queue') = n
  BY <1>0, <1>1
<1>6. \A c \in U!Command \ {command} : Ahead(c) => Ahead(c)'
  BY <1>1, <1>5 DEF Ahead, n
<1>7. LastDecides'
  BY <1>1 DEF UpdatesInv, LastDecides
<1>8. UpToDate'
  <2>. SUFFICES ASSUME OnlyResetsAhead' PROVE enabled' = wanted'
    BY DEF UpToDate
  <2>1. \A j \in (tried + 1) + 1 .. Len(queue) : queue[j] = "reset"
    BY <1>1 DEF OnlyResetsAhead
  <2>2. CASE command = "reset"
    <3>1. OnlyResetsAhead
      BY <1>0, <1>5, <1>1, <2>1, <2>2 DEF OnlyResetsAhead, n
    <3>. QED
      BY <1>1, <1>3, <2>2, <3>1 DEF UpdatesInv, UpToDate
  <2>3. CASE command # "reset"
    <3>1. wanted = (command = "enable")
      BY <1>2, <2>1, <2>3 DEF UpdatesInv, LastDecides
    <3>. QED
      BY <1>1, <1>3, <2>3, <3>1
  <2>. QED
    BY <2>2, <2>3
<1>9. ResetsAreFinished' /\ DisablesAreFinished'
  BY <1>1, <1>3, <1>6
     DEF UpdatesInv, ResetsAreFinished, DisablesAreFinished, Resetting, U!Command
<1>10. InHandIsQueued' /\ HiddenUntilTold'
  BY <1>1, <1>3 DEF InHandIsQueued, HiddenUntilTold, Resetting
<1>. QED
  BY <1>4, <1>7, <1>8, <1>9, <1>10 DEF UpdatesInv

(* the account's own steps, none of which touches the queue *)
LEMMA HandlerSteps ==
  ASSUME UpdatesInv, U!LogIn \/ U!Hashed \/ U!Answered
  PROVE  UpdatesInv'
<1>1. UNCHANGED <<queue, tried, enabled, wanted>>
  BY DEF U!LogIn, U!Hashed, U!Answered, U!ResetPassword, U!account
<1>2. UpdateTypes'
  BY <1>1 DEF UpdatesInv, UpdateTypes, U!LogIn, U!Hashed, U!Answered, U!ResetPassword, U!account
<1>3. UpToDate' /\ LastDecides'
  BY <1>1 DEF UpdatesInv, UpToDate, LastDecides, OnlyResetsAhead
<1>4. \A c \in U!Command : Ahead(c)' <=> Ahead(c)
  BY <1>1 DEF Ahead
<1>5. ResetsAreFinished' /\ DisablesAreFinished' /\ InHandIsQueued' /\ HiddenUntilTold'
  <2>0. (Ahead("reset")' <=> Ahead("reset")) /\ (Ahead("disable")' <=> Ahead("disable"))
    BY <1>4 DEF U!Command
  <2>1. CASE U!LogIn
    <3>1. /\ enabled /\ told /\ live' = live \cup {"current"}
          /\ UNCHANGED <<handling, told, doubt>>
      BY <2>1 DEF U!LogIn
    <3>2. "old" \in live' <=> "old" \in live
      BY <3>1
    <3>. QED
      BY <1>1, <2>0, <3>1, <3>2
         DEF UpdatesInv, ResetsAreFinished, DisablesAreFinished, InHandIsQueued,
             HiddenUntilTold, Resetting
  <2>2. CASE U!Hashed
    <3>1. /\ Resetting /\ Resetting' /\ UNCHANGED doubt
          /\ \/ handling' = "reply to reset" /\ live' = {} /\ ~told'
             \/ handling' = "reply error" /\ UNCHANGED <<live, told>>
      BY <2>2 DEF U!Hashed, U!ResetPassword, U!account, Resetting
    <3>. QED
      BY <1>1, <2>0, <3>1
         DEF UpdatesInv, ResetsAreFinished, DisablesAreFinished, InHandIsQueued,
             HiddenUntilTold
  <2>3. CASE U!Answered
    <3>1. ~Resetting' /\ handling' = "nothing" /\ UNCHANGED live
      BY <2>3 DEF U!Answered, Resetting
    <3>2. CASE handling = "reply to reset"
      BY <1>1, <2>3, <3>1, <3>2
         DEF U!Answered, UpdatesInv, ResetsAreFinished, DisablesAreFinished,
             InHandIsQueued, HiddenUntilTold
    <3>3. CASE handling = "reply error"
      <4>1. doubt'
        BY <2>3, <3>3 DEF U!Answered
      <4>. QED
        BY <1>1, <2>0, <3>1, <4>1
           DEF UpdatesInv, ResetsAreFinished, DisablesAreFinished, InHandIsQueued,
               HiddenUntilTold
    <3>4. CASE handling \notin {"reply to reset", "reply error"}
      <4>1. ~Resetting /\ told' = told /\ doubt' = doubt
        BY <2>3, <3>4 DEF U!Answered, U!Answering, Resetting, UpdatesInv, UpdateTypes
      <4>. QED
        BY <1>1, <2>0, <3>1, <4>1
           DEF UpdatesInv, ResetsAreFinished, DisablesAreFinished, InHandIsQueued,
               HiddenUntilTold
    <3>. QED
      BY <3>2, <3>3, <3>4
  <2>. QED
    BY <2>1, <2>2, <2>3
<1>. QED
  BY <1>2, <1>3, <1>5 DEF UpdatesInv

(* polls and the end of polling, which may or may not confirm what was taken *)
LEMMA PollSteps ==
  ASSUME UpdatesInv,
         \/ U!Confirm \/ U!PollFails \/ U!AnswerLost
         \/ \E through \in BOOLEAN : U!Stop(through)
  PROVE  UpdatesInv'
<1>1. U!Confirmed \/ UNCHANGED <<queue, tried>>
  BY DEF U!Confirm, U!PollFails, U!AnswerLost, U!Stop
<1>2. /\ UNCHANGED <<enabled, live, told, wanted>>
      /\ \/ UNCHANGED <<handling, doubt>>
         \/ handling' = "nothing" /\ doubt' = TRUE
  BY DEF U!Confirm, U!PollFails, U!AnswerLost, U!Stop, U!account
<1>3. /\ queue' \in Seq(U!Command) /\ tried' \in 0 .. Len(queue')
      /\ \A c \in U!Command : Ahead(c)' <=> Ahead(c)
      /\ OnlyResetsAhead' <=> OnlyResetsAhead
      /\ LastDecides'
      /\ tried' = 0 \/ UNCHANGED <<queue, tried>>
  BY <1>1, <1>2, QueueStep DEF UpdatesInv
<1>4. UpdateTypes' /\ UpToDate'
  BY <1>2, <1>3 DEF UpdatesInv, UpdateTypes, UpToDate
<1>5. ResetsAreFinished' /\ DisablesAreFinished'
  BY <1>2, <1>3
     DEF UpdatesInv, ResetsAreFinished, DisablesAreFinished, Resetting, U!Command
<1>6. InHandIsQueued' /\ HiddenUntilTold'
  BY <1>2, <1>3 DEF UpdatesInv, InHandIsQueued, HiddenUntilTold, Resetting
<1>. QED
  BY <1>3, <1>4, <1>5, <1>6 DEF UpdatesInv

(***************************************************************************)
(* The process dies: everything that was taken and not confirmed is ahead  *)
(* again, also the update it was in the middle of.                         *)
(***************************************************************************)
LEMMA ForgetStep ==
  ASSUME UpdatesInv, U!Forget
  PROVE  UpdatesInv'
<1>0. queue \in Seq(U!Command) /\ tried \in Nat /\ tried <= Len(queue) /\ Len(queue) \in Nat
  BY DEF UpdatesInv, UpdateTypes
<1>. DEFINE n == Len(queue)
<1>1. /\ handling' = "nothing" /\ tried' = 0 /\ UNCHANGED <<queue, wanted>>
      /\ doubt' = (doubt \/ (handling # "nothing" /\ tried = 0))
  BY DEF U!Forget
<1>2. \/ UNCHANGED <<enabled, live, told>>
      \/ Ahead("disable") /\ enabled' = FALSE /\ UNCHANGED <<live, told>>
      \/ /\ handling = "scrypt" /\ told' = FALSE /\ UNCHANGED enabled
         /\ live' = IF live = {} THEN {} ELSE {"old"}
  <2>1. CASE U!CanTake /\ U!Upcoming = "disable" /\ U!DisabledOnly
    <3>1. tried < n /\ queue[tried + 1] = "disable"
      BY <2>1 DEF U!CanTake, U!Upcoming
    <3>2. tried + 1 \in tried + 1 .. n
      BY <1>0, <3>1
    <3>3. Ahead("disable")
      BY <3>1, <3>2 DEF Ahead
    <3>. QED
      BY <2>1, <3>3 DEF U!DisabledOnly
  <2>. QED
    BY <2>1 DEF U!Forget, U!PasswordOnly, U!account
<1>3. \A c \in U!Command : Ahead(c) => Ahead(c)'
  <2>1. \A i \in tried + 1 .. n : i \in tried' + 1 .. Len(queue') /\ queue'[i] = queue[i]
    BY <1>0, <1>1
  <2>. QED
    BY <2>1 DEF Ahead, n
<1>4. OnlyResetsAhead' => OnlyResetsAhead /\ ~Ahead("disable")
  <2>1. \A i \in tried + 1 .. n : i \in tried' + 1 .. Len(queue') /\ queue'[i] = queue[i]
    BY <1>0, <1>1
  <2>. QED
    BY <2>1 DEF Ahead, OnlyResetsAhead, n
<1>5. UpdateTypes'
  <2>1. tried' \in 0 .. Len(queue')
    BY <1>0, <1>1
  <2>2. doubt' \in BOOLEAN /\ enabled' \in BOOLEAN /\ told' \in BOOLEAN
    BY <1>1, <1>2 DEF UpdatesInv, UpdateTypes
  <2>3. live' \in SUBSET {"current", "old"}
    BY <1>2 DEF UpdatesInv, UpdateTypes
  <2>. QED
    BY <1>0, <1>1, <2>1, <2>2, <2>3 DEF UpdateTypes
<1>6. LastDecides' /\ UpToDate'
  BY <1>1, <1>2, <1>4 DEF UpdatesInv, LastDecides, UpToDate
<1>7. Resetting => doubt' \/ Ahead("reset")'
  <2>1. CASE tried = 0 /\ Resetting
    BY <1>1, <2>1 DEF Resetting
  <2>2. CASE tried # 0 /\ Resetting
    <3>1. queue[tried] = "reset" /\ tried \in tried' + 1 .. Len(queue')
      BY <1>0, <1>1, <2>2 DEF UpdatesInv, InHandIsQueued
    <3>. QED
      BY <1>1, <3>1 DEF Ahead
  <2>. QED
    BY <2>1, <2>2
<1>8. ResetsAreFinished'
  BY <1>1, <1>2, <1>3, <1>7 DEF UpdatesInv, ResetsAreFinished, Resetting, U!Command
<1>9. DisablesAreFinished'
  BY <1>2, <1>3 DEF UpdatesInv, DisablesAreFinished, U!Command
<1>10. InHandIsQueued' /\ HiddenUntilTold'
  BY <1>1 DEF InHandIsQueued, HiddenUntilTold, Resetting
<1>. QED
  BY <1>5, <1>6, <1>8, <1>9, <1>10 DEF UpdatesInv

LEMMA UpdatesStep == UpdatesInv /\ [BootNext]_bootVars => UpdatesInv'
<1>. SUFFICES ASSUME UpdatesInv, [BootNext]_bootVars
              PROVE  UpdatesInv'
  OBVIOUS
<1>1. CASE UNCHANGED updates
  <2>1. UpdateTypes'
    BY <1>1 DEF updates, UpdatesInv, UpdateTypes
  <2>2. LastDecides' /\ UpToDate'
    BY <1>1 DEF updates, UpdatesInv, LastDecides, UpToDate, OnlyResetsAhead
  <2>3. ResetsAreFinished' /\ DisablesAreFinished'
    BY <1>1 DEF updates, UpdatesInv, ResetsAreFinished, DisablesAreFinished, Resetting, Ahead
  <2>4. InHandIsQueued' /\ HiddenUntilTold'
    BY <1>1 DEF updates, UpdatesInv, InHandIsQueued, HiddenUntilTold, Resetting
  <2>. QED
    BY <2>1, <2>2, <2>3, <2>4 DEF UpdatesInv
<1>2. ASSUME NEW p \in Process, Migrate(p) \/ End(p)
      PROVE  UpdatesInv'
  BY <1>1, <1>2, ForgetStep DEF Migrate, End
<1>3. CASE Run(RuntimeNext) \/ UNCHANGED bootVars
  BY <1>1, <1>3 DEF Run, bootVars, updates
<1>4. CASE BotStopped \/ PollingFails
  BY <1>4, PollSteps DEF BotStopped, PollingFails
<1>5. CASE HandlerStep
  BY <1>5, TakeStep, HandlerSteps, PollSteps DEF HandlerStep
<1>6. CASE Send
  BY <1>6, SendStep DEF Send
<1>. QED
  BY <1>2, <1>3, <1>4, <1>5, <1>6 DEF BootNext

-----------------------------------------------------------------------------
(* What the server promises *)

BootInv == FileInv /\ ListenerServes /\ RuntimeInv /\ UpdatesInv

(* the invariant behind all of them *)
LEMMA BootIsSound == BootSpec => []BootInv
<1>1. BootInit => BootInv
  BY FileInit, ListenerInit, RuntimeInit, UpdatesInit DEF BootInit, BootInv
<1>2. BootInv /\ [BootNext]_bootVars => BootInv'
  BY FileStep, ListenerStep, RuntimeStep, UpdatesStep DEF BootInv
<1>. QED
  BY <1>1, <1>2, PTL DEF BootSpec

(***************************************************************************)
(* Whatever process dies where, the migrations in effect are the recorded  *)
(* ones, and they are the first so many: Database.migrate never leaves a   *)
(* file between two versions, nor skips one.                               *)
(***************************************************************************)
THEOREM FileStaysAtAVersion == BootSpec => []FileIsAtAVersion
<1>1. BootInv => FileIsAtAVersion
  BY DEF BootInv, FileInv, FileIsAtAVersion
<1>. QED
  BY <1>1, BootIsSound, PTL

(***************************************************************************)
(* The server with its runtime and its bot does nothing to the file that   *)
(* Database.migrate and the death of a process do not: ServerBoot          *)
(* implements Migrations, so what holds there holds here.                  *)
(***************************************************************************)
THEOREM BootImplementsMigrations == BootSpec => Spec
<1>1. BootInit => Init
  BY DEF BootInit
<1>2. [BootNext]_bootVars => [Next]_vars
  <2>. SUFFICES ASSUME BootNext PROVE Next \/ UNCHANGED vars
    BY DEF bootVars, vars
  <2>1. ASSUME NEW p \in Process, Migrate(p) \/ End(p) PROVE Next
    BY <2>1 DEF Migrate, End, Next
  <2>2. CASE Run(RuntimeNext) \/ BotStopped \/ PollingFails \/ HandlerStep \/ Send
    BY <2>2 DEF Run, BotStopped, PollingFails, HandlerStep, Send, Serving, file, vars
  <2>. QED
    BY <2>1, <2>2 DEF BootNext
<1>. QED
  BY <1>1, <1>2, PTL DEF BootSpec, Spec

(***************************************************************************)
(* A runtime listens only after createRuntime's migrate() has returned,    *)
(* and what it serves is on the newest schema, however many processes      *)
(* raced for the write lock or died before.                                *)
(***************************************************************************)
THEOREM NothingOldIsServed == BootSpec => []ServedOnNewest
<1>1. BootInv => ServedOnNewest
  <2>. SUFFICES ASSUME BootInv, http \in {"open", "draining"}
                PROVE  schema = Version
    BY DEF ServedOnNewest
  <2>1. Is(Server, "serving") /\ process[Server].todo = {}
    BY ServerAssumption DEF BootInv, ListenerServes, FileInv, NothingLeftForServing
  <2>2. PICK v \in 0 .. Last : schema = 1 .. v /\ TodoSound(v)
    BY DEF BootInv, FileInv
  <2>3. PICK u \in 0 .. v : process[Server].todo = u + 1 .. Last
    BY <2>1, <2>2, ServerAssumption DEF TodoSound, Is
  <2>4. u = Last /\ v = Last
    <3>1. Last \notin u + 1 .. Last
      BY <2>1, <2>3
    <3>. QED
      BY <3>1, LastAssumption
  <2>. QED
    BY <2>2, <2>4 DEF Version
<1>. QED
  BY <1>1, BootIsSound, PTL

(***************************************************************************)
(* No client that still waits for an answer loses the database: unless     *)
(* http.close() itself failed, closeInternal closes the handle after the   *)
(* last served request, whoever asked for the close and when.              *)
(***************************************************************************)
THEOREM ServedAlwaysKeepTheDatabase == BootSpec => []ServedKeepTheDatabase
<1>1. BootInv => ServedKeepTheDatabase
  BY DEF BootInv, RuntimeInv, ServedKeepTheDatabase, R!ServedKeepTheDatabase
<1>. QED
  BY <1>1, BootIsSound, PTL

(***************************************************************************)
(* Whoever asks for the close - a signal, a failed start, a failed poll -  *)
(* finds it under way at once, and once it has settled the port and the    *)
(* database are closed, or their failure is on record: Runtime.close never *)
(* returns early, however the awaits of start() and close() interleave.    *)
(***************************************************************************)
CloseIsHonest ==
    /\ R!AskedToClose => closing # "idle"
    /\ closing = "done" => R!Settled

THEOREM ClosesAreHonest == BootSpec => []CloseIsHonest
<1>1. BootInv => CloseIsHonest
  BY DEF BootInv, RuntimeInv, CloseIsHonest
<1>. QED
  BY <1>1, BootIsSound, PTL

(***************************************************************************)
(* A close never takes a step back, and what it waits for is not renewed:  *)
(* no listen begins under it, and while it waits for the port nobody new   *)
(* is let in, so that those it waits for only become fewer.  A process     *)
(* that ends is the one that starts over.                                  *)
(***************************************************************************)
Reached(c) == CASE c = "idle" -> 0 [] c = "start" -> 1 [] c = "bot" -> 2
                [] c = "http" -> 3 [] c = "done" -> 4

CloseGoesForward ==
    process'[Server].step # "down" =>
        /\ Reached(closing) <= Reached(closing')
        /\ closing # "idle" /\ starting # "listening" => starting' # "listening"
        /\ closing = "http" =>
              \A r \in Request : request'[r] = "served" => request[r] = "served"

THEOREM ClosesOnlyGoForward == BootSpec => [][CloseGoesForward]_bootVars
<1>1. BootInv /\ [BootNext]_bootVars => [CloseGoesForward]_bootVars
  <2>. SUFFICES ASSUME BootInv, BootNext PROVE CloseGoesForward
    OBVIOUS
  <2>0. /\ closing \in R!CloseSteps
        /\ request \in [Request -> R!RequestStates]
        /\ process \in [Process -> [step : Steps, todo : SUBSET Version]]
        /\ starting = "listening" => closing \in {"idle", "start"}
        /\ closing = "http" => http # "open"
    BY DEF BootInv, RuntimeInv, R!TypeOK, FileInv, TypeOK
  <2>1. CASE UNCHANGED <<starting, closing, request>>
    BY <2>0, <2>1 DEF CloseGoesForward, Reached, R!CloseSteps
  <2>2. CASE \E r \in Request : R!Arrive(r) \/ R!HangUp(r) \/ R!Finish(r)
    <3>1. UNCHANGED <<starting, closing>>
      BY <2>2 DEF R!Arrive, R!HangUp, R!Finish
    <3>2. PICK r \in Request, s \in R!RequestStates :
               request' = [request EXCEPT ![r] = s] /\ (s = "served" => http = "open")
      BY <2>2 DEF R!Arrive, R!HangUp, R!Finish, R!RequestStates
    <3>3. closing = "http" => \A q \in Request : request'[q] = "served" => request[q] = "served"
      BY <2>0, <3>2
    <3>. QED
      BY <2>0, <3>1, <3>3 DEF CloseGoesForward, Reached, R!CloseSteps
  <2>3. CASE \/ R!Signal \/ R!Start \/ R!StartRefused \/ R!Listening \/ R!ListenFails
             \/ R!PollingFails
    <3>1. closing' = closing \/ (closing = "idle" /\ closing' \in {"start", "bot"})
      BY <2>3 DEF R!Signal, R!Start, R!StartRefused, R!Listening, R!ListenFails,
                  R!PollingFails, R!AskToClose
    <3>2. /\ UNCHANGED request
          /\ closing # "idle" /\ starting # "listening" => starting' # "listening"
      BY <2>3 DEF R!Signal, R!Start, R!StartRefused, R!Listening, R!ListenFails, R!PollingFails
    <3>. QED
      BY <2>0, <3>1, <3>2 DEF CloseGoesForward, Reached, R!CloseSteps
  <2>4. CASE R!StartSettled \/ R!BotStopped \/ R!HttpAndDatabaseClosed
    BY <2>4 DEF R!StartSettled, R!BotStopped, R!HttpAndDatabaseClosed, CloseGoesForward, Reached
  <2>5. CASE Run(RuntimeNext)
    BY <2>2, <2>3, <2>4, <2>5 DEF Run, RuntimeNext
  <2>6. CASE BotStopped \/ PollingFails
    BY <2>3, <2>4, <2>6 DEF BotStopped, PollingFails
  <2>7. CASE HandlerStep \/ Send
    BY <2>1, <2>7 DEF HandlerStep, Send, runtime
  <2>8. ASSUME NEW p \in Process, Migrate(p) \/ End(p) PROVE CloseGoesForward
    <3>1. CASE Migrate(p) \/ p # Server
      BY <2>1, <2>8, <3>1 DEF Migrate, End, runtime
    <3>2. CASE End(p) /\ p = Server
      BY <2>0, <3>2 DEF End, Die, Down, CloseGoesForward
    <3>. QED
      BY <2>8, <3>1, <3>2
  <2>. QED
    BY <2>5, <2>6, <2>7, <2>8 DEF BootNext
<1>. QED
  BY <1>1, BootIsSound, PTL DEF BootSpec

(***************************************************************************)
(* The audit interval survives a close in one way only: the close came     *)
(* while start() awaited listen, and start() set the interval when listen  *)
(* settled, after closeInternal had cleared it.  No signal, failed start   *)
(* or failed poll leaves an interval behind in any other order.            *)
(***************************************************************************)
TimersOutliveOneOrder ==
    timer' /\ closing' # "idle" =>
        \/ timer /\ closing # "idle"
        \/ starting = "listening" /\ starting' = "done" /\ closing = "start"

THEOREM OnlyAListenLeavesATimer == BootSpec => [][TimersOutliveOneOrder]_bootVars
<1>1. BootInv /\ [BootNext]_bootVars => [TimersOutliveOneOrder]_bootVars
  <2>. SUFFICES ASSUME BootInv, BootNext PROVE TimersOutliveOneOrder
    OBVIOUS
  <2>0. starting = "listening" => closing \in {"idle", "start"}
    BY DEF BootInv, RuntimeInv
  <2>1. CASE UNCHANGED <<starting, closing, timer>>
    BY <2>1 DEF TimersOutliveOneOrder
  <2>2. CASE \/ R!Signal \/ R!ListenFails \/ R!PollingFails
    <3>1. timer' => timer /\ closing # "idle"
      BY <2>2 DEF R!Signal, R!ListenFails, R!PollingFails, R!AskToClose
    <3>. QED
      BY <3>1 DEF TimersOutliveOneOrder
  <2>3. CASE R!Listening
    <3>1. starting = "listening" /\ starting' = "done"
      BY <2>3 DEF R!Listening
    <3>2. closing = "idle" => ~timer' \/ closing' = "idle"
      BY <2>3 DEF R!Listening
    <3>. QED
      BY <2>0, <3>1, <3>2 DEF TimersOutliveOneOrder
  <2>4. CASE R!StartSettled \/ R!BotStopped \/ R!HttpAndDatabaseClosed
    <3>1. timer' = timer /\ closing # "idle"
      BY <2>4 DEF R!StartSettled, R!BotStopped, R!HttpAndDatabaseClosed
    <3>. QED
      BY <3>1 DEF TimersOutliveOneOrder
  <2>5. CASE R!Start \/ R!StartRefused
    BY <2>5 DEF R!Start, R!StartRefused, TimersOutliveOneOrder
  <2>6. CASE \E r \in Request : R!Arrive(r) \/ R!HangUp(r) \/ R!Finish(r)
    BY <2>1, <2>6 DEF R!Arrive, R!HangUp, R!Finish
  <2>7. CASE Run(RuntimeNext)
    BY <2>2, <2>3, <2>4, <2>5, <2>6, <2>7 DEF Run, RuntimeNext
  <2>8. CASE BotStopped \/ PollingFails
    BY <2>2, <2>4, <2>8 DEF BotStopped, PollingFails
  <2>9. CASE HandlerStep \/ Send
    BY <2>1, <2>9 DEF HandlerStep, Send, runtime
  <2>10. ASSUME NEW p \in Process, Migrate(p) \/ End(p) PROVE TimersOutliveOneOrder
    <3>1. CASE Migrate(p) \/ p # Server
      BY <2>1, <2>10, <3>1 DEF Migrate, End, runtime
    <3>2. CASE End(p) /\ p = Server
      BY <3>2 DEF End, TimersOutliveOneOrder
    <3>. QED
      BY <2>10, <3>1, <3>2
  <2>. QED
    BY <2>7, <2>8, <2>9, <2>10 DEF BootNext
<1>. QED
  BY <1>1, BootIsSound, PTL DEF BootSpec

(***************************************************************************)
(* What a dying process did by half - a password without its sessions, a   *)
(* disable without its revocation - is the matter of a command Telegram    *)
(* delivers again, or of one no administrator saw succeed.                 *)
(***************************************************************************)
THEOREM HalfDoneIsAlwaysRedelivered == BootSpec => []HalfDoneIsRedelivered
<1>1. BootInv => HalfDoneIsRedelivered
  <2>. SUFFICES ASSUME BootInv PROVE U!HalfDoneIsRedelivered
    BY DEF HalfDoneIsRedelivered
  <2>0. queue \in Seq(U!Command) /\ tried \in Nat /\ tried <= Len(queue) /\ Len(queue) \in Nat
    BY DEF BootInv, UpdatesInv, UpdateTypes
  <2>1. \A i \in tried + 1 .. Len(queue) : i \in DOMAIN queue
    BY <2>0
  <2>2. \A c \in U!Command : Ahead(c) => U!Pending(c)
    BY <2>1 DEF Ahead, U!Pending
  <2>3. Resetting => U!Pending("reset")
    BY DEF Resetting, U!Pending
  <2>. QED
    BY <2>2, <2>3
       DEF BootInv, UpdatesInv, ResetsAreFinished, DisablesAreFinished,
           U!HalfDoneIsRedelivered, U!Command
<1>. QED
  BY <1>1, BootIsSound, PTL

(***************************************************************************)
(* Updates that are delivered again run again in their order: once all     *)
(* were taken, setAccountEnabled has left the account as the administrator *)
(* last said.                                                              *)
(***************************************************************************)
THEOREM LastCommandAlwaysWins == BootSpec => []LastCommandWins
<1>1. BootInv => LastCommandWins
  <2>. SUFFICES ASSUME BootInv, tried = Len(queue) PROVE enabled = wanted
    BY DEF LastCommandWins, U!LastCommandWins
  <2>1. \A i \in tried + 1 .. Len(queue) : FALSE
    BY DEF BootInv, UpdatesInv, UpdateTypes
  <2>. QED
    BY <2>1 DEF BootInv, UpdatesInv, UpToDate, OnlyResetsAhead
<1>. QED
  BY <1>1, BootIsSound, PTL

=============================================================================
