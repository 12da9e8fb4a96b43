------------------------------- MODULE BotWizard -------------------------------
(***************************************************************************)
(* The connection wizards of the Telegram bot: BotController               *)
(* (src/bot/controller.ts) over AdminService's createConnection and        *)
(* updateConnection (src/services/admin-service.ts).  Every administrator  *)
(* has one wizard at most; several of them edit the same connections; the  *)
(* wizards live in memory and the connections in SQLite.                   *)
(*                                                                         *)
(* grammY hands over one update at a time and no handler below awaits, so  *)
(* a message is one step.                                                  *)
(***************************************************************************)
EXTENDS Naturals, Sequences, FiniteSets, SequencesExt

CONSTANTS
    Admin,          \* administratorIds
    Connection,     \* connection ids (UUIDs, never reused)
    Kind,           \* the kinds in play, of "s3", "mysql", "postgres"
    Name,           \* connection names
    NoName,         \* an inline wizard has no name yet
    NoConnection    \* a wizard that adds has no updateId

ASSUME KindAssumption == Kind \subseteq {"s3", "mysql", "postgres"}
ASSUME NullsAssumption == NoName \notin Name /\ NoConnection \notin Connection

VARIABLES
    wizards,        \* BotController's map
    asked,          \* the prompt each administrator last saw
    connections     \* connections table

vars == <<wizards, asked, connections>>

s3Steps == <<"endpoint", "region", "bucket", "prefix", "pathStyle",
             "accessKeyId", "secretAccessKey">>
sqlSteps == <<"host", "port", "user", "password", "database", "mode">>

StepsOf(kind) == IF kind = "s3" THEN s3Steps ELSE sqlSteps

(* the fields whose message the bot deletes *)
Sensitive == {"accessKeyId", "secretAccessKey", "password"}

Prompts == {"none", "name", "complete"} \cup ToSet(s3Steps) \cup ToSet(sqlSteps)

NoWizard == [active |-> FALSE]

(* an answer: the prompt it was given to, whether buildSecret accepts it,  *)
(* and whether its message was deleted from the chat                       *)
Answers == [field : Prompts, valid : BOOLEAN, deleted : BOOLEAN]

Wizards == [active : {TRUE}, kind : Kind, name : Name \cup {NoName},
            updateId : Connection \cup {NoConnection}, values : Seq(Answers)]

Absent  == [state |-> "absent"]
Deleted == [state |-> "deleted"]
Rows    == [state : {"stored"}, kind : Kind, name : Name, secret : Seq(Answers)]

TypeOK ==
    /\ wizards \in [Admin -> Wizards \cup {NoWizard}]
    /\ asked \in [Admin -> Prompts]
    /\ connections \in [Connection -> Rows \cup {Absent, Deleted}]

Init ==
    /\ wizards = [a \in Admin |-> NoWizard]
    /\ asked = [a \in Admin |-> "none"]
    /\ connections = [c \in Connection |-> Absent]

-----------------------------------------------------------------------------

Stored(c) == connections[c].state = "stored"

(* faulty variant: the last step is left out *)
CompleteEarly(w) == Len(w.values) = Len(StepsOf(w.kind)) - 1

(* the wizard's step is the number of its values *)
Complete(w) == Len(w.values) = Len(StepsOf(w.kind))

wizardPrompt(w) ==
    IF w.name = NoName THEN "name"
    ELSE IF Complete(w) THEN "complete"
    ELSE StepsOf(w.kind)[Len(w.values) + 1]

Open(a, w) ==
    /\ wizards' = [wizards EXCEPT ![a] = w]
    /\ asked' = [asked EXCEPT ![a] = wizardPrompt(w)]

NewWizard(kind, name, updateId) ==
    [active |-> TRUE, kind |-> kind, name |-> name, updateId |-> updateId,
     values |-> <<>>]

(* /connection_add_<kind> <name>, and the buttons of the inline menu, which *)
(* ask for the name first; a wizard that is open is replaced                *)
StartWizard(a, kind, name) ==
    /\ Open(a, NewWizard(kind, name, NoConnection))
    /\ UNCHANGED connections

StartInlineWizard(a, kind) == StartWizard(a, kind, NoName)

(* faulty variant: an edit asks for the fields of S3 *)
EditAsS3(a, c, name) ==
    /\ Stored(c)
    /\ Open(a, NewWizard("s3", name, c))
    /\ UNCHANGED connections

(* /connection_edit: the kind is the stored secret's *)
EditConnection(a, c, name) ==
    /\ Stored(c)
    /\ Open(a, NewWizard(connections[c].kind, name, c))
    /\ UNCHANGED connections

Cancel(a) ==
    /\ wizards' = [wizards EXCEPT ![a] = NoWizard]
    /\ asked' = [asked EXCEPT ![a] = "none"]
    /\ UNCHANGED connections

-----------------------------------------------------------------------------
(* advanceWizard *)

GiveName(a, name) ==
    /\ wizards[a].active
    /\ wizards[a].name = NoName
    /\ Open(a, [wizards[a] EXCEPT !.name = name])
    /\ UNCHANGED connections

(* the wizard after one more answer; only a port can be refused *)
With(a, valid, deleted) ==
    [wizards[a] EXCEPT !.values =
        Append(@, [field |-> asked[a], valid |-> valid, deleted |-> deleted])]

Expects(a) ==
    /\ wizards[a].active
    /\ wizards[a].name # NoName
    /\ ~Complete(wizards[a])

Field(a) == StepsOf(wizards[a].kind)[Len(wizards[a].values) + 1]

GiveAnswer(a, valid) ==
    LET w == With(a, valid, Field(a) \in Sensitive) IN
    /\ Expects(a)
    /\ valid \/ Field(a) = "port"
    /\ ~Complete(w)
    /\ Open(a, w)
    /\ UNCHANGED connections

NameTaken(name, except) ==
    \E c \in Connection : /\ c # except
                          /\ Stored(c)
                          /\ connections[c].name = name

(* buildSecret, then the constraints of the INSERT or the UPDATE *)
Storable(w) ==
    /\ \A i \in DOMAIN w.values : w.values[i].valid
    /\ ~NameTaken(w.name, w.updateId)
    /\ w.updateId # NoConnection => Stored(w.updateId)

(* the last answer creates or updates the connection and ends the wizard *)
FinishWizard(a, c) ==
    LET w == With(a, TRUE, Field(a) \in Sensitive) IN
    /\ Expects(a)
    /\ Complete(w)
    /\ Storable(w)
    /\ IF w.updateId = NoConnection THEN connections[c] = Absent ELSE c = w.updateId
    /\ connections' = [connections EXCEPT ![c] =
          [state |-> "stored", kind |-> w.kind, name |-> w.name, secret |-> w.values]]
    /\ wizards' = [wizards EXCEPT ![a] = NoWizard]
    /\ asked' = [asked EXCEPT ![a] = "none"]

(* ... or throws: handle() answers with the error alone, the wizard keeps  *)
(* all its values, and every later message ends in "wizard is complete"    *)
FailWizard(a) ==
    LET w == With(a, TRUE, FALSE) IN
    /\ Expects(a)
    /\ Complete(w)
    /\ ~Storable(w)
    /\ wizards' = [wizards EXCEPT ![a] = w]
    /\ UNCHANGED <<asked, connections>>

-----------------------------------------------------------------------------

DeleteConnection(c) ==
    /\ Stored(c)
    /\ connections' = [connections EXCEPT ![c] = Deleted]
    /\ UNCHANGED <<wizards, asked>>

(* the prompts stay in the chats *)
Restart ==
    /\ wizards' = [a \in Admin |-> NoWizard]
    /\ UNCHANGED <<asked, connections>>

Next ==
    \/ \E a \in Admin, kind \in Kind :
          \/ StartInlineWizard(a, kind)
          \/ \E name \in Name : StartWizard(a, kind, name)
    \/ \E a \in Admin, name \in Name :
          \/ GiveName(a, name)
          \/ \E c \in Connection : EditConnection(a, c, name)
    \/ \E a \in Admin, valid \in BOOLEAN : GiveAnswer(a, valid)
    \/ \E a \in Admin, c \in Connection : FinishWizard(a, c)
    \/ \E a \in Admin : Cancel(a) \/ FailWizard(a)
    \/ \E c \in Connection : DeleteConnection(c)
    \/ Restart

Spec == Init /\ [][Next]_vars

-----------------------------------------------------------------------------

(***************************************************************************)
(* Every stored secret is one complete wizard of the connection's kind:    *)
(* each field holds an accepted answer to its own prompt, in order,        *)
(* whatever wizards were replaced, edited in parallel or lost meanwhile.   *)
(***************************************************************************)
SecretsAreWhole ==
    \A c \in Connection : Stored(c) =>
        LET secret == connections[c].secret
            steps  == StepsOf(connections[c].kind) IN
        /\ Len(secret) = Len(steps)
        /\ \A i \in DOMAIN steps : secret[i].field = steps[i] /\ secret[i].valid

(***************************************************************************)
(* A connection keeps its kind for life, though an edit writes the kind it *)
(* read when it began, and one that was deleted during the edit does not   *)
(* come back.  Grants are checked against the kind once, when they are set.*)
(***************************************************************************)
EditsKeepKind ==
    [][ \A c \in Connection :
          /\ Stored(c) /\ connections'[c] # connections[c] =>
                \/ connections'[c] = Deleted
                \/ connections'[c].kind = connections[c].kind
          /\ connections[c] = Deleted => connections'[c] = Deleted ]_vars

-----------------------------------------------------------------------------
(* What the texts of the program say, and the code does not keep.           *)

(***************************************************************************)
(* After a sensitive field was entered its message is deleted.  The answer *)
(* that ends an S3 wizard is the secret key; when storing the connection   *)
(* fails it stays in the chat.                                             *)
(***************************************************************************)
CredentialsAreDeleted ==
    \A a \in Admin : wizards[a].active =>
        \A i \in DOMAIN wizards[a].values :
            wizards[a].values[i].field \in Sensitive => wizards[a].values[i].deleted

=============================================================================
