--------------------------- MODULE WorkspaceImport ---------------------------
(***************************************************************************)
(* Importing an exported SSH workspace into an account:                    *)
(* applyWorkspaceImport and its apply* helpers                             *)
(* (src/services/ssh-host-service.ts) and the planning of                  *)
(* src/security/ssh-export-package.ts.                                     *)
(*                                                                         *)
(* The handler checks the account's access, awaits the decryption of the   *)
(* package (scrypt), and then plans and applies in one go, inside a        *)
(* transaction.  Other devices edit the workspace during the await.        *)
(*                                                                         *)
(* Names are compared in two ways.  The database compares them NOCASE,     *)
(* which folds the letters of ASCII; the handler compares what             *)
(* trim().toLocaleLowerCase() makes of them, which folds more: an account  *)
(* may have two names that differ in the case of an accented letter only.  *)
(* A name of this module stands for a name up to NOCASE, Lower(name) for   *)
(* what the handler makes of it.  It is a base followed by copy suffixes:  *)
(* "web (2)" is <<"web", 2>>.  What else a row holds is reduced to where   *)
(* it came from, whether it has its secret and whether it is enabled.      *)
(***************************************************************************)
EXTENDS Naturals, Sequences, FiniteSets

CONSTANTS
    Lower(_),   \* normalizeName, workspaceImportName
    Item,       \* what packages are made of, see below
    Payload,    \* packages
    OwnName,    \* names the account's devices give to rows
    MaxHosts,   \* the per-account host limit (50)
    MaxSuffix,  \* the largest copy suffix tried (10_000)
    MaxId       \* bound on the row ids

VARIABLES
    workspace,  \* the account's hosts, tunnels, snippets and keys
    nextId,     \* the next row id (UUIDs: never reused)
    sshAccess,  \* the account: SSH on, off, or gone
    job,        \* the import that awaits decryption
    outcome     \* how the last import ended

importVars == <<workspace, nextId, sshAccess, job, outcome>>

-----------------------------------------------------------------------------

PackageKind == {"host", "tunnel", "snippet", "key"}
Decision    == {"overwrite", "skip", "copy"}
NoJob       == [state |-> "none"]
Own         == <<>>    \* the origin of a row that no import wrote last

(***************************************************************************)
(* A package item: `valid` is what validateFields, validateTunnel, ... say *)
(* of it, `ref` the position of a tunnel's host in the package, 0 when its *)
(* hostRef names none.  A package carries the secrets of its hosts and     *)
(* keys or carries none.                                                   *)
(***************************************************************************)
ASSUME PayloadAssumption ==
    /\ Payload \subseteq [PackageKind -> Seq(Item)]
    /\ \A x \in Item : x.valid \in BOOLEAN /\ x.secret \in BOOLEAN
ASSUME NumbersAssumption == MaxHosts \in Nat /\ MaxSuffix \in Nat /\ MaxId \in Nat

(* importNameKey, of the items of a package *)
ItemKeys(p) == UNION {{<<k, Lower(p[k][i].name)>> : i \in DOMAIN p[k]} : k \in PackageKind}

RowsOf(k) == {r \in workspace : r.kind = k}
NamesIn(R, k) == {r.name : r \in {q \in R : q.kind = k}}
LowerIn(R, k) == {Lower(name) : name \in NamesIn(R, k)}

(* one name to the handler, though it may be two to the database *)
Alike(q, r) == q.kind = r.kind /\ Lower(q.name) = Lower(r.name)

RowOK(r) ==
    /\ r.id \in 1 .. MaxId /\ r.kind \in PackageKind /\ r.host \in 0 .. MaxId
    /\ r.secret \in BOOLEAN /\ r.enabled \in BOOLEAN

ImportTypeOK ==
    /\ IsFiniteSet(workspace) /\ \A r \in workspace : RowOK(r)
    /\ \A q, r \in workspace : q.id = r.id \/ (q.kind = r.kind /\ q.name = r.name) => q = r
    /\ nextId \in 1 .. MaxId + 1
    /\ sshAccess \in {"on", "off", "gone"}
    /\ \/ job = NoJob
       \/ /\ job.payload \in Payload
          /\ DOMAIN job.decide \subseteq ItemKeys(job.payload)
    /\ outcome \in {"none", "done", "lost", "undecided", "invalid", "limit",
                    "missing", "collision", "gone"}

ImportInit ==
    /\ workspace = {}
    /\ nextId = 1
    /\ sshAccess = "on"
    /\ job = NoJob
    /\ outcome = "none"

-----------------------------------------------------------------------------
(* Planning *)

(* uniqueCopyName: "name (2)", "name (3)", ... *)
FreeSuffixes(name, names) == {n \in 2 .. MaxSuffix : Lower(Append(name, n)) \notin names}

(* faulty variant: always the first suffix *)
CopyNameTwo(name, names) == Append(name, 2)

CopyName(name, names) ==
    Append(name, CHOOSE n \in FreeSuffixes(name, names) :
                    \A m \in FreeSuffixes(name, names) : n <= m)

(* the items in the order in which they are planned and applied *)
OfKind(p, k) == [i \in DOMAIN p[k] |-> [kind |-> k, item |-> p[k][i]]]

ItemsOf(p) == OfKind(p, "host") \o OfKind(p, "tunnel")
                  \o OfKind(p, "snippet") \o OfKind(p, "key")

(* appendPlan: what becomes of an item, by the names known so far; no      *)
(* decision and no suffix left are errors                                  *)
Resolution(names, decide, x) ==
    LET key == <<x.kind, Lower(x.item.name)>>
        taken == names[x.kind]
    IN IF Lower(x.item.name) \notin taken THEN "create"
       ELSE IF key \notin DOMAIN decide THEN "error"
       ELSE IF decide[key] = "copy" /\ FreeSuffixes(x.item.name, taken) = {}
       THEN "error"
       ELSE decide[key]

PlanItem(names, decide, x) ==
    LET action == Resolution(names, decide, x)
    IN [kind |-> x.kind, item |-> x.item, action |-> action,
        target |-> IF action = "copy" THEN CopyName(x.item.name, names[x.kind])
                   ELSE x.item.name]

WithName(names, s) == [names EXCEPT ![s.kind] = @ \cup {Lower(s.target)}]

(* the names known after each item; at first those the account has *)
Known(p, decide) ==
    LET known[i \in 0 .. Len(ItemsOf(p))] ==
            IF i = 0 THEN [k \in PackageKind |-> LowerIn(workspace, k)]
            ELSE LET names == known[i - 1]
                 IN WithName(names, PlanItem(names, decide, ItemsOf(p)[i]))
    IN known

(* planSSHWorkspaceImport *)
Plan(p, decide) ==
    LET known == Known(p, decide)
    IN [i \in 1 .. Len(ItemsOf(p)) |-> PlanItem(known[i - 1], decide, ItemsOf(p)[i])]

Undecided(plan) == \E i \in DOMAIN plan : plan[i].action = "error"

(* previewSSHWorkspaceImport: the items it shows as conflicts *)
Conflicts(p) ==
    {key \in ItemKeys(p) : key[2] \in LowerIn(workspace, key[1])}

-----------------------------------------------------------------------------
(* Applying: step after step, with a working copy of the workspace.        *)

Failed(w, why) == [w EXCEPT !.failed = why]

(***************************************************************************)
(* hostsByName, tunnelsByName, ...: one row for each name the handler can  *)
(* tell apart.  Of rows whose names are alike the one listed last is in;   *)
(* which one that is, is left open.                                        *)
(***************************************************************************)
Listings ==
    {I \in SUBSET workspace : /\ \A r \in workspace : \E q \in I : Alike(q, r)
                              /\ \A q, r \in I : Alike(q, r) => q = r}

(* the row under a name in those maps *)
Named(w, k, name) ==
    {r \in w.rows : r.id \in w.byName /\ r.kind = k /\ Lower(r.name) = Lower(name)}

(* UNIQUE (account_id, name COLLATE NOCASE) *)
Taken(R, row) == row.name \in NamesIn(R, row.kind)

(* the host row a tunnel of the package is for, 0 if its hostRef is unknown *)
HostFor(w, s) == IF s.kind = "tunnel" /\ s.item.ref \in DOMAIN w.refs
                 THEN w.refs[s.item.ref] ELSE 0

(* faulty variant: enabled without a credential *)
WrittenEnabled(w, s, r) ==
    [id |-> r.id, kind |-> s.kind, name |-> s.target, from |-> s.item.name,
     host |-> HostFor(w, s), secret |-> s.item.secret \/ r.secret, enabled |-> TRUE]

(* an item's row is the one being overwritten, or a new one *)
Written(w, s, r) ==
    [id |-> r.id, kind |-> s.kind, name |-> s.target, from |-> s.item.name,
     host |-> HostFor(w, s),
     secret  |-> s.item.secret \/ r.secret,
     enabled |-> s.item.secret \/ r.secret \/ (s.kind = "key" /\ r.id # w.next)]

NewItem(w, s) == [id |-> w.next, secret |-> s.kind \in {"tunnel", "snippet"}]

(* faulty variant: the ids are collected in reverse *)
WithRefReversed(w, s, id) ==
    IF s.kind = "host" THEN [w EXCEPT !.refs = <<id>> \o @] ELSE w

(* the host's id under its position in the package *)
WithRef(w, s, id) == IF s.kind = "host" THEN [w EXCEPT !.refs = Append(@, id)] ELSE w

Skip(w, s) ==
    LET current == Named(w, s.kind, s.item.name) IN
    IF current = {} THEN Failed(w, "missing")
    ELSE WithRef(w, s, (CHOOSE r \in current : TRUE).id)

Overwrite(w, s) ==
    LET current == Named(w, s.kind, s.item.name)
        r == CHOOSE r \in current : TRUE
        row == Written(w, s, r)
    IN IF current = {} THEN Failed(w, "missing")
       ELSE IF ~s.item.valid \/ (s.kind = "host" /\ ~row.secret)
       THEN Failed(w, "invalid")
       ELSE IF Taken(w.rows \ {r}, row) THEN Failed(w, "collision")
       ELSE WithRef([w EXCEPT !.rows = (@ \ {r}) \cup {row}], s, r.id)

CreateOrCopy(w, s) ==
    LET row == Written(w, s, NewItem(w, s))
        hosts == {r \in w.rows : r.kind = "host"}
    IN IF ~s.item.valid THEN Failed(w, "invalid")
       ELSE IF s.kind = "host" /\ Cardinality(hosts) >= MaxHosts
       THEN Failed(w, "limit")
       ELSE IF Taken(w.rows, row) THEN Failed(w, "collision")
       ELSE WithRef([w EXCEPT !.rows = @ \cup {row}, !.byName = @ \cup {w.next},
                              !.next = @ + 1], s, w.next)

ApplyStep(w, s) ==
    IF w.failed # "none" THEN w
    ELSE IF s.kind = "tunnel" /\ HostFor(w, s) = 0 THEN Failed(w, "invalid")
    ELSE IF s.action = "skip" THEN Skip(w, s)
    ELSE IF s.action = "overwrite" THEN Overwrite(w, s)
    ELSE CreateOrCopy(w, s)

(* applyWorkspaceImportPlan after each of its steps; foreign keys refuse   *)
(* it once the account is gone                                             *)
Applied(plan, listed) ==
    LET w[i \in 0 .. Len(plan)] ==
            IF i = 0
            THEN [rows |-> workspace, byName |-> {r.id : r \in listed},
                  next |-> nextId, refs |-> <<>>,
                  failed |-> IF sshAccess = "gone" THEN "gone" ELSE "none"]
            ELSE ApplyStep(w[i - 1], plan[i])
    IN w

-----------------------------------------------------------------------------
(* POST /ssh/import/apply *)

BeginImport(p, decide) ==
    /\ sshAccess = "on"
    /\ job = NoJob
    /\ job' = [payload |-> p, decide |-> decide]
    /\ outcome' = "none"
    /\ UNCHANGED <<workspace, nextId, sshAccess>>

(* faulty variant: no transaction: what was applied before a failure stays *)
FinishImportHalfway ==
    \E listed \in Listings :
    LET plan == Plan(job.payload, job.decide)
        result == Applied(plan, listed)[Len(plan)]
        why == IF Undecided(plan) THEN "undecided" ELSE result.failed
    IN /\ job # NoJob
       /\ result.next <= MaxId + 1
       /\ job' = NoJob
       /\ outcome' = IF why = "none" THEN "done" ELSE why
       /\ workspace' = IF Undecided(plan) THEN workspace ELSE result.rows
       /\ nextId' = IF Undecided(plan) THEN nextId ELSE result.next
       /\ UNCHANGED sshAccess

(* after `await readSSHWorkspaceExport`: plan, BEGIN, apply, COMMIT/ROLLBACK *)
FinishImport ==
    \E listed \in Listings :
    LET plan == Plan(job.payload, job.decide)
        result == Applied(plan, listed)[Len(plan)]
        why == IF Undecided(plan) THEN "undecided" ELSE result.failed
    IN /\ job # NoJob
       /\ result.next <= MaxId + 1
       /\ job' = NoJob
       /\ outcome' = IF why = "none" THEN "done" ELSE why
       /\ workspace' = IF why = "none" THEN result.rows ELSE workspace
       /\ nextId' = IF why = "none" THEN result.next ELSE nextId
       /\ UNCHANGED sshAccess

(* wrong password or damaged package, or the process ends *)
LoseImport ==
    /\ job # NoJob
    /\ job' = NoJob
    /\ outcome' = "lost"
    /\ UNCHANGED <<workspace, nextId, sshAccess>>

-----------------------------------------------------------------------------
(* Other devices and the administrator *)

CreateRow(k, name, host) ==
    /\ sshAccess = "on"
    /\ nextId <= MaxId
    /\ name \notin NamesIn(workspace, k)
    /\ k = "host" => Cardinality(RowsOf("host")) < MaxHosts
    /\ IF k = "tunnel" THEN \E h \in RowsOf("host") : h.id = host ELSE host = 0
    /\ workspace' = workspace \cup
                       {[id |-> nextId, kind |-> k, name |-> name, from |-> Own,
                         host |-> host, secret |-> TRUE, enabled |-> TRUE]}
    /\ nextId' = nextId + 1
    /\ UNCHANGED <<sshAccess, job, outcome>>

(***************************************************************************)
(* cloneHost: the host with its secret, if it has one, and its settings,   *)
(* under another name.  It alone does not count the account's hosts.       *)
(***************************************************************************)
CloneRow(h, name) ==
    /\ sshAccess = "on"
    /\ nextId <= MaxId
    /\ name \notin NamesIn(workspace, "host")
    /\ workspace' = workspace \cup
                       {[id |-> nextId, kind |-> "host", name |-> name, from |-> Own,
                         host |-> 0, secret |-> h.secret, enabled |-> h.enabled]}
    /\ nextId' = nextId + 1
    /\ UNCHANGED <<sshAccess, job, outcome>>

(* an edit of a host without its secret is refused unless it brings one *)
UpdateRow(r, name) ==
    /\ sshAccess = "on"
    /\ name \notin NamesIn(workspace \ {r}, r.kind)
    /\ workspace' = (workspace \ {r}) \cup
                   {[id |-> r.id, kind |-> r.kind, name |-> name, from |-> Own,
                     host |-> r.host, secret |-> TRUE, enabled |-> TRUE]}
    /\ UNCHANGED <<nextId, sshAccess, job, outcome>>

(* a host takes its tunnels with it *)
DeleteRow(r) ==
    /\ sshAccess = "on"
    /\ workspace' = workspace \ ({r} \cup IF r.kind = "host"
                                THEN {t \in RowsOf("tunnel") : t.host = r.id} ELSE {})
    /\ UNCHANGED <<nextId, sshAccess, job, outcome>>

SwitchSSH(enabled) ==
    /\ sshAccess # "gone"
    /\ sshAccess' = IF enabled THEN "on" ELSE "off"
    /\ UNCHANGED <<workspace, nextId, job, outcome>>

LoseAccount ==
    /\ sshAccess # "gone"
    /\ sshAccess' = "gone"
    /\ workspace' = {}
    /\ UNCHANGED <<nextId, job, outcome>>

Decisions(p) == UNION {[D -> Decision] : D \in SUBSET ItemKeys(p)}

ImportNext ==
    \/ \E p \in Payload : \E decide \in Decisions(p) : BeginImport(p, decide)
    \/ FinishImport
    \/ LoseImport
    \/ \E k \in PackageKind, name \in OwnName, host \in 0 .. MaxId : CreateRow(k, name, host)
    \/ \E h \in RowsOf("host"), name \in OwnName : CloneRow(h, name)
    \/ \E r \in workspace, name \in OwnName : UpdateRow(r, name)
    \/ \E r \in workspace : DeleteRow(r)
    \/ \E enabled \in BOOLEAN : SwitchSSH(enabled)
    \/ LoseAccount

ImportSpec == ImportInit /\ [][ImportNext]_importVars

-----------------------------------------------------------------------------
(* Safety *)

(***************************************************************************)
(* A plan can be carried out: because it is made after the await, in the   *)
(* step that applies it, no row it counts on is missing, and no name it    *)
(* picked is taken, whatever other devices did meanwhile and whatever the  *)
(* package's own items and copies are called - but in an account that      *)
(* itself has two rows the handler cannot tell apart by their names.       *)
(***************************************************************************)
HasRowsAlike(R) == \E q, r \in R : q # r /\ Alike(q, r)

PlansAreExecutable ==
    [][ job # NoJob /\ job' = NoJob =>
          /\ outcome' # "missing"
          /\ outcome' = "collision" => HasRowsAlike(workspace) ]_importVars

(***************************************************************************)
(* An import that fails at any item leaves no trace, and one that succeeds *)
(* changes none of the account's rows but those it was told to overwrite.  *)
(***************************************************************************)
Overwritten(r) ==
    /\ <<r.kind, Lower(r.name)>> \in DOMAIN job.decide
    /\ job.decide[<<r.kind, Lower(r.name)>>] = "overwrite"

ImportTouchesOnlyOverwritten ==
    [][ job # NoJob /\ job' = NoJob =>
          /\ outcome' # "done" => workspace' = workspace
          /\ \A r \in workspace : r \in workspace' \/ Overwritten(r) ]_importVars

(***************************************************************************)
(* A successful import brings in every item it was not told to skip, the   *)
(* tunnels on the host their package item names; an item is superseded     *)
(* only by a later one that was told to overwrite the name its copy got.   *)
(* It never takes the account past the host limit, whatever devices        *)
(* created and cloned during the await.                                    *)
(***************************************************************************)
Landed(steps, s) ==
    \E r \in workspace' :
        /\ r.kind = s.kind
        /\ r.from = s.item.name
        /\ r.name = s.target
        /\ s.kind = "tunnel" =>
              \E h \in workspace' :
                  /\ h.kind = "host" /\ h.id = r.host
                  /\ Lower(h.name) = Lower(steps[s.item.ref].target)

Superseded(steps, i) ==
    \E j \in i + 1 .. Len(steps) :
        /\ steps[j].action = "overwrite"
        /\ steps[j].kind = steps[i].kind
        /\ Lower(steps[j].target) = Lower(steps[i].target)

WithinLimit ==
    \/ Cardinality(RowsOf("host")') <= MaxHosts
    \/ Cardinality(RowsOf("host")') <= Cardinality(RowsOf("host"))

ImportLands ==
    [][ job # NoJob /\ job' = NoJob /\ outcome' = "done" =>
          /\ WithinLimit
          /\ LET steps == Plan(job.payload, job.decide) IN
             \A i \in DOMAIN steps :
                \/ steps[i].action = "skip"
                \/ Superseded(steps, i)
                \/ Landed(steps, steps[i]) ]_importVars

(***************************************************************************)
(* The workspace stays sound: a tunnel has its host, and a host is enabled *)
(* only if it has a credential - one imported without its secret waits,    *)
(* disabled, and so do its clones, for an edit to bring it.                *)
(***************************************************************************)
WorkspaceIsSound ==
    /\ \A t \in RowsOf("tunnel") : \E h \in RowsOf("host") : h.id = t.host
    /\ \A h \in RowsOf("host") : h.enabled => h.secret

-----------------------------------------------------------------------------
(* What the texts of the program say, and the code does not keep.           *)

(***************************************************************************)
(* An import never ends on a name that is taken: the plan resolves every   *)
(* conflict, and uniqueCopyName finds names that are free.  The database   *)
(* and the plan do not agree on which names are one.                       *)
(***************************************************************************)
ImportsNeverCollide == outcome # "collision"

(***************************************************************************)
(* The preview and the plan agree on what a conflict is: decisions for the *)
(* items the preview shows as conflicts are enough (test "ssh workspace    *)
(* import plan requires and applies every conflict decision").             *)
(***************************************************************************)
PreviewShowsAllConflicts ==
    \A p \in Payload : \A decide \in [Conflicts(p) -> Decision] :
        ~Undecided(Plan(p, decide))

(***************************************************************************)
(* No import changes the workspace of an account whose SSH access is off   *)
(* ("once it is off, every SSH API of the account answers ssh_disabled").  *)
(***************************************************************************)
ImportNeedsAccess ==
    [][ job # NoJob /\ job' = NoJob /\ outcome' = "done" => sshAccess = "on" ]_importVars

=============================================================================
