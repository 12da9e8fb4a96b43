----------------------------- MODULE SSHRecords -----------------------------
(***************************************************************************)
(* The rows of an account's SSH workspace and what refers to what: hosts   *)
(* with their credentials, tunnels, command snippets, key identities,      *)
(* session history and preferences.  SSHHostService                        *)
(* (src/services/ssh-host-service.ts) over src/repository.                 *)
(*                                                                         *)
(* Every handler runs to its end without a yield, so one call is one step; *)
(* the calls are those of any device of any account, in any order.  Host   *)
(* keys and the host limit are the subject of SSHHosts, whole packages of  *)
(* WorkspaceImport; a package of one host is an action here.               *)
(*                                                                         *)
(* A row's id is a UUID.  Here an id is used again once its row is gone.   *)
(***************************************************************************)
CONSTANTS
    Account,    \* the accounts
    Id,         \* ids of the rows
    Name,       \* names of rows, up to COLLATE NOCASE
    Migrated,   \* whether there may be a host older than the column auth_method
    None        \* no host (NULL), no secret (''), no name

ASSUME MigratedAssumption == Migrated \in BOOLEAN
ASSUME NoneAssumption == None \notin Account \cup Id \cup Name

VARIABLES
    access,       \* accounts: ssh_enabled
    rows          \* the rows of the ssh_* tables, ssh_host_fingerprints excepted

vars == <<access, rows>>

-----------------------------------------------------------------------------

Kind   == {"host", "tunnel", "snippet", "key", "entry", "preferences"}
Method == {"password", "privateKey"}
Slot   == Method \cup {"secrets"}

(* what the secret of a row may hold; key passphrases decide nothing here *)
Slots == [host |-> Method, snippet |-> {"secrets"},
          key |-> {"privateKey"}]

Absent == [kind |-> "absent"]

(***************************************************************************)
(* One record for the six tables.  A slot of the secret holds the account  *)
(* that entered it, `live` tells that a tunnel runs or a session has no    *)
(* endedAt.  `enabled` is kept for hosts, where it depends on the rest.    *)
(* History: `migrated` is a host not edited since migration 3, or a clone. *)
(***************************************************************************)
Row == [kind: Kind, account: Account, name: Name \cup {None}, enabled: BOOLEAN,
        method: Method, secret: [Slot -> Account \cup {None}],
        host: Id \cup {None}, live: BOOLEAN, migrated: BOOLEAN]

TypeOK ==
    /\ access \in [Account -> {"on", "off", "gone"}]
    /\ rows \in [Id -> Row \cup {Absent}]

Blank == [s \in Slot |-> None]

(* the slots of `entered` come from the request, the others stay *)
Merge(old, a, entered) == [s \in Slot |-> IF s \in entered THEN a ELSE old[s]]

NewRow(k, a, n) ==
    [kind |-> k, account |-> a, name |-> n, enabled |-> TRUE,
     method |-> "password", secret |-> Blank, host |-> None,
     live |-> FALSE, migrated |-> FALSE]

(* migration 3 gives a host that has only a key the method 'password' *)
MigratedHost(a, n, entered) ==
    [NewRow("host", a, n) EXCEPT !.secret = Merge(Blank, a, entered), !.migrated = TRUE]

Init ==
    /\ access = [a \in Account |-> "on"]
    /\ \/ rows = [i \in Id |-> Absent]
       \/ /\ Migrated
          /\ \E old \in Id, a \in Account, n \in Name, entered \in SUBSET Method \ {{}} :
                rows = [i \in Id |-> IF i = old THEN MigratedHost(a, n, entered) ELSE Absent]

-----------------------------------------------------------------------------

Allowed(a) == access[a] = "on"                                \* requireAccess

(* loadHost, and `!current || current.accountId !== accountId` *)
Owns(a, i, k) == rows[i].kind = k /\ rows[i].account = a

(* UNIQUE (account_id, name COLLATE NOCASE), for preferences (account_id) *)
NameFree(a, n, i, k) == \A j \in Id \ {i} : Owns(a, j, k) => rows[j].name # n

Put(i, row) ==
    /\ rows' = [rows EXCEPT ![i] = row]
    /\ UNCHANGED access

(* INSERT *)
Insert(a, i, row) ==
    /\ Allowed(a)
    /\ rows[i] = Absent
    /\ row.kind # "entry" => NameFree(a, row.name, i, row.kind)
    /\ Put(i, row)

(* UPDATE; a name that is taken fails with the raw error of the database *)
Update(a, i, row) ==
    /\ Allowed(a)
    /\ Owns(a, i, row.kind)
    /\ row.kind # "entry" => NameFree(a, row.name, i, row.kind)
    /\ Put(i, row)

(* faulty variant: a tunnel loses its host *)
WithoutKeepingTunnels(gone) ==
    [i \in Id |->
        IF i \in gone THEN Absent
        ELSE IF rows[i].kind \in {"tunnel", "entry"} /\ rows[i].host \in gone
             THEN [rows[i] EXCEPT !.host = None]
             ELSE rows[i]]

(* ON DELETE: tunnels go with their host, session history keeps no host *)
Without(gone) ==
    [i \in Id |->
        IF i \in gone \/ (rows[i].kind = "tunnel" /\ rows[i].host \in gone) THEN Absent
        ELSE IF rows[i].kind = "entry" /\ rows[i].host \in gone
             THEN [rows[i] EXCEPT !.host = None]
             ELSE rows[i]]

(* deleteHost, deleteTunnel, deleteSnippet, deleteKeyIdentity *)
Delete(a, i, k) ==
    /\ Allowed(a)
    /\ k \in {"host", "tunnel", "snippet", "key"}
    /\ Owns(a, i, k)
    /\ rows' = Without({i})
    /\ UNCHANGED access

Enterers(row) == {row.secret[s] : s \in Slots[row.kind]} \ {None}

(* faulty variant: without a look at the row's account *)
HandedOutAny(a, i) ==
    IF /\ Allowed(a)
       /\ rows[i].kind \in {"host", "snippet", "key"}
    THEN Enterers(rows[i])
    ELSE {}

(* whose secrets getCredentials, getSnippetSecrets or getKeyIdentitySecrets *)
(* answers with when a device of the account a asks for the row i           *)
HandedOut(a, i) ==
    IF /\ Allowed(a)
       /\ \E k \in {"host", "snippet", "key"} : Owns(a, i, k)
    THEN Enterers(rows[i])
    ELSE {}

-----------------------------------------------------------------------------
(* Hosts *)

(* faulty variant: a method was named, whatever it needs *)
CanUseNamed(secret, method) == method \in Method

(* normalizeMetadata: the method's credential is there *)
CanUse(secret, method) == secret[method] # None

CreateHost(a, i, n, entered, method, enabled) ==
    LET secret == Merge(Blank, a, entered) IN
    /\ CanUse(secret, method)
    /\ Insert(a, i, [NewRow("host", a, n) EXCEPT
                        !.secret = secret, !.method = method, !.enabled = enabled])

(* credentials left blank stay what they were *)
UpdateHost(a, i, n, entered, method, enabled) ==
    /\ Owns(a, i, "host")
    /\ LET secret == Merge(rows[i].secret, a, entered) IN
       /\ CanUse(secret, method)
       /\ Update(a, i, [rows[i] EXCEPT !.name = n, !.secret = secret,
                                       !.method = method, !.enabled = enabled,
                                       !.migrated = FALSE])

CloneHost(a, i, new, n) ==
    /\ Owns(a, i, "host")
    /\ Insert(a, new, [rows[i] EXCEPT !.name = n])

(* a host of a package without secrets waits, disabled, for an edit *)
ImportPlaceholder(a, i, n, method, enabled) ==
    Insert(a, i, [NewRow("host", a, n) EXCEPT !.method = method, !.enabled = FALSE])

(* the package's secret is taken whole, or the row keeps its own *)
OverwriteHost(a, i, carried, entered, method, enabled) ==
    /\ Owns(a, i, "host")
    /\ LET secret == IF carried THEN Merge(Blank, a, entered) ELSE rows[i].secret IN
       /\ CanUse(secret, method)
       /\ Update(a, i, [rows[i] EXCEPT !.secret = secret, !.method = method,
                                       !.enabled = enabled, !.migrated = FALSE])

-----------------------------------------------------------------------------
(* Tunnels *)

CreateTunnel(a, i, n, h) ==
    /\ Owns(a, h, "host")
    /\ Insert(a, i, [NewRow("tunnel", a, n) EXCEPT !.host = h])

UpdateTunnel(a, i, n, h) ==
    /\ Owns(a, i, "tunnel")
    /\ Owns(a, h, "host")
    /\ Update(a, i, [rows[i] EXCEPT !.name = n, !.host = h])

UpdateTunnelRuntime(a, i, running) ==
    /\ Owns(a, i, "tunnel")
    /\ Update(a, i, [rows[i] EXCEPT !.live = running])

-----------------------------------------------------------------------------
(* Command snippets and key identities *)

CreateSnippet(a, i, n, entered) ==
    Insert(a, i, [NewRow("snippet", a, n) EXCEPT !.secret = Merge(Blank, a, entered)])

(* secrets that are sent replace all there were *)
UpdateSnippet(a, i, n, sent, entered) ==
    /\ Owns(a, i, "snippet")
    /\ Update(a, i, [rows[i] EXCEPT
                        !.name = n,
                        !.secret = IF sent THEN Merge(Blank, a, entered) ELSE @])

CreateKeyIdentity(a, i, n, entered) ==
    /\ "privateKey" \in entered
    /\ Insert(a, i, [NewRow("key", a, n) EXCEPT !.secret = Merge(Blank, a, entered)])

(* `emptied` are the fields sent as '' or, with clearSecretMaterial, both *)
UpdateKeyIdentity(a, i, n, entered, emptied) ==
    /\ Owns(a, i, "key")
    /\ LET left == Merge(rows[i].secret, None, emptied) IN
       Update(a, i, [rows[i] EXCEPT !.name = n,
                                    !.secret = Merge(left, a, entered \ emptied)])

-----------------------------------------------------------------------------
(* Session history and preferences *)

(* `open`: the status is connecting or connected, so there is no endedAt *)
CreateSessionHistory(a, i, h, open) ==
    /\ Owns(a, h, "host")
    /\ Insert(a, i, [NewRow("entry", a, None) EXCEPT !.host = h, !.live = open])

(* any status may follow any other: a late report reopens a closed entry *)
UpdateSessionHistory(a, i, open) ==
    /\ Owns(a, i, "entry")
    /\ Update(a, i, [rows[i] EXCEPT !.live = open])

(* INSERT ... ON CONFLICT(account_id) DO UPDATE; what they say is left out *)
UpdateWorkspacePreferences(a, i) ==
    Insert(a, i, NewRow("preferences", a, None))

-----------------------------------------------------------------------------
(* Administration *)

SetSSHEnabled(a, enabled) ==
    /\ access[a] # "gone"
    /\ access' = [access EXCEPT ![a] = IF enabled THEN "on" ELSE "off"]
    /\ UNCHANGED rows

DeleteAccount(a) ==
    /\ access[a] # "gone"
    /\ access' = [access EXCEPT ![a] = "gone"]
    /\ rows' = Without({i \in Id : rows[i] # Absent /\ rows[i].account = a})

-----------------------------------------------------------------------------

HostNext(a, i) ==
    \/ \E n \in Name, entered \in SUBSET Method, method \in Method, enabled \in BOOLEAN :
          \/ CreateHost(a, i, n, entered, method, enabled)
          \/ UpdateHost(a, i, n, entered, method, enabled)
          \/ ImportPlaceholder(a, i, n, method, enabled)
    \/ \E carried \in BOOLEAN, entered \in SUBSET Method, method \in Method,
          enabled \in BOOLEAN : OverwriteHost(a, i, carried, entered, method, enabled)
    \/ \E new \in Id, n \in Name : CloneHost(a, i, new, n)

TunnelNext(a, i) ==
    \/ \E n \in Name, h \in Id : CreateTunnel(a, i, n, h) \/ UpdateTunnel(a, i, n, h)
    \/ \E running \in BOOLEAN : UpdateTunnelRuntime(a, i, running)

SnippetNext(a, i) ==
    \E n \in Name, entered \in SUBSET Slots.snippet :
        \/ CreateSnippet(a, i, n, entered)
        \/ \E sent \in BOOLEAN : UpdateSnippet(a, i, n, sent, entered)

KeyNext(a, i) ==
    \E n \in Name, entered \in SUBSET Slots.key :
        \/ CreateKeyIdentity(a, i, n, entered)
        \/ \E emptied \in SUBSET Slots.key :
              UpdateKeyIdentity(a, i, n, entered, emptied)

EntryNext(a, i) ==
    \E open \in BOOLEAN :
        \/ \E h \in Id : CreateSessionHistory(a, i, h, open)
        \/ UpdateSessionHistory(a, i, open)

Next ==
    \/ \E a \in Account, i \in Id :
          \/ HostNext(a, i) \/ TunnelNext(a, i) \/ SnippetNext(a, i)
          \/ KeyNext(a, i) \/ EntryNext(a, i)
          \/ UpdateWorkspacePreferences(a, i)
          \/ \E k \in Kind : Delete(a, i, k)
    \/ \E a \in Account :
          \/ DeleteAccount(a)
          \/ \E enabled \in BOOLEAN : SetSSHEnabled(a, enabled)

Spec == Init /\ [][Next]_vars

-----------------------------------------------------------------------------
(* Safety *)

HasOwnHost(row) ==
    \E h \in Id : /\ row.host = h
                 /\ rows[h].kind = "host" /\ rows[h].account = row.account

(***************************************************************************)
(* Nothing crosses accounts and nothing dangles: a tunnel has a host of    *)
(* its own account, a session entry has one or, once that host is deleted, *)
(* none, and no row outlives its account.                                  *)
(***************************************************************************)
OwnersAgree ==
    \A i \in Id : rows[i] # Absent =>
        /\ access[rows[i].account] # "gone"
        /\ rows[i].kind = "tunnel" => HasOwnHost(rows[i])
        /\ rows[i].kind = "entry" => rows[i].host = None \/ HasOwnHost(rows[i])

(***************************************************************************)
(* Credentials, snippet secrets and private keys reach only devices of the *)
(* account that entered them, through every edit, clone, import and reuse. *)
(***************************************************************************)
SecretsStayHome == \A a \in Account, i \in Id : HandedOut(a, i) \subseteq {a}

(***************************************************************************)
(* A host names an authentication method it has the credential for, in     *)
(* spite of edits that leave credentials blank, of clones and of imports;  *)
(* one imported without its credentials is disabled until an edit brings   *)
(* what its method needs.  Only hosts older than the column and their      *)
(* clones may name 'password' with no more than a key, until an edit.      *)
(***************************************************************************)
HostsCanAuthenticate ==
    \A i \in Id : rows[i].kind = "host" =>
        \/ rows[i].secret[rows[i].method] # None
        \/ rows[i].secret = Blank /\ ~rows[i].enabled
        \/ rows[i].migrated

-----------------------------------------------------------------------------
(* What the texts of the program say, and the code does not keep.           *)

(***************************************************************************)
(* Every enabled host has the credential of its method (normalizeMetadata: *)
(* "password authentication requires a password").                         *)
(***************************************************************************)
MethodsHaveCredentials ==
    \A i \in Id : rows[i].kind = "host" /\ rows[i].enabled =>
        CanUse(rows[i].secret, rows[i].method)

=============================================================================
