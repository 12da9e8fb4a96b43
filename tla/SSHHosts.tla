------------------------------- MODULE SSHHosts -------------------------------
(***************************************************************************)
(* The SSH hosts an account keeps and the host key it trusts for each:     *)
(* SSHHostService (src/services/ssh-host-service.ts) over the tables       *)
(* ssh_hosts and ssh_host_fingerprints of                                  *)
(* src/repository/sqlite-repository.ts.                                    *)
(*                                                                         *)
(* Every handler here runs to its end without a yield.  What interleaves   *)
(* are the devices of an account: one that fetched credentials connects,   *)
(* and reports the key it saw some time later, while others edit the host. *)
(*                                                                         *)
(* A host key stands for the address that serves it.  Versions, settings   *)
(* and audit rows (one per call, never read back) are left out; secrets    *)
(* and the rows that refer to hosts are the subject of SSHRecords.         *)
(***************************************************************************)
EXTENDS FiniteSets, Naturals

CONSTANTS
    Account, Host,                  \* ids
    Name,                           \* host names, up to COLLATE NOCASE
    Machine, Port,                  \* what an address is made of
    Client,                         \* devices that connect to hosts
    Legacy,                         \* hosts older than ssh_host_fingerprints
    MaxHosts,                       \* the per-account limit (50)
    None                            \* no fingerprint ('')

ASSUME LegacyAssumption == Legacy \subseteq Host
ASSUME LimitAssumption == MaxHosts \in Nat \ {0}
ASSUME HostsFinite == IsFiniteSet(Host)
ASSUME NoneAssumption == None \notin Host \cup (Machine \X Port)

VARIABLES
    access,     \* accounts: ssh_enabled
    hosts,      \* ssh_hosts
    records,    \* ssh_host_fingerprints
    seen        \* what each device was given by its last credentials call

vars == <<access, hosts, records, seen>>

-----------------------------------------------------------------------------

Address     == Machine \X Port
Fingerprint == Address
Fresh == [state |-> "fresh"]
Gone  == [state |-> "gone"]

(***************************************************************************)
(* History fields: `vouched` is the address the trusted fingerprint was    *)
(* last accepted for, `cloned` tells how the host came to be.              *)
(***************************************************************************)
HostRow == [state: {"stored"}, account: Account, name: Name, address: Address,
            fingerprint: Fingerprint \cup {None},
            vouched: Address, cloned: BOOLEAN]

FingerprintRecord == [host: Host, fingerprint: Fingerprint,
                      source: {"tofu", "manual"}, active: BOOLEAN]

Seen == [host: Host, account: Account, address: Address]

TypeOK ==
    /\ access \in [Account -> {"on", "off", "gone"}]
    /\ hosts \in [Host -> HostRow \cup {Fresh, Gone}]
    /\ records \in SUBSET FingerprintRecord
    /\ seen \in [Client -> Seen \cup {Fresh}]

-----------------------------------------------------------------------------

Allowed(a) == access[a] = "on"                                \* requireAccess
Stored(h)  == hosts[h].state = "stored"
Owns(a, h) == Stored(h) /\ hosts[h].account = a               \* loadHost

HostsOf(a) == {h \in Host : Owns(a, h)}

(* UNIQUE (account_id, name COLLATE NOCASE) *)
NameFree(a, n, h) == \A g \in HostsOf(a) \ {h} : hosts[g].name # n

LegacyRow == {row \in HostRow : row.vouched = row.address}

(* migration 7 made no records for the fingerprints already trusted *)
Init ==
    /\ access = [a \in Account |-> "on"]
    /\ \E old \in [Legacy -> LegacyRow] :
          hosts = [h \in Host |-> IF h \in Legacy THEN old[h] ELSE Fresh]
    /\ \A h \in Legacy : NameFree(hosts[h].account, hosts[h].name, h)
    /\ \A a \in Account : Cardinality({h \in HostsOf(a) : ~hosts[h].cloned}) <= MaxHosts
    /\ records = {}
    /\ seen = [c \in Client |-> Fresh]

(* insertSSHHostFingerprint, when there is a fingerprint to record *)
ActiveRecord(h, fp, source) ==
    IF fp = None THEN {}
    ELSE {[host |-> h, fingerprint |-> fp, source |-> source, active |-> TRUE]}

(* faulty variant: the old records are deleted *)
RetireForGood(h) == {r \in records : r.host # h}

Retire(h) ==
    {IF r.host = h THEN [r EXCEPT !.active = FALSE] ELSE r : r \in records}

(* faulty variant: the old record stays active *)
ReplaceWithoutRetiring(h, fp, source) == records \cup ActiveRecord(h, fp, source)

(* replaceSSHHostFingerprint *)
Replace(h, fp, source) == Retire(h) \cup ActiveRecord(h, fp, source)

(* the record of a host that takes part in no replacement is left as it is *)
RecordsAfter(h, fp) ==
    IF fp = hosts[h].fingerprint THEN records ELSE Replace(h, fp, "manual")

NewHost(a, n, where, fp) ==
    [state |-> "stored", account |-> a, name |-> n, address |-> where,
     fingerprint |-> fp, vouched |-> where, cloned |-> FALSE]

-----------------------------------------------------------------------------
(* Hosts *)

(* faulty variant: off by one at the limit *)
CreateHostBeyond(a, h, n, where, fp) ==
    /\ Allowed(a)
    /\ hosts[h] = Fresh
    /\ NameFree(a, n, h)
    /\ Cardinality(HostsOf(a)) <= MaxHosts
    /\ hosts' = [hosts EXCEPT ![h] = NewHost(a, n, where, fp)]
    /\ records' = records \cup ActiveRecord(h, fp, "manual")
    /\ UNCHANGED <<access, seen>>

(* POST /ssh/hosts, and an import that creates or copies a host *)
CreateHost(a, h, n, where, fp) ==
    /\ Allowed(a)
    /\ hosts[h] = Fresh
    /\ NameFree(a, n, h)
    /\ Cardinality(HostsOf(a)) < MaxHosts
    /\ hosts' = [hosts EXCEPT ![h] = NewHost(a, n, where, fp)]
    /\ records' = records \cup ActiveRecord(h, fp, "manual")
    /\ UNCHANGED <<access, seen>>

(* faulty variant: only a change of both clears the fingerprint *)
BothChanged(h, where) ==
    where[1] # hosts[h].address[1] /\ where[2] # hosts[h].address[2]

AddressChanged(h, where) ==
    where[1] # hosts[h].address[1] \/ where[2] # hosts[h].address[2]

(* the fingerprint of the request counts only when the address changes *)
TrustAfterUpdate(h, where, fp) ==
    IF AddressChanged(h, where) THEN fp ELSE hosts[h].fingerprint

(* PATCH /ssh/hosts/:hostId *)
UpdateHost(a, h, n, where, fp) ==
    LET trusted == TrustAfterUpdate(h, where, fp) IN
    /\ Allowed(a)
    /\ Owns(a, h)
    /\ NameFree(a, n, h)
    /\ hosts' = [hosts EXCEPT ![h].name = n, ![h].address = where,
                              ![h].fingerprint = trusted,
                              ![h].vouched = IF trusted = fp THEN where ELSE @]
    /\ records' = RecordsAfter(h, trusted)
    /\ UNCHANGED <<access, seen>>

(* an import whose plan overwrites h: the package's fingerprint, always *)
OverwriteHost(a, h, where, fp) ==
    /\ Allowed(a)
    /\ Owns(a, h)
    /\ hosts' = [hosts EXCEPT ![h].address = where, ![h].fingerprint = fp,
                              ![h].vouched = where]
    /\ records' = RecordsAfter(h, fp)
    /\ UNCHANGED <<access, seen>>

(* POST /ssh/hosts/:hostId/clone: no look at the host limit *)
CloneHost(a, h, new, n) ==
    /\ Allowed(a)
    /\ Owns(a, h)
    /\ hosts[new] = Fresh
    /\ NameFree(a, n, new)
    /\ hosts' = [hosts EXCEPT ![new] =
                    [hosts[h] EXCEPT !.name = n, !.cloned = TRUE]]
    /\ records' = records \cup ActiveRecord(new, hosts[h].fingerprint, "manual")
    /\ UNCHANGED <<access, seen>>

(* ON DELETE CASCADE *)
Forget(H) ==
    /\ hosts' = [h \in Host |-> IF h \in H THEN Gone ELSE hosts[h]]
    /\ records' = {r \in records : r.host \notin H}

DeleteHost(a, h) ==
    /\ Allowed(a)
    /\ Owns(a, h)
    /\ Forget({h})
    /\ UNCHANGED <<access, seen>>

-----------------------------------------------------------------------------
(* Credentials and host keys *)

(* GET /ssh/hosts/:hostId/credentials, after which the device connects *)
GetCredentials(c, a, h) ==
    /\ Allowed(a)
    /\ Owns(a, h)
    /\ seen' = [seen EXCEPT ![c] = [host |-> h, account |-> a,
                                    address |-> hosts[h].address]]
    /\ UNCHANGED <<access, hosts, records>>

(* setFingerprint; trusting the same key again changes nothing *)
SetFingerprint(a, h, fp, source) ==
    /\ Allowed(a)
    /\ Owns(a, h)
    /\ hosts[h].fingerprint # fp
    /\ hosts' = [hosts EXCEPT ![h].fingerprint = fp,
                              ![h].vouched = hosts[h].address]
    /\ records' = Replace(h, fp, source)
    /\ UNCHANGED <<access, seen>>

(* PUT .../fingerprint by a device, with the key of where it connected to *)
ReportFingerprint(c) ==
    /\ seen[c] # Fresh
    /\ SetFingerprint(seen[c].account, seen[c].host, seen[c].address, "tofu")

ClearFingerprint(a, h) ==
    /\ Allowed(a)
    /\ Owns(a, h)
    /\ hosts[h].fingerprint # None
    /\ hosts' = [hosts EXCEPT ![h].fingerprint = None]
    /\ records' = Retire(h)
    /\ UNCHANGED <<access, seen>>

-----------------------------------------------------------------------------
(* Administration *)

SetSSHEnabled(a, enabled) ==
    /\ access[a] # "gone"
    /\ access' = [access EXCEPT ![a] = IF enabled THEN "on" ELSE "off"]
    /\ UNCHANGED <<hosts, records, seen>>

DeleteAccount(a) ==
    /\ access[a] # "gone"
    /\ access' = [access EXCEPT ![a] = "gone"]
    /\ Forget(HostsOf(a))
    /\ UNCHANGED seen

HostNext(a, h) ==
    \/ \E n \in Name, where \in Address, fp \in Fingerprint \cup {None} :
          \/ CreateHost(a, h, n, where, fp)
          \/ UpdateHost(a, h, n, where, fp)
    \/ \E where \in Address, fp \in Fingerprint \cup {None} :
          OverwriteHost(a, h, where, fp)
    \/ \E new \in Host, n \in Name : CloneHost(a, h, new, n)
    \/ DeleteHost(a, h)
    \/ \E fp \in Fingerprint : SetFingerprint(a, h, fp, "manual")
    \/ ClearFingerprint(a, h)
    \/ \E c \in Client : GetCredentials(c, a, h)

Next ==
    \/ \E a \in Account, h \in Host : HostNext(a, h)
    \/ \E c \in Client : ReportFingerprint(c)
    \/ \E a \in Account, enabled \in BOOLEAN : SetSSHEnabled(a, enabled)
    \/ \E a \in Account : DeleteAccount(a)

Spec == Init /\ [][Next]_vars

-----------------------------------------------------------------------------
(* Safety *)

ActiveOf(h)  == {r \in records : r.host = h /\ r.active}
RecordsOf(h) == {r \in records : r.host = h}

(***************************************************************************)
(* The fingerprint a host shows and its fingerprint history agree: a host  *)
(* with a trusted fingerprint has exactly one active record, of that       *)
(* fingerprint, and one without has none - after any mix of updates,       *)
(* imports, clones, reports and clearings.  Only a host from before the    *)
(* history table may trust a key that no record shows, until it is first   *)
(* replaced.                                                               *)
(***************************************************************************)
TrustedIsActiveRecord ==
    \A h \in Host : Stored(h) =>
        /\ \A q, r \in ActiveOf(h) : q = r
        /\ \A r \in ActiveOf(h) : r.fingerprint = hosts[h].fingerprint
        /\ \/ hosts[h].fingerprint = None
           \/ ActiveOf(h) # {}
           \/ h \in Legacy /\ RecordsOf(h) = {}

(***************************************************************************)
(* Trust does not move to another address by itself: whatever a host       *)
(* trusts was accepted, or sent with the request, for the host and port it *)
(* has now.                                                                *)
(***************************************************************************)
TrustFollowsAddress ==
    \A h \in Host : Stored(h) /\ hosts[h].fingerprint # None =>
        hosts[h].vouched = hosts[h].address

(***************************************************************************)
(* The host limit holds for the hosts that were created or imported; only  *)
(* clones exceed it.                                                       *)
(***************************************************************************)
OnlyClonesExceedLimit ==
    \A a \in Account :
        Cardinality({h \in HostsOf(a) : ~hosts[h].cloned}) <= MaxHosts

(***************************************************************************)
(* The fingerprint history is append-only: a record changes only by being  *)
(* retired, a retired one not at all, and it goes only with its host.      *)
(***************************************************************************)
HistoryIsAppendOnly ==
    [][ \A r \in records :
          \/ r \in records'
          \/ r.active /\ [r EXCEPT !.active = FALSE] \in records'
          \/ hosts'[r.host] = Gone ]_vars

-----------------------------------------------------------------------------
(* What the texts of the program say, and the code does not keep.           *)

(***************************************************************************)
(* An account has at most MaxHosts hosts (README: at most 50; test "ssh    *)
(* host service enforces the per-account host limit").                     *)
(***************************************************************************)
HostLimit == \A a \in Account : Cardinality(HostsOf(a)) <= MaxHosts

(***************************************************************************)
(* A key trusted on first use is the key of the address the host has: when *)
(* host or port change the fingerprint is cleared and the client confirms  *)
(* it again on its next connection (README).                               *)
(***************************************************************************)
ConfirmedAtItsAddress ==
    [][ \A r \in records' \ records :
          r.source = "tofu" /\ r.active => r.fingerprint = hosts[r.host].address ]_vars

=============================================================================
