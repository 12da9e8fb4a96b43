---------------------------- MODULE SSHHostsProofs ----------------------------
(* Proofs about SSHHosts. *)
EXTENDS SSHHosts, FiniteSetTheorems, TLAPS

(* a fingerprint was accepted for the address the host has *)
Vouched(row) == row.fingerprint # None => row.vouched = row.address

FreshHaveNoRecords == \A h \in Host : hosts[h] = Fresh => RecordsOf(h) = {}

(***************************************************************************)
(* The inductive invariant: what a host trusts and what its history shows, *)
(* to which only FreshHaveNoRecords has to be added, without which a new   *)
(* host could inherit records.                                             *)
(***************************************************************************)
TrustInv == /\ TypeOK
            /\ FreshHaveNoRecords
            /\ TrustedIsActiveRecord
            /\ TrustFollowsAddress

-----------------------------------------------------------------------------
(* What the steps do to hosts and records *)

(* a host is created, imported or cloned *)
Stores(h, row) ==
    /\ hosts[h] = Fresh
    /\ row \in HostRow /\ Vouched(row)
    /\ row.cloned \/ Cardinality(HostsOf(row.account)) < MaxHosts
    /\ hosts' = [hosts EXCEPT ![h] = row]
    /\ records' = records \cup ActiveRecord(h, row.fingerprint, "manual")
    /\ UNCHANGED <<access, seen>>

(* a host is edited, overwritten, or given another fingerprint *)
Rewrites(h, row) ==
    /\ Stored(h)
    /\ row \in HostRow /\ Vouched(row)
    /\ row.account = hosts[h].account
    /\ row.cloned = hosts[h].cloned
    /\ hosts' = [hosts EXCEPT ![h] = row]
    /\ IF row.fingerprint = hosts[h].fingerprint THEN records' = records
       ELSE \E source \in {"tofu", "manual"} :
               records' = Replace(h, row.fingerprint, source)
    /\ UNCHANGED <<access, seen>>

LEMMA StoredRow ==
    ASSUME TrustInv, NEW h \in Host, Stored(h)
    PROVE  hosts[h] \in HostRow /\ Vouched(hosts[h])
BY DEF TrustInv, TypeOK, Stored, Fresh, Gone, TrustFollowsAddress, Vouched

LEMMA CreateHostStores ==
    ASSUME NEW a \in Account, NEW h \in Host, NEW n \in Name, NEW where \in Address,
           NEW fp \in Fingerprint \cup {None}, CreateHost(a, h, n, where, fp)
    PROVE  \E row : Stores(h, row)
<1>1. /\ NewHost(a, n, where, fp) \in HostRow
      /\ Vouched(NewHost(a, n, where, fp))
      /\ NewHost(a, n, where, fp).account = a
      /\ NewHost(a, n, where, fp).fingerprint = fp
  BY DEF NewHost, HostRow, Vouched
<1>. QED
  BY <1>1 DEF CreateHost, Stores

LEMMA CloneHostStores ==
    ASSUME TrustInv, NEW a \in Account, NEW h \in Host, NEW new \in Host, NEW n \in Name,
           CloneHost(a, h, new, n)
    PROVE  \E row : Stores(new, row)
<1> DEFINE old == hosts[h]
           row == [old EXCEPT !.name = n, !.cloned = TRUE]
<1>1. old \in HostRow /\ Vouched(old)
  BY StoredRow DEF CloneHost, Owns
<1>2. /\ hosts[new] = Fresh
      /\ hosts' = [hosts EXCEPT ![new] = row]
      /\ records' = records \cup ActiveRecord(new, old.fingerprint, "manual")
      /\ UNCHANGED <<access, seen>>
  BY DEF CloneHost
<1> HIDE DEF old
<1>3. /\ row \in HostRow /\ Vouched(row)
      /\ row.cloned
      /\ row.fingerprint = old.fingerprint
  BY <1>1 DEF HostRow, Vouched
<1>. QED
  BY <1>2, <1>3 DEF Stores

LEMMA UpdateHostRewrites ==
    ASSUME TrustInv, NEW a \in Account, NEW h \in Host, NEW n \in Name,
           NEW where \in Address, NEW fp \in Fingerprint \cup {None},
           UpdateHost(a, h, n, where, fp)
    PROVE  \E row : Rewrites(h, row)
<1> DEFINE old == hosts[h]
           trusted == TrustAfterUpdate(h, where, fp)
           vouched == IF trusted = fp THEN where ELSE old.vouched
           row == [old EXCEPT !.name = n, !.address = where, !.fingerprint = trusted,
                              !.vouched = vouched]
<1>1. old \in HostRow /\ Vouched(old) /\ Stored(h)
  BY StoredRow DEF UpdateHost, Owns
<1>2. /\ trusted \in Fingerprint \cup {None}
      /\ vouched \in Address
  BY <1>1 DEF TrustAfterUpdate, HostRow
<1>3. trusted # None => vouched = where
  <2>1. ASSUME ~AddressChanged(h, where)
        PROVE  where = old.address
    BY <1>1, <2>1 DEF AddressChanged, Address, HostRow
  <2>. QED
    BY <1>1, <2>1 DEF TrustAfterUpdate, Vouched
<1>4. /\ hosts' = [hosts EXCEPT ![h] = row]
      /\ records' = RecordsAfter(h, trusted)
      /\ UNCHANGED <<access, seen>>
  BY <1>1 DEF UpdateHost, TrustInv, TypeOK, HostRow
<1> HIDE DEF trusted, vouched
<1>5. /\ row \in HostRow /\ Vouched(row)
      /\ row.account = old.account /\ row.cloned = old.cloned
      /\ row.fingerprint = trusted
  BY <1>1, <1>2, <1>3 DEF HostRow, Vouched
<1>. QED
  BY <1>1, <1>4, <1>5 DEF Rewrites, RecordsAfter

LEMMA OverwriteHostRewrites ==
    ASSUME TrustInv, NEW a \in Account, NEW h \in Host, NEW where \in Address,
           NEW fp \in Fingerprint \cup {None}, OverwriteHost(a, h, where, fp)
    PROVE  \E row : Rewrites(h, row)
<1> DEFINE old == hosts[h]
           row == [old EXCEPT !.address = where, !.fingerprint = fp, !.vouched = where]
<1>1. old \in HostRow /\ Stored(h)
  BY StoredRow DEF OverwriteHost, Owns
<1>2. /\ hosts' = [hosts EXCEPT ![h] = row]
      /\ records' = RecordsAfter(h, fp)
      /\ UNCHANGED <<access, seen>>
  BY <1>1 DEF OverwriteHost, TrustInv, TypeOK, HostRow
<1>3. /\ row \in HostRow /\ Vouched(row)
      /\ row.account = old.account /\ row.cloned = old.cloned
      /\ row.fingerprint = fp
  BY <1>1 DEF HostRow, Vouched
<1>. QED
  BY <1>1, <1>2, <1>3 DEF Rewrites, RecordsAfter

LEMMA SetFingerprintRewrites ==
    ASSUME TrustInv, NEW a, NEW h \in Host, NEW fp \in Fingerprint,
           NEW source \in {"tofu", "manual"}, SetFingerprint(a, h, fp, source)
    PROVE  \E row : Rewrites(h, row)
<1> DEFINE old == hosts[h]
           row == [old EXCEPT !.fingerprint = fp, !.vouched = old.address]
<1>1. old \in HostRow /\ Stored(h)
  BY StoredRow DEF SetFingerprint, Owns
<1>2. /\ hosts' = [hosts EXCEPT ![h] = row]
      /\ old.fingerprint # fp
      /\ records' = Replace(h, fp, source)
      /\ UNCHANGED <<access, seen>>
  BY <1>1 DEF SetFingerprint, TrustInv, TypeOK, HostRow
<1>3. /\ row \in HostRow /\ Vouched(row)
      /\ row.account = old.account /\ row.cloned = old.cloned
      /\ row.fingerprint = fp
  BY <1>1 DEF HostRow, Vouched, Fingerprint
<1>. QED
  BY <1>1, <1>2, <1>3 DEF Rewrites

LEMMA ClearFingerprintRewrites ==
    ASSUME TrustInv, NEW a \in Account, NEW h \in Host, ClearFingerprint(a, h)
    PROVE  \E row : Rewrites(h, row)
<1> DEFINE old == hosts[h]
           row == [old EXCEPT !.fingerprint = None]
<1>1. old \in HostRow /\ Stored(h)
  BY StoredRow DEF ClearFingerprint, Owns
<1>2. /\ hosts' = [hosts EXCEPT ![h] = row]
      /\ old.fingerprint # None
      /\ records' = Replace(h, None, "manual")
      /\ UNCHANGED <<access, seen>>
  BY <1>1 DEF ClearFingerprint, Replace, ActiveRecord, TrustInv, TypeOK, HostRow
<1>3. /\ row \in HostRow /\ Vouched(row)
      /\ row.account = old.account /\ row.cloned = old.cloned
      /\ row.fingerprint = None
  BY <1>1 DEF HostRow, Vouched
<1>. QED
  BY <1>1, <1>2, <1>3 DEF Rewrites

(* Next by what it does to hosts and records. *)
LEMMA NextCases ==
    ASSUME TrustInv, [Next]_vars
    PROVE  \/ \E h \in Host : \E row : Stores(h, row) \/ Rewrites(h, row)
           \/ /\ \E H \in SUBSET Host : Forget(H)
              /\ access' \in [Account -> {"on", "off", "gone"}]
              /\ UNCHANGED seen
           \/ /\ UNCHANGED <<hosts, records>>
              /\ access' \in [Account -> {"on", "off", "gone"}]
              /\ seen' \in [Client -> Seen \cup {Fresh}]
<1>1. ASSUME NEW a \in Account, NEW h \in Host, HostNext(a, h)
      PROVE  \/ \E g \in Host : \E row : Stores(g, row) \/ Rewrites(g, row)
             \/ Forget({h}) /\ UNCHANGED <<access, seen>>
             \/ \E c \in Client : GetCredentials(c, a, h)
  BY <1>1, CreateHostStores, CloneHostStores, UpdateHostRewrites, OverwriteHostRewrites,
     SetFingerprintRewrites, ClearFingerprintRewrites DEF HostNext, DeleteHost
<1>2. ASSUME NEW c \in Client, NEW a \in Account, NEW h \in Host, GetCredentials(c, a, h)
      PROVE  /\ UNCHANGED <<access, hosts, records>>
             /\ seen' \in [Client -> Seen \cup {Fresh}]
  <2>1. hosts[h].address \in Address
    BY <1>2, StoredRow DEF GetCredentials, Owns, HostRow
  <2>. QED
    BY <1>2, <2>1 DEF GetCredentials, TrustInv, TypeOK, Seen
<1>3. ASSUME NEW c \in Client, ReportFingerprint(c)
      PROVE  \E h \in Host : \E row : Rewrites(h, row)
  <2>1. seen[c] \in Seen
    BY <1>3 DEF ReportFingerprint, TrustInv, TypeOK
  <2>. QED
    BY <1>3, <2>1, SetFingerprintRewrites DEF ReportFingerprint, Seen, Fingerprint
<1>4. ASSUME NEW a \in Account, NEW enabled \in BOOLEAN, SetSSHEnabled(a, enabled)
      PROVE  /\ access' \in [Account -> {"on", "off", "gone"}]
             /\ UNCHANGED <<hosts, records, seen>>
  BY <1>4 DEF SetSSHEnabled, TrustInv, TypeOK
<1>5. ASSUME NEW a \in Account, DeleteAccount(a)
      PROVE  /\ \E H \in SUBSET Host : Forget(H)
             /\ access' \in [Account -> {"on", "off", "gone"}]
             /\ UNCHANGED seen
  BY <1>5 DEF DeleteAccount, HostsOf, TrustInv, TypeOK
<1>6. TypeOK
  BY DEF TrustInv
<1>. QED
  BY <1>1, <1>2, <1>3, <1>4, <1>5, <1>6 DEF Next, vars, TypeOK

-----------------------------------------------------------------------------
(* The fingerprint history *)

(* At most one record, of that fingerprint, and active. *)
LEMMA ActiveRecordIs ==
    ASSUME NEW h \in Host, NEW fp \in Fingerprint \cup {None},
           NEW source \in {"tofu", "manual"}
    PROVE  /\ \A q, r \in ActiveRecord(h, fp, source) : q = r
           /\ \A r \in ActiveRecord(h, fp, source) :
                 r \in FingerprintRecord /\ r.host = h /\ r.active /\ r.fingerprint = fp
           /\ fp # None => ActiveRecord(h, fp, source) # {}
<1> DEFINE record == [host |-> h, fingerprint |-> fp, source |-> source, active |-> TRUE]
<1>1. CASE fp = None
  BY <1>1 DEF ActiveRecord
<1>2. CASE fp # None
  <2>1. ActiveRecord(h, fp, source) = {record}
    BY <1>2 DEF ActiveRecord
  <2>2. /\ record \in FingerprintRecord
        /\ record.host = h /\ record.active /\ record.fingerprint = fp
    BY <1>2 DEF FingerprintRecord
  <2> HIDE DEF record
  <2>. QED
    BY <2>1, <2>2
<1>. QED
  BY <1>1, <1>2

(* A replacement retires the records of one host and adds at most one. *)
LEMMA ReplaceRecords ==
    ASSUME TypeOK, NEW h \in Host, NEW fp \in Fingerprint \cup {None},
           NEW source \in {"tofu", "manual"}, records' = Replace(h, fp, source)
    PROVE  /\ records' \in SUBSET FingerprintRecord
           /\ ActiveOf(h)' = ActiveRecord(h, fp, source)
           /\ \A g \in Host \ {h} : RecordsOf(g)' = RecordsOf(g)
           /\ \A g \in Host \ {h} : ActiveOf(g)' = ActiveOf(g)
<1>1. ASSUME NEW r \in FingerprintRecord
      PROVE  /\ [r EXCEPT !.active = FALSE] \in FingerprintRecord
             /\ [r EXCEPT !.active = FALSE].host = r.host
             /\ [r EXCEPT !.active = FALSE].active = FALSE
  BY DEF FingerprintRecord
<1>2. ASSUME NEW r \in ActiveRecord(h, fp, source)
      PROVE  r \in FingerprintRecord /\ r.host = h /\ r.active
  BY <1>2, ActiveRecordIs
<1>3. Retire(h) \subseteq FingerprintRecord
  BY <1>1 DEF Retire, TypeOK
<1>4. records' \in SUBSET FingerprintRecord
  BY <1>2, <1>3 DEF Replace
<1>5. ActiveOf(h)' = ActiveRecord(h, fp, source)
  <2>1. \A r \in Retire(h) : ~(r.host = h /\ r.active)
    BY <1>1 DEF Retire, TypeOK
  <2>. QED
    BY <1>2, <2>1 DEF ActiveOf, Replace
<1>6. ASSUME NEW g \in Host \ {h}
      PROVE  RecordsOf(g)' = RecordsOf(g) /\ ActiveOf(g)' = ActiveOf(g)
  <2>1. ASSUME NEW r \in FingerprintRecord, r.host = g
        PROVE  r \in records' <=> r \in records
    <3>1. r \in Retire(h) <=> r \in records
      BY <1>1, <2>1 DEF Retire, TypeOK
    <3>. QED
      BY <1>2, <2>1, <3>1 DEF Replace
  <2>. QED
    BY <1>4, <2>1 DEF RecordsOf, ActiveOf, TypeOK
<1>. QED
  BY <1>4, <1>5, <1>6

(* A new host's record is the only one it has. *)
LEMMA AddRecord ==
    ASSUME TypeOK, NEW h \in Host, NEW fp \in Fingerprint \cup {None},
           records' = records \cup ActiveRecord(h, fp, "manual")
    PROVE  /\ records' \in SUBSET FingerprintRecord
           /\ RecordsOf(h) = {} => ActiveOf(h)' = ActiveRecord(h, fp, "manual")
           /\ \A g \in Host \ {h} : RecordsOf(g)' = RecordsOf(g)
           /\ \A g \in Host \ {h} : ActiveOf(g)' = ActiveOf(g)
<1>1. ASSUME NEW r \in ActiveRecord(h, fp, "manual")
      PROVE  r \in FingerprintRecord /\ r.host = h /\ r.active
  BY <1>1, ActiveRecordIs
<1>. QED
  BY <1>1 DEF TypeOK, RecordsOf, ActiveOf

LEMMA TrustInit == Init => TrustInv
<1> SUFFICES ASSUME Init
             PROVE  TrustInv
  OBVIOUS
<1>1. PICK old \in [Legacy -> LegacyRow] :
          hosts = [h \in Host |-> IF h \in Legacy THEN old[h] ELSE Fresh]
  BY DEF Init
<1>2. TypeOK
  BY <1>1 DEF Init, TypeOK, LegacyRow
<1>3. FreshHaveNoRecords /\ TrustedIsActiveRecord /\ TrustFollowsAddress
  BY <1>1 DEF Init, FreshHaveNoRecords, TrustedIsActiveRecord, TrustFollowsAddress,
              ActiveOf, RecordsOf, Stored, Fresh, LegacyRow
<1>. QED
  BY <1>2, <1>3 DEF TrustInv

(***************************************************************************)
(* A host that is written leaves the others and their records alone, and   *)
(* its own trust and history agree afterwards.                             *)
(***************************************************************************)
LEMMA WriteStep ==
    ASSUME TrustInv, NEW h \in Host, NEW row, Stores(h, row) \/ Rewrites(h, row)
    PROVE  TrustInv'
<1>1. /\ row \in HostRow /\ Vouched(row)
      /\ hosts' = [hosts EXCEPT ![h] = row]
      /\ UNCHANGED <<access, seen>>
      /\ TypeOK
      /\ row.fingerprint \in Fingerprint \cup {None}
  BY DEF Stores, Rewrites, TrustInv, HostRow
<1>2. /\ hosts'[h] = row
      /\ \A g \in Host \ {h} : hosts'[g] = hosts[g]
      /\ row.state = "stored" /\ row # Fresh
  BY <1>1 DEF TypeOK, HostRow, Fresh
<1>3. /\ records' \in SUBSET FingerprintRecord
      /\ \A g \in Host \ {h} : RecordsOf(g)' = RecordsOf(g) /\ ActiveOf(g)' = ActiveOf(g)
  <2>1. CASE records' = records
    BY <1>1, <2>1 DEF RecordsOf, ActiveOf, TypeOK
  <2>2. CASE records' # records
    BY <1>1, <2>2, AddRecord, ReplaceRecords DEF Stores, Rewrites
  <2>. QED
    BY <2>1, <2>2
<1>4. /\ \A q, r \in ActiveOf(h)' : q = r
      /\ \A r \in ActiveOf(h)' : r.fingerprint = row.fingerprint
      /\ \/ row.fingerprint = None
         \/ ActiveOf(h)' # {}
         \/ h \in Legacy /\ RecordsOf(h)' = {}
  <2>1. CASE Stores(h, row)
    <3>1. ActiveOf(h)' = ActiveRecord(h, row.fingerprint, "manual")
      BY <1>1, <2>1, AddRecord DEF Stores, TrustInv, FreshHaveNoRecords
    <3>. QED
      BY <1>1, <3>1, ActiveRecordIs
  <2>2. CASE Rewrites(h, row) /\ row.fingerprint = hosts[h].fingerprint
    <3>1. records' = records /\ Stored(h)
      BY <2>2 DEF Rewrites
    <3>. QED
      BY <2>2, <3>1 DEF TrustInv, TrustedIsActiveRecord, ActiveOf, RecordsOf
  <2>3. CASE Rewrites(h, row) /\ row.fingerprint # hosts[h].fingerprint
    <3>1. PICK source \in {"tofu", "manual"} : records' = Replace(h, row.fingerprint, source)
      BY <2>3 DEF Rewrites
    <3>2. ActiveOf(h)' = ActiveRecord(h, row.fingerprint, source)
      BY <1>1, <3>1, ReplaceRecords
    <3>. QED
      BY <1>1, <3>2, ActiveRecordIs
  <2>. QED
    BY <2>1, <2>2, <2>3
<1>5. TypeOK'
  BY <1>1, <1>3 DEF TypeOK
<1>6. FreshHaveNoRecords'
  BY <1>2, <1>3 DEF FreshHaveNoRecords, TrustInv
<1>7. TrustedIsActiveRecord'
  <2>1. SUFFICES ASSUME NEW g \in Host, Stored(g)'
                 PROVE  TrustedIsActiveRecord!(g)!2'
    BY DEF TrustedIsActiveRecord
  <2>2. CASE g = h
    BY <1>2, <1>4, <2>2
  <2>3. CASE g # h
    BY <1>2, <1>3, <2>1, <2>3 DEF TrustInv, TrustedIsActiveRecord, Stored
  <2>. QED
    BY <2>2, <2>3
<1>8. TrustFollowsAddress'
  BY <1>1, <1>2 DEF TrustFollowsAddress, TrustInv, Vouched, Stored
<1>. QED
  BY <1>5, <1>6, <1>7, <1>8 DEF TrustInv

(* Every step keeps trust and history in agreement. *)
LEMMA TrustStep == TrustInv /\ [Next]_vars => TrustInv'
<1> SUFFICES ASSUME TrustInv, [Next]_vars
             PROVE  TrustInv'
  OBVIOUS
<1>1. ASSUME NEW H \in SUBSET Host, Forget(H),
             access' \in [Account -> {"on", "off", "gone"}], UNCHANGED seen
      PROVE  TrustInv'
  <2>1. \A g \in Host : hosts'[g] = IF g \in H THEN Gone ELSE hosts[g]
    BY <1>1 DEF Forget
  <2>2. \A g \in Host \ H : RecordsOf(g)' = RecordsOf(g) /\ ActiveOf(g)' = ActiveOf(g)
    BY <1>1 DEF Forget, RecordsOf, ActiveOf
  <2>3. TypeOK'
    BY <1>1 DEF TrustInv, TypeOK, Forget
  <2>4. \A g \in H : ~Stored(g)' /\ hosts'[g] # Fresh
    BY <2>1 DEF Stored, Gone, Fresh
  <2>5. FreshHaveNoRecords'
    BY <2>1, <2>2, <2>4 DEF FreshHaveNoRecords, TrustInv
  <2>6. TrustedIsActiveRecord'
    BY <2>1, <2>2, <2>4 DEF TrustedIsActiveRecord, TrustInv, Stored
  <2>7. TrustFollowsAddress'
    BY <2>1, <2>4 DEF TrustFollowsAddress, TrustInv, Stored
  <2>. QED
    BY <2>3, <2>5, <2>6, <2>7 DEF TrustInv
<1>2. ASSUME UNCHANGED <<hosts, records>>,
             access' \in [Account -> {"on", "off", "gone"}],
             seen' \in [Client -> Seen \cup {Fresh}]
      PROVE  TrustInv'
  BY <1>2 DEF TrustInv, TypeOK, FreshHaveNoRecords, TrustedIsActiveRecord,
              TrustFollowsAddress, RecordsOf, ActiveOf, Stored
<1>. QED
  BY <1>1, <1>2, NextCases, WriteStep

-----------------------------------------------------------------------------
(* The host limit *)

CountedOf(a) == {h \in HostsOf(a) : ~hosts[h].cloned}

LEMMA CountedFinite ==
    ASSUME NEW a
    PROVE  /\ IsFiniteSet(HostsOf(a)) /\ CountedOf(a) \subseteq HostsOf(a)
           /\ Cardinality(CountedOf(a)) \in Nat
           /\ Cardinality(CountedOf(a)) <= Cardinality(HostsOf(a))
<1>1. IsFiniteSet(HostsOf(a))
  BY HostsFinite, FS_Subset DEF HostsOf
<1>2. CountedOf(a) \subseteq HostsOf(a)
  BY DEF CountedOf
<1>. QED
  BY <1>1, <1>2, FS_Subset, FS_CardinalityType

LEMMA LimitInit == Init => OnlyClonesExceedLimit
BY DEF Init, OnlyClonesExceedLimit

(***************************************************************************)
(* Only CreateHost adds a host that is not a clone, and it has counted     *)
(* the hosts of the account, clones included, before.                      *)
(***************************************************************************)
LEMMA LimitStep == TrustInv /\ OnlyClonesExceedLimit /\ [Next]_vars => OnlyClonesExceedLimit'
<1> SUFFICES ASSUME TrustInv, OnlyClonesExceedLimit, [Next]_vars, NEW a \in Account
             PROVE  Cardinality(CountedOf(a)') <= MaxHosts
  BY DEF OnlyClonesExceedLimit, CountedOf
<1> USE LimitAssumption
<1>1. ASSUME CountedOf(a)' \subseteq CountedOf(a)
      PROVE  Cardinality(CountedOf(a)') <= MaxHosts
  <2>1. Cardinality(CountedOf(a)) <= MaxHosts
    BY DEF OnlyClonesExceedLimit, CountedOf
  <2>2. IsFiniteSet(CountedOf(a))
    BY CountedFinite, FS_Subset
  <2>3. /\ Cardinality(CountedOf(a)') <= Cardinality(CountedOf(a))
        /\ Cardinality(CountedOf(a)') \in Nat /\ Cardinality(CountedOf(a)) \in Nat
    BY <1>1, <2>2, FS_Subset, FS_CardinalityType
  <2>. QED
    BY <2>1, <2>3
<1>2. ASSUME NEW h \in Host, NEW row, Stores(h, row)
      PROVE  Cardinality(CountedOf(a)') <= MaxHosts
  <2>1. /\ row \in HostRow
        /\ hosts'[h] = row
        /\ \A g \in Host \ {h} : hosts'[g] = hosts[g]
        /\ h \notin HostsOf(a)
    BY <1>2 DEF Stores, TrustInv, TypeOK, HostsOf, Owns, Stored, Fresh
  <2>2. CASE row.cloned \/ row.account # a
    <3>1. CountedOf(a)' \subseteq CountedOf(a)
      BY <2>1, <2>2 DEF CountedOf, HostsOf, Owns, Stored
    <3>. QED
      BY <1>1, <3>1
  <2>3. CASE ~row.cloned /\ row.account = a
    <3>1. Cardinality(HostsOf(a)) < MaxHosts
      BY <1>2, <2>3 DEF Stores
    <3>2. CountedOf(a)' \subseteq CountedOf(a) \cup {h}
      BY <2>1 DEF CountedOf, HostsOf, Owns, Stored
    <3>3. IsFiniteSet(CountedOf(a)) /\ h \notin CountedOf(a)
      BY <2>1, CountedFinite, FS_Subset
    <3>4. /\ IsFiniteSet(CountedOf(a) \cup {h})
          /\ Cardinality(CountedOf(a) \cup {h}) = Cardinality(CountedOf(a)) + 1
      BY <3>3, FS_AddElement
    <3>5. /\ Cardinality(CountedOf(a)') <= Cardinality(CountedOf(a) \cup {h})
          /\ Cardinality(CountedOf(a)') \in Nat
      BY <3>2, <3>4, FS_Subset, FS_CardinalityType
    <3>6. /\ Cardinality(HostsOf(a)) \in Nat /\ Cardinality(CountedOf(a)) \in Nat
          /\ Cardinality(CountedOf(a)) <= Cardinality(HostsOf(a))
      BY CountedFinite, FS_CardinalityType
    <3>. QED
      BY <3>1, <3>4, <3>5, <3>6
  <2>. QED
    BY <2>2, <2>3
<1>3. ASSUME NEW h \in Host, NEW row, Rewrites(h, row)
      PROVE  Cardinality(CountedOf(a)') <= MaxHosts
  <2>1. CountedOf(a)' \subseteq CountedOf(a)
    BY <1>3 DEF Rewrites, TrustInv, TypeOK, CountedOf, HostsOf, Owns, Stored
  <2>. QED
    BY <1>1, <2>1
<1>4. ASSUME NEW H \in SUBSET Host, Forget(H)
      PROVE  Cardinality(CountedOf(a)') <= MaxHosts
  <2>1. CountedOf(a)' \subseteq CountedOf(a)
    BY <1>4 DEF Forget, CountedOf, HostsOf, Owns, Stored, Gone
  <2>. QED
    BY <1>1, <2>1
<1>5. CASE UNCHANGED <<hosts, records>>
  BY <1>1, <1>5 DEF CountedOf, HostsOf, Owns, Stored
<1>. QED
  BY <1>2, <1>3, <1>4, <1>5, NextCases

-----------------------------------------------------------------------------
(* What is proved about every number of accounts, hosts, addresses and     *)
(* devices, and for every limit.                                           *)

LEMMA TrustInvariant == Spec => []TrustInv
<1>. QED
  BY TrustInit, TrustStep, PTL DEF Spec

(***************************************************************************)
(* Hosts, fingerprint records and what devices have seen keep their types  *)
(* through every request, import, disable and deletion.                    *)
(***************************************************************************)
THEOREM TypeCorrect == Spec => []TypeOK
<1>1. TrustInv => TypeOK
  BY DEF TrustInv
<1>. QED
  BY <1>1, TrustInvariant, PTL

(***************************************************************************)
(* replaceSSHHostFingerprint and its callers: the fingerprint a host shows *)
(* is that of its one active record.                                       *)
(***************************************************************************)
THEOREM TrustIsRecorded == Spec => []TrustedIsActiveRecord
<1>1. TrustInv => TrustedIsActiveRecord
  BY DEF TrustInv
<1>. QED
  BY <1>1, TrustInvariant, PTL

(***************************************************************************)
(* updateHost: trust never moves to another address by itself.             *)
(***************************************************************************)
THEOREM TrustStaysAtItsAddress == Spec => []TrustFollowsAddress
<1>1. TrustInv => TrustFollowsAddress
  BY DEF TrustInv
<1>. QED
  BY <1>1, TrustInvariant, PTL

(* assertHostLimit: hosts that are not clones keep within the limit. *)
THEOREM LimitHoldsWithoutClones == Spec => []OnlyClonesExceedLimit
<1>. QED
  BY LimitInit, LimitStep, TrustInvariant, PTL DEF Spec

(***************************************************************************)
(* ssh_host_fingerprints: no step rewrites a record or brings a retired    *)
(* one back; records go only with their host.                              *)
(***************************************************************************)
THEOREM HistoryOnlyGrows == Spec => HistoryIsAppendOnly
<1>1. ASSUME TrustInv, [Next]_vars, NEW r \in records
      PROVE  \/ r \in records'
             \/ r.active /\ [r EXCEPT !.active = FALSE] \in records'
             \/ hosts'[r.host] = Gone
  <2>1. r \in FingerprintRecord
    BY <1>1 DEF TrustInv, TypeOK
  <2>2. ASSUME NEW h \in Host, NEW row, Stores(h, row) \/ Rewrites(h, row)
        PROVE  \/ r \in records'
               \/ r.active /\ [r EXCEPT !.active = FALSE] \in records'
    <3>1. CASE records \subseteq records'
      BY <1>1, <3>1
    <3>2. CASE Retire(h) \subseteq records'
      <4>1. CASE r.host = h /\ r.active
        BY <1>1, <3>2, <4>1 DEF Retire
      <4>2. CASE r.host # h
        BY <1>1, <3>2, <4>2 DEF Retire
      <4>3. CASE r.host = h /\ ~r.active
        <5>1. [r EXCEPT !.active = FALSE] = r
          BY <2>1, <4>3 DEF FingerprintRecord
        <5>. QED
          BY <1>1, <3>2, <4>3, <5>1 DEF Retire
      <4>. QED
        BY <2>1, <4>1, <4>2, <4>3 DEF FingerprintRecord
    <3>. QED
      BY <2>2, <3>1, <3>2 DEF Stores, Rewrites, Replace
  <2>3. ASSUME NEW H \in SUBSET Host, Forget(H)
        PROVE  r \in records' \/ hosts'[r.host] = Gone
    BY <1>1, <2>1, <2>3 DEF Forget, FingerprintRecord
  <2>. QED
    BY <1>1, <2>2, <2>3, NextCases
<1>2. TrustInv /\ [Next]_vars =>
        [ \A r \in records :
            \/ r \in records'
            \/ r.active /\ [r EXCEPT !.active = FALSE] \in records'
            \/ hosts'[r.host] = Gone ]_vars
  BY <1>1
<1>. QED
  BY <1>2, TrustInvariant, PTL DEF Spec, HistoryIsAppendOnly

=============================================================================
