------------------------- MODULE SSHWorkspaceProofs -------------------------
(***************************************************************************)
(* Proofs about the two modules of an account's SSH workspace: SSHRecords, *)
(* its rows under the operations on one row at a time, and WorkspaceImport,*)
(* its rows under imports of packages.  The two share no state; the proofs *)
(* about the first come first.                                             *)
(***************************************************************************)
EXTENDS SSHRecords, WorkspaceImport, TLAPS, FiniteSetTheorems, WellFoundedInduction

-----------------------------------------------------------------------------
(* The records.                                                            *)

(***************************************************************************)
(* The inductive invariant, row by row: a row is of its type, holds only   *)
(* secrets of its own account, refers to a host of its own account, and a  *)
(* host can authenticate.  No row outlives its account.                    *)
(***************************************************************************)
HoldsOwnSecrets(row) == \A s \in Slot : row.secret[s] \in {row.account, None}

RefersToOwnHost(row) ==
    /\ row.kind = "tunnel" => HasOwnHost(row)
    /\ row.kind = "entry" => row.host = None \/ HasOwnHost(row)

CanAuthenticate(row) ==
    row.kind = "host" => \/ row.secret[row.method] # None
                         \/ row.secret = Blank /\ ~row.enabled
                         \/ row.migrated

Sound(row) ==
    row \in Row /\ HoldsOwnSecrets(row) /\ RefersToOwnHost(row) /\ CanAuthenticate(row)

RecordsInv ==
    /\ TypeOK
    /\ \A i \in Id : rows[i] # Absent => Sound(rows[i]) /\ access[rows[i].account] # "gone"

-----------------------------------------------------------------------------
(* The rows the handlers write. *)

(* Credentials that are entered belong to the account that enters them. *)
LEMMA MergeOwn ==
    ASSUME NEW a \in Account, NEW entered,
           NEW old \in [Slot -> Account \cup {None}],
           \A s \in Slot : old[s] \in {a, None}
    PROVE  /\ Merge(old, a, entered) \in [Slot -> Account \cup {None}]
           /\ \A s \in Slot : Merge(old, a, entered)[s] \in {a, None}
BY DEF Merge

(* Credentials that are sent empty are gone. *)
LEMMA MergeNone ==
    ASSUME NEW a \in Account, NEW emptied,
           NEW old \in [Slot -> Account \cup {None}],
           \A s \in Slot : old[s] \in {a, None}
    PROVE  /\ Merge(old, None, emptied) \in [Slot -> Account \cup {None}]
           /\ \A s \in Slot : Merge(old, None, emptied)[s] \in {a, None}
BY DEF Merge

LEMMA BlankOwn ==
    ASSUME NEW a
    PROVE  /\ Blank \in [Slot -> Account \cup {None}]
           /\ \A s \in Slot : Blank[s] \in {a, None}
BY DEF Blank

(* What INSERT writes of a row that is new. *)
LEMMA NewRowType ==
    ASSUME NEW k \in Kind, NEW a \in Account, NEW n \in Name \cup {None}
    PROVE  NewRow(k, a, n) \in Row
BY BlankOwn DEF NewRow, Row, Method

LEMMA OwnedRow ==
    ASSUME RecordsInv, NEW a \in Account, NEW i \in Id, NEW k \in Kind, Owns(a, i, k)
    PROVE  /\ rows[i] # Absent
           /\ Sound(rows[i])
           /\ rows[i].kind = k
           /\ rows[i].account = a
BY DEF RecordsInv, Owns, Absent, Kind

(* INSERT of a row of the account's own *)
Inserted(a, i, row) == Insert(a, i, row) /\ row.account = a /\ Sound(row)

(* UPDATE that leaves the row its kind and its account *)
Updated(a, i, row) == Update(a, i, row) /\ row.account = a /\ Sound(row)

LEMMA CreateHostWrites ==
    ASSUME NEW a \in Account, NEW i \in Id, NEW n \in Name, NEW entered \in SUBSET Method,
           NEW method \in Method, NEW enabled \in BOOLEAN,
           CreateHost(a, i, n, entered, method, enabled)
    PROVE  \E row : Inserted(a, i, row)
<1> DEFINE secret == Merge(Blank, a, entered)
           row == [NewRow("host", a, n) EXCEPT
                      !.secret = secret, !.method = method, !.enabled = enabled]
<1>1. /\ secret \in [Slot -> Account \cup {None}]
      /\ \A s \in Slot : secret[s] \in {a, None}
  BY BlankOwn, MergeOwn
<1>2. CanUse(secret, method) /\ Insert(a, i, row)
  BY DEF CreateHost
<1> HIDE DEF secret
<1>3. Sound(row) /\ row.account = a
  BY <1>1, <1>2, BlankOwn
     DEF Sound, HoldsOwnSecrets, RefersToOwnHost, CanAuthenticate, CanUse, NewRow, Row,
         Kind, Method
<1>. QED
  BY <1>2, <1>3 DEF Inserted

LEMMA UpdateHostWrites ==
    ASSUME RecordsInv, NEW a \in Account, NEW i \in Id, NEW n \in Name,
           NEW entered \in SUBSET Method, NEW method \in Method, NEW enabled \in BOOLEAN,
           UpdateHost(a, i, n, entered, method, enabled)
    PROVE  \E row : Updated(a, i, row)
<1> DEFINE old == rows[i]
           secret == Merge(old.secret, a, entered)
           row == [old EXCEPT !.name = n, !.secret = secret, !.method = method,
                              !.enabled = enabled, !.migrated = FALSE]
<1>1. /\ Sound(old)
      /\ old.kind = "host" /\ old.account = a
  BY OwnedRow DEF UpdateHost, Kind
<1>2. /\ secret \in [Slot -> Account \cup {None}]
      /\ \A s \in Slot : secret[s] \in {a, None}
  BY <1>1, MergeOwn DEF Sound, HoldsOwnSecrets, Row
<1>3. CanUse(secret, method) /\ Update(a, i, row)
  BY DEF UpdateHost
<1> HIDE DEF secret, old
<1>4. Sound(row) /\ row.account = a
  BY <1>1, <1>2, <1>3
     DEF Sound, HoldsOwnSecrets, RefersToOwnHost, CanAuthenticate, CanUse, Row
<1>. QED
  BY <1>3, <1>4 DEF Updated

LEMMA CloneHostWrites ==
    ASSUME RecordsInv, NEW a \in Account, NEW i \in Id, NEW new \in Id, NEW n \in Name,
           CloneHost(a, i, new, n)
    PROVE  \E row : Inserted(a, new, row)
<1> DEFINE old == rows[i]
           row == [old EXCEPT !.name = n]
<1>1. /\ Sound(old)
      /\ old.kind = "host" /\ old.account = a
  BY OwnedRow DEF CloneHost, Kind
<1>2. Insert(a, new, row)
  BY DEF CloneHost
<1> HIDE DEF old
<1>3. Sound(row) /\ row.account = a
  BY <1>1 DEF Sound, HoldsOwnSecrets, RefersToOwnHost, CanAuthenticate, Row
<1>. QED
  BY <1>2, <1>3 DEF Inserted

LEMMA ImportPlaceholderWrites ==
    ASSUME NEW a \in Account, NEW i \in Id, NEW n \in Name, NEW method \in Method,
           NEW enabled \in BOOLEAN, ImportPlaceholder(a, i, n, method, enabled)
    PROVE  \E row : Inserted(a, i, row)
<1> DEFINE row == [NewRow("host", a, n) EXCEPT !.method = method, !.enabled = FALSE]
<1>1. Sound(row) /\ row.account = a
  BY BlankOwn DEF Sound, HoldsOwnSecrets, RefersToOwnHost, CanAuthenticate, NewRow, Row,
                  Kind, Method
<1>. QED
  BY <1>1 DEF Inserted, ImportPlaceholder

LEMMA OverwriteHostWrites ==
    ASSUME RecordsInv, NEW a \in Account, NEW i \in Id, NEW carried \in BOOLEAN,
           NEW entered \in SUBSET Method, NEW method \in Method, NEW enabled \in BOOLEAN,
           OverwriteHost(a, i, carried, entered, method, enabled)
    PROVE  \E row : Updated(a, i, row)
<1> DEFINE old == rows[i]
           secret == IF carried THEN Merge(Blank, a, entered) ELSE old.secret
           row == [old EXCEPT !.secret = secret, !.method = method,
                              !.enabled = enabled, !.migrated = FALSE]
<1>1. /\ Sound(old)
      /\ old.kind = "host" /\ old.account = a
  BY OwnedRow DEF OverwriteHost, Kind
<1>2. /\ secret \in [Slot -> Account \cup {None}]
      /\ \A s \in Slot : secret[s] \in {a, None}
  BY <1>1, BlankOwn, MergeOwn DEF Sound, HoldsOwnSecrets, Row
<1>3. CanUse(secret, method) /\ Update(a, i, row)
  BY DEF OverwriteHost
<1> HIDE DEF secret, old
<1>4. Sound(row) /\ row.account = a
  BY <1>1, <1>2, <1>3
     DEF Sound, HoldsOwnSecrets, RefersToOwnHost, CanAuthenticate, CanUse, Row
<1>. QED
  BY <1>3, <1>4 DEF Updated

LEMMA CreateTunnelWrites ==
    ASSUME NEW a \in Account, NEW i \in Id, NEW n \in Name, NEW h \in Id,
           CreateTunnel(a, i, n, h)
    PROVE  \E row : Inserted(a, i, row)
<1> DEFINE row == [NewRow("tunnel", a, n) EXCEPT !.host = h]
<1>1. Owns(a, h, "host") /\ Insert(a, i, row)
  BY DEF CreateTunnel
<1>2. Sound(row) /\ row.account = a
  BY <1>1, BlankOwn
     DEF Sound, HoldsOwnSecrets, RefersToOwnHost, HasOwnHost, CanAuthenticate, Owns,
         NewRow, Row, Kind, Method
<1>. QED
  BY <1>1, <1>2 DEF Inserted

LEMMA UpdateTunnelWrites ==
    ASSUME RecordsInv, NEW a \in Account, NEW i \in Id, NEW n \in Name, NEW h \in Id,
           UpdateTunnel(a, i, n, h)
    PROVE  \E row : Updated(a, i, row)
<1> DEFINE old == rows[i]
           row == [old EXCEPT !.name = n, !.host = h]
<1>1. /\ Sound(old)
      /\ old.kind = "tunnel" /\ old.account = a
  BY OwnedRow DEF UpdateTunnel, Kind
<1>2. Owns(a, h, "host") /\ Update(a, i, row)
  BY DEF UpdateTunnel
<1> HIDE DEF old
<1>3. Sound(row) /\ row.account = a
  BY <1>1, <1>2 DEF Sound, HoldsOwnSecrets, RefersToOwnHost, HasOwnHost,
                    CanAuthenticate, Owns, Row
<1>. QED
  BY <1>2, <1>3 DEF Updated

(* The runtime of a tunnel and the status of a session change only `live`. *)
LEMMA ReportWrites ==
    ASSUME RecordsInv, NEW a \in Account, NEW i \in Id, NEW b \in BOOLEAN,
           UpdateTunnelRuntime(a, i, b) \/ UpdateSessionHistory(a, i, b)
    PROVE  \E row : Updated(a, i, row)
<1> DEFINE old == rows[i]
           row == [old EXCEPT !.live = b]
<1>1. /\ Sound(old)
      /\ old.kind \in {"tunnel", "entry"} /\ old.account = a
  BY OwnedRow DEF UpdateTunnelRuntime, UpdateSessionHistory, Kind
<1>2. Update(a, i, row)
  BY DEF UpdateTunnelRuntime, UpdateSessionHistory
<1> HIDE DEF old
<1>3. Sound(row) /\ row.account = a
  BY <1>1 DEF Sound, HoldsOwnSecrets, RefersToOwnHost, HasOwnHost, CanAuthenticate, Row
<1>. QED
  BY <1>2, <1>3 DEF Updated

LEMMA CreateSnippetWrites ==
    ASSUME NEW a \in Account, NEW i \in Id, NEW n \in Name,
           NEW entered \in SUBSET Slots.snippet, CreateSnippet(a, i, n, entered)
    PROVE  \E row : Inserted(a, i, row)
<1> DEFINE secret == Merge(Blank, a, entered)
           row == [NewRow("snippet", a, n) EXCEPT !.secret = secret]
<1>1. /\ secret \in [Slot -> Account \cup {None}]
      /\ \A s \in Slot : secret[s] \in {a, None}
  BY BlankOwn, MergeOwn
<1>2. Insert(a, i, row)
  BY DEF CreateSnippet
<1> HIDE DEF secret
<1>3. Sound(row) /\ row.account = a
  BY <1>1 DEF Sound, HoldsOwnSecrets, RefersToOwnHost, CanAuthenticate, NewRow, Row,
              Kind, Method
<1>. QED
  BY <1>2, <1>3 DEF Inserted

LEMMA UpdateSnippetWrites ==
    ASSUME RecordsInv, NEW a \in Account, NEW i \in Id, NEW n \in Name, NEW sent \in BOOLEAN,
           NEW entered \in SUBSET Slots.snippet, UpdateSnippet(a, i, n, sent, entered)
    PROVE  \E row : Updated(a, i, row)
<1> DEFINE old == rows[i]
           secret == IF sent THEN Merge(Blank, a, entered) ELSE old.secret
           row == [old EXCEPT !.name = n, !.secret = secret]
<1>1. /\ Sound(old)
      /\ old.kind = "snippet" /\ old.account = a
  BY OwnedRow DEF UpdateSnippet, Kind
<1>2. /\ secret \in [Slot -> Account \cup {None}]
      /\ \A s \in Slot : secret[s] \in {a, None}
  BY <1>1, BlankOwn, MergeOwn DEF Sound, HoldsOwnSecrets, Row
<1>3. Update(a, i, row)
  <2>1. [rows[i] EXCEPT !.name = n, !.secret = IF sent THEN Merge(Blank, a, entered) ELSE @]
        = row
    BY <1>1 DEF Sound, Row
  <2>. QED
    BY <2>1 DEF UpdateSnippet
<1> HIDE DEF secret, old
<1>4. Sound(row) /\ row.account = a
  BY <1>1, <1>2 DEF Sound, HoldsOwnSecrets, RefersToOwnHost, CanAuthenticate, Row
<1>. QED
  BY <1>3, <1>4 DEF Updated

LEMMA CreateKeyIdentityWrites ==
    ASSUME NEW a \in Account, NEW i \in Id, NEW n \in Name,
           NEW entered \in SUBSET Slots.key, CreateKeyIdentity(a, i, n, entered)
    PROVE  \E row : Inserted(a, i, row)
<1> DEFINE secret == Merge(Blank, a, entered)
           row == [NewRow("key", a, n) EXCEPT !.secret = secret]
<1>1. /\ secret \in [Slot -> Account \cup {None}]
      /\ \A s \in Slot : secret[s] \in {a, None}
  BY BlankOwn, MergeOwn
<1>2. Insert(a, i, row)
  BY DEF CreateKeyIdentity
<1> HIDE DEF secret
<1>3. Sound(row) /\ row.account = a
  BY <1>1 DEF Sound, HoldsOwnSecrets, RefersToOwnHost, CanAuthenticate, NewRow, Row,
              Kind, Method
<1>. QED
  BY <1>2, <1>3 DEF Inserted

LEMMA UpdateKeyIdentityWrites ==
    ASSUME RecordsInv, NEW a \in Account, NEW i \in Id, NEW n \in Name,
           NEW entered \in SUBSET Slots.key, NEW emptied \in SUBSET Slots.key,
           UpdateKeyIdentity(a, i, n, entered, emptied)
    PROVE  \E row : Updated(a, i, row)
<1> DEFINE old == rows[i]
           left == Merge(old.secret, None, emptied)
           secret == Merge(left, a, entered \ emptied)
           row == [old EXCEPT !.name = n, !.secret = secret]
<1>1. /\ Sound(old)
      /\ old.kind = "key" /\ old.account = a
  BY OwnedRow DEF UpdateKeyIdentity, Kind
<1>2. /\ left \in [Slot -> Account \cup {None}]
      /\ \A s \in Slot : left[s] \in {a, None}
  BY <1>1, MergeNone DEF Sound, HoldsOwnSecrets, Row
<1>3. Update(a, i, row)
  BY DEF UpdateKeyIdentity
<1> HIDE DEF left, old
<1>4. /\ secret \in [Slot -> Account \cup {None}]
      /\ \A s \in Slot : secret[s] \in {a, None}
  BY <1>2, MergeOwn
<1> HIDE DEF secret
<1>5. Sound(row) /\ row.account = a
  BY <1>1, <1>4 DEF Sound, HoldsOwnSecrets, RefersToOwnHost, CanAuthenticate, Row
<1>. QED
  BY <1>3, <1>5 DEF Updated

LEMMA CreateSessionHistoryWrites ==
    ASSUME NEW a \in Account, NEW i \in Id, NEW h \in Id, NEW open \in BOOLEAN,
           CreateSessionHistory(a, i, h, open)
    PROVE  \E row : Inserted(a, i, row)
<1> DEFINE row == [NewRow("entry", a, None) EXCEPT !.host = h, !.live = open]
<1>1. Owns(a, h, "host") /\ Insert(a, i, row)
  BY DEF CreateSessionHistory
<1>2. Sound(row) /\ row.account = a
  BY <1>1, BlankOwn
     DEF Sound, HoldsOwnSecrets, RefersToOwnHost, HasOwnHost, CanAuthenticate, Owns,
         NewRow, Row, Kind, Method
<1>. QED
  BY <1>1, <1>2 DEF Inserted

LEMMA UpdateWorkspacePreferencesWrites ==
    ASSUME NEW a \in Account, NEW i \in Id, UpdateWorkspacePreferences(a, i)
    PROVE  \E row : Inserted(a, i, row)
<1>1. Sound(NewRow("preferences", a, None)) /\ NewRow("preferences", a, None).account = a
  BY BlankOwn DEF Sound, HoldsOwnSecrets, RefersToOwnHost, CanAuthenticate, NewRow, Row,
                  Kind, Method
<1>. QED
  BY <1>1 DEF Inserted, UpdateWorkspacePreferences

(***************************************************************************)
(* Next by what it does to the tables: every handler of ssh-host-service   *)
(* inserts or updates one sound row of the caller's own, or deletes one.   *)
(***************************************************************************)
LEMMA NextCases ==
    ASSUME RecordsInv, [Next]_vars
    PROVE  \/ \E a \in Account, i \in Id : \E row : Inserted(a, i, row) \/ Updated(a, i, row)
           \/ \E a \in Account, i \in Id, k \in Kind : Delete(a, i, k)
           \/ \E a \in Account : DeleteAccount(a)
           \/ \E a \in Account, enabled \in BOOLEAN : SetSSHEnabled(a, enabled)
           \/ UNCHANGED vars
<1>1. ASSUME NEW a \in Account, NEW i \in Id, HostNext(a, i)
      PROVE  \E j \in Id : \E row : Inserted(a, j, row) \/ Updated(a, j, row)
  BY <1>1, CreateHostWrites, UpdateHostWrites, CloneHostWrites, ImportPlaceholderWrites,
     OverwriteHostWrites DEF HostNext
<1>2. ASSUME NEW a \in Account, NEW i \in Id, TunnelNext(a, i)
      PROVE  \E j \in Id : \E row : Inserted(a, j, row) \/ Updated(a, j, row)
  BY <1>2, CreateTunnelWrites, UpdateTunnelWrites, ReportWrites DEF TunnelNext
<1>3. ASSUME NEW a \in Account, NEW i \in Id, SnippetNext(a, i)
      PROVE  \E j \in Id : \E row : Inserted(a, j, row) \/ Updated(a, j, row)
  BY <1>3, CreateSnippetWrites, UpdateSnippetWrites DEF SnippetNext
<1>4. ASSUME NEW a \in Account, NEW i \in Id, KeyNext(a, i)
      PROVE  \E j \in Id : \E row : Inserted(a, j, row) \/ Updated(a, j, row)
  BY <1>4, CreateKeyIdentityWrites, UpdateKeyIdentityWrites DEF KeyNext
<1>5. ASSUME NEW a \in Account, NEW i \in Id, EntryNext(a, i)
      PROVE  \E j \in Id : \E row : Inserted(a, j, row) \/ Updated(a, j, row)
  BY <1>5, CreateSessionHistoryWrites, ReportWrites DEF EntryNext
<1>6. ASSUME NEW a \in Account, NEW i \in Id, UpdateWorkspacePreferences(a, i)
      PROVE  \E row : Inserted(a, i, row)
  BY <1>6, UpdateWorkspacePreferencesWrites
<1>. QED
  BY <1>1, <1>2, <1>3, <1>4, <1>5, <1>6 DEF Next

-----------------------------------------------------------------------------

LEMMA RecordsInit == Init => RecordsInv
<1> SUFFICES ASSUME Init
             PROVE  RecordsInv
  OBVIOUS
<1>1. CASE rows = [i \in Id |-> Absent]
  BY <1>1 DEF Init, RecordsInv, TypeOK
<1>2. ASSUME NEW old \in Id, NEW a \in Account, NEW n \in Name,
             NEW entered \in SUBSET Method,
             rows = [i \in Id |-> IF i = old THEN MigratedHost(a, n, entered) ELSE Absent]
      PROVE  RecordsInv
  <2> DEFINE secret == Merge(Blank, a, entered)
  <2>1. /\ secret \in [Slot -> Account \cup {None}]
        /\ \A s \in Slot : secret[s] \in {a, None}
    BY BlankOwn, MergeOwn
  <2> DEFINE row == [NewRow("host", a, n) EXCEPT !.secret = secret, !.migrated = TRUE]
  <2>2. rows = [i \in Id |-> IF i = old THEN row ELSE Absent]
    BY <1>2 DEF MigratedHost
  <2> HIDE DEF secret
  <2>3. Sound(row) /\ row.account = a
    BY <2>1 DEF Sound, HoldsOwnSecrets, RefersToOwnHost, CanAuthenticate, NewRow, Row,
                Kind, Method
  <2> HIDE DEF row
  <2>. QED
    BY <2>2, <2>3 DEF Init, RecordsInv, TypeOK, Sound
<1>. QED
  BY <1>1, <1>2 DEF Init

(***************************************************************************)
(* A row that is written keeps every other row its host: an INSERT takes   *)
(* an id that nothing refers to, an UPDATE keeps kind and account.         *)
(***************************************************************************)
LEMMA PutStep ==
    ASSUME RecordsInv, NEW a \in Account, NEW i \in Id, NEW row,
           Inserted(a, i, row) \/ Updated(a, i, row)
    PROVE  RecordsInv'
<1>1. /\ rows' = [rows EXCEPT ![i] = row]
      /\ UNCHANGED access
      /\ access[a] = "on"
      /\ Sound(row) /\ row.account = a
  BY DEF Inserted, Updated, Insert, Update, Put, Allowed
<1>2. row \in Row
  BY <1>1 DEF Sound
<1>3. rows[i].kind = "host" => row.kind = "host" /\ row.account = rows[i].account
  BY DEF Inserted, Updated, Insert, Update, Owns, Absent
<1>4. \A r : HasOwnHost(r) => HasOwnHost(r)'
  <2>1. \A h \in Id : rows[h].kind = "host" =>
            rows'[h].kind = "host" /\ rows'[h].account = rows[h].account
    BY <1>1, <1>3 DEF RecordsInv, TypeOK
  <2>. QED
    BY <2>1 DEF HasOwnHost
<1>5. \A r : Sound(r) => Sound(r)'
  BY <1>4 DEF Sound, HoldsOwnSecrets, RefersToOwnHost, CanAuthenticate
<1>6. TypeOK'
  BY <1>1, <1>2 DEF RecordsInv, TypeOK
<1>. QED
  BY <1>1, <1>5, <1>6 DEF RecordsInv, TypeOK

(***************************************************************************)
(* What ON DELETE does: a row that stays is the one it was, or an entry    *)
(* that lost its host; and the hosts that are not deleted stay.            *)
(***************************************************************************)
LEMMA WithoutRows ==
    ASSUME RecordsInv, NEW gone \in SUBSET Id, rows' = Without(gone)
    PROVE  /\ \A i \in Id : rows'[i] # Absent =>
                 /\ i \notin gone
                 /\ rows[i] # Absent
                 /\ \/ /\ rows'[i] = rows[i]
                       /\ rows[i].kind \in {"tunnel", "entry"} => rows[i].host \notin gone
                    \/ rows'[i] = [rows[i] EXCEPT !.host = None] /\ rows[i].kind = "entry"
           /\ \A h \in Id \ gone : rows[h].kind = "host" => rows'[h] = rows[h]
<1>1. ASSUME NEW i \in Id
      PROVE  rows'[i] =
                IF i \in gone \/ (rows[i].kind = "tunnel" /\ rows[i].host \in gone)
                THEN Absent
                ELSE IF rows[i].kind = "entry" /\ rows[i].host \in gone
                     THEN [rows[i] EXCEPT !.host = None]
                     ELSE rows[i]
  BY DEF Without
<1>. QED
  BY <1>1 DEF Absent

(***************************************************************************)
(* Rows that go take with them, or set free, what refers to them: that is  *)
(* enough when the hosts that go are all hosts a remaining row of their    *)
(* account could refer to.                                                 *)
(***************************************************************************)
LEMMA WithoutStep ==
    ASSUME RecordsInv, NEW gone \in SUBSET Id, rows' = Without(gone),
           access' \in [Account -> {"on", "off", "gone"}],
           \A i \in Id \ gone : rows[i] # Absent => access'[rows[i].account] # "gone"
    PROVE  RecordsInv'
<1>1. ASSUME NEW i \in Id, NEW row, row = rows'[i], row # Absent
      PROVE  Sound(row)' /\ access'[row.account] # "gone"
  <2>1. /\ Sound(rows[i])
        /\ i \notin gone /\ rows[i] # Absent
    BY <1>1, WithoutRows DEF RecordsInv
  <2>2. CASE /\ row = rows[i]
             /\ rows[i].kind \in {"tunnel", "entry"} => rows[i].host \notin gone
    <3>1. row.kind \in {"tunnel", "entry"} /\ HasOwnHost(row) => HasOwnHost(row)'
      BY <2>2, WithoutRows DEF HasOwnHost
    <3>. QED
      BY <2>1, <2>2, <3>1 DEF Sound, HoldsOwnSecrets, RefersToOwnHost, CanAuthenticate
  <2>3. CASE row = [rows[i] EXCEPT !.host = None] /\ rows[i].kind = "entry"
    BY <2>1, <2>3 DEF Sound, HoldsOwnSecrets, RefersToOwnHost, CanAuthenticate, Row
  <2>4. \/ /\ row = rows[i]
           /\ rows[i].kind \in {"tunnel", "entry"} => rows[i].host \notin gone
        \/ row = [rows[i] EXCEPT !.host = None] /\ rows[i].kind = "entry"
    BY <1>1, WithoutRows
  <2>. QED
    BY <2>2, <2>3, <2>4
<1>2. TypeOK'
  <2>1. rows' = [i \in Id |-> rows'[i]]
    BY DEF Without
  <2>2. ASSUME NEW i \in Id
        PROVE  rows'[i] \in Row \cup {Absent}
    BY <1>1 DEF Sound
  <2>. QED
    BY <2>1, <2>2 DEF TypeOK
<1>. QED
  BY <1>1, <1>2 DEF RecordsInv

LEMMA RecordsStep == RecordsInv /\ [Next]_vars => RecordsInv'
<1> SUFFICES ASSUME RecordsInv, [Next]_vars
             PROVE  RecordsInv'
  OBVIOUS
<1>1. ASSUME NEW a \in Account, NEW i \in Id, NEW k \in Kind, Delete(a, i, k)
      PROVE  RecordsInv'
  BY <1>1, WithoutStep DEF Delete, RecordsInv, TypeOK
<1>2. ASSUME NEW a \in Account, DeleteAccount(a)
      PROVE  RecordsInv'
  <2> DEFINE gone == {i \in Id : rows[i] # Absent /\ rows[i].account = a}
  <2>1. access' \in [Account -> {"on", "off", "gone"}]
    BY <1>2 DEF DeleteAccount, RecordsInv, TypeOK
  <2>2. ASSUME NEW i \in Id \ gone, rows[i] # Absent
        PROVE  access'[rows[i].account] # "gone"
    <3>1. /\ rows[i].account # a /\ rows[i].account \in Account
          /\ access[rows[i].account] # "gone"
      BY <2>2 DEF RecordsInv, Sound, Row
    <3>. QED
      BY <1>2, <3>1 DEF DeleteAccount, RecordsInv, TypeOK
  <2>. QED
    BY <1>2, <2>1, <2>2, WithoutStep DEF DeleteAccount
<1>3. ASSUME NEW a \in Account, NEW enabled \in BOOLEAN, SetSSHEnabled(a, enabled)
      PROVE  RecordsInv'
  <2>1. /\ access' \in [Account -> {"on", "off", "gone"}]
        /\ \A b \in Account : access[b] # "gone" => access'[b] # "gone"
        /\ UNCHANGED rows
    BY <1>3 DEF SetSSHEnabled, RecordsInv, TypeOK
  <2>2. \A r : Sound(r) <=> Sound(r)'
    BY <2>1 DEF Sound, HoldsOwnSecrets, RefersToOwnHost, HasOwnHost, CanAuthenticate
  <2>. QED
    BY <2>1, <2>2 DEF RecordsInv, TypeOK, Sound, Row
<1>4. CASE UNCHANGED vars
  <2>1. \A r : Sound(r) <=> Sound(r)'
    BY <1>4 DEF vars, Sound, HoldsOwnSecrets, RefersToOwnHost, HasOwnHost, CanAuthenticate
  <2>. QED
    BY <1>4, <2>1 DEF vars, RecordsInv, TypeOK
<1>. QED
  BY <1>1, <1>2, <1>3, <1>4, PutStep, NextCases

-----------------------------------------------------------------------------
(* What is proved about every number of accounts and rows. *)

(* The tables of the workspace are always in order, row by row. *)
THEOREM RecordsAreSound == Spec => []RecordsInv
<1>. QED
  BY RecordsInit, RecordsStep, PTL DEF Spec

(***************************************************************************)
(* The foreign keys of the ssh_* tables and the ownership checks of the    *)
(* handlers: nothing crosses accounts, dangles or outlives its account.    *)
(***************************************************************************)
THEOREM OwnersAlwaysAgree == Spec => []OwnersAgree
<1>1. RecordsInv => OwnersAgree
  BY DEF RecordsInv, Sound, RefersToOwnHost, OwnersAgree
<1>. QED
  BY <1>1, RecordsAreSound, PTL

(***************************************************************************)
(* getCredentials, getSnippetSecrets and getKeyIdentitySecrets: secrets    *)
(* reach only the account that entered them, through every edit, clone,    *)
(* import and reuse of an id.                                              *)
(***************************************************************************)
THEOREM SecretsNeverCross == Spec => []SecretsStayHome
<1>1. RecordsInv => SecretsStayHome
  <2>1. SUFFICES ASSUME RecordsInv, NEW a \in Account, NEW i \in Id
                 PROVE  HandedOut(a, i) \subseteq {a}
    BY DEF SecretsStayHome
  <2>2. ASSUME NEW k \in {"host", "snippet", "key"}, Owns(a, i, k)
        PROVE  Enterers(rows[i]) \subseteq {a}
    <3>1. /\ rows[i].kind = k /\ rows[i].account = a
          /\ \A s \in Slot : rows[i].secret[s] \in {a, None}
      BY <2>1, <2>2, OwnedRow DEF Sound, HoldsOwnSecrets, Kind
    <3>2. Slots[k] \subseteq Slot
      BY DEF Slots, Slot, Method
    <3>. QED
      BY <3>1, <3>2 DEF Enterers
  <2>. QED
    BY <2>2 DEF HandedOut
<1>. QED
  BY <1>1, RecordsAreSound, PTL

(***************************************************************************)
(* normalizeMetadata over edits that leave credentials blank, clones and   *)
(* imports: a host has the credential its method needs, or waits disabled  *)
(* with none, or has not been edited since migration 3.                    *)
(***************************************************************************)
THEOREM HostsCanAlwaysAuthenticate == Spec => []HostsCanAuthenticate
<1>1. RecordsInv => HostsCanAuthenticate
  BY DEF RecordsInv, Sound, CanAuthenticate, HostsCanAuthenticate, Absent
<1>. QED
  BY <1>1, RecordsAreSound, PTL

-----------------------------------------------------------------------------
(* Imports: numbers and recursion. *)

(* a set of numbers with an element has a least one *)
LEMMA LeastNumber ==
  ASSUME NEW T, T \subseteq Nat, NEW top \in T
  PROVE  \E n \in T : \A m \in T : n <= m
<1>. DEFINE S == 1 .. top
            U == {1 .. n : n \in {k \in T : k <= top}}
<1>1. IsWellFoundedOn(StrictSubsetOrdering(S), SUBSET S)
  <2>1. IsFiniteSet(S)
    BY FS_Interval
  <2>. QED
    BY <2>1, FS_StrictSubsetOrderingWellFounded, FS_FiniteSubsetsOfFinite
<1>2. U \subseteq SUBSET S /\ 1 .. top \in U
  OBVIOUS
<1>3. PICK x \in U : \A y \in U : <<y, x>> \notin StrictSubsetOrdering(S)
  <2>. HIDE DEF U, S
  <2>. QED
    BY <1>1, <1>2, WFMin
<1>4. PICK n \in T : x = 1 .. n /\ n <= top
  OBVIOUS
<1>5. ASSUME NEW m \in T, m < n PROVE FALSE
  <2>1. 1 .. m \in U
    BY <1>4, <1>5
  <2>2. n \in 1 .. n /\ n \notin 1 .. m
    BY <1>5
  <2>3. 1 .. m \subseteq 1 .. n /\ 1 .. m # 1 .. n
    BY <1>5, <2>2
  <2>. QED
    BY <1>2, <1>3, <1>4, <2>1, <2>3 DEF StrictSubsetOrdering
<1>. QED
  BY <1>5

(* what holds of 0 and passes from each number to the next holds of all *)
LEMMA StepByStep ==
  ASSUME NEW n \in Nat, NEW T, 0 \in T,
         \A i \in 0 .. n - 1 : i \in T => i + 1 \in T
  PROVE  0 .. n \subseteq T
<1>. DEFINE U == {i \in 0 .. n : i \notin T}
<1>1. SUFFICES ASSUME NEW top \in U PROVE FALSE
  OBVIOUS
<1>2. PICK i \in U : \A m \in U : i <= m
  <2>1. U \subseteq Nat
    OBVIOUS
  <2>. HIDE DEF U
  <2>. QED
    BY <1>1, <2>1, LeastNumber
<1>3. i \in 0 .. n /\ i \notin T /\ i # 0
  OBVIOUS
<1>4. i - 1 \in 0 .. n - 1 /\ i - 1 \notin U
  BY <1>2, <1>3
<1>5. i - 1 \in T
  BY <1>4
<1>6. (i - 1) + 1 \in T
  BY <1>4, <1>5
<1>. QED
  BY <1>3, <1>6

(* uniqueCopyName's choice is a name nobody has. *)
LEMMA CopyNameIsFree ==
  ASSUME NEW name, NEW names, FreeSuffixes(name, names) # {}
  PROVE  Lower(CopyName(name, names)) \notin names
<1>. DEFINE F == FreeSuffixes(name, names)
<1>1. F \subseteq Nat
  BY NumbersAssumption DEF FreeSuffixes
<1>2. \E n \in F : \A m \in F : n <= m
  <2>1. PICK top : top \in F
    OBVIOUS
  <2>. HIDE DEF F
  <2>. QED
    BY <1>1, <2>1, LeastNumber
<1>3. PICK n \in F : CopyName(name, names) = Append(name, n)
  BY <1>2 DEF CopyName
<1>. QED
  BY <1>3 DEF FreeSuffixes

-----------------------------------------------------------------------------
(* The rows *)

HostsIn(R) == {r \in R : r.kind = "host"}

(***************************************************************************)
(* A workspace as the tables keep it, the next id being `next`: ids and    *)
(* names are unique, a tunnel has its host and an enabled host has its     *)
(* credential.                                                             *)
(***************************************************************************)
HostOf(R, t) == \E h \in HostsIn(R) : h.id = t.host

InOrder(R, next) ==
    /\ IsFiniteSet(R)
    /\ next \in Nat
    /\ \A r \in R : r.kind \in PackageKind /\ r.id \in Nat /\ r.id < next
    /\ \A r \in R : r.secret \in BOOLEAN
    /\ \A q, r \in R : q.id = r.id => q = r
    /\ \A q, r \in R : q.kind = r.kind /\ q.name = r.name => q = r
    /\ \A t \in R : t.kind = "tunnel" => HostOf(R, t)
    /\ \A h \in HostsIn(R) : h.enabled => h.secret

(* a row that may stand in R: what it refers to is there *)
Fits(R, row) ==
    /\ row.kind \in PackageKind /\ row.secret \in BOOLEAN
    /\ row.kind = "tunnel" => HostOf(R, row)
    /\ row.kind = "host" /\ row.enabled => row.secret

(* hosts may change, but stay *)
HostsStay(R, S) == \A h \in HostsIn(R) : \E g \in HostsIn(S) : g.id = h.id

(* Replacing a row by one with its id and kind and a name nobody else has. *)
LEMMA ReplaceKeepsOrder ==
  ASSUME NEW R, NEW next, InOrder(R, next), NEW r \in R, NEW row,
         row.id = r.id, row.kind = r.kind, Fits(R, row),
         row.name \notin NamesIn(R \ {r}, r.kind)
  PROVE  /\ InOrder((R \ {r}) \cup {row}, next)
         /\ HostsStay(R, (R \ {r}) \cup {row})
<1>. DEFINE S == (R \ {r}) \cup {row}
<1>1. \A q \in R \ {r} : q.kind = row.kind => q.name # row.name
  BY DEF NamesIn
<1>2. HostsStay(R, S)
  BY DEF HostsIn, HostsStay
<1>3. \A t \in S : t.kind = "tunnel" => HostOf(S, t)
  <2>1. \A t \in S : t.kind = "tunnel" => HostOf(R, t)
    BY DEF InOrder, Fits
  <2>. QED
    BY <1>2, <2>1 DEF HostOf, HostsStay
<1>4. IsFiniteSet(S)
  BY FS_AddElement, FS_RemoveElement DEF InOrder
<1>6. \A h \in HostsIn(S) : h.enabled => h.secret
  BY DEF InOrder, HostsIn, Fits
<1>7. /\ \A q \in S : q.kind \in PackageKind /\ q.id \in Nat /\ q.id < next
      /\ \A q \in S : q.secret \in BOOLEAN
      /\ \A p, q \in S : p.id = q.id => p = q
  BY DEF InOrder, Fits
<1>8. \A p, q \in S : p.kind = q.kind /\ p.name = q.name => p = q
  <2>1. \A p, q \in R \ {r} : p.kind = q.kind /\ p.name = q.name => p = q
    BY DEF InOrder
  <2>. QED
    BY <1>1, <2>1
<1>. HIDE DEF S
<1>9. InOrder(S, next)
  <2>1. next \in Nat
    BY DEF InOrder
  <2>. QED
    BY <1>3, <1>4, <1>6, <1>7, <1>8, <2>1 DEF InOrder
<1>. QED
  BY <1>2, <1>9 DEF S

(* And it leaves as many hosts as there were. *)
LEMMA ReplaceKeepsCount ==
  ASSUME NEW R, NEW next, InOrder(R, next), NEW r \in R, NEW row,
         row.id = r.id, row.kind = r.kind
  PROVE  Cardinality(HostsIn((R \ {r}) \cup {row})) = Cardinality(HostsIn(R))
<1>. DEFINE S == (R \ {r}) \cup {row}
<1>1. IsFiniteSet(HostsIn(R)) /\ Cardinality(HostsIn(R)) \in Nat
  BY FS_Subset, FS_CardinalityType DEF InOrder, HostsIn
<1>2. CASE r.kind = "host"
  <2>1. r \in HostsIn(R)
    BY <1>2 DEF HostsIn
  <2>2. /\ IsFiniteSet(HostsIn(R) \ {r})
        /\ Cardinality(HostsIn(R) \ {r}) = Cardinality(HostsIn(R)) - 1
    BY <1>1, <2>1, FS_RemoveElement
  <2>3. HostsIn(S) = (HostsIn(R) \ {r}) \cup {row}
    BY <1>2 DEF HostsIn
  <2>4. row \notin HostsIn(R) \ {r}
    BY DEF InOrder, HostsIn
  <2>5. Cardinality((HostsIn(R) \ {r}) \cup {row})
            = Cardinality(HostsIn(R) \ {r}) + 1
    BY <2>2, <2>4, FS_AddElement
  <2>. HIDE DEF S
  <2>6. Cardinality(HostsIn(S)) = Cardinality(HostsIn(R))
    BY <1>1, <2>2, <2>3, <2>5
  <2>. QED
    BY <2>6 DEF S
<1>3. CASE r.kind # "host"
  <2>1. HostsIn(S) = HostsIn(R)
    BY <1>3 DEF HostsIn
  <2>. QED
    BY <2>1
<1>. QED
  BY <1>2, <1>3

(* Adding a row with the next id and a name nobody has. *)
LEMMA AddKeepsOrder ==
  ASSUME NEW R, NEW next, InOrder(R, next), NEW row, row.id = next, Fits(R, row),
         row.name \notin NamesIn(R, row.kind)
  PROVE  InOrder(R \cup {row}, next + 1)
<1>. DEFINE S == R \cup {row}
<1>1. row \notin R
  BY DEF InOrder
<1>2. \A t \in S : t.kind = "tunnel" => HostOf(S, t)
  BY DEF InOrder, Fits, HostOf, HostsIn
<1>3. IsFiniteSet(S)
  BY FS_AddElement DEF InOrder
<1>5. \A h \in HostsIn(S) : h.enabled => h.secret
  BY DEF InOrder, HostsIn, Fits
<1>6. /\ \A q \in S : q.kind \in PackageKind /\ q.id \in Nat /\ q.id < next + 1
      /\ \A q \in S : q.secret \in BOOLEAN
      /\ \A p, q \in S : p.id = q.id => p = q
  BY DEF InOrder, Fits
<1>7. \A p, q \in S : p.kind = q.kind /\ p.name = q.name => p = q
  BY DEF InOrder, NamesIn
<1>. HIDE DEF S
<1>8. next + 1 \in Nat
  BY DEF InOrder
<1>9. InOrder(S, next + 1)
  BY <1>2, <1>3, <1>5, <1>6, <1>7, <1>8 DEF InOrder
<1>. QED
  BY <1>9 DEF S

(* An import adds a host only below the limit. *)
Limited(R, S) ==
    \/ Cardinality(HostsIn(S)) <= MaxHosts
    \/ Cardinality(HostsIn(S)) <= Cardinality(HostsIn(R))

LEMMA AddKeepsLimit ==
  ASSUME NEW R, NEW next, InOrder(R, next), NEW row, row.id = next,
         row.kind = "host" => Cardinality(HostsIn(R)) < MaxHosts
  PROVE  Limited(R, R \cup {row})
<1>. DEFINE S == R \cup {row}
<1>1. IsFiniteSet(HostsIn(R)) /\ Cardinality(HostsIn(R)) \in Nat
  BY FS_Subset, FS_CardinalityType DEF InOrder, HostsIn
<1>2. CASE row.kind = "host"
  <2>1. HostsIn(S) = HostsIn(R) \cup {row} /\ row \notin HostsIn(R)
    BY <1>2 DEF HostsIn, InOrder
  <2>2. Cardinality(HostsIn(S)) = Cardinality(HostsIn(R)) + 1
    BY <1>1, <2>1, FS_AddElement
  <2>. QED
    BY <1>1, <1>2, <2>2, NumbersAssumption DEF Limited
<1>3. CASE row.kind # "host"
  <2>1. HostsIn(S) = HostsIn(R)
    BY <1>3 DEF HostsIn
  <2>. QED
    BY <1>1, <2>1 DEF Limited
<1>. QED
  BY <1>2, <1>3

-----------------------------------------------------------------------------
(* One step of a plan, on a workspace whose names the plan knows. *)

Planned(names, s) ==
    /\ s.kind \in PackageKind /\ s.item \in Item
    /\ s.action \in {"skip", "overwrite"} =>
          Lower(s.item.name) \in names[s.kind] /\ s.target = s.item.name
    /\ s.action \notin {"skip", "overwrite"} => Lower(s.target) \notin names[s.kind]

Decides(decide) == \A key \in DOMAIN decide : decide[key] \in Decision

(* appendPlan never takes a name that is taken, nor counts on one that is not. *)
LEMMA PlanItemIsPlanned ==
  ASSUME NEW names, NEW decide, Decides(decide), NEW x,
         x.kind \in PackageKind, x.item \in Item,
         PlanItem(names, decide, x).action # "error"
  PROVE  Planned(names, PlanItem(names, decide, x))
<1>. DEFINE s == PlanItem(names, decide, x)
            action == Resolution(names, decide, x)
            taken == names[x.kind]
<1>1. /\ s.kind = x.kind /\ s.item = x.item /\ s.action = action
      /\ action = "copy" => s.target = CopyName(x.item.name, taken)
      /\ action # "copy" => s.target = x.item.name
  BY DEF PlanItem
<1>2. action # "error"
  BY <1>1
<1>3. CASE Lower(x.item.name) \notin taken
  <2>1. action = "create"
    BY <1>3 DEF Resolution
  <2>. QED
    BY <1>1, <1>3, <2>1 DEF Planned
<1>4. CASE Lower(x.item.name) \in taken
  <2>1. /\ action \in Decision
        /\ action = "copy" => FreeSuffixes(x.item.name, taken) # {}
    BY <1>2, <1>4 DEF Resolution, Decides
  <2>2. CASE action = "copy"
    <3>1. Lower(CopyName(x.item.name, taken)) \notin taken
      BY <2>1, <2>2, CopyNameIsFree
    <3>. QED
      BY <1>1, <2>2, <3>1 DEF Planned
  <2>3. CASE action # "copy"
    BY <1>1, <1>4, <2>1, <2>3 DEF Planned, Decision
  <2>. QED
    BY <2>2, <2>3
<1>. QED
  BY <1>3, <1>4

IsWorking(w) ==
    w = [rows |-> w.rows, byName |-> w.byName, next |-> w.next, refs |-> w.refs,
         failed |-> w.failed]

(* one row for each name the handler can tell apart *)
ByName(R, I) ==
    /\ \A r \in R : \E q \in R : q.id \in I /\ Alike(q, r)
    /\ \A q, r \in R : q.id \in I /\ r.id \in I /\ Alike(q, r) => q = r

(* The working copy is in order, its refs are hosts, and its names known. *)
InStep(w, names) ==
    /\ InOrder(w.rows, w.next)
    /\ ByName(w.rows, w.byName)
    /\ w.refs \in Seq(Nat)
    /\ \A m \in DOMAIN w.refs : \E h \in HostsIn(w.rows) : h.id = w.refs[m]
    /\ names = [k \in PackageKind |-> LowerIn(w.rows, k)]

(* What a step s that does not fail makes of w. *)
KeepsOthers(w, s, v) ==
    \A r \in w.rows :
        \/ r \in v.rows
        \/ s.action = "overwrite" /\ r.kind = s.kind /\ Lower(r.name) = Lower(s.item.name)

KeepsHosts(w, v) ==
    \A h \in HostsIn(w.rows) :
        \E g \in HostsIn(v.rows) : g.id = h.id /\ Lower(g.name) = Lower(h.name)

Refers(w, s, v) ==
    IF s.kind = "host"
    THEN \E h \in HostsIn(v.rows) :
            Lower(h.name) = Lower(s.target) /\ v.refs = Append(w.refs, h.id)
    ELSE v.refs = w.refs

Brings(w, s, v) ==
    s.action # "skip" =>
        \E r \in v.rows :
            /\ r.kind = s.kind /\ r.from = s.item.name /\ r.name = s.target
            /\ s.kind = "tunnel" =>
                  s.item.ref \in DOMAIN w.refs /\ r.host = w.refs[s.item.ref]

Effect(w, names, s, v) ==
    /\ InStep(v, WithName(names, s))
    /\ KeepsOthers(w, s, v)
    /\ KeepsHosts(w, v)
    /\ Refers(w, s, v)
    /\ Brings(w, s, v)
    /\ Limited(w.rows, v.rows)
    /\ HasRowsAlike(v.rows) => HasRowsAlike(w.rows)

(* Where a step stops the import for a name, two rows are alike. *)
Goes(w, names, s, v) ==
    /\ IsWorking(v)
    /\ v.failed \in {"none", "invalid", "limit", "collision"}
    /\ v.failed = "collision" => HasRowsAlike(w.rows)
    /\ v.failed = "none" => Effect(w, names, s, v)

(* The refs of a step, once its row is in place. *)
LEMMA RefsOfStep ==
  ASSUME NEW w, NEW s, NEW names, InStep(w, names), NEW v, IsWorking(v), v.refs = w.refs,
         InOrder(v.rows, v.next), ByName(v.rows, v.byName),
         HostsStay(w.rows, v.rows),
         WithName(names, s) = [k \in PackageKind |-> LowerIn(v.rows, k)],
         NEW row \in v.rows, row.kind = s.kind, Lower(row.name) = Lower(s.target)
  PROVE  LET u == WithRef(v, s, row.id) IN
         /\ IsWorking(u) /\ u.rows = v.rows /\ u.next = v.next /\ u.failed = v.failed
         /\ InStep(u, WithName(names, s))
         /\ Refers(w, s, u)
<1>. DEFINE u == WithRef(v, s, row.id)
<1>1. \A m \in DOMAIN v.refs : \E h \in HostsIn(v.rows) : h.id = v.refs[m]
  BY DEF InStep, HostsStay
<1>2. CASE s.kind = "host"
  <2>1. /\ u = [v EXCEPT !.refs = Append(@, row.id)]
        /\ row \in HostsIn(v.rows) /\ row.id \in Nat
    BY <1>2 DEF WithRef, HostsIn, InOrder
  <2>2. /\ IsWorking(u) /\ u.rows = v.rows /\ u.next = v.next /\ u.failed = v.failed
        /\ u.refs = Append(w.refs, row.id) /\ u.byName = v.byName
    BY <2>1 DEF IsWorking
  <2>3. /\ u.refs \in Seq(Nat)
        /\ \A m \in DOMAIN u.refs : \E h \in HostsIn(v.rows) : h.id = u.refs[m]
    <3>1. w.refs \in Seq(Nat)
      BY DEF InStep
    <3>2. /\ Append(w.refs, row.id) \in Seq(Nat)
          /\ \A m \in DOMAIN Append(w.refs, row.id) :
                \/ m \in DOMAIN w.refs /\ Append(w.refs, row.id)[m] = w.refs[m]
                \/ Append(w.refs, row.id)[m] = row.id
      <4>. DEFINE id == row.id
                  refs == w.refs
      <4>1. id \in Nat /\ refs \in Seq(Nat)
        BY <2>1, <3>1
      <4>. HIDE DEF id, refs
      <4>2. /\ Append(refs, id) \in Seq(Nat)
            /\ \A m \in DOMAIN Append(refs, id) :
                \/ m \in DOMAIN refs /\ Append(refs, id)[m] = refs[m]
                \/ Append(refs, id)[m] = id
        BY <4>1
      <4>. QED
        BY <4>2 DEF id, refs
    <3>. QED
      BY <1>1, <2>1, <2>2, <3>2
  <2>. HIDE DEF u
  <2>4. InStep(u, WithName(names, s))
    BY <2>2, <2>3 DEF InStep
  <2>5. Refers(w, s, u)
    BY <1>2, <2>1, <2>2 DEF Refers
  <2>. QED
    BY <2>2, <2>4, <2>5 DEF u
<1>3. CASE s.kind # "host"
  <2>1. u = v
    BY <1>3 DEF WithRef
  <2>2. InStep(v, WithName(names, s))
    BY <1>1 DEF InStep
  <2>3. Refers(w, s, v)
    BY <1>3 DEF Refers
  <2>. QED
    BY <2>1, <2>2, <2>3
<1>. QED
  BY <1>2, <1>3


(* A ref the step looks up is the id of a host. *)
LEMMA RowFits ==
  ASSUME NEW w, NEW names, InStep(w, names), NEW s, Planned(names, s), NEW r,
         r.secret \in BOOLEAN,
         s.kind = "tunnel" => HostFor(w, s) # 0
  PROVE  /\ Fits(w.rows, Written(w, s, r))
         /\ s.kind = "tunnel" =>
               /\ s.item.ref \in DOMAIN w.refs
               /\ Written(w, s, r).host = w.refs[s.item.ref]
<1>. DEFINE row == Written(w, s, r)
<1>1. /\ row.kind = s.kind /\ row.host = HostFor(w, s)
      /\ row.secret = (s.item.secret \/ r.secret)
      /\ row.enabled = (s.item.secret \/ r.secret \/ (s.kind = "key" /\ r.id # w.next))
  BY DEF Written
<1>2. s.kind = "tunnel" =>
          s.item.ref \in DOMAIN w.refs /\ HostFor(w, s) = w.refs[s.item.ref]
  BY DEF HostFor
<1>3. s.kind = "tunnel" => HostOf(w.rows, row)
  BY <1>1, <1>2 DEF InStep, HostOf
<1>4. s.kind = "host" /\ row.enabled => row.secret
  BY <1>1
<1>. HIDE DEF row
<1>5. Fits(w.rows, row)
  BY <1>1, <1>3, <1>4, PayloadAssumption DEF Fits, Planned
<1>. QED
  BY <1>1, <1>2, <1>5 DEF row

(* The row under the name of an item that is skipped or overwrites. *)
LEMMA CurrentRow ==
  ASSUME NEW w, NEW names, InStep(w, names), NEW s, Planned(names, s),
         s.action \in {"skip", "overwrite"}
  PROVE  LET current == Named(w, s.kind, s.item.name)
             r == CHOOSE q \in current : TRUE
         IN /\ current # {}
            /\ r \in w.rows /\ r.kind = s.kind /\ r.id \in w.byName
            /\ Lower(r.name) = Lower(s.target)
            /\ s.target = s.item.name
            /\ WithName(names, s) = names
<1>. DEFINE current == Named(w, s.kind, s.item.name)
<1>1. /\ Lower(s.item.name) \in names[s.kind] /\ s.target = s.item.name
      /\ s.kind \in PackageKind
      /\ names = [k \in PackageKind |-> LowerIn(w.rows, k)]
  BY DEF Planned, InStep
<1>2. PICK p \in w.rows : p.kind = s.kind /\ Lower(p.name) = Lower(s.item.name)
  BY <1>1 DEF LowerIn, NamesIn
<1>3. PICK q \in w.rows : q.id \in w.byName /\ Alike(q, p)
  BY DEF InStep, ByName
<1>4. q \in current
  BY <1>2, <1>3 DEF Named, Alike
<1>5. names[s.kind] \cup {Lower(s.target)} = names[s.kind]
  BY <1>1
<1>6. WithName(names, s) = names
  BY <1>1, <1>5 DEF WithName
<1>. QED
  BY <1>1, <1>4, <1>6 DEF Named

LEMMA LimitedSelf ==
  ASSUME NEW R, NEW S, NEW next, InOrder(R, next),
         Cardinality(HostsIn(S)) = Cardinality(HostsIn(R))
  PROVE  Limited(R, S)
<1>1. Cardinality(HostsIn(R)) \in Nat
  BY FS_Subset, FS_CardinalityType DEF InOrder, HostsIn
<1>. QED
  BY <1>1 DEF Limited

LEMMA LimitedOn ==
  ASSUME NEW R, NEW S, NEW T, IsFiniteSet(R), IsFiniteSet(S), IsFiniteSet(T),
         Limited(R, S), Limited(S, T)
  PROVE  Limited(R, T)
<1>1. \A U : IsFiniteSet(U) => Cardinality(HostsIn(U)) \in Nat
  BY FS_Subset, FS_CardinalityType DEF HostsIn
<1>2. /\ Cardinality(HostsIn(R)) \in Nat /\ Cardinality(HostsIn(S)) \in Nat
      /\ Cardinality(HostsIn(T)) \in Nat
  BY <1>1
<1>. QED
  BY <1>2, NumbersAssumption DEF Limited

LEMMA SkipGoes ==
  ASSUME NEW w, NEW names, IsWorking(w), InStep(w, names), w.failed = "none",
         NEW s, Planned(names, s), s.action = "skip"
  PROVE  Goes(w, names, s, Skip(w, s))
<1>. DEFINE current == Named(w, s.kind, s.item.name)
            r == CHOOSE q \in current : TRUE
            u == WithRef(w, s, r.id)
<1>1. /\ current # {}
      /\ r \in w.rows /\ r.kind = s.kind /\ Lower(r.name) = Lower(s.target)
      /\ WithName(names, s) = names
  BY CurrentRow
<1>2. Skip(w, s) = u
  BY <1>1 DEF Skip
<1>3. WithName(names, s) = [k \in PackageKind |-> LowerIn(w.rows, k)]
  BY <1>1 DEF InStep
<1>4. HostsStay(w.rows, w.rows)
  BY DEF HostsStay
<1>5. InOrder(w.rows, w.next) /\ ByName(w.rows, w.byName)
  BY DEF InStep
<1>6. Limited(w.rows, w.rows)
  BY <1>5, LimitedSelf
<1>. HIDE DEF r, current
<1>7. /\ IsWorking(u) /\ u.rows = w.rows /\ u.failed = w.failed
      /\ InStep(u, WithName(names, s))
      /\ Refers(w, s, u)
  BY <1>1, <1>3, <1>4, <1>5, RefsOfStep
<1>. HIDE DEF u
<1>. QED
  BY <1>2, <1>6, <1>7 DEF Goes, Effect, KeepsOthers, KeepsHosts, Brings

(* A row is replaced by one the handler cannot tell from it by its name. *)
LEMMA ReplaceByAlike ==
  ASSUME NEW R, NEW I, ByName(R, I), NEW r \in R, NEW row,
         row.id = r.id, row.kind = r.kind, Lower(row.name) = Lower(r.name)
  PROVE  LET S == (R \ {r}) \cup {row} IN
         /\ r.id \in I => ByName(S, I)
         /\ HasRowsAlike(S) => HasRowsAlike(R)
         /\ \A k \in PackageKind : LowerIn(S, k) = LowerIn(R, k)
<1>. DEFINE S == (R \ {r}) \cup {row}
<1>1. \A k \in PackageKind : LowerIn(S, k) = LowerIn(R, k)
  BY DEF LowerIn, NamesIn
<1>2. \A q : (Alike(q, row) <=> Alike(q, r)) /\ (Alike(row, q) <=> Alike(r, q))
  BY DEF Alike
<1>3. ASSUME r.id \in I PROVE ByName(S, I)
  <2>1. \A p \in S : \E q \in S : q.id \in I /\ Alike(q, p)
    <3>1. ASSUME NEW p \in R PROVE \E q \in S : q.id \in I /\ Alike(q, p)
      <4>1. PICK q \in R : q.id \in I /\ Alike(q, p)
        BY DEF ByName
      <4>2. CASE q = r
        <5>1. row \in S /\ row.id \in I /\ Alike(row, p)
          BY <1>2, <1>3, <4>1, <4>2
        <5>. QED
          BY <5>1
      <4>3. CASE q # r
        BY <4>1, <4>3
      <4>. QED
        BY <4>2, <4>3
    <3>2. \E q \in S : q.id \in I /\ Alike(q, row)
      BY <1>2, <3>1
    <3>. QED
      BY <3>1, <3>2
  <2>2. \A p, q \in S : p.id \in I /\ q.id \in I /\ Alike(p, q) => p = q
    <3>1. \A p \in R : p.id \in I /\ (Alike(p, r) \/ Alike(r, p)) => p = r
      BY <1>3 DEF ByName
    <3>2. \A p, q \in R : p.id \in I /\ q.id \in I /\ Alike(p, q) => p = q
      BY DEF ByName
    <3>. QED
      BY <1>2, <3>1, <3>2
  <2>. QED
    BY <2>1, <2>2 DEF ByName
<1>4. ASSUME HasRowsAlike(S) PROVE HasRowsAlike(R)
  <2>1. PICK p, q \in S : p # q /\ Alike(p, q)
    BY <1>4 DEF HasRowsAlike
  <2>2. CASE p = row
    <3>1. q \in R /\ r # q /\ Alike(r, q)
      BY <1>2, <2>1, <2>2
    <3>. QED
      BY <3>1 DEF HasRowsAlike
  <2>3. CASE q = row
    <3>1. p \in R /\ p # r /\ Alike(p, r)
      BY <1>2, <2>1, <2>3
    <3>. QED
      BY <3>1 DEF HasRowsAlike
  <2>4. CASE p # row /\ q # row
    BY <2>1, <2>4 DEF HasRowsAlike
  <2>. QED
    BY <2>2, <2>3, <2>4
<1>. HIDE DEF S
<1>5. /\ r.id \in I => ByName(S, I)
      /\ HasRowsAlike(S) => HasRowsAlike(R)
      /\ \A k \in PackageKind : LowerIn(S, k) = LowerIn(R, k)
  BY <1>1, <1>3, <1>4
<1>. QED
  BY <1>5 DEF S

LEMMA OverwriteGoes ==
  ASSUME NEW w, NEW names, IsWorking(w), InStep(w, names), w.failed = "none",
         NEW s, Planned(names, s), s.action = "overwrite",
         s.kind = "tunnel" => HostFor(w, s) # 0
  PROVE  Goes(w, names, s, Overwrite(w, s))
<1>. DEFINE current == Named(w, s.kind, s.item.name)
            r == CHOOSE q \in current : TRUE
            row == Written(w, s, r)
            R == (w.rows \ {r}) \cup {row}
            v == [w EXCEPT !.rows = (@ \ {r}) \cup {row}]
            u == WithRef(v, s, r.id)
            bad == ~s.item.valid \/ (s.kind = "host" /\ ~row.secret)
<1>1. /\ current # {}
      /\ r \in w.rows /\ r.kind = s.kind /\ r.id \in w.byName
      /\ Lower(r.name) = Lower(s.target)
      /\ s.target = s.item.name
      /\ WithName(names, s) = names
  BY CurrentRow
<1>2. /\ row.id = r.id /\ row.kind = s.kind /\ row.name = s.target
      /\ row.from = s.item.name
  BY DEF Written
<1>3. \A why \in {"invalid", "collision"} :
          Failed(w, why).failed = why /\ IsWorking(Failed(w, why))
  BY DEF Failed, IsWorking
<1>4. CASE bad
  <2>1. Overwrite(w, s) = Failed(w, "invalid")
    BY <1>1, <1>4 DEF Overwrite
  <2>. HIDE DEF r, current, row
  <2>. QED
    BY <1>3, <2>1 DEF Goes
<1>5. CASE ~bad /\ Taken(w.rows \ {r}, row)
  <2>1. Overwrite(w, s) = Failed(w, "collision")
    BY <1>1, <1>5 DEF Overwrite
  <2>. HIDE DEF r, current, row
  <2>2. PICK q \in w.rows \ {r} : q.kind = row.kind /\ q.name = row.name
    BY <1>5 DEF Taken, NamesIn
  <2>3. Alike(q, r)
    BY <1>1, <1>2, <2>2 DEF Alike
  <2>4. HasRowsAlike(w.rows)
    BY <1>1, <2>2, <2>3 DEF HasRowsAlike
  <2>. QED
    BY <1>3, <2>1, <2>4 DEF Goes
<1>6. CASE ~bad /\ ~Taken(w.rows \ {r}, row)
  <2>1. Overwrite(w, s) = u
    BY <1>1, <1>6 DEF Overwrite
  <2>. HIDE DEF r, current
  <2>2. /\ Fits(w.rows, row)
        /\ s.kind = "tunnel" =>
              s.item.ref \in DOMAIN w.refs /\ row.host = w.refs[s.item.ref]
    <3>1. r.secret \in BOOLEAN
      BY <1>1 DEF InStep, InOrder
    <3>2. row = Written(w, s, r)
      OBVIOUS
    <3>. HIDE DEF row, R, v, u
    <3>. QED
      BY <3>1, <3>2, RowFits
  <2>. HIDE DEF row
  <2>3. /\ IsWorking(v) /\ v.rows = R /\ v.next = w.next /\ v.refs = w.refs
        /\ v.byName = w.byName /\ v.failed = w.failed
    <3>1. v = [rows |-> R, byName |-> w.byName, next |-> w.next, refs |-> w.refs,
               failed |-> w.failed]
      <4>. HIDE DEF R
      <4>1. [w EXCEPT !.rows = R]
                = [rows |-> R, byName |-> w.byName, next |-> w.next, refs |-> w.refs,
                   failed |-> w.failed]
        BY DEF IsWorking
      <4>. QED
        BY <4>1 DEF R
    <3>. HIDE DEF v, R
    <3>. QED
      BY <3>1 DEF IsWorking
  <2>4. InOrder(w.rows, w.next) /\ ByName(w.rows, w.byName)
    BY DEF InStep
  <2>5. row.id = r.id /\ row.kind = r.kind /\ Lower(row.name) = Lower(r.name)
    BY <1>1, <1>2
  <2>6. InOrder(R, w.next) /\ HostsStay(w.rows, R)
    <3>1. row.name \notin NamesIn(w.rows \ {r}, r.kind)
      BY <1>6, <2>5 DEF Taken
    <3>. HIDE DEF v, u
    <3>. QED
      BY <1>1, <2>2, <2>4, <2>5, <3>1, ReplaceKeepsOrder
  <2>7. /\ ByName(R, w.byName)
        /\ HasRowsAlike(R) => HasRowsAlike(w.rows)
        /\ \A k \in PackageKind : LowerIn(R, k) = LowerIn(w.rows, k)
    <3>. HIDE DEF v, u
    <3>. QED
      BY <1>1, <2>4, <2>5, ReplaceByAlike
  <2>8. Limited(w.rows, R)
    <3>1. Cardinality(HostsIn(R)) = Cardinality(HostsIn(w.rows))
      BY <1>1, <2>4, <2>5, ReplaceKeepsCount
    <3>. HIDE DEF R, v, u
    <3>. QED
      BY <2>4, <3>1, LimitedSelf
  <2>9. WithName(names, s) = [k \in PackageKind |-> LowerIn(R, k)]
    <3>. HIDE DEF R
    <3>. QED
      BY <1>1, <2>7 DEF InStep
  <2>10. KeepsOthers(w, s, v)
    BY <1>1, <2>3 DEF KeepsOthers
  <2>11. KeepsHosts(w, v)
    BY <1>1, <2>3, <2>5 DEF KeepsHosts, HostsIn
  <2>12. Brings(w, s, v)
    BY <1>2, <2>2, <2>3 DEF Brings
  <2>13. row \in R /\ row.kind = s.kind /\ Lower(row.name) = Lower(s.target)
    BY <1>2
  <2>. HIDE DEF v, R
  <2>14. /\ IsWorking(u) /\ u.rows = v.rows /\ u.failed = v.failed
         /\ InStep(u, WithName(names, s))
         /\ Refers(w, s, u)
    BY <2>3, <2>5, <2>6, <2>7, <2>9, <2>13, RefsOfStep
  <2>. HIDE DEF u
  <2>15. KeepsOthers(w, s, u) /\ KeepsHosts(w, u) /\ Brings(w, s, u)
    BY <2>10, <2>11, <2>12, <2>14 DEF KeepsOthers, KeepsHosts, Brings
  <2>. QED
    BY <2>1, <2>3, <2>7, <2>8, <2>14, <2>15 DEF Goes, Effect
<1>. QED
  BY <1>4, <1>5, <1>6

LEMMA CreateOrCopyGoes ==
  ASSUME NEW w, NEW names, IsWorking(w), InStep(w, names), w.failed = "none",
         NEW s, Planned(names, s), s.action \notin {"skip", "overwrite"},
         s.kind = "tunnel" => HostFor(w, s) # 0
  PROVE  Goes(w, names, s, CreateOrCopy(w, s))
<1>. DEFINE row == Written(w, s, NewItem(w, s))
            R == w.rows \cup {row}
            I == w.byName \cup {w.next}
            v == [w EXCEPT !.rows = @ \cup {row}, !.byName = @ \cup {w.next}, !.next = @ + 1]
            u == WithRef(v, s, w.next)
<1>1. \A why \in {"invalid", "limit"} :
          Failed(w, why).failed = why /\ IsWorking(Failed(w, why))
  BY DEF Failed, IsWorking
<1>2. CASE ~s.item.valid
  <2>1. CreateOrCopy(w, s) = Failed(w, "invalid")
    BY <1>2 DEF CreateOrCopy
  <2>. QED
    BY <1>1, <2>1 DEF Goes
<1>3. CASE s.item.valid /\ s.kind = "host" /\ Cardinality(HostsIn(w.rows)) >= MaxHosts
  <2>1. CreateOrCopy(w, s) = Failed(w, "limit")
    BY <1>3 DEF CreateOrCopy, HostsIn
  <2>. QED
    BY <1>1, <2>1 DEF Goes
<1>4. CASE /\ s.item.valid
           /\ ~(s.kind = "host" /\ Cardinality(HostsIn(w.rows)) >= MaxHosts)
  <2>1. Lower(s.target) \notin LowerIn(w.rows, s.kind) /\ s.kind \in PackageKind
    BY DEF Planned, InStep
  <2>2. /\ row.id = w.next /\ row.kind = s.kind /\ row.name = s.target
        /\ row.from = s.item.name
    BY DEF Written, NewItem
  <2>3. s.target \notin NamesIn(w.rows, s.kind)
    BY <2>1 DEF LowerIn
  <2>4. CreateOrCopy(w, s) = u
    BY <1>4, <2>2, <2>3 DEF CreateOrCopy, HostsIn, Taken
  <2>5. /\ Fits(w.rows, row)
        /\ s.kind = "tunnel" =>
              s.item.ref \in DOMAIN w.refs /\ row.host = w.refs[s.item.ref]
    <3>1. NewItem(w, s).secret \in BOOLEAN
      BY DEF NewItem
    <3>. QED
      BY <3>1, RowFits
  <2>. HIDE DEF row
  <2>6. /\ IsWorking(v) /\ v.rows = R /\ v.next = w.next + 1 /\ v.refs = w.refs
        /\ v.byName = I /\ v.failed = w.failed
    <3>1. v = [rows |-> R, byName |-> I, next |-> w.next + 1, refs |-> w.refs,
               failed |-> w.failed]
      <4>. DEFINE n == w.next + 1
                  w1 == [w EXCEPT !.rows = R]
                  w2 == [w1 EXCEPT !.byName = I]
      <4>. HIDE DEF n, R, I
      <4>1. w1 = [rows |-> R, byName |-> w.byName, next |-> w.next, refs |-> w.refs,
                  failed |-> w.failed]
        BY DEF IsWorking
      <4>2. w2 = [rows |-> R, byName |-> I, next |-> w.next, refs |-> w.refs,
                  failed |-> w.failed]
        <5>. HIDE DEF w1
        <5>. QED
          BY <4>1
      <4>3. [w2 EXCEPT !.next = n]
                = [rows |-> R, byName |-> I, next |-> n, refs |-> w.refs,
                   failed |-> w.failed]
        <5>. HIDE DEF w2
        <5>. QED
          BY <4>2
      <4>4. [w EXCEPT !.rows = R, !.byName = I, !.next = n] = [w2 EXCEPT !.next = n]
        OBVIOUS
      <4>. QED
        BY <4>3, <4>4 DEF R, I, n
    <3>. HIDE DEF v, R, I
    <3>. QED
      BY <3>1 DEF IsWorking
  <2>7. InOrder(w.rows, w.next) /\ ByName(w.rows, w.byName)
    BY DEF InStep
  <2>8. s.kind = "host" => Cardinality(HostsIn(w.rows)) < MaxHosts
    <3>1. Cardinality(HostsIn(w.rows)) \in Nat
      BY <2>7, FS_Subset, FS_CardinalityType DEF InOrder, HostsIn
    <3>. QED
      BY <1>4, <3>1, NumbersAssumption
  <2>9. InOrder(R, w.next + 1) /\ Limited(w.rows, R)
    BY <2>2, <2>3, <2>5, <2>7, <2>8, AddKeepsOrder, AddKeepsLimit
  <2>10. \A q \in w.rows : ~Alike(q, row) /\ ~Alike(row, q) /\ q.id # w.next
    BY <2>1, <2>2, <2>7 DEF Alike, LowerIn, NamesIn, InOrder
  <2>11. ByName(R, I)
    <3>1. Alike(row, row)
      BY DEF Alike
    <3>. QED
      BY <2>2, <2>7, <2>10, <3>1 DEF ByName
  <2>12. HasRowsAlike(R) => HasRowsAlike(w.rows)
    BY <2>10 DEF HasRowsAlike
  <2>13. \A k \in PackageKind :
             LowerIn(R, k) = IF k = s.kind THEN LowerIn(w.rows, k) \cup {Lower(s.target)}
                             ELSE LowerIn(w.rows, k)
    BY <2>2 DEF LowerIn, NamesIn
  <2>14. WithName(names, s) = [k \in PackageKind |-> LowerIn(R, k)]
    BY <2>13 DEF WithName, InStep
  <2>15. KeepsOthers(w, s, v) /\ KeepsHosts(w, v)
    BY <2>6 DEF KeepsOthers, KeepsHosts, HostsIn
  <2>16. Brings(w, s, v)
    BY <2>2, <2>5, <2>6 DEF Brings
  <2>17. row \in R /\ HostsStay(w.rows, R)
    BY DEF HostsIn, HostsStay
  <2>. HIDE DEF v, R, I
  <2>18. /\ IsWorking(u) /\ u.rows = v.rows /\ u.failed = v.failed
         /\ InStep(u, WithName(names, s))
         /\ Refers(w, s, u)
    BY <2>2, <2>6, <2>9, <2>11, <2>14, <2>17, RefsOfStep
  <2>. HIDE DEF u
  <2>19. KeepsOthers(w, s, u) /\ KeepsHosts(w, u) /\ Brings(w, s, u)
    BY <2>15, <2>16, <2>18 DEF KeepsOthers, KeepsHosts, Brings
  <2>. QED
    BY <2>4, <2>6, <2>9, <2>12, <2>18, <2>19 DEF Goes, Effect
<1>. QED
  BY <1>2, <1>3, <1>4, PayloadAssumption DEF Planned

(* Any step of a plan that does not stop the import has its effect. *)
LEMMA StepGoes ==
  ASSUME NEW w, NEW names, IsWorking(w), InStep(w, names), w.failed = "none",
         NEW s, Planned(names, s)
  PROVE  Goes(w, names, s, ApplyStep(w, s))
<1>1. CASE s.kind = "tunnel" /\ HostFor(w, s) = 0
  <2>1. ApplyStep(w, s) = Failed(w, "invalid")
    BY <1>1 DEF ApplyStep
  <2>2. Failed(w, "invalid").failed = "invalid" /\ IsWorking(Failed(w, "invalid"))
    BY DEF Failed, IsWorking
  <2>. QED
    BY <2>1, <2>2 DEF Goes
<1>2. CASE ~(s.kind = "tunnel" /\ HostFor(w, s) = 0)
  <2>1. CASE s.action = "skip"
    BY <1>2, <2>1, SkipGoes DEF ApplyStep
  <2>2. CASE s.action = "overwrite"
    BY <1>2, <2>2, OverwriteGoes DEF ApplyStep
  <2>3. CASE s.action \notin {"skip", "overwrite"}
    BY <1>2, <2>3, CreateOrCopyGoes DEF ApplyStep
  <2>. QED
    BY <2>1, <2>2, <2>3
<1>. QED
  BY <1>1, <1>2

-----------------------------------------------------------------------------
(* Plans, and what they are applied to. *)

LEMMA ConcatShape ==
  ASSUME NEW e, NEW c, NEW X, e \in Seq(X), c \in Seq(X), NEW m \in 0 .. Len(e),
         \A i \in 1 .. Len(e) : e[i].kind = "host" <=> i <= m,
         \A i \in 1 .. Len(c) : c[i].kind # "host"
  PROVE  /\ e \o c \in Seq(X) /\ m \in 0 .. Len(e \o c)
         /\ \A i \in 1 .. Len(e \o c) : (e \o c)[i].kind = "host" <=> i <= m
<1>1. /\ e \o c \in Seq(X) /\ Len(e \o c) = Len(e) + Len(c)
      /\ Len(e) \in Nat /\ Len(c) \in Nat
  OBVIOUS
<1>2. \A i \in 1 .. Len(e \o c) :
          (e \o c)[i] = IF i <= Len(e) THEN e[i] ELSE c[i - Len(e)]
  OBVIOUS
<1>3. ASSUME NEW i \in 1 .. Len(e \o c)
      PROVE  (e \o c)[i].kind = "host" <=> i <= m
  <2>1. CASE i <= Len(e)
    <3>1. i \in 1 .. Len(e) /\ (e \o c)[i] = e[i]
      BY <1>1, <1>2, <2>1
    <3>. QED
      BY <3>1
  <2>2. CASE i > Len(e)
    <3>1. i - Len(e) \in 1 .. Len(c) /\ (e \o c)[i] = c[i - Len(e)] /\ ~(i <= m)
      BY <1>1, <1>2, <2>2
    <3>. QED
      BY <3>1
  <2>. QED
    BY <1>1, <2>1, <2>2
<1>. QED
  BY <1>1, <1>3

(* The hosts of a package come first, so that their positions are the refs. *)
LEMMA ItemsShape ==
  ASSUME NEW p \in Payload
  PROVE  /\ Len(ItemsOf(p)) \in Nat /\ Len(p["host"]) \in Nat
         /\ \A i \in 1 .. Len(ItemsOf(p)) :
               /\ ItemsOf(p)[i].kind \in PackageKind /\ ItemsOf(p)[i].item \in Item
               /\ ItemsOf(p)[i].kind = "host" <=> i <= Len(p["host"])
<1>. DEFINE X == [kind: PackageKind, item: Item]
            a == OfKind(p, "host")
            b == OfKind(p, "tunnel")
            c == OfKind(p, "snippet")
            d == OfKind(p, "key")
<1>1. ASSUME NEW k \in PackageKind
      PROVE  /\ OfKind(p, k) \in Seq(X) /\ Len(OfKind(p, k)) = Len(p[k])
             /\ \A i \in 1 .. Len(p[k]) : OfKind(p, k)[i].kind = k
  <2>. DEFINE q == p[k]
  <2>1. q \in Seq(Item)
    BY PayloadAssumption
  <2>2. OfKind(p, k) = [i \in DOMAIN q |-> [kind |-> k, item |-> q[i]]]
    BY DEF OfKind
  <2>. HIDE DEF q
  <2>3. DOMAIN q = 1 .. Len(q) /\ Len(q) \in Nat /\ \A i \in 1 .. Len(q) : q[i] \in Item
    BY <2>1
  <2>4. OfKind(p, k) \in [1 .. Len(q) -> X]
    BY <2>2, <2>3
  <2>5. OfKind(p, k) \in Seq(X) /\ Len(OfKind(p, k)) = Len(q)
    <3>. HIDE DEF X
    <3>. QED
      BY <2>3, <2>4
  <2>. QED
    BY <2>2, <2>3, <2>5 DEF q
<1>2. /\ a \in Seq(X) /\ b \in Seq(X) /\ c \in Seq(X) /\ d \in Seq(X)
      /\ Len(a) = Len(p["host"])
  <2>1. {"host", "tunnel", "snippet", "key"} \subseteq PackageKind
    BY DEF PackageKind
  <2>. HIDE DEF X
  <2>. QED
    BY <1>1, <2>1
<1>3. /\ \A i \in 1 .. Len(a) : a[i].kind = "host"
      /\ \A i \in 1 .. Len(b) : b[i].kind # "host"
      /\ \A i \in 1 .. Len(c) : c[i].kind # "host"
      /\ \A i \in 1 .. Len(d) : d[i].kind # "host"
  BY <1>1 DEF PackageKind
<1>4. ItemsOf(p) = ((a \o b) \o c) \o d
  BY DEF ItemsOf
<1>. HIDE DEF a, b, c, d, X
<1>5. Len(a) \in 0 .. Len(a) /\ \A i \in 1 .. Len(a) : a[i].kind = "host" <=> i <= Len(a)
  BY <1>2, <1>3
<1>. DEFINE m == Len(a)
<1>. HIDE DEF m
<1>6. /\ a \o b \in Seq(X) /\ m \in 0 .. Len(a \o b)
      /\ \A i \in 1 .. Len(a \o b) : (a \o b)[i].kind = "host" <=> i <= m
  BY <1>2, <1>3, <1>5, ConcatShape DEF m
<1>7. /\ (a \o b) \o c \in Seq(X) /\ m \in 0 .. Len((a \o b) \o c)
      /\ \A i \in 1 .. Len((a \o b) \o c) : ((a \o b) \o c)[i].kind = "host" <=> i <= m
  <2>. DEFINE e == a \o b
  <2>1. e \in Seq(X) /\ m \in 0 .. Len(e) /\ \A i \in 1 .. Len(e) : e[i].kind = "host" <=> i <= m
    BY <1>6
  <2>. HIDE DEF e
  <2>2. /\ e \o c \in Seq(X) /\ m \in 0 .. Len(e \o c)
        /\ \A i \in 1 .. Len(e \o c) : (e \o c)[i].kind = "host" <=> i <= m
    BY <1>2, <1>3, <2>1, ConcatShape
  <2>. QED
    BY <2>2 DEF e
<1>8. /\ ItemsOf(p) \in Seq(X)
      /\ \A i \in 1 .. Len(ItemsOf(p)) : ItemsOf(p)[i].kind = "host" <=> i <= m
  <2>. DEFINE e == (a \o b) \o c
  <2>1. e \in Seq(X) /\ m \in 0 .. Len(e) /\ \A i \in 1 .. Len(e) : e[i].kind = "host" <=> i <= m
    BY <1>7
  <2>2. ItemsOf(p) = e \o d
    BY <1>4
  <2>. HIDE DEF e
  <2>. QED
    BY <1>2, <1>3, <2>1, <2>2, ConcatShape
<1>. DEFINE x == ItemsOf(p)
<1>9. /\ Len(x) \in Nat
      /\ \A i \in 1 .. Len(x) : x[i] \in X
  <2>1. x \in Seq(X)
    BY <1>8
  <2>. HIDE DEF x
  <2>. QED
    BY <2>1
<1>10. \A i \in 1 .. Len(x) : x[i].kind \in PackageKind /\ x[i].item \in Item
  <2>. HIDE DEF x
  <2>. QED
    BY <1>9 DEF X
<1>. QED
  BY <1>2, <1>8, <1>9, <1>10 DEF m

(* The recursion over the names has a solution, so Known is one. *)
LEMMA KnownRecursion ==
  ASSUME NEW p \in Payload, NEW decide
  PROVE  /\ Known(p, decide)[0] = [k \in PackageKind |-> LowerIn(workspace, k)]
         /\ \A i \in 1 .. Len(ItemsOf(p)) :
               Known(p, decide)[i] =
                   WithName(Known(p, decide)[i - 1],
                            PlanItem(Known(p, decide)[i - 1], decide, ItemsOf(p)[i]))
<1>. DEFINE x == ItemsOf(p)
            n == Len(ItemsOf(p))
            first == [k \in PackageKind |-> LowerIn(workspace, k)]
            Then(names, i) == WithName(names, PlanItem(names, decide, x[i]))
            Body(f, m) == [i \in 0 .. m |-> IF i = 0 THEN first ELSE Then(f[i - 1], i)]
            T == {m \in 0 .. n : \E f : f = Body(f, m)}
<1>1. n \in Nat
  BY ItemsShape
<1>2. Known(p, decide) = CHOOSE f : f = Body(f, n)
  BY DEF Known
<1>. HIDE DEF Then, x, n, first
<1>3. 0 \in T
  <2>. DEFINE f == [i \in {0} |-> first]
  <2>1. f = Body(f, 0)
    OBVIOUS
  <2>2. 0 \in 0 .. n
    BY <1>1
  <2>. HIDE DEF f, Body
  <2>. QED
    BY <2>1, <2>2
<1>4. ASSUME NEW m \in 0 .. n - 1, m \in T PROVE m + 1 \in T
  <2>1. PICK f : f = Body(f, m)
    BY <1>4
  <2>. DEFINE g == [i \in 0 .. m + 1 |-> IF i = m + 1 THEN Then(f[m], m + 1) ELSE f[i]]
  <2>2. \A i \in 0 .. m : g[i] = f[i]
    OBVIOUS
  <2>3. \A i \in 0 .. m : f[i] = IF i = 0 THEN first ELSE Then(f[i - 1], i)
    BY <2>1
  <2>4. \A i \in 0 .. m + 1 : g[i] = IF i = 0 THEN first ELSE Then(g[i - 1], i)
    <3>1. g[m + 1] = Then(g[m], m + 1) /\ m + 1 # 0
      BY <2>2
    <3>2. \A i \in 1 .. m : g[i] = Then(g[i - 1], i)
      BY <2>2, <2>3
    <3>3. g[0] = first
      BY <2>2, <2>3
    <3>. HIDE DEF g
    <3>. QED
      BY <3>1, <3>2, <3>3
  <2>5. g = Body(g, m + 1)
    <3>1. g = [i \in 0 .. m + 1 |-> g[i]]
      OBVIOUS
    <3>. HIDE DEF g
    <3>. QED
      BY <2>4, <3>1
  <2>6. m + 1 \in 0 .. n
    BY <1>1
  <2>. HIDE DEF g, Body
  <2>. QED
    BY <2>5, <2>6
<1>5. n \in T
  <2>. HIDE DEF T
  <2>1. 0 .. n \subseteq T
    BY <1>1, <1>3, <1>4, StepByStep
  <2>. QED
    BY <1>1, <2>1
<1>6. Known(p, decide) = Body(Known(p, decide), n)
  <2>1. \E f : f = Body(f, n)
    BY <1>5
  <2>. HIDE DEF Body
  <2>. QED
    BY <1>2, <2>1
<1>7. /\ Known(p, decide)[0] = first
      /\ \A i \in 1 .. n : Known(p, decide)[i] = Then(Known(p, decide)[i - 1], i)
  BY <1>1, <1>6
<1>. QED
  BY <1>7 DEF Then, x, n, first

(* the working copy before anything is applied *)
Beginning(listed) ==
    [rows |-> workspace, byName |-> {r.id : r \in listed}, next |-> nextId, refs |-> <<>>,
     failed |-> IF sshAccess = "gone" THEN "gone" ELSE "none"]

(* And so has the recursion over the steps of a plan. *)
LEMMA AppliedRecursion ==
  ASSUME NEW plan, Len(plan) \in Nat, NEW listed
  PROVE  /\ Applied(plan, listed)[0] = Beginning(listed)
         /\ \A i \in 1 .. Len(plan) :
               Applied(plan, listed)[i] = ApplyStep(Applied(plan, listed)[i - 1], plan[i])
<1>. DEFINE n == Len(plan)
            first == Beginning(listed)
            w == Applied(plan, listed)
            Body(f, m) == [i \in 0 .. m |-> IF i = 0 THEN first
                                            ELSE ApplyStep(f[i - 1], plan[i])]
            T == {m \in 0 .. n : \E f : f = Body(f, m)}
<1>1. n \in Nat
  OBVIOUS
<1>2. w = CHOOSE f : f = Body(f, n)
  BY DEF Applied, Beginning
<1>. HIDE DEF n, first, w
<1>3. 0 \in T
  <2>. DEFINE f == [i \in {0} |-> first]
  <2>1. f = Body(f, 0)
    OBVIOUS
  <2>2. 0 \in 0 .. n
    BY <1>1
  <2>. HIDE DEF f, Body
  <2>. QED
    BY <2>1, <2>2
<1>4. ASSUME NEW m \in 0 .. n - 1, m \in T PROVE m + 1 \in T
  <2>1. PICK f : f = Body(f, m)
    BY <1>4
  <2>. DEFINE g == [i \in 0 .. m + 1 |-> IF i = m + 1 THEN ApplyStep(f[m], plan[m + 1])
                                         ELSE f[i]]
  <2>2. \A i \in 0 .. m : g[i] = f[i]
    OBVIOUS
  <2>3. \A i \in 0 .. m : f[i] = IF i = 0 THEN first ELSE ApplyStep(f[i - 1], plan[i])
    BY <2>1
  <2>4. \A i \in 0 .. m + 1 : g[i] = IF i = 0 THEN first ELSE ApplyStep(g[i - 1], plan[i])
    <3>1. g[m + 1] = ApplyStep(g[m], plan[m + 1]) /\ m + 1 # 0
      BY <2>2
    <3>2. \A i \in 1 .. m : g[i] = ApplyStep(g[i - 1], plan[i])
      BY <2>2, <2>3
    <3>3. g[0] = first
      BY <2>2, <2>3
    <3>. HIDE DEF g
    <3>. QED
      BY <3>1, <3>2, <3>3
  <2>5. g = Body(g, m + 1)
    <3>1. g = [i \in 0 .. m + 1 |-> g[i]]
      OBVIOUS
    <3>. HIDE DEF g
    <3>. QED
      BY <2>4, <3>1
  <2>6. m + 1 \in 0 .. n
    BY <1>1
  <2>. HIDE DEF g, Body
  <2>. QED
    BY <2>5, <2>6
<1>5. n \in T
  <2>. HIDE DEF T
  <2>1. 0 .. n \subseteq T
    BY <1>1, <1>3, <1>4, StepByStep
  <2>. QED
    BY <1>1, <2>1
<1>6. w = Body(w, n)
  <2>1. \E f : f = Body(f, n)
    BY <1>5
  <2>. HIDE DEF Body
  <2>. QED
    BY <1>2, <2>1
<1>7. w[0] = first /\ \A i \in 1 .. n : w[i] = ApplyStep(w[i - 1], plan[i])
  BY <1>1, <1>6
<1>. QED
  BY <1>7 DEF n, first, w

-----------------------------------------------------------------------------
(***************************************************************************)
(* Planning and applying, step by step side by side: while nothing failed, *)
(* the names the plan knew after i items are those of the working copy     *)
(* after i steps.                                                          *)
(***************************************************************************)
ToldToOverwrite(decide, r) ==
    /\ <<r.kind, Lower(r.name)>> \in DOMAIN decide
    /\ decide[<<r.kind, Lower(r.name)>>] = "overwrite"

(* the first i steps of a plan brought their rows, which are now in w *)
Here(plan, w, s) ==
    \E r \in w.rows :
        /\ r.kind = s.kind /\ r.from = s.item.name /\ r.name = s.target
        /\ s.kind = "tunnel" =>
              \E h \in HostsIn(w.rows) :
                  h.id = r.host /\ Lower(h.name) = Lower(plan[s.item.ref].target)

Replaced(plan, j, i) ==
    \E l \in j + 1 .. i : /\ plan[l].action = "overwrite"
                          /\ plan[l].kind = plan[j].kind
                          /\ Lower(plan[l].target) = Lower(plan[j].target)

Landing(plan, w, i) ==
    \A j \in 1 .. i :
        plan[j].action = "skip" \/ Replaced(plan, j, i) \/ Here(plan, w, plan[j])

(* the refs are the hosts of the first steps *)
RefsNamed(plan, w, i, hosts) ==
    /\ i <= hosts => Len(w.refs) = i
    /\ \A m \in DOMAIN w.refs :
          \E h \in HostsIn(w.rows) :
              h.id = w.refs[m] /\ Lower(h.name) = Lower(plan[m].target)

OnTheWay(decide, plan, names, w, i, hosts) ==
    /\ InStep(w, names)
    /\ \A r \in workspace : r \in w.rows \/ ToldToOverwrite(decide, r)
    /\ RefsNamed(plan, w, i, hosts)
    /\ Landing(plan, w, i)
    /\ Limited(workspace, w.rows)
    /\ HasRowsAlike(w.rows) => HasRowsAlike(workspace)

Side(decide, plan, names, w, i, hosts) ==
    /\ IsWorking(w)
    /\ w.failed \in {"none", "invalid", "limit", "collision", "gone"}
    /\ w.failed = "collision" => HasRowsAlike(workspace)
    /\ w.failed = "none" => OnTheWay(decide, plan, names, w, i, hosts)

(* an overwriting step was told to *)
LEMMA OverwritesAsTold ==
  ASSUME NEW names, NEW decide, NEW x, PlanItem(names, decide, x).action = "overwrite"
  PROVE  /\ <<x.kind, Lower(x.item.name)>> \in DOMAIN decide
         /\ decide[<<x.kind, Lower(x.item.name)>>] = "overwrite"
<1>1. Resolution(names, decide, x) = "overwrite"
  BY DEF PlanItem
<1>. QED
  BY <1>1 DEF Resolution

(* What one more step does to rows that are there. *)
LEMMA RowsStayHere ==
  ASSUME NEW w, NEW names, NEW v, NEW plan, NEW s, Planned(names, s),
         Effect(w, names, s, v), NEW t, Here(plan, w, t)
  PROVE  \/ Here(plan, v, t)
         \/ /\ s.action = "overwrite" /\ s.kind = t.kind
            /\ Lower(s.target) = Lower(t.target)
<1>1. PICK r \in w.rows :
          /\ r.kind = t.kind /\ r.from = t.item.name /\ r.name = t.target
          /\ t.kind = "tunnel" =>
              \E h \in HostsIn(w.rows) :
                  h.id = r.host /\ Lower(h.name) = Lower(plan[t.item.ref].target)
  BY DEF Here
<1>2. t.kind = "tunnel" =>
          \E h \in HostsIn(v.rows) :
              h.id = r.host /\ Lower(h.name) = Lower(plan[t.item.ref].target)
  BY <1>1 DEF Effect, KeepsHosts
<1>3. \/ r \in v.rows
      \/ s.action = "overwrite" /\ r.kind = s.kind /\ Lower(r.name) = Lower(s.item.name)
  BY DEF Effect, KeepsOthers
<1>4. s.action = "overwrite" => s.target = s.item.name
  BY DEF Planned
<1>. QED
  BY <1>1, <1>2, <1>3, <1>4 DEF Here

LEMMA LandingGoesOn ==
  ASSUME NEW w, NEW names, NEW v, NEW plan, NEW i \in Nat, NEW hosts,
         Planned(names, plan[i + 1]), Effect(w, names, plan[i + 1], v),
         RefsNamed(plan, w, i, hosts), Landing(plan, w, i)
  PROVE  Landing(plan, v, i + 1)
<1>. DEFINE s == plan[i + 1]
<1>1. SUFFICES ASSUME NEW j \in 1 .. i + 1
               PROVE  \/ plan[j].action = "skip"
                      \/ Replaced(plan, j, i + 1)
                      \/ Here(plan, v, plan[j])
  BY DEF Landing
<1>2. CASE j = i + 1
  <2>1. SUFFICES ASSUME s.action # "skip" PROVE Here(plan, v, s)
    BY <1>2
  <2>2. PICK r \in v.rows :
            /\ r.kind = s.kind /\ r.from = s.item.name /\ r.name = s.target
            /\ s.kind = "tunnel" =>
                  s.item.ref \in DOMAIN w.refs /\ r.host = w.refs[s.item.ref]
    BY <2>1 DEF Effect, Brings
  <2>3. ASSUME s.kind = "tunnel"
        PROVE  \E h \in HostsIn(v.rows) :
                   h.id = r.host /\ Lower(h.name) = Lower(plan[s.item.ref].target)
    <3>1. PICK h \in HostsIn(w.rows) :
              h.id = w.refs[s.item.ref] /\ Lower(h.name) = Lower(plan[s.item.ref].target)
      BY <2>2, <2>3 DEF RefsNamed
    <3>. QED
      BY <2>2, <2>3, <3>1 DEF Effect, KeepsHosts
  <2>. HIDE DEF s
  <2>. QED
    BY <2>2, <2>3 DEF Here
<1>3. CASE j # i + 1
  <2>1. j \in 1 .. i
    BY <1>3
  <2>2. CASE plan[j].action = "skip"
    BY <2>2
  <2>3. CASE Replaced(plan, j, i)
    BY <2>1, <2>3 DEF Replaced
  <2>4. CASE Here(plan, w, plan[j])
    <3>1. \/ Here(plan, v, plan[j])
          \/ /\ s.action = "overwrite" /\ s.kind = plan[j].kind
             /\ Lower(s.target) = Lower(plan[j].target)
      BY <2>4, RowsStayHere
    <3>2. i + 1 \in j + 1 .. i + 1
      BY <2>1
    <3>. QED
      BY <3>1, <3>2 DEF Replaced
  <2>. QED
    BY <2>1, <2>2, <2>3, <2>4 DEF Landing
<1>. QED
  BY <1>2, <1>3

LEMMA RefsGoOn ==
  ASSUME NEW w, NEW names, NEW v, NEW plan, NEW i \in Nat, NEW hosts \in Nat,
         Effect(w, names, plan[i + 1], v), InStep(w, names),
         plan[i + 1].kind = "host" <=> i + 1 <= hosts,
         RefsNamed(plan, w, i, hosts)
  PROVE  RefsNamed(plan, v, i + 1, hosts)
<1>. DEFINE s == plan[i + 1]
<1>1. ASSUME NEW m \in DOMAIN w.refs
      PROVE  \E h \in HostsIn(v.rows) :
                 h.id = w.refs[m] /\ Lower(h.name) = Lower(plan[m].target)
  BY DEF RefsNamed, Effect, KeepsHosts
<1>2. CASE s.kind = "host"
  <2>1. PICK h \in HostsIn(v.rows) :
            Lower(h.name) = Lower(s.target) /\ v.refs = Append(w.refs, h.id)
    BY <1>2 DEF Effect, Refers
  <2>2. i <= hosts /\ w.refs \in Seq(Nat) /\ h.id \in Nat
    BY <1>2 DEF Effect, InStep, InOrder, HostsIn
  <2>3. Len(w.refs) = i
    BY <2>2 DEF RefsNamed
  <2>. DEFINE refs == w.refs
              id == h.id
  <2>4. /\ Len(Append(refs, id)) = i + 1
        /\ \A m \in DOMAIN Append(refs, id) :
              \/ m \in DOMAIN refs /\ Append(refs, id)[m] = refs[m]
              \/ m = i + 1 /\ Append(refs, id)[m] = id
    <3>1. refs \in Seq(Nat) /\ id \in Nat /\ Len(refs) = i
      BY <2>2, <2>3
    <3>. HIDE DEF refs, id
    <3>. QED
      BY <3>1
  <2>5. \A m \in DOMAIN v.refs :
            \E g \in HostsIn(v.rows) :
                g.id = v.refs[m] /\ Lower(g.name) = Lower(plan[m].target)
    BY <1>1, <2>1, <2>4
  <2>. QED
    BY <2>1, <2>4, <2>5 DEF RefsNamed
<1>3. CASE s.kind # "host"
  <2>1. v.refs = w.refs
    BY <1>3 DEF Effect, Refers
  <2>. QED
    BY <1>1, <1>3, <2>1 DEF RefsNamed
<1>. QED
  BY <1>2, <1>3

(* The account's rows and their names before anything is applied. *)
LEMMA FirstSide ==
  ASSUME InOrder(workspace, nextId), NEW decide, NEW plan, NEW hosts \in Nat,
         NEW listed \in Listings
  PROVE  Side(decide, plan, [k \in PackageKind |-> LowerIn(workspace, k)],
              Beginning(listed), 0, hosts)
<1>. DEFINE w == Beginning(listed)
            names == [k \in PackageKind |-> LowerIn(workspace, k)]
<1>1. /\ IsWorking(w) /\ w.failed \in {"none", "gone"}
      /\ w.rows = workspace /\ w.next = nextId /\ w.refs = <<>>
      /\ w.byName = {r.id : r \in listed}
  BY DEF IsWorking, Beginning
<1>2. names = [k \in PackageKind |-> LowerIn(w.rows, k)]
  BY <1>1
<1>. HIDE DEF w, names
<1>3. ByName(workspace, w.byName)
  <2>1. listed \subseteq workspace
    BY DEF Listings
  <2>2. \A r \in workspace : r.id \in w.byName => r \in listed
    BY <1>1, <2>1 DEF InOrder
  <2>3. \A r \in workspace : \E q \in workspace : q.id \in w.byName /\ Alike(q, r)
    <3>1. \A q \in listed : q.id \in w.byName
      BY <1>1
    <3>. QED
      BY <2>1, <3>1 DEF Listings
  <2>. QED
    BY <2>2, <2>3 DEF ByName, Listings
<1>4. w.refs \in Seq(Nat) /\ DOMAIN w.refs = {} /\ Len(w.refs) = 0
  BY <1>1
<1>5. InStep(w, names)
  BY <1>3, <1>1, <1>2, <1>4 DEF InStep
<1>6. RefsNamed(plan, w, 0, hosts) /\ Landing(plan, w, 0)
  BY <1>4 DEF RefsNamed, Landing
<1>7. Limited(workspace, w.rows)
  BY <1>1, LimitedSelf
<1>8. Side(decide, plan, names, w, 0, hosts)
  BY <1>1, <1>5, <1>6, <1>7 DEF Side, OnTheWay
<1>. QED
  BY <1>8 DEF w, names

(* From one step to the next. *)
LEMMA NextSide ==
  ASSUME IsFiniteSet(workspace), NEW decide, Decides(decide), NEW plan, NEW names,
         NEW w, NEW i \in Nat,
         NEW hosts \in Nat, Side(decide, plan, names, w, i, hosts),
         NEW x, x.kind \in PackageKind, x.item \in Item,
         x.kind = "host" <=> i + 1 <= hosts,
         plan[i + 1] = PlanItem(names, decide, x), plan[i + 1].action # "error"
  PROVE  Side(decide, plan, WithName(names, plan[i + 1]), ApplyStep(w, plan[i + 1]),
              i + 1, hosts)
<1>. DEFINE s == plan[i + 1]
            v == ApplyStep(w, s)
<1>1. Planned(names, s)
  BY PlanItemIsPlanned
<1>2. s.kind = x.kind /\ s.item = x.item
  BY DEF PlanItem
<1>3. CASE w.failed # "none"
  <2>1. v = w
    BY <1>3 DEF ApplyStep
  <2>. QED
    BY <1>3, <2>1 DEF Side
<1>4. CASE w.failed = "none"
  <2>1. IsWorking(w) /\ OnTheWay(decide, plan, names, w, i, hosts)
    BY <1>4 DEF Side
  <2>2. Goes(w, names, s, v)
    <3>. HIDE DEF s
    <3>. QED
      BY <1>1, <1>4, <2>1, StepGoes DEF OnTheWay
  <2>3. SUFFICES ASSUME Effect(w, names, s, v)
                 PROVE  OnTheWay(decide, plan, WithName(names, s), v, i + 1, hosts)
    <3>1. HasRowsAlike(w.rows) => HasRowsAlike(workspace)
      BY <2>1 DEF OnTheWay
    <3>. QED
      BY <2>2, <3>1 DEF Goes, Side
  <2>4. Landing(plan, v, i + 1)
    BY <1>1, <2>1, <2>3, LandingGoesOn DEF OnTheWay
  <2>5. RefsNamed(plan, v, i + 1, hosts)
    BY <1>2, <2>1, <2>3, RefsGoOn DEF OnTheWay
  <2>6. ASSUME NEW r \in workspace
        PROVE  r \in v.rows \/ ToldToOverwrite(decide, r)
    <3>1. CASE r \in w.rows
      <4>1. \/ r \in v.rows
            \/ /\ s.action = "overwrite" /\ r.kind = x.kind
               /\ Lower(r.name) = Lower(x.item.name)
        BY <1>2, <2>3, <3>1 DEF Effect, KeepsOthers
      <4>. QED
        BY <4>1, OverwritesAsTold DEF ToldToOverwrite
    <3>2. CASE r \notin w.rows
      BY <2>1, <3>2 DEF OnTheWay
    <3>. QED
      BY <3>1, <3>2
  <2>7. Limited(workspace, v.rows)
    <3>1. /\ IsFiniteSet(w.rows) /\ IsFiniteSet(v.rows)
          /\ Limited(workspace, w.rows) /\ Limited(w.rows, v.rows)
      BY <2>1, <2>3 DEF OnTheWay, Effect, InStep, InOrder
    <3>. HIDE DEF v
    <3>. QED
      BY <3>1, LimitedOn
  <2>8. HasRowsAlike(v.rows) => HasRowsAlike(workspace)
    BY <2>1, <2>3 DEF OnTheWay, Effect
  <2>. QED
    BY <2>3, <2>4, <2>5, <2>6, <2>7, <2>8 DEF OnTheWay, Effect
<1>. QED
  BY <1>3, <1>4

(* Every step of a decided plan, side by side with planning it. *)
LEMMA SideBySide ==
  ASSUME InOrder(workspace, nextId), NEW p \in Payload, NEW decide, Decides(decide),
         NEW listed \in Listings, ~Undecided(Plan(p, decide))
  PROVE  /\ Len(Plan(p, decide)) \in Nat
         /\ Side(decide, Plan(p, decide), Known(p, decide)[Len(Plan(p, decide))],
                 Applied(Plan(p, decide), listed)[Len(Plan(p, decide))],
                 Len(Plan(p, decide)), Len(p["host"]))
<1>. DEFINE x == ItemsOf(p)
            n == Len(x)
            K == Known(p, decide)
            plan == Plan(p, decide)
            w == Applied(plan, listed)
            hosts == Len(p["host"])
            T == {i \in 0 .. n : Side(decide, plan, K[i], w[i], i, hosts)}
<1>1. /\ n \in Nat /\ hosts \in Nat
      /\ \A i \in 1 .. n : /\ x[i].kind \in PackageKind /\ x[i].item \in Item
                           /\ x[i].kind = "host" <=> i <= hosts
  BY ItemsShape
<1>2. plan = [i \in 1 .. n |-> PlanItem(K[i - 1], decide, x[i])]
  BY DEF Plan
<1>3. Len(plan) = n /\ DOMAIN plan = 1 .. n
  <2>. HIDE DEF n, plan, x, K
  <2>. QED
    BY <1>1, <1>2
<1>4. \A i \in 1 .. n : plan[i] = PlanItem(K[i - 1], decide, x[i]) /\ plan[i].action # "error"
  <2>1. \A i \in 1 .. n : plan[i] = PlanItem(K[i - 1], decide, x[i])
    BY <1>2
  <2>. QED
    BY <1>3, <2>1 DEF Undecided
<1>5. /\ K[0] = [k \in PackageKind |-> LowerIn(workspace, k)]
      /\ \A i \in 1 .. n : K[i] = WithName(K[i - 1], PlanItem(K[i - 1], decide, x[i]))
  BY KnownRecursion
<1>6. /\ w[0] = Beginning(listed)
      /\ \A i \in 1 .. n : w[i] = ApplyStep(w[i - 1], plan[i])
  <2>. HIDE DEF plan
  <2>. QED
    BY <1>1, <1>3, AppliedRecursion
<1>. HIDE DEF x, n, K, plan, w, hosts
<1>7. 0 \in T
  <2>1. Side(decide, plan, K[0], w[0], 0, hosts)
    BY <1>1, <1>5, <1>6, FirstSide
  <2>. QED
    BY <1>1, <2>1
<1>8. ASSUME NEW i \in 0 .. n - 1, i \in T PROVE i + 1 \in T
  <2>1. Side(decide, plan, K[i], w[i], i, hosts)
    BY <1>8
  <2>2. i \in Nat /\ i + 1 \in 1 .. n /\ (i + 1) - 1 = i
    BY <1>1
  <2>3. /\ plan[i + 1] = PlanItem(K[i], decide, x[i + 1]) /\ plan[i + 1].action # "error"
        /\ K[i + 1] = WithName(K[i], plan[i + 1])
        /\ w[i + 1] = ApplyStep(w[i], plan[i + 1])
    BY <1>4, <1>5, <1>6, <2>2
  <2>4. /\ x[i + 1].kind \in PackageKind /\ x[i + 1].item \in Item
        /\ x[i + 1].kind = "host" <=> i + 1 <= hosts
    BY <1>1, <2>2
  <2>5. Side(decide, plan, K[i + 1], w[i + 1], i + 1, hosts)
    <3>. DEFINE y == x[i + 1]
    <3>. HIDE DEF y
    <3>1. Side(decide, plan, WithName(K[i], plan[i + 1]), ApplyStep(w[i], plan[i + 1]),
               i + 1, hosts)
      BY <1>1, <2>1, <2>2, <2>3, <2>4, NextSide DEF y, InOrder
    <3>. QED
      BY <2>3, <3>1
  <2>. QED
    BY <2>2, <2>5
<1>9. n \in T
  <2>. HIDE DEF T
  <2>1. 0 .. n \subseteq T
    BY <1>1, <1>7, <1>8, StepByStep
  <2>. QED
    BY <1>1, <2>1
<1>10. Len(plan) \in Nat /\ Side(decide, plan, K[Len(plan)], w[Len(plan)], Len(plan), hosts)
  BY <1>1, <1>3, <1>9
<1>. QED
  BY <1>10 DEF K, plan, w, hosts

-----------------------------------------------------------------------------
(* The behaviours *)

(***************************************************************************)
(* The inductive invariant: the tables in order, the package in progress   *)
(* a package, its decisions decisions.                                     *)
(***************************************************************************)
JobSound == job # NoJob => job.payload \in Payload /\ Decides(job.decide)

ImportInv == InOrder(workspace, nextId) /\ JobSound

(* FinishImport, all of it, from one step to the next. *)
LEMMA FinishOutcome ==
  ASSUME ImportInv, FinishImport
  PROVE  \/ /\ outcome' \notin {"done", "missing"}
            /\ outcome' = "collision" => HasRowsAlike(workspace)
            /\ UNCHANGED <<workspace, nextId>>
         \/ \E w, names :
               /\ OnTheWay(job.decide, Plan(job.payload, job.decide), names, w,
                           Len(Plan(job.payload, job.decide)), Len(job.payload["host"]))
               /\ Len(Plan(job.payload, job.decide)) \in Nat
               /\ outcome' = "done"
               /\ workspace' = w.rows /\ nextId' = w.next
<1>1. PICK listed \in Listings :
          LET plan == Plan(job.payload, job.decide)
              result == Applied(plan, listed)[Len(plan)]
              why == IF Undecided(plan) THEN "undecided" ELSE result.failed
          IN /\ outcome' = IF why = "none" THEN "done" ELSE why
             /\ workspace' = IF why = "none" THEN result.rows ELSE workspace
             /\ nextId' = IF why = "none" THEN result.next ELSE nextId
  BY DEF FinishImport
<1>. DEFINE plan == Plan(job.payload, job.decide)
            w == Applied(plan, listed)[Len(plan)]
            names == Known(job.payload, job.decide)[Len(plan)]
            why == IF Undecided(plan) THEN "undecided" ELSE w.failed
<1>2. /\ outcome' = IF why = "none" THEN "done" ELSE why
      /\ workspace' = IF why = "none" THEN w.rows ELSE workspace
      /\ nextId' = IF why = "none" THEN w.next ELSE nextId
  BY <1>1
<1>3. job.payload \in Payload /\ Decides(job.decide)
  BY DEF FinishImport, ImportInv, JobSound
<1>4. CASE Undecided(plan)
  BY <1>2, <1>4
<1>5. CASE ~Undecided(plan)
  <2>1. /\ Len(plan) \in Nat
        /\ Side(job.decide, plan, names, w, Len(plan), Len(job.payload["host"]))
    BY <1>3, <1>5, SideBySide DEF ImportInv
  <2>2. why = w.failed
    BY <1>5
  <2>. HIDE DEF plan, w, names, why
  <2>3. /\ w.failed \in {"none", "invalid", "limit", "collision", "gone"}
        /\ w.failed = "collision" => HasRowsAlike(workspace)
    BY <2>1 DEF Side
  <2>4. CASE w.failed = "none"
    <3>1. OnTheWay(job.decide, plan, names, w, Len(plan), Len(job.payload["host"]))
      BY <2>1, <2>4 DEF Side
    <3>2. outcome' = "done" /\ workspace' = w.rows /\ nextId' = w.next
      BY <1>2, <2>2, <2>4
    <3>. QED
      BY <2>1, <3>1, <3>2 DEF plan
  <2>5. CASE w.failed # "none"
    BY <1>2, <2>2, <2>3, <2>5
  <2>. QED
    BY <2>4, <2>5
<1>. QED
  BY <1>4, <1>5

LEMMA ImportStarts == ImportInit => ImportInv
<1>1. SUFFICES ASSUME ImportInit PROVE ImportInv
  OBVIOUS
<1>2. workspace = {} /\ HostsIn(workspace) = {}
  BY <1>1 DEF ImportInit, HostsIn
<1>3. InOrder(workspace, nextId)
  BY <1>1, <1>2, FS_EmptySet DEF ImportInit, InOrder
<1>. QED
  BY <1>1, <1>3 DEF ImportInit, ImportInv, JobSound

(* Rows may go, if a host takes its tunnels with it. *)
LEMMA RemoveKeepsOrder ==
  ASSUME NEW R, NEW next, InOrder(R, next), NEW S, S \subseteq R,
         \A t \in S : t.kind = "tunnel" => HostOf(S, t)
  PROVE  InOrder(S, next)
<1>1. IsFiniteSet(S)
  BY FS_Subset DEF InOrder
<1>2. \A h \in HostsIn(S) : h.enabled => h.secret
  BY DEF InOrder, HostsIn
<1>. QED
  BY <1>1, <1>2 DEF InOrder

(* Every step keeps the workspace in order, imports or not. *)
LEMMA ImportStep == ImportInv /\ [ImportNext]_importVars => ImportInv'
<1>1. SUFFICES ASSUME ImportInv, [ImportNext]_importVars PROVE ImportInv'
  OBVIOUS
<1>2. InOrder(workspace, nextId) /\ JobSound
  BY <1>1 DEF ImportInv
<1>3. ASSUME NEW p \in Payload, NEW decide \in Decisions(p), BeginImport(p, decide)
      PROVE  ImportInv'
  <2>1. Decides(decide)
    BY DEF Decisions, Decides
  <2>2. JobSound'
    BY <1>3, <2>1 DEF BeginImport, JobSound
  <2>. QED
    BY <1>2, <1>3, <2>2 DEF BeginImport, ImportInv
<1>4. CASE FinishImport
  <2>1. JobSound'
    BY <1>4 DEF FinishImport, JobSound
  <2>2. InOrder(workspace, nextId)'
    BY <1>1, <1>2, <1>4, FinishOutcome DEF OnTheWay, InStep
  <2>. QED
    BY <2>1, <2>2 DEF ImportInv
<1>5. CASE LoseImport
  BY <1>2, <1>5 DEF LoseImport, ImportInv, JobSound
<1>6. ASSUME NEW k \in PackageKind, NEW name \in OwnName, NEW host \in 0 .. MaxId,
             CreateRow(k, name, host)
      PROVE  ImportInv'
  <2>. DEFINE row == [id |-> nextId, kind |-> k, name |-> name, from |-> Own,
                      host |-> host, secret |-> TRUE, enabled |-> TRUE]
  <2>1. workspace' = workspace \cup {row} /\ nextId' = nextId + 1
    BY <1>6 DEF CreateRow
  <2>2. /\ row.id = nextId /\ row.kind = k /\ row.name = name /\ row.host = host
        /\ row.secret = TRUE
    OBVIOUS
  <2>. HIDE DEF row
  <2>3. Fits(workspace, row)
    BY <1>6, <2>2 DEF CreateRow, Fits, HostOf, HostsIn, RowsOf
  <2>4. row.name \notin NamesIn(workspace, row.kind)
    BY <1>6, <2>2 DEF CreateRow
  <2>5. InOrder(workspace \cup {row}, nextId + 1)
    BY <1>2, <2>2, <2>3, <2>4, AddKeepsOrder
  <2>. QED
    BY <1>2, <1>6, <2>1, <2>5 DEF CreateRow, ImportInv, JobSound
<1>7. ASSUME NEW h \in RowsOf("host"), NEW name \in OwnName, CloneRow(h, name)
      PROVE  ImportInv'
  <2>. DEFINE row == [id |-> nextId, kind |-> "host", name |-> name, from |-> Own,
                      host |-> 0, secret |-> h.secret, enabled |-> h.enabled]
  <2>1. workspace' = workspace \cup {row} /\ nextId' = nextId + 1
    BY <1>7 DEF CloneRow
  <2>2. /\ row.id = nextId /\ row.kind = "host" /\ row.name = name
        /\ row.secret = h.secret /\ row.enabled = h.enabled
    OBVIOUS
  <2>. HIDE DEF row
  <2>3. h \in workspace /\ h \in HostsIn(workspace)
    BY DEF RowsOf, HostsIn
  <2>4. Fits(workspace, row)
    BY <1>2, <2>2, <2>3 DEF InOrder, Fits, PackageKind
  <2>5. row.name \notin NamesIn(workspace, row.kind)
    BY <1>7, <2>2 DEF CloneRow
  <2>6. InOrder(workspace \cup {row}, nextId + 1)
    BY <1>2, <2>2, <2>4, <2>5, AddKeepsOrder
  <2>. QED
    BY <1>2, <1>7, <2>1, <2>6 DEF CloneRow, ImportInv, JobSound
<1>8. ASSUME NEW r \in workspace, NEW name \in OwnName, UpdateRow(r, name)
      PROVE  ImportInv'
  <2>. DEFINE row == [id |-> r.id, kind |-> r.kind, name |-> name, from |-> Own,
                      host |-> r.host, secret |-> TRUE, enabled |-> TRUE]
  <2>1. workspace' = (workspace \ {r}) \cup {row} /\ nextId' = nextId
    BY <1>8 DEF UpdateRow
  <2>2. /\ row.id = r.id /\ row.kind = r.kind /\ row.name = name /\ row.host = r.host
        /\ row.secret = TRUE
    OBVIOUS
  <2>. HIDE DEF row
  <2>3. Fits(workspace, row)
    BY <1>2, <2>2 DEF InOrder, Fits, HostOf
  <2>4. row.name \notin NamesIn(workspace \ {r}, r.kind)
    BY <1>8, <2>2 DEF UpdateRow
  <2>5. InOrder((workspace \ {r}) \cup {row}, nextId)
    BY <1>2, <2>2, <2>3, <2>4, ReplaceKeepsOrder
  <2>. QED
    BY <1>2, <1>8, <2>1, <2>5 DEF UpdateRow, ImportInv, JobSound
<1>9. ASSUME NEW r \in workspace, DeleteRow(r)
      PROVE  ImportInv'
  <2>1. workspace' \subseteq workspace /\ nextId' = nextId
    BY <1>9 DEF DeleteRow
  <2>2. ASSUME NEW t \in workspace', t.kind = "tunnel" PROVE HostOf(workspace', t)
    <3>1. t \in workspace
      BY <2>1
    <3>2. PICK h \in HostsIn(workspace) : h.id = t.host
      BY <1>2, <2>2, <3>1 DEF InOrder, HostOf
    <3>3. h.kind = "host" /\ h \in workspace
      BY <3>2 DEF HostsIn
    <3>4. h # r
      BY <1>9, <2>2, <3>1, <3>2, <3>3 DEF DeleteRow, RowsOf
    <3>5. h \in workspace'
      BY <1>9, <3>3, <3>4 DEF DeleteRow, RowsOf
    <3>. QED
      BY <3>2, <3>3, <3>5 DEF HostOf, HostsIn
  <2>3. InOrder(workspace', nextId)
    BY <1>2, <2>1, <2>2, RemoveKeepsOrder
  <2>. QED
    BY <1>2, <1>9, <2>1, <2>3 DEF DeleteRow, ImportInv, JobSound
<1>10. ASSUME NEW enabled \in BOOLEAN, SwitchSSH(enabled)
      PROVE  ImportInv'
  BY <1>2, <1>10 DEF SwitchSSH, ImportInv, JobSound
<1>11. CASE LoseAccount
  <2>1. InOrder({}, nextId)
    BY <1>2, RemoveKeepsOrder
  <2>. QED
    BY <1>2, <1>11, <2>1 DEF LoseAccount, ImportInv, JobSound
<1>12. CASE UNCHANGED importVars
  BY <1>2, <1>12 DEF importVars, ImportInv, JobSound
<1>. QED
  BY <1>1, <1>3, <1>4, <1>5, <1>6, <1>7, <1>8, <1>9, <1>10, <1>11,
     <1>12 DEF ImportNext

LEMMA ImportInvariant == ImportSpec => []ImportInv
BY ImportStarts, ImportStep, PTL DEF ImportSpec

(* An import that ended did so for an outcome of FinishOutcome. *)
LEMMA ImportEnds ==
  ASSUME [ImportNext]_importVars, job # NoJob, job' = NoJob
  PROVE  \/ FinishImport
         \/ LoseImport /\ outcome' = "lost" /\ workspace' = workspace
<1>1. FinishImport \/ LoseImport
  BY DEF ImportNext, importVars, BeginImport, CreateRow, CloneRow, UpdateRow, DeleteRow,
         SwitchSSH, LoseAccount
<1>. QED
  BY <1>1 DEF LoseImport

(***************************************************************************)
(* planSSHWorkspaceImport and applyWorkspaceImportPlan: no plan counts on  *)
(* a row that is not there; and one takes a name that is taken only in an  *)
(* account with two rows whose names differ to the database (NOCASE) and   *)
(* not to the plan (toLocaleLowerCase) - whatever the package, the         *)
(* decisions, and the requests during the await.                           *)
(***************************************************************************)
THEOREM PlansExecuteUnlessRowsAreAlike == ImportSpec => PlansAreExecutable
<1>1. ASSUME ImportInv, [ImportNext]_importVars, job # NoJob, job' = NoJob
      PROVE  outcome' # "missing" /\ (outcome' = "collision" => HasRowsAlike(workspace))
  BY <1>1, ImportEnds, FinishOutcome
<1>2. ImportInv /\ [ImportNext]_importVars =>
          [job # NoJob /\ job' = NoJob =>
             /\ outcome' # "missing"
             /\ outcome' = "collision" => HasRowsAlike(workspace)]_importVars
  BY <1>1
<1>. QED
  BY <1>2, ImportInvariant, PTL DEF ImportSpec, PlansAreExecutable

(***************************************************************************)
(* After any number of imports, creations, clones, edits and deletions a   *)
(* tunnel has its host, and an enabled host has its credential.            *)
(***************************************************************************)
THEOREM WorkspaceStaysSound == ImportSpec => []WorkspaceIsSound
<1>1. ImportInv => WorkspaceIsSound
  <2>1. SUFFICES ASSUME InOrder(workspace, nextId) PROVE WorkspaceIsSound
    BY DEF ImportInv
  <2>2. RowsOf("host") = HostsIn(workspace)
    BY DEF RowsOf, HostsIn
  <2>. QED
    BY <2>1, <2>2 DEF InOrder, HostOf, RowsOf, WorkspaceIsSound
<1>. QED
  BY <1>1, ImportInvariant, PTL

(***************************************************************************)
(* The transaction of applyWorkspaceImport: an import that fails changes   *)
(* no row, and one that succeeds only those it was told to overwrite.      *)
(***************************************************************************)
THEOREM ImportsTouchWhatTheyWereTold == ImportSpec => ImportTouchesOnlyOverwritten
<1>1. ASSUME ImportInv, [ImportNext]_importVars, job # NoJob, job' = NoJob
      PROVE  /\ outcome' # "done" => workspace' = workspace
             /\ \A r \in workspace : r \in workspace' \/ Overwritten(r)
  BY <1>1, ImportEnds, FinishOutcome DEF OnTheWay, ToldToOverwrite, Overwritten
<1>2. ImportInv /\ [ImportNext]_importVars =>
          [job # NoJob /\ job' = NoJob =>
             /\ outcome' # "done" => workspace' = workspace
             /\ \A r \in workspace : r \in workspace' \/ Overwritten(r)]_importVars
  BY <1>1
<1>. QED
  BY <1>2, ImportInvariant, PTL DEF ImportSpec, ImportTouchesOnlyOverwritten

(***************************************************************************)
(* applyWorkspaceImportPlan: a successful import brings every item it was  *)
(* not told to skip under the name it planned, tunnels on the host their   *)
(* hostRef names, unless a later item was told to replace it; and it adds  *)
(* no host past the limit, even if clones have taken the account there.    *)
(***************************************************************************)
THEOREM ImportsAlwaysLand == ImportSpec => ImportLands
<1>. DEFINE plan == Plan(job.payload, job.decide)
            Lands(i) == \/ plan[i].action = "skip"
                        \/ Superseded(plan, i)
                        \/ Landed(plan, plan[i])
<1>1. ASSUME ImportInv, [ImportNext]_importVars, job # NoJob, job' = NoJob,
             outcome' = "done"
      PROVE  WithinLimit /\ \A i \in DOMAIN plan : Lands(i)
  <2>1. FinishImport
    BY <1>1, ImportEnds
  <2>2. PICK w, names :
            /\ OnTheWay(job.decide, plan, names, w, Len(plan), Len(job.payload["host"]))
            /\ Len(plan) \in Nat
            /\ workspace' = w.rows
    BY <1>1, <2>1, FinishOutcome
  <2>3. DOMAIN plan = 1 .. Len(plan)
    <3>1. job.payload \in Payload
      BY <1>1 DEF ImportInv, JobSound
    <3>. DEFINE n == Len(ItemsOf(job.payload))
    <3>2. n \in Nat /\ DOMAIN plan = 1 .. n /\ plan = [j \in 1 .. n |-> plan[j]]
      BY <3>1, ItemsShape DEF Plan
    <3>. HIDE DEF plan, n
    <3>. QED
      BY <3>2
  <2>. HIDE DEF plan
  <2>4. ASSUME NEW i \in DOMAIN plan PROVE Lands(i)
    <3>1. plan[i].action = "skip" \/ Replaced(plan, i, Len(plan)) \/ Here(plan, w, plan[i])
      BY <2>2, <2>3 DEF OnTheWay, Landing
    <3>2. Replaced(plan, i, Len(plan)) => Superseded(plan, i)
      BY DEF Replaced, Superseded
    <3>3. Here(plan, w, plan[i]) => Landed(plan, plan[i])
      BY <2>2 DEF Here, Landed, HostsIn
    <3>. QED
      BY <3>1, <3>2, <3>3
  <2>5. RowsOf("host") = HostsIn(workspace) /\ RowsOf("host")' = HostsIn(w.rows)
    BY <2>2 DEF RowsOf, HostsIn
  <2>6. WithinLimit
    BY <2>2, <2>5 DEF OnTheWay, Limited, WithinLimit
  <2>. QED
    BY <2>4, <2>6
<1>2. ImportInv /\ [ImportNext]_importVars =>
          [job # NoJob /\ job' = NoJob /\ outcome' = "done" =>
             WithinLimit /\ \A i \in DOMAIN plan : Lands(i)]_importVars
  <2>. HIDE DEF plan, Lands
  <2>. QED
    BY <1>1
<1>. QED
  BY <1>2, ImportInvariant, PTL DEF ImportSpec, ImportLands

=============================================================================
