SPECIFICATION Spec
CONSTANTS
    Account = {a1}
    Host = {h1, h2}
    Name = {n1, n2}
    Machine = {m1, m2}
    Port = {q1}
    Client = {d1}
    Legacy = {h1}
    MaxHosts = 1
    None = None
SYMMETRY Symmetry
INVARIANTS
    TrustedIsActiveRecord
    TrustFollowsAddress
    OnlyClonesExceedLimit
PROPERTY
    HistoryIsAppendOnly
CHECK_DEADLOCK FALSE
