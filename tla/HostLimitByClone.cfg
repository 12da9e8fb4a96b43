SPECIFICATION Spec
CONSTANTS
    Account = {a1}
    Host = {h1, h2}
    Name = {n1, n2}
    Machine = {m1}
    Port = {q1}
    Client = {}
    Legacy = {}
    MaxHosts = 1
    None = None
SYMMETRY Symmetry
INVARIANT
    HostLimit
CHECK_DEADLOCK FALSE
