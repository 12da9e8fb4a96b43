SPECIFICATION Spec
CONSTANTS
    Account = {a1}
    Host = {h1, h2}
    Name = {n1, n2}
    Machine = {m1, m2}
    Port = {q1}
    Client = {d1}
    Legacy = {}
    MaxHosts = 2
    None = None
SYMMETRY Symmetry
PROPERTY
    ConfirmedAtItsAddress
CHECK_DEADLOCK FALSE
