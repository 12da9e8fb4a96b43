SPECIFICATION Spec
CONSTANTS
    Account = {a1, a2}
    Id = {i1, i2, i3}
    Name = {n1, n2}
    Migrated = TRUE
    None = None
SYMMETRY Symmetry
INVARIANTS
    OwnersAgree
    SecretsStayHome
    HostsCanAuthenticate
CHECK_DEADLOCK FALSE
