SPECIFICATION Spec
CONSTANTS
    Account = {a1}
    Id = {i1, i2}
    Name = {n1}
    Migrated = TRUE
    None = None
SYMMETRY Symmetry
INVARIANT
    MethodsHaveCredentials
CHECK_DEADLOCK FALSE
