SPECIFICATION Spec
CONSTANTS
    Prefix <- BasePrefixes
    Name <- RawNames
    MaxBytes = 1
    MaxSize = 2
INVARIANTS
    QueriesOnlyRead
CHECK_DEADLOCK FALSE
