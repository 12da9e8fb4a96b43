SPECIFICATION Spec
CONSTANTS
    Prefix <- BasePrefixes
    Name <- RawNames
    MaxBytes = 1
    MaxSize = 2
INVARIANTS
    ConnectionsAreEnded
CHECK_DEADLOCK FALSE
