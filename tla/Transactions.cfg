SPECIFICATION Spec
CONSTANTS
    Operation <- Operations
    MaxOperations = 4
INVARIANTS
    FailsOnlyForCause
PROPERTY
    ImplementsAtomic
CHECK_DEADLOCK FALSE
