SPECIFICATION Spec
CONSTANTS
    Prefix <- BasePrefixes
    Name <- RawNames
    MaxBytes = 1
    MaxSize = 2
INVARIANTS
    SuccessIsDurable
    FailureIsClean
    NothingLeftOpen
    KeysStayInside
    ListingIsComplete
    ListedOpensItself
CHECK_DEADLOCK FALSE
