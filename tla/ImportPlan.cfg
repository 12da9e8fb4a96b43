SPECIFICATION ImportSpec
CONSTANTS
    Lower <- LowerCase
    Item <- Items
    Payload <- Packages
    OwnName <- OwnNames
    MaxHosts = 2
    MaxSuffix = 4
    MaxId = 3
INVARIANT
    WorkspaceIsSound
PROPERTIES
    PlansAreExecutable
    ImportTouchesOnlyOverwritten
    ImportLands
CHECK_DEADLOCK FALSE
