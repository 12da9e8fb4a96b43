SPECIFICATION BootSpec
CONSTANTS
    Process = {p1, p2}
    Server = p1
    Last = 2
    NoProcess = NoProcess
    Request = {r1}
    MaxPending = 2
INVARIANTS
    FileIsAtAVersion
    ServedKeepTheDatabase
    ServedOnNewest
    HalfDoneIsRedelivered
    LastCommandWins
PROPERTY
    StopsInTheEnd
