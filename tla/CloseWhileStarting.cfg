SPECIFICATION Spec
CONSTANTS
    Request = {r1}
INVARIANTS
    NoTimerLeft
CHECK_DEADLOCK FALSE
