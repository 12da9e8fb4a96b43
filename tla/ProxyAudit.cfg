SPECIFICATION Spec
CONSTANTS
    Account = {a1, a2}
    Session = {s1, s2}
    Connection = {c1}
    Call = {k1}
    Route = {"download", "upload", "query"}
    NoRef = NoRef
SYMMETRY Symmetry
INVARIANTS
    SuccessIsAudited
    UnauditedAreOrphans
    AuditTellsWhoDidIt
    ListedIsUsable
PROPERTY
    NeverServedOnceDeleted
