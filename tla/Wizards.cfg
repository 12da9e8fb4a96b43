SPECIFICATION Spec
CONSTANTS
    Admin = {a1, a2}
    Connection = {c1, c2}
    Kind = {"s3", "mysql"}
    Name = {n1, n2}
    NoName = NoName
    NoConnection = NoConnection
INVARIANTS
    SecretsAreWhole
PROPERTIES
    EditsKeepKind
