SPECIFICATION Spec
CONSTANTS
    Admin = {a1}
    Connection = {c1, c2}
    Kind = {"s3"}
    Name = {n1}
    NoName = NoName
    NoConnection = NoConnection
INVARIANTS
    CredentialsAreDeleted
