--------------------------- MODULE MCTransactions ---------------------------
(* Transactions over the shapes its methods have. *)
EXTENDS Transactions

Operations == {
    [counted |-> FALSE, body |-> <<"write">>],                              \* updateSSHHost, ...
    [counted |-> FALSE, body |-> <<"open", "write", "write", "close">>],    \* rotateSession, ...
    [counted |-> TRUE,  body |-> <<"open", "write", "write", "close">>],    \* replaceSSHHostFingerprint
    [counted |-> TRUE,  body |-> <<"open", "write", "open", "write", "write", "close",
                                   "write", "close">>] }                    \* an import

=============================================================================
