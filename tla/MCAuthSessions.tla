---------------------------- MODULE MCAuthSessions ----------------------------
(* AuthSessions on a small instance. *)
EXTENDS AuthSessions, TLC

Symmetry == Permutations(Account) \cup Permutations(Session) \cup Permutations(Pair)
            \cup Permutations(Device) \cup Permutations(Request)

=============================================================================
