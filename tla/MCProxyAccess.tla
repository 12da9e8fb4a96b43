---------------------------- MODULE MCProxyAccess ----------------------------
(* ProxyAccess on a small instance. *)
EXTENDS ProxyAccess, TLC

Symmetry == Permutations(Account) \cup Permutations(Session)
            \cup Permutations(Connection) \cup Permutations(Call)

=============================================================================
