----------------------------- MODULE MCSSHHosts -----------------------------
(* SSHHosts on small instances. *)
EXTENDS SSHHosts, TLC

Symmetry == Permutations(Account) \cup Permutations(Host \ Legacy)
            \cup Permutations(Name) \cup Permutations(Machine)
            \cup Permutations(Port) \cup Permutations(Client)

=============================================================================
