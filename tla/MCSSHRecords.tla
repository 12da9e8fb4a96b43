---------------------------- MODULE MCSSHRecords ----------------------------
(* SSHRecords on small instances. *)
EXTENDS SSHRecords, TLC

Symmetry == Permutations(Account) \cup Permutations(Id)
            \cup Permutations(Name)

=============================================================================
