------------------------------- MODULE MCMaster -------------------------------
(* Small instances of Master for TLC. *)
EXTENDS Master, TLC

Symmetry == Permutations(Keys) \cup Permutations(Tenants) \cup Permutations(Nodes)
=============================================================================
