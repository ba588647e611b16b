----------------------------- MODULE MCResources -----------------------------
(* Resources for TLC. *)
EXTENDS Resources, TLC

Symmetric == Permutations(Requests) \cup Permutations(Tasks) \cup Permutations(Configs)
=============================================================================
