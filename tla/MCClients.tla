------------------------------ MODULE MCClients ------------------------------
(* Clients for TLC. *)
EXTENDS Clients, TLC

Symmetric == Permutations(Requests)
=============================================================================
