------------------------------ MODULE MCPoller ------------------------------
(* Poller for TLC. *)
EXTENDS Poller
=============================================================================
