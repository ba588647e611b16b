------------------------------ MODULE MCCronJobs ------------------------------
(* Instance of CronJobs for TLC. *)
EXTENDS CronJobs, TLC

Symmetry == Permutations(Jobs \ {Reaper}) \cup Permutations(Requests)
              \cup Permutations(Sweepers)
=============================================================================
