------------------------- MODULE MCSessionScheduler -------------------------
(* Instances of SessionScheduler for TLC. *)
EXTENDS SessionScheduler, TLC

(* Sessions, jobs and leases are told apart by equality only. *)
Symmetry == Permutations(Sessions) \cup Permutations(Jobs) \cup Permutations(Leases)
=============================================================================
