--------------------------- MODULE MCMasterGrants ---------------------------
(* Instances of MasterGrants for TLC. *)
EXTENDS MasterGrants, TLC

Symmetry == Permutations(Masters) \cup Permutations(Procs) \cup Permutations(Grants)
              \cup Permutations(Requests)
=============================================================================
