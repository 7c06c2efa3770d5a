------------------------------- MODULE MCPix -------------------------------
(* Small instances of PixReconciler. *)
EXTENDS PixReconciler, TLC

Symmetry == Permutations(Procs) \cup Permutations(Txids)
=============================================================================
