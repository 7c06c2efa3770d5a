------------------------------ MODULE MCDunning ------------------------------
(* Small instances of Dunning. *)
EXTENDS Dunning, TLC

Symmetry == Permutations(Subs)
=============================================================================
