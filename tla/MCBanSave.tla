------------------------------ MODULE MCBanSave ------------------------------
(* Instances of BanSave for TLC: the callers are interchangeable goroutines. *)
EXTENDS BanSave, TLC

Symmetry == Permutations(Callers)
=============================================================================
