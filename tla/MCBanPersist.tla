----------------------------- MODULE MCBanPersist -----------------------------
(***************************************************************************)
(* Instances of module BanPersist.                                         *)
(***************************************************************************)
EXTENDS BanPersist, TLC

CONSTANTS old, new, legacy, g1, g2

OnePath == {old}
TwoPaths == {old, new}
OneRoutine == {g1}
TwoRoutines == {g1, g2}
Symmetry == Permutations(TwoPaths) \union Permutations(TwoRoutines)
=============================================================================
