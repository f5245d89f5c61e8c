------------------------------ MODULE MCBanSync ------------------------------
(* Instances of BanSync for TLC.  Accounts, workers and operators are       *)
(* interchangeable: nothing in the specification orders or chooses them.    *)
EXTENDS BanSync, TLC

Symmetry ==
  Permutations(Accounts) \union Permutations(Workers) \union Permutations(Operators)
=============================================================================
