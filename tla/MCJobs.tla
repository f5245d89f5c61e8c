------------------------------- MODULE MCJobs -------------------------------
(***************************************************************************)
(* Instances of module Jobs.  Goroutines are interchangeable: symmetry is  *)
(* used where no liveness property is checked.                             *)
(***************************************************************************)
EXTENDS Jobs, TLC

CONSTANTS g1, g2, g3

SomeGoroutines == {g1, g2, g3}
TwoGoroutines == {g1, g2}
Symmetry == Permutations(Goroutines)
=============================================================================
