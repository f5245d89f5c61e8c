---------------------------- MODULE MCInspection ----------------------------
(* Instances of Inspection for TLC.  Slots are interchangeable: nothing in *)
(* the specification orders or chooses them.                               *)
EXTENDS Inspection, TLC

SlotSymmetry == Permutations(Slots)
=============================================================================
