---------------------------- MODULE MCResultStore ----------------------------
(***************************************************************************)
(* Instances of module ResultStore.                                        *)
(***************************************************************************)
EXTENDS ResultStore

CONSTANTS c1, c2, c3

ThreeCallers == {c1, c2, c3}
=============================================================================
