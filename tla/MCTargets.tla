------------------------------ MODULE MCTargets ------------------------------
(***************************************************************************)
(* Instances of module Targets.                                            *)
(***************************************************************************)
EXTENDS Targets

CONSTANTS Pool       \* auth indexes and emails that occur

(* The files are called like the accounts; everything else may collide. *)
AllIdentities ==
  {w \in [Accounts -> [ai : Pool \union {None}, fn : Accounts, em : Pool \union {None}]] :
     \A a \in Accounts :
       /\ w[a].fn = a
       /\ \A b \in Accounts \ {a} : w[a].ai # None => w[a].ai # w[b].ai}
=============================================================================
