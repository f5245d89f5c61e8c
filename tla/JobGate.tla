------------------------------- MODULE JobGate -------------------------------
(***************************************************************************)
(* What the job gate of the plugin promises: at any time at most one kind  *)
(* of job may change accounts - an inspection, a bulk apply, single-row    *)
(* actions (of which several may overlap), or a job of the ban pool - and  *)
(* once the gate is closed for unloading no job starts any more.           *)
(*                                                                         *)
(* The gate of apply_run.go, ban_unban_job.go and engine_lifecycle.go,     *)
(* with its flags, tokens and goroutines, is module Jobs.                  *)
(***************************************************************************)

VARIABLES
  holders,      \* the kinds of job that hold the gate
  closed        \* the plugin is being unloaded

vars == <<holders, closed>>

JobKinds == {"inspect", "apply", "rows", "pool"}

Init == holders = {} /\ closed = FALSE

(* Row actions share the gate with each other, nothing else is shared. *)
Claim(k) ==
  /\ ~closed
  /\ holders \subseteq {"rows"} \intersect {k}
  /\ holders' = {k}
  /\ UNCHANGED closed

Release == holders' = {} /\ UNCHANGED closed

(* The inspection loses the gate when it closes, the others finish. *)
Close == closed' = TRUE /\ holders' \in {holders, holders \ {"inspect"}}

Next == Release \/ Close \/ \E k \in JobKinds : Claim(k)

Spec == Init /\ [][Next]_vars
=============================================================================
