-------------------------------- MODULE Jobs --------------------------------
(***************************************************************************)
(* The jobs that change accounts and the gate between them: inspections    *)
(* (engine_lifecycle.go; their inside is module Inspection), bulk applies  *)
(* and single-row actions (apply_run.go), unban and delete jobs of the ban *)
(* pool and the synchronous unban of one account (ban_unban_job.go,        *)
(* ban_delete_job.go), the stop button, and the shutdown (engine.go).      *)
(*                                                                         *)
(* Each job is a goroutine that outlives a stop until its calls to CPA     *)
(* have returned.  The gate is a handful of flags under engine.mu and      *)
(* unbanJob.mu, and tokens that tell a goroutine it was overtaken.         *)
(* Accounts are counted, not named: what a call does to an account is the  *)
(* subject of module BanSync.                                              *)
(***************************************************************************)
EXTENDS Integers, FiniteSets

CONSTANTS
  Goroutines,    \* slots for the goroutines of jobs
  DeleteBatch,   \* deleteBatchSize
  Workers,       \* concurrent calls of one bulk apply
  MaxItems,      \* bound: accounts of one job
  MaxJobs        \* bound: jobs started

ASSUME JobsAssumption ==
  /\ DeleteBatch \in Nat \ {0} /\ Workers \in Nat \ {0}
  /\ MaxItems \in Nat /\ MaxJobs \in Nat
  /\ IsFiniteSet(Goroutines)

VARIABLES
  shuttingDown, running, runID,
  applying, applyDraining, applyRunID, applyDone, applyTotal,
  actionInFlight,
  pool,          \* unbanJob: running, stopped, runID and the counters
  kind, pc, token,             \* of each goroutine
  del, batch, todo, spawned, calls,  \* accounts of it, by where they are
  stopping,      \* a stop request has done stopUnbanJob only
  shut,          \* where the shutdown is
  started        \* bound: jobs started so far

gateVars == <<shuttingDown, running, runID, applying, applyDraining,
              applyRunID, actionInFlight>>
progressVars == <<applyDone, applyTotal>>
itemVars == <<del, batch, todo, spawned, calls>>
jobVars == <<kind, pc, token>>
vars == <<gateVars, progressVars, pool, jobVars, itemVars, stopping, shut,
          started>>

PoolKinds == {"unban", "delete", "single"}
Kinds == {"none", "inspect", "apply", "row"} \union PoolKinds

Smaller(m, n) == IF m < n THEN m ELSE n

Live(g) == kind[g] # "none"
Goto(g, label) == pc' = [pc EXCEPT ![g] = label]

NoTally == [running |-> FALSE, stopped |-> FALSE, runID |-> 0, done |-> 0,
            total |-> 0, enabled |-> 0, missing |-> 0, deleted |-> 0,
            failed |-> 0, persistError |-> FALSE]

Init ==
  /\ shuttingDown = FALSE /\ running = FALSE /\ runID = 0
  /\ applying = FALSE /\ applyDraining = FALSE /\ applyRunID = 0
  /\ applyDone = 0 /\ applyTotal = 0 /\ actionInFlight = 0
  /\ pool = NoTally
  /\ kind = [g \in Goroutines |-> "none"]
  /\ pc = [g \in Goroutines |-> "idle"]
  /\ token = [g \in Goroutines |-> 0]
  /\ del = [g \in Goroutines |-> 0] /\ batch = [g \in Goroutines |-> 0]
  /\ todo = [g \in Goroutines |-> 0] /\ spawned = [g \in Goroutines |-> 0]
  /\ calls = [g \in Goroutines |-> 0]
  /\ stopping = FALSE /\ shut = "no" /\ started = 0

(* mutant: an apply that was stopped no longer blocks the others *)
EngineBusy_NoDrain == running \/ applying \/ actionInFlight > 0

(* What every entry point but the single-row action refuses. *)
EngineBusy == running \/ applying \/ applyDraining \/ actionInFlight > 0

(* The new goroutine g gets its job and, in del and todo, its accounts. *)
Spawn(g, k, label, tok, d, n) ==
  /\ kind[g] = "none"
  /\ started < MaxJobs
  /\ started' = started + 1
  /\ kind' = [kind EXCEPT ![g] = k]
  /\ token' = [token EXCEPT ![g] = tok]
  /\ Goto(g, label)
  /\ del' = [del EXCEPT ![g] = d]
  /\ todo' = [todo EXCEPT ![g] = n]
  /\ UNCHANGED <<batch, spawned, calls, stopping, shut>>

Retire(g) ==
  /\ kind' = [kind EXCEPT ![g] = "none"]
  /\ Goto(g, "idle")
  /\ token' = [token EXCEPT ![g] = 0]
  /\ del' = [del EXCEPT ![g] = 0]
  /\ todo' = [todo EXCEPT ![g] = 0]
  /\ UNCHANGED <<batch, spawned, calls, stopping, shut, started>>

-----------------------------------------------------------------------------
(* Inspection: start, the end of its goroutine.                            *)

StartRun(g) ==
  /\ ~shuttingDown /\ ~EngineBusy /\ ~pool.running
  /\ Spawn(g, "inspect", "run", runID + 1, 0, 0)
  /\ running' = TRUE
  /\ runID' = runID + 1
  /\ applying' = FALSE
  /\ applyDone' = 0 /\ applyTotal' = 0
  /\ UNCHANGED <<shuttingDown, applyDraining, applyRunID, actionInFlight, pool>>

(* finish: a run that was overtaken leaves the flag alone. *)
FinishRun(g) ==
  /\ kind[g] = "inspect"
  /\ running' = (running /\ runID # token[g])
  /\ Retire(g)
  /\ UNCHANGED <<shuttingDown, runID, applying, applyDraining, applyRunID,
                 actionInFlight, progressVars, pool>>

-----------------------------------------------------------------------------
(* Bulk apply: d deletions in batches, then n enables and disables.        *)

StartApply(g, d, n) ==
  /\ ~shuttingDown /\ ~EngineBusy /\ ~pool.running
  /\ d + n \in 1 .. MaxItems
  /\ Spawn(g, "apply", "deletes", applyRunID + 1, d, n)
  /\ applying' = TRUE
  /\ applyRunID' = applyRunID + 1
  /\ applyDone' = 0 /\ applyTotal' = d + n
  /\ UNCHANGED <<shuttingDown, running, runID, applyDraining, actionInFlight,
                 pool>>

Mine(g) == applyRunID = token[g]
ApplyActive(g) == applying /\ Mine(g)

Inner(g, k, label) == kind[g] = k /\ pc[g] = label

(* The steps of runApply touch no flag of the gate. *)
ApplyStep == UNCHANGED <<gateVars, pool, kind, token, applyTotal, stopping,
                         shut, started>>

DeleteChunk(g) ==
  /\ Inner(g, "apply", "deletes") /\ del[g] > 0 /\ ApplyActive(g)
  /\ batch' = [batch EXCEPT ![g] = Smaller(del[g], DeleteBatch)]
  /\ del' = [del EXCEPT ![g] = @ - Smaller(@, DeleteBatch)]
  /\ Goto(g, "deleting")
  /\ ApplyStep /\ UNCHANGED <<applyDone, todo, spawned, calls>>

(* CPA has answered the batch: its accounts count as done, failed or not. *)
DeleteReturns(g) ==
  /\ Inner(g, "apply", "deleting")
  /\ batch' = [batch EXCEPT ![g] = 0]
  /\ IF Mine(g)
       THEN applyDone' = applyDone + batch[g] /\ Goto(g, "deletes")
       ELSE UNCHANGED applyDone /\ Goto(g, "exit")
  /\ ApplyStep /\ UNCHANGED <<del, todo, spawned, calls>>

DeletesOver(g) ==
  /\ Inner(g, "apply", "deletes")
  /\ del[g] = 0 \/ ~ApplyActive(g)
  /\ Goto(g, IF ApplyActive(g) /\ todo[g] > 0 THEN "others" ELSE "exit")
  /\ ApplyStep /\ UNCHANGED <<itemVars, applyDone>>

(* A worker is started as soon as the semaphore has room. *)
StartWorker(g) ==
  /\ Inner(g, "apply", "others") /\ todo[g] > 0 /\ ApplyActive(g)
  /\ spawned[g] + calls[g] < Workers
  /\ todo' = [todo EXCEPT ![g] = @ - 1]
  /\ spawned' = [spawned EXCEPT ![g] = @ + 1]
  /\ ApplyStep /\ UNCHANGED <<applyDone, pc, del, batch, calls>>

(* mutant: the loop does not look for a stop *)
WorkersOver_Deaf(g) ==
  /\ Inner(g, "apply", "others")
  /\ todo[g] = 0
  /\ Goto(g, "drain")
  /\ ApplyStep /\ UNCHANGED <<itemVars, applyDone>>

(* The loop ends with the accounts, or because of a stop. *)
WorkersOver(g) ==
  /\ Inner(g, "apply", "others")
  /\ todo[g] = 0 \/ ~ApplyActive(g)
  /\ Goto(g, "drain")
  /\ ApplyStep /\ UNCHANGED <<itemVars, applyDone>>

(* The worker looks once more whether it is wanted before it calls CPA. *)
WorkerCalls(g) ==
  /\ kind[g] = "apply" /\ spawned[g] > 0
  /\ spawned' = [spawned EXCEPT ![g] = @ - 1]
  /\ calls' = IF ApplyActive(g) THEN [calls EXCEPT ![g] = @ + 1] ELSE calls
  /\ ApplyStep /\ UNCHANGED <<applyDone, pc, del, batch, todo>>

WorkerReturns(g) ==
  /\ kind[g] = "apply" /\ calls[g] > 0
  /\ calls' = [calls EXCEPT ![g] = @ - 1]
  /\ applyDone' = IF Mine(g) THEN applyDone + 1 ELSE applyDone
  /\ ApplyStep /\ UNCHANGED <<pc, del, batch, todo, spawned>>

(* wg.Wait, then the deferred block: save the ban pool, give up the gate. *)
FinishApply(g) ==
  /\ kind[g] = "apply"
  /\ \/ pc[g] = "exit"
     \/ pc[g] = "drain" /\ spawned[g] + calls[g] = 0
  /\ applying' = FALSE /\ applyDraining' = FALSE
  /\ Retire(g)
  /\ UNCHANGED <<shuttingDown, running, runID, applyRunID, actionInFlight,
                 progressVars, pool>>

-----------------------------------------------------------------------------
(* Single-row actions: several may be under way.                           *)

(* mutant: the row action forgets the unload *)
StartAction_Late(g) ==
  /\ ~running /\ ~applying /\ ~applyDraining /\ ~pool.running
  /\ Spawn(g, "row", "call", 0, 0, 0)
  /\ actionInFlight' = actionInFlight + 1
  /\ UNCHANGED <<shuttingDown, running, runID, applying, applyDraining,
                 applyRunID, progressVars, pool>>

StartAction(g) ==
  /\ ~shuttingDown /\ ~running /\ ~applying /\ ~applyDraining /\ ~pool.running
  /\ Spawn(g, "row", "call", 0, 0, 0)
  /\ actionInFlight' = actionInFlight + 1
  /\ UNCHANGED <<shuttingDown, running, runID, applying, applyDraining,
                 applyRunID, progressVars, pool>>

FinishAction(g) ==
  /\ kind[g] = "row"
  /\ actionInFlight' = actionInFlight - 1
  /\ Retire(g)
  /\ UNCHANGED <<shuttingDown, running, runID, applying, applyDraining,
                 applyRunID, progressVars, pool>>

-----------------------------------------------------------------------------
(* Jobs of the ban pool, one at a time: unban, delete, unban of one row.   *)

(* claimUnbanSlotWithMode; the delete job resolves its rows first. *)
StartPool(g, k, n) ==
  /\ ~shuttingDown /\ ~EngineBusy /\ ~pool.running
  /\ n > 0 /\ (k = "single" => n = 1)
  /\ CASE k = "unban" -> Spawn(g, k, "loop", pool.runID + 1, 0, n)
       [] k = "delete" -> Spawn(g, k, "resolve", pool.runID + 1, n, 0)
       [] k = "single" -> Spawn(g, k, "call", pool.runID + 1, 0, n)
  /\ pool' = [NoTally EXCEPT !.running = TRUE, !.runID = pool.runID + 1,
                             !.total = n]
  /\ UNCHANGED <<gateVars, progressVars>>

Owns(g) == pool.running /\ pool.runID = token[g]
PoolActive(g) == Owns(g) /\ ~pool.stopped

PoolStep == UNCHANGED <<gateVars, progressVars, kind, token, stopping, shut,
                        started>>

(* mutant: a failure is counted, the account is not *)
Tallied_Short(g, outcome) ==
  IF ~Owns(g) THEN pool ELSE
  CASE outcome = "enabled" -> [pool EXCEPT !.enabled = @ + 1, !.done = @ + 1]
    [] outcome = "missing" -> [pool EXCEPT !.missing = @ + 1, !.done = @ + 1]
    [] outcome = "deleted" -> [pool EXCEPT !.deleted = @ + 1, !.done = @ + 1]
    [] outcome = "failed" -> [pool EXCEPT !.failed = @ + 1]

(* One account of the job has an outcome; only the owner of the slot counts. *)
Tallied(g, outcome) ==
  IF ~Owns(g) THEN pool ELSE
  CASE outcome = "enabled" -> [pool EXCEPT !.enabled = @ + 1, !.done = @ + 1]
    [] outcome = "missing" -> [pool EXCEPT !.missing = @ + 1, !.done = @ + 1]
    [] outcome = "deleted" -> [pool EXCEPT !.deleted = @ + 1, !.done = @ + 1]
    [] outcome = "failed" -> [pool EXCEPT !.failed = @ + 1, !.done = @ + 1]

NextUnban(g) ==
  /\ Inner(g, "unban", "loop") /\ todo[g] > 0 /\ PoolActive(g)
  /\ Goto(g, "call")
  /\ PoolStep /\ UNCHANGED <<pool, itemVars>>

(* Enabled, gone from CPA, refused, or superseded by a newer ban. *)
UnbanReturns(g) ==
  /\ kind[g] \in {"unban", "single"} /\ pc[g] = "call"
  /\ \E outcome \in {"enabled", "missing", "failed"} :
       pool' = Tallied(g, outcome)
  /\ todo' = [todo EXCEPT ![g] = @ - 1]
  /\ Goto(g, IF kind[g] = "unban" THEN "loop" ELSE "save")
  /\ PoolStep /\ UNCHANGED <<del, batch, spawned, calls>>

(* A row that cannot be resolved safely fails without a call to CPA. *)
ResolveDelete(g) ==
  /\ Inner(g, "delete", "resolve") /\ del[g] > 0
  /\ del' = [del EXCEPT ![g] = @ - 1]
  /\ \/ pool' = Tallied(g, "failed") /\ UNCHANGED todo
     \/ todo' = [todo EXCEPT ![g] = @ + 1] /\ UNCHANGED pool
  /\ PoolStep /\ UNCHANGED <<pc, batch, spawned, calls>>

Resolved(g) ==
  /\ Inner(g, "delete", "resolve") /\ del[g] = 0
  /\ Goto(g, "loop")
  /\ PoolStep /\ UNCHANGED <<pool, itemVars>>

DeleteBans(g) ==
  /\ Inner(g, "delete", "loop") /\ todo[g] > 0 /\ PoolActive(g)
  /\ batch' = [batch EXCEPT ![g] = Smaller(todo[g], DeleteBatch)]
  /\ todo' = [todo EXCEPT ![g] = @ - Smaller(@, DeleteBatch)]
  /\ Goto(g, "tally")
  /\ PoolStep /\ UNCHANGED <<pool, del, spawned, calls>>

(* After the answer the accounts of the batch are counted one by one. *)
TallyDelete(g) ==
  /\ Inner(g, "delete", "tally") /\ batch[g] > 0
  /\ \E outcome \in {"deleted", "failed"} : pool' = Tallied(g, outcome)
  /\ batch' = [batch EXCEPT ![g] = @ - 1]
  /\ Goto(g, IF batch[g] = 1 THEN "loop" ELSE "tally")
  /\ PoolStep /\ UNCHANGED <<del, todo, spawned, calls>>

PoolLoopOver(g) ==
  /\ kind[g] \in {"unban", "delete"} /\ pc[g] = "loop"
  /\ todo[g] = 0 \/ ~PoolActive(g)
  /\ Goto(g, "save")
  /\ PoolStep /\ UNCHANGED <<pool, itemVars>>

(* The deferred save; a job reports its failure as one more failed item. *)
SavePool(g) ==
  /\ kind[g] \in PoolKinds /\ pc[g] = "save"
  /\ \/ UNCHANGED pool
     \/ kind[g] # "single"
        /\ pool' = [pool EXCEPT !.persistError = TRUE, !.failed = @ + 1]
  /\ Goto(g, "release")
  /\ PoolStep /\ UNCHANGED itemVars

(* releaseUnbanSlot does not look whose slot it is. *)
ReleasePool(g) ==
  /\ kind[g] \in PoolKinds /\ pc[g] = "release"
  /\ pool' = [pool EXCEPT !.running = FALSE]
  /\ Retire(g)
  /\ UNCHANGED <<gateVars, progressVars>>

-----------------------------------------------------------------------------
(* Stop and shutdown.                                                      *)

StopUnban == pool' = IF pool.running THEN [pool EXCEPT !.stopped = TRUE] ELSE pool

(* stopWithLang: first the pool job, then, under engine.mu, the others. *)
StopRequested ==
  /\ ~stopping
  /\ StopUnban
  /\ stopping' = TRUE
  /\ UNCHANGED <<gateVars, progressVars, jobVars, itemVars, shut, started>>

(* mutant: the apply keeps its token when it is stopped *)
StopEngine_SameToken ==
  /\ stopping /\ stopping' = FALSE
  /\ applyDraining' = (applyDraining \/ applying)
  /\ applying' = FALSE
  /\ runID' = IF running THEN runID + 1 ELSE runID
  /\ running' = FALSE
  /\ UNCHANGED <<shuttingDown, applyRunID, actionInFlight, progressVars, pool,
                 jobVars, itemVars, shut, started>>

StopEngine ==
  /\ stopping /\ stopping' = FALSE
  /\ applyRunID' = IF applying THEN applyRunID + 1 ELSE applyRunID
  /\ applyDraining' = (applyDraining \/ applying)
  /\ applying' = FALSE
  /\ runID' = IF running THEN runID + 1 ELSE runID
  /\ running' = FALSE
  /\ UNCHANGED <<shuttingDown, actionInFlight, progressVars, pool, jobVars,
                 itemVars, shut, started>>

ShutStep(from, to) == shut = from /\ shut' = to

ShutdownGate ==
  /\ ShutStep("no", "stopUnban")
  /\ shuttingDown' = TRUE
  /\ runID' = runID + 1 /\ applyRunID' = applyRunID + 1
  /\ applying' = FALSE /\ applyDraining' = TRUE
  /\ UNCHANGED <<running, actionInFlight, progressVars, pool, jobVars,
                 itemVars, stopping, started>>

ShutdownStopsUnban ==
  /\ ShutStep("stopUnban", "waitRuns")
  /\ StopUnban
  /\ UNCHANGED <<gateVars, progressVars, jobVars, itemVars, stopping, started>>

WaitStep == UNCHANGED <<gateVars, progressVars, pool, jobVars, itemVars,
                        stopping, started>>

(* runWG.Wait: inspections, also overtaken ones, applies and row actions. *)
RunsOver ==
  /\ ShutStep("waitRuns", "waitUnban")
  /\ \A g \in Goroutines : kind[g] \in {"none"} \union PoolKinds
  /\ WaitStep

(* unbanJob.wg.Wait: the two jobs, not the unban of one account. *)
UnbanOver ==
  /\ ShutStep("waitUnban", "flush")
  /\ \A g \in Goroutines : kind[g] \notin {"unban", "delete"}
  /\ WaitStep

(* stopBanPersistWorker: the last write of the ban pool. *)
FinalFlush == ShutStep("flush", "last") /\ WaitStep

ShutdownDone ==
  /\ ShutStep("last", "done")
  /\ applyDraining' = FALSE
  /\ UNCHANGED <<shuttingDown, running, runID, applying, applyRunID,
                 actionInFlight, progressVars, pool, jobVars, itemVars,
                 stopping, started>>

Shutdown == ShutdownGate \/ ShutdownStopsUnban \/ RunsOver \/ UnbanOver
            \/ FinalFlush \/ ShutdownDone

-----------------------------------------------------------------------------
Step(g) ==
  \/ FinishRun(g)
  \/ DeleteChunk(g) \/ DeleteReturns(g) \/ DeletesOver(g)
  \/ StartWorker(g) \/ WorkersOver(g) \/ WorkerCalls(g) \/ WorkerReturns(g)
  \/ FinishApply(g)
  \/ FinishAction(g)
  \/ NextUnban(g) \/ UnbanReturns(g)
  \/ ResolveDelete(g) \/ Resolved(g) \/ DeleteBans(g) \/ TallyDelete(g)
  \/ PoolLoopOver(g) \/ SavePool(g) \/ ReleasePool(g)

Start(g) ==
  \/ StartRun(g) \/ StartAction(g)
  \/ \E d, n \in 0 .. MaxItems : StartApply(g, d, n)
  \/ \E k \in PoolKinds, n \in 1 .. MaxItems : StartPool(g, k, n)

Next ==
  \/ \E g \in Goroutines : Start(g) \/ Step(g)
  \/ StopRequested \/ StopEngine \/ Shutdown

Spec == Init /\ [][Next]_vars

(* Goroutines run, and every call to CPA returns: the Management client    *)
(* has a timeout.  Nobody has to start or stop anything.                   *)
Fairness ==
  /\ \A g \in Goroutines : WF_vars(Step(g))
  /\ WF_vars(StopEngine)
  /\ WF_vars(ShutdownStopsUnban \/ RunsOver \/ UnbanOver \/ FinalFlush
             \/ ShutdownDone)

FairSpec == Spec /\ Fairness

-----------------------------------------------------------------------------
Labels == {"idle", "run", "deletes", "deleting", "others", "drain", "exit",
           "call", "loop", "resolve", "tally", "save", "release"}
ShutLabels == {"no", "stopUnban", "waitRuns", "waitUnban", "flush", "last",
               "done"}

(* Every variable has the type the code gives it. *)
TypeOK ==
  /\ {shuttingDown, running, applying, applyDraining, stopping} \subseteq BOOLEAN
  /\ {runID, applyRunID, applyDone, applyTotal, actionInFlight, started}
       \subseteq Nat
  /\ pool \in [running : BOOLEAN, stopped : BOOLEAN, runID : Nat, done : Nat,
               total : Nat, enabled : Nat, missing : Nat, deleted : Nat,
               failed : Nat, persistError : BOOLEAN]
  /\ kind \in [Goroutines -> Kinds]
  /\ pc \in [Goroutines -> Labels]
  /\ token \in [Goroutines -> Nat]
  /\ {del, batch, todo, spawned, calls} \subseteq [Goroutines -> Nat]
  /\ shut \in ShutLabels

(* The goroutine of a stopped inspection works on, but it holds nothing. *)
Holds(g) == IF kind[g] = "inspect" THEN running /\ ~shuttingDown /\ runID = token[g]
            ELSE Live(g)

JobOf(g) == CASE kind[g] = "inspect" -> "inspect"
              [] kind[g] = "apply" -> "apply"
              [] kind[g] = "row" -> "rows"
              [] OTHER -> "pool"

(* Two goroutines never change accounts at the same time, however a stop,  *)
(* a new request and the end of a job that drains meet - except row        *)
(* actions, which are meant to overlap (startApply, claimUnbanSlot: the    *)
(* flags are read and set under engine.mu, but cleared by the goroutines). *)
OneJobAtATime ==
  \A g, h \in Goroutines :
    Holds(g) /\ Holds(h) /\ g # h => JobOf(g) = "rows" /\ JobOf(h) = "rows"

(* The numbers the page shows add up: while an apply owns the progress,    *)
(* what is done and what is still with the goroutine is the total; a pool  *)
(* job counts each account exactly once, whatever its outcome.             *)
ApplyAddsUp ==
  \A g \in Goroutines :
    kind[g] = "apply" /\ Mine(g) =>
      applyDone + del[g] + batch[g] + todo[g] + spawned[g] + calls[g] = applyTotal

PoolAddsUp ==
  /\ pool.done + (IF pool.persistError THEN 1 ELSE 0)
       = pool.enabled + pool.missing + pool.deleted + pool.failed
  /\ \A g \in Goroutines :
       kind[g] \in PoolKinds =>
         pool.done + del[g] + batch[g] + todo[g] = pool.total

ProgressAddsUp == ApplyAddsUp /\ PoolAddsUp

(* A bulk apply that is stopped stops counting: what its calls still in    *)
(* flight do is not progress of anything that runs (applyRunID).           *)
StoppedIsFrozen == [][applyDone' > applyDone => applying]_vars

(* Every job ends and gives up the gate, and a shutdown returns whatever   *)
(* was going on when it came (runWG, unbanJob.wg).                         *)
JobsEnd == \A g \in Goroutines : Live(g) ~> ~Live(g)
ShutdownReturns == shuttingDown ~> shut = "done"
EverythingEnds == JobsEnd /\ ShutdownReturns

(* engine.go:36: the final flush comes "only after all ban-store producers *)
(* have exited".                                                           *)
FlushIsLast ==
  shut \in {"last", "done"} => \A g \in Goroutines : kind[g] \notin PoolKinds

(* The flags, tokens and goroutines implement the abstract job gate. *)
Gate == INSTANCE JobGate
          WITH holders <- {JobOf(g) : g \in {h \in Goroutines : Holds(h)}},
               closed <- shuttingDown
ImplementsJobGate == Gate!Spec
=============================================================================
