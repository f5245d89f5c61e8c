----------------------------- MODULE JobsProofs -----------------------------
(***************************************************************************)
(* Proofs about the gate of the jobs, for any number of goroutines, jobs,  *)
(* accounts and concurrent calls.                                          *)
(***************************************************************************)
EXTENDS Jobs, FiniteSetTheorems, TLAPS

RowJobs == {g \in Goroutines : kind[g] = "row"}

(* What the proofs need of the types. *)
GateType ==
  /\ kind \in [Goroutines -> Kinds]
  /\ pc \in [Goroutines -> Labels]
  /\ token \in [Goroutines -> Nat]
  /\ runID \in Nat /\ applyRunID \in Nat /\ actionInFlight \in Nat
  /\ DOMAIN pool = DOMAIN NoTally /\ pool.runID \in Nat

(* The counter is the number of row actions under way. *)
RowsCounted == actionInFlight = Cardinality(RowJobs)

(* Every job has its flag up, and the shutdown has waited for those it     *)
(* waits for.                                                              *)
Flagged ==
  /\ \A g \in Goroutines : kind[g] = "apply" => applying \/ applyDraining
  /\ \A g \in Goroutines : kind[g] \in PoolKinds => pool.running
  /\ shut # "no" => shuttingDown
  /\ shut \notin {"no", "stopUnban", "waitRuns"} =>
       \A g \in Goroutines : kind[g] \in {"none"} \union PoolKinds

(* No two inspections, overtaken ones included, have the same token. *)
Tokens ==
  \A g, h \in Goroutines :
    kind[g] = "inspect" =>
      /\ token[g] <= runID
      /\ kind[h] = "inspect" /\ g # h => token[g] # token[h]

(* OneJobAtATime is not inductive: that the flags a start looks at tell of *)
(* every job still at work is what makes it so.                            *)
GateInv == GateType /\ RowsCounted /\ Flagged /\ Tokens /\ OneJobAtATime

(* Nobody works at first. *)
LEMMA InitGate == Init => GateInv
<1> SUFFICES ASSUME Init PROVE GateInv
  OBVIOUS
<1>1. GateType
  BY DEF Init, GateType, NoTally, Kinds, PoolKinds, Labels
<1>2. RowJobs = {}
  BY DEF Init, RowJobs
<1>3. RowsCounted
  BY <1>2, FS_EmptySet DEF Init, RowsCounted
<1>4. Flagged /\ Tokens /\ OneJobAtATime
  BY DEF Init, Flagged, Tokens, OneJobAtATime, Holds, Live, PoolKinds
<1> QED
  BY <1>1, <1>3, <1>4 DEF GateInv

(* Who finds no inspection, apply or pool job finds row actions only. *)
LEMMA OnlyRows ==
  ASSUME GateInv, ~running, ~applying, ~applyDraining, ~pool.running
  PROVE  \A g \in Goroutines : Holds(g) => kind[g] = "row"
BY DEF GateInv, GateType, Flagged, Holds, Live, Kinds

(* And who finds the counter at 0 besides finds nobody. *)
LEMMA Nobody ==
  ASSUME GateInv, ~EngineBusy, ~pool.running
  PROVE  \A g \in Goroutines : ~Holds(g) /\ kind[g] # "row"
<1>1. IsFiniteSet(RowJobs)
  BY JobsAssumption, FS_Subset DEF RowJobs
<1>2. actionInFlight = 0
  BY DEF EngineBusy, GateInv, GateType
<1>3. RowJobs = {}
  BY <1>1, <1>2, FS_EmptySet DEF GateInv, RowsCounted
<1>4. \A g \in Goroutines : Holds(g) => kind[g] = "row"
  BY OnlyRows DEF EngineBusy
<1> QED
  BY <1>3, <1>4 DEF RowJobs

-----------------------------------------------------------------------------
(* The steps that touch neither a flag nor who works.                      *)
Quiet == UNCHANGED <<gateVars, kind, token, shut>> /\ pool'.running = pool.running

(* Steps of that kind disturb nothing. *)
LEMMA QuietKeeps ==
  ASSUME GateInv, Quiet, GateType'
  PROVE  GateInv'
BY DEF GateInv, Quiet, gateVars, RowsCounted, RowJobs, Flagged, Tokens,
       OneJobAtATime, Holds, Live, JobOf

(* Counting an account of an unban or ban-delete job keeps the slot. *)
LEMMA TalliedType ==
  ASSUME GateType, NEW g \in Goroutines,
         NEW o \in {"enabled", "missing", "deleted", "failed"}
  PROVE  /\ DOMAIN Tallied(g, o) = DOMAIN NoTally
         /\ Tallied(g, o).running = pool.running
         /\ Tallied(g, o).runID = pool.runID
BY DEF Tallied, GateType, NoTally

(* What runApply does between its start and its end. *)
LEMMA ApplyKeeps ==
  ASSUME GateInv, NEW g \in Goroutines,
         \/ DeleteChunk(g) \/ DeleteReturns(g) \/ DeletesOver(g)
         \/ StartWorker(g) \/ WorkersOver(g) \/ WorkerCalls(g) \/ WorkerReturns(g)
  PROVE  GateInv'
<1>1. ApplyStep
  BY DEF DeleteChunk, DeleteReturns, DeletesOver, StartWorker, WorkersOver,
         WorkerCalls, WorkerReturns
<1>2. pc' \in [Goroutines -> Labels]
  BY DEF DeleteChunk, DeleteReturns, DeletesOver, StartWorker, WorkersOver,
         WorkerCalls, WorkerReturns, Goto, Labels, GateInv, GateType, itemVars
<1>3. Quiet /\ GateType'
  BY <1>1, <1>2 DEF ApplyStep, Quiet, GateInv, GateType, gateVars
<1> QED
  BY <1>3, QuietKeeps

(* What a job of the ban pool does before it releases the slot. *)
LEMMA PoolKeeps ==
  ASSUME GateInv, NEW g \in Goroutines,
         \/ NextUnban(g) \/ UnbanReturns(g) \/ ResolveDelete(g) \/ Resolved(g)
         \/ DeleteBans(g) \/ TallyDelete(g) \/ PoolLoopOver(g) \/ SavePool(g)
  PROVE  GateInv'
<1>1. PoolStep
  BY DEF NextUnban, UnbanReturns, ResolveDelete, Resolved, DeleteBans,
         TallyDelete, PoolLoopOver, SavePool
<1>2. pc' \in [Goroutines -> Labels]
  BY DEF NextUnban, UnbanReturns, ResolveDelete, Resolved, DeleteBans,
         TallyDelete, PoolLoopOver, SavePool, Goto, Labels, GateInv, GateType
<1>3. /\ DOMAIN pool' = DOMAIN NoTally
      /\ pool'.running = pool.running /\ pool'.runID = pool.runID
  <2>0. DOMAIN pool = DOMAIN NoTally
    BY DEF GateInv, GateType
  <2>1. CASE UNCHANGED pool
    BY <2>0, <2>1
  <2>2. CASE SavePool(g)
    BY <2>0, <2>2 DEF SavePool, NoTally
  <2>3. CASE \E o \in {"enabled", "missing", "deleted", "failed"} : pool' = Tallied(g, o)
    BY <2>3, TalliedType DEF GateInv
  <2>4. \/ UNCHANGED pool \/ SavePool(g)
        \/ \E o \in {"enabled", "missing", "deleted", "failed"} : pool' = Tallied(g, o)
    BY DEF NextUnban, UnbanReturns, ResolveDelete, Resolved, DeleteBans,
           TallyDelete, PoolLoopOver
  <2> QED
    BY <2>1, <2>2, <2>3, <2>4
<1>4. Quiet /\ GateType'
  BY <1>1, <1>2, <1>3 DEF PoolStep, Quiet, GateInv, GateType, gateVars
<1> QED
  BY <1>4, QuietKeeps

-----------------------------------------------------------------------------
(* Jobs start.                                                             *)

(* The row actions at work can be counted. *)
LEMMA RowsFinite == IsFiniteSet(RowJobs)
BY JobsAssumption, FS_Subset DEF RowJobs

(* An inspection starts where no apply and no pool job is at work. *)
LEMMA StartRunKeeps ==
  ASSUME GateInv, NEW g \in Goroutines, StartRun(g)
  PROVE  GateInv'
<1> USE DEF GateInv
<1>1. \A h \in Goroutines : ~Holds(h) /\ kind[h] # "row"
  BY Nobody DEF StartRun
<1>2. /\ kind' = [kind EXCEPT ![g] = "inspect"]
      /\ token' = [token EXCEPT ![g] = runID + 1]
      /\ pc' = [pc EXCEPT ![g] = "run"]
      /\ runID' = runID + 1 /\ running' = TRUE /\ ~shuttingDown
      /\ UNCHANGED <<shuttingDown, applyDraining, applyRunID, actionInFlight,
                     pool, shut>>
      /\ kind[g] = "none"
  BY DEF StartRun, Spawn, Goto
<1>3. GateType'
  BY <1>2 DEF GateType, Kinds, Labels
<1>4. RowJobs' = RowJobs
  BY <1>2 DEF RowJobs, GateType
<1>5. RowsCounted'
  BY <1>2, <1>4 DEF RowsCounted
<1>6. Flagged'
  BY <1>1, <1>2 DEF Flagged, GateType, Holds, Live, PoolKinds
<1>7. Tokens'
  BY <1>2 DEF Tokens, GateType
<1>8. OneJobAtATime'
  BY <1>1, <1>2 DEF OneJobAtATime, Holds, Live, GateType, Tokens
<1> QED
  BY <1>3, <1>5, <1>6, <1>7, <1>8

(* A bulk apply starts where nothing is at work at all. *)
LEMMA StartApplyKeeps ==
  ASSUME GateInv, NEW g \in Goroutines, NEW d \in 0 .. MaxItems,
         NEW n \in 0 .. MaxItems, StartApply(g, d, n)
  PROVE  GateInv'
<1> USE DEF GateInv
<1>1. \A h \in Goroutines : ~Holds(h) /\ kind[h] # "row"
  BY Nobody DEF StartApply
<1>2. /\ kind' = [kind EXCEPT ![g] = "apply"]
      /\ token' = [token EXCEPT ![g] = applyRunID + 1]
      /\ pc' = [pc EXCEPT ![g] = "deletes"]
      /\ applyRunID' = applyRunID + 1
      /\ applying' = TRUE /\ ~running /\ ~shuttingDown
      /\ UNCHANGED <<shuttingDown, running, runID, actionInFlight, pool, shut>>
      /\ kind[g] = "none"
  BY DEF StartApply, Spawn, Goto, EngineBusy
<1>3. GateType'
  BY <1>2 DEF GateType, Kinds, Labels
<1>4. RowJobs' = RowJobs
  BY <1>2 DEF RowJobs, GateType
<1>5. RowsCounted'
  BY <1>2, <1>4 DEF RowsCounted
<1>6. Flagged'
  BY <1>1, <1>2 DEF Flagged, GateType, Holds, Live, PoolKinds
<1>7. Tokens'
  BY <1>2 DEF Tokens, GateType
<1>8. OneJobAtATime'
  BY <1>1, <1>2 DEF OneJobAtATime, Holds, Live, GateType
<1> QED
  BY <1>3, <1>5, <1>6, <1>7, <1>8

(* A row action starts next to other row actions only. *)
LEMMA StartActionKeeps ==
  ASSUME GateInv, NEW g \in Goroutines, StartAction(g)
  PROVE  GateInv'
<1> USE DEF GateInv
<1>1. \A h \in Goroutines : Holds(h) => kind[h] = "row"
  BY OnlyRows DEF StartAction
<1>2. /\ kind' = [kind EXCEPT ![g] = "row"]
      /\ token' = [token EXCEPT ![g] = 0]
      /\ pc' = [pc EXCEPT ![g] = "call"]
      /\ actionInFlight' = actionInFlight + 1
      /\ ~running /\ ~shuttingDown
      /\ UNCHANGED <<shuttingDown, running, runID, applying, applyDraining,
                     applyRunID, pool, shut>>
      /\ kind[g] = "none"
  BY DEF StartAction, Spawn, Goto
<1>3. GateType'
  BY <1>2 DEF GateType, Kinds, Labels
<1>4. RowJobs' = RowJobs \union {g} /\ g \notin RowJobs
  BY <1>2 DEF RowJobs, GateType
<1>5. RowsCounted'
  BY <1>2, <1>4, RowsFinite, FS_AddElement DEF RowsCounted
<1>6. Flagged'
  BY <1>1, <1>2 DEF Flagged, GateType, Holds, Live, PoolKinds
<1>7. Tokens'
  BY <1>2 DEF Tokens, GateType
<1>8. OneJobAtATime'
  BY <1>1, <1>2 DEF OneJobAtATime, Holds, Live, GateType, JobOf
<1> QED
  BY <1>3, <1>5, <1>6, <1>7, <1>8

(* An unban or ban-delete job starts with the slot to itself. *)
LEMMA StartPoolKeeps ==
  ASSUME GateInv, NEW g \in Goroutines, NEW k \in PoolKinds,
         NEW n \in 1 .. MaxItems, StartPool(g, k, n)
  PROVE  GateInv'
<1> USE DEF GateInv
<1>1. \A h \in Goroutines : ~Holds(h) /\ kind[h] # "row"
  BY Nobody DEF StartPool
<1>2. /\ kind' = [kind EXCEPT ![g] = k]
      /\ token' = [token EXCEPT ![g] = pool.runID + 1]
      /\ \E label \in {"loop", "resolve", "call"} : pc' = [pc EXCEPT ![g] = label]
      /\ pool' = [NoTally EXCEPT !.running = TRUE, !.runID = pool.runID + 1,
                                 !.total = n]
      /\ ~running /\ ~shuttingDown
      /\ UNCHANGED <<shuttingDown, running, runID, applying, applyDraining,
                     applyRunID, actionInFlight, shut>>
      /\ kind[g] = "none"
  BY DEF StartPool, Spawn, Goto, PoolKinds, EngineBusy, gateVars
<1>3. pool'.running = TRUE /\ DOMAIN pool' = DOMAIN NoTally /\ pool'.runID = pool.runID + 1
  BY <1>2 DEF NoTally
<1>4. GateType'
  <2>1. kind' \in [Goroutines -> Kinds]
    BY <1>2 DEF GateType, Kinds, PoolKinds
  <2>2. pc' \in [Goroutines -> Labels]
    BY <1>2 DEF GateType, Labels
  <2>3. token' \in [Goroutines -> Nat]
    BY <1>2 DEF GateType
  <2> QED
    BY <1>2, <1>3, <2>1, <2>2, <2>3 DEF GateType
<1>5. RowJobs' = RowJobs
  BY <1>2 DEF RowJobs, GateType, PoolKinds
<1>6. RowsCounted'
  BY <1>2, <1>5 DEF RowsCounted
<1>7. Flagged'
  BY <1>1, <1>2, <1>3 DEF Flagged, GateType, Holds, Live, PoolKinds
<1>8. Tokens'
  BY <1>2 DEF Tokens, GateType, PoolKinds
<1>9. OneJobAtATime'
  BY <1>1, <1>2 DEF OneJobAtATime, Holds, Live, GateType, PoolKinds
<1> QED
  BY <1>4, <1>6, <1>7, <1>8, <1>9

-----------------------------------------------------------------------------
(* Jobs end.                                                               *)

(* Only the current inspection clears `running`. *)
LEMMA FinishRunKeeps ==
  ASSUME GateInv, NEW g \in Goroutines, FinishRun(g)
  PROVE  GateInv'
<1> USE DEF GateInv
<1>1. /\ kind[g] = "inspect"
      /\ kind' = [kind EXCEPT ![g] = "none"]
      /\ token' = [token EXCEPT ![g] = 0]
      /\ pc' = [pc EXCEPT ![g] = "idle"]
      /\ running' => running
      /\ UNCHANGED <<shuttingDown, runID, applying, applyDraining,
                     applyRunID, actionInFlight, pool, shut>>
  BY DEF FinishRun, Retire, Goto
<1>2. GateType'
  BY <1>1 DEF GateType, Kinds, Labels
<1>3. RowJobs' = RowJobs
  BY <1>1 DEF RowJobs, GateType
<1>4. RowsCounted'
  BY <1>1, <1>3 DEF RowsCounted
<1>5. Flagged' /\ Tokens'
  BY <1>1 DEF Flagged, Tokens, GateType, PoolKinds
<1>6. OneJobAtATime'
  BY <1>1 DEF OneJobAtATime, Holds, Live, JobOf, GateType
<1> QED
  BY <1>2, <1>4, <1>5, <1>6

(* An apply clears the flag that tells of it, stopped or not. *)
LEMMA FinishApplyKeeps ==
  ASSUME GateInv, NEW g \in Goroutines, FinishApply(g)
  PROVE  GateInv'
<1> USE DEF GateInv
<1>1. /\ kind[g] = "apply"
      /\ kind' = [kind EXCEPT ![g] = "none"]
      /\ token' = [token EXCEPT ![g] = 0]
      /\ pc' = [pc EXCEPT ![g] = "idle"]
      /\ UNCHANGED <<shuttingDown, running, runID, applyRunID, actionInFlight,
                     pool, shut>>
  BY DEF FinishApply, Retire, Goto
<1>2. GateType'
  BY <1>1 DEF GateType, Kinds, Labels
<1>3. RowJobs' = RowJobs
  BY <1>1 DEF RowJobs, GateType
<1>4. RowsCounted'
  BY <1>1, <1>3 DEF RowsCounted
<1>5. \A h \in Goroutines : h # g => kind[h] # "apply"
  BY <1>1 DEF OneJobAtATime, Holds, Live, JobOf
<1>6. Flagged' /\ Tokens'
  BY <1>1, <1>5 DEF Flagged, Tokens, GateType, PoolKinds
<1>7. OneJobAtATime'
  BY <1>1 DEF OneJobAtATime, Holds, Live, JobOf, GateType
<1> QED
  BY <1>2, <1>4, <1>6, <1>7

(* A row action gives back the one place it took. *)
LEMMA FinishActionKeeps ==
  ASSUME GateInv, NEW g \in Goroutines, FinishAction(g)
  PROVE  GateInv'
<1> USE DEF GateInv
<1>1. /\ kind[g] = "row"
      /\ kind' = [kind EXCEPT ![g] = "none"]
      /\ token' = [token EXCEPT ![g] = 0]
      /\ pc' = [pc EXCEPT ![g] = "idle"]
      /\ actionInFlight' = actionInFlight - 1
      /\ UNCHANGED <<shuttingDown, running, runID, applying, applyDraining,
                     applyRunID, pool, shut>>
  BY DEF FinishAction, Retire, Goto
<1>2. RowJobs' = RowJobs \ {g} /\ g \in RowJobs
  BY <1>1 DEF RowJobs, GateType
<1>3. RowsCounted'
  BY <1>1, <1>2, RowsFinite, FS_RemoveElement DEF RowsCounted
<1>4. actionInFlight' \in Nat
  BY <1>2, <1>3, RowsFinite, FS_RemoveElement, FS_CardinalityType DEF RowsCounted
<1>5. GateType'
  BY <1>1, <1>4 DEF GateType, Kinds, Labels
<1>6. Flagged' /\ Tokens'
  BY <1>1 DEF Flagged, Tokens, GateType, PoolKinds
<1>7. OneJobAtATime'
  BY <1>1 DEF OneJobAtATime, Holds, Live, JobOf, GateType
<1> QED
  BY <1>3, <1>5, <1>6, <1>7

(* The slot is released by the job that holds it. *)
LEMMA ReleasePoolKeeps ==
  ASSUME GateInv, NEW g \in Goroutines, ReleasePool(g)
  PROVE  GateInv'
<1> USE DEF GateInv
<1>1. /\ kind[g] \in PoolKinds
      /\ kind' = [kind EXCEPT ![g] = "none"]
      /\ token' = [token EXCEPT ![g] = 0]
      /\ pc' = [pc EXCEPT ![g] = "idle"]
      /\ pool' = [pool EXCEPT !.running = FALSE]
      /\ UNCHANGED <<gateVars, shut>>
  BY DEF ReleasePool, Retire, Goto
<1>2. GateType'
  BY <1>1 DEF GateType, Kinds, Labels, gateVars
<1>3. RowJobs' = RowJobs
  BY <1>1 DEF RowJobs, GateType, PoolKinds
<1>4. RowsCounted'
  BY <1>1, <1>3 DEF RowsCounted, gateVars
<1>5. \A h \in Goroutines : h # g => kind[h] \notin PoolKinds
  BY <1>1 DEF OneJobAtATime, Holds, Live, JobOf, PoolKinds
<1>6. Flagged' /\ Tokens'
  BY <1>1, <1>5 DEF Flagged, Tokens, GateType, PoolKinds, gateVars
<1>7. OneJobAtATime'
  BY <1>1 DEF OneJobAtATime, Holds, Live, JobOf, GateType, gateVars
<1> QED
  BY <1>2, <1>4, <1>6, <1>7

-----------------------------------------------------------------------------
(* Stop and shutdown.                                                      *)

(* A job that is asked to stop keeps the gate until it is over. *)
LEMMA StopKeeps ==
  ASSUME GateInv, StopRequested \/ ShutdownStopsUnban
  PROVE  GateInv'
<1> USE DEF GateInv
<1>1. /\ UNCHANGED <<gateVars, kind, pc, token>>
      /\ \/ UNCHANGED shut
         \/ shut = "stopUnban" /\ shut' = "waitRuns"
      /\ StopUnban
  BY DEF StopRequested, ShutdownStopsUnban, ShutStep, jobVars
<1>2. /\ DOMAIN pool' = DOMAIN NoTally
      /\ pool'.running = pool.running /\ pool'.runID = pool.runID
  BY <1>1 DEF StopUnban, GateType, NoTally
<1>3. GateType' /\ RowsCounted' /\ Tokens'
  BY <1>1, <1>2 DEF GateType, RowsCounted, RowJobs, Tokens, gateVars
<1>4. Flagged'
  BY <1>1, <1>2 DEF Flagged, gateVars
<1>5. OneJobAtATime'
  BY <1>1 DEF OneJobAtATime, Holds, Live, JobOf, gateVars
<1> QED
  BY <1>3, <1>4, <1>5

(* An engine that is stopped or shut down leaves the other jobs at work. *)
LEMMA StopEngineKeeps ==
  ASSUME GateInv, StopEngine \/ ShutdownGate
  PROVE  GateInv'
<1> USE DEF GateInv
<1>1. /\ UNCHANGED <<kind, pc, token, actionInFlight, pool>>
      /\ runID' \in {runID, runID + 1} /\ applyRunID' \in {applyRunID, applyRunID + 1}
      /\ applying \/ applyDraining => applyDraining'
      /\ shuttingDown => shuttingDown'
      /\ \/ ~running' /\ UNCHANGED shut
         \/ shut' = "stopUnban" /\ shuttingDown'
  <2>1. CASE StopEngine
    BY <2>1 DEF StopEngine, jobVars
  <2>2. CASE ShutdownGate
    BY <2>2 DEF ShutdownGate, ShutStep, jobVars
  <2> QED
    BY <2>1, <2>2
<1>2. GateType' /\ RowsCounted' /\ Tokens'
  BY <1>1 DEF GateType, RowsCounted, RowJobs, Tokens
<1>3. Flagged'
  BY <1>1 DEF Flagged
<1>4. \A g \in Goroutines : Holds(g)' => Holds(g) /\ kind[g] # "inspect"
  BY <1>1 DEF Holds, Live
<1>5. OneJobAtATime'
  BY <1>1, <1>4 DEF OneJobAtATime, JobOf
<1> QED
  BY <1>2, <1>3, <1>5

(* The waits of the shutdown change no flag. *)
LEMMA WaitKeeps ==
  ASSUME GateInv, RunsOver \/ UnbanOver \/ FinalFlush \/ ShutdownDone
  PROVE  GateInv'
<1> USE DEF GateInv
<1>1. /\ UNCHANGED <<kind, pc, token, actionInFlight, pool, runID, applyRunID,
                     running, shuttingDown>>
      /\ shut' # "no" /\ shut # "no"
      /\ \A g \in Goroutines : kind[g] \in {"none"} \union PoolKinds
  BY DEF RunsOver, UnbanOver, FinalFlush, ShutdownDone, ShutStep, WaitStep,
         gateVars, jobVars, Flagged
<1>2. GateType' /\ RowsCounted' /\ Tokens'
  BY <1>1 DEF GateType, RowsCounted, RowJobs, Tokens
<1>3. Flagged'
  BY <1>1 DEF Flagged, PoolKinds
<1>4. OneJobAtATime'
  BY <1>1 DEF OneJobAtATime, Holds, Live, JobOf
<1> QED
  BY <1>2, <1>3, <1>4

(* Every step keeps the invariant of the gate. *)
LEMMA NextGate ==
  ASSUME GateInv, [Next]_vars
  PROVE  GateInv'
<1>1. CASE \E g \in Goroutines : Start(g)
  BY <1>1, StartRunKeeps, StartActionKeeps, StartApplyKeeps, StartPoolKeeps DEF Start
<1>2. CASE \E g \in Goroutines : Step(g)
  BY <1>2, FinishRunKeeps, FinishApplyKeeps, FinishActionKeeps, ReleasePoolKeeps,
     ApplyKeeps, PoolKeeps DEF Step
<1>3. CASE StopRequested \/ StopEngine \/ Shutdown
  BY <1>3, StopKeeps, StopEngineKeeps, WaitKeeps DEF Shutdown
<1>4. CASE UNCHANGED vars
  BY <1>4 DEF vars, gateVars, jobVars, GateInv, GateType, RowsCounted, RowJobs,
     Flagged, Tokens, OneJobAtATime, Holds, Live, JobOf
<1> QED
  BY <1>1, <1>2, <1>3, <1>4 DEF Next

(* The flags tell of every goroutine at work, in every state. *)
THEOREM GateInvariant == Spec => []GateInv
<1>1. Init => GateInv
  BY InitGate
<1>2. GateInv /\ [Next]_vars => GateInv'
  BY NextGate
<1> QED
  BY <1>1, <1>2, PTL DEF Spec

(* Two jobs never change accounts at the same time, row actions excepted:  *)
(* the flags that startApply, the row actions, the pool jobs and the start *)
(* of an inspection look at tell of every goroutine that is still at work, *)
(* also after a stop and while the plugin is unloaded.                     *)
THEOREM OneJob == Spec => []OneJobAtATime
BY GateInvariant, PTL DEF GateInv

-----------------------------------------------------------------------------
(* The refinement: who holds the gate, before and after a step.            *)
Holders == {JobOf(g) : g \in {h \in Goroutines : Holds(h)}}

(* A job starts where nobody is in its way. *)
LEMMA StartClaims ==
  ASSUME GateInv, NEW g \in Goroutines, Start(g)
  PROVE  \E k \in {"inspect", "apply", "rows", "pool"} :
           /\ ~shuttingDown /\ Holders \subseteq {"rows"} \intersect {k}
           /\ Holders' = {k} /\ UNCHANGED shuttingDown
<1>1. CASE StartRun(g)
  <2>1. \A h \in Goroutines : ~Holds(h)
    BY <1>1, Nobody DEF StartRun
  <2>2. Holds(g)' /\ JobOf(g)' = "inspect"
    BY <1>1 DEF StartRun, Spawn, Holds, JobOf, GateInv, GateType
  <2>3. \A h \in Goroutines \ {g} : ~Holds(h)'
    BY <1>1, <2>1 DEF StartRun, Spawn, Holds, Live, GateInv, GateType, Tokens
  <2> QED
    BY <1>1, <2>1, <2>2, <2>3 DEF Holders, StartRun
<1>2. CASE StartAction(g)
  <2>1. \A h \in Goroutines : Holds(h) => kind[h] = "row"
    BY <1>2, OnlyRows DEF StartAction
  <2>2. Holds(g)' /\ JobOf(g)' = "rows"
    BY <1>2 DEF StartAction, Spawn, Holds, Live, JobOf, GateInv, GateType
  <2>3. \A h \in Goroutines \ {g} : Holds(h)' => JobOf(h)' = "rows"
    BY <1>2, <2>1 DEF StartAction, Spawn, Holds, Live, JobOf, GateInv, GateType
  <2>4. Holders \subseteq {"rows"}
    BY <2>1 DEF Holders, JobOf
  <2> QED
    BY <1>2, <2>2, <2>3, <2>4 DEF Holders, StartAction
<1>3. CASE \E d, n \in 0 .. MaxItems : StartApply(g, d, n)
  <2> PICK d \in 0 .. MaxItems, n \in 0 .. MaxItems : StartApply(g, d, n)
    BY <1>3
  <2>1. \A h \in Goroutines : ~Holds(h)
    BY Nobody DEF StartApply
  <2>2. Holds(g)' /\ JobOf(g)' = "apply"
    BY DEF StartApply, Spawn, Holds, Live, JobOf, GateInv, GateType
  <2>3. \A h \in Goroutines \ {g} : ~Holds(h)'
    BY <2>1 DEF StartApply, Spawn, Holds, Live, GateInv, GateType
  <2> QED
    BY <2>1, <2>2, <2>3 DEF Holders, StartApply
<1>4. CASE \E k \in PoolKinds, n \in 1 .. MaxItems : StartPool(g, k, n)
  <2> PICK k \in PoolKinds, n \in 1 .. MaxItems : StartPool(g, k, n)
    BY <1>4
  <2>1. \A h \in Goroutines : ~Holds(h)
    BY Nobody DEF StartPool
  <2>0. kind' = [kind EXCEPT ![g] = k] /\ UNCHANGED gateVars /\ ~shuttingDown
    BY DEF StartPool, Spawn, PoolKinds
  <2>2. Holds(g)' /\ JobOf(g)' = "pool"
    BY <2>0 DEF Holds, Live, JobOf, GateInv, GateType, PoolKinds
  <2>3. \A h \in Goroutines \ {g} : ~Holds(h)'
    <3>1. token' = [token EXCEPT ![g] = pool.runID + 1]
      BY DEF StartPool, Spawn, PoolKinds
    <3> QED
      BY <2>0, <2>1, <3>1 DEF Holds, Live, GateInv, GateType, gateVars
  <2> QED
    BY <2>0, <2>1, <2>2, <2>3 DEF Holders, gateVars
<1> QED
  BY <1>1, <1>2, <1>3, <1>4 DEF Start

(* What a finished or stopped job leaves behind. *)
LEMMA EndReleases ==
  ASSUME GateInv, NEW g \in Goroutines, Step(g)
  PROVE  (Holders' = {} \/ Holders' = Holders) /\ UNCHANGED shuttingDown
<1> USE DEF Holders
<1>1. CASE FinishRun(g)
  <2>1. kind[g] = "inspect" /\ kind' = [kind EXCEPT ![g] = "none"]
        /\ token' = [token EXCEPT ![g] = 0]
        /\ UNCHANGED <<shuttingDown, runID>>
    BY <1>1 DEF FinishRun, Retire
  <2>0. running' <=> running /\ runID # token[g]
    BY <1>1, Zenon DEF FinishRun
  <2>2. CASE Holds(g)
    <3>1. \A h \in Goroutines \ {g} : ~Holds(h)
      BY <2>1, <2>2 DEF GateInv, OneJobAtATime, JobOf
    <3>0. ~running'
      BY <2>0, <2>1, <2>2 DEF Holds
    <3>2. \A h \in Goroutines : ~Holds(h)'
      BY <2>1, <3>0, <3>1 DEF Holds, Live, GateInv, GateType
    <3> QED
      BY <2>1, <3>2
  <2>3. CASE ~Holds(g)
    <3>0. ~shuttingDown => (running' <=> running)
      BY <2>0, <2>1, <2>3 DEF Holds
    <3>1. \A h \in Goroutines : Holds(h)' <=> Holds(h)
      BY <2>1, <2>3, <3>0 DEF Holds, Live, GateInv, GateType
    <3>2. \A h \in Goroutines : Holds(h) => JobOf(h)' = JobOf(h)
      BY <2>1, <2>3 DEF JobOf, GateInv, GateType
    <3> QED
      BY <2>1, <3>1, <3>2
  <2> QED
    BY <2>2, <2>3
<1>2. CASE FinishApply(g)
  <2>1. Holds(g) /\ JobOf(g) = "apply" /\ kind' = [kind EXCEPT ![g] = "none"]
        /\ UNCHANGED shuttingDown /\ token' = [token EXCEPT ![g] = 0]
        /\ UNCHANGED <<running, runID>>
    BY <1>2 DEF FinishApply, Retire, Holds, Live, JobOf
  <2>2. \A h \in Goroutines \ {g} : ~Holds(h)
    BY <2>1 DEF GateInv, OneJobAtATime
  <2>3. \A h \in Goroutines : ~Holds(h)'
    BY <2>1, <2>2 DEF Holds, Live, GateInv, GateType
  <2> QED
    BY <2>1, <2>3
<1>3. CASE ReleasePool(g)
  <2>1. Holds(g) /\ JobOf(g) = "pool" /\ kind' = [kind EXCEPT ![g] = "none"]
        /\ token' = [token EXCEPT ![g] = 0] /\ UNCHANGED gateVars
    BY <1>3 DEF ReleasePool, Retire, Holds, Live, JobOf, PoolKinds
  <2>2. \A h \in Goroutines \ {g} : ~Holds(h)
    BY <2>1 DEF GateInv, OneJobAtATime
  <2>3. \A h \in Goroutines : ~Holds(h)'
    BY <2>1, <2>2 DEF Holds, Live, GateInv, GateType, gateVars
  <2> QED
    BY <2>1, <2>3 DEF gateVars
<1>4. CASE FinishAction(g)
  <2>1. Holds(g) /\ JobOf(g) = "rows" /\ kind' = [kind EXCEPT ![g] = "none"]
        /\ token' = [token EXCEPT ![g] = 0]
        /\ UNCHANGED <<shuttingDown, running, runID>>
    BY <1>4 DEF FinishAction, Retire, Holds, Live, JobOf
  <2>2. \A h \in Goroutines : Holds(h) => JobOf(h) = "rows"
    BY <2>1 DEF GateInv, OneJobAtATime
  <2>3. \A h \in Goroutines : Holds(h)' => Holds(h) /\ JobOf(h)' = JobOf(h)
    BY <2>1 DEF Holds, Live, JobOf, GateInv, GateType
  <2>4. Holders = {"rows"} /\ Holders' \subseteq {"rows"}
    BY <2>1, <2>2, <2>3
  <2> QED
    BY <2>1, <2>4
<1>5. CASE UNCHANGED <<gateVars, kind, token>>
  BY <1>5 DEF Holds, Live, JobOf, gateVars
<1>6. \/ FinishRun(g) \/ FinishApply(g) \/ ReleasePool(g) \/ FinishAction(g)
      \/ UNCHANGED <<gateVars, kind, token>>
  BY DEF Step, DeleteChunk, DeleteReturns, DeletesOver, StartWorker, WorkersOver,
         WorkerCalls, WorkerReturns, ApplyStep, NextUnban, UnbanReturns,
         ResolveDelete, Resolved, DeleteBans, TallyDelete, PoolLoopOver, SavePool,
         PoolStep
<1> QED
  BY <1>1, <1>2, <1>3, <1>4, <1>5, <1>6

(* A stop, and the closing of the gate, take the gate from an inspection. *)
LEMMA StopReleases ==
  ASSUME GateInv, StopRequested \/ StopEngine \/ Shutdown
  PROVE  \/ Holders' \in {{}, Holders} /\ UNCHANGED shuttingDown
         \/ Holders' \in {Holders, Holders \ {"inspect"}} /\ shuttingDown' = TRUE
<1> USE DEF Holders
<1>1. CASE StopEngine
  <2>1. UNCHANGED <<kind, token, shuttingDown>> /\ ~running'
    BY <1>1 DEF StopEngine, jobVars
  <2>2. \A h \in Goroutines : Holds(h)' <=> Holds(h) /\ kind[h] # "inspect"
    BY <2>1 DEF Holds, Live
  <2>3. CASE \E h \in Goroutines : Holds(h) /\ kind[h] = "inspect"
    <3>1. \A h \in Goroutines : Holds(h) => kind[h] = "inspect"
      BY <2>3 DEF GateInv, OneJobAtATime, JobOf
    <3> QED
      BY <2>1, <2>2, <3>1
  <2>4. CASE \A h \in Goroutines : Holds(h) => kind[h] # "inspect"
    BY <2>1, <2>2, <2>4 DEF JobOf
  <2> QED
    BY <2>3, <2>4
<1>2. CASE ShutdownGate
  <2>1. UNCHANGED <<kind, token>> /\ shuttingDown' = TRUE
    BY <1>2 DEF ShutdownGate, jobVars
  <2>2. \A h \in Goroutines : Holds(h)' <=> Holds(h) /\ JobOf(h) # "inspect"
    BY <2>1 DEF Holds, Live, JobOf
  <2>3. Holders' = Holders \ {"inspect"}
    BY <2>1, <2>2 DEF JobOf
  <2> QED
    BY <2>1, <2>3
<1>3. CASE StopRequested \/ ShutdownStopsUnban \/ RunsOver \/ UnbanOver \/ FinalFlush
           \/ ShutdownDone
  <2>1. UNCHANGED <<kind, token, shuttingDown, running, runID>>
    BY <1>3 DEF StopRequested, ShutdownStopsUnban, RunsOver, UnbanOver, FinalFlush,
       ShutdownDone, WaitStep, gateVars, jobVars
  <2> QED
    BY <2>1 DEF Holds, Live, JobOf
<1> QED
  BY <1>1, <1>2, <1>3 DEF Shutdown

(* The flags, tokens and goroutines implement the abstract gate: every job *)
(* starts where nobody is in its way, what ends lets go, and nothing       *)
(* starts once the plugin is being unloaded.                               *)
THEOREM GateRefinement == Spec => ImplementsJobGate
<1>1. Init => Gate!Init
  BY DEF Init, Gate!Init, Holds, Live
<1>2. GateInv /\ [Next]_vars => [Gate!Next]_(Gate!vars)
  <2> SUFFICES ASSUME GateInv, [Next]_vars
               PROVE  [Gate!Next]_(Gate!vars)
    OBVIOUS
  <2> USE DEF Gate!Next, Gate!Claim, Gate!Release, Gate!Close, Gate!vars,
              Gate!JobKinds, Holders
  <2>1. CASE \E g \in Goroutines : Start(g)
    BY <2>1, StartClaims
  <2>2. CASE \E g \in Goroutines : Step(g)
    BY <2>2, EndReleases
  <2>3. CASE StopRequested \/ StopEngine \/ Shutdown
    BY <2>3, StopReleases
  <2>4. CASE UNCHANGED vars
    BY <2>4 DEF vars, gateVars, jobVars, Holds, Live, JobOf
  <2> QED
    BY <2>1, <2>2, <2>3, <2>4 DEF Next
<1> QED
  BY <1>1, <1>2, GateInvariant, PTL DEF Spec, ImplementsJobGate, Gate!Spec

-----------------------------------------------------------------------------
(* The numbers of the page.                                                *)

(* Where the accounts of goroutine g can be, by its job and its place.     *)
ItemsOf(g) ==
  /\ kind[g] \in {"none", "inspect", "row"} =>
       /\ del[g] = 0 /\ batch[g] = 0 /\ todo[g] = 0
       /\ spawned[g] = 0 /\ calls[g] = 0
  /\ kind[g] = "apply" =>
       /\ pc[g] \in {"deletes", "deleting", "others", "drain", "exit"}
       /\ pc[g] # "deleting" => batch[g] = 0
       /\ pc[g] \notin {"others", "drain"} => spawned[g] = 0 /\ calls[g] = 0
       /\ token[g] <= applyRunID
       /\ Mine(g) => applying
  /\ kind[g] \in PoolKinds =>
       /\ pc[g] \in {"resolve", "loop", "call", "tally", "save", "release"}
       /\ spawned[g] = 0 /\ calls[g] = 0
       /\ kind[g] # "delete" => del[g] = 0
       /\ pc[g] \in {"call", "tally"} /\ kind[g] # "delete" => todo[g] > 0
       /\ pc[g] # "tally" => batch[g] = 0
       /\ token[g] = pool.runID
       /\ pc[g] # "release" => ~pool.persistError

(* The numbers of the last job of the ban pool. *)
PoolType == [running : BOOLEAN, stopped : BOOLEAN, runID : Nat, done : Nat,
             total : Nat, enabled : Nat, missing : Nat, deleted : Nat,
             failed : Nat, persistError : BOOLEAN]

(* All of them are natural numbers. *)
ProgressType ==
  /\ applyDone \in Nat /\ applyTotal \in Nat
  /\ pool \in PoolType
  /\ del \in [Goroutines -> Nat] /\ batch \in [Goroutines -> Nat]
  /\ todo \in [Goroutines -> Nat] /\ spawned \in [Goroutines -> Nat]
  /\ calls \in [Goroutines -> Nat]

(* ProgressAddsUp is not inductive: an account must not be counted from    *)
(* where it cannot be, a stopped apply must not find its token again, and  *)
(* a pool job must have the slot, with no failed save yet, while it works. *)
ProgressInv ==
  ProgressType /\ (\A g \in Goroutines : ItemsOf(g)) /\ ProgressAddsUp

(* The numbers and the accounts of a goroutine that is not the one that    *)
(* steps stay what they are.                                               *)
Same(h) == /\ kind'[h] = kind[h] /\ pc'[h] = pc[h] /\ token'[h] = token[h]
           /\ del'[h] = del[h] /\ batch'[h] = batch[h] /\ todo'[h] = todo[h]
           /\ spawned'[h] = spawned[h] /\ calls'[h] = calls[h]

(* A step of runApply moves accounts of its own goroutine only. *)
LEMMA ApplyNumbers ==
  ASSUME ProgressInv, GateInv, NEW g \in Goroutines, kind[g] = "apply", ApplyStep,
         \A h \in Goroutines \ {g} : Same(h),
         ProgressType', ItemsOf(g)',
         Mine(g) => applyDone' + del'[g] + batch'[g] + todo'[g] + spawned'[g] + calls'[g]
                    = applyTotal
  PROVE  ProgressInv'
<1>1. UNCHANGED <<pool, kind, token, applyRunID, applying, applyTotal>>
  BY DEF ApplyStep, gateVars
<1>2. \A h \in Goroutines : ItemsOf(h)'
  <2> SUFFICES ASSUME NEW h \in Goroutines \ {g} PROVE ItemsOf(h)'
    OBVIOUS
  <2> QED
    BY <1>1 DEF ProgressInv, ItemsOf, Same, Mine
<1>3. \A h \in Goroutines \ {g} : kind[h] # "apply" /\ kind[h] \notin PoolKinds
  BY DEF GateInv, OneJobAtATime, Holds, Live, JobOf, PoolKinds
<1>4. ApplyAddsUp'
  BY <1>1, <1>3 DEF ApplyAddsUp, Mine
<1>5. PoolAddsUp'
  BY <1>1, <1>3 DEF PoolAddsUp, ProgressInv, ProgressAddsUp, PoolKinds
<1> QED
  BY <1>2, <1>4, <1>5 DEF ProgressInv, ProgressAddsUp

(* A step of a bulk apply keeps the numbers right. *)
LEMMA ApplyProgress ==
  ASSUME ProgressInv, GateInv, NEW g \in Goroutines,
         \/ DeleteChunk(g) \/ DeleteReturns(g) \/ DeletesOver(g)
         \/ StartWorker(g) \/ WorkersOver(g) \/ WorkerCalls(g) \/ WorkerReturns(g)
  PROVE  ProgressInv'
<1> USE DEF ApplyStep, Inner, Goto, itemVars, gateVars
<1>0. ProgressType /\ ItemsOf(g) /\ GateType
      /\ (kind[g] = "apply" /\ Mine(g) =>
            applyDone + del[g] + batch[g] + todo[g] + spawned[g] + calls[g] = applyTotal)
  BY DEF ProgressInv, GateInv, ProgressAddsUp, ApplyAddsUp
<1>1. CASE DeleteChunk(g)
  <2>1. Smaller(del[g], DeleteBatch) \in 0 .. del[g]
    BY <1>0, JobsAssumption DEF Smaller, ProgressType
  <2>2. ProgressType'
    BY <1>0, <1>1, <2>1 DEF DeleteChunk, ProgressType
  <2>3. ItemsOf(g)'
    BY <1>0, <1>1, <2>1 DEF DeleteChunk, ProgressType, ItemsOf, GateType, Mine, PoolKinds
  <2>4. \A h \in Goroutines \ {g} : Same(h)
    BY <1>0, <1>1 DEF DeleteChunk, Same, ProgressType, GateType
  <2>5. Mine(g) => applyDone' + del'[g] + batch'[g] + todo'[g] + spawned'[g] + calls'[g]
                   = applyTotal
    BY <1>0, <1>1, <2>1 DEF DeleteChunk, ProgressType, ItemsOf, PoolKinds
  <2> QED
    BY <1>1, <2>2, <2>3, <2>4, <2>5, ApplyNumbers DEF DeleteChunk
<1>2. CASE DeleteReturns(g)
  <2>2. ProgressType'
    BY <1>0, <1>2 DEF DeleteReturns, ProgressType
  <2>3. ItemsOf(g)'
    BY <1>0, <1>2 DEF DeleteReturns, ProgressType, ItemsOf, GateType, Mine, PoolKinds
  <2>4. \A h \in Goroutines \ {g} : Same(h)
    BY <1>0, <1>2 DEF DeleteReturns, Same, ProgressType, GateType
  <2>5. Mine(g) => applyDone' + del'[g] + batch'[g] + todo'[g] + spawned'[g] + calls'[g]
                   = applyTotal
    BY <1>0, <1>2 DEF DeleteReturns, ProgressType
  <2> QED
    BY <1>2, <2>2, <2>3, <2>4, <2>5, ApplyNumbers DEF DeleteReturns
<1>3. CASE DeletesOver(g) \/ WorkersOver(g)
  <2>2. ProgressType'
    BY <1>0, <1>3 DEF DeletesOver, WorkersOver, ProgressType
  <2>3. ItemsOf(g)'
    BY <1>0, <1>3 DEF DeletesOver, WorkersOver, ProgressType, ItemsOf, GateType, Mine, PoolKinds
  <2>4. \A h \in Goroutines \ {g} : Same(h)
    BY <1>0, <1>3 DEF DeletesOver, WorkersOver, Same, ProgressType, GateType
  <2>5. Mine(g) => applyDone' + del'[g] + batch'[g] + todo'[g] + spawned'[g] + calls'[g]
                   = applyTotal
    BY <1>0, <1>3 DEF DeletesOver, WorkersOver, ProgressType
  <2> QED
    BY <1>3, <2>2, <2>3, <2>4, <2>5, ApplyNumbers DEF DeletesOver, WorkersOver
<1>4. CASE StartWorker(g)
  <2>2. ProgressType'
    BY <1>0, <1>4 DEF StartWorker, ProgressType
  <2>3. ItemsOf(g)'
    BY <1>0, <1>4 DEF StartWorker, ProgressType, ItemsOf, GateType, Mine, PoolKinds
  <2>4. \A h \in Goroutines \ {g} : Same(h)
    BY <1>0, <1>4 DEF StartWorker, Same, ProgressType, GateType
  <2>5. Mine(g) => applyDone' + del'[g] + batch'[g] + todo'[g] + spawned'[g] + calls'[g]
                   = applyTotal
    BY <1>0, <1>4 DEF StartWorker, ProgressType
  <2> QED
    BY <1>4, <2>2, <2>3, <2>4, <2>5, ApplyNumbers DEF StartWorker
<1>5. CASE WorkerCalls(g)
  <2>2. ProgressType'
    BY <1>0, <1>5 DEF WorkerCalls, ProgressType
  <2>3. ItemsOf(g)'
    BY <1>0, <1>5 DEF WorkerCalls, ProgressType, ItemsOf, GateType, Mine, PoolKinds
  <2>4. \A h \in Goroutines \ {g} : Same(h)
    BY <1>0, <1>5 DEF WorkerCalls, Same, ProgressType, GateType
  <2>5. Mine(g) => applyDone' + del'[g] + batch'[g] + todo'[g] + spawned'[g] + calls'[g]
                   = applyTotal
    BY <1>0, <1>5 DEF WorkerCalls, ProgressType, ApplyActive, ItemsOf
  <2> QED
    BY <1>5, <2>2, <2>3, <2>4, <2>5, ApplyNumbers DEF WorkerCalls
<1>6. CASE WorkerReturns(g)
  <2>2. ProgressType'
    BY <1>0, <1>6 DEF WorkerReturns, ProgressType
  <2>3. ItemsOf(g)'
    BY <1>0, <1>6 DEF WorkerReturns, ProgressType, ItemsOf, GateType, Mine, PoolKinds
  <2>4. \A h \in Goroutines \ {g} : Same(h)
    BY <1>0, <1>6 DEF WorkerReturns, Same, ProgressType, GateType
  <2>5. Mine(g) => applyDone' + del'[g] + batch'[g] + todo'[g] + spawned'[g] + calls'[g]
                   = applyTotal
    BY <1>0, <1>6 DEF WorkerReturns, ProgressType
  <2> QED
    BY <1>6, <2>2, <2>3, <2>4, <2>5, ApplyNumbers DEF WorkerReturns
<1> QED
  BY <1>1, <1>2, <1>3, <1>4, <1>5, <1>6

(* The numbers of the pool job, when its own goroutine steps. *)
LEMMA PoolNumbers ==
  ASSUME ProgressInv, GateInv, NEW g \in Goroutines, kind[g] \in PoolKinds, PoolStep,
         \A h \in Goroutines \ {g} : Same(h),
         ProgressType', ItemsOf(g)',
         pool'.done + (IF pool'.persistError THEN 1 ELSE 0)
           = pool'.enabled + pool'.missing + pool'.deleted + pool'.failed,
         pool'.done + del'[g] + batch'[g] + todo'[g] = pool'.total
  PROVE  ProgressInv'
<1>1. UNCHANGED <<kind, token, applyRunID, applying, applyDone, applyTotal>>
  BY DEF PoolStep, gateVars, progressVars
<1>2. \A h \in Goroutines \ {g} : kind[h] # "apply" /\ kind[h] \notin PoolKinds
  BY DEF GateInv, OneJobAtATime, Holds, Live, JobOf, PoolKinds
<1>3. \A h \in Goroutines : ItemsOf(h)'
  <2> SUFFICES ASSUME NEW h \in Goroutines \ {g} PROVE ItemsOf(h)'
    OBVIOUS
  <2> QED
    BY <1>1, <1>2 DEF ProgressInv, ItemsOf, Same
<1>4. ApplyAddsUp'
  BY <1>1, <1>2 DEF ApplyAddsUp, PoolKinds
<1>5. PoolAddsUp'
  BY <1>1, <1>2 DEF PoolAddsUp
<1> QED
  BY <1>3, <1>4, <1>5 DEF ProgressInv, ProgressAddsUp

(* What counting one account does to the numbers of the owner's job. *)
LEMMA TalliedNumbers ==
  ASSUME ProgressType, NEW g \in Goroutines, Owns(g),
         NEW o \in {"enabled", "missing", "deleted", "failed"}
  PROVE  /\ Tallied(g, o) \in PoolType
         /\ Tallied(g, o).done = pool.done + 1
         /\ Tallied(g, o).total = pool.total
         /\ Tallied(g, o).runID = pool.runID
         /\ Tallied(g, o).persistError = pool.persistError
         /\ Tallied(g, o).enabled + Tallied(g, o).missing + Tallied(g, o).deleted
              + Tallied(g, o).failed
            = pool.enabled + pool.missing + pool.deleted + pool.failed + 1
<1>0. pool \in PoolType
  BY DEF ProgressType
<1>1. CASE o = "enabled"
  <2> DEFINE counted == [pool EXCEPT !.enabled = pool.enabled + 1]
  <2>1. Tallied(g, o) = [counted EXCEPT !.done = pool.done + 1]
    BY <1>1 DEF Tallied
  <2>2. /\ counted \in PoolType /\ counted.enabled = pool.enabled + 1
        /\ counted.missing = pool.missing /\ counted.deleted = pool.deleted
        /\ counted.failed = pool.failed /\ counted.total = pool.total
        /\ counted.runID = pool.runID /\ counted.persistError = pool.persistError
    BY <1>0 DEF PoolType
  <2> HIDE DEF counted
  <2>3. pool.done + 1 \in Nat
    BY <1>0 DEF PoolType
  <2> QED
    BY <1>0, <2>1, <2>2, <2>3 DEF PoolType
<1>2. CASE o = "missing"
  <2> DEFINE counted == [pool EXCEPT !.missing = pool.missing + 1]
  <2>1. Tallied(g, o) = [counted EXCEPT !.done = pool.done + 1]
    BY <1>2 DEF Tallied
  <2>2. /\ counted \in PoolType /\ counted.missing = pool.missing + 1
        /\ counted.enabled = pool.enabled /\ counted.deleted = pool.deleted
        /\ counted.failed = pool.failed /\ counted.total = pool.total
        /\ counted.runID = pool.runID /\ counted.persistError = pool.persistError
    BY <1>0 DEF PoolType
  <2> HIDE DEF counted
  <2>3. pool.done + 1 \in Nat
    BY <1>0 DEF PoolType
  <2> QED
    BY <1>0, <2>1, <2>2, <2>3 DEF PoolType
<1>3. CASE o = "deleted"
  <2> DEFINE counted == [pool EXCEPT !.deleted = pool.deleted + 1]
  <2>1. Tallied(g, o) = [counted EXCEPT !.done = pool.done + 1]
    BY <1>3 DEF Tallied
  <2>2. /\ counted \in PoolType /\ counted.deleted = pool.deleted + 1
        /\ counted.enabled = pool.enabled /\ counted.missing = pool.missing
        /\ counted.failed = pool.failed /\ counted.total = pool.total
        /\ counted.runID = pool.runID /\ counted.persistError = pool.persistError
    BY <1>0 DEF PoolType
  <2> HIDE DEF counted
  <2>3. pool.done + 1 \in Nat
    BY <1>0 DEF PoolType
  <2> QED
    BY <1>0, <2>1, <2>2, <2>3 DEF PoolType
<1>4. CASE o = "failed"
  <2> DEFINE counted == [pool EXCEPT !.failed = pool.failed + 1]
  <2>1. Tallied(g, o) = [counted EXCEPT !.done = pool.done + 1]
    BY <1>4 DEF Tallied
  <2>2. /\ counted \in PoolType /\ counted.failed = pool.failed + 1
        /\ counted.enabled = pool.enabled /\ counted.missing = pool.missing
        /\ counted.deleted = pool.deleted /\ counted.total = pool.total
        /\ counted.runID = pool.runID /\ counted.persistError = pool.persistError
    BY <1>0 DEF PoolType
  <2> HIDE DEF counted
  <2>3. pool.done + 1 \in Nat
    BY <1>0 DEF PoolType
  <2> QED
    BY <1>0, <2>1, <2>2, <2>3 DEF PoolType
<1> QED
  BY <1>1, <1>2, <1>3, <1>4

(* A step of an unban or ban-delete job keeps the numbers right. *)
LEMMA PoolProgress ==
  ASSUME ProgressInv, GateInv, NEW g \in Goroutines,
         \/ NextUnban(g) \/ UnbanReturns(g) \/ ResolveDelete(g) \/ Resolved(g)
         \/ DeleteBans(g) \/ TallyDelete(g) \/ PoolLoopOver(g) \/ SavePool(g)
  PROVE  ProgressInv'
<1> USE DEF Inner, Goto, itemVars, gateVars, progressVars
<1>p. PoolStep /\ kind[g] \in PoolKinds
  BY DEF NextUnban, UnbanReturns, ResolveDelete, Resolved, DeleteBans,
         TallyDelete, PoolLoopOver, SavePool, PoolKinds
<1>0. /\ ProgressType /\ ItemsOf(g) /\ GateType
      /\ pool.done + del[g] + batch[g] + todo[g] = pool.total
      /\ pool.done + (IF pool.persistError THEN 1 ELSE 0)
           = pool.enabled + pool.missing + pool.deleted + pool.failed
      /\ Owns(g)
  BY <1>p DEF ProgressInv, GateInv, ProgressAddsUp, PoolAddsUp, Flagged, Owns, ItemsOf
<1>n. /\ pool.done \in Nat /\ pool.total \in Nat /\ pool.enabled \in Nat
      /\ pool.missing \in Nat /\ pool.deleted \in Nat /\ pool.failed \in Nat
      /\ pool.persistError \in BOOLEAN
      /\ del[g] \in Nat /\ batch[g] \in Nat /\ todo[g] \in Nat
  BY <1>0 DEF ProgressType, PoolType
<1>k. UNCHANGED <<kind, token, applyDone, applyTotal>>
  BY <1>p DEF PoolStep
<1>e. pool.done + del[g] + batch[g] + todo[g] = pool.total
  BY <1>0
<1>f. /\ del \in [Goroutines -> Nat] /\ batch \in [Goroutines -> Nat]
      /\ todo \in [Goroutines -> Nat]
  BY <1>0 DEF ProgressType
<1>s. \A h \in Goroutines \ {g} : Same(h)
  BY <1>0, <1>k DEF NextUnban, UnbanReturns, ResolveDelete, Resolved, DeleteBans,
         TallyDelete, PoolLoopOver, SavePool, Same, ProgressType, GateType
<1>1. CASE NextUnban(g) \/ PoolLoopOver(g) \/ Resolved(g)
  <2>1. UNCHANGED pool /\ UNCHANGED itemVars
    BY <1>1 DEF NextUnban, PoolLoopOver, Resolved
  <2>2. ProgressType'
    BY <1>0, <1>k, <2>1 DEF ProgressType
  <2>3. ItemsOf(g)'
    BY <1>0, <1>1, <1>k, <2>1 DEF NextUnban, PoolLoopOver, Resolved, ItemsOf, ProgressType,
       GateType, PoolKinds
  <2> QED
    BY <1>0, <1>p, <1>s, <2>1, <2>2, <2>3, PoolNumbers
<1>2. CASE UnbanReturns(g)
  <2>1. PICK o \in {"enabled", "missing", "failed"} : pool' = Tallied(g, o)
    BY <1>2 DEF UnbanReturns
  <2>2. todo[g] \in Nat \ {0} /\ todo' = [todo EXCEPT ![g] = todo[g] - 1]
    BY <1>0, <1>2 DEF UnbanReturns, ItemsOf, ProgressType, PoolKinds
  <2>3. ProgressType'
    BY <1>0, <1>2, <1>k, <2>1, <2>2, TalliedNumbers DEF UnbanReturns, ProgressType
  <2>4. pool'.done = pool.done + 1 /\ pool'.total = pool.total
        /\ pool'.runID = pool.runID /\ pool'.persistError = pool.persistError
        /\ pool'.enabled + pool'.missing + pool'.deleted + pool'.failed
            = pool.enabled + pool.missing + pool.deleted + pool.failed + 1
    BY <1>0, <2>1, TalliedNumbers
  <2>5. ItemsOf(g)'
    BY <1>0, <1>2, <1>k, <2>2, <2>4 DEF UnbanReturns, ItemsOf, ProgressType,
       GateType, PoolKinds
  <2>6. pool'.done + del'[g] + batch'[g] + todo'[g] = pool'.total
    <3>1. del'[g] = del[g] /\ batch'[g] = batch[g] /\ todo'[g] = todo[g] - 1
      BY <1>f, <1>2, <2>2 DEF UnbanReturns
    <3> QED
      BY <1>e, <1>n, <3>1, <2>4
  <2>7. pool'.done + (IF pool'.persistError THEN 1 ELSE 0)
           = pool'.enabled + pool'.missing + pool'.deleted + pool'.failed
    BY <1>0, <1>n, <2>4
  <2> QED
    BY <1>p, <1>s, <2>3, <2>5, <2>6, <2>7, PoolNumbers
<1>3. CASE ResolveDelete(g) /\ pool' = Tallied(g, "failed") /\ UNCHANGED todo
  <2>3. ProgressType'
    BY <1>0, <1>3, <1>k, TalliedNumbers DEF ResolveDelete, ProgressType
  <2>4. pool'.done = pool.done + 1 /\ pool'.total = pool.total
        /\ pool'.runID = pool.runID /\ pool'.persistError = pool.persistError
        /\ pool'.enabled + pool'.missing + pool'.deleted + pool'.failed
            = pool.enabled + pool.missing + pool.deleted + pool.failed + 1
    BY <1>0, <1>3, TalliedNumbers
  <2>5. ItemsOf(g)'
    BY <1>0, <1>3, <1>k, <2>4 DEF ResolveDelete, ItemsOf, ProgressType,
       GateType, PoolKinds
  <2>6. pool'.done + del'[g] + batch'[g] + todo'[g] = pool'.total
    <3>1. del'[g] = del[g] - 1 /\ batch'[g] = batch[g] /\ todo'[g] = todo[g]
      BY <1>f, <1>3 DEF ResolveDelete
    <3> QED
      BY <1>e, <1>n, <3>1, <2>4
  <2>7. pool'.done + (IF pool'.persistError THEN 1 ELSE 0)
           = pool'.enabled + pool'.missing + pool'.deleted + pool'.failed
    BY <1>0, <1>n, <2>4
  <2> QED
    BY <1>p, <1>s, <2>3, <2>5, <2>6, <2>7, PoolNumbers
<1>4. CASE ResolveDelete(g) /\ todo' = [todo EXCEPT ![g] = @ + 1] /\ UNCHANGED pool
  <2>3. ProgressType'
    BY <1>0, <1>4, <1>k DEF ResolveDelete, ProgressType
  <2>5. ItemsOf(g)'
    BY <1>0, <1>4, <1>k DEF ResolveDelete, ItemsOf, ProgressType, GateType, PoolKinds
  <2>6. pool'.done + del'[g] + batch'[g] + todo'[g] = pool'.total
    <3>1. /\ del'[g] = del[g] - 1 /\ batch'[g] = batch[g]
          /\ todo'[g] = todo[g] + 1 /\ UNCHANGED pool
      BY <1>f, <1>4 DEF ResolveDelete
    <3> QED
      BY <1>e, <1>n, <3>1
  <2> QED
    BY <1>0, <1>4, <1>p, <1>s, <2>3, <2>5, <2>6, PoolNumbers
<1>5. CASE DeleteBans(g)
  <2>1. Smaller(todo[g], DeleteBatch) \in 0 .. todo[g]
    BY <1>0, JobsAssumption DEF Smaller, ProgressType
  <2>3. ProgressType'
    BY <1>0, <1>5, <1>k, <2>1 DEF DeleteBans, ProgressType
  <2>5. ItemsOf(g)'
    BY <1>0, <1>5, <1>k, <2>1 DEF DeleteBans, ItemsOf, ProgressType, GateType, PoolKinds
  <2>6. pool'.done + del'[g] + batch'[g] + todo'[g] = pool'.total
    <3>1. /\ del'[g] = del[g] /\ batch'[g] = Smaller(todo[g], DeleteBatch)
          /\ todo'[g] = todo[g] - Smaller(todo[g], DeleteBatch) /\ UNCHANGED pool
      BY <1>f, <1>5 DEF DeleteBans
    <3>2. batch[g] = 0
      BY <1>0, <1>5 DEF DeleteBans, ItemsOf, PoolKinds
    <3> QED
      BY <1>e, <1>n, <2>1, <3>1, <3>2
  <2>7. UNCHANGED pool
    BY <1>5 DEF DeleteBans
  <2> QED
    BY <1>0, <1>p, <1>s, <2>3, <2>5, <2>6, <2>7, PoolNumbers
<1>6. CASE TallyDelete(g)
  <2>1. PICK o \in {"deleted", "failed"} : pool' = Tallied(g, o)
    BY <1>6 DEF TallyDelete
  <2>3. ProgressType'
    BY <1>0, <1>6, <1>k, <2>1, TalliedNumbers DEF TallyDelete, ProgressType
  <2>4. pool'.done = pool.done + 1 /\ pool'.total = pool.total
        /\ pool'.runID = pool.runID /\ pool'.persistError = pool.persistError
        /\ pool'.enabled + pool'.missing + pool'.deleted + pool'.failed
            = pool.enabled + pool.missing + pool.deleted + pool.failed + 1
    BY <1>0, <2>1, TalliedNumbers
  <2>5. ItemsOf(g)'
    BY <1>0, <1>6, <1>k, <2>4 DEF TallyDelete, ItemsOf, ProgressType,
       GateType, PoolKinds
  <2>6. pool'.done + del'[g] + batch'[g] + todo'[g] = pool'.total
    <3>1. del'[g] = del[g] /\ batch'[g] = batch[g] - 1 /\ todo'[g] = todo[g]
      BY <1>f, <1>6 DEF TallyDelete
    <3> QED
      BY <1>e, <1>n, <3>1, <2>4
  <2>7. pool'.done + (IF pool'.persistError THEN 1 ELSE 0)
           = pool'.enabled + pool'.missing + pool'.deleted + pool'.failed
    BY <1>0, <1>n, <2>4
  <2> QED
    BY <1>p, <1>s, <2>3, <2>5, <2>6, <2>7, PoolNumbers
<1>7. CASE SavePool(g)
  <2>1. UNCHANGED itemVars /\ pc[g] = "save" /\ pc'[g] = "release"
    BY <1>0, <1>7 DEF SavePool, GateType
  <2>2. pool.persistError = FALSE
    BY <1>0, <1>n, <1>p, <2>1 DEF ItemsOf
  <2>3. CASE UNCHANGED pool
    <3>1. ProgressType'
      BY <1>0, <1>k, <2>1, <2>3 DEF ProgressType
    <3>2. ItemsOf(g)'
      BY <1>0, <1>k, <1>p, <2>1, <2>3 DEF ItemsOf, PoolKinds
    <3> QED
      BY <1>0, <1>p, <1>s, <2>1, <2>3, <3>1, <3>2, PoolNumbers
  <2>4. CASE pool' = [pool EXCEPT !.persistError = TRUE, !.failed = @ + 1]
    <3>0. pool'.done = pool.done /\ pool'.total = pool.total
          /\ pool'.runID = pool.runID /\ pool'.persistError = TRUE
          /\ pool'.enabled = pool.enabled /\ pool'.missing = pool.missing
          /\ pool'.deleted = pool.deleted /\ pool'.failed = pool.failed + 1
      BY <1>0, <2>4 DEF ProgressType
    <3>5. pool' \in PoolType
      <4>1. pool \in PoolType /\ pool.failed + 1 \in Nat
        BY <1>0 DEF ProgressType, PoolType
      <4> QED
        BY <2>4, <4>1 DEF PoolType
    <3>1. ProgressType'
      BY <1>0, <1>k, <2>1, <3>5 DEF ProgressType
    <3>2. ItemsOf(g)'
      BY <1>0, <1>k, <1>p, <2>1, <3>0 DEF ItemsOf, PoolKinds
    <3>3. pool'.done + del'[g] + batch'[g] + todo'[g] = pool'.total
      BY <1>0, <1>n, <2>1, <3>0
    <3>4. pool'.done + (IF pool'.persistError THEN 1 ELSE 0)
           = pool'.enabled + pool'.missing + pool'.deleted + pool'.failed
      BY <1>0, <1>n, <2>2, <3>0
    <3> QED
      BY <1>p, <1>s, <3>1, <3>2, <3>3, <3>4, PoolNumbers
  <2> QED
    BY <1>7, <2>3, <2>4 DEF SavePool
<1> QED
  BY <1>1, <1>2, <1>3, <1>4, <1>5, <1>6, <1>7 DEF ResolveDelete

(* A new goroutine begins with its accounts still to do. *)
LEMMA StartProgress ==
  ASSUME ProgressInv, GateInv, NEW g \in Goroutines, Start(g)
  PROVE  ProgressInv'
<1>0. ProgressType /\ GateType
  BY DEF ProgressInv, GateInv
<1>1. CASE StartRun(g)
  <2>1. /\ kind[g] = "none" /\ kind' = [kind EXCEPT ![g] = "inspect"]
        /\ token' = [token EXCEPT ![g] = runID + 1]
        /\ pc' = [pc EXCEPT ![g] = "run"]
        /\ del' = [del EXCEPT ![g] = 0] /\ todo' = [todo EXCEPT ![g] = 0]
        /\ UNCHANGED <<batch, spawned, calls, pool, applyRunID>>
        /\ applyDone' = 0 /\ applyTotal' = 0
    BY <1>1 DEF StartRun, Spawn, Goto
  <2>2. \A h \in Goroutines : kind[h] # "apply" /\ kind[h] \notin PoolKinds
    BY <1>1, Nobody DEF StartRun, Holds, Live, PoolKinds
  <2>3. ProgressType'
    BY <1>0, <2>1 DEF ProgressType
  <2>4. \A h \in Goroutines : ItemsOf(h)'
    BY <1>0, <2>1, <2>2 DEF ProgressInv, ProgressType, GateType, ItemsOf, PoolKinds, Kinds
  <2>5. ApplyAddsUp'
    BY <1>0, <2>1, <2>2 DEF ApplyAddsUp, GateType
  <2>6. PoolAddsUp'
    BY <1>0, <2>1, <2>2 DEF PoolAddsUp, ProgressInv, ProgressAddsUp, GateType, PoolKinds
  <2> QED
    BY <2>3, <2>4, <2>5, <2>6 DEF ProgressInv, ProgressAddsUp
<1>2. CASE StartAction(g)
  <2>1. /\ kind[g] = "none" /\ kind' = [kind EXCEPT ![g] = "row"]
        /\ token' = [token EXCEPT ![g] = 0]
        /\ pc' = [pc EXCEPT ![g] = "call"]
        /\ del' = [del EXCEPT ![g] = 0] /\ todo' = [todo EXCEPT ![g] = 0]
        /\ UNCHANGED <<batch, spawned, calls, pool, applyRunID, applying, progressVars>>
    BY <1>2 DEF StartAction, Spawn, Goto
  <2>2. \A h \in Goroutines : kind[h] # "apply" /\ kind[h] \notin PoolKinds
    BY <1>2, OnlyRows DEF StartAction, Holds, Live, PoolKinds
  <2>3. ProgressType'
    BY <1>0, <2>1 DEF ProgressType, progressVars
  <2>4. \A h \in Goroutines : ItemsOf(h)'
    BY <1>0, <2>1, <2>2 DEF ProgressInv, ProgressType, GateType, ItemsOf, PoolKinds, Kinds
  <2>5. ApplyAddsUp'
    BY <1>0, <2>1, <2>2 DEF ApplyAddsUp, GateType
  <2>6. PoolAddsUp'
    BY <1>0, <2>1, <2>2 DEF PoolAddsUp, ProgressInv, ProgressAddsUp, GateType, PoolKinds
  <2> QED
    BY <2>3, <2>4, <2>5, <2>6 DEF ProgressInv, ProgressAddsUp
<1>3. CASE \E d, n \in 0 .. MaxItems : StartApply(g, d, n)
  <2> PICK d \in 0 .. MaxItems, n \in 0 .. MaxItems : StartApply(g, d, n)
    BY <1>3
  <2>0. d \in Nat /\ n \in Nat
    BY JobsAssumption
  <2>1. /\ kind[g] = "none" /\ kind' = [kind EXCEPT ![g] = "apply"]
        /\ token' = [token EXCEPT ![g] = applyRunID + 1]
        /\ pc' = [pc EXCEPT ![g] = "deletes"]
        /\ del' = [del EXCEPT ![g] = d] /\ todo' = [todo EXCEPT ![g] = n]
        /\ UNCHANGED <<batch, spawned, calls, pool>>
        /\ applyRunID' = applyRunID + 1 /\ applying' = TRUE
        /\ applyDone' = 0 /\ applyTotal' = d + n
    BY DEF StartApply, Spawn, Goto
  <2>2. \A h \in Goroutines : kind[h] # "apply" /\ kind[h] \notin PoolKinds
    BY Nobody DEF StartApply, Holds, Live, PoolKinds
  <2>i. ItemsOf(g) /\ g \in Goroutines
    BY DEF ProgressInv
  <2>3. ProgressType'
    BY <1>0, <2>0, <2>1 DEF ProgressType
  <2>4. \A h \in Goroutines : ItemsOf(h)'
    BY <1>0, <2>1, <2>2 DEF ProgressInv, ProgressType, GateType, ItemsOf, PoolKinds, Kinds,
       Mine
  <2>5. ApplyAddsUp'
    BY <1>0, <2>0, <2>1, <2>2, <2>i DEF ApplyAddsUp, GateType, ProgressType, ItemsOf
  <2>6. PoolAddsUp'
    BY <1>0, <2>1, <2>2 DEF PoolAddsUp, ProgressInv, ProgressAddsUp, GateType, PoolKinds
  <2> QED
    BY <2>3, <2>4, <2>5, <2>6 DEF ProgressInv, ProgressAddsUp
<1>4. CASE \E k \in PoolKinds, n \in 1 .. MaxItems : StartPool(g, k, n)
  <2> PICK k \in PoolKinds, n \in 1 .. MaxItems : StartPool(g, k, n)
    BY <1>4
  <2>0. n \in Nat \ {0}
    BY JobsAssumption
  <2>a. \/ k = "unban" /\ Spawn(g, k, "loop", pool.runID + 1, 0, n)
        \/ k = "delete" /\ Spawn(g, k, "resolve", pool.runID + 1, n, 0)
        \/ k = "single" /\ Spawn(g, k, "call", pool.runID + 1, 0, n)
    BY DEF StartPool, PoolKinds
  <2>b. pool' = [NoTally EXCEPT !.running = TRUE, !.runID = pool.runID + 1, !.total = n]
        /\ UNCHANGED <<applyRunID, applying, applyDone, applyTotal>>
    BY DEF StartPool, gateVars, progressVars
  <2>1. /\ kind[g] = "none" /\ kind' = [kind EXCEPT ![g] = k]
        /\ token' = [token EXCEPT ![g] = pool.runID + 1]
        /\ \/ k = "unban" /\ pc' = [pc EXCEPT ![g] = "loop"]
              /\ del' = [del EXCEPT ![g] = 0] /\ todo' = [todo EXCEPT ![g] = n]
           \/ k = "delete" /\ pc' = [pc EXCEPT ![g] = "resolve"]
              /\ del' = [del EXCEPT ![g] = n] /\ todo' = [todo EXCEPT ![g] = 0]
           \/ k = "single" /\ pc' = [pc EXCEPT ![g] = "call"]
              /\ del' = [del EXCEPT ![g] = 0] /\ todo' = [todo EXCEPT ![g] = n]
        /\ UNCHANGED <<batch, spawned, calls>>
    BY <2>a DEF Spawn, Goto
  <2>2. \A h \in Goroutines : kind[h] # "apply" /\ kind[h] \notin PoolKinds
    BY Nobody DEF StartPool, Holds, Live, PoolKinds
  <2>i. ItemsOf(g) /\ g \in Goroutines
    BY DEF ProgressInv
  <2>c. pool.runID + 1 \in Nat
    BY <1>0 DEF GateType
  <2>p. pool' \in PoolType
    BY <2>0, <2>b, <2>c DEF PoolType, NoTally
  <2>q. /\ pool'.done = 0 /\ pool'.total = n /\ pool'.runID = pool.runID + 1
        /\ pool'.enabled = 0 /\ pool'.missing = 0 /\ pool'.deleted = 0
        /\ pool'.failed = 0 /\ pool'.persistError = FALSE
    BY <2>b DEF NoTally
  <2>d. del'[g] \in Nat /\ todo'[g] \in Nat /\ batch'[g] = 0 /\ del'[g] + todo'[g] = n
    BY <1>0, <2>0, <2>1, <2>i DEF ProgressType, ItemsOf
  <2>3. ProgressType'
    BY <1>0, <2>0, <2>1, <2>b, <2>p DEF ProgressType
  <2>4. \A h \in Goroutines : ItemsOf(h)'
    <3>1. ItemsOf(g)'
      BY <1>0, <2>0, <2>1, <2>i, <2>q DEF ProgressType, GateType, ItemsOf, PoolKinds
    <3>2. SUFFICES ASSUME NEW h \in Goroutines \ {g} PROVE ItemsOf(h)'
      BY <3>1
    <3>3. Same(h)
      BY <1>0, <2>1 DEF Same, ProgressType, GateType
    <3> QED
      BY <2>2, <3>3 DEF Same, ProgressInv, ItemsOf
  <2>5. ApplyAddsUp'
    BY <1>0, <2>1, <2>2 DEF ApplyAddsUp, GateType, PoolKinds
  <2>6. PoolAddsUp'
    <3>1. \A h \in Goroutines \ {g} : kind'[h] \notin PoolKinds
      BY <1>0, <2>1, <2>2 DEF GateType
    <3> QED
      BY <2>0, <2>d, <2>q, <3>1 DEF PoolAddsUp
  <2> QED
    BY <2>3, <2>4, <2>5, <2>6 DEF ProgressInv, ProgressAddsUp
<1> QED
  BY <1>1, <1>2, <1>3, <1>4 DEF Start

(* A goroutine that ends has none of its accounts left with CPA. *)
LEMMA EndProgress ==
  ASSUME ProgressInv, GateInv, NEW g \in Goroutines,
         FinishRun(g) \/ FinishApply(g) \/ FinishAction(g) \/ ReleasePool(g)
  PROVE  ProgressInv'
<1>0. ProgressType /\ GateType /\ ItemsOf(g)
  BY DEF ProgressInv, GateInv
<1>1. /\ kind' = [kind EXCEPT ![g] = "none"] /\ pc' = [pc EXCEPT ![g] = "idle"]
      /\ token' = [token EXCEPT ![g] = 0]
      /\ del' = [del EXCEPT ![g] = 0] /\ todo' = [todo EXCEPT ![g] = 0]
      /\ UNCHANGED <<batch, spawned, calls, progressVars, applyRunID>>
  BY DEF FinishRun, FinishApply, FinishAction, ReleasePool, Retire, Goto, gateVars
<1>2. pool' = pool \/ pool' = [pool EXCEPT !.running = FALSE]
  BY DEF FinishRun, FinishApply, FinishAction, ReleasePool
<1>3. pool' \in PoolType
  BY <1>0, <1>2 DEF ProgressType, PoolType
<1>4. /\ pool'.done = pool.done /\ pool'.total = pool.total /\ pool'.runID = pool.runID
      /\ pool'.enabled = pool.enabled /\ pool'.missing = pool.missing
      /\ pool'.deleted = pool.deleted /\ pool'.failed = pool.failed
      /\ pool'.persistError = pool.persistError
  BY <1>0, <1>2 DEF ProgressType, PoolType
<1>5. ProgressType'
  BY <1>0, <1>1, <1>3 DEF ProgressType, progressVars
<1>6. \A h \in Goroutines \ {g} : Same(h)
  BY <1>0, <1>1 DEF Same, ProgressType, GateType
<1>7. \A h \in Goroutines \ {g} : kind[h] = "apply" /\ Mine(h) => applying'
  <2>1. CASE UNCHANGED applying
    BY <2>1 DEF ProgressInv, ItemsOf
  <2>2. CASE FinishApply(g)
    BY <2>2 DEF FinishApply, GateInv, OneJobAtATime, Holds, Live, JobOf
  <2> QED
    BY <2>1, <2>2 DEF FinishRun, FinishAction, ReleasePool, gateVars
<1>8. batch[g] = 0 /\ spawned[g] = 0 /\ calls[g] = 0
  BY <1>0 DEF FinishRun, FinishApply, FinishAction, ReleasePool, ItemsOf, PoolKinds,
     ProgressType
<1>9. \A h \in Goroutines : ItemsOf(h)'
  <2>1. ItemsOf(g)'
    BY <1>0, <1>1, <1>8 DEF ItemsOf, ProgressType, GateType, PoolKinds
  <2>2. SUFFICES ASSUME NEW h \in Goroutines \ {g} PROVE ItemsOf(h)'
    BY <2>1
  <2> QED
    BY <1>1, <1>4, <1>6, <1>7 DEF Same, ProgressInv, ItemsOf, Mine
<1>10. \A h \in Goroutines : kind'[h] = "none" \/ h # g
  BY <1>0, <1>1 DEF GateType
<1>11. ApplyAddsUp'
  <2> SUFFICES ASSUME NEW h \in Goroutines, kind'[h] = "apply", Mine(h)'
               PROVE  applyDone' + del'[h] + batch'[h] + todo'[h] + spawned'[h] + calls'[h]
                        = applyTotal'
    BY DEF ApplyAddsUp
  <2>1. Same(h) /\ Mine(h)
    BY <1>1, <1>6, <1>10 DEF Same, Mine
  <2> QED
    BY <1>1, <2>1 DEF Same, progressVars, ProgressInv, ProgressAddsUp, ApplyAddsUp
<1>12. PoolAddsUp'
  BY <1>4, <1>6, <1>10 DEF Same, PoolAddsUp, ProgressInv, ProgressAddsUp, PoolKinds
<1> QED
  BY <1>5, <1>9, <1>11, <1>12 DEF ProgressInv, ProgressAddsUp

(* A stop and the shutdown take the progress from an apply and leave the   *)
(* numbers as they are.                                                    *)
LEMMA StopProgress ==
  ASSUME ProgressInv, GateInv, StopRequested \/ StopEngine \/ Shutdown
  PROVE  ProgressInv'
<1>0. ProgressType /\ GateType
  BY DEF ProgressInv, GateInv
<1>1. /\ UNCHANGED <<kind, pc, token, del, batch, todo, spawned, calls>>
      /\ UNCHANGED <<applyDone, applyTotal>>
      /\ applyRunID' \in {applyRunID, applyRunID + 1}
      /\ (applyRunID' = applyRunID /\ applying) => applying'
      /\ (pool' = pool \/ pool' = [pool EXCEPT !.stopped = TRUE])
  <2>1. CASE StopRequested \/ ShutdownStopsUnban
    BY <2>1 DEF StopRequested, ShutdownStopsUnban, StopUnban, jobVars, itemVars,
       progressVars, gateVars
  <2>2. CASE StopEngine
    BY <1>0, <2>2 DEF StopEngine, GateType, jobVars, itemVars, progressVars
  <2>3. CASE ShutdownGate
    BY <1>0, <2>3 DEF ShutdownGate, GateType, jobVars, itemVars, progressVars
  <2>4. CASE RunsOver \/ UnbanOver \/ FinalFlush \/ ShutdownDone
    BY <2>4 DEF RunsOver, UnbanOver, FinalFlush, ShutdownDone, WaitStep, jobVars, itemVars,
       progressVars, gateVars
  <2> QED
    BY <2>1, <2>2, <2>3, <2>4 DEF Shutdown
<1>3. pool' \in PoolType
  BY <1>0, <1>1 DEF ProgressType, PoolType
<1>4. /\ pool'.done = pool.done /\ pool'.total = pool.total /\ pool'.runID = pool.runID
      /\ pool'.enabled = pool.enabled /\ pool'.missing = pool.missing
      /\ pool'.deleted = pool.deleted /\ pool'.failed = pool.failed
      /\ pool'.persistError = pool.persistError
  BY <1>0, <1>1 DEF ProgressType, PoolType
<1>5. ProgressType'
  BY <1>0, <1>1, <1>3 DEF ProgressType
<1>6. \A g \in Goroutines : kind[g] = "apply" /\ Mine(g)' => Mine(g)
  BY <1>0, <1>1 DEF ProgressInv, ItemsOf, Mine, GateType
<1>7. \A g \in Goroutines : ItemsOf(g)'
  <2> SUFFICES ASSUME NEW g \in Goroutines PROVE ItemsOf(g)'
    OBVIOUS
  <2>1. kind[g] = "apply" /\ Mine(g)' => applying'
    BY <1>0, <1>1, <1>6 DEF ProgressInv, ItemsOf, Mine, GateType
  <2>2. kind[g] = "apply" => token[g] <= applyRunID'
    BY <1>0, <1>1 DEF ProgressInv, ItemsOf, GateType
  <2> QED
    BY <1>1, <1>4, <2>1, <2>2 DEF ProgressInv, ItemsOf
<1>8. ApplyAddsUp'
  BY <1>1, <1>6 DEF ApplyAddsUp, ProgressInv, ProgressAddsUp
<1>9. PoolAddsUp'
  BY <1>1, <1>4 DEF PoolAddsUp, ProgressInv, ProgressAddsUp
<1> QED
  BY <1>5, <1>7, <1>8, <1>9 DEF ProgressInv, ProgressAddsUp

(* Every step keeps the numbers right. *)
LEMMA NextProgress ==
  ASSUME ProgressInv, GateInv, [Next]_vars
  PROVE  ProgressInv'
<1>1. CASE \E g \in Goroutines : Start(g)
  BY <1>1, StartProgress
<1>2. CASE \E g \in Goroutines : Step(g)
  BY <1>2, EndProgress, ApplyProgress, PoolProgress DEF Step
<1>3. CASE StopRequested \/ StopEngine \/ Shutdown
  BY <1>3, StopProgress
<1>4. CASE UNCHANGED vars
  <2>1. UNCHANGED <<applyDone, applyTotal, applyRunID, applying, pool, kind, pc, token,
                    del, batch, todo, spawned, calls>>
    BY <1>4 DEF vars, gateVars, progressVars, jobVars, itemVars
  <2>2. ProgressType' /\ (\A g \in Goroutines : ItemsOf(g)')
    BY <2>1 DEF ProgressInv, ProgressType, ItemsOf, Mine
  <2> QED
    BY <2>1, <2>2 DEF ProgressInv, ProgressAddsUp, ApplyAddsUp, PoolAddsUp, Mine
<1> QED
  BY <1>1, <1>2, <1>3, <1>4 DEF Next

(* The numbers are right in every state. *)
THEOREM ProgressInvariant == Spec => []ProgressInv
<1>1. Init => ProgressInv
  <2> SUFFICES ASSUME Init PROVE ProgressInv
    OBVIOUS
  <2>1. ProgressType
    BY DEF Init, ProgressType, PoolType, NoTally
  <2>2. \A g \in Goroutines : ItemsOf(g)
    BY DEF Init, ItemsOf, PoolKinds
  <2>3. ApplyAddsUp /\ PoolAddsUp
    BY DEF Init, ApplyAddsUp, PoolAddsUp, PoolKinds, NoTally
  <2> QED
    BY <2>1, <2>2, <2>3 DEF ProgressInv, ProgressAddsUp
<1>2. ProgressInv /\ GateInv /\ [Next]_vars => ProgressInv'
  BY NextProgress
<1> QED
  BY <1>1, <1>2, GateInvariant, PTL DEF Spec

(* The numbers on the page add up, whatever is stopped when: what an apply *)
(* that owns the progress has done and what is still with its workers is   *)
(* the total (runApply), and a job of the ban pool counts every account    *)
(* exactly once (startUnbanJobWithOrigin, startBanDeleteJobWithOrigin).    *)
THEOREM NumbersAddUp == Spec => []ProgressAddsUp
BY ProgressInvariant, PTL DEF ProgressInv

(* A bulk apply that was stopped counts nothing more, though the answers   *)
(* to its calls still come in (runApply compares applyRunID before it      *)
(* counts).                                                                *)
THEOREM StoppedCountsNothing == Spec => StoppedIsFrozen
<1>1. ProgressInv /\ [Next]_vars => [applyDone' > applyDone => applying]_vars
  <2> SUFFICES ASSUME ProgressInv, Next PROVE applyDone' > applyDone => applying
    OBVIOUS
  <2>0. applyDone \in Nat
    BY DEF ProgressInv, ProgressType
  <2>1. CASE \E g \in Goroutines : DeleteReturns(g) \/ WorkerReturns(g)
    BY <2>0, <2>1 DEF DeleteReturns, WorkerReturns, ProgressInv, ItemsOf, Inner, Mine
  <2>2. CASE applyDone' = applyDone \/ applyDone' = 0
    BY <2>0, <2>2
  <2>3. ASSUME NEW g \in Goroutines, Start(g) PROVE applyDone' = applyDone \/ applyDone' = 0
    BY <2>3 DEF Start, StartRun, StartAction, StartApply, StartPool, progressVars
  <2>4. ASSUME NEW g \in Goroutines, Step(g), ~DeleteReturns(g), ~WorkerReturns(g)
        PROVE  applyDone' = applyDone
    BY <2>4 DEF Step, FinishRun, DeleteChunk, DeletesOver, StartWorker, WorkersOver,
       WorkerCalls, FinishApply, FinishAction, NextUnban, UnbanReturns, ResolveDelete,
       Resolved, DeleteBans, TallyDelete, PoolLoopOver, SavePool, ReleasePool, PoolStep,
       progressVars
  <2>5. StopRequested \/ StopEngine \/ Shutdown => applyDone' = applyDone
    BY DEF StopRequested, StopEngine, Shutdown, ShutdownGate, ShutdownStopsUnban, RunsOver,
       UnbanOver, FinalFlush, ShutdownDone, WaitStep, progressVars
  <2> QED
    BY <2>1, <2>2, <2>3, <2>4, <2>5 DEF Next
<1> QED
  BY <1>1, ProgressInvariant, PTL DEF Spec, StoppedIsFrozen
=============================================================================
