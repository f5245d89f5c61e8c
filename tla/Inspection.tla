----------------------------- MODULE Inspection -----------------------------
(***************************************************************************)
(* The inspection engine (engine.go, engine_lifecycle.go): runs that list  *)
(* the accounts of CPA, probe them with a bounded number of workers, probe *)
(* again those that timed out, and merge what they learn into one list of  *)
(* result rows; a stop that finishes the run for the page at once while    *)
(* its goroutines are still at work; and the shutdown of the plugin.       *)
(*                                                                         *)
(* A stopped run is not waited for.  Its goroutines go on, possibly next   *)
(* to those of the following run, and find out from a token (runID) that   *)
(* nobody wants their results any more.                                    *)
(*                                                                         *)
(* Rows are abstracted to what the merging tells apart: whether the last   *)
(* probe was answered (whatever the verdict), timed out, was cancelled by  *)
(* a stop, or found the account missing.                                   *)
(***************************************************************************)
EXTENDS Integers, Sequences, FiniteSets

CONSTANTS
  Accounts,       \* auth files that may exist in CPA
  Unindexed,      \* those that CPA lists without an auth_index
  Disabled,       \* those that are disabled in CPA
  Slots,          \* goroutines that execute e.run: the current and stale ones
  Workers,        \* probes at a time
  Modes,          \* kinds of run that occur in the instance
  MaxRunID,       \* bound: run tokens
  MaxVersion      \* bound: rewrites of an auth file

AllModes == {"full", "incremental", "sample", "answered", "other", "sampleOther"}
System == "__system_list_error__"
RowIds == Accounts \union {System}
Tokens == 1 .. MaxRunID
Files == [acct : Accounts, ver : 1 .. MaxVersion]
(* Others write, remove and restore auth files: a list may have anything. *)
Lists == {S \in SUBSET Files : \A f, g \in S : f.acct = g.acct => f = g}

ASSUME InspectionAssumption ==
  /\ Unindexed \subseteq Accounts /\ Disabled \subseteq Accounts
  /\ System \notin Accounts
  /\ Workers \in Nat \ {0} /\ MaxRunID \in Nat /\ MaxVersion \in Nat \ {0}
  /\ Modes \subseteq AllModes
  /\ IsFiniteSet(Accounts)

VARIABLES
  results,        \* e.results: the rows of each account, oldest first
  running, stopped, shutdown, runID,
  sampleMode, fullClearPending, runIsFullInspect, runClassifyScoped,
  runTargets, runProbedKeys, runListOK, total, probeDone, probePhase,
  lastFinished,   \* lastFinished*: token and outcome published by finish
  pc, token, mode, list, todo, missing, reported, inflight, retry, merge,
  listed          \* history: whether the run with each token got its list

configVars == <<sampleMode, runIsFullInspect>>
planVars == <<fullClearPending, runClassifyScoped, runTargets, runProbedKeys>>
progressVars == <<total, probeDone, probePhase>>
engineVars == <<results, running, stopped, shutdown, runID, configVars,
                planVars, runListOK, progressVars, lastFinished>>
runVars == <<token, mode, list, todo, missing, reported, inflight, retry, merge>>
vars == <<engineVars, pc, runVars, listed>>

(* A row of account a; `by` is the token of the run that wrote it. *)
Row(class, ver, by) == [class |-> class, ver |-> ver, by |-> by]
Classes == {"answered", "timeout", "cancelled", "missing"}

Sampling(m) == m \in {"sample", "sampleOther"}
Category(m) == IF m = "sampleOther" THEN "other"
               ELSE IF m \in {"answered", "other"} THEN m ELSE "none"
Scoped(m) == Category(m) # "none"
FullInspect(m) == m = "full"

InCategory(row, cat) ==
  IF cat = "answered" THEN row.class = "answered" ELSE row.class # "answered"

(* classificationMatches over e.results: the rows a category run is about. *)
Selected(cat) ==
  UNION {{[acct |-> a, pos |-> i, ver |-> results[a][i].ver] :
            i \in {j \in DOMAIN results[a] : InCategory(results[a][j], cat)}} :
           a \in RowIds}

(* stableIdentityKeys: the auth_index, or else the file as it was written. *)
SameFile(row, f) == f.acct \notin Unindexed \/ row.ver = f.ver

(* resultContainsAuthFile, entryIsKnown *)
Contains(rows, f) == \E i \in DOMAIN rows[f.acct] : SameFile(rows[f.acct][i], f)

(* findResultIndex goes by auth_index or file name: it finds the oldest    *)
(* row of the account, whatever version of the file that is about.         *)
Upserted(rows, row) ==
  IF rows = << >> THEN <<row>> ELSE [rows EXCEPT ![1] = row]

Merged(rows, row, upsert) ==
  IF upsert THEN Upserted(rows, row) ELSE Append(rows, row)

Write(a, row, upsert) ==
  results' = [results EXCEPT ![a] = Merged(@, row, upsert)]

RowCount(rows) == Cardinality(UNION {{a} \X DOMAIN rows[a] : a \in RowIds})

(* mutant: half of one worker is none *)
RetryWorkers_Floor == Workers \div 2

(* slowRetryWorkers, whose cap of 8 no instance reaches *)
RetryWorkers == (Workers + 1) \div 2

Init ==
  /\ results = [a \in RowIds |-> << >>]
  /\ running = FALSE /\ stopped = FALSE /\ shutdown = "no" /\ runID = 0
  /\ sampleMode = FALSE /\ fullClearPending = FALSE
  /\ runIsFullInspect = FALSE /\ runClassifyScoped = FALSE
  /\ runTargets = {} /\ runProbedKeys = {} /\ runListOK = FALSE
  /\ total = 0 /\ probeDone = 0 /\ probePhase = "none"
  /\ lastFinished = [run |-> 0, listOK |-> FALSE, full |-> FALSE, probed |-> {}]
  /\ pc = [r \in Slots |-> "idle"]
  /\ token = [r \in Slots |-> 0]
  /\ mode = [r \in Slots |-> "none"]
  /\ list = [r \in Slots |-> {}]
  /\ todo = [r \in Slots |-> {}]
  /\ missing = [r \in Slots |-> {}]
  /\ reported = [r \in Slots |-> {}]
  /\ inflight = [r \in Slots |-> {}]
  /\ retry = [r \in Slots |-> {}]
  /\ merge = [r \in Slots |-> FALSE]
  /\ listed = [k \in Tokens |-> "none"]

Goto(r, label) == pc' = [pc EXCEPT ![r] = label]

Current(r) == token[r] = runID
(* isStopped *)
Discarded(r) == stopped \/ ~Current(r)

-----------------------------------------------------------------------------
(* mutant: a full run drops the earlier rows before it has a list *)
Start_Wipes(r, m) ==
  /\ m \in Modes
  /\ pc[r] = "idle"
  /\ shutdown = "no" /\ ~running
  /\ runID < MaxRunID
  /\ m = "incremental" => RowCount(results) > 0
  /\ Scoped(m) => Selected(Category(m)) # {}
  /\ results' = IF FullInspect(m) THEN [a \in RowIds |-> << >>] ELSE results
  /\ running' = TRUE /\ stopped' = FALSE
  /\ runID' = runID + 1
  /\ sampleMode' = Sampling(m)
  /\ fullClearPending' = FullInspect(m)
  /\ runIsFullInspect' = FullInspect(m)
  /\ runClassifyScoped' = FALSE
  /\ runTargets' = {} /\ runProbedKeys' = {} /\ runListOK' = FALSE
  /\ total' = 0 /\ probeDone' = 0 /\ probePhase' = "listing"
  /\ token' = [token EXCEPT ![r] = runID + 1]
  /\ mode' = [mode EXCEPT ![r] = m]
  /\ Goto(r, "list")
  /\ UNCHANGED <<shutdown, lastFinished, list, todo, missing,
                 reported, inflight, retry, merge, listed>>

(* startWithRunID.  Nothing else of the engine is active; a run that works *)
(* on earlier rows needs some.  The previous rows stay for now.            *)
Start(r, m) ==
  /\ m \in Modes
  /\ pc[r] = "idle"
  /\ shutdown = "no" /\ ~running
  /\ runID < MaxRunID
  /\ m = "incremental" => RowCount(results) > 0
  /\ Scoped(m) => Selected(Category(m)) # {}
  /\ running' = TRUE /\ stopped' = FALSE
  /\ runID' = runID + 1
  /\ sampleMode' = Sampling(m)
  /\ fullClearPending' = FullInspect(m)
  /\ runIsFullInspect' = FullInspect(m)
  /\ runClassifyScoped' = FALSE
  /\ runTargets' = {} /\ runProbedKeys' = {} /\ runListOK' = FALSE
  /\ total' = 0 /\ probeDone' = 0 /\ probePhase' = "listing"
  /\ token' = [token EXCEPT ![r] = runID + 1]
  /\ mode' = [mode EXCEPT ![r] = m]
  /\ Goto(r, "list")
  /\ UNCHANGED <<results, shutdown, lastFinished, list, todo, missing,
                 reported, inflight, retry, merge, listed>>

(* callHostAuthList returns: with the auth files of CPA, or an error. *)
ListReturns(r) ==
  /\ pc[r] = "list"
  /\ \/ /\ \E S \in Lists : list' = [list EXCEPT ![r] = S]
        /\ listed' = [listed EXCEPT ![token[r]] = "ok"]
        /\ Goto(r, "listed")
     \/ /\ listed' = [listed EXCEPT ![token[r]] = "fail"]
        /\ Goto(r, "failed")
        /\ UNCHANGED list
  /\ UNCHANGED <<engineVars, token, mode, todo, missing, reported,
                 inflight, retry, merge>>

(* mutant: an overtaken run reports on its list too *)
NoteOutcome_Anyone(r, ok) == runListOK' = ok

(* noteRunListOutcome *)
NoteOutcome(r, ok) ==
  runListOK' = IF Current(r) THEN ok ELSE runListOK

NoteFailed(r) ==
  /\ pc[r] = "failed"
  /\ NoteOutcome(r, FALSE)
  /\ Goto(r, "report")
  /\ UNCHANGED <<results, running, stopped, shutdown, runID, configVars,
                 planVars, progressVars, lastFinished, runVars, listed>>

(* mutant: rows are recorded after the run was stopped *)
Record_Late(r, a, row, upsert) ==
  Write(a, row, upsert) /\ probeDone' = probeDone + 1

(* upsertResult and appendResult: a row of the run, unless it is discarded.*)
Record(r, a, row, upsert) ==
  IF Discarded(r)
    THEN UNCHANGED <<results, probeDone>>
    ELSE Write(a, row, upsert) /\ probeDone' = probeDone + 1

ReportFailure(r) ==
  /\ pc[r] = "report"
  /\ Record(r, System, Row("missing", 0, token[r]), TRUE)
  /\ Goto(r, "finish")
  /\ UNCHANGED <<running, stopped, shutdown, runID, configVars, planVars,
                 runListOK, total, probePhase, lastFinished, runVars, listed>>

NoteListed(r) ==
  /\ pc[r] = "listed"
  /\ NoteOutcome(r, TRUE)
  /\ Goto(r, "select")
  /\ UNCHANGED <<results, running, stopped, shutdown, runID, configVars,
                 planVars, progressVars, lastFinished, runVars, listed>>

(* The files a run of mode m is to probe, before sampling.  A category run *)
(* takes the files of its rows whatever the options say; a sample of one   *)
(* respects them again.  The options leave out the accounts in skip.       *)
Candidates(m, files_, skip) ==
  LET wanted == {f \in files_ : f.acct \notin skip}
      scoped == {f \in files_ : \E s \in Selected(Category(m)) : s.acct = f.acct}
  IN CASE Scoped(m) -> IF sampleMode THEN scoped \intersect wanted ELSE scoped
       [] m = "incremental" -> {f \in wanted : ~Contains(results, f)}
       [] OTHER -> wanted

(* A sample run takes some of them; any size from one up may be asked for. *)
Samples(S) ==
  IF ~sampleMode \/ S = {} THEN {S} ELSE (SUBSET S) \ {{}}

(* The targets, from the list and from the rows there are; rows of a       *)
(* category run whose account is not listed are missing.  e.results and    *)
(* e.sampleMode are read one after the other: only a run that is stale     *)
(* already could see them change in between.                               *)
Select(r) ==
  LET m == mode[r]
      gone == {s \in Selected(Category(m)) : \A f \in list[r] : f.acct # s.acct}
  IN
  /\ pc[r] = "select"
  /\ \E skip \in {{}, Disabled} :
       \E chosen \in Samples(Candidates(m, list[r], skip)) :
         todo' = [todo EXCEPT ![r] = chosen]
  /\ missing' = [missing EXCEPT ![r] =
                   IF Scoped(m) /\ ~sampleMode THEN gone ELSE {}]
  /\ merge' = [merge EXCEPT ![r] = Scoped(m) \/ sampleMode]
  /\ Goto(r, "missing")
  /\ UNCHANGED <<engineVars, token, mode, list, reported, inflight, retry,
                 listed>>

(* A row whose account is missing is rewritten as such, oldest first; it    *)
(* keeps the identity of the file it was about.                            *)
ReportMissing(r) ==
  /\ pc[r] = "missing"
  /\ \E s \in missing[r] \ reported[r] :
       /\ \A t \in missing[r] \ reported[r] : t.acct = s.acct => s.pos <= t.pos
       /\ reported' = [reported EXCEPT ![r] = @ \union {s}]
       /\ Record(r, s.acct, Row("missing", s.ver, token[r]), merge[r])
  /\ UNCHANGED <<running, stopped, shutdown, runID, configVars, planVars,
                 runListOK, total, probePhase, lastFinished, pc, token, mode,
                 list, todo, missing, inflight, retry, merge, listed>>

(* mutant: any row of the account will do, also that of an earlier file *)
Cancelled_AnyRow(rows, targets, upsert) ==
  [a \in RowIds |->
     LET left == {f \in targets : f.acct = a /\ rows[a] = << >>}
     IN IF left = {} THEN rows[a]
        ELSE LET f == CHOOSE f \in left : TRUE
             IN Merged(rows[a], Row("cancelled", f.ver, runID), upsert)]

(* abortRunLocked: targets without a row get one that says so, progress is *)
(* set to its end, and the token moves on.                                 *)
Cancelled(rows, targets, upsert) ==
  [a \in RowIds |->
     LET left == {f \in targets : f.acct = a /\ ~Contains(rows, f)}
     IN IF left = {} THEN rows[a]
        ELSE LET f == CHOOSE f \in left : TRUE
             IN Merged(rows[a], Row("cancelled", f.ver, runID), upsert)]

Abort(rows, targets, upsert, count) ==
  LET final == Cancelled(rows, targets, upsert) IN
  /\ results' = final
  /\ probeDone' = IF count > 0 THEN count ELSE RowCount(final)
  /\ total' = probeDone'
  /\ running' = FALSE
  /\ probePhase' = "stopped"
  /\ runTargets' = {}
  /\ runID' = runID + 1

(* commitRunPlanLocked: in one critical section the targets are registered *)
(* and a full run drops the earlier rows.                                  *)
Plan(r) ==
  LET cleared == IF fullClearPending THEN [a \in RowIds |-> << >>] ELSE results
      count == Cardinality(todo[r])
               + IF merge[r] THEN Cardinality(missing[r]) ELSE 0
  IN
  /\ pc[r] = "missing"
  /\ reported[r] = missing[r]
  /\ IF ~Current(r)
       THEN Goto(r, "finish") /\ UNCHANGED engineVars
       ELSE /\ fullClearPending' = FALSE
            /\ runProbedKeys' = IF runIsFullInspect THEN runProbedKeys
                                ELSE {f.acct : f \in todo[r]}
            /\ runClassifyScoped' = merge[r]
            /\ IF stopped
                 THEN /\ Abort(cleared, todo[r], merge[r], count)
                      /\ Goto(r, "finish")
                 ELSE /\ results' = cleared
                      /\ total' = count
                      /\ runTargets' = todo[r]
                      /\ probePhase' = "primary"
                      /\ Goto(r, IF todo[r] = {} THEN "finish" ELSE "probe")
                      /\ UNCHANGED <<running, runID, probeDone>>
            /\ UNCHANGED <<stopped, shutdown, configVars, runListOK, lastFinished>>
  /\ UNCHANGED <<runVars, listed>>

-----------------------------------------------------------------------------
(* The workers of a run.  The loop takes the next target while one is free *)
(* and the run is wanted; a worker that has started is never interrupted.  *)
StartProbe(r, f) ==
  /\ pc[r] \in {"probe", "retry"}
  /\ f \in todo[r]
  /\ ~Discarded(r)
  /\ Cardinality(inflight[r]) < IF pc[r] = "probe" THEN Workers ELSE RetryWorkers
  /\ todo' = [todo EXCEPT ![r] = @ \ {f}]
  /\ inflight' = [inflight EXCEPT ![r] = @ \union {f}]
  /\ UNCHANGED <<engineVars, pc, token, mode, list, missing, reported,
                 retry, merge, listed>>

StopScheduling(r) ==
  /\ pc[r] \in {"probe", "retry"}
  /\ Discarded(r)
  /\ todo[r] # {}
  /\ todo' = [todo EXCEPT ![r] = {}]
  /\ UNCHANGED <<engineVars, pc, token, mode, list, missing, reported,
                 inflight, retry, merge, listed>>

(* mutant: a worker whose run was stopped does not report that it is done *)
ProbeDone_Leaks(r, f, class) ==
  /\ pc[r] = "probe"
  /\ f \in inflight[r]
  /\ ~Discarded(r)
  /\ inflight' = [inflight EXCEPT ![r] = @ \ {f}]
  /\ retry' = [retry EXCEPT ![r] = IF class = "timeout" THEN @ \union {f} ELSE @]
  /\ Record(r, f.acct, Row(class, f.ver, token[r]), merge[r])
  /\ UNCHANGED <<running, stopped, shutdown, runID, configVars, planVars,
                 runListOK, total, probePhase, lastFinished, pc, token, mode,
                 list, todo, missing, reported, merge, listed>>

ProbeDone(r, f, class) ==
  /\ pc[r] = "probe"
  /\ f \in inflight[r]
  /\ inflight' = [inflight EXCEPT ![r] = @ \ {f}]
  /\ retry' = [retry EXCEPT ![r] = IF class = "timeout" THEN @ \union {f} ELSE @]
  /\ Record(r, f.acct, Row(class, f.ver, token[r]), merge[r])
  /\ UNCHANGED <<running, stopped, shutdown, runID, configVars, planVars,
                 runListOK, total, probePhase, lastFinished, pc, token, mode,
                 list, todo, missing, reported, merge, listed>>

Drained(r) == todo[r] = {} /\ inflight[r] = {}

(* wg.Wait, setRetryPhase *)
PrimaryOver(r) ==
  /\ pc[r] = "probe"
  /\ Drained(r)
  /\ IF retry[r] = {} \/ Discarded(r)
       THEN Goto(r, "finish") /\ UNCHANGED <<probePhase, todo, retry>>
       ELSE /\ probePhase' = "retry"
            /\ todo' = [todo EXCEPT ![r] = retry[r]]
            /\ retry' = [retry EXCEPT ![r] = {}]
            /\ Goto(r, "retry")
  /\ UNCHANGED <<results, running, stopped, shutdown, runID, configVars,
                 planVars, runListOK, total, probeDone, lastFinished, token, mode,
                 list, missing, reported, inflight, merge, listed>>

(* mutant: the answer of a retry counts as further progress *)
RetryDone_Counts(r, f, class) ==
  /\ pc[r] = "retry"
  /\ f \in inflight[r]
  /\ inflight' = [inflight EXCEPT ![r] = @ \ {f}]
  /\ Record(r, f.acct, Row(class, f.ver, token[r]), TRUE)
  /\ UNCHANGED <<running, stopped, shutdown, runID, configVars, planVars,
                 runListOK, total, probePhase, lastFinished, pc, token, mode,
                 list, todo, missing, reported, retry, merge, listed>>

(* replaceResult: a second answer is no further progress. *)
RetryDone(r, f, class) ==
  /\ pc[r] = "retry"
  /\ f \in inflight[r]
  /\ inflight' = [inflight EXCEPT ![r] = @ \ {f}]
  /\ IF Discarded(r) THEN UNCHANGED results
     ELSE Write(f.acct, Row(class, f.ver, token[r]), TRUE)
  /\ UNCHANGED <<running, stopped, shutdown, runID, configVars, planVars,
                 runListOK, progressVars, lastFinished, pc, token, mode, list,
                 todo, missing, reported, retry, merge, listed>>

RetryOver(r) ==
  /\ pc[r] = "retry"
  /\ Drained(r)
  /\ Goto(r, "finish")
  /\ UNCHANGED <<engineVars, runVars, listed>>

(* mutant: a run that was superseded ends the current one *)
Finish_Anyone(r) ==
  /\ pc[r] = "finish"
  /\ running' = FALSE
  /\ probePhase' = "finished"
  /\ lastFinished' = [run |-> token[r], listOK |-> runListOK,
                      full |-> runIsFullInspect, probed |-> runProbedKeys]
  /\ Goto(r, "idle")
  /\ token' = [token EXCEPT ![r] = 0]
  /\ mode' = [mode EXCEPT ![r] = "none"]
  /\ list' = [list EXCEPT ![r] = {}]
  /\ todo' = [todo EXCEPT ![r] = {}]
  /\ missing' = [missing EXCEPT ![r] = {}]
  /\ reported' = [reported EXCEPT ![r] = {}]
  /\ retry' = [retry EXCEPT ![r] = {}]
  /\ merge' = [merge EXCEPT ![r] = FALSE]
  /\ UNCHANGED <<results, stopped, shutdown, runID, configVars, planVars,
                 runListOK, total, probeDone, inflight, listed>>

(* finish, deferred by run: a run that was superseded publishes nothing. *)
Finish(r) ==
  /\ pc[r] = "finish"
  /\ IF Current(r)
       THEN /\ running' = FALSE
            /\ probePhase' = "finished"
            /\ lastFinished' = [run |-> token[r], listOK |-> runListOK,
                                full |-> runIsFullInspect, probed |-> runProbedKeys]
       ELSE UNCHANGED <<running, probePhase, lastFinished>>
  /\ Goto(r, "idle")
  /\ token' = [token EXCEPT ![r] = 0]
  /\ mode' = [mode EXCEPT ![r] = "none"]
  /\ list' = [list EXCEPT ![r] = {}]
  /\ todo' = [todo EXCEPT ![r] = {}]
  /\ missing' = [missing EXCEPT ![r] = {}]
  /\ reported' = [reported EXCEPT ![r] = {}]
  /\ retry' = [retry EXCEPT ![r] = {}]
  /\ merge' = [merge EXCEPT ![r] = FALSE]
  /\ UNCHANGED <<results, stopped, shutdown, runID, configVars, planVars,
                 runListOK, total, probeDone, inflight, listed>>

-----------------------------------------------------------------------------
(* stopWithLang.  The run is over for the page at once. *)
Stop ==
  /\ ~stopped \/ running
  /\ stopped' = TRUE
  /\ IF running
       THEN Abort(results, runTargets, runClassifyScoped, total)
       ELSE UNCHANGED <<results, progressVars, running, runTargets, runID>>
  /\ UNCHANGED <<shutdown, configVars, fullClearPending,
                 runClassifyScoped, runProbedKeys, runListOK, lastFinished, pc,
                 runVars, listed>>

(* shutdown: the gate closes for good, then runWG.Wait. *)
Shutdown ==
  /\ shutdown = "no"
  /\ shutdown' = "waiting"
  /\ stopped' = TRUE
  /\ runID' = runID + 1
  /\ UNCHANGED <<results, running, configVars, planVars, runListOK,
                 progressVars, lastFinished, pc, runVars, listed>>

ShutdownReturns ==
  /\ shutdown = "waiting"
  /\ \A r \in Slots : pc[r] = "idle"
  /\ shutdown' = "down"
  /\ UNCHANGED <<results, running, stopped, runID, configVars, planVars,
                 runListOK, progressVars, lastFinished, pc, runVars, listed>>

(* clearOneDeletedAuthLocal: an action, which no run may accompany, deletes *)
(* an auth file, and with it the rows of its account.                       *)
DeleteAccount(a) ==
  /\ ~running /\ shutdown = "no"
  /\ results[a] # << >>
  /\ results' = [results EXCEPT ![a] = << >>]
  /\ UNCHANGED <<running, stopped, shutdown, runID, configVars, planVars,
                 runListOK, progressVars, lastFinished, pc, runVars, listed>>

RunStep(r) ==
  \/ ListReturns(r) \/ NoteFailed(r) \/ ReportFailure(r)
  \/ NoteListed(r) \/ Select(r) \/ ReportMissing(r) \/ Plan(r)
  \/ \E f \in todo[r] : StartProbe(r, f)
  \/ StopScheduling(r)
  \/ \E f \in inflight[r], class \in {"answered", "timeout"} :
       ProbeDone(r, f, class) \/ RetryDone(r, f, class)
  \/ PrimaryOver(r) \/ RetryOver(r) \/ Finish(r)

Next ==
  \/ \E r \in Slots : RunStep(r) \/ \E m \in Modes : Start(r, m)
  \/ Stop \/ Shutdown \/ ShutdownReturns
  \/ \E a \in Accounts : DeleteAccount(a)
  \/ shutdown = "down" /\ UNCHANGED vars      \* the plugin is unloaded

Spec == Init /\ [][Next]_vars

(* A goroutine is not suspended for ever; the list call and every probe    *)
(* have a time limit.                                                      *)
FairSpec ==
  Spec /\ (\A r \in Slots : WF_vars(RunStep(r))) /\ WF_vars(ShutdownReturns)

-----------------------------------------------------------------------------
Labels == {"idle", "list", "failed", "report", "listed", "select", "missing",
           "probe", "retry", "finish"}
Rows == [class : Classes, ver : 0 .. MaxVersion, by : 1 .. MaxRunID + 2]
Locations == [acct : RowIds, pos : Nat \ {0}, ver : 0 .. MaxVersion]

(* The values of every variable. *)
TypeOK ==
  /\ results \in [RowIds -> Seq(Rows)]
  /\ running \in BOOLEAN /\ stopped \in BOOLEAN
  /\ shutdown \in {"no", "waiting", "down"}
  /\ runID \in 0 .. MaxRunID + 2
  /\ sampleMode \in BOOLEAN /\ fullClearPending \in BOOLEAN
  /\ runIsFullInspect \in BOOLEAN /\ runClassifyScoped \in BOOLEAN
  /\ runTargets \subseteq Files /\ runProbedKeys \subseteq Accounts
  /\ runListOK \in BOOLEAN
  /\ total \in Nat /\ probeDone \in Nat
  /\ probePhase \in {"none", "listing", "primary", "retry", "stopped", "finished"}
  /\ lastFinished \in [run : 0 .. MaxRunID, listOK : BOOLEAN, full : BOOLEAN,
                       probed : SUBSET Accounts]
  /\ pc \in [Slots -> Labels]
  /\ token \in [Slots -> 0 .. MaxRunID]
  /\ mode \in [Slots -> AllModes \union {"none"}]
  /\ list \in [Slots -> SUBSET Files] /\ todo \in [Slots -> SUBSET Files]
  /\ missing \in [Slots -> SUBSET Locations]
  /\ reported \in [Slots -> SUBSET Locations]
  /\ inflight \in [Slots -> SUBSET Files] /\ retry \in [Slots -> SUBSET Files]
  /\ merge \in [Slots -> BOOLEAN]
  /\ listed \in [Tokens -> {"none", "ok", "fail"}]

(* As long as nobody shuts the plugin down, the engine says that a run is  *)
(* on exactly when one goroutine works with the token it has, and that run *)
(* has not been stopped: isStopped, which looks at both, and the stopped   *)
(* branch of commitRunPlanLocked never find a current run stopped.         *)
OneCurrentRun ==
  shutdown = "no" =>
    LET current == {r \in Slots : pc[r] # "idle" /\ Current(r)}
    IN /\ Cardinality(current) = IF running THEN 1 ELSE 0
       /\ ~(running /\ stopped)

(* An account that CPA lists with an auth_index has one row, and so has    *)
(* the failure of the list, whatever runs were stopped, overtaken by the   *)
(* next one, or repeated.                                                  *)
OneRowPerIndex ==
  \A a \in RowIds \ Unindexed : Len(results[a]) <= 1

(* What finish publishes for a token is what happened to that run: the     *)
(* scheduler disposes of accounts only after a run that got its list.      *)
OutcomeIsOwn ==
  lastFinished.run # 0 =>
    (lastFinished.listOK <=> listed[lastFinished.run] = "ok")

(* Whatever the goroutines of an overtaken or stopped run still do, the    *)
(* state the page and the other runs see is not touched by it.             *)
StaleRunsAreSilent ==
  [][\A r \in Slots :
       (pc[r] # "idle" /\ ~Current(r) /\ RunStep(r)) => UNCHANGED engineVars]_vars

(* When a run with a list finishes, every target of it has a row written   *)
(* by this run and the progress stands at its end, in any mixture of       *)
(* answers, timeouts, retries and accounts that are missing.               *)
FinishIsComplete ==
  [][(lastFinished' # lastFinished /\ lastFinished'.listOK) =>
       /\ probeDone = total
       /\ \A f \in runTargets : \E i \in DOMAIN results[f.acct] :
            results[f.acct][i].by = runID
            /\ results[f.acct][i].class # "cancelled"]_vars

(* When a run is over, by its end or by a stop, every target of it has a   *)
(* row of this run: those that were not probed are marked as such.         *)
TargetsAreMarked ==
  [][(running /\ ~running' /\ shutdown = "no") =>
       \A f \in runTargets : \E i \in DOMAIN results'[f.acct] :
         SameFile(results'[f.acct][i], f) /\ results'[f.acct][i].by = runID]_vars

(* Earlier rows go only when the account is deleted or when a full run has *)
(* got its list, and in the very step that registers every listed account  *)
(* as a target: a stop in between cannot lose the history.                 *)
HistoryIsKept ==
  [][\A a \in RowIds :
       (results[a] # << >> /\ results'[a] = << >>) =>
         \/ a \in Accounts /\ ~running /\ ~running'
         \/ /\ running' /\ runIsFullInspect
            /\ \E r \in Slots :
                 /\ pc[r] = "missing" /\ Current(r) /\ listed[token[r]] = "ok"
                 /\ {f \in list[r] : f.acct \notin Disabled} \subseteq runTargets']_vars

(* Every run ends, without a stop; only the shutdown leaves the engine as  *)
(* it finds it.                                                            *)
RunEnds == running ~> (~running \/ shutdown # "no")

(* The shutdown returns, whatever runs are still at work. *)
ShutdownEnds == (shutdown = "waiting") ~> (shutdown = "down")

=============================================================================
