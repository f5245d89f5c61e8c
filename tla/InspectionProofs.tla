--------------------------- MODULE InspectionProofs ---------------------------
(***************************************************************************)
(* Proofs about the inspection engine, for any accounts, any number of     *)
(* goroutines that execute run, and any number of workers.                 *)
(***************************************************************************)
EXTENDS Inspection, FiniteSetTheorems, FunctionTheorems, SequenceTheorems, TLAPS

(* Without the current token, no step of a run changes the engine. *)
LEMMA SilentStep ==
  ASSUME NEW r \in Slots, ~Current(r), RunStep(r)
  PROVE  UNCHANGED engineVars
<1>0. Discarded(r)
  BY DEF Discarded
<1> USE DEF engineVars, configVars, planVars, progressVars
<1>1. CASE ListReturns(r)
  BY <1>1 DEF ListReturns
<1>2. CASE NoteFailed(r)
  BY <1>2 DEF NoteFailed, NoteOutcome
<1>3. CASE ReportFailure(r)
  BY <1>0, <1>3 DEF ReportFailure, Record
<1>4. CASE NoteListed(r)
  BY <1>4 DEF NoteListed, NoteOutcome
<1>5. CASE Select(r)
  BY <1>5 DEF Select
<1>6. CASE ReportMissing(r)
  BY <1>0, <1>6 DEF ReportMissing, Record
<1>7. CASE Plan(r)
  BY <1>7 DEF Plan
<1>8. CASE \E f \in todo[r] : StartProbe(r, f)
  BY <1>0, <1>8 DEF StartProbe
<1>9. CASE StopScheduling(r)
  BY <1>9 DEF StopScheduling
<1>10. CASE \E f \in inflight[r], class \in {"answered", "timeout"} :
              ProbeDone(r, f, class) \/ RetryDone(r, f, class)
  BY <1>0, <1>10 DEF ProbeDone, RetryDone, Record
<1>11. CASE PrimaryOver(r)
  BY <1>0, <1>11 DEF PrimaryOver
<1>12. CASE RetryOver(r)
  BY <1>12 DEF RetryOver
<1>13. CASE Finish(r)
  BY <1>13 DEF Finish
<1> QED
  BY <1>1, <1>2, <1>3, <1>4, <1>5, <1>6, <1>7, <1>8, <1>9, <1>10, <1>11,
     <1>12, <1>13 DEF RunStep

(* Whatever the goroutines of an overtaken or stopped run still do (list,  *)
(* missing rows, plan, answers, retries, finish), no variable of the       *)
(* engine changes: every critical section of run asks for the token.       *)
THEOREM StaleSilent == Spec => StaleRunsAreSilent
<1> DEFINE Silent == \A r \in Slots :
      (pc[r] # "idle" /\ ~Current(r) /\ RunStep(r)) => UNCHANGED engineVars
<1>1. Silent
  BY SilentStep
<1>2. [][Silent]_vars
  BY <1>1, PTL
<1> QED
  BY <1>2 DEF StaleRunsAreSilent

-----------------------------------------------------------------------------
(* OneCurrentRun is not inductive: that no other goroutine has the token   *)
(* of a new run follows from tokens being handed out once, in order.       *)
Active(r) == pc[r] # "idle"

TokenInv ==
  /\ runID \in Nat /\ token \in [Slots -> Nat] /\ pc \in [Slots -> Labels]
  /\ \A r \in Slots : token[r] <= runID
  /\ \A r, s \in Slots : Active(r) /\ Active(s) /\ token[r] = token[s] => r = s

RunningInv ==
  shutdown = "no" =>
    /\ running <=> \E r \in Slots : Active(r) /\ Current(r)
    /\ ~(running /\ stopped)

(* Most steps of a run touch neither the token nor who is active. *)
LEMMA QuietStep ==
  ASSUME TokenInv, NEW r \in Slots, RunStep(r), ~Plan(r), ~Finish(r)
  PROVE  /\ UNCHANGED <<runID, token, running, stopped, shutdown>>
         /\ pc' \in [Slots -> Labels]
         /\ \A s \in Slots : Active(s)' <=> Active(s)
<1> USE DEF TokenInv, Labels, Goto, Active
<1>1. CASE ListReturns(r)
  BY <1>1 DEF ListReturns, engineVars
<1>2. CASE NoteFailed(r)
  BY <1>2 DEF NoteFailed, runVars
<1>3. CASE ReportFailure(r)
  BY <1>3 DEF ReportFailure, runVars
<1>4. CASE NoteListed(r)
  BY <1>4 DEF NoteListed, runVars
<1>5. CASE Select(r)
  BY <1>5 DEF Select, engineVars
<1>6. CASE ReportMissing(r)
  BY <1>6 DEF ReportMissing
<1>7. CASE \E f \in todo[r] : StartProbe(r, f)
  BY <1>7 DEF StartProbe, engineVars
<1>8. CASE StopScheduling(r)
  BY <1>8 DEF StopScheduling, engineVars
<1>9. CASE \E f \in inflight[r], class \in {"answered", "timeout"} :
              ProbeDone(r, f, class) \/ RetryDone(r, f, class)
  BY <1>9 DEF ProbeDone, RetryDone
<1>10. CASE PrimaryOver(r)
  BY <1>10 DEF PrimaryOver
<1>11. CASE RetryOver(r)
  BY <1>11 DEF RetryOver, engineVars, runVars
<1> QED
  BY <1>1, <1>2, <1>3, <1>4, <1>5, <1>6, <1>7, <1>8, <1>9, <1>10, <1>11
     DEF RunStep

(* A step of a run, its plan and its end included, keeps tokens distinct. *)
LEMMA RunStepKeeps ==
  ASSUME TokenInv, RunningInv, NEW r \in Slots, RunStep(r)
  PROVE  TokenInv' /\ RunningInv'
<1>1. CASE ~Plan(r) /\ ~Finish(r)
  BY <1>1, QuietStep DEF TokenInv, RunningInv, Active, Current
<1>2. CASE Plan(r) /\ ~Current(r)
  <2>1. UNCHANGED <<runID, token, running, stopped, shutdown>>
        /\ pc' = [pc EXCEPT ![r] = "finish"] /\ Active(r)
    BY <1>2 DEF Plan, Goto, Active, engineVars, runVars
  <2> QED
    BY <2>1 DEF TokenInv, RunningInv, Active, Current, Labels
<1>3. CASE Plan(r) /\ Current(r) /\ ~stopped
  <2>1. UNCHANGED <<runID, token, running, stopped, shutdown>>
        /\ Active(r)
        /\ pc' = [pc EXCEPT ![r] = IF todo[r] = {} THEN "finish" ELSE "probe"]
    BY <1>3 DEF Plan, Goto, Active, engineVars, runVars
  <2> QED
    BY <2>1 DEF TokenInv, RunningInv, Active, Current, Labels
<1>4. CASE Plan(r) /\ Current(r) /\ stopped
  <2>1. Active(r) /\ UNCHANGED <<token, shutdown>> /\ runID' = runID + 1
        /\ pc' = [pc EXCEPT ![r] = "finish"]
    BY <1>4 DEF Plan, Goto, Abort, Active, runVars
  <2>2. shutdown # "no"
    BY <1>4, <2>1 DEF RunningInv
  <2> QED
    BY <2>1, <2>2 DEF TokenInv, RunningInv, Active, Current, Labels
<1>5. CASE Finish(r)
  <2>1. /\ Active(r) /\ UNCHANGED <<runID, stopped, shutdown>>
        /\ pc' = [pc EXCEPT ![r] = "idle"]
        /\ token' = [token EXCEPT ![r] = 0]
        /\ Current(r) => running' = FALSE
        /\ ~Current(r) => running' = running
    BY <1>5 DEF Finish, Goto, Active
  <2>2. TokenInv'
    BY <2>1 DEF TokenInv, Active, Labels
  <2>3. CASE Current(r)
    BY <2>1, <2>2, <2>3 DEF TokenInv, RunningInv, Active, Current, Labels
  <2>4. CASE ~Current(r)
    BY <2>1, <2>2, <2>4 DEF TokenInv, RunningInv, Active, Current, Labels
  <2> QED
    BY <2>2, <2>3, <2>4
<1> QED
  BY <1>1, <1>2, <1>3, <1>4, <1>5

(* Every step keeps the tokens distinct and `running` to their owner. *)
LEMMA RunningStep ==
  ASSUME TokenInv, RunningInv, [Next]_vars
  PROVE  TokenInv' /\ RunningInv'
<1>1. ASSUME NEW r \in Slots, RunStep(r) PROVE TokenInv' /\ RunningInv'
  BY <1>1, RunStepKeeps
<1>2. ASSUME NEW r \in Slots, NEW m \in Modes, Start(r, m)
      PROVE  TokenInv' /\ RunningInv'
  <2>1. /\ pc' = [pc EXCEPT ![r] = "list"] /\ token' = [token EXCEPT ![r] = runID + 1]
        /\ running' = TRUE /\ stopped' = FALSE /\ runID' = runID + 1
        /\ UNCHANGED shutdown
    BY <1>2 DEF Start, Goto
  <2>2. TokenInv'
    BY <2>1 DEF TokenInv, Active, Labels
  <2>3. Active(r)' /\ Current(r)'
    BY <2>1 DEF TokenInv, Active, Current
  <2> QED
    BY <2>1, <2>2, <2>3 DEF RunningInv
<1>3. CASE Stop
  <2>1. UNCHANGED <<pc, token, shutdown>> /\ stopped' = TRUE
    BY <1>3 DEF Stop, runVars
  <2>2. CASE running
    <3>1. running' = FALSE /\ runID' = runID + 1
      BY <1>3, <2>2 DEF Stop, Abort
    <3> QED
      BY <2>1, <3>1 DEF TokenInv, RunningInv, Active, Current
  <2>3. CASE ~running
    <3>1. UNCHANGED <<running, runID>>
      BY <1>3, <2>3 DEF Stop
    <3> QED
      BY <2>1, <2>3, <3>1 DEF TokenInv, RunningInv, Active, Current
  <2> QED
    BY <2>2, <2>3
<1>4. CASE Shutdown
  BY <1>4 DEF Shutdown, runVars, TokenInv, RunningInv, Active
<1>5. CASE ShutdownReturns
  BY <1>5 DEF ShutdownReturns, runVars, TokenInv, RunningInv, Active
<1>6. ASSUME NEW a \in Accounts, DeleteAccount(a) PROVE TokenInv' /\ RunningInv'
  BY <1>6 DEF DeleteAccount, runVars, TokenInv, RunningInv, Active, Current
<1>7. CASE UNCHANGED vars
  BY <1>7 DEF vars, engineVars, runVars, TokenInv, RunningInv, Active, Current
<1> QED
  BY <1>1, <1>2, <1>3, <1>4, <1>5, <1>6, <1>7 DEF Next

(* A run is on exactly when one goroutine works with the current token,    *)
(* and a current run is not stopped, for any number of goroutines.         *)
THEOREM CurrentRun == Spec => []OneCurrentRun
<1>1. Init => TokenInv /\ RunningInv
  <2> SUFFICES ASSUME Init PROVE TokenInv /\ RunningInv
    OBVIOUS
  <2>1. TokenInv
    BY DEF Init, TokenInv, Active, Labels
  <2>2. running = FALSE /\ \A r \in Slots : ~Active(r)
    BY DEF Init, Active
  <2> QED
    BY <2>1, <2>2 DEF RunningInv
<1>2. TokenInv /\ RunningInv => OneCurrentRun
  <2> SUFFICES ASSUME TokenInv, RunningInv, shutdown = "no" PROVE OneCurrentRun
    BY DEF OneCurrentRun
  <2> DEFINE current == {r \in Slots : pc[r] # "idle" /\ Current(r)}
  <2>1. CASE running
    <3>1. PICK r \in Slots : Active(r) /\ Current(r)
      BY <2>1 DEF RunningInv
    <3>2. current = {r}
      BY <3>1 DEF TokenInv, Active, Current
    <3>3. Cardinality(current) = 1
      BY <3>2, FS_Singleton
    <3> QED
      BY <2>1, <3>3 DEF OneCurrentRun, RunningInv
  <2>2. CASE ~running
    <3>1. current = {}
      BY <2>2 DEF RunningInv, Active
    <3>2. Cardinality(current) = 0
      BY <3>1, FS_EmptySet
    <3> QED
      BY <2>2, <3>2 DEF OneCurrentRun, RunningInv
  <2> QED
    BY <2>1, <2>2
<1> QED
  BY <1>1, <1>2, RunningStep, PTL DEF Spec

-----------------------------------------------------------------------------
(* Only finitely many files, and rows, and so numbers that count them.     *)
LEMMA FilesFinite == IsFiniteSet(Files)
<1> DEFINE f == [p \in Accounts \X (1 .. MaxVersion) |->
                   [acct |-> p[1], ver |-> p[2]]]
<1>1. IsFiniteSet(Accounts \X (1 .. MaxVersion))
  <2>1. MaxVersion \in Int /\ IsFiniteSet(Accounts)
    BY InspectionAssumption
  <2>2. IsFiniteSet(1 .. MaxVersion)
    BY <2>1, FS_Interval
  <2> QED
    BY <2>1, <2>2, FS_Product
<1>2. f \in Surjection(Accounts \X (1 .. MaxVersion), Files)
  <2>1. f \in [Accounts \X (1 .. MaxVersion) -> Files]
    BY DEF Files
  <2>2. \A x \in Files : \E p \in Accounts \X (1 .. MaxVersion) : f[p] = x
    <3> TAKE x \in Files
    <3>1. x.acct \in Accounts /\ x.ver \in 1 .. MaxVersion
          /\ x = [acct |-> x.acct, ver |-> x.ver]
      BY DEF Files
    <3>2. <<x.acct, x.ver>> \in Accounts \X (1 .. MaxVersion)
      BY <3>1
    <3>3. f[<<x.acct, x.ver>>] = x
      BY <3>1, <3>2
    <3> QED
      BY <3>2, <3>3
  <2> QED
    BY <2>1, <2>2 DEF Surjection
<1> QED
  BY <1>1, <1>2, FS_Surjection

(* The rows belong to finitely many accounts. *)
LEMMA RowIdsFinite == IsFiniteSet(RowIds)
BY FS_AddElement, InspectionAssumption DEF RowIds

Positions(rows) == UNION {{a} \X DOMAIN rows[a] : a \in RowIds}

(* There are finitely many rows at a time. *)
LEMMA PositionsFinite ==
  ASSUME NEW rows \in [RowIds -> Seq(Rows)]
  PROVE  IsFiniteSet(Positions(rows))
<1> DEFINE part == [a \in RowIds |-> {a} \X DOMAIN rows[a]]
           parts == {part[a] : a \in RowIds}
<1>1. part \in Surjection(RowIds, parts)
  BY DEF Surjection
<1>2. IsFiniteSet(parts)
  BY <1>1, FS_Surjection, RowIdsFinite
<1>3. ASSUME NEW T \in parts PROVE IsFiniteSet(T)
  <2> PICK a \in RowIds : T = {a} \X DOMAIN rows[a]
    BY <1>3
  <2>1. DOMAIN rows[a] = 1 .. Len(rows[a]) /\ Len(rows[a]) \in Nat
    BY DEF Rows
  <2>2. IsFiniteSet(DOMAIN rows[a])
    BY <2>1, FS_Interval
  <2> QED
    BY <2>2, FS_Singleton, FS_Product
<1>4. IsFiniteSet(UNION parts)
  BY <1>2, <1>3, FS_UNION
<1>5. UNION parts = Positions(rows)
  BY DEF Positions
<1> QED
  BY <1>4, <1>5

(* The number of rows is a number. *)
LEMMA RowCountType ==
  ASSUME NEW rows \in [RowIds -> Seq(Rows)]
  PROVE  RowCount(rows) \in Nat
BY PositionsFinite, FS_CardinalityType DEF RowCount, Positions

(* The rows a category selects are positions of rows. *)
LEMMA SelectedType ==
  ASSUME results \in [RowIds -> Seq(Rows)], NEW cat
  PROVE  Selected(cat) \subseteq Locations /\ IsFiniteSet(Selected(cat))
<1>1. Selected(cat) \subseteq Locations
  <2> SUFFICES ASSUME NEW a \in RowIds, NEW i \in DOMAIN results[a]
               PROVE  [acct |-> a, pos |-> i, ver |-> results[a][i].ver] \in Locations
    BY DEF Selected
  <2>1. results[a] \in Seq(Rows)
    OBVIOUS
  <2>2. i \in Nat \ {0} /\ results[a][i] \in Rows
    BY <2>1
  <2> QED
    BY <2>2 DEF Locations, Rows
<1> DEFINE at == [p \in Positions(results) |->
                    [acct |-> p[1], pos |-> p[2], ver |-> results[p[1]][p[2]].ver]]
<1> DEFINE all == {at[p] : p \in Positions(results)}
<1>2. at \in Surjection(Positions(results), all)
  BY DEF Surjection
<1>3. IsFiniteSet(all)
  BY <1>2, FS_Surjection, PositionsFinite
<1>4. ASSUME NEW a \in RowIds, NEW i \in DOMAIN results[a]
      PROVE  [acct |-> a, pos |-> i, ver |-> results[a][i].ver] \in all
  <2>1. <<a, i>> \in Positions(results)
    BY DEF Positions
  <2> QED
    BY <2>1
<1> HIDE DEF all
<1>5. Selected(cat) \subseteq all
  BY <1>4 DEF Selected
<1> QED
  BY <1>1, <1>3, <1>5, FS_Subset

(* What the engine writes is a row. *)
LEMMA MergedType ==
  ASSUME NEW rows \in Seq(Rows), NEW row \in Rows, NEW upsert \in BOOLEAN
  PROVE  Merged(rows, row, upsert) \in Seq(Rows)
<1>1. Append(rows, row) \in Seq(Rows)
  OBVIOUS
<1>2. <<row>> \in Seq(Rows)
  OBVIOUS
<1>3. CASE rows # << >>
  <2>1. [rows EXCEPT ![1] = row] \in Seq(Rows)
    BY <1>3
  <2> QED
    BY <1>1, <1>3, <2>1 DEF Merged, Upserted
<1> QED
  BY <1>1, <1>2, <1>3 DEF Merged, Upserted

(* Marking the targets that were not probed leaves rows. *)
LEMMA CancelledType ==
  ASSUME NEW rows \in [RowIds -> Seq(Rows)], NEW targets \in SUBSET Files,
         NEW upsert \in BOOLEAN, runID \in 1 .. MaxRunID + 2
  PROVE  Cancelled(rows, targets, upsert) \in [RowIds -> Seq(Rows)]
<1> SUFFICES ASSUME NEW a \in RowIds
             PROVE  Cancelled(rows, targets, upsert)[a] \in Seq(Rows)
  BY DEF Cancelled
<1> DEFINE left == {f \in targets : f.acct = a /\ ~Contains(rows, f)}
<1>1. CASE left = {}
  BY <1>1 DEF Cancelled
<1>2. CASE left # {}
  <2> DEFINE f == CHOOSE f \in left : TRUE
  <2>1. f \in left
    BY <1>2
  <2>2. f.ver \in 0 .. MaxVersion
    BY <2>1, InspectionAssumption DEF Files
  <2>3. Row("cancelled", f.ver, runID) \in Rows
    BY <2>2 DEF Row, Rows, Classes
  <2>4. Merged(rows[a], Row("cancelled", f.ver, runID), upsert) \in Seq(Rows)
    BY <2>3, MergedType
  <2> QED
    BY <1>2, <2>4 DEF Cancelled
<1> QED
  BY <1>1, <1>2

-----------------------------------------------------------------------------
(* Tokens and their bounds; a run that holds the current token is live.    *)
BoundInv ==
  /\ shutdown = "no" => runID <= MaxRunID + 1
  /\ shutdown = "no" /\ running => runID \in 1 .. MaxRunID
  /\ shutdown # "no" /\ running => runID \in 1 .. MaxRunID + 1
  /\ \A r \in Slots : Active(r) => token[r] \in 1 .. MaxRunID
  /\ shutdown # "no" => \A r \in Slots : Active(r) => token[r] < runID
  /\ \A r \in Slots : IsFiniteSet(missing[r])

RunInv == TypeOK /\ TokenInv /\ RunningInv /\ BoundInv

(* A run with the current token is neither stopped nor shut down. *)
LEMMA CurrentIsLive ==
  ASSUME RunInv, NEW r \in Slots, Active(r), Current(r)
  PROVE  running /\ ~stopped /\ shutdown = "no" /\ runID \in 1 .. MaxRunID
BY DEF RunInv, TypeOK, TokenInv, RunningInv, BoundInv, Current

(* A run that is at work has a token that was handed out. *)
LEMMA TokenType ==
  ASSUME RunInv, NEW r \in Slots, Active(r)
  PROVE  token[r] \in 1 .. MaxRunID /\ token[r] \in 1 .. MaxRunID + 2
BY InspectionAssumption DEF RunInv, TypeOK, BoundInv

(* Recording a row keeps the types of the rows and of the progress. *)
LEMMA RecordType ==
  ASSUME RunInv, NEW r \in Slots, NEW a \in RowIds, NEW row \in Rows,
         NEW upsert \in BOOLEAN, Record(r, a, row, upsert)
  PROVE  results' \in [RowIds -> Seq(Rows)] /\ probeDone' \in Nat
<1>1. Merged(results[a], row, upsert) \in Seq(Rows)
  BY MergedType DEF RunInv, TypeOK
<1>2. results \in [RowIds -> Seq(Rows)] /\ probeDone \in Nat
  BY DEF RunInv, TypeOK
<1>3. CASE Discarded(r)
  BY <1>2, <1>3 DEF Record
<1>4. CASE ~Discarded(r)
  <2>1. /\ results' = [results EXCEPT ![a] = Merged(results[a], row, upsert)]
        /\ probeDone' = probeDone + 1
    BY <1>4 DEF Record, Write
  <2> QED
    BY <1>1, <1>2, <2>1
<1> QED
  BY <1>3, <1>4

(* A stop keeps the types of the rows and of the progress. *)
LEMMA AbortType ==
  ASSUME RunInv, running, Abort(results, runTargets, runClassifyScoped, total)
  PROVE  /\ results' \in [RowIds -> Seq(Rows)]
         /\ probeDone' \in Nat /\ total' \in Nat /\ running' = FALSE
         /\ probePhase' = "stopped" /\ runTargets' = {} /\ runID' = runID + 1
<1> DEFINE final == Cancelled(results, runTargets, runClassifyScoped)
<1>1. runID \in 1 .. MaxRunID + 2
  BY InspectionAssumption DEF RunInv, BoundInv, TypeOK
<1>2. final \in [RowIds -> Seq(Rows)]
  BY <1>1, CancelledType DEF RunInv, TypeOK
<1>3. RowCount(final) \in Nat
  BY <1>2, RowCountType
<1> HIDE DEF final
<1>4. results' = final
  BY DEF Abort, final
<1>5. probeDone' = IF total > 0 THEN total ELSE RowCount(final)
  BY DEF Abort, final
<1>6. probeDone' \in Nat
  BY <1>3, <1>5 DEF RunInv, TypeOK
<1> QED
  BY <1>2, <1>4, <1>6 DEF Abort

(* The targets a run selects are files of its list. *)
LEMMA CandidatesType ==
  ASSUME NEW m, NEW L, NEW skip
  PROVE  Candidates(m, L, skip) \subseteq L
BY DEF Candidates

(* A sample takes nothing else. *)
LEMMA SamplesType ==
  ASSUME NEW S, NEW chosen \in Samples(S)
  PROVE  chosen \subseteq S
BY DEF Samples

(* Typing of the steps of a run, but for the plan. *)
LEMMA RunStepTypes ==
  ASSUME RunInv, NEW r \in Slots, RunStep(r), ~Plan(r)
  PROVE  TypeOK' /\ \A s \in Slots : IsFiniteSet(missing[s])'
<1> USE DEF Goto, Labels, configVars, planVars, progressVars, engineVars, runVars
<1>0. TypeOK /\ \A s \in Slots : IsFiniteSet(missing[s])
  BY DEF RunInv, BoundInv
<1>1. CASE ListReturns(r)
  <2>1. token[r] \in Tokens
    BY <1>1, TokenType DEF ListReturns, Active, Tokens
  <2>2. Lists \subseteq SUBSET Files
    BY DEF Lists
  <2>3. list' \in [Slots -> SUBSET Files]
    <3>1. \/ \E S \in Lists : list' = [list EXCEPT ![r] = S]
          \/ UNCHANGED list
      BY <1>1 DEF ListReturns
    <3>2. ASSUME NEW S \in Lists, list' = [list EXCEPT ![r] = S]
          PROVE  list' \in [Slots -> SUBSET Files]
      BY <1>0, <2>2, <3>2 DEF TypeOK
    <3> QED
      BY <1>0, <3>1, <3>2 DEF TypeOK
  <2>4. listed' \in [Tokens -> {"none", "ok", "fail"}]
    BY <1>0, <1>1, <2>1 DEF ListReturns, TypeOK
  <2>5. pc' \in [Slots -> Labels]
    BY <1>0, <1>1 DEF ListReturns, TypeOK
  <2> QED
    BY <1>0, <1>1, <2>3, <2>4, <2>5 DEF ListReturns, TypeOK
<1>2. CASE NoteFailed(r)
  <2>1. runListOK' \in BOOLEAN
    <3>1. runListOK' = FALSE \/ runListOK' = runListOK
      BY <1>2 DEF NoteFailed, NoteOutcome
    <3> QED
      BY <1>0, <3>1 DEF TypeOK
  <2> QED
    BY <1>0, <1>2, <2>1 DEF NoteFailed, TypeOK
<1>3. CASE ReportFailure(r)
  <2>1. System \in RowIds /\ Row("missing", 0, token[r]) \in Rows
    BY <1>3, TokenType, InspectionAssumption
       DEF RowIds, Row, Rows, Classes, ReportFailure, Active
  <2>2. results' \in [RowIds -> Seq(Rows)] /\ probeDone' \in Nat
    BY <1>3, <2>1, RecordType DEF ReportFailure
  <2> QED
    BY <1>0, <1>3, <2>2 DEF ReportFailure, TypeOK
<1>4. CASE NoteListed(r)
  <2>1. runListOK' \in BOOLEAN
    <3>1. runListOK' = TRUE \/ runListOK' = runListOK
      BY <1>4 DEF NoteListed, NoteOutcome
    <3> QED
      BY <1>0, <3>1 DEF TypeOK
  <2> QED
    BY <1>0, <1>4, <2>1 DEF NoteListed, TypeOK
<1>5. CASE Select(r)
  <2> DEFINE sel == Selected(Category(mode[r]))
  <2>1. sel \subseteq Locations /\ IsFiniteSet(sel)
    BY <1>0, SelectedType DEF TypeOK
  <2>2. PICK gone \in SUBSET sel : missing' = [missing EXCEPT ![r] = gone]
    <3> DEFINE gone == {s \in sel : \A f \in list[r] : f.acct # s.acct}
    <3>1. gone \in SUBSET sel /\ {} \in SUBSET sel
      OBVIOUS
    <3>2. \/ missing' = [missing EXCEPT ![r] = gone]
          \/ missing' = [missing EXCEPT ![r] = {}]
      BY <1>5 DEF Select
    <3> HIDE DEF gone, sel
    <3> QED
      BY <3>1, <3>2
  <2>3. gone \subseteq Locations /\ IsFiniteSet(gone)
    BY <2>1, FS_Subset
  <2>4. missing' \in [Slots -> SUBSET Locations]
    BY <1>0, <2>2, <2>3 DEF TypeOK
  <2>5. \A s \in Slots : IsFiniteSet(missing'[s])
    BY <1>0, <2>2, <2>3 DEF TypeOK
  <2>6. PICK chosen : chosen \subseteq list[r] /\ todo' = [todo EXCEPT ![r] = chosen]
    BY <1>5, CandidatesType, SamplesType DEF Select
  <2>7. todo' \in [Slots -> SUBSET Files]
    BY <1>0, <2>6 DEF TypeOK
  <2>8. merge' \in [Slots -> BOOLEAN]
    BY <1>0, <1>5 DEF Select, TypeOK, Scoped
  <2> QED
    <3>1. /\ pc' = [pc EXCEPT ![r] = "missing"]
          /\ UNCHANGED <<engineVars, token, mode, list, reported, inflight,
                         retry, listed>>
      BY <1>5 DEF Select
    <3> QED
      BY <1>0, <2>4, <2>5, <2>7, <2>8, <3>1 DEF TypeOK
<1>6. CASE ReportMissing(r)
  <2>1. PICK s \in missing[r] : /\ reported' = [reported EXCEPT ![r] = @ \union {s}]
                                /\ Record(r, s.acct, Row("missing", s.ver, token[r]), merge[r])
    BY <1>6 DEF ReportMissing
  <2>2. s \in Locations
    BY <1>0 DEF TypeOK
  <2>3. s.acct \in RowIds /\ Row("missing", s.ver, token[r]) \in Rows /\ merge[r] \in BOOLEAN
    BY <1>0, <1>6, <2>2, TokenType
       DEF Locations, Row, Rows, Classes, ReportMissing, Active, TypeOK
  <2>4. results' \in [RowIds -> Seq(Rows)] /\ probeDone' \in Nat
    BY <2>1, <2>3, RecordType
  <2>5. reported' \in [Slots -> SUBSET Locations]
    BY <1>0, <2>1, <2>2 DEF TypeOK
  <2> QED
    BY <1>0, <1>6, <2>4, <2>5 DEF ReportMissing, TypeOK
<1>7. CASE \E f \in todo[r] : StartProbe(r, f)
  BY <1>0, <1>7 DEF StartProbe, TypeOK
<1>8. CASE StopScheduling(r)
  BY <1>0, <1>8 DEF StopScheduling, TypeOK
<1>9. ASSUME NEW f \in inflight[r], NEW class \in {"answered", "timeout"},
             ProbeDone(r, f, class) \/ RetryDone(r, f, class)
      PROVE  TypeOK' /\ \A s \in Slots : IsFiniteSet(missing[s])'
  <2>1. f \in Files /\ merge[r] \in BOOLEAN
    BY <1>0, <1>9 DEF TypeOK
  <2>2. f.acct \in RowIds /\ Row(class, f.ver, token[r]) \in Rows
    <3>1. Active(r)
      BY <1>9 DEF ProbeDone, RetryDone, Active
    <3>2. token[r] \in 1 .. MaxRunID + 2
      BY <3>1, TokenType
    <3>3. f.acct \in Accounts /\ f.ver \in 0 .. MaxVersion
      BY <2>1, InspectionAssumption DEF Files
    <3> QED
      BY <3>2, <3>3 DEF RowIds, Row, Rows, Classes
  <2>3. inflight' \in [Slots -> SUBSET Files]
    <3>1. inflight' = [inflight EXCEPT ![r] = @ \ {f}]
      BY <1>9 DEF ProbeDone, RetryDone
    <3> QED
      BY <1>0, <3>1 DEF TypeOK
  <2>4. CASE ProbeDone(r, f, class)
    <3>1. results' \in [RowIds -> Seq(Rows)] /\ probeDone' \in Nat
      BY <2>1, <2>2, <2>4, RecordType DEF ProbeDone
    <3>2. retry' \in [Slots -> SUBSET Files]
      BY <1>0, <2>1, <2>4 DEF TypeOK, ProbeDone
    <3> QED
      BY <1>0, <2>3, <2>4, <3>1, <3>2 DEF ProbeDone, TypeOK
  <2>5. CASE RetryDone(r, f, class)
    <3>1. Merged(results[f.acct], Row(class, f.ver, token[r]), TRUE) \in Seq(Rows)
      BY <1>0, <2>2, MergedType DEF TypeOK
    <3>2. results' \in [RowIds -> Seq(Rows)]
      BY <1>0, <2>2, <2>5, <3>1 DEF RetryDone, Write, TypeOK
    <3> QED
      BY <1>0, <2>3, <2>5, <3>2 DEF RetryDone, TypeOK
  <2> QED
    BY <1>9, <2>4, <2>5
<1>10. CASE PrimaryOver(r)
  <2>1. /\ UNCHANGED <<results, running, stopped, shutdown, runID, configVars,
                        planVars, runListOK, total, probeDone, lastFinished,
                        token, mode, list, missing, reported, inflight, merge,
                        listed>>
        /\ pc[r] = "probe"
    BY <1>10 DEF PrimaryOver
  <2>2. CASE UNCHANGED <<probePhase, todo, retry>> /\ pc' = [pc EXCEPT ![r] = "finish"]
    BY <1>0, <2>1, <2>2 DEF TypeOK
  <2>3. CASE /\ probePhase' = "retry"
             /\ todo' = [todo EXCEPT ![r] = retry[r]]
             /\ retry' = [retry EXCEPT ![r] = {}]
             /\ pc' = [pc EXCEPT ![r] = "retry"]
    BY <1>0, <2>1, <2>3 DEF TypeOK
  <2> QED
    BY <1>10, <2>2, <2>3 DEF PrimaryOver
<1>11. CASE RetryOver(r)
  BY <1>0, <1>11 DEF RetryOver, TypeOK
<1>12. CASE Finish(r)
  <2>1. token[r] \in 0 .. MaxRunID
    BY <1>0 DEF TypeOK
  <2>2. lastFinished' \in [run : 0 .. MaxRunID, listOK : BOOLEAN, full : BOOLEAN,
                           probed : SUBSET Accounts]
    BY <1>0, <1>12, <2>1 DEF Finish, TypeOK
  <2>6. running' \in BOOLEAN
    <3>1. running' = FALSE \/ running' = running
      BY <1>12 DEF Finish
    <3> QED
      BY <1>0, <3>1 DEF TypeOK
  <2>3. \A s \in Slots : IsFiniteSet(missing'[s])
    BY <1>0, <1>12, FS_EmptySet DEF Finish, TypeOK
  <2>4. /\ token' \in [Slots -> 0 .. MaxRunID]
        /\ mode' \in [Slots -> AllModes \union {"none"}]
        /\ list' \in [Slots -> SUBSET Files] /\ todo' \in [Slots -> SUBSET Files]
        /\ missing' \in [Slots -> SUBSET Locations]
        /\ reported' \in [Slots -> SUBSET Locations]
        /\ retry' \in [Slots -> SUBSET Files]
        /\ merge' \in [Slots -> BOOLEAN]
        /\ pc' \in [Slots -> Labels]
    BY <1>0, <1>12, InspectionAssumption DEF Finish, TypeOK
  <2>5. probePhase' \in {"none", "listing", "primary", "retry", "stopped", "finished"}
    BY <1>0, <1>12 DEF Finish, TypeOK
  <2> QED
    BY <1>0, <1>12, <2>2, <2>3, <2>4, <2>5, <2>6 DEF Finish, TypeOK
<1> QED
  BY <1>1, <1>2, <1>3, <1>4, <1>5, <1>6, <1>7, <1>8, <1>9, <1>10, <1>11, <1>12
     DEF RunStep

(* The plan of a current run never finds it stopped. *)
LEMMA PlanEffect ==
  ASSUME RunInv, NEW r \in Slots, Plan(r), Current(r)
  PROVE  /\ pc[r] = "missing"
         /\ fullClearPending' = FALSE
         /\ runProbedKeys' = IF runIsFullInspect THEN runProbedKeys
                             ELSE {f.acct : f \in todo[r]}
         /\ runClassifyScoped' = merge[r]
         /\ results' = IF fullClearPending THEN [a \in RowIds |-> << >>] ELSE results
         /\ total' = Cardinality(todo[r])
                     + IF merge[r] THEN Cardinality(missing[r]) ELSE 0
         /\ runTargets' = todo[r]
         /\ probePhase' = "primary"
         /\ pc' = [pc EXCEPT ![r] = IF todo[r] = {} THEN "finish" ELSE "probe"]
         /\ UNCHANGED <<running, runID, probeDone, stopped, shutdown, configVars,
                        runListOK, lastFinished, runVars, listed>>
<1>1. Active(r)
  BY DEF Plan, Active
<1>2. ~stopped
  BY <1>1, CurrentIsLive
<1> QED
  BY <1>2 DEF Plan, Goto

(* Typing of the plan of a run, current or not. *)
LEMMA PlanTypes ==
  ASSUME RunInv, NEW r \in Slots, Plan(r)
  PROVE  TypeOK' /\ UNCHANGED <<runID, running, stopped, shutdown, token, missing>>
         /\ \A s \in Slots : Active(s)' <=> Active(s)
<1>0. TypeOK /\ IsFiniteSet(missing[r])
  BY DEF RunInv, BoundInv
<1>1. CASE ~Current(r)
  <2>1. UNCHANGED <<engineVars, runVars, listed>> /\ pc' = [pc EXCEPT ![r] = "finish"]
        /\ pc[r] = "missing"
    BY <1>1 DEF Plan, Goto
  <2> QED
    BY <1>0, <2>1 DEF TypeOK, Labels, engineVars, configVars, planVars,
                      progressVars, runVars, Active
<1>2. CASE Current(r)
  <2>1. todo[r] \in SUBSET Files /\ merge[r] \in BOOLEAN
    BY <1>0 DEF TypeOK
  <2>2. IsFiniteSet(todo[r])
    BY <2>1, FilesFinite, FS_Subset
  <2>3. Cardinality(todo[r]) \in Nat /\ Cardinality(missing[r]) \in Nat
    BY <1>0, <2>2, FS_CardinalityType
  <2>4. total' \in Nat
    <3>1. total' = Cardinality(todo[r])
                   + IF merge[r] THEN Cardinality(missing[r]) ELSE 0
      BY <1>2, PlanEffect
    <3>2. CASE merge[r]
      BY <2>3, <3>1, <3>2
    <3>3. CASE ~merge[r]
      BY <2>3, <3>1, <3>3
    <3> QED
      BY <3>2, <3>3
  <2>5. results' \in [RowIds -> Seq(Rows)]
    <3>1. << >> \in Seq(Rows)
      OBVIOUS
    <3>2. results' = [a \in RowIds |-> << >>] \/ results' = results
      BY <1>2, PlanEffect
    <3> QED
      BY <1>0, <3>1, <3>2 DEF TypeOK
  <2>6. runProbedKeys' \subseteq Accounts
    <3>1. runProbedKeys' = runProbedKeys
          \/ runProbedKeys' = {f.acct : f \in todo[r]}
      BY <1>2, PlanEffect
    <3>2. runProbedKeys \subseteq Accounts
      BY <1>0 DEF TypeOK
    <3>3. {f.acct : f \in todo[r]} \subseteq Accounts
      BY <2>1 DEF Files
    <3> QED
      BY <3>1, <3>2, <3>3
  <2>7. pc' \in [Slots -> Labels] /\ \A s \in Slots : Active(s)' <=> Active(s)
    BY <1>0, <1>2, PlanEffect DEF TypeOK, Labels, Active
  <2>8. UNCHANGED <<running, runID, probeDone, stopped, shutdown, sampleMode,
                    runIsFullInspect, runListOK, lastFinished, token, mode, list,
                    todo, missing, reported, inflight, retry, merge, listed>>
    BY <1>2, PlanEffect DEF configVars, runVars
  <2>9. fullClearPending' = FALSE /\ runClassifyScoped' = merge[r]
        /\ runTargets' = todo[r] /\ probePhase' = "primary"
    BY <1>2, PlanEffect
  <2>10. fullClearPending' \in BOOLEAN
    BY <2>9
  <2> QED
    BY <1>0, <2>1, <2>4, <2>5, <2>6, <2>7, <2>8, <2>9, <2>10 DEF TypeOK
<1> QED
  BY <1>1, <1>2

(* Every step keeps the types, the tokens and their bounds. *)
LEMMA RunInvStep ==
  ASSUME RunInv, [Next]_vars
  PROVE  RunInv'
<1>0. TypeOK /\ TokenInv /\ RunningInv /\ BoundInv
  BY DEF RunInv
<1>a. TokenInv' /\ RunningInv'
  BY <1>0, RunningStep
<1>b. MaxRunID \in Nat
  BY InspectionAssumption
<1> SUFFICES TypeOK' /\ BoundInv'
  BY <1>a DEF RunInv
<1>1. ASSUME NEW r \in Slots, RunStep(r) PROVE TypeOK' /\ BoundInv'
  <2>1. CASE Plan(r)
    BY <1>0, <2>1, PlanTypes DEF BoundInv
  <2>2. CASE ~Plan(r) /\ ~Finish(r)
    <3>1. TypeOK' /\ \A s \in Slots : IsFiniteSet(missing[s])'
      BY <1>1, <2>2, RunStepTypes
    <3>2. /\ UNCHANGED <<runID, token, running, stopped, shutdown>>
          /\ \A s \in Slots : Active(s)' <=> Active(s)
      BY <1>0, <1>1, <2>2, QuietStep
    <3> QED
      BY <1>0, <3>1, <3>2 DEF BoundInv
  <2>3. CASE Finish(r) /\ ~Plan(r)
    <3>1. TypeOK' /\ \A s \in Slots : IsFiniteSet(missing[s])'
      BY <1>1, <2>3, RunStepTypes
    <3>2. /\ UNCHANGED <<runID, stopped, shutdown>>
          /\ running' = FALSE \/ running' = running
          /\ pc' = [pc EXCEPT ![r] = "idle"]
          /\ token' = [token EXCEPT ![r] = 0]
      BY <2>3 DEF Finish, Goto
    <3>3. \A s \in Slots : Active(s)' => Active(s) /\ token'[s] = token[s]
      BY <1>0, <3>2 DEF TypeOK, Active
    <3> QED
      BY <1>0, <3>1, <3>2, <3>3 DEF BoundInv
  <2> QED
    BY <2>1, <2>2, <2>3
<1>2. ASSUME NEW r \in Slots, NEW m \in Modes, Start(r, m)
      PROVE  TypeOK' /\ BoundInv'
  <2> USE <1>2 DEF Start, Goto
  <2>1. runID + 1 \in 1 .. MaxRunID /\ runID' = runID + 1 /\ shutdown = "no"
        /\ m \in AllModes
    BY <1>0, <1>b, InspectionAssumption DEF TypeOK
  <2>2. /\ pc' \in [Slots -> Labels]
        /\ token' \in [Slots -> 0 .. MaxRunID]
        /\ mode' \in [Slots -> AllModes \union {"none"}]
    BY <1>0, <2>1 DEF TypeOK, Labels
  <2>3. /\ running' \in BOOLEAN /\ stopped' \in BOOLEAN
        /\ runClassifyScoped' \in BOOLEAN /\ runListOK' \in BOOLEAN
    OBVIOUS
  <2>4. sampleMode' \in BOOLEAN /\ fullClearPending' \in BOOLEAN
        /\ runIsFullInspect' \in BOOLEAN
    BY DEF Sampling, FullInspect
  <2>5. /\ runTargets' = {} /\ runProbedKeys' = {}
        /\ total' = 0 /\ probeDone' = 0 /\ probePhase' = "listing"
        /\ UNCHANGED <<results, shutdown, lastFinished, list, todo, missing,
                       reported, inflight, retry, merge, listed>>
    OBVIOUS
  <2>6. TypeOK'
    BY <1>0, <1>b, <2>1, <2>2, <2>3, <2>4, <2>5 DEF TypeOK
  <2>7. /\ pc' = [pc EXCEPT ![r] = "list"]
        /\ token' = [token EXCEPT ![r] = runID + 1]
    OBVIOUS
  <2>8. \A s \in Slots : Active(s)' => token'[s] \in 1 .. MaxRunID
    BY <1>0, <2>1, <2>7 DEF TypeOK, BoundInv, Active
  <2> QED
    BY <1>0, <1>b, <2>1, <2>5, <2>6, <2>8 DEF BoundInv
<1>3. CASE Stop
  <2>1. UNCHANGED <<pc, token, missing, shutdown, sampleMode, runIsFullInspect,
                    fullClearPending, runClassifyScoped, runProbedKeys,
                    runListOK, lastFinished, mode, list, todo, reported,
                    inflight, retry, merge, listed>>
        /\ stopped' = TRUE
    BY <1>3 DEF Stop, runVars, configVars
  <2>2. stopped' \in BOOLEAN
    BY <2>1
  <2>3. CASE running
    <3>1. /\ results' \in [RowIds -> Seq(Rows)]
          /\ probeDone' \in Nat /\ total' \in Nat /\ running' = FALSE
          /\ probePhase' = "stopped" /\ runTargets' = {} /\ runID' = runID + 1
      BY <1>3, <2>3, AbortType DEF Stop
    <3>a. runID' \in 0 .. MaxRunID + 2
      BY <1>0, <1>b, <2>3, <3>1 DEF TypeOK, BoundInv
    <3>b. running' \in BOOLEAN
      BY <3>1
    <3>2. runID' \in 0 .. MaxRunID + 2 /\ running' \in BOOLEAN
      BY <3>a, <3>b
    <3>3. TypeOK'
      BY <1>0, <2>1, <2>2, <3>1, <3>2 DEF TypeOK
    <3>4. BoundInv'
      BY <1>0, <1>b, <2>1, <2>3, <3>1 DEF BoundInv, TypeOK, Active
    <3> QED
      BY <3>3, <3>4
  <2>4. CASE ~running
    <3>1. UNCHANGED <<results, total, probeDone, probePhase, running, runTargets, runID>>
      BY <1>3, <2>4 DEF Stop, progressVars
    <3> QED
      BY <1>0, <2>1, <2>2, <3>1 DEF TypeOK, BoundInv, Active
  <2> QED
    BY <2>3, <2>4
<1>4. CASE Shutdown
  <2>1. /\ shutdown = "no" /\ shutdown' = "waiting" /\ stopped' = TRUE
        /\ runID' = runID + 1
        /\ UNCHANGED <<results, running, sampleMode, runIsFullInspect,
                       fullClearPending, runClassifyScoped, runTargets,
                       runProbedKeys, runListOK, total, probeDone, probePhase,
                       lastFinished, pc, token, mode, list, todo, missing,
                       reported, inflight, retry, merge, listed>>
    BY <1>4 DEF Shutdown, runVars, configVars, planVars, progressVars
  <2>2. stopped' \in BOOLEAN
    BY <2>1
  <2>3. runID' \in 0 .. MaxRunID + 2
    BY <1>0, <1>b, <2>1 DEF TypeOK, BoundInv
  <2>4. TypeOK'
    BY <1>0, <2>1, <2>2, <2>3 DEF TypeOK
  <2>5. \A s \in Slots : Active(s)' => token'[s] \in 1 .. MaxRunID /\ token'[s] < runID'
    BY <1>0, <1>b, <2>1 DEF TypeOK, TokenInv, BoundInv, Active
  <2> QED
    BY <1>0, <1>b, <2>1, <2>4, <2>5 DEF BoundInv, TypeOK
<1>5. CASE ShutdownReturns
  <2>1. /\ shutdown = "waiting" /\ shutdown' = "down"
        /\ UNCHANGED <<results, running, stopped, runID, sampleMode,
                       runIsFullInspect, fullClearPending, runClassifyScoped,
                       runTargets, runProbedKeys, runListOK, total, probeDone,
                       probePhase, lastFinished, pc, token, mode, list, todo,
                       missing, reported, inflight, retry, merge, listed>>
    BY <1>5 DEF ShutdownReturns, runVars, configVars, planVars, progressVars
  <2> QED
    BY <1>0, <2>1 DEF TypeOK, BoundInv, Active
<1>6. ASSUME NEW a \in Accounts, DeleteAccount(a) PROVE TypeOK' /\ BoundInv'
  <2>1. UNCHANGED <<running, stopped, shutdown, runID, sampleMode,
                    runIsFullInspect, fullClearPending, runClassifyScoped,
                    runTargets, runProbedKeys, runListOK, total, probeDone,
                    probePhase, lastFinished, pc, token, mode, list, todo,
                    missing, reported, inflight, retry, merge, listed>>
    BY <1>6 DEF DeleteAccount, runVars, configVars, planVars, progressVars
  <2>2. results' \in [RowIds -> Seq(Rows)]
    <3>1. results' = [results EXCEPT ![a] = << >>]
      BY <1>6 DEF DeleteAccount
    <3>2. << >> \in Seq(Rows)
      OBVIOUS
    <3>3. results \in [RowIds -> Seq(Rows)]
      BY <1>0 DEF TypeOK
    <3> HIDE DEF Rows
    <3> QED
      BY <3>1, <3>2, <3>3
  <2> QED
    BY <1>0, <2>1, <2>2 DEF TypeOK, BoundInv, Active
<1>7. CASE UNCHANGED vars
  BY <1>0, <1>7 DEF vars, engineVars, configVars, planVars, progressVars, runVars,
                    TypeOK, BoundInv, Active
<1> QED
  BY <1>1, <1>2, <1>3, <1>4, <1>5, <1>6, <1>7 DEF Next

(* The engine starts with them. *)
LEMMA RunInvInit == Init => RunInv
<1> SUFFICES ASSUME Init PROVE RunInv
  OBVIOUS
<1>1. /\ running \in BOOLEAN /\ stopped \in BOOLEAN
      /\ sampleMode \in BOOLEAN /\ fullClearPending \in BOOLEAN
      /\ runIsFullInspect \in BOOLEAN /\ runClassifyScoped \in BOOLEAN
      /\ runListOK \in BOOLEAN
  BY DEF Init
<1>2. results \in [RowIds -> Seq(Rows)]
  <2>1. << >> \in Seq(Rows)
    OBVIOUS
  <2> QED
    BY <2>1 DEF Init
<1>3. lastFinished \in [run : 0 .. MaxRunID, listOK : BOOLEAN, full : BOOLEAN,
                        probed : SUBSET Accounts]
  BY InspectionAssumption DEF Init
<1>4. merge \in [Slots -> BOOLEAN]
  BY DEF Init
<1>5. TypeOK
  BY <1>1, <1>2, <1>3, <1>4, InspectionAssumption DEF Init, TypeOK, Labels
<1>6. running = FALSE /\ shutdown = "no" /\ runID = 0
      /\ \A r \in Slots : ~Active(r)
  BY DEF Init, Active
<1>7. \A r \in Slots : IsFiniteSet(missing[r])
  BY FS_EmptySet DEF Init
<1>8. BoundInv
  BY <1>6, <1>7, InspectionAssumption DEF BoundInv
<1>9. TokenInv /\ RunningInv
  BY <1>5, <1>6 DEF TokenInv, RunningInv, TypeOK, Init
<1> QED
  BY <1>5, <1>8, <1>9 DEF RunInv

(* Every variable keeps its type, and the number of tokens its bound. *)
THEOREM Typing == Spec => []TypeOK
<1>1. RunInv => TypeOK
  BY DEF RunInv
<1> QED
  BY <1>1, RunInvInit, RunInvStep, PTL DEF Spec

-----------------------------------------------------------------------------
(* The rows: an account that CPA lists with an auth_index never has two.   *)
(*                                                                         *)
(* A run that merges replaces the row there is.  A run that does not merge *)
(* appends, and the proof is about that: each of its targets is without a  *)
(* row until it is probed, although the targets were chosen earlier.       *)


(* Why a run that appends rows (no merge) appends none for an account that *)
(* has one: it dropped all rows with its plan, or it chose accounts that   *)
(* have none and nobody else can add one since.                            *)
LocalInv ==
  \A r \in Slots :
    /\ pc[r] \notin {"probe", "retry"} => inflight[r] = {}
    /\ pc[r] = "probe" => todo[r] \intersect inflight[r] = {}
    /\ pc[r] \in {"listed", "select"} => list[r] \in Lists
    /\ pc[r] \in {"missing", "probe"} => todo[r] \union inflight[r] \in Lists
    /\ missing[r] # {} => merge[r]

Unseen(r) ==
  \A f \in todo[r] \union inflight[r] : f.acct \notin Unindexed => results[f.acct] = << >>

FreshInv ==
  \A r \in Slots : Active(r) /\ Current(r) =>
    /\ mode[r] \in AllModes
    /\ Sampling(mode[r]) => sampleMode
    /\ pc[r] \notin {"probe", "retry", "finish"} /\ mode[r] = "full" => fullClearPending
    /\ pc[r] = "missing" /\ ~merge[r] /\ ~fullClearPending => Unseen(r)
    /\ pc[r] = "probe" /\ ~merge[r] => Unseen(r)

RowInv == RunInv /\ LocalInv /\ FreshInv /\ OneRowPerIndex

(* A step of one run leaves what belongs to the others alone. *)
LEMMA OthersUntouched ==
  ASSUME TypeOK, NEW r \in Slots, RunStep(r), NEW s \in Slots, s # r
  PROVE  /\ pc'[s] = pc[s] /\ token'[s] = token[s] /\ mode'[s] = mode[s]
         /\ list'[s] = list[s] /\ todo'[s] = todo[s]
         /\ missing'[s] = missing[s] /\ inflight'[s] = inflight[s]
         /\ merge'[s] = merge[s]
<1> USE DEF TypeOK, Goto, runVars
<1>1. CASE ListReturns(r)
  BY <1>1 DEF ListReturns
<1>2. CASE NoteFailed(r)
  BY <1>2 DEF NoteFailed
<1>3. CASE ReportFailure(r)
  BY <1>3 DEF ReportFailure
<1>4. CASE NoteListed(r)
  BY <1>4 DEF NoteListed
<1>5. CASE Select(r)
  BY <1>5 DEF Select
<1>6. CASE ReportMissing(r)
  BY <1>6 DEF ReportMissing
<1>7. CASE Plan(r)
  BY <1>7 DEF Plan
<1>8. CASE \E f \in todo[r] : StartProbe(r, f)
  BY <1>8 DEF StartProbe
<1>9. CASE StopScheduling(r)
  BY <1>9 DEF StopScheduling
<1>10. CASE \E f \in inflight[r], class \in {"answered", "timeout"} :
              ProbeDone(r, f, class) \/ RetryDone(r, f, class)
  BY <1>10 DEF ProbeDone, RetryDone
<1>11. CASE PrimaryOver(r)
  BY <1>11 DEF PrimaryOver
<1>12. CASE RetryOver(r)
  BY <1>12 DEF RetryOver
<1>13. CASE Finish(r)
  BY <1>13 DEF Finish
<1> QED
  BY <1>1, <1>2, <1>3, <1>4, <1>5, <1>6, <1>7, <1>8, <1>9, <1>10, <1>11,
     <1>12, <1>13 DEF RunStep

(* Part of a list has one file of an account too. *)
LEMMA SubsetOfList ==
  ASSUME NEW L \in Lists, NEW S \in SUBSET L
  PROVE  S \in Lists
BY DEF Lists

(* A step of a run keeps its own targets and probes in order. *)
LEMMA LocalStep ==
  ASSUME RunInv, LocalInv, NEW r \in Slots, RunStep(r)
  PROVE  LocalInv'
<1>0. TypeOK
  BY DEF RunInv
<1> DEFINE Mine ==
      /\ pc[r] \notin {"probe", "retry"} => inflight[r] = {}
      /\ pc[r] = "probe" => todo[r] \intersect inflight[r] = {}
      /\ pc[r] \in {"listed", "select"} => list[r] \in Lists
      /\ pc[r] \in {"missing", "probe"} => todo[r] \union inflight[r] \in Lists
      /\ missing[r] # {} => merge[r]
<1>a. Mine
  BY DEF LocalInv
<1> SUFFICES Mine'
  <2> SUFFICES ASSUME Mine', NEW s \in Slots, s # r
      PROVE  /\ pc'[s] \notin {"probe", "retry"} => inflight'[s] = {}
             /\ pc'[s] = "probe" => todo'[s] \intersect inflight'[s] = {}
             /\ pc'[s] \in {"listed", "select"} => list'[s] \in Lists
             /\ pc'[s] \in {"missing", "probe"} => todo'[s] \union inflight'[s] \in Lists
             /\ missing'[s] # {} => merge'[s]
    BY DEF LocalInv, Lists
  <2> QED
    BY <1>0, OthersUntouched DEF LocalInv
<1> HIDE DEF Mine
<1>1. CASE ListReturns(r)
  <2>a. \/ pc' = [pc EXCEPT ![r] = "failed"]
        \/ /\ pc' = [pc EXCEPT ![r] = "listed"]
           /\ \E S \in Lists : list' = [list EXCEPT ![r] = S]
    BY <1>1 DEF ListReturns, Goto
  <2>b. /\ pc \in [Slots -> Labels] /\ list \in [Slots -> SUBSET Files]
    BY <1>0 DEF TypeOK
  <2>1. pc'[r] = "failed" \/ (pc'[r] = "listed" /\ list'[r] \in Lists)
    <3>1. CASE pc' = [pc EXCEPT ![r] = "failed"]
      <4>1. pc'[r] = "failed"
        BY <2>b, <3>1
      <4> QED
        BY <4>1
    <3>2. ASSUME pc' = [pc EXCEPT ![r] = "listed"], NEW S \in Lists,
                 list' = [list EXCEPT ![r] = S]
          PROVE  pc'[r] = "listed" /\ list'[r] \in Lists
      <4>1. list'[r] = S
        BY <2>b, <3>2
      <4> QED
        BY <2>b, <3>2, <4>1
    <3> QED
      BY <2>a, <3>1, <3>2
  <2>2. pc[r] = "list" /\ UNCHANGED <<todo, missing, inflight, merge>>
    BY <1>1 DEF ListReturns
  <2> QED
    BY <1>a, <2>1, <2>2 DEF Mine, Lists
<1>2. CASE NoteFailed(r)
  <2>1. pc[r] = "failed" /\ pc'[r] = "report" /\ UNCHANGED runVars
    BY <1>0, <1>2 DEF NoteFailed, TypeOK, Goto
  <2> QED
    BY <1>a, <2>1 DEF Mine, runVars, Lists
<1>3. CASE ReportFailure(r)
  <2>1. pc[r] = "report" /\ pc'[r] = "finish" /\ UNCHANGED runVars
    BY <1>0, <1>3 DEF ReportFailure, TypeOK, Goto
  <2> QED
    BY <1>a, <2>1 DEF Mine, runVars, Lists
<1>4. CASE NoteListed(r)
  <2>1. pc[r] = "listed" /\ pc'[r] = "select" /\ UNCHANGED runVars
    BY <1>0, <1>4 DEF NoteListed, TypeOK, Goto
  <2> QED
    BY <1>a, <2>1 DEF Mine, runVars, Lists
<1>5. CASE Select(r)
  <2>0. PICK skip \in {{}, Disabled} :
          \E chosen \in Samples(Candidates(mode[r], list[r], skip)) :
            todo' = [todo EXCEPT ![r] = chosen]
    BY <1>5 DEF Select
  <2>1. PICK chosen \in Samples(Candidates(mode[r], list[r], skip)) :
          todo' = [todo EXCEPT ![r] = chosen]
    BY <2>0
  <2>2. chosen \subseteq list[r]
    BY CandidatesType, SamplesType
  <2>3. pc[r] = "select" /\ pc'[r] = "missing" /\ todo'[r] = chosen
        /\ UNCHANGED inflight
    BY <1>0, <1>5, <2>1 DEF Select, TypeOK, Goto
  <2>4. todo'[r] \union inflight'[r] \in Lists
    BY <1>a, <2>2, <2>3, SubsetOfList DEF Mine
  <2>5. /\ missing'[r] # {} => Scoped(mode[r]) /\ ~sampleMode
        /\ merge'[r] = (Scoped(mode[r]) \/ sampleMode)
    BY <1>0, <1>5 DEF Select, TypeOK
  <2>6. missing'[r] # {} => merge'[r]
    BY <2>5
  <2> QED
    BY <1>a, <2>3, <2>4, <2>6 DEF Mine, Lists
<1>6. CASE ReportMissing(r)
  <2>1. UNCHANGED <<pc, list, todo, missing, inflight, merge>>
    BY <1>6 DEF ReportMissing
  <2> QED
    BY <1>a, <2>1 DEF Mine, Lists
<1>7. CASE Plan(r)
  <2>1. pc[r] = "missing" /\ pc'[r] \in {"finish", "probe"} /\ UNCHANGED runVars
    BY <1>0, <1>7 DEF Plan, TypeOK, Goto
  <2> QED
    BY <1>a, <2>1 DEF Mine, runVars, Lists
<1>8. ASSUME NEW f \in todo[r], StartProbe(r, f) PROVE Mine'
  <2>1. /\ pc[r] \in {"probe", "retry"}
        /\ UNCHANGED <<pc, list, missing, merge>>
        /\ todo'[r] = todo[r] \ {f} /\ inflight'[r] = inflight[r] \union {f}
    BY <1>0, <1>8 DEF StartProbe, TypeOK
  <2>2. todo'[r] \union inflight'[r] = todo[r] \union inflight[r]
    BY <2>1
  <2> QED
    BY <1>a, <2>1, <2>2 DEF Mine, Lists
<1>9. CASE StopScheduling(r)
  <2>1. /\ pc[r] \in {"probe", "retry"}
        /\ UNCHANGED <<pc, list, missing, inflight, merge>>
        /\ todo'[r] = {}
    BY <1>0, <1>9 DEF StopScheduling, TypeOK
  <2>2. pc[r] = "probe" => inflight[r] \in Lists
    BY <1>a, SubsetOfList DEF Mine
  <2> QED
    BY <1>a, <2>1, <2>2 DEF Mine, Lists
<1>10. ASSUME NEW f \in inflight[r], NEW class \in {"answered", "timeout"},
              ProbeDone(r, f, class) \/ RetryDone(r, f, class)
       PROVE  Mine'
  <2>1. /\ pc[r] \in {"probe", "retry"}
        /\ UNCHANGED <<pc, list, missing, todo, merge>>
        /\ inflight'[r] = inflight[r] \ {f}
    BY <1>0, <1>10 DEF ProbeDone, RetryDone, TypeOK
  <2>2. pc[r] = "probe" => todo[r] \union (inflight[r] \ {f}) \in Lists
    BY <1>a, SubsetOfList DEF Mine
  <2> QED
    BY <1>a, <2>1, <2>2 DEF Mine, Lists
<1>11. CASE PrimaryOver(r)
  <2>1. /\ pc[r] = "probe" /\ pc'[r] \in {"finish", "retry"} /\ inflight[r] = {}
        /\ UNCHANGED <<list, missing, inflight, merge>>
    BY <1>0, <1>11 DEF PrimaryOver, Drained, TypeOK, Goto
  <2> QED
    BY <1>a, <2>1 DEF Mine, Lists
<1>12. CASE RetryOver(r)
  <2>1. /\ pc[r] = "retry" /\ pc'[r] = "finish" /\ inflight[r] = {}
        /\ UNCHANGED runVars
    BY <1>0, <1>12 DEF RetryOver, Drained, TypeOK, Goto
  <2> QED
    BY <1>a, <2>1 DEF Mine, runVars, Lists
<1>13. CASE Finish(r)
  <2>1. pc[r] = "finish" /\ pc'[r] = "idle" /\ UNCHANGED inflight /\ missing'[r] = {}
    BY <1>0, <1>13 DEF Finish, TypeOK, Goto
  <2> QED
    BY <1>a, <2>1 DEF Mine, Lists
<1> QED
  BY <1>1, <1>2, <1>3, <1>4, <1>5, <1>6, <1>7, <1>8, <1>9, <1>10, <1>11,
     <1>12, <1>13 DEF RunStep

(* So does every other step. *)
LEMMA LocalInvStep ==
  ASSUME RunInv, LocalInv, [Next]_vars
  PROVE  LocalInv'
<1>0. TypeOK
  BY DEF RunInv
<1> USE DEF runVars, LocalInv, Lists
<1>1. ASSUME NEW r \in Slots, RunStep(r) PROVE LocalInv'
  BY <1>1, LocalStep
<1>2. ASSUME NEW r \in Slots, NEW m \in Modes, Start(r, m) PROVE LocalInv'
  <2>1. /\ pc[r] = "idle" /\ pc' = [pc EXCEPT ![r] = "list"]
        /\ UNCHANGED <<list, todo, missing, inflight, merge>>
    BY <1>2 DEF Start, Goto
  <2> QED
    BY <1>0, <2>1 DEF TypeOK
<1>3. CASE Stop
  BY <1>3 DEF Stop
<1>4. CASE Shutdown
  BY <1>4 DEF Shutdown
<1>5. CASE ShutdownReturns
  BY <1>5 DEF ShutdownReturns
<1>6. ASSUME NEW a \in Accounts, DeleteAccount(a) PROVE LocalInv'
  BY <1>6 DEF DeleteAccount
<1>7. CASE UNCHANGED vars
  BY <1>7 DEF vars
<1> QED
  BY <1>1, <1>2, <1>3, <1>4, <1>5, <1>6, <1>7 DEF Next

-----------------------------------------------------------------------------
(* An appended or replaced row leaves one where there was none, or one.    *)
LEMMA MergedOne ==
  ASSUME NEW rows \in Seq(Rows), NEW row \in Rows, NEW upsert \in BOOLEAN,
         Len(rows) <= 1, upsert \/ rows = << >>
  PROVE  Len(Merged(rows, row, upsert)) <= 1
<1>1. Len(<<row>>) = 1
  OBVIOUS
<1>2. CASE rows = << >>
  <2>1. Append(rows, row) = <<row>>
    BY <1>2
  <2> QED
    BY <1>1, <1>2, <2>1 DEF Merged, Upserted
<1>3. CASE rows # << >>
  <2>1. Merged(rows, row, upsert) = [rows EXCEPT ![1] = row]
    BY <1>3 DEF Merged, Upserted
  <2>2. Len([rows EXCEPT ![1] = row]) = Len(rows)
    BY <1>3
  <2> QED
    BY <2>1, <2>2
<1> QED
  BY <1>2, <1>3

(* With an auth_index, the file has a row as soon as the account has one.  *)
LEMMA NoRow ==
  ASSUME NEW rows \in [RowIds -> Seq(Rows)], NEW f \in Files,
         f.acct \notin Unindexed, ~Contains(rows, f)
  PROVE  rows[f.acct] = << >>
<1>1. f.acct \in RowIds
  BY DEF Files, RowIds
<1>2. rows[f.acct] \in Seq(Rows)
  BY <1>1
<1>3. DOMAIN rows[f.acct] = {}
  BY DEF Contains, SameFile
<1>4. DOMAIN rows[f.acct] = 1 .. Len(rows[f.acct]) /\ Len(rows[f.acct]) \in Nat
  BY <1>2
<1>5. Len(rows[f.acct]) = 0
  <2>1. Len(rows[f.acct]) # 0 => 1 \in 1 .. Len(rows[f.acct])
    BY <1>4
  <2> QED
    BY <1>3, <1>4, <2>1
<1> QED
  BY <1>2, <1>5, EmptySeq

(* A stop marks only targets without a row. *)
LEMMA CancelledOne ==
  ASSUME NEW rows \in [RowIds -> Seq(Rows)], NEW targets \in SUBSET Files,
         NEW upsert \in BOOLEAN, runID \in 1 .. MaxRunID + 2,
         NEW a \in RowIds \ Unindexed, Len(rows[a]) <= 1
  PROVE  Len(Cancelled(rows, targets, upsert)[a]) <= 1
<1> DEFINE left == {f \in targets : f.acct = a /\ ~Contains(rows, f)}
<1>1. CASE left = {}
  BY <1>1 DEF Cancelled
<1>2. CASE left # {}
  <2> DEFINE f == CHOOSE f \in left : TRUE
  <2>1. f \in left
    BY <1>2
  <2>2. f.ver \in 0 .. MaxVersion
    BY <2>1, InspectionAssumption DEF Files
  <2>3. Row("cancelled", f.ver, runID) \in Rows
    BY <2>2 DEF Row, Rows, Classes
  <2>4. rows[a] = << >>
    BY <2>1, NoRow
  <2>5. Len(Merged(rows[a], Row("cancelled", f.ver, runID), upsert)) <= 1
    BY <2>3, <2>4, MergedOne
  <2> QED
    BY <1>2, <2>5 DEF Cancelled
<1> QED
  BY <1>1, <1>2

(* Recording adds a row where there is none, or replaces it. *)
LEMMA RecordOne ==
  ASSUME RunInv, OneRowPerIndex, NEW r \in Slots, NEW a \in RowIds,
         NEW row \in Rows, NEW upsert \in BOOLEAN, Record(r, a, row, upsert),
         upsert \/ a \in Unindexed \/ results[a] = << >>
  PROVE  OneRowPerIndex'
<1>0. results \in [RowIds -> Seq(Rows)]
  BY DEF RunInv, TypeOK
<1>1. CASE UNCHANGED results
  BY <1>1 DEF OneRowPerIndex
<1>2. CASE results' = [results EXCEPT ![a] = Merged(results[a], row, upsert)]
  <2>1. ASSUME NEW b \in RowIds \ Unindexed PROVE Len(results'[b]) <= 1
    <3>1. CASE b = a
      <4>1. Len(Merged(results[a], row, upsert)) <= 1
        BY <1>0, <3>1, MergedOne DEF OneRowPerIndex
      <4> QED
        BY <1>0, <1>2, <3>1, <4>1
    <3>2. CASE b # a
      BY <1>0, <1>2, <3>2 DEF OneRowPerIndex
    <3> QED
      BY <3>1, <3>2
  <2> QED
    BY <2>1 DEF OneRowPerIndex
<1> QED
  BY <1>1, <1>2 DEF Record, Write

-----------------------------------------------------------------------------
(* Only a goroutine that has been started takes steps. *)
LEMMA RunStepActive ==
  ASSUME NEW r \in Slots, RunStep(r)
  PROVE  Active(r)
BY DEF RunStep, Active, ListReturns, NoteFailed, ReportFailure, NoteListed, Select,
       ReportMissing, Plan, StartProbe, StopScheduling, ProbeDone, RetryDone,
       PrimaryOver, RetryOver, Finish

(* No step of a run makes a run current. *)
LEMMA StaysCurrent ==
  ASSUME RunInv, NEW r \in Slots, RunStep(r), NEW s \in Slots,
         Active(s)', Current(s)'
  PROVE  Active(s) /\ Current(s)
<1>0. TypeOK /\ TokenInv
  BY DEF RunInv
<1>1. CASE Plan(r)
  BY <1>1, PlanTypes DEF Current
<1>2. CASE Finish(r)
  <2>1. /\ pc' = [pc EXCEPT ![r] = "idle"] /\ token' = [token EXCEPT ![r] = 0]
        /\ UNCHANGED runID
    BY <1>2 DEF Finish, Goto
  <2> QED
    BY <1>0, <2>1 DEF TypeOK, Active, Current
<1>3. CASE ~Plan(r) /\ ~Finish(r)
  BY <1>0, <1>3, QuietStep DEF Current
<1> QED
  BY <1>1, <1>2, <1>3

(* What a run chooses that neither drops the rows nor merges has no row.   *)
LEMMA SelectUnseen ==
  ASSUME RunInv, LocalInv, FreshInv, NEW r \in Slots, Select(r), Current(r),
         ~merge'[r], ~fullClearPending'
  PROVE  Unseen(r)'
<1>0. TypeOK /\ pc[r] = "select" /\ Active(r)
  BY DEF RunInv, Select, Active
<1>1. /\ mode[r] \in AllModes /\ (Sampling(mode[r]) => sampleMode)
      /\ (mode[r] = "full" => fullClearPending)
  BY <1>0 DEF FreshInv
<1>2. merge' = [merge EXCEPT ![r] = Scoped(mode[r]) \/ sampleMode]
      /\ UNCHANGED <<results, fullClearPending, inflight>>
  BY DEF Select, engineVars, planVars
<1>3. ~Scoped(mode[r]) /\ ~sampleMode
  BY <1>0, <1>2 DEF TypeOK
<1>4. mode[r] = "incremental"
  BY <1>1, <1>2, <1>3 DEF AllModes, Scoped, Category, Sampling
<1>5. PICK skip \in {{}, Disabled} :
        \E chosen \in Samples(Candidates(mode[r], list[r], skip)) :
          todo' = [todo EXCEPT ![r] = chosen]
  BY DEF Select
<1>6. PICK chosen \in Samples(Candidates(mode[r], list[r], skip)) :
        todo' = [todo EXCEPT ![r] = chosen]
  BY <1>5
<1>7. chosen \subseteq {f \in list[r] : ~Contains(results, f)}
  <2>1. chosen \subseteq Candidates(mode[r], list[r], skip)
    BY SamplesType
  <2>2. Candidates(mode[r], list[r], skip) \subseteq {f \in list[r] : ~Contains(results, f)}
    BY <1>3, <1>4 DEF Candidates
  <2> QED
    BY <2>1, <2>2
<1>8. todo'[r] \union inflight'[r] = chosen
  BY <1>0, <1>2, <1>6 DEF LocalInv, TypeOK
<1>9. list[r] \subseteq Files /\ results \in [RowIds -> Seq(Rows)]
  BY <1>0 DEF TypeOK
<1>10. ASSUME NEW f \in chosen, f.acct \notin Unindexed PROVE results'[f.acct] = << >>
  BY <1>2, <1>7, <1>9, <1>10, NoRow
<1> QED
  BY <1>8, <1>10 DEF Unseen

(* The row of a target is no row of another one. *)
LEMMA ProbeUnseen ==
  ASSUME RunInv, LocalInv, NEW r \in Slots, Unseen(r), Current(r),
         NEW f \in inflight[r], NEW class \in {"answered", "timeout"},
         ProbeDone(r, f, class)
  PROVE  Unseen(r)'
<1>0. TypeOK
  BY DEF RunInv
<1>1. /\ pc[r] = "probe" /\ inflight' = [inflight EXCEPT ![r] = inflight[r] \ {f}]
      /\ UNCHANGED todo
      /\ Record(r, f.acct, Row(class, f.ver, token[r]), merge[r])
  BY DEF ProbeDone
<1>2. todo[r] \union inflight[r] \in Lists /\ todo[r] \intersect inflight[r] = {}
  BY <1>1 DEF LocalInv
<1>3. todo'[r] \union inflight'[r] = (todo[r] \union inflight[r]) \ {f}
  BY <1>0, <1>1, <1>2 DEF TypeOK
<1>4. ASSUME NEW g \in (todo[r] \union inflight[r]) \ {f} PROVE g.acct # f.acct
  BY <1>2, <1>4 DEF Lists
<1>5. \A b \in RowIds : b # f.acct => results'[b] = results[b]
  BY <1>0, <1>1 DEF Record, Write, TypeOK
<1>6. ASSUME NEW g \in todo[r] \union inflight[r] PROVE g.acct \in RowIds
  BY <1>0 DEF TypeOK, Files, RowIds
<1> QED
  BY <1>3, <1>4, <1>5, <1>6 DEF Unseen

(* A step of the current run keeps its targets without rows. *)
LEMMA FreshMine ==
  ASSUME RunInv, LocalInv, FreshInv, NEW r \in Slots, RunStep(r),
         Active(r), Current(r), Active(r)', Current(r)'
  PROVE  /\ mode'[r] \in AllModes
         /\ Sampling(mode'[r]) => sampleMode'
         /\ pc'[r] \notin {"probe", "retry", "finish"} /\ mode'[r] = "full"
              => fullClearPending'
         /\ pc'[r] = "missing" /\ ~merge'[r] /\ ~fullClearPending' => Unseen(r)'
         /\ pc'[r] = "probe" /\ ~merge'[r] => Unseen(r)'
<1>0. TypeOK
  BY DEF RunInv
<1>a. /\ mode[r] \in AllModes
      /\ Sampling(mode[r]) => sampleMode
      /\ pc[r] \notin {"probe", "retry", "finish"} /\ mode[r] = "full" => fullClearPending
      /\ pc[r] = "missing" /\ ~merge[r] /\ ~fullClearPending => Unseen(r)
      /\ pc[r] = "probe" /\ ~merge[r] => Unseen(r)
  BY DEF FreshInv
<1>b. ~stopped /\ ~Discarded(r)
  BY CurrentIsLive DEF Discarded
<1>1. CASE ListReturns(r)
  <2>1. /\ pc[r] = "list" /\ pc'[r] \in {"failed", "listed"}
        /\ UNCHANGED <<mode, sampleMode, fullClearPending>>
    BY <1>0, <1>1 DEF ListReturns, Goto, TypeOK, engineVars, configVars, planVars
  <2> QED
    BY <1>a, <2>1
<1>2. CASE NoteFailed(r)
  <2>1. /\ pc[r] = "failed" /\ pc'[r] = "report"
        /\ UNCHANGED <<mode, sampleMode, fullClearPending>>
    BY <1>0, <1>2 DEF NoteFailed, Goto, TypeOK, runVars, configVars, planVars
  <2> QED
    BY <1>a, <2>1
<1>3. CASE ReportFailure(r)
  <2>1. pc'[r] = "finish" /\ UNCHANGED <<mode, sampleMode>>
    BY <1>0, <1>3 DEF ReportFailure, Goto, TypeOK, runVars, configVars
  <2> QED
    BY <1>a, <2>1
<1>4. CASE NoteListed(r)
  <2>1. /\ pc[r] = "listed" /\ pc'[r] = "select"
        /\ UNCHANGED <<mode, sampleMode, fullClearPending>>
    BY <1>0, <1>4 DEF NoteListed, Goto, TypeOK, runVars, configVars, planVars
  <2> QED
    BY <1>a, <2>1
<1>5. CASE Select(r)
  <2>1. /\ pc[r] = "select" /\ pc'[r] = "missing"
        /\ UNCHANGED <<mode, sampleMode, fullClearPending>>
    BY <1>0, <1>5 DEF Select, Goto, TypeOK, engineVars, configVars, planVars
  <2>2. ~merge'[r] /\ ~fullClearPending' => Unseen(r)'
    BY <1>5, SelectUnseen
  <2> QED
    BY <1>a, <2>1, <2>2
<1>6. CASE ReportMissing(r)
  <2>1. pc[r] = "missing" /\ UNCHANGED <<pc, mode, sampleMode, fullClearPending, merge>>
        /\ missing[r] # {}
    BY <1>6 DEF ReportMissing, configVars, planVars
  <2>2. merge[r]
    BY <2>1 DEF LocalInv
  <2> QED
    BY <1>a, <2>1, <2>2
<1>7. CASE Plan(r)
  <2>1. /\ pc[r] = "missing" /\ pc'[r] \in {"finish", "probe"}
        /\ UNCHANGED <<mode, sampleMode, merge, todo, inflight>>
        /\ results' = IF fullClearPending THEN [a \in RowIds |-> << >>] ELSE results
    BY <1>0, <1>7, PlanEffect DEF TypeOK, configVars, runVars
  <2>2. CASE fullClearPending
    <3>1. \A a \in RowIds : results'[a] = << >>
      BY <2>1, <2>2
    <3>2. \A f \in todo[r] \union inflight[r] : f.acct \in RowIds
      BY <1>0 DEF TypeOK, Files, RowIds
    <3>3. Unseen(r)'
      BY <2>1, <3>1, <3>2 DEF Unseen
    <3> QED
      BY <1>a, <2>1, <3>3
  <2>3. CASE ~fullClearPending
    <3>1. ~merge[r] => Unseen(r)'
      BY <1>a, <2>1, <2>3 DEF Unseen
    <3> QED
      BY <1>a, <2>1, <3>1
  <2> QED
    BY <2>2, <2>3
<1>8. ASSUME NEW f \in todo[r], StartProbe(r, f)
      PROVE  /\ mode'[r] \in AllModes
             /\ Sampling(mode'[r]) => sampleMode'
             /\ pc'[r] \in {"probe", "retry"}
             /\ pc'[r] = "probe" /\ ~merge'[r] => Unseen(r)'
  <2>1. /\ pc[r] \in {"probe", "retry"} /\ UNCHANGED <<pc, mode, sampleMode, merge, results>>
        /\ todo'[r] \union inflight'[r] = todo[r] \union inflight[r]
    BY <1>0, <1>8 DEF StartProbe, TypeOK, engineVars, configVars
  <2>2. Unseen(r) => Unseen(r)'
    BY <2>1 DEF Unseen
  <2> QED
    BY <1>a, <2>1, <2>2
<1>9. CASE StopScheduling(r)
  BY <1>b, <1>9 DEF StopScheduling
<1>10. ASSUME NEW f \in inflight[r], NEW class \in {"answered", "timeout"},
              ProbeDone(r, f, class)
       PROVE  /\ mode'[r] \in AllModes
              /\ Sampling(mode'[r]) => sampleMode'
              /\ pc'[r] = "probe"
              /\ ~merge'[r] => Unseen(r)'
  <2>1. pc[r] = "probe" /\ UNCHANGED <<pc, mode, sampleMode, merge>>
    BY <1>10 DEF ProbeDone, configVars
  <2>2. Unseen(r) => Unseen(r)'
    BY <1>10, ProbeUnseen
  <2> QED
    BY <1>a, <2>1, <2>2
<1>11. CASE \E f \in inflight[r], class \in {"answered", "timeout"} : RetryDone(r, f, class)
  <2>1. pc[r] = "retry" /\ UNCHANGED <<pc, mode, sampleMode>>
    BY <1>11 DEF RetryDone, configVars
  <2> QED
    BY <1>a, <2>1
<1>12. CASE PrimaryOver(r)
  <2>1. pc'[r] \in {"finish", "retry"} /\ UNCHANGED <<mode, sampleMode>>
    BY <1>0, <1>12 DEF PrimaryOver, Goto, TypeOK, configVars
  <2> QED
    BY <1>a, <2>1
<1>13. CASE RetryOver(r)
  <2>1. pc'[r] = "finish" /\ UNCHANGED <<mode, sampleMode>>
    BY <1>0, <1>13 DEF RetryOver, Goto, TypeOK, configVars, engineVars, runVars
  <2> QED
    BY <1>a, <2>1
<1>14. CASE Finish(r)
  BY <1>0, <1>14 DEF Finish, Goto, TypeOK, Active
<1> QED
  BY <1>1, <1>2, <1>3, <1>4, <1>5, <1>6, <1>7, <1>8, <1>9, <1>10, <1>11,
     <1>12, <1>13, <1>14 DEF RunStep

(* A step of any run does: the others are silent. *)
LEMMA FreshRunStep ==
  ASSUME RunInv, LocalInv, FreshInv, NEW r \in Slots, RunStep(r)
  PROVE  FreshInv'
<1>0. TypeOK /\ TokenInv
  BY DEF RunInv
<1> SUFFICES ASSUME NEW s \in Slots, Active(s)', Current(s)'
    PROVE  /\ mode'[s] \in AllModes
           /\ Sampling(mode'[s]) => sampleMode'
           /\ pc'[s] \notin {"probe", "retry", "finish"} /\ mode'[s] = "full"
                => fullClearPending'
           /\ pc'[s] = "missing" /\ ~merge'[s] /\ ~fullClearPending' => Unseen(s)'
           /\ pc'[s] = "probe" /\ ~merge'[s] => Unseen(s)'
  BY DEF FreshInv
<1>1. Active(s) /\ Current(s) /\ Active(r)
  BY StaysCurrent, RunStepActive
<1>2. CASE s = r
  BY <1>1, <1>2, FreshMine
<1>3. CASE s # r
  <2>1. ~Current(r)
    BY <1>0, <1>1, <1>3 DEF TokenInv, Current
  <2>2. UNCHANGED <<results, sampleMode, fullClearPending>>
    BY <2>1, SilentStep DEF engineVars, configVars, planVars
  <2>3. /\ pc'[s] = pc[s] /\ mode'[s] = mode[s] /\ todo'[s] = todo[s]
        /\ inflight'[s] = inflight[s] /\ merge'[s] = merge[s]
    BY <1>0, <1>3, OthersUntouched
  <2>4. Unseen(s) => Unseen(s)'
    BY <2>2, <2>3 DEF Unseen
  <2> QED
    BY <1>1, <2>2, <2>3, <2>4 DEF FreshInv
<1> QED
  BY <1>2, <1>3

(* Every step keeps the targets of the current run without rows. *)
LEMMA FreshStep ==
  ASSUME RunInv, LocalInv, FreshInv, [Next]_vars
  PROVE  FreshInv'
<1>0. TypeOK /\ TokenInv
  BY DEF RunInv
<1>1. ASSUME NEW r \in Slots, RunStep(r) PROVE FreshInv'
  BY <1>1, FreshRunStep
<1>2. ASSUME NEW r \in Slots, NEW m \in Modes, Start(r, m) PROVE FreshInv'
  <2>1. /\ pc' = [pc EXCEPT ![r] = "list"] /\ token' = [token EXCEPT ![r] = runID + 1]
        /\ mode' = [mode EXCEPT ![r] = m] /\ runID' = runID + 1
        /\ Sampling(m) => sampleMode'
        /\ m = "full" => fullClearPending'
    BY <1>2 DEF Start, Goto, FullInspect
  <2>2. \A s \in Slots : Current(s)' => s = r
    BY <1>0, <2>1 DEF TypeOK, TokenInv, Current
  <2>3. m \in AllModes
    BY InspectionAssumption
  <2>4. pc'[r] = "list" /\ mode'[r] = m
    BY <1>0, <2>1 DEF TypeOK
  <2> QED
    BY <2>1, <2>2, <2>3, <2>4 DEF FreshInv
<1>3. CASE runID' = runID + 1 /\ UNCHANGED token
  <2>1. \A s \in Slots : ~Current(s)'
    BY <1>0, <1>3 DEF TokenInv, Current
  <2> QED
    BY <2>1 DEF FreshInv
<1>4. CASE UNCHANGED <<results, sampleMode, fullClearPending, pc, token, mode, todo,
                       inflight, merge, runID>>
  BY <1>4 DEF FreshInv, Active, Current, Unseen
<1>5. CASE Stop
  BY <1>3, <1>4, <1>5 DEF Stop, Abort, configVars, runVars
<1>6. CASE Shutdown
  BY <1>3, <1>6 DEF Shutdown, runVars
<1>7. CASE ShutdownReturns
  BY <1>4, <1>7 DEF ShutdownReturns, configVars, planVars, runVars
<1>8. ASSUME NEW a \in Accounts, DeleteAccount(a) PROVE FreshInv'
  <2>1. ~running /\ UNCHANGED <<pc, token, runID>>
    BY <1>8 DEF DeleteAccount, runVars
  <2>2. \A s \in Slots : ~(Active(s) /\ Current(s))
    BY <2>1, CurrentIsLive
  <2> QED
    BY <2>1, <2>2 DEF FreshInv, Active, Current
<1>9. CASE UNCHANGED vars
  BY <1>4, <1>9 DEF vars, engineVars, configVars, planVars, runVars
<1> QED
  BY <1>1, <1>2, <1>5, <1>6, <1>7, <1>8, <1>9 DEF Next

-----------------------------------------------------------------------------
(* A step of a run leaves an account with an auth_index one row. *)
LEMMA OneRowRunStep ==
  ASSUME RunInv, LocalInv, FreshInv, OneRowPerIndex, NEW r \in Slots, RunStep(r)
  PROVE  OneRowPerIndex'
<1>0. TypeOK
  BY DEF RunInv
<1>a. CASE UNCHANGED results
  BY <1>a DEF OneRowPerIndex
<1>b. CASE ~Current(r)
  BY <1>a, <1>b, SilentStep DEF engineVars
<1>c. ASSUME Current(r) PROVE OneRowPerIndex'
  <2>0. Active(r) /\ token[r] \in 1 .. MaxRunID + 2 /\ merge[r] \in BOOLEAN
    BY <1>0, RunStepActive, TokenType DEF TypeOK
  <2>1. CASE ReportFailure(r)
    <3>1. Row("missing", 0, token[r]) \in Rows
      BY <2>0, InspectionAssumption DEF Row, Rows, Classes
    <3>2. System \in RowIds
      BY DEF RowIds
    <3>3. Record(r, System, Row("missing", 0, token[r]), TRUE)
      BY <2>1 DEF ReportFailure
    <3> QED
      BY <3>1, <3>2, <3>3, RecordOne
  <2>2. CASE ReportMissing(r)
    <3>1. PICK s \in missing[r] : Record(r, s.acct, Row("missing", s.ver, token[r]), merge[r])
      BY <2>2 DEF ReportMissing
    <3>2. s.acct \in RowIds /\ s.ver \in 0 .. MaxVersion
      BY <1>0 DEF TypeOK, Locations
    <3>3. Row("missing", s.ver, token[r]) \in Rows
      BY <2>0, <3>2 DEF Row, Rows, Classes
    <3>4. merge[r]
      BY DEF LocalInv
    <3> QED
      BY <2>0, <3>1, <3>2, <3>3, <3>4, RecordOne
  <2>3. CASE Plan(r)
    <3>1. results' = IF fullClearPending THEN [a \in RowIds |-> << >>] ELSE results
      BY <1>c, <2>3, PlanEffect
    <3>2. CASE fullClearPending
      <4>1. \A a \in RowIds : results'[a] = << >>
        BY <3>1, <3>2
      <4> QED
        BY <4>1 DEF OneRowPerIndex
    <3>3. CASE ~fullClearPending
      BY <1>a, <3>1, <3>3
    <3> QED
      BY <3>2, <3>3
  <2>4. ASSUME NEW f \in inflight[r], NEW class \in {"answered", "timeout"}
        PROVE  /\ f.acct \in RowIds /\ Row(class, f.ver, token[r]) \in Rows
    <3>1. f.acct \in RowIds /\ f.ver \in 0 .. MaxVersion
      BY <1>0 DEF TypeOK, Files, RowIds
    <3> QED
      BY <2>0, <3>1 DEF Row, Rows, Classes
  <2>5. ASSUME NEW f \in inflight[r], NEW class \in {"answered", "timeout"},
               ProbeDone(r, f, class)
        PROVE  OneRowPerIndex'
    <3>1. pc[r] = "probe" /\ Record(r, f.acct, Row(class, f.ver, token[r]), merge[r])
      BY <2>5 DEF ProbeDone
    <3>2. merge[r] \/ f.acct \in Unindexed \/ results[f.acct] = << >>
      BY <1>c, <2>0, <3>1 DEF FreshInv, Unseen
    <3> QED
      BY <2>0, <2>4, <3>1, <3>2, RecordOne
  <2>6. ASSUME NEW f \in inflight[r], NEW class \in {"answered", "timeout"},
               RetryDone(r, f, class)
        PROVE  OneRowPerIndex'
    <3>1. CASE Discarded(r)
      BY <1>a, <2>6, <3>1 DEF RetryDone
    <3>2. CASE ~Discarded(r)
      <4>1. results' = [results EXCEPT ![f.acct] =
                          Merged(results[f.acct], Row(class, f.ver, token[r]), TRUE)]
        BY <2>6, <3>2 DEF RetryDone, Write
      <4>2. ASSUME NEW b \in RowIds \ Unindexed PROVE Len(results'[b]) <= 1
        <5>1. CASE b = f.acct
          <6>1. results[b] \in Seq(Rows) /\ Len(results[b]) <= 1
            BY <1>0 DEF TypeOK, OneRowPerIndex
          <6>2. Len(Merged(results[f.acct], Row(class, f.ver, token[r]), TRUE)) <= 1
            BY <2>4, <5>1, <6>1, MergedOne
          <6> QED
            BY <1>0, <4>1, <5>1, <6>2 DEF TypeOK
        <5>2. CASE b # f.acct
          BY <1>0, <4>1, <5>2 DEF TypeOK, OneRowPerIndex
        <5> QED
          BY <5>1, <5>2
      <4> QED
        BY <4>2 DEF OneRowPerIndex
    <3> QED
      BY <3>1, <3>2
  <2>7. CASE ListReturns(r) \/ NoteFailed(r) \/ NoteListed(r) \/ Select(r)
             \/ (\E f \in todo[r] : StartProbe(r, f)) \/ StopScheduling(r)
             \/ PrimaryOver(r) \/ RetryOver(r) \/ Finish(r)
    <3>1. UNCHANGED results
      BY <2>7 DEF ListReturns, NoteFailed, NoteListed, Select, StartProbe,
                  StopScheduling, PrimaryOver, RetryOver, Finish, engineVars
    <3> QED
      BY <1>a, <3>1
  <2> QED
    BY <2>1, <2>2, <2>3, <2>5, <2>6, <2>7 DEF RunStep
<1> QED
  BY <1>b, <1>c

(* So does every step. *)
LEMMA OneRowStep ==
  ASSUME RowInv, [Next]_vars
  PROVE  RowInv'
<1>0. RunInv /\ LocalInv /\ FreshInv /\ OneRowPerIndex /\ TypeOK
  BY DEF RowInv, RunInv
<1> SUFFICES OneRowPerIndex'
  BY <1>0, RunInvStep, LocalInvStep, FreshStep DEF RowInv
<1>a. CASE UNCHANGED results
  BY <1>0, <1>a DEF OneRowPerIndex
<1>1. ASSUME NEW r \in Slots, RunStep(r) PROVE OneRowPerIndex'
  BY <1>0, <1>1, OneRowRunStep
<1>2. ASSUME NEW r \in Slots, NEW m \in Modes, Start(r, m) PROVE OneRowPerIndex'
  BY <1>2, <1>a DEF Start
<1>3. CASE Stop
  <2>1. CASE running
    <3>1. results' = Cancelled(results, runTargets, runClassifyScoped)
      BY <1>3, <2>1 DEF Stop, Abort
    <3>2. runID \in 1 .. MaxRunID + 2
      BY <1>0, <2>1, InspectionAssumption DEF RunInv, BoundInv, TypeOK
    <3>3. /\ results \in [RowIds -> Seq(Rows)] /\ runTargets \in SUBSET Files
          /\ runClassifyScoped \in BOOLEAN
      BY <1>0 DEF TypeOK
    <3>4. \A a \in RowIds \ Unindexed : Len(results'[a]) <= 1
      BY <1>0, <3>1, <3>2, <3>3, CancelledOne DEF OneRowPerIndex
    <3> QED
      BY <3>4 DEF OneRowPerIndex
  <2>2. CASE ~running
    BY <1>3, <1>a, <2>2 DEF Stop
  <2> QED
    BY <2>1, <2>2
<1>4. CASE Shutdown
  BY <1>4, <1>a DEF Shutdown
<1>5. CASE ShutdownReturns
  BY <1>5, <1>a DEF ShutdownReturns
<1>6. ASSUME NEW a \in Accounts, DeleteAccount(a) PROVE OneRowPerIndex'
  <2>1. results' = [results EXCEPT ![a] = << >>]
    BY <1>6 DEF DeleteAccount
  <2>2. \A b \in RowIds : results'[b] = << >> \/ results'[b] = results[b]
    BY <1>0, <2>1 DEF TypeOK
  <2> QED
    BY <1>0, <2>2 DEF OneRowPerIndex
<1>7. CASE UNCHANGED vars
  BY <1>7, <1>a DEF vars, engineVars
<1> QED
  BY <1>1, <1>2, <1>3, <1>4, <1>5, <1>6, <1>7 DEF Next

(* An account that CPA lists with an auth_index, and the failure of the    *)
(* list, never have two rows, however runs of any kind are stopped,        *)
(* overtaken and repeated.                                                 *)
THEOREM OneRow == Spec => []OneRowPerIndex
<1>1. Init => RowInv
  <2> SUFFICES ASSUME Init PROVE RowInv
    OBVIOUS
  <2>1. RunInv
    BY RunInvInit
  <2>2. LocalInv
    BY DEF Init, LocalInv
  <2>3. FreshInv
    BY DEF Init, FreshInv, Active
  <2>4. \A a \in RowIds : results[a] = << >>
    BY DEF Init
  <2>5. OneRowPerIndex
    BY <2>4 DEF OneRowPerIndex
  <2> QED
    BY <2>1, <2>2, <2>3, <2>5 DEF RowInv
<1>2. RowInv => OneRowPerIndex
  BY DEF RowInv
<1> QED
  BY <1>1, <1>2, OneRowStep, PTL DEF Spec
-----------------------------------------------------------------------------
(* What the current run has told, kept and filled in so far.               *)

(* runListOK is what became of the list of the current run: false until    *)
(* the run has noted it.                                                   *)
Told(r) ==
  /\ pc[r] \in {"list", "failed", "report", "listed"} => ~runListOK
  /\ pc[r] \in {"failed", "report"} => listed[token[r]] = "fail"
  /\ pc[r] = "listed" => listed[token[r]] = "ok"
  /\ pc[r] \in {"select", "missing", "probe", "retry"} =>
       runListOK /\ listed[token[r]] = "ok"
  /\ pc[r] = "finish" => (runListOK <=> listed[token[r]] = "ok")

OutcomeInv ==
  /\ OutcomeIsOwn
  /\ lastFinished.run <= runID
  /\ \A r \in Slots : Active(r) => token[r] # lastFinished.run
  /\ \A r \in Slots : Active(r) /\ Current(r) => Told(r)

(* Only a full run drops rows, and it has every account it may probe among *)
(* its targets by then.                                                    *)
Spares(r) ==
  fullClearPending =>
    /\ mode[r] = "full" /\ runIsFullInspect /\ ~sampleMode
    /\ pc[r] = "missing" => {f \in list[r] : f.acct \notin Disabled} \subseteq todo[r]

HistoryInv == \A r \in Slots : Active(r) /\ Current(r) => Spares(r)

(* A row that this run wrote, not for a stop. *)
Probed(a) ==
  \E i \in DOMAIN results[a] :
    results[a][i].by = runID /\ results[a][i].class # "cancelled"

(* Each target is still to do, with a worker, or has its row; the progress *)
(* counts the rows.                                                        *)
Filled(r) ==
  /\ pc[r] \in {"list", "listed", "select"} => probeDone = 0
  /\ pc[r] = "missing" => probeDone = Cardinality(reported[r])
  /\ pc[r] = "probe" =>
       /\ total = probeDone + Cardinality(todo[r] \union inflight[r])
       /\ \A f \in runTargets \ (todo[r] \union inflight[r]) : Probed(f.acct)
  /\ pc[r] = "retry" \/ (pc[r] = "finish" /\ runListOK) =>
       /\ total = probeDone
       /\ \A f \in runTargets : Probed(f.acct)

FillInv == \A r \in Slots : Active(r) /\ Current(r) => Filled(r)

(* The current run tells what became of its list. *)
LEMMA ToldMine ==
  ASSUME RunInv, NEW r \in Slots, RunStep(r), Active(r), Current(r), Told(r),
         Active(r)', Current(r)'
  PROVE  Told(r)'
<1>0. TypeOK /\ token[r] \in Tokens
  BY TokenType DEF RunInv, Tokens
<1> USE DEF Told
<1>1. CASE ListReturns(r)
  <2>1. UNCHANGED <<runListOK, token>> /\ pc[r] = "list"
    BY <1>1 DEF ListReturns, engineVars
  <2>2. \/ pc'[r] = "listed" /\ listed' = [listed EXCEPT ![token[r]] = "ok"]
        \/ pc'[r] = "failed" /\ listed' = [listed EXCEPT ![token[r]] = "fail"]
    BY <1>0, <1>1 DEF ListReturns, Goto, TypeOK
  <2>3. \/ pc'[r] = "listed" /\ listed'[token[r]] = "ok"
        \/ pc'[r] = "failed" /\ listed'[token[r]] = "fail"
    BY <1>0, <2>2 DEF TypeOK
  <2> QED
    BY <2>1, <2>3
<1>2. CASE NoteFailed(r)
  <2>1. pc[r] = "failed" /\ pc'[r] = "report" /\ runListOK' = FALSE
        /\ UNCHANGED <<token, listed>>
    BY <1>0, <1>2 DEF NoteFailed, NoteOutcome, Goto, TypeOK, runVars
  <2> QED
    BY <2>1
<1>3. CASE ReportFailure(r)
  <2>1. pc[r] = "report" /\ pc'[r] = "finish" /\ UNCHANGED <<runListOK, token, listed>>
    BY <1>0, <1>3 DEF ReportFailure, Goto, TypeOK, runVars
  <2> QED
    BY <2>1
<1>4. CASE NoteListed(r)
  <2>1. pc[r] = "listed" /\ pc'[r] = "select" /\ runListOK' = TRUE
        /\ UNCHANGED <<token, listed>>
    BY <1>0, <1>4 DEF NoteListed, NoteOutcome, Goto, TypeOK, runVars
  <2> QED
    BY <2>1
<1>5. CASE /\ pc[r] \in {"select", "missing", "probe", "retry"}
           /\ pc'[r] \in {"missing", "probe", "retry", "finish"}
           /\ UNCHANGED <<runListOK, token, listed>>
  BY <1>5
<1>6. CASE Select(r)
  BY <1>0, <1>5, <1>6 DEF Select, Goto, TypeOK, engineVars
<1>7. CASE ReportMissing(r)
  <2>1. pc[r] = "missing" /\ UNCHANGED <<pc, runListOK, token, listed>>
    BY <1>7 DEF ReportMissing
  <2> QED
    BY <1>5, <2>1
<1>8. CASE Plan(r)
  <2>0. /\ pc[r] = "missing" /\ UNCHANGED <<runListOK, token, listed>>
        /\ \E label \in {"probe", "finish"} : pc' = [pc EXCEPT ![r] = label]
    BY <1>8, PlanEffect DEF runVars
  <2>1. pc[r] = "missing" /\ pc'[r] \in {"probe", "finish"}
        /\ UNCHANGED <<runListOK, token, listed>>
    BY <1>0, <2>0 DEF TypeOK
  <2> QED
    BY <1>5, <2>1
<1>9. CASE (\E f \in todo[r] : StartProbe(r, f)) \/ StopScheduling(r)
  <2>1. pc[r] \in {"probe", "retry"} /\ UNCHANGED <<pc, runListOK, token, listed>>
    BY <1>9 DEF StartProbe, StopScheduling, engineVars
  <2> QED
    BY <1>5, <2>1
<1>10. CASE \E f \in inflight[r], class \in {"answered", "timeout"} :
              ProbeDone(r, f, class) \/ RetryDone(r, f, class)
  <2>1. pc[r] \in {"probe", "retry"} /\ UNCHANGED <<pc, runListOK, token, listed>>
    BY <1>10 DEF ProbeDone, RetryDone
  <2> QED
    BY <1>5, <2>1
<1>11. CASE PrimaryOver(r) \/ RetryOver(r)
  BY <1>0, <1>5, <1>11 DEF PrimaryOver, RetryOver, Goto, TypeOK, engineVars, runVars
<1>12. CASE Finish(r)
  BY <1>0, <1>12 DEF Finish, Goto, TypeOK, Active
<1> QED
  BY <1>1, <1>2, <1>3, <1>4, <1>6, <1>7, <1>8, <1>9, <1>10, <1>11, <1>12 DEF RunStep

(* Only the end of the current run is published; what another run learns   *)
(* is noted under its own token.                                           *)
LEMMA Published ==
  ASSUME RunInv, NEW r \in Slots, RunStep(r)
  PROVE  /\ \/ UNCHANGED lastFinished
            \/ /\ Finish(r) /\ Current(r) /\ UNCHANGED listed
               /\ lastFinished' = [run |-> token[r], listOK |-> runListOK,
                                   full |-> runIsFullInspect, probed |-> runProbedKeys]
         /\ \A k \in Tokens \ {token[r]} : listed'[k] = listed[k]
         /\ UNCHANGED runID
         /\ \A s \in Slots : Active(s)' => Active(s) /\ token'[s] = token[s]
<1>0. TypeOK /\ TokenInv
  BY DEF RunInv
<1>1. CASE Plan(r)
  <2>1. UNCHANGED <<lastFinished, listed>>
    BY <1>1 DEF Plan, engineVars
  <2> QED
    BY <1>1, <2>1, PlanTypes
<1>2. CASE Finish(r)
  <2>1. /\ UNCHANGED <<listed, runID>>
        /\ pc' = [pc EXCEPT ![r] = "idle"] /\ token' = [token EXCEPT ![r] = 0]
    BY <1>2 DEF Finish, Goto
  <2>2. \A s \in Slots : Active(s)' => Active(s) /\ token'[s] = token[s]
    BY <1>0, <2>1 DEF TypeOK, Active
  <2>3. \/ UNCHANGED lastFinished
        \/ /\ Current(r)
           /\ lastFinished' = [run |-> token[r], listOK |-> runListOK,
                               full |-> runIsFullInspect, probed |-> runProbedKeys]
    BY <1>2 DEF Finish
  <2> QED
    BY <1>2, <2>1, <2>2, <2>3
<1>3. CASE ListReturns(r)
  <2>1. UNCHANGED lastFinished
    BY <1>3 DEF ListReturns, engineVars
  <2>2. \A k \in Tokens \ {token[r]} : listed'[k] = listed[k]
    BY <1>0, <1>3 DEF ListReturns, TypeOK
  <2>3. ~Plan(r) /\ ~Finish(r)
    BY <1>3 DEF ListReturns, Plan, Finish
  <2> QED
    BY <1>0, <2>1, <2>2, <2>3, QuietStep
<1>4. CASE ~Plan(r) /\ ~Finish(r) /\ ~ListReturns(r)
  <2>1. UNCHANGED <<lastFinished, listed>>
    BY <1>4 DEF RunStep, NoteFailed, ReportFailure, NoteListed, Select, ReportMissing,
       StartProbe, StopScheduling, ProbeDone, RetryDone, PrimaryOver, RetryOver,
       engineVars
  <2> QED
    BY <1>0, <1>4, <2>1, QuietStep
<1> QED
  BY <1>1, <1>2, <1>3, <1>4

(* A step of a run publishes nothing that did not happen to it. *)
LEMMA OutcomeRunStep ==
  ASSUME RunInv, OutcomeInv, NEW r \in Slots, RunStep(r)
  PROVE  OutcomeInv'
<1>0. /\ TypeOK /\ TokenInv /\ Active(r) /\ token[r] \in Tokens
      /\ lastFinished.run \in 0 .. MaxRunID
  BY RunStepActive, TokenType DEF RunInv, TypeOK, Tokens
<1>1. CASE UNCHANGED lastFinished
  <2>1. lastFinished.run # token[r]
    BY <1>0 DEF OutcomeInv
  <2>2. lastFinished.run # 0 => listed'[lastFinished.run] = listed[lastFinished.run]
    BY <1>0, <2>1, Published DEF Tokens
  <2>3. OutcomeIsOwn'
    BY <1>1, <2>2 DEF OutcomeInv, OutcomeIsOwn
  <2>4. \A s \in Slots : Active(s)' => token'[s] # lastFinished.run
    BY Published DEF OutcomeInv
  <2>5. ASSUME NEW s \in Slots, Active(s)', Current(s)' PROVE Told(s)'
    <3>1. Active(s) /\ Current(s) /\ Told(s) /\ token[s] \in Tokens
      BY <2>5, StaysCurrent, TokenType DEF OutcomeInv, Tokens
    <3>2. CASE s = r
      BY <2>5, <3>1, <3>2, ToldMine
    <3>3. CASE s # r
      <4>1. token[s] # token[r]
        BY <1>0, <3>1, <3>3 DEF TokenInv
      <4>2. ~Current(r)
        BY <3>1, <4>1 DEF Current
      <4>3. UNCHANGED runListOK
        BY <4>2, SilentStep DEF engineVars
      <4>4. pc'[s] = pc[s] /\ token'[s] = token[s]
        BY <1>0, <3>3, OthersUntouched
      <4>5. listed'[token[s]] = listed[token[s]]
        BY <3>1, <4>1, Published
      <4> QED
        BY <3>1, <4>3, <4>4, <4>5 DEF Told
    <3> QED
      BY <3>2, <3>3
  <2> QED
    BY <1>1, <2>3, <2>4, <2>5, Published DEF OutcomeInv
<1>2. CASE /\ Finish(r) /\ Current(r) /\ UNCHANGED listed
           /\ lastFinished' = [run |-> token[r], listOK |-> runListOK,
                               full |-> runIsFullInspect, probed |-> runProbedKeys]
  <2>1. pc[r] = "finish" /\ pc'[r] = "idle"
    BY <1>0, <1>2 DEF Finish, Goto, TypeOK
  <2>2. runListOK <=> listed[token[r]] = "ok"
    BY <1>0, <1>2, <2>1 DEF OutcomeInv, Told
  <2>3. lastFinished'.run = token[r] /\ lastFinished'.listOK = runListOK
    BY <1>2
  <2>4. OutcomeIsOwn'
    BY <1>2, <2>2, <2>3 DEF OutcomeIsOwn
  <2>5. \A s \in Slots : Active(s)' => token'[s] # token[r]
    BY <1>0, <2>1, Published DEF TokenInv, Active
  <2>6. \A s \in Slots : Active(s)' => ~Current(s)'
    BY <1>2, <2>5, Published DEF Current
  <2>7. lastFinished'.run <= runID'
    BY <1>0, <2>3, Published DEF TokenInv
  <2> QED
    BY <2>3, <2>4, <2>5, <2>6, <2>7 DEF OutcomeInv
<1> QED
  BY <1>1, <1>2, Published

(* Nor does any other step. *)
LEMMA OutcomeStep ==
  ASSUME RunInv, OutcomeInv, [Next]_vars
  PROVE  OutcomeInv'
<1>0. TypeOK /\ TokenInv
  BY DEF RunInv
<1>a. lastFinished.run \in Nat /\ runID \in Nat
  BY <1>0 DEF TypeOK, TokenInv
<1>1. ASSUME NEW r \in Slots, RunStep(r) PROVE OutcomeInv'
  BY <1>1, OutcomeRunStep
<1>2. ASSUME NEW r \in Slots, NEW m \in Modes, Start(r, m) PROVE OutcomeInv'
  <2>1. /\ pc' = [pc EXCEPT ![r] = "list"] /\ token' = [token EXCEPT ![r] = runID + 1]
        /\ runID' = runID + 1 /\ runListOK' = FALSE
        /\ UNCHANGED <<lastFinished, listed>>
    BY <1>2 DEF Start, Goto
  <2>2. \A s \in Slots : Current(s)' => s = r
    BY <1>0, <2>1 DEF TypeOK, TokenInv, Current
  <2>3. Told(r)'
    BY <1>0, <2>1 DEF TypeOK, Told
  <2>4. \A s \in Slots : Active(s)' => token'[s] # lastFinished.run
    BY <1>0, <1>a, <2>1 DEF TypeOK, OutcomeInv, Active
  <2>5. OutcomeIsOwn' /\ lastFinished'.run <= runID'
    BY <1>a, <2>1 DEF OutcomeInv, OutcomeIsOwn
  <2> QED
    BY <2>1, <2>2, <2>3, <2>4, <2>5 DEF OutcomeInv
<1>3. CASE runID' = runID + 1 /\ UNCHANGED <<token, pc, lastFinished, listed>>
  <2>1. \A s \in Slots : ~Current(s)'
    BY <1>0, <1>3 DEF TokenInv, Current
  <2> QED
    BY <1>3, <1>a, <2>1 DEF OutcomeInv, OutcomeIsOwn, Active
<1>4. CASE UNCHANGED <<runID, token, pc, lastFinished, listed, runListOK>>
  BY <1>4 DEF OutcomeInv, OutcomeIsOwn, Active, Current, Told
<1>5. CASE Stop
  BY <1>3, <1>4, <1>5 DEF Stop, Abort, runVars
<1>6. CASE Shutdown
  BY <1>3, <1>6 DEF Shutdown, runVars
<1>7. CASE ShutdownReturns
  BY <1>4, <1>7 DEF ShutdownReturns, runVars
<1>8. ASSUME NEW a \in Accounts, DeleteAccount(a) PROVE OutcomeInv'
  BY <1>4, <1>8 DEF DeleteAccount, runVars
<1>9. CASE UNCHANGED vars
  BY <1>4, <1>9 DEF vars, engineVars, runVars
<1> QED
  BY <1>1, <1>2, <1>5, <1>6, <1>7, <1>8, <1>9 DEF Next

(* At first nothing is published. *)
LEMMA OutcomeInit == Init => OutcomeInv
BY DEF Init, OutcomeInv, OutcomeIsOwn, Active

(* What finish publishes under a token is what became of the list of the   *)
(* run with that token, whatever overtaken runs learn meanwhile: the       *)
(* scheduler acts on a run that got its list, or not at all.               *)
THEOREM OutcomeIsTrue == Spec => []OutcomeIsOwn
<1>1. OutcomeInv => OutcomeIsOwn
  BY DEF OutcomeInv
<1>2. RunInv /\ OutcomeInv /\ [Next]_vars => RunInv' /\ OutcomeInv'
  BY RunInvStep, OutcomeStep
<1> QED
  BY <1>1, <1>2, RunInvInit, OutcomeInit, PTL DEF Spec

-----------------------------------------------------------------------------
(* Rows are added and replaced, never taken away, by what is merged.       *)
LEMMA MergedKeeps ==
  ASSUME NEW rows \in Seq(Rows), NEW row \in Rows, NEW upsert \in BOOLEAN
  PROVE  LET merged == Merged(rows, row, upsert) IN
         /\ \E i \in DOMAIN merged : merged[i] = row
         /\ \A i \in DOMAIN rows : i \in DOMAIN merged /\ merged[i] \in {rows[i], row}
<1> DEFINE merged == Merged(rows, row, upsert)
<1>1. CASE upsert /\ rows = << >>
  BY <1>1 DEF Merged, Upserted
<1>2. CASE upsert /\ rows # << >>
  <2>1. merged = [rows EXCEPT ![1] = row]
    BY <1>2 DEF Merged, Upserted
  <2>2. Len(rows) \in Nat \ {0} /\ DOMAIN rows = 1 .. Len(rows)
    BY <1>2, EmptySeq
  <2>3. 1 \in DOMAIN rows
    BY <2>2
  <2> QED
    BY <2>1, <2>3
<1>3. CASE ~upsert
  <2>1. merged = Append(rows, row)
    BY <1>3 DEF Merged
  <2>2. DOMAIN rows = 1 .. Len(rows) /\ Len(rows) \in Nat
    OBVIOUS
  <2>3. /\ DOMAIN merged = 1 .. Len(rows) + 1 /\ merged[Len(rows) + 1] = row
        /\ \A i \in 1 .. Len(rows) : merged[i] = rows[i]
    BY <2>1
  <2> QED
    BY <2>2, <2>3
<1> QED
  BY <1>1, <1>2, <1>3

(* What a step of a run does to the rows, but for the plan. *)
LEMMA RowsWritten ==
  ASSUME RunInv, NEW r \in Slots, RunStep(r), ~Plan(r)
  PROVE  \/ UNCHANGED results
         \/ \E a \in RowIds, row \in Rows, upsert \in BOOLEAN :
              /\ row.by = token[r] /\ row.class # "cancelled"
              /\ results' = [results EXCEPT ![a] = Merged(results[a], row, upsert)]
<1>0. TypeOK /\ token[r] \in 1 .. MaxRunID + 2
  BY RunStepActive, TokenType DEF RunInv
<1>1. ASSUME NEW a \in RowIds, NEW class \in Classes \ {"cancelled"},
             NEW ver \in 0 .. MaxVersion, NEW upsert \in BOOLEAN,
             \/ UNCHANGED results
             \/ Write(a, Row(class, ver, token[r]), upsert)
      PROVE  \/ UNCHANGED results
             \/ \E b \in RowIds, row \in Rows, u \in BOOLEAN :
                  /\ row.by = token[r] /\ row.class # "cancelled"
                  /\ results' = [results EXCEPT ![b] = Merged(results[b], row, u)]
  <2> DEFINE row == Row(class, ver, token[r])
  <2>1. row \in Rows /\ row.by = token[r] /\ row.class # "cancelled"
    BY <1>0 DEF Row, Rows
  <2> HIDE DEF row
  <2>2. \/ UNCHANGED results
        \/ results' = [results EXCEPT ![a] = Merged(results[a], row, upsert)]
    BY <1>1 DEF Write, row
  <2> QED
    BY <2>1, <2>2
<1>2. CASE ReportFailure(r)
  <2>1. UNCHANGED results \/ Write(System, Row("missing", 0, token[r]), TRUE)
    BY <1>2 DEF ReportFailure, Record
  <2>2. System \in RowIds /\ "missing" \in Classes \ {"cancelled"} /\ 0 \in 0 .. MaxVersion
        /\ TRUE \in BOOLEAN
    BY InspectionAssumption DEF RowIds, Classes
  <2> QED
    BY <1>1, <2>1, <2>2
<1>3. CASE ReportMissing(r)
  <2>1. PICK s \in missing[r] \ reported[r] :
          UNCHANGED results \/ Write(s.acct, Row("missing", s.ver, token[r]), merge[r])
    BY <1>3 DEF ReportMissing, Record
  <2>2. s.acct \in RowIds /\ s.ver \in 0 .. MaxVersion
        /\ "missing" \in Classes \ {"cancelled"}
    BY <1>0 DEF TypeOK, Locations, Classes
  <2>3. merge[r] \in BOOLEAN
    BY <1>0 DEF TypeOK
  <2> QED
    BY <1>1, <2>1, <2>2, <2>3
<1>4. ASSUME NEW f \in inflight[r], NEW class \in {"answered", "timeout"},
             ProbeDone(r, f, class) \/ RetryDone(r, f, class)
      PROVE  \/ UNCHANGED results
             \/ \E a \in RowIds, row \in Rows, upsert \in BOOLEAN :
                  /\ row.by = token[r] /\ row.class # "cancelled"
                  /\ results' = [results EXCEPT ![a] = Merged(results[a], row, upsert)]
  <2>1. \/ UNCHANGED results \/ Write(f.acct, Row(class, f.ver, token[r]), merge[r])
        \/ Write(f.acct, Row(class, f.ver, token[r]), TRUE)
    BY <1>4 DEF ProbeDone, RetryDone, Record
  <2>2. f.acct \in RowIds /\ f.ver \in 0 .. MaxVersion
        /\ class \in Classes \ {"cancelled"}
    BY <1>0, InspectionAssumption DEF TypeOK, Files, RowIds, Classes
  <2>3. merge[r] \in BOOLEAN /\ TRUE \in BOOLEAN
    BY <1>0 DEF TypeOK
  <2> QED
    BY <1>1, <2>1, <2>2, <2>3
<1>5. CASE ListReturns(r) \/ NoteFailed(r) \/ NoteListed(r) \/ Select(r)
           \/ (\E f \in todo[r] : StartProbe(r, f)) \/ StopScheduling(r)
           \/ PrimaryOver(r) \/ RetryOver(r) \/ Finish(r)
  BY <1>5 DEF ListReturns, NoteFailed, NoteListed, Select, StartProbe, StopScheduling,
     PrimaryOver, RetryOver, Finish, engineVars
<1> QED
  BY <1>2, <1>3, <1>4, <1>5 DEF RunStep

(* A full run has every account it may probe among its targets. *)
LEMMA SelectSpares ==
  ASSUME RunInv, NEW r \in Slots, Select(r), Spares(r)
  PROVE  Spares(r)'
<1> SUFFICES ASSUME fullClearPending'
             PROVE  /\ mode'[r] = "full" /\ runIsFullInspect' /\ ~sampleMode'
                    /\ {f \in list'[r] : f.acct \notin Disabled} \subseteq todo'[r]
  BY DEF Spares
<1>0. TypeOK
  BY DEF RunInv
<1>1. UNCHANGED <<fullClearPending, runIsFullInspect, sampleMode, mode, list>>
  BY DEF Select, engineVars, planVars, configVars
<1>2. mode[r] = "full" /\ runIsFullInspect /\ ~sampleMode
  BY <1>1 DEF Spares
<1>3. PICK skip \in {{}, Disabled} :
        \E chosen \in Samples(Candidates(mode[r], list[r], skip)) :
          todo' = [todo EXCEPT ![r] = chosen]
  BY DEF Select
<1>4. PICK chosen \in Samples(Candidates(mode[r], list[r], skip)) :
        todo' = [todo EXCEPT ![r] = chosen]
  BY <1>3
<1>5. chosen = Candidates(mode[r], list[r], skip)
  BY <1>2 DEF Samples
<1>6. Candidates(mode[r], list[r], skip) = {f \in list[r] : f.acct \notin skip}
  BY <1>2 DEF Candidates, Scoped, Category
<1>7. todo'[r] = chosen
  BY <1>0, <1>4 DEF TypeOK
<1> QED
  BY <1>1, <1>2, <1>5, <1>6, <1>7

(* The current run drops the rows with its plan, if it is a full run. *)
LEMMA SparesMine ==
  ASSUME RunInv, NEW r \in Slots, RunStep(r), Current(r), Spares(r), Active(r)'
  PROVE  Spares(r)'
<1>0. TypeOK
  BY DEF RunInv
<1>1. CASE /\ UNCHANGED <<fullClearPending, runIsFullInspect, sampleMode>>
           /\ pc'[r] # "missing" /\ mode'[r] = mode[r]
  BY <1>1 DEF Spares
<1>2. CASE Select(r)
  BY <1>2, SelectSpares
<1>3. CASE ReportMissing(r)
  BY <1>3 DEF ReportMissing, Spares, planVars, configVars
<1>4. CASE Plan(r)
  BY <1>4, PlanEffect DEF Spares
<1>5. CASE ListReturns(r) \/ NoteFailed(r) \/ ReportFailure(r) \/ NoteListed(r)
  <2>1. UNCHANGED <<fullClearPending, runIsFullInspect, sampleMode, mode>>
        /\ \E label \in Labels \ {"missing"} : pc' = [pc EXCEPT ![r] = label]
    BY <1>5 DEF ListReturns, NoteFailed, ReportFailure, NoteListed, Goto, engineVars,
       planVars, configVars, runVars, Labels
  <2> QED
    BY <1>0, <1>1, <2>1 DEF TypeOK
<1>6. CASE (\E f \in todo[r] : StartProbe(r, f)) \/ StopScheduling(r)
           \/ \E f \in inflight[r], class \in {"answered", "timeout"} :
                ProbeDone(r, f, class) \/ RetryDone(r, f, class)
  <2>1. UNCHANGED <<fullClearPending, runIsFullInspect, sampleMode, mode, pc>>
        /\ pc[r] \in {"probe", "retry"}
    BY <1>6 DEF StartProbe, StopScheduling, ProbeDone, RetryDone, engineVars, planVars,
       configVars
  <2> QED
    BY <1>1, <2>1
<1>7. CASE PrimaryOver(r) \/ RetryOver(r)
  <2>1. UNCHANGED <<fullClearPending, runIsFullInspect, sampleMode, mode>>
        /\ \E label \in {"retry", "finish"} : pc' = [pc EXCEPT ![r] = label]
    BY <1>7 DEF PrimaryOver, RetryOver, Goto, engineVars, planVars, configVars, runVars
  <2> QED
    BY <1>0, <1>1, <2>1 DEF TypeOK
<1>8. CASE Finish(r)
  BY <1>0, <1>8 DEF Finish, Goto, TypeOK, Active
<1> QED
  BY <1>2, <1>3, <1>4, <1>5, <1>6, <1>7, <1>8 DEF RunStep

(* The other runs are silent, and so is what is not a run. *)
LEMMA HistoryStep ==
  ASSUME RunInv, HistoryInv, [Next]_vars
  PROVE  HistoryInv'
<1>0. TypeOK /\ TokenInv
  BY DEF RunInv
<1>1. ASSUME NEW r \in Slots, RunStep(r) PROVE HistoryInv'
  <2> SUFFICES ASSUME NEW s \in Slots, Active(s)', Current(s)' PROVE Spares(s)'
    BY DEF HistoryInv
  <2>1. Active(s) /\ Current(s) /\ Active(r) /\ Spares(s)
    BY <1>1, StaysCurrent, RunStepActive DEF HistoryInv
  <2>2. CASE s = r
    BY <1>1, <2>1, <2>2, SparesMine
  <2>3. CASE s # r
    <3>1. ~Current(r)
      BY <1>0, <2>1, <2>3 DEF TokenInv, Current
    <3>2. UNCHANGED <<fullClearPending, runIsFullInspect, sampleMode>>
      BY <1>1, <3>1, SilentStep DEF engineVars, configVars, planVars
    <3>3. pc'[s] = pc[s] /\ mode'[s] = mode[s] /\ todo'[s] = todo[s] /\ list'[s] = list[s]
      BY <1>0, <1>1, <2>3, OthersUntouched
    <3> QED
      BY <2>1, <3>2, <3>3 DEF Spares
  <2> QED
    BY <2>2, <2>3
<1>2. ASSUME NEW r \in Slots, NEW m \in Modes, Start(r, m) PROVE HistoryInv'
  <2>1. /\ pc' = [pc EXCEPT ![r] = "list"] /\ token' = [token EXCEPT ![r] = runID + 1]
        /\ mode' = [mode EXCEPT ![r] = m] /\ runID' = runID + 1
        /\ sampleMode' = Sampling(m)
        /\ fullClearPending' = FullInspect(m) /\ runIsFullInspect' = FullInspect(m)
    BY <1>2 DEF Start, Goto
  <2>2. \A s \in Slots : Current(s)' => s = r
    BY <1>0, <2>1 DEF TypeOK, TokenInv, Current
  <2>3. pc'[r] = "list" /\ mode'[r] = m
    BY <1>0, <2>1 DEF TypeOK
  <2>4. CASE m = "full"
    <3>1. FullInspect(m) /\ ~Sampling(m)
      BY <2>4 DEF FullInspect, Sampling
    <3>2. Spares(r)'
      BY <2>1, <2>3, <2>4, <3>1 DEF Spares
    <3> QED
      BY <2>2, <3>2 DEF HistoryInv
  <2>5. CASE m # "full"
    <3>1. ~fullClearPending'
      BY <2>1, <2>5 DEF FullInspect
    <3> QED
      BY <3>1 DEF HistoryInv, Spares
  <2> QED
    BY <2>4, <2>5
<1>3. CASE runID' = runID + 1 /\ UNCHANGED token
  <2>1. \A s \in Slots : ~Current(s)'
    BY <1>0, <1>3 DEF TokenInv, Current
  <2> QED
    BY <2>1 DEF HistoryInv
<1>4. CASE UNCHANGED <<sampleMode, fullClearPending, runIsFullInspect, pc, token, mode,
                       todo, list, runID>>
  BY <1>4 DEF HistoryInv, Active, Current, Spares
<1>5. CASE Stop
  BY <1>3, <1>4, <1>5 DEF Stop, Abort, configVars, runVars
<1>6. CASE Shutdown
  BY <1>3, <1>6 DEF Shutdown, runVars
<1>7. CASE ShutdownReturns
  BY <1>4, <1>7 DEF ShutdownReturns, configVars, planVars, runVars
<1>8. ASSUME NEW a \in Accounts, DeleteAccount(a) PROVE HistoryInv'
  BY <1>4, <1>8 DEF DeleteAccount, configVars, planVars, runVars
<1>9. CASE UNCHANGED vars
  BY <1>4, <1>9 DEF vars, engineVars, configVars, planVars, runVars
<1> QED
  BY <1>1, <1>2, <1>5, <1>6, <1>7, <1>8, <1>9 DEF Next

(* A stop takes no row away. *)
LEMMA CancelledKeeps ==
  ASSUME NEW rows \in [RowIds -> Seq(Rows)], NEW targets \in SUBSET Files,
         NEW upsert \in BOOLEAN, runID \in 1 .. MaxRunID + 2,
         NEW a \in RowIds, rows[a] # << >>
  PROVE  Cancelled(rows, targets, upsert)[a] # << >>
<1> DEFINE left == {f \in targets : f.acct = a /\ ~Contains(rows, f)}
<1>1. CASE left = {}
  BY <1>1 DEF Cancelled
<1>2. CASE left # {}
  <2> DEFINE f == CHOOSE f \in left : TRUE
             row == Row("cancelled", f.ver, runID)
  <2>1. f \in left
    BY <1>2
  <2>2. f.ver \in 0 .. MaxVersion
    BY <2>1, InspectionAssumption DEF Files
  <2>3. row \in Rows
    BY <2>2 DEF Row, Rows, Classes
  <2>4. Cancelled(rows, targets, upsert)[a] = Merged(rows[a], row, upsert)
    BY <1>2 DEF Cancelled
  <2> HIDE DEF row
  <2>5. DOMAIN Merged(rows[a], row, upsert) # {}
    BY <2>3, MergedKeeps
  <2>6. Merged(rows[a], row, upsert) # << >>
    BY <2>5
  <2> QED
    BY <2>4, <2>6
<1> QED
  BY <1>1, <1>2

(* Which step may take the rows of an account away. *)
LEMMA RowsGo ==
  ASSUME RunInv, OutcomeInv, HistoryInv, Next, NEW a \in RowIds,
         results[a] # << >>, results'[a] = << >>
  PROVE  \/ a \in Accounts /\ ~running /\ ~running'
         \/ /\ running' /\ runIsFullInspect
            /\ \E r \in Slots :
                 /\ pc[r] = "missing" /\ Current(r) /\ listed[token[r]] = "ok"
                 /\ {f \in list[r] : f.acct \notin Disabled} \subseteq runTargets'
<1>0. TypeOK
  BY DEF RunInv
<1>1. ASSUME NEW r \in Slots, RunStep(r)
      PROVE  /\ running' /\ runIsFullInspect
             /\ pc[r] = "missing" /\ Current(r) /\ listed[token[r]] = "ok"
             /\ {f \in list[r] : f.acct \notin Disabled} \subseteq runTargets'
  <2>1. Current(r) /\ Active(r)
    BY <1>1, SilentStep, RunStepActive DEF engineVars
  <2>2. Plan(r)
    <3> SUFFICES ASSUME ~Plan(r) PROVE FALSE
      OBVIOUS
    <3>1. PICK b \in RowIds, row \in Rows, upsert \in BOOLEAN :
            results' = [results EXCEPT ![b] = Merged(results[b], row, upsert)]
      BY <1>1, RowsWritten
    <3>2. b = a /\ results'[a] = Merged(results[a], row, upsert)
      BY <1>0, <3>1 DEF TypeOK
    <3>3. DOMAIN Merged(results[a], row, upsert) # {}
      BY <1>0, MergedKeeps DEF TypeOK
    <3> QED
      BY <3>2, <3>3
  <2>3. Spares(r) /\ Told(r) /\ running
    BY <2>1, CurrentIsLive DEF HistoryInv, OutcomeInv
  <2>4. pc[r] = "missing" /\ runTargets' = todo[r] /\ UNCHANGED running
        /\ results' = IF fullClearPending THEN [b \in RowIds |-> << >>] ELSE results
    BY <2>1, <2>2, PlanEffect
  <2>5. fullClearPending
    BY <2>4
  <2> QED
    BY <2>1, <2>3, <2>4, <2>5 DEF Spares, Told
<1>2. ASSUME NEW b \in Accounts, DeleteAccount(b)
      PROVE  a \in Accounts /\ ~running /\ ~running'
  BY <1>0, <1>2 DEF DeleteAccount, TypeOK
<1>3. CASE UNCHANGED results
  BY <1>3
<1>4. CASE Stop
  <2>1. CASE running
    <3>1. runID \in 1 .. MaxRunID + 2
      BY <2>1, InspectionAssumption DEF RunInv, BoundInv, TypeOK
    <3>2. Cancelled(results, runTargets, runClassifyScoped)[a] # << >>
      BY <1>0, <3>1, CancelledKeeps DEF TypeOK
    <3> QED
      BY <1>4, <2>1, <3>2 DEF Stop, Abort
  <2>2. CASE ~running
    BY <1>3, <1>4, <2>2 DEF Stop
  <2> QED
    BY <2>1, <2>2
<1> QED
  BY <1>1, <1>2, <1>3, <1>4 DEF Next, Start, Shutdown, ShutdownReturns, vars, engineVars

(* Earlier rows go only with their account, or when a full run has got its *)
(* list, in the very step that makes every listed account a target         *)
(* (commitRunPlanLocked): no stop in between loses the history.            *)
THEOREM HistoryStays == Spec => HistoryIsKept
<1>1. Init => HistoryInv
  BY DEF Init, HistoryInv, Active
<1>2. RunInv /\ OutcomeInv /\ HistoryInv /\ [Next]_vars =>
        RunInv' /\ OutcomeInv' /\ HistoryInv'
  BY RunInvStep, OutcomeStep, HistoryStep
<1>3. RunInv /\ OutcomeInv /\ HistoryInv /\ [Next]_vars =>
      [\A a \in RowIds :
         (results[a] # << >> /\ results'[a] = << >>) =>
           \/ a \in Accounts /\ ~running /\ ~running'
           \/ /\ running' /\ runIsFullInspect
              /\ \E r \in Slots :
                   /\ pc[r] = "missing" /\ Current(r) /\ listed[token[r]] = "ok"
                   /\ {f \in list[r] : f.acct \notin Disabled} \subseteq runTargets']_vars
  BY RowsGo
<1> QED
  BY <1>1, <1>2, <1>3, RunInvInit, OutcomeInit, PTL DEF Spec, HistoryIsKept

-----------------------------------------------------------------------------
(* A row of this run stays one: what is written over it is one too.        *)
LEMMA ProbedStays ==
  ASSUME RunInv, NEW r \in Slots, RunStep(r), ~Plan(r), Current(r),
         NEW a \in RowIds, Probed(a)
  PROVE  Probed(a)'
<1>0. TypeOK /\ token[r] = runID
  BY DEF RunInv, Current
<1>1. runID' = runID
  BY Published
<1>2. CASE UNCHANGED results
  BY <1>1, <1>2 DEF Probed
<1>3. ASSUME NEW b \in RowIds, NEW row \in Rows, NEW upsert \in BOOLEAN,
             row.by = token[r], row.class # "cancelled",
             results' = [results EXCEPT ![b] = Merged(results[b], row, upsert)]
      PROVE  Probed(a)'
  <2>1. CASE b # a
    BY <1>0, <1>1, <1>3, <2>1 DEF Probed, TypeOK
  <2>2. CASE b = a
    <3>1. results'[a] = Merged(results[a], row, upsert)
      BY <1>0, <1>3, <2>2 DEF TypeOK
    <3>2. PICK i \in DOMAIN results[a] :
            results[a][i].by = runID /\ results[a][i].class # "cancelled"
      BY DEF Probed
    <3>3. i \in DOMAIN results'[a] /\ results'[a][i] \in {results[a][i], row}
      BY <1>0, <3>1, MergedKeeps DEF TypeOK
    <3> QED
      BY <1>0, <1>1, <1>3, <3>2, <3>3 DEF Probed
  <2> QED
    BY <2>1, <2>2
<1> QED
  BY <1>2, <1>3, RowsWritten

(* The probe of the current run gives its account such a row. *)
LEMMA ProbedNow ==
  ASSUME RunInv, NEW r \in Slots, Current(r), Active(r),
         NEW f \in Files, NEW class \in {"answered", "timeout"}, NEW upsert \in BOOLEAN,
         Write(f.acct, Row(class, f.ver, token[r]), upsert), runID' = runID
  PROVE  Probed(f.acct)'
<1> DEFINE row == Row(class, f.ver, token[r])
<1>0. TypeOK /\ token[r] = runID /\ token[r] \in 1 .. MaxRunID + 2
  BY TokenType DEF RunInv, Current
<1>1. f.acct \in RowIds /\ f.ver \in 0 .. MaxVersion
  BY InspectionAssumption DEF Files, RowIds
<1>2. row \in Rows /\ row.by = runID /\ row.class # "cancelled"
  BY <1>0, <1>1 DEF Row, Rows, Classes
<1> HIDE DEF row
<1>3. results' = [results EXCEPT ![f.acct] = Merged(results[f.acct], row, upsert)]
  BY DEF Write, row
<1>4. results'[f.acct] = Merged(results[f.acct], row, upsert)
  BY <1>0, <1>1, <1>3 DEF TypeOK
<1>5. \E i \in DOMAIN results'[f.acct] : results'[f.acct][i] = row
  BY <1>0, <1>1, <1>2, <1>4, MergedKeeps DEF TypeOK
<1> QED
  BY <1>2, <1>5 DEF Probed

(* Missing rows are reported once each, before the plan. *)
ReportedInv ==
  /\ \A r \in Slots : pc[r] \in {"idle", "list", "listed", "select"} => reported[r] = {}
  /\ \A r \in Slots : reported[r] \subseteq missing[r]

(* No step of a run reports a row that is not missing. *)
LEMMA ReportedRunStep ==
  ASSUME RunInv, ReportedInv, NEW r \in Slots, RunStep(r)
  PROVE  ReportedInv'
<1>0. TypeOK
  BY DEF RunInv
<1>1. ASSUME NEW s \in Slots, s # r
      PROVE  reported'[s] = reported[s] /\ missing'[s] = missing[s] /\ pc'[s] = pc[s]
  <2>1. reported'[s] = reported[s]
    BY <1>0, <1>1 DEF RunStep, ListReturns, NoteFailed, ReportFailure, NoteListed, Select,
       ReportMissing, Plan, StartProbe, StopScheduling, ProbeDone, RetryDone, PrimaryOver,
       RetryOver, Finish, TypeOK, runVars
  <2> QED
    BY <1>0, <1>1, <2>1, OthersUntouched
<1> SUFFICES /\ pc'[r] \in {"idle", "list", "listed", "select"} => reported'[r] = {}
             /\ reported'[r] \subseteq missing'[r]
  BY <1>1 DEF ReportedInv
<1>a. /\ pc[r] \in {"idle", "list", "listed", "select"} => reported[r] = {}
      /\ reported[r] \subseteq missing[r]
  BY DEF ReportedInv
<1>2. CASE ListReturns(r) \/ NoteListed(r)
  <2>1. UNCHANGED <<reported, missing>> /\ pc[r] \in {"list", "listed"}
    BY <1>2 DEF ListReturns, NoteListed, runVars
  <2> QED
    BY <1>a, <2>1
<1>3. CASE Select(r)
  <2>1. UNCHANGED reported /\ pc[r] = "select"
    BY <1>3 DEF Select
  <2> QED
    BY <1>a, <2>1
<1>4. CASE ReportMissing(r)
  <2>1. UNCHANGED <<pc, missing>> /\ pc[r] = "missing"
    BY <1>4 DEF ReportMissing
  <2>2. PICK s \in missing[r] \ reported[r] :
          reported' = [reported EXCEPT ![r] = reported[r] \union {s}]
    BY <1>4 DEF ReportMissing
  <2>3. reported'[r] = reported[r] \union {s}
    BY <1>0, <2>2 DEF TypeOK
  <2> QED
    BY <1>a, <2>1, <2>3
<1>5. CASE Finish(r)
  <2>1. reported'[r] = {}
    BY <1>0, <1>5 DEF Finish, TypeOK
  <2> QED
    BY <2>1
<1>6. CASE UNCHANGED <<reported, missing>>
           /\ pc'[r] \notin {"idle", "list", "listed", "select"}
  BY <1>a, <1>6
<1>7. CASE NoteFailed(r) \/ ReportFailure(r) \/ Plan(r) \/ PrimaryOver(r) \/ RetryOver(r)
  <2>1. UNCHANGED <<reported, missing>>
    BY <1>7 DEF NoteFailed, ReportFailure, Plan, PrimaryOver, RetryOver, runVars
  <2>2. CASE NoteFailed(r)
    BY <1>0, <1>6, <2>1, <2>2 DEF NoteFailed, Goto, TypeOK
  <2>3. CASE ReportFailure(r)
    BY <1>0, <1>6, <2>1, <2>3 DEF ReportFailure, Goto, TypeOK
  <2>4. CASE Plan(r)
    BY <1>0, <1>6, <2>1, <2>4 DEF Plan, Goto, TypeOK
  <2>5. CASE PrimaryOver(r)
    BY <1>0, <1>6, <2>1, <2>5 DEF PrimaryOver, Goto, TypeOK
  <2>6. CASE RetryOver(r)
    BY <1>0, <1>6, <2>1, <2>6 DEF RetryOver, Goto, TypeOK
  <2> QED
    BY <1>7, <2>2, <2>3, <2>4, <2>5, <2>6
<1>8. CASE (\E f \in todo[r] : StartProbe(r, f)) \/ StopScheduling(r)
           \/ \E f \in inflight[r], class \in {"answered", "timeout"} :
                ProbeDone(r, f, class) \/ RetryDone(r, f, class)
  <2>1. UNCHANGED <<reported, missing, pc>> /\ pc[r] \in {"probe", "retry"}
    BY <1>8 DEF StartProbe, StopScheduling, ProbeDone, RetryDone
  <2> QED
    BY <1>6, <2>1
<1> QED
  BY <1>2, <1>3, <1>4, <1>5, <1>7, <1>8 DEF RunStep

(* Each step of the current run keeps count of what it still has to do. *)
LEMMA FilledMine ==
  ASSUME RunInv, LocalInv, ReportedInv, NEW r \in Slots, RunStep(r), Active(r),
         Current(r), Told(r), Filled(r), Active(r)'
  PROVE  Filled(r)'
<1>0. TypeOK /\ probeDone \in Nat /\ total \in Nat
  BY DEF RunInv, TypeOK
<1>b. ~Discarded(r) /\ token[r] = runID
  BY CurrentIsLive DEF Discarded, Current
<1>l. /\ pc[r] \notin {"probe", "retry"} => inflight[r] = {}
      /\ pc[r] = "probe" => todo[r] \intersect inflight[r] = {}
      /\ missing[r] # {} => merge[r]
      /\ IsFiniteSet(missing[r]) /\ reported[r] \subseteq missing[r]
      /\ pc[r] = "select" => reported[r] = {}
  BY DEF LocalInv, ReportedInv, RunInv, BoundInv
<1>f. IsFiniteSet(todo[r] \union inflight[r]) /\ IsFiniteSet(reported[r])
  <2>1. todo[r] \union inflight[r] \subseteq Files
    BY <1>0 DEF TypeOK
  <2> QED
    BY <1>l, <2>1, FilesFinite, FS_Subset
<1>p. runID' = runID
  BY Published
<1>1. CASE ListReturns(r)
  <2>1. pc[r] = "list" /\ pc'[r] \in {"listed", "failed"} /\ UNCHANGED probeDone
    BY <1>0, <1>1 DEF ListReturns, Goto, TypeOK, engineVars, progressVars
  <2> QED
    BY <2>1 DEF Filled
<1>2. CASE NoteFailed(r)
  <2>1. pc'[r] = "report"
    BY <1>0, <1>2 DEF NoteFailed, Goto, TypeOK
  <2> QED
    BY <2>1 DEF Filled
<1>3. CASE ReportFailure(r)
  <2>1. pc[r] = "report" /\ pc'[r] = "finish" /\ UNCHANGED runListOK
    BY <1>0, <1>3 DEF ReportFailure, Goto, TypeOK
  <2> QED
    BY <2>1 DEF Filled, Told
<1>4. CASE NoteListed(r)
  <2>1. pc[r] = "listed" /\ pc'[r] = "select" /\ UNCHANGED probeDone
    BY <1>0, <1>4 DEF NoteListed, Goto, TypeOK, progressVars
  <2> QED
    BY <2>1 DEF Filled
<1>5. CASE Select(r)
  <2>1. pc[r] = "select" /\ pc'[r] = "missing" /\ UNCHANGED <<probeDone, reported>>
    BY <1>0, <1>5 DEF Select, Goto, TypeOK, engineVars, progressVars
  <2>2. probeDone' = 0 /\ reported'[r] = {}
    BY <1>l, <2>1 DEF Filled
  <2> QED
    BY <2>1, <2>2, FS_EmptySet DEF Filled
<1>6. CASE ReportMissing(r)
  <2>1. pc[r] = "missing" /\ UNCHANGED pc
    BY <1>6 DEF ReportMissing
  <2>2. PICK s \in missing[r] \ reported[r] :
          /\ reported' = [reported EXCEPT ![r] = reported[r] \union {s}]
          /\ probeDone' = probeDone + 1
    BY <1>6, <1>b DEF ReportMissing, Record
  <2>3. reported'[r] = reported[r] \union {s} /\ s \notin reported[r]
    BY <1>0, <2>2 DEF TypeOK
  <2>4. Cardinality(reported'[r]) = Cardinality(reported[r]) + 1
    BY <1>f, <2>3, FS_AddElement
  <2> QED
    BY <2>1, <2>2, <2>4 DEF Filled
<1>7. CASE Plan(r)
  <2>1. /\ pc[r] = "missing" /\ runTargets' = todo[r]
        /\ pc' = [pc EXCEPT ![r] = IF todo[r] = {} THEN "finish" ELSE "probe"]
        /\ UNCHANGED <<probeDone, runVars>>
        /\ total' = Cardinality(todo[r]) + IF merge[r] THEN Cardinality(missing[r]) ELSE 0
    BY <1>7, PlanEffect
  <2>2. reported[r] = missing[r]
    BY <1>7 DEF Plan
  <2>3. inflight[r] = {} /\ todo'[r] \union inflight'[r] = todo[r]
        /\ IsFiniteSet(todo[r])
    BY <1>f, <1>l, <2>1 DEF runVars
  <2>4. probeDone = Cardinality(missing[r]) /\ Cardinality(todo[r]) \in Nat
    BY <2>1, <2>2, <2>3, FS_CardinalityType DEF Filled
  <2>5. ~merge[r] => probeDone = 0
    BY <1>l, <2>4, FS_EmptySet
  <2>6. total' = probeDone + Cardinality(todo[r])
    BY <1>0, <2>1, <2>4, <2>5
  <2>7. CASE todo[r] = {}
    <3>1. pc'[r] = "finish" /\ Cardinality(todo[r]) = 0
      BY <1>0, <2>1, <2>7, FS_EmptySet DEF TypeOK
    <3> QED
      BY <1>0, <2>1, <2>6, <2>7, <3>1 DEF Filled
  <2>8. CASE todo[r] # {}
    <3>1. pc'[r] = "probe"
      BY <1>0, <2>1, <2>8 DEF TypeOK
    <3> QED
      BY <1>0, <2>1, <2>3, <2>6, <3>1 DEF Filled
  <2> QED
    BY <2>7, <2>8
<1>8. ASSUME NEW f \in todo[r], StartProbe(r, f) PROVE Filled(r)'
  <2>1. UNCHANGED <<engineVars, pc>> /\ pc[r] \in {"probe", "retry"}
    BY <1>8 DEF StartProbe
  <2>2. todo'[r] \union inflight'[r] = todo[r] \union inflight[r]
    BY <1>0, <1>8 DEF StartProbe, TypeOK
  <2>3. UNCHANGED <<total, probeDone, runTargets, results, runListOK, runID>>
    BY <2>1 DEF engineVars, progressVars, planVars
  <2>4. \A a : Probed(a) => Probed(a)'
    BY <2>3 DEF Probed
  <2> QED
    BY <2>1, <2>2, <2>3, <2>4 DEF Filled
<1>9. CASE StopScheduling(r)
  BY <1>9, <1>b DEF StopScheduling
<1>s. ASSUME ~Plan(r), NEW f \in Files, Probed(f.acct) PROVE Probed(f.acct)'
  <2>1. f.acct \in RowIds
    BY DEF Files, RowIds
  <2> QED
    BY <1>s, <2>1, ProbedStays
<1>t. runTargets \subseteq Files /\ inflight[r] \subseteq Files /\ merge[r] \in BOOLEAN
  BY <1>0 DEF TypeOK
<1>10. ASSUME NEW f \in inflight[r], NEW class \in {"answered", "timeout"},
              ProbeDone(r, f, class)
       PROVE  Filled(r)'
  <2>1. /\ pc[r] = "probe" /\ UNCHANGED <<pc, todo, total, runTargets>>
        /\ Write(f.acct, Row(class, f.ver, token[r]), merge[r])
        /\ probeDone' = probeDone + 1
        /\ inflight' = [inflight EXCEPT ![r] = inflight[r] \ {f}]
    BY <1>10, <1>b DEF ProbeDone, Record, planVars
  <2>2. inflight'[r] = inflight[r] \ {f}
    BY <1>0, <2>1 DEF TypeOK
  <2>3. todo'[r] \union inflight'[r] = (todo[r] \union inflight[r]) \ {f}
    BY <1>l, <2>1, <2>2
  <2>4. /\ Cardinality(todo'[r] \union inflight'[r])
             = Cardinality(todo[r] \union inflight[r]) - 1
        /\ Cardinality(todo[r] \union inflight[r]) \in Nat
    <3>1. Cardinality((todo[r] \union inflight[r]) \ {f})
            = Cardinality(todo[r] \union inflight[r]) - 1
      <4>1. f \in todo[r] \union inflight[r]
        OBVIOUS
      <4> QED
        BY <1>f, <4>1, FS_RemoveElement
    <3> QED
      BY <1>f, <2>3, <3>1, FS_CardinalityType
  <2>5. total' = probeDone' + Cardinality(todo'[r] \union inflight'[r])
    BY <1>0, <2>1, <2>4 DEF Filled
  <2>6. ~Plan(r)
    BY <2>1 DEF Plan
  <2>7. Probed(f.acct)'
    BY <1>p, <1>t, <2>1, ProbedNow
  <2>8. ASSUME NEW g \in runTargets' \ (todo'[r] \union inflight'[r]) PROVE Probed(g.acct)'
    <3>1. CASE g = f
      BY <2>7, <3>1
    <3>2. CASE g # f
      <4>1. g \in runTargets \ (todo[r] \union inflight[r])
        BY <2>1, <2>3, <3>2
      <4> QED
        BY <1>s, <1>t, <2>1, <2>6, <4>1 DEF Filled
    <3> QED
      BY <3>1, <3>2
  <2>9. pc'[r] = "probe"
    BY <2>1
  <2> QED
    BY <2>5, <2>8, <2>9 DEF Filled
<1>11. ASSUME NEW f \in inflight[r], NEW class \in {"answered", "timeout"},
              RetryDone(r, f, class)
       PROVE  Filled(r)'
  <2>1. pc[r] = "retry" /\ UNCHANGED <<pc, total, probeDone, runTargets>>
    BY <1>11 DEF RetryDone, progressVars, planVars
  <2>2. ~Plan(r) /\ pc'[r] = "retry"
    BY <2>1 DEF Plan
  <2>3. \A g \in runTargets : Probed(g.acct)'
    BY <1>s, <1>t, <2>1, <2>2 DEF Filled
  <2> QED
    BY <2>1, <2>2, <2>3 DEF Filled
<1>12. CASE PrimaryOver(r) \/ RetryOver(r)
  <2>1. /\ pc[r] \in {"probe", "retry"} /\ todo[r] \union inflight[r] = {}
        /\ UNCHANGED <<total, probeDone, runTargets, results>>
    BY <1>12 DEF PrimaryOver, RetryOver, Drained, planVars, progressVars, engineVars
  <2>2. pc'[r] \in {"retry", "finish"}
    BY <1>0, <1>12 DEF PrimaryOver, RetryOver, Goto, TypeOK
  <2>3. total = probeDone
    BY <1>0, <2>1, FS_EmptySet DEF Filled
  <2>4. \A f \in runTargets : Probed(f.acct)
    BY <2>1 DEF Filled
  <2>5. \A f \in runTargets : Probed(f.acct)'
    BY <1>p, <2>1, <2>4 DEF Probed
  <2> QED
    BY <2>1, <2>2, <2>3, <2>5 DEF Filled
<1>13. CASE Finish(r)
  BY <1>0, <1>13 DEF Finish, Goto, TypeOK, Active
<1> QED
  BY <1>1, <1>2, <1>3, <1>4, <1>5, <1>6, <1>7, <1>8, <1>9, <1>10, <1>11, <1>12, <1>13
     DEF RunStep

(* The other runs are silent, and so is what is not a run. *)
LEMMA FillStep ==
  ASSUME RunInv, LocalInv, OutcomeInv, ReportedInv, FillInv, [Next]_vars
  PROVE  ReportedInv' /\ FillInv'
<1>0. TypeOK /\ TokenInv
  BY DEF RunInv
<1>1. ASSUME NEW r \in Slots, RunStep(r) PROVE ReportedInv' /\ FillInv'
  <2>0. ReportedInv'
    BY <1>1, ReportedRunStep
  <2> SUFFICES ASSUME NEW s \in Slots, Active(s)', Current(s)' PROVE Filled(s)'
    BY <2>0 DEF FillInv
  <2>1. Active(s) /\ Current(s) /\ Active(r) /\ Filled(s) /\ Told(s)
    BY <1>1, StaysCurrent, RunStepActive DEF FillInv, OutcomeInv
  <2>2. CASE s = r
    BY <1>1, <2>1, <2>2, FilledMine
  <2>3. CASE s # r
    <3>1. ~Current(r)
      BY <1>0, <2>1, <2>3 DEF TokenInv, Current
    <3>2. UNCHANGED <<total, probeDone, runTargets, results, runListOK, runID>>
      BY <1>1, <3>1, SilentStep DEF engineVars, progressVars, planVars
    <3>3. pc'[s] = pc[s] /\ todo'[s] = todo[s] /\ inflight'[s] = inflight[s]
      BY <1>0, <1>1, <2>3, OthersUntouched
    <3>4. reported'[s] = reported[s]
      BY <1>0, <1>1, <2>3 DEF RunStep, ListReturns, NoteFailed, ReportFailure, NoteListed,
         Select, ReportMissing, Plan, StartProbe, StopScheduling, ProbeDone, RetryDone,
         PrimaryOver, RetryOver, Finish, TypeOK, runVars
    <3>5. \A a : Probed(a) => Probed(a)'
      BY <3>2 DEF Probed
    <3> QED
      BY <2>1, <3>2, <3>3, <3>4, <3>5 DEF Filled
  <2> QED
    BY <2>2, <2>3
<1>2. ASSUME NEW r \in Slots, NEW m \in Modes, Start(r, m)
      PROVE  ReportedInv' /\ FillInv'
  <2>1. /\ pc' = [pc EXCEPT ![r] = "list"] /\ token' = [token EXCEPT ![r] = runID + 1]
        /\ runID' = runID + 1 /\ probeDone' = 0 /\ pc[r] = "idle"
        /\ UNCHANGED <<reported, missing>>
    BY <1>2 DEF Start, Goto
  <2>2. \A s \in Slots : Current(s)' => s = r
    BY <1>0, <2>1 DEF TypeOK, TokenInv, Current
  <2>3. Filled(r)'
    BY <1>0, <2>1 DEF TypeOK, Filled
  <2>4. ReportedInv'
    BY <1>0, <2>1 DEF TypeOK, ReportedInv
  <2> QED
    BY <2>2, <2>3, <2>4 DEF FillInv
<1>3. CASE runID' = runID + 1 /\ UNCHANGED <<token, pc, reported, missing>>
  <2>1. \A s \in Slots : ~Current(s)'
    BY <1>0, <1>3 DEF TokenInv, Current
  <2> QED
    BY <1>3, <2>1 DEF FillInv, ReportedInv
<1>4. CASE UNCHANGED <<results, total, probeDone, runTargets, runListOK, runID, token, pc,
                       todo, inflight, reported, missing>>
  BY <1>4 DEF FillInv, ReportedInv, Active, Current, Filled, Probed
<1>5. CASE Stop
  BY <1>3, <1>4, <1>5 DEF Stop, Abort, progressVars, runVars
<1>6. CASE Shutdown
  BY <1>3, <1>6 DEF Shutdown, runVars
<1>7. CASE ShutdownReturns
  BY <1>4, <1>7 DEF ShutdownReturns, progressVars, planVars, runVars
<1>8. ASSUME NEW a \in Accounts, DeleteAccount(a) PROVE ReportedInv' /\ FillInv'
  <2>1. ~running /\ UNCHANGED <<pc, token, runID, reported, missing>>
    BY <1>8 DEF DeleteAccount, runVars
  <2>2. \A s \in Slots : ~(Active(s) /\ Current(s))
    BY <2>1, CurrentIsLive
  <2> QED
    BY <2>1, <2>2 DEF FillInv, ReportedInv, Active, Current
<1>9. CASE UNCHANGED vars
  BY <1>4, <1>9 DEF vars, engineVars, progressVars, planVars, runVars
<1> QED
  BY <1>1, <1>2, <1>5, <1>6, <1>7, <1>8, <1>9 DEF Next

(* When a run that got its list ends, the progress stands at its end and   *)
(* every target has a row of this run, in any mixture of answers, timeouts *)
(* and retries; rows whose account is missing are counted as well.         *)
THEOREM FinishedIsComplete == Spec => FinishIsComplete
<1>1. Init => LocalInv /\ ReportedInv /\ FillInv
  BY DEF Init, LocalInv, ReportedInv, FillInv, Active
<1>2. /\ RunInv /\ LocalInv /\ OutcomeInv /\ ReportedInv /\ FillInv
      /\ [Next]_vars
      => RunInv' /\ LocalInv' /\ OutcomeInv' /\ ReportedInv' /\ FillInv'
  BY RunInvStep, LocalInvStep, OutcomeStep, FillStep
<1>3. /\ RunInv /\ LocalInv /\ OutcomeInv /\ ReportedInv /\ FillInv
      /\ [Next]_vars
      => [(lastFinished' # lastFinished /\ lastFinished'.listOK) =>
            /\ probeDone = total
            /\ \A f \in runTargets : \E i \in DOMAIN results[f.acct] :
                 results[f.acct][i].by = runID
                 /\ results[f.acct][i].class # "cancelled"]_vars
  <2> SUFFICES ASSUME RunInv, FillInv, Next, lastFinished' # lastFinished,
                      lastFinished'.listOK
               PROVE  probeDone = total /\ \A f \in runTargets : Probed(f.acct)
    BY DEF Probed
  <2>1. PICK r \in Slots : RunStep(r)
    BY DEF Next, Start, Stop, Shutdown, ShutdownReturns, DeleteAccount, vars, engineVars
  <2>2. /\ Finish(r) /\ Current(r)
        /\ lastFinished' = [run |-> token[r], listOK |-> runListOK,
                            full |-> runIsFullInspect, probed |-> runProbedKeys]
    BY <2>1, Published
  <2>3. pc[r] = "finish" /\ runListOK
    BY <2>2 DEF Finish
  <2> QED
    BY <2>2, <2>3 DEF FillInv, Active, Filled
<1> QED
  BY <1>1, <1>2, <1>3, RunInvInit, OutcomeInit, PTL DEF Spec, FinishIsComplete
-----------------------------------------------------------------------------
(* A row of this run about this very file. *)
Own(f) ==
  \E i \in DOMAIN results[f.acct] :
    SameFile(results[f.acct][i], f) /\ results[f.acct][i].by = runID

(* In a run that does not merge a target has a row of this run or, until   *)
(* it is probed, none about its file, and a stop will add one.             *)
Marked(r) ==
  /\ mode[r] \in {"full", "incremental"} /\ ~sampleMode
  /\ runTargets \in Lists
  /\ pc[r] \notin {"probe", "retry", "finish"} => runTargets = {}
  /\ pc[r] = "missing" =>
       ~merge[r] /\ (~fullClearPending => \A f \in todo[r] : ~Contains(results, f))
  /\ pc[r] = "probe" =>
       /\ todo[r] \union inflight[r] \union retry[r] \subseteq runTargets
       /\ \A f \in todo[r] \union inflight[r] : ~Contains(results, f)
       /\ \A f \in runTargets \ (todo[r] \union inflight[r]) : Own(f)
  /\ pc[r] = "retry" => todo[r] \union inflight[r] \subseteq runTargets
  /\ pc[r] \in {"retry", "finish"} => \A f \in runTargets : Own(f)

MarkInv ==
  /\ \A r \in Slots : pc[r] \notin {"probe", "finish"} => retry[r] = {}
  /\ \A r \in Slots : Active(r) /\ Current(r) => Marked(r)

(* A probe leaves a row of this run for its target and touches no other.   *)
LEMMA OwnNow ==
  ASSUME RunInv, NEW r \in Slots, Current(r), Active(r), runTargets \in Lists,
         NEW f \in runTargets, NEW class \in {"answered", "timeout"},
         NEW upsert \in BOOLEAN, runID' = runID,
         Write(f.acct, Row(class, f.ver, token[r]), upsert)
  PROVE  /\ Own(f)'
         /\ \A g \in runTargets : g # f => results'[g.acct] = results[g.acct]
<1> DEFINE row == Row(class, f.ver, token[r])
<1>0. TypeOK /\ token[r] = runID /\ token[r] \in 1 .. MaxRunID + 2
      /\ runTargets \subseteq Files
  BY TokenType DEF RunInv, Current, TypeOK
<1>1. f.acct \in RowIds /\ f.ver \in 0 .. MaxVersion
  BY <1>0, InspectionAssumption DEF Files, RowIds
<1>2. row \in Rows /\ row.by = runID /\ row.ver = f.ver
  BY <1>0, <1>1 DEF Row, Rows, Classes
<1> HIDE DEF row
<1>3. results' = [results EXCEPT ![f.acct] = Merged(results[f.acct], row, upsert)]
  BY DEF Write, row
<1>4. results'[f.acct] = Merged(results[f.acct], row, upsert)
  BY <1>0, <1>1, <1>3 DEF TypeOK
<1>5. \E i \in DOMAIN results'[f.acct] : results'[f.acct][i] = row
  BY <1>0, <1>1, <1>2, <1>4, MergedKeeps DEF TypeOK
<1>6. Own(f)'
  BY <1>2, <1>5 DEF Own, SameFile
<1>7. ASSUME NEW g \in runTargets, g # f PROVE results'[g.acct] = results[g.acct]
  <2>1. g.acct # f.acct /\ g.acct \in RowIds
    BY <1>0, <1>7 DEF Lists, Files, RowIds
  <2> QED
    BY <1>0, <1>3, <2>1 DEF TypeOK
<1> QED
  BY <1>6, <1>7

(* What a run that drops no rows chooses has no row about its file.        *)
LEMMA SelectMarked ==
  ASSUME RunInv, FreshInv, NEW r \in Slots, Select(r), Current(r), Marked(r)
  PROVE  Marked(r)'
<1>0. TypeOK /\ pc[r] = "select" /\ Active(r)
  BY DEF RunInv, Select, Active
<1>1. mode[r] \in {"full", "incremental"} /\ ~sampleMode /\ runTargets = {}
      /\ (mode[r] = "full" => fullClearPending)
  BY <1>0 DEF FreshInv, Marked
<1>2. merge' = [merge EXCEPT ![r] = Scoped(mode[r]) \/ sampleMode]
      /\ pc' = [pc EXCEPT ![r] = "missing"]
      /\ UNCHANGED <<results, fullClearPending, mode, sampleMode, runTargets>>
  BY DEF Select, Goto, engineVars, planVars, configVars
<1>3. ~Scoped(mode[r])
  BY <1>1 DEF Scoped, Category
<1>4. ~merge'[r] /\ pc'[r] = "missing"
  BY <1>0, <1>1, <1>2, <1>3 DEF TypeOK
<1>5. ASSUME ~fullClearPending', NEW f \in todo'[r] PROVE ~Contains(results, f)'
  <2>1. PICK skip \in {{}, Disabled} :
          \E chosen \in Samples(Candidates(mode[r], list[r], skip)) :
            todo' = [todo EXCEPT ![r] = chosen]
    BY DEF Select
  <2>2. PICK chosen \in Samples(Candidates(mode[r], list[r], skip)) :
          todo' = [todo EXCEPT ![r] = chosen]
    BY <2>1
  <2>3. f \in chosen
    BY <1>0, <1>5, <2>2 DEF TypeOK
  <2>4. f \in Candidates(mode[r], list[r], skip)
    BY <2>3, SamplesType
  <2>5. mode[r] = "incremental"
    BY <1>1, <1>2, <1>5
  <2>6. ~Contains(results, f)
    BY <1>3, <2>4, <2>5 DEF Candidates
  <2> QED
    BY <1>2, <2>6 DEF Contains
<1>6. runTargets' = {} /\ runTargets' \in Lists
  BY <1>1, <1>2 DEF Lists
<1>7. mode'[r] \in {"full", "incremental"} /\ ~sampleMode'
  BY <1>1, <1>2
<1> QED
  BY <1>4, <1>5, <1>6, <1>7 DEF Marked

(* Each step of the current run keeps its targets marked. *)
LEMMA MarkedMine ==
  ASSUME RunInv, LocalInv, FreshInv, MarkInv, NEW r \in Slots, RunStep(r), Active(r),
         Current(r), Active(r)'
  PROVE  Marked(r)'
<1>0. TypeOK
  BY DEF RunInv
<1>a. Marked(r)
  BY DEF MarkInv
<1>b. ~Discarded(r) /\ token[r] = runID
  BY CurrentIsLive DEF Discarded, Current
<1>p. runID' = runID
  BY Published
<1>t. runTargets \subseteq Files /\ inflight[r] \subseteq Files /\ merge[r] \in BOOLEAN
  BY <1>0 DEF TypeOK
<1>u. ASSUME pc[r] \notin {"probe", "retry", "finish", "missing"},
             pc'[r] \notin {"probe", "retry", "missing"},
             UNCHANGED <<mode, sampleMode, runTargets>>
      PROVE  Marked(r)'
  BY <1>a, <1>u DEF Marked
<1>1. CASE ListReturns(r) \/ NoteFailed(r) \/ ReportFailure(r) \/ NoteListed(r)
  <2>1. UNCHANGED <<mode, sampleMode, runTargets>>
        /\ pc[r] \in {"list", "failed", "report", "listed"}
    BY <1>1 DEF ListReturns, NoteFailed, ReportFailure, NoteListed, engineVars,
       configVars, planVars, runVars
  <2>2. CASE ListReturns(r)
    BY <1>0, <1>u, <2>1, <2>2 DEF ListReturns, Goto, TypeOK
  <2>3. CASE NoteFailed(r)
    BY <1>0, <1>u, <2>1, <2>3 DEF NoteFailed, Goto, TypeOK
  <2>4. CASE ReportFailure(r)
    BY <1>0, <1>u, <2>1, <2>4 DEF ReportFailure, Goto, TypeOK
  <2>5. CASE NoteListed(r)
    BY <1>0, <1>u, <2>1, <2>5 DEF NoteListed, Goto, TypeOK
  <2> QED
    BY <1>1, <2>2, <2>3, <2>4, <2>5
<1>2. CASE Select(r)
  BY <1>2, <1>a, SelectMarked
<1>3. CASE ReportMissing(r)
  <2>1. pc[r] = "missing" /\ missing[r] # {}
    BY <1>3 DEF ReportMissing
  <2> QED
    BY <1>a, <2>1 DEF Marked, LocalInv
<1>4. CASE Plan(r)
  <2>1. /\ pc[r] = "missing" /\ runTargets' = todo[r]
        /\ pc' = [pc EXCEPT ![r] = IF todo[r] = {} THEN "finish" ELSE "probe"]
        /\ results' = IF fullClearPending THEN [a \in RowIds |-> << >>] ELSE results
        /\ UNCHANGED <<todo, inflight, retry, mode, sampleMode>>
    BY <1>4, PlanEffect DEF runVars, configVars
  <2>2. /\ inflight[r] = {} /\ retry[r] = {} /\ todo[r] \in Lists
        /\ todo[r] \subseteq Files
    <3>1. inflight[r] = {} /\ todo[r] \union inflight[r] \in Lists
      BY <2>1 DEF LocalInv
    <3>2. retry[r] = {}
      BY <2>1 DEF MarkInv
    <3>3. todo[r] \union inflight[r] = todo[r]
      BY <3>1
    <3> QED
      BY <1>0, <3>1, <3>2, <3>3 DEF TypeOK
  <2>3. ASSUME NEW f \in todo[r] PROVE ~Contains(results', f)
    <3>1. CASE fullClearPending
      <4>1. f.acct \in RowIds
        BY <2>2 DEF Files, RowIds
      <4>2. DOMAIN results'[f.acct] = {}
        BY <2>1, <3>1, <4>1
      <4> QED
        BY <4>2 DEF Contains
    <3>2. CASE ~fullClearPending
      BY <1>a, <2>1, <3>2 DEF Marked
    <3> QED
      BY <3>1, <3>2
  <2>4. mode'[r] \in {"full", "incremental"} /\ ~sampleMode' /\ runTargets' \in Lists
    BY <1>a, <2>1, <2>2 DEF Marked
  <2>5. CASE todo[r] = {}
    <3>1. pc'[r] = "finish"
      BY <1>0, <2>1, <2>5 DEF TypeOK
    <3> QED
      BY <2>1, <2>4, <2>5, <3>1 DEF Marked
  <2>6. CASE todo[r] # {}
    <3>1. pc'[r] = "probe"
      BY <1>0, <2>1, <2>6 DEF TypeOK
    <3>2. \A f \in todo'[r] \union inflight'[r] : ~Contains(results, f)'
      BY <2>1, <2>2, <2>3 DEF Contains
    <3> QED
      BY <2>1, <2>2, <2>4, <3>1, <3>2 DEF Marked
  <2> QED
    BY <2>5, <2>6
<1>5. ASSUME NEW f \in todo[r], StartProbe(r, f) PROVE Marked(r)'
  <2>1. UNCHANGED <<pc, mode, sampleMode, runTargets, results, retry>>
        /\ pc[r] \in {"probe", "retry"}
    BY <1>5 DEF StartProbe, engineVars, configVars, planVars
  <2>2. todo'[r] \union inflight'[r] = todo[r] \union inflight[r]
    BY <1>0, <1>5 DEF StartProbe, TypeOK
  <2>3. \A g : (Own(g) => Own(g)') /\ (~Contains(results, g) => ~Contains(results, g)')
    BY <1>p, <2>1 DEF Own, Contains
  <2> QED
    BY <1>a, <2>1, <2>2, <2>3 DEF Marked
<1>6. CASE StopScheduling(r)
  BY <1>6, <1>b DEF StopScheduling
<1>7. ASSUME NEW f \in inflight[r], NEW class \in {"answered", "timeout"},
             ProbeDone(r, f, class)
      PROVE  Marked(r)'
  <2>1. /\ pc[r] = "probe" /\ UNCHANGED <<pc, mode, sampleMode, todo, runTargets>>
        /\ Write(f.acct, Row(class, f.ver, token[r]), merge[r])
        /\ inflight' = [inflight EXCEPT ![r] = inflight[r] \ {f}]
    BY <1>7, <1>b DEF ProbeDone, Record, planVars, configVars
  <2>2. inflight'[r] = inflight[r] \ {f} /\ retry'[r] \subseteq retry[r] \union {f}
    BY <1>0, <1>7, <2>1 DEF ProbeDone, TypeOK
  <2>3. todo'[r] \union inflight'[r] = (todo[r] \union inflight[r]) \ {f}
    BY <2>1, <2>2 DEF LocalInv
  <2>4. f \in runTargets /\ runTargets \in Lists
    BY <1>a, <2>1 DEF Marked
  <2>5. Own(f)' /\ \A g \in runTargets : g # f => results'[g.acct] = results[g.acct]
    BY <1>p, <1>t, <2>1, <2>4, OwnNow
  <2>6. ASSUME NEW g \in runTargets, g # f
        PROVE  (Own(g) => Own(g)') /\ (~Contains(results, g) => ~Contains(results, g)')
    BY <1>p, <2>5, <2>6 DEF Own, Contains
  <2>7. todo[r] \union inflight[r] \union retry[r] \subseteq runTargets
    BY <1>a, <2>1 DEF Marked
  <2>8. \A g \in todo'[r] \union inflight'[r] : ~Contains(results, g)'
    BY <1>a, <2>1, <2>3, <2>6, <2>7 DEF Marked
  <2>9. \A g \in runTargets' \ (todo'[r] \union inflight'[r]) : Own(g)'
    BY <1>a, <2>1, <2>3, <2>5, <2>6 DEF Marked
  <2>10. todo'[r] \union inflight'[r] \union retry'[r] \subseteq runTargets'
    BY <2>1, <2>2, <2>4, <2>7
  <2> QED
    BY <1>a, <2>1, <2>8, <2>9, <2>10 DEF Marked
<1>8. ASSUME NEW f \in inflight[r], NEW class \in {"answered", "timeout"},
             RetryDone(r, f, class)
      PROVE  Marked(r)'
  <2>1. /\ pc[r] = "retry" /\ UNCHANGED <<pc, mode, sampleMode, todo, runTargets>>
        /\ Write(f.acct, Row(class, f.ver, token[r]), TRUE)
        /\ inflight' = [inflight EXCEPT ![r] = inflight[r] \ {f}]
    BY <1>8, <1>b DEF RetryDone, planVars, configVars
  <2>2. inflight'[r] \subseteq inflight[r]
    BY <1>0, <2>1 DEF TypeOK
  <2>3. f \in runTargets /\ runTargets \in Lists
    BY <1>a, <2>1 DEF Marked
  <2>4. Own(f)' /\ \A g \in runTargets : g # f => results'[g.acct] = results[g.acct]
    BY <1>p, <2>1, <2>3, OwnNow
  <2>5. ASSUME NEW g \in runTargets PROVE Own(g)'
    <3>1. Own(g)
      BY <1>a, <2>1 DEF Marked
    <3> QED
      BY <1>p, <2>4, <3>1 DEF Own
  <2> QED
    BY <1>a, <2>1, <2>2, <2>5 DEF Marked
<1>9. CASE PrimaryOver(r) \/ RetryOver(r)
  <2>1. /\ pc[r] \in {"probe", "retry"} /\ todo[r] \union inflight[r] = {}
        /\ UNCHANGED <<mode, sampleMode, runTargets, results, inflight>>
    BY <1>9 DEF PrimaryOver, RetryOver, Drained, planVars, configVars, engineVars, runVars
  <2>2. pc'[r] = "finish" \/ (pc[r] = "probe" /\ pc'[r] = "retry" /\ todo'[r] = retry[r])
    BY <1>0, <1>9 DEF PrimaryOver, RetryOver, Goto, TypeOK
  <2>3. \A f \in runTargets : Own(f)
    BY <1>a, <2>1 DEF Marked
  <2>4. \A f \in runTargets : Own(f)'
    BY <1>p, <2>1, <2>3 DEF Own
  <2> QED
    BY <1>a, <2>1, <2>2, <2>4 DEF Marked
<1>10. CASE Finish(r)
  BY <1>0, <1>10 DEF Finish, Goto, TypeOK, Active
<1> QED
  BY <1>1, <1>2, <1>3, <1>4, <1>5, <1>6, <1>7, <1>8, <1>9, <1>10 DEF RunStep

(* Nothing waits for a retry but during the first round of probes. *)
LEMMA RetryStep ==
  ASSUME TypeOK, NEW r \in Slots, RunStep(r),
         NEW s \in Slots, pc[s] \notin {"probe", "finish"} => retry[s] = {},
         pc'[s] \notin {"probe", "finish"}
  PROVE  retry'[s] = {}
<1> USE DEF TypeOK, Goto, runVars
<1>1. CASE Finish(r) \/ PrimaryOver(r)
  BY <1>1 DEF Finish, PrimaryOver
<1>2. CASE RetryOver(r) \/ Plan(r)
  BY <1>2 DEF RetryOver, Plan
<1>3. CASE ListReturns(r) \/ NoteFailed(r) \/ ReportFailure(r) \/ NoteListed(r)
           \/ Select(r) \/ ReportMissing(r)
  BY <1>3 DEF ListReturns, NoteFailed, ReportFailure, NoteListed, Select, ReportMissing
<1>4. CASE (\E f \in todo[r] : StartProbe(r, f)) \/ StopScheduling(r)
           \/ \E f \in inflight[r], class \in {"answered", "timeout"} :
                ProbeDone(r, f, class) \/ RetryDone(r, f, class)
  BY <1>4 DEF StartProbe, StopScheduling, ProbeDone, RetryDone
<1> QED
  BY <1>1, <1>2, <1>3, <1>4 DEF RunStep

(* The other runs are silent, and so is what is not a run. *)
LEMMA MarkStep ==
  ASSUME Modes \subseteq {"full", "incremental"},
         RunInv, LocalInv, FreshInv, MarkInv, [Next]_vars
  PROVE  MarkInv'
<1>0. TypeOK /\ TokenInv
  BY DEF RunInv
<1>1. ASSUME NEW r \in Slots, RunStep(r) PROVE MarkInv'
  <2>1. \A s \in Slots : pc'[s] \notin {"probe", "finish"} => retry'[s] = {}
    BY <1>0, <1>1, RetryStep DEF MarkInv
  <2> SUFFICES ASSUME NEW s \in Slots, Active(s)', Current(s)' PROVE Marked(s)'
    BY <2>1 DEF MarkInv
  <2>2. Active(s) /\ Current(s) /\ Active(r) /\ Marked(s)
    BY <1>1, StaysCurrent, RunStepActive DEF MarkInv
  <2>3. CASE s = r
    BY <1>1, <2>2, <2>3, MarkedMine
  <2>4. CASE s # r
    <3>1. ~Current(r)
      BY <1>0, <2>2, <2>4 DEF TokenInv, Current
    <3>2. UNCHANGED <<runTargets, results, runID, sampleMode, fullClearPending>>
      BY <1>1, <3>1, SilentStep DEF engineVars, planVars, configVars
    <3>3. /\ pc'[s] = pc[s] /\ mode'[s] = mode[s] /\ todo'[s] = todo[s]
          /\ inflight'[s] = inflight[s] /\ merge'[s] = merge[s]
      BY <1>0, <1>1, <2>4, OthersUntouched
    <3>4. retry'[s] = retry[s]
      BY <1>0, <1>1, <2>4 DEF RunStep, ListReturns, NoteFailed, ReportFailure, NoteListed,
         Select, ReportMissing, Plan, StartProbe, StopScheduling, ProbeDone, RetryDone,
         PrimaryOver, RetryOver, Finish, TypeOK, runVars
    <3>5. \A f : (Own(f) => Own(f)') /\ (~Contains(results, f) => ~Contains(results, f)')
      BY <3>2 DEF Own, Contains
    <3> QED
      BY <2>2, <3>2, <3>3, <3>4, <3>5 DEF Marked
  <2> QED
    BY <2>3, <2>4
<1>2. ASSUME NEW r \in Slots, NEW m \in Modes, Start(r, m) PROVE MarkInv'
  <2>1. /\ pc' = [pc EXCEPT ![r] = "list"] /\ token' = [token EXCEPT ![r] = runID + 1]
        /\ mode' = [mode EXCEPT ![r] = m] /\ pc[r] = "idle"
        /\ runID' = runID + 1 /\ runTargets' = {} /\ sampleMode' = Sampling(m)
        /\ UNCHANGED retry
    BY <1>2 DEF Start, Goto
  <2>2. \A s \in Slots : Current(s)' => s = r
    BY <1>0, <2>1 DEF TypeOK, TokenInv, Current
  <2>3. pc'[r] = "list" /\ mode'[r] = m /\ m \in {"full", "incremental"} /\ ~sampleMode'
    BY <1>0, <2>1 DEF TypeOK, Sampling
  <2>4. runTargets' \in Lists
    BY <2>1 DEF Lists
  <2>5. Marked(r)'
    BY <2>1, <2>3, <2>4 DEF Marked
  <2>6. \A s \in Slots : pc'[s] \notin {"probe", "finish"} => retry'[s] = {}
    BY <1>0, <2>1 DEF MarkInv, TypeOK
  <2> QED
    BY <2>2, <2>5, <2>6 DEF MarkInv
<1>3. CASE runID' = runID + 1 /\ UNCHANGED <<token, pc, retry>>
  <2>1. \A s \in Slots : ~Current(s)'
    BY <1>0, <1>3 DEF TokenInv, Current
  <2> QED
    BY <1>3, <2>1 DEF MarkInv
<1>4. CASE UNCHANGED <<results, runTargets, sampleMode, fullClearPending, runID, token,
                       pc, mode, todo, inflight, retry, merge>>
  BY <1>4 DEF MarkInv, Active, Current, Marked, Own, Contains
<1>5. CASE Stop
  BY <1>3, <1>4, <1>5 DEF Stop, Abort, configVars, runVars
<1>6. CASE Shutdown
  BY <1>3, <1>6 DEF Shutdown, runVars
<1>7. CASE ShutdownReturns
  BY <1>4, <1>7 DEF ShutdownReturns, configVars, planVars, runVars
<1>8. ASSUME NEW a \in Accounts, DeleteAccount(a) PROVE MarkInv'
  <2>1. ~running /\ UNCHANGED <<pc, token, runID, retry>>
    BY <1>8 DEF DeleteAccount, runVars
  <2>2. \A s \in Slots : ~(Active(s) /\ Current(s))
    BY <2>1, CurrentIsLive
  <2> QED
    BY <2>1, <2>2 DEF MarkInv, Active, Current
<1>9. CASE UNCHANGED vars
  BY <1>4, <1>9 DEF vars, engineVars, configVars, planVars, runVars
<1> QED
  BY <1>1, <1>2, <1>5, <1>6, <1>7, <1>8, <1>9 DEF Next

(* A stop marks the targets that have no row, and leaves the others theirs. *)
LEMMA StopMarks ==
  ASSUME RunInv, running, runTargets \in Lists,
         \A f \in runTargets : Own(f) \/ ~Contains(results, f),
         Abort(results, runTargets, runClassifyScoped, total), NEW f \in runTargets
  PROVE  \E i \in DOMAIN results'[f.acct] :
           SameFile(results'[f.acct][i], f) /\ results'[f.acct][i].by = runID
<1> DEFINE left == {g \in runTargets : g.acct = f.acct /\ ~Contains(results, g)}
<1>0. TypeOK /\ runID \in 1 .. MaxRunID + 2 /\ f \in Files /\ f.acct \in RowIds
  BY InspectionAssumption DEF RunInv, BoundInv, TypeOK, Files, RowIds
<1>1. results' = Cancelled(results, runTargets, runClassifyScoped)
  BY DEF Abort
<1>2. \A g \in left : g = f
  BY DEF Lists
<1>3. CASE Contains(results, f)
  <2>1. left = {}
    BY <1>2, <1>3
  <2>2. results'[f.acct] = results[f.acct]
    BY <1>0, <1>1, <2>1 DEF Cancelled
  <2>3. Own(f)
    BY <1>3
  <2> QED
    BY <2>2, <2>3 DEF Own
<1>4. CASE ~Contains(results, f)
  <2>1. left = {f}
    BY <1>2, <1>4
  <2>2. (CHOOSE g \in left : TRUE) = f
    BY <2>1
  <2> DEFINE row == Row("cancelled", f.ver, runID)
  <2>3. f.ver \in 0 .. MaxVersion
    BY <1>0, InspectionAssumption DEF Files
  <2>4. row \in Rows /\ row.ver = f.ver /\ row.by = runID
    BY <1>0, <2>3 DEF Row, Rows, Classes
  <2>5. results'[f.acct] = Merged(results[f.acct], row, runClassifyScoped)
    BY <1>0, <1>1, <2>1, <2>2 DEF Cancelled
  <2> HIDE DEF row
  <2>6. \E i \in DOMAIN results'[f.acct] : results'[f.acct][i] = row
    <3>1. results[f.acct] \in Seq(Rows) /\ runClassifyScoped \in BOOLEAN
      BY <1>0 DEF TypeOK
    <3> QED
      BY <2>4, <2>5, <3>1, MergedKeeps
  <2> QED
    BY <2>4, <2>6 DEF SameFile
<1> QED
  BY <1>3, <1>4

(* However a full or incremental run ends, each of its targets has a row   *)
(* that this run wrote about this very file: from a probe, or, when it was *)
(* stopped, from abortRunLocked.  Runs that merge, over a sample or the    *)
(* rows of a category, may leave an earlier row where they were stopped.   *)
THEOREM TargetsMarked ==
  ASSUME Modes \subseteq {"full", "incremental"}
  PROVE  Spec => TargetsAreMarked
<1>1. Init => LocalInv /\ FreshInv /\ MarkInv
  BY DEF Init, LocalInv, FreshInv, MarkInv, Active
<1>2. RunInv /\ LocalInv /\ FreshInv /\ MarkInv /\ [Next]_vars
      => RunInv' /\ LocalInv' /\ FreshInv' /\ MarkInv'
  BY RunInvStep, LocalInvStep, FreshStep, MarkStep
<1>3. RunInv /\ MarkInv /\ [Next]_vars
      => [(running /\ ~running' /\ shutdown = "no") =>
            \A f \in runTargets : \E i \in DOMAIN results'[f.acct] :
              SameFile(results'[f.acct][i], f) /\ results'[f.acct][i].by = runID]_vars
  <2> SUFFICES ASSUME RunInv, MarkInv, Next, running, ~running', shutdown = "no",
                      NEW f \in runTargets
               PROVE  \E i \in DOMAIN results'[f.acct] :
                        SameFile(results'[f.acct][i], f) /\ results'[f.acct][i].by = runID
    OBVIOUS
  <2>1. ASSUME NEW r \in Slots, RunStep(r)
        PROVE  \E i \in DOMAIN results'[f.acct] :
                 SameFile(results'[f.acct][i], f) /\ results'[f.acct][i].by = runID
    <3>1. Current(r) /\ Active(r)
      BY <2>1, SilentStep, RunStepActive DEF engineVars
    <3>2. Finish(r)
      <4>1. ~Plan(r)
        BY <3>1, PlanEffect
      <4> QED
        BY <2>1, <4>1 DEF RunStep, ListReturns, NoteFailed, ReportFailure, NoteListed, Select,
           ReportMissing, StartProbe, StopScheduling, ProbeDone, RetryDone, PrimaryOver,
           RetryOver, engineVars
    <3>3. Own(f) /\ UNCHANGED results
      BY <3>1, <3>2 DEF Finish, MarkInv, Marked
    <3> QED
      BY <3>3 DEF Own
  <2>2. CASE Stop
    <3>1. PICK r \in Slots : Active(r) /\ Current(r)
      BY DEF RunInv, RunningInv
    <3>2. Marked(r) /\ pc[r] \in Labels \ {"idle"}
      BY <3>1 DEF MarkInv, Active, RunInv, TypeOK
    <3>3. runTargets \in Lists /\ \A g \in runTargets : Own(g) \/ ~Contains(results, g)
      BY <3>2 DEF Marked
    <3>4. Abort(results, runTargets, runClassifyScoped, total)
      BY <2>2 DEF Stop
    <3> QED
      BY <3>3, <3>4, StopMarks
  <2> QED
    BY <2>1, <2>2 DEF Next, Start, Shutdown, ShutdownReturns, DeleteAccount, vars, engineVars
<1> QED
  BY <1>1, <1>2, <1>3, RunInvInit, PTL DEF Spec, TargetsAreMarked
=============================================================================
