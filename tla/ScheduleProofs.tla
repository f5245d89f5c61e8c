--------------------------- MODULE ScheduleProofs ---------------------------
(***************************************************************************)
(* Proofs about the inspection schedule, for any accounts, settings,       *)
(* classes and stages of disposal and for any number of users.             *)
(***************************************************************************)
EXTENDS Schedule, TLAPS

AllSettings == Settings \union Updates
Labels == {"snap", "off", "timer", "report", "saving", "start", "poll",
           "outcome", "stage", "apply", "watch", "done"}
RowType == [class : Classes \union {"stopped"}, disabled : BOOLEAN,
            from : {"older", "own", "newer"}]
EngType == [job : {"idle", "run", "apply"}, own : BOOLEAN, listed : BOOLEAN,
            full : BOOLEAN, plan : SUBSET Accounts, todo : SUBSET Accounts,
            kind : {"", "disable", "delete", "enable"}, drain : BOOLEAN,
            failed : BOOLEAN]
OutcomeType == [own : BOOLEAN, ok : BOOLEAN, full : BOOLEAN, probed : SUBSET Accounts]
RunType == [report : Statuses, stage : 0 .. Len(Stages) + 1, scope : SUBSET Accounts,
            password : BOOLEAN, targets : SUBSET Accounts, matched : BOOLEAN,
            failed : BOOLEAN, errors : BOOLEAN, lost : BOOLEAN]

(* The types of the settings, of the loop and of the engine. *)
ConfType ==
  /\ mem \in AllSettings /\ disk \in AllSettings /\ draft \in AllSettings
  /\ acked \in AllSettings /\ cfg \in AllSettings
  /\ next \in {"later", "due"}
  /\ txn \in {"free", "user", "saved", "loop"}
  /\ wake \in BOOLEAN /\ stop \in BOOLEAN

RunIsTyped ==
  /\ pc \in Labels /\ run \in RunType
  /\ pc \in {"apply", "watch"} => run.stage \in DOMAIN Stages

EngineType ==
  /\ eng \in EngType /\ stopped \in BOOLEAN /\ last \in OutcomeType
  /\ rows \in [Accounts -> {NoRow} \union RowType]

TypeInv == ConfType /\ RunIsTyped /\ EngineType

-----------------------------------------------------------------------------
(* Types                                                                   *)

(* A stage is a class and what is done about it. *)
LEMMA StageType ==
  ASSUME NEW i \in DOMAIN Stages
  PROVE  /\ Stages[i] \in [class : Classes, kind : {"disable", "choice", "enable"}]
         /\ i \in 1 .. Len(Stages) /\ Len(Stages) \in Nat
<1> DEFINE S == [class : Classes, kind : {"disable", "choice", "enable"}]
<1>1. Stages \in Seq(S)
  BY ScheduleAssumption
<1> HIDE DEF S
<1>2. Stages[i] \in S /\ i \in 1 .. Len(Stages) /\ Len(Stages) \in Nat
  BY <1>1
<1> QED
  BY <1>2 DEF S

(* What a stage asks for. *)
LEMMA ActionType ==
  ASSUME run.stage \in DOMAIN Stages
  PROVE  Action \in {"delete", "disable", "enable"}
BY StageType DEF Action

(* A new run, no job and no outcome are what their types say. *)
LEMMA NewTypes ==
  /\ \A s \in Statuses : NewRun(s) \in RunType
  /\ NoJob \in EngType /\ NoOutcome \in OutcomeType
<1>1. 0 \in 0 .. Len(Stages) + 1
  BY ScheduleAssumption
<1> QED
  BY <1>1 DEF NewRun, NoJob, NoOutcome, RunType, EngType, OutcomeType

(* Rows that grow old stay rows. *)
LEMMA OlderType ==
  ASSUME NEW f \in [Accounts -> {NoRow} \union RowType]
  PROVE  Older(f) \in [Accounts -> {NoRow} \union RowType]
BY DEF Older, RowType

(* The initial types. *)
LEMMA TypeInit == Init => TypeInv
<1> SUFFICES ASSUME Init PROVE TypeInv
  OBVIOUS
<1>1. ConfType
  <2>1. mem \in AllSettings /\ disk = mem /\ draft = mem /\ acked = mem /\ cfg = mem
    <3>1. mem \in Settings /\ disk = mem /\ draft = mem /\ acked = mem /\ cfg = mem
      BY DEF Init
    <3> QED
      BY <3>1 DEF AllSettings
  <2>2. next \in {"later", "due"} /\ txn \in {"free", "user", "saved", "loop"}
    BY DEF Init
  <2>3. wake \in BOOLEAN /\ stop \in BOOLEAN
    BY Zenon DEF Init
  <2> QED
    BY <2>1, <2>2, <2>3 DEF ConfType
<1>2. RunIsTyped
  BY NewTypes DEF Init, RunIsTyped, Labels, Statuses
<1>3. EngineType
  <2>1. rows \in [Accounts -> {NoRow} \union [class : Classes, disabled : BOOLEAN, from : {"older"}]]
    BY DEF Init
  <2>2. rows \in [Accounts -> {NoRow} \union RowType]
    BY <2>1 DEF RowType
  <2>3. stopped \in BOOLEAN
    BY Zenon DEF Init
  <2> QED
    BY <2>2, <2>3, NewTypes DEF Init, EngineType
<1> QED
  BY <1>1, <1>2, <1>3 DEF TypeInv

(* The settings keep their type. *)
LEMMA ConfStep == ASSUME TypeInv, [Next]_vars PROVE ConfType'
<1> USE DEF TypeInv, ConfType, AllSettings, confVars
<1>1. ASSUME NEW s \in Updates, UserReads(s) PROVE ConfType'
  BY <1>1 DEF UserReads
<1>2. CASE UserGoesOn
  BY <1>2 DEF UserGoesOn, UserSaves, UserFails, UserCommits
<1>3. CASE WriteBackReads \/ WriteBackCommits \/ Elapse
  BY <1>3 DEF WriteBackReads, WriteBackCommits, Elapse
<1>4. CASE Snapshot \/ Woken
  BY <1>4 DEF Snapshot, Woken, LoopStep
<1>5. CASE StopPlugin
  BY <1>5 DEF StopPlugin
<1>6. CASE Restart
  BY <1>6 DEF Restart
<1>7. ASSUME UNCHANGED <<confVars, cfg, wake, stop>> PROVE ConfType'
  BY <1>7
<1>8. CASE TimerFires \/ StartScheduled \/ Poll \/ Outcome \/ ChooseTargets
  <2>1. UNCHANGED <<confVars, cfg, wake, stop>>
    BY <1>8 DEF TimerFires, StartScheduled, Poll, Outcome, ChooseTargets, Reports, LoopStep
  <2> QED
    BY <1>7, <2>1
<1>9. CASE ApplyStage \/ WatchApply \/ Complete \/ LoopEnds \/ RunGivesUp
  <2>1. UNCHANGED <<confVars, cfg, wake, stop>>
    BY <1>9 DEF ApplyStage, WatchApply, Complete, LoopEnds, RunGivesUp, Reports, LoopStep
  <2> QED
    BY <1>7, <2>1
<1>10. CASE Engine \/ StopJobs
  <2>1. UNCHANGED <<confVars, cfg, wake, stop>>
    BY <1>10 DEF Engine, StopJobs, ListFails, RunFinishes, ApplyFinishes, Plan, Applied,
                 Probed, EngineStep
  <2> QED
    BY <1>7, <2>1
<1>11. ASSUME NEW full, NEW ts, NEW k, OtherRun(full) \/ OtherApply(ts, k) PROVE ConfType'
  <2>1. UNCHANGED <<confVars, cfg, wake, stop>>
    BY <1>11 DEF OtherRun, OtherApply, EngineStep
  <2> QED
    BY <1>7, <2>1
<1>12. CASE UNCHANGED vars
  BY <1>7, <1>12 DEF vars
<1> QED
  BY <1>1, <1>2, <1>3, <1>4, <1>5, <1>6, <1>8, <1>9, <1>10, <1>11, <1>12
     DEF Next, Loop, Users

(* What the steps of a run do to its locals keeps them typed. *)
LEMMA RunUpdates ==
  ASSUME NEW r \in RunType
  PROVE  /\ \A s \in Statuses : [r EXCEPT !.report = s] \in RunType
         /\ r.stage \in DOMAIN Stages => NextStage(r) \in RunType
         /\ \A ts \in SUBSET Accounts :
              [r EXCEPT !.matched = TRUE, !.targets = ts] \in RunType
         /\ \A ts \in SUBSET Accounts : \A x \in BOOLEAN :
              [r EXCEPT !.stage = 1, !.scope = ts, !.password = x] \in RunType
<1>1. Len(Stages) \in Nat /\ 1 \in 0 .. Len(Stages) + 1
  BY ScheduleAssumption
<1>2. r.stage \in DOMAIN Stages => r.stage + 1 \in 0 .. Len(Stages) + 1
  BY <1>1, StageType DEF RunType
<1> QED
  BY <1>1, <1>2 DEF RunType, NextStage

(* What it notes of itself changes neither its stage nor its targets. *)
LEMMA NoteUpdates ==
  ASSUME NEW r \in RunType, NEW x \in BOOLEAN,
         NEW q \in {[r EXCEPT !.failed = x], [r EXCEPT !.errors = x], [r EXCEPT !.lost = x]}
  PROVE  q \in RunType /\ q.stage = r.stage /\ q.scope = r.scope /\ q.targets = r.targets
BY DEF RunType

(* A stage acts inside the scope of the run. *)
LEMMA TargetsInScope ==
  ASSUME NEW ts \in TargetSets
  PROVE  ts \subseteq run.scope
BY DEF TargetSets, Matching

(* What a watched apply counted. *)
LEMMA CountedType ==
  ASSUME NEW r \in Counted, run \in RunType
  PROVE  /\ r \in RunType /\ r.stage = run.stage
         /\ r.scope = run.scope /\ r.targets = run.targets
<1>1. PICK x \in BOOLEAN : r = [run EXCEPT !.failed = x]
  BY Zenon DEF Counted
<1> QED
  BY <1>1, NoteUpdates

(* The loop and its run keep their types. *)
LEMMA RunStep == ASSUME TypeInv, [Next]_vars PROVE RunIsTyped'
<1> USE DEF TypeInv, RunIsTyped
<1>1. ASSUME UNCHANGED <<pc, run>> PROVE RunIsTyped'
  BY <1>1
<1>2. ASSUME NEW s \in Updates, UserReads(s) PROVE RunIsTyped'
  BY <1>1, <1>2 DEF UserReads
<1>3. CASE UserGoesOn \/ Elapse \/ StopPlugin
  BY <1>1, <1>3 DEF UserGoesOn, UserSaves, UserFails, UserCommits, Elapse, StopPlugin
<1>4. CASE WriteBackReads
  BY <1>4 DEF WriteBackReads, Labels
<1>5. CASE WriteBackCommits
  <2>1. run' = run \/ run' = NewRun("")
    BY <1>5 DEF WriteBackCommits
  <2>2. pc' \in {"start", "snap"}
    BY <1>5 DEF WriteBackCommits
  <2> QED
    BY <2>1, <2>2, NewTypes DEF Labels, Statuses
<1>6. CASE Snapshot
  <2>1. run' = run \/ run' = NewRun("running")
    BY <1>6 DEF Snapshot
  <2>2. pc' \in {"off", "timer", "report"}
    BY <1>6 DEF Snapshot, LoopStep
  <2> QED
    BY <2>1, <2>2, NewTypes DEF Labels, Statuses
<1>7. CASE Woken \/ TimerFires \/ LoopEnds
  <2>1. run' = run \/ run' = NewRun("running")
    BY <1>7 DEF Woken, TimerFires, LoopEnds
  <2>2. pc' \in {"snap", "done", "report"}
    BY <1>7 DEF Woken, TimerFires, LoopEnds, LoopStep
  <2> QED
    BY <2>1, <2>2, NewTypes DEF Labels, Statuses
<1>8. ASSUME NEW from, NEW s \in Statuses, Reports(from, s) PROVE RunIsTyped'
  BY <1>8, RunUpdates DEF Reports, LoopStep, Labels
<1>9. CASE RunGivesUp \/ Complete
  BY <1>8, <1>9 DEF RunGivesUp, Complete, Statuses
<1>10. CASE StartScheduled \/ Poll
  <2>1. \/ \E from : \E s \in Statuses : Reports(from, s)
        \/ pc' \in {"poll", "outcome"} /\ run' = run
    BY <1>10 DEF StartScheduled, Poll, LoopStep, Statuses
  <2> QED
    BY <1>8, <2>1 DEF Labels
<1>11. CASE Outcome
  <2>1. CASE ~ScopeKnown
    BY <1>8, <1>11, <2>1 DEF Outcome, Statuses
  <2>2. CASE ScopeKnown
    <3>1. PICK known \in BOOLEAN :
            run' = [run EXCEPT !.stage = 1, !.scope = Scope, !.password = known]
      BY <1>11, <2>2 DEF Outcome
    <3>2. pc' = "stage"
      BY <1>11, <2>2 DEF Outcome, LoopStep
    <3>3. Scope \in SUBSET Accounts
      BY DEF Scope, EngineType, OutcomeType
    <3> QED
      BY <3>1, <3>2, <3>3, RunUpdates DEF Labels
  <2> QED
    BY <2>1, <2>2
<1>12. CASE ChooseTargets
  <2>1. PICK ts \in TargetSets :
          IF ts = {} \/ ~run.password
            THEN /\ LoopStep("stage", "stage")
                 /\ run' = NextStage([run EXCEPT !.matched = @ \/ ts # {},
                                                 !.failed = @ \/ ts # {},
                                                 !.errors = @ \/ ts # {}])
            ELSE /\ LoopStep("stage", "apply")
                 /\ run' = [run EXCEPT !.matched = TRUE, !.targets = ts]
    BY <1>12 DEF ChooseTargets
  <2>2. ts \subseteq Accounts
    BY TargetsInScope DEF RunType
  <2>3. run.stage \in DOMAIN Stages
    BY <1>12 DEF ChooseTargets
  <2>4. CASE ts = {} \/ ~run.password
    <3>1. run' = NextStage([run EXCEPT !.matched = run.matched \/ ts # {},
                                       !.failed = run.failed \/ ts # {},
                                       !.errors = run.errors \/ ts # {}])
      BY <2>1, <2>4, Zenon
    <3>2. \E x, y, z \in BOOLEAN :
            run' = NextStage([run EXCEPT !.matched = x, !.failed = y, !.errors = z])
      BY <3>1, Zenon
    <3>3. PICK x \in BOOLEAN, y \in BOOLEAN, z \in BOOLEAN :
            run' = NextStage([run EXCEPT !.matched = x, !.failed = y, !.errors = z])
      BY <3>2
    <3> DEFINE r == [run EXCEPT !.matched = x, !.failed = y, !.errors = z]
    <3>4. r \in RunType /\ r.stage = run.stage
      BY DEF RunType
    <3> HIDE DEF r
    <3>5. NextStage(r) \in RunType
      BY <2>3, <3>4, RunUpdates
    <3>6. pc' = "stage" /\ run' = NextStage(r)
      BY <2>1, <2>4, <3>3 DEF LoopStep, r
    <3> QED
      BY <3>5, <3>6 DEF Labels
  <2>5. CASE ~(ts = {} \/ ~run.password)
    <3>1. pc' = "apply" /\ run' = [run EXCEPT !.matched = TRUE, !.targets = ts]
      BY <2>1, <2>5 DEF LoopStep
    <3>2. run'.stage = run.stage
      BY <3>1 DEF RunType
    <3> QED
      BY <2>2, <2>3, <3>1, <3>2, RunUpdates DEF Labels
  <2> QED
    BY <2>4, <2>5
<1>13. CASE ApplyStage
  <2>1. pc = "apply"
    BY <1>13 DEF ApplyStage, Reports, LoopStep
  <2>2. \/ Reports("apply", "stopped")
        \/ pc' = "stage" /\ run' = NextStage([run EXCEPT !.failed = TRUE, !.errors = TRUE])
        \/ pc' = "watch" /\ run' = run
    BY <1>13 DEF ApplyStage, LoopStep
  <2> DEFINE r == [run EXCEPT !.failed = TRUE, !.errors = TRUE]
  <2>3. r \in RunType /\ r.stage = run.stage
    BY DEF RunType
  <2> HIDE DEF r
  <2>4. NextStage(r) \in RunType
    BY <2>1, <2>3, RunUpdates
  <2>5. CASE pc' = "stage" /\ run' = NextStage(r)
    BY <2>4, <2>5 DEF Labels
  <2>6. CASE pc' = "watch" /\ run' = run
    BY <2>1, <2>6 DEF Labels
  <2> QED
    BY <1>8, <2>2, <2>5, <2>6 DEF r, Statuses
<1>14. CASE WatchApply
  <2>1. pc = "watch"
    BY <1>14 DEF WatchApply, LoopStep
  <2>2. PICK r \in Counted :
          \/ pc' = "report" /\ run' = [r EXCEPT !.report = "stopped"]
          \/ /\ pc' = "stage"
             /\ run' = NextStage([r EXCEPT !.errors = r.errors \/ eng.failed])
    BY <1>14, Zenon DEF WatchApply, LoopStep
  <2>3. r \in RunType /\ r.stage \in DOMAIN Stages
    BY <2>1, CountedType
  <2>4. CASE pc' = "report" /\ run' = [r EXCEPT !.report = "stopped"]
    BY <2>3, <2>4, RunUpdates DEF Labels, Statuses
  <2>5. CASE /\ pc' = "stage"
             /\ run' = NextStage([r EXCEPT !.errors = r.errors \/ eng.failed])
    <3>1. PICK x \in BOOLEAN : run' = NextStage([r EXCEPT !.errors = x])
      BY <2>5, Zenon
    <3> DEFINE q == [r EXCEPT !.errors = x]
    <3>2. q \in RunType /\ q.stage = r.stage
      BY <2>3, NoteUpdates
    <3> HIDE DEF q
    <3>3. NextStage(q) \in RunType
      BY <2>3, <3>2, RunUpdates
    <3> QED
      BY <2>5, <3>1, <3>3 DEF Labels, q
  <2> QED
    BY <2>2, <2>4, <2>5
<1>15. ASSUME NEW full, NEW ts, NEW k, OtherRun(full) \/ OtherApply(ts, k) PROVE RunIsTyped'
  <2>1. Forget /\ pc' = pc
    BY <1>15 DEF OtherRun, OtherApply, EngineStep
  <2>2. PICK x \in BOOLEAN : run' = [run EXCEPT !.lost = x]
    BY <2>1, Zenon DEF Forget
  <2>3. run' \in RunType /\ run'.stage = run.stage
    BY <2>2, NoteUpdates
  <2> QED
    BY <2>1, <2>3
<1>16. CASE Engine \/ StopJobs
  <2>1. UNCHANGED <<pc, run>>
    BY <1>16 DEF Engine, StopJobs, ListFails, RunFinishes, ApplyFinishes, Plan, Applied,
                 Probed, EngineStep
  <2> QED
    BY <1>1, <2>1
<1>17. CASE Restart
  BY <1>17, NewTypes DEF Restart, Labels, Statuses
<1>18. CASE UNCHANGED vars
  BY <1>1, <1>18 DEF vars
<1> QED
  BY <1>2, <1>3, <1>4, <1>5, <1>6, <1>7, <1>9, <1>10, <1>11, <1>12, <1>13, <1>14,
     <1>15, <1>16, <1>17, <1>18 DEF Next, Loop, Users

(* Of which inspection a probe that answers now is. *)
LEMMA OriginType == Origin \in {"older", "own", "newer"}
BY DEF Origin

(* What an apply does to a row leaves a row or none. *)
LEMMA EffectType ==
  ASSUME EngineType, NEW a \in Accounts, rows[a] # NoRow
  PROVE  /\ Effect(a) \in {NoRow} \union RowType
         /\ Effect(a) # NoRow => Effect(a).from = rows[a].from
BY DEF Effect, EngineType, RowType

(* What the steps of the engine do to its job keeps it typed. *)
LEMMA EngUpdates ==
  ASSUME NEW e \in EngType, NEW x \in BOOLEAN
  PROVE  /\ [NoJob EXCEPT !.own = TRUE, !.failed = x] \in EngType
         /\ [e EXCEPT !.drain = TRUE] \in EngType
         /\ \A y \in BOOLEAN :
              [NoJob EXCEPT !.job = "run", !.own = x, !.full = y] \in EngType
         /\ \A ts \in SUBSET Accounts :
              /\ [e EXCEPT !.todo = ts] \in EngType
              /\ [e EXCEPT !.todo = ts, !.failed = x] \in EngType
              /\ [e EXCEPT !.listed = TRUE, !.plan = ts, !.todo = ts] \in EngType
              /\ \A k \in {"disable", "delete", "enable"} :
                   /\ [NoJob EXCEPT !.job = "apply", !.kind = k, !.todo = ts] \in EngType
                   /\ [NoJob EXCEPT !.job = "apply", !.own = TRUE, !.kind = k, !.todo = ts]
                        \in EngType
BY DEF EngType, NoJob

(* The outcome of a run is typed. *)
LEMMA PublishType ==
  ASSUME eng \in EngType, NEW ok \in BOOLEAN, Publish(ok)
  PROVE  last' \in OutcomeType
<1>1. CASE ~eng.own
  BY <1>1, NewTypes DEF Publish
<1>2. CASE eng.own
  <2>1. (IF eng.full THEN {} ELSE eng.plan) \in SUBSET Accounts
    BY DEF EngType
  <2>2. eng.full \in BOOLEAN
    BY DEF EngType
  <2>3. last' = [own |-> TRUE, ok |-> ok, full |-> eng.full,
                 probed |-> IF eng.full THEN {} ELSE eng.plan]
    BY <1>2 DEF Publish
  <2> DEFINE probed == IF eng.full THEN {} ELSE eng.plan
  <2> HIDE DEF probed
  <2> QED
    BY <2>1, <2>2, <2>3 DEF OutcomeType, probed
<1> QED
  BY <1>1, <1>2

(* The accounts an apply still has to do have rows. *)
TodoInv == eng.job = "apply" => \A a \in eng.todo : rows[a] # NoRow

(* The engine keeps its types. *)
LEMMA EngineTypeStep == ASSUME TypeInv, TodoInv, [Next]_vars PROVE EngineType'
<1> USE DEF TypeInv, EngineType, engVars
<1>1. ASSUME UNCHANGED <<eng, stopped, last, rows>> PROVE EngineType'
  BY <1>1
<1>2. ASSUME NEW s \in Updates, UserReads(s) PROVE EngineType'
  BY <1>1, <1>2 DEF UserReads
<1>3. CASE UserGoesOn \/ Elapse \/ StopPlugin \/ WriteBackReads
  BY <1>1, <1>3 DEF UserGoesOn, UserSaves, UserFails, UserCommits, Elapse, StopPlugin,
                    WriteBackReads
<1>4. CASE WriteBackCommits
  <2>1. rows' = rows \/ rows' = Older(rows)
    BY <1>4 DEF WriteBackCommits
  <2>2. last' = last \/ last' = NoOutcome
    BY <1>4 DEF WriteBackCommits
  <2>3. UNCHANGED <<eng, stopped>>
    BY <1>4 DEF WriteBackCommits
  <2> QED
    BY <2>1, <2>2, <2>3, NewTypes, OlderType
<1>5. CASE Snapshot \/ Woken \/ TimerFires \/ LoopEnds \/ RunGivesUp
  BY <1>1, <1>5 DEF Snapshot, Woken, TimerFires, LoopEnds, RunGivesUp, Reports
<1>6. CASE Poll \/ Outcome \/ ChooseTargets \/ Complete
  BY <1>1, <1>6 DEF Poll, Outcome, ChooseTargets, Complete, Reports
<1>7. ASSUME NEW own \in BOOLEAN, NEW full \in BOOLEAN, StartRun(own, full)
      PROVE  eng' \in EngType /\ stopped' \in BOOLEAN
  <2>1. stopped' \in BOOLEAN
    BY <1>7, Zenon DEF StartRun
  <2>2. eng' \in EngType
    BY <1>7, EngUpdates DEF StartRun
  <2> QED
    BY <2>1, <2>2
<1>8. CASE StartScheduled
  <2>1. CASE Reports("start", "skipped")
    BY <1>1, <2>1 DEF Reports
  <2>2. CASE StartRun(TRUE, ~cfg.sample) /\ last' = NoOutcome /\ rows' = Older(rows)
    <3>1. (~cfg.sample) \in BOOLEAN
      BY Zenon
    <3>2. eng' \in EngType /\ stopped' \in BOOLEAN
      BY <2>2, <3>1, <1>7, Zenon
    <3> QED
      BY <2>2, <3>2, NewTypes, OlderType
  <2> QED
    BY <1>8, <2>1, <2>2 DEF StartScheduled
<1>9. CASE ApplyStage
  <2>1. CASE UNCHANGED <<eng, stopped, last, rows>>
    BY <1>1, <2>1
  <2>2. CASE eng' # eng
    <3>1. /\ pc = "apply" /\ UNCHANGED <<stopped, last, rows>>
          /\ eng' = [NoJob EXCEPT !.job = "apply", !.own = TRUE, !.kind = Action,
                                  !.todo = Seen(run.targets)]
      BY <1>9, <2>2 DEF ApplyStage, LoopStep, Reports
    <3>2. Seen(run.targets) \subseteq Accounts
      BY DEF Seen, RunIsTyped, RunType
    <3>3. Action \in {"disable", "delete", "enable"}
      BY <3>1, ActionType DEF RunIsTyped
    <3> QED
      BY <3>1, <3>2, <3>3, EngUpdates
  <2> QED
    BY <1>9, <2>1, <2>2 DEF ApplyStage, Reports
<1>10. CASE WatchApply
  BY <1>10, NewTypes DEF WatchApply
<1>11. ASSUME NEW full \in BOOLEAN, OtherRun(full) PROVE EngineType'
  <2>1. StartRun(FALSE, full) /\ UNCHANGED <<last, rows>>
    BY <1>11 DEF OtherRun
  <2>2. FALSE \in BOOLEAN
    BY Zenon
  <2>3. eng' \in EngType /\ stopped' \in BOOLEAN
    BY <1>7, <2>1, <2>2, Zenon
  <2> QED
    BY <2>1, <2>3
<1>12. ASSUME NEW ts \in SUBSET Accounts, NEW k \in {"disable", "delete", "enable"},
              OtherApply(ts, k)
       PROVE  EngineType'
  <2>1. Seen(ts) \in SUBSET Accounts
    BY DEF Seen
  <2> QED
    BY <1>12, <2>1, EngUpdates DEF OtherApply
<1>13. CASE ListFails \/ RunFinishes
  <2>1. PICK ok \in BOOLEAN : Publish(ok)
    BY <1>13, Zenon DEF ListFails, RunFinishes
  <2>2. eng' = NoJob /\ UNCHANGED <<stopped, rows>>
    BY <1>13 DEF ListFails, RunFinishes
  <2> QED
    BY <2>1, <2>2, PublishType, NewTypes
<1>14. CASE ApplyFinishes
  <2>1. CASE eng' = NoJob
    BY <1>14, <2>1, NewTypes DEF ApplyFinishes
  <2>2. CASE eng' = [NoJob EXCEPT !.own = TRUE, !.failed = eng.failed]
    <3>1. eng.failed \in BOOLEAN
      BY DEF EngType
    <3>2. [NoJob EXCEPT !.own = TRUE, !.failed = eng.failed] \in EngType
      BY <3>1, EngUpdates, Zenon
    <3>3. UNCHANGED <<stopped, last, rows>>
      BY <1>14 DEF ApplyFinishes
    <3> QED
      BY <2>2, <3>2, <3>3
  <2> QED
    BY <1>14, <2>1, <2>2 DEF ApplyFinishes
<1>15. ASSUME NEW ts \in SUBSET Accounts, Plan(ts) PROVE EngineType'
  <2>1. rows' \in [Accounts -> {NoRow} \union RowType]
    BY <1>15 DEF Plan
  <2>2. TRUE \in BOOLEAN
    BY Zenon
  <2> QED
    BY <1>15, <2>1, <2>2, EngUpdates DEF Plan
<1>16. ASSUME NEW a \in Accounts, NEW c \in Classes, NEW off \in BOOLEAN, Probed(a, c, off)
       PROVE  EngineType'
  <2>1. Row(c, off, Origin) \in RowType
    BY OriginType DEF Row, RowType
  <2>2. rows' \in [Accounts -> {NoRow} \union RowType]
    BY <1>16, <2>1 DEF Probed
  <2>3. eng.todo \ {a} \in SUBSET Accounts
    BY DEF EngType
  <2>4. eng' = [eng EXCEPT !.todo = eng.todo \ {a}]
    BY <1>16 DEF Probed
  <2>5. eng' \in EngType
    BY <2>3, <2>4, EngUpdates
  <2> QED
    BY <1>16, <2>2, <2>5 DEF Probed
<1>17. ASSUME NEW a \in Accounts, Applied(a) PROVE EngineType'
  <2>1. rows' = rows \/ rows' = [rows EXCEPT ![a] = Effect(a)]
    BY <1>17 DEF Applied
  <2>2. Effect(a) \in {NoRow} \union RowType
    BY <1>17, EffectType DEF Applied, TodoInv
  <2>3. PICK x \in BOOLEAN :
          \/ eng' = [eng EXCEPT !.todo = eng.todo \ {a}]
          \/ eng' = [eng EXCEPT !.todo = eng.todo \ {a}, !.failed = x]
    <3>1. \/ eng' = [eng EXCEPT !.todo = eng.todo \ {a}]
          \/ eng' = [eng EXCEPT !.todo = eng.todo \ {a}, !.failed = eng.failed \/ ~eng.drain]
      BY <1>17 DEF Applied
    <3>2. (eng.failed \/ ~eng.drain) \in BOOLEAN
      BY Zenon
    <3> QED
      BY <3>1, <3>2, Zenon
  <2>4. eng.todo \ {a} \in SUBSET Accounts
    BY DEF EngType
  <2>5. eng' \in EngType
    <3> DEFINE ts == eng.todo \ {a}
    <3>1. [eng EXCEPT !.todo = ts] \in EngType
      BY <2>4, EngUpdates
    <3>2. [eng EXCEPT !.todo = ts, !.failed = x] \in EngType
      BY <2>4, EngUpdates
    <3> QED
      BY <2>3, <3>1, <3>2
  <2> QED
    BY <1>17, <2>1, <2>2, <2>5 DEF Applied
<1>18. CASE StopJobs
  <2>1. rows' \in [Accounts -> {NoRow} \union RowType]
    <3>1. Row("stopped", FALSE, Origin) \in RowType
      BY OriginType DEF Row, RowType
    <3> HIDE DEF Row
    <3> QED
      BY <1>18, <3>1 DEF StopJobs
  <2>2. eng' \in EngType
    <3>1. eng' = NoJob \/ eng' = [eng EXCEPT !.drain = TRUE] \/ eng' = eng
      BY <1>18 DEF StopJobs
    <3> QED
      BY <3>1, NewTypes, EngUpdates
  <2>3. stopped' \in BOOLEAN
    BY <1>18, Zenon DEF StopJobs
  <2> QED
    BY <1>18, <2>1, <2>2, <2>3 DEF StopJobs
<1>19. CASE Restart
  <2>1. stopped' \in BOOLEAN
    BY <1>19, Zenon DEF Restart
  <2> QED
    BY <1>19, <2>1, NewTypes, OlderType DEF Restart
<1>20. CASE UNCHANGED vars
  BY <1>1, <1>20 DEF vars
<1> QED
  BY <1>2, <1>3, <1>4, <1>5, <1>6, <1>8, <1>9, <1>10, <1>11, <1>12, <1>13, <1>14,
     <1>15, <1>16, <1>17, <1>18, <1>19, <1>20 DEF Next, Loop, Users, Engine

-----------------------------------------------------------------------------
(* Settings                                                                *)

(* Memory holds what was acknowledged, the file too unless an update is    *)
(* just between its save and its commit, and a write-back brings what it   *)
(* read, because nobody else has the transaction meanwhile.                *)
SettingsInv ==
  /\ mem = acked
  /\ txn # "saved" => disk = acked
  /\ txn = "saved" => disk = draft
  /\ txn = "loop" => pc = "saving" /\ draft = mem
  /\ pc = "saving" => txn = "loop"

-----------------------------------------------------------------------------
(* Rows                                                                    *)

Fresh(a) == rows[a] = NoRow \/ rows[a].from # "older"

(* What a run listed and no longer has to do is fresh; so is what its      *)
(* outcome covers, and the scope of the disposal.                          *)
FreshInv ==
  /\ pc \in {"poll", "outcome"} /\ Following /\ eng.listed =>
       \A a \in Accounts : eng.full \/ a \in eng.plan \ eng.todo => Fresh(a)
  /\ pc \in {"poll", "outcome"} /\ last.own /\ last.ok => \A a \in Scope : Fresh(a)
  /\ pc \in {"stage", "apply", "watch"} => \A a \in run.scope : Fresh(a)
  /\ pc = "apply" => run.targets \subseteq run.scope

(* Every step keeps the settings. *)
LEMMA SettingsStep == ASSUME SettingsInv, [Next]_vars PROVE SettingsInv'
<1> USE DEF SettingsInv, confVars
<1>1. ASSUME NEW s \in Updates, UserReads(s) PROVE SettingsInv'
  BY <1>1 DEF UserReads
<1>2. CASE UserGoesOn
  BY <1>2 DEF UserGoesOn, UserSaves, UserFails, UserCommits
<1>3. CASE WriteBackReads
  BY <1>3 DEF WriteBackReads
<1>4. CASE WriteBackCommits
  <2>1. pc' # "saving" /\ txn' = "free" /\ mem' = draft /\ disk' \in {disk, draft}
    BY <1>4 DEF WriteBackCommits
  <2>2. pc = "saving" /\ acked' = acked
    BY <1>4 DEF WriteBackCommits
  <2> QED
    BY <2>1, <2>2
<1>5. ASSUME UNCHANGED confVars, pc # "saving", pc' # "saving" PROVE SettingsInv'
  BY <1>5
<1>6. CASE Snapshot \/ Woken \/ TimerFires \/ LoopEnds
  BY <1>5, <1>6 DEF Snapshot, Woken, TimerFires, LoopEnds, LoopStep
<1>7. CASE RunGivesUp \/ StartScheduled \/ Poll \/ Outcome
  BY <1>5, <1>7 DEF RunGivesUp, StartScheduled, Poll, Outcome, Reports, LoopStep
<1>8. CASE ChooseTargets \/ ApplyStage \/ WatchApply \/ Complete
  BY <1>5, <1>8 DEF ChooseTargets, ApplyStage, WatchApply, Complete, Reports, LoopStep
<1>9. ASSUME UNCHANGED <<mem, disk, txn, draft, acked, pc>> PROVE SettingsInv'
  BY <1>9
<1>10. CASE Engine \/ StopJobs
  <2>1. UNCHANGED <<mem, disk, txn, draft, acked, pc>>
    BY <1>10 DEF Engine, StopJobs, ListFails, RunFinishes, ApplyFinishes, Plan, Applied,
                 Probed, EngineStep
  <2> QED
    BY <1>9, <2>1
<1>11. ASSUME NEW full, NEW ts, NEW k, OtherRun(full) \/ OtherApply(ts, k)
       PROVE  SettingsInv'
  BY <1>9, <1>11 DEF OtherRun, OtherApply, EngineStep
<1>12. CASE StopPlugin \/ Elapse
  BY <1>9, <1>12 DEF StopPlugin, Elapse
<1>13. CASE Restart
  BY <1>13 DEF Restart
<1>14. CASE UNCHANGED vars
  BY <1>9, <1>14 DEF vars
<1> QED
  BY <1>1, <1>2, <1>3, <1>4, <1>6, <1>7, <1>8, <1>10, <1>11, <1>12, <1>13, <1>14
     DEF Next, Loop, Users

-----------------------------------------------------------------------------
(* The job of the engine                                                   *)

(* No row is like none. *)
LEMMA RowsDiffer == NoRow \notin RowType
BY ScheduleAssumption DEF RowType

(* Rows that grow old do not vanish, and none comes. *)
LEMMA OlderRows ==
  ASSUME EngineType, NEW a \in Accounts
  PROVE  Older(rows)[a] = NoRow <=> rows[a] = NoRow
BY RowsDiffer DEF Older, EngineType, RowType

(* Every step leaves the rows an apply still has to do. *)
LEMMA TodoStep == ASSUME TypeInv, TodoInv, [Next]_vars PROVE TodoInv'
<1> USE DEF TodoInv
<1>0. eng \in EngType /\ EngineType
  BY DEF TypeInv, EngineType
<1>1. ASSUME eng' = eng, rows' \in {rows, Older(rows)} PROVE TodoInv'
  BY <1>0, <1>1, OlderRows DEF EngType
<1>2. ASSUME eng'.job # "apply" PROVE TodoInv'
  BY <1>2
<1>3. ASSUME NEW s \in Updates, UserReads(s) PROVE TodoInv'
  BY <1>1, <1>3 DEF UserReads, engVars
<1>4. CASE UserGoesOn \/ Elapse \/ StopPlugin \/ WriteBackReads
  BY <1>1, <1>4 DEF UserGoesOn, UserSaves, UserFails, UserCommits, Elapse, StopPlugin,
                    WriteBackReads, engVars
<1>5. CASE WriteBackCommits
  BY <1>1, <1>5 DEF WriteBackCommits
<1>6. CASE Snapshot \/ Woken \/ TimerFires \/ LoopEnds \/ RunGivesUp
  BY <1>1, <1>6 DEF Snapshot, Woken, TimerFires, LoopEnds, RunGivesUp, Reports, engVars
<1>7. CASE Poll \/ Outcome \/ ChooseTargets \/ Complete
  BY <1>1, <1>7 DEF Poll, Outcome, ChooseTargets, Complete, Reports, engVars
<1>8. NoJob.job = "idle"
  BY DEF NoJob
<1>9. ASSUME NEW own, NEW full, StartRun(own, full) PROVE TodoInv'
  BY <1>2, <1>9 DEF StartRun, NoJob
<1>10. CASE StartScheduled
  BY <1>1, <1>9, <1>10 DEF StartScheduled, Reports, engVars
<1>11. ASSUME NEW ts, rows' = rows, eng'.todo = Seen(ts) PROVE TodoInv'
  BY <1>11 DEF Seen
<1>12. CASE ApplyStage
  <2>1. CASE UNCHANGED <<eng, rows>>
    BY <1>1, <2>1
  <2>2. CASE ~UNCHANGED <<eng, rows>>
    <3>1. /\ rows' = rows
          /\ eng' = [NoJob EXCEPT !.job = "apply", !.own = TRUE, !.kind = Action,
                                  !.todo = Seen(run.targets)]
      BY <1>12, <2>2 DEF ApplyStage, Reports, engVars
    <3>2. eng'.todo = Seen(run.targets)
      BY <3>1 DEF NoJob
    <3> QED
      BY <1>11, <3>1, <3>2
  <2> QED
    BY <2>1, <2>2
<1>13. CASE WatchApply
  BY <1>2, <1>8, <1>13 DEF WatchApply
<1>14. ASSUME NEW full \in BOOLEAN, OtherRun(full) PROVE TodoInv'
  BY <1>9, <1>14 DEF OtherRun
<1>15. ASSUME NEW ts, NEW k, OtherApply(ts, k) PROVE TodoInv'
  <2>1. eng'.todo = Seen(ts) /\ rows' = rows
    BY <1>15 DEF OtherApply, NoJob
  <2> QED
    BY <1>11, <2>1
<1>16. CASE ListFails \/ RunFinishes
  BY <1>2, <1>8, <1>16 DEF ListFails, RunFinishes
<1>17. CASE ApplyFinishes
  <2>1. eng'.job = "idle"
    BY <1>17, <1>8 DEF ApplyFinishes, NoJob
  <2> QED
    BY <1>2, <2>1
<1>18. ASSUME NEW ts, Plan(ts) PROVE TodoInv'
  <2>1. eng'.job = "run"
    BY <1>0, <1>18 DEF Plan, Active, EngType
  <2> QED
    BY <1>2, <2>1
<1>19. ASSUME NEW a, NEW c, NEW off, Probed(a, c, off) PROVE TodoInv'
  <2>1. eng'.job = "run"
    BY <1>0, <1>19 DEF Probed, Active, EngType
  <2> QED
    BY <1>2, <2>1
<1>20. ASSUME NEW a \in Accounts, Applied(a) PROVE TodoInv'
  <2>1. eng'.todo = eng.todo \ {a} /\ eng.job = "apply"
    BY <1>0, <1>20 DEF Applied, EngType
  <2>2. \A b \in Accounts \ {a} : rows'[b] = rows[b]
    BY <1>0, <1>20 DEF Applied, EngineType
  <2> QED
    BY <1>0, <2>1, <2>2 DEF EngType
<1>21. CASE StopJobs
  <2>1. CASE eng.job = "run"
    BY <1>2, <1>8, <1>21, <2>1 DEF StopJobs
  <2>2. CASE eng.job = "apply"
    <3>1. eng'.todo = eng.todo
      BY <1>0, <1>21, <2>2 DEF StopJobs, EngType
    <3>2. \A a \in Accounts : rows'[a] = rows[a]
      BY <1>21, <2>2 DEF StopJobs
    <3> QED
      BY <1>0, <2>2, <3>1, <3>2 DEF EngType
  <2>3. CASE eng.job \notin {"run", "apply"}
    BY <1>2, <1>21, <2>3 DEF StopJobs
  <2> QED
    BY <2>1, <2>2, <2>3
<1>22. CASE Restart
  BY <1>2, <1>8, <1>22 DEF Restart
<1>23. CASE UNCHANGED vars
  BY <1>1, <1>23 DEF vars, engVars
<1> QED
  BY <1>3, <1>4, <1>5, <1>6, <1>7, <1>10, <1>12, <1>13, <1>14, <1>15, <1>16, <1>17,
     <1>18, <1>19, <1>20, <1>21, <1>22, <1>23 DEF Next, Loop, Users, Engine

-----------------------------------------------------------------------------
(* Old rows                                                                *)

(* The places where nobody has an old row counted as new. *)
Engaged == pc \notin {"snap", "off", "timer", "done"}

(* No step of the engine makes a row old while the loop follows a run. *)
LEMMA FreshRows ==
  ASSUME EngineType, TodoInv, Engaged, NEW a \in Accounts, Fresh(a),
         \/ rows' = rows
         \/ \E ts : Plan(ts)
         \/ \E b \in Accounts : Applied(b) \/ \E c, off : Probed(b, c, off)
         \/ StopJobs
  PROVE  Fresh(a)'
<1> USE DEF Fresh
<1>1. Origin # "older"
  BY DEF Origin, Engaged
<1>2. \A c, off : Row(c, off, Origin).from # "older"
  BY <1>1 DEF Row
<1> HIDE DEF Row
<1>3. CASE rows' = rows
  BY <1>3
<1>4. ASSUME NEW ts, Plan(ts) PROVE Fresh(a)'
  BY <1>4 DEF Plan
<1>5. ASSUME NEW b \in Accounts, Applied(b) PROVE Fresh(a)'
  <2>1. b \in eng.todo /\ rows[b] # NoRow
    BY <1>5 DEF Applied, TodoInv
  <2>2. rows' = rows \/ rows' = [rows EXCEPT ![b] = Effect(b)]
    BY <1>5 DEF Applied
  <2>3. Effect(b) # NoRow => Effect(b).from = rows[b].from
    BY <2>1, EffectType
  <2> QED
    BY <2>1, <2>2, <2>3 DEF EngineType
<1>6. ASSUME NEW b \in Accounts, NEW c, NEW off, Probed(b, c, off) PROVE Fresh(a)'
  BY <1>2, <1>6 DEF Probed, EngineType
<1>7. CASE StopJobs
  BY <1>2, <1>7 DEF StopJobs
<1> QED
  BY <1>3, <1>4, <1>5, <1>6, <1>7

(* Nothing of what is followed changes with a step that leaves the rows,   *)
(* the job, the outcome and the run alone and goes nowhere or on.          *)
LEMMA FreshKept ==
  ASSUME FreshInv, UNCHANGED <<eng, last, rows>>,
         run'.scope = run.scope,
         \/ pc' = pc /\ run'.targets = run.targets
         \/ pc' \notin {"poll", "outcome", "stage", "apply", "watch"}
         \/ pc = "poll" /\ pc' = "outcome"
         \/ pc \in {"stage", "apply", "watch"} /\ pc' \in {"stage", "watch"}
  PROVE  FreshInv'
BY DEF FreshInv, Fresh, Following, Scope

(* A step of the loop keeps the rows of its run fresh. *)
LEMMA FreshLoop ==
  ASSUME TypeInv, FreshInv, Loop \/ LoopEnds \/ RunGivesUp
  PROVE  FreshInv'
<1> USE DEF TypeInv, RunIsTyped
<1>1. ASSUME pc' \notin {"poll", "outcome", "stage", "apply", "watch"} PROVE FreshInv'
  BY <1>1 DEF FreshInv
<1>2. ASSUME NEW from, NEW s, Reports(from, s) PROVE FreshInv'
  BY <1>1, <1>2 DEF Reports, LoopStep
<1>3. CASE WriteBackReads \/ WriteBackCommits \/ LoopEnds
  BY <1>1, <1>3 DEF WriteBackReads, WriteBackCommits, LoopEnds, LoopStep
<1>4. CASE Snapshot \/ Woken \/ TimerFires
  BY <1>1, <1>4 DEF Snapshot, Woken, TimerFires, LoopStep
<1>5. CASE RunGivesUp \/ Complete
  BY <1>2, <1>5 DEF RunGivesUp, Complete
<1>6. CASE StartScheduled
  <2>1. CASE StartRun(TRUE, ~cfg.sample) /\ last' = NoOutcome /\ pc' = "poll"
    <3>1. ~eng'.listed
      BY <2>1 DEF StartRun, NoJob
    <3>2. ~last'.own
      BY <2>1 DEF NoOutcome
    <3> QED
      BY <2>1, <3>1, <3>2 DEF FreshInv
  <2> QED
    BY <1>2, <1>6, <2>1 DEF StartScheduled, LoopStep
<1>7. CASE Poll
  <2>1. CASE LoopStep("poll", "outcome") /\ UNCHANGED <<wake, cfg, run, engVars>>
    BY <2>1, FreshKept DEF LoopStep, engVars
  <2> QED
    BY <1>2, <1>7, <2>1 DEF Poll
<1>8. CASE Outcome
  <2>1. CASE ScopeKnown
    <3>1. /\ pc = "outcome" /\ pc' = "stage" /\ last.own /\ last.ok
          /\ UNCHANGED <<eng, last, rows>>
      BY <1>8, <2>1 DEF Outcome, LoopStep, ScopeKnown, engVars
    <3>2. PICK known \in BOOLEAN :
            run' = [run EXCEPT !.stage = 1, !.scope = Scope, !.password = known]
      BY <1>8, <2>1 DEF Outcome
    <3>3. run'.scope = Scope
      BY <3>2 DEF RunType
    <3>4. \A a \in run'.scope : Fresh(a)'
      BY <3>1, <3>3 DEF FreshInv, Fresh
    <3> QED
      BY <3>1, <3>4 DEF FreshInv
  <2> QED
    BY <1>2, <1>8, <2>1 DEF Outcome
<1>9. ASSUME NEW r \in RunType PROVE NextStage(r).scope = r.scope
  BY DEF NextStage, RunType
<1>10. CASE ChooseTargets
  <2>1. pc = "stage" /\ UNCHANGED <<eng, last, rows>>
    BY <1>10 DEF ChooseTargets, LoopStep, engVars
  <2>2. PICK ts \in TargetSets :
          \/ pc' = "stage" /\ run' = NextStage([run EXCEPT !.matched = run.matched \/ ts # {},
                                                           !.failed = run.failed \/ ts # {},
                                                           !.errors = run.errors \/ ts # {}])
          \/ pc' = "apply" /\ run' = [run EXCEPT !.matched = TRUE, !.targets = ts]
    BY <1>10, Zenon DEF ChooseTargets, LoopStep
  <2>3. CASE pc' = "stage"
    <3>1. PICK x \in BOOLEAN, y \in BOOLEAN, z \in BOOLEAN :
            run' = NextStage([run EXCEPT !.matched = x, !.failed = y, !.errors = z])
      <4>1. run' = NextStage([run EXCEPT !.matched = run.matched \/ ts # {},
                                         !.failed = run.failed \/ ts # {},
                                         !.errors = run.errors \/ ts # {}])
        BY <2>2, <2>3
      <4> QED
        BY <4>1, Zenon
    <3> DEFINE r == [run EXCEPT !.matched = x, !.failed = y, !.errors = z]
    <3>2. r \in RunType /\ r.scope = run.scope
      BY DEF RunType
    <3> HIDE DEF r
    <3>3. run'.scope = run.scope
      BY <1>9, <3>1, <3>2 DEF r
    <3> QED
      BY <2>1, <2>3, <3>3, FreshKept
  <2>4. CASE pc' = "apply" /\ run' = [run EXCEPT !.matched = TRUE, !.targets = ts]
    <3>1. run'.scope = run.scope /\ run'.targets = ts
      BY <2>4 DEF RunType
    <3>2. ts \subseteq run.scope
      BY TargetsInScope
    <3> QED
      BY <2>1, <2>4, <3>1, <3>2 DEF FreshInv, Fresh
  <2> QED
    BY <2>2, <2>3, <2>4
<1>11. CASE ApplyStage
  <2>1. CASE Reports("apply", "stopped")
    BY <1>2, <2>1
  <2>2. CASE ~Reports("apply", "stopped")
    <3>1. /\ pc = "apply" /\ pc' \in {"stage", "watch"} /\ rows' = rows
          /\ \/ run' = run
             \/ run' = NextStage([run EXCEPT !.failed = TRUE, !.errors = TRUE])
      BY <1>11, <2>2 DEF ApplyStage, LoopStep, engVars
    <3> DEFINE r == [run EXCEPT !.failed = TRUE, !.errors = TRUE]
    <3>2. r \in RunType /\ r.scope = run.scope
      BY DEF RunType
    <3> HIDE DEF r
    <3>3. run'.scope = run.scope
      BY <1>9, <3>1, <3>2 DEF r
    <3> QED
      BY <3>1, <3>3 DEF FreshInv, Fresh
  <2> QED
    BY <2>1, <2>2
<1>12. CASE WatchApply
  <2>1. pc = "watch" /\ pc' \in {"report", "stage"} /\ rows' = rows
    BY <1>12 DEF WatchApply, LoopStep
  <2>2. CASE pc' = "report"
    BY <1>1, <2>2
  <2>3. CASE pc' = "stage"
    <3>1. PICK r \in Counted : run' = NextStage([r EXCEPT !.errors = r.errors \/ eng.failed])
      BY <1>12, <2>3, Zenon DEF WatchApply, LoopStep
    <3>2. r \in RunType /\ r.scope = run.scope
      BY CountedType
    <3>3. PICK x \in BOOLEAN : run' = NextStage([r EXCEPT !.errors = x])
      BY <3>1, Zenon
    <3> DEFINE q == [r EXCEPT !.errors = x]
    <3>4. q \in RunType /\ q.scope = r.scope
      BY <3>2, NoteUpdates
    <3> HIDE DEF q
    <3>5. run'.scope = run.scope
      BY <1>9, <3>2, <3>3, <3>4 DEF q
    <3> QED
      BY <2>1, <2>3, <3>5 DEF FreshInv, Fresh
  <2> QED
    BY <2>1, <2>2, <2>3
<1> QED
  BY <1>3, <1>4, <1>5, <1>6, <1>7, <1>8, <1>10, <1>11, <1>12 DEF Loop

(* A step of the engine, whoever asked for its job, keeps them fresh. *)
LEMMA FreshEngine ==
  ASSUME TypeInv, TodoInv, FreshInv, UNCHANGED pc,
         run'.scope = run.scope, run'.targets = run.targets,
         \/ Engine \/ StopJobs
         \/ \E full \in BOOLEAN : OtherRun(full)
         \/ \E ts, k : OtherApply(ts, k)
  PROVE  FreshInv'
<1>0. eng \in EngType /\ EngineType
  BY DEF TypeInv, EngineType
<1>1. ASSUME Engaged, NEW a \in Accounts, Fresh(a) PROVE Fresh(a)'
  <2>1. \/ rows' = rows
        \/ \E ts : Plan(ts)
        \/ \E b \in Accounts : Applied(b) \/ \E c, off : Probed(b, c, off)
        \/ StopJobs
    BY DEF Engine, OtherRun, OtherApply, ListFails, RunFinishes, ApplyFinishes
  <2> QED
    BY <1>0, <1>1, <2>1, FreshRows
<1>2. run.scope \subseteq Accounts /\ Scope \subseteq Accounts
  BY <1>0 DEF TypeInv, RunIsTyped, RunType, Scope, EngineType, OutcomeType
<1>3. pc' \in {"stage", "apply", "watch"} => \A a \in run'.scope : Fresh(a)'
  BY <1>1, <1>2 DEF FreshInv, Engaged
<1>4. pc' = "apply" => run'.targets \subseteq run'.scope
  BY DEF FreshInv
<1>5. ASSUME pc \in {"poll", "outcome"}, last'.own, last'.ok, NEW a \in Scope'
      PROVE  Fresh(a)'
  <2>1. CASE last' = last
    BY <1>1, <1>2, <1>5, <2>1 DEF FreshInv, Engaged, Scope
  <2>2. CASE ListFails
    BY <1>5, <2>2 DEF ListFails, Publish, NoOutcome
  <2>3. CASE RunFinishes
    <3>1. /\ Following /\ eng.listed /\ eng.todo = {}
          /\ last' = [own |-> TRUE, ok |-> TRUE, full |-> eng.full,
                      probed |-> IF eng.full THEN {} ELSE eng.plan]
      BY <1>5, <2>3 DEF RunFinishes, Publish, NoOutcome, Active, Following
    <3>2. a \in Accounts /\ (eng.full \/ a \in eng.plan)
      BY <1>0, <1>5, <3>1 DEF Scope, EngType
    <3>3. Fresh(a)
      BY <1>5, <3>1, <3>2 DEF FreshInv
    <3> QED
      BY <1>1, <1>5, <3>2, <3>3 DEF Engaged
  <2> QED
    BY <2>1, <2>2, <2>3 DEF Engine, OtherRun, OtherApply, Plan, Probed, Applied,
         ApplyFinishes, StopJobs
<1>6. ASSUME pc \in {"poll", "outcome"}, Following', eng'.listed, NEW a \in Accounts,
             eng'.full \/ a \in eng'.plan \ eng'.todo
      PROVE  Fresh(a)'
  <2>1. eng'.job = "run" /\ eng'.own
    BY <1>6 DEF Following
  <2>2. ASSUME NEW ts, Plan(ts) PROVE Fresh(a)'
    <3>1. eng'.full = eng.full /\ eng'.plan = ts /\ eng'.todo = ts
      BY <1>0, <2>2 DEF Plan, EngType
    <3>2. rows' = [b \in Accounts |-> NoRow]
      BY <1>6, <2>2, <3>1 DEF Plan
    <3> QED
      BY <3>2 DEF Fresh
  <2>3. ASSUME NEW b \in Accounts, NEW c, NEW off, Probed(b, c, off) PROVE Fresh(a)'
    <3>1. /\ eng' = [eng EXCEPT !.todo = eng.todo \ {b}]
          /\ rows' = [rows EXCEPT ![b] = Row(c, off, Origin)] /\ eng.job = "run"
      BY <2>3 DEF Probed, Active
    <3>2. /\ eng'.full = eng.full /\ eng'.plan = eng.plan /\ eng'.listed = eng.listed
          /\ eng'.todo = eng.todo \ {b} /\ eng'.own = eng.own
      BY <1>0, <3>1 DEF EngType
    <3>3. CASE a = b
      <4>1. Origin = "own"
        BY <2>1, <3>2 DEF Origin
      <4> QED
        BY <1>0, <3>1, <3>3, <4>1 DEF Fresh, Row, EngineType
    <3>4. CASE a # b
      <4>1. Fresh(a)
        BY <1>6, <2>1, <3>1, <3>2, <3>4 DEF FreshInv, Following
      <4> QED
        BY <1>1, <1>6, <4>1 DEF Engaged
    <3> QED
      BY <3>3, <3>4
  <2>4. CASE StopJobs
    <3>1. CASE eng.job = "run"
      BY <2>1, <2>4, <3>1 DEF StopJobs, NoJob
    <3>2. CASE eng.job = "apply"
      BY <1>0, <2>1, <2>4, <3>2 DEF StopJobs, EngType
    <3>3. CASE eng.job \notin {"run", "apply"}
      BY <2>1, <2>4, <3>3 DEF StopJobs
    <3> QED
      BY <3>1, <3>2, <3>3
  <2>5. CASE ListFails \/ RunFinishes \/ ApplyFinishes
    <3>1. CASE ListFails \/ RunFinishes
      <4>1. eng' = NoJob
        BY <3>1 DEF ListFails, RunFinishes
      <4> QED
        BY <2>1, <4>1 DEF NoJob
    <3>2. CASE ApplyFinishes
      BY <2>1, <3>2 DEF ApplyFinishes, NoJob
    <3> QED
      BY <2>5, <3>1, <3>2
  <2>6. ASSUME NEW b, Applied(b) PROVE FALSE
    BY <1>0, <2>1, <2>6 DEF Applied, EngType
  <2>7. ASSUME NEW full, NEW ts, NEW k, OtherRun(full) \/ OtherApply(ts, k) PROVE FALSE
    BY <1>6, <2>1, <2>7 DEF OtherRun, StartRun, OtherApply, NoJob
  <2> QED
    BY <2>2, <2>3, <2>4, <2>5, <2>6, <2>7 DEF Engine
<1> QED
  BY <1>3, <1>4, <1>5, <1>6 DEF FreshInv

(* Every step keeps the rows fresh that a scheduled run disposes of. *)
LEMMA FreshStep == ASSUME TypeInv, TodoInv, FreshInv, [Next]_vars PROVE FreshInv'
<1> USE DEF TypeInv, RunIsTyped
<1>1. CASE Loop \/ LoopEnds \/ RunGivesUp
  BY <1>1, FreshLoop
<1>2. CASE Engine \/ StopJobs
  <2>1. UNCHANGED <<pc, run>>
    BY <1>2 DEF Engine, StopJobs, ListFails, RunFinishes, ApplyFinishes, Plan, Applied,
                Probed, EngineStep
  <2> QED
    BY <1>2, <2>1, FreshEngine
<1>3. ASSUME NEW full \in BOOLEAN, NEW ts, NEW k, OtherRun(full) \/ OtherApply(ts, k)
      PROVE  FreshInv'
  <2>1. Forget /\ pc' = pc
    BY <1>3 DEF OtherRun, OtherApply, EngineStep
  <2>2. PICK x \in BOOLEAN : run' = [run EXCEPT !.lost = x]
    BY <2>1, Zenon DEF Forget
  <2>3. run'.scope = run.scope /\ run'.targets = run.targets
    BY <2>2, NoteUpdates
  <2> QED
    BY <1>3, <2>1, <2>3, FreshEngine
<1>4. CASE UserGoesOn \/ Elapse \/ StopPlugin \/ \E s \in Updates : UserReads(s)
  <2>1. UNCHANGED <<pc, run, eng, last, rows>>
    BY <1>4 DEF UserGoesOn, UserSaves, UserFails, UserCommits, Elapse, StopPlugin,
                UserReads, engVars
  <2> QED
    BY <2>1, FreshKept
<1>5. CASE Restart
  BY <1>5 DEF Restart, FreshInv
<1>6. CASE UNCHANGED vars
  BY <1>6, FreshKept DEF vars, engVars
<1> QED
  BY <1>1, <1>2, <1>3, <1>4, <1>5, <1>6 DEF Next, Users

-----------------------------------------------------------------------------
(* Theorems                                                                *)

ScheduleInv == TypeInv /\ TodoInv /\ SettingsInv /\ FreshInv

(* The invariants hold in every state of the schedule and the engine. *)
THEOREM ScheduleInvariant == Spec => []ScheduleInv
<1>1. Init => ScheduleInv
  <2> SUFFICES ASSUME Init PROVE ScheduleInv
    OBVIOUS
  <2>1. TodoInv
    BY DEF Init, TodoInv, NoJob
  <2>2. SettingsInv
    BY DEF Init, SettingsInv
  <2>3. FreshInv
    BY DEF Init, FreshInv
  <2> QED
    BY <2>1, <2>2, <2>3, TypeInit DEF ScheduleInv
<1>2. ScheduleInv /\ [Next]_vars => ScheduleInv'
  BY ConfStep, RunStep, EngineTypeStep, TodoStep, SettingsStep, FreshStep
     DEF ScheduleInv, TypeInv
<1> QED
  BY <1>1, <1>2, PTL DEF Spec

(* Every variable has the type the code gives it. *)
THEOREM TypeCorrect == Spec => []TypeOK
<1>1. TypeInv => TypeOK
  <2> SUFFICES ASSUME TypeInv PROVE TypeOK
    OBVIOUS
  <2>1. {mem, disk, draft, acked, cfg} \subseteq Settings \union Updates
    BY DEF TypeInv, ConfType, AllSettings
  <2>2. {wake, stop, stopped} \subseteq BOOLEAN
    <3>1. wake \in BOOLEAN /\ stop \in BOOLEAN /\ stopped \in BOOLEAN
      BY DEF TypeInv, ConfType, EngineType
    <3> QED
      BY <3>1, Zenon
  <2>3. next \in {"later", "due"} /\ txn \in {"free", "user", "saved", "loop"}
    BY DEF TypeInv, ConfType
  <2>4. /\ pc \in Labels
        /\ run.report \in Statuses /\ run.stage \in 0 .. Len(Stages) + 1
        /\ run.scope \subseteq Accounts /\ run.targets \subseteq Accounts
    BY DEF TypeInv, RunIsTyped, RunType
  <2>5. eng.job \in {"idle", "run", "apply"} /\ eng.todo \subseteq Accounts
    BY DEF TypeInv, EngineType, EngType
  <2>6. rows \in [Accounts -> {NoRow} \union RowType]
    BY DEF TypeInv, EngineType
  <2> QED
    BY <2>1, <2>2, <2>3, <2>4, <2>5, <2>6 DEF TypeOK, Labels, RowType
<1> QED
  BY <1>1, ScheduleInvariant, PTL DEF ScheduleInv

(* An update that was answered with OK stays in force, in memory and in    *)
(* the file, although every run writes its status back into the same       *)
(* record and any save may fail: the write-back and the updates have the   *)
(* transaction one at a time.                                              *)
THEOREM SettingsStay == Spec => []SettingsHold
<1>1. SettingsInv => SettingsHold
  BY DEF SettingsInv, SettingsHold
<1> QED
  BY <1>1, ScheduleInvariant, PTL DEF ScheduleInv

(* A scheduled run disposes of nothing it found in an old row, whatever    *)
(* others inspect, apply or stop in between.                               *)
THEOREM OldRowsAreSafe == Spec => NeverOnOldRows
<1>1. ScheduleInv /\ [Next]_vars =>
        [ApplyStage /\ eng' # eng => \A a \in eng'.todo : rows[a].from # "older"]_vars
  <2> SUFFICES ASSUME ScheduleInv, ApplyStage, eng' # eng, NEW a \in eng'.todo
               PROVE  rows[a].from # "older"
    OBVIOUS
  <2>1. /\ pc = "apply"
        /\ eng' = [NoJob EXCEPT !.job = "apply", !.own = TRUE, !.kind = Action,
                                !.todo = Seen(run.targets)]
    BY DEF ApplyStage, LoopStep, Reports, engVars
  <2>2. a \in run.targets /\ rows[a] # NoRow
    BY <2>1 DEF NoJob, Seen
  <2> QED
    BY <2>1, <2>2 DEF ScheduleInv, FreshInv, Fresh
<1> QED
  BY <1>1, ScheduleInvariant, PTL DEF Spec, NeverOnOldRows
=============================================================================
