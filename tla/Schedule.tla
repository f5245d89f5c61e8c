------------------------------ MODULE Schedule ------------------------------
(***************************************************************************)
(* The inspection schedule (inspection_schedule.go, schedule_store.go):    *)
(* the transaction under scheduleTxnMu that a settings update and the      *)
(* write-back of a run share, the loop with its timer and its wake         *)
(* channel, and a scheduled run that follows one inspection by its token   *)
(* and then disables, deletes or enables accounts stage by stage, while    *)
(* somebody else starts inspections and applies and presses stop.          *)
(*                                                                         *)
(* The engine is what the schedule sees of it (modules Inspection and Jobs *)
(* model its inside).  Tokens matter only compared with the run that is    *)
(* followed, so a row is "older", "own" or "newer".                        *)
(***************************************************************************)
EXTENDS Naturals, Sequences, FiniteSets

CONSTANTS
  Accounts,
  Settings,      \* settings at the start: enabled, sample, delete, recover
  Updates,       \* settings users ask for later
  Classes,       \* classifications a probe can give
  Stages,        \* the order of disposal: <<[class, kind], ...>>
  NoRow,
  MaxOthers,     \* bound: inspections and applies of users per scheduled run
  MaxCrashes     \* bound

ASSUME ScheduleAssumption ==
  /\ IsFiniteSet(Accounts)
  /\ Settings \union Updates \subseteq
       [enabled : BOOLEAN, sample : BOOLEAN, delete : BOOLEAN, recover : BOOLEAN]
  /\ Stages \in Seq([class : Classes, kind : {"disable", "choice", "enable"}])
  /\ NoRow \notin [class : Classes \union {"stopped"}, disabled : BOOLEAN,
                   from : {"older", "own", "newer"}]
  /\ MaxOthers \in Nat /\ MaxCrashes \in Nat

VARIABLES
  mem, next,     \* engine.schedule: the settings, and next_run_at
  disk,          \* schedule.json: the settings
  txn, draft,    \* who holds scheduleTxnMu ("free", "user", "loop"), and its cfg
  acked,         \* history: the settings of the last update answered with OK
  wake, stop,    \* the channels
  pc,            \* of the loop
  cfg,           \* the settings of the loop's snapshot
  run,           \* the locals of runScheduledInspection
  eng,           \* the job the engine has
  stopped,       \* e.stopped
  last,          \* lastFinished...: the outcome that was published last
  rows,          \* e.results
  others, crashes

confVars == <<mem, next, disk, txn, draft, acked>>
engVars == <<eng, stopped, last, rows, others>>
vars == <<confVars, wake, stop, pc, cfg, run, engVars, crashes>>

NoJob == [job |-> "idle", own |-> FALSE, listed |-> FALSE, full |-> FALSE,
          plan |-> {}, todo |-> {}, kind |-> "", drain |-> FALSE,
          failed |-> FALSE]
NoOutcome == [own |-> FALSE, ok |-> FALSE, full |-> FALSE, probed |-> {}]

(* lost: history, an apply of the run failed and the loop did not see it. *)
NewRun(status) ==
  [report |-> status, stage |-> 0, scope |-> {}, password |-> FALSE,
   targets |-> {}, matched |-> FALSE, failed |-> FALSE, errors |-> FALSE,
   lost |-> FALSE]

Row(class, off, from) == [class |-> class, disabled |-> off, from |-> from]

Older(f) == [a \in Accounts |->
              IF f[a] = NoRow THEN NoRow ELSE [f[a] EXCEPT !.from = "older"]]

Init ==
  /\ mem \in Settings /\ next = "later"
  /\ disk = mem /\ acked = mem /\ draft = mem /\ txn = "free"
  /\ wake = FALSE /\ stop = FALSE
  /\ pc = "snap" /\ cfg = mem /\ run = NewRun("")
  /\ eng = NoJob /\ stopped = FALSE /\ last = NoOutcome
  /\ rows \in [Accounts -> {NoRow} \union
                 [class : Classes, disabled : BOOLEAN, from : {"older"}]]
  /\ others = 0 /\ crashes = 0

-----------------------------------------------------------------------------
(* Settings: one transaction at a time, read, save, then commit.           *)

UserReads(s) ==
  /\ txn = "free" /\ txn' = "user"
  /\ draft' = s
  /\ UNCHANGED <<mem, next, disk, acked, wake, stop, pc, cfg, run, engVars, crashes>>

UserSaves ==
  /\ txn = "user" /\ txn' = "saved"
  /\ disk' = draft
  /\ UNCHANGED <<mem, next, draft, acked, wake, stop, pc, cfg, run, engVars, crashes>>

(* The save fails: the old settings stay, in memory and in the file. *)
UserFails ==
  /\ txn = "user" /\ txn' = "free"
  /\ draft' = mem
  /\ UNCHANGED <<mem, next, disk, acked, wake, stop, pc, cfg, run, engVars,
                 crashes>>

(* mutant: the loop is woken only when the schedule is already on *)
UserCommits_WakesSome ==
  /\ txn = "saved" /\ txn' = "free"
  /\ mem' = draft /\ acked' = draft /\ next' = "later"
  /\ wake' = (wake \/ mem.enabled)
  /\ UNCHANGED <<disk, draft, stop, pc, cfg, run, engVars, crashes>>

UserCommits ==
  /\ txn = "saved" /\ txn' = "free"
  /\ mem' = draft /\ acked' = draft /\ next' = "later"
  /\ wake' = TRUE
  /\ UNCHANGED <<disk, draft, stop, pc, cfg, run, engVars, crashes>>

(* mutant: the write-back brings the settings the run started with *)
WriteBackReads_FromRun ==
  /\ pc = "report" /\ pc' = "saving"
  /\ txn = "free" /\ txn' = "loop"
  /\ draft' = cfg
  /\ UNCHANGED <<mem, next, disk, acked, wake, stop, cfg, run, engVars, crashes>>

(* setInspectionScheduleRuntimeStatus: only runtime fields are its own. *)
WriteBackReads ==
  /\ pc = "report" /\ pc' = "saving"
  /\ txn = "free" /\ txn' = "loop"
  /\ draft' = mem
  /\ UNCHANGED <<mem, next, disk, acked, wake, stop, cfg, run, engVars, crashes>>

(* A failed save is only logged: memory is set all the same.  With the run *)
(* nobody asks for its locals, its rows or its outcome as its own.         *)
WriteBackCommits ==
  /\ pc = "saving"
  /\ pc' = IF run.report = "running" THEN "start" ELSE "snap"
  /\ disk' \in {disk, draft}
  /\ mem' = draft /\ next' = "later"
  /\ txn' = "free"
  /\ IF run.report = "running"
       THEN UNCHANGED <<run, rows, last>>
       ELSE run' = NewRun("") /\ rows' = Older(rows) /\ last' = NoOutcome
  /\ UNCHANGED <<draft, acked, wake, stop, cfg, eng, stopped, others, crashes>>

(* Time passes next_run_at; an interval is minutes long, so not between a  *)
(* write-back and the look at the settings that follows it.                *)
Elapse ==
  /\ next = "later" /\ pc # "snap"
  /\ next' = "due"
  /\ UNCHANGED <<mem, disk, txn, draft, acked, wake, stop, pc, cfg, run, engVars, crashes>>

-----------------------------------------------------------------------------
(* The loop.                                                               *)

LoopStep(from, to) ==
  /\ pc = from /\ pc' = to
  /\ UNCHANGED <<confVars, stop, crashes>>

Snapshot ==
  /\ cfg' = mem
  /\ CASE ~mem.enabled -> LoopStep("snap", "off") /\ UNCHANGED run
       [] mem.enabled /\ next = "later" ->
            LoopStep("snap", "timer") /\ UNCHANGED run
       [] OTHER -> LoopStep("snap", "report") /\ run' = NewRun("running")
  /\ UNCHANGED <<wake, engVars>>

Woken ==
  /\ wake /\ wake' = FALSE
  /\ \E from \in {"off", "timer"} : LoopStep(from, "snap")
  /\ UNCHANGED <<cfg, run, engVars>>

TimerFires ==
  /\ LoopStep("timer", "report")
  /\ run' = NewRun("running")
  /\ UNCHANGED <<wake, cfg, engVars>>

Reports(from, status) ==
  /\ LoopStep(from, "report")
  /\ run' = [run EXCEPT !.report = status]
  /\ UNCHANGED <<wake, cfg, engVars>>

(* Where the loop waits it also listens to the stop channel. *)
LoopEnds ==
  /\ stop
  /\ \E from \in {"off", "timer"} : LoopStep(from, "done")
  /\ UNCHANGED <<wake, cfg, run, engVars>>

RunGivesUp ==
  /\ stop
  /\ \E from \in {"poll", "watch"} : Reports(from, "stopped")

StopPlugin ==
  /\ ~stop /\ stop' = TRUE
  /\ UNCHANGED <<confVars, wake, pc, cfg, run, engVars, crashes>>

-----------------------------------------------------------------------------
(* The scheduled inspection.                                               *)

Idle == eng.job = "idle"
Following == eng.job = "run" /\ eng.own

StartRun(own, full) ==
  /\ eng' = [NoJob EXCEPT !.job = "run", !.own = own, !.full = full]
  /\ stopped' = FALSE

StartScheduled ==
  \/ ~Idle /\ Reports("start", "skipped")
  \/ /\ Idle /\ LoopStep("start", "poll")
     /\ StartRun(TRUE, ~cfg.sample)
     /\ last' = NoOutcome
     /\ rows' = Older(rows)
     /\ others' = 0
     /\ UNCHANGED <<wake, cfg, run>>

(* inspectionRunWaitState of the token: running, finished or superseded. *)
Poll ==
  \/ ~last.own /\ ~Following /\ Reports("poll", "stopped")
  \/ /\ last.own /\ LoopStep("poll", "outcome")
     /\ UNCHANGED <<wake, cfg, run, engVars>>

(* mutant: rows are disposed of although the account list failed *)
ScopeKnown_ListIgnored == last.own /\ (last.full \/ last.probed # {})

ScopeKnown == last.own /\ last.ok /\ (last.full \/ last.probed # {})

(* Where the run may act: everywhere, or what it planned to probe. *)
Scope == IF last.full THEN Accounts ELSE last.probed

(* finishedRunOutcome, finishedRunProbedKeys, the password. *)
Outcome ==
  \/ ~ScopeKnown /\ Reports("outcome", "failed")
  \/ /\ ScopeKnown /\ LoopStep("outcome", "stage")
     /\ \E known \in BOOLEAN :
          run' = [run EXCEPT !.stage = 1, !.scope = Scope, !.password = known]
     /\ UNCHANGED <<wake, cfg, engVars>>

-----------------------------------------------------------------------------
(* Disposal, stage by stage.                                               *)

Action == CASE Stages[run.stage].kind = "choice" ->
                 IF cfg.delete THEN "delete" ELSE "disable"
            [] OTHER -> Stages[run.stage].kind

Wanted == Stages[run.stage].kind = "enable" => cfg.recover

(* Rows of the stage's class; a recovery takes disabled accounts, those    *)
(* whose bans have all expired (the ban pool is not modelled here).        *)
Matching ==
  {a \in run.scope :
     /\ rows[a] # NoRow
     /\ rows[a].class = Stages[run.stage].class
     /\ Action = "disable" => ~rows[a].disabled
     /\ Action = "enable" => rows[a].disabled}

TargetSets == IF ~Wanted THEN {{}}
              ELSE IF Action = "enable" THEN SUBSET Matching ELSE {Matching}

NextStage(r) == [r EXCEPT !.stage = @ + 1, !.targets = {}]

ChooseTargets ==
  /\ run.stage \in DOMAIN Stages
  /\ \E ts \in TargetSets :
       IF ts = {} \/ ~run.password
         THEN /\ LoopStep("stage", "stage")
              /\ run' = NextStage([run EXCEPT !.matched = @ \/ ts # {},
                                              !.failed = @ \/ ts # {},
                                              !.errors = @ \/ ts # {}])
         ELSE /\ LoopStep("stage", "apply")
              /\ run' = [run EXCEPT !.matched = TRUE, !.targets = ts]
  /\ UNCHANGED <<wake, cfg, engVars>>

Seen(ts) == {a \in ts : rows[a] # NoRow}

(* startApply refuses while the engine is busy or no target is left; it    *)
(* does not look at e.stopped.                                             *)
ApplyStage ==
  LET refused == ~Idle \/ Seen(run.targets) = {}
      halted == stopped /\ eng.job # "run"
  IN \/ refused /\ halted /\ Reports("apply", "stopped")
     \/ /\ refused /\ ~halted /\ LoopStep("apply", "stage")
        /\ run' = NextStage([run EXCEPT !.failed = TRUE, !.errors = TRUE])
        /\ UNCHANGED <<wake, cfg, engVars>>
     \/ /\ ~refused /\ LoopStep("apply", "watch")
        /\ eng' = [NoJob EXCEPT !.job = "apply", !.own = TRUE, !.kind = Action,
                                !.todo = Seen(run.targets)]
        /\ UNCHANGED <<wake, cfg, run, stopped, last, rows, others>>

(* The rows are counted, not what the calls returned; an account that was  *)
(* enabled counts only if no ban is left of it.                            *)
Succeeded(a) ==
  CASE Action = "delete" -> rows[a] = NoRow
    [] Action = "disable" -> rows[a] # NoRow /\ rows[a].disabled
    [] OTHER -> rows[a] # NoRow /\ ~rows[a].disabled

Counted ==
  {[run EXCEPT !.failed = @ \/ bad] :
     bad \in {\E a \in run.targets : ~Succeeded(a), Action = "enable"}}

WatchApply ==
  /\ eng.job # "apply"
  /\ IF stopped /\ eng.job # "run"
       THEN /\ LoopStep("watch", "report")
            /\ \E r \in Counted : run' = [r EXCEPT !.report = "stopped"]
       ELSE /\ LoopStep("watch", "stage")
            /\ \E r \in Counted :
                 run' = NextStage([r EXCEPT !.errors = @ \/ eng.failed])
  /\ eng' = IF Idle THEN NoJob ELSE eng
  /\ UNCHANGED <<wake, cfg, stopped, last, rows, others>>

Complete ==
  /\ run.stage \notin DOMAIN Stages
  /\ Reports("stage", IF run.matched /\ (run.failed \/ run.errors)
                        THEN "completed_with_errors" ELSE "completed")

-----------------------------------------------------------------------------
(* The engine, as far as the schedule sees it.                             *)

EngineStep == UNCHANGED <<confVars, wake, stop, pc, cfg, crashes>>
Active(job) == eng.job = job /\ ~eng.drain
Other == others < MaxOthers /\ others' = others + 1

(* failures of an earlier apply are forgotten with it *)
Forget == run' = [run EXCEPT !.lost = @ \/ (pc = "watch" /\ eng.own /\ eng.failed)]

OtherRun(full) ==
  /\ Idle /\ Other
  /\ StartRun(FALSE, full)
  /\ Forget
  /\ UNCHANGED <<last, rows>> /\ EngineStep

OtherApply(ts, kind) ==
  /\ Idle /\ Other /\ Seen(ts) # {}
  /\ eng' = [NoJob EXCEPT !.job = "apply", !.kind = kind, !.todo = Seen(ts)]
  /\ Forget
  /\ UNCHANGED <<stopped, last, rows>> /\ EngineStep

(* Of a run that is not followed only that it finished last. *)
Publish(ok) ==
  last' = IF eng.own THEN [own |-> TRUE, ok |-> ok, full |-> eng.full,
                           probed |-> IF eng.full THEN {} ELSE eng.plan]
          ELSE NoOutcome

ListFails ==
  /\ Active("run") /\ ~eng.listed
  /\ eng' = NoJob
  /\ Publish(FALSE)
  /\ UNCHANGED <<stopped, rows, others, run>> /\ EngineStep

(* The list is there: a full run drops the rows, targets are planned. *)
Plan(ts) ==
  /\ Active("run") /\ ~eng.listed
  /\ eng' = [eng EXCEPT !.listed = TRUE, !.plan = ts, !.todo = ts]
  /\ rows' = IF eng.full THEN [a \in Accounts |-> NoRow] ELSE rows
  /\ UNCHANGED <<stopped, last, others, run>> /\ EngineStep

Origin == IF eng.own THEN "own"
          ELSE IF pc \in {"snap", "off", "timer", "done"} THEN "older" ELSE "newer"

Probed(a, class, off) ==
  /\ Active("run") /\ a \in eng.todo
  /\ eng' = [eng EXCEPT !.todo = @ \ {a}]
  /\ rows' = [rows EXCEPT ![a] = Row(class, off, Origin)]
  /\ UNCHANGED <<stopped, last, others, run>> /\ EngineStep

RunFinishes ==
  /\ Active("run") /\ eng.listed /\ eng.todo = {}
  /\ eng' = NoJob
  /\ Publish(TRUE)
  /\ UNCHANGED <<stopped, rows, others, run>> /\ EngineStep

Effect(a) == CASE eng.kind = "delete" -> NoRow
               [] eng.kind = "disable" -> [rows[a] EXCEPT !.disabled = TRUE]
               [] OTHER -> [rows[a] EXCEPT !.disabled = FALSE]

(* One account of the apply: done, or refused by CPA. *)
Applied(a) ==
  /\ eng.job = "apply" /\ a \in eng.todo
  /\ \/ rows' = [rows EXCEPT ![a] = Effect(a)] /\ eng' = [eng EXCEPT !.todo = @ \ {a}]
     \/ UNCHANGED rows
        /\ eng' = [eng EXCEPT !.todo = @ \ {a}, !.failed = @ \/ ~eng.drain]
  /\ UNCHANGED <<stopped, last, others, run>> /\ EngineStep

(* A stopped apply drains: some of its calls still take effect. *)
ApplyFinishes ==
  /\ eng.job = "apply" /\ (eng.todo = {} \/ eng.drain)
  /\ eng' = IF eng.own /\ pc = "watch"
              THEN [NoJob EXCEPT !.own = TRUE, !.failed = eng.failed] ELSE NoJob
  /\ UNCHANGED <<stopped, last, rows, others, run>> /\ EngineStep

(* Stop: a run is over at once, targets it did not reach get a row. *)
StopJobs ==
  /\ ~stopped /\ stopped' = TRUE
  /\ eng' = CASE eng.job = "run" -> NoJob
              [] eng.job = "apply" -> [eng EXCEPT !.drain = TRUE]
              [] OTHER -> eng
  /\ rows' = [a \in Accounts |->
               IF eng.job = "run" /\ a \in eng.todo
                 THEN Row("stopped", FALSE, Origin) ELSE rows[a]]
  /\ UNCHANGED <<last, others, run>> /\ EngineStep

(* The process dies; the next one reads schedule.json and the old rows. *)
Restart ==
  /\ crashes < MaxCrashes /\ crashes' = crashes + 1
  /\ ~stop
  /\ mem' = disk /\ acked' = disk /\ txn' = "free" /\ draft' = disk
  /\ next' \in {"later", "due"}
  /\ wake' = FALSE /\ pc' = "snap" /\ cfg' = disk /\ run' = NewRun("")
  /\ eng' = NoJob /\ stopped' = FALSE /\ last' = NoOutcome
  /\ rows' = Older(rows)
  /\ UNCHANGED <<disk, stop, others>>

-----------------------------------------------------------------------------
Loop == \/ WriteBackReads \/ WriteBackCommits \/ Snapshot \/ Woken
        \/ TimerFires \/ StartScheduled \/ Poll \/ Outcome
        \/ ChooseTargets \/ ApplyStage \/ WatchApply \/ Complete

Engine == \/ ListFails \/ RunFinishes \/ ApplyFinishes
          \/ \E ts \in SUBSET Accounts : Plan(ts)
          \/ \E a \in Accounts :
               \/ Applied(a)
               \/ \E c \in Classes, off \in BOOLEAN : Probed(a, c, off)

Users == \/ \E s \in Updates : UserReads(s)
         \/ \E full \in BOOLEAN : OtherRun(full)
         \/ \E ts \in SUBSET Accounts, k \in {"disable", "delete", "enable"} :
              OtherApply(ts, k)
         \/ StopJobs \/ StopPlugin \/ Restart

UserGoesOn == UserSaves \/ UserFails \/ UserCommits

Next == Loop \/ LoopEnds \/ RunGivesUp \/ Engine \/ Users \/ UserGoesOn \/ Elapse

Spec == Init /\ [][Next]_vars

(* The loop, the clock and the engine run on, and a mutex is not for ever  *)
(* given to others; a select picks among ready channels at random, so the  *)
(* stop channel is not passed over for ever.  Nobody has to ask for        *)
(* anything.                                                               *)
Fairness == /\ WF_vars(Loop) /\ SF_vars(WriteBackReads) /\ SF_vars(LoopEnds)
            /\ SF_vars(RunGivesUp)
            /\ WF_vars(Engine) /\ WF_vars(UserGoesOn) /\ WF_vars(Elapse)
FairSpec == Spec /\ Fairness

-----------------------------------------------------------------------------
Statuses == {"", "running", "skipped", "stopped", "failed", "completed",
             "completed_with_errors"}

(* Every variable has the type the code gives it. *)
TypeOK ==
  /\ {mem, disk, draft, acked, cfg} \subseteq Settings \union Updates
  /\ next \in {"later", "due"}
  /\ txn \in {"free", "user", "saved", "loop"}
  /\ {wake, stop, stopped} \subseteq BOOLEAN
  /\ pc \in {"snap", "off", "timer", "report", "saving", "start", "poll",
             "outcome", "stage", "apply", "watch", "done"}
  /\ run.report \in Statuses /\ run.stage \in 0 .. Len(Stages) + 1
  /\ run.scope \subseteq Accounts /\ run.targets \subseteq Accounts
  /\ eng.job \in {"idle", "run", "apply"} /\ eng.todo \subseteq Accounts
  /\ rows \in [Accounts -> {NoRow} \union
                 [class : Classes \union {"stopped"}, disabled : BOOLEAN,
                  from : {"older", "own", "newer"}]]

(* An update that was answered with OK stays in force, in memory and in    *)
(* the file, although runs write their status back into the same record    *)
(* all the time, and saves fail (setInspectionScheduleRuntimeStatus).      *)
SettingsHold ==
  /\ mem = acked
  /\ disk = IF txn = "saved" THEN draft ELSE acked

(* What a scheduled run disposes of was probed by it, or after it started: *)
(* never a row of an earlier inspection, whether the list failed, the run  *)
(* was stopped or another inspection came in between; a sample run acts    *)
(* on the accounts it probed only (README.en.md:29).                       *)
NeverOnOldRows ==
  [][ApplyStage /\ eng' # eng =>
       \A a \in eng'.todo : rows[a].from # "older"]_vars

(* A schedule that is on and due starts a run or says that it skipped it,  *)
(* however its settings were changed: no wake is lost.  Every scheduled    *)
(* run comes to an end and reports a status, and the loop ends when the    *)
(* plugin stops, whatever job it is waiting for.                           *)
DueRuns ==
  (mem.enabled /\ next = "due")
    ~> (~mem.enabled \/ next # "due"
        \/ pc \notin {"snap", "off", "timer"})

LoopGoesOn == /\ pc = "report" ~> pc \in {"snap", "done"}
              /\ stop ~> pc = "done"
ScheduleLives == DueRuns /\ LoopGoesOn

(* inspection_schedule.go:694: any error of an apply "must yield           *)
(* completed_with_errors".                                                 *)
ErrorsAreReported == pc = "report" /\ run.report = "completed" => ~run.lost
=============================================================================
