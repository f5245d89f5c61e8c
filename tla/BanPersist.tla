----------------------------- MODULE BanPersist -----------------------------
(***************************************************************************)
(* Where the ban pool is kept: the configuration the host hands over and   *)
(* changes (ban_config.go), the worker that saves the pool after changes   *)
(* (ban_persist.go), those that save it themselves, and the final write    *)
(* when the plugin is shut down.  The host may move the file or switch     *)
(* persistence while changes are under way; the settings page stores a     *)
(* configuration too.                                                      *)
(*                                                                         *)
(* A state of the pool is its version.  A save is what module              *)
(* DurableSnapshot promises: it leaves the state it found, or a newer one, *)
(* in the file and never an older one than the file had of this process.   *)
(***************************************************************************)
EXTENDS Integers, FiniteSets

CONSTANTS
  Paths,          \* state_file values that occur
  Legacy,         \* a file of the standalone plugin, imported once
  Routines,       \* goroutines that change the pool
  MaxRev          \* bound: versions of the pool

NoPath == "none"

ASSUME BanPersistAssumption ==
  /\ Legacy \notin Paths /\ Paths # {} /\ NoPath \notin Paths
  /\ MaxRev \in Nat

Worker == "worker"   Host == "host"   Final == "final"
Savers == Routines \union {Worker, Host, Final}
Configs == Paths \union {NoPath}    \* the state_file; none without persist_state
NoSave == [path |-> NoPath, base |-> 0]

VARIABLES
  phase,          \* "boot", "run", "stop", "join", "flush", "down"
  cfg,            \* currentConfig
  host, want,     \* the configuration last accepted; the one being applied
  life,           \* where register and reconfigure are
  needMigrate,
  uiCfg,          \* the copy updateAutobanSettings works on, or "none"
  path, dirty, stop, worker,    \* banPersistWorker
  pc, got,        \* of each routine; got: the file it read from currentConfig
  save,           \* the save each saver is at
  content, disk,  \* the pool; the version in each file, 0 if there is none
  flushed,        \* history: how the final write went
  stale           \* history: a configuration no longer current was acted upon

cfgVars == <<cfg, host, want, life, needMigrate, uiCfg>>
workerVars == <<path, dirty, stop, worker>>
routineVars == <<pc, got>>
vars == <<phase, cfgVars, workerVars, routineVars, save, content, disk,
          flushed, stale>>

Files == Paths \union {Legacy}

(* A file of an earlier process may be there; the pool is empty. *)
Init ==
  /\ phase = "boot"
  /\ cfg \in Configs /\ host = cfg /\ want = cfg
  /\ life = "idle" /\ needMigrate = FALSE /\ uiCfg = <<>>
  /\ path = NoPath /\ dirty = FALSE /\ stop = FALSE /\ worker = "off"
  /\ pc = [g \in Routines |-> "idle"]
  /\ got = [g \in Routines |-> NoPath]
  /\ save = [t \in Savers |-> NoSave]
  /\ content = 0
  /\ \E f \in Files : disk = [p \in Files |-> IF p = f THEN 1 ELSE 0]
  /\ flushed = "no" /\ stale = FALSE

Newer(m, n) == IF m > n THEN m ELSE n

(* banStoreSaveFn: it takes the pool as it is now, or a little later. *)
Begin(t, p) == save' = [save EXCEPT ![t] = [path |-> p, base |-> content]]
Over(t) == save' = [save EXCEPT ![t] = NoSave]
Written(t) ==
  LET p == save[t].path
      oldest == IF disk[p] > content THEN save[t].base
                ELSE Newer(save[t].base, disk[p])
  IN \E v \in oldest .. content : disk' = [disk EXCEPT ![p] = v]

-----------------------------------------------------------------------------
(* plugin.register and plugin.reconfigure; pluginLifecycleMu *)

(* Before plugin.register a reconfigure only stores the configuration. *)
Preconfigure ==
  /\ phase = "boot"
  /\ \E c \in Configs : cfg' = c /\ host' = c /\ want' = c
  /\ UNCHANGED <<phase, life, needMigrate, uiCfg, workerVars, routineVars, save,
                 content, disk, flushed, stale>>

(* loadBanState: an existing file wins; a legacy file is imported once, and *)
(* renamed if it could be saved under its new name.                        *)
Register ==
  /\ phase = "boot"
  /\ \E c \in Configs :
       /\ cfg' = c /\ host' = c /\ want' = c
       /\ \/ c = NoPath /\ UNCHANGED <<content, disk>>
          \/ /\ c # NoPath /\ disk[c] # 0
             /\ content' = disk[c] /\ UNCHANGED disk
          \/ /\ c # NoPath /\ disk[c] = 0
             /\ content' = disk[Legacy]
             /\ \E d \in {disk, [disk EXCEPT ![c] = disk[Legacy]],
                          [disk EXCEPT ![c] = disk[Legacy], ![Legacy] = 0]} :
                  disk' = d
  /\ phase' = "run"
  /\ UNCHANGED <<life, needMigrate, uiCfg, workerVars, routineVars, save,
                 flushed, stale>>

(* A later register, or a reconfigure: the pool is saved to the new file   *)
(* before anything is told of it.                                          *)
Reconfigure ==
  /\ phase = "run" /\ life = "idle"
  /\ \E c \in Configs :
       /\ want' = c
       /\ needMigrate' = (c # NoPath /\ c # cfg)
       /\ IF needMigrate'
            THEN life' = "migrate" /\ Begin(Host, c)
            ELSE life' = "store" /\ UNCHANGED save
  /\ UNCHANGED <<phase, cfg, host, uiCfg, workerVars, routineVars, content,
                 disk, flushed, stale>>

Migrated ==
  /\ life = "migrate"
  /\ Written(Host) /\ Over(Host)
  /\ life' = "store"
  /\ UNCHANGED <<phase, cfg, host, want, needMigrate, uiCfg, workerVars,
                 routineVars, content, flushed, stale>>

(* mutant: the configuration is published all the same *)
MigrationFails_Kept ==
  /\ life = "migrate"
  /\ Over(Host)
  /\ life' = "idle" /\ cfg' = want
  /\ want' = host /\ needMigrate' = FALSE
  /\ UNCHANGED <<phase, host, uiCfg, workerVars, routineVars,
                 content, disk, flushed, stale>>

(* The host gets an error and everything stays as it was. *)
MigrationFails ==
  /\ life = "migrate"
  /\ Over(Host)
  /\ life' = "idle" /\ want' = host /\ needMigrate' = FALSE
  /\ UNCHANGED <<phase, cfg, host, uiCfg, workerVars,
                 routineVars, content, disk, flushed, stale>>

Publish ==
  /\ life = "store"
  /\ cfg' = want /\ life' = "retarget"
  /\ UNCHANGED <<phase, host, want, needMigrate, uiCfg, workerVars, routineVars,
                 save, content, disk, flushed, stale>>

Started(isDirty) == IF isDirty /\ worker = "off" /\ ~stop THEN "wait" ELSE worker

(* mutant: the worker only learns the new file *)
Retarget_Clean ==
  /\ life = "retarget"
  /\ path' = want
  /\ host' = want /\ life' = "idle" /\ needMigrate' = FALSE
  /\ UNCHANGED <<phase, cfg, want, uiCfg, dirty, worker, stop, routineVars, save,
                 content, disk, flushed, stale>>

(* reconfigureBanPersistWorker: what came while the file was written is    *)
(* still to be saved.                                                      *)
Retarget ==
  /\ life = "retarget"
  /\ IF want # NoPath
       THEN /\ path' = want
            /\ dirty' = (dirty \/ needMigrate)
            /\ worker' = Started(dirty')
       ELSE path' = NoPath /\ dirty' = FALSE /\ UNCHANGED worker
  /\ host' = want /\ life' = "idle" /\ needMigrate' = FALSE
  /\ UNCHANGED <<phase, cfg, want, uiCfg, stop, routineVars, save,
                 content, disk, flushed, stale>>

-----------------------------------------------------------------------------
(* updateAutobanSettings, from the page: not under pluginLifecycleMu *)

UiReads ==
  /\ phase = "run" /\ uiCfg = <<>>
  /\ uiCfg' = <<cfg>>
  /\ UNCHANGED <<phase, cfg, host, want, life, needMigrate, workerVars,
                 routineVars, save, content, disk, flushed, stale>>

(* settings.json is written, and the copy, switch and hours changed, stored. *)
UiStores ==
  /\ uiCfg # <<>>
  /\ cfg' = uiCfg[1] /\ stale' = (stale \/ uiCfg[1] # cfg)
  /\ uiCfg' = <<>>
  /\ UNCHANGED <<phase, host, want, life, needMigrate, workerVars, routineVars,
                 save, content, disk, flushed>>

UiFails ==
  /\ uiCfg # <<>>
  /\ uiCfg' = <<>>
  /\ UNCHANGED <<phase, cfg, host, want, life, needMigrate, workerVars,
                 routineVars, save, content, disk, flushed, stale>>

-----------------------------------------------------------------------------
(* The goroutines that change the pool *)

Goto(g, label) == pc' = [pc EXCEPT ![g] = label]

(* A usage report, a restore pass, a job or a request is worked on. *)
Enter(g) ==
  /\ phase = "run" /\ pc[g] = "idle"
  /\ Goto(g, "work")
  /\ UNCHANGED <<phase, cfgVars, workerVars, got, save, content, disk, flushed, stale>>

(* It sets, merges or removes a ban, or leaves the pool alone. *)
Change(g) ==
  /\ pc[g] = "work"
  /\ \/ content < MaxRev /\ content' = content + 1
        /\ \E label \in {"read", "now"} : Goto(g, label)
     \/ Goto(g, "idle") /\ UNCHANGED content
  /\ UNCHANGED <<phase, cfgVars, workerVars, got, save, disk, flushed, stale>>

(* markBanStoreDirty reads the configuration first. *)
MarkReads(g) ==
  /\ pc[g] = "read"
  /\ IF cfg # NoPath
       THEN Goto(g, "mark") /\ got' = [got EXCEPT ![g] = cfg]
       ELSE UNCHANGED got /\ \E label \in {"idle", "flush"} : Goto(g, label)
  /\ UNCHANGED <<phase, cfgVars, workerVars, save, content, disk, flushed, stale>>

(* It then tells the worker, and starts it if it is the first. *)
Mark(g) ==
  /\ pc[g] = "mark"
  /\ path' = got[g] /\ dirty' = TRUE /\ worker' = Started(TRUE)
  /\ stale' = (stale \/ got[g] # cfg)
  /\ got' = [got EXCEPT ![g] = NoPath]
  /\ \E label \in {"idle", "flush"} : Goto(g, label)
  /\ UNCHANGED <<phase, cfgVars, stop, save, content, disk, flushed>>

(* The pool is saved by the goroutine itself: by flushBanPersistWorker,    *)
(* once the worker is idle or five seconds are over, or by                 *)
(* saveActiveStoreErr.                                                     *)
SaveBegins(g) ==
  /\ pc[g] \in {"flush", "now"}
  /\ IF cfg # NoPath
       THEN /\ Begin(g, IF pc[g] = "flush" /\ path # NoPath THEN path ELSE cfg)
            /\ Goto(g, "saving")
       ELSE Goto(g, "idle") /\ UNCHANGED save
  /\ UNCHANGED <<phase, cfgVars, workerVars, got, content, disk, flushed, stale>>

(* A failure is reported or logged. *)
SaveEnds(g) ==
  /\ pc[g] = "saving"
  /\ Written(g) \/ UNCHANGED disk
  /\ Over(g) /\ Goto(g, "idle")
  /\ UNCHANGED <<phase, cfgVars, workerVars, got, content, flushed, stale>>

-----------------------------------------------------------------------------
(* banPersistWorker.loop *)

(* dirty is cleared before the file is written. *)
WorkerTakes ==
  /\ worker = "wait" /\ dirty /\ ~stop
  /\ dirty' = FALSE
  /\ LET p == IF path = NoPath THEN cfg ELSE path
     IN IF p = NoPath THEN UNCHANGED <<worker, save>>
        ELSE worker' = "save" /\ Begin(Worker, p)
  /\ UNCHANGED <<phase, cfgVars, path, stop, routineVars, content, disk,
                 flushed, stale>>

WorkerSaved ==
  /\ worker = "save"
  /\ Written(Worker) /\ Over(Worker)
  /\ worker' = "wait"
  /\ UNCHANGED <<phase, cfgVars, path, dirty, stop, routineVars, content,
                 flushed, stale>>

WorkerFails ==
  /\ worker = "save"
  /\ Over(Worker)
  /\ dirty' = TRUE
  /\ worker' = IF stop THEN "exited" ELSE "wait"
  /\ UNCHANGED <<phase, cfgVars, path, stop, routineVars, content, disk,
                 flushed, stale>>

WorkerStops ==
  /\ worker = "wait" /\ stop
  /\ worker' = "exited"
  /\ UNCHANGED <<phase, cfgVars, path, dirty, stop, routineVars, save, content,
                 disk, flushed, stale>>

-----------------------------------------------------------------------------
(* The shutdown: the goroutines that change the pool first, then the       *)
(* worker, then one last write.                                            *)

Shutdown ==
  /\ phase = "run" /\ life = "idle"
  /\ phase' = "stop"
  /\ UNCHANGED <<cfgVars, workerVars, routineVars, save, content, disk, flushed,
                 stale>>

(* mutant: the worker is stopped before the goroutines are waited for *)
StopWorker_First ==
  /\ phase = "stop"
  /\ stop' = TRUE /\ phase' = "join"
  /\ UNCHANGED <<cfgVars, path, dirty, worker, routineVars, save, content, disk,
                 flushed, stale>>

(* runWG, unbanJob.wg and the dispose workers are waited for. *)
StopWorker ==
  /\ phase = "stop" /\ \A g \in Routines : pc[g] = "idle"
  /\ stop' = TRUE /\ phase' = "join"
  /\ UNCHANGED <<cfgVars, path, dirty, worker, routineVars, save, content, disk,
                 flushed, stale>>

(* flushBanPersistLocked *)
FinalBegins ==
  /\ phase = "join" /\ worker \in {"off", "exited"}
  /\ IF cfg # NoPath
       THEN phase' = "flush" /\ Begin(Final, IF path # NoPath THEN path ELSE cfg)
            /\ UNCHANGED flushed
       ELSE phase' = "down" /\ flushed' = "off" /\ UNCHANGED save
  /\ UNCHANGED <<cfgVars, workerVars, routineVars, content, disk, stale>>

FinalEnds ==
  /\ phase = "flush"
  /\ \/ Written(Final) /\ flushed' = "ok"
     \/ UNCHANGED disk /\ flushed' = "failed"
  /\ Over(Final) /\ phase' = "down"
  /\ UNCHANGED <<cfgVars, workerVars, routineVars, content, stale>>

-----------------------------------------------------------------------------
HostStep == Migrated \/ MigrationFails \/ Publish \/ Retarget
UiStep == UiStores \/ UiFails
RoutineStep(g) == Change(g) \/ MarkReads(g) \/ Mark(g) \/ SaveBegins(g) \/ SaveEnds(g)
WorkerStep == WorkerTakes \/ WorkerSaved \/ WorkerFails \/ WorkerStops
DownStep == StopWorker \/ FinalBegins \/ FinalEnds

Next ==
  \/ Preconfigure \/ Register \/ Reconfigure \/ HostStep
  \/ UiReads \/ UiStep
  \/ \E g \in Routines : Enter(g) \/ RoutineStep(g)
  \/ WorkerStep
  \/ Shutdown \/ DownStep

Spec == Init /\ [][Next]_vars

(* Goroutines run; a save that is tried again and again succeeds. *)
Fairness ==
  /\ WF_vars(HostStep) /\ WF_vars(UiStep) /\ WF_vars(DownStep)
  /\ \A g \in Routines : WF_vars(RoutineStep(g))
  /\ WF_vars(WorkerStep) /\ SF_vars(WorkerSaved)
FairSpec == Spec /\ Fairness

-----------------------------------------------------------------------------
(* Every variable has the type the code gives it. *)
TypeOK ==
  /\ phase \in {"boot", "run", "stop", "join", "flush", "down"}
  /\ cfg \in Configs /\ host \in Configs /\ want \in Configs
  /\ life \in {"idle", "migrate", "store", "retarget"}
  /\ needMigrate \in BOOLEAN
  /\ uiCfg = <<>> \/ uiCfg \in [{1} -> Configs]
  /\ path \in Paths \union {NoPath} /\ dirty \in BOOLEAN /\ stop \in BOOLEAN
  /\ worker \in {"off", "wait", "save", "exited"}
  /\ pc \in [Routines -> {"idle", "work", "read", "mark", "flush", "now", "saving"}]
  /\ got \in [Routines -> Paths \union {NoPath}]
  /\ save \in [Savers -> [path : Paths \union {NoPath}, base : Nat]]
  /\ content \in Nat /\ disk \in [Files -> Nat]
  /\ flushed \in {"no", "off", "ok", "failed"} /\ stale \in BOOLEAN

(* After a shutdown whose last write succeeded the file the host has       *)
(* configured holds the last state of the pool ("a late Set cannot land    *)
(* after persist worker stop with no further flush", engine.go), as long   *)
(* as nobody acted upon a configuration that was replaced meanwhile.       *)
FinalStateIsSaved ==
  phase = "down" /\ flushed = "ok" =>
    /\ \E p \in Paths : disk[p] = content
    /\ ~stale => host # NoPath /\ disk[host] = content

(* A configuration the host was told is refused is not used, and one it    *)
(* was told is accepted is, by the worker too.                             *)
AcceptedConfigIsUsed ==
  life = "idle" /\ ~stale =>
    /\ cfg = host
    /\ path \in {NoPath, host}

(* A change that was handed to the worker reaches a file, whatever saves   *)
(* fail and wherever the file is moved, unless persistence is switched off *)
(* or the plugin shut down first.  After the file was moved the new one    *)
(* gets all there was then, also what came while the pool was written to   *)
(* it.                                                                     *)
ChangesReachAFile ==
  \A n \in 1 .. MaxRev : \A g \in Routines :
    (pc[g] = "mark" /\ content = n) ~>
       \/ \E p \in Paths : disk[p] >= n
       \/ NoPath \in {host, cfg} \/ phase # "run"

CaughtUp(n) == host # NoPath /\ life = "idle" /\ disk[host] >= n
NewFileCatchesUp ==
  \A n \in 1 .. MaxRev :
    (life = "retarget" /\ needMigrate /\ content = n) ~>
       (CaughtUp(n) \/ stale \/ NoPath \in {host, cfg} \/ phase # "run")

ChangesAreKept == ChangesReachAFile /\ NewFileCatchesUp

(* ban_config.go:298: "A dirty follow-up captures Sets that raced the      *)
(* migration snapshot while still using oldCfg."  A routine that read the  *)
(* old configuration and tells the worker late takes it away again.        *)
RacingSetsFollow ==
  \A n \in 1 .. MaxRev :
    (life = "retarget" /\ needMigrate /\ content = n) ~>
       (CaughtUp(n) \/ NoPath \in {host, cfg} \/ phase # "run")
=============================================================================
