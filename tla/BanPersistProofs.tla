--------------------------- MODULE BanPersistProofs ---------------------------
(***************************************************************************)
(* Proofs about the persistence of the ban pool, for any files, any number *)
(* of goroutines that change the pool and any number of changes.           *)
(***************************************************************************)
EXTENDS BanPersist, TLAPS

Lives == {"idle", "migrate", "store", "retarget"}
Saves == [path : Paths \union {NoPath}, base : Nat]

(* What the proofs need of the types. *)
PersistType ==
  /\ cfg \in Configs /\ host \in Configs /\ want \in Configs
  /\ life \in Lives
  /\ uiCfg # <<>> => uiCfg[1] \in Configs
  /\ path \in Configs
  /\ got \in [Routines -> Configs]
  /\ pc \in [Routines -> {"idle", "work", "read", "mark", "flush", "now", "saving"}]
  /\ save \in [Savers -> Saves]
  /\ content \in Nat /\ disk \in [Files -> Nat]

(* The configuration in use is the one the host knows of, or, while it is  *)
(* being handed on, the one the host is waiting for; so is the worker's    *)
(* file.  Both may be wrong once a configuration that was replaced         *)
(* meanwhile has been acted upon.                                          *)
ConfigInv ==
  /\ phase = "boot" =>
       life = "idle" /\ path = NoPath /\ \A g \in Routines : pc[g] = "idle"
  /\ ~stale =>
       /\ cfg = IF life = "retarget" THEN want ELSE host
       /\ \/ path \in {NoPath, host}
          \/ life = "retarget" /\ path = want

(* Once the worker is told to stop nobody but the final write saves, and   *)
(* nobody changes the pool; the final write takes all of it.               *)
DownInv ==
  /\ phase \notin {"boot", "run"} => life = "idle"
  /\ phase \in {"join", "flush", "down"} => \A g \in Routines : pc[g] = "idle"
  /\ phase \in {"flush", "down"} => worker \in {"off", "exited"}
  /\ phase = "flush" =>
       /\ save[Final].base = content /\ save[Final].path \in Paths
       /\ ~stale => save[Final].path = host
  /\ flushed = "ok" =>
       /\ phase = "down"
       /\ \E p \in Paths : disk[p] = content
       /\ ~stale => host # NoPath /\ disk[host] = content

(* Initially no configuration was acted upon and nothing was saved. *)
LEMMA PersistInit == Init => PersistType /\ ConfigInv /\ DownInv
BY DEF Init, PersistType, ConfigInv, DownInv, Configs, Lives, Saves, NoSave

(* A save that begins goes to a file, or to none, with a version. *)
LEMMA BeginType ==
  ASSUME PersistType, NEW t \in Savers, NEW p \in Configs, Begin(t, p)
  PROVE  save' \in [Savers -> Saves]
BY DEF PersistType, Begin, Saves, Configs

(* A save that is over leaves none behind. *)
LEMMA OverType ==
  ASSUME PersistType, NEW t \in Savers, Over(t)
  PROVE  save' \in [Savers -> Saves]
BY DEF PersistType, Over, NoSave, Saves

(* What a save writes is a version, and it goes to a file of the plugin. *)
LEMMA WrittenType ==
  ASSUME PersistType, NEW t \in Savers, Written(t)
  PROVE  disk' \in [Files -> Nat]
<1> DEFINE p == save[t].path
           oldest == IF disk[p] > content THEN save[t].base
                     ELSE Newer(save[t].base, disk[p])
<1>1. PICK v \in oldest .. content : disk' = [disk EXCEPT ![p] = v]
  BY DEF Written
<1>2. CASE p \in Files
  <2>1. oldest \in Nat
    BY <1>2 DEF PersistType, Saves, Newer
  <2>2. v \in Nat
    BY <2>1 DEF PersistType
  <2> QED
    BY <1>1, <2>2 DEF PersistType
<1>3. CASE p \notin Files
  BY <1>1, <1>3 DEF PersistType
<1> QED
  BY <1>2, <1>3

(* Every step keeps the types. *)
LEMMA TypeStep ==
  ASSUME PersistType, [Next]_vars
  PROVE  PersistType'
<1> USE DEF PersistType, cfgVars, workerVars, routineVars
<1>1. CASE Preconfigure
  BY <1>1 DEF Preconfigure
<1>2. CASE Register
  <2>1. PICK c \in Configs :
          /\ cfg' = c /\ host' = c /\ want' = c
          /\ \/ c = NoPath /\ UNCHANGED <<content, disk>>
             \/ /\ c # NoPath /\ disk[c] # 0
                /\ content' = disk[c] /\ UNCHANGED disk
             \/ /\ c # NoPath /\ disk[c] = 0
                /\ content' = disk[Legacy]
                /\ \E d \in {disk, [disk EXCEPT ![c] = disk[Legacy]],
                             [disk EXCEPT ![c] = disk[Legacy], ![Legacy] = 0]} :
                     disk' = d
    BY <1>2 DEF Register
  <2>2. content' \in Nat
    BY <2>1 DEF Files, Configs
  <2>3. disk' \in [Files -> Nat]
    BY <2>1 DEF Files, Configs
  <2> QED
    BY <1>2, <2>1, <2>2, <2>3 DEF Register
<1>3. CASE Reconfigure
  <2>1. PICK c \in Configs : /\ want' = c
                             /\ \/ life' = "migrate" /\ Begin(Host, c)
                                \/ life' = "store" /\ UNCHANGED save
    BY <1>3 DEF Reconfigure
  <2>2. save' \in [Savers -> Saves]
    BY <2>1, BeginType DEF Savers
  <2> QED
    BY <1>3, <2>1, <2>2 DEF Reconfigure, Lives
<1>4. CASE Migrated
  BY <1>4, WrittenType, OverType DEF Migrated, Savers, Lives
<1>5. CASE MigrationFails
  BY <1>5, OverType DEF MigrationFails, Savers, Lives
<1>6. CASE Publish
  BY <1>6 DEF Publish, Lives
<1>7. CASE Retarget
  BY <1>7 DEF Retarget, Lives, Configs
<1>8. CASE UiReads
  BY <1>8 DEF UiReads
<1>9. CASE UiStep
  BY <1>9 DEF UiStep, UiStores, UiFails
<1>10. CASE \E g \in Routines : Enter(g) \/ RoutineStep(g)
  <2> PICK g \in Routines : Enter(g) \/ RoutineStep(g)
    BY <1>10
  <2> USE DEF Goto, Savers
  <2>1. CASE Enter(g) \/ Change(g) \/ MarkReads(g)
    BY <2>1 DEF Enter, Change, MarkReads
  <2>2. CASE Mark(g)
    BY <2>2 DEF Mark, Configs
  <2>3. CASE SaveBegins(g)
    BY <2>3, BeginType DEF SaveBegins
  <2>4. CASE SaveEnds(g)
    BY <2>4, WrittenType, OverType DEF SaveEnds
  <2> QED
    BY <2>1, <2>2, <2>3, <2>4 DEF RoutineStep
<1>11. CASE WorkerStep
  <2> USE DEF Savers
  <2>1. CASE WorkerTakes
    BY <2>1, BeginType DEF WorkerTakes
  <2>2. CASE WorkerSaved
    BY <2>2, WrittenType, OverType DEF WorkerSaved
  <2>3. CASE WorkerFails \/ WorkerStops
    BY <2>3, OverType DEF WorkerFails, WorkerStops
  <2> QED
    BY <1>11, <2>1, <2>2, <2>3 DEF WorkerStep
<1>12. CASE Shutdown \/ StopWorker
  BY <1>12 DEF Shutdown, StopWorker
<1>13. CASE FinalBegins
  BY <1>13, BeginType DEF FinalBegins, Savers
<1>14. CASE FinalEnds
  BY <1>14, WrittenType, OverType DEF FinalEnds, Savers
<1>15. CASE UNCHANGED vars
  BY <1>15 DEF vars
<1> QED
  BY <1>1, <1>2, <1>3, <1>4, <1>5, <1>6, <1>7, <1>8, <1>9, <1>10, <1>11, <1>12,
     <1>13, <1>14, <1>15 DEF Next, HostStep, DownStep

-----------------------------------------------------------------------------
(* Every step keeps the configuration in use the accepted one. *)
LEMMA ConfigStep ==
  ASSUME PersistType, ConfigInv, [Next]_vars
  PROVE  ConfigInv'
<1> USE DEF ConfigInv, cfgVars, workerVars, routineVars
<1>1. CASE Preconfigure
  BY <1>1 DEF Preconfigure
<1>2. CASE Register
  BY <1>2 DEF Register
<1>3. CASE Reconfigure
  BY <1>3 DEF Reconfigure
<1>4. CASE Migrated
  BY <1>4 DEF Migrated
<1>5. CASE MigrationFails
  BY <1>5 DEF MigrationFails
<1>6. CASE Publish
  BY <1>6 DEF Publish
<1>7. CASE Retarget
  BY <1>7 DEF Retarget
<1>8. CASE UiReads \/ UiFails
  BY <1>8 DEF UiReads, UiFails
<1>9. CASE UiStores
  <2>1. ~stale' => ~stale /\ cfg' = cfg
    BY <1>9, Zenon DEF UiStores
  <2> QED
    BY <1>9, <2>1 DEF UiStores
<1>10. CASE \E g \in Routines : Enter(g) \/ RoutineStep(g)
  <2> PICK g \in Routines : Enter(g) \/ RoutineStep(g)
    BY <1>10
  <2>1. CASE Mark(g)
    <3>1. ~stale' => ~stale /\ got[g] = cfg
      BY <2>1, Zenon DEF Mark
    <3>2. path' = got[g] /\ phase # "boot"
      BY <2>1 DEF Mark
    <3> QED
      BY <2>1, <3>1, <3>2 DEF Mark
  <2>2. CASE Enter(g) \/ Change(g) \/ MarkReads(g) \/ SaveBegins(g) \/ SaveEnds(g)
    <3>1. phase # "boot"
      BY <2>2 DEF Enter, Change, MarkReads, SaveBegins, SaveEnds
    <3> QED
      BY <2>2, <3>1 DEF Enter, Change, MarkReads, SaveBegins, SaveEnds
  <2> QED
    BY <2>1, <2>2 DEF RoutineStep
<1>11. CASE WorkerStep
  BY <1>11 DEF WorkerStep, WorkerTakes, WorkerSaved, WorkerFails, WorkerStops
<1>12. CASE Shutdown \/ DownStep
  BY <1>12 DEF Shutdown, DownStep, StopWorker, FinalBegins, FinalEnds
<1>13. CASE UNCHANGED vars
  BY <1>13 DEF vars
<1> QED
  BY <1>1, <1>2, <1>3, <1>4, <1>5, <1>6, <1>7, <1>8, <1>9, <1>10, <1>11, <1>12,
     <1>13 DEF Next, HostStep, UiStep

(* The final write leaves what the pool holds in the file it goes to. *)
LEMMA FinalWrites ==
  ASSUME PersistType, Written(Final), save[Final].base = content,
         save[Final].path \in Paths
  PROVE  disk'[save[Final].path] = content
<1> DEFINE p == save[Final].path
           oldest == IF disk[p] > content THEN save[Final].base
                     ELSE Newer(save[Final].base, disk[p])
<1>1. PICK v \in oldest .. content : disk' = [disk EXCEPT ![p] = v]
  BY DEF Written
<1>2. content \in Nat /\ disk[p] \in Nat /\ p \in Files
  BY DEF PersistType, Files
<1>3. v = content
  BY <1>2 DEF Newer
<1> QED
  BY <1>1, <1>2, <1>3 DEF PersistType

(* Every step keeps what the shutdown relies on. *)
LEMMA DownStepKeeps ==
  ASSUME PersistType, ConfigInv, DownInv, [Next]_vars
  PROVE  DownInv'
<1> USE DEF DownInv, cfgVars, workerVars, routineVars
<1>1. CASE Preconfigure \/ Register \/ Reconfigure
  BY <1>1 DEF Preconfigure, Register, Reconfigure
<1>2. CASE HostStep
  <2>1. phase \in {"boot", "run"} /\ UNCHANGED <<phase, flushed>>
    BY <1>2 DEF HostStep, Migrated, MigrationFails, Publish, Retarget
  <2> QED
    BY <2>1
<1>3. CASE UiReads \/ UiFails
  BY <1>3 DEF UiReads, UiFails
<1>4. CASE UiStores
  <2>1. ~stale' => ~stale
    BY <1>4, Zenon DEF UiStores
  <2> QED
    BY <1>4, <2>1 DEF UiStores
<1>5. CASE \E g \in Routines : Enter(g) \/ RoutineStep(g)
  <2>1. phase \notin {"join", "flush", "down"}
    BY <1>5 DEF RoutineStep, Enter, Change, MarkReads, Mark, SaveBegins, SaveEnds
  <2>2. UNCHANGED <<phase, life, flushed>>
    BY <1>5 DEF RoutineStep, Enter, Change, MarkReads, Mark, SaveBegins, SaveEnds
  <2> QED
    BY <2>1, <2>2
<1>6. CASE WorkerStep
  <2>1. phase \notin {"flush", "down"}
    BY <1>6 DEF WorkerStep, WorkerTakes, WorkerSaved, WorkerFails, WorkerStops
  <2>2. UNCHANGED <<phase, life, pc, flushed>>
    BY <1>6 DEF WorkerStep, WorkerTakes, WorkerSaved, WorkerFails, WorkerStops
  <2> QED
    BY <2>1, <2>2
<1>7. CASE Shutdown \/ StopWorker
  BY <1>7 DEF Shutdown, StopWorker
<1>8. CASE FinalBegins
  <2>1. CASE cfg = NoPath
    BY <1>8, <2>1 DEF FinalBegins
  <2>2. CASE cfg # NoPath
    <3> DEFINE p == IF path # NoPath THEN path ELSE cfg
    <3>1. save' = [save EXCEPT ![Final] = [path |-> p, base |-> content]]
      BY <1>8, <2>2 DEF FinalBegins, Begin
    <3>2. p \in Paths /\ (~stale => p = host)
      BY <1>8, <2>2 DEF FinalBegins, PersistType, Configs, ConfigInv
    <3>3. save'[Final].base = content /\ save'[Final].path = p
      BY <3>1 DEF PersistType, Savers
    <3> QED
      BY <1>8, <2>2, <3>2, <3>3 DEF FinalBegins
  <2> QED
    BY <2>1, <2>2
<1>9. CASE FinalEnds
  <2>1. CASE Written(Final) /\ flushed' = "ok"
    <3>1. disk'[save[Final].path] = content
      BY <1>9, <2>1, FinalWrites DEF FinalEnds
    <3>2. ~stale => save[Final].path = host /\ host # NoPath
      BY <1>9, BanPersistAssumption DEF FinalEnds
    <3> QED
      BY <1>9, <2>1, <3>1, <3>2 DEF FinalEnds
  <2>2. CASE flushed' = "failed"
    BY <1>9, <2>2 DEF FinalEnds
  <2> QED
    BY <1>9, <2>1, <2>2 DEF FinalEnds
<1>10. CASE UNCHANGED vars
  BY <1>10 DEF vars
<1> QED
  BY <1>1, <1>2, <1>3, <1>4, <1>5, <1>6, <1>7, <1>8, <1>9, <1>10
     DEF Next, UiStep, DownStep

(* The three invariants hold in every state of the plugin. *)
THEOREM PersistInvariant == Spec => [](PersistType /\ ConfigInv /\ DownInv)
<1>1. Init => PersistType /\ ConfigInv /\ DownInv
  BY PersistInit
<1>2. PersistType /\ ConfigInv /\ DownInv /\ [Next]_vars
        => (PersistType /\ ConfigInv /\ DownInv)'
  BY TypeStep, ConfigStep, DownStepKeeps
<1> QED
  BY <1>1, <1>2, PTL DEF Spec

(* A configuration the host was told is refused is never in use, and one   *)
(* it was told is accepted is, by the worker too, however saves fail and   *)
(* whatever goroutines, worker and settings page do meanwhile - as long as *)
(* none of them acts upon a configuration that was replaced.               *)
THEOREM ConfigIsUsed == Spec => []AcceptedConfigIsUsed
<1>1. ConfigInv => AcceptedConfigIsUsed
  BY DEF ConfigInv, AcceptedConfigIsUsed
<1> QED
  BY <1>1, PersistInvariant, PTL

(* After a shutdown whose last write succeeded a file holds the last state *)
(* of the pool, and so does the one the host has configured.               *)
THEOREM FinalState == Spec => []FinalStateIsSaved
<1>1. DownInv => FinalStateIsSaved
  BY DEF DownInv, FinalStateIsSaved
<1> QED
  BY <1>1, PersistInvariant, PTL
=============================================================================
