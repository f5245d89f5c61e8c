------------------------------- MODULE BanSave -------------------------------
(***************************************************************************)
(* banStore.Save (ban_store.go): the group commit that writes the ban pool *)
(* to its state file.  Callers take a snapshot and a generation under      *)
(* saveMu; one of them becomes the writer and drains the pending snapshot, *)
(* releasing saveMu around the disk write, while the others wait on        *)
(* saveCond until their generation, or a newer one, is on disk.            *)
(*                                                                         *)
(* Data is abstracted to versions: the pool is a counter `content` that    *)
(* every change of the pool increments, a snapshot is the value of that    *)
(* counter, and a file holds the version it was last written with.         *)
(* writeBanEntries writes a temporary file and renames it over the target, *)
(* so a write has its whole effect or none.                                *)
(***************************************************************************)
EXTENDS Integers

CONSTANTS
  Callers,       \* goroutines that call Save
  Paths,         \* state files: more than one while a reconfigure moves the pool
  EmptyVersions, \* versions of the pool that have no row
  MaxContent,    \* bound: changes of the pool
  MaxGen         \* bound: calls of Save

ASSUME BoundsAssumption == MaxContent \in Nat /\ MaxGen \in Nat
ASSUME EmptyAssumption == EmptyVersions \subseteq Nat

VARIABLES
  content,       \* version of the pool in memory
  disk,          \* disk[p]: version in file p
  saveMu,        \* "free" or "held"
  saveGen, saveWritten, savePending, savePath, saveWriting,
  pc,            \* where each caller is in Save
  myGen,         \* local variable myGen of each caller
  asked,         \* the path and the snapshot the caller entered Save with
  cur, writeGen, writePath,  \* the writer's locals during a disk write
  acked          \* history: newest version each path was acknowledged with

NoSnapshot == -1          \* savePending = nil

storeVars == <<saveGen, saveWritten, savePending, savePath, saveWriting>>
callVars == <<myGen, asked>>
writeVars == <<cur, writeGen, writePath>>
vars == <<content, disk, saveMu, storeVars, pc, callVars, writeVars, acked>>

Goto(c, label) == pc' = [pc EXCEPT ![c] = label]

Init ==
  /\ content = 0
  /\ disk = [p \in Paths |-> 0]
  /\ saveMu = "free"
  /\ saveGen = 0 /\ saveWritten = 0
  /\ savePending = NoSnapshot
  /\ savePath \in Paths
  /\ saveWriting = FALSE
  /\ pc = [c \in Callers |-> "idle"]
  /\ myGen = [c \in Callers |-> 0]
  /\ asked = [c \in Callers |-> [path |-> savePath, snap |-> 0]]
  /\ cur = [c \in Callers |-> 0]
  /\ writeGen = [c \in Callers |-> 0]
  /\ writePath = [c \in Callers |-> savePath]
  /\ acked = [p \in Paths |-> 0]

(* Set, Delete, UpdateCpaSyncState, ...: the pool changes, under its own   *)
(* mutex, whatever the savers are doing.                                   *)
Mutate ==
  /\ content < MaxContent
  /\ content' = content + 1
  /\ UNCHANGED <<disk, saveMu, storeVars, pc, callVars, writeVars, acked>>

(* Entry: lock saveMu, snapshot the pool, take a generation, replace       *)
(* whatever was pending and the path it was meant for.                     *)
Begin(c, p) ==
  /\ pc[c] = "idle"
  /\ saveMu = "free"
  /\ saveGen < MaxGen
  /\ saveMu' = "held"
  /\ saveGen' = saveGen + 1
  /\ savePending' = content
  /\ savePath' = p
  /\ myGen' = [myGen EXCEPT ![c] = saveGen + 1]
  /\ asked' = [asked EXCEPT ![c] = [path |-> p, snap |-> content]]
  /\ Goto(c, "check")
  /\ UNCHANGED <<content, disk, saveWritten, saveWriting, writeVars, acked>>

ReturnWhen(c, done) ==
  /\ pc[c] = "check"
  /\ done
  /\ saveMu' = "free"
  /\ Goto(c, "idle")
  /\ acked' = [acked EXCEPT ![asked[c].path] =
                 IF asked[c].snap > @ THEN asked[c].snap ELSE @]
  /\ UNCHANGED <<content, disk, storeVars, callVars, writeVars>>

(* mutant: the loop compares with the generation assigned, not written *)
ReturnNil_Assigned(c) == ReturnWhen(c, saveGen >= myGen[c])

(* The loop condition is false: this generation or a newer one is written. *)
ReturnNil(c) == ReturnWhen(c, saveWritten >= myGen[c])

(* Somebody is writing: saveCond.Wait, which releases saveMu. *)
Wait(c) ==
  /\ pc[c] = "check"
  /\ saveWritten < myGen[c]
  /\ saveWriting
  /\ saveMu' = "free"
  /\ Goto(c, "wait")
  /\ UNCHANGED <<content, disk, storeVars, callVars, writeVars, acked>>

(* A broadcast has ended the wait: lock saveMu again and re-evaluate. *)
Rewake(c) ==
  /\ pc[c] = "woken"
  /\ saveMu = "free"
  /\ saveMu' = "held"
  /\ Goto(c, "check")
  /\ UNCHANGED <<content, disk, storeVars, callVars, writeVars, acked>>

(* Nobody is writing: become the writer. *)
Lead(c) ==
  /\ pc[c] = "check"
  /\ saveWritten < myGen[c]
  /\ ~saveWriting
  /\ saveWriting' = TRUE
  /\ Goto(c, "drain")
  /\ UNCHANGED <<content, disk, saveMu, saveGen, saveWritten, savePending,
                 savePath, callVars, writeVars, acked>>

(* Take the pending snapshot with the newest generation and the path it is *)
(* for, and unlock saveMu for the duration of the write.                   *)
Take(c) ==
  /\ pc[c] = "drain"
  /\ savePending # NoSnapshot
  /\ cur' = [cur EXCEPT ![c] = savePending]
  /\ writeGen' = [writeGen EXCEPT ![c] = saveGen]
  /\ writePath' = [writePath EXCEPT ![c] = savePath]
  /\ savePending' = NoSnapshot
  /\ saveMu' = "free"
  /\ Goto(c, "write")
  /\ UNCHANGED <<content, disk, saveGen, saveWritten, savePath, saveWriting,
                 callVars, acked>>

(* writeBanEntries succeeds. *)
WriteOk(c) ==
  /\ pc[c] = "write"
  /\ disk' = [disk EXCEPT ![writePath[c]] = cur[c]]
  /\ Goto(c, "wrote")
  /\ UNCHANGED <<content, saveMu, storeVars, callVars, writeVars, acked>>

(* writeBanEntries fails before the rename. *)
WriteFail(c) ==
  /\ pc[c] = "write"
  /\ Goto(c, "failed")
  /\ UNCHANGED <<content, disk, saveMu, storeVars, callVars, writeVars, acked>>

(* Lock saveMu after a good write, publish its generation, drain on. *)
Written(c) ==
  /\ pc[c] = "wrote"
  /\ saveMu = "free"
  /\ saveMu' = "held"
  /\ saveWritten' = writeGen[c]
  /\ Goto(c, "drain")
  /\ UNCHANGED <<content, disk, saveGen, savePending, savePath, saveWriting,
                 callVars, writeVars, acked>>

(* Everyone waiting on saveCond is released; c goes to `label`. *)
Broadcast(c, label) ==
  pc' = [d \in Callers |-> IF d = c THEN label
                           ELSE IF pc[d] = "wait" THEN "woken" ELSE pc[d]]

(* mutant: the waiters are not told *)
Drained_Silent(c) ==
  /\ pc[c] = "drain"
  /\ savePending = NoSnapshot
  /\ saveWriting' = FALSE
  /\ Goto(c, "check")
  /\ UNCHANGED <<content, disk, saveMu, saveGen, saveWritten, savePending,
                 savePath, callVars, writeVars, acked>>

(* Nothing is pending any more: stop writing and wake the waiters. *)
Drained(c) ==
  /\ pc[c] = "drain"
  /\ savePending = NoSnapshot
  /\ saveWriting' = FALSE
  /\ Broadcast(c, "check")
  /\ UNCHANGED <<content, disk, saveMu, saveGen, saveWritten, savePending,
                 savePath, callVars, writeVars, acked>>

Copied(snap) == IF snap \in EmptyVersions THEN NoSnapshot ELSE snap

StepDown(c) ==
  /\ saveWriting' = FALSE
  /\ IF saveWritten < myGen[c]
       THEN saveMu' = "free" /\ Broadcast(c, "idle")
       ELSE saveMu' = "held" /\ Broadcast(c, "check")
  /\ UNCHANGED <<content, disk, saveGen, saveWritten, callVars, writeVars,
                 acked>>

(* Lock saveMu after a failed write.  The snapshot becomes pending again   *)
(* unless a newer one arrived; the writer steps down and wakes the rest.   *)
(* What is put back is the writer's copy, append(nil, pending...), and the *)
(* copy of an empty slice is nil: then nothing is pending.                 *)
(* The writer returns the error, unless an earlier pass already wrote its  *)
(* own generation: then the loop condition ends the call without an error. *)
Failed(c) ==
  /\ pc[c] = "failed"
  /\ saveMu = "free"
  /\ IF savePending = NoSnapshot
       THEN savePending' = Copied(cur[c]) /\ savePath' = writePath[c]
       ELSE UNCHANGED <<savePending, savePath>>
  /\ StepDown(c)

(* The steps of one call once it has entered Save. *)
Step(c) ==
  \/ ReturnNil(c) \/ Wait(c) \/ Rewake(c) \/ Lead(c) \/ Take(c)
  \/ WriteOk(c) \/ WriteFail(c) \/ Written(c) \/ Drained(c) \/ Failed(c)

Next ==
  \/ Mutate
  \/ \E c \in Callers : Step(c) \/ \E p \in Paths : Begin(c, p)

Spec == Init /\ [][Next]_vars

(* A goroutine inside Save keeps running, and Go's mutex does not starve a *)
(* waiter: the steps that lock saveMu are strongly fair.  Nothing obliges  *)
(* anyone to call Save, or to change the pool.                             *)
Fairness == \A c \in Callers : SF_vars(Step(c))

FairSpec == Spec /\ Fairness

-----------------------------------------------------------------------------
Labels == {"idle", "check", "wait", "woken", "drain", "write", "wrote", "failed"}

(* Every variable has the type the code gives it. *)
TypeOK ==
  /\ content \in Nat
  /\ disk \in [Paths -> Nat]
  /\ saveMu \in {"free", "held"}
  /\ saveGen \in Nat /\ saveWritten \in 0 .. saveGen
  /\ savePending \in Nat \union {NoSnapshot}
  /\ savePath \in Paths
  /\ saveWriting \in BOOLEAN
  /\ pc \in [Callers -> Labels]
  /\ myGen \in [Callers -> Nat]
  /\ asked \in [Callers -> [path : Paths, snap : Nat]]
  /\ cur \in [Callers -> Nat]
  /\ writeGen \in [Callers -> Nat]
  /\ writePath \in [Callers -> Paths]
  /\ acked \in [Paths -> Nat]

(* The writer drops saveMu around every disk write, and still there is     *)
(* never a second one: two writers would rename over each other in any     *)
(* order (ban_store.go, saveWriting).                                      *)
Leading(c) == pc[c] \in {"drain", "write", "wrote", "failed"}

SingleWriter == \A c, d \in Callers : Leading(c) /\ Leading(d) => c = d

(* A caller that still has to wait, with nobody writing, finds a snapshot  *)
(* to write.  Otherwise the loop `for saveWritten < myGen` of Save would   *)
(* spin for ever with saveMu held, and every later Save would hang.        *)
NoSpin == ~saveWriting /\ saveWritten < saveGen => savePending # NoSnapshot

(* Nobody sleeps on saveCond when there is no writer left to wake him. *)
NoLostWakeup == (\E c \in Callers : pc[c] = "wait") => saveWriting

(* "Concurrent saves are serialized; only the newest snapshot is           *)
(* guaranteed on disk": a file never goes back to an older snapshot, however *)
(* failed writes, retries and newer calls are interleaved.                 *)
DiskNeverGoesBack == [][\A p \in Paths : disk'[p] >= disk[p]]_vars

(* "Blocks until this or a newer write finishes": whoever is told the save *)
(* succeeded finds its snapshot, or a newer one, in some state file.       *)
SavedSomewhere ==
  [][\A c \in Callers :
       ReturnNil(c) => \E p \in Paths : disk[p] >= asked[c].snap]_vars

(* The same for the file the caller named. *)
SavedWhereAsked ==
  [][\A c \in Callers :
       ReturnNil(c) => disk[asked[c].path] >= asked[c].snap]_vars

(* Every call returns: a disk that fails costs an error, never a hang. *)
EveryCallReturns == \A c \in Callers : pc[c] = "check" ~> pc[c] = "idle"

(* The saver implements the abstract durable store. *)
Durable == INSTANCE DurableSnapshot
ImplementsDurableSnapshot == Durable!Spec
=============================================================================
