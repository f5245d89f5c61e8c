----------------------------- MODULE ResultStore -----------------------------
(***************************************************************************)
(* The saver of the inspection results: engine_persist.go numbers every    *)
(* copy of the rows while it holds engine.mu and saves it later, some of   *)
(* the copies in goroutines of their own; savePersistedSnapshot in         *)
(* store.go keeps the newest copy only and lets one caller write at a      *)
(* time.  Afterwards each caller records how its save went, for the page.  *)
(*                                                                         *)
(* A copy is its number.  Callers are slots that are used again.           *)
(***************************************************************************)
EXTENDS Integers, FiniteSets

CONSTANTS
  Callers,
  MaxSeq          \* bound: copies taken

ASSUME StoreAssumption == IsFiniteSet(Callers) /\ MaxSeq \in Nat

None == 0         \* storePending == nil; copies are numbered from 1

VARIABLES
  persistSeq,     \* number of the last copy
  pending,        \* storePending
  saveGen,        \* storeSaveGen
  writtenGen,     \* storeWrittenGen
  writing,        \* storeWriting
  disk,           \* the copy results.json holds
  pc, copy,       \* of each caller: where it is, the copy it took
  current,        \* the copy the writer writes
  result,         \* what the save of a caller returned
  statusSeq, persistError,   \* what the page shows
  acked           \* history: newest copy a caller saw written before it left

storeVars == <<pending, saveGen, writtenGen, writing, disk, current>>
statusVars == <<statusSeq, persistError>>
vars == <<persistSeq, storeVars, pc, copy, result, statusVars, acked>>

Init ==
  /\ persistSeq = 0
  /\ pending = None /\ saveGen = 0 /\ writtenGen = 0 /\ writing = FALSE
  /\ disk = 0 /\ current = None
  /\ pc = [c \in Callers |-> "idle"]
  /\ copy = [c \in Callers |-> None]
  /\ result = [c \in Callers |-> "none"]
  /\ statusSeq = 0 /\ persistError = FALSE
  /\ acked = 0

Goto(c, label) == pc' = [pc EXCEPT ![c] = label]
Newer(m, n) == IF m > n THEN m ELSE n

(* copyPersistedLocked; the save may start much later. *)
Copy(c) ==
  /\ pc[c] = "idle" /\ persistSeq < MaxSeq
  /\ persistSeq' = persistSeq + 1
  /\ copy' = [copy EXCEPT ![c] = persistSeq + 1]
  /\ Goto(c, "save")
  /\ UNCHANGED <<storeVars, result, statusVars, acked>>

Return(c, how) ==
  /\ result' = [result EXCEPT ![c] = how]
  /\ Goto(c, "record")

(* A newer copy was queued after this one was taken: nothing to do. *)
Overtaken(c) ==
  /\ pc[c] = "save" /\ copy[c] < saveGen
  /\ Return(c, "ok")
  /\ UNCHANGED <<persistSeq, storeVars, copy, statusVars, acked>>

(* mutant: the copy goes into the queue whatever is there *)
Enqueue_Any(c) ==
  /\ pc[c] = "save"
  /\ saveGen' = Newer(saveGen, copy[c])
  /\ pending' = copy[c]
  /\ Goto(c, "wait")
  /\ UNCHANGED <<persistSeq, writtenGen, writing, disk, current, copy, result,
                 statusVars, acked>>

Enqueue(c) ==
  /\ pc[c] = "save" /\ copy[c] >= saveGen
  /\ saveGen' = copy[c]
  /\ pending' = copy[c]
  /\ Goto(c, "wait")
  /\ UNCHANGED <<persistSeq, writtenGen, writing, disk, current, copy, result,
                 statusVars, acked>>

(* The copy, or a newer one, was written meanwhile. *)
SeesItWritten(c) ==
  /\ pc[c] = "wait" /\ writtenGen >= copy[c]
  /\ acked' = Newer(acked, copy[c])
  /\ Return(c, "ok")
  /\ UNCHANGED <<persistSeq, storeVars, copy, statusVars>>

(* Nobody writes: the caller does, the newest copy first of all. *)
BecomeWriter(c) ==
  /\ pc[c] = "wait" /\ writtenGen < copy[c] /\ ~writing /\ pending # None
  /\ writing' = TRUE
  /\ current' = pending /\ pending' = None
  /\ Goto(c, "write")
  /\ UNCHANGED <<persistSeq, saveGen, writtenGen, disk, copy, result,
                 statusVars, acked>>

(* results.json is renamed over, or stays as it was. *)
Replaced(v) == disk' = v

(* The file is replaced.  The writer goes on while copies are waiting. *)
WriteDone(c) ==
  /\ pc[c] = "write"
  /\ Replaced(current)
  /\ writtenGen' = Newer(writtenGen, current)
  /\ current' = pending /\ pending' = None
  /\ writing' = (pending # None)
  /\ Goto(c, IF pending # None THEN "write" ELSE "wait")
  /\ UNCHANGED <<persistSeq, saveGen, copy, result, statusVars, acked>>

(* mutant: the copy that could not be written is forgotten *)
WriteFails_Drops(c) ==
  /\ pc[c] = "write"
  /\ current' = None
  /\ writing' = FALSE
  /\ IF writtenGen < copy[c]
       THEN Return(c, "error")
       ELSE Goto(c, "wait") /\ UNCHANGED result
  /\ UNCHANGED <<persistSeq, saveGen, writtenGen, disk, pending, copy,
                 statusVars, acked>>

(* It is put back unless a newer one came; the caller may not be affected. *)
WriteFails(c) ==
  /\ pc[c] = "write"
  /\ pending' = IF pending = None THEN current ELSE pending
  /\ current' = None
  /\ writing' = FALSE
  /\ IF writtenGen < copy[c]
       THEN Return(c, "error")
       ELSE Goto(c, "wait") /\ UNCHANGED result
  /\ UNCHANGED <<persistSeq, saveGen, writtenGen, disk, copy, statusVars, acked>>

(* mutant: a late report counts although a newer one was shown *)
Record_Late(c) ==
  /\ pc[c] = "record"
  /\ statusSeq' = copy[c] /\ persistError' = (result[c] = "error")
  /\ Goto(c, "idle")
  /\ copy' = [copy EXCEPT ![c] = None]
  /\ result' = [result EXCEPT ![c] = "none"]
  /\ UNCHANGED <<persistSeq, storeVars, acked>>

(* applyPersistResultLocked *)
Record(c) ==
  /\ pc[c] = "record"
  /\ IF copy[c] < statusSeq
       THEN UNCHANGED statusVars
       ELSE statusSeq' = copy[c] /\ persistError' = (result[c] = "error")
  /\ Goto(c, "idle")
  /\ copy' = [copy EXCEPT ![c] = None]
  /\ result' = [result EXCEPT ![c] = "none"]
  /\ UNCHANGED <<persistSeq, storeVars, acked>>

Step(c) == \/ Overtaken(c) \/ Enqueue(c) \/ SeesItWritten(c) \/ BecomeWriter(c)
           \/ WriteDone(c) \/ WriteFails(c) \/ Record(c)

Next == \E c \in Callers : Copy(c) \/ Step(c)

Spec == Init /\ [][Next]_vars

(* Goroutines run and a write ends, one way or the other. *)
Fairness == \A c \in Callers : WF_vars(Step(c))
FairSpec == Spec /\ Fairness

-----------------------------------------------------------------------------
(* Every variable has the type the code gives it. *)
TypeOK ==
  /\ persistSeq \in Nat /\ pending \in Nat /\ saveGen \in Nat
  /\ writtenGen \in Nat /\ disk \in Nat /\ current \in Nat
  /\ statusSeq \in Nat /\ acked \in Nat
  /\ writing \in BOOLEAN /\ persistError \in BOOLEAN
  /\ pc \in [Callers -> {"idle", "save", "wait", "write", "record"}]
  /\ copy \in [Callers -> Nat]
  /\ result \in [Callers -> {"none", "ok", "error"}]

(* Once everything has settled and the page shows no error, results.json   *)
(* holds the newest copy: a late report of an older save, or an old copy   *)
(* written late, cannot hide that the newest was not saved.                *)
Settled == \A c \in Callers : pc[c] = "idle"
NoErrorMeansSaved == Settled /\ ~persistError => disk = persistSeq

(* Every save returns although writes fail and newer copies keep coming:   *)
(* finish, stop and the shutdown wait for theirs (persistWG).              *)
EverySaveReturns == \A c \in Callers : pc[c] # "idle" ~> pc[c] = "idle"

(* results.json never goes back to an older copy, and who was told by the  *)
(* saver that its copy is written finds it, or a newer one, in the file.   *)
Durable == INSTANCE DurableSnapshot
             WITH Paths <- {"results.json"}, content <- persistSeq,
                  disk <- [p \in {"results.json"} |-> disk],
                  acked <- [p \in {"results.json"} |-> acked]
ImplementsDurableSnapshot == Durable!Spec

(* store.go:233: "The call blocks until this snapshot or a newer one has   *)
(* been written (or fails)."                                               *)
BlocksUntilWritten ==
  \A c \in Callers : pc[c] = "record" /\ result[c] = "ok" => disk >= copy[c]
=============================================================================
