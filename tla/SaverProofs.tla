---------------------------- MODULE SaverProofs ----------------------------
(***************************************************************************)
(* Proofs about the two savers, for any number of callers, files, copies   *)
(* and changes: the saver of the inspection results (ResultStore), and the *)
(* group commit of banStore.Save (BanSave).  Both implement                *)
(* DurableSnapshot.                                                        *)
(***************************************************************************)
EXTENDS ResultStore, TLAPS

(* One caller writes, a copy that is not older than the file; what waits   *)
(* is not older than what is being written; a copy counts as written when  *)
(* the file holds it or a newer one.                                       *)
WriterInv ==
  /\ \A c, d \in Callers : pc[c] = "write" /\ pc[d] = "write" => c = d
  /\ \A c \in Callers : pc[c] = "write" => writing /\ current # None
  /\ ~writing => current = None
  /\ current # None => disk <= current
  /\ pending # None => disk <= pending /\ current <= pending
  /\ pending <= saveGen /\ current <= saveGen /\ disk <= saveGen
  /\ writtenGen = disk /\ acked <= disk
  /\ saveGen <= persistSeq

(* The newest copy is still on its way, or its report is the one shown; a  *)
(* report of success of the newest copy is about a file that holds it.     *)
ReportInv ==
  /\ \A c \in Callers : copy[c] <= persistSeq
  /\ \A c \in Callers : pc[c] = "idle" => copy[c] = None
  /\ \A c \in Callers : pc[c] = "record" => result[c] # "none"
  /\ \A c \in Callers :
       pc[c] = "record" /\ result[c] = "ok" /\ copy[c] = persistSeq
         => disk = persistSeq
  /\ statusSeq <= persistSeq
  /\ \/ statusSeq = persistSeq
     \/ \E c \in Callers : pc[c] # "idle" /\ copy[c] = persistSeq
  /\ statusSeq = persistSeq /\ ~persistError => disk = persistSeq

StoreInv == TypeOK /\ WriterInv /\ ReportInv

(* Before the first copy nothing waits and the page shows no error. *)
LEMMA StoreInit == Init => StoreInv
<1> SUFFICES ASSUME Init PROVE StoreInv
  OBVIOUS
<1>1. TypeOK
  BY DEF Init, TypeOK, None
<1>2. WriterInv
  BY DEF Init, WriterInv, None
<1>3. ReportInv
  BY DEF Init, ReportInv, None
<1> QED
  BY <1>1, <1>2, <1>3 DEF StoreInv

(* Every step keeps the types. *)
LEMMA TypeStep ==
  ASSUME TypeOK, [Next]_vars
  PROVE  TypeOK'
<1> USE DEF TypeOK, storeVars, statusVars, Goto, Return, None
<1>1. ASSUME NEW c \in Callers,
             Copy(c) \/ Overtaken(c) \/ Enqueue(c) \/ SeesItWritten(c)
      PROVE  TypeOK'
  BY <1>1 DEF Copy, Overtaken, Enqueue, SeesItWritten, Newer
<1>2. ASSUME NEW c \in Callers, BecomeWriter(c) PROVE TypeOK'
  BY <1>2 DEF BecomeWriter
<1>3. ASSUME NEW c \in Callers, WriteDone(c) PROVE TypeOK'
  <2>1. writing' \in BOOLEAN
    BY <1>3, Zenon DEF WriteDone
  <2> QED
    BY <1>3, <2>1 DEF WriteDone, Replaced, Newer
<1>4. ASSUME NEW c \in Callers, WriteFails(c) PROVE TypeOK'
  BY <1>4 DEF WriteFails
<1>5. ASSUME NEW c \in Callers, Record(c) PROVE TypeOK'
  <2>1. persistError' \in BOOLEAN
    BY <1>5, Zenon DEF Record
  <2> QED
    BY <1>5, <2>1 DEF Record
<1>6. CASE UNCHANGED vars
  BY <1>6 DEF vars
<1> QED
  BY <1>1, <1>2, <1>3, <1>4, <1>5, <1>6 DEF Next, Step

(* Every step keeps the writer alone and the file moving forward. *)
LEMMA WriterStep ==
  ASSUME TypeOK, WriterInv, ReportInv, [Next]_vars
  PROVE  WriterInv'
<1> USE DEF TypeOK, WriterInv, storeVars, statusVars, Goto,
            Return, None
<1>1. ASSUME NEW c \in Callers, Copy(c) \/ Overtaken(c) \/ Record(c)
      PROVE  WriterInv'
  BY <1>1 DEF Copy, Overtaken, Record
<1>2. ASSUME NEW c \in Callers, Enqueue(c) PROVE WriterInv'
  BY <1>2 DEF Enqueue, ReportInv
<1>3. ASSUME NEW c \in Callers, SeesItWritten(c) PROVE WriterInv'
  BY <1>3 DEF SeesItWritten, Newer
<1>4. ASSUME NEW c \in Callers, BecomeWriter(c) PROVE WriterInv'
  BY <1>4 DEF BecomeWriter
<1>5. ASSUME NEW c \in Callers, WriteDone(c) PROVE WriterInv'
  <2>1. writing' <=> pending # None
    BY <1>5, Zenon DEF WriteDone
  <2>2. disk' = current /\ writtenGen' = current
    BY <1>5 DEF WriteDone, Replaced, Newer
  <2> QED
    BY <1>5, <2>1, <2>2 DEF WriteDone
<1>6. ASSUME NEW c \in Callers, WriteFails(c) PROVE WriterInv'
  BY <1>6 DEF WriteFails
<1>7. CASE UNCHANGED vars
  BY <1>7 DEF vars
<1> QED
  BY <1>1, <1>2, <1>3, <1>4, <1>5, <1>6, <1>7 DEF Next, Step

(* Every step keeps the report that is shown, or on its way, true. *)
LEMMA ReportStep ==
  ASSUME TypeOK, WriterInv, ReportInv, [Next]_vars
  PROVE  ReportInv'
<1> USE DEF TypeOK, ReportInv, storeVars, statusVars, Goto, Return,
            None
<1>1. ASSUME NEW c \in Callers, Copy(c) PROVE ReportInv'
  BY <1>1 DEF Copy, WriterInv
<1>2. ASSUME NEW c \in Callers, Overtaken(c) \/ Enqueue(c) \/ BecomeWriter(c)
      PROVE  ReportInv'
  BY <1>2 DEF Overtaken, Enqueue, BecomeWriter, WriterInv
<1>3. ASSUME NEW c \in Callers, SeesItWritten(c) PROVE ReportInv'
  BY <1>3 DEF SeesItWritten, WriterInv
<1>4. ASSUME NEW c \in Callers, WriteDone(c) PROVE ReportInv'
  <2>1. disk = persistSeq => disk' = persistSeq
    BY <1>4 DEF WriteDone, Replaced, WriterInv
  <2>2. pc'[c] \in {"write", "wait"} /\ \A d \in Callers \ {c} : pc'[d] = pc[d]
    BY <1>4 DEF WriteDone
  <2>3. pc[c] = "write" /\ UNCHANGED <<persistSeq, copy, result, statusSeq>>
    BY <1>4 DEF WriteDone
  <2>4. persistError' = persistError
    BY <1>4 DEF WriteDone
  <2> QED
    BY <2>1, <2>2, <2>3, <2>4
<1>5. ASSUME NEW c \in Callers, WriteFails(c) PROVE ReportInv'
  BY <1>5 DEF WriteFails
<1>6. ASSUME NEW c \in Callers, Record(c) PROVE ReportInv'
  <2>1. CASE copy[c] < statusSeq
    BY <1>6, <2>1 DEF Record
  <2>2. CASE ~(copy[c] < statusSeq)
    <3>1. persistError' <=> result[c] = "error"
      BY <1>6, <2>2, Zenon DEF Record
    <3> QED
      BY <1>6, <2>2, <3>1 DEF Record
  <2> QED
    BY <2>1, <2>2
<1>7. CASE UNCHANGED vars
  BY <1>7 DEF vars
<1> QED
  BY <1>1, <1>2, <1>3, <1>4, <1>5, <1>6, <1>7 DEF Next, Step

(* The three invariants hold in every state of the store. *)
THEOREM StoreInvariant == Spec => []StoreInv
<1>1. StoreInv /\ [Next]_vars => StoreInv'
  BY TypeStep, WriterStep, ReportStep DEF StoreInv
<1> QED
  BY <1>1, StoreInit, PTL DEF Spec

(* Every variable of the store keeps its type. *)
THEOREM Typing == Spec => []TypeOK
<1>1. StoreInv => TypeOK
  BY DEF StoreInv
<1> QED
  BY <1>1, StoreInvariant, PTL

(* Once all savers are done and the page shows no error, results.json has  *)
(* the newest copy, in whatever order copies are queued, written and       *)
(* reported.                                                               *)
THEOREM NoError == Spec => []NoErrorMeansSaved
<1>1. StoreInv => NoErrorMeansSaved
  BY DEF StoreInv, ReportInv, NoErrorMeansSaved, Settled
<1> QED
  BY <1>1, StoreInvariant, PTL

-----------------------------------------------------------------------------
(* The saver implements the abstract store: one file, which never goes     *)
(* back, and who is told that a copy is written can rely on it.            *)
LEMMA AbstractInit == Init => Durable!Init
BY DEF Init, Durable!Init

(* Every step of the saver is one of the abstract store, or none. *)
LEMMA AbstractStep ==
  ASSUME StoreInv, [Next]_vars
  PROVE  [Durable!Next]_(Durable!vars)
<1> USE DEF StoreInv, TypeOK, WriterInv, storeVars, statusVars
<1>1. ASSUME NEW c \in Callers, Copy(c) PROVE Durable!Mutate
  BY <1>1 DEF Copy, Durable!Mutate
<1>2. ASSUME NEW c \in Callers, WriteDone(c) PROVE Durable!Write("results.json")
  <2>1. disk' \in disk .. persistSeq /\ UNCHANGED <<persistSeq, acked>>
    BY <1>2 DEF WriteDone, Replaced
  <2> QED
    BY <2>1 DEF Durable!Write
<1>3. ASSUME NEW c \in Callers, SeesItWritten(c)
      PROVE  Durable!Acknowledge("results.json")
  <2>1. acked' \in acked .. disk /\ UNCHANGED <<persistSeq, disk>>
    BY <1>3 DEF SeesItWritten, Newer
  <2> QED
    BY <2>1 DEF Durable!Acknowledge
<1>4. ASSUME NEW c \in Callers,
             Overtaken(c) \/ Enqueue(c) \/ BecomeWriter(c) \/ WriteFails(c)
               \/ Record(c)
      PROVE  UNCHANGED Durable!vars
  BY <1>4 DEF Overtaken, Enqueue, BecomeWriter, WriteFails, Record,
              Durable!vars
<1>5. CASE UNCHANGED vars
  BY <1>5 DEF vars, Durable!vars
<1> QED
  BY <1>1, <1>2, <1>3, <1>4, <1>5 DEF Next, Step, Durable!Next

(* Implementation: initial states and steps correspond. *)
THEOREM Refinement == Spec => ImplementsDurableSnapshot
<1>1. Spec => Durable!Spec
  BY AbstractInit, AbstractStep, StoreInvariant, PTL
     DEF Spec, Durable!Spec
<1> QED
  BY <1>1 DEF ImplementsDurableSnapshot

-----------------------------------------------------------------------------
(* The group commit of banStore.Save, with names of its own for what both  *)
(* savers have.                                                            *)
(*                                                                         *)
(* MutexInv says who may be inside what, GenInv how the generations are    *)
(* ordered, and SnapInv which snapshot covers which caller; each is        *)
(* inductive given those before it.                                        *)
CONSTANTS Savers, Paths, EmptyVersions, MaxContent, MaxGen
VARIABLES content, bansFile, saveMu, bansGen, saveWritten, savePending, savePath,
          saveWriting, at, myGen, asked, cur, writeGen, writePath, bansAcked

B == INSTANCE BanSave
       WITH Callers <- Savers, disk <- bansFile, saveGen <- bansGen, pc <- at,
            acked <- bansAcked



(* The labels at which a caller owns saveMu, and those at which it owns a  *)
(* snapshot it has taken.                                                  *)
Holding(c) == at[c] \in {"check", "drain"}
Carrying(c) == at[c] \in {"write", "wrote", "failed"}

(* The generations a caller remembers were handed out before.  TypeOK is    *)
(* inductive together with this: `saveWritten = writeGen` publishes one of  *)
(* them.                                                                    *)
GenInv == \A c \in Savers : myGen[c] <= bansGen /\ writeGen[c] <= bansGen

(* The type invariant, with the bound of the published generation: Save     *)
(* never publishes a generation it has not handed out.                      *)
THEOREM BansTyping == B!Spec => [](B!TypeOK /\ GenInv)
<1> USE DEF B!TypeOK, GenInv, B!Labels, B!NoSnapshot
<1>1. B!Init => B!TypeOK /\ GenInv
  <2> SUFFICES ASSUME B!Init PROVE B!TypeOK /\ GenInv
    OBVIOUS
  <2>1. /\ content = 0 /\ bansGen = 0 /\ saveWritten = 0
        /\ saveMu = "free" /\ savePending = -1
        /\ savePath \in Paths
        /\ bansFile \in [Paths -> Nat]
    BY DEF B!Init
  <2>2. /\ at \in [Savers -> B!Labels]
        /\ myGen \in [Savers -> Nat]
        /\ asked \in [Savers -> [path : Paths, snap : Nat]]
    BY DEF B!Init
  <2>3. /\ cur \in [Savers -> Nat]
        /\ writeGen \in [Savers -> Nat]
        /\ writePath \in [Savers -> Paths]
        /\ bansAcked \in [Paths -> Nat]
    BY DEF B!Init
  <2>4. ASSUME NEW c \in Savers PROVE myGen[c] = 0 /\ writeGen[c] = 0
    BY DEF B!Init
  <2>5. saveWriting \in BOOLEAN
    BY DEF B!Init
  <2>6. B!TypeOK
    BY <2>1, <2>2, <2>3, <2>5
  <2> QED
    BY <2>1, <2>4, <2>6
<1>2. B!TypeOK /\ GenInv /\ [B!Next]_(B!vars) => (B!TypeOK /\ GenInv)'
  <2> SUFFICES ASSUME B!TypeOK, GenInv, [B!Next]_(B!vars) PROVE (B!TypeOK /\ GenInv)'
    OBVIOUS
  <2>1. CASE B!Mutate
    BY <2>1 DEF B!Mutate, B!storeVars, B!callVars, B!writeVars
  <2>2. ASSUME NEW c \in Savers, NEW p \in Paths, B!Begin(c, p)
        PROVE (B!TypeOK /\ GenInv)'
    BY <2>2 DEF B!Begin, B!Goto, B!writeVars
  <2>3. ASSUME NEW c \in Savers, B!ReturnNil(c) PROVE (B!TypeOK /\ GenInv)'
    BY <2>3 DEF B!ReturnNil, B!ReturnWhen, B!Goto, B!storeVars, B!callVars,
                B!writeVars
  <2>4. ASSUME NEW c \in Savers, B!Wait(c) PROVE (B!TypeOK /\ GenInv)'
    BY <2>4 DEF B!Wait, B!Goto, B!storeVars, B!callVars, B!writeVars
  <2>5. ASSUME NEW c \in Savers, B!Rewake(c) PROVE (B!TypeOK /\ GenInv)'
    BY <2>5 DEF B!Rewake, B!Goto, B!storeVars, B!callVars, B!writeVars
  <2>6. ASSUME NEW c \in Savers, B!Lead(c) PROVE (B!TypeOK /\ GenInv)'
    BY <2>6 DEF B!Lead, B!Goto, B!callVars, B!writeVars
  <2>7. ASSUME NEW c \in Savers, B!Take(c) PROVE (B!TypeOK /\ GenInv)'
    BY <2>7 DEF B!Take, B!Goto, B!callVars
  <2>8. ASSUME NEW c \in Savers, B!WriteOk(c) PROVE (B!TypeOK /\ GenInv)'
    BY <2>8 DEF B!WriteOk, B!Goto, B!storeVars, B!callVars, B!writeVars
  <2>9. ASSUME NEW c \in Savers, B!WriteFail(c) PROVE (B!TypeOK /\ GenInv)'
    BY <2>9 DEF B!WriteFail, B!Goto, B!storeVars, B!callVars, B!writeVars
  <2>10. ASSUME NEW c \in Savers, B!Written(c) PROVE (B!TypeOK /\ GenInv)'
    BY <2>10 DEF B!Written, B!Goto, B!callVars, B!writeVars
  <2>11. ASSUME NEW c \in Savers, B!Drained(c) PROVE (B!TypeOK /\ GenInv)'
    BY <2>11 DEF B!Drained, B!Broadcast, B!callVars, B!writeVars
  <2>12. ASSUME NEW c \in Savers, B!Failed(c) PROVE (B!TypeOK /\ GenInv)'
    <3>1. savePending' \in Nat \union {B!NoSnapshot} /\ savePath' \in Paths
      BY <2>12 DEF B!Failed, B!Copied
    <3>2. /\ saveMu' \in {"free", "held"}
          /\ at' \in [Savers -> B!Labels]
      BY <2>12 DEF B!Failed, B!StepDown, B!Broadcast
    <3> QED
      BY <2>12, <3>1, <3>2 DEF B!Failed, B!StepDown, B!callVars, B!writeVars
  <2>13. CASE UNCHANGED B!vars
    BY <2>13 DEF B!vars, B!storeVars, B!callVars, B!writeVars
  <2> QED
    BY <2>1, <2>2, <2>3, <2>4, <2>5, <2>6, <2>7, <2>8, <2>9, <2>10, <2>11,
       <2>12, <2>13 DEF B!Next, B!Step
<1> QED
  BY <1>1, <1>2, PTL DEF B!Spec
-----------------------------------------------------------------------------
(* Who may be where.  A caller at the top of the loop, or about to look at *)
(* the pending snapshot, owns saveMu; a caller anywhere in the write loop  *)
(* has set saveWriting, and no other has.                                  *)
MutexInv ==
  /\ \A c \in Savers : Holding(c) => saveMu = "held"
  /\ \A c, d \in Savers : Holding(c) /\ Holding(d) => c = d
  /\ \A c \in Savers : B!Leading(c) => saveWriting
  /\ B!SingleWriter
  /\ B!NoLostWakeup

(* Nobody holds saveMu or writes at first. *)
LEMMA MutexInit == B!Init => MutexInv
BY DEF B!Init, MutexInv, Holding, B!Leading, B!SingleWriter, B!NoLostWakeup

(* Every statement of Save keeps the writers apart. *)
LEMMA MutexStep == B!TypeOK /\ MutexInv /\ [B!Next]_(B!vars) => MutexInv'
<1> USE DEF B!TypeOK, B!Labels, MutexInv, Holding, B!Leading, B!SingleWriter,
            B!NoLostWakeup
<1> SUFFICES ASSUME B!TypeOK, MutexInv, [B!Next]_(B!vars) PROVE MutexInv'
  OBVIOUS
<1>1. CASE B!Mutate
  BY <1>1 DEF B!Mutate, B!storeVars
<1>2. ASSUME NEW c \in Savers, NEW p \in Paths, B!Begin(c, p) PROVE MutexInv'
  BY <1>2 DEF B!Begin, B!Goto
<1>3. ASSUME NEW c \in Savers, B!ReturnNil(c) PROVE MutexInv'
  BY <1>3 DEF B!ReturnNil, B!ReturnWhen, B!Goto, B!storeVars
<1>4. ASSUME NEW c \in Savers, B!Wait(c) PROVE MutexInv'
  BY <1>4 DEF B!Wait, B!Goto, B!storeVars
<1>5. ASSUME NEW c \in Savers, B!Rewake(c) PROVE MutexInv'
  BY <1>5 DEF B!Rewake, B!Goto, B!storeVars
<1>6. ASSUME NEW c \in Savers, B!Lead(c) PROVE MutexInv'
  BY <1>6 DEF B!Lead, B!Goto
<1>7. ASSUME NEW c \in Savers, B!Take(c) PROVE MutexInv'
  BY <1>7 DEF B!Take, B!Goto
<1>8. ASSUME NEW c \in Savers, B!WriteOk(c) PROVE MutexInv'
  BY <1>8 DEF B!WriteOk, B!Goto, B!storeVars
<1>9. ASSUME NEW c \in Savers, B!WriteFail(c) PROVE MutexInv'
  BY <1>9 DEF B!WriteFail, B!Goto, B!storeVars
<1>10. ASSUME NEW c \in Savers, B!Written(c) PROVE MutexInv'
  BY <1>10 DEF B!Written, B!Goto
<1>11. ASSUME NEW c \in Savers, B!Drained(c) PROVE MutexInv'
  BY <1>11 DEF B!Drained, B!Broadcast
<1>12. ASSUME NEW c \in Savers, B!Failed(c) PROVE MutexInv'
  <2>1. \A d \in Savers : ~B!Leading(d)' /\ at'[d] # "wait"
    BY <1>12 DEF B!Failed, B!StepDown, B!Broadcast
  <2>2. \A d \in Savers : Holding(d)' => d = c /\ saveMu' = "held"
    BY <1>12 DEF B!Failed, B!StepDown, B!Broadcast
  <2> QED
    BY <2>1, <2>2
<1>13. CASE UNCHANGED B!vars
  BY <1>13 DEF B!vars, B!storeVars
<1> QED
  BY <1>1, <1>2, <1>3, <1>4, <1>5, <1>6, <1>7, <1>8, <1>9, <1>10, <1>11,
     <1>12, <1>13 DEF B!Next, B!Step

(* saveMu and saveWriting keep the writers apart in every behaviour. *)
LEMMA Mutex == B!Spec => []MutexInv
BY BansTyping, MutexInit, MutexStep, PTL DEF B!Spec

(* The writer is alone, although it drops saveMu around the disk write.    *)
THEOREM OneWriter == B!Spec => []B!SingleWriter
<1>1. MutexInv => B!SingleWriter
  BY DEF MutexInv
<1> QED
  BY <1>1, Mutex, PTL

(* Nobody waits on saveCond unless a writer is there to broadcast.         *)
THEOREM WakeupComes == B!Spec => []B!NoLostWakeup
<1>1. MutexInv => B!NoLostWakeup
  BY DEF MutexInv
<1> QED
  BY <1>1, Mutex, PTL
-----------------------------------------------------------------------------
(* No spinning.  When nothing is pending, every generation handed out is   *)
(* written, or the writer at the disk will publish it.  This needs a pool  *)
(* that is never empty: the copy of an empty snapshot is not put back.     *)
SpinInv ==
  savePending = B!NoSnapshot =>
    /\ (\A c \in Savers : ~Carrying(c)) => saveWritten = bansGen
    /\ \A c \in Savers : Carrying(c) => writeGen[c] = bansGen

(* Every statement of Save keeps something to write, or a writer. *)
LEMMA SpinStep ==
  ASSUME EmptyVersions = {}, B!TypeOK, GenInv, MutexInv, SpinInv, [B!Next]_(B!vars)
  PROVE  SpinInv'
<1> USE DEF B!TypeOK, GenInv, B!Labels, MutexInv, Holding, Carrying, B!Leading,
        B!SingleWriter, SpinInv, B!NoSnapshot
<1>1. CASE B!Mutate
  BY <1>1 DEF B!Mutate, B!storeVars, B!callVars, B!writeVars
<1>2. ASSUME NEW c \in Savers, NEW p \in Paths, B!Begin(c, p) PROVE SpinInv'
  BY <1>2 DEF B!Begin, B!Goto, B!writeVars
<1>3. ASSUME NEW c \in Savers, B!ReturnNil(c) PROVE SpinInv'
  BY <1>3 DEF B!ReturnNil, B!ReturnWhen, B!Goto, B!storeVars, B!callVars,
              B!writeVars
<1>4. ASSUME NEW c \in Savers, B!Wait(c) PROVE SpinInv'
  BY <1>4 DEF B!Wait, B!Goto, B!storeVars, B!callVars, B!writeVars
<1>5. ASSUME NEW c \in Savers, B!Rewake(c) PROVE SpinInv'
  BY <1>5 DEF B!Rewake, B!Goto, B!storeVars, B!callVars, B!writeVars
<1>6. ASSUME NEW c \in Savers, B!Lead(c) PROVE SpinInv'
  BY <1>6 DEF B!Lead, B!Goto, B!callVars, B!writeVars
<1>7. ASSUME NEW c \in Savers, B!Take(c) PROVE SpinInv'
  BY <1>7 DEF B!Take, B!Goto, B!callVars
<1>8. ASSUME NEW c \in Savers, B!WriteOk(c) PROVE SpinInv'
  BY <1>8 DEF B!WriteOk, B!Goto, B!storeVars, B!callVars, B!writeVars
<1>9. ASSUME NEW c \in Savers, B!WriteFail(c) PROVE SpinInv'
  BY <1>9 DEF B!WriteFail, B!Goto, B!storeVars, B!callVars, B!writeVars
<1>10. ASSUME NEW c \in Savers, B!Written(c) PROVE SpinInv'
  BY <1>10 DEF B!Written, B!Goto, B!callVars, B!writeVars
<1>11. ASSUME NEW c \in Savers, B!Drained(c) PROVE SpinInv'
  BY <1>11 DEF B!Drained, B!Broadcast, B!callVars, B!writeVars
<1>12. ASSUME NEW c \in Savers, B!Failed(c) PROVE SpinInv'
  BY <1>12 DEF B!Failed, B!StepDown, B!Broadcast, B!Copied, B!callVars,
               B!writeVars
<1>13. CASE UNCHANGED B!vars
  BY <1>13 DEF B!vars, B!storeVars, B!callVars, B!writeVars
<1> QED
  BY <1>1, <1>2, <1>3, <1>4, <1>5, <1>6, <1>7, <1>8, <1>9, <1>10, <1>11,
     <1>12, <1>13 DEF B!Next, B!Step

(* With a pool that is never empty, a caller that has to wait while nobody *)
(* writes finds a snapshot to write, so the loop of Save makes progress.   *)
THEOREM NeverSpins ==
  ASSUME EmptyVersions = {} PROVE B!Spec => []B!NoSpin
<1>1. B!Init => SpinInv
  BY DEF B!Init, SpinInv, Carrying
<1>2. B!TypeOK /\ GenInv /\ MutexInv /\ SpinInv /\ [B!Next]_(B!vars) => SpinInv'
  BY SpinStep
<1>3. B!TypeOK /\ MutexInv /\ SpinInv => B!NoSpin
  BY DEF B!TypeOK, MutexInv, SpinInv, B!NoSpin, Carrying, B!Leading
<1> QED
  BY <1>1, <1>2, <1>3, BansTyping, Mutex, PTL DEF B!Spec

-----------------------------------------------------------------------------
(* Which snapshot covers whom.  A pending snapshot is as new as every file *)
(* and every caller, and newer than the one being written; the one being   *)
(* written covers the callers of its generation, and everybody when        *)
(* nothing newer is pending; a generation that counts as written is in     *)
(* some file.                                                              *)
Known ==
  /\ savePending <= content
  /\ \A p \in Paths : bansFile[p] <= content
  /\ \A c \in Savers : asked[c].snap <= content /\ cur[c] <= content

PendingCovers ==
  savePending # B!NoSnapshot =>
    /\ \A p \in Paths : bansFile[p] <= savePending
    /\ \A c \in Savers : asked[c].snap <= savePending
    /\ \A c \in Savers : Carrying(c) => cur[c] <= savePending

WriteCovers ==
  \A w \in Savers :
    Carrying(w) =>
      /\ \A p \in Paths : bansFile[p] <= cur[w]
      /\ at[w] = "wrote" => bansFile[writePath[w]] = cur[w]
      /\ \A c \in Savers :
           myGen[c] <= writeGen[w] \/ savePending = B!NoSnapshot
             => asked[c].snap <= cur[w]

WrittenCovers ==
  \A c \in Savers :
    myGen[c] <= saveWritten => \E p \in Paths : asked[c].snap <= bansFile[p]

SnapInv == Known /\ PendingCovers /\ WriteCovers /\ WrittenCovers

(* Nothing is pending and no file is written at first. *)
LEMMA SnapInit == B!Init => SnapInv
<1> SUFFICES ASSUME B!Init PROVE SnapInv
  OBVIOUS
<1>1. /\ content = 0 /\ savePending = B!NoSnapshot /\ savePath \in Paths
      /\ \A c \in Savers : asked[c].snap = 0 /\ cur[c] = 0 /\ ~Carrying(c)
      /\ \A p \in Paths : bansFile[p] = 0
  BY DEF B!Init, Carrying
<1> QED
  BY <1>1 DEF SnapInv, Known, PendingCovers, WriteCovers, WrittenCovers,
              B!NoSnapshot

(* Every statement of Save keeps snapshots, files and callers in order. *)
LEMMA SnapStep ==
  ASSUME B!TypeOK, GenInv, MutexInv, SnapInv, [B!Next]_(B!vars)
  PROVE  SnapInv'
<1> USE DEF B!TypeOK, GenInv, B!Labels, MutexInv, Holding, Carrying, B!Leading,
        B!SingleWriter, SnapInv, Known, PendingCovers, WriteCovers,
        WrittenCovers, B!NoSnapshot
<1>1. CASE B!Mutate
  BY <1>1 DEF B!Mutate, B!storeVars, B!callVars, B!writeVars
<1>2. ASSUME NEW c \in Savers, NEW p \in Paths, B!Begin(c, p) PROVE SnapInv'
  BY <1>2 DEF B!Begin, B!Goto, B!writeVars
<1>3. ASSUME NEW c \in Savers, B!ReturnNil(c) PROVE SnapInv'
  BY <1>3 DEF B!ReturnNil, B!ReturnWhen, B!Goto, B!storeVars, B!callVars,
              B!writeVars
<1>4. ASSUME NEW c \in Savers, B!Wait(c) PROVE SnapInv'
  BY <1>4 DEF B!Wait, B!Goto, B!storeVars, B!callVars, B!writeVars
<1>5. ASSUME NEW c \in Savers, B!Rewake(c) PROVE SnapInv'
  BY <1>5 DEF B!Rewake, B!Goto, B!storeVars, B!callVars, B!writeVars
<1>6. ASSUME NEW c \in Savers, B!Lead(c) PROVE SnapInv'
  BY <1>6 DEF B!Lead, B!Goto, B!callVars, B!writeVars
<1>7. ASSUME NEW c \in Savers, B!Take(c) PROVE SnapInv'
  BY <1>7 DEF B!Take, B!Goto, B!callVars
<1>8. ASSUME NEW c \in Savers, B!WriteOk(c) PROVE SnapInv'
  BY <1>8 DEF B!WriteOk, B!Goto, B!storeVars, B!callVars, B!writeVars
<1>9. ASSUME NEW c \in Savers, B!WriteFail(c) PROVE SnapInv'
  BY <1>9 DEF B!WriteFail, B!Goto, B!storeVars, B!callVars, B!writeVars
<1>10. ASSUME NEW c \in Savers, B!Written(c) PROVE SnapInv'
  BY <1>10 DEF B!Written, B!Goto, B!callVars, B!writeVars
<1>11. ASSUME NEW c \in Savers, B!Drained(c) PROVE SnapInv'
  BY <1>11 DEF B!Drained, B!Broadcast, B!callVars, B!writeVars
<1>12. ASSUME NEW c \in Savers, B!Failed(c) PROVE SnapInv'
  <2>1. \A d \in Savers : ~Carrying(d)'
    BY <1>12 DEF B!Failed, B!StepDown, B!Broadcast
  <2>2. UNCHANGED <<content, bansFile, bansGen, saveWritten, B!callVars, B!writeVars>>
    BY <1>12 DEF B!Failed, B!StepDown
  <2>3. savePending' \in {savePending, cur[c], B!NoSnapshot}
        /\ (savePending # B!NoSnapshot => savePending' = savePending)
    BY <1>12 DEF B!Failed, B!Copied
  <2>4. Known' /\ WrittenCovers' /\ WriteCovers'
    BY <2>1, <2>2, <2>3 DEF B!callVars, B!writeVars
  <2>5. PendingCovers'
    BY <1>12, <2>1, <2>2, <2>3 DEF B!Failed, B!callVars, B!writeVars
  <2> QED
    BY <2>4, <2>5
<1>13. CASE UNCHANGED B!vars
  BY <1>13 DEF B!vars, B!storeVars, B!callVars, B!writeVars
<1> QED
  BY <1>1, <1>2, <1>3, <1>4, <1>5, <1>6, <1>7, <1>8, <1>9, <1>10, <1>11,
     <1>12, <1>13 DEF B!Next, B!Step

(* Snapshots, files and callers are in order in every behaviour. *)
LEMMA Snapshots == B!Spec => []SnapInv
<1>1. B!TypeOK /\ GenInv /\ MutexInv /\ SnapInv /\ [B!Next]_(B!vars) => SnapInv'
  BY SnapStep
<1> QED
  BY <1>1, SnapInit, BansTyping, Mutex, PTL DEF B!Spec

(* No file ever goes back to an older snapshot.                            *)
THEOREM DiskMonotone == B!Spec => B!DiskNeverGoesBack
<1> DEFINE Forward == \A p \in Paths : bansFile'[p] >= bansFile[p]
<1>1. ASSUME B!TypeOK, SnapInv, [B!Next]_(B!vars) PROVE [Forward]_(B!vars)
  <2>1. CASE \E c \in Savers : B!WriteOk(c)
    <3>1. PICK c \in Savers : B!WriteOk(c)
      BY <2>1
    <3>2. \A p \in Paths : bansFile[p] <= cur[c] /\ cur[c] \in Nat /\ bansFile[p] \in Nat
      BY <1>1, <3>1 DEF SnapInv, WriteCovers, Carrying, B!WriteOk, B!TypeOK
    <3> QED
      BY <1>1, <3>1, <3>2 DEF B!WriteOk, B!TypeOK
  <2>2. CASE ~\E c \in Savers : B!WriteOk(c)
    <3>1. bansFile' = bansFile
      BY <1>1, <2>2 DEF B!Next, B!Step, B!Mutate, B!Begin, B!ReturnNil,
                        B!ReturnWhen, B!Wait,
         B!Rewake, B!Lead, B!Take, B!WriteFail, B!Written, B!Drained,
         B!Failed, B!StepDown, B!vars
    <3> QED
      BY <1>1, <3>1 DEF B!TypeOK
  <2> QED
    BY <2>1, <2>2
<1>2. (B!TypeOK /\ GenInv) /\ SnapInv /\ [B!Next]_(B!vars) => [Forward]_(B!vars)
  BY <1>1
<1>3. B!Spec => [][Forward]_(B!vars)
  BY <1>2, BansTyping, Snapshots, PTL DEF B!Spec
<1> QED
  BY <1>3 DEF B!DiskNeverGoesBack

(* A caller that is told its save succeeded finds its snapshot, or a newer *)
(* one, in some file.                                                      *)
THEOREM SavedIsOnDisk == B!Spec => B!SavedSomewhere
<1> DEFINE Saved ==
      \A c \in Savers : B!ReturnNil(c) => \E p \in Paths : bansFile[p] >= asked[c].snap
<1>1. ASSUME B!TypeOK, SnapInv PROVE Saved
  BY <1>1 DEF B!TypeOK, SnapInv, WrittenCovers, B!ReturnNil, B!ReturnWhen
<1>2. (B!TypeOK /\ GenInv) /\ SnapInv /\ [B!Next]_(B!vars) => [Saved]_(B!vars)
  BY <1>1
<1>3. B!Spec => [][Saved]_(B!vars)
  BY <1>2, BansTyping, Snapshots, PTL DEF B!Spec
<1> QED
  BY <1>3 DEF B!SavedSomewhere

-----------------------------------------------------------------------------
(* The refinement.  With one state file, what a caller was acknowledged is *)
(* what the file holds, so every step of Save is a step of the abstract    *)
(* store or leaves it alone.                                               *)
AckedInv == \A p \in Paths : bansAcked[p] <= bansFile[p]

OneFile == \A p, q \in Paths : p = q

(* Every step is a step of the abstract saver, or stutters. *)
LEMMA BansAbstractStep ==
  ASSUME OneFile, B!TypeOK, SnapInv, AckedInv, [B!Next]_(B!vars)
  PROVE  AckedInv' /\ [B!Durable!Next]_(B!Durable!vars)
<1> USE DEF B!Durable!vars
<1>1. CASE B!Mutate
  BY <1>1 DEF B!Mutate, AckedInv, B!Durable!Next, B!Durable!Mutate
<1>2. CASE \E c \in Savers : B!ReturnNil(c)
  <2>1. PICK c \in Savers : B!ReturnNil(c)
    BY <1>2
  <2> DEFINE p == asked[c].path
             s == IF asked[c].snap > bansAcked[p] THEN asked[c].snap ELSE bansAcked[p]
  <2>2. p \in Paths /\ asked[c].snap \in Nat
    BY DEF B!TypeOK
  <2>3. asked[c].snap <= bansFile[p]
    BY <2>1, <2>2 DEF B!ReturnNil, B!ReturnWhen, SnapInv, WrittenCovers,
                      OneFile, B!TypeOK
  <2>4. s \in bansAcked[p] .. bansFile[p]
    BY <2>2, <2>3 DEF AckedInv, B!TypeOK
  <2>5. bansAcked' = [bansAcked EXCEPT ![p] = s] /\ UNCHANGED <<content, bansFile>>
    BY <2>1 DEF B!ReturnNil, B!ReturnWhen
  <2>6. AckedInv'
    BY <2>2, <2>4, <2>5 DEF AckedInv, B!TypeOK
  <2>7. B!Durable!Acknowledge(p)
    BY <2>4, <2>5 DEF B!Durable!Acknowledge
  <2> QED
    BY <2>2, <2>6, <2>7 DEF B!Durable!Next
<1>3. CASE \E c \in Savers : B!WriteOk(c)
  <2>1. PICK c \in Savers : B!WriteOk(c)
    BY <1>3
  <2> DEFINE p == writePath[c]
  <2>2. p \in Paths /\ cur[c] \in Nat
    BY DEF B!TypeOK
  <2>3. cur[c] \in bansFile[p] .. content
    BY <2>1, <2>2 DEF B!WriteOk, SnapInv, WriteCovers, Known, Carrying,
                      B!TypeOK
  <2>4. bansFile' = [bansFile EXCEPT ![p] = cur[c]] /\ UNCHANGED <<content, bansAcked>>
    BY <2>1 DEF B!WriteOk
  <2>5. AckedInv'
    BY <2>2, <2>3, <2>4 DEF AckedInv, B!TypeOK
  <2>6. B!Durable!Write(p)
    BY <2>3, <2>4 DEF B!Durable!Write
  <2> QED
    BY <2>2, <2>5, <2>6 DEF B!Durable!Next
<1>4. CASE ~B!Mutate /\ ~\E c \in Savers : B!ReturnNil(c) \/ B!WriteOk(c)
  <2>1. UNCHANGED <<content, bansFile, bansAcked>>
    BY <1>4 DEF B!Next, B!Step, B!Begin, B!Wait, B!Rewake, B!Lead, B!Take,
       B!WriteFail, B!Written, B!Drained, B!Failed, B!StepDown, B!vars
  <2> QED
    BY <2>1 DEF AckedInv
<1> QED
  BY <1>1, <1>2, <1>3, <1>4

(* With one state file banStore.Save implements the abstract store: a nil  *)
(* error means the file holds that snapshot or a newer one.                *)
THEOREM BansRefinement == ASSUME OneFile PROVE B!Spec => B!ImplementsDurableSnapshot
<1>1. B!Init => B!Durable!Init /\ AckedInv
  BY DEF B!Init, B!Durable!Init, AckedInv
<1>2. (B!TypeOK /\ GenInv) /\ SnapInv /\ AckedInv /\ [B!Next]_(B!vars)
        => AckedInv' /\ [B!Durable!Next]_(B!Durable!vars)
  BY BansAbstractStep
<1>3. B!Spec => B!Durable!Spec
  BY <1>1, <1>2, BansTyping, Snapshots, PTL DEF B!Spec, B!Durable!Spec
<1> QED
  BY <1>3 DEF B!ImplementsDurableSnapshot
=============================================================================
