----------------------------- MODULE BanSyncProofs -----------------------------
(***************************************************************************)
(* Proofs about the ban pool and CPA, for any number of accounts, dispose  *)
(* workers, operators, bans and faults.                                    *)
(***************************************************************************)
EXTENDS BanSync, TLAPS

(* The rows and what goroutines remember of them: a reason that belongs to *)
(* the window, revisions that were handed out.                             *)
RowOK(r, n) ==
  /\ r \in Row \union {NoRow}
  /\ r.rev <= n
  /\ r.rev # 0 => (r.source = "window" <=> r.code = "exhausted")

SyncType ==
  /\ ban \in [Accounts -> Row \union {NoRow}]
  /\ rev \in Nat /\ now \in Nat
  /\ cpa \in [Accounts -> {"enabled", "disabled", "gone"}]
  /\ pc \in [Threads -> Labels]
  /\ op \in [Threads -> AllKinds \union {"none", "dispose"}]
  /\ acct \in [Threads -> Accounts]
  /\ expected \in [Threads -> Nat]
  /\ reply \in [Threads -> {"none", "ok", "fail", "gone"}]
  /\ callRev \in [Threads -> Nat]
  /\ pending \in [Accounts -> Nat]
  /\ order \in Seq(Accounts)
  /\ todo \subseteq [acct : Accounts, rev : Nat]

RowsInv == \A a \in Accounts : RowOK(ban[a], rev)

-----------------------------------------------------------------------------
(* Initially there are no bans and nobody works. *)
LEMMA SyncInit == Init => SyncType /\ RowsInv
BY DEF Init, SyncType, RowsInv, RowOK, NoRow, Labels, Threads

(* A row that is written, merged into the one that was there. *)
LEMMA SetKeeps ==
  ASSUME SyncType, RowsInv, NEW a \in Accounts, NEW code \in Codes, NEW w \in Nat,
         NEW s \in BOOLEAN, Set(a, NewRow(code, w, s))
  PROVE  /\ ban' \in [Accounts -> Row \union {NoRow}] /\ rev' \in Nat
         /\ RowsInv'
         /\ ban'[a].rev = rev + 1 /\ \A b \in Accounts \ {a} : ban'[b] = ban[b]
<1> DEFINE new == NewRow(code, w, s)
           old == ban[a]
<1>1. /\ new.code = code /\ new.rev = rev + 1 /\ new.synced = s /\ new.resetAt \in Nat
      /\ new.source = IF code = "exhausted" THEN "window" ELSE "manual_unban"
      /\ DOMAIN new = {"code", "source", "resetAt", "rev", "synced"}
      /\ new \in Row
  BY ConstantsAssumption DEF NewRow, Row, SyncType, Forever
<1>2. Merged(old, new) \in Row /\ Merged(old, new).rev = rev + 1
  <2>1. CASE KeepsWindow(old, new)
    <3>1. Merged(old, new) = [new EXCEPT !.resetAt = old.resetAt, !.source = old.source,
                                         !.code = old.code]
      BY <2>1 DEF Merged
    <3>2. old \in Row
      BY <2>1 DEF KeepsWindow, SyncType, NoRow
    <3>3. new \in Row /\ new.rev = rev + 1
      BY <1>1
    <3> HIDE DEF old, new
    <3> QED
      BY <3>1, <3>2, <3>3 DEF Row
  <2>2. CASE ~KeepsWindow(old, new)
    BY <1>1, <2>2 DEF Merged
  <2> QED
    BY <2>1, <2>2
<1>3. Merged(old, new).source = "window" <=> Merged(old, new).code = "exhausted"
  BY <1>1 DEF Merged, KeepsWindow, RowsInv, RowOK, Row
<1>4. ban' = [ban EXCEPT ![a] = Merged(old, new)] /\ rev' = rev + 1
  BY DEF Set
<1> HIDE DEF new, old
<1>5. ban' \in [Accounts -> Row \union {NoRow}] /\ rev' \in Nat
  BY <1>2, <1>4 DEF SyncType
<1>6. RowsInv'
  <2> SUFFICES ASSUME NEW b \in Accounts PROVE RowOK(ban'[b], rev')
    BY DEF RowsInv
  <2>1. CASE b = a
    BY <1>2, <1>3, <1>4, <2>1 DEF RowOK, SyncType
  <2>2. CASE b # a
    BY <1>4, <2>2 DEF RowOK, SyncType, RowsInv, Row, NoRow
  <2> QED
    BY <2>1, <2>2
<1> QED
  BY <1>2, <1>4, <1>5, <1>6 DEF SyncType

(* Marking a row, and dropping one. *)
LEMMA MarkKeeps ==
  ASSUME SyncType, RowsInv, NEW a \in Accounts, NEW s \in BOOLEAN, MarkSynced(a, s),
         rev' = rev
  PROVE  /\ ban' \in [Accounts -> Row \union {NoRow}] /\ RowsInv'
         /\ \A b \in Accounts : ban'[b].rev = ban[b].rev /\ ban'[b].source = ban[b].source
<1>1. ban' = [ban EXCEPT ![a].synced = IF Present(a) THEN s ELSE ban[a].synced]
  BY DEF MarkSynced
<1>2. CASE Present(a)
  <2>1. ban[a] \in Row
    BY <1>2 DEF Present, SyncType, NoRow
  <2>2. ban' = [ban EXCEPT ![a] = [ban[a] EXCEPT !.synced = s]]
    BY <1>1, <1>2
  <2>3. [ban[a] EXCEPT !.synced = s] \in Row
    BY <2>1 DEF Row
  <2>4. /\ ban'[a].rev = ban[a].rev /\ ban'[a].source = ban[a].source
        /\ ban'[a].code = ban[a].code /\ \A b \in Accounts \ {a} : ban'[b] = ban[b]
    BY <2>1, <2>2 DEF SyncType, Row
  <2>5. ban' \in [Accounts -> Row \union {NoRow}]
    BY <2>2, <2>3 DEF SyncType
  <2> QED
    BY <2>4, <2>5 DEF RowsInv, RowOK
<1>3. CASE ~Present(a)
  <2>1. ban[a] = NoRow
    BY <1>3 DEF Present, SyncType, Row
  <2>2. ban' = ban
    BY <1>1, <1>3, <2>1 DEF SyncType, NoRow
  <2> QED
    BY <2>2 DEF SyncType, RowsInv
<1> QED
  BY <1>2, <1>3

(* Dropping a row. *)
LEMMA DropKeeps ==
  ASSUME SyncType, RowsInv, NEW a \in Accounts, DropRow(a), rev' = rev
  PROVE  /\ ban' \in [Accounts -> Row \union {NoRow}] /\ RowsInv'
         /\ ban'[a] = NoRow /\ \A b \in Accounts \ {a} : ban'[b] = ban[b]
BY DEF DropRow, SyncType, RowsInv, RowOK, NoRow

-----------------------------------------------------------------------------
(* How a row may change in one step: it goes, it is marked, or one with a  *)
(* new revision takes its place.                                           *)
Moves(a) ==
  \/ ban'[a].rev = 0
  \/ ban'[a].rev = ban[a].rev /\ ban'[a].source = ban[a].source
  \/ rev' = rev + 1 /\ ban'[a].rev = rev'

RowStepOK ==
  /\ ban' \in [Accounts -> Row \union {NoRow}] /\ rev' \in Nat /\ rev' >= rev
  /\ RowsInv'
  /\ \A a \in Accounts : Moves(a)

(* A step that leaves the pool alone. *)
LEMMA SameRows == ASSUME SyncType, RowsInv, UNCHANGED <<ban, rev>> PROVE RowStepOK
BY DEF SyncType, RowsInv, RowStepOK, Moves

(* Every step of the specification moves the rows one of these ways. *)
LEMMA RowStep ==
  ASSUME SyncType, RowsInv, [Next]_vars
  PROVE  RowStepOK
<1> USE DEF poolVars, cpaVars, queueVars, threadVars, restoreVars
<1>1. ASSUME NEW a \in Accounts, NEW code \in Codes, NEW w \in Nat, NEW s \in BOOLEAN,
             Set(a, NewRow(code, w, s))
      PROVE  RowStepOK
  <2>1. /\ ban' \in [Accounts -> Row \union {NoRow}] /\ rev' \in Nat
        /\ RowsInv'
        /\ ban'[a].rev = rev + 1 /\ \A b \in Accounts \ {a} : ban'[b] = ban[b]
    BY <1>1, SetKeeps, Zenon
  <2>2. rev' = rev + 1 /\ rev \in Nat
    BY <1>1 DEF Set, SyncType
  <2>3. \A b \in Accounts : Moves(b)
    BY <2>1, <2>2 DEF Moves
  <2> QED
    BY <2>1, <2>2, <2>3 DEF RowStepOK
<1>2. ASSUME NEW a \in Accounts, NEW s \in BOOLEAN, MarkSynced(a, s), rev' = rev
      PROVE  RowStepOK
  BY <1>2, MarkKeeps DEF RowStepOK, Moves, SyncType
<1>3. ASSUME NEW a \in Accounts, DropRow(a), rev' = rev
      PROVE  RowStepOK
  <2>1. /\ ban' \in [Accounts -> Row \union {NoRow}] /\ RowsInv'
        /\ ban'[a] = NoRow /\ \A b \in Accounts \ {a} : ban'[b] = ban[b]
    BY <1>3, DropKeeps, Zenon
  <2>2. rev' \in Nat /\ rev' >= rev
    BY <1>3 DEF SyncType
  <2>3. \A b \in Accounts : Moves(b)
    BY <2>1 DEF Moves, NoRow
  <2> QED
    BY <2>1, <2>2, <2>3 DEF RowStepOK
<1>4. ASSUME NEW p \in Threads, Commit(p) PROVE RowStepOK
  <2>1. acct[p] \in Accounts
    BY DEF SyncType
  <2>2. (reply[p] = "ok") \in BOOLEAN
    OBVIOUS
  <2>3. CASE DisposeCommit(p)
    BY <2>1, <2>2, <2>3, <1>2, SameRows, Zenon DEF DisposeCommit
  <2>4. CASE RetryUnlock(p)
    BY <2>4, SameRows DEF RetryUnlock
  <2>5. CASE RetryCommit(p)
    BY <2>1, <2>2, <2>5, <1>2, <1>3, SameRows, Zenon DEF RetryCommit
  <2>6. CASE EnableCommit(p)
    BY <2>1, <2>6, <1>3, SameRows, Zenon DEF EnableCommit
  <2>7. CASE Recommit(p)
    BY <2>1, <2>2, <2>7, <1>2, Zenon DEF Recommit
  <2>8. CASE DisableCommit(p)
    BY <2>1, <2>8, <1>3, SameRows, Zenon DEF DisableCommit
  <2>9. CASE DeleteCommit(p)
    BY <2>1, <2>9, <1>3, SameRows, Zenon DEF DeleteCommit
  <2>10. ASSUME NEW code \in Codes, DisableSet(p, code) PROVE RowStepOK
    <3>1. Window \in Nat
      BY ConstantsAssumption
    <3> QED
      BY <2>1, <2>10, <3>1, <1>1 DEF DisableSet
  <2> QED
    BY <1>4, <2>3, <2>4, <2>5, <2>6, <2>7, <2>8, <2>9, <2>10 DEF Commit
<1>5. ASSUME NEW a \in Accounts, NEW code \in Codes, NEW w \in 1 .. Window,
             UsageRecord(a, code, w)
      PROVE  RowStepOK
  <2>1. w \in Nat
    BY ConstantsAssumption
  <2> QED
    BY <1>5, <2>1, <1>1 DEF UsageRecord
<1>6. CASE UsageRefused
  <2>1. acct[Usage] \in Accounts
    BY DEF SyncType, Threads
  <2> QED
    BY <1>6, <2>1, <1>2, SameRows, Zenon DEF UsageRefused
<1>7. ASSUME NEW a \in Accounts,
             \/ \E p \in Operators, kind \in AllKinds : OperatorStart(p, kind, a)
             \/ AccountLost(a)
      PROVE  RowStepOK
  BY <1>7, SameRows DEF OperatorStart, AccountLost
<1>8. CASE \/ UsageGet \/ UsageEnqueue \/ (\E w \in Workers : DisposeTake(w))
           \/ RestorePass \/ ExpireScan \/ ExpireDone \/ Tick
           \/ \E t \in todo : RetryNext(t) \/ ExpireNext(t)
  BY <1>8, SameRows DEF UsageGet, UsageEnqueue, DisposeTake, RestorePass, ExpireScan,
                        ExpireDone, Tick, RetryNext, ExpireNext
<1>9. ASSUME NEW p \in Threads, GiveUp(p) \/ Lock(p) \/ CallAnswered(p) \/ CallFailed(p)
      PROVE  RowStepOK
  BY <1>9, SameRows DEF GiveUp, Lock, CallAnswered, CallFailed, Call
<1>10. CASE UNCHANGED vars
  BY <1>10, SameRows DEF vars
<1> QED
  BY <1>4, <1>5, <1>6, <1>7, <1>8, <1>9, <1>10 DEF Next

-----------------------------------------------------------------------------
(* Whose step it is.  What a goroutine remembers changes in its own steps. *)
Frame(p) ==
  /\ pc'[p] = pc[p] /\ op'[p] = op[p] /\ acct'[p] = acct[p]
  /\ expected'[p] = expected[p] /\ reply'[p] = reply[p] /\ callRev'[p] = callRev[p]

ThreadType ==
  /\ pc \in [Threads -> Labels]
  /\ op \in [Threads -> AllKinds \union {"none", "dispose"}]
  /\ acct \in [Threads -> Accounts]
  /\ expected \in [Threads -> Nat]
  /\ reply \in [Threads -> {"none", "ok", "fail", "gone"}]
  /\ callRev \in [Threads -> Nat]

QueueType ==
  /\ pending \in [Accounts -> Nat]
  /\ order \in Seq(Accounts)
  /\ todo \subseteq [acct : Accounts, rev : Nat]

(* The steps of p alone. *)
Acts(p) ==
  \/ GiveUp(p) \/ Lock(p) \/ CallAnswered(p) \/ CallFailed(p) \/ Commit(p)
  \/ /\ p = Usage
     /\ \/ \E a \in Accounts, code \in Codes, w \in 1 .. Window : UsageRecord(a, code, w)
        \/ UsageGet \/ UsageEnqueue \/ UsageRefused
  \/ p \in Workers /\ DisposeTake(p)
  \/ /\ p = Restore
     /\ \/ RestorePass \/ ExpireScan \/ ExpireDone
        \/ \E t \in todo : RetryNext(t) \/ ExpireNext(t)
  \/ p \in Operators /\ \E kind \in AllKinds, a \in Accounts : OperatorStart(p, kind, a)

(* A step is one goroutine's, the clock's or CPA's. *)
LEMMA Actor ==
  ASSUME [Next]_vars
  PROVE  \/ \E p \in Threads : Acts(p)
         \/ (\E a \in Accounts : AccountLost(a)) \/ Tick \/ UNCHANGED vars
<1>1. CASE Next
  BY <1>1 DEF Next, Acts, Threads
<1> QED
  BY <1>1

(* The building blocks of the steps, for the goroutine and for the others. *)
LEMMA Blocks ==
  ASSUME ThreadType, NEW p \in Threads
  PROVE  /\ \A l \in Labels : Goto(p, l) =>
              /\ pc' \in [Threads -> Labels] /\ pc'[p] = l
              /\ \A q \in Threads \ {p} : pc'[q] = pc[q]
         /\ \A k \in AllKinds \union {"none", "dispose"}, a \in Accounts, e \in Nat :
              Bind(p, k, a, e) =>
                /\ op' \in [Threads -> AllKinds \union {"none", "dispose"}]
                /\ acct' \in [Threads -> Accounts] /\ expected' \in [Threads -> Nat]
                /\ op'[p] = k /\ acct'[p] = a /\ expected'[p] = e
                /\ reply' = reply /\ callRev' = callRev
                /\ \A q \in Threads \ {p} :
                     op'[q] = op[q] /\ acct'[q] = acct[q] /\ expected'[q] = expected[q]
         /\ Forget(p) =>
              /\ op' \in [Threads -> AllKinds \union {"none", "dispose"}]
              /\ expected' \in [Threads -> Nat] /\ callRev' \in [Threads -> Nat]
              /\ reply' \in [Threads -> {"none", "ok", "fail", "gone"}]
              /\ op'[p] = "none" /\ expected'[p] = 0 /\ reply'[p] = "none"
              /\ callRev'[p] = 0 /\ acct' = acct
              /\ \A q \in Threads \ {p} :
                   /\ op'[q] = op[q] /\ expected'[q] = expected[q]
                   /\ reply'[q] = reply[q] /\ callRev'[q] = callRev[q]
<1>1. \A l \in Labels : Goto(p, l) =>
        /\ pc' \in [Threads -> Labels] /\ pc'[p] = l
        /\ \A q \in Threads \ {p} : pc'[q] = pc[q]
  BY DEF Goto, ThreadType
<1>2. \A k \in AllKinds \union {"none", "dispose"}, a \in Accounts, e \in Nat :
        Bind(p, k, a, e) =>
          /\ op' \in [Threads -> AllKinds \union {"none", "dispose"}]
          /\ acct' \in [Threads -> Accounts] /\ expected' \in [Threads -> Nat]
          /\ op'[p] = k /\ acct'[p] = a /\ expected'[p] = e
          /\ reply' = reply /\ callRev' = callRev
          /\ \A q \in Threads \ {p} :
               op'[q] = op[q] /\ acct'[q] = acct[q] /\ expected'[q] = expected[q]
  BY DEF Bind, ThreadType
<1>3. Forget(p) =>
        /\ op' \in [Threads -> AllKinds \union {"none", "dispose"}]
        /\ expected' \in [Threads -> Nat] /\ callRev' \in [Threads -> Nat]
        /\ reply' \in [Threads -> {"none", "ok", "fail", "gone"}]
        /\ op'[p] = "none" /\ expected'[p] = 0 /\ reply'[p] = "none"
        /\ callRev'[p] = 0 /\ acct' = acct
        /\ \A q \in Threads \ {p} :
             /\ op'[q] = op[q] /\ expected'[q] = expected[q]
             /\ reply'[q] = reply[q] /\ callRev'[q] = callRev[q]
  BY DEF Forget, ThreadType
<1> QED
  BY <1>1, <1>2, <1>3

(* An account that CPA has lost does not come back. *)
GoneStays == \A a \in Accounts : cpa[a] = "gone" => cpa'[a] = "gone"

-----------------------------------------------------------------------------
(* The ways a step changes what its goroutine remembers. *)
Rest == {"idle", "retry", "expire"}

(* It is done with an account and forgets about it. *)
Done(p) == (\E l \in Rest : Goto(p, l)) /\ Forget(p)

Deletes == {"delete", "bulkDelete"}
Works == {"dispose", "retry", "disable"} \union Deletes \union Enables

(* It turns to an account with a revision that was handed out, the restore *)
(* loop to a row that is no manual ban.                                    *)
Turns(p, k, a, e, l) ==
  /\ pc[p] \in Rest /\ Bind(p, k, a, e) /\ Goto(p, l)
  /\ l = "get" \/ (k \in Works /\ (l = "call" <=> k = "bulkDelete"))
  /\ k \in Enables => e <= rev
  /\ p = Restore =>
       /\ k \in {"retry", "expire"}
       /\ k = "expire" => ban' = ban /\ ban[a].source # "manual_unban"

Turned(p) ==
  \E k \in AllKinds \union {"none", "dispose"}, a \in Accounts, e \in Nat,
     l \in {"get", "lock", "call"} : Turns(p, k, a, e, l)

(* It goes on with what it knows. *)
Kept(p) ==
  /\ Keep(p)
  /\ \/ \E l \in Labels \ {"commit", "lock", "call"} : Goto(p, l) /\ (l \in Rest => pc[p] \in Rest)
     \/ pc' = pc

(* It reads a revision anew. *)
Reads(p, e, l) ==
  /\ expected' = [expected EXCEPT ![p] = e] /\ Goto(p, l)
  /\ UNCHANGED <<op, acct, reply, callRev>>
  /\ e = expected[p] \/ (p # Restore /\ e <= rev)
  /\ l = "commit" => op[p] \notin Enables

ReadAnew(p) == \E e \in Nat, l \in Labels \ Rest : Reads(p, e, l)

Called(p) == CallAnswered(p) \/ CallFailed(p)

Memory(p) == Done(p) \/ Turned(p) \/ Kept(p) \/ ReadAnew(p) \/ Called(p)

(* A commit forgets the account, or goes on to the second call or the new row. *)
LEMMA CommitMemory ==
  ASSUME SyncType, NEW p \in Threads, Commit(p)
  PROVE  Done(p) \/ Kept(p)
<1>1. Release(p) => Done(p)
  BY DEF Release, Done, Home, Rest
<1>2. DisposeCommit(p) => Done(p)
  BY <1>1 DEF DisposeCommit
<1>3. RetryUnlock(p) => Kept(p)
  BY DEF RetryUnlock, Kept, Labels, Rest
<1>4. RetryCommit(p) => Done(p)
  BY DEF RetryCommit, Done, Rest
<1>5. EnableCommit(p) => Done(p) \/ Kept(p)
  BY <1>1 DEF EnableCommit, Kept, Labels, Rest
<1>6. Recommit(p) => Done(p)
  BY <1>1 DEF Recommit
<1>7. DisableCommit(p) => Done(p) \/ Kept(p)
  BY <1>1 DEF DisableCommit, Kept, Labels, Rest
<1>8. \A code \in Codes : DisableSet(p, code) => Done(p)
  BY <1>1 DEF DisableSet
<1>9. DeleteCommit(p) => Done(p)
  BY <1>1 DEF DeleteCommit
<1> QED
  BY <1>2, <1>3, <1>4, <1>5, <1>6, <1>7, <1>8, <1>9 DEF Commit

(* What a goroutine knows: a reply it holds about a lost account is true,  *)
(* the revision an enable was about existed when its call took effect, and *)
(* the row the restore loop means to remove is no manual ban.              *)
Knows(p) ==
  /\ pc[p] \in Rest => reply[p] = "none"
  /\ reply[p] = "gone" => cpa[acct[p]] = "gone"
  /\ op[p] \in Enables => expected[p] <= rev
  /\ pc[p] = "commit" /\ op[p] \in Enables => expected[p] <= callRev[p]
  /\ p = Restore =>
       /\ op[p] \in {"none", "retry", "expire"}
       /\ op[p] = "expire" /\ Present(acct[p]) /\ ban[acct[p]].rev = expected[p]
            => ban[acct[p]].source # "manual_unban"

(* Every step of a goroutine is one of these. *)
LEMMA ActsMemory ==
  ASSUME SyncType, RowsInv, NEW p \in Threads, Knows(p), Acts(p)
  PROVE  Memory(p)
<1> USE DEF Memory
<1>1. CASE GiveUp(p)
  BY <1>1 DEF GiveUp, Done, Rest
<1>2. CASE Lock(p)
  <2>1. CASE NothingToDispose(p)
    BY <1>2, <2>1 DEF Lock, Done, Rest
  <2>2. CASE ~NothingToDispose(p)
    <3> DEFINE e == IF op[p] = "enable" THEN ban[acct[p]].rev ELSE expected[p]
               l == IF op[p] = "bulkDelete" THEN "commit" ELSE "call"
    <3>1. e \in Nat /\ (e = expected[p] \/ (p # Restore /\ e <= rev))
      BY DEF SyncType, RowsInv, RowOK, Row, NoRow, Knows
    <3>2. expected' = [expected EXCEPT ![p] = e]
      BY <1>2, <2>2 DEF Lock, SyncType
    <3>3. Goto(p, l) /\ UNCHANGED <<op, acct, reply, callRev>>
      BY <1>2, <2>2 DEF Lock
    <3>4. l \in Labels \ Rest /\ (l = "commit" => op[p] \notin Enables)
      BY DEF Labels, Rest, Enables
    <3> HIDE DEF e, l
    <3> QED
      BY <3>1, <3>2, <3>3, <3>4 DEF Reads, ReadAnew
  <2> QED
    BY <2>1, <2>2
<1>3. CASE Called(p) \/ Commit(p)
  BY <1>3, CommitMemory
<1>4. ASSUME p = Usage, NEW a \in Accounts, NEW code \in Codes, NEW w \in 1 .. Window,
             UsageRecord(a, code, w)
      PROVE  Turned(p)
  <2>1. Turns(p, "usage", a, 0, "get")
    BY <1>4 DEF UsageRecord, Turns, Rest, Enables, Usage, Restore
  <2> QED
    BY <2>1 DEF Turned, AllKinds
<1>5. CASE p = Usage /\ UsageGet
  <2> DEFINE e == ban[acct[p]].rev
  <2>1. e \in Nat /\ e <= rev
    BY DEF SyncType, RowsInv, RowOK, Row, NoRow
  <2>2. Reads(p, e, "enqueue")
    BY <1>5, <2>1 DEF UsageGet, Reads, Usage, Restore
  <2> QED
    BY <2>1, <2>2 DEF ReadAnew, Labels, Rest
<1>6. CASE p = Usage /\ (UsageEnqueue \/ UsageRefused)
  <2>1. CASE UsageRefused
    BY <1>6, <2>1 DEF UsageRefused, Done, Rest
  <2>2. CASE UsageEnqueue
    BY <1>6, <2>2 DEF UsageEnqueue, Done, Kept, Labels, Rest
  <2> QED
    BY <1>6, <2>1, <2>2
<1>7. CASE p \in Workers /\ DisposeTake(p)
  <2>1. order # << >> /\ Head(order) \in Accounts /\ pending[Head(order)] \in Nat
    BY <1>7 DEF DisposeTake, SyncType
  <2>2. Turns(p, "dispose", Head(order), pending[Head(order)], "lock")
    BY <1>7, ThreadsAssumption DEF DisposeTake, Turns, Rest, Works, Deletes, Enables
  <2> QED
    BY <2>1, <2>2 DEF Turned
<1>8. CASE p = Restore /\ (RestorePass \/ ExpireScan)
  BY <1>8 DEF RestorePass, ExpireScan, Kept, Labels, Rest
<1>9. CASE p = Restore /\ ExpireDone
  BY <1>9 DEF ExpireDone, Done, Rest
<1>10. ASSUME p = Restore, NEW t \in todo, RetryNext(t)
       PROVE  Turned(p)
  <2>1. t.acct \in Accounts /\ t.rev \in Nat
    BY DEF SyncType
  <2>2. Turns(p, "retry", t.acct, t.rev, "lock")
    BY <1>10 DEF RetryNext, Turns, Rest, Works, Deletes, Enables
  <2> QED
    BY <2>1, <2>2 DEF Turned, AllKinds
<1>11. ASSUME p = Restore, NEW t \in todo, ExpireNext(t)
       PROVE  Turned(p) \/ Kept(p)
  <2>1. t.acct \in Accounts
    BY DEF SyncType
  <2> DEFINE e == ban[t.acct].rev
  <2>2. e \in Nat /\ e <= rev
    BY <2>1 DEF SyncType, RowsInv, RowOK, Row, NoRow
  <2>3. CASE Present(t.acct) /\ ban[t.acct].source # "manual_unban"
    <3>1. Turns(p, "expire", t.acct, e, "lock")
      BY <1>11, <2>2, <2>3 DEF ExpireNext, Turns, Rest, Works, Deletes, Enables, poolVars
    <3> QED
      BY <2>1, <2>2, <3>1 DEF Turned, AllKinds
  <2>4. CASE ~(Present(t.acct) /\ ban[t.acct].source # "manual_unban")
    BY <1>11, <2>4 DEF ExpireNext, Kept
  <2> QED
    BY <2>3, <2>4
<1>12. ASSUME p \in Operators, NEW kind \in AllKinds, NEW a \in Accounts,
              OperatorStart(p, kind, a)
       PROVE  Turned(p)
  <2> DEFINE e == IF kind = "unban" THEN ban[a].rev ELSE 0
             l == IF kind = "bulkDelete" THEN "call" ELSE "lock"
  <2>1. e \in Nat /\ e <= rev
    BY DEF SyncType, RowsInv, RowOK, Row, NoRow
  <2>2. p # Restore
    BY <1>12, ThreadsAssumption
  <2>3. Turns(p, kind, a, e, l)
    BY <1>12, <2>1, <2>2 DEF OperatorStart, Turns, Rest, Works, Deletes, Enables
  <2>4. l \in {"get", "lock", "call"}
    OBVIOUS
  <2> HIDE DEF e, l
  <2> QED
    BY <2>1, <2>3, <2>4 DEF Turned
<1> QED
  BY <1>1, <1>2, <1>3, <1>4, <1>5, <1>6, <1>7, <1>8, <1>9, <1>10, <1>11, <1>12
     DEF Acts, Called

-----------------------------------------------------------------------------
(* What CPA has of an account changes in the calls, and not once it is lost. *)
LEMMA CpaStep ==
  ASSUME SyncType, [Next]_vars
  PROVE  cpa' \in [Accounts -> {"enabled", "disabled", "gone"}] /\ GoneStays
<1> USE DEF poolVars, cpaVars, queueVars, threadVars, restoreVars
<1>1. ASSUME UNCHANGED cpa
      PROVE  cpa' \in [Accounts -> {"enabled", "disabled", "gone"}] /\ GoneStays
  BY <1>1 DEF SyncType, GoneStays
<1>2. ASSUME NEW p \in Threads, Called(p)
      PROVE  cpa' \in [Accounts -> {"enabled", "disabled", "gone"}] /\ GoneStays
  <2>1. Wanted(p) \in {"enabled", "disabled", "gone"} /\ acct[p] \in Accounts
    BY DEF Wanted, SyncType
  <2>2. CASE cpa' = [cpa EXCEPT ![acct[p]] = cpa[acct[p]]]
    BY <2>1, <2>2 DEF SyncType, GoneStays
  <2>3. CASE cpa' = [cpa EXCEPT ![acct[p]] = Wanted(p)] /\ cpa[acct[p]] # "gone"
    BY <2>1, <2>3 DEF SyncType, GoneStays
  <2>4. CallAnswered(p) => \/ cpa' = [cpa EXCEPT ![acct[p]] = cpa[acct[p]]]
                           \/ cpa' = [cpa EXCEPT ![acct[p]] = Wanted(p)]
                              /\ cpa[acct[p]] # "gone"
    BY DEF CallAnswered, Call
  <2>5. CallFailed(p) => \/ cpa' = [cpa EXCEPT ![acct[p]] = cpa[acct[p]]]
                         \/ cpa' = [cpa EXCEPT ![acct[p]] = Wanted(p)]
                            /\ cpa[acct[p]] # "gone"
    BY DEF CallFailed, Call
  <2> QED
    BY <1>2, <2>2, <2>3, <2>4, <2>5 DEF Called
<1>3. ASSUME NEW p \in Threads, Commit(p) PROVE UNCHANGED cpa
  BY <1>3 DEF Commit, DisposeCommit, RetryUnlock, RetryCommit, EnableCommit, Recommit,
              DisableCommit, DisableSet, DeleteCommit
<1>4. ASSUME NEW a \in Accounts, AccountLost(a)
      PROVE  cpa' \in [Accounts -> {"enabled", "disabled", "gone"}] /\ GoneStays
  BY <1>4 DEF AccountLost, SyncType, GoneStays
<1>5. ASSUME NEW p \in Threads, Acts(p), ~Called(p) PROVE UNCHANGED cpa
  BY <1>3, <1>5 DEF Acts, Called, GiveUp, Lock, UsageRecord, UsageGet, UsageEnqueue,
       UsageRefused, DisposeTake, RestorePass, ExpireScan, ExpireDone, RetryNext,
       ExpireNext, OperatorStart
<1>6. Tick \/ UNCHANGED vars => UNCHANGED cpa
  BY DEF Tick, vars
<1> QED
  BY <1>1, <1>2, <1>4, <1>5, <1>6, Actor

(* The queue and the lists hold accounts and revisions. *)
LEMMA QueueStep ==
  ASSUME SyncType, [Next]_vars
  PROVE  QueueType' /\ now' \in Nat
<1> USE DEF poolVars, cpaVars, queueVars, threadVars, restoreVars
<1>1. ASSUME UNCHANGED <<queueVars, todo, now>> PROVE QueueType' /\ now' \in Nat
  BY <1>1 DEF SyncType, QueueType
<1>2. ASSUME NEW p \in Threads, Commit(p) PROVE UNCHANGED <<queueVars, todo, now>>
  BY <1>2 DEF Commit, DisposeCommit, RetryUnlock, RetryCommit, EnableCommit, Recommit,
              DisableCommit, DisableSet, DeleteCommit
<1>3. ASSUME NEW p \in Threads, CallAnswered(p) \/ CallFailed(p)
      PROVE  UNCHANGED <<queueVars, todo, now>>
  BY <1>3 DEF CallAnswered, CallFailed, Call
<1>4. CASE UsageEnqueue
  <2>1. acct[Usage] \in Accounts /\ expected[Usage] \in Nat
    BY DEF SyncType, Threads
  <2>2. order' \in Seq(Accounts)
    <3>1. order' = order \/ order' = Append(order, acct[Usage])
      BY <1>4 DEF UsageEnqueue
    <3>2. order \in Seq(Accounts)
      BY DEF SyncType
    <3>3. Append(order, acct[Usage]) \in Seq(Accounts)
      BY <2>1, <3>2
    <3> QED
      BY <3>1, <3>2, <3>3
  <2>3. pending' \in [Accounts -> Nat]
    BY <1>4, <2>1 DEF UsageEnqueue, SyncType
  <2> QED
    BY <1>4, <2>2, <2>3 DEF UsageEnqueue, SyncType, QueueType
<1>5. ASSUME NEW w \in Workers, DisposeTake(w) PROVE QueueType' /\ now' \in Nat
  BY <1>5 DEF DisposeTake, SyncType, QueueType
<1>6. CASE RestorePass \/ ExpireScan
  <2>1. todo' \subseteq [acct : Accounts, rev : Nat]
    BY <1>6 DEF RestorePass, ExpireScan, SyncType, Row, NoRow
  <2> QED
    BY <1>6, <2>1 DEF RestorePass, ExpireScan, SyncType, QueueType
<1>7. ASSUME NEW t \in todo, RetryNext(t) \/ ExpireNext(t) PROVE QueueType' /\ now' \in Nat
  BY <1>7 DEF RetryNext, ExpireNext, SyncType, QueueType
<1>8. CASE Tick
  BY <1>8 DEF Tick, SyncType, QueueType
<1>9. CASE UsageGet \/ UsageRefused \/ ExpireDone \/ UNCHANGED vars
           \/ \E a \in Accounts : AccountLost(a)
  BY <1>1, <1>9 DEF UsageGet, UsageRefused, ExpireDone, vars, AccountLost
<1>10. ASSUME NEW p \in Threads, GiveUp(p) \/ Lock(p) PROVE UNCHANGED <<queueVars, todo, now>>
  BY <1>10 DEF GiveUp, Lock
<1>11. ASSUME NEW p \in Operators, NEW k \in AllKinds, NEW a \in Accounts,
              OperatorStart(p, k, a)
       PROVE  UNCHANGED <<queueVars, todo, now>>
  BY <1>11 DEF OperatorStart
<1>12. ASSUME NEW a \in Accounts, NEW code \in Codes, NEW w \in 1 .. Window,
              UsageRecord(a, code, w)
       PROVE  UNCHANGED <<queueVars, todo, now>>
  BY <1>12 DEF UsageRecord
<1> QED
  BY <1>1, <1>2, <1>3, <1>4, <1>5, <1>6, <1>7, <1>8, <1>9, <1>10, <1>11, <1>12 DEF Next

(* A step of p keeps the types of what goroutines remember, and leaves the *)
(* others alone.                                                           *)
LEMMA MemoryStep ==
  ASSUME SyncType, NEW p \in Threads, Memory(p)
  PROVE  ThreadType' /\ \A q \in Threads \ {p} : Frame(q)
<1>0. ThreadType
  BY DEF SyncType, ThreadType
<1>1. CASE Done(p)
  BY <1>0, <1>1, Blocks DEF Done, Rest, Labels, ThreadType, Frame
<1>2. CASE Turned(p)
  <2>1. PICK k \in AllKinds \union {"none", "dispose"}, a \in Accounts, e \in Nat,
             l \in {"get", "lock", "call"} : Turns(p, k, a, e, l)
    BY <1>2 DEF Turned
  <2>2. Bind(p, k, a, e) /\ Goto(p, l) /\ l \in Labels
    BY <2>1 DEF Turns, Labels
  <2>3. pc' \in [Threads -> Labels] /\ \A q \in Threads \ {p} : pc'[q] = pc[q]
    BY <1>0, <2>2, Blocks
  <2>4. /\ op' \in [Threads -> AllKinds \union {"none", "dispose"}]
        /\ acct' \in [Threads -> Accounts] /\ expected' \in [Threads -> Nat]
        /\ reply' = reply /\ callRev' = callRev
        /\ \A q \in Threads \ {p} :
             op'[q] = op[q] /\ acct'[q] = acct[q] /\ expected'[q] = expected[q]
    BY <1>0, <2>2 DEF Bind, ThreadType
  <2> QED
    BY <1>0, <2>3, <2>4 DEF ThreadType, Frame
<1>3. CASE Kept(p)
  BY <1>0, <1>3, Blocks DEF Kept, Keep, threadVars, ThreadType, Frame
<1>4. CASE ReadAnew(p)
  BY <1>0, <1>4, Blocks DEF ReadAnew, Reads, ThreadType, Frame
<1>5. CASE Called(p)
  <2>1. PICK eff \in BOOLEAN, ans \in {"ok", "fail", "gone"} : Call(p, eff, ans)
    BY <1>5 DEF Called, CallAnswered, CallFailed
  <2> DEFINE l == CASE pc[p] = "recall" -> "recommit"
                    [] pc[p] = "call" /\ op[p] = "bulkDelete" -> "lock"
                    [] OTHER -> "commit"
  <2>2. l \in Labels /\ Goto(p, l)
    BY <2>1 DEF Call, Labels
  <2>3. reply' = [reply EXCEPT ![p] = ans] /\ UNCHANGED <<op, acct, expected>>
    BY <2>1 DEF Call
  <2>4. callRev' \in [Threads -> Nat] /\ \A q \in Threads \ {p} : callRev'[q] = callRev[q]
    BY <2>1 DEF Call, SyncType
  <2> HIDE DEF l
  <2> QED
    <3>1. pc' \in [Threads -> Labels] /\ \A q \in Threads \ {p} : pc'[q] = pc[q]
      BY <1>0, <2>2, Blocks
    <3>2. /\ reply' \in [Threads -> {"none", "ok", "fail", "gone"}]
          /\ \A q \in Threads \ {p} : reply'[q] = reply[q]
      BY <1>0, <2>3 DEF ThreadType
    <3> QED
      BY <1>0, <2>3, <2>4, <3>1, <3>2 DEF ThreadType, Frame
<1> QED
  BY <1>1, <1>2, <1>3, <1>4, <1>5 DEF Memory

(* The row the restore loop means to remove: one with the same revision    *)
(* stays what it was.                                                      *)
LEMMA MeantStays ==
  ASSUME SyncType, RowsInv, RowStepOK, NEW p \in Threads, Knows(p), p = Restore,
         op'[p] = op[p], acct'[p] = acct[p], expected'[p] = expected[p],
         op'[p] = "expire", Present(acct[p])', ban'[acct'[p]].rev = expected'[p]
  PROVE  ban'[acct'[p]].source # "manual_unban"
<1> DEFINE a == acct[p]
<1>1. a \in Accounts /\ a = acct'[p] /\ ban'[a].rev = expected[p] /\ ban'[a].rev # 0
  BY DEF SyncType, Present
<1>2. op[p] = "expire" /\ expected[p] <= rev /\ rev \in Nat /\ expected[p] \in Nat
  BY DEF Knows, Enables, SyncType
<1>3. ban'[a].rev = ban[a].rev /\ ban'[a].source = ban[a].source
  BY <1>1, <1>2 DEF RowStepOK, Moves
<1> QED
  BY <1>1, <1>2, <1>3 DEF Knows, Present

(* What one goroutine knows survives the steps of the others. *)
LEMMA FrameKnows ==
  ASSUME SyncType, RowsInv, RowStepOK, GoneStays, NEW p \in Threads, Knows(p), Frame(p)
  PROVE  Knows(p)'
<1>1. pc'[p] \in Rest => reply'[p] = "none"
  BY DEF Knows, Frame
<1>2. reply'[p] = "gone" => cpa'[acct'[p]] = "gone"
  BY DEF Knows, Frame, GoneStays, SyncType
<1>3. op'[p] \in Enables => expected'[p] <= rev'
  BY DEF Knows, Frame, RowStepOK, SyncType
<1>4. pc'[p] = "commit" /\ op'[p] \in Enables => expected'[p] <= callRev'[p]
  BY DEF Knows, Frame
<1>5. p = Restore /\ op'[p] = "expire" /\ Present(acct[p])'
      /\ ban'[acct'[p]].rev = expected'[p] => ban'[acct'[p]].source # "manual_unban"
  BY MeantStays DEF Frame
<1>6. p = Restore => op'[p] \in {"none", "retry", "expire"}
  BY DEF Knows, Frame
<1> QED
  BY <1>1, <1>2, <1>3, <1>4, <1>5, <1>6 DEF Knows

(* And its own. *)
LEMMA OwnKnows ==
  ASSUME SyncType, RowsInv, RowStepOK, GoneStays, NEW p \in Threads, Knows(p), Memory(p)
  PROVE  Knows(p)'
<1>0. ThreadType
  BY DEF SyncType, ThreadType
<1>1. CASE Done(p)
  <2>1. op'[p] = "none" /\ reply'[p] = "none"
    BY <1>0, <1>1, Blocks DEF Done
  <2> QED
    BY <2>1 DEF Knows, Enables
<1>2. CASE Turned(p)
  <2>1. PICK k \in AllKinds \union {"none", "dispose"}, a \in Accounts, e \in Nat,
             l \in {"get", "lock", "call"} : Turns(p, k, a, e, l)
    BY <1>2 DEF Turned
  <2>2. pc'[p] = l /\ op'[p] = k /\ acct'[p] = a /\ expected'[p] = e /\ reply'[p] = reply[p]
    BY <1>0, <2>1 DEF Turns, Bind, Goto, ThreadType
  <2>3. reply'[p] = "none" /\ l # "commit"
    BY <2>1, <2>2 DEF Turns, Knows
  <2>4. k \in Enables => e <= rev'
    BY <2>1 DEF Turns, RowStepOK, SyncType
  <2>5. p = Restore =>
          /\ k \in {"none", "retry", "expire"}
          /\ k = "expire" => ban'[a].source # "manual_unban"
    BY <2>1 DEF Turns
  <2> QED
    BY <2>2, <2>3, <2>4, <2>5 DEF Knows
<1>3. CASE Kept(p)
  <2>1. /\ op'[p] = op[p] /\ acct'[p] = acct[p] /\ expected'[p] = expected[p]
        /\ reply'[p] = reply[p] /\ callRev'[p] = callRev[p]
    BY <1>3 DEF Kept, Keep, threadVars
  <2>2. \/ pc'[p] = pc[p]
        \/ pc'[p] # "commit" /\ (pc'[p] \in Rest => pc[p] \in Rest)
    BY <1>0, <1>3, Blocks DEF Kept
  <2>3. pc'[p] \in Rest => reply'[p] = "none"
    BY <2>1, <2>2 DEF Knows
  <2>4. reply'[p] = "gone" => cpa'[acct'[p]] = "gone"
    BY <2>1 DEF Knows, GoneStays, SyncType
  <2>5. op'[p] \in Enables => expected'[p] <= rev'
    BY <2>1 DEF Knows, RowStepOK, SyncType
  <2>6. pc'[p] = "commit" /\ op'[p] \in Enables => expected'[p] <= callRev'[p]
    BY <2>1, <2>2 DEF Knows
  <2>7. p = Restore => op'[p] \in {"none", "retry", "expire"}
    BY <2>1 DEF Knows
  <2>8. p = Restore /\ op'[p] = "expire" /\ Present(acct[p])'
        /\ ban'[acct'[p]].rev = expected'[p] => ban'[acct'[p]].source # "manual_unban"
    BY <2>1, MeantStays
  <2> QED
    BY <2>3, <2>4, <2>5, <2>6, <2>7, <2>8 DEF Knows
<1>4. CASE ReadAnew(p)
  <2>1. PICK e \in Nat, l \in Labels \ Rest : Reads(p, e, l)
    BY <1>4 DEF ReadAnew
  <2>2. /\ op'[p] = op[p] /\ acct'[p] = acct[p] /\ reply'[p] = reply[p]
        /\ callRev'[p] = callRev[p] /\ expected'[p] = e /\ pc'[p] = l
    BY <1>0, <2>1 DEF Reads, Goto, ThreadType
  <2>3. reply'[p] = "gone" => cpa'[acct'[p]] = "gone"
    BY <2>2 DEF Knows, GoneStays, SyncType
  <2>4. op'[p] \in Enables => expected'[p] <= rev'
    BY <2>1, <2>2 DEF Knows, RowStepOK, SyncType, Reads
  <2>5. pc'[p] = "commit" => op'[p] \notin Enables
    BY <2>1, <2>2 DEF Reads
  <2>6. p = Restore => op'[p] \in {"none", "retry", "expire"} /\ expected'[p] = expected[p]
    BY <2>1, <2>2 DEF Knows, Reads
  <2>7. p = Restore /\ op'[p] = "expire" /\ Present(acct[p])'
        /\ ban'[acct'[p]].rev = expected'[p] => ban'[acct'[p]].source # "manual_unban"
    BY <2>2, <2>6, MeantStays
  <2> QED
    BY <2>1, <2>2, <2>3, <2>4, <2>5, <2>6, <2>7 DEF Knows
<1>5. CASE Called(p)
  <2>1. PICK eff \in BOOLEAN, ans \in {"ok", "fail", "gone"} :
          Call(p, eff, ans) /\ (ans = "gone" => cpa[acct[p]] = "gone")
    BY <1>5 DEF Called, CallAnswered, CallFailed
  <2>2. op'[p] = op[p] /\ acct'[p] = acct[p] /\ expected'[p] = expected[p] /\ reply'[p] = ans
    BY <2>1 DEF Call, SyncType
  <2>3. /\ pc'[p] \in {"recommit", "lock", "commit"}
        /\ pc'[p] = "commit" => callRev'[p] = rev /\ rev' = rev
    BY <2>1 DEF Call, Goto, SyncType, poolVars
  <2>4. reply'[p] = "gone" => cpa'[acct'[p]] = "gone"
    BY <2>1, <2>2 DEF GoneStays, SyncType
  <2>5. op'[p] \in Enables => expected'[p] <= rev'
    BY <2>2 DEF Knows, RowStepOK, SyncType
  <2>6. pc'[p] = "commit" /\ op'[p] \in Enables => expected'[p] <= callRev'[p]
    BY <2>3, <2>5
  <2>7. p = Restore => op'[p] \in {"none", "retry", "expire"}
    BY <2>2 DEF Knows
  <2>8. p = Restore /\ op'[p] = "expire" /\ Present(acct[p])'
        /\ ban'[acct'[p]].rev = expected'[p] => ban'[acct'[p]].source # "manual_unban"
    BY <2>2, MeantStays
  <2> QED
    BY <2>3, <2>4, <2>5, <2>6, <2>7, <2>8 DEF Knows, Rest
<1> QED
  BY <1>1, <1>2, <1>3, <1>4, <1>5 DEF Memory

-----------------------------------------------------------------------------
(* The inductive invariant. *)
SyncInv == SyncType /\ RowsInv /\ \A p \in Threads : Knows(p)

(* It holds at the start. *)
LEMMA SyncInvInit == Init => SyncInv
<1> SUFFICES ASSUME Init PROVE SyncInv
  OBVIOUS
<1>1. \A p \in Threads : Knows(p)
  BY DEF Init, Knows, Enables
<1> QED
  BY <1>1, SyncInit DEF SyncInv

(* Every step keeps it: the rows, CPA, the queue, and what everybody knows. *)
LEMMA SyncInvStep == SyncInv /\ [Next]_vars => SyncInv'
<1> SUFFICES ASSUME SyncInv, [Next]_vars PROVE SyncInv'
  OBVIOUS
<1>1. RowStepOK
  BY RowStep DEF SyncInv
<1>2. cpa' \in [Accounts -> {"enabled", "disabled", "gone"}] /\ GoneStays
  BY CpaStep DEF SyncInv
<1>3. QueueType' /\ now' \in Nat
  BY QueueStep DEF SyncInv
<1>4. CASE \E p \in Threads : Acts(p)
  <2>1. PICK p \in Threads : Acts(p)
    BY <1>4
  <2>2. Memory(p)
    BY <2>1, ActsMemory DEF SyncInv
  <2>3. ThreadType' /\ \A q \in Threads \ {p} : Frame(q)
    BY <2>2, MemoryStep DEF SyncInv
  <2>4. Knows(p)'
    BY <1>1, <1>2, <2>2, OwnKnows DEF SyncInv
  <2>5. \A q \in Threads \ {p} : Knows(q)'
    BY <1>1, <1>2, <2>3, FrameKnows DEF SyncInv
  <2> QED
    BY <1>1, <1>2, <1>3, <2>3, <2>4, <2>5
       DEF SyncInv, SyncType, RowStepOK, ThreadType, QueueType
<1>5. CASE (\E a \in Accounts : AccountLost(a)) \/ Tick \/ UNCHANGED vars
  <2>1. UNCHANGED <<pc, op, acct, expected, reply, callRev>>
    BY <1>5 DEF AccountLost, Tick, vars, threadVars
  <2>2. ThreadType' /\ \A q \in Threads : Frame(q)
    BY <2>1 DEF SyncInv, SyncType, ThreadType, Frame
  <2>3. \A q \in Threads : Knows(q)'
    BY <1>1, <1>2, <2>2, FrameKnows DEF SyncInv
  <2> QED
    BY <1>1, <1>2, <1>3, <2>2, <2>3
       DEF SyncInv, SyncType, RowStepOK, ThreadType, QueueType
<1> QED
  BY <1>4, <1>5, Actor

-----------------------------------------------------------------------------
(* A goroutine that commits an enable is in EnableCommit. *)
LEMMA CommitsEnable ==
  ASSUME SyncInv, [Next]_vars, NEW p \in Threads, Commits(p), op[p] \in Enables
  PROVE  EnableCommit(p)
<1>1. pc[p] = "commit" /\ ~Frame(p)
  BY DEF Commits, Frame
<1>2. ~UNCHANGED pc
  BY DEF Commits
<1>3. ~((\E a \in Accounts : AccountLost(a)) \/ Tick \/ UNCHANGED vars)
  BY <1>2 DEF AccountLost, Tick, vars
<1>4. PICK q \in Threads : Acts(q)
  BY <1>3, Actor
<1>5. q = p
  BY <1>1, <1>4, ActsMemory, MemoryStep DEF SyncInv
<1>6. Commit(p)
  BY <1>1, <1>4, <1>5
     DEF Acts, GiveUp, Lock, CallAnswered, CallFailed, Call, UsageRecord, UsageGet,
         UsageEnqueue, UsageRefused, DisposeTake, RestorePass, ExpireScan, ExpireDone,
         RetryNext, ExpireNext, OperatorStart
<1> QED
  BY <1>1, <1>6 DEF Commit, DisposeCommit, RetryUnlock, RetryCommit, Recommit,
       DisableCommit, DisableSet, DeleteCommit, Enables

(* What an enable removes is the row it was about. *)
LEMMA EnableRemoves ==
  ASSUME SyncType, NEW p \in Threads, EnableCommit(p), NEW a \in Accounts, Removed(a)
  PROVE  a = acct[p] /\ ban[a].rev = expected[p]
<1>1. ban' = ban \/ (DropRow(acct[p]) /\ ban[acct[p]].rev = expected[p])
  BY DEF EnableCommit
<1>2. ban' # ban
  BY DEF Removed, Present
<1>3. ban' = [ban EXCEPT ![acct[p]] = NoRow]
  BY <1>1, <1>2 DEF DropRow
<1>4. a = acct[p]
  BY <1>3 DEF Removed, Present, SyncType
<1> QED
  BY <1>1, <1>2, <1>4

(* So a ban that is newer than the call is not the one that goes. *)
LEMMA FreshStep ==
  ASSUME SyncInv, [Next]_vars, NEW p \in Threads, Commits(p), op[p] \in Enables,
         NEW a \in Accounts, Removed(a)
  PROVE  ban[a].rev <= callRev[p]
BY CommitsEnable, EnableRemoves DEF SyncInv, Knows, Commits

(* What the restore loop removes: the row of a lost account, or no manual ban. *)
LEMMA RestoreStep ==
  ASSUME SyncInv, [Next]_vars, pc'[Restore] # pc[Restore], NEW a \in Accounts, Removed(a),
         ban[a].source = "manual_unban"
  PROVE  cpa[a] = "gone"
<1> DEFINE p == Restore
<1>0. p \in Threads /\ SyncType /\ RowsInv /\ Knows(p) /\ p # Usage
      /\ p \notin Workers /\ p \notin Operators
  BY ThreadsAssumption DEF SyncInv, Threads, Restore, Usage
<1>1. ~((\E b \in Accounts : AccountLost(b)) \/ Tick \/ UNCHANGED vars)
  BY DEF AccountLost, Tick, vars
<1>2. PICK q \in Threads : Acts(q)
  BY <1>1, Actor
<1>3. q = p
  BY <1>0, <1>2, ActsMemory, MemoryStep DEF SyncInv, Frame
<1>4. ban' # ban
  BY DEF Removed, Present
<1>5. Commit(p)
  BY <1>0, <1>2, <1>3, <1>4
     DEF Acts, GiveUp, Lock, CallAnswered, CallFailed, Call, RestorePass, ExpireScan,
         ExpireDone, RetryNext, ExpireNext, poolVars
<1>6. op[p] \in {"none", "retry", "expire"} /\ acct[p] \in Accounts
  BY <1>0 DEF Knows, SyncType
<1>7. \A s \in BOOLEAN : ~(MarkSynced(acct[p], s) /\ rev' = rev)
  BY <1>0, <1>6, MarkKeeps DEF Removed, Present
<1>8. (reply[p] = "ok") \in BOOLEAN
  OBVIOUS
<1>9. CASE RetryCommit(p)
  <2>1. ~MarkSynced(acct[p], reply[p] = "ok")
    BY <1>7, <1>8, <1>9, Zenon DEF RetryCommit
  <2>2. reply[p] = "gone" /\ DropRow(acct[p])
    BY <1>4, <1>9, <2>1, Zenon DEF RetryCommit
  <2>3. a = acct[p]
    BY <1>0, <1>6, <2>2 DEF DropRow, Removed, Present, SyncType
  <2> QED
    BY <1>0, <2>2, <2>3 DEF Knows
<1>10. CASE EnableCommit(p)
  <2>1. a = acct[p] /\ ban[a].rev = expected[p]
    BY <1>0, <1>10, EnableRemoves
  <2>2. op[p] = "expire"
    BY <1>6, <1>10 DEF EnableCommit, Enables
  <2> QED
    BY <1>0, <2>1, <2>2 DEF Knows, Removed
<1>11. ~Recommit(p)
  BY <1>7, <1>8, Zenon DEF Recommit
<1>12. ASSUME NEW code \in Codes, DisableSet(p, code) PROVE FALSE
  <2>1. Window \in Nat /\ TRUE \in BOOLEAN
    BY ConstantsAssumption
  <2>2. Set(acct[p], NewRow(code, Window, TRUE))
    BY <1>12 DEF DisableSet
  <2>3. ban'[acct[p]].rev = rev + 1 /\ \A b \in Accounts \ {acct[p]} : ban'[b] = ban[b]
    BY <1>0, <1>6, <2>1, <2>2, SetKeeps
  <2>4. rev + 1 # 0
    BY <1>0 DEF SyncType
  <2>5. ban[a].rev # 0 /\ ban'[a].rev = 0
    BY DEF Removed, Present
  <2> QED
    BY <2>3, <2>4, <2>5
<1>13. ~RetryUnlock(p)
  BY <1>4 DEF RetryUnlock, poolVars
<1> QED
  BY <1>5, <1>6, <1>9, <1>10, <1>11, <1>12, <1>13
     DEF Commit, DisposeCommit, DisableCommit, DeleteCommit

-----------------------------------------------------------------------------
(* The invariant holds in every state of every behaviour. *)
THEOREM SyncInvariant == Spec => []SyncInv
BY SyncInvInit, SyncInvStep, PTL DEF Spec

(* However rows are merged, and by whom, a window belongs to a 429 and a   *)
(* manual ban to anything else (banStore.Set, ban_store.go).               *)
THEOREM ReasonsMatch == Spec => []WindowMatchesReason
<1>1. SyncInv => WindowMatchesReason
  BY DEF SyncInv, RowsInv, RowOK, WindowMatchesReason, Present
<1> QED
  BY <1>1, SyncInvariant, PTL

(* A ban recorded after an enable took effect in CPA is not lost with the  *)
(* older one, whoever enables and however many do (DeleteIfOrCurrent).     *)
THEOREM FreshBansSurvive == Spec => FreshBanSurvives
<1>1. SyncInv /\ [Next]_vars =>
        [\A p \in Threads :
           Commits(p) /\ op[p] \in Enables =>
             \A a \in Accounts : Removed(a) => ban[a].rev <= callRev[p]]_vars
  BY FreshStep
<1> QED
  BY <1>1, SyncInvariant, PTL DEF Spec, FreshBanSurvives

(* The restore loop removes a manual ban only of an account that CPA no    *)
(* longer has (restoreExpiredBans, retryFailedDisables).                   *)
THEOREM ManualBansStay == Spec => ManualBanStays
<1>1. SyncInv /\ [Next]_vars =>
        [\A a \in Accounts :
           Removed(a) /\ ban[a].source = "manual_unban"
           /\ (pc'[Restore] # pc[Restore]) => cpa[a] = "gone"]_vars
  BY RestoreStep
<1> QED
  BY <1>1, SyncInvariant, PTL DEF Spec, ManualBanStays

-----------------------------------------------------------------------------
(* Pool and CPA.  A goroutine is in a critical section from Lock to Release *)
(* or RetryUnlock; the first call of a bulk delete is made outside it.     *)
Critical(p) ==
  \/ pc[p] \in {"commit", "recall", "recommit", "set"}
  \/ pc[p] = "call" /\ op[p] # "bulkDelete"

LockInv ==
  /\ lock \in [Accounts -> Threads \union {Free}]
  /\ \A p \in Threads : Critical(p) => lock[acct[p]] = p
  /\ \A a \in Accounts, p \in Threads : lock[a] = p => acct[p] = a /\ Critical(p)

(* Where a goroutine is in its work tells what it does. *)
Phase(p) ==
  /\ pc[p] \in Rest => op[p] = "none"
  /\ pc[p] \in {"lock", "call"} => op[p] \in Works
  /\ pc[p] = "set" => op[p] = "disable" /\ reply[p] = "ok"
  /\ pc[p] = "unlocked" => op[p] = "retry"
  /\ pc[p] \in {"recall", "recommit"} => op[p] \in Enables
  /\ pc[p] = "commit" \/ (pc[p] = "lock" /\ op[p] = "bulkDelete") => reply[p] # "none"
  /\ pc[p] \in {"lock", "call"} /\ op[p] = "retry" => expected[p] # 0

RetryList ==
  pc[Restore] = "retry" \/ op[Restore] = "retry" => \A t \in todo : t.rev # 0

(* What it may rely on while it has the account: the row is there or the   *)
(* account is lost, and CPA has what it was asked for.                     *)
HasRow(a) == Present(a) \/ cpa[a] = "gone"

Relies(p) ==
  LET a == acct[p] IN
  /\ pc[p] \in {"recall", "recommit"} => HasRow(a)
  /\ pc[p] \in {"call", "commit"} /\ op[p] = "dispose" => HasRow(a)
  /\ pc[p] = "recommit" /\ reply[p] = "ok" => cpa[a] # "enabled"
  /\ pc[p] \in {"commit", "set"} /\ op[p] \in {"dispose", "disable"} /\ reply[p] = "ok"
       => cpa[a] # "enabled"
  /\ pc[p] = "commit" /\ op[p] \in Enables /\ reply[p] = "ok" => cpa[a] # "disabled"
  /\ op[p] \in Deletes /\ reply[p] = "ok" => cpa[a] = "gone"

(* The two halves of PoolAgrees, and the holders of the account that have  *)
(* to restore them: one has enabled an account whose row it must remove or *)
(* disable again, one has disabled an account that it must write a row of. *)
ToRemove(p) ==
  \/ pc[p] \in {"recall", "recommit"}
  \/ pc[p] = "commit" /\ op[p] \in Enables \ {"unbanAbsent"} /\ reply[p] = "ok"

ToWrite(p) == pc[p] = "set" \/ (pc[p] = "commit" /\ op[p] = "disable" /\ reply[p] = "ok")

SyncedHalf(a) == Present(a) /\ ban[a].synced => cpa[a] # "enabled"
RowHalf(a) == cpa[a] = "disabled" => Present(a)

Agrees(a) ==
  a \notin strayed =>
    /\ SyncedHalf(a) \/ \E p \in Threads : lock[a] = p /\ ToRemove(p)
    /\ RowHalf(a) \/ \E p \in Threads : lock[a] = p /\ ToWrite(p)

(* The invariant that makes PoolAgrees inductive. *)
AgreeInv ==
  /\ SyncInv /\ LockInv /\ RetryList /\ strayed \subseteq Accounts
  /\ \A p \in Threads : Phase(p) /\ Relies(p)
  /\ \A a \in Accounts : Agrees(a)

-----------------------------------------------------------------------------
(* What marking, writing and dropping a row do to its mark. *)
LEMMA MarkMarks ==
  ASSUME SyncType, NEW a \in Accounts, NEW s \in BOOLEAN, MarkSynced(a, s)
  PROVE  /\ \A b \in Accounts \ {a} : ban'[b] = ban[b]
         /\ \A b \in Accounts : ban'[b].rev = ban[b].rev
         /\ Present(a) => (ban'[a].synced <=> s)
<1>1. ban' = [ban EXCEPT ![a].synced = IF Present(a) THEN s ELSE ban[a].synced]
  BY DEF MarkSynced
<1>2. CASE Present(a)
  <2>1. ban[a] \in Row
    BY <1>2 DEF Present, SyncType, NoRow
  <2>2. ban' = [ban EXCEPT ![a] = [ban[a] EXCEPT !.synced = s]]
    BY <1>1, <1>2
  <2>3. ban'[a] = [ban[a] EXCEPT !.synced = s] /\ \A b \in Accounts \ {a} : ban'[b] = ban[b]
    BY <2>2 DEF SyncType
  <2>4. ban'[a].synced = s /\ ban'[a].rev = ban[a].rev
    BY <2>1, <2>3 DEF Row
  <2>5. ban'[a].synced <=> s
    BY <2>4, Zenon
  <2> QED
    BY <2>3, <2>4, <2>5
<1>3. CASE ~Present(a)
  <2>1. ban[a] = NoRow
    BY <1>3 DEF Present, SyncType, Row
  <2>2. ban' = ban
    BY <1>1, <1>3, <2>1 DEF SyncType, NoRow
  <2> QED
    BY <1>3, <2>2
<1> QED
  BY <1>2, <1>3

(* A row that is written is told of or not as the writer says. *)
LEMMA SetMarks ==
  ASSUME SyncType, RowsInv, NEW a \in Accounts, NEW code \in Codes, NEW w \in Nat,
         NEW s \in BOOLEAN, Set(a, NewRow(code, w, s))
  PROVE  /\ \A b \in Accounts \ {a} : ban'[b] = ban[b]
         /\ ban'[a].rev # 0
         /\ ban'[a].synced <=> s
<1>1. ban'[a].rev = rev + 1 /\ \A b \in Accounts \ {a} : ban'[b] = ban[b]
  BY SetKeeps
<1>2. rev + 1 # 0
  BY DEF SyncType
<1> DEFINE new == NewRow(code, w, s)
           old == ban[a]
<1>3. new.synced = s /\ DOMAIN new = {"code", "source", "resetAt", "rev", "synced"}
  BY DEF NewRow
<1>4. Merged(old, new).synced = new.synced
  <2>1. CASE KeepsWindow(old, new)
    <3>1. Merged(old, new) = [new EXCEPT !.resetAt = old.resetAt, !.source = old.source,
                                         !.code = old.code]
      BY <2>1 DEF Merged
    <3> QED
      BY <1>3, <3>1 DEF NewRow
  <2>2. CASE ~KeepsWindow(old, new)
    BY <2>2 DEF Merged
  <2> QED
    BY <2>1, <2>2
<1>5. ban'[a] = Merged(old, new)
  BY DEF Set, SyncType
<1>6. ban'[a].synced = s
  BY <1>3, <1>4, <1>5
<1>7. ban'[a].synced <=> s
  BY <1>6, Zenon
<1> QED
  BY <1>1, <1>2, <1>7

-----------------------------------------------------------------------------
(* What a step of q can do to the accounts that it has not locked. *)
Synced(b) == Present(b) /\ ban[b].synced

StepOn(q) ==
  /\ \A b \in Accounts :
       /\ Present(b) /\ lock[b] # q => Present(b)' \/ cpa[b] = "gone"
       /\ lock[b] # q => cpa'[b] = cpa[b] \/ cpa'[b] = "gone"
       /\ Synced(b)' => \/ Synced(b) \/ cpa[b] # "enabled"
                        \/ b \in strayed' \/ lock[b] = q
       /\ \/ lock'[b] = lock[b]
          \/ lock[b] = Free /\ lock'[b] = q
          \/ lock[b] = q /\ lock'[b] = Free
  /\ strayed \subseteq strayed' /\ strayed' \subseteq Accounts

(* A step that touches no account. *)
LEMMA NoTouch ==
  ASSUME strayed \subseteq Accounts, NEW q \in Threads, UNCHANGED <<ban, cpa, strayed, lock>>
  PROVE  StepOn(q)
BY DEF StepOn, Synced, Present

(* A step of the holder, about the account it holds. *)
Local(q) ==
  /\ lock[acct[q]] = q
  /\ \A b \in Accounts \ {acct[q]} : ban'[b] = ban[b] /\ cpa'[b] = cpa[b] /\ lock'[b] = lock[b]
  /\ lock'[acct[q]] \in {q, Free}
  /\ strayed \subseteq strayed' /\ strayed' \subseteq Accounts

(* It touches no other account. *)
LEMMA LocalTouch == ASSUME NEW q \in Threads, Local(q) PROVE StepOn(q)
BY DEF Local, StepOn, Synced, Present

(* Commits under the lock are about the account that is held. *)
LEMMA CommitLocal ==
  ASSUME AgreeInv, NEW q \in Threads, Commit(q), ~RetryCommit(q)
  PROVE  Local(q)
<1> USE DEF poolVars, cpaVars
<1>0. SyncType /\ acct[q] \in Accounts /\ lock \in [Accounts -> Threads \union {Free}]
      /\ strayed \subseteq Accounts
  BY DEF AgreeInv, SyncInv, SyncType, LockInv
<1>1. Critical(q) /\ UNCHANGED <<cpa, strayed>>
  BY DEF Commit, DisposeCommit, RetryUnlock, EnableCommit, Recommit, DisableCommit,
         DisableSet, DeleteCommit, Critical
<1>2. lock[acct[q]] = q
  BY <1>1 DEF AgreeInv, LockInv
<1>3. Unlock(q) \/ UNCHANGED lock
  BY DEF Commit, DisposeCommit, RetryUnlock, EnableCommit, Recommit, DisableCommit,
         DisableSet, DeleteCommit, Release
<1>4. /\ \A b \in Accounts \ {acct[q]} : lock'[b] = lock[b]
      /\ lock'[acct[q]] \in {q, Free}
  BY <1>0, <1>2, <1>3 DEF Unlock
<1>5. \A b \in Accounts \ {acct[q]} : ban'[b] = ban[b]
  <2>1. (reply[q] = "ok") \in BOOLEAN
    OBVIOUS
  <2>2. \A s \in BOOLEAN : MarkSynced(acct[q], s) =>
          \A b \in Accounts \ {acct[q]} : ban'[b] = ban[b]
    BY <1>0, MarkMarks
  <2>3. DropRow(acct[q]) => \A b \in Accounts \ {acct[q]} : ban'[b] = ban[b]
    BY <1>0 DEF DropRow, SyncType
  <2>4. ban' = ban => \A b \in Accounts \ {acct[q]} : ban'[b] = ban[b]
    OBVIOUS
  <2>5. DisposeCommit(q) \/ Recommit(q) =>
          MarkSynced(acct[q], reply[q] = "ok") \/ ban' = ban
    BY DEF DisposeCommit, Recommit
  <2>6. RetryUnlock(q) \/ EnableCommit(q) \/ DisableCommit(q) \/ DeleteCommit(q) =>
          DropRow(acct[q]) \/ ban' = ban
    BY DEF RetryUnlock, EnableCommit, DisableCommit, DeleteCommit
  <2>7. \A code \in Codes : DisableSet(q, code) =>
          \A b \in Accounts \ {acct[q]} : ban'[b] = ban[b]
    BY <1>0 DEF DisableSet, Set, SyncType
  <2>8. MarkSynced(acct[q], reply[q] = "ok") =>
          \A b \in Accounts \ {acct[q]} : ban'[b] = ban[b]
    BY <2>1, <2>2, Zenon
  <2> QED
    BY <2>3, <2>4, <2>5, <2>6, <2>7, <2>8 DEF Commit
<1> QED
  BY <1>0, <1>1, <1>2, <1>4, <1>5 DEF Local

(* A call is about one account; one made without the lock deletes it. *)
LEMMA CallTouch ==
  ASSUME AgreeInv, NEW q \in Threads, Called(q)
  PROVE  StepOn(q)
<1> DEFINE a == acct[q]
<1>0. SyncType /\ a \in Accounts /\ lock \in [Accounts -> Threads \union {Free}]
      /\ strayed \subseteq Accounts
  BY DEF AgreeInv, SyncInv, SyncType, LockInv
<1>1. PICK eff \in BOOLEAN, ans \in {"ok", "fail", "gone"} : Call(q, eff, ans)
  BY DEF Called, CallAnswered, CallFailed
<1>2. /\ pc[q] \in {"call", "recall"} /\ UNCHANGED <<ban, lock>>
      /\ strayed' = strayed \/ strayed' = strayed \union {a}
      /\ cpa' = [cpa EXCEPT ![a] = IF eff THEN Wanted(q) ELSE cpa[a]]
  BY <1>1 DEF Call, poolVars
<1>3. \A b \in Accounts \ {a} : cpa'[b] = cpa[b]
  BY <1>0, <1>2 DEF SyncType
<1>4. CASE Critical(q)
  <2>1. lock[a] = q
    BY <1>4 DEF AgreeInv, LockInv
  <2> QED
    BY <1>0, <1>2, <1>3, <2>1, LocalTouch DEF Local
<1>5. CASE ~Critical(q)
  <2>1. pc[q] = "call" /\ op[q] = "bulkDelete"
    BY <1>2, <1>5 DEF Critical
  <2>2. Wanted(q) = "gone"
    BY <2>1 DEF Wanted
  <2>3. cpa'[a] = cpa[a] \/ cpa'[a] = "gone"
    BY <1>0, <1>2, <2>2 DEF SyncType
  <2> QED
    BY <1>0, <1>2, <1>3, <2>3 DEF StepOn, Synced, Present
<1> QED
  BY <1>4, <1>5

(* The commit of a retry, without the lock: what it marks as told although *)
(* the account is enabled has strayed; what it drops is of a lost account. *)
LEMMA RetryTouch ==
  ASSUME AgreeInv, NEW q \in Threads, RetryCommit(q)
  PROVE  StepOn(q)
<1> DEFINE a == acct[q]
<1>0. SyncType /\ a \in Accounts /\ strayed \subseteq Accounts /\ Knows(q)
  BY DEF AgreeInv, SyncInv, SyncType
<1>1. /\ UNCHANGED <<cpa, lock>>
      /\ strayed' = IF reply[q] = "ok" /\ Present(a) /\ cpa[a] = "enabled"
                      THEN strayed \union {a} ELSE strayed
  BY DEF RetryCommit
<1>2. strayed \subseteq strayed' /\ strayed' \subseteq Accounts
  BY <1>0, <1>1
<1>3. CASE reply[q] # "gone"
  <2>1. (reply[q] = "ok") \in BOOLEAN /\ MarkSynced(a, reply[q] = "ok")
    BY <1>3 DEF RetryCommit
  <2>2. /\ \A b \in Accounts \ {a} : ban'[b] = ban[b]
        /\ \A b \in Accounts : ban'[b].rev = ban[b].rev
        /\ Present(a) => (ban'[a].synced <=> (reply[q] = "ok"))
    BY <1>0, <2>1, MarkMarks, Zenon
  <2>3. \A b \in Accounts : Present(b)' <=> Present(b)
    BY <2>2 DEF Present
  <2>4. \A b \in Accounts : b = a /\ Synced(b)' => Present(b) /\ reply[q] = "ok"
    BY <2>2, <2>3, <1>0, Zenon DEF Synced
  <2>5. \A b \in Accounts : b = a /\ Synced(b)' => cpa[b] # "enabled" \/ b \in strayed'
    BY <1>1, <2>4
  <2>6. \A b \in Accounts \ {a} : Synced(b)' => Synced(b)
    BY <2>2, <2>3, Zenon DEF Synced
  <2> QED
    BY <1>1, <1>2, <2>3, <2>5, <2>6 DEF StepOn
<1>4. CASE reply[q] = "gone"
  <2>1. cpa[a] = "gone"
    BY <1>0, <1>4 DEF Knows
  <2>2. DropRow(a) \/ UNCHANGED ban
    BY <1>4 DEF RetryCommit
  <2>3. \A b \in Accounts \ {a} : ban'[b] = ban[b]
    BY <1>0, <2>2 DEF DropRow, SyncType
  <2> QED
    BY <1>1, <1>2, <2>1, <2>3 DEF StepOn, Synced, Present
<1> QED
  BY <1>3, <1>4

(* usage.handle writes and marks rows that CPA has not been told of. *)
LEMMA UsageTouch ==
  ASSUME AgreeInv
  PROVE  /\ \A a \in Accounts, code \in Codes, w \in 1 .. Window :
              UsageRecord(a, code, w) => StepOn(Usage)
         /\ UsageRefused => StepOn(Usage)
<1>0. SyncType /\ RowsInv /\ Usage \in Threads /\ strayed \subseteq Accounts /\ acct[Usage] \in Accounts
  BY DEF AgreeInv, SyncInv, SyncType, Threads
<1>1. ASSUME NEW a \in Accounts, NEW code \in Codes, NEW w \in 1 .. Window,
             UsageRecord(a, code, w)
      PROVE  StepOn(Usage)
  <2>0. w \in Nat
    BY ConstantsAssumption
  <2>1. w \in Nat /\ FALSE \in BOOLEAN /\ Set(a, NewRow(code, w, FALSE))
    BY <1>1, <2>0, Zenon DEF UsageRecord
  <2>2. /\ \A b \in Accounts \ {a} : ban'[b] = ban[b]
        /\ ban'[a].rev # 0
        /\ ban'[a].synced <=> FALSE
    BY <1>0, <2>1, SetMarks, Zenon
  <2>3. UNCHANGED <<cpa, strayed, lock>>
    BY <1>1 DEF UsageRecord, cpaVars
  <2>4. \A b \in Accounts : Present(b) => Present(b)'
    BY <2>2 DEF Present
  <2>5. \A b \in Accounts : Synced(b)' => Synced(b)
    BY <2>2, Zenon DEF Synced, Present
  <2> QED
    BY <1>0, <2>3, <2>4, <2>5 DEF StepOn
<1>2. ASSUME UsageRefused PROVE StepOn(Usage)
  <2>1. UNCHANGED <<cpa, strayed, lock>>
    BY <1>2 DEF UsageRefused, cpaVars
  <2>2. CASE MarkSynced(acct[Usage], FALSE)
    <3>1. FALSE \in BOOLEAN
      OBVIOUS
    <3>2. /\ \A b \in Accounts \ {acct[Usage]} : ban'[b] = ban[b]
          /\ \A b \in Accounts : ban'[b].rev = ban[b].rev
          /\ Present(acct[Usage]) => (ban'[acct[Usage]].synced <=> FALSE)
      BY <1>0, <2>2, <3>1, MarkMarks, Zenon
    <3>3. \A b \in Accounts : Present(b)' <=> Present(b)
      BY <3>2 DEF Present
    <3>4. \A b \in Accounts : Synced(b)' => Synced(b)
      BY <3>2, <3>3, Zenon DEF Synced
    <3> QED
      BY <1>0, <2>1, <3>3, <3>4 DEF StepOn
  <2>3. CASE UNCHANGED ban
    BY <1>0, <2>1, <2>3, NoTouch
  <2> QED
    BY <1>2, <2>2, <2>3 DEF UsageRefused
<1> QED
  BY <1>1, <1>2

(* Every step of q respects the accounts it has not locked. *)
LEMMA Touches ==
  ASSUME AgreeInv, NEW q \in Threads, Acts(q)
  PROVE  StepOn(q)
<1> USE DEF poolVars, cpaVars
<1>0. strayed \subseteq Accounts /\ lock \in [Accounts -> Threads \union {Free}]
      /\ acct[q] \in Accounts
  BY DEF AgreeInv, LockInv, SyncInv, SyncType
<1>1. CASE Commit(q)
  BY <1>1, CommitLocal, LocalTouch, RetryTouch
<1>2. CASE Called(q)
  BY <1>2, CallTouch
<1>3. CASE Lock(q)
  <2>1. UNCHANGED <<ban, cpa, strayed>>
    BY <1>3 DEF Lock
  <2>2. lock' = lock \/ (lock[acct[q]] = Free /\ lock' = [lock EXCEPT ![acct[q]] = q])
    BY <1>3 DEF Lock
  <2> QED
    BY <1>0, <2>1, <2>2 DEF StepOn, Synced, Present
<1>4. CASE q = Usage /\ \/ \E a \in Accounts, code \in Codes, w \in 1 .. Window :
                             UsageRecord(a, code, w)
                        \/ UsageRefused
  BY <1>4, UsageTouch
<1>5. CASE GiveUp(q) \/ UsageGet \/ UsageEnqueue \/ DisposeTake(q)
  BY <1>0, <1>5, NoTouch DEF GiveUp, UsageGet, UsageEnqueue, DisposeTake
<1>6. CASE RestorePass \/ ExpireScan \/ ExpireDone
           \/ \E t \in todo : RetryNext(t) \/ ExpireNext(t)
  BY <1>0, <1>6, NoTouch DEF RestorePass, ExpireScan, ExpireDone, RetryNext, ExpireNext
<1>7. ASSUME NEW k \in AllKinds, NEW a \in Accounts, OperatorStart(q, k, a)
      PROVE  StepOn(q)
  BY <1>0, <1>7, NoTouch DEF OperatorStart
<1> QED
  BY <1>1, <1>2, <1>3, <1>4, <1>5, <1>6, <1>7 DEF Acts, Called

-----------------------------------------------------------------------------
(* Locks: how the steps of q take, keep and release them. *)
OwnLock(q) ==
  /\ Critical(q)' => lock'[acct'[q]] = q
  /\ \A a \in Accounts : lock'[a] = q => acct'[q] = a /\ Critical(q)'

(* Outside a critical section before and after. *)
LEMMA QuietLock ==
  ASSUME LockInv, NEW q \in Threads, ~Critical(q), ~Critical(q)', UNCHANGED lock
  PROVE  OwnLock(q)
BY DEF LockInv, OwnLock

(* Still inside, with the same account. *)
LEMMA HoldsLock ==
  ASSUME LockInv, NEW q \in Threads, Critical(q), Critical(q)', UNCHANGED lock,
         acct'[q] = acct[q]
  PROVE  OwnLock(q)
BY DEF LockInv, OwnLock

(* It leaves. *)
LEMMA LeavesLock ==
  ASSUME LockInv, SyncType, NEW q \in Threads, Critical(q), ~Critical(q)', Unlock(q)
  PROVE  OwnLock(q)
<1>1. q # Free
  BY ThreadsAssumption DEF Threads, Usage, Restore, Free
<1> QED
  BY <1>1 DEF LockInv, OwnLock, Unlock, SyncType

(* A commit releases the lock, or keeps it for what is to follow. *)
LEMMA CommitLock ==
  ASSUME LockInv, SyncType, NEW q \in Threads, Commit(q)
  PROVE  OwnLock(q)
<1>0. ThreadType
  BY DEF SyncType, ThreadType
<1>1. \A l \in Labels : Goto(q, l) => pc'[q] = l
  BY DEF Goto, SyncType
<1>2. Release(q) => Unlock(q) /\ pc'[q] \in Rest
  BY <1>1 DEF Release, Home, Rest, Labels
<1>3. Critical(q) /\ Release(q) => OwnLock(q)
  BY <1>2, LeavesLock DEF Critical, Rest
<1>4. CASE DisposeCommit(q) \/ Recommit(q) \/ DeleteCommit(q) \/ \E code \in Codes : DisableSet(q, code)
  BY <1>3, <1>4 DEF DisposeCommit, Recommit, DeleteCommit, DisableSet, Critical
<1>5. CASE RetryUnlock(q)
  <2>1. Critical(q) /\ pc'[q] = "unlocked" /\ Unlock(q)
    BY <1>1, <1>5 DEF RetryUnlock, Critical, Labels
  <2> QED
    BY <2>1, LeavesLock DEF Critical
<1>6. CASE RetryCommit(q)
  <2>1. ~Critical(q) /\ pc'[q] = "retry" /\ UNCHANGED lock
    BY <1>1, <1>6 DEF RetryCommit, Critical, Labels
  <2> QED
    BY <2>1, QuietLock DEF Critical
<1>7. CASE EnableCommit(q)
  <2>1. Release(q) \/ (UNCHANGED lock /\ pc'[q] = "recall" /\ acct'[q] = acct[q])
    BY <1>1, <1>7 DEF EnableCommit, Keep, threadVars, Labels
  <2> QED
    BY <1>3, <1>7, <2>1, HoldsLock DEF EnableCommit, Critical
<1>8. CASE DisableCommit(q)
  <2>1. Release(q) \/ (UNCHANGED lock /\ pc'[q] = "set" /\ acct'[q] = acct[q])
    BY <1>1, <1>8 DEF DisableCommit, Keep, threadVars, Labels
  <2> QED
    BY <1>3, <1>8, <2>1, HoldsLock DEF DisableCommit, Critical
<1> QED
  BY <1>4, <1>5, <1>6, <1>7, <1>8 DEF Commit

(* Every step of q keeps its label and its lock in agreement. *)
LEMMA ActsLock ==
  ASSUME AgreeInv, NEW q \in Threads, Acts(q)
  PROVE  OwnLock(q)
<1> USE DEF poolVars, cpaVars
<1>0. LockInv /\ SyncType /\ RowsInv /\ Knows(q) /\ ThreadType
  BY DEF AgreeInv, SyncInv, SyncType, ThreadType
<1>1. CASE Commit(q)
  BY <1>0, <1>1, CommitLock
<1>2. CASE Called(q)
  <2>1. PICK eff \in BOOLEAN, ans \in {"ok", "fail", "gone"} : Call(q, eff, ans)
    BY <1>2 DEF Called, CallAnswered, CallFailed
  <2>2. /\ pc[q] \in {"call", "recall"} /\ UNCHANGED lock
        /\ op'[q] = op[q] /\ acct'[q] = acct[q]
        /\ pc'[q] = CASE pc[q] = "recall" -> "recommit"
                      [] pc[q] = "call" /\ op[q] = "bulkDelete" -> "lock"
                      [] OTHER -> "commit"
    BY <1>0, <2>1 DEF Call, Goto, SyncType
  <2>3. CASE Critical(q)
    BY <1>0, <2>2, <2>3, HoldsLock DEF Critical
  <2>4. CASE ~Critical(q)
    BY <1>0, <2>2, <2>4, QuietLock DEF Critical
  <2> QED
    BY <2>3, <2>4
<1>3. CASE Lock(q)
  <2>1. pc[q] = "lock" /\ ~Critical(q)
    BY <1>3 DEF Lock, Critical
  <2>2. CASE NothingToDispose(q)
    <3>1. pc'[q] = "idle" /\ UNCHANGED lock
      BY <1>0, <1>3, <2>2 DEF Lock, Goto, ThreadType
    <3> QED
      BY <1>0, <2>1, <3>1, QuietLock DEF Critical
  <2>3. CASE ~NothingToDispose(q)
    <3>1. /\ pc'[q] = IF op[q] = "bulkDelete" THEN "commit" ELSE "call"
          /\ lock' = [lock EXCEPT ![acct[q]] = q] /\ op'[q] = op[q] /\ acct'[q] = acct[q]
      BY <1>0, <1>3, <2>3 DEF Lock, Goto, ThreadType
    <3> QED
      BY <1>0, <2>1, <3>1 DEF OwnLock, LockInv, Critical, ThreadType
  <2> QED
    BY <2>2, <2>3
<1>4. ASSUME pc[q] \in Rest, UNCHANGED lock,
             \/ pc'[q] \in {"get", "lock"} \/ pc'[q] = pc[q]
             \/ pc'[q] = "call" /\ op'[q] = "bulkDelete"
      PROVE  OwnLock(q)
  BY <1>0, <1>4, QuietLock DEF Critical, Rest
<1>5. ASSUME pc[q] \notin {"call", "commit", "recall", "recommit", "set"},
             pc'[q] \in Rest \union {"enqueue", "refused"}, UNCHANGED lock
      PROVE  OwnLock(q)
  BY <1>0, <1>5, QuietLock DEF Critical, Rest
<1>6. CASE GiveUp(q) \/ (q = Usage /\ (UsageGet \/ UsageEnqueue \/ UsageRefused))
  BY <1>0, <1>5, <1>6 DEF GiveUp, UsageGet, UsageEnqueue, UsageRefused, Goto, Rest, ThreadType
<1>7. CASE q = Restore /\ (RestorePass \/ ExpireScan \/ ExpireDone)
  BY <1>0, <1>5, <1>7 DEF RestorePass, ExpireScan, ExpireDone, Goto, Rest, ThreadType
<1>8. CASE q = Usage /\ \E a \in Accounts, code \in Codes, w \in 1 .. Window :
                            UsageRecord(a, code, w)
  BY <1>0, <1>4, <1>8 DEF UsageRecord, Goto, Rest, ThreadType
<1>9. CASE q \in Workers /\ DisposeTake(q)
  BY <1>0, <1>4, <1>9 DEF DisposeTake, Goto, Rest, ThreadType
<1>10. CASE q = Restore /\ \E t \in todo : RetryNext(t) \/ ExpireNext(t)
  BY <1>0, <1>4, <1>10 DEF RetryNext, ExpireNext, Goto, Rest, ThreadType
<1>11. CASE q \in Operators /\ \E k \in AllKinds, a \in Accounts : OperatorStart(q, k, a)
  BY <1>0, <1>4, <1>11 DEF OperatorStart, Goto, Bind, Rest, ThreadType
<1> QED
  BY <1>1, <1>2, <1>3, <1>6, <1>7, <1>8, <1>9, <1>10, <1>11 DEF Acts, Called

(* A lock that another goroutine holds stays with it. *)
LEMMA OtherLock ==
  ASSUME AgreeInv, NEW q \in Threads, StepOn(q), NEW p \in Threads, p # q, Frame(p)
  PROVE  OwnLock(p)
<1>1. \A a \in Accounts : lock[a] = p <=> lock'[a] = p
  BY ThreadsAssumption DEF StepOn, Threads, Usage, Restore, Free
<1>2. Critical(p)' <=> Critical(p)
  BY DEF Critical, Frame
<1> QED
  BY <1>1, <1>2 DEF OwnLock, AgreeInv, LockInv, Frame, SyncInv, SyncType

-----------------------------------------------------------------------------
(* Phases, in the steps of q and of the others. *)
LEMMA OtherPhase ==
  ASSUME NEW p \in Threads, Frame(p), Phase(p)
  PROVE  Phase(p)'
BY DEF Frame, Phase

(* After a commit. *)
LEMMA CommitPhase ==
  ASSUME SyncType, NEW q \in Threads, Commit(q), Phase(q)
  PROVE  Phase(q)'
<1>0. ThreadType
  BY DEF SyncType, ThreadType
<1>1. Forget(q) /\ pc'[q] \in Rest => Phase(q)'
  BY <1>0, Blocks DEF Phase, Rest
<1>2. Release(q) => Phase(q)'
  BY <1>0, <1>1 DEF Release, Goto, Home, Rest, ThreadType
<1>3. CASE DisposeCommit(q) \/ Recommit(q) \/ DeleteCommit(q) \/ \E code \in Codes : DisableSet(q, code)
  BY <1>2, <1>3 DEF DisposeCommit, Recommit, DeleteCommit, DisableSet
<1>4. CASE RetryUnlock(q)
  BY <1>0, <1>4 DEF RetryUnlock, Goto, Keep, threadVars, Phase, Rest, ThreadType
<1>5. CASE RetryCommit(q)
  BY <1>0, <1>1, <1>5 DEF RetryCommit, Goto, Rest, ThreadType
<1>6. CASE EnableCommit(q)
  <2>1. Release(q) \/ (/\ pc'[q] = "recall" /\ op'[q] = op[q] /\ reply'[q] = reply[q]
                        /\ op[q] \in Enables)
    BY <1>0, <1>6 DEF EnableCommit, Goto, Keep, threadVars, ThreadType
  <2> QED
    BY <1>2, <2>1 DEF Phase, Rest
<1>7. CASE DisableCommit(q)
  <2>1. \/ Release(q)
        \/ /\ pc'[q] = "set" /\ op'[q] = op[q] /\ reply'[q] = reply[q]
           /\ op[q] = "disable" /\ reply[q] = "ok"
    BY <1>0, <1>7 DEF DisableCommit, Goto, Keep, threadVars, ThreadType
  <2> QED
    BY <1>2, <2>1 DEF Phase, Rest
<1> QED
  BY <1>3, <1>4, <1>5, <1>6, <1>7 DEF Commit

(* After any step of q. *)
LEMMA ActsPhase ==
  ASSUME AgreeInv, NEW q \in Threads, Acts(q)
  PROVE  Phase(q)'
<1>0. SyncType /\ RowsInv /\ ThreadType /\ Phase(q) /\ Knows(q)
  BY DEF AgreeInv, SyncInv, SyncType, ThreadType
<1>1. CASE Commit(q)
  BY <1>0, <1>1, CommitPhase
<1>2. CASE Called(q)
  <2>1. PICK eff \in BOOLEAN, ans \in {"ok", "fail", "gone"} : Call(q, eff, ans)
    BY <1>2 DEF Called, CallAnswered, CallFailed
  <2>2. /\ op'[q] = op[q] /\ reply'[q] = ans
        /\ pc'[q] = CASE pc[q] = "recall" -> "recommit"
                      [] pc[q] = "call" /\ op[q] = "bulkDelete" -> "lock"
                      [] OTHER -> "commit"
    BY <1>0, <2>1 DEF Call, Goto, ThreadType
  <2> QED
    BY <1>0, <2>2 DEF Phase, Rest, Works, Deletes
<1>3. CASE Lock(q)
  <2>1. CASE NothingToDispose(q)
    <3>1. Forget(q) /\ pc'[q] = "idle"
      BY <1>0, <1>3, <2>1 DEF Lock, Goto, ThreadType
    <3> QED
      BY <1>0, <3>1, Blocks DEF Phase, Rest
  <2>2. CASE ~NothingToDispose(q)
    <3>1. /\ pc[q] = "lock" /\ pc'[q] = IF op[q] = "bulkDelete" THEN "commit" ELSE "call"
          /\ op'[q] = op[q] /\ reply'[q] = reply[q]
          /\ op[q] = "retry" => expected'[q] = expected[q]
      BY <1>0, <1>3, <2>2 DEF Lock, Goto, ThreadType
    <3> QED
      BY <1>0, <3>1 DEF Phase, Rest
  <2> QED
    BY <2>1, <2>2
<1>4. ASSUME Forget(q), pc'[q] \in Rest PROVE Phase(q)'
  BY <1>0, <1>4, Blocks DEF Phase, Rest
<1>5. ASSUME NEW k \in Works, NEW a \in Accounts, NEW e \in Nat, Bind(q, k, a, e),
             pc'[q] = IF k = "bulkDelete" THEN "call" ELSE "lock", k = "retry" => e # 0
      PROVE  Phase(q)'
  <2>1. op'[q] = k /\ expected'[q] = e
    BY <1>0, <1>5 DEF Bind, ThreadType
  <2> QED
    BY <1>5, <2>1 DEF Phase, Rest
<1>6. ASSUME Keep(q), pc[q] \in Rest \/ pc'[q] = "refused", pc'[q] \in Rest \union {"refused"}
      PROVE  Phase(q)'
  BY <1>0, <1>6 DEF Keep, threadVars, Phase, Rest
<1>7. CASE GiveUp(q) \/ (q = Usage /\ UsageRefused) \/ (q = Restore /\ ExpireDone)
  BY <1>0, <1>4, <1>7 DEF GiveUp, UsageRefused, ExpireDone, Goto, Rest, ThreadType
<1>8. CASE q = Usage /\ UsageEnqueue
  BY <1>0, <1>4, <1>6, <1>8 DEF UsageEnqueue, Goto, Rest, ThreadType
<1>9. CASE q = Usage /\ UsageGet
  BY <1>0, <1>9 DEF UsageGet, Goto, Phase, Rest, ThreadType
<1>10. CASE q = Usage /\ \E a \in Accounts, code \in Codes, w \in 1 .. Window :
                             UsageRecord(a, code, w)
  BY <1>0, <1>10 DEF UsageRecord, Goto, Phase, Rest, ThreadType
<1>11. CASE q \in Workers /\ DisposeTake(q)
  <2>1. order # << >> /\ Head(order) \in Accounts /\ pending[Head(order)] \in Nat
    BY <1>0, <1>11 DEF DisposeTake, SyncType
  <2>2. Bind(q, "dispose", Head(order), pending[Head(order)]) /\ pc'[q] = "lock"
    BY <1>0, <1>11 DEF DisposeTake, Goto, ThreadType
  <2>3. "dispose" \in Works
    BY DEF Works
  <2> QED
    BY <1>5, <2>1, <2>2, <2>3
<1>12. CASE q = Restore /\ (RestorePass \/ ExpireScan)
  BY <1>0, <1>6, <1>12 DEF RestorePass, ExpireScan, Goto, Rest, ThreadType
<1>13. ASSUME q = Restore, NEW t \in todo, RetryNext(t)
       PROVE  Phase(q)'
  <2>1. t.acct \in Accounts /\ t.rev \in Nat /\ t.rev # 0
    BY <1>0, <1>13 DEF SyncType, AgreeInv, RetryList, RetryNext
  <2>2. Bind(q, "retry", t.acct, t.rev) /\ pc'[q] = "lock"
    BY <1>0, <1>13 DEF RetryNext, Goto, ThreadType
  <2>3. "retry" \in Works
    BY DEF Works
  <2> QED
    BY <1>5, <2>1, <2>2, <2>3
<1>14. ASSUME q = Restore, NEW t \in todo, ExpireNext(t)
       PROVE  Phase(q)'
  <2>1. t.acct \in Accounts /\ ban[t.acct].rev \in Nat
    BY <1>0 DEF SyncType, Row, NoRow
  <2>2. \/ Bind(q, "expire", t.acct, ban[t.acct].rev) /\ pc'[q] = "lock"
        \/ Keep(q) /\ pc[q] \in Rest /\ pc'[q] \in Rest
    BY <1>0, <1>14 DEF ExpireNext, Goto, ThreadType, Rest
  <2>3. "expire" \in Works
    BY DEF Works, Enables
  <2> QED
    BY <1>5, <1>6, <2>1, <2>2, <2>3
<1>15. ASSUME NEW k \in AllKinds, NEW a \in Accounts, OperatorStart(q, k, a)
       PROVE  Phase(q)'
  <2> DEFINE e == IF k = "unban" THEN ban[a].rev ELSE 0
  <2>1. e \in Nat
    BY <1>0 DEF SyncType, Row, NoRow
  <2>2. k \in Works /\ k # "retry"
    BY <1>15 DEF OperatorStart, Works, Deletes, Enables
  <2>3. Bind(q, k, a, e) /\ pc'[q] = IF k = "bulkDelete" THEN "call" ELSE "lock"
    BY <1>0, <1>15 DEF OperatorStart, Goto, ThreadType
  <2> HIDE DEF e
  <2> QED
    BY <1>5, <2>1, <2>2, <2>3
<1> QED
  BY <1>1, <1>2, <1>3, <1>7, <1>8, <1>9, <1>10, <1>11, <1>12, <1>13, <1>14, <1>15
     DEF Acts, Called

(* The list of retries: rows that were there when it was made. *)
LEMMA RetryListStep ==
  ASSUME AgreeInv, [Next]_vars
  PROVE  RetryList'
<1> USE DEF queueVars, restoreVars
<1>0. SyncType /\ RowsInv /\ ThreadType /\ Phase(Restore) /\ Restore \in Threads /\ Knows(Restore)
  BY DEF AgreeInv, SyncInv, SyncType, ThreadType, Threads
<1>1. ASSUME todo' \subseteq todo,
             pc'[Restore] = "retry" \/ op'[Restore] = "retry" =>
               pc[Restore] = "retry" \/ op[Restore] = "retry"
      PROVE  RetryList'
  BY <1>1 DEF AgreeInv, RetryList
<1>2. CASE RestorePass
  BY <1>2 DEF RestorePass, RetryList, Unsynced, Present
<1>3. CASE ExpireScan
  BY <1>0, <1>3 DEF ExpireScan, RetryList, Goto, Keep, threadVars, Phase, Rest, ThreadType
<1>4. ASSUME NEW t \in todo, RetryNext(t) \/ ExpireNext(t) PROVE RetryList'
  <2>1. todo' \subseteq todo
    BY <1>4 DEF RetryNext, ExpireNext
  <2>2. RetryNext(t) => pc[Restore] = "retry"
    BY DEF RetryNext
  <2>3. ExpireNext(t) => /\ op'[Restore] = "expire" \/ op'[Restore] = op[Restore]
                         /\ pc'[Restore] \in {"lock", "expire"}
    BY <1>0 DEF ExpireNext, Bind, Keep, threadVars, Goto, ThreadType
  <2> QED
    BY <1>1, <1>4, <2>1, <2>2, <2>3
<1>5. CASE ExpireDone
  BY <1>0, <1>1, <1>5 DEF ExpireDone, Goto, Forget, ThreadType
<1>6. ASSUME UNCHANGED todo, Frame(Restore) PROVE RetryList'
  BY <1>1, <1>6 DEF Frame
<1>7. CASE Commit(Restore)
  <2>1. UNCHANGED todo
    BY <1>7 DEF Commit, DisposeCommit, RetryUnlock, RetryCommit, EnableCommit, Recommit,
                DisableCommit, DisableSet, DeleteCommit
  <2>2. Release(Restore) => op'[Restore] = "none" /\ (pc'[Restore] = "retry" => op[Restore] = "retry")
    BY <1>0 DEF Release, Forget, Goto, Home, ThreadType
  <2>3. Keep(Restore) => op'[Restore] = op[Restore]
    BY DEF Keep, threadVars
  <2>4. \/ Release(Restore)
        \/ Keep(Restore) /\ pc'[Restore] \in {"unlocked", "recall", "set"}
        \/ RetryCommit(Restore)
    BY <1>0, <1>7 DEF Commit, DisposeCommit, RetryUnlock, EnableCommit, Recommit,
                DisableCommit, DisableSet, DeleteCommit, Goto, ThreadType
  <2>5. RetryCommit(Restore) => op[Restore] = "retry"
    BY <1>0 DEF RetryCommit, Phase
  <2> QED
    BY <1>1, <2>1, <2>2, <2>3, <2>4, <2>5
<1>8. CASE GiveUp(Restore) \/ Lock(Restore)
  BY <1>0, <1>1, <1>8 DEF GiveUp, Lock, Forget, Goto, ThreadType
<1>9. CASE Called(Restore)
  BY <1>0, <1>1, <1>9 DEF Called, CallAnswered, CallFailed, Call, Goto, ThreadType
<1>10. ASSUME NEW q \in Threads \ {Restore}, Acts(q) PROVE RetryList'
  <2>1. Frame(Restore)
    BY <1>0, <1>10, ActsMemory, MemoryStep DEF AgreeInv, SyncInv
  <2>2. UNCHANGED todo
    BY <1>10 DEF Acts, GiveUp, Lock, CallAnswered, CallFailed, Call, UsageRecord, UsageGet,
         UsageEnqueue, UsageRefused, DisposeTake, OperatorStart,
         Commit, DisposeCommit, RetryUnlock, RetryCommit, EnableCommit, Recommit,
         DisableCommit, DisableSet, DeleteCommit
  <2> QED
    BY <1>6, <2>1, <2>2
<1>11. CASE (\E a \in Accounts : AccountLost(a)) \/ Tick \/ UNCHANGED vars
  BY <1>6, <1>11 DEF AccountLost, Tick, vars, threadVars, Frame
<1>12. ASSUME Acts(Restore) PROVE RetryList'
  <2>1. Restore # Usage /\ Restore \notin Workers /\ Restore \notin Operators
    BY ThreadsAssumption DEF Restore, Usage
  <2> QED
    BY <1>2, <1>3, <1>4, <1>5, <1>7, <1>8, <1>9, <1>12, <2>1 DEF Acts, Called
<1> QED
  BY <1>10, <1>11, <1>12, Actor

-----------------------------------------------------------------------------
(* What a holder relies on is not touched by the others. *)
LEMMA OtherRelies ==
  ASSUME AgreeInv, NEW q \in Threads, StepOn(q), GoneStays,
         NEW p \in Threads, p # q, Frame(p)
  PROVE  Relies(p)'
<1> DEFINE a == acct[p]
<1>0. a \in Accounts /\ acct'[p] = a /\ Relies(p)
  BY DEF AgreeInv, SyncInv, SyncType, Frame
<1>1. op[p] \in Deletes /\ reply[p] = "ok" => cpa'[a] = "gone"
  BY <1>0 DEF Relies, GoneStays
<1>2. CASE Critical(p)
  <2>1. lock[a] # q
    BY <1>2 DEF AgreeInv, LockInv
  <2>2. /\ Present(a) => ban'[a].rev # 0 \/ cpa[a] = "gone"
        /\ cpa'[a] = cpa[a] \/ cpa'[a] = "gone"
        /\ cpa[a] = "gone" => cpa'[a] = "gone"
    BY <1>0, <2>1 DEF StepOn, GoneStays, Present
  <2> QED
    BY <1>0, <1>1, <2>2 DEF Relies, HasRow, Present, Frame
<1>3. CASE ~Critical(p)
  <2>1. pc[p] \notin {"commit", "recall", "recommit", "set"}
        /\ (pc[p] = "call" => op[p] # "dispose")
    BY <1>3 DEF Critical
  <2> QED
    BY <1>0, <1>1, <2>1 DEF Relies, Frame
<1> QED
  BY <1>2, <1>3

(* Outside the critical sections there is little to rely on. *)
LEMMA QuietRelies ==
  ASSUME SyncType, GoneStays, NEW q \in Threads, Relies(q),
         pc'[q] \in Rest \union {"get", "enqueue", "refused", "lock", "unlocked"}
         \/ (pc'[q] = "call" /\ op'[q] = "bulkDelete"),
         \/ reply'[q] = "none"
         \/ op'[q] = op[q] /\ acct'[q] = acct[q] /\ reply'[q] = reply[q]
  PROVE  Relies(q)'
BY DEF Relies, Rest, GoneStays, SyncType

(* What is left to rely on after a commit that is followed by another step. *)
LEMMA CommitRelies ==
  ASSUME AgreeInv, GoneStays, NEW q \in Threads, Commit(q)
  PROVE  Relies(q)'
<1>0. SyncType /\ ThreadType /\ Relies(q)
  BY DEF AgreeInv, SyncInv, SyncType, ThreadType
<1>1. Forget(q) /\ pc'[q] \in Rest => Relies(q)'
  <2>1. Forget(q) => reply'[q] = "none"
    BY <1>0, Blocks
  <2> QED
    BY <1>0, <2>1, QuietRelies
<1>2. Release(q) => Relies(q)'
  BY <1>0, <1>1 DEF Release, Goto, Home, Rest, ThreadType
<1>3. CASE DisposeCommit(q) \/ Recommit(q) \/ DeleteCommit(q) \/ \E code \in Codes : DisableSet(q, code)
  BY <1>2, <1>3 DEF DisposeCommit, Recommit, DeleteCommit, DisableSet
<1>4. CASE RetryUnlock(q)
  <2>1. pc'[q] = "unlocked" /\ op'[q] = op[q] /\ acct'[q] = acct[q] /\ reply'[q] = reply[q]
    BY <1>0, <1>4 DEF RetryUnlock, Goto, Keep, threadVars, ThreadType
  <2> QED
    BY <1>0, <2>1, QuietRelies
<1>5. CASE RetryCommit(q)
  BY <1>0, <1>1, <1>5 DEF RetryCommit, Goto, Rest, ThreadType
<1>6. CASE EnableCommit(q)
  <2>1. \/ Release(q)
        \/ /\ pc'[q] = "recall" /\ op'[q] = op[q] /\ acct'[q] = acct[q] /\ ban' = ban
           /\ Present(acct[q]) /\ op[q] \in Enables
    BY <1>0, <1>6 DEF EnableCommit, Goto, Keep, threadVars, ThreadType
  <2> QED
    BY <1>2, <2>1 DEF Relies, HasRow, Present, Deletes, Enables
<1>7. CASE DisableCommit(q)
  <2>1. \/ Release(q)
        \/ /\ pc'[q] = "set" /\ op'[q] = op[q] /\ acct'[q] = acct[q]
           /\ op[q] = "disable" /\ reply[q] = "ok" /\ pc[q] = "commit" /\ cpa' = cpa
    BY <1>0, <1>7 DEF DisableCommit, Goto, Keep, threadVars, cpaVars, ThreadType
  <2> QED
    BY <1>0, <1>2, <2>1 DEF Relies, Deletes
<1> QED
  BY <1>3, <1>4, <1>5, <1>6, <1>7 DEF Commit

(* A call, taken apart: what was wanted has happened if CPA says so. *)
LEMMA CallParts ==
  ASSUME SyncType, NEW q \in Threads, Called(q)
  PROVE  /\ pc[q] \in {"call", "recall"} /\ ban' = ban /\ lock' = lock
         /\ op'[q] = op[q] /\ acct'[q] = acct[q]
         /\ pc'[q] = CASE pc[q] = "recall" -> "recommit"
                       [] pc[q] = "call" /\ op[q] = "bulkDelete" -> "lock"
                       [] OTHER -> "commit"
         /\ \/ cpa'[acct[q]] = cpa[acct[q]] /\ reply'[q] # "ok" /\ strayed' = strayed
            \/ /\ cpa[acct[q]] # "gone" /\ cpa'[acct[q]] = Wanted(q)
               /\ reply'[q] \in {"ok", "fail"}
               /\ Strays(q, TRUE, reply'[q]) => acct[q] \in strayed'
<1>1. PICK eff \in BOOLEAN, ans \in {"ok", "fail", "gone"} :
        /\ Call(q, eff, ans)
        /\ \/ eff = FALSE /\ ans # "ok"
           \/ eff = TRUE /\ ans # "gone" /\ cpa[acct[q]] # "gone"
  BY DEF Called, CallAnswered, CallFailed
<1>2. /\ pc[q] \in {"call", "recall"} /\ ban' = ban /\ lock' = lock
      /\ op'[q] = op[q] /\ acct'[q] = acct[q] /\ reply'[q] = ans
      /\ pc'[q] = CASE pc[q] = "recall" -> "recommit"
                    [] pc[q] = "call" /\ op[q] = "bulkDelete" -> "lock"
                    [] OTHER -> "commit"
  BY <1>1 DEF Call, Goto, SyncType, poolVars
<1>3. CASE eff = FALSE /\ ans # "ok"
  <2>1. cpa' = [cpa EXCEPT ![acct[q]] = cpa[acct[q]]] /\ strayed' = strayed
    BY <1>1, <1>3 DEF Call, Strays
  <2> QED
    BY <1>2, <1>3, <2>1 DEF SyncType
<1>4. CASE eff = TRUE /\ ans # "gone" /\ cpa[acct[q]] # "gone"
  <2>1. cpa' = [cpa EXCEPT ![acct[q]] = Wanted(q)]
        /\ (Strays(q, TRUE, ans) => strayed' = strayed \union {acct[q]})
    BY <1>1, <1>4 DEF Call
  <2>2. acct[q] \in Accounts /\ cpa'[acct[q]] = Wanted(q)
    BY <2>1 DEF SyncType
  <2> QED
    BY <1>2, <1>4, <2>1, <2>2
<1> QED
  BY <1>1, <1>3, <1>4

(* What the answer of a call tells. *)
LEMMA CallRelies ==
  ASSUME AgreeInv, GoneStays, NEW q \in Threads, Called(q)
  PROVE  Relies(q)'
<1> DEFINE a == acct[q]
<1>0. SyncType /\ Relies(q) /\ Phase(q) /\ a \in Accounts
  BY DEF AgreeInv, SyncInv, SyncType
<1>1. /\ pc[q] \in {"call", "recall"} /\ ban' = ban
      /\ op'[q] = op[q] /\ acct'[q] = a
      /\ pc'[q] = CASE pc[q] = "recall" -> "recommit"
                    [] pc[q] = "call" /\ op[q] = "bulkDelete" -> "lock"
                    [] OTHER -> "commit"
      /\ reply'[q] = "ok" => cpa'[a] = Wanted(q)
      /\ cpa[a] = "gone" => cpa'[a] = "gone"
  BY <1>0, CallParts DEF GoneStays
<1>2. CASE pc[q] = "recall"
  <2>1. HasRow(a) /\ op[q] \in Enables /\ Wanted(q) = "disabled"
    BY <1>0, <1>2 DEF Relies, Phase, Wanted
  <2>2. ban'[a].rev # 0 \/ cpa'[a] = "gone"
    BY <1>1, <2>1 DEF HasRow, Present
  <2> QED
    BY <1>1, <1>2, <2>1, <2>2 DEF Relies, HasRow, Present, Enables, Deletes
<1>3. CASE pc[q] = "call"
  <2>1. /\ op[q] \in {"dispose", "disable"} => Wanted(q) = "disabled"
        /\ op[q] \in Enables => Wanted(q) = "enabled"
        /\ op[q] \in Deletes => Wanted(q) = "gone"
    BY <1>3 DEF Wanted, Enables, Deletes
  <2>2. op[q] = "dispose" => ban'[a].rev # 0 \/ cpa'[a] = "gone"
    BY <1>0, <1>1, <1>3 DEF Relies, HasRow, Present
  <2>3. pc'[q] \in {"lock", "commit"}
    BY <1>1, <1>3
  <2> QED
    BY <1>1, <2>1, <2>2, <2>3 DEF Relies, HasRow, Present
<1> QED
  BY <1>1, <1>2, <1>3

(* A dispose takes the account only if there is a row. *)
LEMMA LockRelies ==
  ASSUME AgreeInv, GoneStays, NEW q \in Threads, Lock(q)
  PROVE  Relies(q)'
<1>0. SyncType /\ ThreadType /\ Relies(q) /\ acct[q] \in Accounts
  BY DEF AgreeInv, SyncInv, SyncType, ThreadType
<1>1. CASE NothingToDispose(q)
  <2>1. reply'[q] = "none" /\ pc'[q] \in Rest
    BY <1>0, <1>1 DEF Lock, Forget, Goto, Rest, ThreadType
  <2> QED
    BY <1>0, <2>1, QuietRelies
<1>2. CASE ~NothingToDispose(q)
  <2>1. /\ op'[q] = op[q] /\ acct'[q] = acct[q] /\ reply'[q] = reply[q]
        /\ pc'[q] = IF op[q] = "bulkDelete" THEN "commit" ELSE "call"
        /\ ban' = ban
    BY <1>0, <1>2 DEF Lock, Goto, poolVars, ThreadType
  <2>2. op[q] = "dispose" => Present(acct[q])
    BY <1>2 DEF NothingToDispose, Present
  <2> QED
    BY <1>0, <2>1, <2>2 DEF Relies, HasRow, Present, Deletes, Enables, GoneStays
<1> QED
  BY <1>1, <1>2

(* What q relies on after its own steps. *)
LEMMA ActsRelies ==
  ASSUME AgreeInv, GoneStays, NEW q \in Threads, Acts(q)
  PROVE  Relies(q)'
<1>0. SyncType /\ RowsInv /\ ThreadType /\ Relies(q) /\ Knows(q)
  BY DEF AgreeInv, SyncInv, SyncType, ThreadType
<1>1. CASE Commit(q)
  BY <1>1, CommitRelies
<1>2. CASE Called(q)
  BY <1>2, CallRelies
<1>3. CASE Lock(q)
  BY <1>3, LockRelies
<1>4. ASSUME Forget(q), pc'[q] \in Rest PROVE Relies(q)'
  BY <1>0, <1>4, QuietRelies DEF Forget, ThreadType
<1>5. CASE GiveUp(q) \/ (q = Usage /\ UsageRefused) \/ (q = Restore /\ ExpireDone)
  BY <1>0, <1>4, <1>5 DEF GiveUp, UsageRefused, ExpireDone, Goto, Rest, ThreadType
<1>6. CASE q = Usage /\ UsageEnqueue
  <2>1. Keep(q) => op'[q] = op[q] /\ acct'[q] = acct[q] /\ reply'[q] = reply[q]
    BY DEF Keep, threadVars
  <2>2. \/ Keep(q) /\ pc'[q] = "refused"
        \/ Forget(q) /\ pc'[q] \in Rest
    BY <1>0, <1>6 DEF UsageEnqueue, Goto, Rest, ThreadType
  <2> QED
    BY <1>0, <1>4, <2>1, <2>2, QuietRelies
<1>7. CASE q = Usage /\ UsageGet
  <2>1. op'[q] = op[q] /\ acct'[q] = acct[q] /\ reply'[q] = reply[q] /\ pc'[q] = "enqueue"
    BY <1>0, <1>7 DEF UsageGet, Goto, ThreadType
  <2> QED
    BY <1>0, <2>1, QuietRelies
<1>8. ASSUME pc[q] \in Rest, reply'[q] = reply[q],
             pc'[q] \in Rest \union {"get", "lock"}
             \/ (pc'[q] = "call" /\ op'[q] = "bulkDelete")
      PROVE  Relies(q)'
  BY <1>0, <1>8, QuietRelies DEF Knows
<1>9. CASE q = Usage /\ \E a \in Accounts, code \in Codes, w \in 1 .. Window :
                            UsageRecord(a, code, w)
  BY <1>0, <1>8, <1>9 DEF UsageRecord, Bind, Goto, Rest, ThreadType
<1>10. CASE q \in Workers /\ DisposeTake(q)
  BY <1>0, <1>8, <1>10 DEF DisposeTake, Bind, Goto, Rest, ThreadType
<1>11. CASE q = Restore /\ (RestorePass \/ ExpireScan)
  BY <1>0, <1>8, <1>11 DEF RestorePass, ExpireScan, Keep, threadVars, Goto, Rest, ThreadType
<1>12. CASE q = Restore /\ \E t \in todo : RetryNext(t) \/ ExpireNext(t)
  BY <1>0, <1>8, <1>12 DEF RetryNext, ExpireNext, Keep, threadVars, Bind, Goto, Rest, ThreadType
<1>13. CASE q \in Operators /\ \E k \in AllKinds, a \in Accounts : OperatorStart(q, k, a)
  BY <1>0, <1>8, <1>13 DEF OperatorStart, Bind, Goto, Rest, ThreadType
<1> QED
  BY <1>1, <1>2, <1>3, <1>5, <1>6, <1>7, <1>9, <1>10, <1>11, <1>12, <1>13 DEF Acts, Called

-----------------------------------------------------------------------------
(* The agreement about an account whose lock q neither has nor takes. *)
LEMMA OtherAgrees ==
  ASSUME AgreeInv, NEW q \in Threads, StepOn(q), \A p \in Threads \ {q} : Frame(p),
         NEW b \in Accounts, lock[b] # q, lock'[b] # q
  PROVE  Agrees(b)'
<1>1. lock'[b] = lock[b] /\ (cpa'[b] = cpa[b] \/ cpa'[b] = "gone")
  BY DEF StepOn
<1>2. SUFFICES ASSUME b \notin strayed'
               PROVE  /\ SyncedHalf(b)' \/ \E p \in Threads : lock'[b] = p /\ ToRemove(p)'
                      /\ RowHalf(b)' \/ \E p \in Threads : lock'[b] = p /\ ToWrite(p)'
  BY DEF Agrees
<1>3. b \notin strayed /\ Agrees(b)
  BY <1>2 DEF StepOn, AgreeInv
<1>4. \A p \in Threads : lock[b] = p =>
        /\ lock'[b] = p
        /\ ToRemove(p) => ToRemove(p)'
        /\ ToWrite(p) => ToWrite(p)'
  BY <1>1 DEF ToRemove, ToWrite, Frame
<1>5. SyncedHalf(b) => SyncedHalf(b)'
  <2>1. Synced(b)' => Synced(b) \/ cpa[b] # "enabled"
    BY <1>2 DEF StepOn
  <2>2. SyncedHalf(b) <=> (Synced(b) => cpa[b] # "enabled")
    BY Zenon DEF SyncedHalf, Synced
  <2>3. SyncedHalf(b)' <=> (Synced(b)' => cpa'[b] # "enabled")
    BY Zenon DEF SyncedHalf, Synced
  <2>4. cpa[b] # "enabled" => cpa'[b] # "enabled"
    BY <1>1
  <2> QED
    BY <2>1, <2>2, <2>3, <2>4
<1>6. RowHalf(b) => RowHalf(b)'
  <2>1. Present(b) => Present(b)' \/ cpa[b] = "gone"
    BY DEF StepOn
  <2> QED
    BY <1>1, <2>1 DEF RowHalf
<1> QED
  BY <1>3, <1>4, <1>5, <1>6 DEF Agrees

(* Both halves hold for an account that nobody has to restore. *)
LEMMA Halves ==
  ASSUME AgreeInv, NEW b \in Accounts, b \notin strayed
  PROVE  /\ (\A p \in Threads : lock[b] = p => ~ToRemove(p)) => SyncedHalf(b)
         /\ (\A p \in Threads : lock[b] = p => ~ToWrite(p)) => RowHalf(b)
BY DEF AgreeInv, Agrees

(* The halves after a step, in terms of the row and of CPA. *)
LEMMA HalvesNext ==
  ASSUME NEW b \in Accounts
  PROVE  /\ ban'[b] = ban[b] /\ cpa'[b] = cpa[b] /\ SyncedHalf(b) => SyncedHalf(b)'
         /\ ban'[b].rev = 0 \/ cpa'[b] # "enabled" \/ (ban'[b].synced <=> FALSE) => SyncedHalf(b)'
         /\ ban'[b].rev = ban[b].rev /\ cpa'[b] = cpa[b] /\ RowHalf(b) => RowHalf(b)'
         /\ ban'[b].rev # 0 \/ cpa'[b] # "disabled" => RowHalf(b)'
<1>1. ban'[b] = ban[b] /\ cpa'[b] = cpa[b] /\ SyncedHalf(b) => SyncedHalf(b)'
  BY Zenon DEF SyncedHalf, Present
<1>2. ban'[b].rev = 0 \/ cpa'[b] # "enabled" \/ (ban'[b].synced <=> FALSE) => SyncedHalf(b)'
  BY Zenon DEF SyncedHalf, Present
<1>3. ban'[b].rev = ban[b].rev /\ cpa'[b] = cpa[b] /\ RowHalf(b) => RowHalf(b)'
  BY Zenon DEF RowHalf, Present
<1>4. ban'[b].rev # 0 \/ cpa'[b] # "disabled" => RowHalf(b)'
  BY Zenon DEF RowHalf, Present
<1> QED
  BY <1>1, <1>2, <1>3, <1>4

(* A commit leaves the account it is about in agreement, or goes on holding it. *)
LEMMA CommitAgrees ==
  ASSUME AgreeInv, NEW q \in Threads, Commit(q), NEW b \in Accounts, lock[b] = q
  PROVE  Agrees(b)'
<1>0. /\ SyncType /\ RowsInv /\ ThreadType /\ acct[q] = b /\ Critical(q)
      /\ Relies(q) /\ Phase(q) /\ Knows(q)
  BY DEF AgreeInv, LockInv, SyncInv, SyncType, ThreadType
<1>1. SUFFICES ASSUME b \notin strayed'
               PROVE  /\ SyncedHalf(b)' \/ (ToRemove(q)' /\ lock'[b] = q)
                      /\ RowHalf(b)' \/ (ToWrite(q)' /\ lock'[b] = q)
  BY DEF Agrees
<1>2. ~RetryCommit(q)
  BY <1>0 DEF RetryCommit, Critical
<1>3. UNCHANGED <<cpa, strayed>>
  BY <1>2 DEF Commit, DisposeCommit, RetryUnlock, EnableCommit, Recommit, DisableCommit,
         DisableSet, DeleteCommit, cpaVars
<1>4. (~ToRemove(q) => SyncedHalf(b)) /\ (~ToWrite(q) => RowHalf(b))
  BY <1>1, <1>3, Halves
<1>5. ASSUME ban' = ban, SyncedHalf(b), RowHalf(b) PROVE SyncedHalf(b)' /\ RowHalf(b)'
  BY <1>3, <1>5, HalvesNext
<1>6. ASSUME MarkSynced(b, reply[q] = "ok"), reply[q] = "ok" => cpa[b] # "enabled", RowHalf(b)
      PROVE  SyncedHalf(b)' /\ RowHalf(b)'
  <2>1. (reply[q] = "ok") \in BOOLEAN
    OBVIOUS
  <2>2. ban'[b].rev = ban[b].rev /\ (Present(b) => (ban'[b].synced <=> (reply[q] = "ok")))
    BY <1>0, <1>6, <2>1, MarkMarks, Zenon
  <2>3. ban'[b].rev = 0 \/ cpa'[b] # "enabled" \/ (ban'[b].synced <=> FALSE)
    <3>1. CASE reply[q] = "ok"
      BY <1>3, <1>6, <3>1
    <3>2. CASE reply[q] # "ok" /\ Present(b)
      BY <2>2, <3>2, Zenon
    <3>3. CASE ~Present(b)
      BY <2>2, <3>3 DEF Present
    <3> QED
      BY <3>1, <3>2, <3>3
  <2> QED
    BY <1>3, <1>6, <2>2, <2>3, HalvesNext
<1>7. ASSUME DropRow(b) PROVE ban'[b].rev = 0
  BY <1>0, <1>7 DEF DropRow, SyncType, NoRow
<1>8. CASE DisposeCommit(q)
  <2>1. pc[q] = "commit" /\ op[q] = "dispose" /\ (UNCHANGED ban \/ MarkSynced(b, reply[q] = "ok"))
    BY <1>0, <1>8 DEF DisposeCommit
  <2>2. SyncedHalf(b) /\ RowHalf(b)
    BY <1>4, <2>1 DEF ToRemove, ToWrite, Enables
  <2>3. reply[q] = "ok" => cpa[b] # "enabled"
    BY <1>0, <2>1 DEF Relies
  <2> QED
    BY <1>5, <1>6, <2>1, <2>2, <2>3
<1>9. CASE RetryUnlock(q)
  <2>1. pc[q] = "commit" /\ op[q] = "retry" /\ ban' = ban
    BY <1>9 DEF RetryUnlock, poolVars
  <2>2. SyncedHalf(b) /\ RowHalf(b)
    BY <1>4, <2>1 DEF ToRemove, ToWrite, Enables
  <2> QED
    BY <1>5, <2>1, <2>2
<1>10. CASE EnableCommit(q)
  <2>1. pc[q] = "commit" /\ op[q] \in Enables
    BY <1>10 DEF EnableCommit
  <2>2. RowHalf(b)
    BY <1>4, <2>1 DEF ToWrite, Enables
  <2> DEFINE refused == reply[q] = "fail" \/ (reply[q] = "gone" /\ op[q] = "enable")
  <2>3. CASE refused \/ op[q] = "unbanAbsent"
    <3>1. ban' = ban
      BY <1>0, <1>10, <2>3 DEF EnableCommit
    <3>2. ~ToRemove(q)
      BY <2>1, <2>3 DEF ToRemove
    <3> QED
      BY <1>4, <1>5, <2>2, <3>1, <3>2
  <2>4. CASE ~Present(b)
    <3>1. ban' = ban
      BY <1>0, <1>10, <2>4 DEF EnableCommit
    <3>2. SyncedHalf(b)
      BY <2>4 DEF SyncedHalf
    <3> QED
      BY <1>5, <2>2, <3>1, <3>2
  <2>5. CASE ~refused /\ op[q] # "unbanAbsent" /\ Present(b) /\ ban[b].rev = expected[q]
    <3>1. DropRow(b)
      BY <1>0, <1>10, <2>5 DEF EnableCommit
    <3>2. reply[q] \in {"ok", "gone"}
      BY <1>0, <2>1, <2>5 DEF Phase, ThreadType
    <3>3. cpa[b] # "disabled"
      BY <1>0, <2>1, <3>2 DEF Relies, Knows
    <3> QED
      BY <1>3, <1>7, <3>1, <3>3, HalvesNext
  <2>6. CASE ~refused /\ op[q] # "unbanAbsent" /\ Present(b) /\ ban[b].rev # expected[q]
    <3>1. ban' = ban /\ lock' = lock /\ pc'[q] = "recall"
      BY <1>0, <1>10, <2>6 DEF EnableCommit, Goto, ThreadType
    <3>2. RowHalf(b)' /\ ToRemove(q)'
      BY <1>3, <2>2, <3>1, HalvesNext DEF ToRemove
    <3> QED
      BY <3>1, <3>2
  <2> QED
    BY <2>3, <2>4, <2>5, <2>6
<1>11. CASE Recommit(q)
  <2>1. pc[q] = "recommit" /\ MarkSynced(b, reply[q] = "ok")
    BY <1>0, <1>11 DEF Recommit
  <2>2. RowHalf(b)
    BY <1>4, <2>1 DEF ToWrite
  <2>3. reply[q] = "ok" => cpa[b] # "enabled"
    BY <1>0, <2>1 DEF Relies
  <2> QED
    BY <1>6, <2>1, <2>2, <2>3
<1>12. CASE DisableCommit(q)
  <2>1. pc[q] = "commit" /\ op[q] = "disable"
    BY <1>12 DEF DisableCommit
  <2>2. CASE reply[q] = "ok"
    <3>1. DropRow(b) /\ lock' = lock /\ pc'[q] = "set"
      BY <1>0, <1>12, <2>2 DEF DisableCommit, Goto, ThreadType
    <3>2. SyncedHalf(b)' /\ ToWrite(q)'
      BY <1>7, <3>1, HalvesNext DEF ToWrite
    <3> QED
      BY <3>1, <3>2
  <2>3. CASE reply[q] # "ok"
    <3>1. ban' = ban
      BY <1>12, <2>3 DEF DisableCommit
    <3>2. ~ToRemove(q) /\ ~ToWrite(q)
      BY <2>1, <2>3 DEF ToRemove, ToWrite
    <3> QED
      BY <1>4, <1>5, <3>1, <3>2
  <2> QED
    BY <2>2, <2>3
<1>13. ASSUME NEW code \in Codes, DisableSet(q, code)
       PROVE  SyncedHalf(b)' /\ RowHalf(b)'
  <2>1. pc[q] = "set" /\ Set(b, NewRow(code, Window, TRUE))
    BY <1>0, <1>13 DEF DisableSet
  <2>2. Window \in Nat
    BY ConstantsAssumption
  <2>3. TRUE \in BOOLEAN
    OBVIOUS
  <2>4. ban'[b].rev # 0
    BY <1>0, <2>1, <2>2, <2>3, SetMarks, Zenon
  <2>5. cpa[b] # "enabled"
    BY <1>0, <2>1 DEF Relies, Phase
  <2> QED
    BY <1>3, <2>4, <2>5, HalvesNext
<1>14. CASE DeleteCommit(q)
  <2>1. pc[q] = "commit" /\ op[q] \in Deletes
    BY <1>14 DEF DeleteCommit, Deletes
  <2>2. SyncedHalf(b) /\ RowHalf(b)
    BY <1>4, <2>1 DEF ToRemove, ToWrite, Enables, Deletes
  <2>3. CASE reply[q] = "fail"
    BY <1>5, <1>14, <2>2, <2>3 DEF DeleteCommit
  <2>4. CASE reply[q] # "fail"
    <3>1. DropRow(b)
      BY <1>0, <1>14, <2>4 DEF DeleteCommit
    <3>2. cpa[b] = "gone"
      BY <1>0, <2>1, <2>4 DEF Relies, Knows, Phase, ThreadType
    <3> QED
      BY <1>3, <1>7, <3>1, <3>2, HalvesNext
  <2> QED
    BY <2>3, <2>4
<1> QED
  BY <1>2, <1>8, <1>9, <1>10, <1>11, <1>12, <1>13, <1>14 DEF Commit

(* So does a call, or its account has strayed. *)
LEMMA CallAgrees ==
  ASSUME AgreeInv, NEW q \in Threads, Called(q), NEW b \in Accounts, lock[b] = q
  PROVE  Agrees(b)'
<1>0. /\ SyncType /\ RowsInv /\ ThreadType /\ acct[q] = b /\ Critical(q)
      /\ Relies(q) /\ Phase(q)
  BY DEF AgreeInv, LockInv, SyncInv, SyncType, ThreadType
<1>1. SUFFICES ASSUME b \notin strayed'
               PROVE  /\ SyncedHalf(b)' \/ (ToRemove(q)' /\ lock'[b] = q)
                      /\ RowHalf(b)' \/ (ToWrite(q)' /\ lock'[b] = q)
  BY DEF Agrees
<1>2. /\ pc[q] \in {"call", "recall"} /\ ban' = ban /\ lock'[b] = q
      /\ op'[q] = op[q]
      /\ pc'[q] = IF pc[q] = "recall" THEN "recommit" ELSE "commit"
      /\ \/ cpa'[b] = cpa[b]
         \/ /\ cpa[b] # "gone" /\ cpa'[b] = Wanted(q)
            /\ reply'[q] \in {"ok", "fail"}
            /\ ~Strays(q, TRUE, reply'[q])
  <2>1. pc[q] = "call" => op[q] # "bulkDelete"
    BY <1>0 DEF Critical
  <2>2. /\ pc[q] \in {"call", "recall"} /\ ban' = ban /\ lock' = lock /\ op'[q] = op[q]
        /\ pc'[q] = IF pc[q] = "recall" THEN "recommit" ELSE "commit"
    BY <1>0, <2>1, CallParts
  <2>3. \/ cpa'[b] = cpa[b]
        \/ /\ cpa[b] # "gone" /\ cpa'[b] = Wanted(q)
           /\ reply'[q] \in {"ok", "fail"}
           /\ Strays(q, TRUE, reply'[q]) => b \in strayed'
    BY <1>0, CallParts, Zenon
  <2> QED
    BY <1>1, <2>2, <2>3
<1>3. b \notin strayed
  <2>1. StepOn(q)
    BY CallTouch
  <2> QED
    BY <1>1, <2>1 DEF StepOn
<1>4. (~ToRemove(q) => SyncedHalf(b)) /\ RowHalf(b)
  BY <1>2, <1>3, Halves DEF ToWrite
<1>5. CASE pc[q] = "recall"
  <2>1. ToRemove(q)'
    BY <1>2, <1>5 DEF ToRemove
  <2>2. HasRow(b)
    BY <1>0, <1>5 DEF Relies
  <2>3. RowHalf(b)'
    <3>1. CASE Present(b)
      BY <1>2, <3>1, HalvesNext DEF Present
    <3>2. CASE cpa'[b] = cpa[b]
      BY <1>2, <1>4, <3>2, HalvesNext
    <3> QED
      BY <1>2, <2>2, <3>1, <3>2 DEF HasRow
  <2> QED
    BY <1>2, <2>1, <2>3
<1>6. CASE pc[q] = "call" /\ cpa'[b] = cpa[b]
  BY <1>2, <1>4, <1>6, HalvesNext DEF ToRemove
<1>7. CASE pc[q] = "call" /\ cpa'[b] # cpa[b]
  <2>1. /\ cpa[b] # "gone" /\ cpa'[b] = Wanted(q) /\ pc'[q] = "commit"
        /\ reply'[q] \in {"ok", "fail"} /\ ~Strays(q, TRUE, reply'[q])
        /\ op[q] \in Works
    BY <1>0, <1>2, <1>7 DEF Phase
  <2>2. CASE op[q] \in {"dispose", "retry"}
    <3>1. Wanted(q) = "disabled"
      BY <2>2 DEF Wanted
    <3>2. Present(b)
      BY <1>0, <1>7, <2>1, <2>2 DEF Relies, HasRow, Strays, Phase, Present
    <3> QED
      BY <1>2, <2>1, <3>1, <3>2, HalvesNext DEF Present
  <2>3. CASE op[q] = "disable"
    <3>1. Wanted(q) = "disabled" /\ reply'[q] = "ok"
      BY <1>0, <2>1, <2>3 DEF Wanted, Strays
    <3> QED
      BY <1>2, <2>1, <2>3, <3>1, HalvesNext DEF ToWrite
  <2>4. CASE op[q] \in Deletes
    <3>1. Wanted(q) = "gone"
      BY <1>7, <2>4 DEF Wanted, Deletes
    <3> QED
      BY <2>1, <3>1, HalvesNext
  <2>5. CASE op[q] \in Enables
    <3>1. Wanted(q) = "enabled"
      BY <1>7, <2>5 DEF Wanted, Enables
    <3>2. reply'[q] = "ok" /\ (op[q] = "unbanAbsent" => ~Present(b))
      BY <1>0, <2>1, <3>1 DEF Strays
    <3>3. SyncedHalf(b)' \/ ToRemove(q)'
      BY <1>2, <2>1, <2>5, <3>2, HalvesNext DEF ToRemove, Present
    <3> QED
      BY <1>2, <2>1, <3>1, <3>3, HalvesNext
  <2> QED
    BY <2>1, <2>2, <2>3, <2>4, <2>5 DEF Works
<1> QED
  BY <1>2, <1>5, <1>6, <1>7

-----------------------------------------------------------------------------
(* The agreement about every account, in every step of q. *)
LEMMA ActsAgrees ==
  ASSUME AgreeInv, NEW q \in Threads, Acts(q), \A p \in Threads \ {q} : Frame(p),
         NEW b \in Accounts
  PROVE  Agrees(b)'
<1>0. StepOn(q) /\ LockInv
  BY Touches DEF AgreeInv
<1>1. CASE lock[b] # q /\ lock'[b] # q
  BY <1>0, <1>1, OtherAgrees
<1>2. CASE lock[b] = q
  <2>1. Critical(q)
    BY <1>0, <1>2 DEF LockInv
  <2>2. Called(q) \/ Commit(q)
    BY <2>1 DEF Critical, Acts, Called, GiveUp, Lock, UsageRecord, UsageGet, UsageEnqueue,
       UsageRefused, DisposeTake, RestorePass, ExpireScan, ExpireDone, RetryNext,
       ExpireNext, OperatorStart
  <2> QED
    BY <1>2, <2>2, CallAgrees, CommitAgrees
<1>3. CASE lock[b] # q /\ lock'[b] = q
  <2>1. lock[b] = Free
    BY <1>0, <1>3 DEF StepOn
  <2>2. \A p \in Threads : lock[b] # p
    BY <2>1, ThreadsAssumption DEF Threads, Usage, Restore, Free
  <2>3. Lock(q)
    <3>1. lock' # lock
      BY <1>3
    <3>2. Commit(q) => Unlock(q) \/ lock' = lock
      BY DEF Commit, DisposeCommit, RetryUnlock, RetryCommit, EnableCommit, Recommit,
         DisableCommit, DisableSet, DeleteCommit, Release
    <3>3. ~Unlock(q)
      BY <1>3, <2>1, <2>2, <1>0 DEF Unlock, LockInv
    <3> QED
      BY <3>1, <3>2, <3>3 DEF Acts, CallAnswered, CallFailed, Call, GiveUp, UsageRecord,
         UsageGet, UsageEnqueue, UsageRefused, DisposeTake, RestorePass, ExpireScan,
         ExpireDone, RetryNext, ExpireNext, OperatorStart
  <2>4. UNCHANGED <<ban, cpa, strayed>>
    BY <2>3 DEF Lock, poolVars, cpaVars
  <2>5. b \notin strayed => SyncedHalf(b) /\ RowHalf(b)
    BY <2>2, Halves
  <2>6. b \notin strayed' => SyncedHalf(b)' /\ RowHalf(b)'
    BY <2>4, <2>5, HalvesNext
  <2> QED
    BY <2>6 DEF Agrees
<1> QED
  BY <1>1, <1>2, <1>3

(* An account that CPA loses agrees. *)
LEMMA LostAgrees ==
  ASSUME AgreeInv, UNCHANGED <<ban, strayed, lock, pc, op, reply>>, GoneStays,
         NEW b \in Accounts, cpa'[b] = cpa[b] \/ cpa'[b] = "gone"
  PROVE  Agrees(b)'
<1>1. \A p \in Threads : (ToRemove(p)' <=> ToRemove(p)) /\ (ToWrite(p)' <=> ToWrite(p))
  BY DEF ToRemove, ToWrite
<1>2. CASE cpa'[b] = "gone"
  BY <1>2, HalvesNext DEF Agrees
<1>3. CASE cpa'[b] = cpa[b]
  BY <1>1, <1>3, HalvesNext DEF Agrees, AgreeInv
<1> QED
  BY <1>2, <1>3

(* It holds at the start. *)
LEMMA AgreeInit == Init => AgreeInv
<1> SUFFICES ASSUME Init PROVE AgreeInv
  OBVIOUS
<1>1. SyncInv
  BY SyncInvInit
<1>2. LockInv
  BY ThreadsAssumption DEF Init, LockInv, Critical, Threads, Usage, Restore, Free
<1>3. RetryList /\ strayed \subseteq Accounts
  BY DEF Init, RetryList, Threads
<1>4. \A p \in Threads : Phase(p) /\ Relies(p)
  BY DEF Init, Phase, Relies, Rest, Deletes
<1>5. \A a \in Accounts : Agrees(a)
  BY DEF Init, Agrees, SyncedHalf, RowHalf, Present, NoRow
<1> QED
  BY <1>1, <1>2, <1>3, <1>4, <1>5 DEF AgreeInv

(* Every step keeps it. *)
LEMMA AgreeStep == AgreeInv /\ [Next]_vars => AgreeInv'
<1> SUFFICES ASSUME AgreeInv, [Next]_vars PROVE AgreeInv'
  OBVIOUS
<1>1. SyncInv' /\ RetryList' /\ GoneStays
  BY SyncInvStep, RetryListStep, CpaStep DEF AgreeInv, SyncInv
<1>2. CASE \E q \in Threads : Acts(q)
  <2>1. PICK q \in Threads : Acts(q)
    BY <1>2
  <2>2. \A p \in Threads \ {q} : Frame(p)
    BY <2>1, ActsMemory, MemoryStep DEF AgreeInv, SyncInv
  <2>3. StepOn(q)
    BY <2>1, Touches
  <2>4. \A p \in Threads : OwnLock(p)
    BY <2>1, <2>2, <2>3, ActsLock, OtherLock
  <2>5. \A p \in Threads : Phase(p)'
    BY <2>1, <2>2, ActsPhase, OtherPhase DEF AgreeInv
  <2>6. \A p \in Threads : Relies(p)'
    BY <1>1, <2>1, <2>2, <2>3, ActsRelies, OtherRelies
  <2>7. \A b \in Accounts : Agrees(b)'
    BY <2>1, <2>2, ActsAgrees
  <2>8. lock' \in [Accounts -> Threads \union {Free}]
    <3>1. lock' = lock \/ Lock(q) \/ Unlock(q)
      BY <2>1 DEF Acts, CallAnswered, CallFailed, Call, GiveUp, UsageRecord,
         UsageGet, UsageEnqueue, UsageRefused, DisposeTake, RestorePass, ExpireScan,
         ExpireDone, RetryNext, ExpireNext, OperatorStart,
         Commit, DisposeCommit, RetryUnlock, RetryCommit, EnableCommit, Recommit,
         DisableCommit, DisableSet, DeleteCommit, Release
    <3> QED
      BY <3>1 DEF AgreeInv, LockInv, Lock, Unlock
  <2>9. LockInv'
    BY <2>4, <2>8 DEF LockInv, OwnLock
  <2> QED
    BY <1>1, <2>3, <2>5, <2>6, <2>7, <2>9 DEF AgreeInv, StepOn
<1>3. CASE (\E a \in Accounts : AccountLost(a)) \/ Tick \/ UNCHANGED vars
  <2>1. UNCHANGED <<ban, strayed, lock, pc, op, acct, expected, reply, callRev>>
    BY <1>3 DEF AccountLost, Tick, vars, threadVars, poolVars, cpaVars
  <2>2. \A b \in Accounts : cpa'[b] = cpa[b] \/ cpa'[b] = "gone"
    BY <1>3 DEF AccountLost, Tick, vars, cpaVars, AgreeInv, SyncInv, SyncType
  <2>3. \A b \in Accounts : Agrees(b)'
    BY <1>1, <2>1, <2>2, LostAgrees
  <2>4. LockInv' /\ strayed' \subseteq Accounts
    BY <2>1 DEF AgreeInv, LockInv, Critical
  <2>5. \A p \in Threads : Phase(p)'
    BY <2>1 DEF AgreeInv, Phase
  <2>6. ASSUME NEW p \in Threads PROVE Relies(p)'
    <3>1. Relies(p) /\ acct[p] \in Accounts
      BY DEF AgreeInv, SyncInv, SyncType
    <3>2. /\ cpa'[acct[p]] = cpa[acct[p]] \/ cpa'[acct[p]] = "gone"
          /\ cpa[acct[p]] = "gone" => cpa'[acct[p]] = "gone"
      BY <1>1, <2>2, <3>1 DEF GoneStays
    <3> QED
      BY <2>1, <3>1, <3>2 DEF Relies, HasRow, Present
  <2> QED
    BY <1>1, <2>3, <2>4, <2>5, <2>6 DEF AgreeInv
<1> QED
  BY <1>2, <1>3, Actor

(* "Prevents disable/restore/unban races from diverging CPA vs local ban   *)
(* pool" (auth_ops.go), for any number of accounts, workers and operators: *)
(* while nobody has an account's lock, its row and CPA agree, unless it    *)
(* strayed.                                                                *)
THEOREM PoolsAgree == Spec => []PoolAgrees
<1>1. AgreeInv => PoolAgrees
  <2> SUFFICES ASSUME AgreeInv, NEW a \in Accounts \ strayed, Settled(a)
               PROVE  /\ Present(a) /\ ban[a].synced => cpa[a] # "enabled"
                      /\ cpa[a] = "disabled" => Present(a)
    BY DEF PoolAgrees
  <2>1. \A p \in Threads : lock[a] # p
    BY ThreadsAssumption DEF Settled, Threads, Usage, Restore, Free
  <2>2. SyncedHalf(a) /\ RowHalf(a)
    BY <2>1, Halves
  <2> QED
    BY <2>2, Zenon DEF SyncedHalf, RowHalf
<1> QED
  BY <1>1, AgreeInit, AgreeStep, PTL DEF Spec
=============================================================================
