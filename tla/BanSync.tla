------------------------------- MODULE BanSync -------------------------------
(***************************************************************************)
(* The ban pool and the disabled flag that CPA keeps for each account.     *)
(*                                                                         *)
(* A ban is a row of activeStore (ban_store.go); the account it is about   *)
(* has to be disabled in CPA, over HTTP, for as long as the row is there.  *)
(* Five kinds of goroutine work on the two together:                       *)
(*   - usage.handle records a ban and queues it (ban_scheduler.go);        *)
(*   - the dispose workers disable queued accounts (ban_dispose_queue.go); *)
(*   - the restore loop retries failed disables and re-enables accounts    *)
(*     whose ban has expired (restoreExpiredBans);                         *)
(*   - an operator, or the schedule on his behalf, unbans, enables,        *)
(*     disables and deletes accounts (ban_unban_job.go, apply_*.go);       *)
(*   - CPA itself may lose the account's file.                             *)
(* withAuthOp (auth_ops.go) serialises, per account, a call to CPA with    *)
(* the local commit that follows it.  usage.handle does not take that lock:*)
(* a row may be replaced while somebody's call is in flight, and revisions *)
(* tell the caller so afterwards.                                          *)
(*                                                                         *)
(* An account has one key here; what aliases do is left out.               *)
(***************************************************************************)
EXTENDS Integers, Sequences

CONSTANTS
  Accounts,
  Workers,        \* dispose workers
  Operators,      \* goroutines that run row actions, bulk actions and unbans
  Capacity,       \* queued accounts the dispose queue holds
  Window,         \* length of a recoverable (429) ban, unless its answer
                  \* names a shorter one
  Kinds,          \* kinds of operation that occur in the instance
  Faults,         \* "fail": a call has no effect; "lost": its effect stays
                  \* and its answer is lost; "gone": CPA drops the account
  MaxRev,         \* bound: rows written to the pool
  MaxNow          \* bound: the clock

AllKinds == {"usage", "retry", "expire", "unban", "unbanAbsent", "enable",
             "disable", "delete", "bulkDelete"}
Usage == "usage"
Restore == "restore"
Free == "free"
Threads == Workers \union Operators \union {Usage, Restore}

ASSUME ThreadsAssumption ==
  /\ {Usage, Restore, Free} \intersect (Workers \union Operators) = {}
  /\ Workers \intersect Operators = {}
ASSUME ConstantsAssumption ==
  /\ Capacity \in Nat /\ Window \in Nat \ {0}
  /\ MaxRev \in Nat /\ MaxNow \in Nat
  /\ Kinds \subseteq AllKinds
  /\ Faults \subseteq {"fail", "lost", "gone"}

VARIABLES
  ban,            \* activeStore.bans: the row of each account
  rev,            \* activeStore.rev
  cpa,            \* the account as CPA has it
  strayed,        \* history: accounts about which CPA and the plugin got
                  \* out of step in one of the ways Strays names
  now,            \* the clock
  lock,           \* holder of the account's withAuthOp mutex
  order, pending, \* the dispose queue: accounts, and the revision wanted
  pc, op, acct,   \* per goroutine: label, kind of operation, account
  expected,       \* revision it read before calling CPA; 0 when no row
  reply,          \* what CPA answered
  tick, todo,     \* restore loop: time it started at, work it has listed
  callRev         \* history: store.rev when the goroutine's call took effect

poolVars == <<ban, rev>>
cpaVars == <<cpa, strayed>>
queueVars == <<order, pending>>
threadVars == <<op, acct, expected, reply>>
restoreVars == <<tick, todo>>
vars == <<poolVars, cpaVars, now, lock, queueVars, pc, threadVars, restoreVars,
          callRev>>

(* Error codes.  A 429 recovers after a window, the others never do. *)
Codes == {"exhausted", "unauthorized", "forbidden"}
Forever == MaxNow + Window + 1

NoRow == [code |-> "none", source |-> "none", resetAt |-> 0, rev |-> 0,
          synced |-> FALSE]
Row == [code : Codes, source : {"window", "manual_unban"}, resetAt : Nat,
        rev : Nat \ {0}, synced : BOOLEAN]

Present(a) == ban[a].rev # 0
Expired(a, t) == Present(a) /\ ban[a].resetAt <= t
Unsynced(a) == Present(a) /\ ~ban[a].synced

(* The row a code asks for: resolveBanWindow / inspectionBanWindow.  The   *)
(* window w of a 429 comes from its headers, or is the configured one.     *)
NewRow(code, w, synced) ==
  [code |-> code,
   source |-> IF code = "exhausted" THEN "window" ELSE "manual_unban",
   resetAt |-> IF code = "exhausted" THEN now + w ELSE now + Forever,
   rev |-> rev + 1,
   synced |-> synced]

(* banStore.Set: the longer window wins with its reason, except that a 429 *)
(* replaces the ban a 401 left.                                            *)
KeepsWindow(old, new) ==
  /\ old.rev # 0
  /\ ~(new.code = "exhausted" /\ old.code = "unauthorized")
  /\ old.resetAt > new.resetAt

(* mutant: the longer window is kept without the source it came from *)
Merged_LosesSource(old, new) ==
  IF /\ old.rev # 0
     /\ ~(new.code = "exhausted" /\ old.code = "unauthorized")
     /\ old.resetAt > new.resetAt
    THEN [new EXCEPT !.resetAt = old.resetAt, !.code = old.code]
    ELSE new

Merged(old, new) ==
  IF KeepsWindow(old, new)
    THEN [new EXCEPT !.resetAt = old.resetAt, !.source = old.source,
                     !.code = old.code]
    ELSE new

Set(a, new) ==
  /\ rev' = rev + 1
  /\ ban' = [ban EXCEPT ![a] = Merged(@, new)]

(* UpdateCpaSyncState: by account, whatever row is there now. *)
MarkSynced(a, synced) ==
  ban' = [ban EXCEPT ![a].synced = IF Present(a) THEN synced ELSE @]

DropRow(a) == ban' = [ban EXCEPT ![a] = NoRow]

Init ==
  /\ ban = [a \in Accounts |-> NoRow]
  /\ rev = 0
  /\ cpa = [a \in Accounts |-> "enabled"]
  /\ strayed = {}
  /\ now = 0
  /\ lock = [a \in Accounts |-> Free]
  /\ order = << >>
  /\ pending = [a \in Accounts |-> 0]
  /\ pc = [p \in Threads |-> "idle"]
  /\ op = [p \in Threads |-> "none"]
  /\ acct \in [Threads -> Accounts]
  /\ \A p, q \in Threads : acct[p] = acct[q]
  /\ expected = [p \in Threads |-> 0]
  /\ reply = [p \in Threads |-> "none"]
  /\ tick = 0
  /\ todo = {}
  /\ callRev = [p \in Threads |-> 0]

-----------------------------------------------------------------------------
(* Goroutines.  A local variable that goes out of scope is reset. *)
Goto(p, label) == pc' = [pc EXCEPT ![p] = label]

Bind(p, kind, a, e) ==
  /\ op' = [op EXCEPT ![p] = kind]
  /\ acct' = [acct EXCEPT ![p] = a]
  /\ expected' = [expected EXCEPT ![p] = e]
  /\ UNCHANGED <<reply, callRev>>

Forget(p) ==
  /\ op' = [op EXCEPT ![p] = "none"]
  /\ expected' = [expected EXCEPT ![p] = 0]
  /\ reply' = [reply EXCEPT ![p] = "none"]
  /\ callRev' = [callRev EXCEPT ![p] = 0]
  /\ UNCHANGED acct

Keep(p) == UNCHANGED <<threadVars, callRev>>

(* Where a goroutine goes when it is done with an account. *)
Home(p) == IF p # Restore THEN "idle"
           ELSE IF op[p] = "retry" THEN "retry" ELSE "expire"

(* usage.handle: a failed request was recognised as a ban.  The row is     *)
(* written first, unsynced; then its revision is read back and queued.     *)
UsageRecord(a, code, w) ==
  /\ "usage" \in Kinds
  /\ pc[Usage] = "idle"
  /\ rev < MaxRev
  /\ code # "exhausted" => w = Window
  /\ Set(a, NewRow(code, w, FALSE))
  /\ Bind(Usage, "usage", a, 0)
  /\ Goto(Usage, "get")
  /\ UNCHANGED <<cpaVars, now, lock, queueVars, restoreVars>>

UsageGet ==
  /\ pc[Usage] = "get"
  /\ expected' = [expected EXCEPT ![Usage] = ban[acct[Usage]].rev]
  /\ Goto(Usage, "enqueue")
  /\ UNCHANGED <<poolVars, cpaVars, now, lock, queueVars, op, acct, reply,
                 restoreVars, callRev>>

Queued(a) == pending[a] # 0

(* enqueue: an account already queued keeps its place and its highest      *)
(* revision; otherwise there must be room.  No row, no account id: refused.*)
UsageEnqueue ==
  LET a == acct[Usage] IN
  /\ pc[Usage] = "enqueue"
  /\ IF expected[Usage] # 0 /\ (Queued(a) \/ Len(order) < Capacity)
       THEN /\ order' = IF Queued(a) THEN order ELSE Append(order, a)
            /\ pending' = [pending EXCEPT ![a] =
                             IF expected[Usage] > @ THEN expected[Usage] ELSE @]
            /\ Goto(Usage, "idle")
            /\ Forget(Usage)
       ELSE /\ Goto(Usage, "refused")
            /\ Keep(Usage)
            /\ UNCHANGED queueVars
  /\ UNCHANGED <<poolVars, cpaVars, now, lock, restoreVars>>

(* "dispose queue full": the row stays unsynced for the restore loop. *)
UsageRefused ==
  /\ pc[Usage] = "refused"
  /\ IF expected[Usage] # 0 THEN MarkSynced(acct[Usage], FALSE)
                            ELSE UNCHANGED ban
  /\ Goto(Usage, "idle")
  /\ Forget(Usage)
  /\ UNCHANGED <<rev, cpaVars, now, lock, queueVars, restoreVars>>

(* A dispose worker takes the oldest queued account. *)
DisposeTake(w) ==
  /\ pc[w] = "idle"
  /\ order # << >>
  /\ order' = Tail(order)
  /\ pending' = [pending EXCEPT ![Head(order)] = 0]
  /\ Bind(w, "dispose", Head(order), pending[Head(order)])
  /\ Goto(w, "lock")
  /\ UNCHANGED <<poolVars, cpaVars, now, lock, restoreVars>>

(* mutant: failed disables are left to the dispose queue *)
RestorePass_NoRetry ==
  /\ pc[Restore] = "idle"
  /\ tick' = now
  /\ todo' = {}
  /\ Goto(Restore, "retry")
  /\ Keep(Restore)
  /\ UNCHANGED <<poolVars, cpaVars, now, lock, queueVars>>

(* mutant: the pass works with the time the loop was started at *)
RestorePass_OldTime ==
  /\ pc[Restore] = "idle"
  /\ UNCHANGED tick
  /\ todo' = {[acct |-> a, rev |-> ban[a].rev] :
                 a \in {b \in Accounts : Unsynced(b) /\ ~Expired(b, tick)}}
  /\ Goto(Restore, "retry")
  /\ Keep(Restore)
  /\ UNCHANGED <<poolVars, cpaVars, now, lock, queueVars>>

(* A pass of the restore loop lists the rows CPA has not been told of,     *)
(* expired ones excepted, each with the revision it has now.               *)
RestorePass ==
  /\ pc[Restore] = "idle"
  /\ tick' = now
  /\ todo' = IF "retry" \in Kinds
               THEN {[acct |-> a, rev |-> ban[a].rev] :
                       a \in {b \in Accounts : Unsynced(b) /\ ~Expired(b, now)}}
               ELSE {}
  /\ Goto(Restore, "retry")
  /\ Keep(Restore)
  /\ UNCHANGED <<poolVars, cpaVars, now, lock, queueVars>>

RetryNext(t) ==
  /\ pc[Restore] = "retry"
  /\ t \in todo
  /\ todo' = todo \ {t}
  /\ Bind(Restore, "retry", t.acct, t.rev)
  /\ Goto(Restore, "lock")
  /\ UNCHANGED <<poolVars, cpaVars, now, lock, queueVars, tick>>

(* The retries are over: list the accounts whose ban has expired. *)
ExpireScan ==
  /\ pc[Restore] = "retry"
  /\ todo = {}
  /\ todo' = IF "expire" \in Kinds
               THEN {[acct |-> a, rev |-> 0] :
                       a \in {b \in Accounts : Expired(b, tick)}}
               ELSE {}
  /\ Goto(Restore, "expire")
  /\ Keep(Restore)
  /\ UNCHANGED <<poolVars, cpaVars, now, lock, queueVars, tick>>

(* mutant: the row read again is not looked at for a manual ban *)
ExpireNext_AnySource(t) ==
  /\ pc[Restore] = "expire"
  /\ t \in todo
  /\ todo' = todo \ {t}
  /\ IF Present(t.acct)
       THEN /\ Bind(Restore, "expire", t.acct, ban[t.acct].rev)
            /\ Goto(Restore, "lock")
       ELSE Keep(Restore) /\ UNCHANGED pc
  /\ UNCHANGED <<poolVars, cpaVars, now, lock, queueVars, tick>>

(* One of them: read its row again.  A row that is gone, or a manual one,  *)
(* is left alone; the revision of any other is the one to remove.          *)
ExpireNext(t) ==
  /\ pc[Restore] = "expire"
  /\ t \in todo
  /\ todo' = todo \ {t}
  /\ IF Present(t.acct) /\ ban[t.acct].source # "manual_unban"
       THEN /\ Bind(Restore, "expire", t.acct, ban[t.acct].rev)
            /\ Goto(Restore, "lock")
       ELSE Keep(Restore) /\ UNCHANGED pc
  /\ UNCHANGED <<poolVars, cpaVars, now, lock, queueVars, tick>>

ExpireDone ==
  /\ pc[Restore] = "expire"
  /\ todo = {}
  /\ Goto(Restore, "idle")
  /\ Forget(Restore)
  /\ UNCHANGED <<poolVars, cpaVars, now, lock, queueVars, restoreVars>>

(* claimUnbanSlot: an unban runs alone, among the operators' goroutines. *)
Unbanning(p) == op[p] \in {"unban", "unbanAbsent"}

SlotFree(kind) ==
  IF kind \in {"unban", "unbanAbsent"}
    THEN \A q \in Operators : pc[q] = "idle"
    ELSE \A q \in Operators : ~Unbanning(q)

(* An operation an operator asks for.  An unban reads the row before it    *)
(* takes the account's lock: "unban" finds one, "unbanAbsent" (a stale     *)
(* page, or a call of the API) does not.  A bulk delete calls CPA before   *)
(* it takes the lock.  Finding the account first (findAuthFile) has no     *)
(* effect beyond an early error and is part of this step.                  *)
OperatorStart(p, kind, a) ==
  /\ kind \in Kinds \intersect {"unban", "unbanAbsent", "enable", "disable",
                                "delete", "bulkDelete"}
  /\ pc[p] = "idle"
  /\ SlotFree(kind)
  /\ kind = "unban" => Present(a)
  /\ kind = "unbanAbsent" => ~Present(a)
  /\ kind = "disable" => rev < MaxRev
  /\ Bind(p, kind, a, IF kind = "unban" THEN ban[a].rev ELSE 0)
  /\ Goto(p, IF kind = "bulkDelete" THEN "call" ELSE "lock")
  /\ UNCHANGED <<poolVars, cpaVars, now, lock, queueVars, restoreVars>>

(* applyBanDispose looks at the row under the lock and has nothing to do   *)
(* when it is gone, or a newer revision of it is in CPA already.           *)
NothingToDispose(p) ==
  LET row == ban[acct[p]] IN
  op[p] = "dispose" /\ (row.rev = 0 \/ (row.rev # expected[p] /\ row.synced))

(* A bulk delete that CPA refused stops before it takes the lock. *)
GiveUp(p) ==
  /\ pc[p] = "lock"
  /\ op[p] = "bulkDelete" /\ reply[p] = "fail"
  /\ Goto(p, "idle")
  /\ Forget(p)
  /\ UNCHANGED <<poolVars, cpaVars, now, lock, queueVars, restoreVars>>

(* mutant: operations on an account are not serialised *)
Lock_Shared(p) ==
  /\ pc[p] = "lock"
  /\ ~(op[p] = "bulkDelete" /\ reply[p] = "fail")
  /\ IF NothingToDispose(p)
       THEN Goto(p, "idle") /\ Forget(p) /\ UNCHANGED lock
       ELSE /\ lock' = [lock EXCEPT ![acct[p]] = p]
            /\ expected' = IF op[p] = "enable"
                             THEN [expected EXCEPT ![p] = ban[acct[p]].rev]
                             ELSE expected
            /\ Goto(p, IF op[p] = "bulkDelete" THEN "commit" ELSE "call")
            /\ UNCHANGED <<op, acct, reply, callRev>>
  /\ UNCHANGED <<poolVars, cpaVars, now, queueVars, restoreVars>>

(* withAuthOp: take the account's lock.  A row enable reads the revision   *)
(* it may remove only here; a bulk delete has called CPA already.          *)
Lock(p) ==
  /\ pc[p] = "lock"
  /\ ~(op[p] = "bulkDelete" /\ reply[p] = "fail")
  /\ lock[acct[p]] = Free
  /\ IF NothingToDispose(p)
       THEN Goto(p, "idle") /\ Forget(p) /\ UNCHANGED lock
       ELSE /\ lock' = [lock EXCEPT ![acct[p]] = p]
            /\ expected' = IF op[p] = "enable"
                             THEN [expected EXCEPT ![p] = ban[acct[p]].rev]
                             ELSE expected
            /\ Goto(p, IF op[p] = "bulkDelete" THEN "commit" ELSE "call")
            /\ UNCHANGED <<op, acct, reply, callRev>>
  /\ UNCHANGED <<poolVars, cpaVars, now, queueVars, restoreVars>>

(* What a call asks CPA for.  A second call re-disables a kept ban. *)
Wanted(p) ==
  IF pc[p] = "recall" \/ op[p] \in {"dispose", "retry", "disable"}
    THEN "disabled"
    ELSE IF op[p] \in {"delete", "bulkDelete"} THEN "gone" ELSE "enabled"

(* The calls after which pool and CPA may disagree for good: an answer is  *)
(* lost that enabled the account, or disabled one without a row; a retry   *)
(* disables an account whose row is not the one it listed; an unban that   *)
(* had read no row enables an account that has one.  RetryCommit adds the  *)
(* last: a retry marks a row although its account was enabled since.       *)
Strays(p, effect, answer) ==
  LET a == acct[p] IN
  /\ effect
  /\ \/ answer = "fail" /\ Wanted(p) = "enabled"
     \/ answer = "fail" /\ op[p] = "disable"
     \/ op[p] = "retry" /\ ban[a].rev # expected[p]
     \/ op[p] = "unbanAbsent" /\ Present(a)

(* A management call to CPA, and its answer. *)
Call(p, effect, answer) ==
  /\ pc[p] \in {"call", "recall"}
  /\ cpa' = [cpa EXCEPT ![acct[p]] = IF effect THEN Wanted(p) ELSE @]
  /\ strayed' = IF Strays(p, effect, answer) THEN strayed \union {acct[p]} ELSE strayed
  /\ reply' = [reply EXCEPT ![p] = answer]
  /\ callRev' = [callRev EXCEPT ![p] = IF pc[p] = "call" THEN rev ELSE @]
  /\ Goto(p, CASE pc[p] = "recall" -> "recommit"
               [] pc[p] = "call" /\ op[p] = "bulkDelete" -> "lock"
               [] OTHER -> "commit")
  /\ UNCHANGED <<poolVars, now, lock, queueVars, op, acct, expected,
                 restoreVars>>

CallAnswered(p) ==
  IF cpa[acct[p]] = "gone" THEN Call(p, FALSE, "gone") ELSE Call(p, TRUE, "ok")

CallFailed(p) ==
  /\ cpa[acct[p]] # "gone"
  /\ \/ "fail" \in Faults /\ Call(p, FALSE, "fail")
     \/ "lost" \in Faults /\ Call(p, TRUE, "fail")

(* The end of a critical section. *)
Unlock(p) == lock' = [lock EXCEPT ![acct[p]] = Free]

Release(p) ==
  /\ Unlock(p)
  /\ Goto(p, Home(p))
  /\ Forget(p)

(* The commit of a dispose: a row that is gone, or newer and synced, is    *)
(* not touched.                                                            *)
DisposeCommit(p) ==
  LET row == ban[acct[p]] IN
  /\ pc[p] = "commit" /\ op[p] = "dispose"
  /\ IF row.rev = 0 \/ (row.rev # expected[p] /\ row.synced)
       THEN UNCHANGED ban
       ELSE MarkSynced(acct[p], reply[p] = "ok")
  /\ Release(p)
  /\ UNCHANGED <<rev, cpaVars, now, queueVars, restoreVars>>

(* A retry of the restore loop releases the lock after the call and        *)
(* commits without it, to whatever row the account has by then; a row is   *)
(* dropped, by revision, when CPA no longer has the account.               *)
RetryUnlock(p) ==
  /\ pc[p] = "commit" /\ op[p] = "retry"
  /\ Unlock(p)
  /\ Goto(p, "unlocked")
  /\ Keep(p)
  /\ UNCHANGED <<poolVars, cpaVars, now, queueVars, restoreVars>>

RetryCommit(p) ==
  LET a == acct[p] IN
  /\ pc[p] = "unlocked"
  /\ IF reply[p] # "gone" THEN MarkSynced(a, reply[p] = "ok")
     ELSE IF ban[a].rev = expected[p] THEN DropRow(a) ELSE UNCHANGED ban
  /\ strayed' = IF reply[p] = "ok" /\ Present(a) /\ cpa[a] = "enabled"
                  THEN strayed \union {a} ELSE strayed
  /\ Goto(p, "retry")
  /\ Forget(p)
  /\ UNCHANGED <<rev, cpa, now, lock, queueVars, restoreVars>>

(* The operations that call CPA to enable an account. *)
Enables == {"expire", "unban", "unbanAbsent", "enable"}

(* mutant: the row is removed whatever revision it has by now *)
EnableCommit_NoCompare(p) ==
  LET a == acct[p]
      refused == reply[p] = "fail" \/ (reply[p] = "gone" /\ op[p] = "enable")
  IN
  /\ pc[p] = "commit" /\ op[p] \in Enables
  /\ IF refused \/ op[p] = "unbanAbsent" \/ ~Present(a)
       THEN UNCHANGED ban
       ELSE DropRow(a)
  /\ Release(p)
  /\ UNCHANGED <<rev, cpaVars, now, queueVars, restoreVars>>

(* The commit of a call that enabled the account: DeleteIfOrCurrent.  The  *)
(* row is removed when it is the one the caller read; a newer one is kept  *)
(* and the account disabled again.  A lost account counts as enabled for   *)
(* an unban and a restore, and as an error for a row enable.  An unban     *)
(* that had read no row leaves the pool alone.                             *)
EnableCommit(p) ==
  LET a == acct[p]
      refused == reply[p] = "fail" \/ (reply[p] = "gone" /\ op[p] = "enable")
  IN
  /\ pc[p] = "commit" /\ op[p] \in Enables
  /\ IF refused \/ op[p] = "unbanAbsent" \/ ~Present(a)
       THEN UNCHANGED ban /\ Release(p)
     ELSE IF ban[a].rev = expected[p]
       THEN DropRow(a) /\ Release(p)
     ELSE UNCHANGED <<ban, lock>> /\ Goto(p, "recall") /\ Keep(p)
  /\ UNCHANGED <<rev, cpaVars, now, queueVars, restoreVars>>

(* The outcome of disabling a kept ban again. *)
Recommit(p) ==
  /\ pc[p] = "recommit"
  /\ MarkSynced(acct[p], reply[p] = "ok")
  /\ Release(p)
  /\ UNCHANGED <<rev, cpaVars, now, queueVars, restoreVars>>

(* A row disable that CPA accepted first drops the rows of the account     *)
(* (syncInspectionBan collapses aliases), then writes one that is synced.  *)
DisableCommit(p) ==
  /\ pc[p] = "commit" /\ op[p] = "disable"
  /\ IF reply[p] = "ok"
       THEN /\ DropRow(acct[p])
            /\ Goto(p, "set") /\ Keep(p) /\ UNCHANGED lock
       ELSE UNCHANGED ban /\ Release(p)
  /\ UNCHANGED <<rev, cpaVars, now, queueVars, restoreVars>>

DisableSet(p, code) ==
  /\ pc[p] = "set"
  /\ Set(acct[p], NewRow(code, Window, TRUE))
  /\ Release(p)
  /\ UNCHANGED <<cpaVars, now, queueVars, restoreVars>>

(* A deleted account, or one that was gone already, loses its row. *)
DeleteCommit(p) ==
  /\ pc[p] = "commit" /\ op[p] \in {"delete", "bulkDelete"}
  /\ IF reply[p] = "fail" THEN UNCHANGED ban ELSE DropRow(acct[p])
  /\ Release(p)
  /\ UNCHANGED <<rev, cpaVars, now, queueVars, restoreVars>>

Commit(p) ==
  \/ DisposeCommit(p) \/ RetryUnlock(p) \/ RetryCommit(p) \/ EnableCommit(p)
  \/ Recommit(p) \/ DisableCommit(p) \/ DeleteCommit(p)
  \/ \E code \in Codes : DisableSet(p, code)

(* CPA loses the file of an account nobody here deleted. *)
AccountLost(a) ==
  /\ "gone" \in Faults
  /\ cpa[a] # "gone"
  /\ cpa' = [cpa EXCEPT ![a] = "gone"]
  /\ UNCHANGED <<strayed, poolVars, now, lock, queueVars, pc, threadVars, restoreVars,
                 callRev>>

Tick ==
  /\ now < MaxNow
  /\ now' = now + 1
  /\ UNCHANGED <<poolVars, cpaVars, lock, queueVars, pc, threadVars, restoreVars,
                 callRev>>

Next ==
  \/ \E a \in Accounts :
       \/ \E code \in Codes, w \in 1 .. Window : UsageRecord(a, code, w)
       \/ \E p \in Operators, kind \in AllKinds : OperatorStart(p, kind, a)
       \/ AccountLost(a)
  \/ UsageGet \/ UsageEnqueue \/ UsageRefused
  \/ \E w \in Workers : DisposeTake(w)
  \/ RestorePass \/ ExpireScan \/ ExpireDone
  \/ \E t \in todo : RetryNext(t) \/ ExpireNext(t)
  \/ \E p \in Threads :
       GiveUp(p) \/ Lock(p) \/ CallAnswered(p) \/ CallFailed(p) \/ Commit(p)
  \/ Tick

Spec == Init /\ [][Next]_vars

(* The plugin's goroutines keep running, ticks keep coming and a mutex     *)
(* starves nobody.  A call that is repeated for ever is answered sometimes.*)
(* Operators start nothing they do not want to, and requests need not fail.*)
Fairness ==
  /\ WF_vars(UsageGet) /\ WF_vars(UsageEnqueue) /\ WF_vars(UsageRefused)
  /\ WF_vars(RestorePass) /\ WF_vars(ExpireScan) /\ WF_vars(ExpireDone)
  /\ WF_vars(\E t \in todo : RetryNext(t) \/ ExpireNext(t))
  /\ \A w \in Workers : WF_vars(DisposeTake(w))
  /\ \A p \in Threads :
       /\ WF_vars(GiveUp(p)) /\ SF_vars(Lock(p)) /\ WF_vars(Commit(p))
       /\ WF_vars(CallAnswered(p) \/ CallFailed(p)) /\ SF_vars(CallAnswered(p))

FairSpec == Spec /\ Fairness

-----------------------------------------------------------------------------
Labels == {"idle", "get", "enqueue", "refused", "retry", "expire", "lock",
           "call", "commit", "recall", "recommit", "set", "unlocked"}

(* Every variable has the type the code gives it. *)
TypeOK ==
  /\ ban \in [Accounts -> Row \union {NoRow}]
  /\ rev \in Nat
  /\ cpa \in [Accounts -> {"enabled", "disabled", "gone"}]
  /\ strayed \subseteq Accounts
  /\ now \in Nat
  /\ lock \in [Accounts -> Threads \union {Free}]
  /\ order \in Seq(Accounts)
  /\ pending \in [Accounts -> Nat]
  /\ pc \in [Threads -> Labels]
  /\ op \in [Threads -> AllKinds \union {"none", "dispose"}]
  /\ acct \in [Threads -> Accounts]
  /\ expected \in [Threads -> Nat]
  /\ reply \in [Threads -> {"none", "ok", "fail", "gone"}]
  /\ tick \in Nat
  /\ todo \subseteq [acct : Accounts, rev : Nat]
  /\ callRev \in [Threads -> Nat]

(* The account is nobody's at the moment. *)
Settled(a) ==
  /\ lock[a] = Free
  /\ \A p \in Threads : pc[p] = "unlocked" => acct[p] # a

(* The row and its reason stay together through every merge: a window      *)
(* belongs to a 429 and a manual ban to anything else ("a shorter 429 must *)
(* not rewrite a longer 403 manual window into quota", ban_store.go).      *)
WindowMatchesReason ==
  \A a \in Accounts :
    Present(a) => (ban[a].source = "window" <=> ban[a].code = "exhausted")

(* "Prevents disable/restore/unban races from diverging CPA vs local ban   *)
(* pool" (auth_ops.go): once nobody works on an account, a row the pool    *)
(* believes CPA knows of is one whose account is not enabled, and an       *)
(* account the plugin left disabled has a row, so that the restore loop or *)
(* an operator will find it.  Accounts that strayed are excepted.          *)
PoolAgrees ==
  \A a \in Accounts \ strayed :
    Settled(a) =>
      /\ Present(a) /\ ban[a].synced => cpa[a] # "enabled"
      /\ cpa[a] = "disabled" => Present(a)

(* The two halves without the exception, which do not hold.                *)
SyncedIsDisabled ==
  \A a \in Accounts :
    Settled(a) /\ Present(a) /\ ban[a].synced => cpa[a] # "enabled"

DisabledHasRow ==
  \A a \in Accounts : Settled(a) /\ cpa[a] = "disabled" => Present(a)

Removed(a) == Present(a) /\ ban'[a].rev = 0

(* p's step commits its call. *)
Commits(p) == pc[p] = "commit" /\ pc'[p] # "commit"

(* Compare-and-delete: a ban that was recorded after an enable took effect *)
(* in CPA is not lost with the older one the enable was about.             *)
FreshBanSurvives ==
  [][\A p \in Threads :
       Commits(p) /\ op[p] \in Enables =>
         \A a \in Accounts : Removed(a) => ban[a].rev <= callRev[p]]_vars

(* "Manual bans are never auto-restored": the restore loop removes a       *)
(* manual ban only of an account that CPA no longer has.                   *)
ManualBanStays ==
  [][\A a \in Accounts :
       Removed(a) /\ ban[a].source = "manual_unban"
       /\ (pc'[Restore] # pc[Restore]) => cpa[a] = "gone"]_vars

(* "Re-enables free-usage bans whose reset_at has passed": the restore     *)
(* loop removes a ban of an account CPA still has only when it is over.    *)
OnlyExpiredAreRestored ==
  [][\A a \in Accounts :
       Removed(a) /\ pc'[Restore] # pc[Restore] /\ cpa[a] # "gone"
         => Expired(a, now)]_vars

(* Whatever fails, a ban that CPA has not been told of is told in the end, *)
(* or is no more.                                                          *)
UnsyncedIsTold == \A a \in Accounts : Unsynced(a) ~> ~Unsynced(a)

(* A recoverable ban whose window has passed is removed in the end, unless *)
(* a newer one takes its place.                                            *)
ExpiredIsRestored ==
  \A a \in Accounts :
    (Expired(a, now) /\ ban[a].source = "window") ~> ~Expired(a, now)
=============================================================================
