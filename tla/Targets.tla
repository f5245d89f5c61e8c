------------------------------ MODULE Targets ------------------------------
(***************************************************************************)
(* Which account an operation hits.  A row of the inspection, an auth file *)
(* of CPA and a ban of the pool know an account by some of its auth index, *)
(* file name, display name and email; requests name it by any one of them  *)
(* (apply_lookup.go).  Values may collide: an email logged in twice, a     *)
(* file called like another account's index.  A resolved target is acted   *)
(* on later: files and bans come and go in between, and CPA deletes some   *)
(* of a batch and not others.                                              *)
(*                                                                         *)
(* One deletion or bulk action runs at a time (see module Jobs); a batch   *)
(* is one chunk.                                                           *)
(***************************************************************************)
EXTENDS Integers, FiniteSets

CONSTANTS
  Accounts,       \* 1 .. n: the order of the rows
  Values,         \* what an index, a name or an email can be
  Identities      \* functions from Accounts to [ai, fn, em] that occur

None == 0

ASSUME TargetsAssumption ==
  /\ Accounts \subseteq Nat \ {None} /\ IsFiniteSet(Accounts)
  /\ Values \subseteq Nat \ {None}
  /\ \A w \in Identities : \A a \in Accounts :
       /\ w[a].fn \in Values /\ {w[a].ai, w[a].em} \subseteq Values \union {None}
       /\ \A b \in Accounts \ {a} :
            w[a].fn # w[b].fn /\ (w[a].ai # None => w[a].ai # w[b].ai)

NoJob == [kind |-> "none", snap |-> {}, items |-> {}, wanted |-> {},
          over |-> FALSE, failed |-> {}, left |-> {}]

VARIABLES
  who,            \* the identity of each account; it does not change
  host,           \* the accounts CPA has an auth file of
  rows,           \* the accounts with a row, engine.results
  bans,           \* AuthIDs of the pool
  job,            \* the running operation
  hit             \* history: <<token, account>>s it changed in CPA

vars == <<who, host, rows, bans, job, hit>>

Init ==
  /\ who \in Identities
  /\ host = Accounts /\ rows = Accounts /\ bans = {}
  /\ job = NoJob /\ hit = {}

-----------------------------------------------------------------------------
(* Identities *)

FirstOf(s) == IF \E i \in DOMAIN s : s[i] # None
                THEN s[CHOOSE i \in DOMAIN s :
                         s[i] # None /\ \A j \in 1 .. i - 1 : s[j] = None]
                ELSE None

(* The display name of a row: email, file name or index. *)
NameOf(a) == FirstOf(<<who[a].em, who[a].fn, who[a].ai>>)

(* accountResultMatchesBanToken, hostAuthMatchesBanToken *)
Fields(a) == {who[a].ai, who[a].fn, who[a].em, NameOf(a)} \ {None}

First(S) == CHOOSE a \in S : \A b \in S : a <= b

(* The first row of the first pass that finds one. *)
ByPass(passes) == First(passes[CHOOSE i \in DOMAIN passes :
                                 passes[i] # {} /\ \A j \in 1 .. i - 1 : passes[j] = {}])

(* mutant: file names before auth indexes *)
ResolveTarget_FileFirst(t) ==
  ByPass(<<{r \in rows : who[r].fn = t}, {r \in rows : who[r].ai = t},
           {r \in rows : NameOf(r) = t}, {r \in rows : who[r].em = t}>>)

(* resolveAccountResultByTargetID, for a token some row carries. *)
ResolveTarget(t) ==
  ByPass(<<{r \in rows : who[r].ai = t}, {r \in rows : who[r].fn = t},
           {r \in rows : NameOf(r) = t}, {r \in rows : who[r].em = t}>>)

(* findAuthFromResults, findAuthInHostList: the physical name comes first. *)
FindAuth(S, t) ==
  IF \A r \in S : t \notin Fields(r) THEN None
  ELSE ByPass(<<{r \in S : who[r].fn = t}, {r \in S : who[r].ai = t},
                {r \in S : t \in {NameOf(r), who[r].em}}>>)

(* findAuthFile *)
FindAuthFile(t) == IF FindAuth(rows, t) # None THEN FindAuth(rows, t)
                                               ELSE FindAuth(host, t)

(* lookupAccountResultByFileFirst *)
FileFirst(t) == FindAuth(rows, t)

(* lookupResultForDisable: the row a request for one row means. *)
RowMeant(name, ai) ==
  IF ai # None /\ \E r \in rows : who[r].ai = ai
    THEN CHOOSE r \in rows : who[r].ai = ai
  ELSE IF FileFirst(name) # None THEN FileFirst(name)
  ELSE IF ai # None THEN FileFirst(ai) ELSE None

(* resultMatchesTarget *)
ResultMatches(r, target, t) ==
  \/ t \in Fields(r)
  \/ /\ target # None
     /\ \/ who[r].ai # None /\ who[r].ai = who[target].ai
        \/ who[r].fn = who[target].fn
        \/ NameOf(r) \in {who[target].fn, who[target].em}

(* banAliases *)
BanAliases(target, t) ==
  {t} \union (IF target = None THEN {}
              ELSE {who[target].ai, who[target].fn, who[target].em} \ {None})

(* removeResultLocked *)
RowsWithout(target, t) == {r \in rows : ~ResultMatches(r, target, t)}

(* clearBansMatchingTargetInStore *)
BansWithout(aliases) == bans \ aliases

-----------------------------------------------------------------------------
(* What a deletion job works on: the token it was asked for, the file it   *)
(* names to CPA, the label of its failures, all values it is known by, and *)
(* the alias its local state is cleared by.                                *)
Item(t, file, label, ai, em) ==
  [token |-> t, file |-> file, label |-> label,
   keys |-> {file, label, ai, em} \ {None}, alias |-> FirstOf(<<ai, file>>)]

RowItem(t, r) == Item(t, who[r].fn, NameOf(r), who[r].ai, who[r].em)
(* normalizeBanDeleteItem *)
PoolRowItem(t, r) == Item(t, who[r].fn, NameOf(r), FirstOf(<<who[r].ai, t>>), who[r].em)
HostItem(t, a) == Item(t, who[a].fn, who[a].fn, FirstOf(<<who[a].ai, t>>), who[a].em)
RawItem(t) == Item(t, t, t, t, None)

(* resolveBanDeleteFromResults, resolveBanDeleteFromHostList: who carries  *)
(* the token.                                                              *)
InRows(t) == {r \in rows : t \in Fields(r)}
InHost(t) == {a \in host : t \in Fields(a)}

(* mutant: the first that matches *)
PoolItem_First(t, listed) ==
  IF InRows(t) # {} THEN {PoolRowItem(t, First(InRows(t)))}
  ELSE IF ~listed THEN {}
  ELSE IF InHost(t) # {} THEN {HostItem(t, First(InHost(t)))}
  ELSE {RawItem(t)}

(* buildBanDeleteAccountResults for one AuthID: nothing where more than    *)
(* one row or file carries it, or the list of files could not be had.      *)
PoolItem(t, listed) ==
  IF InRows(t) # {} THEN {PoolRowItem(t, r) : r \in {r \in InRows(t) : InRows(t) = {r}}}
  ELSE IF ~listed THEN {}
  ELSE IF InHost(t) # {} THEN {HostItem(t, a) : a \in {a \in InHost(t) : InHost(t) = {a}}}
  ELSE {RawItem(t)}

(* Items are worked on in the order of their tokens. *)
FirstItem(items) == CHOOSE x \in items : \A y \in items : x.token <= y.token

(* normalizeBanDeleteSelection: by AuthID or by category, never empty. *)
Selections == SUBSET bans \ {{}}

(* ban-delete of selected bans, up to the call of CPA *)
StartPoolDelete ==
  /\ job = NoJob
  /\ \E T \in Selections, listed \in BOOLEAN :
       job' = [NoJob EXCEPT !.kind = "pool", !.snap = rows,
                 !.items = UNION {PoolItem(t, listed) : t \in T}]
  /\ UNCHANGED <<who, host, rows, bans, hit>>

(* The token a scheduled run names a row by.  A row without auth index was *)
(* never probed and is not chosen.                                         *)
TokenOf(r) == FirstOf(<<who[r].ai, who[r].fn, NameOf(r)>>)
Chosen == SUBSET {r \in rows : who[r].ai # None} \ {{}}

(* collectAccountsByTargetIDs *)
Candidates(tokens) == {RowItem(t, ResolveTarget(t)) : t \in tokens}

(* startApply of deletions: collectCandidates, up to the call of CPA. *)
StartBulkDelete ==
  /\ job = NoJob
  /\ \E C \in Chosen :
       job' = [NoJob EXCEPT !.kind = "bulk", !.snap = rows, !.wanted = C,
                 !.items = Candidates({TokenOf(r) : r \in C})]
  /\ UNCHANGED <<who, host, rows, bans, hit>>

(* The same for disabling, and the page's button of one row.               *)
Disabled(kind, C, meant) ==
  /\ job' = [NoJob EXCEPT !.kind = kind, !.snap = rows, !.wanted = C, !.over = TRUE]
  /\ hit' = {<<t, FindAuthFile(who[meant[t]].fn)>> : t \in DOMAIN meant}
  /\ UNCHANGED <<who, host, rows, bans>>

DisableRows ==
  /\ job = NoJob
  /\ \E C \in Chosen :
       Disabled("bulk", C, [t \in {TokenOf(r) : r \in C} |-> ResolveTarget(t)])

DisableRow ==
  /\ job = NoJob
  /\ \E r \in rows :
       Disabled("bulk", {r}, [t \in {who[r].fn} |-> RowMeant(t, who[r].ai)])

(* deleteAuthFile of one row, by its file name or its index. *)
StartDelete ==
  /\ job = NoJob
  /\ \E r \in rows : \E t \in {who[r].fn, who[r].ai} \ {None} :
       job' = [NoJob EXCEPT !.kind = "single", !.snap = rows,
                 !.items = {RowItem(t, FindAuthFile(t))}]
  /\ UNCHANGED <<who, host, rows, bans, hit>>

-----------------------------------------------------------------------------
(* The call of CPA *)

Files == {x.file : x \in job.items}
OnHost(files) == {a \in host : who[a].fn \in files}

(* The item a file name was sent for. *)
SentFor(file) == FirstItem({x \in job.items : x.file = file})

(* The files of gone are deleted, and the call says that failed are not.   *)
Returns(gone, failed) ==
  /\ host' = host \ gone
  /\ hit' = {<<SentFor(who[a].fn).token, a>> : a \in gone}
  /\ job' = [job EXCEPT !.over = TRUE, !.failed = failed, !.left = host \ gone]
  /\ UNCHANGED <<who, rows, bans>>

(* 200 or a 207 that can be read: some could not be deleted. *)
CallAnswers ==
  \E failed \in SUBSET Files : Returns(OnHost(Files \ failed), failed)

(* mutant: what cannot be read is no failure *)
CallFails_Lenient == \E gone \in SUBSET OnHost(Files) : Returns(gone, {})

(* An error, or a 207 that cannot be read: nobody knows, so all failed. *)
CallFails == \E gone \in SUBSET OnHost(Files) : Returns(gone, Files)

(* 404: there is none of them, which counts as deleted.  That CPA does not *)
(* say so while it has one of the files is assumed.                        *)
CallFindsNothing == OnHost(Files) = {} /\ Returns({}, {})

DeleteCall ==
  /\ job.kind # "none" /\ ~job.over
  /\ CallAnswers \/ CallFails \/ CallFindsNothing

-----------------------------------------------------------------------------
(* banDeleteItemFailureMessages: a failure carries the label of the item   *)
(* its file was sent for; it counts against the file of the first item     *)
(* that is known by this label, and against all items known by that.       *)
ItemFails(x) ==
  LET labels == {SentFor(file).label : file \in job.failed}
      against(label) == FirstItem({y \in job.items : label \in y.keys}).file
  IN \E label \in labels : against(label) \in x.keys

(* The items that count as deleted. *)
Deleted ==
  {x \in job.items :
     IF job.kind = "pool" THEN ~ItemFails(x) ELSE x.file \notin job.failed}

(* clearOneDeletedAuthLocal for each of them *)
ClearBatch ==
  LET aliases == {x.alias : x \in Deleted}
      files == {x.file : x \in Deleted}
  IN /\ job.kind \in {"pool", "bulk"} /\ job.over
     /\ rows' = {r \in rows : Fields(r) \intersect aliases = {}}
     /\ bans' = BansWithout(aliases \union files)

(* The end of deleteAuthFile *)
ClearSingle ==
  /\ job.kind = "single" /\ job.over
  /\ \E item \in job.items :
       LET target == FindAuth(job.snap, item.token)
       IN IF Deleted = {} THEN UNCHANGED <<rows, bans>>
          ELSE /\ rows' = RowsWithout(target, item.token)
               /\ bans' = BansWithout(BanAliases(target, item.token))

ClearLocal ==
  /\ ClearBatch \/ ClearSingle
  /\ job' = NoJob /\ hit' = {}
  /\ UNCHANGED <<who, host>>

-----------------------------------------------------------------------------
(* Meanwhile *)

(* A full inspection; it waits for the job. *)
Inspect ==
  /\ job = NoJob /\ rows' = host
  /\ UNCHANGED <<who, host, bans, job, hit>>

(* The usage callback bans an account by its file. *)
Ban ==
  /\ \E a \in host : bans' = bans \union {who[a].fn}
  /\ UNCHANGED <<who, host, rows, job, hit>>

(* Somebody else adds or removes an auth file. *)
HostChanges ==
  /\ \E a \in Accounts :
       host' = IF a \in host THEN host \ {a} ELSE host \union {a}
  /\ UNCHANGED <<who, rows, bans, job, hit>>

Start == StartPoolDelete \/ StartBulkDelete \/ DisableRows \/ DisableRow \/ StartDelete
Next == Start \/ DeleteCall \/ ClearLocal \/ Inspect \/ Ban \/ HostChanges

Spec == Init /\ [][Next]_vars

-----------------------------------------------------------------------------
(* No two accounts share a value. *)
Unshared == \A a, b \in Accounts : a # b => Fields(a) \intersect Fields(b) = {}

(* "Resolution is fail-safe against cross-field identity collisions"       *)
(* (ban_delete_job.go:312): however values collide and whatever happens    *)
(* before CPA is called, a ban-delete hits only the account that carries   *)
(* the AuthID, and only if no other row carries it as well.                *)
NeverGuesses ==
  job.kind = "pool" =>
    \A h \in hit : /\ h[1] \in Fields(h[2])
                   /\ \A r \in job.snap \ {h[2]} : h[1] \notin Fields(r)

(* A bulk action of a scheduled run hits none but the rows that were       *)
(* chosen, "a scheduled AuthIndex" never "another row whose FileName, Name *)
(* or Email collides with that same token" (apply_lookup.go:117).          *)
OnlyChosenRows ==
  job.kind = "bulk" => \A h \in hit : h[2] \in job.wanted

(* An account that CPA still has after the deletion keeps its row and its  *)
(* ban, whatever failed and whatever happened meanwhile, unless it shares  *)
(* a value with another account.                                           *)
SurvivorsKeepState ==
  [][ClearLocal /\ Unshared =>
       \A a \in job.left : /\ a \in rows => a \in rows'
                           /\ who[a].fn \in bans => who[a].fn \in bans']_vars

(* ban_delete_job.go:208: "unmapped CPA errors can never be counted as     *)
(* deleted success", of any accounts.                                      *)
FailuresCount ==
  job.kind = "pool" /\ job.over =>
    \A x \in Deleted : x.file \notin job.failed
=============================================================================
