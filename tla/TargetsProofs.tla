---------------------------- MODULE TargetsProofs ----------------------------
(***************************************************************************)
(* Proofs about which account an operation hits, for any accounts and any  *)
(* values they are known by.                                               *)
(***************************************************************************)
EXTENDS Targets, WellFoundedInduction, TLAPS

-----------------------------------------------------------------------------
(* Identities                                                              *)

(* A set of naturals that is not empty has a least one. *)
LEMMA Least ==
  ASSUME NEW T \in SUBSET Nat, T # {}
  PROVE  \E x \in T : \A y \in T : x <= y
<1>1. IsWellFoundedOn(OpToRel(<, Nat), Nat)
  BY NatLessThanWellFounded
<1>2. PICK x \in T : \A y \in T : ~(<<y, x>> \in OpToRel(<, Nat))
  BY <1>1, WFMin
<1>3. \A y \in T : ~(y < x)
  BY <1>2 DEF OpToRel
<1> QED
  BY <1>3

(* The first of some accounts is one of them. *)
LEMMA FirstIn ==
  ASSUME NEW S \in SUBSET Accounts, S # {}
  PROVE  First(S) \in S
<1>1. \E a \in S : \A b \in S : a <= b
  BY Least, TargetsAssumption
<1> QED
  BY <1>1 DEF First

(* So is the first of some items. *)
LEMMA FirstItemIn ==
  ASSUME NEW S, S # {}, \A x \in S : x.token \in Nat
  PROVE  FirstItem(S) \in S
<1> DEFINE T == {x.token : x \in S}
<1>1. T \in SUBSET Nat /\ T # {}
  OBVIOUS
<1>2. PICK n \in T : \A m \in T : n <= m
  BY <1>1, Least
<1>3. \E x \in S : \A y \in S : x.token <= y.token
  BY <1>2
<1> QED
  BY <1>3 DEF FirstItem

(* The first name of three that is not missing. *)
LEMMA FirstOfThree ==
  ASSUME NEW a, NEW b, NEW c
  PROVE  FirstOf(<<a, b, c>>) = IF a # None THEN a
                                ELSE IF b # None THEN b
                                ELSE IF c # None THEN c ELSE None
<1> DEFINE s == <<a, b, c>>
           P(i) == s[i] # None /\ \A j \in 1 .. i - 1 : s[j] = None
<1>1. DOMAIN s = 1 .. 3 /\ s[1] = a /\ s[2] = b /\ s[3] = c
  OBVIOUS
<1> HIDE DEF s
<1>2. CASE a # None
  <2>1. P(1) /\ \A i \in 1 .. 3 : P(i) => i = 1
    BY <1>1, <1>2
  <2> QED
    BY <1>1, <1>2, <2>1 DEF FirstOf, s
<1>3. CASE a = None /\ b # None
  <2>1. P(2) /\ \A i \in 1 .. 3 : P(i) => i = 2
    BY <1>1, <1>3
  <2> QED
    BY <1>1, <1>3, <2>1 DEF FirstOf, s
<1>4. CASE a = None /\ b = None /\ c # None
  <2>1. P(3) /\ \A i \in 1 .. 3 : P(i) => i = 3
    BY <1>1, <1>4
  <2> QED
    BY <1>1, <1>4, <2>1 DEF FirstOf, s
<1>5. CASE a = None /\ b = None /\ c = None
  BY <1>1, <1>5 DEF FirstOf, s
<1> QED
  BY <1>2, <1>3, <1>4, <1>5

(* The first name of two. *)
LEMMA FirstOfTwo ==
  ASSUME NEW a, NEW b
  PROVE  FirstOf(<<a, b>>) = IF a # None THEN a ELSE IF b # None THEN b ELSE None
<1> DEFINE s == <<a, b>>
           P(i) == s[i] # None /\ \A j \in 1 .. i - 1 : s[j] = None
<1>1. DOMAIN s = 1 .. 2 /\ s[1] = a /\ s[2] = b
  OBVIOUS
<1> HIDE DEF s
<1>2. CASE a # None
  <2>1. P(1) /\ \A i \in 1 .. 2 : P(i) => i = 1
    BY <1>1, <1>2
  <2> QED
    BY <1>1, <1>2, <2>1 DEF FirstOf, s
<1>3. CASE a = None /\ b # None
  <2>1. P(2) /\ \A i \in 1 .. 2 : P(i) => i = 2
    BY <1>1, <1>3
  <2> QED
    BY <1>1, <1>3, <2>1 DEF FirstOf, s
<1>4. CASE a = None /\ b = None
  BY <1>1, <1>4 DEF FirstOf, s
<1> QED
  BY <1>2, <1>3, <1>4

(* Identities are as the code keeps them: every account has a file of its  *)
(* own, and two do not have the same index.                                *)
IdentityInv == who \in Identities

(* What is known of the identity of an account. *)
LEMMA Known ==
  ASSUME IdentityInv, NEW a \in Accounts
  PROVE  /\ who[a].fn \in Nat /\ who[a].fn # None
         /\ who[a].ai \in Nat /\ who[a].em \in Nat
         /\ \A b \in Accounts : who[a].fn = who[b].fn => a = b
         /\ \A b \in Accounts : who[a].ai # None /\ who[a].ai = who[b].ai => a = b
         /\ a # None /\ None \in Nat
<1>1. \A c \in Accounts :
        /\ who[c].fn \in Values /\ {who[c].ai, who[c].em} \subseteq Values \union {None}
        /\ \A b \in Accounts \ {c} :
             who[c].fn # who[b].fn /\ (who[c].ai # None => who[c].ai # who[b].ai)
  BY TargetsAssumption, Zenon DEF IdentityInv
<1>2. Values \subseteq Nat \ {None} /\ Accounts \subseteq Nat \ {None} /\ None \in Nat
  BY TargetsAssumption DEF None
<1>3. who[a].fn \in Values /\ who[a].ai \in Values \union {None}
        /\ who[a].em \in Values \union {None}
  BY <1>1
<1>4. \A b \in Accounts : who[a].fn = who[b].fn => a = b
  BY <1>1
<1>5. \A b \in Accounts : who[a].ai # None /\ who[a].ai = who[b].ai => a = b
  BY <1>1
<1> QED
  BY <1>2, <1>3, <1>4, <1>5

(* The fields of an account: its display name is one of the others. *)
LEMMA FieldsAre ==
  ASSUME IdentityInv, NEW a \in Accounts
  PROVE  /\ Fields(a) = {who[a].ai, who[a].fn, who[a].em} \ {None}
         /\ NameOf(a) \in Fields(a)
         /\ who[a].fn \in Fields(a)
         /\ Fields(a) \subseteq Nat
<1>1. NameOf(a) = IF who[a].em # None THEN who[a].em ELSE who[a].fn
  BY FirstOfThree, Known DEF NameOf
<1> QED
  BY <1>1, Known DEF Fields

(* Of three passes the first that finds an account decides. *)
LEMMA ThreePasses ==
  ASSUME NEW A \in SUBSET Accounts, NEW B \in SUBSET Accounts, NEW C \in SUBSET Accounts,
         A \union B \union C # {}
  PROVE  /\ ByPass(<<A, B, C>>) \in A \union B \union C
         /\ A # {} => ByPass(<<A, B, C>>) = First(A)
<1> DEFINE s == <<A, B, C>>
           P(i) == s[i] # {} /\ \A j \in 1 .. i - 1 : s[j] = {}
<1>1. DOMAIN s = 1 .. 3 /\ s[1] = A /\ s[2] = B /\ s[3] = C
  OBVIOUS
<1> HIDE DEF s
<1>2. \E i \in 1 .. 3 : P(i)
  <2>1. CASE A # {}
    BY <1>1, <2>1
  <2>2. CASE A = {} /\ B # {}
    BY <1>1, <2>2
  <2>3. CASE A = {} /\ B = {}
    BY <1>1, <2>3
  <2> QED
    BY <2>1, <2>2, <2>3
<1> DEFINE first == CHOOSE i \in DOMAIN s : P(i)
<1>3. first \in 1 .. 3 /\ P(first)
  BY <1>1, <1>2
<1>4. ByPass(s) = First(s[first])
  BY DEF ByPass
<1>5. First(s[first]) \in s[first]
  BY <1>1, <1>3, FirstIn
<1>6. A # {} => first = 1
  BY <1>1, <1>3
<1> QED
  BY <1>1, <1>3, <1>4, <1>5, <1>6 DEF s

(* Of four passes the first decides if it finds an account. *)
LEMMA FourPasses ==
  ASSUME NEW A, NEW B, NEW C, NEW D, A # {}
  PROVE  ByPass(<<A, B, C, D>>) = First(A)
<1> DEFINE s == <<A, B, C, D>>
           P(i) == s[i] # {} /\ \A j \in 1 .. i - 1 : s[j] = {}
<1>1. DOMAIN s = 1 .. 4 /\ s[1] = A
  OBVIOUS
<1> HIDE DEF s
<1>2. P(1) /\ \A i \in 1 .. 4 : P(i) => i = 1
  BY <1>1
<1> QED
  BY <1>1, <1>2 DEF ByPass, s

(* An auth file is found by a token it carries, if there is one, and by    *)
(* its own name before any other.                                          *)
LEMMA FindAuthFinds ==
  ASSUME IdentityInv, NEW S \in SUBSET Accounts, NEW t
  PROVE  /\ \/ FindAuth(S, t) \in S /\ t \in Fields(FindAuth(S, t))
            \/ FindAuth(S, t) = None /\ \A r \in S : t \notin Fields(r)
         /\ \A r \in S : who[r].fn = t => FindAuth(S, t) = r
<1>1. CASE \A r \in S : t \notin Fields(r)
  BY <1>1, FieldsAre DEF FindAuth
<1>2. CASE ~\A r \in S : t \notin Fields(r)
  <2> DEFINE A == {r \in S : who[r].fn = t}
             B == {r \in S : who[r].ai = t}
             C == {r \in S : t \in {NameOf(r), who[r].em}}
  <2>1. FindAuth(S, t) = ByPass(<<A, B, C>>)
    BY <1>2 DEF FindAuth
  <2>2. t # None /\ A \union B \union C # {}
    BY <1>2 DEF Fields
  <2>3. \A r \in A \union B \union C : r \in S /\ t \in Fields(r)
    BY <2>2 DEF Fields
  <2>4. \A r \in A : A = {r}
    BY Known
  <2>5. A # {} => First(A) \in A
    BY FirstIn
  <2>6. /\ ByPass(<<A, B, C>>) \in A \union B \union C
        /\ A # {} => ByPass(<<A, B, C>>) = First(A)
    <3>1. A \in SUBSET Accounts /\ B \in SUBSET Accounts /\ C \in SUBSET Accounts
      OBVIOUS
    <3> HIDE DEF A, B, C
    <3> QED
      BY <2>2, <3>1, ThreePasses
  <2>7. \A r \in S : who[r].fn = t => r \in A
    OBVIOUS
  <2> HIDE DEF A, B, C
  <2> QED
    BY <2>1, <2>3, <2>4, <2>5, <2>6, <2>7
<1> QED
  BY <1>1, <1>2

(* A row is found by its index before any row is by another field. *)
LEMMA ResolveTargetFinds ==
  ASSUME IdentityInv, rows \subseteq Accounts, NEW r \in rows, who[r].ai # None
  PROVE  ResolveTarget(who[r].ai) = r
<1> DEFINE t == who[r].ai
           A == {q \in rows : who[q].ai = t}
<1>1. A = {r}
  BY Known
<1>2. ResolveTarget(t) = First(A)
  <2>1. A # {}
    BY <1>1
  <2> QED
    BY <2>1, FourPasses DEF ResolveTarget
<1>3. First(A) \in A
  BY <1>1, FirstIn
<1> QED
  BY <1>1, <1>2, <1>3

(* A request for one row means that row, by its name and index. *)
LEMMA RowMeantIs ==
  ASSUME IdentityInv, rows \subseteq Accounts, NEW r \in rows
  PROVE  RowMeant(who[r].fn, who[r].ai) = r
<1>1. CASE who[r].ai # None
  <2>1. \A q \in rows : who[q].ai = who[r].ai <=> q = r
    BY <1>1, Known
  <2> QED
    BY <1>1, <2>1 DEF RowMeant
<1>2. CASE who[r].ai = None
  <2>1. FileFirst(who[r].fn) = r
    BY FindAuthFinds DEF FileFirst
  <2>2. r # None
    BY Known
  <2> QED
    BY <1>2, <2>1, <2>2 DEF RowMeant
<1> QED
  BY <1>1, <1>2

-----------------------------------------------------------------------------
(* The invariant                                                           *)

(* The item x of a job stands for the account c: it names c's file, and    *)
(* all it is known by are fields of c.                                     *)
ItemOf(x, c) ==
  /\ x.file = who[c].fn /\ x.token \in Fields(c) /\ x.alias \in Fields(c)
  /\ x.keys \subseteq Fields(c)
  /\ x.label \in x.keys /\ x.file \in x.keys

TypeInv ==
  /\ IdentityInv
  /\ host \subseteq Accounts /\ rows \subseteq Accounts
  /\ \A b \in bans : \E a \in Accounts : b = who[a].fn

(* Every item stands for an account; no row that was there when a          *)
(* ban-delete began has the token of an item unless it is the item's; a    *)
(* bulk action has items of chosen rows only.                              *)
ItemsInv ==
  /\ DOMAIN job = DOMAIN NoJob
  /\ job.kind \in {"none", "pool", "bulk", "single"}
  /\ job.snap \subseteq Accounts /\ job.wanted \subseteq Accounts
  /\ \A x \in job.items : \E c \in Accounts : ItemOf(x, c)
  /\ job.kind = "pool" =>
       \A x \in job.items : \A r \in job.snap :
         x.token \in Fields(r) => x.file = who[r].fn
  /\ job.kind = "bulk" =>
       \A x \in job.items : \E c \in job.wanted : x.file = who[c].fn
  /\ job.kind = "single" => \A x, y \in job.items : x = y

(* What the call did is known when it is over, and of the accounts that    *)
(* are left those the job was about are among its failures.                *)
CallInv ==
  /\ ~job.over => hit = {} /\ job.left = {}
  /\ job.kind = "none" => ~job.over
  /\ job.left \subseteq Accounts
  /\ \A a \in job.left : who[a].fn \in Files => who[a].fn \in job.failed
  /\ NeverGuesses /\ OnlyChosenRows

TargetsInv == TypeInv /\ ItemsInv /\ CallInv

(* Nobody changes an identity, so what an item stands for does not change. *)
LEMMA SameIdentity ==
  ASSUME who' = who
  PROVE  /\ IdentityInv' <=> IdentityInv
         /\ \A c : Fields(c)' = Fields(c)
         /\ \A x, c : ItemOf(x, c)' <=> ItemOf(x, c)
<1>1. \A c : Fields(c)' = Fields(c)
  BY DEF Fields, NameOf
<1>2. \A x, c : ItemOf(x, c)' <=> ItemOf(x, c)
  BY <1>1 DEF ItemOf
<1> QED
  BY <1>1, <1>2 DEF IdentityInv

(* An item of a row or a file stands for its account if its token is one   *)
(* of the account's fields, and so does one that is only a file name.      *)
LEMMA ItemsStandFor ==
  ASSUME IdentityInv, NEW c \in Accounts, NEW t \in Fields(c)
  PROVE  /\ ItemOf(RowItem(t, c), c)
         /\ ItemOf(PoolRowItem(t, c), c)
         /\ ItemOf(HostItem(t, c), c)
         /\ t = who[c].fn => ItemOf(RawItem(t), c)
<1>1. /\ NameOf(c) \in Fields(c) /\ who[c].fn \in Fields(c)
      /\ who[c].ai # None => who[c].ai \in Fields(c)
      /\ who[c].em # None => who[c].em \in Fields(c)
      /\ t # None /\ who[c].fn # None /\ NameOf(c) # None
  BY FieldsAre, Known DEF Fields
<1>2. ASSUME NEW label \in Fields(c), NEW ai, NEW em,
             ai # None => ai \in Fields(c), em # None => em \in Fields(c)
      PROVE  ItemOf(Item(t, who[c].fn, label, ai, em), c)
  <2> DEFINE x == Item(t, who[c].fn, label, ai, em)
  <2>1. x.token = t /\ x.file = who[c].fn /\ x.label = label
    BY DEF Item
  <2>2. x.keys = {who[c].fn, label, ai, em} \ {None}
    BY DEF Item
  <2>3. x.alias = IF ai # None THEN ai ELSE IF who[c].fn # None THEN who[c].fn ELSE None
    BY FirstOfTwo DEF Item
  <2>4. label # None
    BY DEF Fields
  <2> HIDE DEF x
  <2>5. x.keys \subseteq Fields(c)
    BY <1>1, <1>2, <2>2
  <2>6. x.alias \in Fields(c)
    BY <1>1, <1>2, <2>3
  <2>7. x.label \in x.keys /\ x.file \in x.keys
    BY <1>1, <2>1, <2>2, <2>4
  <2>8. ItemOf(x, c)
    BY <2>1, <2>5, <2>6, <2>7 DEF ItemOf
  <2> QED
    BY <2>8 DEF x
<1>3. ItemOf(RowItem(t, c), c)
  BY <1>1, <1>2 DEF RowItem
<1>4. FirstOf(<<who[c].ai, t>>) \in Fields(c)
  BY <1>1, FirstOfTwo
<1>5. ItemOf(PoolRowItem(t, c), c)
  BY <1>1, <1>2, <1>4 DEF PoolRowItem
<1>6. ItemOf(HostItem(t, c), c)
  BY <1>1, <1>2, <1>4 DEF HostItem
<1>7. ASSUME t = who[c].fn PROVE ItemOf(RawItem(t), c)
  <2>1. ItemOf(Item(t, who[c].fn, t, t, None), c)
    BY <1>1, <1>2
  <2> QED
    BY <1>7, <2>1 DEF RawItem
<1> QED
  BY <1>3, <1>5, <1>6, <1>7

(* An item stands for one account only. *)
LEMMA OneAccount ==
  ASSUME IdentityInv, NEW x, NEW c \in Accounts, ItemOf(x, c),
         NEW a \in Accounts, x.file = who[a].fn
  PROVE  ItemOf(x, a)
<1>1. a = c
  BY Known DEF ItemOf
<1> QED
  BY <1>1

(* The item a file was sent for is one of those with this file. *)
LEMMA SentForIt ==
  ASSUME IdentityInv, ItemsInv, NEW a \in Accounts, who[a].fn \in Files
  PROVE  /\ SentFor(who[a].fn) \in job.items
         /\ SentFor(who[a].fn).file = who[a].fn
         /\ ItemOf(SentFor(who[a].fn), a)
<1> DEFINE S == {x \in job.items : x.file = who[a].fn}
<1>1. S # {}
  BY DEF Files
<1>2. \A x \in S : ItemOf(x, a)
  BY OneAccount DEF ItemsInv
<1>3. \A x \in S : x.token \in Nat
  BY <1>2, FieldsAre DEF ItemOf
<1>4. FirstItem(S) \in S
  BY <1>1, <1>3, FirstItemIn
<1>5. SentFor(who[a].fn) = FirstItem(S)
  BY DEF SentFor
<1> QED
  BY <1>2, <1>4, <1>5

(* An item of a ban-delete stands for one account, and only a row that has *)
(* its file carries its token.                                             *)
LEMMA PoolItemIs ==
  ASSUME TypeInv, NEW t \in bans, NEW listed \in BOOLEAN, NEW x \in PoolItem(t, listed)
  PROVE  /\ \E c \in Accounts : ItemOf(x, c)
         /\ \A r \in rows : x.token \in Fields(r) => x.file = who[r].fn
<1> USE DEF TypeInv
<1>0. /\ \A r : PoolRowItem(t, r).token = t /\ HostItem(t, r).token = t
      /\ RawItem(t).token = t
  BY DEF PoolRowItem, HostItem, RawItem, Item
<1>1. CASE InRows(t) # {}
  <2>1. PICK r \in InRows(t) : InRows(t) = {r} /\ x = PoolRowItem(t, r)
    BY <1>1 DEF PoolItem
  <2>2. r \in Accounts /\ t \in Fields(r)
    BY <2>1 DEF InRows
  <2>3. ItemOf(x, r)
    BY <2>1, <2>2, ItemsStandFor
  <2>4. \A q \in rows : t \in Fields(q) => q = r
    BY <2>1 DEF InRows
  <2> QED
    BY <1>0, <2>1, <2>2, <2>3, <2>4 DEF ItemOf
<1>2. CASE InRows(t) = {} /\ InHost(t) # {}
  <2>1. PICK a \in InHost(t) : x = HostItem(t, a)
    BY <1>2 DEF PoolItem
  <2>2. a \in Accounts /\ t \in Fields(a)
    BY <2>1 DEF InHost
  <2>3. ItemOf(x, a)
    BY <2>1, <2>2, ItemsStandFor
  <2> QED
    BY <1>0, <1>2, <2>1, <2>2, <2>3 DEF InRows
<1>3. CASE InRows(t) = {} /\ InHost(t) = {}
  <2>1. x = RawItem(t)
    BY <1>3 DEF PoolItem
  <2>2. PICK a \in Accounts : t = who[a].fn
    OBVIOUS
  <2>3. ItemOf(x, a)
    BY <2>1, <2>2, ItemsStandFor, FieldsAre
  <2> QED
    BY <1>0, <1>3, <2>1, <2>3 DEF InRows
<1> QED
  BY <1>1, <1>2, <1>3

(* A bulk action names every chosen row by its index, which finds it.      *)
LEMMA ChosenRow ==
  ASSUME TypeInv, NEW C \in Chosen, NEW r \in C
  PROVE  r \in rows /\ TokenOf(r) = who[r].ai /\ ResolveTarget(TokenOf(r)) = r
<1>1. r \in rows /\ who[r].ai # None
  BY DEF Chosen
<1>2. TokenOf(r) = who[r].ai
  BY <1>1, FirstOfThree DEF TokenOf
<1> QED
  BY <1>1, <1>2, ResolveTargetFinds DEF TypeInv

(* So its items are the items of the chosen rows. *)
LEMMA CandidatesAre ==
  ASSUME TypeInv, NEW C \in Chosen, NEW x \in Candidates({TokenOf(r) : r \in C})
  PROVE  \E r \in C : r \in Accounts /\ ItemOf(x, r)
<1>1. PICK r \in C : x = RowItem(TokenOf(r), ResolveTarget(TokenOf(r)))
  BY DEF Candidates
<1>2. x = RowItem(who[r].ai, r) /\ r \in Accounts /\ who[r].ai # None
  BY <1>1, ChosenRow DEF TypeInv, Chosen
<1>3. who[r].ai \in Fields(r)
  BY <1>2 DEF Fields
<1> QED
  BY <1>2, <1>3, ItemsStandFor DEF TypeInv

(* An item of one row stands for the account its token finds. *)
LEMMA SingleItemIs ==
  ASSUME TypeInv, NEW r \in rows, NEW t \in {who[r].fn, who[r].ai} \ {None}
  PROVE  \E c \in Accounts : ItemOf(RowItem(t, FindAuthFile(t)), c)
<1>1. t \in Fields(r)
  BY DEF Fields
<1>2. FindAuth(rows, t) \in rows /\ t \in Fields(FindAuth(rows, t))
  BY <1>1, FindAuthFinds DEF TypeInv
<1>3. FindAuthFile(t) = FindAuth(rows, t)
  BY <1>2, Known DEF FindAuthFile, TypeInv
<1> QED
  BY <1>2, <1>3, ItemsStandFor DEF TypeInv

(* A row that is to be disabled is found by its file name. *)
LEMMA FileOfRow ==
  ASSUME TypeInv, NEW r \in rows
  PROVE  FindAuthFile(who[r].fn) = r
<1>1. FindAuth(rows, who[r].fn) = r
  BY FindAuthFinds DEF TypeInv
<1> QED
  BY <1>1, Known DEF FindAuthFile, TypeInv

-----------------------------------------------------------------------------
(* Every step keeps it                                                     *)

(* At first every account has a file and a row, and nothing runs. *)
LEMMA TargetsInit == Init => TargetsInv
<1> SUFFICES ASSUME Init PROVE TargetsInv
  OBVIOUS
<1>1. TypeInv
  BY DEF Init, TypeInv, IdentityInv
<1>2. ItemsInv
  BY DEF Init, ItemsInv, NoJob
<1>3. CallInv
  BY DEF Init, CallInv, NoJob, NeverGuesses, OnlyChosenRows
<1> QED
  BY <1>1, <1>2, <1>3 DEF TargetsInv

(* No step changes an identity. *)
LEMMA WhoStays == ASSUME [Next]_vars PROVE who' = who
<1>1. CASE Start
  BY <1>1 DEF Start, StartPoolDelete, StartBulkDelete, DisableRows, DisableRow,
              StartDelete, Disabled
<1>2. CASE DeleteCall
  BY <1>2 DEF DeleteCall, CallAnswers, CallFails, CallFindsNothing, Returns
<1>3. CASE ClearLocal \/ Inspect \/ Ban \/ HostChanges \/ UNCHANGED vars
  BY <1>3 DEF ClearLocal, Inspect, Ban, HostChanges, vars
<1> QED
  BY <1>1, <1>2, <1>3 DEF Next

(* What the call of CPA does to the state. *)
LEMMA CallDoes ==
  ASSUME DeleteCall
  PROVE  \E gone \in SUBSET host, failed \in SUBSET Files :
           /\ Returns(gone, failed)
           /\ gone \subseteq OnHost(Files)
           /\ \A a \in host \ gone : who[a].fn \in Files => who[a].fn \in failed
<1>1. CASE CallAnswers
  <2>1. PICK failed \in SUBSET Files : Returns(OnHost(Files \ failed), failed)
    BY <1>1 DEF CallAnswers
  <2> QED
    BY <2>1 DEF OnHost
<1>2. CASE CallFails
  <2>1. PICK gone \in SUBSET OnHost(Files) : Returns(gone, Files)
    BY <1>2 DEF CallFails
  <2> QED
    BY <2>1 DEF OnHost
<1>3. CASE CallFindsNothing
  BY <1>3 DEF CallFindsNothing, OnHost
<1> QED
  BY <1>1, <1>2, <1>3 DEF DeleteCall

(* Accounts stay accounts, and bans stay file names. *)
LEMMA TypeStep ==
  ASSUME TypeInv, [Next]_vars
  PROVE  TypeInv'
<1>0. who' = who /\ IdentityInv'
  BY WhoStays, SameIdentity DEF TypeInv
<1> USE DEF TypeInv
<1>1. CASE Start
  BY <1>0, <1>1 DEF Start, StartPoolDelete, StartBulkDelete, DisableRows, DisableRow,
                    StartDelete, Disabled
<1>2. CASE DeleteCall
  BY <1>0, <1>2, CallDoes DEF Returns
<1>3. CASE ClearLocal
  <2>1. rows' \subseteq rows /\ bans' \subseteq bans
    BY <1>3 DEF ClearLocal, ClearBatch, ClearSingle, RowsWithout, BansWithout
  <2> QED
    BY <1>0, <1>3, <2>1 DEF ClearLocal
<1>4. CASE Inspect
  BY <1>0, <1>4 DEF Inspect
<1>5. CASE Ban
  BY <1>0, <1>5 DEF Ban
<1>6. CASE HostChanges
  BY <1>0, <1>6 DEF HostChanges
<1>7. CASE UNCHANGED vars
  BY <1>0, <1>7 DEF vars
<1> QED
  BY <1>1, <1>2, <1>3, <1>4, <1>5, <1>6, <1>7 DEF Next

(* A new ban-delete has items of its bans only. *)
LEMMA PoolItemsStep ==
  ASSUME TypeInv, StartPoolDelete
  PROVE  ItemsInv'
<1>1. PICK T \in Selections, listed \in BOOLEAN :
        job' = [NoJob EXCEPT !.kind = "pool", !.snap = rows,
                  !.items = UNION {PoolItem(t, listed) : t \in T}]
  BY DEF StartPoolDelete
<1>2. /\ job'.kind = "pool" /\ job'.snap = rows /\ job'.wanted = {}
      /\ job'.items = UNION {PoolItem(t, listed) : t \in T}
      /\ DOMAIN job' = DOMAIN NoJob
  BY <1>1 DEF NoJob
<1>3. who' = who
  BY DEF StartPoolDelete
<1>4. ASSUME NEW x \in job'.items
      PROVE  /\ \E c \in Accounts : ItemOf(x, c)
             /\ \A r \in rows : x.token \in Fields(r) => x.file = who[r].fn
  <2>1. PICK t \in T : x \in PoolItem(t, listed)
    BY <1>2
  <2>2. t \in bans
    BY DEF Selections
  <2> QED
    BY <2>1, <2>2, PoolItemIs
<1> QED
  BY <1>2, <1>3, <1>4, SameIdentity DEF ItemsInv, TypeInv

(* A new bulk action has items of the chosen rows only. *)
LEMMA BulkItemsStep ==
  ASSUME TypeInv, StartBulkDelete
  PROVE  ItemsInv'
<1>1. PICK C \in Chosen :
        job' = [NoJob EXCEPT !.kind = "bulk", !.snap = rows, !.wanted = C,
                  !.items = Candidates({TokenOf(r) : r \in C})]
  BY DEF StartBulkDelete
<1>2. /\ job'.kind = "bulk" /\ job'.snap = rows /\ job'.wanted = C
      /\ job'.items = Candidates({TokenOf(r) : r \in C})
      /\ DOMAIN job' = DOMAIN NoJob
  BY <1>1 DEF NoJob
<1>3. who' = who
  BY DEF StartBulkDelete
<1>4. C \subseteq Accounts
  BY DEF Chosen, TypeInv
<1>5. ASSUME NEW x \in job'.items
      PROVE  /\ \E c \in Accounts : ItemOf(x, c)
             /\ \E c \in C : x.file = who[c].fn
  BY <1>2, CandidatesAre DEF ItemOf
<1> QED
  BY <1>2, <1>3, <1>4, <1>5, SameIdentity DEF ItemsInv, TypeInv

(* Disabling has no items. *)
LEMMA NoItemsStep ==
  ASSUME TypeInv, DisableRows \/ DisableRow
  PROVE  ItemsInv'
<1>1. PICK C \in SUBSET rows :
        job' = [NoJob EXCEPT !.kind = "bulk", !.snap = rows, !.wanted = C, !.over = TRUE]
  BY DEF DisableRows, DisableRow, Disabled, Chosen
<1>2. /\ job'.kind = "bulk" /\ job'.snap = rows /\ job'.wanted = C /\ job'.items = {}
      /\ DOMAIN job' = DOMAIN NoJob
  BY <1>1 DEF NoJob
<1> QED
  BY <1>2 DEF ItemsInv, TypeInv

(* A deletion of one row has one item. *)
LEMMA SingleItemsStep ==
  ASSUME TypeInv, StartDelete
  PROVE  ItemsInv'
<1>0. PICK r \in rows : \E t \in {who[r].fn, who[r].ai} \ {None} :
        job' = [NoJob EXCEPT !.kind = "single", !.snap = rows,
                  !.items = {RowItem(t, FindAuthFile(t))}]
  BY DEF StartDelete
<1>1. PICK t \in {who[r].fn, who[r].ai} \ {None} :
        job' = [NoJob EXCEPT !.kind = "single", !.snap = rows,
                  !.items = {RowItem(t, FindAuthFile(t))}]
  BY <1>0
<1>2. /\ job'.kind = "single" /\ job'.snap = rows /\ job'.wanted = {}
      /\ job'.items = {RowItem(t, FindAuthFile(t))}
      /\ DOMAIN job' = DOMAIN NoJob
  BY <1>1 DEF NoJob
<1>3. who' = who
  BY DEF StartDelete
<1>4. \E c \in Accounts : ItemOf(RowItem(t, FindAuthFile(t)), c)
  BY SingleItemIs
<1> QED
  BY <1>2, <1>3, <1>4, SameIdentity DEF ItemsInv, TypeInv

(* While a job runs its items stay what they are, and it ends with none. *)
LEMMA ItemsStep ==
  ASSUME TypeInv, ItemsInv, [Next]_vars
  PROVE  ItemsInv'
<1>1. CASE Start
  BY <1>1, PoolItemsStep, BulkItemsStep, NoItemsStep, SingleItemsStep DEF Start
<1>2. CASE ClearLocal
  <2>1. job' = NoJob
    BY <1>2 DEF ClearLocal
  <2> QED
    BY <2>1 DEF ItemsInv, NoJob
<1>3. CASE DeleteCall
  <2>1. DOMAIN job = DOMAIN NoJob
    BY DEF ItemsInv
  <2>2. /\ job'.kind = job.kind /\ job'.snap = job.snap /\ job'.wanted = job.wanted
        /\ job'.items = job.items /\ DOMAIN job' = DOMAIN job
    BY <1>3, <2>1, CallDoes DEF Returns, NoJob
  <2> QED
    BY <2>2, WhoStays, SameIdentity DEF ItemsInv
<1>4. CASE Inspect \/ Ban \/ HostChanges \/ UNCHANGED vars
  <2>1. job' = job
    BY <1>4 DEF Inspect, Ban, HostChanges, vars
  <2> QED
    BY <2>1, WhoStays, SameIdentity DEF ItemsInv
<1> QED
  BY <1>1, <1>2, <1>3, <1>4 DEF Next

(* Whatever the call deletes, it deletes by an item of that account. *)
LEMMA HitByItem ==
  ASSUME TypeInv, ItemsInv, NEW gone \in SUBSET OnHost(Files), NEW failed,
         Returns(gone, failed), NEW h \in hit'
  PROVE  /\ h[2] \in Accounts
         /\ \E x \in job.items : x.token = h[1] /\ ItemOf(x, h[2])
<1>1. PICK a \in gone : h = <<SentFor(who[a].fn).token, a>>
  BY DEF Returns
<1>2. a \in Accounts /\ who[a].fn \in Files
  BY DEF OnHost, TypeInv
<1>3. SentFor(who[a].fn) \in job.items /\ ItemOf(SentFor(who[a].fn), a)
  BY <1>2, SentForIt DEF TypeInv
<1> QED
  BY <1>1, <1>2, <1>3

(* A job that begins has not called CPA, or it disables chosen rows. *)
LEMMA StartCall ==
  ASSUME TypeInv, CallInv, Start
  PROVE  CallInv'
<1>1. CASE StartPoolDelete \/ StartBulkDelete \/ StartDelete
  <2>1. job = NoJob /\ hit' = hit
    BY <1>1 DEF StartPoolDelete, StartBulkDelete, StartDelete
  <2>2. hit' = {}
    BY <2>1 DEF CallInv, NoJob
  <2>3. ~job'.over /\ job'.left = {} /\ job'.kind # "none"
    BY <1>1 DEF StartPoolDelete, StartBulkDelete, StartDelete, NoJob
  <2> QED
    BY <2>2, <2>3 DEF CallInv, NeverGuesses, OnlyChosenRows
<1>2. ASSUME NEW C \in SUBSET rows, NEW meant,
             Disabled("bulk", C, meant),
             \A t \in DOMAIN meant : meant[t] \in C
      PROVE  CallInv'
  <2>1. /\ job'.kind = "bulk" /\ job'.wanted = C /\ job'.over = TRUE /\ job'.left = {}
    BY <1>2 DEF Disabled, NoJob
  <2>2. ASSUME NEW h \in hit' PROVE h[2] \in C
    <3>1. PICK t \in DOMAIN meant : h = <<t, FindAuthFile(who[meant[t]].fn)>>
      BY <1>2 DEF Disabled
    <3>2. meant[t] \in rows
      BY <1>2
    <3> QED
      BY <1>2, <3>1, <3>2, FileOfRow
  <2> QED
    BY <2>1, <2>2 DEF CallInv, NeverGuesses, OnlyChosenRows
<1>3. CASE DisableRows
  <2>1. PICK C \in Chosen :
          Disabled("bulk", C, [t \in {TokenOf(r) : r \in C} |-> ResolveTarget(t)])
    BY <1>3 DEF DisableRows
  <2> DEFINE meant == [t \in {TokenOf(r) : r \in C} |-> ResolveTarget(t)]
  <2>2. \A t \in DOMAIN meant : meant[t] \in C
    BY ChosenRow
  <2>3. C \in SUBSET rows
    BY DEF Chosen
  <2> HIDE DEF meant
  <2>4. Disabled("bulk", C, meant)
    BY <2>1 DEF meant
  <2> QED
    BY <1>2, <2>2, <2>3, <2>4
<1>4. CASE DisableRow
  <2>1. PICK r \in rows :
          Disabled("bulk", {r}, [t \in {who[r].fn} |-> RowMeant(t, who[r].ai)])
    BY <1>4 DEF DisableRow
  <2> DEFINE meant == [t \in {who[r].fn} |-> RowMeant(t, who[r].ai)]
  <2>2. \A t \in DOMAIN meant : meant[t] \in {r}
    BY RowMeantIs DEF TypeInv
  <2> HIDE DEF meant
  <2>3. Disabled("bulk", {r}, meant)
    BY <2>1 DEF meant
  <2> QED
    BY <1>2, <2>2, <2>3
<1> QED
  BY <1>1, <1>3, <1>4 DEF Start

(* The call of CPA tells what is left of what the job was about. *)
LEMMA CallEnds ==
  ASSUME TypeInv, ItemsInv, CallInv, DeleteCall
  PROVE  CallInv'
<1>1. PICK gone \in SUBSET host, failed \in SUBSET Files :
        /\ Returns(gone, failed)
        /\ gone \subseteq OnHost(Files)
        /\ \A a \in host \ gone : who[a].fn \in Files => who[a].fn \in failed
  BY CallDoes
<1>2. DOMAIN job = DOMAIN NoJob
  BY DEF ItemsInv
<1>3. /\ job'.over = TRUE /\ job'.failed = failed /\ job'.left = host \ gone
      /\ job'.kind = job.kind /\ job'.snap = job.snap /\ job'.wanted = job.wanted
      /\ job'.items = job.items
  BY <1>1, <1>2 DEF Returns, NoJob
<1>4. who' = who /\ Files' = Files /\ job.kind # "none"
  BY <1>1, <1>3 DEF Returns, Files, DeleteCall
<1>5. \A a \in job'.left : who[a].fn \in Files => who[a].fn \in job'.failed
  BY <1>1, <1>3
<1>6. job'.left \subseteq Accounts
  BY <1>3 DEF TypeInv
<1>7. \A h \in hit' : /\ h[2] \in Accounts
                      /\ \E x \in job.items : x.token = h[1] /\ ItemOf(x, h[2])
  BY <1>1, HitByItem
<1>8. ASSUME job.kind = "pool", NEW h \in hit'
      PROVE  h[1] \in Fields(h[2]) /\ \A r \in job.snap \ {h[2]} : h[1] \notin Fields(r)
  <2>1. PICK x \in job.items : x.token = h[1] /\ ItemOf(x, h[2])
    BY <1>7
  <2>2. h[1] \in Fields(h[2]) /\ x.file = who[h[2]].fn
    BY <2>1 DEF ItemOf
  <2>3. ASSUME NEW r \in job.snap, h[1] \in Fields(r) PROVE r = h[2]
    <3>1. x.file = who[r].fn
      BY <1>8, <2>1, <2>3 DEF ItemsInv
    <3>2. r \in Accounts /\ h[2] \in Accounts
      BY <1>7 DEF ItemsInv
    <3> QED
      BY <2>2, <3>1, <3>2, Known DEF TypeInv
  <2> QED
    BY <2>2, <2>3
<1>9. ASSUME job.kind = "bulk", NEW h \in hit' PROVE h[2] \in job.wanted
  <2>1. PICK x \in job.items : x.token = h[1] /\ ItemOf(x, h[2])
    BY <1>7
  <2>2. PICK c \in job.wanted : x.file = who[c].fn
    BY <1>9 DEF ItemsInv
  <2>3. c \in Accounts /\ who[h[2]].fn = who[c].fn
    BY <2>1, <2>2 DEF ItemsInv, ItemOf
  <2> QED
    BY <1>7, <2>3, Known DEF TypeInv
<1>10. NeverGuesses' /\ OnlyChosenRows'
  BY <1>3, <1>4, <1>8, <1>9, SameIdentity DEF NeverGuesses, OnlyChosenRows
<1> QED
  BY <1>3, <1>4, <1>5, <1>6, <1>10 DEF CallInv

(* The end of a job takes all that is known of it back, and nobody else    *)
(* touches it.                                                             *)
LEMMA CallStep ==
  ASSUME TypeInv, ItemsInv, CallInv, [Next]_vars
  PROVE  CallInv'
<1>1. CASE Start
  BY <1>1, StartCall
<1>2. CASE DeleteCall
  BY <1>2, CallEnds
<1>3. CASE ClearLocal
  <2>1. job' = NoJob /\ hit' = {}
    BY <1>3 DEF ClearLocal
  <2> QED
    BY <2>1 DEF CallInv, NoJob, NeverGuesses, OnlyChosenRows
<1>4. CASE Inspect \/ Ban \/ HostChanges \/ UNCHANGED vars
  <2>1. job' = job /\ hit' = hit /\ who' = who
    BY <1>4 DEF Inspect, Ban, HostChanges, vars
  <2>2. Files' = Files
    BY <2>1 DEF Files
  <2>3. NeverGuesses' /\ OnlyChosenRows'
    BY <2>1, SameIdentity DEF CallInv, NeverGuesses, OnlyChosenRows
  <2> QED
    BY <2>1, <2>2, <2>3 DEF CallInv
<1> QED
  BY <1>1, <1>2, <1>3, <1>4 DEF Next

(* The three invariants hold in every state. *)
THEOREM TargetsInvariant == Spec => []TargetsInv
<1>1. TargetsInv /\ [Next]_vars => TargetsInv'
  BY TypeStep, ItemsStep, CallStep DEF TargetsInv
<1> QED
  BY <1>1, TargetsInit, PTL DEF Spec

(* "Resolution is fail-safe against cross-field identity collisions"       *)
(* (ban_delete_job.go:312), for any accounts and any values they share: a  *)
(* ban-delete hits only the account that carries the AuthID, and only if   *)
(* no other row carries it as well.                                        *)
THEOREM DeletesNeverGuess == Spec => []NeverGuesses
<1>1. TargetsInv => NeverGuesses
  BY DEF TargetsInv, CallInv
<1> QED
  BY <1>1, TargetsInvariant, PTL

(* A bulk action of a scheduled run hits none but the rows that were       *)
(* chosen (apply_lookup.go:117), for any accounts.                         *)
THEOREM BulkHitsTheChosen == Spec => []OnlyChosenRows
<1>1. TargetsInv => OnlyChosenRows
  BY DEF TargetsInv, CallInv
<1> QED
  BY <1>1, TargetsInvariant, PTL

-----------------------------------------------------------------------------
(* Survivors                                                               *)

(* Where no two accounts share a value, an item that has a field of an     *)
(* account is that account's.                                              *)
LEMMA SharesNothing ==
  ASSUME TypeInv, Unshared, NEW x, NEW c \in Accounts, ItemOf(x, c),
         NEW a \in Accounts, NEW v \in Fields(a),
         v \in Fields(c)
  PROVE  ItemOf(x, a)
<1>1. a = c
  BY DEF Unshared
<1> QED
  BY <1>1

(* No item that counts as deleted stands for an account whose file failed. *)
LEMMA FailedIsNotDeleted ==
  ASSUME TargetsInv, Unshared, NEW a \in Accounts, who[a].fn \in job.failed,
         NEW x \in Deleted, ItemOf(x, a)
  PROVE  FALSE
<1> USE DEF TargetsInv
<1>1. a \in Accounts /\ x \in job.items /\ x.file = who[a].fn
  BY DEF Deleted, ItemOf
<1>2. who[a].fn \in Files
  BY <1>1 DEF Files
<1>3. job.kind = "pool"
  BY <1>1, <1>2 DEF Deleted
<1> DEFINE label == SentFor(who[a].fn).label
           S == {y \in job.items : label \in y.keys}
<1>4. /\ SentFor(who[a].fn) \in job.items
      /\ ItemOf(SentFor(who[a].fn), a)
  BY <1>1, <1>2, SentForIt DEF TypeInv
<1>5. label \in Fields(a) /\ S # {}
  BY <1>4 DEF ItemOf
<1> HIDE DEF label
<1>6. ASSUME NEW y \in S PROVE ItemOf(y, a)
  <2>1. PICK c \in Accounts : ItemOf(y, c)
    BY DEF ItemsInv
  <2>2. label \in Fields(c)
    BY <2>1 DEF ItemOf
  <2> QED
    BY <1>1, <1>5, <2>1, <2>2, SharesNothing
<1>7. \A y \in S : y.token \in Nat
  BY <1>1, <1>6, FieldsAre DEF ItemOf, TypeInv
<1>8. FirstItem(S) \in S
  BY <1>5, <1>7, FirstItemIn
<1>9. FirstItem(S).file = x.file
  BY <1>1, <1>6, <1>8 DEF ItemOf
<1>10. FirstItem(S).file \in x.keys
  BY <1>9 DEF ItemOf
<1>11. ItemFails(x)
  BY <1>10 DEF ItemFails, label
<1> QED
  BY <1>3, <1>11 DEF Deleted

(* Nor one of an account that is left. *)
LEMMA LeftIsNotDeleted ==
  ASSUME TargetsInv, Unshared, NEW a \in job.left,
         NEW x \in Deleted, ItemOf(x, a)
  PROVE  FALSE
<1>1. a \in Accounts /\ x \in job.items /\ x.file = who[a].fn
  BY DEF TargetsInv, CallInv, Deleted, ItemOf
<1>2. who[a].fn \in job.failed
  BY <1>1 DEF TargetsInv, Files, CallInv
<1> QED
  BY <1>1, <1>2, FailedIsNotDeleted

(* ban_delete_job.go:208: "unmapped CPA errors can never be counted as     *)
(* deleted success" holds of any accounts that share no value, and needs   *)
(* that (see FailuresCount).                                               *)
THEOREM FailuresAreCounted == Spec => [](Unshared => FailuresCount)
<1>1. ASSUME TargetsInv, Unshared, NEW x \in Deleted, x.file \in job.failed
      PROVE  FALSE
  <2>1. PICK a \in Accounts : ItemOf(x, a)
    BY <1>1 DEF TargetsInv, ItemsInv, Deleted
  <2>2. who[a].fn \in job.failed
    BY <1>1, <2>1 DEF ItemOf
  <2> QED
    BY <1>1, <2>1, <2>2, FailedIsNotDeleted
<1>2. TargetsInv => (Unshared => FailuresCount)
  BY <1>1 DEF FailuresCount
<1> QED
  BY <1>2, TargetsInvariant, PTL

(* The end of a batch touches no row and no ban of an account that is left. *)
LEMMA BatchKeeps ==
  ASSUME TargetsInv, Unshared, ClearBatch, NEW a \in job.left
  PROVE  /\ a \in rows => a \in rows'
         /\ who[a].fn \in bans => who[a].fn \in bans'
<1>1. a \in Accounts /\ job.over /\ who[a].fn \in Fields(a)
  BY FieldsAre DEF TargetsInv, TypeInv, CallInv, ClearBatch
<1>2. ASSUME NEW x \in Deleted, x.alias \in Fields(a) \/ x.file \in Fields(a)
      PROVE  FALSE
  <2>1. x \in job.items
    BY DEF Deleted
  <2>2. PICK c \in Accounts : ItemOf(x, c)
    BY <2>1 DEF TargetsInv, ItemsInv
  <2>3. x.alias \in Fields(c) /\ x.file \in Fields(c)
    BY <2>2, FieldsAre DEF ItemOf, TargetsInv, TypeInv
  <2>4. ItemOf(x, a)
    BY <1>1, <1>2, <2>2, <2>3, SharesNothing DEF TargetsInv
  <2> QED
    BY <1>1, <2>4, LeftIsNotDeleted
<1> QED
  BY <1>1, <1>2 DEF ClearBatch, BansWithout

(* Neither does the end of the deletion of one row. *)
LEMMA SingleKeeps ==
  ASSUME TargetsInv, Unshared, ClearSingle, NEW a \in job.left
  PROVE  /\ a \in rows => a \in rows'
         /\ who[a].fn \in bans => who[a].fn \in bans'
<1>1. PICK item \in job.items :
        LET target == FindAuth(job.snap, item.token)
        IN IF Deleted = {} THEN UNCHANGED <<rows, bans>>
           ELSE /\ rows' = RowsWithout(target, item.token)
                /\ bans' = BansWithout(BanAliases(target, item.token))
  BY DEF ClearSingle
<1>2. CASE Deleted = {}
  BY <1>1, <1>2
<1>3. CASE Deleted # {}
  <2> DEFINE t == item.token
             target == FindAuth(job.snap, t)
  <2>1. rows' = RowsWithout(target, t) /\ bans' = bans \ BanAliases(target, t)
    BY <1>1, <1>3 DEF BansWithout
  <2>2. a \in Accounts /\ job.over /\ job.snap \subseteq Accounts /\ IdentityInv
    BY DEF TargetsInv, TypeInv, ItemsInv, CallInv, ClearSingle
  <2>3. PICK c \in Accounts : ItemOf(item, c)
    BY DEF TargetsInv, ItemsInv
  <2>4. t \in Fields(c)
    BY <2>3 DEF ItemOf
  <2>5. item \in Deleted
    <3>1. Deleted \subseteq job.items /\ job.kind = "single"
      BY DEF Deleted, ClearSingle
    <3>2. \A x, y \in job.items : x = y
      BY <3>1 DEF TargetsInv, ItemsInv
    <3> QED
      BY <1>3, <3>1, <3>2
  <2>6. a # c
    BY <2>2, <2>3, <2>5, LeftIsNotDeleted
  <2>7. target = None \/ target = c
    <3>1. target = None \/ (target \in Accounts /\ t \in Fields(target))
      BY <2>2, FindAuthFinds
    <3> QED
      BY <2>4, <3>1 DEF Unshared
  <2>8. Fields(a) \intersect Fields(c) = {}
    BY <2>2, <2>6 DEF Unshared
  <2>9. /\ NameOf(a) \in Fields(a) /\ who[a].fn \in Fields(a)
        /\ Fields(a) = {who[a].ai, who[a].fn, who[a].em} \ {None}
        /\ Fields(c) = {who[c].ai, who[c].fn, who[c].em} \ {None}
    BY <2>2, FieldsAre
  <2> HIDE DEF t, target
  <2>10. ~ResultMatches(a, target, t)
    BY <2>4, <2>7, <2>8, <2>9 DEF ResultMatches
  <2>11. who[a].fn \notin BanAliases(target, t)
    BY <2>4, <2>7, <2>8, <2>9 DEF BanAliases
  <2> QED
    BY <2>1, <2>10, <2>11 DEF RowsWithout
<1> QED
  BY <1>2, <1>3

(* An account that CPA still has after a deletion keeps its row and its    *)
(* ban, whatever failed and whatever happened meanwhile, for any accounts  *)
(* that share no value.                                                    *)
THEOREM SurvivorsStay == Spec => SurvivorsKeepState
<1>1. ASSUME TargetsInv
      PROVE  ClearLocal /\ Unshared =>
               \A a \in job.left : /\ a \in rows => a \in rows'
                                   /\ who[a].fn \in bans => who[a].fn \in bans'
  BY <1>1, BatchKeeps, SingleKeeps DEF ClearLocal
<1> QED
  BY <1>1, TargetsInvariant, PTL DEF Spec, SurvivorsKeepState
=============================================================================
