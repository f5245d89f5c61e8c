------------------------------ MODULE ProbeProofs ------------------------------
(***************************************************************************)
(* Proofs about the probes and the gate to the host, for any number of     *)
(* probes, any capacity of the gate and any set of answers; and about the  *)
(* verdict on an answer, for all of them.                                  *)
(***************************************************************************)
EXTENDS Probe, TLAPS

Decisions == {"delete", "disable", "enable"}
AnyVerdict == [class : Classes \union {"none"}, action : Decisions \union {"keep", "none"}]

(* The verdict decides just what the answer proves, and only a class that  *)
(* settles the matter carries a decision.                                  *)
LEMMA VerdictProves ==
  ASSUME NEW a \in AllAnswers, NEW d \in BOOLEAN, NEW x \in Decisions
  PROVE  /\ Proves(a, x, d) <=> ClassifyProbe(a, d).action = x
         /\ Proves(a, x, d) => ClassifyProbe(a, d).class \in Definitive \union {"healthy"}
<1> DEFINE v == ClassifyProbe(a, d)
           safe == "safety" \notin a.says
           blamed == "credential" \in a.says \/ a.code = "invalid_grant"
           spent == "quota" \in a.says \/ a.code = "exhausted"
<1>1. Proves(a, "delete", d) <=> safe /\ a.status = 401 /\ blamed
  BY DEF Proves
<1>2. Proves(a, "disable", d) <=>
        /\ safe /\ ~d
        /\ \/ a.status # 401 /\ spent
           \/ a.status = 402 /\ a.code = "spending"
           \/ a.status = 403 /\ "account" \in a.says
  BY DEF Proves
<1>3. Proves(a, "enable", d) <=>
        safe /\ d /\ a.status = 200 /\ "missing" \notin a.says /\ ~spent
  BY DEF Proves
<1> USE DEF ClassifyProbe, Keep, Verdict, IsContentSafetyViolation
<1> HIDE DEF v
<1>4. CASE ~safe
  <2>1. v = [class |-> "probe_error", action |-> "keep"]
    BY <1>4 DEF v
  <2> QED
    BY <1>1, <1>2, <1>3, <1>4, <2>1 DEF Decisions, v
<1>5. CASE safe /\ a.status = 401
  <2>1. v = IF blamed THEN [class |-> "reauth", action |-> "delete"]
                      ELSE [class |-> "probe_error", action |-> "keep"]
    BY <1>5 DEF v, IsStrongUnauthorizedEvidence
  <2> QED
    BY <1>1, <1>2, <1>3, <1>5, <2>1 DEF Decisions, Definitive, v
<1>6. CASE safe /\ a.status # 401
  <2> DEFINE condemned(c) == [class |-> c, action |-> IF d THEN "keep" ELSE "disable"]
  <2>1. \A c \in Definitive \ {"reauth"} : Recommended(c, d) = condemned(c)
    BY DEF Recommended, RecommendAction, Definitive
  <2>2. Recommended("healthy", d) =
          [class |-> "healthy", action |-> IF d THEN "enable" ELSE "keep"]
    BY DEF Recommended, RecommendAction, Definitive
  <2>3. {"quota_exhausted", "spending_limit", "permission_denied"}
          \subseteq Definitive \ {"reauth"}
    BY DEF Definitive
  <2> HIDE DEF condemned
  <2>4. CASE spent
    <3>1. v = condemned("quota_exhausted")
      BY <1>6, <2>1, <2>3, <2>4 DEF v, IsFreeUsageExhausted
    <3> QED
      BY <1>1, <1>2, <1>3, <1>6, <2>3, <2>4, <3>1 DEF Decisions, v, condemned
  <2>5. CASE ~spent /\ a.status = 402 /\ a.code = "spending"
    <3>1. v = condemned("spending_limit")
      BY <1>6, <2>1, <2>3, <2>5
         DEF v, IsFreeUsageExhausted, IsSpendingLimitBlocked
    <3> QED
      BY <1>1, <1>2, <1>3, <1>6, <2>3, <2>5, <3>1 DEF Decisions, v, condemned
  <2>6. CASE ~spent /\ a.status = 403 /\ "account" \in a.says
    <3>1. v = condemned("permission_denied")
      BY <1>6, <2>1, <2>3, <2>6
         DEF v, IsFreeUsageExhausted, IsAccountLevelPermissionDenied
    <3> QED
      BY <1>1, <1>2, <1>3, <1>6, <2>3, <2>6, <3>1 DEF Decisions, v, condemned
  <2>7. CASE ~spent /\ a.status = 200 /\ "missing" \notin a.says
    <3>1. v = [class |-> "healthy", action |-> IF d THEN "enable" ELSE "keep"]
      BY <1>6, <2>2, <2>7 DEF v, IsFreeUsageExhausted, IsAccountLevelPermissionDenied
    <3> QED
      BY <1>1, <1>2, <1>3, <1>6, <2>7, <3>1 DEF Decisions, v
  <2>8. CASE /\ ~spent /\ ~(a.status = 402 /\ a.code = "spending")
             /\ ~(a.status = 403 /\ "account" \in a.says)
             /\ ~(a.status = 200 /\ "missing" \notin a.says)
    <3>1. v.action = "keep"
      BY <1>6, <2>8 DEF v, IsFreeUsageExhausted, IsSpendingLimitBlocked,
                        IsAccountLevelPermissionDenied
    <3> QED
      BY <1>1, <1>2, <1>3, <1>6, <2>8, <3>1 DEF Decisions, v
  <2> QED
    BY <2>4, <2>5, <2>6, <2>7, <2>8
<1> QED
  BY <1>4, <1>5, <1>6

(* Every answer has a verdict. *)
LEMMA VerdictType ==
  ASSUME NEW a \in AllAnswers, NEW d \in BOOLEAN
  PROVE  ClassifyProbe(a, d) \in AnyVerdict /\ ClassifyProbe(a, d).action # "none"
<1> USE DEF ClassifyProbe, AnyVerdict, Decisions, Classes, Keep, Verdict, Recommended,
      RecommendAction, Definitive
<1>1. CASE IsContentSafetyViolation(a)
  BY <1>1
<1>2. CASE ~IsContentSafetyViolation(a) /\ a.status = 401
  BY <1>2
<1>3. CASE ~IsContentSafetyViolation(a) /\ a.status # 401
  BY <1>3
<1> QED
  BY <1>1, <1>2, <1>3

(* A bare 429 decides nothing. *)
LEMMA BareLimit ==
  ASSUME NEW a \in AllAnswers, NEW d \in BOOLEAN, a.status = 429,
         ~IsFreeUsageExhausted(a)
  PROVE  ClassifyProbe(a, d).action = "keep"
<1>1. CASE IsContentSafetyViolation(a)
  BY <1>1 DEF ClassifyProbe, Keep, Verdict
<1>2. CASE ~IsContentSafetyViolation(a)
  BY <1>2 DEF ClassifyProbe, Keep, Verdict
<1> QED
  BY <1>1, <1>2

-----------------------------------------------------------------------------
(* The usage callback                                                      *)

(* The ban of the last failed request is the one its answer calls for, and *)
(* headers count only where a ban ends by itself.                          *)
UsageInv ==
  /\ \/ usage.ban = "none"
     \/ usage.answer \in AllAnswers /\ usage.ban = DetectBan(usage.answer)
  /\ usage.headers \in AllHeaders
  /\ usage.headers = NoHeaders \/ usage.ban = "free-usage-exhausted"

(* No headers are headers too. *)
LEMMA NoHeadersType == NoHeaders \in AllHeaders
BY DEF NoHeaders, AllHeaders, Times

(* The header of the highest rank that can be believed decides. *)
LEMMA FirstBelievable ==
  ASSUME NEW h \in AllHeaders, NEW i \in 1 .. 3, Believable(h.reset[i])
  PROVE  /\ ResolveResetAt(h).source = "header_absolute"
         /\ ResolveResetAt(h).at \in 1 .. FiveYears
<1> DEFINE IsFirst(k) == Believable(h.reset[k]) /\ \A j \in 1 .. k - 1 : ~Believable(h.reset[j])
           first == CHOOSE k \in 1 .. 3 : IsFirst(k)
<1>1. \E k \in 1 .. 3 : IsFirst(k)
  <2>1. CASE Believable(h.reset[1])
    BY <2>1
  <2>2. CASE ~Believable(h.reset[1]) /\ Believable(h.reset[2])
    BY <2>2
  <2>3. CASE ~Believable(h.reset[1]) /\ ~Believable(h.reset[2])
    BY <2>3
  <2> QED
    BY <2>1, <2>2, <2>3
<1>2. first \in 1 .. 3 /\ Believable(h.reset[first])
  BY <1>1
<1>3. ResolveResetAt(h) = [at |-> h.reset[first], source |-> "header_absolute"]
  BY DEF ResolveResetAt, Window
<1>4. h.reset[first] \in Times
  BY <1>2 DEF AllHeaders
<1>5. h.reset[first] \in 1 .. FiveYears
  BY <1>2, <1>4 DEF Believable, Times, FiveYears
<1> QED
  BY <1>3, <1>5

(* What the headers say lies ahead, as far as they can be right. *)
LEMMA HeadersAhead ==
  ASSUME NEW h \in AllHeaders
  PROVE  LET w == ResolveResetAt(h) IN
         /\ (\E i \in 1 .. 3 : h.reset[i] \in 1 .. FiveYears)
              => w.source = "header_absolute" /\ w.at \in 1 .. FiveYears
         /\ w.source = "date_plus_fallback" /\ h.date + Fallback > 0 => w.at > 0
         /\ w.source = "header_relative" /\ h.retry * Second < 2^(Width - 1) => w.at > 0
<1> DEFINE w == ResolveResetAt(h)
<1>1. ASSUME NEW i \in 1 .. 3
      PROVE  Believable(h.reset[i]) <=> h.reset[i] \in 1 .. FiveYears
  BY DEF Believable, AllHeaders, Times, FiveYears, Missing, Unreadable
<1>2. CASE \E i \in 1 .. 3 : Believable(h.reset[i])
  <2>1. w.source = "header_absolute" /\ w.at \in 1 .. FiveYears
    BY <1>2, FirstBelievable
  <2> QED
    BY <2>1
<1>3. CASE \A i \in 1 .. 3 : ~Believable(h.reset[i])
  <2>1. CASE h.retry \notin {Missing, Unreadable} /\ h.retry > 0
    <3>1. w = [at |-> Wrapped(h.retry * Second), source |-> "header_relative"]
      BY <1>3, <2>1 DEF ResolveResetAt, Window
    <3>2. h.retry \in {1, 12, 13}
      BY <2>1 DEF AllHeaders, Missing, Unreadable
    <3>3. h.retry * Second < 2^(Width - 1) => Wrapped(h.retry * Second) > 0
      BY <3>2 DEF Wrapped, Second, Width
    <3> QED
      BY <1>1, <1>3, <3>1, <3>3
  <2>2. CASE ~(h.retry \notin {Missing, Unreadable} /\ h.retry > 0)
    <3>1. w.at = h.date + Fallback \/ w.source = "local_plus_fallback"
      BY <1>3, <2>2 DEF ResolveResetAt, Window
    <3>2. w.source # "header_relative"
      BY <1>3, <2>2 DEF ResolveResetAt, Window
    <3> QED
      BY <1>1, <1>3, <3>1, <3>2
  <2> QED
    BY <2>1, <2>2
<1> QED
  BY <1>2, <1>3

(* What the usage callback bans for, the inspection condemns for too. *)
LEMMA BanMatches ==
  ASSUME NEW a \in AllAnswers, DetectBan(a) # "none", ~IsContentSafetyViolation(a)
  PROVE  LET class == ClassifyProbe(a, FALSE).class IN
         \/ class = BanClass[DetectBan(a)]
         \/ class = "quota_exhausted" /\ "quota" \in a.says
<1> USE DEF ClassifyProbe, Keep, Verdict, Recommended, ParsedCode, ParsedText,
      IsContentSafetyViolation, IsStrongUnauthorizedEvidence,
      IsFreeUsageExhausted, IsSpendingLimitBlocked, IsAccountLevelPermissionDenied
<1>1. CASE /\ a.status = 401
           /\ IsStrongUnauthorizedEvidence(ParsedCode(a), ParsedText(a))
  <2>1. DetectBan(a) = "unauthorized"
    BY <1>1 DEF DetectBan
  <2>2. BanClass["unauthorized"] = "reauth"
    BY DEF BanClass
  <2> QED
    BY <1>1, <2>1, <2>2
<1>2. CASE /\ a.status = 403 /\ ParsedCode(a) = "denied"
           /\ IsAccountLevelPermissionDenied(403, ParsedText(a))
  <2>1. DetectBan(a) = "permission-denied"
    BY <1>2 DEF DetectBan
  <2>2. BanClass["permission-denied"] = "permission_denied"
    BY DEF BanClass
  <2> QED
    BY <1>2, <2>1, <2>2
<1>3. CASE a.status = 429 /\ ParsedCode(a) = "exhausted"
  <2>1. DetectBan(a) = "free-usage-exhausted"
    BY <1>3 DEF DetectBan
  <2>2. BanClass["free-usage-exhausted"] = "quota_exhausted"
    BY DEF BanClass
  <2> QED
    BY <1>3, <2>1, <2>2
<1>4. CASE a.status = 402 /\ ParsedCode(a) = "spending"
  <2>1. DetectBan(a) = "spending-limit"
    BY <1>4 DEF DetectBan
  <2>2. BanClass["spending-limit"] = "spending_limit"
    BY DEF BanClass
  <2> QED
    BY <1>4, <2>1, <2>2
<1> QED
  BY <1>1, <1>2, <1>3, <1>4 DEF DetectBan

-----------------------------------------------------------------------------
(* The shutdown                                                            *)

(* Admission is closed before the calls are waited for: none is admitted   *)
(* once there is none left.                                                *)
UnloadInv ==
  /\ call \in [Probes -> {"off", "new", "gate", "host"}]
  /\ shutdown \in {"no", "waiting", "draining", "cleared"}
  /\ shutdown \in {"draining", "cleared"} => closed
  /\ shutdown = "cleared" => Admitted = {}
  /\ \A p \in Probes : call[p] # "off" => inner[p] # "off"

-----------------------------------------------------------------------------
(* Probes                                                                  *)

Dis(p) == p \in Disabled
Settles(p, a) == \E x \in Decisions : Proves(a, x, Dis(p))

(* What a probe knows: nothing it was answered before its last question    *)
(* proves anything, and what its row recommends is proved.                 *)
ProbeType ==
  /\ inner \in [Probes -> {"off", "primary", "retry", "fallback", "over"}]
  /\ resp \in [Probes -> Answers \union {NoAnswer}]
  /\ row \in [Probes -> AnyVerdict]
  /\ worker \in [Probes -> {"none", "waiting", "done"}]
  /\ seen \in [Probes -> SUBSET Answers]

Knows(p) ==
  /\ inner[p] \in {"off", "primary"} => seen[p] = {}
  /\ inner[p] \in {"retry", "fallback"} =>
       resp[p] \in seen[p] /\ \A a \in seen[p] : ~Settles(p, a)
  /\ inner[p] = "fallback" => Judged(p, resp[p]).class \notin Definitive
  /\ inner[p] = "over" => worker[p] # "waiting"
  /\ worker[p] = "none" => inner[p] = "off"
  /\ row[p].action \in Decisions => \E a \in seen[p] : Proves(a, row[p].action, Dis(p))

ProbeInv == ProbeType /\ \A p \in Probes : Knows(p)

(* No probe has begun. *)
LEMMA KnowsInit == Init => ProbeInv /\ UsageInv /\ UnloadInv
<1> SUFFICES ASSUME Init PROVE ProbeInv /\ UsageInv /\ UnloadInv
  OBVIOUS
<1>1. ProbeType
  BY DEF Init, ProbeType, AnyVerdict, NoVerdict, Verdict
<1>2. \A p \in Probes : Knows(p)
  BY DEF Init, Knows, Settles, NoVerdict, Verdict, Decisions
<1>3. UsageInv
  BY NoHeadersType DEF Init, UsageInv, NoUsage
<1>4. UnloadInv
  BY DEF Init, UnloadInv
<1> QED
  BY <1>1, <1>2, <1>3, <1>4 DEF ProbeInv

(* A step of one probe leaves what the others know. *)
LEMMA OthersKnow ==
  ASSUME ProbeInv, NEW p \in Probes, ProbeType', Knows(p)',
         \A q \in Probes \ {p} :
           /\ inner'[q] = inner[q] /\ resp'[q] = resp[q] /\ seen'[q] = seen[q]
           /\ row'[q] = row[q] /\ worker'[q] = worker[q]
  PROVE  ProbeInv'
<1>1. ASSUME NEW q \in Probes \ {p} PROVE Knows(q)'
  BY <1>1 DEF ProbeInv, Knows, Settles, Judged, Dis
<1> QED
  BY <1>1 DEF ProbeInv

(* A probe that ends with a verdict its answers prove. *)
LEMMA EndKnows ==
  ASSUME ProbeInv, NEW p \in Probes, NEW v \in AnyVerdict, NEW c,
         Ends(p, v, c), inner[p] # "off",
         \/ seen' = seen
         \/ \E a \in Answers : seen' = [seen EXCEPT ![p] = @ \union {a}],
         v.action \in Decisions => \E a \in seen'[p] : Proves(a, v.action, Dis(p))
  PROVE  ProbeInv'
<1> USE DEF ProbeInv, ProbeType, Ends
<1>1. ProbeType'
  BY DEF NoAnswer
<1>2. seen[p] \subseteq seen'[p]
  OBVIOUS
<1>3. Knows(p)'
  <2>1. CASE worker[p] = "waiting"
    BY <2>1 DEF Knows
  <2>2. CASE worker[p] # "waiting"
    BY <1>2, <2>2 DEF Knows
  <2> QED
    BY <2>1, <2>2
<1> QED
  BY <1>1, <1>3, OthersKnow

(* A probe that asks again, after an answer that settles nothing. *)
LEMMA CallKnows ==
  ASSUME ProbeInv, NEW p \in Probes, NEW a \in Answers, NEW which \in {"retry", "fallback"},
         Calls(p, which, a), seen' = [seen EXCEPT ![p] = @ \union {a}],
         inner[p] \in {"primary", "retry"}, ~Settles(p, a),
         which = "fallback" => Judged(p, a).class \notin Definitive
  PROVE  ProbeInv'
<1> USE DEF ProbeInv, ProbeType, Calls
<1>1. ProbeType'
  OBVIOUS
<1>2. \A b \in seen'[p] : ~Settles(p, b)
  BY DEF Knows
<1>3. inner'[p] = which /\ resp'[p] = a /\ a \in seen'[p] /\ seen[p] \subseteq seen'[p]
  OBVIOUS
<1>4. row'[p] = row[p] /\ worker'[p] = worker[p]
  OBVIOUS
<1>5. which = "fallback" => Judged(p, resp[p])'.class \notin Definitive
  BY <1>3 DEF Judged
<1>6. Knows(p)'
  BY <1>2, <1>3, <1>4, <1>5 DEF Knows, Settles, Judged, Dis
<1> QED
  BY <1>1, <1>6, OthersKnow

(* What the verdict on an answer decides, the answer proves. *)
LEMMA JudgedProves ==
  ASSUME NEW p \in Probes, NEW a \in AllAnswers
  PROVE  /\ Judged(p, a) \in AnyVerdict /\ Judged(p, a).action # "none"
         /\ \A x \in Decisions : Proves(a, x, Dis(p)) <=> Judged(p, a).action = x
         /\ Settles(p, a) => Judged(p, a).class \in Definitive \union {"healthy"}
<1>1. Dis(p) \in BOOLEAN
  BY DEF Dis
<1> QED
  BY <1>1, VerdictProves, VerdictType DEF Judged, Dis, Settles

(* The step of a probe that gets an answer it waits for. *)
LEMMA AnsweredKnows ==
  ASSUME ProbeInv, NEW p \in Probes, NEW a \in Answers, Answered(p, a),
         inner[p] \in {"primary", "retry", "fallback"},
         seen' = [seen EXCEPT ![p] = @ \union {a}]
  PROVE  ProbeInv'
<1>1. a \in AllAnswers
  BY ProbeAssumption
<1>2. a \in seen'[p] /\ seen[p] \subseteq seen'[p]
  BY DEF ProbeInv, ProbeType
<1>3. ASSUME inner[p] \in {"primary", "retry"}, Settle(p, a) PROVE ProbeInv'
  <2>1. CASE ShouldTryFallback(a.status, Judged(p, a).class)
    <3>1. Judged(p, a).class \notin Definitive \union {"healthy"}
      BY <2>1 DEF ShouldTryFallback
    <3>2. ~Settles(p, a)
      BY <3>1, <1>1, JudgedProves
    <3> QED
      BY <1>3, <2>1, <3>1, <3>2, CallKnows DEF Settle
  <2>2. CASE ~ShouldTryFallback(a.status, Judged(p, a).class)
    <3>1. Ends(p, Judged(p, a), "off")
      BY <1>3, <2>2 DEF Settle
    <3> QED
      BY <1>1, <1>2, <1>3, <3>1, EndKnows, JudgedProves
  <2> QED
    BY <2>1, <2>2
<1>4. CASE inner[p] = "primary" /\ a.status = 429 /\ ~IsFreeUsageExhausted(a)
  <2>1. Judged(p, a).action = "keep"
    <3>1. Dis(p) \in BOOLEAN
      BY DEF Dis
    <3>2. ClassifyProbe(a, Dis(p)).action = "keep"
      BY <1>1, <1>4, <3>1, BareLimit, Zenon
    <3> QED
      BY <3>2 DEF Judged, Dis
  <2>2. ~Settles(p, a)
    BY <1>1, <2>1, JudgedProves DEF Settles, Decisions
  <2>3. Calls(p, "retry", a)
    BY <1>4 DEF Answered
  <2> QED
    BY <1>4, <2>2, <2>3, CallKnows
<1>5. CASE inner[p] = "primary" /\ ~(a.status = 429 /\ ~IsFreeUsageExhausted(a))
  BY <1>3, <1>5 DEF Answered
<1>6. CASE inner[p] = "retry"
  BY <1>3, <1>6 DEF Answered
<1>7. CASE inner[p] = "fallback"
  <2>1. Ends(p, Judged(p, a), "off")
    BY <1>7 DEF Answered, ResolveProbeOutcome, ProbeInv, Knows
  <2> QED
    BY <1>1, <1>2, <1>7, <2>1, EndKnows, JudgedProves
<1> QED
  BY <1>4, <1>5, <1>6, <1>7

(* The end of a probe whose last question is not answered. *)
LEMMA UnansweredKnows ==
  ASSUME ProbeInv, NEW p \in Probes, NEW c, Unanswered(p, c), seen' = seen,
         inner[p] \in {"primary", "retry", "fallback"}
  PROVE  ProbeInv'
<1>1. CASE inner[p] = "primary"
  <2>1. TimedOut \in AnyVerdict /\ TimedOut.action \notin Decisions
    BY DEF TimedOut, Verdict, AnyVerdict, Decisions, Classes
  <2> QED
    BY <1>1, <2>1, EndKnows DEF Unanswered
<1>2. CASE inner[p] \in {"retry", "fallback"}
  <2>1. resp[p] \in AllAnswers /\ resp[p] \in seen[p]
    BY <1>2, ProbeAssumption DEF ProbeInv, ProbeType, Knows
  <2> QED
    BY <1>2, <2>1, EndKnows, JudgedProves DEF Unanswered
<1> QED
  BY <1>1, <1>2

(* Whatever a call brings, or its failure. *)
LEMMA DeliveredKnows ==
  ASSUME ProbeInv, NEW p \in Probes, NEW a \in Answers \union {NoAnswer},
         Delivered(p, a), inner[p] # "off"
  PROVE  ProbeInv'
<1>1. NoAnswer \notin Answers
  BY ProbeAssumption DEF NoAnswer, AllAnswers, Statuses
<1>2. CASE inner[p] = "over"
  BY <1>2, OthersKnow DEF Delivered, probeVars, ProbeInv, ProbeType, Knows, Judged, Dis, Settles
<1>3. CASE inner[p] # "over"
  <2>1. inner[p] \in {"primary", "retry", "fallback"}
    BY <1>3 DEF ProbeInv, ProbeType
  <2>2. CASE a = NoAnswer
    <3>1. seen' = seen
      BY <1>3, <2>2 DEF Delivered, ProbeInv, ProbeType
    <3>2. Unanswered(p, "off")
      BY <1>3, <2>2 DEF Delivered
    <3> QED
      BY <2>1, <3>1, <3>2, UnansweredKnows
  <2>3. CASE a # NoAnswer
    <3>1. seen' = [seen EXCEPT ![p] = @ \union {a}]
      BY <1>3, <2>3 DEF Delivered
    <3>2. Answered(p, a)
      BY <1>3, <2>3 DEF Delivered
    <3> QED
      BY <2>1, <2>3, <3>1, <3>2, AnsweredKnows
  <2> QED
    BY <2>2, <2>3
<1> QED
  BY <1>2, <1>3

(* Every step keeps what the probes know. *)
LEMMA KnowsStep ==
  ASSUME ProbeInv, UnloadInv, [Next]_vars
  PROVE  ProbeInv'
<1> USE DEF probeVars, callVars, downVars
<1>1. ASSUME NEW p \in Probes, StartProbe(p) PROVE ProbeInv'
  BY <1>1, OthersKnow DEF StartProbe, ProbeInv, ProbeType, Knows, Judged, Dis, Settles
<1>2. ASSUME NEW p \in Probes, CallTimesOut(p) PROVE ProbeInv'
  <2>1. inner[p] \in {"primary", "retry", "fallback"}
    BY <1>2 DEF CallTimesOut, ProbeInv, ProbeType
  <2> QED
    BY <1>2, <2>1, UnansweredKnows DEF CallTimesOut
<1>3. ASSUME NEW p \in Probes, ProbeTimesOut(p) PROVE ProbeInv'
  <2>1. TimedOut \in AnyVerdict /\ TimedOut.action \notin Decisions
    BY DEF TimedOut, Verdict, AnyVerdict, Decisions, Classes
  <2>2. ProbeType'
    BY <1>3, <2>1 DEF ProbeTimesOut, ProbeInv, ProbeType
  <2>3. Knows(p)'
    BY <1>3, <2>1 DEF ProbeTimesOut, ProbeInv, ProbeType, Knows, Judged, Dis, Settles
  <2> QED
    BY <1>3, <2>2, <2>3, OthersKnow DEF ProbeTimesOut, ProbeInv, ProbeType
<1>4. ASSUME NEW p \in Probes, Admit(p) PROVE ProbeInv'
  <2>1. CASE closed
    BY <1>4, <2>1, DeliveredKnows DEF Admit, UnloadInv
  <2>2. CASE ~closed
    BY <1>4, <2>2 DEF Admit, ProbeInv, ProbeType, Knows, Judged, Dis, Settles
  <2> QED
    BY <2>1, <2>2
<1>5. ASSUME NEW p \in Probes, AnswerReturns(p) \/ ErrorReturns(p) PROVE ProbeInv'
  BY <1>5, DeliveredKnows DEF AnswerReturns, ErrorReturns, UnloadInv
<1>6. ASSUME UNCHANGED <<probeVars, seen>> PROVE ProbeInv'
  BY <1>6 DEF ProbeInv, ProbeType, Knows, Judged, Dis, Settles
<1>7. ASSUME NEW p \in Probes, Enter(p) \/ TokenReturns(p) PROVE ProbeInv'
  BY <1>6, <1>7 DEF Enter, TokenReturns
<1>8. ASSUME UsageFails \/ UsageDone \/ Shutdown \/ DownStep PROVE ProbeInv'
  BY <1>6, <1>8 DEF UsageFails, UsageDone, Shutdown, DownStep, CloseAdmission, Clear
<1>9. CASE UNCHANGED vars
  BY <1>6, <1>9 DEF vars
<1> QED
  BY <1>1, <1>2, <1>3, <1>4, <1>5, <1>7, <1>8, <1>9 DEF Next, Step

(* Nothing but a request changes what the usage callback judged. *)
LEMMA UsageStep ==
  ASSUME UsageInv, [Next]_vars
  PROVE  UsageInv'
<1> USE DEF UsageInv, downVars
<1>1. CASE UsageFails
  <2>1. CASE \E a \in AllAnswers :
               usage' = [answer |-> a, headers |-> NoHeaders, ban |-> DetectBan(a)]
    BY <2>1, NoHeadersType
  <2>2. CASE \E a \in Answers, h \in AllHeaders :
               /\ DetectBan(a) = "free-usage-exhausted"
               /\ usage' = [answer |-> a, headers |-> h, ban |-> DetectBan(a)]
    BY <2>2, ProbeAssumption
  <2> QED
    BY <1>1, <2>1, <2>2 DEF UsageFails
<1>2. CASE UsageDone
  BY <1>2, NoHeadersType DEF UsageDone, NoUsage
<1>3. CASE UNCHANGED usage
  BY <1>3
<1>4. ASSUME NEW p \in Probes, StartProbe(p) \/ Step(p) PROVE UNCHANGED usage
  BY <1>4 DEF StartProbe, Step, CallTimesOut, ProbeTimesOut, Admit, Enter,
              TokenReturns, AnswerReturns, ErrorReturns
<1>5. ASSUME Shutdown \/ DownStep PROVE UNCHANGED usage
  BY <1>5 DEF Shutdown, DownStep, CloseAdmission, Clear
<1> QED
  BY <1>1, <1>2, <1>3, <1>4, <1>5 DEF Next, vars

(* What becomes of the call when the probe goes on or ends. *)
LEMMA CallAfter ==
  ASSUME ProbeInv, UnloadInv, NEW p \in Probes, NEW a, Delivered(p, a), inner[p] # "off"
  PROVE  /\ call' \in [Probes -> {"off", "new", "gate", "host"}]
         /\ \A q \in Probes : call'[q] # call[q] => q = p /\ call'[p] \in {"off", "new"}
         /\ \A q \in Probes : inner'[q] = "off" <=> inner[q] = "off"
<1> USE DEF UnloadInv, ProbeInv, ProbeType
<1>1. ASSUME NEW which \in {"retry", "fallback"}, NEW b, Calls(p, which, b)
      PROVE  /\ call' = [call EXCEPT ![p] = "new"]
             /\ inner' = [inner EXCEPT ![p] = which]
  BY <1>1 DEF Calls
<1>2. ASSUME NEW v, Ends(p, v, "off")
      PROVE  /\ call' = [call EXCEPT ![p] = "off"]
             /\ inner' = [inner EXCEPT ![p] = "over"]
  BY <1>2 DEF Ends
<1>3. CASE inner[p] = "over"
  BY <1>3 DEF Delivered, probeVars
<1>4. CASE inner[p] # "over"
  <2>1. \/ \E v : Ends(p, v, "off")
        \/ \E which \in {"retry", "fallback"} : \E b : Calls(p, which, b)
    <3>1. Unanswered(p, "off") \/ Answered(p, a)
      BY <1>4 DEF Delivered
    <3>2. inner[p] \in {"primary", "retry", "fallback"}
      BY <1>4
    <3> QED
      BY <3>1, <3>2 DEF Unanswered, Answered, Settle
  <2> QED
    BY <1>1, <1>2, <2>1
<1> QED
  BY <1>3, <1>4

(* Every step keeps the gate shut for good. *)
LEMMA UnloadStep ==
  ASSUME ProbeInv, UnloadInv, [Next]_vars
  PROVE  UnloadInv'
<1> USE DEF UnloadInv, Admitted, probeVars, callVars, downVars
<1>1. ASSUME NEW p \in Probes, StartProbe(p) PROVE UnloadInv'
  BY <1>1 DEF StartProbe, ProbeInv, ProbeType
<1>2. ASSUME NEW p \in Probes, CallTimesOut(p) PROVE UnloadInv'
  BY <1>2 DEF CallTimesOut, Unanswered, Ends, ProbeInv, ProbeType
<1>3. ASSUME NEW p \in Probes, ProbeTimesOut(p) \/ Enter(p) \/ TokenReturns(p)
      PROVE  UnloadInv'
  BY <1>3 DEF ProbeTimesOut, Enter, TokenReturns, ProbeInv, ProbeType
<1>4. ASSUME NEW p \in Probes, Admit(p) PROVE UnloadInv'
  <2>1. CASE closed
    BY <1>4, <2>1, CallAfter DEF Admit
  <2>2. CASE ~closed
    BY <1>4, <2>2 DEF Admit
  <2> QED
    BY <2>1, <2>2
<1>5. ASSUME NEW p \in Probes, AnswerReturns(p) \/ ErrorReturns(p) PROVE UnloadInv'
  <2>1. PICK a : Delivered(p, a)
    BY <1>5 DEF AnswerReturns, ErrorReturns
  <2>2. call[p] = "host" /\ UNCHANGED <<shutdown, closed>>
    BY <1>5 DEF AnswerReturns, ErrorReturns
  <2> QED
    BY <2>1, <2>2, CallAfter
<1>6. CASE UsageFails \/ UsageDone \/ Shutdown
  BY <1>6 DEF UsageFails, UsageDone, Shutdown
<1>7. CASE DownStep
  BY <1>7 DEF DownStep, CloseAdmission, Clear
<1>8. CASE UNCHANGED vars
  BY <1>8 DEF vars
<1> QED
  BY <1>1, <1>2, <1>3, <1>4, <1>5, <1>6, <1>7, <1>8 DEF Next, Step

(* The invariants hold in every state of the probes and the gate. *)
THEOREM ProbeInvariant == Spec => [](ProbeInv /\ UsageInv /\ UnloadInv)
<1>1. ProbeInv /\ UsageInv /\ UnloadInv /\ [Next]_vars
        => (ProbeInv /\ UsageInv /\ UnloadInv)'
  BY KnowsStep, UsageStep, UnloadStep
<1> QED
  BY <1>1, KnowsInit, PTL DEF Spec

(* No call is in the host, or on its way, once the host may unload the     *)
(* plugin, however many probes and calls were left behind.                 *)
THEOREM Unload == Spec => []NoCallAfterUnload
<1>1. UnloadInv => NoCallAfterUnload
  BY DEF UnloadInv, NoCallAfterUnload
<1> QED
  BY <1>1, ProbeInvariant, PTL

(* A row recommends an action only on an answer of its own probe that      *)
(* proves it, for all answers there can be.                                *)
THEOREM Proved == Spec => []ActionIsProved
<1>1. ProbeInv => ActionIsProved
  BY DEF ProbeInv, Knows, ActionIsProved, Decisions, Dis
<1> QED
  BY <1>1, ProbeInvariant, PTL

(* The usage callback and the inspection agree on every answer. *)
THEOREM BansAgree == Spec => []BansAgreeWithVerdicts
<1>1. UsageInv => BansAgreeWithVerdicts
  BY BanMatches DEF UsageInv, BansAgreeWithVerdicts
<1> QED
  BY <1>1, ProbeInvariant, PTL

(* A ban that ends by itself ends ahead and within five years, whatever    *)
(* the headers of the answer hold.                                         *)
THEOREM BansEnd == Spec => []BanEndsAhead
<1>1. UsageInv => BanEndsAhead
  <2> SUFFICES ASSUME UsageInv, usage.ban # "none"
               PROVE  BanEndsAhead
    BY DEF BanEndsAhead
  <2> DEFINE h == usage.headers
             w == BanWindow(usage.ban, h)
  <2>1. CASE usage.ban = "free-usage-exhausted"
    <3>1. w = ResolveResetAt(h)
      BY <2>1 DEF BanWindow
    <3>2. h \in AllHeaders
      BY DEF UsageInv
    <3> QED
      BY <2>1, <3>1, <3>2, HeadersAhead DEF BanEndsAhead
  <2>2. CASE usage.ban # "free-usage-exhausted"
    <3>1. w.source = "manual_unban"
      BY <2>2 DEF BanWindow, Window
    <3>2. \A i \in 1 .. 3 : h.reset[i] \notin 1 .. FiveYears
      BY <2>2 DEF UsageInv, NoHeaders, Missing, FiveYears
    <3> QED
      BY <3>1, <3>2 DEF BanEndsAhead
  <2> QED
    BY <2>1, <2>2
<1> QED
  BY <1>1, ProbeInvariant, PTL

-----------------------------------------------------------------------------
(* A probe that ends by itself recommends what its answers prove. *)
Stands(p) ==
  row[p] = NoVerdict /\ row'[p] # NoVerdict /\ inner'[p] = "over" =>
    \A a \in seen'[p], x \in Decisions : Proves(a, x, Dis(p)) => row'[p].action = x

(* So it does when the last answer is judged, *)
LEMMA JudgedStands ==
  ASSUME ProbeInv, NEW p \in Probes, NEW a \in Answers, Ends(p, Judged(p, a), "off"),
         inner[p] \in {"primary", "retry", "fallback"},
         seen' = [seen EXCEPT ![p] = @ \union {a}]
  PROVE  \A q \in Probes : Stands(q)
<1> USE DEF ProbeInv, ProbeType, Ends
<1>1. a \in AllAnswers
  BY ProbeAssumption
<1>2. \A q \in Probes \ {p} : row'[q] = row[q]
  OBVIOUS
<1>3. \A b \in seen[p] : ~Settles(p, b)
  BY DEF Knows
<1>4. seen'[p] = seen[p] \union {a}
  OBVIOUS
<1>5. row'[p] = row[p] \/ row'[p] = Judged(p, a)
  OBVIOUS
<1>6. \A x \in Decisions : Proves(a, x, Dis(p)) => Judged(p, a).action = x
  BY <1>1, JudgedProves
<1>7. Stands(p)
  BY <1>3, <1>4, <1>5, <1>6 DEF Stands, Settles
<1> QED
  BY <1>2, <1>7 DEF Stands

(* and when nothing came: then it was not told anything that proves. *)
LEMMA UnansweredStands ==
  ASSUME ProbeInv, NEW p \in Probes, NEW c, Unanswered(p, c), seen' = seen,
         inner[p] \in {"primary", "retry", "fallback"}
  PROVE  \A q \in Probes : Stands(q)
<1> USE DEF ProbeInv, ProbeType, Unanswered, Ends
<1>1. \A q \in Probes \ {p} : row'[q] = row[q]
  OBVIOUS
<1>2. \A b \in seen'[p] : ~Settles(p, b)
  BY DEF Knows
<1>3. Stands(p)
  BY <1>2 DEF Stands, Settles
<1> QED
  BY <1>1, <1>3 DEF Stands

(* Whatever a call brings, the proof stands. *)
LEMMA DeliveredStands ==
  ASSUME ProbeInv, NEW p \in Probes, NEW a \in Answers \union {NoAnswer},
         Delivered(p, a), inner[p] # "off"
  PROVE  \A q \in Probes : Stands(q)
<1>1. CASE inner[p] = "over"
  BY <1>1 DEF Delivered, probeVars, Stands
<1>2. CASE inner[p] # "over" /\ a = NoAnswer
  <2>1. seen' = seen /\ Unanswered(p, "off")
    BY <1>2 DEF Delivered, ProbeInv, ProbeType
  <2> QED
    BY <1>2, <2>1, UnansweredStands DEF ProbeInv, ProbeType
<1>3. CASE inner[p] # "over" /\ a # NoAnswer
  <2>1. a \in Answers /\ Answered(p, a) /\ inner[p] \in {"primary", "retry", "fallback"}
    BY <1>3 DEF Delivered, ProbeInv, ProbeType
  <2>2. seen' = [seen EXCEPT ![p] = @ \union {a}]
    BY <1>3 DEF Delivered
  <2>3. ASSUME NEW which, NEW b, Calls(p, which, b) PROVE row' = row
    BY <2>3 DEF Calls
  <2>4. Ends(p, Judged(p, a), "off") \/ row' = row
    BY <2>1, <2>3 DEF Answered, Settle, ResolveProbeOutcome, ProbeInv, Knows
  <2> QED
    BY <2>1, <2>2, <2>4, JudgedStands DEF Stands
<1> QED
  BY <1>1, <1>2, <1>3

(* No step overrules a proof. *)
LEMMA StandsStep ==
  ASSUME ProbeInv, UnloadInv, [Next]_vars
  PROVE  \A p \in Probes : Stands(p)
<1> USE DEF probeVars, callVars, downVars
<1>1. ASSUME NEW p \in Probes, CallTimesOut(p) PROVE \A q \in Probes : Stands(q)
  <2>1. inner[p] \in {"primary", "retry", "fallback"}
    BY <1>1 DEF CallTimesOut, ProbeInv, ProbeType
  <2> QED
    BY <1>1, <2>1, UnansweredStands DEF CallTimesOut
<1>2. ASSUME NEW p \in Probes, ProbeTimesOut(p) PROVE \A q \in Probes : Stands(q)
  BY <1>2 DEF ProbeTimesOut, Stands, ProbeInv, ProbeType, Knows
<1>3. ASSUME NEW p \in Probes, Admit(p) PROVE \A q \in Probes : Stands(q)
  <2>1. CASE closed
    BY <1>3, <2>1, DeliveredStands DEF Admit, UnloadInv
  <2>2. CASE ~closed
    BY <1>3, <2>2 DEF Admit, Stands
  <2> QED
    BY <2>1, <2>2
<1>4. ASSUME NEW p \in Probes, AnswerReturns(p) \/ ErrorReturns(p)
      PROVE  \A q \in Probes : Stands(q)
  BY <1>4, DeliveredStands DEF AnswerReturns, ErrorReturns, UnloadInv
<1>5. ASSUME UNCHANGED row PROVE \A q \in Probes : Stands(q)
  BY <1>5 DEF Stands
<1>6. ASSUME NEW p \in Probes, StartProbe(p) \/ Enter(p) \/ TokenReturns(p)
      PROVE  UNCHANGED row
  BY <1>6 DEF StartProbe, Enter, TokenReturns
<1>7. ASSUME UsageFails \/ UsageDone \/ Shutdown \/ DownStep PROVE UNCHANGED row
  BY <1>7 DEF UsageFails, UsageDone, Shutdown, DownStep, CloseAdmission, Clear
<1> QED
  BY <1>1, <1>2, <1>3, <1>4, <1>5, <1>6, <1>7 DEF Next, Step, vars

(* When a probe ends by itself after an answer that proves something, its  *)
(* row recommends just that, for all answers and in whatever order calls   *)
(* come back or are given up.                                              *)
THEOREM ProofIsKept == Spec => ProofStands
<1>1. ProbeInv /\ UnloadInv /\ [Next]_vars =>
        [\A p \in Probes :
           (row[p] = NoVerdict /\ row'[p] # NoVerdict /\ inner'[p] = "over") =>
             \A a \in seen'[p], action \in {"delete", "disable", "enable"} :
               Proves(a, action, p \in Disabled) => row'[p].action = action]_vars
  BY StandsStep DEF Stands, Decisions, Dis
<1> QED
  BY <1>1, ProbeInvariant, PTL DEF Spec, ProofStands
=============================================================================
