------------------------------ MODULE Verdicts ------------------------------
(***************************************************************************)
(* What an answer of the model service says about an account.  The         *)
(* inspection judges the answer to its probe (classify.go); the usage      *)
(* callback judges every failed request of the proxy and bans on its own   *)
(* (ban_detector.go).  The two read the body differently.                  *)
(*                                                                         *)
(* An answer is its status, the code its body carries, whether the code is *)
(* inside the error object, whether the body is JSON at all, and the kinds *)
(* of phrases its text contains.                                           *)
(***************************************************************************)
EXTENDS Integers

Statuses == {200, 401, 402, 403, 404, 426, 429, 500}
Codes == {"none", "exhausted", "denied", "spending", "invalid_grant", "other"}
Phrases == {"safety", "credential", "quota", "account", "missing"}
AllAnswers == {a \in [status : Statuses, code : Codes, nested : BOOLEAN,
                      json : BOOLEAN, says : SUBSET Phrases] :
                 ~a.json => a.code = "none" /\ ~a.nested}

Classes == {"healthy", "quota_exhausted", "permission_denied", "spending_limit",
            "reauth", "model_unavailable", "probe_error"}
Definitive == {"reauth", "quota_exhausted", "permission_denied", "spending_limit"}
Verdict(class, action) == [class |-> class, action |-> action]
Keep(class) == Verdict(class, "keep")

(* The text matchers; code and message are searched together. *)
IsContentSafetyViolation(a) == "safety" \in a.says
IsStrongUnauthorizedEvidence(code, says) ==
  "credential" \in says \/ code = "invalid_grant"
IsFreeUsageExhausted(a) == "quota" \in a.says \/ a.code = "exhausted"
IsSpendingLimitBlocked(a) == a.code = "spending"
IsAccountLevelPermissionDenied(status, says) ==
  status = 403 /\ "account" \in says /\ "safety" \notin says

(* recommendAction *)
RecommendAction(class, disabled) ==
  CASE class = "healthy" -> IF disabled THEN "enable" ELSE "keep"
    [] class \in Definitive \ {"reauth"} -> IF disabled THEN "keep" ELSE "disable"
    [] class = "reauth" -> "delete"
    [] OTHER -> "keep"

Recommended(class, disabled) == Verdict(class, RecommendAction(class, disabled))

(* mutant: a 401 is enough *)
ClassifyProbe_Any401(a, disabled) ==
  CASE IsContentSafetyViolation(a) -> Keep("probe_error")
    [] a.status = 401 -> Recommended("reauth", disabled)
    [] OTHER -> Keep("probe_error")

(* classifyProbe: the first case that applies. *)
ClassifyProbe(a, disabled) ==
  CASE IsContentSafetyViolation(a) -> Keep("probe_error")
    [] ~IsContentSafetyViolation(a) /\ a.status = 401 ->
         IF IsStrongUnauthorizedEvidence(a.code, a.says)
           THEN Verdict("reauth", "delete") ELSE Keep("probe_error")
    [] OTHER ->
         IF IsFreeUsageExhausted(a)
           THEN Recommended("quota_exhausted", disabled)
         ELSE IF a.status = 429 THEN Keep("probe_error")
         ELSE IF a.status = 402 /\ IsSpendingLimitBlocked(a)
           THEN Recommended("spending_limit", disabled)
         ELSE IF a.status = 426 THEN Keep("probe_error")
         ELSE IF IsAccountLevelPermissionDenied(a.status, a.says)
           THEN Recommended("permission_denied", disabled)
         ELSE IF a.status = 403 THEN Keep("probe_error")
         ELSE IF a.status = 404 \/ "missing" \in a.says
           THEN Keep("model_unavailable")
         ELSE IF a.status = 200 THEN Recommended("healthy", disabled)
         ELSE Keep("probe_error")

(* shouldTryFallback *)
ShouldTryFallback(status, class) ==
  /\ class \notin Definitive \union {"healthy"}
  /\ status # 429

(* resolveProbeOutcome *)
ResolveProbeOutcome(primary, fallback) ==
  IF primary.class \in Definitive THEN primary ELSE fallback

(* parseErrorCode and parseErrorMessage: a code at the top of a JSON body, *)
(* and no text of a body that is not JSON.                                 *)
ParsedCode(a) == IF a.nested THEN "none" ELSE a.code
ParsedText(a) == IF a.json THEN a.says ELSE {}

(* mutant: the code alone decides *)
DetectBan_CodeOnly(a) ==
  CASE a.status = 401 -> "unauthorized"
    [] a.status = 403 /\ ParsedCode(a) = "denied" -> "permission-denied"
    [] OTHER -> "none"

(* detectBan and resolveBanWindow: the reason of the ban, or none. *)
DetectBan(a) ==
  CASE a.status = 401 /\ IsStrongUnauthorizedEvidence(ParsedCode(a), ParsedText(a))
         -> "unauthorized"
    [] a.status = 403 /\ ParsedCode(a) = "denied"
         /\ IsAccountLevelPermissionDenied(403, ParsedText(a))
         -> "permission-denied"
    [] a.status = 429 /\ ParsedCode(a) = "exhausted" -> "free-usage-exhausted"
    [] a.status = 402 /\ ParsedCode(a) = "spending" -> "spending-limit"
    [] OTHER -> "none"

(* The class of an inspection that stands for the same reason. *)
BanClass == [r \in {"unauthorized", "permission-denied", "free-usage-exhausted",
                    "spending-limit"} |->
               CASE r = "unauthorized" -> "reauth"
                 [] r = "permission-denied" -> "permission_denied"
                 [] r = "free-usage-exhausted" -> "quota_exhausted"
                 [] r = "spending-limit" -> "spending_limit"]

-----------------------------------------------------------------------------
(* When a ban ends.  Times are relative to now.  A reset header is missing, *)
(* unreadable or a time; seconds and milliseconds are both understood.      *)

Fallback == 2        \* FallbackHours
FiveYears == 5       \* nothing further away is believed
Never == 100         \* now.AddDate(100, 0, 0): until somebody unbans it
Unreadable == -100
Missing == -101

(* A time.Duration is an integer of so many bits, and a second so many of   *)
(* its units: scaled down from 64 and 10^9.                                 *)
Width == 8
Second == 10
Wrapped(n) == ((n + 2^(Width - 1)) % 2^Width) - 2^(Width - 1)

Times == {-1, 0, 1, FiveYears, FiveYears + 1, Unreadable, Missing}
AllHeaders ==
  [reset : [1 .. 3 -> Times],              \* the three reset headers, by rank
   retry : {Missing, Unreadable, 0, 1, 12, 13},    \* Retry-After in seconds
   date : {Missing, Unreadable, -3, 0, 1}] \* the clock of the service
NoHeaders == [reset |-> [i \in 1 .. 3 |-> Missing], retry |-> Missing,
              date |-> Missing]

Window(at, source) == [at |-> at, source |-> source]

(* mutant: the first header that can be read is the one *)
Believable_Readable(t) == t \notin {Missing, Unreadable}

(* absoluteResetTime, unixResetTime *)
Believable(t) == t \notin {Missing, Unreadable} /\ t > 0 /\ t <= FiveYears

(* resolveResetAt *)
ResolveResetAt(h) ==
  IF \E i \in 1 .. 3 : Believable(h.reset[i])
    THEN LET first == CHOOSE i \in 1 .. 3 :
                        Believable(h.reset[i]) /\ \A j \in 1 .. i - 1 : ~Believable(h.reset[j])
         IN Window(h.reset[first], "header_absolute")
  ELSE IF h.retry \notin {Missing, Unreadable} /\ h.retry > 0
    THEN Window(Wrapped(h.retry * Second), "header_relative")
  ELSE IF h.date \notin {Missing, Unreadable}
    THEN Window(h.date + Fallback, "date_plus_fallback")
  ELSE Window(Fallback, "local_plus_fallback")

(* resolveBanWindow for a reason detectBan accepts: only the quota comes    *)
(* back by itself.                                                          *)
BanWindow(reason, h) ==
  IF reason = "free-usage-exhausted" THEN ResolveResetAt(h)
                                     ELSE Window(Never, "manual_unban")
=============================================================================
