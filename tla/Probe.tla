-------------------------------- MODULE Probe --------------------------------
(***************************************************************************)
(* Probes of accounts (probe.go) through the bounded gate to the host      *)
(* (host_gate.go, cgo_bridge.go).  A call into the host cannot be taken    *)
(* back.  So every wait has a deadline of its own and leaves a goroutine   *)
(* behind that is still at work: a call that took too long goes on without *)
(* its probe, a probe that took too long goes on without its worker, with  *)
(* further calls.  The shutdown must not let the host unload the plugin    *)
(* under one of these calls.                                               *)
(*                                                                         *)
(* A probe asks once, asks again after a bare 429, and asks another        *)
(* endpoint when the answer settles nothing.  Each of these calls gets the *)
(* access token first and then sends the request: two passes of the gate.  *)
(***************************************************************************)
EXTENDS Verdicts, FiniteSets

CONSTANTS
  Probes,         \* probes, of any accounts
  Disabled,       \* those of accounts that are disabled
  Capacity,       \* cap(hostCallGate)
  Answers         \* answers of the model service that occur

ASSUME ProbeAssumption ==
  /\ IsFiniteSet(Probes) /\ Disabled \subseteq Probes
  /\ Capacity \in Nat \ {0} /\ Answers \subseteq AllAnswers

NoAnswer == [status |-> 0, code |-> "none", nested |-> FALSE, json |-> FALSE,
             says |-> {}]
NoVerdict == Verdict("none", "none")
TimedOut == Verdict("probe_error", "keep")
NoUsage == [answer |-> NoAnswer, headers |-> NoHeaders, ban |-> "none"]

VARIABLES
  worker,         \* inspectAccount: "none", "waiting", "done"
  row,            \* the verdict of the row it returned
  inner,          \* inspectAccountInner: "off", the call it is at, "over"
  resp,           \* its response so far
  call,           \* the goroutine of its call: "off", "new", "gate", "host"
  stage,          \* of the call: "token" or "http"
  shutdown,       \* "no", "waiting", "draining", "cleared"
  closed,         \* hostCallShuttingDown
  usage,          \* the failed request the usage callback judged last
  seen            \* history: the answers that reached each probe

probeVars == <<worker, row, inner, resp>>
callVars == <<call, stage>>
downVars == <<shutdown, closed>>
vars == <<probeVars, callVars, downVars, usage, seen>>

Init ==
  /\ worker = [p \in Probes |-> "none"]
  /\ row = [p \in Probes |-> NoVerdict]
  /\ inner = [p \in Probes |-> "off"]
  /\ resp = [p \in Probes |-> NoAnswer]
  /\ call = [p \in Probes |-> "off"]
  /\ stage = [p \in Probes |-> "token"]
  /\ shutdown = "no" /\ closed = FALSE
  /\ usage = NoUsage
  /\ seen = [p \in Probes |-> {}]

(* The calls hostCallWG counts, and those that hold a slot of the gate. *)
Admitted == {p \in Probes : call[p] \in {"gate", "host"}}
InHost == {p \in Probes : call[p] = "host"}

-----------------------------------------------------------------------------
(* The probe *)

(* What one step does to the probe: its next call, or its end.  The row    *)
(* counts only while the worker waits for it.                              *)
Calls(p, which, answer) ==
  /\ inner' = [inner EXCEPT ![p] = which]
  /\ resp' = [resp EXCEPT ![p] = answer]
  /\ call' = [call EXCEPT ![p] = "new"]
  /\ stage' = [stage EXCEPT ![p] = "token"]
  /\ UNCHANGED <<worker, row>>

Ends(p, verdict, callAfter) ==
  /\ inner' = [inner EXCEPT ![p] = "over"]
  /\ resp' = [resp EXCEPT ![p] = NoAnswer]
  /\ call' = [call EXCEPT ![p] = callAfter]
  /\ IF callAfter = "off" THEN stage' = [stage EXCEPT ![p] = "token"]
                          ELSE UNCHANGED stage
  /\ IF worker[p] = "waiting"
       THEN worker' = [worker EXCEPT ![p] = "done"] /\ row' = [row EXCEPT ![p] = verdict]
       ELSE UNCHANGED <<worker, row>>

Judged(p, answer) == ClassifyProbe(answer, p \in Disabled)

StartProbe(p) ==
  /\ shutdown = "no" /\ worker[p] = "none" /\ usage = NoUsage
  /\ worker' = [worker EXCEPT ![p] = "waiting"]
  /\ inner' = [inner EXCEPT ![p] = "primary"]
  /\ call' = [call EXCEPT ![p] = "new"]
  /\ UNCHANGED <<row, resp, stage, downVars, usage, seen>>

(* After the primary answer, or the one to the repeated question. *)
Settle(p, answer) ==
  IF ShouldTryFallback(answer.status, Judged(p, answer).class)
    THEN Calls(p, "fallback", answer)
    ELSE Ends(p, Judged(p, answer), "off")

(* mutant: whatever is not healthy is asked again *)
Answered_RetriesAll(p, answer) ==
  CASE inner[p] = "primary" ->
         IF Judged(p, answer).class # "healthy" THEN Calls(p, "retry", answer)
                                                ELSE Settle(p, answer)
    [] inner[p] = "retry" -> Settle(p, answer)
    [] inner[p] = "fallback" ->
         Ends(p, ResolveProbeOutcome(Judged(p, resp[p]), Judged(p, answer)), "off")

(* The call is over and the probe still waits for it. *)
Answered(p, answer) ==
  CASE inner[p] = "primary" ->
         IF answer.status = 429 /\ ~IsFreeUsageExhausted(answer)
           THEN Calls(p, "retry", answer) ELSE Settle(p, answer)
    [] inner[p] = "retry" -> Settle(p, answer)
    [] inner[p] = "fallback" ->
         Ends(p, ResolveProbeOutcome(Judged(p, resp[p]), Judged(p, answer)), "off")

(* No answer: the verdict on what was answered before, if anything was. *)
Unanswered(p, callAfter) ==
  Ends(p, IF inner[p] = "primary" THEN TimedOut ELSE Judged(p, resp[p]), callAfter)

Delivered(p, answer) ==
  IF inner[p] = "over"
    THEN /\ call' = [call EXCEPT ![p] = "off"] /\ stage' = [stage EXCEPT ![p] = "token"]
         /\ UNCHANGED <<probeVars, seen>>
    ELSE /\ IF answer = NoAnswer THEN Unanswered(p, "off") ELSE Answered(p, answer)
         /\ seen' = [seen EXCEPT ![p] = @ \union ({answer} \ {NoAnswer})]

(* probeHTTPTimeout: the call is left to itself. *)
CallTimesOut(p) ==
  /\ inner[p] \notin {"off", "over"} /\ call[p] # "off"
  /\ Unanswered(p, call[p])
  /\ UNCHANGED <<downVars, usage, seen>>

(* mutant: the time a call queues does not count *)
ProbeTimesOut_Queued(p) ==
  /\ worker[p] = "waiting" /\ call[p] # "gate"
  /\ worker' = [worker EXCEPT ![p] = "done"]
  /\ row' = [row EXCEPT ![p] = TimedOut]
  /\ UNCHANGED <<inner, resp, callVars, downVars, usage, seen>>

(* accountProbeTimeout: the probe is left to itself. *)
ProbeTimesOut(p) ==
  /\ worker[p] = "waiting"
  /\ worker' = [worker EXCEPT ![p] = "done"]
  /\ row' = [row EXCEPT ![p] = TimedOut]
  /\ UNCHANGED <<inner, resp, callVars, downVars, usage, seen>>

-----------------------------------------------------------------------------
(* callHost *)

(* tryAcquireHostCall, its part under hostCallMu. *)
Admit(p) ==
  /\ call[p] = "new"
  /\ IF closed
       THEN Delivered(p, NoAnswer)
       ELSE /\ call' = [call EXCEPT ![p] = "gate"]
            /\ UNCHANGED <<probeVars, stage, seen>>
  /\ UNCHANGED <<downVars, usage>>

(* mutant: those that queue count too *)
Enter_CountsQueue(p) ==
  /\ call[p] = "gate" /\ Cardinality(Admitted) <= Capacity
  /\ call' = [call EXCEPT ![p] = "host"]
  /\ UNCHANGED <<probeVars, stage, downVars, usage, seen>>

(* A slot of the gate. *)
Enter(p) ==
  /\ call[p] = "gate" /\ Cardinality(InHost) < Capacity
  /\ call' = [call EXCEPT ![p] = "host"]
  /\ UNCHANGED <<probeVars, stage, downVars, usage, seen>>

(* The host returns and the slot is free: with the token, the answer of    *)
(* the service, or an error.                                               *)
TokenReturns(p) ==
  /\ call[p] = "host" /\ stage[p] = "token"
  /\ stage' = [stage EXCEPT ![p] = "http"]
  /\ call' = [call EXCEPT ![p] = "new"]
  /\ UNCHANGED <<probeVars, downVars, usage, seen>>

AnswerReturns(p) ==
  /\ call[p] = "host" /\ stage[p] = "http"
  /\ \E a \in Answers : Delivered(p, a)
  /\ UNCHANGED <<downVars, usage>>

ErrorReturns(p) ==
  /\ call[p] = "host" /\ Delivered(p, NoAnswer)
  /\ UNCHANGED <<downVars, usage>>

-----------------------------------------------------------------------------
(* The usage callback *)

(* detectBan on a request that failed.  It shares no state with the        *)
(* probes: that it runs before all of them is a bound.                     *)
UsageFails ==
  /\ usage = NoUsage /\ shutdown = "no" /\ \A p \in Probes : worker[p] = "none"
  /\ \/ \E a \in AllAnswers :
          usage' = [answer |-> a, headers |-> NoHeaders, ban |-> DetectBan(a)]
     \/ \E a \in Answers, h \in AllHeaders :
          /\ DetectBan(a) = "free-usage-exhausted"
          /\ usage' = [answer |-> a, headers |-> h, ban |-> DetectBan(a)]
  /\ UNCHANGED <<probeVars, callVars, downVars, seen>>

UsageDone ==
  /\ usage # NoUsage /\ usage' = NoUsage
  /\ UNCHANGED <<probeVars, callVars, downVars, seen>>

-----------------------------------------------------------------------------
(* engine.shutdown, from the gate of the engine to clear_host_api *)

Shutdown ==
  /\ shutdown = "no" /\ usage = NoUsage /\ shutdown' = "waiting"
  /\ UNCHANGED <<probeVars, callVars, closed, usage, seen>>

(* mutant: the calls are waited for first, admission stays open *)
CloseAdmission_Never ==
  /\ shutdown = "waiting" /\ \A p \in Probes : worker[p] # "waiting"
  /\ shutdown' = "draining"
  /\ UNCHANGED <<probeVars, callVars, closed, usage, seen>>

(* runWG has been waited for; closeHostCallAdmission. *)
CloseAdmission ==
  /\ shutdown = "waiting" /\ \A p \in Probes : worker[p] # "waiting"
  /\ shutdown' = "draining" /\ closed' = TRUE
  /\ UNCHANGED <<probeVars, callVars, usage, seen>>

(* hostCallWG.Wait has returned; clear_host_api, and the host may unload. *)
Clear ==
  /\ shutdown = "draining" /\ Admitted = {}
  /\ shutdown' = "cleared"
  /\ UNCHANGED <<probeVars, callVars, closed, usage, seen>>

Step(p) == \/ CallTimesOut(p) \/ ProbeTimesOut(p)
           \/ Admit(p) \/ Enter(p)
           \/ TokenReturns(p) \/ AnswerReturns(p) \/ ErrorReturns(p)
DownStep == CloseAdmission \/ Clear

Next == \/ \E p \in Probes : StartProbe(p) \/ Step(p)
        \/ UsageFails \/ UsageDone \/ Shutdown \/ DownStep

Spec == Init /\ [][Next]_vars

(* Time passes and goroutines run; nothing is said of the host. *)
Fairness ==
  /\ WF_vars(DownStep)
  /\ \A p \in Probes : WF_vars(ProbeTimesOut(p)) /\ WF_vars(Admit(p)) /\ SF_vars(Enter(p))
FairSpec == Spec /\ Fairness

-----------------------------------------------------------------------------
(* Every variable has the type the code gives it. *)
TypeOK ==
  /\ worker \in [Probes -> {"none", "waiting", "done"}]
  /\ row \in [Probes -> [class : Classes \union {"none"},
                         action : {"keep", "enable", "disable", "delete", "none"}]]
  /\ inner \in [Probes -> {"off", "primary", "retry", "fallback", "over"}]
  /\ resp \in [Probes -> Answers \union {NoAnswer}]
  /\ call \in [Probes -> {"off", "new", "gate", "host"}]
  /\ stage \in [Probes -> {"token", "http"}]
  /\ shutdown \in {"no", "waiting", "draining", "cleared"}
  /\ closed \in BOOLEAN
  /\ usage.answer \in AllAnswers \union {NoAnswer}
  /\ seen \in [Probes -> SUBSET Answers]

(* A reference of its own for what an answer proves. *)
Proves(a, action, disabled) ==
  /\ "safety" \notin a.says
  /\ CASE action = "delete" ->
            a.status = 401 /\ ("credential" \in a.says \/ a.code = "invalid_grant")
       [] action = "disable" ->
            /\ ~disabled
            /\ \/ a.status # 401 /\ ("quota" \in a.says \/ a.code = "exhausted")
               \/ a.status = 402 /\ a.code = "spending"
               \/ a.status = 403 /\ "account" \in a.says
       [] action = "enable" ->
            /\ disabled /\ a.status = 200
            /\ "missing" \notin a.says /\ "quota" \notin a.says /\ a.code # "exhausted"

(* A row recommends deleting, disabling or enabling an account only on an  *)
(* answer this very probe got and that proves it, whatever was asked       *)
(* again, timed out or came too late.                                      *)
ActionIsProved ==
  \A p \in Probes :
    row[p].action \in {"delete", "disable", "enable"} =>
      \E a \in seen[p] : Proves(a, row[p].action, p \in Disabled)

(* And a proof that came in time is not overruled by what was asked again  *)
(* or elsewhere: when a probe ends by itself after an answer that proves   *)
(* something, its row recommends just that.                                *)
ProofStands ==
  [][\A p \in Probes :
       (row[p] = NoVerdict /\ row'[p] # NoVerdict /\ inner'[p] = "over") =>
         \A a \in seen'[p], action \in {"delete", "disable", "enable"} :
           Proves(a, action, p \in Disabled) => row'[p].action = action]_vars

(* "Returning early would free the shared library under still-running      *)
(* Go/CGO stacks" (host_gate.go): no call is in the host, or on its way,   *)
(* once the host may unload the plugin.                                    *)
NoCallAfterUnload == shutdown = "cleared" => Admitted = {}

(* Every probe gives its worker back, even if the host never returns and   *)
(* the calls left behind hold every slot of the gate.                      *)
WorkersComeBack == \A p \in Probes : (worker[p] = "waiting") ~> (worker[p] = "done")

(* The shutdown ends if the host returns from its calls. *)
ShutdownEnds ==
  (\A p \in Probes : []<>(call[p] # "host"))
    => ((shutdown = "waiting") ~> (shutdown = "cleared"))

(* The usage callback bans only on an answer on which the inspection would *)
(* condemn the account too, and for the same reason, unless the text also  *)
(* speaks of the free quota, which comes first there.  Texts about content *)
(* are another matter: see SafetyNeverBans.                                *)
BansAgreeWithVerdicts ==
  usage.ban # "none" /\ ~IsContentSafetyViolation(usage.answer) =>
    LET class == ClassifyProbe(usage.answer, FALSE).class IN
    \/ class = BanClass[usage.ban]
    \/ class = "quota_exhausted" /\ "quota" \in usage.answer.says

(* A ban that ends by itself ends in the future, within the five years     *)
(* that are believed: whatever garbage the headers hold, a usable one is   *)
(* used.  What is not guarded is a service whose clock is behind by more   *)
(* than the fallback, and a Retry-After that does not fit a Duration.      *)
BanEndsAhead ==
  usage.ban # "none" =>
    LET w == BanWindow(usage.ban, usage.headers)
        h == usage.headers
    IN /\ w.source = "manual_unban" \/ usage.ban = "free-usage-exhausted"
       /\ (\E i \in 1 .. 3 : h.reset[i] \in 1 .. FiveYears)
            => w.source = "header_absolute" /\ w.at \in 1 .. FiveYears
       /\ w.source = "date_plus_fallback" /\ h.date + Fallback > 0 => w.at > 0
       /\ w.source = "header_relative" /\ h.retry * Second < 2^(Width - 1) => w.at > 0

(* ban_detector.go:43: "These must never trigger account                   *)
(* auto-disable/delete recommendations."                                   *)
SafetyNeverBans == IsContentSafetyViolation(usage.answer) => usage.ban = "none"

(* host_gate.go:114: without the wait the library would be freed "under    *)
(* still-running Go/CGO stacks".  A probe left behind between two calls is *)
(* not waited for.                                                         *)
NothingRunsAfterUnload ==
  shutdown = "cleared" => \A p \in Probes : inner[p] \in {"off", "over"} /\ call[p] = "off"
=============================================================================
