----------------------------- MODULE MCSchedule -----------------------------
(***************************************************************************)
(* Instances of module Schedule.                                           *)
(***************************************************************************)
EXTENDS Schedule, TLC

CONSTANTS a1, a2

Off == [enabled |-> FALSE, sample |-> FALSE, delete |-> FALSE, recover |-> FALSE]
FullDelete == [enabled |-> TRUE, sample |-> FALSE, delete |-> TRUE, recover |-> FALSE]
SampleRecover == [enabled |-> TRUE, sample |-> TRUE, delete |-> FALSE, recover |-> TRUE]

SomeSettings == {Off, FullDelete, SampleRecover}
OnSettings == {FullDelete, SampleRecover}
TurnedOnOrOff == {Off, FullDelete}
NoSettings == {}

(* scheduledQuotaExhaustedTargets and the like: 429 and 401 are disabled,  *)
(* 403 and 402 are disabled or deleted as set, healthy ones may be enabled *)
AllStages == <<[class |-> "quota_exhausted", kind |-> "disable"],
               [class |-> "reauth", kind |-> "disable"],
               [class |-> "permission_denied", kind |-> "choice"],
               [class |-> "spending_limit", kind |-> "choice"],
               [class |-> "healthy", kind |-> "enable"]>>
AllClasses == {AllStages[i].class : i \in DOMAIN AllStages}

SomeStages == <<AllStages[3], AllStages[5]>>
SomeClasses == {"permission_denied", "healthy"}

OneStage == <<AllStages[3]>>
OneClass == {"permission_denied"}

NoAccounts == {}
OneAccount == {a1}
TwoAccounts == {a1, a2}
Symmetry == Permutations(Accounts)
=============================================================================
