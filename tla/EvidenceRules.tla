----------------------------- MODULE EvidenceRules -----------------------------
(***************************************************************************)
(* The pure part of agent_loop_service.py: which evidence refs bind a       *)
(* decision, what a token budget drops from a context, and which root cause *)
(* and stop reason a loop observation gets.                                 *)
(*                                                                          *)
(* A ref is a record of the fields the rules read.                          *)
(***************************************************************************)
EXTENDS Integers, Sequences, FiniteSets

FrozenClasses == {"immutable", "versioned"}
VolatileClasses == {"mutable_current", "ephemeral_latest", "external_uncontrolled"}
PolicyRoles == {"decision_dependency", "validation_evidence", "policy_dependency"}
AuditRoles == {"audit_background", "trace_only", "superseded"}
FreshnessPolicies == {"none", "revalidate_on_resume", "revalidate_before_side_effect"}

Kinds == {"memory", "environment", "external_doc", "latest_execution_sample", "execution_record"}
IsRef(ref) ==
    /\ ref.kind \in Kinds /\ ref.role \in PolicyRoles \cup AuditRoles
    /\ ref.mutability \in FrozenClasses \cup VolatileClasses
    /\ ref.freshness \in FreshnessPolicies
    /\ ref.active \in BOOLEAN /\ ref.superseded \in BOOLEAN

Elements(refs) == {refs[i] : i \in DOMAIN refs}

IsPolicyRef(ref) == ref.active /\ ref.role \in PolicyRoles /\ ~ref.superseded

PolicyRefs(refs) == {ref \in Elements(refs) : IsPolicyRef(ref)}

-----------------------------------------------------------------------------
Levels == {"none", "light", "medium", "heavy"}
Rank == [none |-> 0, light |-> 1, medium |-> 2, heavy |-> 3]

(* The estimate in tenths of the budget.                                    *)
Degradation(tenths) ==
    IF tenths <= 10 THEN "none"
    ELSE IF tenths < 15 THEN "light"
    ELSE IF tenths < 25 THEN "medium" ELSE "heavy"

(* How many refs are dropped, from the end of the list.                     *)
Omitted(n, level) ==
    LET atLeastOne(k) == IF k < 1 THEN 1 ELSE k IN
    IF n = 0 \/ level = "none" THEN 0
    ELSE CASE level = "light"  -> atLeastOne(n \div 4)
           [] level = "medium" -> atLeastOne(n \div 2)
           [] level = "heavy"  -> atLeastOne(n - 1)

Kept(refs, level) == SubSeq(refs, 1, Len(refs) - Omitted(Len(refs), level))

(* Required ids that were never supplied are not counted as omitted.        *)
IsComplete(refs, level, required) ==
    required \cap (Elements(refs) \ Elements(Kept(refs, level))) = {}

-----------------------------------------------------------------------------
(* The reasons a rule or the stop list names, and one that none names.      *)
Incomplete == "evidence_incomplete_for_high_risk_action"

StopOrder ==
    <<Incomplete, "policy_loop", "repair_regression", "new_failures_outside_scope",
      "same_failure_no_progress", "permission_revoked_before_execution",
      "backend_capability_degraded", "backend_contract_unsupported", "max_iterations",
      "cost_budget_exceeded", "context_budget_exhausted", "accepted_unknown">>

Reasons == {StopOrder[i] : i \in DOMAIN StopOrder} \cup
           {"context_degraded_heavy", "approval_required_before_execution", "pending_approval"}

(* The first of StopOrder that is among the reasons.                        *)
PrimaryStopReason(reasons) ==
    LET hits == {i \in DOMAIN StopOrder : StopOrder[i] \in reasons} IN
    IF hits = {} THEN "none" ELSE StopOrder[CHOOSE i \in hits : \A j \in hits : i <= j]

-----------------------------------------------------------------------------
(* A rule matches when every reason of all is given, one of any (if there   *)
(* are any), none of none, and when holds of the observation.               *)
Rule(id, priority, all, any, none) ==
    [id |-> id, priority |-> priority, all |-> all, any |-> any, none |-> none]

SafetyRules ==
    {Rule("RC_CONTEXT_OMITTED_HIGH_RISK", 10, {Incomplete}, {}, {}),
     Rule("RC_PERMISSION_REVOKED", 15, {}, {"permission_revoked_before_execution"}, {}),
     Rule("RC_POLICY_LOOP", 18, {}, {"policy_loop"}, {})}

EvidenceContextRules ==
    {Rule("RC_EVIDENCE_INCOMPLETE", 20, {Incomplete}, {}, {}),
     Rule("RC_MEMORY_CONTRADICTION", 30, {"same_failure_no_progress"}, {}, {})}

RecoveryRules ==
    {Rule("RC_APPROVAL_PENDING", 40, {}, {"approval_required_before_execution", "pending_approval"}, {}),
     Rule("RC_BACKEND_CAPABILITY_DEGRADED", 45, {},
          {"backend_capability_degraded", "backend_contract_unsupported"}, {})}

RepairRules ==
    {Rule("RC_NO_PROGRESS_PURE", 60, {}, {"same_failure_no_progress"},
          {"repair_regression", "new_failures_outside_scope", "policy_loop", Incomplete,
           "backend_capability_degraded", "backend_contract_unsupported",
           "cost_budget_exceeded", "context_budget_exhausted", "max_iterations"}),
     Rule("RC_REPAIR_REGRESSION", 65, {}, {"repair_regression", "new_failures_outside_scope"}, {})}

LimitRules ==
    {Rule("RC_MAX_ITERATIONS", 80, {}, {"max_iterations"}, {}),
     Rule("RC_RESOURCE_LIMIT", 85, {}, {"cost_budget_exceeded", "context_budget_exhausted"}, {})}

FallbackRules ==
    {Rule("RC_UNKNOWN", 900, {}, {"accepted_unknown"}, {}),
     Rule("RC_RULE_MISSING", 999, {}, {}, {})}

Rules == SafetyRules \cup EvidenceContextRules \cup RecoveryRules \cup RepairRules
         \cup LimitRules \cup FallbackRules

(* The fields of the observation a rule asks for: o is a record of level,   *)
(* complete, risky and contradictions.                                      *)
Asks(rule, o) ==
    CASE rule.id = "RC_CONTEXT_OMITTED_HIGH_RISK" -> o.level = "heavy" /\ ~o.complete /\ o.risky
      [] rule.id = "RC_EVIDENCE_INCOMPLETE"       -> ~o.complete /\ o.risky
      [] rule.id = "RC_MEMORY_CONTRADICTION"      -> o.contradictions > 0
      [] OTHER -> TRUE

Matches(rule, reasons, o) ==
    /\ rule.all \subseteq reasons
    /\ rule.any # {} => rule.any \cap reasons # {}
    /\ rule.none \cap reasons = {}
    /\ Asks(rule, o)

RootCause(reasons, o) ==
    CHOOSE rule \in Rules :
        /\ Matches(rule, reasons, o)
        /\ \A other \in Rules : Matches(other, reasons, o) => rule.priority <= other.priority

(* Mutant: the caller has to name the missing evidence itself.              *)
AllReasonsAsGiven(given, o) ==
    given \cup (IF o.level = "heavy" THEN {"context_degraded_heavy"} ELSE {})

(* The reasons record_observation adds to those it was given.               *)
AllReasons(given, o) ==
    given \cup (IF o.risky /\ ~o.complete THEN {Incomplete} ELSE {})
          \cup (IF o.level = "heavy" THEN {"context_degraded_heavy"} ELSE {})
=============================================================================
