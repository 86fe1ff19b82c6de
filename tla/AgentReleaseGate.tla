---------------------------- MODULE AgentReleaseGate ----------------------------
(***************************************************************************)
(* Who may be promoted, launched and helped: the release gate, the          *)
(* readiness dashboard, the launch and completion audits and the runbook    *)
(* diagnosis of a run, as decisions over tables that change under them      *)
(* (agent_release_gate_service.py, agent_observability_service.py,          *)
(* agent_runbook_service.py).                                               *)
(***************************************************************************)
EXTENDS AgentMetrics, Sequences

CONSTANTS
    RowsOfRun,       \* the rows a run of the project may come to have
    CurrentLevel,    \* index of CURRENT_AGENT_ROLLOUT_LEVEL in Levels
    StaticReasons,   \* LOCKED_EXPANSION_REASONS of each level
    MissingFaults,   \* required fault cases that are not registered
    Deprecated,      \* tools whose contract row may be deprecated
    Configured       \* a model provider is configured

VARIABLE contract    \* compatibility_status of each tool's backend contract row

gateVars == <<facts, contract>>

-----------------------------------------------------------------------------
(* ROLLOUT_LEVELS: each level allows the classes of those below it.         *)
ClassesAdded == <<{"read_only"}, {"deterministic_compute", "draft_only"}, {"execution_record"},
                  {"business_create"}, {"business_update"}, {"external_effect", "destructive"}>>
Levels == 1..Len(ClassesAdded)
Allowed(level) == UNION {ClassesAdded[l] : l \in 1..level}

ASSUME LevelAssumption ==
    /\ CurrentLevel \in Levels
    /\ DOMAIN StaticReasons = Levels

(* The side effect class of each registered tool; all have a contract.      *)
SideEffectClass == [
    project_read_context         |-> "read_only",
    ai_skill_run_draft           |-> "draft_only",
    scenario_compose_draft       |-> "draft_only",
    scenario_execute_dry_run     |-> "execution_record",
    testcase_query_project_cases |-> "read_only",
    testcase_validate_schema     |-> "deterministic_compute",
    report_read_summary          |-> "read_only"]
Tools == DOMAIN SideEffectClass

(* A tool whose contract has no row passes.                                 *)
RolloutAllowed(tool) ==
    SideEffectClass[tool] \in Allowed(CurrentLevel) /\ contract[tool] \in {"none", "active"}
Violations == {tool \in Tools : ~RolloutAllowed(tool)}

BlockedReasons(level) == IF level <= CurrentLevel THEN {} ELSE StaticReasons[level]

(* Every tool declares its capability; the other requirements, the go-live  *)
(* gates and the delivery of the backend are listed as passed.              *)
MinimumGoLive == MissingFaults = {}

-----------------------------------------------------------------------------
Alerts ==
    MetricAlerts
    \cup {Rule("P0", "release_gate_violation", {[table |-> "tools", id |-> t]}) : t \in Violations}
    \cup {Rule("P1", "fault_injection_coverage", {[table |-> "cases", id |-> c]}) : c \in MissingFaults}
Firing(severity) == \E a \in Alerts : a.severity = severity

BlockedIf(condition) == IF condition THEN "blocked" ELSE "pass"
AttentionIf(condition) == IF condition THEN "attention" ELSE "pass"

LiveRecovery ==
    AttentionIf(BlockMetrics.block_open # {} \/ StreamMetrics.outbox_lag # {}
                \/ ApprovalMetrics.expire_due # {} \/ StreamMetrics.replay_gap # {})

(* Mutant: alerts call for attention, whatever their severity.              *)
AlertsNeedAttention == AttentionIf(Alerts # {})

AlertHealth ==
    IF Firing("P0") THEN "blocked" ELSE AttentionIf(Firing("P1"))

(* The catalogs of metrics, runbooks and alert rules are complete, the root *)
(* cause rules lie in their bands, and the gate of L3 is known.             *)
Checks == {BlockedIf(Violations # {}), BlockedIf(MissingFaults # {}), LiveRecovery, AlertHealth}

Worst(statuses) ==
    IF "blocked" \in statuses THEN "blocked"
    ELSE IF "attention" \in statuses THEN "attention" ELSE "pass"
Readiness == Worst(Checks)

(* Mutant: a dashboard that is not blocked is enough.                       *)
BlockersOnP0(level) ==
    BlockedReasons(level)
    \cup {source \in {"tool_matrix", "monitoring_alerts"} :
             \/ source = "tool_matrix" /\ Violations # {}
             \/ source = "monitoring_alerts" /\ Firing("P0")}

Blockers(level) ==
    BlockedReasons(level)
    \cup {source \in {"tool_matrix", "minimum_go_live", "monitoring_alerts", "readiness_dashboard"} :
             \/ source = "tool_matrix" /\ Violations # {}
             \/ source = "minimum_go_live" /\ ~MinimumGoLive
             \/ source = "monitoring_alerts" /\ (Firing("P0") \/ Firing("P1"))
             \/ source = "readiness_dashboard" /\ Readiness # "pass"}

Decision(level) ==
    IF level <= CurrentLevel THEN "already_unlocked"
    ELSE IF Blockers(level) = {} THEN "allowed" ELSE "blocked"

(* The launch audit looks at the model and the dashboard, never at whether  *)
(* L3 may be promoted; the completion audit repeats its findings.           *)
LaunchStatus == Worst({BlockedIf(~Configured), BlockedIf(Readiness = "blocked")})
LaunchReady == LaunchStatus = "pass"
BackendComplete == LaunchStatus = "pass"

-----------------------------------------------------------------------------
(* diagnose_run: the runbooks a run is pointed to.                          *)
UncertainRunbook == {"tool_call_uncertain" : c \in {c \in Calls : Open(c)}}
MigrationRunbook == {"migration_blocked" : b \in BlockMetrics.block_open \cup BlockMetrics.run_blocked}
ApprovalRunbook ==
    {"approval_stale" : a \in {a \in Rows("approvals") : a.status = "pending"} \cup ApprovalMetrics.conflict}
CapabilityRunbook == {"backend_capability_degraded" : c \in CallMetrics.degraded}
LinkageRunbook == {"context_linkage_repair" : o \in KnowledgeMetrics.build_missing}
RootCauseRunbook == {"root_cause_rule_missing" : o \in KnowledgeMetrics.rule_missing}
MemoryRunbook ==
    {"memory_evidence_ref_violation" : f \in KnowledgeMetrics.bypassed \cup CallMetrics.memory_only}
GateRunbook == {"release_gate_violation" : t \in Violations}

Diagnose ==
    UncertainRunbook \cup MigrationRunbook \cup ApprovalRunbook \cup CapabilityRunbook
    \cup LinkageRunbook \cup RootCauseRunbook \cup MemoryRunbook \cup GateRunbook

-----------------------------------------------------------------------------
InitGate ==
    /\ facts = {}
    /\ contract = [tool \in Tools |-> "none"]

(* A row is written; it replaces the one of the same table and id.          *)
Write(row) ==
    /\ row \notin facts
    /\ facts' = {f \in facts : f.table # row.table \/ f.id # row.id} \cup {row}
    /\ UNCHANGED contract

(* Events, mutations, builds and observations are never deleted.            *)
Resolve(row) ==
    /\ row \in facts /\ row.table \notin {"events", "mutations", "builds", "observations"}
    /\ facts' = facts \ {row}
    /\ UNCHANGED contract

(* ensure_backend_contracts, called by the router before it asks.           *)
EnsureBackendContracts ==
    /\ contract' = [tool \in Tools |-> IF contract[tool] = "none" THEN "active" ELSE contract[tool]]
    /\ UNCHANGED facts

Deprecate(tool) ==
    /\ contract[tool] = "active"
    /\ contract' = [contract EXCEPT ![tool] = "deprecated"]
    /\ UNCHANGED facts

NextGate ==
    \/ \E row \in RowsOfRun : Write(row) \/ Resolve(row)
    \/ EnsureBackendContracts
    \/ \E tool \in Deprecated : Deprecate(tool)

SpecGate == InitGate /\ [][NextGate]_gateVars

-----------------------------------------------------------------------------
(* No level is promoted to while a call is uncertain or in manual           *)
(* intervention, an effect may exist twice, a block is open, an approval is *)
(* due, an event waits to be published, or a registered tool exceeds its    *)
(* level: each of these reaches the decision through a metric, an alert and *)
(* a check of its own.                                                      *)
Unsettled ==
    \/ \E c \in Calls : c.status \in {"uncertain", "manual_intervention"} \/ Accepted(c)
    \/ OpenBlocks # {} \/ Due # {} \/ QueueMetrics.duplicate # {} \/ StreamMetrics.outbox_lag # {}
    \/ Violations # {}
PromotionIsEarned ==
    Unsettled => \A level \in Levels : level > CurrentLevel => Decision(level) = "blocked"

(* A platform that calls itself ready has no accepted effect that nobody    *)
(* can account for, no call with two active queue rows, no decision that    *)
(* bypassed the evidence of its memory and no tool beyond its level.        *)
LaunchHasNoP0 ==
    \/ /\ Violations = {}
       /\ \A c \in Calls : Open(c) => c.submission # "backend_accepted"
       /\ QueueMetrics.duplicate = {}
       /\ Events("memory.bypassed_evidence_ref") = {}
    \/ ~LaunchReady

(* The runbook of a P0 alert about the calls, the events or the tools of a  *)
(* run is among those its diagnosis names; a duplicate lease is not looked  *)
(* for there.                                                               *)
P0AlertIsDiagnosed ==
    facts # {} \/ Violations # {} => \A a \in Alerts \ QueueRules : a.severity = "P0" => a.runbook \in Diagnose

(* A P0 state both stops the launch and is shown to whoever diagnoses it.   *)
P0StopsAndIsShown == LaunchHasNoP0 /\ P0AlertIsDiagnosed
=============================================================================
