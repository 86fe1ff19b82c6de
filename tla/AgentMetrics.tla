------------------------------ MODULE AgentMetrics ------------------------------
(***************************************************************************)
(* What the agent's oversight sees: the metrics it counts over the tables   *)
(* of a project and the alerts they fire (agent_observability_service.py).  *)
(*                                                                          *)
(* facts is the contents of the tables, reduced to rows that some metric    *)
(* counts: a record with the table's name and the columns the metrics read. *)
(* A metric is the set of rows it counts; metrics without an alert are left *)
(* out.                                                                     *)
(***************************************************************************)
EXTENDS FiniteSets, Integers

VARIABLE facts

Rows(table) == {f \in facts : f.table = table}
Calls == Rows("tool_calls")
Open(call) == call.status \in {"uncertain", "reconciling"}

Accepted(call) == call.submission = "backend_accepted" /\ Open(call)

CallMetrics == [
    uncertain          |-> {c \in Calls : c.status = "uncertain"},
    manual             |-> {c \in Calls : c.status = "manual_intervention"},
    send_intent_orphan |-> {c \in Calls : c.submission = "send_intent_recorded"
                                /\ (Open(c) \/ c.status = "failed_retryable")},
    safe_retry         |-> {c \in Calls : c.recovery = "safe_retry_same_idempotency_key"},
    transport_sent     |-> {c \in Calls : c.submission = "transport_sent_observed" /\ Open(c)},
    backend_accepted   |-> {c \in Calls : Accepted(c)},
    backoff            |-> {c \in Calls : Open(c) /\ c.backoff},
    unsupported        |-> {c \in Calls : c.error = "backend_contract_unsupported"},
    degraded           |-> {c \in Calls : c.capability \in {"legacy_reconcile_only", "legacy_no_receipt"}},
    legacy_manual      |-> {c \in Calls : c.capability = "legacy_no_receipt"
                                /\ c.status = "manual_intervention"
                                /\ c.recovery = "legacy_no_receipt_high_risk_manual"},
    memory_only        |-> {c \in Calls : c.error = "high_risk_action_cannot_depend_only_on_memory"}]

Due == {a \in Rows("approvals") : a.status = "pending" /\ a.expired}
Events(type) == {e \in Rows("events") : e.type = type}

ApprovalMetrics == [
    conflict       |-> Events("approval.approve_conflict"),
    epoch_conflict |-> {e \in Events("approval.approve_conflict") : e.code = "approval_epoch_conflict"},
    expire_due     |-> Due,
    hotspot        |-> {a \in Due : \E b \in Due : b # a /\ b.lineage = a.lineage},
    lock_wait      |-> {m \in Rows("mutations") : m.waited},
    lock_skip      |-> {m \in Rows("mutations") : m.skipped}]

(* AgentWorkerQueueAuditService.                                            *)
Leased == {q \in Rows("queue") : q.status = "leased"}
ActiveItems == {q \in Rows("queue") : q.status \in {"queued", "leased"}}
QueueMetrics == [
    expired_lease |-> {q \in Leased : q.expired},
    duplicate     |-> {q \in ActiveItems : \E r \in ActiveItems : r # q /\ r.call = q.call}]

OpenBlocks == {b \in Rows("blocks") : b.open}
BlockMetrics == [
    block_open     |-> OpenBlocks,
    snapshot_block |-> {b \in OpenBlocks : b.type = "runtime_snapshot"},
    contract_block |-> {b \in OpenBlocks : b.type = "backend_contract_adapter"},
    run_blocked    |-> {r \in Rows("runs") : r.status = "migration_blocked"}]

(* The outbox lag is the age of the oldest pending or failed row: one that  *)
(* was given up does not count.                                             *)
StreamMetrics == [
    outbox_lag |-> {o \in Rows("outbox") : o.status \in {"pending", "failed"}},
    replay_gap |-> {r \in Rows("runs") : ~r.replayable}]

KnowledgeMetrics == [
    incomplete     |-> {b \in Rows("builds") : ~b.complete},
    stale_check    |-> {e \in Events("checkpoint.freshness_checked") : e.code \notin {"fresh", "terminal"}},
    build_missing  |-> {o \in Rows("observations") : ~o.built},
    rule_missing   |-> {o \in Rows("observations") : o.cause = "root_cause_rule_missing"},
    bypassed       |-> Events("memory.bypassed_evidence_ref"),
    revalidation   |-> {m \in Rows("memories") : m.status = "needs_revalidation"}]

Rule(severity, runbook, rows) == [severity |-> severity, runbook |-> runbook, rows |-> rows]

CallRules == {
    Rule("P1", "tool_call_uncertain", CallMetrics.uncertain),
    Rule("P1", "tool_call_uncertain", CallMetrics.manual),
    Rule("P2", "tool_call_uncertain", CallMetrics.send_intent_orphan),
    Rule("P2", "tool_call_uncertain", CallMetrics.safe_retry),
    Rule("P1", "tool_call_uncertain", CallMetrics.transport_sent),
    Rule("P0", "tool_call_uncertain", CallMetrics.backend_accepted),
    Rule("P2", "tool_call_uncertain", CallMetrics.backoff)}

ApprovalRules == {
    Rule("P1", "approval_stale", ApprovalMetrics.conflict),
    Rule("P1", "approval_stale", ApprovalMetrics.epoch_conflict),
    Rule("P2", "approval_stale", ApprovalMetrics.expire_due),
    Rule("P1", "approval_stale", ApprovalMetrics.hotspot),
    Rule("P2", "approval_stale", ApprovalMetrics.lock_wait),
    Rule("P2", "approval_stale", ApprovalMetrics.lock_skip)}

BackendRules == {
    Rule("P1", "migration_blocked", CallMetrics.unsupported),
    Rule("P1", "backend_capability_degraded", CallMetrics.degraded),
    Rule("P0", "backend_capability_degraded", CallMetrics.legacy_manual),
    Rule("P1", "migration_blocked", BlockMetrics.block_open),
    Rule("P1", "migration_blocked", BlockMetrics.snapshot_block),
    Rule("P1", "migration_blocked", BlockMetrics.contract_block),
    Rule("P1", "migration_blocked", BlockMetrics.run_blocked)}

StreamRules == {
    Rule("P1", "outbox_publish_lag", StreamMetrics.outbox_lag),
    Rule("P1", "event_replay_recovery", StreamMetrics.replay_gap)}

QueueRules == {
    Rule("P1", "worker_queue_recovery", QueueMetrics.expired_lease),
    Rule("P0", "worker_queue_recovery", QueueMetrics.duplicate)}

KnowledgeRules == {
    Rule("P1", "checkpoint_stale", KnowledgeMetrics.incomplete),
    Rule("P1", "checkpoint_stale", KnowledgeMetrics.stale_check),
    Rule("P1", "context_linkage_repair", KnowledgeMetrics.build_missing),
    Rule("P1", "root_cause_rule_missing", KnowledgeMetrics.rule_missing),
    Rule("P0", "memory_evidence_ref_violation", KnowledgeMetrics.bypassed),
    Rule("P1", "memory_evidence_ref_violation", CallMetrics.memory_only),
    Rule("P1", "checkpoint_stale", KnowledgeMetrics.revalidation)}

(* _metric_alerts: a counter above zero fires.                              *)
MetricAlerts ==
    {r \in CallRules \cup ApprovalRules \cup BackendRules \cup StreamRules
            \cup QueueRules \cup KnowledgeRules : r.rows # {}}
=============================================================================
