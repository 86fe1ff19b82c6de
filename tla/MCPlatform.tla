------------------------------ MODULE MCPlatform ------------------------------
(* The parts of the platform that share no state, side by side: part says which   *)
(* of them moves.  The event log is checked once with the clients that follow it  *)
(* and once with its publishers.                                                  *)
EXTENDS FlowExecution, AgentEventLog, AIRunEvents, DebugSession, AgentFaultDrills

VARIABLE part

N(kind, cont) == [kind |-> kind, cont |-> cont, bound |-> {}, ok |-> TRUE]

Edge(s, t, route) == [source |-> s, target |-> t, route |-> route]
Straight == {Edge(1, 2, "always"), Edge(2, 3, "success"), Edge(2, 4, "failure"), Edge(3, 4, "always")}
Forked == {Edge(1, 2, "always"), Edge(1, 3, "always"), Edge(2, 4, "success"), Edge(3, 4, "failure")}
Decided == {Edge(1, 2, "always"), Edge(2, 3, "true"), Edge(2, 4, "false"), Edge(3, 4, "always")}

Shape(a, b) == <<N("start", FALSE), a, b, N("end", FALSE)>>
Shapes == {Shape(N("api_case", FALSE), N("websocket_case", TRUE)),
           Shape(N("condition", FALSE), N("api_case", FALSE))}
EdgeSets == {Forked, Decided}

(* The executable ones among a few definitions of four nodes.                     *)
MCDefinitions == {g \in [nodes : Shapes, edges : EdgeSets] : Executable(g)}

(* Every small definition that validation lets execute is walked completely,      *)
(* start first, each node after all nodes before it; one with a cycle is refused. *)
SmallEdges == {Edge(s, t, "success") : s, t \in 1..4}
SmallNodes == <<N("start", FALSE), N("api_case", FALSE), N("delay", FALSE), N("end", FALSE)>>
ASSUME ExecutableIsWalked ==
    \A edges \in SUBSET {e \in SmallEdges : e.source # e.target} :
        LET g == [nodes |-> SmallNodes, edges |-> edges]
        IN Executable(g) => IsWalk(g, TopologicalOrder(g))

MCCall(i, status, submission, capability, recovery) ==
    [CallRow(i, status, submission, recovery, "none") EXCEPT !.capability = capability]
MCItem(i, status) == [table |-> "queue", id |-> i, status |-> status, call |-> "1", expired |-> TRUE]
MCRows == {
    MCCall("1", "uncertain", "send_intent_recorded", "receipt_first", "none"),
    MCCall("1", "reconciling", "backend_accepted", "receipt_first", "none"),
    MCCall("1", "manual_intervention", "effect_committed", "legacy_no_receipt", "legacy_no_receipt_high_risk_manual"),
    [ApprovalRow("1") EXCEPT !.expired = TRUE, !.lineage = "1"],
    [ApprovalRow("2") EXCEPT !.expired = TRUE, !.lineage = "1"],
    EventRow("1", "approval.approve_conflict", "approval_epoch_conflict"),
    EventRow("2", "memory.bypassed_evidence_ref", "none"),
    MCItem("1", "leased"), MCItem("2", "queued"), PendingOutbox,
    [table |-> "blocks", id |-> "1", open |-> TRUE, type |-> "runtime_snapshot"]}
MCReasons == <<{}, {}, {}, {}, {"receipt"}, {"rollback"}>>

AllCases == <<"send_intent_not_found","transport_sent_not_found","backend_accepted_not_found","effect_committed_reconcile_reuse",
 "tool_succeeded_eventstore_write_failed","outbox_publish_failure","reconcile_conflict","unsupported_schema_version",
 "migration_block_resolve_checkpoint_continue","legacy_no_receipt_high_risk","approval_epoch_conflict",
 "approval_supersede_replacement_atomic","approval_expired_before_approve","checkpoint_stale","context_heavy_evidence_incomplete",
 "loop_observation_decision_context_binding","evidence_historical_volatile_excluded",
 "evidence_mixed_volatile_frozen_requires_revalidation","memory_contradiction","memory_stale_evidence_watch",
 "memory_bypassed_evidence_ref","duplicate_idempotency_key","permission_revoked_before_execution",
 "worker_queue_reconcile_required","root_cause_rule_missing","high_risk_memory_only_blocked">>
SharedCases == <<"worker_queue_reconcile_required","memory_stale_evidence_watch","tool_succeeded_eventstore_write_failed",
  "permission_revoked_before_execution", "memory_stale_evidence_watch">>
MCLists == {AllCases, SharedCases}
MCStrangers == {Entry("stranger", "sound")}

flowVars == vars
drillOnlyVars == <<todo, requests, queued, report, staleLinks>>

Still(p) ==
    /\ p # "flow" => UNCHANGED flowVars
    /\ p \notin {"follow", "publish"} => UNCHANGED logVars
    /\ p # "skill" => UNCHANGED skillVars
    /\ p # "debug" => UNCHANGED debugVars
    /\ p \notin {"gate", "drills"} => UNCHANGED gateVars
    /\ p # "drills" => UNCHANGED drillOnlyVars

Follow == (\E w \in Writers : WriterStep(w)) \/ ClientStep
Publish ==
    \/ Len(log) < 2 /\ \E w \in {CHOOSE w \in Writers : TRUE} :
                          LoadRun(w) \/ AppendEvent(w, FALSE) \/ CommitEvents(w)
    \/ \E p \in Publishers : PublisherStep(p)
    \/ \E n \in Numbers : RetryDelayPasses(n)

Parts == {"flow", "follow", "publish", "skill", "debug", "gate", "drills"}
MCInit ==
    /\ part \in Parts
    /\ Init /\ InitLog /\ InitSkillRun /\ InitDebug /\ InitDrills
MCNext ==
    /\ part' = part
    /\ \/ part = "flow" /\ Next
       \/ part = "follow" /\ Follow
       \/ part = "publish" /\ Publish
       \/ part = "skill" /\ NextSkillRun
       \/ part = "debug" /\ NextDebug
       \/ part = "gate" /\ NextGate
       \/ part = "drills" /\ NextDrills
    /\ Still(part)
MCSpec ==
    /\ MCInit
    /\ [][MCNext]_<<part, flowVars, logVars, skillVars, debugVars, drillVars>>
    /\ FairFlow /\ FairSkillRun /\ FairDebug
================================================================================
