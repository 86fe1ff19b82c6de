---------------------------- MODULE AgentFaultDrills ----------------------------
(***************************************************************************)
(* The fault-injection drills (agent_fault_injection_service.py): a request *)
(* runs a list of cases one after the other on the real tables, so each     *)
(* leaves rows that the metrics of its project count, and the drills that   *)
(* execute a call take the next one of the queue every worker shares.       *)
(* What reconciling, approving and building a context leave behind is given *)
(* here as rows; the modules of those services model how they do it.        *)
(***************************************************************************)
EXTENDS AgentReleaseGate, SequencesExt

CONSTANTS
    CaseLists,     \* requests: sequences of cases
    MaxRequests,   \* bound: requests in a row
    Strangers      \* calls of other runs that may be queued: [call, kind]

VARIABLES
    todo,        \* cases of the running request that have not run yet
    requests,    \* how many requests were made
    queued,      \* queued calls of all runs, oldest first
    report,      \* of each case that ran: passed, the queue was empty, first time
    staleLinks   \* memories linked to the environment "env-1" by the stale-watch drill

drillVars == <<facts, contract, todo, requests, queued, report, staleLinks>>

CallRow(id, status, submission, recovery, error) ==
    [table |-> "tool_calls", id |-> id, status |-> status, submission |-> submission,
     capability |-> "idempotency_index_only", recovery |-> recovery, error |-> error,
     backoff |-> FALSE]
EventRow(id, type, code) == [table |-> "events", id |-> id, type |-> type, code |-> code]
ApprovalRow(id) ==
    [table |-> "approvals", id |-> id, status |-> "pending", expired |-> FALSE, lineage |-> id]
BuildRow(id) == [table |-> "builds", id |-> id, complete |-> FALSE]
MemoryRow(id) == [table |-> "memories", id |-> id, status |-> "needs_revalidation"]
PendingOutbox == [table |-> "outbox", id |-> "drills", status |-> "pending"]

-----------------------------------------------------------------------------
(* What a drill leaves when it runs alone.  Drills that only plan a call    *)
(* leave nothing a metric counts.                                           *)
SendIntentNotFound ==
    {CallRow("send_intent", "failed_retryable", "send_intent_recorded",
             "safe_retry_same_idempotency_key", "none")}
TransportSentNotFound ==
    {[CallRow("transport", "uncertain", "transport_sent_observed", "reconcile_backoff", "none")
        EXCEPT !.backoff = TRUE]}
BackendAcceptedNotFound ==
    {[CallRow("accepted", "manual_intervention", "backend_accepted",
              "backend_accepted_not_found_incident", "reconcile_not_found_after_commit")
        EXCEPT !.capability = "receipt_first"]}
ReconcileConflict ==
    {CallRow("conflict", "manual_intervention", "transport_sent_observed",
             "idempotency_conflict", "idempotency_conflict")}
UnsupportedSchemaVersion ==
    {CallRow("unsupported", "needs_migration", "transport_sent_observed",
             "backend_contract_migration_required", "backend_contract_unsupported"),
     [table |-> "blocks", id |-> "unsupported", open |-> TRUE, type |-> "backend_contract_adapter"],
     [table |-> "runs", id |-> "unsupported", status |-> "migration_blocked", replayable |-> TRUE]}
MigrationResolved ==
    {CallRow("migration", "reconciling", "transport_sent_observed",
             "migration_block_resolved_reconcile_required", "backend_contract_unsupported")}
LegacyNoReceipt ==
    {[CallRow("legacy", "manual_intervention", "transport_sent_observed",
              "legacy_no_receipt_high_risk_manual", "none")
        EXCEPT !.capability = "legacy_no_receipt"]}
ApprovalEpochConflict ==
    {ApprovalRow("epoch"), EventRow("epoch", "approval.approve_conflict", "approval_epoch_conflict")}
SupersedeReplacement ==
    {ApprovalRow("replacement"),
     EventRow("replacement", "approval.approve_conflict", "approval_stale_or_superseded")}
ApprovalExpired ==
    {CallRow("expired", "manual_intervention", "none", "none", "none")}
ContextHeavy == {BuildRow("heavy")}
DecisionContextBinding == {BuildRow("binding")}
MemoryContradiction == {MemoryRow("contradiction")}
StaleEvidenceWatch == {MemoryRow("stale_watch")}
BypassedEvidenceRef == {EventRow("bypassed", "memory.bypassed_evidence_ref", "none")}
RootCauseRuleMissing ==
    {[table |-> "observations", id |-> "rule", built |-> TRUE, cause |-> "root_cause_rule_missing"]}

Leaves == [
    send_intent_not_found                     |-> SendIntentNotFound,
    transport_sent_not_found                  |-> TransportSentNotFound,
    backend_accepted_not_found                |-> BackendAcceptedNotFound,
    effect_committed_reconcile_reuse          |-> {},
    tool_succeeded_eventstore_write_failed    |-> {},
    outbox_publish_failure                    |-> {},
    reconcile_conflict                        |-> ReconcileConflict,
    unsupported_schema_version                |-> UnsupportedSchemaVersion,
    migration_block_resolve_checkpoint_continue |-> MigrationResolved,
    legacy_no_receipt_high_risk               |-> LegacyNoReceipt,
    approval_epoch_conflict                   |-> ApprovalEpochConflict,
    approval_supersede_replacement_atomic     |-> SupersedeReplacement,
    approval_expired_before_approve           |-> ApprovalExpired,
    checkpoint_stale                          |-> {},
    context_heavy_evidence_incomplete         |-> ContextHeavy,
    loop_observation_decision_context_binding |-> DecisionContextBinding,
    memory_contradiction                      |-> MemoryContradiction,
    memory_stale_evidence_watch               |-> StaleEvidenceWatch,
    memory_bypassed_evidence_ref              |-> BypassedEvidenceRef,
    evidence_historical_volatile_excluded     |-> {},
    evidence_mixed_volatile_frozen_requires_revalidation |-> {},
    duplicate_idempotency_key                 |-> {},
    permission_revoked_before_execution       |-> {},
    worker_queue_reconcile_required           |-> {},
    root_cause_rule_missing                   |-> RootCauseRuleMissing,
    high_risk_memory_only_blocked             |-> {}]
Cases == DOMAIN Leaves

ASSUME DrillAssumption ==
    /\ \A list \in CaseLists : ToSet(list) \subseteq Cases
    /\ MaxRequests \in Nat

(* The calls a drill queues for execution, one execution after each.        *)
Entry(call, kind) == [call |-> call, kind |-> kind]
Enqueues(case) ==
    CASE case = "tool_succeeded_eventstore_write_failed" -> <<Entry("eventstore", "sound")>>
      [] case = "permission_revoked_before_execution" -> <<Entry("permission", "revoked")>>
      [] case = "worker_queue_reconcile_required" ->
            <<Entry("queued_uncertain", "uncertain"), Entry("queued_reconciling", "reconciling")>>
      [] case = "high_risk_memory_only_blocked" -> <<Entry("memory_only", "memory_only")>>
      [] OTHER -> <<>>

(* execute_next: a failing event store turns an effect into an uncertain    *)
(* call, whoever the call belongs to.                                       *)
Executed(entry, failing) ==
    CASE entry.kind \in {"uncertain", "reconciling"} ->
            CallRow(entry.call, entry.kind, "transport_sent_observed",
                    "reconcile_required_before_execution", "tool_call_uncertain_reconcile_required")
      [] entry.kind = "revoked" ->
            CallRow(entry.call, "failed", "none", "none", "permission_revoked_before_execution")
      [] entry.kind = "memory_only" ->
            CallRow(entry.call, "manual_intervention", "none", "none",
                    "high_risk_action_cannot_depend_only_on_memory")
      [] entry.kind = "sound" /\ failing ->
            CallRow(entry.call, "uncertain", "effect_committed",
                    "reconcile_required_after_eventstore_failure", "eventstore_write_failed_after_effect")
      [] OTHER -> CallRow(entry.call, "succeeded", "effect_committed", "none", "none")

(* Mutant: an item whose call may not be executed stays in the queue.       *)
RoundKeepsItem(done, entry, failing) ==
    LET all == Append(done.queue, entry)
        kept == Head(all).kind \in {"uncertain", "reconciling"}
    IN [queue |-> IF kept THEN all ELSE Tail(all),
        rows |-> Append(done.rows, Executed(Head(all), failing)),
        executed |-> Append(done.executed, Head(all))]

(* Each call is queued, then the oldest of the queue is executed.           *)
Round(done, entry, failing) ==
    LET all == Append(done.queue, entry)
    IN [queue |-> Tail(all), rows |-> Append(done.rows, Executed(Head(all), failing)),
        executed |-> Append(done.executed, Head(all))]
Rounds(case) ==
    LET failing == case = "tool_succeeded_eventstore_write_failed"
        done[n \in 0..Len(Enqueues(case))] ==
            IF n = 0 THEN [queue |-> queued, rows |-> <<>>, executed |-> <<>>]
            ELSE Round(done[n - 1], Enqueues(case)[n], failing)
    IN done[Len(Enqueues(case))]

(* What each drill compares.  The drill of the event store and the one of   *)
(* the memory compare the call that was executed, theirs or not.            *)
ExecutionPasses(case, done) ==
    CASE case \in {"tool_succeeded_eventstore_write_failed", "high_risk_memory_only_blocked"} ->
            done.executed[1].kind = Enqueues(case)[1].kind
      [] case \in {"permission_revoked_before_execution", "worker_queue_reconcile_required"} ->
            done.executed = Enqueues(case)
      [] OTHER -> TRUE

(* The watch drill wants to have touched one memory: memories are found by  *)
(* the environment alone, also those of earlier drills.                     *)
WatchPasses(case) == case = "memory_stale_evidence_watch" => staleLinks = 0

-----------------------------------------------------------------------------
InitDrills ==
    /\ InitGate
    /\ todo = <<>> /\ requests = 0
    /\ queued = <<>>
    /\ report = [case \in {} |-> [passed |-> TRUE, alone |-> TRUE, first |-> TRUE]]
    /\ staleLinks = 0

RunCases(list) ==
    /\ todo = <<>> /\ requests < MaxRequests
    /\ todo' = list /\ requests' = requests + 1
    /\ UNCHANGED <<facts, contract, queued, report, staleLinks>>

Put(old, rows) ==
    {f \in old : \A r \in rows : f.table # r.table \/ f.id # r.id} \cup rows

MemoryDrills == {"memory_contradiction", "memory_stale_evidence_watch"}

(* expire_due takes every approval that is due, the outbox drill gives up   *)
(* every pending row up to its limit of 20, of whichever run.               *)
RunCase ==
    /\ todo # <<>>
    /\ LET case == Head(todo)
           done == Rounds(case)
           expired == IF case = "approval_expired_before_approve" THEN Due ELSE {}
           rows == Leaves[case] \cup ToSet(done.rows)
                   \cup {CallRow(a.id, "manual_intervention", "none", "none", "none") : a \in expired}
                   \cup (IF case \in MemoryDrills THEN {} ELSE {PendingOutbox})
       IN /\ \E given \in IF case = "outbox_publish_failure" THEN {{}, {PendingOutbox}} ELSE {{}} :
                facts' = Put(facts \ expired, rows) \ given
          /\ queued' = done.queue
          /\ report' = [c \in DOMAIN report \cup {case} |->
                IF c # case THEN report[c]
                ELSE [passed |-> ExecutionPasses(case, done) /\ WatchPasses(case),
                      alone |-> queued = <<>>, first |-> case \notin DOMAIN report]]
          /\ staleLinks' = IF case = "memory_stale_evidence_watch" THEN staleLinks + 1 ELSE staleLinks
    /\ todo' = Tail(todo)
    /\ UNCHANGED <<contract, requests>>

(* Between two cases: another run queues a call, an approval becomes due,   *)
(* the outbox is published.                                                 *)
QueueStranger(stranger) ==
    /\ \A i \in 1..Len(queued) : queued[i] # stranger
    /\ \A c \in Calls : c.id # stranger.call
    /\ queued' = Append(queued, stranger)
    /\ UNCHANGED <<facts, contract, todo, requests, report, staleLinks>>

ApprovalBecomesDue(approval) ==
    /\ approval \in Rows("approvals") /\ ~approval.expired
    /\ facts' = Put(facts, {[approval EXCEPT !.expired = TRUE]})
    /\ UNCHANGED <<contract, todo, requests, queued, report, staleLinks>>

PublishOutbox ==
    /\ PendingOutbox \in facts
    /\ facts' = facts \ {PendingOutbox}
    /\ UNCHANGED <<contract, todo, requests, queued, report, staleLinks>>

NextDrills ==
    \/ \E list \in CaseLists : RunCases(list)
    \/ RunCase
    \/ \E stranger \in Strangers : QueueStranger(stranger)
    \/ \E approval \in Rows("approvals") : ApprovalBecomesDue(approval)
    \/ PublishOutbox

SpecDrills == InitDrills /\ [][NextDrills]_drillVars

-----------------------------------------------------------------------------
(* A drill that fails found a fault, a call of somebody else in the queue   *)
(* it shares, or the memory of an earlier drill: on a quiet platform every  *)
(* case passes the first time it is run, in whatever order they are asked   *)
(* for and whatever the cases before it have left.                          *)
DrillsPassOnQuietPlatform ==
    \A case \in DOMAIN report :
        report[case].alone /\ report[case].first => report[case].passed

=============================================================================
