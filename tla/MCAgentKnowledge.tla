---------------------------- MODULE MCAgentKnowledge ----------------------------
(* The memory and the knowledge of a run, side by side: part says which of the    *)
(* two moves.  Refs of each kind the gate tells apart, contexts of one or two.    *)
EXTENDS AgentMemory, AgentKnowledge

VARIABLE part

MCRef(id, kind, mutability, role, freshness) ==
    [id |-> id, kind |-> kind, mutability |-> mutability, role |-> role,
     active |-> TRUE, superseded |-> FALSE, freshness |-> freshness]
MemoryRef == MCRef("m", "memory", "mutable_current", "policy_dependency", "revalidate_before_side_effect")
RecordRef == MCRef("r", "execution_record", "immutable", "decision_dependency", "none")
SiteRef == MCRef("e", "environment", "versioned", "validation_evidence", "revalidate_on_resume")
SampleRef == MCRef("s", "latest_execution_sample", "ephemeral_latest", "decision_dependency", "none")
AuditRef == [RecordRef EXCEPT !.role = "audit_background"]

MCCited == {MemoryRef, RecordRef, SiteRef, SampleRef, AuditRef}
MCContexts == {<<RecordRef, MemoryRef>>, <<SiteRef>>, <<SampleRef, AuditRef>>}
MCGiven == {{}, {"repair_regression", "policy_loop", "same_failure_no_progress"}, {"max_iterations", "same_failure_no_progress"}}

MCInit == part \in {"memory", "run"} /\ Init /\ InitKnowledge
MCNext ==
    /\ part' = part
    /\ \/ part = "memory" /\ Next /\ UNCHANGED runVars
       \/ part = "run" /\ NextKnowledge /\ UNCHANGED vars
MCSpec == MCInit /\ [][MCNext]_<<part, vars, runVars>>
================================================================================
