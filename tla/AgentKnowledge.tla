---------------------------- MODULE AgentKnowledge ----------------------------
(***************************************************************************)
(* What one run knows: the contexts it builds from evidence refs, the       *)
(* watches on those refs, the loop observations, and the freshness gate     *)
(* that a resume asks.  Of the project memory a ref may name, the run reads *)
(* two facts when it asks, whether it needs revalidation and whether it was *)
(* contradicted: any answer, as AgentMemory moves the row independently.    *)
(***************************************************************************)
EXTENDS EvidenceRules

CONSTANTS
    Cited,       \* the refs a request may cite
    Contexts,    \* the lists of refs a context is built from
    Estimates,   \* estimated size of a context, in tenths of its budget
    Given,       \* the sets of reasons an observation may bring
    MaxBuilds    \* bound: contexts of the run

ASSUME KnowledgeAssumption ==
    /\ \A ref \in Cited : IsRef(ref)
    /\ \A refs \in Contexts : Elements(refs) \subseteq Cited
    /\ MaxBuilds \in Nat

VARIABLES
    watches,   \* per ref id, which watch rows there are
    builds,    \* the contexts, oldest first
    unread,    \* ids whose source changed and that no later context cites
    obs,       \* what this step observed, if it did
    status     \* the run: paused, waiting or running

runVars == <<watches, builds, unread, obs, status>>

Ids == {ref.id : ref \in Cited}
NoWatch == [active |-> FALSE, stale |-> FALSE, environment |-> FALSE]
NoObservation == [seen |-> FALSE]
SourceEvents == {"scenario.updated", "environment.updated"}

InitKnowledge ==
    /\ watches = [id \in Ids |-> NoWatch]
    /\ builds = <<>>
    /\ unread = {}
    /\ obs = NoObservation
    /\ status = "waiting"

-----------------------------------------------------------------------------
(* register_watches: every ref that is active for a policy, those the       *)
(* budget dropped too; an active watch is kept, a stale one stays beside    *)
(* the new one.                                                             *)
Watched(refs) == {ref.id : ref \in {r \in Elements(refs) : r.active}}

(* _ensure_memory_usage_wrapped                                             *)
MemoryIsWrapped(refs) == \E ref \in PolicyRefs(refs) : ref.kind = "memory"

Build(step, refs, tenths, required) ==
    LET level == Degradation(tenths) IN
    [step |-> step, policy |-> PolicyRefs(refs), level |-> level,
     complete |-> IsComplete(refs, level, required)]

BuildContext(step, refs, tenths, required, usesMemory) ==
    /\ Len(builds) < MaxBuilds
    /\ usesMemory => MemoryIsWrapped(refs)
    /\ builds' = Append(builds, Build(step, refs, tenths, required))
    /\ watches' = [id \in Ids |-> IF id \in Watched(refs)
                                  THEN [watches[id] EXCEPT !.active = TRUE] ELSE watches[id]]
    /\ unread' = unread \ {ref.id : ref \in Elements(refs)}
    /\ obs' = NoObservation /\ UNCHANGED <<status>>

(* mark_stale_by_ref, of a ref some context bound a decision to.            *)
MarkStaleByRef(id, event) ==
    /\ \E i \in DOMAIN builds : \E ref \in builds[i].policy : ref.id = id
    /\ watches' = [watches EXCEPT ![id] =
           IF @.active
           THEN [active |-> FALSE, stale |-> TRUE,
                 environment |-> @.environment \/ event = "environment.updated"
                                 \/ \E ref \in Cited : ref.id = id /\ ref.kind = "environment"]
           ELSE @]
    /\ unread' = unread \cup {id}
    /\ obs' = NoObservation /\ UNCHANGED <<builds, status>>

-----------------------------------------------------------------------------
IterationMax ==
    CHOOSE level \in {builds[i].level : i \in DOMAIN builds} :
        \A i \in DOMAIN builds : Rank[builds[i].level] <= Rank[level]

BoundMemory(build) == \E ref \in build.policy : ref.kind = "memory"

RecordObservation(i, given, risky, contradicted) ==
    /\ i \in DOMAIN builds
    /\ LET o == [level |-> builds[i].level, complete |-> builds[i].complete, risky |-> risky,
                 contradictions |-> IF BoundMemory(builds[i]) /\ contradicted THEN 1 ELSE 0]
           reasons == AllReasons(given, o)
       IN obs' = [seen |-> TRUE, complete |-> o.complete, risky |-> risky,
                  stop |-> PrimaryStopReason(reasons), cause |-> RootCause(reasons, o).id,
                  level |-> o.level, max |-> IterationMax]
    /\ UNCHANGED <<watches, builds, unread, status>>

-----------------------------------------------------------------------------
(* CheckpointFreshnessGate.evaluate, check by check in the order of the     *)
(* code.  early: the checkpoint is missing or old, its snapshot is not the  *)
(* run's, or a block is open; late: a pending approval, a revoked           *)
(* permission or a missing contract; memoryStale: the row of the memory the *)
(* latest context binds needs revalidation or has a staleness of 80.        *)

(* The latest context by step and sequence, not by time.                    *)
LatestBuild ==
    CHOOSE i \in DOMAIN builds :
        \A j \in DOMAIN builds :
            builds[j].step < builds[i].step \/ (builds[j].step = builds[i].step /\ j <= i)
LatestPolicyRefs == IF builds = <<>> THEN {} ELSE builds[LatestBuild].policy

(* Mutant: only a changed environment stops the run.                        *)
EnvironmentWatches == {id \in Ids : watches[id].environment}

StaleWatches == {id \in Ids : watches[id].stale}

StaleEvidence == StaleWatches # {}
EnvironmentChanged == \E id \in StaleWatches : watches[id].environment

IsLatestSample(ref) == ref.kind = "latest_execution_sample" \/ ref.mutability = "ephemeral_latest"
NeedsRevalidation(ref) ==
    \/ ref.freshness = "revalidate_on_resume"
    \/ ref.mutability = "external_uncontrolled"
    \/ ref.kind = "external_doc"

BindsMemory == \E ref \in LatestPolicyRefs : ref.kind = "memory"

GateReason(early, memoryStale, late) ==
    IF early THEN "checkpoint"
    ELSE IF EnvironmentChanged THEN "environment_updated"
    ELSE IF StaleEvidence THEN "stale_evidence_watch"
    ELSE IF \E ref \in LatestPolicyRefs : IsLatestSample(ref)
         THEN "ephemeral_latest_requires_materialization"
    ELSE IF \E ref \in LatestPolicyRefs : NeedsRevalidation(ref)
         THEN "active_evidence_requires_revalidation"
    ELSE IF BindsMemory /\ memoryStale THEN "active_memory_needs_revalidation"
    ELSE IF late THEN "approval_permission_or_contract"
    ELSE "fresh"

(* resume_run as far as the gate decides it.                                *)
ResumeRun(early, memoryStale, late) ==
    /\ status' = IF GateReason(early, memoryStale, late) = "fresh" THEN "running" ELSE "paused"
    /\ obs' = NoObservation /\ UNCHANGED <<watches, builds, unread>>

(* The run waits for a human again.                                         *)
WaitAgain ==
    /\ status = "running"
    /\ status' = "waiting"
    /\ obs' = NoObservation /\ UNCHANGED <<watches, builds, unread>>

NextKnowledge ==
    \/ \E step \in 0..1, refs \in Contexts, tenths \in Estimates, usesMemory \in BOOLEAN :
           \E required \in {{}, {refs[Len(refs)]}} :
               BuildContext(step, refs, tenths, required, usesMemory)
    \/ \E id \in Ids, event \in SourceEvents : MarkStaleByRef(id, event)
    \/ \E i \in 1..MaxBuilds, given \in Given, risky \in BOOLEAN : 
           \E contradicted \in BOOLEAN : RecordObservation(i, given, risky, contradicted)
    \/ \E early, memoryStale, late \in BOOLEAN : ResumeRun(early, memoryStale, late)
    \/ WaitAgain

SpecKnowledge == InitKnowledge /\ [][NextKnowledge]_runVars

-----------------------------------------------------------------------------

(* A run is not resumed while evidence a decision of it was bound to has    *)
(* changed and was not read again: also evidence the token budget left out  *)
(* of the prompt, and evidence of an earlier context than the latest.       *)
ChangedEvidenceStopsResume ==
    [][status' = "running" /\ status # "running" => unread = {}]_runVars

(* A risky next action whose required evidence was left out is always       *)
(* observed as that: whatever other reasons the loop reports, the stop      *)
(* reason names the missing evidence, and the root cause is a safety rule   *)
(* or the missing evidence, never a repair or limit rule.                   *)
MissingEvidenceIsDiagnosed ==
    obs.seen => (obs.risky /\ ~obs.complete =>
        /\ obs.stop = Incomplete
        /\ \E rule \in SafetyRules \cup EvidenceContextRules :
               rule.id = obs.cause /\ rule.id # "RC_MEMORY_CONTRADICTION")

=============================================================================
