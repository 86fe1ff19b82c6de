------------------------------ MODULE AgentMemory ------------------------------
(***************************************************************************)
(* One project memory of agent_memory_service.py: how requests, feedback    *)
(* and maintenance move its confidence, staleness and status, and when a    *)
(* run may use it.  Scores are hundredths.                                  *)
(*                                                                          *)
(* Create, update, validate, reject, the TTL scan and retrieval read the    *)
(* row under the lock they write it with (or write nothing of it): one      *)
(* action each.  Feedback, execution records, contradictions and staleness  *)
(* load the row first and write later, and the later SELECT FOR UPDATE does *)
(* not refresh the loaded object: a Load and a Write action, and the UPDATE *)
(* writes only the columns the object changed.                              *)
(***************************************************************************)
EXTENDS Integers, FiniteSets

CONSTANTS
    Usages,       \* memory usage events a retrieval or a record may create
    Workers,      \* requests that load the memory before they write it
    TtlSources,   \* sources whose profile row an operator gave a TTL
    MaxChanges    \* bound: score changes after the creation

Sources == {"user_confirmed", "document_imported", "execution_learned",
            "agent_summarized", "repair_inferred", "external_imported"}
Trusted == {"user_confirmed", "document_imported"}

ASSUME MemoryAssumption ==
    /\ TtlSources \subseteq Sources
    /\ MaxChanges \in Nat

VARIABLES
    mem,      \* the project_memories row
    usage,    \* the agent_memory_usage_events rows
    loaded,   \* what a request loaded and has not yet written back
    earned,   \* somebody vouched for the memory (validation or positive feedback)
    changes   \* score changes so far

vars == <<mem, usage, loaded, earned, changes>>

Statuses == {"active", "needs_review", "needs_revalidation", "suspect", "rejected", "archived"}
Clamp(x, high) == IF x < 0 THEN 0 ELSE IF x > high THEN high ELSE x

InitialConfidence ==
    [user_confirmed |-> 85, execution_learned |-> 70, document_imported |-> 75,
     agent_summarized |-> 45, repair_inferred |-> 40, external_imported |-> 55]
HighRiskSources == {"user_confirmed", "execution_learned", "document_imported"}
AgentAuthority == {"agent_summarized", "repair_inferred"}

RetrievalProfile ==
    [normal_plan_v1      |-> [min |-> 45, stale |-> 70, highRisk |-> FALSE],
     repair_v1           |-> [min |-> 55, stale |-> 60, highRisk |-> FALSE],
     high_risk_action_v1 |-> [min |-> 75, stale |-> 30, highRisk |-> TRUE],
     audit_explain_v1    |-> [min |-> 20, stale |-> 90, highRisk |-> FALSE]]

Memory == [source : Sources, status : Statuses, conf : 0..95, stale : 0..100,
           environment : BOOLEAN, validated : BOOLEAN, contradicted : BOOLEAN,
           print : BOOLEAN, expired : BOOLEAN]
NoMemory == [source |-> "none", status |-> "archived", conf |-> 0, stale |-> 0,
             environment |-> FALSE, validated |-> FALSE, contradicted |-> FALSE,
             print |-> FALSE, expired |-> FALSE]
Exists == mem # NoMemory

UsageStates == {"none", "open", "processed"}
NoUsage == [state |-> "none", policy |-> FALSE, risky |-> FALSE, applied |-> 0]
NoLoad == [op |-> "none"]

Init ==
    /\ mem = NoMemory
    /\ usage = [u \in Usages |-> NoUsage]
    /\ loaded = [w \in Workers |-> NoLoad]
    /\ earned = FALSE
    /\ changes = 0

-----------------------------------------------------------------------------
(* What each kind of evidence does to a memory m.                           *)

Worse(m) == [m EXCEPT !.conf = Clamp(@ - 15, 95), !.stale = Clamp(@ + 25, 100),
                      !.contradicted = TRUE]

(* print: the failure has a fingerprint, the same as the last one if the    *)
(* memory has one.                                                          *)
Contradicted(m, severity, policy, print) ==
    [Worse(m) EXCEPT
        !.print = print,
        !.status = IF severity = "critical" \/ policy THEN "needs_revalidation"
                   ELSE IF severity = "high" \/ (print /\ m.print) THEN "suspect"
                   ELSE @]

(* delta: 5 when the memory bound a decision or changed an input, else 3.   *)
Confirmed(m, outcome, delta) ==
    LET better == [m EXCEPT !.conf = Clamp(@ + delta, 95),
                            !.stale = Clamp(@ - (IF outcome = "validated" THEN 10 ELSE 8), 100),
                            !.validated = @ \/ outcome = "validated"]
        restored == \/ /\ m.status = "needs_revalidation"
                       /\ better.stale <= 50
                       /\ better.conf >= InitialConfidence[m.source]
                    \/ /\ outcome = "validated"
                       /\ m.status \in {"needs_review", "needs_revalidation", "suspect"}
    IN [better EXCEPT !.status = IF restored THEN "active" ELSE @]

Outdated(m, policy) ==
    LET stale == Clamp(m.stale + (IF policy THEN 30 ELSE 20), 100) IN
    [m EXCEPT !.stale = stale, !.environment = FALSE,
              !.status = IF policy \/ stale >= 80 THEN "needs_revalidation" ELSE @]

StaleEvents == {"environment.updated", "manifest.changed", "document.updated", "scenario.updated"}
StaleDelta(event) ==
    CASE event = "environment.updated" -> 30
      [] event \in {"document.updated", "manifest.changed"} -> 25
      [] OTHER -> 20

MarkedStale(m, event) ==
    LET stale == Clamp(m.stale + StaleDelta(event), 100) IN
    [m EXCEPT !.stale = stale, !.environment = event = "environment.updated",
              !.status = IF event \in {"manifest.changed", "environment.updated"} \/ stale >= 80
                         THEN "needs_revalidation" ELSE @]

Positive == {"validated", "helped"}
Outcomes == Positive \cup {"stale", "misleading", "neutral"}

(* _process_usage_event.  caused: the memory changed a tool's input.        *)
AfterFeedback(m, outcome, policy, caused, severity, print) ==
    IF m.status = "rejected" THEN m
    ELSE CASE outcome \in Positive   -> Confirmed(m, outcome, IF policy \/ caused THEN 5 ELSE 3)
           [] outcome = "stale"      -> Outdated(m, policy)
           [] outcome = "misleading" -> Contradicted(m, severity, policy, print)
           [] OTHER                  -> m

(* The UPDATE of a loaded object: only the columns it changed.              *)
WriteBack(row, copy, new) ==
    [f \in DOMAIN row |-> IF new[f] # copy[f] THEN new[f] ELSE row[f]]

-----------------------------------------------------------------------------
(* How many different execution records the evidence names.                 *)
EnoughEvidence(source, records) == source = "execution_learned" => records >= 2
HasSource(source, ref, hash) ==
    /\ source \in {"execution_learned", "document_imported", "external_imported"} => ref
    /\ source = "document_imported" => hash

(* Mutant: what executions taught is used at once.                          *)
CreatedActive(source) ==
    IF source \in Trusted \cup {"execution_learned"} THEN "active" ELSE "needs_review"

CreatedStatus(source) == IF source \in Trusted THEN "active" ELSE "needs_review"

CreateMemory(source, ref, hash, records) ==
    /\ ~Exists
    /\ HasSource(source, ref, hash) /\ EnoughEvidence(source, records)
    /\ mem' = [NoMemory EXCEPT !.source = source, !.status = CreatedStatus(source),
                               !.conf = InitialConfidence[source]]
    /\ UNCHANGED <<usage, loaded, earned, changes>>

CanChange == Exists /\ changes < MaxChanges

(* update_memory with a status; a request that changes only texts leaves    *)
(* these fields alone.                                                      *)
StatusAllowed(m, new) == new = "active" => m.source \in Trusted
UpdateMemory(new) ==
    /\ CanChange
    /\ StatusAllowed(mem, new)
    /\ mem' = [mem EXCEPT !.status = new]
    /\ changes' = changes + 1
    /\ UNCHANGED <<usage, loaded, earned>>

ValidateMemory ==
    /\ CanChange
    /\ mem.source # "repair_inferred"
    /\ mem' = [mem EXCEPT !.status = "active", !.validated = TRUE,
                          !.conf = Clamp(@ + 10, 95), !.stale = Clamp(@ - 25, 100)]
    /\ earned' = TRUE
    /\ changes' = changes + 1
    /\ UNCHANGED <<usage, loaded>>

RejectMemory ==
    /\ CanChange
    /\ mem' = [mem EXCEPT !.status = "rejected", !.stale = 100,
                          !.conf = IF @ > 10 THEN 10 ELSE @]
    /\ changes' = changes + 1
    /\ UNCHANGED <<usage, loaded, earned>>

-----------------------------------------------------------------------------
(* The clock passes expires_at, and the maintenance worker finds the row.   *)
Expire ==
    /\ Exists
    /\ mem.source \in TtlSources /\ ~mem.expired
    /\ mem' = [mem EXCEPT !.expired = TRUE]
    /\ UNCHANGED <<usage, loaded, earned, changes>>

ProcessExpiredTtl ==
    /\ CanChange
    /\ mem.expired /\ ~mem.validated /\ mem.status \notin {"rejected", "archived"}
    /\ LET stale == Clamp(mem.stale + 10, 100) IN
       mem' = [mem EXCEPT !.stale = stale, !.environment = FALSE,
                          !.status = IF stale >= 80 THEN "needs_revalidation" ELSE @]
    /\ changes' = changes + 1
    /\ UNCHANGED <<usage, loaded, earned>>

-----------------------------------------------------------------------------
(* _hard_gate_filter_reason returns nothing.                                *)
Retrievable(m, profile, risky) ==
    /\ m.status \in {"active", "needs_revalidation"}
    /\ ~m.expired
    /\ ~(risky /\ m.environment)
    /\ m.conf >= RetrievalProfile[profile].min
    /\ m.stale <= RetrievalProfile[profile].stale
    /\ risky => /\ RetrievalProfile[profile].highRisk
                /\ m.source \in HighRiskSources
                /\ m.source \notin AgentAuthority

Retrieve(u, profile, risky, policy) ==
    /\ Exists
    /\ usage[u].state = "none"
    /\ Retrievable(mem, profile, risky)
    /\ usage' = [usage EXCEPT ![u] = [NoUsage EXCEPT !.state = "open", !.policy = policy,
                                                     !.risky = risky]]
    /\ UNCHANGED <<mem, loaded, earned, changes>>

-----------------------------------------------------------------------------
(* The usage row is read FOR UPDATE and stays locked until the commit; a    *)
(* processed one is answered at once.                                       *)
Locked(u) == \E w \in Workers : loaded[w].op = "feedback" /\ loaded[w].usage = u
(* Mutant: feedback for a processed event is applied again.                 *)
MayTakeFeedbackAgain(u) == usage[u].state # "none"

MayTakeFeedback(u) == usage[u].state = "open"

LoadForFeedback(w, u) ==
    /\ CanChange
    /\ loaded[w] = NoLoad
    /\ MayTakeFeedback(u) /\ ~Locked(u)
    /\ loaded' = [loaded EXCEPT ![w] = [op |-> "feedback", usage |-> u, copy |-> mem]]
    /\ UNCHANGED <<mem, usage, earned, changes>>

WriteFeedback(w, outcome, caused, severity, print) ==
    /\ loaded[w].op = "feedback"
    /\ LET u == loaded[w].usage
           copy == loaded[w].copy
           ignored == copy.status = "rejected"
       IN
       /\ mem' = WriteBack(mem, copy, AfterFeedback(copy, outcome, usage[u].policy, caused, severity, print))
       /\ usage' = [usage EXCEPT ![u].state = "processed",
                                 ![u].applied = IF ignored THEN @ ELSE @ + 1]
       /\ earned' = (earned \/ (outcome \in Positive /\ ~ignored))
    /\ loaded' = [loaded EXCEPT ![w] = NoLoad]
    /\ changes' = changes + 1

(* process_execution_record_created: a usage event of its own, committed    *)
(* with the outcome the verdict gives.                                      *)
RecordOutcomes == {"validated", "misleading"}

LoadForRecord(w) ==
    /\ CanChange
    /\ loaded[w] = NoLoad
    /\ mem.source = "execution_learned" /\ mem.status # "rejected"
    /\ loaded' = [loaded EXCEPT ![w] = [op |-> "record", copy |-> mem]]
    /\ UNCHANGED <<mem, usage, earned, changes>>

WriteRecord(w, outcome, severity, print) ==
    /\ loaded[w].op = "record"
    /\ outcome \in RecordOutcomes
    /\ LET copy == loaded[w].copy IN
       mem' = WriteBack(mem, copy, AfterFeedback(copy, outcome, TRUE, outcome = "misleading", severity, print))
    /\ earned' = (earned \/ outcome \in Positive)
    /\ loaded' = [loaded EXCEPT ![w] = NoLoad]
    /\ changes' = changes + 1
    /\ UNCHANGED usage

LoadForContradiction(w) ==
    /\ CanChange
    /\ loaded[w] = NoLoad
    /\ loaded' = [loaded EXCEPT ![w] = [op |-> "contradiction", copy |-> mem]]
    /\ UNCHANGED <<mem, usage, earned, changes>>

WriteContradiction(w, severity, print) ==
    /\ loaded[w].op = "contradiction"
    /\ LET copy == loaded[w].copy IN
       mem' = WriteBack(mem, copy, Contradicted(copy, severity, FALSE, print))
    /\ loaded' = [loaded EXCEPT ![w] = NoLoad]
    /\ changes' = changes + 1
    /\ UNCHANGED <<usage, earned>>

LoadForStale(w) ==
    /\ CanChange
    /\ loaded[w] = NoLoad
    /\ mem.status # "rejected"
    /\ loaded' = [loaded EXCEPT ![w] = [op |-> "stale", copy |-> mem]]
    /\ UNCHANGED <<mem, usage, earned, changes>>

WriteStale(w, event) ==
    /\ loaded[w].op = "stale"
    /\ LET copy == loaded[w].copy IN mem' = WriteBack(mem, copy, MarkedStale(copy, event))
    /\ loaded' = [loaded EXCEPT ![w] = NoLoad]
    /\ changes' = changes + 1
    /\ UNCHANGED <<usage, earned>>

Severities == {"medium", "high", "critical"}

UserStep ==
    \/ \E source \in Sources, ref, hash \in BOOLEAN, records \in 0..2 :
           CreateMemory(source, ref, hash, records)
    \/ \E new \in Statuses : UpdateMemory(new)
    \/ ValidateMemory
    \/ RejectMemory
    \/ \E u \in Usages, profile \in DOMAIN RetrievalProfile, risky, policy \in BOOLEAN :
           Retrieve(u, profile, risky, policy)

WorkerStep(w) ==
    \/ \E u \in Usages : LoadForFeedback(w, u)
    \/ \E outcome \in Outcomes, caused, print \in BOOLEAN, severity \in Severities :
           WriteFeedback(w, outcome, caused, severity, print)
    \/ LoadForRecord(w)
    \/ \E outcome \in RecordOutcomes, severity \in Severities, print \in BOOLEAN :
           WriteRecord(w, outcome, severity, print)
    \/ LoadForContradiction(w)
    \/ \E severity \in Severities, print \in BOOLEAN : WriteContradiction(w, severity, print)
    \/ LoadForStale(w)
    \/ \E event \in StaleEvents : WriteStale(w, event)

Next == UserStep \/ Expire \/ ProcessExpiredTtl \/ \E w \in Workers : WorkerStep(w)

Spec == Init /\ [][Next]_vars

-----------------------------------------------------------------------------
TypeOK ==
    /\ mem = NoMemory \/ mem \in Memory
    /\ usage \in [Usages -> [state : UsageStates, policy : BOOLEAN, risky : BOOLEAN,
                             applied : 0..MaxChanges]]
    /\ \A w \in Workers : loaded[w] = NoLoad \/ loaded[w].copy \in Memory
    /\ earned \in BOOLEAN
    /\ changes \in Nat

(* A usage event counts for the memory once, however often and by however   *)
(* many requests its outcome is reported (record_usage_feedback answers a   *)
(* processed event with the stored result).                                 *)
FeedbackOnce == \A u \in Usages : usage[u].applied <= 1

(* A memory that neither a user nor a document gave is active only after a  *)
(* validation, an execution record or positive feedback vouched for it.     *)
ActiveWasEarned ==
    Exists => (mem.status = "active" => mem.source \in Trusted \/ earned)

=============================================================================
