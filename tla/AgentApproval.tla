--------------------------- MODULE AgentApproval ---------------------------
(***************************************************************************)
(* The approval of Agent tool calls: app/services/agent_approval_service.py *)
(* (ApprovalService, ApprovalMutationGuard, PolicyManager,                  *)
(* ApprovalExpireScanner) together with the parts of agent_runtime_service  *)
(* (create_tool_call, the worker queue, the executor's gate) that read or   *)
(* write the same rows.                                                     *)
(*                                                                          *)
(* Every decision of ApprovalMutationGuard runs in one transaction that     *)
(* holds lineage, call, approval and run FOR UPDATE, so it is one action    *)
(* here.  (_block_queue reads the queue without a lock; while an approval   *)
(* is pending only an enqueue can change that row.)  The expire scanner is  *)
(* not one action: it loads the due approvals first and locks them one by   *)
(* one later, and SELECT ... FOR UPDATE does not refresh an object its      *)
(* session already holds, so what it loaded is part of the state.           *)
(*                                                                          *)
(* An approval is named by the tool call it was created for (each call gets *)
(* exactly one).  An element of Inputs stands for the immutable triple      *)
(* (input_hash, runtime_snapshot_id, resource_scope_hash).                  *)
(***************************************************************************)
EXTENDS Naturals, FiniteSets

CONSTANTS Calls,      \* tool_call_id values
          Lineages,   \* approval_lineage_id values
          Inputs,     \* immutable inputs an approval is bound to
          Workers,    \* worker_id values of ToolExecutor.execute_next
          Scanners,   \* sessions running ApprovalExpireScanner.expire_due_summary
          None        \* an unset column

ASSUME NoneAssumption == None \notin Calls \cup Lineages \cup Workers \cup Inputs

VARIABLES run,        \* ai_agent_runs.status, as far as approvals look at it
          call,       \* ai_agent_tool_calls
          lineage,    \* ai_agent_approval_lineages
          approval,   \* ai_agent_approvals
          item,       \* ai_agent_worker_queue, one row per call
          claimed,    \* the call each worker took from claim_next and holds in memory
          scan,       \* approvals each scanner has still to process, as loaded
          expireLog   \* "expire" rows of ai_agent_approval_mutation_logs

vars == <<run, call, lineage, approval, item, claimed, scan, expireLog>>

-----------------------------------------------------------------------------
CallStatuses == {"absent", "planned", "leased", "succeeded", "failed",
                 "uncertain", "manual_intervention", "obsolete"}
ApprovalStatuses == {"absent", "pending", "approved", "rejected", "expired", "superseded"}
LineageStatuses == {"absent", "pending", "approved", "rejected", "expired"}
ItemStatuses == {"absent", "queued", "leased", "blocked_approval", "completed", "failed"}
ItemErrors == {"none", "approval_required_before_execution", "approval_rejected",
               "approval_expired", "approval_superseded", "other"}

(* APPROVABLE_TOOL_CALL_STATUSES and SUPERSEDE_BLOCKED_TOOL_CALL_STATUSES,  *)
(* restricted to statuses a committed row of this model can have.           *)
Approvable == {"planned"}
SupersedeBlocked == {"leased", "uncertain", "succeeded"}

(* Error codes _release_or_enqueue puts back into the queue. *)
Releasable == {"approval_required_before_execution", "approval_rejected",
               "approval_expired", "none"}

Call == [status : CallStatuses, required : BOOLEAN, lineage : Lineages \cup {None},
         epoch : Nat, input : Inputs \cup {None}, approvedId : Calls \cup {None}]
Approval == [status : ApprovalStatuses, lineage : Lineages \cup {None}, epoch : Nat,
             input : Inputs \cup {None}, expires : BOOLEAN, due : BOOLEAN]
Lineage == [status : LineageStatuses, epoch : Nat, call : Calls \cup {None}]
Item == [status : ItemStatuses, err : ItemErrors]

(* What a scanner's session holds of an approval it selected: the status it  *)
(* read, or "unloaded" once a commit expired the object, so that the next    *)
(* attribute access reads the row again.                                     *)
Loaded == {"no", "unloaded", "pending", "other"}

NoCall == [status |-> "absent", required |-> FALSE, lineage |-> None,
           epoch |-> 0, input |-> None, approvedId |-> None]
NoApproval == [status |-> "absent", lineage |-> None, epoch |-> 0,
               input |-> None, expires |-> FALSE, due |-> FALSE]
NoLineage == [status |-> "absent", epoch |-> 0, call |-> None]
NoItem == [status |-> "absent", err |-> "none"]
Queued == [status |-> "queued", err |-> "none"]

Init ==
    /\ run = "active"
    /\ call = [c \in Calls |-> NoCall]
    /\ lineage = [l \in Lineages |-> NoLineage]
    /\ approval = [a \in Calls |-> NoApproval]
    /\ item = [c \in Calls |-> NoItem]
    /\ claimed = [w \in Workers |-> None]
    /\ scan = [s \in Scanners |-> [a \in Calls |-> "no"]]
    /\ expireLog = [a \in Calls |-> 0]

-----------------------------------------------------------------------------
(* Creating a tool call (ExecutionLedgerService.create_tool_call). *)

(* A call whose tool is safe: no approval; enqueue is the caller's argument. *)
CreateFreeCall(c, i, enqueue) ==
    /\ run # "cancelled"
    /\ call[c].status = "absent"
    /\ call' = [call EXCEPT ![c] = [NoCall EXCEPT !.status = "planned", !.input = i]]
    /\ item' = IF enqueue THEN [item EXCEPT ![c] = Queued] ELSE item
    /\ UNCHANGED <<run, lineage, approval, claimed, scan, expireLog>>

(* Mutant: the row is written without approval_required. *)
UnmarkedCall(l, epoch, i) ==
    [NoCall EXCEPT !.status = "planned", !.lineage = l, !.epoch = epoch, !.input = i]

(* The row of a call that must not run before its approval of that epoch. *)
GuardedCall(l, epoch, i) ==
    [status |-> "planned", required |-> TRUE, lineage |-> l,
     epoch |-> epoch, input |-> i, approvedId |-> None]

(* A call that needs approval: create_pending_approval opens a fresh lineage *)
(* at epoch 1 in the same transaction, and the call is not enqueued.         *)
CreateGuardedCall(c, l, i, expires) ==
    /\ run # "cancelled"
    /\ call[c].status = "absent"
    /\ lineage[l].epoch = 0
    /\ call' = [call EXCEPT ![c] = GuardedCall(l, 1, i)]
    /\ lineage' = [lineage EXCEPT ![l] = [status |-> "pending", epoch |-> 1, call |-> c]]
    /\ approval' = [approval EXCEPT ![c] =
                        [status |-> "pending", lineage |-> l, epoch |-> 1,
                         input |-> i, expires |-> expires, due |-> FALSE]]
    /\ UNCHANGED <<run, item, claimed, scan, expireLog>>

(* enqueue_tool_call on a call that has no queue row.  It has no check of its *)
(* own; its one caller of this kind, the fault-injection drills, works on a   *)
(* run it has just created.                                                   *)
Enqueue(c) ==
    /\ run # "cancelled"
    /\ call[c].status = "planned"
    /\ item[c].status = "absent"
    /\ item' = [item EXCEPT ![c] = Queued]
    /\ UNCHANGED <<run, call, lineage, approval, claimed, scan, expireLog>>

(* AgentRuntimeService.cancel_run: the calls and their rows are left alone. *)
CancelRun ==
    /\ run # "cancelled"
    /\ run' = "cancelled"
    /\ UNCHANGED <<call, lineage, approval, item, claimed, scan, expireLog>>

(* The wall clock passes an approval's expires_at. *)
PassExpiry(a) ==
    /\ approval[a].expires
    /\ ~approval[a].due
    /\ approval' = [approval EXCEPT ![a].due = TRUE]
    /\ UNCHANGED <<run, call, lineage, item, claimed, scan, expireLog>>

-----------------------------------------------------------------------------
(* Decisions (ApprovalMutationGuard). *)

(* Mutant: only a leased row is parked. *)
BlockLeasedOnly(c, err) ==
    item' = IF item[c].status = "leased"
            THEN [item EXCEPT ![c] = [status |-> "blocked_approval", err |-> err]]
            ELSE item

(* _block_queue: the call's live queue row is parked and loses its lease. *)
BlockQueue(c, err) ==
    item' = IF item[c].status \in {"queued", "leased", "blocked_approval"}
            THEN [item EXCEPT ![c] = [status |-> "blocked_approval", err |-> err]]
            ELSE item

(* _release_or_enqueue: queue the call, or put its parked row back. *)
ReleaseOrEnqueue(c) ==
    item' = IF \/ item[c].status = "absent"
               \/ /\ item[c].status \in {"blocked_approval", "failed"}
                  /\ item[c].err \in Releasable
            THEN [item EXCEPT ![c] = Queued]
            ELSE item

(* _lock_context finds the approval a request names: the lineage must point  *)
(* at the call and both must be at the epoch the request expects.            *)
Locates(c, l, epoch, a) ==
    /\ lineage[l].epoch # 0
    /\ call[c].status # "absent"
    /\ call[c].lineage = l
    /\ lineage[l].call = c
    /\ epoch = lineage[l].epoch
    /\ epoch = call[c].epoch
    /\ approval[a].lineage = l
    /\ approval[a].epoch = epoch

(* Mutant: the approval's status is not looked at again. *)
InputMatches(a, i) == approval[a].input = i

(* _validate_pending_immutable, for the input the request was made for. *)
PendingFor(a, i) ==
    /\ approval[a].status = "pending"
    /\ approval[a].input = i

(* _mark_expired_locked, past its own status test. *)
MarkExpired(a, c, l) ==
    /\ approval' = [approval EXCEPT ![a].status = "expired"]
    /\ lineage' = [lineage EXCEPT ![l].status = "expired"]
    /\ call' = [call EXCEPT ![c].status = "manual_intervention"]
    /\ expireLog' = [expireLog EXCEPT ![a] = @ + 1]
    /\ BlockQueue(c, "approval_expired")

(* Mutant: a due approval can still be decided. *)
DecidableWhenDue(c, l, epoch, i, a) ==
    /\ Locates(c, l, epoch, a)
    /\ PendingFor(a, i)
    /\ call[c].status \in Approvable

(* The checks approve and reject make in common, in the order of the code. *)
Decidable(c, l, epoch, i, a) ==
    /\ Locates(c, l, epoch, a)
    /\ PendingFor(a, i)
    /\ ~approval[a].due
    /\ call[c].status \in Approvable

(* A request that fails its checks only appends a conflict event. *)
Approve(c, l, epoch, i) ==
    \E a \in Calls :
        /\ Decidable(c, l, epoch, i, a)
        /\ approval' = [approval EXCEPT ![a].status = "approved"]
        /\ lineage' = [lineage EXCEPT ![l].status = "approved"]
        /\ call' = [call EXCEPT ![c].approvedId = a, ![c].epoch = approval[a].epoch]
        /\ ReleaseOrEnqueue(c)
        /\ UNCHANGED <<run, claimed, scan, expireLog>>

Reject(c, l, epoch, i) ==
    \E a \in Calls :
        /\ Decidable(c, l, epoch, i, a)
        /\ approval' = [approval EXCEPT ![a].status = "rejected"]
        /\ lineage' = [lineage EXCEPT ![l].status = "rejected"]
        /\ call' = [call EXCEPT ![c].status = "manual_intervention"]
        /\ BlockQueue(c, "approval_rejected")
        /\ UNCHANGED <<run, claimed, scan, expireLog>>

(* An approve or a reject that finds its approval due expires it instead     *)
(* (_expire_if_needed); this runs before the call's status is looked at.     *)
DecideTooLate(c, l, epoch, i) ==
    \E a \in Calls :
        /\ Locates(c, l, epoch, a)
        /\ PendingFor(a, i)
        /\ approval[a].due
        /\ MarkExpired(a, c, l)
        /\ UNCHANGED <<run, claimed, scan>>

(* Mutant: the lineage moves on to the next epoch but keeps its old call. *)
BumpEpochOnly(l, n) ==
    lineage' = [lineage EXCEPT ![l].status = "pending", ![l].epoch = @ + 1]

(* The lineage moves on to the replacement call. *)
Repoint(l, n) ==
    lineage' = [lineage EXCEPT ![l] =
                    [status |-> "pending", epoch |-> @.epoch + 1, call |-> n]]

(* supersede_with_replacement: n replaces c in the same lineage. *)
Supersede(c, n, i) ==
    LET l == call[c].lineage
    IN  /\ call[c].status # "absent"
        /\ l # None
        /\ approval[c].lineage = l
        /\ approval[c].epoch = lineage[l].epoch
        /\ approval[c].status = "pending"
        /\ call[c].status \notin SupersedeBlocked
        /\ call[n].status = "absent"
        /\ call' = [call EXCEPT
                        ![c].status = "obsolete",
                        ![n] = GuardedCall(l, lineage[l].epoch + 1, i)]
        /\ approval' = [approval EXCEPT
                            ![c].status = "superseded",
                            ![n] = [status |-> "pending", lineage |-> l,
                                    epoch |-> lineage[l].epoch + 1, input |-> i,
                                    expires |-> FALSE, due |-> FALSE]]
        /\ Repoint(l, n)
        /\ BlockQueue(c, "approval_superseded")
        /\ UNCHANGED <<run, claimed, scan, expireLog>>

-----------------------------------------------------------------------------
(* The expire scanner (ApprovalExpireScanner.expire_due_summary). *)

ScanIdle(s) == \A a \in Calls : scan[s][a] = "no"

(* The SELECT that loads every due pending approval into the session. *)
ScanLoad(s) ==
    LET due == {a \in Calls : approval[a].status = "pending" /\ approval[a].due}
    IN  /\ ScanIdle(s)
        /\ due # {}
        /\ scan' = [scan EXCEPT ![s] = [a \in Calls |-> IF a \in due THEN "pending" ELSE "no"]]
        /\ UNCHANGED <<run, call, lineage, approval, item, claimed, expireLog>>

(* After a commit the loop's first attribute access reads the row again. *)
ScanReload(s, a) ==
    /\ scan[s][a] = "unloaded"
    /\ scan' = [scan EXCEPT ![s][a] = IF approval[a].status = "pending" THEN "pending" ELSE "other"]
    /\ UNCHANGED <<run, call, lineage, approval, item, claimed, expireLog>>

(* expire_approval: the row is locked, but the status tested is the loaded   *)
(* one.  The commit expires every object of the session.                     *)
ScanExpire(s, a) ==
    /\ scan[s][a] = "pending"
    /\ MarkExpired(a, a, approval[a].lineage)
    /\ scan' = [scan EXCEPT ![s] =
                    [b \in Calls |-> IF b = a \/ @[b] = "no" THEN "no" ELSE "unloaded"]]
    /\ UNCHANGED <<run, claimed>>

(* expire_approval returns early, without a commit. *)
ScanSkip(s, a) ==
    /\ scan[s][a] = "other"
    /\ scan' = [scan EXCEPT ![s][a] = "no"]
    /\ UNCHANGED <<run, call, lineage, approval, item, claimed, expireLog>>

-----------------------------------------------------------------------------
(* The queue and the executor, as far as approvals gate them. *)

(* claim_next looks at the call, not at the approval. *)
AwaitsApproval(c) ==
    /\ call[c].required
    /\ call[c].approvedId = None

(* claim_next *)
ClaimBlocked(c) ==
    /\ item[c].status = "queued"
    /\ AwaitsApproval(c)
    /\ item' = [item EXCEPT ![c].status = "blocked_approval",
                            ![c].err = "approval_required_before_execution"]
    /\ call' = [call EXCEPT ![c].status = "planned"]
    /\ UNCHANGED <<run, lineage, approval, claimed, scan, expireLog>>

(* claim_next also fails the row of an uncertain call; no row of this model  *)
(* is queued while its call is uncertain.                                    *)
Claim(w, c) ==
    /\ claimed[w] = None
    /\ item[c].status = "queued"
    /\ ~AwaitsApproval(c)
    /\ call[c].status # "uncertain"
    /\ item' = [item EXCEPT ![c].status = "leased"]
    /\ call' = [call EXCEPT ![c].status = "leased"]
    /\ claimed' = [claimed EXCEPT ![w] = c]
    /\ UNCHANGED <<run, lineage, approval, scan, expireLog>>

(* recover_orphans on one expired lease; the worker may still be running. *)
RecoverOrphan(c) ==
    /\ item[c].status = "leased"
    /\ item' = [item EXCEPT ![c].status = "queued"]
    /\ call' = IF call[c].status = "leased" THEN [call EXCEPT ![c].status = "planned"] ELSE call
    /\ UNCHANGED <<run, lineage, approval, claimed, scan, expireLog>>

(* The process of a worker dies between the claim and the execution. *)
Crash(w) ==
    /\ claimed[w] # None
    /\ claimed' = [claimed EXCEPT ![w] = None]
    /\ UNCHANGED <<run, call, lineage, approval, item, scan, expireLog>>

(* PolicyManager.ensure_approval_allows_execution *)
ApprovalAllows(c) ==
    call[c].required =>
        LET a == call[c].approvedId
        IN  /\ a # None
            /\ approval[a].status = "approved"
            /\ approval[a].input = call[c].input
            /\ approval[a].lineage = call[c].lineage
            /\ approval[a].epoch = call[c].epoch

(* ensure_approval_allows_execution answers approval_required_before_execution *)
ApprovalMissing(c) ==
    /\ call[c].required
    /\ \/ call[c].approvedId = None
       \/ approval[call[c].approvedId].status # "approved"

(* execute_tool_call seen from the approval tables: the call's final status  *)
(* and what happens to the queue row it was given, if any.  The context      *)
(* check and the weak-capability check may stop any call; past the approval  *)
(* and permission checks the backend answers, raises, or answers while its   *)
(* completion events cannot be stored.                                       *)
ExecutionResults(c) ==
    {[status |-> "manual_intervention", item |-> "failed", err |-> "other"]}
    \cup (IF ApprovalMissing(c)
          THEN {[status |-> "manual_intervention", item |-> "failed",
                 err |-> "approval_required_before_execution"]}
          ELSE {})
    \cup (IF ApprovalAllows(c)
          THEN {[status |-> "succeeded", item |-> "completed", err |-> "none"],
                [status |-> "failed", item |-> "failed", err |-> "other"],
                [status |-> "uncertain", item |-> "failed", err |-> "other"]}
          ELSE {})

Finish(c, res) ==
    call' = [call EXCEPT ![c].status = res.status]

(* mark_completed leaves last_error_code alone. *)
FinishItem(c, res) ==
    item' = [item EXCEPT ![c].status = res.item,
                         ![c].err = IF res.item = "completed" THEN @ ELSE res.err]

(* execute_next, after its claim: neither the run nor the lease is looked at *)
(* again.                                                                    *)
ExecuteClaimed(w) ==
    /\ claimed[w] # None
    /\ \E res \in ExecutionResults(claimed[w]) :
           Finish(claimed[w], res) /\ FinishItem(claimed[w], res)
    /\ claimed' = [claimed EXCEPT ![w] = None]
    /\ UNCHANGED <<run, lineage, approval, scan, expireLog>>

(* AgentRunResumeService runs an approved blocking call in its own process,  *)
(* with the call's queue row when that row is not leased or completed.       *)
ExecuteOnResume(c) ==
    /\ run # "cancelled"
    /\ call[c].required
    /\ call[c].approvedId # None
    /\ call[c].status = "planned"
    /\ \E res \in ExecutionResults(c) :
           /\ Finish(c, res)
           /\ IF item[c].status \in {"queued", "blocked_approval", "failed"}
              THEN FinishItem(c, res)
              ELSE UNCHANGED item
    /\ UNCHANGED <<run, lineage, approval, claimed, scan, expireLog>>

(* The runner executes a free call it created with enqueue=False; the run    *)
(* may have been cancelled in between.                                       *)
ExecuteInline(c) ==
    /\ call[c].status = "planned"
    /\ ~call[c].required
    /\ item[c].status = "absent"
    /\ \E res \in ExecutionResults(c) : Finish(c, res)
    /\ UNCHANGED <<run, lineage, approval, item, claimed, scan, expireLog>>

-----------------------------------------------------------------------------
Next ==
    \/ \E c \in Calls, i \in Inputs, e \in BOOLEAN : CreateFreeCall(c, i, e)
    \/ \E c \in Calls, l \in Lineages, i \in Inputs, e \in BOOLEAN : CreateGuardedCall(c, l, i, e)
    \/ \E c \in Calls : Enqueue(c)
    \/ CancelRun
    \/ \E a \in Calls : PassExpiry(a)
    \/ \E c \in Calls, l \in Lineages, i \in Inputs :
           \E e \in 1..lineage[l].epoch :
               \/ Approve(c, l, e, i)
               \/ Reject(c, l, e, i)
               \/ DecideTooLate(c, l, e, i)
    \/ \E c, n \in Calls, i \in Inputs : Supersede(c, n, i)
    \/ \E s \in Scanners : ScanLoad(s)
    \/ \E s \in Scanners, a \in Calls :
           \/ ScanReload(s, a)
           \/ ScanExpire(s, a)
           \/ ScanSkip(s, a)
    \/ \E c \in Calls : ClaimBlocked(c) \/ RecoverOrphan(c)
    \/ \E w \in Workers, c \in Calls : Claim(w, c)
    \/ \E w \in Workers : Crash(w) \/ ExecuteClaimed(w)
    \/ \E c \in Calls : ExecuteOnResume(c) \/ ExecuteInline(c)

Spec == Init /\ [][Next]_vars

-----------------------------------------------------------------------------
(* Properties *)

TypeOK ==
    /\ run \in {"active", "cancelled"}
    /\ call \in [Calls -> Call]
    /\ lineage \in [Lineages -> Lineage]
    /\ approval \in [Calls -> Approval]
    /\ item \in [Calls -> Item]
    /\ claimed \in [Workers -> Calls \cup {None}]
    /\ scan \in [Scanners -> [Calls -> Loaded]]
    /\ expireLog \in [Calls -> Nat]

(* An approval that is pending or approved is the one its lineage points at: *)
(* no replaced approval stays decidable, and none was approved by mistake    *)
(* (ApprovalMutationGuard.approve against supersede_with_replacement).       *)
LiveApprovalIsCurrent ==
    \A a \in Calls :
        approval[a].status \in {"pending", "approved"} =>
            /\ approval[a].lineage # None
            /\ lineage[approval[a].lineage].call = a
            /\ lineage[approval[a].lineage].epoch = approval[a].epoch

(* A call an approval was ever asked for produced its effect, or may have,   *)
(* only under an approved approval for exactly its input, and no later       *)
(* decision took that approval back (ensure_approval_allows_execution).      *)
EffectHasApproval ==
    \A c \in Calls :
        approval[c].status # "absent" /\ call[c].status \in {"succeeded", "uncertain"} =>
            /\ approval[c].status = "approved"
            /\ approval[c].input = call[c].input
            /\ call[c].approvedId = c

(* A refused approval leaves nothing a worker could still claim, whatever    *)
(* the scanner, the worker and the decisions did in between (_block_queue).  *)
RefusedIsNotRunnable ==
    \A c \in Calls :
        approval[c].status \in {"rejected", "expired", "superseded"} =>
            /\ item[c].status \notin {"queued", "leased"}
            /\ call[c].status \in {"manual_intervention", "obsolete"}

(* An approved, rejected or expired approval never changes again, not even   *)
(* by a scanner that loaded it while it was pending.                         *)
DecisionIsFinal ==
    [][\A a \in Calls :
           approval[a].status \in {"approved", "rejected", "expired"} =>
               approval'[a].status = approval[a].status]_vars

(* A worker holds a call with an approval only if it was approved for the input the   *)
(* call still carries: an input is never changed in place after a decision   *)
(* (claim_next, _create_replacement_tool_call).                              *)
ClaimedIsApproved ==
    \A w \in Workers :
        claimed[w] # None /\ approval[claimed[w]].status # "absent" =>
            LET c == claimed[w]
            IN  approval[c].status = "approved" /\ approval[c].input = call[c].input

(* Whatever is queued, leased or held by a worker under an approval was      *)
(* approved and not refused since, as the input it still carries.            *)
OnlyApprovedRuns == RefusedIsNotRunnable /\ ClaimedIsApproved

-----------------------------------------------------------------------------
(* Refinement of ApprovalDecision *)

Current(l) == lineage[l].call

(* The decision of a lineage is the status of the approval it points at. *)
Decision(l) ==
    IF lineage[l].epoch = 0 THEN "none" ELSE approval[Current(l)].status

Held == {l \in Lineages : \E w \in Workers : claimed[w] # None /\ call[claimed[w]].lineage = l}

Abstract ==
    INSTANCE ApprovalDecision
    WITH epoch <- [l \in Lineages |-> lineage[l].epoch],
         decision <- [l \in Lineages |-> Decision(l)],
         running <- Held

(* The tables, the queue, the workers and the stale scanners together keep   *)
(* the promise of ApprovalDecision (ApprovalMutationGuard, claim_next).      *)
ImplementsDecision == Abstract!AbsSpec

-----------------------------------------------------------------------------
(* What the documents say and the code does not do *)

(* The development plan lists "superseded" among the final statuses of an    *)
(* approval (final_statuses).  The expire scanner overwrites it when the     *)
(* approval was replaced after the scanner loaded it.                        *)
SupersededIsFinal ==
    [][\A a \in Calls :
           approval[a].status = "superseded" => approval'[a].status = "superseded"]_vars

(* The development plan asks that repeated expiry scans do not write         *)
(* "expired" twice.  Two sessions that both loaded the approval do.          *)
ExpiredOnce == \A a \in Calls : expireLog[a] <= 1

(* The development plan asks that no tool call is scheduled once the run is  *)
(* cancelled.  approve queues the call without looking at the run.           *)
NothingScheduledAfterCancel ==
    [][run = "cancelled" =>
           \A c \in Calls : item'[c].status = "queued" => item[c].status \in {"queued", "leased"}]_vars

=============================================================================
