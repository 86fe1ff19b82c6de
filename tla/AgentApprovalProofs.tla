------------------------ MODULE AgentApprovalProofs ------------------------
(***************************************************************************)
(* Theorems about AgentApproval, for any number of calls, lineages, inputs, *)
(* workers and scanners, among them that it implements ApprovalDecision;    *)
(* and about AgentLockOrder, for any number of transactions.                *)
(***************************************************************************)
EXTENDS AgentApproval, Sequences, TLAPS

-----------------------------------------------------------------------------
(* The inductive invariant: what ties the five tables together. *)

(* A call, its approval and its lineage are created together, and the call   *)
(* and its approval keep the input and the epoch they were created with.     *)
LinkedAt(c) ==
    /\ call[c].status = "absent" =>
           /\ approval[c].status = "absent"
           /\ item[c].status = "absent"
    /\ call[c].required =>
           /\ call[c].lineage \in Lineages
           /\ call[c].lineage = approval[c].lineage
           /\ call[c].epoch = approval[c].epoch
           /\ call[c].input = approval[c].input
           /\ approval[c].epoch > 0
           /\ approval[c].epoch <= lineage[call[c].lineage].epoch
           /\ approval[c].status # "absent"
    /\ ~call[c].required =>
           /\ call[c].lineage = None
           /\ approval[c].lineage = None
           /\ call[c].approvedId = None
           /\ approval[c].status = "absent"

Linked == \A c \in Calls : LinkedAt(c)

(* A lineage in use points at the one approval of its current epoch. *)
Pointed ==
    \A l \in Lineages :
        lineage[l].epoch # 0 =>
            /\ lineage[l].call \in Calls
            /\ approval[lineage[l].call].lineage = l
            /\ approval[lineage[l].call].epoch = lineage[l].epoch

(* No two approvals of a lineage carry the same epoch. *)
EpochsDiffer ==
    \A a, b \in Calls :
        /\ approval[a].lineage # None
        /\ approval[a].lineage = approval[b].lineage
        /\ approval[a].epoch = approval[b].epoch
        => a = b

(* A call remembers an approval exactly when its own was approved. *)
Remembered ==
    \A c \in Calls :
        /\ call[c].approvedId \in {None, c}
        /\ call[c].approvedId = c <=> approval[c].status = "approved"

(* While an approval is undecided its call has not moved. *)
Untouched ==
    \A c \in Calls :
        /\ approval[c].status = "pending" =>
               call[c].status = "planned" /\ item[c].status # "leased"
        /\ approval[c].status = "superseded" => call[c].status = "obsolete"

(* A scanner only holds approvals that were due, and no decision but another *)
(* expiry or a replacement can have overtaken it.                            *)
Scanned ==
    \A s \in Scanners, a \in Calls :
        scan[s][a] # "no" =>
            approval[a].due /\ approval[a].status \in {"pending", "expired", "superseded"}

(* What the queue or a worker runs has an approval, if it needs one. *)
Guarded ==
    /\ \A w \in Workers : claimed[w] # None => call[claimed[w]].status # "absent"
    /\ \A c \in Calls :
           /\ call[c].required
           /\ \/ item[c].status = "leased"
              \/ \E w \in Workers : claimed[w] = c
              \/ call[c].status \in {"leased", "succeeded", "uncertain"}
           => approval[c].status = "approved"

IInv ==
    /\ TypeOK
    /\ Linked
    /\ Pointed
    /\ EpochsDiffer
    /\ Remembered
    /\ Untouched
    /\ Scanned
    /\ Guarded
    /\ LiveApprovalIsCurrent
    /\ RefusedIsNotRunnable
-----------------------------------------------------------------------------
(* Changing one field keeps the tables' types. *)

(* Setting the status of a call keeps ai_agent_tool_calls well typed. *)
LEMMA CallStatusTyped ==
    ASSUME NEW f \in [Calls -> Call], NEW c \in Calls, NEW x \in CallStatuses
    PROVE  [f EXCEPT ![c].status = x] \in [Calls -> Call]
<1>1. [f[c] EXCEPT !.status = x] \in Call
    BY DEF Call
<1> QED BY <1>1

(* Setting the status of an approval keeps its table well typed. *)
LEMMA ApprovalStatusTyped ==
    ASSUME NEW f \in [Calls -> Approval], NEW a \in Calls, NEW x \in ApprovalStatuses
    PROVE  [f EXCEPT ![a].status = x] \in [Calls -> Approval]
<1>1. [f[a] EXCEPT !.status = x] \in Approval
    BY DEF Approval
<1> QED BY <1>1

(* Setting the status of a lineage keeps its table well typed. *)
LEMMA LineageStatusTyped ==
    ASSUME NEW f \in [Lineages -> Lineage], NEW l \in Lineages, NEW x \in LineageStatuses
    PROVE  [f EXCEPT ![l].status = x] \in [Lineages -> Lineage]
<1>1. [f[l] EXCEPT !.status = x] \in Lineage
    BY DEF Lineage
<1> QED BY <1>1

(* Setting the status of a queue row keeps the queue well typed. *)
LEMMA ItemStatusTyped ==
    ASSUME NEW f \in [Calls -> Item], NEW c \in Calls, NEW x \in ItemStatuses
    PROVE  [f EXCEPT ![c].status = x] \in [Calls -> Item]
<1>1. [f[c] EXCEPT !.status = x] \in Item
    BY DEF Item
<1> QED BY <1>1

(* Setting status and error code of a queue row keeps the queue well typed. *)
LEMMA ItemTyped ==
    ASSUME NEW f \in [Calls -> Item], NEW c \in Calls,
           NEW x \in ItemStatuses, NEW e \in ItemErrors
    PROVE  /\ [f EXCEPT ![c].status = x, ![c].err = e] \in [Calls -> Item]
           /\ [f EXCEPT ![c] = [status |-> x, err |-> e]] \in [Calls -> Item]
<1>1. [f[c] EXCEPT !.status = x] \in Item
    BY DEF Item
<1>2. [[f[c] EXCEPT !.status = x] EXCEPT !.err = e] \in Item
    BY <1>1 DEF Item
<1>3. [f EXCEPT ![c].status = x, ![c].err = e] \in [Calls -> Item]
    BY <1>1, <1>2
<1>4. [status |-> x, err |-> e] \in Item
    BY DEF Item
<1> QED BY <1>3, <1>4

(* _block_queue keeps the queue well typed. *)
LEMMA BlockQueueTyped ==
    ASSUME item \in [Calls -> Item], NEW c \in Calls, NEW e \in ItemErrors, BlockQueue(c, e)
    PROVE  item' \in [Calls -> Item]
BY ItemTyped DEF BlockQueue, ItemStatuses

(* The clock keeps the approvals well typed. *)
LEMMA DueTyped ==
    ASSUME NEW f \in [Calls -> Approval], NEW a \in Calls
    PROVE  [f EXCEPT ![a].due = TRUE] \in [Calls -> Approval]
<1>1. [f[a] EXCEPT !.due = TRUE] \in Approval
    BY DEF Approval
<1> QED BY <1>1

-----------------------------------------------------------------------------
(* Each action keeps the invariant: creating calls, cancelling, the clock. *)

(* create_tool_call for a safe tool. *)
LEMMA CreateFreeCallKeeps ==
    ASSUME IInv, NEW c \in Calls, NEW i \in Inputs, NEW enqueue \in BOOLEAN, CreateFreeCall(c, i, enqueue)
    PROVE  IInv'
<1>1. call' \in [Calls -> Call] /\ item' \in [Calls -> Item]
    BY DEF IInv, TypeOK, CreateFreeCall, NoCall, Queued, Call, Item, NoCall, Queued,
       CallStatuses, ItemStatuses, ItemErrors
<1>2. TypeOK'
    BY <1>1 DEF IInv, TypeOK, CreateFreeCall
<1>3. Linked'
    BY NoneAssumption DEF IInv, TypeOK, Linked, LinkedAt, CreateFreeCall, NoCall,
       Queued, Call, Approval, Lineage, Item
<1>4. Remembered'
    BY NoneAssumption DEF IInv, TypeOK, Remembered, Linked, LinkedAt, CreateFreeCall,
       NoCall, Queued, Call, Approval
<1>5. Untouched'
    BY NoneAssumption DEF IInv, TypeOK, Untouched, Linked, LinkedAt, Remembered,
       Guarded, RefusedIsNotRunnable, CreateFreeCall, NoCall, Queued, Call, Approval,
       Item
<1>6. Guarded'
    BY NoneAssumption DEF IInv, TypeOK, Guarded, Linked, LinkedAt, Remembered,
       CreateFreeCall, NoCall, Queued, Call, Approval, Item
<1>7. RefusedIsNotRunnable'
    BY NoneAssumption DEF IInv, TypeOK, RefusedIsNotRunnable, Linked, LinkedAt,
       Remembered, Guarded, CreateFreeCall, NoCall, Queued, Call, Approval, Item
<1>8. Pointed' /\ EpochsDiffer' /\ Scanned' /\ LiveApprovalIsCurrent'
    BY DEF IInv, CreateFreeCall, Pointed, EpochsDiffer, Scanned, LiveApprovalIsCurrent
<1> QED
    BY <1>2, <1>3, <1>4, <1>5, <1>6, <1>7, <1>8 DEF IInv

(* create_pending_approval: the new lineage points at the new approval. *)
LEMMA CreateGuardedCallKeeps ==
    ASSUME IInv, NEW c \in Calls, NEW l \in Lineages, NEW i \in Inputs,
           NEW expires \in BOOLEAN, CreateGuardedCall(c, l, i, expires)
    PROVE  IInv'
<1>1. call' \in [Calls -> Call] /\ lineage' \in [Lineages -> Lineage] /\ approval' \in [Calls -> Approval]
    BY DEF IInv, TypeOK, CreateGuardedCall, GuardedCall, Call, Lineage, Approval, CallStatuses,
       LineageStatuses, ApprovalStatuses
<1>2. TypeOK'
    BY <1>1 DEF IInv, TypeOK, CreateGuardedCall, GuardedCall
<1>3. Linked'
    BY NoneAssumption DEF IInv, TypeOK, Linked, LinkedAt, CreateGuardedCall, GuardedCall, Call,
       Approval, Lineage, Item
<1>4. Pointed'
    BY SMTT(20), NoneAssumption DEF IInv, TypeOK, Pointed, Linked, LinkedAt, CreateGuardedCall, GuardedCall,
       Approval, Lineage
<1>5. EpochsDiffer'
    BY SMTT(20), NoneAssumption DEF IInv, TypeOK, EpochsDiffer, Linked, LinkedAt,
       CreateGuardedCall, GuardedCall, Approval
<1>6. Remembered'
    BY NoneAssumption DEF IInv, TypeOK, Remembered, Linked, LinkedAt,
       CreateGuardedCall, GuardedCall, Call, Approval
<1>7. Untouched'
    BY NoneAssumption DEF IInv, TypeOK, Untouched, Linked, LinkedAt, Remembered,
       Guarded, RefusedIsNotRunnable, CreateGuardedCall, GuardedCall, Call, Approval, Item
<1>8. Scanned'
    BY NoneAssumption DEF IInv, TypeOK, Scanned, Linked, LinkedAt, CreateGuardedCall, GuardedCall,
       Approval
<1>9. Guarded'
    BY NoneAssumption DEF IInv, TypeOK, Guarded, Linked, LinkedAt, Remembered,
       CreateGuardedCall, GuardedCall, Call, Approval, Item
<1>10. LiveApprovalIsCurrent'
    BY SMTT(20), NoneAssumption DEF IInv, TypeOK, LiveApprovalIsCurrent, Linked, LinkedAt,
       CreateGuardedCall, GuardedCall, Approval, Lineage
<1>11. RefusedIsNotRunnable'
    BY NoneAssumption DEF IInv, TypeOK, RefusedIsNotRunnable, Linked, LinkedAt,
       Remembered, Guarded, CreateGuardedCall, GuardedCall, Call, Approval, Item
<1> QED
    BY <1>2, <1>3, <1>4, <1>5, <1>6, <1>7, <1>8, <1>9, <1>10, <1>11 DEF IInv

(* enqueue_tool_call. *)
LEMMA EnqueueKeeps ==
    ASSUME IInv, NEW c \in Calls, Enqueue(c)
    PROVE  IInv'
<1>1. item' \in [Calls -> Item]
    BY DEF IInv, TypeOK, Enqueue, Queued, Item, Queued, ItemStatuses, ItemErrors
<1>2. TypeOK'
    BY <1>1 DEF IInv, TypeOK, Enqueue
<1>3. Linked'
    BY NoneAssumption DEF IInv, TypeOK, Linked, LinkedAt, Enqueue, Queued, Call,
       Approval, Lineage, Item
<1>4. Untouched'
    BY NoneAssumption DEF IInv, TypeOK, Untouched, Linked, LinkedAt, Remembered,
       Guarded, RefusedIsNotRunnable, Enqueue, Queued, Call, Approval, Item
<1>5. Guarded'
    BY NoneAssumption DEF IInv, TypeOK, Guarded, Linked, LinkedAt, Remembered, Enqueue,
       Queued, Call, Approval, Item
<1>6. RefusedIsNotRunnable'
    BY NoneAssumption DEF IInv, TypeOK, RefusedIsNotRunnable, Linked, LinkedAt,
       Remembered, Guarded, Enqueue, Queued, Call, Approval, Item
<1>7. Pointed' /\ EpochsDiffer' /\ Remembered' /\ Scanned' /\ LiveApprovalIsCurrent'
    BY DEF IInv, Enqueue, Pointed, EpochsDiffer, Remembered, Scanned,
       LiveApprovalIsCurrent
<1> QED
    BY <1>2, <1>3, <1>4, <1>5, <1>6, <1>7 DEF IInv

(* The clock passes an expiry. *)
LEMMA PassExpiryKeeps ==
    ASSUME IInv, NEW a \in Calls, PassExpiry(a)
    PROVE  IInv'
<1>1. approval' \in [Calls -> Approval]
    BY DueTyped DEF IInv, TypeOK, PassExpiry
<1>2. TypeOK'
    BY <1>1 DEF IInv, TypeOK, PassExpiry
<1>3. Linked'
    BY NoneAssumption DEF IInv, TypeOK, Linked, LinkedAt, PassExpiry, Call, Approval,
       Lineage, Item
<1>4. Pointed'
    BY NoneAssumption DEF IInv, TypeOK, Pointed, Linked, LinkedAt, PassExpiry,
       Approval, Lineage
<1>5. EpochsDiffer'
    BY NoneAssumption DEF IInv, TypeOK, EpochsDiffer, Linked, LinkedAt, PassExpiry,
       Approval
<1>6. Remembered'
    BY NoneAssumption DEF IInv, TypeOK, Remembered, Linked, LinkedAt, PassExpiry, Call,
       Approval
<1>7. Untouched'
    BY NoneAssumption DEF IInv, TypeOK, Untouched, Linked, LinkedAt, Remembered,
       Guarded, RefusedIsNotRunnable, PassExpiry, Call, Approval, Item
<1>8. Scanned'
    BY NoneAssumption DEF IInv, TypeOK, Scanned, Linked, LinkedAt, PassExpiry, Approval
<1>9. Guarded'
    BY NoneAssumption DEF IInv, TypeOK, Guarded, Linked, LinkedAt, Remembered,
       PassExpiry, Call, Approval, Item
<1>10. LiveApprovalIsCurrent'
    BY NoneAssumption DEF IInv, TypeOK, LiveApprovalIsCurrent, Linked, LinkedAt,
       PassExpiry, Approval, Lineage
<1>11. RefusedIsNotRunnable'
    BY NoneAssumption DEF IInv, TypeOK, RefusedIsNotRunnable, Linked, LinkedAt,
       Remembered, Guarded, PassExpiry, Call, Approval, Item
<1> QED
    BY <1>2, <1>3, <1>4, <1>5, <1>6, <1>7, <1>8, <1>9, <1>10, <1>11 DEF IInv

-----------------------------------------------------------------------------
(* Decisions and the replacement. *)

(* The approval a decision locates is the call's own. *)
LEMMA LocatesCurrent ==
    ASSUME IInv, NEW c \in Calls, NEW l \in Lineages, NEW e \in Nat, NEW a \in Calls,
           Locates(c, l, e, a)
    PROVE  a = c /\ call[c].required
<1>1. call[c].required /\ call[c].lineage = l
    BY NoneAssumption DEF IInv, Linked, LinkedAt, Locates
<1>2. approval[c].lineage = l /\ approval[c].epoch = call[c].epoch
    BY <1>1 DEF IInv, Linked, LinkedAt
<1> QED BY <1>1, <1>2, NoneAssumption DEF IInv, EpochsDiffer, Locates

(* Refusing a request, by a rejection or an expiry, keeps the invariant. *)
LEMMA RefusedKeeps ==
    ASSUME IInv, NEW c \in Calls, NEW l \in Lineages, NEW d \in {"rejected", "expired"},
           NEW err \in ItemErrors,
           approval[c].lineage = l,
           approval[c].status \in {"pending", "expired", "superseded"},
           approval' = [approval EXCEPT ![c].status = d],
           lineage' = [lineage EXCEPT ![l].status = d],
           call' = [call EXCEPT ![c].status = "manual_intervention"],
           BlockQueue(c, err),
           run' = run, claimed' = claimed, expireLog' \in [Calls -> Nat],
           scan' \in [Scanners -> [Calls -> Loaded]], Scanned'
    PROVE  IInv'
<1>1. /\ call \in [Calls -> Call]
      /\ approval \in [Calls -> Approval]
      /\ lineage \in [Lineages -> Lineage]
      /\ item \in [Calls -> Item]
    BY DEF IInv, TypeOK
<1>2. TypeOK'
  <2>1. call' \in [Calls -> Call]
        BY <1>1, CallStatusTyped DEF CallStatuses
  <2>2. approval' \in [Calls -> Approval]
        BY <1>1, ApprovalStatusTyped DEF ApprovalStatuses
  <2>3. lineage' \in [Lineages -> Lineage]
        BY <1>1, LineageStatusTyped DEF LineageStatuses
  <2>4. item' \in [Calls -> Item]
        BY <1>1, BlockQueueTyped
  <2> QED BY <2>1, <2>2, <2>3, <2>4 DEF IInv, TypeOK
<1>3. /\ call'[c].status = "manual_intervention"
      /\ call'[c].required = call[c].required
      /\ call'[c].lineage = call[c].lineage
      /\ call'[c].epoch = call[c].epoch
      /\ call'[c].input = call[c].input
      /\ call'[c].approvedId = call[c].approvedId
      /\ approval'[c].status = d
      /\ approval'[c].lineage = approval[c].lineage
      /\ approval'[c].epoch = approval[c].epoch
      /\ approval'[c].input = approval[c].input
    BY <1>1 DEF Call, Approval
<1>4. \A x \in Calls : x # c => call'[x] = call[x] /\ approval'[x] = approval[x] /\ item'[x] = item[x]
    BY <1>1 DEF BlockQueue
<1>5. \A m \in Lineages : lineage'[m].epoch = lineage[m].epoch /\ lineage'[m].call = lineage[m].call
    BY <1>1 DEF Lineage
<1>6. item'[c].status \notin {"queued", "leased"}
    BY <1>1 DEF BlockQueue, Item
<1>7. call[c].required /\ claimed \in [Workers -> Calls \cup {None}]
    BY DEF IInv, TypeOK, Linked, LinkedAt
<1>8. Linked'
  <2> SUFFICES ASSUME NEW x \in Calls PROVE LinkedAt(x)'
      BY DEF Linked
  <2>1. LinkedAt(x)
        BY DEF IInv, Linked
  <2>2. CASE x = c
        BY <1>3, <1>5, <1>7, <2>1, <2>2 DEF LinkedAt
  <2>3. CASE x # c
        BY <1>4, <1>5, <2>1, <2>3 DEF LinkedAt
  <2> QED BY <2>2, <2>3
<1>9. Pointed'
    BY <1>3, <1>4, <1>5 DEF IInv, Pointed
<1>10. EpochsDiffer'
    BY <1>3, <1>4 DEF IInv, EpochsDiffer
<1>11. Remembered'
    BY <1>3, <1>4, NoneAssumption DEF IInv, Remembered
<1>12. Untouched'
    BY <1>3, <1>4 DEF IInv, Untouched
<1>13. Guarded'
    BY <1>3, <1>4, <1>6, <1>7 DEF IInv, Guarded
<1>14. LiveApprovalIsCurrent'
    BY <1>3, <1>4, <1>5, <1>7, NoneAssumption DEF IInv, LiveApprovalIsCurrent, Linked, LinkedAt
<1>15. RefusedIsNotRunnable'
    BY <1>3, <1>4, <1>6 DEF IInv, RefusedIsNotRunnable
<1> QED
    BY <1>2, <1>8, <1>9, <1>10, <1>11, <1>12, <1>13, <1>14, <1>15 DEF IInv

(* ApprovalMutationGuard.reject. *)
LEMMA RejectKeeps ==
    ASSUME IInv, NEW c \in Calls, NEW l \in Lineages, NEW e \in Nat, NEW i \in Inputs,
           Reject(c, l, e, i)
    PROVE  IInv'
<1>0. PICK a \in Calls : /\ Locates(c, l, e, a) /\ PendingFor(a, i) /\ ~approval[a].due
                       /\ approval' = [approval EXCEPT ![a].status = "rejected"]
    BY DEF Reject, Decidable
<1>1. /\ Locates(c, l, e, c) /\ PendingFor(c, i) /\ ~approval[c].due
      /\ approval' = [approval EXCEPT ![c].status = "rejected"]
    BY <1>0, LocatesCurrent
<1>2. approval[c].lineage = l /\ approval[c].status = "pending"
    BY <1>1 DEF Locates, PendingFor
<1>3. Scanned'
    BY <1>1, <1>2 DEF IInv, Scanned, Reject, Decidable, TypeOK, Approval
<1>4. TypeOK
    BY DEF IInv
<1>5. /\ run' = run /\ claimed' = claimed /\ scan' = scan /\ expireLog' = expireLog
      /\ lineage' = [lineage EXCEPT ![l].status = "rejected"]
      /\ call' = [call EXCEPT ![c].status = "manual_intervention"]
      /\ BlockQueue(c, "approval_rejected")
    BY DEF Reject, Decidable
<1> QED
    BY <1>1, <1>2, <1>3, <1>4, <1>5, RefusedKeeps DEF TypeOK, ItemErrors

(* _expire_if_needed. *)
LEMMA DecideTooLateKeeps ==
    ASSUME IInv, NEW c \in Calls, NEW l \in Lineages, NEW e \in Nat, NEW i \in Inputs,
           DecideTooLate(c, l, e, i)
    PROVE  IInv'
<1>1. Locates(c, l, e, c) /\ PendingFor(c, i) /\ approval[c].due /\ MarkExpired(c, c, l)
    BY LocatesCurrent DEF DecideTooLate
<1>2. approval[c].lineage = l /\ approval[c].status = "pending"
    BY <1>1 DEF Locates, PendingFor
<1>3. Scanned'
    BY <1>1, <1>2 DEF IInv, Scanned, DecideTooLate, MarkExpired, TypeOK, Approval
<1>4. expireLog' \in [Calls -> Nat] /\ TypeOK
    BY <1>1 DEF IInv, TypeOK, MarkExpired
<1>5. run' = run /\ claimed' = claimed /\ scan' = scan
    BY DEF DecideTooLate
<1> QED
    BY <1>1, <1>2, <1>3, <1>4, <1>5, RefusedKeeps DEF MarkExpired, TypeOK, ItemErrors

(* expire_approval, with whatever status its session had loaded. *)
LEMMA ScanExpireKeeps ==
    ASSUME IInv, NEW s \in Scanners, NEW a \in Calls, ScanExpire(s, a)
    PROVE  IInv'
<1> DEFINE l == approval[a].lineage
<1>1. approval[a].due /\ approval[a].status \in {"pending", "expired", "superseded"}
    BY DEF IInv, Scanned, ScanExpire
<1>2. l \in Lineages
    BY <1>1 DEF IInv, Linked, LinkedAt
<1>3. /\ scan' \in [Scanners -> [Calls -> Loaded]]
      /\ \A t \in Scanners, b \in Calls : scan'[t][b] # "no" => scan[t][b] # "no"
    BY DEF IInv, TypeOK, ScanExpire, Loaded
<1>4. Scanned'
    BY <1>1, <1>3 DEF IInv, Scanned, ScanExpire, MarkExpired, TypeOK, Approval
<1>5. expireLog' \in [Calls -> Nat]
    BY DEF IInv, TypeOK, MarkExpired, ScanExpire
<1> QED
    BY <1>1, <1>2, <1>3, <1>4, <1>5, RefusedKeeps DEF ScanExpire, MarkExpired, ItemErrors

(* ApprovalMutationGuard.approve. *)
LEMMA ApproveKeeps ==
    ASSUME IInv, NEW c \in Calls, NEW l \in Lineages, NEW e \in Nat, NEW i \in Inputs,
           Approve(c, l, e, i)
    PROVE  IInv'
<1>0. PICK a \in Calls : /\ Locates(c, l, e, a) /\ PendingFor(a, i) /\ ~approval[a].due
                       /\ approval' = [approval EXCEPT ![a].status = "approved"]
                       /\ call' = [call EXCEPT ![c].approvedId = a, ![c].epoch = approval[a].epoch]
                       /\ lineage' = [lineage EXCEPT ![l].status = "approved"]
    BY DEF Approve, Decidable
<1>1. /\ Locates(c, l, e, c) /\ PendingFor(c, i) /\ ~approval[c].due
      /\ approval' = [approval EXCEPT ![c].status = "approved"]
      /\ call' = [call EXCEPT ![c].approvedId = c, ![c].epoch = approval[c].epoch]
      /\ lineage' = [lineage EXCEPT ![l].status = "approved"]
    BY <1>0, LocatesCurrent
<1>2. /\ approval[c].lineage = l /\ approval[c].status = "pending"
      /\ call[c].required /\ call[c].epoch = approval[c].epoch /\ call[c].status = "planned"
    BY <1>1, LocatesCurrent DEF Locates, PendingFor, IInv, Linked, LinkedAt, Untouched
<1>3. ReleaseOrEnqueue(c)
    BY DEF Approve, Decidable
<1>4. run' = run /\ claimed' = claimed /\ scan' = scan /\ expireLog' = expireLog
    BY DEF Approve, Decidable
<1>5. /\ call \in [Calls -> Call]
      /\ approval \in [Calls -> Approval]
      /\ lineage \in [Lineages -> Lineage]
      /\ item \in [Calls -> Item]
    BY DEF IInv, TypeOK
<1>6. TypeOK'
  <2>1. call' \in [Calls -> Call]
    <3>1. [call[c] EXCEPT !.approvedId = c, !.epoch = approval[c].epoch] \in Call
          BY <1>5 DEF Call, Approval
    <3> QED BY <1>1, <1>5, <3>1
  <2>2. approval' \in [Calls -> Approval]
        BY <1>1, <1>5, ApprovalStatusTyped DEF ApprovalStatuses
  <2>3. lineage' \in [Lineages -> Lineage]
        BY <1>1, <1>5, LineageStatusTyped DEF LineageStatuses
  <2>4. item' \in [Calls -> Item]
        BY <1>3, <1>5, ItemTyped DEF ReleaseOrEnqueue, Queued, ItemStatuses, ItemErrors
  <2> QED BY <1>4, <2>1, <2>2, <2>3, <2>4 DEF IInv, TypeOK
<1>7. /\ call'[c].status = call[c].status
      /\ call'[c].required = call[c].required
      /\ call'[c].lineage = call[c].lineage
      /\ call'[c].epoch = call[c].epoch
      /\ call'[c].input = call[c].input
      /\ call'[c].approvedId = c
      /\ approval'[c].status = "approved"
      /\ approval'[c].lineage = approval[c].lineage
      /\ approval'[c].epoch = approval[c].epoch
      /\ approval'[c].input = approval[c].input
    BY <1>1, <1>2, <1>5 DEF Call, Approval
<1>8. \A x \in Calls : x # c => call'[x] = call[x] /\ approval'[x] = approval[x] /\ item'[x] = item[x]
    BY <1>1, <1>3, <1>5 DEF ReleaseOrEnqueue
<1>9. \A m \in Lineages : lineage'[m].epoch = lineage[m].epoch /\ lineage'[m].call = lineage[m].call
    BY <1>1, <1>5 DEF Lineage
<1>10. Linked'
  <2> SUFFICES ASSUME NEW x \in Calls PROVE LinkedAt(x)'
      BY DEF Linked
  <2>1. LinkedAt(x)
        BY DEF IInv, Linked
  <2>2. CASE x = c
        BY ZenonT(30), <1>2, <1>7, <1>9, <2>1, <2>2 DEF LinkedAt
  <2>3. CASE x # c
        BY <1>8, <1>9, <2>1, <2>3 DEF LinkedAt
  <2> QED BY <2>2, <2>3
<1>11. Pointed'
    BY <1>7, <1>8, <1>9 DEF IInv, Pointed
<1>12. EpochsDiffer'
    BY <1>7, <1>8 DEF IInv, EpochsDiffer
<1>13. Remembered'
    BY <1>7, <1>8, NoneAssumption DEF IInv, Remembered
<1>14. Untouched'
    BY <1>7, <1>8 DEF IInv, Untouched
<1>15. Scanned'
    BY <1>1, <1>4, <1>8 DEF IInv, Scanned
<1>16. Guarded'
  <2>1. \A w \in Workers : claimed[w] # None => claimed[w] \in Calls
        BY DEF IInv, TypeOK
  <2> QED BY <1>2, <1>4, <1>7, <1>8, <2>1 DEF IInv, Guarded
<1>17. LiveApprovalIsCurrent'
  <2>1. lineage[l].call = c /\ lineage[l].epoch = approval[c].epoch /\ l # None
        BY <1>1, NoneAssumption DEF Locates
  <2>2. \A x \in Calls : approval[x].lineage # None => approval[x].lineage \in Lineages
        BY DEF IInv, Linked, LinkedAt
  <2> QED BY <1>2, <1>7, <1>8, <1>9, <2>1, <2>2 DEF IInv, LiveApprovalIsCurrent
<1>18. RefusedIsNotRunnable'
    BY <1>7, <1>8 DEF IInv, RefusedIsNotRunnable
<1> QED
    BY <1>6, <1>10, <1>11, <1>12, <1>13, <1>14, <1>15, <1>16, <1>17, <1>18 DEF IInv

(* supersede_with_replacement: old and new approval change together. *)
LEMMA SupersedeKeeps ==
    ASSUME IInv, NEW c \in Calls, NEW n \in Calls, NEW i \in Inputs, Supersede(c, n, i)
    PROVE  IInv'
<1> DEFINE l == call[c].lineage
           e == lineage[l].epoch + 1
           new == [status |-> "planned", required |-> TRUE, lineage |-> l,
                   epoch |-> e, input |-> i, approvedId |-> None]
           request == [status |-> "pending", lineage |-> l, epoch |-> e,
                       input |-> i, expires |-> FALSE, due |-> FALSE]
<1>1. /\ l \in Lineages
      /\ n # c
      /\ call[n].status = "absent"
      /\ ~call[n].required
      /\ approval[n].lineage = None
      /\ approval[n].status = "absent"
      /\ item[n].status = "absent"
      /\ call[c].required
      /\ call[c].approvedId = None
      /\ approval[c].lineage = l
      /\ approval[c].status = "pending"
      /\ call[c].status = "planned"
      /\ item[c].status # "leased"
      /\ lineage[l].epoch \in Nat \ {0}
      /\ approval[c].epoch = lineage[l].epoch
      /\ lineage[l].call = c
    BY NoneAssumption DEF IInv, TypeOK, Linked, LinkedAt, Supersede, GuardedCall, Repoint, Untouched, LiveApprovalIsCurrent, Remembered, Lineage, Call
<1>2. /\ call \in [Calls -> Call]
      /\ approval \in [Calls -> Approval]
      /\ lineage \in [Lineages -> Lineage]
      /\ item \in [Calls -> Item]
    BY DEF IInv, TypeOK
<1>3. /\ call' = [call EXCEPT ![c].status = "obsolete", ![n] = new]
      /\ approval' = [approval EXCEPT ![c].status = "superseded", ![n] = request]
      /\ lineage' = [lineage EXCEPT ![l] = [status |-> "pending", epoch |-> @.epoch + 1, call |-> n]]
      /\ BlockQueue(c, "approval_superseded")
      /\ run' = run /\ scan' = scan /\ expireLog' = expireLog
    BY DEF Supersede, GuardedCall, Repoint
<1>u. claimed' = claimed
    BY DEF Supersede, GuardedCall, Repoint
<1> HIDE DEF new, request
<1>4. /\ call'[n] = new
      /\ call'[c] = [call[c] EXCEPT !.status = "obsolete"]
      /\ approval'[n] = request
      /\ approval'[c] = [approval[c] EXCEPT !.status = "superseded"]
    BY <1>1, <1>2, <1>3
<1>5. \A x \in Calls : x # c /\ x # n => call'[x] = call[x] /\ approval'[x] = approval[x]
    BY <1>1, <1>2, <1>3
<1>6. /\ lineage'[l] = [status |-> "pending", epoch |-> e, call |-> n]
      /\ \A x \in Lineages : x # l => lineage'[x] = lineage[x]
    BY <1>1, <1>2, <1>3
<1>7. /\ item'[c].status \notin {"queued", "leased"}
      /\ \A x \in Calls : x # c => item'[x] = item[x]
    BY <1>1, <1>2, <1>3 DEF BlockQueue, Item
<1> USE <1>1 DEF new, request
<1>8. TypeOK'
  <2>1. /\ [call[c] EXCEPT !.status = "obsolete"] \in Call
        /\ new \in Call
        BY <1>2 DEF Call, CallStatuses, Lineage
  <2>2. /\ [approval[c] EXCEPT !.status = "superseded"] \in Approval
        /\ request \in Approval
        BY <1>2 DEF Approval, ApprovalStatuses, Lineage
  <2>3. [status |-> "pending", epoch |-> e, call |-> n] \in Lineage
        BY <1>2 DEF Lineage, LineageStatuses
  <2>4. item' \in [Calls -> Item]
        BY <1>2, <1>3, BlockQueueTyped DEF ItemErrors
  <2>5. call' \in [Calls -> Call]
        BY <1>2, <1>3, <2>1 DEF new
  <2>6. approval' \in [Calls -> Approval]
        BY <1>2, <1>3, <2>2 DEF request
  <2>7. lineage' \in [Lineages -> Lineage]
        BY <1>2, <1>3, <2>3
  <2> QED BY <1>3, <1>u, <2>4, <2>5, <2>6, <2>7 DEF IInv, TypeOK
<1>9. /\ approval'[n].lineage = l /\ approval'[n].epoch = e /\ approval'[n].status = "pending"
      /\ approval'[c].lineage = l /\ approval'[c].epoch = lineage[l].epoch
      /\ approval'[c].status = "superseded"
      /\ lineage'[l].epoch = e /\ lineage'[l].call = n
      /\ call'[n].status = "planned" /\ call'[c].status = "obsolete"
      /\ call'[c].required /\ call'[n].required
      /\ e \in Nat \ {0} /\ e > lineage[l].epoch
    BY <1>2, <1>4, <1>5, <1>6 DEF Call, Approval, Lineage
<1>10. Linked'
  <2> SUFFICES ASSUME NEW x \in Calls PROVE LinkedAt(x)'
      BY DEF Linked
  <2>1. LinkedAt(x)
        BY DEF IInv, Linked
  <2>2. CASE x = n
        BY <1>4, <1>6, <1>7, <1>9, <2>2 DEF LinkedAt
  <2>3. CASE x = c
        BY <1>2, <1>4, <1>6, <1>9, <2>1, <2>3, NoneAssumption DEF LinkedAt, Call, Approval, Lineage
  <2>4. CASE x # c /\ x # n
    <3>1. \A m \in Lineages : lineage'[m].epoch \in Nat /\ lineage'[m].epoch >= lineage[m].epoch
          BY <1>2, <1>6, <1>9 DEF Lineage
    <3>2. approval[x].epoch \in Nat /\ \A m \in Lineages : lineage[m].epoch \in Nat
          BY <1>2 DEF Approval, Lineage
    <3> QED BY <1>5, <1>7, <2>1, <2>4, <3>1, <3>2 DEF LinkedAt
  <2> QED BY <2>2, <2>3, <2>4
<1> HIDE DEF e, new, request
<1>11. Pointed'
  <2> SUFFICES ASSUME NEW m \in Lineages, lineage'[m].epoch # 0
               PROVE  /\ lineage'[m].call \in Calls
                      /\ approval'[lineage'[m].call].lineage = m
                      /\ approval'[lineage'[m].call].epoch = lineage'[m].epoch
      BY DEF Pointed
  <2>1. CASE m = l
        BY <1>9, <2>1
  <2>2. CASE m # l
        BY <1>5, <1>6, <2>2, NoneAssumption DEF IInv, Pointed
  <2> QED BY <2>1, <2>2
<1>12. EpochsDiffer'
  <2>1. \A x \in Calls : x # n /\ approval[x].lineage = l => approval'[x].epoch # e
        BY <1>2, <1>5, <1>9, NoneAssumption DEF IInv, Linked, LinkedAt, Approval, Lineage
  <2>2. \A x \in Calls : x # n => approval'[x].lineage = approval[x].lineage
                              /\ approval'[x].epoch = approval[x].epoch
        BY <1>5, <1>9
  <2> QED BY <1>9, <2>1, <2>2 DEF IInv, EpochsDiffer
<1> USE DEF new, request
<1>13. Remembered'
    BY SMTT(20), <1>2, <1>4, <1>5, NoneAssumption DEF IInv, Remembered, Call, Approval
<1>14. Untouched'
    BY <1>2, <1>4, <1>5, <1>7 DEF IInv, Untouched, Call, Approval
<1>15. Scanned'
    BY <1>2, <1>3, <1>5 DEF IInv, Scanned, Approval
<1> HIDE DEF new, request
<1>16. Guarded'
  <2>1. \A w \in Workers : claimed[w] # None => claimed[w] # n /\ claimed[w] \in Calls
        BY DEF IInv, TypeOK, Guarded
  <2>2. \A w \in Workers : claimed[w] # c
        BY DEF IInv, Guarded
  <2>3. \A w \in Workers : claimed'[w] # None => call'[claimed'[w]].status # "absent"
        BY <1>5, <1>u, <2>1, <2>2 DEF IInv, Guarded
  <2>4. ASSUME NEW x \in Calls, call'[x].required,
               \/ item'[x].status = "leased"
               \/ \E w \in Workers : claimed'[w] = x
               \/ call'[x].status \in {"leased", "succeeded", "uncertain"}
        PROVE  approval'[x].status = "approved"
    <3>1. x # c
          BY <1>u, <1>7, <1>9, <2>2, <2>4
    <3>2. x # n
          BY <1>u, <1>7, <1>9, <2>1, <2>4, NoneAssumption
    <3> QED BY <1>5, <1>u, <1>7, <2>4, <3>1, <3>2 DEF IInv, Guarded
  <2> QED BY <2>3, <2>4 DEF Guarded
<1>17. LiveApprovalIsCurrent'
  <2> SUFFICES ASSUME NEW a \in Calls, approval'[a].status \in {"pending", "approved"}
               PROVE  /\ approval'[a].lineage # None
                      /\ lineage'[approval'[a].lineage].call = a
                      /\ lineage'[approval'[a].lineage].epoch = approval'[a].epoch
      BY DEF LiveApprovalIsCurrent
  <2>1. CASE a = n
        BY <1>9, <2>1, NoneAssumption
  <2>2. CASE a # n
    <3>1. a # c
          BY <1>9
    <3>2. approval[a].lineage \in Lineages /\ approval[a].lineage # l
          BY <1>5, <2>2, <3>1 DEF IInv, LiveApprovalIsCurrent, Linked, LinkedAt
    <3> QED BY <1>5, <1>6, <2>2, <3>1, <3>2 DEF IInv, LiveApprovalIsCurrent
  <2> QED BY <2>1, <2>2
<1>18. RefusedIsNotRunnable'
    BY <1>2, <1>5, <1>7, <1>9 DEF IInv, RefusedIsNotRunnable
<1> QED
    BY <1>8, <1>10, <1>11, <1>12, <1>13, <1>14, <1>15, <1>16, <1>17, <1>18 DEF IInv

-----------------------------------------------------------------------------
(* The scanner and the queue. *)

(* The SELECT of expire_due_summary. *)
LEMMA ScanLoadKeeps ==
    ASSUME IInv, NEW s \in Scanners, ScanLoad(s)
    PROVE  IInv'
<1>1. scan' \in [Scanners -> [Calls -> Loaded]]
    BY DEF IInv, TypeOK, ScanLoad, Loaded
<1>2. TypeOK'
    BY <1>1 DEF IInv, TypeOK, ScanLoad
<1>3. Scanned'
    BY NoneAssumption DEF IInv, TypeOK, Scanned, Linked, LinkedAt, ScanLoad, Approval
<1>4. Linked' /\ Pointed' /\ EpochsDiffer' /\ Remembered' /\ Untouched' /\ Guarded' /\ LiveApprovalIsCurrent' /\ RefusedIsNotRunnable'
    BY DEF IInv, ScanLoad, Linked, Pointed, EpochsDiffer, Remembered, Untouched,
       Guarded, LiveApprovalIsCurrent, RefusedIsNotRunnable, LinkedAt
<1> QED
    BY <1>2, <1>3, <1>4 DEF IInv

(* A row read again after a commit. *)
LEMMA ScanReloadKeeps ==
    ASSUME IInv, NEW s \in Scanners, NEW a \in Calls, ScanReload(s, a)
    PROVE  IInv'
<1>1. scan' \in [Scanners -> [Calls -> Loaded]]
    BY DEF IInv, TypeOK, ScanReload, Loaded
<1>2. TypeOK'
    BY <1>1 DEF IInv, TypeOK, ScanReload
<1>3. Scanned'
    BY NoneAssumption DEF IInv, TypeOK, Scanned, Linked, LinkedAt, ScanReload, Approval
<1>4. Linked' /\ Pointed' /\ EpochsDiffer' /\ Remembered' /\ Untouched' /\ Guarded' /\ LiveApprovalIsCurrent' /\ RefusedIsNotRunnable'
    BY DEF IInv, ScanReload, Linked, Pointed, EpochsDiffer, Remembered, Untouched,
       Guarded, LiveApprovalIsCurrent, RefusedIsNotRunnable, LinkedAt
<1> QED
    BY <1>2, <1>3, <1>4 DEF IInv

(* The early return of expire_approval. *)
LEMMA ScanSkipKeeps ==
    ASSUME IInv, NEW s \in Scanners, NEW a \in Calls, ScanSkip(s, a)
    PROVE  IInv'
<1>1. scan' \in [Scanners -> [Calls -> Loaded]]
    BY DEF IInv, TypeOK, ScanSkip, Loaded
<1>2. TypeOK'
    BY <1>1 DEF IInv, TypeOK, ScanSkip
<1>3. Scanned'
    BY NoneAssumption DEF IInv, TypeOK, Scanned, Linked, LinkedAt, ScanSkip, Approval
<1>4. Linked' /\ Pointed' /\ EpochsDiffer' /\ Remembered' /\ Untouched' /\ Guarded' /\ LiveApprovalIsCurrent' /\ RefusedIsNotRunnable'
    BY DEF IInv, ScanSkip, Linked, Pointed, EpochsDiffer, Remembered, Untouched,
       Guarded, LiveApprovalIsCurrent, RefusedIsNotRunnable, LinkedAt
<1> QED
    BY <1>2, <1>3, <1>4 DEF IInv

(* claim_next on a call without approval. *)
LEMMA ClaimBlockedKeeps ==
    ASSUME IInv, NEW c \in Calls, ClaimBlocked(c)
    PROVE  IInv'
<1>1. call' \in [Calls -> Call] /\ item' \in [Calls -> Item]
    BY ItemTyped, CallStatusTyped DEF IInv, TypeOK, ClaimBlocked, AwaitsApproval, ItemErrors,
       ItemStatuses, CallStatuses
<1>2. TypeOK'
    BY <1>1 DEF IInv, TypeOK, ClaimBlocked, AwaitsApproval
<1>3. Linked'
    BY NoneAssumption DEF IInv, TypeOK, Linked, LinkedAt, ClaimBlocked, AwaitsApproval, Call, Approval,
       Lineage, Item
<1>4. Remembered'
    BY NoneAssumption DEF IInv, TypeOK, Remembered, Linked, LinkedAt, ClaimBlocked, AwaitsApproval,
       Call, Approval
<1>5. Untouched'
    BY NoneAssumption DEF IInv, TypeOK, Untouched, Linked, LinkedAt, Remembered,
       Guarded, RefusedIsNotRunnable, ClaimBlocked, AwaitsApproval, Call, Approval, Item
<1>6. Guarded'
    BY NoneAssumption DEF IInv, TypeOK, Guarded, Linked, LinkedAt, Remembered,
       ClaimBlocked, AwaitsApproval, Call, Approval, Item
<1>7. RefusedIsNotRunnable'
    BY NoneAssumption DEF IInv, TypeOK, RefusedIsNotRunnable, Linked, LinkedAt,
       Remembered, Guarded, ClaimBlocked, AwaitsApproval, Call, Approval, Item
<1>8. Pointed' /\ EpochsDiffer' /\ Scanned' /\ LiveApprovalIsCurrent'
    BY DEF IInv, ClaimBlocked, AwaitsApproval, Pointed, EpochsDiffer, Scanned, LiveApprovalIsCurrent
<1> QED
    BY <1>2, <1>3, <1>4, <1>5, <1>6, <1>7, <1>8 DEF IInv

(* claim_next on a runnable call. *)
LEMMA ClaimKeeps ==
    ASSUME IInv, NEW w \in Workers, NEW c \in Calls, Claim(w, c)
    PROVE  IInv'
<1>1. call' \in [Calls -> Call] /\ item' \in [Calls -> Item] /\ claimed' \in [Workers -> Calls \cup {None}]
    BY ItemStatusTyped, CallStatusTyped DEF IInv, TypeOK, Claim, AwaitsApproval, ItemStatuses,
       CallStatuses
<1>2. TypeOK'
    BY <1>1 DEF IInv, TypeOK, Claim, AwaitsApproval
<1>3. Linked'
    BY NoneAssumption DEF IInv, TypeOK, Linked, LinkedAt, Claim, AwaitsApproval, Call, Approval,
       Lineage, Item
<1>4. Remembered'
    BY NoneAssumption DEF IInv, TypeOK, Remembered, Linked, LinkedAt, Claim, AwaitsApproval, Call,
       Approval
<1>5. Untouched'
    BY NoneAssumption DEF IInv, TypeOK, Untouched, Linked, LinkedAt, Remembered,
       Guarded, RefusedIsNotRunnable, Claim, AwaitsApproval, Call, Approval, Item
<1>6. Guarded'
    BY NoneAssumption DEF IInv, TypeOK, Guarded, Linked, LinkedAt, Remembered, Claim, AwaitsApproval,
       Call, Approval, Item
<1>7. RefusedIsNotRunnable'
    BY NoneAssumption DEF IInv, TypeOK, RefusedIsNotRunnable, Linked, LinkedAt,
       Remembered, Guarded, Claim, AwaitsApproval, Call, Approval, Item
<1>8. Pointed' /\ EpochsDiffer' /\ Scanned' /\ LiveApprovalIsCurrent'
    BY DEF IInv, Claim, AwaitsApproval, Pointed, EpochsDiffer, Scanned, LiveApprovalIsCurrent
<1> QED
    BY <1>2, <1>3, <1>4, <1>5, <1>6, <1>7, <1>8 DEF IInv

(* recover_orphans. *)
LEMMA RecoverOrphanKeeps ==
    ASSUME IInv, NEW c \in Calls, RecoverOrphan(c)
    PROVE  IInv'
<1>1. call' \in [Calls -> Call] /\ item' \in [Calls -> Item]
    BY ItemStatusTyped, CallStatusTyped DEF IInv, TypeOK, RecoverOrphan, ItemStatuses,
       CallStatuses
<1>2. TypeOK'
    BY <1>1 DEF IInv, TypeOK, RecoverOrphan
<1>3. Linked'
    BY NoneAssumption DEF IInv, TypeOK, Linked, LinkedAt, RecoverOrphan, Call,
       Approval, Lineage, Item
<1>4. Remembered'
    BY NoneAssumption DEF IInv, TypeOK, Remembered, Linked, LinkedAt, RecoverOrphan,
       Call, Approval
<1>5. Untouched'
    BY NoneAssumption DEF IInv, TypeOK, Untouched, Linked, LinkedAt, Remembered,
       Guarded, RefusedIsNotRunnable, RecoverOrphan, Call, Approval, Item
<1>6. Guarded'
    BY NoneAssumption DEF IInv, TypeOK, Guarded, Linked, LinkedAt, Remembered,
       RecoverOrphan, Call, Approval, Item
<1>7. RefusedIsNotRunnable'
    BY NoneAssumption DEF IInv, TypeOK, RefusedIsNotRunnable, Linked, LinkedAt,
       Remembered, Guarded, RecoverOrphan, Call, Approval, Item
<1>8. Pointed' /\ EpochsDiffer' /\ Scanned' /\ LiveApprovalIsCurrent'
    BY DEF IInv, RecoverOrphan, Pointed, EpochsDiffer, Scanned, LiveApprovalIsCurrent
<1> QED
    BY <1>2, <1>3, <1>4, <1>5, <1>6, <1>7, <1>8 DEF IInv

(* A worker dies. *)
LEMMA CrashKeeps ==
    ASSUME IInv, NEW w \in Workers, Crash(w)
    PROVE  IInv'
<1>1. claimed' \in [Workers -> Calls \cup {None}]
    BY DEF IInv, TypeOK, Crash
<1>2. TypeOK'
    BY <1>1 DEF IInv, TypeOK, Crash
<1>3. Guarded'
    BY NoneAssumption DEF IInv, TypeOK, Guarded, Linked, LinkedAt, Remembered, Crash,
       Call, Approval, Item
<1>4. Linked' /\ Pointed' /\ EpochsDiffer' /\ Remembered' /\ Untouched' /\ Scanned' /\ LiveApprovalIsCurrent' /\ RefusedIsNotRunnable'
    BY DEF IInv, Crash, Linked, Pointed, EpochsDiffer, Remembered, Untouched, Scanned,
       LiveApprovalIsCurrent, RefusedIsNotRunnable, LinkedAt
<1> QED
    BY <1>2, <1>3, <1>4 DEF IInv

-----------------------------------------------------------------------------
(* Execution. *)

Outcome == [status : {"manual_intervention", "succeeded", "failed", "uncertain"},
            item : {"failed", "completed"}, err : ItemErrors]

(* Every result of execute_tool_call is an Outcome. *)
LEMMA ResultsTyped ==
    ASSUME NEW c \in Calls, NEW res \in ExecutionResults(c)
    PROVE  res \in Outcome
BY DEF ExecutionResults, Outcome, ItemErrors

(* mark_completed and mark_failed keep the queue well typed. *)
LEMMA FinishItemTyped ==
    ASSUME item \in [Calls -> Item], NEW c \in Calls, NEW res \in Outcome, FinishItem(c, res)
    PROVE  item' \in [Calls -> Item] /\ item'[c].status \in {"failed", "completed"}
<1> DEFINE e == IF res.item = "completed" THEN item[c].err ELSE res.err
<1>1. e \in ItemErrors /\ res.item \in ItemStatuses /\ res.item \in {"failed", "completed"}
    BY DEF Outcome, Item, ItemStatuses
<1>2. item' = [item EXCEPT ![c].status = res.item, ![c].err = e]
    BY DEF FinishItem, Item
<1>3. item'[c].status = res.item
    BY <1>2 DEF Item
<1> QED BY <1>1, <1>2, <1>3, ItemTyped

(* Whatever an execution of a call answers, the invariant survives it. *)
LEMMA ExecutedKeeps ==
    ASSUME IInv, NEW c \in Calls, NEW res \in Outcome,
           call[c].status # "absent",
           call[c].required => approval[c].status = "approved",
           Finish(c, res),
           FinishItem(c, res) \/ item' = item,
           claimed' \in [Workers -> Calls \cup {None}],
           \A w \in Workers : claimed'[w] # None => claimed'[w] = claimed[w],
           run' = run, lineage' = lineage, approval' = approval,
           scan' = scan, expireLog' = expireLog
    PROVE  IInv'
<1>1. /\ call \in [Calls -> Call]
      /\ approval \in [Calls -> Approval]
      /\ item \in [Calls -> Item]
    BY DEF IInv, TypeOK
<1>2. call' = [call EXCEPT ![c].status = res.status] /\ res.status \in CallStatuses
      /\ res.status \in {"manual_intervention", "succeeded", "failed", "uncertain"}
    BY DEF Finish, Outcome, CallStatuses
<1>3. TypeOK'
  <2>1. call' \in [Calls -> Call]
        BY <1>1, <1>2, CallStatusTyped
  <2>2. item' \in [Calls -> Item]
        BY <1>1, FinishItemTyped
  <2> QED BY <2>1, <2>2 DEF IInv, TypeOK
<1>4. /\ call'[c].status \in {"manual_intervention", "succeeded", "failed", "uncertain"}
      /\ call'[c].required = call[c].required
      /\ call'[c].lineage = call[c].lineage
      /\ call'[c].epoch = call[c].epoch
      /\ call'[c].input = call[c].input
      /\ call'[c].approvedId = call[c].approvedId
    BY <1>1, <1>2 DEF Call
<1>5. \A x \in Calls : x # c => call'[x] = call[x] /\ item'[x] = item[x]
    BY <1>1, <1>2 DEF FinishItem
<1>6. item'[c].status \in {"failed", "completed"} \/ item'[c] = item[c]
    BY <1>1, FinishItemTyped
<1>7. approval[c].status \in {"approved", "absent"}
    BY DEF IInv, Linked, LinkedAt
<1>8. Linked'
  <2> SUFFICES ASSUME NEW x \in Calls PROVE LinkedAt(x)'
      BY DEF Linked
  <2>1. LinkedAt(x)
        BY DEF IInv, Linked
  <2>2. CASE x = c
        BY <1>4, <2>1, <2>2 DEF LinkedAt
  <2>3. CASE x # c
        BY <1>5, <2>1, <2>3 DEF LinkedAt
  <2> QED BY <2>2, <2>3
<1>9. Remembered'
    BY <1>4, <1>5 DEF IInv, Remembered
<1>10. Untouched'
    BY <1>5, <1>7 DEF IInv, Untouched
<1>11. Guarded'
  <2>1. ASSUME NEW w \in Workers, claimed'[w] # None
        PROVE  call'[claimed'[w]].status # "absent"
    <3>1. claimed[w] = claimed'[w] /\ claimed[w] \in Calls
          BY <2>1
    <3>2. call[claimed[w]].status # "absent"
          BY <2>1, <3>1 DEF IInv, Guarded
    <3> QED BY <1>4, <1>5, <3>1, <3>2
  <2>2. ASSUME NEW x \in Calls, call'[x].required,
               \/ item'[x].status = "leased"
               \/ \E w \in Workers : claimed'[w] = x
               \/ call'[x].status \in {"leased", "succeeded", "uncertain"}
        PROVE  approval[x].status = "approved"
    <3>1. CASE x = c
          BY <1>4, <2>2, <3>1
    <3>2. CASE x # c
      <4>1. \A w \in Workers : claimed'[w] = x => claimed[w] = x
            BY NoneAssumption
      <4> QED BY <1>5, <2>2, <3>2, <4>1 DEF IInv, Guarded
    <3> QED BY <3>1, <3>2
  <2> QED BY <2>1, <2>2 DEF Guarded
<1>12. RefusedIsNotRunnable'
    BY <1>5, <1>7 DEF IInv, RefusedIsNotRunnable
<1>13. Pointed' /\ EpochsDiffer' /\ Scanned' /\ LiveApprovalIsCurrent'
    BY DEF IInv, Pointed, EpochsDiffer, Scanned, LiveApprovalIsCurrent
<1> QED
    BY <1>3, <1>8, <1>9, <1>10, <1>11, <1>12, <1>13 DEF IInv

(* execute_next after its claim. *)
LEMMA ExecuteClaimedKeeps ==
    ASSUME IInv, NEW w \in Workers, ExecuteClaimed(w)
    PROVE  IInv'
<1>1. claimed[w] \in Calls /\ claimed \in [Workers -> Calls \cup {None}]
    BY DEF IInv, TypeOK, ExecuteClaimed
<1>2. PICK res \in ExecutionResults(claimed[w]) :
          Finish(claimed[w], res) /\ FinishItem(claimed[w], res)
    BY DEF ExecuteClaimed
<1>3. res \in Outcome
    BY <1>1, ResultsTyped
<1>4. /\ call[claimed[w]].status # "absent"
      /\ call[claimed[w]].required => approval[claimed[w]].status = "approved"
    BY <1>1, NoneAssumption DEF IInv, Guarded
<1>5. /\ claimed' = [claimed EXCEPT ![w] = None]
      /\ run' = run /\ lineage' = lineage /\ approval' = approval
      /\ scan' = scan /\ expireLog' = expireLog
    BY DEF ExecuteClaimed
<1>6. /\ claimed' \in [Workers -> Calls \cup {None}]
      /\ \A v \in Workers : claimed'[v] # None => claimed'[v] = claimed[v]
    BY <1>1, <1>5
<1> QED
    BY <1>1, <1>2, <1>3, <1>4, <1>5, <1>6, ExecutedKeeps

(* _execute_approved_blocking. *)
LEMMA ExecuteOnResumeKeeps ==
    ASSUME IInv, NEW c \in Calls, ExecuteOnResume(c)
    PROVE  IInv'
<1>1. PICK res \in ExecutionResults(c) :
          Finish(c, res) /\ (FinishItem(c, res) \/ item' = item)
    BY DEF ExecuteOnResume
<1>2. res \in Outcome
    BY ResultsTyped
<1>3. call[c].status # "absent" /\ approval[c].status = "approved"
    BY DEF ExecuteOnResume, IInv, Remembered
<1>4. /\ run' = run /\ lineage' = lineage /\ approval' = approval
      /\ scan' = scan /\ expireLog' = expireLog /\ claimed' = claimed
      /\ claimed \in [Workers -> Calls \cup {None}]
    BY DEF ExecuteOnResume, IInv, TypeOK
<1> QED
    BY <1>1, <1>2, <1>3, <1>4, ExecutedKeeps

(* The runner executes its own call. *)
LEMMA ExecuteInlineKeeps ==
    ASSUME IInv, NEW c \in Calls, ExecuteInline(c)
    PROVE  IInv'
<1>1. PICK res \in ExecutionResults(c) : Finish(c, res)
    BY DEF ExecuteInline
<1>2. res \in Outcome
    BY ResultsTyped
<1>3. call[c].status # "absent" /\ ~call[c].required /\ item' = item
    BY DEF ExecuteInline
<1>4. /\ run' = run /\ lineage' = lineage /\ approval' = approval
      /\ scan' = scan /\ expireLog' = expireLog /\ claimed' = claimed
      /\ claimed \in [Workers -> Calls \cup {None}]
    BY DEF ExecuteInline, IInv, TypeOK
<1> QED
    BY <1>1, <1>2, <1>3, <1>4, ExecutedKeeps

(* cancel_run. *)
LEMMA CancelRunKeeps ==
    ASSUME IInv, CancelRun
    PROVE  IInv'
BY DEF IInv, TypeOK, Linked, LinkedAt, Pointed, EpochsDiffer, Remembered, Untouched,
       Scanned, Guarded, LiveApprovalIsCurrent, RefusedIsNotRunnable, CancelRun

-----------------------------------------------------------------------------
(* The empty tables satisfy the invariant. *)
LEMMA InitIInv == Init => IInv
<1> SUFFICES ASSUME Init PROVE IInv
    OBVIOUS
<1>1. NoCall \in Call /\ NoApproval \in Approval /\ NoLineage \in Lineage /\ NoItem \in Item
    BY DEF NoCall, NoApproval, NoLineage, NoItem, Call, Approval, Lineage, Item,
       CallStatuses, ApprovalStatuses, LineageStatuses, ItemStatuses, ItemErrors
<1>2. TypeOK
    BY <1>1 DEF Init, TypeOK, Loaded
<1> QED
    BY <1>2, NoneAssumption DEF Init, IInv, Linked, LinkedAt, Pointed, EpochsDiffer,
       Remembered, Untouched, Scanned, Guarded, LiveApprovalIsCurrent,
       RefusedIsNotRunnable, NoCall, NoApproval, NoLineage, NoItem

(* Every step keeps the invariant. *)
LEMMA NextIInv == IInv /\ [Next]_vars => IInv'
<1> SUFFICES ASSUME IInv, [Next]_vars PROVE IInv'
    OBVIOUS
<1>1. CASE UNCHANGED vars
    BY <1>1 DEF vars, IInv, TypeOK, Linked, LinkedAt, Pointed, EpochsDiffer, Remembered,
       Untouched, Scanned, Guarded, LiveApprovalIsCurrent, RefusedIsNotRunnable
<1>2. ASSUME NEW c \in Calls, NEW l \in Lineages, NEW i \in Inputs,
             NEW e \in 1..lineage[l].epoch,
             Approve(c, l, e, i) \/ Reject(c, l, e, i) \/ DecideTooLate(c, l, e, i)
      PROVE  IInv'
  <2>1. e \in Nat
        BY DEF IInv, TypeOK, Lineage
  <2> QED
        BY <1>2, <2>1, ApproveKeeps, RejectKeeps, DecideTooLateKeeps
<1>3. ASSUME Next, ~ \E c \in Calls, l \in Lineages, i \in Inputs :
                       \E e \in 1..lineage[l].epoch :
                           Approve(c, l, e, i) \/ Reject(c, l, e, i) \/ DecideTooLate(c, l, e, i)
      PROVE  IInv'
    BY <1>3, CreateFreeCallKeeps, CreateGuardedCallKeeps, EnqueueKeeps, CancelRunKeeps,
       PassExpiryKeeps, SupersedeKeeps, ScanLoadKeeps, ScanReloadKeeps, ScanExpireKeeps,
       ScanSkipKeeps, ClaimBlockedKeeps, ClaimKeeps,
       RecoverOrphanKeeps, CrashKeeps, ExecuteClaimedKeeps, ExecuteOnResumeKeeps,
       ExecuteInlineKeeps DEF Next
<1> QED
    BY <1>1, <1>2, <1>3

(* The inductive invariant holds in every reachable state of the tables. *)
THEOREM Invariance == Spec => []IInv
BY InitIInv, NextIInv, PTL DEF Spec

(* The five tables, the workers and the scanners keep their types. *)
THEOREM TypeCorrect == Spec => []TypeOK
BY Invariance, PTL DEF IInv

(* A replaced, expired or rejected approval is never the live one: at every  *)
(* moment what can still be approved, or was, is what its lineage points at. *)
THEOREM LiveApproval == Spec => []LiveApprovalIsCurrent
BY Invariance, PTL DEF IInv

(* A refused approval leaves nothing to run. *)
THEOREM Refused == Spec => []RefusedIsNotRunnable
BY Invariance, PTL DEF IInv

(* No effect of a guarded call without an approval of exactly its input. *)
THEOREM EffectApproved == Spec => []EffectHasApproval
<1>1. IInv => EffectHasApproval
    BY DEF IInv, Linked, LinkedAt, Remembered, Guarded, EffectHasApproval
<1> QED BY <1>1, Invariance, PTL

(* A worker only ever holds a guarded call that was approved as it stands. *)
THEOREM ClaimApproved == Spec => []ClaimedIsApproved
<1>1. IInv => ClaimedIsApproved
  <2> SUFFICES ASSUME IInv, NEW w \in Workers, claimed[w] # None, approval[claimed[w]].status # "absent"
               PROVE  /\ approval[claimed[w]].status = "approved"
                      /\ approval[claimed[w]].input = call[claimed[w]].input
      BY DEF ClaimedIsApproved
  <2>1. claimed[w] \in Calls
        BY DEF IInv, TypeOK
  <2> QED BY <2>1 DEF IInv, Linked, LinkedAt, Guarded
<1> QED BY <1>1, Invariance, PTL

-----------------------------------------------------------------------------
(* Decisions are final. *)

Final(a) == approval[a].status \in {"approved", "rejected", "expired"}

(* A decision changes only an approval that was pending. *)
LEMMA DecideIsFinal ==
    ASSUME IInv, NEW c \in Calls, NEW l \in Lineages, NEW i \in Inputs,
           NEW e \in 1..lineage[l].epoch,
           Approve(c, l, e, i) \/ Reject(c, l, e, i) \/ DecideTooLate(c, l, e, i),
           NEW a \in Calls, Final(a)
    PROVE  approval'[a].status = approval[a].status
<1>1. PICK b \in Calls : /\ approval[b].status = "pending"
                         /\ \E d \in ApprovalStatuses : approval' = [approval EXCEPT ![b].status = d]
    BY DEF Approve, Reject, Decidable, DecideTooLate, MarkExpired, PendingFor, ApprovalStatuses
<1>2. a # b
    BY <1>1 DEF Final
<1> QED
    BY <1>1, <1>2 DEF IInv, TypeOK

(* No step of the requests, the scanners or the workers changes a final decision. *)
LEMMA NextIsFinal ==
    ASSUME IInv, Next, NEW a \in Calls, Final(a)
    PROVE  approval'[a].status = approval[a].status
<1>1. approval \in [Calls -> Approval]
    BY DEF IInv, TypeOK
<1>2. ASSUME NEW c \in Calls, NEW l \in Lineages, NEW i \in Inputs, NEW x \in BOOLEAN,
             CreateGuardedCall(c, l, i, x)
      PROVE  approval'[a].status = approval[a].status
  <2>1. approval[c].status = "absent"
        BY <1>2 DEF CreateGuardedCall, GuardedCall, IInv, Linked, LinkedAt
  <2> QED BY <1>1, <1>2, <2>1 DEF CreateGuardedCall, GuardedCall, Final
<1>3. ASSUME NEW b \in Calls, PassExpiry(b)
      PROVE  approval'[a].status = approval[a].status
    BY <1>1, <1>3 DEF PassExpiry, Approval
<1>4. ASSUME NEW c \in Calls, NEW n \in Calls, NEW i \in Inputs, Supersede(c, n, i)
      PROVE  approval'[a].status = approval[a].status
  <2>1. approval[n].status = "absent" /\ approval[c].status = "pending"
        BY <1>4 DEF Supersede, GuardedCall, Repoint, IInv, Linked, LinkedAt
  <2>2. a # n /\ a # c
        BY <2>1 DEF Final
  <2> QED BY <1>1, <1>4, <2>2 DEF Supersede, GuardedCall, Repoint
<1>5. ASSUME NEW s \in Scanners, NEW b \in Calls, ScanExpire(s, b)
      PROVE  approval'[a].status = approval[a].status
  <2>1. approval[b].status \in {"pending", "expired", "superseded"}
        BY <1>5 DEF ScanExpire, IInv, Scanned
  <2>2. approval' = [approval EXCEPT ![b].status = "expired"]
        BY <1>5 DEF ScanExpire, MarkExpired
  <2> QED BY <1>1, <2>1, <2>2 DEF Final, Approval
<1>6. ASSUME NEW c \in Calls, NEW l \in Lineages, NEW i \in Inputs,
             NEW e \in 1..lineage[l].epoch,
             Approve(c, l, e, i) \/ Reject(c, l, e, i) \/ DecideTooLate(c, l, e, i)
      PROVE  approval'[a].status = approval[a].status
    BY <1>6, DecideIsFinal
<1>7. CASE approval' = approval
    BY <1>7
<1> QED
    BY <1>2, <1>3, <1>4, <1>5, <1>6, <1>7
    DEF Next, CreateFreeCall, Enqueue, CancelRun, ScanLoad, ScanReload, ScanSkip,
        ClaimBlocked, Claim, RecoverOrphan, Crash, ExecuteClaimed,
        ExecuteOnResume, ExecuteInline

(* No decision is ever taken back, by a request or by a scanner that loaded  *)
(* the approval before the decision (approve, reject, expire_approval).      *)
THEOREM DecisionsFinal == Spec => DecisionIsFinal
<1>1. IInv /\ [Next]_vars =>
          [\A a \in Calls :
               approval[a].status \in {"approved", "rejected", "expired"} =>
                   approval'[a].status = approval[a].status]_vars
    BY NextIsFinal DEF vars, Final
<1> QED
    BY <1>1, Invariance, PTL DEF Spec, DecisionIsFinal

(* Nothing runs that was not approved, and nothing that was refused can run  *)
(* (_block_queue, claim_next).                                               *)
THEOREM OnlyApproved == Spec => []OnlyApprovedRuns
<1>1. RefusedIsNotRunnable /\ ClaimedIsApproved => OnlyApprovedRuns
  BY DEF OnlyApprovedRuns
<1> QED BY <1>1, Refused, ClaimApproved, PTL

-----------------------------------------------------------------------------
(* The promise of ApprovalDecision is kept, step by step. *)

(* A lineage never points at a replaced approval; what a stale scanner makes *)
(* of one is no decision of the lineage.                                     *)
CurrentIsNotReplaced ==
    \A l \in Lineages :
        lineage[l].epoch # 0 => approval[lineage[l].call].status # "superseded"

RInv == IInv /\ CurrentIsNotReplaced

(* What a lineage has shown so far does not change when neither the lineage  *)
(* nor the approval it points at does.                                       *)
LEMMA DecisionKept ==
    ASSUME NEW l \in Lineages,
           lineage'[l].epoch = lineage[l].epoch,
           lineage'[l].epoch # 0 =>
               /\ lineage'[l].call = lineage[l].call
               /\ approval'[lineage[l].call].status = approval[lineage[l].call].status
    PROVE  Decision(l)' = Decision(l)
BY DEF Decision, Current

(* Nobody holds another lineage when the calls keep theirs. *)
LEMMA HeldKept ==
    ASSUME IInv, claimed' = claimed,
           \A c \in Calls : call[c].status # "absent" => call'[c].lineage = call[c].lineage
    PROVE  Held' = Held
<1>1. \A w \in Workers : claimed[w] # None =>
          /\ claimed[w] \in Calls
          /\ call[claimed[w]].status # "absent"
    BY DEF IInv, TypeOK, Guarded
<1> QED BY <1>1 DEF Held

(* The step of the promise that leaves everything as it is. *)
LEMMA Stutters ==
    ASSUME Held' = Held,
           \A l \in Lineages : lineage'[l].epoch = lineage[l].epoch /\ Decision(l)' = Decision(l)
    PROVE  UNCHANGED Abstract!absVars
BY DEF Abstract!absVars

(* approve, reject and expire of the approval a lineage points at decide it. *)
LEMMA Decides ==
    ASSUME IInv, NEW c \in Calls, NEW l \in Lineages,
           NEW d \in {"approved", "rejected", "expired"},
           approval[c].status = "pending", approval[c].lineage = l,
           approval' = [approval EXCEPT ![c].status = d],
           lineage' = [lineage EXCEPT ![l].status = d],
           Held' = Held
    PROVE  Abstract!Decide(l, d)
<1>1. /\ approval \in [Calls -> Approval]
      /\ lineage \in [Lineages -> Lineage]
    BY DEF IInv, TypeOK
<1>2. lineage[l].call = c /\ lineage[l].epoch = approval[c].epoch
    BY DEF IInv, LiveApprovalIsCurrent
<1>3. lineage[l].epoch # 0
    <2>1. call[c].required
        BY DEF IInv, Linked, LinkedAt
    <2> QED BY <2>1, <1>1, <1>2 DEF IInv, Linked, LinkedAt, Approval
<1>4. \A m \in Lineages : lineage'[m].epoch = lineage[m].epoch /\ lineage'[m].call = lineage[m].call
    BY <1>1 DEF Lineage
<1>5. approval'[c].status = d
    BY <1>1 DEF Approval
<1>6. Decision(l) = "pending" /\ Decision(l)' = d
    BY <1>2, <1>3, <1>4, <1>5 DEF Decision, Current
<1>7. ASSUME NEW m \in Lineages, m # l PROVE Decision(m)' = Decision(m)
    <2>1. lineage[m].epoch # 0 => lineage[m].call \in Calls /\ lineage[m].call # c
        BY <1>7 DEF IInv, Pointed
    <2>2. lineage[m].epoch # 0 =>
              approval'[lineage[m].call].status = approval[lineage[m].call].status
        BY <2>1
    <2> QED BY <1>4, <2>2, DecisionKept
<1>8. [m \in Lineages |-> Decision(m)]' = [[m \in Lineages |-> Decision(m)] EXCEPT ![l] = d]
    BY <1>6, <1>7
<1>9. [m \in Lineages |-> lineage[m].epoch]' = [m \in Lineages |-> lineage[m].epoch]
    BY <1>4
<1> QED BY <1>6, <1>8, <1>9 DEF Abstract!Decide

(* create_pending_approval opens a lineage. *)
LEMMA CreationOpens ==
    ASSUME IInv, NEW c \in Calls, NEW l \in Lineages, NEW i \in Inputs,
           NEW expires \in BOOLEAN, CreateGuardedCall(c, l, i, expires)
    PROVE  Abstract!Open(l)
<1>1. /\ approval \in [Calls -> Approval]
      /\ lineage \in [Lineages -> Lineage]
      /\ call \in [Calls -> Call]
    BY DEF IInv, TypeOK
<1>2. approval[c].lineage = None
    BY <1>1 DEF CreateGuardedCall, IInv, Linked, LinkedAt, Call
<1>3. Held' = Held
    <2>1. \A x \in Calls : call[x].status # "absent" => call'[x].lineage = call[x].lineage
        BY <1>1 DEF CreateGuardedCall
    <2>2. claimed' = claimed
        BY DEF CreateGuardedCall
    <2> QED BY <2>1, <2>2, HeldKept
<1>4. /\ lineage[l].epoch = 0
      /\ lineage'[l].epoch = 1
      /\ lineage'[l].call = c
      /\ approval'[c].status = "pending"
    BY <1>1 DEF CreateGuardedCall
<1>5. Decision(l) = "none" /\ Decision(l)' = "pending"
    BY <1>4 DEF Decision, Current
<1>6. ASSUME NEW m \in Lineages, m # l
      PROVE  lineage'[m] = lineage[m] /\ Decision(m)' = Decision(m)
    <2>1. lineage'[m] = lineage[m]
        BY <1>1, <1>6 DEF CreateGuardedCall
    <2>2. lineage[m].epoch # 0 => lineage[m].call \in Calls /\ lineage[m].call # c
        BY <1>2, NoneAssumption DEF IInv, Pointed
    <2>3. lineage[m].epoch # 0 =>
              approval'[lineage[m].call].status = approval[lineage[m].call].status
        BY <1>1, <2>2 DEF CreateGuardedCall
    <2> QED BY <2>1, <2>3, DecisionKept
<1>7. [m \in Lineages |-> Decision(m)]' = [[m \in Lineages |-> Decision(m)] EXCEPT ![l] = "pending"]
    BY <1>5, <1>6
<1>8. [m \in Lineages |-> lineage[m].epoch]' = [[m \in Lineages |-> lineage[m].epoch] EXCEPT ![l] = 1]
    BY <1>4, <1>6
<1> QED BY <1>3, <1>5, <1>7, <1>8 DEF Abstract!Open

(* supersede_with_replacement puts the next request of an undecided lineage  *)
(* in front of the human.                                                    *)
LEMMA SupersedeReplaces ==
    ASSUME IInv, NEW c \in Calls, NEW n \in Calls, NEW i \in Inputs, Supersede(c, n, i)
    PROVE  \E l \in Lineages : Abstract!Replace(l)
<1>1. /\ approval \in [Calls -> Approval]
      /\ lineage \in [Lineages -> Lineage]
      /\ call \in [Calls -> Call]
    BY DEF IInv, TypeOK
<1> PICK l \in Lineages : l = call[c].lineage
    BY <1>1 DEF Supersede, Call
<1>2. /\ approval[c].status = "pending"
      /\ approval[c].lineage = l
      /\ call[c].status # "absent"
      /\ call[n].status = "absent"
    BY <1>1 DEF Supersede, Call
<1>3. /\ lineage[l].call = c
      /\ lineage[l].epoch # 0
    <2>1. call[c].required
        BY <1>2 DEF IInv, Linked, LinkedAt
    <2> QED BY <2>1, <1>1, <1>2 DEF IInv, Linked, LinkedAt, LiveApprovalIsCurrent, Approval
<1>4. approval[n].lineage = None
    BY <1>1, <1>2 DEF IInv, Linked, LinkedAt, Call
<1>5. Held' = Held
    <2>1. \A x \in Calls : call[x].status # "absent" => call'[x].lineage = call[x].lineage
        BY <1>1, <1>2 DEF Supersede, Call
    <2>2. claimed' = claimed
        BY DEF Supersede
    <2> QED BY <2>1, <2>2, HeldKept
<1>6. /\ lineage' = [lineage EXCEPT ![l] =
             [status |-> "pending", epoch |-> @.epoch + 1, call |-> n]]
      /\ approval'[n].status = "pending"
      /\ \A x \in Calls \ {c, n} : approval'[x] = approval[x]
    BY <1>1 DEF Supersede, Repoint
<1>7. lineage'[l].epoch = lineage[l].epoch + 1 /\ lineage'[l].call = n
    BY <1>1, <1>2, <1>6
<1>8. lineage[l].epoch + 1 # 0
    BY <1>1, <1>2 DEF Lineage
<1>9. Decision(l) = "pending" /\ Decision(l)' = "pending"
    BY <1>2, <1>3, <1>6, <1>7, <1>8 DEF Decision, Current
<1>10. ASSUME NEW m \in Lineages, m # l
       PROVE  lineage'[m] = lineage[m] /\ Decision(m)' = Decision(m)
    <2>1. lineage'[m] = lineage[m]
        BY <1>1, <1>6, <1>10
    <2>2. lineage[m].epoch # 0 => lineage[m].call \in Calls \ {c, n}
        BY <1>2, <1>4, <1>10, NoneAssumption DEF IInv, Pointed
    <2>3. lineage[m].epoch # 0 =>
              approval'[lineage[m].call].status = approval[lineage[m].call].status
        BY <1>6, <2>2
    <2> QED BY <2>1, <2>3, DecisionKept
<1>11. [m \in Lineages |-> Decision(m)]' = [m \in Lineages |-> Decision(m)]
    BY <1>9, <1>10
<1>12. [m \in Lineages |-> lineage[m].epoch]' =
           [[m \in Lineages |-> lineage[m].epoch] EXCEPT ![l] = @ + 1]
    BY <1>2, <1>7, <1>10
<1>13. Abstract!Replace(l)
    BY <1>2, <1>5, <1>9, <1>11, <1>12 DEF Abstract!Replace
<1> QED BY <1>13

(* claim_next starts a guarded call only under the approval of its lineage. *)
LEMMA ClaimStarts ==
    ASSUME IInv, NEW w \in Workers, NEW c \in Calls, Claim(w, c)
    PROVE  (\E l \in Lineages : Abstract!Start(l)) \/ UNCHANGED Abstract!absVars
<1>1. /\ call \in [Calls -> Call]
      /\ approval \in [Calls -> Approval]
      /\ claimed \in [Workers -> Calls \cup {None}]
    BY DEF IInv, TypeOK
<1>2. /\ claimed[w] = None
      /\ claimed' = [claimed EXCEPT ![w] = c]
      /\ lineage' = lineage /\ approval' = approval
    BY DEF Claim
<1>3. \A x \in Calls : call'[x].lineage = call[x].lineage
    BY <1>1 DEF Claim, Call
<1>4. \A l \in Lineages : Decision(l)' = Decision(l)
    BY <1>2 DEF Decision, Current
<1>5. c # None
    BY NoneAssumption
<1>6. \A v \in Workers : claimed'[v] # None <=> (v = w \/ claimed[v] # None)
    BY <1>1, <1>2, <1>5
<1>7. Held' = Held \cup ({call[c].lineage} \cap Lineages)
    <2>1. ASSUME NEW l \in Lineages
          PROVE  (\E v \in Workers : claimed'[v] # None /\ call'[claimed'[v]].lineage = l)
                 <=> \/ \E v \in Workers : claimed[v] # None /\ call[claimed[v]].lineage = l
                     \/ call[c].lineage = l
        BY <1>1, <1>2, <1>3, <1>5, <1>6
    <2> QED BY <2>1 DEF Held
<1>8. CASE call[c].lineage \notin Lineages
    BY <1>2, <1>4, <1>7, <1>8, Stutters
<1>9. CASE call[c].lineage \in Lineages
    <2>1. call[c].required
        BY <1>9, NoneAssumption DEF IInv, Linked, LinkedAt
    <2>2. approval[c].status = "approved"
        BY <2>1 DEF Claim, AwaitsApproval, IInv, Remembered
    <2>3. /\ approval[c].lineage = call[c].lineage
          /\ approval[c].epoch > 0
        BY <2>1 DEF IInv, Linked, LinkedAt
    <2>4. /\ lineage[call[c].lineage].call = c
          /\ lineage[call[c].lineage].epoch # 0
        BY <1>1, <2>2, <2>3 DEF IInv, LiveApprovalIsCurrent, Approval
    <2>5. Decision(call[c].lineage) = "approved"
        BY <2>2, <2>4 DEF Decision, Current
    <2>6. Held' = Held \cup {call[c].lineage}
        BY <1>7, <1>9
    <2>7. Abstract!Start(call[c].lineage)
        BY <1>2, <1>4, <1>9, <2>5, <2>6 DEF Abstract!Start
    <2> QED BY <1>9, <2>7
<1> QED BY <1>8, <1>9

(* A worker that dies or finishes lets go of one lineage, or of none. *)
LEMMA LetGo ==
    ASSUME IInv, NEW w \in Workers, claimed[w] # None,
           claimed' = [claimed EXCEPT ![w] = None],
           \A x \in Calls : call'[x].lineage = call[x].lineage,
           lineage' = lineage, approval' = approval
    PROVE  (\E l \in Lineages : Abstract!Stop(l)) \/ UNCHANGED Abstract!absVars
<1> DEFINE c == claimed[w]
<1>1. /\ claimed \in [Workers -> Calls \cup {None}]
      /\ c \in Calls
    BY DEF IInv, TypeOK
<1>2. \A l \in Lineages : Decision(l)' = Decision(l)
    BY DEF Decision, Current
<1>3. \A v \in Workers : claimed'[v] # None => claimed'[v] = claimed[v]
    BY <1>1
<1>4. \A v \in Workers : v # w => claimed'[v] = claimed[v]
    BY <1>1
<1>5. Held' \subseteq Held
    BY <1>1, <1>3 DEF Held
<1>6. Held \ {call[c].lineage} \subseteq Held'
    BY <1>1, <1>4 DEF Held
<1>7. Held \subseteq Lineages
    BY DEF Held
<1>8. CASE Held' = Held
    BY <1>2, <1>8, Stutters
<1>9. CASE Held' # Held
    <2>1. call[c].lineage \in Lineages /\ Held' = Held \ {call[c].lineage}
        BY <1>5, <1>6, <1>7, <1>9
    <2>2. Abstract!Stop(call[c].lineage)
        BY <1>2, <2>1 DEF Abstract!Stop
    <2> QED BY <2>1, <2>2
<1> QED BY <1>8, <1>9

(* Steps that leave lineages, and the statuses of approvals, alone. *)
LEMMA QuietStutters ==
    ASSUME IInv, claimed' = claimed,
           lineage' = lineage,
           \A x \in Calls : approval'[x].status = approval[x].status,
           \A x \in Calls : call[x].status # "absent" => call'[x].lineage = call[x].lineage
    PROVE  UNCHANGED Abstract!absVars
<1>1. Held' = Held
    BY HeldKept
<1>2. ASSUME NEW l \in Lineages PROVE Decision(l)' = Decision(l)
    <2>1. lineage[l].epoch # 0 => lineage[l].call \in Calls
        BY DEF IInv, Pointed
    <2> QED BY <2>1, DecisionKept
<1> QED BY <1>1, <1>2, Stutters

(* A call keeps its lineage when its status or its approval changes. *)
LEMMA LineageKept ==
    ASSUME NEW f \in [Calls -> Call], NEW c, NEW x, NEW y
    PROVE  /\ \A z \in Calls : [f EXCEPT ![c].status = x][z].lineage = f[z].lineage
           /\ \A z \in Calls : [f EXCEPT ![c].approvedId = x, ![c].epoch = y][z].lineage = f[z].lineage
BY DEF Call

(* approve, reject and an answer that comes too late decide the lineage. *)
LEMMA RequestDecides ==
    ASSUME IInv, NEW c \in Calls, NEW l \in Lineages, NEW i \in Inputs,
           NEW e \in 1..lineage[l].epoch,
           Approve(c, l, e, i) \/ Reject(c, l, e, i) \/ DecideTooLate(c, l, e, i)
    PROVE  \E d \in Abstract!Outcomes : Abstract!Decide(l, d)
<1>1. /\ call \in [Calls -> Call]
      /\ e \in Nat
    BY DEF IInv, TypeOK, Lineage
<1>2. PICK a \in Calls, d \in {"approved", "rejected", "expired"} :
          /\ Locates(c, l, e, a)
          /\ approval[a].status = "pending"
          /\ approval' = [approval EXCEPT ![a].status = d]
          /\ lineage' = [lineage EXCEPT ![l].status = d]
    BY DEF Approve, Reject, DecideTooLate, Decidable, PendingFor, MarkExpired
<1>3. a = c
    BY <1>1, <1>2, LocatesCurrent
<1>4. approval[c].lineage = l
    BY <1>2, <1>3 DEF Locates
<1>5. \A x \in Calls : call'[x].lineage = call[x].lineage
    <2>1. CASE Approve(c, l, e, i)
        <3>1. PICK x \in Calls : call' = [call EXCEPT ![c].approvedId = x, ![c].epoch = approval[x].epoch]
            BY <2>1 DEF Approve
        <3> QED BY <1>1, <3>1, LineageKept
    <2>2. CASE Reject(c, l, e, i) \/ DecideTooLate(c, l, e, i)
        <3>1. call' = [call EXCEPT ![c].status = "manual_intervention"]
            BY <2>2 DEF Reject, DecideTooLate, MarkExpired
        <3> QED BY <1>1, <3>1, LineageKept
    <2> QED BY <2>1, <2>2
<1>6. claimed' = claimed
    BY DEF Approve, Reject, DecideTooLate
<1>7. Held' = Held
    BY <1>5, <1>6, HeldKept
<1>8. Abstract!Decide(l, d)
    BY <1>2, <1>3, <1>4, <1>7, Decides
<1> QED BY <1>8 DEF Abstract!Outcomes

(* expire_approval decides an undecided lineage; working on an approval that *)
(* was expired or replaced since the scanner loaded it, it changes nothing   *)
(* the lineage shows.                                                        *)
LEMMA ScanDecides ==
    ASSUME RInv, NEW s \in Scanners, NEW a \in Calls, ScanExpire(s, a)
    PROVE  \/ \E l \in Lineages : \E d \in Abstract!Outcomes : Abstract!Decide(l, d)
           \/ UNCHANGED Abstract!absVars
<1>1. /\ call \in [Calls -> Call]
      /\ approval \in [Calls -> Approval]
      /\ lineage \in [Lineages -> Lineage]
      /\ IInv
    BY DEF RInv, IInv, TypeOK
<1>2. /\ approval' = [approval EXCEPT ![a].status = "expired"]
      /\ lineage' = [lineage EXCEPT ![approval[a].lineage].status = "expired"]
      /\ claimed' = claimed
    BY DEF ScanExpire, MarkExpired
<1>3. \A x \in Calls : call'[x].lineage = call[x].lineage
    BY <1>1 DEF ScanExpire, MarkExpired, Call
<1>4. Held' = Held
    BY <1>1, <1>2, <1>3, HeldKept
<1>5. approval[a].status \in {"pending", "expired", "superseded"}
    BY <1>1 DEF ScanExpire, IInv, Scanned
<1>6. approval[a].lineage \in Lineages
    BY <1>1, <1>5 DEF IInv, Linked, LinkedAt
<1>7. CASE approval[a].status = "pending"
    <2>1. Abstract!Decide(approval[a].lineage, "expired")
        BY <1>1, <1>2, <1>4, <1>6, <1>7, Decides
    <2> QED BY <1>6, <2>1 DEF Abstract!Outcomes
<1>8. CASE approval[a].status # "pending"
    <2>1. ASSUME NEW m \in Lineages
          PROVE  lineage'[m].epoch = lineage[m].epoch /\ Decision(m)' = Decision(m)
        <3>1. lineage'[m].epoch = lineage[m].epoch /\ lineage'[m].call = lineage[m].call
            BY <1>1, <1>2 DEF Lineage
        <3>2. ASSUME lineage[m].epoch # 0
              PROVE  approval'[lineage[m].call].status = approval[lineage[m].call].status
            <4>1. lineage[m].call \in Calls /\ approval[lineage[m].call].status # "superseded"
                BY <3>2 DEF RInv, IInv, Pointed, CurrentIsNotReplaced
            <4>2. CASE lineage[m].call = a
                <5>1. approval[a].status = "expired"
                    BY <1>5, <1>8, <4>1, <4>2
                <5> QED BY <1>1, <1>2, <4>2, <5>1 DEF Approval
            <4>3. CASE lineage[m].call # a
                BY <1>1, <1>2, <4>1, <4>3
            <4> QED BY <4>2, <4>3
        <3> QED BY <3>1, <3>2, DecisionKept
    <2> QED BY <1>4, <2>1, Stutters
<1> QED BY <1>7, <1>8

(* Every step of the tables, the queue, the workers and the scanners is a    *)
(* step of the promise, or none.                                             *)
LEMMA NextImplements == RInv /\ [Next]_vars => [Abstract!AbsNext]_(Abstract!absVars)
<1> SUFFICES ASSUME RInv, [Next]_vars
             PROVE  Abstract!AbsNext \/ UNCHANGED Abstract!absVars
    OBVIOUS
<1>1. /\ IInv
      /\ call \in [Calls -> Call]
      /\ approval \in [Calls -> Approval]
    BY DEF RInv, IInv, TypeOK
<1>2. CASE UNCHANGED vars
    BY <1>1, <1>2, QuietStutters DEF vars
<1>3. ASSUME NEW c \in Calls, NEW i \in Inputs, NEW e \in BOOLEAN, CreateFreeCall(c, i, e)
      PROVE  UNCHANGED Abstract!absVars
    <2>1. \A x \in Calls : call[x].status # "absent" => call'[x].lineage = call[x].lineage
        BY <1>1, <1>3 DEF CreateFreeCall
    <2> QED BY <1>1, <1>3, <2>1, QuietStutters DEF CreateFreeCall
<1>4. ASSUME NEW c \in Calls, NEW l \in Lineages, NEW i \in Inputs, NEW e \in BOOLEAN,
             CreateGuardedCall(c, l, i, e)
      PROVE  Abstract!AbsNext
    BY <1>1, <1>4, CreationOpens DEF Abstract!AbsNext
<1>5. ASSUME NEW c \in Calls, Enqueue(c) \/ ClaimBlocked(c) \/ RecoverOrphan(c)
                              \/ ExecuteOnResume(c) \/ ExecuteInline(c)
      PROVE  UNCHANGED Abstract!absVars
    <2>1. \A x \in Calls : call'[x].lineage = call[x].lineage
        BY <1>1, <1>5 DEF Enqueue, ClaimBlocked, RecoverOrphan, ExecuteOnResume,
                          ExecuteInline, Finish, Call
    <2>2. claimed' = claimed /\ lineage' = lineage /\ approval' = approval
        BY <1>5 DEF Enqueue, ClaimBlocked, RecoverOrphan, ExecuteOnResume, ExecuteInline
    <2> QED BY <1>1, <2>1, <2>2, QuietStutters
<1>6. ASSUME CancelRun PROVE UNCHANGED Abstract!absVars
    BY <1>1, <1>6, QuietStutters DEF CancelRun
<1>7. ASSUME NEW a \in Calls, PassExpiry(a) PROVE UNCHANGED Abstract!absVars
    <2>1. \A x \in Calls : approval'[x].status = approval[x].status
        BY <1>1, <1>7 DEF PassExpiry, Approval
    <2> QED BY <1>1, <1>7, <2>1, QuietStutters DEF PassExpiry
<1>8. ASSUME NEW c \in Calls, NEW l \in Lineages, NEW i \in Inputs,
             NEW e \in 1..lineage[l].epoch,
             Approve(c, l, e, i) \/ Reject(c, l, e, i) \/ DecideTooLate(c, l, e, i)
      PROVE  Abstract!AbsNext
    BY <1>1, <1>8, RequestDecides DEF Abstract!AbsNext
<1>9. ASSUME NEW c \in Calls, NEW n \in Calls, NEW i \in Inputs, Supersede(c, n, i)
      PROVE  Abstract!AbsNext
    BY <1>1, <1>9, SupersedeReplaces DEF Abstract!AbsNext
<1>10. ASSUME NEW s \in Scanners, ScanLoad(s) \/ \E a \in Calls : ScanReload(s, a) \/ ScanSkip(s, a)
       PROVE  UNCHANGED Abstract!absVars
    BY <1>1, <1>10, QuietStutters DEF ScanLoad, ScanReload, ScanSkip
<1>11. ASSUME NEW s \in Scanners, NEW a \in Calls, ScanExpire(s, a)
       PROVE  Abstract!AbsNext \/ UNCHANGED Abstract!absVars
    BY <1>11, ScanDecides DEF Abstract!AbsNext
<1>12. ASSUME NEW w \in Workers, NEW c \in Calls, Claim(w, c)
       PROVE  Abstract!AbsNext \/ UNCHANGED Abstract!absVars
    BY <1>1, <1>12, ClaimStarts DEF Abstract!AbsNext
<1>13. ASSUME NEW w \in Workers, Crash(w) \/ ExecuteClaimed(w)
       PROVE  Abstract!AbsNext \/ UNCHANGED Abstract!absVars
    <2>1. \A x \in Calls : call'[x].lineage = call[x].lineage
        <3>1. CASE Crash(w)
            BY <3>1 DEF Crash
        <3>2. CASE ExecuteClaimed(w)
            <4>1. PICK res \in ExecutionResults(claimed[w]) :
                      call' = [call EXCEPT ![claimed[w]].status = res.status]
                BY <3>2 DEF ExecuteClaimed, Finish
            <4> QED BY <1>1, <4>1, LineageKept
        <3> QED BY <1>13, <3>1, <3>2
    <2>2. /\ claimed[w] # None
          /\ claimed' = [claimed EXCEPT ![w] = None]
          /\ lineage' = lineage /\ approval' = approval
        BY <1>13 DEF Crash, ExecuteClaimed
    <2> QED BY <1>1, <2>1, <2>2, LetGo DEF Abstract!AbsNext
<1> QED
    BY <1>2, <1>3, <1>4, <1>5, <1>6, <1>7, <1>8, <1>9, <1>10, <1>11, <1>12, <1>13 DEF Next

(* A lineage moves on when its request is replaced, and a scanner never      *)
(* makes a request "superseded".                                             *)
LEMMA NextRInv == RInv /\ [Next]_vars => RInv'
<1> SUFFICES ASSUME RInv, [Next]_vars PROVE CurrentIsNotReplaced'
    BY NextIInv DEF RInv
<1>1. /\ IInv
      /\ call \in [Calls -> Call]
      /\ approval \in [Calls -> Approval]
      /\ lineage \in [Lineages -> Lineage]
    BY DEF RInv, IInv, TypeOK
<1>2. ASSUME NEW c \in Calls, NEW n \in Calls, NEW i \in Inputs, Supersede(c, n, i)
      PROVE  CurrentIsNotReplaced'
    <2> SUFFICES ASSUME NEW m \in Lineages, lineage'[m].epoch # 0
                 PROVE  approval'[lineage'[m].call].status # "superseded"
        BY DEF CurrentIsNotReplaced
    <2> DEFINE l == call[c].lineage
    <2>1. /\ approval[c].lineage = l
          /\ l \in Lineages
          /\ n # c
        BY <1>1, <1>2 DEF Supersede, Call
    <2>2. CASE m = l
        <3>1. lineage'[m].call = n
            BY <1>1, <1>2, <2>1, <2>2 DEF Supersede, Repoint
        <3>2. approval'[n].status = "pending"
            BY <1>1, <1>2 DEF Supersede
        <3> QED BY <3>1, <3>2
    <2>3. CASE m # l
        <3>1. lineage'[m] = lineage[m]
            BY <1>1, <1>2, <2>3 DEF Supersede, Repoint
        <3>2. lineage[m].call \in Calls /\ lineage[m].call # c
            BY <1>1, <2>1, <2>3, <3>1 DEF IInv, Pointed
        <3>3. CASE lineage[m].call = n
            BY <1>1, <1>2, <3>1, <3>3 DEF Supersede
        <3>4. CASE lineage[m].call # n
            <4>1. approval'[lineage[m].call] = approval[lineage[m].call]
                BY <1>1, <1>2, <3>2, <3>4 DEF Supersede
            <4> QED BY <3>1, <4>1 DEF RInv, CurrentIsNotReplaced
        <3> QED BY <3>3, <3>4
    <2> QED BY <2>2, <2>3
<1>3. ASSUME ~ \E c, n \in Calls, i \in Inputs : Supersede(c, n, i)
      PROVE  CurrentIsNotReplaced'
    <2>1. /\ \A x \in Calls :
                 approval'[x].status = "superseded" => approval[x].status = "superseded"
          /\ \A m \in Lineages :
                 \/ lineage'[m].epoch = lineage[m].epoch /\ lineage'[m].call = lineage[m].call
                 \/ /\ lineage'[m].call \in Calls
                    /\ approval'[lineage'[m].call].status = "pending"
        <3>1. CASE \E s \in Scanners, a \in Calls : ScanExpire(s, a)
            <4>1. PICK a \in Calls :
                      /\ approval' = [approval EXCEPT ![a].status = "expired"]
                      /\ lineage' = [lineage EXCEPT ![approval[a].lineage].status = "expired"]
                BY <3>1 DEF ScanExpire, MarkExpired
            <4>2. /\ \A x \in Calls : approval'[x].status \in {"expired", approval[x].status}
                  /\ \A m \in Lineages :
                         lineage'[m].epoch = lineage[m].epoch /\ lineage'[m].call = lineage[m].call
                BY <1>1, <4>1 DEF Approval, Lineage
            <4> QED BY <4>2
        <3>2. CASE \E c \in Calls, l \in Lineages, i \in Inputs : \E e \in 1..lineage[l].epoch :
                       Approve(c, l, e, i) \/ Reject(c, l, e, i) \/ DecideTooLate(c, l, e, i)
            <4>3. PICK c \in Calls, l \in Lineages, i \in Inputs :
                      \E e \in 1..lineage[l].epoch :
                          Approve(c, l, e, i) \/ Reject(c, l, e, i) \/ DecideTooLate(c, l, e, i)
                BY <3>2
            <4>1. PICK a \in Calls, d \in {"approved", "rejected", "expired"} :
                      /\ approval' = [approval EXCEPT ![a].status = d]
                      /\ lineage' = [lineage EXCEPT ![l].status = d]
                BY <4>3 DEF Approve, Reject, DecideTooLate, MarkExpired
            <4>2. /\ \A x \in Calls : approval'[x].status \in {d, approval[x].status}
                  /\ \A m \in Lineages :
                         lineage'[m].epoch = lineage[m].epoch /\ lineage'[m].call = lineage[m].call
                BY <1>1, <4>1 DEF Approval, Lineage
            <4> QED BY <4>2
        <3>3. CASE \E a \in Calls : PassExpiry(a)
            BY <1>1, <3>3 DEF PassExpiry, Approval
        <3>4. CASE \E c \in Calls, l \in Lineages, i \in Inputs, e \in BOOLEAN :
                       CreateGuardedCall(c, l, i, e)
            <4>1. PICK c \in Calls, l \in Lineages, i \in Inputs, e \in BOOLEAN :
                      CreateGuardedCall(c, l, i, e)
                BY <3>4
            <4>2. /\ approval'[c].status = "pending" /\ lineage'[l].call = c
                  /\ \A x \in Calls : x # c => approval'[x] = approval[x]
                  /\ \A m \in Lineages : m # l => lineage'[m] = lineage[m]
                BY <1>1, <4>1 DEF CreateGuardedCall
            <4> QED BY <4>2
        <3>5. CASE approval' = approval /\ lineage' = lineage
            BY <3>5
        <3> QED
            BY <1>3, <3>1, <3>2, <3>3, <3>4, <3>5
            DEF Next, vars, CreateFreeCall, Enqueue, CancelRun, ScanLoad, ScanReload,
                ScanSkip, ClaimBlocked, Claim, RecoverOrphan, Crash, ExecuteClaimed,
                ExecuteOnResume, ExecuteInline
    <2>2. \A m \in Lineages : lineage[m].epoch # 0 => lineage[m].call \in Calls
        BY <1>1 DEF IInv, Pointed
    <2> QED BY <2>1, <2>2 DEF RInv, CurrentIsNotReplaced
<1> QED BY <1>2, <1>3

(* The empty tables are the promise's initial state. *)
LEMMA InitImplements == Init => RInv /\ Abstract!AbsInit
<1> SUFFICES ASSUME Init PROVE RInv /\ Abstract!AbsInit
    OBVIOUS
<1>1. \A l \in Lineages : lineage[l].epoch = 0
    BY DEF Init, NoLineage
<1>2. Held = {}
    BY DEF Init, Held
<1>3. \A l \in Lineages : Decision(l) = "none"
    BY <1>1 DEF Decision
<1> QED BY <1>1, <1>2, <1>3, InitIInv DEF RInv, CurrentIsNotReplaced, Abstract!AbsInit

(* The approval tables, the queue, the workers and the scanners implement    *)
(* the promise of ApprovalDecision: a lineage is opened once, replaced only  *)
(* while undecided, decided once, and started only when approved.            *)
THEOREM Implements == Spec => ImplementsDecision
<1>1. Spec => []RInv
    BY InitImplements, NextRInv, PTL DEF Spec
<1> QED
    BY <1>1, InitImplements, NextImplements, PTL DEF Spec, ImplementsDecision, Abstract!AbsSpec

-----------------------------------------------------------------------------
(* The row locks of the transactions: who locks in one order waits in no circle. *)

CONSTANTS
    Transactions,  \* the transactions that run at a time
    Kinds          \* the methods they may be

VARIABLES kind, taken, holder

Locks == INSTANCE AgentLockOrder

(* The rows can be numbered so that each method locks them in that order. *)
InOrder(rank) ==
    \A k \in Kinds :
        \A i, j \in 1 .. Len(Locks!LocksOf[k]) :
            i < j => rank[Locks!LocksOf[k][i]] < rank[Locks!LocksOf[k][j]]

(* A lock is held by a transaction that has not ended and has taken it. *)
HeldBy(r, t) ==
    /\ t \in Transactions
    /\ Locks!Running(t)
    /\ \E i \in 1 .. taken[t] : Locks!LocksOf[kind[t]][i] = r

LocksHeld ==
    /\ kind \in [Transactions -> Kinds \cup {"idle", "ended"}]
    /\ taken \in [Transactions -> Nat]
    /\ holder \in [Locks!Rows -> Transactions \cup {None}]
    /\ \A t \in Transactions :
        /\ kind[t] = "idle" => taken[t] = 0
        /\ Locks!Running(t) => taken[t] <= Len(Locks!LocksOf[kind[t]])
    /\ \A r \in Locks!Rows : holder[r] # None => HeldBy(r, holder[r])

(* Every method locks rows. *)
LEMMA MethodsLockRows ==
    ASSUME NEW k \in DOMAIN Locks!LocksOf
    PROVE  /\ Len(Locks!LocksOf[k]) \in Nat
           /\ \A i \in 1 .. Len(Locks!LocksOf[k]) : Locks!LocksOf[k][i] \in Locks!Rows
<1>1. /\ {Locks!Approve, Locks!Conflict, Locks!Supersede} \subseteq Seq(Locks!Rows)
      /\ {Locks!Expire, Locks!ClaimNext, Locks!Heartbeat} \subseteq Seq(Locks!Rows)
      /\ {Locks!RecoverOrphans, Locks!ResumeRun} \subseteq Seq(Locks!Rows)
      /\ {Locks!ReconcileRun, Locks!ResolveBlock} \subseteq Seq(Locks!Rows)
    BY DEF Locks!Rows, Locks!Approve, Locks!Conflict, Locks!Supersede, Locks!Expire,
           Locks!ClaimNext, Locks!Heartbeat, Locks!RecoverOrphans, Locks!ResumeRun,
           Locks!ReconcileRun, Locks!ResolveBlock
<1>2. Locks!LocksOf[k] \in Seq(Locks!Rows)
    BY <1>1 DEF Locks!LocksOf
<1> QED BY <1>2

(* No method is called idle or ended. *)
LEMMA NamesDiffer == "idle" \notin DOMAIN Locks!LocksOf /\ "ended" \notin DOMAIN Locks!LocksOf
BY DEF Locks!LocksOf

(* At the beginning nothing is locked. *)
LEMMA LocksInit ==
    ASSUME Kinds \subseteq DOMAIN Locks!LocksOf, Locks!Init
    PROVE  LocksHeld
BY NamesDiffer DEF Locks!Init, LocksHeld, Locks!Running

(* A transaction gives its locks back when it ends, and only then. *)
LEMMA LocksNext ==
    ASSUME None \notin Transactions, Kinds \subseteq DOMAIN Locks!LocksOf,
           LocksHeld, [Locks!Next]_(Locks!vars)
    PROVE  LocksHeld'
<1>1. CASE UNCHANGED Locks!vars
    BY <1>1 DEF Locks!vars, LocksHeld, HeldBy, Locks!Running
<1>2. ASSUME NEW t \in Transactions, NEW k \in Kinds, Locks!Begin(t, k)
      PROVE  LocksHeld'
    <2>1. /\ kind' = [kind EXCEPT ![t] = k]
          /\ taken' = taken /\ holder' = holder
          /\ taken[t] = 0
        BY <1>2 DEF Locks!Begin, LocksHeld
    <2>2. Len(Locks!LocksOf[k]) \in Nat
        BY MethodsLockRows
    <2>3. ~ Locks!Running(t)
        BY <1>2, NamesDiffer DEF Locks!Begin, Locks!Running
    <2>4. \A r \in Locks!Rows : holder[r] # t
        BY <2>3 DEF LocksHeld, HeldBy, Locks!Running
    <2>5. ASSUME NEW r \in Locks!Rows, holder[r] # None PROVE HeldBy(r, holder[r])'
        <3>1. HeldBy(r, holder[r]) /\ holder[r] # t
            BY <2>4, <2>5 DEF LocksHeld
        <3> QED BY <2>1, <3>1 DEF HeldBy, Locks!Running
    <2>6. \A u \in Transactions :
             /\ kind'[u] = "idle" => taken'[u] = 0
             /\ kind'[u] \in Kinds => taken'[u] <= Len(Locks!LocksOf[kind'[u]])
        BY <2>1, <2>2 DEF LocksHeld, Locks!Running
    <2> QED BY <2>1, <2>5, <2>6 DEF LocksHeld, Locks!Running
<1>3. ASSUME NEW t \in Transactions, Locks!Lock(t)
      PROVE  LocksHeld'
    <2> DEFINE new == Locks!LocksOf[kind[t]][taken[t] + 1]
    <2>1. /\ kind' = kind
          /\ taken' = [taken EXCEPT ![t] = @ + 1]
          /\ holder' = [holder EXCEPT ![new] = t]
          /\ kind[t] \in Kinds
          /\ taken[t] < Len(Locks!LocksOf[kind[t]])
        BY <1>3 DEF Locks!Lock, Locks!Wants, Locks!Running, Locks!NextLock
    <2>2. /\ Len(Locks!LocksOf[kind[t]]) \in Nat
          /\ taken[t] \in Nat
          /\ new \in Locks!Rows
        BY <2>1, MethodsLockRows DEF LocksHeld
    <2>3. \A u \in Transactions : taken'[u] \in Nat /\ taken[u] <= taken'[u]
        BY <2>1 DEF LocksHeld
    <2>4. /\ kind[t] \in Kinds /\ taken'[t] = taken[t] + 1
          /\ taken'[t] \in Nat /\ taken'[t] <= Len(Locks!LocksOf[kind[t]])
        BY <2>1, <2>2 DEF LocksHeld
    <2>5. ASSUME NEW r \in Locks!Rows, holder'[r] # None PROVE HeldBy(r, holder[r])'
        <3>1. CASE r # new
            <4>1. holder'[r] = holder[r] /\ HeldBy(r, holder[r])
                BY <2>1, <2>5, <3>1 DEF LocksHeld
            <4>2. PICK i \in 1 .. taken[holder[r]] : Locks!LocksOf[kind[holder[r]]][i] = r
                BY <4>1 DEF HeldBy
            <4>3. i \in 1 .. taken'[holder[r]]
                BY <2>3, <4>1, <4>2 DEF HeldBy, LocksHeld
            <4> QED BY <2>1, <4>1, <4>2, <4>3 DEF HeldBy, Locks!Running
        <3>2. CASE r = new
            <4>1. holder'[r] = t
                BY <2>1, <2>2, <3>2 DEF LocksHeld
            <4>2. taken[t] + 1 \in 1 .. taken'[t]
                BY <2>2, <2>4
            <4> QED BY <2>1, <3>2, <4>1, <4>2 DEF HeldBy, Locks!Running
        <3> QED BY <3>1, <3>2
    <2>6. \A u \in Transactions :
             /\ kind'[u] = "idle" => taken'[u] = 0
             /\ Locks!Running(u)' => taken'[u] <= Len(Locks!LocksOf[kind'[u]])
        <3> SUFFICES ASSUME NEW u \in Transactions
                     PROVE  /\ kind'[u] = "idle" => taken'[u] = 0
                            /\ Locks!Running(u)' => taken'[u] <= Len(Locks!LocksOf[kind'[u]])
            OBVIOUS
        <3>1. CASE u = t
            BY <2>1, <2>4, <3>1, NamesDiffer
        <3>2. CASE u # t
            BY <2>1, <3>2 DEF LocksHeld, Locks!Running
        <3> QED BY <3>1, <3>2
    <2>7. /\ taken' \in [Transactions -> Nat]
          /\ holder' \in [Locks!Rows -> Transactions \cup {None}]
        BY <2>1, <2>2, <2>4 DEF LocksHeld
    <2> QED BY <2>1, <2>5, <2>6, <2>7 DEF LocksHeld
<1>4. ASSUME NEW t \in Transactions, Locks!End(t)
      PROVE  LocksHeld'
    <2>1. /\ kind' = [kind EXCEPT ![t] = "ended"]
          /\ taken' = taken
          /\ holder' = [r \in Locks!Rows |-> IF holder[r] = t THEN None ELSE holder[r]]
        BY <1>4 DEF Locks!End
    <2>2. ASSUME NEW r \in Locks!Rows, holder'[r] # None PROVE HeldBy(r, holder[r])'
        <3>1. holder[r] # t /\ holder'[r] = holder[r] /\ HeldBy(r, holder[r])
            BY <2>1, <2>2 DEF LocksHeld
        <3>2. kind'[holder[r]] = kind[holder[r]]
            BY <2>1, <3>1 DEF LocksHeld, HeldBy
        <3> QED BY <2>1, <3>1, <3>2 DEF HeldBy, Locks!Running
    <2>3. \A u \in Transactions :
             /\ kind'[u] = "idle" => taken'[u] = 0
             /\ Locks!Running(u)' => taken'[u] <= Len(Locks!LocksOf[kind'[u]])
        BY <2>1, NamesDiffer DEF LocksHeld, Locks!Running
    <2>4. /\ kind' \in [Transactions -> Kinds \cup {"idle", "ended"}]
          /\ holder' \in [Locks!Rows -> Transactions \cup {None}]
        BY <2>1 DEF LocksHeld
    <2> QED BY <2>1, <2>2, <2>3, <2>4 DEF LocksHeld
<1> QED BY <1>1, <1>2, <1>3, <1>4 DEF Locks!Next

(* Whoever waits in a circle waits for somebody who waits for a later row. *)
LEMMA WaitsUpwards ==
    ASSUME None \notin Transactions, Kinds \subseteq DOMAIN Locks!LocksOf,
           NEW rank \in [Locks!Rows -> 1 .. 6], InOrder(rank), LocksHeld,
           NEW t \in Transactions, NEW u \in Transactions,
           Locks!WaitsFor(t, u), Locks!Wants(u)
    PROVE  /\ Locks!NextLock(t) \in Locks!Rows
           /\ Locks!NextLock(u) \in Locks!Rows
           /\ rank[Locks!NextLock(t)] < rank[Locks!NextLock(u)]
<1>1. /\ kind[t] \in Kinds /\ taken[t] \in Nat /\ taken[t] < Len(Locks!LocksOf[kind[t]])
      /\ kind[u] \in Kinds /\ taken[u] \in Nat /\ taken[u] < Len(Locks!LocksOf[kind[u]])
    BY DEF Locks!WaitsFor, Locks!Wants, Locks!Running, LocksHeld
<1>2. /\ Len(Locks!LocksOf[kind[t]]) \in Nat
      /\ Len(Locks!LocksOf[kind[u]]) \in Nat
      /\ \A i \in 1 .. Len(Locks!LocksOf[kind[t]]) : Locks!LocksOf[kind[t]][i] \in Locks!Rows
      /\ \A i \in 1 .. Len(Locks!LocksOf[kind[u]]) : Locks!LocksOf[kind[u]][i] \in Locks!Rows
    BY <1>1, MethodsLockRows
<1>3. /\ taken[t] + 1 \in 1 .. Len(Locks!LocksOf[kind[t]])
      /\ taken[u] + 1 \in 1 .. Len(Locks!LocksOf[kind[u]])
    BY <1>1, <1>2
<1>4. Locks!NextLock(t) \in Locks!Rows /\ Locks!NextLock(u) \in Locks!Rows
    BY <1>2, <1>3 DEF Locks!NextLock
<1>5. HeldBy(Locks!NextLock(t), u)
    BY <1>4 DEF Locks!WaitsFor, LocksHeld
<1>6. PICK i \in 1 .. taken[u] : Locks!LocksOf[kind[u]][i] = Locks!NextLock(t)
    BY <1>5 DEF HeldBy
<1>7. i \in 1 .. Len(Locks!LocksOf[kind[u]]) /\ i < taken[u] + 1
    BY <1>1, <1>2, <1>6
<1>8. rank[Locks!LocksOf[kind[u]][i]] < rank[Locks!LocksOf[kind[u]][taken[u] + 1]]
    BY <1>1, <1>3, <1>7 DEF InOrder
<1> QED BY <1>4, <1>6, <1>8 DEF Locks!NextLock

(* Six ranks cannot rise for ever. *)
LEMMA NoEndlessRise ==
    ASSUME NEW S, NEW f \in [S -> 1 .. 6], \A t \in S : \E u \in S : f[t] < f[u]
    PROVE  S = {}
<1>1. \A t \in S : f[t] # 6
    OBVIOUS
<1>2. \A t \in S : f[t] # 5
    BY <1>1
<1>3. \A t \in S : f[t] # 4
    BY <1>1, <1>2
<1>4. \A t \in S : f[t] # 3
    BY <1>1, <1>2, <1>3
<1>5. \A t \in S : f[t] # 2
    BY <1>1, <1>2, <1>3, <1>4
<1>6. \A t \in S : f[t] # 1
    BY <1>1, <1>2, <1>3, <1>4, <1>5
<1> QED BY <1>1, <1>2, <1>3, <1>4, <1>5, <1>6

(* In a circle the rows waited for would have to come later and later. *)
LEMMA OrderHasNoCircle ==
    ASSUME None \notin Transactions, Kinds \subseteq DOMAIN Locks!LocksOf,
           NEW rank \in [Locks!Rows -> 1 .. 6], InOrder(rank), LocksHeld
    PROVE  Locks!NoCircle
<1> SUFFICES ASSUME NEW S \in SUBSET Transactions, S # {},
                    \A t \in S : \E u \in S : Locks!WaitsFor(t, u)
             PROVE  FALSE
    BY DEF Locks!NoCircle, Locks!Circle
<1> DEFINE f == [t \in S |-> rank[Locks!NextLock(t)]]
<1>1. ASSUME NEW t \in S
      PROVE  f[t] \in 1 .. 6 /\ \E u \in S : f[t] < f[u]
    <2>1. PICK u \in S : Locks!WaitsFor(t, u)
        OBVIOUS
    <2>2. Locks!Wants(u)
        BY DEF Locks!WaitsFor
    <2>3. /\ Locks!NextLock(t) \in Locks!Rows
          /\ Locks!NextLock(u) \in Locks!Rows
          /\ rank[Locks!NextLock(t)] < rank[Locks!NextLock(u)]
        BY <2>1, <2>2, WaitsUpwards
    <2> QED BY <2>3
<1>2. f \in [S -> 1 .. 6]
    BY <1>1
<1> HIDE DEF f
<1> QED BY <1>1, <1>2, NoEndlessRise

(* Transactions whose methods lock their rows in one order, whatever it is,  *)
(* never wait in a circle, however many of them run (_lock_context).         *)
THEOREM OneOrderNoCircle ==
    ASSUME None \notin Transactions, Kinds \subseteq DOMAIN Locks!LocksOf,
           NEW rank \in [Locks!Rows -> 1 .. 6], InOrder(rank)
    PROVE  Locks!Spec => []Locks!NoCircle
<1>1. Locks!Init => LocksHeld
    BY LocksInit
<1>2. LocksHeld /\ [Locks!Next]_(Locks!vars) => LocksHeld'
    BY LocksNext
<1>3. LocksHeld => Locks!NoCircle
    BY OrderHasNoCircle
<1> QED BY <1>1, <1>2, <1>3, PTL DEF Locks!Spec

(* The methods that lock in one order, as the code is. *)
OrderlyFamilies ==
    {{"approve", "conflict"},
     {"expire", "conflict"},
     {"supersede"},
     {"conflict", "claim", "heartbeat", "recover"},
     {"resume", "reconcile", "resolve"},
     {"reconcile", "resolve", "heartbeat", "recover"}}

(* Each family has its order. *)
LEMMA FamiliesInOrder ==
    ASSUME NEW F \in OrderlyFamilies, Kinds \subseteq F
    PROVE  \E rank \in [Locks!Rows -> 1 .. 6] : InOrder(rank)
<1>1. CASE F = {"approve", "conflict"}
    <2> DEFINE rank == [lineage |-> 1, call |-> 2, approval |-> 3, run |-> 4, item |-> 5, block |-> 6]
    <2>1. rank \in [Locks!Rows -> 1 .. 6]
        BY DEF Locks!Rows
    <2>2. /\ rank["lineage"] = 1 /\ rank["call"] = 2 /\ rank["approval"] = 3
          /\ rank["run"] = 4 /\ rank["item"] = 5 /\ rank["block"] = 6
        OBVIOUS
    <2> HIDE DEF rank
    <2>3. InOrder(rank)
        <3>1. \A i, j \in 1 .. Len(Locks!Approve) :
                  i < j => rank[Locks!Approve[i]] < rank[Locks!Approve[j]]
            BY <2>2 DEF Locks!Approve
        <3>2. \A i, j \in 1 .. Len(Locks!Conflict) :
                  i < j => rank[Locks!Conflict[i]] < rank[Locks!Conflict[j]]
            BY <2>2 DEF Locks!Conflict
        <3>3. \A k \in F : Locks!LocksOf[k] \in {Locks!Approve, Locks!Conflict}
            BY <1>1 DEF Locks!LocksOf
        <3> QED BY <3>1, <3>2, <3>3 DEF InOrder
    <2> QED BY <2>1, <2>3
<1>2. CASE F = {"expire", "conflict"}
    <2> DEFINE rank == [lineage |-> 2, call |-> 3, approval |-> 1, run |-> 4, item |-> 5, block |-> 6]
    <2>1. rank \in [Locks!Rows -> 1 .. 6]
        BY DEF Locks!Rows
    <2>2. /\ rank["lineage"] = 2 /\ rank["call"] = 3 /\ rank["approval"] = 1
          /\ rank["run"] = 4 /\ rank["item"] = 5 /\ rank["block"] = 6
        OBVIOUS
    <2> HIDE DEF rank
    <2>3. InOrder(rank)
        <3>1. \A i, j \in 1 .. Len(Locks!Expire) :
                  i < j => rank[Locks!Expire[i]] < rank[Locks!Expire[j]]
            BY <2>2 DEF Locks!Expire
        <3>2. \A i, j \in 1 .. Len(Locks!Conflict) :
                  i < j => rank[Locks!Conflict[i]] < rank[Locks!Conflict[j]]
            BY <2>2 DEF Locks!Conflict
        <3>3. \A k \in F : Locks!LocksOf[k] \in {Locks!Expire, Locks!Conflict}
            BY <1>2 DEF Locks!LocksOf
        <3> QED BY <3>1, <3>2, <3>3 DEF InOrder
    <2> QED BY <2>1, <2>3
<1>3. CASE F = {"supersede"}
    <2> DEFINE rank == [lineage |-> 2, call |-> 1, approval |-> 3, run |-> 4, item |-> 5, block |-> 6]
    <2>1. rank \in [Locks!Rows -> 1 .. 6]
        BY DEF Locks!Rows
    <2>2. /\ rank["lineage"] = 2 /\ rank["call"] = 1 /\ rank["approval"] = 3
          /\ rank["run"] = 4 /\ rank["item"] = 5 /\ rank["block"] = 6
        OBVIOUS
    <2> HIDE DEF rank
    <2>3. InOrder(rank)
        <3>1. \A i, j \in 1 .. Len(Locks!Supersede) :
                  i < j => rank[Locks!Supersede[i]] < rank[Locks!Supersede[j]]
            BY <2>2 DEF Locks!Supersede
        <3>2. \A k \in F : Locks!LocksOf[k] \in {Locks!Supersede}
            BY <1>3 DEF Locks!LocksOf
        <3> QED BY <3>1, <3>2 DEF InOrder
    <2> QED BY <2>1, <2>3
<1>4. CASE F = {"conflict", "claim", "heartbeat", "recover"}
    <2> DEFINE rank == [lineage |-> 1, call |-> 3, approval |-> 5, run |-> 4, item |-> 2, block |-> 6]
    <2>1. rank \in [Locks!Rows -> 1 .. 6]
        BY DEF Locks!Rows
    <2>2. /\ rank["lineage"] = 1 /\ rank["call"] = 3 /\ rank["approval"] = 5
          /\ rank["run"] = 4 /\ rank["item"] = 2 /\ rank["block"] = 6
        OBVIOUS
    <2> HIDE DEF rank
    <2>3. InOrder(rank)
        <3>1. \A i, j \in 1 .. Len(Locks!Conflict) :
                  i < j => rank[Locks!Conflict[i]] < rank[Locks!Conflict[j]]
            BY <2>2 DEF Locks!Conflict
        <3>2. \A i, j \in 1 .. Len(Locks!ClaimNext) :
                  i < j => rank[Locks!ClaimNext[i]] < rank[Locks!ClaimNext[j]]
            BY <2>2 DEF Locks!ClaimNext
        <3>3. \A i, j \in 1 .. Len(Locks!Heartbeat) :
                  i < j => rank[Locks!Heartbeat[i]] < rank[Locks!Heartbeat[j]]
            BY <2>2 DEF Locks!Heartbeat
        <3>4. \A i, j \in 1 .. Len(Locks!RecoverOrphans) :
                  i < j => rank[Locks!RecoverOrphans[i]] < rank[Locks!RecoverOrphans[j]]
            BY <2>2 DEF Locks!RecoverOrphans
        <3>5. \A k \in F : Locks!LocksOf[k] \in {Locks!Conflict, Locks!ClaimNext, Locks!Heartbeat, Locks!RecoverOrphans}
            BY <1>4 DEF Locks!LocksOf
        <3> QED BY <3>1, <3>2, <3>3, <3>4, <3>5 DEF InOrder
    <2> QED BY <2>1, <2>3
<1>5. CASE F = {"resume", "reconcile", "resolve"}
    <2> DEFINE rank == [lineage |-> 5, call |-> 3, approval |-> 6, run |-> 1, item |-> 4, block |-> 2]
    <2>1. rank \in [Locks!Rows -> 1 .. 6]
        BY DEF Locks!Rows
    <2>2. /\ rank["lineage"] = 5 /\ rank["call"] = 3 /\ rank["approval"] = 6
          /\ rank["run"] = 1 /\ rank["item"] = 4 /\ rank["block"] = 2
        OBVIOUS
    <2> HIDE DEF rank
    <2>3. InOrder(rank)
        <3>1. \A i, j \in 1 .. Len(Locks!ResumeRun) :
                  i < j => rank[Locks!ResumeRun[i]] < rank[Locks!ResumeRun[j]]
            BY <2>2 DEF Locks!ResumeRun
        <3>2. \A i, j \in 1 .. Len(Locks!ReconcileRun) :
                  i < j => rank[Locks!ReconcileRun[i]] < rank[Locks!ReconcileRun[j]]
            BY <2>2 DEF Locks!ReconcileRun
        <3>3. \A i, j \in 1 .. Len(Locks!ResolveBlock) :
                  i < j => rank[Locks!ResolveBlock[i]] < rank[Locks!ResolveBlock[j]]
            BY <2>2 DEF Locks!ResolveBlock
        <3>4. \A k \in F : Locks!LocksOf[k] \in {Locks!ResumeRun, Locks!ReconcileRun, Locks!ResolveBlock}
            BY <1>5 DEF Locks!LocksOf
        <3> QED BY <3>1, <3>2, <3>3, <3>4 DEF InOrder
    <2> QED BY <2>1, <2>3
<1>6. CASE F = {"reconcile", "resolve", "heartbeat", "recover"}
    <2> DEFINE rank == [lineage |-> 5, call |-> 4, approval |-> 6, run |-> 1, item |-> 3, block |-> 2]
    <2>1. rank \in [Locks!Rows -> 1 .. 6]
        BY DEF Locks!Rows
    <2>2. /\ rank["lineage"] = 5 /\ rank["call"] = 4 /\ rank["approval"] = 6
          /\ rank["run"] = 1 /\ rank["item"] = 3 /\ rank["block"] = 2
        OBVIOUS
    <2> HIDE DEF rank
    <2>3. InOrder(rank)
        <3>1. \A i, j \in 1 .. Len(Locks!ReconcileRun) :
                  i < j => rank[Locks!ReconcileRun[i]] < rank[Locks!ReconcileRun[j]]
            BY <2>2 DEF Locks!ReconcileRun
        <3>2. \A i, j \in 1 .. Len(Locks!ResolveBlock) :
                  i < j => rank[Locks!ResolveBlock[i]] < rank[Locks!ResolveBlock[j]]
            BY <2>2 DEF Locks!ResolveBlock
        <3>3. \A i, j \in 1 .. Len(Locks!Heartbeat) :
                  i < j => rank[Locks!Heartbeat[i]] < rank[Locks!Heartbeat[j]]
            BY <2>2 DEF Locks!Heartbeat
        <3>4. \A i, j \in 1 .. Len(Locks!RecoverOrphans) :
                  i < j => rank[Locks!RecoverOrphans[i]] < rank[Locks!RecoverOrphans[j]]
            BY <2>2 DEF Locks!RecoverOrphans
        <3>5. \A k \in F : Locks!LocksOf[k] \in {Locks!ReconcileRun, Locks!ResolveBlock, Locks!Heartbeat, Locks!RecoverOrphans}
            BY <1>6 DEF Locks!LocksOf
        <3> QED BY <3>1, <3>2, <3>3, <3>4, <3>5 DEF InOrder
    <2> QED BY <2>1, <2>3
<1> QED BY <1>1, <1>2, <1>3, <1>4, <1>5, <1>6 DEF OrderlyFamilies

(* Approvals and rejections with logged conflicts, expiries with logged      *)
(* conflicts, replacements, the queue with logged conflicts, resumes with    *)
(* reconciliations, and reconciliations with heartbeats and recoveries: any  *)
(* number of transactions of one family run without a deadlock, where an     *)
(* expiry beside an approval has one (_lock_context, expire_approval).       *)
THEOREM FamiliesHaveNoCircle ==
    ASSUME None \notin Transactions, NEW F \in OrderlyFamilies, Kinds \subseteq F
    PROVE  Locks!Spec => []Locks!NoCircle
<1>1. PICK rank \in [Locks!Rows -> 1 .. 6] : InOrder(rank)
    BY FamiliesInOrder
<1>2. Kinds \subseteq DOMAIN Locks!LocksOf
    BY DEF OrderlyFamilies, Locks!LocksOf
<1> QED BY <1>1, <1>2, OneOrderNoCircle

=============================================================================
