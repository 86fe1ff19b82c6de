--------------------------- MODULE AgentExecution ---------------------------
(***************************************************************************)
(* One run's tool calls in the hands of workers: the queue                  *)
(* (AgentWorkerQueueService), ToolExecutor.execute_tool_call cut at its     *)
(* commits, and the reconciliation of what it leaves uncertain              *)
(* (agent_reconcile_service.py).                                            *)
(*                                                                          *)
(* call and item are the committed rows.  An execution works on its         *)
(* session's copy and holds the locks of the run and of the call from its   *)
(* first append_event to its next commit.  Most tools commit once, at the   *)
(* end.  scenario.execute_dry_run commits in the middle: _execute_dataset   *)
(* stores the scenario run, under the caller's idempotency key if there is  *)
(* one, before the first HTTP step, and with it everything the executor had *)
(* pending.                                                                 *)
(*                                                                          *)
(* A reconcile request has read its user before it waits for the run's      *)
(* lock, so under REPEATABLE READ its plain SELECT of the calls, and of the *)
(* open blocks, sees the tables as they were then; the later SELECT ... FOR *)
(* UPDATE does not refresh the objects.  What a request saw is state here.  *)
(***************************************************************************)
EXTENDS Naturals, FiniteSets

CONSTANTS Calls,          \* tool calls of one run
          Workers,        \* processes that execute them
          Committing,     \* the calls of scenario.execute_dry_run
          Keyed,          \* those whose input carries an idempotency_key
          Requests,       \* reconcile requests
          NoAdapter,      \* calls of a backend without a reconcile adapter
          MaxRecoveries,  \* bound: how often the lease of a call is lost
          None            \* no call

ASSUME ConstantsAssumption ==
    /\ Committing \subseteq Calls
    /\ Keyed \subseteq Committing
    /\ NoAdapter \subseteq Calls \ Committing
    /\ MaxRecoveries \in Nat
    /\ None \notin Calls

VARIABLES call,       \* ai_agent_tool_calls
          item,       \* ai_agent_worker_queue.status, one row per call
          block,      \* ai_agent_migration_blocks.status
          proc,       \* what each process is doing
          seen,       \* what each reconcile request has read
          scenarioRun,\* keyed calls whose scenario run is stored
          effects,    \* how often the HTTP steps of a call were sent
          recovered   \* how often recover_orphans requeued a call

vars == <<call, item, block, proc, seen, scenarioRun, effects, recovered>>

-----------------------------------------------------------------------------
CallStatuses == {"absent", "planned", "leased", "running_pre_effect", "succeeded", "failed",
                 "uncertain", "reconciling", "needs_migration", "manual_intervention"}
(* effect_submission_state; send_intent_recorded and backend_accepted are   *)
(* overwritten before any commit.                                           *)
EffectStates == {"none", "transport_sent_observed", "effect_committed"}
ItemStatuses == {"absent", "queued", "leased", "completed", "failed"}
BlockStatuses == {"absent", "open", "resolved"}

(* claimed: past the claim, nothing written yet.  open: first events         *)
(* flushed, locks held.  sent and found: scenario run stored by this process *)
(* or found under its key.  delivered: the HTTP steps are done.              *)
Phases == {"idle", "claimed", "open", "sent", "found", "delivered"}

Call == [status : CallStatuses, effect : EffectStates, output : BOOLEAN]

(* fresh: no event was committed since the process read the run; it numbers  *)
(* its first event from what it read.                                        *)
Proc == [phase : Phases, call : Calls \cup {None}, queued : BOOLEAN, fresh : BOOLEAN]

Seen == [call : Calls \cup {None}, row : Call, open : BOOLEAN]

Absent == [status |-> "absent", effect |-> "none", output |-> FALSE]
Idle == [phase |-> "idle", call |-> None, queued |-> FALSE, fresh |-> TRUE]
Nothing == [call |-> None, row |-> Absent, open |-> FALSE]

Init ==
    /\ call = [c \in Calls |-> Absent]
    /\ item = [c \in Calls |-> "absent"]
    /\ block = [c \in Calls |-> "absent"]
    /\ proc = [w \in Workers |-> Idle]
    /\ seen = [r \in Requests |-> Nothing]
    /\ scenarioRun = {}
    /\ effects = [c \in Calls |-> 0]
    /\ recovered = [c \in Calls |-> 0]

(* The run row and the row of the call in execution are locked.              *)
RunFree == \A w \in Workers : proc[w].phase # "open"
RowFree(c) == \A w \in Workers : ~(proc[w].phase = "open" /\ proc[w].call = c)

Move(w, phase) == proc' = [proc EXCEPT ![w].phase = phase]

Leave(procs, w) == [procs EXCEPT ![w] = Idle]

(* Mutant: event numbers are not unique. *)
OutdatedNever == proc

(* An event of the run is committed: the number of the next one, as those    *)
(* who have read the run know it, is taken.                                  *)
Outdated ==
    [w \in Workers |-> [proc[w] EXCEPT !.fresh = @ /\ proc[w].phase # "claimed"]]

-----------------------------------------------------------------------------
(* The queue *)

(* create_tool_call; its first event needs the run row. *)
Create(c, enqueue) ==
    /\ RunFree
    /\ call[c].status = "absent"
    /\ call' = [call EXCEPT ![c].status = "planned"]
    /\ item' = IF enqueue THEN [item EXCEPT ![c] = "queued"] ELSE item
    /\ proc' = Outdated
    /\ UNCHANGED <<block, seen, scenarioRun, effects, recovered>>

(* Mutant: the row stays queued while it is leased. *)
ClaimWithoutLease(w, c) ==
    /\ proc[w] = Idle
    /\ item[c] = "queued"
    /\ RowFree(c)
    /\ call' = [call EXCEPT ![c].status = "leased"]
    /\ proc' = [proc EXCEPT ![w] = [phase |-> "claimed", call |-> c, queued |-> TRUE, fresh |-> TRUE]]
    /\ UNCHANGED <<item, block, seen, scenarioRun, effects, recovered>>

(* claim_next *)
Claim(w, c) ==
    /\ proc[w] = Idle
    /\ item[c] = "queued"
    /\ RowFree(c)
    /\ call[c].status \notin {"uncertain", "reconciling"}
    /\ item' = [item EXCEPT ![c] = "leased"]
    /\ call' = [call EXCEPT ![c].status = "leased"]
    /\ proc' = [proc EXCEPT ![w] = [phase |-> "claimed", call |-> c, queued |-> TRUE, fresh |-> TRUE]]
    /\ UNCHANGED <<block, seen, scenarioRun, effects, recovered>>

(* recover_orphans for one row.  execute_next never renews its lease, so any *)
(* lease may be found expired, also that of a process still at work.         *)
RecoverOrphan(c) ==
    /\ item[c] = "leased"
    /\ RowFree(c)
    /\ recovered[c] < MaxRecoveries
    /\ item' = [item EXCEPT ![c] = "queued"]
    /\ call' = IF call[c].status = "leased" THEN [call EXCEPT ![c].status = "planned"] ELSE call
    /\ recovered' = [recovered EXCEPT ![c] = @ + 1]
    /\ UNCHANGED <<block, proc, seen, scenarioRun, effects>>

(* The runner executes the call it created with enqueue=False. *)
StartInline(w, c) ==
    /\ proc[w] = Idle
    /\ item[c] = "absent"
    /\ call[c].status = "planned"
    /\ \A v \in Workers : proc[v].call # c
    /\ proc' = [proc EXCEPT ![w] = [phase |-> "claimed", call |-> c, queued |-> FALSE, fresh |-> TRUE]]
    /\ UNCHANGED <<call, item, block, seen, scenarioRun, effects, recovered>>

(* A process dies: its session rolls back, what it had committed stays. *)
Crash(w) ==
    /\ proc[w] # Idle
    /\ proc' = [proc EXCEPT ![w] = Idle]
    /\ UNCHANGED <<call, item, block, seen, scenarioRun, effects, recovered>>

(* Anybody else appends an event: the runner, a decision, a cancellation. *)
AppendEvent ==
    /\ RunFree
    /\ proc' = Outdated
    /\ UNCHANGED <<call, item, block, seen, scenarioRun, effects, recovered>>

-----------------------------------------------------------------------------
(* execute_tool_call *)

(* The commit that ends an execution: the call row and, if the execution was *)
(* given one, its queue row.                                                 *)
End(w, row, itemStatus) ==
    /\ call' = [call EXCEPT ![proc[w].call] = row]
    /\ item' = IF proc[w].queued THEN [item EXCEPT ![proc[w].call] = itemStatus] ELSE item
    /\ UNCHANGED <<block, seen, scenarioRun, effects, recovered>>

(* Before a commit an execution needs the locks, unless it has them. *)
MayWrite(w) == RunFree \/ proc[w].phase = "open"

(* A failed check: permission revoked, approval or context refused.  When    *)
(* its event finds the number taken the error leaves execute_tool_call: that *)
(* is a Crash.                                                               *)
Refuse(w) ==
    /\ proc[w].phase = "claimed"
    /\ proc[w].fresh
    /\ RunFree
    /\ proc' = Leave(Outdated, w)
    /\ \E s \in {"failed", "manual_intervention"} :
           End(w, [call[proc[w].call] EXCEPT !.status = s], "failed")

(* The first three events are flushed; status and lease are not read again.  *)
Begin(w) ==
    /\ proc[w].phase = "claimed"
    /\ proc[w].fresh
    /\ RunFree
    /\ Move(w, "open")
    /\ UNCHANGED <<call, item, block, seen, scenarioRun, effects, recovered>>

(* The number of the first event is taken (unique run_id, event_seq): the    *)
(* flush fails, the handler marks the call failed with a run read afresh.    *)
Collide(w) ==
    /\ proc[w].phase = "claimed"
    /\ ~proc[w].fresh
    /\ RunFree
    /\ proc' = Leave(Outdated, w)
    /\ End(w, [call[proc[w].call] EXCEPT !.status = "failed"], "failed")

(* _idempotent and the unique constraint on (project_id, idempotency_key). *)
Stored(c) == c \in scenarioRun

(* The commit in the middle of execute_dry_run. *)
Dispatch(w) ==
    LET c == proc[w].call
    IN  /\ proc[w].phase = "open"
        /\ c \in Committing
        /\ call' = [call EXCEPT ![c].status = "running_pre_effect",
                                ![c].effect = "transport_sent_observed"]
        /\ proc' = [Outdated EXCEPT ![w].phase = IF Stored(c) THEN "found" ELSE "sent"]
        /\ scenarioRun' = scenarioRun \cup ({c} \cap Keyed)
        /\ UNCHANGED <<item, block, seen, effects, recovered>>

(* The HTTP steps of a scenario run this process stored. *)
Deliver(w) ==
    /\ proc[w].phase = "sent"
    /\ Move(w, "delivered")
    /\ effects' = [effects EXCEPT ![proc[w].call] = @ + 1]
    /\ UNCHANGED <<call, item, block, seen, scenarioRun, recovered>>

(* Mutant: the backend answers once the scenario run is stored. *)
AnsweredEarly(w) ==
    \/ proc[w].phase = "open" /\ proc[w].call \notin Committing
    \/ proc[w].phase \in {"sent", "found", "delivered"}

(* The backend has answered. *)
Answered(w) ==
    \/ proc[w].phase = "open" /\ proc[w].call \notin Committing
    \/ proc[w].phase \in {"found", "delivered"}

Succeed(w) ==
    /\ Answered(w)
    /\ MayWrite(w)
    /\ proc' = Leave(Outdated, w)
    /\ End(w, [status |-> "succeeded", effect |-> "effect_committed", output |-> TRUE], "completed")

(* The backend raised, or (unchanged effect) the first events could not be   *)
(* stored and were rolled back.                                              *)
Raise(w) ==
    /\ proc[w].phase \in {"open", "sent", "found", "delivered"}
    /\ MayWrite(w)
    /\ proc' = Leave(Outdated, w)
    /\ \E e \in {"transport_sent_observed", call[proc[w].call].effect} :
           End(w, [call[proc[w].call] EXCEPT !.status = "failed", !.effect = e], "failed")

(* Mutant: the queue row is forgotten. *)
LoseEventsKeepItem(w) ==
    /\ Answered(w)
    /\ MayWrite(w)
    /\ proc' = Leave(proc, w)
    /\ End(w, [call[proc[w].call] EXCEPT !.status = "uncertain"], item[proc[w].call])

(* The last events could not be stored.  append_event has rolled the session *)
(* back before _mark_eventstore_write_failed_after_effect runs, so the       *)
(* output and the effect state of this execution are gone.                   *)
LoseEvents(w) ==
    /\ Answered(w)
    /\ MayWrite(w)
    /\ proc' = Leave(proc, w)
    /\ End(w, [call[proc[w].call] EXCEPT !.status = "uncertain"], "failed")

-----------------------------------------------------------------------------
(* Reconciliation *)

(* The request's snapshot, taken when its user is authenticated. *)
ReadCall(r, c) ==
    /\ seen[r] = Nothing
    /\ call[c].status \in {"uncertain", "reconciling"}
    /\ seen' = [seen EXCEPT ![r] = [call |-> c, row |-> call[c], open |-> block[c] = "open"]]
    /\ UNCHANGED <<call, item, block, proc, scenarioRun, effects, recovered>>

(* A request commits.  Any other request that works on the same call with an *)
(* older snapshot computes the same attempt_seq and fails on its unique      *)
(* constraint.                                                               *)
Commit(r) ==
    seen' = [q \in Requests |-> IF seen[q].call = seen[r].call THEN Nothing ELSE seen[q]]

(* reconcile_tool_call with LedgerOutputReconcileAdapter, and _handle_not_found: *)
(* the status that follows from what the request saw of the call.            *)
Reconciled(row) ==
    IF row.output THEN "succeeded"
    ELSE IF row.effect = "transport_sent_observed" THEN "uncertain"
    ELSE "manual_intervention"

(* The status is written; the effect state only when it changes the object   *)
(* the request holds.                                                        *)
Reconcile(r) ==
    LET c == seen[r].call
        row == seen[r].row
        status == Reconciled(row)
    IN  /\ c # None
        /\ c \notin NoAdapter
        /\ RunFree
        /\ call' = [call EXCEPT
                        ![c].status = status,
                        ![c].effect = IF status = "succeeded" /\ row.effect # "effect_committed"
                                      THEN "effect_committed" ELSE @]
        /\ proc' = Outdated
        /\ Commit(r)
        /\ UNCHANGED <<item, block, scenarioRun, effects, recovered>>

(* No adapter: _mark_needs_migration; create_tool_call_block reuses a block  *)
(* the request saw open.                                                     *)
ReconcileUnsupported(r) ==
    LET c == seen[r].call
    IN  /\ c \in NoAdapter
        /\ RunFree
        /\ call' = [call EXCEPT ![c].status = "needs_migration"]
        /\ block' = IF seen[r].open THEN block ELSE [block EXCEPT ![c] = "open"]
        /\ proc' = Outdated
        /\ Commit(r)
        /\ UNCHANGED <<item, scenarioRun, effects, recovered>>

(* resolve_block; run, block and call are first read under their locks. *)
ResolveBlock(c) ==
    /\ RunFree
    /\ block[c] = "open"
    /\ block' = [block EXCEPT ![c] = "resolved"]
    /\ call' = IF call[c].status = "needs_migration"
               THEN [call EXCEPT ![c].status = "reconciling"] ELSE call
    /\ proc' = Outdated
    /\ UNCHANGED <<item, seen, scenarioRun, effects, recovered>>

-----------------------------------------------------------------------------
Next ==
    \/ \E c \in Calls, e \in BOOLEAN : Create(c, e)
    \/ \E w \in Workers, c \in Calls : Claim(w, c) \/ StartInline(w, c)
    \/ \E c \in Calls : RecoverOrphan(c) \/ ResolveBlock(c)
    \/ \E r \in Requests, c \in Calls : ReadCall(r, c)
    \/ AppendEvent
    \/ \E r \in Requests : Reconcile(r) \/ ReconcileUnsupported(r)
    \/ \E w \in Workers :
           \/ Crash(w)
           \/ Refuse(w)
           \/ Begin(w)
           \/ Collide(w)
           \/ Dispatch(w)
           \/ Deliver(w)
           \/ Succeed(w)
           \/ Raise(w)
           \/ LoseEvents(w)

Spec == Init /\ [][Next]_vars

-----------------------------------------------------------------------------
(* Properties *)

TypeOK ==
    /\ call \in [Calls -> Call]
    /\ item \in [Calls -> ItemStatuses]
    /\ block \in [Calls -> BlockStatuses]
    /\ proc \in [Workers -> Proc]
    /\ seen \in [Requests -> Seen]
    /\ scenarioRun \subseteq Keyed
    /\ effects \in [Calls -> Nat]
    /\ recovered \in [Calls -> 0..MaxRecoveries]

(* A scenario with an idempotency key is sent at most once, whatever leases  *)
(* are lost and whatever processes die (_execute_dataset commits the key     *)
(* before the first HTTP step).                                              *)
KeyedOnce == \A c \in Keyed : effects[c] <= 1

(* Without a key a scenario is sent again only after its lease was lost:     *)
(* two workers never share a live lease (claim_next, recover_orphans).       *)
SentOncePerLease ==
    KeyedOnce /\ \A c \in Calls : effects[c] <= 1 + recovered[c]

(* A row a worker may take, now or after a recovery, belongs to a call that  *)
(* no execution has finished: an uncertain, refused or finished call is      *)
(* never run again through the queue (mark_failed, mark_completed).          *)
RunnableIsUnfinished ==
    \A c \in Calls :
        item[c] \in {"queued", "leased"} =>
            call[c].status \in {"planned", "leased", "running_pre_effect"}

(* Whoever says a call succeeded, an execution or a reconciliation with an   *)
(* old snapshot, the output is there (_mark_eventstore_write_failed,         *)
(* reconcile_tool_call).                                                     *)
SucceededHasOutput == \A c \in Calls : call[c].status = "succeeded" => call[c].output

(* A scenario that is said to have succeeded was really sent, by the         *)
(* process that said so or by one before it; reconciliation never turns an   *)
(* unsent scenario into a success (LedgerOutputReconcileAdapter).  With a    *)
(* key only the stored scenario run is sure: its first owner may have died   *)
(* before it sent anything.                                                  *)
SuccessHasEffect ==
    \A c \in Committing :
        call[c].status = "succeeded" => IF c \in Keyed THEN c \in scenarioRun ELSE effects[c] > 0

(* A success has its output, and its effect or its stored run.               *)
SuccessIsEarned == SucceededHasOutput /\ SuccessHasEffect

(* A call that waits for a migration always has an open block, or it would   *)
(* block its run silently (create_tool_call_block, resolve_block).  A        *)
(* request that still sees a block open would reuse it after it was          *)
(* resolved; it never does, because whoever could make such a call eligible  *)
(* again finds its event number taken.                                       *)
MigrationIsBlocked ==
    \A c \in Calls : call[c].status = "needs_migration" => block[c] = "open"

-----------------------------------------------------------------------------
(* What the documents say and the code does not do *)

(* A call whose transport was observed is reconciled, never blindly retried  *)
(* (architecture, table of effect states).                                   *)
NoBlindRetry ==
    [][\A w \in Workers :
           /\ proc[w] = Idle
           /\ proc'[w].phase = "claimed"
           => call[proc'[w].call].effect # "transport_sent_observed"]_vars

(* When the events of a committed effect cannot be stored, the call keeps    *)
(* the output it produced, so that reconciliation can find it                *)
(* (architecture, EventStore failure).                                       *)
UncertainKeepsOutput ==
    \A c \in Calls : call[c].status = "uncertain" => call[c].output

=============================================================================
