------------------------------ MODULE AgentRun ------------------------------
(***************************************************************************)
(* One run: the background runner (AgentConversationRunner.run), resume      *)
(* requests, which may end in complete_after_tool_results, and everybody     *)
(* else who writes the run row: cancel, reconciliation, resolve_block.       *)
(*                                                                           *)
(* The runner and a resume request keep the run in their session.  Each      *)
(* commit expires it; the first read afterwards opens a new snapshot         *)
(* (REPEATABLE READ), and until the next commit neither db.refresh(run) nor  *)
(* the SELECT ... FOR UPDATE of append_event shows anything newer.  view is  *)
(* what the session sees of run.status, "none" before that first read.       *)
(* append_event numbers its event last_event_sequence + 1 as the session     *)
(* sees it, and (run_id, event_seq) is unique: a session whose view is no    *)
(* longer fresh fails there, is rolled back and gets HTTPException.          *)
(*                                                                           *)
(* Every commit of a session that changes the run row appends an event, so   *)
(* a step of a session is one commit, or one decision on its view.  Requests *)
(* that read the run for the first time under its lock are one step.         *)
(***************************************************************************)
EXTENDS Naturals

CONSTANTS Runner,         \* the background thread of the run
          Resumes,        \* resume requests
          MaxIterations,  \* run.max_iterations
          MaxDeltas       \* bound: model.delta events of one answer

ASSUME ConstantsAssumption ==
    /\ Runner \notin Resumes
    /\ MaxIterations \in Nat \ {0}
    /\ MaxDeltas \in Nat

VARIABLES run,       \* ai_agent_runs.status
          blocking,  \* blocking_tool_call_ids_json
          guarded,   \* the guarded call of the run and its approval
          block,     \* an uncertain call of the run and its migration block
          session    \* the session of the runner and of each resume request

vars == <<run, blocking, guarded, block, session>>

-----------------------------------------------------------------------------
Sessions == {Runner} \cup Resumes

Terminal == {"completed", "failed", "cancelled"}
Statuses == {"running", "paused", "migration_blocked", "needs_human"} \cup Terminal

(* The ids in blocking_tool_call_ids_json: the guarded call, the call that   *)
(* waits for a migration.                                                    *)
BlockingIds == {"guarded", "migrating"}
GuardedStates == {"absent", "pending", "approved", "refused", "succeeded", "failed"}
BlockStates == {"absent", "uncertain", "open", "resolved", "reconciled"}

(* What the model's answer turns out to be.  held: no delta was emitted yet. *)
(* held text that looks like a tool request is released when it is none.     *)
Answers == {"answer", "release", "tool", "invalid"}

Phases == {"idle", "begin", "ask", "listen", "repaired", "recheck", "detected", "guarded", "free",
           "retry", "observe", "observed", "arrived", "pausing", "resuming", "failing", "ended"} \cup Answers

Session == [phase : Phases, view : Statuses \cup {"none"}, fresh : BOOLEAN,
            iteration : 0..MaxIterations, deltas : 0..MaxDeltas, held : BOOLEAN,
            repair : BOOLEAN, kind : Answers]

Idle == [phase |-> "idle", view |-> "none", fresh |-> TRUE, iteration |-> 0, deltas |-> 0,
         held |-> TRUE, repair |-> FALSE, kind |-> "answer"]

Ended == [Idle EXCEPT !.phase = "ended"]

(* create_run has committed run.started. *)
Init ==
    /\ run = "running"
    /\ blocking = {}
    /\ guarded = "absent"
    /\ block = "absent"
    /\ session = [w \in Sessions |-> Idle]

-----------------------------------------------------------------------------
(* Sessions, snapshots, event numbers *)

Is(w, phase) == session[w].phase = phase

Sees(w, statuses) == session[w].view \in statuses

(* An event is committed: every view taken before is out of date. *)
Outdated ==
    [w \in Sessions |-> [session[w] EXCEPT !.fresh = (session[w].view = "none")]]

(* The session goes on in the same transaction. *)
Proceed(w, state) == session' = [session EXCEPT ![w] = state]

(* Mutant: event numbers are not unique. *)
AppendsBlindly(w) == session[w].view # "none"

(* The event number the session has in view is still free. *)
Appends(w) == session[w].view # "none" /\ session[w].fresh

Collides(w) == session[w].view # "none" /\ ~session[w].fresh

(* The session commits an event, and its next step opens a new snapshot. *)
Commits(w, state) ==
    /\ Appends(w)
    /\ session' = [Outdated EXCEPT ![w] = [state EXCEPT !.view = "none", !.fresh = TRUE]]

To(w, phase) == [session[w] EXCEPT !.phase = phase]

(* The first read after a commit or a rollback. *)
Look(w) ==
    /\ session[w].phase \notin {"idle", "arrived", "pausing", "ended"}
    /\ session[w].view = "none"
    /\ Proceed(w, [session[w] EXCEPT !.view = run, !.fresh = TRUE])
    /\ UNCHANGED <<run, blocking, guarded, block>>

(* append_event fails: rolled back, HTTPException, the runner's handler. *)
Fail(w) == Proceed(w, [To(w, "failing") EXCEPT !.view = "none", !.fresh = TRUE])

-----------------------------------------------------------------------------
(* The runner *)

(* execution_worker.submit *)
Start ==
    /\ Is(Runner, "idle")
    /\ Proceed(Runner, To(Runner, "begin"))
    /\ UNCHANGED <<run, blocking, guarded, block>>

(* It is full: create_agent_run fails the run it has just created; nobody    *)
(* else knows the run yet.                                                   *)
QueueFull ==
    /\ Is(Runner, "idle")
    /\ run = "running"
    /\ \A r \in Resumes : Is(r, "idle")
    /\ run' = "failed"
    /\ Proceed(Runner, Ended)
    /\ UNCHANGED <<blocking, guarded, block>>

(* A check of run.status: a terminal run ends the runner. *)
Stop(w) ==
    /\ session[w].phase \in {"begin", "listen", "recheck", "detected"}
    /\ Sees(w, Terminal)
    /\ Proceed(w, Ended)
    /\ UNCHANGED <<run, blocking, guarded, block>>

(* The memory context is injected with an event of its own, or there is none *)
Prepare(w) ==
    /\ Is(w, "begin")
    /\ session[w].view \notin Terminal \cup {"none"}
    /\ Commits(w, To(w, "ask")) \/ Proceed(w, To(w, "ask"))
    /\ UNCHANGED <<run, blocking, guarded, block>>

(* model.started *)
Ask(w) ==
    /\ Is(w, "ask")
    /\ Commits(w, [To(w, "listen") EXCEPT !.held = TRUE, !.deltas = 0])
    /\ UNCHANGED <<run, blocking, guarded, block>>

(* A model.delta.  The held ones are emitted without another look at the     *)
(* run, also after the loop over the stream was left.                        *)
Emit(w) ==
    /\ Is(w, "listen")
    /\ session[w].deltas < MaxDeltas
    /\ session[w].held \/ ~Sees(w, Terminal)
    /\ \E h \in {session[w].held, FALSE} :
           Commits(w, [session[w] EXCEPT !.deltas = @ + 1, !.held = h])
    /\ UNCHANGED <<run, blocking, guarded, block>>

(* The provider raises; the transaction, if there is one, stays open. *)
ModelError(w) ==
    /\ Is(w, "listen")
    /\ Proceed(w, To(w, "failing"))
    /\ UNCHANGED <<run, blocking, guarded, block>>

(* The stream is over and the run not terminal in this view.  The last       *)
(* iteration takes whatever comes for the answer.  Text is released later    *)
(* only if none was emitted.                                                 *)
Hear(w, answer) ==
    /\ Is(w, "listen")
    /\ session[w].view \notin Terminal \cup {"none"}
    /\ session[w].iteration = MaxIterations => answer \notin {"tool", "invalid"}
    /\ answer = "release" => session[w].deltas = 0 /\ MaxDeltas > 0
    /\ Proceed(w, IF session[w].repair
                  THEN [To(w, "repaired") EXCEPT !.kind = answer]
                  ELSE To(w, answer))
    /\ UNCHANGED <<run, blocking, guarded, block>>

(* _repair_invalid_tool_request asks once more. *)
AskRepair(w) ==
    /\ Is(w, "invalid")
    /\ Commits(w, [To(w, "ask") EXCEPT !.repair = TRUE])
    /\ UNCHANGED <<run, blocking, guarded, block>>

(* The repaired answer: tool_request_repaired, or repair_failed and raise.   *)
(* Either way the repair is over.                                            *)
Repaired(w) ==
    /\ Is(w, "repaired")
    /\ Commits(w, [To(w, IF session[w].kind = "invalid" THEN "failing" ELSE "recheck")
                   EXCEPT !.repair = FALSE])
    /\ UNCHANGED <<run, blocking, guarded, block>>

Recheck(w) ==
    /\ Is(w, "recheck")
    /\ session[w].view \notin Terminal \cup {"none"}
    /\ Proceed(w, To(w, session[w].kind))
    /\ UNCHANGED <<run, blocking, guarded, block>>

(* _emit_model_deltas: one held chunk; the loop ends at a terminal run, but  *)
(* the runner goes on behind it.                                             *)
Release(w) ==
    /\ Is(w, "release")
    /\ ~Sees(w, Terminal)
    /\ session[w].deltas < MaxDeltas
    /\ \E phase \in {"release", "answer"} :
           Commits(w, [To(w, phase) EXCEPT !.deltas = @ + 1])
    /\ UNCHANGED <<run, blocking, guarded, block>>

ReleaseOver(w) ==
    /\ Is(w, "release")
    /\ session[w].view # "none"
    /\ Sees(w, Terminal) \/ session[w].deltas = MaxDeltas
    /\ Proceed(w, To(w, "answer"))
    /\ UNCHANGED <<run, blocking, guarded, block>>

(* model.completed and complete_run; the status is not looked at. *)
Complete(w) ==
    /\ Is(w, "answer")
    /\ Commits(w, Ended)
    /\ run' = "completed"
    /\ UNCHANGED <<blocking, guarded, block>>

-----------------------------------------------------------------------------
(* Tools *)

(* model.tool_request_detected *)
DetectTool(w) ==
    /\ Is(w, "tool")
    /\ Commits(w, To(w, "detected"))
    /\ UNCHANGED <<run, blocking, guarded, block>>

(* Mutant: no look at the run before the call is created. *)
PlanUnchecked(w) ==
    /\ Is(w, "detected")
    /\ session[w].view \notin {"migration_blocked", "none"}
    /\ \/ Commits(w, To(w, "free")) /\ UNCHANGED guarded
       \/ /\ guarded = "absent"
          /\ Commits(w, To(w, "guarded"))
          /\ guarded' = "pending"
    /\ UNCHANGED <<run, blocking, block>>

(* create_tool_call; at most one guarded call is created (bound). *)
Plan(w) ==
    /\ Is(w, "detected")
    /\ session[w].view \notin Terminal \cup {"migration_blocked", "none"}
    /\ \/ Commits(w, To(w, "free")) /\ UNCHANGED guarded
       \/ /\ guarded = "absent"
          /\ Commits(w, To(w, "guarded"))
          /\ guarded' = "pending"
    /\ UNCHANGED <<run, blocking, block>>

(* It refuses a blocked run with 409. *)
PlanBlocked(w) ==
    /\ Is(w, "detected")
    /\ Sees(w, {"migration_blocked"})
    /\ Proceed(w, To(w, "failing"))
    /\ UNCHANGED <<run, blocking, guarded, block>>

(* run.needs_human: the status is written whatever it is. *)
AwaitHuman(w) ==
    /\ Is(w, "guarded")
    /\ Commits(w, To(w, "observed"))
    /\ run' = "needs_human"
    /\ blocking' = blocking \cup {"guarded"}
    /\ UNCHANGED <<guarded, block>>

(* execute_tool_call, or the failure of a call that may not run yet. *)
Execute(w) ==
    /\ Is(w, "free")
    /\ Commits(w, To(w, "observe"))
    /\ UNCHANGED <<run, blocking, guarded, block>>

(* The executor commits in the middle, its last events are lost: the call is *)
(* uncertain (bound: one such call).                                         *)
ExecuteLosesEvents(w) ==
    /\ Is(w, "free")
    /\ block = "absent"
    /\ Commits(w, To(w, "observe"))
    /\ block' = "uncertain"
    /\ UNCHANGED <<run, blocking, guarded>>

(* The executor handles a collision itself, with a new snapshot; the other   *)
(* branch does not.                                                          *)
ExecuteCollides(w) ==
    /\ Is(w, "free")
    /\ Collides(w)
    /\ Fail(w) \/ Proceed(w, [To(w, "retry") EXCEPT !.view = "none", !.fresh = TRUE])
    /\ UNCHANGED <<run, blocking, guarded, block>>

(* tool.failed after that, then tool.result_observed *)
Observe(w) ==
    /\ \/ Is(w, "retry") /\ Commits(w, To(w, "observe"))
       \/ Is(w, "observe") /\ Commits(w, To(w, "observed"))
    /\ UNCHANGED <<run, blocking, guarded, block>>

(* Mutant: the iteration is not counted. *)
NextIterationUncounted(w) ==
    /\ Is(w, "observed")
    /\ session[w].view \notin {"needs_human", "none"}
    /\ Proceed(w, To(w, "ask"))
    /\ UNCHANGED <<run, blocking, guarded, block>>

(* The next iteration; only needs_human stops it. *)
NextIteration(w) ==
    /\ Is(w, "observed")
    /\ session[w].view \notin {"needs_human", "none"}
    /\ Proceed(w, [To(w, "ask") EXCEPT !.iteration = @ + 1])
    /\ UNCHANGED <<run, blocking, guarded, block>>

WaitForHuman(w) ==
    /\ Is(w, "observed")
    /\ Sees(w, {"needs_human"})
    /\ Proceed(w, Ended)
    /\ UNCHANGED <<run, blocking, guarded, block>>

-----------------------------------------------------------------------------
(* Failure *)

(* append_event finds its number taken. *)
Collision(w) ==
    /\ session[w].phase \in {"begin", "ask", "listen", "repaired", "release", "detected", "guarded",
                              "retry", "observe"} \cup Answers
    /\ Is(w, "begin") => ~Sees(w, Terminal)
    /\ Is(w, "listen") => session[w].deltas < MaxDeltas /\ (session[w].held \/ ~Sees(w, Terminal))
    /\ Is(w, "release") => ~Sees(w, Terminal) /\ session[w].deltas < MaxDeltas
    /\ Is(w, "detected") => session[w].view \notin Terminal \cup {"migration_blocked"}
    /\ Collides(w)
    /\ Fail(w)
    /\ UNCHANGED <<run, blocking, guarded, block>>

(* fail_run *)
FailRun(w) ==
    /\ Is(w, "failing")
    /\ Commits(w, Ended)
    /\ run' = "failed"
    /\ UNCHANGED <<blocking, guarded, block>>

(* Its own event collides: the exception leaves the thread or the request. *)
GiveUp(w) ==
    /\ session[w].phase \in {"failing", "resuming"}
    /\ Collides(w)
    /\ Proceed(w, Ended)
    /\ UNCHANGED <<run, blocking, guarded, block>>

-----------------------------------------------------------------------------
(* Requests that write the run under its lock *)

Cancel ==
    /\ run \notin Terminal
    /\ run' = "cancelled"
    /\ session' = Outdated
    /\ UNCHANGED <<blocking, guarded, block>>

(* Events that leave the run row alone, decisions on the guarded call and    *)
(* the reconciliation of the migrating one among them.                       *)
AppendEvent ==
    /\ session' = Outdated
    /\ UNCHANGED <<run, blocking, guarded, block>>

Decide ==
    /\ guarded = "pending"
    /\ guarded' \in {"approved", "refused"}
    /\ session' = Outdated
    /\ UNCHANGED <<run, blocking, block>>

(* reconcile_run: _mark_needs_migration; the list of blocking calls is       *)
(* replaced by the calls with an open block.                                 *)
Block ==
    /\ run \notin Terminal
    /\ block \in {"uncertain", "resolved"}
    /\ block' = "open"
    /\ run' = "migration_blocked"
    /\ blocking' = {"migrating"}
    /\ session' = Outdated
    /\ UNCHANGED guarded

Reconcile ==
    /\ run \notin Terminal
    /\ block = "resolved"
    /\ block' = "reconciled"
    /\ session' = Outdated
    /\ UNCHANGED <<run, blocking, guarded>>

(* resolve_block.  SessionLocal does not autoflush, so the query for open    *)
(* blocks still finds the one just resolved.                                 *)
ResolveBlock ==
    /\ block = "open"
    /\ block' = "resolved"
    /\ run' = "migration_blocked"
    /\ blocking' = {"migrating"}
    /\ session' = Outdated
    /\ UNCHANGED guarded

-----------------------------------------------------------------------------
(* resume_run *)

(* A request has read its user before it waits for the lock of the run: its  *)
(* plain SELECTs of open blocks (409) and pending approvals (freshness gate) *)
(* see the tables as they were then.                                         *)
ResumeArrives(r) ==
    /\ Is(r, "idle")
    /\ block # "open"
    /\ Proceed(r, To(r, IF guarded = "pending" THEN "pausing" ELSE "arrived"))
    /\ UNCHANGED <<run, blocking, guarded, block>>

(* The run itself is read under the lock; a terminal one is left alone. *)
ResumeTerminal(r) ==
    /\ session[r].phase \in {"arrived", "pausing"}
    /\ run \in Terminal
    /\ Proceed(r, Ended)
    /\ UNCHANGED <<run, blocking, guarded, block>>

(* The freshness gate says no, for a pending approval or any other reason. *)
ResumePauses(r) ==
    /\ session[r].phase \in {"arrived", "pausing"}
    /\ run \notin Terminal
    /\ run' = "paused"
    /\ session' = [Outdated EXCEPT ![r] = Ended]
    /\ UNCHANGED <<blocking, guarded, block>>

(* Mutant: only calls that wait for an approval are counted. *)
RemainingApprovals == {id \in blocking : id = "guarded" /\ guarded # "succeeded"}

(* _remaining_blocking_tool_call_ids *)
Remaining ==
    {id \in blocking : IF id = "guarded" THEN guarded # "succeeded" ELSE block # "reconciled"}

(* complete_after_tool_results asks for the final answer only. *)
Continuing == [Idle EXCEPT !.phase = "begin", !.iteration = MaxIterations]

(* The end of resume_run; a call that was executed is answered, if nothing   *)
(* else blocks.                                                              *)
Resumed ==
    /\ blocking' = Remaining
    /\ run' = IF Remaining = {} THEN "running" ELSE "needs_human"

AfterResume(executed) == IF executed /\ Remaining = {} THEN Continuing ELSE Ended

Executable == "guarded" \in blocking /\ guarded = "approved"

(* No call to execute: one transaction. *)
ResumeContinues(r) ==
    LET executed == "guarded" \in blocking /\ guarded = "succeeded"
    IN  /\ Is(r, "arrived")
        /\ run \notin Terminal
        /\ ~Executable
        /\ Resumed
        /\ session' = [Outdated EXCEPT ![r] = AfterResume(executed)]
        /\ UNCHANGED <<guarded, block>>

(* execute_tool_call commits in the middle of it, and the lock is gone. *)
ResumeExecutes(r) ==
    /\ Is(r, "arrived")
    /\ run \notin Terminal
    /\ Executable
    /\ guarded' \in {"succeeded", "failed"}
    /\ session' = [Outdated EXCEPT ![r] = [Idle EXCEPT !.phase = "resuming"]]
    /\ UNCHANGED <<run, blocking, block>>

ResumeFinishes(r) ==
    /\ Is(r, "resuming")
    /\ Resumed
    /\ Commits(r, AfterResume(guarded = "succeeded"))
    /\ UNCHANGED <<guarded, block>>

-----------------------------------------------------------------------------
(* A step of the runner or of a request that goes on like it. *)
Step(w) ==
    \/ Look(w)
    \/ Stop(w)
    \/ Prepare(w)
    \/ Ask(w)
    \/ Emit(w)
    \/ ModelError(w)
    \/ \E answer \in Answers : Hear(w, answer)
    \/ AskRepair(w)
    \/ Repaired(w)
    \/ Recheck(w)
    \/ Release(w)
    \/ ReleaseOver(w)
    \/ Complete(w)
    \/ DetectTool(w)
    \/ Plan(w)
    \/ PlanBlocked(w)
    \/ AwaitHuman(w)
    \/ Execute(w)
    \/ ExecuteLosesEvents(w)
    \/ ExecuteCollides(w)
    \/ Observe(w)
    \/ NextIteration(w)
    \/ WaitForHuman(w)
    \/ Collision(w)
    \/ FailRun(w)
    \/ GiveUp(w)
    \/ ResumeTerminal(w)
    \/ ResumePauses(w)
    \/ ResumeContinues(w)
    \/ ResumeExecutes(w)
    \/ ResumeFinishes(w)

Request ==
    \/ Cancel
    \/ AppendEvent
    \/ Decide
    \/ Block
    \/ Reconcile
    \/ ResolveBlock
    \/ \E r \in Resumes : ResumeArrives(r)

Next ==
    \/ Start
    \/ QueueFull
    \/ \E w \in Sessions : Step(w)
    \/ Request

Spec == Init /\ [][Next]_vars

(* A thread that has begun keeps running: the executor never preempts it for *)
(* good, and a model stream yields or raises.                                *)
FairSpec == Spec /\ \A w \in Sessions : WF_vars(Step(w))

-----------------------------------------------------------------------------
(* Properties *)

TypeOK ==
    /\ run \in Statuses
    /\ blocking \subseteq BlockingIds
    /\ guarded \in GuardedStates
    /\ block \in BlockStates
    /\ session \in [Sessions -> Session]

(* A terminal status is never overwritten by somebody who did not know it:   *)
(* the event number stops every session whose snapshot is older              *)
(* (append_event, uq_agent_events_run_seq).  Only resolve_block and a        *)
(* session that has seen the status, and did not look, write over it.        *)
TerminalIsNotLost ==
    [][(run \in Terminal /\ run' # run)
           => \/ block = "open" /\ block' = "resolved"
              \/ \E w \in Sessions : Sees(w, {run}) /\ session'[w].view = "none"]_vars

(* No tool call is planned for a terminal run, although the runner looked    *)
(* at it in an earlier snapshot (run, create_tool_call).                     *)
NoCallInTerminalRun ==
    [][(\E w \in Sessions : Is(w, "detected") /\ session'[w].phase \in {"guarded", "free"})
           => run \notin Terminal]_vars

(* A run with an open block never runs on: a resume that was let in before   *)
(* the block was opened finds the call in blocking_tool_call_ids_json        *)
(* (resume_run, _refresh_run_block_state).                                   *)
BlockedDoesNotRun == block = "open" => run # "running"

(* The harness stops: whatever the model answers, and whoever interferes,    *)
(* every runner and every resumed conversation comes to an end (run,         *)
(* _repair_invalid_tool_request).                                            *)
EveryRunnerEnds ==
    \A w \in Sessions : ~Is(w, "idle") ~> Is(w, "ended")

-----------------------------------------------------------------------------
(* What the documents and tests say and the code does not do *)

(* After run.cancelled no run.completed is written (architecture, on the     *)
(* conversation runner).                                                     *)
NoCompletionAfterCancel == [][run = "cancelled" => run' # "completed"]_vars

(* Resolving the only open block takes the run out of migration_blocked      *)
(* (test_resolve_migration_block_runs_freshness_gate_and_resumes_when_fresh).*)
ResolvedIsUnblocked ==
    [][block = "open" /\ block' = "resolved" => run' # "migration_blocked"]_vars

=============================================================================
