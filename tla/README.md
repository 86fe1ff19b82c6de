# Verification of the test platform backend

TLA+ modules, model-checking configurations and machine-checked proofs for the
FastAPI backend in `src/app`.  The project concentrates on the parts where
several sessions, workers or requests write the same rows: the Agent run
time first (approvals, the worker queue, tool execution, reconciliation, runs),
then test plans, scenarios and flows, what the Agent knows and how it is watched
over, and the in-process event and session stores.

## 1. Inventory

| Component | State it keeps | Operations | Interacts with |
| --- | --- | --- | --- |
| Approvals (`agent_approval_service.py`) | `ai_agent_approval_lineages`, `ai_agent_approvals`, mutation log | create, approve, reject, supersede with a replacement call, expire one, expire scan, gate before execution | tool calls and queue rows (parks, releases), runs (events) |
| Tool-call ledger and worker queue (`agent_runtime_service.py`: `ExecutionLedgerService`, `AgentWorkerQueueService`, `ToolExecutor`) | `ai_agent_tool_calls`, `ai_agent_worker_queue` | create, enqueue, claim, heartbeat, recover orphans, execute | approvals (gate), backend tools, run events |
| Runs and the conversation runner (`AgentRuntimeService`, `AgentConversationRunner`) | `ai_agent_runs`, checkpoints | create, run, stream, complete, fail, cancel, continue after tool results | ledger, resume, model provider |
| Event log and outbox (`append_event`, `list_events`, `get_event_snapshot`, `AgentOutboxPublisherService`, the replay audit, `routers/agents.py`) | `ai_agent_events`, `ai_agent_outbox` | append, publish, stream with a cursor, snapshot pages, audit | everybody who writes a run; SSE clients |
| Reconciliation and migration blocks (`agent_reconcile_service.py`) | `ai_agent_reconcile_attempts`, `ai_agent_migration_blocks` | reconcile a call or a run, block, resolve, freshness gate | tool calls, runs, backend adapters |
| Resume (`agent_resume_service.py`) | none of its own | resume a run, schedule retryable calls, execute approved blocking calls | runs, ledger, executor |
| Tool backend (`agent_tool_service.py`) | none (writes scenario runs) | resolve a tool's policy, execute it | scenarios, test cases |
| Memory, evidence and loop (`agent_memory_service.py`, `agent_loop_service.py`) | project memories, usage and contradiction events, evidence watches, context builds, loop observations | create, verify, contradict, expire, retrieve, give feedback; watch, build, observe | runs, tool calls, environments |
| Release gate, observability, runbooks (`agent_release_gate_service.py`, `agent_observability_service.py`, `agent_runbook_service.py`) | none but the contract rows | metrics, alerts, launch and completion audits, promotion, diagnosis | reads all Agent tables |
| Fault-injection drills (`agent_fault_injection_service.py`) | rows of drill runs in the real tables | run a list of the 26 cases | the shared queue, the outbox, memories |
| Test plans (`test_plan_service.py`, `test_plan_scheduler.py`, `core/cron.py`) | plans, plan runs, webhook events | create, update, switch, delete, execute, run due plans, receive a webhook | scenarios, cases, scheduler thread |
| Scenarios (`scenario_service.py`, `routers/scenarios.py`) | scenarios, versions, executions, runs with their step results, run events | queue an execution, execute it, execute a data set, stream events, delete a run or a scenario | execution worker, HTTP targets, sandboxed scripts, SSE readers |
| Visual flows (`visual_flow_service.py`) | flows, versions, executions, node rows | validate, save with a version, execute once per key, walk | execution worker, cases |
| WebSocket debug sessions (`websocket_debug_session_service.py`) | in-process sessions | connect, send, receive loop, close, clean up | a reader thread per session |
| AI run events (`ai_run_event_service.py`, `ai_skill_run_service.py`) | in-process event lists and statuses | publish, complete, fail, stream | worker threads, SSE readers |
| Execution worker (`core/execution_worker.py`) | thread pool and a semaphore | submit, release | everything run in the background |
| HTTP and WebSocket cases, projects, permissions, users, AI skills, records, reports, defects, media | their tables | CRUD, requests, prompts and aggregation | all |

What is hard here, and for each component what makes it correct:

* **Approvals.**  Two people, a replacement and an expiry may race for one
  lineage; the expire scanner works on objects it loaded before it waited for a
  lock.  Correct means: one decision per lineage, on the current request, for
  exactly the input that will run, and nothing runs without it.
* **Worker queue and execution.**  A lease may expire while its worker is still
  executing; a process may die between any two commits; the call's output, its
  effect state and the queue row are committed together or lost together.
  Correct means: an effect that may have happened is never repeated blindly and
  never reported as something it was not.
* **Runs.**  The runner keeps the run object in its session for minutes while
  other requests cancel or block the run.  Correct means: a terminal status
  stays, and the loop ends.
* **Event log and outbox.**  Sessions choose an event's number from a run they
  loaded before they locked it; clients drop and come back with a cursor;
  publishers overlap and die.  Correct means: no gap and no number twice, a
  client is told the whole log in order, and a row is published or given up
  visibly.
* **Locks.**  Approvals, the executor, recovery, resume and block resolution
  take the same row locks in different orders.  Correct means: no set of
  transactions waits in a circle.
* **Memory, evidence, loop.**  Feedback and contradictions write a row they
  loaded earlier; a run is paused while the evidence of its decisions changes; a
  token budget drops evidence.  Correct means: feedback counts once, a memory
  is not believed unearned, changed evidence stops a resume, missing evidence is
  named.
* **Release gate and drills.**  A promotion hangs on a chain of metrics, alerts
  and checks over changing tables; the drills use the tables everybody uses.
  Correct means: no unsettled state passes the gate, and a drill fails only for
  a reason that is not its own.
* **Test plans.**  A run whose heartbeat is stale is taken over while its first
  owner may still be running; a due plan is fired by several schedulers while it
  is updated; a delivery commits run by run.  Correct means: a target is
  attempted once, a trigger is idempotent, and what is due is run.
* **Scenarios.**  A worker, the SSE readers (whose heartbeats are events, too)
  and a second task of the same execution append to one event log; runs and the
  scenario may be deleted meanwhile.  A run walks over a list of steps and keeps
  three flags that decide what is skipped.  Correct means: the event log and the
  rows tell one story, a verdict covers what it sums up, and a failed step skips
  exactly what it should, never the clean-up of its node.
* **Visual flows.**  Each repeat of a request submits a task of its own for the
  one execution.  Correct means: no node is executed twice, the rows tell one
  walk, and an execution with a task ends.
* **In-process stores.**  A reader thread, a closing request and a clean-up
  touch one session object; an event reader waits on a condition variable.
  Correct means: a poller misses nothing, an idle session is released, a stream
  ends.

## 2. Modules

| Module | Models | Relation to the others |
| --- | --- | --- |
| `AgentApproval` | the approval tables, the expire scanner, the gates of queue and executor | an execution is one step here |
| `ApprovalDecision` | the abstract promise of a lineage | `AgentApproval` implements it |
| `AgentLockOrder` | the row locks of ten methods, in the order taken | what the modules above take as one action, as a sequence of waits |
| `AgentExecution` | queue, executor and reconciliation of the calls of one run | opens the step that `AgentApproval` takes as one |
| `AgentRun` | the runner, resume and everybody else who writes the run row | an execution is one step here, too |
| `AgentEventLog` | the events of a run, the outbox with its publishers, the clients that follow | opens the append that `AgentRun` and `AgentExecution` take as one step |
| `EvidenceRules` | the pure rules on evidence refs, budgets, stop reasons and root causes | extended by the next but one |
| `AgentMemory` | one project memory and those who write it | what `AgentKnowledge` asks about a memory is free there |
| `AgentKnowledge` | contexts, watches, observations and the freshness gate of one run | |
| `AgentMetrics` | the metrics and alerts, as sets of rows | extended by the next two |
| `AgentReleaseGate` | gate, launch, completion, dashboard and diagnosis over changing rows | |
| `AgentFaultDrills` | the drills as what they leave and what they share | their rows are the facts of `AgentMetrics` |
| `TestPlanRun` | plan runs, their owners and the scenario runs of their targets | scenarios are executed in one interval |
| `TestPlanTrigger` | plans, schedulers, updates, deliveries, manual requests | creates the runs that `TestPlanRun` executes |
| `ScenarioGraph` | what a failed step does to the later ones, as operators over steps and results | extended by the next two |
| `ScenarioWalk` | the walk of one run over its steps, with the flags the code keeps | its invariants say that the flags compute `ScenarioGraph` |
| `ScenarioExecution` | a queued execution, its event log, readers, deletions | takes the walk as `ScenarioGraph` sums it up |
| `FlowGraph` | validation, order and routes of a flow, as operators | extended by `FlowExecution` |
| `FlowExecution` | versions of a flow and the tasks of one execution | |
| `AIRunEvents` | the event store of an AI skill run, its task and a stream | |
| `DebugSession` | a WebSocket debug session, its threads and requests | |
| `AgentApprovalProofs` | theorems about `AgentApproval`, `ApprovalDecision`, `AgentLockOrder` | extends the first, has an instance of the third |
| `AgentExecutionProofs`, `AgentRunProofs` | theorems about one module each | extend it |
| `TestPlanProofs` | theorems about `TestPlanRun` and `TestPlanTrigger` | extends both |
| `ScenarioProofs` | theorems about `ScenarioWalk` and `ScenarioExecution` | extends both |
| `KnowledgeProofs` | theorems about `AgentMemory` and `AgentKnowledge` | extends both |
| `FlowProofs` | theorems about `FlowGraph` and `FlowExecution` | extends the second |
| `PlatformProofs` | theorems about `AgentEventLog`, `DebugSession`, `AgentReleaseGate`, `AgentFaultDrills` | extends them |
| `MCAgentApproval`, `MCAgentExecution`, `MCScenarioExecution` | symmetry sets and scenarios for TLC | extend the module they are named after |
| `MCScenario`, `MCTestPlan`, `MCAgentKnowledge`, `MCPlatform` | parts that share no state, checked side by side | extend all their parts |

The modules of the last row have a variable `part` that says which part moves;
the others stand still.  This checks each part in all its interleavings without
their product.

Three facts about the sessions of this code shape every module.

* `SessionLocal` is created with `autoflush=False` and the default
  `expire_on_commit=True` (`src/app/db/session.py`).  An object stays as it was
  loaded until its session commits; `SELECT ... FOR UPDATE` takes the row lock
  but does not refresh an object the session already holds, because no caller
  passes `populate_existing`.
* MySQL's REPEATABLE READ gives a plain SELECT the tables as they were at the
  first read of the transaction, although a locking read waits and sees newer
  rows.  Every request reads its user first, before it waits for any lock.
* `append_event` numbers an event `last_event_sequence + 1` as its session sees
  it, and `(run_id, event_seq)` is unique.  That is an optimistic lock on the
  run: whoever has an old picture of it fails at its next event.

What a session has in view is therefore state of the models: `scan` in
`AgentApproval`, `proc[w].fresh` and `seen` in `AgentExecution`,
`session[w].view` and `.fresh` in `AgentRun`, `writer[w].view` in `AgentEventLog`,
`loaded` in `AgentMemory`, `request[c]` in `TestPlanTrigger`.

### AgentApproval

| Variable | Code |
| --- | --- |
| `run` | `ai_agent_runs.status`, reduced to cancelled or not |
| `call` | `ai_agent_tool_calls`: status, `approval_required`, lineage, epoch, input, `approved_approval_id` |
| `lineage` | `ai_agent_approval_lineages`: status, `current_epoch`, `tool_call_id` |
| `approval` | `ai_agent_approvals`, named by the call it was created for (a call has exactly one) |
| `item` | `ai_agent_worker_queue`: status and `last_error_code` |
| `claimed` | the call a worker took from `claim_next` and keeps in memory |
| `scan` | what the session of a running expire scan holds of each approval it selected |
| `expireLog` | the `expire` rows of the mutation log, counted |

Each decision of `ApprovalMutationGuard` locks lineage, call, approval and run
and commits once, so it is one action.  A request names a call, a lineage, an
epoch and an input; every combination, stale ones included, is tried.  The
expire scan is four actions, because the loop works on loaded objects and each
commit expires all of them, so that the next access reads again.  `limit`, the
order and the one-per-lineage rule of the scan are abstracted: the model may
process the loaded approvals in any order, all of them.  An element of `Inputs`
stands for `(input_hash, runtime_snapshot_id, resource_scope_hash)`.
`ExecutionResults` is what `execute_tool_call` may leave in the two rows this
module looks at.

### AgentExecution

| Variable | Code |
| --- | --- |
| `call` | the committed row of a tool call: status, `effect_submission_state`, whether it has an output |
| `item` | `ai_agent_worker_queue.status` |
| `block` | `ai_agent_migration_blocks.status` |
| `proc` | where a process is between the commits of `execute_tool_call`, and whether its next event number is still free |
| `seen` | the rows a reconcile request has read before it got the run's lock |
| `scenarioRun` | which idempotency keys have a scenario run |
| `effects` | how often the HTTP steps of a call were sent (counted for the properties) |
| `recovered` | how often `recover_orphans` requeued a call |

`execute_tool_call` is cut where it commits.  Most tools write all their rows in
the one commit at the end.  `scenario.execute_dry_run` commits in the middle:
`_execute_dataset` stores the scenario run before the first HTTP step and with
it everything the executor had pending.  Hence the actions `Begin`, `Dispatch`,
`Deliver` and one of `Succeed`, `Raise`, `LoseEvents`; `Collide` is the executor
meeting a taken event number at its first event, `Crash` the death of a process
at any point.  `RecoverOrphan` needs no dead worker: `execute_next` never renews
its lease of 60 seconds.  No worker loop is deployed in this commit
(`execute_next` and `recover_orphans` are called by tests and by the
fault-injection drills); the model treats them as the code would run when it is.

### AgentRun

| Variable | Code |
| --- | --- |
| `run` | `ai_agent_runs.status` |
| `blocking` | `blocking_tool_call_ids_json` |
| `guarded` | the run's guarded call together with its approval |
| `block` | the run's uncertain call together with its migration block |
| `session` | of the runner and of each resume request: where it is, what it has in view, whether the view is fresh, and the loop's counters |

A step of a session is one commit, or one decision on its view; `Look` is the
first read after a commit.  `Collision` is a failed `append_event`, from which
the runner goes to its handler (`FailRun`), which may collide itself (`GiveUp`).
`Release` and `ReleaseOver` are `_emit_model_deltas`.  `complete_after_tool_results`
re-enters the loop with the last iteration only (`Continuing`).

### TestPlanRun

| Variable | Code |
| --- | --- |
| `run` | `test_plan_runs`: status, whether `heartbeat_at` is stale, execution mode and failure policy of the snapshot |
| `scenario` | `test_scenario_runs`, by idempotency key `plan-run-..-target-..-attempt-..` |
| `executed` | how often the steps of a key were executed (counted for a property) |
| `owner` | what each thread has in memory while it is inside `execute_run` |
| `slow`, `crashes` | how often a live owner's heartbeat went stale, how many owners died |

`Claim` is `execute_run` up to its first commit, with which the row lock goes.
A target's attempt is two steps, the insert of the scenario run and its verdict,
because the process may die between them and then leaves a scenario run
"running" under the key for good.  A scenario has one data set here; with more,
there is one key per data set and the first that did not pass decides.  `Handle`
is a step after `Raise` because the handlers read the status and write "failed"
without a lock.

### ScenarioGraph and ScenarioWalk

| Variable | Code (`_run_dataset`) |
| --- | --- |
| `steps` | `ordered_steps`: node, phase and `continue_on_failure` of each |
| `results` | `results`, reduced to the status; "expired" is the "timeout" of a step not tried |
| `globalStop`, `blocked`, `stopAfter` | `global_stop`, `blocked_nodes`, `stop_after_nodes` |
| `previous` | `previous_step` |
| `reason` | the arguments `_transition_reason` was last called with |
| `late` | whether the deadline has passed |
| `status` | `test_scenario_runs.status` |

The loop body has three ways to end, so three actions: `ExpireStep`, `SkipStep`
and `RunStep`; the order of their tests is that of the code.  `ScenarioGraph`
says which steps must be skipped from the results alone, without flags.

### ScenarioExecution

| Variable | Code |
| --- | --- |
| `execution` | `test_scenario_executions.status` |
| `run` | `test_scenario_runs`: status, `last_event_sequence`, `step_results` up to the step reached |
| `events` | `test_scenario_run_events` of each run, by sequence |
| `version` | whether the scenario and its version exist |
| `tasks` | what `execution_worker` has accepted and not begun |
| `worker` | of each thread: where it is, the run it works on, the results it has in memory, and the sequence its session has loaded |
| `reader` | of each connection: the cursor and the events sent |
| `claims`, `effects`, `abandoned` | counted for the properties |

Every commit of a task is an `_append_event`, and that is two steps here: the
load of the run and the insert under the unique key `(run_id, sequence)`.  What
was set on the run before (status, step results) is committed with the event or
lost with it.  A refused "step_started" fails the step, because it is appended
inside `_execute_step`'s `try`; any other refused event ends the task, and
`execute_queued_execution` fails the execution (`Raised`,
`FailQueuedExecution`).  One execution with one idempotency key is modelled; a
request that loses the race of the insert fails at its `flush` and changes
nothing.  `ScenarioExecution` has no deadline, because `execute_queued_execution`
passes none.

### AgentLockOrder

| Variable | Code |
| --- | --- |
| `kind` | which method a transaction runs, "idle" or "ended" |
| `taken` | how many of that method's row locks it has |
| `holder` | who holds the lock of each row |

A method is the sequence of the rows it locks; it may return early after any of
them, and `claim_next` and `recover_orphans` pass over a locked queue row instead
of waiting.  One row of each kind stands for the rows two methods share.  The
runner and the executor are left out: they take row locks only while they
commit.  `NoCircle` says that the transactions that wait do not wait for each
other in a circle.  Of the pairs of methods, `approve` with any other method but
`conflict`, and `resume_run` with `claim_next`, can; section 3 lists them.  Section 4
names families of methods that provably cannot.

### AgentEventLog

| Variable | Code |
| --- | --- |
| `log` | `ai_agent_events.event_seq`, in the order of the commits |
| `agentRun` | `ai_agent_runs.last_event_sequence` and status |
| `writer` | the sequence each session has loaded and the events it has added |
| `outbox` | `ai_agent_outbox`: status, attempts, whether the row is due |
| `publisher` | the rows a POST of `outbox/publish` holds and what came of each |
| `delivered` | how often the callback saw an event (counted) |
| `client` | an SSE client: what it received, and its connection's cursor and batch |
| `faults`, `drilled` | publishers that died or were interrupted; events a drill gave up |

`LoadRun`, `AppendEvent` and `CommitEvents` are three steps because the lock does
not load the run again; the unique key refuses the number of the slower one
(`RollBackEvents`).  A publisher holds its rows under SKIP LOCKED until it
commits, delivers in between, and may die (`PublisherDies`).  The stream reads a
batch, sends it and then looks whether the run has ended (`Poll`, `SendEvent`,
`EndPoll`); a client may drop at any point and come back with the last id.
`MissingSequences` to `CursorWindows` are the replay audit's own functions, so
`LogIsReplayable` says that the audit never finds anything.

### EvidenceRules, AgentMemory and AgentKnowledge

| Variable | Code |
| --- | --- |
| `mem` | a `project_memories` row: source, status, confidence, staleness, and whether it names an environment, was validated, contradicted, has a fingerprint, is past its TTL |
| `usage` | `agent_memory_usage_events`: none, open or processed, the policy it was retrieved under, how often it was applied (counted) |
| `loaded` | of each request: what it loaded of memory and usage before the lock |
| `earned`, `changes` | whether somebody vouched for the memory (history); score changes (bound) |
| `watches` | the evidence watches by ref: active, stale, an environment's or not |
| `builds` | the run's context builds: refs, level, what was dropped |
| `unread` | refs whose source changed since a context cited them (history) |
| `obs` | the loop observation: reasons, stop reason, root cause |
| `status` | the run: paused, waiting or running |

Scores are hundredths, as the code's rounding leaves them.  Create, update,
validate, reject, the TTL scan and retrieval are one step each; feedback,
execution records, contradictions and staleness are `Load...` and `Write...`, and
the UPDATE of the latter writes only the columns the object has changed
(`WriteBack`).  `AgentKnowledge` has the freshness gate as a function of the
watches and of two facts of the memory that any answer may be given to;
`EvidenceRules` has the root cause rules as a table and the stop reasons in their
order.

### AgentMetrics, AgentReleaseGate and AgentFaultDrills

| Variable | Code |
| --- | --- |
| `facts` | the rows of all tables a metric counts, with the columns it reads |
| `contract` | `compatibility_status` of each tool's contract row |
| `todo`, `requests` | the cases of the running drill request; how many were made |
| `queued` | the queued calls of all runs |
| `report` | of each case that ran: passed, whether the queue was empty, first time |
| `staleLinks` | memories the stale-watch drill has linked to its environment |

A metric is the set of rows it counts, an alert fires when its set is not empty;
thresholds are at one.  `Decision`, `LaunchReady` and `Diagnose` are the services'
decisions as operators over one picture of the tables; the rows may change
between any two pictures (`Write`, `Resolve`, `Deprecate`).  A drill is what it
leaves in the tables, and whether its own assertion holds given what it finds
there: calls of strangers that it executes, memories of an earlier drill.

### TestPlanTrigger

| Variable | Code |
| --- | --- |
| `plan` | `test_plans`: exists, enabled, trigger kind, environments, version, `next_run_at` |
| `created` | `test_plan_runs`: key, plan, environment, request hash and version |
| `event` | `test_plan_webhook_events`: the body's hash and the runs it names |
| `tick` | of each scheduler: its `current_time` and the plans it holds |
| `request` | of each client: what it has read and has yet to write |
| `clock`, `deaths` | minutes; schedulers that died before their commit |

`LockDue` is the SELECT with SKIP LOCKED, `Fire` the commit of runs and
`next_run_at`, `Die` the end of a process between the two.  An update reads the
plan without a lock, compares the version, and writes later only what it has
changed (`UpdatePlan`, `SetEnabled`, then `Write`); `next_run_at` is computed when
it reads.  A delivery creates one run per plan and environment, each with its
own commit, and stores the event last (`Deliver`, `CreateRun`, `StoreEvent`).  A
schedule recurs every minute (`NextCronTime`); which minutes an expression names
is left out.

### FlowGraph and FlowExecution

| Variable | Code |
| --- | --- |
| `flow` | the saved versions of the flow |
| `draft` | the version an editor has loaded |
| `exec` | the execution row with the definition and the order of its version |
| `rows` | `visual_flow_node_executions`, unique per execution and node |
| `calls` | how often each node was executed (counted) |
| `task` | of each request: where its task is, the edges it has activated |

`FlowGraph` has validation, the topological order and the routes as functions of
a graph.  A task reads the execution, marks it running without looking again,
walks the nodes, each one executed first and stored afterwards, and writes a
verdict; its handler fails the execution unless it has ended.  An assumption of
`MCPlatform` checks over all sets of edges of four nodes that what validation lets
execute is walked completely, in an order each edge agrees with.

### AIRunEvents and DebugSession

| Variable | Code |
| --- | --- |
| `skillRun`, `skillTask` | status and events of the run in the store; the worker's task |
| `subscriber` | a client: what it received, its stream's batch and the status read with it |
| `debug` | the session: listed, status, connection, log, whether it was idle too long |
| `receiver` | where the receive thread is: before its check, in `recv`, in its handler |
| `sender` | of each request that sends: none, after its check, after the send |
| `cleaner` | `cleanup_expired`: idle, has picked the session, has closed it |
| `poller`, `dropped` | a front end that polls with the latest sequence; numbers gone from the log |

Every method of the two in-memory stores is one critical section; what lies
between two of them is a step of its own.

## 3. What is checked

| Run | Instance | Shows |
| --- | --- | --- |
| `approval` | 3 calls, 2 lineages, 2 inputs, 1 worker, 1 scanner, symmetry | a live approval is its lineage's current one; no effect without an approval of its exact input, and a refusal leaves nothing runnable; decisions are final; `ApprovalDecision` is implemented |
| `execution` | a keyed and an unkeyed scenario, a read; 2 processes, 1 reconcile request, 1 lost lease per call | a keyed scenario is sent once, an unkeyed one again only after its lease was lost; nothing finished is runnable; success has an output and an effect, whoever reports it; a call that waits for migration is blocked visibly |
| `run` | runner and 1 resume, 2 iterations, 1 delta | no terminal status is lost to an old snapshot; no call is planned in a terminal run; a blocked run does not run; every runner ends |
| `testplan` | three parts: a run of 1 target with 1 retry, 2 owners, 1 stale heartbeat under a live owner, 1 dead owner; 1 plan with 2 schedulers, late updates and a deletion over 3 minutes; deliveries and manual requests of a plan with 2 environments and 1 update | attempts are executed once, "passed" is true and a second owner needs a stale heartbeat; a time, a delivery and a key run once, and an event keeps its body; a finished run stays finished; every run ends; what is due is fired |
| `scenario` | 2 runs of 2 steps, 1 worker, 1 reader, 2 POSTs, 1 heartbeat, 1 restart, deletions | numbers are consecutive, nothing follows the end event, events and rows agree; a verdict covers its runs; a stream ends with the end event |
| `scenario_two_tasks` | two parts: every scenario of up to 2 nodes, 5 steps and 2 actions on a side, with every `continue_on_failure` and a deadline; 1 run of 1 step, 2 workers, 3 POSTs with room for 2 tasks, 1 restart, deletions | a run skips what the results say, never the clean-up, and its transitions and verdict tell the truth; a step is executed once per task that found the execution queued; an accepted execution gets a verdict |
| `knowledge` | two parts: a memory with 2 writers and 2 score changes after its creation; a run with 2 contexts over 5 refs | feedback counts once; a memory is not active unearned; changed evidence stops a resume; missing evidence is diagnosed |
| `platform` | seven parts: a flow with 3 requests and room for 2 tasks; an event log with a client; one with 2 publishers; a skill run; a debug session; the gate over 11 rows; the drills | no node is executed twice, the rows follow the routes, a submitted flow ends; the log is replayable, a stream tells it, a row is delivered or given up; a skill stream ends; a poller misses nothing, an idle session is released; promotion is earned, a P0 stops a launch and is shown; a drill fails only for what others did |

`OnlyApprovedRuns`, `SuccessIsEarned`, `TargetsRanAsSaid`, `TriggersAreIdempotent`,
`ReportIsTrue` and `EventsTellRun` are conjunctions of named parts; the theorems
state most parts on their own, too.  Section 4 has the theorems: every invariant
and action property of these runs is one.

Four runs find a disagreement between a document and the code:

| Run | What the code does |
| --- | --- |
| `locks_expire_approve` | an expiry and an approval of one pending approval wait for each other: approval then lineage against lineage then approval |
| `run_cancel_completed` | a cancelled run becomes completed when the cancel arrives while held text is released |
| `scenario_executed_twice` | a POST repeated with the same key while its execution is queued submits a second task, and both execute every step |
| `scenario_lost_event` | a reader's heartbeat moves its cursor past an event it has not sent |

`PROJECT.json` quotes the documents.  Others met on the way are not kept as runs.
The modules still define the refuted property of the first six:

* the expire scan overwrites "superseded" with "expired", because its object is
  older than its lock (`SupersededIsFinal`);
* two expire scans log the expiry of one approval twice (`ExpiredOnce`);
* an approval of a cancelled run schedules its call (`NothingScheduledAfterCancel`);
* an expired lease leads to a second execution although the transport was
  committed as sent (`NoBlindRetry`);
* an uncertain call has lost the output that reconciliation looks for
  (`UncertainKeepsOutput`);
* resolving the only block of a run leaves it in `migration_blocked`, for lack of
  autoflush; a test with a flushing session expects "running" (`ResolvedIsUnblocked`);
* more pairs of `AgentLockOrder` wait for each other: `approve` (and `reject`) with
  `supersede` (lineage and call), with `claim_next`, `heartbeat` and
  `recover_orphans` (call and queue row), with `resume_run`, `reconcile_run` and
  `resolve_block` (call and run); `supersede` and `expire` with all of these and
  with each other; `resume_run` with `claim_next`, `heartbeat` and
  `recover_orphans`; the conflict log with `supersede`, `resume_run`,
  `reconcile_run` and `resolve_block`; the refusal that `claim_next` logs with the
  last two.  The database ends each by rolling one
  transaction back, and its caller gets an error;
* past the deadline the after actions of the node that was entered get a
  "timeout" without being tried, and later nodes get "timeout" instead of
  "skipped" (`CleanupAttemptedPastDeadline`); `docs/scenario_execution_graph.md`
  has them tried and skipped;
* a reader's heartbeat can make a step "failed", when it takes the number of its
  "step_started", and the whole execution when it takes another;
* deleting a finished run while its siblings execute makes the execution
  "failed" even if they all pass (the sum reads a row that is gone);
* two concurrent first requests with one key: the loser's insert fails at
  `flush`, before the `except IntegrityError` that would return the winner's;
* a slow worker and its successor both send an unkeyed scenario; a call left
  uncertain by one execution can be written "succeeded" by an older one;
  "cancelled" may become "failed" when a runner's event collides; a resume
  forgets the approved call after a migration block has replaced the list of
  blocking calls; plan runs are deleted for good where `docs/api_test_plans.md`
  says "软删除";
* two updates of a plan that name one version may both succeed, the later over
  the earlier, where `docs/api_test_plans.md` has the second answered with 409; a
  delivery that fails halfway leaves runs that its event never lists, or is
  refused for the same body once the plan's version has changed; a cron
  expression that does not recur within five years makes `next_cron_time` raise
  before the tick commits, and then no plan fires any more;
* a flow request that the worker refuses leaves its execution "queued" for good,
  and so does an AI skill run; a repeated flow request sets an execution that
  has ended back to "running" and ends it again;
* a dead-lettered outbox row no longer counts for the lag; the outbox drill gives
  up the due rows of every run after one attempt; a drill executes whatever call
  of a stranger is first in the queue, and what drills leave counts for the gate;
* the P0 alert about duplicate leases is in no diagnosis of a run; alerts over
  events never clear, because events stay.

### Bounds

* Three calls are enough for a lineage to be superseded twice, and for two
  lineages to be in play; two inputs, to tell the approved one from another.
* Two processes are enough for one that is late and one that took over;
  `MaxRecoveries = 1` lets each of three calls lose its lease once.
* `MaxIterations = 2` has an iteration that may use tools and one that may not;
  `MaxDeltas = 1` has text before and after a delta.  At most one guarded call
  and one uncertain call arise per run.
* Two owners with one slow heartbeat give a plan run one takeover from a live
  owner, one dead owner gives it another; one target with a retry has something
  before and after each step.  The theorems hold for any number of targets.
* `MaxClock = 3` lets an update that was read before a firing set `next_run_at`
  back past it, and the time come round again; `MaxVersion = 2` lets two clients
  update one version, `MaxDeaths = 1` a scheduler die while another waits.  The
  part with deliveries has two bodies for one key and two environments, so that a
  delivery can stop between its runs.
* Two nodes with two actions on each side of the test case have every relation
  two steps can have; `MaxSteps = 5` leaves out only the longest scenarios, and
  the theorems hold for all.
* `scenario` has one worker because most of its properties are about executions
  that only one task found queued (`claims <= 1`): with two, the code does execute
  twice (`scenario_executed_twice`).  Two runs give one to sum up while the other
  is deleted; one heartbeat takes a number from the worker at any point, a
  second would only repeat it.
* `knowledge` has two writers, one that is late and one that was in time;
  `MaxBuilds = 2` has a latest and an earlier context.  The five refs are one of
  each kind the gate tells apart, and one that binds nothing.
* `platform`: the definitions are the executable ones of four nodes over a fork
  and a condition; three requests with room for two tasks give a refused one; two
  sessions and three events let one session lose a number twice; a publisher
  takes two rows and tries twice; a debug session logs three messages and keeps
  two, so one falls off; the drills run all 26 cases in one request, or
  five that share the queue and a memory.

### Fairness

Only the properties about ends assume any.

* `AgentRun!FairSpec`: a session that has begun goes on.  The runner is a thread
  of a pool; a model stream yields or raises.  Nothing is assumed of requests.
* `TestPlanRun!FairRuns`: time passes (heartbeats age), a thread inside
  `execute_run` goes on (HTTP requests and scripts have timeouts), and the
  scheduler comes round to what it may claim.  Nothing is assumed of background
  threads: `_submit_plan_run` may find the queue full.  The scheduler can be
  switched off (`TEST_PLAN_SCHEDULER_ENABLED`), and then the property fails.
* `TestPlanTrigger!FairTrigger`: each scheduler's thread comes round every
  interval and ends the transaction it has begun, unless it dies; clients
  assume nothing.
* `ScenarioExecution!FairSpec`: a thread of the execution worker takes a task and
  goes on with it; steps have time limits.  Nothing is assumed of requests,
  readers or deletions.  `AcceptedEnds` names the two ways out that the code
  leaves: a restart, after which nothing takes up the tasks again, and a failure
  handler that is refused itself (`abandoned`).
* `FlowExecution!FairFlow` and `AIRunEvents!FairSkillRun`: the same worker takes
  what was submitted and goes on; an SSE generator that is not dropped is driven
  on by its server, and wakes on each event or after its timeout.
* `DebugSession!FairDebug`: the receive thread runs (its `recv` has a timeout) and
  the clean-up thread wakes every 30 seconds.

Nothing is assumed of publishers: an outbox row is only published when an
administrator asks for it, so no liveness is claimed of delivery.

## 4. What is proved

Every invariant and every action property that a passing run checks is a theorem,
and so is the refinement of `ApprovalDecision`.  The theorems assume only the
named assumptions of their modules (which sets are finite or disjoint, which
bounds are natural numbers, that the definitions of a flow are executable) and
hold for every number of calls, lineages, processes, runs, steps, owners, readers
and publishers.  Each is about its module's own `Spec`; the runs that check a
part beside others check the same actions.

* **AgentApprovalProofs.**  The type invariant, `LiveApprovalIsCurrent`,
  `EffectHasApproval`, `OnlyApprovedRuns` (a refusal leaves nothing runnable, and
  what a worker has claimed is approved) and the action property
  `DecisionIsFinal`.  They are not inductive.  `IInv` adds that a call,
  its approval and its lineage were created together and agree (`Linked`,
  `Pointed`, `EpochsDiffer`), that a call remembers an approval exactly when its
  own was approved, that the call of an undecided approval has not moved, and
  that a scanner holds only approvals that were due and that nobody but an
  expiry or a replacement can have decided meanwhile (`Scanned`): this is why a
  stale scanner never overwrites an approval or a rejection.

  `Implements` is the refinement, `Spec => ImplementsDecision`.  It needs one more
  part, that a lineage never points at a superseded approval (`RInv`); then each
  action changes the decision of at most one lineage, and as `ApprovalDecision`
  allows, or none.

  `OneOrderNoCircle` is about `AgentLockOrder`: transactions whose methods lock
  rows in one order (`Rank`, any function that grows along each method) never wait
  in a circle, however many there are.  Who waits in a circle would hold a row
  after the one it waits for.  `FamiliesHaveNoCircle` gives the orders of the six
  families of methods that have one in this code: approvals, and expiries, beside
  conflicts; replacements among themselves; the queue's methods beside conflicts;
  the methods that start from a run; and what reconciles or resolves beside the
  queue.  Two methods without a family in common are among the pairs section 3
  names.
* **AgentExecutionProofs.**  The type invariant, `KeyedOnce`,
  `RunnableIsUnfinished` and `SuccessIsEarned` (`SucceededHasOutput` and
  `SuccessHasEffect`).  `IInv` adds that the one process that stored a key is the
  only one to send it (`Stores`), that an output was produced by a send or stands
  under a key (`Outputs`), and that what a reconcile request remembers is out of
  date in one direction only: outputs do not disappear and the queue row never
  becomes runnable again (`Remembered`).  All ends of an execution share one
  lemma, `EndKeeps`.  `MigrationIsBlocked` rests on `Blocks`: a process that could
  still overwrite a blocked call has an event number that is taken.
  `SentOncePerLease` counts: the sends of a call and the processes that may still
  send it are at most one more than its lost leases (`Within`, `Unsent`).
* **AgentRunProofs.**  The type invariant, `BlockedDoesNotRun`, and the action
  properties `TerminalIsNotLost` and `NoCallInTerminalRun`.  `IInv` says what the
  optimistic lock is worth: as long as the event number a session knows is free,
  the status it has in view is the run's (`Sound`), and every open block is in the
  list of reasons a resume reads (`BlockIsListed`).
* **TestPlanProofs.**  Of `TestPlanRun`: the type invariant, `TargetsRanAsSaid`
  (`AttemptedOnce`, `PassedIsTrue`, `OneOwnerUnlessStale`), and the action property
  `FinishedStaysFinished`.  `IInv` adds that an execution belongs to the one
  owner that stored its scenario run (`Executing`), that a target is taken for
  passed only if it did (`TargetsPassed`), and counts owners: a stale heartbeat
  has cost one of `slow` (`OwnersCounted`), so a finished run has no owner left or
  had two (`FinishedIsLeft`).  The counting uses the finiteness of `Owners`.

  Of `TestPlanTrigger`: the type invariant, `TriggersAreIdempotent`, and that a plan
  a scheduler has locked stays due (`HeldStaysDue`).  `TriggerInv` ties the created
  runs, the keys they took, the events of deliveries, the plans that schedulers and
  updates have loaded, and the locked rows to each other.
* **ScenarioProofs.**  Of `ScenarioWalk`: the type invariant and `ReportIsTrue`
  with its four parts, for scenarios of any shape and length.  `IInv` adds `Flags`:
  before each step `stopAfter` and `blocked` are the nodes whose results stop or
  block, and `globalStop` is true exactly when a node before the last one walked
  stops.  That steps come in the order of their nodes makes "the node just left"
  and "an earlier node" the same; a skipped step has a failure before it to answer
  for, which is why a run cannot pass over it.

  Of `ScenarioExecution`: the type invariant, `EventsTellRun`, `VerdictCoversRuns`,
  `StreamEndsWithTheEnd` and `ExecutedOncePerClaim`.  `ExecutionInv` adds where a
  worker may be and with how many results (`Placed`); that a row has the number of
  its last event, and the log of an ended run its end (`Kept`); that a log ends once
  and tells the results of the row (`Tells`); that a reader has sent the end of an
  ended run or has it before it (`Follows`); that what was executed and what is still
  to be executed is at most one per claim (`Counted`); and that after one claim only
  one worker is busy, with the runs before its own over and those after it
  untouched (`Alone`).  TLC checked `ExecutionInv` on one worker,
  2 runs and 2 steps (4.6 million states) before it was proved.
* **KnowledgeProofs.**  `FeedbackOnce` and `ActiveWasEarned` of `AgentMemory`: a
  session that is about to write feedback holds its usage locked
  (`FeedbackIsLocked`), and a late write puts back only what it changed in its copy.  `MissingEvidenceIsDiagnosed` and the action property
  `ChangedEvidenceStopsResume` of `AgentKnowledge`: every ref a context is bound to
  is watched (`EveryBoundRefIsWatched`), and a change nobody has looked at is marked
  (`UnreadIsMarked`).  That nothing hides missing evidence is a fact about the table
  of rules: the urgent ones have the lowest priorities (`UrgentFirst`).
* **FlowProofs.**  `OrderIsWalk`: `TopologicalOrder`, a fold of Kahn's algorithm over
  the nodes, gives for every executable definition of any size an order that takes
  each node once, the start first, and no node before one that leads to it.  The
  inductions it needs are stated for sets (of numbers, of finite sets of nodes),
  which is the form the provers take.  (`MCPlatform` evaluates the same statement on
  all graphs of its nodes.)  From it
  `NodeCalledOnce` and `RowsFollowRoutes`; `FlowInv` says that only the task that
  leads an execution writes its rows, and that they are a beginning of the order
  (`WalkersOK`, `RowsOK`).
* **PlatformProofs.**  Of `AgentEventLog`: `LogIsReplayable`, `StreamTellsLog`,
  `DeliveredOrGivenUp`; `LInv` says what the unique key gives, that the log counts
  from 1, what a writer will add counts on from its view, and a publisher's rows are
  held by it alone.  `PollerMissesNothing` of `DebugSession`.  Of `AgentReleaseGate`
  `PromotionIsEarned` and `P0StopsAndIsShown`, for any set of rows.  `DrillsPassOnQuietPlatform` of `AgentFaultDrills`,
  for any order of the drills before.

Only model-checked: the liveness properties (`EveryRunnerEnds`, `EveryRunEnds`,
`DueIsFired`, `AcceptedEnds`, `SubmittedFlowEnds`, `SkillStreamEnds`,
`IdleSessionIsReleased`), which speak of fairness and of what is enabled and so are
out of the prover's reach.  `AIRunEvents` has no theorem, because a liveness
property is all that is stated of it.


## 5. Not modelled

* HTTP and WebSocket test cases: one call on one thread, one row without a second
  writer; what they compute from an answer is data.  The values that bindings,
  conditions and assertions of flows and scenarios compute.
* Projects, permissions, users, records, reports, defects, media: CRUD on single
  rows in one commit, and aggregation.
* AI skills and model access: prompts and the parsing of answers, functions of
  text.  Titles, previews and texts of contexts; the ranking of retrieved
  memories.
* Metrics no alert looks at, static catalogs, listings, the checkpoints of a run,
  TTLs and hashes of the Agent tables; permission checks of the routers.
* The minutes a cron expression names, imports and targets of plans, environments
  that are deleted under a plan.
* The process that dies while it executes a call inline leaves the call running
  for ever, as nothing recovers it; a paused run that is resumed is set running
  though no runner is started.  No document promises otherwise, so no property
  states it.

`supersede` is modelled although only the fault-injection drills call it, and the
worker queue although no worker loop is deployed.

## 6. Plan

Every module of section 2 is written, and every safety property of its runs is
proved.  What is left:

1. `AIRunEvents`: that a stream has sent the events of the run in order, as an
   invariant beside `SkillStreamEnds`, and its proof.
2. Shorter proofs: `ExecutionInv` is restated action by action; most of its parts
   are disturbed by a handful of actions and could be kept by one lemma each.
3. `AgentLockOrder`: that the pairs section 3 names are all, by a theorem that a
   circle needs two methods with opposite orders.
