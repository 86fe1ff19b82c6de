----------------------------- MODULE FlowExecution -----------------------------
(***************************************************************************)
(* A saved visual flow and one execution of it that requests with the same  *)
(* idempotency key ask for: visual_flow_service.py, its repository and its  *)
(* router.  Every request submits a task of its own, also for an execution  *)
(* that exists; a task walks the nodes in topological order and commits one *)
(* row per node, unique per execution and node.                             *)
(***************************************************************************)
EXTENDS FlowGraph

CONSTANTS
    Definitions,   \* executable flow definitions
    Places,        \* places of their nodes
    Requests,      \* POSTs of one idempotency key; each has its task
    Capacity,      \* tasks the worker accepts at a time
    MaxVersions    \* bound: versions of the flow

NodeRecords == [kind : Kinds, cont : BOOLEAN, bound : SUBSET Places, ok : BOOLEAN]

ASSUME FlowAssumption ==
    /\ \A g \in Definitions :
           g.nodes \in Seq(NodeRecords) /\ Nodes(g) \subseteq Places /\ Executable(g)
    /\ Capacity \in Nat /\ MaxVersions \in Nat

VARIABLES
    flow,     \* the saved versions, or <<>> once deleted; version i is flow[i]
    draft,    \* the version an editor loaded, 0 if none
    exec,     \* the execution row: its status, the definition of its version,
              \* the order its nodes are walked in, whether the version was deleted
    rows,     \* its node rows: outcome, "skipped" or "none"
    calls,    \* how often each node was executed
    task      \* the task of each request

vars == <<flow, draft, exec, rows, calls, task>>

Current == Len(flow)
NoTask == [state |-> "none", done |-> 0, edges |-> {}, fatal |-> FALSE]

Terminal == {"passed", "failed"}
NoGraph == [nodes |-> <<>>, edges |-> {}]
Graph == exec.graph
Order == exec.order

Init ==
    /\ \E g \in Definitions : flow = <<g>>
    /\ draft = 0
    /\ exec = [status |-> "none", graph |-> NoGraph, order |-> <<>>, deleted |-> FALSE]
    /\ rows = [n \in Places |-> "none"]
    /\ calls = [n \in Places |-> 0]
    /\ task = [r \in Requests |-> NoTask]

-----------------------------------------------------------------------------
(* update_flow reads the flow and later swaps current_version if it is      *)
(* still the one it read; 409 otherwise.                                    *)
LoadFlow ==
    /\ Current > 0 /\ Current < MaxVersions /\ draft = 0
    /\ draft' = Current
    /\ UNCHANGED <<flow, exec, rows, calls, task>>

UpdateFlow(g) ==
    /\ draft > 0
    /\ flow' = IF draft = Current THEN Append(flow, g) ELSE flow
    /\ draft' = 0
    /\ UNCHANGED <<exec, rows, calls, task>>

(* The executions of the flow lose their version, the running ones too.     *)
DeleteFlow ==
    /\ Current > 0
    /\ flow' = <<>>
    /\ exec' = [exec EXCEPT !.deleted = exec.status # "none"]
    /\ UNCHANGED <<draft, rows, calls, task>>

-----------------------------------------------------------------------------
Queued == {r \in Requests : task[r].state \in {"queued", "taken", "walking"}}

(* enqueue_saved, then submit_future: 503 when the queue is full, and the   *)
(* execution stays queued without a task.                                   *)
Accept(r) ==
    task' = [task EXCEPT ![r].state =
                IF Cardinality(Queued) < Capacity THEN "queued" ELSE "refused"]

ExecuteSavedFlow(r) ==
    /\ task[r].state = "none"
    /\ \/ exec.status = "none" /\ Current > 0
          /\ exec' = [status |-> "queued", graph |-> flow[Current],
                      order |-> TopologicalOrder(flow[Current]), deleted |-> FALSE]
       \/ exec.status # "none" /\ UNCHANGED exec
    /\ Accept(r)
    /\ UNCHANGED <<flow, draft, rows, calls>>

(* execute_queued_execution reads the execution and its version ...         *)
TakeTask(r) ==
    /\ task[r].state = "queued"
    /\ IF exec.status \in Terminal
       THEN /\ task' = [task EXCEPT ![r].state = "ended"]
            /\ UNCHANGED exec
       ELSE IF exec.deleted
       THEN /\ task' = [task EXCEPT ![r].state = "ended"]
            /\ exec' = [exec EXCEPT !.status = "failed"]
       ELSE /\ task' = [task EXCEPT ![r].state = "taken"]
            /\ UNCHANGED exec
    /\ UNCHANGED <<flow, draft, rows, calls>>

(* ... and marks it running without looking at it again.  A case or an      *)
(* environment that is gone fails the validation.                           *)
StartExecution(r) ==
    /\ task[r].state = "taken"
    /\ exec' = [exec EXCEPT !.status = "running"]
    /\ task' = [task EXCEPT ![r] = [NoTask EXCEPT !.state = "walking"]]
    /\ UNCHANGED <<flow, draft, rows, calls>>

(* Mutant: a task that fails leaves the execution as it is.                 *)
FailQuietly(r) ==
    /\ task' = [task EXCEPT ![r].state = "ended"]
    /\ UNCHANGED exec

(* The exception handler: the rows so far stay, the execution fails unless  *)
(* it has ended.                                                            *)
Fail(r) ==
    /\ task' = [task EXCEPT ![r].state = "ended"]
    /\ exec' = [exec EXCEPT !.status = IF @ \in Terminal THEN @ ELSE "failed"]

FailValidation(r) ==
    /\ task[r].state = "taken"
    /\ Fail(r)
    /\ UNCHANGED <<flow, draft, rows, calls>>

(* A walking task holds the definition, also when its version is deleted.   *)
Unwalked(r) == task[r].done < Len(Order)
NextNode(r) == Order[task[r].done + 1]

IsActive(r, n) == Kind(Graph, n) = "start" \/ Incoming(Graph, n) \cap task[r].edges # {}

(* Mutant: a row that is there already is taken for this task's own.        *)
InsertAnyway(n) == TRUE

(* The unique key of the node row.                                          *)
CanInsert(n) == rows[n] = "none"

(* One node: the case is executed first, then its row is committed.         *)
WalkNode(r, outcome) ==
    /\ task[r].state = "walking" /\ Unwalked(r)
    /\ LET n == NextNode(r) IN
       /\ IF IsActive(r, n) THEN outcome \in Outcomes(Kind(Graph, n)) ELSE outcome = "skipped"
       /\ calls' = [calls EXCEPT ![n] = IF IsActive(r, n) /\ @ < 2 THEN @ + 1 ELSE @]
       /\ \/ /\ CanInsert(n)
             /\ rows' = [rows EXCEPT ![n] = outcome]
             /\ task' = [task EXCEPT ![r] =
                    [task[r] EXCEPT
                        !.done = @ + 1,
                        !.edges = @ \cup (IF IsActive(r, n) THEN Activated(Graph, n, outcome) ELSE {}),
                        !.fatal = @ \/ (IsActive(r, n) /\ IsFatal(Graph.nodes[n], outcome))]]
             /\ UNCHANGED exec
          \/ /\ ~CanInsert(n)
             /\ Fail(r)
             /\ UNCHANGED rows
    /\ UNCHANGED <<flow, draft>>

(* Mutant: whatever happened, the walk is over.                             *)
VerdictPassed(r) == "passed"

Verdict(r) == IF task[r].fatal THEN "failed" ELSE "passed"

FinishExecution(r) ==
    /\ task[r].state = "walking" /\ ~Unwalked(r)
    /\ exec' = [exec EXCEPT !.status = Verdict(r)]
    /\ task' = [task EXCEPT ![r].state = "ended"]
    /\ UNCHANGED <<flow, draft, rows, calls>>

(* The worker's threads take and walk what was submitted.                   *)
TaskStep(r) ==
    \/ TakeTask(r) \/ StartExecution(r) \/ FailValidation(r) \/ FinishExecution(r)
    \/ \E outcome \in {"passed", "failed", "error", "true", "false", "skipped"} :
          WalkNode(r, outcome)

Next ==
    \/ LoadFlow
    \/ \E g \in Definitions : UpdateFlow(g)
    \/ DeleteFlow
    \/ \E r \in Requests :
          ExecuteSavedFlow(r) \/ TaskStep(r)

FairFlow == \A r \in Requests : WF_vars(TaskStep(r))
Spec == Init /\ [][Next]_vars /\ FairFlow

-----------------------------------------------------------------------------

(* However many requests repeat an idempotency key and however their tasks  *)
(* overlap, no node past the start is executed twice: every valid walk      *)
(* begins with the one start node, whose row lets a single task through.    *)
NodeCalledOnce ==
    \A n \in Places : exec.status # "none" /\ n \in Nodes(Graph) =>
        (Kind(Graph, n) # "start" => calls[n] <= 1)

(* The rows tell one walk: a node was executed exactly when it is the start *)
(* or an executed node before it activated an edge to it, and an execution  *)
(* reported as passed has a row for every node and none that stops a flow.  *)
Ran(n) == rows[n] \notin {"none", "skipped"}
RowsFollowRoutes ==
    exec.status # "none" =>
        /\ \A n \in Nodes(Graph) : rows[n] # "none" =>
               (Ran(n) <=> \/ Kind(Graph, n) = "start"
                          \/ \E e \in Incoming(Graph, n) :
                                Ran(e.source) /\ e \in Activated(Graph, e.source, rows[e.source]))
        /\ exec.status = "passed" => \A n \in Nodes(Graph) :
               rows[n] # "none" /\ ~IsFatal(Graph.nodes[n], rows[n])

(* An execution for which a task was queued ends, whatever else happens to  *)
(* the flow and however often the request is repeated.                      *)
SubmittedFlowEnds ==
    (\E r \in Requests : task[r].state = "queued") ~> exec.status \in Terminal
=============================================================================
