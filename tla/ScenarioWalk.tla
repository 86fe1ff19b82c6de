---- MODULE ScenarioWalk ----
(***************************************************************************)
(* One run of one scenario version over one dataset record:                *)
(* ScenarioService._run_dataset with the variables the code keeps          *)
(* (global_stop, blocked_nodes, stop_after_nodes, previous_step), walking  *)
(* the flattened steps once.  ScenarioGraph says what each step must see   *)
(* in terms of the results alone; the invariants relate the two.           *)
(*                                                                         *)
(* Abstracted: what a step does (its outcome is chosen), the variables it  *)
(* reads and writes, and the events (module ScenarioExecution).            *)
(***************************************************************************)
EXTENDS ScenarioGraph

CONSTANTS
    Scenarios,    \* the lists of steps that may be run
    HasDeadline   \* whether the run may have a deadline (a test plan's timeout)

ASSUME ScenariosAssumption ==
    Scenarios \subseteq {s \in Seq(Step) : ExecutionSteps(s)}
ASSUME DeadlineAssumption == HasDeadline \in BOOLEAN

VARIABLES
    steps,       \* ordered_steps
    results,     \* results, one per step walked so far
    globalStop,  \* global_stop
    blocked,     \* blocked_nodes
    stopAfter,   \* stop_after_nodes
    previous,    \* index of previous_step, 0 for None
    reason,      \* the last transition: what _transition_reason read
    late,        \* datetime.utcnow() >= deadline
    status       \* TestScenarioRun.status

vars == <<steps, results, globalStop, blocked, stopAfter, previous, reason,
          late, status>>

Init ==
    /\ steps \in Scenarios
    /\ results = <<>>
    /\ globalStop = FALSE
    /\ blocked = {}
    /\ stopAfter = {}
    /\ previous = 0
    /\ reason = [source |-> 0, read |-> "passed"]
    /\ late = FALSE
    /\ status = "running"

-----------------------------------------------------------------------------

Index == Len(results) + 1

Walking == status = "running" /\ Index <= Len(steps)

\* Mutant: only the node being left stops anything.
StopsOneNode ==
    /\ Index > 1
    /\ steps[Index].node # steps[Index - 1].node
    /\ steps[Index - 1].node \in stopAfter

\* Entering a node after one that must not be continued over.
StopOnEntry ==
    \/ globalStop
    \/ /\ Index > 1
       /\ steps[Index].node # steps[Index - 1].node
       /\ steps[Index - 1].node \in stopAfter

SkipHere ==
    \/ StopOnEntry
    \/ steps[Index].node \in blocked /\ steps[Index].phase # "after"

\* The deadline is looked at first: the step is neither skipped nor tried.
ExpireStep ==
    /\ Walking
    /\ late
    /\ results' = Append(results, "expired")
    /\ globalStop' = StopOnEntry
    /\ stopAfter' = stopAfter \union {steps[Index].node}
    /\ UNCHANGED <<steps, blocked, previous, reason, late, status>>

SkipStep ==
    /\ Walking
    /\ ~late
    /\ SkipHere
    /\ results' = Append(results, "skipped")
    /\ globalStop' = StopOnEntry
    /\ UNCHANGED <<steps, blocked, stopAfter, previous, reason, late, status>>

(***************************************************************************)
(* _execute_step with any outcome.  The transition event names the last    *)
(* step executed but explains it with results[-1], the last result.        *)
(***************************************************************************)
ExecuteStep ==
    /\ Walking
    /\ ~late
    /\ ~SkipHere
    /\ \E outcome \in Outcomes :
        /\ results' = Append(results, outcome)
        /\ LET stops == outcome # "passed" /\ ~steps[Index].cont
               here == {steps[Index].node}
           IN  /\ stopAfter' = IF stops THEN stopAfter \union here ELSE stopAfter
               /\ blocked' = IF stops /\ steps[Index].phase = "before"
                             THEN blocked \union here ELSE blocked
    /\ reason' = IF previous = 0 THEN reason
                 ELSE [source |-> previous, read |-> results[Len(results)]]
    /\ previous' = Index
    /\ globalStop' = StopOnEntry
    /\ UNCHANGED <<steps, late, status>>

FinishRun ==
    /\ status = "running"
    /\ Index > Len(steps)
    /\ status' = RunVerdict(results)
    /\ UNCHANGED <<steps, results, globalStop, blocked, stopAfter, previous,
                   reason, late>>

\* The clock reaches the deadline, between two steps or while one runs.
DeadlinePasses ==
    /\ HasDeadline
    /\ status = "running"
    /\ ~late
    /\ late' = TRUE
    /\ UNCHANGED <<steps, results, globalStop, blocked, stopAfter, previous,
                   reason, status>>

Next == ExpireStep \/ SkipStep \/ ExecuteStep \/ FinishRun \/ DeadlinePasses

Spec == Init /\ [][Next]_vars

-----------------------------------------------------------------------------

\* The variables of the walk have their types, and the walk does not run past
\* the steps.
TypeOK ==
    /\ steps \in Seq(Step)
    /\ ExecutionSteps(steps)
    /\ results \in Seq(Results)
    /\ Len(results) <= Len(steps)
    /\ globalStop \in BOOLEAN
    /\ blocked \subseteq Nat
    /\ stopAfter \subseteq Nat
    /\ previous \in 0 .. Len(results)
    /\ reason \in [source : Nat, read : Results]
    /\ late \in BOOLEAN
    /\ status \in {"running", "passed", "failed", "timeout"}

\* The flags _run_dataset carries from step to step decide what the results
\* alone say: a step is skipped exactly when an earlier node stopped the
\* scenario or a before action of its own node failed.
SkipsAsResultsSay ==
    \A i \in DOMAIN results : results[i] # "expired" =>
        (results[i] = "skipped" <=> IsSkipped(steps, results, i))

\* While the deadline has not passed, once a node was entered each of its
\* after actions is attempted, whatever failed before it in the node.
CleanupAttempted ==
    ~late => \A i, j \in DOMAIN results :
        (/\ steps[i].node = steps[j].node
         /\ results[i] \in Outcomes
         /\ steps[j].phase = "after"
         /\ i < j)
            => results[j] \in Outcomes

\* A run whose verdict is passed executed every one of its steps, and every
\* one passed: a skipped step always has a failure before it to answer for.
PassedMeansAllPassed ==
    status = "passed" =>
        /\ Len(results) = Len(steps)
        /\ \A i \in DOMAIN results : results[i] = "passed"

\* The reason of a transition event is read from the last result, but the
\* event is about the last executed step: they agree on whether it passed.
TransitionTellsTheTruth ==
    reason.source # 0 =>
        (reason.read = "passed" <=> results[reason.source] = "passed")

\* A run skips what its results call for, never the clean-up of a node it has
\* entered, and what it reports of that, by the reasons of its transitions and
\* its verdict, is what its steps did.
ReportIsTrue ==
    /\ CleanupAttempted /\ SkipsAsResultsSay
    /\ TransitionTellsTheTruth /\ PassedMeansAllPassed

\* docs/scenario_execution_graph.md: past the deadline the after actions of
\* the node that was entered are still attempted.
CleanupAttemptedPastDeadline ==
    \A i, j \in DOMAIN results :
        (/\ steps[i].node = steps[j].node
         /\ results[i] \in Outcomes
         /\ steps[j].phase = "after"
         /\ i < j)
            => results[j] \in Outcomes

====
