---- MODULE ScenarioGraph ----
(***************************************************************************)
(* What a failed step of a scenario does to the steps after it, as         *)
(* operators over the flattened steps of one version and the results so    *)
(* far (ScenarioService._execution_steps and the skip conditions of        *)
(* ScenarioService._run_dataset).                                          *)
(*                                                                         *)
(* A scenario is a list of nodes; a node is its before actions, its test   *)
(* case and its after actions, in that order.  A step keeps the identity   *)
(* of its node, its phase and its continue_on_failure flag; what it does   *)
(* when executed is an outcome chosen by the modules that use this one.    *)
(*                                                                         *)
(* A result is "passed", "failed", "timeout" (the step was attempted),     *)
(* "skipped", or "expired": the "timeout" result written, without          *)
(* attempting the step, once the deadline of the run has passed.           *)
(***************************************************************************)
EXTENDS Naturals, Sequences

Phases == {"before", "test_case", "after"}
Outcomes == {"passed", "failed", "timeout"}
Results == Outcomes \union {"skipped", "expired"}

Step == [node : Nat, phase : Phases, cont : BOOLEAN]

PhaseRank(phase) == CASE phase = "before" -> 0
                      [] phase = "test_case" -> 1
                      [] phase = "after" -> 2

(***************************************************************************)
(* The lists of steps _execution_steps can return: nodes in order, each    *)
(* with exactly one test case between its actions.                         *)
(***************************************************************************)
InOrder(steps) ==
    \A i, j \in DOMAIN steps : i < j =>
        \/ steps[i].node < steps[j].node
        \/ /\ steps[i].node = steps[j].node
           /\ PhaseRank(steps[i].phase) <= PhaseRank(steps[j].phase)
           /\ ~(steps[i].phase = "test_case" /\ steps[j].phase = "test_case")

ExecutionSteps(steps) ==
    /\ InOrder(steps)
    /\ \A i \in DOMAIN steps : \E j \in DOMAIN steps :
           steps[j].node = steps[i].node /\ steps[j].phase = "test_case"

\* A result that is neither a pass nor a skip, of a step that may not be
\* continued over.  An expired step stops whatever its flag says.
Stopping(step, result) ==
    \/ result \in {"failed", "timeout"} /\ ~step.cont
    \/ result = "expired"

\* Some earlier node must not be continued over: every later node is skipped.
GlobalStop(steps, results, i) ==
    \E j \in 1 .. i - 1 :
        steps[j].node # steps[i].node /\ Stopping(steps[j], results[j])

\* A before action of this very node failed: the rest of its before actions
\* and its test case are skipped, its after actions are not.
Blocked(steps, results, i) ==
    /\ steps[i].phase # "after"
    /\ \E j \in 1 .. i - 1 :
           /\ steps[j].node = steps[i].node
           /\ steps[j].phase = "before"
           /\ results[j] \in {"failed", "timeout"}
           /\ ~steps[j].cont

IsSkipped(steps, results, i) ==
    GlobalStop(steps, results, i) \/ Blocked(steps, results, i)

ResultsIn(results, kinds) == \E i \in DOMAIN results : results[i] \in kinds

\* The status of a run whose steps have all been walked.
RunVerdict(results) ==
    IF ResultsIn(results, {"timeout", "expired"}) THEN "timeout"
    ELSE IF ResultsIn(results, {"failed"}) THEN "failed"
    ELSE "passed"
====
