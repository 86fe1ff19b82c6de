---- MODULE MCScenarioExecution ----
(***************************************************************************)
(* A scenario of one node: a before action, its test case, an after action *)
(* (MCSteps), or the test case alone (MCOneStep).                          *)
(***************************************************************************)
EXTENDS ScenarioExecution

MCStep(phase) == [node |-> 1, phase |-> phase, cont |-> FALSE]

MCSteps == <<MCStep("before"), MCStep("test_case"), MCStep("after")>>
MCTwoSteps == <<MCStep("before"), MCStep("test_case")>>
MCOneStep == <<MCStep("test_case")>>
====
