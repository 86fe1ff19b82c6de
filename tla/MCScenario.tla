---- MODULE MCScenario ----
(***************************************************************************)
(* Side by side, part says which of the two moves:                         *)
(*  - the walk of every scenario of at most two nodes, each with at most   *)
(*    MaxActions before and as many after actions, under every choice of   *)
(*    continue_on_failure, of at most MaxSteps steps;                      *)
(*  - the execution of a scenario of one step.                              *)
(***************************************************************************)
EXTENDS ScenarioWalk, ScenarioExecution

CONSTANTS MaxSteps, MaxActions

VARIABLE part

NodeShapes(n) ==
    {[i \in 1 .. b + 1 + a |->
        [node |-> n,
         phase |-> IF i <= b THEN "before"
                   ELSE IF i = b + 1 THEN "test_case" ELSE "after",
         cont |-> i \in continued]] :
     <<b, a>> \in (0 .. MaxActions) \X (0 .. MaxActions),
     continued \in SUBSET (1 .. 2 * MaxActions + 1)}

MCScenarios ==
    {s \in NodeShapes(1) \union {x \o y : x \in NodeShapes(1), y \in NodeShapes(2)} :
        Len(s) <= MaxSteps}

MCOneStep == <<[node |-> 1, phase |-> "test_case", cont |-> FALSE]>>

MCInit ==
    /\ InitExecution
    /\ \/ part = "walk" /\ Init
       \/ /\ part = "execution" /\ Init
          /\ steps = MCOneStep

MCNext ==
    /\ part' = part
    /\ \/ part = "walk" /\ Next /\ UNCHANGED executionVars
       \/ part = "execution" /\ NextExecution /\ UNCHANGED vars

MCSpec ==
    /\ MCInit
    /\ [][MCNext]_<<part, vars, executionVars>>
    /\ FairWorkers
====
