----------------------------- MODULE MCTestPlan -----------------------------
(***************************************************************************)
(* Side by side, part says which of them moves: the execution of runs;     *)
(* schedulers and updates of a plan for one environment; deliveries,       *)
(* manual requests and one update of a webhook plan for two environments.  *)
(***************************************************************************)
EXTENDS TestPlanRun, TestPlanTrigger

VARIABLE part

FirstEnv == CHOOSE e \in Envs : TRUE

Schedule ==
    \/ TimePasses
    \/ \E s \in Schedulers : LockDue(s) \/ Fire(s) \/ Die(s)
    \/ \E c \in Clients, p \in Plans :
           /\ UpdatePlan(c, p) \/ SetEnabled(c, p)
           /\ request'[c].new.envs = {FirstEnv}
    \/ \E c \in Clients : Write(c) \/ Abandon(c)
    \/ \E p \in Plans : DeletePlan(p)

Requests ==
    \/ \E c \in Clients :
           \/ \E p \in Plans :
                  /\ plan[p].version = 1 /\ \A b \in Clients : ~ Updating(b, p)
                  /\ UpdatePlan(c, p)
                  /\ request'[c].new.kind = "webhook"
           \/ Write(c)
           \/ \E d \in Deliveries, body \in Bodies : Deliver(c, d, body)
           \/ \E p \in Plans, e \in Envs : CreateRun(c, p, e)
           \/ StoreEvent(c) \/ Abandon(c)
    \/ \E p \in Plans : DeletePlan(p)
    \/ \E p \in Plans, e \in Envs, k \in ManualKeys : ExecutePlan(p, e, k)

\* A plan that create_plan has left a minute ago.
Prepared ==
    [p \in Plans |->
        LET kind == IF part = "requests" THEN "webhook" ELSE "cron"
        IN  [alive |-> TRUE, enabled |-> part # "runs", kind |-> kind,
             envs |-> IF part = "requests" THEN Envs ELSE {FirstEnv},
             version |-> 1, next |-> CalculateNextRun(part # "runs", kind, 0)]]

MCInit ==
    /\ part \in {"runs", "schedule", "requests"}
    /\ Init
    /\ plan = Prepared
    /\ created = {} /\ event = [d \in Deliveries |-> NoEvent]
    /\ tick = [s \in Schedulers |-> NoTick]
    /\ request = [c \in Clients |-> NoRequest]
    /\ clock = 1 /\ deaths = 0

MCNext ==
    /\ part' = part
    /\ \/ part = "runs" /\ Next /\ UNCHANGED triggerVars
       \/ part = "schedule" /\ Schedule /\ UNCHANGED vars
       \/ part = "requests" /\ Requests /\ UNCHANGED vars

MCSpec ==
    /\ MCInit
    /\ [][MCNext]_<<part, vars, triggerVars>>
    /\ FairRuns
    /\ FairTrigger
=============================================================================
