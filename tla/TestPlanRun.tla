----------------------------- MODULE TestPlanRun -----------------------------
(***************************************************************************)
(* Runs of test plans (test_plan_service.py): who executes a run, how often  *)
(* its targets are executed, and what becomes of it when its owner is slow,  *)
(* fails, dies, or the run is deleted under it.                              *)
(*                                                                           *)
(* An owner is a background thread (_execute_plan_run_background) or the     *)
(* scheduler's thread (run_due_plans); each has a session of its own and     *)
(* calls execute_run.  That claims the run under its row lock and commits;   *)
(* the lock is gone while the targets are executed.  The ORM writes only     *)
(* changed columns, so a heartbeat does not touch the status.  In parallel   *)
(* mode every target has a thread and a session, in serial mode the owner    *)
(* goes from target to target.                                               *)
(***************************************************************************)
EXTENDS Naturals, FiniteSets

CONSTANTS Runs,         \* ids of plan runs
          Owners,       \* threads that call execute_run
          Scheduler,    \* the one of them that looks for runs by itself
          NumTargets,   \* targets of a plan
          RetryCount,   \* plan_snapshot.retry_count
          MaxSlow,      \* bound: stale heartbeats while the owner is alive
          MaxCrashes,   \* bound: owners that die
          None          \* no run

ASSUME ConstantsAssumption ==
    /\ Scheduler \in Owners
    /\ IsFiniteSet(Owners)
    /\ NumTargets \in Nat \ {0}
    /\ RetryCount \in Nat
    /\ MaxSlow \in Nat
    /\ MaxCrashes \in Nat
    /\ None \notin Runs

VARIABLES run,       \* test_plan_runs
          scenario,  \* test_scenario_runs by idempotency key
          executed,  \* how often the steps of a key were executed
          owner,     \* what each thread is doing
          slow,      \* how often a heartbeat went stale under a live owner
          crashes    \* how many owners have died

vars == <<run, scenario, executed, owner, slow, crashes>>

-----------------------------------------------------------------------------
Targets == 1..NumTargets
Attempts == 1..(RetryCount + 1)

(* plan-run-{run_id}-target-{id}-attempt-{attempt} *)
Keys == Runs \X Targets \X Attempts

Verdicts == {"passed", "failed", "timeout"}
Statuses == {"absent", "pending", "running", "deleted"} \cup Verdicts

(* execution_mode of plan_snapshot and, where it is looked at, the           *)
(* failure_policy: serial execution stops after a failure, or goes on.       *)
Modes == {"parallel", "serial", "serial_stop"}

(* stale: heartbeat_at is older than TEST_PLAN_RUN_STALE_SECONDS. *)
Run == [status : Statuses, stale : BOOLEAN, mode : Modes]

(* A target in the hands of an owner; attempt: the last one begun. *)
Target == [state : {"todo", "executing"} \cup Verdicts, attempt : 0..(RetryCount + 1)]

(* done: targets of a serial run that are behind it.  late: the deadline has *)
(* passed.  saw: the status an exception handler has read.                   *)
Owner == [phase : {"idle", "working", "handling"}, run : Runs \cup {None}, late : BOOLEAN,
          done : 0..NumTargets, target : [Targets -> Target], saw : Statuses]

Absent == [status |-> "absent", stale |-> FALSE, mode |-> "serial"]

Idle == [phase |-> "idle", run |-> None, late |-> FALSE, done |-> 0,
         target |-> [t \in Targets |-> [state |-> "todo", attempt |-> 0]], saw |-> "absent"]

Init ==
    /\ run = [r \in Runs |-> Absent]
    /\ scenario = [k \in Keys |-> "absent"]
    /\ executed = [k \in Keys |-> 0]
    /\ owner = [o \in Owners |-> Idle]
    /\ slow = [r \in Runs |-> 0]
    /\ crashes = 0

Working(o) == owner[o].phase = "working"

MyRun(o) == run[owner[o].run]

InParallel(o) == MyRun(o).mode = "parallel"

OwnersOf(r) == {o \in Owners : owner[o].run = r}

SetTarget(o, t, state, attempt) ==
    owner' = [owner EXCEPT ![o].target[t] = [state |-> state, attempt |-> attempt]]

-----------------------------------------------------------------------------
(* create_plan_run, or run_due_plans for a schedule. *)
Create(r, mode) ==
    /\ run[r].status = "absent"
    /\ run' = [run EXCEPT ![r] = [status |-> "pending", stale |-> FALSE, mode |-> mode]]
    /\ UNCHANGED <<scenario, executed, owner, slow, crashes>>

(* delete_run, clear_runs: the row is really deleted. *)
Delete(r) ==
    /\ run[r].status # "absent"
    /\ run' = [run EXCEPT ![r].status = "deleted"]
    /\ UNCHANGED <<scenario, executed, owner, slow, crashes>>

(* Time passes without a heartbeat. *)
HeartbeatAges(r) ==
    /\ run[r].status = "running"
    /\ ~run[r].stale
    /\ IF OwnersOf(r) = {} THEN UNCHANGED slow
                           ELSE slow[r] < MaxSlow /\ slow' = [slow EXCEPT ![r] = @ + 1]
    /\ run' = [run EXCEPT ![r].stale = TRUE]
    /\ UNCHANGED <<scenario, executed, owner, crashes>>

(* Mutants: the status is not looked at; a run whose owner has died is left   *)
(* alone.                                                                     *)
ClaimableStale(r) == run[r].status = "pending" \/ run[r].stale
ClaimablePending(r) == run[r].status = "pending"

(* The early returns of execute_run, under the lock. *)
Claimable(r) ==
    \/ run[r].status = "pending"
    \/ run[r].status = "running" /\ run[r].stale

(* execute_run up to its first commit. *)
Claim(o, r) ==
    /\ owner[o].phase = "idle"
    /\ Claimable(r)
    /\ run' = [run EXCEPT ![r].status = "running", ![r].stale = FALSE]
    /\ owner' = [owner EXCEPT ![o] = [Idle EXCEPT !.phase = "working", !.run = r]]
    /\ UNCHANGED <<scenario, executed, slow, crashes>>

(* The operator of the run does not exist any more, or is not active. *)
NoOperator(o) ==
    /\ Working(o)
    /\ owner[o].target = Idle.target
    /\ owner[o].done = 0
    /\ MyRun(o).status # "deleted"
    /\ run' = [run EXCEPT ![owner[o].run].status = "failed"]
    /\ owner' = [owner EXCEPT ![o] = Idle]
    /\ UNCHANGED <<scenario, executed, slow, crashes>>

DeadlinePasses(o) ==
    /\ Working(o)
    /\ ~owner[o].late
    /\ owner' = [owner EXCEPT ![o].late = TRUE]
    /\ UNCHANGED <<run, scenario, executed, slow, crashes>>

-----------------------------------------------------------------------------
(* _execute_target *)

(* The target is this thread's turn, or has a thread of its own. *)
Turn(o, t) ==
    /\ Working(o)
    /\ owner[o].target[t].state = "todo"
    /\ InParallel(o) \/ t = owner[o].done + 1

(* An attempt that did not pass. *)
Failed(attempt) == IF attempt > RetryCount THEN "failed" ELSE "todo"

(* The deadline is looked at before each attempt. *)
TimeOut(o, t) ==
    /\ Turn(o, t)
    /\ owner[o].late
    /\ SetTarget(o, t, "timeout", owner[o].target[t].attempt)
    /\ UNCHANGED <<run, scenario, executed, slow, crashes>>

NextKey(o, t) == <<owner[o].run, t, owner[o].target[t].attempt + 1>>

(* _idempotent finds nothing, and the unique index agrees. *)
Free(k) == scenario[k] = "absent"

(* execute_scenario stores a scenario run under the key and executes it. *)
Attempt(o, t) ==
    LET k == NextKey(o, t)
    IN  /\ Turn(o, t)
        /\ ~owner[o].late
        /\ MyRun(o).status # "deleted"
        /\ Free(k)
        /\ scenario' = [scenario EXCEPT ![k] = "running"]
        /\ executed' = [executed EXCEPT ![k] = @ + 1]
        /\ SetTarget(o, t, "executing", k[3])
        /\ UNCHANGED <<run, slow, crashes>>

(* Mutant: a scenario run found under the key counts, whatever its status. *)
FoundVerdictAlways(k) == "passed"

(* What a scenario run found under the key says of the target. *)
FoundVerdict(k) == IF scenario[k] = "passed" THEN "passed" ELSE Failed(k[3])

(* The key is taken: _idempotent returns the scenario run as it is now. *)
AttemptFound(o, t) ==
    LET k == NextKey(o, t)
    IN  /\ Turn(o, t)
        /\ ~owner[o].late
        /\ ~Free(k)
        /\ SetTarget(o, t, FoundVerdict(k), k[3])
        /\ UNCHANGED <<run, scenario, executed, slow, crashes>>

(* execute_scenario raises before it stores anything: a permission, a        *)
(* scenario or its version is gone, or the run itself (a foreign key).       *)
AttemptRefused(o, t) ==
    LET attempt == owner[o].target[t].attempt + 1
    IN  /\ Turn(o, t)
        /\ ~owner[o].late
        /\ SetTarget(o, t, Failed(attempt), attempt)
        /\ UNCHANGED <<run, scenario, executed, slow, crashes>>

(* The scenario ends; its verdict is committed. *)
AttemptEnds(o, t, verdict) ==
    LET attempt == owner[o].target[t].attempt
    IN  /\ Working(o)
        /\ owner[o].target[t].state = "executing"
        /\ scenario' = [scenario EXCEPT ![<<owner[o].run, t, attempt>>] = verdict]
        /\ SetTarget(o, t, IF verdict = "passed" THEN "passed" ELSE Failed(attempt), attempt)
        /\ UNCHANGED <<run, executed, slow, crashes>>

(* execute_scenario raises: rolled back.  The scenario run stays "running",  *)
(* or has its verdict when the commit after it is the one that failed.       *)
AttemptRaises(o, t, left) ==
    LET attempt == owner[o].target[t].attempt
    IN  /\ Working(o)
        /\ owner[o].target[t].state = "executing"
        /\ scenario' = [scenario EXCEPT ![<<owner[o].run, t, attempt>>] = left]
        /\ SetTarget(o, t, Failed(attempt), attempt)
        /\ UNCHANGED <<run, executed, slow, crashes>>

-----------------------------------------------------------------------------
(* execute_run, after a target *)

(* Serial: the heartbeat is committed; failure_policy may end the loop. *)
Heartbeat(o) ==
    LET t == owner[o].done + 1
        state == owner[o].target[t].state
    IN  /\ Working(o)
        /\ ~InParallel(o)
        /\ t \in Targets
        /\ state \in Verdicts
        /\ MyRun(o).status # "deleted"
        /\ run' = [run EXCEPT ![owner[o].run].stale = FALSE]
        /\ owner' = [owner EXCEPT ![o].done =
                         IF state # "passed" /\ MyRun(o).mode = "serial_stop" THEN NumTargets ELSE t]
        /\ UNCHANGED <<scenario, executed, slow, crashes>>

Untouched(o, t) == t \in Targets /\ owner[o].target[t] = Idle.target[t]

(* The loop is over: every target has a result, or the deadline has passed   *)
(* before the next one.                                                      *)
TargetsOver(o) ==
    \/ InParallel(o) /\ \A t \in Targets : owner[o].target[t].state \in Verdicts
    \/ /\ ~InParallel(o)
       /\ \/ owner[o].done = NumTargets
          \/ owner[o].late /\ Untouched(o, owner[o].done + 1)

(* The verdict on the run. *)
Verdict(o) ==
    IF owner[o].late THEN "timeout"
    ELSE IF \A t \in Targets : owner[o].target[t].state = "passed" THEN "passed"
    ELSE "failed"

(* The verdict is written whatever the status has become. *)
Finish(o) ==
    /\ Working(o)
    /\ TargetsOver(o)
    /\ MyRun(o).status # "deleted"
    /\ run' = [run EXCEPT ![owner[o].run].status = Verdict(o)]
    /\ owner' = [owner EXCEPT ![o] = Idle]
    /\ UNCHANGED <<scenario, executed, slow, crashes>>

-----------------------------------------------------------------------------
(* Failure *)

(* Something outside of the targets raises, a write to a deleted run for     *)
(* instance: rolled back, and the handler reads the run again.               *)
Raise(o) ==
    /\ Working(o)
    /\ \A t \in Targets : owner[o].target[t].state # "executing"
    /\ owner' = [owner EXCEPT ![o] = [Idle EXCEPT !.phase = "handling", !.run = owner[o].run,
                                                  !.saw = MyRun(o).status]]
    /\ UNCHANGED <<run, scenario, executed, slow, crashes>>

(* The handler writes "failed" if the status it has read was not final. *)
Handle(o) ==
    LET r == owner[o].run
        fails == owner[o].saw \in {"pending", "running"} /\ run[r].status # "deleted"
    IN  /\ owner[o].phase = "handling"
        /\ run' = IF fails THEN [run EXCEPT ![r].status = "failed"] ELSE run
        /\ owner' = [owner EXCEPT ![o] = Idle]
        /\ UNCHANGED <<scenario, executed, slow, crashes>>

(* The process dies. *)
Crash(o) ==
    /\ owner[o].phase # "idle"
    /\ crashes < MaxCrashes
    /\ crashes' = crashes + 1
    /\ owner' = [owner EXCEPT ![o] = Idle]
    /\ UNCHANGED <<run, scenario, executed, slow>>

-----------------------------------------------------------------------------
(* What an owner does once it has claimed a run. *)
Work(o) ==
    \/ \E t \in Targets :
           \/ TimeOut(o, t)
           \/ Attempt(o, t)
           \/ AttemptFound(o, t)
           \/ AttemptRefused(o, t)
           \/ \E verdict \in {"passed", "failed"} : AttemptEnds(o, t, verdict)
           \/ \E left \in {"running", "passed", "failed"} : AttemptRaises(o, t, left)
    \/ NoOperator(o)
    \/ Heartbeat(o)
    \/ Finish(o)
    \/ Raise(o)
    \/ Handle(o)

Next ==
    \/ \E r \in Runs, mode \in Modes : Create(r, mode)
    \/ \E r \in Runs : Delete(r) \/ HeartbeatAges(r)
    \/ \E o \in Owners, r \in Runs : Claim(o, r)
    \/ \E o \in Owners : Work(o) \/ DeadlinePasses(o) \/ Crash(o)

Spec == Init /\ [][Next]_vars

(* Time passes; a thread that works goes on (requests and scripts have       *)
(* timeouts); and the scheduler comes round to every run it may claim, after *)
(* a restart too.  Nothing is assumed of background threads that have not    *)
(* begun: the worker's queue may have been full.                             *)
FairRuns ==
    /\ \A r \in Runs : WF_vars(HeartbeatAges(r)) /\ WF_vars(Claim(Scheduler, r))
    /\ \A o \in Owners : WF_vars(Work(o))
FairSpec == Spec /\ FairRuns

-----------------------------------------------------------------------------
(* Properties *)

TypeOK ==
    /\ run \in [Runs -> Run]
    /\ scenario \in [Keys -> {"absent", "running", "passed", "failed"}]
    /\ executed \in [Keys -> Nat]
    /\ owner \in [Owners -> Owner]
    /\ slow \in [Runs -> 0..MaxSlow]
    /\ crashes \in 0..MaxCrashes

(* However often a run changes hands, an attempt of a target is executed     *)
(* once, and a target no more often than its retries allow (the key of       *)
(* _execute_target, _idempotent).                                            *)
AttemptedOnce == \A k \in Keys : executed[k] <= 1

(* A run that is said to have passed has, for each target, a scenario run    *)
(* that passed, whichever owner wrote the verdict (execute_run).             *)
PassedIsTrue ==
    \A r \in Runs :
        run[r].status = "passed" =>
            \A t \in Targets : \E a \in Attempts : scenario[<<r, t, a>>] = "passed"

(* A run has a second owner only when a heartbeat went stale under a live    *)
(* one: a second submit, a retried request or the scheduler's recovery scan  *)
(* never start a run twice (the lock and the checks of execute_run).         *)
OneOwnerUnlessStale == \A r \in Runs : Cardinality(OwnersOf(r)) <= 1 + slow[r]

(* Neither too much nor too little: no second owner without a stale          *)
(* heartbeat, no attempt runs twice whoever owns the run, and a passed run   *)
(* has a passed attempt for each target.                                     *)
TargetsRanAsSaid == OneOwnerUnlessStale /\ AttemptedOnce /\ PassedIsTrue

(* A finished run is never started again, and its verdict changes only when  *)
(* it had two owners (Finish and the handlers do not look at the status).    *)
FinishedStaysFinished ==
    [][\A r \in Runs :
           run[r].status \in Verdicts /\ run'[r].status # run[r].status =>
               \/ run'[r].status = "deleted"
               \/ run'[r].status \in Verdicts /\ slow[r] > 0]_vars

(* No run is lost: what was created is finished or deleted one day, although *)
(* its owner dies or nobody was there to take it (run_due_plans).            *)
EveryRunEnds ==
    \A r \in Runs : run[r].status = "pending" ~> run[r].status \in Verdicts \cup {"deleted"}

=============================================================================
