--------------------------- MODULE TestPlanTrigger ---------------------------
(***************************************************************************)
(* How a test plan comes to run (test_plan_service.py): schedulers that    *)
(* fire due plans, webhook deliveries and manual requests, while others    *)
(* update, switch, and delete the plans.                                   *)
(*                                                                         *)
(* A scheduler holds the rows of the plans it fires until it commits, and  *)
(* passes over those another one holds.  An update reads its plan without  *)
(* a lock, and the ORM writes only the columns it has changed.  A delivery *)
(* commits run by run, the event last.                                     *)
(***************************************************************************)
EXTENDS Naturals, FiniteSets

CONSTANTS
    Plans, Envs,
    Schedulers,   \* threads that call run_due_plans
    Clients,      \* requests at a time
    Deliveries,   \* idempotency keys of webhook deliveries
    ManualKeys,   \* idempotency keys of manual requests
    Bodies,       \* hashes of webhook bodies
    MaxClock,     \* bound: the minutes that pass
    MaxVersion,   \* bound: the version up to which a plan is updated
    MaxDeaths     \* bound: schedulers that die while they fire

ASSUME TriggerAssumption ==
    /\ Envs # {}
    /\ MaxClock \in Nat \ {0} /\ MaxVersion \in Nat /\ MaxDeaths \in Nat

VARIABLES
    plan,      \* test_plans
    created,   \* test_plan_runs, only ever created here
    event,     \* test_plan_webhook_events by delivery
    tick,      \* of each scheduler: its current_time and the plans it holds
    request,   \* of each client: what it has read and has yet to do
    clock, deaths

triggerVars == <<plan, created, event, tick, request, clock, deaths>>

Never == 0
Minutes == 1 .. MaxClock + 1
Kinds == {"cron", "webhook"}
Plan == [alive : BOOLEAN, enabled : BOOLEAN, kind : Kinds, envs : (SUBSET Envs) \ {{}},
         version : Nat \ {0}, next : Minutes \cup {Never}]

\* Uncommitted work holds no plan: this is what a session has.
NoRequest == [op |-> "idle"]
NoTick == [time |-> Never, plans |-> {}]
NoEvent == [body |-> "none", keys |-> {}]

\* next_cron_time of a plan that is due every minute.
NextCronTime(c) == c + 1

CalculateNextRun(enabled, kind, c) ==
    IF enabled /\ kind = "cron" THEN NextCronTime(c) ELSE Never

InitTrigger ==
    /\ plan = [p \in Plans |->
           [alive |-> TRUE, enabled |-> FALSE, kind |-> "webhook", envs |-> Envs,
            version |-> 1, next |-> Never]]
    /\ created = {}
    /\ event = [d \in Deliveries |-> NoEvent]
    /\ tick = [s \in Schedulers |-> NoTick]
    /\ request = [c \in Clients |-> NoRequest]
    /\ clock = 1
    /\ deaths = 0

TimePasses ==
    /\ clock < MaxClock
    /\ clock' = clock + 1
    /\ UNCHANGED <<plan, created, event, tick, request, deaths>>

-----------------------------------------------------------------------------
(* Schedulers.                                                             *)

Due(p) ==
    /\ plan[p].alive /\ plan[p].enabled
    /\ plan[p].kind = "cron"
    /\ plan[p].next # Never /\ plan[p].next <= clock

Held(p) == \E s \in Schedulers : p \in tick[s].plans

\* Mutant: the key names the time of the tick.
KeyOfTick(p, e, at, now) == <<"schedule", p, e, now>>
ScheduleKey(p, e, at, now) == <<"schedule", p, e, at>>

TakenKeys == {r.key : r \in created}

\* The SELECT ... FOR UPDATE SKIP LOCKED of run_due_plans.
LockDue(s) ==
    LET due == {p \in Plans : Due(p) /\ ~ Held(p)}
    IN  /\ tick[s] = NoTick
        /\ due # {}
        /\ tick' = [tick EXCEPT ![s] = [time |-> clock, plans |-> due]]
        /\ UNCHANGED <<plan, created, event, request, clock, deaths>>

DueRun(p, e, now) ==
    [key |-> ScheduleKey(p, e, plan[p].next, now), plan |-> p, env |-> e,
     version |-> plan[p].version, body |-> "none", at |-> plan[p].next]

RunsDue(s) == UNION {{DueRun(p, e, tick[s].time) : e \in plan[p].envs} : p \in tick[s].plans}

\* Mutant: the plan waits for its next time and this one is forgotten.
AdvanceOnly(s) == {}
NewRuns(s) == {r \in RunsDue(s) : r.key \notin TakenKeys}

\* The rest of its transaction: the missing runs, and the next times.
Fire(s) ==
    /\ tick[s] # NoTick
    /\ created' = created \cup NewRuns(s)
    /\ plan' = [p \in Plans |->
           IF p \in tick[s].plans THEN [plan[p] EXCEPT !.next = NextCronTime(tick[s].time)]
           ELSE plan[p]]
    /\ tick' = [tick EXCEPT ![s] = NoTick]
    /\ UNCHANGED <<event, request, clock, deaths>>

\* The process dies before the commit; the database frees the rows.
Die(s) ==
    /\ tick[s] # NoTick
    /\ deaths < MaxDeaths
    /\ deaths' = deaths + 1
    /\ tick' = [tick EXCEPT ![s] = NoTick]
    /\ UNCHANGED <<plan, created, event, request, clock>>

-----------------------------------------------------------------------------
(* Updates.                                                                *)

\* What update_plan and set_enabled make of the plan they have read.
Changed(p, enabled, kind, envs) ==
    [plan[p] EXCEPT !.enabled = enabled, !.kind = kind, !.envs = envs,
                    !.next = CalculateNextRun(enabled, kind, clock), !.version = @ + 1]

Read(c, p, new) ==
    /\ request[c] = NoRequest
    /\ plan[p].alive
    /\ plan[p].version < MaxVersion
    /\ request' = [request EXCEPT ![c] = [op |-> "write", plan |-> p, old |-> plan[p], new |-> new]]
    /\ UNCHANGED <<plan, created, event, tick, clock, deaths>>

\* The version the client sends is the one that is read; another one is a 409.
UpdatePlan(c, p) ==
    \E enabled \in BOOLEAN, kind \in Kinds, envs \in (SUBSET Envs) \ {{}} :
        Read(c, p, Changed(p, enabled, kind, envs))

SetEnabled(c, p) ==
    \E enabled \in BOOLEAN : Read(c, p, Changed(p, enabled, plan[p].kind, plan[p].envs))

\* The UPDATE waits for a scheduler; of a plan that is gone it finds no row.
Write(c) ==
    LET r == request[c]
    IN  /\ r.op = "write"
        /\ ~ Held(r.plan)
        /\ plan' = IF plan[r.plan].alive
                   THEN [plan EXCEPT ![r.plan] =
                            [f \in DOMAIN @ |-> IF r.new[f] # r.old[f] THEN r.new[f] ELSE @[f]]]
                   ELSE plan
        /\ request' = [request EXCEPT ![c] = NoRequest]
        /\ UNCHANGED <<created, event, tick, clock, deaths>>

DeletePlan(p) ==
    /\ plan[p].alive
    /\ ~ Held(p)
    /\ plan' = [plan EXCEPT ![p].alive = FALSE]
    /\ UNCHANGED <<created, event, tick, request, clock, deaths>>

-----------------------------------------------------------------------------
(* Runs on request.  The unique key makes create_plan_run one step: who    *)
(* loses the insert reads the run of the winner and compares it as well.   *)

\* Mutant: the fingerprint leaves the body out.
SamePlanVersion(run, new) == run.version = new.version
SameRequest(run, new) == run.version = new.version /\ run.body = new.body

\* The run a request is answered with; none when the key is taken by another
\* request.
Answers(new) ==
    IF new.key \in TakenKeys THEN {r \in created : r.key = new.key /\ SameRequest(r, new)}
    ELSE {new}

RequestedRun(key, p, e, body) ==
    [key |-> key, plan |-> p, env |-> e, version |-> plan[p].version, body |-> body,
     at |-> Never]

ExecutePlan(p, e, k) ==
    LET new == RequestedRun(<<"manual", k>>, p, e, "none")
    IN  /\ plan[p].alive /\ e \in plan[p].envs
        /\ <<"manual", k>> \notin TakenKeys
        /\ created' = created \cup {new}
        /\ UNCHANGED <<plan, event, tick, request, clock, deaths>>

-----------------------------------------------------------------------------
(* create_webhook_runs.                                                    *)

Listens(p) == plan[p].alive /\ plan[p].enabled /\ plan[p].kind = "webhook"

\* A delivery whose event is known is answered and changes nothing.
Deliver(c, d, body) ==
    /\ request[c] = NoRequest
    /\ event[d] = NoEvent
    /\ request' = [request EXCEPT ![c] =
           [op |-> "deliver", delivery |-> d, body |-> body,
            plans |-> {p \in Plans : Listens(p)}, plan |-> "none", envs |-> {}, keys |-> {}]]
    /\ UNCHANGED <<plan, created, event, tick, clock, deaths>>

\* The next run of the plan the loop is at, or the first of the next plan,
\* whose environments are read then.
CreateRun(c, p, e) ==
    LET r == request[c]
        new == RequestedRun(<<"webhook", p, e, r.delivery>>, p, e, r.body)
        left == IF r.envs = {} THEN plan[p].envs ELSE r.envs
    IN  /\ r.op = "deliver"
        /\ IF r.envs = {} THEN p \in r.plans ELSE p = r.plan
        /\ e \in left
        /\ IF plan[p].alive /\ e \in plan[p].envs /\ Answers(new) # {}
           THEN /\ created' = created \cup Answers(new)
                /\ request' = [request EXCEPT ![c].plan = p, ![c].plans = @ \ {p},
                                              ![c].envs = left \ {e},
                                              ![c].keys = @ \cup {new.key}]
           ELSE /\ request' = [request EXCEPT ![c] = NoRequest]
                /\ UNCHANGED created
        /\ UNCHANGED <<plan, event, tick, clock, deaths>>

\* The event, unless a delivery with the same key was faster.
StoreEvent(c) ==
    LET r == request[c]
    IN  /\ r.op = "deliver"
        /\ r.plans = {} /\ r.envs = {}
        /\ event' = IF event[r.delivery] = NoEvent
                    THEN [event EXCEPT ![r.delivery] = [body |-> r.body, keys |-> r.keys]]
                    ELSE event
        /\ request' = [request EXCEPT ![c] = NoRequest]
        /\ UNCHANGED <<plan, created, tick, clock, deaths>>

\* A request ends early, by an error or with its process.
Abandon(c) ==
    /\ request[c] # NoRequest
    /\ request' = [request EXCEPT ![c] = NoRequest]
    /\ UNCHANGED <<plan, created, event, tick, clock, deaths>>

-----------------------------------------------------------------------------
NextTrigger ==
    \/ TimePasses
    \/ \E s \in Schedulers : LockDue(s) \/ Fire(s) \/ Die(s)
    \/ \E c \in Clients :
           \/ \E p \in Plans : UpdatePlan(c, p) \/ SetEnabled(c, p)
           \/ Write(c)
           \/ \E d \in Deliveries, body \in Bodies : Deliver(c, d, body)
           \/ \E p \in Plans, e \in Envs : CreateRun(c, p, e)
           \/ StoreEvent(c) \/ Abandon(c)
    \/ \E p \in Plans : DeletePlan(p)
    \/ \E p \in Plans, e \in Envs, k \in ManualKeys : ExecutePlan(p, e, k)

\* The scheduler's thread comes round every TEST_PLAN_SCHEDULER_INTERVAL_SECONDS
\* and ends the transaction it has begun.  Nothing is assumed of requests.
FairTrigger ==
    \A s \in Schedulers : WF_triggerVars(LockDue(s)) /\ WF_triggerVars(Fire(s))

SpecTrigger == InitTrigger /\ [][NextTrigger]_triggerVars /\ FairTrigger

-----------------------------------------------------------------------------
TriggerTypeOK ==
    /\ plan \in [Plans -> Plan]
    /\ clock \in 1 .. MaxClock /\ deaths \in 0 .. MaxDeaths
    /\ \A s \in Schedulers : tick[s].plans \subseteq Plans
    /\ \A r \in created : r.plan \in Plans /\ r.env \in Envs

\* A time of a schedule runs once in each environment, also when a late update
\* sets next_run_at back to a time that was fired: the key names the time.
FiredOnce ==
    \A r, q \in created :
        /\ r.at # Never
        /\ <<r.plan, r.env, r.at>> = <<q.plan, q.env, q.at>>
        => r = q

\* The runs an event names carry the body the event names, although deliveries
\* with the same key may create their runs in turns.
EventKeepsItsBody ==
    \A d \in Deliveries : \A r \in created :
        r.key \in event[d].keys => r.body = event[d].body

\* Whoever repeats a trigger, a scheduler or a sender, repeats no run and
\* never mixes up two requests.
TriggersAreIdempotent == FiredOnce /\ EventKeepsItsBody

Updating(c, p) == request[c].op = "write" /\ request[c].plan = p

\* A plan that is due runs in each of its environments for the time it was due,
\* if nobody changes it: no time is lost to a scheduler that dies or skips.  An
\* update that is already under way may be the second one with its version.
DueIsFired ==
    \A p \in Plans, v \in 1 .. MaxVersion, t \in 1 .. MaxClock :
        (/\ Due(p) /\ plan[p].version = v /\ plan[p].next = t
         /\ ~ \E c \in Clients : Updating(c, p))
        ~> \/ plan[p].version # v \/ ~ plan[p].alive
           \/ \A e \in plan[p].envs : \E r \in created :
                  r.plan = p /\ r.env = e /\ r.at = t
=============================================================================
