---------------------------- MODULE TestPlanProofs ----------------------------
(***************************************************************************)
(* Theorems about TestPlanRun, for any number of runs, targets, retries and  *)
(* owners, and any number of stale heartbeats and dead owners; and about     *)
(* TestPlanTrigger, for any number of plans, environments, schedulers,       *)
(* requests and deliveries, whatever the bounds on time, versions and deaths *)
(* are.                                                                      *)
(***************************************************************************)
EXTENDS TestPlanRun, TestPlanTrigger, FiniteSetTheorems, TLAPS

-----------------------------------------------------------------------------
(* TestPlanRun: the inductive invariant *)

(* An owner has a run, and a target that is to be tried again has attempts   *)
(* left.                                                                     *)
Busy ==
    \A o \in Owners :
        /\ owner[o].phase # "idle" <=> owner[o].run # None
        /\ owner[o].phase # "working" => owner[o].target = Idle.target
        /\ \A t \in Targets :
               /\ owner[o].target[t].state = "todo" => owner[o].target[t].attempt <= RetryCount
               /\ owner[o].target[t].state = "executing" => owner[o].target[t].attempt > 0

(* The scenario run of a key and the execution of its steps go together. *)
Counted == \A k \in Keys : executed[k] = IF scenario[k] = "absent" THEN 0 ELSE 1

(* A scenario in execution is executed by the one owner that stored its run. *)
Executing ==
    \A o \in Owners, t \in Targets :
        owner[o].target[t].state = "executing" =>
            /\ scenario[<<owner[o].run, t, owner[o].target[t].attempt>>] = "running"
            /\ \A p \in Owners :
                   /\ owner[p].run = owner[o].run
                   /\ owner[p].target[t].state = "executing"
                   /\ owner[p].target[t].attempt = owner[o].target[t].attempt
                   => p = o

HasPassed(r, t) == \E a \in Attempts : scenario[<<r, t, a>>] = "passed"

(* An owner takes a target for passed only if it did. *)
TargetsPassed ==
    \A o \in Owners, t \in Targets :
        owner[o].target[t].state = "passed" => HasPassed(owner[o].run, t)

(* A stale heartbeat has cost its owners one of the slow ones. *)
OwnersCounted ==
    \A r \in Runs :
        /\ run[r].status \in {"absent", "pending"} => OwnersOf(r) = {}
        /\ Cardinality(OwnersOf(r)) <=
               slow[r] + IF run[r].status = "running" /\ run[r].stale THEN 0 ELSE 1

(* A finished run has no owner left, or had two. *)
FinishedIsLeft ==
    \A r \in Runs : run[r].status \in Verdicts => OwnersOf(r) = {} \/ slow[r] > 0

IInv ==
    /\ TypeOK
    /\ Busy
    /\ Counted
    /\ Executing
    /\ TargetsPassed
    /\ PassedIsTrue
    /\ OwnersCounted
    /\ FinishedIsLeft

-----------------------------------------------------------------------------
(* Owners of a run *)

(* The owners of a run are finitely many. *)
LEMMA OwnersFinite ==
    ASSUME NEW r \in Runs
    PROVE  /\ IsFiniteSet(OwnersOf(r))
           /\ Cardinality(OwnersOf(r)) \in Nat
<1>1. OwnersOf(r) \in SUBSET Owners
    BY DEF OwnersOf
<1>2. IsFiniteSet(OwnersOf(r))
    BY <1>1, FS_Subset, ConstantsAssumption
<1> QED BY <1>2, FS_CardinalityType

(* When an owner leaves, its run loses it and no other run is concerned. *)
LEMMA OwnerLeaves ==
    ASSUME TypeOK, NEW o \in Owners, NEW r \in Runs, owner[o].run \in Runs,
           owner' = [owner EXCEPT ![o] = Idle]
    PROVE  /\ r # owner[o].run => OwnersOf(r)' = OwnersOf(r)
           /\ r = owner[o].run =>
                  /\ OwnersOf(r)' = OwnersOf(r) \ {o}
                  /\ Cardinality(OwnersOf(r)') = Cardinality(OwnersOf(r)) - 1
<1>1. \A p \in Owners : owner'[p].run = IF p = o THEN None ELSE owner[p].run
    BY DEF TypeOK, Idle
<1>2. r # owner[o].run => OwnersOf(r)' = OwnersOf(r)
    BY <1>1, ConstantsAssumption DEF OwnersOf
<1>3. ASSUME r = owner[o].run
      PROVE  /\ OwnersOf(r)' = OwnersOf(r) \ {o}
             /\ Cardinality(OwnersOf(r)') = Cardinality(OwnersOf(r)) - 1
    <2>1. OwnersOf(r)' = OwnersOf(r) \ {o}
        BY <1>1, <1>3, ConstantsAssumption DEF OwnersOf
    <2>2. o \in OwnersOf(r)
        BY <1>3 DEF OwnersOf
    <2>3. Cardinality(OwnersOf(r) \ {o}) = Cardinality(OwnersOf(r)) - 1
        BY <2>2, OwnersFinite, FS_RemoveElement
    <2> QED BY <2>1, <2>3
<1> QED BY <1>2, <1>3

(* As long as nobody comes or goes, the counting goes on. *)
LEMMA OwnersStay ==
    ASSUME IInv, TypeOK',
           \A p \in Owners : owner'[p].run = owner[p].run,
           slow' = slow,
           \A r \in Runs : \/ run'[r] = run[r]
                           \/ run'[r].status = "deleted"
                           \/ run'[r].status = run[r].status /\ ~run'[r].stale
                           \/ run[r].status = "absent" /\ run'[r].status = "pending"
    PROVE  OwnersCounted' /\ FinishedIsLeft'
<1>1. \A r \in Runs : OwnersOf(r)' = OwnersOf(r)
    BY DEF OwnersOf
<1>2. ASSUME NEW r \in Runs
      PROVE  /\ run'[r].status \in {"absent", "pending"} => OwnersOf(r)' = {}
             /\ Cardinality(OwnersOf(r)') <=
                    slow'[r] + IF run'[r].status = "running" /\ run'[r].stale THEN 0 ELSE 1
             /\ run'[r].status \in Verdicts => OwnersOf(r)' = {} \/ slow'[r] > 0
    <2>1. slow[r] \in Nat /\ Cardinality(OwnersOf(r)) \in Nat
        BY OwnersFinite, ConstantsAssumption DEF IInv, TypeOK
    <2>2. Cardinality(OwnersOf(r)) <=
              slow[r] + IF run[r].status = "running" /\ run[r].stale THEN 0 ELSE 1
        BY DEF IInv, OwnersCounted
    <2>3. Cardinality(OwnersOf(r)) <= slow[r] + 1
        BY <2>1, <2>2
    <2>4. run'[r].status \in {"absent", "pending"} => OwnersOf(r)' = {}
        BY <1>1 DEF IInv, OwnersCounted
    <2>5. Cardinality(OwnersOf(r)') <=
              slow'[r] + IF run'[r].status = "running" /\ run'[r].stale THEN 0 ELSE 1
        <3>1. CASE run'[r] = run[r]
            BY <3>1, <1>1, <2>2
        <3>2. CASE ~(run'[r].status = "running" /\ run'[r].stale)
            BY <3>2, <1>1, <2>3
        <3> QED BY <3>1, <3>2
    <2>6. run'[r].status \in Verdicts => OwnersOf(r)' = {} \/ slow'[r] > 0
        BY <1>1 DEF IInv, FinishedIsLeft, Verdicts
    <2> QED BY <2>4, <2>5, <2>6
<1> QED BY <1>2 DEF OwnersCounted, FinishedIsLeft

(* Nor does it matter what the last owner writes when it leaves. *)
LEMMA LeavingCounts ==
    ASSUME IInv, NEW o \in Owners, owner[o].run \in Runs,
           owner' = [owner EXCEPT ![o] = Idle],
           slow' = slow,
           \A r \in Runs \ {owner[o].run} : run'[r] = run[r],
           run'[owner[o].run].status \notin {"absent", "pending"}
    PROVE  OwnersCounted' /\ FinishedIsLeft'
<1>1. ASSUME NEW r \in Runs
      PROVE  /\ run'[r].status \in {"absent", "pending"} => OwnersOf(r)' = {}
             /\ Cardinality(OwnersOf(r)') <=
                    slow'[r] + IF run'[r].status = "running" /\ run'[r].stale THEN 0 ELSE 1
             /\ run'[r].status \in Verdicts => OwnersOf(r)' = {} \/ slow'[r] > 0
    <2>1. slow[r] \in Nat /\ Cardinality(OwnersOf(r)) \in Nat
        BY OwnersFinite, ConstantsAssumption DEF IInv, TypeOK
    <2>2. Cardinality(OwnersOf(r)) <=
              slow[r] + IF run[r].status = "running" /\ run[r].stale THEN 0 ELSE 1
        BY DEF IInv, OwnersCounted
    <2>3. CASE r # owner[o].run
        <3>1. OwnersOf(r)' = OwnersOf(r) /\ run'[r] = run[r]
            BY <2>3, OwnerLeaves DEF IInv
        <3> QED BY <3>1, <2>2 DEF IInv, OwnersCounted, FinishedIsLeft
    <2>4. CASE r = owner[o].run
        <3>1. OwnersOf(r)' = OwnersOf(r) \ {o}
            BY <2>4, OwnerLeaves DEF IInv
        <3>2. Cardinality(OwnersOf(r)') = Cardinality(OwnersOf(r)) - 1
            BY <2>4, OwnerLeaves DEF IInv
        <3>3. Cardinality(OwnersOf(r)') <= slow[r]
            BY <3>2, <2>1, <2>2
        <3>4. IsFiniteSet(OwnersOf(r)')
            BY <3>1, OwnersFinite, FS_RemoveElement
        <3>5. OwnersOf(r)' = {} \/ slow[r] > 0
            BY <3>3, <3>4, <2>1, FS_EmptySet, FS_CardinalityType
        <3>6. run'[r].status \notin {"absent", "pending"} /\ slow'[r] = slow[r]
            BY <2>4
        <3>7. Cardinality(OwnersOf(r)') <= slow[r] + 1
            BY <3>2, <3>3, <2>1
        <3> QED BY <3>3, <3>5, <3>6, <3>7, <2>1
    <2> QED BY <2>3, <2>4
<1> QED BY <1>1 DEF OwnersCounted, FinishedIsLeft

-----------------------------------------------------------------------------
(* Targets *)

(* One target of one owner moves; the rest of the owners stays as it is. *)
LEMMA TargetMoves ==
    ASSUME TypeOK, NEW o \in Owners, NEW t \in Targets,
           NEW x \in {"todo", "executing"} \cup Verdicts, NEW a \in 0..(RetryCount + 1),
           SetTarget(o, t, x, a)
    PROVE  /\ owner' \in [Owners -> Owner]
           /\ \A p \in Owners :
                  /\ owner'[p].phase = owner[p].phase
                  /\ owner'[p].run = owner[p].run
           /\ owner'[o].target[t] = [state |-> x, attempt |-> a]
           /\ \A p \in Owners, u \in Targets :
                  p # o \/ u # t => owner'[p].target[u] = owner[p].target[u]
           /\ \A p \in Owners \ {o} : owner'[p] = owner[p]
<1> DEFINE tg == [owner[o].target EXCEPT ![t] = [state |-> x, attempt |-> a]]
<1>1. owner[o] \in Owner /\ owner[o].target \in [Targets -> Target]
    BY DEF TypeOK, Owner
<1>2. [state |-> x, attempt |-> a] \in Target
    BY DEF Target
<1>3. tg \in [Targets -> Target]
    BY <1>1, <1>2
<1>4. [owner[o] EXCEPT !.target = tg] \in Owner
    BY <1>1, <1>3 DEF Owner
<1>5. owner' = [owner EXCEPT ![o] = [owner[o] EXCEPT !.target = tg]]
    BY <1>1 DEF SetTarget, TypeOK
<1>6. owner' \in [Owners -> Owner]
    BY <1>4, <1>5 DEF TypeOK
<1>7. owner'[o] = [owner[o] EXCEPT !.target = tg]
    BY <1>5 DEF TypeOK
<1>8. \A p \in Owners \ {o} : owner'[p] = owner[p]
    BY <1>5 DEF TypeOK
<1>9. /\ owner'[o].phase = owner[o].phase
      /\ owner'[o].run = owner[o].run
      /\ owner'[o].target = tg
    BY <1>7, <1>1 DEF Owner
<1>10. owner'[o].target[t] = [state |-> x, attempt |-> a]
    BY <1>9, <1>1
<1>11. \A u \in Targets : u # t => owner'[o].target[u] = owner[o].target[u]
    BY <1>9, <1>1
<1> QED BY <1>6, <1>8, <1>9, <1>10, <1>11

(* A step of a target keeps the invariant if it takes a target for passed    *)
(* only when it did, executes a key alone, and changes no scenario run that  *)
(* has passed or that somebody else is executing.                            *)
LEMMA TargetKeeps ==
    ASSUME IInv, NEW o \in Owners, NEW t \in Targets,
           NEW x \in {"todo", "executing"} \cup Verdicts, NEW a \in 0..(RetryCount + 1),
           Working(o),
           SetTarget(o, t, x, a),
           UNCHANGED <<run, slow, crashes>>,
           scenario' \in [Keys -> {"absent", "running", "passed", "failed"}],
           executed' \in [Keys -> Nat],
           Counted',
           \A k \in Keys : scenario[k] = "passed" => scenario'[k] = "passed",
           \A p \in Owners, u \in Targets :
               /\ p # o \/ u # t
               /\ owner[p].target[u].state = "executing"
               => scenario'[<<owner[p].run, u, owner[p].target[u].attempt>>] = "running",
           x = "todo" => a <= RetryCount,
           x = "passed" => \E b \in Attempts : scenario'[<<owner[o].run, t, b>>] = "passed",
           x = "executing" =>
               /\ a > 0
               /\ scenario[<<owner[o].run, t, a>>] # "running"
               /\ scenario'[<<owner[o].run, t, a>>] = "running"
    PROVE  IInv'
<1> USE DEF IInv
<1>1. /\ owner' \in [Owners -> Owner]
      /\ \A p \in Owners : owner'[p].phase = owner[p].phase /\ owner'[p].run = owner[p].run
      /\ owner'[o].target[t] = [state |-> x, attempt |-> a]
      /\ \A p \in Owners, u \in Targets :
             p # o \/ u # t => owner'[p].target[u] = owner[p].target[u]
      /\ \A p \in Owners \ {o} : owner'[p] = owner[p]
    BY TargetMoves
<1>2. TypeOK'
    BY <1>1 DEF TypeOK
<1>3. Busy'
    <2>1. \A p \in Owners : owner'[p].phase # "idle" <=> owner'[p].run # None
        BY <1>1 DEF Busy
    <2>2. \A p \in Owners : owner'[p].phase # "working" => owner'[p].target = Idle.target
        BY <1>1 DEF Busy, Working
    <2>3. ASSUME NEW p \in Owners, NEW u \in Targets
          PROVE  /\ owner'[p].target[u].state = "todo" => owner'[p].target[u].attempt <= RetryCount
                 /\ owner'[p].target[u].state = "executing" => owner'[p].target[u].attempt > 0
        <3>1. CASE p = o /\ u = t
            BY <3>1, <1>1
        <3>2. CASE p # o \/ u # t
            BY <3>2, <1>1 DEF Busy
        <3> QED BY <3>1, <3>2
    <2> QED BY <2>1, <2>2, <2>3 DEF Busy, Idle, Targets
<1>4. Executing'
    <2>1. ASSUME NEW p \in Owners, NEW u \in Targets, owner'[p].target[u].state = "executing"
          PROVE  scenario'[<<owner'[p].run, u, owner'[p].target[u].attempt>>] = "running"
        <3>1. CASE p = o /\ u = t
            BY <3>1, <1>1, <2>1
        <3>2. CASE p # o \/ u # t
            BY <3>2, <1>1, <2>1
        <3> QED BY <3>1, <3>2
    <2>2. ASSUME NEW p \in Owners, NEW q \in Owners, NEW u \in Targets,
                 owner'[p].target[u].state = "executing",
                 owner'[q].run = owner'[p].run,
                 owner'[q].target[u].state = "executing",
                 owner'[q].target[u].attempt = owner'[p].target[u].attempt
          PROVE  q = p
        <3>1. CASE u # t \/ (p # o /\ q # o)
            <4>1. owner'[p].target[u] = owner[p].target[u] /\ owner'[q].target[u] = owner[q].target[u]
                BY <3>1, <1>1
            <4>2. /\ owner[p].target[u].state = "executing"
                  /\ owner[q].run = owner[p].run
                  /\ owner[q].target[u].state = "executing"
                  /\ owner[q].target[u].attempt = owner[p].target[u].attempt
                BY <4>1, <2>2, <1>1
            <4>3. \A v \in Owners :
                      /\ owner[v].run = owner[p].run
                      /\ owner[v].target[u].state = "executing"
                      /\ owner[v].target[u].attempt = owner[p].target[u].attempt
                      => v = p
                BY <4>2 DEF Executing
            <4> QED BY <4>2, <4>3
        <3>2. CASE u = t /\ p = o /\ q # o
            <4>1. x = "executing" /\ owner[q].run = owner[o].run
                BY <3>2, <2>2, <1>1
            <4>2. owner[q].target[t].state = "executing" /\ owner[q].target[t].attempt = a
                BY <3>2, <2>2, <1>1
            <4>3. scenario[<<owner[o].run, t, a>>] = "running"
                BY <4>1, <4>2 DEF Executing
            <4> QED BY <4>1, <4>3
        <3>3. CASE u = t /\ p # o /\ q = o
            <4>1. x = "executing" /\ owner[p].run = owner[o].run
                BY <3>3, <2>2, <1>1
            <4>2. owner[p].target[t].state = "executing" /\ owner[p].target[t].attempt = a
                BY <3>3, <2>2, <1>1
            <4>3. scenario[<<owner[o].run, t, a>>] = "running"
                BY <4>1, <4>2 DEF Executing
            <4> QED BY <4>1, <4>3
        <3> QED BY <3>1, <3>2, <3>3
    <2> QED BY <2>1, <2>2 DEF Executing, Targets
<1>5. TargetsPassed'
    <2>1. ASSUME NEW p \in Owners, NEW u \in Targets, owner'[p].target[u].state = "passed"
          PROVE  \E b \in Attempts : scenario'[<<owner'[p].run, u, b>>] = "passed"
        <3>1. CASE p = o /\ u = t
            BY <3>1, <1>1, <2>1
        <3>2. CASE p # o \/ u # t
            <4>1. PICK b \in Attempts : scenario[<<owner[p].run, u, b>>] = "passed"
                BY <3>2, <2>1, <1>1 DEF TargetsPassed, HasPassed
            <4>2. owner[p].run \in Runs
                <5>1. owner[p].target[u].state # "todo"
                    BY <3>2, <2>1, <1>1
                <5>2. owner[p].phase = "working"
                    BY <5>1 DEF Busy, Idle
                <5> QED BY <5>2 DEF Busy, TypeOK, Owner
            <4>3. <<owner[p].run, u, b>> \in Keys
                BY <4>2 DEF Keys
            <4> QED BY <4>1, <4>3, <1>1
        <3> QED BY <3>1, <3>2
    <2> QED BY <2>1 DEF TargetsPassed, HasPassed, Targets, Attempts
<1>6. PassedIsTrue'
    <2>1. ASSUME NEW r \in Runs, run'[r].status = "passed", NEW u \in Targets
          PROVE  \E b \in Attempts : scenario'[<<r, u, b>>] = "passed"
        <3>1. PICK b \in Attempts : scenario[<<r, u, b>>] = "passed"
            BY <2>1 DEF PassedIsTrue
        <3>2. <<r, u, b>> \in Keys
            BY DEF Keys
        <3> QED BY <3>1, <3>2
    <2> QED BY <2>1 DEF PassedIsTrue, Targets, Attempts
<1>7. OwnersCounted' /\ FinishedIsLeft'
    BY <1>1, <1>2, OwnersStay
<1> QED BY <1>2, <1>3, <1>4, <1>5, <1>6, <1>7

-----------------------------------------------------------------------------
(* Owners *)

(* An idle owner is one. *)
LEMMA IdleTyped == Idle \in Owner
BY ConstantsAssumption DEF Idle, Owner, Target, Statuses, Verdicts

(* An owner that leaves keeps the invariant, if what it writes to its run is *)
(* a verdict, and "passed" only when its targets have.                       *)
LEMMA LeavingKeeps ==
    ASSUME IInv, NEW o \in Owners, owner[o].run \in Runs,
           owner' = [owner EXCEPT ![o] = Idle],
           UNCHANGED <<scenario, executed, slow>>,
           crashes' \in 0..MaxCrashes,
           run' \in [Runs -> Run],
           \A r \in Runs \ {owner[o].run} : run'[r] = run[r],
           run'[owner[o].run].status \in Verdicts \cup {run[owner[o].run].status},
           run'[owner[o].run].status = "passed" =>
               \/ run[owner[o].run].status = "passed"
               \/ \A t \in Targets : owner[o].target[t].state = "passed"
    PROVE  IInv'
<1> USE DEF IInv
<1>1. Idle \in Owner /\ \A t \in Targets : Idle.target[t] = [state |-> "todo", attempt |-> 0]
    BY IdleTyped DEF Idle
<1>2. /\ owner' \in [Owners -> Owner]
      /\ owner'[o] = Idle
      /\ \A p \in Owners \ {o} : owner'[p] = owner[p]
    BY <1>1 DEF TypeOK
<1>3. TypeOK'
    BY <1>2 DEF TypeOK
<1>4. Busy'
    <2>1. ASSUME NEW p \in Owners
          PROVE  /\ owner'[p].phase # "idle" <=> owner'[p].run # None
                 /\ owner'[p].phase # "working" => owner'[p].target = Idle.target
                 /\ \A t \in Targets :
                       /\ owner'[p].target[t].state = "todo" =>
                              owner'[p].target[t].attempt <= RetryCount
                       /\ owner'[p].target[t].state = "executing" =>
                              owner'[p].target[t].attempt > 0
        <3>1. CASE p = o
            BY <3>1, <1>1, <1>2, ConstantsAssumption DEF Idle
        <3>2. CASE p # o
            BY <3>2, <1>2 DEF Busy
        <3> QED BY <3>1, <3>2
    <2> QED BY <2>1 DEF Busy, Idle, Targets
<1>5. \A p \in Owners, t \in Targets :
          owner'[p].target[t].state # "todo" => p # o /\ owner'[p] = owner[p]
    BY <1>1, <1>2
<1>6. Counted'
    BY DEF Counted, Keys, Targets, Attempts
<1>7. Executing'
    BY <1>5 DEF Executing, Targets
<1>8. TargetsPassed'
    BY <1>5 DEF TargetsPassed, HasPassed, Targets, Attempts
<1>9. PassedIsTrue'
    <2>1. ASSUME NEW r \in Runs, run'[r].status = "passed", NEW t \in Targets
          PROVE  \E b \in Attempts : scenario'[<<r, t, b>>] = "passed"
        <3>1. CASE run[r].status = "passed"
            BY <3>1 DEF PassedIsTrue
        <3>2. CASE run[r].status # "passed"
            <4>1. r = owner[o].run /\ owner[o].target[t].state = "passed"
                BY <3>2, <2>1
            <4> QED BY <4>1 DEF TargetsPassed, HasPassed
        <3> QED BY <3>1, <3>2
    <2> QED BY <2>1 DEF PassedIsTrue, Targets, Attempts
<1>10. run[owner[o].run].status \notin {"absent", "pending"}
    <2>1. o \in OwnersOf(owner[o].run)
        BY DEF OwnersOf
    <2> QED BY <2>1 DEF OwnersCounted
<1>11. OwnersCounted' /\ FinishedIsLeft'
    <2>1. run'[owner[o].run].status \notin {"absent", "pending"}
        BY <1>10 DEF Verdicts
    <2> QED BY <2>1, LeavingCounts
<1> QED BY <1>3, <1>4, <1>6, <1>7, <1>8, <1>9, <1>11

(* A step that touches no target keeps what is known of the scenarios, if it *)
(* lets no run pass.                                                         *)
LEMMA TargetsStay ==
    ASSUME IInv,
           UNCHANGED <<scenario, executed>>,
           \A p \in Owners :
               /\ owner'[p].run = owner[p].run \/ owner'[p].target = Idle.target
               /\ owner'[p].target = owner[p].target \/ owner'[p].target = Idle.target,
           \A r \in Runs : run'[r].status = "passed" => run[r].status = "passed"
    PROVE  Counted' /\ Executing' /\ TargetsPassed' /\ PassedIsTrue'
<1> USE DEF IInv
<1>1. \A t \in Targets : Idle.target[t].state = "todo"
    BY DEF Idle
<1>2. \A p \in Owners, t \in Targets :
          owner'[p].target[t].state # "todo" =>
              owner'[p].run = owner[p].run /\ owner'[p].target = owner[p].target
    BY <1>1
<1>3. Counted'
    BY DEF Counted, Keys, Targets, Attempts
<1>4. Executing'
    BY <1>2 DEF Executing, Targets
<1>5. TargetsPassed'
    BY <1>2 DEF TargetsPassed, HasPassed, Targets, Attempts
<1>6. PassedIsTrue'
    BY DEF PassedIsTrue, Targets, Attempts
<1> QED BY <1>3, <1>4, <1>5, <1>6

(* A working owner has a run that exists, or existed. *)
LEMMA HasRun ==
    ASSUME IInv, NEW o \in Owners, owner[o].phase # "idle"
    PROVE  /\ owner[o].run \in Runs
           /\ run[owner[o].run].status \notin {"absent", "pending"}
<1>1. owner[o].run \in Runs
    BY DEF IInv, Busy, TypeOK, Owner
<1>2. o \in OwnersOf(owner[o].run)
    BY DEF OwnersOf
<1> QED BY <1>1, <1>2 DEF IInv, OwnersCounted

-----------------------------------------------------------------------------
(* The invariant is inductive. *)

(* The initial states satisfy IInv. *)
LEMMA InitIInv == Init => IInv
<1> SUFFICES ASSUME Init PROVE IInv
    OBVIOUS
<1>1. Idle \in Owner /\ Absent \in Run
    BY IdleTyped DEF Absent, Run, Statuses, Modes
<1>2. TypeOK
    BY <1>1, ConstantsAssumption DEF Init, TypeOK
<1>3. \A r \in Runs : OwnersOf(r) = {}
    BY ConstantsAssumption DEF Init, OwnersOf, Idle
<1>4. Busy
    BY ConstantsAssumption DEF Init, Busy, Idle
<1>5. Counted
    BY DEF Init, Counted
<1>6. Executing /\ TargetsPassed
    BY DEF Init, Executing, TargetsPassed, Idle
<1>7. PassedIsTrue /\ FinishedIsLeft
    BY DEF Init, PassedIsTrue, FinishedIsLeft, Absent, Verdicts
<1>8. OwnersCounted
    <2>1. \A r \in Runs : Cardinality(OwnersOf(r)) = 0
        BY <1>3, FS_EmptySet
    <2>2. \A r \in Runs : slow[r] = 0 /\ run[r].status = "absent"
        BY DEF Init, Absent
    <2> QED BY <1>3, <2>1, <2>2 DEF OwnersCounted
<1> QED BY <1>2, <1>4, <1>5, <1>6, <1>7, <1>8 DEF IInv

(* Attempts to come, and the key of the next one. *)
LEMMA NextAttempt ==
    ASSUME IInv, NEW o \in Owners, NEW t \in Targets, Turn(o, t)
    PROVE  /\ owner[o].target[t].attempt + 1 \in Attempts
           /\ owner[o].target[t].attempt + 1 \in 0..(RetryCount + 1)
           /\ owner[o].target[t].attempt \in 0..(RetryCount + 1)
           /\ owner[o].target[t].attempt + 1 > 0
           /\ owner[o].run \in Runs
           /\ Working(o)
           /\ NextKey(o, t) = <<owner[o].run, t, owner[o].target[t].attempt + 1>>
           /\ NextKey(o, t) \in Keys
<1>1. Working(o) /\ owner[o].target[t].state = "todo"
    BY DEF Turn
<1>2. owner[o].run \in Runs
    BY <1>1, HasRun DEF Working
<1>3. owner[o].target[t].attempt \in Nat /\ owner[o].target[t].attempt <= RetryCount
    BY <1>1, ConstantsAssumption DEF IInv, Busy, TypeOK, Owner, Target
<1> QED BY <1>1, <1>2, <1>3, ConstantsAssumption DEF NextKey, Keys, Attempts

(* An attempt that did not pass is the last one, or there is another. *)
LEMMA FailedTyped ==
    ASSUME NEW a \in Attempts
    PROVE  /\ Failed(a) \in {"todo", "failed"}
           /\ Failed(a) = "todo" => a <= RetryCount
BY ConstantsAssumption DEF Failed, Attempts

(* The steps of a target. *)
LEMMA TargetSteps ==
    ASSUME IInv, NEW o \in Owners, NEW t \in Targets,
           \/ TimeOut(o, t)
           \/ Attempt(o, t)
           \/ AttemptFound(o, t)
           \/ AttemptRefused(o, t)
           \/ \E verdict \in {"passed", "failed"} : AttemptEnds(o, t, verdict)
           \/ \E left \in {"running", "passed", "failed"} : AttemptRaises(o, t, left)
    PROVE  IInv'
<1> USE DEF IInv
<1> DEFINE a == owner[o].target[t].attempt
           k == <<owner[o].run, t, a + 1>>
           e == <<owner[o].run, t, a>>
<1>1. UNCHANGED <<scenario, executed>> => Counted'
    BY DEF Counted, Keys, Targets, Attempts
<1>2. \A p \in Owners, u \in Targets :
          owner[p].target[u].state = "executing" =>
              scenario[<<owner[p].run, u, owner[p].target[u].attempt>>] = "running"
    BY DEF Executing
<1>3. CASE TimeOut(o, t)
    <2>1. SetTarget(o, t, "timeout", a) /\ Turn(o, t)
        BY <1>3 DEF TimeOut
    <2>2. a \in 0..(RetryCount + 1) /\ Working(o)
        BY <2>1, NextAttempt
    <2>3. UNCHANGED <<run, scenario, executed, slow, crashes>>
        BY <1>3 DEF TimeOut
    <2> QED BY <1>1, <1>2, <2>1, <2>2, <2>3, TargetKeeps DEF Verdicts, TypeOK
<1>4. CASE Attempt(o, t)
    <2>1. Turn(o, t)
        BY <1>4 DEF Attempt
    <2>2. k \in Keys /\ NextKey(o, t) = k /\ a + 1 \in 0..(RetryCount + 1) /\ a + 1 > 0 /\ Working(o)
        BY <2>1, NextAttempt
    <2>3. /\ scenario[k] = "absent"
          /\ scenario' = [scenario EXCEPT ![k] = "running"]
          /\ executed' = [executed EXCEPT ![k] = @ + 1]
          /\ SetTarget(o, t, "executing", a + 1)
          /\ UNCHANGED <<run, slow, crashes>>
        BY <1>4, <2>2 DEF Attempt, Free
    <2>4. /\ scenario' \in [Keys -> {"absent", "running", "passed", "failed"}]
          /\ executed' \in [Keys -> Nat]
          /\ scenario'[k] = "running"
          /\ \A j \in Keys : scenario[j] = "passed" => scenario'[j] = "passed"
          /\ \A j : scenario[j] = "running" => j = k \/ scenario'[j] = scenario[j]
        BY <2>2, <2>3 DEF TypeOK
    <2>5. Counted'
        <3>1. \A j \in Keys : executed'[j] = IF scenario'[j] = "absent" THEN 0 ELSE 1
            BY <2>2, <2>3 DEF Counted, TypeOK
        <3> QED BY <3>1 DEF Counted, Keys, Targets, Attempts
    <2>6. \A p \in Owners, u \in Targets :
              owner[p].target[u].state = "executing" =>
                  scenario'[<<owner[p].run, u, owner[p].target[u].attempt>>] = "running"
        BY <1>2, <2>4
    <2>7. /\ scenario[<<owner[o].run, t, a + 1>>] # "running"
          /\ scenario'[<<owner[o].run, t, a + 1>>] = "running"
        BY <2>3, <2>4
    <2>8. UNCHANGED <<run, slow, crashes>> /\ SetTarget(o, t, "executing", a + 1)
        BY <2>3
    <2> HIDE DEF a, k
    <2>9. "executing" \in {"todo", "executing"} \cup Verdicts
        OBVIOUS
    <2> QED BY <2>2, <2>4, <2>5, <2>6, <2>7, <2>8, <2>9, TargetKeeps
<1>5. CASE AttemptFound(o, t)
    <2>1. Turn(o, t)
        BY <1>5 DEF AttemptFound
    <2>2. /\ k \in Keys
          /\ NextKey(o, t) = k
          /\ a + 1 \in 0..(RetryCount + 1)
          /\ a + 1 \in Attempts
          /\ Working(o)
        BY <2>1, NextAttempt
    <2>3. /\ SetTarget(o, t, FoundVerdict(k), a + 1)
          /\ UNCHANGED <<run, scenario, executed, slow, crashes>>
        BY <1>5, <2>2 DEF AttemptFound
    <2>4. /\ FoundVerdict(k) \in {"todo", "passed", "failed"}
          /\ FoundVerdict(k) = "todo" => a + 1 <= RetryCount
          /\ FoundVerdict(k) = "passed" => scenario[k] = "passed"
        BY <2>2, FailedTyped DEF FoundVerdict
    <2>5. FoundVerdict(k) = "passed" =>
              \E b \in Attempts : scenario'[<<owner[o].run, t, b>>] = "passed"
        BY <2>2, <2>3, <2>4
    <2> QED BY <1>1, <1>2, <2>2, <2>3, <2>4, <2>5, TargetKeeps DEF Verdicts, TypeOK
<1>6. CASE AttemptRefused(o, t)
    <2>1. Turn(o, t)
        BY <1>6 DEF AttemptRefused
    <2>2. a + 1 \in 0..(RetryCount + 1) /\ a + 1 \in Attempts /\ Working(o)
        BY <2>1, NextAttempt
    <2>3. /\ SetTarget(o, t, Failed(a + 1), a + 1)
          /\ UNCHANGED <<run, scenario, executed, slow, crashes>>
        BY <1>6 DEF AttemptRefused
    <2>4. /\ Failed(a + 1) \in {"todo", "failed"}
          /\ Failed(a + 1) = "todo" => a + 1 <= RetryCount
        BY <2>2, FailedTyped
    <2> QED BY <1>1, <1>2, <2>2, <2>3, <2>4, TargetKeeps DEF Verdicts, TypeOK
<1>7. ASSUME NEW v \in {"running", "passed", "failed"},
             NEW x \in {"todo", "passed", "failed"},
             Working(o),
             owner[o].target[t].state = "executing",
             scenario' = [scenario EXCEPT ![e] = v],
             SetTarget(o, t, x, a),
             x = "passed" => v = "passed",
             x # "passed" => x = Failed(a),
             UNCHANGED <<run, executed, slow, crashes>>
      PROVE  IInv'
    <2>1. owner[o].run \in Runs
        BY <1>7, HasRun DEF Working
    <2>2. a \in Attempts /\ a \in 0..(RetryCount + 1)
        BY <1>7, ConstantsAssumption DEF Busy, TypeOK, Owner, Target, Attempts
    <2>3. e \in Keys
        BY <2>1, <2>2 DEF Keys
    <2>4. scenario[e] = "running"
        BY <1>7, <1>2
    <2>5. /\ scenario' \in [Keys -> {"absent", "running", "passed", "failed"}]
          /\ scenario'[e] = v
          /\ \A j \in Keys : scenario[j] = "passed" => scenario'[j] = "passed"
          /\ \A j : j # e => scenario'[j] = scenario[j]
        BY <1>7, <2>3, <2>4 DEF TypeOK
    <2>6. Counted'
        <3>1. \A j \in Keys : executed'[j] = IF scenario'[j] = "absent" THEN 0 ELSE 1
            BY <1>7, <2>3, <2>4, <2>5 DEF Counted
        <3> QED BY <3>1 DEF Counted, Keys, Targets, Attempts
    <2>7. ASSUME NEW p \in Owners, NEW u \in Targets,
                 p # o \/ u # t,
                 owner[p].target[u].state = "executing"
          PROVE  scenario'[<<owner[p].run, u, owner[p].target[u].attempt>>] = "running"
        <3>1. scenario[<<owner[p].run, u, owner[p].target[u].attempt>>] = "running"
            BY <2>7, <1>2
        <3>2. <<owner[p].run, u, owner[p].target[u].attempt>> # e
            <4>1. SUFFICES ASSUME owner[p].run = owner[o].run, u = t,
                                  owner[p].target[t].attempt = a
                           PROVE  FALSE
                OBVIOUS
            <4>2. \A q \in Owners :
                      /\ owner[q].run = owner[o].run
                      /\ owner[q].target[t].state = "executing"
                      /\ owner[q].target[t].attempt = a
                      => q = o
                BY <1>7 DEF Executing
            <4> QED BY <4>1, <4>2, <2>7
        <3> QED BY <3>1, <3>2, <2>5
    <2>8. x = "todo" => a <= RetryCount
        BY <1>7, <2>2, FailedTyped
    <2>9. x = "passed" => \E b \in Attempts : scenario'[<<owner[o].run, t, b>>] = "passed"
        BY <1>7, <2>2, <2>5
    <2>10. executed' \in [Keys -> Nat]
        BY <1>7 DEF TypeOK
    <2>11. x \in {"todo", "executing"} \cup Verdicts /\ x # "executing"
        BY <1>7 DEF Verdicts
    <2>12. Working(o) /\ SetTarget(o, t, x, a) /\ UNCHANGED <<run, slow, crashes>>
        BY <1>7
    <2>13. \A p \in Owners, u \in Targets :
               /\ p # o \/ u # t
               /\ owner[p].target[u].state = "executing"
               => scenario'[<<owner[p].run, u, owner[p].target[u].attempt>>] = "running"
        BY <2>7
    <2> HIDE DEF a, e
    <2> QED BY <2>2, <2>5, <2>6, <2>8, <2>9, <2>10, <2>11, <2>12, <2>13, TargetKeeps
<1>9. CASE \E verdict \in {"passed", "failed"} : AttemptEnds(o, t, verdict)
    <2>1. PICK verdict \in {"passed", "failed"} : AttemptEnds(o, t, verdict)
        BY <1>9
    <2> DEFINE x == IF verdict = "passed" THEN "passed" ELSE Failed(a)
    <2>2. x \in {"todo", "passed", "failed"} /\ (x = "passed" => verdict = "passed")
        BY DEF Failed
    <2>3. x # "passed" => x = Failed(a)
        OBVIOUS
    <2>4. /\ Working(o)
          /\ owner[o].target[t].state = "executing"
          /\ scenario' = [scenario EXCEPT ![e] = verdict]
          /\ SetTarget(o, t, x, a)
          /\ UNCHANGED <<run, executed, slow, crashes>>
        BY <2>1 DEF AttemptEnds
    <2> HIDE DEF x, a, e
    <2> QED BY <2>2, <2>3, <2>4, <1>7
<1>10. CASE \E left \in {"running", "passed", "failed"} : AttemptRaises(o, t, left)
    <2>1. PICK left \in {"running", "passed", "failed"} : AttemptRaises(o, t, left)
        BY <1>10
    <2>2. /\ Working(o)
          /\ owner[o].target[t].state = "executing"
          /\ scenario' = [scenario EXCEPT ![e] = left]
          /\ SetTarget(o, t, Failed(a), a)
          /\ UNCHANGED <<run, executed, slow, crashes>>
        BY <2>1 DEF AttemptRaises
    <2>3. Failed(a) \in {"todo", "passed", "failed"} /\ Failed(a) # "passed"
        BY DEF Failed
    <2> HIDE DEF a, e
    <2> QED BY <2>2, <2>3, <1>7
<1> QED BY <1>3, <1>4, <1>5, <1>6, <1>9, <1>10

(* Whoever leaves: without an operator, with a verdict, from an exception    *)
(* handler, or because its process died.                                     *)
LEMMA LeavingSteps ==
    ASSUME IInv, NEW o \in Owners, NoOperator(o) \/ Finish(o) \/ Handle(o) \/ Crash(o)
    PROVE  IInv'
<1> USE DEF IInv
<1>1. owner[o].phase # "idle"
    BY DEF NoOperator, Finish, Handle, Crash, Working
<1>2. owner[o].run \in Runs /\ run \in [Runs -> Run] /\ crashes \in 0..MaxCrashes
    BY <1>1, HasRun DEF TypeOK
<1>3. ASSUME NEW x \in Verdicts,
             run' = [run EXCEPT ![owner[o].run].status = x]
      PROVE  /\ run' \in [Runs -> Run]
             /\ \A r \in Runs \ {owner[o].run} : run'[r] = run[r]
             /\ run'[owner[o].run].status = x
    <2>1. [run[owner[o].run] EXCEPT !.status = x] \in Run
        BY <1>2 DEF Run, Statuses
    <2> QED BY <1>2, <1>3, <2>1 DEF Run
<1>4. CASE NoOperator(o)
    <2>1. /\ run' = [run EXCEPT ![owner[o].run].status = "failed"]
          /\ owner' = [owner EXCEPT ![o] = Idle]
          /\ UNCHANGED <<scenario, executed, slow, crashes>>
        BY <1>4 DEF NoOperator
    <2>2. "failed" \in Verdicts
        BY DEF Verdicts
    <2> QED BY <1>2, <1>3, <2>1, <2>2, LeavingKeeps
<1>5. CASE Finish(o)
    <2>1. /\ run' = [run EXCEPT ![owner[o].run].status = Verdict(o)]
          /\ owner' = [owner EXCEPT ![o] = Idle]
          /\ UNCHANGED <<scenario, executed, slow, crashes>>
        BY <1>5 DEF Finish
    <2>2. Verdict(o) \in Verdicts
        BY DEF Verdict, Verdicts
    <2>3. Verdict(o) = "passed" => \A t \in Targets : owner[o].target[t].state = "passed"
        BY DEF Verdict
    <2> QED BY <1>2, <1>3, <2>1, <2>2, <2>3, LeavingKeeps
<1>6. CASE Handle(o)
    <2>1. /\ \/ run' = [run EXCEPT ![owner[o].run].status = "failed"]
             \/ run' = run
          /\ owner' = [owner EXCEPT ![o] = Idle]
          /\ UNCHANGED <<scenario, executed, slow, crashes>>
        BY <1>6 DEF Handle
    <2>2. "failed" \in Verdicts /\ "failed" # "passed"
        BY DEF Verdicts
    <2>3. CASE run' = run
        BY <1>2, <2>1, <2>3, LeavingKeeps
    <2>4. CASE run' = [run EXCEPT ![owner[o].run].status = "failed"]
        BY <1>2, <1>3, <2>1, <2>2, <2>4, LeavingKeeps
    <2> QED BY <2>1, <2>3, <2>4
<1>7. CASE Crash(o)
    <2>1. /\ run' = run
          /\ owner' = [owner EXCEPT ![o] = Idle]
          /\ UNCHANGED <<scenario, executed, slow>>
          /\ crashes' = crashes + 1
          /\ crashes < MaxCrashes
        BY <1>7 DEF Crash
    <2>2. crashes' \in 0..MaxCrashes
        BY <1>2, <2>1, ConstantsAssumption
    <2> QED BY <1>2, <2>1, <2>2, LeavingKeeps
<1> QED BY <1>4, <1>5, <1>6, <1>7

(* What others do to a run. *)
LEMMA RunSteps ==
    ASSUME IInv, NEW r \in Runs,
           (\E mode \in Modes : Create(r, mode)) \/ Delete(r) \/ HeartbeatAges(r)
    PROVE  IInv'
<1> USE DEF IInv
<1>1. run \in [Runs -> Run] /\ slow \in [Runs -> 0..MaxSlow]
    BY DEF TypeOK
<1>2. UNCHANGED <<scenario, executed, owner, crashes>>
    BY DEF Create, Delete, HeartbeatAges
<1>3. PICK row \in Run :
          /\ run' = [run EXCEPT ![r] = row]
          /\ row.status = "passed" => run[r].status = "passed"
          /\ \/ row.status = "deleted" /\ slow' = slow
             \/ run[r].status = "absent" /\ row.status = "pending" /\ slow' = slow
             \/ HeartbeatAges(r) /\ row = [run[r] EXCEPT !.stale = TRUE]
    <2>1. CASE \E mode \in Modes : Create(r, mode)
        <3>1. PICK mode \in Modes : Create(r, mode)
            BY <2>1
        <3>2. [status |-> "pending", stale |-> FALSE, mode |-> mode] \in Run
            BY DEF Run, Statuses
        <3> QED BY <3>1, <3>2 DEF Create
    <2>2. CASE Delete(r)
        <3>1. [run[r] EXCEPT !.status = "deleted"] \in Run
            BY <1>1 DEF Run, Statuses
        <3>2. run' = [run EXCEPT ![r] = [run[r] EXCEPT !.status = "deleted"]] /\ slow' = slow
            BY <2>2 DEF Delete
        <3>3. [run[r] EXCEPT !.status = "deleted"].status = "deleted"
            BY <1>1 DEF Run
        <3> QED BY <3>1, <3>2, <3>3
    <2>3. CASE HeartbeatAges(r)
        <3>1. [run[r] EXCEPT !.stale = TRUE] \in Run
            BY <1>1 DEF Run
        <3>2. run' = [run EXCEPT ![r] = [run[r] EXCEPT !.stale = TRUE]]
            BY <2>3 DEF HeartbeatAges
        <3>3. [run[r] EXCEPT !.stale = TRUE].status = run[r].status
            BY <1>1 DEF Run
        <3> QED BY <2>3, <3>1, <3>2, <3>3
    <2> QED BY <2>1, <2>2, <2>3
<1>4. slow' \in [Runs -> 0..MaxSlow]
    <2>1. CASE slow' = slow
        BY <2>1, <1>1
    <2>2. CASE HeartbeatAges(r)
        BY <2>2, <1>1, ConstantsAssumption DEF HeartbeatAges
    <2> QED BY <1>3, <2>1, <2>2
<1>5. TypeOK'
    BY <1>1, <1>2, <1>3, <1>4 DEF TypeOK
<1>6. Busy'
    BY <1>2 DEF Busy, Idle, Targets
<1>7. Counted' /\ Executing' /\ TargetsPassed' /\ PassedIsTrue'
    BY <1>1, <1>2, <1>3, TargetsStay
<1>8. OwnersCounted' /\ FinishedIsLeft'
    <2>1. CASE slow' = slow /\ row.status \in {"deleted", "pending"} /\
               (row.status = "pending" => run[r].status = "absent")
        BY <2>1, <1>1, <1>2, <1>3, <1>5, OwnersStay
    <2>2. CASE HeartbeatAges(r) /\ row = [run[r] EXCEPT !.stale = TRUE]
        <3>1. /\ run[r].status = "running" /\ ~run[r].stale
              /\ IF OwnersOf(r) = {} THEN UNCHANGED slow
                                     ELSE slow' = [slow EXCEPT ![r] = @ + 1]
            BY <2>2 DEF HeartbeatAges
        <3>2. \A q \in Runs : OwnersOf(q)' = OwnersOf(q)
            BY <1>2 DEF OwnersOf
        <3>3. \A q \in Runs \ {r} : run'[q] = run[q] /\ slow'[q] = slow[q]
            BY <1>1, <1>3, <3>1
        <3>4. run'[r].status = "running"
            BY <1>1, <1>3, <2>2, <3>1 DEF Run
        <3>5. Cardinality(OwnersOf(r)) <= slow'[r]
            <4>1. Cardinality(OwnersOf(r)) <= slow[r] + 1
                BY <3>1 DEF OwnersCounted
            <4>2. CASE OwnersOf(r) = {}
                BY <4>2, <3>1, <1>1, FS_EmptySet, ConstantsAssumption
            <4>3. CASE OwnersOf(r) # {}
                BY <4>1, <4>3, <3>1, <1>1
            <4> QED BY <4>2, <4>3
        <3>6. slow'[r] \in Nat /\ Cardinality(OwnersOf(r)) \in Nat
            BY <1>4, OwnersFinite, ConstantsAssumption
        <3>7. OwnersCounted'
            <4>1. ASSUME NEW q \in Runs
                  PROVE  /\ run'[q].status \in {"absent", "pending"} => OwnersOf(q)' = {}
                         /\ Cardinality(OwnersOf(q)') <=
                                slow'[q] + IF run'[q].status = "running" /\ run'[q].stale
                                           THEN 0 ELSE 1
                <5>1. CASE q = r
                    BY <5>1, <3>2, <3>4, <3>5, <3>6
                <5>2. CASE q # r
                    BY <5>2, <3>2, <3>3 DEF OwnersCounted
                <5> QED BY <5>1, <5>2
            <4> QED BY <4>1 DEF OwnersCounted
        <3>8. FinishedIsLeft'
            BY <3>2, <3>3, <3>4 DEF FinishedIsLeft, Verdicts
        <3> QED BY <3>7, <3>8
    <2> QED BY <1>3, <2>1, <2>2
<1> QED BY <1>5, <1>6, <1>7, <1>8

(* An owner takes a run: nobody has it, or its owners have paid for a stale  *)
(* heartbeat.                                                                *)
LEMMA ClaimStep ==
    ASSUME IInv, NEW o \in Owners, NEW r \in Runs, Claim(o, r)
    PROVE  IInv'
<1> USE DEF IInv
<1> DEFINE new == [Idle EXCEPT !.phase = "working", !.run = r]
<1>1. /\ owner[o].phase = "idle"
      /\ run[r].status = "pending" \/ (run[r].status = "running" /\ run[r].stale)
      /\ run' = [run EXCEPT ![r].status = "running", ![r].stale = FALSE]
      /\ owner' = [owner EXCEPT ![o] = new]
      /\ UNCHANGED <<scenario, executed, slow, crashes>>
    BY DEF Claim, Claimable
<1>2. new \in Owner /\ new.run = r /\ new.phase = "working" /\ new.target = Idle.target
    <2>1. new \in Owner
        BY IdleTyped DEF Owner
    <2> QED BY <2>1 DEF Idle
<1>3. /\ run' \in [Runs -> Run]
      /\ run'[r].status = "running"
      /\ ~run'[r].stale
      /\ \A q \in Runs \ {r} : run'[q] = run[q]
    BY <1>1 DEF TypeOK, Run, Statuses
<1>4. /\ owner' \in [Owners -> Owner]
      /\ owner'[o] = new
      /\ \A p \in Owners \ {o} : owner'[p] = owner[p]
    BY <1>1, <1>2 DEF TypeOK
<1>5. TypeOK'
    BY <1>1, <1>3, <1>4 DEF TypeOK
<1>6. Busy'
    <2>1. ASSUME NEW p \in Owners
          PROVE  /\ owner'[p].phase # "idle" <=> owner'[p].run # None
                 /\ owner'[p].phase # "working" => owner'[p].target = Idle.target
                 /\ \A t \in Targets :
                       /\ owner'[p].target[t].state = "todo" =>
                              owner'[p].target[t].attempt <= RetryCount
                       /\ owner'[p].target[t].state = "executing" =>
                              owner'[p].target[t].attempt > 0
        <3>1. CASE p = o
            <4>1. \A t \in Targets : Idle.target[t] = [state |-> "todo", attempt |-> 0]
                BY DEF Idle
            <4> QED BY <3>1, <4>1, <1>2, <1>4, ConstantsAssumption
        <3>2. CASE p # o
            BY <3>2, <1>4 DEF Busy
        <3> QED BY <3>1, <3>2
    <2> QED BY <2>1 DEF Busy, Idle, Targets
<1>7. Counted' /\ Executing' /\ TargetsPassed' /\ PassedIsTrue'
    <2>1. \A p \in Owners :
              /\ owner'[p].run = owner[p].run \/ owner'[p].target = Idle.target
              /\ owner'[p].target = owner[p].target \/ owner'[p].target = Idle.target
        BY <1>2, <1>4
    <2>2. \A q \in Runs : run'[q].status = "passed" => run[q].status = "passed"
        BY <1>3
    <2> QED BY <1>1, <2>1, <2>2, TargetsStay
<1>8. OwnersCounted' /\ FinishedIsLeft'
    <2>1. owner[o].run = None
        BY <1>1 DEF Busy
    <2>2. \A p \in Owners : owner'[p].run = IF p = o THEN r ELSE owner[p].run
        BY <1>2, <1>4
    <2>3. \A q \in Runs \ {r} : OwnersOf(q)' = OwnersOf(q)
        BY <2>1, <2>2, ConstantsAssumption DEF OwnersOf
    <2>4. OwnersOf(r)' = OwnersOf(r) \cup {o}
        BY <2>2 DEF OwnersOf
    <2>5. o \notin OwnersOf(r)
        BY <2>1, ConstantsAssumption DEF OwnersOf
    <2>6. Cardinality(OwnersOf(r)') = Cardinality(OwnersOf(r)) + 1
        BY <2>4, <2>5, OwnersFinite, FS_AddElement
    <2>7. Cardinality(OwnersOf(r)) \in Nat /\ slow[r] \in Nat
        BY OwnersFinite, ConstantsAssumption DEF TypeOK
    <2>8. Cardinality(OwnersOf(r)) <= slow[r]
        <3>1. CASE run[r].status = "pending"
            <4>1. OwnersOf(r) = {}
                BY <3>1 DEF OwnersCounted
            <4>2. Cardinality(OwnersOf(r)) = 0
                BY <4>1, FS_EmptySet
            <4> QED BY <4>2, <2>7
        <3>2. CASE run[r].status = "running" /\ run[r].stale
            BY <3>2, <2>7 DEF OwnersCounted
        <3> QED BY <1>1, <3>1, <3>2
    <2>9. OwnersCounted'
        <3>1. ASSUME NEW q \in Runs
              PROVE  /\ run'[q].status \in {"absent", "pending"} => OwnersOf(q)' = {}
                     /\ Cardinality(OwnersOf(q)') <=
                            slow'[q] + IF run'[q].status = "running" /\ run'[q].stale
                                       THEN 0 ELSE 1
            <4>1. CASE q = r
                BY <4>1, <1>1, <1>3, <2>6, <2>7, <2>8
            <4>2. CASE q # r
                BY <4>2, <1>1, <1>3, <2>3 DEF OwnersCounted
            <4> QED BY <4>1, <4>2
        <3> QED BY <3>1 DEF OwnersCounted
    <2>10. FinishedIsLeft'
        BY <1>1, <1>3, <2>3 DEF FinishedIsLeft, Verdicts
    <2> QED BY <2>9, <2>10
<1> QED BY <1>5, <1>6, <1>7, <1>8

(* An owner goes on with its run: a heartbeat, the deadline, an exception. *)
LEMMA OwnerSteps ==
    ASSUME IInv, NEW o \in Owners, Heartbeat(o) \/ DeadlinePasses(o) \/ Raise(o)
    PROVE  IInv'
<1> USE DEF IInv
<1>1. Working(o) /\ UNCHANGED <<scenario, executed, slow, crashes>>
    BY DEF Heartbeat, DeadlinePasses, Raise
<1>2. owner[o].run \in Runs /\ owner[o] \in Owner /\ run \in [Runs -> Run]
    BY <1>1, HasRun DEF Working, TypeOK
<1>3. PICK new \in Owner :
          /\ owner' = [owner EXCEPT ![o] = new]
          /\ new.run = owner[o].run
          /\ new.phase # "idle"
          /\ new.target = owner[o].target \/ new.target = Idle.target
          /\ new.phase # "working" => new.target = Idle.target
    <2>1. CASE Heartbeat(o)
        <3> DEFINE t == owner[o].done + 1
                   d == IF owner[o].target[t].state # "passed" /\ MyRun(o).mode = "serial_stop"
                        THEN NumTargets ELSE t
        <3>1. owner' = [owner EXCEPT ![o].done = d] /\ t \in Targets
            BY <2>1 DEF Heartbeat
        <3>2. d \in 0..NumTargets
            BY <3>1, ConstantsAssumption DEF Targets
        <3> HIDE DEF d
        <3>3. [owner[o] EXCEPT !.done = d] \in Owner
            BY <1>2, <3>2 DEF Owner
        <3>4. /\ [owner[o] EXCEPT !.done = d].run = owner[o].run
              /\ [owner[o] EXCEPT !.done = d].phase = owner[o].phase
              /\ [owner[o] EXCEPT !.done = d].target = owner[o].target
            BY <1>2 DEF Owner
        <3> QED BY <1>1, <3>1, <3>3, <3>4 DEF Working
    <2>2. CASE DeadlinePasses(o)
        <3>1. owner' = [owner EXCEPT ![o].late = TRUE]
            BY <2>2 DEF DeadlinePasses
        <3>2. [owner[o] EXCEPT !.late = TRUE] \in Owner
            BY <1>2 DEF Owner
        <3>3. /\ [owner[o] EXCEPT !.late = TRUE].run = owner[o].run
              /\ [owner[o] EXCEPT !.late = TRUE].phase = owner[o].phase
              /\ [owner[o] EXCEPT !.late = TRUE].target = owner[o].target
            BY <1>2 DEF Owner
        <3> QED BY <1>1, <3>1, <3>2, <3>3 DEF Working
    <2>3. CASE Raise(o)
        <3> DEFINE new == [Idle EXCEPT !.phase = "handling", !.run = owner[o].run,
                                       !.saw = MyRun(o).status]
        <3>1. owner' = [owner EXCEPT ![o] = new]
            BY <2>3 DEF Raise
        <3>2. MyRun(o).status \in Statuses
            BY <1>2 DEF MyRun, Run
        <3>3. new \in Owner
            BY <1>2, <3>2, IdleTyped DEF Owner
        <3>4. new.run = owner[o].run /\ new.phase = "handling" /\ new.target = Idle.target
            BY DEF Idle
        <3> QED BY <3>1, <3>3, <3>4
    <2> QED BY <2>1, <2>2, <2>3
<1>4. /\ owner' \in [Owners -> Owner]
      /\ owner'[o] = new
      /\ \A p \in Owners \ {o} : owner'[p] = owner[p]
    BY <1>3 DEF TypeOK
<1>5. run' \in [Runs -> Run] /\ \A r \in Runs :
          \/ run'[r] = run[r]
          \/ run'[r].status = run[r].status /\ ~run'[r].stale
    <2>1. CASE Heartbeat(o)
        <3>1. run' = [run EXCEPT ![owner[o].run].stale = FALSE]
            BY <2>1 DEF Heartbeat
        <3> QED BY <3>1, <1>2 DEF Run
    <2>2. CASE run' = run
        BY <2>2, <1>2
    <2> QED BY <2>1, <2>2 DEF DeadlinePasses, Raise
<1>6. TypeOK'
    BY <1>1, <1>4, <1>5 DEF TypeOK
<1>7. Busy'
    <2>1. owner[o].run # None
        BY <1>2, ConstantsAssumption
    <2>2. \A t \in Targets : Idle.target[t] = [state |-> "todo", attempt |-> 0]
        BY DEF Idle
    <2>3. ASSUME NEW p \in Owners
          PROVE  /\ owner'[p].phase # "idle" <=> owner'[p].run # None
                 /\ owner'[p].phase # "working" => owner'[p].target = Idle.target
                 /\ \A t \in Targets :
                       /\ owner'[p].target[t].state = "todo" =>
                              owner'[p].target[t].attempt <= RetryCount
                       /\ owner'[p].target[t].state = "executing" =>
                              owner'[p].target[t].attempt > 0
        <3>1. CASE p = o
            BY <3>1, <1>3, <1>4, <2>1, <2>2, ConstantsAssumption DEF Busy
        <3>2. CASE p # o
            BY <3>2, <1>4 DEF Busy
        <3> QED BY <3>1, <3>2
    <2> QED BY <2>3 DEF Busy, Idle, Targets
<1>8. Counted' /\ Executing' /\ TargetsPassed' /\ PassedIsTrue'
    <2>1. \A p \in Owners :
              /\ owner'[p].run = owner[p].run
              /\ owner'[p].target = owner[p].target \/ owner'[p].target = Idle.target
        BY <1>3, <1>4
    <2>2. \A q \in Runs : run'[q].status = "passed" => run[q].status = "passed"
        BY <1>5
    <2> QED BY <1>1, <2>1, <2>2, TargetsStay
<1>9. OwnersCounted' /\ FinishedIsLeft'
    BY <1>1, <1>3, <1>4, <1>5, <1>6, OwnersStay
<1> QED BY <1>6, <1>7, <1>8, <1>9

(* Every step keeps it. *)
LEMMA StepIInv == IInv /\ [Next]_vars => IInv'
<1> SUFFICES ASSUME IInv, [Next]_vars PROVE IInv'
    OBVIOUS
<1>1. CASE \E r \in Runs, mode \in Modes : Create(r, mode)
    BY <1>1, RunSteps
<1>2. CASE \E r \in Runs : Delete(r) \/ HeartbeatAges(r)
    BY <1>2, RunSteps
<1>3. CASE \E o \in Owners, r \in Runs : Claim(o, r)
    BY <1>3, ClaimStep
<1>4. ASSUME NEW o \in Owners, Work(o) \/ DeadlinePasses(o) \/ Crash(o)
      PROVE  IInv'
    <2>1. CASE NoOperator(o) \/ Finish(o) \/ Handle(o) \/ Crash(o)
        BY <2>1, LeavingSteps
    <2>2. CASE Heartbeat(o) \/ DeadlinePasses(o) \/ Raise(o)
        BY <2>2, OwnerSteps
    <2>3. ASSUME NEW t \in Targets,
                 \/ TimeOut(o, t)
                 \/ Attempt(o, t)
                 \/ AttemptFound(o, t)
                 \/ AttemptRefused(o, t)
                 \/ \E verdict \in {"passed", "failed"} : AttemptEnds(o, t, verdict)
                 \/ \E left \in {"running", "passed", "failed"} : AttemptRaises(o, t, left)
          PROVE  IInv'
        BY <2>3, TargetSteps
    <2> QED BY <1>4, <2>1, <2>2, <2>3 DEF Work
<1>5. CASE UNCHANGED vars
    <2>1. TypeOK'
        BY <1>5 DEF IInv, TypeOK, vars
    <2>2. Busy'
        BY <1>5 DEF IInv, Busy, vars, Idle, Targets
    <2>3. Counted' /\ Executing' /\ TargetsPassed' /\ PassedIsTrue'
        BY <1>5, TargetsStay DEF vars
    <2>4. OwnersCounted' /\ FinishedIsLeft'
        BY <1>5, <2>1, OwnersStay DEF vars
    <2> QED BY <2>1, <2>2, <2>3, <2>4 DEF IInv
<1> QED BY <1>1, <1>2, <1>3, <1>4, <1>5 DEF Next

-----------------------------------------------------------------------------
(* The invariant ties runs, owners, targets and scenario runs together in    *)
(* every reachable state (execute_run, _execute_target).                     *)
THEOREM Invariance == Spec => []IInv
<1> QED BY InitIInv, StepIInv, PTL DEF Spec

(* The state keeps its types, for any number of runs, owners, targets,       *)
(* retries and failures.                                                     *)
THEOREM TypeCorrect == Spec => []TypeOK
<1>1. IInv => TypeOK
    BY DEF IInv
<1> QED BY <1>1, Invariance, PTL

(* However often a run changes hands, an attempt of a target is executed at  *)
(* most once (_idempotent, execute_run).                                     *)
THEOREM AttemptsOnce == Spec => []AttemptedOnce
<1>1. IInv => AttemptedOnce
    BY DEF IInv, Counted, AttemptedOnce
<1> QED BY <1>1, Invariance, PTL

(* A run said to have passed has a passed scenario run for every target,     *)
(* whichever of its owners wrote the verdict (execute_run).                  *)
THEOREM PassedTrue == Spec => []PassedIsTrue
<1>1. IInv => PassedIsTrue
    BY DEF IInv
<1> QED BY <1>1, Invariance, PTL

(* A run never has more owners than one and the stale heartbeats of live     *)
(* ones, for any number of threads that try to take it (execute_run).        *)
THEOREM OwnersBounded == Spec => []OneOwnerUnlessStale
<1>1. IInv => OneOwnerUnlessStale
    <2> SUFFICES ASSUME IInv, NEW r \in Runs
                 PROVE  Cardinality(OwnersOf(r)) <= 1 + slow[r]
        BY DEF OneOwnerUnlessStale
    <2>1. slow[r] \in Nat /\ Cardinality(OwnersOf(r)) \in Nat
        BY OwnersFinite, ConstantsAssumption DEF IInv, TypeOK
    <2> QED BY <2>1 DEF IInv, OwnersCounted
<1> QED BY <1>1, Invariance, PTL

(* A finished run is not started again, and only an owner beyond the first   *)
(* may change its verdict (execute_run, the exception handlers).             *)
THEOREM FinishedStays == Spec => FinishedStaysFinished
<1> DEFINE Stays ==
        \A r \in Runs :
            run[r].status \in Verdicts /\ run'[r].status # run[r].status =>
                \/ run'[r].status = "deleted"
                \/ run'[r].status \in Verdicts /\ slow[r] > 0
<1>1. IInv /\ [Next]_vars => Stays
    <2> SUFFICES ASSUME IInv, [Next]_vars, NEW r \in Runs,
                        run[r].status \in Verdicts, run'[r].status # run[r].status,
                        run'[r].status # "deleted"
                 PROVE  run'[r].status \in Verdicts /\ slow[r] > 0
        OBVIOUS
    <2>1. run \in [Runs -> Run] /\ run[r].status \notin {"absent", "pending", "running", "deleted"}
        BY DEF IInv, TypeOK, Verdicts
    <2>2. PICK o \in Owners : NoOperator(o) \/ Heartbeat(o) \/ Finish(o) \/ Handle(o)
        <3>1. run' # run
            OBVIOUS
        <3>2. ASSUME NEW q \in Runs,
                     \/ \E mode \in Modes : Create(q, mode)
                     \/ Delete(q)
                     \/ HeartbeatAges(q)
                     \/ \E o \in Owners : Claim(o, q)
              PROVE  FALSE
            BY <3>2, <2>1 DEF Create, Delete, HeartbeatAges, Claim, Claimable, Run
        <3>3. ASSUME NEW o \in Owners,
                     \/ DeadlinePasses(o)
                     \/ Crash(o)
                     \/ Raise(o)
                     \/ \E t \in Targets :
                            \/ TimeOut(o, t)
                            \/ Attempt(o, t)
                            \/ AttemptFound(o, t)
                            \/ AttemptRefused(o, t)
                            \/ \E verdict \in {"passed", "failed"} : AttemptEnds(o, t, verdict)
                            \/ \E left \in {"running", "passed", "failed"} :
                                   AttemptRaises(o, t, left)
              PROVE  FALSE
            BY <3>3, <3>1 DEF DeadlinePasses, Crash, Raise, TimeOut, Attempt, AttemptFound,
                              AttemptRefused, AttemptEnds, AttemptRaises
        <3> QED BY <3>1, <3>2, <3>3 DEF Next, Work, vars
    <2>3. owner[o].phase # "idle"
        BY <2>2 DEF NoOperator, Heartbeat, Finish, Handle, Working
    <2>4. owner[o].run \in Runs
        BY <2>3, HasRun
    <2>5. PICK x \in Verdicts : run' = [run EXCEPT ![owner[o].run].status = x]
        <3>1. ~Heartbeat(o)
            BY <2>1, <2>4 DEF Heartbeat, Run
        <3>2. Verdict(o) \in Verdicts /\ "failed" \in Verdicts
            BY DEF Verdict, Verdicts
        <3>3. CASE NoOperator(o)
            BY <3>2, <3>3 DEF NoOperator
        <3>4. CASE Finish(o)
            BY <3>2, <3>4 DEF Finish
        <3>5. CASE Handle(o)
            BY <3>2, <3>5 DEF Handle
        <3> QED BY <2>2, <3>1, <3>3, <3>4, <3>5
    <2>6. r = owner[o].run /\ run'[r].status = x
        BY <2>1, <2>4, <2>5 DEF Run
    <2>7. OwnersOf(r) # {}
        BY <2>6 DEF OwnersOf
    <2> QED BY <2>5, <2>6, <2>7 DEF IInv, FinishedIsLeft
<1>2. IInv /\ [Next]_vars => [Stays]_vars
    BY <1>1
<1> QED BY <1>2, Invariance, PTL DEF Spec, FinishedStaysFinished

(* A run has one owner unless a heartbeat went stale, no attempt of a target *)
(* runs twice, and a passed run has a passed attempt for each target         *)
(* (execute_run, _execute_target).                                           *)
THEOREM TargetsAsSaid == Spec => []TargetsRanAsSaid
<1>1. OneOwnerUnlessStale /\ AttemptedOnce /\ PassedIsTrue => TargetsRanAsSaid
  BY DEF TargetsRanAsSaid
<1> QED BY <1>1, OwnersBounded, AttemptsOnce, PassedTrue, PTL

-----------------------------------------------------------------------------
(* TestPlanTrigger: the inductive invariant *)

(* A key is taken by one run, and that of a scheduled run names its time.    *)
KeysOK(runs) ==
    /\ \A r, q \in runs : r.key = q.key => r = q
    /\ \A r \in runs : r.at # Never => r.key = <<"schedule", r.plan, r.env, r.at>>

KeysOf(runs) == {r.key : r \in runs}

(* The keys lead to runs with this body, and to runs that exist: nothing     *)
(* that is created later can have one of them.                               *)
Known(runs, keys, body) ==
    /\ keys \subseteq KeysOf(runs)
    /\ \A r \in runs : r.key \in keys => r.body = body

(* A delivery under way.                                                     *)
Delivery(runs) ==
    [op : {"deliver"}, delivery : Deliveries, body : Bodies, plans : SUBSET Plans,
     plan : Plans \cup {"none"}, envs : SUBSET Envs, keys : SUBSET KeysOf(runs)]

RequestsOK ==
    /\ request = [c \in Clients |-> request[c]]
    /\ \A c \in Clients :
           request[c].op = "deliver" =>
               request[c] \in Delivery(created) /\ Known(created, request[c].keys, request[c].body)

EventsOK ==
    /\ event = [d \in Deliveries |-> event[d]]
    /\ \A d \in Deliveries : Known(created, event[d].keys, event[d].body)

(* A scheduler holds plans that no other one holds, and they stay as due as  *)
(* it found them: nobody writes a row that is held.                          *)
HeldOnce == \A s, t \in Schedulers : s # t => tick[s].plans \cap tick[t].plans = {}

HeldIsDue ==
    \A s \in Schedulers : \A p \in tick[s].plans :
        /\ plan[p].alive /\ plan[p].enabled
        /\ plan[p].kind = "cron"
        /\ plan[p].next # Never /\ plan[p].next <= tick[s].time

Update == [op : {"write"}, plan : Plans, old : Plan, new : Plan]

TypesOK ==
    /\ TriggerTypeOK
    /\ tick \in [Schedulers -> [time : 0 .. MaxClock, plans : SUBSET Plans]]
    /\ \A s \in Schedulers : tick[s].time <= clock
    /\ \A c \in Clients : request[c].op = "write" => request[c] \in Update

TriggerInv == TypesOK /\ KeysOK(created) /\ RequestsOK /\ EventsOK /\ HeldOnce /\ HeldIsDue

-----------------------------------------------------------------------------
(* New runs *)

(* Runs with new keys, of their own kind, may join the others.               *)
LEMMA KeysJoin ==
    ASSUME NEW runs, NEW new, KeysOK(runs), KeysOK(new),
           \A r \in new : r.key \notin KeysOf(runs)
    PROVE  KeysOK(runs \cup new)
BY DEF KeysOK, KeysOf

(* What is known of taken keys is not changed by them.                       *)
LEMMA KnownJoin ==
    ASSUME NEW runs, NEW new, NEW keys, NEW body, Known(runs, keys, body),
           \A r \in new : r.key \notin KeysOf(runs)
    PROVE  Known(runs \cup new, keys, body)
BY DEF Known, KeysOf

(* A delivery is still one beside further runs. *)
LEMMA DeliveryJoin ==
    ASSUME NEW runs, NEW new, NEW req \in Delivery(runs)
    PROVE  req \in Delivery(runs \cup new)
BY DEF Delivery, KeysOf

(* One run more is known of a key that leads to a run with the same body.    *)
LEMMA KnownMore ==
    ASSUME NEW runs, NEW keys, NEW body, Known(runs, keys, body), KeysOK(runs),
           NEW one \in runs, one.body = body
    PROVE  Known(runs, keys \cup {one.key}, body)
BY DEF Known, KeysOf, KeysOK

(* Created runs with new keys leave everything else as it was.               *)
LEMMA CreatedKept ==
    ASSUME TriggerInv, NEW new, KeysOK(new), \A r \in new : r.key \notin TakenKeys,
           created' = created \cup new
    PROVE  /\ KeysOK(created')
           /\ UNCHANGED event => EventsOK'
           /\ UNCHANGED request => RequestsOK'
           /\ \A c \in Clients :
                  request[c].op = "deliver" =>
                      request[c] \in Delivery(created') /\ Known(created', request[c].keys, request[c].body)
<1>1. \A r \in new : r.key \notin KeysOf(created)
    BY DEF TakenKeys, KeysOf
<1>2. KeysOK(created')
    BY <1>1, KeysJoin DEF TriggerInv
<1>3. UNCHANGED event => EventsOK'
    BY <1>1, KnownJoin DEF TriggerInv, EventsOK
<1>4. ASSUME NEW c \in Clients, request[c].op = "deliver"
      PROVE  request[c] \in Delivery(created') /\ Known(created', request[c].keys, request[c].body)
    BY <1>1, <1>4, KnownJoin, DeliveryJoin DEF TriggerInv, RequestsOK
<1>5. UNCHANGED request => RequestsOK'
    BY <1>4 DEF TriggerInv, RequestsOK
<1> QED BY <1>2, <1>3, <1>4, <1>5

(* A request that is not a delivery, or a delivery that is known to be sound.*)
LEMMA RequestKept ==
    ASSUME TriggerInv, NEW c \in Clients, NEW new,
           created' = created,
           request' = [request EXCEPT ![c] = new],
           new.op = "deliver" => new \in Delivery(created) /\ Known(created, new.keys, new.body)
    PROVE  RequestsOK'
<1>1. request'[c] = new /\ \A b \in Clients \ {c} : request'[b] = request[b]
    BY DEF TriggerInv, RequestsOK
<1>2. request' = [b \in Clients |-> request'[b]]
    BY DEF TriggerInv, RequestsOK
<1>3. ASSUME NEW b \in Clients, request'[b].op = "deliver"
      PROVE  request'[b] \in Delivery(created') /\ Known(created', request'[b].keys, request'[b].body)
    BY <1>1, <1>3 DEF TriggerInv, RequestsOK
<1> QED BY <1>2, <1>3 DEF RequestsOK

(* A write of the changed columns leaves a plan.                             *)
LEMMA MergeTyped ==
    ASSUME NEW x \in Plan, NEW a \in Plan, NEW b \in Plan
    PROVE  [f \in DOMAIN x |-> IF b[f] # a[f] THEN b[f] ELSE x[f]] \in Plan
<1> DEFINE y == [f \in DOMAIN x |-> IF b[f] # a[f] THEN b[f] ELSE x[f]]
<1>1. DOMAIN x = {"alive", "enabled", "kind", "envs", "version", "next"}
    BY DEF Plan
<1>2. y = [alive |-> y.alive, enabled |-> y.enabled, kind |-> y.kind, envs |-> y.envs,
           version |-> y.version, next |-> y.next]
    BY <1>1
<1>3. /\ y.alive \in BOOLEAN /\ y.enabled \in BOOLEAN /\ y.kind \in Kinds
      /\ y.envs \in (SUBSET Envs) \ {{}} /\ y.version \in Nat \ {0} /\ y.next \in Minutes \cup {Never}
    BY <1>1 DEF Plan
<1> HIDE DEF y
<1>4. y \in Plan
    BY <1>2, <1>3 DEF Plan
<1> QED BY <1>4 DEF y

-----------------------------------------------------------------------------
(* The actions *)

(* What leaves runs, events and requests alone.                              *)
LEMMA RunsKept ==
    ASSUME TriggerInv, UNCHANGED <<created, event, request>>
    PROVE  KeysOK(created') /\ RequestsOK' /\ EventsOK'
BY DEF TriggerInv, RequestsOK, EventsOK

(* What leaves plans, schedulers and time alone.                             *)
LEMMA HoldersKept ==
    ASSUME TriggerInv, UNCHANGED <<plan, tick, clock, deaths>>,
           \A r \in created' \ created : r.plan \in Plans /\ r.env \in Envs,
           \A c \in Clients : request'[c].op = "write" => request'[c] \in Update
    PROVE  TypesOK' /\ HeldOnce' /\ HeldIsDue'
BY DEF TriggerInv, TypesOK, TriggerTypeOK, HeldOnce, HeldIsDue

(* The clock moves and no plan changes. *)
LEMMA TimePassesKept == ASSUME TriggerInv, TimePasses PROVE TriggerInv'
<1>1. clock' = clock + 1 /\ clock' \in 1 .. MaxClock /\ UNCHANGED <<plan, created, event, tick, request, deaths>>
    BY TriggerAssumption DEF TimePasses, TriggerInv, TypesOK, TriggerTypeOK
<1>2. \A s \in Schedulers : tick[s].time <= clock'
    BY <1>1, TriggerAssumption DEF TriggerInv, TypesOK, TriggerTypeOK
<1>3. TypesOK' /\ HeldOnce' /\ HeldIsDue'
    BY <1>1, <1>2 DEF TriggerInv, TypesOK, TriggerTypeOK, HeldOnce, HeldIsDue
<1> QED BY <1>1, <1>3, RunsKept DEF TriggerInv

(* Whoever locks takes plans that are due and that nobody holds.             *)
LEMMA LockDueKept == ASSUME TriggerInv, NEW s \in Schedulers, LockDue(s) PROVE TriggerInv'
<1> DEFINE due == {p \in Plans : Due(p) /\ ~Held(p)}
<1>1. /\ tick' = [tick EXCEPT ![s] = [time |-> clock, plans |-> due]]
      /\ UNCHANGED <<plan, created, event, request, clock, deaths>>
    BY DEF LockDue
<1>2. /\ tick'[s].time = clock /\ tick'[s].plans = due
      /\ \A t \in Schedulers \ {s} : tick'[t] = tick[t]
    BY <1>1 DEF TriggerInv, TypesOK
<1>3. clock \in 1 .. MaxClock /\ clock \in 0 .. MaxClock
    BY TriggerAssumption DEF TriggerInv, TypesOK, TriggerTypeOK
<1>4. tick' \in [Schedulers -> [time : 0 .. MaxClock, plans : SUBSET Plans]]
    BY <1>1, <1>3 DEF TriggerInv, TypesOK
<1>5. \A t \in Schedulers : tick'[t].time <= clock'
    BY <1>1, <1>2, <1>3 DEF TriggerInv, TypesOK
<1>6. TypesOK'
    BY <1>1, <1>4, <1>5 DEF TriggerInv, TypesOK, TriggerTypeOK
<1>7. \A t \in Schedulers \ {s} : tick[t].plans \cap due = {}
    BY DEF Held
<1>8. HeldOnce'
    BY <1>2, <1>7 DEF TriggerInv, HeldOnce
<1>9. HeldIsDue'
    BY <1>1, <1>2 DEF TriggerInv, HeldIsDue, Due
<1> QED BY <1>1, <1>6, <1>8, <1>9, RunsKept DEF TriggerInv

(* Nothing is held by who lets go.                                           *)
LEMMA LetGo ==
    ASSUME TriggerInv, NEW s \in Schedulers, tick' = [tick EXCEPT ![s] = NoTick]
    PROVE  /\ tick' \in [Schedulers -> [time : 0 .. MaxClock, plans : SUBSET Plans]]
           /\ HeldOnce'
           /\ \A t \in Schedulers : tick'[t].time <= clock
           /\ \A t \in Schedulers, p \in Plans :
                  p \in tick'[t].plans => p \in tick[t].plans /\ t # s /\ tick'[t] = tick[t]
<1>1. 0 \in 0 .. MaxClock /\ clock \in 1 .. MaxClock
    BY TriggerAssumption DEF TriggerInv, TypesOK, TriggerTypeOK
<1>2. NoTick \in [time : 0 .. MaxClock, plans : SUBSET Plans]
    BY <1>1 DEF NoTick, Never
<1>3. /\ tick' \in [Schedulers -> [time : 0 .. MaxClock, plans : SUBSET Plans]]
      /\ tick'[s] = NoTick
      /\ \A t \in Schedulers \ {s} : tick'[t] = tick[t]
    BY <1>2 DEF TriggerInv, TypesOK
<1>4. NoTick.plans = {} /\ NoTick.time = 0
    BY DEF NoTick, Never
<1>5. \A t \in Schedulers : tick'[t].time <= clock
    BY <1>1, <1>3, <1>4 DEF TriggerInv, TypesOK
<1>6. HeldOnce'
    BY <1>3, <1>4 DEF TriggerInv, HeldOnce
<1> QED BY <1>3, <1>4, <1>5, <1>6

(* A scheduler that dies has nothing locked any more. *)
LEMMA DieKept == ASSUME TriggerInv, NEW s \in Schedulers, Die(s) PROVE TriggerInv'
<1>1. /\ tick' = [tick EXCEPT ![s] = NoTick]
      /\ deaths' \in 0 .. MaxDeaths
      /\ UNCHANGED <<plan, created, event, request, clock>>
    BY TriggerAssumption DEF Die, TriggerInv, TypesOK, TriggerTypeOK
<1>2. TypesOK' /\ HeldOnce'
    BY <1>1, LetGo DEF TriggerInv, TypesOK, TriggerTypeOK
<1>3. \A t \in Schedulers : tick'[t].plans \subseteq Plans
    BY <1>2 DEF TypesOK, TriggerTypeOK
<1>4. HeldIsDue'
    BY <1>1, <1>3, LetGo DEF TriggerInv, HeldIsDue
<1> QED BY <1>1, <1>2, <1>4, RunsKept DEF TriggerInv

(* A scheduler fires its plans: each of the new runs has a key of its own.   *)
LEMMA FireKept == ASSUME TriggerInv, NEW s \in Schedulers, Fire(s) PROVE TriggerInv'
<1>1. /\ created' = created \cup NewRuns(s)
      /\ tick' = [tick EXCEPT ![s] = NoTick]
      /\ UNCHANGED <<event, request, clock, deaths>>
    BY DEF Fire
<1>2. \A r \in NewRuns(s) : r.key \notin TakenKeys
    BY DEF NewRuns
<1>3. ASSUME NEW r \in NewRuns(s)
      PROVE  \E p \in tick[s].plans : \E e \in plan[p].envs :
                 /\ r = DueRun(p, e, tick[s].time)
                 /\ r.key = <<"schedule", p, e, plan[p].next>>
                 /\ r.plan = p /\ r.env = e /\ r.at = plan[p].next
    BY DEF NewRuns, RunsDue, DueRun, ScheduleKey
<1>4. ASSUME NEW p, NEW e, NEW t, NEW q, NEW f, NEW u, <<"schedule", p, e, t>> = <<"schedule", q, f, u>>
      PROVE  p = q /\ e = f /\ t = u
    BY <1>4
<1>5. KeysOK(NewRuns(s))
    BY <1>3, <1>4 DEF KeysOK
<1>6. tick[s].plans \subseteq Plans /\ tick[s].time \in 0 .. MaxClock
    BY DEF TriggerInv, TypesOK
<1>7. NextCronTime(tick[s].time) \in Minutes
    BY <1>6, TriggerAssumption DEF NextCronTime, Minutes
<1>8. plan' \in [Plans -> Plan] /\ \A p \in Plans \ tick[s].plans : plan'[p] = plan[p]
  <2>1. ASSUME NEW p \in Plans PROVE [plan[p] EXCEPT !.next = NextCronTime(tick[s].time)] \in Plan
      BY <1>7 DEF TriggerInv, TypesOK, TriggerTypeOK, Plan
  <2> QED BY <2>1 DEF Fire, TriggerInv, TypesOK, TriggerTypeOK
<1>9. \A r \in NewRuns(s) : r.plan \in Plans /\ r.env \in Envs
    BY <1>3, <1>6 DEF TriggerInv, TypesOK, TriggerTypeOK, Plan
<1>10. TypesOK' /\ HeldOnce'
    BY <1>1, <1>8, <1>9, LetGo DEF TriggerInv, TypesOK, TriggerTypeOK
<1>11. ASSUME NEW t \in Schedulers, NEW p \in tick'[t].plans
       PROVE  p \in Plans /\ plan'[p] = plan[p] /\ tick'[t] = tick[t]
  <2>1. p \in Plans
      BY <1>10, <1>11 DEF TypesOK
  <2>2. p \in tick[t].plans /\ t # s /\ tick'[t] = tick[t]
      BY <1>1, <1>11, <2>1, LetGo
  <2>3. p \notin tick[s].plans
      BY <2>2 DEF TriggerInv, HeldOnce
  <2> QED BY <1>8, <2>1, <2>2, <2>3
<1>12. HeldIsDue'
    BY <1>11 DEF TriggerInv, HeldIsDue
<1> QED BY <1>1, <1>2, <1>5, <1>10, <1>12, CreatedKept DEF TriggerInv

(* An update reads a plan and what it will make of it.                       *)
LEMMA UpdateKept ==
    ASSUME TriggerInv, NEW c \in Clients, NEW p \in Plans, UpdatePlan(c, p) \/ SetEnabled(c, p)
    PROVE  TriggerInv'
<1>1. PICK enabled \in BOOLEAN, kind \in Kinds, envs \in (SUBSET Envs) \ {{}} :
          Read(c, p, Changed(p, enabled, kind, envs))
  <2>1. plan[p] \in Plan
      BY DEF TriggerInv, TypesOK, TriggerTypeOK
  <2>2. plan[p].kind \in Kinds /\ plan[p].envs \in (SUBSET Envs) \ {{}}
      BY <2>1 DEF Plan
  <2> QED BY <2>2 DEF UpdatePlan, SetEnabled
<1> DEFINE b == Changed(p, enabled, kind, envs)
           new == [op |-> "write", plan |-> p, old |-> plan[p], new |-> b]
<1>2. request' = [request EXCEPT ![c] = new] /\ UNCHANGED <<plan, created, event, tick, clock, deaths>>
    BY <1>1 DEF Read
<1>3. CalculateNextRun(enabled, kind, clock) \in Minutes \cup {Never}
    BY TriggerAssumption DEF CalculateNextRun, NextCronTime, Minutes, TriggerInv, TypesOK, TriggerTypeOK
<1>4. plan[p] \in Plan /\ b \in Plan
  <2>1. plan[p] \in Plan
      BY DEF TriggerInv, TypesOK, TriggerTypeOK
  <2>2. plan[p].version + 1 \in Nat \ {0}
      BY <2>1 DEF Plan
  <2> QED BY <1>3, <2>1, <2>2 DEF Plan, Changed
<1> HIDE DEF b
<1>5. new \in Update /\ new.op = "write"
    BY <1>4 DEF Update
<1>6. RequestsOK'
    BY <1>2, <1>5, RequestKept
<1>7. TypesOK' /\ HeldOnce' /\ HeldIsDue'
  <2>1. \A d \in Clients : request'[d].op = "write" => request'[d] \in Update
      BY <1>2, <1>5 DEF TriggerInv, TypesOK, RequestsOK
  <2> QED BY <1>2, <2>1, HoldersKept
<1> QED BY <1>2, <1>6, <1>7 DEF TriggerInv, EventsOK

(* The end of a request that creates nothing.                                *)
LEMMA RequestEnds ==
    ASSUME TriggerInv, NEW c \in Clients, request' = [request EXCEPT ![c] = NoRequest], UNCHANGED created
    PROVE  /\ RequestsOK'
           /\ \A d \in Clients : request'[d].op = "write" => request'[d] \in Update
<1>1. NoRequest.op = "idle"
    BY DEF NoRequest
<1>2. RequestsOK'
    BY <1>1, RequestKept
<1>3. \A d \in Clients : request'[d] = IF d = c THEN NoRequest ELSE request[d]
    BY DEF TriggerInv, RequestsOK
<1> QED BY <1>1, <1>2, <1>3 DEF TriggerInv, TypesOK

(* An update writes a plan that nobody holds.                                *)
LEMMA WriteKept == ASSUME TriggerInv, NEW c \in Clients, Write(c) PROVE TriggerInv'
<1> DEFINE r == request[c]
<1>1. r \in Update /\ ~Held(r.plan)
    BY DEF Write, TriggerInv, TypesOK
<1>2. r.plan \in Plans /\ r.old \in Plan /\ r.new \in Plan
    BY <1>1 DEF Update
<1>3. /\ plan' \in [Plans -> Plan]
      /\ \A p \in Plans \ {r.plan} : plan'[p] = plan[p]
  <2> DEFINE y == [f \in DOMAIN plan[r.plan] |-> IF r.new[f] # r.old[f] THEN r.new[f] ELSE plan[r.plan][f]]
  <2>1. plan \in [Plans -> Plan] /\ y \in Plan
    <3>1. plan \in [Plans -> Plan] /\ plan[r.plan] \in Plan
        BY <1>2 DEF TriggerInv, TypesOK, TriggerTypeOK
    <3>2. y \in Plan
        BY <1>2, <3>1, MergeTyped
    <3> QED BY <3>1, <3>2
  <2>2. plan' = [plan EXCEPT ![r.plan] = y] \/ plan' = plan
      BY DEF Write
  <2> HIDE DEF y
  <2> QED BY <1>2, <2>1, <2>2
<1>4. request' = [request EXCEPT ![c] = NoRequest] /\ UNCHANGED <<created, event, tick, clock, deaths>>
    BY DEF Write
<1>5. TypesOK' /\ HeldOnce'
    BY <1>3, <1>4, RequestEnds DEF TriggerInv, TypesOK, TriggerTypeOK, HeldOnce
<1>6. \A s \in Schedulers : \A p \in tick[s].plans : p \in Plans /\ plan'[p] = plan[p]
    BY <1>1, <1>3 DEF Held, TriggerInv, TypesOK
<1>7. HeldIsDue'
    BY <1>4, <1>6 DEF TriggerInv, HeldIsDue
<1> QED BY <1>4, <1>5, <1>7, RequestEnds DEF TriggerInv, EventsOK

(* A plan is deleted; its runs keep their keys. *)
LEMMA DeletePlanKept == ASSUME TriggerInv, NEW p \in Plans, DeletePlan(p) PROVE TriggerInv'
<1>1. ~Held(p) /\ UNCHANGED <<created, event, tick, request, clock, deaths>>
    BY DEF DeletePlan
<1>2. plan' \in [Plans -> Plan] /\ \A q \in Plans \ {p} : plan'[q] = plan[q]
  <2>1. [plan[p] EXCEPT !.alive = FALSE] \in Plan
    <3>1. plan[p] \in Plan
        BY DEF TriggerInv, TypesOK, TriggerTypeOK
    <3> QED BY <3>1 DEF Plan
  <2>2. plan' = [plan EXCEPT ![p] = [plan[p] EXCEPT !.alive = FALSE]]
      BY DEF DeletePlan
  <2> QED BY <2>1, <2>2 DEF TriggerInv, TypesOK, TriggerTypeOK
<1>3. TypesOK' /\ HeldOnce'
    BY <1>1, <1>2 DEF TriggerInv, TypesOK, TriggerTypeOK, HeldOnce
<1>4. HeldIsDue'
    BY <1>1, <1>2 DEF TriggerInv, HeldIsDue, Held, TypesOK
<1> QED BY <1>1, <1>3, <1>4, RunsKept DEF TriggerInv

(* A manual request with a new key.                                          *)
LEMMA ExecutePlanKept ==
    ASSUME TriggerInv, NEW p \in Plans, NEW e \in Envs, NEW k \in ManualKeys, ExecutePlan(p, e, k)
    PROVE  TriggerInv'
<1> DEFINE new == RequestedRun(<<"manual", k>>, p, e, "none")
<1>1. created' = created \cup {new} /\ UNCHANGED <<plan, event, tick, request, clock, deaths>>
    BY DEF ExecutePlan
<1>2. new.key \notin TakenKeys /\ KeysOK({new}) /\ new.plan = p /\ new.env = e
    BY DEF ExecutePlan, RequestedRun, KeysOK
<1> HIDE DEF new
<1>3. TypesOK' /\ HeldOnce' /\ HeldIsDue'
    BY <1>1, <1>2, HoldersKept DEF TriggerInv, TypesOK
<1> QED BY <1>1, <1>2, <1>3, CreatedKept DEF TriggerInv

(* A delivery arrives; it knows no keys yet.                                 *)
LEMMA DeliverKept ==
    ASSUME TriggerInv, NEW c \in Clients, NEW d \in Deliveries, NEW body \in Bodies, Deliver(c, d, body)
    PROVE  TriggerInv'
<1> DEFINE new == [op |-> "deliver", delivery |-> d, body |-> body,
                   plans |-> {p \in Plans : Listens(p)}, plan |-> "none", envs |-> {}, keys |-> {}]
<1>1. request' = [request EXCEPT ![c] = new] /\ UNCHANGED <<plan, created, event, tick, clock, deaths>>
    BY DEF Deliver
<1>2. new \in Delivery(created) /\ Known(created, new.keys, new.body) /\ new.op = "deliver"
    BY DEF Delivery, Known
<1> HIDE DEF new
<1>3. RequestsOK'
    BY <1>1, <1>2, RequestKept
<1>4. TypesOK' /\ HeldOnce' /\ HeldIsDue'
  <2>1. \A b \in Clients : request'[b].op = "write" => request'[b] \in Update
      BY <1>1, <1>2 DEF TriggerInv, TypesOK, RequestsOK
  <2> QED BY <1>1, <2>1, HoldersKept
<1> QED BY <1>1, <1>3, <1>4 DEF TriggerInv, EventsOK

(* A delivery creates its next run, or finds it, or ends.                    *)
LEMMA CreateRunKept ==
    ASSUME TriggerInv, NEW c \in Clients, NEW p \in Plans, NEW e \in Envs, CreateRun(c, p, e)
    PROVE  TriggerInv'
<1> DEFINE r == request[c]
           new == RequestedRun(<<"webhook", p, e, r.delivery>>, p, e, r.body)
           left == IF r.envs = {} THEN plan[p].envs ELSE r.envs
           req == [r EXCEPT !.plan = p, !.plans = @ \ {p}, !.envs = left \ {e}, !.keys = @ \cup {new.key}]
<1>1. r.op = "deliver" /\ e \in left /\ UNCHANGED <<plan, event, tick, clock, deaths>>
    BY DEF CreateRun
<1>2. r \in Delivery(created) /\ Known(created, r.keys, r.body)
    BY <1>1 DEF TriggerInv, RequestsOK
<1>3. new.body = r.body /\ new.at = Never /\ new.plan = p /\ new.env = e
    BY DEF RequestedRun
<1>4. left \subseteq Envs
    BY <1>2 DEF Delivery, TriggerInv, TypesOK, TriggerTypeOK, Plan
<1>5. CASE request' = [request EXCEPT ![c] = NoRequest] /\ UNCHANGED created
  <2>1. RequestsOK'
      BY <1>5, RequestEnds
  <2>2. TypesOK' /\ HeldOnce' /\ HeldIsDue'
      BY <1>1, <1>5, RequestEnds, HoldersKept
  <2> QED BY <1>1, <1>5, <2>1, <2>2 DEF TriggerInv, EventsOK
<1>6. CASE /\ Answers(new) # {}
           /\ created' = created \cup Answers(new)
           /\ request' = [request EXCEPT ![c] = req]
  <2> HIDE DEF new, left
  <2>1. PICK x \in created' : x.key = new.key /\ x.body = r.body
      BY <1>3, <1>6 DEF Answers, SameRequest
  <2>2. \E more : /\ KeysOK(more)
                  /\ \A q \in more : q.key \notin TakenKeys /\ q.plan = p /\ q.env = e
                  /\ created' = created \cup more
    <3>1. CASE new.key \in TakenKeys
      <4>1. created' = created \cup {}
          BY <1>6, <3>1 DEF Answers
      <4>2. KeysOK({})
          BY DEF KeysOK
      <4> QED BY <4>1, <4>2
    <3>2. CASE new.key \notin TakenKeys
      <4>1. created' = created \cup {new}
          BY <1>6, <3>2 DEF Answers
      <4>2. KeysOK({new})
          BY <1>3 DEF KeysOK
      <4> QED BY <1>3, <3>2, <4>1, <4>2
    <3> QED BY <3>1, <3>2
  <2>3. PICK more : /\ KeysOK(more)
                    /\ \A q \in more : q.key \notin TakenKeys /\ q.plan = p /\ q.env = e
                    /\ created' = created \cup more
      BY <2>2
  <2>4. /\ KeysOK(created') /\ EventsOK'
        /\ \A b \in Clients :
               request[b].op = "deliver" =>
                   request[b] \in Delivery(created') /\ Known(created', request[b].keys, request[b].body)
      BY <1>1, <2>3, CreatedKept
  <2>5. r \in Delivery(created') /\ Known(created', r.keys, r.body)
      BY <1>1, <2>4
  <2>6. Known(created', r.keys \cup {new.key}, r.body)
      BY <2>1, <2>4, <2>5, KnownMore
  <2>7. /\ req \in Delivery(created')
        /\ req.keys = r.keys \cup {new.key} /\ req.body = r.body /\ req.op = "deliver"
      BY <1>4, <2>5, <2>6 DEF Delivery, Known
  <2> HIDE DEF req
  <2>8. request'[c] = req /\ \A b \in Clients \ {c} : request'[b] = request[b]
      BY <1>6 DEF TriggerInv, RequestsOK
  <2>9. RequestsOK'
    <3>1. request' = [b \in Clients |-> request'[b]]
        BY <1>6 DEF TriggerInv, RequestsOK
    <3>2. ASSUME NEW b \in Clients, request'[b].op = "deliver"
          PROVE  request'[b] \in Delivery(created') /\ Known(created', request'[b].keys, request'[b].body)
        BY <2>4, <2>6, <2>7, <2>8, <3>2
    <3> QED BY <3>1, <3>2 DEF RequestsOK
  <2>10. \A b \in Clients : request'[b].op = "write" => request'[b] \in Update
      BY <2>7, <2>8 DEF TriggerInv, TypesOK
  <2>11. TypesOK' /\ HeldOnce' /\ HeldIsDue'
      BY <1>1, <2>3, <2>10, HoldersKept
  <2> QED BY <2>4, <2>9, <2>11 DEF TriggerInv
<1>7. [request EXCEPT ![c].plan = p, ![c].plans = @ \ {p}, ![c].envs = left \ {e}, ![c].keys = @ \cup {new.key}]
      = [request EXCEPT ![c] = req]
    BY DEF TriggerInv, RequestsOK
<1> QED BY <1>5, <1>6, <1>7 DEF CreateRun

(* The event of a delivery keeps what the delivery knows.                    *)
LEMMA StoreEventKept == ASSUME TriggerInv, NEW c \in Clients, StoreEvent(c) PROVE TriggerInv'
<1> DEFINE r == request[c]
           new == [body |-> r.body, keys |-> r.keys]
<1>1. r \in Delivery(created) /\ Known(created, r.keys, r.body)
    BY DEF StoreEvent, TriggerInv, RequestsOK
<1>2. request' = [request EXCEPT ![c] = NoRequest] /\ UNCHANGED <<plan, created, tick, clock, deaths>>
    BY DEF StoreEvent
<1>3. event' = [event EXCEPT ![r.delivery] = new] \/ event' = event
    BY DEF StoreEvent
<1>4. Known(created, new.keys, new.body)
    BY <1>1
<1> HIDE DEF new
<1>5. EventsOK'
  <2>1. event' = [d \in Deliveries |-> event'[d]]
      BY <1>3 DEF TriggerInv, EventsOK
  <2>2. \A d \in Deliveries : event'[d] \in {event[d], new}
      BY <1>3 DEF TriggerInv, EventsOK
  <2> QED BY <1>2, <1>4, <2>1, <2>2 DEF TriggerInv, EventsOK
<1>6. TypesOK' /\ HeldOnce' /\ HeldIsDue'
    BY <1>2, RequestEnds, HoldersKept
<1> QED BY <1>2, <1>5, <1>6, RequestEnds DEF TriggerInv

(* A client that gives its request up leaves no half of a run. *)
LEMMA AbandonKept == ASSUME TriggerInv, NEW c \in Clients, Abandon(c) PROVE TriggerInv'
<1>1. request' = [request EXCEPT ![c] = NoRequest] /\ UNCHANGED <<plan, created, event, tick, clock, deaths>>
    BY DEF Abandon
<1>2. TypesOK' /\ HeldOnce' /\ HeldIsDue'
    BY <1>1, RequestEnds, HoldersKept
<1> QED BY <1>1, <1>2, RequestEnds DEF TriggerInv, EventsOK

-----------------------------------------------------------------------------
(* The theorems *)

(* Disabled plans, and nothing that was triggered.                           *)
LEMMA InitTriggerInv == InitTrigger => TriggerInv
<1> SUFFICES ASSUME InitTrigger PROVE TriggerInv
    OBVIOUS
<1>1. NoTick.plans = {} /\ NoTick.time = 0 /\ NoRequest.op = "idle" /\ NoEvent.keys = {}
    BY DEF NoTick, NoRequest, NoEvent, Never
<1>2. plan \in [Plans -> Plan]
  <2>1. Envs \in (SUBSET Envs) \ {{}} /\ 1 \in Nat \ {0}
    <3>1. Envs # {}
        BY TriggerAssumption
    <3>2. Envs \in (SUBSET Envs) \ {{}}
        BY <3>1, Zenon
    <3>3. 1 \in Nat \ {0}
        OBVIOUS
    <3> QED BY <3>2, <3>3
  <2>2. ASSUME NEW envs \in (SUBSET Envs) \ {{}}
        PROVE  [alive |-> TRUE, enabled |-> FALSE, kind |-> "webhook", envs |-> envs,
                version |-> 1, next |-> Never] \in Plan
      BY <2>1 DEF Plan, Kinds
  <2>3. [alive |-> TRUE, enabled |-> FALSE, kind |-> "webhook", envs |-> Envs,
         version |-> 1, next |-> Never] \in Plan
      BY <2>1, <2>2
  <2> QED BY <2>3 DEF InitTrigger
<1>3. NoTick \in [time : 0 .. MaxClock, plans : SUBSET Plans]
    BY TriggerAssumption DEF NoTick, Never
<1>4. clock \in 1 .. MaxClock /\ deaths \in 0 .. MaxDeaths
    BY TriggerAssumption DEF InitTrigger
<1>5. \A s \in Schedulers : tick[s].time <= clock
    BY <1>1 DEF InitTrigger
<1>6. TypesOK
    BY <1>1, <1>2, <1>3, <1>4, <1>5 DEF InitTrigger, TypesOK, TriggerTypeOK
<1>7. KeysOK(created) /\ RequestsOK /\ EventsOK
    BY <1>1 DEF InitTrigger, KeysOK, RequestsOK, EventsOK, Known
<1>8. HeldOnce /\ HeldIsDue
    BY <1>1 DEF InitTrigger, HeldOnce, HeldIsDue
<1> QED BY <1>6, <1>7, <1>8 DEF TriggerInv

(* Every step keeps the invariant.                                           *)
LEMMA NextTriggerInv == TriggerInv /\ [NextTrigger]_triggerVars => TriggerInv'
<1> SUFFICES ASSUME TriggerInv, [NextTrigger]_triggerVars PROVE TriggerInv'
    OBVIOUS
<1>1. CASE UNCHANGED triggerVars
  <2>1. UNCHANGED <<plan, created, event, tick, request, clock, deaths>>
      BY <1>1 DEF triggerVars
  <2>2. TypesOK' /\ HeldOnce' /\ HeldIsDue'
      BY <2>1, HoldersKept DEF TriggerInv, TypesOK
  <2> QED BY <2>1, <2>2, RunsKept DEF TriggerInv
<1>2. CASE \E s \in Schedulers : LockDue(s) \/ Fire(s) \/ Die(s)
    BY <1>2, LockDueKept, FireKept, DieKept
<1>3. ASSUME NEW c \in Clients,
             \/ \E p \in Plans : UpdatePlan(c, p) \/ SetEnabled(c, p)
             \/ Write(c)
             \/ \E d \in Deliveries, body \in Bodies : Deliver(c, d, body)
             \/ \E p \in Plans, e \in Envs : CreateRun(c, p, e)
             \/ StoreEvent(c) \/ Abandon(c)
      PROVE  TriggerInv'
    BY <1>3, UpdateKept, WriteKept, DeliverKept, CreateRunKept, StoreEventKept, AbandonKept
<1> QED BY <1>1, <1>2, <1>3, TimePassesKept, DeletePlanKept, ExecutePlanKept DEF NextTrigger

(* The inductive invariant holds in every reachable state.                   *)
THEOREM TriggerInvariance == SpecTrigger => []TriggerInv
BY InitTriggerInv, NextTriggerInv, PTL DEF SpecTrigger

(* The state keeps its types, also after a write of single columns.          *)
THEOREM TriggerTypeCorrect == SpecTrigger => []TriggerTypeOK
<1>1. TriggerInv => TriggerTypeOK
    BY DEF TriggerInv, TypesOK
<1> QED BY <1>1, TriggerInvariance, PTL

(* No trigger runs twice, and no two requests are mixed up, whatever         *)
(* schedulers and deliveries race (run_due_plans, create_webhook_runs).      *)
THEOREM Idempotent == SpecTrigger => []TriggersAreIdempotent
<1>1. TriggerInv => FiredOnce
    BY DEF TriggerInv, KeysOK, FiredOnce
<1>2. TriggerInv => EventKeepsItsBody
    BY DEF TriggerInv, EventsOK, Known, EventKeepsItsBody
<1>3. TriggerInv => TriggersAreIdempotent
    BY <1>1, <1>2 DEF TriggersAreIdempotent
<1> QED BY <1>3, TriggerInvariance, PTL

(* What a scheduler holds until its commit stays due, and is held by no      *)
(* other one: no update comes between the SELECT ... FOR UPDATE and the runs *)
(* (run_due_plans).                                                          *)
THEOREM HeldStaysDue == SpecTrigger => [](HeldOnce /\ HeldIsDue)
<1>1. TriggerInv => HeldOnce /\ HeldIsDue
    BY DEF TriggerInv
<1> QED BY <1>1, TriggerInvariance, PTL
=============================================================================
