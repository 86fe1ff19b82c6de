------------------------ MODULE AgentExecutionProofs ------------------------
(***************************************************************************)
(* Theorems about AgentExecution, for any number of calls, processes,        *)
(* reconcile requests and recoveries.                                        *)
(***************************************************************************)
EXTENDS AgentExecution, FiniteSetTheorems, TLAPS

-----------------------------------------------------------------------------
(* The inductive invariant *)

(* A process at work has a call that exists; it has a queue row unless it    *)
(* executes inline.                                                          *)
Busy ==
    \A w \in Workers :
        /\ proc[w].phase # "idle" =>
               /\ proc[w].call \in Calls
               /\ call[proc[w].call].status # "absent"
        /\ proc[w].phase \in {"sent", "found", "delivered"} => proc[w].call \in Committing
        /\ proc[w].phase # "idle" => (proc[w].queued <=> item[proc[w].call] # "absent")

(* A call that does not exist yet has no queue row, no output and no block. *)
Enqueued ==
    \A c \in Calls :
        call[c].status = "absent" => item[c] = "absent" /\ ~call[c].output /\ block[c] = "absent"

(* What is stored under a key is stored by one process before it sends, and  *)
(* only by that one.                                                         *)
Stores ==
    /\ \A w \in Workers :
           /\ proc[w].phase = "sent" /\ proc[w].call \in Keyed =>
                  proc[w].call \in scenarioRun /\ effects[proc[w].call] = 0
           /\ proc[w].phase = "found" => proc[w].call \in scenarioRun
           /\ proc[w].phase = "delivered" =>
                  /\ effects[proc[w].call] > 0
                  /\ proc[w].call \in Keyed => proc[w].call \in scenarioRun
    /\ \A v, w \in Workers :
           /\ proc[v].phase = "sent"
           /\ proc[w].phase = "sent"
           /\ proc[v].call = proc[w].call
           /\ proc[v].call \in Keyed
           => v = w
    /\ \A c \in Keyed : effects[c] > 0 => c \in scenarioRun

(* The output of a scenario exists only after it was sent, or stored under   *)
(* its key.                                                                  *)
Outputs ==
    \A c \in Committing :
        call[c].output => IF c \in Keyed THEN c \in scenarioRun ELSE effects[c] > 0

(* What a reconcile request remembers of its call is out of date at most in  *)
(* one direction: outputs stay, and the queue row is not runnable any more.  *)
Remembered ==
    \A r \in Requests :
        seen[r].call # None =>
            /\ seen[r].call \in Calls
            /\ seen[r].row.output => call[seen[r].call].output
            /\ call[seen[r].call].status # "absent"
            /\ item[seen[r].call] \notin {"queued", "leased"}

IInv ==
    /\ TypeOK
    /\ Busy
    /\ Enqueued
    /\ Stores
    /\ Outputs
    /\ Remembered
    /\ KeyedOnce
    /\ RunnableIsUnfinished
    /\ SucceededHasOutput

-----------------------------------------------------------------------------
(* Rows and processes keep their types. *)

(* Setting the status of a call. *)
LEMMA StatusTyped ==
    ASSUME NEW f \in [Calls -> Call], NEW c \in Calls, NEW x \in CallStatuses
    PROVE  /\ [f EXCEPT ![c].status = x] \in [Calls -> Call]
           /\ [f[c] EXCEPT !.status = x] \in Call
<1>1. [f[c] EXCEPT !.status = x] \in Call
    BY DEF Call
<1> QED BY <1>1

(* Setting status and effect state of a call. *)
LEMMA EffectTyped ==
    ASSUME NEW f \in [Calls -> Call], NEW c \in Calls, NEW x \in CallStatuses, NEW e \in EffectStates
    PROVE  /\ [f EXCEPT ![c].status = x, ![c].effect = e] \in [Calls -> Call]
           /\ [f[c] EXCEPT !.status = x, !.effect = e] \in Call
<1>1. [f[c] EXCEPT !.status = x, !.effect = e] \in Call
    BY DEF Call
<1> QED BY <1>1

(* An event of the run only makes processes out of date. *)
LEMMA OutdatedTyped ==
    ASSUME TypeOK
    PROVE  /\ Outdated \in [Workers -> Proc]
           /\ \A w \in Workers :
                  /\ Outdated[w].phase = proc[w].phase
                  /\ Outdated[w].call = proc[w].call
                  /\ Outdated[w].queued = proc[w].queued
<1>1. ASSUME NEW w \in Workers
      PROVE  [proc[w] EXCEPT !.fresh = @ /\ proc[w].phase # "claimed"] \in Proc
    BY DEF TypeOK, Proc
<1> QED BY <1>1 DEF Outdated, TypeOK, Proc

(* A process moves on. *)
LEMMA MoveTyped ==
    ASSUME NEW procs \in [Workers -> Proc], NEW w \in Workers, NEW p \in Phases
    PROVE  /\ [procs EXCEPT ![w].phase = p] \in [Workers -> Proc]
           /\ [procs EXCEPT ![w].phase = p][w].phase = p
           /\ [procs EXCEPT ![w].phase = p][w].call = procs[w].call
           /\ [procs EXCEPT ![w].phase = p][w].queued = procs[w].queued
           /\ \A v \in Workers \ {w} : [procs EXCEPT ![w].phase = p][v] = procs[v]
<1>1. [procs[w] EXCEPT !.phase = p] \in Proc
    BY DEF Proc
<1> QED BY <1>1 DEF Proc

(* A process is done. *)
LEMMA LeaveTyped ==
    ASSUME NEW procs \in [Workers -> Proc], NEW w \in Workers
    PROVE  /\ Leave(procs, w) \in [Workers -> Proc]
           /\ Leave(procs, w)[w] = Idle
           /\ \A v \in Workers \ {w} : Leave(procs, w)[v] = procs[v]
BY DEF Leave, Proc, Idle, Phases

-----------------------------------------------------------------------------
(* The end of an execution *)

(* A commit that ends an execution keeps the invariant, if the row it writes *)
(* loses no output and claims none that was not produced.                    *)
LEMMA EndKeeps ==
    ASSUME IInv, NEW w \in Workers, NEW row \in Call, NEW s \in {"completed", "failed"},
           proc[w].phase # "idle",
           row.status # "absent",
           call[proc[w].call].output => row.output,
           row.status = "succeeded" => row.output,
           row.output =>
               \/ call[proc[w].call].output
               \/ proc[w].call \notin Committing
               \/ IF proc[w].call \in Keyed THEN proc[w].call \in scenarioRun
                                            ELSE effects[proc[w].call] > 0,
           proc' \in {Leave(proc, w), Leave(Outdated, w)},
           End(w, row, s)
    PROVE  IInv'
<1> DEFINE c == proc[w].call
<1>1. c \in Calls /\ call[c].status # "absent"
    BY DEF IInv, Busy
<1>2. call' = [call EXCEPT ![c] = row]
    BY DEF End
<1>3. item' = IF proc[w].queued THEN [item EXCEPT ![c] = s] ELSE item
    BY DEF End
<1>4. UNCHANGED <<block, seen, scenarioRun, effects, recovered>>
    BY DEF End
<1>5. /\ proc' \in [Workers -> Proc]
      /\ proc'[w] = Idle
      /\ \A v \in Workers \ {w} : /\ proc'[v].phase = proc[v].phase
                                  /\ proc'[v].call = proc[v].call
                                  /\ proc'[v].queued = proc[v].queued
    BY LeaveTyped, OutdatedTyped DEF IInv, TypeOK
<1>6. proc'[w].phase = "idle"
    BY <1>5 DEF Idle
<1>7. call' \in [Calls -> Call] /\ item' \in [Calls -> ItemStatuses]
    BY <1>1, <1>2, <1>3 DEF IInv, TypeOK, ItemStatuses
<1>8. TypeOK'
    BY <1>4, <1>5, <1>7 DEF IInv, TypeOK
<1>9. /\ \A d \in Calls \ {c} : call'[d] = call[d] /\ item'[d] = item[d]
      /\ call'[c] = row
      /\ item'[c] = IF proc[w].queued THEN s ELSE item[c]
    BY <1>1, <1>2, <1>3 DEF IInv, TypeOK
<1>10. proc[w].queued <=> item[c] # "absent"
    BY DEF IInv, Busy
<1>11. Busy'
  <2> SUFFICES ASSUME NEW v \in Workers, proc'[v].phase # "idle"
               PROVE  /\ proc'[v].call \in Calls
                      /\ call'[proc'[v].call].status # "absent"
                      /\ proc'[v].phase \in {"sent", "found", "delivered"} => proc'[v].call \in Committing
                      /\ proc'[v].queued <=> item'[proc'[v].call] # "absent"
    BY DEF Busy
  <2>1. v # w
    BY <1>6
  <2>2. /\ proc[v].call \in Calls
        /\ call[proc[v].call].status # "absent"
        /\ proc[v].phase \in {"sent", "found", "delivered"} => proc[v].call \in Committing
        /\ proc[v].queued <=> item[proc[v].call] # "absent"
    BY <2>1, <1>5 DEF IInv, Busy
  <2>3. proc[v].call = c => (proc[v].queued <=> proc[w].queued)
    BY <2>2 DEF IInv, Busy
  <2> QED BY <2>1, <2>2, <2>3, <1>5, <1>9, <1>10
<1>12. Enqueued'
    BY <1>1, <1>4, <1>9 DEF IInv, Enqueued
<1>13. Stores'
    BY <1>4, <1>5, <1>6 DEF IInv, Stores
<1>14. Outputs'
    BY <1>1, <1>4, <1>9, ConstantsAssumption DEF IInv, Outputs
<1>15. Remembered'
    BY <1>1, <1>4, <1>9 DEF IInv, Remembered
<1>16. KeyedOnce'
    BY <1>4 DEF IInv, KeyedOnce
<1>17. RunnableIsUnfinished'
    BY <1>1, <1>9, <1>10 DEF IInv, RunnableIsUnfinished
<1>18. SucceededHasOutput'
    BY <1>1, <1>9 DEF IInv, SucceededHasOutput
<1> QED
    BY <1>8, <1>11, <1>12, <1>13, <1>14, <1>15, <1>16, <1>17, <1>18 DEF IInv

(* A refused execution ends without an output. *)
LEMMA RefuseKeeps == ASSUME IInv, NEW w \in Workers, Refuse(w) PROVE IInv'
<1>1. PICK s \in {"failed", "manual_intervention"} :
          End(w, [call[proc[w].call] EXCEPT !.status = s], "failed")
    BY DEF Refuse
<1>2. proc[w].call \in Calls
    BY DEF IInv, Busy, Refuse
<1>3. [call[proc[w].call] EXCEPT !.status = s] \in Call
    BY <1>2, StatusTyped DEF IInv, TypeOK, CallStatuses
<1>4. call[proc[w].call] \in Call
    BY <1>2 DEF IInv, TypeOK
<1> QED BY <1>1, <1>3, <1>4, EndKeeps DEF Refuse, Call

(* An execution that collides ends like a refused one. *)
LEMMA CollideKeeps == ASSUME IInv, NEW w \in Workers, Collide(w) PROVE IInv'
<1>1. proc[w].call \in Calls
    BY DEF IInv, Busy, Collide
<1>2. [call[proc[w].call] EXCEPT !.status = "failed"] \in Call
    BY <1>1, StatusTyped DEF IInv, TypeOK, CallStatuses
<1>3. call[proc[w].call] \in Call
    BY <1>1 DEF IInv, TypeOK
<1> QED BY <1>2, <1>3, EndKeeps DEF Collide, Call

(* A success is written only after the scenario was delivered or found. *)
LEMMA SucceedKeeps == ASSUME IInv, NEW w \in Workers, Succeed(w) PROVE IInv'
<1> DEFINE row == [status |-> "succeeded", effect |-> "effect_committed", output |-> TRUE]
<1>1. proc[w].phase # "idle"
    BY DEF Succeed, Answered
<1>2. row \in Call
    BY DEF Call, CallStatuses, EffectStates
<1>3. \/ proc[w].call \notin Committing
      \/ IF proc[w].call \in Keyed THEN proc[w].call \in scenarioRun ELSE effects[proc[w].call] > 0
    BY DEF Succeed, Answered, IInv, TypeOK, Stores
<1> QED BY <1>1, <1>2, <1>3, EndKeeps DEF Succeed

(* A backend that raises leaves no output. *)
LEMMA RaiseKeeps == ASSUME IInv, NEW w \in Workers, Raise(w) PROVE IInv'
<1> DEFINE c == proc[w].call
<1>1. PICK e \in {"transport_sent_observed", call[c].effect} :
          End(w, [call[c] EXCEPT !.status = "failed", !.effect = e], "failed")
    BY DEF Raise
<1>2. c \in Calls /\ proc[w].phase # "idle"
    BY DEF IInv, Busy, Raise
<1>3. call[c] \in Call
    BY <1>2 DEF IInv, TypeOK
<1>4. e \in EffectStates
    BY <1>3 DEF Call, EffectStates
<1>5. [call[c] EXCEPT !.status = "failed", !.effect = e] \in Call
    BY <1>2, <1>4, EffectTyped DEF IInv, TypeOK, CallStatuses
<1> QED BY <1>1, <1>2, <1>3, <1>5, EndKeeps DEF Raise, Call

(* An execution whose last events are lost leaves an uncertain call. *)
LEMMA LoseEventsKeeps == ASSUME IInv, NEW w \in Workers, LoseEvents(w) PROVE IInv'
<1>1. proc[w].call \in Calls /\ proc[w].phase # "idle"
    BY DEF IInv, Busy, LoseEvents, Answered
<1>2. [call[proc[w].call] EXCEPT !.status = "uncertain"] \in Call
    BY <1>1, StatusTyped DEF IInv, TypeOK, CallStatuses
<1>3. call[proc[w].call] \in Call
    BY <1>1 DEF IInv, TypeOK
<1> QED BY <1>1, <1>2, <1>3, EndKeeps DEF LoseEvents, Call

-----------------------------------------------------------------------------
(* Rows that change without an execution *)

(* A request that writes the status of one call keeps the invariant, if it   *)
(* makes no runnable call look finished and claims no output.                *)
LEMMA StatusKeeps ==
    ASSUME IInv, NEW c \in Calls, NEW row \in Call,
           call[c].status # "absent",
           row.status # "absent",
           row.output = call[c].output,
           row.status = "succeeded" => row.output,
           item[c] \in {"queued", "leased"} => row.status = call[c].status,
           call' = [call EXCEPT ![c] = row],
           block' \in [Calls -> BlockStatuses],
           \A d \in Calls \ {c} : block'[d] = block[d],
           proc' = Outdated,
           seen' \in [Requests -> Seen],
           \A r \in Requests : seen'[r] = seen[r] \/ seen'[r].call = None,
           UNCHANGED <<item, scenarioRun, effects, recovered>>
    PROVE  IInv'
<1>1. /\ proc' \in [Workers -> Proc]
      /\ \A v \in Workers : /\ proc'[v].phase = proc[v].phase
                            /\ proc'[v].call = proc[v].call
                            /\ proc'[v].queued = proc[v].queued
    BY OutdatedTyped DEF IInv
<1>2. call' \in [Calls -> Call]
    BY DEF IInv, TypeOK
<1>3. /\ \A d \in Calls \ {c} : call'[d] = call[d]
      /\ call'[c] = row
    BY DEF IInv, TypeOK
<1>4. TypeOK'
    BY <1>1, <1>2 DEF IInv, TypeOK
<1>5. Busy'
    BY <1>1, <1>3 DEF IInv, Busy
<1>6. Enqueued'
    BY <1>3 DEF IInv, Enqueued
<1>7. Stores'
    BY <1>1 DEF IInv, Stores
<1>8. Outputs'
    BY <1>3, ConstantsAssumption DEF IInv, Outputs
<1>9. Remembered'
    BY <1>3 DEF IInv, Remembered
<1>10. KeyedOnce'
    BY DEF IInv, KeyedOnce
<1>11. RunnableIsUnfinished'
    BY <1>3 DEF IInv, RunnableIsUnfinished
<1>12. SucceededHasOutput'
    BY <1>3 DEF IInv, SucceededHasOutput
<1> QED
    BY <1>4, <1>5, <1>6, <1>7, <1>8, <1>9, <1>10, <1>11, <1>12 DEF IInv

(* Other requests lose what they remember of the call a request commits. *)
LEMMA CommitForgets ==
    ASSUME TypeOK, NEW r \in Requests, Commit(r)
    PROVE  /\ seen' \in [Requests -> Seen]
           /\ \A q \in Requests : seen'[q] = seen[q] \/ seen'[q].call = None
<1>1. Nothing \in Seen /\ Nothing.call = None
    BY DEF Nothing, Seen, Absent, Call, CallStatuses, EffectStates
<1> QED BY <1>1 DEF TypeOK, Commit

(* Reconciliation with an adapter. *)
LEMMA ReconcileKeeps == ASSUME IInv, NEW r \in Requests, Reconcile(r) PROVE IInv'
<1> DEFINE c == seen[r].call
           status == Reconciled(seen[r].row)
           e == IF status = "succeeded" /\ seen[r].row.effect # "effect_committed"
                THEN "effect_committed" ELSE call[c].effect
           row == [call[c] EXCEPT !.status = status, !.effect = e]
<1>1. c # None
    BY DEF Reconcile
<1>2. /\ c \in Calls
      /\ seen[r].row.output => call[c].output
      /\ call[c].status # "absent"
      /\ item[c] \notin {"queued", "leased"}
    BY <1>1 DEF IInv, Remembered
<1>3. call[c] \in Call
    BY <1>2 DEF IInv, TypeOK
<1>4. /\ status \in {"succeeded", "uncertain", "manual_intervention"}
      /\ status = "succeeded" => call[c].output
    BY <1>2 DEF Reconciled
<1>5. status \in CallStatuses /\ e \in EffectStates
    BY <1>3, <1>4 DEF CallStatuses, EffectStates, Call
<1>6. row \in Call
    BY <1>2, <1>5, EffectTyped DEF IInv, TypeOK
<1>7. row.status = status /\ row.output = call[c].output
    BY <1>3 DEF Call
<1>8. call' = [call EXCEPT ![c] = row]
    BY <1>2, <1>3 DEF Reconcile, Call, IInv, TypeOK
<1>9. /\ seen' \in [Requests -> Seen]
      /\ \A q \in Requests : seen'[q] = seen[q] \/ seen'[q].call = None
    BY CommitForgets DEF Reconcile, IInv
<1>10. /\ block' \in [Calls -> BlockStatuses]
       /\ \A d \in Calls \ {c} : block'[d] = block[d]
    BY DEF Reconcile, IInv, TypeOK
<1>11. proc' = Outdated /\ UNCHANGED <<item, scenarioRun, effects, recovered>>
    BY DEF Reconcile
<1> HIDE DEF c, status, e, row
<1> QED
    BY <1>2, <1>4, <1>6, <1>7, <1>8, <1>9, <1>10, <1>11, StatusKeeps

(* Reconciliation of a backend without an adapter. *)
LEMMA ReconcileUnsupportedKeeps ==
    ASSUME IInv, NEW r \in Requests, ReconcileUnsupported(r) PROVE IInv'
<1> DEFINE c == seen[r].call
           row == [call[c] EXCEPT !.status = "needs_migration"]
<1>1. c \in NoAdapter
    BY DEF ReconcileUnsupported
<1>2. c # None
    BY <1>1, ConstantsAssumption
<1>3. /\ c \in Calls
      /\ call[c].status # "absent"
      /\ item[c] \notin {"queued", "leased"}
    BY <1>2 DEF IInv, Remembered
<1>4. row \in Call
    BY <1>3, StatusTyped DEF IInv, TypeOK, CallStatuses
<1>5. call[c] \in Call
    BY <1>3 DEF IInv, TypeOK
<1>6. row.status = "needs_migration" /\ row.output = call[c].output
    BY <1>5 DEF Call
<1>7. call' = [call EXCEPT ![c] = row]
    BY <1>3, <1>5 DEF ReconcileUnsupported, IInv, TypeOK
<1>8. /\ seen' \in [Requests -> Seen]
      /\ \A q \in Requests : seen'[q] = seen[q] \/ seen'[q].call = None
    BY CommitForgets DEF ReconcileUnsupported, IInv
<1>9. /\ block' \in [Calls -> BlockStatuses]
      /\ \A d \in Calls \ {c} : block'[d] = block[d]
    BY DEF ReconcileUnsupported, IInv, TypeOK, BlockStatuses
<1>10. proc' = Outdated /\ UNCHANGED <<item, scenarioRun, effects, recovered>>
    BY DEF ReconcileUnsupported
<1> HIDE DEF c, row
<1> QED
    BY <1>3, <1>4, <1>6, <1>7, <1>8, <1>9, <1>10, StatusKeeps

(* A block is resolved. *)
LEMMA ResolveBlockKeeps == ASSUME IInv, NEW c \in Calls, ResolveBlock(c) PROVE IInv'
<1> DEFINE row == IF call[c].status = "needs_migration"
                  THEN [call[c] EXCEPT !.status = "reconciling"] ELSE call[c]
<1>1. call[c] \in Call
    BY DEF IInv, TypeOK
<1>2. row \in Call
    BY <1>1, StatusTyped DEF IInv, TypeOK, CallStatuses
<1>3. /\ row.output = call[c].output
      /\ row.status = IF call[c].status = "needs_migration" THEN "reconciling" ELSE call[c].status
    BY <1>1 DEF Call
<1>4. call' = [call EXCEPT ![c] = row]
    BY <1>1 DEF ResolveBlock, IInv, TypeOK
<1>5. row.status = "succeeded" => row.output
    BY <1>3 DEF IInv, SucceededHasOutput
<1>6. item[c] \in {"queued", "leased"} => row.status = call[c].status
    BY <1>3 DEF IInv, RunnableIsUnfinished
<1>7. /\ block' \in [Calls -> BlockStatuses]
      /\ \A d \in Calls \ {c} : block'[d] = block[d]
    BY DEF ResolveBlock, IInv, TypeOK, BlockStatuses
<1>8. /\ seen' \in [Requests -> Seen]
      /\ \A q \in Requests : seen'[q] = seen[q]
    BY DEF ResolveBlock, IInv, TypeOK
<1>9. call[c].status # "absent"
    BY DEF ResolveBlock, IInv, Enqueued
<1>10. proc' = Outdated /\ UNCHANGED <<item, scenarioRun, effects, recovered>>
    BY DEF ResolveBlock
<1> HIDE DEF row
<1> QED
    BY <1>2, <1>3, <1>4, <1>5, <1>6, <1>7, <1>8, <1>9, <1>10, StatusKeeps

-----------------------------------------------------------------------------
(* The queue and the steps of an execution *)

(* A call is created, with or without a queue row. *)
LEMMA CreateKeeps == ASSUME IInv, NEW c \in Calls, NEW e \in BOOLEAN, Create(c, e) PROVE IInv'
<1>1. /\ proc' \in [Workers -> Proc]
      /\ \A v \in Workers : /\ proc'[v].phase = proc[v].phase
                            /\ proc'[v].call = proc[v].call
                            /\ proc'[v].queued = proc[v].queued
    BY OutdatedTyped DEF IInv, Create
<1>2. call' \in [Calls -> Call]
    BY StatusTyped DEF IInv, TypeOK, Create, CallStatuses
<1>3. item' \in [Calls -> ItemStatuses]
    BY DEF IInv, TypeOK, Create, ItemStatuses
<1>4. TypeOK'
    BY <1>1, <1>2, <1>3 DEF IInv, TypeOK, Create
<1>5. /\ \A d \in Calls \ {c} : call'[d] = call[d] /\ item'[d] = item[d]
      /\ call'[c].status = "planned"
      /\ call'[c].output = call[c].output
      /\ item'[c] \in {"queued", "absent"}
    BY DEF IInv, TypeOK, Create, Enqueued, Call
<1>6. Busy'
    BY <1>1, <1>5 DEF IInv, Busy, Create
<1>7. Enqueued'
    BY <1>5 DEF IInv, Enqueued, Create
<1>8. Stores'
    BY <1>1 DEF IInv, Stores, Create
<1>9. Outputs'
    BY <1>5, ConstantsAssumption DEF IInv, Outputs, Create
<1>10. Remembered'
    BY <1>5 DEF IInv, Remembered, Create
<1>11. KeyedOnce'
    BY DEF IInv, KeyedOnce, Create
<1>12. RunnableIsUnfinished'
    BY <1>5 DEF IInv, RunnableIsUnfinished
<1>13. SucceededHasOutput'
    BY <1>5 DEF IInv, SucceededHasOutput
<1> QED
    BY <1>4, <1>6, <1>7, <1>8, <1>9, <1>10, <1>11, <1>12, <1>13 DEF IInv

(* A worker claims a queued call. *)
LEMMA ClaimKeeps == ASSUME IInv, NEW w \in Workers, NEW c \in Calls, Claim(w, c) PROVE IInv'
<1>1. call' \in [Calls -> Call]
    BY StatusTyped DEF IInv, TypeOK, Claim, CallStatuses
<1>2. item' \in [Calls -> ItemStatuses]
    BY DEF IInv, TypeOK, Claim, ItemStatuses
<1>3. /\ proc' \in [Workers -> Proc]
      /\ proc'[w] = [phase |-> "claimed", call |-> c, queued |-> TRUE, fresh |-> TRUE]
      /\ \A v \in Workers \ {w} : proc'[v] = proc[v]
    BY DEF IInv, TypeOK, Claim, Proc, Phases
<1>4. TypeOK'
    BY <1>1, <1>2, <1>3 DEF IInv, TypeOK, Claim
<1>5. /\ \A d \in Calls \ {c} : call'[d] = call[d] /\ item'[d] = item[d]
      /\ call'[c].status = "leased"
      /\ call'[c].output = call[c].output
      /\ item'[c] = "leased"
    BY DEF IInv, TypeOK, Claim, Call
<1>6. call[c].status # "absent" /\ item[c] = "queued"
    BY DEF IInv, Enqueued, Claim
<1>7. Busy'
    BY <1>3, <1>5, <1>6 DEF IInv, Busy
<1>8. Enqueued'
    BY <1>5 DEF IInv, Enqueued, Claim
<1>9. Stores'
    BY <1>3 DEF IInv, Stores, Claim
<1>10. Outputs'
    BY <1>5, ConstantsAssumption DEF IInv, Outputs, Claim
<1>11. Remembered'
    BY <1>5, <1>6 DEF IInv, Remembered, Claim
<1>12. KeyedOnce'
    BY DEF IInv, KeyedOnce, Claim
<1>13. RunnableIsUnfinished'
    BY <1>5 DEF IInv, RunnableIsUnfinished
<1>14. SucceededHasOutput'
    BY <1>5 DEF IInv, SucceededHasOutput
<1> QED
    BY <1>4, <1>7, <1>8, <1>9, <1>10, <1>11, <1>12, <1>13, <1>14 DEF IInv

(* A lease is found expired. *)
LEMMA RecoverOrphanKeeps == ASSUME IInv, NEW c \in Calls, RecoverOrphan(c) PROVE IInv'
<1>1. call' \in [Calls -> Call]
    BY StatusTyped DEF IInv, TypeOK, RecoverOrphan, CallStatuses
<1>2. item' \in [Calls -> ItemStatuses]
    BY DEF IInv, TypeOK, RecoverOrphan, ItemStatuses
<1>3. recovered' \in [Calls -> 0..MaxRecoveries]
    BY ConstantsAssumption DEF IInv, TypeOK, RecoverOrphan
<1>4. TypeOK'
    BY <1>1, <1>2, <1>3 DEF IInv, TypeOK, RecoverOrphan
<1>5. /\ \A d \in Calls \ {c} : call'[d] = call[d] /\ item'[d] = item[d]
      /\ call'[c].status = IF call[c].status = "leased" THEN "planned" ELSE call[c].status
      /\ call'[c].output = call[c].output
      /\ item'[c] = "queued"
    BY DEF IInv, TypeOK, RecoverOrphan, Call
<1>6. item[c] = "leased" /\ call[c].status \in {"planned", "leased", "running_pre_effect"}
    BY DEF IInv, RunnableIsUnfinished, RecoverOrphan
<1>7. Busy'
    BY <1>5, <1>6 DEF IInv, Busy, RecoverOrphan
<1>8. Enqueued'
    BY <1>5, <1>6 DEF IInv, Enqueued, RecoverOrphan
<1>9. Stores'
    BY DEF IInv, Stores, RecoverOrphan
<1>10. Outputs'
    BY <1>5, ConstantsAssumption DEF IInv, Outputs, RecoverOrphan
<1>11. Remembered'
    BY <1>5, <1>6 DEF IInv, Remembered, RecoverOrphan
<1>12. KeyedOnce'
    BY DEF IInv, KeyedOnce, RecoverOrphan
<1>13. RunnableIsUnfinished'
    BY <1>5, <1>6 DEF IInv, RunnableIsUnfinished
<1>14. SucceededHasOutput'
    BY <1>5, <1>6 DEF IInv, SucceededHasOutput
<1> QED
    BY <1>4, <1>7, <1>8, <1>9, <1>10, <1>11, <1>12, <1>13, <1>14 DEF IInv

(* Steps that leave the rows alone, and move processes only to places that   *)
(* say nothing about scenarios, keep the invariant.                          *)
LEMMA PlacesKeep ==
    ASSUME IInv, proc' \in [Workers -> Proc],
           \A v \in Workers :
               \/ proc'[v].phase = "idle"
               \/ /\ proc'[v].phase \in {proc[v].phase, "open", "claimed"}
                  /\ proc[v].phase # "idle"
                  /\ proc'[v].call = proc[v].call
                  /\ proc'[v].queued = proc[v].queued
               \/ /\ proc'[v].phase = "claimed"
                  /\ proc'[v].call \in Calls
                  /\ call[proc'[v].call].status # "absent"
                  /\ proc'[v].queued <=> item[proc'[v].call] # "absent",
           UNCHANGED <<call, item, block, seen, scenarioRun, effects, recovered>>
    PROVE  IInv'
<1>1. TypeOK'
    BY DEF IInv, TypeOK
<1>2. Busy'
    BY DEF IInv, Busy
<1>3. Stores'
    BY DEF IInv, Stores
<1>4. Enqueued' /\ Outputs' /\ Remembered'
    BY DEF IInv, Enqueued, Outputs, Remembered
<1>5. KeyedOnce' /\ RunnableIsUnfinished' /\ SucceededHasOutput'
    BY DEF IInv, KeyedOnce, RunnableIsUnfinished, SucceededHasOutput
<1> QED BY <1>1, <1>2, <1>3, <1>4, <1>5 DEF IInv

(* The runner starts the call it created. *)
LEMMA StartInlineKeeps == ASSUME IInv, NEW w \in Workers, NEW c \in Calls, StartInline(w, c) PROVE IInv'
<1>1. /\ proc' \in [Workers -> Proc]
      /\ proc'[w] = [phase |-> "claimed", call |-> c, queued |-> FALSE, fresh |-> TRUE]
      /\ \A v \in Workers \ {w} : proc'[v] = proc[v]
    BY DEF IInv, TypeOK, StartInline, Proc, Phases
<1> QED BY <1>1, PlacesKeep DEF StartInline

(* A process dies. *)
LEMMA CrashKeeps == ASSUME IInv, NEW w \in Workers, Crash(w) PROVE IInv'
<1>1. /\ proc' \in [Workers -> Proc]
      /\ proc'[w].phase = "idle"
      /\ \A v \in Workers \ {w} : proc'[v] = proc[v]
    BY LeaveTyped DEF IInv, TypeOK, Crash, Leave, Idle
<1> QED BY <1>1, PlacesKeep DEF Crash

(* An event of somebody else. *)
LEMMA AppendEventKeeps == ASSUME IInv, AppendEvent PROVE IInv'
BY OutdatedTyped, PlacesKeep DEF IInv, AppendEvent

(* The first events of an execution are flushed. *)
LEMMA BeginKeeps == ASSUME IInv, NEW w \in Workers, Begin(w) PROVE IInv'
<1>1. /\ proc' \in [Workers -> Proc]
      /\ proc'[w].phase = "open"
      /\ proc'[w].call = proc[w].call
      /\ proc'[w].queued = proc[w].queued
      /\ \A v \in Workers \ {w} : proc'[v] = proc[v]
  <2>1. "open" \in Phases /\ proc \in [Workers -> Proc]
      BY DEF Phases, IInv, TypeOK
  <2>2. proc' = [proc EXCEPT ![w].phase = "open"]
      BY DEF Begin, Move
  <2> QED BY <2>1, <2>2, MoveTyped
<1> QED BY <1>1, PlacesKeep DEF Begin

(* The commit in the middle of a scenario: a keyed scenario run is stored    *)
(* before it is sent.                                                        *)
LEMMA DispatchKeeps == ASSUME IInv, NEW w \in Workers, Dispatch(w) PROVE IInv'
<1> DEFINE c == proc[w].call
           p == IF Stored(c) THEN "found" ELSE "sent"
<1>1. /\ c \in Calls /\ c \in Committing
      /\ call[c].status # "absent"
      /\ proc[w].phase = "open"
    BY DEF IInv, Busy, Dispatch
<1>2. /\ proc' \in [Workers -> Proc]
      /\ proc'[w].phase = p
      /\ proc'[w].call = c
      /\ proc'[w].queued = proc[w].queued
      /\ \A v \in Workers \ {w} : /\ proc'[v].phase = proc[v].phase
                                  /\ proc'[v].call = proc[v].call
                                  /\ proc'[v].queued = proc[v].queued
  <2>1. p \in Phases
      BY DEF Phases
  <2>2. proc' = [Outdated EXCEPT ![w].phase = p]
      BY DEF Dispatch
  <2> HIDE DEF c, p
  <2>3. /\ Outdated \in [Workers -> Proc]
        /\ \A v \in Workers : /\ Outdated[v].phase = proc[v].phase
                              /\ Outdated[v].call = proc[v].call
                              /\ Outdated[v].queued = proc[v].queued
      BY OutdatedTyped DEF IInv
  <2>4. /\ proc' \in [Workers -> Proc]
        /\ proc'[w].phase = p
        /\ proc'[w].call = Outdated[w].call
        /\ proc'[w].queued = Outdated[w].queued
        /\ \A v \in Workers \ {w} : proc'[v] = Outdated[v]
      BY <2>1, <2>2, <2>3, MoveTyped
  <2> QED BY <2>3, <2>4 DEF c
<1>3. call' \in [Calls -> Call]
    BY <1>1, EffectTyped DEF IInv, TypeOK, Dispatch, CallStatuses, EffectStates
<1>4. /\ \A d \in Calls \ {c} : call'[d] = call[d]
      /\ call'[c].status = "running_pre_effect"
      /\ call'[c].output = call[c].output
    BY <1>1 DEF IInv, TypeOK, Dispatch, Call
<1>5. scenarioRun' = scenarioRun \cup ({c} \cap Keyed)
    BY DEF Dispatch
<1>6. TypeOK'
    BY <1>2, <1>3, <1>5 DEF IInv, TypeOK, Dispatch
<1>7. Busy'
  <2>1. UNCHANGED item
      BY DEF Dispatch
  <2>2. \A v \in Workers :
            proc[v].phase # "idle" =>
                /\ proc[v].call \in Calls
                /\ call'[proc[v].call].status # "absent"
                /\ proc[v].queued <=> item'[proc[v].call] # "absent"
      BY <1>4, <2>1 DEF IInv, Busy
  <2>3. \A v \in Workers \ {w} :
            proc[v].phase \in {"sent", "found", "delivered"} => proc[v].call \in Committing
      BY DEF IInv, Busy
  <2> HIDE DEF p
  <2> QED BY <1>1, <1>2, <2>2, <2>3 DEF Busy
<1>8. Enqueued'
    BY <1>4 DEF IInv, Enqueued, Dispatch
<1>9. Stores'
  <2>1. UNCHANGED effects
      BY DEF Dispatch
  <2>2. c \in Keyed /\ c \notin scenarioRun => effects[c] = 0
      BY <1>1 DEF IInv, TypeOK, Stores
  <2>3. p = "found" => c \in scenarioRun
      BY DEF Stored
  <2>4. p = "sent" => c \notin scenarioRun
      BY DEF Stored
  <2>5. c \in Keyed => c \in scenarioRun'
      BY <1>5
  <2> HIDE DEF c, p
  <2>6. \A v \in Workers :
            /\ proc'[v].phase = "sent" /\ proc'[v].call \in Keyed =>
                   proc'[v].call \in scenarioRun' /\ effects'[proc'[v].call] = 0
            /\ proc'[v].phase = "found" => proc'[v].call \in scenarioRun'
            /\ proc'[v].phase = "delivered" =>
                   /\ effects'[proc'[v].call] > 0
                   /\ proc'[v].call \in Keyed => proc'[v].call \in scenarioRun'
      <3> TAKE v \in Workers
      <3>1. CASE v = w
          BY <3>1, <1>2, <1>5, <2>1, <2>2, <2>3, <2>4, <2>5 DEF p
      <3>2. CASE v # w
          BY <3>2, <1>2, <1>5, <2>1 DEF IInv, Stores
      <3> QED BY <3>1, <3>2
  <2>7. \A u, v \in Workers :
            /\ proc'[u].phase = "sent"
            /\ proc'[v].phase = "sent"
            /\ proc'[u].call = proc'[v].call
            /\ proc'[u].call \in Keyed
            => u = v
      BY <1>2, <2>4 DEF IInv, Stores
  <2>8. \A d \in Keyed : effects'[d] > 0 => d \in scenarioRun'
      BY <1>5, <2>1 DEF IInv, Stores
  <2> QED BY <2>6, <2>7, <2>8 DEF Stores
<1>10. Outputs'
    BY <1>4, <1>5, ConstantsAssumption DEF IInv, Outputs, Dispatch
<1>11. Remembered'
    BY ZenonT(30), <1>4 DEF IInv, Remembered, Dispatch
<1>12. KeyedOnce'
    BY DEF IInv, KeyedOnce, Dispatch
<1>13. RunnableIsUnfinished'
    BY <1>4 DEF IInv, RunnableIsUnfinished, Dispatch
<1>14. SucceededHasOutput'
    BY <1>4 DEF IInv, SucceededHasOutput
<1> QED
    BY <1>6, <1>7, <1>8, <1>9, <1>10, <1>11, <1>12, <1>13, <1>14 DEF IInv

(* The steps of a scenario are sent: only the process that stored its key    *)
(* does, and it does so once.                                                *)
LEMMA DeliverKeeps == ASSUME IInv, NEW w \in Workers, Deliver(w) PROVE IInv'
<1> DEFINE c == proc[w].call
<1>1. c \in Calls /\ proc[w].phase = "sent"
    BY DEF IInv, Busy, Deliver
<1>2. /\ proc' \in [Workers -> Proc]
      /\ proc'[w].phase = "delivered"
      /\ proc'[w].call = c
      /\ proc'[w].queued = proc[w].queued
      /\ \A v \in Workers \ {w} : proc'[v] = proc[v]
  <2>1. "delivered" \in Phases /\ proc \in [Workers -> Proc]
      BY DEF Phases, IInv, TypeOK
  <2>2. proc' = [proc EXCEPT ![w].phase = "delivered"]
      BY DEF Deliver, Move
  <2> QED BY <2>1, <2>2, MoveTyped
<1>3. /\ effects' \in [Calls -> Nat]
      /\ effects'[c] = effects[c] + 1
      /\ \A d \in Calls \ {c} : effects'[d] = effects[d]
    BY <1>1 DEF IInv, TypeOK, Deliver
<1>4. effects[c] \in Nat
    BY <1>1 DEF IInv, TypeOK
<1>5. UNCHANGED <<call, item, block, seen, scenarioRun, recovered>>
    BY DEF Deliver
<1>6. TypeOK'
    BY <1>2, <1>3, <1>5 DEF IInv, TypeOK
<1>7. Busy'
    BY <1>1, <1>2, <1>5 DEF IInv, Busy
<1>8. Stores'
  <2>1. c \in Keyed => c \in scenarioRun /\ effects[c] = 0
      BY <1>1 DEF IInv, Stores
  <2>2. \A v \in Workers \ {w} : proc[v].phase = "sent" /\ proc[v].call \in Keyed => proc[v].call # c
      BY <1>1 DEF IInv, Stores
  <2>3. \A v \in Workers : proc[v].phase # "idle" => proc[v].call \in Calls
      BY DEF IInv, Busy
  <2>4. \A d \in Calls : effects'[d] >= effects[d]
      BY <1>3, <1>4 DEF IInv, TypeOK
  <2> HIDE DEF c
  <2>5. \A v \in Workers :
            /\ proc'[v].phase = "sent" /\ proc'[v].call \in Keyed =>
                   proc'[v].call \in scenarioRun' /\ effects'[proc'[v].call] = 0
            /\ proc'[v].phase = "found" => proc'[v].call \in scenarioRun'
            /\ proc'[v].phase = "delivered" =>
                   /\ effects'[proc'[v].call] > 0
                   /\ proc'[v].call \in Keyed => proc'[v].call \in scenarioRun'
      <3> TAKE v \in Workers
      <3>1. CASE v = w
          BY <3>1, <1>2, <1>3, <1>4, <1>5, <2>1
      <3>2. CASE v # w
          BY <3>2, <1>2, <1>3, <1>4, <1>5, <2>2, <2>3 DEF IInv, TypeOK, Stores
      <3> QED BY <3>1, <3>2
  <2>6. \A u, v \in Workers :
            /\ proc'[u].phase = "sent"
            /\ proc'[v].phase = "sent"
            /\ proc'[u].call = proc'[v].call
            /\ proc'[u].call \in Keyed
            => u = v
      BY <1>2 DEF IInv, Stores
  <2>7. \A d \in Keyed : effects'[d] > 0 => d \in scenarioRun'
      BY <1>3, <1>5, <2>1, ConstantsAssumption DEF IInv, Stores
  <2> QED BY <2>5, <2>6, <2>7 DEF Stores
<1>9. Enqueued' /\ Remembered'
    BY <1>5 DEF IInv, Enqueued, Remembered
<1>10. Outputs'
    BY <1>3, <1>4, <1>5, ConstantsAssumption DEF IInv, Outputs
<1>11. KeyedOnce'
    BY <1>1, <1>3, ConstantsAssumption DEF IInv, KeyedOnce, Stores
<1>12. RunnableIsUnfinished' /\ SucceededHasOutput'
    BY <1>5 DEF IInv, RunnableIsUnfinished, SucceededHasOutput
<1> QED
    BY <1>6, <1>7, <1>8, <1>9, <1>10, <1>11, <1>12 DEF IInv

(* A reconcile request takes its snapshot. *)
LEMMA ReadCallKeeps == ASSUME IInv, NEW r \in Requests, NEW c \in Calls, ReadCall(r, c) PROVE IInv'
<1>1. /\ seen' \in [Requests -> Seen]
      /\ seen'[r] = [call |-> c, row |-> call[c], open |-> block[c] = "open"]
      /\ \A q \in Requests \ {r} : seen'[q] = seen[q]
    BY DEF IInv, TypeOK, ReadCall, Seen
<1>2. UNCHANGED <<call, item, block, proc, scenarioRun, effects, recovered>>
    BY DEF ReadCall
<1>3. TypeOK'
    BY <1>1, <1>2 DEF IInv, TypeOK
<1>4. item[c] \notin {"queued", "leased"} /\ call[c].status # "absent"
    BY DEF IInv, RunnableIsUnfinished, ReadCall
<1>5. Remembered'
    BY <1>1, <1>2, <1>4 DEF IInv, Remembered
<1>6. Busy' /\ Enqueued' /\ Stores' /\ Outputs'
    BY <1>2 DEF IInv, Busy, Enqueued, Stores, Outputs
<1>7. KeyedOnce' /\ RunnableIsUnfinished' /\ SucceededHasOutput'
    BY <1>2 DEF IInv, KeyedOnce, RunnableIsUnfinished, SucceededHasOutput
<1> QED BY <1>3, <1>5, <1>6, <1>7 DEF IInv

-----------------------------------------------------------------------------
(* The theorems *)

(* Before the first call is created there is nothing to break. *)
LEMMA InitIInv == Init => IInv
<1> SUFFICES ASSUME Init PROVE IInv
    OBVIOUS
<1>1. Absent \in Call /\ Absent.status = "absent" /\ ~Absent.output
    BY DEF Absent, Call, CallStatuses, EffectStates
<1>2. Idle \in Proc /\ Idle.phase = "idle"
    BY DEF Idle, Proc, Phases
<1>3. Nothing \in Seen /\ Nothing.call = None
    BY <1>1 DEF Nothing, Seen
<1>4. TypeOK
    BY <1>1, <1>2, <1>3, ConstantsAssumption DEF Init, TypeOK, ItemStatuses, BlockStatuses
<1>5. Busy /\ Stores
    BY <1>2, ConstantsAssumption DEF Init, Busy, Stores
<1>6. Enqueued /\ Outputs /\ Remembered
    BY <1>1, <1>3, ConstantsAssumption DEF Init, Enqueued, Outputs, Remembered
<1>7. KeyedOnce /\ RunnableIsUnfinished /\ SucceededHasOutput
    BY <1>1, ConstantsAssumption DEF Init, KeyedOnce, RunnableIsUnfinished, SucceededHasOutput
<1> QED BY <1>4, <1>5, <1>6, <1>7 DEF IInv

(* Every action keeps the invariant. *)
LEMMA NextIInv == IInv /\ [Next]_vars => IInv'
<1> SUFFICES ASSUME IInv, [Next]_vars PROVE IInv'
    OBVIOUS
<1>1. CASE \E c \in Calls, e \in BOOLEAN : Create(c, e)
    BY <1>1, CreateKeeps
<1>2. CASE \E w \in Workers, c \in Calls : Claim(w, c) \/ StartInline(w, c)
    BY <1>2, ClaimKeeps, StartInlineKeeps
<1>3. CASE \E c \in Calls : RecoverOrphan(c) \/ ResolveBlock(c)
    BY <1>3, RecoverOrphanKeeps, ResolveBlockKeeps
<1>4. CASE \E r \in Requests, c \in Calls : ReadCall(r, c)
    BY <1>4, ReadCallKeeps
<1>5. CASE AppendEvent
    BY <1>5, AppendEventKeeps
<1>6. CASE \E r \in Requests : Reconcile(r) \/ ReconcileUnsupported(r)
    BY <1>6, ReconcileKeeps, ReconcileUnsupportedKeeps
<1>7. ASSUME NEW w \in Workers,
             \/ Crash(w) \/ Refuse(w) \/ Begin(w) \/ Collide(w) \/ Dispatch(w)
             \/ Deliver(w) \/ Succeed(w) \/ Raise(w) \/ LoseEvents(w)
      PROVE  IInv'
    BY <1>7, CrashKeeps, RefuseKeeps, BeginKeeps, CollideKeeps, DispatchKeeps,
       DeliverKeeps, SucceedKeeps, RaiseKeeps, LoseEventsKeeps
<1>8. CASE UNCHANGED vars
    BY <1>8 DEF vars, IInv, TypeOK, Busy, Enqueued, Stores, Outputs, Remembered,
       KeyedOnce, RunnableIsUnfinished, SucceededHasOutput
<1> QED
    BY <1>1, <1>2, <1>3, <1>4, <1>5, <1>6, <1>7, <1>8 DEF Next

(* The inductive invariant holds in every reachable state. *)
THEOREM Invariance == Spec => []IInv
BY InitIInv, NextIInv, PTL DEF Spec

(* The state keeps its types. *)
THEOREM TypeCorrect == Spec => []TypeOK
<1>1. IInv => TypeOK
    BY DEF IInv
<1> QED BY <1>1, Invariance, PTL

(* A scenario with an idempotency key is sent at most once, for any number   *)
(* of processes, crashes and lost leases (_execute_dataset).                 *)
THEOREM KeyedIsSentOnce == Spec => []KeyedOnce
<1>1. IInv => KeyedOnce
    BY DEF IInv
<1> QED BY <1>1, Invariance, PTL

(* What a worker may still take was never finished, refused or left          *)
(* uncertain (mark_completed, mark_failed, recover_orphans).                 *)
THEOREM RunnableUnfinished == Spec => []RunnableIsUnfinished
<1>1. IInv => RunnableIsUnfinished
    BY DEF IInv
<1> QED BY <1>1, Invariance, PTL

(* No execution and no reconciliation with an old snapshot claims a success  *)
(* without an output (reconcile_tool_call).                                  *)
THEOREM SuccessOutput == Spec => []SucceededHasOutput
<1>1. IInv => SucceededHasOutput
    BY DEF IInv
<1> QED BY <1>1, Invariance, PTL

(* A scenario said to have succeeded was sent, or stored under its key       *)
(* (execute_dry_run, LedgerOutputReconcileAdapter).                          *)
THEOREM SuccessEffect == Spec => []SuccessHasEffect
<1>1. IInv => SuccessHasEffect
    BY ConstantsAssumption DEF IInv, SuccessHasEffect, SucceededHasOutput, Outputs
<1> QED BY <1>1, Invariance, PTL

(* A call that is said to have succeeded has its output, and its effect was  *)
(* produced or its run stored under its key.                                 *)
THEOREM SuccessEarned == Spec => []SuccessIsEarned
<1>1. SucceededHasOutput /\ SuccessHasEffect => SuccessIsEarned
  BY DEF SuccessIsEarned
<1> QED BY <1>1, SuccessOutput, SuccessEffect, PTL

-----------------------------------------------------------------------------
(* Migration blocks *)

(* A block is opened for a call that no process can run any more: whoever    *)
(* still holds it has read the run too early and will collide.  No request   *)
(* has seen the block open: it would have to read the call in between.       *)
Blocks ==
    /\ \A r \in Requests : seen[r].call # None => ~seen[r].open
    /\ \A c \in Calls :
           block[c] = "open" =>
               /\ c \in NoAdapter
               /\ call[c].status \in {"needs_migration", "failed"}
               /\ \A w \in Workers :
                      proc[w].call = c /\ proc[w].phase # "idle" =>
                          proc[w].phase = "claimed" /\ ~proc[w].fresh

BInv == Blocks /\ MigrationIsBlocked

(* An event takes its number from every process that has only claimed.       *)
LEMMA OutdatedFresh ==
    ASSUME TypeOK, NEW w \in Workers
    PROVE  /\ Outdated[w].fresh => proc[w].fresh
           /\ proc[w].phase = "claimed" => ~Outdated[w].fresh
<1>1. Outdated[w] = [proc[w] EXCEPT !.fresh = @ /\ proc[w].phase # "claimed"]
    BY DEF Outdated
<1>2. proc[w] \in Proc
    BY DEF TypeOK
<1> QED BY <1>1, <1>2 DEF Proc

(* A process does with a blocked call what it did before.                    *)
SameOn(c, w) ==
    proc'[w].call = c /\ proc'[w].phase # "idle" =>
        /\ proc[w].call = c
        /\ proc'[w].phase = proc[w].phase
        /\ proc'[w].fresh => proc[w].fresh

(* What leaves the blocks alone may write a blocked call only as failed, and *)
(* must not bring a process to it.                                           *)
LEMMA BlocksKept ==
    ASSUME IInv, BInv,
           UNCHANGED <<block, seen>>,
           \A c \in Calls :
               block[c] = "open" =>
                   /\ call'[c].status \in {call[c].status, "failed"}
                   /\ \A w \in Workers : SameOn(c, w),
           \A c \in Calls :
               call'[c].status = "needs_migration" => call[c].status = "needs_migration"
    PROVE  BInv'
<1>1. MigrationIsBlocked'
    BY DEF BInv, MigrationIsBlocked
<1>2. Blocks'
    BY DEF BInv, Blocks, SameOn
<1> QED BY <1>1, <1>2 DEF BInv

(* Who has a blocked call can only collide.                                  *)
LEMMA BlockedCollides ==
    ASSUME IInv, BInv, NEW w \in Workers, proc[w].phase # "idle", block[proc[w].call] = "open"
    PROVE  proc[w].phase = "claimed" /\ ~proc[w].fresh
BY DEF IInv, Busy, BInv, Blocks

(* The end of an execution.                                                  *)
LEMMA EndBlocks ==
    ASSUME IInv, BInv, NEW w \in Workers, NEW row, NEW s,
           proc[w].phase # "idle",
           row.status # "needs_migration",
           block[proc[w].call] = "open" => row.status = "failed",
           proc' \in {Leave(proc, w), Leave(Outdated, w)},
           End(w, row, s)
    PROVE  BInv'
<1> DEFINE d == proc[w].call
<1>1. d \in Calls
    BY DEF IInv, Busy
<1>2. call' = [call EXCEPT ![d] = row] /\ UNCHANGED <<block, seen>>
    BY DEF End
<1>3. call'[d] = row /\ \A c \in Calls \ {d} : call'[c] = call[c]
    BY <1>1, <1>2 DEF IInv, TypeOK
<1>4. proc'[w].phase = "idle"
    BY LeaveTyped, OutdatedTyped DEF IInv, TypeOK, Idle
<1>5. ASSUME NEW v \in Workers, v # w
      PROVE  /\ proc'[v].phase = proc[v].phase
             /\ proc'[v].call = proc[v].call
             /\ proc'[v].fresh => proc[v].fresh
    BY <1>5, LeaveTyped, OutdatedTyped, OutdatedFresh DEF IInv, TypeOK
<1>6. \A c \in Calls, v \in Workers : SameOn(c, v)
    BY <1>4, <1>5 DEF SameOn
<1> QED BY <1>2, <1>3, <1>6, BlocksKept

(* What is not the end of an execution and leaves the rows of blocked calls  *)
(* alone.                                                                    *)
LEMMA NextBlocks ==
    ASSUME IInv, BInv, [Next]_vars
    PROVE  BInv'
<1> USE DEF IInv
<1>1. ASSUME NEW c \in Calls, NEW e \in BOOLEAN, Create(c, e) PROVE BInv'
  <2>1. call' = [call EXCEPT ![c].status = "planned"] /\ proc' = Outdated /\ UNCHANGED <<block, seen>>
      BY <1>1 DEF Create
  <2>2. call'[c].status = "planned" /\ \A d \in Calls \ {c} : call'[d] = call[d]
      BY <2>1 DEF TypeOK, Call
  <2>3. block[c] # "open"
      BY <1>1 DEF Create, Enqueued
  <2>4. \A d \in Calls, w \in Workers : SameOn(d, w)
      BY <2>1, OutdatedTyped, OutdatedFresh DEF SameOn
  <2> QED BY <2>1, <2>2, <2>3, <2>4, BlocksKept
<1>2. ASSUME NEW w \in Workers, NEW c \in Calls, Claim(w, c) PROVE BInv'
  <2>1. /\ call' = [call EXCEPT ![c].status = "leased"]
        /\ proc' = [proc EXCEPT ![w] = [phase |-> "claimed", call |-> c, queued |-> TRUE, fresh |-> TRUE]]
        /\ UNCHANGED <<block, seen>>
      BY <1>2 DEF Claim
  <2>2. call'[c].status = "leased" /\ \A d \in Calls \ {c} : call'[d] = call[d]
      BY <2>1 DEF TypeOK, Call
  <2>3. block[c] # "open"
      BY <1>2 DEF Claim, RunnableIsUnfinished, BInv, Blocks
  <2>4. \A d \in Calls \ {c}, v \in Workers : SameOn(d, v)
      BY <2>1 DEF SameOn, TypeOK
  <2> QED BY <2>1, <2>2, <2>3, <2>4, BlocksKept
<1>3. ASSUME NEW w \in Workers, NEW c \in Calls, StartInline(w, c) PROVE BInv'
  <2>1. /\ proc' = [proc EXCEPT ![w] = [phase |-> "claimed", call |-> c, queued |-> FALSE, fresh |-> TRUE]]
        /\ UNCHANGED <<call, block, seen>>
      BY <1>3 DEF StartInline
  <2>2. block[c] # "open"
      BY <1>3 DEF StartInline, BInv, Blocks
  <2>3. \A d \in Calls \ {c}, v \in Workers : SameOn(d, v)
      BY <2>1 DEF SameOn, TypeOK
  <2> QED BY <2>1, <2>2, <2>3, BlocksKept
<1>4. ASSUME NEW c \in Calls, RecoverOrphan(c) PROVE BInv'
  <2>1. block[c] # "open"
      BY <1>4 DEF RecoverOrphan, RunnableIsUnfinished, BInv, Blocks
  <2>2. /\ \A d \in Calls \ {c} : call'[d] = call[d]
        /\ call'[c].status \in {"planned", call[c].status}
        /\ UNCHANGED <<block, seen, proc>>
      BY <1>4 DEF RecoverOrphan, TypeOK, Call
  <2>3. \A d \in Calls, v \in Workers : SameOn(d, v)
      BY <2>2 DEF SameOn
  <2> QED BY <2>1, <2>2, <2>3, BlocksKept
<1>5. ASSUME NEW c \in Calls, ResolveBlock(c) PROVE BInv'
  <2>1. /\ block' = [block EXCEPT ![c] = "resolved"]
        /\ block[c] = "open"
        /\ proc' = Outdated
        /\ UNCHANGED seen
      BY <1>5 DEF ResolveBlock
  <2>2. /\ \A d \in Calls \ {c} : call'[d] = call[d] /\ block'[d] = block[d]
        /\ call'[c].status # "needs_migration"
        /\ block'[c] = "resolved"
      BY <1>5, <2>1 DEF ResolveBlock, TypeOK, Call
  <2>3. \A d \in Calls, w \in Workers : SameOn(d, w)
      BY <2>1, OutdatedTyped, OutdatedFresh DEF SameOn
  <2>4. Blocks'
      BY <2>1, <2>2, <2>3 DEF BInv, Blocks, SameOn
  <2>5. MigrationIsBlocked'
      BY <2>2 DEF BInv, MigrationIsBlocked
  <2> QED BY <2>4, <2>5 DEF BInv
<1>6. ASSUME NEW r \in Requests, NEW c \in Calls, ReadCall(r, c) PROVE BInv'
  <2>1. /\ seen' = [seen EXCEPT ![r] = [call |-> c, row |-> call[c], open |-> block[c] = "open"]]
        /\ UNCHANGED <<call, block, proc>>
        /\ call[c].status \in {"uncertain", "reconciling"}
      BY <1>6 DEF ReadCall
  <2>2. block[c] # "open"
      BY <2>1 DEF BInv, Blocks
  <2>3. seen'[r].open = FALSE /\ \A q \in Requests \ {r} : seen'[q] = seen[q]
      BY <2>1, <2>2 DEF TypeOK
  <2>4. Blocks'
      BY <2>1, <2>3 DEF BInv, Blocks
  <2>5. MigrationIsBlocked'
      BY <2>1 DEF BInv, MigrationIsBlocked
  <2> QED BY <2>4, <2>5 DEF BInv
<1>7. CASE AppendEvent
  <2>1. proc' = Outdated /\ UNCHANGED <<call, block, seen>>
      BY <1>7 DEF AppendEvent
  <2>2. \A d \in Calls, w \in Workers : SameOn(d, w)
      BY <2>1, OutdatedTyped, OutdatedFresh DEF SameOn
  <2> QED BY <2>1, <2>2, BlocksKept
<1>8. ASSUME NEW r \in Requests, Reconcile(r) PROVE BInv'
  <2> DEFINE c == seen[r].call
  <2>1. /\ c \in Calls \ NoAdapter
        /\ proc' = Outdated
        /\ UNCHANGED block
        /\ \A q \in Requests : seen'[q] = seen[q] \/ seen'[q].call = None
      BY <1>8, CommitForgets DEF Reconcile, Remembered
  <2>2. /\ \A d \in Calls \ {c} : call'[d] = call[d]
        /\ call'[c].status \in {"succeeded", "uncertain", "manual_intervention"}
      BY <1>8, <2>1 DEF Reconcile, Reconciled, TypeOK, Call
  <2>3. block[c] # "open"
      BY <2>1 DEF BInv, Blocks
  <2>4. \A d \in Calls, w \in Workers : SameOn(d, w)
      BY <2>1, OutdatedTyped, OutdatedFresh DEF SameOn
  <2>5. Blocks'
      BY <2>1, <2>2, <2>3, <2>4 DEF BInv, Blocks, SameOn
  <2>6. MigrationIsBlocked'
      BY <2>1, <2>2 DEF BInv, MigrationIsBlocked
  <2> QED BY <2>5, <2>6 DEF BInv
<1>9. ASSUME NEW r \in Requests, ReconcileUnsupported(r) PROVE BInv'
  <2> DEFINE c == seen[r].call
  <2>1. /\ c \in NoAdapter
        /\ c \in Calls
        /\ c # None
        /\ proc' = Outdated
        /\ RunFree
        /\ call' = [call EXCEPT ![c].status = "needs_migration"]
        /\ \A q \in Requests : seen'[q] = seen[q] \/ seen'[q].call = None
      BY <1>9, CommitForgets, ConstantsAssumption DEF ReconcileUnsupported
  <2>2. ~seen[r].open
      BY <2>1 DEF BInv, Blocks
  <2>3. block' = [block EXCEPT ![c] = "open"]
      BY <1>9, <2>2 DEF ReconcileUnsupported
  <2>4. /\ \A d \in Calls \ {c} : call'[d] = call[d] /\ block'[d] = block[d]
        /\ call'[c].status = "needs_migration"
        /\ block'[c] = "open"
      BY <2>1, <2>3 DEF TypeOK, Call
  <2>5. ASSUME NEW w \in Workers, proc[w].call = c, proc[w].phase # "idle"
        PROVE  proc'[w].phase = "claimed" /\ ~proc'[w].fresh
    <3>1. proc[w].phase \notin {"sent", "found", "delivered"}
        BY <2>5, <2>1, ConstantsAssumption DEF Busy
    <3>2. proc[w].phase # "open"
        BY <2>1 DEF RunFree
    <3>3. proc[w].phase = "claimed"
        BY <2>5, <3>1, <3>2 DEF TypeOK, Proc, Phases
    <3> QED BY <3>3, <2>1, OutdatedTyped, OutdatedFresh
  <2>6. \A d \in Calls, w \in Workers : SameOn(d, w)
      BY <2>1, OutdatedTyped, OutdatedFresh DEF SameOn
  <2>7. \A w \in Workers : proc'[w].call = proc[w].call /\ proc'[w].phase = proc[w].phase
      BY <2>1, OutdatedTyped
  <2>8. Blocks'
      BY <2>1, <2>4, <2>5, <2>6, <2>7 DEF BInv, Blocks, SameOn
  <2>9. MigrationIsBlocked'
      BY <2>4 DEF BInv, MigrationIsBlocked
  <2> QED BY <2>8, <2>9 DEF BInv
<1>10. ASSUME NEW w \in Workers, Crash(w) PROVE BInv'
  <2>1. proc' = [proc EXCEPT ![w] = Idle] /\ UNCHANGED <<call, block, seen>>
      BY <1>10 DEF Crash
  <2>2. \A d \in Calls, v \in Workers : SameOn(d, v)
      BY <2>1 DEF SameOn, TypeOK, Idle
  <2> QED BY <2>1, <2>2, BlocksKept
<1>11. ASSUME NEW w \in Workers, Begin(w) PROVE BInv'
  <2>1. /\ proc[w].phase = "claimed"
        /\ proc[w].fresh
        /\ proc' = [proc EXCEPT ![w].phase = "open"]
        /\ UNCHANGED <<call, block, seen>>
      BY <1>11 DEF Begin, Move
  <2>2. proc[w].call \in Calls /\ block[proc[w].call] # "open"
      BY <2>1, BlockedCollides DEF Busy
  <2>3. \A v \in Workers \ {w} : proc'[v] = proc[v]
      BY <2>1 DEF TypeOK
  <2>4. proc'[w].call = proc[w].call
      BY <2>1, MoveTyped DEF TypeOK, Phases
  <2>5. \A d \in Calls : block[d] = "open" => \A v \in Workers : SameOn(d, v)
      BY <2>2, <2>3, <2>4 DEF SameOn
  <2> QED BY <2>1, <2>5, BlocksKept
<1>12. ASSUME NEW w \in Workers, Dispatch(w) PROVE BInv'
  <2> DEFINE c == proc[w].call
             p == IF Stored(c) THEN "found" ELSE "sent"
  <2>1. /\ proc[w].phase = "open"
        /\ call' = [call EXCEPT ![c].status = "running_pre_effect",
                                ![c].effect = "transport_sent_observed"]
        /\ proc' = [Outdated EXCEPT ![w].phase = p]
        /\ UNCHANGED <<block, seen>>
      BY <1>12 DEF Dispatch
  <2>2. c \in Calls /\ block[c] # "open"
      BY <2>1, BlockedCollides DEF Busy
  <2>3. call'[c].status = "running_pre_effect" /\ \A d \in Calls \ {c} : call'[d] = call[d]
      BY <2>1, <2>2 DEF TypeOK, Call
  <2>4. /\ proc'[w].call = c
        /\ \A v \in Workers \ {w} : proc'[v] = Outdated[v]
      BY <2>1, OutdatedTyped, MoveTyped DEF Phases
  <2>5. \A d \in Calls : block[d] = "open" => \A v \in Workers : SameOn(d, v)
      BY <2>2, <2>4, OutdatedTyped, OutdatedFresh DEF SameOn
  <2> QED BY <2>1, <2>2, <2>3, <2>5, BlocksKept
<1>13. ASSUME NEW w \in Workers, Deliver(w) PROVE BInv'
  <2>1. /\ proc[w].phase = "sent"
        /\ proc' = [proc EXCEPT ![w].phase = "delivered"]
        /\ UNCHANGED <<call, block, seen>>
      BY <1>13 DEF Deliver, Move
  <2>2. proc[w].call \in Calls /\ block[proc[w].call] # "open"
      BY <2>1, BlockedCollides DEF Busy
  <2>3. \A v \in Workers \ {w} : proc'[v] = proc[v]
      BY <2>1 DEF TypeOK
  <2>4. proc'[w].call = proc[w].call
      BY <2>1, MoveTyped DEF TypeOK, Phases
  <2>5. \A d \in Calls : block[d] = "open" => \A v \in Workers : SameOn(d, v)
      BY <2>2, <2>3, <2>4 DEF SameOn
  <2> QED BY <2>1, <2>5, BlocksKept
<1>14. ASSUME NEW w \in Workers, Refuse(w) PROVE BInv'
  <2>1. PICK s \in {"failed", "manual_intervention"} :
            End(w, [call[proc[w].call] EXCEPT !.status = s], "failed")
      BY <1>14 DEF Refuse
  <2>2. proc[w].call \in Calls /\ block[proc[w].call] # "open"
      BY <1>14, BlockedCollides DEF Refuse, Busy
  <2>3. [call[proc[w].call] EXCEPT !.status = s].status = s
      BY <2>2 DEF TypeOK, Call
  <2> QED BY <1>14, <2>1, <2>2, <2>3, EndBlocks DEF Refuse
<1>15. ASSUME NEW w \in Workers, Collide(w) PROVE BInv'
  <2>1. proc[w].call \in Calls
      BY <1>15 DEF Collide, Busy
  <2>2. [call[proc[w].call] EXCEPT !.status = "failed"].status = "failed"
      BY <2>1 DEF TypeOK, Call
  <2> QED BY <1>15, <2>2, EndBlocks DEF Collide
<1>16. ASSUME NEW w \in Workers, Succeed(w) PROVE BInv'
  <2>1. proc[w].phase \notin {"idle", "claimed"}
      BY <1>16 DEF Succeed, Answered
  <2>2. block[proc[w].call] # "open"
      BY <2>1, BlockedCollides
  <2> QED BY <1>16, <2>1, <2>2, EndBlocks DEF Succeed
<1>17. ASSUME NEW w \in Workers, Raise(w) PROVE BInv'
  <2>1. PICK e \in {"transport_sent_observed", call[proc[w].call].effect} :
            End(w, [call[proc[w].call] EXCEPT !.status = "failed", !.effect = e], "failed")
      BY <1>17 DEF Raise
  <2>2. proc[w].phase \notin {"idle", "claimed"}
      BY <1>17 DEF Raise
  <2>3. [call[proc[w].call] EXCEPT !.status = "failed", !.effect = e].status = "failed"
      BY <2>2 DEF TypeOK, Call, Busy
  <2> QED BY <1>17, <2>1, <2>2, <2>3, EndBlocks DEF Raise
<1>18. ASSUME NEW w \in Workers, LoseEvents(w) PROVE BInv'
  <2>1. proc[w].phase \notin {"idle", "claimed"}
      BY <1>18 DEF LoseEvents, Answered
  <2>2. proc[w].call \in Calls /\ block[proc[w].call] # "open"
      BY <2>1, BlockedCollides DEF Busy
  <2>3. [call[proc[w].call] EXCEPT !.status = "uncertain"].status = "uncertain"
      BY <2>2 DEF TypeOK, Call
  <2> QED BY <1>18, <2>1, <2>2, <2>3, EndBlocks DEF LoseEvents
<1>19. CASE UNCHANGED vars
    BY <1>19 DEF vars, BInv, Blocks, MigrationIsBlocked
<1> QED
    BY <1>1, <1>2, <1>3, <1>4, <1>5, <1>6, <1>7, <1>8, <1>9, <1>10, <1>11, <1>12,
       <1>13, <1>14, <1>15, <1>16, <1>17, <1>18, <1>19 DEF Next

(* Whatever was read before, a call that waits for a migration has an open   *)
(* block (create_tool_call_block, resolve_block, append_event).              *)
THEOREM MigrationBlocked == Spec => []MigrationIsBlocked
<1>1. Init => BInv
    BY DEF Init, BInv, Blocks, MigrationIsBlocked, Nothing, Absent
<1>2. IInv /\ BInv /\ [Next]_vars => BInv'
    BY NextBlocks
<1>3. BInv => MigrationIsBlocked
    BY DEF BInv
<1> QED BY <1>1, <1>2, <1>3, Invariance, PTL DEF Spec

-----------------------------------------------------------------------------
(* How often the HTTP steps of a call are sent *)

(* The processes that may still send the steps of a call.                    *)
Senders(c) == {w \in Workers : proc[w].call = c /\ proc[w].phase \in {"claimed", "open", "sent"}}

(* One more process may take the call, through its queue row or inline.      *)
Waiting(c) ==
    \/ item[c] = "queued"
    \/ /\ item[c] = "absent"
       /\ call[c].status \in {"absent", "planned"}
       /\ \A w \in Workers : proc[w].call = c => proc[w].phase = "idle"

(* Every sending, done or still to be expected, is paid for by the creation  *)
(* of the call or by a lease that was lost.                                  *)
Within(c) ==
    /\ IsFiniteSet(Senders(c))
    /\ effects[c] + Cardinality(Senders(c)) + (IF Waiting(c) THEN 1 ELSE 0) <= 1 + recovered[c]

(* A call that is executed inline is planned only as long as nothing of it   *)
(* was sent.                                                                 *)
Unsent(c) ==
    item[c] = "absent" /\ call[c].status = "planned" =>
        \A w \in Workers : proc[w].call = c => proc[w].phase \in {"idle", "claimed", "open"}

SInv == \A c \in Calls : Within(c) /\ Unsent(c)

(* The ways in which a step may change what is expected of a call.           *)
LEMMA WithinKept ==
    ASSUME TypeOK, TypeOK', NEW c \in Calls, Within(c),
           \/ /\ effects'[c] = effects[c]
              /\ recovered'[c] = recovered[c]
              /\ Senders(c)' \subseteq Senders(c)
              /\ Waiting(c)' => Waiting(c)
           \/ /\ effects'[c] = effects[c]
              /\ recovered'[c] = recovered[c]
              /\ \E w \in Workers : Senders(c)' = Senders(c) \cup {w}
              /\ Waiting(c) /\ ~Waiting(c)'
           \/ /\ recovered'[c] = recovered[c]
              /\ \E w \in Senders(c) : Senders(c)' = Senders(c) \ {w}
              /\ \/ effects'[c] = effects[c]
                 \/ effects'[c] = effects[c] + 1 /\ (Waiting(c)' => Waiting(c))
           \/ /\ effects'[c] = effects[c]
              /\ recovered'[c] = recovered[c] + 1
              /\ Senders(c)' = Senders(c)
    PROVE  Within(c)'
<1> DEFINE S == Senders(c)
           T == Senders(c)'
           x == IF Waiting(c) THEN 1 ELSE 0
           y == IF Waiting(c)' THEN 1 ELSE 0
<1>1. IsFiniteSet(S) /\ effects[c] + Cardinality(S) + x <= 1 + recovered[c]
    BY DEF Within
<1>2. effects[c] \in Nat /\ effects'[c] \in Nat /\ recovered[c] \in Nat /\ recovered'[c] \in Nat
    BY DEF TypeOK
<1>3. x \in {0, 1} /\ y \in {0, 1}
    OBVIOUS
<1>4. Cardinality(S) \in Nat
    BY <1>1, FS_CardinalityType
<1> HIDE DEF S, T, x, y
<1>5. SUFFICES /\ IsFiniteSet(T)
               /\ effects'[c] + Cardinality(T) + y <= 1 + recovered'[c]
    BY DEF Within, T, y
<1>6. CASE effects'[c] = effects[c] /\ recovered'[c] = recovered[c] /\ T \subseteq S /\ y <= x
  <2>1. IsFiniteSet(T) /\ Cardinality(T) <= Cardinality(S)
      BY <1>1, <1>6, FS_Subset
  <2>2. Cardinality(T) \in Nat
      BY <2>1, FS_CardinalityType
  <2> QED BY <1>1, <1>2, <1>3, <1>4, <1>6, <2>1, <2>2
<1>7. ASSUME NEW w \in Workers, T = S \cup {w}, x = 1, y = 0,
             effects'[c] = effects[c], recovered'[c] = recovered[c]
      PROVE  /\ IsFiniteSet(T)
             /\ effects'[c] + Cardinality(T) + y <= 1 + recovered'[c]
  <2>1. IsFiniteSet(T) /\ Cardinality(T) \in {Cardinality(S), Cardinality(S) + 1}
      BY <1>1, <1>7, FS_AddElement
  <2> QED BY <1>1, <1>2, <1>4, <1>7, <2>1
<1>8. ASSUME NEW w \in S, T = S \ {w}, recovered'[c] = recovered[c],
             effects'[c] = effects[c] \/ (effects'[c] = effects[c] + 1 /\ y <= x)
      PROVE  /\ IsFiniteSet(T)
             /\ effects'[c] + Cardinality(T) + y <= 1 + recovered'[c]
  <2>1. IsFiniteSet(T) /\ Cardinality(T) = Cardinality(S) - 1
      BY <1>1, <1>8, FS_RemoveElement
  <2> QED BY <1>1, <1>2, <1>3, <1>4, <1>8, <2>1
<1>9. CASE effects'[c] = effects[c] /\ recovered'[c] = recovered[c] + 1 /\ T = S
    BY <1>1, <1>2, <1>3, <1>4, <1>9
<1> QED BY <1>6, <1>7, <1>8, <1>9 DEF S, T, x, y

(* A step that is not about a call, or only takes it further from being      *)
(* executed inline.                                                          *)
Apart(c) ==
    /\ UNCHANGED <<item[c], effects[c], recovered[c]>>
    /\ call'[c].status \in {"absent", "planned"} => call'[c].status = call[c].status
    /\ \A w \in Workers :
           /\ (proc'[w].call = c /\ proc'[w].phase # "idle") <=> (proc[w].call = c /\ proc[w].phase # "idle")
           /\ proc[w].call = c /\ proc[w].phase # "idle" => proc'[w].phase = proc[w].phase

(* A step that is apart from a call leaves its sends within their bound. *)
LEMMA ApartKept ==
    ASSUME TypeOK, TypeOK', NEW c \in Calls, Within(c), Unsent(c), Apart(c)
    PROVE  Within(c)' /\ Unsent(c)'
<1>1. Senders(c)' = Senders(c)
    BY DEF Senders, Apart
<1>2. Waiting(c)' => Waiting(c)
    BY DEF Waiting, Apart
<1>3. Within(c)'
    BY <1>1, <1>2, WithinKept DEF Apart
<1>4. Unsent(c)'
    BY DEF Unsent, Apart
<1> QED BY <1>3, <1>4

(* The end of an execution: its process cannot send any more, and nobody     *)
(* else will take the call.                                                  *)
LEMMA EndSInv ==
    ASSUME IInv, TypeOK', SInv, NEW w \in Workers, NEW row, NEW s \in {"completed", "failed"},
           proc[w].phase # "idle",
           row.status \notin {"absent", "planned"},
           proc' \in {Leave(proc, w), Leave(Outdated, w)},
           End(w, row, s)
    PROVE  SInv'
<1>0. PICK d \in Calls : d = proc[w].call
    BY DEF IInv, Busy
<1>1. proc[w].queued <=> item[d] # "absent"
    BY <1>0 DEF IInv, Busy
<1>2. /\ call' = [call EXCEPT ![d] = row]
      /\ item' = IF proc[w].queued THEN [item EXCEPT ![d] = s] ELSE item
      /\ UNCHANGED <<effects, recovered>>
    BY <1>0 DEF End
<1>3. /\ call'[d] = row /\ item'[d] # "queued"
      /\ \A c \in Calls \ {d} : call'[c] = call[c] /\ item'[c] = item[c]
    BY <1>1, <1>2 DEF IInv, TypeOK
<1>4. /\ proc'[w] = Idle
      /\ \A v \in Workers \ {w} : proc'[v].phase = proc[v].phase /\ proc'[v].call = proc[v].call
  <2>1. TypeOK /\ proc \in [Workers -> Proc]
      BY DEF IInv, TypeOK
  <2>2. /\ Outdated \in [Workers -> Proc]
        /\ \A v \in Workers : Outdated[v].phase = proc[v].phase /\ Outdated[v].call = proc[v].call
      BY <2>1, OutdatedTyped
  <2>3. CASE proc' = Leave(proc, w)
      BY <2>1, <2>3, LeaveTyped
  <2>4. CASE proc' = Leave(Outdated, w)
      BY <2>2, <2>4, LeaveTyped
  <2> QED BY <2>3, <2>4
<1>5. ASSUME NEW c \in Calls, c # d PROVE Apart(c)
    BY <1>0, <1>2, <1>3, <1>4, <1>5 DEF Apart, Idle
<1>6. Senders(d)' \subseteq Senders(d)
    BY <1>0, <1>4 DEF Senders, Idle
<1>7. ~Waiting(d)' /\ Unsent(d)'
    BY <1>3 DEF Waiting, Unsent
<1>8. Within(d)'
    BY <1>1, <1>2, <1>6, <1>7, WithinKept DEF SInv, IInv
<1> QED BY <1>5, <1>7, <1>8, ApartKept DEF SInv, IInv

(* Every step keeps the account.                                             *)
LEMMA NextSInv ==
    ASSUME IInv, TypeOK', SInv, [Next]_vars
    PROVE  SInv'
<1> USE DEF IInv
<1>1. SUFFICES ASSUME Next PROVE SInv'
  <2>1. CASE UNCHANGED vars
      BY <2>1 DEF vars, SInv, Within, Unsent, Senders, Waiting
  <2> QED BY <2>1
<1>2. ASSUME \A c \in Calls : Apart(c) PROVE SInv'
    BY <1>2, ApartKept DEF SInv
<1>3. ASSUME NEW c \in Calls, NEW e \in BOOLEAN, Create(c, e) PROVE SInv'
  <2>1. /\ call[c].status = "absent"
        /\ call' = [call EXCEPT ![c].status = "planned"]
        /\ item' = IF e THEN [item EXCEPT ![c] = "queued"] ELSE item
        /\ proc' = Outdated
        /\ UNCHANGED <<effects, recovered>>
      BY <1>3 DEF Create
  <2>2. \A d \in Calls \ {c} : call'[d] = call[d] /\ item'[d] = item[d]
      BY <2>1 DEF TypeOK
  <2>3. \A d \in Calls \ {c} : Apart(d)
      BY <2>1, <2>2, OutdatedTyped DEF Apart
  <2>4. \A v \in Workers : proc[v].call = c => proc[v].phase = "idle"
      BY <2>1 DEF Busy
  <2>5. Waiting(c)
      BY <2>1, <2>4 DEF Waiting, Enqueued
  <2>6. Senders(c)' = Senders(c)
      BY <2>1, OutdatedTyped DEF Senders
  <2>7. Unsent(c)'
      BY <2>1, <2>4, OutdatedTyped DEF Unsent
  <2>8. Within(c)'
      BY <2>1, <2>5, <2>6, WithinKept DEF SInv
  <2> QED BY <2>3, <2>7, <2>8, ApartKept DEF SInv
<1>4. ASSUME NEW w \in Workers, NEW c \in Calls, Claim(w, c) \/ StartInline(w, c) PROVE SInv'
  <2>1. /\ proc[w] = Idle
        /\ proc'[w].phase = "claimed" /\ proc'[w].call = c
        /\ \A v \in Workers \ {w} : proc'[v] = proc[v]
        /\ UNCHANGED <<effects, recovered>>
      BY <1>4 DEF Claim, StartInline, TypeOK
  <2>2. \A d \in Calls \ {c} : call'[d] = call[d] /\ item'[d] = item[d]
      BY <1>4 DEF Claim, StartInline, TypeOK
  <2>3. \A d \in Calls \ {c} : Apart(d)
      BY <2>1, <2>2 DEF Apart, Idle
  <2>4. Senders(c)' = Senders(c) \cup {w}
      BY <2>1 DEF Senders
  <2>5. CASE Claim(w, c)
    <3>1. item[c] = "queued" /\ item'[c] = "leased"
        BY <2>5 DEF Claim, TypeOK
    <3>2. Waiting(c) /\ ~Waiting(c)' /\ Unsent(c)'
        BY <3>1 DEF Waiting, Unsent
    <3>3. Within(c)'
        BY <2>1, <2>4, <3>2, WithinKept DEF SInv
    <3> QED BY <2>3, <3>2, <3>3, ApartKept DEF SInv
  <2>6. CASE StartInline(w, c)
    <3>1. /\ item[c] = "absent" /\ item'[c] = "absent"
          /\ call[c].status = "planned"
          /\ \A v \in Workers : proc[v].call # c
        BY <2>6 DEF StartInline
    <3>2. Waiting(c) /\ ~Waiting(c)' /\ Unsent(c)'
        BY <2>1, <3>1 DEF Waiting, Unsent
    <3>3. Within(c)'
        BY <2>1, <2>4, <3>2, WithinKept DEF SInv
    <3> QED BY <2>3, <3>2, <3>3, ApartKept DEF SInv
  <2> QED BY <1>4, <2>5, <2>6
<1>5. ASSUME NEW c \in Calls, RecoverOrphan(c) PROVE SInv'
  <2>1. /\ item' = [item EXCEPT ![c] = "queued"]
        /\ \A d \in Calls \ {c} : call'[d] = call[d]
        /\ recovered' = [recovered EXCEPT ![c] = @ + 1]
        /\ UNCHANGED <<proc, effects>>
      BY <1>5 DEF RecoverOrphan, TypeOK
  <2>2. \A d \in Calls \ {c} : Apart(d)
      BY <2>1 DEF Apart, TypeOK
  <2>3. Senders(c)' = Senders(c)
      BY <2>1 DEF Senders
  <2>4. item'[c] = "queued" /\ recovered'[c] = recovered[c] + 1 /\ effects'[c] = effects[c]
      BY <2>1 DEF TypeOK
  <2>5. Unsent(c)'
      BY <2>4 DEF Unsent
  <2>6. Within(c)'
      BY <2>3, <2>4, WithinKept DEF SInv
  <2> QED BY <2>2, <2>5, <2>6, ApartKept DEF SInv
<1>6. ASSUME NEW c \in Calls, ResolveBlock(c) PROVE SInv'
  <2>1. /\ proc' = Outdated
        /\ UNCHANGED <<item, effects, recovered>>
        /\ \A d \in Calls : call'[d].status \in {"absent", "planned"} => call'[d].status = call[d].status
      BY <1>6 DEF ResolveBlock, TypeOK, Call
  <2> QED BY <2>1, <1>2, OutdatedTyped DEF Apart
<1>7. ASSUME NEW r \in Requests, NEW c \in Calls, ReadCall(r, c) PROVE SInv'
    BY <1>7, <1>2 DEF ReadCall, Apart
<1>8. CASE AppendEvent
    BY <1>8, <1>2, OutdatedTyped DEF AppendEvent, Apart
<1>9. ASSUME NEW r \in Requests, Reconcile(r) \/ ReconcileUnsupported(r) PROVE SInv'
  <2> DEFINE c == seen[r].call
  <2>1. c \in Calls
      BY <1>9, ConstantsAssumption DEF Reconcile, ReconcileUnsupported, Remembered
  <2>2. /\ proc' = Outdated
        /\ UNCHANGED <<item, effects, recovered>>
        /\ \A d \in Calls \ {c} : call'[d] = call[d]
        /\ call'[c].status \notin {"absent", "planned"}
      BY <1>9, <2>1 DEF Reconcile, ReconcileUnsupported, Reconciled, TypeOK, Call
  <2> QED BY <2>2, <1>2, OutdatedTyped DEF Apart
<1>10. ASSUME NEW w \in Workers, Crash(w) PROVE SInv'
  <2>1. /\ proc'[w].phase = "idle" /\ proc'[w].call = None
        /\ \A v \in Workers \ {w} : proc'[v] = proc[v]
        /\ UNCHANGED <<call, item, effects, recovered>>
      BY <1>10 DEF Crash, TypeOK, Idle
  <2>2. CASE proc[w].phase = "idle"
      BY <2>1, <2>2, <1>2 DEF Apart
  <2>3. CASE proc[w].phase # "idle"
    <3>1. PICK c \in Calls : c = proc[w].call /\ call[c].status # "absent"
        BY <2>3 DEF Busy
    <3>2. \A d \in Calls \ {c} : Apart(d)
        BY <2>1, <3>1 DEF Apart
    <3>3. Senders(c)' = Senders(c) \ {w}
        BY <2>1, <3>1, ConstantsAssumption DEF Senders
    <3>4. Unsent(c)'
        BY <2>1, <3>1 DEF Unsent, SInv
    <3>5. CASE w \in Senders(c)
      <4>1. Within(c)'
          BY <2>1, <3>1, <3>3, <3>5, WithinKept DEF SInv
      <4> QED BY <4>1, <3>2, <3>4, ApartKept DEF SInv
    <3>6. CASE w \notin Senders(c)
      <4>1. proc[w].phase \in {"found", "delivered"}
          BY <2>3, <3>1, <3>6 DEF Senders, TypeOK, Proc, Phases
      <4>2. ~(item[c] = "absent" /\ call[c].status = "planned")
          BY <4>1, <3>1 DEF SInv, Unsent
      <4>3. Waiting(c)' => Waiting(c)
          BY <2>1, <3>1, <4>2 DEF Waiting
      <4>4. Within(c)'
          BY <2>1, <3>1, <3>3, <4>3, WithinKept DEF SInv
      <4> QED BY <4>4, <3>2, <3>4, ApartKept DEF SInv
    <3> QED BY <3>5, <3>6
  <2> QED BY <2>2, <2>3
<1>11. ASSUME NEW w \in Workers, Begin(w) PROVE SInv'
  <2>0. PICK c \in Calls : c = proc[w].call
      BY <1>11 DEF Begin, Busy
  <2>1. /\ proc[w].phase = "claimed"
        /\ proc' = [proc EXCEPT ![w].phase = "open"]
        /\ UNCHANGED <<call, item, effects, recovered>>
      BY <1>11, <2>0 DEF Begin, Move
  <2>2. /\ proc'[w].phase = "open" /\ proc'[w].call = c
        /\ \A v \in Workers \ {w} : proc'[v] = proc[v]
      BY <2>0, <2>1, MoveTyped DEF TypeOK, Phases
  <2>3. \A d \in Calls \ {c} : Apart(d)
      BY <2>0, <2>1, <2>2 DEF Apart
  <2>4. Senders(c)' = Senders(c) /\ (Waiting(c)' => Waiting(c))
      BY <2>0, <2>1, <2>2 DEF Senders, Waiting
  <2>5. Unsent(c)'
      BY <2>0, <2>1, <2>2 DEF Unsent, SInv
  <2>6. Within(c)'
      BY <2>0, <2>1, <2>4, WithinKept DEF SInv
  <2> QED BY <2>3, <2>5, <2>6, ApartKept DEF SInv
<1>12. ASSUME NEW w \in Workers, Dispatch(w) PROVE SInv'
  <2>0. PICK c \in Calls : c = proc[w].call
      BY <1>12 DEF Dispatch, Busy
  <2> DEFINE p == IF Stored(c) THEN "found" ELSE "sent"
  <2>1. /\ proc[w].phase = "open"
        /\ call' = [call EXCEPT ![c].status = "running_pre_effect",
                                ![c].effect = "transport_sent_observed"]
        /\ proc' = [Outdated EXCEPT ![w].phase = p]
        /\ UNCHANGED <<item, effects, recovered>>
      BY <1>12, <2>0 DEF Dispatch
  <2>2. call'[c].status = "running_pre_effect" /\ \A d \in Calls \ {c} : call'[d] = call[d]
      BY <2>0, <2>1 DEF TypeOK, Call
  <2>3. /\ proc'[w].call = c /\ proc'[w].phase # "idle"
        /\ \A v \in Workers \ {w} : proc'[v].call = proc[v].call /\ proc'[v].phase = proc[v].phase
      BY <2>0, <2>1, OutdatedTyped, MoveTyped DEF Phases
  <2>4. \A d \in Calls \ {c} : Apart(d)
      BY <2>0, <2>1, <2>2, <2>3 DEF Apart
  <2>5. Senders(c)' \subseteq Senders(c) /\ (Waiting(c)' => Waiting(c)) /\ Unsent(c)'
      BY <2>0, <2>1, <2>2, <2>3 DEF Senders, Waiting, Unsent
  <2>6. Within(c)'
      BY <2>0, <2>1, <2>5, WithinKept DEF SInv
  <2> QED BY <2>4, <2>5, <2>6, ApartKept DEF SInv
<1>13. ASSUME NEW w \in Workers, Deliver(w) PROVE SInv'
  <2>0. PICK c \in Calls : c = proc[w].call
      BY <1>13 DEF Deliver, Busy
  <2>1. /\ proc[w].phase = "sent"
        /\ proc' = [proc EXCEPT ![w].phase = "delivered"]
        /\ effects' = [effects EXCEPT ![c] = @ + 1]
        /\ UNCHANGED <<call, item, recovered>>
      BY <1>13, <2>0 DEF Deliver, Move
  <2>2. /\ proc'[w].phase = "delivered" /\ proc'[w].call = c
        /\ \A v \in Workers \ {w} : proc'[v] = proc[v]
      BY <2>0, <2>1, MoveTyped DEF TypeOK, Phases
  <2>3. effects'[c] = effects[c] + 1 /\ \A d \in Calls \ {c} : effects'[d] = effects[d]
      BY <2>0, <2>1, <2>2 DEF TypeOK
  <2>4. \A d \in Calls \ {c} : Apart(d)
      BY <2>0, <2>1, <2>2, <2>3 DEF Apart
  <2>5. w \in Senders(c) /\ Senders(c)' = Senders(c) \ {w}
      BY <2>0, <2>1, <2>2 DEF Senders
  <2>6. Waiting(c)' => Waiting(c)
      BY <2>0, <2>1, <2>2 DEF Waiting
  <2>7. Unsent(c)'
      BY <2>0, <2>1, <2>2 DEF Unsent, SInv
  <2>8. Within(c)'
      BY <2>0, <2>1, <2>3, <2>5, <2>6, WithinKept DEF SInv
  <2> QED BY <2>4, <2>7, <2>8, ApartKept DEF SInv
<1>14. ASSUME NEW w \in Workers, Refuse(w) PROVE SInv'
  <2>1. PICK s \in {"failed", "manual_intervention"} :
            End(w, [call[proc[w].call] EXCEPT !.status = s], "failed")
      BY <1>14 DEF Refuse
  <2>2. [call[proc[w].call] EXCEPT !.status = s].status = s
      BY <1>14 DEF Refuse, Busy, TypeOK, Call
  <2> QED BY <1>14, <2>1, <2>2, EndSInv DEF Refuse
<1>15. ASSUME NEW w \in Workers, Collide(w) PROVE SInv'
  <2>1. [call[proc[w].call] EXCEPT !.status = "failed"].status = "failed"
      BY <1>15 DEF Collide, Busy, TypeOK, Call
  <2> QED BY <1>15, <2>1, EndSInv DEF Collide
<1>16. ASSUME NEW w \in Workers, Succeed(w) PROVE SInv'
    BY <1>16, EndSInv DEF Succeed, Answered
<1>17. ASSUME NEW w \in Workers, Raise(w) PROVE SInv'
  <2>1. PICK e \in {"transport_sent_observed", call[proc[w].call].effect} :
            End(w, [call[proc[w].call] EXCEPT !.status = "failed", !.effect = e], "failed")
      BY <1>17 DEF Raise
  <2>2. [call[proc[w].call] EXCEPT !.status = "failed", !.effect = e].status = "failed"
      BY <1>17 DEF Raise, Busy, TypeOK, Call
  <2> QED BY <1>17, <2>1, <2>2, EndSInv DEF Raise
<1>18. ASSUME NEW w \in Workers, LoseEvents(w) PROVE SInv'
  <2>1. [call[proc[w].call] EXCEPT !.status = "uncertain"].status = "uncertain"
      BY <1>18 DEF LoseEvents, Answered, Busy, TypeOK, Call
  <2> QED BY <1>18, <2>1, EndSInv DEF LoseEvents, Answered
<1> QED
    BY <1>1, <1>3, <1>4, <1>5, <1>6, <1>7, <1>8, <1>9, <1>10, <1>11, <1>12,
       <1>13, <1>14, <1>15, <1>16, <1>17, <1>18 DEF Next

(* Before the first call is created every call may be taken once.            *)
LEMMA InitSInv == Init => SInv
<1> SUFFICES ASSUME Init, NEW c \in Calls PROVE Within(c) /\ Unsent(c)
    BY DEF SInv
<1>1. Senders(c) = {}
    BY DEF Init, Senders, Idle
<1>2. IsFiniteSet(Senders(c)) /\ Cardinality(Senders(c)) = 0
    BY <1>1, FS_EmptySet
<1>3. effects[c] = 0 /\ recovered[c] = 0
    BY DEF Init
<1>4. Within(c)
    BY <1>2, <1>3 DEF Within
<1>5. Unsent(c)
    BY DEF Init, Unsent, Absent
<1> QED BY <1>4, <1>5

(* Without a key a scenario is sent once and once more for every lease that  *)
(* was lost, however many processes and crashes there are (claim_next,       *)
(* recover_orphans).                                                         *)
THEOREM SentOnceForEachLease == Spec => []SentOncePerLease
<1>1. IInv /\ IInv' /\ SInv /\ [Next]_vars => SInv'
    BY NextSInv DEF IInv
<1>2. IInv /\ SInv => SentOncePerLease
  <2> SUFFICES ASSUME IInv, SInv PROVE SentOncePerLease
      OBVIOUS
  <2>1. ASSUME NEW c \in Calls PROVE effects[c] <= 1 + recovered[c]
    <3>1. Within(c)
        BY DEF SInv
    <3>2. Cardinality(Senders(c)) \in Nat
        BY <3>1, FS_CardinalityType DEF Within
    <3> QED BY <3>1, <3>2 DEF Within, IInv, TypeOK
  <2> QED BY <2>1 DEF SentOncePerLease, IInv
<1> QED BY <1>1, <1>2, InitSInv, Invariance, PTL DEF Spec

=============================================================================
