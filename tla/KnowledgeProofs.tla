---------------------------- MODULE KnowledgeProofs ----------------------------
(***************************************************************************)
(* Theorems about AgentMemory and AgentKnowledge, for any number of usage    *)
(* events and requests, any refs, contexts, budgets and reasons.             *)
(***************************************************************************)
EXTENDS AgentMemory, AgentKnowledge, TLAPS

-----------------------------------------------------------------------------
(* One memory: the inductive invariant *)

(* Somebody vouched for an active memory that nobody is trusted to give.     *)
Vouched(m, e) == m.status = "active" => m.source \in Trusted \/ e

MemoryOK == mem = NoMemory \/ (mem \in Memory /\ Vouched(mem, earned))

Loads ==
    {NoLoad} \cup [op : {"feedback"}, usage : Usages, copy : Memory]
    \cup [op : {"record", "contradiction", "stale"}, copy : Memory]

(* Who has loaded the memory will find it, and may write it.                 *)
LoadedOK ==
    /\ loaded \in [Workers -> Loads]
    /\ \A w \in Workers : loaded[w] # NoLoad => mem # NoMemory /\ MaxChanges > 0

(* The usage row is locked by who loaded the memory for it.                  *)
FeedbackIsLocked ==
    \A w \in Workers : loaded[w].op = "feedback" =>
        /\ usage[loaded[w].usage].state = "open"
        /\ \A v \in Workers :
               loaded[v].op = "feedback" /\ loaded[v].usage = loaded[w].usage => v = w

UsageOK ==
    /\ usage \in [Usages -> [state : UsageStates, policy : BOOLEAN, risky : BOOLEAN, applied : Nat]]
    /\ \A u \in Usages :
           /\ usage[u].applied <= IF usage[u].state = "processed" THEN 1 ELSE 0
           /\ usage[u].state = "processed" => MaxChanges > 0

IInv ==
    /\ MemoryOK /\ LoadedOK /\ FeedbackIsLocked /\ UsageOK
    /\ earned \in BOOLEAN /\ changes \in Nat

-----------------------------------------------------------------------------
(* What happens to a memory leaves a memory. *)

(* Clamping leaves a number within the bounds. *)
LEMMA ClampBounds ==
    ASSUME NEW x \in Int, NEW high \in Nat
    PROVE  Clamp(x, high) \in 0 .. high
BY DEF Clamp

(* Harmful feedback changes scores only. *)
LEMMA WorseTyped ==
    ASSUME NEW m \in Memory
    PROVE  Worse(m) \in Memory /\ Worse(m).status = m.status /\ Worse(m).source = m.source
<1>1. m.conf - 15 \in Int /\ m.stale + 25 \in Int
    BY DEF Memory
<1>2. Clamp(m.conf - 15, 95) \in 0 .. 95 /\ Clamp(m.stale + 25, 100) \in 0 .. 100
    BY <1>1, ClampBounds
<1> QED BY <1>2 DEF Worse, Memory

(* Bad news never makes a memory active.                                     *)
LEMMA ContradictedTyped ==
    ASSUME NEW m \in Memory, NEW severity, NEW policy, NEW print \in BOOLEAN
    PROVE  LET n == Contradicted(m, severity, policy, print) IN
           n \in Memory /\ n.source = m.source /\ (n.status = "active" => m.status = "active")
<1> DEFINE worse == Worse(m)
           state == IF severity = "critical" \/ policy THEN "needs_revalidation"
                     ELSE IF severity = "high" \/ (print /\ m.print) THEN "suspect"
                     ELSE worse.status
<1>1. worse \in Memory /\ worse.status = m.status /\ worse.source = m.source
    BY WorseTyped
<1>2. Contradicted(m, severity, policy, print) = [worse EXCEPT !.print = print, !.status = state]
    BY DEF Contradicted
<1>3. state \in {"needs_revalidation", "suspect", m.status} /\ m.status \in Statuses
    BY <1>1 DEF Memory
<1> HIDE DEF worse, state
<1> QED BY <1>1, <1>2, <1>3 DEF Memory, Statuses

(* An outdated memory is active only if it was. *)
LEMMA OutdatedTyped ==
    ASSUME NEW m \in Memory, NEW policy
    PROVE  LET n == Outdated(m, policy) IN
           n \in Memory /\ n.source = m.source /\ (n.status = "active" => m.status = "active")
<1> DEFINE stale == Clamp(m.stale + (IF policy THEN 30 ELSE 20), 100)
           state == IF policy \/ stale >= 80 THEN "needs_revalidation" ELSE m.status
<1>1. m.stale + (IF policy THEN 30 ELSE 20) \in Int
    BY DEF Memory
<1>2. stale \in 0 .. 100
    BY <1>1, ClampBounds
<1>3. state \in {"needs_revalidation", m.status} /\ m.status \in Statuses
    BY DEF Memory
<1>4. Outdated(m, policy) = [m EXCEPT !.stale = stale, !.environment = FALSE, !.status = state]
    BY DEF Outdated
<1> HIDE DEF stale, state
<1> QED BY <1>2, <1>3, <1>4 DEF Memory, Statuses

(* A memory marked stale is active only if it was. *)
LEMMA MarkedStaleTyped ==
    ASSUME NEW m \in Memory, NEW event
    PROVE  LET n == MarkedStale(m, event) IN
           n \in Memory /\ n.source = m.source /\ (n.status = "active" => m.status = "active")
<1> DEFINE stale == Clamp(m.stale + StaleDelta(event), 100)
           state == IF event \in {"manifest.changed", "environment.updated"} \/ stale >= 80
                     THEN "needs_revalidation" ELSE m.status
           environment == event = "environment.updated"
<1>1. m.stale + StaleDelta(event) \in Int
  <2>1. StaleDelta(event) \in {20, 25, 30}
      BY DEF StaleDelta
  <2> QED BY <2>1 DEF Memory
<1>2. stale \in 0 .. 100
    BY <1>1, ClampBounds
<1>3. state \in {"needs_revalidation", m.status} /\ m.status \in Statuses
    BY DEF Memory
<1>4. MarkedStale(m, event) =
          [m EXCEPT !.stale = stale, !.environment = environment, !.status = state]
    BY DEF MarkedStale
<1>5. environment \in BOOLEAN
    OBVIOUS
<1> HIDE DEF stale, state, environment
<1>6. state \in Statuses /\ (state = "active" => m.status = "active")
    BY <1>3 DEF Statuses
<1>7. [m EXCEPT !.stale = stale, !.environment = environment, !.status = state] \in Memory
    BY <1>2, <1>5, <1>6 DEF Memory
<1> QED BY <1>4, <1>6, <1>7 DEF Memory

(* A confirmation leaves a memory of the same source. *)
LEMMA ConfirmedTyped ==
    ASSUME NEW m \in Memory, NEW outcome, NEW delta \in Int
    PROVE  Confirmed(m, outcome, delta) \in Memory /\ Confirmed(m, outcome, delta).source = m.source
<1> DEFINE conf == Clamp(m.conf + delta, 95)
           stale == Clamp(m.stale - (IF outcome = "validated" THEN 10 ELSE 8), 100)
           validated == (m.validated \/ outcome = "validated")
           better == [m EXCEPT !.conf = conf, !.stale = stale, !.validated = validated]
           restored == \/ /\ m.status = "needs_revalidation"
                          /\ better.stale <= 50
                          /\ better.conf >= InitialConfidence[m.source]
                       \/ /\ outcome = "validated"
                          /\ m.status \in {"needs_review", "needs_revalidation", "suspect"}
           state == IF restored THEN "active" ELSE better.status
<1>1. m.conf + delta \in Int /\ m.stale - (IF outcome = "validated" THEN 10 ELSE 8) \in Int
    BY DEF Memory
<1>2. conf \in 0 .. 95 /\ stale \in 0 .. 100
    BY <1>1, ClampBounds
<1>3. validated \in BOOLEAN
    OBVIOUS
<1>4. Confirmed(m, outcome, delta) = [better EXCEPT !.status = state]
    BY DEF Confirmed
<1> HIDE DEF conf, stale, validated
<1>5. better \in Memory /\ better.source = m.source
    BY <1>2, <1>3 DEF Memory
<1> HIDE DEF restored
<1>6. state \in Statuses
    BY <1>5 DEF Memory, Statuses
<1> HIDE DEF better, state
<1> QED BY <1>4, <1>5, <1>6 DEF Memory

(* Only good news makes a memory active.                                     *)
LEMMA AfterFeedbackTyped ==
    ASSUME NEW m \in Memory, NEW outcome, NEW policy, NEW caused, NEW severity, NEW print \in BOOLEAN
    PROVE  LET n == AfterFeedback(m, outcome, policy, caused, severity, print) IN
           /\ n \in Memory /\ n.source = m.source
           /\ n.status = "active" => m.status = "active" \/ (outcome \in Positive /\ m.status # "rejected")
<1>1. \A delta \in {3, 5} :
          Confirmed(m, outcome, delta) \in Memory /\ Confirmed(m, outcome, delta).source = m.source
    BY ConfirmedTyped
<1>2. (IF policy \/ caused THEN 5 ELSE 3) \in {3, 5}
    OBVIOUS
<1>3. outcome \in Positive => outcome # "stale" /\ outcome # "misleading"
    BY DEF Positive
<1> QED BY <1>1, <1>2, <1>3, OutdatedTyped, ContradictedTyped DEF AfterFeedback

(* The columns a request changed, and the others as they are by then.        *)
LEMMA WriteBackTyped ==
    ASSUME NEW row \in Memory, NEW copy \in Memory, NEW new \in Memory, new.source = copy.source
    PROVE  LET n == WriteBack(row, copy, new) IN
           /\ n \in Memory
           /\ n.source = row.source
           /\ n.status = "active" => row.status = "active" \/ (new.status = "active" /\ copy.status # "active")
<1> DEFINE n == WriteBack(row, copy, new)
<1>1. DOMAIN row = {"source", "status", "conf", "stale", "environment", "validated",
                    "contradicted", "print", "expired"}
    BY DEF Memory
<1>2. n = [source |-> n.source, status |-> n.status, conf |-> n.conf, stale |-> n.stale,
           environment |-> n.environment, validated |-> n.validated,
           contradicted |-> n.contradicted, print |-> n.print, expired |-> n.expired]
    BY <1>1 DEF WriteBack
<1>3. /\ n.source = row.source /\ n.status \in {row.status, new.status}
      /\ n.conf \in {row.conf, new.conf} /\ n.stale \in {row.stale, new.stale}
      /\ n.environment \in {row.environment, new.environment}
      /\ n.validated \in {row.validated, new.validated}
      /\ n.contradicted \in {row.contradicted, new.contradicted}
      /\ n.print \in {row.print, new.print} /\ n.expired \in {row.expired, new.expired}
    BY <1>1 DEF WriteBack
<1>4. n.status = (IF new.status # copy.status THEN new.status ELSE row.status)
    BY <1>1 DEF WriteBack
<1> HIDE DEF n
<1>5. /\ n.source \in Sources /\ n.status \in Statuses /\ n.conf \in 0 .. 95 /\ n.stale \in 0 .. 100
      /\ n.environment \in BOOLEAN /\ n.validated \in BOOLEAN /\ n.contradicted \in BOOLEAN
      /\ n.print \in BOOLEAN /\ n.expired \in BOOLEAN
    BY <1>3 DEF Memory
<1>6. n \in Memory
    BY <1>2, <1>5 DEF Memory
<1> QED BY <1>3, <1>4, <1>6 DEF n

-----------------------------------------------------------------------------
(* The actions on a memory *)

(* The mark for no row is no memory. *)
LEMMA NoMemoryIsNone == NoMemory \notin Memory
BY DEF NoMemory, Memory, Sources

(* A session that has loaded nothing is doing nothing. *)
LEMMA NoLoadHasNoUsage == NoLoad.op = "none"
BY DEF NoLoad

(* A request that changes the row leaves what others hold alone.             *)
LEMMA RowChanges ==
    ASSUME IInv, mem' \in Memory, Vouched(mem', earned'), UNCHANGED <<usage, loaded>>,
           earned' \in BOOLEAN, changes' \in Nat
    PROVE  IInv'
<1>1. mem' # NoMemory
    BY NoMemoryIsNone
<1> QED BY <1>1 DEF IInv, MemoryOK, LoadedOK, FeedbackIsLocked, UsageOK

(* A memory is created active only if its source vouches for it. *)
LEMMA CreateMemoryKept ==
    ASSUME IInv, NEW source \in Sources, NEW ref, NEW hash, NEW records,
           CreateMemory(source, ref, hash, records)
    PROVE  IInv'
<1> DEFINE state == CreatedStatus(source)
           conf == InitialConfidence[source]
           new == [NoMemory EXCEPT !.source = source, !.status = state, !.conf = conf]
<1>1. mem' = new /\ UNCHANGED <<usage, loaded, earned, changes>>
    BY DEF CreateMemory
<1>2. conf \in 0 .. 95
    BY DEF InitialConfidence, Sources
<1>3. state \in Statuses /\ (state = "active" => source \in Trusted)
    BY DEF CreatedStatus, Statuses
<1> HIDE DEF state, conf
<1>4. new \in Memory /\ new.status = state /\ new.source = source
  <2> DEFINE some == [NoMemory EXCEPT !.source = source]
  <2>1. some \in Memory
    <3>1. NoMemory \in [source : {"none"}, status : Statuses, conf : 0 .. 95, stale : 0 .. 100,
                        environment : BOOLEAN, validated : BOOLEAN, contradicted : BOOLEAN,
                        print : BOOLEAN, expired : BOOLEAN]
        BY DEF NoMemory, Statuses
    <3> QED BY <3>1 DEF Memory
  <2>2. some.source = source /\ new = [some EXCEPT !.status = state, !.conf = conf]
      BY DEF NoMemory
  <2> HIDE DEF some, new
  <2> QED BY <1>2, <1>3, <2>1, <2>2 DEF Memory
<1> HIDE DEF new
<1> QED BY <1>1, <1>3, <1>4, RowChanges DEF Vouched, IInv

(* A user who sets a status vouches for the memory. *)
LEMMA UpdateMemoryKept == ASSUME IInv, NEW new \in Statuses, UpdateMemory(new) PROVE IInv'
<1> DEFINE m == [mem EXCEPT !.status = new]
<1>1. mem \in Memory /\ mem' = m /\ (new = "active" => mem.source \in Trusted)
      /\ UNCHANGED <<usage, loaded, earned>> /\ changes' \in Nat
    BY DEF UpdateMemory, CanChange, Exists, StatusAllowed, IInv, MemoryOK
<1>2. m \in Memory /\ m.status = new /\ m.source = mem.source
    BY <1>1 DEF Memory
<1> HIDE DEF m
<1> QED BY <1>1, <1>2, RowChanges DEF Vouched, IInv

(* A validation vouches for the memory. *)
LEMMA ValidateMemoryKept == ASSUME IInv, ValidateMemory PROVE IInv'
<1> DEFINE conf == Clamp(mem.conf + 10, 95)
           stale == Clamp(mem.stale - 25, 100)
           m == [mem EXCEPT !.status = "active", !.validated = TRUE, !.conf = conf, !.stale = stale]
<1>1. mem \in Memory /\ mem' = m /\ earned' = TRUE
      /\ UNCHANGED <<usage, loaded>> /\ changes' \in Nat
    BY DEF ValidateMemory, CanChange, Exists, IInv, MemoryOK
<1>2. mem.conf + 10 \in Int /\ mem.stale - 25 \in Int
    BY <1>1 DEF Memory
<1>3. conf \in 0 .. 95 /\ stale \in 0 .. 100
    BY <1>2, ClampBounds
<1> HIDE DEF conf, stale
<1>4. m \in Memory
    BY <1>1, <1>3 DEF Memory, Statuses
<1> HIDE DEF m
<1> QED BY <1>1, <1>4, RowChanges DEF Vouched

(* A rejection leaves the memory inactive. *)
LEMMA RejectMemoryKept == ASSUME IInv, RejectMemory PROVE IInv'
<1> DEFINE conf == IF mem.conf > 10 THEN 10 ELSE mem.conf
           m == [mem EXCEPT !.status = "rejected", !.stale = 100, !.conf = conf]
<1>1. mem \in Memory /\ mem' = m /\ UNCHANGED <<usage, loaded, earned>> /\ changes' \in Nat
    BY DEF RejectMemory, CanChange, Exists, IInv, MemoryOK
<1>2. conf \in 0 .. 95
    BY <1>1 DEF Memory
<1> HIDE DEF conf
<1>3. m \in Memory /\ m.status = "rejected"
  <2>1. "rejected" \in Statuses /\ 100 \in 0 .. 100
      BY DEF Statuses
  <2> QED BY <1>1, <1>2, <2>1 DEF Memory
<1> HIDE DEF m
<1> QED BY <1>1, <1>3, RowChanges DEF Vouched, IInv

(* A memory whose time to live runs out keeps its status. *)
LEMMA ExpireKept == ASSUME IInv, Expire PROVE IInv'
<1> DEFINE m == [mem EXCEPT !.expired = TRUE]
<1>1. mem \in Memory /\ Vouched(mem, earned) /\ mem' = m /\ UNCHANGED <<usage, loaded, earned, changes>>
    BY DEF Expire, Exists, IInv, MemoryOK
<1>2. m \in Memory /\ m.status = mem.status /\ m.source = mem.source
    BY <1>1 DEF Memory
<1> HIDE DEF m
<1> QED BY <1>1, <1>2, RowChanges DEF Vouched, IInv

(* The handler of expired memories makes nothing active. *)
LEMMA ProcessExpiredTtlKept == ASSUME IInv, ProcessExpiredTtl PROVE IInv'
<1> DEFINE stale == Clamp(mem.stale + 10, 100)
           state == IF stale >= 80 THEN "needs_revalidation" ELSE mem.status
           m == [mem EXCEPT !.stale = stale, !.environment = FALSE, !.status = state]
<1>1. mem \in Memory /\ Vouched(mem, earned) /\ mem' = m
      /\ UNCHANGED <<usage, loaded, earned>> /\ changes' \in Nat
    BY DEF ProcessExpiredTtl, CanChange, Exists, IInv, MemoryOK
<1>2. mem.stale + 10 \in Int
    BY <1>1 DEF Memory
<1>3. stale \in 0 .. 100
    BY <1>2, ClampBounds
<1>4. state \in {"needs_revalidation", mem.status} /\ mem.status \in Statuses
    BY <1>1 DEF Memory
<1> HIDE DEF stale, state
<1>5. m \in Memory /\ m.status = state /\ m.source = mem.source
    BY <1>1, <1>3, <1>4 DEF Memory, Statuses
<1> HIDE DEF m
<1> QED BY <1>1, <1>4, <1>5, RowChanges DEF Vouched, IInv

(* A usage event that nobody has given feedback for yet.                     *)
LEMMA RetrieveKept ==
    ASSUME IInv, NEW u \in Usages, NEW profile, NEW risky \in BOOLEAN, NEW policy \in BOOLEAN,
           Retrieve(u, profile, risky, policy)
    PROVE  IInv'
<1> DEFINE new == [NoUsage EXCEPT !.state = "open", !.policy = policy, !.risky = risky]
<1>1. /\ usage[u].state = "none" /\ usage' = [usage EXCEPT ![u] = new]
      /\ UNCHANGED <<mem, loaded, earned, changes>>
    BY DEF Retrieve
<1>2. /\ new \in [state : UsageStates, policy : BOOLEAN, risky : BOOLEAN, applied : Nat]
      /\ new.applied = 0 /\ new.state = "open"
    BY DEF NoUsage, UsageStates
<1> HIDE DEF new
<1>3. \A v \in Usages : usage'[v] = IF v = u THEN new ELSE usage[v]
    BY <1>1 DEF IInv, UsageOK
<1>4. UsageOK'
    BY <1>1, <1>2, <1>3 DEF IInv, UsageOK
<1>5. FeedbackIsLocked'
  <2>1. ASSUME NEW w \in Workers, loaded[w].op = "feedback"
        PROVE  loaded[w].usage # u /\ loaded[w].usage \in Usages
    <3>1. loaded[w] \in Loads
        BY DEF IInv, LoadedOK
    <3>2. loaded[w].usage \in Usages
        BY <2>1, <3>1 DEF Loads, NoLoad
    <3> QED BY <1>1, <2>1, <3>2 DEF IInv, FeedbackIsLocked
  <2> QED BY <1>1, <1>3, <2>1 DEF IInv, FeedbackIsLocked
<1> QED BY <1>1, <1>4, <1>5 DEF IInv, MemoryOK, LoadedOK

(* Who loads the memory for feedback locks the usage row.                    *)
LEMMA LoadForFeedbackKept ==
    ASSUME IInv, NEW w \in Workers, NEW u \in Usages, LoadForFeedback(w, u) PROVE IInv'
<1> DEFINE new == [op |-> "feedback", usage |-> u, copy |-> mem]
<1>1. /\ mem \in Memory /\ MaxChanges > 0
      /\ usage[u].state = "open" /\ ~Locked(u)
      /\ loaded' = [loaded EXCEPT ![w] = new]
      /\ UNCHANGED <<mem, usage, earned, changes>>
    BY MemoryAssumption DEF LoadForFeedback, CanChange, Exists, MayTakeFeedback, IInv, MemoryOK
<1>2. new \in Loads /\ new.op = "feedback" /\ new.usage = u
    BY <1>1 DEF Loads
<1> HIDE DEF new
<1>3. \A v \in Workers : loaded'[v] = IF v = w THEN new ELSE loaded[v]
    BY <1>1 DEF IInv, LoadedOK
<1>4. LoadedOK'
    BY <1>1, <1>2, NoMemoryIsNone DEF IInv, LoadedOK
<1>5. FeedbackIsLocked'
    BY <1>1, <1>2, <1>3 DEF IInv, FeedbackIsLocked, Locked
<1> QED BY <1>1, <1>4, <1>5 DEF IInv, MemoryOK, UsageOK

(* The other loads lock nothing.                                             *)
LEMMA LoadKept ==
    ASSUME IInv, NEW w \in Workers, LoadForRecord(w) \/ LoadForContradiction(w) \/ LoadForStale(w)
    PROVE  IInv'
<1>1. PICK op \in {"record", "contradiction", "stale"} :
          loaded' = [loaded EXCEPT ![w] = [op |-> op, copy |-> mem]]
    BY DEF LoadForRecord, LoadForContradiction, LoadForStale
<1> DEFINE new == [op |-> op, copy |-> mem]
<1>2. mem \in Memory /\ MaxChanges > 0 /\ UNCHANGED <<mem, usage, earned, changes>>
    BY MemoryAssumption DEF LoadForRecord, LoadForContradiction, LoadForStale, CanChange, Exists, IInv, MemoryOK
<1>3. new \in Loads /\ new.op # "feedback"
    BY <1>2 DEF Loads
<1>4. loaded' = [loaded EXCEPT ![w] = new]
    BY <1>1
<1> HIDE DEF new
<1>5. \A v \in Workers : loaded'[v] = IF v = w THEN new ELSE loaded[v]
    BY <1>4 DEF IInv, LoadedOK
<1>6. LoadedOK'
    BY <1>2, <1>3, <1>4, NoMemoryIsNone DEF IInv, LoadedOK
<1>7. FeedbackIsLocked'
    BY <1>2, <1>3, <1>5 DEF IInv, FeedbackIsLocked
<1> QED BY <1>2, <1>6, <1>7 DEF IInv, MemoryOK, UsageOK

(* A request writes what it changed of its copy and lets go.                 *)
LEMMA WriteKept ==
    ASSUME IInv, NEW w \in Workers, NEW new \in Memory,
           loaded[w].op # "none",
           new.source = loaded[w].copy.source,
           new.status = "active" => loaded[w].copy.status = "active" \/ earned',
           mem' = WriteBack(mem, loaded[w].copy, new),
           loaded' = [loaded EXCEPT ![w] = NoLoad],
           earned' \in BOOLEAN, earned => earned',
           changes' = changes + 1
    PROVE  /\ MemoryOK' /\ LoadedOK' /\ changes' \in Nat
           /\ UNCHANGED usage => FeedbackIsLocked'
           /\ loaded'[w].op = "none"
           /\ \A v \in Workers \ {w} : loaded'[v] = loaded[v]
<1>1. loaded[w] \in Loads /\ loaded[w] # NoLoad
    BY NoLoadHasNoUsage DEF IInv, LoadedOK
<1>2. loaded[w].copy \in Memory /\ mem # NoMemory
    BY <1>1 DEF Loads, IInv, LoadedOK
<1>3. mem \in Memory /\ Vouched(mem, earned)
    BY <1>2 DEF IInv, MemoryOK
<1>4. mem' \in Memory /\ Vouched(mem', earned')
    BY <1>2, <1>3, WriteBackTyped DEF Vouched
<1>5. loaded'[w].op = "none" /\ loaded'[w] = NoLoad /\ \A v \in Workers \ {w} : loaded'[v] = loaded[v]
    BY NoLoadHasNoUsage DEF IInv, LoadedOK
<1>6. LoadedOK'
    BY <1>4, NoMemoryIsNone DEF IInv, LoadedOK, Loads
<1>7. UNCHANGED usage => FeedbackIsLocked'
    BY <1>5 DEF IInv, FeedbackIsLocked
<1> QED BY <1>4, <1>5, <1>6, <1>7 DEF IInv, MemoryOK

(* Feedback is written by the session that holds the lock of its usage. *)
LEMMA WriteFeedbackKept ==
    ASSUME IInv, NEW w \in Workers, NEW outcome, NEW caused, NEW severity, NEW print \in BOOLEAN,
           WriteFeedback(w, outcome, caused, severity, print)
    PROVE  IInv'
<1> DEFINE u == loaded[w].usage
           copy == loaded[w].copy
           new == AfterFeedback(copy, outcome, usage[u].policy, caused, severity, print)
           applied == IF copy.status = "rejected" THEN usage[u].applied ELSE usage[u].applied + 1
           done == [usage[u] EXCEPT !.state = "processed", !.applied = applied]
<1>1. /\ loaded[w].op = "feedback" /\ mem' = WriteBack(mem, copy, new)
      /\ earned' = (earned \/ (outcome \in Positive /\ copy.status # "rejected"))
      /\ loaded' = [loaded EXCEPT ![w] = NoLoad] /\ changes' = changes + 1
    BY DEF WriteFeedback
<1>2. u \in Usages /\ copy \in Memory /\ loaded[w] # NoLoad
    BY <1>1, NoLoadHasNoUsage DEF IInv, LoadedOK, Loads
<1>3. /\ new \in Memory /\ new.source = copy.source
      /\ new.status = "active" =>
             copy.status = "active" \/ (outcome \in Positive /\ copy.status # "rejected")
    BY <1>2, AfterFeedbackTyped
<1> HIDE DEF new
<1>4. /\ earned' \in BOOLEAN /\ (earned => earned')
      /\ new.status = "active" => copy.status = "active" \/ earned'
    BY <1>1, <1>3, Zenon
<1>5. /\ MemoryOK' /\ LoadedOK' /\ changes' \in Nat /\ loaded'[w].op = "none"
      /\ \A v \in Workers \ {w} : loaded'[v] = loaded[v]
    BY <1>1, <1>3, <1>4, WriteKept
<1>6. usage[u].state = "open" /\ usage[u].applied = 0 /\ MaxChanges > 0
    BY <1>1, <1>2 DEF IInv, FeedbackIsLocked, UsageOK, LoadedOK
<1>7. usage' = [usage EXCEPT ![u] = done]
    BY <1>2 DEF WriteFeedback, IInv, UsageOK
<1>8. applied \in {0, 1}
    BY <1>6
<1> HIDE DEF applied
<1> DEFINE Row == [state : UsageStates, policy : BOOLEAN, risky : BOOLEAN, applied : Nat]
<1>9. /\ done \in [state : UsageStates, policy : BOOLEAN, risky : BOOLEAN, applied : Nat]
      /\ done.state = "processed" /\ done.applied = applied
  <2>1. usage[u] \in Row
      BY <1>2 DEF IInv, UsageOK
  <2>2. applied \in Nat /\ "processed" \in UsageStates
      BY <1>8 DEF UsageStates
  <2> QED BY <2>1, <2>2
<1> HIDE DEF done
<1>10. \A v \in Usages : usage'[v] = IF v = u THEN done ELSE usage[v]
    BY <1>7 DEF IInv, UsageOK
<1>11. UsageOK'
  <2>1. usage' \in [Usages -> Row]
      BY <1>7, <1>9 DEF IInv, UsageOK
  <2>2. applied <= 1
      BY <1>8
  <2> QED BY <1>6, <1>9, <1>10, <2>1, <2>2 DEF IInv, UsageOK
<1>12. FeedbackIsLocked'
  <2>1. ASSUME NEW v \in Workers, loaded'[v].op = "feedback"
        PROVE  v # w /\ loaded[v].op = "feedback" /\ loaded[v].usage # u /\ loaded[v].usage \in Usages
    <3>1. v # w /\ loaded[v].op = "feedback"
        BY <1>5, <2>1
    <3>2. loaded[v] \in Loads
        BY DEF IInv, LoadedOK
    <3>3. loaded[v].usage \in Usages
        BY <3>1, <3>2 DEF Loads, NoLoad
    <3> QED BY <1>1, <3>1, <3>3 DEF IInv, FeedbackIsLocked
  <2> QED BY <1>5, <1>10, <2>1 DEF IInv, FeedbackIsLocked
<1> QED BY <1>4, <1>5, <1>11, <1>12 DEF IInv

(* The other writes leave the usage events alone.                            *)
LEMMA OtherWriteKept ==
    ASSUME IInv, NEW w \in Workers, NEW new \in Memory, loaded[w].op # "none",
           new.source = loaded[w].copy.source,
           new.status = "active" => loaded[w].copy.status = "active" \/ earned',
           mem' = WriteBack(mem, loaded[w].copy, new),
           loaded' = [loaded EXCEPT ![w] = NoLoad],
           earned' \in BOOLEAN, earned => earned',
           changes' = changes + 1, UNCHANGED usage
    PROVE  IInv'
<1>1. MemoryOK' /\ LoadedOK' /\ FeedbackIsLocked' /\ changes' \in Nat
    BY WriteKept
<1> QED BY <1>1 DEF IInv, UsageOK

(* What a busy session has loaded is a memory. *)
LEMMA CopyTyped ==
    ASSUME IInv, NEW w \in Workers, loaded[w].op # "none" PROVE loaded[w].copy \in Memory
BY NoLoadHasNoUsage DEF IInv, LoadedOK, Loads

(* A recorded outcome counts a usage that was not counted. *)
LEMMA WriteRecordKept ==
    ASSUME IInv, NEW w \in Workers, NEW outcome, NEW severity, NEW print \in BOOLEAN,
           WriteRecord(w, outcome, severity, print)
    PROVE  IInv'
<1> DEFINE copy == loaded[w].copy
           policy == TRUE
           caused == outcome = "misleading"
           new == AfterFeedback(copy, outcome, policy, caused, severity, print)
<1>1. /\ loaded[w].op = "record" /\ mem' = WriteBack(mem, copy, new)
      /\ earned' = (earned \/ outcome \in Positive) /\ loaded' = [loaded EXCEPT ![w] = NoLoad]
      /\ changes' = changes + 1 /\ UNCHANGED usage
    BY DEF WriteRecord
<1> HIDE DEF policy, caused
<1>2. copy \in Memory
    BY <1>1, CopyTyped
<1>3. /\ new \in Memory /\ new.source = copy.source
      /\ new.status = "active" => copy.status = "active" \/ outcome \in Positive
    BY <1>2, AfterFeedbackTyped
<1> HIDE DEF new
<1>4. /\ earned' \in BOOLEAN /\ (earned => earned')
      /\ new.status = "active" => copy.status = "active" \/ earned'
    BY <1>1, <1>3, Zenon
<1> QED BY <1>1, <1>3, <1>4, OtherWriteKept

(* A contradiction makes nothing active. *)
LEMMA WriteContradictionKept ==
    ASSUME IInv, NEW w \in Workers, NEW severity, NEW print \in BOOLEAN,
           WriteContradiction(w, severity, print)
    PROVE  IInv'
<1> DEFINE copy == loaded[w].copy
           new == Contradicted(copy, severity, FALSE, print)
<1>1. /\ loaded[w].op = "contradiction" /\ mem' = WriteBack(mem, copy, new)
      /\ loaded' = [loaded EXCEPT ![w] = NoLoad] /\ changes' = changes + 1 /\ UNCHANGED <<usage, earned>>
    BY DEF WriteContradiction
<1>2. copy \in Memory
    BY <1>1, CopyTyped
<1>3. new \in Memory /\ new.source = copy.source /\ (new.status = "active" => copy.status = "active")
    BY <1>2, ContradictedTyped
<1>4. earned \in BOOLEAN
    BY DEF IInv
<1> QED BY <1>1, <1>3, <1>4, OtherWriteKept

(* A stale mark set on an old copy makes nothing active. *)
LEMMA WriteStaleKept ==
    ASSUME IInv, NEW w \in Workers, NEW ev, WriteStale(w, ev) PROVE IInv'
<1> DEFINE copy == loaded[w].copy
           new == MarkedStale(copy, ev)
<1>1. /\ loaded[w].op = "stale" /\ mem' = WriteBack(mem, copy, new)
      /\ loaded' = [loaded EXCEPT ![w] = NoLoad] /\ changes' = changes + 1 /\ UNCHANGED <<usage, earned>>
    BY DEF WriteStale
<1>2. copy \in Memory
    BY <1>1, CopyTyped
<1>3. new \in Memory /\ new.source = copy.source /\ (new.status = "active" => copy.status = "active")
    BY <1>2, MarkedStaleTyped
<1>4. earned \in BOOLEAN
    BY DEF IInv
<1> QED BY <1>1, <1>3, <1>4, OtherWriteKept

-----------------------------------------------------------------------------
(* Theorems about a memory *)

(* The initial states satisfy IInv. *)
LEMMA InitIInv == Init => IInv
<1> SUFFICES ASSUME Init PROVE IInv
    OBVIOUS
<1>1. NoUsage \in [state : UsageStates, policy : BOOLEAN, risky : BOOLEAN, applied : Nat]
      /\ NoUsage.applied = 0 /\ NoUsage.state = "none"
    BY DEF NoUsage, UsageStates
<1>2. UsageOK
    BY <1>1 DEF Init, UsageOK
<1>3. LoadedOK /\ FeedbackIsLocked
    BY NoLoadHasNoUsage DEF Init, LoadedOK, Loads, FeedbackIsLocked
<1> QED BY <1>2, <1>3 DEF Init, IInv, MemoryOK

(* No step breaks IInv. *)
LEMMA NextIInv == IInv /\ [Next]_vars => IInv'
<1> SUFFICES ASSUME IInv, [Next]_vars PROVE IInv'
    OBVIOUS
<1>1. CASE UNCHANGED vars
    BY <1>1 DEF vars, IInv, MemoryOK, LoadedOK, FeedbackIsLocked, UsageOK
<1>2. CASE UserStep
    BY <1>2, CreateMemoryKept, UpdateMemoryKept, ValidateMemoryKept, RejectMemoryKept, RetrieveKept
    DEF UserStep
<1>3. ASSUME NEW w \in Workers, WorkerStep(w) PROVE IInv'
    BY <1>3, LoadForFeedbackKept, WriteFeedbackKept, LoadKept, WriteRecordKept,
       WriteContradictionKept, WriteStaleKept
    DEF WorkerStep
<1> QED BY <1>1, <1>2, <1>3, ExpireKept, ProcessExpiredTtlKept DEF Next

(* The inductive invariant holds in every reachable state.                   *)
THEOREM MemoryInvariance == Spec => []IInv
BY InitIInv, NextIInv, PTL DEF Spec

(* Scores stay within their bounds, and a write of single columns leaves a   *)
(* memory (AgentMemoryService).                                              *)
THEOREM MemoryTypeCorrect == Spec => []TypeOK
<1>1. IInv => TypeOK
  <2> SUFFICES ASSUME IInv PROVE TypeOK
      OBVIOUS
  <2>1. \A w \in Workers : loaded[w] = NoLoad \/ loaded[w].copy \in Memory
      BY DEF IInv, LoadedOK, Loads
  <2>2. ASSUME NEW u \in Usages PROVE usage[u].applied \in 0 .. MaxChanges
      BY MemoryAssumption DEF IInv, UsageOK
  <2>3. usage \in [Usages -> [state : UsageStates, policy : BOOLEAN, risky : BOOLEAN,
                              applied : 0 .. MaxChanges]]
    <3>1. ASSUME NEW u \in Usages
          PROVE  usage[u] \in [state : UsageStates, policy : BOOLEAN, risky : BOOLEAN,
                               applied : 0 .. MaxChanges]
      <4>1. usage[u] \in [state : UsageStates, policy : BOOLEAN, risky : BOOLEAN, applied : Nat]
          BY DEF IInv, UsageOK
      <4> QED BY <2>2, <4>1
    <3> QED BY <3>1 DEF IInv, UsageOK
  <2> QED BY <2>1, <2>3 DEF TypeOK, IInv, MemoryOK
<1> QED BY <1>1, MemoryInvariance, PTL

(* The feedback for a usage event counts once, whoever repeats it            *)
(* (record_usage_feedback, _process_usage_event).                            *)
THEOREM FeedbackCountsOnce == Spec => []FeedbackOnce
<1>1. IInv => FeedbackOnce
    BY DEF IInv, UsageOK, FeedbackOnce
<1> QED BY <1>1, MemoryInvariance, PTL

(* What agents and executions taught is active only after somebody vouched   *)
(* for it, whatever loads and writes cross (AgentMemoryService).             *)
THEOREM ActiveMemoryWasEarned == Spec => []ActiveWasEarned
<1>1. IInv => ActiveWasEarned
    BY DEF IInv, MemoryOK, Vouched, Exists, ActiveWasEarned
<1> QED BY <1>1, MemoryInvariance, PTL

-----------------------------------------------------------------------------
(* The rules for evidence *)

(* The refs a policy looks at are cited and their ids are watched. *)
LEMMA PolicyRefsCited ==
    ASSUME NEW refs \in Contexts
    PROVE  /\ PolicyRefs(refs) \subseteq Cited
           /\ \A ref \in PolicyRefs(refs) : ref.id \in Watched(refs) /\ ref.id \in Ids
           /\ Watched(refs) \subseteq Ids
BY KnowledgeAssumption DEF PolicyRefs, IsPolicyRef, Watched, Ids

(* Missing evidence comes first in the list of stop reasons.                 *)
LEMMA IncompleteStops ==
    ASSUME NEW reasons, Incomplete \in reasons
    PROVE  PrimaryStopReason(reasons) = Incomplete
<1> DEFINE hits == {i \in DOMAIN StopOrder : StopOrder[i] \in reasons}
<1>1. DOMAIN StopOrder = 1 .. 12 /\ StopOrder[1] = Incomplete
    BY DEF StopOrder
<1>2. 1 \in hits /\ hits \subseteq 1 .. 12
    BY <1>1
<1> HIDE DEF hits
<1>3. \E i \in hits : \A j \in hits : i <= j
    BY <1>2
<1>4. (CHOOSE i \in hits : \A j \in hits : i <= j) = 1
  <2> DEFINE least == CHOOSE i \in hits : \A j \in hits : i <= j
  <2>1. least \in hits /\ \A j \in hits : least <= j
      BY <1>3
  <2> HIDE DEF least
  <2>2. least \in 1 .. 12 /\ least <= 1
      BY <1>2, <2>1
  <2>3. least = 1
      BY <2>2
  <2> QED BY <2>3 DEF least
<1> QED BY <1>1, <1>2, <1>4 DEF PrimaryStopReason, hits

(* The rules before the one for missing evidence.                            *)
Urgent == SafetyRules \cup {Rule("RC_EVIDENCE_INCOMPLETE", 20, {Incomplete}, {}, {})}

(* The rules for safety and missing evidence come before all others in priority. *)
LEMMA UrgentFirst ==
    /\ Urgent \subseteq Rules
    /\ \A rule \in Urgent : rule.priority <= 20
    /\ \A rule \in Rules \ Urgent : rule.priority \in Nat /\ rule.priority > 20
<1>1. Urgent \subseteq Rules
    BY DEF Urgent, Rules, EvidenceContextRules
<1>2. \A rule \in Urgent : rule.priority <= 20
    BY DEF Urgent, SafetyRules, Rule
<1>3. \A rule \in EvidenceContextRules \ Urgent : rule.priority \in Nat /\ rule.priority > 20
    BY DEF Urgent, EvidenceContextRules, Rule
<1>4. \A rule \in RecoveryRules \cup RepairRules : rule.priority \in Nat /\ rule.priority > 20
    BY DEF RecoveryRules, RepairRules, Rule
<1>5. \A rule \in LimitRules \cup FallbackRules : rule.priority \in Nat /\ rule.priority > 20
    BY DEF LimitRules, FallbackRules, Rule
<1>6. SafetyRules \subseteq Urgent
    BY DEF Urgent
<1>7. \A rule \in Rules \ Urgent :
          \/ rule \in EvidenceContextRules \ Urgent
          \/ rule \in RecoveryRules \cup RepairRules
          \/ rule \in LimitRules \cup FallbackRules
    BY <1>6 DEF Rules
<1> QED BY <1>1, <1>2, <1>3, <1>4, <1>5, <1>7

(* Of the matching rules one is the first: no two urgent ones are equal.     *)
LEMMA UrgentCause ==
    ASSUME NEW reasons, NEW o, Incomplete \in reasons, o.complete = FALSE, o.risky = TRUE
    PROVE  RootCause(reasons, o) \in Urgent
<1> DEFINE match == {rule \in Rules : Matches(rule, reasons, o)}
           none == Rule("RC_EVIDENCE_INCOMPLETE", 20, {Incomplete}, {}, {})
           omitted == Rule("RC_CONTEXT_OMITTED_HIGH_RISK", 10, {Incomplete}, {}, {})
           revoked == Rule("RC_PERMISSION_REVOKED", 15, {}, {"permission_revoked_before_execution"}, {})
           loop == Rule("RC_POLICY_LOOP", 18, {}, {"policy_loop"}, {})
           Least(rule) == rule \in match /\ \A other \in match : rule.priority <= other.priority
<1>1. none \in match
  <2>1. none.id = "RC_EVIDENCE_INCOMPLETE" /\ none.all = {Incomplete} /\ none.any = {} /\ none.none = {}
      BY DEF Rule
  <2>2. none \in Urgent
      BY DEF Urgent
  <2> HIDE DEF none
  <2>3. Asks(none, o)
      BY <2>1 DEF Asks
  <2> QED BY <2>1, <2>2, <2>3, UrgentFirst DEF Matches
<1>2. /\ none.priority = 20 /\ omitted.priority = 10 /\ revoked.priority = 15 /\ loop.priority = 18
      /\ Urgent = {none, omitted, revoked, loop}
    BY DEF Rule, Urgent, SafetyRules
<1>3. \A rule \in match : rule \notin Urgent => rule.priority \in Nat /\ rule.priority > 20
    BY UrgentFirst
<1> HIDE DEF match, none, omitted, revoked, loop
<1>4. \E rule : Least(rule)
  <2>1. CASE omitted \in match
      BY <1>2, <1>3, <2>1
  <2>2. CASE omitted \notin match /\ revoked \in match
      BY <1>2, <1>3, <2>2
  <2>3. CASE omitted \notin match /\ revoked \notin match /\ loop \in match
      BY <1>2, <1>3, <2>3
  <2>4. CASE omitted \notin match /\ revoked \notin match /\ loop \notin match
      BY <1>1, <1>2, <1>3, <2>4
  <2> QED BY <2>1, <2>2, <2>3, <2>4
<1>5. \A rule : Least(rule) => rule \in Urgent
    BY <1>1, <1>2, <1>3
<1>6. \A rule \in Rules :
          Least(rule) <=> /\ Matches(rule, reasons, o)
                          /\ \A other \in Rules : Matches(other, reasons, o) => rule.priority <= other.priority
    BY DEF match
<1>7. \A rule : Least(rule) => rule \in Rules
    BY DEF match
<1> HIDE DEF Least
<1>8. RootCause(reasons, o) \in Rules /\ Least(RootCause(reasons, o))
    BY <1>4, <1>6, <1>7 DEF RootCause
<1> QED BY <1>5, <1>8

(* An urgent cause is not a contradiction of memories. *)
LEMMA UrgentIds ==
    ASSUME NEW cause \in Urgent
    PROVE  \E rule \in SafetyRules \cup EvidenceContextRules :
               rule.id = cause.id /\ rule.id # "RC_MEMORY_CONTRADICTION"
<1>1. cause \in SafetyRules \cup EvidenceContextRules
    BY DEF Urgent, EvidenceContextRules
<1>2. cause.id # "RC_MEMORY_CONTRADICTION"
    BY DEF Urgent, SafetyRules, Rule
<1> QED BY <1>1, <1>2

-----------------------------------------------------------------------------
(* What a run knows *)

Builds == [step : 0 .. 1, policy : SUBSET Cited, level : Levels, complete : BOOLEAN]

KnowledgeTypeOK ==
    /\ watches \in [Ids -> [active : BOOLEAN, stale : BOOLEAN, environment : BOOLEAN]]
    /\ builds \in Seq(Builds)
    /\ unread \subseteq Ids

(* A ref that a context bound a decision to is watched until it changes, and *)
(* a change that was not read again is still marked.                         *)
EveryBoundRefIsWatched ==
    \A i \in DOMAIN builds : \A ref \in builds[i].policy :
        watches[ref.id].active \/ watches[ref.id].stale

UnreadIsMarked == \A id \in unread : watches[id].stale

KInv ==
    /\ KnowledgeTypeOK /\ EveryBoundRefIsWatched /\ UnreadIsMarked
    /\ MissingEvidenceIsDiagnosed

(* The initial states satisfy KInv. *)
LEMMA InitKInv == InitKnowledge => KInv
<1> SUFFICES ASSUME InitKnowledge PROVE KInv
    OBVIOUS
<1>1. NoWatch \in [active : BOOLEAN, stale : BOOLEAN, environment : BOOLEAN] /\ NoObservation.seen = FALSE
    BY DEF NoWatch, NoObservation
<1>2. builds \in Seq(Builds) /\ DOMAIN builds = {}
    BY DEF InitKnowledge
<1> QED BY <1>1, <1>2 DEF InitKnowledge, KInv, KnowledgeTypeOK, EveryBoundRefIsWatched,
        UnreadIsMarked, MissingEvidenceIsDiagnosed

(* A build of a context keeps its type. *)
LEMMA BuildTyped ==
    ASSUME NEW step \in 0 .. 1, NEW refs \in Contexts, NEW tenths, NEW required
    PROVE  Build(step, refs, tenths, required) \in Builds
<1>1. PolicyRefs(refs) \subseteq Cited
    BY PolicyRefsCited
<1>2. Degradation(tenths) \in Levels
    BY DEF Degradation, Levels
<1>3. IsComplete(refs, Degradation(tenths), required) \in BOOLEAN
    BY DEF IsComplete
<1> QED BY <1>1, <1>2, <1>3 DEF Build, Builds

(* A new context has its refs watched in the same step. *)
LEMMA BuildContextKept ==
    ASSUME KInv, NEW step \in 0 .. 1, NEW refs \in Contexts, NEW tenths, NEW required, NEW usesMemory,
           BuildContext(step, refs, tenths, required, usesMemory)
    PROVE  KInv'
<1> DEFINE new == Build(step, refs, tenths, required)
           watch == [id \in Ids |-> IF id \in Watched(refs)
                                    THEN [watches[id] EXCEPT !.active = TRUE] ELSE watches[id]]
<1>1. /\ builds' = Append(builds, new) /\ watches' = watch /\ obs' = NoObservation
      /\ unread' \subseteq unread
    BY DEF BuildContext
<1>2. new \in Builds /\ new.policy = PolicyRefs(refs)
    BY BuildTyped DEF Build
<1>3. builds \in Seq(Builds) /\ unread \subseteq Ids
    BY DEF KInv, KnowledgeTypeOK
<1> HIDE DEF new
<1>4. /\ builds' \in Seq(Builds)
      /\ \A i \in DOMAIN builds' : builds'[i] = new \/ (i \in DOMAIN builds /\ builds'[i] = builds[i])
    BY <1>1, <1>2, <1>3
<1>5. watch \in [Ids -> [active : BOOLEAN, stale : BOOLEAN, environment : BOOLEAN]]
    BY DEF KInv, KnowledgeTypeOK
<1>6. \A id \in Ids : /\ watch[id].stale = watches[id].stale
                      /\ watches[id].active => watch[id].active
                      /\ id \in Watched(refs) => watch[id].active
    BY DEF KInv, KnowledgeTypeOK
<1> HIDE DEF watch
<1>7. KnowledgeTypeOK'
    BY <1>1, <1>3, <1>4, <1>5 DEF KnowledgeTypeOK
<1>8. EveryBoundRefIsWatched'
  <2>1. ASSUME NEW ref \in PolicyRefs(refs) PROVE watch[ref.id].active
      BY <1>6, PolicyRefsCited
  <2>2. ASSUME NEW i \in DOMAIN builds, NEW ref \in builds[i].policy
        PROVE  watch[ref.id].active \/ watch[ref.id].stale
    <3>1. builds[i] \in Builds
        BY <1>3
    <3>2. ref.id \in Ids
        BY <3>1 DEF Builds, Ids
    <3> QED BY <1>6, <3>2 DEF KInv, EveryBoundRefIsWatched
  <2> QED BY <1>1, <1>2, <1>4, <2>1, <2>2 DEF EveryBoundRefIsWatched
<1>9. UnreadIsMarked'
    BY <1>1, <1>3, <1>6 DEF KInv, UnreadIsMarked
<1>10. MissingEvidenceIsDiagnosed'
    BY <1>1 DEF NoObservation, MissingEvidenceIsDiagnosed
<1> QED BY <1>7, <1>8, <1>9, <1>10 DEF KInv

(* A changed ref marks its watch stale. *)
LEMMA MarkStaleByRefKept ==
    ASSUME KInv, NEW id \in Ids, NEW ev, MarkStaleByRef(id, ev)
    PROVE  KInv'
<1> DEFINE environment == \/ watches[id].environment
                          \/ ev = "environment.updated"
                          \/ \E ref \in Cited : ref.id = id /\ ref.kind = "environment"
           marked == IF watches[id].active
                     THEN [active |-> FALSE, stale |-> TRUE, environment |-> environment]
                     ELSE watches[id]
           Watch == [active : BOOLEAN, stale : BOOLEAN, environment : BOOLEAN]
<1>1. /\ watches' = [watches EXCEPT ![id] = marked]
      /\ unread' = unread \cup {id} /\ obs' = NoObservation /\ UNCHANGED builds
    BY DEF MarkStaleByRef
<1>2. watches \in [Ids -> Watch]
    BY DEF KInv, KnowledgeTypeOK
<1>3. environment \in BOOLEAN
    BY <1>2
<1> HIDE DEF environment
<1>4. marked \in Watch
    BY <1>2, <1>3
<1>5. PICK i \in DOMAIN builds : \E ref \in builds[i].policy : ref.id = id
    BY DEF MarkStaleByRef
<1>6. watches[id].active \/ watches[id].stale
    BY <1>5 DEF KInv, EveryBoundRefIsWatched
<1>7. marked.stale
    BY <1>6
<1> HIDE DEF marked
<1>8. \A other \in Ids : watches'[other] = IF other = id THEN marked ELSE watches[other]
    BY <1>1, <1>2
<1>9. KnowledgeTypeOK'
    BY <1>1, <1>2, <1>4 DEF KInv, KnowledgeTypeOK
<1>10. EveryBoundRefIsWatched'
  <2>1. ASSUME NEW j \in DOMAIN builds, NEW ref \in builds[j].policy
        PROVE  ref.id \in Ids
    <3>1. builds[j] \in Builds
        BY DEF KInv, KnowledgeTypeOK
    <3> QED BY <3>1 DEF Builds, Ids
  <2> QED BY <1>1, <1>7, <1>8, <2>1 DEF KInv, EveryBoundRefIsWatched
<1>11. UnreadIsMarked'
    BY <1>1, <1>7, <1>8 DEF KInv, KnowledgeTypeOK, UnreadIsMarked
<1>12. MissingEvidenceIsDiagnosed'
    BY <1>1 DEF NoObservation, MissingEvidenceIsDiagnosed
<1> QED BY <1>9, <1>10, <1>11, <1>12 DEF KInv

(* An observation is diagnosed when it is recorded. *)
LEMMA RecordObservationKept ==
    ASSUME KInv, NEW i, NEW given, NEW risky \in BOOLEAN, NEW contradicted,
           RecordObservation(i, given, risky, contradicted)
    PROVE  KInv'
<1> DEFINE o == [level |-> builds[i].level, complete |-> builds[i].complete, risky |-> risky,
                 contradictions |-> IF BoundMemory(builds[i]) /\ contradicted THEN 1 ELSE 0]
           reasons == AllReasons(given, o)
<1>1. /\ i \in DOMAIN builds
      /\ obs' = [seen |-> TRUE, complete |-> o.complete, risky |-> risky,
                 stop |-> PrimaryStopReason(reasons), cause |-> RootCause(reasons, o).id,
                 level |-> o.level, max |-> IterationMax]
      /\ UNCHANGED <<watches, builds, unread>>
    BY DEF RecordObservation
<1>2. o.complete \in BOOLEAN /\ o.risky = risky
  <2>1. builds[i] \in Builds
      BY <1>1 DEF KInv, KnowledgeTypeOK
  <2> QED BY <2>1 DEF Builds
<1> HIDE DEF o
<1>3. MissingEvidenceIsDiagnosed'
  <2>1. /\ obs'.risky = risky /\ obs'.complete = o.complete
        /\ obs'.stop = PrimaryStopReason(reasons) /\ obs'.cause = RootCause(reasons, o).id
      BY <1>1
  <2> SUFFICES ASSUME risky = TRUE, o.complete = FALSE
               PROVE  /\ obs'.stop = Incomplete
                      /\ \E rule \in SafetyRules \cup EvidenceContextRules :
                             rule.id = obs'.cause /\ rule.id # "RC_MEMORY_CONTRADICTION"
      BY <1>2, <2>1 DEF MissingEvidenceIsDiagnosed
  <2>2. Incomplete \in reasons
      BY <1>2 DEF AllReasons
  <2> HIDE DEF reasons
  <2>3. PrimaryStopReason(reasons) = Incomplete
      BY <2>2, IncompleteStops
  <2>4. RootCause(reasons, o) \in Urgent
      BY <1>2, <2>2, UrgentCause
  <2> QED BY <2>1, <2>3, <2>4, UrgentIds
<1> QED BY <1>1, <1>3 DEF KInv, KnowledgeTypeOK, EveryBoundRefIsWatched, UnreadIsMarked

(* No step of a run's evidence breaks KInv. *)
LEMMA NextKInv == KInv /\ [NextKnowledge]_runVars => KInv'
<1> SUFFICES ASSUME KInv, [NextKnowledge]_runVars PROVE KInv'
    OBVIOUS
<1>1. ASSUME UNCHANGED <<watches, builds, unread>>, obs' \in {obs, NoObservation} PROVE KInv'
    BY <1>1 DEF KInv, KnowledgeTypeOK, EveryBoundRefIsWatched, UnreadIsMarked,
       MissingEvidenceIsDiagnosed, NoObservation
<1>2. CASE UNCHANGED runVars
    BY <1>1, <1>2 DEF runVars
<1>3. CASE WaitAgain \/ \E early, memoryStale, late \in BOOLEAN : ResumeRun(early, memoryStale, late)
    BY <1>1, <1>3 DEF WaitAgain, ResumeRun
<1> QED BY <1>2, <1>3, BuildContextKept, MarkStaleByRefKept, RecordObservationKept DEF NextKnowledge

(* Every ref that bound a decision is watched, and its change is marked.     *)
THEOREM KnowledgeInvariance == SpecKnowledge => []KInv
BY InitKInv, NextKInv, PTL DEF SpecKnowledge

(* Missing evidence for a risky action is the stop reason, and no repair or  *)
(* limit rule hides it (record_observation, first_matching_rule).            *)
THEOREM MissingEvidenceDiagnosed == SpecKnowledge => []MissingEvidenceIsDiagnosed
<1>1. KInv => MissingEvidenceIsDiagnosed
    BY DEF KInv
<1> QED BY <1>1, KnowledgeInvariance, PTL

(* No resume while a changed ref was not read again                          *)
(* (CheckpointFreshnessGate.evaluate).                                       *)
THEOREM ChangeStopsResume == SpecKnowledge => ChangedEvidenceStopsResume
<1>1. KInv /\ [NextKnowledge]_runVars => [status' = "running" /\ status # "running" => unread = {}]_runVars
  <2> SUFFICES ASSUME KInv, NextKnowledge, status' = "running", status # "running"
               PROVE  unread = {}
      OBVIOUS
  <2>1. PICK early, memoryStale, late \in BOOLEAN : ResumeRun(early, memoryStale, late)
      BY DEF NextKnowledge, BuildContext, MarkStaleByRef, RecordObservation, WaitAgain
  <2>2. GateReason(early, memoryStale, late) = "fresh"
      BY <2>1 DEF ResumeRun
  <2>3. ~StaleEvidence
      BY <2>2 DEF GateReason
  <2>4. \A id \in Ids : ~watches[id].stale
      BY <2>3 DEF StaleEvidence, StaleWatches
  <2> QED BY <2>4 DEF KInv, KnowledgeTypeOK, UnreadIsMarked
<1> QED BY <1>1, KnowledgeInvariance, PTL DEF SpecKnowledge, ChangedEvidenceStopsResume
=============================================================================
