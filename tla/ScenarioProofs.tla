---- MODULE ScenarioProofs ----
(***************************************************************************)
(* Theorems about a scenario: the walk of one run over its steps, and the  *)
(* execution of all its runs with their event logs and readers.            *)
(*                                                                         *)
(* The walk, for every scenario and every outcome of its steps: Flags says *)
(* what the variables of _run_dataset stand for in terms of the results so *)
(* far; it is inductive together with SkipsAsResultsSay, and the other     *)
(* invariants follow from the two and from the order of the steps.         *)
(*                                                                         *)
(* The execution, for any number of runs, steps, workers and readers:      *)
(* ExecutionInv says where a worker stands, what a log holds and what a    *)
(* reader still has before it, and, as long as at most one task found the  *)
(* execution queued, how the runs divide into walked, under way and        *)
(* untouched.                                                              *)
(***************************************************************************)
EXTENDS ScenarioWalk, ScenarioExecution, FiniteSetTheorems, TLAPS

(***************************************************************************)
(* The walk                                                                *)
(***************************************************************************)

Failing == {"failed", "timeout"}

\* What stop_after_nodes, blocked_nodes, global_stop and previous_step hold.
StopAfterIs ==
    stopAfter = {steps[j].node : j \in {k \in 1 .. Len(results) : Stopping(steps[k], results[k])}}

BlockedIs ==
    blocked = {steps[j].node : j \in {k \in 1 .. Len(results) :
        steps[k].phase = "before" /\ results[k] \in Failing /\ ~steps[k].cont}}

GlobalStopIs ==
    IF results = <<>> THEN ~globalStop
    ELSE globalStop <=> GlobalStop(steps, results, Len(results))

PreviousIs ==
    /\ previous # 0 => results[previous] \in Outcomes
    /\ \A j \in previous + 1 .. Len(results) : results[j] \notin Outcomes

ExpiresLate == ~late => \A j \in DOMAIN results : results[j] # "expired"

Ended == status # "running" => Len(results) = Len(steps) /\ status = RunVerdict(results)

ReasonIs == reason.source \in 0 .. Len(results)

Flags ==
    /\ StopAfterIs /\ BlockedIs /\ GlobalStopIs /\ PreviousIs
    /\ ReasonIs /\ ExpiresLate /\ Ended

IInv == TypeOK /\ Flags /\ SkipsAsResultsSay /\ TransitionTellsTheTruth

-----------------------------------------------------------------------------

\* Steps of the same node are contiguous: what lies between two of them
\* belongs to their node.
LEMMA Contiguous ==
    ASSUME NEW s \in Seq(Step), InOrder(s),
           NEW i \in DOMAIN s, NEW j \in DOMAIN s, NEW k \in DOMAIN s,
           i <= j, j <= k, s[i].node = s[k].node
    PROVE  s[j].node = s[i].node
<1>1. s[i] \in Step /\ s[j] \in Step /\ s[k] \in Step
  OBVIOUS
<1>2. s[i].node \in Nat /\ s[j].node \in Nat /\ s[k].node \in Nat
  BY <1>1 DEF Step
<1>3. i \in Nat /\ j \in Nat /\ k \in Nat
  OBVIOUS
<1>4. i < j => s[i].node <= s[j].node
  BY <1>2, <1>3 DEF InOrder
<1>5. j < k => s[j].node <= s[k].node
  BY <1>2, <1>3 DEF InOrder
<1> QED BY <1>2, <1>3, <1>4, <1>5

\* What a step must see in the results does not depend on later results.
LEMMA SkipLooksBack ==
    ASSUME NEW s, NEW res \in Seq(Results), NEW r \in Results,
           NEW i \in 1 .. Len(res) + 1
    PROVE  IsSkipped(s, Append(res, r), i) <=> IsSkipped(s, res, i)
<1>1. \A j \in 1 .. i - 1 : Append(res, r)[j] = res[j]
  OBVIOUS
<1> QED BY <1>1 DEF IsSkipped, GlobalStop, Blocked

\* The code's test for entering a node after a stop is GlobalStop.
LEMMA EntryIsGlobalStop ==
    ASSUME TypeOK, StopAfterIs, GlobalStopIs, Walking
    PROVE  StopOnEntry <=> GlobalStop(steps, results, Index)
<1> DEFINE n == Len(results)
<1>1. n \in Nat /\ Index = n + 1 /\ Index \in DOMAIN steps /\ InOrder(steps)
  BY DEF TypeOK, Index, Walking, ExecutionSteps
<1>2. CASE results = <<>>
  BY <1>1, <1>2 DEF StopOnEntry, GlobalStopIs, GlobalStop
<1>3. CASE results # <<>>
  <2>1. n \in 1 .. n /\ n = Index - 1 /\ n \in DOMAIN steps
    BY <1>1, <1>3 DEF TypeOK, Walking
  <2>2. globalStop <=> GlobalStop(steps, results, n)
    BY <1>3 DEF GlobalStopIs
  <2>3. ASSUME StopOnEntry
        PROVE  GlobalStop(steps, results, Index)
    <3>1. CASE globalStop
      <4>1. PICK j \in 1 .. n - 1 :
              steps[j].node # steps[n].node /\ Stopping(steps[j], results[j])
        BY <2>2, <3>1 DEF GlobalStop
      <4>2. steps[j].node # steps[Index].node
        BY <4>1, <1>1, <2>1, Contiguous DEF TypeOK
      <4> QED BY <4>1, <4>2, <1>1 DEF GlobalStop
    <3>2. CASE ~globalStop
      <4>1. steps[Index].node # steps[n].node /\ steps[n].node \in stopAfter
        BY <2>3, <3>2, <2>1 DEF StopOnEntry
      <4>2. PICK j \in 1 .. n : Stopping(steps[j], results[j]) /\ steps[j].node = steps[n].node
        BY <4>1 DEF StopAfterIs
      <4> QED BY <4>1, <4>2, <1>1 DEF GlobalStop
    <3> QED BY <3>1, <3>2
  <2>4. ASSUME GlobalStop(steps, results, Index)
        PROVE  StopOnEntry
    <3>1. PICK j \in 1 .. n :
            steps[j].node # steps[Index].node /\ Stopping(steps[j], results[j])
      BY <2>4, <1>1 DEF GlobalStop
    <3>2. CASE steps[j].node = steps[n].node
      BY <3>1, <3>2, <2>1, <1>1 DEF StopOnEntry, StopAfterIs
    <3>3. CASE steps[j].node # steps[n].node
      <4>1. j \in 1 .. n - 1
        BY <3>1, <3>3, <2>1
      <4> QED BY <3>1, <3>3, <4>1, <2>2 DEF StopOnEntry, GlobalStop
    <3> QED BY <3>2, <3>3
  <2> QED BY <2>3, <2>4
<1> QED BY <1>2, <1>3

\* The code's test for skipping a step is IsSkipped.
LEMMA SkipHereIsSkipped ==
    ASSUME TypeOK, Flags, Walking
    PROVE  SkipHere <=> IsSkipped(steps, results, Index)
<1>1. StopOnEntry <=> GlobalStop(steps, results, Index)
  BY EntryIsGlobalStop DEF Flags
<1>2. Index - 1 = Len(results)
  BY DEF Index, TypeOK
<1>3. (steps[Index].node \in blocked /\ steps[Index].phase # "after")
          <=> Blocked(steps, results, Index)
  BY <1>2 DEF Flags, BlockedIs, Blocked, Failing
<1> QED BY <1>1, <1>3 DEF SkipHere, IsSkipped

-----------------------------------------------------------------------------

\* A step skipped because of its own node's before action was skipped for the
\* last step that was executed: if the next step is not skipped, that last
\* executed step did not pass.
LEMMA SkippedForPrevious ==
    ASSUME TypeOK, Flags, SkipsAsResultsSay, Walking,
           ~IsSkipped(steps, results, Index),
           previous # 0, results[Len(results)] = "skipped"
    PROVE  results[previous] # "passed"
<1> DEFINE n == Len(results)
<1>1. n \in DOMAIN results /\ n \in DOMAIN steps /\ Index \in DOMAIN steps /\ Index = n + 1
  BY DEF TypeOK, Walking, Index
<1>2. \A a \in DOMAIN steps : steps[a] \in Step
  BY DEF TypeOK
<1>3. \A a \in DOMAIN steps : steps[a].node \in Nat
  BY <1>2 DEF Step
<1>4. DOMAIN steps \subseteq Nat /\ steps \in Seq(Step) /\ InOrder(steps)
  BY DEF TypeOK, ExecutionSteps
<1>5. \A a, b \in DOMAIN steps : a < b => steps[a].node <= steps[b].node
  BY <1>3, <1>4 DEF InOrder
<1>6. ~GlobalStop(steps, results, Index) /\ ~Blocked(steps, results, Index)
  BY DEF IsSkipped
<1>7. IsSkipped(steps, results, n)
  BY <1>1 DEF SkipsAsResultsSay
<1>8. ~GlobalStop(steps, results, n)
  <2> SUFFICES ASSUME NEW j \in 1 .. n - 1,
                      steps[j].node # steps[n].node, Stopping(steps[j], results[j])
               PROVE  FALSE
    BY DEF GlobalStop
  <2>1. j \in DOMAIN steps /\ j < n /\ n < Index /\ j \in 1 .. Index - 1
    BY <1>1 DEF TypeOK
  <2>2. steps[j].node # steps[Index].node
    BY <2>1, <1>1, <1>5, <1>3
  <2> QED BY <2>1, <2>2, <1>6 DEF GlobalStop
<1>9. PICK j \in 1 .. n - 1 :
        /\ steps[j].node = steps[n].node
        /\ steps[j].phase = "before"
        /\ results[j] \in Failing
        /\ ~steps[j].cont
  BY <1>7, <1>8 DEF IsSkipped, Blocked, Failing
<1>10. steps[n].phase # "after"
  BY <1>7, <1>8 DEF IsSkipped, Blocked
<1>11. j \in DOMAIN steps /\ j \in DOMAIN results /\ j \in Nat /\ n \in Nat
  BY <1>1, <1>9 DEF TypeOK
<1>12. previous \in 1 .. n /\ results[previous] \in Outcomes
  BY DEF TypeOK, Flags, PreviousIs
<1>13. j <= previous
  BY <1>9, <1>11, <1>12 DEF Flags, PreviousIs, Outcomes, Failing
<1>14. CASE previous = j
  BY <1>9, <1>14 DEF Failing
<1>15. CASE previous # j
  <2>1. previous \in DOMAIN steps /\ previous \in DOMAIN results /\ j < previous /\ previous < n
    BY <1>1, <1>11, <1>12, <1>13, <1>15 DEF Outcomes
  <2>2. steps[previous].node = steps[j].node
    <3>1. j <= previous /\ previous <= n
      BY <2>1, <1>11, <1>12
    <3> QED BY <3>1, <2>1, <1>1, <1>9, <1>11, <1>4, Contiguous
  <2>3. CASE steps[previous].phase = "after"
    <3>1. steps[n] \in Step /\ PhaseRank("after") <= PhaseRank(steps[n].phase)
      BY <2>1, <2>2, <2>3, <1>1, <1>2, <1>3, <1>9, <1>4 DEF InOrder
    <3>2. steps[n].phase \in {"before", "test_case"}
      BY <3>1, <1>10 DEF Step, Phases
    <3> QED BY <3>1, <3>2 DEF PhaseRank
  <2>4. CASE steps[previous].phase # "after"
    <3>1. Blocked(steps, results, previous)
      BY <2>1, <2>2, <2>4, <1>9, <1>11 DEF Blocked, Failing
    <3>2. results[previous] = "skipped"
      BY <3>1, <2>1, <1>12 DEF SkipsAsResultsSay, IsSkipped, Outcomes
    <3> QED BY <3>2, <1>12 DEF Outcomes
  <2> QED BY <2>3, <2>4
<1> QED BY <1>14, <1>15

-----------------------------------------------------------------------------

\* The initial states of the walk satisfy IInv.
LEMMA InitIInv == ASSUME Init PROVE IInv
<1>1. steps \in Seq(Step) /\ ExecutionSteps(steps)
  BY ScenariosAssumption DEF Init
<1>2. TypeOK
  <2>1. results \in Seq(Results) /\ Len(results) = 0 /\ Len(steps) \in Nat
    BY <1>1 DEF Init
  <2>2. reason \in [source : Nat, read : Results]
    BY DEF Init, Results, Outcomes
  <2>3. Len(results) <= Len(steps) /\ previous \in 0 .. Len(results)
    BY <2>1 DEF Init
  <2>4. globalStop \in BOOLEAN /\ late \in BOOLEAN /\ blocked \subseteq Nat
        /\ stopAfter \subseteq Nat /\ status \in {"running", "passed", "failed", "timeout"}
    BY DEF Init
  <2> QED BY <1>1, <2>1, <2>2, <2>3, <2>4 DEF TypeOK
<1>3. Flags
  BY DEF Init, Flags, StopAfterIs, BlockedIs, GlobalStopIs, PreviousIs,
         ReasonIs, ExpiresLate, Ended
<1> QED BY <1>2, <1>3 DEF Init, IInv, SkipsAsResultsSay, TransitionTellsTheTruth

\* What a new result does to the facts about the results, whichever of the
\* three actions appends it.
LEMMA AppendResult ==
    ASSUME IInv, Walking, UNCHANGED <<steps, late, status>>,
           NEW r \in Results, results' = Append(results, r),
           r = "expired" => late,
           r # "expired" => (r = "skipped" <=> SkipHere),
           globalStop' = StopOnEntry
    PROVE  /\ GlobalStopIs'
           /\ ExpiresLate'
           /\ Ended'
           /\ SkipsAsResultsSay'
           /\ Len(results') <= Len(steps')
           /\ results' \in Seq(Results)
<1> DEFINE n == Len(results)
<1>1. /\ n \in Nat /\ Index = n + 1 /\ Len(results') = n + 1
      /\ results' \in Seq(Results) /\ Len(results') <= Len(steps)
      /\ \A j \in 1 .. n : results'[j] = results[j]
      /\ results'[n + 1] = r /\ DOMAIN results' = 1 .. n + 1 /\ results' # <<>>
      /\ DOMAIN results = 1 .. n
  BY DEF IInv, TypeOK, Walking, Index
<1>2. \A i \in 1 .. n + 1 : IsSkipped(steps', results', i) <=> IsSkipped(steps, results, i)
  BY <1>1, SkipLooksBack DEF IInv, TypeOK
<1>3. SkipHere <=> IsSkipped(steps, results, n + 1)
  BY <1>1, SkipHereIsSkipped DEF IInv
<1>4. StopOnEntry <=> GlobalStop(steps, results, n + 1)
  BY <1>1, EntryIsGlobalStop DEF IInv, Flags
<1>5. GlobalStop(steps', results', n + 1) <=> GlobalStop(steps, results, n + 1)
  BY <1>1 DEF GlobalStop
<1>6. GlobalStopIs'
  BY <1>1, <1>4, <1>5 DEF GlobalStopIs
<1>7. ExpiresLate'
  BY <1>1 DEF IInv, Flags, ExpiresLate
<1>8. Ended'
  BY DEF Walking, Ended
<1>9. SkipsAsResultsSay'
  <2> SUFFICES ASSUME NEW i \in 1 .. n + 1, results'[i] # "expired"
               PROVE  results'[i] = "skipped" <=> IsSkipped(steps', results', i)
    BY <1>1 DEF SkipsAsResultsSay
  <2>1. CASE i \in 1 .. n
    BY <2>1, <1>1, <1>2 DEF IInv, SkipsAsResultsSay
  <2>2. CASE i = n + 1
    BY <2>2, <1>1, <1>2, <1>3
  <2> QED BY <2>1, <2>2
<1> QED BY <1>1, <1>6, <1>7, <1>8, <1>9

\* A step met past the deadline expires and stops the node it belongs to.
LEMMA ExpireStepKeeps == ASSUME IInv, ExpireStep PROVE IInv'
<1> DEFINE n == Len(results)
<1>1. Walking /\ late /\ UNCHANGED <<steps, blocked, previous, reason, late, status>>
      /\ results' = Append(results, "expired") /\ globalStop' = StopOnEntry
      /\ stopAfter' = stopAfter \union {steps[Index].node}
  BY DEF ExpireStep
<1>2. GlobalStopIs' /\ ExpiresLate' /\ Ended' /\ SkipsAsResultsSay'
      /\ Len(results') <= Len(steps') /\ results' \in Seq(Results)
  <2>1. "expired" \in Results
    BY DEF Results
  <2> QED BY <1>1, <2>1, AppendResult
<1>3. /\ n \in Nat /\ Index = n + 1 /\ Len(results') = n + 1 /\ Index \in DOMAIN steps
      /\ \A j \in 1 .. n : results'[j] = results[j]
      /\ results'[n + 1] = "expired"
  BY <1>1 DEF IInv, TypeOK, Walking, Index
<1>4. TypeOK'
  <2>1. steps[Index] \in Step
    BY <1>3 DEF IInv, TypeOK
  <2>2. stopAfter' \subseteq Nat
    BY <1>1, <2>1 DEF IInv, TypeOK, Step
  <2>3. globalStop' \in BOOLEAN
    BY <1>1 DEF StopOnEntry
  <2>4. previous' \in 0 .. Len(results')
    BY <1>1, <1>3 DEF IInv, TypeOK
  <2> QED BY <1>1, <1>2, <2>2, <2>3, <2>4 DEF IInv, TypeOK
<1>5. StopAfterIs'
  BY <1>1, <1>3 DEF IInv, Flags, StopAfterIs, Stopping
<1>6. BlockedIs'
  BY <1>1, <1>3 DEF IInv, Flags, BlockedIs, Failing
<1>7. PreviousIs'
  BY <1>1, <1>3 DEF IInv, TypeOK, Flags, PreviousIs, Outcomes
<1>8. ReasonIs' /\ TransitionTellsTheTruth'
  BY <1>1, <1>3 DEF IInv, Flags, ReasonIs, TransitionTellsTheTruth
<1> QED BY <1>2, <1>4, <1>5, <1>6, <1>7, <1>8 DEF IInv, Flags

\* A step is skipped for a stop or a block that the flags tell.
LEMMA SkipStepKeeps == ASSUME IInv, SkipStep PROVE IInv'
<1> DEFINE n == Len(results)
<1>1. Walking /\ ~late /\ SkipHere
      /\ UNCHANGED <<steps, blocked, stopAfter, previous, reason, late, status>>
      /\ results' = Append(results, "skipped") /\ globalStop' = StopOnEntry
  BY DEF SkipStep
<1>2. GlobalStopIs' /\ ExpiresLate' /\ Ended' /\ SkipsAsResultsSay'
      /\ Len(results') <= Len(steps') /\ results' \in Seq(Results)
  <2>1. "skipped" \in Results
    BY DEF Results
  <2> QED BY <1>1, <2>1, AppendResult
<1>3. /\ n \in Nat /\ Len(results') = n + 1
      /\ \A j \in 1 .. n : results'[j] = results[j]
      /\ results'[n + 1] = "skipped"
  BY <1>1 DEF IInv, TypeOK
<1>4. TypeOK'
  <2>1. globalStop' \in BOOLEAN
    BY <1>1 DEF StopOnEntry
  <2>2. previous' \in 0 .. Len(results')
    BY <1>1, <1>3 DEF IInv, TypeOK
  <2> QED BY <1>1, <1>2, <2>1, <2>2 DEF IInv, TypeOK
<1>5. StopAfterIs'
  BY <1>1, <1>3 DEF IInv, Flags, StopAfterIs, Stopping
<1>6. BlockedIs'
  BY <1>1, <1>3 DEF IInv, Flags, BlockedIs, Failing
<1>7. PreviousIs'
  BY <1>1, <1>3 DEF IInv, TypeOK, Flags, PreviousIs, Outcomes
<1>8. ReasonIs' /\ TransitionTellsTheTruth'
  BY <1>1, <1>3 DEF IInv, Flags, ReasonIs, TransitionTellsTheTruth
<1> QED BY <1>2, <1>4, <1>5, <1>6, <1>7, <1>8 DEF IInv, Flags

\* The flags follow the result of a step that is executed.
LEMMA ExecuteStepKeeps == ASSUME IInv, ExecuteStep PROVE IInv'
<1> DEFINE n == Len(results)
           here == {steps[Index].node}
<1>1. /\ Walking /\ ~late /\ ~SkipHere /\ UNCHANGED <<steps, late, status>>
      /\ globalStop' = StopOnEntry /\ previous' = Index
      /\ reason' = IF previous = 0 THEN reason
                   ELSE [source |-> previous, read |-> results[Len(results)]]
  BY DEF ExecuteStep
<1>2. PICK outcome \in Outcomes :
        /\ results' = Append(results, outcome)
        /\ stopAfter' = IF outcome # "passed" /\ ~steps[Index].cont
                        THEN stopAfter \union here ELSE stopAfter
        /\ blocked' = IF (outcome # "passed" /\ ~steps[Index].cont)
                         /\ steps[Index].phase = "before"
                      THEN blocked \union here ELSE blocked
  BY DEF ExecuteStep
<1>3. GlobalStopIs' /\ ExpiresLate' /\ Ended' /\ SkipsAsResultsSay'
      /\ Len(results') <= Len(steps') /\ results' \in Seq(Results)
  <2>1. outcome \in Results /\ outcome # "skipped" /\ outcome # "expired"
    BY DEF Results, Outcomes
  <2> QED BY <1>1, <1>2, <2>1, AppendResult
<1>4. /\ n \in Nat /\ Index = n + 1 /\ Len(results') = n + 1
      /\ Index \in DOMAIN steps /\ steps[Index] \in Step
      /\ \A j \in 1 .. n : results'[j] = results[j] /\ results[j] \in Results
      /\ results'[n + 1] = outcome
  BY <1>1, <1>2 DEF IInv, TypeOK, Walking, Index
<1>5. outcome # "passed" <=> outcome \in Failing
  BY DEF Outcomes, Failing
<1>6. TypeOK'
  <2>1. stopAfter' \subseteq Nat /\ blocked' \subseteq Nat
    BY <1>2, <1>4 DEF IInv, TypeOK, Step
  <2>2. globalStop' \in BOOLEAN
    BY <1>1 DEF StopOnEntry
  <2>3. previous' \in 0 .. Len(results')
    BY <1>1, <1>4
  <2>4. reason' \in [source : Nat, read : Results]
    BY <1>1, <1>4 DEF IInv, TypeOK
  <2> QED BY <1>1, <1>3, <2>1, <2>2, <2>3, <2>4 DEF IInv, TypeOK
<1>7. StopAfterIs'
  BY <1>1, <1>2, <1>4, <1>5 DEF IInv, Flags, StopAfterIs, Stopping, Failing, Outcomes
<1>8. BlockedIs'
  BY <1>1, <1>2, <1>4, <1>5 DEF IInv, Flags, BlockedIs
<1>9. PreviousIs'
  BY <1>1, <1>2, <1>4 DEF PreviousIs
<1>10. ReasonIs'
  BY <1>1, <1>4 DEF IInv, TypeOK, Flags, ReasonIs
<1>11. TransitionTellsTheTruth'
  <2>1. CASE previous = 0
    BY <2>1, <1>1, <1>4 DEF IInv, Flags, ReasonIs, TransitionTellsTheTruth
  <2>2. CASE previous # 0
    <3>1. previous \in 1 .. n /\ reason'.source = previous /\ reason'.read = results[n]
      BY <2>2, <1>1, <1>4 DEF IInv, TypeOK
    <3>2. CASE previous = n
      BY <3>1, <3>2, <1>4 DEF TransitionTellsTheTruth
    <3>3. CASE previous # n
      <4>1. results[n] = "skipped"
        <5>1. results[n] \in Results /\ n \in DOMAIN results
          BY <3>1, <1>4 DEF IInv, TypeOK
        <5>2. results[n] \notin Outcomes
          BY <3>1, <3>3, <1>4 DEF IInv, Flags, PreviousIs
        <5>3. results[n] # "expired"
          BY <5>1, <1>1 DEF IInv, Flags, ExpiresLate
        <5> QED BY <5>1, <5>2, <5>3 DEF Results
      <4>2. ~IsSkipped(steps, results, Index)
        BY <1>1, SkipHereIsSkipped DEF IInv
      <4>3. results[previous] # "passed"
        BY <4>1, <4>2, <2>2, <1>1, SkippedForPrevious DEF IInv
      <4> QED BY <3>1, <4>1, <4>3, <1>4 DEF TransitionTellsTheTruth
    <3> QED BY <3>2, <3>3
  <2> QED BY <2>1, <2>2
<1> QED BY <1>3, <1>6, <1>7, <1>8, <1>9, <1>10, <1>11 DEF IInv, Flags

\* The end of a walk changes no result.
LEMMA FinishRunKeeps == ASSUME IInv, FinishRun PROVE IInv'
<1>1. UNCHANGED <<steps, results, globalStop, blocked, stopAfter, previous, reason, late>>
      /\ status' = RunVerdict(results) /\ Index > Len(steps)
  BY DEF FinishRun
<1>2. Len(results) = Len(steps)
  BY <1>1 DEF IInv, TypeOK, Index
<1>3. TypeOK'
  <2>1. RunVerdict(results) \in {"passed", "failed", "timeout"}
    BY DEF RunVerdict
  <2> QED BY <1>1, <2>1 DEF IInv, TypeOK
<1>4. Flags'
  BY <1>1, <1>2 DEF IInv, Flags, StopAfterIs, BlockedIs, GlobalStopIs, PreviousIs,
     ReasonIs, ExpiresLate, Ended
<1> QED BY <1>1, <1>3, <1>4 DEF IInv, SkipsAsResultsSay, TransitionTellsTheTruth

\* The deadline passes between two steps.
LEMMA DeadlinePassesKeeps == ASSUME IInv, DeadlinePasses PROVE IInv'
<1>1. UNCHANGED <<steps, results, globalStop, blocked, stopAfter, previous, reason, status>>
      /\ late' = TRUE
  BY DEF DeadlinePasses
<1>2. TypeOK'
  BY <1>1 DEF IInv, TypeOK
<1>3. Flags'
  BY <1>1 DEF IInv, Flags, StopAfterIs, BlockedIs, GlobalStopIs, PreviousIs,
     ReasonIs, ExpiresLate, Ended
<1> QED BY <1>1, <1>2, <1>3 DEF IInv, SkipsAsResultsSay, TransitionTellsTheTruth

\* Nothing changes.
LEMMA StutterKeeps == ASSUME IInv, UNCHANGED vars PROVE IInv'
<1>1. TypeOK'
  BY DEF vars, IInv, TypeOK
<1>2. Flags'
  BY DEF vars, IInv, Flags, StopAfterIs, BlockedIs, GlobalStopIs, PreviousIs,
     ReasonIs, ExpiresLate, Ended
<1> QED BY <1>1, <1>2 DEF vars, IInv, SkipsAsResultsSay, TransitionTellsTheTruth

\* The inductive invariant holds in every state of every walk.
THEOREM Invariance == Spec => []IInv
<1>1. Init => IInv
  BY InitIInv
<1>2. IInv /\ [Next]_vars => IInv'
  BY ExpireStepKeeps, SkipStepKeeps, ExecuteStepKeeps, FinishRunKeeps,
     DeadlinePassesKeeps, StutterKeeps DEF Next
<1> QED BY <1>1, <1>2, PTL DEF Spec

\* The variables of the walk have their types.
THEOREM TypeCorrect == Spec => []TypeOK
<1>1. IInv => TypeOK
  BY DEF IInv
<1> QED BY <1>1, Invariance, PTL

\* A step is skipped exactly when the results before it say so.
THEOREM SkipsRight == Spec => []SkipsAsResultsSay
<1>1. IInv => SkipsAsResultsSay
  BY DEF IInv
<1> QED BY <1>1, Invariance, PTL

\* The reason of a transition agrees with the step it is about.
THEOREM TransitionTruth == Spec => []TransitionTellsTheTruth
<1>1. IInv => TransitionTellsTheTruth
  BY DEF IInv
<1> QED BY <1>1, Invariance, PTL

\* Unless the deadline has passed, every after action of a node that was
\* entered is attempted.
THEOREM CleanupRuns == Spec => []CleanupAttempted
<1>1. IInv => CleanupAttempted
  <2> SUFFICES ASSUME IInv, ~late, NEW i \in DOMAIN results, NEW j \in DOMAIN results,
                      steps[i].node = steps[j].node, results[i] \in Outcomes,
                      steps[j].phase = "after", i < j
               PROVE  results[j] \in Outcomes
    BY DEF CleanupAttempted
  <2>1. /\ steps \in Seq(Step) /\ InOrder(steps)
        /\ i \in DOMAIN steps /\ j \in DOMAIN steps /\ i \in Nat /\ j \in Nat
        /\ results[j] \in Results
    <3>1. /\ steps \in Seq(Step) /\ InOrder(steps)
          /\ results \in Seq(Results) /\ Len(results) <= Len(steps)
      BY DEF IInv, TypeOK, ExecutionSteps
    <3>2. /\ DOMAIN results = 1 .. Len(results) /\ DOMAIN steps = 1 .. Len(steps)
          /\ Len(results) \in Nat /\ Len(steps) \in Nat
      BY <3>1
    <3>3. results[j] \in Results
      BY <3>1
    <3> QED BY <3>1, <3>2, <3>3
  <2>2. results[j] # "expired" /\ results[i] # "expired" /\ results[i] # "skipped"
    BY DEF IInv, Flags, ExpiresLate, Outcomes
  <2>3. results[j] # "skipped"
    <3> SUFFICES ASSUME results[j] = "skipped" PROVE FALSE
      OBVIOUS
    <3>1. GlobalStop(steps, results, j)
      BY <2>2 DEF IInv, SkipsAsResultsSay, IsSkipped, Blocked
    <3>2. PICK k \in 1 .. j - 1 :
            steps[k].node # steps[j].node /\ Stopping(steps[k], results[k])
      BY <3>1 DEF GlobalStop
    <3>3. k \in DOMAIN steps /\ k \in Nat
      BY <2>1, <3>2
    <3>4. k < i
      <4> SUFFICES ASSUME i <= k PROVE FALSE
        BY <2>1, <3>3
      <4> QED BY <2>1, <3>2, <3>3, Contiguous
    <3>5. GlobalStop(steps, results, i)
      BY <2>1, <3>2, <3>3, <3>4 DEF GlobalStop
    <3> QED BY <2>2, <3>5 DEF IInv, SkipsAsResultsSay, IsSkipped
  <2> QED BY <2>1, <2>2, <2>3 DEF Results
<1> QED BY <1>1, Invariance, PTL

\* A run that passed executed all its steps, and all of them passed.
THEOREM PassedTrue == Spec => []PassedMeansAllPassed
<1>1. IInv => PassedMeansAllPassed
  <2> SUFFICES ASSUME IInv, status = "passed"
               PROVE  Len(results) = Len(steps) /\ \A i \in DOMAIN results : results[i] = "passed"
    BY DEF PassedMeansAllPassed
  <2>1. Len(results) = Len(steps) /\ RunVerdict(results) = "passed"
    BY DEF IInv, Flags, Ended
  <2>2. \A i \in DOMAIN results : results[i] \notin {"failed", "timeout", "expired"}
    BY <2>1 DEF RunVerdict, ResultsIn
  <2>3. \A i \in DOMAIN results : results[i] # "skipped"
    <3> SUFFICES ASSUME NEW i \in DOMAIN results, results[i] = "skipped" PROVE FALSE
      OBVIOUS
    <3>1. IsSkipped(steps, results, i)
      BY DEF IInv, SkipsAsResultsSay
    <3>2. PICK j \in 1 .. i - 1 : results[j] \in {"failed", "timeout", "expired"}
      BY <3>1 DEF IsSkipped, GlobalStop, Blocked, Stopping
    <3>3. j \in DOMAIN results
      BY <3>2 DEF IInv, TypeOK
    <3> QED BY <2>2, <3>2, <3>3
  <2>4. \A i \in DOMAIN results : results[i] \in Results
    BY DEF IInv, TypeOK
  <2> QED BY <2>1, <2>2, <2>3, <2>4 DEF Results, Outcomes
<1> QED BY <1>1, Invariance, PTL

\* A run skips what its results call for, never the clean-up, and what it reports
\* by its transitions and its verdict (_run_dataset) is what its steps did.
THEOREM ReportTrue == Spec => []ReportIsTrue
<1>1. /\ CleanupAttempted /\ SkipsAsResultsSay
      /\ TransitionTellsTheTruth /\ PassedMeansAllPassed
      => ReportIsTrue
  BY DEF ReportIsTrue
<1> QED BY <1>1, CleanupRuns, SkipsRight, TransitionTruth, PassedTrue, PTL

(***************************************************************************)
(* The execution                                                           *)
(***************************************************************************)

RowStatus == {"queued", "running", "gone"} \union Terminal
Pcs == {"free", "claimed", "load", "append", "execute", "finished", "raised", "failing"}
Underway == {"load", "append", "execute", "finished"}

Views == UNION {[S -> [status : RowStatus, seq : Nat]] : S \in SUBSET Runs}

\* The records workers and readers are.
WorkerRecords ==
    [pc : Pcs, at : 0 .. NumRuns, mine : SUBSET Runs, results : Seq(Results),
     todo : Todos, seen : Nat, view : Views, again : BOOLEAN]

ReaderRecords ==
    [pc : {"away", "read", "quiet", "ended", "closed"}, of : 0 .. NumRuns,
     cursor : Nat, got : SUBSET Nat]

ExecutionTypes ==
    /\ execution \in {"none", "queued", "running", "gone"} \union Terminal
    /\ run \in [Runs -> Row]
    /\ events \in [Runs -> Seq(EventKinds)]
    /\ version \in BOOLEAN
    /\ tasks \in 0 .. Capacity
    /\ worker \in [Workers -> WorkerRecords]
    /\ reader \in [Readers -> ReaderRecords]
    /\ posts \in Nat /\ beats \in Nat /\ crashes \in Nat
    /\ claims \in Nat
    /\ effects \in [Runs -> [1 .. NumSteps -> Nat]]
    /\ abandoned \in BOOLEAN

\* A run that has not been deleted; one that no worker has come to.
Here(row) == row.status # "gone"
Unwalked(row) == row.status = "queued" /\ row.results = <<>>

\* Where a worker stands: there is a step for what it is about to start, a
\* result for the event it is about to append.
Placed(k) ==
    /\ Len(k.results) <= NumSteps
    /\ k.pc \in Underway => k.at \in k.mine
    /\ k.pc \in {"load", "append"} => k.todo # "none"
    /\ k.pc = "execute" => k.todo = "step_started"
    /\ k.pc \in {"load", "append", "execute"} =>
        /\ k.todo \in {"transition_started", "step_started"} => Len(k.results) < NumSteps
        /\ k.todo = "run_started" => k.results = <<>>
        /\ k.todo = "result" => k.results # <<>>

\* Before the request there is nothing; after the last deletion nothing is left.
Begun ==
    /\ execution = "none" =>
        claims = 0 /\ tasks = 0 /\ \A d \in Readers : reader[d].pc = "away"
    /\ execution = "gone" => \A r \in Runs : ~Here(run[r])
    /\ execution # "gone" => \E r \in Runs : Here(run[r])

\* A log is as long as its run counts, and holds an end if the run has one.
Kept(row, log) ==
    IF Here(row)
    THEN /\ row.seq = Len(log)
         /\ row.status \in Terminal => \E i \in DOMAIN log : log[i] \in EndEvents
    ELSE log = <<>>

Tells(row, log) ==
    /\ EndsOnce(log, row.status)
    /\ Here(row) => TellsResults(log, row.results)

\* Of every run and its log.
Logged == \A r \in Runs :
    Kept(run[r], events[r]) /\ (claims <= 1 => Tells(run[r], events[r]))

\* A reader has sent the end of an ended run or has it still before it; one
\* whose stream has ended has sent it.
Follows(m, row, log) ==
    Here(row) =>
        /\ m.pc \in {"read", "quiet"} =>
            /\ m.cursor <= Len(log)
            /\ row.status \in Terminal =>
                \E i \in DOMAIN log : log[i] \in EndEvents /\ (i \in m.got \/ i > m.cursor)
        /\ m.pc = "ended" => \E i \in DOMAIN log \cap m.got : log[i] \in EndEvents

Followed == \A d \in Readers : reader[d].pc # "away" =>
    reader[d].of \in Runs /\ Follows(reader[d], run[reader[d].of], events[reader[d].of])

\* The worker may yet execute step i of run r.
Pending(k, r, i) ==
    \/ k.pc = "claimed"
    \/ k.pc \in Underway /\ (k.at < r \/ (k.at = r /\ Len(k.results) < i))

PendingIn(ws, r, i) == {w \in Workers : Pending(ws[w], r, i)}

\* A task that found the execution queued has executed a step once or may yet.
Counted == \A r \in Runs : \A i \in 1 .. NumSteps :
    effects[r][i] + Cardinality(PendingIn(worker, r, i)) <= claims

\* The results that the row of the run under way holds.
Saved(k) ==
    IF k.todo = "result" THEN SubSeq(k.results, 1, Len(k.results) - 1) ELSE k.results

\* What the only worker relies on: the runs before its own are over, those
\* after it untouched, and what it has loaded of them still holds.
Ours(k, rows) ==
    /\ k.pc = "claimed" => \A r \in Runs : Unwalked(rows[r])
    /\ k.pc \in Underway =>
        /\ k.mine = Runs
        /\ \A r \in Runs :
            /\ r > k.at => Unwalked(rows[r])
            /\ r < k.at => rows[r].status \in Terminal \union {"gone"}
            /\ r = k.at =>
                IF k.pc = "finished" THEN rows[r].status \in Terminal \union {"gone"}
                ELSE rows[r].status \in {"queued", "running"} /\ rows[r].results = Saved(k)
    /\ k.pc = "failing" => \A r \in Runs : Here(rows[r]) =>
        r \in DOMAIN k.view /\ k.view[r].status = rows[r].status

\* VerdictCoversRuns of an execution with status x.
Covers(x, rows) ==
    x \in Terminal => \A r \in Runs : Here(rows[r]) =>
        /\ rows[r].status \in Terminal
        /\ x = "passed" => rows[r].status = "passed"

\* Unless a second task found the execution queued, one worker is busy at most.
Alone ==
    /\ claims = 0 =>
        (\A w \in Workers : ~Busy(w)) /\ (\A r \in Runs : Unwalked(run[r]))
    /\ claims <= 1 =>
        /\ \A w, v \in Workers : Busy(w) /\ Busy(v) => w = v
        /\ \A w \in Workers : Busy(w) => execution \notin Terminal /\ Ours(worker[w], run)
        /\ Covers(execution, run)

AllPlaced == \A w \in Workers : Placed(worker[w])

\* The inductive invariant.
ExecutionInv ==
    ExecutionTypes /\ AllPlaced /\ Begun /\ Logged /\ Followed /\ Counted /\ Alone

-----------------------------------------------------------------------------
(* Preliminaries *)

\* What Becomes does.
LEMMA WorkerSet ==
    ASSUME ExecutionTypes, NEW w \in Workers, NEW k \in WorkerRecords, Becomes(w, k)
    PROVE  /\ worker' \in [Workers -> WorkerRecords]
           /\ worker'[w] = k
           /\ \A v \in Workers \ {w} : worker'[v] = worker[v]
BY DEF ExecutionTypes, Becomes

\* The tasks with a step still to execute are finitely many, as the threads of a pool are.
LEMMA PendingFinite ==
    ASSUME NEW ws, NEW r, NEW i
    PROVE  IsFiniteSet(PendingIn(ws, r, i)) /\ Cardinality(PendingIn(ws, r, i)) \in Nat
<1> DEFINE S == PendingIn(ws, r, i)
<1>1. S \subseteq Workers
    BY DEF PendingIn
<1> HIDE DEF S
<1>2. IsFiniteSet(S)
    BY <1>1, WorkersAssumption, FS_Subset
<1>3. Cardinality(S) \in Nat
    BY <1>2, FS_CardinalityType
<1> QED BY <1>2, <1>3 DEF S

\* Fewer tasks with a step still to execute count less.
LEMMA PendingSmaller ==
    ASSUME NEW ws, NEW vs, NEW r, NEW i, PendingIn(vs, r, i) \subseteq PendingIn(ws, r, i)
    PROVE  Cardinality(PendingIn(vs, r, i)) <= Cardinality(PendingIn(ws, r, i))
<1> DEFINE S == PendingIn(ws, r, i)
           T == PendingIn(vs, r, i)
<1>1. IsFiniteSet(S) /\ T \in SUBSET S
    BY PendingFinite
<1> HIDE DEF S, T
<1>2. Cardinality(T) <= Cardinality(S)
    BY <1>1, FS_Subset
<1> QED BY <1>2 DEF S, T

\* No step is executed, and no task takes one up without a claim.
LEMMA CountedStays ==
    ASSUME ExecutionTypes, Counted, claims' \in Nat, claims <= claims', effects' = effects,
           \A r \in Runs : \A i \in 1 .. NumSteps : PendingIn(worker', r, i) \subseteq PendingIn(worker, r, i)
    PROVE  Counted'
<1> SUFFICES ASSUME NEW r \in Runs, NEW i \in 1 .. NumSteps
             PROVE  effects[r][i] + Cardinality(PendingIn(worker', r, i)) <= claims'
    BY DEF Counted
<1>1. effects[r][i] \in Nat /\ claims \in Nat
    BY DEF ExecutionTypes
<1>2. Cardinality(PendingIn(worker', r, i)) \in Nat /\ Cardinality(PendingIn(worker, r, i)) \in Nat
    BY PendingFinite
<1>3. Cardinality(PendingIn(worker', r, i)) <= Cardinality(PendingIn(worker, r, i))
    BY PendingSmaller
<1>4. effects[r][i] + Cardinality(PendingIn(worker, r, i)) <= claims
    BY DEF Counted
<1> QED BY <1>1, <1>2, <1>3, <1>4

\* A worker that moves on has no step before it that it had not.
LEMMA PendingOfOne ==
    ASSUME ExecutionTypes, NEW w \in Workers, NEW k \in WorkerRecords, Becomes(w, k),
           NEW r, NEW i, Pending(k, r, i) => Pending(worker[w], r, i)
    PROVE  PendingIn(worker', r, i) \subseteq PendingIn(worker, r, i)
BY WorkerSet DEF PendingIn

\* One worker moves, to a place where its results fit.
LEMMA PlacedStays ==
    ASSUME ExecutionTypes, AllPlaced, NEW w \in Workers, NEW k \in WorkerRecords, Becomes(w, k), Placed(k)
    PROVE  AllPlaced'
<1> SUFFICES ASSUME NEW v \in Workers
             PROVE  Placed(worker'[v])
    BY DEF AllPlaced, Placed
<1>1. CASE v = w
    BY <1>1, WorkerSet
<1>2. CASE v # w
    BY <1>2, WorkerSet DEF AllPlaced
<1> QED BY <1>1, <1>2

\* A busy worker means somebody has claimed; what claims as few as one allows.
LEMMA OneBusy ==
    ASSUME ExecutionTypes, Begun, Alone, NEW w \in Workers, Busy(w)
    PROVE  /\ claims # 0 /\ execution # "none"
           /\ claims <= 1 => \A v \in Workers \ {w} : ~Busy(v)
BY DEF Alone, Begun, ExecutionTypes

\* The only worker that has claimed the execution covers its unfinished runs.
LEMMA AloneWith ==
    ASSUME ExecutionInv, NEW w \in Workers, NEW k \in WorkerRecords, Busy(w), Becomes(w, k),
           claims <= 1 => Covers(execution', run),
           claims <= 1 /\ k.pc # "free" => execution' \notin Terminal /\ Ours(k, run),
           claims' = claims, run' = run
    PROVE  Alone'
<1> USE DEF ExecutionInv
<1>1. claims # 0 /\ (claims <= 1 => \A v \in Workers \ {w} : ~Busy(v))
    BY OneBusy
<1>2. \A v \in Workers : v # w => Busy(v)' = Busy(v)
    BY WorkerSet DEF Busy
<1>3. Busy(w)' <=> k.pc # "free"
    BY WorkerSet DEF Busy
<1>4. ASSUME claims <= 1, NEW v \in Workers, Busy(v)'
      PROVE  v = w
    BY <1>1, <1>2, <1>4
<1>5. ASSUME claims <= 1, NEW v \in Workers, Busy(v)'
      PROVE  execution' \notin Terminal /\ Ours(worker'[v], run)
    BY <1>3, <1>4, <1>5, WorkerSet
<1> QED BY <1>1, <1>4, <1>5 DEF Alone

(* A step of one worker that touches no run.                                 *)
LEMMA QuietStep ==
    ASSUME ExecutionInv, NEW w \in Workers, NEW k \in WorkerRecords, Busy(w), Becomes(w, k),
           Placed(k),
           \/ execution' = execution
           \/ execution # "gone" /\ execution' \in {"running"} \union Terminal,
           claims <= 1 => Covers(execution', run),
           claims <= 1 /\ k.pc # "free" => execution' \notin Terminal /\ Ours(k, run),
           \A r \in Runs : \A i \in 1 .. NumSteps : Pending(k, r, i) => Pending(worker[w], r, i),
           abandoned' \in BOOLEAN,
           UNCHANGED <<run, events, version, tasks, reader, posts, beats, crashes, claims, effects>>
    PROVE  ExecutionInv'
<1> USE DEF ExecutionInv
<1>1. ExecutionTypes'
    BY WorkerSet DEF ExecutionTypes
<1>2. AllPlaced'
    BY PlacedStays
<1>3. Begun'
    BY OneBusy DEF Begun, Terminal, Here
<1>4. Logged'
    BY DEF Logged
<1>5. Followed'
    BY DEF Followed
<1>6. Counted'
  <2>1. \A r \in Runs : \A i \in 1 .. NumSteps : PendingIn(worker', r, i) \subseteq PendingIn(worker, r, i)
      BY PendingOfOne
  <2>2. claims \in Nat /\ claims' = claims
      BY DEF ExecutionTypes
  <2> QED BY <2>1, <2>2, CountedStays
<1>7. Alone'
    BY AloneWith
<1> QED BY <1>1, <1>2, <1>3, <1>4, <1>5, <1>6, <1>7
\* A nonempty set of numbers has a least one.
LEMMA Least ==
    ASSUME NEW S, S \subseteq Nat, S # {}
    PROVE  \E m \in S : \A k \in S : m <= k
<1> DEFINE T == {0 .. n : n \in S}
<1>1. T \subseteq FiniteSubsetsOf(Nat) /\ T # {}
  <2>1. \A n \in S : 0 .. n \subseteq Nat /\ IsFiniteSet(0 .. n)
      BY FS_Interval
  <2> QED BY <2>1 DEF FiniteSubsetsOf
<1>2. PICK x \in T : \A y \in T : ~ (<<y, x>> \in StrictSubsetOrdering(Nat))
  <2> HIDE DEF T
  <2> QED BY <1>1, FS_StrictSubsetOrderingWellFounded, WFMin
<1>3. PICK m \in S : x = 0 .. m
    OBVIOUS
<1>4. ASSUME NEW k \in S, k < m PROVE FALSE
  <2> DEFINE a == 0 .. k
  <2>1. a \in T
      OBVIOUS
  <2>2. a \subseteq Nat /\ x \subseteq Nat /\ a \subseteq x /\ m \notin a /\ m \in x
      BY <1>3, <1>4
  <2> HIDE DEF a
  <2>3. a # x
      BY <2>2, Zenon
  <2>4. <<a, x>> \in StrictSubsetOrdering(Nat)
      BY <2>2, <2>3 DEF StrictSubsetOrdering
  <2> QED BY <1>2, <2>1, <2>4
<1> QED BY <1>4


\* First picks the least of a set of runs.
LEMMA FirstOf ==
    ASSUME NEW S \in SUBSET Runs, S # {}
    PROVE  First(S) \in S /\ \A q \in S : First(S) <= q
<1>1. S \subseteq Nat
    BY NumRunsAssumption DEF Runs
<1>2. \E r \in S : \A q \in S : r <= q
    BY <1>1, Least
<1> QED BY <1>2 DEF First

\* What a session loads of an execution is a view of it.
LEMMA ViewTyped ==
    ASSUME ExecutionTypes
    PROVE  View \in Views
<1> DEFINE S == {q \in Runs : Live(q)}
<1>1. \A r \in S : [status |-> run[r].status, seq |-> run[r].seq] \in [status : RowStatus, seq : Nat]
    BY DEF ExecutionTypes, Row, RowStatus
<1>2. View \in [S -> [status : RowStatus, seq : Nat]]
    BY <1>1 DEF View
<1>3. S \in SUBSET Runs
    OBVIOUS
<1> QED BY <1>2, <1>3 DEF Views

\* A worker that begins or ends a task is well typed.
LEMMA FreeTyped ==
    ASSUME NEW view \in Views, NEW b \in BOOLEAN, NEW pc \in Pcs
    PROVE  /\ Free \in WorkerRecords
           /\ [Free EXCEPT !.pc = pc, !.view = view] \in WorkerRecords
           /\ [Free EXCEPT !.pc = pc, !.view = view, !.again = b] \in WorkerRecords
<1>1. <<>> \in Views
  <2>1. <<>> \in [{} -> [status : RowStatus, seq : Nat]] /\ {} \in SUBSET Runs
      OBVIOUS
  <2> QED BY <2>1 DEF Views
<1>2. 0 \in 0 .. NumRuns
    BY NumRunsAssumption
<1>3. Free \in WorkerRecords
  <2>1. <<>> \in Seq(Results) /\ "free" \in Pcs /\ "none" \in Todos
      BY DEF Pcs, Todos
  <2> QED BY <1>1, <1>2, <2>1 DEF Free, WorkerRecords
<1> HIDE DEF Free
<1> QED BY <1>3 DEF WorkerRecords

\* A worker without results has room for them.
LEMMA Room == NumSteps \in Nat /\ Len(<<>>) <= NumSteps
BY StepsAssumption DEF NumSteps

\* A worker that holds no run has nothing to answer for.
LEMMA IdlePlaced ==
    ASSUME NEW k \in WorkerRecords, k.pc \in {"free", "claimed", "raised", "failing"},
           Len(k.results) <= NumSteps
    PROVE  Placed(k) /\ (k.pc # "claimed" => \A r, i : ~Pending(k, r, i))
BY DEF Placed, Pending, Underway

\* A worker that is to fail the execution it has just loaded has it as it is.
LEMMA ViewIsOurs ==
    ASSUME ExecutionTypes, execution # "none", NEW k, k.pc = "failing", k.view = View
    PROVE  Ours(k, run)
BY DEF Ours, Underway, View, Live, Here

\* An execution without a verdict covers anything.
LEMMA CoversUnlessTerminal ==
    ASSUME NEW x, x \notin Terminal, NEW rows PROVE Covers(x, rows)
BY DEF Covers

\* A task whose context is gone goes on to fail the execution.
LEMMA ContextMissingKeeps ==
    ASSUME ExecutionInv, NEW w \in Workers, ContextMissing(w)
    PROVE  ExecutionInv'
<1> USE DEF ExecutionInv
<1> DEFINE k == [Free EXCEPT !.pc = "failing", !.view = View, !.again = TRUE]
<1>1. Busy(w) /\ worker[w].pc = "claimed" /\ Becomes(w, k)
    BY DEF ContextMissing, Holds, Busy
<1>2. k \in WorkerRecords
    BY FreeTyped, ViewTyped DEF Pcs
<1>3. k.pc = "failing" /\ k.view = View /\ Len(k.results) <= NumSteps
    BY Room DEF Free
<1>4. UNCHANGED <<execution, run, events, version, tasks, reader, posts, beats, crashes, claims, effects, abandoned>>
    BY DEF ContextMissing
<1>5. claims # 0 /\ execution # "none" /\ abandoned \in BOOLEAN
    BY <1>1, OneBusy DEF ExecutionTypes
<1>6. claims <= 1 => execution \notin Terminal /\ Covers(execution, run)
    BY <1>1 DEF Alone
<1> HIDE DEF k
<1>7. Placed(k) /\ \A r, i : ~Pending(k, r, i)
    BY <1>2, <1>3, IdlePlaced
<1>8. Ours(k, run)
    BY <1>3, <1>5, ViewIsOurs
<1> QED BY <1>1, <1>2, <1>4, <1>5, <1>6, <1>7, <1>8, QuietStep

\* What ExecutionInv says of one worker.
LEMMA WorkerTyped ==
    ASSUME ExecutionInv, NEW w \in Workers
    PROVE  /\ worker[w] \in WorkerRecords /\ Placed(worker[w])
           /\ worker[w].at \in 0 .. NumRuns /\ worker[w].mine \subseteq Runs
           /\ worker[w].results \in Seq(Results) /\ worker[w].seen \in Nat
           /\ worker[w].todo \in Todos /\ worker[w].again \in BOOLEAN
           /\ worker[w].view \in Views
           /\ abandoned \in BOOLEAN
BY DEF ExecutionInv, ExecutionTypes, AllPlaced, WorkerRecords

\* What a lone worker knows, and that nobody else is at work.
LEMMA AloneAtWork ==
    ASSUME ExecutionInv, NEW w \in Workers, Busy(w)
    PROVE  /\ claims # 0 /\ execution # "none"
           /\ claims <= 1 =>
                execution \notin Terminal /\ Covers(execution, run) /\ Ours(worker[w], run)
BY OneBusy DEF ExecutionInv, Alone

\* A worker whose handler raises has changed no row.
LEMMA RaisedStays ==
    ASSUME ExecutionInv, NEW w \in Workers, Busy(w), Moves(w, "raised"),
           UNCHANGED <<execution, run, events, version, tasks, reader, posts, beats, crashes,
                       claims, effects, abandoned>>
    PROVE  ExecutionInv'
<1> DEFINE k == [worker[w] EXCEPT !.pc = "raised"]
<1>1. k \in WorkerRecords /\ k.pc = "raised" /\ k.results = worker[w].results
    BY WorkerTyped DEF WorkerRecords, Pcs
<1>2. Becomes(w, k)
    BY DEF Moves
<1>3. Len(k.results) <= NumSteps
    BY <1>1, WorkerTyped DEF Placed
<1>4. claims <= 1 => execution \notin Terminal /\ Covers(execution, run)
    BY AloneAtWork
<1>5. abandoned' \in BOOLEAN
    BY WorkerTyped
<1> HIDE DEF k
<1>6. Placed(k) /\ \A r, i : ~Pending(k, r, i)
    BY <1>1, <1>3, IdlePlaced
<1>7. Ours(k, run)
    BY <1>1 DEF Ours, Underway
<1> QED BY <1>1, <1>2, <1>4, <1>5, <1>6, <1>7, QuietStep

\* A claimed execution is set running with the runs still there, or the task raises.
LEMMA StartExecutionKeeps ==
    ASSUME ExecutionInv, NEW w \in Workers, StartExecution(w)
    PROVE  ExecutionInv'
<1>1. Busy(w) /\ worker[w].pc = "claimed"
    BY DEF StartExecution, Holds, Busy
<1>2. UNCHANGED <<run, events, version, tasks, reader, posts, beats, crashes, claims, effects, abandoned>>
    BY DEF StartExecution
<1>3. CASE execution = "gone"
    BY <1>1, <1>2, <1>3, RaisedStays DEF StartExecution
<1>4. CASE execution # "gone"
  <2> DEFINE mine == {r \in Runs : Live(r)}
             first == First(mine)
             k == [Free EXCEPT !.pc = "append", !.mine = mine,
                          !.at = first, !.todo = "run_started", !.seen = run[first].seq]
             m == [worker[w] EXCEPT !.pc = "raised"]
  <2>1. execution' = "running" /\ (Becomes(w, k) \/ Becomes(w, m))
      BY <1>4 DEF StartExecution, Moves
  <2>2. claims # 0 /\ execution # "none" /\ abandoned \in BOOLEAN
      BY <1>1, AloneAtWork, WorkerTyped
  <2>3. mine # {}
      BY <1>4, <2>2 DEF ExecutionInv, Begun, Live, Here
  <2>4. first \in mine /\ \A q \in mine : first <= q
      BY <2>3, FirstOf
  <2>5. execution' \notin Terminal /\ Covers(execution', run)
      BY <2>1 DEF Covers, Terminal
  <2>6. CASE Becomes(w, k)
    <3>1. first \in 0 .. NumRuns /\ run[first].seq \in Nat
        BY <2>4, NumRunsAssumption DEF Runs, ExecutionInv, ExecutionTypes, Row
    <3>2. k.pc = "append" /\ k.mine = mine /\ k.at = first /\ k.todo = "run_started" /\ k.results = <<>>
        BY DEF Free
    <3>3. Free \in WorkerRecords
        BY FreeTyped, ViewTyped DEF Pcs, ExecutionInv
    <3>4. k \in WorkerRecords
        BY <3>1, <3>3 DEF WorkerRecords, Pcs, Todos
    <3>5. Placed(k)
      <4> HIDE DEF k, first
      <4> QED BY Room, <3>2, <2>4 DEF Placed
    <3>6. claims <= 1 => Ours(k, run)
      <4> SUFFICES ASSUME claims <= 1 PROVE Ours(k, run)
          OBVIOUS
      <4>1. \A r \in Runs : Unwalked(run[r])
          BY <1>1, AloneAtWork DEF Ours
      <4>2. mine = Runs
          BY <4>1, <2>2 DEF Live, Unwalked
      <4>3. Saved(k) = <<>>
          BY <3>2 DEF Saved
      <4>4. \A r \in Runs : r >= first
          BY <4>2, <2>4 DEF Runs
      <4>5. \A r \in Runs : ~(r < first)
          BY <4>4, <3>1 DEF Runs
      <4> HIDE DEF k, mine, first
      <4> QED BY <3>2, <4>1, <4>2, <4>3, <4>5 DEF Ours, Unwalked
    <3>7. \A r \in Runs : \A i \in 1 .. NumSteps : Pending(worker[w], r, i)
        BY <1>1 DEF Pending
    <3> HIDE DEF k
    <3> QED BY <1>1, <1>2, <1>4, <2>1, <2>2, <2>5, <2>6, <3>4, <3>5, <3>6, <3>7, QuietStep
  <2>7. CASE Becomes(w, m)
    <3>1. m \in WorkerRecords /\ m.pc = "raised" /\ m.results = worker[w].results
        BY WorkerTyped DEF WorkerRecords, Pcs
    <3>2. Len(m.results) <= NumSteps
        BY <3>1, WorkerTyped DEF Placed
    <3> HIDE DEF m
    <3>3. Placed(m) /\ \A r, i : ~Pending(m, r, i)
        BY <3>1, <3>2, IdlePlaced
    <3>4. Ours(m, run)
        BY <3>1 DEF Ours, Underway
    <3> QED BY <1>1, <1>2, <1>4, <2>1, <2>2, <2>5, <2>7, <3>1, <3>3, <3>4, QuietStep
  <2> QED BY <2>1, <2>6, <2>7
<1> QED BY <1>3, <1>4

\* Appending leaves what was there.
LEMMA FrontOfAppend ==
    ASSUME NEW S, NEW q \in Seq(S), NEW x \in S
    PROVE  /\ Append(q, x) \in Seq(S) /\ Len(Append(q, x)) = Len(q) + 1
           /\ Append(q, x) # <<>>
           /\ SubSeq(Append(q, x), 1, Len(Append(q, x)) - 1) = q
           /\ Append(q, x)[Len(Append(q, x))] = x
<1>1. Append(q, x) \in Seq(S) /\ Len(Append(q, x)) = Len(q) + 1 /\ Len(q) \in Nat
    OBVIOUS
<1>2. SubSeq(Append(q, x), 1, Len(q)) = q
    OBVIOUS
<1>3. Append(q, x)[Len(q) + 1] = x
    OBVIOUS
<1>4. Len(q) + 1 - 1 = Len(q)
    BY <1>1
<1>5. Append(q, x) # <<>>
    BY <1>1
<1> QED BY <1>1, <1>2, <1>3, <1>4, <1>5

\* A step that has got its result is walked, and its event comes next.
LEMMA ResultComesNext ==
    ASSUME ExecutionInv, NEW w \in Workers, worker[w].pc \in {"append", "execute"},
           worker[w].todo = "step_started", NEW result \in Results
    PROVE  /\ WithResult(w, result) \in WorkerRecords /\ Placed(WithResult(w, result))
           /\ WithResult(w, result).pc = "load"
           /\ Ours(worker[w], run) => Ours(WithResult(w, result), run)
           /\ \A r \in Runs : \A i \in 1 .. NumSteps :
                Pending(WithResult(w, result), r, i) =>
                    Pending(worker[w], r, i)
                    /\ ~(r = worker[w].at /\ i = Len(worker[w].results) + 1)
<1> DEFINE m == worker[w]
           k == WithResult(w, result)
           res == Append(m.results, result)
<1>1. m \in WorkerRecords /\ Placed(m) /\ m.results \in Seq(Results)
      /\ m.at \in 0 .. NumRuns
    BY WorkerTyped
<1>2. k = [m EXCEPT !.pc = "load", !.todo = "result", !.results = res]
    BY DEF WithResult
<1>3. res \in Seq(Results) /\ Len(res) = Len(m.results) + 1 /\ res # <<>>
      /\ SubSeq(res, 1, Len(res) - 1) = m.results
    BY <1>1, FrontOfAppend
<1> HIDE DEF res
<1>4. /\ k \in WorkerRecords /\ k.pc = "load" /\ k.todo = "result" /\ k.results = res
      /\ k.at = m.at /\ k.mine = m.mine
    BY <1>1, <1>2, <1>3 DEF WorkerRecords, Pcs, Todos
<1>5. m.pc \in {"append", "execute"} /\ m.todo = "step_started" /\ Len(m.results) < NumSteps
      /\ m.at \in m.mine
    BY <1>1 DEF Placed, Underway
<1>6. Len(m.results) \in Nat /\ NumSteps \in Nat
    BY <1>1, Room
<1> HIDE DEF k, m
<1>7. Placed(k)
  <2>1. Len(k.results) <= NumSteps
      BY <1>3, <1>4, <1>5, <1>6
  <2> QED BY <2>1, <1>3, <1>4, <1>5 DEF Placed
<1>8. Ours(m, run) => Ours(k, run)
  <2>1. Saved(k) = m.results /\ Saved(m) = m.results
      BY <1>3, <1>4, <1>5 DEF Saved
  <2> QED BY <2>1, <1>4, <1>5 DEF Ours, Underway
<1>9. ASSUME NEW r \in Runs, NEW i \in 1 .. NumSteps, Pending(k, r, i)
      PROVE  Pending(m, r, i) /\ ~(r = m.at /\ i = Len(m.results) + 1)
  <2>1. k.at < r \/ (k.at = r /\ Len(k.results) < i)
      BY <1>9, <1>4 DEF Pending
  <2>2. m.at < r \/ (m.at = r /\ Len(m.results) + 1 < i)
      BY <2>1, <1>3, <1>4
  <2>3. i \in Nat /\ r \in Nat /\ m.at \in Nat
      BY <1>1, NumRunsAssumption DEF Runs, m
  <2>4. ~(r = m.at /\ i = Len(m.results) + 1)
      BY <2>2, <2>3, <1>6
  <2>5. m.at < r \/ (m.at = r /\ Len(m.results) < i)
      BY <2>2, <2>3, <1>6
  <2> QED BY <2>4, <2>5, <1>5 DEF Pending, Underway
<1> QED BY <1>4, <1>7, <1>8, <1>9 DEF k, m

\* A refused "step_started" becomes the failed result of the step.
LEMMA ResultKeeps ==
    ASSUME ExecutionInv, NEW w \in Workers, worker[w].pc = "append",
           worker[w].todo = "step_started", Becomes(w, WithResult(w, "failed")),
           UNCHANGED <<execution, run, events, version, tasks, reader, posts, beats, crashes,
                       claims, effects, abandoned>>
    PROVE  ExecutionInv'
<1> DEFINE k == WithResult(w, "failed")
<1>1. "failed" \in Results /\ Busy(w)
    BY DEF Results, Outcomes, Busy
<1>2. /\ k \in WorkerRecords /\ Placed(k) /\ (Ours(worker[w], run) => Ours(k, run))
      /\ \A r \in Runs : \A i \in 1 .. NumSteps : Pending(k, r, i) => Pending(worker[w], r, i)
    BY <1>1, ResultComesNext
<1>3. claims <= 1 => execution \notin Terminal /\ Covers(execution, run) /\ Ours(worker[w], run)
    BY <1>1, AloneAtWork
<1>4. abandoned' \in BOOLEAN
    BY WorkerTyped
<1> HIDE DEF k
<1>5. Becomes(w, k)
    BY DEF k
<1> QED BY <1>1, <1>2, <1>3, <1>4, <1>5, QuietStep

\* A request that cannot be rendered fails its step, without an effect.
LEMMA RenderFailsKeeps ==
    ASSUME ExecutionInv, NEW w \in Workers, RenderFails(w)
    PROVE  ExecutionInv'
BY ResultKeeps DEF RenderFails, Holds

\* A refused event fails the step or ends the task.
LEMMA AppendRefusedKeeps ==
    ASSUME ExecutionInv, NEW w \in Workers, AppendRefused(w)
    PROVE  ExecutionInv'
<1>1. worker[w].pc = "append" /\ Busy(w) /\ Becomes(w, AfterRefusal(w))
    BY DEF AppendRefused, Holds, Busy
<1>2. UNCHANGED <<execution, run, events, version, tasks, reader, posts, beats, crashes, claims, effects, abandoned>>
    BY DEF AppendRefused
<1>3. CASE worker[w].todo = "step_started"
    BY <1>1, <1>2, <1>3, ResultKeeps DEF AfterRefusal
<1>4. CASE worker[w].todo # "step_started"
    BY <1>1, <1>2, <1>4, RaisedStays DEF AfterRefusal, Moves
<1> QED BY <1>3, <1>4

\* A worker that loads its run has the number of the next event.
LEMMA LoadKeeps ==
    ASSUME ExecutionInv, NEW w \in Workers, Load(w)
    PROVE  ExecutionInv'
<1> DEFINE m == worker[w]
           k == [m EXCEPT !.pc = "append", !.seen = run[m.at].seq]
<1>1. m.pc = "load" /\ Busy(w)
    BY DEF Load, Holds, Busy
<1>2. UNCHANGED <<execution, run, events, version, tasks, reader, posts, beats, crashes, claims, effects, abandoned>>
    BY DEF Load
<1>3. CASE ~Live(m.at)
    BY <1>1, <1>2, <1>3, RaisedStays DEF Load
<1>4. CASE Live(m.at)
  <2>1. Becomes(w, k)
      BY <1>4 DEF Load
  <2>2. m \in WorkerRecords /\ Placed(m) /\ abandoned' \in BOOLEAN /\ m.mine \subseteq Runs
      BY <1>2, WorkerTyped
  <2>3. m.at \in Runs
      BY <1>1, <2>2 DEF Placed, Underway
  <2>4. run[m.at].seq \in Nat
      BY <2>3 DEF ExecutionInv, ExecutionTypes, Row
  <2>5. k \in WorkerRecords /\ k = [m EXCEPT !.pc = "append", !.seen = run[m.at].seq]
      BY <2>2, <2>4 DEF WorkerRecords, Pcs
  <2>6. k.pc = "append" /\ k.results = m.results /\ k.todo = m.todo /\ k.at = m.at /\ k.mine = m.mine
      BY <2>2, <2>5 DEF WorkerRecords
  <2> HIDE DEF k
  <2>7. claims <= 1 => execution \notin Terminal /\ Covers(execution, run) /\ Ours(m, run)
      BY <1>1, AloneAtWork
  <2> HIDE DEF m
  <2>8. Placed(k)
      BY <1>1, <2>2, <2>6 DEF Placed, Underway
  <2>9. Ours(m, run) => Ours(k, run)
      BY <1>1, <2>6 DEF Ours, Underway, Saved
  <2>10. \A r, i : Pending(k, r, i) => Pending(m, r, i)
      BY <1>1, <2>6 DEF Pending, Underway
  <2> QED BY <1>1, <1>2, <2>1, <2>2, <2>5, <2>7, <2>8, <2>9, <2>10, QuietStep DEF m
<1> QED BY <1>3, <1>4

\* A task goes on to the next of its runs, or raises when that is gone.
LEMMA NextRunKeeps ==
    ASSUME ExecutionInv, NEW w \in Workers, NextRun(w)
    PROVE  ExecutionInv'
<1> DEFINE m == worker[w]
           next == First(Ahead(w))
           k == [m EXCEPT !.pc = "load", !.results = <<>>, !.at = next, !.todo = "run_started"]
<1>1. m.pc = "finished" /\ Busy(w) /\ Ahead(w) # {}
    BY DEF NextRun, Holds, Busy
<1>2. UNCHANGED <<execution, run, events, version, tasks, reader, posts, beats, crashes, claims, effects, abandoned>>
    BY DEF NextRun
<1>3. CASE ~(Live(m.at) /\ version)
    BY <1>1, <1>2, <1>3, RaisedStays DEF NextRun
<1>4. CASE Live(m.at) /\ version
  <2>1. Becomes(w, k)
      BY <1>4 DEF NextRun
  <2>2. m \in WorkerRecords /\ abandoned' \in BOOLEAN /\ m.mine \subseteq Runs
        /\ m.at \in 0 .. NumRuns
      BY <1>2, WorkerTyped
  <2>3. Ahead(w) \in SUBSET Runs
      BY <2>2 DEF Ahead
  <2>4. next \in m.mine /\ next > m.at /\ \A q \in Ahead(w) : next <= q
      BY <1>1, <2>3, FirstOf DEF Ahead
  <2>5. next \in 0 .. NumRuns
      BY <2>2, <2>4 DEF Runs
  <2>6. k \in WorkerRecords
    <3> HIDE DEF next, m
    <3>1. "load" \in Pcs /\ "run_started" \in Todos /\ <<>> \in Seq(Results)
        BY DEF Pcs, Todos
    <3> QED BY <2>2, <2>5, <3>1 DEF WorkerRecords
  <2>7. k.pc = "load" /\ k.results = <<>> /\ k.todo = "run_started" /\ k.at = next /\ k.mine = m.mine
      BY <2>2 DEF WorkerRecords
  <2> HIDE DEF k
  <2>8. claims <= 1 => execution \notin Terminal /\ Covers(execution, run) /\ Ours(m, run)
      BY <1>1, AloneAtWork
  <2>9. Placed(k)
      BY Room, <2>4, <2>7 DEF Placed
  <2>10. ASSUME Ours(m, run) PROVE Ours(k, run)
    <3>1. Saved(k) = <<>>
        BY <2>7 DEF Saved
    <3>2. m.mine = Runs /\ Runs \subseteq Nat /\ next \in Nat /\ m.at \in Nat
        BY <1>1, <2>2, <2>5, <2>10, NumRunsAssumption DEF Ours, Underway, Runs
    <3>3. ASSUME NEW r \in Runs, r < next PROVE ~(r > m.at)
        BY SMTT(20), <2>4, <3>2, <3>3 DEF Ahead
    <3>4. \A r \in Runs : r >= next => r > m.at
        BY <2>4, <3>2
    <3>5. \A r \in Runs : (r > m.at => Unwalked(run[r]))
              /\ (~(r > m.at) => run[r].status \in Terminal \union {"gone"})
        BY <1>1, <2>10, <3>2 DEF Ours, Underway
    <3> HIDE DEF m, next
    <3>6. ASSUME NEW r \in Runs
          PROVE  /\ r > next => Unwalked(run[r])
                 /\ r < next => run[r].status \in Terminal \union {"gone"}
                 /\ r = next => Unwalked(run[r])
        BY <3>2, <3>3, <3>4, <3>5
    <3> QED BY <2>7, <3>1, <3>2, <3>6 DEF Ours, Unwalked
  <2>11. \A r \in Runs : \A i \in 1 .. NumSteps : Pending(k, r, i) => Pending(m, r, i)
    <3> SUFFICES ASSUME NEW r \in Runs, NEW i \in 1 .. NumSteps, Pending(k, r, i)
                 PROVE  Pending(m, r, i)
        OBVIOUS
    <3>1. next < r \/ next = r
        BY <2>7 DEF Pending
    <3>2. m.at < r
        BY <2>2, <2>4, <2>5, <3>1 DEF Runs
    <3> QED BY <1>1, <3>2 DEF Pending, Underway
  <2> QED BY <1>1, <1>2, <2>1, <2>2, <2>6, <2>8, <2>9, <2>10, <2>11, QuietStep
<1> QED BY <1>3, <1>4

\* Leaving the task without a word.
LEMMA FreeKeeps ==
    ASSUME ExecutionInv, NEW w \in Workers, Busy(w), Becomes(w, Free),
           execution' = execution \/ (execution # "gone" /\ execution' \in Terminal),
           claims <= 1 => Covers(execution', run), abandoned' \in BOOLEAN,
           UNCHANGED <<run, events, version, tasks, reader, posts, beats, crashes, claims, effects>>
    PROVE  ExecutionInv'
<1>1. Free \in WorkerRecords
    BY FreeTyped, ViewTyped DEF Pcs, ExecutionInv
<1>2. Free.pc = "free" /\ Len(Free.results) <= NumSteps
    BY Room DEF Free
<1> HIDE DEF Free
<1>3. Placed(Free) /\ \A r, i : ~Pending(Free, r, i)
    BY <1>1, <1>2, IdlePlaced
<1> QED BY <1>1, <1>2, <1>3, QuietStep

\* An exception sends a task to fail the execution, or ends it.
LEMMA RaisedKeeps ==
    ASSUME ExecutionInv, NEW w \in Workers, Raised(w)
    PROVE  ExecutionInv'
<1> DEFINE k == [Free EXCEPT !.pc = "failing", !.view = View]
<1>1. Busy(w) /\ (Becomes(w, k) \/ Becomes(w, Free))
    BY DEF Raised, Holds, Busy
<1>2. UNCHANGED <<execution, run, events, version, tasks, reader, posts, beats, crashes, claims, effects, abandoned>>
    BY DEF Raised
<1>3. claims # 0 /\ execution # "none" /\ abandoned' \in BOOLEAN
      /\ (claims <= 1 => execution \notin Terminal /\ Covers(execution, run))
    BY <1>1, <1>2, AloneAtWork, WorkerTyped
<1>4. CASE Becomes(w, Free)
    BY <1>1, <1>2, <1>3, <1>4, FreeKeeps
<1>5. CASE Becomes(w, k)
  <2>2. k \in WorkerRecords
      BY FreeTyped, ViewTyped DEF Pcs, ExecutionInv
  <2>3. k.pc = "failing" /\ k.view = View /\ Len(k.results) <= NumSteps
      BY Room DEF Free
  <2> HIDE DEF k
  <2>4. Placed(k) /\ \A r, i : ~Pending(k, r, i)
      BY <2>2, <2>3, IdlePlaced
  <2>5. Ours(k, run)
      BY <1>3, <2>3, ViewIsOurs DEF ExecutionInv
  <2> QED BY <1>1, <1>2, <1>3, <1>5, <2>2, <2>4, <2>5, QuietStep
<1> QED BY <1>1, <1>4, <1>5

\* The verdict is written after the last run has ended.
LEMMA FinishExecutionKeeps ==
    ASSUME ExecutionInv, NEW w \in Workers, FinishExecution(w)
    PROVE  ExecutionInv'
<1>1. Busy(w) /\ worker[w].pc = "finished" /\ Ahead(w) = {}
    BY DEF FinishExecution, Holds, Busy
<1>2. UNCHANGED <<run, events, version, tasks, reader, posts, beats, crashes, claims, effects, abandoned>>
    BY DEF FinishExecution
<1>3. CASE CannotSum(w)
    BY <1>1, <1>2, <1>3, RaisedStays DEF FinishExecution
<1>4. CASE ~CannotSum(w)
  <2>1. execution' = Sum(worker[w].mine) /\ Becomes(w, Free) /\ execution # "gone"
      BY <1>4 DEF FinishExecution, CannotSum
  <2>2. execution' \in Terminal /\ abandoned' \in BOOLEAN
      BY <1>2, <2>1, WorkerTyped DEF Sum, Terminal
  <2>3. ASSUME claims <= 1 PROVE Covers(execution', run)
    <3>1. Ours(worker[w], run) /\ worker[w].at \in 0 .. NumRuns
        BY <1>1, <2>3, AloneAtWork, WorkerTyped
    <3>2. worker[w].mine = Runs
        BY <1>1, <3>1 DEF Ours, Underway
    <3>3. \A r \in Runs : r <= worker[w].at
        BY <1>1, <3>1, <3>2 DEF Ahead, Runs
    <3>4. \A r \in Runs : run[r].status \in Terminal \union {"gone"}
        BY <1>1, <3>1, <3>3 DEF Ours, Underway, Runs
    <3>5. execution' = "passed" => \A r \in Runs : run[r].status \notin {"timeout", "failed"}
        BY <2>1, <3>2 DEF Sum
    <3> QED BY <3>4, <3>5 DEF Covers, Here, Terminal
  <2> QED BY <1>1, <1>2, <2>1, <2>2, <2>3, FreeKeeps
<1> QED BY <1>3, <1>4

\* What is executed is no longer to be executed.
LEMMA OneMoreOneLess ==
    ASSUME NEW a \in Nat, NEW b, NEW p \in Nat, NEW q \in Nat, NEW c \in Nat, a + p <= c,
           \/ b = a /\ q <= p
           \/ b = a + 1 /\ q <= p - 1
    PROVE  b + q <= c
OBVIOUS

\* A step is executed by a task that had it before it.
LEMMA RunStepKeeps ==
    ASSUME ExecutionInv, NEW w \in Workers, RunStep(w)
    PROVE  ExecutionInv'
<1> DEFINE m == worker[w]
           n == Len(m.results) + 1
<1>1. m.pc = "execute" /\ Busy(w) /\ effects' = [effects EXCEPT ![m.at][n] = @ + 1]
    BY DEF RunStep, Holds, Busy
<1>2. UNCHANGED <<execution, run, events, version, tasks, reader, posts, beats, crashes, claims, abandoned>>
    BY DEF RunStep
<1>3. PICK outcome \in Outcomes : Becomes(w, WithResult(w, outcome))
    BY DEF RunStep
<1> DEFINE k == WithResult(w, outcome)
<1>4. Placed(m) /\ m.results \in Seq(Results) /\ m.mine \subseteq Runs
    BY WorkerTyped
<1>5. m.todo = "step_started" /\ m.at \in Runs /\ n \in 1 .. NumSteps
  <2>1. m.todo = "step_started" /\ m.at \in m.mine /\ Len(m.results) < NumSteps
      BY <1>1, <1>4 DEF Placed, Underway
  <2>2. Len(m.results) \in Nat
      BY <1>4
  <2> QED BY <2>1, <2>2, <1>4, Room
<1>6. outcome \in Results
    BY DEF Results
<1>7. /\ k \in WorkerRecords /\ Placed(k) /\ (Ours(m, run) => Ours(k, run))
      /\ \A r \in Runs : \A i \in 1 .. NumSteps :
            Pending(k, r, i) => Pending(m, r, i) /\ ~(r = m.at /\ i = n)
    BY <1>1, <1>5, <1>6, ResultComesNext
<1>8. claims <= 1 => execution \notin Terminal /\ Covers(execution, run) /\ Ours(m, run)
    BY <1>1, AloneAtWork
<1> HIDE DEF k
<1>9. Becomes(w, k)
    BY <1>3 DEF k
<1> USE DEF ExecutionInv
<1> HIDE DEF n
<1>10. effects \in [Runs -> [1 .. NumSteps -> Nat]]
    BY DEF ExecutionTypes
<1>11. /\ effects' \in [Runs -> [1 .. NumSteps -> Nat]]
       /\ effects'[m.at][n] = effects[m.at][n] + 1
       /\ \A r \in Runs : \A i \in 1 .. NumSteps : ~(r = m.at /\ i = n) => effects'[r][i] = effects[r][i]
  <2> DEFINE row == [effects[m.at] EXCEPT ![n] = effects[m.at][n] + 1]
  <2>1. effects' = [effects EXCEPT ![m.at] = row]
      BY <1>1
  <2>2. effects[m.at] \in [1 .. NumSteps -> Nat] /\ m.at \in Runs
      BY <1>5, <1>10
  <2>3. effects[m.at][n] + 1 \in Nat
    <3> HIDE DEF m
    <3>1. n \in 1 .. NumSteps
        BY <1>5
    <3>2. effects[m.at][n] \in Nat
        BY ONLY <3>1, <2>2
    <3> QED BY <3>2
  <2>4. /\ row \in [1 .. NumSteps -> Nat] /\ row[n] = effects[m.at][n] + 1
        /\ \A i \in 1 .. NumSteps : i # n => row[i] = effects[m.at][i]
    <3> HIDE DEF m
    <3>1. n \in 1 .. NumSteps
        BY <1>5
    <3> QED BY ONLY <3>1, <2>2, <2>3 DEF row
  <2> HIDE DEF row, m
  <2> QED BY ONLY <2>1, <2>2, <2>4, <1>10
<1>12. ExecutionTypes'
    BY <1>2, <1>7, <1>9, <1>11, WorkerSet DEF ExecutionTypes
<1>13. AllPlaced'
    BY <1>7, <1>9, PlacedStays
<1>14. Begun' /\ Logged' /\ Followed'
    BY <1>2 DEF Begun, Logged, Followed
<1>15. Alone'
    BY <1>1, <1>2, <1>7, <1>8, <1>9, AloneWith
<1>16. Counted'
  <2> SUFFICES ASSUME NEW r \in Runs, NEW i \in 1 .. NumSteps
               PROVE  effects'[r][i] + Cardinality(PendingIn(worker', r, i)) <= claims
      BY <1>2 DEF Counted
  <2> DEFINE old == PendingIn(worker, r, i)
             new == PendingIn(worker', r, i)
  <2>1. new \subseteq old
      BY <1>7, <1>9, PendingOfOne
  <2>2. IsFiniteSet(old) /\ Cardinality(old) \in Nat /\ Cardinality(new) \in Nat
      BY PendingFinite
  <2>3. effects[r][i] \in Nat /\ claims \in Nat /\ effects[r][i] + Cardinality(old) <= claims
      BY <1>10 DEF Counted, ExecutionTypes
  <2>4. CASE r = m.at /\ i = n
    <3>1. ~Pending(k, r, i)
        BY <1>7, <2>4
    <3>2. w \notin new
        BY <1>7, <1>9, <3>1, WorkerSet DEF PendingIn
    <3>3. Pending(m, r, i)
        BY <1>1, <1>4, <2>4 DEF Pending, Underway, n
    <3>4. w \in old
        BY <3>3 DEF PendingIn
    <3> HIDE DEF old, new
    <3>5. new \in SUBSET (old \ {w})
        BY <2>1, <3>2
    <3>6. IsFiniteSet(old \ {w}) /\ Cardinality(old \ {w}) = Cardinality(old) - 1
        BY <2>2, <3>4, FS_RemoveElement
    <3>7. Cardinality(new) <= Cardinality(old \ {w})
        BY <3>5, <3>6, FS_Subset
    <3>8. effects'[r][i] = effects[r][i] + 1
        BY <1>11, <2>4
    <3>9. Cardinality(new) <= Cardinality(old) - 1
        BY <3>6, <3>7
    <3> QED BY <2>2, <2>3, <3>8, <3>9, OneMoreOneLess DEF old, new
  <2>5. CASE ~(r = m.at /\ i = n)
    <3>1. effects'[r][i] = effects[r][i]
        BY <1>11, <2>5
    <3>2. Cardinality(new) <= Cardinality(old)
        BY <2>1, PendingSmaller
    <3> HIDE DEF old, new
    <3> QED BY <2>2, <2>3, <3>1, <3>2, OneMoreOneLess DEF old, new
  <2> QED BY <2>4, <2>5
<1> QED BY <1>12, <1>13, <1>14, <1>15, <1>16

(* Steps in which neither workers nor runs nor readers move.                 *)
LEMMA NobodyMoves ==
    ASSUME ExecutionInv, version' \in BOOLEAN, tasks' \in 0 .. Capacity,
           execution = "none" => tasks' = 0, posts' \in Nat,
           UNCHANGED <<execution, run, events, worker, reader, beats, crashes, claims, effects, abandoned>>
    PROVE  ExecutionInv'
<1> USE DEF ExecutionInv
<1>1. ExecutionTypes'
    BY DEF ExecutionTypes
<1>2. AllPlaced'
    BY DEF AllPlaced
<1>3. Begun'
    BY DEF Begun
<1>4. Logged' /\ Followed'
    BY DEF Logged, Followed
<1>5. Counted'
    BY DEF Counted
<1>6. Alone'
    BY DEF Alone, Busy
<1> QED BY <1>1, <1>2, <1>3, <1>4, <1>5, <1>6

\* The executor takes a task when it has room.
LEMMA SubmitsTyped ==
    ASSUME tasks \in 0 .. Capacity, Submits
    PROVE  tasks' \in 0 .. Capacity
<1> DEFINE S == {w \in Workers : Busy(w)}
<1>1. IsFiniteSet(S)
  <2>1. S \in SUBSET Workers
      OBVIOUS
  <2> HIDE DEF S
  <2> QED BY <2>1, WorkersAssumption, FS_Subset
<1>2. Cardinality(S) \in Nat
  <2> HIDE DEF S
  <2> QED BY <1>1, FS_CardinalityType
<1>3. tasks' = tasks \/ (tasks + Cardinality(S) < Capacity /\ tasks' = tasks + 1)
    BY DEF Submits
<1> HIDE DEF S
<1> QED BY <1>2, <1>3, CapacityAssumption

\* A repeated POST submits a task and claims nothing.
LEMMA RepeatPostKeeps ==
    ASSUME ExecutionInv, RepeatPost
    PROVE  ExecutionInv'
<1>1. tasks \in 0 .. Capacity /\ posts \in Nat /\ version \in BOOLEAN
    BY DEF ExecutionInv, ExecutionTypes
<1>2. tasks' \in 0 .. Capacity
    BY <1>1, SubmitsTyped DEF RepeatPost
<1> QED BY <1>1, <1>2, NobodyMoves DEF RepeatPost

\* A scenario is deleted under its executions, whose rows stay.
LEMMA DeleteScenarioKeeps ==
    ASSUME ExecutionInv, DeleteScenario
    PROVE  ExecutionInv'
<1>1. tasks \in 0 .. Capacity /\ posts \in Nat /\ (execution = "none" => tasks = 0)
    BY DEF ExecutionInv, ExecutionTypes, Begun
<1> QED BY <1>1, NobodyMoves DEF DeleteScenario

\* One more claim allows one more task.
LEMMA OneTakesOne ==
    ASSUME NEW a \in Nat, NEW p \in Nat, NEW q \in Nat, NEW c \in Nat, a + p <= c, q <= p + 1
    PROVE  a + q <= c + 1
OBVIOUS

\* A task that finds the execution queued is one claim.
LEMMA TakeTaskKeeps ==
    ASSUME ExecutionInv, NEW w \in Workers, TakeTask(w)
    PROVE  ExecutionInv'
<1> USE DEF ExecutionInv
<1> DEFINE k == [worker[w] EXCEPT !.pc = "claimed"]
<1>1. ~Busy(w) /\ tasks > 0 /\ tasks' = tasks - 1
    BY DEF TakeTask
<1>2. UNCHANGED <<execution, run, events, version, reader, posts, beats, crashes, effects, abandoned>>
    BY DEF TakeTask
<1>3. tasks \in 0 .. Capacity /\ tasks' \in 0 .. Capacity /\ version \in BOOLEAN /\ posts \in Nat
      /\ claims \in Nat
    BY <1>1, CapacityAssumption DEF ExecutionTypes
<1>4. execution # "none"
    BY <1>1, <1>3 DEF Begun
<1>5. CASE execution # "queued"
    BY <1>2, <1>3, <1>4, <1>5, NobodyMoves DEF TakeTask
<1>6. CASE execution = "queued"
  <2>1. Becomes(w, k) /\ claims' = claims + 1
      BY <1>6 DEF TakeTask, Moves
  <2>2. worker[w] \in WorkerRecords /\ Placed(worker[w])
      BY WorkerTyped
  <2>3. k \in WorkerRecords /\ k.pc = "claimed" /\ k.results = worker[w].results
      BY <2>2 DEF WorkerRecords, Pcs
  <2> HIDE DEF k
  <2>4. Placed(k)
      BY <2>2, <2>3 DEF Placed, Underway
  <2>5. claims' \in Nat
      BY <1>3, <2>1
  <2>6. ExecutionTypes'
      BY <1>2, <1>3, <2>1, <2>3, <2>5, WorkerSet DEF ExecutionTypes
  <2>7. AllPlaced'
      BY <2>1, <2>3, <2>4, PlacedStays
  <2>8. Begun'
      BY <1>2, <1>4 DEF Begun
  <2>9. Logged'
      BY <1>2, <1>3, <2>1 DEF Logged
  <2>10. Followed'
      BY <1>2 DEF Followed
  <2>11. Counted'
    <3> SUFFICES ASSUME NEW r \in Runs, NEW i \in 1 .. NumSteps
                 PROVE  effects[r][i] + Cardinality(PendingIn(worker', r, i)) <= claims + 1
        BY <1>2, <2>1 DEF Counted
    <3> DEFINE old == PendingIn(worker, r, i)
               new == PendingIn(worker', r, i)
    <3>1. new \subseteq old \union {w}
        BY <2>1, <2>3, WorkerSet DEF PendingIn
    <3>2. IsFiniteSet(old) /\ Cardinality(old) \in Nat /\ Cardinality(new) \in Nat
        BY PendingFinite
    <3>3. effects[r][i] \in Nat /\ effects[r][i] + Cardinality(old) <= claims
        BY DEF Counted, ExecutionTypes
    <3>4. Cardinality(new) <= Cardinality(old) + 1
      <4> HIDE DEF old, new
      <4>1. IsFiniteSet(old \union {w}) /\ Cardinality(old \union {w}) \in Nat
            /\ Cardinality(old \union {w}) <= Cardinality(old) + 1
        <5>1. /\ IsFiniteSet(old \union {w})
              /\ Cardinality(old \union {w}) =
                    IF w \in old THEN Cardinality(old) ELSE Cardinality(old) + 1
            BY <3>2, FS_AddElement
        <5>2. CASE w \in old
            BY <3>2, <5>1, <5>2
        <5>3. CASE w \notin old
            BY <3>2, <5>1, <5>3
        <5> QED BY <5>2, <5>3
      <4>2. Cardinality(new) <= Cardinality(old \union {w})
          BY <3>1, <4>1, FS_Subset
      <4> QED BY <3>2, <4>1, <4>2
    <3>5. claims \in Nat
        BY <1>3
    <3>6. effects[r][i] + Cardinality(new) <= claims + 1
      <4> HIDE DEF old, new
      <4> QED BY ONLY <3>2, <3>3, <3>4, <3>5, OneTakesOne
    <3> QED BY <3>6
  <2>12. Alone'
    <3> SUFFICES ASSUME claims = 0 PROVE Alone'
        BY <1>3, <2>1 DEF Alone
    <3>1. (\A v \in Workers : ~Busy(v)) /\ (\A r \in Runs : Unwalked(run[r]))
        BY DEF Alone
    <3>2. \A v \in Workers : Busy(v)' => v = w
        BY <2>1, <2>3, <3>1, WorkerSet DEF Busy
    <3>3. execution' \notin Terminal /\ claims' # 0
        BY <1>2, <1>6, <1>3, <2>1 DEF Terminal
    <3>4. Ours(k, run) /\ worker'[w] = k
        BY <2>1, <2>3, <3>1, WorkerSet DEF Ours, Underway
    <3> QED BY <1>2, <3>2, <3>3, <3>4 DEF Alone, Covers
  <2> QED BY <2>6, <2>7, <2>8, <2>9, <2>10, <2>11, <2>12
<1> QED BY <1>5, <1>6

\* A restart ends all tasks and streams.
LEMMA CrashKeeps ==
    ASSUME ExecutionInv, Crash
    PROVE  ExecutionInv'
<1> USE DEF ExecutionInv
<1>1. /\ crashes' = crashes + 1 /\ tasks' = 0 /\ worker' = [w \in Workers |-> Free]
      /\ reader' = [d \in Readers |-> Away] /\ abandoned' \in BOOLEAN
    BY DEF Crash
<1>2. UNCHANGED <<execution, run, events, version, posts, beats, claims, effects>>
    BY DEF Crash
<1>3. Free \in WorkerRecords /\ Free.pc = "free" /\ Len(Free.results) <= NumSteps
  <2>1. Free \in WorkerRecords
      BY FreeTyped, ViewTyped DEF Pcs
  <2> QED BY <2>1, Room DEF Free
<1>4. Away \in ReaderRecords /\ Away.pc = "away"
    BY NumRunsAssumption DEF Away, ReaderRecords
<1> HIDE DEF Free, Away
<1>5. Placed(Free) /\ \A r, i : ~Pending(Free, r, i)
    BY <1>3, IdlePlaced
<1>6. ExecutionTypes'
    BY <1>1, <1>2, <1>3, <1>4, CapacityAssumption DEF ExecutionTypes
<1>7. AllPlaced'
    BY <1>1, <1>5 DEF AllPlaced, Placed
<1>8. Begun' /\ Logged' /\ Followed'
    BY <1>1, <1>2, <1>4 DEF Begun, Logged, Followed
<1>9. Counted'
  <2>1. \A r \in Runs : \A i \in 1 .. NumSteps : PendingIn(worker', r, i) \subseteq PendingIn(worker, r, i)
      BY <1>1, <1>5 DEF PendingIn
  <2>2. claims \in Nat
      BY DEF ExecutionTypes
  <2> QED BY <1>2, <2>1, <2>2, CountedStays
<1>10. Alone'
  <2>1. \A w \in Workers : ~Busy(w)'
      BY <1>1, <1>3 DEF Busy
  <2> QED BY <1>2, <2>1 DEF Alone
<1> QED BY <1>6, <1>7, <1>8, <1>9, <1>10

(* Steps of a reader that append nothing.                                    *)
LEMMA ReaderMoves ==
    ASSUME ExecutionInv, NEW d \in Readers, NEW m \in ReaderRecords,
           reader' = [reader EXCEPT ![d] = m], execution # "none",
           m.pc # "away" => m.of \in Runs /\ Follows(m, run[m.of], events[m.of]),
           beats' \in Nat,
           UNCHANGED <<execution, run, events, version, tasks, worker, posts, crashes, claims,
                       effects, abandoned>>
    PROVE  ExecutionInv'
<1> USE DEF ExecutionInv
<1>1. /\ reader' \in [Readers -> ReaderRecords] /\ reader'[d] = m
      /\ \A e \in Readers \ {d} : reader'[e] = reader[e]
    BY DEF ExecutionTypes
<1>2. ExecutionTypes'
    BY <1>1 DEF ExecutionTypes
<1>3. AllPlaced' /\ Logged'
    BY DEF AllPlaced, Logged
<1>4. Begun'
    BY DEF Begun
<1>5. Followed'
    BY <1>1 DEF Followed
<1>6. Counted'
    BY DEF Counted
<1>7. Alone'
    BY DEF Alone, Busy
<1> QED BY <1>2, <1>3, <1>4, <1>5, <1>6, <1>7

\* A reader starts from the first event.
LEMMA OpenKeeps ==
    ASSUME ExecutionInv, NEW d \in Readers, Open(d)
    PROVE  ExecutionInv'
<1> USE DEF ExecutionInv
<1>1. PICK r \in Runs : Live(r) /\ reader' = [reader EXCEPT ![d] = [Away EXCEPT !.pc = "read", !.of = r]]
    BY DEF Open
<1> DEFINE m == [Away EXCEPT !.pc = "read", !.of = r]
<1>2. m \in ReaderRecords /\ m.pc = "read" /\ m.of = r /\ m.cursor = 0
  <2>1. Away \in ReaderRecords /\ Away.cursor = 0
      BY NumRunsAssumption DEF Away, ReaderRecords
  <2>2. r \in 0 .. NumRuns
      BY NumRunsAssumption DEF Runs
  <2> HIDE DEF Away
  <2> QED BY <2>1, <2>2 DEF ReaderRecords
<1> HIDE DEF m
<1>3. Kept(run[r], events[r]) /\ events[r] \in Seq(EventKinds)
    BY DEF Logged, ExecutionTypes
<1>4. Follows(m, run[r], events[r])
    BY <1>2, <1>3 DEF Follows, Kept
<1>5. execution # "none" /\ beats \in Nat
    BY <1>1 DEF Live, ExecutionTypes
<1>6. reader' = [reader EXCEPT ![d] = m]
    BY <1>1 DEF m
<1> QED BY <1>2, <1>4, <1>5, <1>6, ReaderMoves DEF Open

\* What ExecutionInv says of one reader.
LEMMA ReaderTyped ==
    ASSUME ExecutionInv, NEW d \in Readers, reader[d].pc # "away"
    PROVE  /\ reader[d] \in ReaderRecords /\ reader[d].of \in Runs
           /\ reader[d].cursor \in Nat /\ reader[d].got \subseteq Nat
           /\ Follows(reader[d], run[reader[d].of], events[reader[d].of])
           /\ execution # "none" /\ beats \in Nat
BY DEF ExecutionInv, ExecutionTypes, ReaderRecords, Followed, Begun

-----------------------------------------------------------------------------
(* Logs that grow by one event                                               *)

\* A log that is one event longer.
LEMMA OneLonger ==
    ASSUME NEW S, NEW log \in Seq(S), NEW e \in S
    PROVE  /\ Append(log, e) \in Seq(S) /\ Len(log) \in Nat
           /\ Len(Append(log, e)) = Len(log) + 1
           /\ DOMAIN log = 1 .. Len(log)
           /\ DOMAIN Append(log, e) = 1 .. Len(log) + 1
           /\ \A i \in 1 .. Len(log) : Append(log, e)[i] = log[i]
           /\ Append(log, e)[Len(log) + 1] = e
OBVIOUS

\* An end event ends a log that had none.
LEMMA EndsOnceLonger ==
    ASSUME NEW log \in Seq(EventKinds), NEW e \in EventKinds, NEW verdict, NEW next,
           EndsOnce(log, verdict), verdict \notin Terminal, e \in EndEvents <=> next \in Terminal
    PROVE  EndsOnce(Append(log, e), next)
<1> DEFINE long == Append(log, e)
           n == Len(log)
<1>1. /\ n \in Nat /\ Len(long) = n + 1 /\ DOMAIN log = 1 .. n /\ DOMAIN long = 1 .. n + 1
      /\ (\A i \in 1 .. n : long[i] = log[i]) /\ long[n + 1] = e
    BY OneLonger
<1>2. \A i \in 1 .. n : log[i] \notin EndEvents
    BY <1>1 DEF EndsOnce
<1> HIDE DEF long, n
<1>3. ASSUME NEW i \in 1 .. n + 1
      PROVE  long[i] \in EndEvents <=> next \in Terminal /\ i = n + 1
  <2>1. CASE i = n + 1
      BY <1>1, <2>1
  <2>2. CASE i # n + 1
    <3>1. i \in 1 .. n
        BY <1>1, <2>2
    <3> QED BY <1>1, <1>2, <2>2, <3>1
  <2> QED BY <2>1, <2>2
<1>4. EndsOnce(long, next)
    BY <1>1, <1>3 DEF EndsOnce
<1> QED BY <1>4 DEF long

\* A row keeps the number of its last event.
LEMMA KeptLonger ==
    ASSUME NEW log \in Seq(EventKinds), NEW e \in EventKinds, NEW row, NEW next,
           Here(row), Here(next), Kept(row, log), next.seq = Len(log) + 1,
           next.status \in Terminal => row.status \in Terminal \/ e \in EndEvents
    PROVE  Kept(next, Append(log, e))
<1> DEFINE long == Append(log, e)
           n == Len(log)
<1>1. /\ n \in Nat /\ Len(long) = n + 1 /\ DOMAIN log = 1 .. n /\ DOMAIN long = 1 .. n + 1
      /\ (\A i \in 1 .. n : long[i] = log[i]) /\ long[n + 1] = e
    BY OneLonger
<1>2. row.status \in Terminal => \E i \in 1 .. n : log[i] \in EndEvents
    BY <1>1 DEF Kept
<1> HIDE DEF long
<1>3. n + 1 \in 1 .. n + 1 /\ 1 .. n \subseteq 1 .. n + 1
    BY <1>1
<1>4. next.status \in Terminal => \E i \in DOMAIN long : long[i] \in EndEvents
    BY <1>1, <1>2, <1>3
<1>5. Kept(next, long)
    BY <1>1, <1>4 DEF Kept
<1> QED BY <1>5 DEF long

\* A reader that follows a log follows it when it grows.
LEMMA FollowsLonger ==
    ASSUME NEW log \in Seq(EventKinds), NEW e \in EventKinds, NEW row, NEW next,
           NEW m \in ReaderRecords, Here(row), Follows(m, row, log),
           next.status \in Terminal => row.status \in Terminal \/ e \in EndEvents
    PROVE  Follows(m, next, Append(log, e))
<1> DEFINE long == Append(log, e)
           n == Len(log)
<1>1. /\ n \in Nat /\ Len(long) = n + 1 /\ DOMAIN log = 1 .. n /\ DOMAIN long = 1 .. n + 1
      /\ (\A i \in 1 .. n : long[i] = log[i]) /\ long[n + 1] = e
    BY OneLonger
<1>2. m.cursor \in Nat
    BY DEF ReaderRecords
<1> HIDE DEF long, n
<1>3. n + 1 \in 1 .. n + 1 /\ 1 .. n \subseteq 1 .. n + 1
    BY <1>1
<1>4. ASSUME m.pc \in {"read", "quiet"}
      PROVE  /\ m.cursor <= Len(long)
             /\ next.status \in Terminal =>
                  \E i \in DOMAIN long : long[i] \in EndEvents /\ (i \in m.got \/ i > m.cursor)
  <2>1. m.cursor <= n
      BY <1>4 DEF Follows, n
  <2>2. m.cursor <= n + 1 /\ n + 1 > m.cursor
      BY <1>1, <1>2, <2>1
  <2>3. CASE row.status \in Terminal
    <3>1. PICK i \in 1 .. n : log[i] \in EndEvents /\ (i \in m.got \/ i > m.cursor)
        BY <1>1, <1>4, <2>3 DEF Follows
    <3> QED BY <1>1, <1>3, <2>2, <3>1
  <2>4. CASE row.status \notin Terminal
      BY <1>1, <1>3, <2>2, <2>4
  <2> QED BY <2>3, <2>4
<1>5. ASSUME m.pc = "ended"
      PROVE  \E i \in DOMAIN long \cap m.got : long[i] \in EndEvents
  <2>1. PICK i \in 1 .. n : i \in m.got /\ log[i] \in EndEvents
      BY <1>1, <1>5 DEF Follows
  <2> QED BY <1>1, <1>3, <2>1
<1>6. Follows(m, next, long)
    BY <1>4, <1>5 DEF Follows
<1> QED BY <1>6 DEF long

\* What may happen to a run and its log in one step.
Grows(row, next, log, long) ==
    \/ next = row /\ long = log
    \/ ~Here(next)
    \/ Here(row) /\ \E e \in EventKinds :
        /\ long = Append(log, e)
        /\ next.status \in Terminal => row.status \in Terminal \/ e \in EndEvents

\* Readers stay behind logs that only grow.
LEMMA FollowedStays ==
    ASSUME ExecutionInv, reader' = reader,
           \A r \in Runs : Grows(run[r], run'[r], events[r], events'[r])
    PROVE  Followed'
<1> SUFFICES ASSUME NEW d \in Readers, reader[d].pc # "away"
             PROVE  reader[d].of \in Runs
                    /\ Follows(reader[d], run'[reader[d].of], events'[reader[d].of])
    BY DEF Followed
<1> DEFINE r == reader[d].of
           m == reader[d]
<1>1. r \in Runs /\ m \in ReaderRecords /\ Follows(m, run[r], events[r])
    BY ReaderTyped
<1>2. events[r] \in Seq(EventKinds)
    BY <1>1 DEF ExecutionInv, ExecutionTypes
<1> HIDE DEF r, m
<1>3. Grows(run[r], run'[r], events[r], events'[r])
    BY <1>1
<1>4. CASE run'[r] = run[r] /\ events'[r] = events[r]
    BY <1>1, <1>4 DEF r, m
<1>5. CASE ~Here(run'[r])
    BY <1>1, <1>5 DEF Follows, r, m
<1>6. CASE Here(run[r]) /\ \E e \in EventKinds :
              /\ events'[r] = Append(events[r], e)
              /\ run'[r].status \in Terminal => run[r].status \in Terminal \/ e \in EndEvents
  <2>1. Follows(m, run'[r], events'[r])
      BY <1>1, <1>2, <1>6, FollowsLonger
  <2> QED BY <1>1, <2>1 DEF r, m
<1> QED BY <1>3, <1>4, <1>5, <1>6 DEF Grows

\* The events that tell a result are finitely many.
LEMMA ToldTyped ==
    ASSUME NEW log \in Seq(EventKinds), NEW i
    PROVE  /\ IsFiniteSet(Told(log)) /\ Told(log) \subseteq 1 .. Len(log)
           /\ Cardinality(Told(log)) \in Nat
<1> DEFINE T == Told(log)
<1>1. T \subseteq 1 .. Len(log) /\ Len(log) \in Nat
    BY DEF Told
<1> HIDE DEF T
<1>2. IsFiniteSet(1 .. Len(log))
    BY <1>1, FS_Interval
<1>3. IsFiniteSet(T)
    BY <1>1, <1>2, FS_Subset
<1>4. Cardinality(T) \in Nat
    BY <1>3, FS_CardinalityType
<1> QED BY <1>1, <1>3, <1>4 DEF T

\* An event that tells no result leaves what is told as it is.
LEMMA TellsNoMore ==
    ASSUME NEW log \in Seq(EventKinds), NEW e \in EventKinds, e \notin ResultEvents,
           NEW res, TellsResults(log, res)
    PROVE  TellsResults(Append(log, e), res)
<1> DEFINE long == Append(log, e)
           n == Len(log)
<1>1. /\ n \in Nat /\ Len(long) = n + 1 /\ DOMAIN log = 1 .. n /\ DOMAIN long = 1 .. n + 1
      /\ (\A i \in 1 .. n : long[i] = log[i]) /\ long[n + 1] = e
    BY OneLonger
<1> HIDE DEF long, n
<1>2. \A i \in 1 .. n + 1 : i \in 1 .. n \/ i = n + 1
    BY <1>1
<1>3. 1 .. n \subseteq 1 .. n + 1
    BY <1>1
<1>4. Told(long) = Told(log)
    BY <1>1, <1>2, <1>3 DEF Told
<1>5. \A i \in Told(log) : long[i] = log[i]
    BY <1>1 DEF Told
<1>6. TellsResults(long, res)
    BY <1>4, <1>5 DEF TellsResults
<1> QED BY <1>6 DEF long

\* The event of a further result tells it.
LEMMA TellsOneMore ==
    ASSUME NEW log \in Seq(EventKinds), NEW res \in Seq(Results), NEW x \in Results,
           ResultEvent(x) \in EventKinds \cap ResultEvents, TellsResults(log, res)
    PROVE  TellsResults(Append(log, ResultEvent(x)), Append(res, x))
<1> DEFINE e == ResultEvent(x)
           long == Append(log, e)
           n == Len(log)
           more == Append(res, x)
           old == Told(log)
           new == Told(long)
<1>1. /\ n \in Nat /\ Len(long) = n + 1 /\ DOMAIN log = 1 .. n /\ DOMAIN long = 1 .. n + 1
      /\ (\A i \in 1 .. n : long[i] = log[i]) /\ long[n + 1] = e
    BY OneLonger
<1>2. /\ Len(res) \in Nat /\ Len(more) = Len(res) + 1 /\ more[Len(res) + 1] = x
      /\ \A i \in 1 .. Len(res) : more[i] = res[i]
    OBVIOUS
<1>3. IsFiniteSet(old) /\ old \subseteq 1 .. n /\ Cardinality(old) = Len(res)
    BY ToldTyped DEF TellsResults
<1> HIDE DEF n, long, more
<1>4. n + 1 \in 1 .. n + 1 /\ 1 .. n \subseteq 1 .. n + 1 /\ n + 1 \notin 1 .. n
      /\ \A i \in 1 .. n + 1 : i \in 1 .. n \/ i = n + 1
    BY <1>1
<1>5. new = old \union {n + 1}
  <2>1. \A i \in 1 .. n : i \in new <=> i \in old
      BY <1>1, <1>4 DEF Told
  <2>2. n + 1 \in new
      BY <1>1, <1>4 DEF Told
  <2>3. new \subseteq 1 .. n + 1
      BY <1>1 DEF Told
  <2> HIDE DEF new, old
  <2> QED BY <1>3, <1>4, <2>1, <2>2, <2>3
<1>6. n + 1 \notin old
    BY <1>3, <1>4
<1>7. \A i \in old : e = e /\ long[i] = ResultEvent(res[Cardinality(old \cap (1 .. i))])
    BY <1>1 DEF TellsResults, Told
<1> HIDE DEF old, new, e
<1>8. Cardinality(new) = Len(more)
    BY <1>2, <1>3, <1>5, <1>6, FS_AddElement
<1>9. ASSUME NEW i \in new
      PROVE  long[i] = ResultEvent(more[Cardinality(new \cap (1 .. i))])
  <2>1. CASE i = n + 1
    <3>1. new \subseteq 1 .. n + 1
        BY <1>3, <1>4, <1>5
    <3>2. new \cap (1 .. n + 1) = new
        BY <3>1
    <3>3. Cardinality(new \cap (1 .. i)) = Len(res) + 1
        BY <1>2, <1>8, <2>1, <3>2
    <3> QED BY <1>1, <1>2, <2>1, <3>3 DEF e
  <2>2. CASE i # n + 1
    <3>1. i \in old /\ i \in 1 .. n /\ i \in Nat
        BY <1>3, <1>5, <2>2
    <3>2. n + 1 \notin 1 .. i
        BY <1>1, <3>1
    <3> DEFINE S == old \cap (1 .. i)
    <3>3. new \cap (1 .. i) = S
        BY <1>5, <3>2
    <3>4. S \in SUBSET old /\ i \in S
        BY <3>1
    <3> HIDE DEF S
    <3>5. Cardinality(S) <= Len(res) /\ IsFiniteSet(S) /\ S # {}
        BY <1>3, <3>4, FS_Subset
    <3>6. Cardinality(S) \in Nat /\ Cardinality(S) # 0
        BY <3>5, FS_CardinalityType, FS_EmptySet
    <3>7. Cardinality(S) \in 1 .. Len(res)
        BY <1>2, <3>5, <3>6
    <3>8. long[i] = ResultEvent(res[Cardinality(S)])
        BY <1>7, <3>1 DEF S
    <3> QED BY <1>2, <3>3, <3>7, <3>8
  <2> QED BY <2>1, <2>2
<1>10. TellsResults(long, more)
    BY <1>8, <1>9 DEF TellsResults, new
<1> QED BY <1>10 DEF long, more, e

\* A log that tells no result tells the empty list.
LEMMA TellsFromStart ==
    ASSUME NEW log, Told(log) = {}
    PROVE  TellsResults(log, <<>>)
BY FS_EmptySet DEF TellsResults

\* What the intention of a worker appends.
LEMMA EventTyped ==
    ASSUME NEW todo \in Todos, todo # "none", NEW res \in Seq(Results)
    PROVE  /\ EventOf(todo, res) \in EventKinds
           /\ EventOf(todo, res) \in EndEvents <=> todo = "end"
           /\ EventOf(todo, res) \in ResultEvents <=> todo = "result"
           /\ todo = "result" => EventOf(todo, res) = ResultEvent(res[Len(res)])
<1>1. \A x : ResultEvent(x) \in ResultEvents
    BY DEF ResultEvent, ResultEvents
<1>2. CASE todo = "result"
    BY <1>1, <1>2 DEF EventOf, ResultEvents, EndEvents, EventKinds
<1>3. CASE todo = "end"
    BY <1>3 DEF EventOf, ResultEvents, EndEvents, EventKinds
<1>4. CASE todo \in {"run_started", "transition_started", "step_started"}
    BY <1>4 DEF EventOf, ResultEvents, EndEvents, EventKinds
<1> QED BY <1>2, <1>3, <1>4 DEF Todos

\* Where AfterResults leaves a worker.
LEMMA AfterResultsPlaced ==
    ASSUME NEW m \in WorkerRecords, Len(m.results) <= NumSteps, m.at \in m.mine
    PROVE  LET k == AfterResults(m) IN
           /\ k \in WorkerRecords /\ Placed(k)
           /\ k.pc = "load" /\ k.at = m.at /\ k.mine = m.mine /\ Saved(k) = m.results
           /\ Len(k.results) >= Len(m.results)
<1> DEFINE k == AfterResults(m)
           res == m.results
<1>1. res \in Seq(Results) /\ Len(res) \in Nat /\ NumSteps \in Nat
    BY Room DEF WorkerRecords
<1>2. "load" \in Pcs /\ {"end", "result", "transition_started", "step_started"} \subseteq Todos
      /\ "skipped" \in Results
    BY DEF Pcs, Todos, Results
<1>3. CASE Len(res) + 1 > NumSteps
  <2>1. k = [m EXCEPT !.pc = "load", !.todo = "end"]
      BY <1>3 DEF AfterResults
  <2> HIDE DEF k
  <2>2. k \in WorkerRecords /\ k.pc = "load" /\ k.todo = "end" /\ k.results = res /\ k.at = m.at
        /\ k.mine = m.mine
      BY <1>2, <2>1 DEF WorkerRecords
  <2> QED BY <1>1, <2>2 DEF k, Placed, Saved
<1>4. CASE ~(Len(res) + 1 > NumSteps) /\ IsSkipped(Steps, res, Len(res) + 1)
  <2> DEFINE more == Append(res, "skipped")
  <2>1. k = [m EXCEPT !.pc = "load", !.todo = "result", !.results = more]
      BY <1>4 DEF AfterResults
  <2>2. more \in Seq(Results) /\ Len(more) = Len(res) + 1 /\ more # <<>>
        /\ SubSeq(more, 1, Len(more) - 1) = res
      BY <1>1, <1>2, FrontOfAppend
  <2> HIDE DEF k, more
  <2>3. k \in WorkerRecords /\ k.pc = "load" /\ k.todo = "result" /\ k.results = more /\ k.at = m.at
        /\ k.mine = m.mine
      BY <1>2, <2>1, <2>2 DEF WorkerRecords
  <2>4. Len(k.results) <= NumSteps /\ Len(k.results) >= Len(res)
      BY <1>1, <1>4, <2>2, <2>3
  <2> QED BY <2>2, <2>3, <2>4 DEF k, Placed, Saved
<1>5. CASE ~(Len(res) + 1 > NumSteps) /\ ~IsSkipped(Steps, res, Len(res) + 1)
  <2> DEFINE todo == IF ResultsIn(res, Outcomes) THEN "transition_started" ELSE "step_started"
  <2>1. k = [m EXCEPT !.pc = "load", !.todo = todo]
      BY <1>5 DEF AfterResults
  <2>2. todo \in {"transition_started", "step_started"}
      OBVIOUS
  <2> HIDE DEF k, todo
  <2>3. k \in WorkerRecords /\ k.pc = "load" /\ k.todo = todo /\ k.results = res /\ k.at = m.at
        /\ k.mine = m.mine
      BY <1>2, <2>1, <2>2 DEF WorkerRecords
  <2>4. Len(res) < NumSteps
      BY <1>1, <1>5
  <2> QED BY <1>1, <2>2, <2>3, <2>4 DEF k, Placed, Saved
<1> QED BY <1>3, <1>4, <1>5

\* A worker whose event is committed goes on to the next thing of its task.
LEMMA AfterAppendPlaced ==
    ASSUME ExecutionInv, NEW w \in Workers, worker[w].pc = "append"
    PROVE  /\ AfterAppend(w) \in WorkerRecords /\ Placed(AfterAppend(w))
           /\ AfterAppend(w).pc \in Underway
           /\ AfterAppend(w).at = worker[w].at /\ AfterAppend(w).mine = worker[w].mine
           /\ AfterAppend(w).pc = "finished" <=> worker[w].todo = "end"
           /\ worker[w].todo # "end" => Saved(AfterAppend(w)) = worker[w].results
           /\ Len(AfterAppend(w).results) >= Len(worker[w].results)
<1> DEFINE m == worker[w]
           k == AfterAppend(w)
<1>1. m \in WorkerRecords /\ Placed(m) /\ Len(m.results) \in Nat /\ m.pc = "append"
  <2>1. m \in WorkerRecords /\ Placed(m) /\ m.results \in Seq(Results)
      BY WorkerTyped
  <2> QED BY <2>1
<1>2. m.at \in m.mine /\ Len(m.results) <= NumSteps /\ m.todo # "none" /\ m.todo \in Todos
    BY <1>1 DEF Placed, Underway, WorkerRecords
<1>3. CASE m.todo \in {"run_started", "result"}
  <2>1. k = AfterResults(m)
      BY <1>3 DEF AfterAppend
  <2> HIDE DEF k, m
  <2> QED BY <1>1, <1>2, <1>3, <2>1, AfterResultsPlaced DEF k, m, Underway
<1>4. CASE m.todo = "transition_started"
  <2>1. k = [m EXCEPT !.pc = "load", !.todo = "step_started"]
      BY <1>4 DEF AfterAppend
  <2>2. Len(m.results) < NumSteps
      BY <1>1, <1>4 DEF Placed
  <2> HIDE DEF k, m
  <2>3. k \in WorkerRecords /\ k.pc = "load" /\ k.todo = "step_started" /\ k.at = m.at
        /\ k.mine = m.mine /\ k.results = m.results
      BY <1>1, <2>1 DEF WorkerRecords, Pcs, Todos
  <2> QED BY <1>1, <1>2, <1>4, <2>2, <2>3 DEF k, m, Placed, Saved, Underway
<1>5. CASE m.todo = "step_started"
  <2>1. k = [m EXCEPT !.pc = "execute"]
      BY <1>5 DEF AfterAppend
  <2>2. Len(m.results) < NumSteps
      BY <1>1, <1>5 DEF Placed
  <2> HIDE DEF k, m
  <2>3. k \in WorkerRecords /\ k.pc = "execute" /\ k.todo = "step_started" /\ k.at = m.at
        /\ k.mine = m.mine /\ k.results = m.results
      BY <1>1, <1>5, <2>1 DEF WorkerRecords, Pcs
  <2> QED BY <1>1, <1>2, <1>5, <2>2, <2>3 DEF k, m, Placed, Saved, Underway
<1>6. CASE m.todo = "end"
  <2>1. k = [m EXCEPT !.pc = "finished"]
      BY <1>6 DEF AfterAppend
  <2> HIDE DEF k, m
  <2>2. k \in WorkerRecords /\ k.pc = "finished" /\ k.at = m.at
        /\ k.mine = m.mine /\ k.results = m.results
      BY <1>1, <2>1 DEF WorkerRecords, Pcs
  <2> QED BY <1>1, <1>2, <1>6, <2>2 DEF k, m, Placed, Underway
<1> QED BY <1>2, <1>3, <1>4, <1>5, <1>6 DEF Todos

\* The verdict of a run is terminal.
LEMMA VerdictTyped ==
    ASSUME NEW res
    PROVE  RunVerdict(res) \in Terminal
BY DEF RunVerdict, Terminal

\* A committed event lengthens the log, numbers the row and saves the results.
LEMMA AppendCommitsKeeps ==
    ASSUME ExecutionInv, NEW w \in Workers, AppendCommits(w)
    PROVE  ExecutionInv'
<1> DEFINE m == worker[w]
           r == m.at
           todo == m.todo
           res == m.results
           k == AfterAppend(w)
           e == EventOf(todo, res)
           row == run'[r]
<1>1. m.pc = "append" /\ Busy(w) /\ Becomes(w, k) /\ ~Refused(r, m.seen)
      /\ events' = [events EXCEPT ![r] = Append(events[r], e)]
    BY DEF AppendCommits, Holds, Busy
<1>2. run' = [run EXCEPT ![r] =
             [status |-> CASE todo = "run_started" -> "running"
                           [] todo = "end" -> RunVerdict(res)
                           [] OTHER -> run[r].status,
              seq |-> m.seen + 1,
              results |-> IF SavesResults(todo) THEN res ELSE run[r].results]]
    BY DEF AppendCommits
<1>3. UNCHANGED <<execution, version, tasks, reader, posts, beats, crashes, claims, effects, abandoned>>
    BY DEF AppendCommits
<1>4. /\ m \in WorkerRecords /\ Placed(m) /\ res \in Seq(Results) /\ todo \in Todos /\ m.seen \in Nat
      /\ m.mine \subseteq Runs
    BY WorkerTyped
<1>5. todo # "none" /\ r \in Runs /\ m.at \in m.mine
    BY <1>1, <1>4 DEF Placed, Underway
<1>6. Live(r) /\ run[r].seq = m.seen
    BY <1>1 DEF Refused
<1> USE DEF ExecutionInv
<1>7. run[r] \in Row /\ events[r] \in Seq(EventKinds) /\ Here(run[r]) /\ Kept(run[r], events[r])
    BY <1>5, <1>6 DEF ExecutionTypes, Logged, Live, Here
<1>8. m.seen = Len(events[r])
    BY <1>6, <1>7 DEF Kept
<1>9. /\ e \in EventKinds
      /\ e \in EndEvents <=> todo = "end"
      /\ e \in ResultEvents <=> todo = "result"
      /\ todo = "result" => e = ResultEvent(res[Len(res)])
    BY <1>4, <1>5, EventTyped
<1>10. /\ k \in WorkerRecords /\ Placed(k) /\ k.pc \in Underway /\ k.at = r /\ k.mine = m.mine
       /\ k.pc = "finished" <=> todo = "end"
       /\ todo # "end" => Saved(k) = res
       /\ Len(k.results) >= Len(res)
    BY <1>1, AfterAppendPlaced
<1>11. RunVerdict(res) \in Terminal
    BY VerdictTyped
<1> HIDE DEF k, e
<1>12. /\ row.status = CASE todo = "run_started" -> "running"
                           [] todo = "end" -> RunVerdict(res)
                           [] OTHER -> run[r].status
       /\ row.seq = m.seen + 1
       /\ row.results = IF SavesResults(todo) THEN res ELSE run[r].results
       /\ \A q \in Runs : q # r => run'[q] = run[q] /\ events'[q] = events[q]
       /\ events'[r] = Append(events[r], e)
    BY <1>1, <1>2, <1>5 DEF ExecutionTypes
<1>13. row.status \in {"running", run[r].status} \union Terminal /\ Here(row)
       /\ (row.status \in Terminal => run[r].status \in Terminal \/ e \in EndEvents)
    BY <1>7, <1>9, <1>11, <1>12 DEF Here, Terminal
<1>14. row \in Row
  <2>1. row.status \in {"queued", "running", "gone"} \union Terminal
      BY <1>7, <1>13 DEF Row
  <2>2. row.results \in Seq(Results) /\ row.seq \in Nat
      BY <1>4, <1>7, <1>12 DEF Row
  <2>3. row = [status |-> row.status, seq |-> row.seq, results |-> row.results]
      BY <1>2, <1>5 DEF ExecutionTypes
  <2> HIDE DEF row
  <2> QED BY <2>1, <2>2, <2>3 DEF Row
<1>15. run' \in [Runs -> Row]
    BY <1>2, <1>5, <1>12, <1>14 DEF ExecutionTypes
<1>16. events' \in [Runs -> Seq(EventKinds)]
  <2>1. Append(events[r], e) \in Seq(EventKinds)
      BY <1>7, <1>9
  <2> QED BY <1>1, <2>1 DEF ExecutionTypes
<1>17. ExecutionTypes'
    BY <1>1, <1>3, <1>10, <1>15, <1>16, WorkerSet DEF ExecutionTypes
<1>18. AllPlaced'
    BY <1>1, <1>10, PlacedStays
<1>19. Begun'
  <2>1. execution # "none" /\ execution # "gone"
      BY <1>5, <1>6, <1>7 DEF Begun, Live
  <2>2. \E q \in Runs : Here(run'[q])
      BY <1>5, <1>13
  <2> QED BY <1>3, <2>1, <2>2 DEF Begun, Here
<1>20. Followed'
  <2>1. Grows(run[r], row, events[r], events'[r])
      BY <1>7, <1>9, <1>12, <1>13 DEF Grows
  <2>2. \A q \in Runs : Grows(run[q], run'[q], events[q], events'[q])
      BY <1>12, <2>1 DEF Grows
  <2> QED BY <1>3, <2>2, FollowedStays
<1>21. Counted'
  <2>1. \A q \in Runs : \A i \in 1 .. NumSteps : Pending(k, q, i) => Pending(m, q, i)
    <3> SUFFICES ASSUME NEW q \in Runs, NEW i \in 1 .. NumSteps, Pending(k, q, i)
                 PROVE  Pending(m, q, i)
        OBVIOUS
    <3>1. r < q \/ (r = q /\ Len(k.results) < i)
        BY <1>10 DEF Pending, Underway
    <3>2. Len(k.results) \in Nat /\ Len(res) \in Nat /\ i \in Nat
        BY <1>4, <1>10 DEF WorkerRecords
    <3>3. r < q \/ (r = q /\ Len(res) < i)
        BY <1>10, <3>1, <3>2
    <3> QED BY <1>1, <3>3 DEF Pending, Underway
  <2>2. \A q \in Runs : \A i \in 1 .. NumSteps : PendingIn(worker', q, i) \subseteq PendingIn(worker, q, i)
      BY <1>1, <1>10, <2>1, PendingOfOne
  <2>3. claims \in Nat
      BY DEF ExecutionTypes
  <2> QED BY <1>3, <2>2, <2>3, CountedStays
<1>22. ASSUME claims <= 1
       PROVE  /\ execution \notin Terminal /\ Ours(m, run) /\ m.mine = Runs
              /\ run[r].status \in {"queued", "running"} /\ run[r].results = Saved(m)
  <2>1. execution \notin Terminal /\ Ours(m, run)
      BY <1>1, <1>22, AloneAtWork
  <2> QED BY <1>1, <1>5, <2>1 DEF Ours, Underway
<1>23. ASSUME claims <= 1 PROVE row.results = res
  <2>1. run[r].results = Saved(m)
      BY <1>22, <1>23
  <2>2. CASE todo \in {"step_started", "result", "end"}
      BY <1>12, <2>2 DEF SavesResults
  <2>3. CASE todo \notin {"step_started", "result", "end"}
    <3>1. row.results = run[r].results
        BY <1>12, <2>3 DEF SavesResults
    <3>2. Saved(m) = res
        BY <2>3 DEF Saved
    <3> QED BY <2>1, <3>1, <3>2
  <2> QED BY <2>2, <2>3
<1>24. Logged'
  <2>1. Kept(row, events'[r])
      BY <1>7, <1>8, <1>9, <1>12, <1>13, KeptLonger
  <2>2. ASSUME claims <= 1 PROVE Tells(row, events'[r])
    <3>1. EndsOnce(events[r], run[r].status) /\ TellsResults(events[r], run[r].results)
        BY <1>5, <1>7, <2>2 DEF Logged, Tells
    <3>2. run[r].status \notin Terminal
        BY <1>22, <2>2 DEF Terminal
    <3>3. e \in EndEvents <=> row.status \in Terminal
        BY <1>9, <1>11, <1>12, <3>2 DEF Terminal
    <3>4. EndsOnce(events'[r], row.status)
        BY <1>7, <1>9, <1>12, <3>1, <3>2, <3>3, EndsOnceLonger
    <3>5. CASE todo # "result"
      <4>1. run[r].results = res
          BY <1>22, <2>2, <3>5 DEF Saved
      <4> QED BY <1>7, <1>9, <1>12, <1>23, <2>2, <3>1, <3>4, <3>5, <4>1, TellsNoMore DEF Tells
    <3>6. CASE todo = "result"
      <4> DEFINE n == Len(res)
                 front == SubSeq(res, 1, n - 1)
      <4>1. res # <<>> /\ res \in Seq(Results)
          BY <1>1, <1>4, <3>6 DEF Placed
      <4>2. n \in Nat /\ n > 0 /\ res[n] \in Results
          BY <4>1
      <4>3. front \in Seq(Results) /\ Append(front, res[n]) = res
          BY <4>1, <4>2
      <4>4. run[r].results = front
          BY <1>22, <2>2, <3>6 DEF Saved
      <4>5. e = ResultEvent(res[n]) /\ ResultEvent(res[n]) \in EventKinds \cap ResultEvents
          BY <1>9, <3>6
      <4> HIDE DEF front, n
      <4>6. TellsResults(Append(events[r], ResultEvent(res[n])), Append(front, res[n]))
          BY <1>7, <3>1, <4>2, <4>3, <4>4, <4>5, TellsOneMore
      <4>7. TellsResults(events'[r], row.results)
          BY <1>12, <1>23, <2>2, <4>3, <4>5, <4>6
      <4> QED BY <3>4, <4>7 DEF Tells
    <3> QED BY <3>5, <3>6
  <2>3. \A q \in Runs : q # r => Kept(run'[q], events'[q])
                                 /\ (claims <= 1 => Tells(run'[q], events'[q]))
      BY <1>12 DEF Logged
  <2> QED BY <1>3, <2>1, <2>2, <2>3 DEF Logged
<1>25. Alone'
  <2>1. claims # 0 /\ (claims <= 1 => \A v \in Workers \ {w} : ~Busy(v))
      BY <1>1, OneBusy
  <2>2. \A v \in Workers : v # w => Busy(v)' = Busy(v)
      BY <1>1, <1>10, WorkerSet DEF Busy
  <2>3. ASSUME claims <= 1, NEW v \in Workers, Busy(v)'
        PROVE  v = w
      BY <2>1, <2>2, <2>3
  <2>4. worker'[w] = k
      BY <1>1, <1>10, WorkerSet
  <2>5. ASSUME claims <= 1 PROVE Ours(k, run')
    <3>1. \A q \in Runs :
            /\ q > r => Unwalked(run[q])
            /\ q < r => run[q].status \in Terminal \union {"gone"}
        BY <1>1, <1>22, <2>5 DEF Ours, Underway
    <3>2. \A q \in Runs : (q > r \/ q < r) => q # r
        BY <1>5, NumRunsAssumption DEF Runs
    <3>3. CASE todo = "end"
      <4>1. row.status \in Terminal /\ k.pc = "finished"
          BY <1>10, <1>11, <1>12, <3>3
      <4> HIDE DEF row
      <4>2. \A q \in Runs : q = r => run'[q].status \in Terminal \union {"gone"}
          BY <4>1 DEF row
      <4> QED BY <1>10, <1>12, <1>22, <2>5, <3>1, <3>2, <4>1, <4>2 DEF Ours
    <3>4. CASE todo # "end"
      <4>1. row.status \in {"queued", "running"} /\ k.pc # "finished" /\ row.results = Saved(k)
          BY <1>10, <1>12, <1>22, <1>23, <2>5, <3>4
      <4>2. \A q \in Runs : q = r => run'[q].status \in {"queued", "running"} /\ run'[q].results = Saved(k)
          BY <4>1
      <4> HIDE DEF row
      <4> QED BY <1>10, <1>12, <1>22, <2>5, <3>1, <3>2, <4>1, <4>2 DEF Ours, Underway
    <3> QED BY <3>3, <3>4
  <2>6. claims <= 1 => execution \notin Terminal
      BY <1>22
  <2> QED BY <1>3, <2>1, <2>3, <2>4, <2>5, <2>6 DEF Alone, Covers
<1> QED BY <1>17, <1>18, <1>19, <1>20, <1>21, <1>24, <1>25

\* A run that is failed with its execution keeps its results.
LEMMA FailedRow ==
    ASSUME NEW row \in Row
    PROVE  LET next == [row EXCEPT !.status = "failed", !.seq = row.seq + 1] IN
           next \in Row /\ next.status = "failed" /\ next.seq = row.seq + 1 /\ next.results = row.results
<1>1. "failed" \in Terminal /\ row.seq + 1 \in Nat
    BY DEF Row, Terminal
<1> QED BY <1>1 DEF Row

\* All unfinished runs of a failed execution end with it, each with its event.
LEMMA FailQueuedExecutionKeeps ==
    ASSUME ExecutionInv, NEW w \in Workers, FailQueuedExecution(w)
    PROVE  ExecutionInv'
<1> DEFINE m == worker[w]
           F == Failed(w)
<1>1. m.pc = "failing" /\ Busy(w)
    BY DEF FailQueuedExecution, Holds, Busy
<1>2. UNCHANGED <<version, tasks, reader, posts, beats, crashes, claims, effects>>
    BY DEF FailQueuedExecution
<1>3. m \in WorkerRecords /\ abandoned \in BOOLEAN /\ m.view \in Views /\ m.again \in BOOLEAN
    BY WorkerTyped
<1>4. claims # 0 /\ execution # "none"
      /\ (claims <= 1 => execution \notin Terminal /\ Covers(execution, run) /\ Ours(m, run))
    BY <1>1, AloneAtWork
<1>5. CASE FailRefused(w)
  <2> DEFINE k == [Free EXCEPT !.pc = "raised"]
  <2>1. UNCHANGED <<execution, run, events>> /\ abandoned' \in BOOLEAN
        /\ (Becomes(w, k) \/ Becomes(w, Free))
      BY <1>3, <1>5 DEF FailQueuedExecution
  <2>2. CASE Becomes(w, Free)
      BY <1>1, <1>2, <1>4, <2>1, <2>2, FreeKeeps
  <2>3. CASE Becomes(w, k)
    <3>1. Free \in WorkerRecords
        BY FreeTyped, ViewTyped DEF Pcs, ExecutionInv
    <3>2. k.pc = "raised" /\ Len(k.results) <= NumSteps
        BY Room DEF Free
    <3>3. k \in WorkerRecords
        BY <3>1 DEF WorkerRecords, Pcs
    <3> HIDE DEF k
    <3>4. Placed(k) /\ \A r, i : ~Pending(k, r, i)
        BY <3>2, <3>3, IdlePlaced
    <3>5. Ours(k, run)
        BY <3>2 DEF Ours, Underway
    <3> QED BY <1>1, <1>2, <1>4, <2>1, <2>3, <3>3, <3>4, <3>5, QuietStep
  <2> QED BY <2>1, <2>2, <2>3
<1>6. CASE ~FailRefused(w)
  <2> USE DEF ExecutionInv
  <2>1. /\ execution' = "failed" /\ Becomes(w, Free) /\ abandoned' = abandoned
        /\ run' = [r \in Runs |->
                 IF r \in F THEN [run[r] EXCEPT !.status = "failed", !.seq = run[r].seq + 1]
                 ELSE run[r]]
        /\ events' = [r \in Runs |->
                 IF r \in F THEN Append(events[r], "run_failed") ELSE events[r]]
      BY <1>6 DEF FailQueuedExecution
  <2>2. execution # "gone" /\ \A r \in F : Live(r)
      BY <1>6 DEF FailRefused, Refused
  <2>3. F \subseteq DOMAIN m.view /\ DOMAIN m.view \subseteq Runs
      BY <1>3 DEF Failed, Views
  <2>4. \A r \in Runs : run[r] \in Row /\ events[r] \in Seq(EventKinds) /\ Kept(run[r], events[r])
      BY DEF ExecutionTypes, Logged
  <2>5. "run_failed" \in EventKinds /\ "run_failed" \in EndEvents /\ "run_failed" \notin ResultEvents
        /\ "failed" \in Terminal
      BY DEF EventKinds, EndEvents, ResultEvents, Terminal
  <2>6. ASSUME NEW r \in F
        PROVE  /\ r \in Runs /\ Here(run[r]) /\ run'[r] \in Row /\ run'[r].status = "failed"
               /\ run'[r].seq = run[r].seq + 1 /\ run'[r].results = run[r].results
               /\ events'[r] = Append(events[r], "run_failed") /\ events'[r] \in Seq(EventKinds)
    <3>1. r \in Runs /\ Here(run[r]) /\ run[r] \in Row
        BY <2>2, <2>3, <2>4 DEF Live, Here
    <3>2. run'[r] = [run[r] EXCEPT !.status = "failed", !.seq = run[r].seq + 1]
        BY <2>1, <3>1
    <3>3. /\ run'[r] \in Row /\ run'[r].status = "failed"
          /\ run'[r].seq = run[r].seq + 1 /\ run'[r].results = run[r].results
        BY <3>1, <3>2, FailedRow
    <3>4. events'[r] = Append(events[r], "run_failed")
        BY <2>1, <3>1
    <3>5. events'[r] \in Seq(EventKinds)
        BY <2>4, <2>5, <3>1, <3>4
    <3> QED BY <3>1, <3>3, <3>4, <3>5
  <2>7. \A r \in Runs : r \notin F => run'[r] = run[r] /\ events'[r] = events[r]
      BY <2>1
  <2>8. Free \in WorkerRecords /\ Free.pc = "free" /\ Len(Free.results) <= NumSteps
    <3>1. Free \in WorkerRecords
        BY FreeTyped, ViewTyped DEF Pcs
    <3> QED BY <3>1, Room DEF Free
  <2> HIDE DEF Free, F
  <2>9. Placed(Free) /\ \A r, i : ~Pending(Free, r, i)
      BY <2>8, IdlePlaced
  <2>10. ExecutionTypes'
    <3>1. run' \in [Runs -> Row] /\ events' \in [Runs -> Seq(EventKinds)]
      <4>1. \A r \in Runs : run'[r] \in Row /\ events'[r] \in Seq(EventKinds)
          BY <2>4, <2>6, <2>7
      <4>2. run' = [r \in Runs |-> run'[r]] /\ events' = [r \in Runs |-> events'[r]]
          BY <2>1
      <4> QED BY <4>1, <4>2
    <3> QED BY <1>2, <1>3, <2>1, <2>5, <2>8, <3>1, WorkerSet DEF ExecutionTypes
  <2>11. AllPlaced'
      BY <2>1, <2>8, <2>9, PlacedStays
  <2>12. Begun'
    <3>1. PICK r \in Runs : Here(run[r])
        BY <2>2 DEF Begun
    <3>2. Here(run'[r])
        BY <2>6, <2>7, <3>1 DEF Here
    <3> QED BY <2>1, <3>2 DEF Begun
  <2>13. Logged'
    <3> SUFFICES ASSUME NEW r \in Runs
                 PROVE  Kept(run'[r], events'[r]) /\ (claims <= 1 => Tells(run'[r], events'[r]))
        BY <1>2 DEF Logged
    <3>1. CASE r \notin F
        BY <2>7, <3>1 DEF Logged
    <3>2. CASE r \in F
      <4>1. Here(run'[r])
          BY <2>6, <3>2 DEF Here
      <4>2. run'[r].seq = Len(events[r]) + 1
          BY <2>4, <2>6, <3>2 DEF Kept
      <4>3. Kept(run'[r], Append(events[r], "run_failed"))
          BY <2>4, <2>5, <2>6, <3>2, <4>1, <4>2, KeptLonger
      <4>4. ASSUME claims <= 1
            PROVE  Tells(run'[r], Append(events[r], "run_failed"))
        <5>1. EndsOnce(events[r], run[r].status) /\ TellsResults(events[r], run[r].results)
            BY <2>6, <3>2, <4>4 DEF Logged, Tells
        <5>2. run[r].status \notin Terminal
            BY <1>1, <1>4, <2>3, <2>6, <3>2, <4>4 DEF Ours, Failed, F
        <5>3. EndsOnce(Append(events[r], "run_failed"), "failed")
            BY <2>4, <2>5, <5>1, <5>2, EndsOnceLonger
        <5>4. TellsResults(Append(events[r], "run_failed"), run[r].results)
            BY <2>4, <2>5, <5>1, TellsNoMore
        <5> QED BY <2>6, <3>2, <5>3, <5>4 DEF Tells
      <4> QED BY <2>6, <3>2, <4>3, <4>4
    <3> QED BY <3>1, <3>2
  <2>14. Followed'
    <3>1. \A r \in Runs : Grows(run[r], run'[r], events[r], events'[r])
        BY <2>5, <2>6, <2>7 DEF Grows
    <3> QED BY <1>2, <3>1, FollowedStays
  <2>15. Counted'
    <3>1. \A r \in Runs : \A i \in 1 .. NumSteps : PendingIn(worker', r, i) \subseteq PendingIn(worker, r, i)
        BY <2>1, <2>8, <2>9, PendingOfOne
    <3>2. claims \in Nat
        BY DEF ExecutionTypes
    <3> QED BY <1>2, <3>1, <3>2, CountedStays
  <2>16. Alone'
    <3>1. claims <= 1 => \A v \in Workers \ {w} : ~Busy(v)
        BY <1>1, OneBusy
    <3>2. claims <= 1 => \A v \in Workers : ~Busy(v)'
        BY ZenonT(30), <2>1, <2>8, <3>1, WorkerSet DEF Busy
    <3>3. ASSUME claims <= 1, NEW r \in Runs, Here(run'[r])
          PROVE  run'[r].status \in Terminal
      <4>1. CASE r \in F
          BY <2>5, <2>6, <4>1
      <4>2. CASE r \notin F
        <5>1. Here(run[r]) /\ run'[r] = run[r]
            BY <2>7, <3>3, <4>2
        <5>2. r \in DOMAIN m.view /\ m.view[r].status = run[r].status
            BY <1>1, <1>4, <3>3, <5>1 DEF Ours
        <5> QED BY <4>2, <5>1, <5>2 DEF Failed, F
      <4> QED BY <4>1, <4>2
    <3> QED BY <1>2, <1>4, <2>1, <3>2, <3>3 DEF Alone, Covers
  <2> QED BY <2>10, <2>11, <2>12, <2>13, <2>14, <2>15, <2>16
<1> QED BY <1>5, <1>6

\* The first POST creates the execution and its runs.
LEMMA EnqueueKeeps ==
    ASSUME ExecutionInv, Enqueue
    PROVE  ExecutionInv'
<1> USE DEF ExecutionInv
<1> DEFINE row == [NoRow EXCEPT !.seq = 1]
           log == <<"run_queued">>
<1>1. /\ execution = "none" /\ posts' = posts + 1 /\ execution' = "queued"
      /\ run' = [r \in Runs |-> row] /\ events' = [r \in Runs |-> log] /\ Submits
    BY DEF Enqueue
<1>2. UNCHANGED <<version, worker, reader, beats, crashes, claims, effects, abandoned>>
    BY DEF Enqueue
<1>3. row \in Row /\ row.status = "queued" /\ row.seq = 1 /\ row.results = <<>>
  <2>1. <<>> \in Seq(Results)
      OBVIOUS
  <2> QED BY <2>1 DEF NoRow, Row
<1>4. log \in Seq(EventKinds) /\ Len(log) = 1 /\ DOMAIN log = 1 .. 1 /\ log[1] = "run_queued"
    BY DEF EventKinds
<1> HIDE DEF row, log
<1>5. claims = 0 /\ \A d \in Readers : reader[d].pc = "away"
    BY <1>1 DEF Begun
<1>6. \A w \in Workers : ~Busy(w)
    BY <1>5 DEF Alone
<1>7. tasks' \in 0 .. Capacity
    BY <1>1, SubmitsTyped DEF ExecutionTypes
<1>8. ExecutionTypes'
    BY <1>1, <1>2, <1>3, <1>4, <1>7 DEF ExecutionTypes
<1>9. AllPlaced'
    BY <1>2 DEF AllPlaced
<1>10. Begun'
  <2>1. 1 \in Runs
      BY NumRunsAssumption DEF Runs
  <2> QED BY <1>1, <1>3, <2>1 DEF Begun, Here
<1>11. Logged'
  <2>1. Kept(row, log)
      BY <1>3, <1>4 DEF Kept, Here, Terminal
  <2>2. log[1] \notin EndEvents /\ log[1] \notin ResultEvents
      BY <1>4 DEF EndEvents, ResultEvents
  <2>3. \A i \in DOMAIN log : i = 1
      BY <1>4
  <2>4. Told(log) = {}
      BY <2>2, <2>3 DEF Told
  <2>5. TellsResults(log, row.results)
      BY <1>3, <2>4, TellsFromStart
  <2>6. EndsOnce(log, row.status)
      BY <1>3, <2>2, <2>3 DEF EndsOnce, Terminal
  <2> QED BY <1>1, <2>1, <2>5, <2>6 DEF Logged, Tells
<1>12. Followed'
    BY <1>2, <1>5 DEF Followed
<1>13. Counted'
    BY <1>2 DEF Counted
<1>14. Alone'
    BY <1>1, <1>2, <1>3, <1>5, <1>6 DEF Alone, Unwalked, Busy, Covers, Terminal
<1> QED BY <1>8, <1>9, <1>10, <1>11, <1>12, <1>13, <1>14

\* A reader is sent what the log has behind its cursor.
LEMMA ReadKeeps ==
    ASSUME ExecutionInv, NEW d \in Readers, Read(d)
    PROVE  ExecutionInv'
<1> DEFINE m == reader[d]
           r == m.of
           new == m.cursor + 1 .. Len(events[r])
           pc == IF run[r].status \in Terminal THEN "ended" ELSE IF new = {} THEN "quiet" ELSE "read"
           closed == [m EXCEPT !.pc = "closed"]
           k == [m EXCEPT !.got = m.got \union new, !.cursor = Len(events[r]), !.pc = pc]
<1>1. m.pc \in {"read", "quiet"}
      /\ UNCHANGED <<execution, run, events, version, tasks, worker, posts, beats, crashes, claims, effects, abandoned>>
    BY DEF Read
<1>2. /\ m \in ReaderRecords /\ r \in Runs /\ m.cursor \in Nat /\ m.got \subseteq Nat
      /\ Follows(m, run[r], events[r]) /\ execution # "none" /\ beats' \in Nat
    BY <1>1, ReaderTyped
<1>3. CASE ~Live(r)
  <2>1. reader' = [reader EXCEPT ![d] = closed]
      BY <1>3 DEF Read
  <2>2. closed \in ReaderRecords /\ closed.pc = "closed" /\ closed.of = r
      BY <1>2 DEF ReaderRecords
  <2> HIDE DEF closed
  <2>3. Follows(closed, run[r], events[r])
      BY <2>2 DEF Follows
  <2> QED BY <1>1, <1>2, <2>1, <2>2, <2>3, ReaderMoves
<1>4. CASE Live(r)
  <2>1. reader' = [reader EXCEPT ![d] = k]
      BY <1>4 DEF Read
  <2>2. Len(events[r]) \in Nat /\ DOMAIN events[r] = 1 .. Len(events[r]) /\ new \subseteq Nat
      BY <1>2 DEF ExecutionInv, ExecutionTypes
  <2>3. pc \in {"quiet", "read", "ended"} /\ (pc = "ended" <=> run[r].status \in Terminal)
      OBVIOUS
  <2>4. \A i \in DOMAIN events[r] : i > m.cursor => i \in new
      BY <1>2, <2>2
  <2> HIDE DEF new, pc
  <2>5. /\ k \in ReaderRecords /\ k.pc = pc /\ k.of = r /\ k.cursor = Len(events[r])
        /\ k.got = m.got \union new
      BY <1>2, <2>2, <2>3 DEF ReaderRecords
  <2> HIDE DEF k
  <2>6. Follows(k, run[r], events[r])
      BY <1>1, <1>2, <2>2, <2>3, <2>4, <2>5 DEF Follows
  <2> QED BY <1>1, <1>2, <2>1, <2>5, <2>6, ReaderMoves
<1> QED BY <1>3, <1>4

\* Numbers of events say nothing of what was walked.
LEMMA AloneSame ==
    ASSUME Alone, worker' = worker, claims' = claims, execution' = execution,
           \A r \in Runs : run'[r].status = run[r].status /\ run'[r].results = run[r].results
    PROVE  Alone'
<1>1. \A w \in Workers : Busy(w)' = Busy(w)
    BY DEF Busy
<1>2. \A w \in Workers : Ours(worker[w], run) => Ours(worker[w], run')
    BY DEF Ours, Unwalked, Here
<1>3. Covers(execution, run) => Covers(execution, run')
    BY DEF Covers, Here
<1>4. \A r \in Runs : Unwalked(run[r]) => Unwalked(run'[r])
    BY DEF Unwalked
<1> QED BY <1>1, <1>2, <1>3, <1>4 DEF Alone

\* A heartbeat appends an event and moves the cursor behind it.
LEMMA HeartbeatKeeps ==
    ASSUME ExecutionInv, NEW d \in Readers, Heartbeat(d)
    PROVE  ExecutionInv'
<1> DEFINE m == reader[d]
           r == m.of
           next == run[r].seq + 1
<1>1. m.pc = "quiet" /\ beats' = beats + 1
      /\ UNCHANGED <<execution, version, tasks, worker, posts, crashes, claims, effects, abandoned>>
    BY DEF Heartbeat
<1>2. /\ m \in ReaderRecords /\ r \in Runs /\ m.cursor \in Nat /\ m.got \subseteq Nat
      /\ Follows(m, run[r], events[r]) /\ execution # "none" /\ beats' \in Nat
    BY <1>1, ReaderTyped
<1>3. CASE ~Live(r) \/ HasEnded(r)
  <2> DEFINE pc == IF Live(r) THEN ReadsAgain ELSE "closed"
             k == [m EXCEPT !.pc = pc]
  <2>1. reader' = [reader EXCEPT ![d] = k] /\ UNCHANGED <<run, events>>
      BY <1>3 DEF Heartbeat
  <2>2. pc \in {"read", "closed"}
      BY DEF ReadsAgain
  <2> HIDE DEF pc
  <2>3. k \in ReaderRecords /\ k.pc = pc /\ k.of = r /\ k.got = m.got /\ k.cursor = m.cursor
      BY <1>2, <2>2 DEF ReaderRecords
  <2> HIDE DEF k
  <2>4. Follows(k, run[r], events[r])
      BY <1>1, <1>2, <2>2, <2>3 DEF Follows
  <2> QED BY <1>1, <1>2, <2>1, <2>3, <2>4, ReaderMoves
<1>4. CASE Live(r) /\ ~HasEnded(r)
  <2> USE DEF ExecutionInv
  <2> DEFINE k == [m EXCEPT !.pc = "read", !.cursor = next, !.got = m.got \union {next}]
             row == [run[r] EXCEPT !.seq = next]
             long == Append(events[r], "heartbeat")
  <2>1. /\ run' = [run EXCEPT ![r] = row] /\ events' = [events EXCEPT ![r] = long]
        /\ reader' = [reader EXCEPT ![d] = k]
      BY <1>4 DEF Heartbeat
  <2>2. run[r] \in Row /\ events[r] \in Seq(EventKinds) /\ Here(run[r]) /\ Kept(run[r], events[r])
        /\ run[r].status \notin Terminal
      BY <1>2, <1>4 DEF ExecutionTypes, Logged, Live, Here, HasEnded
  <2>3. run[r].seq = Len(events[r]) /\ next \in Nat
      BY <2>2 DEF Kept, Row
  <2> HIDE DEF next
  <2>4. row \in Row /\ row.status = run[r].status /\ row.results = run[r].results /\ row.seq = next
      BY <2>2, <2>3 DEF Row
  <2>5. "heartbeat" \in EventKinds /\ "heartbeat" \notin EndEvents /\ "heartbeat" \notin ResultEvents
      BY DEF EventKinds, EndEvents, ResultEvents
  <2>6. long \in Seq(EventKinds) /\ Len(long) = next
      BY <2>2, <2>3, <2>5, OneLonger DEF next
  <2>7. /\ k \in ReaderRecords /\ k.pc = "read" /\ k.of = r /\ k.cursor = next
      BY <1>2, <2>3 DEF ReaderRecords
  <2> HIDE DEF k, row, long
  <2>8. /\ run' \in [Runs -> Row] /\ run'[r] = row /\ events' \in [Runs -> Seq(EventKinds)]
        /\ events'[r] = long
        /\ \A q \in Runs : q # r => run'[q] = run[q] /\ events'[q] = events[q]
      BY <1>2, <2>1, <2>4, <2>6 DEF ExecutionTypes
  <2>9. /\ reader' \in [Readers -> ReaderRecords] /\ reader'[d] = k
        /\ \A c \in Readers : c # d => reader'[c] = reader[c]
      BY <2>1, <2>7 DEF ExecutionTypes
  <2>10. ExecutionTypes'
      BY <1>1, <1>2, <2>8, <2>9 DEF ExecutionTypes
  <2>11. AllPlaced'
      BY <1>1 DEF AllPlaced
  <2>12. \A q \in Runs : run'[q].status = run[q].status /\ run'[q].results = run[q].results
      BY <2>4, <2>8
  <2>13. Begun'
      BY <1>1, <1>2, <2>12 DEF Begun, Here
  <2>14. Logged'
    <3>1. Kept(row, long)
        BY <2>2, <2>3, <2>4, <2>5, KeptLonger DEF Here, long, next
    <3>2. ASSUME claims <= 1 PROVE Tells(row, long)
      <4>1. EndsOnce(events[r], run[r].status) /\ TellsResults(events[r], run[r].results)
          BY <1>2, <2>2, <3>2 DEF Logged, Tells
      <4>2. EndsOnce(long, row.status)
          BY <2>2, <2>4, <2>5, <4>1, EndsOnceLonger DEF long
      <4>3. TellsResults(long, row.results)
          BY <2>2, <2>4, <2>5, <4>1, TellsNoMore DEF long
      <4> QED BY <4>2, <4>3 DEF Tells
    <3> QED BY <1>1, <2>8, <3>1, <3>2 DEF Logged
  <2>15. Followed'
    <3> SUFFICES ASSUME NEW c \in Readers, reader'[c].pc # "away"
                 PROVE  reader'[c].of \in Runs
                        /\ Follows(reader'[c], run'[reader'[c].of], events'[reader'[c].of])
        BY DEF Followed
    <3>1. CASE c = d
      <4>1. next <= Len(long)
          BY <2>3, <2>6
      <4>2. Follows(k, row, long)
          BY <2>2, <2>4, <2>7, <4>1 DEF Follows
      <4> QED BY <1>2, <2>7, <2>8, <2>9, <3>1, <4>2
    <3>2. CASE c # d
      <4>1. /\ reader'[c] = reader[c] /\ reader[c] \in ReaderRecords /\ reader[c].of \in Runs
            /\ Follows(reader[c], run[reader[c].of], events[reader[c].of])
          BY <2>9, <3>2, ReaderTyped
      <4>2. CASE reader[c].of = r
        <5>1. Follows(reader[c], row, long)
            BY <2>2, <2>4, <2>5, <4>1, <4>2, FollowsLonger DEF long
        <5> QED BY <2>8, <4>1, <4>2, <5>1
      <4>3. CASE reader[c].of # r
          BY <2>8, <4>1, <4>3
      <4> QED BY <4>2, <4>3
    <3> QED BY <3>1, <3>2
  <2>16. Counted'
      BY <1>1 DEF Counted
  <2>17. Alone'
      BY <1>1, <2>12, AloneSame
  <2> QED BY <2>10, <2>11, <2>13, <2>14, <2>15, <2>16, <2>17
<1> QED BY <1>3, <1>4

\* A run that has ended is deleted, and the last one takes its execution along.
LEMMA DeleteRunKeeps ==
    ASSUME ExecutionInv, NEW r \in Runs, DeleteRun(r)
    PROVE  ExecutionInv'
<1> USE DEF ExecutionInv
<1> DEFINE row == [NoRow EXCEPT !.status = "gone"]
<1>1. /\ Live(r) /\ run[r].status \in Terminal
      /\ run' = [run EXCEPT ![r] = row] /\ events' = [events EXCEPT ![r] = <<>>]
      /\ execution' = IF \A q \in Runs \ {r} : ~Live(q) THEN "gone" ELSE execution
      /\ UNCHANGED <<version, tasks, worker, reader, posts, beats, crashes, claims, effects, abandoned>>
    BY DEF DeleteRun
<1>2. row \in Row /\ row.status = "gone"
  <2>1. <<>> \in Seq(Results)
      OBVIOUS
  <2> QED BY <2>1 DEF NoRow, Row
<1> HIDE DEF row
<1>3. execution # "none" /\ Here(run[r])
    BY <1>1 DEF Live, Here
<1>4. /\ run' \in [Runs -> Row] /\ run'[r] = row
      /\ events' \in [Runs -> Seq(EventKinds)] /\ events'[r] = <<>>
      /\ \A q \in Runs : q # r => run'[q] = run[q] /\ events'[q] = events[q]
    BY <1>1, <1>2 DEF ExecutionTypes
<1>5. execution' \in {"gone", execution}
    BY <1>1
<1>6. ExecutionTypes'
    BY <1>1, <1>4, <1>5 DEF ExecutionTypes
<1>7. AllPlaced'
    BY <1>1 DEF AllPlaced
<1>8. ~Here(run'[r])
    BY <1>2, <1>4 DEF Here
<1>9. Begun'
  <2>1. CASE \A q \in Runs \ {r} : ~Live(q)
    <3>1. \A q \in Runs \ {r} : ~Here(run'[q])
        BY <1>3, <1>4, <2>1 DEF Live, Here
    <3> QED BY <1>1, <1>8, <2>1, <3>1 DEF Begun, Here
  <2>2. CASE \E q \in Runs \ {r} : Live(q)
    <3>1. \E q \in Runs \ {r} : Here(run'[q])
        BY <1>4, <2>2 DEF Live, Here
    <3>2. execution' = execution
        BY <1>1, <2>2
    <3>3. execution # "gone"
        BY <1>3 DEF Begun
    <3> QED BY <1>3, <3>1, <3>2, <3>3 DEF Begun, Here
  <2> QED BY <2>1, <2>2
<1>10. Logged'
  <2>1. Kept(run'[r], events'[r]) /\ Tells(run'[r], events'[r])
      BY <1>4, <1>8 DEF Kept, Tells, EndsOnce
  <2> QED BY <1>1, <1>4, <2>1 DEF Logged
<1>11. Followed'
  <2>1. \A q \in Runs : Grows(run[q], run'[q], events[q], events'[q])
      BY <1>4, <1>8 DEF Grows
  <2> QED BY <1>1, <2>1, FollowedStays
<1>12. Counted'
    BY <1>1 DEF Counted
<1>13. Alone'
  <2>1. claims # 0
      BY <1>1 DEF Alone, Unwalked, Terminal
  <2>2. ASSUME claims <= 1, NEW v \in Workers, Busy(v)
        PROVE  execution' \notin Terminal /\ Ours(worker[v], run')
    <3>1. execution \notin Terminal /\ Ours(worker[v], run)
        BY <2>2 DEF Alone
    <3>2. \A q \in Runs : Unwalked(run[q]) => q # r
        BY <1>1 DEF Unwalked, Terminal
    <3>3. \A q \in Runs : run[q].status \in {"queued", "running"} => q # r
        BY <1>1 DEF Terminal
    <3>4. \A q \in Runs : Here(run'[q]) => q # r
        BY <1>8
    <3>5. run'[r].status \in Terminal \union {"gone"}
        BY <1>2, <1>4
    <3>6. worker[v].pc = "claimed" => \A q \in Runs : Unwalked(run'[q])
        BY <1>4, <3>1, <3>2 DEF Ours
    <3>7. worker[v].pc \in Underway =>
              /\ worker[v].mine = Runs
              /\ \A q \in Runs :
                  /\ q > worker[v].at => Unwalked(run'[q])
                  /\ q < worker[v].at => run'[q].status \in Terminal \union {"gone"}
        BY <1>4, <3>1, <3>2, <3>5 DEF Ours
    <3>8. worker[v].pc \in Underway => \A q \in Runs : q = worker[v].at =>
              IF worker[v].pc = "finished" THEN run'[q].status \in Terminal \union {"gone"}
              ELSE run'[q].status \in {"queued", "running"} /\ run'[q].results = Saved(worker[v])
        BY <1>4, <3>1, <3>3, <3>5 DEF Ours
    <3>9. worker[v].pc = "failing" => \A q \in Runs : Here(run'[q]) =>
              q \in DOMAIN worker[v].view /\ worker[v].view[q].status = run'[q].status
        BY <1>4, <3>1, <3>4 DEF Ours
    <3>10. execution' \notin Terminal
        BY <1>5, <3>1 DEF Terminal
    <3>11. Ours(worker[v], run')
        BY <3>6, <3>7, <3>8, <3>9 DEF Ours
    <3> QED BY <3>10, <3>11
  <2>3. ASSUME claims <= 1 PROVE Covers(execution', run')
    <3>1. Covers(execution, run)
        BY <2>3 DEF Alone
    <3>2. CASE execution' = "gone"
        BY <3>2 DEF Covers, Terminal
    <3>3. CASE execution' = execution
        BY <1>4, <1>8, <3>1, <3>3 DEF Covers
    <3> QED BY <1>5, <3>2, <3>3
  <2>4. \A v \in Workers : Busy(v)' = Busy(v)
      BY <1>1 DEF Busy
  <2> QED BY <1>1, <2>1, <2>2, <2>3, <2>4 DEF Alone
<1> QED BY <1>6, <1>7, <1>9, <1>10, <1>11, <1>12, <1>13

-----------------------------------------------------------------------------
(* The theorems                                                              *)

\* The initial states satisfy ExecutionInv.
LEMMA InitExecutionInv ==
    ASSUME InitExecution
    PROVE  ExecutionInv
<1> USE DEF InitExecution
<1>1. NoRow \in Row /\ NoRow.status = "queued" /\ NoRow.seq = 0 /\ NoRow.results = <<>>
  <2>1. <<>> \in Seq(Results)
      OBVIOUS
  <2> QED BY <2>1 DEF NoRow, Row
<1>2. Away \in ReaderRecords /\ Away.pc = "away"
    BY NumRunsAssumption DEF Away, ReaderRecords
<1>3. Free \in WorkerRecords /\ Free.pc = "free" /\ Len(Free.results) <= NumSteps
  <2>1. <<>> \in [{} -> [status : RowStatus, seq : Nat]] /\ {} \in SUBSET Runs
      OBVIOUS
  <2>2. <<>> \in Views
      BY <2>1 DEF Views
  <2>3. Free \in WorkerRecords
      BY <2>2, FreeTyped DEF Pcs
  <2> QED BY <2>3, Room DEF Free
<1> HIDE DEF NoRow, Away, Free
<1>4. Placed(Free) /\ \A r, i : ~Pending(Free, r, i)
    BY <1>3, IdlePlaced
<1>5. <<>> \in Seq(EventKinds) /\ Len(<<>>) = 0 /\ DOMAIN <<>> = {}
    OBVIOUS
<1>6. ExecutionTypes
  <2>1. effects \in [Runs -> [1 .. NumSteps -> Nat]]
      OBVIOUS
  <2>2. 0 \in 0 .. Capacity
      BY CapacityAssumption
  <2>3. /\ run \in [Runs -> Row] /\ events \in [Runs -> Seq(EventKinds)]
        /\ worker \in [Workers -> WorkerRecords] /\ reader \in [Readers -> ReaderRecords]
      BY <1>1, <1>2, <1>3, <1>5
  <2> QED BY <2>1, <2>2, <2>3 DEF ExecutionTypes
<1>7. AllPlaced
    BY <1>4 DEF AllPlaced, Placed
<1>8. Begun
  <2>1. 1 \in Runs
      BY NumRunsAssumption DEF Runs
  <2> QED BY <1>1, <1>2, <2>1 DEF Begun, Here
<1>9. Logged
  <2>1. Told(<<>>) = {}
      BY <1>5 DEF Told
  <2>2. TellsResults(<<>>, <<>>)
      BY <2>1, TellsFromStart
  <2> QED BY <1>1, <1>5, <2>2 DEF Logged, Kept, Here, Tells, EndsOnce, Terminal
<1>10. Followed
    BY <1>2 DEF Followed
<1>11. Counted
  <2> SUFFICES ASSUME NEW r \in Runs, NEW i \in 1 .. NumSteps
               PROVE  effects[r][i] + Cardinality(PendingIn(worker, r, i)) <= claims
      BY DEF Counted
  <2>1. PendingIn(worker, r, i) = {}
      BY <1>4 DEF PendingIn
  <2>2. Cardinality(PendingIn(worker, r, i)) = 0
      BY <2>1, FS_EmptySet
  <2>3. effects[r][i] = 0 /\ claims = 0
      OBVIOUS
  <2> QED BY <2>2, <2>3
<1>12. Alone
    BY <1>1, <1>3 DEF Alone, Busy, Unwalked, Covers, Terminal
<1> QED BY <1>6, <1>7, <1>8, <1>9, <1>10, <1>11, <1>12 DEF ExecutionInv

\* No step of an execution breaks ExecutionInv.
LEMMA NextExecutionInv ==
    ASSUME ExecutionInv, [NextExecution]_executionVars
    PROVE  ExecutionInv'
<1>1. CASE Enqueue
    BY <1>1, EnqueueKeeps
<1>2. CASE RepeatPost
    BY <1>2, RepeatPostKeeps
<1>3. ASSUME NEW w \in Workers, Work(w)
      PROVE  ExecutionInv'
    BY <1>3, TakeTaskKeeps, ContextMissingKeeps, StartExecutionKeeps, LoadKeeps, RenderFailsKeeps,
       AppendCommitsKeeps, AppendRefusedKeeps, RunStepKeeps, NextRunKeeps, FinishExecutionKeeps,
       RaisedKeeps, FailQueuedExecutionKeeps DEF Work
<1>4. CASE Crash
    BY <1>4, CrashKeeps
<1>5. ASSUME NEW d \in Readers, Open(d) \/ Read(d) \/ Heartbeat(d)
      PROVE  ExecutionInv'
    BY <1>5, OpenKeeps, ReadKeeps, HeartbeatKeeps
<1>6. ASSUME NEW r \in Runs, DeleteRun(r)
      PROVE  ExecutionInv'
    BY <1>6, DeleteRunKeeps
<1>7. CASE DeleteScenario
    BY <1>7, DeleteScenarioKeeps
<1>8. CASE UNCHANGED executionVars
    BY <1>8 DEF executionVars, ExecutionInv, ExecutionTypes, AllPlaced, Begun, Logged, Followed,
                Counted, Alone, Busy
<1> QED BY <1>1, <1>2, <1>3, <1>4, <1>5, <1>6, <1>7, <1>8 DEF NextExecution

\* The inductive invariant of an execution, its event logs and its readers.
THEOREM ExecutionInvariance == SpecExecution => []ExecutionInv
<1>1. InitExecution => ExecutionInv
    BY InitExecutionInv
<1>2. ExecutionInv /\ [NextExecution]_executionVars => ExecutionInv'
    BY NextExecutionInv
<1> QED BY <1>1, <1>2, PTL DEF SpecExecution

\* The types of the execution's variables, for any number of runs, workers, readers.
THEOREM ExecutionTypeCorrect == SpecExecution => []ExecutionTypeOK
<1>1. ExecutionInv => ExecutionTypeOK
    BY DEF ExecutionInv, ExecutionTypes, ExecutionTypeOK, AllPlaced, Placed, WorkerRecords,
           ReaderRecords, Pcs
<1> QED BY <1>1, ExecutionInvariance, PTL

\* Logs are numbered without gaps by whoever appends, end once with the
\* verdict, and tell the results that the run's row holds.
THEOREM EventsTell == SpecExecution => []EventsTellRun
<1>1. ExecutionInv => EventsTellRun
    BY DEF ExecutionInv, EventsTellRun, Logged, Kept, Tells, Live, Here
<1> QED BY <1>1, ExecutionInvariance, PTL

\* No execution has a verdict that one of its runs belies.
THEOREM VerdictCovers == SpecExecution => []VerdictCoversRuns
<1>1. ExecutionInv => VerdictCoversRuns
    BY DEF ExecutionInv, VerdictCoversRuns, Alone, Covers, Live, Here
<1> QED BY <1>1, ExecutionInvariance, PTL

\* A stream that ended by itself has sent the end of its run.
THEOREM StreamEnds == SpecExecution => []StreamEndsWithTheEnd
<1>1. ExecutionInv => StreamEndsWithTheEnd
  <2> SUFFICES ASSUME ExecutionInv, NEW d \in Readers, reader[d].pc = "ended", Live(reader[d].of)
               PROVE  \E i \in reader[d].got : events[reader[d].of][i] \in EndEvents
      BY DEF StreamEndsWithTheEnd
  <2>1. Here(run[reader[d].of]) /\ Follows(reader[d], run[reader[d].of], events[reader[d].of])
      BY ReaderTyped DEF Live, Here
  <2> QED BY <2>1 DEF Follows
<1> QED BY <1>1, ExecutionInvariance, PTL

\* Refused events make no task execute a step of a run twice.
THEOREM ExecutedOnce == SpecExecution => []ExecutedOncePerClaim
<1>1. ExecutionInv => ExecutedOncePerClaim
  <2> SUFFICES ASSUME ExecutionInv, NEW r \in Runs, NEW i \in 1 .. NumSteps
               PROVE  effects[r][i] <= claims
      BY DEF ExecutedOncePerClaim
  <2> DEFINE p == Cardinality(PendingIn(worker, r, i))
  <2>1. p \in Nat /\ effects[r][i] \in Nat /\ claims \in Nat /\ effects[r][i] + p <= claims
      BY PendingFinite DEF ExecutionInv, ExecutionTypes, Counted
  <2> HIDE DEF p
  <2> QED BY <2>1
<1> QED BY <1>1, ExecutionInvariance, PTL
====
