--------------------------- MODULE AgentRunProofs ---------------------------
(***************************************************************************)
(* Theorems about AgentRun, for any number of resume requests, iterations    *)
(* and deltas.                                                               *)
(***************************************************************************)
EXTENDS AgentRun, TLAPS

-----------------------------------------------------------------------------
(* The inductive invariant *)

(* A session that deals with a tool request is not in its last iteration,    *)
(* and one that has not begun has read nothing.                              *)
Sound(s) ==
    /\ s \in Session
    /\ s.phase = "idle" => s.view = "none"
    /\ s.phase \in {"tool", "invalid", "detected", "guarded", "free", "retry", "observe", "observed"} =>
           s.iteration < MaxIterations
    /\ s.phase \in {"repaired", "recheck"} /\ s.kind \in {"tool", "invalid"} =>
           s.iteration < MaxIterations

(* What a session has in view is the status of the run, as long as the event *)
(* number it knows is free: this is what uq_agent_events_run_seq buys.       *)
Current(s) == s.view # "none" /\ s.fresh => s.view = run

SessionsOK ==
    /\ session \in [Sessions -> Session]
    /\ \A w \in Sessions : Sound(session[w]) /\ Current(session[w])

(* The call of an open block is in the list of blocking calls.               *)
BlockIsListed == block = "open" => "migrating" \in blocking

RowsOK ==
    /\ run \in Statuses
    /\ blocking \subseteq BlockingIds
    /\ guarded \in GuardedStates
    /\ block \in BlockStates

IInv == RowsOK /\ SessionsOK /\ BlockIsListed /\ BlockedDoesNotRun

-----------------------------------------------------------------------------
(* Sessions *)

(* The commit of an event leaves nobody else with a current view.            *)
LEMMA OutdatedSound ==
    ASSUME SessionsOK
    PROVE  /\ Outdated \in [Sessions -> Session]
           /\ \A w \in Sessions :
                  /\ Sound(Outdated[w])
                  /\ Outdated[w].view # "none" => ~Outdated[w].fresh
                  /\ Outdated[w].phase = session[w].phase
                  /\ Outdated[w].view = session[w].view
<1>1. ASSUME NEW w \in Sessions
      PROVE  /\ Outdated[w] = [session[w] EXCEPT !.fresh = (session[w].view = "none")]
             /\ session[w] \in Session
             /\ Sound(session[w])
    BY DEF Outdated, SessionsOK
<1>2. ASSUME NEW w \in Sessions
      PROVE  /\ Outdated[w] \in Session
             /\ Sound(Outdated[w])
             /\ Outdated[w].view # "none" => ~Outdated[w].fresh
             /\ Outdated[w].phase = session[w].phase
             /\ Outdated[w].view = session[w].view
    BY <1>1 DEF Session, Sound
<1> QED BY <1>2 DEF Outdated

(* A session goes on in its transaction.                                     *)
LEMMA ProceedKept ==
    ASSUME SessionsOK, NEW w \in Sessions, NEW s, Sound(s), Current(s), Proceed(w, s), run' = run
    PROVE  SessionsOK'
<1>1. s \in Session
    BY DEF Sound
<1>2. /\ session' \in [Sessions -> Session]
      /\ session'[w] = s
      /\ \A v \in Sessions \ {w} : session'[v] = session[v]
    BY <1>1 DEF SessionsOK, Proceed
<1>3. \A v \in Sessions : Sound(session'[v])
    BY <1>2 DEF SessionsOK
<1>4. \A v \in Sessions : Current(session[v]) /\ Current(s)
    BY DEF SessionsOK
<1>5. \A v \in Sessions : session'[v].view # "none" /\ session'[v].fresh => session'[v].view = run'
    BY <1>2, <1>4 DEF Current
<1> QED BY <1>2, <1>3, <1>5 DEF SessionsOK, Sound, Current

(* A session commits; the others are out of date.                            *)
LEMMA CommitKept ==
    ASSUME SessionsOK, NEW w \in Sessions, NEW s, Sound(s), s.view = "none",
           session' = [Outdated EXCEPT ![w] = s]
    PROVE  SessionsOK'
<1>1. s \in Session
    BY DEF Sound
<1>2. /\ session' \in [Sessions -> Session]
      /\ session'[w] = s
      /\ \A v \in Sessions \ {w} : session'[v] = Outdated[v]
    BY <1>1, OutdatedSound
<1>3. \A v \in Sessions : Sound(session'[v])
    BY <1>2, OutdatedSound
<1>4. \A v \in Sessions : session'[v].view # "none" => ~session'[v].fresh
    BY <1>2, OutdatedSound
<1> QED BY <1>2, <1>3, <1>4 DEF SessionsOK, Sound, Current

(* A request commits; every session is out of date.                          *)
LEMMA OutdatedKept ==
    ASSUME SessionsOK, session' = Outdated
    PROVE  SessionsOK'
<1>1. \A v \in Sessions : Sound(session'[v]) /\ (session'[v].view # "none" => ~session'[v].fresh)
    BY OutdatedSound
<1> QED BY <1>1, OutdatedSound DEF SessionsOK, Sound, Current

(* What a session is after a commit.                                         *)
Committed(s) == [s EXCEPT !.view = "none", !.fresh = TRUE]

(* A commit keeps the sessions' views sound and outdates those of the others. *)
LEMMA CommitsKept ==
    ASSUME SessionsOK, NEW w \in Sessions, NEW s, Sound(Committed(s)), s \in Session, Commits(w, s)
    PROVE  SessionsOK'
<1>1. session' = [Outdated EXCEPT ![w] = Committed(s)]
    BY DEF Commits, Committed
<1>2. Committed(s).view = "none"
    BY DEF Committed, Session
<1> QED BY <1>1, <1>2, CommitKept

(* A new phase, in the same transaction or after a commit.                   *)
LEMMA ToSound ==
    ASSUME SessionsOK, NEW w \in Sessions, NEW p \in Phases \ {"idle"},
           p \in {"tool", "invalid", "detected", "guarded", "free", "retry", "observe", "observed"} =>
               session[w].iteration < MaxIterations,
           p \in {"repaired", "recheck"} /\ session[w].kind \in {"tool", "invalid"} =>
               session[w].iteration < MaxIterations
    PROVE  /\ To(w, p) \in Session
           /\ Sound(To(w, p))
           /\ Current(To(w, p))
           /\ Sound(Committed(To(w, p)))
           /\ Sound([To(w, p) EXCEPT !.view = "none", !.fresh = TRUE])
           /\ Current([To(w, p) EXCEPT !.view = "none", !.fresh = TRUE])
<1> DEFINE s == To(w, p)
           t == [s EXCEPT !.view = "none", !.fresh = TRUE]
<1>1. session[w] \in Session /\ Sound(session[w]) /\ Current(session[w])
    BY DEF SessionsOK
<1>2. /\ s \in Session
      /\ s.phase = p
      /\ s.view = session[w].view
      /\ s.fresh = session[w].fresh
      /\ s.iteration = session[w].iteration
      /\ s.kind = session[w].kind
    BY <1>1 DEF To, Session
<1>3. /\ t \in Session
      /\ t.phase = p
      /\ t.view = "none"
      /\ t.iteration = session[w].iteration
      /\ t.kind = session[w].kind
    BY <1>2 DEF Session
<1>4. Committed(s) = t
    BY DEF Committed
<1> HIDE DEF s, t
<1>5. Sound(s) /\ Current(s)
    BY <1>1, <1>2 DEF Sound, Current
<1>6. Sound(t) /\ Current(t)
    BY <1>1, <1>3 DEF Sound, Current
<1> QED BY <1>2, <1>4, <1>5, <1>6 DEF s, t

(* A session that is over, and one that goes on to the final answer.         *)
LEMMA EndedSound ==
    /\ Ended \in Session /\ Sound(Ended) /\ Current(Ended) /\ Sound(Committed(Ended))
    /\ Ended.view = "none"
    /\ Idle \in Session /\ Sound(Idle) /\ Idle.view = "none"
    /\ Continuing \in Session /\ Sound(Continuing) /\ Sound(Committed(Continuing))
    /\ Continuing.view = "none"
<1>1. /\ Idle \in Session
      /\ Idle.phase = "idle" /\ Idle.view = "none"
    BY ConstantsAssumption DEF Idle, Session, Phases, Answers, Statuses
<1>2. /\ Ended \in Session
      /\ Ended.phase = "ended" /\ Ended.view = "none"
    BY <1>1 DEF Ended, Session, Phases
<1>3. /\ Continuing \in Session
      /\ Continuing.phase = "begin" /\ Continuing.view = "none"
  <2>1. MaxIterations \in 0 .. MaxIterations
      BY ConstantsAssumption
  <2>2. "begin" \in Phases
      BY DEF Phases
  <2> QED BY <1>1, <2>1, <2>2 DEF Continuing, Session
<1>4. ASSUME NEW s \in Session, s.phase \in {"ended", "begin"}, s.view = "none"
      PROVE  Sound(s) /\ Current(s) /\ Sound(Committed(s))
  <2>1. Committed(s) \in Session /\ Committed(s).phase = s.phase /\ Committed(s).view = "none"
      BY DEF Committed, Session
  <2> QED BY <1>4, <2>1 DEF Sound, Current
<1> QED BY <1>1, <1>2, <1>3, <1>4 DEF Sound

-----------------------------------------------------------------------------
(* Steps of a session *)

(* Every step of a session leaves the sessions sound and current.            *)
LEMMA StepSessions ==
    ASSUME SessionsOK, RowsOK, NEW w \in Sessions, Step(w)
    PROVE  SessionsOK'
<1> DEFINE s == session[w]
<1>0. s \in Session /\ Sound(s) /\ Current(s)
    BY DEF SessionsOK
<1>1. CASE Look(w)
  <2> DEFINE t == [s EXCEPT !.view = run, !.fresh = TRUE]
  <2>1. /\ t \in Session /\ t.phase = s.phase /\ t.view = run
        /\ t.iteration = s.iteration /\ t.kind = s.kind
      BY <1>0 DEF Session, RowsOK
  <2>2. Sound(t) /\ Current(t)
      BY <1>0, <1>1, <2>1 DEF Sound, Current, Look
  <2> QED BY <1>1, <2>2, ProceedKept DEF Look
<1>2. CASE Stop(w)
    BY <1>2, EndedSound, ProceedKept DEF Stop
<1>3. CASE Prepare(w)
  <2>1. Sound(To(w, "ask")) /\ Current(To(w, "ask")) /\ To(w, "ask") \in Session /\ Sound(Committed(To(w, "ask")))
      BY ToSound DEF Phases
  <2> QED BY <1>3, <2>1, ProceedKept, CommitsKept DEF Prepare
<1>4. CASE Ask(w)
  <2> DEFINE t == [To(w, "listen") EXCEPT !.held = TRUE, !.deltas = 0]
  <2>1. To(w, "listen") \in Session /\ To(w, "listen").phase = "listen"
      BY <1>0 DEF To, Session, Phases
  <2>2. t \in Session /\ t.phase = "listen"
    <3>1. 0 \in 0 .. MaxDeltas
        BY ConstantsAssumption
    <3> QED BY <2>1, <3>1 DEF Session
  <2>3. Committed(t) \in Session /\ Committed(t).phase = "listen"
      BY <2>2 DEF Committed, Session
  <2>4. Sound(Committed(t))
      BY <2>3 DEF Sound
  <2> QED BY <1>4, <2>2, <2>4, CommitsKept DEF Ask
<1>5. CASE Emit(w)
  <2>1. PICK h \in {s.held, FALSE} : Commits(w, [s EXCEPT !.deltas = @ + 1, !.held = h])
      BY <1>5 DEF Emit
  <2> DEFINE t == [s EXCEPT !.deltas = @ + 1, !.held = h]
  <2>2. s.deltas + 1 \in 0 .. MaxDeltas /\ h \in BOOLEAN
    <3>1. s.deltas \in 0 .. MaxDeltas /\ s.held \in BOOLEAN
        BY <1>0 DEF Session
    <3>2. s.deltas < MaxDeltas
        BY <1>5 DEF Emit
    <3>3. \A n \in 0 .. MaxDeltas : n < MaxDeltas => n + 1 \in 0 .. MaxDeltas
        BY ConstantsAssumption
    <3> HIDE DEF s
    <3> QED BY <3>1, <3>2, <3>3
  <2>3. t \in Session /\ t.phase = "listen"
      BY <1>0, <1>5, <2>2 DEF Session, Emit, Is
  <2>4. Committed(t) \in Session /\ Committed(t).phase = "listen"
      BY <2>3 DEF Committed, Session
  <2>5. Sound(Committed(t))
      BY <2>4 DEF Sound
  <2> QED BY <2>1, <2>3, <2>5, <1>5, CommitsKept DEF Emit
<1>6. CASE ModelError(w)
  <2>1. Sound(To(w, "failing")) /\ Current(To(w, "failing"))
      BY ToSound DEF Phases
  <2> QED BY <1>6, <2>1, ProceedKept DEF ModelError
<1>7. ASSUME NEW answer \in Answers, Hear(w, answer) PROVE SessionsOK'
  <2>1. answer \in {"tool", "invalid"} => s.iteration < MaxIterations
      BY <1>0, <1>7, ConstantsAssumption DEF Hear, Session
  <2>2. CASE s.repair
    <3> DEFINE t == [To(w, "repaired") EXCEPT !.kind = answer]
    <3>1. /\ To(w, "repaired") \in Session /\ To(w, "repaired").phase = "repaired"
          /\ To(w, "repaired").view = s.view /\ To(w, "repaired").fresh = s.fresh
          /\ To(w, "repaired").iteration = s.iteration
        BY <1>0 DEF To, Session, Phases
    <3>2. /\ t \in Session /\ t.phase = "repaired" /\ t.view = s.view /\ t.fresh = s.fresh
          /\ t.iteration = s.iteration /\ t.kind = answer
        BY <3>1 DEF Session
    <3>3. Sound(t) /\ Current(t)
        BY <1>0, <2>1, <3>2 DEF Sound, Current
    <3> QED BY <1>7, <2>2, <3>3, ProceedKept DEF Hear
  <2>3. CASE ~s.repair
    <3>1. answer \in Phases \ {"idle"} /\ answer \notin {"detected", "guarded", "free", "retry", "observe", "observed", "repaired", "recheck"}
        BY DEF Answers, Phases
    <3>2. Sound(To(w, answer)) /\ Current(To(w, answer))
        BY <2>1, <3>1, ToSound
    <3> QED BY <1>7, <2>3, <3>2, ProceedKept DEF Hear
  <2> QED BY <2>2, <2>3
<1>8. CASE AskRepair(w)
  <2> DEFINE t == [To(w, "ask") EXCEPT !.repair = TRUE]
  <2>1. To(w, "ask") \in Session /\ To(w, "ask").phase = "ask"
      BY <1>0 DEF To, Session, Phases
  <2>2. t \in Session /\ t.phase = "ask"
      BY <2>1 DEF Session
  <2>3. Committed(t) \in Session /\ Committed(t).phase = "ask"
      BY <2>2 DEF Committed, Session
  <2>4. Sound(Committed(t))
      BY <2>3 DEF Sound
  <2> QED BY <1>8, <2>2, <2>4, CommitsKept DEF AskRepair
<1>9. CASE Repaired(w)
  <2> DEFINE p == IF s.kind = "invalid" THEN "failing" ELSE "recheck"
             t == [To(w, p) EXCEPT !.repair = FALSE]
  <2>1. /\ To(w, p) \in Session /\ To(w, p).phase = p
        /\ To(w, p).iteration = s.iteration /\ To(w, p).kind = s.kind
      BY <1>0 DEF To, Session, Phases
  <2>2. t \in Session /\ t.phase = p /\ t.iteration = s.iteration /\ t.kind = s.kind
      BY <2>1 DEF Session
  <2>3. /\ Committed(t) \in Session /\ Committed(t).phase = p
        /\ Committed(t).iteration = s.iteration /\ Committed(t).kind = s.kind
      BY <2>2 DEF Committed, Session
  <2>4. Sound(Committed(t))
      BY <1>0, <1>9, <2>3 DEF Sound, Repaired, Is
  <2> QED BY <1>9, <2>2, <2>4, CommitsKept DEF Repaired
<1>10. CASE Recheck(w)
  <2>1. s.kind \in Answers /\ (s.kind \in {"tool", "invalid"} => s.iteration < MaxIterations)
      BY <1>0, <1>10 DEF Recheck, Is, Sound, Session
  <2>2. s.kind \in Phases \ {"idle"} /\ s.kind \notin {"detected", "guarded", "free", "retry", "observe", "observed", "repaired", "recheck"}
      BY <2>1 DEF Answers, Phases
  <2>3. Sound(To(w, s.kind)) /\ Current(To(w, s.kind))
      BY <2>1, <2>2, ToSound
  <2> QED BY <1>10, <2>3, ProceedKept DEF Recheck
<1>11. CASE Release(w)
  <2>1. PICK p \in {"release", "answer"} : Commits(w, [To(w, p) EXCEPT !.deltas = @ + 1])
      BY <1>11 DEF Release
  <2> DEFINE t == [To(w, p) EXCEPT !.deltas = @ + 1]
  <2>2. s.deltas + 1 \in 0 .. MaxDeltas
      BY <1>0, <1>11, ConstantsAssumption DEF Release, Session
  <2>3. To(w, p) \in Session /\ To(w, p).phase = p /\ To(w, p).deltas = s.deltas
      BY <1>0 DEF To, Session, Phases, Answers
  <2>4. t \in Session /\ t.phase = p
      BY <2>2, <2>3 DEF Session
  <2>5. Committed(t) \in Session /\ Committed(t).phase = p
      BY <2>4 DEF Committed, Session
  <2>6. Sound(Committed(t))
      BY <2>5 DEF Sound
  <2> QED BY <2>1, <2>4, <2>6, CommitsKept
<1>12. CASE ReleaseOver(w)
  <2>1. Sound(To(w, "answer")) /\ Current(To(w, "answer"))
      BY ToSound DEF Phases, Answers
  <2> QED BY <1>12, <2>1, ProceedKept DEF ReleaseOver
<1>13. CASE Complete(w) \/ FailRun(w)
    BY <1>13, EndedSound, CommitsKept DEF Complete, FailRun
<1>14. CASE DetectTool(w)
  <2>1. s.iteration < MaxIterations
      BY <1>0, <1>14 DEF DetectTool, Is, Sound
  <2>2. To(w, "detected") \in Session /\ Sound(Committed(To(w, "detected")))
      BY <2>1, ToSound DEF Phases
  <2> QED BY <1>14, <2>2, CommitsKept DEF DetectTool
<1>15. CASE Plan(w)
  <2>1. s.iteration < MaxIterations
      BY <1>0, <1>15 DEF Plan, Is, Sound
  <2>2. \A p \in {"free", "guarded"} : To(w, p) \in Session /\ Sound(Committed(To(w, p)))
      BY <2>1, ToSound DEF Phases
  <2> QED BY <1>15, <2>2, CommitsKept DEF Plan
<1>16. CASE PlanBlocked(w)
  <2>1. Sound(To(w, "failing")) /\ Current(To(w, "failing"))
      BY ToSound DEF Phases
  <2> QED BY <1>16, <2>1, ProceedKept DEF PlanBlocked
<1>17. CASE AwaitHuman(w)
  <2>1. s.iteration < MaxIterations
      BY <1>0, <1>17 DEF AwaitHuman, Is, Sound
  <2>2. To(w, "observed") \in Session /\ Sound(Committed(To(w, "observed")))
      BY <2>1, ToSound DEF Phases
  <2> QED BY <1>17, <2>2, CommitsKept DEF AwaitHuman
<1>18. CASE Execute(w) \/ ExecuteLosesEvents(w)
  <2>1. s.iteration < MaxIterations
      BY <1>0, <1>18 DEF Execute, ExecuteLosesEvents, Is, Sound
  <2>2. To(w, "observe") \in Session /\ Sound(Committed(To(w, "observe")))
      BY <2>1, ToSound DEF Phases
  <2> QED BY <1>18, <2>2, CommitsKept DEF Execute, ExecuteLosesEvents
<1>19. CASE ExecuteCollides(w)
  <2> DEFINE t(p) == [To(w, p) EXCEPT !.view = "none", !.fresh = TRUE]
  <2>1. s.iteration < MaxIterations
      BY <1>0, <1>19 DEF ExecuteCollides, Is, Sound
  <2>2. Sound(t("retry")) /\ Current(t("retry")) /\ Sound(t("failing")) /\ Current(t("failing"))
      BY <2>1, ToSound DEF Phases
  <2> QED BY <1>19, <2>2, ProceedKept DEF ExecuteCollides, Fail
<1>20. CASE Observe(w)
  <2>1. s.iteration < MaxIterations
      BY <1>0, <1>20 DEF Observe, Is, Sound
  <2>2. \A p \in {"observe", "observed"} : To(w, p) \in Session /\ Sound(Committed(To(w, p)))
      BY <2>1, ToSound DEF Phases
  <2> QED BY <1>20, <2>2, CommitsKept DEF Observe
<1>21. CASE NextIteration(w)
  <2> DEFINE t == [To(w, "ask") EXCEPT !.iteration = @ + 1]
  <2>1. s.iteration < MaxIterations
      BY <1>0, <1>21 DEF NextIteration, Is, Sound
  <2>2. s.iteration + 1 \in 0 .. MaxIterations
      BY <1>0, <2>1, ConstantsAssumption DEF Session
  <2>3. /\ To(w, "ask") \in Session /\ To(w, "ask").phase = "ask" /\ To(w, "ask").iteration = s.iteration
        /\ To(w, "ask").view = s.view /\ To(w, "ask").fresh = s.fresh
      BY <1>0 DEF To, Session, Phases
  <2>4. t \in Session /\ t.phase = "ask" /\ t.view = s.view /\ t.fresh = s.fresh
      BY <2>2, <2>3 DEF Session
  <2>5. Sound(t) /\ Current(t)
      BY <1>0, <2>4 DEF Sound, Current
  <2> QED BY <1>21, <2>5, ProceedKept DEF NextIteration
<1>22. CASE WaitForHuman(w) \/ GiveUp(w) \/ ResumeTerminal(w)
    BY <1>22, EndedSound, ProceedKept DEF WaitForHuman, GiveUp, ResumeTerminal
<1>23. CASE Collision(w)
  <2> DEFINE t == [To(w, "failing") EXCEPT !.view = "none", !.fresh = TRUE]
  <2>1. Sound(t) /\ Current(t)
      BY ToSound DEF Phases
  <2> QED BY <1>23, <2>1, ProceedKept DEF Collision, Fail
<1>24. CASE ResumePauses(w)
    BY <1>24, EndedSound, CommitKept DEF ResumePauses
<1>25. CASE ResumeContinues(w)
    BY <1>25, EndedSound, CommitKept DEF ResumeContinues, AfterResume
<1>26. CASE ResumeExecutes(w)
  <2> DEFINE t == [Idle EXCEPT !.phase = "resuming"]
  <2>1. t \in Session /\ t.phase = "resuming" /\ t.view = "none"
      BY EndedSound DEF Session, Phases, Idle
  <2>2. Sound(t)
      BY <2>1 DEF Sound
  <2> QED BY <1>26, <2>1, <2>2, CommitKept DEF ResumeExecutes
<1>27. CASE ResumeFinishes(w)
    BY <1>27, EndedSound, CommitsKept DEF ResumeFinishes, AfterResume
<1> QED
    BY <1>1, <1>2, <1>3, <1>4, <1>5, <1>6, <1>7, <1>8, <1>9, <1>10, <1>11, <1>12, <1>13, <1>14,
       <1>15, <1>16, <1>17, <1>18, <1>19, <1>20, <1>21, <1>22, <1>23, <1>24, <1>25, <1>26, <1>27
    DEF Step

(* The rows are left alone, or written with a status that is not running,    *)
(* unless nothing is left that blocks the run.                               *)
RowInv == RowsOK /\ BlockIsListed /\ BlockedDoesNotRun

(* A resume does not set a run with an open block running. *)
LEMMA ResumedRows ==
    ASSUME RowInv, Resumed, UNCHANGED <<guarded, block>>
    PROVE  RowInv'
<1>1. blocking' = Remaining /\ Remaining \subseteq blocking
    BY DEF Resumed, Remaining
<1>2. run' \in {"running", "needs_human"} /\ (run' = "running" => Remaining = {})
    BY DEF Resumed
<1>3. block = "open" => "migrating" \in Remaining
    BY DEF RowInv, BlockIsListed, Remaining
<1> QED BY <1>1, <1>2, <1>3 DEF RowInv, RowsOK, BlockIsListed, BlockedDoesNotRun, Statuses

(* No step of a session leaves a run with an open block running. *)
LEMMA StepRows ==
    ASSUME RowInv, NEW w \in Sessions, Step(w)
    PROVE  RowInv'
<1> USE DEF RowInv, RowsOK, BlockIsListed, BlockedDoesNotRun
<1>1. CASE UNCHANGED <<run, blocking, guarded, block>>
    BY <1>1
<1>2. CASE Complete(w) \/ FailRun(w) \/ ResumePauses(w)
    BY <1>2 DEF Complete, FailRun, ResumePauses, Statuses, Terminal
<1>3. CASE Plan(w) \/ ResumeExecutes(w)
    BY <1>3 DEF Plan, ResumeExecutes, GuardedStates
<1>4. CASE AwaitHuman(w)
    BY <1>4 DEF AwaitHuman, BlockingIds, Statuses
<1>5. CASE ExecuteLosesEvents(w)
    BY <1>5 DEF ExecuteLosesEvents, BlockStates
<1>6. CASE ResumeContinues(w) \/ ResumeFinishes(w)
    BY <1>6, ResumedRows DEF ResumeContinues, ResumeFinishes
<1>7. CASE \/ Look(w) \/ Stop(w) \/ Prepare(w) \/ Ask(w) \/ Emit(w) \/ ModelError(w)
           \/ \E answer \in Answers : Hear(w, answer)
           \/ AskRepair(w) \/ Repaired(w) \/ Recheck(w) \/ Release(w) \/ ReleaseOver(w)
    BY <1>1, <1>7 DEF Look, Stop, Prepare, Ask, Emit, ModelError, Hear, AskRepair, Repaired,
       Recheck, Release, ReleaseOver
<1>8. CASE \/ DetectTool(w) \/ PlanBlocked(w) \/ Execute(w) \/ ExecuteCollides(w) \/ Observe(w)
           \/ NextIteration(w) \/ WaitForHuman(w) \/ Collision(w) \/ GiveUp(w) \/ ResumeTerminal(w)
    BY <1>1, <1>8 DEF DetectTool, PlanBlocked, Execute, ExecuteCollides, Observe, NextIteration,
       WaitForHuman, Collision, GiveUp, ResumeTerminal
<1> QED BY <1>2, <1>3, <1>4, <1>5, <1>6, <1>7, <1>8 DEF Step

-----------------------------------------------------------------------------
(* Everybody else *)

(* A session begins, or its run could not be submitted.                      *)
LEMMA BeginKept ==
    ASSUME IInv, Start \/ QueueFull \/ \E r \in Resumes : ResumeArrives(r)
    PROVE  IInv'
<1>1. \A w \in Sessions, p \in {"begin", "arrived", "pausing"} : Sound(To(w, p)) /\ Current(To(w, p))
    BY ToSound DEF IInv, Phases
<1>2. Runner \in Sessions /\ Resumes \subseteq Sessions
    BY DEF Sessions
<1>3. CASE Start
  <2>1. SessionsOK'
      BY <1>1, <1>2, <1>3, ProceedKept DEF IInv, Start
  <2> QED BY <1>3, <2>1 DEF Start, IInv, RowsOK, BlockIsListed, BlockedDoesNotRun
<1>4. CASE QueueFull
  <2>1. /\ session' \in [Sessions -> Session]
        /\ session'[Runner] = Ended
        /\ \A v \in Sessions \ {Runner} : session'[v] = session[v]
      BY <1>2, <1>4, EndedSound DEF QueueFull, Proceed, IInv, SessionsOK
  <2>2. ASSUME NEW v \in Sessions PROVE Sound(session'[v]) /\ session'[v].view = "none"
    <3>1. CASE v = Runner
        BY <2>1, <3>1, EndedSound
    <3>2. CASE v # Runner
        BY <1>4, <2>1, <3>2 DEF QueueFull, Is, Sessions, IInv, SessionsOK, Sound
    <3> QED BY <3>1, <3>2
  <2>3. SessionsOK'
      BY <2>1, <2>2 DEF SessionsOK, Sound, Current
  <2> QED BY <1>4, <2>3 DEF QueueFull, IInv, RowsOK, BlockIsListed, BlockedDoesNotRun, Statuses, Terminal
<1>5. ASSUME NEW r \in Resumes, ResumeArrives(r) PROVE IInv'
  <2>1. SessionsOK'
      BY <1>1, <1>2, <1>5, ProceedKept DEF IInv, ResumeArrives
  <2> QED BY <1>5, <2>1 DEF ResumeArrives, IInv, RowsOK, BlockIsListed, BlockedDoesNotRun
<1> QED BY <1>3, <1>4, <1>5

(* A request that writes the run under its lock.                             *)
LEMMA RequestKept ==
    ASSUME IInv, Cancel \/ AppendEvent \/ Decide \/ Block \/ Reconcile \/ ResolveBlock
    PROVE  IInv'
<1>1. session' = Outdated
    BY DEF Cancel, AppendEvent, Decide, Block, Reconcile, ResolveBlock
<1>2. SessionsOK'
    BY <1>1, OutdatedKept DEF IInv
<1>3. RowInv'
    BY DEF IInv, RowInv, RowsOK, BlockIsListed, BlockedDoesNotRun, Cancel, AppendEvent, Decide, Block,
       Reconcile, ResolveBlock, Statuses, Terminal, GuardedStates, BlockStates, BlockingIds
<1> QED BY <1>2, <1>3 DEF IInv, RowInv

-----------------------------------------------------------------------------
(* The theorems *)

(* A run that was just started has no reader and no block.                   *)
LEMMA InitIInv == Init => IInv
<1> SUFFICES ASSUME Init PROVE IInv
    OBVIOUS
<1>1. SessionsOK
    BY EndedSound DEF Init, SessionsOK, Current
<1> QED BY <1>1 DEF Init, IInv, RowsOK, BlockIsListed, BlockedDoesNotRun, Statuses, GuardedStates, BlockStates

(* Every step keeps the invariant.                                           *)
LEMMA NextIInv == IInv /\ [Next]_vars => IInv'
<1> SUFFICES ASSUME IInv, [Next]_vars PROVE IInv'
    OBVIOUS
<1>1. ASSUME NEW w \in Sessions, Step(w) PROVE IInv'
    BY <1>1, StepSessions, StepRows DEF IInv, RowInv
<1>2. CASE UNCHANGED vars
    BY <1>2 DEF vars, IInv, RowsOK, SessionsOK, Sound, Current, BlockIsListed, BlockedDoesNotRun
<1> QED BY <1>1, <1>2, BeginKept, RequestKept DEF Next, Request

(* The inductive invariant holds in every reachable state.                   *)
THEOREM Invariance == Spec => []IInv
BY InitIInv, NextIInv, PTL DEF Spec

(* The state keeps its types; no session counts past the last iteration.     *)
THEOREM TypeCorrect == Spec => []TypeOK
<1>1. IInv => TypeOK
    BY DEF IInv, RowsOK, SessionsOK, TypeOK
<1> QED BY <1>1, Invariance, PTL

(* A run with an open block does not run, although a resume may have been    *)
(* let in before the block was opened (resume_run, _refresh_run_block_state).*)
THEOREM BlockedStops == Spec => []BlockedDoesNotRun
<1>1. IInv => BlockedDoesNotRun
    BY DEF IInv
<1> QED BY <1>1, Invariance, PTL

(* A session whose commit succeeds has the status of the run in view.        *)
LEMMA CommitterSees ==
    ASSUME SessionsOK, NEW w \in Sessions, NEW s \in Session, Commits(w, s)
    PROVE  /\ session[w].view = run
           /\ session'[w].view = "none"
           /\ \A v \in Sessions \ {w} : session'[v].phase = session[v].phase
<1>1. session[w].view = run
    BY DEF Commits, Appends, SessionsOK, Current
<1>2. session' = [Outdated EXCEPT ![w] = [s EXCEPT !.view = "none", !.fresh = TRUE]]
    BY DEF Commits
<1>3. [s EXCEPT !.view = "none", !.fresh = TRUE].view = "none"
    BY DEF Session
<1> QED BY <1>1, <1>2, <1>3, OutdatedSound

(* What a step of a session may do to a terminal run.                        *)
LEMMA StepTerminal ==
    ASSUME IInv, NEW w \in Sessions, Step(w), run \in Terminal, run' # run
    PROVE  Sees(w, {run}) /\ session'[w].view = "none"
<1>1. CASE Complete(w) \/ FailRun(w)
    BY <1>1, EndedSound, CommitterSees DEF Complete, FailRun, IInv, Sees
<1>2. CASE AwaitHuman(w)
  <2>1. To(w, "observed") \in Session
      BY DEF To, IInv, SessionsOK, Session, Phases
  <2> QED BY <1>2, <2>1, CommitterSees DEF AwaitHuman, IInv, Sees
<1>3. CASE ResumeFinishes(w)
    BY <1>3, EndedSound, CommitterSees DEF ResumeFinishes, AfterResume, IInv, Sees
<1>4. CASE ResumePauses(w) \/ ResumeContinues(w)
    BY <1>4 DEF ResumePauses, ResumeContinues
<1>5. CASE run' = run
    BY <1>5
<1>6. CASE \/ Look(w) \/ Stop(w) \/ Prepare(w) \/ Ask(w) \/ Emit(w) \/ ModelError(w)
           \/ \E answer \in Answers : Hear(w, answer)
           \/ AskRepair(w) \/ Repaired(w) \/ Recheck(w) \/ Release(w) \/ ReleaseOver(w)
    BY <1>5, <1>6 DEF Look, Stop, Prepare, Ask, Emit, ModelError, Hear, AskRepair, Repaired,
       Recheck, Release, ReleaseOver
<1>7. CASE \/ DetectTool(w) \/ Plan(w) \/ PlanBlocked(w) \/ Execute(w) \/ ExecuteLosesEvents(w)
           \/ ExecuteCollides(w) \/ Observe(w) \/ NextIteration(w) \/ WaitForHuman(w) \/ Collision(w)
           \/ GiveUp(w) \/ ResumeTerminal(w) \/ ResumeExecutes(w)
    BY <1>5, <1>7 DEF DetectTool, Plan, PlanBlocked, Execute, ExecuteLosesEvents, ExecuteCollides,
       Observe, NextIteration, WaitForHuman, Collision, GiveUp, ResumeTerminal, ResumeExecutes
<1> QED BY <1>1, <1>2, <1>3, <1>4, <1>6, <1>7 DEF Step

(* A terminal status is overwritten only by resolve_block, or by a session   *)
(* that has it in view and did not look (append_event,                       *)
(* uq_agent_events_run_seq).                                                 *)
THEOREM TerminalKept == Spec => TerminalIsNotLost
<1>1. ASSUME IInv, [Next]_vars, run \in Terminal, run' # run
      PROVE  \/ block = "open" /\ block' = "resolved"
             \/ \E w \in Sessions : Sees(w, {run}) /\ session'[w].view = "none"
  <2>1. CASE \E w \in Sessions : Step(w)
      BY <1>1, <2>1, StepTerminal
  <2>2. CASE Start \/ QueueFull \/ \E r \in Resumes : ResumeArrives(r)
      BY <1>1, <2>2 DEF Start, QueueFull, ResumeArrives, Terminal
  <2>3. CASE Cancel \/ AppendEvent \/ Decide \/ Block \/ Reconcile \/ ResolveBlock
      BY <1>1, <2>3 DEF Cancel, AppendEvent, Decide, Block, Reconcile, ResolveBlock
  <2>4. CASE UNCHANGED vars
      BY <1>1, <2>4 DEF vars
  <2> QED BY <1>1, <2>1, <2>2, <2>3, <2>4 DEF Next, Request
<1>2. IInv /\ [Next]_vars =>
          [(run \in Terminal /\ run' # run)
               => \/ block = "open" /\ block' = "resolved"
                  \/ \E w \in Sessions : Sees(w, {run}) /\ session'[w].view = "none"]_vars
    BY <1>1
<1> QED BY <1>2, Invariance, PTL DEF Spec, TerminalIsNotLost

(* A step of a session leaves the phase of every other one alone.            *)
LEMMA StepOthers ==
    ASSUME SessionsOK, NEW w \in Sessions, Step(w), NEW v \in Sessions \ {w}
    PROVE  session'[v].phase = session[v].phase
<1>1. ASSUME NEW s, Proceed(w, s) PROVE session'[v].phase = session[v].phase
    BY <1>1 DEF Proceed, SessionsOK
<1>2. ASSUME NEW s, session' = [Outdated EXCEPT ![w] = s] PROVE session'[v].phase = session[v].phase
    BY <1>2, OutdatedSound
<1>3. ASSUME NEW s, Commits(w, s) PROVE session'[v].phase = session[v].phase
    BY <1>2, <1>3 DEF Commits
<1>4. CASE \/ Look(w) \/ Stop(w) \/ Prepare(w) \/ Ask(w) \/ Emit(w) \/ ModelError(w)
           \/ \E answer \in Answers : Hear(w, answer)
           \/ AskRepair(w) \/ Repaired(w) \/ Recheck(w) \/ Release(w) \/ ReleaseOver(w)
    BY <1>1, <1>3, <1>4 DEF Look, Stop, Prepare, Ask, Emit, ModelError, Hear, AskRepair, Repaired,
       Recheck, Release, ReleaseOver
<1>5. CASE \/ Complete(w) \/ DetectTool(w) \/ Plan(w) \/ PlanBlocked(w) \/ AwaitHuman(w) \/ Execute(w)
           \/ ExecuteLosesEvents(w) \/ ExecuteCollides(w) \/ Observe(w) \/ NextIteration(w)
    BY <1>1, <1>3, <1>5 DEF Complete, DetectTool, Plan, PlanBlocked, AwaitHuman, Execute,
       ExecuteLosesEvents, ExecuteCollides, Observe, NextIteration, Fail
<1>6. CASE \/ WaitForHuman(w) \/ Collision(w) \/ FailRun(w) \/ GiveUp(w) \/ ResumeTerminal(w)
           \/ ResumePauses(w) \/ ResumeContinues(w) \/ ResumeExecutes(w) \/ ResumeFinishes(w)
    BY <1>1, <1>2, <1>3, <1>6 DEF WaitForHuman, Collision, FailRun, GiveUp, ResumeTerminal,
       ResumePauses, ResumeContinues, ResumeExecutes, ResumeFinishes, Fail
<1> QED BY <1>4, <1>5, <1>6 DEF Step

(* Only create_tool_call takes a session from a detected request to a call.  *)
LEMMA OnlyPlanPlans ==
    ASSUME SessionsOK, NEW w \in Sessions, Step(w), Is(w, "detected"),
           session'[w].phase \in {"guarded", "free"}
    PROVE  Plan(w)
<1>1. session[w].phase = "detected" /\ session[w] \in Session
    BY DEF Is, SessionsOK
<1>2. ~Look(w)
  <2>1. SUFFICES ASSUME Look(w) PROVE FALSE
      OBVIOUS
  <2>2. Proceed(w, [session[w] EXCEPT !.view = run, !.fresh = TRUE])
      BY <2>1 DEF Look
  <2>3. session'[w].phase = "detected"
      BY <1>1, <2>2 DEF Proceed, SessionsOK, Session
  <2> QED BY <2>3
<1>3. ~Stop(w)
    BY EndedSound DEF Stop, Proceed, SessionsOK, Ended, Idle
<1>4. ~PlanBlocked(w)
  <2>1. SUFFICES ASSUME PlanBlocked(w) PROVE FALSE
      OBVIOUS
  <2>2. session'[w].phase = "failing"
      BY <1>1, <2>1 DEF PlanBlocked, Proceed, SessionsOK, Session, To
  <2> QED BY <2>2
<1>5. ~Collision(w)
  <2>1. SUFFICES ASSUME Collision(w) PROVE FALSE
      OBVIOUS
  <2>2. session'[w].phase = "failing"
      BY <1>1, <2>1 DEF Collision, Fail, Proceed, SessionsOK, Session, To
  <2> QED BY <2>2
<1>6. CASE \/ Prepare(w) \/ Ask(w) \/ Emit(w) \/ ModelError(w) \/ \E answer \in Answers : Hear(w, answer)
           \/ AskRepair(w) \/ Repaired(w) \/ Recheck(w) \/ Release(w) \/ ReleaseOver(w) \/ Complete(w)
           \/ DetectTool(w) \/ AwaitHuman(w) \/ Execute(w) \/ ExecuteLosesEvents(w) \/ ExecuteCollides(w)
    BY <1>1, <1>6 DEF Is, Prepare, Ask, Emit, ModelError, Hear, AskRepair, Repaired, Recheck, Release,
       ReleaseOver, Complete, DetectTool, AwaitHuman, Execute, ExecuteLosesEvents, ExecuteCollides
<1>7. CASE \/ Observe(w) \/ NextIteration(w) \/ WaitForHuman(w) \/ FailRun(w) \/ GiveUp(w)
           \/ ResumeTerminal(w) \/ ResumePauses(w) \/ ResumeContinues(w) \/ ResumeExecutes(w)
           \/ ResumeFinishes(w)
    BY <1>1, <1>7 DEF Is, Observe, NextIteration, WaitForHuman, FailRun, GiveUp, ResumeTerminal,
       ResumePauses, ResumeContinues, ResumeExecutes, ResumeFinishes
<1> QED BY <1>2, <1>3, <1>4, <1>5, <1>6, <1>7 DEF Step

(* No call is planned for a run that is terminal by then, although the look  *)
(* at it was taken in an earlier snapshot (run, create_tool_call).           *)
THEOREM NoCallForTerminal == Spec => NoCallInTerminalRun
<1>1. ASSUME IInv, [Next]_vars, NEW w \in Sessions, Is(w, "detected"),
             session'[w].phase \in {"guarded", "free"}
      PROVE  run \notin Terminal
  <2>1. CASE Step(w)
    <3>1. Plan(w)
        BY <1>1, <2>1, OnlyPlanPlans DEF IInv
    <3>2. \A p \in {"free", "guarded"} : To(w, p) \in Session
        BY <1>1 DEF To, IInv, SessionsOK, Session, Phases
    <3>3. session[w].view = run
        BY <1>1, <3>1, <3>2, CommitterSees DEF Plan, IInv
    <3> QED BY <3>1, <3>3 DEF Plan
  <2>2. ASSUME NEW v \in Sessions \ {w}, Step(v) PROVE FALSE
      BY <1>1, <2>2, StepOthers DEF IInv, Is
  <2>3. CASE Start \/ QueueFull \/ \E r \in Resumes : ResumeArrives(r)
    <3>1. session'[w].phase = "detected"
        BY <1>1, <2>3 DEF Start, QueueFull, ResumeArrives, Proceed, Is, IInv, SessionsOK
    <3> QED BY <1>1, <3>1
  <2>4. CASE Cancel \/ AppendEvent \/ Decide \/ Block \/ Reconcile \/ ResolveBlock
    <3>1. session' = Outdated
        BY <2>4 DEF Cancel, AppendEvent, Decide, Block, Reconcile, ResolveBlock
    <3> QED BY <1>1, <3>1, OutdatedSound DEF IInv, Is
  <2>5. CASE UNCHANGED vars
      BY <1>1, <2>5 DEF vars, Is
  <2> QED BY <1>1, <2>1, <2>2, <2>3, <2>4, <2>5 DEF Next, Request
<1>2. IInv /\ [Next]_vars =>
          [(\E w \in Sessions : Is(w, "detected") /\ session'[w].phase \in {"guarded", "free"})
               => run \notin Terminal]_vars
    BY <1>1
<1> QED BY <1>2, Invariance, PTL DEF Spec, NoCallInTerminalRun

=============================================================================
