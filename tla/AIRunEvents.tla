------------------------------ MODULE AIRunEvents ------------------------------
(***************************************************************************)
(* An observable AI skill run: the in-memory event store, the worker's task *)
(* and one SSE subscriber that reconnects (ai_run_event_service.py,         *)
(* ai_skill_run_service.py, routers/ai.py).  Every method of the store is   *)
(* one critical section of its condition.                                   *)
(***************************************************************************)
EXTENDS Integers, Sequences

CONSTANTS MaxSteps   \* bound: events a skill emits between start and end

ASSUME StepsAssumption == MaxSteps \in Nat

VARIABLES
    skillRun,    \* status and events of the run, or no run
    skillTask,   \* the worker's task: none, queued, running, ended
    subscriber   \* events received and the state of its stream

skillVars == <<skillRun, skillTask, subscriber>>

TerminalRunStatuses == {"completed", "failed"}
NoSkillRun == [status |-> "none", events |-> <<>>]
NoStream == [state |-> "closed", sequence |-> 0, batch |-> <<>>, status |-> "none"]

InitSkillRun ==
    /\ skillRun = NoSkillRun
    /\ skillTask = "none"
    /\ subscriber = [received |-> <<>>, stream |-> NoStream, ended |-> FALSE]

-----------------------------------------------------------------------------
Emit(status, event) ==
    skillRun' = [status |-> status, events |-> Append(skillRun.events, event)]

(* The run is stored and handed to the worker, which may be full: 503, and  *)
(* the run stays queued.                                                    *)
CreateSkillRun(accepted) ==
    /\ skillRun.status = "none"
    /\ Emit("queued", "run.queued")
    /\ skillTask' = IF accepted THEN "queued" ELSE "none"
    /\ UNCHANGED subscriber

StartSkillRun ==
    /\ skillTask = "queued"
    /\ Emit("running", "run.started")
    /\ skillTask' = "running"
    /\ UNCHANGED subscriber

EmitStep ==
    /\ skillTask = "running" /\ Len(skillRun.events) < MaxSteps + 2
    /\ Emit(skillRun.status, "step")
    /\ UNCHANGED <<skillTask, subscriber>>

(* Mutant: an exception is emitted as an event and changes nothing else.    *)
EndInEvent(status) == "running"

EndStatus(status) == status

EndSkillRun(status, event) ==
    /\ skillTask = "running"
    /\ Emit(EndStatus(status), event)
    /\ skillTask' = "ended"
    /\ UNCHANGED subscriber

-----------------------------------------------------------------------------
Received == Len(subscriber.received)

(* 404 for a run the store does not have.                                   *)
Subscribe ==
    /\ skillRun.status # "none" /\ subscriber.stream.state = "closed" /\ ~subscriber.ended
    /\ subscriber' = [subscriber EXCEPT !.stream =
          [NoStream EXCEPT !.state = "waiting", !.sequence = Received]]
    /\ UNCHANGED <<skillRun, skillTask>>

(* wait_for_events: events and status together; on a timeout no events, and *)
(* the stream sends a heartbeat.                                            *)
WaitForEvents ==
    /\ subscriber.stream.state = "waiting"
    /\ subscriber' = [subscriber EXCEPT !.stream =
          [state |-> "sending", sequence |-> @.sequence, status |-> skillRun.status,
           batch |-> SubSeq(skillRun.events, @.sequence + 1, Len(skillRun.events))]]
    /\ UNCHANGED <<skillRun, skillTask>>

Send ==
    /\ subscriber.stream.state = "sending" /\ subscriber.stream.batch # <<>>
    /\ subscriber' = [subscriber EXCEPT
          !.received = Append(@, Head(subscriber.stream.batch)),
          !.stream = [@ EXCEPT !.sequence = @ + 1, !.batch = Tail(@)]]
    /\ UNCHANGED <<skillRun, skillTask>>

EndBatch ==
    /\ subscriber.stream.state = "sending" /\ subscriber.stream.batch = <<>>
    /\ subscriber' = IF subscriber.stream.status \in TerminalRunStatuses
                     THEN [subscriber EXCEPT !.stream = NoStream, !.ended = TRUE]
                     ELSE [subscriber EXCEPT !.stream.state = "waiting"]
    /\ UNCHANGED <<skillRun, skillTask>>

Drop ==
    /\ subscriber.stream.state # "closed"
    /\ subscriber' = [subscriber EXCEPT !.stream = NoStream]
    /\ UNCHANGED <<skillRun, skillTask>>

SkillTaskStep ==
    \/ StartSkillRun \/ EmitStep
    \/ EndSkillRun("completed", "run.completed")
    \/ EndSkillRun("failed", "run.failed")

StreamStep == WaitForEvents \/ Send \/ EndBatch

NextSkillRun ==
    \/ \E accepted \in BOOLEAN : CreateSkillRun(accepted)
    \/ SkillTaskStep \/ Subscribe \/ StreamStep \/ Drop

FairSkillRun == WF_skillVars(SkillTaskStep) /\ WF_skillVars(StreamStep)

-----------------------------------------------------------------------------
(* A stream of an accepted run that is not dropped ends, and one that ended *)
(* has delivered the events of the run, each once, its last one included.   *)
SkillStreamEnds ==
    /\ skillTask = "queued" /\ subscriber.stream.state # "closed"
          ~> subscriber.stream.state = "closed"
    /\ [](subscriber.ended =>
             /\ subscriber.received = skillRun.events
             /\ subscriber.received[Received] \in {"run.completed", "run.failed"})
=============================================================================
