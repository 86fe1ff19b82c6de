---- MODULE ScenarioExecution ----
(***************************************************************************)
(* One manual execution of a scenario, from the POST that queues it to the *)
(* last event of its runs: ScenarioService.enqueue_scenario, the execution *)
(* worker that runs execute_queued_execution, the event log every run      *)
(* keeps, the SSE readers of routers/scenarios.py that append heartbeats   *)
(* to it, and the deletions that may happen meanwhile.                     *)
(*                                                                         *)
(* A worker's session keeps the run it has loaded until the next commit,   *)
(* and SELECT ... FOR UPDATE does not refresh an object that is already    *)
(* loaded.  _append_event therefore takes two steps here: Load reads       *)
(* last_event_sequence, Append locks the row and inserts sequence + 1,     *)
(* which the unique key (run_id, sequence) refuses when somebody else has  *)
(* appended in between.                                                    *)
(*                                                                         *)
(* Abstracted: payloads, variables and what a step does (its outcome is    *)
(* chosen).  The worker's walk over the steps is module ScenarioWalk;      *)
(* here it is summed up by the operators of ScenarioGraph.                 *)
(***************************************************************************)
EXTENDS ScenarioGraph, FiniteSets

CONSTANTS
    Steps,       \* the steps of the scenario version executed
    NumRuns,     \* the dataset records, each one run
    Workers,     \* threads of the execution worker
    Readers,     \* SSE connections
    Capacity,    \* max_workers + queue_size
    MaxPosts,    \* bound: requests with the idempotency key
    MaxBeats,    \* bound: heartbeats
    MaxCrashes,  \* bound: restarts of the API process
    CanDelete    \* whether runs and the scenario are deleted

ASSUME StepsAssumption == Steps \in Seq(Step) /\ ExecutionSteps(Steps) /\ Steps # <<>>
ASSUME NumRunsAssumption == NumRuns \in Nat \ {0}
ASSUME WorkersAssumption == IsFiniteSet(Workers)
ASSUME CapacityAssumption == Capacity \in Nat \ {0}
ASSUME BoundsAssumption ==
    /\ {MaxPosts, MaxBeats, MaxCrashes} \subseteq Nat
    /\ CanDelete \in BOOLEAN

VARIABLES
    execution,  \* TestScenarioExecution.status, "none" before, "gone" after
    run,        \* the rows of test_scenario_runs
    events,     \* the rows of test_scenario_run_events, by sequence
    version,    \* whether the scenario (and its version) still exists
    tasks,      \* tasks accepted by the execution worker, not yet started
    worker,     \* what each thread holds
    reader,     \* what each SSE connection holds
    posts, beats, crashes,
    claims,     \* how many tasks found the execution queued
    effects,    \* how often each step of each run was really executed
    abandoned   \* a task died without writing a verdict

executionVars == <<execution, run, events, version, tasks, worker, reader, posts,
          beats, crashes, claims, effects, abandoned>>

Runs == 1 .. NumRuns
NumSteps == Len(Steps)

Terminal == {"passed", "failed", "timeout"}
EndEvents == {"run_completed", "run_failed"}
ResultEvents == {"step_completed", "step_failed", "step_skipped"}
EventKinds == {"run_queued", "run_started", "step_started",
               "transition_started", "heartbeat"} \union EndEvents \union ResultEvents

Row == [status : {"queued", "running", "gone"} \union Terminal,
        seq : Nat, results : Seq(Results)]

\* What a worker is about to append.  "result" stands for the event of the
\* last result, "end" for the event of the verdict.
Todos == {"none", "run_started", "transition_started", "step_started",
          "result", "end"}

Free == [pc |-> "free", at |-> 0, mine |-> {}, results |-> <<>>,
         todo |-> "none", seen |-> 0, view |-> <<>>, again |-> FALSE]

Away == [pc |-> "away", of |-> 0, cursor |-> 0, got |-> {}]

NoRow == [status |-> "queued", seq |-> 0, results |-> <<>>]

InitExecution ==
    /\ execution = "none"
    /\ run = [r \in Runs |-> NoRow]
    /\ events = [r \in Runs |-> <<>>]
    /\ version = TRUE
    /\ tasks = 0
    /\ worker = [w \in Workers |-> Free]
    /\ reader = [d \in Readers |-> Away]
    /\ posts = 0 /\ beats = 0 /\ crashes = 0
    /\ claims = 0
    /\ effects = [r \in Runs |-> [i \in 1 .. NumSteps |-> 0]]
    /\ abandoned = FALSE

Live(r) == execution # "none" /\ run[r].status # "gone"

Busy(w) == worker[w].pc # "free"

-----------------------------------------------------------------------------
(* The request *)

(***************************************************************************)
(* POST .../execute: the first request with the key inserts the execution, *)
(* its runs and their run_queued events in one transaction; a later one    *)
(* finds the execution.  Either submits a task while the status is still   *)
(* queued, and answers 503 when the execution worker is full.              *)
(***************************************************************************)
Submits ==
    IF tasks + Cardinality({w \in Workers : Busy(w)}) < Capacity
    THEN tasks' = tasks + 1
    ELSE UNCHANGED tasks

Enqueue ==
    /\ execution = "none"
    /\ version
    /\ posts < MaxPosts
    /\ posts' = posts + 1
    /\ execution' = "queued"
    /\ run' = [r \in Runs |-> [NoRow EXCEPT !.seq = 1]]
    /\ events' = [r \in Runs |-> <<"run_queued">>]
    /\ Submits
    /\ UNCHANGED <<version, worker, reader, beats, crashes, claims, effects,
                   abandoned>>

RepeatPost ==
    /\ execution \notin {"none", "gone"}
    /\ version
    /\ posts < MaxPosts
    /\ posts' = posts + 1
    /\ IF execution = "queued" THEN Submits ELSE UNCHANGED tasks
    /\ UNCHANGED <<execution, run, events, version, worker, reader, beats,
                   crashes, claims, effects, abandoned>>

-----------------------------------------------------------------------------
(* The worker *)

Holds(w, pc) == worker[w].pc = pc

Becomes(w, next) == worker' = [worker EXCEPT ![w] = next]

Moves(w, pc) == Becomes(w, [worker[w] EXCEPT !.pc = pc])

\* execute_queued_execution reads the status; nothing locks the row.
TakeTask(w) ==
    /\ ~Busy(w)
    /\ tasks > 0
    /\ tasks' = tasks - 1
    /\ IF execution = "queued"
       THEN Moves(w, "claimed") /\ claims' = claims + 1
       ELSE UNCHANGED <<worker, claims>>
    /\ UNCHANGED <<execution, run, events, version, reader, posts, beats,
                   crashes, effects, abandoned>>

\* What _fail_queued_execution loads: the rows of the runs that exist.
View == [r \in {q \in Runs : Live(q)} |-> [status |-> run[r].status, seq |-> run[r].seq]]

\* The user or the version no longer exists: the execution fails in the same
\* session; if that raises, execute_queued_execution tries once more.
ContextMissing(w) ==
    /\ Holds(w, "claimed")
    /\ ~version
    /\ Becomes(w, [Free EXCEPT !.pc = "failing", !.view = View, !.again = TRUE])
    /\ UNCHANGED <<execution, run, events, version, tasks, reader, posts,
                   beats, crashes, claims, effects, abandoned>>

\* The runs are walked in the order of their ids.
First(runs) == CHOOSE r \in runs : \A q \in runs : r <= q

\* Set the execution running, commit, load its runs in order of id.  The
\* status is not looked at again; the version is read again after the commit,
\* which raises when the scenario was deleted meanwhile.
StartExecution(w) ==
    /\ Holds(w, "claimed")
    /\ IF execution = "gone"
       THEN Moves(w, "raised") /\ UNCHANGED execution
       ELSE LET mine == {r \in Runs : Live(r)}
                first == First(mine)
            IN  /\ execution' = "running"
                /\ IF version
                   THEN Becomes(w, [Free EXCEPT !.pc = "append", !.mine = mine,
                          !.at = first, !.todo = "run_started", !.seen = run[first].seq])
                   ELSE Moves(w, "raised")
    /\ UNCHANGED <<run, events, version, tasks, reader, posts, beats, crashes,
                   claims, effects, abandoned>>

\* Reading an attribute of the run after a commit reloads its row.
Load(w) ==
    /\ Holds(w, "load")
    /\ IF Live(worker[w].at)
       THEN Becomes(w, [worker[w] EXCEPT !.pc = "append", !.seen = run[worker[w].at].seq])
       ELSE Moves(w, "raised")
    /\ UNCHANGED <<execution, run, events, version, tasks, reader, posts,
                   beats, crashes, claims, effects, abandoned>>

\* The step has a result, whose event comes next.
WithResult(w, result) ==
    [worker[w] EXCEPT !.pc = "load", !.todo = "result", !.results = Append(@, result)]

\* A step that cannot be rendered fails before its step_started event.
RenderFails(w) ==
    /\ Holds(w, "append")
    /\ worker[w].todo = "step_started"
    /\ Becomes(w, WithResult(w, "failed"))
    /\ UNCHANGED <<execution, run, events, version, tasks, reader, posts,
                   beats, crashes, claims, effects, abandoned>>

\* Where the walk stands after the results: the next step is skipped, or
\* started (after a transition when a step was executed before), or none is left.
AfterResults(next) ==
    LET res == next.results
        i == Len(res) + 1
    IN  IF i > NumSteps THEN [next EXCEPT !.pc = "load", !.todo = "end"]
        ELSE IF IsSkipped(Steps, res, i)
        THEN [next EXCEPT !.pc = "load", !.todo = "result",
                          !.results = Append(res, "skipped")]
        ELSE [next EXCEPT !.pc = "load",
                          !.todo = IF ResultsIn(res, Outcomes)
                                   THEN "transition_started" ELSE "step_started"]

ResultEvent(result) ==
    CASE result = "passed" -> "step_completed"
      [] result = "skipped" -> "step_skipped"
      [] OTHER -> "step_failed"

EventOf(todo, results) ==
    CASE todo = "result" -> ResultEvent(results[Len(results)])
      [] todo = "end" ->
            IF RunVerdict(results) = "passed" THEN "run_completed" ELSE "run_failed"
      [] OTHER -> todo

\* The unique key refuses the event: somebody has appended since the row was
\* loaded, or the run is gone.
Refused(r, seen) == ~Live(r) \/ run[r].seq # seen

\* What the worker does next once its event is committed.
AfterAppend(w) ==
    CASE worker[w].todo \in {"run_started", "result"} -> AfterResults(worker[w])
      [] worker[w].todo = "transition_started" ->
            [worker[w] EXCEPT !.pc = "load", !.todo = "step_started"]
      [] worker[w].todo = "step_started" -> [worker[w] EXCEPT !.pc = "execute"]
      [] worker[w].todo = "end" -> [worker[w] EXCEPT !.pc = "finished"]

\* Mutant: the results are only saved with the verdict.
SavedAtEnd(todo) == todo = "end"

\* The events before which the step results are set on the run.
SavesResults(todo) == todo \in {"step_started", "result", "end"}

\* _append_event commits, and with it what was set on the run since the last
\* commit: its status at both ends, its step results.
AppendCommits(w) ==
    LET r == worker[w].at
        todo == worker[w].todo
        res == worker[w].results
    IN  /\ Holds(w, "append")
        /\ ~Refused(r, worker[w].seen)
        /\ events' = [events EXCEPT ![r] = Append(@, EventOf(todo, res))]
        /\ run' = [run EXCEPT ![r] =
             [status |-> CASE todo = "run_started" -> "running"
                           [] todo = "end" -> RunVerdict(res)
                           [] OTHER -> @.status,
              seq |-> worker[w].seen + 1,
              results |-> IF SavesResults(todo) THEN res ELSE @.results]]
        /\ Becomes(w, AfterAppend(w))
        /\ UNCHANGED <<execution, version, tasks, reader, posts, beats,
                       crashes, claims, effects, abandoned>>

\* Mutant: a step whose result was refused is tried again.
TriesAgain(w) ==
    IF worker[w].todo = "result"
    THEN [worker[w] EXCEPT !.pc = "load", !.todo = "step_started",
                           !.results = SubSeq(@, 1, Len(@) - 1)]
    ELSE [worker[w] EXCEPT !.pc = "raised"]

(***************************************************************************)
(* The step_started event is appended inside _execute_step's try: refused, *)
(* it fails the step, which is not executed.  Any other event refused ends *)
(* the task.                                                               *)
(***************************************************************************)
AfterRefusal(w) ==
    IF worker[w].todo = "step_started"
    THEN WithResult(w, "failed")
    ELSE [worker[w] EXCEPT !.pc = "raised"]

AppendRefused(w) ==
    /\ Holds(w, "append")
    /\ Refused(worker[w].at, worker[w].seen)
    /\ Becomes(w, AfterRefusal(w))
    /\ UNCHANGED <<execution, run, events, version, tasks, reader, posts,
                   beats, crashes, claims, effects, abandoned>>

RunStep(w) ==
    /\ Holds(w, "execute")
    /\ effects' = [effects EXCEPT
           ![worker[w].at][Len(worker[w].results) + 1] = @ + 1]
    /\ \E outcome \in Outcomes : Becomes(w, WithResult(w, outcome))
    /\ UNCHANGED <<execution, run, events, version, tasks, reader, posts,
                   beats, crashes, claims, abandoned>>

\* The runs still to come for this worker.
Ahead(w) == {r \in worker[w].mine : r > worker[w].at}

\* The run is refreshed and the next begins with the version; either raises
\* when its row was deleted.
NextRun(w) ==
    /\ Holds(w, "finished")
    /\ Ahead(w) # {}
    /\ IF Live(worker[w].at) /\ version
       THEN Becomes(w, [worker[w] EXCEPT !.pc = "load", !.results = <<>>,
                !.at = First(Ahead(w)), !.todo = "run_started"])
       ELSE Moves(w, "raised")
    /\ UNCHANGED <<execution, run, events, version, tasks, reader, posts,
                   beats, crashes, claims, effects, abandoned>>

\* The statuses are read in order, up to the first timeout; a run that was
\* deleted meanwhile cannot be read.
CannotSum(w) ==
    \/ execution = "gone"
    \/ ~Live(worker[w].at)
    \/ \E r \in worker[w].mine :
        /\ ~Live(r)
        /\ ~\E q \in worker[w].mine : q < r /\ run[q].status = "timeout"

\* Mutant: a timeout does not count.
SumOfFailures(mine) ==
    IF \E r \in mine : run[r].status = "failed" THEN "failed" ELSE "passed"

Sum(mine) ==
    LET ends(status) == \E r \in mine : run[r].status = status
    IN  IF ends("timeout") THEN "timeout"
        ELSE IF ends("failed") THEN "failed" ELSE "passed"

FinishExecution(w) ==
    /\ Holds(w, "finished")
    /\ Ahead(w) = {}
    /\ IF CannotSum(w)
       THEN Moves(w, "raised") /\ UNCHANGED execution
       ELSE execution' = Sum(worker[w].mine) /\ Becomes(w, Free)
    /\ UNCHANGED <<run, events, version, tasks, reader, posts, beats, crashes,
                   claims, effects, abandoned>>

\* Mutant: only an execution that has not begun is failed.
NeedsVerdictIfQueued == execution = "queued"

NeedsVerdict == execution \notin Terminal \union {"gone"}

\* execute_queued_execution catches whatever the task raised and looks again,
\* in a session of its own.
Raised(w) ==
    /\ Holds(w, "raised")
    /\ Becomes(w, IF NeedsVerdict THEN [Free EXCEPT !.pc = "failing", !.view = View]
                  ELSE Free)
    /\ UNCHANGED <<execution, run, events, version, tasks, reader, posts,
                   beats, crashes, claims, effects, abandoned>>

(***************************************************************************)
(* _fail_queued_execution: fail every run that has no verdict, append its  *)
(* run_failed event, one commit.  One stale run refuses it all; raised by  *)
(* the handler itself, the error leaves the execution as it is.            *)
(***************************************************************************)
Failed(w) == {r \in DOMAIN worker[w].view : worker[w].view[r].status \notin Terminal}

FailRefused(w) ==
    \/ execution = "gone"
    \/ \E r \in Failed(w) : Refused(r, worker[w].view[r].seq)

FailQueuedExecution(w) ==
    /\ Holds(w, "failing")
    /\ IF FailRefused(w)
       THEN /\ Becomes(w, IF worker[w].again THEN [Free EXCEPT !.pc = "raised"] ELSE Free)
            /\ abandoned' = (abandoned \/ ~worker[w].again)
            /\ UNCHANGED <<execution, run, events>>
       ELSE /\ execution' = "failed"
            /\ run' = [r \in Runs |->
                 IF r \in Failed(w)
                 THEN [run[r] EXCEPT !.status = "failed", !.seq = @ + 1]
                 ELSE run[r]]
            /\ events' = [r \in Runs |->
                 IF r \in Failed(w) THEN Append(events[r], "run_failed") ELSE events[r]]
            /\ Becomes(w, Free)
            /\ UNCHANGED abandoned
    /\ UNCHANGED <<version, tasks, reader, posts, beats, crashes, claims, effects>>

\* The API process restarts: nothing takes its tasks up again.
Crash ==
    /\ crashes < MaxCrashes
    /\ crashes' = crashes + 1
    /\ tasks' = 0
    /\ worker' = [w \in Workers |-> Free]
    /\ reader' = [d \in Readers |-> Away]
    /\ abandoned' = (abandoned \/ tasks > 0 \/ \E w \in Workers : Busy(w))
    /\ UNCHANGED <<execution, run, events, version, posts, beats, claims, effects>>

-----------------------------------------------------------------------------
(* The readers *)

\* GET .../events from a Last-Event-ID the client has: here from the start.
Open(d) ==
    /\ reader[d].pc = "away"
    /\ \E r \in Runs :
        /\ Live(r)
        /\ reader' = [reader EXCEPT ![d] = [Away EXCEPT !.pc = "read", !.of = r]]
    /\ UNCHANGED <<execution, run, events, version, tasks, worker, posts,
                   beats, crashes, claims, effects, abandoned>>

\* One pass: the run and the events after the cursor in one snapshot, then
\* all of them sent.
Read(d) ==
    LET r == reader[d].of
        new == reader[d].cursor + 1 .. Len(events[r])
    IN  /\ reader[d].pc \in {"read", "quiet"}
        /\ IF ~Live(r)
           THEN reader' = [reader EXCEPT ![d].pc = "closed"]
           ELSE reader' = [reader EXCEPT
                  ![d].got = @ \union new,
                  ![d].cursor = Len(events[r]),
                  ![d].pc = IF run[r].status \in Terminal THEN "ended"
                            ELSE IF new = {} THEN "quiet" ELSE "read"]
        /\ UNCHANGED <<execution, run, events, version, tasks, worker, posts,
                       beats, crashes, claims, effects, abandoned>>

\* Mutant: a reader that finds the run ended under the lock stops.
Stops == "ended"

HasEnded(r) == run[r].status \in Terminal
ReadsAgain == "read"

\* Nothing was sent for 15 seconds: append a heartbeat under the lock, unless
\* the run has ended by now, and go on from it.
Heartbeat(d) ==
    LET r == reader[d].of
        next == run[r].seq + 1
    IN  /\ reader[d].pc = "quiet"
        /\ beats < MaxBeats
        /\ beats' = beats + 1
        /\ IF ~Live(r)
           THEN reader' = [reader EXCEPT ![d].pc = "closed"] /\ UNCHANGED <<run, events>>
           ELSE IF HasEnded(r)
           THEN reader' = [reader EXCEPT ![d].pc = ReadsAgain] /\ UNCHANGED <<run, events>>
           ELSE /\ run' = [run EXCEPT ![r].seq = next]
                /\ events' = [events EXCEPT ![r] = Append(@, "heartbeat")]
                /\ reader' = [reader EXCEPT ![d].pc = "read", ![d].cursor = next,
                                            ![d].got = @ \union {next}]
        /\ UNCHANGED <<execution, version, tasks, worker, posts, crashes,
                       claims, effects, abandoned>>

-----------------------------------------------------------------------------
(* Deletions *)

\* A run with a verdict may be deleted, its events with it, and the execution
\* with its last run.
DeleteRun(r) ==
    /\ CanDelete
    /\ Live(r)
    /\ run[r].status \in Terminal
    /\ run' = [run EXCEPT ![r] = [NoRow EXCEPT !.status = "gone"]]
    /\ events' = [events EXCEPT ![r] = <<>>]
    /\ execution' = IF \A q \in Runs \ {r} : ~Live(q) THEN "gone" ELSE execution
    /\ UNCHANGED <<version, tasks, worker, reader, posts, beats, crashes,
                   claims, effects, abandoned>>

\* Deleting the scenario does not ask whether an execution of it is under way.
DeleteScenario ==
    /\ CanDelete
    /\ version
    /\ version' = FALSE
    /\ UNCHANGED <<execution, run, events, tasks, worker, reader, posts,
                   beats, crashes, claims, effects, abandoned>>

-----------------------------------------------------------------------------

Work(w) ==
    \/ TakeTask(w)
    \/ ContextMissing(w)
    \/ StartExecution(w)
    \/ Load(w)
    \/ RenderFails(w)
    \/ AppendCommits(w)
    \/ AppendRefused(w)
    \/ RunStep(w)
    \/ NextRun(w)
    \/ FinishExecution(w)
    \/ Raised(w)
    \/ FailQueuedExecution(w)

NextExecution ==
    \/ Enqueue
    \/ RepeatPost
    \/ \E w \in Workers : Work(w)
    \/ Crash
    \/ \E d \in Readers : Open(d) \/ Read(d) \/ Heartbeat(d)
    \/ \E r \in Runs : DeleteRun(r)
    \/ DeleteScenario

SpecExecution == InitExecution /\ [][NextExecution]_executionVars

\* The threads of the execution worker take tasks and finish them: nothing in
\* a task waits for anybody but the database and the step's own time limit.
FairWorkers == \A w \in Workers : WF_executionVars(Work(w))
FairSpec == SpecExecution /\ FairWorkers

-----------------------------------------------------------------------------

\* The variables have their types.
ExecutionTypeOK ==
    /\ execution \in {"none", "queued", "running", "gone"} \union Terminal
    /\ run \in [Runs -> Row]
    /\ \A r \in Runs : events[r] \in Seq(EventKinds)
    /\ version \in BOOLEAN
    /\ tasks \in 0 .. Capacity
    /\ \A w \in Workers :
        /\ worker[w].pc \in {"free", "claimed", "load", "append", "execute",
                             "finished", "raised", "failing"}
        /\ worker[w].at \in 0 .. NumRuns
        /\ worker[w].mine \subseteq Runs
        /\ worker[w].results \in Seq(Results)
        /\ Len(worker[w].results) <= NumSteps
        /\ worker[w].todo \in Todos
        /\ worker[w].seen \in Nat
    /\ \A d \in Readers :
        /\ reader[d].pc \in {"away", "read", "quiet", "ended", "closed"}
        /\ reader[d].cursor \in Nat
    /\ claims \in Nat
    /\ abandoned \in BOOLEAN

EndsOnce(log, status) ==
    \A i \in DOMAIN log :
        log[i] \in EndEvents <=> status \in Terminal /\ i = Len(log)

\* The result events of a log, each of which tells the result at its rank.
Told(log) == {i \in DOMAIN log : log[i] \in ResultEvents}

TellsResults(log, results) ==
    /\ Cardinality(Told(log)) = Len(results)
    /\ \A i \in Told(log) :
        log[i] = ResultEvent(results[Cardinality(Told(log) \cap (1 .. i))])

\* The events of a run are numbered 1, 2, ... last_event_sequence, whoever
\* appends.  Unless two tasks found the execution queued, a run with a verdict
\* has one end event, its last one: no heartbeat and no second verdict follow;
\* and the results a client puts together from the events are the results its
\* detail view reads.
EventsTellRun ==
    \A r \in Runs :
        /\ Live(r) => run[r].seq = Len(events[r])
        /\ claims <= 1 => EndsOnce(events[r], run[r].status)
        /\ claims <= 1 /\ Live(r) => TellsResults(events[r], run[r].results)

\* A step of a run is executed at most once by each task that found the
\* execution queued, whatever was refused in between.
ExecutedOncePerClaim ==
    \A r \in Runs : \A i \in 1 .. NumSteps : effects[r][i] <= claims

\* Unless two tasks found the execution queued, an execution with a verdict has no
\* run without one, and an execution that passed has no run that did not.
VerdictCoversRuns ==
    (claims <= 1 /\ execution \in Terminal) => \A r \in Runs : Live(r) =>
        /\ run[r].status \in Terminal
        /\ execution = "passed" => run[r].status = "passed"

\* A reader whose stream ended by itself has sent an end event of the run.
StreamEndsWithTheEnd ==
    \A d \in Readers : (reader[d].pc = "ended" /\ Live(reader[d].of)) =>
        \E i \in reader[d].got : events[reader[d].of][i] \in EndEvents

\* An execution some worker has accepted gets a verdict, unless the process
\* restarts or the failure handler itself is refused.
AcceptedEnds ==
    (tasks > 0 /\ execution = "queued") ~>
        (execution \in Terminal \union {"gone"} \/ abandoned)

\* docs/api_scenarios.md: the same idempotency key does not start the task
\* again, so that no step of a run is executed twice.
NotExecutedTwice ==
    \A r \in Runs : \A i \in 1 .. NumSteps : effects[r][i] <= 1

\* docs/scenario-run-events-contract.md: a reader gets the events after its
\* Last-Event-ID; none is passed over.
NoEventPassedOver ==
    \A d \in Readers : reader[d].got = 1 .. reader[d].cursor
====
