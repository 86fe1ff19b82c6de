----------------------------- MODULE AgentEventLog -----------------------------
(***************************************************************************)
(* The event log of an agent run, its outbox and the clients that follow    *)
(* it: append_event, list_events and get_event_snapshot of                  *)
(* agent_runtime_service.py, the outbox publisher and the replay audit of   *)
(* agent_observability_service.py, and the SSE stream of the router.        *)
(*                                                                          *)
(* A writer loads the run, locks its row without loading it again, numbers  *)
(* its event after the sequence it loaded, and commits.  The unique key of  *)
(* run and sequence is what rejects a number that is taken.                 *)
(***************************************************************************)
EXTENDS Integers, Sequences, FiniteSets, SequencesExt

CONSTANTS
    Writers,       \* sessions that append events to the run
    Publishers,    \* concurrent POSTs of outbox/publish
    MaxEvents,     \* bound: events of the run
    MaxAttempts,   \* max_attempts of the publisher
    Batch,         \* limit of one publish call
    Page,          \* limit of one event snapshot
    MaxFaults      \* bound: publishers that die, deliveries that raise afterwards, drills

ASSUME EventLogAssumption ==
    /\ {MaxEvents, MaxAttempts, Batch, Page} \subseteq Nat \ {0}
    /\ MaxFaults \in Nat

VARIABLES
    log,        \* committed event numbers, in the order of their commits
    agentRun,   \* last_event_sequence and status of the committed run row
    writer,     \* what each session has read and appended
    outbox,     \* the outbox row of each committed event
    publisher,  \* the rows a publisher holds and what came of them so far
    delivered,  \* how often the callback saw an event
    client,     \* a subscriber: what it received, and its connection
    faults,     \* publishers that died, deliveries that raised afterwards, drills
    drilled     \* events a fault-injection drill gave up

logVars == <<log, agentRun, writer, outbox, publisher, delivered, client, faults, drilled>>

Numbers == 1..MaxEvents
NoWrite == [state |-> "idle", view |-> 0, added |-> <<>>, ends |-> FALSE]
NoPublish == [state |-> "idle", at |-> 0, outcome |-> [n \in {} |-> "none"]]
Closed == [state |-> "closed", sequence |-> 0, batch |-> <<>>, last |-> 0, terminal |-> FALSE]
Pending == [status |-> "pending", attempts |-> 0, due |-> TRUE]

InitLog ==
    /\ log = <<>>
    /\ agentRun = [last |-> 0, terminal |-> FALSE, endedAt |-> 0]
    /\ writer = [w \in Writers |-> NoWrite]
    /\ outbox = [n \in {} |-> Pending]
    /\ publisher = [p \in Publishers |-> NoPublish]
    /\ delivered = [n \in Numbers |-> 0]
    /\ client = [received |-> <<>>, connection |-> Closed, ended |-> FALSE]
    /\ faults = 0 /\ drilled = {}

-----------------------------------------------------------------------------
(* The row of the run, locked from the first event a session adds until it  *)
(* commits or rolls back.                                                   *)
RunLocked(w) == \E v \in Writers \ {w} : writer[v].added # <<>>

LoadRun(w) ==
    /\ writer[w].state = "idle"
    /\ writer' = [writer EXCEPT ![w] = [NoWrite EXCEPT !.state = "loaded", !.view = agentRun.last]]
    /\ UNCHANGED <<log, agentRun, outbox, publisher, delivered, client, faults, drilled>>

(* Mutant: no unique key of run and sequence.                               *)
NumberUnchecked(number) == TRUE

NumberIsFree(number) == number \notin ToSet(log)

(* A session may append several events before it commits; the one of        *)
(* complete_run also ends the run.                                          *)
AppendEvent(w, ends) ==
    LET number == writer[w].view + 1 IN
    /\ writer[w].state = "loaded" /\ ~writer[w].ends
    /\ ~RunLocked(w)
    /\ number <= MaxEvents /\ Len(log) + Len(writer[w].added) < MaxEvents
    /\ ends => ~agentRun.terminal
    /\ writer' = [writer EXCEPT ![w] =
          IF NumberIsFree(number)
          THEN [writer[w] EXCEPT !.view = number, !.added = Append(@, number), !.ends = ends]
          ELSE NoWrite]
    /\ UNCHANGED <<log, agentRun, outbox, publisher, delivered, client, faults, drilled>>

CommitEvents(w) ==
    /\ writer[w].added # <<>>
    /\ log' = log \o writer[w].added
    /\ agentRun' = [last |-> writer[w].view,
                    terminal |-> agentRun.terminal \/ writer[w].ends,
                    endedAt |-> IF writer[w].ends THEN writer[w].view ELSE agentRun.endedAt]
    /\ outbox' = [n \in DOMAIN outbox \cup ToSet(writer[w].added) |->
                     IF n \in DOMAIN outbox THEN outbox[n] ELSE Pending]
    /\ writer' = [writer EXCEPT ![w] = NoWrite]
    /\ UNCHANGED <<publisher, delivered, client, faults, drilled>>

(* An error after the append, in the same transaction.                      *)
RollBackEvents(w) ==
    /\ writer[w].state = "loaded"
    /\ writer' = [writer EXCEPT ![w] = NoWrite]
    /\ UNCHANGED <<log, agentRun, outbox, publisher, delivered, client, faults, drilled>>

-----------------------------------------------------------------------------
(* Mutant: SELECT without FOR UPDATE SKIP LOCKED.                           *)
HeldByNobody(p) == {}

Held(p) == UNION {DOMAIN publisher[q].outcome : q \in Publishers \ {p}}

Publishable(p) ==
    {n \in DOMAIN outbox : outbox[n].status \in {"pending", "failed"} /\ outbox[n].due} \ Held(p)

(* The oldest due rows, up to the limit.                                    *)
Oldest(ns) == {n \in ns : Cardinality({m \in ns : m < n}) < Batch}

LockOutbox(p) ==
    /\ publisher[p].state = "idle" /\ Publishable(p) # {}
    /\ publisher' = [publisher EXCEPT ![p] =
          [state |-> "publishing", at |-> 0,
           outcome |-> [n \in Oldest(Publishable(p)) |-> "none"]]]
    /\ UNCHANGED <<log, agentRun, writer, outbox, delivered, client, faults, drilled>>

(* One callback: it takes the event, refuses it, or takes it and raises.    *)
Deliver(p, outcome) ==
    /\ publisher[p].state = "publishing"
    /\ \E n \in DOMAIN publisher[p].outcome :
          /\ n > publisher[p].at
          /\ \A m \in DOMAIN publisher[p].outcome : m < n => m <= publisher[p].at
          /\ publisher' = [publisher EXCEPT ![p].at = n, ![p].outcome[n] =
                              IF outcome = "taken" THEN "published" ELSE "failed"]
          /\ delivered' = [delivered EXCEPT ![n] = IF outcome = "refused" THEN @ ELSE @ + 1]
    /\ outcome = "raised" => faults < MaxFaults
    /\ faults' = IF outcome = "raised" THEN faults + 1 ELSE faults
    /\ UNCHANGED <<log, agentRun, writer, outbox, client, drilled>>

Published(row, outcome) ==
    IF outcome = "published"
    THEN [status |-> "published", attempts |-> row.attempts + 1, due |-> FALSE]
    ELSE [status |-> IF row.attempts + 1 >= MaxAttempts THEN "dead_letter" ELSE "failed",
          attempts |-> row.attempts + 1, due |-> FALSE]

CommitOutbox(p) ==
    LET taken == publisher[p].outcome IN
    /\ publisher[p].state = "publishing"
    /\ \A n \in DOMAIN taken : taken[n] # "none"
    /\ outbox' = [n \in DOMAIN outbox |->
                     IF n \in DOMAIN taken THEN Published(outbox[n], taken[n]) ELSE outbox[n]]
    /\ publisher' = [publisher EXCEPT ![p] = NoPublish]
    /\ UNCHANGED <<log, agentRun, writer, delivered, client, faults, drilled>>

(* The request dies before its commit: the rows are as before, what the     *)
(* callback saw it has seen.                                                *)
PublisherDies(p) ==
    /\ publisher[p].state = "publishing" /\ faults < MaxFaults
    /\ publisher' = [publisher EXCEPT ![p] = NoPublish]
    /\ faults' = faults + 1
    /\ UNCHANGED <<log, agentRun, writer, outbox, delivered, client, drilled>>

(* The outbox_publish_failure drill publishes what is due, of every run,    *)
(* with a callback that always fails and a single attempt.                  *)
OutboxDrill(p) ==
    LET taken == Oldest(Publishable(p)) IN
    /\ publisher[p].state = "idle" /\ taken # {} /\ faults < MaxFaults
    /\ outbox' = [n \in DOMAIN outbox |->
                     IF n \in taken
                     THEN [status |-> "dead_letter", attempts |-> outbox[n].attempts + 1, due |-> FALSE]
                     ELSE outbox[n]]
    /\ drilled' = drilled \cup taken
    /\ faults' = faults + 1
    /\ UNCHANGED <<log, agentRun, writer, publisher, delivered, client>>

RetryDelayPasses(n) ==
    /\ n \in DOMAIN outbox /\ outbox[n].status = "failed" /\ ~outbox[n].due
    /\ outbox' = [outbox EXCEPT ![n].due = TRUE]
    /\ UNCHANGED <<log, agentRun, writer, publisher, delivered, client, faults, drilled>>

-----------------------------------------------------------------------------
(* ORDER BY event_seq.                                                      *)
InOrder(ns) ==
    [i \in 1..Cardinality(ns) |-> CHOOSE n \in ns : Cardinality({m \in ns : m < n}) = i - 1]

Cursor == IF client.received = <<>> THEN 0 ELSE Last(client.received)

(* Mutant: the event of the cursor is sent again.                           *)
EventsFrom(cursor) == InOrder({n \in ToSet(log) : n >= cursor})

(* list_events: the events after a cursor, by number.                       *)
EventsAfter(cursor) == InOrder({n \in ToSet(log) : n > cursor})

(* Last-Event-ID is the last event the client received.                     *)
Connect ==
    /\ client.connection.state = "closed" /\ ~client.ended
    /\ client' = [client EXCEPT !.connection = [Closed EXCEPT !.state = "waiting", !.sequence = Cursor]]
    /\ UNCHANGED <<log, agentRun, writer, outbox, publisher, delivered, faults, drilled>>

(* Events, status and last sequence are those of one read.                  *)
Poll ==
    /\ client.connection.state = "waiting"
    /\ client' = [client EXCEPT !.connection =
          [state |-> "sending", sequence |-> @.sequence, batch |-> EventsAfter(@.sequence),
           last |-> agentRun.last, terminal |-> agentRun.terminal]]
    /\ UNCHANGED <<log, agentRun, writer, outbox, publisher, delivered, faults, drilled>>

SendEvent ==
    /\ client.connection.state = "sending" /\ client.connection.batch # <<>>
    /\ client' = [client EXCEPT
          !.received = Append(@, Head(client.connection.batch)),
          !.connection = [client.connection EXCEPT !.sequence = Head(client.connection.batch),
                                                   !.batch = Tail(@)]]
    /\ UNCHANGED <<log, agentRun, writer, outbox, publisher, delivered, faults, drilled>>

StreamIsComplete(connection) ==
    connection.terminal /\ connection.sequence >= connection.last

EndPoll ==
    /\ client.connection.state = "sending" /\ client.connection.batch = <<>>
    /\ client' = IF StreamIsComplete(client.connection)
                 THEN [client EXCEPT !.connection = Closed, !.ended = TRUE]
                 ELSE [client EXCEPT !.connection.state = "waiting"]
    /\ UNCHANGED <<log, agentRun, writer, outbox, publisher, delivered, faults, drilled>>

Disconnect ==
    /\ client.connection.state # "closed"
    /\ client' = [client EXCEPT !.connection = Closed]
    /\ UNCHANGED <<log, agentRun, writer, outbox, publisher, delivered, faults, drilled>>

(* A client without a stream asks for a page of events.                     *)
GetEventSnapshot ==
    /\ client.connection.state = "closed"
    /\ EventsAfter(Cursor) # <<>>
    /\ client' = [client EXCEPT !.received =
          @ \o SubSeq(EventsAfter(Cursor), 1, IF Len(EventsAfter(Cursor)) < Page
                                              THEN Len(EventsAfter(Cursor)) ELSE Page)]
    /\ UNCHANGED <<log, agentRun, writer, outbox, publisher, delivered, faults, drilled>>

-----------------------------------------------------------------------------
WriterStep(w) ==
    \/ LoadRun(w) \/ CommitEvents(w) \/ RollBackEvents(w)
    \/ \E ends \in BOOLEAN : AppendEvent(w, ends)

PublisherStep(p) ==
    \/ LockOutbox(p) \/ CommitOutbox(p) \/ PublisherDies(p) \/ OutboxDrill(p)
    \/ \E outcome \in {"taken", "refused", "raised"} : Deliver(p, outcome)

ClientStep == Connect \/ Poll \/ SendEvent \/ EndPoll \/ Disconnect \/ GetEventSnapshot

NextLog ==
    \/ \E w \in Writers : WriterStep(w)
    \/ \E p \in Publishers : PublisherStep(p)
    \/ \E n \in Numbers : RetryDelayPasses(n)
    \/ ClientStep

SpecLog == InitLog /\ [][NextLog]_logVars

-----------------------------------------------------------------------------
(* audit_run: what the replay audit computes of the log.                    *)
MissingSequences == (1..agentRun.last) \ ToSet(log)
DuplicateSequences == {n \in ToSet(log) : Cardinality({i \in DOMAIN log : log[i] = n}) > 1}
UnexpectedSequences == ToSet(log) \ (1..agentRun.last)
Replayable ==
    /\ MissingSequences = {} /\ DuplicateSequences = {} /\ UnexpectedSequences = {}
    /\ Len(log) = agentRun.last

(* _cursor_windows: the cursors the stress audit replays from.              *)
CursorWindows(last, count) ==
    IF count <= 1 \/ last <= 0 THEN {0}
    ELSE IF count = 2 THEN {0, last - 1}
    ELSE {0, last - 1} \cup {(last * i) \div (count - 1) : i \in 1..(count - 2)}

(* Sessions that load the run while another appends never leave a gap or a  *)
(* number twice: every audit of the log finds it replayable, and each of    *)
(* the windows it replays from is a valid cursor.                           *)
LogIsReplayable ==
    /\ Replayable
    /\ \A count \in 1..4 : CursorWindows(agentRun.last, count) \subseteq 0..agentRun.last

(* Whatever breaks, a client has received the events from the first one on, *)
(* each once and in order, and one whose stream was ended by the server has *)
(* received the event that ended the run.                                   *)
StreamTellsLog ==
    /\ client.received = [i \in 1..Len(client.received) |-> i]
    /\ client.ended => agentRun.terminal /\ Len(client.received) >= agentRun.endedAt

(* At least once: a published event was seen by the callback, one given up  *)
(* was tried MaxAttempts times unless a drill took it, and without a fault  *)
(* none is seen twice.                                                      *)
DeliveredOrGivenUp ==
    \A n \in DOMAIN outbox :
        /\ outbox[n].status = "published" => delivered[n] >= 1
        /\ outbox[n].status = "dead_letter" => outbox[n].attempts = MaxAttempts \/ n \in drilled
        /\ delivered[n] <= 1 + faults
=============================================================================
