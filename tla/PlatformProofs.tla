---------------------------- MODULE PlatformProofs ----------------------------
(***************************************************************************)
(* Theorems about the event log and its clients, debug sessions, the release *)
(* gate and the drills.                                                      *)
(***************************************************************************)
EXTENDS AgentEventLog, DebugSession, AgentFaultDrills, FiniteSetTheorems, SequenceTheorems, TLAPS

-----------------------------------------------------------------------------
(* Sequences that count *)

(* s counts on from n: n + 1, n + 2, ...                                     *)
Counts(s, n) == s \in Seq(Nat) /\ \A i \in 1 .. Len(s) : s[i] = n + i

(* The empty sequence counts from any number. *)
LEMMA CountsEmpty == \A n \in Nat : Counts(<<>>, n)
BY DEF Counts

(* The next number may be appended. *)
LEMMA CountsAppend ==
    ASSUME NEW n \in Nat, NEW s, Counts(s, n)
    PROVE  Counts(Append(s, n + Len(s) + 1), n)
<1>1. s \in Seq(Nat) /\ n + Len(s) + 1 \in Nat
    BY DEF Counts
<1> QED BY <1>1 DEF Counts

(* A sequence that goes on where another ends extends it. *)
LEMMA CountsConcat ==
    ASSUME NEW n \in Nat, NEW s, NEW t, Counts(s, n), Counts(t, n + Len(s))
    PROVE  Counts(s \o t, n) /\ Len(s \o t) = Len(s) + Len(t)
<1>1. s \in Seq(Nat) /\ t \in Seq(Nat)
    BY DEF Counts
<1>2. Len(s \o t) = Len(s) + Len(t) /\ s \o t \in Seq(Nat)
    BY <1>1
<1>3. ASSUME NEW i \in 1 .. Len(s \o t) PROVE (s \o t)[i] = n + i
  <2>1. CASE i <= Len(s)
      BY <1>1, <1>2, <2>1 DEF Counts
  <2>2. CASE i > Len(s)
    <3>1. i - Len(s) \in 1 .. Len(t) /\ (s \o t)[i] = t[i - Len(s)]
        BY <1>1, <1>2, <2>2
    <3>2. t[i - Len(s)] = n + Len(s) + (i - Len(s))
        BY <3>1 DEF Counts
    <3> QED BY <1>1, <3>1, <3>2
  <2> QED BY <1>1, <1>2, <2>1, <2>2
<1> QED BY <1>2, <1>3 DEF Counts

(* The first element is the next number, and the rest counts from it. *)
LEMMA CountsTail ==
    ASSUME NEW n \in Nat, NEW s, Counts(s, n), s # <<>>
    PROVE  Head(s) = n + 1 /\ Counts(Tail(s), n + 1) /\ Len(Tail(s)) = Len(s) - 1
<1>1. s \in Seq(Nat) /\ Len(s) > 0
    BY DEF Counts
<1>2. Head(s) = s[1] /\ Tail(s) \in Seq(Nat) /\ Len(Tail(s)) = Len(s) - 1
    BY <1>1
<1>3. \A i \in 1 .. Len(Tail(s)) : Tail(s)[i] = s[i + 1] /\ i + 1 \in 1 .. Len(s)
    BY <1>1, <1>2
<1> QED BY <1>1, <1>2, <1>3 DEF Counts

(* A beginning of a counting sequence counts. *)
LEMMA CountsFirst ==
    ASSUME NEW n \in Nat, NEW s, Counts(s, n), NEW k \in 0 .. Len(s)
    PROVE  Counts(SubSeq(s, 1, k), n) /\ Len(SubSeq(s, 1, k)) = k
BY DEF Counts

(* A counting sequence holds an interval. *)
LEMMA CountsSet ==
    ASSUME NEW n \in Nat, NEW s, Counts(s, n)
    PROVE  ToSet(s) = (n + 1) .. (n + Len(s))
<1>1. s \in Seq(Nat) /\ DOMAIN s = 1 .. Len(s)
    BY DEF Counts
<1>2. ASSUME NEW m \in (n + 1) .. (n + Len(s)) PROVE m \in ToSet(s)
  <2>1. m - n \in 1 .. Len(s) /\ s[m - n] = m
      BY <1>1 DEF Counts
  <2> QED BY <1>1, <2>1 DEF ToSet
<1>3. ASSUME NEW m \in ToSet(s) PROVE m \in (n + 1) .. (n + Len(s))
  <2>1. PICK i \in 1 .. Len(s) : s[i] = m
      BY <1>1 DEF ToSet
  <2> QED BY <1>1, <2>1 DEF Counts
<1> QED BY <1>2, <1>3

(* The numbers of an interval in their order count on.                       *)
LEMMA InOrderCounts ==
    ASSUME NEW n \in Nat, NEW m \in Nat, n <= m
    PROVE  Counts(InOrder((n + 1) .. m), n) /\ Len(InOrder((n + 1) .. m)) = m - n
<1> DEFINE S == (n + 1) .. m
           Below(x) == {y \in S : y < x}
           IsNth(x, i) == Cardinality(Below(x)) = i - 1
           Nth(i) == CHOOSE x \in S : IsNth(x, i)
<1>1. Cardinality(S) = m - n /\ m - n \in Nat
  <2>1. n + 1 \in Int /\ m \in Int
      OBVIOUS
  <2>2. Cardinality(S) = IF n + 1 > m THEN 0 ELSE m - (n + 1) + 1
      BY <2>1, FS_Interval
  <2> QED BY <2>2
<1>2. ASSUME NEW x \in S PROVE Cardinality(Below(x)) = x - 1 - n
  <2>1. Below(x) = (n + 1) .. (x - 1)
      OBVIOUS
  <2>2. n + 1 \in Int /\ x - 1 \in Int
      OBVIOUS
  <2>3. Cardinality((n + 1) .. (x - 1)) = IF n + 1 > x - 1 THEN 0 ELSE x - 1 - (n + 1) + 1
      BY <2>2, FS_Interval
  <2> HIDE DEF Below
  <2> QED BY <2>1, <2>3
<1>3. ASSUME NEW i \in 1 .. (m - n) PROVE Nth(i) = n + i
  <2> HIDE DEF Below
  <2>1. n + i \in S /\ IsNth(n + i, i)
      BY <1>2
  <2>2. \A x \in S : IsNth(x, i) => x = n + i
      BY <1>2
  <2> HIDE DEF IsNth, S
  <2> QED BY <2>1, <2>2
<1>4. InOrder(S) = [i \in 1 .. (m - n) |-> Nth(i)]
  <2>1. InOrder(S) = [i \in 1 .. Cardinality(S) |-> Nth(i)]
      BY DEF InOrder
  <2> HIDE DEF Nth
  <2> QED BY <1>1, <2>1
<1> HIDE DEF Nth
<1>5. InOrder(S) \in Seq(Nat) /\ Len(InOrder(S)) = m - n
  <2> DEFINE k == m - n
             s == InOrder(S)
  <2>1. k \in Nat /\ s = [i \in 1 .. k |-> Nth(i)] /\ \A i \in 1 .. k : Nth(i) \in Nat
      BY <1>1, <1>3, <1>4
  <2> HIDE DEF k, s
  <2>2. s \in Seq(Nat) /\ Len(s) = k
      BY <2>1
  <2> QED BY <2>2 DEF k, s
<1>6. \A i \in 1 .. (m - n) : InOrder(S)[i] = n + i
    BY <1>3, <1>4
<1> QED BY <1>5, <1>6 DEF Counts

-----------------------------------------------------------------------------
(* The event log: the inductive invariant *)

Sessions == [state : {"idle", "loaded"}, view : Nat, added : Seq(Nat), ends : BOOLEAN]

(* The events are numbered by their place, and the run knows the last one.   *)
LogOK ==
    /\ Counts(log, 0) /\ Len(log) <= MaxEvents
    /\ agentRun \in [last : Nat, terminal : BOOLEAN, endedAt : Nat]
    /\ agentRun.last = Len(log)
    /\ agentRun.terminal => agentRun.endedAt <= agentRun.last

(* What a session has added goes on from the log, and only one has added     *)
(* anything; the others may have read an older sequence.                     *)
WritersOK ==
    /\ writer \in [Writers -> Sessions]
    /\ \A w \in Writers :
           /\ Counts(writer[w].added, Len(log))
           /\ writer[w].added = <<>> => writer[w].view <= Len(log) /\ ~writer[w].ends
           /\ writer[w].added # <<>> =>
                  /\ writer[w].view = Len(log) + Len(writer[w].added)
                  /\ writer[w].view <= MaxEvents
                  /\ ~RunLocked(w)
           /\ writer[w].ends => ~agentRun.terminal

Connections ==
    [state : {"closed", "waiting", "sending"}, sequence : Nat, batch : Seq(Nat), last : Nat,
     terminal : BOOLEAN]

(* A client has received what it has a cursor for, and a batch goes on from  *)
(* there; a batch that was read with the end covers the end.                 *)
ClientOK ==
    /\ client \in [received : Seq(Nat), connection : Connections, ended : BOOLEAN]
    /\ Counts(client.received, 0) /\ Len(client.received) <= agentRun.last
    /\ client.ended => agentRun.terminal /\ Len(client.received) >= agentRun.endedAt
    /\ client.connection.state # "closed" => client.connection.sequence = Len(client.received)
    /\ client.connection.state = "sending" =>
           /\ Counts(client.connection.batch, client.connection.sequence)
           /\ client.connection.sequence + Len(client.connection.batch) <= agentRun.last
           /\ client.connection.terminal =>
                  agentRun.terminal /\ agentRun.endedAt <= client.connection.last

OutboxRows == [status : {"pending", "failed", "published", "dead_letter"}, attempts : Nat, due : BOOLEAN]

(* A publisher's record: what it holds is not settled yet.                   *)
HoldsOK(b, box, seen) ==
    /\ b = [state |-> b.state, at |-> b.at, outcome |-> b.outcome]
    /\ b.at \in Nat
    /\ b.outcome = [n \in DOMAIN b.outcome |-> b.outcome[n]]
    /\ b.state # "publishing" => DOMAIN b.outcome = {}
    /\ \A n \in DOMAIN b.outcome :
           /\ n \in DOMAIN box /\ box[n].status \in {"pending", "failed"}
           /\ b.outcome[n] \in {"none", "published", "failed"}
           /\ n > b.at => b.outcome[n] = "none"
           /\ b.outcome[n] = "published" => seen[n] >= 1

(* No row is held twice.                                                     *)
HeldApart ==
    \A p, q \in Publishers :
        p # q => DOMAIN publisher[p].outcome \cap DOMAIN publisher[q].outcome = {}

Taken(n) ==
    \E p \in Publishers : n \in DOMAIN publisher[p].outcome /\ publisher[p].outcome[n] = "published"

(* A fault may repeat a delivery; nothing else does.                         *)
RowOK(n) ==
    /\ outbox[n].status \in {"pending", "failed"} => outbox[n].attempts < MaxAttempts
    /\ outbox[n].status = "published" => delivered[n] >= 1
    /\ outbox[n].status = "dead_letter" => outbox[n].attempts = MaxAttempts \/ n \in drilled
    /\ delivered[n] <= faults + 1
    /\ delivered[n] = faults + 1 => outbox[n].status = "published" \/ Taken(n)

OutboxOK ==
    /\ outbox \in [1 .. Len(log) -> OutboxRows]
    /\ publisher = [p \in Publishers |-> publisher[p]]
    /\ delivered \in [Numbers -> Nat] /\ faults \in Nat
    /\ \A p \in Publishers : HoldsOK(publisher[p], outbox, delivered)
    /\ HeldApart
    /\ \A n \in DOMAIN outbox : RowOK(n)
    /\ \A n \in Numbers \ DOMAIN outbox : delivered[n] = 0

LInv == LogOK /\ WritersOK /\ ClientOK /\ OutboxOK

-----------------------------------------------------------------------------
(* The writers *)

(* A writer that has nothing loaded is idle. *)
LEMMA NoWriteIdle ==
    /\ NoWrite \in Sessions /\ NoWrite.added = <<>> /\ NoWrite.view = 0 /\ NoWrite.ends = FALSE
    /\ NoWrite.state = "idle"
BY DEF NoWrite, Sessions

(* The log as a set.                                                         *)
LEMMA LogSet == LogOK => ToSet(log) = 1 .. Len(log)
<1>1. ASSUME LogOK PROVE ToSet(log) = (0 + 1) .. (0 + Len(log))
    BY <1>1, CountsSet DEF LogOK
<1>2. ASSUME LogOK PROVE Len(log) \in Nat
    BY <1>2 DEF LogOK, Counts
<1> QED BY <1>1, <1>2

(* A session that has added nothing, or goes back to that, is in nobody's    *)
(* way.                                                                      *)
LEMMA SessionChanges ==
    ASSUME WritersOK, NEW w \in Writers, NEW new \in Sessions, writer' = [writer EXCEPT ![w] = new],
           UNCHANGED <<log, agentRun>>,
           new.added = <<>>, new.view <= Len(log), new.ends = FALSE
    PROVE  WritersOK'
<1>1. \A v \in Writers : writer'[v] = IF v = w THEN new ELSE writer[v]
    BY DEF WritersOK
<1>2. \A v \in Writers \ {w} : ~RunLocked(v) => ~RunLocked(v)'
    BY <1>1 DEF RunLocked
<1>3. writer' \in [Writers -> Sessions] /\ Counts(new.added, Len(log))
    BY DEF WritersOK, Counts
<1> QED BY <1>1, <1>2, <1>3 DEF WritersOK

(* A writer that loads the run has the log as it is. *)
LEMMA LoadRunKept ==
    ASSUME LogOK, WritersOK, NEW w \in Writers, LoadRun(w) PROVE WritersOK'
<1> DEFINE new == [NoWrite EXCEPT !.state = "loaded", !.view = agentRun.last]
<1>1. writer' = [writer EXCEPT ![w] = new] /\ UNCHANGED <<log, agentRun>>
    BY DEF LoadRun
<1>2. Len(log) \in Nat /\ agentRun.last = Len(log)
    BY DEF LogOK, Counts
<1>3. new \in Sessions /\ new.added = <<>> /\ new.ends = FALSE /\ new.view = Len(log)
    BY <1>2, NoWriteIdle DEF Sessions
<1> HIDE DEF new
<1>4. new.view <= Len(log)
    BY <1>2, <1>3
<1> QED BY <1>1, <1>3, <1>4, SessionChanges

(* A writer that rolls back has nothing in view. *)
LEMMA RollBackKept ==
    ASSUME LogOK, WritersOK, NEW w \in Writers, writer' = [writer EXCEPT ![w] = NoWrite],
           UNCHANGED <<log, agentRun>>
    PROVE  WritersOK'
<1>1. Len(log) \in Nat
    BY DEF LogOK, Counts
<1>2. NoWrite \in Sessions /\ NoWrite.added = <<>> /\ NoWrite.view <= Len(log) /\ NoWrite.ends = FALSE
    BY <1>1, NoWriteIdle
<1> QED BY <1>2, SessionChanges

(* The number of the next event: whoever has read an older sequence is       *)
(* refused, and whoever has not goes on from the log.                        *)
LEMMA AppendEventKept ==
    ASSUME LogOK, WritersOK, NEW w \in Writers, NEW ends \in BOOLEAN, AppendEvent(w, ends)
    PROVE  WritersOK'
<1> DEFINE s == writer[w]
           number == s.view + 1
           new == [s EXCEPT !.view = number, !.added = Append(s.added, number), !.ends = ends]
<1>1. /\ ~s.ends /\ ~RunLocked(w) /\ number <= MaxEvents
      /\ ends => ~agentRun.terminal
      /\ UNCHANGED <<log, agentRun>>
      /\ writer' = [writer EXCEPT ![w] = IF NumberIsFree(number) THEN new ELSE NoWrite]
    BY DEF AppendEvent
<1>2. CASE ~NumberIsFree(number)
    BY <1>1, <1>2, RollBackKept
<1>3. CASE NumberIsFree(number)
  <2>1. s \in Sessions /\ Len(log) \in Nat /\ Counts(s.added, Len(log)) /\ number \in Nat
      BY DEF WritersOK, LogOK, Counts, Sessions
  <2>2. s.view = Len(log) + Len(s.added)
    <3>1. CASE s.added = <<>>
      <4>1. number \notin 1 .. Len(log)
          BY <1>3, LogSet DEF NumberIsFree
      <4>2. s.view \in Nat /\ s.view <= Len(log)
          BY <2>1, <3>1 DEF WritersOK, Sessions
      <4>3. s.view = Len(log)
          BY <2>1, <4>1, <4>2
      <4> QED BY <2>1, <3>1, <4>3
    <3> QED BY <3>1 DEF WritersOK
  <2>3. s.added \in Seq(Nat) /\ s.view \in Nat
      BY <2>1 DEF Sessions
  <2>4. number = Len(log) + Len(s.added) + 1
      BY <2>1, <2>2, <2>3
  <2>5. Counts(Append(s.added, number), Len(log))
      BY <2>1, <2>4, CountsAppend
  <2>6. /\ Append(s.added, number) \in Seq(Nat) /\ Append(s.added, number) # <<>>
        /\ Len(Append(s.added, number)) = Len(s.added) + 1
      BY <2>1, <2>3
  <2>7. /\ new \in Sessions /\ new.added = Append(s.added, number) /\ new.view = number
        /\ new.ends = ends
      BY <2>1, <2>6 DEF Sessions
  <2> HIDE DEF new, number
  <2>8. \A v \in Writers : writer'[v] = IF v = w THEN new ELSE writer[v]
      BY <1>1, <1>3 DEF WritersOK
  <2>9. \A v \in Writers \ {w} : writer[v].added = <<>>
      BY <1>1 DEF RunLocked
  <2>10. ~RunLocked(w)'
      BY <2>8, <2>9 DEF RunLocked
  <2>11. writer' \in [Writers -> Sessions]
      BY <1>1, <1>3, <2>7 DEF WritersOK
  <2>12. new.view = Len(log) + Len(new.added)
      BY <2>1, <2>3, <2>4, <2>6, <2>7
  <2>13. new.added # <<>> /\ new.view <= MaxEvents /\ Counts(new.added, Len(log))
      BY <1>1, <2>5, <2>6, <2>7
  <2> QED BY <1>1, <2>7, <2>8, <2>9, <2>10, <2>11, <2>12, <2>13 DEF WritersOK
<1> QED BY <1>2, <1>3

(* A commit adds the next numbers, and nobody else had any.                  *)
LEMMA CommitEventsKept ==
    ASSUME LogOK, WritersOK, NEW w \in Writers, CommitEvents(w)
    PROVE  /\ LogOK' /\ WritersOK'
           /\ Len(log') = Len(log) + Len(writer[w].added)
           /\ ToSet(writer[w].added) = (Len(log) + 1) .. Len(log')
           /\ agentRun.terminal => agentRun'.terminal /\ agentRun'.endedAt = agentRun.endedAt
<1> DEFINE s == writer[w]
<1>1. /\ s.added # <<>> /\ log' = log \o s.added
      /\ agentRun' = [last |-> s.view, terminal |-> agentRun.terminal \/ s.ends,
                      endedAt |-> IF s.ends THEN s.view ELSE agentRun.endedAt]
      /\ writer' = [writer EXCEPT ![w] = NoWrite]
    BY DEF CommitEvents
<1>2. /\ s \in Sessions /\ Counts(s.added, Len(log))
      /\ s.view = Len(log) + Len(s.added) /\ s.view <= MaxEvents
      /\ \A v \in Writers \ {w} : writer[v].added = <<>>
      /\ s.ends => ~agentRun.terminal
    BY <1>1 DEF WritersOK, RunLocked
<1>3. /\ Len(log) \in Nat /\ Len(s.added) \in Nat /\ s.view \in Nat /\ s.ends \in BOOLEAN
      /\ agentRun.endedAt \in Nat /\ agentRun.terminal \in BOOLEAN
    BY <1>2 DEF LogOK, Counts, Sessions
<1>4. Counts(log', 0) /\ Len(log') = Len(log) + Len(s.added)
  <2>1. Counts(log, 0) /\ Counts(s.added, 0 + Len(log)) /\ 0 \in Nat
      BY <1>2, <1>3 DEF LogOK
  <2> QED BY <1>1, <2>1, CountsConcat
<1>5. agentRun' \in [last : Nat, terminal : BOOLEAN, endedAt : Nat]
    BY <1>1, <1>3
<1>6. agentRun'.last = s.view /\ agentRun'.terminal = (agentRun.terminal \/ s.ends)
      /\ agentRun'.endedAt = IF s.ends THEN s.view ELSE agentRun.endedAt
    BY <1>1
<1>7. agentRun'.terminal => agentRun'.endedAt <= agentRun'.last
  <2>1. CASE s.ends
      BY <1>3, <1>6, <2>1
  <2>2. CASE ~s.ends
    <3>1. agentRun.terminal => agentRun.endedAt <= Len(log)
        BY DEF LogOK
    <3> QED BY <1>2, <1>3, <1>6, <2>2, <3>1
  <2> QED BY <2>1, <2>2
<1>8. LogOK'
    BY <1>2, <1>4, <1>5, <1>6, <1>7 DEF LogOK
<1>9. \A v \in Writers : writer'[v] = IF v = w THEN NoWrite ELSE writer[v]
    BY <1>1 DEF WritersOK
<1>10. ASSUME NEW v \in Writers
       PROVE  /\ writer'[v].added = <<>> /\ writer'[v].view <= Len(log') /\ ~writer'[v].ends
              /\ writer'[v] \in Sessions
  <2>1. CASE v = w
      BY <1>3, <1>4, <1>9, <2>1, NoWriteIdle
  <2>2. CASE v # w
    <3>1. writer[v] \in Sessions /\ writer[v].added = <<>> /\ writer[v].view <= Len(log) /\ ~writer[v].ends
        BY <1>2, <2>2 DEF WritersOK
    <3>2. writer[v].view \in Nat
        BY <3>1 DEF Sessions
    <3> QED BY <1>3, <1>4, <1>9, <2>2, <3>1, <3>2
  <2> QED BY <2>1, <2>2
<1>11. WritersOK'
  <2>1. writer' \in [Writers -> Sessions]
      BY <1>1, <1>10, NoWriteIdle DEF WritersOK
  <2>2. \A v \in Writers : Counts(writer'[v].added, Len(log'))
      BY <1>3, <1>4, <1>10, CountsEmpty
  <2> QED BY <1>10, <2>1, <2>2 DEF WritersOK
<1>12. ToSet(s.added) = (Len(log) + 1) .. Len(log')
    BY <1>2, <1>3, <1>4, CountsSet
<1>13. agentRun.terminal => agentRun'.terminal /\ agentRun'.endedAt = agentRun.endedAt
    BY <1>2, <1>6
<1> QED BY <1>4, <1>8, <1>11, <1>12, <1>13

-----------------------------------------------------------------------------
(* The clients *)

(* The log may grow and the run may end behind a client's back.              *)
LEMMA ClientFollows ==
    ASSUME ClientOK, LogOK, LogOK', UNCHANGED client, Len(log) <= Len(log'),
           agentRun.terminal => agentRun'.terminal /\ agentRun'.endedAt = agentRun.endedAt
    PROVE  ClientOK'
<1>1. /\ agentRun.last \in Nat /\ agentRun'.last \in Nat /\ agentRun.last <= agentRun'.last
      /\ agentRun.endedAt \in Nat /\ agentRun'.endedAt \in Nat
    BY DEF LogOK
<1>2. Len(client.received) \in Nat
    BY DEF ClientOK
<1>3. client.connection.sequence \in Nat /\ Len(client.connection.batch) \in Nat
    BY DEF ClientOK, Connections
<1> QED BY <1>1, <1>2, <1>3 DEF ClientOK

(* The events after a number the log has reached.                            *)
LEMMA EventsAfterCount ==
    ASSUME LogOK, NEW n \in Nat, n <= Len(log)
    PROVE  Counts(EventsAfter(n), n) /\ Len(EventsAfter(n)) = Len(log) - n
<1>1. Len(log) \in Nat
    BY DEF LogOK, Counts
<1>2. {m \in ToSet(log) : m > n} = (n + 1) .. Len(log)
  <2>1. ToSet(log) = 1 .. Len(log)
      BY LogSet
  <2>2. \A m : m \in 1 .. Len(log) /\ m > n <=> m \in (n + 1) .. Len(log)
      BY <1>1
  <2> QED BY <2>1, <2>2
<1>3. EventsAfter(n) = InOrder((n + 1) .. Len(log))
    BY <1>2 DEF EventsAfter
<1> QED BY <1>1, <1>3, InOrderCounts

(* A client that received what it has a cursor for asks for what follows.    *)
LEMMA CursorIsLength == ClientOK => Cursor = Len(client.received)
<1> SUFFICES ASSUME ClientOK PROVE Cursor = Len(client.received)
    OBVIOUS
<1>1. client.received \in Seq(Nat) /\ Counts(client.received, 0)
    BY DEF ClientOK
<1>2. CASE client.received = <<>>
    BY <1>2 DEF Cursor
<1>3. CASE client.received # <<>>
  <2>1. Len(client.received) \in 1 .. Len(client.received)
      BY <1>1, <1>3
  <2>2. client.received[Len(client.received)] = 0 + Len(client.received)
      BY <1>1, <2>1 DEF Counts
  <2> QED BY <1>3, <2>1, <2>2 DEF Cursor, Last
<1> QED BY <1>2, <1>3

(* A closed connection is one. *)
LEMMA ClosedIs == Closed \in Connections /\ Closed.state = "closed"
BY DEF Closed, Connections

(* What a step of the client has to leave of it.                             *)
LEMMA ClientSteps ==
    ASSUME UNCHANGED agentRun, NEW received \in Seq(Nat), NEW c \in Connections, NEW ended \in BOOLEAN,
           client' = [received |-> received, connection |-> c, ended |-> ended],
           Counts(received, 0), Len(received) <= agentRun.last,
           ended => agentRun.terminal /\ Len(received) >= agentRun.endedAt,
           c.state # "closed" => c.sequence = Len(received),
           c.state = "sending" =>
               /\ Counts(c.batch, c.sequence) /\ c.sequence + Len(c.batch) <= agentRun.last
               /\ c.terminal => agentRun.terminal /\ agentRun.endedAt <= c.last
    PROVE  ClientOK'
BY DEF ClientOK

(* A client that connects goes on behind what it has received. *)
LEMMA ConnectKept == ASSUME LogOK, ClientOK, Connect PROVE ClientOK'
<1> DEFINE c == [Closed EXCEPT !.state = "waiting", !.sequence = Cursor]
<1>1. client \in [received : Seq(Nat), connection : Connections, ended : BOOLEAN]
    BY DEF ClientOK
<1>2. client' = [received |-> client.received, connection |-> c, ended |-> client.ended]
      /\ UNCHANGED agentRun
    BY <1>1 DEF Connect
<1>3. Cursor = Len(client.received) /\ Cursor \in Nat
    BY <1>1, CursorIsLength
<1>4. c \in Connections /\ c.state = "waiting" /\ c.sequence = Cursor
    BY <1>3, ClosedIs DEF Connections
<1> HIDE DEF c
<1> QED BY <1>1, <1>2, <1>3, <1>4, ClientSteps DEF ClientOK

(* A poll returns the next events after the cursor. *)
LEMMA PollKept == ASSUME LogOK, ClientOK, Poll PROVE ClientOK'
<1> DEFINE at == client.connection.sequence
           c == [state |-> "sending", sequence |-> at, batch |-> EventsAfter(at),
                 last |-> agentRun.last, terminal |-> agentRun.terminal]
<1>1. /\ client \in [received : Seq(Nat), connection : Connections, ended : BOOLEAN]
      /\ at = Len(client.received) /\ at <= agentRun.last
    BY DEF Poll, ClientOK
<1>2. client' = [received |-> client.received, connection |-> c, ended |-> client.ended]
      /\ UNCHANGED agentRun
    BY <1>1 DEF Poll
<1>3. at \in Nat /\ agentRun.last = Len(log) /\ agentRun.last \in Nat /\ agentRun.terminal \in BOOLEAN
    BY <1>1 DEF LogOK
<1>4. Counts(EventsAfter(at), at) /\ Len(EventsAfter(at)) = agentRun.last - at
    BY <1>1, <1>3, EventsAfterCount
<1>5. EventsAfter(at) \in Seq(Nat)
    BY <1>4 DEF Counts
<1>6. c \in Connections /\ c.state = "sending" /\ c.sequence = at /\ c.batch = EventsAfter(at)
      /\ c.last = agentRun.last /\ c.terminal = agentRun.terminal
    BY <1>3, <1>5 DEF Connections
<1>7. at + Len(EventsAfter(at)) <= agentRun.last
    BY <1>3, <1>4
<1>8. agentRun.terminal => agentRun.endedAt <= agentRun.last
    BY DEF LogOK
<1> HIDE DEF c, at
<1> QED BY <1>1, <1>2, <1>4, <1>6, <1>7, <1>8, ClientSteps DEF ClientOK

(* The next event is sent and the cursor follows it. *)
LEMMA SendEventKept == ASSUME LogOK, ClientOK, SendEvent PROVE ClientOK'
<1> DEFINE old == client.connection
           received == Append(client.received, Head(old.batch))
           c == [old EXCEPT !.sequence = Head(old.batch), !.batch = Tail(old.batch)]
<1>1. /\ client \in [received : Seq(Nat), connection : Connections, ended : BOOLEAN]
      /\ old.state = "sending" /\ old.batch # <<>>
      /\ old.sequence = Len(client.received) /\ Counts(old.batch, old.sequence)
      /\ old.sequence + Len(old.batch) <= agentRun.last
      /\ Counts(client.received, 0)
    BY DEF SendEvent, ClientOK
<1>2. client' = [received |-> received, connection |-> c, ended |-> client.ended]
      /\ UNCHANGED agentRun
    BY <1>1 DEF SendEvent
<1>3. old \in Connections /\ old.sequence \in Nat
    BY <1>1
<1>4. /\ Head(old.batch) = old.sequence + 1 /\ Counts(Tail(old.batch), old.sequence + 1)
      /\ Len(Tail(old.batch)) = Len(old.batch) - 1
    BY <1>1, <1>3, CountsTail
<1>5. Head(old.batch) \in Nat /\ Tail(old.batch) \in Seq(Nat) /\ Len(old.batch) \in Nat
    BY <1>1, <1>3, <1>4 DEF Counts
<1>6. /\ c \in Connections /\ c.state = "sending" /\ c.sequence = Head(old.batch)
      /\ c.batch = Tail(old.batch) /\ c.last = old.last /\ c.terminal = old.terminal
    BY <1>1, <1>3, <1>5 DEF Connections
<1>7. received \in Seq(Nat) /\ Len(received) = Len(client.received) + 1
    BY <1>1, <1>5
<1>8. Counts(received, 0)
  <2>1. Head(old.batch) = 0 + Len(client.received) + 1
      BY <1>1, <1>3, <1>4
  <2> QED BY <1>1, <2>1, CountsAppend
<1> HIDE DEF received, c
<1>9. Len(received) <= agentRun.last /\ c.sequence = Len(received)
      /\ c.sequence + Len(c.batch) <= agentRun.last
  <2>1. agentRun.last \in Nat /\ Len(old.batch) > 0
      BY <1>1, <1>5 DEF LogOK
  <2> QED BY <1>1, <1>3, <1>4, <1>5, <1>6, <1>7, <2>1
<1>10. client.ended => agentRun.terminal /\ Len(received) >= agentRun.endedAt
  <2>1. agentRun.endedAt \in Nat /\ Len(client.received) \in Nat
      BY <1>1 DEF LogOK
  <2> QED BY <1>7, <2>1 DEF ClientOK
<1>11. old.terminal => agentRun.terminal /\ agentRun.endedAt <= old.last
    BY <1>1 DEF ClientOK
<1>12. Counts(c.batch, c.sequence)
    BY <1>4, <1>6
<1>13. client.ended \in BOOLEAN
    BY <1>1
<1> HIDE DEF old
<1> QED BY <1>2, <1>6, <1>7, <1>8, <1>9, <1>10, <1>11, <1>12, <1>13, ClientSteps

(* The end of a batch: the stream ends with the run, or goes on.             *)
LEMMA EndPollKept == ASSUME LogOK, ClientOK, EndPoll PROVE ClientOK'
<1> DEFINE old == client.connection
           c == [old EXCEPT !.state = "waiting"]
<1>1. /\ client \in [received : Seq(Nat), connection : Connections, ended : BOOLEAN]
      /\ old.state = "sending" /\ old.sequence = Len(client.received) /\ UNCHANGED agentRun
    BY DEF EndPoll, ClientOK
<1>2. CASE StreamIsComplete(old)
  <2>1. client' = [received |-> client.received, connection |-> Closed, ended |-> TRUE]
      BY <1>1, <1>2 DEF EndPoll
  <2>2. old.terminal /\ old.sequence >= old.last
      BY <1>2 DEF StreamIsComplete
  <2>3. agentRun.terminal /\ agentRun.endedAt <= old.last
      BY <1>1, <2>2 DEF ClientOK
  <2>4. Len(client.received) >= agentRun.endedAt
    <3>1. agentRun.endedAt \in Nat /\ old.last \in Nat /\ old.sequence \in Nat
        BY <1>1 DEF LogOK, Connections
    <3> QED BY <1>1, <2>2, <2>3, <3>1
  <2> QED BY <1>1, <2>1, <2>3, <2>4, ClosedIs, ClientSteps DEF ClientOK
<1>3. CASE ~StreamIsComplete(old)
  <2>1. client' = [received |-> client.received, connection |-> c, ended |-> client.ended]
      BY <1>1, <1>3 DEF EndPoll
  <2>2. c \in Connections /\ c.state = "waiting" /\ c.sequence = old.sequence
      BY <1>1 DEF Connections
  <2> HIDE DEF c
  <2> QED BY <1>1, <2>1, <2>2, ClientSteps DEF ClientOK
<1> QED BY <1>2, <1>3

(* A client that is cut off keeps what it has received. *)
LEMMA DisconnectKept == ASSUME LogOK, ClientOK, Disconnect PROVE ClientOK'
<1>1. client \in [received : Seq(Nat), connection : Connections, ended : BOOLEAN]
    BY DEF ClientOK
<1>2. client' = [received |-> client.received, connection |-> Closed, ended |-> client.ended]
      /\ UNCHANGED agentRun
    BY <1>1 DEF Disconnect
<1> QED BY <1>1, <1>2, ClosedIs, ClientSteps DEF ClientOK

(* A page of events goes on from the cursor.                                 *)
LEMMA GetEventSnapshotKept == ASSUME LogOK, ClientOK, GetEventSnapshot PROVE ClientOK'
<1> DEFINE at == Len(client.received)
           after == EventsAfter(Cursor)
           size == IF Len(after) < Page THEN Len(after) ELSE Page
           page == SubSeq(after, 1, size)
           received == client.received \o page
<1>1. /\ client \in [received : Seq(Nat), connection : Connections, ended : BOOLEAN]
      /\ client.connection.state = "closed" /\ UNCHANGED agentRun
      /\ Counts(client.received, 0) /\ at <= agentRun.last
    BY DEF GetEventSnapshot, ClientOK
<1>2. client' = [received |-> received, connection |-> client.connection, ended |-> client.ended]
    BY <1>1 DEF GetEventSnapshot
<1>3. at \in Nat /\ Cursor = at /\ agentRun.last = Len(log) /\ agentRun.last \in Nat
    BY <1>1, CursorIsLength DEF LogOK
<1>4. Counts(after, at) /\ Len(after) = agentRun.last - at
    BY <1>1, <1>3, EventsAfterCount
<1>5. size \in 0 .. Len(after)
  <2>1. Len(after) \in Nat /\ Page \in Nat
      BY <1>4, EventLogAssumption DEF Counts
  <2> QED BY <2>1
<1> HIDE DEF size, after, at
<1>6. Counts(page, at) /\ Len(page) \in 0 .. Len(after)
  <2>1. Counts(SubSeq(after, 1, size), at) /\ Len(SubSeq(after, 1, size)) = size
      BY <1>3, <1>4, <1>5, CountsFirst
  <2> QED BY <1>5, <2>1
<1> HIDE DEF page
<1>7. Counts(received, 0) /\ Len(received) = at + Len(page)
  <2>1. Counts(page, 0 + Len(client.received))
      BY <1>3, <1>6 DEF at
  <2> QED BY <1>1, <2>1, CountsConcat DEF at
<1> HIDE DEF received
<1>8. received \in Seq(Nat) /\ Len(received) <= agentRun.last /\ at <= Len(received)
    BY <1>3, <1>4, <1>6, <1>7 DEF Counts
<1>9. client.ended => agentRun.terminal /\ Len(received) >= agentRun.endedAt
  <2>1. client.ended => agentRun.terminal /\ at >= agentRun.endedAt
      BY DEF ClientOK, at
  <2>2. agentRun.endedAt \in Nat /\ Len(received) \in Nat
      BY <1>8 DEF LogOK
  <2> QED BY <1>3, <1>8, <2>1, <2>2
<1> QED BY <1>1, <1>2, <1>7, <1>8, <1>9, ClientSteps

(* No step of a client makes it miss or repeat an event. *)
LEMMA ClientStepKept ==
    ASSUME LogOK, ClientOK, ClientStep PROVE ClientOK'
BY ConnectKept, PollKept, SendEventKept, EndPollKept, DisconnectKept, GetEventSnapshotKept DEF ClientStep

-----------------------------------------------------------------------------
(* The outbox *)

(* There is one outbox row for each event of the log, and its counters are numbers. *)
LEMMA OutboxBasics ==
    ASSUME OutboxOK, LogOK
    PROVE  /\ DOMAIN outbox = 1 .. Len(log) /\ DOMAIN outbox \subseteq Numbers
           /\ \A n \in DOMAIN outbox :
                  outbox[n] \in OutboxRows /\ outbox[n].attempts \in Nat /\ delivered[n] \in Nat
           /\ MaxAttempts \in Nat /\ MaxAttempts > 0 /\ faults \in Nat
<1>1. Len(log) \in Nat /\ Len(log) <= MaxEvents /\ MaxEvents \in Nat
    BY EventLogAssumption DEF LogOK, Counts
<1>2. DOMAIN outbox = 1 .. Len(log) /\ DOMAIN outbox \subseteq Numbers
    BY <1>1 DEF OutboxOK, Numbers
<1>3. ASSUME NEW n \in DOMAIN outbox
      PROVE  outbox[n] \in OutboxRows /\ outbox[n].attempts \in Nat /\ delivered[n] \in Nat
    BY <1>2 DEF OutboxOK, OutboxRows
<1>4. MaxAttempts \in Nat /\ MaxAttempts > 0 /\ faults \in Nat
    BY EventLogAssumption DEF OutboxOK
<1> QED BY <1>2, <1>3, <1>4

(* A publisher that has nothing locked holds nothing. *)
LEMMA NoPublishHolds ==
    /\ NoPublish.outcome = [n \in {} |-> "none"] /\ DOMAIN NoPublish.outcome = {}
    /\ NoPublish.state = "idle"
    /\ \A box, seen : HoldsOK(NoPublish, box, seen)
<1>1. NoPublish.outcome = [n \in {} |-> "none"] /\ NoPublish.state = "idle" /\ NoPublish.at = 0
      /\ NoPublish = [state |-> NoPublish.state, at |-> NoPublish.at, outcome |-> NoPublish.outcome]
    BY DEF NoPublish
<1>2. DOMAIN NoPublish.outcome = {}
    BY <1>1
<1>3. NoPublish.outcome = [n \in DOMAIN NoPublish.outcome |-> NoPublish.outcome[n]]
    BY <1>1
<1> QED BY <1>1, <1>2, <1>3 DEF HoldsOK

(* A count at most one over an old bound and one over a later one.           *)
LEMMA Squeezed ==
    ASSUME NEW d \in Nat, NEW f \in Nat, NEW g \in Nat, f <= g, d <= f + 1, d = g + 1
    PROVE  g = f /\ d = f + 1
OBVIOUS

(* A row of which nothing has changed is as sound as before.                 *)
LEMMA RowStays ==
    ASSUME OutboxOK, LogOK, NEW n \in DOMAIN outbox, outbox'[n] = outbox[n],
           delivered'[n] = delivered[n], faults' \in Nat, faults <= faults', drilled \subseteq drilled',
           Taken(n) => Taken(n)' \/ faults < faults'
    PROVE  RowOK(n)'
<1>1. RowOK(n) /\ delivered[n] \in Nat /\ faults \in Nat
    BY OutboxBasics DEF OutboxOK
<1>2. delivered'[n] <= faults' + 1
    BY <1>1 DEF RowOK
<1>3. ASSUME delivered'[n] = faults' + 1
      PROVE  outbox'[n].status = "published" \/ Taken(n)'
  <2>1. faults' = faults /\ delivered[n] = faults + 1
    <3>1. delivered[n] <= faults + 1
        BY <1>1 DEF RowOK
    <3>2. delivered[n] = faults' + 1
        BY <1>3
    <3> QED BY ONLY <3>1, <3>2, Squeezed, <1>1, faults' \in Nat, faults <= faults'
  <2>2. outbox[n].status = "published" \/ Taken(n)
      BY <1>1, <2>1 DEF RowOK
  <2> QED BY <1>1, <2>1, <2>2
<1> QED BY <1>1, <1>2, <1>3 DEF RowOK

(* New rows come behind the old ones, and nobody has seen their events.      *)
LEMMA CommitEventsOutbox ==
    ASSUME LogOK, WritersOK, OutboxOK, NEW w \in Writers, CommitEvents(w)
    PROVE  OutboxOK'
<1>1. /\ LogOK'
      /\ Len(log') = Len(log) + Len(writer[w].added)
      /\ ToSet(writer[w].added) = (Len(log) + 1) .. Len(log')
    BY CommitEventsKept
<1>2. Len(log) \in Nat /\ Len(log') \in Nat /\ Len(log) <= Len(log') /\ Len(log') <= MaxEvents
  <2>1. Len(writer[w].added) \in Nat /\ Len(log) \in Nat
      BY DEF WritersOK, Sessions, LogOK, Counts
  <2> QED BY <1>1, <2>1 DEF LogOK
<1>3. DOMAIN outbox = 1 .. Len(log) /\ DOMAIN outbox \cup ToSet(writer[w].added) = 1 .. Len(log')
    BY <1>1, <1>2, OutboxBasics
<1>4. /\ outbox' = [n \in 1 .. Len(log') |-> IF n \in DOMAIN outbox THEN outbox[n] ELSE Pending]
      /\ UNCHANGED <<publisher, delivered, faults, drilled>>
    BY <1>3 DEF CommitEvents
<1>5. Pending \in OutboxRows /\ Pending.status = "pending" /\ Pending.attempts = 0
    BY DEF Pending, OutboxRows
<1>6. outbox' \in [1 .. Len(log') -> OutboxRows] /\ DOMAIN outbox \subseteq DOMAIN outbox'
      /\ \A n \in DOMAIN outbox : outbox'[n] = outbox[n]
    BY <1>2, <1>3, <1>4, <1>5, OutboxBasics
<1>7. ASSUME NEW n \in 1 .. Len(log') PROVE RowOK(n)'
  <2>1. CASE n \in DOMAIN outbox
    <3>1. Taken(n) => Taken(n)'
        BY <1>4 DEF Taken
    <3>2. faults \in Nat /\ n \in DOMAIN outbox
        BY <2>1, OutboxBasics
    <3>3. /\ outbox'[n] = outbox[n] /\ delivered'[n] = delivered[n]
          /\ faults' \in Nat /\ faults <= faults' /\ drilled \subseteq drilled'
        BY <1>4, <1>6, <3>2
    <3>4. Taken(n) => Taken(n)' \/ faults < faults'
        BY <3>1
    <3> HIDE DEF Taken, RowOK
    <3> QED BY <3>2, <3>3, <3>4, RowStays
  <2>2. CASE n \notin DOMAIN outbox
    <3>1. outbox'[n] = Pending /\ delivered[n] = 0
      <4>1. n \in Numbers
          BY <1>2, EventLogAssumption DEF Numbers
      <4> QED BY <1>4, <2>2, <4>1 DEF OutboxOK
    <3>2. faults \in Nat /\ MaxAttempts > 0 /\ MaxAttempts \in Nat
        BY OutboxBasics
    <3> QED BY <1>4, <1>5, <3>1, <3>2 DEF RowOK
  <2> QED BY <2>1, <2>2
<1>8. \A p \in Publishers : HoldsOK(publisher[p], outbox', delivered)
    BY <1>6 DEF OutboxOK, HoldsOK
<1> QED BY <1>4, <1>6, <1>7, <1>8 DEF OutboxOK, HeldApart

(* Another publisher's record, with the rows it does not hold.               *)
LEMMA PublisherChanges ==
    ASSUME OutboxOK, NEW p \in Publishers, NEW new, publisher' = [publisher EXCEPT ![p] = new],
           \A q \in Publishers \ {p} :
               /\ DOMAIN new.outcome \cap DOMAIN publisher[q].outcome = {}
               /\ HoldsOK(publisher[q], outbox', delivered'),
           HoldsOK(new, outbox', delivered')
    PROVE  /\ publisher' = [q \in Publishers |-> publisher'[q]]
           /\ \A q \in Publishers : publisher'[q] = IF q = p THEN new ELSE publisher[q]
           /\ \A q \in Publishers : HoldsOK(publisher'[q], outbox', delivered')
           /\ HeldApart'
<1>1. \A q \in Publishers : publisher'[q] = IF q = p THEN new ELSE publisher[q]
    BY DEF OutboxOK
<1>2. publisher' = [q \in Publishers |-> publisher'[q]]
    BY DEF OutboxOK
<1>3. HeldApart'
    BY <1>1 DEF OutboxOK, HeldApart
<1> QED BY <1>1, <1>2, <1>3

(* What is publishable is held by nobody.                                    *)
LEMMA PublishableIsFree ==
    ASSUME OutboxOK, NEW p \in Publishers, publisher[p].state = "idle",
           NEW n \in Oldest(Publishable(p))
    PROVE  /\ n \in DOMAIN outbox /\ outbox[n].status \in {"pending", "failed"}
           /\ \A q \in Publishers : n \notin DOMAIN publisher[q].outcome
           /\ ~Taken(n)
<1>1. n \in DOMAIN outbox /\ outbox[n].status \in {"pending", "failed"} /\ n \notin Held(p)
    BY DEF Oldest, Publishable
<1>2. DOMAIN publisher[p].outcome = {}
    BY DEF OutboxOK, HoldsOK
<1> QED BY <1>1, <1>2 DEF Held, Taken

(* A publisher locks rows that are due and that nobody else has. *)
LEMMA LockOutboxKept ==
    ASSUME LogOK, OutboxOK, NEW p \in Publishers, LockOutbox(p), UNCHANGED log
    PROVE  OutboxOK'
<1> DEFINE held == [n \in Oldest(Publishable(p)) |-> "none"]
           new == [state |-> "publishing", at |-> 0, outcome |-> held]
<1>1. /\ publisher[p].state = "idle" /\ publisher' = [publisher EXCEPT ![p] = new]
      /\ UNCHANGED <<outbox, delivered, faults, drilled>>
    BY DEF LockOutbox
<1>2. HoldsOK(new, outbox, delivered)
    BY <1>1, PublishableIsFree DEF HoldsOK
<1>3. \A q \in Publishers \ {p} :
          /\ DOMAIN new.outcome \cap DOMAIN publisher[q].outcome = {}
          /\ HoldsOK(publisher[q], outbox, delivered)
    BY <1>1, PublishableIsFree DEF OutboxOK
<1> HIDE DEF new
<1>4. /\ publisher' = [q \in Publishers |-> publisher'[q]]
      /\ \A q \in Publishers : publisher'[q] = IF q = p THEN new ELSE publisher[q]
      /\ \A q \in Publishers : HoldsOK(publisher'[q], outbox', delivered')
      /\ HeldApart'
    BY <1>1, <1>2, <1>3, PublisherChanges
<1>5. DOMAIN publisher[p].outcome = {}
    BY <1>1 DEF OutboxOK, HoldsOK
<1>6. ASSUME NEW n \in DOMAIN outbox PROVE RowOK(n)'
  <2>1. Taken(n) => Taken(n)'
      BY <1>4, <1>5 DEF Taken
  <2> QED BY <1>1, <2>1, OutboxBasics, RowStays
<1> QED BY <1>1, <1>4, <1>6 DEF OutboxOK

(* A publisher that dies lets its rows go as they were. *)
LEMMA PublisherDiesKept ==
    ASSUME LogOK, OutboxOK, NEW p \in Publishers, PublisherDies(p), UNCHANGED log
    PROVE  OutboxOK'
<1>1. /\ publisher' = [publisher EXCEPT ![p] = NoPublish] /\ faults' = faults + 1
      /\ UNCHANGED <<outbox, delivered, drilled>>
    BY DEF PublisherDies
<1>2. \A q \in Publishers \ {p} :
          /\ DOMAIN NoPublish.outcome \cap DOMAIN publisher[q].outcome = {}
          /\ HoldsOK(publisher[q], outbox', delivered')
    BY <1>1, NoPublishHolds DEF OutboxOK
<1>3. /\ publisher' = [q \in Publishers |-> publisher'[q]]
      /\ \A q \in Publishers : HoldsOK(publisher'[q], outbox', delivered')
      /\ HeldApart'
    BY <1>1, <1>2, NoPublishHolds, PublisherChanges
<1>4. faults \in Nat /\ faults' \in Nat /\ faults < faults'
    BY <1>1, OutboxBasics
<1>5. ASSUME NEW n \in DOMAIN outbox PROVE RowOK(n)'
    BY <1>1, <1>4, RowStays
<1> QED BY <1>1, <1>3, <1>4, <1>5 DEF OutboxOK

(* One delivery more: of a row that was not delivered before, or a fault.    *)
LEMMA DeliverKept ==
    ASSUME LogOK, OutboxOK, NEW p \in Publishers, NEW outcome \in {"taken", "refused", "raised"},
           Deliver(p, outcome), UNCHANGED log
    PROVE  OutboxOK'
<1> DEFINE b == publisher[p]
           value == IF outcome = "taken" THEN "published" ELSE "failed"
<1>1. PICK n \in DOMAIN b.outcome :
          /\ n > b.at
          /\ publisher' = [publisher EXCEPT ![p].at = n, ![p].outcome[n] = value]
          /\ delivered' = [delivered EXCEPT ![n] = IF outcome = "refused" THEN @ ELSE @ + 1]
    BY DEF Deliver
<1> DEFINE held == [b.outcome EXCEPT ![n] = value]
           new == [state |-> b.state, at |-> n, outcome |-> held]
<1>2. /\ UNCHANGED <<outbox, drilled>> /\ faults' = IF outcome = "raised" THEN faults + 1 ELSE faults
      /\ b.state = "publishing"
    BY DEF Deliver
<1>3. HoldsOK(b, outbox, delivered)
    BY DEF OutboxOK
<1>4. publisher' = [publisher EXCEPT ![p] = new]
  <2>1. b = [state |-> b.state, at |-> b.at, outcome |-> b.outcome]
      BY <1>3 DEF HoldsOK
  <2>2. publisher = [q \in Publishers |-> publisher[q]]
      BY DEF OutboxOK
  <2>3. publisher' = [publisher EXCEPT ![p] = [[b EXCEPT !.at = n] EXCEPT !.outcome[n] = value]]
      BY <1>1, <2>2
  <2>4. [[b EXCEPT !.at = n] EXCEPT !.outcome[n] = value] = new
    <3> DEFINE c == [b EXCEPT !.at = n]
    <3>1. c = [state |-> b.state, at |-> n, outcome |-> b.outcome]
        BY <2>1
    <3> HIDE DEF c
    <3>2. c.outcome = b.outcome /\ c.state = b.state /\ c.at = n
        BY <3>1
    <3>3. [c EXCEPT !.outcome[n] = value] = [c EXCEPT !.outcome = held]
        BY <3>2
    <3> HIDE DEF held, value
    <3>4. [c EXCEPT !.outcome = held] = new
        BY <3>1
    <3>5. [c EXCEPT !.outcome[n] = value] = new
        BY <3>3, <3>4
    <3> HIDE DEF new
    <3> QED BY <3>5 DEF c
  <2> HIDE DEF new, value
  <2> QED BY <2>3, <2>4
<1>5. /\ n \in DOMAIN outbox /\ n \in Nat /\ n \in Numbers
      /\ outbox[n].status \in {"pending", "failed"} /\ b.outcome[n] = "none"
  <2>1. n \in DOMAIN outbox /\ outbox[n].status \in {"pending", "failed"} /\ b.outcome[n] = "none"
      BY <1>1, <1>3 DEF HoldsOK
  <2> QED BY <2>1, OutboxBasics DEF Numbers
<1>6. /\ delivered[n] \in Nat /\ faults \in Nat /\ faults' \in Nat /\ faults <= faults'
      /\ delivered' \in [Numbers -> Nat]
      /\ delivered'[n] = IF outcome = "refused" THEN delivered[n] ELSE delivered[n] + 1
      /\ \A m \in Numbers \ {n} : delivered'[m] = delivered[m]
    BY <1>1, <1>2, <1>5, OutboxBasics DEF OutboxOK
<1>7. \A m \in Numbers : delivered[m] \in Nat /\ delivered'[m] \in Nat /\ delivered[m] <= delivered'[m]
    BY <1>6 DEF OutboxOK
<1>8. DOMAIN outbox \subseteq Numbers
    BY OutboxBasics
<1>9. \A q \in Publishers \ {p} :
          /\ DOMAIN new.outcome \cap DOMAIN publisher[q].outcome = {}
          /\ HoldsOK(publisher[q], outbox', delivered')
  <2>1. \A q \in Publishers : HoldsOK(publisher[q], outbox', delivered')
      BY <1>2, <1>7, <1>8 DEF OutboxOK, HoldsOK
  <2> QED BY <2>1 DEF OutboxOK, HeldApart
<1>10. HoldsOK(new, outbox', delivered')
  <2>1. held = [m \in DOMAIN held |-> held[m]] /\ DOMAIN held = DOMAIN b.outcome
      BY <1>3 DEF HoldsOK
  <2>2. \A m \in DOMAIN held : held[m] = IF m = n THEN value ELSE b.outcome[m]
      BY <1>3 DEF HoldsOK
  <2>3. ASSUME NEW m \in DOMAIN held
        PROVE  /\ m \in DOMAIN outbox /\ outbox[m].status \in {"pending", "failed"}
               /\ held[m] \in {"none", "published", "failed"}
               /\ m > n => held[m] = "none"
               /\ held[m] = "published" => delivered'[m] >= 1
    <3>1. /\ m \in DOMAIN outbox /\ outbox[m].status \in {"pending", "failed"} /\ m \in Numbers
          /\ b.outcome[m] \in {"none", "published", "failed"}
          /\ m > b.at => b.outcome[m] = "none"
          /\ b.outcome[m] = "published" => delivered[m] >= 1
        BY <1>3, <1>8, <2>1, <2>3 DEF HoldsOK
    <3>2. CASE m = n
      <4>1. value = "published" => delivered'[n] >= 1
          BY <1>6
      <4> QED BY <1>5, <2>2, <2>3, <3>1, <3>2, <4>1
    <3>3. CASE m # n
      <4>1. m \in Nat /\ b.at \in Nat
          BY <1>3, <3>1 DEF HoldsOK, Numbers
      <4>2. m > n => m > b.at
          BY <1>1, <1>5, <4>1
      <4>3. held[m] = b.outcome[m] /\ delivered'[m] = delivered[m]
          BY <1>6, <2>2, <3>1, <3>3
      <4> QED BY <3>1, <4>2, <4>3
    <3> QED BY <3>2, <3>3
  <2> HIDE DEF held
  <2> QED BY <1>2, <1>5, <2>1, <2>3 DEF HoldsOK
<1> HIDE DEF new
<1>11. /\ publisher' = [q \in Publishers |-> publisher'[q]]
       /\ \A q \in Publishers : publisher'[q] = IF q = p THEN new ELSE publisher[q]
       /\ \A q \in Publishers : HoldsOK(publisher'[q], outbox', delivered')
       /\ HeldApart'
    BY <1>4, <1>9, <1>10, PublisherChanges
<1>12. /\ new.outcome[n] = value /\ DOMAIN new.outcome = DOMAIN b.outcome
       /\ \A m \in DOMAIN b.outcome \ {n} : new.outcome[m] = b.outcome[m]
    BY <1>1, <1>3 DEF new, HoldsOK
<1>13. RowOK(n)'
  <2>1. ~Taken(n)
      BY <1>1, <1>5 DEF OutboxOK, HeldApart, Taken
  <2>2. delivered[n] <= faults
      BY <1>5, <1>6, <2>1 DEF OutboxOK, RowOK
  <2>3. outcome = "taken" => Taken(n)'
      BY <1>1, <1>11, <1>12 DEF Taken
  <2>4. delivered'[n] <= faults' + 1 /\ (delivered'[n] = faults' + 1 => outcome = "taken")
      BY <1>2, <1>6, <2>2
  <2> QED BY <1>2, <1>5, <2>3, <2>4 DEF OutboxOK, RowOK
<1>14. ASSUME NEW m \in DOMAIN outbox, m # n PROVE RowOK(m)'
  <2>1. Taken(m) => Taken(m)'
      BY <1>11, <1>12, <1>14 DEF Taken
  <2>2. delivered'[m] = delivered[m]
      BY <1>6, <1>8, <1>14
  <2> QED BY <1>2, <1>6, <1>14, <2>1, <2>2, RowStays
<1>15. \A m \in Numbers \ DOMAIN outbox : delivered'[m] = 0
    BY <1>5, <1>6 DEF OutboxOK
<1> QED BY <1>2, <1>6, <1>11, <1>13, <1>14, <1>15 DEF OutboxOK

(* What came of the held rows is settled, and of no other.                   *)
LEMMA CommitOutboxKept ==
    ASSUME LogOK, OutboxOK, NEW p \in Publishers, CommitOutbox(p), UNCHANGED log
    PROVE  OutboxOK'
<1> DEFINE taken == publisher[p].outcome
<1>1. /\ \A n \in DOMAIN taken : taken[n] # "none"
      /\ outbox' = [n \in DOMAIN outbox |->
                       IF n \in DOMAIN taken THEN Published(outbox[n], taken[n]) ELSE outbox[n]]
      /\ publisher' = [publisher EXCEPT ![p] = NoPublish]
      /\ UNCHANGED <<delivered, faults, drilled>>
    BY DEF CommitOutbox
<1>2. ASSUME NEW n \in DOMAIN taken
      PROVE  /\ n \in DOMAIN outbox /\ outbox[n].status \in {"pending", "failed"}
             /\ taken[n] \in {"published", "failed"}
             /\ taken[n] = "published" => delivered[n] >= 1
             /\ outbox[n].attempts \in Nat /\ outbox[n].attempts < MaxAttempts
             /\ taken[n] = "failed" => ~Taken(n)
  <2>1. /\ n \in DOMAIN outbox /\ outbox[n].status \in {"pending", "failed"}
        /\ taken[n] \in {"published", "failed"}
        /\ taken[n] = "published" => delivered[n] >= 1
      BY <1>1, <1>2 DEF OutboxOK, HoldsOK
  <2>2. outbox[n].attempts \in Nat /\ outbox[n].attempts < MaxAttempts
      BY <2>1, OutboxBasics DEF OutboxOK, RowOK
  <2>3. taken[n] = "failed" => ~Taken(n)
      BY <1>2 DEF OutboxOK, HeldApart, Taken
  <2> QED BY <2>1, <2>2, <2>3
<1>3. ASSUME NEW n \in DOMAIN taken
      PROVE  LET row == Published(outbox[n], taken[n]) IN
             /\ row \in OutboxRows
             /\ taken[n] = "published" => row.status = "published"
             /\ taken[n] = "failed" =>
                    /\ row.status \in {"failed", "dead_letter"}
                    /\ row.status = "failed" => row.attempts < MaxAttempts
                    /\ row.status = "dead_letter" => row.attempts = MaxAttempts
  <2>1. outbox[n].attempts + 1 \in Nat /\ MaxAttempts \in Nat /\ outbox[n].attempts + 1 <= MaxAttempts
      BY <1>2, <1>3, OutboxBasics
  <2> DEFINE more == outbox[n].attempts + 1
  <2> HIDE DEF more
  <2>2. Published(outbox[n], taken[n]) =
            IF taken[n] = "published"
            THEN [status |-> "published", attempts |-> more, due |-> FALSE]
            ELSE [status |-> IF more >= MaxAttempts THEN "dead_letter" ELSE "failed",
                  attempts |-> more, due |-> FALSE]
      BY DEF Published, more
  <2>3. more \in Nat /\ MaxAttempts \in Nat /\ more <= MaxAttempts
      BY <2>1 DEF more
  <2>4. CASE taken[n] = "published"
      BY <2>2, <2>3, <2>4 DEF OutboxRows
  <2>5. CASE taken[n] = "failed"
      BY <2>2, <2>3, <2>5 DEF OutboxRows
  <2> QED BY <1>2, <1>3, <2>4, <2>5
<1>4. outbox' \in [1 .. Len(log) -> OutboxRows] /\ DOMAIN outbox' = DOMAIN outbox
  <2>1. \A n \in DOMAIN outbox :
            (IF n \in DOMAIN taken THEN Published(outbox[n], taken[n]) ELSE outbox[n]) \in OutboxRows
      BY <1>3, OutboxBasics
  <2> QED BY <1>1, <2>1, OutboxBasics
<1>5. \A n \in DOMAIN outbox :
          outbox'[n] = IF n \in DOMAIN taken THEN Published(outbox[n], taken[n]) ELSE outbox[n]
    BY <1>1
<1>6. \A q \in Publishers \ {p} :
          /\ DOMAIN NoPublish.outcome \cap DOMAIN publisher[q].outcome = {}
          /\ HoldsOK(publisher[q], outbox', delivered')
  <2>1. ASSUME NEW q \in Publishers \ {p}, NEW n \in DOMAIN publisher[q].outcome
        PROVE  n \in DOMAIN outbox' /\ outbox'[n] = outbox[n]
    <3>1. n \notin DOMAIN taken
        BY <2>1 DEF OutboxOK, HeldApart
    <3>2. n \in DOMAIN outbox
        BY <2>1 DEF OutboxOK, HoldsOK
    <3> QED BY <1>4, <1>5, <3>1, <3>2
  <2>2. ASSUME NEW q \in Publishers \ {p} PROVE HoldsOK(publisher[q], outbox', delivered')
    <3>1. HoldsOK(publisher[q], outbox, delivered)
        BY DEF OutboxOK
    <3>2. \A n \in DOMAIN publisher[q].outcome : n \in DOMAIN outbox' /\ outbox'[n] = outbox[n]
        BY <2>1
    <3> QED BY <1>1, <3>1, <3>2 DEF HoldsOK
  <2> QED BY <2>2, NoPublishHolds
<1>7. /\ publisher' = [q \in Publishers |-> publisher'[q]]
      /\ \A q \in Publishers : publisher'[q] = IF q = p THEN NoPublish ELSE publisher[q]
      /\ \A q \in Publishers : HoldsOK(publisher'[q], outbox', delivered')
      /\ HeldApart'
    BY <1>1, <1>6, NoPublishHolds, PublisherChanges
<1>8. ASSUME NEW n \in DOMAIN outbox PROVE RowOK(n)'
  <2>1. CASE n \in DOMAIN taken
    <3>1. RowOK(n) /\ delivered'[n] = delivered[n] /\ faults' = faults /\ drilled' = drilled
        BY <1>1 DEF OutboxOK
    <3>2. CASE taken[n] = "published"
        BY <1>2, <1>3, <1>5, <2>1, <3>1, <3>2 DEF RowOK
    <3>3. CASE taken[n] = "failed"
      <4>1. ~Taken(n) /\ outbox[n].status # "published"
          BY <1>2, <2>1, <3>3
      <4>2. delivered[n] # faults + 1
          BY <3>1, <4>1 DEF RowOK
      <4> QED BY <1>3, <1>5, <2>1, <3>1, <3>3, <4>2 DEF RowOK
    <3> QED BY <1>2, <2>1, <3>2, <3>3
  <2>2. CASE n \notin DOMAIN taken
    <3>1. Taken(n) => Taken(n)'
        BY <1>7, <2>2 DEF Taken
    <3> QED BY <1>1, <1>5, <2>2, <3>1, OutboxBasics, RowStays
  <2> QED BY <2>1, <2>2
<1> QED BY <1>1, <1>4, <1>7, <1>8 DEF OutboxOK

(* A drill gives up what nobody holds.                                       *)
LEMMA OutboxDrillKept ==
    ASSUME LogOK, OutboxOK, NEW p \in Publishers, OutboxDrill(p), UNCHANGED log
    PROVE  OutboxOK'
<1> DEFINE taken == Oldest(Publishable(p))
           Drilled(row) == [status |-> "dead_letter", attempts |-> row.attempts + 1, due |-> FALSE]
<1>1. /\ publisher[p].state = "idle"
      /\ outbox' = [n \in DOMAIN outbox |-> IF n \in taken THEN Drilled(outbox[n]) ELSE outbox[n]]
      /\ drilled' = drilled \cup taken /\ faults' = faults + 1
      /\ UNCHANGED <<publisher, delivered>>
    BY DEF OutboxDrill
<1>2. \A n \in taken : n \in DOMAIN outbox /\ \A q \in Publishers : n \notin DOMAIN publisher[q].outcome
    BY <1>1, PublishableIsFree
<1>3. \A n \in DOMAIN outbox : Drilled(outbox[n]) \in OutboxRows
    BY OutboxBasics DEF OutboxRows
<1> HIDE DEF taken
<1>4. \A n \in DOMAIN outbox : outbox'[n] = IF n \in taken THEN Drilled(outbox[n]) ELSE outbox[n]
    BY <1>1
<1>5. \A n \in DOMAIN outbox : Drilled(outbox[n]).status = "dead_letter"
    OBVIOUS
<1> HIDE DEF Drilled
<1>6. outbox' \in [1 .. Len(log) -> OutboxRows] /\ DOMAIN outbox' = DOMAIN outbox
    BY <1>1, <1>3, OutboxBasics
<1>7. faults \in Nat /\ faults' \in Nat /\ faults < faults'
    BY <1>1, OutboxBasics
<1>8. ASSUME NEW n \in DOMAIN outbox PROVE RowOK(n)'
  <2>1. CASE n \in taken
    <3>1. delivered[n] <= faults + 1 /\ delivered[n] \in Nat
        BY OutboxBasics DEF OutboxOK, RowOK
    <3>2. outbox'[n].status = "dead_letter" /\ n \in drilled'
        BY <1>1, <1>4, <1>5, <2>1
    <3>3. delivered'[n] <= faults' + 1 /\ delivered'[n] # faults' + 1
        BY <1>1, <1>7, <3>1
    <3> QED BY <3>2, <3>3 DEF RowOK
  <2>2. CASE n \notin taken
      BY <1>1, <1>4, <1>7, <2>2, RowStays
  <2> QED BY <2>1, <2>2
<1>9. \A q \in Publishers : HoldsOK(publisher[q], outbox', delivered)
    BY <1>2, <1>4, <1>6 DEF OutboxOK, HoldsOK
<1> QED BY <1>1, <1>6, <1>7, <1>8, <1>9 DEF OutboxOK, HeldApart

(* A row whose delay has passed is due again, with the attempts it had. *)
LEMMA RetryDelayPassesKept ==
    ASSUME LogOK, OutboxOK, NEW n, RetryDelayPasses(n), UNCHANGED log
    PROVE  OutboxOK'
<1>1. /\ n \in DOMAIN outbox /\ outbox' = [outbox EXCEPT ![n].due = TRUE]
      /\ UNCHANGED <<publisher, delivered, faults, drilled>>
    BY DEF RetryDelayPasses
<1> DEFINE row == [outbox[n] EXCEPT !.due = TRUE]
<1>2. row \in OutboxRows /\ row.status = outbox[n].status /\ row.attempts = outbox[n].attempts
    BY <1>1, OutboxBasics DEF OutboxRows
<1>3. outbox' = [outbox EXCEPT ![n] = row]
    BY <1>1
<1> HIDE DEF row
<1>4. /\ outbox' \in [1 .. Len(log) -> OutboxRows] /\ DOMAIN outbox' = DOMAIN outbox
      /\ \A m \in DOMAIN outbox :
             outbox'[m].status = outbox[m].status /\ outbox'[m].attempts = outbox[m].attempts
    BY <1>2, <1>3, OutboxBasics
<1>5. \A m \in DOMAIN outbox : Taken(m)' <=> Taken(m)
    BY <1>1 DEF Taken
<1>6. \A m \in DOMAIN outbox : RowOK(m)'
    BY <1>1, <1>4, <1>5 DEF OutboxOK, RowOK
<1>7. \A q \in Publishers : HoldsOK(publisher[q], outbox', delivered)
    BY <1>4 DEF OutboxOK, HoldsOK
<1> QED BY <1>1, <1>4, <1>6, <1>7 DEF OutboxOK, HeldApart

-----------------------------------------------------------------------------
(* The log as a whole *)

(* The initial states satisfy LInv. *)
LEMMA InitLInv == InitLog => LInv
<1> SUFFICES ASSUME InitLog PROVE LInv
    OBVIOUS
<1> USE DEF InitLog
<1>1. Len(<<>>) = 0 /\ <<>> \in Seq(Nat) /\ Counts(<<>>, 0) /\ MaxEvents \in Nat /\ MaxAttempts > 0
    BY CountsEmpty, EventLogAssumption
<1>2. LogOK
  <2>1. agentRun \in [last : Nat, terminal : BOOLEAN, endedAt : Nat] /\ agentRun.terminal = FALSE
        /\ agentRun.last = 0
      OBVIOUS
  <2> QED BY <1>1, <2>1 DEF LogOK
<1>3. WritersOK
  <2>1. \A w \in Writers : writer[w] = NoWrite
      OBVIOUS
  <2>2. writer \in [Writers -> Sessions]
      BY NoWriteIdle
  <2> QED BY <1>1, <2>1, <2>2, NoWriteIdle DEF WritersOK
<1>4. ClientOK
  <2>1. Closed \in Connections /\ Closed.state = "closed"
      BY ClosedIs
  <2>2. client.received = <<>> /\ client.connection = Closed /\ client.ended = FALSE
        /\ agentRun.last = 0
      OBVIOUS
  <2>3. client \in [received : Seq(Nat), connection : Connections, ended : BOOLEAN]
      BY <1>1, <2>1
  <2> QED BY <1>1, <2>1, <2>2, <2>3 DEF ClientOK
<1>5. OutboxOK
  <2>1. DOMAIN outbox = {} /\ outbox \in [1 .. Len(log) -> OutboxRows]
    <3>1. 1 .. Len(log) = {}
        BY <1>1
    <3> QED BY <3>1
  <2>2. \A p \in Publishers : publisher[p] = NoPublish
      OBVIOUS
  <2>3. HeldApart /\ \A p \in Publishers : HoldsOK(publisher[p], outbox, delivered)
      BY <2>2, NoPublishHolds DEF HeldApart
  <2>4. /\ publisher = [p \in Publishers |-> publisher[p]]
        /\ delivered \in [Numbers -> Nat] /\ faults \in Nat
        /\ \A n \in Numbers : delivered[n] = 0
      OBVIOUS
  <2> QED BY <2>1, <2>3, <2>4 DEF OutboxOK
<1> QED BY <1>2, <1>3, <1>4, <1>5 DEF LInv

(* What neither writes the log nor ends the run.                             *)
LEMMA LogStands == ASSUME LogOK, UNCHANGED <<log, agentRun>> PROVE LogOK'
BY DEF LogOK, Counts

(* Writers do not depend on the outbox or the client. *)
LEMMA WritersStand == ASSUME WritersOK, UNCHANGED <<log, agentRun, writer>> PROVE WritersOK'
BY DEF WritersOK, Counts, RunLocked

(* Clients do not depend on the outbox. *)
LEMMA ClientStands == ASSUME ClientOK, UNCHANGED <<agentRun, client>> PROVE ClientOK'
BY DEF ClientOK, Counts

(* The outbox does not depend on the client. *)
LEMMA OutboxStands ==
    ASSUME OutboxOK, UNCHANGED <<log, outbox, publisher, delivered, faults, drilled>> PROVE OutboxOK'
BY DEF OutboxOK, HoldsOK, HeldApart, RowOK, Taken

(* No step of the event log breaks LInv. *)
LEMMA NextLInv == ASSUME LInv, [NextLog]_logVars PROVE LInv'
<1>1. LogOK /\ WritersOK /\ ClientOK /\ OutboxOK
    BY DEF LInv
<1>2. CASE UNCHANGED logVars
    BY <1>1, <1>2, LogStands, WritersStand, ClientStands, OutboxStands DEF LInv, logVars
<1>3. ASSUME NEW w \in Writers, LoadRun(w) PROVE LInv'
  <2>1. UNCHANGED <<log, agentRun, outbox, publisher, delivered, client, faults, drilled>>
      BY <1>3 DEF LoadRun
  <2> QED BY <1>1, <1>3, <2>1, LoadRunKept, LogStands, ClientStands, OutboxStands DEF LInv
<1>4. ASSUME NEW w \in Writers, RollBackEvents(w) PROVE LInv'
  <2>1. /\ writer' = [writer EXCEPT ![w] = NoWrite]
        /\ UNCHANGED <<log, agentRun, outbox, publisher, delivered, client, faults, drilled>>
      BY <1>4 DEF RollBackEvents
  <2> QED BY <1>1, <1>4, <2>1, RollBackKept, LogStands, ClientStands, OutboxStands DEF LInv
<1>5. ASSUME NEW w \in Writers, NEW ends \in BOOLEAN, AppendEvent(w, ends) PROVE LInv'
  <2>1. UNCHANGED <<log, agentRun, outbox, publisher, delivered, client, faults, drilled>>
      BY <1>5 DEF AppendEvent
  <2> QED BY <1>1, <1>5, <2>1, AppendEventKept, LogStands, ClientStands, OutboxStands DEF LInv
<1>6. ASSUME NEW w \in Writers, CommitEvents(w) PROVE LInv'
  <2>1. UNCHANGED client
      BY <1>6 DEF CommitEvents
  <2>2. /\ LogOK' /\ WritersOK' /\ Len(log') = Len(log) + Len(writer[w].added)
        /\ agentRun.terminal => agentRun'.terminal /\ agentRun'.endedAt = agentRun.endedAt
      BY <1>1, <1>6, CommitEventsKept
  <2>3. Len(log) \in Nat /\ Len(writer[w].added) \in Nat
      BY <1>1 DEF LogOK, WritersOK, Counts
  <2>4. Len(log) <= Len(log')
      BY <2>2, <2>3
  <2>5. ClientOK'
      BY <1>1, <2>1, <2>2, <2>4, ClientFollows
  <2>6. OutboxOK'
      BY <1>1, <1>6, CommitEventsOutbox
  <2> QED BY <2>2, <2>5, <2>6 DEF LInv
<1>7. ASSUME NEW p \in Publishers, PublisherStep(p) PROVE LInv'
  <2>1. UNCHANGED <<log, agentRun, writer, client>>
      BY <1>7 DEF PublisherStep, LockOutbox, CommitOutbox, PublisherDies, OutboxDrill, Deliver
  <2>2. OutboxOK'
      BY <1>1, <1>7, <2>1, LockOutboxKept, CommitOutboxKept, PublisherDiesKept, OutboxDrillKept, DeliverKept
         DEF PublisherStep
  <2> QED BY <1>1, <2>1, <2>2, LogStands, WritersStand, ClientStands DEF LInv
<1>8. ASSUME NEW n \in Numbers, RetryDelayPasses(n) PROVE LInv'
  <2>1. UNCHANGED <<log, agentRun, writer, client>>
      BY <1>8 DEF RetryDelayPasses
  <2>2. OutboxOK'
      BY <1>1, <1>8, <2>1, RetryDelayPassesKept
  <2> QED BY <1>1, <2>1, <2>2, LogStands, WritersStand, ClientStands DEF LInv
<1>9. ASSUME ClientStep PROVE LInv'
  <2>1. UNCHANGED <<log, agentRun, writer, outbox, publisher, delivered, faults, drilled>>
      BY <1>9 DEF ClientStep, Connect, Poll, SendEvent, EndPoll, Disconnect, GetEventSnapshot
  <2>2. ClientOK'
      BY <1>1, <1>9, ClientStepKept
  <2> QED BY <1>1, <2>1, <2>2, LogStands, WritersStand, OutboxStands DEF LInv
<1> QED BY <1>2, <1>3, <1>4, <1>5, <1>6, <1>7, <1>8, <1>9 DEF NextLog, WriterStep

(* The log, its writers, its publishers and a client, whatever their order:  *)
(* what every step of append_event, of the publisher and of a stream keeps.  *)
THEOREM LogInvariance == SpecLog => []LInv
<1>1. InitLog => LInv
    BY InitLInv
<1>2. LInv /\ [NextLog]_logVars => LInv'
    BY NextLInv
<1> QED BY <1>1, <1>2, PTL DEF SpecLog

(* No gap and no number twice: the audit finds every log replayable, and     *)
(* the windows it replays from are valid cursors.                            *)
THEOREM Replay == SpecLog => []LogIsReplayable
<1>1. ASSUME LInv PROVE LogIsReplayable
  <2>1. /\ Len(log) \in Nat /\ agentRun.last = Len(log) /\ DOMAIN log = 1 .. Len(log)
        /\ \A i \in 1 .. Len(log) : log[i] = i
      BY <1>1 DEF LInv, LogOK, Counts
  <2>2. ToSet(log) = 1 .. agentRun.last
      BY <1>1, <2>1, LogSet DEF LInv
  <2>3. MissingSequences = {} /\ UnexpectedSequences = {}
      BY <2>2 DEF MissingSequences, UnexpectedSequences
  <2>4. DuplicateSequences = {}
    <3>1. ASSUME NEW n \in ToSet(log) PROVE Cardinality({i \in DOMAIN log : log[i] = n}) = 1
      <4>1. n \in 1 .. Len(log)
          BY <2>1, <2>2, <3>1
      <4>2. {i \in DOMAIN log : log[i] = n} = {n}
          BY <2>1, <4>1
      <4> QED BY <4>2, FS_Singleton
    <3> QED BY <3>1 DEF DuplicateSequences
  <2>5. ASSUME NEW count \in 1 .. 4 PROVE CursorWindows(agentRun.last, count) \subseteq 0 .. agentRun.last
    <3>1. agentRun.last \in Nat
        BY <2>1
    <3>2. CASE count <= 1 \/ agentRun.last <= 0
        BY <3>1, <3>2 DEF CursorWindows
    <3>3. CASE count = 2 /\ agentRun.last > 0
        BY <3>1, <3>3 DEF CursorWindows
    <3>4. CASE count \in 3 .. 4 /\ agentRun.last > 0
      <4>1. CursorWindows(agentRun.last, count) =
                {0, agentRun.last - 1} \cup {(agentRun.last * i) \div (count - 1) : i \in 1 .. (count - 2)}
          BY <3>1, <3>4 DEF CursorWindows
      <4>2. ASSUME NEW i \in 1 .. (count - 2)
            PROVE  (agentRun.last * i) \div (count - 1) \in 0 .. agentRun.last
        <5>1. CASE count = 3
          <6>1. i = 1
              BY <5>1
          <6>2. agentRun.last \div 2 \in 0 .. agentRun.last
              BY <3>1
          <6>3. agentRun.last * i = agentRun.last /\ count - 1 = 2
              BY <3>1, <5>1, <6>1
          <6> QED BY <6>2, <6>3
        <5>2. CASE count = 4
          <6>1. i = 1 \/ i = 2
              BY <5>2
          <6>2. agentRun.last \div 3 \in 0 .. agentRun.last
              BY <3>1
          <6>3. (agentRun.last * 2) \div 3 \in 0 .. agentRun.last
              BY <3>1
          <6>4. agentRun.last * 1 = agentRun.last /\ count - 1 = 3
              BY <3>1, <5>2
          <6> QED BY <6>1, <6>2, <6>3, <6>4
        <5> QED BY <3>4, <5>1, <5>2
      <4> QED BY <3>1, <3>4, <4>1, <4>2
    <3> QED BY <3>1, <3>2, <3>3, <3>4
  <2> QED BY <2>1, <2>3, <2>4, <2>5 DEF LogIsReplayable, Replayable
<1> QED BY <1>1, LogInvariance, PTL

(* A client that polls, streams, loses its connection and comes back has     *)
(* received the events from the first one on, each once and in order, and    *)
(* the one that ended the run when the server ended the stream.              *)
THEOREM StreamFollows == SpecLog => []StreamTellsLog
<1>1. ASSUME LInv PROVE StreamTellsLog
  <2>1. /\ client.received \in Seq(Nat)
        /\ \A i \in 1 .. Len(client.received) : client.received[i] = 0 + i
        /\ client.ended => agentRun.terminal /\ Len(client.received) >= agentRun.endedAt
      BY <1>1 DEF LInv, ClientOK, Counts
  <2>2. client.received = [i \in 1 .. Len(client.received) |-> i]
    <3>1. client.received = [i \in 1 .. Len(client.received) |-> client.received[i]]
        BY <2>1
    <3> QED BY <2>1, <3>1
  <2> QED BY <2>1, <2>2 DEF StreamTellsLog
<1> QED BY <1>1, LogInvariance, PTL

(* At least once, and more often only after a fault: a published event was   *)
(* seen by the callback, one given up had all its attempts or met a drill.   *)
THEOREM Delivery == SpecLog => []DeliveredOrGivenUp
<1>1. ASSUME LInv PROVE DeliveredOrGivenUp
  <2>1. ASSUME NEW n \in DOMAIN outbox
        PROVE  /\ outbox[n].status = "published" => delivered[n] >= 1
               /\ outbox[n].status = "dead_letter" => outbox[n].attempts = MaxAttempts \/ n \in drilled
               /\ delivered[n] <= 1 + faults
    <3>1. RowOK(n) /\ faults \in Nat
        BY <1>1 DEF LInv, OutboxOK
    <3> QED BY <3>1 DEF RowOK
  <2> QED BY <2>1 DEF DeliveredOrGivenUp
<1> QED BY <1>1, LogInvariance, PTL

-----------------------------------------------------------------------------
(* Debug sessions *)

(* An end of a counting sequence counts. *)
LEMMA CountsLast ==
    ASSUME NEW n \in Nat, NEW s, Counts(s, n), NEW k \in 0 .. Len(s)
    PROVE  Counts(SubSeq(s, k + 1, Len(s)), n + k) /\ Len(SubSeq(s, k + 1, Len(s))) = Len(s) - k
<1>1. s \in Seq(Nat) /\ Len(s) \in Nat
    BY DEF Counts
<1>2. Len(SubSeq(s, k + 1, Len(s))) = Len(s) - k /\ SubSeq(s, k + 1, Len(s)) \in Seq(Nat)
    BY <1>1
<1>3. \A i \in 1 .. Len(s) - k : SubSeq(s, k + 1, Len(s))[i] = s[k + i] /\ k + i \in 1 .. Len(s)
    BY <1>1, <1>2
<1> QED BY <1>1, <1>2, <1>3 DEF Counts

Debugs ==
    [listed : BOOLEAN, status : {"none", "connected", "disconnected", "error"}, open : BOOLEAN,
     log : Seq(Nat), next : Nat, idle : BOOLEAN]

(* Where the numbers of the messages that are still kept begin.              *)
Base(d) == d.next - 1 - Len(d.log)

(* The log counts up to the next number, and what came before was dropped.   *)
MessagesOK(d, gone) ==
    /\ d.next > 0 /\ Base(d) \in Nat /\ Counts(d.log, Base(d))
    /\ 1 .. Base(d) \subseteq gone

(* A poller has what it knows of, in order, but for what was dropped.        *)
PollerOK(p, d, gone) ==
    /\ p.known < d.next
    /\ \A i \in 1 .. Len(p.received) : p.received[i] <= p.known
    /\ \A i, j \in 1 .. Len(p.received) : i < j => p.received[i] < p.received[j]
    /\ 1 .. p.known \subseteq ToSet(p.received) \cup gone

DInv ==
    /\ debug \in Debugs /\ poller \in [known : Nat, received : Seq(Nat)]
    /\ MessagesOK(debug, dropped) /\ PollerOK(poller, debug, dropped)

(* The number before the first message still kept. *)
LEMMA BaseIs == ASSUME NEW d PROVE Base(d) = d.next - 1 - Len(d.log)
BY DEF Base

(* A session keeps its type when its log is replaced. *)
LEMMA DebugLogged ==
    ASSUME NEW d \in Debugs, NEW s \in Seq(Nat), NEW n \in Nat, NEW e,
           e = [listed |-> d.listed, status |-> d.status, open |-> d.open, log |-> s, next |-> n,
                idle |-> FALSE]
    PROVE  e \in Debugs /\ e.log = s /\ e.next = n
<1> DEFINE Logs == Seq(Nat)
<1> HIDE DEF Logs
<1>1. s \in Logs
    BY DEF Logs
<1>2. Debugs = [listed : BOOLEAN, status : {"none", "connected", "disconnected", "error"}, open : BOOLEAN,
                log : Logs, next : Nat, idle : BOOLEAN]
    BY DEF Debugs, Logs
<1> QED BY <1>1, <1>2

(* Steps that change neither the log nor the poller.                         *)
LEMMA SessionUnread ==
    ASSUME DInv, debug' \in Debugs, debug'.log = debug.log, debug'.next = debug.next,
           UNCHANGED <<poller, dropped>>
    PROVE  DInv'
BY DEF DInv, MessagesOK, PollerOK, Base

(* What leaves the log, the numbers and the poller alone breaks nothing. *)
LEMMA DebugTouched ==
    ASSUME DInv, UNCHANGED <<poller, dropped>>,
           \/ UNCHANGED debug
           \/ debug' = [debug EXCEPT !.listed = TRUE, !.status = "connected", !.open = TRUE]
           \/ debug' = [debug EXCEPT !.listed = FALSE]
           \/ \E idle \in BOOLEAN : debug' = [debug EXCEPT !.idle = idle]
           \/ MarkError
           \/ Close
    PROVE  DInv'
<1>1. debug \in Debugs
    BY DEF DInv
<1>2. CASE debug' = [debug EXCEPT !.listed = TRUE, !.status = "connected", !.open = TRUE]
    BY <1>1, <1>2, SessionUnread DEF Debugs
<1>3. CASE debug' = [debug EXCEPT !.listed = FALSE]
    BY <1>1, <1>3, SessionUnread DEF Debugs
<1>4. CASE \E idle \in BOOLEAN : debug' = [debug EXCEPT !.idle = idle]
    BY <1>1, <1>4, SessionUnread DEF Debugs
<1>5. CASE MarkError
    BY <1>1, <1>5, SessionUnread DEF Debugs, MarkError
<1>6. CASE Close
    BY <1>1, <1>6, SessionUnread DEF Debugs, Close, CloseStatus
<1>7. CASE UNCHANGED debug
    BY <1>1, <1>7, SessionUnread
<1> QED BY <1>2, <1>3, <1>4, <1>5, <1>6, <1>7

(* The next number is logged; what does not fit falls off at the front.      *)
LEMMA LogMessageKept ==
    ASSUME DInv, LogMessage, UNCHANGED poller
    PROVE  DInv'
<1> DEFINE all == Append(debug.log, debug.next)
           cut == IF Len(all) > Kept THEN Len(all) - Kept ELSE 0
           kept == SubSeq(all, cut + 1, Len(all))
           base == Base(debug)
<1>1. /\ debug \in Debugs /\ debug.log \in Seq(Nat) /\ debug.next \in Nat /\ debug.next > 0
      /\ base \in Nat /\ Counts(debug.log, base) /\ 1 .. base \subseteq dropped
      /\ poller \in [known : Nat, received : Seq(Nat)] /\ PollerOK(poller, debug, dropped)
      /\ Len(debug.log) \in Nat
    BY DEF DInv, MessagesOK, Debugs
<1>2. /\ debug' = [debug EXCEPT !.log = kept, !.next = debug.next + 1, !.idle = FALSE]
      /\ dropped' = dropped \cup ToSet(SubSeq(all, 1, cut))
    BY DEF LogMessage
<1>3. debug.next = base + Len(debug.log) + 1
    BY <1>1 DEF Base
<1>4. Counts(all, base) /\ Len(all) = Len(debug.log) + 1 /\ Len(all) \in Nat
    BY <1>1, <1>3, CountsAppend
<1>5. cut \in 0 .. Len(all)
    BY <1>4, KeptAssumption
<1> HIDE DEF all, cut
<1>6. Counts(kept, base + cut) /\ Len(kept) = Len(all) - cut
    BY <1>1, <1>4, <1>5, CountsLast
<1>7. ToSet(SubSeq(all, 1, cut)) = (base + 1) .. (base + cut)
  <2>1. Counts(SubSeq(all, 1, cut), base) /\ Len(SubSeq(all, 1, cut)) = cut
      BY <1>1, <1>4, <1>5, CountsFirst
  <2> QED BY <1>1, <2>1, CountsSet
<1>8. kept \in Seq(Nat)
    BY <1>6 DEF Counts
<1> HIDE DEF kept
<1>9. debug' \in Debugs /\ debug'.log = kept /\ debug'.next = debug.next + 1
  <2>1. debug.next + 1 \in Nat
      BY <1>1
  <2>2. debug' = [listed |-> debug.listed, status |-> debug.status, open |-> debug.open, log |-> kept,
                  next |-> debug.next + 1, idle |-> FALSE]
      BY <1>1, <1>2 DEF Debugs
  <2> QED BY <1>1, <1>8, <2>1, <2>2, DebugLogged
<1>10. Base(debug') = base + cut
  <2>1. Base(debug') = debug'.next - 1 - Len(debug'.log)
      BY BaseIs
  <2>2. Base(debug') = debug.next + 1 - 1 - (Len(all) - cut)
      BY <1>1, <1>4, <1>5, <1>6, <1>9, <2>1
  <2> HIDE DEF base
  <2> QED BY <1>1, <1>3, <1>4, <1>5, <2>2
<1>11. MessagesOK(debug', dropped')
  <2>1. base + cut \in Nat /\ debug.next + 1 > 0
      BY <1>1, <1>4, <1>5
  <2>2. 1 .. (base + cut) \subseteq dropped'
    <3>1. ASSUME NEW m \in 1 .. (base + cut) PROVE m \in dropped'
      <4>1. m \in 1 .. base \/ m \in (base + 1) .. (base + cut)
          BY <1>1, <1>4, <1>5
      <4> QED BY <1>1, <1>2, <1>7, <4>1
    <3> QED BY <3>1
  <2> QED BY <1>6, <1>9, <1>10, <2>1, <2>2 DEF MessagesOK
<1>12. PollerOK(poller, debug', dropped')
  <2>1. poller.known \in Nat /\ poller.known < debug.next
      BY <1>1 DEF PollerOK
  <2>2. poller.known < debug'.next
      BY <1>1, <1>9, <2>1
  <2> QED BY <1>1, <1>2, <2>2 DEF PollerOK
<1> QED BY <1>1, <1>9, <1>11, <1>12 DEF DInv

(* Cleared messages are counted as dropped, and numbers go on. *)
LEMMA ClearMessagesKept ==
    ASSUME DInv, ClearMessages
    PROVE  DInv'
<1>1. /\ debug \in Debugs /\ debug.log \in Seq(Nat) /\ debug.next \in Nat /\ debug.next > 0
      /\ Base(debug) \in Nat /\ Counts(debug.log, Base(debug)) /\ 1 .. Base(debug) \subseteq dropped
      /\ poller \in [known : Nat, received : Seq(Nat)] /\ PollerOK(poller, debug, dropped)
      /\ Len(debug.log) \in Nat
    BY DEF DInv, MessagesOK, Debugs
<1>2. /\ debug' = [debug EXCEPT !.log = <<>>, !.next = debug.next, !.idle = FALSE]
      /\ dropped' = dropped \cup ToSet(debug.log) /\ UNCHANGED poller
    BY DEF ClearMessages, NextAfterClear
<1>3. debug' \in Debugs /\ debug'.log = <<>> /\ debug'.next = debug.next
  <2>1. debug' = [listed |-> debug.listed, status |-> debug.status, open |-> debug.open, log |-> <<>>,
                  next |-> debug.next, idle |-> FALSE]
      BY <1>1, <1>2 DEF Debugs
  <2> DEFINE none == <<>>
  <2>2. none \in Seq(Nat) /\ debug \in Debugs /\ debug.next \in Nat
      BY <1>1
  <2>3. debug' = [listed |-> debug.listed, status |-> debug.status, open |-> debug.open, log |-> none,
                  next |-> debug.next, idle |-> FALSE]
      BY <2>1
  <2> HIDE DEF none
  <2>4. debug' \in Debugs /\ debug'.log = none /\ debug'.next = debug.next
      BY <2>2, <2>3, DebugLogged
  <2> QED BY <2>4 DEF none
<1>4. Base(debug') = debug.next - 1 /\ Base(debug) + Len(debug.log) = debug.next - 1
    BY <1>1, <1>3 DEF Base
<1>5. ToSet(debug.log) = (Base(debug) + 1) .. (debug.next - 1)
    BY <1>1, <1>4, CountsSet
<1>6. debug.next - 1 \in Nat
    BY <1>1
<1>7. 1 .. (debug.next - 1) \subseteq dropped'
  <2>1. ASSUME NEW m \in 1 .. (debug.next - 1) PROVE m \in dropped'
    <3>1. m \in 1 .. Base(debug) \/ m \in (Base(debug) + 1) .. (debug.next - 1)
        BY <1>1, <1>6
    <3> QED BY <1>1, <1>2, <1>5, <3>1
  <2> QED BY <2>1
<1>8. MessagesOK(debug', dropped')
    BY <1>1, <1>3, <1>4, <1>6, <1>7, CountsEmpty DEF MessagesOK
<1>9. PollerOK(poller, debug', dropped')
    BY <1>1, <1>2, <1>3 DEF PollerOK
<1> QED BY <1>1, <1>2, <1>3, <1>8, <1>9 DEF DInv

(* What is read after a number goes on from it, or from what is still kept.  *)
LEMMA MessagesAfterCounts ==
    ASSUME NEW n \in Nat, NEW s, Counts(s, n), NEW k \in 0 .. (n + Len(s))
    PROVE  LET from == IF k > n THEN k ELSE n IN
           /\ Counts(MessagesAfter(s, k), from)
           /\ from + Len(MessagesAfter(s, k)) = n + Len(s)
<1> DEFINE a == IF k > n THEN k - n ELSE 0
           later == {i \in DOMAIN s : s[i] > k}
           Place(j) == CHOOSE i \in later : Cardinality({m \in later : m < i}) = j - 1
           t == MessagesAfter(s, k)
<1>1. s \in Seq(Nat) /\ Len(s) \in Nat /\ DOMAIN s = 1 .. Len(s)
    BY DEF Counts
<1>2. a \in Nat /\ a <= Len(s) /\ (IF k > n THEN k ELSE n) = n + a
    BY <1>1
<1>3. later = (a + 1) .. Len(s)
  <2>1. \A i \in 1 .. Len(s) : s[i] = n + i
      BY DEF Counts
  <2>2. \A i \in 1 .. Len(s) : n + i > k <=> i >= a + 1
      BY <1>1
  <2> HIDE DEF a
  <2> QED BY <1>1, <1>2, <2>1, <2>2
<1> HIDE DEF a
<1>4. /\ InOrder(later) \in Seq(Nat) /\ Len(InOrder(later)) = Len(s) - a
      /\ \A j \in 1 .. (Len(s) - a) : InOrder(later)[j] = a + j
  <2>1. Counts(InOrder(later), a) /\ Len(InOrder(later)) = Len(s) - a
      BY <1>1, <1>2, <1>3, InOrderCounts
  <2> QED BY <2>1 DEF Counts
<1>5. InOrder(later) = [j \in 1 .. Cardinality(later) |-> Place(j)]
    BY DEF InOrder
<1>6. t = [j \in 1 .. Cardinality(later) |-> s[Place(j)]]
    BY DEF MessagesAfter
<1> HIDE DEF Place, t, later
<1>7. 1 .. Cardinality(later) = 1 .. (Len(s) - a)
  <2>1. DOMAIN InOrder(later) = 1 .. (Len(s) - a)
      BY <1>4
  <2> QED BY <1>5, <2>1
<1>8. t = [j \in 1 .. (Len(s) - a) |-> s[Place(j)]]
    BY <1>6, <1>7
<1>9. ASSUME NEW j \in 1 .. (Len(s) - a) PROVE t[j] = n + a + j
  <2>1. Place(j) = a + j
      BY <1>4, <1>5, <1>7
  <2>2. a + j \in 1 .. Len(s)
      BY <1>1, <1>2
  <2> QED BY <1>2, <1>8, <2>1, <2>2 DEF Counts
<1>10. t \in Seq(Nat) /\ Len(t) = Len(s) - a
  <2> DEFINE l == Len(s) - a
  <2>1. l \in Nat /\ t = [j \in 1 .. l |-> t[j]] /\ \A j \in 1 .. l : t[j] \in Nat
      BY SMTT(20), <1>1, <1>2, <1>8, <1>9
  <2> HIDE DEF l
  <2>2. t \in Seq(Nat) /\ Len(t) = l
      BY <2>1
  <2> QED BY <2>2 DEF l
<1>11. Counts(t, n + a) /\ n + a + Len(t) = n + Len(s)
    BY <1>1, <1>2, <1>9, <1>10 DEF Counts
<1> QED BY <1>2, <1>11 DEF t

(* A poller is sent what is kept behind the number it knows. *)
LEMMA ReadKept ==
    ASSUME DInv, Read
    PROVE  DInv'
<1> DEFINE base == Base(debug)
           known == poller.known
           from == IF known > base THEN known ELSE base
           new == MessagesAfter(debug.log, known)
           all == poller.received \o new
<1>1. /\ debug \in Debugs /\ debug.log \in Seq(Nat) /\ debug.next \in Nat /\ debug.next > 0
      /\ base \in Nat /\ Counts(debug.log, base) /\ 1 .. base \subseteq dropped
      /\ poller.received \in Seq(Nat) /\ known \in Nat /\ PollerOK(poller, debug, dropped)
      /\ Len(debug.log) \in Nat /\ base + Len(debug.log) = debug.next - 1
    BY DEF DInv, MessagesOK, Debugs, Base
<1>2. /\ debug' = [debug EXCEPT !.idle = FALSE] /\ UNCHANGED dropped
      /\ poller' = [known |-> debug.next - 1, received |-> all]
    BY DEF Read
<1>3. known \in 0 .. (base + Len(debug.log)) /\ known < debug.next
    BY <1>1 DEF PollerOK
<1>4. Counts(new, from) /\ from + Len(new) = debug.next - 1
    BY <1>1, <1>3, MessagesAfterCounts
<1>5. new \in Seq(Nat) /\ Len(new) \in Nat /\ \A i \in 1 .. Len(new) : new[i] = from + i
    BY <1>4 DEF Counts
<1>6. from \in Nat /\ known <= from
    BY <1>1
<1>7. \A m \in 1 .. from : m \in 1 .. known \/ m \in 1 .. base
    BY <1>1
<1> HIDE DEF base, new, from
<1> DEFINE l == Len(poller.received)
           e == Len(new)
<1>8. all \in Seq(Nat) /\ Len(all) = l + e /\ l \in Nat /\ e \in Nat
    BY <1>1, <1>5
<1>9. /\ \A i \in 1 .. l : all[i] = poller.received[i]
      /\ \A i \in 1 .. Len(all) : i > l =>
             all[i] = from + (i - l) /\ i - l \in Nat /\ i - l >= 1 /\ i - l <= e
  <2>1. \A i \in 1 .. Len(all) : i > l =>
            all[i] = new[i - l] /\ i - l \in 1 .. e
      BY <1>1, <1>5, <1>8
  <2>2. \A i \in 1 .. l : all[i] = poller.received[i]
      BY <1>1, <1>5
  <2>3. \A i \in 1 .. e : new[i] = from + i
      BY <1>5
  <2> HIDE DEF l, e, all
  <2>4. ASSUME NEW i \in 1 .. Len(all), i > l
        PROVE  all[i] = from + (i - l) /\ i - l \in Nat /\ i - l >= 1 /\ i - l <= e
    <3>1. i - l \in 1 .. e /\ all[i] = new[i - l]
        BY <2>1, <2>4
    <3>2. new[i - l] = from + (i - l)
        BY <2>3, <3>1
    <3> QED BY <1>8, <3>1, <3>2
  <2> QED BY <2>2, <2>4
<1>e. from + e = debug.next - 1
    BY <1>4
<1> HIDE DEF all, e
<1>10. \A i \in 1 .. l : poller.received[i] <= known /\ poller.received[i] \in Nat
    BY <1>1 DEF PollerOK
<1>l. ToSet(poller.received) = {poller.received[i] : i \in 1 .. l}
    BY <1>1 DEF ToSet
<1>o. \A i, j \in 1 .. l : i < j => poller.received[i] < poller.received[j]
    BY <1>1 DEF PollerOK
<1> HIDE DEF l, known
<1>11. /\ debug' \in Debugs /\ debug'.log = debug.log /\ debug'.next = debug.next
       /\ poller'.known = debug.next - 1 /\ poller'.received = all
       /\ poller' \in [known : Nat, received : Seq(Nat)]
  <2>1. debug' \in Debugs /\ debug'.log = debug.log /\ debug'.next = debug.next
      BY <1>1, <1>2 DEF Debugs
  <2>2. debug.next - 1 \in Nat
      BY <1>1
  <2> QED BY <1>2, <1>8, <2>1, <2>2
<1>12. MessagesOK(debug', dropped')
    BY <1>2, <1>11 DEF DInv, MessagesOK, Base
<1>13. \A i \in 1 .. Len(all) : all[i] <= debug.next - 1
  <2>1. ASSUME NEW i \in 1 .. Len(all) PROVE all[i] <= debug.next - 1
    <3>1. CASE i <= l
      <4>1. i \in 1 .. l /\ i \in Nat
          BY <1>8, <2>1, <3>1
      <4>2. all[i] \in Nat /\ all[i] <= known
          BY <1>9, <1>10, <4>1
      <4> QED BY <1>1, <1>3, <1>8, <1>9, <1>10, <4>1, <4>2
    <3>2. CASE i > l
      <4>1. all[i] = from + (i - l) /\ i - l \in Nat /\ i - l <= e
          BY <1>9, <3>2
      <4> QED BY <1>1, <1>6, <1>8, <1>e, <4>1
    <3> QED BY <1>8, <3>1, <3>2
  <2> QED BY <2>1
<1>14. \A i, j \in 1 .. Len(all) : i < j => all[i] < all[j]
  <2>1. ASSUME NEW i \in 1 .. Len(all), NEW j \in 1 .. Len(all), i < j PROVE all[i] < all[j]
    <3>1. CASE j <= l
      <4>1. i \in 1 .. l /\ j \in 1 .. l
          BY <1>8, <2>1, <3>1
      <4> QED BY <1>9, <1>o, <2>1, <4>1
    <3>2. CASE i <= l /\ j > l
      <4>1. i \in 1 .. l
          BY <1>8, <3>2
      <4>2. all[i] <= known /\ all[i] \in Nat
          BY <1>9, <1>10, <4>1
      <4>3. all[j] = from + (j - l) /\ j - l \in Nat /\ j - l >= 1
          BY <1>9, <3>2
      <4> QED BY <1>1, <1>6, <1>8, <4>2, <4>3
    <3>3. CASE i > l
      <4>1. j > l
          BY <1>8, <2>1, <3>3
      <4>2. all[i] = from + (i - l) /\ all[j] = from + (j - l)
          BY <1>9, <3>3, <4>1
      <4>3. i \in Nat /\ j \in Nat
          OBVIOUS
      <4> QED BY <1>6, <1>8, <2>1, <4>2, <4>3
    <3> QED BY <1>8, <3>1, <3>2, <3>3
  <2> QED BY <2>1
<1>15. 1 .. (debug.next - 1) \subseteq ToSet(all) \cup dropped
  <2>1. ASSUME NEW m \in 1 .. (debug.next - 1) PROVE m \in ToSet(all) \cup dropped
    <3>1. CASE m \in 1 .. known
      <4>1. m \in ToSet(poller.received) \/ m \in dropped
          BY <1>1, <3>1 DEF PollerOK, known
      <4>2. ASSUME m \in ToSet(poller.received) PROVE m \in ToSet(all)
        <5>1. PICK i \in 1 .. l : poller.received[i] = m
            BY <1>l, <4>2
        <5>2. i \in DOMAIN all /\ all[i] = m
            BY <1>8, <1>9, <5>1
        <5> QED BY <5>2 DEF ToSet
      <4> QED BY <4>1, <4>2
    <3>2. CASE m \in 1 .. base
        BY <1>1, <3>2
    <3>3. CASE m > from
      <4> DEFINE i == l + (m - from)
      <4>1. i \in 1 .. Len(all) /\ i > l /\ i - l = m - from
          BY <1>1, <1>e, <1>6, <1>8, <3>3
      <4>2. all[i] = from + (m - from) /\ i \in DOMAIN all
          BY <1>8, <1>9, <4>1
      <4>3. all[i] = m
          BY <1>6, <4>2
      <4> QED BY <4>2, <4>3 DEF ToSet
    <3>4. m \in 1 .. from \/ m > from
        BY <1>6
    <3>5. m \in 1 .. known \/ m \in 1 .. base \/ m > from
        BY <1>7, <3>4
    <3> QED BY <3>1, <3>2, <3>3, <3>5
  <2> QED BY <2>1
<1>16. PollerOK(poller', debug', dropped')
  <2>1. debug.next - 1 < debug.next
      BY <1>1
  <2> QED BY <1>2, <1>11, <1>13, <1>14, <1>15, <2>1 DEF PollerOK
<1> QED BY <1>11, <1>12, <1>16 DEF DInv

(* No step of a debug session breaks DInv. *)
LEMMA NextDInv == ASSUME DInv, [NextDebug]_debugVars PROVE DInv'
<1>1. CASE UNCHANGED debugVars
    BY <1>1, DebugTouched DEF debugVars
<1>2. CASE CreateDebugSession
    BY <1>2, DebugTouched DEF CreateDebugSession
<1>3. CASE ReceiverStep
  <2>1. CASE Receive
      BY <2>1, LogMessageKept DEF Receive
  <2>2. CASE ReceiveLoop \/ ReceiveTimeout \/ ReceiveClosed \/ ReceiveRaises \/ ReceiveError
      BY <2>2, DebugTouched
         DEF ReceiveLoop, ReceiveTimeout, ReceiveClosed, ReceiveRaises, ReceiveError
  <2> QED BY <1>3, <2>1, <2>2 DEF ReceiverStep
<1>4. ASSUME NEW s \in Senders, CheckConnected(s) \/ SendRaw(s) \/ LogSent(s) \/ Ping(s) PROVE DInv'
  <2>1. CASE LogSent(s)
      BY <2>1, LogMessageKept DEF LogSent
  <2>2. CASE CheckConnected(s) \/ SendRaw(s)
      BY <2>2, DebugTouched DEF CheckConnected, SendRaw
  <2>3. CASE Ping(s)
    <3>1. \E idle \in BOOLEAN : debug' = [debug EXCEPT !.idle = idle]
        BY <2>3 DEF Ping
    <3> QED BY <2>3, <3>1, DebugTouched DEF Ping
  <2> QED BY <1>4, <2>1, <2>2, <2>3
<1>5. CASE ClearMessages
    BY <1>5, ClearMessagesKept
<1>6. CASE CloseSession
    BY <1>6, DebugTouched DEF CloseSession
<1>7. CASE Read
    BY <1>7, ReadKept
<1>8. CASE TimeoutPasses
  <2>1. \E idle \in BOOLEAN : debug' = [debug EXCEPT !.idle = idle]
      BY <1>8 DEF TimeoutPasses
  <2> QED BY <1>8, <2>1, DebugTouched DEF TimeoutPasses
<1>9. CASE Cleanup
  <2>1. CASE PickExpired \/ RemoveExpired
      BY <2>1, DebugTouched DEF PickExpired, RemoveExpired
  <2>2. CASE CloseExpired
      BY <2>2, DebugTouched DEF CloseExpired, CloseExpiredSession
  <2> QED BY <1>9, <2>1, <2>2 DEF Cleanup
<1> QED BY <1>1, <1>2, <1>3, <1>4, <1>5, <1>6, <1>7, <1>8, <1>9 DEF NextDebug

(* The initial states satisfy DInv. *)
LEMMA InitDInv == InitDebug => DInv
<1> SUFFICES ASSUME InitDebug PROVE DInv
    OBVIOUS
<1>1. debug \in Debugs /\ debug.log = <<>> /\ debug.next = 1 /\ Len(<<>>) = 0
    BY DEF InitDebug, Debugs
<1>2. poller \in [known : Nat, received : Seq(Nat)] /\ poller.known = 0 /\ poller.received = <<>>
    BY DEF InitDebug
<1>3. Base(debug) = 0
  <2>1. Base(debug) = debug.next - 1 - Len(debug.log)
      BY BaseIs
  <2>2. debug.next - 1 - Len(debug.log) = 1 - 1 - 0
      BY <1>1
  <2> QED BY <2>1, <2>2
<1>4. MessagesOK(debug, dropped)
    BY <1>1, <1>3, CountsEmpty DEF MessagesOK
<1>5. PollerOK(poller, debug, dropped)
    BY <1>1, <1>2 DEF PollerOK
<1> QED BY <1>1, <1>2, <1>4, <1>5 DEF DInv

(* Polling with the latest sequence loses nothing, whatever the receiving    *)
(* thread, the senders, a clear and the cleanup do between two polls.        *)
THEOREM PollerFollows == SpecDebug => []PollerMissesNothing
<1>1. DInv => PollerMissesNothing
    BY DEF DInv, PollerOK, PollerMissesNothing
<1>2. InitDebug => DInv
    BY InitDInv
<1>3. DInv /\ [NextDebug]_debugVars => DInv'
    BY NextDInv
<1> QED BY <1>1, <1>2, <1>3, PTL DEF SpecDebug

-----------------------------------------------------------------------------
(* The release gate *)

(* A rule that has found a row fires with its severity. *)
LEMMA RuleFires ==
    ASSUME NEW severity, NEW runbook, NEW found, found # {},
           Rule(severity, runbook, found) \in
               CallRules \cup ApprovalRules \cup BackendRules \cup StreamRules \cup QueueRules \cup KnowledgeRules
    PROVE  Firing(severity)
<1>1. Rule(severity, runbook, found).rows = found /\ Rule(severity, runbook, found).severity = severity
    BY DEF Rule
<1>2. Rule(severity, runbook, found) \in MetricAlerts
    BY <1>1 DEF MetricAlerts
<1> QED BY <1>1, <1>2 DEF Firing, Alerts

(* Levels of autonomy are numbers. *)
LEMMA LevelsCompare ==
    ASSUME NEW level \in Levels PROVE level \in Int /\ CurrentLevel \in Int
BY LevelAssumption DEF Levels, ClassesAdded

(* Each of these facts alone blocks a higher level. *)
LEMMA BlockedBy ==
    ASSUME NEW level \in Levels, level > CurrentLevel,
           Violations # {} \/ Firing("P0") \/ Firing("P1") \/ Readiness # "pass"
    PROVE  Decision(level) = "blocked"
<1>1. Blockers(level) # {}
    BY DEF Blockers
<1>2. ~(level <= CurrentLevel)
    BY LevelsCompare
<1> QED BY <1>1, <1>2 DEF Decision

(* The runs of a project may hold anything: a level above the current one is *)
(* not promoted to while one of them is unsettled.                           *)
THEOREM PromotionEarned == SpecGate => []PromotionIsEarned
<1>1. PromotionIsEarned
  <2>1. SUFFICES ASSUME Unsettled, NEW level \in Levels, level > CurrentLevel
                 PROVE  Decision(level) = "blocked"
      BY DEF PromotionIsEarned
  <2>2. CASE \E c \in Calls : c.status = "uncertain"
    <3>1. CallMetrics.uncertain # {} /\ Rule("P1", "tool_call_uncertain", CallMetrics.uncertain) \in CallRules
        BY <2>2 DEF CallMetrics, CallRules
    <3> QED BY <2>1, <3>1, RuleFires, BlockedBy
  <2>3. CASE \E c \in Calls : c.status = "manual_intervention"
    <3>1. CallMetrics.manual # {} /\ Rule("P1", "tool_call_uncertain", CallMetrics.manual) \in CallRules
        BY <2>3 DEF CallMetrics, CallRules
    <3> QED BY <2>1, <3>1, RuleFires, BlockedBy
  <2>4. CASE \E c \in Calls : Accepted(c)
    <3>1. CallMetrics.backend_accepted # {}
          /\ Rule("P0", "tool_call_uncertain", CallMetrics.backend_accepted) \in CallRules
        BY <2>4 DEF CallMetrics, CallRules
    <3> QED BY <2>1, <3>1, RuleFires, BlockedBy
  <2>5. CASE OpenBlocks # {}
    <3>1. BlockMetrics.block_open # {}
          /\ Rule("P1", "migration_blocked", BlockMetrics.block_open) \in BackendRules
        BY <2>5 DEF BlockMetrics, BackendRules
    <3> QED BY <2>1, <3>1, RuleFires, BlockedBy
  <2>6. CASE Due # {}
    <3>1. ApprovalMetrics.expire_due # {}
        BY <2>6 DEF ApprovalMetrics
    <3>2. LiveRecovery = "attention" /\ LiveRecovery \in Checks
        BY <3>1 DEF LiveRecovery, AttentionIf, Checks
    <3>3. Readiness # "pass"
        BY <3>2 DEF Readiness, Worst
    <3> QED BY <2>1, <3>3, BlockedBy
  <2>7. CASE QueueMetrics.duplicate # {}
    <3>1. Rule("P0", "worker_queue_recovery", QueueMetrics.duplicate) \in QueueRules
        BY DEF QueueRules
    <3> QED BY <2>1, <2>7, <3>1, RuleFires, BlockedBy
  <2>8. CASE StreamMetrics.outbox_lag # {}
    <3>1. Rule("P1", "outbox_publish_lag", StreamMetrics.outbox_lag) \in StreamRules
        BY DEF StreamRules
    <3> QED BY <2>1, <2>8, <3>1, RuleFires, BlockedBy
  <2>9. CASE Violations # {}
      BY <2>1, <2>9, BlockedBy
  <2> QED BY <2>1, <2>2, <2>3, <2>4, <2>5, <2>6, <2>7, <2>8, <2>9 DEF Unsettled
<1> QED BY <1>1, PTL DEF SpecGate

(* A dashboard that is ready met no P0 alert.                                *)
LEMMA ReadyMeetsNoP0 == LaunchReady => Violations = {} /\ ~Firing("P0")
<1>1. ASSUME Firing("P0") PROVE Readiness = "blocked"
    BY <1>1 DEF Readiness, Worst, Checks, AlertHealth
<1>2. ASSUME Violations # {} PROVE Readiness = "blocked"
  <2>1. "blocked" \in Checks
      BY <1>2 DEF Checks, BlockedIf
  <2> QED BY <2>1 DEF Readiness, Worst
<1>3. ASSUME Readiness = "blocked" PROVE ~LaunchReady
  <2>1. LaunchStatus = "blocked"
      BY <1>3 DEF LaunchStatus, Worst, BlockedIf
  <2> QED BY <2>1 DEF LaunchReady
<1> QED BY <1>1, <1>2, <1>3

(* What raises a P0 alert keeps the platform from being ready to launch. *)
LEMMA P0Stops == LaunchHasNoP0
<1>1. SUFFICES ASSUME LaunchReady
               PROVE  /\ Violations = {} /\ QueueMetrics.duplicate = {}
                      /\ \A c \in Calls : Open(c) => c.submission # "backend_accepted"
                      /\ Events("memory.bypassed_evidence_ref") = {}
    BY DEF LaunchHasNoP0
<1>2. Violations = {} /\ ~Firing("P0")
    BY <1>1, ReadyMeetsNoP0
<1>3. QueueMetrics.duplicate = {}
  <2>1. Rule("P0", "worker_queue_recovery", QueueMetrics.duplicate) \in QueueRules
      BY DEF QueueRules
  <2> QED BY <1>2, <2>1, RuleFires
<1>4. ASSUME NEW c \in Calls, Open(c) PROVE c.submission # "backend_accepted"
  <2>1. CallMetrics.backend_accepted = {b \in Calls : Accepted(b)}
        /\ Rule("P0", "tool_call_uncertain", CallMetrics.backend_accepted) \in CallRules
      BY DEF CallMetrics, CallRules
  <2>2. CallMetrics.backend_accepted = {}
      BY <1>2, <2>1, RuleFires
  <2> QED BY <1>4, <2>1, <2>2 DEF Accepted
<1>5. Events("memory.bypassed_evidence_ref") = {}
  <2>1. KnowledgeMetrics.bypassed = Events("memory.bypassed_evidence_ref")
        /\ Rule("P0", "memory_evidence_ref_violation", KnowledgeMetrics.bypassed) \in KnowledgeRules
      BY DEF KnowledgeMetrics, KnowledgeRules
  <2> QED BY <1>2, <2>1, RuleFires
<1> QED BY <1>2, <1>3, <1>4, <1>5

(* Each P0 rule about calls, events or tools has its runbook.                *)
LEMMA P0Shown == P0AlertIsDiagnosed
<1> SUFFICES ASSUME NEW a \in Alerts \ QueueRules, a.severity = "P0" PROVE a.runbook \in Diagnose
    BY DEF P0AlertIsDiagnosed
<1>1. CASE a \in CallRules /\ a.rows # {}
  <2>1. a = Rule("P0", "tool_call_uncertain", CallMetrics.backend_accepted)
      BY <1>1 DEF CallRules, Rule
  <2>2. a.runbook = "tool_call_uncertain" /\ a.rows = CallMetrics.backend_accepted
      BY <2>1 DEF Rule
  <2>3. PICK c \in Calls : Accepted(c)
      BY <1>1, <2>2 DEF CallMetrics
  <2>4. "tool_call_uncertain" \in UncertainRunbook
      BY <2>3 DEF UncertainRunbook, Accepted
  <2> QED BY <2>2, <2>4 DEF Diagnose
<1>2. CASE a \in ApprovalRules
    BY <1>2 DEF ApprovalRules, Rule
<1>3. CASE a \in BackendRules /\ a.rows # {}
  <2>1. a = Rule("P0", "backend_capability_degraded", CallMetrics.legacy_manual)
      BY <1>3 DEF BackendRules, Rule
  <2>2. a.runbook = "backend_capability_degraded" /\ a.rows = CallMetrics.legacy_manual
      BY <2>1 DEF Rule
  <2>3. PICK c \in Calls : c.capability = "legacy_no_receipt"
      BY <1>3, <2>2 DEF CallMetrics
  <2>4. c \in CallMetrics.degraded
      BY <2>3 DEF CallMetrics
  <2>5. "backend_capability_degraded" \in CapabilityRunbook
      BY <2>4 DEF CapabilityRunbook
  <2> QED BY <2>2, <2>5 DEF Diagnose
<1>4. CASE a \in StreamRules
    BY <1>4 DEF StreamRules, Rule
<1>5. CASE a \in KnowledgeRules /\ a.rows # {}
  <2>1. a = Rule("P0", "memory_evidence_ref_violation", KnowledgeMetrics.bypassed)
      BY <1>5 DEF KnowledgeRules, Rule
  <2>2. a.runbook = "memory_evidence_ref_violation" /\ a.rows = KnowledgeMetrics.bypassed
      BY <2>1 DEF Rule
  <2>3. PICK f : f \in KnowledgeMetrics.bypassed
      BY <1>5, <2>2
  <2>4. "memory_evidence_ref_violation" \in MemoryRunbook
      BY <2>3 DEF MemoryRunbook
  <2> QED BY <2>2, <2>4 DEF Diagnose
<1>6. CASE a \in {Rule("P0", "release_gate_violation", {[table |-> "tools", id |-> t]}) : t \in Violations}
  <2>1. PICK t \in Violations : a = Rule("P0", "release_gate_violation", {[table |-> "tools", id |-> t]})
      BY <1>6
  <2>2. a.runbook = "release_gate_violation" /\ "release_gate_violation" \in GateRunbook
      BY <2>1 DEF Rule, GateRunbook
  <2> QED BY <2>2 DEF Diagnose
<1>7. CASE a \in {Rule("P1", "fault_injection_coverage", {[table |-> "cases", id |-> c]}) : c \in MissingFaults}
    BY <1>7 DEF Rule
<1>8. ASSUME a \in MetricAlerts
      PROVE  /\ a.rows # {}
             /\ a \in CallRules \cup ApprovalRules \cup BackendRules \cup StreamRules \cup KnowledgeRules
    BY <1>8 DEF MetricAlerts
<1> QED BY <1>1, <1>2, <1>3, <1>4, <1>5, <1>6, <1>7, <1>8 DEF Alerts

(* A P0 state stops the launch, and whoever diagnoses it is told.            *)
THEOREM P0Handled == SpecGate => []P0StopsAndIsShown
<1>1. P0StopsAndIsShown
    BY P0Stops, P0Shown DEF P0StopsAndIsShown
<1> QED BY <1>1, PTL DEF SpecGate

-----------------------------------------------------------------------------
(* Fault-injection drills *)

Start == [queue |-> queued, rows |-> <<>>, executed |-> <<>>]

(* A second element is appended to one. *)
LEMMA AppendSecond == ASSUME NEW e, NEW f PROVE Append(<<e>>,f) = <<e,f>>
<1> DEFINE X == {e, f}
           s == <<e>>
           t == Append(s, f)
<1>1. s \in Seq(X) /\ Len(s) = 1 /\ s[1] = e /\ f \in X
    OBVIOUS
<1> HIDE DEF X, s
<1>2. t \in Seq(X)
    BY <1>1, AppendProperties
<1>3. Len(t) = Len(s) + 1
    BY <1>1, AppendProperties
<1>4. \A i \in 1 .. Len(s) : t[i] = s[i]
    BY <1>1, AppendProperties
<1>5. t[Len(s) + 1] = f
    BY <1>1, AppendProperties
<1> HIDE DEF t
<1>6. t = [i \in 1 .. 2 |-> t[i]] /\ t[1] = e /\ t[2] = f
    BY <1>1, <1>2, <1>3, <1>4, <1>5
<1>7. <<e, f>> = [i \in 1 .. 2 |-> <<e, f>>[i]] /\ <<e, f>>[1] = e /\ <<e, f>>[2] = f
    OBVIOUS
<1> DEFINE u == <<e, f>>
<1> HIDE DEF u
<1>8. t = u
    BY <1>6, <1>7 DEF u
<1> QED BY <1>8 DEF t, s, u

(* On an empty queue a round executes the call it queues.                    *)
LEMMA RoundAlone ==
    ASSUME NEW d, NEW entry, NEW failing, d.queue = <<>>
    PROVE  LET r == Round(d, entry, failing) IN
           r.queue = <<>> /\ r.executed = Append(d.executed, entry)
<1>1. Append(d.queue, entry) = <<entry>> /\ Head(<<entry>>) = entry /\ Tail(<<entry>>) = <<>>
    OBVIOUS
<1> QED BY <1>1 DEF Round

(* One call, two calls: the recursion of Rounds written out.                 *)
LEMMA OneRound ==
    ASSUME NEW case, NEW e, Enqueues(case) = <<e>>
    PROVE  Rounds(case) = Round(Start, e, case = "tool_succeeded_eventstore_write_failed")
<1> DEFINE failing == case = "tool_succeeded_eventstore_write_failed"
           S(f) == [n \in 0 .. 1 |-> IF n = 0 THEN Start ELSE Round(f[n - 1], <<e>>[n], failing)]
           g == [n \in 0 .. 1 |-> IF n = 0 THEN Start ELSE Round(Start, e, failing)]
           done == CHOOSE f : f = S(f)
<1>1. Rounds(case) = done[1]
    BY DEF Rounds, Start
<1> HIDE DEF failing
<1>2. g = S(g)
    OBVIOUS
<1>3. done = S(done)
  <2> HIDE DEF S, g
  <2> QED BY <1>2
<1> HIDE DEF done
<1>4. done[0] = Start
    BY <1>3
<1>5. done[1] = Round(done[0], e, failing)
    BY <1>3
<1> QED BY <1>1, <1>4, <1>5 DEF failing

(* A case that queues two executions has two rounds of them. *)
LEMMA TwoRounds ==
    ASSUME NEW case, NEW e, NEW f, Enqueues(case) = <<e, f>>
    PROVE  LET failing == case = "tool_succeeded_eventstore_write_failed" IN
           Rounds(case) = Round(Round(Start, e, failing), f, failing)
<1> DEFINE failing == case = "tool_succeeded_eventstore_write_failed"
           S(h) == [n \in 0 .. 2 |-> IF n = 0 THEN Start ELSE Round(h[n - 1], <<e, f>>[n], failing)]
           first == Round(Start, e, failing)
           second == Round(first, f, failing)
           g == [n \in 0 .. 2 |-> IF n = 0 THEN Start ELSE IF n = 1 THEN first ELSE second]
           done == CHOOSE h : h = S(h)
<1>1. Rounds(case) = done[2]
    BY DEF Rounds, Start
<1> HIDE DEF failing
<1>2. g = S(g)
  <2>1. g[0] = Start /\ g[1] = first /\ <<e, f>>[1] = e /\ <<e, f>>[2] = f
      OBVIOUS
  <2>2. \A n \in 0 .. 2 : (IF n = 0 THEN Start ELSE IF n = 1 THEN first ELSE second) =
                          (IF n = 0 THEN Start ELSE Round(g[n - 1], <<e, f>>[n], failing))
    <3> HIDE DEF g, first
    <3>1. Round(g[1 - 1], <<e, f>>[1], failing) = first
        BY <2>1 DEF first
    <3>2. Round(g[2 - 1], <<e, f>>[2], failing) = second
        BY <2>1
    <3> HIDE DEF second
    <3> QED BY <3>1, <3>2
  <2> QED BY <2>2
<1>3. done = S(done)
  <2> HIDE DEF S, g
  <2> QED BY <1>2
<1> HIDE DEF done
<1>4. done[0] = Start
    BY <1>3
<1>5. done[1] = Round(done[0], e, failing)
    BY <1>3
<1>6. done[2] = Round(done[1], f, failing)
    BY <1>3
<1> QED BY <1>1, <1>4, <1>5, <1>6 DEF failing

(* Alone in the queue a drill executes what it queued, and nothing else.     *)
LEMMA DrillsAlone ==
    ASSUME NEW case, queued = <<>>
    PROVE  ExecutionPasses(case, Rounds(case))
<1>1. Start.queue = <<>> /\ Start.executed = <<>>
    BY DEF Start
<1>2. ASSUME NEW e, Enqueues(case) = <<e>> PROVE Rounds(case).executed = <<e>>
  <2> DEFINE failing == case = "tool_succeeded_eventstore_write_failed"
  <2>1. Rounds(case) = Round(Start, e, failing)
      BY <1>2, OneRound
  <2> HIDE DEF failing
  <2>2. Round(Start, e, failing).executed = Append(Start.executed, e)
      BY <1>1, RoundAlone
  <2> QED BY <1>1, <2>1, <2>2
<1>3. ASSUME NEW e, NEW f, Enqueues(case) = <<e, f>> PROVE Rounds(case).executed = <<e, f>>
  <2> DEFINE failing == case = "tool_succeeded_eventstore_write_failed"
             first == Round(Start, e, failing)
  <2>1. Rounds(case) = Round(first, f, failing)
      BY <1>3, TwoRounds
  <2> HIDE DEF failing
  <2>2. first.queue = <<>> /\ first.executed = Append(Start.executed, e)
      BY <1>1, RoundAlone
  <2>3. first.executed = <<e>>
      BY <1>1, <2>2
  <2> HIDE DEF first
  <2>4. Round(first, f, failing).executed = Append(first.executed, f)
      BY <2>2, RoundAlone
  <2>5. Append(<<e>>, f) = <<e, f>>
      BY AppendSecond
  <2>6. Rounds(case).executed = Append(<<e>>, f)
      BY <2>1, <2>3, <2>4
  <2> QED BY <2>5, <2>6
<1>4. CASE case = "tool_succeeded_eventstore_write_failed"
  <2>1. Enqueues(case) = <<Entry("eventstore", "sound")>>
      BY <1>4 DEF Enqueues
  <2> QED BY <1>2, <1>4, <2>1 DEF ExecutionPasses
<1>5. CASE case = "permission_revoked_before_execution"
  <2>1. Enqueues(case) = <<Entry("permission", "revoked")>>
      BY <1>5 DEF Enqueues
  <2> QED BY <1>2, <1>5, <2>1 DEF ExecutionPasses
<1>6. CASE case = "worker_queue_reconcile_required"
  <2>1. Enqueues(case) = <<Entry("queued_uncertain", "uncertain"), Entry("queued_reconciling", "reconciling")>>
      BY <1>6 DEF Enqueues
  <2> QED BY <1>3, <1>6, <2>1 DEF ExecutionPasses
<1>7. CASE case = "high_risk_memory_only_blocked"
  <2>1. Enqueues(case) = <<Entry("memory_only", "memory_only")>>
      BY <1>7 DEF Enqueues
  <2> QED BY <1>2, <1>7, <2>1 DEF ExecutionPasses
<1> QED BY <1>4, <1>5, <1>6, <1>7 DEF ExecutionPasses

(* The drill that watches memories has touched none before it ran.           *)
Untouched == "memory_stale_evidence_watch" \notin DOMAIN report => staleLinks = 0

(* A case that runs for the first time on a quiet platform passes. *)
LEMMA RunCaseKept ==
    ASSUME DrillsPassOnQuietPlatform, Untouched, RunCase
    PROVE  DrillsPassOnQuietPlatform' /\ Untouched'
<1> DEFINE case == Head(todo)
           done == Rounds(case)
           passed == ExecutionPasses(case, done) /\ WatchPasses(case)
           alone == queued = <<>>
           first == case \notin DOMAIN report
<1>1. /\ report' = [c \in DOMAIN report \cup {case} |->
                       IF c # case THEN report[c]
                       ELSE [passed |-> passed, alone |-> alone, first |-> first]]
      /\ staleLinks' = IF case = "memory_stale_evidence_watch" THEN staleLinks + 1 ELSE staleLinks
    BY DEF RunCase
<1>2. ASSUME alone, first PROVE passed
  <2>1. ExecutionPasses(case, done)
      BY <1>2, DrillsAlone
  <2>2. WatchPasses(case)
      BY <1>2 DEF WatchPasses, Untouched
  <2> QED BY <2>1, <2>2
<1> HIDE DEF case, passed, alone, first
<1>3. DOMAIN report' = DOMAIN report \cup {case}
    BY <1>1
<1>4. ASSUME NEW c \in DOMAIN report', report'[c].alone, report'[c].first PROVE report'[c].passed
  <2>1. CASE c = case
    <3>1. report'[c] = [passed |-> passed, alone |-> alone, first |-> first]
        BY <1>1, <1>3, <2>1
    <3>2. (report'[c].passed = passed) /\ (report'[c].alone = alone) /\ (report'[c].first = first)
        BY <3>1
    <3> QED BY <1>2, <1>4, <3>2
  <2>2. CASE c # case
    <3>1. report'[c] = report[c] /\ c \in DOMAIN report
        BY <1>1, <1>3, <2>2
    <3> QED BY <1>4, <3>1 DEF DrillsPassOnQuietPlatform
  <2> QED BY <2>1, <2>2
<1>5. Untouched'
    BY <1>1, <1>3 DEF Untouched
<1> QED BY <1>4, <1>5 DEF DrillsPassOnQuietPlatform

(* On a quiet platform every drill passes the first time it is run, whatever *)
(* the requests ask for and whatever the cases before it have left.          *)
THEOREM DrillsPass == SpecDrills => []DrillsPassOnQuietPlatform
<1> DEFINE DrInv == DrillsPassOnQuietPlatform /\ Untouched
<1>1. InitDrills => DrInv
    BY DEF InitDrills, DrillsPassOnQuietPlatform, Untouched
<1>2. ASSUME DrInv, [NextDrills]_drillVars PROVE DrInv'
  <2>1. CASE RunCase
      BY <1>2, <2>1, RunCaseKept
  <2>2. CASE UNCHANGED <<report, staleLinks>>
      BY <1>2, <2>2 DEF DrillsPassOnQuietPlatform, Untouched
  <2>3. ASSUME ~RunCase PROVE UNCHANGED <<report, staleLinks>>
      BY <1>2, <2>3
         DEF NextDrills, drillVars, RunCases, QueueStranger, ApprovalBecomesDue, PublishOutbox
  <2> QED BY <2>1, <2>2, <2>3
<1>3. DrInv => DrillsPassOnQuietPlatform
    OBVIOUS
<1> QED BY <1>1, <1>2, <1>3, PTL DEF SpecDrills

=============================================================================
