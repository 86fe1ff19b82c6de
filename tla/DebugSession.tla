----------------------------- MODULE DebugSession -----------------------------
(***************************************************************************)
(* One WebSocket debug session (websocket_debug_session_service.py): the    *)
(* thread that receives, requests that send, ping, clear, close and poll,   *)
(* and the cleanup of sessions that were idle for too long, which decides   *)
(* under the manager's lock and closes and removes later.                   *)
(***************************************************************************)
EXTENDS Integers, Sequences, FiniteSets, SequencesExt

CONSTANTS
    Senders,      \* concurrent requests that send or ping
    MaxMessages,  \* bound: messages logged
    Kept          \* messages the session keeps (5000 in the code)

ASSUME KeptAssumption == Kept \in Nat \ {0} /\ MaxMessages \in Nat

VARIABLES
    debug,      \* the session: listed, status, connection, log, idle
    receiver,   \* _receive_loop: before its status check, in recv, handling an error
    sender,     \* each sending request: none, after the status check, after the send
    cleaner,    \* cleanup_expired: idle, has picked the session, has closed it
    poller,     \* a front end that polls with the latest sequence it was told
    dropped     \* numbers that were cleared or fell off the log

debugVars == <<debug, receiver, sender, cleaner, poller, dropped>>

InitDebug ==
    /\ debug = [listed |-> FALSE, status |-> "none", open |-> FALSE,
                log |-> <<>>, next |-> 1, idle |-> FALSE]
    /\ receiver = "none"
    /\ sender = [s \in Senders |-> "none"]
    /\ cleaner = "none"
    /\ poller = [known |-> 0, received |-> <<>>]
    /\ dropped = {}

-----------------------------------------------------------------------------
(* append_message.                                                          *)
LogMessage ==
    /\ debug.next <= MaxMessages
    /\ LET all == Append(debug.log, debug.next)
           cut == IF Len(all) > Kept THEN Len(all) - Kept ELSE 0
       IN /\ debug' = [debug EXCEPT !.log = SubSeq(all, cut + 1, Len(all)),
                                    !.next = @ + 1, !.idle = FALSE]
          /\ dropped' = dropped \cup ToSet(SubSeq(all, 1, cut))

(* close: the status under the lock; the connection after it.               *)
CloseStatus == [debug EXCEPT !.status = IF @ = "connected" THEN "disconnected" ELSE @,
                             !.idle = FALSE]
Close == debug' = [CloseStatus EXCEPT !.open = FALSE]
MarkError == debug' = [debug EXCEPT !.status = "error", !.open = FALSE, !.idle = FALSE]

(* The session is listed once the connection stands.                        *)
CreateDebugSession ==
    /\ debug.status = "none"
    /\ debug' = [debug EXCEPT !.listed = TRUE, !.status = "connected", !.open = TRUE]
    /\ receiver' = "check"
    /\ UNCHANGED <<sender, cleaner, poller, dropped>>

-----------------------------------------------------------------------------
ReceiveLoop ==
    /\ receiver = "check"
    /\ receiver' = IF debug.status = "connected" THEN "recv" ELSE "ended"
    /\ UNCHANGED <<debug, sender, cleaner, poller, dropped>>

Receive ==
    /\ receiver = "recv" /\ debug.open
    /\ LogMessage
    /\ receiver' = "check"
    /\ UNCHANGED <<sender, cleaner, poller>>

ReceiveTimeout ==
    /\ receiver = "recv" /\ debug.open
    /\ receiver' = "check"
    /\ UNCHANGED <<debug, sender, cleaner, poller, dropped>>

(* The peer closed, or the connection was closed here.                      *)
ReceiveClosed ==
    /\ receiver = "recv"
    /\ Close
    /\ receiver' = "ended"
    /\ UNCHANGED <<sender, cleaner, poller, dropped>>

(* Another exception: the status is looked at, then set.                    *)
ReceiveRaises ==
    /\ receiver = "recv"
    /\ receiver' = IF debug.status = "connected" THEN "error" ELSE "ended"
    /\ UNCHANGED <<debug, sender, cleaner, poller, dropped>>

ReceiveError ==
    /\ receiver = "error"
    /\ MarkError
    /\ receiver' = "ended"
    /\ UNCHANGED <<sender, cleaner, poller, dropped>>

-----------------------------------------------------------------------------
(* send and ping look at the status before they take the lock; 409.         *)
CheckConnected(s) ==
    /\ debug.listed /\ sender[s] = "none" /\ debug.status = "connected"
    /\ sender' = [sender EXCEPT ![s] = "checked"]
    /\ UNCHANGED <<debug, receiver, cleaner, poller, dropped>>

SendRaw(s) ==
    /\ sender[s] = "checked"
    /\ \/ /\ debug.open
          /\ sender' = [sender EXCEPT ![s] = "sent"]
          /\ UNCHANGED debug
       \/ /\ sender' = [sender EXCEPT ![s] = "none"]
          /\ MarkError
    /\ UNCHANGED <<receiver, cleaner, poller, dropped>>

(* The sent message is logged after the lock was given back; what the peer  *)
(* answered may be logged first.                                            *)
LogSent(s) ==
    /\ sender[s] = "sent"
    /\ LogMessage
    /\ sender' = [sender EXCEPT ![s] = "none"]
    /\ UNCHANGED <<receiver, cleaner, poller>>

Ping(s) ==
    /\ sender[s] = "checked" /\ debug.open
    /\ debug' = [debug EXCEPT !.idle = FALSE]
    /\ sender' = [sender EXCEPT ![s] = "none"]
    /\ UNCHANGED <<receiver, cleaner, poller, dropped>>

(* Mutant: a cleared log starts again at 1.                                 *)
RestartNumbers(next) == 1

NextAfterClear(next) == next

ClearMessages ==
    /\ debug.listed
    /\ debug' = [debug EXCEPT !.log = <<>>, !.next = NextAfterClear(@), !.idle = FALSE]
    /\ dropped' = dropped \cup ToSet(debug.log)
    /\ UNCHANGED <<receiver, sender, cleaner, poller>>

CloseSession ==
    /\ debug.listed
    /\ Close
    /\ UNCHANGED <<receiver, sender, cleaner, poller, dropped>>

(* The messages with a later sequence, in the order of the list.            *)
MessagesAfter(list, sequence) ==
    LET later == {i \in DOMAIN list : list[i] > sequence}
    IN [j \in 1..Cardinality(later) |->
           list[CHOOSE i \in later : Cardinality({k \in later : k < i}) = j - 1]]

Read ==
    /\ debug.listed
    /\ debug' = [debug EXCEPT !.idle = FALSE]
    /\ poller' = [known |-> debug.next - 1,
                  received |-> poller.received \o MessagesAfter(debug.log, poller.known)]
    /\ UNCHANGED <<receiver, sender, cleaner, dropped>>

-----------------------------------------------------------------------------
TimeoutPasses ==
    /\ debug.listed /\ ~debug.idle
    /\ debug' = [debug EXCEPT !.idle = TRUE]
    /\ UNCHANGED <<receiver, sender, cleaner, poller, dropped>>

(* cleanup_expired: picked while idle, closed although it may have been     *)
(* used since.                                                              *)
PickExpired ==
    /\ cleaner = "none" /\ debug.listed /\ debug.idle
    /\ cleaner' = "picked"
    /\ UNCHANGED <<debug, receiver, sender, poller, dropped>>

(* Mutant: expired sessions are only removed.                               *)
LeaveOpen == UNCHANGED debug

CloseExpiredSession == Close

CloseExpired ==
    /\ cleaner = "picked"
    /\ CloseExpiredSession
    /\ cleaner' = "closed"
    /\ UNCHANGED <<receiver, sender, poller, dropped>>

RemoveExpired ==
    /\ cleaner = "closed"
    /\ debug' = [debug EXCEPT !.listed = FALSE]
    /\ cleaner' = "none"
    /\ UNCHANGED <<receiver, sender, poller, dropped>>

ReceiverStep ==
    \/ ReceiveLoop \/ Receive \/ ReceiveTimeout \/ ReceiveClosed \/ ReceiveRaises
    \/ ReceiveError

Cleanup == PickExpired \/ CloseExpired \/ RemoveExpired

NextDebug ==
    \/ CreateDebugSession \/ ReceiverStep
    \/ \E s \in Senders : CheckConnected(s) \/ SendRaw(s) \/ LogSent(s) \/ Ping(s)
    \/ ClearMessages \/ CloseSession \/ Read \/ TimeoutPasses \/ Cleanup

(* The receive thread runs, the cleanup thread wakes every 30 seconds.      *)
FairDebug == WF_debugVars(ReceiverStep) /\ WF_debugVars(Cleanup)
SpecDebug == InitDebug /\ [][NextDebug]_debugVars /\ FairDebug

-----------------------------------------------------------------------------
(* Polling with the latest sequence loses nothing: what a poller was not    *)
(* sent up to the number it knows was cleared or fell off the log, and no   *)
(* message is sent twice or out of order, also after the log was cleared.   *)
PollerMissesNothing ==
    /\ \A i, j \in 1..Len(poller.received) : i < j => poller.received[i] < poller.received[j]
    /\ 1..poller.known \subseteq ToSet(poller.received) \cup dropped

(* A session that stays idle is picked, and one that was picked is taken    *)
(* from the list with its connection closed and its thread at an end.       *)
IdleSessionIsReleased ==
    /\ debug.listed /\ debug.idle ~> cleaner # "none" \/ ~debug.idle
    /\ cleaner = "picked" ~> ~debug.listed /\ ~debug.open /\ receiver = "ended"
=============================================================================
