--------------------------- MODULE AgentLockOrder ---------------------------
(***************************************************************************)
(* The row locks that the transactions of the Agent services take on the   *)
(* rows of one tool call, in the order of the code.  A lock is held until  *)
(* the transaction ends; InnoDB rolls one transaction of a circle back,    *)
(* and whoever ran it gets an error.                                       *)
(*                                                                         *)
(* The services that lock nothing before they write (the runner, the       *)
(* executor) are left out: they take row locks only while they commit.     *)
(***************************************************************************)
EXTENDS Naturals, Sequences

CONSTANTS
    Transactions,  \* the transactions that run at a time
    Kinds,         \* the methods they may be, a subset of DOMAIN LocksOf
    None           \* no transaction

Rows == {"lineage", "call", "approval", "run", "item", "block"}

(***************************************************************************)
(* The rows of each method, in the order in which it locks them.  A method *)
(* may return early after any of them.                                     *)
(***************************************************************************)

\* `ApprovalMutationGuard._lock_context`, then the queue row.
Approve == <<"lineage", "call", "approval", "run", "item">>
\* A stale request, which only logs its conflict.
Conflict == <<"lineage", "call", "run">>
\* `supersede_with_replacement` finds the lineage through the old call.
Supersede == <<"call", "lineage", "approval", "run", "item">>
\* `expire_approval` starts from the approval the scan selected.
Expire == <<"approval", "lineage", "call", "run", "item">>
\* `claim_next`; the run only when it logs a refused uncertain call.
ClaimNext == <<"item", "call", "run">>
Heartbeat == <<"item", "call">>
RecoverOrphans == <<"item", "call">>
\* `resume_run` with its retryable and its approved blocking calls.
ResumeRun == <<"run", "call", "item">>
ReconcileRun == <<"run", "call">>
ResolveBlock == <<"run", "block", "call">>

LocksOf ==
    [approve |-> Approve, conflict |-> Conflict, supersede |-> Supersede,
     expire |-> Expire, claim |-> ClaimNext, heartbeat |-> Heartbeat,
     recover |-> RecoverOrphans, resume |-> ResumeRun,
     reconcile |-> ReconcileRun, resolve |-> ResolveBlock]

\* These pass over a locked queue row instead of waiting for it.
SkipLocked == {"claim", "recover"}

VARIABLES
    kind,    \* of each transaction: its method, "idle" or "ended"
    taken,   \* of each transaction: how many of its locks it has
    holder   \* of each row: the transaction that holds its lock

vars == <<kind, taken, holder>>

TypeOK ==
    /\ kind \in [Transactions -> Kinds \cup {"idle", "ended"}]
    /\ taken \in [Transactions -> 0 .. 5]
    /\ holder \in [Rows -> Transactions \cup {None}]

Init ==
    /\ kind = [t \in Transactions |-> "idle"]
    /\ taken = [t \in Transactions |-> 0]
    /\ holder = [r \in Rows |-> None]

Running(t) == kind[t] \in Kinds

\* t wants another lock, and this is it.
Wants(t) == Running(t) /\ taken[t] < Len(LocksOf[kind[t]])
NextLock(t) == LocksOf[kind[t]][taken[t] + 1]

Passes(t) == kind[t] \in SkipLocked /\ taken[t] = 0

WaitsFor(t, u) ==
    /\ Wants(t)
    /\ ~ Passes(t)
    /\ holder[NextLock(t)] = u

\* Every transaction of S waits for another one of S.
Circle(S) == S # {} /\ \A t \in S : \E u \in S : WaitsFor(t, u)

-----------------------------------------------------------------------------
Begin(t, k) ==
    /\ kind[t] = "idle"
    /\ kind' = [kind EXCEPT ![t] = k]
    /\ UNCHANGED <<taken, holder>>

Lock(t) ==
    /\ Wants(t)
    /\ holder[NextLock(t)] = None
    /\ holder' = [holder EXCEPT ![NextLock(t)] = t]
    /\ taken' = [taken EXCEPT ![t] = @ + 1]
    /\ UNCHANGED kind

\* The transaction commits, returns early, finds its row locked and passes on,
\* or is rolled back; it does not end while it waits, except as a victim.
End(t) ==
    /\ Running(t)
    /\ \A u \in Transactions :
           WaitsFor(t, u) => \E S \in SUBSET Transactions : t \in S /\ Circle(S)
    /\ kind' = [kind EXCEPT ![t] = "ended"]
    /\ holder' = [r \in Rows |-> IF holder[r] = t THEN None ELSE holder[r]]
    /\ UNCHANGED taken

Next ==
    \E t \in Transactions :
        \/ \E k \in Kinds : Begin(t, k)
        \/ Lock(t)
        \/ End(t)

Spec == Init /\ [][Next]_vars

-----------------------------------------------------------------------------
\* The transactions never wait in a circle, so that none is rolled back for
\* another one: what the development plan expects of a batch expiry and an
\* approval, and the lock order of the architecture is there to ensure.
NoCircle == \A S \in SUBSET Transactions : ~ Circle(S)
=============================================================================
