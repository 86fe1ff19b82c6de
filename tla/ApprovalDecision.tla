-------------------------- MODULE ApprovalDecision --------------------------
(***************************************************************************)
(* What the approval tables promise of a lineage, whatever happens to the   *)
(* tool calls, the queue and the scanners behind it: it is opened once, the *)
(* request in front of the human may be replaced while it is undecided,     *)
(* it is decided once and for good, and execution starts only under an      *)
(* approval.                                                                *)
(***************************************************************************)
EXTENDS Naturals

CONSTANT Lineages

VARIABLES epoch,      \* how many requests the lineage has carried
          decision,   \* the decision on the latest one
          running     \* the lineages a worker holds the call of

absVars == <<epoch, decision, running>>

Outcomes == {"approved", "rejected", "expired"}

AbsInit ==
    /\ epoch = [l \in Lineages |-> 0]
    /\ decision = [l \in Lineages |-> "none"]
    /\ running = {}

Open(l) ==
    /\ decision[l] = "none"
    /\ epoch' = [epoch EXCEPT ![l] = 1]
    /\ decision' = [decision EXCEPT ![l] = "pending"]
    /\ UNCHANGED running

Replace(l) ==
    /\ decision[l] = "pending"
    /\ epoch' = [epoch EXCEPT ![l] = @ + 1]
    /\ UNCHANGED <<decision, running>>

Decide(l, d) ==
    /\ decision[l] = "pending"
    /\ decision' = [decision EXCEPT ![l] = d]
    /\ UNCHANGED <<epoch, running>>

Start(l) ==
    /\ decision[l] = "approved"
    /\ running' = running \cup {l}
    /\ UNCHANGED <<epoch, decision>>

Stop(l) ==
    /\ running' = running \ {l}
    /\ UNCHANGED <<epoch, decision>>

AbsNext ==
    \E l \in Lineages :
        \/ Open(l)
        \/ Replace(l)
        \/ \E d \in Outcomes : Decide(l, d)
        \/ Start(l)
        \/ Stop(l)

AbsSpec == AbsInit /\ [][AbsNext]_absVars
=============================================================================
