-------------------------- MODULE WitnessedDecisions --------------------------
(***************************************************************************)
(* What the audit trail promises to those who rely on it, whatever the     *)
(* threads, locks and files behind it: a decision is filed before anything *)
(* outside commits to it, it is committed to before the cluster acts on    *)
(* it, and a commitment is never taken back.  Only the filed decisions can *)
(* be lost, all at once, with the volume they are on.                      *)
(***************************************************************************)
CONSTANTS
    Pods,       \* pod decisions, each with a file of its own
    Manifests   \* manifest decisions, which the commitment alone records

VARIABLES
    filed,      \* pods whose complete decision file is on the volume
    committed,  \* decisions that some published checkpoint covers
    created     \* decided requests that the API server let through

vars == <<filed, committed, created>>

Init ==
    /\ filed = {}
    /\ committed = {}
    /\ created = {}

File(p) ==
    /\ filed' = filed \cup {p}
    /\ UNCHANGED <<committed, created>>

(* One checkpoint may cover several new decisions: those whose own         *)
(* checkpoint failed come with the next one.                               *)
Commit(decisions) ==
    /\ committed' = committed \cup decisions
    /\ UNCHANGED <<filed, created>>

Create(r) ==
    /\ r \in committed
    /\ created' = created \cup {r}
    /\ UNCHANGED <<filed, committed>>

LoseVolume ==
    /\ filed' = {}
    /\ UNCHANGED <<committed, created>>

Next ==
    \/ \E p \in Pods : File(p)
    \/ \E decisions \in SUBSET (filed \cup Manifests) : Commit(decisions)
    \/ \E r \in Pods \cup Manifests : Create(r)
    \/ LoseVolume

Spec == Init /\ [][Next]_vars
===============================================================================
