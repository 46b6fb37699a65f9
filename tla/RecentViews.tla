------------------------------ MODULE RecentViews ------------------------------
(***************************************************************************)
(* What /admit promises about the cluster that a verdict rests on, whatever *)
(* reflectors, flags and restarts are behind it: a review is judged once,  *)
(* at one step, on a version of every collection that is listed and not    *)
(* ahead of the cluster, and on none that is older than what a verdict     *)
(* given before the review arrived rests on; or it is given up for good.   *)
(***************************************************************************)
EXTENDS Integers

CONSTANTS
    Kinds,      \* of objects that a verdict depends on
    Reviews,
    Versions,
    NoView      \* in place of the versions behind a verdict

VARIABLES
    version,    \* of each collection in the cluster
    phase,      \* idle, asked, judged or unjudged
    view,       \* the versions that the verdict rests on
    before      \* the reviews that were judged before this one arrived

vars == <<version, phase, view, before>>

Init ==
    /\ version = [k \in Kinds |-> 0]
    /\ phase = [r \in Reviews |-> "idle"]
    /\ view = [r \in Reviews |-> NoView]
    /\ before = [r \in Reviews |-> {}]

Change(k) ==
    /\ version' = [version EXCEPT ![k] = @ + 1]
    /\ UNCHANGED <<phase, view, before>>

Ask(r) ==
    /\ phase[r] = "idle"
    /\ phase' = [phase EXCEPT ![r] = "asked"]
    /\ before' = [before EXCEPT ![r] = {q \in Reviews : phase[q] = "judged"}]
    /\ UNCHANGED <<version, view>>

Judge(r, listed) ==
    /\ phase[r] = "asked"
    /\ \A k \in Kinds : listed[k] <= version[k]
    /\ \A q \in before[r] : \A k \in Kinds : view[q][k] <= listed[k]
    /\ phase' = [phase EXCEPT ![r] = "judged"]
    /\ view' = [view EXCEPT ![r] = listed]
    /\ UNCHANGED <<version, before>>

(* One handler fails, or the process ends with all of them.                *)
GiveUp(some) ==
    /\ \A r \in some : phase[r] = "asked"
    /\ phase' = [r \in Reviews |-> IF r \in some THEN "unjudged" ELSE phase[r]]
    /\ UNCHANGED <<version, view, before>>

Next ==
    \/ \E k \in Kinds : Change(k)
    \/ \E r \in Reviews : Ask(r)
    \/ \E r \in Reviews, listed \in [Kinds -> Versions] : Judge(r, listed)
    \/ \E some \in SUBSET Reviews : GiveUp(some)

Spec == Init /\ [][Next]_vars
================================================================================
