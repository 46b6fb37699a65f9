----------------------------- MODULE HeldAuthority -----------------------------
(***************************************************************************)
(* What the wall promises about delegation, whatever cache it looks into   *)
(* and however late its answers are acted upon.  A manifest is stored only *)
(* under the parent it names, and below all that is held at that moment of *)
(* what it descends from; a pod is admitted only by a manifest that was    *)
(* really stored.  There is no cache here, and no time between a decision  *)
(* and its effect: that the wall looks at the past shows only where an     *)
(* object has been replaced or deleted.                                    *)
(***************************************************************************)

CONSTANTS
    Objects,                    \* the manifests that may exist
    Facets, Pods, Standing, Spends,
    References, NoParent,
    Absent,                     \* in place of a manifest that is not stored
    Named(_),                   \* the objects that a reference names
    Narrows(_, _),              \* the second spec grants no more than the first
    Passes(_, _, _, _)          \* the spec lets the pod through

VARIABLES
    stored,     \* what each object is
    past,       \* what each has been before it was replaced or deleted
    admitted    \* the pods admitted, with what decided them

vars == <<stored, past, admitted>>

Manifest == [facet : Facets, parent : References \cup {NoParent},
             above : SUBSET Objects]

Admission == [facet : Facets, above : SUBSET Objects, pod : Pods,
              standing : Standing, spend : Spends]

(* Objects that are not what they were created as.                         *)
Touched == {o \in Objects : past[o] # {}}

Init ==
    /\ stored = [o \in Objects |-> Absent]
    /\ past = [o \in Objects |-> {}]
    /\ admitted = {}

(* What m descends from is the parent that it names, and all that this one *)
(* descends from.  (Of a parent that is touched, its history is not told.) *)
Descends(m) ==
    IF m.parent = NoParent THEN m.above = {}
    ELSE \E q \in m.above :
            /\ Named(m.parent) = {q}
            /\ q \notin Touched =>
                    stored[q] # Absent /\ m.above = {q} \cup stored[q].above

(* What is replaced or deleted is remembered.                              *)
Leave(o) ==
    past' = IF stored[o] = Absent THEN past
            ELSE [past EXCEPT ![o] = @ \cup {stored[o]}]

Put(o) ==
    LET m == stored'[o] IN
    /\ Leave(o)
    /\ stored' = [stored EXCEPT ![o] = m]
    /\ m \in Manifest
    /\ Descends(m)
    /\ \A q \in m.above \ Touched :
          stored[q] # Absent /\ Narrows(stored[q].facet, m.facet)
    /\ UNCHANGED admitted

Remove(o) ==
    /\ stored[o] # Absent
    /\ stored' = [stored EXCEPT ![o] = Absent]
    /\ Leave(o)
    /\ UNCHANGED admitted

(* One pod more, by a manifest that is or was stored somewhere.            *)
Admit(a) ==
    /\ a \in Admission
    /\ admitted' = admitted \cup {a}
    /\ \E o \in Objects : \E m \in past[o] \cup {stored[o]} :
          m # Absent /\ a.facet = m.facet /\ a.above = m.above
    /\ Passes(a.facet, a.pod, a.standing, a.spend)
    /\ UNCHANGED <<stored, past>>

Next ==
    \/ \E o \in Objects : Put(o) \/ Remove(o)
    \/ \E a \in admitted' \ admitted : Admit(a)

Spec == Init /\ [][Next]_vars
================================================================================
