--------------------------- MODULE DelegationProofs ---------------------------
(***************************************************************************)
(* Delegation for every set of namespaces, objects, manifests and pods.    *)
(*                                                                         *)
(* An admitted pod is judged by what the wall saw; the property speaks of  *)
(* what is stored.  What links the two is that an object which was never   *)
(* replaced or deleted is, wherever it is seen at all, seen as it is       *)
(* stored, and that a manifest carries its ceilings with it on its way     *)
(* from the decision through the API server to the cache.                  *)
(***************************************************************************)
EXTENDS Delegation, GrantsProofs

(* The manifest m, wherever it is, is below what it was narrowed against,  *)
(* as far as the store st has it untouched, t being what was touched.      *)
Bounded(m, st, t) ==
    \A q \in m.above \ t : st[q] # Absent /\ Narrows(st[q].facet, m.facet)

(* Its ceilings are its named parent and those of this one, as far as st   *)
(* has them.                                                               *)
Descends(m, st, t) ==
    /\ m.parent = NoParent => m.above = {}
    /\ m.parent # NoParent =>
          \E q \in m.above :
            /\ Named(m.parent) = {q}
            /\ q \notin t => m.above = {q} \cup st[q].above

Grounded(m, st, t) == m # Absent => Bounded(m, st, t) /\ Descends(m, st, t)

(* Stored, allowed and cached manifests are grounded.                      *)
GroundedInv == \A o \in Objects :
    /\ Grounded(stored[o], stored, Touched)
    /\ Grounded(pending[o], stored, Touched)
    /\ Grounded(seen[o], stored, Touched)

(* What is cached of an object is what it is, or what it has been.         *)
FreshInv == \A o \in Objects :
    seen[o] # Absent => seen[o] = stored[o] \/ seen[o] \in past[o]

(* An admitted pod passed its manifest, which was grounded.                *)
AdmittedInv == \A a \in admitted :
    Admitted(a.facet, a.pod, a.standing, a.spend) /\ Bounded(a, stored, Touched)

IInv == TypeOK /\ GroundedInv /\ FreshInv /\ AdmittedInv

-------------------------------------------------------------------------------
(* Types                                                                   *)

LEMMA ManifestType ==
    ASSUME NEW facet \in Facets, NEW parent \in References \cup {NoParent},
           NEW above \in SUBSET Objects
    PROVE  [facet |-> facet, parent |-> parent, above |-> above] \in Manifest
BY DEF Manifest

LEMMA AllowType ==
    ASSUME TypeOK, NEW o \in Objects, NEW facet \in Facets,
           NEW parent \in References \cup {NoParent}, NEW above \in SUBSET Objects,
           Allow(o, facet, parent, above)
    PROVE  TypeOK'
<1>1. pending' \in [Objects -> Manifest \cup {Absent}]
  BY ManifestType DEF TypeOK, Allow
<1>2. writes' \in 0..MaxWrites
  BY DelegationAssumption DEF TypeOK, Allow
<1> QED
  BY <1>1, <1>2 DEF TypeOK, Allow

(* What is seen of an object has a facet and ceilings.                     *)
LEMMA SeenType ==
    ASSUME TypeOK, NEW o \in Objects, seen[o] # Absent
    PROVE  /\ seen[o] \in Manifest
           /\ seen[o].facet \in Facets /\ seen[o].facet \in Facet
           /\ seen[o].above \in SUBSET Objects
BY DelegationAssumption DEF TypeOK, Manifest

LEMMA ResolveFacts ==
    ASSUME TypeOK, NEW reference \in References, NEW q \in Resolve(reference)
    PROVE  q \in Objects /\ seen[q] # Absent /\ Named(reference) = {q}
<1>1. q \in Objects /\ seen[q] # Absent /\ q \in Named(reference)
  BY DEF Resolve, Named
<1>2. \A o \in Named(reference) : o = q
  BY <1>1, DelegationAssumption DEF Named
<1> QED
  BY <1>1, <1>2

LEMMA AdmitFacts ==
    ASSUME TypeOK, NEW ns \in Namespaces, NEW pod \in Pods,
           NEW standing \in Standing, NEW spend \in Spends,
           AdmitPod(ns, pod, standing, spend)
    PROVE  \E o \in Objects :
            /\ seen[o] # Absent
            /\ Admitted(seen[o].facet, pod, standing, spend)
            /\ admitted' = admitted \cup
                {[facet |-> seen[o].facet, above |-> seen[o].above, pod |-> pod,
                  standing |-> standing, spend |-> spend]}
BY DEF AdmitPod, Governing

(* What is replaced or deleted is remembered, and nothing is forgotten.    *)
LEMMA LeaveFacts ==
    ASSUME TypeOK, NEW o \in Objects, Leave(o)
    PROVE  /\ past' \in [Objects -> SUBSET Manifest]
           /\ \A p \in Objects : past[p] \subseteq past'[p]
           /\ Touched \subseteq Touched'
           /\ stored[o] # Absent => stored[o] \in past'[o] /\ o \in Touched'
<1>1. past \in [Objects -> SUBSET Manifest] /\ stored[o] \in Manifest \cup {Absent}
  BY DEF TypeOK
<1>2. past' \in [Objects -> SUBSET Manifest]
  BY <1>1 DEF Leave
<1>3. \A p \in Objects : past[p] \subseteq past'[p]
  BY <1>1 DEF Leave
<1>4. stored[o] # Absent => stored[o] \in past'[o]
  BY <1>1 DEF Leave
<1> QED
  BY <1>2, <1>3, <1>4 DEF Touched

LEMMA TypeInit == Init => TypeOK
<1>1. 0 \in 0..MaxWrites
  BY DelegationAssumption
<1> QED
  BY <1>1 DEF Init, TypeOK, Nowhere

LEMMA TypeStep == TypeOK /\ [Next]_vars => TypeOK'
<1> SUFFICES ASSUME TypeOK, [Next]_vars PROVE TypeOK'
  OBVIOUS
<1>1. CASE UNCHANGED vars
  BY <1>1 DEF vars, TypeOK
<1>2. ASSUME NEW o \in Objects, NEW facet \in Facets, NarrowRoot(o, facet)
      PROVE  TypeOK'
  BY <1>2, AllowType DEF NarrowRoot
<1>3. ASSUME NEW o \in Objects, NEW facet \in Facets, NEW reference \in References,
             NarrowChild(o, facet, reference)
      PROVE  TypeOK'
  <2>1. PICK q \in Resolve(reference) :
            Allow(o, facet, reference, {q} \cup seen[q].above)
    BY <1>3 DEF NarrowChild
  <2>2. {q} \cup seen[q].above \in SUBSET Objects
    BY ResolveFacts, SeenType
  <2> QED
    BY <2>1, <2>2, AllowType
<1>4. ASSUME NEW ns \in Namespaces, NEW pod \in Pods, NEW standing \in Standing,
             NEW spend \in Spends, AdmitPod(ns, pod, standing, spend)
      PROVE  TypeOK'
  <2>1. PICK o \in Objects :
            /\ seen[o] # Absent
            /\ admitted' = admitted \cup
                {[facet |-> seen[o].facet, above |-> seen[o].above, pod |-> pod,
                  standing |-> standing, spend |-> spend]}
    BY <1>4, AdmitFacts
  <2>2. admitted' \subseteq Admission
    BY <2>1, SeenType DEF TypeOK, Admission
  <2> QED
    BY <1>4, <2>2 DEF AdmitPod, TypeOK
<1>5. CASE Sync
  BY <1>5 DEF Sync, TypeOK
<1>6. CASE Restart
  BY <1>6 DEF Restart, TypeOK, Nowhere
<1>7. ASSUME NEW o \in Objects, Store(o) PROVE TypeOK'
  <2>1. past' \in [Objects -> SUBSET Manifest]
    BY <1>7, LeaveFacts DEF Store
  <2> QED
    BY <1>7, <2>1 DEF Store, TypeOK
<1>8. ASSUME NEW o \in Objects, Drop(o) PROVE TypeOK'
  BY <1>8 DEF Drop, TypeOK
<1>9. ASSUME NEW o \in Objects, Delete(o) PROVE TypeOK'
  <2>1. past' \in [Objects -> SUBSET Manifest]
    BY <1>9, LeaveFacts DEF Delete
  <2> QED
    BY <1>9, <2>1 DEF Delete, TypeOK
<1> QED
  BY <1>1, <1>2, <1>3, <1>4, <1>5, <1>6, <1>7, <1>8, <1>9 DEF Next

-------------------------------------------------------------------------------
(* Steps that move no untouched object                                     *)

(* If untouched objects stay where and what they are, a grounded manifest  *)
(* stays grounded.                                                         *)
Steady ==
    /\ Touched \subseteq Touched'
    /\ \A q \in Objects \ Touched' : stored[q] # Absent => stored'[q] = stored[q]

LEMMA BoundedStays ==
    ASSUME Steady, NEW m, m.above \in SUBSET Objects, Bounded(m, stored, Touched)
    PROVE  Bounded(m, stored', Touched')
BY DEF Bounded, Steady

LEMMA GroundedStays ==
    ASSUME Steady, NEW m \in Manifest \cup {Absent}, Grounded(m, stored, Touched)
    PROVE  Grounded(m, stored', Touched')
<1> SUFFICES ASSUME m # Absent PROVE Grounded(m, stored', Touched')
  BY DEF Grounded
<1>1. m.above \in SUBSET Objects
  BY DEF Manifest
<1>2. Bounded(m, stored, Touched) /\ Descends(m, stored, Touched)
  BY DEF Grounded
<1>3. Bounded(m, stored', Touched')
  BY <1>1, <1>2, BoundedStays
<1>4. \A q \in m.above \ Touched' : q \notin Touched /\ stored'[q] = stored[q]
  BY <1>1, <1>2 DEF Bounded, Steady
<1>5. Descends(m, stored', Touched')
  BY <1>2, <1>4 DEF Descends
<1> QED
  BY <1>3, <1>5 DEF Grounded

LEMMA AdmittedStays ==
    ASSUME TypeOK, Steady, AdmittedInv, admitted' = admitted
    PROVE  AdmittedInv'
<1>1. \A a \in admitted : a.above \in SUBSET Objects
  BY DEF TypeOK, Admission
<1> QED
  BY <1>1, BoundedStays DEF AdmittedInv

(* The steps that leave every stored manifest alone, or touch what they    *)
(* change.                                                                 *)
LEMMA StoreSteady ==
    ASSUME TypeOK, NEW o \in Objects, Store(o) \/ Delete(o)
    PROVE  Steady
<1>1. Leave(o) /\ \A q \in Objects : q # o => stored'[q] = stored[q]
  BY DEF TypeOK, Store, Delete
<1> QED
  BY <1>1, LeaveFacts DEF Steady

LEMMA IdleSteady ==
    ASSUME UNCHANGED <<stored, past>>
    PROVE  Steady
BY DEF Steady, Touched

LEMMA TouchedStays ==
    ASSUME UNCHANGED past
    PROVE  Touched' = Touched
BY DEF Touched

(* Whatever replaces an object, what is cached of it is remembered.        *)
LEMMA FreshStays ==
    ASSUME TypeOK, FreshInv, NEW o \in Objects, Store(o) \/ Delete(o)
    PROVE  FreshInv'
<1>1. Leave(o) /\ seen' = seen /\ \A p \in Objects : p # o => stored'[p] = stored[p]
  BY DEF TypeOK, Store, Delete
<1>2. \A p \in Objects : past[p] \subseteq past'[p]
  BY <1>1, LeaveFacts
<1>3. stored[o] # Absent => stored[o] \in past'[o]
  BY <1>1, LeaveFacts
<1> QED
  BY <1>1, <1>2, <1>3 DEF FreshInv

-------------------------------------------------------------------------------
(* The invariant                                                           *)

LEMMA InvInit == Init => IInv
<1> SUFFICES ASSUME Init PROVE IInv
  OBVIOUS
<1>1. TypeOK
  BY TypeInit
<1>2. GroundedInv
  BY DEF Init, Nowhere, GroundedInv, Grounded
<1>3. FreshInv /\ AdmittedInv
  BY DEF Init, Nowhere, FreshInv, AdmittedInv
<1> QED
  BY <1>1, <1>2, <1>3 DEF IInv

(* The wall allows a manifest: it is below the ceiling that was seen and   *)
(* below everything that ceiling is below.                                 *)
LEMMA ChildGrounded ==
    ASSUME IInv, NEW facet \in Facets, NEW reference \in References,
           NEW q \in Resolve(reference), Narrows(seen[q].facet, facet)
    PROVE  Grounded([facet |-> facet, parent |-> reference,
                     above |-> {q} \cup seen[q].above], stored, Touched)
<1> DEFINE m == [facet |-> facet, parent |-> reference,
                 above |-> {q} \cup seen[q].above]
<1>1. /\ q \in Objects /\ seen[q] # Absent /\ Named(reference) = {q}
      /\ seen[q].facet \in Facet /\ seen[q].above \in SUBSET Objects
      /\ facet \in Facet
  BY ResolveFacts, SeenType, DelegationAssumption DEF IInv
<1>2. q \notin Touched => seen[q] = stored[q]
  BY <1>1 DEF IInv, FreshInv, Touched
<1>3. Descends(m, stored, Touched)
  BY <1>1, <1>2, DelegationAssumption DEF Descends
<1>4. ASSUME NEW r \in m.above \ Touched
      PROVE  stored[r] # Absent /\ Narrows(stored[r].facet, facet)
  <2>1. CASE r = q
    BY <2>1, <1>1, <1>2, <1>4
  <2>2. CASE r \in seen[q].above
    <3>1. stored[r] # Absent /\ Narrows(stored[r].facet, seen[q].facet)
      BY <2>2, <1>1, <1>4 DEF IInv, GroundedInv, Grounded, Bounded
    <3>2. stored[r].facet \in Facet
      BY <2>2, <3>1, <1>1, DelegationAssumption DEF IInv, TypeOK, Manifest
    <3> QED
      BY <3>1, <3>2, <1>1, NarrowingIsPreorder
  <2> QED
    BY <2>1, <2>2, <1>4
<1>5. Bounded(m, stored, Touched)
  BY <1>4 DEF Bounded
<1> QED
  BY <1>3, <1>5 DEF Grounded

(* The steps that allow a manifest preserve the rest of the invariant.     *)
LEMMA AllowStep ==
    ASSUME IInv, TypeOK', NEW o \in Objects, NEW facet, NEW parent, NEW above,
           Allow(o, facet, parent, above),
           Grounded([facet |-> facet, parent |-> parent, above |-> above],
                    stored, Touched)
    PROVE  IInv'
<1>1. Steady
  BY IdleSteady DEF Allow
<1>2. GroundedInv'
  <2>1. \A p \in Objects : Grounded(pending'[p], stored, Touched)
    BY DEF Allow, IInv, TypeOK, GroundedInv
  <2> QED
    BY <2>1, TouchedStays DEF Allow, IInv, GroundedInv
<1>3. FreshInv'
  BY DEF Allow, IInv, FreshInv
<1>4. AdmittedInv'
  BY <1>1, AdmittedStays DEF Allow, IInv
<1> QED
  BY <1>2, <1>3, <1>4 DEF IInv

LEMMA InvStep == IInv /\ [Next]_vars => IInv'
<1> SUFFICES ASSUME IInv, [Next]_vars PROVE IInv'
  OBVIOUS
<1>0. TypeOK /\ TypeOK'
  BY TypeStep DEF IInv
<1>1. CASE UNCHANGED vars
  BY <1>1, <1>0, TouchedStays DEF vars, IInv, GroundedInv, FreshInv, AdmittedInv
<1>2. ASSUME NEW o \in Objects, NEW facet \in Facets, NarrowRoot(o, facet)
      PROVE  IInv'
  <2>1. Grounded([facet |-> facet, parent |-> NoParent, above |-> {}],
                 stored, Touched)
    BY DEF Grounded, Bounded, Descends
  <2> QED
    BY <1>0, <1>2, <2>1, AllowStep DEF NarrowRoot
<1>3. ASSUME NEW o \in Objects, NEW facet \in Facets, NEW reference \in References,
             NarrowChild(o, facet, reference)
      PROVE  IInv'
  <2>1. PICK q \in Resolve(reference) :
            /\ Narrows(seen[q].facet, facet)
            /\ Allow(o, facet, reference, {q} \cup seen[q].above)
    BY <1>3 DEF NarrowChild
  <2>2. Grounded([facet |-> facet, parent |-> reference,
                  above |-> {q} \cup seen[q].above], stored, Touched)
    BY <2>1, ChildGrounded
  <2> QED
    BY <1>0, <2>1, <2>2, AllowStep
<1>4. ASSUME NEW ns \in Namespaces, NEW pod \in Pods, NEW standing \in Standing,
             NEW spend \in Spends, AdmitPod(ns, pod, standing, spend)
      PROVE  IInv'
  <2>1. PICK o \in Objects :
            /\ seen[o] # Absent
            /\ Admitted(seen[o].facet, pod, standing, spend)
            /\ admitted' = admitted \cup
                {[facet |-> seen[o].facet, above |-> seen[o].above, pod |-> pod,
                  standing |-> standing, spend |-> spend]}
    BY <1>0, <1>4, AdmitFacts
  <2>2. Bounded(seen[o], stored, Touched)
    BY <2>1 DEF IInv, GroundedInv, Grounded
  <2>3. AdmittedInv'
    <3> DEFINE a == [facet |-> seen[o].facet, above |-> seen[o].above, pod |-> pod,
                     standing |-> standing, spend |-> spend]
    <3>1. Bounded(a, stored, Touched)
      BY <2>2 DEF Bounded
    <3>2. Admitted(a.facet, a.pod, a.standing, a.spend)
      BY <2>1
    <3>3. UNCHANGED <<stored, past>> /\ admitted' = admitted \cup {a}
      BY <1>4, <2>1 DEF AdmitPod
    <3> HIDE DEF a
    <3> QED
      BY <3>1, <3>2, <3>3, TouchedStays DEF IInv, AdmittedInv
  <2> QED
    BY <1>0, <1>4, <2>3, TouchedStays DEF AdmitPod, IInv, GroundedInv, FreshInv
<1>5. CASE Sync
  <2>1. GroundedInv' /\ FreshInv'
    BY <1>5, TouchedStays DEF Sync, IInv, GroundedInv, FreshInv
  <2>2. AdmittedInv'
    BY <1>0, <1>5, IdleSteady, AdmittedStays DEF Sync, IInv
  <2> QED
    BY <1>0, <2>1, <2>2 DEF IInv
<1>6. CASE Restart
  <2>1. GroundedInv' /\ FreshInv'
    BY <1>6, TouchedStays DEF Restart, Nowhere, IInv, GroundedInv, FreshInv, Grounded
  <2>2. AdmittedInv'
    BY <1>0, <1>6, IdleSteady, AdmittedStays DEF Restart, IInv
  <2> QED
    BY <1>0, <2>1, <2>2 DEF IInv
<1>7. ASSUME NEW o \in Objects, Store(o) PROVE IInv'
  <2>1. Steady
    BY <1>0, <1>7, StoreSteady
  <2>2. \A p \in Objects : /\ Grounded(stored[p], stored', Touched')
                           /\ Grounded(pending[p], stored', Touched')
                           /\ Grounded(seen[p], stored', Touched')
    BY <1>0, <2>1, GroundedStays DEF TypeOK, IInv, GroundedInv
  <2>3. GroundedInv'
    <3>1. Grounded(Absent, stored', Touched')
      BY DEF Grounded
    <3>2. \A p \in Objects : stored'[p] = stored[p] \/ stored'[p] = pending[p]
      BY <1>0, <1>7 DEF Store, TypeOK
    <3>3. \A p \in Objects : pending'[p] = pending[p] \/ pending'[p] = Absent
      BY <1>0, <1>7 DEF Store, TypeOK
    <3> QED
      BY <1>7, <2>2, <3>1, <3>2, <3>3 DEF Store, GroundedInv
  <2>4. FreshInv'
    BY <1>7, FreshStays DEF IInv
  <2>5. AdmittedInv'
    BY <1>0, <1>7, <2>1, AdmittedStays DEF Store, IInv
  <2> QED
    BY <1>0, <2>3, <2>4, <2>5 DEF IInv
<1>8. ASSUME NEW o \in Objects, Drop(o) PROVE IInv'
  <2>1. GroundedInv' /\ FreshInv'
    BY <1>0, <1>8, TouchedStays DEF Drop, TypeOK, IInv, GroundedInv, FreshInv, Grounded
  <2>2. AdmittedInv'
    BY <1>0, <1>8, IdleSteady, AdmittedStays DEF Drop, IInv
  <2> QED
    BY <1>0, <2>1, <2>2 DEF IInv
<1>9. ASSUME NEW o \in Objects, Delete(o) PROVE IInv'
  <2>1. Steady
    BY <1>0, <1>9, StoreSteady
  <2>2. \A p \in Objects : /\ Grounded(stored[p], stored', Touched')
                           /\ Grounded(pending[p], stored', Touched')
                           /\ Grounded(seen[p], stored', Touched')
    BY <1>0, <2>1, GroundedStays DEF TypeOK, IInv, GroundedInv
  <2>3. GroundedInv'
    <3>1. Grounded(Absent, stored', Touched')
      BY DEF Grounded
    <3>2. \A p \in Objects : /\ stored'[p] = stored[p] \/ stored'[p] = Absent
                             /\ pending'[p] = pending[p] \/ pending'[p] = Absent
      BY <1>0, <1>9 DEF Delete, TypeOK
    <3> QED
      BY <1>9, <2>2, <3>1, <3>2 DEF Delete, GroundedInv
  <2>4. FreshInv'
    BY <1>9, FreshStays DEF IInv
  <2>5. AdmittedInv'
    BY <1>0, <1>9, <2>1, AdmittedStays DEF Delete, IInv
  <2> QED
    BY <1>0, <2>3, <2>4, <2>5 DEF IInv
<1> QED
  BY <1>1, <1>2, <1>3, <1>4, <1>5, <1>6, <1>7, <1>8, <1>9 DEF Next

(* The inductive invariant holds of every reachable state.                 *)
THEOREM DelegationInvariance == Spec => []IInv
BY InvInit, InvStep, PTL DEF Spec

-------------------------------------------------------------------------------
(* The properties                                                          *)

(* Every variable keeps its type, for every set of objects and specs.      *)
THEOREM TypeCorrect == Spec => []TypeOK
<1>1. IInv => TypeOK
  BY DEF IInv
<1> QED
  BY <1>1, DelegationInvariance, PTL

(* What is stored is well-typed and grounded, and the admitted pods passed *)
(* what is: all that the properties rest on.                               *)
StoreInv ==
    /\ stored \in [Objects -> Manifest \cup {Absent}]
    /\ past \in [Objects -> SUBSET Manifest]
    /\ admitted \subseteq Admission
    /\ \A o \in Objects : Grounded(stored[o], stored, Touched)
    /\ AdmittedInv

LEMMA StoreInvHolds == IInv => StoreInv
BY DEF IInv, TypeOK, GroundedInv, StoreInv

LEMMA LineageInv == StoreInv => Lineage
<1> SUFFICES ASSUME StoreInv, NEW o \in Objects,
                    stored[o] # Absent, stored[o].parent # NoParent,
                    NEW q \in Named(stored[o].parent) \ Touched
             PROVE  stored[q] # Absent /\ Narrows(stored[q].facet, stored[o].facet)
  BY DEF Lineage
<1>1. Bounded(stored[o], stored, Touched) /\ Descends(stored[o], stored, Touched)
  BY DEF StoreInv, Grounded
<1>2. q \in stored[o].above
  BY <1>1 DEF Descends
<1> QED
  BY <1>1, <1>2 DEF Bounded

(* A stored manifest narrows the parent it names for as long as that       *)
(* parent is the one that was created, whatever the delays and restarts.   *)
THEOREM LineageHolds == Spec => []Lineage
BY StoreInvHolds, LineageInv, DelegationInvariance, PTL

LEMMA DelegatedInv == StoreInv => Delegated
<1> SUFFICES ASSUME StoreInv, NEW a \in admitted, NEW q \in a.above \ Touched
             PROVE  /\ stored[q] # Absent
                    /\ AdmittedButImages(stored[q].facet, a.pod, a.standing, a.spend)
                    /\ a.facet.imagePrefixes # {} =>
                            ImagesWall(stored[q].facet, a.pod)
  BY DEF Delegated
<1> DEFINE f == a.facet
           p == stored[q].facet
<1>1. stored[q] # Absent /\ Narrows(p, f)
  BY DEF StoreInv, AdmittedInv, Bounded
<1>2. Admitted(f, a.pod, a.standing, a.spend)
  BY DEF StoreInv, AdmittedInv
<1>3. /\ a \in Admission /\ f \in Facet /\ a.pod \in Pod
      /\ a.standing \in Standing /\ a.spend \in Spend
  BY DelegationAssumption DEF StoreInv, Admission
<1>4. p \in Facet
  <2>1. q \in Objects
    BY <1>3 DEF Admission
  <2> QED
    BY <2>1, <1>1, DelegationAssumption DEF StoreInv, Manifest
<1>5. a.pod.rows \in SUBSET Effect /\ a.pod.images \in SUBSET Images
  BY <1>3 DEF Pod
<1> HIDE DEF f, p
<1>6. \A e \in a.pod.rows : e.kind # "untrusted-image" => Admits(p, e)
  BY <1>1, <1>2, <1>3, <1>4, <1>5, AdmitsSound DEF Admitted, NamesWall
<1>7. AdmittedButImages(p, a.pod, a.standing, a.spend)
  BY <1>1, <1>2, <1>3, <1>4, <1>6, LatticeSound, TrustSound, BudgetSound
     DEF Admitted, AdmittedButImages
<1>8. f.imagePrefixes # {} => ImagesWall(p, a.pod)
  BY <1>1, <1>2, <1>3, <1>4, <1>5, ImagesSound DEF Admitted, ImagesWall
<1> QED
  BY <1>1, <1>7, <1>8 DEF f, p

(* Delegation hands out nothing that was not held, images aside, along     *)
(* chains of any length and for every set of manifests and pods.           *)
THEOREM DelegationIsSound == Spec => []Delegated
BY StoreInvHolds, DelegatedInv, DelegationInvariance, PTL

-------------------------------------------------------------------------------
(* The promise                                                             *)

LEMMA TouchedThere == Promise!Touched = Touched
BY DEF Promise!Touched, Touched

LEMMA LeaveThere ==
    ASSUME NEW o \in Objects, Leave(o)
    PROVE  Promise!Leave(o)
BY DEF Leave, Promise!Leave

(* A step that neither stores nor admits is none.                          *)
LEMMA Invisible ==
    ASSUME UNCHANGED <<stored, past, admitted>>
    PROVE  [Promise!Next]_(Promise!vars)
BY DEF Promise!vars

(* A manifest that was allowed on the evidence of the past is put where    *)
(* the evidence of the present allows it.                                  *)
LEMMA StorePuts ==
    ASSUME IInv, NEW o \in Objects, Store(o)
    PROVE  Promise!Next
<1> DEFINE m == stored'[o]
<1>1. m = pending[o] /\ m # Absent /\ m \in Manifest
  BY DEF Store, IInv, TypeOK
<1>2. stored' = [stored EXCEPT ![o] = m]
  BY <1>1 DEF Store, IInv, TypeOK
<1>3. Bounded(m, stored, Touched) /\ Descends(m, stored, Touched)
  BY <1>1 DEF IInv, GroundedInv, Grounded
<1> HIDE DEF m
<1>4. m \in Promise!Manifest
  BY <1>1 DEF Manifest, Promise!Manifest
<1>5. \A q \in m.above \ Touched : stored[q] # Absent /\ Narrows(stored[q].facet, m.facet)
  BY <1>3 DEF Bounded
<1>6. Promise!Descends(m)
  BY <1>3, <1>5, TouchedThere DEF Descends, Promise!Descends
<1>7. Promise!Leave(o) /\ UNCHANGED admitted
  BY LeaveThere DEF Store
<1>8. Promise!Put(o)
  BY <1>2, <1>4, <1>5, <1>6, <1>7, TouchedThere DEF Promise!Put, m
<1> QED
  BY <1>8 DEF Promise!Next

LEMMA DeleteRemoves ==
    ASSUME NEW o \in Objects, Delete(o)
    PROVE  Promise!Next
<1>1. Promise!Remove(o)
  BY LeaveThere DEF Delete, Promise!Remove
<1> QED
  BY <1>1 DEF Promise!Next

(* A pod is admitted by a manifest that is, or was, really there.          *)
LEMMA PodJoins ==
    ASSUME IInv, NEW ns \in Namespaces, NEW pod \in Pods,
           NEW standing \in Standing, NEW spend \in Spends,
           AdmitPod(ns, pod, standing, spend)
    PROVE  [Promise!Next]_(Promise!vars)
<1>1. PICK o \in Objects :
        /\ seen[o] # Absent
        /\ Admitted(seen[o].facet, pod, standing, spend)
        /\ admitted' = admitted \cup
            {[facet |-> seen[o].facet, above |-> seen[o].above, pod |-> pod,
              standing |-> standing, spend |-> spend]}
  BY AdmitFacts DEF IInv
<1> DEFINE a == [facet |-> seen[o].facet, above |-> seen[o].above, pod |-> pod,
                 standing |-> standing, spend |-> spend]
<1>2. a \in Promise!Admission
  BY <1>1, SeenType DEF IInv, Promise!Admission
<1>3. \E p \in Objects : \E m \in past[p] \cup {stored[p]} :
        m # Absent /\ a.facet = m.facet /\ a.above = m.above
  BY <1>1 DEF IInv, FreshInv
<1>4. Admitted(a.facet, a.pod, a.standing, a.spend)
  BY <1>1
<1>5. admitted' = admitted \cup {a} /\ UNCHANGED <<stored, past>>
  BY <1>1 DEF AdmitPod
<1> HIDE DEF a
<1>6. Promise!Admit(a)
  BY <1>2, <1>3, <1>4, <1>5 DEF Promise!Admit
<1>7. CASE a \in admitted
  BY <1>5, <1>7, Invisible
<1>8. CASE a \notin admitted
  BY <1>5, <1>6, <1>8 DEF Promise!Next
<1> QED
  BY <1>7, <1>8

LEMMA PromiseStep == IInv /\ [Next]_vars => [Promise!Next]_(Promise!vars)
<1> SUFFICES ASSUME IInv, [Next]_vars PROVE [Promise!Next]_(Promise!vars)
  OBVIOUS
<1>1. ASSUME NEW o \in Objects, NEW facet \in Facets, NarrowRoot(o, facet)
      PROVE  [Promise!Next]_(Promise!vars)
  BY <1>1, Invisible DEF NarrowRoot, Allow
<1>2. ASSUME NEW o \in Objects, NEW facet \in Facets, NEW reference \in References,
             NarrowChild(o, facet, reference)
      PROVE  [Promise!Next]_(Promise!vars)
  BY <1>2, Invisible DEF NarrowChild, Allow
<1>3. CASE Sync \/ Restart \/ UNCHANGED vars
  BY <1>3, Invisible DEF Sync, Restart, vars
<1>4. ASSUME NEW o \in Objects, Drop(o) PROVE [Promise!Next]_(Promise!vars)
  BY <1>4, Invisible DEF Drop
<1> QED
  BY <1>1, <1>2, <1>3, <1>4, StorePuts, DeleteRemoves, PodJoins
     DEF Next

(* The wall, its cache and its restarts implement HeldAuthority: what is    *)
(* stored and who is admitted is as if every decision had been taken on     *)
(* the manifests themselves, but for those replaced or deleted meanwhile.   *)
THEOREM Refinement == Spec => KeepsPromise
<1>1. Init => Promise!Init
  BY DEF Init, Nowhere, Promise!Init
<1>2. IInv /\ [Next]_vars => [Promise!Next]_(Promise!vars)
  BY PromiseStep
<1> QED
  BY <1>1, <1>2, DelegationInvariance, PTL DEF Spec, KeepsPromise, Promise!Spec

-------------------------------------------------------------------------------
(* What the promise is worth                                               *)

(* What was stored is grounded as well as what is.                         *)
PastInv == \A o \in Objects : \A m \in past[o] : Grounded(m, stored, Touched)

LEMMA HeldInit == Promise!Init => StoreInv /\ PastInv
<1> SUFFICES ASSUME Promise!Init PROVE StoreInv /\ PastInv
  OBVIOUS
<1>1. /\ stored = [o \in Objects |-> Absent]
      /\ past = [o \in Objects |-> {}]
      /\ admitted = {}
  BY DEF Promise!Init
<1> QED
  BY <1>1 DEF StoreInv, PastInv, AdmittedInv, Grounded

(* A step that replaces or removes one object moves no untouched one, and  *)
(* what it leaves behind stays grounded.                                   *)
LEMMA HeldChanges ==
    ASSUME StoreInv, PastInv, NEW o \in Objects, NEW m \in Manifest \cup {Absent},
           stored' = [stored EXCEPT ![o] = m], Promise!Leave(o), UNCHANGED admitted,
           Grounded(m, stored, Touched)
    PROVE  StoreInv' /\ PastInv'
<1>1. /\ stored \in [Objects -> Manifest \cup {Absent}]
      /\ past \in [Objects -> SUBSET Manifest]
  BY DEF StoreInv
<1>2. stored' \in [Objects -> Manifest \cup {Absent}]
  BY <1>1
<1>3. past' \in [Objects -> SUBSET Manifest]
  BY <1>1 DEF Promise!Leave
<1>4. \A p \in Objects : past[p] \subseteq past'[p]
  BY <1>1 DEF Promise!Leave
<1>5. stored[o] # Absent => stored[o] \in past'[o]
  BY <1>1 DEF Promise!Leave
<1>6. \A q \in Objects : q # o => stored'[q] = stored[q]
  BY <1>1
<1>7. Steady
  BY <1>4, <1>5, <1>6 DEF Steady, Touched
<1>8. \A p \in Objects : stored'[p] = stored[p] \/ stored'[p] = m
  BY <1>1
<1>9. \A p \in Objects : Grounded(stored[p], stored', Touched')
  BY <1>1, <1>7, GroundedStays DEF StoreInv
<1>10. Grounded(m, stored', Touched')
  BY <1>7, GroundedStays
<1>11. \A p \in Objects : Grounded(stored'[p], stored', Touched')
  BY <1>8, <1>9, <1>10
<1>12. \A p \in Objects : \A n \in past'[p] :
          n \in past[p] \/ (n = stored[p] /\ n # Absent)
  BY <1>1 DEF Promise!Leave
<1>13. \A p \in Objects : \A n \in past[p] : Grounded(n, stored', Touched')
  BY <1>1, <1>7, GroundedStays DEF PastInv
<1>14. PastInv'
  <2>1. ASSUME NEW p \in Objects, NEW n \in past'[p]
        PROVE  Grounded(n, stored', Touched')
    <3>1. n \in past[p] \/ n = stored[p]
      BY <2>1, <1>12
    <3> QED
      BY <3>1, <1>9, <1>13
  <2> QED
    BY <2>1 DEF PastInv
<1>15. AdmittedInv'
  <2>1. \A a \in admitted : a.above \in SUBSET Objects
    BY DEF StoreInv, Admission
  <2> QED
    BY <1>7, <2>1, BoundedStays DEF StoreInv, AdmittedInv
<1> QED
  BY <1>2, <1>3, <1>11, <1>14, <1>15 DEF StoreInv

LEMMA HeldStep ==
    StoreInv /\ PastInv /\ [Promise!Next]_(Promise!vars) => StoreInv' /\ PastInv'
<1> SUFFICES ASSUME StoreInv, PastInv, [Promise!Next]_(Promise!vars)
             PROVE  StoreInv' /\ PastInv'
  OBVIOUS
<1>1. CASE UNCHANGED <<stored, past, admitted>>
  BY <1>1, TouchedStays DEF StoreInv, PastInv, AdmittedInv
<1>2. ASSUME NEW o \in Objects, Promise!Put(o) PROVE StoreInv' /\ PastInv'
  <2>1. PICK m : m = stored'[o]
    OBVIOUS
  <2>2. /\ stored' = [stored EXCEPT ![o] = m] /\ m \in Manifest
        /\ Promise!Leave(o) /\ UNCHANGED admitted
    BY <1>2, <2>1 DEF Promise!Put, Promise!Manifest, Manifest
  <2>3. Promise!Descends(m)
    BY <1>2, <2>1 DEF Promise!Put
  <2>4. Bounded(m, stored, Touched)
    BY <1>2, <2>1, TouchedThere DEF Promise!Put, Bounded
  <2>5. Descends(m, stored, Touched)
    BY <2>3, TouchedThere DEF Promise!Descends, Descends
  <2> QED
    BY <2>2, <2>4, <2>5, HeldChanges DEF Grounded
<1>3. ASSUME NEW o \in Objects, Promise!Remove(o) PROVE StoreInv' /\ PastInv'
  BY <1>3, HeldChanges DEF Promise!Remove, Grounded
<1>4. ASSUME NEW a, Promise!Admit(a) PROVE StoreInv' /\ PastInv'
  <2>1. /\ a \in Admission /\ admitted' = admitted \cup {a}
        /\ UNCHANGED <<stored, past>>
        /\ Admitted(a.facet, a.pod, a.standing, a.spend)
    BY <1>4 DEF Promise!Admit, Promise!Admission, Admission
  <2>2. PICK o \in Objects : \E m \in past[o] \cup {stored[o]} :
            m # Absent /\ a.facet = m.facet /\ a.above = m.above
    BY <1>4 DEF Promise!Admit
  <2>3. PICK m \in past[o] \cup {stored[o]} :
            m # Absent /\ a.facet = m.facet /\ a.above = m.above
    BY <2>2
  <2>4. Bounded(m, stored, Touched)
    BY <2>3 DEF StoreInv, PastInv, Grounded
  <2>5. Bounded(a, stored, Touched)
    BY <2>3, <2>4 DEF Bounded
  <2>6. AdmittedInv'
    BY <2>1, <2>5, TouchedStays DEF StoreInv, AdmittedInv
  <2> QED
    BY <2>1, <2>6, TouchedStays DEF StoreInv, PastInv
<1> QED
  BY <1>1, <1>2, <1>3, <1>4 DEF Promise!Next, Promise!vars

(* Whoever keeps the promise, by whatever caches and protocols, delegates  *)
(* soundly: what is stored descends from what its parents hold, and no pod *)
(* is admitted beyond them.  The cache, the delays and the restarts do not *)
(* appear in this argument.                                                *)
THEOREM PromiseSuffices == KeepsPromise => [](Lineage /\ Delegated)
<1>1. Promise!Init => StoreInv /\ PastInv
  BY HeldInit
<1>2. StoreInv /\ PastInv /\ [Promise!Next]_(Promise!vars) => StoreInv' /\ PastInv'
  BY HeldStep
<1>3. StoreInv => Lineage /\ Delegated
  BY LineageInv, DelegatedInv
<1> QED
  BY <1>1, <1>2, <1>3, PTL DEF KeepsPromise, Promise!Spec
===============================================================================
