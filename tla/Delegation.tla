------------------------------ MODULE Delegation ------------------------------
(***************************************************************************)
(* Manifests that name a parent, and pods admitted under them.  The API    *)
(* server asks the wall about each LexManifest before it stores it         *)
(* (narrow_manifest in serve/handlers.rs) and about each pod (admit_pod).  *)
(* The wall answers both from its own cache of manifests, which lags       *)
(* behind the API server; deletions are never shown to it.                 *)
(***************************************************************************)
EXTENDS Grants, FiniteSets

CONSTANTS
    Namespaces, Names,
    Objects,        \* the LexManifests that may exist
    Root,           \* the namespace that "cluster/<name>" stands for
    Facets,         \* the specs that are submitted
    Pods,           \* the pods that are submitted, compiled
    Spends,         \* the spend reports that an operator may configure
    NoParent, Absent,
    MaxWrites,      \* bound: manifests that the wall allows
    MaxPods         \* bound: pods that the wall admits

References == [ns : Namespaces \cup {"cluster"}, name : Names]

(* A stored manifest.  "above" is history, unknown to the program: the     *)
(* object it was narrowed against, and those that one was.                 *)
Manifest == [facet : Facets, parent : References \cup {NoParent},
             above : SUBSET Objects]

ASSUME DelegationAssumption ==
    /\ Objects \subseteq [ns : Namespaces, name : Names]
    /\ Facets \subseteq Facet
    /\ Pods \subseteq Pod
    /\ Spends \subseteq Spend
    /\ NoParent \notin References
    /\ Absent \notin Manifest
    /\ MaxWrites \in Nat /\ MaxPods \in Nat

Admission == [facet : Facets, above : SUBSET Objects, pod : Pods,
              standing : Standing, spend : Spends]

VARIABLES
    stored,     \* the manifests in the API server
    pending,    \* those that the wall allowed and that are not stored yet
    seen,       \* the wall's cache
    listed,     \* the cache's ready flag
    past,       \* history: what each object was before it was replaced or deleted
    writes,     \* counts the manifests allowed
    admitted    \* history: the pods admitted, with what decided them

vars == <<stored, pending, seen, listed, past, writes, admitted>>

Nowhere == [o \in Objects |-> Absent]

Init ==
    /\ stored = Nowhere /\ pending = Nowhere /\ seen = Nowhere
    /\ listed = FALSE
    /\ past = [o \in Objects |-> {}] /\ writes = 0 /\ admitted = {}

-------------------------------------------------------------------------------
(* The wall                                                                *)

(* The object that a parent reference names.                               *)
Named(reference) ==
    {o \in Objects :
        /\ o.name = reference.name
        /\ o.ns = IF reference.ns = "cluster" THEN Root ELSE reference.ns}

(* Mutant of Resolve: the namespace of the reference is not looked at.     *)
ResolveByName(reference) ==
    {o \in Objects : o.name = reference.name /\ seen[o] # Absent}

(* Caches::manifest_by_reference                                           *)
Resolve(reference) == {o \in Named(reference) : seen[o] # Absent}

(* Mutant of Allow: the answer is not awaited, the cache has it already.   *)
AllowRemembers(o, facet, parent, above) ==
    /\ writes < MaxWrites
    /\ pending' = [pending EXCEPT
                    ![o] = [facet |-> facet, parent |-> parent, above |-> above]]
    /\ seen' = [seen EXCEPT ![o] = pending'[o]]
    /\ writes' = writes + 1
    /\ UNCHANGED <<stored, listed, past, admitted>>

Allow(o, facet, parent, above) ==
    /\ writes < MaxWrites
    /\ pending' = [pending EXCEPT
                    ![o] = [facet |-> facet, parent |-> parent, above |-> above]]
    /\ writes' = writes + 1
    /\ UNCHANGED <<stored, seen, listed, past, admitted>>

(* Mutant of NarrowRoot: no parent is taken for a name without namespace.  *)
NarrowRootUnnamed(o, facet) ==
    /\ pending[o] = Absent
    /\ Readable(facet)
    /\ Allow(o, facet, [ns |-> "", name |-> o.name], {})

(* POST /narrow, for a CREATE or an UPDATE of o: no parent is named, and   *)
(* there is nothing to narrow against.  The API server decides one write   *)
(* of an object at a time.  A refusal changes none of these variables.     *)
NarrowRoot(o, facet) ==
    /\ pending[o] = Absent
    /\ Readable(facet)
    /\ Allow(o, facet, NoParent, {})

(* Mutant of NarrowChild: a ceiling that is not found is no ceiling.       *)
NarrowChildUnfound(o, facet, reference) ==
    /\ pending[o] = Absent
    /\ Readable(facet)
    /\ listed
    /\ \/ Resolve(reference) = {} /\ Allow(o, facet, reference, {})
       \/ \E q \in Resolve(reference) :
            /\ Narrows(seen[q].facet, facet)
            /\ Allow(o, facet, reference, {q} \cup seen[q].above)

(* POST /narrow with a parent, which must be in a listed cache, readable,  *)
(* and no narrower than the child.                                         *)
NarrowChild(o, facet, reference) ==
    /\ pending[o] = Absent
    /\ Readable(facet)
    /\ listed
    /\ \E q \in Resolve(reference) :
        /\ Readable(seen[q].facet)
        /\ Narrows(seen[q].facet, facet)
        /\ Allow(o, facet, reference, {q} \cup seen[q].above)

(* Caches::manifest_for: exactly one manifest governs a namespace.         *)
Governing(ns) == {o \in Objects : o.ns = ns /\ seen[o] # Absent}

(* POST /admit: the one governing manifest decides.                        *)
AdmitPod(ns, pod, standing, spend) ==
    /\ Cardinality(admitted) < MaxPods
    /\ listed
    /\ \E o \in Objects :
        /\ Governing(ns) = {o}
        /\ Readable(seen[o].facet)
        /\ Admitted(seen[o].facet, pod, standing, spend)
        /\ admitted' = admitted \cup
            {[facet |-> seen[o].facet, above |-> seen[o].above, pod |-> pod,
              standing |-> standing, spend |-> spend]}
    /\ UNCHANGED <<stored, pending, seen, listed, past, writes>>

(* The reflector brings the cache up to a later state of the server.       *)
Sync ==
    /\ seen' = stored
    /\ listed' = TRUE
    /\ UNCHANGED <<stored, pending, past, writes, admitted>>

(* A new process starts with a cold cache.                                 *)
Restart ==
    /\ seen' = Nowhere
    /\ listed' = FALSE
    /\ UNCHANGED <<stored, pending, past, writes, admitted>>

-------------------------------------------------------------------------------
(* The API server                                                          *)

(* What is replaced or deleted has been.                                   *)
Leave(o) ==
    past' = IF stored[o] = Absent THEN past
            ELSE [past EXCEPT ![o] = @ \cup {stored[o]}]

(* An allowed manifest is stored, however late.                            *)
Store(o) ==
    /\ pending[o] # Absent
    /\ stored' = [stored EXCEPT ![o] = pending[o]]
    /\ pending' = [pending EXCEPT ![o] = Absent]
    /\ Leave(o)
    /\ UNCHANGED <<seen, listed, writes, admitted>>

(* Another webhook refuses it, or the client has gone.                     *)
Drop(o) ==
    /\ pending[o] # Absent
    /\ pending' = [pending EXCEPT ![o] = Absent]
    /\ UNCHANGED <<stored, seen, listed, past, writes, admitted>>

(* The webhook's rules name CREATE and UPDATE: a DELETE is not reviewed.   *)
Delete(o) ==
    /\ stored[o] # Absent
    /\ stored' = [stored EXCEPT ![o] = Absent]
    /\ pending' = [pending EXCEPT ![o] = Absent]
    /\ Leave(o)
    /\ UNCHANGED <<seen, listed, writes, admitted>>

Next ==
    \/ \E o \in Objects, facet \in Facets : NarrowRoot(o, facet)
    \/ \E o \in Objects, facet \in Facets, reference \in References :
            NarrowChild(o, facet, reference)
    \/ \E ns \in Namespaces, pod \in Pods, standing \in Standing, spend \in Spends :
            AdmitPod(ns, pod, standing, spend)
    \/ Sync
    \/ Restart
    \/ \E o \in Objects : Store(o) \/ Drop(o) \/ Delete(o)

Spec == Init /\ [][Next]_vars

-------------------------------------------------------------------------------
(* Properties                                                              *)

(* Every variable has its type: no write loses the shape of a manifest.    *)
TypeOK ==
    /\ stored \in [Objects -> Manifest \cup {Absent}]
    /\ pending \in [Objects -> Manifest \cup {Absent}]
    /\ seen \in [Objects -> Manifest \cup {Absent}]
    /\ listed \in BOOLEAN
    /\ past \in [Objects -> SUBSET Manifest]
    /\ writes \in 0..MaxWrites
    /\ admitted \subseteq Admission

(* The objects that were replaced or deleted since their creation.         *)
Touched == {o \in Objects : past[o] # {}}

(* While a manifest that others name as their parent has not been replaced *)
(* or deleted, it is stored and every stored manifest that names it        *)
(* narrows it, however late the cache, the decision and the write were.    *)
Lineage ==
    \A o \in Objects :
        (stored[o] # Absent /\ stored[o].parent # NoParent) =>
            \A q \in Named(stored[o].parent) \ Touched :
                stored[q] # Absent /\ Narrows(stored[q].facet, stored[o].facet)

(* Everything admit() asks of a pod, the prefixes of its images aside.     *)
AdmittedButImages(f, pod, standing, spend) ==
    /\ CanRun(f, spend)
    /\ LatticeWall(f, pod)
    /\ \A e \in pod.rows : e.kind # "untrusted-image" => Admits(f, e)
    /\ TrustWall(f, pod, standing)
    /\ BudgetWall(f, pod, spend)

(* A pod admitted under a manifest would have been admitted, images aside, *)
(* under every ceiling that manifest descends from and that is as it was   *)
(* created: delegation hands out nothing that was not held.                *)
Delegated ==
    \A a \in admitted : \A q \in a.above \ Touched :
        /\ stored[q] # Absent
        /\ AdmittedButImages(stored[q].facet, a.pod, a.standing, a.spend)
        /\ a.facet.imagePrefixes # {} =>
                ImagesWall(stored[q].facet, a.pod)

(* The cache, its lag and its restarts, and the time between a decision    *)
(* and the write it allows, show nowhere but in what was replaced or       *)
(* deleted: the wall delegates as HeldAuthority says.                      *)
Promise == INSTANCE HeldAuthority WITH
    Narrows <- Narrows, Passes <- Admitted

KeepsPromise == Promise!Spec

(* "A namespace lead hands out authority they hold, never authority they   *)
(* do not" (README), for the images of a pod.                              *)
ImagesDelegated ==
    \A a \in admitted : \A q \in a.above \ Touched :
        ImagesWall(stored[q].facet, a.pod)

(* "A pod that reaches exfil.example.com under an allowlist policy: the    *)
(* facet refuses" (README): an admitted pod reaches what the manifest      *)
(* names and nothing else.                                                 *)
NamedDestinationsOnly ==
    \A a \in admitted : \A e \in a.pod.rows :
        e.kind = "egress" => e.reaches \subseteq a.facet.egress
===============================================================================
