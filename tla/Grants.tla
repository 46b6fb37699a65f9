-------------------------------- MODULE Grants --------------------------------
(***************************************************************************)
(* The algebra of the wall: what the effects of a pod demand (effect.rs),  *)
(* what a LexManifest grants (facet.rs, manifest.rs), when one manifest    *)
(* narrows another, and when a pod is admitted under one (admission.rs,    *)
(* trust.rs).  Names are members of sets; that an image begins with a      *)
(* prefix, or that two spellings are one capability, is a constant.        *)
(***************************************************************************)
EXTENDS Integers

CONSTANTS
    Secrets, Hosts,
    Spellings,      \* of capabilities, in a pod or in a manifest
    Canonical,      \* the capability each spelling is
    Dangerous,      \* the capabilities that are a full escape
    Prefixes,
    Images,
    PrefixesOf,     \* the prefixes each image begins with
    Currencies,
    MaxMoney        \* bound of budgets, reports and prices

ASSUME NamesAssumption ==
    /\ DOMAIN Canonical = Spellings
    /\ PrefixesOf \in [Images -> SUBSET Prefixes]
    /\ MaxMoney \in Nat

(* Level::rank, on the axis of each name.  (lex_os_manifest)               *)
Levels    == 0..3
None      == 0
ReadOnly  == 1
Sandboxed == 1
ReadWrite == 2
Allowlist == 2
Full      == 3

Axes  == {"filesystem", "network", "exec"}
Grant == [Axes -> Levels]

MakeGrant(fs, net, exec) ==
    [a \in Axes |-> CASE a = "filesystem" -> fs
                      [] a = "network" -> net
                      [] a = "exec" -> exec]

Nothing    == MakeGrant(None, None, None)
Everything == MakeGrant(Full, Full, Full)

(* Grant::narrow: no axis is widened.  (lex_os_manifest)                   *)
Below(g, h) == \A a \in Axes : g[a] <= h[a]

-------------------------------------------------------------------------------
(* Effects.  "reaches" says where an egress row's policies really lead; no *)
(* part of the wall knows it.                                              *)

Reach == {"none", "allowlist", "unrestricted", "no-policy"}

Effect ==
    [kind : {"secret"}, name : Secrets]
        \cup [kind : {"capability"}, name : Spellings]
        \cup [kind : {"host-path"}, writable : BOOLEAN]
        \cup [kind : {"host-network", "host-namespace", "privileged",
                      "privilege-escalation", "unreadable"}]
        \cup [kind : {"egress"}, reach : Reach, reaches : SUBSET Hosts]
        \cup [kind : {"api"}, escalates : BOOLEAN]
        \cup [kind : {"untrusted-image"}, name : Images]

(* Effect::demands                                                         *)
Demands(e) ==
    CASE e.kind = "host-network"         -> MakeGrant(None, Full, None)
      [] e.kind = "host-namespace"       -> MakeGrant(None, None, Full)
      [] e.kind = "privileged"           -> MakeGrant(Full, None, Full)
      [] e.kind = "privilege-escalation" -> MakeGrant(None, None, Full)
      [] e.kind = "capability" ->
            MakeGrant(None, None,
                IF Canonical[e.name] \in Dangerous THEN Full ELSE Sandboxed)
      [] e.kind = "host-path" ->
            MakeGrant(IF e.writable THEN Full ELSE ReadWrite, None, None)
      [] e.kind = "secret" -> MakeGrant(ReadOnly, None, None)
      [] e.kind = "egress" ->
            MakeGrant(None, CASE e.reach = "none" -> None
                              [] e.reach = "allowlist" -> Allowlist
                              [] OTHER -> Full, None)
      [] e.kind = "api" ->
            MakeGrant(None, Allowlist, IF e.escalates THEN Full ELSE None)
      [] e.kind = "untrusted-image" -> Nothing
      [] e.kind = "unreadable" -> Everything

(* The least grant that every row is below: the fold of join() in compile. *)
Join(rows) ==
    [a \in Axes |->
        CHOOSE l \in Levels :
            /\ \A e \in rows : Demands(e)[a] <= l
            /\ l = None \/ \E e \in rows : Demands(e)[a] = l]

(* A compiled pod: its rows, all its images, what its reservation costs,   *)
(* and whether some container declared no requests.                        *)
Pod == [rows : SUBSET Effect, images : SUBSET Images,
        cost : 0..MaxMoney, undeclared : BOOLEAN]

-------------------------------------------------------------------------------
(* Manifests                                                               *)

(* The spec of a LexManifest.  isolationFloor is absent, spelled           *)
(* "unenforced-...", or asks for what this deployment cannot back.         *)
Facet ==
    [egress : SUBSET Hosts, secrets : SUBSET Secrets,
     capabilities : SUBSET Spellings, imagePrefixes : SUBSET Prefixes,
     hostPath : BOOLEAN, privileged : BOOLEAN, hostNamespaces : BOOLEAN,
     exec : Levels, currency : Currencies, budget : 0..MaxMoney,
     floor : {"none", "unenforced", "demanded"}]

(* LexManifest::read                                                       *)
Readable(f) == f.floor # "demanded"

AtLeast(l, m) == IF l < m THEN m ELSE l

(* PodFacet::implied_grant: the ceiling follows from what is named.        *)
ImpliedGrant(f) ==
    MakeGrant(
        IF f.privileged \/ f.hostPath THEN Full
        ELSE IF f.secrets # {} THEN ReadOnly ELSE None,
        IF f.hostNamespaces THEN Full
        ELSE IF f.egress = {} THEN None ELSE Allowlist,
        IF f.privileged \/ f.hostNamespaces THEN Full
        ELSE IF f.capabilities = {} THEN f.exec ELSE AtLeast(f.exec, Sandboxed))

(* Mutant of Narrows: an ordered boolean is left out.                      *)
NarrowsButHost(parent, child) ==
    /\ child.budget <= parent.budget
    /\ child.egress \subseteq parent.egress
    /\ child.secrets \subseteq parent.secrets
    /\ child.capabilities \subseteq parent.capabilities
    /\ child.imagePrefixes \subseteq parent.imagePrefixes
    /\ child.currency = parent.currency
    /\ child.hostPath => parent.hostPath

(* validate_narrowing of the lattice, the budget and the pod facet.        *)
Narrows(parent, child) ==
    /\ Below(ImpliedGrant(child), ImpliedGrant(parent))
    /\ child.budget <= parent.budget
    /\ child.egress \subseteq parent.egress
    /\ child.secrets \subseteq parent.secrets
    /\ child.capabilities \subseteq parent.capabilities
    /\ child.imagePrefixes \subseteq parent.imagePrefixes
    /\ child.currency = parent.currency
    /\ child.hostPath => parent.hostPath
    /\ child.privileged => parent.privileged
    /\ child.hostNamespaces => parent.hostNamespaces

-------------------------------------------------------------------------------
(* The walls                                                               *)

Vouched(f, image) == PrefixesOf[image] \cap f.imagePrefixes # {}

(* PodFacet::admits                                                        *)
Admits(f, e) ==
    CASE e.kind = "secret" -> e.name \in f.secrets
      [] e.kind = "capability" ->
            \E g \in f.capabilities : Canonical[g] = Canonical[e.name]
      [] e.kind = "host-path" -> f.hostPath
      [] e.kind = "privileged" -> f.privileged
      [] e.kind \in {"host-namespace", "host-network"} -> f.hostNamespaces
      [] e.kind = "egress" -> e.reach \in {"none", "allowlist"}
      [] e.kind = "untrusted-image" -> f.imagePrefixes = {} \/ Vouched(f, e.name)
      [] e.kind \in {"privilege-escalation", "api", "unreadable"} -> TRUE

(* unchecked_dimensions: the waiver a manifest grants.                     *)
Unchecked(f, pod) ==
    f.imagePrefixes = {} /\ \E e \in pod.rows : e.kind = "untrusted-image"

Standing == {"not-consulted", "trusted", "unknown"}

(* What the namespace spends, when the operator configured it.             *)
Spend == [configured : BOOLEAN, currency : Currencies, committed : 0..MaxMoney]

LatticeWall(f, pod) == Below(Join(pod.rows), ImpliedGrant(f))
NamesWall(f, pod)   == \A e \in pod.rows : Admits(f, e)
ImagesWall(f, pod)  ==
    f.imagePrefixes # {} => \A image \in pod.images : Vouched(f, image)
TrustWall(f, pod, standing) == standing = "unknown" => ~Unchecked(f, pod)
BudgetWall(f, pod, spend) ==
    spend.configured =>
        ~pod.undeclared /\ spend.committed + pod.cost <= f.budget

(* A report in another currency: the wall cannot run, and no verdict.      *)
CanRun(f, spend) == spend.configured => spend.currency = f.currency

(* admit(): every wall is asked, and none may refuse.                      *)
Admitted(f, pod, standing, spend) ==
    /\ CanRun(f, spend)
    /\ LatticeWall(f, pod)
    /\ NamesWall(f, pod)
    /\ ImagesWall(f, pod)
    /\ TrustWall(f, pod, standing)
    /\ BudgetWall(f, pod, spend)

(* worst_row: the rows that a lattice refusal can point at.                *)
Culprits(f, pod) == {e \in pod.rows : ~Below(Demands(e), ImpliedGrant(f))}
===============================================================================
