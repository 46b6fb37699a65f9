-------------------------------- MODULE PodWall --------------------------------
(***************************************************************************)
(* One gated namespace from the wall's decision to the node: policies,     *)
(* roles and bindings come and go, a pod is created, relabelled and given  *)
(* debug containers, each through a review (webhook.yaml: CREATE and       *)
(* UPDATE of pods and pods/ephemeralcontainers), and the kubelet starts    *)
(* its containers one after the other.                                     *)
(*                                                                         *)
(* The caches are current here (Caches has their lag), the manifest stays  *)
(* (Delegation replaces manifests), and what is on record is not looked at *)
(* (AuditTrail).  A refused review changes nothing.                        *)
(***************************************************************************)
EXTENDS PodCompiler

CONSTANTS
    Facets,         \* the specs the namespace's manifest may have
    Specs,          \* what is posted
    Debuggers,      \* ephemeral containers
    Policies, Roles, Bindings,
    MaxObjects,     \* bound: how many of each of these exist at once
    Spends,
    Submissions,    \* who asks, and the keyring
    Here,           \* the namespace
    NoPod

ASSUME WallAssumption ==
    /\ Here \in Namespaces
    /\ NoPod \notin PodSpec
    /\ MaxObjects \in Nat
    /\ Facets \subseteq Facet /\ Specs \subseteq {s \in PodSpec : Ordered(s)}
    /\ Spends \subseteq Spend /\ Submissions \subseteq Submission
    /\ \A c \in Debuggers : c \in Container /\ c.kind = "Ephemeral"
    /\ \A p \in Policies : p.egress = Absent \/ p.egress \subseteq SUBSET Peer
    /\ \A b \in Bindings : b.kind \in {"Role", "ClusterRole"}

VARIABLES
    manifest,   \* the spec of the LexManifest that governs the namespace
    submission, \* who submits, and the keyring read at start-up
    spend,      \* the price list and the spend report, read at start-up
    policies, roles, bindings,
    pod,        \* what the API server has stored
    up,         \* the containers that run, by their place in the spec
    next,       \* the container to be started next
    peak        \* history: the most that was held at once

cluster == <<policies, roles, bindings>>
config  == <<manifest, submission, spend>>
node    == <<up, next, peak>>
vars    == <<config, cluster, pod, node>>

Nought == [r \in Resources |-> 0]

Init ==
    /\ manifest \in Facets
    /\ submission \in Submissions
    /\ spend \in Spends
    /\ policies = {} /\ roles = {} /\ bindings = {}
    /\ pod = NoPod
    /\ up = {} /\ next = 1 /\ peak = Nought

-------------------------------------------------------------------------------
(* What Kubernetes makes of these objects, said without the wall: a        *)
(* selector is the conjunction of its requirements, matchLabels among      *)
(* them; what no policy isolates reaches everything; an account is itself  *)
(* and a member of its groups.                                             *)

Requirements(sel) ==
    sel.exprs \cup {[key |-> k, operator |-> "In", values |-> {sel.matchLabels[k]}] :
                       k \in DOMAIN sel.matchLabels}

Rejects(e, labels) ==
    IF e.key \in DOMAIN labels
    THEN \/ e.operator = "In" /\ labels[e.key] \notin e.values
         \/ e.operator = "NotIn" /\ labels[e.key] \in e.values
         \/ e.operator = "DoesNotExist"
    ELSE e.operator \in {"In", "Exists"}

Isolating(labels) ==
    {p \in policies :
        /\ p.namespace = Here
        /\ \/ "Egress" \in p.types
           \/ p.types = {} /\ p.egress # Absent
        /\ p.selector # Absent =>
              \A e \in Requirements(p.selector) : ~Rejects(e, labels)}

PeerHosts(peer) ==
    IF IsBlock(peer) THEN Covers[peer.cidr] \ UNION {Covers[e] : e \in peer.except}
    ELSE peer.selects

Reachable(labels) ==
    LET allowing == Rules(Isolating(labels))
    IN  IF Isolating(labels) = {} \/ {} \in allowing THEN Hosts
        ELSE UNION {PeerHosts(q) : q \in UNION allowing}

Identities(account) ==
    [kind : {"ServiceAccount"}, name : {account}, namespace : {Here, Absent}]
        \cup [kind : {"Group"}, name : Accounts, namespace : {Here, Cluster}]

BoundTo(account) ==
    {b \in bindings : /\ b.namespace \in {Here, Cluster}
                      /\ b.subjects \cap Identities(account) # {}}

(* The role that a binding refers to, if there is such a role.             *)
Refers(b, role) ==
    /\ b.role = role.name
    /\ \/ b.namespace = Here /\ b.kind = "Role" /\ role.namespace = Here
       \/ b.namespace = Here /\ b.kind = "ClusterRole" /\ role.namespace = Cluster
       \/ b.namespace = Cluster /\ role.namespace = Cluster

HeldRules(account) ==
    UNION {r.rules : r \in {s \in roles : \E b \in BoundTo(account) : Refers(b, s)}}

-------------------------------------------------------------------------------
(* The wall                                                                *)

SubjectOf(spec) ==
    [namespace |-> Here, labels |-> spec.labels, account |-> spec.account]

(* snapshot::build.  Where the pod really leads is carried along.          *)
Build(spec) ==
    [egress  |-> EgressFor(SubjectOf(spec), policies),
     reaches |-> Reachable(spec.labels),
     rbac    |-> RbacFor(SubjectOf(spec), roles, bindings)]

(* The wall runs: every quantity is read, and the report's currency is the *)
(* manifest's.                                                             *)
Decides(spec) == Compiles(spec) /\ CanRun(manifest, spend)

Compiled(spec) == Compile(spec, Build(spec))

(* The response allows the pod.                                            *)
Review(spec) ==
    /\ Decides(spec)
    /\ \E compiled \in {Compiled(spec)} :
          Silent(Refusals(manifest, compiled, StandingOf(submission), spend))

-------------------------------------------------------------------------------
(* Clients of the API server                                               *)

Toggle(objects, object) ==
    IF object \in objects THEN objects \ {object} ELSE objects \cup {object}

ChangePolicy ==
    /\ \E p \in Policies : policies' = Toggle(policies, p)
    /\ Cardinality(policies') <= MaxObjects
    /\ UNCHANGED <<config, roles, bindings, pod, node>>

ChangeRole ==
    /\ \E r \in Roles : roles' = Toggle(roles, r)
    /\ Cardinality(roles') <= MaxObjects
    /\ UNCHANGED <<config, policies, bindings, pod, node>>

ChangeBinding ==
    /\ \E b \in Bindings : bindings' = Toggle(bindings, b)
    /\ Cardinality(bindings') <= MaxObjects
    /\ UNCHANGED <<config, policies, roles, pod, node>>

Create(spec) ==
    /\ pod = NoPod
    /\ Review(spec)
    /\ pod' = spec
    /\ UNCHANGED <<config, cluster, node>>

(* Mutant of Relabel: labels are not reviewed.                             *)
RelabelUnseen(labels) ==
    /\ pod # NoPod
    /\ pod' = [pod EXCEPT !.labels = labels]
    /\ UNCHANGED <<config, cluster, node>>

(* Labels may change while the pod runs, and are reviewed with the spec.   *)
Relabel(labels) ==
    /\ pod # NoPod
    /\ pod' = [pod EXCEPT !.labels = labels]
    /\ Review(pod')
    /\ UNCHANGED <<config, cluster, node>>

(* kubectl debug: an ephemeral container is added for good.  (Bound: one.) *)
Debug(container) ==
    /\ pod # NoPod
    /\ \A c \in AllContainers(pod) : c.kind # "Ephemeral"
    /\ pod' = [pod EXCEPT !.containers = Append(@, container)]
    /\ Review(pod')
    /\ UNCHANGED <<config, cluster, node>>

(* Mutant of Delete: what runs goes on running.                            *)
DeleteLeaves ==
    /\ pod # NoPod
    /\ pod' = NoPod
    /\ UNCHANGED <<config, cluster, node>>

Delete ==
    /\ pod # NoPod
    /\ pod' = NoPod
    /\ up' = {} /\ next' = 1 /\ peak' = Nought
    /\ UNCHANGED <<config, cluster>>

-------------------------------------------------------------------------------
(* The kubelet                                                             *)

(* What Kubernetes holds for a container.                                  *)
Amount(c, r) ==
    CASE c.requests[r] = Absent -> 0
      [] OTHER -> IF r = "cpu" THEN CpuAmount(c.requests[r]) ELSE MemoryAmount(c.requests[r])

HeldBy(places, r) ==
    SumFunctionOnSet([i \in places |-> Amount(pod.containers[i], r)], places)

Held(r) == IF pod = NoPod THEN 0 ELSE HeldBy(up, r)

Startable == IF pod = NoPod THEN {} ELSE Charged(pod)

(* In the order of the spec, and nothing starts beside an init container.  *)
StartContainer ==
    /\ next \in Startable
    /\ \A i \in up : pod.containers[i].kind # "Init"
    /\ up' = up \cup {next}
    /\ next' = next + 1
    /\ peak' = [r \in Resources |-> Max({peak[r], HeldBy(up', r)})]
    /\ UNCHANGED <<config, cluster, pod>>

FinishInit ==
    /\ \E i \in up : pod.containers[i].kind = "Init" /\ up' = up \ {i}
    /\ UNCHANGED <<config, cluster, pod, next, peak>>

-------------------------------------------------------------------------------

Next ==
    \/ ChangePolicy
    \/ ChangeRole
    \/ ChangeBinding
    \/ \E spec \in Specs : Create(spec)
    \/ \E labels \in Labels : Relabel(labels)
    \/ \E c \in Debuggers : Debug(c)
    \/ Delete
    \/ StartContainer
    \/ FinishInit

Spec == Init /\ [][Next]_vars

-------------------------------------------------------------------------------
(* Correctness                                                             *)

TypeOK ==
    /\ manifest \in Facets /\ submission \in Submissions /\ spend \in Spends
    /\ policies \subseteq Policies
    /\ roles \subseteq Roles
    /\ bindings \subseteq Bindings
    /\ pod \in PodSpec \cup {NoPod}
    /\ up \subseteq Startable
    /\ next \in Nat
    /\ DOMAIN peak = Resources

(* The egress row says what the cluster enforces: nothing is reachable     *)
(* behind "none", and "everything" is said exactly where no policy, or a   *)
(* rule without exceptions, leaves everything open, for every labelling    *)
(* and every combination of policies.                                      *)
EgressExact ==
    \A labels \in Labels :
        LET subject == [namespace |-> Here, labels |-> labels,
                        account |-> CHOOSE a \in Accounts : TRUE]
            reach == ReachOf(EgressFor(subject, policies))
            hosts == Reachable(labels)
        IN  /\ reach = "none" => hosts = {}
            /\ hosts = Hosts => reach \in {"unrestricted", "no-policy"}
            /\ reach \in {"unrestricted", "no-policy"} =>
                  \/ hosts = Hosts
                  \/ \E q \in UNION Rules(policies) : IsBlock(q) /\ q.except # {}

(* What a pod can do, said of the objects and not of rows and levels.      *)
Abilities(spec) ==
    LET hosts  == Reachable(spec.labels)
        staged == {v \in Volumes : spec.volumes[v].hostPath}
        every  == AllContainers(spec)
        held   == HeldRules(spec.account)
    IN  {<<"secret", s>> : s \in UNION ({spec.volumes[v].secrets : v \in Volumes}
                                        \cup {c.secrets : c \in every})}
        \cup {<<"capability", Canonical[n]>> : n \in UNION {c.capabilities : c \in every}}
        \cup When(staged # {}, <<"node files">>)
        \cup When(\E v \in staged : \E c \in every :
                      [volume |-> v, readOnly |-> FALSE] \in c.mounts, <<"node writes">>)
        \cup When(\E c \in every : c.privileged, <<"node root">>)
        \cup When(spec.hostNetwork \/ spec.hostNamespaces, <<"node namespaces">>)
        \cup When(\E rule \in held : Escalates(rule), <<"escalation">>)
        \cup When(hosts # {}, <<"network">>)
        \cup When(hosts = Hosts, <<"whole network">>)
        \cup {<<"image", c.image>> : c \in every}

(* Nobody was asked about the submitter, or the keyring names it.          *)
Vetted == submission.consulted => submission.signer \in submission.trusted

(* What a manifest grants, said of its fields.                             *)
Granted(f) ==
    {<<"secret", s>> : s \in f.secrets}
        \cup {<<"capability", Canonical[n]>> : n \in f.capabilities}
        \cup When(f.hostPath, <<"node files">>)
        \cup When(f.hostPath, <<"node writes">>)
        \cup When(f.privileged, <<"node root">>)
        \cup When(f.hostNamespaces, <<"node namespaces">>)
        \cup When(f.exec = Full \/ f.privileged \/ f.hostNamespaces, <<"escalation">>)
        \cup When(f.egress # {} \/ f.hostNamespaces, <<"network">>)
        \cup {<<"image", i>> : i \in {j \in Images :
                 \/ f.imagePrefixes = {} /\ (Vetted \/ ~Doubted(j))
                 \/ PrefixesOf[j] \cap f.imagePrefixes # {}}}

(* Whatever becomes of a pod through the API server, by creation, by new   *)
(* labels or by a debug container, gives it no ability that the manifest   *)
(* does not grant, in the cluster of that moment.  No namespace is granted *)
(* the whole network.                                                      *)
AdmittedWithinCeiling ==
    [][pod' # pod /\ pod' # NoPod => Abilities(pod') \subseteq Granted(manifest)]_vars

(* A binding only ever adds: none of them makes a pod admissible that was  *)
(* not, whatever groups, roles and missing roles it names.  (A review does  *)
(* not look at the pods that exist.)                                       *)
BindingsOnlyAdd ==
    [][pod = NoPod /\ bindings \subseteq bindings' /\ bindings' # bindings =>
          \A spec \in Specs : ~Review(spec) => ~Review(spec)']_vars

(* "A binding whose role is missing from the cache is recorded, not        *)
(* dropped": before a binding's role exists, and while it does, a pod that *)
(* is bound to anything passes only under a manifest that grants some      *)
(* network.  (A role without rules gives nothing.)                         *)
DanglingIsSeen ==
    pod = NoPod => \A spec \in Specs :
        (/\ \E b \in BoundTo(spec.account) :
                \A role \in roles : Refers(b, role) => role.rules # {}
         /\ Review(spec))
            => manifest.egress # {} \/ manifest.hostNamespaces

(* The record tells the verdict and its reason.  The chain ends with an    *)
(* admission exactly when every wall lets the pod through, and then the    *)
(* charge it carries fits the budget it carries.  A refusal names the      *)
(* first wall that does not, and an effect that this wall would refuse if  *)
(* it were the pod's only one; the answer lists what is recorded.          *)
Only(e) == [rows |-> {e}, images |-> {}, cost |-> 0, undeclared |-> FALSE]

RefusalNamesItsCause ==
    pod = NoPod => \A spec \in {s \in Specs : Decides(s)} :
        \A compiled \in {Compiled(spec)} :
        \A decision \in {Decision(manifest, compiled, submission, spend)} :
        LET last == decision.audit[Len(decision.audit)]
            Passes(standing, charged) ==
                Admitted(manifest, compiled, standing,
                         [spend EXCEPT !.configured = charged])
        IN  /\ last.kind = "pod_admitted" <=>
                    Passes(StandingOf(submission), spend.configured)
            /\ \A i \in DOMAIN decision.audit :
                  last.kind = "pod_admitted" /\ decision.audit[i].kind = "spend_charged" =>
                      decision.audit[i].namespace + decision.audit[i].pod
                          <= decision.audit[i].budget
            /\ last.kind = "pod_refused" =>
                /\ [wall |-> last.wall, about |-> last.about] \in Respond(decision).causes
                /\ CASE last.wall = "type-check" -> ~LatticeWall(manifest, Only(last.about))
                     [] last.wall = "narrowing" ->
                            /\ LatticeWall(manifest, compiled)
                            /\ IF last.about \in compiled.rows
                               THEN ~NamesWall(manifest, Only(last.about))
                               ELSE NamesWall(manifest, compiled)
                     [] last.wall = "trust"  -> Passes("trusted", FALSE)
                     [] last.wall = "budget" -> Passes(StandingOf(submission), FALSE)

(* "Init containers are a peak, not a sum": once a pod runs, it holds no   *)
(* more than it was charged for, and it was charged for no more than it    *)
(* held at its peak.                                                       *)
Settled == pod # NoPod /\ next \notin Startable
              /\ \A i \in up : pod.containers[i].kind # "Init"

ReservationSettles ==
    Settled => \A r \in Resources :
                  Held(r) <= EffectiveRequests(pod)[r]
                      /\ EffectiveRequests(pod)[r] <= peak[r]

(* "A pod is charged for what it holds": at every moment.                  *)
ChargedForWhatItHolds ==
    pod # NoPod => \A r \in Resources : Held(r) <= EffectiveRequests(pod)[r]

(* What is true of it: an init container beside the sidecars that precede  *)
(* it, and nothing else, comes on top of the charge, so at no moment does  *)
(* a pod hold more than twice what it was charged for.                     *)
ChargedForHalfAtLeast ==
    pod # NoPod => \A r \in Resources : Held(r) <= 2 * EffectiveRequests(pod)[r]

(* "A /0 CIDR is unrestricted however it is spelled, and however many      *)
(* narrower rules sit beside it" (cluster.rs, is_unrestricted).            *)
SlashZeroIsUnrestricted ==
    \A spec \in Specs :
        (\E q \in UNION Rules(Isolating(spec.labels)) : IsBlock(q) /\ q.cidr \in ZeroBlocks)
            => ReachOf(EgressFor(SubjectOf(spec), policies)) = "unrestricted"
===============================================================================
