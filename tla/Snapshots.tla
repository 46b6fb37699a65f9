------------------------------- MODULE Snapshots -------------------------------
(***************************************************************************)
(* The snapshot of the cluster that one verdict is made on (snapshot.rs,   *)
(* cluster.rs): which NetworkPolicies govern a pod and how far they let it *)
(* reach, and which rules its ServiceAccount holds through its bindings.   *)
(* The objects are those that the caches hold, as sets.                    *)
(***************************************************************************)
EXTENDS Grants, FiniteSets

CONSTANTS
    Namespaces, Accounts,
    Labels,         \* what objects are labelled with: functions of keys
    Blocks,         \* CIDRs
    ZeroBlocks,     \* those of prefix length zero
    OpenBlocks,     \* among them, those spelled 0.0.0.0/0 or ::/0
    Covers,         \* the hosts that each CIDR contains
    Absent,         \* an optional field that is not there
    Cluster         \* in place of a namespace: cluster-wide

(* EgressPolicy: a selector is told apart by the hosts it covers.          *)
Egress == [cidrs : SUBSET Blocks, selectors : SUBSET ((SUBSET Hosts) \cup Blocks)]

ASSUME BlocksAssumption ==
    /\ OpenBlocks # {}
    /\ OpenBlocks \subseteq ZeroBlocks /\ ZeroBlocks \subseteq Blocks
    /\ Covers \in [Blocks -> SUBSET Hosts]
    /\ \A b \in ZeroBlocks : Covers[b] = Hosts
    /\ Absent \notin Namespaces /\ Cluster \notin Namespaces
    /\ Absent \notin Egress

(* What a snapshot depends on, PodSubject.                                 *)
Subject == [namespace : Namespaces, labels : Labels, account : Accounts]

-------------------------------------------------------------------------------
(* NetworkPolicies                                                         *)

(* A selector has labels to match and requirements.  Mutant of Selects: an *)
(* empty selector selects nothing.                                         *)
SelectsNone(sel, labels) ==
    /\ DOMAIN sel.matchLabels # {} \/ sel.exprs # {}
    /\ \A k \in DOMAIN sel.matchLabels :
          k \in DOMAIN labels /\ labels[k] = sel.matchLabels[k]

Selects(sel, labels) ==
    /\ \A k \in DOMAIN sel.matchLabels :
          k \in DOMAIN labels /\ labels[k] = sel.matchLabels[k]
    /\ \A e \in sel.exprs :
          LET present == e.key \in DOMAIN labels IN
          CASE e.operator = "In"           -> present /\ labels[e.key] \in e.values
            [] e.operator = "NotIn"        -> ~present \/ labels[e.key] \notin e.values
            [] e.operator = "Exists"       -> present
            [] e.operator = "DoesNotExist" -> ~present
            [] OTHER                       -> TRUE

(* Without policyTypes, a policy governs egress if it has an egress field. *)
GovernsEgress(p) ==
    IF p.types # {} THEN "Egress" \in p.types ELSE p.egress # Absent

PolicySelects(subject, p) ==
    /\ p.namespace = subject.namespace
    /\ GovernsEgress(p)
    /\ p.selector # Absent => Selects(p.selector, subject.labels)

Selecting(subject, policies) == {p \in policies : PolicySelects(subject, p)}

(* A rule is the set of its peers, the empty one if it has no "to".  A     *)
(* peer is a CIDR with exceptions, or selects pods.                        *)
Peer == [cidr : Blocks, except : SUBSET Blocks] \cup [selects : SUBSET Hosts]

Rules(policies) ==
    UNION {p.egress : p \in {q \in policies : q.egress # Absent}}

IsBlock(peer) == "cidr" \in DOMAIN peer

(* egress_for: the union of the rules of every policy that selects the     *)
(* pod, or Absent.  An exception is noted beside the selectors.            *)
EgressFor(subject, policies) ==
    LET selecting == Selecting(subject, policies)
        peers     == UNION Rules(selecting)
        blocks    == {q \in peers : IsBlock(q)}
    IN  IF selecting = {} THEN Absent
        ELSE [cidrs |-> {q.cidr : q \in blocks} \cup
                        (IF {} \in Rules(selecting) THEN OpenBlocks ELSE {}),
              selectors |-> {q.selects : q \in peers \ blocks} \cup
                            UNION {q.except : q \in blocks}]

(* compile: is_unrestricted, permits_nothing.                              *)
ReachOf(egress) ==
    CASE egress = Absent                    -> "no-policy"
      [] egress # Absent /\ egress.cidrs \cap OpenBlocks # {} -> "unrestricted"
      [] egress # Absent /\ egress.cidrs = {} /\ egress.selectors = {} -> "none"
      [] OTHER                              -> "allowlist"

-------------------------------------------------------------------------------
(* RBAC                                                                    *)

(* Mutant of NamesSubject: groups are overlooked.                          *)
NamesAccount(subject, b) ==
    \E s \in b.subjects :
        s.kind = "ServiceAccount" /\ s.name = subject.account
            /\ s.namespace \in {subject.namespace, Absent}

(* The account itself, or one of the two groups that every account is in.  *)
NamesSubject(subject, b) ==
    \E s \in b.subjects :
        \/ /\ s.kind = "ServiceAccount"
           /\ s.name = subject.account
           /\ s.namespace \in {subject.namespace, Absent}
        \/ /\ s.kind = "Group"
           /\ s.namespace \in {subject.namespace, Cluster}

(* Where a binding looks for its role: a RoleBinding may name a ClusterRole *)
(* and a ClusterRoleBinding always does.                                   *)
RoleNamespace(b) ==
    IF b.namespace = Cluster \/ b.kind = "ClusterRole" THEN Cluster ELSE b.namespace

RolesOf(b, roles) ==
    {r \in roles : r.name = b.role /\ r.namespace = RoleNamespace(b)}

(* push_rules: a role that is not in the cache leaves a row without verbs. *)
Unresolved == [group |-> "", resource |-> "unresolved", verbs |-> {}]

(* Mutant of RulesOf: a binding to nothing is left out.                    *)
RulesFound(b, roles) == UNION {r.rules : r \in RolesOf(b, roles)}

RulesOf(b, roles) ==
    IF RolesOf(b, roles) = {} THEN {Unresolved}
    ELSE UNION {r.rules : r \in RolesOf(b, roles)}

(* Mutant of RbacFor: the first binding that names the account decides.    *)
RbacFirst(subject, roles, bindings) ==
    LET mine == {c \in bindings : /\ c.namespace \in {subject.namespace, Cluster}
                                  /\ NamesSubject(subject, c)}
    IN  IF mine = {} THEN {} ELSE RulesOf(CHOOSE b \in mine : TRUE, roles)

RbacFor(subject, roles, bindings) ==
    UNION {RulesOf(b, roles) :
              b \in {c \in bindings : /\ c.namespace \in {subject.namespace, Cluster}
                                      /\ NamesSubject(subject, c)}}

Permits(rule, verb) == {"*", verb} \cap rule.verbs # {}

Writes == {"create", "update", "patch", "delete", "deletecollection"}

(* RbacRule::escalation_path; "workloads" are the resources that create    *)
(* pods.                                                                   *)
Escalates(rule) ==
    \/ /\ rule.group = "" /\ rule.resource = "secrets"
       /\ Permits(rule, "get") \/ Permits(rule, "list")
    \/ rule.group = "" /\ rule.resource = "pods" /\ Permits(rule, "create")
    \/ rule.resource = "workloads" /\ \E v \in Writes : Permits(rule, v)
    \/ \E v \in {"escalate", "bind", "impersonate"} : Permits(rule, v)
    \/ rule.resource = "*" /\ Permits(rule, "*")
===============================================================================
