------------------------------- MODULE MCPodWall -------------------------------
(* One namespace beside another; policies, bindings and pods that tell the *)
(* rules of selection, of resolution and of reservation apart.             *)
EXTENDS PodWall

CONSTANTS here, there, default, db, inside, stripe, exfil, netAdmin, capNetAdmin,
          chown, acme, latest, any, odd, ten, usd, data, alice

TheCanonical  == [s \in {netAdmin, capNetAdmin, chown} |->
                    IF s = chown THEN chown ELSE netAdmin]
TheDangerous  == {netAdmin}
ThePrefixesOf == [i \in {acme, latest} |-> {acme}]
TheCovers     == [b \in {any, odd, ten} |->
                    IF b = ten THEN {inside} ELSE {inside, stripe, exfil}]
TheMultiple   == [s \in {"", "G", "Gi"} |-> CASE s = "" -> 1 [] s = "G" -> 7 [] s = "Gi" -> 8]

Unlabelled == << >>
Pay        == [app |-> "pay"]
Web        == [app |-> "web"]
TheLabels  == {Unlabelled, Pay, Web}

-------------------------------------------------------------------------------
Everyone == [matchLabels |-> << >>, exprs |-> {}]
NotWeb   == [matchLabels |-> << >>,
             exprs |-> {[key |-> "app", operator |-> "NotIn", values |-> {"web"}]}]
IsPay    == [matchLabels |-> Pay,
             exprs |-> {[key |-> "app", operator |-> "Exists", values |-> {}]}]

Policy(namespace, selector, types, egress) ==
    [namespace |-> namespace, selector |-> selector, types |-> types, egress |-> egress]

DenyAll   == Policy(here, Everyone, {"Egress"}, Absent)
Internal  == Policy(here, IsPay, {}, {{[cidr |-> ten, except |-> {}],
                                       [selects |-> {stripe}]}})
Open      == Policy(here, NotWeb, {"Egress", "Ingress"}, {{}})
Outside   == Policy(here, Absent, {}, {{[cidr |-> any, except |-> {ten}]}})
Elsewhere == Policy(there, Everyone, {"Egress"}, Absent)
Inbound   == Policy(here, Everyone, {"Ingress"}, Absent)

(* 10.0.0.0/0 is everything.                                               *)
Odd       == Policy(here, Everyone, {}, {{[cidr |-> odd, except |-> {}]}})

OddPolicies == {DenyAll, Odd}
ThePolicies == {DenyAll, Internal, Open, Outside, Elsewhere, Inbound}

Rule(resource, verbs) == [group |-> "", resource |-> resource, verbs |-> verbs]

Viewer == [namespace |-> here, name |-> "viewer", rules |-> {Rule("configmaps", {"get"})}]
Admin  == [namespace |-> Cluster, name |-> "admin",
           rules |-> {Rule("*", {"*"}), Rule("configmaps", {"get"})}]

TheRoles == {Viewer, Admin}

Account(namespace) == [kind |-> "ServiceAccount", name |-> default, namespace |-> namespace]
Group(namespace)   == [kind |-> "Group", name |-> default, namespace |-> namespace]

Binding(namespace, subject, kind, role) ==
    [namespace |-> namespace, subjects |-> {subject}, kind |-> kind, role |-> role]

TheBindings == {Binding(here, Account(Absent), "Role", "viewer"),
                Binding(here, Group(here), "ClusterRole", "admin"),
                Binding(Cluster, Group(Cluster), "ClusterRole", "admin"),
                Binding(there, Account(here), "ClusterRole", "admin")}

-------------------------------------------------------------------------------
Ceiling  == [egress |-> {stripe}, secrets |-> {db}, capabilities |-> {capNetAdmin},
             imagePrefixes |-> {}, hostPath |-> FALSE, privileged |-> FALSE,
             hostNamespaces |-> FALSE, exec |-> None, currency |-> usd,
             budget |-> 9, floor |-> "none"]
Trusting == [Ceiling EXCEPT !.hostPath = TRUE, !.exec = Full, !.imagePrefixes = {acme},
                                !.budget = 20]
Secluded == [Ceiling EXCEPT !.egress = {}]

TheFacets == {Ceiling, Trusting, Secluded}
TheSpends == {[configured |-> TRUE, currency |-> usd, committed |-> 2]}

Submitted(signer, consulted) ==
    [signer |-> signer, consulted |-> consulted, trusted |-> {alice}]
TheSubmissions ==
    {Submitted(alice, FALSE), Submitted(alice, TRUE), Submitted(Unsigned, TRUE)}

Milli(n)         == [form |-> "milli", number |-> n]
Cores(n)         == [form |-> "cores", number |-> n, fraction |-> 0, digits |-> 0]
Decimal(n, f, d) == [form |-> "cores", number |-> n, fraction |-> f, digits |-> d]
Bytes(n, suffix) == [form |-> "bytes", number |-> n, suffix |-> suffix]
Other(n)         == [form |-> "other", amount |-> n]

Asking(cpu, memory) == [cpu |-> cpu, memory |-> memory]

Plain(kind, requests) ==
    [kind |-> kind, privileged |-> FALSE, escalation |-> FALSE, capabilities |-> {},
     secrets |-> {}, image |-> acme, mounts |-> {}, requests |-> requests]
App          == Plain("App", Asking(Decimal(0, 5, 1), Bytes(1, "Gi")))
AppOf(q, m)  == Plain("App", Asking(q, m))

Pod1(containers) ==
    [labels |-> Pay, account |-> default, hostNetwork |-> FALSE, hostNamespaces |-> FALSE,
     volumes |-> [v \in {data} |-> [hostPath |-> FALSE, secrets |-> {}]],
     containers |-> containers]

OnNode(containers) ==
    [Pod1(containers) EXCEPT !.volumes = [v \in {data} |-> [hostPath |-> TRUE, secrets |-> {}]]]

Reads  == [App EXCEPT !.mounts = {[volume |-> data, readOnly |-> TRUE]}]
Admins == [App EXCEPT !.capabilities = {netAdmin}]

(* Among them: a request that nobody made, one finer than a millicore, one *)
(* that is not spelled as the wall reads it, and two that do not fit in a  *)
(* word together.                                                          *)
TheSpecs ==
    {Pod1(<<[App EXCEPT !.secrets = {db}], [App EXCEPT !.image = latest]>>),
     Pod1(<<AppOf(Absent, Absent)>>),
     Pod1(<<AppOf(Decimal(1, 9999, 4), Absent)>>),
     Pod1(<<AppOf(Cores(1), Other(12))>>),
     Pod1(<<AppOf(Milli(11000), Absent), AppOf(Cores(10), Absent)>>),
     Pod1(<<Plain("Init", Asking(Decimal(2, 50, 2), Absent)),
            Plain("Sidecar", Asking(Cores(2), Bytes(4, ""))),
            Plain("Init", Asking(Milli(1500), Bytes(2, "G"))), App>>),
     OnNode(<<Reads, Admins>>),
     OnNode(<<App>>)}

Unasked == Asking(Absent, Absent)

TheDebuggers ==
    {[Plain("Ephemeral", Unasked) EXCEPT !.privileged = TRUE],
     [Plain("Ephemeral", Unasked) EXCEPT
         !.image = latest, !.mounts = {[volume |-> data, readOnly |-> FALSE]}]}

-------------------------------------------------------------------------------
(* Bound: the kubelet does not look at policies, roles and bindings, so few *)
(* of them need exist once containers have started.                        *)
FewOnceStarted ==
    node # <<{}, 1, Nought>> =>
        Cardinality(policies) + Cardinality(roles) + Cardinality(bindings) <= 2
===============================================================================
