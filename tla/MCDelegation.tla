----------------------------- MODULE MCDelegation -----------------------------
(* A cluster ceiling, a team that shares its manifest's name, and an       *)
(* application below; five specs and four pods that tell the walls apart.  *)
EXTENDS Delegation

CONSTANTS sys, team, app, base, own, db, stripe, acme, other, usd, eur, exfil,
          netAdmin, capNetAdmin, chown

TheNamespaces == {sys, team, app}
TheNames      == {base, own}
TheObjects    == {[ns |-> sys, name |-> base], [ns |-> team, name |-> base],
                  [ns |-> app, name |-> own]}

TheCanonical  == [s \in {netAdmin, capNetAdmin, chown} |->
                    IF s = chown THEN chown ELSE netAdmin]
TheDangerous  == {netAdmin}
ThePrefixesOf == [i \in {acme, other} |-> IF i = acme THEN {acme} ELSE {}]

(* A ceiling, and specs that differ from it in what delegation is about.   *)
Ceiling == [egress |-> {stripe}, secrets |-> {db}, capabilities |-> {capNetAdmin},
            imagePrefixes |-> {acme}, hostPath |-> FALSE, privileged |-> FALSE,
            hostNamespaces |-> FALSE, exec |-> Full, currency |-> usd,
            budget |-> 1, floor |-> "none"]
AnyImage  == [Ceiling EXCEPT !.imagePrefixes = {}]
OnTheNode == [AnyImage EXCEPT !.hostNamespaces = TRUE]
Poor      == [Ceiling EXCEPT !.budget = 0, !.secrets = {}, !.exec = None]

Floored   == [Ceiling EXCEPT !.floor = "demanded"]

TheFacets == {Ceiling, AnyImage, OnTheNode, Poor, Floored}
FewFacets == {Ceiling, AnyImage, Poor}

Egress(hosts) ==
    [kind |-> "egress", reach |-> IF hosts = {} THEN "none" ELSE "allowlist",
     reaches |-> hosts]
APod(rows, hosts, image) ==
    [rows |-> rows \cup {Egress(hosts)}, images |-> {image}, cost |-> 1,
     undeclared |-> FALSE]

Mounts   == APod({[kind |-> "secret", name |-> db],
                  [kind |-> "capability", name |-> netAdmin]}, {stripe}, acme)
NodeNet  == APod({[kind |-> "host-network"]}, {}, acme)
Foreign  == APod({[kind |-> "untrusted-image", name |-> other]}, {}, other)
Exfil    == APod({}, {exfil}, acme)

ThePods   == {Mounts, NodeNet, Foreign}
FewPods   == {Mounts, Foreign, Exfil}
TheSpends == {[configured |-> TRUE, currency |-> usd, committed |-> 0]}
===============================================================================
