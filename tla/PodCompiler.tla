------------------------------ MODULE PodCompiler ------------------------------
(***************************************************************************)
(* compile() and what it calls: a PodSpec (spec.rs) and the snapshot of    *)
(* the cluster become rows of effects (lib.rs), and what the containers    *)
(* ask to have reserved becomes a price (cost.rs).                         *)
(*                                                                         *)
(* The containers of a spec are in the order of all_containers: the init   *)
(* containers and sidecars as they are started, then the app containers,   *)
(* then the ephemeral ones.                                                *)
(***************************************************************************)
EXTENDS Snapshots, Decisions, Quantities, FiniteSetsExt

CONSTANTS
    Pinned,             \* images named by digest
    TrustedPrefixes,    \* --trusted-image-prefix
    Volumes,            \* the names of volumes
    Gib,                \* 2^30 bytes
    CorePrice, GibPrice \* the price list, by core and by GiB

ASSUME PricesAssumption ==
    /\ Gib \in Nat \ {0}
    /\ CorePrice \in Nat /\ GibPrice \in Nat
    /\ Absent \notin CpuQuantity \cup MemoryQuantity
    /\ Pinned \subseteq Images /\ TrustedPrefixes \subseteq Prefixes

Kinds     == {"Init", "Sidecar", "App", "Ephemeral"}
Resources == {"cpu", "memory"}
Requests  == [cpu : CpuQuantity \cup {Absent}, memory : MemoryQuantity \cup {Absent}]

Container ==
    [kind : Kinds, privileged : BOOLEAN, escalation : BOOLEAN,
     capabilities : SUBSET Spellings, secrets : SUBSET Secrets, image : Images,
     mounts : SUBSET [volume : Volumes, readOnly : BOOLEAN],
     requests : Requests]

Volume == [hostPath : BOOLEAN, secrets : SUBSET Secrets]

PodSpec ==
    [labels : Labels, account : Accounts, hostNetwork : BOOLEAN,
     hostNamespaces : BOOLEAN, volumes : [Volumes -> Volume],
     containers : Seq(Container)]

AllContainers(spec) == {spec.containers[i] : i \in DOMAIN spec.containers}

(* all_containers: each kind after those that are started before it.       *)
Phase(c) == CASE c.kind \in {"Init", "Sidecar"} -> 1
              [] c.kind = "App"                -> 2
              [] OTHER                         -> 3

Ordered(spec) ==
    \A i, j \in DOMAIN spec.containers :
        i < j => Phase(spec.containers[i]) <= Phase(spec.containers[j])

-------------------------------------------------------------------------------
(* Rows                                                                    *)

When(condition, row) == IF condition THEN {row} ELSE {}

Mounts(spec, v) == {m \in UNION {c.mounts : c \in AllContainers(spec)} : m.volume = v}

(* A hostPath that nothing mounts is staged all the same, and writable.    *)
Writable(spec, v) ==
    Mounts(spec, v) = {} \/ \E m \in Mounts(spec, v) : ~m.readOnly

VolumeRows(spec) ==
    UNION {When(spec.volumes[v].hostPath,
                [kind |-> "host-path", writable |-> Writable(spec, v)])
           \cup {[kind |-> "secret", name |-> s] : s \in spec.volumes[v].secrets} :
              v \in Volumes}

(* image_doubt: pinned by digest, and from a prefix the cluster vouches for. *)
Doubted(image) ==
    image \notin Pinned \/ PrefixesOf[image] \cap TrustedPrefixes = {}

ContainerRows(c) ==
    When(c.privileged, [kind |-> "privileged"])
        \cup When(c.escalation, [kind |-> "privilege-escalation"])
        \cup {[kind |-> "capability", name |-> n] : n \in c.capabilities}
        \cup {[kind |-> "secret", name |-> s] : s \in c.secrets}
        \cup When(Doubted(c.image), [kind |-> "untrusted-image", name |-> c.image])

Rows(spec, snap) ==
    When(spec.hostNetwork, [kind |-> "host-network"])
        \cup When(spec.hostNamespaces, [kind |-> "host-namespace"])
        \cup VolumeRows(spec)
        \cup (UNION {ContainerRows(c) : c \in AllContainers(spec)})
        \cup {[kind |-> "egress", reach |-> ReachOf(snap.egress),
               reaches |-> snap.reaches]}
        \cup {[kind |-> "api", escalates |-> Escalates(rule)] : rule \in snap.rbac}

-------------------------------------------------------------------------------
(* Reservations                                                            *)

(* An ephemeral container reserves nothing, whatever it declares.          *)
Charged(spec) == {i \in DOMAIN spec.containers : spec.containers[i].kind # "Ephemeral"}

Declares(c) == \E r \in Resources : c.requests[r] # Absent

Asks(c, r) ==
    CASE c.requests[r] = Absent -> 0
      [] OTHER -> IF r = "cpu" THEN ParseCpu(c.requests[r]) ELSE ParseMemory(c.requests[r])

(* Mutant of Saturated: the sum wraps around.                              *)
Wrapped(n) == n % (MaxWord + 1)

(* saturating_add.  (In turn or once at the end is the same: SaturatesInTurn *)
(* in ReservationProofs.)                                                  *)
Saturated(n) == IF n > MaxWord THEN MaxWord ELSE n

(* What the containers at some places of a spec ask for, added up.         *)
Total(spec, places, r) ==
    SumFunctionOnSet([i \in places |-> Asks(spec.containers[i], r)], places)

Of(spec, kinds) == {i \in Charged(spec) : spec.containers[i].kind \in kinds}

(* Mutant of EffectiveRequests: every container is added up.               *)
EffectiveRequestsSum(spec) ==
    [r \in Resources |-> Saturated(Total(spec, Charged(spec), r))]

(* The app containers and sidecars together, or the largest init container *)
(* if that is more.                                                        *)
EffectiveRequests(spec) ==
    [r \in Resources |->
        Max({Saturated(Total(spec, Of(spec, {"App", "Sidecar"}), r))}
               \cup {Asks(spec.containers[i], r) : i \in Of(spec, {"Init"})})]

(* PriceList::price                                                        *)
Price(reserved) ==
    Saturated((reserved["cpu"] * CorePrice) \div 1000
                 + (reserved["memory"] * GibPrice) \div Gib)

-------------------------------------------------------------------------------

(* NotAQuantity: what cannot be read is an error, and no verdict.          *)
Compiles(spec) ==
    \A i \in Charged(spec) : \A r \in Resources :
        Asks(spec.containers[i], r) # Unreadable

Compile(spec, snap) ==
    [rows |-> Rows(spec, snap),
     images |-> {c.image : c \in AllContainers(spec)},
     cost |-> Price(EffectiveRequests(spec)),
     undeclared |-> \E i \in Charged(spec) : ~Declares(spec.containers[i])]
===============================================================================
