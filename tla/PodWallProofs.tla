----------------------------- MODULE PodWallProofs -----------------------------
(***************************************************************************)
(* What holds of the wall in front of a namespace for every set of         *)
(* policies, roles, bindings, specs, manifests and submitters.  The only   *)
(* invariant that is needed is that of types: a review looks at all that   *)
(* it depends on at one moment (Caches has the case in which it does not), *)
(* so each property is one of the operators that a review is made of.      *)
(*                                                                         *)
(* What is about the sums of reservations is in ReservationProofs.         *)
(***************************************************************************)
EXTENDS PodWall, GrantsProofs

(* What the wall reads of a request is what Kubernetes holds for it.       *)
THEOREM ReadingIsExact ==
    /\ \A q \in CpuQuantity : ParseCpu(q) # Unreadable => ParseCpu(q) = CpuAmount(q)
    /\ \A q \in MemoryQuantity :
            ParseMemory(q) # Unreadable => ParseMemory(q) = MemoryAmount(q)
<1>1. ASSUME NEW q \in CpuQuantity, ParseCpu(q) # Unreadable
      PROVE  ParseCpu(q) = CpuAmount(q)
  <2>1. CASE q.form = "milli"
    BY <1>1, <2>1 DEF ParseCpu, CpuAmount, Word
  <2>2. CASE q.form = "cores"
    <3> DEFINE n == q.number
               f == q.fraction
    <3>1. n \in Nat /\ f \in Nat /\ q.digits \in 0..3
      BY <1>1, <2>2 DEF CpuQuantity, ParseCpu, MaxDigits
    <3>2. ParseCpu(q) = n * 1000 + f * PowerOfTen[3 - q.digits]
      BY <1>1, <2>2, <3>1 DEF ParseCpu, Word
    <3>3. CpuAmount(q) = RoundedUp(1000 * (PowerOfTen[q.digits] * n + f), PowerOfTen[q.digits])
      BY <2>2 DEF CpuAmount
    <3>4. /\ PowerOfTen[0] = 1 /\ PowerOfTen[1] = 10
          /\ PowerOfTen[2] = 100 /\ PowerOfTen[3] = 1000
      BY DEF PowerOfTen, MaxDigits
    <3>5. CASE q.digits = 0
      BY <3>1, <3>2, <3>3, <3>4, <3>5 DEF RoundedUp
    <3>6. CASE q.digits = 1
      BY <3>1, <3>2, <3>3, <3>4, <3>6 DEF RoundedUp
    <3>7. CASE q.digits = 2
      BY <3>1, <3>2, <3>3, <3>4, <3>7 DEF RoundedUp
    <3>8. CASE q.digits = 3
      <4>1. PowerOfTen[3 - q.digits] = 1 /\ PowerOfTen[q.digits] = 1000
        BY <3>4, <3>8
      <4>2. ParseCpu(q) = n * 1000 + f
        BY <3>1, <3>2, <4>1
      <4>3. CpuAmount(q) = (1000 * (1000 * n + f) + 1000 - 1) \div 1000
        BY <3>3, <4>1 DEF RoundedUp
      <4>4. \A k \in Nat : (1000 * k + 1000 - 1) \div 1000 = k
        OBVIOUS
      <4> QED
        BY <3>1, <4>2, <4>3, <4>4
    <3> QED
      BY <3>1, <3>5, <3>6, <3>7, <3>8
  <2>3. CASE q.form = "other"
    BY <1>1, <2>3 DEF ParseCpu
  <2> QED
    BY <1>1, <2>1, <2>2, <2>3 DEF CpuQuantity
<1>2. ASSUME NEW q \in MemoryQuantity, ParseMemory(q) # Unreadable
      PROVE  ParseMemory(q) = MemoryAmount(q)
  <2>1. CASE q.form = "bytes"
    <3>1. q.number \in Nat /\ Multiple[q.suffix] \in Nat
      BY <1>2, <2>1, QuantitiesAssumption DEF MemoryQuantity
    <3> QED
      BY <1>2, <2>1, <3>1 DEF ParseMemory, MemoryAmount, Word
  <2>2. CASE q.form # "bytes"
    BY <1>2, <2>2 DEF ParseMemory
  <2> QED
    BY <2>1, <2>2
<1> QED
  BY <1>1, <1>2


-------------------------------------------------------------------------------
(* Selectors and reach                                                     *)

LEMMA SelectorsAgree ==
    ASSUME NEW sel, NEW labels
    PROVE  Selects(sel, labels) <=> \A e \in Requirements(sel) : ~Rejects(e, labels)
<1> DEFINE Short(k) == [key |-> k, operator |-> "In", values |-> {sel.matchLabels[k]}]
           Matched  == \A k \in DOMAIN sel.matchLabels :
                           k \in DOMAIN labels /\ labels[k] = sel.matchLabels[k]
           Met(e)   == LET present == e.key \in DOMAIN labels IN
                       CASE e.operator = "In"     -> present /\ labels[e.key] \in e.values
                         [] e.operator = "NotIn"  -> ~present \/ labels[e.key] \notin e.values
                         [] e.operator = "Exists" -> present
                         [] e.operator = "DoesNotExist" -> ~present
                         [] OTHER                 -> TRUE
<1>1. Selects(sel, labels) <=> Matched /\ \A e \in sel.exprs : Met(e)
  BY DEF Selects
<1>2. ASSUME NEW k \in DOMAIN sel.matchLabels
      PROVE  ~Rejects(Short(k), labels) <=>
                k \in DOMAIN labels /\ labels[k] = sel.matchLabels[k]
  BY DEF Rejects
<1>3. ASSUME NEW e
      PROVE  Met(e) <=> ~Rejects(e, labels)
  <2>1. CASE e.operator = "In"
    BY <2>1 DEF Rejects
  <2>2. CASE e.operator = "NotIn"
    BY <2>2 DEF Rejects
  <2>3. CASE e.operator = "Exists"
    BY <2>3 DEF Rejects
  <2>4. CASE e.operator = "DoesNotExist"
    BY <2>4 DEF Rejects
  <2>5. CASE e.operator \notin {"In", "NotIn", "Exists", "DoesNotExist"}
    BY <2>5 DEF Rejects
  <2> QED
    BY <2>1, <2>2, <2>3, <2>4, <2>5
<1>4. Requirements(sel) = sel.exprs \cup {Short(k) : k \in DOMAIN sel.matchLabels}
  BY DEF Requirements
<1> HIDE DEF Short, Met
<1>5. (\A e \in Requirements(sel) : ~Rejects(e, labels)) <=>
        /\ \A e \in sel.exprs : ~Rejects(e, labels)
        /\ \A k \in DOMAIN sel.matchLabels : ~Rejects(Short(k), labels)
  BY <1>4
<1> QED
  BY <1>1, <1>2, <1>3, <1>5

SubjectFor(labels, account) ==
    [namespace |-> Here, labels |-> labels, account |-> account]

LEMMA SelectingIsIsolating ==
    ASSUME NEW labels, NEW account
    PROVE  Selecting(SubjectFor(labels, account), policies) = Isolating(labels)
<1> DEFINE subject == SubjectFor(labels, account)
<1>1. subject.namespace = Here /\ subject.labels = labels
  BY DEF SubjectFor
<1>2. ASSUME NEW p
      PROVE  GovernsEgress(p) <=> \/ "Egress" \in p.types
                                  \/ p.types = {} /\ p.egress # Absent
  BY DEF GovernsEgress
<1>3. ASSUME NEW p
      PROVE  PolicySelects(subject, p) <=>
                /\ p.namespace = Here
                /\ GovernsEgress(p)
                /\ p.selector # Absent =>
                      \A e \in Requirements(p.selector) : ~Rejects(e, labels)
  BY <1>1, SelectorsAgree DEF PolicySelects
<1> QED
  BY <1>2, <1>3 DEF Selecting, Isolating

-------------------------------------------------------------------------------
(* Some address is beyond everything that a policy names, the open blocks  *)
(* aside: in a cluster with an outside there is one.  A block of length    *)
(* zero in another spelling than the open ones takes it away.              *)
Outsider ==
    \E h \in Hosts : \A p \in Policies : p.egress # Absent =>
        \A q \in UNION p.egress :
            IF IsBlock(q) THEN q.cidr \in OpenBlocks \/ h \notin Covers[q.cidr]
            ELSE h \notin q.selects

PoliciesInv == policies \subseteq Policies

LEMMA PeersType ==
    ASSUME PoliciesInv, NEW some \in SUBSET policies
    PROVE  /\ Rules(some) \subseteq SUBSET Peer
           /\ UNION Rules(some) \subseteq Peer
           /\ \A q \in UNION Rules(some) :
                 \E p \in Policies : p.egress # Absent /\ q \in UNION p.egress
BY WallAssumption DEF Rules, PoliciesInv

LEMMA PeerFacts ==
    ASSUME NEW q \in Peer
    PROVE  /\ IsBlock(q) => q.cidr \in Blocks /\ q.except \subseteq Blocks
           /\ ~IsBlock(q) => q.selects \subseteq Hosts
           /\ PeerHosts(q) \subseteq Hosts
<1>1. CASE q \in [cidr : Blocks, except : SUBSET Blocks]
  BY <1>1, BlocksAssumption DEF IsBlock, PeerHosts
<1>2. CASE q \in [selects : SUBSET Hosts]
  BY <1>2 DEF IsBlock, PeerHosts
<1> QED
  BY <1>1, <1>2 DEF Peer

LEMMA ReachableType ==
    ASSUME PoliciesInv, NEW labels
    PROVE  Reachable(labels) \subseteq Hosts
<1>1. Isolating(labels) \subseteq policies
  BY DEF Isolating
<1> QED
  BY <1>1, PeersType, PeerFacts DEF Reachable

(* The three statements of EgressExact, for one subject.                   *)
LEMMA ReachIsExact ==
    ASSUME PoliciesInv, NEW labels, NEW account
    PROVE  LET reach == ReachOf(EgressFor(SubjectFor(labels, account), policies))
               hosts == Reachable(labels)
           IN  /\ reach \in Reach
               /\ reach = "none" => hosts = {}
               /\ Outsider /\ hosts = Hosts => reach \in {"unrestricted", "no-policy"}
               /\ reach \in {"unrestricted", "no-policy"} =>
                     \/ hosts = Hosts
                     \/ \E q \in UNION Rules(policies) : IsBlock(q) /\ q.except # {}
<1> DEFINE some   == Isolating(labels)
           peers  == UNION Rules(some)
           blocks == {q \in peers : IsBlock(q)}
           cidrs  == {q.cidr : q \in blocks} \cup
                        (IF {} \in Rules(some) THEN OpenBlocks ELSE {})
           chosen == {q.selects : q \in peers \ blocks} \cup UNION {q.except : q \in blocks}
           egress == EgressFor(SubjectFor(labels, account), policies)
           hosts  == Reachable(labels)
<1>1. egress = IF some = {} THEN Absent ELSE [cidrs |-> cidrs, selectors |-> chosen]
  BY SelectingIsIsolating DEF EgressFor
<1>2. some \subseteq policies
  BY DEF Isolating
<1>3. peers \subseteq Peer /\ Rules(some) \subseteq SUBSET Peer
  BY <1>2, PeersType
<1>4. peers \subseteq UNION Rules(policies)
  BY <1>2 DEF Rules
<1>5. hosts = IF some = {} \/ {} \in Rules(some) THEN Hosts
              ELSE UNION {PeerHosts(q) : q \in peers}
  BY DEF Reachable
<1>6. hosts \subseteq Hosts
  BY ReachableType
<1>7. CASE some = {}
  <2>1. ReachOf(egress) = "no-policy"
    BY <1>1, <1>7 DEF ReachOf
  <2> QED
    BY <2>1, <1>5, <1>7 DEF Reach
<1>8. CASE some # {}
  <2>a. [cidrs |-> cidrs, selectors |-> chosen] \in Egress
    <3>1. \A q \in blocks : q.cidr \in Blocks /\ q.except \subseteq Blocks
      BY <1>3, PeerFacts
    <3>2. \A q \in peers \ blocks : q.selects \in SUBSET Hosts
      BY <1>3, PeerFacts
    <3>3. cidrs \subseteq Blocks
      BY <3>1, BlocksAssumption
    <3>4. chosen \subseteq (SUBSET Hosts) \cup Blocks
      <4>1. {q.selects : q \in peers \ blocks} \subseteq SUBSET Hosts
        BY <3>2
      <4>2. UNION {q.except : q \in blocks} \subseteq Blocks
        BY <3>1
      <4> QED
        BY <4>1, <4>2
    <3> HIDE DEF cidrs, chosen
    <3> QED
      BY <3>3, <3>4 DEF Egress
  <2> HIDE DEF cidrs, chosen
  <2>1. egress # Absent => egress.cidrs = cidrs /\ egress.selectors = chosen
    BY <1>1, <1>8
  <2>2. egress # Absent
    BY <1>1, <1>8, <2>a, BlocksAssumption
  <2> HIDE DEF egress
  <2>3. ReachOf(egress) = IF cidrs \cap OpenBlocks # {} THEN "unrestricted"
                          ELSE IF cidrs = {} /\ chosen = {} THEN "none"
                          ELSE "allowlist"
    BY <2>1, <2>2 DEF ReachOf
  <2> USE DEF cidrs, chosen
  <2>4. ReachOf(egress) = "none" => hosts = {}
    <3> SUFFICES ASSUME cidrs = {}, chosen = {} PROVE hosts = {}
      BY <2>3
    <3>1. {} \notin Rules(some)
      BY BlocksAssumption
    <3>2. peers = {}
      OBVIOUS
    <3> QED
      BY <1>5, <1>8, <3>1, <3>2
  <2>5. Outsider /\ hosts = Hosts => ReachOf(egress) = "unrestricted"
    <3> SUFFICES ASSUME Outsider, cidrs \cap OpenBlocks = {} PROVE hosts # Hosts
      BY <2>3
    <3>1. {} \notin Rules(some)
      BY BlocksAssumption
    <3>2. PICK h \in Hosts : \A p \in Policies : p.egress # Absent =>
            \A q \in UNION p.egress :
                IF IsBlock(q) THEN q.cidr \in OpenBlocks \/ h \notin Covers[q.cidr]
                ELSE h \notin q.selects
      BY DEF Outsider
    <3>3. ASSUME NEW q \in peers PROVE h \notin PeerHosts(q)
      <4>1. \E p \in Policies : p.egress # Absent /\ q \in UNION p.egress
        BY <1>2, PeersType
      <4>2. CASE IsBlock(q)
        <5>1. q.cidr \in cidrs
          BY <4>2
        <5> QED
          BY <4>1, <5>1, <3>2, <4>2 DEF PeerHosts
      <4>3. CASE ~IsBlock(q)
        BY <4>1, <3>2, <4>3 DEF PeerHosts
      <4> QED
        BY <4>2, <4>3
    <3>4. h \notin hosts
      BY <1>5, <1>8, <3>1, <3>3
    <3> QED
      BY <3>2, <3>4
  <2>6. ReachOf(egress) = "unrestricted" =>
            \/ hosts = Hosts
            \/ \E q \in UNION Rules(policies) : IsBlock(q) /\ q.except # {}
    <3> SUFFICES ASSUME cidrs \cap OpenBlocks # {}, {} \notin Rules(some),
                        \A q \in UNION Rules(policies) : IsBlock(q) => q.except = {}
                 PROVE  hosts = Hosts
      BY <2>3, <1>5
    <3>1. PICK q \in blocks : q.cidr \in OpenBlocks
      OBVIOUS
    <3>2. q.except = {} /\ q.cidr \in Blocks
      BY <1>3, <1>4, <3>1, PeerFacts
    <3>3. PeerHosts(q) = Hosts
      BY <3>1, <3>2, BlocksAssumption DEF PeerHosts
    <3> QED
      BY <1>5, <1>6, <1>8, <3>1, <3>3
  <2>7. ReachOf(egress) \in Reach \ {"no-policy"}
    BY <2>3 DEF Reach
  <2> USE DEF egress
  <2> QED
    BY <2>4, <2>5, <2>6, <2>7
<1> QED
  BY <1>7, <1>8

-------------------------------------------------------------------------------
(* Types                                                                   *)

(* What is stored and what runs is made of the constants, and what runs is *)
(* among the containers of the pod that are started with it.               *)
THEOREM TypeCorrect == Spec => []TypeOK
<1>1. Init => TypeOK
  BY DEF Init, TypeOK, Nought, Startable
<1>2. TypeOK /\ [Next]_vars => TypeOK'
  <2> SUFFICES ASSUME TypeOK, [Next]_vars PROVE TypeOK'
    OBVIOUS
  <2>1. ASSUME NEW p \in Policies, policies' = Toggle(policies, p),
               UNCHANGED <<config, roles, bindings, pod, node>>
        PROVE  TypeOK'
    BY <2>1 DEF TypeOK, Toggle, config, node, Startable
  <2>2. ASSUME NEW r \in Roles, roles' = Toggle(roles, r),
               UNCHANGED <<config, policies, bindings, pod, node>>
        PROVE  TypeOK'
    BY <2>2 DEF TypeOK, Toggle, config, node, Startable
  <2>3. ASSUME NEW b \in Bindings, bindings' = Toggle(bindings, b),
               UNCHANGED <<config, policies, roles, pod, node>>
        PROVE  TypeOK'
    BY <2>3 DEF TypeOK, Toggle, config, node, Startable
  <2>4. ASSUME NEW spec \in Specs, Create(spec) PROVE TypeOK'
    BY <2>4, WallAssumption DEF TypeOK, Create, config, cluster, node, Startable
  <2>5. ASSUME NEW labels \in Labels, Relabel(labels) PROVE TypeOK'
    <3>1. pod \in PodSpec /\ pod # NoPod
      BY <2>5 DEF TypeOK, Relabel
    <3>2. pod' \in PodSpec /\ pod'.containers = pod.containers
      BY <2>5, <3>1 DEF Relabel, PodSpec
    <3>3. Startable' = Startable
      BY <3>1, <3>2, WallAssumption DEF Startable, Charged
    <3> QED
      BY <2>5, <3>2, <3>3 DEF TypeOK, Relabel, config, cluster, node
  <2>6. ASSUME NEW c \in Debuggers, Debug(c) PROVE TypeOK'
    <3>1. pod \in PodSpec /\ pod # NoPod
      BY <2>6 DEF TypeOK, Debug
    <3>2. pod.containers \in Seq(Container) /\ c \in Container
      BY <3>1, WallAssumption DEF PodSpec
    <3>3. Append(pod.containers, c) \in Seq(Container)
      BY <3>2
    <3>4. pod' \in PodSpec /\ pod'.containers = Append(pod.containers, c)
      BY <2>6, <3>1, <3>3 DEF Debug, PodSpec
    <3>5. Charged(pod) \subseteq Charged(pod')
      BY <3>2, <3>4 DEF Charged
    <3>6. Startable \subseteq Startable'
      BY <3>1, <3>4, <3>5, WallAssumption DEF Startable
    <3> QED
      BY <2>6, <3>4, <3>6 DEF TypeOK, Debug, config, cluster, node
  <2>7. ASSUME Delete PROVE TypeOK'
    BY <2>7 DEF TypeOK, Delete, config, cluster, Nought, Startable
  <2>8. ASSUME StartContainer PROVE TypeOK'
    <3>1. next \in Startable /\ next' \in Nat
      BY <2>8 DEF TypeOK, StartContainer
    <3> QED
      BY <2>8, <3>1 DEF TypeOK, StartContainer, config, cluster, Startable
  <2>9. ASSUME FinishInit PROVE TypeOK'
    BY <2>9 DEF TypeOK, FinishInit, config, cluster, Startable
  <2>10. ASSUME UNCHANGED vars PROVE TypeOK'
    BY <2>10 DEF TypeOK, vars, config, cluster, node, Startable
  <2> QED
    BY <2>1, <2>2, <2>3, <2>4, <2>5, <2>6, <2>7, <2>8, <2>9, <2>10
       DEF Next, ChangePolicy, ChangeRole, ChangeBinding
<1> QED
  BY <1>1, <1>2, PTL DEF Spec

(* Where policies allow no more than they name, the row of a pod says how  *)
(* far its policies let it reach.                                          *)
THEOREM EgressHolds == ASSUME Outsider PROVE Spec => []EgressExact
<1>1. TypeOK => EgressExact
  BY ReachIsExact DEF TypeOK, EgressExact, PoliciesInv, SubjectFor
<1> QED
  BY <1>1, TypeCorrect, PTL

-------------------------------------------------------------------------------
(* The refusals                                                            *)

LEMMA SilentMeans ==
    ASSUME NEW f, NEW compiled, NEW standing, NEW charge
    PROVE  LET refusals == Refusals(f, compiled, standing, charge) IN
           /\ DOMAIN refusals = 1..6
           /\ Silent(refusals) <=>
                 /\ refusals[1] = {} /\ refusals[2] = {} /\ refusals[3] = {}
                 /\ refusals[4] = {} /\ refusals[5] = {} /\ refusals[6] = {}
<1> DEFINE refusals == Refusals(f, compiled, standing, charge)
<1>1. DOMAIN refusals = 1..6
  BY DEF Refusals
<1> HIDE DEF refusals
<1>2. Silent(refusals) <=>
         /\ refusals[1] = {} /\ refusals[2] = {} /\ refusals[3] = {}
         /\ refusals[4] = {} /\ refusals[5] = {} /\ refusals[6] = {}
  BY <1>1 DEF Silent
<1> QED
  BY <1>1, <1>2 DEF refusals

(* Each wall refuses exactly when its predicate fails.                     *)
LEMMA WallsRefuse ==
    ASSUME NEW f, NEW compiled, NEW standing, NEW charge
    PROVE  LET refusals == Refusals(f, compiled, standing, charge) IN
           /\ refusals[1] = {} <=> LatticeWall(f, compiled)
           /\ refusals[2] = {} <=> NamesWall(f, compiled)
           /\ refusals[3] = {} <=> ImagesWall(f, compiled)
           /\ refusals[4] = {} <=> TrustWall(f, compiled, standing)
           /\ (refusals[5] = {} /\ refusals[6] = {}) <=> BudgetWall(f, compiled, charge)
<1> DEFINE refusals == Refusals(f, compiled, standing, charge)
           e1 == CHOOSE e \in WorstRows(f, compiled) : TRUE
<1>0. ASSUME NEW wall, NEW causes PROVE Refused(wall, causes) = {} <=> causes = {}
  BY DEF Refused
<1>1. refusals[1] = {} <=> LatticeWall(f, compiled)
  <2>1. refusals[1] = Refused("type-check", IF LatticeWall(f, compiled) THEN {} ELSE {e1})
    BY DEF Refusals
  <2> HIDE DEF refusals, e1
  <2> QED
    BY <1>0, <2>1
<1>2. refusals[2] = {} <=> NamesWall(f, compiled)
  <2>1. refusals[2] = Refused("narrowing", {e \in compiled.rows : ~Admits(f, e)})
    BY DEF Refusals
  <2> HIDE DEF refusals
  <2> QED
    BY <1>0, <2>1 DEF NamesWall
<1>3. refusals[3] = {} <=> ImagesWall(f, compiled)
  <2> DEFINE bad == {j \in compiled.images : f.imagePrefixes # {} /\ ~Vouched(f, j)}
  <2>1. refusals[3] = Refused("narrowing", {[kind |-> "image", name |-> i] : i \in bad})
    BY DEF Refusals
  <2> HIDE DEF refusals
  <2>2. {[kind |-> "image", name |-> i] : i \in bad} = {} <=> bad = {}
    OBVIOUS
  <2> QED
    BY <1>0, <2>1, <2>2 DEF ImagesWall
<1>4. refusals[4] = {} <=> TrustWall(f, compiled, standing)
  <2>1. refusals[4] = Refused("trust",
            Cause("unchecked", standing = "unknown" /\ Unchecked(f, compiled)))
    BY DEF Refusals
  <2> HIDE DEF refusals
  <2> QED
    BY <1>0, <2>1 DEF TrustWall, Cause
<1>5. (refusals[5] = {} /\ refusals[6] = {}) <=> BudgetWall(f, compiled, charge)
  <2>1. refusals[5] = Refused("budget",
            Cause("unpriced", charge.configured /\ compiled.undeclared))
    BY DEF Refusals
  <2>2. refusals[6] = Refused("budget",
            Cause("spend", charge.configured
                               /\ ~(charge.committed + compiled.cost <= f.budget)))
    BY DEF Refusals
  <2> HIDE DEF refusals
  <2> QED
    BY <1>0, <2>1, <2>2 DEF BudgetWall, Cause
<1> QED
  BY <1>1, <1>2, <1>3, <1>4, <1>5

(* No refusal is recorded exactly when every wall lets the pod through.    *)
LEMMA SilentIsAdmitted ==
    ASSUME NEW f, NEW compiled, NEW standing, NEW charge, CanRun(f, charge)
    PROVE  Silent(Refusals(f, compiled, standing, charge))
               <=> Admitted(f, compiled, standing, charge)
BY SilentMeans, WallsRefuse DEF Admitted

(* The refusal that is named is one of the first wall that refuses.        *)
LEMMA FirstIsFirst ==
    ASSUME NEW f, NEW compiled, NEW standing, NEW charge,
           ~Silent(Refusals(f, compiled, standing, charge))
    PROVE  LET refusals == Refusals(f, compiled, standing, charge) IN
           \E i \in 1..6 : /\ First(refusals) \in refusals[i]
                           /\ \A j \in 1..(i - 1) : refusals[j] = {}
<1> DEFINE refusals == Refusals(f, compiled, standing, charge)
           Leads(i) == refusals[i] # {} /\ \A j \in 1..(i - 1) : refusals[j] = {}
           first == CHOOSE i \in 1..6 : Leads(i)
<1>1. DOMAIN refusals = 1..6 /\ \E i \in 1..6 : refusals[i] # {}
  BY SilentMeans
<1> HIDE DEF refusals
<1>2. \E i \in 1..6 : Leads(i)
  <2>1. CASE refusals[1] # {}
    BY <2>1
  <2>2. CASE refusals[1] = {} /\ refusals[2] # {}
    BY <2>2
  <2>3. CASE refusals[1] = {} /\ refusals[2] = {} /\ refusals[3] # {}
    BY <2>3
  <2>4. CASE refusals[1] = {} /\ refusals[2] = {} /\ refusals[3] = {} /\ refusals[4] # {}
    BY <2>4
  <2>5. CASE /\ refusals[1] = {} /\ refusals[2] = {} /\ refusals[3] = {}
             /\ refusals[4] = {} /\ refusals[5] # {}
    BY <2>5
  <2>6. CASE /\ refusals[1] = {} /\ refusals[2] = {} /\ refusals[3] = {}
             /\ refusals[4] = {} /\ refusals[5] = {}
    BY <1>1, <2>6
  <2> QED
    BY <2>1, <2>2, <2>3, <2>4, <2>5, <2>6
<1>3. first \in 1..6 /\ Leads(first)
  BY <1>2
<1>4. First(refusals) = CHOOSE r \in refusals[first] : TRUE
  BY <1>1 DEF First
<1>5. First(refusals) \in refusals[first]
  BY <1>3, <1>4
<1> QED
  BY <1>3, <1>5 DEF refusals

(* Among the rows that a grant does not cover there is a heaviest.         *)
LEMMA WorstRowExists ==
    ASSUME NEW f \in Facet, NEW compiled,
           compiled.rows \in SUBSET Effect, ~LatticeWall(f, compiled)
    PROVE  LET e == CHOOSE e \in WorstRows(f, compiled) : TRUE
           IN  e \in compiled.rows /\ ~Below(Demands(e), ImpliedGrant(f))
<1> DEFINE some == Culprits(f, compiled)
<1>1. some # {} /\ some \subseteq Effect
  BY ImpliedType, JoinIsLeast DEF LatticeWall, Culprits
<1>2. \A e \in some : Weight(e) \in 0..9
  <2> SUFFICES ASSUME NEW e \in some PROVE Weight(e) \in 0..9
    OBVIOUS
  <2>1. \A a \in Axes : Demands(e)[a] \in Levels
    BY <1>1, DemandsType DEF Grant
  <2>2. /\ Demands(e)["filesystem"] \in 0..3 /\ Demands(e)["network"] \in 0..3
        /\ Demands(e)["exec"] \in 0..3
    BY <2>1 DEF Axes, Levels
  <2> QED
    BY <2>2 DEF Weight
<1> HIDE DEF some
<1>3. \E e \in some : \A d \in some : Weight(d) <= Weight(e)
  <2> DEFINE Heavier(n) == \A e \in some : Weight(e) <= n
             Has(n) == \E e \in some : Weight(e) = n
  <2>1. Heavier(9)
    BY <1>2
  <2>2. \A n \in 1..9 : Heavier(n) /\ ~Has(n) => Heavier(n - 1)
    BY <1>2
  <2>3. Has(0) \/ ~Heavier(0)
    BY <1>1, <1>2
  <2>4. \A n \in 0..9 : Heavier(n) /\ Has(n) =>
            \E e \in some : \A d \in some : Weight(d) <= Weight(e)
    OBVIOUS
  <2> HIDE DEF Heavier, Has
  <2>5. \E n \in 0..9 : Heavier(n) /\ Has(n)
    <3>1. /\ Heavier(9) /\ ~Has(9) => Heavier(8)
          /\ Heavier(8) /\ ~Has(8) => Heavier(7)
          /\ Heavier(7) /\ ~Has(7) => Heavier(6)
          /\ Heavier(6) /\ ~Has(6) => Heavier(5)
          /\ Heavier(5) /\ ~Has(5) => Heavier(4)
          /\ Heavier(4) /\ ~Has(4) => Heavier(3)
          /\ Heavier(3) /\ ~Has(3) => Heavier(2)
          /\ Heavier(2) /\ ~Has(2) => Heavier(1)
          /\ Heavier(1) /\ ~Has(1) => Heavier(0)
      BY <2>2
    <3> QED
      BY <2>1, <2>3, <3>1
  <2> QED
    BY <2>4, <2>5
<1>4. WorstRows(f, compiled) # {} /\ WorstRows(f, compiled) \subseteq some
  BY <1>3 DEF WorstRows, some
<1> QED
  BY <1>4 DEF some, Culprits

-------------------------------------------------------------------------------
(* The rows of a pod                                                       *)

LEMMA ContainersType ==
    ASSUME NEW spec \in PodSpec
    PROVE  AllContainers(spec) \subseteq Container
BY DEF PodSpec, AllContainers

LEMMA RowsType ==
    ASSUME NEW spec \in PodSpec, NEW snap, snap.reaches \subseteq Hosts
    PROVE  Rows(spec, snap) \subseteq Effect
<1>1. ASSUME NEW c \in Container PROVE ContainerRows(c) \subseteq Effect
  BY <1>1 DEF ContainerRows, When, Container, Effect
<1>2. VolumeRows(spec) \subseteq Effect
  <2>1. ASSUME NEW v \in Volumes
        PROVE  /\ When(spec.volumes[v].hostPath,
                       [kind |-> "host-path", writable |-> Writable(spec, v)]) \subseteq Effect
               /\ {[kind |-> "secret", name |-> s] : s \in spec.volumes[v].secrets}
                     \subseteq Effect
    <3>1. spec.volumes[v] \in Volume
      BY DEF PodSpec
    <3>2. Writable(spec, v) \in BOOLEAN
      BY DEF Writable
    <3> QED
      BY <3>1, <3>2 DEF When, Volume, Effect
  <2> QED
    BY <2>1 DEF VolumeRows
<1>3. ReachOf(snap.egress) \in Reach
  BY DEF ReachOf, Reach
<1>4. [kind |-> "egress", reach |-> ReachOf(snap.egress), reaches |-> snap.reaches]
         \in Effect
  BY <1>3 DEF Effect
<1>5. ASSUME NEW rule PROVE [kind |-> "api", escalates |-> Escalates(rule)] \in Effect
  <2>1. Escalates(rule) \in BOOLEAN
    BY DEF Escalates
  <2> QED
    BY <2>1 DEF Effect
<1>6. /\ When(spec.hostNetwork, [kind |-> "host-network"]) \subseteq Effect
      /\ When(spec.hostNamespaces, [kind |-> "host-namespace"]) \subseteq Effect
  BY DEF When, Effect
<1> QED
  BY <1>1, <1>2, <1>4, <1>5, <1>6, ContainersType DEF Rows

(* What the wall may conclude from a review that allows a pod.             *)
LEMMA ReviewMeans ==
    ASSUME TypeOK, NEW spec \in PodSpec, Review(spec)
    PROVE  LET compiled == Compiled(spec) IN
           /\ compiled.rows = Rows(spec, Build(spec))
           /\ compiled.images = {c.image : c \in AllContainers(spec)}
           /\ compiled.rows \subseteq Effect
           /\ manifest \in Facet
           /\ \A e \in compiled.rows :
                 Admits(manifest, e) /\ Below(Demands(e), ImpliedGrant(manifest))
           /\ ImagesWall(manifest, compiled)
           /\ TrustWall(manifest, compiled, StandingOf(submission))
<1> DEFINE compiled == Compiled(spec)
<1>1. compiled.rows = Rows(spec, Build(spec))
      /\ compiled.images = {c.image : c \in AllContainers(spec)}
  BY DEF Compiled, Compile
<1>2. Build(spec).reaches \subseteq Hosts
  BY ReachableType DEF Build, TypeOK, PoliciesInv
<1>3. compiled.rows \in SUBSET Effect
  BY <1>1, <1>2, RowsType
<1>4. manifest \in Facet
  BY WallAssumption DEF TypeOK
<1> HIDE DEF compiled
<1>5. Admitted(manifest, compiled, StandingOf(submission), spend)
  BY SilentIsAdmitted DEF Review, Decides, compiled
<1>6. \A e \in compiled.rows : Below(Demands(e), ImpliedGrant(manifest))
  BY <1>3, <1>4, <1>5, ImpliedType, JoinIsLeast DEF Admitted, LatticeWall
<1> QED
  BY <1>1, <1>3, <1>4, <1>5, <1>6 DEF Admitted, NamesWall, compiled

(* What a covered row may demand of a manifest.                            *)
LEMMA CoveredNeeds ==
    ASSUME NEW f \in Facet, NEW e, Below(Demands(e), ImpliedGrant(f))
    PROVE  /\ e.kind = "api" => f.egress # {} \/ f.hostNamespaces
           /\ e.kind = "egress" /\ e.reach = "allowlist" =>
                 f.egress # {} \/ f.hostNamespaces
           /\ e.kind = "api" /\ e.escalates =>
                 f.exec = Full \/ f.privileged \/ f.hostNamespaces
<1> DEFINE F == IF f.privileged \/ f.hostPath THEN Full
                ELSE IF f.secrets # {} THEN ReadOnly ELSE None
           N == IF f.hostNamespaces THEN Full
                ELSE IF f.egress = {} THEN None ELSE Allowlist
           X == IF f.privileged \/ f.hostNamespaces THEN Full
                ELSE IF f.capabilities = {} THEN f.exec
                ELSE AtLeast(f.exec, Sandboxed)
<1>1. F \in Levels /\ N \in Levels /\ X \in Levels
  BY LevelFacts DEF Facet, AtLeast
<1>2. ImpliedGrant(f)["network"] = N /\ ImpliedGrant(f)["exec"] = X
  BY <1>1, MakeGrantType DEF ImpliedGrant
<1>3. Demands(e)["network"] <= N /\ Demands(e)["exec"] <= X
  BY <1>2 DEF Below, Axes
<1>4. e.kind = "api" => /\ Demands(e)["network"] = Allowlist
                        /\ e.escalates => Demands(e)["exec"] = Full
  BY LevelFacts, MakeGrantType DEF Demands
<1>5. e.kind = "egress" /\ e.reach = "allowlist" => Demands(e)["network"] = Allowlist
  BY LevelFacts, MakeGrantType DEF Demands
<1>6. f.exec \in Levels
  BY DEF Facet
<1>7. X >= Full => f.exec = Full \/ f.privileged \/ f.hostNamespaces
  BY <1>6 DEF Levels, AtLeast, Full, Sandboxed
<1>8. N >= Allowlist => f.egress # {} \/ f.hostNamespaces
  BY DEF Allowlist, None, Full
<1> HIDE DEF N, X
<1> QED
  BY <1>1, <1>3, <1>4, <1>5, <1>7, <1>8 DEF Allowlist, Full, Levels

(* The bindings of an account are those that name one of its identities,   *)
(* and what it holds through them is in the snapshot.                      *)
LEMMA BoundIsNamed ==
    ASSUME NEW account, NEW b \in BoundTo(account), NEW spec, spec.account = account
    PROVE  /\ b \in bindings /\ b.namespace \in {Here, Cluster}
           /\ NamesSubject(SubjectOf(spec), b)
<1>1. PICK s \in b.subjects : s \in Identities(account)
  BY DEF BoundTo
<1>2. SubjectOf(spec).account = account /\ SubjectOf(spec).namespace = Here
  BY DEF SubjectOf
<1>3. CASE s \in [kind : {"ServiceAccount"}, name : {account}, namespace : {Here, Absent}]
  BY <1>2, <1>3 DEF NamesSubject, BoundTo
<1>4. CASE s \in [kind : {"Group"}, name : Accounts, namespace : {Here, Cluster}]
  BY <1>2, <1>4 DEF NamesSubject, BoundTo
<1> QED
  BY <1>1, <1>3, <1>4 DEF Identities

LEMMA RefersIsResolved ==
    ASSUME NEW b, b.namespace \in {Here, Cluster}, b.kind \in {"Role", "ClusterRole"}
    PROVE  RolesOf(b, roles) = {r \in roles : Refers(b, r)}
<1>1. Here # Cluster
  BY WallAssumption, BlocksAssumption
<1>2. ASSUME NEW r PROVE Refers(b, r) <=> r.name = b.role /\ r.namespace = RoleNamespace(b)
  BY <1>1 DEF Refers, RoleNamespace
<1> QED
  BY <1>2 DEF RolesOf

LEMMA SnapshotHoldsRules ==
    ASSUME TypeOK, NEW spec, NEW b \in BoundTo(spec.account)
    PROVE  /\ RulesOf(b, roles) \subseteq Build(spec).rbac
           /\ RolesOf(b, roles) = {r \in roles : Refers(b, r)}
<1>1. b \in bindings /\ b.namespace \in {Here, Cluster} /\ NamesSubject(SubjectOf(spec), b)
  BY BoundIsNamed
<1>2. b.kind \in {"Role", "ClusterRole"}
  BY <1>1, WallAssumption DEF TypeOK
<1>3. RulesOf(b, roles) \subseteq RbacFor(SubjectOf(spec), roles, bindings)
  BY <1>1 DEF RbacFor, SubjectOf
<1> QED
  BY <1>1, <1>2, <1>3, RefersIsResolved DEF Build

LEMMA HeldIsSeen ==
    ASSUME TypeOK, NEW spec, NEW rule \in HeldRules(spec.account)
    PROVE  [kind |-> "api", escalates |-> Escalates(rule)] \in Rows(spec, Build(spec))
<1>1. PICK r \in roles : rule \in r.rules /\ \E b \in BoundTo(spec.account) : Refers(b, r)
  BY DEF HeldRules
<1>2. PICK b \in BoundTo(spec.account) : Refers(b, r)
  BY <1>1
<1>3. r \in RolesOf(b, roles)
  BY <1>2, SnapshotHoldsRules
<1>4. rule \in RulesOf(b, roles)
  BY <1>1, <1>3 DEF RulesOf
<1>5. rule \in Build(spec).rbac
  BY <1>2, <1>4, SnapshotHoldsRules
<1> QED
  BY <1>5 DEF Rows

-------------------------------------------------------------------------------
(* The ceiling                                                             *)

(* An allowed review means that the pod can do no more than its manifest   *)
(* grants, in the cluster that the review looked at.                       *)
LEMMA ReviewIsCeiling ==
    ASSUME TypeOK, Outsider, NEW spec \in PodSpec, Review(spec)
    PROVE  Abilities(spec) \subseteq Granted(manifest)
<1> DEFINE rows   == Rows(spec, Build(spec))
           every  == AllContainers(spec)
           hosts  == Reachable(spec.labels)
           staged == {v \in Volumes : spec.volumes[v].hostPath}
           named  == {<<"secret", s>> :
                         s \in UNION ({spec.volumes[v].secrets : v \in Volumes}
                                         \cup {c.secrets : c \in every})}
           caps   == {<<"capability", Canonical[n]>> :
                         n \in UNION {c.capabilities : c \in every}}
<1>1. \A e \in rows : Admits(manifest, e) /\ Below(Demands(e), ImpliedGrant(manifest))
  BY ReviewMeans
<1>2. manifest \in Facet
  BY ReviewMeans
<1>3. /\ \A c \in every : ContainerRows(c) \subseteq rows
      /\ VolumeRows(spec) \subseteq rows
  BY DEF Rows
<1>4. named \subseteq Granted(manifest)
  <2>1. ASSUME NEW v \in Volumes, NEW s \in spec.volumes[v].secrets
        PROVE  s \in manifest.secrets
    <3>1. [kind |-> "secret", name |-> s] \in rows
      BY <1>3, <2>1 DEF VolumeRows
    <3> QED
      BY <1>1, <3>1 DEF Admits
  <2>2. ASSUME NEW c \in every, NEW s \in c.secrets
        PROVE  s \in manifest.secrets
    <3>1. [kind |-> "secret", name |-> s] \in rows
      BY <1>3, <2>2 DEF ContainerRows
    <3> QED
      BY <1>1, <3>1 DEF Admits
  <2>3. \A s \in manifest.secrets : <<"secret", s>> \in Granted(manifest)
    BY DEF Granted
  <2>4. \A s \in UNION ({spec.volumes[v].secrets : v \in Volumes}
                          \cup {c.secrets : c \in every}) : s \in manifest.secrets
    BY <2>1, <2>2
  <2> QED
    BY <2>3, <2>4
<1>5. caps \subseteq Granted(manifest)
  <2>1. ASSUME NEW c \in every, NEW n \in c.capabilities
        PROVE  \E g \in manifest.capabilities : Canonical[g] = Canonical[n]
    <3>1. [kind |-> "capability", name |-> n] \in rows
      BY <1>3, <2>1 DEF ContainerRows
    <3> QED
      BY <1>1, <3>1 DEF Admits
  <2>2. \A g \in manifest.capabilities : <<"capability", Canonical[g]>> \in Granted(manifest)
    BY DEF Granted
  <2>3. \A n \in UNION {c.capabilities : c \in every} :
            \E g \in manifest.capabilities : Canonical[g] = Canonical[n]
    BY <2>1
  <2> QED
    BY <2>2, <2>3
<1>6. ASSUME staged # {} PROVE manifest.hostPath
  <2>1. PICK v \in staged : TRUE
    BY <1>6
  <2>2. [kind |-> "host-path", writable |-> Writable(spec, v)] \in rows
    BY <1>3, <2>1 DEF VolumeRows, When
  <2> QED
    BY <1>1, <2>2 DEF Admits
<1>7. ASSUME NEW c \in every, c.privileged PROVE manifest.privileged
  <2>1. [kind |-> "privileged"] \in rows
    BY <1>3, <1>7 DEF ContainerRows, When
  <2> QED
    BY <1>1, <2>1 DEF Admits
<1>8. ASSUME spec.hostNetwork \/ spec.hostNamespaces PROVE manifest.hostNamespaces
  <2>1. [kind |-> "host-network"] \in rows \/ [kind |-> "host-namespace"] \in rows
    BY <1>8 DEF Rows, When
  <2> QED
    BY <1>1, <2>1 DEF Admits
<1>9. ASSUME NEW rule \in HeldRules(spec.account), Escalates(rule)
      PROVE  manifest.exec = Full \/ manifest.privileged \/ manifest.hostNamespaces
  <2>1. [kind |-> "api", escalates |-> Escalates(rule)] \in rows
    BY <1>9, HeldIsSeen
  <2> QED
    BY <1>1, <1>2, <1>9, <2>1, CoveredNeeds
<1>10. /\ hosts # {} => manifest.egress # {} \/ manifest.hostNamespaces
       /\ hosts # Hosts
  <2> DEFINE reach == ReachOf(Build(spec).egress)
             row   == [kind |-> "egress", reach |-> reach, reaches |-> Build(spec).reaches]
  <2>1. row \in rows
    BY DEF Rows
  <2>2. Build(spec).egress = EgressFor(SubjectFor(spec.labels, spec.account), policies)
    BY DEF Build, SubjectOf, SubjectFor
  <2>3. /\ reach = "none" => hosts = {}
        /\ hosts = Hosts => reach \in {"unrestricted", "no-policy"}
    BY <2>2, ReachIsExact DEF TypeOK, PoliciesInv
  <2> HIDE DEF reach
  <2>4. reach \in {"none", "allowlist"}
    BY <1>1, <2>1 DEF Admits
  <2>5. reach = "allowlist" => manifest.egress # {} \/ manifest.hostNamespaces
    BY <1>1, <1>2, <2>1, CoveredNeeds
  <2> QED
    BY <2>3, <2>4, <2>5
<1>11. ASSUME NEW c \in every PROVE <<"image", c.image>> \in Granted(manifest)
  <2>1. c.image \in Images
    BY ContainersType DEF Container
  <2>2. CASE manifest.imagePrefixes # {}
    BY <2>1, <2>2, ReviewMeans DEF ImagesWall, Vouched, Granted
  <2>3. CASE manifest.imagePrefixes = {}
    <3>1. ASSUME Doubted(c.image) PROVE Vetted
      <4>1. [kind |-> "untrusted-image", name |-> c.image] \in rows
        BY <1>3, <3>1 DEF ContainerRows, When
      <4>2. Unchecked(manifest, Compiled(spec))
        BY <2>3, <4>1, ReviewMeans DEF Unchecked
      <4>3. StandingOf(submission) # "unknown"
        BY <4>2, ReviewMeans DEF TrustWall
      <4> QED
        BY <4>3 DEF StandingOf, StandingWith, Vetted
    <3> QED
      BY <2>1, <2>3, <3>1 DEF Granted
  <2> QED
    BY <2>2, <2>3
<1>12. Abilities(spec) =
          named \cup caps
            \cup When(staged # {}, <<"node files">>)
            \cup When(\E v \in staged : \E c \in every :
                          [volume |-> v, readOnly |-> FALSE] \in c.mounts, <<"node writes">>)
            \cup When(\E c \in every : c.privileged, <<"node root">>)
            \cup When(spec.hostNetwork \/ spec.hostNamespaces, <<"node namespaces">>)
            \cup When(\E rule \in HeldRules(spec.account) : Escalates(rule), <<"escalation">>)
            \cup When(hosts # {}, <<"network">>)
            \cup When(hosts = Hosts, <<"whole network">>)
            \cup {<<"image", c.image>> : c \in every}
  BY DEF Abilities
<1>13. /\ manifest.hostPath => <<"node files">> \in Granted(manifest)
                                  /\ <<"node writes">> \in Granted(manifest)
       /\ manifest.privileged => <<"node root">> \in Granted(manifest)
       /\ manifest.hostNamespaces => <<"node namespaces">> \in Granted(manifest)
       /\ manifest.exec = Full \/ manifest.privileged \/ manifest.hostNamespaces =>
             <<"escalation">> \in Granted(manifest)
       /\ manifest.egress # {} \/ manifest.hostNamespaces =>
             <<"network">> \in Granted(manifest)
  BY DEF Granted, When
<1> HIDE DEF named, caps, staged, every, hosts
<1> QED
  BY <1>4, <1>5, <1>6, <1>7, <1>8, <1>9, <1>10, <1>11, <1>12, <1>13 DEF When

(* Whatever becomes of a pod by creation, relabelling or debugging, for    *)
(* every cluster with an outside, gives it no ability that its manifest    *)
(* does not grant.                                                         *)
THEOREM ManifestIsCeiling == ASSUME Outsider PROVE Spec => AdmittedWithinCeiling
<1>1. TypeOK /\ TypeOK' /\ [Next]_vars
        => [pod' # pod /\ pod' # NoPod => Abilities(pod') \subseteq Granted(manifest)]_vars
  <2> SUFFICES ASSUME TypeOK, TypeOK', [Next]_vars, pod' # pod, pod' # NoPod
               PROVE  Abilities(pod') \subseteq Granted(manifest)
    OBVIOUS
  <2>1. pod' \in PodSpec
    BY DEF TypeOK
  <2>2. Review(pod')
    BY DEF Next, ChangePolicy, ChangeRole, ChangeBinding, Create, Relabel, Debug, Delete,
           StartContainer, FinishInit, vars
  <2> QED
    BY <2>1, <2>2, ReviewIsCeiling
<1> QED
  BY <1>1, TypeCorrect, PTL DEF Spec, AdmittedWithinCeiling

(* f is above the manifest, and the manifest does not read as "any image"  *)
(* where f names prefixes.                                                 *)
Above(f) ==
    /\ Narrows(f, manifest)
    /\ manifest.imagePrefixes = {} => f.imagePrefixes = {}

WithinAncestors ==
    [][pod' # pod /\ pod' # NoPod =>
          \A f \in Facet : Above(f) => Abilities(pod') \subseteq Granted(f)]_vars

(* What a manifest grants, said of objects, every manifest above it grants *)
(* too: the levels and the booleans compared by narrowing leave nothing    *)
(* out.                                                                    *)
LEMMA GrantedNarrows ==
    ASSUME NEW f \in Facet, manifest \in Facet, Above(f)
    PROVE  Granted(manifest) \subseteq Granted(f)
<1> DEFINE g == manifest
<1>1. Narrows(f, g) /\ g \in Facet
  BY DEF Above
<1>2. /\ g.secrets \subseteq f.secrets /\ g.egress \subseteq f.egress
      /\ g.capabilities \subseteq f.capabilities
      /\ g.hostPath => f.hostPath
      /\ g.privileged => f.privileged
      /\ g.hostNamespaces => f.hostNamespaces
  BY <1>1 DEF Narrows
<1>3. g.exec = Full \/ g.privileged \/ g.hostNamespaces =>
        f.exec = Full \/ f.privileged \/ f.hostNamespaces
  <2> SUFFICES ASSUME g.exec = Full, ~(f.privileged \/ f.hostNamespaces)
               PROVE  f.exec = Full
    BY <1>2
  <2>1. g.exec = 3 /\ f.exec \in 0..3
    BY <1>1 DEF Facet, Levels, Full
  <2>2. ImpliedGrant(g)["exec"] = 3
    BY <2>1, LevelFacts DEF ImpliedGrant, MakeGrant, AtLeast, Axes, Full, Sandboxed
  <2>3. ImpliedGrant(f)["exec"] =
          IF f.capabilities = {} THEN f.exec ELSE AtLeast(f.exec, Sandboxed)
    BY DEF ImpliedGrant, MakeGrant, Axes
  <2>4. ImpliedGrant(g)["exec"] <= ImpliedGrant(f)["exec"]
    BY <1>1 DEF Narrows, Below, Axes
  <2> QED
    BY <2>1, <2>2, <2>3, <2>4 DEF AtLeast, Sandboxed, Full
<1>4. ASSUME NEW j \in Images,
             \/ g.imagePrefixes = {} /\ (Vetted \/ ~Doubted(j))
             \/ PrefixesOf[j] \cap g.imagePrefixes # {}
      PROVE  \/ f.imagePrefixes = {} /\ (Vetted \/ ~Doubted(j))
             \/ PrefixesOf[j] \cap f.imagePrefixes # {}
  <2>1. g.imagePrefixes \subseteq f.imagePrefixes
    BY <1>1 DEF Narrows
  <2> QED
    BY <1>4, <2>1 DEF Above
<1> DEFINE
    Secret(h)  == {<<"secret", s>> : s \in h.secrets}
    Cap(h)     == {<<"capability", Canonical[n]>> : n \in h.capabilities}
    Files(h)   == When(h.hostPath, <<"node files">>) \cup When(h.hostPath, <<"node writes">>)
    Node(h)    == When(h.privileged, <<"node root">>)
                    \cup When(h.hostNamespaces, <<"node namespaces">>)
    Beyond(h)  == When(h.exec = Full \/ h.privileged \/ h.hostNamespaces, <<"escalation">>)
    Network(h) == When(h.egress # {} \/ h.hostNamespaces, <<"network">>)
    Image(h)   == {<<"image", i>> : i \in {j \in Images :
                      \/ h.imagePrefixes = {} /\ (Vetted \/ ~Doubted(j))
                      \/ PrefixesOf[j] \cap h.imagePrefixes # {}}}
    All(h)     == Secret(h) \cup Cap(h) \cup Files(h) \cup Node(h) \cup Beyond(h)
                    \cup Network(h) \cup Image(h)
<1>5. Secret(g) \subseteq Secret(f) /\ Cap(g) \subseteq Cap(f)
  BY <1>2
<1>6. Files(g) \subseteq Files(f)
  BY <1>2 DEF When
<1>7. Node(g) \subseteq Node(f)
  BY <1>2, Zenon DEF When
<1>8. Beyond(g) \subseteq Beyond(f)
  BY <1>3 DEF When
<1>9. Network(g) \subseteq Network(f)
  BY <1>2 DEF When
<1>10. Image(g) \subseteq Image(f)
  BY <1>4
<1>11. Granted(g) = All(g) /\ Granted(f) = All(f)
  <2> HIDE DEF g
  <2>1. ASSUME NEW h PROVE Granted(h) = All(h)
    BY DEF Granted
  <2> QED
    BY <2>1
<1>12. All(g) \subseteq All(f)
  <2> HIDE DEF g, Secret, Cap, Files, Node, Beyond, Network, Image
  <2> QED
    BY <1>5, <1>6, <1>7, <1>8, <1>9, <1>10
<1> QED
  BY <1>11, <1>12

(* Whatever becomes of a pod gives it no ability that any manifest above   *)
(* its own does not grant, images aside where its own names no prefix: a   *)
(* lead hands out authority they hold, seen from the node.                 *)
THEOREM AncestorsAreCeilings == ASSUME Outsider PROVE Spec => WithinAncestors
<1>1. /\ TypeOK
      /\ [pod' # pod /\ pod' # NoPod => Abilities(pod') \subseteq Granted(manifest)]_vars
      => [pod' # pod /\ pod' # NoPod =>
            \A f \in Facet : Above(f) => Abilities(pod') \subseteq Granted(f)]_vars
  <2>1. TypeOK => manifest \in Facet
    BY WallAssumption DEF TypeOK
  <2> QED
    BY <2>1, GrantedNarrows
<1> QED
  BY <1>1, ManifestIsCeiling, TypeCorrect, PTL DEF AdmittedWithinCeiling, WithinAncestors

(* A binding of a role that is not there is seen: a pod bound to anything  *)
(* passes only where the manifest grants some network.                     *)
THEOREM DanglingHolds == Spec => []DanglingIsSeen
<1>1. TypeOK => DanglingIsSeen
  <2> SUFFICES ASSUME TypeOK, NEW spec \in Specs, Review(spec),
                      NEW b \in BoundTo(spec.account),
                      \A role \in roles : Refers(b, role) => role.rules # {}
               PROVE  manifest.egress # {} \/ manifest.hostNamespaces
    BY DEF DanglingIsSeen
  <2>1. spec \in PodSpec
    BY WallAssumption
  <2>2. RulesOf(b, roles) # {}
    <3>1. CASE RolesOf(b, roles) = {}
      BY <3>1 DEF RulesOf
    <3>2. CASE RolesOf(b, roles) # {}
      <4>1. PICK r \in RolesOf(b, roles) : r.rules # {}
        BY <3>2, SnapshotHoldsRules
      <4> QED
        BY <3>2, <4>1 DEF RulesOf
    <3> QED
      BY <3>1, <3>2
  <2>3. PICK rule \in Build(spec).rbac : TRUE
    BY <2>2, SnapshotHoldsRules
  <2>4. [kind |-> "api", escalates |-> Escalates(rule)] \in Rows(spec, Build(spec))
    BY <2>3 DEF Rows
  <2> QED
    BY <2>1, <2>4, ReviewMeans, CoveredNeeds
<1> QED
  BY <1>1, TypeCorrect, PTL

-------------------------------------------------------------------------------
(* The record                                                              *)

(* The last event of a chain is the verdict, and a charge on it is the one *)
(* that the wall compared.                                                 *)
LEMMA EventsEnd ==
    ASSUME NEW f, NEW compiled, NEW standing, NEW charge, NEW refusals
    PROVE  LET audit == Events(f, compiled, standing, charge, refusals) IN
           /\ audit[Len(audit)] =
                 IF Silent(refusals) THEN [kind |-> "pod_admitted"]
                 ELSE [kind |-> "pod_refused", wall |-> First(refusals).wall,
                       about |-> First(refusals).about]
           /\ \A i \in DOMAIN audit : audit[i].kind = "spend_charged" =>
                 /\ charge.configured
                 /\ audit[i].pod = compiled.cost
                 /\ audit[i].namespace = charge.committed
                 /\ audit[i].budget = f.budget
<1> DEFINE asked   == [kind |-> "pod_requested", trust |-> standing,
                       demands |-> Join(compiled.rows)]
           charged == [kind |-> "spend_charged", pod |-> compiled.cost,
                       namespace |-> charge.committed, budget |-> f.budget]
           verdict == IF Silent(refusals) THEN [kind |-> "pod_admitted"]
                      ELSE [kind |-> "pod_refused", wall |-> First(refusals).wall,
                            about |-> First(refusals).about]
           audit   == Events(f, compiled, standing, charge, refusals)
<1>1. audit = IF charge.configured THEN <<asked, charged, verdict>> ELSE <<asked, verdict>>
  BY DEF Events
<1>2. /\ asked.kind = "pod_requested" /\ charged.kind = "spend_charged"
      /\ verdict.kind # "spend_charged"
      /\ charged.pod = compiled.cost /\ charged.namespace = charge.committed
      /\ charged.budget = f.budget
  OBVIOUS
<1> HIDE DEF asked, charged, verdict, audit
<1>3. ASSUME charge.configured
      PROVE  /\ audit[Len(audit)] = verdict
             /\ \A i \in DOMAIN audit : audit[i].kind = "spend_charged" =>
                   /\ charge.configured
                   /\ audit[i].pod = compiled.cost
                   /\ audit[i].namespace = charge.committed
                   /\ audit[i].budget = f.budget
  <2>1. audit = <<asked, charged, verdict>>
    BY <1>1, <1>3
  <2>2. Len(audit) = 3 /\ DOMAIN audit = 1..3
        /\ audit[1] = asked /\ audit[2] = charged /\ audit[3] = verdict
    BY <2>1
  <2> QED
    BY <2>2, <1>2, <1>3
<1>4. ASSUME ~charge.configured
      PROVE  /\ audit[Len(audit)] = verdict
             /\ \A i \in DOMAIN audit : audit[i].kind = "spend_charged" =>
                   /\ charge.configured
                   /\ audit[i].pod = compiled.cost
                   /\ audit[i].namespace = charge.committed
                   /\ audit[i].budget = f.budget
  <2>1. audit = <<asked, verdict>>
    BY <1>1, <1>4
  <2>2. Len(audit) = 2 /\ DOMAIN audit = 1..2
        /\ audit[1] = asked /\ audit[2] = verdict
    BY <2>1
  <2> QED
    BY <2>2, <1>2, <1>4
<1>5. /\ audit[Len(audit)] = verdict
      /\ \A i \in DOMAIN audit : audit[i].kind = "spend_charged" =>
            /\ charge.configured
            /\ audit[i].pod = compiled.cost
            /\ audit[i].namespace = charge.committed
            /\ audit[i].budget = f.budget
  BY <1>3, <1>4
<1> QED
  BY <1>5 DEF verdict, audit

(* What the first refusal says, wall by wall.                              *)
LEMMA FirstTellsWhy ==
    ASSUME NEW f \in Facet, NEW compiled, compiled.rows \in SUBSET Effect,
           NEW standing, NEW charge \in Spend, CanRun(f, charge),
           ~Silent(Refusals(f, compiled, standing, charge))
    PROVE  LET refusals == Refusals(f, compiled, standing, charge)
               r == First(refusals)
               free == [charge EXCEPT !.configured = FALSE]
           IN  /\ \E i \in DOMAIN refusals : r \in refusals[i]
               /\ r = [wall |-> r.wall, about |-> r.about]
               /\ \/ /\ r.wall = "type-check"
                     /\ ~LatticeWall(f, Only(r.about))
                  \/ /\ r.wall = "narrowing" /\ LatticeWall(f, compiled)
                     /\ IF r.about \in compiled.rows
                        THEN ~NamesWall(f, Only(r.about))
                        ELSE NamesWall(f, compiled)
                  \/ r.wall = "trust" /\ Admitted(f, compiled, "trusted", free)
                  \/ r.wall = "budget" /\ Admitted(f, compiled, standing, free)
<1> DEFINE refusals == Refusals(f, compiled, standing, charge)
           r == First(refusals)
           free == [charge EXCEPT !.configured = FALSE]
           e1 == CHOOSE e \in WorstRows(f, compiled) : TRUE
           Why == \/ /\ r.wall = "type-check"
                     /\ ~LatticeWall(f, Only(r.about))
                  \/ /\ r.wall = "narrowing" /\ LatticeWall(f, compiled)
                     /\ IF r.about \in compiled.rows
                        THEN ~NamesWall(f, Only(r.about))
                        ELSE NamesWall(f, compiled)
                  \/ r.wall = "trust" /\ Admitted(f, compiled, "trusted", free)
                  \/ r.wall = "budget" /\ Admitted(f, compiled, standing, free)
<1>1. DOMAIN refusals = 1..6
  BY SilentMeans
<1>2. PICK i \in 1..6 : r \in refusals[i] /\ \A j \in 1..(i - 1) : refusals[j] = {}
  BY FirstIsFirst
<1>3. /\ refusals[1] = Refused("type-check", IF LatticeWall(f, compiled) THEN {} ELSE {e1})
      /\ refusals[2] = Refused("narrowing", {e \in compiled.rows : ~Admits(f, e)})
      /\ refusals[3] = Refused("narrowing", {[kind |-> "image", name |-> n] :
               n \in {j \in compiled.images : f.imagePrefixes # {} /\ ~Vouched(f, j)}})
      /\ refusals[4] = Refused("trust",
               Cause("unchecked", standing = "unknown" /\ Unchecked(f, compiled)))
      /\ refusals[5] = Refused("budget",
               Cause("unpriced", charge.configured /\ compiled.undeclared))
      /\ refusals[6] = Refused("budget",
               Cause("spend", charge.configured
                                 /\ ~(charge.committed + compiled.cost <= f.budget)))
  BY DEF Refusals
<1>4. /\ refusals[1] = {} <=> LatticeWall(f, compiled)
      /\ refusals[2] = {} <=> NamesWall(f, compiled)
      /\ refusals[3] = {} <=> ImagesWall(f, compiled)
      /\ refusals[4] = {} <=> TrustWall(f, compiled, standing)
  BY WallsRefuse
<1>5. free.configured = FALSE
  BY DEF Spend
<1> HIDE DEF refusals, r, free
<1>6. CanRun(f, free) /\ BudgetWall(f, compiled, free)
  BY <1>5 DEF CanRun, BudgetWall
<1>7. ASSUME NEW wall, NEW causes, r \in Refused(wall, causes)
      PROVE  r.wall = wall /\ r.about \in causes /\ r = [wall |-> r.wall, about |-> r.about]
  BY <1>7 DEF Refused
<1>8. ASSUME i = 1 PROVE Why
  <2>1. r.wall = "type-check" /\ r.about = e1 /\ ~LatticeWall(f, compiled)
    BY <1>2, <1>3, <1>7, <1>8
  <2>2. e1 \in Effect /\ ~Below(Demands(e1), ImpliedGrant(f))
    BY <2>1, WorstRowExists
  <2>3. ~LatticeWall(f, Only(e1))
    <3> HIDE DEF e1
    <3>1. Only(e1).rows = {e1} /\ {e1} \in SUBSET Effect
      BY <2>2 DEF Only
    <3> QED
      BY <2>2, <3>1, ImpliedType, JoinIsLeast DEF LatticeWall
  <2> QED
    BY <2>1, <2>3
<1>9. ASSUME i = 2 PROVE Why
  <2>1. r.wall = "narrowing" /\ r.about \in compiled.rows /\ ~Admits(f, r.about)
    BY <1>2, <1>3, <1>7, <1>9
  <2>2. ~NamesWall(f, Only(r.about))
    BY <2>1 DEF NamesWall, Only
  <2>3. LatticeWall(f, compiled)
    BY <1>2, <1>4, <1>9
  <2> QED
    BY <2>1, <2>2, <2>3
<1>10. ASSUME i = 3 PROVE Why
  <2>1. r.wall = "narrowing" /\ r.about.kind = "image"
    BY <1>2, <1>3, <1>7, <1>10
  <2>2. r.about \notin compiled.rows
    <3>1. \A e \in Effect : e.kind # "image"
      BY DEF Effect
    <3> QED
      BY <2>1, <3>1
  <2>3. LatticeWall(f, compiled) /\ NamesWall(f, compiled)
    BY <1>2, <1>4, <1>10
  <2> QED
    BY <2>1, <2>2, <2>3
<1>11. ASSUME i = 4 PROVE Why
  <2>1. r.wall = "trust"
    BY <1>2, <1>3, <1>7, <1>11
  <2>2. /\ LatticeWall(f, compiled) /\ NamesWall(f, compiled)
        /\ ImagesWall(f, compiled)
    BY <1>2, <1>4, <1>11
  <2>3. Admitted(f, compiled, "trusted", free)
    BY <1>6, <2>2 DEF Admitted, TrustWall
  <2> QED
    BY <2>1, <2>3
<1>12. ASSUME i \in {5, 6} PROVE Why
  <2>1. r.wall = "budget"
    BY <1>2, <1>3, <1>7, <1>12
  <2>2. /\ LatticeWall(f, compiled) /\ NamesWall(f, compiled)
        /\ ImagesWall(f, compiled) /\ TrustWall(f, compiled, standing)
    BY <1>2, <1>4, <1>12
  <2>3. Admitted(f, compiled, standing, free)
    BY <1>6, <2>2 DEF Admitted
  <2> QED
    BY <2>1, <2>3
<1>13. r = [wall |-> r.wall, about |-> r.about]
  BY <1>2, <1>3, <1>7
<1>14. Why
  BY <1>8, <1>9, <1>10, <1>11, <1>12
<1> HIDE DEF Why
<1>15. Why /\ r \in refusals[i] /\ i \in DOMAIN refusals
  BY <1>1, <1>2, <1>14 DEF refusals
<1> QED
  BY <1>13, <1>15 DEF refusals, r, free, Why

(* The chain of a decision ends with its verdict; an admission has passed  *)
(* every wall and fits the budget it carries, and a refusal names the      *)
(* first wall that refuses and an effect that it would refuse alone.       *)
THEOREM RecordTellsWhy == Spec => []RefusalNamesItsCause
<1>1. TypeOK => RefusalNamesItsCause
  <2> SUFFICES ASSUME TypeOK, NEW spec \in Specs, Decides(spec)
               PROVE  LET compiled == Compiled(spec)
                          decision == Decision(manifest, compiled, submission, spend)
                          last == decision.audit[Len(decision.audit)]
                          Passes(standing, charged) ==
                              Admitted(manifest, compiled, standing,
                                       [spend EXCEPT !.configured = charged])
                      IN  /\ last.kind = "pod_admitted" <=>
                                 Passes(StandingOf(submission), spend.configured)
                          /\ \A i \in DOMAIN decision.audit :
                               last.kind = "pod_admitted"
                                  /\ decision.audit[i].kind = "spend_charged" =>
                                 decision.audit[i].namespace + decision.audit[i].pod
                                   <= decision.audit[i].budget
                          /\ last.kind = "pod_refused" =>
                              /\ [wall |-> last.wall, about |-> last.about]
                                    \in Respond(decision).causes
                              /\ CASE last.wall = "type-check" ->
                                         ~LatticeWall(manifest, Only(last.about))
                                   [] last.wall = "narrowing" ->
                                         /\ LatticeWall(manifest, compiled)
                                         /\ IF last.about \in compiled.rows
                                            THEN ~NamesWall(manifest, Only(last.about))
                                            ELSE NamesWall(manifest, compiled)
                                   [] last.wall = "trust"  -> Passes("trusted", FALSE)
                                   [] last.wall = "budget" ->
                                         Passes(StandingOf(submission), FALSE)
    BY ZenonT(60) DEF RefusalNamesItsCause
  <2> DEFINE compiled == Compiled(spec)
             standing == StandingOf(submission)
             refusals == Refusals(manifest, compiled, standing, spend)
             decision == Decision(manifest, compiled, submission, spend)
             audit    == Events(manifest, compiled, standing, spend, refusals)
             last     == audit[Len(audit)]
             r        == First(refusals)
  <2>1. /\ decision.allowed = Silent(refusals)
        /\ decision.refusals = refusals
        /\ decision.audit = audit
    BY DEF Decision
  <2>2. manifest \in Facet /\ spend \in Spend /\ spec \in PodSpec
    BY WallAssumption DEF TypeOK
  <2>3. compiled.rows \in SUBSET Effect
    <3>1. compiled.rows = Rows(spec, Build(spec))
      BY DEF Compiled, Compile
    <3>2. Build(spec).reaches \subseteq Hosts
      BY ReachableType DEF Build, TypeOK, PoliciesInv
    <3> QED
      BY <2>2, <3>1, <3>2, RowsType
  <2>4. CanRun(manifest, spend)
    BY DEF Decides
  <2>5. [spend EXCEPT !.configured = spend.configured] = spend
    BY <2>2 DEF Spend
  <2> HIDE DEF compiled, standing
  <2>6. Silent(refusals) <=> Admitted(manifest, compiled, standing, spend)
    BY <2>4, SilentIsAdmitted
  <2>7. /\ last = IF Silent(refusals) THEN [kind |-> "pod_admitted"]
                  ELSE [kind |-> "pod_refused", wall |-> r.wall, about |-> r.about]
        /\ \A i \in DOMAIN audit : audit[i].kind = "spend_charged" =>
              /\ spend.configured
              /\ audit[i].pod = compiled.cost
              /\ audit[i].namespace = spend.committed
              /\ audit[i].budget = manifest.budget
    BY EventsEnd
  <2> HIDE DEF refusals, decision, audit, last, r
  <2>8. CASE Silent(refusals)
    <3>1. last.kind = "pod_admitted"
      BY <2>7, <2>8
    <3>2. spend.configured => spend.committed + compiled.cost <= manifest.budget
      BY <2>6, <2>8 DEF Admitted, BudgetWall
    <3> QED
      BY <2>1, <2>5, <2>6, <2>7, <2>8, <3>1, <3>2 DEF last, compiled, standing, decision
  <2>9. CASE ~Silent(refusals)
    <3>1. last.kind = "pod_refused" /\ last.wall = r.wall /\ last.about = r.about
      BY <2>7, <2>9
    <3>2. /\ \E i \in DOMAIN refusals : r \in refusals[i]
          /\ r = [wall |-> r.wall, about |-> r.about]
          /\ \/ /\ r.wall = "type-check"
                /\ ~LatticeWall(manifest, Only(r.about))
             \/ /\ r.wall = "narrowing" /\ LatticeWall(manifest, compiled)
                /\ IF r.about \in compiled.rows
                   THEN ~NamesWall(manifest, Only(r.about))
                   ELSE NamesWall(manifest, compiled)
             \/ /\ r.wall = "trust"
                /\ Admitted(manifest, compiled, "trusted",
                            [spend EXCEPT !.configured = FALSE])
             \/ /\ r.wall = "budget"
                /\ Admitted(manifest, compiled, standing,
                            [spend EXCEPT !.configured = FALSE])
      BY <2>2, <2>3, <2>4, <2>9, FirstTellsWhy DEF refusals, r
    <3>3. [wall |-> last.wall, about |-> last.about] \in Respond(decision).causes
      <4>1. Respond(decision).causes = UNION {refusals[i] : i \in DOMAIN refusals}
        BY <2>1, <2>9 DEF Respond
      <4> QED
        BY <3>1, <3>2, <4>1
    <3>4. ~Admitted(manifest, compiled, standing, spend)
      BY <2>6, <2>9
    <3> QED
      BY <2>1, <2>5, <3>1, <3>2, <3>3, <3>4 DEF last, compiled, standing, decision
  <2> QED
    BY <2>8, <2>9
<1> QED
  BY <1>1, TypeCorrect, PTL

-------------------------------------------------------------------------------
(* Bindings                                                                *)

(* Fewer rules in a snapshot never refuse what more of them let through.   *)
LEMMA RulesOnlyRefuse ==
    ASSUME NEW f \in Facet, NEW spec \in PodSpec, NEW snap, NEW more,
           snap.egress = more.egress, snap.reaches = more.reaches,
           more.reaches \subseteq Hosts, snap.rbac \subseteq more.rbac,
           NEW standing, NEW charge, Admitted(f, Compile(spec, more), standing, charge)
    PROVE  Admitted(f, Compile(spec, snap), standing, charge)
<1> DEFINE was == Compile(spec, snap)
           is  == Compile(spec, more)
<1>1. /\ was.rows = Rows(spec, snap) /\ is.rows = Rows(spec, more)
      /\ was.images = is.images /\ was.cost = is.cost /\ was.undeclared = is.undeclared
  BY DEF Compile
<1>2. Rows(spec, snap) \subseteq Rows(spec, more)
  <2> DEFINE api(rules) == {[kind |-> "api", escalates |-> Escalates(rule)] : rule \in rules}
             rest == When(spec.hostNetwork, [kind |-> "host-network"])
                        \cup When(spec.hostNamespaces, [kind |-> "host-namespace"])
                        \cup VolumeRows(spec)
                        \cup (UNION {ContainerRows(c) : c \in AllContainers(spec)})
                        \cup {[kind |-> "egress", reach |-> ReachOf(more.egress),
                               reaches |-> more.reaches]}
  <2>1. Rows(spec, snap) = rest \cup api(snap.rbac) /\ Rows(spec, more) = rest \cup api(more.rbac)
    BY DEF Rows
  <2>2. api(snap.rbac) \subseteq api(more.rbac)
    OBVIOUS
  <2> HIDE DEF rest, api
  <2> QED
    BY <2>1, <2>2
<1>3. is.rows \in SUBSET Effect /\ was.rows \in SUBSET Effect
  BY <1>1, <1>2, RowsType
<1> HIDE DEF was, is
<1>4. LatticeWall(f, is) => LatticeWall(f, was)
  BY <1>1, <1>2, <1>3, ImpliedType, JoinIsLeast DEF LatticeWall
<1>5. NamesWall(f, is) => NamesWall(f, was)
  BY <1>1, <1>2 DEF NamesWall
<1>6. TrustWall(f, is, standing) => TrustWall(f, was, standing)
  BY <1>1, <1>2 DEF TrustWall, Unchecked
<1>7. /\ ImagesWall(f, is) => ImagesWall(f, was)
      /\ BudgetWall(f, is, charge) => BudgetWall(f, was, charge)
  BY <1>1 DEF ImagesWall, BudgetWall
<1> QED
  BY <1>4, <1>5, <1>6, <1>7 DEF Admitted, was, is

(* A binding that is added never makes a pod admissible.                   *)
THEOREM BindingsHold == Spec => BindingsOnlyAdd
<1> DEFINE Step == pod = NoPod /\ bindings \subseteq bindings' /\ bindings' # bindings =>
                      \A spec \in Specs : ~Review(spec) => ~Review(spec)'
<1>1. TypeOK /\ TypeOK' /\ [Next]_vars => [Step]_vars
  <2> SUFFICES ASSUME TypeOK, [Next]_vars, bindings \subseteq bindings',
                      bindings' # bindings, NEW spec \in Specs, Review(spec)'
               PROVE  Review(spec)
    OBVIOUS
  <2> DEFINE now   == Build(spec)
             later == Build(spec)'
  <2>1. UNCHANGED <<config, policies, roles>>
    BY DEF Next, ChangePolicy, ChangeRole, ChangeBinding, Create, Relabel, Debug, Delete,
           StartContainer, FinishInit, vars, cluster
  <2>2. manifest' = manifest /\ submission' = submission /\ spend' = spend
    BY <2>1 DEF config
  <2>3. manifest \in Facet /\ spec \in PodSpec
    BY WallAssumption DEF TypeOK
  <2>4. now.egress = later.egress
    BY <2>1 DEF Build
  <2>5. now.reaches = later.reaches
    BY <2>1 DEF Build, Reachable, Isolating
  <2>6. now.rbac \subseteq later.rbac
    BY <2>1 DEF Build, RbacFor
  <2>7. later.reaches \subseteq Hosts
    BY <2>5, ReachableType DEF Build, TypeOK, PoliciesInv
  <2>8. /\ Decides(spec)
        /\ Silent(Refusals(manifest, Compile(spec, later), StandingOf(submission), spend))
    BY <2>2 DEF Review, Decides, Compiled
  <2>9. Admitted(manifest, Compile(spec, later), StandingOf(submission), spend)
    BY <2>8, SilentIsAdmitted DEF Decides
  <2> HIDE DEF now, later
  <2>10. Admitted(manifest, Compile(spec, now), StandingOf(submission), spend)
    BY <2>3, <2>4, <2>5, <2>6, <2>7, <2>9, RulesOnlyRefuse
  <2>11. Silent(Refusals(manifest, Compiled(spec), StandingOf(submission), spend))
    BY <2>8, <2>10, SilentIsAdmitted DEF Decides, Compiled, now
  <2> QED
    BY <2>8, <2>11 DEF Review
<1> QED
  BY <1>1, TypeCorrect, PTL DEF Spec, BindingsOnlyAdd
-------------------------------------------------------------------------------
(* Standing                                                                *)

(* The same review before a wall that was started without a keyring.       *)
Unconsulted(s) == [s EXCEPT !.consulted = FALSE]

(* A keyring was given and does not list the submitter, if there is one.   *)
Unscored(s) == s.consulted /\ s.signer \notin s.trusted

LEMMA UnscoredMeans ==
    ASSUME NEW s \in Submission
    PROVE  /\ StandingOf(s) = "unknown" <=> Unscored(s)
           /\ StandingOf(Unconsulted(s)) # "unknown"
<1>1. Unconsulted(s).consulted = FALSE
  BY DEF Unconsulted, Submission
<1> QED
  BY <1>1 DEF StandingOf, StandingWith, Unscored

(* A row speaks of an image's origin exactly where some container, of      *)
(* whatever kind, has one in doubt.                                        *)
LEMMA DoubtShows ==
    ASSUME NEW spec, NEW snap
    PROVE  (\E e \in Rows(spec, snap) : e.kind = "untrusted-image")
               <=> \E c \in AllContainers(spec) : Doubted(c.image)
<1>1. ASSUME NEW c, NEW e \in ContainerRows(c), e.kind = "untrusted-image"
      PROVE  Doubted(c.image)
  BY <1>1 DEF ContainerRows, When
<1>2. ASSUME NEW e \in VolumeRows(spec) PROVE e.kind # "untrusted-image"
  BY <1>2 DEF VolumeRows, When
<1>3. ASSUME NEW e \in Rows(spec, snap), e.kind = "untrusted-image"
      PROVE  \E c \in AllContainers(spec) : e \in ContainerRows(c)
  BY <1>2, <1>3 DEF Rows, When
<1>4. ASSUME NEW c \in AllContainers(spec), Doubted(c.image)
      PROVE  \E e \in Rows(spec, snap) : e.kind = "untrusted-image"
  <2>1. [kind |-> "untrusted-image", name |-> c.image] \in ContainerRows(c)
    BY <1>4 DEF ContainerRows, When
  <2>2. [kind |-> "untrusted-image", name |-> c.image] \in Rows(spec, snap)
    BY <2>1 DEF Rows
  <2> QED
    BY <2>2
<1> QED
  BY <1>1, <1>3, <1>4

(* The standing of a submitter touches the trust wall and no other.        *)
LEMMA OnlyTrustDiffers ==
    ASSUME NEW f, NEW compiled, NEW charge, NEW a, NEW b, b # "unknown"
    PROVE  LET with    == Refusals(f, compiled, a, charge)
               without == Refusals(f, compiled, b, charge)
           IN  /\ DOMAIN with = 1..6 /\ DOMAIN without = 1..6
               /\ \A i \in (1..6) \ {4} : with[i] = without[i]
               /\ without[4] = {}
               /\ \A r \in with[4] : r.wall = "trust"
<1> DEFINE with    == Refusals(f, compiled, a, charge)
           without == Refusals(f, compiled, b, charge)
<1>1. /\ with[1] = without[1] /\ with[2] = without[2] /\ with[3] = without[3]
      /\ with[5] = without[5] /\ with[6] = without[6]
  BY DEF Refusals
<1>2. /\ with[4] = Refused("trust", Cause("unchecked", a = "unknown" /\ Unchecked(f, compiled)))
      /\ without[4] = Refused("trust", Cause("unchecked", b = "unknown" /\ Unchecked(f, compiled)))
  BY DEF Refusals
<1>3. DOMAIN with = 1..6 /\ DOMAIN without = 1..6
  BY SilentMeans
<1> HIDE DEF with, without
<1>4. without[4] = {} /\ \A r \in with[4] : r.wall = "trust"
  BY <1>2 DEF Refused, Cause
<1>5. \A i \in (1..6) \ {4} : i = 1 \/ i = 2 \/ i = 3 \/ i = 5 \/ i = 6
  OBVIOUS
<1>6. \A i \in (1..6) \ {4} : with[i] = without[i]
  BY <1>1, <1>5
<1> QED
  BY <1>3, <1>4, <1>6 DEF with, without

(* The first refusals of two lists are the same if they agree up to it.    *)
LEMMA SameFirst ==
    ASSUME NEW m, NEW n, DOMAIN m = 1..6, DOMAIN n = 1..6,
           NEW k \in 1..6, m[k] # {},
           \A j \in 1..k : m[j] = n[j],
           \A j \in 1..(k - 1) : m[j] = {}
    PROVE  First(m) = First(n) /\ First(m) \in m[k]
<1> DEFINE Leads(list, i) == list[i] # {} /\ \A j \in 1..(i - 1) : list[j] = {}
           one == CHOOSE i \in 1..6 : Leads(m, i)
           two == CHOOSE i \in 1..6 : Leads(n, i)
<1>1. ASSUME NEW i \in 1..6, NEW list \in {m, n}, Leads(list, i) PROVE i = k
  <2>1. list[k] # {} /\ \A j \in 1..(k - 1) : list[j] = {}
    <3>1. k \in 1..k /\ \A j \in 1..(k - 1) : j \in 1..k
      OBVIOUS
    <3> QED
      BY <3>1
  <2>2. ~(i < k)
    <3>1. i < k => i \in 1..(k - 1)
      OBVIOUS
    <3> QED
      BY <1>1, <2>1, <3>1
  <2>3. ~(k < i)
    <3>1. k < i => k \in 1..(i - 1)
      OBVIOUS
    <3> QED
      BY <1>1, <2>1, <3>1
  <2> QED
    BY <2>2, <2>3
<1>2. Leads(m, k) /\ Leads(n, k)
  <2>1. k \in 1..k /\ \A j \in 1..(k - 1) : j \in 1..k
    OBVIOUS
  <2> QED
    BY <2>1
<1>3. First(m) = (CHOOSE r \in m[one] : TRUE) /\ First(n) = (CHOOSE r \in n[two] : TRUE)
  BY DEF First
<1> HIDE DEF Leads
<1>4. one = k /\ two = k
  BY <1>1, <1>2
<1>5. m[k] = n[k]
  OBVIOUS
<1> HIDE DEF one, two
<1> QED
  BY <1>3, <1>4, <1>5

(* A score waives nothing the manifest did not allow (trust.rs:18-24), and *)
(* the trust wall can only refuse (admission.rs:448-450).  A decision with *)
(* a keyring allows exactly what one without does, but for this: under a   *)
(* manifest that names no image prefixes, a submitter whom the keyring     *)
(* does not list must have every container's image pinned and from a       *)
(* source that the cluster trusts.  Every refusal without a keyring stays, *)
(* what is added is the trust wall's, and a pod refused in both is told    *)
(* the same reason unless it is told that one.  To list more signers takes *)
(* nothing from anybody.                                                   *)
THEOREM StandingOnlyNarrows ==
    ASSUME NEW f, NEW spec, NEW snap, NEW charge, NEW s \in Submission
    PROVE  LET compiled == Compile(spec, snap)
               with     == Decision(f, compiled, s, charge)
               without  == Decision(f, compiled, Unconsulted(s), charge)
           IN  /\ with.allowed <=>
                     /\ without.allowed
                     /\ Unscored(s) /\ f.imagePrefixes = {} =>
                           \A c \in AllContainers(spec) : ~Doubted(c.image)
               /\ \A i \in 1..6 :
                     /\ without.refusals[i] \subseteq with.refusals[i]
                     /\ \A r \in with.refusals[i] \ without.refusals[i] : r.wall = "trust"
               /\ ~with.allowed =>
                     \/ First(with.refusals).wall = "trust"
                     \/ /\ ~without.allowed
                        /\ First(with.refusals) = First(without.refusals)
               /\ with.allowed =>
                     \A more \in SUBSET Signers : s.trusted \subseteq more =>
                         Decision(f, compiled, [s EXCEPT !.trusted = more], charge).allowed
<1> DEFINE compiled  == Compile(spec, snap)
           a         == StandingOf(s)
           b         == StandingOf(Unconsulted(s))
           with      == Refusals(f, compiled, a, charge)
           without   == Refusals(f, compiled, b, charge)
           undoubted == \A c \in AllContainers(spec) : ~Doubted(c.image)
           Scored(t) == Unscored(t) /\ f.imagePrefixes = {} => undoubted
<1>1. ASSUME NEW t
      PROVE  /\ Decision(f, compiled, t, charge).allowed
                    <=> Silent(Refusals(f, compiled, StandingOf(t), charge))
             /\ Decision(f, compiled, t, charge).refusals
                    = Refusals(f, compiled, StandingOf(t), charge)
  BY DEF Decision
<1>2. b # "unknown"
  BY UnscoredMeans
<1>3. Unchecked(f, compiled) <=> f.imagePrefixes = {} /\ ~undoubted
  <2>1. compiled.rows = Rows(spec, snap)
    BY DEF Compile
  <2> QED
    BY <2>1, DoubtShows DEF Unchecked
<1> HIDE DEF compiled, b
<1>4. ASSUME NEW c
      PROVE  LET own == Refusals(f, compiled, c, charge)
             IN  /\ DOMAIN own = 1..6 /\ DOMAIN without = 1..6
                 /\ \A i \in (1..6) \ {4} : own[i] = without[i]
                 /\ without[4] = {}
                 /\ \A r \in own[4] : r.wall = "trust"
  BY <1>2, OnlyTrustDiffers
<1>5. ASSUME NEW t \in Submission
      PROVE  Silent(Refusals(f, compiled, StandingOf(t), charge))
                 <=> Silent(without) /\ Scored(t)
  <2> DEFINE own == Refusals(f, compiled, StandingOf(t), charge)
  <2>1. /\ DOMAIN own = 1..6 /\ DOMAIN without = 1..6 /\ without[4] = {}
        /\ \A i \in (1..6) \ {4} : own[i] = without[i]
    BY <1>4
  <2>2. own[4] = {} <=> Scored(t)
    <3>1. own[4] = {} <=> TrustWall(f, compiled, StandingOf(t))
      BY WallsRefuse
    <3> QED
      BY <1>3, <3>1, UnscoredMeans DEF TrustWall
  <2> HIDE DEF own, without, Scored
  <2>3. Silent(own) <=> own[4] = {} /\ \A i \in (1..6) \ {4} : own[i] = {}
    BY <2>1 DEF Silent
  <2>4. Silent(without) <=> \A i \in (1..6) \ {4} : without[i] = {}
    BY <2>1 DEF Silent
  <2>5. Silent(own) <=> Silent(without) /\ Scored(t)
    BY <2>1, <2>2, <2>3, <2>4
  <2> QED
    BY <2>5 DEF own
<1>6. \A i \in 1..6 : /\ without[i] \subseteq with[i]
                      /\ \A r \in with[i] \ without[i] : r.wall = "trust"
  <2> HIDE DEF with, without
  <2>1. /\ \A i \in (1..6) \ {4} : with[i] = without[i]
        /\ without[4] = {} /\ \A r \in with[4] : r.wall = "trust"
    BY <1>4 DEF with, without
  <2> QED
    BY <2>1
<1>7. ASSUME ~Silent(with)
      PROVE  \/ First(with).wall = "trust"
             \/ ~Silent(without) /\ First(with) = First(without)
  <2>1. PICK k \in 1..6 : First(with) \in with[k] /\ \A j \in 1..(k - 1) : with[j] = {}
    BY <1>7, FirstIsFirst
  <2>2. /\ DOMAIN with = 1..6 /\ DOMAIN without = 1..6
        /\ \A i \in (1..6) \ {4} : with[i] = without[i]
        /\ without[4] = {} /\ \A r \in with[4] : r.wall = "trust"
    BY <1>4
  <2> HIDE DEF with, without
  <2>3. CASE k = 4
    BY <2>1, <2>2, <2>3
  <2>4. CASE k # 4
    <3>1. \A j \in 1..k : with[j] = without[j]
      <4> SUFFICES ASSUME NEW j \in 1..k PROVE with[j] = without[j]
        OBVIOUS
      <4>1. j \in 1..6 /\ (j = 4 => 4 \in 1..(k - 1))
        BY <2>4
      <4> QED
        BY <2>1, <2>2, <4>1
    <3>2. with[k] # {} /\ without[k] # {}
      BY <2>1, <2>2, <2>4
    <3>3. First(with) = First(without)
      BY <2>1, <2>2, <3>1, <3>2, SameFirst
    <3>4. ~Silent(without)
      BY <2>2, <3>2 DEF Silent
    <3> QED
      BY <3>3, <3>4
  <2> QED
    BY <2>3, <2>4
<1>8. ASSUME Silent(with), NEW more \in SUBSET Signers, s.trusted \subseteq more
      PROVE  Decision(f, compiled, [s EXCEPT !.trusted = more], charge).allowed
  <2> DEFINE t == [s EXCEPT !.trusted = more]
  <2>1. t \in Submission /\ (Unscored(t) => Unscored(s))
    BY <1>8 DEF Submission, Unscored
  <2>2. Silent(without) /\ Scored(s)
    BY <1>5, <1>8
  <2> HIDE DEF t, with, without
  <2>3. Silent(Refusals(f, compiled, StandingOf(t), charge))
    BY <1>5, <2>1, <2>2
  <2> QED
    BY <1>1, <2>3 DEF t
<1>9. Silent(with) <=> Silent(without) /\ Scored(s)
  BY <1>5
<1> DEFINE judged   == Decision(f, compiled, s, charge)
           unjudged == Decision(f, compiled, Unconsulted(s), charge)
<1>10. /\ judged.allowed <=> Silent(with)
       /\ judged.refusals = with
       /\ unjudged.allowed <=> Silent(without)
       /\ unjudged.refusals = without
  BY <1>1 DEF b
<1> HIDE DEF judged, unjudged, with, without
<1>11. judged.allowed <=> unjudged.allowed /\ Scored(s)
  BY <1>9, <1>10
<1>12. \A i \in 1..6 :
          /\ unjudged.refusals[i] \subseteq judged.refusals[i]
          /\ \A r \in judged.refusals[i] \ unjudged.refusals[i] : r.wall = "trust"
  BY <1>6, <1>10
<1>13. ~judged.allowed =>
          \/ First(judged.refusals).wall = "trust"
          \/ ~unjudged.allowed /\ First(judged.refusals) = First(unjudged.refusals)
  BY <1>7, <1>10
<1>14. judged.allowed =>
          \A more \in SUBSET Signers : s.trusted \subseteq more =>
              Decision(f, compiled, [s EXCEPT !.trusted = more], charge).allowed
  BY <1>8, <1>10
<1> QED
  BY <1>11, <1>12, <1>13, <1>14 DEF compiled, judged, unjudged
===============================================================================
