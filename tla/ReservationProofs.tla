--------------------------- MODULE ReservationProofs ---------------------------
(***************************************************************************)
(* What a pod is charged for against what it holds, for every spec and in  *)
(* every order of starting and finishing, relabelling and debugging.  The  *)
(* invariant follows the kubelet through the spec; the sums are SumProofs' *)
(***************************************************************************)
EXTENDS PodWallProofs, SumProofs

-------------------------------------------------------------------------------
(* Requests and their sums                                                 *)

(* What is read fits in a word.                                            *)
LEMMA ReadingType ==
    /\ \A q \in CpuQuantity : ParseCpu(q) # Unreadable => ParseCpu(q) \in 0..MaxWord
    /\ \A q \in MemoryQuantity : ParseMemory(q) # Unreadable => ParseMemory(q) \in 0..MaxWord
<1>1. ASSUME NEW n \in Nat, Word(n) # Unreadable PROVE Word(n) \in 0..MaxWord
  BY <1>1, QuantitiesAssumption DEF Word
<1>2. ASSUME NEW q \in CpuQuantity, ParseCpu(q) # Unreadable
      PROVE  ParseCpu(q) \in 0..MaxWord
  <2>1. CASE q.form = "milli"
    <3>1. q.number \in Nat
      BY <2>1 DEF CpuQuantity
    <3> QED
      BY <1>1, <1>2, <2>1, <3>1 DEF ParseCpu
  <2>2. CASE q.form = "cores" /\ q.digits <= 3
    <3>1. q.number \in Nat /\ q.fraction \in Nat /\ q.digits \in 0..3
      BY <2>2 DEF CpuQuantity, MaxDigits
    <3>2. PowerOfTen[3 - q.digits] \in Nat
      BY <3>1 DEF PowerOfTen, MaxDigits
    <3>3. q.number * 1000 + q.fraction * PowerOfTen[3 - q.digits] \in Nat
      BY <3>1, <3>2
    <3> QED
      BY <1>1, <1>2, <2>2, <3>3 DEF ParseCpu
  <2>3. CASE q.form # "milli" /\ ~(q.form = "cores" /\ q.digits <= 3)
    BY <1>2, <2>3 DEF ParseCpu
  <2> QED
    BY <2>1, <2>2, <2>3
<1>3. ASSUME NEW q \in MemoryQuantity, ParseMemory(q) # Unreadable
      PROVE  ParseMemory(q) \in 0..MaxWord
  <2>1. q.form = "bytes"
    BY <1>3 DEF ParseMemory
  <2>2. q.number * Multiple[q.suffix] \in Nat
    BY <2>1, QuantitiesAssumption DEF MemoryQuantity
  <2> QED
    BY <1>1, <1>3, <2>1, <2>2 DEF ParseMemory
<1> QED
  BY <1>2, <1>3

(* What the wall adds up is what Kubernetes holds, container by container. *)
LEMMA AsksIsAmount ==
    ASSUME NEW spec \in PodSpec, Compiles(spec), NEW i \in Charged(spec),
           NEW r \in Resources
    PROVE  /\ Asks(spec.containers[i], r) \in 0..MaxWord
           /\ Amount(spec.containers[i], r) = Asks(spec.containers[i], r)
<1> DEFINE c == spec.containers[i]
<1>1. c \in Container
  BY DEF PodSpec, Charged
<1>2. Asks(c, r) # Unreadable
  BY DEF Compiles
<1>3. c.requests \in Requests
  BY <1>1 DEF Container
<1> HIDE DEF c
<1>4. CASE c.requests[r] = Absent
  BY <1>4, QuantitiesAssumption DEF Asks, Amount, c
<1>5. CASE c.requests[r] # Absent /\ r = "cpu"
  <2>1. c.requests[r] \in CpuQuantity
    BY <1>3, <1>5 DEF Requests
  <2>2. Asks(c, r) = ParseCpu(c.requests[r]) /\ Amount(c, r) = CpuAmount(c.requests[r])
    BY <1>5 DEF Asks, Amount
  <2> QED
    BY <1>2, <2>1, <2>2, ReadingType, ReadingIsExact DEF c
<1>6. CASE c.requests[r] # Absent /\ r = "memory"
  <2>1. c.requests[r] \in MemoryQuantity
    BY <1>3, <1>6 DEF Requests
  <2>2. Asks(c, r) = ParseMemory(c.requests[r]) /\ Amount(c, r) = MemoryAmount(c.requests[r])
    BY <1>6 DEF Asks, Amount
  <2> QED
    BY <1>2, <2>1, <2>2, ReadingType, ReadingIsExact DEF c
<1> QED
  BY <1>4, <1>5, <1>6 DEF Resources, c

(* A spec has finitely many containers.                                    *)
LEMMA ChargedFinite ==
    ASSUME NEW spec \in PodSpec, NEW places \in SUBSET Charged(spec)
    PROVE  IsFiniteSet(places)
<1>1. /\ DOMAIN spec.containers = 1..Len(spec.containers)
      /\ Len(spec.containers) \in Nat
  BY DEF PodSpec
<1>2. IsFiniteSet(1..Len(spec.containers))
  BY <1>1, FS_Interval
<1>3. places \in SUBSET (1..Len(spec.containers))
  BY <1>1 DEF Charged
<1> QED
  BY <1>2, <1>3, FS_Subset

(* The sums of a spec grow with the places, by what each place asks for.   *)
LEMMA TotalFacts ==
    ASSUME NEW spec \in PodSpec, Compiles(spec), NEW r \in Resources,
           NEW places \in SUBSET Charged(spec)
    PROVE  /\ Total(spec, places, r) \in Nat
           /\ \A some \in SUBSET places : Total(spec, some, r) <= Total(spec, places, r)
           /\ \A i \in Charged(spec) \ places :
                 Total(spec, places \cup {i}, r)
                     = Asks(spec.containers[i], r) + Total(spec, places, r)
<1> DEFINE all == [i \in Charged(spec) |-> Asks(spec.containers[i], r)]
<1>1. \A i \in Charged(spec) : all[i] \in Nat
  BY AsksIsAmount, QuantitiesAssumption
<1>2. ASSUME NEW some \in SUBSET Charged(spec)
      PROVE  Total(spec, some, r) = SumFunctionOnSet(all, some)
  <2> DEFINE f == [i \in some |-> Asks(spec.containers[i], r)]
  <2>1. \A i \in some : f[i] = all[i]
    OBVIOUS
  <2>2. IsFiniteSet(some)
    BY ChargedFinite
  <2>3. Total(spec, some, r) = SumFunctionOnSet(f, some)
    BY DEF Total
  <2> HIDE DEF f, all
  <2> QED
    BY <2>1, <2>2, <2>3, SumSame
<1>3. \A i \in Charged(spec) : all[i] = Asks(spec.containers[i], r)
  OBVIOUS
<1> HIDE DEF all
<1>4. IsFiniteSet(places) /\ \A i \in places : all[i] \in Nat
  BY <1>1, ChargedFinite
<1>5. SumFunctionOnSet(all, places) \in Nat
  BY <1>4, SumType
<1>6. ASSUME NEW some \in SUBSET places
      PROVE  SumFunctionOnSet(all, some) <= SumFunctionOnSet(all, places)
  BY <1>4, SumGrows
<1>7. ASSUME NEW i \in Charged(spec) \ places
      PROVE  SumFunctionOnSet(all, places \cup {i}) = all[i] + SumFunctionOnSet(all, places)
  <2>1. i \notin places /\ \A j \in places \cup {i} : all[j] \in Nat
    BY <1>1
  <2> QED
    BY <1>4, <2>1, SumAdd
<1> QED
  BY <1>2, <1>3, <1>5, <1>6, <1>7

(* Reservation::plus saturates at each container, Total once for them all. *)
LEMMA SaturatesInTurn ==
    ASSUME NEW m \in Nat, NEW n \in Nat
    PROVE  Saturated(Saturated(m) + n) = Saturated(m + n)
BY QuantitiesAssumption DEF Saturated

LEMMA HeldIsTotal ==
    ASSUME NEW places, pod \in PodSpec, Compiles(pod), places \subseteq Charged(pod),
           NEW r \in Resources
    PROVE  HeldBy(places, r) = Total(pod, places, r)
<1>1. [i \in places |-> Amount(pod.containers[i], r)]
         = [i \in places |-> Asks(pod.containers[i], r)]
  BY AsksIsAmount
<1> QED
  BY <1>1 DEF HeldBy, Total

Running(spec, r) == Total(spec, Of(spec, {"App", "Sidecar"}), r)

(* The charge is reached, by the sum or by an init container, and neither  *)
(* is more.                                                                *)
LEMMA EffectiveIsLargest ==
    ASSUME NEW spec \in PodSpec, Compiles(spec), NEW r \in Resources
    PROVE  LET charge == EffectiveRequests(spec)[r] IN
           /\ charge \in 0..MaxWord
           /\ Running(spec, r) \in Nat
           /\ Saturated(Running(spec, r)) <= charge
           /\ \A i \in Of(spec, {"Init"}) : Asks(spec.containers[i], r) <= charge
           /\ \/ charge = Saturated(Running(spec, r))
              \/ \E i \in Of(spec, {"Init"}) : charge = Asks(spec.containers[i], r)
<1> DEFINE inits == {Asks(spec.containers[i], r) : i \in Of(spec, {"Init"})}
           both  == {Saturated(Running(spec, r))} \cup inits
<1>1. Of(spec, {"App", "Sidecar"}) \subseteq Charged(spec)
      /\ Of(spec, {"Init"}) \subseteq Charged(spec)
  BY DEF Of
<1>2. Running(spec, r) \in Nat
  BY <1>1, TotalFacts DEF Running
<1>3. Saturated(Running(spec, r)) \in 0..MaxWord
  BY <1>2, QuantitiesAssumption DEF Saturated
<1>4. inits \subseteq 0..MaxWord
  BY <1>1, AsksIsAmount
<1>5. EffectiveRequests(spec)[r] = Max(both)
  BY DEF EffectiveRequests, Running
<1>6. both # {} /\ both \subseteq 0..MaxWord
  BY <1>3, <1>4
<1> HIDE DEF both
<1>7. IsFiniteSet(both) /\ \A x \in both : x \in Nat
  <2>1. IsFiniteSet(0..MaxWord)
    BY QuantitiesAssumption, FS_Interval
  <2>2. IsFiniteSet(both)
    BY <1>6, <2>1, FS_Subset
  <2> QED
    BY <1>6, <2>2, QuantitiesAssumption
<1>8. Max(both) \in both /\ \A x \in both : x <= Max(both)
  BY <1>6, <1>7, MaxIsUpper
<1>9. \A i \in Of(spec, {"Init"}) : Asks(spec.containers[i], r) \in both
  BY DEF both
<1>10. ASSUME NEW x \in both
       PROVE  \/ x = Saturated(Running(spec, r))
              \/ \E i \in Of(spec, {"Init"}) : x = Asks(spec.containers[i], r)
  BY <1>10 DEF both
<1>11. Saturated(Running(spec, r)) \in both
  BY DEF both
<1> QED
  BY <1>2, <1>5, <1>6, <1>8, <1>9, <1>10, <1>11

-------------------------------------------------------------------------------
(* The invariant                                                           *)

(* What has been started is what the spec lists before `next`; of it, all  *)
(* but the init containers run, and at most one init container.  The peak  *)
(* bounds what is held, and what each container that was started asked for.*)
Started == {i \in Charged(pod) : i < next}

Inits(places) == {i \in places : pod.containers[i].kind = "Init"}

InOrder ==
    /\ up \subseteq Started
    /\ Started \ Inits(Started) \subseteq up
    /\ \A i, j \in Inits(up) : i = j

AtPeak ==
    \A r \in Resources :
        /\ HeldBy(up, r) <= peak[r]
        /\ \A i \in Started : Amount(pod.containers[i], r) <= peak[r]

Affords == spend.configured => Price(EffectiveRequests(pod)) <= manifest.budget

ReservationInv ==
    /\ next \in Nat \ {0}
    /\ peak \in [Resources -> Nat]
    /\ pod = NoPod => node = <<{}, 1, Nought>>
    /\ pod # NoPod => Ordered(pod) /\ Compiles(pod) /\ Affords /\ InOrder /\ AtPeak

(* A review lets through what can be read and paid.                        *)
LEMMA ReviewPays ==
    ASSUME TypeOK, NEW spec \in PodSpec, Review(spec)
    PROVE  /\ Compiles(spec)
           /\ spend.configured => Price(EffectiveRequests(spec)) <= manifest.budget
<1> DEFINE compiled == Compiled(spec)
           charge   == Price(EffectiveRequests(spec))
<1>1. compiled.cost = charge
  BY DEF Compiled, Compile
<1>2. manifest \in Facet /\ spend \in Spend
  BY WallAssumption DEF TypeOK
<1>3. charge \in Int
  <2>1. Compiles(spec)
    BY DEF Review, Decides
  <2>2. \A r \in Resources : EffectiveRequests(spec)[r] \in Nat
    BY <2>1, EffectiveIsLargest, QuantitiesAssumption
  <2> DEFINE cpu    == EffectiveRequests(spec)["cpu"]
             memory == EffectiveRequests(spec)["memory"]
  <2>3. cpu \in Nat /\ memory \in Nat
    BY <2>2 DEF Resources
  <2> HIDE DEF cpu, memory
  <2>4. (cpu * CorePrice) \div 1000 \in Nat /\ (memory * GibPrice) \div Gib \in Nat
    BY <2>3, PricesAssumption
  <2> QED
    BY <2>4, QuantitiesAssumption DEF Price, Saturated, cpu, memory
<1> HIDE DEF compiled, charge
<1>4. BudgetWall(manifest, compiled, spend)
  BY SilentIsAdmitted DEF Review, Decides, compiled, Admitted
<1>5. spend.configured => spend.committed + compiled.cost <= manifest.budget
  BY <1>4 DEF BudgetWall
<1>6. spend.committed \in Nat /\ manifest.budget \in Nat
  BY <1>2 DEF Spend, Facet
<1> QED
  BY <1>1, <1>3, <1>5, <1>6 DEF Review, Decides, charge

(* A pod whose containers are those of another, but for one that is not    *)
(* charged, is charged and holds the same.                                 *)
LEMMA SameContainers ==
    ASSUME ReservationInv, TypeOK, pod # NoPod,
           pod' \in PodSpec, Compiles(pod'), Ordered(pod'),
           Charged(pod') = Charged(pod),
           \A i \in Charged(pod) : /\ pod'.containers[i].kind = pod.containers[i].kind
                                  /\ pod'.containers[i].requests = pod.containers[i].requests,
           UNCHANGED node
    PROVE  InOrder' /\ AtPeak'
<1>1. up' = up /\ next' = next /\ peak' = peak
  BY DEF node
<1>2. InOrder /\ AtPeak
  BY DEF ReservationInv
<1>3. Started' = Started
  BY <1>1 DEF Started
<1>4. \A places \in SUBSET Charged(pod) : Inits(places)' = Inits(places)
  BY DEF Inits
<1>5. up \subseteq Charged(pod) /\ Started \subseteq Charged(pod)
  BY <1>2 DEF InOrder, Started
<1>6. InOrder'
  BY <1>1, <1>2, <1>3, <1>4, <1>5 DEF InOrder
<1>7. ASSUME NEW i \in Charged(pod), NEW r \in Resources
      PROVE  Amount(pod'.containers[i], r) = Amount(pod.containers[i], r)
  BY DEF Amount
<1>8. ASSUME NEW r \in Resources
      PROVE  HeldBy(up, r)' = HeldBy(up, r)
  <2>1. [i \in up |-> Amount(pod'.containers[i], r)] = [i \in up |-> Amount(pod.containers[i], r)]
    BY <1>5, <1>7
  <2> QED
    BY <1>1, <2>1 DEF HeldBy
<1>9. AtPeak'
  BY <1>1, <1>2, <1>3, <1>5, <1>7, <1>8 DEF AtPeak
<1> QED
  BY <1>6, <1>9

(* One more container runs, and the peak follows.                          *)
LEMMA Starting ==
    ASSUME ReservationInv, TypeOK, StartContainer
    PROVE  ReservationInv'
<1>1. /\ pod # NoPod /\ pod \in PodSpec /\ pod' = pod
      /\ next \in Charged(pod) /\ next' = next + 1 /\ up' = up \cup {next}
      /\ manifest' = manifest /\ spend' = spend
      /\ Inits(up) = {}
  BY DEF TypeOK, StartContainer, Startable, config, Inits
<1>2. /\ next \in Nat \ {0} /\ peak \in [Resources -> Nat]
      /\ Ordered(pod) /\ Compiles(pod) /\ Affords /\ InOrder /\ AtPeak
  BY <1>1 DEF ReservationInv
<1>3. \A i \in Charged(pod) : i \in Nat
  BY <1>1 DEF PodSpec, Charged
<1>4. Started' = Started \cup {next}
  <2>1. \A i \in Charged(pod) : i < next + 1 <=> i < next \/ i = next
    BY <1>2, <1>3
  <2>2. Started' = {i \in Charged(pod) : i < next + 1}
    BY <1>1 DEF Started
  <2> QED
    BY <1>1, <2>1, <2>2 DEF Started
<1>5. InOrder'
  <2>1. up' \subseteq Started'
    BY <1>1, <1>2, <1>4 DEF InOrder
  <2>2. (Started \ Inits(Started))' \subseteq up'
    BY <1>1, <1>2, <1>4 DEF InOrder, Inits
  <2>3. Inits(up)' \subseteq {next}
    BY <1>1 DEF Inits
  <2> QED
    BY <2>1, <2>2, <2>3 DEF InOrder
<1>6. up' \subseteq Charged(pod)
  BY <1>1, <1>2 DEF InOrder, Started
<1>7. ASSUME NEW r \in Resources
      PROVE  /\ peak'[r] \in Nat /\ peak[r] <= peak'[r] /\ HeldBy(up, r)' <= peak'[r]
             /\ Amount(pod.containers[next], r) <= peak'[r]
  <2> DEFINE held == HeldBy(up', r)
  <2>1. held \in Nat
    BY <1>1, <1>2, <1>6, HeldIsTotal, TotalFacts
  <2>2. peak'[r] = Max({peak[r], held})
    BY DEF StartContainer
  <2>3. peak[r] \in Nat
    BY <1>2
  <2>4. HeldBy(up, r)' = held
    BY <1>1 DEF HeldBy
  <2>5. Amount(pod.containers[next], r) <= held
    <3>1. up \subseteq Charged(pod) /\ next \notin up
      BY <1>2 DEF InOrder, Started
    <3>2. Total(pod, up', r) = Asks(pod.containers[next], r) + Total(pod, up, r)
      BY <1>1, <1>2, <3>1, TotalFacts
    <3>3. Total(pod, up, r) \in Nat /\ Asks(pod.containers[next], r) \in Nat
      BY <1>1, <1>2, <3>1, TotalFacts, AsksIsAmount, QuantitiesAssumption
    <3>4. held = Total(pod, up', r)
      BY <1>1, <1>2, <1>6, HeldIsTotal
    <3> HIDE DEF held
    <3>5. Amount(pod.containers[next], r) = Asks(pod.containers[next], r)
      BY <1>1, <1>2, AsksIsAmount
    <3> QED
      BY <3>2, <3>3, <3>4, <3>5
  <2> HIDE DEF held
  <2>6. IsFiniteSet({peak[r], held})
    <3>1. {peak[r], held} = {peak[r]} \cup {held}
      OBVIOUS
    <3>2. IsFiniteSet({peak[r]})
      BY FS_Singleton
    <3>3. IsFiniteSet({peak[r]} \cup {held})
      BY <3>2, FS_AddElement
    <3> QED
      BY <3>1, <3>3
  <2>7. /\ Max({peak[r], held}) \in {peak[r], held}
        /\ peak[r] <= Max({peak[r], held}) /\ held <= Max({peak[r], held})
    BY <2>1, <2>3, <2>6, MaxIsUpper
  <2>8. Amount(pod.containers[next], r) \in Nat
    BY <1>1, <1>2, AsksIsAmount, QuantitiesAssumption
  <2> QED
    BY <2>1, <2>2, <2>3, <2>4, <2>5, <2>7, <2>8
<1>8. peak' \in [Resources -> Nat]
  <2>1. \A r \in Resources : peak'[r] \in Nat
    BY <1>7
  <2> QED
    BY <2>1 DEF StartContainer
<1>9. AtPeak'
  <2> SUFFICES ASSUME NEW r \in Resources, NEW i \in Started'
               PROVE  Amount(pod.containers[i], r) <= peak'[r]
    BY <1>1, <1>7 DEF AtPeak
  <2>1. CASE i = next
    BY <1>7, <2>1
  <2>2. CASE i \in Started
    <3>1. Amount(pod.containers[i], r) <= peak[r]
      BY <1>2, <2>2 DEF AtPeak
    <3>2. Amount(pod.containers[i], r) \in Nat /\ peak[r] \in Nat
      <4>1. i \in Charged(pod)
        BY <2>2 DEF Started
      <4>2. /\ Asks(pod.containers[i], r) \in 0..MaxWord
            /\ Amount(pod.containers[i], r) = Asks(pod.containers[i], r)
        BY <1>1, <1>2, <4>1, AsksIsAmount
      <4> QED
        BY <1>2, <4>2, QuantitiesAssumption
    <3> QED
      BY <1>7, <3>1, <3>2
  <2> QED
    BY <1>4, <2>1, <2>2
<1>10. Affords'
  BY <1>1, <1>2 DEF Affords
<1>11. next' \in Nat \ {0}
  BY <1>1, <1>2
<1> QED
  BY <1>1, <1>2, <1>5, <1>8, <1>9, <1>10, <1>11 DEF ReservationInv

(* What is held shrinks, the peak stays.                                   *)
LEMMA Finishing ==
    ASSUME ReservationInv, TypeOK, FinishInit
    PROVE  ReservationInv'
<1>1. PICK i \in up : pod.containers[i].kind = "Init" /\ up' = up \ {i}
  BY DEF FinishInit
<1>2. /\ pod # NoPod /\ pod \in PodSpec
      /\ UNCHANGED <<manifest, spend, pod, next, peak>>
  BY <1>1 DEF TypeOK, FinishInit, Startable, config
<1>3. /\ next \in Nat \ {0} /\ peak \in [Resources -> Nat]
      /\ Ordered(pod) /\ Compiles(pod) /\ Affords /\ InOrder /\ AtPeak
  BY <1>2 DEF ReservationInv
<1>4. Started' = Started /\ Affords'
  BY <1>2, <1>3 DEF Started, Affords
<1>5. InOrder'
  BY <1>1, <1>2, <1>3, <1>4 DEF InOrder, Inits
<1>6. up \subseteq Charged(pod) /\ up' \in SUBSET up
  BY <1>1, <1>3 DEF InOrder, Started
<1>7. ASSUME NEW r \in Resources PROVE HeldBy(up, r)' <= peak[r]
  <2>1. HeldBy(up, r)' = HeldBy(up', r)
    BY <1>2 DEF HeldBy
  <2>2. HeldBy(up', r) = Total(pod, up', r) /\ HeldBy(up, r) = Total(pod, up, r)
    BY <1>2, <1>3, <1>6, HeldIsTotal
  <2>3. /\ Total(pod, up', r) \in Nat /\ Total(pod, up, r) \in Nat
        /\ Total(pod, up', r) <= Total(pod, up, r)
    BY <1>2, <1>3, <1>6, TotalFacts
  <2>4. HeldBy(up, r) <= peak[r] /\ peak[r] \in Nat
    BY <1>3 DEF AtPeak
  <2> QED
    BY <2>1, <2>2, <2>3, <2>4
<1>8. AtPeak'
  BY <1>2, <1>3, <1>4, <1>7 DEF AtPeak
<1> QED
  BY <1>2, <1>3, <1>4, <1>5, <1>8 DEF ReservationInv

(* At every moment: what the API server stores was read and paid for, the  *)
(* kubelet has started a prefix of it in order, and the peak bounds it.    *)
THEOREM ReservationInvariant == Spec => []ReservationInv
<1>1. Init => ReservationInv
  BY DEF Init, ReservationInv, node, Nought
<1>2. TypeOK /\ TypeOK' /\ ReservationInv /\ [Next]_vars => ReservationInv'
  <2> SUFFICES ASSUME TypeOK, TypeOK', ReservationInv, [Next]_vars PROVE ReservationInv'
    OBVIOUS
  <2>1. ASSUME UNCHANGED <<config, pod, node>> PROVE ReservationInv'
    <3>1. UNCHANGED <<manifest, spend, pod, up, next, peak>>
      BY <2>1 DEF config, node
    <3> QED
      BY <3>1 DEF ReservationInv, node, Affords, InOrder, Started, Inits, AtPeak, HeldBy
  <2>2. ASSUME NEW spec \in Specs, Create(spec) PROVE ReservationInv'
    <3>1. /\ pod' = spec /\ spec \in PodSpec /\ Ordered(spec) /\ spec # NoPod
          /\ Review(spec) /\ UNCHANGED <<manifest, spend>>
      BY <2>2, WallAssumption DEF Create, config
    <3>2. node = <<{}, 1, Nought>> /\ node' = node
      BY <2>2 DEF Create, ReservationInv
    <3>3. up' = {} /\ next' = 1 /\ peak' = Nought
      BY <3>2 DEF node
    <3>4. Compiles(pod') /\ Affords'
      BY <3>1, ReviewPays DEF Affords
    <3>5. Started' = {}
      BY <3>1, <3>3 DEF Started, Charged, PodSpec
    <3>6. InOrder'
      BY <3>3, <3>5 DEF InOrder, Inits
    <3>7. AtPeak'
      <4>1. ASSUME NEW r \in Resources PROVE HeldBy(up, r)' = 0
        <5>1. HeldBy(up, r)' = SumFunctionOnSet([i \in {} |-> Amount(pod'.containers[i], r)], {})
          BY <3>3 DEF HeldBy
        <5> QED
          BY <5>1, SumStep, FS_EmptySet
      <4> QED
        BY <3>3, <3>5, <4>1 DEF AtPeak, Nought
    <3> QED
      BY <3>1, <3>3, <3>4, <3>6, <3>7 DEF ReservationInv, Nought
  <2>3. ASSUME NEW labels \in Labels, Relabel(labels) PROVE ReservationInv'
    <3>1. /\ pod # NoPod /\ pod \in PodSpec /\ pod' = [pod EXCEPT !.labels = labels]
          /\ Review(pod') /\ UNCHANGED <<manifest, spend>> /\ UNCHANGED node
      BY <2>3 DEF TypeOK, Relabel, config
    <3>2. pod' \in PodSpec /\ pod' # NoPod /\ pod'.containers = pod.containers
      BY <3>1, WallAssumption DEF PodSpec
    <3>3. Compiles(pod') /\ Affords'
      BY <3>1, <3>2, ReviewPays DEF Affords
    <3>4. Charged(pod') = Charged(pod) /\ Ordered(pod')
      BY <3>1, <3>2 DEF Charged, Ordered, ReservationInv
    <3>5. InOrder' /\ AtPeak'
      BY <3>1, <3>2, <3>3, <3>4, SameContainers
    <3> QED
      BY <3>1, <3>2, <3>3, <3>4, <3>5 DEF ReservationInv, node
  <2>4. ASSUME NEW c \in Debuggers, Debug(c) PROVE ReservationInv'
    <3>1. /\ pod # NoPod /\ pod \in PodSpec
          /\ pod' = [pod EXCEPT !.containers = Append(@, c)]
          /\ Review(pod') /\ UNCHANGED <<manifest, spend>> /\ UNCHANGED node
      BY <2>4 DEF TypeOK, Debug, config
    <3>2. c \in Container /\ c.kind = "Ephemeral" /\ pod.containers \in Seq(Container)
      BY <3>1, WallAssumption DEF PodSpec
    <3> DEFINE len == Len(pod.containers)
    <3>3. /\ pod'.containers = Append(pod.containers, c) /\ pod' # NoPod
          /\ pod' \in PodSpec
      <4>1. pod'.containers = Append(pod.containers, c)
        BY <3>1 DEF PodSpec
      <4>2. Append(pod.containers, c) \in Seq(Container)
        BY <3>2
      <4>3. pod' \in PodSpec
        BY <3>1, <4>2 DEF PodSpec
      <4> QED
        BY <4>1, <4>3, WallAssumption
    <3>4. /\ len \in Nat /\ DOMAIN pod.containers = 1..len
          /\ DOMAIN pod'.containers = 1..(len + 1)
          /\ pod'.containers[len + 1] = c
          /\ \A i \in 1..len : pod'.containers[i] = pod.containers[i]
      BY <3>2, <3>3
    <3> HIDE DEF len
    <3>5. Charged(pod') = Charged(pod)
      BY <3>2, <3>4 DEF Charged
    <3>6. Ordered(pod')
      <4>1. Ordered(pod)
        BY <3>1 DEF ReservationInv
      <4>2. \A i \in 1..(len + 1) : Phase(pod'.containers[i]) \in 1..3
        BY DEF Phase
      <4>3. Phase(c) = 3
        BY <3>2 DEF Phase
      <4> SUFFICES ASSUME NEW i \in 1..(len + 1), NEW j \in 1..(len + 1), i < j
                   PROVE  Phase(pod'.containers[i]) <= Phase(pod'.containers[j])
        BY <3>4 DEF Ordered
      <4>4. CASE j = len + 1
        BY <3>4, <4>2, <4>3, <4>4
      <4>5. CASE j # len + 1
        <5>1. i \in 1..len /\ j \in 1..len
          BY <3>4, <4>5
        <5> QED
          BY <3>4, <4>1, <5>1 DEF Ordered
      <4> QED
        BY <4>4, <4>5
    <3>7. Compiles(pod') /\ Affords'
      BY <3>1, <3>3, ReviewPays DEF Affords
    <3>8. \A i \in Charged(pod) : pod'.containers[i] = pod.containers[i]
      BY <3>4 DEF Charged
    <3>9. InOrder' /\ AtPeak'
      BY <3>1, <3>3, <3>5, <3>6, <3>7, <3>8, SameContainers
    <3> QED
      BY <3>1, <3>3, <3>6, <3>7, <3>9 DEF ReservationInv, node
  <2>5. ASSUME Delete PROVE ReservationInv'
    BY <2>5 DEF Delete, ReservationInv, node, Nought
  <2>6. ASSUME StartContainer PROVE ReservationInv'
    BY <2>6, Starting
  <2>7. ASSUME FinishInit PROVE ReservationInv'
    BY <2>7, Finishing
  <2> QED
    BY <2>1, <2>2, <2>3, <2>4, <2>5, <2>6, <2>7
       DEF Next, ChangePolicy, ChangeRole, ChangeBinding, vars
<1> QED
  BY <1>1, <1>2, TypeCorrect, PTL DEF Spec

-------------------------------------------------------------------------------
(* The charge                                                              *)

(* Once a pod runs, everything that is charged has been started, and all   *)
(* of it that is not an init container runs.                               *)
LEMMA SettledMeans ==
    ASSUME TypeOK, ReservationInv, Settled
    PROVE  /\ Started = Charged(pod)
           /\ up = Of(pod, {"App", "Sidecar"})
<1>1. /\ pod # NoPod /\ pod \in PodSpec /\ next \notin Charged(pod) /\ Inits(up) = {}
  BY DEF Settled, TypeOK, Startable, Inits
<1>2. next \in Nat \ {0} /\ Ordered(pod) /\ InOrder
  BY <1>1 DEF ReservationInv
<1> DEFINE len == Len(pod.containers)
<1>3. len \in Nat /\ DOMAIN pod.containers = 1..len
  BY <1>1 DEF PodSpec
<1> HIDE DEF len
<1>4. \A i \in 1..len : pod.containers[i].kind \in Kinds
  <2>1. \A i \in DOMAIN pod.containers : pod.containers[i] \in Container
    BY <1>1 DEF PodSpec
  <2> QED
    BY <1>3, <2>1 DEF Container
<1>5. ASSUME NEW i \in Charged(pod) PROVE i < next
  <2>1. i \in 1..len /\ pod.containers[i].kind # "Ephemeral"
    BY <1>3 DEF Charged
  <2>2. i # next
    BY <1>1
  <2> SUFFICES ASSUME next < i PROVE FALSE
    BY <1>2, <1>3, <2>1, <2>2
  <2>3. next \in 1..len
    BY <1>2, <1>3, <2>1
  <2>4. pod.containers[next].kind = "Ephemeral"
    BY <1>1, <1>3, <2>3 DEF Charged
  <2>5. Phase(pod.containers[next]) = 3 /\ Phase(pod.containers[i]) \in 1..2
    BY <1>4, <2>1, <2>4 DEF Phase, Kinds
  <2>6. Phase(pod.containers[next]) <= Phase(pod.containers[i])
    BY <1>2, <1>3, <2>1, <2>3 DEF Ordered
  <2> QED
    BY <2>5, <2>6
<1>6. Started = Charged(pod)
  BY <1>5 DEF Started
<1>7. Charged(pod) \ Inits(Charged(pod)) = Of(pod, {"App", "Sidecar"})
  BY <1>3, <1>4 DEF Inits, Of, Charged, Kinds
<1>8. up \subseteq Charged(pod) \ Inits(Charged(pod))
  BY <1>1, <1>2, <1>6 DEF InOrder, Inits
<1> QED
  BY <1>2, <1>6, <1>7, <1>8 DEF InOrder

(* A sum that does not fit in a word is charged as the largest word.       *)
LEMMA ChargeCovers ==
    ASSUME NEW spec \in PodSpec, Compiles(spec), NEW r \in Resources,
           EffectiveRequests(spec)[r] # MaxWord
    PROVE  Running(spec, r) <= EffectiveRequests(spec)[r]
<1>1. /\ EffectiveRequests(spec)[r] \in 0..MaxWord
      /\ Running(spec, r) \in Nat
      /\ Saturated(Running(spec, r)) <= EffectiveRequests(spec)[r]
  BY EffectiveIsLargest
<1> QED
  BY <1>1, QuantitiesAssumption DEF Saturated

(* Under no manifest can one pay for as much as a word holds.              *)
Unaffordable ==
    /\ \A s \in Spends : s.configured
    /\ \A f \in Facets : /\ f.budget < Saturated((MaxWord * CorePrice) \div 1000)
                         /\ f.budget < Saturated((MaxWord * GibPrice) \div Gib)

(* What a review let through did not saturate.                             *)
LEMMA PaidFits ==
    ASSUME Unaffordable, TypeOK, ReservationInv, pod # NoPod, NEW r \in Resources
    PROVE  EffectiveRequests(pod)[r] # MaxWord
<1>1. /\ pod \in PodSpec /\ Compiles(pod)
      /\ Price(EffectiveRequests(pod)) <= manifest.budget
  BY DEF TypeOK, ReservationInv, Affords, Unaffordable
<1>2. /\ manifest.budget < Saturated((MaxWord * CorePrice) \div 1000)
      /\ manifest.budget < Saturated((MaxWord * GibPrice) \div Gib)
      /\ manifest.budget \in Nat
  BY WallAssumption, NamesAssumption DEF TypeOK, Unaffordable, Facet
<1> DEFINE cpu    == EffectiveRequests(pod)["cpu"]
           memory == EffectiveRequests(pod)["memory"]
           byCpu    == (cpu * CorePrice) \div 1000
           byMemory == (memory * GibPrice) \div Gib
<1>3. cpu \in 0..MaxWord /\ memory \in 0..MaxWord
  BY <1>1, EffectiveIsLargest DEF Resources
<1>4. Price(EffectiveRequests(pod)) = Saturated(byCpu + byMemory)
  BY DEF Price
<1>5. r = "cpu" \/ r = "memory"
  BY DEF Resources
<1>6. /\ r = "cpu" /\ EffectiveRequests(pod)[r] = MaxWord => cpu = MaxWord
      /\ r = "memory" /\ EffectiveRequests(pod)[r] = MaxWord => memory = MaxWord
  OBVIOUS
<1> HIDE DEF cpu, memory
<1>7. byCpu \in Nat /\ byMemory \in Nat
  BY <1>3, PricesAssumption
<1>8. cpu = MaxWord => byCpu = (MaxWord * CorePrice) \div 1000
  OBVIOUS
<1>9. memory = MaxWord => byMemory = (MaxWord * GibPrice) \div Gib
  OBVIOUS
<1> HIDE DEF byCpu, byMemory
<1>10. Saturated(byCpu) <= Saturated(byCpu + byMemory)
       /\ Saturated(byMemory) <= Saturated(byCpu + byMemory)
  BY <1>7, QuantitiesAssumption DEF Saturated
<1>11. /\ Saturated(byCpu) \in Nat /\ Saturated(byMemory) \in Nat
       /\ Saturated(byCpu + byMemory) \in Nat
  BY <1>7, QuantitiesAssumption DEF Saturated
<1>12. cpu # MaxWord
  BY <1>1, <1>2, <1>4, <1>8, <1>10, <1>11
<1>13. memory # MaxWord
  BY <1>1, <1>2, <1>4, <1>9, <1>10, <1>11
<1> QED
  BY <1>5, <1>6, <1>12, <1>13

(* Without a price list a charge may stop at the largest word; short of    *)
(* that, a pod that has settled holds no more than its charge, and it      *)
(* never held less at its peak.                                            *)
SettlesOrSaturates ==
    Settled => \A r \in Resources :
        /\ EffectiveRequests(pod)[r] # MaxWord => Held(r) <= EffectiveRequests(pod)[r]
        /\ EffectiveRequests(pod)[r] <= peak[r]

(* Both bounds, from the invariant.                                        *)
LEMMA Settles ==
    ASSUME TypeOK, ReservationInv
    PROVE  SettlesOrSaturates
<1> SUFFICES ASSUME Settled, NEW r \in Resources
             PROVE  /\ EffectiveRequests(pod)[r] # MaxWord
                           => Held(r) <= EffectiveRequests(pod)[r]
                    /\ EffectiveRequests(pod)[r] <= peak[r]
  BY DEF SettlesOrSaturates
<1> DEFINE charge == EffectiveRequests(pod)[r]
<1>1. pod # NoPod /\ pod \in PodSpec
  BY DEF Settled, TypeOK
<1>2. Compiles(pod) /\ AtPeak /\ peak[r] \in Nat
  BY <1>1 DEF ReservationInv
<1>3. Started = Charged(pod) /\ up = Of(pod, {"App", "Sidecar"})
  BY SettledMeans
<1>4. up \subseteq Charged(pod)
  BY <1>3 DEF Of
<1>5. Held(r) = Running(pod, r) /\ HeldBy(up, r) = Running(pod, r)
  BY <1>1, <1>2, <1>3, <1>4, HeldIsTotal DEF Held, Running
<1>6. charge # MaxWord => Held(r) <= charge
  BY <1>1, <1>2, <1>5, ChargeCovers
<1>7. CASE charge = Saturated(Running(pod, r))
  <2>1. Running(pod, r) \in Nat
    BY <1>1, <1>2, EffectiveIsLargest
  <2>2. Saturated(Running(pod, r)) <= Running(pod, r) /\ Saturated(Running(pod, r)) \in Nat
    BY <2>1, QuantitiesAssumption DEF Saturated
  <2>3. Running(pod, r) <= peak[r]
    BY <1>2, <1>5 DEF AtPeak
  <2> QED
    BY <1>2, <1>6, <1>7, <2>1, <2>2, <2>3
<1>8. CASE \E i \in Of(pod, {"Init"}) : charge = Asks(pod.containers[i], r)
  <2>1. PICK i \in Of(pod, {"Init"}) : charge = Asks(pod.containers[i], r)
    BY <1>8
  <2>2. i \in Charged(pod)
    BY DEF Of
  <2>3. Amount(pod.containers[i], r) = Asks(pod.containers[i], r)
    BY <1>1, <1>2, <2>2, AsksIsAmount
  <2>4. Amount(pod.containers[i], r) <= peak[r]
    BY <1>2, <1>3, <2>2 DEF AtPeak
  <2> QED
    BY <1>6, <2>1, <2>3, <2>4
<1> QED
  BY <1>1, <1>2, <1>7, <1>8, EffectiveIsLargest

(* With or without a price list, whatever the requests add up to, no       *)
(* settled pod is charged more than it held, nor, short of the largest     *)
(* word, less than it holds (cost.rs, effective_requests).                 *)
THEOREM SettlesHolds == Spec => []SettlesOrSaturates
BY TypeCorrect, ReservationInvariant, Settles, PTL

(* Where every budget is below the price of a word, the pods whose sums    *)
(* saturate are refused for their price, and a settled pod is charged      *)
(* neither less than it holds nor more than it held (effective_requests).  *)
THEOREM ReservationHolds == ASSUME Unaffordable PROVE Spec => []ReservationSettles
<1>1. TypeOK /\ ReservationInv => ReservationSettles
  <2> SUFFICES ASSUME TypeOK, ReservationInv, Settled, NEW r \in Resources
               PROVE  /\ Held(r) <= EffectiveRequests(pod)[r]
                      /\ EffectiveRequests(pod)[r] <= peak[r]
    BY DEF ReservationSettles
  <2>1. EffectiveRequests(pod)[r] # MaxWord
    BY PaidFits DEF Settled
  <2> QED
    BY <2>1, Settles DEF SettlesOrSaturates
<1> QED
  BY <1>1, TypeCorrect, ReservationInvariant, PTL

(* At every other moment one init container may run beside the sidecars;   *)
(* each of the two is within the charge, so effective_requests is never    *)
(* off by more than a factor of two.                                       *)
THEOREM HalfHolds == ASSUME Unaffordable PROVE Spec => []ChargedForHalfAtLeast
<1>1. TypeOK /\ ReservationInv => ChargedForHalfAtLeast
  <2> SUFFICES ASSUME TypeOK, ReservationInv, pod # NoPod, NEW r \in Resources
               PROVE  Held(r) <= 2 * EffectiveRequests(pod)[r]
    BY DEF ChargedForHalfAtLeast
  <2> DEFINE charge == EffectiveRequests(pod)[r]
             rest   == up \ Inits(up)
             kept   == Of(pod, {"App", "Sidecar"})
  <2>1. pod \in PodSpec /\ Compiles(pod) /\ InOrder
    BY DEF TypeOK, ReservationInv
  <2>2. up \subseteq Charged(pod) /\ kept \subseteq Charged(pod)
    BY <2>1 DEF InOrder, Started, Of
  <2>3. Held(r) = Total(pod, up, r)
    BY <2>1, <2>2, HeldIsTotal DEF Held
  <2>4. rest \subseteq kept
    <3>1. \A i \in Charged(pod) : pod.containers[i] \in Container
      BY <2>1 DEF PodSpec, Charged
    <3>2. \A i \in Charged(pod) : pod.containers[i].kind \in Kinds \ {"Ephemeral"}
      BY <3>1 DEF Container, Charged
    <3> QED
      BY <2>2, <3>2 DEF Inits, Of, Kinds
  <2>5. charge \in Nat
    BY <2>1, EffectiveIsLargest, QuantitiesAssumption
  <2>6. Total(pod, rest, r) \in Nat /\ Total(pod, rest, r) <= charge
    <3>1. Running(pod, r) <= charge /\ Running(pod, r) \in Nat
      BY <2>1, PaidFits, ChargeCovers, EffectiveIsLargest
    <3>2. Total(pod, rest, r) \in Nat /\ Total(pod, rest, r) <= Running(pod, r)
      BY <2>1, <2>2, <2>4, TotalFacts DEF Running
    <3> QED
      BY <2>5, <3>1, <3>2
  <2>7. CASE Inits(up) = {}
    BY <2>3, <2>5, <2>6, <2>7
  <2>8. CASE Inits(up) # {}
    <3>1. PICK i \in up : Inits(up) = {i}
      BY <2>1, <2>8 DEF InOrder, Inits
    <3>2. i \in Of(pod, {"Init"}) /\ i \in Charged(pod) \ rest
      BY <2>2, <3>1 DEF Inits, Of
    <3>3. rest \in SUBSET Charged(pod) /\ up = rest \cup {i}
      BY <2>2, <3>1
    <3> HIDE DEF rest
    <3>4. Total(pod, up, r) = Asks(pod.containers[i], r) + Total(pod, rest, r)
      BY <2>1, <3>2, <3>3, TotalFacts
    <3>5. Asks(pod.containers[i], r) <= charge
      BY <2>1, <3>2, EffectiveIsLargest
    <3>6. Asks(pod.containers[i], r) \in Nat
      BY <2>1, <3>2, AsksIsAmount, QuantitiesAssumption
    <3> QED
      BY <2>3, <2>5, <2>6, <3>4, <3>5, <3>6
  <2> QED
    BY <2>7, <2>8
<1> QED
  BY <1>1, TypeCorrect, ReservationInvariant, PTL

-------------------------------------------------------------------------------
(* Asking for more                                                         *)

(* What `less` charges for, `more` has at the same place, of the same kind *)
(* and asking for no less.                                                 *)
AsksNoMore(less, more) ==
    \A i \in Charged(less) :
        /\ i \in Charged(more)
        /\ less.containers[i].kind = more.containers[i].kind
        /\ \A r \in Resources :
              Asks(less.containers[i], r) <= Asks(more.containers[i], r)

(* A price per unit, rounded down, keeps the order.                        *)
LEMMA ScaledGrows ==
    ASSUME NEW m \in Nat, NEW n \in Nat, m <= n, NEW p \in Nat, NEW d \in Nat \ {0}
    PROVE  (m * p) \div d <= (n * p) \div d
<1>1. ASSUME NEW x \in Nat, NEW y \in Nat, x <= y PROVE x \div d <= y \div d
  BY <1>1
<1>2. PICK k \in Nat : n = m + k
  <2>1. n - m \in Nat /\ n = m + (n - m)
    OBVIOUS
  <2> QED
    BY <2>1
<1>3. n * p = m * p + k * p
  BY <1>2
<1>4. m * p \in Nat /\ n * p \in Nat /\ k * p \in Nat
  BY <1>2
<1>5. m * p <= n * p
  BY <1>3, <1>4
<1> QED
  BY <1>1, <1>4, <1>5

(* The sum over the same kinds is no larger.                               *)
LEMMA RunningBelow ==
    ASSUME NEW less \in PodSpec, NEW more \in PodSpec, Compiles(less), Compiles(more),
           AsksNoMore(less, more), NEW r \in Resources
    PROVE  Running(less, r) <= Running(more, r)
<1> DEFINE few  == Of(less, {"App", "Sidecar"})
           many == Of(more, {"App", "Sidecar"})
           f    == [i \in few |-> Asks(less.containers[i], r)]
           g    == [i \in few |-> Asks(more.containers[i], r)]
<1>1. /\ few \in SUBSET Charged(less) /\ many \in SUBSET Charged(more)
      /\ few \in SUBSET many
  BY DEF Of, AsksNoMore
<1>2. \A i \in few : f[i] \in Nat /\ g[i] \in Nat /\ f[i] <= g[i]
  BY <1>1, AsksIsAmount, QuantitiesAssumption DEF AsksNoMore
<1>3. /\ Running(less, r) = SumFunctionOnSet(f, few)
      /\ Total(more, few, r) = SumFunctionOnSet(g, few)
      /\ Running(more, r) = Total(more, many, r)
  BY DEF Running, Total
<1>4. IsFiniteSet(few)
  BY <1>1, ChargedFinite
<1> HIDE DEF few, many, f, g
<1>5. SumFunctionOnSet(f, few) <= SumFunctionOnSet(g, few)
      /\ SumFunctionOnSet(f, few) \in Nat
  BY <1>2, <1>4, SumBelow, SumType
<1>6. /\ Total(more, few, r) <= Total(more, many, r)
      /\ Total(more, few, r) \in Nat /\ Total(more, many, r) \in Nat
  BY <1>1, TotalFacts
<1> QED
  BY <1>3, <1>5, <1>6

(* A spec that asks for more is never charged or priced less: neither a    *)
(* saturated sum, nor the larger of two sums, nor a price that is rounded  *)
(* down per resource turns the order round (cost.rs, effective_requests    *)
(* and price).                                                             *)
THEOREM MoreIsCharged ==
    ASSUME NEW less \in PodSpec, NEW more \in PodSpec, Compiles(less), Compiles(more),
           AsksNoMore(less, more)
    PROVE  /\ \A r \in Resources :
                  EffectiveRequests(less)[r] <= EffectiveRequests(more)[r]
           /\ Price(EffectiveRequests(less)) <= Price(EffectiveRequests(more))
<1>1. ASSUME NEW spec \in {less, more}, NEW r \in Resources
      PROVE  EffectiveRequests(spec)[r] \in Nat
  BY EffectiveIsLargest, QuantitiesAssumption
<1>2. ASSUME NEW r \in Resources
      PROVE  EffectiveRequests(less)[r] <= EffectiveRequests(more)[r]
  <2>1. /\ EffectiveRequests(less)[r] \in Nat /\ EffectiveRequests(more)[r] \in Nat
        /\ Running(less, r) \in Nat /\ Running(more, r) \in Nat
        /\ Saturated(Running(more, r)) <= EffectiveRequests(more)[r]
    BY <1>1, EffectiveIsLargest
  <2>2. CASE EffectiveRequests(less)[r] = Saturated(Running(less, r))
    <3>1. Saturated(Running(less, r)) <= Saturated(Running(more, r))
      BY <2>1, RunningBelow, QuantitiesAssumption DEF Saturated
    <3>2. Saturated(Running(less, r)) \in Nat /\ Saturated(Running(more, r)) \in Nat
      BY <2>1, QuantitiesAssumption DEF Saturated
    <3> QED
      BY <2>1, <2>2, <3>1, <3>2
  <2>3. CASE \E i \in Of(less, {"Init"}) :
                EffectiveRequests(less)[r] = Asks(less.containers[i], r)
    <3>1. PICK i \in Of(less, {"Init"}) :
                EffectiveRequests(less)[r] = Asks(less.containers[i], r)
      BY <2>3
    <3>2. i \in Charged(less) /\ i \in Charged(more) /\ i \in Of(more, {"Init"})
      BY DEF Of, AsksNoMore
    <3>3. Asks(less.containers[i], r) <= Asks(more.containers[i], r)
      BY <3>2 DEF AsksNoMore
    <3>4. Asks(more.containers[i], r) <= EffectiveRequests(more)[r]
      BY <3>2, EffectiveIsLargest
    <3>5. Asks(more.containers[i], r) \in Nat
      BY <3>2, AsksIsAmount, QuantitiesAssumption
    <3> QED
      BY <2>1, <3>1, <3>3, <3>4, <3>5
  <2> QED
    BY <2>2, <2>3, EffectiveIsLargest
<1> DEFINE c == EffectiveRequests(less)
           d == EffectiveRequests(more)
<1>3. /\ c["cpu"] \in Nat /\ d["cpu"] \in Nat /\ c["cpu"] <= d["cpu"]
      /\ c["memory"] \in Nat /\ d["memory"] \in Nat /\ c["memory"] <= d["memory"]
  BY <1>1, <1>2 DEF Resources
<1> HIDE DEF c, d
<1>4. (c["cpu"] * CorePrice) \div 1000 <= (d["cpu"] * CorePrice) \div 1000
  BY <1>3, ScaledGrows, PricesAssumption
<1>5. (c["memory"] * GibPrice) \div Gib <= (d["memory"] * GibPrice) \div Gib
  BY <1>3, ScaledGrows, PricesAssumption
<1>6. /\ (c["cpu"] * CorePrice) \div 1000 \in Nat
      /\ (d["cpu"] * CorePrice) \div 1000 \in Nat
      /\ (c["memory"] * GibPrice) \div Gib \in Nat
      /\ (d["memory"] * GibPrice) \div Gib \in Nat
  BY <1>3, PricesAssumption
<1>7. Price(c) <= Price(d)
  BY <1>4, <1>5, <1>6, QuantitiesAssumption DEF Price, Saturated
<1> QED
  BY <1>2, <1>7 DEF c, d

(* What a pod is charged for was decided when it was created: relabelling  *)
(* it and debugging it are reviewed again, at the same charge.             *)
ChargeStays ==
    pod # NoPod /\ pod' # NoPod =>
        EffectiveRequests(pod') = EffectiveRequests(pod)

(* effective_requests counts no ephemeral container and no label, so that  *)
(* an UPDATE or a debug container is held to the price of the creation.    *)
THEOREM ChargeIsSettled == Spec => [][ChargeStays]_vars
<1>1. TypeOK /\ TypeOK' /\ ReservationInv /\ ReservationInv' /\ [Next]_vars => ChargeStays
  <2> SUFFICES ASSUME TypeOK, TypeOK', ReservationInv, ReservationInv', [Next]_vars,
                      pod # NoPod, pod' # NoPod, pod' # pod
               PROVE  EffectiveRequests(pod') = EffectiveRequests(pod)
    BY DEF ChargeStays
  <2>1. pod \in PodSpec /\ pod' \in PodSpec /\ Compiles(pod) /\ Compiles(pod')
    BY DEF TypeOK, ReservationInv
  <2>2. /\ Charged(pod') = Charged(pod)
        /\ \A i \in Charged(pod) : pod'.containers[i] = pod.containers[i]
    <3>1. CASE \E labels \in Labels : Relabel(labels)
      <4>1. pod'.containers = pod.containers
        BY <2>1, <3>1 DEF Relabel, PodSpec
      <4> QED
        BY <4>1 DEF Charged
    <3>2. CASE \E c \in Debuggers : Debug(c)
      <4>1. PICK c \in Debuggers : Debug(c)
        BY <3>2
      <4>2. c.kind = "Ephemeral" /\ pod.containers \in Seq(Container) /\ c \in Container
        BY <2>1, WallAssumption DEF PodSpec
      <4>3. pod'.containers = Append(pod.containers, c)
        BY <2>1, <4>1 DEF Debug, PodSpec
      <4> DEFINE len == Len(pod.containers)
      <4>4. /\ len \in Nat /\ DOMAIN pod.containers = 1..len
            /\ DOMAIN pod'.containers = 1..(len + 1)
            /\ pod'.containers[len + 1] = c
            /\ \A i \in 1..len : pod'.containers[i] = pod.containers[i]
        BY <4>2, <4>3
      <4> HIDE DEF len
      <4> QED
        BY <4>2, <4>4 DEF Charged
    <3>3. CASE ~(\E labels \in Labels : Relabel(labels)) /\ ~(\E c \in Debuggers : Debug(c))
      <4>1. UNCHANGED pod
        BY <3>3 DEF Next, ChangePolicy, ChangeRole, ChangeBinding, Create, Delete,
                    StartContainer, FinishInit, config, vars
      <4> QED
        BY <4>1
    <3> QED
      BY <3>1, <3>2, <3>3
  <2>3. \A i \in Charged(pod) : \A r \in Resources :
            /\ Asks(pod.containers[i], r) \in Nat
            /\ Asks(pod'.containers[i], r) = Asks(pod.containers[i], r)
    BY <2>1, <2>2, AsksIsAmount, QuantitiesAssumption
  <2>4. AsksNoMore(pod, pod') /\ AsksNoMore(pod', pod)
    BY <2>2, <2>3 DEF AsksNoMore
  <2>5. ASSUME NEW r \in Resources
        PROVE  EffectiveRequests(pod')[r] = EffectiveRequests(pod)[r]
    <3>1. /\ EffectiveRequests(pod)[r] <= EffectiveRequests(pod')[r]
          /\ EffectiveRequests(pod')[r] <= EffectiveRequests(pod)[r]
      BY <2>1, <2>4, MoreIsCharged
    <3>2. EffectiveRequests(pod)[r] \in Nat /\ EffectiveRequests(pod')[r] \in Nat
      BY <2>1, EffectiveIsLargest, QuantitiesAssumption
    <3> QED
      BY <3>1, <3>2
  <2>6. /\ EffectiveRequests(pod) = [r \in Resources |-> EffectiveRequests(pod)[r]]
        /\ EffectiveRequests(pod') = [r \in Resources |-> EffectiveRequests(pod')[r]]
    BY DEF EffectiveRequests
  <2> QED
    BY <2>5, <2>6
<1> QED
  BY <1>1, TypeCorrect, ReservationInvariant, PTL DEF Spec
================================================================================
