----------------------------- MODULE CachesProofs -----------------------------
(* Proofs about Caches, for any kinds, reviews, versions and lives.        *)
EXTENDS Caches, TLAPS

(* The flags and the stores are apart from each other: what links them is  *)
(* that the flag comes after the list, and is cleared with the store.      *)
ReadyInv == \A k \in Kinds : ready[k] => store[k] # Unlisted

(* Nothing that was read is newer than what its store holds, than what a   *)
(* list in progress will put there, or than the cluster.                   *)
FloorInv ==
    \A k \in Kinds :
        /\ store[k] <= version[k]
        /\ stream[k].at = "watching" => store[k] # Unlisted
        /\ stream[k].at = "listing" =>
              store[k] <= stream[k].version /\ stream[k].version <= version[k]
        /\ \A q \in Reviews :
              /\ snapshot[q][k] <= version[k]
              /\ stream[k].at = "listing" => snapshot[q][k] <= stream[k].version
              /\ store[k] # Unlisted => snapshot[q][k] <= store[k]

(* How far a handler is.                                                   *)
GateInv ==
    \A r \in Reviews :
        /\ pc[r] = "idle" => step[r] = 1 /\ ~cold[r]
        /\ pc[r] = "gate" /\ ~cold[r] =>
              \A i \in 1..Len(Order) : i < step[r] => ready[Order[i]]
        /\ pc[r] = "read" =>
              step[r] \in 1..Len(Order) /\ \A k \in Kinds : ready[k]

(* What a handler has read so far is listed, and not older than what the   *)
(* reviews decided before it were based on.                                *)
ReadInv ==
    \A r \in Reviews :
        /\ \A q \in earlier[r] : pc[q] = "decided"
        /\ pc[r] = "read" =>
              \A i \in 1..Len(Order) : i < step[r] =>
                 /\ snapshot[r][Order[i]] # Unlisted
                 /\ \A q \in earlier[r] :
                       snapshot[q][Order[i]] <= snapshot[r][Order[i]]

IInv == /\ TypeOK
        /\ ReadyInv
        /\ FloorInv
        /\ GateInv
        /\ ReadInv
        /\ DecidesOnListed
        /\ NeverBackwards

-------------------------------------------------------------------------------
LEMMA KindsFacts ==
    /\ DOMAIN Order = 1..Len(Order)
    /\ Len(Order) \in Nat
    /\ Len(Order) >= 1
    /\ \A i \in 1..Len(Order) : Order[i] \in Kinds
    /\ \A k \in Kinds : \E i \in 1..Len(Order) : k = Order[i]
    /\ Manifest \in Kinds
PROOF BY OrderAssumption DEF Kinds, Manifest

LEMMA StreamFacts ==
    ASSUME NEW s \in Streams
    PROVE  /\ s.at \in {"down", "watching", "listing"}
           /\ s.version \in Versions \cup {Unlisted}
           /\ s.at = "listing" => s.version \in Versions /\ s = Listing(s.version)
           /\ s = Down <=> s.at = "down"
           /\ s = Watching <=> s.at = "watching"
PROOF BY DEF Streams, Listing, Down, Watching, Unlisted

LEMMA VersionFacts ==
    /\ MaxVersion \in Nat
    /\ Unlisted \notin Versions
    /\ \A v \in Versions : v \in Int /\ 0 <= v /\ v <= MaxVersion
    /\ \A v \in Versions \cup {Unlisted} : v \in Int /\ Unlisted <= v
    /\ \A v, w \in Versions \cup {Unlisted} : v < w => v + 1 \in Versions
PROOF BY BoundsAssumption DEF Versions, Unlisted

LEMMA TypeInit == Init => TypeOK
<1> SUFFICES ASSUME Init PROVE TypeOK
  OBVIOUS
<1>1. 0 \in Versions /\ 0 \in 0..MaxLives /\ 1 \in 1..Len(Order) + 1
  BY BoundsAssumption, KindsFacts DEF Versions
<1>2. version \in [Kinds -> Versions] /\ pasts \subseteq [Kinds -> Versions]
  BY <1>1 DEF Init
<1>3. NothingRead \in [Kinds -> Versions \cup {Unlisted}]
  BY DEF NothingRead
<1>4. Down \in Streams
  BY DEF Streams
<1> QED BY <1>1, <1>2, <1>3, <1>4 DEF Init, TypeOK

LEMMA TypeStep == TypeOK /\ GateInv /\ [Next]_vars => TypeOK'
<1> SUFFICES ASSUME TypeOK, GateInv, [Next]_vars PROVE TypeOK'
  OBVIOUS
<1> USE DEF TypeOK
<1>1. ASSUME NEW k \in Kinds, Change(k) PROVE TypeOK'
  <2>1. version[k] + 1 \in Versions
    BY <1>1, VersionFacts DEF Change, Versions
  <2>2. version' \in [Kinds -> Versions]
    BY <1>1, <2>1 DEF Change
  <2>3. pasts' \subseteq [Kinds -> Versions]
    BY <1>1, <2>2 DEF Change
  <2>4. UNCHANGED <<caches, handler>>
    BY <1>1 DEF Change
  <2> QED BY <2>2, <2>3, <2>4 DEF caches, handler
<1>2. ASSUME NEW k \in Kinds, Reflect(k) PROVE TypeOK'
  <2>1. CASE StartList(k)
    BY <2>1 DEF StartList, cluster, handler, Streams
  <2>2. CASE FinishList(k)
    <3>1. stream[k].version \in Versions
      BY <2>2, StreamFacts DEF FinishList
    <3> QED BY <2>2, <3>1 DEF FinishList, cluster, handler, Streams
  <2>3. CASE Rewatch(k)
    BY <2>3 DEF Rewatch, cluster, handler, Streams
  <2>4. CASE Event(k)
    <3>1. store[k] + 1 \in Versions
      BY <2>4, VersionFacts DEF Event
    <3> QED BY <2>4, <3>1 DEF Event, cluster, handler
  <2>5. CASE Warm(k)
    BY <2>5 DEF Warm, cluster, handler
  <2> QED BY <1>2, <2>1, <2>2, <2>3, <2>4, <2>5 DEF Reflect
<1>3. ASSUME NEW k \in Kinds, StreamError(k) PROVE TypeOK'
  BY <1>3 DEF StreamError, cluster, handler, Streams
<1>4. ASSUME NEW r \in Reviews, Arrive(r) PROVE TypeOK'
  BY <1>4 DEF Arrive, cluster, caches
<1>5. ASSUME NEW r \in Reviews, Gate(r) PROVE TypeOK'
  <2>1. CASE step[r] <= Len(Order)
    <3>1. step[r] + 1 \in 1..Len(Order) + 1
      BY <2>1, KindsFacts
    <3>2. Order[step[r]] \in Kinds
      BY <2>1, KindsFacts
    <3> QED BY <1>5, <2>1, <3>1, <3>2 DEF Gate, cluster, caches
  <2>2. CASE ~(step[r] <= Len(Order))
    <3>1. 1 \in 1..Len(Order) + 1
      BY KindsFacts
    <3> QED BY <1>5, <2>2, <3>1 DEF Gate, cluster, caches
  <2> QED BY <2>1, <2>2
<1>6. ASSUME NEW r \in Reviews, Read(r) PROVE TypeOK'
  <2>1. step[r] + 1 \in 1..Len(Order) + 1 /\ Order[step[r]] \in Kinds
    BY <1>6, KindsFacts DEF Read, GateInv
  <2> DEFINE k == Order[step[r]]
  <2>2. CASE k = Manifest /\ ~Governed(r)
    <3>1. /\ pc' = [pc EXCEPT ![r] = "failed"]
          /\ UNCHANGED <<cluster, caches, step, cold, snapshot, earlier>>
      BY <1>6, <2>2 DEF Read
    <3> QED BY <3>1 DEF cluster, caches
  <2>3. CASE ~(k = Manifest /\ ~Governed(r))
    <3>1. /\ snapshot' = [snapshot EXCEPT ![r][k] = store[k]]
          /\ step' = [step EXCEPT ![r] = @ + 1]
          /\ pc' = [pc EXCEPT ![r] = IF step[r] = Len(Order)
                                     THEN "decided" ELSE "read"]
          /\ UNCHANGED <<cluster, caches, cold, earlier>>
      BY <1>6, <2>3 DEF Read
    <3>2. snapshot' \in [Reviews -> [Kinds -> Versions \cup {Unlisted}]]
      BY <2>1, <3>1
    <3> QED BY <2>1, <3>1, <3>2 DEF cluster, caches
  <2> QED BY <2>2, <2>3
<1>7. CASE Start
  <2>1. life + 1 \in 0..MaxLives
    BY <1>7, BoundsAssumption DEF Start
  <2> QED BY <1>7, <2>1 DEF Start, cluster, Streams
<1>8. CASE UNCHANGED vars
  BY <1>8 DEF vars, cluster, caches, handler
<1> QED BY <1>1, <1>2, <1>3, <1>4, <1>5, <1>6, <1>7, <1>8 DEF Next, Handle

-------------------------------------------------------------------------------
(* The steps of the caches leave the handlers alone, so they can only      *)
(* disturb what links a flag, a store and a stream.                        *)
LEMMA CachesStep ==
    ASSUME IInv, NEW k \in Kinds, Change(k) \/ Reflect(k) \/ StreamError(k)
    PROVE  (ReadyInv /\ FloorInv /\ GateInv /\ ReadInv
               /\ DecidesOnListed /\ NeverBackwards)'
<1> USE DEF IInv
<1>1. UNCHANGED handler
  BY DEF Change, Reflect, StartList, FinishList, Rewatch, Event, Warm, StreamError
<1>2. UNCHANGED <<pc, step, cold, snapshot, earlier>>
  BY <1>1 DEF handler
<1>3. ReadInv' /\ DecidesOnListed' /\ NeverBackwards'
  BY <1>2 DEF ReadInv, DecidesOnListed, NeverBackwards
<1>4. /\ \A j \in Kinds : ready[j] => ready'[j]
      /\ \A j \in Kinds : ready'[j] => store'[j] # Unlisted
  <2>1. CASE Change(k)
    BY <2>1 DEF Change, caches, ReadyInv
  <2>2. CASE StartList(k)
    BY <2>2 DEF StartList, ReadyInv
  <2>3. CASE FinishList(k)
    <3>1. stream[k].version \in Versions
      BY <2>3, StreamFacts DEF FinishList, TypeOK
    <3> QED BY <2>3, <3>1, VersionFacts DEF FinishList, ReadyInv, TypeOK
  <2>4. CASE Rewatch(k)
    BY <2>4 DEF Rewatch, ReadyInv
  <2>5. CASE Event(k)
    <3>1. store[k] + 1 \in Versions
      BY <2>5, VersionFacts DEF Event, TypeOK
    <3> QED BY <2>5, <3>1, VersionFacts DEF Event, ReadyInv, TypeOK
  <2>6. CASE Warm(k)
    BY <2>6 DEF Warm, ReadyInv, TypeOK
  <2>7. CASE StreamError(k)
    BY <2>7 DEF StreamError, ReadyInv
  <2> QED BY <2>1, <2>2, <2>3, <2>4, <2>5, <2>6, <2>7 DEF Reflect
<1>5. GateInv'
  BY <1>2, <1>4, KindsFacts DEF GateInv
<1>6. ReadyInv'
  BY <1>4 DEF ReadyInv
<1>7. FloorInv'
  <2> USE DEF TypeOK, FloorInv
  <2>0. /\ \A q \in Reviews, j \in Kinds :
              snapshot[q][j] \in Int /\ Unlisted <= snapshot[q][j]
        /\ \A j \in Kinds : store[j] \in Int /\ version[j] \in Int
        /\ \A j \in Kinds : store[j] \in Versions \cup {Unlisted}
        /\ \A j \in Kinds : version[j] \in Versions
        /\ \A j \in Kinds : stream[j] \in Streams
    BY VersionFacts
  <2>1. CASE Change(k)
    <3>1. /\ version' = [version EXCEPT ![k] = version[k] + 1]
          /\ UNCHANGED <<stream, store, snapshot>>
      BY <2>1, <1>2 DEF Change, caches
    <3>2. \A j \in Kinds : version'[j] \in Int /\ version[j] <= version'[j]
      BY <3>1, <2>0
    <3> QED BY <3>1, <3>2, <2>0, StreamFacts, VersionFacts
  <2>2. CASE StartList(k)
    <3>1. /\ stream' = [stream EXCEPT ![k] = Listing(version[k])]
          /\ UNCHANGED <<version, store, snapshot>>
      BY <2>2, <1>2 DEF StartList, cluster
    <3>2. stream'[k].version = version[k] /\ stream'[k].at = "listing"
      BY <3>1 DEF Listing
    <3>3. \A j \in Kinds : j # k => stream'[j] = stream[j]
      BY <3>1
    <3> QED BY <3>1, <3>2, <3>3, <2>0
  <2>3. CASE FinishList(k)
    <3>1. /\ stream[k].at = "listing"
          /\ stream' = [stream EXCEPT ![k] = Watching]
          /\ store' = [store EXCEPT ![k] = stream[k].version]
          /\ UNCHANGED <<version, snapshot>>
      BY <2>3, <1>2 DEF FinishList, cluster
    <3>2. stream'[k].at = "watching"
      BY <3>1 DEF Watching
    <3>3. /\ store'[k] = stream[k].version
          /\ stream[k].version \in Versions
          /\ stream[k].version # Unlisted
      BY <3>1, <2>0, StreamFacts, VersionFacts
    <3>4. \A j \in Kinds : j # k => stream'[j] = stream[j] /\ store'[j] = store[j]
      BY <3>1
    <3> QED BY <3>1, <3>2, <3>3, <3>4, <2>0
  <2>4. CASE Rewatch(k)
    <3>1. /\ stream' = [stream EXCEPT ![k] = Watching]
          /\ store[k] # Unlisted
          /\ UNCHANGED <<version, store, snapshot>>
      BY <2>4, <1>2 DEF Rewatch, cluster
    <3>2. stream'[k].at = "watching" /\ \A j \in Kinds : j # k => stream'[j] = stream[j]
      BY <3>1 DEF Watching
    <3> QED BY <3>1, <3>2
  <2>5. CASE Event(k)
    <3>1. /\ stream[k] = Watching
          /\ store[k] < version[k]
          /\ store' = [store EXCEPT ![k] = store[k] + 1]
          /\ UNCHANGED <<version, stream, snapshot>>
      BY <2>5, <1>2 DEF Event, cluster
    <3>2. stream[k].at = "watching" /\ store[k] # Unlisted
      BY <3>1 DEF Watching
    <3>3. store[k] + 1 # Unlisted
      BY <2>0, <3>1, VersionFacts
    <3>4. store'[k] = store[k] + 1 /\ \A j \in Kinds : j # k => store'[j] = store[j]
      BY <3>1
    <3> QED BY <3>1, <3>2, <3>3, <3>4, <2>0
  <2>6. CASE Warm(k)
    BY <2>6, <1>2 DEF Warm, cluster
  <2>7. CASE StreamError(k)
    <3>1. /\ stream' = [stream EXCEPT ![k] = Down]
          /\ UNCHANGED <<version, store, snapshot>>
      BY <2>7, <1>2 DEF StreamError, cluster
    <3>2. stream'[k].at = "down" /\ \A j \in Kinds : j # k => stream'[j] = stream[j]
      BY <3>1 DEF Down
    <3> QED BY <3>1, <3>2
  <2> QED BY <2>1, <2>2, <2>3, <2>4, <2>5, <2>6, <2>7 DEF Reflect
<1> QED BY <1>3, <1>5, <1>6, <1>7

(* The steps of a handler leave the caches alone.                          *)
LEMMA HandlerStep ==
    ASSUME IInv, NEW r \in Reviews, Arrive(r) \/ Handle(r)
    PROVE  (ReadyInv /\ FloorInv /\ GateInv /\ ReadInv
               /\ DecidesOnListed /\ NeverBackwards)'
<1> USE DEF IInv
<1>0. /\ \A q \in Reviews, j \in Kinds : snapshot[q][j] \in Int
      /\ \A j \in Kinds : store[j] \in Int /\ version[j] \in Int
      /\ \A q \in Reviews : step[q] \in Int /\ earlier[q] \subseteq Reviews
      /\ Len(Order) \in Nat
  BY VersionFacts, KindsFacts DEF TypeOK
<1>1. CASE Arrive(r)
  <2>1. /\ pc[r] = "idle"
        /\ pc' = [pc EXCEPT ![r] = "gate"]
        /\ earlier' = [earlier EXCEPT ![r] = {q \in Reviews : pc[q] = "decided"}]
        /\ UNCHANGED <<version, stream, store, ready, step, cold, snapshot>>
    BY <1>1 DEF Arrive, cluster, caches
  <2>2. /\ pc'[r] = "gate" /\ earlier'[r] = {q \in Reviews : pc[q] = "decided"}
        /\ \A q \in Reviews : q # r => pc'[q] = pc[q] /\ earlier'[q] = earlier[q]
    BY <2>1 DEF TypeOK
  <2>3. ReadyInv' /\ FloorInv'
    BY <2>1 DEF ReadyInv, FloorInv
  <2>4. GateInv'
    BY <2>1, <2>2, <1>0 DEF GateInv
  <2>5. ReadInv' /\ DecidesOnListed' /\ NeverBackwards'
    BY <2>1, <2>2 DEF ReadInv, DecidesOnListed, NeverBackwards
  <2> QED BY <2>3, <2>4, <2>5
<1>2. CASE Gate(r)
  <2>1. /\ pc[r] = "gate"
        /\ UNCHANGED <<version, stream, store, ready, snapshot, earlier>>
    BY <1>2 DEF Gate, cluster, caches
  <2>2. ReadyInv' /\ FloorInv'
    BY <2>1 DEF ReadyInv, FloorInv
  <2>3. CASE step[r] <= Len(Order)
    <3>1. /\ step' = [step EXCEPT ![r] = step[r] + 1]
          /\ cold' = [cold EXCEPT ![r] = cold[r] \/ ~ready[Order[step[r]]]]
          /\ pc' = pc
      BY <1>2, <2>3 DEF Gate
    <3>2. /\ step'[r] = step[r] + 1
          /\ ~cold'[r] => ~cold[r] /\ ready[Order[step[r]]]
          /\ \A q \in Reviews : q # r => step'[q] = step[q] /\ cold'[q] = cold[q]
      BY <3>1 DEF TypeOK
    <3>3. \A i \in Int : i < step[r] + 1 => i < step[r] \/ i = step[r]
      BY <1>0
    <3>4. GateInv'
      <4> SUFFICES ASSUME NEW q \in Reviews
                   PROVE  (/\ pc[q] = "idle" => step[q] = 1 /\ ~cold[q]
                           /\ pc[q] = "gate" /\ ~cold[q] =>
                                 \A i \in 1..Len(Order) :
                                    i < step[q] => ready[Order[i]]
                           /\ pc[q] = "read" =>
                                 /\ step[q] \in 1..Len(Order)
                                 /\ \A k \in Kinds : ready[k])'
        BY <2>1 DEF GateInv
      <4>1. CASE q # r
        BY <4>1, <2>1, <3>1, <3>2 DEF GateInv
      <4>2. CASE q = r
        BY <4>2, <2>1, <3>1, <3>2, <3>3 DEF GateInv
      <4> QED BY <4>1, <4>2
    <3>5. ReadInv' /\ DecidesOnListed' /\ NeverBackwards'
      BY <2>1, <3>1, <3>2 DEF ReadInv, DecidesOnListed, NeverBackwards
    <3> QED BY <2>2, <3>4, <3>5
  <2>4. CASE ~(step[r] <= Len(Order))
    <3>1. /\ pc' = [pc EXCEPT ![r] = IF cold[r] THEN "failed" ELSE "read"]
          /\ step' = [step EXCEPT ![r] = 1]
          /\ cold' = cold
      BY <1>2, <2>4 DEF Gate
    <3>2. /\ pc'[r] = IF cold[r] THEN "failed" ELSE "read"
          /\ step'[r] = 1
          /\ \A q \in Reviews : q # r => step'[q] = step[q] /\ pc'[q] = pc[q]
      BY <3>1 DEF TypeOK
    <3>3. ASSUME ~cold[r], NEW k \in Kinds PROVE ready[k]
      <4>1. PICK i \in 1..Len(Order) : k = Order[i]
        BY KindsFacts
      <4>2. i < step[r]
        BY <2>4, <1>0
      <4> QED BY <2>1, <3>3, <4>1, <4>2 DEF GateInv
    <3>4. GateInv'
      BY <2>1, <3>1, <3>2, <3>3, KindsFacts DEF GateInv
    <3>5. /\ \A i \in 1..Len(Order) : ~(i < 1)
          /\ pc'[r] # "decided"
      BY <3>2, <1>0
    <3>6. \A q \in Reviews : pc[q] = "decided" <=> pc'[q] = "decided"
      BY <2>1, <3>2, <3>5
    <3>7. ReadInv' /\ DecidesOnListed' /\ NeverBackwards'
      BY <1>0, <2>1, <3>2, <3>5, <3>6 DEF ReadInv, DecidesOnListed, NeverBackwards
    <3> QED BY <2>2, <3>4, <3>7
  <2> QED BY <2>3, <2>4
<1>3. CASE Read(r)
  <2> DEFINE k == Order[step[r]]
  <2>1. /\ pc[r] = "read"
        /\ step[r] \in 1..Len(Order)
        /\ k \in Kinds
        /\ ready[k] /\ store[k] # Unlisted
        /\ UNCHANGED <<version, stream, store, ready, cold, earlier>>
    BY <1>3, KindsFacts DEF Read, cluster, caches, GateInv, ReadyInv
  <2>2. CASE k = Manifest /\ ~Governed(r)
    <3>1. pc' = [pc EXCEPT ![r] = "failed"] /\ UNCHANGED <<step, snapshot>>
      BY <1>3, <2>2 DEF Read
    <3>2. pc'[r] = "failed" /\ \A q \in Reviews : q # r => pc'[q] = pc[q]
      BY <3>1 DEF TypeOK
    <3>3. \A q \in Reviews : pc[q] = "decided" <=> pc'[q] = "decided"
      BY <2>1, <3>2
    <3>4. ReadyInv' /\ FloorInv' /\ GateInv'
      BY <2>1, <3>1, <3>2 DEF ReadyInv, FloorInv, GateInv
    <3>5. ReadInv' /\ DecidesOnListed' /\ NeverBackwards'
      BY <2>1, <3>1, <3>2, <3>3 DEF ReadInv, DecidesOnListed, NeverBackwards
    <3> QED BY <3>4, <3>5
  <2>3. CASE ~(k = Manifest /\ ~Governed(r))
    <3>1. /\ snapshot' = [snapshot EXCEPT ![r][k] = store[k]]
          /\ step' = [step EXCEPT ![r] = step[r] + 1]
          /\ pc' = [pc EXCEPT ![r] = IF step[r] = Len(Order)
                                     THEN "decided" ELSE "read"]
      BY <1>3, <2>3 DEF Read
    <3>2. /\ pc'[r] = IF step[r] = Len(Order) THEN "decided" ELSE "read"
          /\ step'[r] = step[r] + 1
          /\ \A q \in Reviews :
                q # r => /\ pc'[q] = pc[q] /\ step'[q] = step[q]
                         /\ snapshot'[q] = snapshot[q]
          /\ snapshot'[r][k] = store[k]
          /\ \A j \in Kinds : j # k => snapshot'[r][j] = snapshot[r][j]
      BY <3>1, <2>1 DEF TypeOK
    <3>3. \A q \in Reviews : pc[q] = "decided" => q # r /\ pc'[q] = "decided"
      BY <2>1, <3>2
    <3>4. \A i \in 1..Len(Order) : i < step[r] + 1 =>
             i < step[r] \/ i = step[r]
      BY <1>0
    <3>5. ReadyInv' /\ FloorInv'
      <4>1. ReadyInv'
        BY <2>1 DEF ReadyInv
      <4>2. \A q \in Reviews, j \in Kinds :
               snapshot'[q][j] = snapshot[q][j] \/ (j = k /\ snapshot'[q][j] = store[j])
        BY <3>2
      <4>3. FloorInv'
        BY <4>2, <2>1, <1>0 DEF FloorInv
      <4> QED BY <4>1, <4>3
    <3>6. GateInv'
      <4>1. step[r] # Len(Order) => step[r] + 1 \in 1..Len(Order)
        BY <2>1, <1>0
      <4> QED BY <4>1, <2>1, <3>1, <3>2 DEF GateInv
    <3>7. \A i \in 1..Len(Order) : i < step[r] + 1 =>
             /\ snapshot'[r][Order[i]] # Unlisted
             /\ \A q \in earlier[r] :
                   snapshot'[q][Order[i]] <= snapshot'[r][Order[i]]
      <4> SUFFICES ASSUME NEW i \in 1..Len(Order), i < step[r] + 1
                   PROVE  /\ snapshot'[r][Order[i]] # Unlisted
                          /\ \A q \in earlier[r] :
                                snapshot'[q][Order[i]] <= snapshot'[r][Order[i]]
        OBVIOUS
      <4>1. \A q \in earlier[r] :
               q \in Reviews /\ pc[q] = "decided" /\ snapshot'[q] = snapshot[q]
        BY <1>0, <3>2, <3>3 DEF ReadInv
      <4>2. Order[i] \in Kinds
        BY KindsFacts
      <4>3. CASE Order[i] = k
        BY <4>1, <4>3, <2>1, <3>2 DEF FloorInv
      <4>4. CASE Order[i] # k
        BY <4>1, <4>2, <4>4, <2>1, <3>2, <3>4 DEF ReadInv
      <4> QED BY <4>3, <4>4
    <3>8. ReadInv'
      BY <2>1, <3>2, <3>3, <3>7, <1>0, SMTT(30) DEF ReadInv
    <3>9. step[r] = Len(Order) =>
             \A j \in Kinds :
                /\ snapshot'[r][j] # Unlisted
                /\ \A q \in earlier[r] : snapshot'[q][j] <= snapshot'[r][j]
      <4> SUFFICES ASSUME step[r] = Len(Order), NEW j \in Kinds
                   PROVE  /\ snapshot'[r][j] # Unlisted
                          /\ \A q \in earlier[r] : snapshot'[q][j] <= snapshot'[r][j]
        OBVIOUS
      <4>1. PICK i \in 1..Len(Order) : j = Order[i]
        BY KindsFacts
      <4>2. i < step[r] + 1
        BY <1>0
      <4> QED BY <4>1, <4>2, <3>7
    <3>10. DecidesOnListed'
      BY <3>2, <3>9 DEF DecidesOnListed
    <3>11. NeverBackwards'
      BY <2>1, <3>2, <3>3, <3>9, <1>0 DEF NeverBackwards, ReadInv
    <3> QED BY <3>5, <3>6, <3>8, <3>10, <3>11
  <2> QED BY <2>2, <2>3
<1> QED BY <1>1, <1>2, <1>3 DEF Handle

LEMMA StartStep ==
    ASSUME IInv, Start
    PROVE  (ReadyInv /\ FloorInv /\ GateInv /\ ReadInv
               /\ DecidesOnListed /\ NeverBackwards)'
<1> USE DEF IInv
<1>1. /\ stream' = [k \in Kinds |-> Down]
      /\ store' = [k \in Kinds |-> Unlisted]
      /\ ready' = [k \in Kinds |-> FALSE]
      /\ pc' = [r \in Reviews |->
                  IF pc[r] \in {"gate", "read"} THEN "lost" ELSE pc[r]]
      /\ UNCHANGED <<version, step, cold, snapshot, earlier>>
  BY DEF Start, cluster
<1>2. \A r \in Reviews :
         /\ pc'[r] \notin {"gate", "read"}
         /\ pc'[r] \in {"idle", "decided"} => pc'[r] = pc[r]
         /\ pc[r] = "decided" => pc'[r] = "decided"
  BY <1>1
<1>3. /\ \A k \in Kinds : version[k] \in Int /\ Unlisted <= version[k]
      /\ Down.at = "down"
  BY VersionFacts DEF TypeOK, Down
<1>4. ReadyInv' /\ FloorInv'
  BY <1>1, <1>3 DEF ReadyInv, FloorInv
<1>5. GateInv' /\ ReadInv'
  <2>1. \A r \in Reviews : earlier[r] \subseteq Reviews
    BY DEF TypeOK
  <2>2. GateInv'
    BY <1>1, <1>2 DEF GateInv
  <2>3. ReadInv'
    BY <1>1, <1>2, <2>1 DEF ReadInv
  <2> QED BY <2>2, <2>3
<1>6. DecidesOnListed' /\ NeverBackwards'
  BY <1>1, <1>2 DEF DecidesOnListed, NeverBackwards
<1> QED BY <1>4, <1>5, <1>6

LEMMA InvInit == Init => IInv
<1> SUFFICES ASSUME Init PROVE IInv
  OBVIOUS
<1>1. ReadyInv
  BY DEF Init, ReadyInv
<1>2. FloorInv
  BY DEF Init, FloorInv, NothingRead, Down, Unlisted
<1>3. GateInv /\ ReadInv /\ DecidesOnListed /\ NeverBackwards
  BY DEF Init, GateInv, ReadInv, DecidesOnListed, NeverBackwards
<1> QED BY <1>1, <1>2, <1>3, TypeInit DEF IInv

LEMMA InvStep == IInv /\ [Next]_vars => IInv'
<1> SUFFICES ASSUME IInv, [Next]_vars PROVE IInv'
  OBVIOUS
<1>1. TypeOK'
  BY TypeStep DEF IInv
<1>2. ASSUME NEW k \in Kinds, Change(k) \/ Reflect(k) \/ StreamError(k) PROVE IInv'
  BY <1>1, <1>2, CachesStep DEF IInv
<1>3. ASSUME NEW r \in Reviews, Arrive(r) \/ Handle(r) PROVE IInv'
  BY <1>1, <1>3, HandlerStep DEF IInv
<1>4. CASE Start
  BY <1>1, <1>4, StartStep DEF IInv
<1>5. CASE UNCHANGED vars
  BY <1>1, <1>5 DEF IInv, vars, cluster, caches, handler, ReadyInv, FloorInv,
                    GateInv, ReadInv, DecidesOnListed, NeverBackwards
<1> QED BY <1>2, <1>3, <1>4, <1>5 DEF Next

-------------------------------------------------------------------------------
(* The inductive invariant of the caches and of the handlers over them.    *)
THEOREM Invariance == Spec => []IInv
BY InvInit, InvStep, PTL DEF Spec

(* The state stays well-typed; in particular no handler reads past the     *)
(* last store and no store runs ahead of its collection.                   *)
THEOREM TypeCorrect == Spec => []TypeOK
<1>1. IInv => TypeOK
  BY DEF IInv
<1> QED BY <1>1, Invariance, PTL

(* No verdict of /admit rests on a store whose first list had not landed.  *)
THEOREM NoAbsence == Spec => []DecidesOnListed
<1>1. IInv => DecidesOnListed
  BY DEF IInv
<1> QED BY <1>1, Invariance, PTL

(* A later review is never judged on an older cluster than an earlier one. *)
THEOREM Recency == Spec => []NeverBackwards
<1>1. IInv => NeverBackwards
  BY DEF IInv
<1> QED BY <1>1, Invariance, PTL

-------------------------------------------------------------------------------
(* Why a handler answers soon: a step of somebody else is none of its own, *)
(* and a step of its own takes one from what is left.                      *)
LEMMA OwnStep ==
    ASSUME TypeOK, GateInv, NEW r \in Reviews, Handle(r)
    PROVE  Left(r) \in Nat /\ Left(r)' \in Nat /\ Left(r)' < Left(r)
<1>1. Len(Order) \in Nat /\ step[r] \in 1..Len(Order) + 1
  BY KindsFacts DEF TypeOK
<1>2. CASE Gate(r)
  <2>1. pc[r] = "gate"
    BY <1>2 DEF Gate
  <2>2. CASE step[r] <= Len(Order)
    <3>1. pc'[r] = "gate" /\ step'[r] = step[r] + 1
      BY <1>2, <2>1, <2>2 DEF Gate, TypeOK
    <3> QED BY <1>1, <2>1, <3>1 DEF Left
  <2>3. CASE ~(step[r] <= Len(Order))
    <3>1. pc'[r] \in {"failed", "read"} /\ step'[r] = 1
      BY <1>2, <2>3 DEF Gate, TypeOK
    <3> QED BY <1>1, <2>1, <3>1 DEF Left
  <2> QED BY <2>2, <2>3
<1>3. CASE Read(r)
  <2>1. pc[r] = "read" /\ step[r] <= Len(Order)
    BY <1>1, <1>3 DEF Read, GateInv
  <2>2. \/ pc'[r] \in {"failed", "decided"}
        \/ pc'[r] = "read" /\ step'[r] = step[r] + 1 /\ step[r] # Len(Order)
    BY <1>3 DEF Read, TypeOK
  <2> QED BY <1>1, <2>1, <2>2 DEF Left
<1> QED BY <1>2, <1>3 DEF Handle

(* /admit looks at no flag and no store twice: a handler that has begun is *)
(* at most one step more from its end than twice the number of caches, and *)
(* each of its steps, whatever the reflectors do meanwhile, takes one off. *)
THEOREM AnswersInTime == Spec => AnswersSoon
<1> DEFINE Nearer(r) == pc[r] \in {"gate", "read"} =>
               Left(r)' < Left(r) \/ UNCHANGED <<pc[r], step[r]>>
<1>1. IInv /\ [Next]_vars => [\A r \in Reviews : Nearer(r)]_vars
  <2> SUFFICES ASSUME IInv, [Next]_vars, NEW r \in Reviews PROVE Nearer(r)
    OBVIOUS
  <2>1. ASSUME NEW k \in Kinds, Change(k) \/ Reflect(k) \/ StreamError(k)
        PROVE  Nearer(r)
    <3>1. UNCHANGED handler
      BY <2>1 DEF Change, Reflect, StartList, FinishList, Rewatch, Event, Warm,
                  StreamError
    <3> QED BY <3>1 DEF handler
  <2>2. ASSUME NEW q \in Reviews, Arrive(q) PROVE Nearer(r)
    <3>1. pc[q] = "idle" /\ pc' = [pc EXCEPT ![q] = "gate"] /\ step' = step
      BY <2>2 DEF Arrive
    <3> QED BY <3>1 DEF IInv, TypeOK
  <2>3. ASSUME NEW q \in Reviews, Handle(q) PROVE Nearer(r)
    <3>1. CASE q = r
      BY <2>3, <3>1, OwnStep DEF IInv
    <3>2. CASE q # r
      <4>1. pc'[r] = pc[r] /\ step'[r] = step[r]
        BY <2>3, <3>2 DEF Handle, Gate, Read, IInv, TypeOK
      <4> QED BY <4>1
    <3> QED BY <3>1, <3>2
  <2>4. ASSUME Start, pc[r] \in {"gate", "read"} PROVE Left(r)' < Left(r)
    <3>1. pc'[r] = "lost"
      BY <2>4 DEF Start
    <3>2. Len(Order) \in Nat /\ step[r] \in 1..Len(Order) + 1
      BY KindsFacts DEF IInv, TypeOK
    <3>3. pc[r] = "read" => step[r] <= Len(Order)
      BY <3>2 DEF IInv, GateInv
    <3> QED BY <2>4, <3>1, <3>2, <3>3 DEF Left
  <2>5. CASE UNCHANGED vars
    BY <2>5 DEF vars, handler
  <2> QED BY <2>1, <2>2, <2>3, <2>4, <2>5 DEF Next
<1> QED BY <1>1, Invariance, PTL DEF Spec, AnswersSoon

-------------------------------------------------------------------------------
(* What is seen of the handlers from outside.                              *)
Phases == [r \in Reviews |-> Phase(r)]
Views  == [r \in Reviews |-> IF pc[r] = "decided" THEN snapshot[r] ELSE NothingRead]

LEMMA Invisible ==
    ASSUME UNCHANGED <<version, pc, snapshot, earlier>>
    PROVE  [Promise!Next]_(Promise!vars)
BY DEF Phase, Promise!vars

(* Handlers that give up together, whatever ends them.                     *)
LEMMA GivesUp ==
    ASSUME TypeOK, NEW some \in SUBSET Reviews, NEW end \in {"failed", "lost"},
           \A r \in some : pc[r] \in {"gate", "read"},
           pc' = [r \in Reviews |-> IF r \in some THEN end ELSE pc[r]],
           UNCHANGED <<version, snapshot, earlier>>
    PROVE  [Promise!Next]_(Promise!vars)
<1>1. Phases' = [r \in Reviews |-> IF r \in some THEN "unjudged" ELSE Phases[r]]
  BY DEF Phases, Phase
<1>2. Views' = Views
  BY DEF Views
<1>3. \A r \in some : Phases[r] = "asked"
  BY DEF Phases, Phase
<1>4. Promise!GiveUp(some)
  BY <1>1, <1>2, <1>3 DEF Promise!GiveUp, Phases, Views
<1> QED BY <1>4 DEF Promise!Next

(* The read of the last store is the moment of the verdict.  Its view was  *)
(* read at several moments; that it could have been chosen at once is what *)
(* the invariant says after the step: it is listed, nowhere ahead of the   *)
(* cluster and nowhere behind what earlier verdicts were based on.         *)
LEMMA Decides ==
    ASSUME IInv, IInv', NEW r \in Reviews, Read(r), pc'[r] = "decided"
    PROVE  [Promise!Next]_(Promise!vars)
<1>1. /\ pc[r] = "read"
      /\ pc' = [pc EXCEPT ![r] = "decided"]
      /\ \E k \in Kinds : snapshot' = [snapshot EXCEPT ![r][k] = store[k]]
      /\ UNCHANGED <<version, earlier>>
  <2>1. pc[r] = "read" /\ Order[step[r]] \in Kinds
    BY KindsFacts DEF Read, IInv, GateInv
  <2> QED BY <2>1 DEF Read, cluster, IInv, TypeOK
<1>2. /\ \A q \in Reviews : q # r => pc'[q] = pc[q] /\ snapshot'[q] = snapshot[q]
      /\ pc'[r] = "decided"
  BY <1>1 DEF IInv, TypeOK
<1>3. snapshot'[r] \in [Kinds -> Versions]
  <2>1. snapshot'[r] \in [Kinds -> Versions \cup {Unlisted}]
    BY DEF IInv, TypeOK
  <2>2. \A k \in Kinds : snapshot'[r][k] # Unlisted
    BY DEF IInv, DecidesOnListed
  <2> QED BY <2>1, <2>2
<1>4. PICK listed \in [Kinds -> Versions] : listed = snapshot'[r]
  BY <1>3
<1>5. \A k \in Kinds : listed[k] <= version[k]
  BY <1>1, <1>4 DEF IInv, FloorInv
<1>6. \A q \in earlier[r] : \A k \in Kinds : Views[q][k] <= listed[k]
  <2> SUFFICES ASSUME NEW q \in earlier[r], NEW k \in Kinds
               PROVE  Views[q][k] <= listed[k]
    OBVIOUS
  <2>1. q \in Reviews /\ pc[q] = "decided" /\ q # r
    BY <1>1 DEF IInv, TypeOK, ReadInv
  <2>2. Views[q][k] = snapshot'[q][k]
    BY <1>2, <2>1 DEF Views
  <2> QED BY <1>1, <1>2, <1>4, <2>2 DEF IInv, NeverBackwards
<1>7. Phases[r] = "asked" /\ Phases' = [Phases EXCEPT ![r] = "judged"]
  BY <1>1, <1>2 DEF Phases, Phase
<1>8. Views' = [Views EXCEPT ![r] = listed]
  BY <1>2, <1>4 DEF Views
<1>9. Promise!Judge(r, listed)
  BY <1>1, <1>5, <1>6, <1>7, <1>8 DEF Promise!Judge, Phases, Views
<1> QED BY <1>9 DEF Promise!Next

LEMMA PromiseStep ==
    IInv /\ IInv' /\ [Next]_vars => [Promise!Next]_(Promise!vars)
<1> SUFFICES ASSUME IInv, IInv', [Next]_vars
             PROVE  [Promise!Next]_(Promise!vars)
  OBVIOUS
<1>1. ASSUME NEW k \in Kinds, Change(k) PROVE [Promise!Next]_(Promise!vars)
  <2>1. UNCHANGED <<pc, snapshot, earlier>>
    BY <1>1 DEF Change, handler
  <2>2. Phases' = Phases /\ Views' = Views
    BY <2>1 DEF Phases, Phase, Views
  <2>3. Promise!Change(k)
    BY <1>1, <2>1, <2>2 DEF Change, Promise!Change, Phases, Views
  <2> QED BY <2>3 DEF Promise!Next
<1>2. ASSUME NEW k \in Kinds, Reflect(k) \/ StreamError(k)
      PROVE  [Promise!Next]_(Promise!vars)
  <2>1. UNCHANGED <<cluster, handler>>
    BY <1>2 DEF Reflect, StartList, FinishList, Rewatch, Event, Warm, StreamError
  <2> QED BY <2>1, Invisible DEF cluster, handler
<1>3. ASSUME NEW r \in Reviews, Arrive(r) PROVE [Promise!Next]_(Promise!vars)
  <2>1. /\ pc[r] = "idle"
        /\ pc' = [pc EXCEPT ![r] = "gate"]
        /\ earlier' = [earlier EXCEPT ![r] = {q \in Reviews : pc[q] = "decided"}]
        /\ UNCHANGED <<version, snapshot>>
    BY <1>3 DEF Arrive, cluster
  <2>2. Phases[r] = "idle" /\ Phases' = [Phases EXCEPT ![r] = "asked"]
    <3>1. pc'[r] = "gate" /\ \A q \in Reviews : q # r => pc'[q] = pc[q]
      BY <2>1 DEF IInv, TypeOK
    <3> QED BY <2>1, <3>1 DEF Phases, Phase
  <2>3. Views' = Views
    BY <2>1 DEF Views, IInv, TypeOK
  <2>4. {q \in Reviews : pc[q] = "decided"} = {q \in Reviews : Phases[q] = "judged"}
    BY DEF Phases, Phase
  <2>5. Promise!Ask(r)
    BY <2>1, <2>2, <2>3, <2>4 DEF Promise!Ask, Phases, Views
  <2> QED BY <2>5 DEF Promise!Next
<1>4. ASSUME NEW r \in Reviews, pc[r] \in {"gate", "read"},
             pc' = [pc EXCEPT ![r] = "failed"],
             UNCHANGED <<version, snapshot, earlier>>
      PROVE  [Promise!Next]_(Promise!vars)
  <2>1. pc' = [q \in Reviews |-> IF q \in {r} THEN "failed" ELSE pc[q]]
    BY <1>4 DEF IInv, TypeOK
  <2> QED BY <1>4, <2>1, GivesUp DEF IInv
<1>5. ASSUME NEW r \in Reviews, Gate(r) PROVE [Promise!Next]_(Promise!vars)
  <2>1. pc[r] = "gate" /\ UNCHANGED <<version, snapshot, earlier>>
    BY <1>5 DEF Gate, cluster
  <2>2. CASE pc' = pc
    BY <2>1, <2>2, Invisible
  <2>3. CASE pc' = [pc EXCEPT ![r] = "failed"]
    BY <2>1, <2>3, <1>4
  <2>4. CASE pc' = [pc EXCEPT ![r] = "read"]
    <3>1. Phases' = Phases /\ Views' = Views
      BY <2>1, <2>4 DEF Phases, Phase, Views, IInv, TypeOK
    <3> QED BY <2>1, <3>1 DEF Phases, Views, Promise!vars
  <2> QED BY <1>5, <2>2, <2>3, <2>4 DEF Gate
<1>6. ASSUME NEW r \in Reviews, Read(r) PROVE [Promise!Next]_(Promise!vars)
  <2>1. pc[r] = "read" /\ UNCHANGED <<version, earlier>>
    BY <1>6 DEF Read, cluster
  <2>2. CASE pc'[r] = "decided"
    BY <1>6, <2>2, Decides
  <2>3. CASE pc' = [pc EXCEPT ![r] = "failed"] /\ UNCHANGED snapshot
    BY <2>1, <2>3, <1>4
  <2>4. CASE /\ pc' = [pc EXCEPT ![r] = "read"]
             /\ \E k \in Kinds : snapshot' = [snapshot EXCEPT ![r][k] = store[k]]
    <3>1. pc' = pc
      BY <2>1, <2>4 DEF IInv, TypeOK
    <3>2. Phases' = Phases /\ Views' = Views
      BY <2>1, <2>4, <3>1 DEF Phases, Phase, Views, IInv, TypeOK
    <3> QED BY <2>1, <3>2 DEF Phases, Views, Promise!vars
  <2>5. Order[step[r]] \in Kinds
    BY <2>1, KindsFacts DEF IInv, GateInv
  <2> QED BY <1>6, <2>2, <2>3, <2>4, <2>5 DEF Read, IInv, TypeOK
<1>7. CASE Start
  <2> DEFINE some == {r \in Reviews : pc[r] \in {"gate", "read"}}
  <2>1. pc' = [r \in Reviews |-> IF r \in some THEN "lost" ELSE pc[r]]
    BY <1>7 DEF Start
  <2>2. UNCHANGED <<version, snapshot, earlier>>
    BY <1>7 DEF Start, cluster
  <2> QED BY <2>1, <2>2, GivesUp DEF IInv
<1>8. CASE UNCHANGED vars
  BY <1>8, Invisible DEF vars, cluster, handler
<1> QED BY <1>1, <1>2, <1>3, <1>5, <1>6, <1>7, <1>8 DEF Next, Handle

(* The caches, the flags and the handlers that read them one after the     *)
(* other do what RecentViews promises of /admit: a verdict is given once,  *)
(* on listed collections that are neither ahead of the cluster nor behind  *)
(* an earlier verdict.                                                     *)
THEOREM Refinement == Spec => KeepsPromise
<1>1. Init => Promise!Init
  BY DEF Init, Promise!Init, Phase
<1>2. IInv /\ IInv' /\ [Next]_vars => [Promise!Next]_(Promise!vars)
  BY PromiseStep
<1> QED
  BY <1>1, <1>2, Invariance, PTL DEF Spec, KeepsPromise, Promise!Spec
===============================================================================
