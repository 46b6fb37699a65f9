-------------------------------- MODULE Caches --------------------------------
(***************************************************************************)
(* What a pod is decided on: the watch caches (serve/cache.rs) and the     *)
(* reads of them in /admit (serve/handlers.rs).                            *)
(*                                                                         *)
(* Each kind of object has a reflector of its own: one task lists and      *)
(* watches the API server into a store, another one flips the kind's ready *)
(* flag when the first list has landed.  A store holds the collection as   *)
(* it was at some version.  A relist fills a buffer beside the store and   *)
(* replaces it at once, so a store whose watch fails is stale, not empty.  *)
(* A handler reads the flags, then the stores, one after the other and     *)
(* with no lock across them.                                               *)
(***************************************************************************)
EXTENDS Integers, Sequences

CONSTANTS
    Order,      \* the kinds, in the order in which they are read
    Governing,  \* LexManifests of the pods' namespace at each version of them
    Reviews,    \* the AdmissionReviews posted to /admit
    MaxVersion, \* bound: how often each collection is changed
    MaxLives    \* bound: how often the process is started

Kinds    == {Order[i] : i \in DOMAIN Order}
Manifest == Order[1]
Versions == 0..MaxVersion
Unlisted == -1

ASSUME OrderAssumption ==
    /\ Order \in Seq(STRING)
    /\ Order # << >>
    /\ \A i, j \in DOMAIN Order : Order[i] = Order[j] => i = j

ASSUME BoundsAssumption ==
    /\ MaxVersion \in Nat
    /\ MaxLives \in Nat
    /\ Governing \in [Versions -> Nat]

VARIABLES
    version,    \* of each collection in the API server
    pasts,      \* the vectors of versions the cluster has gone through
    stream,     \* each watcher: down, watching, or listing what version
    store,      \* the version each store holds, or Unlisted
    ready,      \* the ready flag of each kind
    life,       \* how often the process has been started; 0: not yet
    pc,         \* where each handler is
    step,       \* the position in Order a handler looks at next
    cold,       \* whether a handler has met a cold cache
    snapshot,   \* the versions a handler has read
    earlier     \* the reviews that were decided before this one arrived

cluster == <<version, pasts>>
caches  == <<stream, store, ready, life>>
handler == <<pc, step, cold, snapshot, earlier>>
vars    == <<cluster, caches, handler>>

Listing(v) == [at |-> "listing", version |-> v]
Down       == [at |-> "down", version |-> Unlisted]
Watching   == [at |-> "watching", version |-> Unlisted]
Streams    == {Down, Watching} \cup {Listing(v) : v \in Versions}

NothingRead == [k \in Kinds |-> Unlisted]

Init ==
    /\ version = [k \in Kinds |-> 0]
    /\ pasts = {version}
    /\ stream = [k \in Kinds |-> Down]
    /\ store = [k \in Kinds |-> Unlisted]
    /\ ready = [k \in Kinds |-> FALSE]
    /\ life = 0
    /\ pc = [r \in Reviews |-> "idle"]
    /\ step = [r \in Reviews |-> 1]
    /\ cold = [r \in Reviews |-> FALSE]
    /\ snapshot = [r \in Reviews |-> NothingRead]
    /\ earlier = [r \in Reviews |-> {}]

-------------------------------------------------------------------------------
(* The cluster                                                             *)

Change(k) ==
    /\ version[k] < MaxVersion
    /\ version' = [version EXCEPT ![k] = @ + 1]
    /\ pasts' = pasts \cup {version'}
    /\ UNCHANGED <<caches, handler>>

-------------------------------------------------------------------------------
(* A reflector                                                             *)

(* Mutant of StartList: the list may be served from an old version.        *)
StartListAny(k) ==
    /\ life > 0
    /\ stream[k] = Down
    /\ \E v \in 0..version[k] : stream' = [stream EXCEPT ![k] = Listing(v)]
    /\ UNCHANGED <<cluster, store, ready, life, handler>>

(* The list is of the most recent version when it begins, however many     *)
(* pages it takes.                                                         *)
StartList(k) ==
    /\ life > 0
    /\ stream[k] = Down
    /\ stream' = [stream EXCEPT ![k] = Listing(version[k])]
    /\ UNCHANGED <<cluster, store, ready, life, handler>>

FinishList(k) ==
    /\ stream[k].at = "listing"
    /\ store' = [store EXCEPT ![k] = stream[k].version]
    /\ stream' = [stream EXCEPT ![k] = Watching]
    /\ UNCHANGED <<cluster, ready, life, handler>>

(* A watch that broke may be taken up where it was.                        *)
Rewatch(k) ==
    /\ stream[k] = Down
    /\ store[k] # Unlisted
    /\ stream' = [stream EXCEPT ![k] = Watching]
    /\ UNCHANGED <<cluster, store, ready, life, handler>>

(* Mutant of Event: an event delivered twice counts twice.                 *)
EventTwice(k) ==
    /\ stream[k] = Watching
    /\ store[k] < version[k]
    /\ store' = [store EXCEPT ![k] = @ + 2]
    /\ UNCHANGED <<cluster, stream, ready, life, handler>>

(* Mutant of Event: the stream is polled until the first list only.        *)
EventUnpolled(k) == FALSE /\ UNCHANGED vars

Event(k) ==
    /\ stream[k] = Watching
    /\ store[k] < version[k]
    /\ store' = [store EXCEPT ![k] = @ + 1]
    /\ UNCHANGED <<cluster, stream, ready, life, handler>>

(* Mutant of StreamError: an error takes the readiness back.               *)
StreamErrorCools(k) ==
    /\ stream[k] # Down
    /\ stream' = [stream EXCEPT ![k] = Down]
    /\ ready' = [ready EXCEPT ![k] = FALSE]
    /\ UNCHANGED <<cluster, store, life, handler>>

(* A list that fails leaves nothing behind; the watcher backs off.         *)
StreamError(k) ==
    /\ stream[k] # Down
    /\ stream' = [stream EXCEPT ![k] = Down]
    /\ UNCHANGED <<cluster, store, ready, life, handler>>

(* Mutant of Warm: the flag is set as soon as the reflector runs.          *)
WarmEarly(k) ==
    /\ stream[k] # Down
    /\ ~ready[k]
    /\ ready' = [ready EXCEPT ![k] = TRUE]
    /\ UNCHANGED <<cluster, stream, store, life, handler>>

(* wait_until_ready() returned in the second task.                         *)
Warm(k) ==
    /\ store[k] # Unlisted
    /\ ~ready[k]
    /\ ready' = [ready EXCEPT ![k] = TRUE]
    /\ UNCHANGED <<cluster, stream, store, life, handler>>

-------------------------------------------------------------------------------
(* A handler of /admit                                                     *)

Arrive(r) ==
    /\ life > 0
    /\ pc[r] = "idle"
    /\ pc' = [pc EXCEPT ![r] = "gate"]
    /\ earlier' = [earlier EXCEPT ![r] = {q \in Reviews : pc[q] = "decided"}]
    /\ UNCHANGED <<cluster, caches, step, cold, snapshot>>

(* Mutant of Gate: the handler waits for the caches instead of answering.  *)
GateWaits(r) ==
    /\ pc[r] = "gate"
    /\ \A k \in Kinds : ready[k]
    /\ pc' = [pc EXCEPT ![r] = "read"]
    /\ UNCHANGED <<cluster, caches, step, cold, snapshot, earlier>>

(* Mutant of Gate: the last kind's flag is never looked at.                *)
GateMissesOne(r) ==
    /\ pc[r] = "gate"
    /\ IF step[r] < Len(Order)
       THEN /\ step' = [step EXCEPT ![r] = @ + 1]
            /\ cold' = [cold EXCEPT ![r] = @ \/ ~ready[Order[step[r]]]]
            /\ UNCHANGED pc
       ELSE /\ pc' = [pc EXCEPT ![r] = IF cold[r] THEN "failed" ELSE "read"]
            /\ step' = [step EXCEPT ![r] = 1]
            /\ UNCHANGED cold
    /\ UNCHANGED <<cluster, caches, snapshot, earlier>>

(* Mutant of Gate: a handler that met a cold cache looks again.            *)
GateRetries(r) ==
    /\ pc[r] = "gate"
    /\ IF step[r] <= Len(Order)
       THEN /\ step' = [step EXCEPT ![r] = @ + 1]
            /\ cold' = [cold EXCEPT ![r] = @ \/ ~ready[Order[step[r]]]]
            /\ UNCHANGED pc
       ELSE /\ pc' = [pc EXCEPT ![r] = IF cold[r] THEN "gate" ELSE "read"]
            /\ step' = [step EXCEPT ![r] = 1]
            /\ cold' = [cold EXCEPT ![r] = FALSE]
    /\ UNCHANGED <<cluster, caches, snapshot, earlier>>

(* Caches::cold: every flag in turn, then an answer if any was false.      *)
Gate(r) ==
    /\ pc[r] = "gate"
    /\ IF step[r] <= Len(Order)
       THEN /\ step' = [step EXCEPT ![r] = @ + 1]
            /\ cold' = [cold EXCEPT ![r] = @ \/ ~ready[Order[step[r]]]]
            /\ UNCHANGED pc
       ELSE /\ pc' = [pc EXCEPT ![r] = IF cold[r] THEN "failed" ELSE "read"]
            /\ step' = [step EXCEPT ![r] = 1]
            /\ UNCHANGED cold
    /\ UNCHANGED <<cluster, caches, snapshot, earlier>>

(* manifest_for: none or several manifests are a failure.                  *)
Governed(r) == store[Manifest] # Unlisted /\ Governing[store[Manifest]] = 1

(* The stores in turn, the manifests first, then the pure decision.        *)
Read(r) ==
    /\ pc[r] = "read"
    /\ LET k == Order[step[r]] IN
          IF k = Manifest /\ ~Governed(r)
          THEN /\ pc' = [pc EXCEPT ![r] = "failed"]
               /\ UNCHANGED <<step, snapshot>>
          ELSE /\ snapshot' = [snapshot EXCEPT ![r][k] = store[k]]
               /\ step' = [step EXCEPT ![r] = @ + 1]
               /\ pc' = [pc EXCEPT ![r] = IF step[r] = Len(Order)
                                          THEN "decided" ELSE "read"]
    /\ UNCHANGED <<cluster, caches, cold, earlier>>

-------------------------------------------------------------------------------
(* The process                                                             *)

(* cache::start: empty stores, flags down, every reflector spawned.        *)
Start ==
    /\ life < MaxLives
    /\ life' = life + 1
    /\ stream' = [k \in Kinds |-> Down]
    /\ store' = [k \in Kinds |-> Unlisted]
    /\ ready' = [k \in Kinds |-> FALSE]
    /\ pc' = [r \in Reviews |-> IF pc[r] \in {"gate", "read"} THEN "lost" ELSE pc[r]]
    /\ UNCHANGED <<cluster, step, cold, snapshot, earlier>>

-------------------------------------------------------------------------------

Reflect(k) ==
    StartList(k) \/ FinishList(k) \/ Rewatch(k) \/ Event(k) \/ Warm(k)

Handle(r) == Gate(r) \/ Read(r)

Next ==
    \/ \E k \in Kinds : Change(k) \/ Reflect(k) \/ StreamError(k)
    \/ \E r \in Reviews : Arrive(r) \/ Handle(r)
    \/ Start

Spec == Init /\ [][Next]_vars

(* The kubelet starts the wall, and the runtime runs its tasks.  Watchers  *)
(* try again after every error, with backoff and without end: that lists   *)
(* and events come through in the end, and not only ever errors, is what   *)
(* is assumed of the API server.                                           *)
CacheFairness ==
    /\ WF_vars(Start)
    /\ \A k \in Kinds :
          /\ WF_vars(StartList(k) \/ Rewatch(k))
          /\ SF_vars(FinishList(k))
          /\ SF_vars(Event(k))
          /\ WF_vars(Warm(k))

FairSpec == Spec /\ CacheFairness

-------------------------------------------------------------------------------
(* Correctness                                                             *)

TypeOK ==
    /\ version \in [Kinds -> Versions]
    /\ pasts \subseteq [Kinds -> Versions]
    /\ stream \in [Kinds -> Streams]
    /\ store \in [Kinds -> Versions \cup {Unlisted}]
    /\ ready \in [Kinds -> BOOLEAN]
    /\ life \in 0..MaxLives
    /\ pc \in [Reviews -> {"idle", "gate", "read", "decided", "failed", "lost"}]
    /\ step \in [Reviews -> 1..Len(Order) + 1]
    /\ cold \in [Reviews -> BOOLEAN]
    /\ snapshot \in [Reviews -> [Kinds -> Versions \cup {Unlisted}]]
    /\ earlier \in [Reviews -> SUBSET Reviews]

(* "A cold cache is not a permissive cache": no verdict rests on a store   *)
(* that was empty because its first list had not landed, although flags    *)
(* and stores are read at different moments and by different tasks.        *)
DecidesOnListed ==
    \A r \in Reviews :
        pc[r] = "decided" => \A k \in Kinds : snapshot[r][k] # Unlisted

(* "Stale rather than empty", and never backwards: a review that arrives   *)
(* after another one was decided is judged on a cluster at least as recent *)
(* in every kind, whatever watch errors, relists and restarts lie between. *)
NeverBackwards ==
    \A r \in Reviews : \A q \in earlier[r] :
        pc[r] = "decided" => \A k \in Kinds : snapshot[q][k] <= snapshot[r][k]

(* Seen from outside, /admit is RecentViews: the stores are read one after *)
(* the other, at versions that go on, and the verdict still rests on a     *)
(* view that could have been chosen at once when it is given.              *)
Phase(r) ==
    CASE pc[r] \in {"gate", "read"} -> "asked"
      [] pc[r] = "decided"          -> "judged"
      [] pc[r] = "idle"             -> "idle"
      [] OTHER                      -> "unjudged"

Promise == INSTANCE RecentViews WITH
    NoView <- NothingRead,
    phase  <- [r \in Reviews |-> Phase(r)],
    view   <- [r \in Reviews |->
                  IF pc[r] = "decided" THEN snapshot[r] ELSE NothingRead],
    before <- earlier

KeepsPromise == Promise!Spec

(* "A handler must never block on readiness": whatever the reflectors do   *)
(* or fail to do, a handler that has begun can take its next step.         *)
NeverWaits ==
    \A r \in Reviews : pc[r] \in {"gate", "read"} => ENABLED Handle(r)

(* The steps a handler has yet to take, at most.                           *)
Left(r) ==
    IF pc[r] = "gate" THEN 2 * Len(Order) + 2 - step[r]
    ELSE IF pc[r] = "read" THEN Len(Order) + 1 - step[r]
    ELSE 0

(* A handler that has begun has only so many steps: each of them brings it *)
(* nearer to its answer, and no step of a reflector, of the cluster or of  *)
(* another handler sends it back to a flag or a store it has looked at.    *)
AnswersSoon ==
    [][\A r \in Reviews : pc[r] \in {"gate", "read"} =>
          Left(r)' < Left(r) \/ UNCHANGED <<pc[r], step[r]>>]_vars

(* The wall becomes ready after its last start, and stays so.              *)
BecomesReady == <>[](\A k \in Kinds : ready[k])

(* Staleness ends: once the cluster is quiet, every store catches up.      *)
CatchesUp == <>[](store = version)

(* "Everything the caches hold about one pod, at one instant": what stands *)
(* in a snapshot beside the manifest is a state the cluster was once in.   *)
AtOneInstant ==
    \A r \in Reviews :
        pc[r] = "decided" =>
            \E past \in pasts :
                \A k \in Kinds \ {Manifest} : snapshot[r][k] = past[k]
===============================================================================
