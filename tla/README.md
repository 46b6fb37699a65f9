# Specifications of lex-k8s

lex-k8s is an admission wall for Kubernetes: a validating webhook that compiles a
pod into the effects it would have, holds them to the `LexManifest` governing the
pod's namespace, and answers the API server.  It also refuses a `LexManifest` that
grants more than its parent, and keeps an audit trail of what it decided.  This
directory holds TLA+ models of the parts of it whose correctness depends on
interleaving, failure, order or on the algebra of grants, TLC configurations that
check them on small instances, and TLAPS proofs of the properties that matter most.

Paths below are relative to the repository root; `src/...` is the crate.

    tlc -config AuditedWall.cfg MCAuditedWall      # a run
    tlapm AuditTrailProofs.tla                     # the proofs of a module

## 1. The system

| component | source | state it keeps | operations |
|---|---|---|---|
| Compiler | `src/lib.rs`, `src/spec.rs`, `src/effect.rs` | none | pod spec and snapshot to effect rows, demanded grant |
| Snapshot builder | `src/serve/snapshot.rs`, `src/cluster.rs` | none | NetworkPolicies and RBAC objects that concern one pod to a pinned snapshot |
| Grants | `src/facet.rs`, `src/manifest.rs` | none (LexManifests live in the API server) | `resolve`, `implied_grant`, `admits`, `validate_narrowing` |
| Walls | `src/admission.rs`, `src/trust.rs` | none | `admit`: lattice, facet, image, trust and budget walls, decision chain |
| Cost | `src/cost.rs` | none | quantities, reservation, price, spend report |
| Caches | `src/serve/cache.rs` | six reflector stores, six ready flags | list, watch, relist, `cold`, lookups |
| Handlers | `src/serve/handlers.rs`, `src/review.rs` | per request only | `/admit`, `/narrow`, `/readyz`, `/healthz` |
| Audit trail | `src/serve/ledger.rs`, `src/serve/mod.rs` | chain behind a mutex, ledger.json, decision files, stdout | `start`, `witness`, `state` |
| Reconciliation | `src/ledger.rs`, `src/main.rs` | none (reads the volume) | `audit reconcile` |
| Command line | `src/main.rs` | none | `check`, `admit`, `narrow`, `audit`, exit codes |
| Deployment | `deploy/*.yaml` | none | `failurePolicy: Fail`, 5 s timeout, CREATE and UPDATE rules, one replica, an emptyDir |

Components interact so: the API server posts a review to a handler; the handler
reads the caches (shared, fed by one detached task each), builds a snapshot, calls
the pure decision, writes the decision file, witnesses it in the ledger (shared,
one mutex), and answers.  The API server enforces its own timeout and treats an
error as a rejection.  An operator runs the auditor over the volume while the wall
may still be writing to it.

What is hard here: handlers run truly in parallel and share the mutex, the volume
and the caches; a write is two system calls; the process may end between any two
steps, and its restart keeps the volume but not the chain; the API server's
timeout races the answer; six caches are fed independently and read one after
the other; a manifest is judged against a cached parent that may since have changed;
a pod that was admitted is changed afterwards, and its policies with it.

What makes each component correct:

- **Compiler, snapshot, walls:** a pod that the wall lets through has no ability
  its manifest does not grant, in the cluster as it was when the wall looked; the
  egress row neither hides nor invents reach; adding a binding never makes a pod
  look more harmless, and a role that is not there yet is not overlooked; the record
  of a refusal names what the wall really refuses.
- **Grants:** narrowing is sound (what the child admits, the parent would have
  admitted), composes along a chain, and the demand of a pod is the least grant
  that covers its rows.
- **Delegation:** a stored child is below its parent, although the parent was read
  from a lagging cache and the child is stored later still.
- **Cost:** the charge is what the pod comes to hold once it runs, and no more than
  it held on the way there; a quantity is read as Kubernetes reads it or not at all.
- **Caches:** no verdict rests on a store that was never listed; verdicts do not go
  back in time; no handler waits for a cache; a wall becomes ready, stays ready and
  its staleness ends.
- **Audit trail:** the ledger never names a decision whose file is missing, nor one twice; what the
  cluster acted on is in a checkpoint that already left the process; checkpoints
  do not fork; every handler ends; a poisoned mutex fails closed; an audit accuses
  nobody falsely and vouches only for what it has seen.

The hazards of the code, each at its line and with the properties that would catch
it going wrong, are listed in `PROJECT.json`.

## 2. Plan

In order of importance; all modules of these steps are written.

1. `AuditTrail` with its abstract specification `WitnessedDecisions`, and
   `AuditTrailProofs`.  The only shared mutable state that outlives a request, and
   the part where crashes, failed writes and interleavings meet.
2. `Caches` with its abstract specification `RecentViews`, and `CachesProofs`: what a
   decision is based on.
3. `Grants` and `GrantsProofs`: the algebra, as operators without state; then
   `Delegation` with its abstract specification `HeldAuthority`, and
   `DelegationProofs`: manifests over time, composed with it.
4. `AuditedWall` and `AuditedWallProofs`: the auditor composed with the running wall.
5. `Quantities`, `Decisions`, `Snapshots`, `PodCompiler` (operators), `PodWall` and
   `PodWallProofs`: the decision composed with the cluster's objects, the changes of
   a pod and the kubelet; `SumProofs` and `ReservationProofs`: what it is charged for.

What is left, in the order it is worth doing:

6. `Caches` composed with `PodWall`: the width of the window in which a verdict is
   stale.  (That a binding is cached before its role is a state of `PodWall`.)
7. `AuditTrail` composed with `Caches`: `/readyz` looks at the caches only, so a
   wall with a poisoned mutex stays in rotation.  (That it decides nothing more is
   `PoisonFailsClosed`.)
8. Two walls, an old and a new pod of the Deployment, on one durable volume.
9. A parent that is tightened or replaced: which pods and children stay behind,
   stated as what a re-check would have to do.
10. RBAC read independently: wildcards of groups and resources, User subjects,
    `system:authenticated`.  CIDRs as sets of addresses, so that two blocks can add up.

## 3. Modules and the code

| module | models | state |
|---|---|---|
| `WitnessedDecisions` | the promise of the audit trail, as an abstract specification | filed, committed and created decisions |
| `AuditTrail` | `handlers.rs` (order of a request), `serve/ledger.rs`, start-up in `serve/mod.rs` | program counter of each thread, mutex and its poisoning, chain, `ledger.json`, decision files, checkpoints, lives |
| `RecentViews` | the promise of the caches and their readers, as an abstract specification | version of each collection, phase, view and predecessors of each review |
| `AuditedWall` | `AuditTrail` composed with `cmd_audit_reconcile` (`main.rs`) and `reconcile` (`ledger.rs`) | in addition: what the auditor has read |
| `Caches` | `serve/cache.rs`, `cold()` and the reads of `/admit` | version of each collection, stream, store and flag of each kind, progress of each handler |
| `Grants` | `effect.rs`, `facet.rs`, `manifest.rs`, `trust.rs`, the walls of `admission.rs` | none |
| `Decisions` | the refusals, their order, the decision chain and the report of `admission.rs`, `respond` of `review.rs`, the keyring of `trust.rs` | none |
| `Quantities` | `parse_cpu`, `parse_memory` of `cost.rs`, beside Kubernetes' reading | none |
| `HeldAuthority` | the promise of delegation, as an abstract specification | stored manifests, what each object has been, admissions |
| `Delegation` | `narrow_manifest`, `admit_pod`, the lookups of `cache.rs`, the API server's store | stored, pending and cached manifests, admissions |
| `Snapshots` | `serve/snapshot.rs`, `cluster.rs` | none |
| `PodCompiler` | `lib.rs`, `spec.rs`, the reservation and the price of `cost.rs` | none |
| `PodWall` | the decision over one namespace: objects, a pod's life, the kubelet | manifest, submitter and keyring, price list and spend report; policies, roles, bindings, the pod, its running containers |
| `*Proofs` | theorems about the module they name; `ReservationProofs` about the charge in `PodWall`, `SumProofs` about sums over sets | |
| `MC*` | constants, symmetry and restricted specifications for TLC | |

`Delegation` and `PodWall` use the operators of `Grants` (`PodWall` through
`PodCompiler`, which extends `Snapshots`, `Decisions` and `Quantities`);
`AuditedWall` extends `AuditTrail`, and its wall
steps are the actions of `AuditTrail` unchanged.  An operator whose comment begins
with "Mutant of" is a plausible wrong version of the definition it stands before; no
specification uses it.  It records which mistake a property would find.

**AuditTrail.**  One thread per request and one, `Boot`, for `serve::run` until the
socket is bound.  A request goes `Arrive`, `DecidePod` or `DecideManifest`,
`OpenDecision`, `WriteDecision` (a `std::fs::write` is the truncation and the write),
`TakeLock` (lock and append), `OpenLedger`, `WriteLedger`, `Announce` (the
checkpoint on stdout, the end of `witness`), `Deliver`.  `LockPoisoned`,
`WitnessFails` and the failing disjuncts of the file steps are the error paths, all of
which end in `cannot_run`.  `Panic` is a panic under the guard.  `TimeOut` is the API
server's; the handler does not learn of it.  `Crash` keeps the volume, `Evict` loses
it, `Restart` is `Ledger::start`.  What a request is decided on is left open: every
outcome is possible.

**AuditedWall.**  `ReadLedger`, `ReadCheckpoint`, `ReadFile` one by one, `Reconcile`.
The chain is represented by its history and a head by the history up to it, so equal
heads are equal histories.  A `WallStarted` entry says the same in every life; with
distinct start times in the entries fewer ledgers would be taken for one another than
here.  Signatures and seals are assumed to be sound.

**Caches.**  A store is represented by the version of the collection that it holds.  A
reflector lists (`StartList`, `FinishList`: the buffer replaces the store at once),
watches (`Event`), fails (`StreamError`) and goes on from where it was (`Rewatch`) or
lists again.  `Warm` is the second task, which sets the flag.  A handler looks at the
flags one by one (`Gate`), then at the stores (`Read`).  There is one flag per kind, as
in the code; the flag is a relaxed atomic, and as it only ever becomes true within a
process, reading it late can only make a handler fail.  Seen from outside (`Promise`), a
handler that has begun is asked, one whose answer was an error or was lost is unjudged, and
one that read its last store is judged on the view it read; `RecentViews` has none of the
stores, flags and streams, and chooses that view in one step.

**Delegation.**  `NarrowRoot` and `NarrowChild` are `/narrow` for a CREATE or UPDATE,
`AdmitPod` is `/admit`; `Store`, `Drop` and `Delete` are the API server's, which may
come any time after the wall's answer.  `Sync` makes the cache a copy of some state
that was current at that moment and then ages; it may happen as seldom as one likes,
which is how a lagging stream appears.  `past` remembers what a write or a deletion
replaced (`Leave`); an object is touched when it has a past.  Seen from outside
(`Promise`), there is neither a cache nor a pending write: `HeldAuthority` checks a
manifest against what its ancestors hold at the moment at which it is stored, and admits
a pod by a manifest that is or was stored.

**Decisions.**  `Grants` says whether a wall holds; `Refusals` says what the code lists
when it does not: one set per wall and kind, in the order in which `admit_inner`
pushes them.  `First` is the refusal that the chain and the answer name, `WorstRows`
the rows among which `worst_row` picks.  `Events` is the decision's chain (request,
charge, verdict), `Respond` the answer.  Rows are a set, so where the code takes the
first or the last of several equals, any of them may be named.  A standing is
"not-consulted" without `--trusted-keys`; with it, a review without a
submitter is held to the narrower reading like a submitter nobody listed.

**Quantities.**  A literal is the numbers in it and the form it has, not its characters.
`ParseCpu` and `ParseMemory` are the wall's reading, with checked arithmetic at
`MaxWord`; `CpuAmount` and `MemoryAmount` are Kubernetes' reading, exact and rounded up.
A literal that only Kubernetes accepts ("other") has an amount and no reading.

**Snapshots, PodCompiler, PodWall.**  `EgressFor`, `RbacFor`, `Rows`,
`EffectiveRequests` and `Compile` are the code's functions.  `Isolating`, `Reachable`,
`Identities` and `HeldRules` say what Kubernetes itself makes of the same objects, and
are written without the wall's operators so that the two can disagree; `HeldBy`, what
running containers hold, uses Kubernetes' reading of quantities.  A spec is a function
from places to containers, in the order of `all_containers` (`Ordered`: init
containers and sidecars before the others).  `Review` is
`/admit`: the pod compiles, the spend report is in the manifest's currency, and no wall
has a refusal; `Create`, `Relabel` and `Debug` are the three ways in which a pod's
effects can change under the webhook's rules.  `StartContainer` and `FinishInit` are the
kubelet: init containers and sidecars start in the order of the spec, and nothing
starts beside a running init container.

History variables, which the program does not have: the life that a checkpoint was
printed in (`AuditTrail`); `answered`, `intact` (`AuditedWall`); `pasts`, `earlier`
(`Caches`); `above`, `past`, `admitted` (`Delegation`); `peak` (`PodWall`).

## 4. The runs

### Passing

| run | instance | what it shows |
|---|---|---|
| `audited_wall` | two pods, two lives, an auditor | With failing writes, panics, timeouts, crashes and the loss of the volume: the ledger on disk names only complete decision files, an object that exists is in a printed checkpoint, every ledger begins with `WallStarted`, a decision is recorded once and by one life (`WitnessedOnce`), checkpoints describe the disk and do not fork, and the whole implements `WitnessedDecisions`.  A decision file that is torn belongs to no answered request (`TornIsUnanswered`); while the mutex is poisoned nothing more is witnessed, written, printed or allowed (`PoisonFailsClosed`).  An audit that runs meanwhile reports no deletion that did not happen (`DeletedIsGone`), calls no answered decision planted during the first life (`AnsweredIsWitnessed`), sees a first life's ledger contradict a checkpoint only if a second reading clears it (`ContradictionPasses`), and if it accepts against a checkpoint it has seen everything the checkpoint covers (`AcceptedIsComplete`). |
| `audit_trail_live` | one pod, one manifest, two lives | Every handler returns an answer or ends with its process (`HandlersReturn`): no error path keeps the mutex.  Without fairness: whoever holds the mutex is at work under it (`HolderWorks`), and every step of a handler, or of what happens to it, is one less to its answer (`HandlersAdvance`). |
| `caches` | two kinds that change once, two reviews, two lives | No verdict rests on an unlisted store; later reviews never see an older cluster; a handler can always take its next step (`NeverWaits`) and has only so many (`AnswersSoon`); stores, flags and handlers together implement `RecentViews` (`KeepsPromise`); under fairness the wall becomes ready and stays so, and every store catches up. |
| `delegation` | a ceiling, a team and an application in three namespaces, five specs, three pods, three writes, one admission | What is stored narrows its untouched parent (`Lineage`); an admitted pod is within every untouched ceiling above its manifest (`Delegated`), the images aside; the cache, its lag and its restarts, and the delay of writes, show only where an object was replaced or deleted (`KeepsPromise`). |
| `pod_wall` | one namespace beside another, three labellings, six policies, two roles, four bindings, eight specs, two debug containers, three submissions | The egress row agrees with what the cluster enforces (`EgressExact`); no creation, relabelling or debug container gives a pod an ability that the manifest does not grant (`AdmittedWithinCeiling`); bindings only ever add (`BindingsOnlyAdd`), also before their role is there (`DanglingIsSeen`); the chain ends with an admission exactly when the walls hold, and a refusal names a wall and an effect that are to blame (`RefusalNamesItsCause`); a pod that has come up holds what it is charged for (`ReservationSettles`), and at no moment before did it hold more than twice that (`ChargedForHalfAtLeast`). |

### Violations

Each checks one sentence of the repository's own documentation against the code; they
are explained in section 7: `ledger_always_valid`, `failed_means_undecided`,
`at_one_instant`, `images_delegated`, `named_destinations`, `open_blocks`,
`charged_for_what_it_holds`.

### Bounds, and why they are enough

- `MaxLives = 2` (`AuditTrail`, `Caches`): one restart is what distinguishes a
  volume that outlives the process from one that does not; the invariants are proved
  for any number.
- Two pods in `audited_wall`: one that holds the mutex and one that waits, or one
  filed and one witnessed.  A manifest differs from a pod only in having no file, and
  is in `audit_trail_live`.  Requests are interchangeable, so the run uses symmetry
  (it checks no liveness).
- `MaxVersion = 1`, two of the six kinds in `caches`: the kinds do not know of each
  other and differ only in whether they are read first.  The number of manifests at
  version 0 and 1 is one and two, so that the ambiguous namespace occurs.
  `at_one_instant` needs a third kind.
- `MaxWrites = 3`, `MaxPods = 1` (`delegation`): three writes build the chain of three
  or replace a parent under a child.  The specs differ from the ceiling in the budget,
  the names, an ordered boolean, the image prefixes and the isolation floor; any depth
  and any spec is proved.
- `MaxObjects = 2` (`pod_wall`): two policies are what a union of policies needs, a
  role and a binding to it a resolution.  A pod gets one debug container at most.
  `FewOnceStarted`: once containers have started, at most two policies, roles and bindings
  exist in all, because the kubelet looks at none of them; until then, every combination
  within `MaxObjects` meets every review.
  Specs are hand-picked: secrets, a second image, no requests, a request finer than a
  millicore, one that only Kubernetes reads, two that do not fit in a word
  together, init containers around a sidecar, a node path mounted read-only beside a
  dangerous capability, and one that nothing mounts.  The submissions are no keyring, a
  listed submitter, and nobody.  No container is without an image, and the
  blocks of `pod_wall` do not add up to the address space (see `Outsider` in section 6).
- `MaxWord = 20000` millicores or bytes: one spec's containers exceed it together, so
  that saturation happens.  It stands for 2^64 - 1, and `MaxMoney` for the largest sum of
  money; a committed amount plus a price does not reach it in any run.
- `MaxDigits = 4`: one digit more than a millicore can hold.  `Suffixes` is one of each
  family and none, with small multiples; `Gib` and the prices are small too, and the
  division by units keeps its rounding.

Deadlock is not checked in the audit trail's runs: a system that has used its lives,
answered its requests and ended its audit stops.  It is checked everywhere else.

## 5. Fairness

- `AuditTrail!Fairness`: weak fairness of every thread's own steps, because the runtime
  is multi-threaded and the operating system schedules its threads, and of `Restart`,
  because the kubelet restarts a container that ended.  `TakeLock` waits for the mutex;
  in the run at most two threads compete and the holder always leaves, so weak fairness
  is enough (`std::sync::Mutex` promises no order).  Nothing makes a request arrive, a
  write fail, a process crash or the API server time out.
- `Caches!CacheFairness`: weak fairness of starting a list or a watch, since
  `default_backoff` retries without end, and of setting the flag.  Strong fairness of
  `FinishList` and `Event`: an API server that answers again and again lets a list or an
  event through in the end.  That is an assumption about the environment; without
  it no cache ever becomes ready, and the code does not claim otherwise.  The handlers
  need none: `NeverWaits` is about what is enabled.
- `Delegation` and `PodWall` state only safety.

## 6. The proofs

All theorems hold for every value of the constants that satisfies the named
assumptions of the module; TLC evaluates the same assumptions in the runs.

**AuditTrailProofs** (assumes that requests, `Boot` and `Free` are distinct, and
`MaxLives \in Nat`).  `IInv` has one conjunct per kind of state:
`MutexInv` (the holder is exactly the thread between lock and return, and its entry
is in the chain), `StartInv` (requests are under way only while the wall serves, and
its chain then begins with `WallStarted`), `FileInv` (a pod that is in the chain or in
the ledger has a whole file and has left the steps that write it), `DiskInv` (a whole
ledger has begun, and equals the chain when a thread is about to announce),
`CheckpointInv` (checkpoints of this life are prefixes of the chain) and `AnswerInv`
(an answer "allowed" to a decided request comes after its checkpoint).  The
properties alone are not inductive: that a ledger names only filed pods says nothing
of the chain in memory, which becomes the ledger one step later, and that two
checkpoints of a life agree follows only from their being prefixes of one chain.
From it follow `NoFalseGap`, `Commitment`, `NoFork`, `Beginnings`, `CommitsToDisk` and
the `Refinement`: each step maps to `File`, `Commit`, `Create`, `LoseVolume` or to
nothing.  A second layer, `TraceInv`, is inductive on top of it and says what is left
behind in other places: what a life's checkpoints and ledger say of one another, and
which files may be torn.  From it follow `TornHarmless` and `PoisonIsFinal`.  A third,
`OnceInv`, says that whoever a ledger names has passed the witness for good, and that
what the chain shares with a checkpoint is of its own life; `RecordedOnce` follows.
`NoWayBack` and `MutexIsPassedOn` are what `HandlersReturn` rests on and can be proved: a
handler has a number of steps left which only sinks, and the one thing it can wait for,
the mutex, is with a thread that has work left.  That such threads do run is fairness,
and stays with TLC.

**AuditedWallProofs.**  The auditor only reads, so `AuditedSpec => Spec`
(`AuditorOnlyReads`) and every theorem about the wall carries over.  `AuditInv` says
what the auditor holds: as long as the volume is there, what its copy of the ledger names
is on the volume and is found when its turn comes (`CopyInv`); its checkpoint was
printed (`GivenInv`); who was answered before the audit is in the copy
(`AnsweredInv`).  `CopyInv` needs that a whole file stays (`WallKeeps`), which no
invariant of the wall says.  From it follow `NoFalseAlarm`, `AcceptanceIsSound`,
`AnswersAreKnown` and `RereadingClears`, for any number of requests and lives and any
placement of the auditor's steps.

**CachesProofs** (assumes that `Order` lists distinct kinds and that the bounds are
numbers).  What links flags and stores is that a flag comes after the list and is
cleared with the store (`ReadyInv`); what links reviews is that everything ever read
is at most as new as what the store holds, a list in progress will bring, and the
cluster has (`FloorInv`).  `GateInv` and `ReadInv` say how much of this a handler
half-way through has already secured.  From it follow `NoAbsence` and `Recency`.
The `Refinement` needs all of it at one step: when the last store is read, the view that
was gathered at several moments is listed, nowhere ahead of the cluster and nowhere behind
the views of the reviews that were judged before, so `RecentViews` could have chosen it
then.  Every other step asks, gives up (one handler, or with `Start` all of them), changes
the cluster, or is not seen.  `AnswersInTime` counts the steps that a handler has left.

**GrantsProofs.**  No induction and no state: case analysis on the axes and on the kinds
of effects.  `JoinIsLeast` and `RefusalHasCulprit` (the fold of demands is a least upper
bound, so a refusal has a row to blame), `NarrowingIsPreorder`, `NarrowingIsSound` (by
wall), `AdmissionsAreGranted`.

**DelegationProofs.**  A manifest carries, as history, the ceilings it was narrowed
against.  `GroundedInv`: wherever it is (stored, pending or cached), it narrows each of
them that is untouched, and they are its named parent and, while that one is untouched,
the ceilings of this one; `FreshInv`: what is cached of an object is what it is or what it
has been; `AdmittedInv`: an admitted pod passed such a manifest.  A chain of ceilings
collapses by `NarrowingIsPreorder`, and a pod climbs it by `NarrowingIsSound`.  From it
follow `LineageHolds` and `DelegationIsSound`, for hierarchies of any depth.
The `Refinement` needs each part once: a write that was decided on a cached parent may be
stored because it is grounded now (`StorePuts`), a pod may join because what decided it is
or was stored (`PodJoins`), and what the wall and its cache do otherwise is not seen
(`Invisible`).  `PromiseSuffices` closes the circle: `Lineage` and `Delegated` follow
from the promise alone, so any other implementation of it, say one that reads the API
server instead of a cache, has them too.

**PodWallProofs** (any policies, roles, bindings, specs, manifests, submissions and
debug containers of the types that `WallAssumption` names).  The invariant is that of
types, because a review reads all it depends on at one moment; the work is in lemmas about
the operators.  `SelectorsAgree` and `ReachIsExact` set the code's selection and
flattening beside Kubernetes' reading, for every labelling and any sets of policies:
`EgressHolds`.  `HeldIsSeen` says that a rule an account holds is in the snapshot, and
`RowsType`, `ReviewMeans` and `CoveredNeeds` take an ability through its row and its
demand to the field of the manifest that grants it: `ManifestIsCeiling`, for any pod.
`AncestorsAreCeilings` carries it up a chain of narrowings: no ability of the pod is
beyond what any manifest above its own grants (`GrantedNarrows`), images aside where its
own manifest empties the list.
`DanglingHolds` and `BindingsHold` follow from the same lemmas; `RecordTellsWhy` from
the order of the refusals (`FirstIsFirst`) and from `WorstRowExists`, which is
`RefusalHasCulprit` with the finiteness of levels.  `StandingOnlyNarrows` compares the
decisions of a wall with and without a keyring: only the trust wall differs
(`OnlyTrustDiffers`), it asks about the images exactly when a container's is in doubt
(`DoubtShows`), and the first reason given is otherwise the same (`SameFirst`).  It holds
of every decision, not only of those a run reaches, so it is stated without `Spec`.
`ReadingIsExact` says of every literal that what the wall reads is what Kubernetes holds.

**SumProofs.**  What the proofs about charges need of `SumFunctionOnSet`, the fold over a
finite set: it is a number, an element can be added or taken out, more elements give no
smaller sum, equal summands equal sums, and smaller summands no larger sum.  The library's induction theorems take an
operator as a parameter and cannot be cited; the recursive functions behind the fold are
compared instead by looking at the smallest set on which they would differ (`Smallest`,
`FoldsAgree`, `FoldExists`).

**ReservationProofs.**  `ReservationInv` follows the kubelet through the spec: of the
containers it has come to (`Started`), all run but the init containers, and of those one
at most (`InOrder`); what runs together, and each container ever started, is within the
peak (`AtPeak`); the pod was paid for (`Affords`).
`ReservationSettles` is not inductive, because it speaks of settled pods only and says
nothing of the way there.  A settled pod runs exactly the containers and sidecars that
`effective_requests` adds up, and each init container was once beside nothing but
sidecars; the sums of the two readings are the same by `AsksIsAmount`, and saturating
after each container is saturating once (`SaturatesInTurn`).
`SettlesHolds` says so without further assumption, with "or the charge is `MaxWord`" for
the requests that exceed a word.  `ReservationHolds` and `HalfHolds` (of the init
containers at most one runs, and the sidecars beside it are within the charge as it is)
assume `Unaffordable`: there is a price list, and no manifest's budget pays for `MaxWord`
millicores or bytes, that is 2^64 - 1 of either.  Then a pod whose sum saturates is refused
for its price.  It holds in the run `pod_wall`, whose budgets are below the price of its small
word; without it the code charges a saturated sum and lets the pod pass.

`MoreIsCharged` compares two specs: one that asks for more is never charged or priced less,
although sums saturate, the larger of two is taken and a price is rounded down twice.
`ChargeIsSettled` applies it both ways to the changes of a stored pod.

`EgressHolds`, `ManifestIsCeiling` and `AncestorsAreCeilings` assume `Outsider`: some host lies outside every
block that the code does not take for the whole network and outside every selector that a
policy names.  Without it several narrow blocks could add up to the address
space, or one could be all of it in another spelling, and the code would say
"allowlist"; the run `open_blocks` shows the second.

Only model-checked: liveness (`HandlersReturn`, `BecomesReady`, `CatchesUp`) and
`NeverWaits` (it is about `ENABLED`), which are out of the prover's reach, and the
violations.  Every other property of the passing runs is a theorem.

## 7. Where documents and code disagree

- **A ledger that is no JSON** (`ledger_always_valid`).  `std::fs::write` truncates and
  then writes, so `ledger.json` is not "a single valid JSON document at every instant"
  (`src/serve/ledger.rs:95-98`).  A write to a temporary file and a rename would make
  it so.
- **Undecided, and on record** (`failed_means_undecided`).  When the rewrite fails, the
  entry stays in the chain in memory.  The client is told that the wall "could not run,
  so it did not decide" (`src/review.rs:259`), and the next witness writes the entry
  to disk.
- **Not one instant** (`at_one_instant`).  The stores of a snapshot are read one after the
  other and fed apart from each other, so a verdict may rest on a combination that the
  cluster never was in (`src/serve/snapshot.rs:400`, `src/cluster.rs:33`).
- **An emptied list of prefixes** (`images_delegated`).  Narrowing reads the empty
  `imagePrefixes` as the tightest list, admission reads it as no check
  (`src/facet.rs:161`).  A child that empties it keeps a narrowing parent and gives up
  a check of that parent.  `Delegated` therefore leaves images out when the list is
  empty, and `NarrowingIsSound` has the premise.
- **Unnamed destinations** (`named_destinations`).  The facet accepts every row whose
  reach is an allowlist and compares no destination with `egress`, while
  `README.md:360` says that it refuses `exfil.example.com`.
- **A /0 in another spelling** (`open_blocks`).  `is_unrestricted` promises that "a `/0`
  CIDR is unrestricted however it is spelled" (`src/cluster.rs:87`) and compares with
  two strings (`:90`); the test beside it tries those two.  A policy that allows
  `10.0.0.0/0` opens the pod and is read as an allowlist.
- **A sidecar beside an init container** (`charged_for_what_it_holds`).  The charge is
  the larger of two sums that Kubernetes adds when a sidecar precedes an init
  container; for that time the pod holds more than "what it holds" was computed as
  (`README.md:535-536`).  `ReservationSettles` states what does hold: the charge is right
  once the pod is up.  `ChargedForHalfAtLeast` bounds the error on the way: a factor of
  two, whatever the spec.

Smaller disagreements, without a run: `admission.rs:692` speaks of an option
`--refuse-unenforceable-egress` that no command has; `price` rounds down twice, where
its comment speaks of one truncation; `worst_row` takes the greatest demand among the
rows that are not covered, and its comment says the row that exceeds the grant by the most.

A container that restarts keeps the emptyDir, and `Ledger::start` begins a fresh chain
over the ledger of the earlier life.  An auditor who holds a checkpoint of that life is
told of a contradiction although nobody touched the volume.  `README.md:660-665` counts
only the loss of the volume, `deploy/deployment.yaml:105-108` a restarted pod too;
`ContradictionPasses` is about the first life for that reason.

## 8. Not modelled, and what is abstracted

- **Not modelled:** the parsing and printing of JSON, YAML and Kubernetes objects; the
  characters of a quantity; TLS, options and certificates; hashes, signatures and seals
  (taken as sound); provenance strings and the wording of reasons and warnings; the
  commands that only call modelled operators.
- **External, from how the code uses it:** `Level::rank` and `Grant::narrow` of
  `lex_os_manifest`, `lex_chain`, kube-rs' watcher and store, `std::fs::write` and
  `std::sync::Mutex`, the API server, the kubelet and the log collector.
- **A single replica**, as `deploy/deployment.yaml` has it and says why.
- **Names are members of sets.**  That an image has a prefix, that two spellings name one
  capability, and which hosts a CIDR contains are constants of the modules.
- **One namespace's pods at a time.**  `PodWall` has one pod; the spend report is read at
  start-up, so pods do not see each other's charges in the code either.
- **Money.**  The sum of a namespace's committed amount and a pod's price is not
  saturated in `Grants`; the two differ only under a budget of 2^64 - 1.  The currency of
  the price list is not compared with anything in the code, nor here.  A pod that
  declares one of cpu and memory is priced with zero for the other, as in the code.
- **Caches are current in `PodWall`** and manifests stay; lag is in `Caches` and
  `Delegation`.
