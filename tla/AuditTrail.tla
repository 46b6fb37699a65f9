------------------------------ MODULE AuditTrail ------------------------------
(***************************************************************************)
(* The writing side of the wall's audit trail, for a wall that serves with *)
(* --audit-dir: the handler threads of /admit and /narrow, the decision    *)
(* files, the ledger behind its mutex, ledger.json, and the checkpoints    *)
(* printed to stdout (serve/handlers.rs, serve/ledger.rs, serve/mod.rs).   *)
(*                                                                         *)
(* Handlers run on a multi-threaded runtime and contain no await once the  *)
(* body is read, so a started handler is never cancelled; the threads      *)
(* interleave between any two file or lock operations.  std::fs::write     *)
(* opens with truncation and then writes: two steps, between which another *)
(* thread, a reader or the end of the process may come.                    *)
(*                                                                         *)
(* What a verdict is decided on (caches, manifest, walls) is left to other *)
(* modules: here a decision is any of the outcomes the handler can reach.  *)
(***************************************************************************)
EXTENDS Integers, SequencesExt

CONSTANTS
    Pods,       \* the AdmissionReviews posted to /admit
    Manifests,  \* the AdmissionReviews posted to /narrow
    Boot,       \* the thread of serve::run, up to binding the socket
    Free,       \* the ledger mutex when nobody holds it
    MaxLives    \* bound: how often the process is started

Requests == Pods \cup Manifests
Threads  == Requests \cup {Boot}

ASSUME ThreadsDistinct ==
    /\ Pods \cap Manifests = {}
    /\ Boot \notin Requests
    /\ Free \notin Threads

ASSUME LivesAssumption == MaxLives \in Nat

VARIABLES
    pc,         \* where each thread is
    verdict,    \* what each decision said: admit or deny, none before it
    reply,      \* the response a handler has returned
    outcome,    \* what became of the request at the API server
    lock,       \* holder of Ledger.inner, or Free
    poisoned,   \* a thread panicked while it held the mutex
    chain,      \* the ledger in memory: the thread of each entry, in order
    ledgerFile, \* ledger.json
    files,      \* the decision file of each pod: absent, torn or whole
    announced,  \* the checkpoint lines on stdout, kept by a log collector
    life        \* how often the process has been started

trail   == <<lock, poisoned, chain, ledgerFile, files, announced>>
request == <<verdict, reply, outcome>>
vars    == <<pc, request, trail, life>>

(* The places a handler goes through; Boot uses those from "witness" on.   *)
Critical == {"locked", "rewriting", "announce"}
InFlight == {"deciding", "filing", "open", "witness", "reply"} \cup Critical
Place    == {"idle", "done", "lost"} \cup InFlight

(* A file is absent, torn (what it holds is the JSON of no chain) or whole. *)
FileState == {"absent", "torn", "whole"}
Ledger    == [state : FileState, log : Seq(Threads)]
NoLedger   == [state |-> "absent", log |-> << >>]
TornLedger == [state |-> "torn", log |-> << >>]

Checkpoint == [life : 0..MaxLives, log : Seq(Threads)]

(* Boot is idle while the process is down and done once it serves.         *)
Up == pc[Boot] # "idle"

(* Mutant of Serving: the socket is bound before the ledger has begun.     *)
ServingAtOnce == Up

Serving == pc[Boot] = "done"

Init ==
    /\ pc = [t \in Threads |-> "idle"]
    /\ verdict = [r \in Requests |-> "none"]
    /\ reply   = [r \in Requests |-> "none"]
    /\ outcome = [r \in Requests |-> "unsent"]
    /\ lock = Free
    /\ poisoned = FALSE
    /\ chain = << >>
    /\ ledgerFile = NoLedger
    /\ files = [p \in Pods |-> "absent"]
    /\ announced = {}
    /\ life = 0

Move(t, from, to) ==
    /\ pc[t] = from
    /\ pc' = [pc EXCEPT ![t] = to]

(* The handler returns: what follows is only the delivery.                 *)
Return(r, from, answer) ==
    /\ Move(r, from, "reply")
    /\ reply' = [reply EXCEPT ![r] = answer]

-------------------------------------------------------------------------------
(* The API server and the decision                                         *)

Arrive(r) ==
    /\ Serving
    /\ Move(r, "idle", "deciding")
    /\ outcome' = [outcome EXCEPT ![r] = "waiting"]
    /\ UNCHANGED <<verdict, reply, trail, life>>

(* /admit up to its verdict.  Failing covers the unreadable review, cold   *)
(* caches, a missing, ambiguous or unreadable LexManifest, and a pod or a  *)
(* spend report admit() cannot evaluate: nothing of these is recorded.     *)
DecidePod(p) ==
    \/ \E v \in {"admit", "deny"} :
          /\ Move(p, "deciding", "filing")
          /\ verdict' = [verdict EXCEPT ![p] = v]
          /\ UNCHANGED <<reply, outcome, trail, life>>
    \/ /\ Return(p, "deciding", "failed")
       /\ UNCHANGED <<verdict, outcome, trail, life>>

(* /narrow up to its verdict.  A child without a parent is allowed, and an *)
(* unreadable child or an unresolvable or unreadable parent refused, with  *)
(* no witness; a cold cache is a failure.                                  *)
DecideManifest(m) ==
    \/ \E v \in {"admit", "deny"} :
          /\ Move(m, "deciding", "witness")
          /\ verdict' = [verdict EXCEPT ![m] = v]
          /\ UNCHANGED <<reply, outcome, trail, life>>
    \/ \E answer \in {"allowed", "refused", "failed"} :
          /\ Return(m, "deciding", answer)
          /\ UNCHANGED <<verdict, outcome, trail, life>>

-------------------------------------------------------------------------------
(* The decision file                                                       *)

(* Mutant of OpenDecision: the error of the write is logged and ignored.   *)
OpenDecisionUnchecked(p) ==
    \/ /\ Move(p, "filing", "open")
       /\ files' = [files EXCEPT ![p] = "torn"]
       /\ UNCHANGED <<request, lock, poisoned, chain, ledgerFile, announced, life>>
    \/ /\ Move(p, "filing", "witness")
       /\ UNCHANGED <<request, trail, life>>

(* Opening truncates.  When it fails the file is as it was.  (A file's     *)
(* name is the second and the review's uid, which is unique to the review, *)
(* so no two pods share one.)                                              *)
OpenDecision(p) ==
    \/ /\ Move(p, "filing", "open")
       /\ files' = [files EXCEPT ![p] = "torn"]
       /\ UNCHANGED <<request, lock, poisoned, chain, ledgerFile, announced, life>>
    \/ /\ Return(p, "filing", "failed")
       /\ UNCHANGED <<verdict, outcome, trail, life>>

(* Mutant of WriteDecision: a decision that is only opened is witnessed.    *)
WriteDecisionUnchecked(p) ==
    /\ Move(p, "open", "witness")
    /\ \/ files' = [files EXCEPT ![p] = "whole"]
       \/ files' = files
    /\ UNCHANGED <<request, lock, poisoned, chain, ledgerFile, announced, life>>

WriteDecision(p) ==
    \/ /\ Move(p, "open", "witness")
       /\ files' = [files EXCEPT ![p] = "whole"]
       /\ UNCHANGED <<request, lock, poisoned, chain, ledgerFile, announced, life>>
    \/ /\ Return(p, "open", "failed")
       /\ UNCHANGED <<verdict, outcome, trail, life>>

-------------------------------------------------------------------------------
(* Ledger::witness                                                         *)

(* The entry is appended in memory as soon as the mutex is held.           *)
TakeLock(t) ==
    /\ Move(t, "witness", "locked")
    /\ lock = Free
    /\ ~poisoned
    /\ lock' = t
    /\ chain' = Append(chain, t)
    /\ UNCHANGED <<request, poisoned, ledgerFile, files, announced, life>>

(* Mutant of LockPoisoned: an unwitnessed decision is answered all the same. *)
LockPoisonedAllows(r) ==
    /\ Return(r, "witness", IF verdict[r] = "admit" THEN "allowed" ELSE "refused")
    /\ lock = Free
    /\ poisoned
    /\ UNCHANGED <<verdict, outcome, trail, life>>

(* Mutant of LockPoisoned: the mutex is recovered with a fresh chain.      *)
LockPoisonedResets(r) ==
    /\ Move(r, "witness", "locked")
    /\ lock = Free
    /\ poisoned
    /\ lock' = r
    /\ poisoned' = FALSE
    /\ chain' = <<r>>
    /\ UNCHANGED <<request, ledgerFile, files, announced, life>>

LockPoisoned(r) ==
    /\ Return(r, "witness", "failed")
    /\ lock = Free
    /\ poisoned
    /\ UNCHANGED <<verdict, outcome, trail, life>>

OpenLedger(t) ==
    /\ Move(t, "locked", "rewriting")
    /\ ledgerFile' = TornLedger
    /\ UNCHANGED <<request, lock, poisoned, chain, files, announced, life>>

(* Mutant of WriteLedger: the guard is dropped before the announcement.    *)
WriteLedgerUnlocks(t) ==
    /\ Move(t, "rewriting", "announce")
    /\ ledgerFile' = [state |-> "whole", log |-> chain]
    /\ lock' = Free
    /\ UNCHANGED <<request, poisoned, chain, files, announced, life>>

WriteLedger(t) ==
    /\ Move(t, "rewriting", "announce")
    /\ ledgerFile' = [state |-> "whole", log |-> chain]
    /\ UNCHANGED <<request, lock, poisoned, chain, files, announced, life>>

(* Mutant of WitnessFails: the error path leaks the guard.                 *)
WitnessFailsLocked(r) ==
    /\ Return(r, pc[r], "failed")
    /\ pc[r] \in {"locked", "rewriting"}
    /\ UNCHANGED <<verdict, outcome, trail, life>>

(* Mutant of WitnessFails: a failed witness is tried again from the start. *)
WitnessFailsRetries(r) ==
    /\ pc[r] \in {"locked", "rewriting"}
    /\ Move(r, pc[r], "witness")
    /\ lock' = Free
    /\ UNCHANGED <<request, poisoned, chain, ledgerFile, files, announced, life>>

(* LedgerError::Write, from the opening or from the writing: the guard is  *)
(* dropped, and the entry stays in memory.  (While booting, the same error *)
(* ends the process: Crash.)                                               *)
WitnessFails(r) ==
    /\ Return(r, pc[r], "failed")
    /\ pc[r] \in {"locked", "rewriting"}
    /\ lock' = Free
    /\ UNCHANGED <<verdict, outcome, poisoned, chain, ledgerFile, files,
                   announced, life>>

(* Mutant of Announce: the verdict is sent as if it were the response.     *)
AnnounceVerdict(t) ==
    /\ announced' = announced \cup {[life |-> life, log |-> chain]}
    /\ lock' = Free
    /\ IF t = Boot
       THEN /\ Move(t, "announce", "done")
            /\ UNCHANGED reply
       ELSE Return(t, "announce", verdict[t])
    /\ UNCHANGED <<verdict, outcome, poisoned, chain, ledgerFile, files, life>>

(* The checkpoint line; witness() returns and the handler answers with its *)
(* verdict, while serve::run goes on to bind the socket.                   *)
Announce(t) ==
    /\ announced' = announced \cup {[life |-> life, log |-> chain]}
    /\ lock' = Free
    /\ IF t = Boot
       THEN /\ Move(t, "announce", "done")
            /\ UNCHANGED reply
       ELSE Return(t, "announce",
                   IF verdict[t] = "admit" THEN "allowed" ELSE "refused")
    /\ UNCHANGED <<verdict, outcome, poisoned, chain, ledgerFile, files, life>>

(* Anything that panics between lock() and the end of witness().           *)
Panic(r) ==
    /\ pc[r] \in Critical
    /\ Move(r, pc[r], "lost")
    /\ outcome' = [outcome EXCEPT ![r] = "rejected"]
    /\ lock' = Free
    /\ poisoned' = TRUE
    /\ UNCHANGED <<verdict, reply, chain, ledgerFile, files, announced, life>>

-------------------------------------------------------------------------------
(* The answer.  failurePolicy: Fail makes an error or a timeout of the     *)
(* webhook a rejection; the handler does not learn of either.              *)

Deliver(r) ==
    /\ Move(r, "reply", "done")
    /\ IF outcome[r] = "waiting"
       THEN outcome' = [outcome EXCEPT
                           ![r] = IF reply[r] = "allowed" THEN "created" ELSE "rejected"]
       ELSE UNCHANGED outcome
    /\ UNCHANGED <<verdict, reply, trail, life>>

TimeOut(r) ==
    /\ outcome[r] = "waiting"
    /\ outcome' = [outcome EXCEPT ![r] = "rejected"]
    /\ UNCHANGED <<pc, verdict, reply, trail, life>>

-------------------------------------------------------------------------------
(* The process                                                             *)

(* Threads, memory and mutex go; requests in flight lose their connection. *)
Die ==
    /\ pc' = [t \in Threads |-> IF t = Boot THEN "idle"
                                ELSE IF pc[t] \in InFlight THEN "lost" ELSE pc[t]]
    /\ outcome' = [r \in Requests |->
                      IF outcome[r] = "waiting" THEN "rejected" ELSE outcome[r]]
    /\ lock' = Free
    /\ poisoned' = FALSE
    /\ chain' = << >>
    /\ UNCHANGED <<verdict, reply, announced, life>>

(* The container ends; an emptyDir volume outlives it.                     *)
Crash ==
    /\ Up
    /\ Die
    /\ UNCHANGED <<ledgerFile, files>>

(* The pod is deleted or moved, and its emptyDir with it.                  *)
Evict ==
    /\ Up
    /\ Die
    /\ ledgerFile' = NoLedger
    /\ files' = [p \in Pods |-> "absent"]

(* Ledger::start: a fresh chain, and WallStarted witnessed before serving. *)
Restart ==
    /\ Move(Boot, "idle", "witness")
    /\ life < MaxLives
    /\ life' = life + 1
    /\ UNCHANGED <<request, trail>>

-------------------------------------------------------------------------------

WitnessStep(t) == TakeLock(t) \/ OpenLedger(t) \/ WriteLedger(t) \/ Announce(t)

PodStep(p) == DecidePod(p) \/ OpenDecision(p) \/ WriteDecision(p)

RequestStep(r) == LockPoisoned(r) \/ WitnessFails(r) \/ Deliver(r)

Next ==
    \/ \E t \in Threads : WitnessStep(t)
    \/ \E p \in Pods : PodStep(p)
    \/ \E m \in Manifests : DecideManifest(m)
    \/ \E r \in Requests : Arrive(r) \/ RequestStep(r) \/ Panic(r) \/ TimeOut(r)
    \/ Crash
    \/ Evict
    \/ Restart

Spec == Init /\ [][Next]_vars

(* The runtime runs every thread that can run, and the kubelet restarts    *)
(* the container.  Nothing makes a request arrive, a crash happen or the   *)
(* API server lose patience.                                               *)
Fairness ==
    /\ \A t \in Threads : WF_vars(WitnessStep(t))
    /\ \A p \in Pods : WF_vars(PodStep(p))
    /\ \A m \in Manifests : WF_vars(DecideManifest(m))
    /\ \A r \in Requests : WF_vars(RequestStep(r))
    /\ WF_vars(Restart)

FairSpec == Spec /\ Fairness

-------------------------------------------------------------------------------
(* Correctness                                                             *)

TypeOK ==
    /\ pc \in [Threads -> Place]
    /\ verdict \in [Requests -> {"none", "admit", "deny"}]
    /\ reply \in [Requests -> {"none", "allowed", "refused", "failed"}]
    /\ outcome \in [Requests -> {"unsent", "waiting", "created", "rejected"}]
    /\ lock \in Threads \cup {Free}
    /\ poisoned \in BOOLEAN
    /\ chain \in Seq(Threads)
    /\ ledgerFile \in Ledger
    /\ files \in [Pods -> FileState]
    /\ announced \subseteq Checkpoint
    /\ life \in 0..MaxLives

(* The wall itself never causes a gap: every pod decision that the ledger  *)
(* on disk names has its complete decision file beside it, whatever else   *)
(* fails, panics or restarts ("witnessed after the decision is on disk,    *)
(* never before").                                                         *)
LedgerNamesFiles ==
    \A p \in Pods : Contains(ledgerFile.log, p) => files[p] = "whole"

(* What the API server acted on is committed to: an object that exists     *)
(* because the wall allowed it (but for a manifest without a parent, which *)
(* is not witnessed) is in a checkpoint that stdout already carries, even  *)
(* if the process, the mutex or the volume is lost afterwards.             *)
CreatedIsCommitted ==
    \A r \in Requests :
        outcome[r] = "created" /\ verdict[r] # "none"
            => \E cp \in announced : Contains(cp.log, r)

(* "append, write, then announce": a checkpoint never commits to a ledger  *)
(* that is not, whole and entire, the one on disk at that moment.          *)
CheckpointOnDisk ==
    [][\A cp \in announced' \ announced :
          ledgerFile' = [state |-> "whole", log |-> cp.log]]_vars

(* A collector never sees one life of the wall fork: of two checkpoints of *)
(* one process, one extends the other.                                     *)
CheckpointsAgree ==
    \A c, d \in announced :
        c.life = d.life => IsPrefix(c.log, d.log) \/ IsPrefix(d.log, c.log)

(* WallStarted is first in every ledger, on disk and committed to, however *)
(* requests race the start.                                                *)
LedgersBegin ==
    \A log \in {cp.log : cp \in announced} \cup
               (IF ledgerFile.state = "whole" THEN {ledgerFile.log} ELSE {}) :
        log # << >> /\ log[1] = Boot

(* A decision is recorded once: no ledger, in memory, on disk or committed *)
(* to, names a request twice, although a failed rewrite leaves its entry   *)
(* behind, and no request is committed to by two lives of the wall, which  *)
(* begin a fresh chain each and know nothing of one another.               *)
WitnessedOnce ==
    /\ \A log \in {chain, ledgerFile.log} \cup {cp.log : cp \in announced} :
          IsInjective(log)
    /\ \A c, d \in announced : \A r \in Requests :
          Contains(c.log, r) /\ Contains(d.log, r) => c.life = d.life

(* A write that failed or was cut off leaves a torn decision file, which   *)
(* nothing cleans up and at which every later audit of the volume ends.    *)
(* It is never that of a decision: the wall has told nobody of one, and no *)
(* ledger, in memory, on disk or committed to, will ever name it.          *)
TornIsUnanswered ==
    \A p \in Pods : files[p] = "torn" =>
        /\ reply[p] \in {"none", "failed"} /\ outcome[p] # "created"
        /\ \A log \in {chain, ledgerFile.log} \cup {cp.log : cp \in announced} :
              ~Contains(log, p)

(* A poisoned mutex fails closed until the process is restarted: /readyz   *)
(* keeps the wall in rotation, but what it decides meanwhile is neither    *)
(* recorded nor answered as a decision.                                    *)
PoisonFailsClosed ==
    [][poisoned /\ poisoned' =>
          /\ UNCHANGED <<chain, ledgerFile, announced>>
          /\ \A r \in Requests :
                verdict[r] # "none" /\ reply'[r] # reply[r] => reply'[r] = "failed"]_vars

(* Seen from outside, the trail is WitnessedDecisions: this is what the     *)
(* order of the handler (file, witness, announce, answer) achieves for all *)
(* interleavings, failures and restarts.                                   *)
Promise == INSTANCE WitnessedDecisions WITH
    filed     <- {p \in Pods : files[p] = "whole"},
    committed <- {r \in Requests : \E cp \in announced : Contains(cp.log, r)},
    created   <- {r \in Requests : outcome[r] = "created" /\ verdict[r] # "none"}

KeepsPromise == Promise!Spec

(* Every handler that started returns an answer, unless its process or its *)
(* thread ends: no error path keeps the mutex.                             *)
HandlersReturn ==
    \A r \in Requests : pc[r] = "deciding" ~> pc[r] \in {"done", "lost"}

(* What that answer rests on, without time.  Nothing that a handler does,   *)
(* or that happens to it, sends it back: it witnesses once, and every step  *)
(* is one less to its answer.                                              *)
Remaining ==
    [idle |-> 9, deciding |-> 8, filing |-> 7, open |-> 6, witness |-> 5, locked |-> 4,
     rewriting |-> 3, announce |-> 2, reply |-> 1, done |-> 0, lost |-> 0]

HandlersAdvance ==
    [][\A r \in Requests :
          pc'[r] # pc[r] => Remaining[pc'[r]] < Remaining[pc[r]]]_vars

(* And nobody waits for a thread that will not let go: the mutex is held   *)
(* only by a thread that still has to rewrite the ledger or announce it,   *)
(* whatever failed, panicked or was restarted since it was taken.          *)
HolderWorks == lock # Free => pc[lock] \in Critical

(* What documents and comments say of the trail, and the code does not do. *)

(* "keeps it a single valid JSON document at every instant": from the first *)
(* complete ledger on, a reader never finds a torn one.                    *)
LedgerAlwaysValid == Serving => ledgerFile.state # "torn"

(* "could not run, so it did not decide": a request answered so has no     *)
(* decision on record.                                                     *)
FailedMeansUndecided ==
    \A r \in Requests : reply[r] = "failed" => ~Contains(ledgerFile.log, r)
===============================================================================
