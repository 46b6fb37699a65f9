--------------------------- MODULE AuditTrailProofs ---------------------------
(* Theorems about AuditTrail, for any requests and any number of restarts.  *)
EXTENDS AuditTrail, TLAPS

-------------------------------------------------------------------------------
(* Ledgers as sequences                                                    *)

(* What a longer ledger keeps of a shorter one, and what an append adds.   *)
LEMMA PrefixSelf ==
    ASSUME NEW S, NEW s \in Seq(S)
    PROVE  IsPrefix(s, s)
BY DEF IsPrefix

LEMMA PrefixAppend ==
    ASSUME NEW S, NEW s \in Seq(S), NEW t \in Seq(S), NEW e \in S, IsPrefix(s, t)
    PROVE  IsPrefix(s, Append(t, e))
<1>1. Len(s) <= Len(t) /\ Len(Append(t, e)) = Len(t) + 1
  BY DEF IsPrefix
<1>2. SubSeq(Append(t, e), 1, Len(s)) = SubSeq(t, 1, Len(s))
  BY <1>1
<1> QED
  BY <1>1, <1>2 DEF IsPrefix

(* An append adds its own entry and no other.                              *)
LEMMA ContainsAppend ==
    ASSUME NEW S, NEW s \in Seq(S), NEW e \in S
    PROVE  /\ Contains(Append(s, e), e)
           /\ \A x : Contains(Append(s, e), x) => x = e \/ Contains(s, x)
           /\ \A x : Contains(s, x) => Contains(Append(s, e), x)
<1>1. /\ Len(Append(s, e)) = Len(s) + 1
      /\ Append(s, e)[Len(s) + 1] = e
      /\ \A i \in 1..Len(s) : Append(s, e)[i] = s[i]
  OBVIOUS
<1>2. Len(s) \in Nat
  OBVIOUS
<1>3. Contains(Append(s, e), e)
  BY <1>1, <1>2 DEF Contains
<1>4. ASSUME NEW x, Contains(Append(s, e), x)
      PROVE  x = e \/ Contains(s, x)
  BY <1>1, <1>2, <1>4 DEF Contains
<1>5. ASSUME NEW x, Contains(s, x)
      PROVE  Contains(Append(s, e), x)
  BY <1>1, <1>2, <1>5 DEF Contains
<1> QED
  BY <1>3, <1>4, <1>5

-------------------------------------------------------------------------------
(* Type correctness                                                        *)

LEMMA ThreadSets ==
    /\ Pods \subseteq Requests /\ Manifests \subseteq Requests
    /\ Requests \subseteq Threads /\ Boot \in Threads
    /\ Boot \notin Requests
    /\ \A t \in Threads : t # Boot => t \in Requests
BY ThreadsDistinct DEF Requests, Threads

(* Every variable keeps its type through every step of every handler, of   *)
(* the API server and of the process.                                      *)
LEMMA TypeStep == TypeOK /\ [Next]_vars => TypeOK'
<1> SUFFICES ASSUME TypeOK, [Next]_vars
             PROVE  TypeOK'
  OBVIOUS
<1> USE ThreadSets, LivesAssumption
        DEF TypeOK, Place, InFlight, Critical, FileState, Ledger, Checkpoint,
            Move, Return, request, trail
<1>1. ASSUME NEW t \in Threads, TakeLock(t) PROVE TypeOK'
  BY <1>1 DEF TakeLock
<1>2. ASSUME NEW t \in Threads, OpenLedger(t) PROVE TypeOK'
  BY <1>2 DEF OpenLedger, TornLedger
<1>3. ASSUME NEW t \in Threads, WriteLedger(t) PROVE TypeOK'
  BY <1>3 DEF WriteLedger
<1>4. ASSUME NEW t \in Threads, Announce(t) PROVE TypeOK'
  <2>1. announced' \subseteq Checkpoint
    BY <1>4 DEF Announce
  <2>2. /\ pc' \in [Threads -> Place]
        /\ reply' \in [Requests -> {"none", "allowed", "refused", "failed"}]
    <3>1. CASE t = Boot
      BY <1>4, <3>1 DEF Announce
    <3>2. CASE t # Boot
      BY <1>4, <3>2 DEF Announce
    <3> QED
      BY <3>1, <3>2
  <2> QED
    BY <1>4, <2>1, <2>2 DEF Announce
<1>5. ASSUME NEW p \in Pods, DecidePod(p) PROVE TypeOK'
  BY <1>5 DEF DecidePod
<1>6. ASSUME NEW p \in Pods, OpenDecision(p) PROVE TypeOK'
  <2>1. pc' \in [Threads -> Place] /\ files' \in [Pods -> FileState]
    BY <1>6 DEF OpenDecision
  <2>2. reply' \in [Requests -> {"none", "allowed", "refused", "failed"}]
    BY <1>6 DEF OpenDecision
  <2> QED
    BY <1>6, <2>1, <2>2 DEF OpenDecision
<1>7. ASSUME NEW p \in Pods, WriteDecision(p) PROVE TypeOK'
  BY <1>7 DEF WriteDecision
<1>8. ASSUME NEW m \in Manifests, DecideManifest(m) PROVE TypeOK'
  <2>1. CASE \E v \in {"admit", "deny"} :
                 /\ Move(m, "deciding", "witness")
                 /\ verdict' = [verdict EXCEPT ![m] = v]
                 /\ UNCHANGED <<reply, outcome, trail, life>>
    BY <2>1
  <2>2. ASSUME NEW answer \in {"allowed", "refused", "failed"},
               Return(m, "deciding", answer),
               UNCHANGED <<verdict, outcome, trail, life>>
        PROVE  TypeOK'
    BY <2>2
  <2> QED
    BY <1>8, <2>1, <2>2 DEF DecideManifest
<1>9. ASSUME NEW r \in Requests, Arrive(r) PROVE TypeOK'
  BY <1>9 DEF Arrive
<1>10. ASSUME NEW r \in Requests, LockPoisoned(r) PROVE TypeOK'
  BY <1>10 DEF LockPoisoned
<1>11. ASSUME NEW r \in Requests, WitnessFails(r) PROVE TypeOK'
  BY <1>11 DEF WitnessFails
<1>12. ASSUME NEW r \in Requests, Deliver(r) PROVE TypeOK'
  BY <1>12 DEF Deliver
<1>13. ASSUME NEW r \in Requests, Panic(r) PROVE TypeOK'
  BY <1>13 DEF Panic
<1>14. ASSUME NEW r \in Requests, TimeOut(r) PROVE TypeOK'
  BY <1>14 DEF TimeOut
<1>15. ASSUME Die PROVE /\ pc' \in [Threads -> Place]
                        /\ outcome' \in [Requests -> {"unsent", "waiting", "created", "rejected"}]
                        /\ chain' \in Seq(Threads)
  BY <1>15 DEF Die
<1>16. CASE Crash
  BY <1>15, <1>16 DEF Crash, Die
<1>17. CASE Evict
  BY <1>15, <1>17 DEF Evict, Die, NoLedger
<1>18. CASE Restart
  BY <1>18 DEF Restart
<1>19. CASE UNCHANGED vars
  BY <1>19 DEF vars
<1> QED
  BY <1>1, <1>2, <1>3, <1>4, <1>5, <1>6, <1>7, <1>8, <1>9, <1>10, <1>11, <1>12,
     <1>13, <1>14, <1>16, <1>17, <1>18, <1>19
     DEF Next, WitnessStep, PodStep, RequestStep

LEMMA TypeInit == Init => TypeOK
<1> SUFFICES ASSUME Init PROVE TypeOK
  OBVIOUS
<1>1. << >> \in Seq(Threads)
  OBVIOUS
<1>2. ledgerFile \in Ledger
  BY <1>1 DEF Init, NoLedger, Ledger, FileState
<1>3. pc \in [Threads -> Place] /\ files \in [Pods -> FileState]
  BY DEF Init, Place, FileState
<1>4. life \in 0..MaxLives /\ announced \subseteq Checkpoint
  BY LivesAssumption DEF Init
<1> QED
  BY <1>1, <1>2, <1>3, <1>4 DEF Init, TypeOK

(* Every variable of the trail always has its type.                        *)
THEOREM TypeCorrect == Spec => []TypeOK
<1>1. Init => TypeOK
  BY TypeInit
<1>2. TypeOK /\ [Next]_vars => TypeOK'
  BY TypeStep
<1> QED
  BY <1>1, <1>2, PTL DEF Spec

-------------------------------------------------------------------------------
(* The inductive invariant                                                 *)

(* The mutex: exactly the thread between lock() and the end of witness()   *)
(* holds it, and its entry is in the chain.                                *)
MutexInv ==
    \A t \in Threads :
        /\ pc[t] \in Critical <=> lock = t
        /\ pc[t] \in Critical => Contains(chain, t)

(* The process: requests are under way only while it serves, and its chain *)
(* begins with WallStarted from the moment Boot has witnessed it.          *)
StartInv ==
    /\ \A r \in Requests : pc[r] \in InFlight => Serving
    /\ pc[Boot] \in {"idle", "witness"} => chain = << >>
    /\ pc[Boot] \notin {"idle", "witness"} => chain # << >> /\ chain[1] = Boot

(* The decision files: made by their own handler alone, whole before the   *)
(* witness, and not touched after.                                         *)
Past == Critical \cup {"reply", "done", "lost"}

FileInv ==
    \A p \in Pods :
        /\ pc[p] \in {"idle", "deciding", "filing"} => files[p] = "absent"
        /\ pc[p] \in {"witness"} \cup Critical => files[p] = "whole"
        /\ Contains(chain, p) => files[p] = "whole" /\ pc[p] \in Past
        /\ Contains(ledgerFile.log, p) => files[p] = "whole" /\ pc[p] \in Past

(* ledger.json: begun by WallStarted when whole, and equal to the chain    *)
(* when a thread is about to announce it.                                  *)
DiskInv ==
    /\ ledgerFile.state # "whole" => ledgerFile.log = << >>
    /\ ledgerFile.state = "whole" => ledgerFile.log # << >> /\ ledgerFile.log[1] = Boot
    /\ \A t \in Threads :
          pc[t] = "announce" => ledgerFile = [state |-> "whole", log |-> chain]

(* The checkpoints: those of the running process are prefixes of its chain. *)
CheckpointInv ==
    \A cp \in announced :
        /\ cp.log # << >> /\ cp.log[1] = Boot
        /\ cp.life <= life
        /\ cp.life = life /\ Up => IsPrefix(cp.log, chain)

(* The answers: an object is created only on the answer "allowed", and     *)
(* that answer to a decided request comes after its checkpoint.            *)
AnswerInv ==
    \A r \in Requests :
        /\ pc[r] \in {"idle", "deciding"} => verdict[r] = "none"
        /\ pc[r] \notin {"reply", "done", "lost"} => reply[r] = "none"
        /\ outcome[r] = "created" => reply[r] = "allowed"
        /\ reply[r] = "allowed" /\ verdict[r] # "none"
             => \E cp \in announced : Contains(cp.log, r)

IInv ==
    /\ TypeOK
    /\ MutexInv
    /\ StartInv
    /\ FileInv
    /\ DiskInv
    /\ CheckpointInv
    /\ CheckpointsAgree
    /\ AnswerInv


(* An empty ledger names nobody.                                           *)
LEMMA ContainsNothing == \A x : ~Contains(<< >>, x)
BY DEF Contains

Safe == /\ MutexInv /\ StartInv /\ FileInv /\ DiskInv
        /\ CheckpointInv /\ CheckpointsAgree /\ AnswerInv

(* Every step of a handler, of the API server and of the process keeps the *)
(* invariant.                                                              *)
LEMMA InvStep == IInv /\ [Next]_vars => IInv'
<1> SUFFICES ASSUME IInv, [Next]_vars
             PROVE  Safe'
  BY TypeStep DEF IInv, Safe
<1> USE ThreadSets, ThreadsDistinct
        DEF IInv, TypeOK, Safe, Critical, InFlight, Past, Serving, Up, Move, Return,
            request, trail
<1>1. ASSUME NEW t \in Threads, TakeLock(t) PROVE Safe'
  <2>1. /\ pc[t] = "witness" /\ lock = Free /\ t # Free
        /\ chain' = Append(chain, t) /\ lock' = t
        /\ pc' = [pc EXCEPT ![t] = "locked"]
    BY <1>1 DEF TakeLock
  <2>2. /\ Contains(chain', t)
        /\ \A x : Contains(chain', x) => x = t \/ Contains(chain, x)
        /\ \A x : Contains(chain, x) => Contains(chain', x)
    BY <2>1, ContainsAppend
  <2>3. MutexInv'
    BY <2>1, <2>2 DEF MutexInv
  <2>4. FileInv'
    BY <1>1, <2>1, <2>2 DEF TakeLock, FileInv
  <2>5. CheckpointInv'
    BY <1>1, <2>1, PrefixAppend DEF TakeLock, CheckpointInv, StartInv, Checkpoint
  <2>6. StartInv'
    BY <1>1, <2>1 DEF TakeLock, StartInv
  <2>7. DiskInv'
    BY <1>1, <2>1 DEF TakeLock, DiskInv, MutexInv
  <2>8. CheckpointsAgree' /\ AnswerInv'
    BY <1>1 DEF TakeLock, CheckpointsAgree, AnswerInv
  <2> QED
    BY <2>3, <2>4, <2>5, <2>6, <2>7, <2>8
<1>2. ASSUME NEW t \in Threads, OpenLedger(t) PROVE Safe'
  <2>1. FileInv' /\ DiskInv'
    BY <1>2, ContainsNothing DEF OpenLedger, TornLedger, MutexInv, FileInv, DiskInv
  <2>2. MutexInv' /\ StartInv' /\ CheckpointInv' /\ CheckpointsAgree' /\ AnswerInv'
    BY <1>2 DEF OpenLedger, MutexInv, StartInv, CheckpointInv, CheckpointsAgree, AnswerInv
  <2> QED
    BY <2>1, <2>2
<1>3. ASSUME NEW t \in Threads, WriteLedger(t) PROVE Safe'
  <2>1. MutexInv' /\ StartInv' /\ CheckpointInv' /\ CheckpointsAgree' /\ AnswerInv'
    BY <1>3 DEF WriteLedger, MutexInv, StartInv, CheckpointInv, CheckpointsAgree, AnswerInv
  <2>2. FileInv'
    BY <1>3 DEF WriteLedger, FileInv
  <2>3. DiskInv'
    BY <1>3 DEF WriteLedger, DiskInv, MutexInv, StartInv
  <2> QED
    BY <2>1, <2>2, <2>3
<1>4. ASSUME NEW t \in Threads, Announce(t) PROVE Safe'
  <2> DEFINE new == [life |-> life, log |-> chain]
  <2>1. /\ announced' = announced \cup {new} /\ new.life = life /\ new.log = chain
        /\ pc[t] = "announce" /\ Contains(chain, t)
        /\ UNCHANGED <<verdict, outcome, chain, ledgerFile, files, life>>
    BY <1>4 DEF Announce, MutexInv
  <2>2. Up /\ Up' /\ chain # << >> /\ chain[1] = Boot
    BY <1>4, <2>1 DEF Announce, StartInv
  <2>3. IsPrefix(chain, chain)
    BY PrefixSelf
  <2>4. CheckpointInv'
    <3> SUFFICES ASSUME NEW cp \in announced'
                 PROVE  /\ cp.log # << >> /\ cp.log[1] = Boot
                        /\ cp.life <= life
                        /\ cp.life = life => IsPrefix(cp.log, chain)
      BY <2>1 DEF CheckpointInv
    <3>1. CASE cp \in announced
      BY <2>2, <3>1 DEF CheckpointInv
    <3>2. CASE cp = new
      BY <2>1, <2>2, <2>3, <3>2
    <3> QED
      BY <2>1, <3>1, <3>2
  <2>5. CheckpointsAgree'
    <3>1. \A cp \in announced : cp.life = life => IsPrefix(cp.log, chain)
      BY <2>2 DEF CheckpointInv
    <3> QED
      BY <2>1, <2>3, <3>1 DEF CheckpointsAgree
  <2>6. AnswerInv'
    <3> SUFFICES ASSUME NEW r \in Requests
                 PROVE  /\ pc'[r] \in {"idle", "deciding"} => verdict[r] = "none"
                        /\ pc'[r] \notin {"reply", "done", "lost"} => reply'[r] = "none"
                        /\ outcome[r] = "created" => reply'[r] = "allowed"
                        /\ reply'[r] = "allowed" /\ verdict[r] # "none"
                             => \E cp \in announced' : Contains(cp.log, r)
      BY <2>1 DEF AnswerInv
    <3>1. CASE r = t
      <4>1. new \in announced' /\ Contains(new.log, r)
        BY <2>1, <3>1
      <4>2. reply[r] = "none" /\ outcome[r] # "created"
        BY <2>1, <3>1 DEF AnswerInv
      <4>3. pc'[r] = "reply"
        BY <1>4, <3>1 DEF Announce
      <4> QED
        BY <2>1, <4>1, <4>2, <4>3
    <3>2. CASE r # t
      <4>1. pc'[r] = pc[r] /\ reply'[r] = reply[r]
        BY <1>4, <3>2 DEF Announce
      <4> QED
        BY <2>1, <4>1 DEF AnswerInv
    <3> QED
      BY <3>1, <3>2
  <2>7. MutexInv' /\ StartInv'
    BY <1>4 DEF Announce, MutexInv, StartInv
  <2>8. FileInv'
    BY <1>4 DEF Announce, FileInv
  <2>9. DiskInv'
    BY <1>4 DEF Announce, MutexInv, DiskInv
  <2> QED
    BY <2>4, <2>5, <2>6, <2>7, <2>8, <2>9
<1>5. ASSUME NEW p \in Pods, DecidePod(p) PROVE Safe'
  BY <1>5 DEF DecidePod, MutexInv, StartInv, FileInv, DiskInv, CheckpointInv, CheckpointsAgree,
               AnswerInv
<1>6. ASSUME NEW p \in Pods, OpenDecision(p) PROVE Safe'
  <2>1. FileInv'
    BY <1>6 DEF OpenDecision, FileInv
  <2>2. MutexInv' /\ StartInv' /\ DiskInv' /\ CheckpointInv' /\ CheckpointsAgree' /\ AnswerInv'
    BY <1>6 DEF OpenDecision, MutexInv, StartInv, DiskInv, CheckpointInv, CheckpointsAgree,
               AnswerInv
  <2> QED
    BY <2>1, <2>2
<1>7. ASSUME NEW p \in Pods, WriteDecision(p) PROVE Safe'
  BY <1>7 DEF WriteDecision, MutexInv, StartInv, FileInv, DiskInv, CheckpointInv, CheckpointsAgree,
               AnswerInv
<1>8. ASSUME NEW m \in Manifests, DecideManifest(m) PROVE Safe'
  <2>1. AnswerInv'
    <3>1. ASSUME NEW v \in {"admit", "deny"}, Move(m, "deciding", "witness"),
                 verdict' = [verdict EXCEPT ![m] = v],
                 UNCHANGED <<reply, outcome, trail, life>>
          PROVE  AnswerInv'
      BY <3>1 DEF AnswerInv
    <3>2. ASSUME NEW answer \in {"allowed", "refused", "failed"},
                 Return(m, "deciding", answer),
                 UNCHANGED <<verdict, outcome, trail, life>>
          PROVE  AnswerInv'
      BY <3>2 DEF AnswerInv
    <3> QED
      BY <1>8, <3>1, <3>2 DEF DecideManifest
  <2>2. MutexInv' /\ StartInv' /\ FileInv' /\ DiskInv' /\ CheckpointInv' /\ CheckpointsAgree'
    BY <1>8 DEF DecideManifest, MutexInv, StartInv, FileInv, DiskInv, CheckpointInv,
               CheckpointsAgree
  <2> QED
    BY <2>1, <2>2
<1>9. ASSUME NEW r \in Requests, Arrive(r) PROVE Safe'
  BY <1>9 DEF Arrive, MutexInv, StartInv, FileInv, DiskInv, CheckpointInv, CheckpointsAgree,
               AnswerInv
<1>10. ASSUME NEW r \in Requests, LockPoisoned(r) PROVE Safe'
  BY <1>10 DEF LockPoisoned, MutexInv, StartInv, FileInv, DiskInv, CheckpointInv, CheckpointsAgree,
               AnswerInv
<1>11. ASSUME NEW r \in Requests, WitnessFails(r) PROVE Safe'
  BY <1>11 DEF WitnessFails, MutexInv, StartInv, FileInv, DiskInv, CheckpointInv, CheckpointsAgree,
               AnswerInv
<1>12. ASSUME NEW r \in Requests, Deliver(r) PROVE Safe'
  BY <1>12 DEF Deliver, MutexInv, StartInv, FileInv, DiskInv, CheckpointInv, CheckpointsAgree,
               AnswerInv
<1>13. ASSUME NEW r \in Requests, Panic(r) PROVE Safe'
  BY <1>13 DEF Panic, MutexInv, StartInv, FileInv, DiskInv, CheckpointInv, CheckpointsAgree,
               AnswerInv
<1>14. ASSUME NEW r \in Requests, TimeOut(r) PROVE Safe'
  BY <1>14 DEF TimeOut, MutexInv, StartInv, FileInv, DiskInv, CheckpointInv, CheckpointsAgree,
               AnswerInv
<1>15. ASSUME Crash PROVE Safe'
  <2>1. FileInv'
    BY <1>15, ContainsNothing DEF Crash, Die, FileInv
  <2>2. MutexInv' /\ StartInv' /\ DiskInv' /\ CheckpointInv' /\ CheckpointsAgree' /\ AnswerInv'
    BY <1>15 DEF Crash, Die, MutexInv, StartInv, DiskInv, CheckpointInv, CheckpointsAgree,
               AnswerInv
  <2> QED
    BY <2>1, <2>2
<1>16. ASSUME Evict PROVE Safe'
  <2>1. FileInv' /\ DiskInv'
    BY <1>16, ContainsNothing DEF Evict, Die, NoLedger, FileInv, DiskInv
  <2>2. MutexInv' /\ StartInv' /\ CheckpointInv' /\ CheckpointsAgree' /\ AnswerInv'
    BY <1>16 DEF Evict, Die, MutexInv, StartInv, CheckpointInv, CheckpointsAgree, AnswerInv
  <2> QED
    BY <2>1, <2>2
<1>17. ASSUME Restart PROVE Safe'
  <2>1. CheckpointInv'
    BY <1>17, LivesAssumption DEF Restart, CheckpointInv, Checkpoint
  <2>2. MutexInv' /\ StartInv' /\ FileInv' /\ DiskInv' /\ CheckpointsAgree' /\ AnswerInv'
    BY <1>17 DEF Restart, MutexInv, StartInv, FileInv, DiskInv, CheckpointsAgree, AnswerInv
  <2> QED
    BY <2>1, <2>2
<1>18. ASSUME UNCHANGED vars PROVE Safe'
  BY <1>18 DEF vars, MutexInv, StartInv, FileInv, DiskInv, CheckpointInv, CheckpointsAgree,
               AnswerInv
<1> QED
  BY <1>1, <1>2, <1>3, <1>4, <1>5, <1>6, <1>7, <1>8, <1>9,
     <1>10, <1>11, <1>12, <1>13, <1>14, <1>15, <1>16, <1>17, <1>18
     DEF Next, WitnessStep, PodStep, RequestStep

LEMMA InvInit == Init => IInv
<1> SUFFICES ASSUME Init PROVE IInv
  OBVIOUS
<1>1. TypeOK
  BY TypeInit
<1>2. MutexInv /\ StartInv
  BY ThreadSets, ThreadsDistinct
     DEF Init, MutexInv, StartInv, Critical, InFlight
<1>3. FileInv /\ DiskInv
  BY ThreadSets, ContainsNothing
     DEF Init, FileInv, DiskInv, NoLedger, Critical
<1>4. CheckpointInv /\ CheckpointsAgree /\ AnswerInv
  BY DEF Init, CheckpointInv, CheckpointsAgree, AnswerInv
<1> QED
  BY <1>1, <1>2, <1>3, <1>4 DEF IInv

(* The inductive invariant holds in every reachable state.                 *)
THEOREM Invariance == Spec => []IInv
<1>1. Init => IInv
  BY InvInit
<1>2. IInv /\ [Next]_vars => IInv'
  BY InvStep
<1> QED
  BY <1>1, <1>2, PTL DEF Spec

-------------------------------------------------------------------------------
(* What follows from it                                                    *)

(* The wall never causes a gap between its ledger and its decision files.  *)
THEOREM NoFalseGap == Spec => []LedgerNamesFiles
<1>1. IInv => LedgerNamesFiles
  BY DEF IInv, FileInv, LedgerNamesFiles
<1> QED
  BY <1>1, Invariance, PTL

(* Whatever the API server created on a decision is committed to.          *)
THEOREM Commitment == Spec => []CreatedIsCommitted
<1>1. IInv => CreatedIsCommitted
  BY DEF IInv, AnswerInv, CreatedIsCommitted
<1> QED
  BY <1>1, Invariance, PTL

(* The checkpoints of one process never fork.                              *)
THEOREM NoFork == Spec => []CheckpointsAgree
<1>1. IInv => CheckpointsAgree
  BY DEF IInv
<1> QED
  BY <1>1, Invariance, PTL

(* Every ledger begins with WallStarted.                                   *)
THEOREM Beginnings == Spec => []LedgersBegin
<1>1. IInv => LedgersBegin
  BY DEF IInv, DiskInv, CheckpointInv, LedgersBegin
<1> QED
  BY <1>1, Invariance, PTL

(* The only step that publishes is Announce, and the disk is up to date.   *)
LEMMA OnlyAnnouncePublishes ==
    ASSUME [Next]_vars, announced' # announced
    PROVE  \E t \in Threads : Announce(t)
BY DEF vars, trail, request, Next, WitnessStep, PodStep, RequestStep, TakeLock,
       OpenLedger, WriteLedger, DecidePod, OpenDecision, WriteDecision,
       DecideManifest, Arrive, LockPoisoned, WitnessFails, Deliver, Panic, TimeOut,
       Crash, Evict, Die, Restart

(* A checkpoint commits to the ledger that is on disk at that moment.      *)
THEOREM CommitsToDisk == Spec => CheckpointOnDisk
<1>1. IInv /\ [Next]_vars
        => [\A cp \in announced' \ announced :
               ledgerFile' = [state |-> "whole", log |-> cp.log]]_vars
  <2> SUFFICES ASSUME IInv, [Next]_vars, NEW cp \in announced' \ announced
               PROVE  ledgerFile' = [state |-> "whole", log |-> cp.log]
    OBVIOUS
  <2>1. PICK t \in Threads : Announce(t)
    BY OnlyAnnouncePublishes
  <2>2. /\ cp.log = chain
        /\ ledgerFile' = ledgerFile
        /\ pc[t] = "announce"
    BY <2>1 DEF Announce, Move, Return
  <2> QED
    BY <2>2 DEF IInv, DiskInv
<1> QED
  BY <1>1, Invariance, PTL DEF Spec, CheckpointOnDisk

-------------------------------------------------------------------------------
(* What is told, and what is left behind                                   *)

(* Ledgers and checkpoints are of a life, and the first one is 1.          *)
LifeInv ==
    /\ Up \/ ledgerFile.state = "whole" => life >= 1
    /\ \A cp \in announced : cp.life >= 1

(* Within one life, the ledger on disk honours every checkpoint.           *)
HonourInv ==
    ledgerFile.state = "whole" =>
        \A cp \in announced : cp.life = life => IsPrefix(cp.log, ledgerFile.log)

(* Whom a checkpoint names has passed the witness, and whoever is told a    *)
(* verdict on a pod is told after its checkpoint.                          *)
ToldInv ==
    /\ \A p \in Pods : \A cp \in announced : Contains(cp.log, p) => pc[p] \in Past
    /\ \A p \in Pods : reply[p] \in {"allowed", "refused"} =>
          \E cp \in announced : Contains(cp.log, p)

(* A torn file is being written, or its handler is through.                *)
TornInv ==
    \A p \in Pods : files[p] = "torn" =>
        /\ pc[p] \in {"open", "reply", "done", "lost"}
        /\ reply[p] \in {"none", "failed"} /\ outcome[p] # "created"
        /\ ~Contains(chain, p) /\ ~Contains(ledgerFile.log, p)
        /\ \A cp \in announced : ~Contains(cp.log, p)

TraceInv == LifeInv /\ HonourInv /\ ToldInv /\ TornInv

(* Every step keeps what is owed to whoever looks at the trail later.       *)
LEMMA TraceStep == IInv /\ TraceInv /\ [Next]_vars => TraceInv'
<1> SUFFICES ASSUME IInv, TraceInv, [Next]_vars
             PROVE  TraceInv'
  OBVIOUS
<1> USE ThreadSets, ThreadsDistinct
        DEF IInv, TypeOK, TraceInv, Critical, InFlight, Past, Serving, Up, Move, Return,
            request, trail
<1>1. ASSUME NEW t \in Threads, TakeLock(t) PROVE TraceInv'
  <2>1. \A x : Contains(chain', x) => x = t \/ Contains(chain, x)
    BY <1>1, ContainsAppend DEF TakeLock
  <2>2. TornInv'
    BY <1>1, <2>1 DEF TakeLock, TornInv, FileInv
  <2>3. LifeInv' /\ HonourInv' /\ ToldInv'
    BY <1>1 DEF TakeLock, LifeInv, HonourInv, ToldInv, StartInv
  <2> QED
    BY <2>2, <2>3
<1>2. ASSUME NEW t \in Threads, OpenLedger(t) PROVE TraceInv'
  BY <1>2, ContainsNothing
     DEF OpenLedger, TornLedger, LifeInv, HonourInv, ToldInv, TornInv, StartInv
<1>3. ASSUME NEW t \in Threads, WriteLedger(t) PROVE TraceInv'
  <2>1. Up
    BY <1>3 DEF WriteLedger, StartInv
  <2>2. HonourInv'
    BY <1>3, <2>1 DEF WriteLedger, HonourInv, CheckpointInv
  <2>3. LifeInv' /\ ToldInv' /\ TornInv'
    BY <1>3, <2>1 DEF WriteLedger, LifeInv, ToldInv, TornInv
  <2> QED
    BY <2>2, <2>3
<1>4. ASSUME NEW t \in Threads, Announce(t) PROVE TraceInv'
  <2> DEFINE new == [life |-> life, log |-> chain]
  <2>1. /\ announced' = announced \cup {new} /\ new.life = life /\ new.log = chain
        /\ pc[t] = "announce" /\ Contains(chain, t)
        /\ ledgerFile = [state |-> "whole", log |-> chain]
        /\ UNCHANGED <<verdict, outcome, chain, ledgerFile, files, life>>
    BY <1>4 DEF Announce, MutexInv, DiskInv
  <2>2. Up /\ Up' /\ IsPrefix(chain, chain)
    BY <1>4, <2>1, PrefixSelf DEF Announce, StartInv
  <2>3. LifeInv'
    BY <2>1, <2>2 DEF LifeInv
  <2>4. HonourInv'
    BY <2>1, <2>2 DEF HonourInv
  <2>5. pc' \in [Threads -> Place] /\ \A u \in Threads : pc'[u] = pc[u] \/ pc'[u] \in Past
    BY <1>4, TypeStep DEF Announce
  <2>6. ToldInv'
    <3>1. ASSUME NEW p \in Pods, NEW cp \in announced', Contains(cp.log, p)
          PROVE  pc'[p] \in Past
      BY <2>1, <2>5, <3>1 DEF ToldInv, FileInv
    <3>2. ASSUME NEW p \in Pods, reply'[p] \in {"allowed", "refused"}
          PROVE  \E cp \in announced' : Contains(cp.log, p)
      <4>1. CASE p = t
        BY <2>1, <4>1
      <4>2. CASE p # t
        BY <1>4, <2>1, <3>2, <4>2 DEF Announce, ToldInv
      <4> QED
        BY <4>1, <4>2
    <3> QED
      BY <3>1, <3>2 DEF ToldInv
  <2>7. TornInv'
    <3> SUFFICES ASSUME NEW p \in Pods, files[p] = "torn"
                 PROVE  /\ pc'[p] \in {"open", "reply", "done", "lost"}
                        /\ reply'[p] \in {"none", "failed"} /\ outcome[p] # "created"
                        /\ ~Contains(chain, p) /\ ~Contains(ledgerFile.log, p)
                        /\ \A cp \in announced' : ~Contains(cp.log, p)
      BY <2>1 DEF TornInv
    <3>1. p # t
      BY <2>1 DEF TornInv
    <3>2. pc'[p] = pc[p] /\ reply'[p] = reply[p]
      BY <1>4, <3>1 DEF Announce
    <3> QED
      BY <2>1, <3>2 DEF TornInv
  <2> QED
    BY <2>3, <2>4, <2>6, <2>7
<1>5. ASSUME NEW p \in Pods, DecidePod(p) PROVE TraceInv'
  BY <1>5 DEF DecidePod, LifeInv, HonourInv, ToldInv, TornInv, FileInv
<1>6. ASSUME NEW p \in Pods, OpenDecision(p) PROVE TraceInv'
  <2>1. TornInv'
    BY <1>6 DEF OpenDecision, TornInv, ToldInv, FileInv, AnswerInv
  <2>2. LifeInv' /\ HonourInv' /\ ToldInv'
    BY <1>6 DEF OpenDecision, LifeInv, HonourInv, ToldInv
  <2> QED
    BY <2>1, <2>2
<1>7. ASSUME NEW p \in Pods, WriteDecision(p) PROVE TraceInv'
  BY <1>7 DEF WriteDecision, LifeInv, HonourInv, ToldInv, TornInv
<1>8. ASSUME NEW m \in Manifests, DecideManifest(m) PROVE TraceInv'
  <2>1. /\ \A p \in Pods : pc'[p] = pc[p] /\ reply'[p] = reply[p]
        /\ pc'[Boot] = pc[Boot]
        /\ UNCHANGED <<outcome, trail, life>>
    BY <1>8 DEF DecideManifest
  <2> QED
    BY <2>1 DEF LifeInv, HonourInv, ToldInv, TornInv
<1>9. ASSUME NEW r \in Requests,
             Arrive(r) \/ LockPoisoned(r) \/ WitnessFails(r) \/ Panic(r)
      PROVE  TraceInv'
  <2>1. CASE Arrive(r)
    BY <2>1 DEF Arrive, LifeInv, HonourInv, ToldInv, TornInv
  <2>2. CASE LockPoisoned(r)
    BY <2>2 DEF LockPoisoned, LifeInv, HonourInv, ToldInv, TornInv
  <2>3. CASE WitnessFails(r)
    BY <2>3 DEF WitnessFails, LifeInv, HonourInv, ToldInv, TornInv
  <2>4. CASE Panic(r)
    BY <2>4 DEF Panic, LifeInv, HonourInv, ToldInv, TornInv
  <2> QED
    BY <1>9, <2>1, <2>2, <2>3, <2>4
<1>10. ASSUME NEW r \in Requests, Deliver(r) \/ TimeOut(r) PROVE TraceInv'
  <2>1. CASE Deliver(r)
    BY <2>1 DEF Deliver, LifeInv, HonourInv, ToldInv, TornInv
  <2>2. CASE TimeOut(r)
    BY <2>2 DEF TimeOut, LifeInv, HonourInv, ToldInv, TornInv
  <2> QED
    BY <1>10, <2>1, <2>2
<1>11. ASSUME Crash \/ Evict PROVE TraceInv'
  <2>1. CASE Crash
    BY <2>1, ContainsNothing DEF Crash, Die, LifeInv, HonourInv, ToldInv, TornInv
  <2>2. CASE Evict
    BY <2>2, ContainsNothing DEF Evict, Die, NoLedger, LifeInv, HonourInv, ToldInv, TornInv
  <2> QED
    BY <1>11, <2>1, <2>2
<1>12. ASSUME Restart PROVE TraceInv'
  <2>1. \A cp \in announced : cp.life \in Nat /\ cp.life <= life
    BY LivesAssumption DEF CheckpointInv, Checkpoint
  <2>2. HonourInv' /\ LifeInv'
    BY <1>12, <2>1, LivesAssumption DEF Restart, HonourInv, LifeInv
  <2>3. ToldInv' /\ TornInv'
    BY <1>12 DEF Restart, ToldInv, TornInv
  <2> QED
    BY <2>2, <2>3
<1>13. ASSUME UNCHANGED vars PROVE TraceInv'
  BY <1>13 DEF vars, LifeInv, HonourInv, ToldInv, TornInv
<1> QED
  BY <1>1, <1>2, <1>3, <1>4, <1>5, <1>6, <1>7, <1>8, <1>9, <1>10, <1>11, <1>12, <1>13
     DEF Next, WitnessStep, PodStep, RequestStep

LEMMA TraceInit == Init => TraceInv
BY ThreadSets, ContainsNothing
   DEF Init, TraceInv, LifeInv, HonourInv, ToldInv, TornInv, NoLedger, Up

(* What a later reader of the trail is owed holds in every reachable state. *)
THEOREM TraceInvariance == Spec => []TraceInv
<1>1. Init => TraceInv
  BY TraceInit
<1>2. IInv /\ TraceInv /\ [Next]_vars => TraceInv'
  BY TraceStep
<1> QED
  BY <1>1, <1>2, Invariance, PTL DEF Spec

(* A torn decision file belongs to no decision that anyone was told of.     *)
THEOREM TornHarmless == Spec => []TornIsUnanswered
<1>1. TraceInv => TornIsUnanswered
  BY DEF TraceInv, TornInv, TornIsUnanswered
<1> QED
  BY <1>1, TraceInvariance, PTL

(* After a panic under the mutex, nothing is recorded or decided until the  *)
(* process is restarted: nobody else was inside, and nobody gets in.       *)
THEOREM PoisonIsFinal == Spec => PoisonFailsClosed
<1> DEFINE Closed ==
      poisoned /\ poisoned' =>
          /\ UNCHANGED <<chain, ledgerFile, announced>>
          /\ \A r \in Requests :
                verdict[r] # "none" /\ reply'[r] # reply[r] => reply'[r] = "failed"
<1> DEFINE Outside == poisoned => lock = Free
<1>1. Init => Outside
  BY DEF Init
<1>2. IInv /\ Outside /\ [Next]_vars => Outside'
  BY ThreadSets, ThreadsDistinct
     DEF vars, trail, request, Next, WitnessStep, PodStep, RequestStep, TakeLock,
         OpenLedger, WriteLedger, Announce, DecidePod, OpenDecision, WriteDecision,
         DecideManifest, Arrive, LockPoisoned, WitnessFails, Deliver, Panic, TimeOut,
         Crash, Evict, Die, Restart
<1>3. IInv /\ Outside /\ [Next]_vars => [Closed]_vars
  <2> SUFFICES ASSUME IInv, Outside, Next, poisoned, poisoned'
               PROVE  Closed
    BY DEF vars
  <2>1. \A t \in Threads : pc[t] \notin Critical
    BY ThreadsDistinct DEF IInv, MutexInv
  <2>2. \A t \in Threads : ~WitnessStep(t)
    BY <2>1 DEF WitnessStep, TakeLock, OpenLedger, WriteLedger, Announce, Critical, Move,
                Return
  <2>3. ~Crash /\ ~Evict
    BY DEF Crash, Evict, Die
  <2>4. UNCHANGED <<chain, ledgerFile, announced>>
    BY <2>2, <2>3
       DEF trail, request, Next, PodStep, RequestStep, DecidePod, OpenDecision,
           WriteDecision, DecideManifest, Arrive, LockPoisoned, WitnessFails, Deliver,
           Panic, TimeOut, Restart
  <2>5. ASSUME NEW r \in Requests, verdict[r] # "none", reply'[r] # reply[r]
        PROVE  reply'[r] = "failed"
    <3>1. ASSUME NEW m \in Manifests, DecideManifest(m) PROVE reply'[r] = reply[r]
      BY <2>5, <3>1, ThreadSets DEF DecideManifest, Move, Return, IInv, AnswerInv, TypeOK
    <3>2. ASSUME NEW q \in Requests, Return(q, pc[q], "failed") PROVE reply'[r] = "failed"
      BY <2>5, <3>2 DEF Return, IInv, TypeOK
    <3>3. ASSUME NEW p \in Pods, PodStep(p) PROVE reply'[r] = "failed"
      BY <2>5, <3>2, <3>3, ThreadSets
         DEF PodStep, DecidePod, OpenDecision, WriteDecision, Return, Move, request
    <3>4. ASSUME NEW q \in Requests, Arrive(q) \/ RequestStep(q) \/ Panic(q) \/ TimeOut(q)
          PROVE  reply'[r] = "failed"
      BY <2>5, <3>2, <3>4
         DEF Arrive, RequestStep, LockPoisoned, WitnessFails, Deliver, Panic, TimeOut,
             Return, Move
    <3> QED
      BY <2>2, <2>3, <2>5, <3>1, <3>3, <3>4 DEF Next, Restart, request
  <2> QED
    BY <2>4, <2>5
<1> QED
  BY <1>1, <1>2, <1>3, Invariance, PTL DEF Spec, PoisonFailsClosed

-------------------------------------------------------------------------------
(* How often a decision is recorded                                        *)

(* Whom a ledger names has passed the witness, for good: a handler never   *)
(* comes back to it, and a request is not served by a second life.         *)
NamedInv ==
    \A r \in Requests :
        /\ Contains(chain, r) => pc[r] \in Past
        /\ \A cp \in announced :
              Contains(cp.log, r) =>
                  pc[r] \in Past /\ (Contains(chain, r) => cp.life = life)

OnceInv == NamedInv /\ WitnessedOnce

(* An append of somebody new keeps a ledger free of repetitions.           *)
LEMMA InjectiveAppend ==
    ASSUME NEW S, NEW s \in Seq(S), NEW e \in S, IsInjective(s), ~Contains(s, e)
    PROVE  IsInjective(Append(s, e))
<1>1. /\ Len(s) \in Nat
      /\ DOMAIN s = 1..Len(s)
      /\ DOMAIN Append(s, e) = 1..(Len(s) + 1)
      /\ Append(s, e)[Len(s) + 1] = e
      /\ \A i \in 1..Len(s) : Append(s, e)[i] = s[i]
  OBVIOUS
<1>2. \A i \in 1..Len(s) : s[i] # e
  BY DEF Contains
<1>3. \A i \in 1..(Len(s) + 1) : i = Len(s) + 1 \/ i \in 1..Len(s)
  BY <1>1
<1> QED
  BY <1>1, <1>2, <1>3 DEF IsInjective

LEMMA OnceStep == IInv /\ OnceInv /\ [Next]_vars => OnceInv'
<1> SUFFICES ASSUME IInv, OnceInv, [Next]_vars
             PROVE  OnceInv'
  OBVIOUS
<1> USE ThreadSets DEF Move, Return, request, trail
<1>1. ASSUME NEW t \in Threads, TakeLock(t) PROVE OnceInv'
  <2>1. /\ pc[t] = "witness" /\ chain' = Append(chain, t)
        /\ pc' = [pc EXCEPT ![t] = "locked"]
        /\ UNCHANGED <<ledgerFile, announced, life>>
    BY <1>1 DEF TakeLock
  <2>2. /\ ~Contains(chain, t)
        /\ t \in Requests => \A cp \in announced : ~Contains(cp.log, t)
    <3>1. CASE t = Boot
      BY <2>1, <3>1, ContainsNothing DEF IInv, StartInv
    <3>2. CASE t \in Requests
      BY <2>1, <3>2 DEF OnceInv, NamedInv, Past, Critical
    <3> QED
      BY <3>1, <3>2
  <2>3. IsInjective(chain')
    BY <2>1, <2>2, InjectiveAppend DEF OnceInv, WitnessedOnce, IInv, TypeOK
  <2>4. \A x : Contains(chain', x) => x = t \/ Contains(chain, x)
    BY <2>1, ContainsAppend DEF IInv, TypeOK
  <2>5. pc'[t] \in Past /\ \A u \in Threads : u # t => pc'[u] = pc[u]
    BY <2>1 DEF Past, Critical, IInv, TypeOK
  <2>6. NamedInv'
    BY <2>1, <2>2, <2>4, <2>5 DEF OnceInv, NamedInv
  <2>7. WitnessedOnce'
    BY <2>1, <2>3 DEF OnceInv, WitnessedOnce
  <2> QED
    BY <2>6, <2>7 DEF OnceInv
<1>2. ASSUME UNCHANGED <<chain, announced, life>>,
             ledgerFile'.log \in {<< >>, chain, ledgerFile.log},
             \A r \in Requests : pc[r] \in Past => pc'[r] \in Past
      PROVE  OnceInv'
  <2>1. NamedInv'
    BY <1>2 DEF OnceInv, NamedInv
  <2>2. IsInjective(ledgerFile'.log)
    BY <1>2 DEF OnceInv, WitnessedOnce, IsInjective
  <2>3. WitnessedOnce'
    BY <1>2, <2>2 DEF OnceInv, WitnessedOnce
  <2> QED
    BY <2>1, <2>3 DEF OnceInv
<1>3. ASSUME NEW t \in Threads, OpenLedger(t) \/ WriteLedger(t) PROVE OnceInv'
  <2>1. /\ UNCHANGED <<chain, announced, life>>
        /\ ledgerFile'.log \in {<< >>, chain, ledgerFile.log}
    BY <1>3 DEF OpenLedger, WriteLedger, TornLedger
  <2>2. \A r \in Requests : pc[r] \in Past => pc'[r] \in Past
    BY <1>3 DEF OpenLedger, WriteLedger, Past, Critical, IInv, TypeOK
  <2> QED
    BY <1>2, <2>1, <2>2
<1>4. ASSUME NEW t \in Threads, Announce(t) PROVE OnceInv'
  <2> DEFINE new == [life |-> life, log |-> chain]
  <2>1. /\ announced' = announced \cup {new} /\ new.life = life /\ new.log = chain
        /\ UNCHANGED <<chain, ledgerFile, life>>
    BY <1>4 DEF Announce
  <2>2. \A r \in Requests : pc[r] \in Past => pc'[r] \in Past
    <3>1. \A r \in Requests : pc'[r] = pc[r] \/ pc'[r] = "reply"
      BY <1>4, ThreadsDistinct DEF Announce, IInv, TypeOK
    <3> QED
      BY <3>1 DEF Past
  <2> HIDE DEF new
  <2>3. NamedInv'
    BY <2>1, <2>2 DEF OnceInv, NamedInv
  <2>4. \A r \in Requests : Contains(chain, r) =>
            \A cp \in announced : Contains(cp.log, r) => cp.life = new.life
    BY <2>1 DEF OnceInv, NamedInv
  <2>5. WitnessedOnce'
    BY <2>1, <2>4 DEF OnceInv, WitnessedOnce
  <2> QED
    BY <2>3, <2>5 DEF OnceInv
<1>5. ASSUME NEW p \in Pods, PodStep(p) PROVE OnceInv'
  <2>1. UNCHANGED <<chain, announced, life, ledgerFile>>
    BY <1>5 DEF PodStep, DecidePod, OpenDecision, WriteDecision
  <2>2. \A r \in Requests : pc[r] \in Past => pc'[r] \in Past
    BY <1>5 DEF PodStep, DecidePod, OpenDecision, WriteDecision, Past, Critical,
                IInv, TypeOK
  <2> QED
    BY <1>2, <2>1, <2>2
<1>6. ASSUME NEW m \in Manifests, DecideManifest(m) PROVE OnceInv'
  <2>1. UNCHANGED <<chain, announced, life, ledgerFile>>
    BY <1>6 DEF DecideManifest
  <2>2. \A r \in Requests : pc[r] \in Past => pc'[r] \in Past
    BY <1>6 DEF DecideManifest, Past, Critical, IInv, TypeOK
  <2> QED
    BY <1>2, <2>1, <2>2
<1>7. ASSUME NEW q \in Requests, Arrive(q) \/ RequestStep(q) \/ Panic(q) \/ TimeOut(q)
      PROVE  OnceInv'
  <2>1. UNCHANGED <<chain, announced, life, ledgerFile>>
    BY <1>7 DEF Arrive, RequestStep, LockPoisoned, WitnessFails, Deliver, Panic, TimeOut
  <2>2. \A r \in Requests : pc[r] \in Past => pc'[r] \in Past
    BY <1>7 DEF Arrive, RequestStep, LockPoisoned, WitnessFails, Deliver, Panic,
                TimeOut, Past, Critical, IInv, TypeOK
  <2> QED
    BY <1>2, <2>1, <2>2
<1>8. ASSUME Die, ledgerFile'.log \in {<< >>, ledgerFile.log} PROVE OnceInv'
  <2>1. chain' = << >> /\ UNCHANGED <<announced, life>>
    BY <1>8 DEF Die
  <2>2. \A r \in Requests : pc[r] \in Past => pc'[r] \in Past
    BY <1>8, ThreadsDistinct DEF Die, Past, Critical, InFlight
  <2>3. NamedInv'
    BY <2>1, <2>2, ContainsNothing DEF OnceInv, NamedInv
  <2>4. IsInjective(<< >>) /\ IsInjective(ledgerFile'.log)
    BY <1>8 DEF OnceInv, WitnessedOnce, IsInjective
  <2>5. WitnessedOnce'
    BY <2>1, <2>4 DEF OnceInv, WitnessedOnce
  <2> QED
    BY <2>3, <2>5 DEF OnceInv
<1>9. CASE Crash \/ Evict
  BY <1>8, <1>9 DEF Crash, Evict, NoLedger
<1>10. CASE Restart
  <2>1. chain = << >> /\ UNCHANGED <<chain, ledgerFile, announced>>
    BY <1>10 DEF Restart, IInv, StartInv
  <2>2. \A r \in Requests : pc'[r] = pc[r]
    BY <1>10 DEF Restart, IInv, TypeOK
  <2>3. NamedInv'
    BY <2>1, <2>2, ContainsNothing DEF OnceInv, NamedInv
  <2>4. WitnessedOnce'
    BY <2>1 DEF OnceInv, WitnessedOnce
  <2> QED
    BY <2>3, <2>4 DEF OnceInv
<1>11. CASE UNCHANGED vars
  BY <1>2, <1>11 DEF vars
<1> QED
  BY <1>1, <1>3, <1>4, <1>5, <1>6, <1>7, <1>9, <1>10, <1>11 DEF Next, WitnessStep

(* A decision is recorded once, by one life of the wall, whatever fails,    *)
(* panics or restarts around it.                                           *)
THEOREM RecordedOnce == Spec => []WitnessedOnce
<1>1. Init => OnceInv
  BY ContainsNothing DEF Init, NoLedger, OnceInv, NamedInv, WitnessedOnce, IsInjective
<1>2. IInv /\ OnceInv /\ [Next]_vars => OnceInv'
  BY OnceStep
<1>3. OnceInv => WitnessedOnce
  BY DEF OnceInv
<1> QED
  BY <1>1, <1>2, <1>3, Invariance, PTL DEF Spec

-------------------------------------------------------------------------------
(* Why handlers return                                                     *)

LEMMA RemainingIs ==
    /\ Remaining["idle"] = 9 /\ Remaining["deciding"] = 8 /\ Remaining["filing"] = 7
    /\ Remaining["open"] = 6 /\ Remaining["witness"] = 5 /\ Remaining["locked"] = 4
    /\ Remaining["rewriting"] = 3 /\ Remaining["announce"] = 2
    /\ Remaining["reply"] = 1 /\ Remaining["done"] = 0 /\ Remaining["lost"] = 0
BY DEF Remaining

(* A thread that is sent on, and no other, is nearer to its answer.        *)
LEMMA Forward ==
    ASSUME TypeOK, NEW t \in Threads, NEW from, NEW to, Move(t, from, to),
           Remaining[to] < Remaining[from]
    PROVE  \A r \in Requests :
              pc'[r] # pc[r] => Remaining[pc'[r]] < Remaining[pc[r]]
BY ThreadSets DEF TypeOK, Move

(* Whatever happens to a handler takes it nearer to its answer.            *)
THEOREM NoWayBack == Spec => HandlersAdvance
<1>1. TypeOK /\ [Next]_vars
        => [\A r \in Requests :
               pc'[r] # pc[r] => Remaining[pc'[r]] < Remaining[pc[r]]]_vars
  <2> DEFINE Ahead == \A r \in Requests :
                        pc'[r] # pc[r] => Remaining[pc'[r]] < Remaining[pc[r]]
  <2> SUFFICES ASSUME TypeOK, [Next]_vars, vars' # vars PROVE Ahead
    OBVIOUS
  <2> USE RemainingIs, ThreadSets
  <2>1. ASSUME NEW t \in Threads, WitnessStep(t) PROVE Ahead
    <3>1. \/ Move(t, "witness", "locked") \/ Move(t, "locked", "rewriting")
          \/ Move(t, "rewriting", "announce") \/ Move(t, "announce", "done")
          \/ Move(t, "announce", "reply")
      BY <2>1 DEF WitnessStep, TakeLock, OpenLedger, WriteLedger, Announce, Return
    <3> QED
      BY <3>1, Forward
  <2>2. ASSUME NEW p \in Pods, PodStep(p) PROVE Ahead
    <3>1. \/ Move(p, "deciding", "filing") \/ Move(p, "deciding", "reply")
          \/ Move(p, "filing", "open") \/ Move(p, "filing", "reply")
          \/ Move(p, "open", "witness") \/ Move(p, "open", "reply")
      BY <2>2 DEF PodStep, DecidePod, OpenDecision, WriteDecision, Return
    <3> QED
      BY <3>1, Forward
  <2>3. ASSUME NEW m \in Manifests, DecideManifest(m) PROVE Ahead
    <3>1. Move(m, "deciding", "witness") \/ Move(m, "deciding", "reply")
      BY <2>3 DEF DecideManifest, Return
    <3> QED
      BY <3>1, Forward
  <2>4. ASSUME NEW r \in Requests, Arrive(r) \/ RequestStep(r) \/ Panic(r)
        PROVE  Ahead
    <3>1. \/ Move(r, "idle", "deciding") \/ Move(r, "witness", "reply")
          \/ Move(r, "reply", "done")
          \/ \E from \in Critical : Move(r, from, "lost") \/ Move(r, from, "reply")
      BY <2>4 DEF Arrive, RequestStep, LockPoisoned, WitnessFails, Deliver, Panic,
                  Return, Critical
    <3>2. ASSUME NEW from \in Critical, Move(r, from, "lost") \/ Move(r, from, "reply")
          PROVE  Ahead
      <4>1. Remaining["lost"] < Remaining[from] /\ Remaining["reply"] < Remaining[from]
        BY DEF Critical
      <4> QED
        BY <3>2, <4>1, Forward
    <3>3. CASE \/ Move(r, "idle", "deciding") \/ Move(r, "witness", "reply")
               \/ Move(r, "reply", "done")
      BY <3>3, Forward
    <3> QED
      BY <3>1, <3>2, <3>3
  <2>5. CASE Crash \/ Evict
    <3>1. \A r \in Requests :
              pc'[r] = IF pc[r] \in InFlight THEN "lost" ELSE pc[r]
      BY <2>5 DEF Crash, Evict, Die
    <3>2. \A place \in InFlight : Remaining[place] > 0
      BY DEF InFlight, Critical
    <3> QED
      BY <3>1, <3>2
  <2>6. CASE Restart
    BY <2>6 DEF Restart, Move, TypeOK
  <2>7. ASSUME NEW r \in Requests, TimeOut(r) PROVE Ahead
    BY <2>7 DEF TimeOut
  <2> QED
    BY <2>1, <2>2, <2>3, <2>4, <2>5, <2>6, <2>7 DEF Next, vars
<1> QED
  BY <1>1, TypeCorrect, PTL DEF Spec, HandlersAdvance

(* The mutex is held by nobody but a thread at work on the ledger.         *)
THEOREM MutexIsPassedOn == Spec => []HolderWorks
<1>1. IInv => HolderWorks
  BY DEF IInv, TypeOK, MutexInv, HolderWorks
<1> QED
  BY <1>1, Invariance, PTL

-------------------------------------------------------------------------------
(* AuditTrail implements WitnessedDecisions                                *)

Filed     == {p \in Pods : files[p] = "whole"}
Committed == {r \in Requests : \E cp \in announced : Contains(cp.log, r)}
Created   == {r \in Requests : outcome[r] = "created" /\ verdict[r] # "none"}

(* A step that changes no file, no checkpoint, no outcome and no verdict   *)
(* of a created request is invisible.                                      *)
LEMMA Invisible ==
    ASSUME UNCHANGED <<Filed, Committed, Created>>
    PROVE  [Promise!Next]_(Promise!vars)
BY DEF Filed, Committed, Created, Promise!vars

LEMMA PromiseStep ==
    IInv /\ [Next]_vars => [Promise!Next]_(Promise!vars)
<1> SUFFICES ASSUME IInv, [Next]_vars
             PROVE  [Promise!Next]_(Promise!vars)
  OBVIOUS
<1> USE ThreadSets, Invisible DEF IInv, TypeOK, Move, Return, request, trail
<1>1. ASSUME NEW t \in Threads, TakeLock(t) \/ OpenLedger(t) \/ WriteLedger(t)
      PROVE  UNCHANGED <<Filed, Committed, Created>>
  BY <1>1 DEF TakeLock, OpenLedger, WriteLedger, Filed, Committed, Created
<1>2. ASSUME NEW t \in Threads, Announce(t)
      PROVE  [Promise!Next]_(Promise!vars)
  <2> DEFINE new == [life |-> life, log |-> chain]
             covered == {r \in Requests : Contains(chain, r)}
  <2>1. /\ announced' = announced \cup {new} /\ new.log = chain
        /\ pc[t] = "announce"
        /\ UNCHANGED <<Filed, Created>>
    BY <1>2 DEF Announce, Filed, Created
  <2>2. Committed' = Committed \cup covered
    BY <2>1 DEF Committed
  <2>3. covered \subseteq Filed \cup Manifests
    BY DEF FileInv, Filed, Requests
  <2>4. Promise!Commit(covered)
    BY <2>1, <2>2 DEF Promise!Commit, Filed, Committed, Created
  <2> QED
    BY <2>3, <2>4 DEF Promise!Next, Filed
<1>3. ASSUME NEW p \in Pods, WriteDecision(p)
      PROVE  [Promise!Next]_(Promise!vars)
  <2>1. CASE files' = files
    BY <1>3, <2>1 DEF WriteDecision, Filed, Committed, Created
  <2>2. CASE files' = [files EXCEPT ![p] = "whole"]
    <3>1. Filed' = Filed \cup {p} /\ UNCHANGED <<Committed, Created>>
      BY <1>3, <2>2 DEF WriteDecision, Filed, Committed, Created
    <3>2. Promise!File(p)
      BY <3>1 DEF Promise!File, Filed, Committed, Created
    <3> QED
      BY <3>2 DEF Promise!Next
  <2> QED
    BY <1>3, <2>1, <2>2 DEF WriteDecision
<1>4. ASSUME NEW p \in Pods, DecidePod(p) \/ OpenDecision(p)
      PROVE  UNCHANGED <<Filed, Committed, Created>>
  <2>1. CASE DecidePod(p)
    BY <2>1 DEF DecidePod, AnswerInv, Filed, Committed, Created
  <2>2. CASE OpenDecision(p)
    BY <2>2 DEF OpenDecision, FileInv, Filed, Committed, Created
  <2> QED
    BY <1>4, <2>1, <2>2
<1>5. ASSUME NEW m \in Manifests, DecideManifest(m)
      PROVE  UNCHANGED <<Filed, Committed, Created>>
  BY <1>5 DEF DecideManifest, AnswerInv, Filed, Committed, Created
<1>6. ASSUME NEW r \in Requests,
             Arrive(r) \/ LockPoisoned(r) \/ WitnessFails(r) \/ Panic(r) \/ TimeOut(r)
      PROVE  UNCHANGED <<Filed, Committed, Created>>
  <2>1. UNCHANGED <<Filed, Committed>>
    BY <1>6 DEF Arrive, LockPoisoned, WitnessFails, Panic, TimeOut, Filed, Committed
  <2>2. verdict' = verdict
    BY <1>6 DEF Arrive, LockPoisoned, WitnessFails, Panic, TimeOut
  <2>3. \A x \in Requests : outcome'[x] = "created" <=> outcome[x] = "created"
    <3>1. CASE Arrive(r)
      BY <3>1 DEF Arrive, AnswerInv
    <3>2. CASE LockPoisoned(r) \/ WitnessFails(r)
      BY <3>2 DEF LockPoisoned, WitnessFails
    <3>3. CASE Panic(r)
      BY <3>3 DEF Panic, AnswerInv, Critical
    <3>4. CASE TimeOut(r)
      BY <3>4 DEF TimeOut
    <3> QED
      BY <1>6, <3>1, <3>2, <3>3, <3>4
  <2> QED
    BY <2>1, <2>2, <2>3 DEF Created
<1>7. ASSUME NEW r \in Requests, Deliver(r)
      PROVE  [Promise!Next]_(Promise!vars)
  <2>1. UNCHANGED <<Filed, Committed>>
    BY <1>7 DEF Deliver, Filed, Committed
  <2>2. CASE outcome[r] = "waiting" /\ reply[r] = "allowed" /\ verdict[r] # "none"
    <3>1. r \in Committed
      BY <2>2 DEF AnswerInv, Committed
    <3>2. Created' = Created \cup {r}
      BY <1>7, <2>2 DEF Deliver, Created
    <3>3. Promise!Create(r)
      BY <2>1, <3>1, <3>2 DEF Promise!Create, Filed, Committed, Created
    <3> QED
      BY <3>3 DEF Promise!Next, Requests
  <2>3. CASE ~(outcome[r] = "waiting" /\ reply[r] = "allowed" /\ verdict[r] # "none")
    <3>1. Created' = Created
      BY <1>7, <2>3 DEF Deliver, Created
    <3> QED
      BY <2>1, <3>1
  <2> QED
    BY <2>2, <2>3
<1>8. ASSUME Die PROVE Created' = Created
  BY <1>8 DEF Die, Created
<1>9. CASE Crash
  BY <1>8, <1>9 DEF Crash, Die, Filed, Committed
<1>10. CASE Evict
  <2>1. Filed' = {} /\ UNCHANGED <<Committed, Created>>
    BY <1>8, <1>10 DEF Evict, Die, Filed, Committed
  <2>2. Promise!LoseVolume
    BY <2>1 DEF Promise!LoseVolume, Filed, Committed, Created
  <2> QED
    BY <2>2 DEF Promise!Next
<1>11. CASE Restart \/ UNCHANGED vars
  BY <1>11 DEF Restart, vars, Filed, Committed, Created
<1> QED
  BY <1>1, <1>2, <1>3, <1>4, <1>5, <1>6, <1>7, <1>9, <1>10, <1>11
     DEF Next, WitnessStep, PodStep, RequestStep

(* The trail of files, mutex and checkpoints does what WitnessedDecisions  *)
(* promises: filed before committed to, committed to before acted on.      *)
THEOREM Refinement == Spec => KeepsPromise
<1>1. Init => Promise!Init
  BY DEF Init, Promise!Init
<1>2. IInv /\ [Next]_vars => [Promise!Next]_(Promise!vars)
  BY PromiseStep
<1> QED
  BY <1>1, <1>2, Invariance, PTL DEF Spec, KeepsPromise, Promise!Spec
===============================================================================
