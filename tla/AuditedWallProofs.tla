--------------------------- MODULE AuditedWallProofs --------------------------
(***************************************************************************)
(* What an audit that runs beside the wall may conclude, for any requests, *)
(* any number of restarts and any moment at which its steps fall.  The     *)
(* wall keeps the invariants of AuditTrailProofs whatever the auditor      *)
(* does, because the auditor only reads.                                   *)
(***************************************************************************)
EXTENDS AuditedWall, AuditTrailProofs

LEMMA PrefixContains ==
    ASSUME NEW S, NEW s \in Seq(S), NEW t \in Seq(S), IsPrefix(s, t),
           NEW x, Contains(s, x)
    PROVE  Contains(t, x)
<1>1. PICK i \in 1..Len(s) : s[i] = x
  BY DEF Contains
<1>2. Len(s) <= Len(t) /\ i \in 1..Len(t)
  BY DEF IsPrefix
<1>3. t[i] = s[i]
  BY <1>1, <1>2 DEF IsPrefix
<1> QED
  BY <1>1, <1>2, <1>3 DEF Contains

-------------------------------------------------------------------------------
(* The inductive invariant of the auditor                                  *)

Reading == {"ledger", "scanning"} \cup {"accepted", "refused"}

(* The copy was the ledger: what it names is on the volume, as long as     *)
(* there is that volume, and is found when its turn has come.              *)
CopyInv ==
    audit # "idle" /\ intact =>
        /\ \A p \in Witnessed(copy) : files[p] = "whole"
        /\ Witnessed(copy) \ unread \subseteq found

(* The checkpoint was printed, and is honoured by the copy unless the      *)
(* audit has ended over it.                                                *)
GivenInv ==
    /\ given # NoCheckpoint => given \in announced
    /\ audit \in {"idle", "ledger"} => given = NoCheckpoint
    /\ audit \in {"scanning", "accepted"} /\ given # NoCheckpoint => Honours(copy, given)

(* Nothing witnessed is missing from what an accepted audit has found.     *)
AcceptInv == audit = "accepted" => Missing = {}

(* Those who had an answer in the first life are in the copy.              *)
AnsweredInv ==
    audit \in Reading =>
        life >= 1 /\ (life = 1 => answered \subseteq Witnessed(copy))

AuditInv == AuditorTypeOK /\ CopyInv /\ GivenInv /\ AcceptInv /\ AnsweredInv

AInv == IInv /\ TraceInv /\ AuditInv

LEMMA AuditInitOK == Init /\ AuditInit => AInv
<1> SUFFICES ASSUME Init, AuditInit PROVE AInv
  OBVIOUS
<1>1. IInv /\ TraceInv
  BY InvInit, TraceInit
<1>2. AuditorTypeOK
  BY DEF AuditInit, AuditorTypeOK
<1>3. CopyInv /\ GivenInv /\ AcceptInv /\ AnsweredInv
  BY DEF AuditInit, CopyInv, GivenInv, AcceptInv, AnsweredInv, Reading
<1> QED
  BY <1>1, <1>2, <1>3 DEF AInv, AuditInv

(* A whole file stays, and what was printed stays printed, unless the      *)
(* volume goes.                                                            *)
LEMMA WallKeeps ==
    ASSUME IInv, Next
    PROVE  /\ announced \subseteq announced'
           /\ life' \in {life, life + 1}
           /\ ledgerFile' # NoLedger =>
                 \A p \in Pods : files[p] = "whole" => files'[p] = "whole"
<1> USE ThreadSets DEF IInv, TypeOK, Move, Return, request, trail
<1>1. CASE \E t \in Threads : WitnessStep(t)
  BY <1>1 DEF WitnessStep, TakeLock, OpenLedger, WriteLedger, Announce
<1>2. CASE \E p \in Pods : PodStep(p)
  BY <1>2 DEF PodStep, DecidePod, OpenDecision, WriteDecision, FileInv
<1>3. CASE \E m \in Manifests : DecideManifest(m)
  BY <1>3 DEF DecideManifest
<1>4. CASE \E r \in Requests : Arrive(r) \/ RequestStep(r) \/ Panic(r) \/ TimeOut(r)
  BY <1>4 DEF Arrive, RequestStep, LockPoisoned, WitnessFails, Deliver, Panic, TimeOut
<1>5. CASE Crash \/ Evict \/ Restart
  BY <1>5 DEF Crash, Evict, Die, Restart
<1> QED
  BY <1>1, <1>2, <1>3, <1>4, <1>5 DEF Next

LEMMA AuditStepKeeps == AInv /\ AuditStep => AInv'
<1> SUFFICES ASSUME AInv, AuditStep PROVE AInv'
  OBVIOUS
<1> USE DEF AInv, AuditInv, AuditorTypeOK, Ended
<1>1. UNCHANGED vars
  BY DEF AuditStep, ReadLedger, ReadCheckpoint, ReadFile, Reconcile
<1>2. IInv' /\ TraceInv'
  BY <1>1, InvStep, TraceStep
<1> HIDE DEF AInv
<1> USE DEF vars, trail, request
<1>3. ASSUME ReadLedger PROVE AuditInv'
  <2>1. copy' = ledgerFile.log /\ copy' \in Seq(Threads)
    BY <1>3 DEF ReadLedger, AInv, IInv, TypeOK, Ledger
  <2>2. AuditorTypeOK'
    BY <1>3, <2>1 DEF ReadLedger, AInv
  <2>3. CopyInv'
    BY <1>1, <1>3, <2>1 DEF ReadLedger, CopyInv, Witnessed, AInv, IInv, FileInv
  <2>4. GivenInv' /\ AcceptInv'
    BY <1>1, <1>3 DEF ReadLedger, GivenInv, AcceptInv, AInv
  <2>5. AnsweredInv'
    <3>0. audit' \in Reading => ledgerFile.state = "whole" /\ life >= 1
      BY <1>3 DEF ReadLedger, Reading, AInv, TraceInv, LifeInv
    <3> SUFFICES ASSUME audit' \in Reading, life = 1, NEW p \in answered'
                 PROVE  Contains(copy', p)
      BY <1>1, <1>3, <3>0 DEF AnsweredInv, Witnessed, ReadLedger
    <3>1. p \in Pods /\ reply[p] \in {"allowed", "refused"}
      BY <1>3 DEF ReadLedger
    <3>2. ledgerFile.state = "whole"
      BY <3>0
    <3>3. PICK cp \in announced : Contains(cp.log, p)
      BY <3>1 DEF AInv, TraceInv, ToldInv
    <3>4. cp \in Checkpoint /\ cp.life = life
      BY <3>3, LivesAssumption
         DEF AInv, IInv, TypeOK, CheckpointInv, TraceInv, LifeInv, Checkpoint
    <3>5. IsPrefix(cp.log, copy')
      BY <2>1, <3>2, <3>3, <3>4 DEF AInv, TraceInv, HonourInv
    <3> QED
      BY <2>1, <3>3, <3>4, <3>5, PrefixContains DEF Checkpoint
  <2> QED
    BY <2>2, <2>3, <2>4, <2>5
<1>4. ASSUME ReadCheckpoint PROVE AuditInv'
  <2>1. AuditorTypeOK'
    BY <1>4 DEF ReadCheckpoint, AInv, IInv, TypeOK
  <2>2. GivenInv'
    BY <1>1, <1>4 DEF ReadCheckpoint, GivenInv, AInv
  <2>3. CopyInv' /\ AcceptInv' /\ AnsweredInv'
    BY <1>1, <1>4
       DEF ReadCheckpoint, CopyInv, AcceptInv, AnsweredInv, AInv, Reading, Witnessed
  <2> QED
    BY <2>1, <2>2, <2>3
<1>5. ASSUME NEW p \in Pods, ReadFile(p) PROVE AuditInv'
  <2>1. AuditorTypeOK'
    BY <1>5 DEF ReadFile, AInv
  <2>2. CopyInv'
    BY <1>1, <1>5 DEF ReadFile, CopyInv, AInv, Witnessed
  <2>3. GivenInv' /\ AcceptInv' /\ AnsweredInv'
    BY <1>1, <1>5
       DEF ReadFile, GivenInv, AcceptInv, AnsweredInv, AInv, Reading, Honours, Witnessed
  <2> QED
    BY <2>1, <2>2, <2>3
<1>6. ASSUME Reconcile PROVE AuditInv'
  <2>1. AuditorTypeOK'
    BY <1>6 DEF Reconcile, AInv
  <2>2. CopyInv' /\ GivenInv' /\ AnsweredInv'
    BY <1>1, <1>6
       DEF Reconcile, CopyInv, GivenInv, AnsweredInv, AInv, Reading, Honours, Witnessed
  <2>3. AcceptInv'
    BY <1>6 DEF Reconcile, AcceptInv, Missing, Witnessed
  <2> QED
    BY <2>1, <2>2, <2>3
<1> QED
  BY <1>2, <1>3, <1>4, <1>5, <1>6 DEF AInv, AuditStep

LEMMA WallStepKeeps == AInv /\ WallStep => AInv'
<1> SUFFICES ASSUME AInv, WallStep PROVE AInv'
  OBVIOUS
<1>1. IInv' /\ TraceInv'
  BY InvStep, TraceStep DEF AInv, WallStep
<1>2. /\ announced \subseteq announced'
      /\ life' \in {life, life + 1}
      /\ ledgerFile' # NoLedger =>
            \A p \in Pods : files[p] = "whole" => files'[p] = "whole"
  BY WallKeeps DEF AInv, WallStep
<1> USE DEF AInv, AuditInv, WallStep
<1>3. AuditorTypeOK'
  BY DEF AuditorTypeOK
<1>4. CopyInv'
  BY <1>2 DEF CopyInv, Witnessed, AuditorTypeOK
<1>5. GivenInv' /\ AcceptInv'
  BY <1>2 DEF GivenInv, AcceptInv, Honours, Missing, Witnessed
<1>6. AnsweredInv'
  BY <1>2, LivesAssumption DEF AnsweredInv, Witnessed, IInv, TypeOK
<1> QED
  BY <1>1, <1>3, <1>4, <1>5, <1>6

(* The invariants of the wall and of the auditor hold together.            *)
THEOREM AuditInvariance == AuditedSpec => []AInv
<1>1. Init /\ AuditInit => AInv
  BY AuditInitOK
<1>2. AInv /\ [AuditedNext]_<<vars, auditor>> => AInv'
  <2> SUFFICES ASSUME AInv, [AuditedNext]_<<vars, auditor>> PROVE AInv'
    OBVIOUS
  <2>1. CASE AuditStep
    BY <2>1, AuditStepKeeps
  <2>2. CASE WallStep
    BY <2>2, WallStepKeeps
  <2>3. CASE UNCHANGED <<vars, auditor>>
    <3>1. IInv' /\ TraceInv'
      BY <2>3, InvStep, TraceStep DEF AInv
    <3>2. AuditInv'
      BY <2>3 DEF AInv, AuditInv, AuditorTypeOK, CopyInv, GivenInv, AcceptInv, AnsweredInv,
                  Missing, Witnessed, Honours, vars, trail, auditor
    <3> QED
      BY <3>1, <3>2 DEF AInv
  <2> QED
    BY <2>1, <2>2, <2>3 DEF AuditedNext
<1> QED
  BY <1>1, <1>2, PTL DEF AuditedSpec

(* The auditor only reads: with it, the wall still behaves as AuditTrail    *)
(* says, and every theorem about that carries over.                        *)
THEOREM AuditorOnlyReads == AuditedSpec => Spec
<1>1. Init /\ AuditInit => Init
  OBVIOUS
<1>2. [AuditedNext]_<<vars, auditor>> => [Next]_vars
  BY DEF AuditedNext, AuditStep, ReadLedger, ReadCheckpoint, ReadFile, Reconcile, WallStep
<1> QED
  BY <1>1, <1>2, PTL DEF AuditedSpec, Spec

-------------------------------------------------------------------------------
(* What an audit may conclude                                              *)

(* What the auditor holds is always well-typed.                            *)
THEOREM AuditorTypeCorrect == AuditedSpec => []AuditorTypeOK
<1>1. AInv => AuditorTypeOK
  BY DEF AInv, AuditInv
<1> QED
  BY <1>1, AuditInvariance, PTL

(* A decision is reported as deleted only if the volume was lost while the *)
(* audit ran.                                                              *)
THEOREM NoFalseAlarm == AuditedSpec => []DeletedIsGone
<1>1. AInv => DeletedIsGone
  BY DEF AInv, AuditInv, CopyInv, DeletedIsGone, Compared, Missing
<1> QED
  BY <1>1, AuditInvariance, PTL

(* An accepted audit has seen every decision that its checkpoint covers.   *)
THEOREM AcceptanceIsSound == AuditedSpec => []AcceptedIsComplete
<1>1. AInv => AcceptedIsComplete
  <2> SUFFICES ASSUME AInv, audit = "accepted", given # NoCheckpoint,
                      NEW p \in Witnessed(given.log)
               PROVE  p \in found
    BY DEF AcceptedIsComplete
  <2>1. given \in Checkpoint /\ IsPrefix(given.log, copy) /\ copy \in Seq(Threads)
    BY DEF AInv, AuditInv, AuditorTypeOK, GivenInv, Honours
  <2>2. p \in Witnessed(copy)
    BY <2>1, PrefixContains DEF Witnessed, Checkpoint
  <2> QED
    BY <2>2 DEF AInv, AuditInv, AcceptInv, Missing
<1> QED
  BY <1>1, AuditInvariance, PTL

(* In the first life, no decision that was answered before the audit began *)
(* is called planted.                                                      *)
THEOREM AnswersAreKnown == AuditedSpec => []AnsweredIsWitnessed
<1>1. AInv => AnsweredIsWitnessed
  BY DEF AInv, AuditInv, AnsweredInv, AnsweredIsWitnessed, Compared, Unwitnessed, Reading
<1> QED
  BY <1>1, AuditInvariance, PTL

(* In the first life, a checkpoint that the copy contradicts is honoured by *)
(* the ledger that is on disk now.                                         *)
THEOREM RereadingClears == AuditedSpec => []ContradictionPasses
<1>1. AInv => ContradictionPasses
  <2> SUFFICES ASSUME AInv, given # NoCheckpoint, life = 1, ledgerFile.state = "whole"
               PROVE  IsPrefix(given.log, ledgerFile.log)
    BY DEF ContradictionPasses, Honours
  <2>1. given \in announced /\ given \in Checkpoint
    BY DEF AInv, AuditInv, GivenInv, IInv, TypeOK
  <2>2. given.life = life
    BY <2>1, LivesAssumption
       DEF AInv, IInv, CheckpointInv, TraceInv, LifeInv, Checkpoint
  <2> QED
    BY <2>1, <2>2 DEF AInv, TraceInv, HonourInv
<1> QED
  BY <1>1, AuditInvariance, PTL
===============================================================================
