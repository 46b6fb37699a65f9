------------------------------ MODULE AuditedWall ------------------------------
(***************************************************************************)
(* `lex-k8s audit reconcile` (cmd_audit_reconcile in main.rs, reconcile in *)
(* ledger.rs), run by hand against the volume of a wall that goes on       *)
(* deciding, crashing and restarting: the auditor reads ledger.json, then  *)
(* a checkpoint that a collector kept, then one decision file after the    *)
(* other, and compares what it has read.                                   *)
(*                                                                         *)
(* The history of a chain stands for its head: two ledgers have equal      *)
(* heads where their entries are equal, and a WallStarted entry says the   *)
(* same in every life.                                                     *)
(***************************************************************************)
EXTENDS AuditTrail

CONSTANT NoCheckpoint   \* the audit is run without --checkpoint

ASSUME NoCheckpointAssumption == NoCheckpoint \notin Checkpoint

VARIABLES
    audit,      \* where the auditor is, or the verdict it ended with
    copy,       \* the ledger it has read
    given,      \* the checkpoint it was given
    unread,     \* decision files it has yet to look at
    found,      \* pods whose decision chain it has read
    answered,   \* history: pods answered with a verdict when it began
    intact      \* history: the volume has not been lost since it began

auditor == <<audit, copy, given, unread, found, answered, intact>>

(* An audit ends with exit code 0, 8 or 2.                                 *)
Ended == {"accepted", "refused", "error"}

AuditInit ==
    /\ audit = "idle"
    /\ copy = << >> /\ given = NoCheckpoint
    /\ unread = {} /\ found = {}
    /\ answered = {} /\ intact = TRUE

(* The pods that a ledger names.                                           *)
Witnessed(log) == {p \in Pods : Contains(log, p)}

(* A ledger begins with WallStarted; what begins elsewhere lost its head.  *)
Begins(log) == log # << >> /\ log[1] = Boot

(* Mutant of Honours: a checkpoint is taken for a number of entries.       *)
HonoursLength(log, cp) == Len(cp.log) <= Len(log)

(* Chain::verify_against: the ledger is at least as long as the checkpoint *)
(* says, and has the head it names at that length.                         *)
Honours(log, cp) == IsPrefix(cp.log, log)

-------------------------------------------------------------------------------
(* Mutant of ReadLedger: the file as a whole is taken for the chain.        *)
ReadLedgerRaw ==
    /\ audit = "idle"
    /\ audit' = "ledger"
    /\ copy' = <<ledgerFile.state>>
    /\ unread' = Pods
    /\ answered' = {p \in Pods : reply[p] \in {"allowed", "refused"}}
    /\ UNCHANGED <<vars, given, found, intact>>

(* The ledger is read and verified.  A missing or torn one is an error.    *)
ReadLedger ==
    /\ audit = "idle"
    /\ audit' = IF ledgerFile.state # "whole" THEN "error"
                ELSE IF Begins(ledgerFile.log) THEN "ledger" ELSE "refused"
    /\ copy' = ledgerFile.log
    /\ unread' = Pods
    /\ answered' = {p \in Pods : reply[p] \in {"allowed", "refused"}}
    /\ UNCHANGED <<vars, given, found, intact>>

(* --checkpoint, if it is given: one of those that were printed so far.    *)
ReadCheckpoint ==
    /\ audit = "ledger"
    /\ \/ /\ audit' = "scanning"
          /\ UNCHANGED given
       \/ \E cp \in announced :
            /\ given' = cp
            /\ audit' = IF Honours(copy, cp) THEN "scanning" ELSE "refused"
    /\ UNCHANGED <<vars, copy, unread, found, answered, intact>>

(* One entry of the directory.  A file that is no decision chain ends the  *)
(* audit.                                                                  *)
ReadFile(p) ==
    /\ audit = "scanning"
    /\ p \in unread
    /\ unread' = unread \ {p}
    /\ audit' = IF files[p] = "torn" THEN "refused" ELSE audit
    /\ found' = IF files[p] = "whole" THEN found \cup {p} ELSE found
    /\ UNCHANGED <<vars, copy, given, answered, intact>>

(* reconcile(): what either side has and the other has not.                *)
Missing     == Witnessed(copy) \ found
Unwitnessed == found \ Witnessed(copy)

(* Mutant of Reconcile: the ledger is read when the files have been.       *)
ReconcileRereads ==
    /\ audit = "scanning"
    /\ unread = {}
    /\ copy' = ledgerFile.log
    /\ audit' = IF Witnessed(copy') = found THEN "accepted" ELSE "refused"
    /\ UNCHANGED <<vars, given, unread, found, answered, intact>>

Reconcile ==
    /\ audit = "scanning"
    /\ unread = {}
    /\ audit' = IF Missing = {} /\ Unwitnessed = {} THEN "accepted" ELSE "refused"
    /\ UNCHANGED <<vars, copy, given, unread, found, answered, intact>>

AuditStep ==
    \/ ReadLedger
    \/ ReadCheckpoint
    \/ \E p \in Pods : ReadFile(p)
    \/ Reconcile

(* The wall does not know of the auditor.                                  *)
WallStep ==
    /\ Next
    /\ intact' = (intact /\ (audit = "idle" \/ ledgerFile' # NoLedger))
    /\ UNCHANGED <<audit, copy, given, unread, found, answered>>

AuditedNext == AuditStep \/ WallStep

AuditedSpec == Init /\ AuditInit /\ [][AuditedNext]_<<vars, auditor>>

-------------------------------------------------------------------------------
(* Correctness                                                             *)

AuditorTypeOK ==
    /\ audit \in {"idle", "ledger", "scanning"} \cup Ended
    /\ copy \in Seq(Threads)
    /\ given \in Checkpoint \cup {NoCheckpoint}
    /\ unread \subseteq Pods /\ found \subseteq Pods /\ answered \subseteq Pods
    /\ intact \in BOOLEAN

(* The files have been compared with the ledger.                           *)
Compared == audit \in {"accepted", "refused"} /\ unread = {}

(* "DELETED?" is never a false alarm of a running wall: a decision that    *)
(* the ledger names and the audit does not find was lost with the volume   *)
(* while the audit ran.  The wall files before it witnesses, and the       *)
(* auditor reads the ledger before the files.                              *)
DeletedIsGone == Compared /\ intact => Missing = {}

(* An accepted audit vouches for every decision that its checkpoint covers,*)
(* whatever restarts and losses of the volume lie between the two.         *)
AcceptedIsComplete ==
    audit = "accepted" /\ given # NoCheckpoint
        => Witnessed(given.log) \subseteq found

(* An answered decision is never called planted, as long as the ledger is  *)
(* that of the first life.                                                 *)
AnsweredIsWitnessed ==
    Compared /\ life = 1 => answered \cap Unwitnessed = {}

(* "The ledger contradicts a checkpoint" is, in the wall's first life, only *)
(* ever said because the checkpoint was printed after the ledger was read: *)
(* the ledger that is on disk by then honours it, so that a second reading *)
(* clears the wall.                                                        *)
ContradictionPasses ==
    audit = "refused" /\ given # NoCheckpoint /\ ~Honours(copy, given)
        /\ life = 1 /\ ledgerFile.state = "whole"
        => Honours(ledgerFile.log, given)
===============================================================================
