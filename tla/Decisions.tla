------------------------------- MODULE Decisions -------------------------------
(***************************************************************************)
(* What admit() leaves behind: every refusal of every wall in the order    *)
(* they are asked, the one it names, the events of the decision's chain    *)
(* (admission.rs), and the answer to the API server (review.rs).  The      *)
(* submitter's standing comes from the keyring (trust.rs).                 *)
(*                                                                         *)
(* Rows are a set here: where the code takes the first or the last of      *)
(* several equals in the order of the spec, this takes any one of them.    *)
(***************************************************************************)
EXTENDS Grants, Sequences

CONSTANTS
    Signers,        \* userInfo.username of a review
    Unsigned,       \* a review without one
    InCluster       \* the hosts that name something in the cluster

ASSUME DecisionsAssumption ==
    /\ Unsigned \notin Signers
    /\ InCluster \subseteq Hosts

(* Who submits a pod, whether --trusted-keys is given, and what it lists.  *)
Submission == [signer : Signers \cup {Unsigned}, consulted : BOOLEAN,
               trusted : SUBSET Signers]

(* Keyring::standing_of: an empty keyring trusts nobody.                   *)
StandingWith(trusted, signer) == IF signer \in trusted THEN "trusted" ELSE "unknown"

(* Mutant of StandingOf: nobody to ask about is nothing to ask.            *)
StandingOfSigned(submission) ==
    IF ~submission.consulted \/ submission.signer = Unsigned THEN "not-consulted"
    ELSE StandingWith(submission.trusted, submission.signer)

(* A review that nobody signed is held to the narrower reading.            *)
StandingOf(submission) ==
    IF ~submission.consulted THEN "not-consulted"
    ELSE StandingWith(submission.trusted, submission.signer)

-------------------------------------------------------------------------------
(* Refusals: the wall, and what it is about                                *)

Weight(e) == Demands(e)["filesystem"] + Demands(e)["network"] + Demands(e)["exec"]

(* Mutant of WorstRows: the most demanding row, granted or not.            *)
WorstRowsOfAll(f, pod) ==
    {e \in pod.rows : \A d \in pod.rows : Weight(d) <= Weight(e)}

(* worst_row                                                               *)
WorstRows(f, pod) ==
    {e \in Culprits(f, pod) : \A d \in Culprits(f, pod) : Weight(d) <= Weight(e)}

Refused(wall, causes) == {[wall |-> wall, about |-> c] : c \in causes}

Cause(kind, condition) == IF condition THEN {[kind |-> kind]} ELSE {}

(* The refusals in the order of the walls.                                 *)
Refusals(f, pod, standing, spend) ==
    << Refused("type-check",
           IF LatticeWall(f, pod) THEN {} ELSE {CHOOSE e \in WorstRows(f, pod) : TRUE}),
       Refused("narrowing", {e \in pod.rows : ~Admits(f, e)}),
       Refused("narrowing",
           {[kind |-> "image", name |-> i] :
               i \in {j \in pod.images : f.imagePrefixes # {} /\ ~Vouched(f, j)}}),
       Refused("trust",
           Cause("unchecked", standing = "unknown" /\ Unchecked(f, pod))),
       Refused("budget",
           Cause("unpriced", spend.configured /\ pod.undeclared)),
       Refused("budget",
           Cause("spend", spend.configured /\ ~(spend.committed + pod.cost <= f.budget))) >>

Silent(refusals) == \A i \in DOMAIN refusals : refusals[i] = {}

(* split_first                                                             *)
First(refusals) ==
    CHOOSE r \in refusals[CHOOSE i \in DOMAIN refusals :
                              /\ refusals[i] # {}
                              /\ \A j \in 1..(i - 1) : refusals[j] = {}] : TRUE

-------------------------------------------------------------------------------
(* The decision and its chain                                              *)

Events(f, pod, standing, spend, refusals) ==
    LET asked   == [kind |-> "pod_requested", trust |-> standing,
                    demands |-> Join(pod.rows)]
        charged == [kind |-> "spend_charged", pod |-> pod.cost,
                    namespace |-> spend.committed, budget |-> f.budget]
        verdict == IF Silent(refusals) THEN [kind |-> "pod_admitted"]
                   ELSE [kind |-> "pod_refused", wall |-> First(refusals).wall,
                         about |-> First(refusals).about]
    IN  IF spend.configured THEN <<asked, charged, verdict>> ELSE <<asked, verdict>>

(* What a NetworkPolicy cannot hold the pod to: it has no host names.      *)
Unenforceable(f) == f.egress \ InCluster

Decision(f, pod, submission, spend) ==
    LET standing == StandingOf(submission)
        refusals == Refusals(f, pod, standing, spend)
    IN  [allowed |-> Silent(refusals),
         refusals |-> refusals,
         unchecked |-> Unchecked(f, pod),
         unenforceable |-> Unenforceable(f),
         audit |-> Events(f, pod, standing, spend, refusals)]

(* respond: the warnings come with an admission, the causes with a refusal. *)
Respond(decision) ==
    IF decision.allowed
    THEN [allowed |-> TRUE, code |-> 200, causes |-> {},
          warnings |-> {[host |-> h] : h \in decision.unenforceable}
                          \cup Cause("unchecked", decision.unchecked)]
    ELSE [allowed |-> FALSE, code |-> 403, warnings |-> {},
          causes |-> UNION {decision.refusals[i] : i \in DOMAIN decision.refusals}]
===============================================================================
