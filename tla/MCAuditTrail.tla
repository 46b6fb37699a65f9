----------------------------- MODULE MCAuditTrail -----------------------------
(* Bounded instances of AuditTrail for TLC.                                *)
EXTENDS AuditTrail

(* Requests of one kind are interchangeable.                               *)
Symmetry == Permutations(Pods) \cup Permutations(Manifests)
===============================================================================
