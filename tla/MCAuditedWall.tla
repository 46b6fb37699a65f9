---------------------------- MODULE MCAuditedWall -----------------------------
(* A bounded instance of AuditedWall for TLC.                              *)
EXTENDS AuditedWall

(* Requests of one kind are interchangeable.                               *)
Symmetry == Permutations(Pods) \cup Permutations(Manifests)
===============================================================================
