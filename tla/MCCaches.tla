------------------------------- MODULE MCCaches -------------------------------
(* Bounded instances of Caches for TLC.                                    *)
EXTENDS Caches

(* The first kinds of the six: the mechanism is the same for each.         *)
TwoKinds   == <<"lexmanifests", "networkpolicies">>
ThreeKinds == <<"lexmanifests", "networkpolicies", "roles">>

(* At first one manifest governs the namespace, then a second one is added. *)
OneThenTwo == [v \in 0..MaxVersion |-> v + 1]
OneAlways  == [v \in 0..MaxVersion |-> 1]
===============================================================================
