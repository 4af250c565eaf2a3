---------------------------- MODULE MCSubscription ----------------------------
(* Two addresses, one of which the client knows from another list, and two    *)
(* threads that subscribe them.                                               *)
EXTENDS Subscription, TLC

Symmetry == Permutations(Callers)
=============================================================================
