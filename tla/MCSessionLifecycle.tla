-------------------------- MODULE MCSessionLifecycle --------------------------
(* Values of SessionLifecycle's constants for TLC. *)
EXTENDS SessionLifecycle, TLC

\* 5 s * 2^t against a 60 s tick: one tick, then longer.
MCBackoff == [t \in 0..MaxTries |-> t + 1]

Symmetry == Permutations(Slots)
=============================================================================
