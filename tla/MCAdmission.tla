----------------------------- MODULE MCAdmission -----------------------------
(* Admission for TLC. *)
EXTENDS Admission, TLC

\* Calls of the router are alike: no definition tells one from another.
CallSymmetry == Permutations(Calls)
==============================================================================
