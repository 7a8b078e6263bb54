----------------------------- MODULE MCTeeReward -----------------------------
(* Symmetric small instances of TeeReward. *)
EXTENDS TeeReward, TLC

Symmetry == Permutations(Members) \cup Permutations(Requests) \cup Permutations(Times)
==============================================================================
