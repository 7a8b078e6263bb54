---------------------------- MODULE MCTourismSync ----------------------------
(* Symmetric small instances of TourismSync. *)
EXTENDS TourismSync, TLC

Symmetry == Permutations(Places) \cup Permutations(Festivals) \cup Permutations(Runs)
==============================================================================
