------------------------------- MODULE MCFeed -------------------------------
(* Symmetric small instances of Feed. *)
EXTENDS Feed, TLC

Symmetry == Permutations(Users) \cup Permutations(Requests)
=============================================================================
