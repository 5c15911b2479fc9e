------------------------------ MODULE MCReviews ------------------------------
(* Model checking of Reviews. *)
EXTENDS Reviews, TLC

Symmetry == Permutations(Clients)
=============================================================================
