---------------------------- MODULE MCRemediation ----------------------------
(* Model checking of Remediation. *)
EXTENDS Remediation, TLC

Symmetry == Permutations(Clients)
=============================================================================
