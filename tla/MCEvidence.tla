----------------------------- MODULE MCEvidence -----------------------------
(* Instance of Evidence: two clients that may race for one key. *)
EXTENDS Evidence, TLC

MCEvents  == 1..3
MCBatches == {<<"k">>, <<"k", NoKey>>}
Symmetry  == Permutations(Clients)
=============================================================================
