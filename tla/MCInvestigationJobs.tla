------------------------- MODULE MCInvestigationJobs -------------------------
(* Instances of InvestigationJobs for TLC. *)
EXTENDS InvestigationJobs, TLC

Interchangeable == Permutations(Clients) \cup Permutations(Workers) \cup Permutations(Incidents)
=============================================================================
