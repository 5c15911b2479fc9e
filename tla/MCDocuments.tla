----------------------------- MODULE MCDocuments -----------------------------
EXTENDS DocumentPipeline, TLC

\* Requests are interchangeable.
Symmetry == Permutations(Clients)
=============================================================================
