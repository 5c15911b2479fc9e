----------------------------- MODULE MCRetrieval -----------------------------
(* Instances of Retrieval: one setting per way through the services. *)
EXTENDS Retrieval

MCChunks == 1..3

With(strategy, modes, reranking, parallel, overBudget, retries) ==
  [strategy |-> strategy, modes |-> modes, reranking |-> reranking, parallel |-> parallel,
   overBudget |-> overBudget, retries |-> retries]

MCSettings ==
  {With("OFF", {"hybrid", "vector", "keyword"}, TRUE, FALSE, FALSE, FALSE),
   With("HYBRID", {"hybrid"}, FALSE, FALSE, FALSE, TRUE),
   With("HYBRID", {"vector", "keyword"}, TRUE, FALSE, FALSE, TRUE),
   With("EXPANDED", {"hybrid"}, TRUE, TRUE, FALSE, TRUE),
   With("EXPANDED", {"vector"}, FALSE, FALSE, TRUE, TRUE),
   With("MULTI_QUERY", {"vector", "keyword"}, FALSE, FALSE, FALSE, TRUE)}
=============================================================================
