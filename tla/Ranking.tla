------------------------------- MODULE Ranking -------------------------------
(***************************************************************************)
(* The orderings of retrieval: reciprocal rank fusion of two branches      *)
(* (retrieval/fusion.py), the order a reranker gives, and the union of the *)
(* answers to several queries.  A result is a chunk and its score; a score *)
(* is counted in billionths while it is compared and in millionths when it *)
(* is kept.                                                                *)
(***************************************************************************)
EXTENDS Integers, Sequences, FiniteSets, SequencesExt

RrfK  == 60
Whole == 1000000  \* a kept score of 1.0

FirstOf(s, k) == SubSeq(s, 1, IF Len(s) < k THEN Len(s) ELSE k)

\* All rankings of at most k of the chunks.
RankingsOf(chunks, k) ==
  {l \in UNION {[1..n -> chunks] : n \in 0..k} : \A i, j \in DOMAIN l : l[i] = l[j] => i = j}

RankIn(branch, c) == {n \in DOMAIN branch : branch[n] = c}

Share(ranks) == IF ranks = {} THEN 0 ELSE 1000000000 \div (RrfK + CHOOSE n \in ranks : TRUE)

\* Mutant: the second branch that finds a chunk replaces its score.
RrfScoreOnce(vector, keyword, c) ==
  IF RankIn(keyword, c) = {} THEN Share(RankIn(vector, c)) ELSE Share(RankIn(keyword, c))

RrfScore(vector, keyword, c) == Share(RankIn(vector, c)) + Share(RankIn(keyword, c))

\* The members of S by falling score, the smaller first where scores tie.
ByScore(S, score) ==
  LET before(a, b) == score[a] > score[b] \/ (score[a] = score[b] /\ a < b)
      place(c)     == Cardinality({d \in S : before(d, c)}) + 1
  IN [n \in 1 .. Cardinality(S) |-> CHOOSE c \in S : place(c) = n]

\* By score, and by id where scores tie.
Fuse(vector, keyword, k) ==
  LET score == [c \in Range(vector) \cup Range(keyword) |-> RrfScore(vector, keyword, c)]
      order == ByScore(DOMAIN score, score)
  IN FirstOf([n \in DOMAIN order |-> [chunk |-> order[n], score |-> (score[order[n]] + 500) \div 1000]], k)

\* The reranker scores every candidate and keeps k, ties in the order of the list.
Reranked(results, scores, k) ==
  LET order == ByScore(DOMAIN results, scores)
  IN FirstOf([n \in DOMAIN order |-> [results[order[n]] EXCEPT !.score = scores[order[n]]]], k)

\* The first occurrence of every chunk, the k best by score, ties in the order of
\* the list.
BestOf(results, k) ==
  LET first == {n \in DOMAIN results : \A m \in 1 .. n - 1 : results[m].chunk # results[n].chunk}
      order == ByScore(first, [n \in first |-> results[n].score])
  IN FirstOf([n \in DOMAIN order |-> results[order[n]]], k)

\* The answers to several queries as one list of at most k results.  (The choice
\* from one element lets TLC evaluate the list once.)
Merge(answers, k) == CHOOSE best \in {BestOf(joined, k) : joined \in {FlattenSeq(answers)}} : TRUE

TopScore(results) == results[1].score

\* retrieval_confidence below 0.3: nothing found, or a best score below 0.4.
LowConfidence(results) == results = <<>> \/ \A n \in DOMAIN results : results[n].score < 400000
=============================================================================
