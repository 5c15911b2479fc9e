----------------------------- MODULE Evaluation -----------------------------
(***************************************************************************)
(* The offline evaluation of retrieval (services/evaluation): a dataset is *)
(* run through one retriever, every case is measured, the averages are     *)
(* saved as the baseline, and those of a later run are held against it.    *)
(* Averages are in ten-thousandths, halves rounded up: the report rounds   *)
(* the binary fraction, which at a half may be one ten-thousandth less.    *)
(***************************************************************************)
EXTENDS Integers, FiniteSets, SequencesExt

CONSTANTS
  Datasets,      \* the datasets considered, sequences of records of Case
  Documents,     \* names of documents
  Rankings,      \* what a search may return: sequences of at most EvalTopK names
  EvalTopK, TopKValues,
  NoDocument     \* no name, no rank and no report

AdaptiveRetrievers == {"adaptive", "adaptive_reranked"}
RerankedRetrievers == {"hybrid_reranked", "adaptive_reranked"}
Retrievers == {"vector", "keyword", "hybrid"} \cup AdaptiveRetrievers \cup RerankedRetrievers

\* An expected result names its document, the slug of it or a piece of text.
Expectation == [name : Documents \cup {NoDocument}, slug : Documents \cup {NoDocument}, snippet : BOOLEAN]

\* route is the strategy QueryAnalyzer chooses for the query.
Case ==
  [id : Nat, blank : BOOLEAN, expected : SUBSET Expectation, category : {"factual", "semantic"},
   route : {"VECTOR", "KEYWORD", "HYBRID", "HYBRID_WIDE"}]

ASSUME EvaluationAssumption ==
  /\ \A d \in Datasets : d \in Seq(Case)
  /\ \A r \in Rankings : r \in Seq(Documents) /\ Len(r) <= EvalTopK
  /\ EvalTopK \in Nat \ {0} /\ {1, 5} \subseteq TopKValues /\ TopKValues \subseteq Nat
  /\ NoDocument \notin Nat

VARIABLES
  dataset, retriever, evalStep,
  settings,      \* two flags of the settings, which the whole process shares
  borrowed,      \* what the adapter keeps of them while it searches
  asked,         \* the RetrievalRequest of the case
  aborted,       \* a statement failed in the transaction of the run's session
  caseResults,       \* the CaseResults so far
  baseline,      \* the first report
  verdict
evaluationVars ==
  <<dataset, retriever, evalStep, settings, borrowed, asked, aborted, caseResults, baseline, verdict>>

EvaluationInit(datasets, retrievers, flags) ==
  /\ dataset \in datasets /\ retriever \in retrievers
  /\ settings \in [intelligence : flags, reranking : flags]
  /\ evalStep = "load"
  /\ borrowed = settings /\ asked = NoDocument /\ aborted = FALSE
  /\ caseResults = <<>> /\ baseline = NoDocument /\ verdict = NoDocument

-----------------------------------------------------------------------------
(* EvaluationMetrics, of one case. *)

Nearest(n, d) == (2 * n + d) \div (2 * d)

\* Slugs count only where no expected result has a name; a case known by pieces
\* of text alone is never hit.
Relevant(c) ==
  LET names == {e.name : e \in c.expected} \ {NoDocument}
      slugs == {e.slug : e \in c.expected} \ {NoDocument}
  IN IF names # {} THEN names ELSE slugs

FirstRank(ranking, relevant) ==
  LET hits == {n \in DOMAIN ranking : ranking[n] \in relevant}
  IN IF hits = {} THEN NoDocument ELSE CHOOSE n \in hits : \A m \in hits : n <= m

Within(rank, k) == rank # NoDocument /\ rank <= k

ReciprocalRank(rank) == IF rank = NoDocument THEN 0 ELSE Nearest(10000, rank)

Recall(ranking, relevant) ==
  IF relevant = {} THEN 0
  ELSE Nearest(10000 * Cardinality(ToSet(ranking) \cap relevant), Cardinality(relevant))

Precision(ranking, relevant) ==
  IF ranking = <<>> THEN 0
  ELSE Nearest(10000 * Cardinality(ToSet(ranking) \cap relevant), Len(ranking))

Measured(c, ranking) ==
  LET rank == FirstRank(ranking, Relevant(c))
      hits == {k \in TopKValues : Within(rank, k)}
  IN [rank |-> rank, hits |-> hits, mrr |-> ReciprocalRank(rank), category |-> c.category,
      recall |-> Recall(ranking, Relevant(c)), precision |-> Precision(ranking, Relevant(c)),
      status |-> IF EvalTopK \in hits THEN "hit" ELSE IF rank # NoDocument THEN "partial" ELSE "miss"]

-----------------------------------------------------------------------------
(* EvaluationMetrics.aggregate and the report. *)

Average(measured, field) ==
  Nearest(MapThenSumSet(LAMBDA n : measured[n][field], DOMAIN measured), Len(measured))

\* The share of cases hit among the first k.
HitShare(measured, k) ==
  Nearest(10000 * Cardinality({n \in DOMAIN measured : k \in measured[n].hits}), Len(measured))

\* Mutant: only the cases that got an answer count.
OverallAnswered(measured) ==
  LET answered == SelectSeq(measured, LAMBDA r : r.rank # NoDocument)
      of == IF answered = <<>> THEN measured ELSE answered
  IN [mrr |-> Average(of, "mrr"), hit_at_1 |-> HitShare(of, 1), hit_at_5 |-> HitShare(of, 5),
      recall |-> Average(of, "recall"), precision |-> Average(of, "precision")]

Overall(measured) ==
  [mrr |-> Average(measured, "mrr"),
   hit_at_1 |-> HitShare(measured, 1), hit_at_5 |-> HitShare(measured, 5),
   recall |-> Average(measured, "recall"),
   precision |-> Average(measured, "precision")]

Report(measured) ==
  [cases |-> measured, overall |-> Overall(measured),
   by_category |-> [c \in {r.category : r \in ToSet(measured)} |->
                      Overall(SelectSeq(measured, LAMBDA r : r.category = c))]]

\* RegressionChecker.compare of one metric, with the percentage it may fall by.
Compared(before, now, percent) ==
  IF now < before /\ (before - now) * 100 > percent * before THEN "FAIL"
  ELSE IF now < before /\ (before - now) * 200 > percent * before THEN "WARNING"
  ELSE "PASS"

Regression(before, now) ==
  [mrr      |-> Compared(before.mrr, now.mrr, 2),
   hit_at_5 |-> Compared(before.hit_at_5, now.hit_at_5, 2),
   hit_at_1 |-> Compared(before.hit_at_1, now.hit_at_1, 5)]

-----------------------------------------------------------------------------
(* EvaluationRunner.run with the adapters, twice: the first report is saved as *)
(* the baseline, the second compared with it.                                  *)

\* EvaluationDatasetLoader.validate, and the identifiers the schema keeps apart.
Valid(cases) ==
  /\ cases # <<>>
  /\ \A i, j \in DOMAIN cases : cases[i].id = cases[j].id => i = j
  /\ \A i \in DOMAIN cases :
       /\ ~cases[i].blank /\ cases[i].expected # {}
       /\ \A e \in cases[i].expected : e.name # NoDocument \/ e.slug # NoDocument \/ e.snippet

LoadDataset ==
  /\ evalStep = "load"
  /\ evalStep' = IF Valid(dataset) THEN "case" ELSE "refused"
  /\ UNCHANGED <<dataset, retriever, settings, borrowed, asked, aborted, caseResults, baseline, verdict>>

\* The case after those measured.
Current == dataset[Len(caseResults) + 1]

Asked(c) ==
  [mode |-> IF retriever \in {"vector", "keyword"} THEN retriever
            ELSE IF retriever \notin AdaptiveRetrievers THEN "hybrid"
            ELSE IF c.route = "VECTOR" THEN "vector"
            ELSE IF c.route = "KEYWORD" THEN "keyword" ELSE "hybrid",
   wide |-> retriever \in AdaptiveRetrievers /\ c.route = "HYBRID_WIDE"]

\* The adapter sets the flags for the time of its await.
BeginCase ==
  /\ evalStep = "case" /\ Len(caseResults) < Len(dataset)
  /\ evalStep' = "searching"
  /\ asked' = Asked(Current)
  /\ borrowed' = settings
  /\ settings' = [intelligence |-> settings.intelligence /\ retriever \notin AdaptiveRetrievers,
                  reranking    |-> settings.reranking \/ retriever \in RerankedRetrievers]
  /\ UNCHANGED <<dataset, retriever, aborted, caseResults, baseline, verdict>>

EndCase(ranking) ==
  /\ evalStep = "searching" /\ evalStep' = "case"
  /\ settings' = borrowed
  /\ asked' = NoDocument
  /\ caseResults' = Append(caseResults, Measured(Current, ranking))
  /\ UNCHANGED <<dataset, retriever, borrowed, baseline, verdict>>

CaseFinds ==
  /\ ~aborted
  /\ \E ranking \in Rankings : EndCase(ranking)
  /\ UNCHANGED aborted

\* The run goes on as if nothing was found, and nothing rolls the session back:
\* once a statement failed in it, so does every later one.
CaseRaises ==
  /\ EndCase(<<>>)
  /\ aborted' \in {aborted, TRUE}

SaveBaseline ==
  /\ evalStep = "case" /\ Len(caseResults) = Len(dataset) /\ baseline = NoDocument
  /\ baseline' = Report(caseResults)
  /\ caseResults' = <<>> /\ aborted' = FALSE
  /\ UNCHANGED <<dataset, retriever, evalStep, settings, borrowed, asked, verdict>>

Compare ==
  /\ evalStep = "case" /\ Len(caseResults) = Len(dataset) /\ baseline # NoDocument
  /\ verdict' = Regression(baseline.overall, Report(caseResults).overall)
  /\ evalStep' = "done"
  /\ UNCHANGED <<dataset, retriever, settings, borrowed, asked, aborted, caseResults, baseline>>

EvaluationNext ==
  \/ LoadDataset \/ BeginCase \/ CaseFinds \/ CaseRaises \/ SaveBaseline \/ Compare

-----------------------------------------------------------------------------
(* Properties. *)

\* The comparison tells a worse run from a better one, and a run whose searches
\* failed is a worse one.  Where no case ranks worse, every metric passes; where
\* none ranks better and more than two in a hundred of those found among the
\* first five are lost, one fails.
RegressionIsSeen ==
  evalStep = "done" =>
    LET rank(cases, n) == cases[n].rank
        worse(a, b) == a # NoDocument /\ (b = NoDocument \/ a < b)
        found == {n \in DOMAIN dataset : Within(rank(baseline.cases, n), 5)}
        lost == {n \in found : ~Within(rank(caseResults, n), 5)}
    IN /\ (\A n \in DOMAIN dataset : ~worse(rank(baseline.cases, n), rank(caseResults, n)))
            => \A metric \in DOMAIN verdict : verdict[metric] = "PASS"
       /\ (/\ \A n \in DOMAIN dataset : ~worse(rank(caseResults, n), rank(baseline.cases, n))
           /\ 50 * Cardinality(lost) > Cardinality(found))
            => \E metric \in DOMAIN verdict : verdict[metric] = "FAIL"
=============================================================================
