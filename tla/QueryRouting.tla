----------------------------- MODULE QueryRouting -----------------------------
(***************************************************************************)
(* Query intelligence, backend/app/services/query_intelligence/: a query   *)
(* is looked at without a model or a database, scored for ambiguity and    *)
(* for each class of query, and routed to the keyword branch, the vector   *)
(* branch or both; the adaptive service chooses how to search from its     *)
(* complexity.  A query is what the patterns see of it: the words they     *)
(* tell apart, how many others there are, how it opens and what joins it.  *)
(* Scores are in thousandths.                                              *)
(***************************************************************************)
EXTENDS Integers, FiniteSets, FiniteSetsExt

CONSTANTS
  Vocabulary,  \* the words the patterns tell apart, a set of records of Word
  Fillers,     \* how many other words a query may have
  Joins,       \* how its clauses are joined, a subset of JoinKinds
  NoRoute

Shapes == {"plain", "snake", "camel", "upper", "acronym", "version", "hyphen", "capital", "number"}
\* The word lists a word is in, and "long" for one of eight letters or more.
Roles  == {"question", "pronoun", "context", "verb", "noun", "topic", "long"}
Word   == [text : STRING, shape : Shapes, roles : SUBSET Roles]

\* What a clause is joined by: a word that contains "and" or "then", " affect "
\* or the like, one " and ", or several of them.
JoinKinds == {"none", "substring", "affect", "and", "ands"}

ASSUME QueryAssumption ==
  Vocabulary \subseteq Word /\ Fillers \subseteq Nat /\ Joins \subseteq JoinKinds

\* question_type as far as the scores tell it apart: definition, procedure and
\* policy; factual; the others.
Openings == {"descriptive", "factual", "other"}

VARIABLES query, route
queryVars == <<query, route>>

Query == [words : SUBSET Vocabulary, fillers : Fillers, opening : Openings,
          joins : Joins, marks : 0..2, compares : BOOLEAN,
          \* does a gap of exactly 0.15 or 0.30 between two scores come out lower
          \* in floating point
          rounding : {0, 1}]

-----------------------------------------------------------------------------
(* extract_features. *)

\* "2.1" is two words to \b\w+\b, and so is "dead-line".
WordCount(q) ==
  Cardinality(q.words) + Cardinality({w \in q.words : w.shape \in {"version", "hyphen"}})
    + q.fillers

Shaped(q, S)  == \E w \in q.words : w.shape \in S
WithRole(q, r) == {w \in q.words : r \in w.roles}

Identifies(q)  == Shaped(q, {"snake", "camel", "upper", "version", "hyphen"})
HasUpper(q)    == Shaped(q, {"upper"})
HasAcronym(q)  == Shaped(q, {"upper", "acronym"})
HasNumbers(q)  == Shaped(q, {"number", "version"})
Asks(q)        == WithRole(q, "question") # {}
HasEntity(q)   == Shaped(q, Shapes \ {"plain"}) \/ WithRole(q, "long") # {}

-----------------------------------------------------------------------------
(* analyze_ambiguity. *)

If(condition, weight) == IF condition THEN weight ELSE 0

AtMost(n, bound) == IF n > bound THEN bound ELSE n

\* VERY_SHORT_THRESHOLD is 4.
Brevity(q) ==
  If(WordCount(q) <= 4, 350) + If(WordCount(q) = 1, 200) + If(WordCount(q) \in {0, 2}, 150)

PronounDoubt(q) ==
  IF WithRole(q, "pronoun") = {} THEN 0
  ELSE If(~Identifies(q) /\ ~Shaped(q, {"capital"}), 250) + If(WithRole(q, "context") # {}, 100)

GenericDoubt(q) ==
  IF WordCount(q) > 6 THEN 0
  ELSE If(/\ WithRole(q, "verb") # {}
          /\ 2 * Cardinality(WithRole(q, "verb")) >= WordCount(q), 150)
       + If(WithRole(q, "noun") # {}, 100)

EntityDoubt(q) ==
  IF HasEntity(q) \/ ~Asks(q) THEN 0
  ELSE If(WordCount(q) <= 8, 150) + If(WordCount(q) <= 5 /\ WithRole(q, "pronoun") # {}, 300)

Ambiguity(q) == AtMost(Brevity(q) + PronounDoubt(q) + GenericDoubt(q) + EntityDoubt(q), 1000)

\* AMBIGUITY_THRESHOLD.
Ambiguous(a) == a >= 500

-----------------------------------------------------------------------------
(* classify_query, of the features and the ambiguity a. *)

KeywordScore(q) ==
  IF ~Identifies(q) THEN 0
  ELSE 450 + If(Shaped(q, {"snake"}), 150) + If(HasUpper(q), 100) + If(Shaped(q, {"version"}), 100)
           + If(WordCount(q) <= 6, 200) + If(WithRole(q, "long") # {}, 50) + If(WordCount(q) = 1, 300)

SemanticScore(q, a) ==
  If(~Identifies(q) /\ Asks(q) /\ ~Ambiguous(a), 250)
  + If(WordCount(q) >= 6 /\ ~Identifies(q) /\ ~Ambiguous(a), 150)
  + If(q.opening = "descriptive", 100)

FactualScore(q, a) ==
  If(HasNumbers(q) \/ HasAcronym(q), 100) + If(q.opening = "factual", 200)
  + If(WordCount(q) \in 4..10 /\ ~Ambiguous(a) /\ ~Identifies(q), 100)

MultiHopScore(q) ==
  If(q.joins \in {"substring", "and", "ands"} /\ WordCount(q) >= 10, 250)
  + If(q.marks > 0 /\ WordCount(q) >= 12, 150)
  + If(WithRole(q, "topic") # {} /\ WordCount(q) >= 12, 100)

AmbiguousScore(a) == If(Ambiguous(a), (8 * a) \div 10)

Classes == <<"keyword", "semantic", "factual", "multi_hop", "ambiguous">>

Scores(q, a) ==
  <<KeywordScore(q), SemanticScore(q, a), FactualScore(q, a), MultiHopScore(q), AmbiguousScore(a)>>

\* sorted is stable: of equal scores the class listed first comes first.
Best(scores) ==
  CHOOSE c \in 1..5 : \A d \in 1..5 : scores[c] > scores[d] \/ (scores[c] = scores[d] /\ c <= d)

\* How far the best score is ahead of the second.
Gap(scores, best) == scores[best] - Max({scores[c] : c \in (1..5) \ {best}})

GapBonus(gap) == IF gap >= 300 THEN 150 ELSE If(gap >= 150, 80)

Confidence(q, a, scores, best) ==
  Max({0, AtMost(scores[best] + GapBonus(Gap(scores, best) - q.rounding)
                   - If(Ambiguous(a) /\ Classes[best] # "ambiguous", 100), 1000)})

\* The class the scores say, "unknown" where none is high.
ClassOf(scores, best, confidence) ==
  IF scores[best] < 250 THEN [class |-> "unknown", confidence |-> AtMost(confidence, 500)]
  ELSE [class |-> Classes[best], confidence |-> confidence]

\* Mutant: a clearly ambiguous query is classified by its scores like any other.
ClassifyByScore(q, a, scores) == ClassOf(scores, Best(scores), Confidence(q, a, scores, Best(scores)))

Classify(q, a, scores) ==
  IF a >= 700 /\ AmbiguousScore(a) >= 400 THEN [class |-> "ambiguous", confidence |-> a]
  ELSE ClassOf(scores, Best(scores), Confidence(q, a, scores, Best(scores)))

-----------------------------------------------------------------------------
(* select_strategy, with the thresholds of the settings; c is the class. *)

SureOf(c, class) == c.class = class /\ c.confidence >= 600

Strategy(q, a, c) ==
  IF SureOf(c, "keyword") THEN IF Identifies(q) THEN "KEYWORD" ELSE "HYBRID"
  ELSE IF Ambiguous(a) THEN "HYBRID_WIDE"
  ELSE IF SureOf(c, "semantic") THEN "VECTOR"
  ELSE IF c.class = "multi_hop" /\ c.confidence >= 500 THEN "HYBRID_WIDE"
  ELSE "HYBRID"

-----------------------------------------------------------------------------
(* estimate_complexity. *)

ManyClauses(q) == q.marks > 1 \/ q.joins = "ands"

BaseLevel(q, a, c) ==
  IF \/ c.class = "multi_hop" /\ c.confidence >= 300
     \/ q.joins \in {"affect", "and", "ands"} /\ WordCount(q) >= 10 THEN "MULTI_HOP"
  ELSE IF q.compares /\ WordCount(q) >= 8 THEN "COMPLEX"
  ELSE IF WordCount(q) <= 6 \/ (WordCount(q) <= 12 /\ Ambiguous(a)) THEN "SIMPLE"
  ELSE IF WordCount(q) <= 12 THEN "MODERATE"
  ELSE "COMPLEX"

SplitUp(q, level) == IF ManyClauses(q) /\ level # "MULTI_HOP" THEN "COMPLEX" ELSE level

Complexity(q, a, c) == SplitUp(q, BaseLevel(q, a, c))

-----------------------------------------------------------------------------
(* AdaptiveRetrievalService.retrieve: the choice of its strategy, with every *)
(* feature of the configuration on; k is the complexity.                     *)

Risk(q, a, k) ==
  IF Ambiguous(a) /\ WordCount(q) <= 4 THEN "HIGH"
  ELSE IF Ambiguous(a) \/ k \in {"COMPLEX", "MULTI_HOP"} THEN "MEDIUM"
  ELSE "LOW"

Adaptive(q, a, k) ==
  IF k = "SIMPLE" THEN "DIRECT"
  ELSE IF k \in {"MULTI_HOP", "COMPLEX"} THEN "DECOMPOSED"
  ELSE IF Risk(q, a, k) = "HIGH" THEN "EXPANDED"
  ELSE IF WordCount(q) >= 8 /\ q.joins \in {"and", "ands"} THEN "MULTI_QUERY"
  ELSE IF Risk(q, a, k) = "MEDIUM" THEN "EXPANDED"
  ELSE "HYBRID"

-----------------------------------------------------------------------------
Searched(q, a, c, k) ==
  [ambiguity |-> a, class |-> c.class, strategy |-> Strategy(q, a, c),
   complexity |-> k, adaptive |-> Adaptive(q, a, k)]

Classified(q, a, c) == Searched(q, a, c, Complexity(q, a, c))

\* What is found out of a query of ambiguity a.
Analysis(q, a) == Classified(q, a, Classify(q, a, Scores(q, a)))

QueryInit(queries) == query \in queries /\ route = NoRoute

Plainest == [words |-> {}, fillers |-> 1, opening |-> "other", joins |-> "none",
             marks |-> 0, compares |-> FALSE, rounding |-> 0]

\* QueryAnalyzer.analyze.
AnalyzeQuery ==
  /\ route = NoRoute
  /\ route' = Analysis(query, Ambiguity(query))
  /\ UNCHANGED query

-----------------------------------------------------------------------------
(* Properties. *)

\* A query gives up one of the two branches only where that branch could add
\* little: the vector branch alone answers no query that names an identifier or
\* is ambiguous or short, the keyword branch alone none that names no identifier
\* or is clearly ambiguous.  For identifiers no rule says so: it is in the sums.
OneBranchIsEnough ==
  route # NoRoute =>
    /\ route.strategy = "VECTOR" =>
         ~Identifies(query) /\ ~Ambiguous(route.ambiguity) /\ WordCount(query) >= 6
    /\ route.strategy = "KEYWORD" => Identifies(query) /\ route.ambiguity < 700
=============================================================================
