---------------------------- MODULE Scoring_proofs ----------------------------
(***************************************************************************)
(* What the judgements of Scoring guarantee for every query, proposal,     *)
(* hypothesis and answer: the weights and thresholds are the source's, so  *)
(* each proof says which of them a conclusion hangs on. The last part is   *)
(* about files: what is left of one in its passages.                       *)
(***************************************************************************)
EXTENDS Scoring, SequenceTheorems, FiniteSetTheorems, WellFoundedInduction, TLAPS

-----------------------------------------------------------------------------
LEMMA AmbiguityIsInt == \A q : Ambiguity(q) \in Int
<1>1. \A b, w : w \in Int => If(b, w) \in Int
  BY DEF If
<1>2. \A q : Brevity(q) \in Int
  BY <1>1 DEF Brevity
<1>3. \A q : PronounDoubt(q) \in Int
  BY <1>1 DEF PronounDoubt
<1>4. \A q : GenericDoubt(q) \in Int
  <2> TAKE q
  <2> DEFINE busy  == /\ WithRole(q, "verb") # {}
                      /\ 2 * Cardinality(WithRole(q, "verb")) >= WordCount(q)
             named == WithRole(q, "noun") # {}
  <2>1. GenericDoubt(q) = 0 \/ GenericDoubt(q) = If(busy, 150) + If(named, 100)
    BY Zenon DEF GenericDoubt
  <2> HIDE DEF busy, named
  <2>2. If(busy, 150) \in Int /\ If(named, 100) \in Int
    BY DEF If
  <2>3. QED
    BY <2>1, <2>2
<1>5. \A q : EntityDoubt(q) \in Int
  BY <1>1 DEF EntityDoubt
<1>6. QED
  BY <1>2, <1>3, <1>4, <1>5 DEF Ambiguity, AtMost

\* The score of a class is a number, whatever the query.
LEMMA ScoresAreInts == \A q : \A a \in Int : Scores(q, a) \in [1..5 -> Int]
<1> SUFFICES ASSUME NEW q, NEW a \in Int PROVE Scores(q, a) \in [1..5 -> Int]
  OBVIOUS
<1>1. \A b, w : w \in Int => If(b, w) \in Int
  BY DEF If
<1>2. KeywordScore(q) \in Int
  BY <1>1 DEF KeywordScore
<1>3. SemanticScore(q, a) \in Int
  BY <1>1 DEF SemanticScore
<1>4. FactualScore(q, a) \in Int
  BY <1>1 DEF FactualScore
<1>5. MultiHopScore(q) \in Int
  BY <1>1 DEF MultiHopScore
<1>6. AmbiguousScore(a) \in Int
  BY <1>1 DEF AmbiguousScore
<1>7. QED
  BY <1>2, <1>3, <1>4, <1>5, <1>6 DEF Scores

\* Of five scores there is a best, the first of the highest.
LEMMA BestIsAClass == \A s \in [1..5 -> Int] : Best(s) \in 1..5
<1> SUFFICES ASSUME NEW s \in [1..5 -> Int] PROVE Best(s) \in 1..5
  OBVIOUS
<1>1. /\ s[1] \in Int /\ s[2] \in Int /\ s[3] \in Int /\ s[4] \in Int /\ s[5] \in Int
  OBVIOUS
<1>2. 1..5 = {1, 2, 3, 4, 5}
  OBVIOUS
<1>3. \E c \in {1, 2, 3, 4, 5} : \A d \in {1, 2, 3, 4, 5} :
        s[c] > s[d] \/ (s[c] = s[d] /\ c <= d)
  BY <1>1
<1>4. QED
  BY <1>2, <1>3 DEF Best

\* The confidence is at most the best score and the bonus of 150 for its lead.
LEMMA ConfidenceBound ==
  \A q : \A a \in Int, s \in [1..5 -> Int] : \A b \in 1..5 :
    Confidence(q, a, s, b) >= 600 => s[b] >= 450
<1> SUFFICES ASSUME NEW q, NEW a \in Int, NEW s \in [1..5 -> Int], NEW b \in 1..5,
                    Confidence(q, a, s, b) >= 600
             PROVE  s[b] >= 450
  OBVIOUS
<1> DEFINE bonus == GapBonus(Gap(s, b) - q.rounding)
           loss  == If(Ambiguous(a) /\ Classes[b] # "ambiguous", 100)
           sure  == AtMost(s[b] + bonus - loss, 1000)
<1>1. bonus \in {0, 80, 150}
  BY DEF GapBonus, If
<1>2. loss \in {0, 100}
  BY DEF If
<1>3. s[b] \in Int
  OBVIOUS
<1>4. Confidence(q, a, s, b) = Max({0, sure})
  BY DEF Confidence
<1> HIDE DEF bonus, loss
<1>5. sure \in Int /\ sure <= s[b] + bonus - loss
  BY <1>1, <1>2, <1>3 DEF AtMost
<1> HIDE DEF sure
<1>6. Max({0, sure}) \in {0, sure}
  <2>1. \E x \in {0, sure} : \A y \in {0, sure} : x >= y
    BY <1>5
  <2>2. QED
    BY <2>1 DEF Max
<1>7. sure >= 600
  BY <1>4, <1>5, <1>6
<1>8. QED
  BY <1>1, <1>2, <1>3, <1>5, <1>7

\* Each of its three parts is needed for a semantic score of 450.
LEMMA SemanticNeedsAll ==
  \A q : \A a \in Int : SemanticScore(q, a) >= 450 => ~Identifies(q) /\ WordCount(q) >= 6
<1> SUFFICES ASSUME NEW q, NEW a \in Int, SemanticScore(q, a) >= 450
             PROVE  ~Identifies(q) /\ WordCount(q) >= 6
  OBVIOUS
<1> DEFINE phrased == If(~Identifies(q) /\ Asks(q) /\ ~Ambiguous(a), 250)
           wordy == If(WordCount(q) >= 6 /\ ~Identifies(q) /\ ~Ambiguous(a), 150)
           opens == If(q.opening = "descriptive", 100)
<1>1. phrased \in {0, 250} /\ wordy \in {0, 150} /\ opens \in {0, 100}
  BY DEF If
<1>2. phrased + wordy + opens >= 450
  BY DEF SemanticScore
<1>3. wordy # 0
  <2> HIDE DEF phrased, wordy, opens
  <2> QED BY <1>1, <1>2
<1>4. QED
  BY <1>3 DEF If

-----------------------------------------------------------------------------
\* Classify, as select_strategy reads it: a sure "semantic" and a sure "keyword".
LEMMA SureSemantic ==
  \A q : \A a \in Int :
    SureOf(Classify(q, a, Scores(q, a)), "semantic") => ~Identifies(q) /\ WordCount(q) >= 6
<1> SUFFICES ASSUME NEW q, NEW a \in Int, SureOf(Classify(q, a, Scores(q, a)), "semantic")
             PROVE  ~Identifies(q) /\ WordCount(q) >= 6
  OBVIOUS
<1> DEFINE s == Scores(q, a)
           b == Best(s)
           k == Confidence(q, a, s, b)
           c == Classify(q, a, s)
<1>1. s \in [1..5 -> Int] /\ b \in 1..5
  BY ScoresAreInts, BestIsAClass
<1>2. s[2] = SemanticScore(q, a)
  BY DEF Scores
<1>3. c.class = "semantic" /\ c.confidence >= 600
  BY DEF SureOf
<1>4. c = ClassOf(s, b, k)
  BY <1>3 DEF Classify
<1> HIDE DEF s, b, k, c
<1>5. Classes[b] = "semantic" /\ k >= 600
  BY <1>3, <1>4 DEF ClassOf
<1>6. b = 2
  BY <1>1, <1>5 DEF Classes
<1>7. s[b] >= 450
  BY <1>1, <1>5, ConfidenceBound DEF k
<1>8. QED
  BY <1>2, <1>6, <1>7, SemanticNeedsAll

LEMMA SureKeyword ==
  \A q : \A a \in Int : SureOf(Classify(q, a, Scores(q, a)), "keyword") => a < 700
<1> SUFFICES ASSUME NEW q, NEW a \in Int, SureOf(Classify(q, a, Scores(q, a)), "keyword"),
                    a >= 700
             PROVE  FALSE
  OBVIOUS
<1>1. AmbiguousScore(a) >= 400
  BY DEF AmbiguousScore, Ambiguous, If
<1>2. Classify(q, a, Scores(q, a)).class = "ambiguous"
  BY <1>1 DEF Classify
<1>3. QED
  BY <1>2 DEF SureOf

-----------------------------------------------------------------------------
Routed == route # NoRoute => route = Analysis(query, Ambiguity(query))

LEMMA AnalysisSparesNoBranch ==
  Routed => OneBranchIsEnough
<1> SUFFICES ASSUME Routed, route # NoRoute PROVE OneBranchIsEnough
  BY DEF OneBranchIsEnough
<1> DEFINE a == Ambiguity(query)
           c == Classify(query, a, Scores(query, a))
<1>1. a \in Int
  BY AmbiguityIsInt
<1>2. route.ambiguity = a /\ route.strategy = Strategy(query, a, c)
  BY DEF Routed, Analysis, Classified, Searched
<1>3. SureOf(c, "semantic") => ~Identifies(query) /\ WordCount(query) >= 6
  BY <1>1, SureSemantic
<1>4. SureOf(c, "keyword") => a < 700
  BY <1>1, SureKeyword
<1> HIDE DEF a, c
<1>5. Strategy(query, a, c) = "VECTOR" => ~Ambiguous(a) /\ SureOf(c, "semantic")
  BY DEF Strategy
<1>6. Strategy(query, a, c) = "KEYWORD" => Identifies(query) /\ SureOf(c, "keyword")
  BY DEF Strategy
<1>7. QED
  BY <1>2, <1>3, <1>4, <1>5, <1>6 DEF OneBranchIsEnough

\* For every query over every vocabulary: the vector branch alone is chosen
\* only where no identifier is named and the query is neither ambiguous nor
\* short, the keyword branch alone only for an identifier and no clear ambiguity.
THEOREM BranchesSpared == ScoringSpec => []OneBranchIsEnough
<1>1. ScoringInit => Routed
  BY DEF ScoringInit, QueryInit, Routed
<1>2. Routed /\ [ScoringNext]_allVars => Routed'
  <2>1. ASSUME Routed, AnalyzeQuery PROVE Routed'
    BY <2>1 DEF Routed, AnalyzeQuery
  <2>2. ASSUME Routed, UNCHANGED queryVars PROVE Routed'
    BY <2>2 DEF Routed, queryVars
  <2>3. [ScoringNext]_allVars => AnalyzeQuery \/ UNCHANGED queryVars
    BY DEF ScoringNext, allVars, ScoreHypothesis, ScoreAnswer, RouteQuery, CutFile, AnswerTurn,
           Investigate, EvaluateRetrieval
  <2>4. QED
    BY <2>1, <2>2, <2>3
<1>3. QED
  BY <1>1, <1>2, AnalysisSparesNoBranch, PTL DEF ScoringSpec

-----------------------------------------------------------------------------
\* The adaptive service never expands a query: the complexity that is left when
\* it asks for the risk is MODERATE, and a moderate query is not ambiguous.
THEOREM NeverExpanded ==
  \A q : \A a, c : Adaptive(q, a, Complexity(q, a, c)) # "EXPANDED"
<1> SUFFICES ASSUME NEW q, NEW a, NEW c, Adaptive(q, a, Complexity(q, a, c)) = "EXPANDED"
             PROVE  FALSE
  OBVIOUS
<1> DEFINE k == Complexity(q, a, c)
<1>1. k \notin {"SIMPLE", "MULTI_HOP", "COMPLEX"} /\ Risk(q, a, k) \in {"HIGH", "MEDIUM"}
  BY DEF Adaptive
<1>2. Ambiguous(a)
  BY <1>1 DEF Risk
<1>3. BaseLevel(q, a, c) = k
  BY <1>1 DEF Complexity, SplitUp
<1>4. k = "MODERATE"
  BY <1>1, <1>3 DEF BaseLevel
<1>5. ~Ambiguous(a)
  BY <1>3, <1>4 DEF BaseLevel
<1>6. QED
  BY <1>2, <1>5

-----------------------------------------------------------------------------
(* The approval policy and its sandbox. *)

\* The rules a scenario's proposal and reviewer break.
Broken(s) == {rule \in Rules : Breaks(rule, Fixtures[s].proposal, Fixtures[s].reviewer)}

LEMMA ScenarioNames ==
  Scenarios = {"healthy_01", "degraded_02", "elevated_risk_03", "unauthorized_reviewer_04",
               "creator_self_approval_05", "expired_proposal_06", "conflicting_approval_07"}
BY DEF Scenarios, Fixtures

\* The rules a fixture breaks, by its parameters.
BrokenBy(status, level, score, steps, role, creator) ==
  (IF status \in {"proposed", "reviewed"} THEN {} ELSE {"lifecycle"})
  \cup (IF creator = "reviewer" THEN {"separation"} ELSE {})
  \cup (IF steps = 0 /\ score > 50 THEN {"assessment"} ELSE {})
  \cup (IF role \in RequiredRoles(level) THEN {} ELSE {"role"})

LEMMA FixtureBreaks ==
  ASSUME NEW s, NEW status, NEW level, NEW score \in 0..100, NEW steps, NEW role, NEW creator,
         Fixtures[s] = Fixture(status, level, score, steps, role, creator)
  PROVE  Broken(s) = BrokenBy(status, level, score, steps, role, creator)
<1> DEFINE p == Fixtures[s].proposal
           r == Fixtures[s].reviewer
<1>0. /\ p.organization = "alpha" /\ p.status = status /\ p.creator = creator /\ p.level = level
      /\ p.score = score /\ p.graded /\ p.actions = steps /\ ~p.executable
      /\ r.user = "reviewer" /\ r.organization = "alpha" /\ r.role = role
  BY DEF Fixture
<1> HIDE DEF p, r
<1>1. ~Breaks("organization", p, r)
  BY <1>0 DEF Breaks
<1>2. Breaks("lifecycle", p, r) <=> status \notin {"proposed", "reviewed"}
  BY <1>0 DEF Breaks
<1>3. Breaks("separation", p, r) <=> creator = "reviewer"
  BY <1>0 DEF Breaks
<1>4. Breaks("assessment", p, r) <=> steps = 0 /\ score > 50
  BY <1>0 DEF Breaks, AssessmentHolds, Stale
<1>5. Breaks("role", p, r) <=> role \notin RequiredRoles(level)
  BY <1>0 DEF Breaks
<1>6. Broken(s) = {rule \in Rules : Breaks(rule, p, r)}
  BY DEF Broken, p, r
<1>7. QED
  BY <1>1, <1>2, <1>3, <1>4, <1>5, <1>6 DEF BrokenBy, Rules

LEMMA BrokenRules ==
  /\ Broken("healthy_01") = {} /\ Broken("elevated_risk_03") = {}
  /\ Broken("degraded_02") = {"assessment", "role"}
  /\ Broken("unauthorized_reviewer_04") = {"assessment", "role"}
  /\ Broken("creator_self_approval_05") = {"separation"}
  /\ Broken("expired_proposal_06") = {"lifecycle"}
  /\ Broken("conflicting_approval_07") = {"lifecycle"}
<1>1. Broken("healthy_01") = {}
  <2>1. Fixtures["healthy_01"] = Fixture("proposed", "low", 15, 1, "ADMIN", "another")
    BY DEF Fixtures, Healthy01
  <2>2. 15 \in 0..100
    OBVIOUS
  <2>3. Broken("healthy_01") = BrokenBy("proposed", "low", 15, 1, "ADMIN", "another")
    BY <2>1, <2>2, FixtureBreaks, Zenon
  <2>4. QED  BY <2>3 DEF BrokenBy, RequiredRoles
<1>2. Broken("elevated_risk_03") = {}
  <2>1. Fixtures["elevated_risk_03"] = Fixture("proposed", "critical", 95, 1, "ADMIN", "another")
    BY DEF Fixtures, ElevatedRisk03
  <2>2. 95 \in 0..100
    OBVIOUS
  <2>3. Broken("elevated_risk_03") = BrokenBy("proposed", "critical", 95, 1, "ADMIN", "another")
    BY <2>1, <2>2, FixtureBreaks, Zenon
  <2>4. QED  BY <2>3 DEF BrokenBy, RequiredRoles
<1>3. Broken("degraded_02") = {"assessment", "role"}
  <2>1. Fixtures["degraded_02"] = Fixture("proposed", "high", 75, 0, "MEMBER", "another")
    BY DEF Fixtures, Degraded02
  <2>2. 75 \in 0..100
    OBVIOUS
  <2>3. Broken("degraded_02") = BrokenBy("proposed", "high", 75, 0, "MEMBER", "another")
    BY <2>1, <2>2, FixtureBreaks, Zenon
  <2>4. QED  BY <2>3 DEF BrokenBy, RequiredRoles
<1>4. Broken("unauthorized_reviewer_04") = {"assessment", "role"}
  <2>1. Fixtures["unauthorized_reviewer_04"] = Fixture("proposed", "high", 70, 0, "MEMBER", "another")
    BY DEF Fixtures, UnauthorizedReviewer04
  <2>2. 70 \in 0..100
    OBVIOUS
  <2>3. Broken("unauthorized_reviewer_04") = BrokenBy("proposed", "high", 70, 0, "MEMBER", "another")
    BY <2>1, <2>2, FixtureBreaks, Zenon
  <2>4. QED  BY <2>3 DEF BrokenBy, RequiredRoles
<1>5. Broken("creator_self_approval_05") = {"separation"}
  <2>1. Fixtures["creator_self_approval_05"] = Fixture("proposed", "low", 20, 0, "ADMIN", "reviewer")
    BY DEF Fixtures, CreatorSelfApproval05
  <2>2. 20 \in 0..100
    OBVIOUS
  <2>3. Broken("creator_self_approval_05") = BrokenBy("proposed", "low", 20, 0, "ADMIN", "reviewer")
    BY <2>1, <2>2, FixtureBreaks, Zenon
  <2>4. QED  BY <2>3 DEF BrokenBy, RequiredRoles
<1>6. Broken("expired_proposal_06") = {"lifecycle"}
  <2>1. Fixtures["expired_proposal_06"] = Fixture("expired", "low", 10, 0, "ADMIN", "another")
    BY DEF Fixtures, ExpiredProposal06
  <2>2. 10 \in 0..100
    OBVIOUS
  <2>3. Broken("expired_proposal_06") = BrokenBy("expired", "low", 10, 0, "ADMIN", "another")
    BY <2>1, <2>2, FixtureBreaks, Zenon
  <2>4. QED  BY <2>3 DEF BrokenBy, RequiredRoles
<1>7. Broken("conflicting_approval_07") = {"lifecycle"}
  <2>1. Fixtures["conflicting_approval_07"] = Fixture("approved", "medium", 45, 0, "ADMIN", "another")
    BY DEF Fixtures, ConflictingApproval07
  <2>2. 45 \in 0..100
    OBVIOUS
  <2>3. Broken("conflicting_approval_07") = BrokenBy("approved", "medium", 45, 0, "ADMIN", "another")
    BY <2>1, <2>2, FixtureBreaks, Zenon
  <2>4. QED  BY <2>3 DEF BrokenBy, RequiredRoles
<1>8. QED  BY <1>1, <1>2, <1>3, <1>4, <1>5, <1>6, <1>7

LEMMA PassedByBroken ==
  ASSUME NEW rules \in SUBSET Rules, NEW s
  PROVE  Passed(s, rules) <=> Expected(s, rules \cap Broken(s))
<1>1. Violations(rules, Fixtures[s].proposal, Fixtures[s].reviewer) = rules \cap Broken(s)
  BY DEF Violations, Broken
<1>2. QED  BY <1>1 DEF Passed

(* All scenarios pass exactly with a policy that has the rule of the status  *)
(* and the rule of the creator, and one of the rules of the assessment and   *)
(* of the role: the sandbox notices no other gap.                            *)
THEOREM SandboxNotices ==
  ASSUME NEW rules \in SUBSET Rules
  PROVE  AllPassed(rules) <=>
           {"lifecycle", "separation"} \subseteq rules /\ rules \cap {"assessment", "role"} # {}
<1>1. Passed("healthy_01", rules) /\ Passed("elevated_risk_03", rules)
  <2>1. \A s \in {"healthy_01", "elevated_risk_03"} : rules \cap Broken(s) = {}
    BY BrokenRules
  <2>2. \A s \in {"healthy_01", "elevated_risk_03"} : Expected(s, {})
    BY Zenon DEF Expected
  <2>3. QED  BY <2>1, <2>2, PassedByBroken
<1>2. Passed("degraded_02", rules) <=> rules \cap {"assessment", "role"} # {}
  BY PassedByBroken, BrokenRules, Zenon DEF Expected
<1>3. Passed("unauthorized_reviewer_04", rules) <=> rules \cap {"assessment", "role"} # {}
  BY PassedByBroken, BrokenRules, Zenon DEF Expected
<1>4. Passed("creator_self_approval_05", rules) <=> "separation" \in rules
  BY PassedByBroken, BrokenRules, Zenon DEF Expected
<1>5. Passed("expired_proposal_06", rules) <=> "lifecycle" \in rules
  BY PassedByBroken, BrokenRules, Zenon DEF Expected
<1>6. Passed("conflicting_approval_07", rules) <=> "lifecycle" \in rules
  BY PassedByBroken, BrokenRules, Zenon DEF Expected
<1>7. InvestigationRecovery08
  BY DEF InvestigationRecovery08, Reclaimed
<1>8. QED
  BY <1>1, <1>2, <1>3, <1>4, <1>5, <1>6, <1>7, ScenarioNames DEF AllPassed

(* Every scenario passes with the policy as it is: what simulate_all reports *)
(* and test_sandbox_simulator_all_scenarios expects.                         *)
COROLLARY SandboxPasses == AllPassed(Rules)
BY SandboxNotices DEF Rules

(* A policy without the rule of the role, or without the one of the risk     *)
(* assessment, passes all scenarios as well, those included that are named   *)
(* for an unauthorized reviewer and for stale evidence.                      *)
COROLLARY SandboxMissesRoles ==
  AllPassed(Rules \ {"role"}) /\ AllPassed(Rules \ {"assessment"})
BY SandboxNotices DEF Rules


-----------------------------------------------------------------------------
(* The heuristic's verdict.                                                *)

LEMMA LeastNatural ==
  ASSUME NEW T \in SUBSET Nat, T # {}
  PROVE  \E m \in T : \A n \in T : m <= n
<1>1. PICK m \in T : \A n \in T : ~(<<n, m>> \in OpToRel(<, Nat))
  BY NatLessThanWellFounded, WFMin, Zenon
<1>2. \A n \in T : ~(n < m)
  BY <1>1, Zenon DEF OpToRel
<1> QED
  BY <1>2

\* The verdict after each of the first m chunks.
WeighsUpTo(f, chunks, m) ==
  f = [n \in 0 .. m |->
         IF n = 0 THEN Verdict("UNSUPPORTED", 0) ELSE Weigh(f[n - 1], chunks[n])]

LEMMA WeighingExists ==
  ASSUME NEW chunks, NEW m \in Nat
  PROVE  \E f : WeighsUpTo(f, chunks, m)
<1> DEFINE T == {n \in Nat : ~\E f : WeighsUpTo(f, chunks, n)}
<1> SUFFICES ASSUME T # {} PROVE FALSE
  OBVIOUS
<1>1. PICK n \in T : \A k \in T : n <= k
  BY LeastNatural, Zenon
<1>2. CASE n = 0
  <2>1. WeighsUpTo([i \in 0 .. 0 |-> Verdict("UNSUPPORTED", 0)], chunks, 0)
    BY DEF WeighsUpTo
  <2> QED BY <1>2, <2>1
<1>3. CASE n # 0
  <2>1. n - 1 \in Nat /\ n - 1 \notin T
    BY <1>1, <1>3
  <2>2. PICK f : WeighsUpTo(f, chunks, n - 1)
    BY <2>1
  <2> DEFINE step(h, i) == IF i = 0 THEN Verdict("UNSUPPORTED", 0) ELSE Weigh(h[i - 1], chunks[i])
             g == [i \in 0 .. n |-> step(f, i)]
  <2>3. \A i \in 0 .. n - 1 : g[i] = f[i]
    <3> SUFFICES ASSUME NEW i \in 0 .. n - 1 PROVE g[i] = f[i]
      BY Zenon
    <3>1. f[i] = step(f, i)
      BY <2>2 DEF WeighsUpTo
    <3>2. i \in 0 .. n
      BY <2>1
    <3> QED BY <3>1, <3>2
  <2>4. \A i \in 0 .. n : step(g, i) = step(f, i)
    <3> HIDE DEF g
    <3> SUFFICES ASSUME NEW i \in 0 .. n, i # 0 PROVE step(g, i) = step(f, i)
      OBVIOUS
    <3>1. i - 1 \in 0 .. n - 1
      BY <2>1
    <3> QED BY <2>3, <3>1
  <2> HIDE DEF step
  <2>5. g = [i \in 0 .. n |-> step(g, i)]
    BY <2>4
  <2> HIDE DEF g
  <2>6. WeighsUpTo(g, chunks, n)
    BY <2>5, Zenon DEF step, WeighsUpTo
  <2> QED BY <2>6
<1> QED BY <1>2, <1>3

LEMMA HeuristicWeighs ==
  ASSUME NEW chunks, chunks # <<>>, Len(chunks) \in Nat
  PROVE  \E f : /\ Heuristic(chunks) = f[Len(chunks)]
                /\ f[0] = Verdict("UNSUPPORTED", 0)
                /\ \A n \in 1 .. Len(chunks) : f[n] = Weigh(f[n - 1], chunks[n])
<1> DEFINE f == CHOOSE g : WeighsUpTo(g, chunks, Len(chunks))
           step(n) == IF n = 0 THEN Verdict("UNSUPPORTED", 0) ELSE Weigh(f[n - 1], chunks[n])
<1>1. WeighsUpTo(f, chunks, Len(chunks))
  BY WeighingExists, Zenon
<1>2. Heuristic(chunks) = f[Len(chunks)]
  BY Zenon DEF Heuristic, WeighsUpTo
<1> HIDE DEF f
<1>3. f = [n \in 0 .. Len(chunks) |-> step(n)]
  BY <1>1, Zenon DEF WeighsUpTo
<1> HIDE DEF step
<1>4. \A n \in 0 .. Len(chunks) : f[n] = step(n)
  BY <1>3
<1>5. f[0] = Verdict("UNSUPPORTED", 0) /\ \A n \in 1 .. Len(chunks) : f[n] = Weigh(f[n - 1], chunks[n])
  BY <1>4 DEF step
<1> QED BY <1>2, <1>5

\* What the status hangs on: a contradiction anywhere, then a strong match
\* anywhere, then a weaker one.
StatusBy(chunks, m) ==
  IF \E i \in 1 .. m : Contradicts(chunks[i]) THEN "CONTRADICTED"
  ELSE IF \E i \in 1 .. m : chunks[i].overlap >= 65 THEN "SUPPORTED"
  ELSE IF \E i \in 1 .. m : chunks[i].overlap >= 50 \/ chunks[i].overlap \in 30 .. 49
    THEN "PARTIALLY_SUPPORTED"
  ELSE "UNSUPPORTED"

LEMMA WeighedStatus ==
  ASSUME NEW v, NEW c
  PROVE  Weigh(v, c).status =
           IF v.status = "CONTRADICTED" \/ Contradicts(c) THEN "CONTRADICTED"
           ELSE IF c.overlap >= 65 THEN "SUPPORTED"
           ELSE IF c.overlap >= 50 /\ v.status # "SUPPORTED" THEN "PARTIALLY_SUPPORTED"
           ELSE IF c.overlap \in 30 .. 49 /\ v.status = "UNSUPPORTED" THEN "PARTIALLY_SUPPORTED"
           ELSE v.status
BY DEF Weigh, Raised, Verdict

LEMMA HeuristicStatus ==
  ASSUME NEW chunks, Len(chunks) \in Nat
  PROVE  Heuristic(chunks).status = StatusBy(chunks, Len(chunks))
<1>1. CASE chunks = <<>>
  <2>1. Len(chunks) = 0 /\ Heuristic(chunks).status = "UNSUPPORTED"
    BY <1>1 DEF Heuristic, Verdict
  <2> QED BY <2>1 DEF StatusBy
<1>2. CASE chunks # <<>>
  <2> DEFINE l == Len(chunks)
  <2>1. PICK f : /\ Heuristic(chunks) = f[l] /\ f[0] = Verdict("UNSUPPORTED", 0)
                 /\ \A n \in 1 .. l : f[n] = Weigh(f[n - 1], chunks[n])
    BY <1>2, HeuristicWeighs
  <2> HIDE DEF l
  <2>2. l \in Nat
    BY DEF l
  <2> DEFINE T == {n \in 0 .. l : f[n].status # StatusBy(chunks, n)}
  <2>3. T = {}
    <3> SUFFICES ASSUME T # {} PROVE FALSE
      OBVIOUS
    <3>1. PICK n \in T : \A k \in T : n <= k
      <4>1. T \in SUBSET Nat
        BY <2>2
      <4> HIDE DEF T
      <4> QED BY <4>1, LeastNatural
    <3>2. CASE n = 0
      <4>1. f[0].status = "UNSUPPORTED"
        BY <2>1 DEF Verdict
      <4>2. StatusBy(chunks, 0) = "UNSUPPORTED"
        BY DEF StatusBy
      <4> QED BY <3>1, <3>2, <4>1, <4>2
    <3>3. CASE n # 0
      <4>1. n \in 1 .. l /\ n - 1 \in 0 .. l
        BY <2>2, <3>1, <3>3
      <4>2. f[n - 1].status = StatusBy(chunks, n - 1)
        BY <3>1, <4>1
      <4>3. \A i : i \in 1 .. n <=> i = n \/ i \in 1 .. n - 1
        BY <2>2, <4>1
      <4> DEFINE v == f[n - 1]
                 c == chunks[n]
      <4>4. f[n] = Weigh(v, c)
        BY <2>1, <4>1
      <4>5. /\ (\E i \in 1 .. n : Contradicts(chunks[i])) <=>
                 Contradicts(c) \/ \E i \in 1 .. n - 1 : Contradicts(chunks[i])
            /\ (\E i \in 1 .. n : chunks[i].overlap >= 65) <=>
                 c.overlap >= 65 \/ \E i \in 1 .. n - 1 : chunks[i].overlap >= 65
            /\ (\E i \in 1 .. n : chunks[i].overlap >= 50 \/ chunks[i].overlap \in 30 .. 49) <=>
                 \/ c.overlap >= 50 \/ c.overlap \in 30 .. 49
                 \/ \E i \in 1 .. n - 1 : chunks[i].overlap >= 50 \/ chunks[i].overlap \in 30 .. 49
        BY <4>3, Zenon
      <4> HIDE DEF v, c
      <4> DEFINE contra == \E i \in 1 .. n - 1 : Contradicts(chunks[i])
                 strong == \E i \in 1 .. n - 1 : chunks[i].overlap >= 65
                 weak   == \E i \in 1 .. n - 1 : chunks[i].overlap >= 50 \/ chunks[i].overlap \in 30 .. 49
                 high   == c.overlap >= 65
                 middle == c.overlap >= 50
                 low    == c.overlap \in 30 .. 49
      <4>6. v.status = IF contra THEN "CONTRADICTED" ELSE IF strong THEN "SUPPORTED"
                       ELSE IF weak THEN "PARTIALLY_SUPPORTED" ELSE "UNSUPPORTED"
        BY <4>2, Zenon DEF StatusBy, v
      <4>7. StatusBy(chunks, n) =
              IF Contradicts(c) \/ contra THEN "CONTRADICTED" ELSE IF high \/ strong THEN "SUPPORTED"
              ELSE IF middle \/ low \/ weak THEN "PARTIALLY_SUPPORTED" ELSE "UNSUPPORTED"
        BY <4>5, Zenon DEF StatusBy
      <4>8. Weigh(v, c).status =
              IF v.status = "CONTRADICTED" \/ Contradicts(c) THEN "CONTRADICTED"
              ELSE IF high THEN "SUPPORTED"
              ELSE IF middle /\ v.status # "SUPPORTED" THEN "PARTIALLY_SUPPORTED"
              ELSE IF low /\ v.status = "UNSUPPORTED" THEN "PARTIALLY_SUPPORTED"
              ELSE v.status
        BY WeighedStatus
      <4> HIDE DEF contra, strong, weak, high, middle, low
      <4>9. Weigh(v, c).status = StatusBy(chunks, n)
        BY <4>6, <4>7, <4>8
      <4> QED BY <3>1, <4>4, <4>9
    <3> QED BY <3>2, <3>3
  <2>4. f[l].status = StatusBy(chunks, l)
    BY <2>2, <2>3
  <2> QED BY <2>1, <2>4 DEF l
<1> QED BY <1>1, <1>2

Verdicts == [status : Statuses, confidence : 0 .. 100]

LEMMA WeighedVerdict ==
  ASSUME NEW v \in Verdicts, NEW c
  PROVE  Weigh(v, c) \in Verdicts
<1>1. \A status \in Statuses, k \in 0 .. 100 : Raised(v, status, k) \in Verdicts /\ Verdict(status, k) \in Verdicts
  BY DEF Raised, Verdict, Verdicts
<1>2. {"SUPPORTED", "PARTIALLY_SUPPORTED", "UNSUPPORTED", "CONTRADICTED"} \subseteq Statuses
      /\ {85, 80, 65, 55, 60} \subseteq 0 .. 100
  BY DEF Statuses
<1>3. \/ Weigh(v, c) = v
      \/ \E k \in {85, 80} : Weigh(v, c) = Verdict("CONTRADICTED", k)
      \/ \E status \in {"SUPPORTED", "PARTIALLY_SUPPORTED", "UNSUPPORTED"}, k \in {85, 65, 55, 60} :
           Weigh(v, c) = Raised(v, status, k)
  BY ZenonT(30) DEF Weigh
<1> QED BY <1>1, <1>2, <1>3

LEMMA HeuristicIsVerdict ==
  ASSUME NEW chunks, Len(chunks) \in Nat
  PROVE  Heuristic(chunks) \in Verdicts
<1>0. Verdict("UNSUPPORTED", 70) \in Verdicts /\ Verdict("UNSUPPORTED", 0) \in Verdicts
  BY DEF Verdict, Verdicts, Statuses
<1>1. CASE chunks = <<>>
  BY <1>0, <1>1 DEF Heuristic
<1>2. CASE chunks # <<>>
  <2> DEFINE l == Len(chunks)
  <2>1. PICK f : /\ Heuristic(chunks) = f[l] /\ f[0] = Verdict("UNSUPPORTED", 0)
                 /\ \A n \in 1 .. l : f[n] = Weigh(f[n - 1], chunks[n])
    BY <1>2, HeuristicWeighs
  <2> HIDE DEF l
  <2>2. l \in Nat
    BY DEF l
  <2> DEFINE T == {n \in 0 .. l : f[n] \notin Verdicts}
  <2>3. T = {}
    <3> SUFFICES ASSUME T # {} PROVE FALSE
      OBVIOUS
    <3>1. PICK n \in T : \A k \in T : n <= k
      <4>1. T \in SUBSET Nat
        BY <2>2
      <4> HIDE DEF T
      <4> QED BY <4>1, LeastNatural
    <3>2. n # 0
      BY <1>0, <2>1, <3>1
    <3>3. n \in 1 .. l /\ n - 1 \in 0 .. l
      BY <2>2, <3>1, <3>2
    <3>4. f[n - 1] \in Verdicts
      BY <3>1, <3>3
    <3>5. f[n] \in Verdicts
      BY <2>1, <3>3, <3>4, WeighedVerdict
    <3> QED BY <3>1, <3>5
  <2> QED BY <2>1, <2>2, <2>3
<1> QED BY <1>1, <1>2


\* The status ignores the order: it is a matter of which chunks there are.
LEMMA OrderIsIgnored ==
  ASSUME NEW S, NEW chunks \in Seq(S), NEW order \in [DOMAIN chunks -> DOMAIN chunks], IsInjective(order)
  PROVE  Heuristic([i \in DOMAIN chunks |-> chunks[order[i]]]).status = Heuristic(chunks).status
<1> DEFINE l == Len(chunks)
           other == [i \in DOMAIN chunks |-> chunks[order[i]]]
<1>1. l \in Nat /\ DOMAIN chunks = 1 .. l
  OBVIOUS
<1>2. other \in Seq(S) /\ Len(other) = l
  BY <1>1
<1>3. order \in Surjection(1 .. l, 1 .. l)
  <2>1. order \in Injection(1 .. l, 1 .. l)
    BY <1>1 DEF Injection
  <2>2. IsFiniteSet(1 .. l)
    BY <1>1, FS_Interval
  <2> QED BY <2>1, <2>2, FS_Injection
<1>4. /\ \A i \in 1 .. l : order[i] \in 1 .. l /\ other[i] = chunks[order[i]]
      /\ \A j \in 1 .. l : \E i \in 1 .. l : order[i] = j
  BY <1>1, <1>3, Zenon DEF Surjection
<1>5. Heuristic(chunks).status = StatusBy(chunks, l) /\ Heuristic(other).status = StatusBy(other, l)
  BY <1>1, <1>2, HeuristicStatus
<1> HIDE DEF l, other
\* The same chunks in both.
<1>6. /\ \A i \in 1 .. l : \E j \in 1 .. l : other[i] = chunks[j]
      /\ \A j \in 1 .. l : \E i \in 1 .. l : other[i] = chunks[j]
  <2>1. \A i \in 1 .. l : \E j \in 1 .. l : other[i] = chunks[j]
    BY <1>4, Zenon
  <2>2. ASSUME NEW j \in 1 .. l PROVE \E i \in 1 .. l : other[i] = chunks[j]
    <3>1. PICK i \in 1 .. l : order[i] = j
      BY <1>4
    <3>2. other[i] = chunks[j]
      BY <1>4, <3>1, Zenon
    <3> QED BY <3>2
  <2> QED BY <2>1, <2>2
<1>7. (\E i \in 1 .. l : Contradicts(other[i])) <=> \E i \in 1 .. l : Contradicts(chunks[i])
  BY <1>6, Zenon
<1>8. (\E i \in 1 .. l : other[i].overlap >= 65) <=> \E i \in 1 .. l : chunks[i].overlap >= 65
  BY <1>6, Zenon
<1>9. (\E i \in 1 .. l : other[i].overlap >= 50 \/ other[i].overlap \in 30 .. 49) <=>
        \E i \in 1 .. l : chunks[i].overlap >= 50 \/ chunks[i].overlap \in 30 .. 49
  BY <1>6, Zenon
<1>10. StatusBy(other, l) = StatusBy(chunks, l)
  BY <1>7, <1>8, <1>9, Zenon DEF StatusBy
<1> QED BY <1>5, <1>10 DEF other

-----------------------------------------------------------------------------
(* The verdicts of an answer and what they add up to.                      *)

LEMMA LlmVerdictsTyped == LlmVerdicts \subseteq Verdicts
<1>1. \A status \in Statuses, k \in {40, 60, 90} : Verdict(status, k) \in Verdicts
  BY DEF Verdict, Verdicts
<1> QED BY <1>1 DEF LlmVerdicts, Statuses

LEMMA NoOpinionMissing == NonVerifiable \in Verdicts /\ Unknown \in Verdicts
BY DEF NonVerifiable, Unknown, Verdict, Verdicts, Statuses

LEMMA SelectionIsSequence ==
  ASSUME NEW n \in Nat, NEW chunks \in [1 .. n -> Chunks]
  PROVE  \E S : Select(chunks) \in Seq(S)
<1> DEFINE ranked == SetToSortSeq(DOMAIN chunks,
             LAMBDA i, j : Precedes(chunks, i, j) /\ (Precedes(chunks, j, i) => i < j))
           k == IF Len(chunks) < TopK THEN Len(chunks) ELSE TopK
           S == {chunks[ranked[i]] : i \in 1 .. k}
<1>1. k \in Nat
  BY VerificationAssumption
<1>2. Select(chunks) = [i \in 1 .. k |-> chunks[ranked[i]]]
  BY Zenon DEF Select
<1> HIDE DEF k, ranked
<1>3. [i \in 1 .. k |-> chunks[ranked[i]]] \in Seq(S)
  BY <1>1
<1> QED BY <1>2, <1>3, Zenon

EvidenceIsSequence == evidence # NoVerdict => \E S : evidence \in Seq(S)

Pending == IF evidence = NoVerdict THEN 0 ELSE 1

VerdictsTyped ==
  /\ claims \in Nat
  /\ results \in Seq(Verdicts)
  /\ doubtful # NoVerdict => doubtful \in Verdicts /\ evidence # NoVerdict

\* Every claim is waiting, being judged or judged.
ClaimsBounded == claims + Len(results) + Pending <= MaxClaims

Progressing ==
  /\ stage \in {"idle", "answered"} => evidence = NoVerdict
  /\ groundedness # NoVerdict => stage = "answered" /\ groundedness = Aggregate(results)

VerifyInv == EvidenceIsSequence /\ VerdictsTyped /\ ClaimsBounded /\ Progressing

LEMMA InitVerifyInv == VerifyInit => VerifyInv
BY VerificationAssumption
   DEF VerifyInit, VerifyInv, EvidenceIsSequence, VerdictsTyped, ClaimsBounded, Progressing, Pending

LEMMA ConcludeStep ==
  ASSUME VerifyInv, NEW given \in Verdicts, Conclude(given), evidence # NoVerdict
  PROVE  VerifyInv'
<1>1. /\ results \in Seq(Verdicts) /\ results' = Append(results, given) /\ claims \in Nat
      /\ Len(results') = Len(results) + 1 /\ results' \in Seq(Verdicts) /\ Len(results) \in Nat
      /\ evidence' = NoVerdict /\ doubtful' = NoVerdict
      /\ claims' = claims /\ stage' = stage /\ groundedness' = groundedness
  BY DEF VerifyInv, VerdictsTyped, Conclude
<1>2. groundedness = NoVerdict /\ stage \notin {"idle", "answered"}
  BY DEF VerifyInv, Progressing
<1>3. claims + Len(results) + 1 <= MaxClaims
  BY DEF VerifyInv, ClaimsBounded, Pending
<1> QED BY <1>1, <1>2, <1>3, VerificationAssumption
    DEF VerifyInv, EvidenceIsSequence, VerdictsTyped, ClaimsBounded, Progressing, Pending

LEMMA NextVerifyInv == VerifyInv /\ [VerifyNext]_verifyVars => VerifyInv'
<1> SUFFICES ASSUME VerifyInv, [VerifyNext]_verifyVars PROVE VerifyInv'
  OBVIOUS
<1>0. /\ claims \in Nat /\ results \in Seq(Verdicts) /\ Len(results) \in Nat
      /\ claims + Len(results) + Pending <= MaxClaims /\ MaxClaims \in Nat
  BY VerificationAssumption DEF VerifyInv, VerdictsTyped, ClaimsBounded
<1>1. ASSUME evidence # NoVerdict PROVE Heuristic(evidence) \in Verdicts
  <2>1. PICK S : evidence \in Seq(S)
    BY <1>1 DEF VerifyInv, EvidenceIsSequence
  <2>2. Len(evidence) \in Nat
    BY <2>1
  <2> QED BY <2>2, HeuristicIsVerdict
<1>2. ASSUME NEW verifiable \in 0 .. MaxClaims, NEW opinions \in 0 .. MaxClaims,
             ExtractClaims(verifiable, opinions)
      PROVE  VerifyInv'
  <2>1. results' \in Seq(Verdicts) /\ Len(results') = opinions /\ opinions \in Nat /\ verifiable \in Nat
    <3>1. results' = [i \in 1 .. opinions |-> NonVerifiable]
      BY <1>2 DEF ExtractClaims
    <3> QED BY <1>0, <3>1, NoOpinionMissing
  <2>2. /\ evidence' = NoVerdict /\ evidence = NoVerdict /\ doubtful' = NoVerdict /\ doubtful = NoVerdict
        /\ groundedness' = NoVerdict /\ claims' = verifiable /\ stage' = "verifying"
        /\ verifiable + opinions <= MaxClaims
    BY <1>2 DEF ExtractClaims, VerifyInv, Progressing, VerdictsTyped
  <2> QED BY <1>0, <2>1, <2>2
      DEF VerifyInv, EvidenceIsSequence, VerdictsTyped, ClaimsBounded, Progressing, Pending
<1>3. ASSUME NEW n \in 0 .. MaxChunks, NEW chunks \in [1 .. n -> Chunks], SelectEvidence(chunks)
      PROVE  VerifyInv'
  <2>1. \E S : evidence' \in Seq(S)
    BY <1>3, SelectionIsSequence, VerificationAssumption DEF SelectEvidence
  <2>2. /\ stage' = "verifying" /\ claims > 0 /\ evidence = NoVerdict /\ claims' = claims - 1
        /\ doubtful' = NoVerdict /\ results' = results /\ groundedness' = NoVerdict
    BY <1>3 DEF SelectEvidence, VerifyInv, Progressing, VerdictsTyped
  <2>3. EvidenceIsSequence' /\ VerdictsTyped' /\ Progressing'
    BY <1>0, <2>1, <2>2 DEF EvidenceIsSequence, VerdictsTyped, Progressing
  <2>4. ClaimsBounded'
    BY <1>0, <2>2 DEF ClaimsBounded, Pending
  <2> QED BY <2>3, <2>4 DEF VerifyInv
<1>4. ASSUME JudgeByHeuristic PROVE VerifyInv'
  <2>1. evidence # NoVerdict /\ Heuristic(evidence) \in Verdicts
    BY <1>1, <1>4 DEF JudgeByHeuristic
  <2>2. CASE Conclude(Heuristic(evidence))
    BY <2>1, <2>2, ConcludeStep
  <2>3. CASE doubtful' = Heuristic(evidence) /\ UNCHANGED <<stage, llm, claims, evidence, results, groundedness>>
    BY <2>1, <2>3
       DEF VerifyInv, EvidenceIsSequence, VerdictsTyped, ClaimsBounded, Progressing, Pending
  <2> QED BY <1>4, <2>2, <2>3 DEF JudgeByHeuristic
<1>5. ASSUME HeuristicFails PROVE VerifyInv'
  BY <1>5, ConcludeStep, NoOpinionMissing DEF HeuristicFails
<1>6. ASSUME JudgeByLlm PROVE VerifyInv'
  <2>1. doubtful \in Verdicts /\ evidence # NoVerdict
    BY <1>6 DEF JudgeByLlm, VerifyInv, VerdictsTyped
  <2>2. PICK given \in LlmVerdicts :
          Conclude(IF given.confidence > doubtful.confidence THEN given ELSE doubtful)
    BY <1>6 DEF JudgeByLlm
  <2> DEFINE final == IF given.confidence > doubtful.confidence THEN given ELSE doubtful
  <2>3. final \in Verdicts
    BY <2>1, LlmVerdictsTyped
  <2> HIDE DEF final
  <2>4. Conclude(final)
    BY <2>2 DEF final
  <2> QED BY <2>1, <2>3, <2>4, ConcludeStep
<1>7. ASSUME LlmFails PROVE VerifyInv'
  BY <1>7, ConcludeStep DEF LlmFails, VerifyInv, VerdictsTyped
<1>8. ASSUME AggregateVerdicts PROVE VerifyInv'
  BY <1>8 DEF AggregateVerdicts, VerifyInv, EvidenceIsSequence, VerdictsTyped, ClaimsBounded,
              Progressing, Pending
<1>9. CASE UNCHANGED verifyVars
  BY <1>9 DEF verifyVars, VerifyInv, EvidenceIsSequence, VerdictsTyped, ClaimsBounded, Progressing, Pending
<1> QED BY <1>2, <1>3, <1>4, <1>5, <1>6, <1>7, <1>8, <1>9 DEF VerifyNext

LEMMA VerifyInvHolds == ScoringSpec => []VerifyInv
<1>1. ScoringInit => VerifyInv
  BY InitVerifyInv DEF ScoringInit
<1>2. [ScoringNext]_allVars => [VerifyNext]_verifyVars
  BY DEF ScoringNext, allVars, ScoreHypothesis, ScoreAnswer, RouteQuery, CutFile, AnswerTurn,
         Investigate, EvaluateRetrieval
<1> QED BY <1>1, <1>2, NextVerifyInv, PTL DEF ScoringSpec

\* The heuristic says the same of a claim in whatever order it sees the chunks
\* selected for it, for chunks of any number and any overlaps.
THEOREM OrderDoesNotMatter == ScoringSpec => []VerdictIgnoresOrder
<1>1. VerifyInv => VerdictIgnoresOrder
  <2> SUFFICES ASSUME VerifyInv, evidence # NoVerdict,
                      NEW order \in [DOMAIN evidence -> DOMAIN evidence], IsInjective(order)
               PROVE  Heuristic([i \in DOMAIN evidence |-> evidence[order[i]]]).status
                        = Heuristic(evidence).status
    BY DEF VerdictIgnoresOrder
  <2>1. PICK S : evidence \in Seq(S)
    BY DEF VerifyInv, EvidenceIsSequence
  <2> QED BY <2>1, OrderIsIgnored, Zenon
<1> QED BY <1>1, VerifyInvHolds, PTL


-----------------------------------------------------------------------------
(* Adding the verdicts up.                                                 *)

With(verdicts, status) == {i \in DOMAIN verdicts : verdicts[i].status = status}

LEMMA DisjointAdd ==
  ASSUME NEW A, NEW B, IsFiniteSet(A), IsFiniteSet(B), A \cap B = {}
  PROVE  /\ IsFiniteSet(A \cup B) /\ Cardinality(A \cup B) = Cardinality(A) + Cardinality(B)
         /\ Cardinality(A) \in Nat /\ Cardinality(B) \in Nat
<1>1. Cardinality(A \cap B) = 0 /\ Cardinality(A) \in Nat /\ Cardinality(B) \in Nat
  BY FS_EmptySet, FS_CardinalityType, Zenon
<1>2. IsFiniteSet(A \cup B) /\ Cardinality(A \cup B) = Cardinality(A) + Cardinality(B) - Cardinality(A \cap B)
  BY FS_Union, Zenon
<1> QED BY <1>1, <1>2

LEMMA Counting == \A m \in Nat : IsFiniteSet(1 .. m) /\ Cardinality(1 .. m) = m
<1> TAKE m \in Nat
<1>1. IsFiniteSet(1 .. m) /\ Cardinality(1 .. m) = IF 1 > m THEN 0 ELSE m - 1 + 1
  BY FS_Interval
<1> QED BY <1>1

LEMMA CountsAddUp ==
  ASSUME NEW verdicts \in Seq(Verdicts)
  PROVE  /\ \A status : Count(verdicts, status) \in Nat
         /\ Len(verdicts) =
              Count(verdicts, "SUPPORTED") + Count(verdicts, "PARTIALLY_SUPPORTED")
              + Count(verdicts, "UNSUPPORTED") + Count(verdicts, "CONTRADICTED")
              + Count(verdicts, "UNCERTAIN") + Count(verdicts, "NON_VERIFIABLE")
<1>1. /\ Len(verdicts) \in Nat /\ DOMAIN verdicts = 1 .. Len(verdicts)
      /\ \A i \in DOMAIN verdicts : verdicts[i].status \in Statuses
  <2>1. Len(verdicts) \in Nat /\ DOMAIN verdicts = 1 .. Len(verdicts)
    OBVIOUS
  <2>2. \A i \in DOMAIN verdicts : verdicts[i] \in Verdicts
    OBVIOUS
  <2>3. \A v \in Verdicts : v.status \in Statuses
    BY DEF Verdicts
  <2> QED BY <2>1, <2>2, <2>3
<1>2. IsFiniteSet(DOMAIN verdicts) /\ Cardinality(DOMAIN verdicts) = Len(verdicts)
  BY <1>1, Counting
<1>3. \A status : IsFiniteSet(With(verdicts, status)) /\ Count(verdicts, status) = Cardinality(With(verdicts, status))
                  /\ Count(verdicts, status) \in Nat
  <2> TAKE status
  <2>1. With(verdicts, status) \in SUBSET DOMAIN verdicts
    BY DEF With
  <2>2. IsFiniteSet(With(verdicts, status))
    BY <1>2, <2>1, FS_Subset
  <2> QED BY <2>2, FS_CardinalityType DEF With, Count
<1> DEFINE A == With(verdicts, "SUPPORTED") \cup With(verdicts, "PARTIALLY_SUPPORTED")
           B == With(verdicts, "UNSUPPORTED") \cup With(verdicts, "CONTRADICTED")
           C == With(verdicts, "UNCERTAIN") \cup With(verdicts, "NON_VERIFIABLE")
<1>4. /\ IsFiniteSet(A) /\ IsFiniteSet(B) /\ IsFiniteSet(C)
      /\ Cardinality(A) = Count(verdicts, "SUPPORTED") + Count(verdicts, "PARTIALLY_SUPPORTED")
      /\ Cardinality(B) = Count(verdicts, "UNSUPPORTED") + Count(verdicts, "CONTRADICTED")
      /\ Cardinality(C) = Count(verdicts, "UNCERTAIN") + Count(verdicts, "NON_VERIFIABLE")
  <2>1. ASSUME NEW s, NEW t, s # t
        PROVE  /\ IsFiniteSet(With(verdicts, s) \cup With(verdicts, t))
               /\ Cardinality(With(verdicts, s) \cup With(verdicts, t)) = Count(verdicts, s) + Count(verdicts, t)
    <3>1. With(verdicts, s) \cap With(verdicts, t) = {}
      BY <2>1 DEF With
    <3> QED BY <1>3, <3>1, DisjointAdd, Zenon
  <2> QED BY <2>1, Zenon
<1>5. A \cap B = {} /\ (A \cup B) \cap C = {} /\ DOMAIN verdicts = (A \cup B) \cup C
  BY <1>1 DEF With, Statuses
<1> HIDE DEF A, B, C
<1>6. IsFiniteSet(A \cup B) /\ Cardinality(A \cup B) = Cardinality(A) + Cardinality(B)
  BY <1>4, <1>5, DisjointAdd, Zenon
<1>7. Cardinality((A \cup B) \cup C) = Cardinality(A \cup B) + Cardinality(C)
  BY <1>4, <1>5, <1>6, DisjointAdd, Zenon
<1>8. Len(verdicts) = Cardinality(A) + Cardinality(B) + Cardinality(C)
  BY <1>2, <1>5, <1>6, <1>7
<1> QED BY <1>3, <1>4, <1>8

\* 0.85 of the decided claims: one unsupported claim then has five supported
\* ones beside it, two have eleven and more.
LEMMA HighlyGrounded ==
  ASSUME NEW verdicts \in Seq(Verdicts), Len(verdicts) <= 13,
         AnswerStatus(verdicts) = "HIGHLY_GROUNDED"
  PROVE  HallucinationRisk(verdicts) = "LOW" /\ Count(verdicts, "CONTRADICTED") = 0
<1> DEFINE s == Count(verdicts, "SUPPORTED")
           p == Count(verdicts, "PARTIALLY_SUPPORTED")
           u == Count(verdicts, "UNSUPPORTED")
           k == Count(verdicts, "CONTRADICTED")
           x == Count(verdicts, "UNCERTAIN")
           n == Count(verdicts, "NON_VERIFIABLE")
           l == Len(verdicts)
<1>1. /\ s \in Nat /\ p \in Nat /\ u \in Nat /\ k \in Nat /\ x \in Nat /\ n \in Nat
      /\ l = s + p + u + k + x + n /\ l \in Nat /\ l <= 13
  BY CountsAddUp
<1>2. k = 0 /\ GroundedShare(verdicts) >= 850
  BY <1>1 DEF AnswerStatus
<1>3. Decided(verdicts) = l - x - n
  BY DEF Decided
<1>4. GroundedShare(verdicts) = IF l - x - n = 0 THEN 1000 ELSE (1000 * s + 500 * p) \div (l - x - n)
  BY <1>3 DEF GroundedShare
<1>5. HallucinationRisk(verdicts) = IF MuchContradicted(verdicts) THEN "HIGH"
        ELSE IF k = 1 \/ u >= 2 \/ (u > 0 /\ 10 * u >= 3 * l) THEN "MEDIUM" ELSE "LOW"
  BY DEF HallucinationRisk
<1>6. ~MuchContradicted(verdicts)
  BY <1>2 DEF MuchContradicted
<1> HIDE DEF s, p, u, k, x, n, l
<1>7. l - x - n = s + p + u
  BY <1>1, <1>2
<1>8. u < 2 /\ ~(u > 0 /\ 10 * u >= 3 * l)
  <2>1. CASE s + p + u = 0
    BY <1>1, <2>1
  <2>2. CASE s + p + u # 0
    <3> DEFINE d == s + p + u
               a == 1000 * s + 500 * p
    <3>1. d \in 1 .. 13 /\ a \in Nat
      BY <1>1, <1>2, <2>2
    <3>2. a \div d >= 850
      BY <1>2, <1>4, <1>7, <2>2
    <3> HIDE DEF d, a
    <3>3. a >= 850 * d
      BY <3>1, <3>2
    <3> QED BY <1>1, <1>2, <3>3 DEF d, a
  <2> QED BY <2>1, <2>2
<1> QED BY <1>1, <1>2, <1>5, <1>6, <1>8 DEF k

\* An answer of at most thirteen claims that is called highly grounded has no
\* contradicted claim and a low risk of hallucination, whatever the verifiers
\* said of its claims and whichever of them failed.  (Of fourteen claims two
\* may be unsupported.)
THEOREM ShortAnswersAreLowRisk ==
  ASSUME MaxClaims <= 13
  PROVE  ScoringSpec => []HighlyGroundedIsLowRisk
<1>1. VerifyInv => HighlyGroundedIsLowRisk
  <2> SUFFICES ASSUME VerifyInv, groundedness # NoVerdict, groundedness.status = "HIGHLY_GROUNDED"
               PROVE  groundedness.risk = "LOW" /\ Count(results, "CONTRADICTED") = 0
    BY DEF HighlyGroundedIsLowRisk
  <2>1. results \in Seq(Verdicts) /\ Len(results) <= 13 /\ groundedness = Aggregate(results)
    <3>1. /\ claims \in Nat /\ results \in Seq(Verdicts) /\ Len(results) \in Nat /\ Pending \in Nat
          /\ claims + Len(results) + Pending <= MaxClaims
      BY DEF VerifyInv, VerdictsTyped, ClaimsBounded, Pending
    <3> QED BY <3>1, VerificationAssumption DEF VerifyInv, Progressing
  <2>2. groundedness.status = AnswerStatus(results) /\ groundedness.risk = HallucinationRisk(results)
    BY <2>1 DEF Aggregate
  <2> QED BY <2>1, <2>2, HighlyGrounded
<1> QED BY <1>1, VerifyInvHolds, PTL


-----------------------------------------------------------------------------
(* Sums: what the means of retrieval scores and of action scores are taken of. *)

\* f gives every subset of S with at most n elements its sum.
SumsUpTo(f, g, S, n) ==
  f = [s \in {t \in SUBSET S : Cardinality(t) <= n} |->
         IF s = {} THEN 0 ELSE g[CHOOSE x \in s : TRUE] + f[s \ {CHOOSE x \in s : TRUE}]]

SumsUp(f, g, S) ==
  f = [s \in SUBSET S |->
         IF s = {} THEN 0 ELSE g[CHOOSE x \in s : TRUE] + f[s \ {CHOOSE x \in s : TRUE}]]

LEMMA OneLess ==
  ASSUME NEW S, IsFiniteSet(S), NEW s \in SUBSET S, s # {}
  PROVE  /\ (CHOOSE x \in s : TRUE) \in s
         /\ s \ {CHOOSE x \in s : TRUE} \in SUBSET S
         /\ Cardinality(s) \in Nat /\ Cardinality(s) <= Cardinality(S)
         /\ Cardinality(s \ {CHOOSE x \in s : TRUE}) = Cardinality(s) - 1
<1>1. (CHOOSE x \in s : TRUE) \in s
  OBVIOUS
<1>2. IsFiniteSet(s) /\ Cardinality(s) <= Cardinality(S) /\ Cardinality(s) \in Nat
  BY FS_Subset, FS_CardinalityType
<1> DEFINE y == CHOOSE x \in s : TRUE
<1>3. y \in s
  BY <1>1
<1> HIDE DEF y
<1>4. Cardinality(s \ {y}) = Cardinality(s) - 1
  BY <1>2, <1>3, FS_RemoveElement, Zenon
<1> QED BY <1>1, <1>2, <1>4 DEF y

LEMMA SumsExist ==
  ASSUME NEW S, IsFiniteSet(S), NEW g, NEW m \in Nat
  PROVE  \E f : SumsUpTo(f, g, S, m)
<1> DEFINE T == {n \in Nat : ~\E f : SumsUpTo(f, g, S, n)}
           Sets(n) == {t \in SUBSET S : Cardinality(t) <= n}
           step(h, s) == IF s = {} THEN 0
                         ELSE g[CHOOSE x \in s : TRUE] + h[s \ {CHOOSE x \in s : TRUE}]
<1> SUFFICES ASSUME T # {} PROVE FALSE
  OBVIOUS
<1>1. PICK n \in T : \A k \in T : n <= k
  BY LeastNatural, Zenon
<1>2. \A s \in SUBSET S : s # {} =>
        /\ Cardinality(s) \in Nat /\ s \ {CHOOSE x \in s : TRUE} \in SUBSET S
        /\ Cardinality(s \ {CHOOSE x \in s : TRUE}) = Cardinality(s) - 1
  BY OneLess
<1>3. CASE n = 0
  <2> DEFINE f == [s \in Sets(0) |-> 0]
  <2>1. \A s \in Sets(0) : s = {}
    <3> SUFFICES ASSUME NEW s \in SUBSET S, Cardinality(s) <= 0 PROVE s = {}
      OBVIOUS
    <3>1. IsFiniteSet(s) /\ Cardinality(s) \in Nat
      BY FS_Subset, FS_CardinalityType
    <3>2. Cardinality(s) = 0
      BY <3>1
    <3> QED BY <3>1, <3>2, FS_EmptySet
  <2>2. f = [s \in Sets(0) |-> step(f, s)]
    BY <2>1
  <2> HIDE DEF f
  <2>3. SumsUpTo(f, g, S, 0)
    BY <2>2, Zenon DEF SumsUpTo
  <2> QED BY <1>3, <2>3
<1>4. CASE n # 0
  <2>1. n - 1 \in Nat /\ n - 1 \notin T
    BY <1>1, <1>4
  <2>2. PICK f : SumsUpTo(f, g, S, n - 1)
    BY <2>1
  <2> DEFINE h == [s \in Sets(n) |-> step(f, s)]
  <2>3. f = [s \in Sets(n - 1) |-> step(f, s)]
    BY <2>2, Zenon DEF SumsUpTo
  <2>4. Sets(n - 1) \subseteq Sets(n)
    <3> SUFFICES ASSUME NEW s \in SUBSET S, Cardinality(s) <= n - 1 PROVE Cardinality(s) <= n
      OBVIOUS
    <3>1. Cardinality(s) \in Nat
      BY FS_Subset, FS_CardinalityType
    <3> QED BY <2>1, <3>1
  <2>5. \A s \in Sets(n) : s # {} => s \ {CHOOSE x \in s : TRUE} \in Sets(n - 1)
    BY <1>2, <2>1
  <2> HIDE DEF Sets
  <2>6. \A s \in Sets(n - 1) : h[s] = f[s]
    <3> HIDE DEF step
    <3> QED BY <2>3, <2>4
  <2> HIDE DEF h
  <2>7. \A s \in Sets(n) : step(h, s) = step(f, s)
    BY <2>5, <2>6
  <2> HIDE DEF step
  <2>8. h = [s \in Sets(n) |-> step(h, s)]
    BY <2>7 DEF h
  <2>9. SumsUpTo(h, g, S, n)
    BY <2>8, Zenon DEF SumsUpTo, Sets, step
  <2> QED BY <2>9
<1> QED BY <1>3, <1>4

LEMMA SumExists ==
  ASSUME NEW S, IsFiniteSet(S), NEW g
  PROVE  \E f : SumsUp(f, g, S)
<1>1. Cardinality(S) \in Nat
  BY FS_CardinalityType
<1>2. {t \in SUBSET S : Cardinality(t) <= Cardinality(S)} = SUBSET S
  BY FS_Subset
<1>3. PICK f : SumsUpTo(f, g, S, Cardinality(S))
  BY <1>1, SumsExist
<1>4. SumsUp(f, g, S)
  BY <1>2, <1>3, Zenon DEF SumsUp, SumsUpTo
<1> QED BY <1>4

\* A sum of natural numbers is one.
LEMMA SumIsNat ==
  ASSUME NEW S, IsFiniteSet(S), NEW g, \A x \in S : g[x] \in Nat, NEW f, SumsUp(f, g, S)
  PROVE  f[S] \in Nat
<1> DEFINE step(s) == IF s = {} THEN 0
                      ELSE g[CHOOSE x \in s : TRUE] + f[s \ {CHOOSE x \in s : TRUE}]
           T == {n \in Nat : \E s \in SUBSET S : Cardinality(s) = n /\ f[s] \notin Nat}
<1>1. \A s \in SUBSET S : f[s] = step(s)
  <2>1. f = [s \in SUBSET S |-> step(s)]
    BY Zenon DEF SumsUp
  <2> HIDE DEF step
  <2> QED BY <2>1
<1>2. \A s \in SUBSET S : Cardinality(s) \in Nat
  BY FS_Subset, FS_CardinalityType
<1>3. T = {}
  <2> SUFFICES ASSUME T # {} PROVE FALSE
    OBVIOUS
  <2>1. PICK n \in T : \A k \in T : n <= k
    BY LeastNatural, Zenon
  <2>2. PICK s \in SUBSET S : Cardinality(s) = n /\ f[s] \notin Nat
    BY <2>1
  <2>3. s # {}
    <3>1. step({}) = 0 /\ {} \in SUBSET S
      OBVIOUS
    <3> HIDE DEF step
    <3>2. f[{}] = 0
      BY <1>1, <3>1
    <3> QED BY <2>2, <3>2
  <2> DEFINE y == CHOOSE x \in s : TRUE
  <2>4. y \in s /\ s \ {y} \in SUBSET S /\ Cardinality(s \ {y}) = n - 1 /\ n \in Nat
    BY <2>1, <2>2, <2>3, OneLess
  <2>5. f[s] = g[y] + f[s \ {y}]
    BY <1>1, <2>3, Zenon
  <2> HIDE DEF y
  <2>6. f[s \ {y}] \in Nat
    <3>1. n - 1 \in Nat
      BY <1>2, <2>4
    <3>2. n - 1 \notin T
      BY <2>1, <3>1
    <3> QED BY <2>4, <3>1, <3>2
  <2> QED BY <2>2, <2>4, <2>5, <2>6
<1> QED BY <1>2, <1>3


-----------------------------------------------------------------------------
(* The scores of actions and hypotheses are numbers.                       *)

LEMMA MinOf == \A a, b \in Int : Min({a, b}) = IF a <= b THEN a ELSE b
<1> SUFFICES ASSUME NEW a \in Int, NEW b \in Int PROVE Min({a, b}) = IF a <= b THEN a ELSE b
  OBVIOUS
<1> DEFINE m == IF a <= b THEN a ELSE b
<1>1. m \in {a, b} /\ \A y \in {a, b} : m <= y
  OBVIOUS
<1>2. \A x \in {a, b} : (\A y \in {a, b} : x <= y) => x = m
  OBVIOUS
<1> HIDE DEF m
<1>3. Min({a, b}) = m
  BY <1>1, <1>2 DEF Min
<1> QED BY <1>3 DEF m

LEMMA MaxOf == \A a, b \in Int : Max({a, b}) = IF a >= b THEN a ELSE b
<1> SUFFICES ASSUME NEW a \in Int, NEW b \in Int PROVE Max({a, b}) = IF a >= b THEN a ELSE b
  OBVIOUS
<1> DEFINE m == IF a >= b THEN a ELSE b
<1>1. m \in {a, b} /\ \A y \in {a, b} : m >= y
  OBVIOUS
<1>2. \A x \in {a, b} : (\A y \in {a, b} : x >= y) => x = m
  OBVIOUS
<1> HIDE DEF m
<1>3. Max({a, b}) = m
  BY <1>1, <1>2 DEF Max
<1> QED BY <1>3 DEF m

LEMMA Clamped ==
  \A low, high, n \in Int : low <= high =>
    Clamp(low, high, n) = IF n <= low THEN low ELSE IF n >= high THEN high ELSE n
<1> SUFFICES ASSUME NEW low \in Int, NEW high \in Int, NEW n \in Int, low <= high
             PROVE  Clamp(low, high, n) = IF n <= low THEN low ELSE IF n >= high THEN high ELSE n
  OBVIOUS
<1>1. Min({high, n}) = IF high <= n THEN high ELSE n
  BY MinOf
<1> DEFINE m == Min({high, n})
<1>2. m \in Int
  BY <1>1
<1>3. Max({low, m}) = IF low >= m THEN low ELSE m
  <2> HIDE DEF m
  <2> QED BY <1>2, MaxOf
<1> QED BY <1>1, <1>3 DEF Clamp

LEMMA ActionScoreIsNat == \A a \in Action : ActionScore(a) \in Nat
<1> SUFFICES ASSUME NEW a \in Action PROVE ActionScore(a) \in Nat
  OBVIOUS
<1>1. BaseScore(a.type) \in Nat
  BY DEF Action, BaseScore
<1>2. Worded(a.type, a.words) \in Nat
  <2> HIDE DEF BaseScore
  <2>1. Max({BaseScore(a.type), 85}) \in Nat /\ Max({BaseScore(a.type), 55}) \in Nat
    BY <1>1, MaxOf
  <2>2. a.words \in {"none", "mutating", "destructive"}
    BY DEF Action
  <2> QED BY <1>1, <2>1, <2>2 DEF Worded
<1> DEFINE x == Worded(a.type, a.words) + (IF a.reversible THEN 0 ELSE 20)
           y == Min({100, x})
           z == y + (IF a.broad THEN 15 ELSE 0)
<1>3. x \in Nat
  BY <1>2
<1> HIDE DEF x
<1>4. y \in Nat
  BY <1>3, MinOf
<1> HIDE DEF y
<1>5. z \in Nat
  BY <1>4
<1> HIDE DEF z
<1>6. Min({100, z}) \in Nat
  BY <1>5, MinOf
<1> QED BY <1>6 DEF ActionScore, x, y, z

LEMMA DomainOf ==
  ASSUME NEW S, NEW s \in Seq(S)
  PROVE  DOMAIN s = 1 .. Len(s) /\ Len(s) \in Nat
<1>1. Len(s) \in Nat
  BY SMT
<1>2. DOMAIN s = 1 .. Len(s)
  BY SMT
<1> QED BY <1>1, <1>2

\* Every action has a score, so the sum is one of numbers.
LEMMA TotalIsNat ==
  ASSUME NEW plan \in Seq(Action)
  PROVE  MapThenSumSet(LAMBDA i : ActionScore(plan[i]), DOMAIN plan) \in Nat
<1>1. IsFiniteSet(DOMAIN plan)
  BY DomainOf, Counting
<1>2. \A i \in DOMAIN plan : ActionScore(plan[i]) \in Nat
  <2>1. \A i \in DOMAIN plan : plan[i] \in Action
    OBVIOUS
  <2> QED BY <2>1, ActionScoreIsNat
<1> DEFINE D == DOMAIN plan
           g == [i \in D |-> ActionScore(plan[i])]
           total == CHOOSE f : f = [s \in SUBSET D |->
                       IF s = {} THEN 0
                       ELSE ActionScore(plan[CHOOSE x \in s : TRUE]) + f[s \ {CHOOSE x \in s : TRUE}]]
<1>3. MapThenSumSet(LAMBDA i : ActionScore(plan[i]), D) = total[D]
  BY Zenon DEF MapThenSumSet, MapThenFoldSet
<1> HIDE DEF D
<1>4. \A x \in D : g[x] \in Nat /\ g[x] = ActionScore(plan[x])
  <2> HIDE DEF total
  <2> QED BY <1>2 DEF D
<1> HIDE DEF g
<1>5. \A f : (f = [s \in SUBSET D |->
                   IF s = {} THEN 0
                   ELSE ActionScore(plan[CHOOSE x \in s : TRUE]) + f[s \ {CHOOSE x \in s : TRUE}]])
             <=> SumsUp(f, g, D)
  <2> HIDE DEF total
  <2> TAKE f
  <2> DEFINE a(s) == IF s = {} THEN 0
                     ELSE ActionScore(plan[CHOOSE x \in s : TRUE]) + f[s \ {CHOOSE x \in s : TRUE}]
             b(s) == IF s = {} THEN 0
                     ELSE g[CHOOSE x \in s : TRUE] + f[s \ {CHOOSE x \in s : TRUE}]
  <2>1. ASSUME NEW s \in SUBSET D PROVE a(s) = b(s)
    <3>1. CASE s = {}
      BY <3>1
    <3>2. CASE s # {}
      <4>1. (CHOOSE x \in s : TRUE) \in D
        BY <3>2
      <4>2. g[CHOOSE x \in s : TRUE] = ActionScore(plan[CHOOSE x \in s : TRUE])
        BY <1>4, <4>1
      <4> QED BY <3>2, <4>2, Zenon
    <3> QED BY <3>1, <3>2
  <2>2. [s \in SUBSET D |-> a(s)] = [s \in SUBSET D |-> b(s)]
    <3> HIDE DEF a, b
    <3> QED BY <2>1
  <2>3. SumsUp(f, g, D) <=> f = [s \in SUBSET D |-> b(s)]
    BY Zenon DEF SumsUp
  <2> QED BY <2>2, <2>3, Zenon
<1>6. SumsUp(total, g, D)
  <2>1. PICK f : SumsUp(f, g, D)
    BY <1>1, SumExists DEF D
  <2> DEFINE Sums(h) == h = [s \in SUBSET D |->
                   IF s = {} THEN 0
                   ELSE ActionScore(plan[CHOOSE x \in s : TRUE]) + h[s \ {CHOOSE x \in s : TRUE}]]
  <2>2. total = CHOOSE h : Sums(h)
    BY Zenon
  <2>3. \A h : Sums(h) <=> SumsUp(h, g, D)
    BY <1>5, Zenon
  <2> HIDE DEF Sums, total
  <2>4. Sums(total)
    BY <2>1, <2>2, <2>3
  <2> QED BY <2>3, <2>4
<1> HIDE DEF total
<1>7. total[D] \in Nat
  BY <1>1, <1>4, <1>6, SumIsNat DEF D
<1> QED BY <1>3, <1>7 DEF D


\* So has every ranked event of a hypothesis.
LEMMA ScoresAreNat ==
  ASSUME NEW ranked, IsFiniteSet(ranked), \A e \in ranked : Events[e].score \in Nat
  PROVE  MapThenSumSet(LAMBDA e : Events[e].score, ranked) \in Nat
<1> DEFINE D == ranked
           g == [i \in D |-> Events[i].score]
           total == CHOOSE f : f = [s \in SUBSET D |->
                       IF s = {} THEN 0
                       ELSE Events[CHOOSE x \in s : TRUE].score + f[s \ {CHOOSE x \in s : TRUE}]]
<1>1. MapThenSumSet(LAMBDA e : Events[e].score, D) = total[D]
  BY Zenon DEF MapThenSumSet, MapThenFoldSet
<1> HIDE DEF D
<1>2. \A x \in D : g[x] \in Nat /\ g[x] = Events[x].score
  <2> HIDE DEF total
  <2> QED BY DEF D
<1> HIDE DEF g
<1>3. \A f : (f = [s \in SUBSET D |->
                   IF s = {} THEN 0
                   ELSE Events[CHOOSE x \in s : TRUE].score + f[s \ {CHOOSE x \in s : TRUE}]])
             <=> SumsUp(f, g, D)
  <2> HIDE DEF total
  <2> TAKE f
  <2> DEFINE a(s) == IF s = {} THEN 0
                     ELSE Events[CHOOSE x \in s : TRUE].score + f[s \ {CHOOSE x \in s : TRUE}]
             b(s) == IF s = {} THEN 0
                     ELSE g[CHOOSE x \in s : TRUE] + f[s \ {CHOOSE x \in s : TRUE}]
  <2>1. ASSUME NEW s \in SUBSET D PROVE a(s) = b(s)
    <3>1. CASE s = {}
      BY <3>1
    <3>2. CASE s # {}
      <4>1. (CHOOSE x \in s : TRUE) \in D
        BY <3>2
      <4>2. g[CHOOSE x \in s : TRUE] = Events[CHOOSE x \in s : TRUE].score
        BY <1>2, <4>1
      <4> QED BY <3>2, <4>2, Zenon
    <3> QED BY <3>1, <3>2
  <2>2. [s \in SUBSET D |-> a(s)] = [s \in SUBSET D |-> b(s)]
    <3> HIDE DEF a, b
    <3> QED BY <2>1
  <2>3. SumsUp(f, g, D) <=> f = [s \in SUBSET D |-> b(s)]
    BY Zenon DEF SumsUp
  <2> QED BY <2>2, <2>3, Zenon
<1>4. SumsUp(total, g, D)
  <2>1. PICK f : SumsUp(f, g, D)
    BY SumExists DEF D
  <2> DEFINE Sums(h) == h = [s \in SUBSET D |->
                   IF s = {} THEN 0
                   ELSE Events[CHOOSE x \in s : TRUE].score + h[s \ {CHOOSE x \in s : TRUE}]]
  <2>2. total = CHOOSE h : Sums(h)
    BY Zenon
  <2>3. \A h : Sums(h) <=> SumsUp(h, g, D)
    BY <1>3, Zenon
  <2> HIDE DEF Sums, total
  <2>4. Sums(total)
    BY <2>1, <2>2, <2>3
  <2> QED BY <2>3, <2>4
<1> HIDE DEF total
<1>5. total[D] \in Nat
  BY <1>2, <1>4, SumIsNat DEF D
<1> QED BY <1>1, <1>5 DEF D


-----------------------------------------------------------------------------
(* The risk of a proposal.                                                 *)

LEMMA DivIsNat == \A a \in Nat : \A b \in Nat \ {0} : a \div b \in Nat
OBVIOUS

LEMMA CompositeIsNat ==
  ASSUME NEW plan \in Seq(Action), plan # <<>>
  PROVE  Composite(plan) \in Nat /\ Composite(plan) <= 1000
<1> DEFINE total == MapThenSumSet(LAMBDA i : ActionScore(plan[i]), DOMAIN plan)
           mean == (10 * total) \div Len(plan)
           sum == mean + (IF Len(plan) > 3 THEN 100 ELSE 0)
<1>1. Len(plan) \in Nat \ {0}
  OBVIOUS
<1>2. total \in Nat
  BY TotalIsNat, Zenon
<1>3. Composite(plan) = Min({1000, sum})
  BY Zenon DEF Composite
<1> HIDE DEF total
<1>4. mean \in Nat
  <2>1. 10 * total \in Nat
    BY <1>2
  <2> DEFINE ten == 10 * total
  <2> HIDE DEF ten
  <2>2. ten \div Len(plan) \in Nat
    BY <1>1, <2>1, DivIsNat DEF ten
  <2> QED BY <2>2 DEF ten
<1> HIDE DEF mean
<1>5. sum \in Nat
  BY <1>4
<1> HIDE DEF sum
<1> QED BY <1>3, <1>5, MinOf

\* What the hypothesis adds is one of four amounts.
LEMMA MisdirectedBy == \A a : Misdirected(a) \in {0, 150, 200, 250}
<1> TAKE a
<1> DEFINE low   == a.score # None /\ a.score < 50
           other == a.score = None \/ a.score >= 50
           weak  == other /\ a.status \in {"contested", "rejected", "weakly_supported"}
           vague == other /\ a.status \notin {"contested", "rejected", "weakly_supported"} /\ a.level = "low"
<1>1. Misdirected(a) = CASE low -> 200 [] weak -> 250 [] vague -> 150 [] OTHER -> 0
  BY Zenon DEF Misdirected
<1> HIDE DEF low, weak, vague
<1> QED BY <1>1

LEMMA ScoreIs ==
  ASSUME NEW plan \in Seq(Action), plan # <<>>, NEW more \in Nat
  PROVE  LET tenths == Min({1000, Composite(plan) + more})
         IN /\ tenths \in Nat
            /\ tenths = IF Composite(plan) + more >= 1000 THEN 1000 ELSE Composite(plan) + more
            /\ Clamp(5, 99, Rounded(tenths, 10)) =
                 LET n == (2 * tenths + 10) \div 20 IN IF n <= 5 THEN 5 ELSE IF n >= 99 THEN 99 ELSE n
<1> DEFINE c == Composite(plan)
           tenths == Min({1000, c + more})
           n == (2 * tenths + 10) \div 20
<1>1. c \in Nat
  BY CompositeIsNat
<1> HIDE DEF c
<1>2. tenths \in Nat /\ tenths = IF c + more >= 1000 THEN 1000 ELSE c + more
  BY <1>1, MinOf
<1> HIDE DEF tenths
<1>3. Rounded(tenths, 10) = n /\ n \in Int
  BY <1>2 DEF Rounded
<1> HIDE DEF n
<1>4. Clamp(5, 99, n) = IF n <= 5 THEN 5 ELSE IF n >= 99 THEN 99 ELSE n
  BY <1>3, Clamped
<1> QED BY <1>2, <1>3, <1>4 DEF tenths, n, c

\* A proposal without actions is a low risk; no other is at an end of the scale.
LEMMA ScoreInRange ==
  ASSUME NEW plan \in Seq(Action), NEW a
  PROVE  Score(plan, a) \in 5 .. 99 /\ (plan = <<>> => Score(plan, a) = 10)
<1>1. CASE plan = <<>>
  BY <1>1 DEF Score
<1>2. CASE plan # <<>>
  <2> DEFINE more == Misdirected(a)
             tenths == Min({1000, Composite(plan) + more})
             n == (2 * tenths + 10) \div 20
  <2>1. more \in Nat
    BY MisdirectedBy
  <2>2. Score(plan, a) = Clamp(5, 99, Rounded(tenths, 10))
    BY <1>2, ZenonT(30) DEF Score
  <2> HIDE DEF more
  <2>3. tenths \in Nat /\ Clamp(5, 99, Rounded(tenths, 10)) = IF n <= 5 THEN 5 ELSE IF n >= 99 THEN 99 ELSE n
    BY <1>2, <2>1, ScoreIs
  <2> HIDE DEF tenths
  <2>4. n \in Int
    BY <2>3
  <2> HIDE DEF n
  <2>5. Score(plan, a) = IF n <= 5 THEN 5 ELSE IF n >= 99 THEN 99 ELSE n
    BY <2>2, <2>3, Zenon
  <2>6. Score(plan, a) \in 5 .. 99
    BY <2>4, <2>5
  <2> QED BY <1>2, <2>6
<1> QED BY <1>1, <1>2

LEMMA LevelOf ==
  \A n \in Int : /\ RiskLevel(n) = IF n >= 80 THEN "critical" ELSE IF n >= 60 THEN "high"
                                   ELSE IF n >= 35 THEN "medium" ELSE "low"
BY DEF RiskLevel

LEMMA GradeOf ==
  /\ Grade("low") = 1 /\ Grade("medium") = 2 /\ Grade("high") = 3 /\ Grade("critical") = 4
<1> DEFINE names == <<"low", "medium", "high", "critical">>
<1>1. /\ names[1] = "low" /\ names[2] = "medium" /\ names[3] = "high" /\ names[4] = "critical"
      /\ 1 .. 4 = {1, 2, 3, 4}
  OBVIOUS
<1>2. \A level : Grade(level) = CHOOSE n \in 1 .. 4 : names[n] = level
  BY Zenon DEF Grade
<1> HIDE DEF names
<1>3. \A n \in 1 .. 4 : /\ names[n] = "low" => n = 1
                        /\ names[n] = "medium" => n = 2
                        /\ names[n] = "high" => n = 3
                        /\ names[n] = "critical" => n = 4
  BY <1>1
<1>4. Grade("low") = 1
  BY <1>1, <1>2, <1>3
<1>5. Grade("medium") = 2
  BY <1>1, <1>2, <1>3
<1>6. Grade("high") = 3
  BY <1>1, <1>2, <1>3
<1>7. Grade("critical") = 4
  BY <1>1, <1>2, <1>3
<1> QED BY <1>4, <1>5, <1>6, <1>7

\* A higher score is graded no lower.
LEMMA GradesAscend ==
  ASSUME NEW m \in Int, NEW n \in Int, m <= n
  PROVE  Grade(RiskLevel(n)) >= Grade(RiskLevel(m))
BY LevelOf, GradeOf


-----------------------------------------------------------------------------
(* The hypothesis, its assessment and the proposal.                        *)

Hypotheses ==
  [supports : {s \in SUBSET DOMAIN Events : IsFiniteSet(s)},
   contradicts : {s \in SUBSET DOMAIN Events : IsFiniteSet(s)},
   unresolved : Nat, claims : BOOLEAN]

HypothesisTyped == hypothesis \in Hypotheses

\* A score is a number or missing.
AssessmentTyped == assessed # None => assessed.score = None \/ assessed.score \in Int

PlanTyped == actions \in Seq(Action)

AssessInv == HypothesisTyped /\ AssessmentTyped /\ PlanTyped

LEMMA Rounds == \A n \in Int : \A d \in Nat \ {0} : Rounded(n, d) \in Int
<1> SUFFICES ASSUME NEW n \in Int, NEW d \in Nat \ {0} PROVE Rounded(n, d) \in Int
  OBVIOUS
<1> DEFINE a == 2 * n + d
           b == 2 * d
<1>1. a \in Int /\ b \in Nat \ {0}
  OBVIOUS
<1>2. Rounded(n, d) = a \div b
  BY DEF Rounded
<1> HIDE DEF a, b
<1> QED BY <1>1, <1>2

LEMMA ContradictionIsInt ==
  ASSUME NEW h \in Hypotheses
  PROVE  Contradiction(h) \in Int
<1> DEFINE k == Cardinality(h.contradicts)
           n == Cardinality(h.supports)
<1>1. k \in Nat /\ n \in Nat
  BY FS_CardinalityType DEF Hypotheses
<1>2. Contradiction(h) = IF k = 0 THEN 0 ELSE Min({100, Rounded(150 * k, n + k)})
  BY Zenon DEF Contradiction
<1> HIDE DEF k, n
<1>3. CASE k = 0
  BY <1>2, <1>3
<1>4. CASE k # 0
  <2>1. 150 * k \in Int /\ n + k \in Nat \ {0}
    BY <1>1, <1>4
  <2>2. Rounded(150 * k, n + k) \in Int
    BY <2>1, Rounds
  <2> DEFINE r == Rounded(150 * k, n + k)
  <2>3. Contradiction(h) = Min({100, r}) /\ r \in Int
    BY <1>2, <1>4, <2>2
  <2> HIDE DEF r
  <2> QED BY <2>3, MinOf
<1> QED BY <1>3, <1>4

LEMMA RetrievalQualityIsNat ==
  ASSUME NEW h \in Hypotheses
  PROVE  RetrievalQuality(h) \in Nat
<1> DEFINE ranked == {e \in h.supports : Events[e].score # None}
           total == MapThenSumSet(LAMBDA e : Events[e].score, ranked)
<1>1. IsFiniteSet(h.supports) /\ h.supports \subseteq DOMAIN Events
  BY DEF Hypotheses
<1>2. IsFiniteSet(ranked)
  BY <1>1, FS_Subset
<1>3. \A e \in ranked : Events[e].score \in Nat
  BY <1>1, DataAssumption
<1>4. RetrievalQuality(h) = IF ranked = {} THEN 75 ELSE Clamp(0, 100, Rounded(total, Cardinality(ranked)))
  BY Zenon DEF RetrievalQuality
<1> HIDE DEF ranked
<1>5. total \in Nat
  BY <1>2, <1>3, ScoresAreNat, Zenon
<1> HIDE DEF total
<1>6. CASE ranked = {}
  BY <1>4, <1>6
<1>7. CASE ranked # {}
  <2>1. Cardinality(ranked) \in Nat \ {0}
    BY <1>2, <1>7, FS_CardinalityType, FS_EmptySet
  <2> DEFINE mean == Rounded(total, Cardinality(ranked))
  <2>2. mean \in Int
    BY <1>5, <2>1, Rounds
  <2> HIDE DEF mean
  <2>3. Clamp(0, 100, mean) \in Nat
    BY <2>2, Clamped
  <2> QED BY <1>4, <1>7, <2>3 DEF mean
<1> QED BY <1>6, <1>7

LEMMA CoverageIsNat == \A h : Coverage(h) \in Nat
<1> TAKE h
<1> DEFINE several == Cardinality(Sources(h)) >= 2
           wide  == Effective(h) >= 30 /\ several
           some  == Effective(h) \in 20 .. 29 /\ several
           alone == Effective(h) >= 20 /\ ~several
           repeated == Duplicated(h) > 0
<1>1. Coverage(h) = CASE wide -> 100 [] some -> 70 [] alone -> 45 [] OTHER -> IF repeated THEN 25 ELSE 40
  BY Zenon DEF Coverage
<1> HIDE DEF several, wide, some, alone, repeated
<1> QED BY <1>1

LEMMA DiversityIsNat == \A h : Diversity(h) \in Nat
<1> TAKE h
<1> DEFINE three == Cardinality(Sources(h)) >= 3
           two   == Cardinality(Sources(h)) = 2
           repeated == Duplicated(h) > 0
<1>1. Diversity(h) = CASE three -> 100 [] two -> 80 [] OTHER -> IF repeated THEN 25 ELSE 50
  BY Zenon DEF Diversity
<1> HIDE DEF three, two, repeated
<1> QED BY <1>1

LEMMA TemporalIsNat == \A h : Temporal(h) \in Nat
<1> TAKE h
<1> DEFINE triggers == {e \in h.supports : Events[e].trigger}
           symptoms == {e \in h.supports : Events[e].symptom}
           orderly  == Earliest(triggers) <= Earliest(symptoms)
           repeated == Duplicated(h) > 0 /\ Cardinality(Sources(h)) = 1
<1>1. Temporal(h) = CASE triggers # {} /\ symptoms # {} -> IF orderly THEN 100 ELSE 10
                      [] triggers = {} \/ symptoms = {} -> IF repeated THEN 50 ELSE 80
  BY Zenon DEF Temporal
<1> HIDE DEF triggers, symptoms, orderly, repeated
<1> QED BY <1>1


LEMMA GroundednessIsInt ==
  ASSUME NEW h \in Hypotheses, h.supports # {}
  PROVE  GroundednessScore(h) \in Int
<1> DEFINE n == Cardinality(h.supports)
           base == 35 * Coverage(h) + 25 * Temporal(h) + 25 * Diversity(h) + 15 * RetrievalQuality(h)
           kept == 1000 - 7 * Contradiction(h)
           penalty == IF Unsubstantiated(h) THEN 1250 ELSE 0
           all == base * n * kept
           of == (n + h.unresolved) * 1000
           cited == all \div of
           rest == (cited - penalty + 50) \div 100
<1>1. n \in Nat \ {0} /\ h.unresolved \in Nat
  BY FS_CardinalityType, FS_EmptySet DEF Hypotheses
<1>2. base \in Int /\ kept \in Int
  BY CoverageIsNat, TemporalIsNat, DiversityIsNat, RetrievalQualityIsNat, ContradictionIsInt
<1>3. GroundednessScore(h) = Clamp(0, 100, rest)
  BY Zenon DEF GroundednessScore
<1>4. penalty \in Int
  OBVIOUS
<1> HIDE DEF n, base, kept, penalty
<1>5. all \in Int /\ of \in Nat \ {0}
  <2>1. base * n \in Int
    BY <1>1, <1>2
  <2>2. base * n * kept \in Int
    BY <1>2, <2>1
  <2>3. n + h.unresolved \in Nat \ {0}
    BY <1>1
  <2>4. (n + h.unresolved) * 1000 \in Nat \ {0}
    BY <2>3
  <2> QED BY <2>2, <2>4
<1> HIDE DEF all, of
<1>6. cited \in Int
  BY <1>5
<1> HIDE DEF cited
<1>7. rest \in Int
  BY <1>4, <1>6
<1> HIDE DEF rest
<1> QED BY <1>3, <1>7, Clamped

LEMMA AssessmentIsInt ==
  ASSUME NEW h \in Hypotheses
  PROVE  Assess(h).score \in Int
<1>1. CASE h.supports = {}
  BY <1>1 DEF Assess, Rejected
<1>2. CASE h.supports # {}
  BY <1>2, GroundednessIsInt DEF Assess
<1> QED BY <1>1, <1>2

LEMMA PlansAreGenerated == GeneratedPlans \subseteq Seq(Action)
<1>1. \A t \in {"config_change", "service_restart", "manual", "scale", "rollback"},
         w \in {"none", "mutating", "destructive"}, b \in BOOLEAN : Step(t, w, b) \in Action
  BY DEF Step, Action
<1>2. \A a, b \in Action : <<a, b>> \in Seq(Action)
  OBVIOUS
<1>3. \A a, b, c \in Action : <<a, b, c>> \in Seq(Action)
  OBVIOUS
<1>4. <<Step("config_change", "none", TRUE), Step("service_restart", "destructive", FALSE),
        Step("manual", "none", FALSE)>> \in Seq(Action)
  BY <1>1, <1>3, Zenon
<1>5. <<Step("scale", "mutating", FALSE), Step("service_restart", "mutating", FALSE)>> \in Seq(Action)
  BY <1>1, <1>2, Zenon
<1>6. <<Step("rollback", "mutating", FALSE), Step("manual", "none", FALSE)>> \in Seq(Action)
  BY <1>1, <1>2, Zenon
<1>7. <<Step("service_restart", "mutating", FALSE), Step("manual", "none", FALSE)>> \in Seq(Action)
  BY <1>1, <1>2, Zenon
<1> QED BY <1>4, <1>5, <1>6, <1>7, Zenon DEF GeneratedPlans

LEMMA UncitedIsTyped == \A claimed \in BOOLEAN : Uncited(claimed) \in Hypotheses
BY FS_EmptySet DEF Uncited, Hypotheses

LEMMA InitAssessInv == Init => AssessInv
<1> SUFFICES ASSUME Init PROVE AssessInv
  OBVIOUS
<1>1. HypothesisTyped
  BY UncitedIsTyped DEF Init, HypothesisTyped
<1>2. AssessmentTyped /\ PlanTyped
  BY DEF Init, AssessmentTyped, PlanTyped
<1> QED BY <1>1, <1>2 DEF AssessInv

LEMMA PersistStep ==
  ASSUME AssessInv, NEW a, a.score = None \/ a.score \in Int, Persist(a)
  PROVE  AssessInv'
BY UncitedIsTyped, Zenon DEF Persist, AssessInv, HypothesisTyped, AssessmentTyped, PlanTyped

LEMMA NextAssessInv == AssessInv /\ [Next]_vars => AssessInv'
<1> SUFFICES ASSUME AssessInv, [Next]_vars PROVE AssessInv'
  OBVIOUS
<1> USE DEF AssessInv, HypothesisTyped, AssessmentTyped, PlanTyped
<1>1. ASSUME NEW e \in DOMAIN Events, CiteFor(e) PROVE AssessInv'
  <2>1. IsFiniteSet(hypothesis.supports \union {e})
    BY FS_AddElement DEF Hypotheses
  <2> QED BY <1>1, <2>1, Zenon DEF CiteFor, Hypotheses
<1>2. ASSUME NEW e \in DOMAIN Events, CiteAgainst(e) PROVE AssessInv'
  <2>1. IsFiniteSet(hypothesis.contradicts \union {e})
    BY FS_AddElement, Zenon DEF Hypotheses
  <2> QED BY <1>2, <2>1, Zenon DEF CiteAgainst, Hypotheses
<1>3. ASSUME CiteUnresolved PROVE AssessInv'
  BY <1>3 DEF CiteUnresolved, Hypotheses
<1>4. ASSUME PersistAssessment PROVE AssessInv'
  BY <1>4, AssessmentIsInt, PersistStep DEF PersistAssessment
<1>5. ASSUME PersistFailure PROVE AssessInv'
  <2>1. EvaluationFailed.score = None
    BY DEF EvaluationFailed
  <2> QED BY <1>5, <2>1, PersistStep DEF PersistFailure
<1>6. ASSUME LeaveUnlinked PROVE AssessInv'
  <2>1. Unlinked.score \in Int
    BY DEF Unlinked
  <2> QED BY <1>6, <2>1, PersistStep, Zenon DEF LeaveUnlinked
<1>7. ASSUME NEW a \in ActionKinds, AddAction(a) PROVE AssessInv'
  <2>1. a \in Action
    BY DataAssumption
  <2> QED BY <1>7, <2>1 DEF AddAction
<1>8. ASSUME GeneratePlan PROVE AssessInv'
  BY <1>8, PlansAreGenerated DEF GeneratePlan
<1>9. CASE UNCHANGED vars
  BY <1>9 DEF vars
<1> QED BY <1>1, <1>2, <1>3, <1>4, <1>5, <1>6, <1>7, <1>8, <1>9 DEF Next

LEMMA AssessInvHolds == ScoringSpec => []AssessInv
<1>1. ScoringInit => AssessInv
  BY InitAssessInv DEF ScoringInit
<1>2. [ScoringNext]_allVars => [Next]_vars
  BY DEF ScoringNext, allVars, ScoreHypothesis, ScoreAnswer, RouteQuery, CutFile, AnswerTurn,
         Investigate, EvaluateRetrieval
<1> QED BY <1>1, <1>2, NextAssessInv, PTL DEF ScoringSpec

\* What is evaluated can be approved: the policy reads the evaluator's scores as
\* the evaluator means them, for every plan and every hypothesis.
THEOREM EvaluatedCanBeApproved == ScoringSpec => []EvaluatedIsApprovable
<1>1. AssessInv => EvaluatedIsApprovable
  <2> SUFFICES ASSUME AssessInv, assessed # None PROVE EvaluatedIsApprovable
    BY DEF EvaluatedIsApprovable
  <2> DEFINE score == Score(actions, assessed)
             p == Proposal(Evaluate(actions, assessed))
  <2>1. actions \in Seq(Action) /\ Len(actions) \in Nat
    BY DEF AssessInv, PlanTyped
  <2>2. score \in 5 .. 99 /\ (actions = <<>> => score = 10)
    BY <2>1, ScoreInRange
  <2>3. /\ p.organization = "alpha" /\ p.status = "proposed" /\ p.creator = "creator"
        /\ p.level = RiskLevel(score) /\ p.score = score /\ p.graded /\ p.actions = Len(actions)
        /\ ~p.executable
    BY DEF Proposal, Evaluate
  <2> HIDE DEF p, score
  <2>4. AssessmentHolds(p)
    BY <2>1, <2>2, <2>3 DEF AssessmentHolds, Stale
  <2>5. RequiredRoles(p.level) =
          IF score < 60 THEN {"MEMBER", "ADMIN", "OWNER"} ELSE {"ADMIN", "OWNER"}
    BY <2>2, <2>3, LevelOf DEF RequiredRoles
  <2>6. \A role : /\ ~Breaks("organization", p, Reviewer(role))
                  /\ ~Breaks("lifecycle", p, Reviewer(role))
                  /\ ~Breaks("separation", p, Reviewer(role))
                  /\ ~Breaks("assessment", p, Reviewer(role))
                  /\ Breaks("role", p, Reviewer(role)) <=> role \notin RequiredRoles(p.level)
    BY <2>3, <2>4 DEF Breaks, Reviewer
  <2>7. \A role : Allowed(p, Reviewer(role)) <=> role \in RequiredRoles(p.level)
    BY <2>6 DEF Allowed, Violations, Rules
  <2>8. p.score = score /\ score \in Int
    BY <2>2, <2>3
  <2> QED BY <2>5, <2>7, <2>8 DEF EvaluatedIsApprovable, p
<1> QED BY <1>1, AssessInvHolds, PTL

\* A weakly grounded hypothesis adds its step of risk whatever the plan: the
\* amounts it may add are at least 150 and the levels follow the score.
THEOREM WeakGroundingRaisesRisk == ScoringSpec => []WeakGroundingElevates
<1>1. AssessInv => WeakGroundingElevates
  <2> SUFFICES ASSUME AssessInv, assessed # None, actions # <<>>,
                      \/ assessed.status \in {"contested", "rejected", "weakly_supported"}
                      \/ assessed.level = "low"
               PROVE  Grade(Evaluate(actions, assessed).level) >=
                        Grade(RiskLevel(Clamp(5, 99, Rounded(Min({1000, Composite(actions) + 150}), 10))))
    BY DEF WeakGroundingElevates
  <2> DEFINE c == Composite(actions)
             more == Misdirected(assessed)
             low == Min({1000, c + 150})
             high == Min({1000, c + more})
             lowScore == Clamp(5, 99, Rounded(low, 10))
             highScore == Clamp(5, 99, Rounded(high, 10))
  <2>1. more \in {150, 200, 250}
    <3>1. assessed.score = None \/ assessed.score \in Int
      BY DEF AssessInv, AssessmentTyped
    <3> DEFINE weak == assessed.status \in {"contested", "rejected", "weakly_supported"}
               small == assessed.score # None /\ assessed.score < 50
               other == assessed.score = None \/ assessed.score >= 50
    <3>2. small \/ other
      BY <3>1
    <3>3. more = CASE small -> 200 [] other /\ weak -> 250
                   [] other /\ ~weak /\ assessed.level = "low" -> 150 [] OTHER -> 0
      BY Zenon DEF Misdirected
    <3>4. weak \/ assessed.level = "low"
      OBVIOUS
    <3> HIDE DEF more, weak, small, other
    <3> QED BY <3>2, <3>3, <3>4
  <2>2. actions \in Seq(Action) /\ c \in Nat
    BY CompositeIsNat DEF AssessInv, PlanTyped
  <2>3. highScore = Score(actions, assessed)
    BY ZenonT(30) DEF Score
  <2> HIDE DEF more
  <2>4. /\ low \in Nat /\ low = IF c + 150 >= 1000 THEN 1000 ELSE c + 150
        /\ lowScore = LET n == (2 * low + 10) \div 20 IN IF n <= 5 THEN 5 ELSE IF n >= 99 THEN 99 ELSE n
    BY <2>2, ScoreIs
  <2>5. /\ high \in Nat /\ high = IF c + more >= 1000 THEN 1000 ELSE c + more
        /\ highScore = LET n == (2 * high + 10) \div 20 IN IF n <= 5 THEN 5 ELSE IF n >= 99 THEN 99 ELSE n
    BY SMTT(30), <2>1, <2>2, ScoreIs
  <2> HIDE DEF c, lowScore, highScore, low, high
  <2>6. low <= high
    BY <2>1, <2>2, <2>4, <2>5
  <2>7. lowScore \in Int /\ highScore \in Int /\ lowScore <= highScore
    <3> DEFINE m == (2 * low + 10) \div 20
               n == (2 * high + 10) \div 20
    <3>1. low \in Nat /\ high \in Nat
      BY <2>4, <2>5
    <3>2. m \in Int /\ n \in Int /\ m <= n
      BY <2>6, <3>1
    <3>3. lowScore = IF m <= 5 THEN 5 ELSE IF m >= 99 THEN 99 ELSE m
      BY <2>4
    <3>4. highScore = IF n <= 5 THEN 5 ELSE IF n >= 99 THEN 99 ELSE n
      BY <2>5
    <3> HIDE DEF m, n
    <3> QED BY <3>2, <3>3, <3>4
  <2>8. Grade(RiskLevel(highScore)) >= Grade(RiskLevel(lowScore))
    BY <2>7, GradesAscend
  <2>9. Evaluate(actions, assessed).level = RiskLevel(highScore)
    BY <2>3 DEF Evaluate
  <2> QED BY <2>8, <2>9 DEF lowScore, low, c
<1> QED BY <1>1, AssessInvHolds, PTL


-----------------------------------------------------------------------------
(* What a further citation does to the scores of a hypothesis.             *)

\* A quotient is the greatest number of times the divisor fits.
LEMMA Quotient ==
  ASSUME NEW a \in Int, NEW b \in Nat \ {0}
  PROVE  /\ a \div b \in Int
         /\ b * (a \div b) <= a
         /\ a < b * (a \div b) + b
OBVIOUS

LEMMA ProductsOrdered ==
  \A a, b \in Int : \A c \in Nat : a <= b => c * a <= c * b
<1> SUFFICES ASSUME NEW a \in Int, NEW b \in Int, NEW c \in Nat, a <= b PROVE c * a <= c * b
  OBVIOUS
<1>1. PICK k \in Nat : b = a + k
  <2>1. b - a \in Nat /\ b = a + (b - a)
    OBVIOUS
  <2> QED BY <2>1
<1>2. c * b = c * a + c * k
  BY <1>1
<1>3. c * k \in Nat /\ c * a \in Int
  BY <1>1
<1> QED BY <1>2, <1>3

\* A greater dividend, or a greater divisor of what is not negative.
LEMMA QuotientsOrdered ==
  ASSUME NEW a \in Int, NEW c \in Int, NEW b \in Nat \ {0}, NEW d \in Nat \ {0},
         a * d <= c * b
  PROVE  a \div b <= c \div d
<1> DEFINE p == a \div b
           q == c \div d
<1>1. p \in Int /\ b * p <= a
  BY Quotient
<1>2. q \in Int /\ c < d * q + d
  BY Quotient
<1> HIDE DEF p, q
<1> SUFFICES ASSUME p > q PROVE FALSE
  BY <1>1, <1>2 DEF p, q
<1>3. q + 1 <= p
  BY <1>1, <1>2
<1>4. d * (q + 1) = d * q + d /\ d * q \in Int
  BY <1>2
<1>5. c < d * (q + 1) /\ d * (q + 1) <= d * p /\ d * p \in Int
  BY <1>1, <1>2, <1>3, <1>4, ProductsOrdered
<1>6. c < d * p
  BY <1>1, <1>2, <1>5
<1>7. c * b < b * (d * p)
  <2> DEFINE x == d * p
  <2>1. x \in Int /\ c + 1 <= x
    BY <1>1, <1>6
  <2> HIDE DEF x
  <2>2. b * (c + 1) <= b * x /\ b * (c + 1) \in Int /\ b * x \in Int
    BY <2>1, ProductsOrdered
  <2>3. b * (c + 1) = c * b + b /\ c * b \in Int
    OBVIOUS
  <2> QED BY <2>2, <2>3 DEF x
<1>8. b * (d * p) <= a * d
  <2>1. d * (b * p) <= d * a /\ b * p \in Int
    BY <1>1, ProductsOrdered
  <2>2. d * (b * p) = b * (d * p) /\ d * a = a * d
    BY <1>1
  <2> QED BY <2>1, <2>2
<1>9. c * b \in Int /\ a * d \in Int /\ b * (d * p) \in Int
  <2>1. d * p \in Int
    BY <1>1
  <2> QED BY <2>1
<1> QED BY <1>7, <1>8, <1>9

\* One citation more against it, and the contradiction is no less.
LEMMA ContradictionGrows ==
  ASSUME NEW n \in Nat \ {0}, NEW k \in Nat \ {0}
  PROVE  Rounded(150 * k, n + k) <= Rounded(150 * (k + 1), n + (k + 1))
<1> DEFINE x == 301 * k + n
           y == 301 * (k + 1) + n
           m == 2 * (n + k)
<1>1. x \in Nat /\ y = x + 301 /\ m \in Nat \ {0} /\ m + 2 \in Nat \ {0} /\ 2 * x <= 301 * m
  OBVIOUS
<1>2. Rounded(150 * k, n + k) = x \div m
  <2>1. 2 * (150 * k) + (n + k) = x
    OBVIOUS
  <2> QED BY <2>1 DEF Rounded
<1>3. Rounded(150 * (k + 1), n + (k + 1)) = y \div (m + 2)
  <2>1. 2 * (150 * (k + 1)) + (n + (k + 1)) = y /\ 2 * (n + (k + 1)) = m + 2
    OBVIOUS
  <2> QED BY <2>1, Zenon DEF Rounded
<1> HIDE DEF x, y, m
<1>4. x * (m + 2) = x * m + 2 * x /\ (x + 301) * m = x * m + 301 * m /\ x * m \in Int
  BY <1>1
<1>5. x * (m + 2) <= y * m
  BY <1>1, <1>4
<1>6. y \in Int
  BY <1>1
<1> QED BY <1>1, <1>2, <1>3, <1>5, <1>6, QuotientsOrdered


LEMMA ContradictionInRange ==
  ASSUME NEW h \in Hypotheses
  PROVE  Contradiction(h) \in 0 .. 100
<1> DEFINE k == Cardinality(h.contradicts)
           n == Cardinality(h.supports)
<1>1. k \in Nat /\ n \in Nat
  BY FS_CardinalityType DEF Hypotheses
<1>2. Contradiction(h) = IF k = 0 THEN 0 ELSE Min({100, Rounded(150 * k, n + k)})
  BY Zenon DEF Contradiction
<1> HIDE DEF k, n
<1>3. CASE k = 0
  BY <1>2, <1>3
<1>4. CASE k # 0
  <2> DEFINE a == 2 * (150 * k) + (n + k)
             b == 2 * (n + k)
             r == Rounded(150 * k, n + k)
  <2>1. a \in Nat /\ b \in Nat \ {0}
    BY <1>1, <1>4
  <2>2. r = a \div b
    BY DEF Rounded
  <2> HIDE DEF a, b
  <2>3. a \div b \in Nat
    BY <2>1, DivIsNat
  <2>4. Contradiction(h) = Min({100, r}) /\ r \in Nat
    BY <1>2, <1>4, <2>2, <2>3
  <2> HIDE DEF r
  <2>5. Min({100, r}) = IF 100 <= r THEN 100 ELSE r
    BY <2>4, MinOf
  <2> QED BY <2>4, <2>5
<1> QED BY <1>3, <1>4

\* h with a citation against it, or one that resolves to nothing, more.
Doubted(h, other) ==
  /\ other.supports = h.supports /\ other.claims = h.claims
  /\ \/ /\ other.unresolved = h.unresolved
        /\ Cardinality(other.contradicts) = Cardinality(h.contradicts) + 1
     \/ other.unresolved = h.unresolved + 1 /\ other.contradicts = h.contradicts

LEMMA DoubtedContradiction ==
  ASSUME NEW h \in Hypotheses, NEW other \in Hypotheses, Doubted(h, other), h.supports # {}
  PROVE  Contradiction(h) <= Contradiction(other)
<1> DEFINE k == Cardinality(h.contradicts)
           n == Cardinality(h.supports)
           r(i) == Rounded(150 * i, n + i)
<1>1. k \in Nat /\ n \in Nat \ {0}
  BY FS_CardinalityType, FS_EmptySet DEF Hypotheses
<1>2. Contradiction(h) = IF k = 0 THEN 0 ELSE Min({100, r(k)})
  BY Zenon DEF Contradiction
<1>3. CASE Cardinality(other.contradicts) = k + 1
  <2>1. Contradiction(other) = IF k + 1 = 0 THEN 0 ELSE Min({100, r(k + 1)})
    BY <1>3, Zenon DEF Contradiction, Doubted
  <2>2. Contradiction(other) \in 0 .. 100
    BY ContradictionInRange
  <2>3. CASE k = 0
    BY <1>2, <2>2, <2>3
  <2>4. CASE k # 0
    <3>1. r(k) \in Int /\ r(k + 1) \in Int
      <4>1. 150 * k \in Int /\ n + k \in Nat \ {0} /\ 150 * (k + 1) \in Int /\ n + (k + 1) \in Nat \ {0}
        BY <1>1, <2>4
      <4> QED BY <4>1, Rounds, Zenon
    <3>2. r(k) <= r(k + 1)
      BY <1>1, <2>4, ContradictionGrows
    <3> DEFINE x == r(k)
               y == r(k + 1)
    <3>3. Contradiction(h) = Min({100, x})
      BY <1>2, <2>4
    <3>4. Contradiction(other) = Min({100, y})
      BY <1>1, <2>1
    <3>5. x \in Int /\ y \in Int /\ x <= y
      BY <3>1, <3>2
    <3> HIDE DEF x, y
    <3>6. Min({100, x}) = IF 100 <= x THEN 100 ELSE x
      BY <3>5, MinOf
    <3>7. Min({100, y}) = IF 100 <= y THEN 100 ELSE y
      BY <3>5, MinOf
    <3> QED BY <3>3, <3>4, <3>5, <3>6, <3>7
  <2> QED BY <2>3, <2>4
<1>4. CASE other.contradicts = h.contradicts
  <2>1. Contradiction(other) = Contradiction(h)
    BY <1>4, Zenon DEF Contradiction, Doubted
  <2> QED BY <2>1, ContradictionInRange
<1> QED BY <1>3, <1>4 DEF Doubted

LEMMA ClampsOrdered ==
  ASSUME NEW m \in Int, NEW n \in Int, m <= n
  PROVE  /\ Clamp(0, 100, m) \in 0 .. 100 /\ Clamp(0, 100, n) \in 0 .. 100
         /\ Clamp(0, 100, m) <= Clamp(0, 100, n)
<1>1. Clamp(0, 100, m) = IF m <= 0 THEN 0 ELSE IF m >= 100 THEN 100 ELSE m
  BY Clamped
<1>2. Clamp(0, 100, n) = IF n <= 0 THEN 0 ELSE IF n >= 100 THEN 100 ELSE n
  BY Clamped
<1> QED BY <1>1, <1>2

\* Neither counts for the evidence itself, and each discounts it.
LEMMA DoubtedGroundedness ==
  ASSUME NEW h \in Hypotheses, NEW other \in Hypotheses, Doubted(h, other), h.supports # {}
  PROVE  /\ GroundednessScore(other) <= GroundednessScore(h)
         /\ GroundednessScore(other) \in 0 .. 100 /\ GroundednessScore(h) \in 0 .. 100
<1> DEFINE n == Cardinality(h.supports)
           base == 35 * Coverage(h) + 25 * Temporal(h) + 25 * Diversity(h) + 15 * RetrievalQuality(h)
           penalty == IF Unsubstantiated(h) THEN 1250 ELSE 0
           c == Contradiction(h)
           e == Contradiction(other)
           all(i) == base * n * (1000 - 7 * i)
           of(u) == (n + u) * 1000
           rest(i, u) == (all(i) \div of(u) - penalty + 50) \div 100
<1>1. n \in Nat \ {0} /\ h.unresolved \in Nat /\ other.unresolved \in Nat /\ h.unresolved <= other.unresolved
  BY FS_CardinalityType, FS_EmptySet DEF Hypotheses, Doubted
<1>2. c \in 0 .. 100 /\ e \in 0 .. 100 /\ c <= e
  BY ContradictionInRange, DoubtedContradiction
<1>3. base \in Nat /\ penalty \in Int
  BY CoverageIsNat, TemporalIsNat, DiversityIsNat, RetrievalQualityIsNat
<1>4. GroundednessScore(h) = Clamp(0, 100, rest(c, h.unresolved))
  BY Zenon DEF GroundednessScore
<1>5. GroundednessScore(other) = Clamp(0, 100, rest(e, other.unresolved))
  <2>1. other.supports = h.supports /\ other.claims = h.claims
    BY DEF Doubted
  <2>2. /\ Coverage(other) = Coverage(h) /\ Temporal(other) = Temporal(h)
        /\ Diversity(other) = Diversity(h) /\ RetrievalQuality(other) = RetrievalQuality(h)
        /\ Unsubstantiated(other) = Unsubstantiated(h)
    BY <2>1, Zenon DEF Coverage, Temporal, Diversity, RetrievalQuality, Unsubstantiated, Effective,
       Sources, Summaries, Duplicated
  <2> DEFINE m == Cardinality(other.supports)
             base2 == 35 * Coverage(other) + 25 * Temporal(other) + 25 * Diversity(other)
                        + 15 * RetrievalQuality(other)
             penalty2 == IF Unsubstantiated(other) THEN 1250 ELSE 0
             u == other.unresolved
  <2>3. GroundednessScore(other) =
          Clamp(0, 100, ((base2 * m * (1000 - 7 * e)) \div ((m + u) * 1000) - penalty2 + 50) \div 100)
    BY Zenon DEF GroundednessScore
  <2>4. base2 = base
    BY <2>2
  <2>5. penalty2 = penalty
    BY <2>2
  <2>6. m = n
    BY <2>1
  <2> HIDE DEF m, n, base2, base, penalty2, penalty, e, c
  <2>7. GroundednessScore(other) =
          Clamp(0, 100, ((base * n * (1000 - 7 * e)) \div ((n + u) * 1000) - penalty + 50) \div 100)
    BY <2>3, <2>4, <2>5, <2>6
  <2> QED BY <2>7
<1> HIDE DEF n, base, penalty, c, e
<1> DEFINE x == all(c)
           y == all(e)
           b == of(h.unresolved)
           d == of(other.unresolved)
<1>6. x \in Nat /\ y \in Int /\ y <= x
  <2>1. base * n \in Nat
    BY <1>1, <1>3
  <2> DEFINE p == base * n
             s == 1000 - 7 * c
             t == 1000 - 7 * e
  <2>2. s \in Nat /\ t \in Nat /\ t <= s
    BY <1>2
  <2> HIDE DEF p, s, t
  <2>3. p * s \in Nat /\ p * t \in Nat /\ p * t <= p * s
    BY <2>1, <2>2, ProductsOrdered DEF p
  <2> QED BY <2>3 DEF p, s, t
<1>7. b \in Nat \ {0} /\ d \in Nat \ {0} /\ b <= d
  BY <1>1
<1>8. rest(c, h.unresolved) = (x \div b - penalty + 50) \div 100
      /\ rest(e, other.unresolved) = (y \div d - penalty + 50) \div 100
  OBVIOUS
<1> HIDE DEF all, of, rest, x, y, b, d
<1>9. y * b <= x * d
  <2>1. b * y <= b * x /\ x * b <= x * d
    BY <1>6, <1>7, ProductsOrdered
  <2>2. b * y = y * b /\ b * x = x * b /\ y * b \in Int /\ x * b \in Int /\ x * d \in Int
    BY <1>6, <1>7
  <2> QED BY <2>1, <2>2
<1>10. y \div d <= x \div b /\ y \div d \in Int /\ x \div b \in Int
  BY <1>6, <1>7, <1>9, QuotientsOrdered, Quotient
<1> DEFINE low == (y \div d - penalty + 50) \div 100
           high == (x \div b - penalty + 50) \div 100
<1>11. low \in Int /\ high \in Int /\ low <= high
  <2> DEFINE p == x \div b
             q == y \div d
  <2>1. p \in Int /\ q \in Int /\ q <= p
    BY <1>10
  <2> HIDE DEF p, q
  <2>2. (q - penalty + 50) \div 100 <= (p - penalty + 50) \div 100
    BY <1>3, <2>1
  <2>3. (q - penalty + 50) \div 100 \in Int /\ (p - penalty + 50) \div 100 \in Int
    BY <1>3, <2>1
  <2> QED BY <2>2, <2>3 DEF p, q
<1>12. GroundednessScore(h) = Clamp(0, 100, high) /\ GroundednessScore(other) = Clamp(0, 100, low)
  BY <1>4, <1>5, <1>8
<1> HIDE DEF low, high
<1> QED BY <1>11, <1>12, ClampsOrdered


LEMMA DoubtedConfidence ==
  ASSUME NEW h \in Hypotheses, NEW other \in Hypotheses, Doubted(h, other), h.supports # {}
  PROVE  SystemConfidence(other) <= SystemConfidence(h)
<1> DEFINE g == GroundednessScore(h)
           f == GroundednessScore(other)
           c == Contradiction(h)
           e == Contradiction(other)
           s == 1000 - 8 * c
           t == 1000 - 8 * e
           p == g * s
           q == f * t
<1>1. g \in 0 .. 100 /\ f \in 0 .. 100 /\ f <= g
  BY DoubtedGroundedness
<1>2. c \in 0 .. 100 /\ e \in 0 .. 100 /\ c <= e
  BY ContradictionInRange, DoubtedContradiction
<1>3. SystemConfidence(h) = Clamp(0, 100, Rounded(p, 1000))
      /\ SystemConfidence(other) = Clamp(0, 100, Rounded(q, 1000))
  BY Zenon DEF SystemConfidence
<1> HIDE DEF g, f, c, e
<1>4. s \in Nat /\ t \in Nat /\ t <= s
  BY <1>2
<1> HIDE DEF s, t
<1>5. p \in Int /\ q \in Int /\ q <= p
  <2>1. f * t <= f * s /\ s * f <= s * g
    BY <1>1, <1>4, ProductsOrdered
  <2>2. s * f = f * s /\ s * g = g * s /\ f * t \in Int /\ f * s \in Int /\ g * s \in Int
    BY <1>1, <1>4
  <2> QED BY <2>1, <2>2
<1> HIDE DEF p, q
<1>6. /\ Rounded(p, 1000) = (2 * p + 1000) \div 2000
      /\ Rounded(q, 1000) = (2 * q + 1000) \div 2000
  BY DEF Rounded
<1>7. Rounded(p, 1000) \in Int /\ Rounded(q, 1000) \in Int /\ Rounded(q, 1000) <= Rounded(p, 1000)
  BY <1>5, <1>6
<1> DEFINE low == Rounded(q, 1000)
           high == Rounded(p, 1000)
<1>8. low \in Int /\ high \in Int /\ low <= high
  BY <1>7
<1>9. SystemConfidence(h) = Clamp(0, 100, high) /\ SystemConfidence(other) = Clamp(0, 100, low)
  BY <1>3
<1> HIDE DEF low, high
<1> QED BY <1>8, <1>9, ClampsOrdered

LEMMA PlaceOf ==
  /\ Place("contested") = 1 /\ Place("rejected") = 1 /\ Place("weakly_supported") = 2
  /\ Place("partially_supported") = 3 /\ Place("well_supported") = 4
<1>1. /\ Order[1] = "rejected" /\ Order[2] = "weakly_supported" /\ Order[3] = "partially_supported"
      /\ Order[4] = "well_supported" /\ 1 .. 4 = {1, 2, 3, 4}
  BY DEF Order
<1>2. \A n \in 1 .. 4 : /\ Order[n] = "rejected" => n = 1
                        /\ Order[n] = "weakly_supported" => n = 2
                        /\ Order[n] = "partially_supported" => n = 3
                        /\ Order[n] = "well_supported" => n = 4
  BY <1>1
<1>3. \A status : status # "contested" => Place(status) = CHOOSE n \in 1 .. 4 : Order[n] = status
  BY Zenon DEF Place
<1>4. Place("contested") = 1
  BY Zenon DEF Place
<1>5. Place("rejected") = 1
  BY <1>1, <1>2, <1>3
<1>6. Place("weakly_supported") = 2
  BY <1>1, <1>2, <1>3
<1>7. Place("partially_supported") = 3
  BY <1>1, <1>2, <1>3
<1>8. Place("well_supported") = 4
  BY <1>1, <1>2, <1>3
<1> QED BY <1>4, <1>5, <1>6, <1>7, <1>8

LEMMA StatusOf ==
  ASSUME NEW h, Contradiction(h) \in Int, GroundednessScore(h) \in Int
  PROVE  GroundednessStatus(h) =
           IF Contradiction(h) >= 40 THEN "contested"
           ELSE IF GroundednessScore(h) >= 75 THEN "well_supported"
           ELSE IF GroundednessScore(h) >= 45 THEN "partially_supported" ELSE "weakly_supported"
<1> DEFINE c == Contradiction(h)
           g == GroundednessScore(h)
<1>1. GroundednessStatus(h) =
        CASE c >= 40 -> "contested"
          [] c < 40 /\ g >= 75 -> "well_supported"
          [] c < 40 /\ g \in 45 .. 74 -> "partially_supported"
          [] c < 40 /\ g < 45 -> "weakly_supported"
  BY Zenon DEF GroundednessStatus
<1>2. c \in Int /\ g \in Int
  OBVIOUS
<1> HIDE DEF c, g
<1>3. GroundednessStatus(h) = IF c >= 40 THEN "contested" ELSE IF g >= 75 THEN "well_supported"
                              ELSE IF g >= 45 THEN "partially_supported" ELSE "weakly_supported"
  BY <1>1, <1>2
<1> QED BY <1>3 DEF c, g

LEMMA DoubtedStatus ==
  ASSUME NEW h \in Hypotheses, NEW other \in Hypotheses, Doubted(h, other), h.supports # {}
  PROVE  Place(GroundednessStatus(other)) <= Place(GroundednessStatus(h))
<1> DEFINE g == GroundednessScore(h)
           f == GroundednessScore(other)
           c == Contradiction(h)
           e == Contradiction(other)
           now == GroundednessStatus(other)
           was == GroundednessStatus(h)
<1>1. g \in Int /\ f \in Int /\ f <= g
  BY DoubtedGroundedness
<1>2. c \in Int /\ e \in Int /\ c <= e
  BY ContradictionInRange, DoubtedContradiction
<1>3. was = IF c >= 40 THEN "contested" ELSE IF g >= 75 THEN "well_supported"
            ELSE IF g >= 45 THEN "partially_supported" ELSE "weakly_supported"
  BY <1>1, <1>2, StatusOf
<1>4. now = IF e >= 40 THEN "contested" ELSE IF f >= 75 THEN "well_supported"
            ELSE IF f >= 45 THEN "partially_supported" ELSE "weakly_supported"
  BY <1>1, <1>2, StatusOf
<1> HIDE DEF g, f, c, e, now, was
<1>5. Place(was) = IF c >= 40 THEN 1 ELSE IF g >= 75 THEN 4 ELSE IF g >= 45 THEN 3 ELSE 2
  BY <1>3, PlaceOf
<1>6. Place(now) = IF e >= 40 THEN 1 ELSE IF f >= 75 THEN 4 ELSE IF f >= 45 THEN 3 ELSE 2
  BY <1>4, PlaceOf
<1>7. Place(now) <= Place(was)
  BY <1>1, <1>2, <1>5, <1>6
<1> QED BY <1>7 DEF now, was

LEMMA DoubtedAssessment ==
  ASSUME NEW h \in Hypotheses, NEW other \in Hypotheses, Doubted(h, other)
  PROVE  /\ Assess(other).score <= Assess(h).score
         /\ Assess(other).confidence <= Assess(h).confidence
         /\ Assess(h).status # "rejected" => Place(Assess(other).status) <= Place(Assess(h).status)
<1>1. CASE h.supports = {}
  BY <1>1 DEF Doubted, Assess, Rejected
<1>2. CASE h.supports # {}
  <2>1. /\ Assess(h).score = GroundednessScore(h) /\ Assess(other).score = GroundednessScore(other)
        /\ Assess(h).confidence = SystemConfidence(h)
        /\ Assess(other).confidence = SystemConfidence(other)
        /\ Assess(h).status = GroundednessStatus(h)
        /\ Assess(other).status = GroundednessStatus(other)
    BY <1>2 DEF Doubted, Assess
  <2> QED BY <1>2, <2>1, DoubtedGroundedness, DoubtedConfidence, DoubtedStatus
<1> QED BY <1>1, <1>2

LEMMA AssessmentTypes ==
  ASSUME NEW h \in Hypotheses
  PROVE  Assess(h) \in Assessments
<1>1. CASE h.supports = {}
  BY <1>1 DEF Assess, Rejected, Assessments
<1>2. CASE h.supports # {}
  <2>1. GroundednessScore(h) \in Int /\ Contradiction(h) \in Int
    BY <1>2, GroundednessIsInt, ContradictionIsInt
  <2>2. SystemConfidence(h) \in Int
    <3> DEFINE p == GroundednessScore(h) * (1000 - 8 * Contradiction(h))
               n == Rounded(p, 1000)
    <3>1. p \in Int
      BY <2>1
    <3> HIDE DEF p
    <3>2. n \in Int
      BY <3>1, Rounds
    <3> HIDE DEF n
    <3>3. Clamp(0, 100, n) \in Int
      BY <3>2, Clamped
    <3>4. SystemConfidence(h) = Clamp(0, 100, n)
      BY Zenon DEF SystemConfidence, n, p
    <3> QED BY <3>3, <3>4
  <2>3. GroundednessStatus(h) \in {"well_supported", "partially_supported", "weakly_supported", "contested"}
    BY <2>1, StatusOf
  <2>4. \A status, c : ConfidenceLevel(status, c) \in {"low", "medium", "high"}
    <3> TAKE status, c
    <3> DEFINE low == status \in {"contested", "weakly_supported"} \/ c < 40
               medium == status \notin {"contested", "weakly_supported"} /\ c \in 40 .. 74
    <3>1. ConfidenceLevel(status, c) = CASE low -> "low" [] medium -> "medium" [] OTHER -> "high"
      BY Zenon DEF ConfidenceLevel
    <3> HIDE DEF low, medium
    <3> QED BY <3>1
  <2> QED BY <1>2, <2>1, <2>2, <2>3, <2>4 DEF Assess, Assessments
<1> QED BY <1>1, <1>2

\* A step that leaves the support of an unassessed hypothesis adds one citation
\* against it, or one that resolves to nothing.
LEMMA CitingDoubts ==
  ASSUME AssessInv, Next, assessed = None, assessed' = None,
         hypothesis'.supports = hypothesis.supports
  PROVE  Doubted(hypothesis, hypothesis')
<1> USE DEF AssessInv, HypothesisTyped
<1>1. ASSUME NEW e \in DOMAIN Events, CiteFor(e) PROVE FALSE
  BY <1>1 DEF CiteFor, Hypotheses
<1>2. ASSUME NEW e \in DOMAIN Events, CiteAgainst(e) PROVE Doubted(hypothesis, hypothesis')
  <2>1. IsFiniteSet(hypothesis.contradicts) /\ e \notin hypothesis.contradicts
    BY <1>2 DEF CiteAgainst, Hypotheses
  <2>2. Cardinality(hypothesis.contradicts \union {e}) = Cardinality(hypothesis.contradicts) + 1
    BY <2>1, FS_AddElement, Zenon
  <2>3. hypothesis'.contradicts = hypothesis.contradicts \union {e}
        /\ hypothesis'.unresolved = hypothesis.unresolved /\ hypothesis'.claims = hypothesis.claims
    BY <1>2 DEF CiteAgainst, Hypotheses
  <2> QED BY <2>2, <2>3 DEF Doubted
<1>3. ASSUME CiteUnresolved PROVE Doubted(hypothesis, hypothesis')
  BY <1>3 DEF CiteUnresolved, Doubted, Hypotheses
<1>4. ASSUME NEW a, Persist(a), a # None PROVE FALSE
  BY <1>4 DEF Persist
<1>5. ASSUME NEW a \in Assessments, Persist(a) PROVE FALSE
  BY <1>4, <1>5, DataAssumption
<1>6. ASSUME PersistAssessment PROVE FALSE
  BY <1>5, <1>6, AssessmentTypes DEF PersistAssessment
<1>7. ASSUME PersistFailure PROVE FALSE
  BY <1>5, <1>7 DEF PersistFailure, EvaluationFailed, Assessments
<1>8. ASSUME LeaveUnlinked PROVE FALSE
  BY <1>5, <1>8 DEF LeaveUnlinked, Unlinked, Assessments
<1>9. ASSUME NEW a \in ActionKinds, AddAction(a) PROVE FALSE
  BY <1>9 DEF AddAction
<1>10. ASSUME GeneratePlan PROVE FALSE
  BY <1>10 DEF GeneratePlan
<1> QED BY <1>1, <1>2, <1>3, <1>6, <1>7, <1>8, <1>9, <1>10 DEF Next

\* Contradicting and invalid citations never validate: from any assessment one
\* could get now, a further one leads to no better.
THEOREM DoubtNeverRaises == ScoringSpec => OnlySupportRaises
<1> DEFINE Cited == assessed = None /\ assessed' = None /\ hypothesis'.supports = hypothesis.supports
           NoBetter == /\ Assess(hypothesis').score <= Assess(hypothesis).score
                       /\ Assess(hypothesis').confidence <= Assess(hypothesis).confidence
                       /\ Assess(hypothesis).status # "rejected" =>
                            Place(Assess(hypothesis').status) <= Place(Assess(hypothesis).status)
<1>1. ASSUME AssessInv, AssessInv', [ScoringNext]_allVars, Cited, vars' # vars PROVE NoBetter
  <2>1. Next
    BY <1>1 DEF ScoringNext, allVars, ScoreHypothesis, ScoreAnswer, RouteQuery, CutFile, AnswerTurn,
         Investigate, EvaluateRetrieval
  <2>2. hypothesis \in Hypotheses /\ hypothesis' \in Hypotheses
    BY <1>1 DEF AssessInv, HypothesisTyped
  <2>3. Doubted(hypothesis, hypothesis')
    BY <1>1, <2>1, CitingDoubts
  <2> QED BY <2>2, <2>3, DoubtedAssessment
<1>2. AssessInv /\ AssessInv' /\ [ScoringNext]_allVars => [Cited => NoBetter]_vars
  BY <1>1
<1>3. OnlySupportRaises <=> [][Cited => NoBetter]_vars
  BY PTL DEF OnlySupportRaises
<1> HIDE DEF Cited, NoBetter
<1> QED BY <1>2, <1>3, AssessInvHolds, PTL DEF ScoringSpec


-----------------------------------------------------------------------------
(* The sources of an answer.                                               *)

\* What the prompt holds of the passages is their beginning.
LEMMA IncludedIsPrefix ==
  ASSUME NEW ps \in Seq(Passage)
  PROVE  /\ Included(ps) \in Seq(Passage)
         /\ \A n \in DOMAIN Included(ps) : n \in DOMAIN ps /\ Included(ps)[n] = ps[n]
<1> DEFINE l == Len(ps)
           fits(n) == n <= 1 \/ Together(ps, n) <= Budget
           cut(n) == (\A k \in 1 .. n : fits(k)) /\ (n < l => ~fits(n + 1))
           m == CHOOSE n \in 0 .. l : cut(n)
<1>1. l \in Nat
  OBVIOUS
<1>2. Included(ps) = SubSeq(ps, 1, m)
  BY Zenon DEF Included
<1>3. \E n \in 0 .. l : cut(n)
  <2> DEFINE T == {n \in 1 .. l : ~fits(n)}
  <2> HIDE DEF l, fits
  <2>1. CASE T = {}
    <3>1. cut(l)
      BY <1>1, <2>1
    <3> QED BY <1>1, <3>1
  <2>2. CASE T # {}
    <3>1. T \in SUBSET Nat
      BY <1>1
    <3>2. PICK n \in T : \A k \in T : n <= k
      <4> HIDE DEF T
      <4> QED BY <2>2, <3>1, LeastNatural
    <3>3. n - 1 \in 0 .. l /\ n \in 1 .. l
      BY <1>1, <3>2
    <3>4. \A k \in 1 .. n - 1 : fits(k)
      BY <1>1, <3>2, <3>3
    <3>5. (n - 1) + 1 = n /\ ~fits(n)
      BY <3>2, <3>3
    <3>6. cut(n - 1)
      BY <3>4, <3>5
    <3> QED BY <3>3, <3>6
  <2> QED BY <2>1, <2>2
<1> HIDE DEF cut
<1>4. m \in 0 .. l
  BY <1>3
<1> HIDE DEF m
<1>5. SubSeq(ps, 1, m) \in Seq(Passage) /\ Len(SubSeq(ps, 1, m)) = m
      /\ \A n \in 1 .. m : SubSeq(ps, 1, m)[n] = ps[n]
  BY <1>4
<1>6. \A n \in DOMAIN Included(ps) : n \in 1 .. m
  BY <1>2, <1>5
<1> QED BY <1>1, <1>2, <1>4, <1>5, <1>6

Unassembled == {"search", "ask arXiv", "assemble"}

\* The prompt is the beginning of what was found, and keeps being it.
PromptIsFound ==
  /\ request \in Request /\ found \in Seq(Passage) /\ prompt \in Seq(Passage)
  /\ \A n \in DOMAIN prompt : n \in DOMAIN found /\ prompt[n] = found[n]
  /\ turnStep \in Unassembled => prompt = <<>>

CitedAfter == turnStep \in {"verify", "done"} => answer \in Answer /\ citations = Build(answer)

AnsweredAfter == turnStep = "cite" => answer \in Answer

VerifiedOnFound ==
  turnStep = "done" => checked = IF request.grounded = "verified" THEN ToSet(found) ELSE {}

SourcesInv == PromptIsFound /\ CitedAfter /\ AnsweredAfter /\ VerifiedOnFound

LEMMA NothingRead == <<>> \in Seq(Passage) /\ DOMAIN <<>> = {}
<1>1. \A S : <<>> \in Seq(S)
  OBVIOUS
<1>2. \A S, s : s \in Seq(S) /\ Len(s) = 0 => DOMAIN s = {}
  OBVIOUS
<1>3. Len(<<>>) = 0
  OBVIOUS
<1> QED BY <1>1, <1>2, <1>3

LEMMA InitSourcesInv == ScoringInit => SourcesInv
<1> SUFFICES ASSUME ScoringInit PROVE SourcesInv
  OBVIOUS
<1>1. request \in Request
  <2>1. request \in Requests \/ request = SomeRequest
    BY DEF ScoringInit, SourcesInit, Only
  <2>2. SomeRequest \in Requests
    BY SourcesAssumption DEF SomeRequest
  <2> QED BY <2>1, <2>2, SourcesAssumption
<1>2. turnStep = "search" /\ found = <<>> /\ prompt = <<>>
  BY DEF ScoringInit, SourcesInit
<1> QED BY <1>1, <1>2
    DEF SourcesInv, PromptIsFound, CitedAfter, AnsweredAfter, VerifiedOnFound, Unassembled

LEMMA NextSourcesInv == SourcesInv /\ [SourcesNext]_sourceVars => SourcesInv'
<1> SUFFICES ASSUME SourcesInv, [SourcesNext]_sourceVars PROVE SourcesInv'
  OBVIOUS
<1>0. \A origin \in {"adaptive", "hybrid", "arxiv"} : request.finds[origin] \in Seq(Passage)
  BY DEF SourcesInv, PromptIsFound, Request
<1>1. ASSUME NEW origin \in {"adaptive", "hybrid", "arxiv"}, NEW step \in {"search", "ask arXiv"},
             Goto(step), Receives(origin)
      PROVE  SourcesInv'
  <2>1. /\ prompt = <<>> /\ prompt' = <<>> /\ request' = request /\ request \in Request
        /\ found' \in Seq(Passage) /\ turnStep' \in {"ask arXiv", "assemble"}
    BY <1>0, <1>1, Zenon DEF SourcesInv, PromptIsFound, Goto, Receives, Unassembled
  <2>2. DOMAIN prompt' = {} /\ prompt' \in Seq(Passage)
    BY <2>1, NothingRead, Zenon
  <2>3. PromptIsFound'
    BY <2>1, <2>2, Zenon DEF PromptIsFound
  <2>4. turnStep' \notin {"verify", "done", "cite"}
    BY <2>1, Zenon
  <2>5. CitedAfter' /\ AnsweredAfter' /\ VerifiedOnFound'
    BY <2>4, Zenon DEF CitedAfter, AnsweredAfter, VerifiedOnFound
  <2> QED BY <2>3, <2>5, Zenon DEF SourcesInv
<1>2. CASE SearchAdaptive
  BY <1>1, <1>2 DEF SearchAdaptive
<1>3. CASE SearchHybrid
  BY <1>1, <1>3 DEF SearchHybrid
<1>4. CASE AskArxiv
  BY <1>1, <1>4, Zenon DEF AskArxiv
<1>5. CASE SearchRaises
  BY <1>5 DEF SearchRaises, Goto, SourcesInv, PromptIsFound, CitedAfter, AnsweredAfter,
              VerifiedOnFound, Unassembled
<1>6. CASE ArxivSilent
  BY <1>6, Zenon DEF ArxivSilent, Goto, SourcesInv, PromptIsFound, CitedAfter, AnsweredAfter,
              VerifiedOnFound, Unassembled
<1>7. CASE Assemble
  <2>1. /\ found \in Seq(Passage) /\ found' = found /\ request' = request /\ request \in Request
        /\ prompt' = Included(found) /\ turnStep' = "generate"
    BY <1>7 DEF Assemble, Goto, SourcesInv, PromptIsFound
  <2>2. prompt' \in Seq(Passage) /\ \A n \in DOMAIN prompt' : n \in DOMAIN found /\ prompt'[n] = found[n]
    BY <2>1, IncludedIsPrefix
  <2> QED BY <2>1, <2>2, Zenon
      DEF SourcesInv, PromptIsFound, CitedAfter, AnsweredAfter, VerifiedOnFound, Unassembled
<1>8. CASE Generate
  BY <1>8, SourcesAssumption
     DEF Generate, Goto, SourcesInv, PromptIsFound, CitedAfter, AnsweredAfter, VerifiedOnFound, Unassembled
<1>9. CASE Cite
  <2>1. /\ answer \in Answer /\ answer' = answer /\ citations' = Build(answer) /\ turnStep' = "verify"
        /\ prompt' = prompt /\ found' = found /\ request' = request
    BY <1>9 DEF Cite, Goto, SourcesInv, AnsweredAfter
  <2>2. Build(answer)' = Build(answer)
    BY <2>1 DEF Build, Fallback, Citation
  <2>3. CitedAfter'
    BY <2>1, <2>2 DEF CitedAfter
  <2> QED BY <2>1, <2>3, Zenon DEF SourcesInv, PromptIsFound, AnsweredAfter, VerifiedOnFound, Unassembled
<1>10. CASE Verify
  <2>1. /\ turnStep = "verify" /\ turnStep' = "done" /\ request' = request /\ found' = found /\ prompt' = prompt
        /\ answer' = answer /\ citations' = citations
        /\ checked' = IF request.grounded = "verified" THEN ToSet(found) ELSE {}
    BY <1>10 DEF Verify, Goto
  <2>2. Build(answer)' = Build(answer)
    BY <2>1 DEF Build, Fallback, Citation
  <2>3. CitedAfter'
    BY <2>1, <2>2 DEF SourcesInv, CitedAfter
  <2>4. VerifiedOnFound'
    BY <2>1 DEF VerifiedOnFound
  <2> QED BY <2>1, <2>3, <2>4 DEF SourcesInv, PromptIsFound, AnsweredAfter, Unassembled
<1>11. CASE UNCHANGED sourceVars
  <2>1. /\ request' = request /\ turnStep' = turnStep /\ found' = found /\ prompt' = prompt
        /\ answer' = answer /\ citations' = citations /\ checked' = checked
    BY <1>11 DEF sourceVars
  <2>2. Build(answer)' = Build(answer)
    BY <2>1 DEF Build, Fallback, Citation
  <2>3. CitedAfter' /\ AnsweredAfter'
    BY <2>1, <2>2 DEF SourcesInv, CitedAfter, AnsweredAfter
  <2>4. PromptIsFound'
    BY <2>1 DEF SourcesInv, PromptIsFound
  <2>5. VerifiedOnFound'
    BY <2>1 DEF SourcesInv, VerifiedOnFound
  <2> QED BY <2>3, <2>4, <2>5 DEF SourcesInv
<1> QED BY <1>2, <1>3, <1>4, <1>5, <1>6, <1>7, <1>8, <1>9, <1>10, <1>11 DEF SourcesNext

\* What an answer cites is what the model read under that number, and what the
\* verifier read: the prompt is the beginning of the passages found, however they
\* were found and wherever the budget ends it.
THEOREM CitationsHold == ScoringSpec => []CitationsAreSources
<1>1. SourcesInv => CitationsAreSources
  <2> SUFFICES ASSUME SourcesInv, turnStep = "done" PROVE CitationsAreSources
    BY DEF CitationsAreSources
  <2> DEFINE named == {Citation(prompt, n) : n \in DOMAIN prompt \cap answer.numbers}
             shown == {c.number : c \in citations}
  <2>1. citations = IF named = {} /\ ~answer.refuses THEN Fallback ELSE named
    BY Zenon DEF SourcesInv, CitedAfter, Build
  <2>2. \A n : Citation(prompt, n).number = n /\ Citation(prompt, n).passage = prompt[n]
    BY DEF Citation
  <2>3. \A c \in citations : c.number \in DOMAIN prompt /\ prompt[c.number] = c.passage
    BY <2>1, <2>2 DEF Fallback
  <2>4. request.grounded = "verified" => \A c \in citations : c.passage \in checked
    <3>1. \A n \in DOMAIN prompt : prompt[n] \in ToSet(found)
      BY DEF SourcesInv, PromptIsFound, ToSet
    <3> QED BY <2>3, <3>1 DEF SourcesInv, VerifiedOnFound
  <2>5. prompt # <<>> /\ ~answer.refuses => shown # {}
    <3> SUFFICES ASSUME prompt # <<>>, ~answer.refuses PROVE citations # {}
      OBVIOUS
    <3>1. 1 \in DOMAIN prompt
      BY DEF SourcesInv, PromptIsFound
    <3>2. Citation(prompt, 1) \in Fallback
      BY <3>1 DEF Fallback
    <3> QED BY <2>1, <3>2
  <2>6. answer.numbers \cap DOMAIN prompt # {} => shown = answer.numbers \cap DOMAIN prompt
    BY <2>1, <2>2
  <2> HIDE DEF named
  <2> QED BY <2>3, <2>4, <2>5, <2>6 DEF CitationsAreSources
<1>2. [ScoringNext]_allVars => [SourcesNext]_sourceVars
  BY DEF ScoringNext, allVars, ScoreHypothesis, ScoreAnswer, RouteQuery, CutFile, AnswerTurn,
         Investigate, EvaluateRetrieval
<1> QED BY <1>1, <1>2, InitSourcesInv, NextSourcesInv, PTL DEF ScoringSpec


-----------------------------------------------------------------------------
(* The report of an investigation.                                         *)

\* In a finite set ordered by prior every place is taken: places grow along the
\* order, so no two members share one.
LEMMA PlacesAreTaken ==
  ASSUME NEW S, IsFiniteSet(S), NEW prior,
         \A a, b \in S : a # b => <<a, b>> \in prior \/ <<b, a>> \in prior,
         \A a \in S : <<a, a>> \notin prior,
         \A a, b, c \in S : <<a, b>> \in prior /\ <<b, c>> \in prior => <<a, c>> \in prior,
         NEW n \in 1 .. Cardinality(S)
  PROVE  \E c \in S : Cardinality({d \in S : <<d, c>> \in prior}) + 1 = n
<1> DEFINE below(c) == {d \in S : <<d, c>> \in prior}
           place == [c \in S |-> Cardinality(below(c)) + 1]
           size == Cardinality(S)
<1>1. size \in Nat
  BY FS_CardinalityType
<1>2. ASSUME NEW c \in S
      PROVE  IsFiniteSet(below(c)) /\ Cardinality(below(c)) \in Nat /\ Cardinality(below(c)) <= size - 1
  <2>1. below(c) \subseteq S \ {c}
    OBVIOUS
  <2>2. IsFiniteSet(S \ {c}) /\ Cardinality(S \ {c}) = size - 1
    BY FS_RemoveElement
  <2> HIDE DEF below
  <2>3. IsFiniteSet(below(c)) /\ Cardinality(below(c)) <= Cardinality(S \ {c})
    BY <2>1, <2>2, FS_Subset
  <2> QED BY <2>2, <2>3, FS_CardinalityType
<1>3. ASSUME NEW a \in S, NEW b \in S, <<a, b>> \in prior
      PROVE  Cardinality(below(a)) < Cardinality(below(b))
  <2>1. below(a) \cup {a} \subseteq below(b) /\ a \notin below(a)
    BY <1>3
  <2> HIDE DEF below
  <2>2. Cardinality(below(a) \cup {a}) = Cardinality(below(a)) + 1
    BY <1>2, <2>1, FS_AddElement, Zenon
  <2>3. Cardinality(below(a) \cup {a}) <= Cardinality(below(b))
    BY <1>2, <2>1, FS_Subset
  <2> QED BY <1>2, <2>2, <2>3
<1> HIDE DEF below
<1>4. \A a, b \in S : a # b => place[a] # place[b]
  <2> SUFFICES ASSUME NEW a \in S, NEW b \in S, a # b PROVE place[a] # place[b]
    OBVIOUS
  <2>0. Cardinality(below(a)) \in Nat /\ Cardinality(below(b)) \in Nat
    BY <1>2
  <2>1. Cardinality(below(a)) < Cardinality(below(b)) \/ Cardinality(below(b)) < Cardinality(below(a))
    <3>1. CASE <<a, b>> \in prior
      BY <1>3, <3>1
    <3>2. CASE <<b, a>> \in prior
      BY <1>3, <3>2
    <3> QED BY <3>1, <3>2
  <2> QED BY <2>0, <2>1
<1>5. place \in [S -> 1 .. size]
  BY <1>1, <1>2
<1>6. \E c \in S : place[c] = n
  <2> SUFFICES ASSUME \A c \in S : place[c] # n PROVE FALSE
    OBVIOUS
  <2> DEFINE T == (1 .. size) \ {n}
  <2>1. IsFiniteSet(1 .. size) /\ Cardinality(1 .. size) = size
    BY <1>1, Counting
  <2>2. IsFiniteSet(T) /\ Cardinality(T) = size - 1
    BY <2>1, FS_RemoveElement, Zenon
  <2>3. place \in [S -> T]
    BY <1>5
  <2>4. Cardinality(T) < size
    BY <1>1, <2>2
  <2> HIDE DEF place, T
  <2>5. \E x, y \in S : x # y /\ place[x] = place[y]
    BY <2>2, <2>3, <2>4, FS_PigeonHole
  <2> QED BY <1>4, <2>5
<1> QED BY <1>6, Zenon DEF below

LEMMA ListIsSequence ==
  ASSUME NEW S, NEW m \in Nat, NEW list \in [1 .. m -> S]
  PROVE  list \in Seq(S) /\ Len(list) = m
<1>1. list \in Seq(S)
  BY SMT
<1>2. DOMAIN list = 1 .. Len(list) /\ Len(list) \in Nat
  BY <1>1, DomainOf
<1> QED BY <1>1, <1>2

LEMMA FirstOfSequence ==
  ASSUME NEW S, NEW list \in Seq(S), NEW k \in Nat
  PROVE  /\ R!FirstOf(list, k) \in Seq(S)
         /\ Len(R!FirstOf(list, k)) = IF Len(list) < k THEN Len(list) ELSE k
         /\ \A n \in DOMAIN R!FirstOf(list, k) : n \in DOMAIN list /\ R!FirstOf(list, k)[n] = list[n]
<1> DEFINE m == IF Len(list) < k THEN Len(list) ELSE k
<1>1. Len(list) \in Nat
  OBVIOUS
<1>2. m \in Nat /\ m <= Len(list)
  BY <1>1
<1>3. R!FirstOf(list, k) = SubSeq(list, 1, m)
  BY Zenon DEF R!FirstOf
<1> HIDE DEF m
<1>4. SubSeq(list, 1, m) \in Seq(S) /\ Len(SubSeq(list, 1, m)) = m
      /\ \A n \in 1 .. m : SubSeq(list, 1, m)[n] = list[n]
  BY <1>2
<1> QED BY <1>2, <1>3, <1>4 DEF m

LEMMA ShareOfWhole ==
  \E whole \in Nat : \A ranks :
    R!Share(ranks) = IF ranks = {} THEN 0 ELSE whole \div (60 + CHOOSE n \in ranks : TRUE)
BY SMT DEF R!Share, R!RrfK

LEMMA ShareIsNat ==
  ASSUME NEW S, NEW branch \in Seq(S), NEW e
  PROVE  R!Share(R!RankIn(branch, e)) \in Nat
<1> DEFINE ranks == {n \in DOMAIN branch : branch[n] = e}
           rank == CHOOSE n \in ranks : TRUE
<1>1. ranks \subseteq Nat
  BY DomainOf
<1>2. PICK whole \in Nat : \A r : R!Share(r) = IF r = {} THEN 0 ELSE whole \div (60 + CHOOSE n \in r : TRUE)
  BY ShareOfWhole, Zenon
<1>3. R!RankIn(branch, e) = ranks
  BY Zenon DEF R!RankIn
<1> HIDE DEF ranks
<1>4. R!Share(ranks) = IF ranks = {} THEN 0 ELSE whole \div (60 + rank)
  BY <1>2, Zenon
<1>5. ranks # {} => rank \in Nat
  BY <1>1, Zenon
<1> HIDE DEF rank
<1>6. ranks # {} => whole \div (60 + rank) \in Nat
  <2> SUFFICES ASSUME ranks # {} PROVE whole \div (60 + rank) \in Nat
    OBVIOUS
  <2>1. 60 + rank \in Nat \ {0}
    BY <1>5
  <2> QED BY <2>1, DivIsNat
<1> QED BY <1>3, <1>4, <1>6

\* What the channels rank: of which events does not matter here.
LEMMA RankedIsSequence ==
  ASSUME NEW s, NEW scores, IsFiniteSet(ToSet(s.events))
  PROVE  \E S : RankedBy(s, scores) \in Seq(S)
<1> DEFINE place(e) == CHOOSE n \in DOMAIN s.events : s.events[n] = e
           before(a, b) == scores[a] > scores[b] \/ (scores[a] = scores[b] /\ place(a) < place(b))
           T == {e \in ToSet(s.events) : scores[e] # None}
           prior == {p \in T \X T : before(p[1], p[2])}
           at(n) == CHOOSE c \in T : Cardinality({d \in T : <<d, c>> \in prior}) + 1 = n
           list == [n \in 1 .. Cardinality(T) |-> at(n)]
           S == {at(n) : n \in 1 .. Cardinality(T)}
<1>1. RankedBy(s, scores) = R!FirstOf(list, ChannelTopK)
  BY Zenon DEF RankedBy, Ordered
<1>2. T \in SUBSET ToSet(s.events)
  OBVIOUS
<1> HIDE DEF T, at
<1>3. Cardinality(T) \in Nat
  BY <1>2, FS_Subset, FS_CardinalityType
<1>4. list \in [1 .. Cardinality(T) -> S]
  OBVIOUS
<1> HIDE DEF list, S
<1>5. list \in Seq(S)
  BY <1>3, <1>4, ListIsSequence
<1>6. R!FirstOf(list, ChannelTopK) \in Seq(S)
  BY <1>5, FirstOfSequence, ReportAssumption
<1> QED BY <1>1, <1>6


LEMMA ImageIsFinite ==
  ASSUME NEW S, IsFiniteSet(S), NEW f
  PROVE  IsFiniteSet({f[x] : x \in S})
<1> DEFINE T == {f[x] : x \in S}
           g == [x \in S |-> f[x]]
<1>1. g \in Surjection(S, T)
  BY DEF Surjection
<1> HIDE DEF g, T
<1>2. IsFiniteSet(T)
  BY <1>1, FS_Surjection
<1> QED BY <1>2 DEF T

LEMMA RetrievedEvents ==
  ASSUME NEW s \in Search
  PROVE  /\ \E m \in Nat : DOMAIN RankedEvidence(s) = 1 .. m
         /\ \A n \in DOMAIN RankedEvidence(s) : RankedEvidence(s)[n].event \in EvidenceIds
<1> DEFINE channels == [lexical |-> Lexical(s), semantic |-> Semantic(s), recency |-> Recent(s)]
           share(c, e) == R!Share(R!RankIn(channels[c], e))
           score == [e \in EvidenceIds |-> share("lexical", e) + share("semantic", e) + share("recency", e)]
           place(e) == CHOOSE n \in DOMAIN s.events : s.events[n] = e
           before(a, b) == score[a] > score[b] \/ (score[a] = score[b] /\ place(a) < place(b))
           T == {e \in ToSet(s.events) : \E c \in DOMAIN channels : e \in ToSet(channels[c])}
           prior == {p \in T \X T : before(p[1], p[2])}
           at(n) == CHOOSE c \in T : Cardinality({d \in T : <<d, c>> \in prior}) + 1 = n
           size == Cardinality(T)
           list == [n \in 1 .. size |-> at(n)]
           ranking == R!FirstOf(list, Limit)
           method(e) == Method(From(e, Positive(s), channels))
<1>1. s.events \in Seq(EvidenceIds) /\ Len(s.events) \in Nat /\ DOMAIN s.events = 1 .. Len(s.events)
  <2>1. s.events \in Seq(EvidenceIds)
    BY DEF Search
  <2> QED BY <2>1, DomainOf
<1>2. IsFiniteSet(ToSet(s.events)) /\ ToSet(s.events) \subseteq EvidenceIds
  <2>1. IsFiniteSet(DOMAIN s.events)
    BY <1>1, Counting
  <2>2. ToSet(s.events) = {s.events[n] : n \in DOMAIN s.events}
    BY DEF ToSet
  <2>3. IsFiniteSet({s.events[n] : n \in DOMAIN s.events})
    <3> DEFINE events == s.events
               D == DOMAIN events
    <3> HIDE DEF events, D
    <3>1. IsFiniteSet({events[n] : n \in D})
      BY <2>1, ImageIsFinite DEF events, D
    <3> QED BY <3>1 DEF events, D
  <2> QED BY <1>1, <2>2, <2>3
<1>3. RankedEvidence(s) = [n \in DOMAIN ranking |-> [event |-> ranking[n], method |-> method(ranking[n])]]
  BY Zenon DEF RankedEvidence, Ordered
<1>4. \A c \in {"lexical", "semantic", "recency"} : \E S : channels[c] \in Seq(S)
  <2>1. \E S : Lexical(s) \in Seq(S)
    BY <1>2, RankedIsSequence DEF Lexical
  <2>2. \E S : Semantic(s) \in Seq(S)
    <3>1. CASE s.semantic # "on"
      <4>1. Semantic(s) = <<>>
        BY <3>1, Zenon DEF Semantic
      <4> QED BY <4>1, NothingRead
    <3>2. CASE s.semantic = "on"
      <4>1. Semantic(s) = RankedBy(s, s.similar)
        BY <3>2, Zenon DEF Semantic
      <4> QED BY <1>2, <4>1, RankedIsSequence
    <3> QED BY <3>1, <3>2
  <2>3. \E S : Recent(s) \in Seq(S)
    <3>1. Reverse(s.events) = [n \in 1 .. Len(s.events) |-> s.events[(Len(s.events) - n) + 1]]
      BY DEF Reverse
    <3>2. Reverse(s.events) \in [1 .. Len(s.events) -> EvidenceIds]
      <4>1. \A n \in 1 .. Len(s.events) : s.events[(Len(s.events) - n) + 1] \in EvidenceIds
        <5> TAKE n \in 1 .. Len(s.events)
        <5>1. (Len(s.events) - n) + 1 \in 1 .. Len(s.events)
          BY <1>1
        <5> QED BY <1>1, <5>1
      <4> QED BY <3>1, <4>1
    <3>3. Reverse(s.events) \in Seq(EvidenceIds)
      BY <1>1, <3>2, ListIsSequence
    <3> QED BY <3>3, FirstOfSequence, ReportAssumption DEF Recent
  <2> HIDE DEF channels
  <2>4. /\ channels["lexical"] = Lexical(s) /\ channels["semantic"] = Semantic(s)
        /\ channels["recency"] = Recent(s)
    BY DEF channels
  <2> QED BY <2>1, <2>2, <2>3, <2>4
<1> HIDE DEF channels
<1>5. \A c \in {"lexical", "semantic", "recency"}, e \in EvidenceIds : share(c, e) \in Nat
  BY <1>4, ShareIsNat
<1> HIDE DEF share
<1>6. \A e \in EvidenceIds : score[e] \in Nat
  BY <1>5
<1> HIDE DEF score
<1>7. \A e \in ToSet(s.events) : place(e) \in Nat /\ s.events[place(e)] = e
  <2> TAKE e \in ToSet(s.events)
  <2>1. \E n \in DOMAIN s.events : s.events[n] = e
    BY DEF ToSet
  <2>2. place(e) \in DOMAIN s.events /\ s.events[place(e)] = e
    BY <2>1
  <2> QED BY <1>1, <2>2
<1> HIDE DEF place
<1>8. T \in SUBSET ToSet(s.events) /\ T \subseteq EvidenceIds /\ IsFiniteSet(T) /\ size \in Nat
  <2>1. T \in SUBSET ToSet(s.events)
    OBVIOUS
  <2> HIDE DEF T
  <2> QED BY <1>2, <2>1, FS_Subset, FS_CardinalityType
<1>9. \A a \in T : score[a] \in Nat /\ place(a) \in Nat
  BY <1>6, <1>7, <1>8
<1>10. \A a, b \in T : place(a) = place(b) => a = b
  BY <1>7, <1>8
<1> HIDE DEF T
<1>11. \A a, b \in T : <<a, b>> \in prior <=> before(a, b)
  OBVIOUS
<1>12. \A n \in 1 .. size : \E c \in T : Cardinality({d \in T : <<d, c>> \in prior}) + 1 = n
  <2>1. \A a, b \in T : a # b => <<a, b>> \in prior \/ <<b, a>> \in prior
    <3> SUFFICES ASSUME NEW a \in T, NEW b \in T, a # b PROVE before(a, b) \/ before(b, a)
      BY <1>11
    <3> QED BY <1>9, <1>10
  <2>2. \A a \in T : <<a, a>> \notin prior
    <3> SUFFICES ASSUME NEW a \in T PROVE ~before(a, a)
      BY <1>11
    <3> QED BY <1>9
  <2>3. \A a, b, c \in T : <<a, b>> \in prior /\ <<b, c>> \in prior => <<a, c>> \in prior
    <3> SUFFICES ASSUME NEW a \in T, NEW b \in T, NEW c \in T, before(a, b), before(b, c)
                 PROVE  before(a, c)
      BY <1>11
    <3> QED BY <1>9
  <2> HIDE DEF prior
  <2> QED BY <1>8, <2>1, <2>2, <2>3, PlacesAreTaken
<1> HIDE DEF prior, before
<1>15. \A n \in 1 .. size : at(n) \in T
  BY <1>12
<1> HIDE DEF at, size
<1>16. list \in [1 .. size -> T]
  BY <1>15
<1> HIDE DEF list
<1>17. list \in Seq(T)
  BY <1>8, <1>16, ListIsSequence
<1>18. ranking \in Seq(T)
  BY <1>17, FirstOfSequence, ReportAssumption
<1> HIDE DEF ranking, method
<1>19. DOMAIN ranking = 1 .. Len(ranking) /\ Len(ranking) \in Nat
  BY <1>18, DomainOf
<1>20. \A n \in DOMAIN ranking : ranking[n] \in EvidenceIds
  BY <1>8, <1>18
<1>21. DOMAIN RankedEvidence(s) = 1 .. Len(ranking)
  BY <1>3, <1>19
<1>22. \A n \in DOMAIN ranking : RankedEvidence(s)[n] = [event |-> ranking[n], method |-> method(ranking[n])]
  BY <1>3
<1>23. \A n \in DOMAIN ranking : RankedEvidence(s)[n].event = ranking[n]
  <2> TAKE n \in DOMAIN ranking
  <2>1. RankedEvidence(s)[n] = [event |-> ranking[n], method |-> method(ranking[n])]
    BY <1>22
  <2> QED BY <2>1
<1> QED BY <1>19, <1>20, <1>21, <1>23, Zenon


Stands == {"supported", "contested", "rejected"}
Grades == Levels \cup {"evaluation_failed"}

CitedEvents == {s \in SUBSET EvidenceIds : IsFiniteSet(s)}

HypothesisRows ==
  [supports : CitedEvents, contradicts : CitedEvents, claims : BOOLEAN, unresolved : {0},
   drafted : Stands, status : Stands, grounded : Grades \cup {None}]

\* What a row says of itself rests on its citations, before its assessment and after.
RowStands(row, prompted) ==
  /\ row.supports \cup row.contradicts \subseteq prompted
  /\ row.status = "supported" => row.supports # {}
  /\ row.status = "contested" => row.contradicts # {}
  /\ row.drafted = DraftStatus(row.supports, row.contradicts)
  /\ row.drafted = "supported" => row.status = "supported"

LEMMA DraftStatusOf ==
  \A supports, contradicts :
    DraftStatus(supports, contradicts) =
      IF supports \cup contradicts = {} THEN "rejected"
      ELSE IF contradicts # {} THEN "contested" ELSE "supported"
<1> TAKE supports, contradicts
<1> DEFINE uncited == supports \cup contradicts = {}
           against == contradicts # {}
           for     == supports # {} /\ contradicts = {}
<1>1. DraftStatus(supports, contradicts) =
        CASE uncited -> "rejected" [] against -> "contested" [] for -> "supported"
  BY Zenon DEF DraftStatus
<1>2. (uncited => ~against /\ ~for) /\ (against => ~for) /\ (uncited \/ against \/ for)
  OBVIOUS
<1> HIDE DEF uncited, against, for
<1>3. DraftStatus(supports, contradicts) =
        IF uncited THEN "rejected" ELSE IF against THEN "contested" ELSE "supported"
  BY <1>1, <1>2
<1> QED BY <1>3, Zenon DEF uncited, against

\* The status an assessment gives a row.
LEMMA RowGrounded ==
  ASSUME NEW row \in HypothesisRows
  PROVE  /\ Assess(row).status \in Levels
         /\ Assess(row).status = "rejected" <=> row.supports = {}
         /\ Assess(row).status = "contested" => row.contradicts # {}
<1>1. row.supports \in CitedEvents /\ row.contradicts \in CitedEvents /\ row.claims \in BOOLEAN /\ row.unresolved = 0
  BY DEF HypothesisRows
<1> DEFINE h == [supports |-> row.supports, contradicts |-> row.contradicts, unresolved |-> row.unresolved,
                 claims |-> row.claims]
<1>2. h \in Hypotheses
  BY <1>1 DEF Hypotheses, CitedEvents, EvidenceIds
<1>3. h.supports = row.supports /\ h.contradicts = row.contradicts /\ h.unresolved = row.unresolved
      /\ h.claims = row.claims
  OBVIOUS
<1> HIDE DEF h
<1>4. Contradiction(row) = Contradiction(h)
  BY <1>3, Zenon DEF Contradiction
<1>5. Sources(row) = Sources(h) /\ Summaries(row) = Summaries(h)
  BY <1>3, Zenon DEF Sources, Summaries
<1>6. Duplicated(row) = Duplicated(h)
  BY <1>3, <1>5, Zenon DEF Duplicated
<1>7. Effective(row) = Effective(h)
  BY <1>5, <1>6, Zenon DEF Effective
<1>8. Coverage(row) = Coverage(h)
  BY <1>5, <1>6, <1>7, Zenon DEF Coverage
<1>9. Diversity(row) = Diversity(h)
  BY <1>5, <1>6, Zenon DEF Diversity
<1>10. Temporal(row) = Temporal(h)
  BY <1>3, <1>5, <1>6, Zenon DEF Temporal
<1>11. RetrievalQuality(row) = RetrievalQuality(h)
  BY <1>3, Zenon DEF RetrievalQuality
<1>12. Unsubstantiated(row) <=> Unsubstantiated(h)
  BY <1>3, Zenon DEF Unsubstantiated
<1>13. GroundednessScore(row) = GroundednessScore(h)
  <2> DEFINE fine(r) == IF Unsubstantiated(r) THEN 1250 ELSE 0
             all(n, a, b, c, d) == (35 * a + 25 * b + 25 * c + 15 * d) * n
             of(n, a, b, c, d, e, u, f) ==
               Clamp(0, 100, (((all(n, a, b, c, d) * (1000 - 7 * e)) \div ((n + u) * 1000)) - f + 50) \div 100)
             score(r) == of(Cardinality(r.supports), Coverage(r), Temporal(r), Diversity(r),
                            RetrievalQuality(r), Contradiction(r), r.unresolved, fine(r))
  <2>1. \A r : GroundednessScore(r) = score(r)
    BY Zenon DEF GroundednessScore
  <2>2. fine(row) = fine(h)
    BY <1>12
  <2> HIDE DEF fine, of
  <2>3. score(row) = score(h)
    BY <1>3, <1>4, <1>8, <1>9, <1>10, <1>11, <2>2, Zenon
  <2> HIDE DEF score
  <2> QED BY <2>1, <2>3, Zenon
<1>14. Contradiction(row) \in Int
  BY <1>2, <1>4, ContradictionIsInt
<1>15. CASE row.supports = {}
  <2>1. Assess(row).status = "rejected"
    BY <1>15 DEF Assess, Rejected
  <2> QED BY <1>15, <2>1 DEF Levels
<1>16. CASE row.supports # {}
  <2>1. Assess(row).status = GroundednessStatus(row)
    BY <1>16 DEF Assess
  <2>2. GroundednessScore(row) \in Int
    BY <1>2, <1>3, <1>13, <1>16, GroundednessIsInt
  <2>3. GroundednessStatus(row) =
          IF Contradiction(row) >= 40 THEN "contested"
          ELSE IF GroundednessScore(row) >= 75 THEN "well_supported"
          ELSE IF GroundednessScore(row) >= 45 THEN "partially_supported" ELSE "weakly_supported"
    BY <1>14, <2>2, StatusOf
  <2>4. Contradiction(row) >= 40 => row.contradicts # {}
    <3> SUFFICES ASSUME row.contradicts = {} PROVE ~(Contradiction(row) >= 40)
      OBVIOUS
    <3>1. Cardinality(row.contradicts) = 0
      BY FS_EmptySet
    <3>2. Contradiction(row) = 0
      BY <3>1, Zenon DEF Contradiction
    <3> QED BY <3>2
  <2> QED BY <1>16, <2>1, <2>3, <2>4 DEF Levels
<1> QED BY <1>15, <1>16

LEMMA RowAssessed ==
  ASSUME NEW prompted, NEW row \in HypothesisRows, RowStands(row, prompted), NEW fails \in BOOLEAN,
         NEW grounded, grounded = IF fails THEN "evaluation_failed" ELSE Grounded(row),
         NEW next, next = [row EXCEPT !.grounded = grounded, !.status = Aligned(row, grounded)]
  PROVE  next \in HypothesisRows /\ RowStands(next, prompted) /\ grounded \in Grades
<1>1. /\ Assess(row).status \in Levels
      /\ Assess(row).status = "rejected" <=> row.supports = {}
      /\ Assess(row).status = "contested" => row.contradicts # {}
  BY RowGrounded
<1>2. row.status \in Stands /\ row.drafted \in Stands
  BY DEF HypothesisRows
<1>3. grounded \in Grades
  BY <1>1 DEF Grounded, Grades, Levels
<1>4. Aligned(row, grounded) =
        IF grounded = "evaluation_failed" THEN row.status
        ELSE IF grounded \in {"rejected", "contested"} THEN grounded
        ELSE IF row.status = "rejected" THEN "rejected" ELSE "supported"
  BY Zenon DEF Aligned
<1> DEFINE status == Aligned(row, grounded)
<1>5. status \in Stands
  BY <1>2, <1>4 DEF Stands
<1>6. /\ next \in HypothesisRows /\ next.supports = row.supports /\ next.contradicts = row.contradicts
      /\ next.drafted = row.drafted /\ next.status = status
  <2> HIDE DEF status
  <2> QED BY <1>3, <1>5, Zenon DEF HypothesisRows, status
<1>7. grounded \in {"rejected", "contested"} \/ grounded = "evaluation_failed"
      \/ grounded \in {"well_supported", "partially_supported", "weakly_supported"}
  BY <1>3 DEF Grades, Levels
<1>8. status = "supported" => row.supports # {}
  BY <1>1, <1>2, <1>4, <1>7 DEF Grounded, RowStands
<1>9. status = "contested" => row.contradicts # {}
  BY <1>1, <1>2, <1>4, <1>7 DEF Grounded, RowStands
<1>10. row.drafted = "supported" => status = "supported"
  <2> SUFFICES ASSUME row.drafted = "supported" PROVE status = "supported"
    OBVIOUS
  <2>1. row.supports # {} /\ row.contradicts = {} /\ row.status = "supported"
    BY DraftStatusOf, Zenon DEF RowStands
  <2>2. grounded \notin {"rejected", "contested"}
    BY <1>1, <2>1 DEF Grounded
  <2> QED BY <1>4, <2>1, <2>2
<1> HIDE DEF status
<1> QED BY <1>3, <1>6, <1>8, <1>9, <1>10 DEF RowStands


OfOneKind(kind, D, x) == {n \in D : kind[n] = x}
OfKind(kind, D, S) == {n \in D : kind[n] \in S}

\* Over a set of kinds, the numbers of each add up to the number of all of them.
LEMMA PartsAddUp ==
  ASSUME NEW D, IsFiniteSet(D), NEW kind, NEW S, IsFiniteSet(S), NEW counts,
         \A x \in S : counts[x] = Cardinality(OfOneKind(kind, D, x)),
         NEW f, SumsUp(f, counts, S)
  PROVE  f[S] = Cardinality(OfKind(kind, D, S))
<1> DEFINE step(s) == IF s = {} THEN 0
                      ELSE counts[CHOOSE x \in s : TRUE] + f[s \ {CHOOSE x \in s : TRUE}]
           of(s) == {n \in D : kind[n] \in s}
           T == {n \in Nat : \E s \in SUBSET S : Cardinality(s) = n /\ f[s] # Cardinality(of(s))}
<1>1. \A s \in SUBSET S : f[s] = step(s)
  <2>1. f = [s \in SUBSET S |-> step(s)]
    BY Zenon DEF SumsUp
  <2> HIDE DEF step
  <2> QED BY <2>1
<1>2. \A s \in SUBSET S : Cardinality(s) \in Nat
  BY FS_Subset, FS_CardinalityType
<1>3. \A s : of(s) \in SUBSET D
  OBVIOUS
<1>4. \A s : IsFiniteSet(of(s))
  <2> HIDE DEF of
  <2> QED BY <1>3, FS_Subset
<1>5. T = {}
  <2> SUFFICES ASSUME T # {} PROVE FALSE
    OBVIOUS
  <2>1. PICK n \in T : \A k \in T : n <= k
    BY LeastNatural, Zenon
  <2>2. PICK s \in SUBSET S : Cardinality(s) = n /\ f[s] # Cardinality(of(s))
    BY <2>1
  <2>3. s # {}
    <3>1. step({}) = 0 /\ {} \in SUBSET S /\ of({}) = {}
      OBVIOUS
    <3> HIDE DEF step
    <3>2. f[{}] = 0
      BY <1>1, <3>1
    <3>3. Cardinality({}) = 0
      BY FS_EmptySet
    <3>4. of({}) = {}
      BY <3>1
    <3> HIDE DEF of
    <3> SUFFICES ASSUME s = {} PROVE FALSE
      OBVIOUS
    <3> QED BY <2>2, <3>2, <3>3, <3>4
  <2> DEFINE y == CHOOSE x \in s : TRUE
  <2>4. y \in s /\ s \ {y} \in SUBSET S /\ Cardinality(s \ {y}) = n - 1 /\ n \in Nat
    BY <2>1, <2>2, <2>3, OneLess
  <2>5. f[s] = counts[y] + f[s \ {y}]
    BY <1>1, <2>3
  <2> HIDE DEF y
  <2>6. f[s \ {y}] = Cardinality(of(s \ {y}))
    <3>1. n - 1 \in Nat
      BY <1>2, <2>4
    <3>2. n - 1 \notin T
      <4> HIDE DEF T
      <4> QED BY <2>1, <2>4, <3>1
    <3> QED BY <2>4, <3>1, <3>2, Zenon
  <2>7. counts[y] = Cardinality({m \in D : kind[m] = y})
    <3>1. OfOneKind(kind, D, y) = {m \in D : kind[m] = y}
      BY DEF OfOneKind
    <3>2. counts[y] = Cardinality(OfOneKind(kind, D, y))
      BY <2>2, <2>4
    <3> QED BY <3>1, <3>2
  <2>8. of(s) = {m \in D : kind[m] = y} \cup of(s \ {y}) /\ {m \in D : kind[m] = y} \cap of(s \ {y}) = {}
    BY <2>4
  <2>9. IsFiniteSet({m \in D : kind[m] = y})
    <3> DEFINE A == {m \in D : kind[m] = y}
    <3>1. A \in SUBSET D
      OBVIOUS
    <3> HIDE DEF A
    <3>2. IsFiniteSet(A)
      BY <3>1, FS_Subset
    <3> QED BY <3>2 DEF A
  <2> HIDE DEF of
  <2>10. Cardinality(of(s)) = counts[y] + f[s \ {y}]
    <3> DEFINE A == {m \in D : kind[m] = y}
               B == of(s \ {y})
    <3>1. A \cap B = {} /\ IsFiniteSet(A) /\ IsFiniteSet(B)
      BY <1>4, <2>8, <2>9, Zenon
    <3>2. counts[y] = Cardinality(A) /\ f[s \ {y}] = Cardinality(B) /\ of(s) = A \cup B
      BY <2>6, <2>7, <2>8
    <3> HIDE DEF A, B
    <3>3. Cardinality(A \cup B) = Cardinality(A) + Cardinality(B)
      BY <3>1, DisjointAdd, Zenon
    <3> QED BY <3>2, <3>3
  <2> QED BY <2>2, <2>5, <2>10
<1>6. f[S] = Cardinality(of(S))
  <2> HIDE DEF of
  <2>1. S \in SUBSET S
    OBVIOUS
  <2> QED BY <1>2, <1>5, <2>1
<1> QED BY <1>6 DEF OfKind

-----------------------------------------------------------------------------

Prompted == {retrieved[n].event : n \in DOMAIN retrieved}

EvidenceRetrieved ==
  /\ search \in Search
  /\ \E m \in Nat : DOMAIN retrieved = 1 .. m
  /\ Prompted \subseteq EvidenceIds

\* Rows come with the output, and keep their standing.
RowsKept ==
  /\ rows \in Seq(HypothesisRows)
  /\ reportStep \in {"retrieve", "nothing found", "generate", "parse"} => rows = <<>>
  /\ \A n \in DOMAIN rows : RowStands(rows[n], Prompted)

OutputKept ==
  /\ reportStep \in {"parse", "assess", "summarize"} => output \in Output
  /\ reportStep \in {"assess", "summarize"} =>
       (Len(rows) < Len(output.drafts) => Len(output.drafts) > MaxHypotheses)
  /\ reportStep = "summarize" /\ search.grounding => \A n \in DOMAIN rows : rows[n].grounded \in Grades

CountsOfRows ==
  IF rows = <<>> \/ ~search.grounding THEN None
  ELSE [level \in Levels |-> Cardinality(Having(level))]

\* What the last step made of the rows, which no step changes after it.
SummaryTells ==
  reportStep = "done" /\ rows # <<>> =>
    /\ output \in Output
    /\ Len(rows) < Len(output.drafts) => Len(output.drafts) > MaxHypotheses
    /\ search.grounding => \A n \in DOMAIN rows : rows[n].grounded \in Grades
    /\ summary = Summary(Notes, CountsOfRows, [n \in DOMAIN output.steps |-> Enforced(output.steps[n])])

ReportInv == EvidenceRetrieved /\ RowsKept /\ OutputKept /\ SummaryTells

LEMMA InitReportInv == ScoringInit => ReportInv
<1> SUFFICES ASSUME ScoringInit PROVE ReportInv
  OBVIOUS
<1>1. search \in Search
  <2>1. search \in Searches \/ search = SomeSearch
    BY DEF ScoringInit, ReportInit, Only
  <2>2. SomeSearch \in Searches
    BY ReportAssumption DEF SomeSearch
  <2> QED BY <2>1, <2>2, ReportAssumption
<1>2. reportStep = "retrieve" /\ retrieved = <<>> /\ rows = <<>>
  BY DEF ScoringInit, ReportInit
<1>3. rows \in Seq(HypothesisRows) /\ DOMAIN rows = {} /\ DOMAIN retrieved = {}
  <2>1. \A S : <<>> \in Seq(S)
    OBVIOUS
  <2>2. DOMAIN <<>> = {}
    BY NothingRead
  <2> QED BY <1>2, <2>1, <2>2
<1>4. {} = 1 .. 0
  OBVIOUS
<1>5. EvidenceRetrieved
  BY <1>1, <1>3, <1>4 DEF EvidenceRetrieved, Prompted
<1> QED BY <1>2, <1>3, <1>5 DEF ReportInv, RowsKept, OutputKept, SummaryTells

LEMMA RowsPersisted ==
  ASSUME ReportInv, PersistRows
  PROVE  ReportInv'
<1> DEFINE drafts == KeptDrafts(output)
<1>1. /\ reportStep = "parse" /\ reportStep' \in {"assess", "summarize"}
      /\ (reportStep' = "summarize" => ~search.grounding)
      /\ search' = search /\ retrieved' = retrieved /\ output' = output /\ output \in Output
  BY DEF PersistRows, Proceed, ReportInv, OutputKept
<1>2. rows' = [n \in DOMAIN drafts |-> Row(output.drafts[n], Prompted)]
  BY DEF PersistRows, Prompted
<1>3. /\ output.drafts \in Seq(Draft) /\ drafts \in Seq(Draft)
      /\ Len(drafts) = IF Len(output.drafts) < MaxHypotheses THEN Len(output.drafts) ELSE MaxHypotheses
      /\ \A n \in DOMAIN drafts : n \in DOMAIN output.drafts
  <2>1. output.drafts \in Seq(Draft)
    BY <1>1, Zenon DEF Output
  <2> QED BY <2>1, FirstOfSequence, ReportAssumption DEF KeptDrafts
<1>4. IsFiniteSet(Prompted) /\ Prompted \subseteq EvidenceIds
  <2>1. PICK m \in Nat : DOMAIN retrieved = 1 .. m
    BY DEF ReportInv, EvidenceRetrieved
  <2> DEFINE event == [n \in 1 .. m |-> retrieved[n].event]
  <2>2. Prompted = {event[n] : n \in 1 .. m}
    BY <2>1 DEF Prompted
  <2>3. IsFiniteSet({event[n] : n \in 1 .. m})
    <3> HIDE DEF event
    <3> QED BY Counting, ImageIsFinite
  <2> QED BY <2>2, <2>3 DEF ReportInv, EvidenceRetrieved
<1>5. ASSUME NEW draft \in Draft
      PROVE  Row(draft, Prompted) \in HypothesisRows /\ RowStands(Row(draft, Prompted), Prompted)
  <2> DEFINE supports == draft.supports \cap Prompted
             contradicts == draft.contradicts \cap Prompted
  <2>1. Row(draft, Prompted) =
          [supports |-> supports, contradicts |-> contradicts, claims |-> draft.claims, unresolved |-> 0,
           drafted |-> DraftStatus(supports, contradicts), status |-> DraftStatus(supports, contradicts),
           grounded |-> None]
    BY Zenon DEF Row
  <2>2. supports \in SUBSET Prompted /\ contradicts \in SUBSET Prompted /\ draft.claims \in BOOLEAN
    BY DEF Draft
  <2> HIDE DEF supports, contradicts
  <2>3. supports \in CitedEvents /\ contradicts \in CitedEvents
    BY <1>4, <2>2, FS_Subset DEF CitedEvents
  <2>4. DraftStatus(supports, contradicts) =
          IF supports \cup contradicts = {} THEN "rejected"
          ELSE IF contradicts # {} THEN "contested" ELSE "supported"
    BY DraftStatusOf
  <2>5. DraftStatus(supports, contradicts) \in Stands
    BY <2>4 DEF Stands
  <2>6. Row(draft, Prompted) \in HypothesisRows
    BY <2>1, <2>2, <2>3, <2>5 DEF HypothesisRows
  <2>7. RowStands(Row(draft, Prompted), Prompted)
    BY <2>1, <2>2, <2>4 DEF RowStands
  <2> QED BY <2>6, <2>7
<1> HIDE DEF drafts
<1>6. \A n \in DOMAIN drafts : output.drafts[n] \in Draft
  BY <1>3
<1>7. DOMAIN drafts = 1 .. Len(drafts) /\ Len(drafts) \in Nat
  BY <1>3, DomainOf
<1>8. rows' \in [1 .. Len(drafts) -> HypothesisRows]
  BY <1>2, <1>5, <1>6, <1>7
<1>9. rows' \in Seq(HypothesisRows) /\ Len(rows') = Len(drafts) /\ DOMAIN rows' = DOMAIN drafts
  BY <1>7, <1>8, ListIsSequence
<1>10. \A n \in DOMAIN rows' : RowStands(rows'[n], Prompted)
  BY <1>2, <1>5, <1>6, <1>9
<1>11. Prompted' = Prompted
  BY <1>1 DEF Prompted
<1>12. RowsKept'
  <2>1. reportStep' \notin {"retrieve", "nothing found", "generate", "parse"}
    BY <1>1, Zenon
  <2>2. \A n \in DOMAIN rows' : RowStands(rows'[n], Prompted')
    BY <1>10, <1>11
  <2> QED BY <1>9, <2>1, <2>2, Zenon DEF RowsKept, RowStands
<1>13. EvidenceRetrieved'
  BY <1>1, <1>11 DEF ReportInv, EvidenceRetrieved
<1>14. OutputKept'
  <2>1. Len(rows') < Len(output.drafts) => Len(output.drafts) > MaxHypotheses
    BY <1>3, <1>9, ReportAssumption
  <2> QED BY <1>1, <2>1 DEF OutputKept
<1>15. SummaryTells'
  BY <1>1 DEF SummaryTells
<1> QED BY <1>12, <1>13, <1>14, <1>15 DEF ReportInv


LEMMA SequenceUpdated ==
  ASSUME NEW S, NEW list \in Seq(S), NEW n, NEW v, n \in DOMAIN list => v \in S
  PROVE  /\ [list EXCEPT ![n] = v] \in Seq(S)
         /\ Len([list EXCEPT ![n] = v]) = Len(list)
         /\ DOMAIN [list EXCEPT ![n] = v] = DOMAIN list
<1>1. DOMAIN list = 1 .. Len(list) /\ Len(list) \in Nat
  BY DomainOf
<1>2. list \in [1 .. Len(list) -> S]
  OBVIOUS
<1>3. [list EXCEPT ![n] = v] \in [1 .. Len(list) -> S]
  BY <1>1, <1>2, Zenon
<1> QED BY <1>1, <1>3, ListIsSequence

LEMMA RowsAssessed ==
  ASSUME ReportInv, NEW fails \in BOOLEAN, AssessRow(fails)
  PROVE  ReportInv'
<1> DEFINE n == Min(Unassessed)
           grounded == IF fails THEN "evaluation_failed" ELSE Grounded(rows[n])
           next == [rows[n] EXCEPT !.grounded = grounded, !.status = Aligned(rows[n], grounded)]
<1>1. /\ reportStep = "assess" /\ reportStep' = "assess" /\ search' = search
      /\ retrieved' = retrieved /\ output' = output
  BY DEF AssessRow
<1>2. rows' = [rows EXCEPT ![n] = next]
  BY DEF AssessRow
<1>3. rows \in Seq(HypothesisRows) /\ \A k \in DOMAIN rows : RowStands(rows[k], Prompted)
  BY Zenon DEF ReportInv, RowsKept
<1>4. n \in DOMAIN rows => next \in HypothesisRows /\ RowStands(next, Prompted)
  <2> SUFFICES ASSUME n \in DOMAIN rows PROVE next \in HypothesisRows /\ RowStands(next, Prompted)
    OBVIOUS
  <2> HIDE DEF n
  <2>1. rows[n] \in HypothesisRows /\ RowStands(rows[n], Prompted)
    BY <1>3
  <2> QED BY <2>1, RowAssessed, Zenon
<1> HIDE DEF n, next
<1>5. rows' \in Seq(HypothesisRows) /\ Len(rows') = Len(rows) /\ DOMAIN rows' = DOMAIN rows
  BY <1>2, <1>3, <1>4, SequenceUpdated
<1>6. \A k \in DOMAIN rows' : RowStands(rows'[k], Prompted)
  BY <1>2, <1>3, <1>4, <1>5
<1>7. Prompted' = Prompted
  BY <1>1 DEF Prompted
<1>8. RowsKept'
  <2>1. \A k \in DOMAIN rows' : RowStands(rows'[k], Prompted')
    BY <1>6, <1>7
  <2> QED BY <1>1, <1>5, <2>1 DEF RowsKept, RowStands
<1>9. EvidenceRetrieved'
  BY <1>1, <1>7 DEF ReportInv, EvidenceRetrieved
<1>10. OutputKept'
  BY <1>1, <1>5 DEF ReportInv, OutputKept
<1>11. SummaryTells'
  BY <1>1 DEF SummaryTells
<1> QED BY <1>8, <1>9, <1>10, <1>11 DEF ReportInv

\* The steps that leave evidence and rows alone.
LEMMA RowsLeft ==
  ASSUME ReportInv, UNCHANGED <<search, retrieved, rows>>,
         reportStep' \in {"retrieve", "nothing found", "generate", "parse"} =>
           reportStep \in {"retrieve", "nothing found", "generate", "parse"}
  PROVE  EvidenceRetrieved' /\ RowsKept'
<1>1. search' = search /\ retrieved' = retrieved /\ rows' = rows /\ Prompted' = Prompted
  BY Zenon DEF Prompted
<1>2. EvidenceRetrieved'
  BY <1>1, Zenon DEF ReportInv, EvidenceRetrieved
<1>3. \A n \in DOMAIN rows' : RowStands(rows'[n], Prompted')
  BY <1>1, Zenon DEF ReportInv, RowsKept
<1>4. RowsKept'
  BY <1>1, <1>3, Zenon DEF ReportInv, RowsKept, RowStands
<1> QED BY <1>2, <1>4, Zenon

LEMMA NextReportInv == ReportInv /\ [ReportNext]_reportVars => ReportInv'
<1> SUFFICES ASSUME ReportInv, [ReportNext]_reportVars PROVE ReportInv'
  OBVIOUS
<1>1. CASE RetrieveEvidence
  <2>1. /\ reportStep = "retrieve" /\ reportStep' \in {"nothing found", "generate"}
        /\ search' = search /\ rows' = rows /\ retrieved' = RankedEvidence(search)
    BY <1>1, Zenon DEF RetrieveEvidence, Proceed
  <2>2. search \in Search /\ rows = <<>> /\ rows \in Seq(HypothesisRows)
    BY <2>1, Zenon DEF ReportInv, EvidenceRetrieved, RowsKept
  <2>3. /\ \E m \in Nat : DOMAIN retrieved' = 1 .. m
        /\ \A n \in DOMAIN retrieved' : retrieved'[n].event \in EvidenceIds
    BY <2>1, <2>2, RetrievedEvents, Zenon
  <2>4. EvidenceRetrieved'
    BY <2>1, <2>2, <2>3, Zenon DEF EvidenceRetrieved, Prompted
  <2>5. DOMAIN rows' = {}
    BY <2>1, <2>2, NothingRead, Zenon
  <2>6. RowsKept'
    BY <2>1, <2>2, <2>5, Zenon DEF RowsKept
  <2>7. OutputKept' /\ SummaryTells'
    BY <2>1, Zenon DEF OutputKept, SummaryTells
  <2> QED BY <2>4, <2>6, <2>7 DEF ReportInv
<1>2. CASE CompleteWithoutEvidence
  <2>1. reportStep = "nothing found" /\ reportStep' = "done" /\ UNCHANGED <<search, retrieved, rows>>
    BY <1>2, Zenon DEF CompleteWithoutEvidence, Proceed
  <2>2. rows' = <<>>
    BY <2>1, Zenon DEF ReportInv, RowsKept
  <2>3. OutputKept' /\ SummaryTells'
    BY <2>1, <2>2, Zenon DEF OutputKept, SummaryTells
  <2> QED BY <2>1, <2>3, RowsLeft, Zenon DEF ReportInv
<1>3. CASE GenerateOutput
  <2>1. /\ reportStep = "generate" /\ reportStep' = "parse" /\ UNCHANGED <<search, retrieved, rows>>
        /\ output' \in Outputs
    BY <1>3 DEF GenerateOutput, Proceed
  <2>2. output' \in Output
    BY <2>1, ReportAssumption
  <2>3. OutputKept' /\ SummaryTells'
    BY <2>1, <2>2 DEF OutputKept, SummaryTells
  <2> QED BY <2>1, <2>3, RowsLeft DEF ReportInv
<1>4. ASSUME reportStep' = "failed", UNCHANGED <<search, retrieved, rows>> PROVE ReportInv'
  <2>1. OutputKept' /\ SummaryTells'
    BY <1>4 DEF OutputKept, SummaryTells
  <2> QED BY <1>4, <2>1, RowsLeft DEF ReportInv
<1>5. CASE ProviderRaises
  BY <1>4, <1>5 DEF ProviderRaises, Proceed
<1>6. CASE RejectOutput
  BY <1>4, <1>6 DEF RejectOutput, Proceed
<1>7. CASE PersistRows
  BY <1>7, RowsPersisted
<1>8. CASE AssessNext
  BY <1>8, RowsAssessed, Zenon DEF AssessNext
<1>9. CASE AssessFails
  BY <1>9, RowsAssessed, Zenon DEF AssessFails
<1>10. CASE AllAssessed
  <2>1. /\ reportStep = "assess" /\ reportStep' = "summarize" /\ UNCHANGED <<search, retrieved, rows>>
        /\ output' = output /\ Unassessed = {}
    BY <1>10 DEF AllAssessed, Proceed
  <2>2. \A n \in DOMAIN rows : rows[n].grounded \in Grades \cup {None} /\ rows[n].grounded # None
    <3> TAKE n \in DOMAIN rows
    <3>1. rows \in Seq(HypothesisRows)
      BY Zenon DEF ReportInv, RowsKept
    <3>2. rows[n] \in HypothesisRows
      BY <3>1
    <3> QED BY <2>1, <3>2 DEF HypothesisRows, Unassessed
  <2>3. OutputKept'
    BY <2>1, <2>2 DEF ReportInv, OutputKept
  <2>4. SummaryTells'
    BY <2>1 DEF SummaryTells
  <2> QED BY <2>1, <2>3, <2>4, RowsLeft DEF ReportInv
<1>11. CASE Summarize
  <2>1. /\ reportStep = "summarize" /\ reportStep' = "done" /\ UNCHANGED <<search, retrieved, rows>>
        /\ output' = output
        /\ summary' = Summary(Notes, CountsOfRows, [n \in DOMAIN output.steps |-> Enforced(output.steps[n])])
    BY <1>11, Zenon DEF Summarize, Proceed, CountsOfRows
  <2>2. Notes' = Notes /\ CountsOfRows' = CountsOfRows
    BY <2>1 DEF Notes, CountsOfRows, Having
  <2>3. SummaryTells'
    <3>1. summary' = Summary(Notes', CountsOfRows', [n \in DOMAIN output'.steps |-> Enforced(output'.steps[n])])
      BY <2>1, <2>2
    <3> QED BY <2>1, <3>1 DEF ReportInv, OutputKept, SummaryTells, Summary, Enforced
  <2>4. OutputKept'
    BY <2>1 DEF OutputKept
  <2> QED BY <2>1, <2>3, <2>4, RowsLeft DEF ReportInv
<1>12. CASE UNCHANGED reportVars
  <2>1. /\ UNCHANGED <<search, retrieved, rows>> /\ reportStep' = reportStep /\ output' = output
        /\ summary' = summary
    BY <1>12 DEF reportVars
  <2>2. Notes' = Notes /\ CountsOfRows' = CountsOfRows
    BY <2>1 DEF Notes, CountsOfRows, Having
  <2>3. SummaryTells'
    BY <2>1, <2>2 DEF ReportInv, SummaryTells, Summary, Enforced
  <2>4. OutputKept'
    BY <2>1 DEF ReportInv, OutputKept
  <2> QED BY <2>1, <2>3, <2>4, RowsLeft, Zenon DEF ReportInv
<1> QED BY <1>1, <1>2, <1>3, <1>5, <1>6, <1>7, <1>8, <1>9, <1>10, <1>11, <1>12 DEF ReportNext


LEMMA CountsAreOfRows ==
  ASSUME rows \in Seq(HypothesisRows), \A n \in DOMAIN rows : rows[n].grounded \in Grades,
         NEW counts, \A level \in Levels : counts[level] = Cardinality(Having(level))
  PROVE  (CHOOSE f : SumsUp(f, counts, Levels))[Levels] + Cardinality(Having("evaluation_failed")) = Len(rows)
<1> DEFINE total == CHOOSE f : SumsUp(f, counts, Levels)
           grounded == [n \in DOMAIN rows |-> rows[n].grounded]
           counted == {n \in DOMAIN rows : grounded[n] \in Levels}
<1>2. IsFiniteSet(Levels)
  <2>1. IsFiniteSet({"well_supported", "partially_supported", "weakly_supported", "contested", "rejected"})
    <3>1. \A S, x : IsFiniteSet(S) => IsFiniteSet(S \cup {x})
      BY FS_AddElement
    <3>2. IsFiniteSet({})
      BY FS_EmptySet
    <3>3. IsFiniteSet({} \cup {"well_supported"})
      BY <3>1, <3>2, Zenon
    <3>4. IsFiniteSet(({} \cup {"well_supported"}) \cup {"partially_supported"})
      BY <3>1, <3>3, Zenon
    <3>5. IsFiniteSet((({} \cup {"well_supported"}) \cup {"partially_supported"}) \cup {"weakly_supported"})
      BY <3>1, <3>4, Zenon
    <3> DEFINE three == (({} \cup {"well_supported"}) \cup {"partially_supported"}) \cup {"weakly_supported"}
    <3> HIDE DEF three
    <3>6. IsFiniteSet((three \cup {"contested"}) \cup {"rejected"})
      BY <3>1, <3>5, Zenon DEF three
    <3>7. (three \cup {"contested"}) \cup {"rejected"} =
            {"well_supported", "partially_supported", "weakly_supported", "contested", "rejected"}
      BY DEF three
    <3> QED BY <3>6, <3>7, Zenon
  <2> QED BY <2>1 DEF Levels
<1>3. SumsUp(total, counts, Levels)
  <2>1. PICK f : SumsUp(f, counts, Levels)
    BY <1>2, SumExists
  <2> QED BY <2>1
<1> HIDE DEF total
<1>4. DOMAIN rows = 1 .. Len(rows) /\ Len(rows) \in Nat
  BY DomainOf
<1>5. IsFiniteSet(DOMAIN rows) /\ Cardinality(DOMAIN rows) = Len(rows)
  BY <1>4, Counting
<1>6. \A level : Having(level) = {n \in DOMAIN rows : grounded[n] = level}
  BY DEF Having
<1>7. \A level \in Levels : counts[level] = Cardinality({n \in DOMAIN rows : grounded[n] = level})
  <2> HIDE DEF grounded
  <2> QED BY <1>6, Zenon
<1>8. total[Levels] = Cardinality(counted)
  <2> DEFINE D == DOMAIN rows
  <2> HIDE DEF grounded
  <2>1. \A level : OfOneKind(grounded, D, level) = {n \in D : grounded[n] = level}
    BY DEF OfOneKind
  <2>2. IsFiniteSet(D) /\ \A level \in Levels : counts[level] = Cardinality(OfOneKind(grounded, D, level))
    BY <1>5, <1>7, <2>1, Zenon
  <2>3. OfKind(grounded, D, Levels) = counted
    BY DEF OfKind
  <2> HIDE DEF D, counted
  <2>4. total[Levels] = Cardinality(OfKind(grounded, D, Levels))
    BY <1>2, <1>3, <2>2, PartsAddUp
  <2> QED BY <2>3, <2>4
<1>9. counted \cap Having("evaluation_failed") = {} /\ counted \cup Having("evaluation_failed") = DOMAIN rows
  BY <1>6, Zenon DEF Grades, Levels
<1>10. IsFiniteSet(counted) /\ IsFiniteSet(Having("evaluation_failed"))
  <2>1. counted \in SUBSET DOMAIN rows /\ Having("evaluation_failed") \in SUBSET DOMAIN rows
    BY DEF Having
  <2> HIDE DEF counted
  <2> QED BY <1>5, <2>1, FS_Subset
<1> HIDE DEF counted
<1>11. Cardinality(counted) + Cardinality(Having("evaluation_failed")) = Len(rows)
  BY <1>5, <1>9, <1>10, DisjointAdd
<1> QED BY <1>8, <1>11 DEF total

\* A report tells of its hypotheses what their rows say, and a row says only what
\* its citations of retrieved evidence bear: whatever was retrieved, drafted and
\* assessed, whichever evaluations failed and with grounding on or off.
THEOREM ReportsTellTheirRows == ScoringSpec => []ReportMatchesRows
<1>1. ReportInv => ReportMatchesRows
  <2> SUFFICES ASSUME ReportInv, reportStep = "done", rows # <<>> PROVE ReportMatchesRows
    BY DEF ReportMatchesRows
  <2>1. /\ output \in Output
        /\ Len(rows) < Len(output.drafts) => Len(output.drafts) > MaxHypotheses
        /\ search.grounding => \A n \in DOMAIN rows : rows[n].grounded \in Grades
        /\ summary = Summary(Notes, CountsOfRows, [n \in DOMAIN output.steps |-> Enforced(output.steps[n])])
    BY DEF ReportInv, SummaryTells
  <2>2. /\ summary.notes = Notes /\ summary.counts = CountsOfRows
        /\ summary.steps = [n \in DOMAIN output.steps |-> Enforced(output.steps[n])]
    BY <2>1 DEF Summary
  <2>3. rows \in Seq(HypothesisRows) /\ \A n \in DOMAIN rows : RowStands(rows[n], Prompted)
    BY DEF ReportInv, RowsKept
  <2>4. \A n \in DOMAIN rows : rows[n].drafted \in Stands
    <3>1. \A n \in DOMAIN rows : rows[n] \in HypothesisRows
      BY <2>3
    <3> QED BY <3>1 DEF HypothesisRows
  <2>5. \A n \in DOMAIN rows :
          /\ rows[n].supports \cup rows[n].contradicts \subseteq Prompted
          /\ rows[n].status = "supported" => rows[n].supports # {}
          /\ rows[n].status = "contested" => rows[n].contradicts # {}
    BY <2>3 DEF RowStands
  <2>6. summary.counts # None =>
          MapThenSumSet(LAMBDA level : summary.counts[level], Levels)
            + Cardinality(Having("evaluation_failed")) = Len(rows)
    <3> SUFFICES ASSUME summary.counts # None
                 PROVE  MapThenSumSet(LAMBDA level : summary.counts[level], Levels)
                          + Cardinality(Having("evaluation_failed")) = Len(rows)
      OBVIOUS
    <3>1. search.grounding /\ summary.counts = [level \in Levels |-> Cardinality(Having(level))]
      BY <2>2, Zenon DEF CountsOfRows
    <3> DEFINE counts == summary.counts
    <3>2. MapThenSumSet(LAMBDA level : counts[level], Levels) = (CHOOSE f : SumsUp(f, counts, Levels))[Levels]
      BY Zenon DEF MapThenSumSet, MapThenFoldSet, SumsUp
    <3>3. (CHOOSE f : SumsUp(f, counts, Levels))[Levels] + Cardinality(Having("evaluation_failed")) = Len(rows)
      <4>1. \A level \in Levels : counts[level] = Cardinality(Having(level))
        BY <3>1
      <4> HIDE DEF counts
      <4> QED BY <2>1, <2>3, <3>1, <4>1, CountsAreOfRows
    <3> QED BY <3>2, <3>3
  <2>7. Len(rows) < Len(output.drafts) => "truncated" \in summary.notes
    BY <2>1, <2>2 DEF Notes
  <2>8. (\E n \in DOMAIN rows : rows[n].grounded = "weakly_supported") => "weak" \in summary.notes
    BY <2>2 DEF Notes, Having
  <2>9. {n \in DOMAIN rows : rows[n].status # "supported"} # {} /\ ~output.notes =>
          summary.notes \cap {"rejected", "contested"} # {}
    <3> SUFFICES ASSUME NEW n \in DOMAIN rows, rows[n].status # "supported", ~output.notes
                 PROVE  \E s \in {"rejected", "contested"} : s \in summary.notes
      OBVIOUS
    <3>1. rows[n].drafted \in {"rejected", "contested"}
      BY <2>3, <2>4 DEF RowStands, Stands
    <3>2. rows[n].drafted \in Notes
      BY <3>1 DEF Notes
    <3> QED BY <2>2, <3>1, <3>2
  <2>10. \A n \in DOMAIN summary.steps : summary.steps[n].risky => summary.steps[n].approval
    <3> SUFFICES ASSUME NEW n \in DOMAIN output.steps, Enforced(output.steps[n]).risky
                 PROVE  Enforced(output.steps[n]).approval
      BY <2>2
    <3>1. output.steps[n] \in NextStep
      <4>1. output.steps \in Seq(NextStep)
        BY <2>1, Zenon DEF Output
      <4> QED BY <4>1
    <3> DEFINE step == output.steps[n]
    <3>2. /\ Enforced(step) = [step EXCEPT !.approval = step.approval \/ step.risky]
      BY Zenon DEF Enforced
    <3> HIDE DEF step
    <3>3. Enforced(step).risky = step.risky /\ Enforced(step).approval = (step.approval \/ step.risky)
      BY <3>1, <3>2, Zenon DEF NextStep, step
    <3> QED BY <3>3, Zenon DEF step
  <2> QED BY <2>5, <2>6, <2>7, <2>8, <2>9, <2>10, Zenon DEF ReportMatchesRows, Prompted
<1>2. [ScoringNext]_allVars => [ReportNext]_reportVars
  BY DEF ScoringNext, allVars, ScoreHypothesis, ScoreAnswer, RouteQuery, CutFile, AnswerTurn,
         Investigate, EvaluateRetrieval
<1> QED BY <1>1, <1>2, InitReportInv, NextReportInv, PTL DEF ScoringSpec

-----------------------------------------------------------------------------
(* Sums and shares of a run of the evaluation.                              *)

\* The larger summand makes the larger sum.
LEMMA SumsOrdered ==
  ASSUME NEW S, IsFiniteSet(S), NEW g, NEW h,
         \A x \in S : g[x] \in Nat /\ h[x] \in Nat /\ g[x] <= h[x],
         NEW e, SumsUp(e, g, S), NEW f, SumsUp(f, h, S)
  PROVE  e[S] \in Nat /\ f[S] \in Nat /\ e[S] <= f[S]
<1> DEFINE Holds(s) == e[s] \in Nat /\ f[s] \in Nat /\ e[s] <= f[s]
           T == {n \in Nat : \E s \in SUBSET S : Cardinality(s) = n /\ ~Holds(s)}
           from(k, v, s) == IF s = {} THEN 0
                            ELSE k[CHOOSE x \in s : TRUE] + v[s \ {CHOOSE x \in s : TRUE}]
<1>1. \A s \in SUBSET S : e[s] = from(g, e, s) /\ f[s] = from(h, f, s)
  <2>1. e = [s \in SUBSET S |-> from(g, e, s)] /\ f = [s \in SUBSET S |-> from(h, f, s)]
    BY Zenon DEF SumsUp
  <2> HIDE DEF from
  <2> QED BY <2>1
<1>2. \A s \in SUBSET S : Cardinality(s) \in Nat
  BY FS_Subset, FS_CardinalityType
<1>3. T = {}
  <2> SUFFICES ASSUME T # {} PROVE FALSE
    OBVIOUS
  <2>1. PICK n \in T : \A k \in T : n <= k
    BY LeastNatural, Zenon
  <2>2. PICK s \in SUBSET S : Cardinality(s) = n /\ ~Holds(s)
    BY <2>1
  <2>3. s # {}
    <3>1. from(g, e, {}) = 0 /\ from(h, f, {}) = 0 /\ {} \in SUBSET S
      OBVIOUS
    <3> HIDE DEF from
    <3>2. e[{}] = 0 /\ f[{}] = 0
      BY <1>1, <3>1
    <3> QED BY <2>2, <3>2
  <2> DEFINE y == CHOOSE x \in s : TRUE
  <2>4. y \in s /\ s \ {y} \in SUBSET S /\ Cardinality(s \ {y}) = n - 1 /\ n \in Nat
    BY <2>1, <2>2, <2>3, OneLess
  <2>5. e[s] = g[y] + e[s \ {y}] /\ f[s] = h[y] + f[s \ {y}]
    BY <1>1, <2>3, Zenon
  <2> HIDE DEF y
  <2>6. Holds(s \ {y})
    <3>1. n - 1 \in Nat
      BY <1>2, <2>4
    <3>2. n - 1 \notin T
      BY <2>1, <3>1
    <3> HIDE DEF Holds
    <3> QED BY <2>4, <3>1, <3>2
  <2> QED BY <2>2, <2>4, <2>5, <2>6
<1> QED BY <1>2, <1>3

\* The folded sum over a list is the sum of the list's numbers.
LEMMA MeanIsOfSum ==
  ASSUME NEW list, IsFiniteSet(DOMAIN list), NEW field
  PROVE  \E f : /\ SumsUp(f, [n \in DOMAIN list |-> list[n][field]], DOMAIN list)
                /\ Average(list, field) = Nearest(f[DOMAIN list], Len(list))
<1> DEFINE D == DOMAIN list
           g == [n \in D |-> list[n][field]]
           total == CHOOSE f : f = [s \in SUBSET D |->
                       IF s = {} THEN 0
                       ELSE list[CHOOSE x \in s : TRUE][field] + f[s \ {CHOOSE x \in s : TRUE}]]
<1>1. Average(list, field) = Nearest(total[D], Len(list))
  BY Zenon DEF Average, MapThenSumSet, MapThenFoldSet
<1>2. \A f : (f = [s \in SUBSET D |->
                   IF s = {} THEN 0
                   ELSE list[CHOOSE x \in s : TRUE][field] + f[s \ {CHOOSE x \in s : TRUE}]])
             <=> SumsUp(f, g, D)
  <2> HIDE DEF total
  <2> TAKE f
  <2> DEFINE a(s) == IF s = {} THEN 0
                     ELSE list[CHOOSE x \in s : TRUE][field] + f[s \ {CHOOSE x \in s : TRUE}]
             b(s) == IF s = {} THEN 0
                     ELSE g[CHOOSE x \in s : TRUE] + f[s \ {CHOOSE x \in s : TRUE}]
  <2>1. ASSUME NEW s \in SUBSET D PROVE a(s) = b(s)
    <3>1. CASE s = {}
      BY <3>1
    <3>2. CASE s # {}
      <4>1. (CHOOSE x \in s : TRUE) \in D
        BY <3>2
      <4>2. g[CHOOSE x \in s : TRUE] = list[CHOOSE x \in s : TRUE][field]
        BY <4>1
      <4> HIDE DEF g
      <4> QED BY <3>2, <4>2, Zenon
    <3> QED BY <3>1, <3>2
  <2>2. [s \in SUBSET D |-> a(s)] = [s \in SUBSET D |-> b(s)]
    <3> HIDE DEF a, b
    <3> QED BY <2>1
  <2>3. SumsUp(f, g, D) <=> f = [s \in SUBSET D |-> b(s)]
    BY Zenon DEF SumsUp
  <2> QED BY <2>2, <2>3, Zenon
<1>3. SumsUp(total, g, D)
  <2>1. PICK f : SumsUp(f, g, D)
    BY SumExists
  <2> DEFINE Sums(h) == h = [s \in SUBSET D |->
                   IF s = {} THEN 0
                   ELSE list[CHOOSE x \in s : TRUE][field] + h[s \ {CHOOSE x \in s : TRUE}]]
  <2>2. total = CHOOSE h : Sums(h)
    BY Zenon
  <2>3. \A h : Sums(h) <=> SumsUp(h, g, D)
    BY <1>2, Zenon
  <2> HIDE DEF Sums, total, g
  <2>4. Sums(total)
    BY <2>1, <2>2, <2>3
  <2> QED BY <2>3, <2>4
<1> HIDE DEF total
<1> QED BY <1>1, <1>3, Zenon


-----------------------------------------------------------------------------
(* Two runs of one dataset compared. *)

\* What is measured of a case hangs on the rank of its first hit.
Ranked(r) ==
  /\ r.rank \in (Nat \ {0}) \cup {NoDocument}
  /\ r.hits = {k \in TopKValues : Within(r.rank, k)}
  /\ r.mrr = ReciprocalRank(r.rank)

Better(a, b) == a # NoDocument /\ (b = NoDocument \/ a < b)

FoundWithin(cases, k) == {n \in DOMAIN cases : k \in cases[n].hits}

LEMMA NearestOrdered ==
  ASSUME NEW a \in Nat, NEW c \in Nat, NEW d \in Nat \ {0}, a <= c
  PROVE  Nearest(a, d) \in Nat /\ Nearest(c, d) \in Nat /\ Nearest(a, d) <= Nearest(c, d)
<1> DEFINE x == 2 * a + d
           y == 2 * c + d
           m == 2 * d
<1>1. x \in Nat /\ y \in Nat /\ x <= y /\ m \in Nat \ {0} /\ Nearest(a, d) = x \div m /\ Nearest(c, d) = y \div m
  BY DEF Nearest
<1> HIDE DEF x, y, m
<1>2. x * m <= y * m
  <2>1. m * x <= m * y
    BY <1>1, ProductsOrdered
  <2>2. m * x = x * m /\ m * y = y * m
    BY <1>1
  <2> QED BY <2>1, <2>2
<1> QED BY <1>1, <1>2, QuotientsOrdered, DivIsNat

LEMMA NearerCountsMore ==
  ASSUME NEW a \in Nat \ {0}, NEW b \in Nat \ {0}, b <= a
  PROVE  Nearest(10000, a) \in Nat /\ Nearest(10000, b) \in Nat /\ Nearest(10000, a) <= Nearest(10000, b)
<1>1. (20000 + a) * (2 * b) <= (20000 + b) * (2 * a)
  <2>1. (20000 + a) * (2 * b) = 40000 * b + 2 * (a * b) /\ (20000 + b) * (2 * a) = 40000 * a + 2 * (a * b)
    OBVIOUS
  <2>2. a * b \in Nat
    OBVIOUS
  <2> QED BY <2>1, <2>2
<1>2. Nearest(10000, a) = (20000 + a) \div (2 * a) /\ Nearest(10000, b) = (20000 + b) \div (2 * b)
  BY DEF Nearest
<1>3. 20000 + a \in Nat /\ 20000 + b \in Nat /\ 2 * a \in Nat \ {0} /\ 2 * b \in Nat \ {0}
  OBVIOUS
<1> QED BY <1>1, <1>2, <1>3, QuotientsOrdered, DivIsNat

LEMMA RankCounts ==
  ASSUME NEW a \in (Nat \ {0}) \cup {NoDocument}, NEW b \in (Nat \ {0}) \cup {NoDocument}, ~Better(a, b)
  PROVE  /\ ReciprocalRank(a) \in Nat /\ ReciprocalRank(b) \in Nat
         /\ ReciprocalRank(a) <= ReciprocalRank(b)
         /\ \A k \in Nat : Within(a, k) => Within(b, k)
<1>1. CASE a = NoDocument /\ b = NoDocument
  BY <1>1 DEF ReciprocalRank, Within
<1>2. CASE a = NoDocument /\ b # NoDocument
  <2>1. ReciprocalRank(a) = 0 /\ ReciprocalRank(b) = Nearest(10000, b) /\ b \in Nat \ {0}
    BY <1>2 DEF ReciprocalRank
  <2>2. Nearest(10000, b) \in Nat
    BY <2>1, NearerCountsMore
  <2>3. \A k \in Nat : ~Within(a, k)
    BY <1>2 DEF Within
  <2> QED BY <2>1, <2>2, <2>3
<1>3. CASE a # NoDocument
  <2>1. a \in Nat \ {0} /\ b \in Nat \ {0} /\ b <= a /\ b # NoDocument
    BY <1>3 DEF Better
  <2>2. ReciprocalRank(a) = Nearest(10000, a) /\ ReciprocalRank(b) = Nearest(10000, b)
    BY <1>3, <2>1 DEF ReciprocalRank
  <2>3. \A k \in Nat : Within(a, k) => Within(b, k)
    BY <2>1 DEF Within
  <2> QED BY <2>1, <2>2, <2>3, NearerCountsMore
<1> QED BY <1>1, <1>2, <1>3

LEMMA ShareIsOfFound ==
  ASSUME NEW cases, NEW k
  PROVE  HitShare(cases, k) = Nearest(10000 * Cardinality(FoundWithin(cases, k)), Len(cases))
BY SMT DEF HitShare, FoundWithin

\* The cases of two runs, one for one.
Paired(before, now, N) ==
  /\ N \in Nat \ {0} /\ Len(before) = N /\ Len(now) = N
  /\ DOMAIN before = 1 .. N /\ DOMAIN now = 1 .. N
  /\ \A n \in 1 .. N : Ranked(before[n]) /\ Ranked(now[n])

LEMMA SharesOrdered ==
  ASSUME NEW before, NEW now, NEW N, Paired(before, now, N),
         \A n \in 1 .. N : ~Better(before[n].rank, now[n].rank), NEW k \in TopKValues
  PROVE  /\ FoundWithin(before, k) \subseteq FoundWithin(now, k)
         /\ HitShare(before, k) \in Nat /\ HitShare(now, k) \in Nat
         /\ HitShare(before, k) <= HitShare(now, k)
<1> DEFINE b == FoundWithin(before, k)
           c == FoundWithin(now, k)
<1>1. k \in Nat
  BY EvaluationAssumption
<1>2. b \subseteq c
  <2> SUFFICES ASSUME NEW n \in 1 .. N, k \in before[n].hits PROVE k \in now[n].hits
    BY DEF FoundWithin, Paired
  <2>1. Ranked(before[n]) /\ Ranked(now[n]) /\ ~Better(before[n].rank, now[n].rank)
    BY DEF Paired
  <2>2. Within(before[n].rank, k)
    BY <2>1 DEF Ranked
  <2>3. Within(now[n].rank, k)
    BY <1>1, <2>1, <2>2, RankCounts, Zenon DEF Ranked
  <2> QED BY <2>1, <2>3 DEF Ranked
<1>3. IsFiniteSet(c) /\ IsFiniteSet(b)
  <2>1. b \in SUBSET (1 .. N) /\ c \in SUBSET (1 .. N)
    BY DEF FoundWithin, Paired
  <2>2. IsFiniteSet(1 .. N)
    BY Counting DEF Paired
  <2> HIDE DEF b, c
  <2> QED BY <2>1, <2>2, FS_Subset, Zenon
<1>4. HitShare(before, k) = Nearest(10000 * Cardinality(b), N) /\ HitShare(now, k) = Nearest(10000 * Cardinality(c), N)
  BY ShareIsOfFound DEF Paired
<1> HIDE DEF b, c
<1>5. Cardinality(b) \in Nat /\ Cardinality(c) \in Nat /\ Cardinality(b) <= Cardinality(c)
  BY <1>2, <1>3, FS_Subset, FS_CardinalityType
<1>6. /\ 10000 * Cardinality(b) \in Nat /\ 10000 * Cardinality(c) \in Nat
      /\ 10000 * Cardinality(b) <= 10000 * Cardinality(c) /\ N \in Nat \ {0}
  BY <1>5 DEF Paired
<1>7. /\ HitShare(before, k) \in Nat /\ HitShare(now, k) \in Nat
      /\ HitShare(before, k) <= HitShare(now, k)
  BY <1>4, <1>6, NearestOrdered
<1> QED BY <1>2, <1>7 DEF b, c

LEMMA MeansOrdered ==
  ASSUME NEW before, NEW now, NEW N, Paired(before, now, N),
         \A n \in 1 .. N : ~Better(before[n].rank, now[n].rank)
  PROVE  /\ Average(before, "mrr") \in Nat /\ Average(now, "mrr") \in Nat
         /\ Average(before, "mrr") <= Average(now, "mrr")
<1> DEFINE D == 1 .. N
           g == [n \in D |-> before[n]["mrr"]]
           h == [n \in D |-> now[n]["mrr"]]
<1>1. IsFiniteSet(D) /\ DOMAIN before = D /\ DOMAIN now = D /\ N \in Nat \ {0} /\ Len(before) = N /\ Len(now) = N
  BY Counting DEF Paired
<1>2. PICK e : SumsUp(e, g, D) /\ Average(before, "mrr") = Nearest(e[D], N)
  <2> HIDE DEF D
  <2> QED BY <1>1, MeanIsOfSum, Zenon
<1>3. PICK f : SumsUp(f, h, D) /\ Average(now, "mrr") = Nearest(f[D], N)
  <2> HIDE DEF D
  <2> QED BY <1>1, MeanIsOfSum, Zenon
<1>4. \A n \in D : g[n] \in Nat /\ h[n] \in Nat /\ g[n] <= h[n]
  <2> SUFFICES ASSUME NEW n \in D
               PROVE  before[n].mrr \in Nat /\ now[n].mrr \in Nat /\ before[n].mrr <= now[n].mrr
    OBVIOUS
  <2>1. Ranked(before[n]) /\ Ranked(now[n]) /\ ~Better(before[n].rank, now[n].rank)
    BY DEF Paired
  <2>2. ReciprocalRank(before[n].rank) \in Nat /\ ReciprocalRank(now[n].rank) \in Nat
        /\ ReciprocalRank(before[n].rank) <= ReciprocalRank(now[n].rank)
    BY <2>1, RankCounts, Zenon DEF Ranked
  <2>3. before[n].mrr = ReciprocalRank(before[n].rank) /\ now[n].mrr = ReciprocalRank(now[n].rank)
    BY <2>1 DEF Ranked
  <2> QED BY <2>2, <2>3
<1> HIDE DEF D, g, h
<1>5. e[D] \in Nat /\ f[D] \in Nat /\ e[D] <= f[D]
  BY <1>1, <1>2, <1>3, <1>4, SumsOrdered, Zenon
<1> QED BY <1>1, <1>2, <1>3, <1>5, NearestOrdered, Zenon


\* More than two of a hundred hits lost are more than two per cent of the share,
\* also after both shares were rounded, as long as one case weighs enough.
LEMMA LossShows ==
  ASSUME NEW F \in Nat, NEW L \in Nat, NEW N \in Nat \ {0}, N <= 202, L <= F, 50 * L > F
  PROVE  Compared(Nearest(10000 * F, N), Nearest(10000 * (F - L), N), 2) = "FAIL"
<1> DEFINE a == 20000 * F + N
           c == 20000 * (F - L) + N
           m == 2 * N
           x == a \div m
           y == c \div m
<1>1. Nearest(10000 * F, N) = x /\ Nearest(10000 * (F - L), N) = y
  <2>1. 2 * (10000 * F) + N = a /\ 2 * (10000 * (F - L)) + N = c
    OBVIOUS
  <2> QED BY <2>1 DEF Nearest
<1>2. a \in Nat /\ c \in Nat /\ m \in Nat \ {0}
  OBVIOUS
<1>3. 50 * c + 49 * m <= 49 * a
  OBVIOUS
<1> HIDE DEF a, c, m
<1>4. x \in Nat /\ y \in Nat /\ a < m * x + m /\ m * y <= c
  BY <1>2, Quotient, DivIsNat
<1> HIDE DEF x, y
<1>5. m * x \in Int /\ m * y \in Int
  BY <1>2, <1>4
<1>6. 50 * (m * y) < 49 * (m * x)
  BY <1>2, <1>3, <1>4, <1>5
<1>7. 49 * x > 50 * y
  <2> SUFFICES ASSUME 49 * x <= 50 * y PROVE FALSE
    BY <1>4
  <2>1. m * (49 * x) <= m * (50 * y)
    BY <1>2, <1>4, ProductsOrdered
  <2>2. m * (49 * x) = 49 * (m * x) /\ m * (50 * y) = 50 * (m * y)
    BY <1>2, <1>4
  <2> QED BY <1>5, <1>6, <2>1, <2>2
<1>8. y < x /\ (x - y) * 100 > 2 * x
  BY <1>4, <1>7
<1> QED BY <1>1, <1>8 DEF Compared

-----------------------------------------------------------------------------
LEMMA NoWorsePasses ==
  ASSUME NEW before, NEW now, NEW N, Paired(before, now, N),
         \A n \in 1 .. N : ~Better(before[n].rank, now[n].rank)
  PROVE  \A metric \in DOMAIN Regression(Overall(before), Overall(now)) :
           Regression(Overall(before), Overall(now))[metric] = "PASS"
<1>1. /\ Average(before, "mrr") \in Nat /\ Average(now, "mrr") \in Nat
      /\ Average(before, "mrr") <= Average(now, "mrr")
  BY MeansOrdered
<1>2. \A k \in {1, 5} :
        /\ HitShare(before, k) \in Nat /\ HitShare(now, k) \in Nat
        /\ HitShare(before, k) <= HitShare(now, k)
  BY SharesOrdered, EvaluationAssumption
<1>3. \A x, y \in Nat : \A percent : x <= y => Compared(x, y, percent) = "PASS"
  BY DEF Compared
<1>4. /\ Overall(before).mrr = Average(before, "mrr") /\ Overall(now).mrr = Average(now, "mrr")
      /\ Overall(before).hit_at_1 = HitShare(before, 1) /\ Overall(now).hit_at_1 = HitShare(now, 1)
      /\ Overall(before).hit_at_5 = HitShare(before, 5) /\ Overall(now).hit_at_5 = HitShare(now, 5)
  BY DEF Overall
<1> DEFINE b == Overall(before)
           c == Overall(now)
<1> HIDE DEF b, c
<1>5. /\ Compared(b.mrr, c.mrr, 2) = "PASS" /\ Compared(b.hit_at_5, c.hit_at_5, 2) = "PASS"
      /\ Compared(b.hit_at_1, c.hit_at_1, 5) = "PASS"
  BY <1>1, <1>2, <1>3, <1>4 DEF b, c
<1>6. \A metric \in DOMAIN Regression(b, c) : Regression(b, c)[metric] = "PASS"
  BY <1>5 DEF Regression
<1> QED BY <1>6 DEF b, c

LEMMA LossFails ==
  ASSUME NEW before, NEW now, NEW N, Paired(before, now, N), N <= 202,
         \A n \in 1 .. N : ~Better(now[n].rank, before[n].rank),
         50 * Cardinality(FoundWithin(before, 5) \ FoundWithin(now, 5)) > Cardinality(FoundWithin(before, 5))
  PROVE  Regression(Overall(before), Overall(now)).hit_at_5 = "FAIL"
<1> DEFINE b == FoundWithin(before, 5)
           c == FoundWithin(now, 5)
<1>0. 5 \in TopKValues /\ Paired(now, before, N)
  BY EvaluationAssumption DEF Paired
<1>1. c \subseteq b
  BY <1>0, SharesOrdered
<1>2. IsFiniteSet(b)
  <2>1. b \in SUBSET (1 .. N)
    BY DEF FoundWithin, Paired
  <2>2. IsFiniteSet(1 .. N)
    BY Counting DEF Paired
  <2> HIDE DEF b
  <2> QED BY <2>1, <2>2, FS_Subset, Zenon
<1>3. HitShare(before, 5) = Nearest(10000 * Cardinality(b), N) /\ HitShare(now, 5) = Nearest(10000 * Cardinality(c), N)
  BY ShareIsOfFound DEF Paired
<1> DEFINE F == Cardinality(b)
           L == Cardinality(b \ c)
<1>4. 50 * L > F
  OBVIOUS
<1> HIDE DEF b, c
<1>5. F \in Nat /\ L \in Nat /\ Cardinality(c) = F - L /\ L <= F
  <2>1. IsFiniteSet(c) /\ IsFiniteSet(b \ c)
    BY <1>1, <1>2, FS_Subset
  <2>2. c \cup (b \ c) = b /\ c \cap (b \ c) = {}
    BY <1>1
  <2>3. /\ Cardinality(c \cup (b \ c)) = Cardinality(c) + Cardinality(b \ c)
        /\ Cardinality(c) \in Nat /\ Cardinality(b \ c) \in Nat
    BY <2>1, <2>2, DisjointAdd, Zenon
  <2>4. F = Cardinality(c) + L /\ Cardinality(c) \in Nat /\ L \in Nat
    BY <2>2, <2>3, Zenon
  <2> HIDE DEF F, L
  <2> QED BY <2>4
<1>6. HitShare(before, 5) = Nearest(10000 * F, N) /\ HitShare(now, 5) = Nearest(10000 * (F - L), N)
  BY <1>3, <1>5
<1> HIDE DEF F, L
<1>7. Compared(Nearest(10000 * F, N), Nearest(10000 * (F - L), N), 2) = "FAIL"
  BY <1>4, <1>5, LossShows DEF Paired
<1>8. Overall(before).hit_at_5 = HitShare(before, 5) /\ Overall(now).hit_at_5 = HitShare(now, 5)
  BY DEF Overall
<1>9. Regression(Overall(before), Overall(now)).hit_at_5
        = Compared(Overall(before).hit_at_5, Overall(now).hit_at_5, 2)
  BY Zenon DEF Regression
<1> QED BY <1>6, <1>7, <1>8, <1>9


-----------------------------------------------------------------------------
(* The two runs an evaluation makes. *)

LEMMA RankOfFirst ==
  ASSUME NEW ranking, NEW S, ranking \in Seq(S), NEW relevant
  PROVE  FirstRank(ranking, relevant) \in (Nat \ {0}) \cup {NoDocument}
<1> DEFINE hits == {n \in DOMAIN ranking : ranking[n] \in relevant}
<1>1. DOMAIN ranking = 1 .. Len(ranking) /\ Len(ranking) \in Nat
  BY DomainOf
<1>2. hits \in SUBSET Nat /\ hits \subseteq Nat \ {0}
  BY <1>1
<1>3. FirstRank(ranking, relevant) = IF hits = {} THEN NoDocument ELSE CHOOSE n \in hits : \A m \in hits : n <= m
  BY Zenon DEF FirstRank
<1> HIDE DEF hits
<1>4. CASE hits = {}
  BY <1>3, <1>4
<1>5. CASE hits # {}
  <2>1. \E n \in hits : \A m \in hits : n <= m
    BY <1>2, <1>5, LeastNatural
  <2>2. (CHOOSE n \in hits : \A m \in hits : n <= m) \in hits
    BY <2>1
  <2> QED BY <1>2, <1>3, <1>5, <2>2, Zenon
<1> QED BY <1>4, <1>5

LEMMA MeasuredIsRanked ==
  ASSUME NEW c, NEW ranking, NEW S, ranking \in Seq(S)
  PROVE  Ranked(Measured(c, ranking))
<1> DEFINE rank == FirstRank(ranking, Relevant(c))
<1>1. rank \in (Nat \ {0}) \cup {NoDocument}
  BY RankOfFirst
<1>2. /\ Measured(c, ranking).rank = rank
      /\ Measured(c, ranking).hits = {k \in TopKValues : Within(rank, k)}
      /\ Measured(c, ranking).mrr = ReciprocalRank(rank)
  <2> HIDE DEF rank
  <2> QED BY DEF Measured, rank
<1> HIDE DEF rank
<1> QED BY <1>1, <1>2 DEF Ranked

\* A list of measured cases.
CasesKept(list) == (\E S : list \in Seq(S)) /\ \A n \in DOMAIN list : Ranked(list[n])

RunsKept ==
  /\ dataset \in Datasets \cup {<<>>}
  /\ evalStep \in {"case", "searching", "done"} => dataset # <<>>
  /\ CasesKept(caseResults) /\ Len(caseResults) <= Len(dataset)
  /\ evalStep = "searching" => Len(caseResults) < Len(dataset)

BaselineKept ==
  baseline # NoDocument =>
    /\ CasesKept(baseline.cases) /\ Len(baseline.cases) = Len(dataset)
    /\ baseline.overall = Overall(baseline.cases)

VerdictGiven ==
  evalStep = "done" =>
    /\ baseline # NoDocument /\ Len(caseResults) = Len(dataset)
    /\ verdict = Regression(baseline.overall, Overall(caseResults))

EvaluationInv == RunsKept /\ BaselineKept /\ VerdictGiven

LEMMA NothingKept == CasesKept(<<>>) /\ Len(<<>>) = 0
<1>1. \A S : <<>> \in Seq(S)
  OBVIOUS
<1> QED BY <1>1, NothingRead DEF CasesKept

LEMMA OneMoreKept ==
  ASSUME NEW list, CasesKept(list), NEW r, Ranked(r)
  PROVE  CasesKept(Append(list, r)) /\ Len(Append(list, r)) = Len(list) + 1 /\ Len(list) \in Nat
<1>1. PICK S : list \in Seq(S)
  BY DEF CasesKept
<1> DEFINE T == S \cup {r}
           more == Append(list, r)
<1>2. list \in Seq(T) /\ r \in T
  <2>1. \A n \in DOMAIN list : list[n] \in T
    BY <1>1
  <2>2. list \in [1 .. Len(list) -> T] /\ Len(list) \in Nat
    BY <1>1, <2>1
  <2> HIDE DEF T
  <2>3. list \in Seq(T)
    BY <2>2, ListIsSequence
  <2> QED BY <2>3 DEF T
<1> HIDE DEF T
<1>3. /\ more \in Seq(T) /\ Len(more) = Len(list) + 1 /\ Len(list) \in Nat
      /\ \A n \in 1 .. Len(list) + 1 : more[n] = IF n <= Len(list) THEN list[n] ELSE r
  BY <1>2
<1>4. DOMAIN more = 1 .. Len(list) + 1 /\ DOMAIN list = 1 .. Len(list)
  BY <1>2, <1>3, DomainOf
<1> HIDE DEF more
<1>5. \A n \in DOMAIN more : Ranked(more[n])
  BY <1>3, <1>4 DEF CasesKept
<1> QED BY <1>3, <1>5 DEF CasesKept, more

LEMMA InitEvaluationInv == ScoringInit => EvaluationInv
<1> SUFFICES ASSUME ScoringInit PROVE EvaluationInv
  OBVIOUS
<1>1. /\ dataset \in Only(Datasets, "evaluation", <<>>)
      /\ evalStep = "load" /\ caseResults = <<>> /\ baseline = NoDocument
  BY Zenon DEF ScoringInit, EvaluationInit
<1>2. dataset \in Datasets \cup {<<>>}
  BY <1>1 DEF Only
<1>3. Len(dataset) \in Nat
  BY <1>2, EvaluationAssumption, NothingKept
<1> QED BY <1>1, <1>2, <1>3, NothingKept DEF EvaluationInv, RunsKept, BaselineKept, VerdictGiven

LEMMA EndCaseStep ==
  ASSUME EvaluationInv, NEW ranking, NEW S, ranking \in Seq(S), EndCase(ranking)
  PROVE  EvaluationInv'
<1> DEFINE r == Measured(Current, ranking)
<1>1. Ranked(r)
  BY MeasuredIsRanked
<1>2. /\ evalStep = "searching" /\ evalStep' = "case" /\ caseResults' = Append(caseResults, r)
      /\ dataset' = dataset /\ baseline' = baseline /\ verdict' = verdict
  BY Zenon DEF EndCase
<1> HIDE DEF r
<1>3. CasesKept(caseResults') /\ Len(caseResults') = Len(caseResults) + 1 /\ Len(caseResults) \in Nat
  BY <1>1, <1>2, OneMoreKept DEF EvaluationInv, RunsKept
<1>4. Len(dataset) \in Nat
  BY EvaluationAssumption, NothingKept DEF EvaluationInv, RunsKept
<1>5. RunsKept'
  BY <1>2, <1>3, <1>4 DEF EvaluationInv, RunsKept
<1>6. BaselineKept' /\ VerdictGiven'
  BY <1>2 DEF EvaluationInv, BaselineKept, VerdictGiven
<1> QED BY <1>5, <1>6 DEF EvaluationInv

LEMMA NextEvaluationInv == EvaluationInv /\ [EvaluationNext]_evaluationVars => EvaluationInv'
<1> SUFFICES ASSUME EvaluationInv, [EvaluationNext]_evaluationVars PROVE EvaluationInv'
  OBVIOUS
<1>0. Len(dataset) \in Nat
  BY EvaluationAssumption, NothingKept DEF EvaluationInv, RunsKept
<1>1. CASE LoadDataset
  <2>1. /\ evalStep' = "case" => dataset # <<>>
        /\ evalStep' \in {"case", "refused"} /\ UNCHANGED <<dataset, caseResults, baseline, verdict>>
        /\ evalStep = "load"
    BY <1>1 DEF LoadDataset, Valid
  <2> QED BY <2>1 DEF EvaluationInv, RunsKept, BaselineKept, VerdictGiven
<1>2. CASE BeginCase
  <2>1. /\ evalStep = "case" /\ Len(caseResults) < Len(dataset) /\ evalStep' = "searching"
        /\ UNCHANGED <<dataset, caseResults, baseline, verdict>>
    BY <1>2 DEF BeginCase
  <2> QED BY <2>1 DEF EvaluationInv, RunsKept, BaselineKept, VerdictGiven
<1>3. CASE CaseFinds
  <2>1. PICK ranking \in Rankings : EndCase(ranking)
    BY <1>3 DEF CaseFinds
  <2>2. ranking \in Seq(Documents)
    BY EvaluationAssumption
  <2> QED BY <2>1, <2>2, EndCaseStep
<1>4. CASE CaseRaises
  <2>1. EndCase(<<>>)
    BY <1>4 DEF CaseRaises
  <2>2. <<>> \in Seq(Documents)
    OBVIOUS
  <2> QED BY <2>1, <2>2, EndCaseStep, Zenon
<1>5. CASE SaveBaseline
  <2>1. /\ evalStep = "case" /\ Len(caseResults) = Len(dataset) /\ baseline' = Report(caseResults)
        /\ caseResults' = <<>> /\ UNCHANGED <<dataset, evalStep, verdict>>
    BY <1>5 DEF SaveBaseline
  <2>2. Report(caseResults).cases = caseResults /\ Report(caseResults).overall = Overall(caseResults)
    BY DEF Report
  <2>3. RunsKept'
    BY <1>0, <2>1, NothingKept DEF EvaluationInv, RunsKept
  <2>4. BaselineKept'
    BY <2>1, <2>2 DEF EvaluationInv, RunsKept, BaselineKept
  <2>5. VerdictGiven'
    BY <2>1 DEF VerdictGiven
  <2> QED BY <2>3, <2>4, <2>5 DEF EvaluationInv
<1>6. CASE Compare
  <2>1. /\ evalStep = "case" /\ Len(caseResults) = Len(dataset) /\ baseline # NoDocument
        /\ verdict' = Regression(baseline.overall, Report(caseResults).overall)
        /\ evalStep' = "done" /\ UNCHANGED <<dataset, caseResults, baseline>>
    BY <1>6 DEF Compare
  <2>2. Report(caseResults).overall = Overall(caseResults)
    BY DEF Report
  <2>3. RunsKept' /\ BaselineKept'
    BY <2>1 DEF EvaluationInv, RunsKept, BaselineKept
  <2>4. VerdictGiven'
    BY <2>1, <2>2 DEF VerdictGiven
  <2> QED BY <2>3, <2>4 DEF EvaluationInv
<1>7. CASE UNCHANGED evaluationVars
  BY <1>7 DEF evaluationVars, EvaluationInv, RunsKept, BaselineKept, VerdictGiven
<1> QED BY <1>1, <1>2, <1>3, <1>4, <1>5, <1>6, <1>7 DEF EvaluationNext

LEMMA EvaluationInvHolds == ScoringSpec => []EvaluationInv
<1>1. [ScoringNext]_allVars => [EvaluationNext]_evaluationVars
  BY DEF ScoringNext, allVars, ScoreHypothesis, ScoreAnswer, RouteQuery, CutFile, AnswerTurn,
         Investigate, EvaluateRetrieval
<1> QED BY <1>1, InitEvaluationInv, NextEvaluationInv, PTL DEF ScoringSpec

\* The two runs compared are of the same cases.
LEMMA RunsArePaired ==
  ASSUME EvaluationInv, evalStep = "done"
  PROVE  Paired(baseline.cases, caseResults, Len(dataset)) /\ DOMAIN dataset = 1 .. Len(dataset)
<1>1. /\ CasesKept(baseline.cases) /\ Len(baseline.cases) = Len(dataset)
      /\ CasesKept(caseResults) /\ Len(caseResults) = Len(dataset) /\ dataset # <<>> /\ dataset \in Datasets
  BY DEF EvaluationInv, RunsKept, BaselineKept, VerdictGiven
<1>2. dataset \in Seq(Case)
  BY <1>1, EvaluationAssumption
<1>3. Len(dataset) \in Nat /\ DOMAIN dataset = 1 .. Len(dataset) /\ Len(dataset) # 0
  <2>1. Len(dataset) \in Nat /\ DOMAIN dataset = 1 .. Len(dataset)
    BY <1>2, DomainOf
  <2>2. \A S, s : s \in Seq(S) /\ Len(s) = 0 => s = <<>>
    OBVIOUS
  <2> QED BY <1>1, <1>2, <2>1, <2>2
<1>4. \A list : CasesKept(list) => DOMAIN list = 1 .. Len(list)
  BY DomainOf DEF CasesKept
<1> QED BY <1>1, <1>3, <1>4 DEF Paired, CasesKept


\* No case of the second run ranks behind the first.
SecondNoWorse == \A n \in DOMAIN dataset : ~Better(baseline.cases[n].rank, caseResults[n].rank)
SecondNoBetter == \A n \in DOMAIN dataset : ~Better(caseResults[n].rank, baseline.cases[n].rank)

\* Rounding raises no false alarm: whatever the dataset's size, the rankings and
\* the searches that failed, a run in which no case ranks worse than in the
\* baseline passes on every metric.
THEOREM NoFalseAlarm ==
  ScoringSpec =>
    [](evalStep = "done" /\ SecondNoWorse => \A metric \in DOMAIN verdict : verdict[metric] = "PASS")
<1>1. EvaluationInv =>
        (evalStep = "done" /\ SecondNoWorse => \A metric \in DOMAIN verdict : verdict[metric] = "PASS")
  <2> SUFFICES ASSUME EvaluationInv, evalStep = "done", SecondNoWorse
               PROVE  \A metric \in DOMAIN verdict : verdict[metric] = "PASS"
    OBVIOUS
  <2>1. Paired(baseline.cases, caseResults, Len(dataset)) /\ DOMAIN dataset = 1 .. Len(dataset)
    BY RunsArePaired
  <2>2. verdict = Regression(Overall(baseline.cases), Overall(caseResults))
    BY DEF EvaluationInv, VerdictGiven, BaselineKept
  <2>3. \A n \in 1 .. Len(dataset) : ~Better(baseline.cases[n].rank, caseResults[n].rank)
    BY <2>1 DEF SecondNoWorse
  <2> QED BY <2>1, <2>2, <2>3, NoWorsePasses
<1> QED BY <1>1, EvaluationInvHolds, PTL

\* The comparison with the baseline tells a worse run from a better one, for
\* every retriever, ranking and failing search, as long as the dataset has at
\* most 202 cases.  In a longer one a case weighs less than the rounding of the
\* shares to four decimals may hide.
THEOREM RegressionsAreSeen ==
  ASSUME \A d \in Datasets : Len(d) <= 202
  PROVE  ScoringSpec => []RegressionIsSeen
<1>1. EvaluationInv => RegressionIsSeen
  <2> SUFFICES ASSUME EvaluationInv, evalStep = "done" PROVE RegressionIsSeen
    BY DEF RegressionIsSeen
  <2> DEFINE before == baseline.cases
             N == Len(dataset)
             hit == {n \in DOMAIN dataset : Within(before[n].rank, 5)}
             lost == {n \in hit : ~Within(caseResults[n].rank, 5)}
  <2>1. Paired(before, caseResults, N) /\ DOMAIN dataset = 1 .. N
    BY RunsArePaired
  <2>2. verdict = Regression(Overall(before), Overall(caseResults))
    BY DEF EvaluationInv, VerdictGiven, BaselineKept
  <2>3. N <= 202
    <3>1. dataset \in Datasets
      BY DEF EvaluationInv, RunsKept
    <3> QED BY <3>1
  <2>4. hit = FoundWithin(before, 5) /\ lost = FoundWithin(before, 5) \ FoundWithin(caseResults, 5)
    <3>1. DOMAIN before = 1 .. N /\ DOMAIN caseResults = 1 .. N /\ DOMAIN dataset = 1 .. N
      BY <2>1 DEF Paired
    <3>2. \A n \in 1 .. N : /\ 5 \in before[n].hits <=> Within(before[n].rank, 5)
                            /\ 5 \in caseResults[n].hits <=> Within(caseResults[n].rank, 5)
      <4> SUFFICES ASSUME NEW n \in 1 .. N
                   PROVE  /\ 5 \in before[n].hits <=> Within(before[n].rank, 5)
                          /\ 5 \in caseResults[n].hits <=> Within(caseResults[n].rank, 5)
        OBVIOUS
      <4>1. Ranked(before[n]) /\ Ranked(caseResults[n])
        BY <2>1 DEF Paired
      <4>2. /\ before[n].hits = {k \in TopKValues : Within(before[n].rank, k)}
            /\ caseResults[n].hits = {k \in TopKValues : Within(caseResults[n].rank, k)}
            /\ 5 \in TopKValues
        BY <4>1, EvaluationAssumption DEF Ranked
      <4> QED BY <4>2
    <3> HIDE DEF before
    <3> QED BY <3>1, <3>2 DEF FoundWithin
  <2>5. SecondNoWorse => \A metric \in DOMAIN verdict : verdict[metric] = "PASS"
    BY <2>1, <2>2, NoWorsePasses DEF SecondNoWorse
  <2>6. SecondNoBetter /\ 50 * Cardinality(lost) > Cardinality(hit)
          => \E metric \in DOMAIN verdict : verdict[metric] = "FAIL"
    <3> SUFFICES ASSUME SecondNoBetter, 50 * Cardinality(lost) > Cardinality(hit)
                 PROVE  \E metric \in DOMAIN verdict : verdict[metric] = "FAIL"
      OBVIOUS
    <3>1. \A n \in 1 .. N : ~Better(caseResults[n].rank, before[n].rank)
      BY <2>1 DEF SecondNoBetter
    <3>2. 50 * Cardinality(FoundWithin(before, 5) \ FoundWithin(caseResults, 5)) > Cardinality(FoundWithin(before, 5))
      BY <2>4, Zenon
    <3> HIDE DEF before, N, hit, lost
    <3>3. Regression(Overall(before), Overall(caseResults)).hit_at_5 = "FAIL"
      BY <2>1, <2>3, <3>1, <3>2, LossFails
    <3>4. "hit_at_5" \in DOMAIN Regression(Overall(before), Overall(caseResults))
      BY DEF Regression
    <3> QED BY <2>2, <3>3, <3>4
  <2> QED BY <2>5, <2>6, Zenon DEF RegressionIsSeen, SecondNoWorse, SecondNoBetter, Better
<1> QED BY <1>1, EvaluationInvHolds, PTL

-----------------------------------------------------------------------------
(* Positions in order.                                                     *)

\* The place of i in S.
PlaceIn(S, i) == Cardinality({j \in S : j <= i})

\* What InOrder lists: every member of S once, the smaller ones first.
LEMMA InOrderLists ==
  ASSUME NEW S, S \subseteq Nat, IsFiniteSet(S)
  PROVE  /\ Cardinality(S) \in Nat
         /\ InOrder(S) \in [1 .. Cardinality(S) -> S]
         /\ \A i \in S : \E n \in 1 .. Cardinality(S) : InOrder(S)[n] = i
         /\ \A m, n \in 1 .. Cardinality(S) : m < n <=> InOrder(S)[m] < InOrder(S)[n]
<1> DEFINE N == Cardinality(S)
           Upto(i) == {j \in S : j <= i}
           place(i) == PlaceIn(S, i)
           order == InOrder(S)
           f == [i \in S |-> place(i)]
<1>1. N \in Nat
  BY FS_CardinalityType
<1>2. \A i \in S : /\ IsFiniteSet(Upto(i)) /\ place(i) \in Nat /\ place(i) <= N
                   /\ place(i) = Cardinality(Upto(i))
  BY FS_Subset, FS_CardinalityType DEF PlaceIn
<1>3. ASSUME NEW i \in S, NEW j \in S, i < j PROVE place(i) < place(j)
  <2>1. i \in Nat /\ j \in Nat
    OBVIOUS
  <2>3. Upto(i) \in SUBSET Upto(j)
    <3> SUFFICES ASSUME NEW k \in S, k <= i PROVE k <= j
      BY Zenon
    <3>1. k \in Nat
      OBVIOUS
    <3> QED BY <1>3, <2>1, <3>1
  <2>4. j \in Upto(j) /\ j \notin Upto(i)
    BY <1>3, <2>1
  <2> HIDE DEF Upto
  <2>5. Upto(i) # Upto(j)
    BY <2>4
  <2>6. /\ Cardinality(Upto(i)) <= Cardinality(Upto(j))
        /\ Cardinality(Upto(j)) = Cardinality(Upto(i)) => Upto(j) = Upto(i)
    BY <1>2, <2>3, FS_Subset
  <2> HIDE DEF place
  <2> QED BY <1>2, <2>5, <2>6
<1>4. \A i \in S : place(i) \in 1 .. N
  <2> SUFFICES ASSUME NEW i \in S PROVE place(i) \in 1 .. N
    OBVIOUS
  <2>1. i \in Upto(i)
    OBVIOUS
  <2>2. Upto(i) # {}
    BY <2>1
  <2> HIDE DEF Upto, place
  <2>3. Cardinality(Upto(i)) # 0
    BY <1>2, <2>2, FS_EmptySet
  <2> QED BY <1>1, <1>2, <2>3
<1>5. order = [n \in 1 .. N |-> CHOOSE i \in S : place(i) = n]
  BY Zenon DEF InOrder, PlaceIn
<1> HIDE DEF place, order, N, Upto
<1>6. \A i, j \in S : i # j => i < j \/ j < i
  OBVIOUS
<1>7. \A i, j \in S : place(i) = place(j) => i = j
  BY <1>3, <1>4, <1>6, <1>1
<1>8. f \in Injection(S, 1 .. N)
  BY <1>4, <1>7 DEF Injection, IsInjective
<1>9. f \in Surjection(S, 1 .. N)
  <2>1. IsFiniteSet(1 .. N) /\ Cardinality(1 .. N) = N
    BY <1>1, FS_Interval
  <2> HIDE DEF f
  <2> QED BY <1>8, <2>1, FS_Injection DEF N
<1>10. \A n \in 1 .. N : \E i \in S : place(i) = n
  BY <1>9, Zenon DEF Surjection
<1>11. \A n \in 1 .. N : order[n] \in S /\ place(order[n]) = n
  BY <1>5, <1>10
<1>12. order \in [1 .. N -> S]
  BY <1>5, <1>10
<1>13. \A i \in S : \E n \in 1 .. N : order[n] = i
  BY <1>4, <1>7, <1>11, Zenon
<1>14. \A m, n \in 1 .. N : m < n <=> order[m] < order[n]
  <2> SUFFICES ASSUME NEW m \in 1 .. N, NEW n \in 1 .. N PROVE m < n <=> order[m] < order[n]
    OBVIOUS
  <2>1. order[m] \in S /\ order[n] \in S /\ place(order[m]) = m /\ place(order[n]) = n
    BY <1>11
  <2>2. order[m] \in Nat /\ order[n] \in Nat
    BY <2>1, Zenon
  <2>3. order[m] < order[n] => m < n
    BY <1>3, <2>1, Zenon
  <2>4. order[n] < order[m] => n < m
    BY <1>3, <2>1, Zenon
  <2>5. order[m] = order[n] => m = n
    BY <2>1
  <2> QED BY <2>2, <2>3, <2>4, <2>5, <1>1
<1> QED BY <1>1, <1>12, <1>13, <1>14 DEF order, N

\* g tells where in t each entry of s is from: s is what t has at the positions P.
Picks(g, s, t, P) ==
  /\ g \in [1 .. Len(s) -> P]
  /\ \A n \in 1 .. Len(s) : s[n] = t[g[n]]
  /\ \A m, n \in 1 .. Len(s) : m < n <=> g[m] < g[n]
  /\ \A i \in P : \E n \in 1 .. Len(s) : g[n] = i

LEMMA AtPicks ==
  ASSUME NEW S, NEW t \in Seq(S), NEW P, P \subseteq 1 .. Len(t)
  PROVE  /\ At(t, P) \in Seq(S)
         /\ Len(At(t, P)) <= Len(t)
         /\ \E g : Picks(g, At(t, P), t, P)
<1> DEFINE N == Cardinality(P)
           order == InOrder(P)
           s == At(t, P)
<1>1. Len(t) \in Nat /\ \A i \in 1 .. Len(t) : t[i] \in S
  OBVIOUS
<1>2. P \subseteq Nat /\ IsFiniteSet(P) /\ N <= Len(t)
  <2>1. IsFiniteSet(1 .. Len(t)) /\ Cardinality(1 .. Len(t)) = Len(t)
    BY <1>1, Counting
  <2>2. P \subseteq Nat
    OBVIOUS
  <2>3. IsFiniteSet(P) /\ N <= Cardinality(1 .. Len(t))
    BY <2>1, FS_Subset, Zenon
  <2> QED BY <2>1, <2>2, <2>3
<1>3. /\ N \in Nat
      /\ order \in [1 .. N -> P]
      /\ \A i \in P : \E n \in 1 .. N : order[n] = i
      /\ \A m, n \in 1 .. N : m < n <=> order[m] < order[n]
  BY <1>2, InOrderLists, Zenon
<1>4. s = [n \in DOMAIN order |-> t[order[n]]]
  BY DEF At
<1> HIDE DEF N, order, s
<1>5. s = [n \in 1 .. N |-> t[order[n]]]
  <2>1. DOMAIN order = 1 .. N
    BY <1>3
  <2> QED BY <1>4, <2>1
<1>6. \A n \in 1 .. N : order[n] \in P /\ t[order[n]] \in S
  <2> SUFFICES ASSUME NEW n \in 1 .. N PROVE order[n] \in P /\ t[order[n]] \in S
    OBVIOUS
  <2>1. order[n] \in P
    BY <1>3
  <2> QED BY <1>1, <2>1, Zenon
<1>7. s \in [1 .. N -> S]
  BY <1>5, <1>6
<1>8. s \in Seq(S) /\ Len(s) = N
  BY <1>3, <1>7
<1>9. Picks(order, s, t, P)
  BY <1>3, <1>5, <1>8 DEF Picks
<1> QED BY <1>2, <1>8, <1>9 DEF s

-----------------------------------------------------------------------------
(* Sequences of sequences, end to end.                                     *)

\* The first n sequences of s, end to end.
FlatOf(f, s, n) == f = [i \in 1 .. n |-> IF i = 1 THEN s[i] ELSE f[i - 1] \o s[i]]

LEMMA FlatExists ==
  ASSUME NEW s, NEW n \in Nat
  PROVE  \E f : FlatOf(f, s, n)
<1> DEFINE T == {k \in Nat : ~\E f : FlatOf(f, s, k)}
<1> SUFFICES ASSUME T # {} PROVE FALSE
  OBVIOUS
<1>1. PICK k \in T : \A j \in T : k <= j
  BY LeastNatural, Zenon
<1>2. k # 0
  <2>1. FlatOf([i \in 1 .. 0 |-> 0], s, 0)
    BY DEF FlatOf
  <2> QED BY <1>1, <2>1
<1>3. k - 1 \in Nat /\ k - 1 \notin T
  BY <1>1, <1>2
<1>4. PICK f : FlatOf(f, s, k - 1)
  BY <1>3
<1> DEFINE h == [i \in 1 .. k |-> IF i = k THEN IF i = 1 THEN s[i] ELSE f[i - 1] \o s[i] ELSE f[i]]
<1>5. \A i \in 1 .. k : h[i] = IF i = 1 THEN s[i] ELSE h[i - 1] \o s[i]
  <2> SUFFICES ASSUME NEW i \in 1 .. k PROVE h[i] = IF i = 1 THEN s[i] ELSE h[i - 1] \o s[i]
    BY Zenon
  <2>1. CASE i = 1 /\ i = k
    BY <2>1
  <2>2. CASE i # k
    <3>1. i \in 1 .. k - 1 /\ i - 1 # k /\ i # k
      BY <2>2, <1>3
    <3>2. f[i] = IF i = 1 THEN s[i] ELSE f[i - 1] \o s[i]
      <4>1. f = [j \in 1 .. k - 1 |-> IF j = 1 THEN s[j] ELSE f[j - 1] \o s[j]]
        BY <1>4, Zenon DEF FlatOf
      <4> QED BY <3>1, <4>1, Zenon
    <3>3. h[i] = f[i] /\ (i # 1 => h[i - 1] = f[i - 1])
      <4>1. i # 1 => i - 1 \in 1 .. k
        BY <3>1, <1>3
      <4> QED BY <3>1, <4>1
    <3> QED BY <3>2, <3>3
  <2>3. CASE i = k /\ i # 1
    <3>1. i - 1 \in 1 .. k /\ i - 1 # k
      BY <2>3, <1>3
    <3>2. h[i - 1] = f[i - 1]
      BY <3>1
    <3> QED BY <2>3, <3>2, Zenon
  <2> QED BY <2>1, <2>2, <2>3
<1>6. FlatOf(h, s, k)
  <2>1. h = [i \in 1 .. k |-> h[i]]
    OBVIOUS
  <2> HIDE DEF h
  <2> QED BY <1>5, <2>1, Zenon DEF FlatOf
<1> QED BY <1>1, <1>6

\* FlattenSeq, by steps.
Steps(f, s, n) ==
  /\ FlattenSeq(s) = f[n]
  /\ f[1] = s[1]
  /\ \A k \in 2 .. n : f[k] = f[k - 1] \o s[k]

LEMMA FlatSteps ==
  ASSUME NEW N \in Nat \ {0}, NEW s, Len(s) = N
  PROVE  \E f : Steps(f, s, N)
<1> DEFINE flat == CHOOSE f : FlatOf(f, s, N)
<1>1. FlatOf(flat, s, N)
  BY FlatExists
<1>2. FlattenSeq(s) = flat[N]
  BY Zenon DEF FlattenSeq, FlatOf
<1> HIDE DEF flat
<1>3. \A i \in 1 .. N : flat[i] = IF i = 1 THEN s[i] ELSE flat[i - 1] \o s[i]
  BY <1>1, Zenon DEF FlatOf
<1>4. flat[1] = s[1]
  <2>1. 1 \in 1 .. N
    OBVIOUS
  <2> QED BY <1>3, <2>1, Zenon
<1>5. ASSUME NEW k \in 2 .. N PROVE flat[k] = flat[k - 1] \o s[k]
  <2>1. k \in 1 .. N /\ k # 1
    OBVIOUS
  <2> QED BY <1>3, <2>1, Zenon
<1> QED BY <1>2, <1>4, <1>5, Zenon DEF Steps

LEMMA FlatEmpty == FlattenSeq(<<>>) = <<>>
BY DEF FlattenSeq

\* w and i tell of each entry of flat which of the sequences s it is from, and
\* its place there.
Located(flat, s, n, w, i) ==
  /\ \A k \in 1 .. Len(flat) :
       /\ w[k] \in 1 .. n /\ i[k] \in 1 .. Len(s[w[k]])
       /\ flat[k] = s[w[k]][i[k]]
  /\ \A k, l \in 1 .. Len(flat) : k < l => w[k] < w[l] \/ (w[k] = w[l] /\ i[k] < i[l])
  /\ \A k \in 2 .. Len(flat) : w[k - 1] < w[k] \/ (w[k - 1] = w[k] /\ i[k] = i[k - 1] + 1)
  /\ \A m \in 1 .. n : \A j \in 1 .. Len(s[m]) : \E k \in 1 .. Len(flat) : w[k] = m /\ i[k] = j

\* One more sequence at the end.
LEMMA LocatedNext ==
  ASSUME NEW S, NEW n \in Nat, NEW s, NEW flat \in Seq(S), NEW w, NEW i,
         Located(flat, s, n, w, i), s[n + 1] \in Seq(S)
  PROVE  \E v, h : Located(flat \o s[n + 1], s, n + 1, v, h)
<1> DEFINE L == Len(flat)
           M == Len(s[n + 1])
           longer == flat \o s[n + 1]
           v == [k \in 1 .. L + M |-> IF k <= L THEN w[k] ELSE n + 1]
           h == [k \in 1 .. L + M |-> IF k <= L THEN i[k] ELSE k - L]
<1>1. L \in Nat /\ M \in Nat
  OBVIOUS
<1>2. /\ Len(longer) = L + M
      /\ \A k \in 1 .. L + M : longer[k] = IF k <= L THEN flat[k] ELSE s[n + 1][k - L]
  BY ConcatProperties
<1>3. \A k \in 1 .. L : v[k] = w[k] /\ h[k] = i[k] /\ longer[k] = flat[k]
  <2> SUFFICES ASSUME NEW k \in 1 .. L PROVE v[k] = w[k] /\ h[k] = i[k] /\ longer[k] = flat[k]
    OBVIOUS
  <2>1. k \in 1 .. L + M /\ k <= L
    BY <1>1
  <2> HIDE DEF L, M, longer
  <2> QED BY <1>2, <2>1
<1>4. \A k \in L + 1 .. L + M : v[k] = n + 1 /\ h[k] = k - L /\ longer[k] = s[n + 1][k - L]
  <2> SUFFICES ASSUME NEW k \in L + 1 .. L + M
               PROVE  v[k] = n + 1 /\ h[k] = k - L /\ longer[k] = s[n + 1][k - L]
    OBVIOUS
  <2>1. k \in 1 .. L + M /\ ~(k <= L)
    BY <1>1
  <2> HIDE DEF L, M, longer
  <2> QED BY <1>2, <2>1
<1>5. \A k \in 1 .. L + M : k \in 1 .. L \/ k \in L + 1 .. L + M
  BY <1>1
<1>6. /\ \A k \in 1 .. L : w[k] \in 1 .. n /\ i[k] \in 1 .. Len(s[w[k]]) /\ flat[k] = s[w[k]][i[k]]
      /\ \A k, l \in 1 .. L : k < l => w[k] < w[l] \/ (w[k] = w[l] /\ i[k] < i[l])
      /\ \A k \in 2 .. L : w[k - 1] < w[k] \/ (w[k - 1] = w[k] /\ i[k] = i[k - 1] + 1)
      /\ \A m \in 1 .. n : \A j \in 1 .. Len(s[m]) : \E k \in 1 .. L : w[k] = m /\ i[k] = j
  BY DEF Located
<1> HIDE DEF L, M, longer, v, h
<1>7. \A k \in 1 .. L + M : /\ v[k] \in 1 .. n + 1 /\ h[k] \in 1 .. Len(s[v[k]])
                            /\ longer[k] = s[v[k]][h[k]]
  <2> SUFFICES ASSUME NEW k \in 1 .. L + M
               PROVE  /\ v[k] \in 1 .. n + 1 /\ h[k] \in 1 .. Len(s[v[k]])
                      /\ longer[k] = s[v[k]][h[k]]
    OBVIOUS
  <2>1. CASE k \in 1 .. L
    <3>1. v[k] = w[k] /\ h[k] = i[k] /\ longer[k] = flat[k]
      BY <1>3, <2>1
    <3>2. w[k] \in 1 .. n /\ i[k] \in 1 .. Len(s[w[k]]) /\ flat[k] = s[w[k]][i[k]]
      BY <1>6, <2>1
    <3>3. w[k] \in 1 .. n + 1
      BY <3>2
    <3> QED BY <3>1, <3>2, <3>3
  <2>2. CASE k \in L + 1 .. L + M
    <3>1. v[k] = n + 1 /\ h[k] = k - L /\ longer[k] = s[n + 1][k - L]
      BY <1>4, <2>2
    <3>2. k - L \in 1 .. M
      BY <1>1, <2>2
    <3> QED BY <3>1, <3>2 DEF M
  <2> QED BY <1>5, <2>1, <2>2
<1>8. \A k, l \in 1 .. L + M : k < l => v[k] < v[l] \/ (v[k] = v[l] /\ h[k] < h[l])
  <2> SUFFICES ASSUME NEW k \in 1 .. L + M, NEW l \in 1 .. L + M, k < l
               PROVE  v[k] < v[l] \/ (v[k] = v[l] /\ h[k] < h[l])
    OBVIOUS
  <2>1. CASE l \in 1 .. L
    <3>1. k \in 1 .. L
      BY <1>1, <2>1
    <3> QED BY <1>3, <1>6, <2>1, <3>1
  <2>2. CASE k \in 1 .. L /\ l \in L + 1 .. L + M
    <3>1. w[k] \in 1 .. n
      BY <1>6, <2>2
    <3>2. v[k] = w[k] /\ v[l] = n + 1
      BY <1>3, <1>4, <2>2
    <3> QED BY <3>1, <3>2
  <2>3. CASE k \in L + 1 .. L + M
    <3>1. l \in L + 1 .. L + M
      BY <1>1, <2>3
    <3>2. v[k] = n + 1 /\ v[l] = n + 1 /\ h[k] = k - L /\ h[l] = l - L
      BY <1>4, <2>3, <3>1
    <3> QED BY <1>1, <3>2
  <2> QED BY <1>5, <2>1, <2>2, <2>3
<1>9. \A k \in 2 .. L + M : v[k - 1] < v[k] \/ (v[k - 1] = v[k] /\ h[k] = h[k - 1] + 1)
  <2> SUFFICES ASSUME NEW k \in 2 .. L + M
               PROVE  v[k - 1] < v[k] \/ (v[k - 1] = v[k] /\ h[k] = h[k - 1] + 1)
    OBVIOUS
  <2>1. CASE k \in 1 .. L
    <3>1. k - 1 \in 1 .. L /\ k \in 2 .. L
      BY <1>1, <2>1
    <3>2. v[k - 1] = w[k - 1] /\ h[k - 1] = i[k - 1] /\ v[k] = w[k] /\ h[k] = i[k]
      BY <1>3, <2>1, <3>1
    <3> QED BY <1>6, <3>1, <3>2
  <2>2. CASE k - 1 \in 1 .. L /\ k \in L + 1 .. L + M
    <3>1. w[k - 1] \in 1 .. n
      BY <1>6, <2>2
    <3>2. v[k - 1] = w[k - 1] /\ v[k] = n + 1
      BY <1>3, <1>4, <2>2
    <3> QED BY <3>1, <3>2
  <2>3. CASE k - 1 \in L + 1 .. L + M
    <3>1. k \in L + 1 .. L + M
      BY <1>1, <2>3
    <3>2. v[k - 1] = n + 1 /\ v[k] = n + 1 /\ h[k - 1] = k - 1 - L /\ h[k] = k - L
      BY <1>4, <2>3, <3>1
    <3> QED BY <1>1, <3>2
  <2>4. k - 1 \in 1 .. L + M /\ k \in 1 .. L + M
    BY <1>1
  <2>5. (k - 1 \in 1 .. L /\ k \in L + 1 .. L + M) \/ k \in 1 .. L \/ k - 1 \in L + 1 .. L + M
    BY <1>5, <2>4
  <2> QED BY <2>1, <2>2, <2>3, <2>5
<1>10. \A m \in 1 .. n + 1 : \A j \in 1 .. Len(s[m]) : \E k \in 1 .. L + M : v[k] = m /\ h[k] = j
  <2> SUFFICES ASSUME NEW m \in 1 .. n + 1, NEW j \in 1 .. Len(s[m])
               PROVE  \E k \in 1 .. L + M : v[k] = m /\ h[k] = j
    OBVIOUS
  <2>1. CASE m \in 1 .. n
    <3>1. PICK k \in 1 .. L : w[k] = m /\ i[k] = j
      BY <1>6, <2>1
    <3>2. k \in 1 .. L + M
      BY <1>1
    <3> QED BY <1>3, <3>1, <3>2
  <2>2. CASE m = n + 1
    <3>1. j \in 1 .. M
      BY <2>2 DEF M
    <3> DEFINE k == L + j
    <3>2. k \in L + 1 .. L + M /\ k \in 1 .. L + M /\ k - L = j
      BY <1>1, <3>1
    <3> HIDE DEF k
    <3>3. v[k] = m /\ h[k] = j
      BY <1>4, <2>2, <3>2
    <3> QED BY <3>2, <3>3
  <2> QED BY <2>1, <2>2
<1>11. Len(longer) = L + M
  BY <1>2
<1>12. Located(longer, s, n + 1, v, h)
  BY <1>7, <1>8, <1>9, <1>10, <1>11 DEF Located
<1> QED BY <1>12 DEF longer

\* Every entry of a flattened sequence can be located.
LEMMA FlatLocated ==
  ASSUME NEW S, NEW N \in Nat \ {0}, NEW s, Len(s) = N, \A n \in 1 .. N : s[n] \in Seq(S)
  PROVE  /\ FlattenSeq(s) \in Seq(S)
         /\ \E w, i : Located(FlattenSeq(s), s, N, w, i)
<1>0. PICK f : Steps(f, s, N)
  BY FlatSteps
<1>1. /\ FlattenSeq(s) = f[N]
      /\ f[1] = s[1]
      /\ \A n \in 2 .. N : f[n] = f[n - 1] \o s[n]
  BY <1>0, Zenon DEF Steps
<1> DEFINE Good(n) == f[n] \in Seq(S) /\ \E w, i : Located(f[n], s, n, w, i)
           T == {n \in 1 .. N : ~Good(n)}
<1>2. Good(1)
  <2>1. s[1] \in Seq(S)
    OBVIOUS
  <2>2. Located(<<>>, s, 0, <<>>, <<>>)
    BY DEF Located
  <2>3. <<>> \in Seq(S) /\ <<>> \o s[1] = s[1]
    BY <2>1, ConcatEmptySeq
  <2>4. \E v, h : Located(<<>> \o s[1], s, 1, v, h)
    <3> DEFINE m == 0
    <3>1. m \in Nat /\ m + 1 = 1 /\ Located(<<>>, s, m, <<>>, <<>>)
      BY <2>2
    <3> HIDE DEF m
    <3>2. \E v, h : Located(<<>> \o s[m + 1], s, m + 1, v, h)
      BY <2>1, <2>3, <3>1, LocatedNext, Zenon
    <3> QED BY <3>1, <3>2
  <2> QED BY <1>1, <2>1, <2>3, <2>4
<1>3. ASSUME NEW n \in 2 .. N, Good(n - 1) PROVE Good(n)
  <2>1. PICK w, i : Located(f[n - 1], s, n - 1, w, i)
    BY <1>3
  <2>2. s[n] \in Seq(S) /\ n - 1 \in Nat /\ (n - 1) + 1 = n /\ f[n - 1] \in Seq(S)
    BY <1>3
  <2>3. \E v, h : Located(f[n - 1] \o s[n], s, n, v, h)
    <3> DEFINE m == n - 1
    <3>1. s[m + 1] \in Seq(S) /\ m \in Nat /\ f[m] \in Seq(S) /\ Located(f[m], s, m, w, i)
      BY <2>1, <2>2
    <3>2. \E v, h : Located(f[m] \o s[m + 1], s, m + 1, v, h)
      <4> HIDE DEF m
      <4> QED BY <3>1, LocatedNext, Zenon
    <3> QED BY <2>2, <3>2
  <2>4. f[n] = f[n - 1] \o s[n]
    BY <1>1, Zenon
  <2>5. f[n] \in Seq(S)
    BY <2>2, <2>4, ConcatProperties
  <2> QED BY <2>3, <2>4, <2>5
<1>4. T = {}
  <2> SUFFICES ASSUME T # {} PROVE FALSE
    OBVIOUS
  <2>1. PICK k \in T : \A j \in T : k <= j
    <3>1. T \in SUBSET Nat
      OBVIOUS
    <3> HIDE DEF T
    <3> QED BY <3>1, LeastNatural, Zenon
  <2>2. k \in 1 .. N /\ ~Good(k)
    BY <2>1
  <2>3. k # 1
    BY <1>2, <2>2
  <2>4. k \in 2 .. N /\ k - 1 \in 1 .. N /\ ~(k <= k - 1)
    BY <2>2, <2>3
  <2>5. Good(k - 1)
    BY <2>1, <2>4, Zenon
  <2> HIDE DEF Good
  <2> QED BY <1>3, <2>2, <2>4, <2>5
<1>5. Good(N)
  <2>1. N \in 1 .. N /\ N \notin T
    BY <1>4
  <2> HIDE DEF Good
  <2> QED BY <2>1
<1> QED BY <1>1, <1>5

\* One sequence more only appends it.
LEMMA FlatAppend ==
  ASSUME NEW S, NEW s \in Seq(Seq(S)), NEW x \in Seq(S)
  PROVE  FlattenSeq(Append(s, x)) = FlattenSeq(s) \o x
<1> DEFINE N == Len(s)
           t == Append(s, x)
<1>1. /\ N \in Nat /\ Len(t) = N + 1 /\ t[N + 1] = x
      /\ \A n \in 1 .. N : t[n] = s[n] /\ s[n] \in Seq(S)
  <2>1. N \in Nat /\ \A n \in 1 .. N : s[n] \in Seq(S)
    OBVIOUS
  <2>2. Len(t) = N + 1 /\ t[N + 1] = x /\ \A n \in 1 .. N : t[n] = s[n]
    BY AppendProperties
  <2> QED BY <2>1, <2>2
<1> HIDE DEF t
<1>0. PICK g : Steps(g, t, N + 1)
  <2> DEFINE M == N + 1
  <2>1. M \in Nat \ {0} /\ Len(t) = M
    BY <1>1
  <2> HIDE DEF M
  <2>2. \E g : Steps(g, t, M)
    BY <2>1, FlatSteps
  <2> QED BY <2>2 DEF M
<1>2. /\ FlattenSeq(t) = g[N + 1]
      /\ g[1] = t[1]
      /\ \A n \in 2 .. N + 1 : g[n] = g[n - 1] \o t[n]
  BY <1>0, Zenon DEF Steps
<1>3. CASE N = 0
  <2>1. s = <<>>
    BY <1>3
  <2>2. FlattenSeq(t) = x /\ FlattenSeq(s) = <<>>
    BY <1>1, <1>2, <1>3, <2>1, FlatEmpty
  <2> QED BY <2>2, ConcatEmptySeq DEF t
<1>4. CASE N # 0
  <2> HIDE DEF N
  <2>0. PICK f : Steps(f, s, N)
    <3>1. N \in Nat \ {0} /\ Len(s) = N
      BY <1>1, <1>4 DEF N
    <3> QED BY <3>1, FlatSteps
  <2>1. /\ FlattenSeq(s) = f[N]
        /\ f[1] = s[1]
        /\ \A n \in 2 .. N : f[n] = f[n - 1] \o s[n]
    BY <2>0, Zenon DEF Steps
  <2> DEFINE T == {n \in 1 .. N : f[n] # g[n]}
  <2>2. T = {}
    <3> SUFFICES ASSUME T # {} PROVE FALSE
      OBVIOUS
    <3>1. PICK k \in T : \A j \in T : k <= j
      <4>1. T \in SUBSET Nat
        BY <1>1
      <4> HIDE DEF T
      <4> QED BY <4>1, LeastNatural, Zenon
    <3>2. k \in 1 .. N /\ f[k] # g[k]
      BY <3>1
    <3>3. k # 1
      <4>1. 1 \in 1 .. N
        BY <1>1, <1>4
      <4> QED BY <1>1, <1>2, <2>1, <3>2, <4>1
    <3>4. k \in 2 .. N /\ k \in 2 .. N + 1 /\ k - 1 \in 1 .. N /\ ~(k <= k - 1)
      BY <1>1, <3>2, <3>3
    <3>5. f[k - 1] = g[k - 1]
      BY <3>1, <3>4
    <3>6. f[k] = f[k - 1] \o s[k] /\ g[k] = g[k - 1] \o t[k] /\ t[k] = s[k]
      BY <1>1, <1>2, <2>1, <3>2, <3>4, Zenon
    <3> QED BY <3>2, <3>5, <3>6
  <2>3. N \in 1 .. N /\ N + 1 \in 2 .. N + 1 /\ (N + 1) - 1 = N
    BY <1>1, <1>4
  <2>4. f[N] = g[N]
    BY <2>2, <2>3
  <2>5. g[N + 1] = g[N] \o x
    BY <1>1, <1>2, <2>3, Zenon
  <2> QED BY <1>2, <2>1, <2>4, <2>5 DEF t
<1> QED BY <1>3, <1>4

-----------------------------------------------------------------------------
(* Texts.                                                                  *)

\* What is left of a text once it is normalized.
Clean == Nat \cup {Newline, Period}
Text == Seq(Clean)

Rising(t) == \A m, n \in 1 .. Len(t) : m < n /\ t[m] > 0 /\ t[n] > 0 => t[m] < t[n]

\* A symbol occurs in t.
Has(t, c) == \E n \in 1 .. Len(t) : t[n] = c

LEMMA LettersAre ==
  ASSUME NEW t \in Seq(Symbols)
  PROVE  /\ Letters(t) \subseteq Nat \ {0}
         /\ \A c \in Nat \ {0} : c \in Letters(t) <=> Has(t, c)
<1>1. DOMAIN t = 1 .. Len(t) /\ \A n \in 1 .. Len(t) : t[n] \in Symbols
  OBVIOUS
<1>2. \A c \in Symbols : c > 0 <=> c \in Nat \ {0}
  BY DEF Symbols, Space, Newline, Period, Control
<1>3. \A c : c \in Letters(t) <=> \E n \in 1 .. Len(t) : t[n] > 0 /\ c = t[n]
  BY <1>1 DEF Letters
<1> HIDE DEF Letters
<1>4. \A c \in Nat \ {0} : c \in Symbols
  BY DEF Symbols
<1>5. \A c \in Letters(t) : c \in Nat \ {0}
  BY <1>1, <1>2, <1>3
<1>6. \A c \in Nat \ {0} : c \in Letters(t) <=> Has(t, c)
  BY <1>1, <1>2, <1>3, <1>4 DEF Has
<1> QED BY <1>5, <1>6

LEMMA TextsAreSymbols == /\ Clean \subseteq Symbols
                         /\ Text \subseteq Seq(Symbols)
                         /\ Space \in Clean /\ Newline \in Clean /\ Period \in Clean
                         /\ Period \notin White
                         /\ \A c \in Clean : c \in White \/ c = Period \/ c \in Nat \ {0}
                         /\ \A c \in Nat \ {0} : c \notin White /\ c \in Clean
<1>1. Clean \subseteq Symbols
  BY DEF Clean, Symbols
<1>2. Text \subseteq Seq(Symbols)
  BY <1>1, SeqMonotonic DEF Text
<1>3. /\ Space \in Clean /\ Newline \in Clean /\ Period \in Clean
      /\ Period \notin White
      /\ \A c \in Clean : c \in White \/ c = Period \/ c \in Nat \ {0}
      /\ \A c \in Nat \ {0} : c \notin White /\ c \in Clean
  BY DEF Clean, White, Space, Newline, Period
<1> QED BY <1>1, <1>2, <1>3

LEMMA BlankIs ==
  ASSUME NEW t \in Seq(Symbols)
  PROVE  Blank(t) <=> \A n \in 1 .. Len(t) : t[n] \in White
<1>1. DOMAIN t = 1 .. Len(t)
  OBVIOUS
<1> QED BY <1>1, Zenon DEF Blank

\* A text that is not blank has a period or a letter.
LEMMA SolidHas ==
  ASSUME NEW t \in Text, ~Blank(t)
  PROVE  Has(t, Period) \/ Letters(t) # {}
<1>1. t \in Seq(Symbols) /\ t \in Seq(Clean)
  BY TextsAreSymbols DEF Text
<1>2. PICK n \in 1 .. Len(t) : t[n] \notin White
  BY <1>1, BlankIs
<1>3. t[n] \in Clean
  BY <1>1
<1>4. t[n] = Period \/ t[n] \in Nat \ {0}
  BY <1>2, <1>3, TextsAreSymbols
<1>5. Has(t, t[n])
  BY DEF Has
<1> QED BY <1>1, <1>4, <1>5, LettersAre

\* A text that picks from another what is no space keeps its letters and their order.
LEMMA PicksKeep ==
  ASSUME NEW s \in Seq(Symbols), NEW t \in Seq(Symbols), NEW P, NEW g,
         Picks(g, s, t, P), P \subseteq 1 .. Len(t),
         \A n \in 1 .. Len(t) : t[n] > 0 => n \in P
  PROVE  /\ Letters(s) = Letters(t)
         /\ Rising(t) => Rising(s)
<1>1. /\ g \in [1 .. Len(s) -> P]
      /\ \A n \in 1 .. Len(s) : s[n] = t[g[n]]
      /\ \A m, n \in 1 .. Len(s) : m < n <=> g[m] < g[n]
      /\ \A i \in P : \E n \in 1 .. Len(s) : g[n] = i
  BY DEF Picks
<1>2. \A n \in 1 .. Len(s) : g[n] \in 1 .. Len(t)
  BY <1>1, Zenon
<1>3. \A c \in Nat \ {0} : Has(s, c) <=> Has(t, c)
  <2> SUFFICES ASSUME NEW c \in Nat \ {0} PROVE Has(s, c) <=> Has(t, c)
    OBVIOUS
  <2>1. Has(s, c) => Has(t, c)
    BY <1>1, <1>2 DEF Has
  <2>2. ASSUME Has(t, c) PROVE Has(s, c)
    <3>1. PICK i \in 1 .. Len(t) : t[i] = c
      BY <2>2 DEF Has
    <3>2. i \in P
      BY <3>1
    <3>3. PICK n \in 1 .. Len(s) : g[n] = i
      BY <1>1, <3>2
    <3> QED BY <1>1, <3>1, <3>3 DEF Has
  <2> QED BY <2>1, <2>2
<1>4. Letters(s) = Letters(t)
  <2>1. \A c \in Nat \ {0} : c \in Letters(s) <=> c \in Letters(t)
    BY <1>3, LettersAre
  <2>2. Letters(s) \subseteq Nat \ {0} /\ Letters(t) \subseteq Nat \ {0}
    BY LettersAre
  <2> QED BY <2>1, <2>2, Zenon
<1>5. Rising(t) => Rising(s)
  BY <1>1, <1>2 DEF Rising
<1> QED BY <1>4, <1>5

\* Nothing that is picked lies between two neighbours.
LEMMA PicksNext ==
  ASSUME NEW s, Len(s) \in Nat, NEW t, NEW P, P \subseteq Int, NEW g, Picks(g, s, t, P),
         NEW n \in 1 .. Len(s) - 1, NEW i \in P
  PROVE  g[n] < g[n + 1] /\ ~(g[n] < i /\ i < g[n + 1])
<1>1. n \in 1 .. Len(s) /\ n + 1 \in 1 .. Len(s) /\ n < n + 1
  OBVIOUS
<1>2. PICK m \in 1 .. Len(s) : g[m] = i
  BY Zenon DEF Picks
<1>3. /\ g[n] < g[n + 1]
      /\ n < m <=> g[n] < g[m]
      /\ m < n + 1 <=> g[m] < g[n + 1]
  BY <1>1 DEF Picks
<1>4. ~(n < m /\ m < n + 1)
  OBVIOUS
<1> QED BY <1>2, <1>3, <1>4

\* s is a contiguous part of t, from g[1] on.
Stretch(g, s, t) ==
  /\ \A n \in 1 .. Len(s) : g[n] \in 1 .. Len(t) /\ s[n] = t[g[n]]
  /\ \A n \in 1 .. Len(s) - 1 : g[n + 1] = g[n] + 1

\* strip: from the first symbol that is no white space to the last one.
LEMMA StripIs ==
  ASSUME NEW S \in {Clean, Symbols}, NEW t \in Seq(S)
  PROVE  /\ Stripped(t) \in Seq(S)
         /\ Len(Stripped(t)) <= Len(t)
         /\ Letters(Stripped(t)) = Letters(t)
         /\ Rising(t) => Rising(Stripped(t))
         /\ Has(t, Period) => Has(Stripped(t), Period)
         /\ \E g : Stretch(g, Stripped(t), t)
         /\ ~Blank(t) => /\ Len(Stripped(t)) # 0
                         /\ ~Blank(Stripped(t))
                         /\ Stripped(t)[1] \notin White
                         /\ Stripped(t)[Len(Stripped(t))] \notin White
         /\ Blank(t) => Len(Stripped(t)) = 0
<1> DEFINE solid == {i \in 1 .. Len(t) : t[i] \notin White}
           P == {i \in 1 .. Len(t) : \E a, b \in solid : a <= i /\ i <= b}
           s == Stripped(t)
<1>0. t \in Seq(Symbols) /\ S \subseteq Symbols
  BY TextsAreSymbols, SeqMonotonic
<1>1. DOMAIN t = 1 .. Len(t) /\ Len(t) \in Nat
  OBVIOUS
<1>2. s = At(t, P)
  BY <1>1, Zenon DEF Stripped
<1>3. s \in Seq(S) /\ Len(s) <= Len(t) /\ \E g : Picks(g, s, t, P)
  <2>1. P \subseteq 1 .. Len(t)
    OBVIOUS
  <2> HIDE DEF P, s
  <2> QED BY <1>2, <2>1, AtPicks, Zenon
<1>4. PICK g : Picks(g, s, t, P)
  BY <1>3, Zenon
<1>5. /\ g \in [1 .. Len(s) -> P]
      /\ \A n \in 1 .. Len(s) : s[n] = t[g[n]]
      /\ \A m, n \in 1 .. Len(s) : m < n <=> g[m] < g[n]
      /\ \A i \in P : \E n \in 1 .. Len(s) : g[n] = i
  BY <1>4, Zenon DEF Picks
<1>6. solid \subseteq P /\ P \subseteq 1 .. Len(t)
  <2> SUFFICES ASSUME NEW i \in solid PROVE i \in P
    BY Zenon
  <2>1. i <= i
    OBVIOUS
  <2> QED BY <2>1
<1>7. \A a, b \in P : \A i \in 1 .. Len(t) : a <= i /\ i <= b => i \in P
  <2> SUFFICES ASSUME NEW a \in P, NEW b \in P, NEW i \in 1 .. Len(t), a <= i, i <= b PROVE i \in P
    OBVIOUS
  <2>1. PICK c \in solid : c <= a
    OBVIOUS
  <2>2. PICK d \in solid : b <= d
    OBVIOUS
  <2>3. c \in Int /\ d \in Int /\ a \in Int /\ b \in Int
    BY <1>6
  <2>4. c <= i /\ i <= d
    BY <2>1, <2>2, <2>3
  <2> QED BY <2>4
<1>8. \A i \in P : \E a, b \in solid : a <= i /\ i <= b
  OBVIOUS
<1>9. \A i \in 1 .. Len(t) : t[i] > 0 => i \in P
  <2>1. \A i \in 1 .. Len(t) : t[i] > 0 => t[i] \notin White
    BY DEF White, Space, Newline
  <2> QED BY <1>6, <2>1
<1>10. \A i \in solid : t[i] \notin White /\ i \in 1 .. Len(t)
  OBVIOUS
<1>11. \A i \in 1 .. Len(t) : t[i] \notin White => i \in solid
  OBVIOUS
<1> HIDE DEF solid, P, s
<1>12. s \in Seq(Symbols) /\ Len(s) \in Nat
  BY <1>0, <1>3, SeqMonotonic
<1>13. Letters(s) = Letters(t) /\ (Rising(t) => Rising(s))
  BY <1>0, <1>4, <1>6, <1>9, <1>12, PicksKeep, Zenon
<1>14. \A n \in 1 .. Len(s) : g[n] \in 1 .. Len(t) /\ s[n] = t[g[n]] /\ g[n] \in P /\ g[n] \in Int
  <2> SUFFICES ASSUME NEW n \in 1 .. Len(s)
               PROVE  g[n] \in 1 .. Len(t) /\ s[n] = t[g[n]] /\ g[n] \in P /\ g[n] \in Int
    OBVIOUS
  <2>1. g[n] \in P /\ s[n] = t[g[n]]
    BY <1>5
  <2>2. g[n] \in 1 .. Len(t)
    BY <1>6, <2>1, Zenon
  <2> QED BY <2>1, <2>2
<1>15. ASSUME NEW n \in 1 .. Len(s) - 1 PROVE g[n + 1] = g[n] + 1
  <2>1. n \in 1 .. Len(s) /\ n + 1 \in 1 .. Len(s)
    BY <1>12
  <2>2. g[n] \in P /\ g[n + 1] \in P /\ g[n] \in Int /\ g[n + 1] \in Int
    BY <1>14, <2>1
  <2>3. P \subseteq Int
    BY <1>6
  <2>4. g[n] < g[n + 1] /\ \A i \in P : ~(g[n] < i /\ i < g[n + 1])
    BY <1>4, <1>12, <2>2, <2>3, PicksNext, Zenon
  <2>5. SUFFICES ASSUME g[n + 1] # g[n] + 1 PROVE FALSE
    OBVIOUS
  <2>6. g[n] <= g[n] + 1 /\ g[n] + 1 <= g[n + 1] /\ g[n] + 1 \in 1 .. Len(t)
    BY <1>14, <2>1, <2>2, <2>4
  <2>7. g[n] + 1 \in P
    BY <1>7, <2>2, <2>6
  <2> QED BY <2>2, <2>4, <2>5, <2>6, <2>7
<1>16. Has(t, Period) => Has(s, Period)
  <2> SUFFICES ASSUME NEW i \in 1 .. Len(t), t[i] = Period PROVE Has(s, Period)
    BY DEF Has
  <2>1. i \in P
    BY <1>6, <1>11, TextsAreSymbols
  <2>2. PICK n \in 1 .. Len(s) : g[n] = i
    BY <1>5, <2>1
  <2> QED BY <1>14, <2>2 DEF Has
<1>17. ASSUME ~Blank(t)
       PROVE  /\ Len(s) # 0 /\ ~Blank(s)
              /\ s[1] \notin White /\ s[Len(s)] \notin White
  <2>1. PICK i \in 1 .. Len(t) : t[i] \notin White
    BY <1>0, <1>17, BlankIs
  <2>2. i \in P
    BY <1>6, <1>11, <2>1
  <2>3. PICK n \in 1 .. Len(s) : g[n] = i
    BY <1>5, <2>2
  <2>4. 1 \in 1 .. Len(s) /\ Len(s) \in 1 .. Len(s)
    BY <1>12, <2>3
  <2>5. s[1] \notin White
    <3>1. PICK a \in solid : a <= g[1]
      BY <1>8, <1>14, <2>4
    <3>2. a \in P /\ t[a] \notin White /\ a \in Int
      BY <1>6, <1>10
    <3>3. PICK m \in 1 .. Len(s) : g[m] = a
      BY <1>5, <3>2
    <3>4. ~(g[1] < g[m]) \/ g[1] = g[m]
      BY <1>14, <2>4, <3>1, <3>3
    <3>5. ~(1 < m)
      BY <1>5, <1>14, <2>4, <3>1, <3>3
    <3>6. m = 1
      BY <3>5
    <3> QED BY <1>14, <2>4, <3>2, <3>3, <3>6
  <2>6. s[Len(s)] \notin White
    <3>1. PICK a \in solid : g[Len(s)] <= a
      BY <1>8, <1>14, <2>4
    <3>2. a \in P /\ t[a] \notin White /\ a \in Int
      BY <1>6, <1>10
    <3>3. PICK m \in 1 .. Len(s) : g[m] = a
      BY <1>5, <3>2
    <3>5. ~(m < Len(s))
      BY <1>5, <1>14, <2>4, <3>1, <3>3
    <3>6. m = Len(s)
      BY <1>12, <3>5
    <3> QED BY <1>14, <2>4, <3>2, <3>3, <3>6
  <2>7. ~Blank(s)
    BY <1>12, <2>4, <2>5, BlankIs
  <2>8. Len(s) # 0
    BY <1>12, <2>4
  <2> QED BY <2>5, <2>6, <2>7, <2>8
<1>18. Stretch(g, s, t)
  BY <1>14, <1>15 DEF Stretch
<1>19. ASSUME Blank(t) PROVE Len(s) = 0
  <2> SUFFICES ASSUME Len(s) # 0 PROVE FALSE
    OBVIOUS
  <2>1. 1 \in 1 .. Len(s)
    BY <1>12
  <2>2. g[1] \in P
    BY <1>14, <2>1
  <2>3. PICK a \in solid : a <= g[1]
    BY <1>8, <2>2
  <2> QED BY <1>0, <1>10, <1>19, <2>3, BlankIs
<1> QED BY <1>3, <1>13, <1>16, <1>17, <1>18, <1>19 DEF s

-----------------------------------------------------------------------------
(* Normalization.                                                          *)

\* White space of a text: a space stands before a symbol, and there are no more than
\* two line breaks in a row.
Spaced(t) == \A n \in 1 .. Len(t) - 1 : t[n] = Space => t[n + 1] \notin White
TwoBreaks(t) == \A n \in 1 .. Len(t) - 2 : ~(t[n] = Newline /\ t[n + 1] = Newline /\ t[n + 2] = Newline)
Ends(t) == Len(t) # 0 => t[Len(t)] \notin White

LEMMA StretchKeeps ==
  ASSUME NEW s \in Text, NEW t \in Text, NEW g, Stretch(g, s, t)
  PROVE  /\ Spaced(t) => Spaced(s)
         /\ TwoBreaks(t) => TwoBreaks(s)
<1>1. Len(s) \in Nat /\ Len(t) \in Nat
  BY DEF Text
<1>2. ASSUME Spaced(t) PROVE Spaced(s)
  <2> SUFFICES ASSUME NEW n \in 1 .. Len(s) - 1, s[n] = Space PROVE s[n + 1] \notin White
    BY DEF Spaced
  <2>1. n \in 1 .. Len(s) /\ n + 1 \in 1 .. Len(s)
    BY <1>1
  <2>2. /\ g[n] \in 1 .. Len(t) /\ g[n + 1] \in 1 .. Len(t) /\ g[n + 1] = g[n] + 1
        /\ s[n] = t[g[n]] /\ s[n + 1] = t[g[n + 1]]
    BY <2>1 DEF Stretch
  <2>3. g[n] \in 1 .. Len(t) - 1
    BY <1>1, <2>2
  <2> QED BY <1>2, <2>2, <2>3, Zenon DEF Spaced
<1>3. ASSUME TwoBreaks(t) PROVE TwoBreaks(s)
  <2> SUFFICES ASSUME NEW n \in 1 .. Len(s) - 2
               PROVE ~(s[n] = Newline /\ s[n + 1] = Newline /\ s[n + 2] = Newline)
    BY DEF TwoBreaks
  <2>1. /\ n \in 1 .. Len(s) /\ n + 1 \in 1 .. Len(s) /\ n + 2 \in 1 .. Len(s)
        /\ n \in 1 .. Len(s) - 1 /\ n + 1 \in 1 .. Len(s) - 1 /\ (n + 1) + 1 = n + 2
    BY <1>1
  <2>2. /\ g[n] \in 1 .. Len(t) /\ g[n + 1] = g[n] + 1
        /\ g[n + 2] = g[n + 1] + 1 /\ g[n + 2] \in 1 .. Len(t)
        /\ s[n] = t[g[n]] /\ s[n + 1] = t[g[n + 1]] /\ s[n + 2] = t[g[n + 2]]
    BY <2>1 DEF Stretch
  <2>3. g[n] \in 1 .. Len(t) - 2 /\ g[n + 2] = g[n] + 2
    BY <1>1, <2>2
  <2> QED BY <1>3, <2>2, <2>3, Zenon DEF TwoBreaks
<1> QED BY <1>2, <1>3

LEMMA PairCounts ==
  ASSUME NEW a, NEW b, a # b
  PROVE  Cardinality({a, b}) = 2
<1>1. IsFiniteSet({a}) /\ Cardinality({a}) = 1
  BY FS_Singleton, Zenon
<1>2. Cardinality({a} \cup {b}) = Cardinality({a}) + 1
  <2>1. b \notin {a}
    OBVIOUS
  <2> QED BY <1>1, <2>1, FS_AddElement
<1>3. {a} \cup {b} = {a, b}
  OBVIOUS
<1> QED BY <1>1, <1>2, <1>3

\* What the normalizer makes of a text.
LEMMA NormalizedIs ==
  ASSUME NEW raw \in Seq(Symbols)
  PROVE  /\ Normalized(raw) \in Text
         /\ Letters(Normalized(raw)) = Letters(raw)
         /\ Rising(raw) => Rising(Normalized(raw))
         /\ Spaced(Normalized(raw)) /\ TwoBreaks(Normalized(raw)) /\ Ends(Normalized(raw))
<1> DEFINE P == {i \in DOMAIN raw : raw[i] # Control}
           t == At(raw, P)
           Kept1(i) == /\ t[i] = Space => i < Len(t) /\ t[i + 1] \notin White
                       /\ t[i] = Newline => Cardinality({j \in WhiteBefore(t, i) : t[j] = Newline}) < 2
           K == {i \in DOMAIN t : Kept1(i)}
           u == At(t, K)
           s == Stripped(u)
<1>1. Normalized(raw) = s
  BY Zenon DEF Normalized
<1>2. P \subseteq 1 .. Len(raw) /\ \A i \in P : raw[i] # Control
  OBVIOUS
<1>3. \A i \in 1 .. Len(raw) : raw[i] > 0 => i \in P
  BY DEF Control
<1> HIDE DEF P
<1>4. t \in Seq(Symbols) /\ \E g : Picks(g, t, raw, P)
  BY <1>2, AtPicks, Zenon
<1>5. PICK g : Picks(g, t, raw, P)
  BY <1>4
<1> HIDE DEF t
<1>6. Letters(t) = Letters(raw) /\ (Rising(raw) => Rising(t))
  BY <1>2, <1>3, <1>4, <1>5, PicksKeep, Zenon
<1>7. t \in Seq(Clean) /\ Len(t) \in Nat
  <2>1. t \in [1 .. Len(t) -> Symbols] /\ Len(t) \in Nat
    BY <1>4
  <2>2. ASSUME NEW n \in 1 .. Len(t) PROVE t[n] \in Clean
    <3>1. g[n] \in P /\ t[n] = raw[g[n]]
      BY <1>5 DEF Picks
    <3>2. t[n] # Control /\ t[n] \in Symbols
      BY <1>2, <2>1, <3>1, Zenon
    <3> QED BY <3>2 DEF Clean, Symbols, Space
  <2>3. t \in [1 .. Len(t) -> Clean]
    BY <2>1, <2>2
  <2> QED BY <2>1, <2>3
<1>8. DOMAIN t = 1 .. Len(t)
  BY <1>7
<1>9. K \subseteq 1 .. Len(t) /\ \A i \in 1 .. Len(t) : i \in K <=> Kept1(i)
  BY <1>8
<1>10. \A i \in 1 .. Len(t) : t[i] \notin White => i \in K
  BY <1>9 DEF White
<1>11. \A i \in K : t[i] = Space => i + 1 \in K
  <2> SUFFICES ASSUME NEW i \in K, t[i] = Space PROVE i + 1 \in K
    BY Zenon
  <2>1. i < Len(t) /\ t[i + 1] \notin White /\ i \in 1 .. Len(t)
    BY <1>9
  <2> HIDE DEF K
  <2>2. i + 1 \in 1 .. Len(t)
    BY <1>7, <2>1
  <2> QED BY <1>10, <2>1, <2>2
<1>12. \A i \in K : t[i] = Space => t[i + 1] \notin White
  BY <1>9
<1>13. \A i \in K : t[i] = Newline => Cardinality({j \in WhiteBefore(t, i) : t[j] = Newline}) < 2
  BY <1>9
<1> HIDE DEF K
<1>14. u \in Seq(Clean) /\ \E h : Picks(h, u, t, K)
  BY <1>7, <1>9, AtPicks, Zenon
<1>15. PICK h : Picks(h, u, t, K)
  BY <1>14
<1> HIDE DEF u
<1>16. /\ Len(u) \in Nat
       /\ \A n \in 1 .. Len(u) : /\ h[n] \in K /\ h[n] \in 1 .. Len(t) /\ u[n] = t[h[n]]
  <2>1. Len(u) \in Nat
    BY <1>14
  <2>2. \A n \in 1 .. Len(u) : h[n] \in K /\ u[n] = t[h[n]]
    BY <1>15 DEF Picks
  <2> QED BY <1>9, <2>1, <2>2, Zenon
<1>17. \A n \in 1 .. Len(u) - 1 : h[n] < h[n + 1] /\ \A i \in K : ~(h[n] < i /\ i < h[n + 1])
  <2>1. K \subseteq Int
    BY <1>9
  <2>2. ASSUME NEW n \in 1 .. Len(u) - 1
        PROVE  h[n] < h[n + 1] /\ \A i \in K : ~(h[n] < i /\ i < h[n + 1])
    <3>1. n \in 1 .. Len(u)
      BY <1>16
    <3>2. K # {}
      BY <1>16, <3>1
    <3>3. \A i \in K : h[n] < h[n + 1] /\ ~(h[n] < i /\ i < h[n + 1])
      BY <1>15, <1>16, <2>1, PicksNext, Zenon
    <3> QED BY <3>2, <3>3
  <2> QED BY <2>2
<1>18. u \in Seq(Symbols)
  BY <1>14, TextsAreSymbols, SeqMonotonic
<1>19. Letters(u) = Letters(t) /\ (Rising(t) => Rising(u))
  <2>1. \A i \in 1 .. Len(t) : t[i] > 0 => i \in K
    <3>1. \A i \in 1 .. Len(t) : t[i] > 0 => t[i] \notin White
      BY DEF White, Space, Newline
    <3> QED BY <1>10, <3>1
  <2> QED BY <1>4, <1>9, <1>15, <1>18, <2>1, PicksKeep, Zenon
<1>20. Spaced(u)
  <2> SUFFICES ASSUME NEW n \in 1 .. Len(u) - 1, u[n] = Space PROVE u[n + 1] \notin White
    BY DEF Spaced
  <2>1. n \in 1 .. Len(u) /\ n + 1 \in 1 .. Len(u)
    BY <1>16
  <2>2. h[n] \in K /\ t[h[n]] = Space /\ h[n] \in 1 .. Len(t) /\ h[n + 1] \in 1 .. Len(t)
    BY <1>16, <2>1
  <2>3. h[n] + 1 \in K /\ t[h[n] + 1] \notin White
    BY <1>11, <1>12, <2>2
  <2>4. h[n + 1] = h[n] + 1
    <3>1. h[n] < h[n + 1] /\ ~(h[n] < h[n] + 1 /\ h[n] + 1 < h[n + 1])
      BY <1>17, <2>3
    <3> QED BY <2>2, <3>1
  <2> QED BY <1>16, <2>1, <2>3, <2>4
<1>21. TwoBreaks(u)
  <2> SUFFICES ASSUME NEW n \in 1 .. Len(u) - 2,
                      u[n] = Newline, u[n + 1] = Newline, u[n + 2] = Newline
               PROVE  FALSE
    BY DEF TwoBreaks
  <2> DEFINE a == h[n]
             b == h[n + 1]
             c == h[n + 2]
             B == {j \in WhiteBefore(t, c) : t[j] = Newline}
  <2>1. /\ n \in 1 .. Len(u) /\ n + 1 \in 1 .. Len(u) /\ n + 2 \in 1 .. Len(u)
        /\ n \in 1 .. Len(u) - 1 /\ n + 1 \in 1 .. Len(u) - 1 /\ (n + 1) + 1 = n + 2
    BY <1>16
  <2>2. /\ a \in 1 .. Len(t) /\ b \in 1 .. Len(t) /\ c \in 1 .. Len(t) /\ c \in K
        /\ t[a] = Newline /\ t[b] = Newline /\ t[c] = Newline
    BY <1>16, <2>1, Zenon
  <2>3. /\ a < b /\ b < c
        /\ \A i \in K : ~(a < i /\ i < b) /\ ~(b < i /\ i < c)
    BY <1>17, <2>1
  <2> HIDE DEF a, b, c
  <2>4. \A k \in a .. c - 1 : t[k] \in White
    <3> SUFFICES ASSUME NEW k \in a .. c - 1, t[k] \notin White PROVE FALSE
      OBVIOUS
    <3>1. k \in 1 .. Len(t)
      BY <1>7, <2>2
    <3>2. k \in K
      BY <1>10, <3>1
    <3>3. k = a \/ k = b
      BY <2>2, <2>3, <3>1, <3>2
    <3> QED BY <2>2, <3>3 DEF White
  <2>5. WhiteBefore(t, c) = {j \in 1 .. c - 1 : \A k \in j .. c - 1 : t[k] \in White}
    BY DEF WhiteBefore
  <2>6. a \in 1 .. c - 1 /\ b \in 1 .. c - 1 /\ \A k \in b .. c - 1 : k \in a .. c - 1
    BY <2>2, <2>3
  <2>7. a \in B /\ b \in B
    BY <2>2, <2>4, <2>5, <2>6, Zenon
  <2>8. IsFiniteSet(B) /\ Cardinality({a, b}) <= Cardinality(B)
    <3>1. B \subseteq 1 .. c - 1 /\ {a, b} \subseteq B
      BY <2>5, <2>7
    <3>2. IsFiniteSet(1 .. c - 1)
      BY <2>2, Counting
    <3> HIDE DEF B
    <3> QED BY <3>1, <3>2, FS_Subset, Zenon
  <2>9. Cardinality({a, b}) = 2
    <3>1. a # b
      BY <2>2, <2>3
    <3> QED BY <3>1, PairCounts, Zenon
  <2>10. Cardinality(B) < 2
    BY <1>13, <2>2
  <2> HIDE DEF B
  <2>11. Cardinality(B) \in Nat
    BY <2>8, FS_CardinalityType
  <2> QED BY <2>8, <2>9, <2>10, <2>11
<1>22. /\ s \in Seq(Clean)
       /\ Letters(s) = Letters(u)
       /\ Rising(u) => Rising(s)
       /\ \E k : Stretch(k, s, u)
       /\ ~Blank(u) => s[Len(s)] \notin White
       /\ Blank(u) => Len(s) = 0
  BY <1>14, StripIs
<1> HIDE DEF s
<1>23. s \in Text /\ u \in Text
  BY <1>14, <1>22 DEF Text
<1>24. Spaced(s) /\ TwoBreaks(s)
  BY <1>20, <1>21, <1>22, <1>23, StretchKeeps
<1>25. Ends(s)
  BY <1>22 DEF Ends
<1> QED BY <1>1, <1>6, <1>19, <1>22, <1>23, <1>24, <1>25

-----------------------------------------------------------------------------
(* The parts between separators.                                           *)

LEMMA SubSeqIs ==
  ASSUME NEW S, NEW t \in Seq(S), NEW a \in 1 .. Len(t) + 1, NEW b \in 0 .. Len(t)
  PROVE  /\ SubSeq(t, a, b) \in Seq(S)
         /\ a <= b => Len(SubSeq(t, a, b)) = b - a + 1
         /\ ~(a <= b) => SubSeq(t, a, b) = <<>> /\ Len(SubSeq(t, a, b)) = 0
         /\ \A n \in 1 .. Len(SubSeq(t, a, b)) : SubSeq(t, a, b)[n] = t[a + n - 1]
         /\ \A n \in 1 .. Len(SubSeq(t, a, b)) : a + n - 1 \in a .. b /\ a + n - 1 \in 1 .. Len(t)
<1>1. Len(t) \in Nat
  OBVIOUS
<1>2. CASE a <= b
  <2>1. /\ SubSeq(t, a, b) \in Seq(S)
        /\ Len(SubSeq(t, a, b)) = b - a + 1
        /\ \A n \in 1 .. b - a + 1 : SubSeq(t, a, b)[n] = t[a + n - 1]
    <3>1. \A n \in a .. b : t[n] \in S
      BY <1>1
    <3> QED BY <1>1, <1>2, <3>1, SubSeqProperties
  <2> QED BY <1>1, <1>2, <2>1
<1>3. CASE ~(a <= b)
  <2>1. SubSeq(t, a, b) = <<>>
    BY <1>1, <1>3, SubSeqEmpty
  <2> QED BY <1>3, <2>1
<1> QED BY <1>2, <1>3

\* The separator stands at i.
Occurs(t, separator, i) ==
  /\ i \in 1 .. Len(t) - Len(separator) + 1
  /\ \A j \in 1 .. Len(separator) : t[i + j - 1] = separator[j]

LEMMA StartsAre ==
  ASSUME NEW t \in Seq(Symbols), NEW separator \in Seq(Symbols)
  PROVE  \A i : i \in Starts(t, separator) <=> Occurs(t, separator, i)
<1> DEFINE q == Len(separator)
<1>1. Len(t) \in Nat /\ q \in Nat
  OBVIOUS
<1> SUFFICES ASSUME NEW i \in 1 .. Len(t) - q + 1
             PROVE  /\ SubSeq(t, i, i + q - 1) = separator
                       <=> \A j \in 1 .. q : t[i + j - 1] = separator[j]
  BY Zenon DEF Starts, Occurs
<1>2. /\ i \in 1 .. Len(t) + 1 /\ i + q - 1 \in 0 .. Len(t)
      /\ i <= i + q - 1 <=> q # 0
      /\ (i + q - 1) - i + 1 = q
  BY <1>1
<1> DEFINE b == i + q - 1
           s == SubSeq(t, i, b)
<1>3. s \in Seq(Symbols) /\ Len(s) = q /\ \A n \in 1 .. q : s[n] = t[i + n - 1]
  <2>1. b \in 0 .. Len(t) /\ i \in 1 .. Len(t) + 1
    BY <1>2
  <2> HIDE DEF b, q
  <2>2. /\ s \in Seq(Symbols)
        /\ i <= b => Len(s) = b - i + 1
        /\ ~(i <= b) => Len(s) = 0
        /\ \A n \in 1 .. Len(s) : s[n] = t[i + n - 1]
    BY <2>1, SubSeqIs
  <2>3. Len(s) = q
    BY <1>1, <1>2, <2>2 DEF b
  <2> QED BY <2>2, <2>3, Zenon
<1>4. s = separator <=> \A j \in 1 .. q : s[j] = separator[j]
  <2> HIDE DEF s
  <2>1. Len(s) = Len(separator) /\ \A j \in 1 .. q : s[j] = separator[j] <=> s[j] = separator[j]
    BY <1>3
  <2>2. ASSUME \A j \in 1 .. q : s[j] = separator[j] PROVE s = separator
    BY <1>3, <2>1, <2>2, SeqEqual
  <2> QED BY <2>2
<1> HIDE DEF s, q
<1> QED BY <1>3, <1>4, Zenon DEF s, b

\* What is found between separators: it is not empty, begins and ends where the text
\* does or a separator stands, and has none inside.
Piece(t, separator, a, b) ==
  /\ a \in 1 .. Len(t) /\ b \in a .. Len(t)
  /\ a = 1 \/ Occurs(t, separator, a - Len(separator))
  /\ b = Len(t) \/ Occurs(t, separator, b + 1)
  /\ IF separator = <<>> THEN a = b
     ELSE \A i \in a .. b - Len(separator) + 1 : ~Occurs(t, separator, i)

\* The parts of t, at from to upto.
Slices(parts, t, separator, from, upto) ==
  /\ \A n \in 1 .. Len(parts) :
       /\ from[n] \in 1 .. Len(t) + 1 /\ upto[n] \in 0 .. Len(t)
       /\ parts[n] = SubSeq(t, from[n], upto[n])
       /\ from[n] <= upto[n] => Piece(t, separator, from[n], upto[n]) /\ (n # 1 => from[n] # 1)
  /\ \A m, n \in 1 .. Len(parts) : m < n => upto[m] < from[n]
  /\ \A i \in 1 .. Len(t) : t[i] > 0 => \E n \in 1 .. Len(parts) : i \in from[n] .. upto[n]

LEMMA SymbolsApart ==
  ASSUME NEW t \in Seq(Symbols)
  PROVE  /\ Parts(t, <<>>) \in Seq(Seq(Symbols))
         /\ \E from, upto : Slices(Parts(t, <<>>), t, <<>>, from, upto)
<1> DEFINE p == Parts(t, <<>>)
           id == [n \in 1 .. Len(t) |-> n]
<1>1. DOMAIN t = 1 .. Len(t) /\ Len(t) \in Nat /\ \A n \in 1 .. Len(t) : t[n] \in Symbols
  OBVIOUS
<1>2. p = [n \in 1 .. Len(t) |-> <<t[n]>>]
  BY <1>1 DEF Parts
<1>3. p \in Seq(Seq(Symbols)) /\ Len(p) = Len(t)
  <2>1. \A n \in 1 .. Len(t) : <<t[n]>> \in Seq(Symbols)
    BY <1>1
  <2>2. p \in [1 .. Len(t) -> Seq(Symbols)]
    BY <1>2, <2>1, Zenon
  <2> HIDE DEF p
  <2> QED BY <1>1, <2>2
<1>4. ASSUME NEW n \in 1 .. Len(t)
      PROVE  p[n] = SubSeq(t, n, n) /\ Piece(t, <<>>, n, n)
  <2>1. SubSeq(t, n, n) = <<t[n]>>
    <3>1. n \in 1 .. Len(t) + 1 /\ n \in 0 .. Len(t) /\ n <= n
      BY <1>1
    <3>2. /\ SubSeq(t, n, n) \in Seq(Symbols) /\ Len(SubSeq(t, n, n)) = n - n + 1
          /\ \A i \in 1 .. Len(SubSeq(t, n, n)) : SubSeq(t, n, n)[i] = t[n + i - 1]
      BY <3>1, SubSeqIs
    <3>3. <<t[n]>> \in Seq(Symbols) /\ Len(<<t[n]>>) = 1 /\ <<t[n]>>[1] = t[n]
      BY <1>1
    <3>4. Len(SubSeq(t, n, n)) = 1 /\ SubSeq(t, n, n)[1] = t[n]
      BY <1>1, <3>2
    <3>5. \A i \in 1 .. Len(SubSeq(t, n, n)) : SubSeq(t, n, n)[i] = <<t[n]>>[i]
      BY <3>3, <3>4
    <3> QED BY <3>2, <3>3, <3>4, <3>5, SeqEqual, Zenon
  <2>2. Occurs(t, <<>>, n) /\ Occurs(t, <<>>, n + 1)
    BY <1>1 DEF Occurs
  <2>3. n - Len(<<>>) = n /\ n + 1 \in Int
    BY <1>1
  <2>4. Piece(t, <<>>, n, n)
    <3>1. n \in 1 .. Len(t) /\ n \in n .. Len(t)
      BY <1>1
    <3> QED BY <2>2, <2>3, <3>1 DEF Piece
  <2> QED BY <1>2, <2>1, <2>4
<1> HIDE DEF p
<1>5. Slices(p, t, <<>>, id, id)
  BY <1>1, <1>3, <1>4 DEF Slices
<1> QED BY <1>3, <1>5 DEF p

LEMMA PartsApart ==
  ASSUME NEW t \in Seq(Symbols), NEW separator \in Seq(Symbols), separator # <<>>,
         \A j \in 1 .. Len(separator) : ~(separator[j] > 0)
  PROVE  /\ Parts(t, separator) \in Seq(Seq(Symbols))
         /\ \E from, upto : Slices(Parts(t, separator), t, separator, from, upto)
<1> DEFINE C == Starts(t, separator)
           M == Cardinality(C)
           q == Len(separator)
           cuts == InOrder(C)
           begin(n) == IF n = 1 THEN 1 ELSE cuts[n - 1] + Len(separator)
           end(n) == IF n > Len(cuts) THEN Len(t) ELSE cuts[n] - 1
           from == [n \in 1 .. M + 1 |-> IF n = 1 THEN 1 ELSE cuts[n - 1] + q]
           upto == [n \in 1 .. M + 1 |-> IF n > M THEN Len(t) ELSE cuts[n] - 1]
           p == Parts(t, separator)
<1>1. Len(t) \in Nat /\ q \in Nat \ {0}
  <2>1. Len(t) \in Nat /\ q \in Nat
    OBVIOUS
  <2>2. q # 0
    BY EmptySeq
  <2> QED BY <2>1, <2>2
<1>2. \A i : i \in C <=> Occurs(t, separator, i)
  BY StartsAre
<1>3. C \subseteq 1 .. Len(t) - q + 1
  BY <1>2 DEF Occurs
<1>4. /\ M \in Nat
      /\ cuts \in [1 .. M -> C]
      /\ \A i \in C : \E n \in 1 .. M : cuts[n] = i
      /\ \A m, n \in 1 .. M : m < n <=> cuts[m] < cuts[n]
  <2>1. C \subseteq Nat
    BY <1>3
  <2>2. IsFiniteSet(C)
    <3>1. Len(t) - q + 1 \in Int
      BY <1>1
    <3>2. IsFiniteSet(1 .. Len(t) - q + 1)
      BY <3>1, FS_Interval
    <3>3. \A B : B \subseteq 1 .. Len(t) - q + 1 => IsFiniteSet(B)
      BY <3>2, FS_Subset, Zenon
    <3> HIDE DEF C, q
    <3> QED BY <1>3, <3>3, Zenon
  <2> HIDE DEF C
  <2> QED BY <2>1, <2>2, InOrderLists, Zenon
<1>5. p = [n \in 1 .. Len(cuts) + 1 |-> SubSeq(t, begin(n), end(n))]
  BY Zenon DEF Parts
<1> HIDE DEF C, M, cuts, p, q
<1>6. Len(cuts) = M
  BY <1>4
<1>7. \A n \in 1 .. M : cuts[n] \in 1 .. Len(t) - q + 1 /\ cuts[n] \in Int /\ Occurs(t, separator, cuts[n])
  <2> SUFFICES ASSUME NEW n \in 1 .. M
               PROVE  cuts[n] \in 1 .. Len(t) - q + 1 /\ cuts[n] \in Int /\ Occurs(t, separator, cuts[n])
    OBVIOUS
  <2>1. cuts[n] \in C
    BY <1>4
  <2>2. Occurs(t, separator, cuts[n])
    BY <1>2, <2>1
  <2>3. cuts[n] \in 1 .. Len(t) - q + 1
    BY <1>3, <2>1, Zenon
  <2> QED BY <1>1, <2>2, <2>3
<1>8. /\ from[1] = 1 /\ upto[M + 1] = Len(t)
      /\ \A n \in 1 .. M : from[n + 1] = cuts[n] + q /\ upto[n] = cuts[n] - 1
  <2>1. 1 \in 1 .. M + 1 /\ M + 1 \in 1 .. M + 1 /\ M + 1 > M
    BY <1>4
  <2>2. ASSUME NEW n \in 1 .. M PROVE from[n + 1] = cuts[n] + q /\ upto[n] = cuts[n] - 1
    <3>1. n + 1 \in 1 .. M + 1 /\ n \in 1 .. M + 1 /\ n + 1 # 1 /\ (n + 1) - 1 = n /\ ~(n > M)
      BY <1>4
    <3> QED BY <3>1
  <2> QED BY <2>1, <2>2, Zenon
<1>9. \A n \in 1 .. M + 1 : begin(n) = from[n] /\ end(n) = upto[n]
  BY <1>6 DEF q
<1>10. p = [n \in 1 .. M + 1 |-> SubSeq(t, from[n], upto[n])]
  <2>1. p = [n \in 1 .. M + 1 |-> SubSeq(t, begin(n), end(n))]
    BY <1>5, <1>6
  <2> HIDE DEF begin, end, from, upto
  <2> QED BY <1>9, <2>1, Zenon
<1> HIDE DEF begin, end, from, upto
<1>11. \A n \in 1 .. M + 1 : n = 1 \/ (n - 1 \in 1 .. M /\ (n - 1) + 1 = n)
  BY <1>4
<1>12. \A n \in 1 .. M + 1 : n = M + 1 \/ n \in 1 .. M
  BY <1>4
<1>13. ASSUME NEW n \in 1 .. M + 1
       PROVE  from[n] \in 1 .. Len(t) + 1 /\ upto[n] \in 0 .. Len(t)
  <2>1. from[n] \in 1 .. Len(t) + 1
    <3>1. CASE n = 1
      BY <1>1, <1>8, <3>1
    <3>2. CASE n - 1 \in 1 .. M /\ (n - 1) + 1 = n
      <4>1. from[n] = cuts[n - 1] + q /\ cuts[n - 1] \in 1 .. Len(t) - q + 1
        BY <1>7, <1>8, <3>2
      <4> QED BY <1>1, <4>1
    <3> QED BY <1>11, <3>1, <3>2
  <2>2. upto[n] \in 0 .. Len(t)
    <3>1. CASE n = M + 1
      BY <1>1, <1>8, <3>1
    <3>2. CASE n \in 1 .. M
      <4>1. upto[n] = cuts[n] - 1 /\ cuts[n] \in 1 .. Len(t) - q + 1
        BY <1>7, <1>8, <3>2
      <4> QED BY <1>1, <4>1
    <3> QED BY <1>12, <3>1, <3>2
  <2> QED BY <2>1, <2>2
<1>14. p \in Seq(Seq(Symbols)) /\ Len(p) = M + 1
  <2>1. \A n \in 1 .. M + 1 : SubSeq(t, from[n], upto[n]) \in Seq(Symbols)
    BY <1>13, SubSeqIs
  <2>2. p \in [1 .. M + 1 -> Seq(Symbols)]
    BY <1>10, <2>1
  <2> QED BY <1>4, <2>2
<1>15. \A m, n \in 1 .. M + 1 : m < n => upto[m] < from[n]
  <2> SUFFICES ASSUME NEW m \in 1 .. M + 1, NEW n \in 1 .. M + 1, m < n PROVE upto[m] < from[n]
    OBVIOUS
  <2>1. m \in 1 .. M /\ n - 1 \in 1 .. M /\ (n - 1) + 1 = n /\ m <= n - 1
    BY <1>4
  <2>2. upto[m] = cuts[m] - 1 /\ from[n] = cuts[n - 1] + q
    BY <1>8, <2>1
  <2>3. cuts[m] <= cuts[n - 1] /\ cuts[m] \in Int /\ cuts[n - 1] \in Int
    BY <1>4, <1>7, <2>1
  <2> QED BY <1>1, <2>2, <2>3
<1>16. ASSUME NEW n \in 1 .. M + 1, from[n] <= upto[n]
       PROVE  Piece(t, separator, from[n], upto[n]) /\ (n # 1 => from[n] # 1)
  <2>1. from[n] \in 1 .. Len(t) /\ upto[n] \in from[n] .. Len(t)
    BY <1>1, <1>13, <1>16
  <2>2. n # 1 => Occurs(t, separator, from[n] - Len(separator)) /\ from[n] # 1
    <3> SUFFICES ASSUME n # 1 PROVE Occurs(t, separator, from[n] - Len(separator)) /\ from[n] # 1
      OBVIOUS
    <3>1. n - 1 \in 1 .. M /\ (n - 1) + 1 = n
      BY <1>11
    <3>2. from[n] = cuts[n - 1] + q /\ cuts[n - 1] \in 1 .. Len(t) - q + 1 /\ Occurs(t, separator, cuts[n - 1])
      BY <1>7, <1>8, <3>1
    <3>3. from[n] - q = cuts[n - 1] /\ from[n] # 1
      BY <1>1, <3>2
    <3> QED BY <3>2, <3>3 DEF q
  <2>3. n # M + 1 => Occurs(t, separator, upto[n] + 1)
    <3> SUFFICES ASSUME n # M + 1 PROVE Occurs(t, separator, upto[n] + 1)
      OBVIOUS
    <3>1. n \in 1 .. M
      BY <1>12
    <3>2. upto[n] = cuts[n] - 1 /\ cuts[n] \in Int /\ Occurs(t, separator, cuts[n])
      BY <1>7, <1>8, <3>1
    <3>3. upto[n] + 1 = cuts[n]
      BY <3>2
    <3> QED BY <3>2, <3>3
  <2>4. \A i \in from[n] .. upto[n] - Len(separator) + 1 : ~Occurs(t, separator, i)
    <3> SUFFICES ASSUME NEW i \in from[n] .. upto[n] - q + 1, Occurs(t, separator, i) PROVE FALSE
      BY DEF q
    <3>1. PICK m \in 1 .. M : cuts[m] = i
      BY <1>2, <1>4
    <3>2. ~(m < n)
      <4> SUFFICES ASSUME m < n PROVE FALSE
        OBVIOUS
      <4>1. n - 1 \in 1 .. M /\ (n - 1) + 1 = n /\ m <= n - 1
        BY <1>4
      <4>2. from[n] = cuts[n - 1] + q /\ cuts[n - 1] \in Int /\ cuts[m] \in Int
        BY <1>7, <1>8, <4>1, Zenon
      <4>3. cuts[m] <= cuts[n - 1]
        BY <1>4, <4>1, <4>2
      <4> QED BY <1>1, <2>1, <3>1, <4>2, <4>3
    <3>3. ~(n <= m)
      <4> SUFFICES ASSUME n <= m PROVE FALSE
        OBVIOUS
      <4>1. n \in 1 .. M
        BY <1>4
      <4>2. upto[n] = cuts[n] - 1 /\ cuts[n] \in Int /\ cuts[m] \in Int
        BY <1>7, <1>8, <4>1, Zenon
      <4>3. cuts[n] <= cuts[m]
        BY <1>4, <4>1, <4>2
      <4> QED BY <1>1, <2>1, <3>1, <4>2, <4>3
    <3> QED BY <3>2, <3>3
  <2>5. from[n] = 1 \/ Occurs(t, separator, from[n] - Len(separator))
    BY <1>8, <2>2
  <2>6. upto[n] = Len(t) \/ Occurs(t, separator, upto[n] + 1)
    BY <1>8, <2>3
  <2> QED BY <2>1, <2>2, <2>4, <2>5, <2>6 DEF Piece
<1>17. ASSUME NEW i \in 1 .. Len(t), t[i] > 0
       PROVE  \E n \in 1 .. M + 1 : i \in from[n] .. upto[n]
  <2>1. PICK n \in 1 .. M + 1 : /\ n = M + 1 \/ cuts[n] > i
                                /\ \A m \in 1 .. n - 1 : ~(cuts[m] > i)
    <3> DEFINE T == {n \in 1 .. M + 1 : n = M + 1 \/ cuts[n] > i}
    <3>1. T \in SUBSET Nat /\ M + 1 \in T
      BY <1>4
    <3>2. PICK n \in T : \A m \in T : n <= m
      <4> HIDE DEF T
      <4> QED BY <3>1, LeastNatural
    <3>3. \A m \in 1 .. n - 1 : m \notin T /\ m \in 1 .. M + 1
      <4> SUFFICES ASSUME NEW m \in 1 .. n - 1 PROVE m \notin T /\ m \in 1 .. M + 1
        OBVIOUS
      <4>1. n \in 1 .. M + 1
        OBVIOUS
      <4>2. ~(n <= m) /\ m \in 1 .. M + 1
        BY <1>4, <4>1
      <4> HIDE DEF T
      <4> QED BY <3>2, <4>2
    <3> QED BY <3>2, <3>3
  <2>2. i <= upto[n]
    <3>1. CASE n = M + 1
      BY <1>8, <3>1
    <3>2. CASE n # M + 1
      <4>1. n \in 1 .. M /\ cuts[n] > i
        BY <1>12, <2>1, <3>2
      <4>2. upto[n] = cuts[n] - 1 /\ cuts[n] \in Int
        BY <1>7, <1>8, <4>1
      <4> QED BY <4>1, <4>2
    <3> QED BY <3>1, <3>2
  <2>3. from[n] <= i
    <3>1. CASE n = 1
      BY <1>8, <3>1
    <3>2. CASE n # 1
      <4>1. n - 1 \in 1 .. M /\ (n - 1) + 1 = n /\ n - 1 \in 1 .. n - 1
        BY <1>4, <1>11, <3>2
      <4>2. /\ from[n] = cuts[n - 1] + q /\ cuts[n - 1] \in Int
            /\ Occurs(t, separator, cuts[n - 1]) /\ cuts[n - 1] <= i
        BY <1>7, <1>8, <2>1, <4>1
      <4> DEFINE c == cuts[n - 1]
                 j == i - c + 1
      <4>3. SUFFICES ASSUME ~(c + q <= i) PROVE FALSE
        BY <4>2
      <4>4. j \in 1 .. q /\ c + j - 1 = i
        <5>1. c \in Int /\ c <= i /\ i \in Int /\ ~(c + q <= i)
          BY <4>2, <4>3
        <5> HIDE DEF c
        <5> QED BY <1>1, <5>1
      <4>5. t[c + j - 1] = separator[j]
        <5>1. Occurs(t, separator, c)
          BY <4>2
        <5> HIDE DEF c, j
        <5> QED BY <4>4, <5>1 DEF Occurs, q
      <4>6. ~(separator[j] > 0)
        <5> HIDE DEF j
        <5> QED BY <4>4 DEF q
      <4> HIDE DEF c, j
      <4> QED BY <1>17, <4>4, <4>5, <4>6
    <3> QED BY <3>1, <3>2
  <2>4. from[n] \in Int /\ upto[n] \in Int
    BY <1>1, <1>13
  <2> QED BY <2>2, <2>3, <2>4
<1>18. \A n \in 1 .. M + 1 : p[n] = SubSeq(t, from[n], upto[n])
  BY <1>10, Zenon
<1>19. Slices(p, t, separator, from, upto)
  BY <1>13, <1>14, <1>15, <1>16, <1>17, <1>18 DEF Slices
<1> QED BY <1>14, <1>19 DEF p

\* The letters of all of p.
LettersIn(p) == UNION {Letters(p[n]) : n \in 1 .. Len(p)}

\* The letters of p are in the order of p.
Sorted(p) ==
  \A m, n \in 1 .. Len(p) : m < n => \A a \in Letters(p[m]), b \in Letters(p[n]) : a < b

\* Texts of E to be merged: only the first may be white space.
Mergeable(p, E) ==
  /\ p \in Seq(Text)
  /\ \A n \in 1 .. Len(p) : p[n] \in E /\ p[n] # <<>> /\ Rising(p[n]) /\ (n # 1 => ~Blank(p[n]))
  /\ Sorted(p)

LEMMA SubSeqHas ==
  ASSUME NEW t \in Text, NEW a \in 1 .. Len(t), NEW b \in a .. Len(t)
  PROVE  /\ SubSeq(t, a, b) \in Text /\ Len(SubSeq(t, a, b)) = b - a + 1
         /\ \A c : Has(SubSeq(t, a, b), c) <=> \E i \in a .. b : t[i] = c
         /\ \A c \in Nat \ {0} : c \in Letters(SubSeq(t, a, b)) <=> \E i \in a .. b : t[i] = c
         /\ Blank(SubSeq(t, a, b)) <=> \A i \in a .. b : t[i] \in White
         /\ Rising(t) => Rising(SubSeq(t, a, b))
         /\ \A i \in a .. b : i - a + 1 \in 1 .. b - a + 1 /\ SubSeq(t, a, b)[i - a + 1] = t[i]
         /\ \A n \in 1 .. b - a + 1 : a + n - 1 \in a .. b /\ SubSeq(t, a, b)[n] = t[a + n - 1]
<1> DEFINE s == SubSeq(t, a, b)
<1>1. Len(t) \in Nat /\ t \in Seq(Clean)
  BY DEF Text
<1>2. /\ s \in Seq(Clean) /\ Len(s) = b - a + 1
      /\ \A n \in 1 .. Len(s) : s[n] = t[a + n - 1]
  <2>1. a \in 1 .. Len(t) + 1 /\ b \in 0 .. Len(t) /\ a <= b
    BY <1>1
  <2>2. /\ s \in Seq(Clean)
        /\ a <= b => Len(s) = b - a + 1
        /\ \A n \in 1 .. Len(s) : s[n] = t[a + n - 1]
    BY <1>1, <2>1, SubSeqIs
  <2> QED BY <2>1, <2>2
<1> HIDE DEF s
<1>3. \A i \in a .. b : i - a + 1 \in 1 .. Len(s) /\ s[i - a + 1] = t[i]
  <2> SUFFICES ASSUME NEW i \in a .. b PROVE i - a + 1 \in 1 .. Len(s) /\ s[i - a + 1] = t[i]
    BY Zenon
  <2> DEFINE n == i - a + 1
  <2>1. n \in 1 .. Len(s) /\ a + n - 1 = i
    BY <1>1, <1>2
  <2> HIDE DEF n
  <2>2. s[n] = t[i]
    BY <1>2, <2>1, Zenon
  <2> QED BY <2>1, <2>2 DEF n
<1>4. \A n \in 1 .. Len(s) : a + n - 1 \in a .. b /\ s[n] = t[a + n - 1]
  BY <1>1, <1>2
<1>5. \A c : Has(s, c) <=> \E i \in a .. b : t[i] = c
  BY <1>3, <1>4, Zenon DEF Has
<1>6. s \in Text /\ s \in Seq(Symbols)
  BY <1>2, TextsAreSymbols DEF Text
<1>7. \A c \in Nat \ {0} : c \in Letters(s) <=> Has(s, c)
  BY <1>6, LettersAre
<1>8. Blank(s) <=> \A n \in 1 .. Len(s) : s[n] \in White
  BY <1>6, BlankIs
<1>9. (\A n \in 1 .. Len(s) : s[n] \in White) <=> \A i \in a .. b : t[i] \in White
  BY <1>3, <1>4, Zenon
<1>10. ASSUME Rising(t) PROVE Rising(s)
  <2> SUFFICES ASSUME NEW m \in 1 .. Len(s), NEW n \in 1 .. Len(s), m < n, s[m] > 0, s[n] > 0
               PROVE  s[m] < s[n]
    BY DEF Rising
  <2>1. /\ a + m - 1 \in 1 .. Len(t) /\ a + n - 1 \in 1 .. Len(t) /\ a + m - 1 < a + n - 1
        /\ s[m] = t[a + m - 1] /\ s[n] = t[a + n - 1]
    <3>1. a + m - 1 \in a .. b /\ a + n - 1 \in a .. b
      BY <1>4
    <3> QED BY <1>1, <1>4, <3>1
  <2> QED BY <1>10, <2>1, Zenon DEF Rising
<1> QED BY <1>2, <1>3, <1>4, <1>5, <1>6, <1>7, <1>8, <1>9, <1>10, Zenon DEF s

\* The parts between separators, where those that are empty are left out.
LEMMA SplitsAre ==
  ASSUME NEW t \in Text, Rising(t),
         NEW separator \in Text, \A j \in 1 .. Len(separator) : ~(separator[j] > 0), NEW E,
         \A a, b : Piece(t, separator, a, b) =>
                     SubSeq(t, a, b) \in E /\ (a # 1 => ~Blank(SubSeq(t, a, b)))
  PROVE  /\ Mergeable(Splits(t, separator), E)
         /\ LettersIn(Splits(t, separator)) = Letters(t)
<1> DEFINE p == Parts(t, separator)
           P == {n \in DOMAIN p : p[n] # <<>>}
           s == Splits(t, separator)
<1>1. t \in Seq(Symbols) /\ separator \in Seq(Symbols) /\ Len(t) \in Nat
  BY TextsAreSymbols DEF Text
<1>2. p \in Seq(Seq(Symbols)) /\ \E from, upto : Slices(p, t, separator, from, upto)
  BY <1>1, SymbolsApart, PartsApart
<1>3. s = At(p, P)
  BY Zenon DEF Splits
<1> HIDE DEF p, s
<1>4. DOMAIN p = 1 .. Len(p) /\ Len(p) \in Nat
  BY <1>2
<1>5. P \subseteq 1 .. Len(p) /\ \A n \in 1 .. Len(p) : n \in P <=> p[n] # <<>>
  BY <1>4
<1> HIDE DEF P
<1>6. s \in Seq(Seq(Symbols)) /\ \E g : Picks(g, s, p, P)
  BY <1>2, <1>3, <1>5, AtPicks, Zenon
<1>7. PICK g : Picks(g, s, p, P)
  BY <1>6
<1>8. PICK from, upto : Slices(p, t, separator, from, upto)
  BY <1>2
<1>9. Len(s) \in Nat
  BY <1>6
<1>10. \A n \in 1 .. Len(s) : g[n] \in P /\ g[n] \in 1 .. Len(p) /\ s[n] = p[g[n]]
  BY <1>5, <1>7, Zenon DEF Picks
<1>11. ASSUME NEW n \in 1 .. Len(p), from[n] <= upto[n]
       PROVE  /\ from[n] \in 1 .. Len(t) /\ upto[n] \in from[n] .. Len(t)
              /\ p[n] = SubSeq(t, from[n], upto[n])
              /\ p[n] \in E /\ p[n] # <<>> /\ p[n] \in Text /\ Rising(p[n])
              /\ n # 1 => ~Blank(p[n])
              /\ \A c \in Nat \ {0} : c \in Letters(p[n]) <=> \E i \in from[n] .. upto[n] : t[i] = c
  <2>1. p[n] = SubSeq(t, from[n], upto[n])
    BY <1>8 DEF Slices
  <2>2. Piece(t, separator, from[n], upto[n]) /\ (n # 1 => from[n] # 1)
    BY <1>8, <1>11 DEF Slices
  <2>3. from[n] \in 1 .. Len(t) /\ upto[n] \in from[n] .. Len(t)
    BY <2>2 DEF Piece
  <2>4. p[n] \in E /\ (n # 1 => ~Blank(p[n]))
    BY <2>1, <2>2
  <2>5. /\ p[n] \in Text /\ Rising(p[n]) /\ Len(p[n]) = upto[n] - from[n] + 1
        /\ \A c \in Nat \ {0} : c \in Letters(p[n]) <=> \E i \in from[n] .. upto[n] : t[i] = c
    <3> DEFINE a == from[n]
               b == upto[n]
    <3>1. a \in 1 .. Len(t) /\ b \in a .. Len(t) /\ p[n] = SubSeq(t, a, b)
      BY <2>1, <2>3
    <3> HIDE DEF a, b
    <3>2. /\ p[n] \in Text /\ Rising(p[n]) /\ Len(p[n]) = b - a + 1
          /\ \A c \in Nat \ {0} : c \in Letters(p[n]) <=> \E i \in a .. b : t[i] = c
      BY <3>1, SubSeqHas
    <3> QED BY <3>2 DEF a, b
  <2>6. p[n] # <<>>
    <3>1. Len(p[n]) # 0
      BY <1>1, <2>3, <2>5
    <3> QED BY <3>1
  <2> QED BY <2>1, <2>3, <2>4, <2>5, <2>6
<1>12. ASSUME NEW n \in 1 .. Len(p) PROVE p[n] # <<>> <=> from[n] <= upto[n]
  <2>1. /\ p[n] = SubSeq(t, from[n], upto[n])
        /\ from[n] \in 1 .. Len(t) + 1 /\ upto[n] \in 0 .. Len(t)
    BY <1>8 DEF Slices
  <2>2. ~(from[n] <= upto[n]) => p[n] = <<>>
    BY <1>1, <2>1, SubSeqIs
  <2> QED BY <1>11, <2>2
<1>13. ASSUME NEW n \in 1 .. Len(s)
       PROVE  s[n] \in Text /\ s[n] \in E /\ s[n] # <<>> /\ Rising(s[n]) /\ (n # 1 => ~Blank(s[n]))
  <2>1. g[n] \in P /\ g[n] \in 1 .. Len(p) /\ s[n] = p[g[n]]
    BY <1>10
  <2>2. from[g[n]] <= upto[g[n]]
    BY <1>5, <1>12, <2>1
  <2>3. n # 1 => g[n] # 1
    <3> SUFFICES ASSUME n # 1 PROVE g[n] # 1
      OBVIOUS
    <3>1. 1 \in 1 .. Len(s) /\ 1 < n
      BY <1>9
    <3>2. g[1] < g[n] /\ g[1] \in 1 .. Len(p)
      BY <1>7, <1>10, <3>1 DEF Picks
    <3> QED BY <2>1, <3>2
  <2> DEFINE m == g[n]
  <2>4. m \in 1 .. Len(p) /\ from[m] <= upto[m]
    BY <2>1, <2>2
  <2> HIDE DEF m
  <2>5. p[m] \in E /\ p[m] # <<>> /\ p[m] \in Text /\ Rising(p[m]) /\ (m # 1 => ~Blank(p[m]))
    BY <1>11, <2>4
  <2> QED BY <2>1, <2>3, <2>5 DEF m
<1>14. s \in Seq(Text)
  <2>1. s \in [1 .. Len(s) -> Text]
    BY <1>6, <1>13
  <2> QED BY <1>9, <2>1
<1>15. \A n \in 1 .. Len(s) : \A c \in Nat \ {0} :
         c \in Letters(s[n]) <=> \E i \in from[g[n]] .. upto[g[n]] : t[i] = c
  <2> SUFFICES ASSUME NEW n \in 1 .. Len(s)
               PROVE  \A c \in Nat \ {0} :
                        c \in Letters(s[n]) <=> \E i \in from[g[n]] .. upto[g[n]] : t[i] = c
    BY Zenon
  <2>1. g[n] \in P /\ g[n] \in 1 .. Len(p) /\ s[n] = p[g[n]]
    BY <1>10
  <2>2. from[g[n]] <= upto[g[n]]
    BY <1>5, <1>12, <2>1
  <2> QED BY <1>11, <2>1, <2>2, Zenon
<1>16. \A n \in 1 .. Len(s) : Letters(s[n]) \subseteq Nat \ {0}
  BY <1>13, TextsAreSymbols, LettersAre
<1>17. Sorted(s)
  <2> SUFFICES ASSUME NEW m \in 1 .. Len(s), NEW n \in 1 .. Len(s), m < n,
                      NEW c \in Letters(s[m]), NEW d \in Letters(s[n])
               PROVE  c < d
    BY DEF Sorted
  <2>1. c \in Nat \ {0} /\ d \in Nat \ {0}
    BY <1>16
  <2>2. PICK i \in from[g[m]] .. upto[g[m]] : t[i] = c
    BY <1>15, <2>1
  <2>3. PICK j \in from[g[n]] .. upto[g[n]] : t[j] = d
    BY <1>15, <2>1
  <2>4. g[m] < g[n] /\ g[m] \in 1 .. Len(p) /\ g[n] \in 1 .. Len(p)
    BY <1>7, <1>10 DEF Picks
  <2>5. /\ upto[g[m]] < from[g[n]]
        /\ from[g[m]] \in 1 .. Len(t) + 1 /\ upto[g[m]] \in 0 .. Len(t)
        /\ from[g[n]] \in 1 .. Len(t) + 1 /\ upto[g[n]] \in 0 .. Len(t)
    BY <1>8, <2>4, Zenon DEF Slices
  <2> DEFINE k == from[g[m]]
             l == upto[g[m]]
             x == from[g[n]]
             y == upto[g[n]]
  <2>6. i \in 1 .. Len(t) /\ j \in 1 .. Len(t) /\ i < j
    <3>1. /\ l < x /\ k \in 1 .. Len(t) + 1 /\ l \in 0 .. Len(t)
          /\ x \in 1 .. Len(t) + 1 /\ y \in 0 .. Len(t) /\ i \in k .. l /\ j \in x .. y
      BY <2>5
    <3> HIDE DEF k, l, x, y
    <3> QED BY <1>1, <3>1
  <2>7. t[i] > 0 /\ t[j] > 0
    BY <2>1, <2>2, <2>3
  <2>8. t[i] < t[j]
    BY <2>6, <2>7 DEF Rising
  <2> QED BY <2>2, <2>3, <2>8
<1>18. LettersIn(s) = Letters(t)
  <2>1. \A c \in Nat \ {0} : c \in Letters(t) <=> Has(t, c)
    BY <1>1, LettersAre
  <2>2. ASSUME NEW c \in Nat \ {0}, NEW n \in 1 .. Len(s), c \in Letters(s[n]) PROVE Has(t, c)
    <3>1. PICK i \in from[g[n]] .. upto[g[n]] : t[i] = c
      BY <1>15, <2>2
    <3>2. from[g[n]] \in 1 .. Len(t) + 1 /\ upto[g[n]] \in 0 .. Len(t)
      BY <1>8, <1>10, Zenon DEF Slices
    <3>3. i \in 1 .. Len(t)
      BY <1>1, <3>2
    <3> QED BY <3>1, <3>3 DEF Has
  <2>3. ASSUME NEW c \in Nat \ {0}, Has(t, c) PROVE \E n \in 1 .. Len(s) : c \in Letters(s[n])
    <3>1. PICK i \in 1 .. Len(t) : t[i] = c
      BY <2>3 DEF Has
    <3>2. PICK m \in 1 .. Len(p) : i \in from[m] .. upto[m]
      <4>1. t[i] > 0
        BY <3>1
      <4> QED BY <1>8, <4>1 DEF Slices
    <3>3. from[m] \in 1 .. Len(t) + 1 /\ upto[m] \in 0 .. Len(t)
      BY <1>8 DEF Slices
    <3>4. from[m] <= upto[m]
      BY <1>1, <3>2, <3>3
    <3>5. m \in P
      BY <1>5, <1>12, <3>4
    <3>6. PICK n \in 1 .. Len(s) : g[n] = m
      BY <1>7, <3>5 DEF Picks
    <3> QED BY <1>15, <3>1, <3>2, <3>6
  <2>4. Letters(t) \subseteq Nat \ {0}
    BY <1>1, LettersAre
  <2>5. \A c : c \in LettersIn(s) <=> \E n \in 1 .. Len(s) : c \in Letters(s[n])
    BY DEF LettersIn
  <2>6. \A c \in LettersIn(s) : c \in Letters(t)
    BY <1>16, <2>1, <2>2, <2>5
  <2>7. \A c \in Letters(t) : c \in LettersIn(s)
    BY <2>1, <2>3, <2>4, <2>5
  <2> QED BY <2>6, <2>7, Zenon
<1>19. Mergeable(s, E)
  BY <1>13, <1>14, <1>17 DEF Mergeable
<1> QED BY <1>18, <1>19 DEF s

-----------------------------------------------------------------------------
(* What is left to find in a text, from one separator to the next.         *)

NoNewline(t) == \A n \in 1 .. Len(t) : t[n] # Newline

Wholes     == {t \in Text : Spaced(t) /\ Ends(t) /\ TwoBreaks(t)}
Paragraphs == {t \in Text : /\ Spaced(t) /\ Ends(t)
                            /\ \A n \in 1 .. Len(t) - 1 : ~(t[n] = Newline /\ t[n + 1] = Newline)}
Lines      == {t \in Text : Spaced(t) /\ Ends(t) /\ NoNewline(t)}
Sentences  == {t \in Text : Spaced(t) /\ NoNewline(t)}
Words      == {t \in Text : \A n \in 1 .. Len(t) : t[n] \notin White}
Singles    == {t \in Text : Len(t) = 1 /\ t[1] \notin White}

LEMMA SeparatorsAre ==
  /\ <<Newline, Newline>> \in Text /\ <<Newline>> \in Text /\ <<Period, Space>> \in Text
  /\ <<Space>> \in Text /\ <<>> \in Text
  /\ \A j \in 1 .. 2 : ~(<<Newline, Newline>>[j] > 0) /\ ~(<<Period, Space>>[j] > 0)
  /\ ~(<<Newline>>[1] > 0) /\ ~(<<Space>>[1] > 0)
<1>1. Newline \in Clean /\ Period \in Clean /\ Space \in Clean
  BY TextsAreSymbols
<1>2. ~(Newline > 0) /\ ~(Period > 0) /\ ~(Space > 0)
  BY DEF Newline, Period, Space
<1> QED BY <1>1, <1>2 DEF Text

\* A piece keeps what holds of every symbol and of its neighbours.
LEMMA PieceKeeps ==
  ASSUME NEW t \in Text, NEW separator \in Text, NEW a, NEW b, Piece(t, separator, a, b)
  PROVE  /\ a \in 1 .. Len(t) /\ b \in a .. Len(t) /\ Len(t) \in Nat
         /\ SubSeq(t, a, b) \in Text
         /\ Len(SubSeq(t, a, b)) = b - a + 1
         /\ \A n \in 1 .. b - a + 1 : a + n - 1 \in a .. b /\ SubSeq(t, a, b)[n] = t[a + n - 1]
         /\ Blank(SubSeq(t, a, b)) <=> \A i \in a .. b : t[i] \in White
         /\ Spaced(t) => Spaced(SubSeq(t, a, b))
         /\ NoNewline(t) => NoNewline(SubSeq(t, a, b))
         /\ t[b] \notin White => Ends(SubSeq(t, a, b)) /\ ~Blank(SubSeq(t, a, b))
<1> DEFINE s == SubSeq(t, a, b)
           g == [n \in 1 .. b - a + 1 |-> a + n - 1]
<1>1. a \in 1 .. Len(t) /\ b \in a .. Len(t) /\ Len(t) \in Nat
  BY DEF Piece, Text
<1>2. /\ s \in Text /\ Len(s) = b - a + 1
      /\ Blank(s) <=> \A i \in a .. b : t[i] \in White
      /\ \A n \in 1 .. b - a + 1 : a + n - 1 \in a .. b /\ s[n] = t[a + n - 1]
  BY <1>1, SubSeqHas
<1> HIDE DEF s
<1>3. Stretch(g, s, t)
  BY <1>1, <1>2 DEF Stretch
<1>4. Spaced(t) => Spaced(s)
  BY <1>2, <1>3, StretchKeeps
<1>5. NoNewline(t) => NoNewline(s)
  BY <1>1, <1>2 DEF NoNewline
<1>6. b - a + 1 \in 1 .. b - a + 1 /\ a + (b - a + 1) - 1 = b
  BY <1>1
<1>7. s[Len(s)] = t[b]
  BY <1>2, <1>6
<1>8. ASSUME t[b] \notin White PROVE Ends(s) /\ ~Blank(s)
  <2>1. b \in a .. b
    BY <1>1
  <2> QED BY <1>2, <1>7, <1>8, <2>1 DEF Ends
<1> QED BY <1>1, <1>2, <1>4, <1>5, <1>8 DEF s

LEMMA OccursTwo ==
  ASSUME NEW t \in Text, NEW c, NEW d
  PROVE  \A i : Occurs(t, <<c, d>>, i) <=> i \in 1 .. Len(t) - 1 /\ t[i] = c /\ t[i + 1] = d
<1> SUFFICES ASSUME NEW i
             PROVE  Occurs(t, <<c, d>>, i) <=> i \in 1 .. Len(t) - 1 /\ t[i] = c /\ t[i + 1] = d
  OBVIOUS
<1>1. Len(<<c, d>>) = 2 /\ <<c, d>>[1] = c /\ <<c, d>>[2] = d /\ Len(t) - 2 + 1 = Len(t) - 1
  BY DEF Text
<1>2. Occurs(t, <<c, d>>, i) <=> /\ i \in 1 .. Len(t) - 1
                                 /\ \A j \in 1 .. 2 : t[i + j - 1] = <<c, d>>[j]
  BY <1>1 DEF Occurs
<1>3. ASSUME i \in 1 .. Len(t) - 1
      PROVE  (\A j \in 1 .. 2 : t[i + j - 1] = <<c, d>>[j]) <=> t[i] = c /\ t[i + 1] = d
  <2>1. i + 1 - 1 = i /\ i + 2 - 1 = i + 1
    BY <1>3
  <2>2. \A j \in 1 .. 2 : j = 1 \/ j = 2
    OBVIOUS
  <2>3. 1 \in 1 .. 2 /\ 2 \in 1 .. 2
    OBVIOUS
  <2> QED BY <1>1, <2>1, <2>2, <2>3
<1> QED BY <1>2, <1>3

LEMMA OccursOne ==
  ASSUME NEW t \in Text, NEW c
  PROVE  \A i : Occurs(t, <<c>>, i) <=> i \in 1 .. Len(t) /\ t[i] = c
<1> SUFFICES ASSUME NEW i
             PROVE  Occurs(t, <<c>>, i) <=> i \in 1 .. Len(t) /\ t[i] = c
  OBVIOUS
<1>1. Len(<<c>>) = 1 /\ <<c>>[1] = c /\ Len(t) - 1 + 1 = Len(t)
  BY DEF Text
<1>2. Occurs(t, <<c>>, i) <=> /\ i \in 1 .. Len(t)
                              /\ \A j \in 1 .. 1 : t[i + j - 1] = <<c>>[j]
  BY <1>1 DEF Occurs
<1>3. ASSUME i \in 1 .. Len(t)
      PROVE  (\A j \in 1 .. 1 : t[i + j - 1] = <<c>>[j]) <=> t[i] = c
  <2>1. i + 1 - 1 = i
    BY <1>3
  <2>2. \A j \in 1 .. 1 : j = 1
    OBVIOUS
  <2>3. 1 \in 1 .. 1
    OBVIOUS
  <2> QED BY <1>1, <2>1, <2>2, <2>3
<1> QED BY <1>2, <1>3

LEMMA WholePieces ==
  ASSUME NEW t \in Wholes, NEW a, NEW b, Piece(t, <<Newline, Newline>>, a, b)
  PROVE  SubSeq(t, a, b) \in Paragraphs /\ ~Blank(SubSeq(t, a, b))
<1> DEFINE s == SubSeq(t, a, b)
           sep == <<Newline, Newline>>
<1>1. t \in Text /\ Spaced(t) /\ Ends(t) /\ TwoBreaks(t)
  BY DEF Wholes
<1>2. /\ a \in 1 .. Len(t) /\ b \in a .. Len(t) /\ Len(t) \in Nat
      /\ s \in Text /\ Len(s) = b - a + 1 /\ Spaced(s)
      /\ \A n \in 1 .. b - a + 1 : a + n - 1 \in a .. b /\ s[n] = t[a + n - 1]
      /\ t[b] \notin White => Ends(s) /\ ~Blank(s)
  BY <1>1, SeparatorsAre, PieceKeeps
<1>3. \A i : Occurs(t, sep, i) <=> i \in 1 .. Len(t) - 1 /\ t[i] = Newline /\ t[i + 1] = Newline
  BY <1>1, OccursTwo
<1>4. /\ b = Len(t) \/ Occurs(t, sep, b + 1)
      /\ \A i \in a .. b - 1 : ~Occurs(t, sep, i)
  <2>1. sep # <<>> /\ b - Len(sep) + 1 = b - 1
    BY <1>2
  <2> QED BY <2>1 DEF Piece
<1> HIDE DEF s, sep
<1>5. t[b] \notin White
  <2>1. CASE b = Len(t)
    BY <1>1, <1>2, <2>1 DEF Ends
  <2>2. CASE Occurs(t, sep, b + 1)
    <3>1. b + 1 \in 1 .. Len(t) - 1 /\ t[b + 1] = Newline /\ t[b + 1 + 1] = Newline
      BY <1>3, <2>2
    <3>2. b \in 1 .. Len(t) - 2 /\ b \in 1 .. Len(t) - 1 /\ b + 1 + 1 = b + 2
      BY <1>2, <3>1
    <3>3. t[b] # Newline
      BY <1>1, <3>1, <3>2 DEF TwoBreaks
    <3>4. t[b] # Space
      BY <1>1, <3>1, <3>2 DEF Spaced, White
    <3> QED BY <3>3, <3>4 DEF White
  <2> QED BY <1>4, <2>1, <2>2
<1>6. ASSUME NEW n \in 1 .. Len(s) - 1 PROVE ~(s[n] = Newline /\ s[n + 1] = Newline)
  <2>1. n \in 1 .. b - a + 1 /\ n + 1 \in 1 .. b - a + 1
    BY <1>2
  <2>2. s[n] = t[a + n - 1] /\ s[n + 1] = t[a + (n + 1) - 1]
    BY <1>2, <2>1
  <2>3. /\ a + (n + 1) - 1 = (a + n - 1) + 1 /\ a + n - 1 \in a .. b - 1
        /\ a + n - 1 \in 1 .. Len(t) - 1
    BY <1>2
  <2> DEFINE i == a + n - 1
  <2>4. ~(t[i] = Newline /\ t[i + 1] = Newline)
    <3>1. i \in a .. b - 1 /\ i \in 1 .. Len(t) - 1
      BY <2>3
    <3> HIDE DEF i
    <3> QED BY <1>3, <1>4, <3>1, Zenon
  <2> QED BY <2>2, <2>3, <2>4
<1> QED BY <1>2, <1>5, <1>6, Zenon DEF Paragraphs, s

LEMMA ParagraphPieces ==
  ASSUME NEW t \in Paragraphs, NEW a, NEW b, Piece(t, <<Newline>>, a, b)
  PROVE  SubSeq(t, a, b) \in Lines /\ ~Blank(SubSeq(t, a, b))
<1> DEFINE s == SubSeq(t, a, b)
           sep == <<Newline>>
<1>1. /\ t \in Text /\ Spaced(t) /\ Ends(t)
      /\ \A n \in 1 .. Len(t) - 1 : ~(t[n] = Newline /\ t[n + 1] = Newline)
  BY DEF Paragraphs
<1>2. /\ a \in 1 .. Len(t) /\ b \in a .. Len(t) /\ Len(t) \in Nat
      /\ s \in Text /\ Len(s) = b - a + 1 /\ Spaced(s)
      /\ \A n \in 1 .. b - a + 1 : a + n - 1 \in a .. b /\ s[n] = t[a + n - 1]
      /\ t[b] \notin White => Ends(s) /\ ~Blank(s)
  BY <1>1, SeparatorsAre, PieceKeeps
<1>3. \A i : Occurs(t, sep, i) <=> i \in 1 .. Len(t) /\ t[i] = Newline
  BY <1>1, OccursOne
<1>4. /\ b = Len(t) \/ Occurs(t, sep, b + 1)
      /\ \A i \in a .. b : ~Occurs(t, sep, i)
  <2>1. sep # <<>> /\ b - Len(sep) + 1 = b
    BY <1>2
  <2> QED BY <2>1 DEF Piece
<1> HIDE DEF s, sep
<1>5. t[b] \notin White
  <2>1. CASE b = Len(t)
    BY <1>1, <1>2, <2>1 DEF Ends
  <2>2. CASE Occurs(t, sep, b + 1)
    <3>1. b + 1 \in 1 .. Len(t) /\ t[b + 1] = Newline
      BY <1>3, <2>2
    <3>2. b \in 1 .. Len(t) - 1
      BY <1>2, <3>1
    <3>3. t[b] # Newline
      BY <1>1, <3>1, <3>2
    <3>4. t[b] # Space
      BY <1>1, <3>1, <3>2 DEF Spaced, White
    <3> QED BY <3>3, <3>4 DEF White
  <2> QED BY <1>4, <2>1, <2>2
<1>6. NoNewline(s)
  <2> SUFFICES ASSUME NEW n \in 1 .. Len(s) PROVE s[n] # Newline
    BY DEF NoNewline
  <2> DEFINE i == a + n - 1
  <2>1. i \in a .. b /\ s[n] = t[i] /\ i \in 1 .. Len(t)
    BY <1>2
  <2> HIDE DEF i
  <2> QED BY <1>3, <1>4, <2>1
<1> QED BY <1>2, <1>5, <1>6 DEF Lines, s

LEMMA LinePieces ==
  ASSUME NEW t \in Lines, NEW a, NEW b, Piece(t, <<Period, Space>>, a, b)
  PROVE  SubSeq(t, a, b) \in Sentences /\ (a # 1 => ~Blank(SubSeq(t, a, b)))
<1> DEFINE s == SubSeq(t, a, b)
           sep == <<Period, Space>>
<1>1. t \in Text /\ Spaced(t) /\ NoNewline(t)
  BY DEF Lines
<1>2. /\ a \in 1 .. Len(t) /\ b \in a .. Len(t) /\ Len(t) \in Nat
      /\ s \in Text /\ Spaced(s) /\ NoNewline(s)
      /\ Blank(s) <=> \A i \in a .. b : t[i] \in White
  BY <1>1, SeparatorsAre, PieceKeeps
<1>3. ASSUME a # 1 PROVE ~Blank(s)
  <2>1. Occurs(t, sep, a - 2)
    <3>1. Len(sep) = 2
      OBVIOUS
    <3>2. Occurs(t, sep, a - Len(sep))
      BY <1>3 DEF Piece
    <3> QED BY <3>1, <3>2
  <2>2. a - 2 \in 1 .. Len(t) - 1 /\ t[(a - 2) + 1] = Space
    BY <1>1, <2>1, OccursTwo
  <2>3. a - 1 \in 1 .. Len(t) - 1 /\ (a - 2) + 1 = a - 1 /\ (a - 1) + 1 = a
    BY <1>2, <2>2
  <2>4. t[a] \notin White
    BY <1>1, <2>2, <2>3 DEF Spaced
  <2>5. a \in a .. b
    BY <1>2
  <2> QED BY <1>2, <2>4, <2>5
<1> QED BY <1>2, <1>3 DEF Sentences

LEMMA SentencePieces ==
  ASSUME NEW t \in Sentences, NEW a, NEW b, Piece(t, <<Space>>, a, b)
  PROVE  SubSeq(t, a, b) \in Words /\ ~Blank(SubSeq(t, a, b))
<1> DEFINE s == SubSeq(t, a, b)
           sep == <<Space>>
<1>1. t \in Text /\ NoNewline(t)
  BY DEF Sentences
<1>2. /\ a \in 1 .. Len(t) /\ b \in a .. Len(t) /\ Len(t) \in Nat
      /\ s \in Text /\ Len(s) = b - a + 1
      /\ \A n \in 1 .. b - a + 1 : a + n - 1 \in a .. b /\ s[n] = t[a + n - 1]
      /\ Blank(s) <=> \A i \in a .. b : t[i] \in White
  BY <1>1, SeparatorsAre, PieceKeeps
<1>3. \A i : Occurs(t, sep, i) <=> i \in 1 .. Len(t) /\ t[i] = Space
  BY <1>1, OccursOne
<1>4. \A i \in a .. b : ~Occurs(t, sep, i)
  <2>1. sep # <<>> /\ b - Len(sep) + 1 = b
    BY <1>2
  <2> QED BY <2>1 DEF Piece
<1> HIDE DEF s, sep
<1>5. \A i \in a .. b : t[i] \notin White
  <2> SUFFICES ASSUME NEW i \in a .. b PROVE t[i] \notin White
    OBVIOUS
  <2>1. i \in 1 .. Len(t)
    BY <1>2
  <2> QED BY <1>1, <1>3, <1>4, <2>1 DEF NoNewline, White
<1>6. \A n \in 1 .. Len(s) : s[n] \notin White
  BY <1>2, <1>5, Zenon
<1>7. ~Blank(s)
  <2>1. a \in a .. b
    BY <1>2
  <2> QED BY <1>2, <1>5, <2>1
<1> QED BY <1>2, <1>6, <1>7, Zenon DEF Words, s

LEMMA WordPieces ==
  ASSUME NEW t \in Words, NEW a, NEW b, Piece(t, <<>>, a, b)
  PROVE  SubSeq(t, a, b) \in Singles /\ ~Blank(SubSeq(t, a, b))
<1> DEFINE s == SubSeq(t, a, b)
<1>1. t \in Text /\ \A n \in 1 .. Len(t) : t[n] \notin White
  BY DEF Words
<1>2. /\ a \in 1 .. Len(t) /\ b \in a .. Len(t) /\ Len(t) \in Nat
      /\ s \in Text /\ Len(s) = b - a + 1
      /\ \A n \in 1 .. b - a + 1 : a + n - 1 \in a .. b /\ s[n] = t[a + n - 1]
      /\ Blank(s) <=> \A i \in a .. b : t[i] \in White
  BY <1>1, SeparatorsAre, PieceKeeps
<1>3. a = b
  BY DEF Piece
<1> HIDE DEF s
<1>4. Len(s) = 1 /\ s[1] = t[a]
  <2> a \in Nat
    <3>1. a \in 1 .. Len(t) /\ Len(t) \in Nat
      BY <1>2
    <3> QED BY <3>1
  <2>1. b - a + 1 = 1 /\ 1 \in 1 .. b - a + 1 /\ a + 1 - 1 = a
    BY <1>3
  <2> QED BY <1>2, <2>1, Zenon
<1>5. ~Blank(s)
  <2>1. a \in a .. b
    BY <1>2
  <2> QED BY <1>1, <1>2, <2>1
<1> QED BY <1>1, <1>2, <1>4, <1>5, Zenon DEF Singles, s

\* A text without the separator is a piece of itself.
LEMMA PieceOfItself ==
  ASSUME NEW t \in Text, t # <<>>, NEW separator \in Text, Starts(t, separator) = {}
  PROVE  Piece(t, separator, 1, Len(t)) /\ SubSeq(t, 1, Len(t)) = t
<1>1. t \in Seq(Symbols) /\ separator \in Seq(Symbols) /\ Len(t) \in Nat
  BY TextsAreSymbols DEF Text
<1>2. Len(t) # 0
  BY <1>1, EmptySeq
<1>3. \A i : ~Occurs(t, separator, i)
  BY <1>1, StartsAre
<1>4. separator # <<>>
  <2> SUFFICES ASSUME separator = <<>> PROVE FALSE
    OBVIOUS
  <2>1. Occurs(t, <<>>, 1)
    BY <1>1 DEF Occurs
  <2> QED BY <1>3, <2>1
<1>5. SubSeq(t, 1, Len(t)) = t
  BY <1>1, SubSeqFull
<1>6. 1 \in 1 .. Len(t) /\ Len(t) \in 1 .. Len(t)
  BY <1>1, <1>2
<1> QED BY <1>3, <1>4, <1>5, <1>6 DEF Piece

-----------------------------------------------------------------------------
(* Texts joined.                                                           *)

\* A text with the separator before it has what it had, in its order.
LEMMA LeadHas ==
  ASSUME NEW S \in {Clean, Symbols}, NEW separator \in Seq(S), NEW t \in Seq(S),
         \A j \in 1 .. Len(separator) : ~(separator[j] > 0)
  PROVE  /\ separator \o t \in Seq(S)
         /\ Len(separator \o t) = Len(separator) + Len(t)
         /\ \A c : Has(t, c) => Has(separator \o t, c)
         /\ \A c : Has(separator \o t, c) => Has(t, c) \/ Has(separator, c)
         /\ Rising(t) => Rising(separator \o t)
<1> DEFINE q == Len(separator)
           s == separator \o t
<1>1. /\ s \in Seq(S) /\ Len(s) = q + Len(t) /\ q \in Nat /\ Len(t) \in Nat
      /\ \A n \in 1 .. q + Len(t) : s[n] = IF n <= q THEN separator[n] ELSE t[n - q]
  BY ConcatProperties
<1> HIDE DEF s, q
<1>2. \A n \in 1 .. Len(t) : n + q \in 1 .. Len(s) /\ s[n + q] = t[n]
  <2> SUFFICES ASSUME NEW n \in 1 .. Len(t) PROVE n + q \in 1 .. Len(s) /\ s[n + q] = t[n]
    OBVIOUS
  <2> DEFINE m == n + q
  <2>1. m \in 1 .. q + Len(t) /\ ~(m <= q) /\ m - q = n
    BY <1>1
  <2> HIDE DEF m
  <2>2. s[m] = t[n]
    BY <1>1, <2>1
  <2> QED BY <1>1, <2>1, <2>2 DEF m
<1>3. \A n \in 1 .. Len(s) : \/ n \in 1 .. q /\ s[n] = separator[n]
                             \/ n - q \in 1 .. Len(t) /\ s[n] = t[n - q]
  <2> SUFFICES ASSUME NEW n \in 1 .. Len(s)
               PROVE  \/ n \in 1 .. q /\ s[n] = separator[n]
                      \/ n - q \in 1 .. Len(t) /\ s[n] = t[n - q]
    OBVIOUS
  <2>1. n \in 1 .. q + Len(t)
    BY <1>1
  <2>2. n <= q => n \in 1 .. q
    BY <1>1
  <2>3. ~(n <= q) => n - q \in 1 .. Len(t)
    BY <1>1, <2>1
  <2> QED BY <1>1, <2>1, <2>2, <2>3
<1>4. \A c : Has(t, c) => Has(s, c)
  BY <1>2 DEF Has
<1>5. \A c : Has(s, c) => Has(t, c) \/ Has(separator, c)
  BY <1>3, Zenon DEF Has, q
<1>6. ASSUME Rising(t) PROVE Rising(s)
  <2> SUFFICES ASSUME NEW m \in 1 .. Len(s), NEW n \in 1 .. Len(s), m < n, s[m] > 0, s[n] > 0
               PROVE  s[m] < s[n]
    BY DEF Rising
  <2>1. m - q \in 1 .. Len(t) /\ s[m] = t[m - q] /\ n - q \in 1 .. Len(t) /\ s[n] = t[n - q]
    BY <1>3 DEF q
  <2>2. m - q < n - q
    BY <1>1
  <2> QED BY <1>6, <2>1, <2>2 DEF Rising
<1> QED BY <1>1, <1>4, <1>5, <1>6 DEF s, q

LEMMA IsSeq ==
  ASSUME NEW S, NEW n \in Nat, NEW f \in [1 .. n -> S]
  PROVE  f \in Seq(S) /\ Len(f) = n /\ DOMAIN f = 1 .. n
OBVIOUS

LEMMA JoinedIs ==
  ASSUME NEW S \in {Clean, Symbols}, NEW p \in Seq(Seq(S)), NEW separator \in Seq(S),
         \A j \in 1 .. Len(separator) : ~(separator[j] > 0)
  PROVE  /\ Joined(p, separator) \in Seq(S)
         /\ Letters(Joined(p, separator)) = LettersIn(p)
         /\ \A n \in 1 .. Len(p) : \A c : Has(p[n], c) => Has(Joined(p, separator), c)
         /\ \A c : Has(Joined(p, separator), c) =>
                     Has(separator, c) \/ \E n \in 1 .. Len(p) : Has(p[n], c)
         /\ Sorted(p) /\ (\A n \in 1 .. Len(p) : Rising(p[n])) => Rising(Joined(p, separator))
<1> DEFINE N == Len(p)
           s == [n \in DOMAIN p |-> IF n = 1 THEN p[n] ELSE separator \o p[n]]
           t == Joined(p, separator)
<1>0. S \subseteq Symbols /\ \A r \in Seq(S) : r \in Seq(Symbols)
  BY TextsAreSymbols, SeqMonotonic
<1>1. N \in Nat /\ DOMAIN p = 1 .. N /\ \A n \in 1 .. N : p[n] \in Seq(S)
  OBVIOUS
<1>2. t = FlattenSeq(s)
  BY DEF Joined
<1>3. \A n \in 1 .. N : s[n] = IF n = 1 THEN p[n] ELSE separator \o p[n]
  BY <1>1
<1>4. DOMAIN s = 1 .. N
  BY <1>1
<1> HIDE DEF t
<1>5. \A n \in 1 .. N : /\ s[n] \in Seq(S)
                        /\ \A c : Has(p[n], c) => Has(s[n], c)
                        /\ \A c : Has(s[n], c) => Has(p[n], c) \/ Has(separator, c)
                        /\ Rising(p[n]) => Rising(s[n])
  <2> HIDE DEF s
  <2> SUFFICES ASSUME NEW n \in 1 .. N
               PROVE  /\ s[n] \in Seq(S)
                      /\ \A c : Has(p[n], c) => Has(s[n], c)
                      /\ \A c : Has(s[n], c) => Has(p[n], c) \/ Has(separator, c)
                      /\ Rising(p[n]) => Rising(s[n])
    BY Zenon
  <2> DEFINE r == p[n]
             u == separator \o r
  <2>1. r \in Seq(S)
    BY <1>1
  <2> HIDE DEF r
  <2>2. /\ u \in Seq(S)
        /\ \A c : Has(r, c) => Has(u, c)
        /\ \A c : Has(u, c) => Has(r, c) \/ Has(separator, c)
        /\ Rising(r) => Rising(u)
    BY <2>1, LeadHas
  <2>3. s[n] = r \/ s[n] = u
    BY <1>3, Zenon DEF r
  <2> HIDE DEF u
  <2>4. /\ s[n] \in Seq(S)
        /\ \A c : Has(r, c) => Has(s[n], c)
        /\ \A c : Has(s[n], c) => Has(r, c) \/ Has(separator, c)
        /\ Rising(r) => Rising(s[n])
    <3>1. CASE s[n] = r
      BY <2>1, <3>1
    <3>2. CASE s[n] = u
      BY <2>2, <3>2
    <3> QED BY <2>3, <3>1, <3>2
  <2> QED BY <2>4 DEF r
<1>6. Len(s) = N /\ s \in Seq(Seq(S))
  <2>1. s \in [1 .. N -> Seq(S)]
    BY <1>4, <1>5
  <2> HIDE DEF s, N
  <2> QED BY <1>1, <2>1, IsSeq
<1>7. CASE N = 0
  <2>1. s = <<>>
    <3> HIDE DEF s
    <3> QED BY <1>6, <1>7, EmptySeq
  <2>2. t = <<>>
    BY <1>2, <2>1, FlatEmpty
  <2>3. Letters(t) = {} /\ LettersIn(p) = {}
    BY <1>7, <2>2 DEF Letters, LettersIn
  <2>4. t \in Seq(S) /\ (\A c : ~Has(t, c)) /\ Rising(t)
    BY <2>2 DEF Has, Rising
  <2> QED BY <1>7, <2>3, <2>4 DEF t
<1>8. CASE N # 0
  <2> HIDE DEF s, N
  <2>1. N \in Nat \ {0}
    BY <1>1, <1>8
  <2>2. t \in Seq(S) /\ \E w, i : Located(t, s, N, w, i)
    BY <1>2, <1>5, <1>6, <2>1, FlatLocated
  <2>3. PICK w, i : Located(t, s, N, w, i)
    BY <2>2
  <2>4. \A k \in 1 .. Len(t) : w[k] \in 1 .. N /\ i[k] \in 1 .. Len(s[w[k]]) /\ t[k] = s[w[k]][i[k]]
    BY <2>3 DEF Located
  <2>5. \A n \in 1 .. N : \A c : Has(p[n], c) => Has(t, c)
    <3> SUFFICES ASSUME NEW n \in 1 .. N, NEW c, Has(p[n], c) PROVE Has(t, c)
      OBVIOUS
    <3>1. PICK j \in 1 .. Len(s[n]) : s[n][j] = c
      BY <1>5, Zenon DEF Has
    <3>2. PICK k \in 1 .. Len(t) : w[k] = n /\ i[k] = j
      BY <2>3 DEF Located
    <3> QED BY <2>4, <3>1, <3>2, Zenon DEF Has
  <2>6. \A c : Has(t, c) => Has(separator, c) \/ \E n \in 1 .. N : Has(p[n], c)
    <3> SUFFICES ASSUME NEW c, Has(t, c) PROVE Has(separator, c) \/ \E n \in 1 .. N : Has(p[n], c)
      OBVIOUS
    <3>1. PICK k \in 1 .. Len(t) : t[k] = c
      BY DEF Has
    <3>2. Has(s[w[k]], c) /\ w[k] \in 1 .. N
      BY <2>4, <3>1, Zenon DEF Has
    <3> QED BY <1>5, <3>2
  <2>7. \A c : Has(separator, c) => ~(c > 0)
    BY DEF Has
  <2>8. t \in Seq(Symbols) /\ \A n \in 1 .. N : p[n] \in Seq(Symbols)
    BY <1>0, <1>1, <2>2
  <2>9. Letters(t) = LettersIn(p)
    <3>1. /\ Letters(t) \subseteq Nat \ {0}
          /\ \A c \in Nat \ {0} : c \in Letters(t) <=> Has(t, c)
      BY <2>8, LettersAre
    <3>2. \A n \in 1 .. N : /\ Letters(p[n]) \subseteq Nat \ {0}
                            /\ \A c \in Nat \ {0} : c \in Letters(p[n]) <=> Has(p[n], c)
      BY <2>8, LettersAre
    <3>3. \A c : c \in LettersIn(p) <=> \E n \in 1 .. N : c \in Letters(p[n])
      BY DEF LettersIn, N
    <3>4. \A c \in Nat \ {0} : c > 0
      OBVIOUS
    <3>5. \A c \in Nat \ {0} : c \in Letters(t) <=> \E n \in 1 .. N : c \in Letters(p[n])
      BY <2>5, <2>6, <2>7, <3>1, <3>2, <3>4
    <3>6. \A c : c \in Letters(t) <=> c \in LettersIn(p)
      BY <3>1, <3>2, <3>3, <3>5, Zenon
    <3> QED BY <3>6, Zenon
  <2>10. ASSUME Sorted(p), \A n \in 1 .. N : Rising(p[n]) PROVE Rising(t)
    <3> SUFFICES ASSUME NEW k \in 1 .. Len(t), NEW l \in 1 .. Len(t), k < l, t[k] > 0, t[l] > 0
                 PROVE  t[k] < t[l]
      BY DEF Rising
    <3>1. w[k] < w[l] \/ (w[k] = w[l] /\ i[k] < i[l])
      BY <2>3 DEF Located
    <3> DEFINE m == w[k]
               n == w[l]
    <3>2. /\ m \in 1 .. N /\ i[k] \in 1 .. Len(s[m]) /\ t[k] = s[m][i[k]]
          /\ n \in 1 .. N /\ i[l] \in 1 .. Len(s[n]) /\ t[l] = s[n][i[l]]
      BY <2>4, Zenon
    <3>3. m < n \/ (m = n /\ i[k] < i[l])
      BY <3>1
    <3> HIDE DEF m, n
    <3>4. CASE m = n /\ i[k] < i[l]
      <4>1. Rising(s[m])
        BY <1>5, <2>10, <3>2
      <4> QED BY <3>2, <3>4, <4>1, Zenon DEF Rising
    <3>5. CASE m < n
      <4>1. Has(s[m], t[k]) /\ Has(s[n], t[l])
        BY <3>2, Zenon DEF Has
      <4>2. Has(p[m], t[k]) /\ Has(p[n], t[l])
        BY <1>5, <2>7, <3>2, <4>1, Zenon
      <4>3. t[k] \in Nat \ {0} /\ t[l] \in Nat \ {0}
        <5>1. t[k] \in Symbols /\ t[l] \in Symbols
          BY <2>8
        <5> QED BY <5>1 DEF Symbols, Space, Newline, Period, Control
      <4>4. t[k] \in Letters(p[m]) /\ t[l] \in Letters(p[n])
        BY <2>8, <3>2, <4>2, <4>3, LettersAre, Zenon
      <4> QED BY <2>10, <3>2, <3>5, <4>4, Zenon DEF Sorted, N
    <3> QED BY <3>3, <3>4, <3>5
  <2> QED BY <2>2, <2>5, <2>6, <2>9, <2>10 DEF t, N
<1> QED BY <1>7, <1>8

LEMMA JoinedEmpty == \A separator : Joined(<<>>, separator) = <<>>
<1> SUFFICES ASSUME NEW separator PROVE Joined(<<>>, separator) = <<>>
  OBVIOUS
<1> DEFINE s == [n \in DOMAIN <<>> |-> IF n = 1 THEN <<>>[n] ELSE separator \o <<>>[n]]
<1>1. s = <<>>
  OBVIOUS
<1>2. Joined(<<>>, separator) = FlattenSeq(s)
  BY DEF Joined
<1> QED BY <1>1, <1>2, FlatEmpty

\* How long a join gets by one more text.
LEMMA JoinedAppend ==
  ASSUME NEW S, NEW p \in Seq(Seq(S)), NEW separator \in Seq(S), NEW x \in Seq(S)
  PROVE  Len(Joined(Append(p, x), separator)) =
           IF p = <<>> THEN Len(x) ELSE Len(Joined(p, separator)) + Len(separator) + Len(x)
<1> DEFINE N == Len(p)
           lead(r, n) == IF n = 1 THEN r[n] ELSE separator \o r[n]
           long == Append(p, x)
           s == [n \in DOMAIN p |-> lead(p, n)]
           l == [n \in DOMAIN long |-> lead(long, n)]
           y == IF N = 0 THEN x ELSE separator \o x
<1>1. N \in Nat /\ DOMAIN p = 1 .. N /\ \A n \in 1 .. N : p[n] \in Seq(S)
  OBVIOUS
<1>2. /\ Len(long) = N + 1 /\ DOMAIN long = 1 .. N + 1 /\ long[N + 1] = x
      /\ \A n \in 1 .. N : long[n] = p[n]
  <2>1. Len(long) = N + 1 /\ long[N + 1] = x /\ \A n \in 1 .. N : long[n] = p[n]
    BY AppendProperties
  <2>2. long \in Seq(Seq(S))
    OBVIOUS
  <2> HIDE DEF long
  <2> QED BY <2>1, <2>2
<1>3. Joined(p, separator) = FlattenSeq(s) /\ Joined(long, separator) = FlattenSeq(l)
  BY Zenon DEF Joined
<1>4. y \in Seq(S) /\ Len(y) = Len(x) + (IF N = 0 THEN 0 ELSE Len(separator))
  <2>1. separator \o x \in Seq(S) /\ Len(separator \o x) = Len(separator) + Len(x)
    BY ConcatProperties
  <2>2. Len(x) \in Nat /\ Len(separator) \in Nat
    OBVIOUS
  <2> QED BY <2>1, <2>2
<1> HIDE DEF long
<1>5. s \in Seq(Seq(S)) /\ Len(s) = N
  <2>1. ASSUME NEW n \in 1 .. N PROVE s[n] \in Seq(S)
    <3>1. p[n] \in Seq(S)
      BY <1>1
    <3>2. separator \o p[n] \in Seq(S)
      BY <3>1, ConcatProperties
    <3>3. s[n] = lead(p, n)
      BY <1>1
    <3> QED BY <3>1, <3>2, <3>3
  <2>2. DOMAIN s = 1 .. N
    BY <1>1
  <2> HIDE DEF lead
  <2>3. s \in [1 .. N -> Seq(S)]
    BY <2>1, <2>2
  <2> HIDE DEF s, N
  <2> QED BY <1>1, <2>3, IsSeq
<1>6. l = Append(s, y)
  <2>1. /\ Append(s, y) \in Seq(Seq(S)) /\ Len(Append(s, y)) = N + 1 /\ Append(s, y)[N + 1] = y
        /\ \A n \in 1 .. N : Append(s, y)[n] = s[n]
    <3> HIDE DEF s, y
    <3>1. /\ Len(Append(s, y)) = N + 1 /\ Append(s, y)[N + 1] = y
          /\ \A n \in 1 .. N : Append(s, y)[n] = s[n]
      BY <1>4, <1>5, AppendProperties
    <3>2. Append(s, y) \in Seq(Seq(S))
      BY <1>4, <1>5
    <3> QED BY <3>1, <3>2
  <2>2. ASSUME NEW n \in 1 .. N + 1 PROVE lead(long, n) = IF n = N + 1 THEN y ELSE s[n]
    <3>1. CASE n = N + 1
      <4>1. long[n] = x /\ (n = 1 <=> N = 0)
        BY <1>1, <1>2, <3>1
      <4> QED BY <3>1, <4>1
    <3>2. CASE n # N + 1
      <4>1. n \in 1 .. N
        BY <1>1, <3>2
      <4>2. s[n] = lead(p, n) /\ long[n] = p[n]
        BY <1>1, <1>2, <4>1
      <4> QED BY <3>2, <4>2
    <3> QED BY <3>1, <3>2
  <2>3. l = [n \in 1 .. N + 1 |-> lead(long, n)]
    BY <1>2
  <2>4. \A n \in 1 .. N + 1 : n = N + 1 \/ n \in 1 .. N
    BY <1>1
  <2> HIDE DEF lead, l, s, y, N
  <2>5. \A n \in 1 .. N + 1 : l[n] = IF n = N + 1 THEN y ELSE s[n]
    BY <2>2, <2>3
  <2>6. \A n \in 1 .. N : s[n] \in Seq(S)
    BY <1>5
  <2>7. l \in [1 .. N + 1 -> Seq(S)]
    BY <1>4, <2>3, <2>4, <2>5, <2>6
  <2>8. N + 1 \in Nat
    BY <1>1
  <2>9. l \in Seq(Seq(S)) /\ Len(l) = N + 1
    <3> DEFINE M == N + 1
    <3>1. M \in Nat /\ l \in [1 .. M -> Seq(S)]
      BY <2>7, <2>8
    <3> HIDE DEF M
    <3>2. l \in Seq(Seq(S)) /\ Len(l) = M
      BY <3>1, IsSeq
    <3> QED BY <3>2 DEF M
  <2>10. \A n \in 1 .. N + 1 : l[n] = Append(s, y)[n]
    BY <2>1, <2>4, <2>5
  <2> QED BY <2>1, <2>9, <2>10, SeqEqual, Zenon
<1> HIDE DEF l, s, y
<1>7. FlattenSeq(l) = FlattenSeq(s) \o y
  BY <1>4, <1>5, <1>6, FlatAppend, Zenon
<1>8. CASE N = 0
  <2>1. s = <<>> /\ p = <<>>
    BY <1>5, <1>8, EmptySeq
  <2>2. FlattenSeq(l) = y
    BY <1>4, <1>7, <2>1, FlatEmpty, ConcatEmptySeq, Zenon
  <2>3. Len(y) = Len(x)
    BY <1>4, <1>8
  <2> QED BY <1>3, <2>1, <2>2, <2>3 DEF long
<1>9. CASE N # 0
  <2>1. p # <<>>
    BY <1>9
  <2>2. FlattenSeq(s) \in Seq(S)
    <3>1. N \in Nat \ {0} /\ \A n \in 1 .. N : s[n] \in Seq(S)
      BY <1>1, <1>5, <1>9
    <3> HIDE DEF N
    <3> QED BY <1>5, <3>1, FlatLocated
  <2>3. Len(FlattenSeq(l)) = Len(FlattenSeq(s)) + Len(y)
    BY <1>4, <1>7, <2>2, ConcatProperties, Zenon
  <2>4. Len(y) = Len(x) + Len(separator)
    BY <1>4, <1>9
  <2>5. Len(FlattenSeq(s)) \in Nat /\ Len(x) \in Nat /\ Len(separator) \in Nat
    BY <2>2
  <2> QED BY <1>3, <2>1, <2>3, <2>4, <2>5 DEF long
<1> QED BY <1>8, <1>9

-----------------------------------------------------------------------------
(* Texts that cover letters.                                               *)

\* u follows t in a file: they overlap by no more than the settings allow, and u ends
\* beyond t unless it has a period.
Follows(t, u, z) ==
  /\ Cardinality(Letters(t) \cap Letters(u)) <= z.overlap
  /\ Has(u, Period) \/ \E c \in Letters(u) : \A b \in Letters(t) : b < c

\* The texts T cover the letters L: none is longer than a passage, each holds an
\* unbroken stretch of L, every letter is in one, and each follows the one before.
Covers(T, L, z) ==
  /\ T \in Seq(Text) /\ L \subseteq Nat \ {0}
  /\ \A n \in 1 .. Len(T) : Len(T[n]) \in 1 .. z.size /\ ~Blank(T[n]) /\ Letters(T[n]) \subseteq L
  /\ \A n \in 1 .. Len(T) : \A a, b \in Letters(T[n]) : \A c \in L :
       a <= c /\ c <= b => c \in Letters(T[n])
  /\ \A c \in L : \E n \in 1 .. Len(T) : c \in Letters(T[n])
  /\ \A n \in 2 .. Len(T) : Follows(T[n - 1], T[n], z)

LEMMA LettersCount ==
  ASSUME NEW t \in Seq(Symbols)
  PROVE  /\ IsFiniteSet(Letters(t)) /\ Cardinality(Letters(t)) \in Nat
         /\ Cardinality(Letters(t)) <= Len(t)
<1> DEFINE P == {i \in 1 .. Len(t) : t[i] > 0}
           f == [i \in P |-> t[i]]
           L == Letters(t)
<1>1. DOMAIN t = 1 .. Len(t) /\ Len(t) \in Nat
  OBVIOUS
<1>2. L = {t[i] : i \in P}
  BY <1>1 DEF Letters
<1>3. IsFiniteSet(1 .. Len(t)) /\ Cardinality(1 .. Len(t)) = Len(t)
  BY <1>1, Counting
<1>4. P \subseteq 1 .. Len(t)
  OBVIOUS
<1> HIDE DEF L
<1>5. f \in Surjection(P, L)
  BY <1>2 DEF Surjection
<1> HIDE DEF P, f
<1>6. IsFiniteSet(P) /\ Cardinality(P) <= Len(t) /\ Cardinality(P) \in Nat
  BY <1>3, <1>4, FS_Subset, FS_CardinalityType, Zenon
<1>7. IsFiniteSet(L) /\ Cardinality(L) <= Cardinality(P) /\ Cardinality(L) \in Nat
  BY <1>5, <1>6, FS_Surjection, FS_CardinalityType
<1> QED BY <1>1, <1>6, <1>7 DEF L

\* One text more.
LEMMA CoversAppend ==
  ASSUME NEW z, z.overlap \in Nat, NEW T, NEW J, NEW K, Covers(T, J, z), NEW x \in Text,
         Len(x) \in 1 .. z.size, ~Blank(x),
         Letters(x) \subseteq J \cup K, K \subseteq Letters(x),
         \A c \in J : \A d \in K : c < d,
         \A c \in J : \A a \in Letters(x) : a <= c => c \in Letters(x),
         T # <<>> => /\ Cardinality(Letters(x) \cap J) <= z.overlap
                     /\ Has(x, Period) \/ K # {}
  PROVE  Covers(Append(T, x), J \cup K, z)
<1> DEFINE N == Len(T)
           U == Append(T, x)
           L == J \cup K
<1>1. /\ T \in Seq(Text) /\ J \subseteq Nat \ {0}
      /\ \A n \in 1 .. N : Len(T[n]) \in 1 .. z.size /\ ~Blank(T[n]) /\ Letters(T[n]) \subseteq J
      /\ \A n \in 1 .. N : \A a, b \in Letters(T[n]) : \A c \in J : a <= c /\ c <= b => c \in Letters(T[n])
      /\ \A c \in J : \E n \in 1 .. N : c \in Letters(T[n])
      /\ \A n \in 2 .. N : Follows(T[n - 1], T[n], z)
  BY DEF Covers
<1>2. /\ N \in Nat /\ Len(U) = N + 1 /\ U[N + 1] = x /\ U \in Seq(Text)
      /\ \A n \in 1 .. N : U[n] = T[n]
  <2>1. Len(U) = N + 1 /\ U[N + 1] = x /\ \A n \in 1 .. N : U[n] = T[n]
    BY <1>1, AppendProperties
  <2>2. N \in Nat /\ U \in Seq(Text)
    BY <1>1
  <2> QED BY <2>1, <2>2
<1> HIDE DEF U, N
<1>3. x \in Seq(Symbols) /\ Letters(x) \subseteq Nat \ {0}
  BY TextsAreSymbols, LettersAre
<1>4. L \subseteq Nat \ {0} /\ K \subseteq Nat \ {0}
  BY <1>1, <1>3, Zenon
<1>5. \A n \in 1 .. N + 1 : n = N + 1 \/ n \in 1 .. N
  BY <1>2
<1>6. \A n \in 1 .. N + 1 : Len(U[n]) \in 1 .. z.size /\ ~Blank(U[n]) /\ Letters(U[n]) \subseteq L
  BY <1>1, <1>2, <1>5
<1>7. ASSUME NEW n \in 1 .. N + 1, NEW a \in Letters(U[n]), NEW b \in Letters(U[n]), NEW c \in L, a <= c, c <= b
      PROVE  c \in Letters(U[n])
  <2>1. CASE n \in 1 .. N
    <3>1. U[n] = T[n] /\ a \in J /\ b \in J
      BY <1>1, <1>2, <2>1, Zenon
    <3>2. c \notin K
      <4> SUFFICES ASSUME c \in K PROVE FALSE
        OBVIOUS
      <4>1. b < c /\ b \in Nat /\ c \in Nat
        BY <1>1, <1>4, <3>1
      <4> QED BY <1>7, <4>1
    <3>3. c \in J
      BY <3>2
    <3> QED BY <1>1, <1>7, <2>1, <3>1, <3>3
  <2>2. CASE n = N + 1
    <3>1. U[n] = x
      BY <1>2, <2>2
    <3> QED BY <1>7, <3>1
  <2> QED BY <1>5, <2>1, <2>2
<1>8. ASSUME NEW c \in L PROVE \E n \in 1 .. N + 1 : c \in Letters(U[n])
  <2>1. CASE c \in J
    <3>1. PICK n \in 1 .. N : c \in Letters(T[n])
      BY <1>1, <2>1
    <3>2. n \in 1 .. N + 1 /\ U[n] = T[n]
      BY <1>2
    <3> QED BY <3>1, <3>2
  <2>2. CASE c \in K
    <3>1. N + 1 \in 1 .. N + 1
      BY <1>2
    <3> QED BY <1>2, <2>2, <3>1
  <2> QED BY <2>1, <2>2
<1>9. ASSUME NEW n \in 2 .. N + 1 PROVE Follows(U[n - 1], U[n], z)
  <2>1. CASE n \in 2 .. N
    <3>1. n \in 1 .. N /\ n - 1 \in 1 .. N
      BY <1>2, <2>1
    <3> QED BY <1>1, <1>2, <2>1, <3>1
  <2>2. CASE n = N + 1
    <3>1. n - 1 = N /\ N \in 1 .. N
      BY <1>2, <2>2
    <3>2. U[n - 1] = T[N] /\ U[n] = x /\ Letters(T[N]) \subseteq J
      BY <1>1, <1>2, <2>2, <3>1
    <3>3. T # <<>>
      BY <3>1 DEF N
    <3>4. Cardinality(Letters(T[N]) \cap Letters(x)) <= z.overlap
      <4> DEFINE A == Letters(T[N]) \cap Letters(x)
                 B == Letters(x) \cap J
      <4>1. A \subseteq B /\ B \subseteq Letters(x)
        BY <3>2
      <4>2. IsFiniteSet(Letters(x))
        BY <1>3, LettersCount
      <4>3. Cardinality(B) <= z.overlap
        BY <3>3
      <4> HIDE DEF A, B
      <4>4. IsFiniteSet(B)
        BY <4>1, <4>2, FS_Subset
      <4>5. IsFiniteSet(A) /\ Cardinality(A) <= Cardinality(B)
        BY <4>1, <4>4, FS_Subset
      <4>6. Cardinality(A) \in Nat /\ Cardinality(B) \in Nat
        BY <4>4, <4>5, FS_CardinalityType
      <4>7. Cardinality(A) <= z.overlap
        BY <4>3, <4>5, <4>6
      <4> QED BY <4>7 DEF A
    <3>5. Has(x, Period) \/ \E c \in Letters(x) : \A b \in Letters(T[N]) : b < c
      <4> SUFFICES ASSUME NEW c \in K PROVE \E e \in Letters(x) : \A b \in Letters(T[N]) : b < e
        BY <3>3
      <4>1. c \in Letters(x) /\ \A b \in Letters(T[N]) : b < c
        BY <3>2
      <4> QED BY <4>1
    <3> QED BY <3>2, <3>4, <3>5 DEF Follows
  <2>3. n \in 2 .. N \/ n = N + 1
    BY <1>2
  <2> QED BY <2>1, <2>2, <2>3
<1> HIDE DEF L
<1>10. Covers(U, L, z)
  BY <1>2, <1>4, <1>6, <1>7, <1>8, <1>9 DEF Covers
<1> QED BY <1>10 DEF U, L

LEMMA CoversNothing == \A z : Covers(<<>>, {}, z)
BY DEF Covers

\* A text of later letters follows.
LEMMA FollowsApart ==
  ASSUME NEW z, z.overlap \in Nat, NEW u, Letters(u) \subseteq Nat, NEW v \in Text, ~Blank(v),
         \A a \in Letters(u) : \A b \in Letters(v) : a < b
  PROVE  Follows(u, v, z)
<1>1. Letters(u) \cap Letters(v) = {}
  <2> SUFFICES ASSUME NEW c \in Letters(u) \cap Letters(v) PROVE FALSE
    OBVIOUS
  <2>1. c < c /\ c \in Nat
    OBVIOUS
  <2> QED BY <2>1
<1>2. Cardinality(Letters(u) \cap Letters(v)) <= z.overlap
  <2>1. Cardinality({}) = 0
    BY FS_EmptySet
  <2>2. Cardinality(Letters(u) \cap Letters(v)) = 0
    BY <1>1, <2>1, Zenon
  <2>3. 0 <= z.overlap
    OBVIOUS
  <2> QED BY <2>2, <2>3
<1>3. Has(v, Period) \/ Letters(v) # {}
  BY SolidHas
<1> QED BY <1>2, <1>3 DEF Follows

\* Texts that cover one stretch of letters after the other.
LEMMA CoversFlat ==
  ASSUME NEW z, z.overlap \in Nat, NEW N \in Nat, NEW s, Len(s) = N, s \in Seq(Seq(Text)), NEW L,
         \A n \in 1 .. N : Covers(s[n], L[n], z),
         \A m, n \in 1 .. N : m < n => \A a \in L[m], b \in L[n] : a < b
  PROVE  Covers(FlattenSeq(s), UNION {L[n] : n \in 1 .. N}, z)
<1> DEFINE M == UNION {L[n] : n \in 1 .. N}
           t == FlattenSeq(s)
<1>0. \A c : c \in M <=> \E n \in 1 .. N : c \in L[n]
  BY Zenon
<1> HIDE DEF M
<1>1. CASE N = 0
  <2>1. s = <<>>
    BY <1>1, EmptySeq
  <2>2. t = <<>> /\ M = {}
    BY <1>0, <1>1, <2>1, FlatEmpty
  <2> QED BY <2>2, CoversNothing, Zenon DEF M
<1>2. CASE N # 0
  <2>1. N \in Nat \ {0} /\ \A n \in 1 .. N : s[n] \in Seq(Text)
    BY <1>2
  <2>2. t \in Seq(Text) /\ \E w, i : Located(t, s, N, w, i)
    BY <2>1, FlatLocated
  <2>3. PICK w, i : Located(t, s, N, w, i)
    BY <2>2
  <2> HIDE DEF t
  <2>4. \A k \in 1 .. Len(t) : w[k] \in 1 .. N /\ i[k] \in 1 .. Len(s[w[k]]) /\ t[k] = s[w[k]][i[k]]
    BY <2>3, Zenon DEF Located
  <2>5. \A n \in 1 .. N :
          /\ L[n] \subseteq Nat \ {0}
          /\ \A h \in 1 .. Len(s[n]) : Len(s[n][h]) \in 1 .. z.size /\ ~Blank(s[n][h]) /\ Letters(s[n][h]) \subseteq L[n]
          /\ \A h \in 1 .. Len(s[n]) : \A a, b \in Letters(s[n][h]) : \A c \in L[n] :
               a <= c /\ c <= b => c \in Letters(s[n][h])
          /\ \A c \in L[n] : \E h \in 1 .. Len(s[n]) : c \in Letters(s[n][h])
          /\ \A h \in 2 .. Len(s[n]) : Follows(s[n][h - 1], s[n][h], z)
    BY Zenon DEF Covers
  <2>6. M \subseteq Nat \ {0}
    BY <1>0, <2>5
  <2>7. \A k \in 1 .. Len(t) : Len(t[k]) \in 1 .. z.size /\ ~Blank(t[k]) /\ Letters(t[k]) \subseteq L[w[k]]
    BY <2>4, <2>5, Zenon
  <2>8. \A k \in 1 .. Len(t) : Letters(t[k]) \subseteq M
    BY <1>0, <2>4, <2>7, Zenon
  <2>9. ASSUME NEW k \in 1 .. Len(t), NEW a \in Letters(t[k]), NEW b \in Letters(t[k]), NEW c \in M, a <= c, c <= b
        PROVE  c \in Letters(t[k])
    <3> DEFINE m == w[k]
               h == i[k]
    <3>1. m \in 1 .. N /\ h \in 1 .. Len(s[m]) /\ t[k] = s[m][h]
      BY <2>4
    <3> HIDE DEF m, h
    <3>2. PICK n \in 1 .. N : c \in L[n]
      BY <1>0
    <3>3. a \in L[m] /\ b \in L[m]
      BY <2>5, <3>1, Zenon
    <3>4. a \in Nat /\ b \in Nat /\ c \in Nat
      BY <2>5, <3>1, <3>2, <3>3, Zenon
    <3>5. ~(n < m)
      <4> SUFFICES ASSUME n < m PROVE FALSE
        OBVIOUS
      <4>1. c < a
        BY <3>1, <3>2, <3>3
      <4> QED BY <2>9, <3>4, <4>1
    <3>6. ~(m < n)
      <4> SUFFICES ASSUME m < n PROVE FALSE
        OBVIOUS
      <4>1. b < c
        BY <3>1, <3>2, <3>3
      <4> QED BY <2>9, <3>4, <4>1
    <3>7. n = m
      BY <3>1, <3>5, <3>6
    <3> QED BY <2>5, <2>9, <3>1, <3>2, <3>7
  <2>10. ASSUME NEW c \in M PROVE \E k \in 1 .. Len(t) : c \in Letters(t[k])
    <3>1. PICK n \in 1 .. N : c \in L[n]
      BY <1>0, Zenon
    <3>2. PICK h \in 1 .. Len(s[n]) : c \in Letters(s[n][h])
      BY <2>5, <3>1, Zenon
    <3>3. PICK k \in 1 .. Len(t) : w[k] = n /\ i[k] = h
      BY <2>3 DEF Located
    <3> QED BY <2>4, <3>2, <3>3
  <2>11. ASSUME NEW k \in 2 .. Len(t) PROVE Follows(t[k - 1], t[k], z)
    <3>1. k \in 1 .. Len(t) /\ k - 1 \in 1 .. Len(t)
      BY <2>2
    <3> DEFINE m == w[k - 1]
               n == w[k]
               f == i[k - 1]
               h == i[k]
               u == t[k - 1]
               v == t[k]
    <3>2. /\ m \in 1 .. N /\ f \in 1 .. Len(s[m]) /\ u = s[m][f]
          /\ n \in 1 .. N /\ h \in 1 .. Len(s[n]) /\ v = s[n][h]
      BY <2>4, <3>1, Zenon
    <3>3. m < n \/ (m = n /\ h = f + 1)
      BY <2>3 DEF Located
    <3>4. v \in Text /\ ~Blank(v)
      BY <2>2, <2>7, <3>1
    <3> HIDE DEF m, n, f, h, u, v
    <3>5. CASE m = n /\ h = f + 1
      <4>1. h \in 2 .. Len(s[m]) /\ h - 1 = f
        BY <3>2, <3>5
      <4>2. Follows(s[m][h - 1], s[m][h], z)
        BY <2>5, <3>2, <4>1
      <4>3. Follows(u, v, z)
        BY <3>2, <3>5, <4>1, <4>2
      <4> QED BY <4>3 DEF u, v
    <3>6. CASE m < n
      <4>1. Letters(u) \subseteq L[m] /\ Letters(v) \subseteq L[n] /\ L[m] \subseteq Nat
        BY <2>5, <3>2, Zenon
      <4>2. \A a \in Letters(u) : \A b \in Letters(v) : a < b
        BY <3>2, <3>6, <4>1, Zenon
      <4>3. Letters(u) \subseteq Nat
        BY <4>1
      <4>4. Follows(u, v, z)
        BY <3>4, <4>2, <4>3, FollowsApart, Zenon
      <4> QED BY <4>4 DEF u, v
    <3> QED BY <3>3, <3>5, <3>6
  <2>12. \A k \in 1 .. Len(t) : Len(t[k]) \in 1 .. z.size /\ ~Blank(t[k])
    BY <2>7
  <2>13. Covers(t, M, z)
    BY <2>2, <2>6, <2>8, <2>9, <2>10, <2>11, <2>12 DEF Covers
  <2> QED BY <2>13 DEF t, M
<1> QED BY <1>1, <1>2

-----------------------------------------------------------------------------
(* Merging.                                                                *)

\* The letters of the parts from k to n.
Span(p, k, n) == UNION {Letters(p[m]) : m \in k .. n}

LEMMA KeptIs ==
  ASSUME NEW q \in Seq(Text), NEW separator, NEW more, NEW z
  PROVE  \E k \in 1 .. Len(q) + 1 :
           /\ Kept(q, separator, more, z) = SubSeq(q, k, Len(q))
           /\ \/ Len(Joined(SubSeq(q, k, Len(q)), separator)) = 0
              \/ /\ Len(Joined(SubSeq(q, k, Len(q)), separator)) <= z.overlap
                 /\ Len(Joined(SubSeq(q, k, Len(q)), separator)) + more <= z.size
<1> DEFINE length(k) == Len(Joined(SubSeq(q, k, Len(q)), separator))
           fits(k) == length(k) = 0 \/ (length(k) <= z.overlap /\ length(k) + more <= z.size)
           first(k) == fits(k) /\ \A j \in 1 .. k - 1 : ~fits(j)
           k0 == CHOOSE k \in 1 .. Len(q) + 1 : first(k)
<1>1. Kept(q, separator, more, z) = SubSeq(q, k0, Len(q))
  BY Zenon DEF Kept
<1>2. fits(Len(q) + 1)
  <2>1. Len(q) \in Nat
    OBVIOUS
  <2>2. SubSeq(q, Len(q) + 1, Len(q)) = <<>>
    BY <2>1, SubSeqEmpty
  <2>3. length(Len(q) + 1) = 0
    <3>1. Joined(<<>>, separator) = <<>> /\ Len(<<>>) = 0
      BY JoinedEmpty
    <3>2. Joined(SubSeq(q, Len(q) + 1, Len(q)), separator) = <<>>
      BY <2>2, <3>1, Zenon
    <3> HIDE DEF fits
    <3> QED BY <3>1, <3>2
  <2> QED BY <2>3
<1> HIDE DEF fits, length
<1>3. \E k \in 1 .. Len(q) + 1 : first(k)
  <2> DEFINE T == {k \in 1 .. Len(q) + 1 : fits(k)}
  <2>1. T \in SUBSET Nat /\ Len(q) + 1 \in T
    <3>1. Len(q) \in Nat
      OBVIOUS
    <3>2. Len(q) + 1 \in 1 .. Len(q) + 1
      BY <3>1
    <3> QED BY <1>2, <3>2
  <2>2. PICK k \in T : \A j \in T : k <= j
    <3> HIDE DEF T
    <3> QED BY <2>1, LeastNatural
  <2>3. \A j \in 1 .. k - 1 : ~fits(j)
    <3> SUFFICES ASSUME NEW j \in 1 .. k - 1, fits(j) PROVE FALSE
      OBVIOUS
    <3>1. j \in T /\ ~(k <= j)
      <4>1. k \in 1 .. Len(q) + 1 /\ Len(q) \in Nat
        OBVIOUS
      <4>2. j \in 1 .. Len(q) + 1 /\ ~(k <= j)
        BY <4>1
      <4> QED BY <4>2
    <3> HIDE DEF T
    <3> QED BY <2>2, <3>1
  <2> QED BY <2>3
<1>4. k0 \in 1 .. Len(q) + 1 /\ first(k0)
  <2> HIDE DEF first
  <2> QED BY <1>3
<1> QED BY <1>1, <1>4, Zenon DEF fits, length

\* Some of the parts, joined.
LEMMA SpanJoined ==
  ASSUME NEW E, NEW p, Mergeable(p, E), NEW separator \in Text,
         \A j \in 1 .. Len(separator) : ~(separator[j] > 0),
         NEW n \in 1 .. Len(p), NEW k \in 1 .. n
  PROVE  /\ SubSeq(p, k, n) \in Seq(Text) /\ Len(SubSeq(p, k, n)) = n - k + 1
         /\ Joined(SubSeq(p, k, n), separator) \in Text
         /\ Letters(Joined(SubSeq(p, k, n), separator)) = Span(p, k, n)
         /\ Len(Joined(SubSeq(p, k, n), separator)) # 0
         /\ n # 1 => /\ ~Blank(Joined(SubSeq(p, k, n), separator))
                     /\ \/ Has(Joined(SubSeq(p, k, n), separator), Period)
                        \/ Letters(p[n]) # {}
<1> DEFINE q == SubSeq(p, k, n)
           t == Joined(q, separator)
<1>1. /\ p \in Seq(Text) /\ Len(p) \in Nat
      /\ p[n] \in Text /\ p[n] # <<>> /\ (n # 1 => ~Blank(p[n]))
  BY DEF Mergeable
<1>2. /\ q \in Seq(Text) /\ Len(q) = n - k + 1
      /\ \A i \in 1 .. Len(q) : q[i] = p[k + i - 1]
  <2>1. n \in 0 .. Len(p) /\ k \in 1 .. Len(p) + 1 /\ k <= n
    BY <1>1
  <2>2. /\ q \in Seq(Text) /\ (k <= n => Len(q) = n - k + 1)
        /\ \A i \in 1 .. Len(q) : q[i] = p[k + i - 1]
    BY <1>1, <2>1, SubSeqIs
  <2> QED BY <2>1, <2>2, Zenon
<1> HIDE DEF q
<1>3. /\ t \in Text
      /\ Letters(t) = LettersIn(q)
      /\ \A i \in 1 .. Len(q) : \A c : Has(q[i], c) => Has(t, c)
  <2>1. Clean \in {Clean, Symbols} /\ q \in Seq(Seq(Clean)) /\ separator \in Seq(Clean)
    BY <1>2 DEF Text
  <2>2. /\ t \in Seq(Clean)
        /\ Letters(t) = LettersIn(q)
        /\ \A i \in 1 .. Len(q) : \A c : Has(q[i], c) => Has(t, c)
    BY <2>1, JoinedIs
  <2> QED BY <2>2 DEF Text
<1> HIDE DEF t
<1>4. n - k + 1 \in 1 .. Len(q) /\ k + (n - k + 1) - 1 = n
  BY <1>1, <1>2
<1>5. \A c : Has(p[n], c) => Has(t, c)
  BY <1>2, <1>3, <1>4
<1>6. LettersIn(q) = Span(p, k, n)
  <2>1. \A c : c \in LettersIn(q) <=> \E i \in 1 .. Len(q) : c \in Letters(q[i])
    BY DEF LettersIn
  <2>2. \A c : c \in Span(p, k, n) <=> \E m \in k .. n : c \in Letters(p[m])
    BY DEF Span
  <2>3. \A i \in 1 .. Len(q) : k + i - 1 \in k .. n
    BY <1>2
  <2>4. \A m \in k .. n : m - k + 1 \in 1 .. Len(q) /\ q[m - k + 1] = p[m]
    <3> SUFFICES ASSUME NEW m \in k .. n PROVE m - k + 1 \in 1 .. Len(q) /\ q[m - k + 1] = p[m]
      OBVIOUS
    <3> DEFINE i == m - k + 1
    <3>1. i \in 1 .. Len(q) /\ k + i - 1 = m
      BY <1>2
    <3> HIDE DEF i
    <3>2. q[i] = p[m]
      BY <1>2, <3>1, Zenon
    <3> QED BY <3>1, <3>2 DEF i
  <2>5. \A c : c \in LettersIn(q) <=> c \in Span(p, k, n)
    BY <1>2, <2>1, <2>2, <2>3, <2>4
  <2> QED BY <2>5, Zenon
<1>7. p[n] \in Seq(Symbols) /\ t \in Seq(Symbols)
  BY <1>1, <1>3, TextsAreSymbols
<1>8. Len(t) # 0
  <2>1. Len(p[n]) \in Nat /\ Len(p[n]) # 0
    BY <1>1, <1>7, EmptySeq
  <2>2. 1 \in 1 .. Len(p[n])
    BY <2>1
  <2>3. Has(p[n], p[n][1])
    BY <2>2 DEF Has
  <2>4. Has(t, p[n][1])
    BY <1>5, <2>3
  <2> QED BY <2>4 DEF Has
<1>9. ASSUME n # 1 PROVE ~Blank(t) /\ (Has(t, Period) \/ Letters(p[n]) # {})
  <2>1. PICK i \in 1 .. Len(p[n]) : p[n][i] \notin White
    BY <1>1, <1>7, <1>9, BlankIs, Zenon
  <2>2. Has(t, p[n][i])
    BY <1>5, Zenon DEF Has
  <2>3. ~Blank(t)
    BY <1>7, <2>1, <2>2, BlankIs DEF Has
  <2>4. Has(p[n], Period) \/ Letters(p[n]) # {}
    BY <1>1, <1>9, SolidHas
  <2> QED BY <1>5, <2>3, <2>4
<1> QED BY <1>2, <1>3, <1>6, <1>8, <1>9 DEF q, t

\* Of the first n parts the texts cover those up to j, the parts from k on are at hand.
Merging(m, p, separator, z, n, k, j) ==
  /\ k \in 1 .. n /\ j \in k - 1 .. n - 1
  /\ m.current = SubSeq(p, k, n)
  /\ Len(Joined(m.current, separator)) <= z.size
  /\ Covers(m.texts, Span(p, 1, j), z)
  /\ Cardinality(Span(p, k, j)) <= z.overlap
  /\ m.texts # <<>> => j # 0

LEMMA Flushed ==
  ASSUME NEW z, z.overlap \in Nat, z.size \in Nat, NEW E, NEW p, Mergeable(p, E), NEW separator \in Text,
         \A j \in 1 .. Len(separator) : ~(separator[j] > 0),
         NEW n \in 1 .. Len(p), NEW k, NEW j, NEW m, Merging(m, p, separator, z, n, k, j)
  PROVE  Covers(Appended(m.texts, Joined(m.current, separator)), Span(p, 1, n), z)
<1> DEFINE x == Joined(m.current, separator)
           J == Span(p, 1, j)
           K == Span(p, j + 1, n)
           T == m.texts
           y == Stripped(x)
<1>0. Len(p) \in Nat /\ Sorted(p) /\ \A i \in 1 .. Len(p) : p[i] \in Text
  BY DEF Mergeable
<1>1. /\ k \in 1 .. n /\ j \in k - 1 .. n - 1 /\ m.current = SubSeq(p, k, n)
      /\ Len(x) <= z.size /\ Covers(T, J, z) /\ Cardinality(Span(p, k, j)) <= z.overlap
      /\ T # <<>> => j # 0
  BY DEF Merging
<1>2. /\ x \in Text /\ Letters(x) = Span(p, k, n)
      /\ n # 1 => ~Blank(x) /\ (Has(x, Period) \/ Letters(p[n]) # {})
  <2>1. k \in 1 .. n /\ x = Joined(SubSeq(p, k, n), separator)
    BY <1>1
  <2> HIDE DEF x
  <2>2. /\ Joined(SubSeq(p, k, n), separator) \in Text
        /\ Letters(Joined(SubSeq(p, k, n), separator)) = Span(p, k, n)
        /\ n # 1 => /\ ~Blank(Joined(SubSeq(p, k, n), separator))
                    /\ \/ Has(Joined(SubSeq(p, k, n), separator), Period)
                       \/ Letters(p[n]) # {}
    BY <2>1, SpanJoined
  <2> QED BY <2>1, <2>2
<1> HIDE DEF x, T
<1>3. \A a, b, c : c \in Span(p, a, b) <=> \E i \in a .. b : c \in Letters(p[i])
  BY DEF Span
<1>4. \A i \in 1 .. Len(p) : Letters(p[i]) \subseteq Nat \ {0}
  BY <1>0, TextsAreSymbols, LettersAre
<1>5. J \cup K = Span(p, 1, n)
  <2>1. \A i : i \in 1 .. n <=> i \in 1 .. j \/ i \in j + 1 .. n
    BY <1>0, <1>1
  <2>2. \A c : c \in Span(p, 1, n) <=> c \in J \/ c \in K
    BY <1>3, <2>1
  <2> HIDE DEF J, K
  <2> QED BY <2>2
<1>6. CASE Blank(x)
  <2>1. n = 1 /\ j = 0 /\ k = 1 /\ T = <<>>
    BY <1>0, <1>1, <1>2, <1>6
  <2>2. Letters(x) = {}
    <3> SUFFICES ASSUME NEW c \in Letters(x) PROVE FALSE
      OBVIOUS
    <3>1. x \in Seq(Symbols)
      BY <1>2, TextsAreSymbols
    <3>2. c \in Nat \ {0} /\ Has(x, c)
      BY <3>1, LettersAre
    <3> QED BY <1>6, <3>1, <3>2, BlankIs, TextsAreSymbols DEF Has
  <2>3. Span(p, 1, n) = {}
    BY <1>2, <2>1, <2>2
  <2>4. Appended(T, x) = <<>>
    BY <1>6, <2>1 DEF Appended
  <2> QED BY <2>3, <2>4, CoversNothing, Zenon DEF x, T
<1>7. CASE ~Blank(x)
  <2>1. /\ y \in Text /\ Len(y) <= Len(x) /\ Letters(y) = Letters(x)
        /\ Has(x, Period) => Has(y, Period)
        /\ Len(y) # 0 /\ ~Blank(y)
    <3>1. Clean \in {Clean, Symbols} /\ x \in Seq(Clean)
      BY <1>2 DEF Text
    <3>2. /\ y \in Seq(Clean) /\ Len(y) <= Len(x) /\ Letters(y) = Letters(x)
          /\ Has(x, Period) => Has(y, Period)
          /\ Len(y) # 0 /\ ~Blank(y)
      BY <1>7, <3>1, StripIs
    <3> QED BY <3>2 DEF Text
  <2> HIDE DEF y
  <2>2. Len(y) \in 1 .. z.size
    <3>1. Len(y) \in Nat /\ Len(x) \in Nat
      BY <1>2, <2>1 DEF Text
    <3> QED BY <1>1, <2>1, <3>1
  <2>3. \A c \in J : \A d \in K : c < d
    <3> SUFFICES ASSUME NEW c \in J, NEW d \in K PROVE c < d
      OBVIOUS
    <3>1. PICK a \in 1 .. j : c \in Letters(p[a])
      BY <1>3
    <3>2. PICK b \in j + 1 .. n : d \in Letters(p[b])
      BY <1>3
    <3>3. a \in 1 .. Len(p) /\ b \in 1 .. Len(p) /\ a < b
      BY <1>0, <1>1, <3>1, <3>2
    <3> QED BY <1>0, <3>1, <3>2, <3>3 DEF Sorted
  <2>4. Letters(y) \subseteq J \cup K
    <3>1. \A i \in k .. n : i \in 1 .. n
      BY <1>1
    <3>2. Span(p, k, n) \subseteq Span(p, 1, n)
      BY <1>3, <3>1
    <3> QED BY <1>2, <1>5, <2>1, <3>2
  <2>5. K \subseteq Letters(y)
    <3>1. \A i \in j + 1 .. n : i \in k .. n
      BY <1>1
    <3>2. K \subseteq Span(p, k, n)
      BY <1>3, <3>1
    <3> QED BY <1>2, <2>1, <3>2
  <2>6. ASSUME NEW c \in J, NEW a \in Letters(y), a <= c PROVE c \in Letters(y)
    <3>1. PICK d \in 1 .. j : c \in Letters(p[d])
      BY <1>3
    <3>2. PICK b \in k .. n : a \in Letters(p[b])
      BY <1>2, <1>3, <2>1
    <3>3. b \in 1 .. Len(p) /\ d \in 1 .. Len(p)
      BY <1>0, <1>1
    <3>4. a \in Nat /\ c \in Nat
      BY <1>4, <3>1, <3>2, <3>3
    <3>5. ~(d < b)
      <4> SUFFICES ASSUME d < b PROVE FALSE
        OBVIOUS
      <4>1. c < a
        BY <1>0, <3>1, <3>2, <3>3 DEF Sorted
      <4> QED BY <2>6, <3>4, <4>1
    <3>6. d \in k .. n
      BY <1>1, <3>2, <3>3, <3>5
    <3> QED BY <1>2, <1>3, <2>1, <3>1, <3>6
  <2>7. ASSUME T # <<>>
        PROVE  Cardinality(Letters(y) \cap J) <= z.overlap /\ (Has(y, Period) \/ K # {})
    <3>1. j # 0 /\ n # 1
      BY <1>0, <1>1, <2>7
    <3>2. Has(y, Period) \/ K # {}
      <4>1. n \in j + 1 .. n
        BY <1>0, <1>1
      <4>2. Letters(p[n]) \subseteq K
        BY <1>3, <4>1
      <4> QED BY <1>2, <2>1, <3>1, <4>2
    <3>3. Letters(y) \cap J = Span(p, k, j)
      <4>1. ASSUME NEW c \in Letters(y) \cap J PROVE c \in Span(p, k, j)
        <5>1. PICK d \in 1 .. j : c \in Letters(p[d])
          BY <1>3
        <5>2. PICK b \in k .. n : c \in Letters(p[b])
          BY <1>2, <1>3, <2>1
        <5>3. d \in 1 .. Len(p) /\ b \in 1 .. Len(p)
          BY <1>0, <1>1, SMTT(20)
        <5>4. c \in Nat
          BY <1>4, <5>1, <5>3
        <5>5. ~(d < b)
          <6> SUFFICES ASSUME d < b PROVE FALSE
            OBVIOUS
          <6>1. c < c
            BY <1>0, <5>1, <5>2, <5>3 DEF Sorted
          <6> QED BY <5>4, <6>1
        <5>6. d \in k .. j
          BY <1>1, <5>1, <5>2, <5>5
        <5> QED BY <1>3, <5>1, <5>6
      <4>2. ASSUME NEW c \in Span(p, k, j) PROVE c \in Letters(y) \cap J
        <5>1. PICK d \in k .. j : c \in Letters(p[d])
          BY <1>3
        <5>2. d \in 1 .. j /\ d \in k .. n
          BY <1>1
        <5> QED BY <1>2, <1>3, <2>1, <5>1, <5>2
      <4> HIDE DEF J
      <4> QED BY <4>1, <4>2
    <3> QED BY <1>1, <3>2, <3>3, Zenon
  <2> HIDE DEF J, K
  <2>8. Covers(Append(T, y), J \cup K, z)
    BY <1>1, <2>1, <2>2, <2>3, <2>4, <2>5, <2>6, <2>7, CoversAppend, Zenon
  <2>9. Appended(T, x) = Append(T, y)
    BY <1>7 DEF Appended, y
  <2> QED BY <1>5, <2>8, <2>9, Zenon DEF x, T
<1> QED BY <1>6, <1>7

LEMMA SubSeqNext ==
  ASSUME NEW S, NEW p \in Seq(S), NEW n \in 0 .. Len(p) - 1, NEW k \in 1 .. n + 1
  PROVE  Append(SubSeq(p, k, n), p[n + 1]) = SubSeq(p, k, n + 1)
<1> DEFINE q == SubSeq(p, k, n)
           r == SubSeq(p, k, n + 1)
           x == p[n + 1]
           M == n + 1
<1>1. Len(p) \in Nat /\ n \in 0 .. Len(p) /\ M \in 0 .. Len(p) /\ k \in 1 .. Len(p) + 1 /\ k <= M /\ M \in 1 .. Len(p)
  OBVIOUS
<1>2. /\ q \in Seq(S) /\ Len(q) = n - k + 1
      /\ \A i \in 1 .. Len(q) : q[i] = p[k + i - 1]
  <2>1. /\ q \in Seq(S) /\ (k <= n => Len(q) = n - k + 1) /\ (~(k <= n) => Len(q) = 0)
        /\ \A i \in 1 .. Len(q) : q[i] = p[k + i - 1]
    BY <1>1, SubSeqIs
  <2>2. ~(k <= n) => n - k + 1 = 0
    BY <1>1
  <2> QED BY <2>1, <2>2
<1>3. /\ r \in Seq(S) /\ Len(r) = n - k + 2
      /\ \A i \in 1 .. Len(r) : r[i] = p[k + i - 1]
  <2>1. r = SubSeq(p, k, M)
    OBVIOUS
  <2> HIDE DEF M
  <2>2. SubSeq(p, k, M) \in Seq(S) /\ Len(SubSeq(p, k, M)) = M - k + 1
    BY <1>1, SubSeqIs
  <2>3. \A i \in 1 .. Len(SubSeq(p, k, M)) : SubSeq(p, k, M)[i] = p[k + i - 1]
    BY <1>1, SubSeqIs
  <2> HIDE DEF r
  <2>4. /\ r \in Seq(S) /\ Len(r) = M - k + 1
        /\ \A i \in 1 .. Len(r) : r[i] = p[k + i - 1]
    BY <2>1, <2>2, <2>3
  <2> QED BY <1>1, <2>4 DEF M
<1>4. x \in S
  <2> HIDE DEF M
  <2>1. p[M] \in S
    BY <1>1
  <2> QED BY <2>1 DEF M
<1> HIDE DEF q, r, x, M
<1>5. /\ Append(q, x) \in Seq(S) /\ Len(Append(q, x)) = n - k + 2 /\ Append(q, x)[n - k + 2] = x
      /\ \A i \in 1 .. n - k + 1 : Append(q, x)[i] = q[i]
  <2>1. /\ Len(Append(q, x)) = Len(q) + 1 /\ Append(q, x)[Len(q) + 1] = x
        /\ \A i \in 1 .. Len(q) : Append(q, x)[i] = q[i]
    BY <1>2, <1>4, AppendProperties
  <2>2. Append(q, x) \in Seq(S)
    BY <1>2, <1>4
  <2>3. n - k + 1 + 1 = n - k + 2
    OBVIOUS
  <2> QED BY <1>2, <2>1, <2>2, <2>3, Zenon
<1>6. \A i \in 1 .. n - k + 2 : Append(q, x)[i] = r[i]
  <2> SUFFICES ASSUME NEW i \in 1 .. n - k + 2 PROVE Append(q, x)[i] = r[i]
    BY Zenon
  <2>1. CASE i \in 1 .. n - k + 1
    BY <1>2, <1>3, <1>5, <2>1
  <2>2. CASE i = n - k + 2
    <3>1. r[i] = p[k + i - 1] /\ k + i - 1 = n + 1
      BY <1>3, <2>2
    <3> QED BY <1>5, <2>2, <3>1 DEF x
  <2>3. i \in 1 .. n - k + 1 \/ i = n - k + 2
    BY <1>1
  <2> QED BY <2>1, <2>2, <2>3, Zenon
<1>7. Append(q, x) = r
  BY <1>3, <1>5, <1>6, SeqEqual, Zenon
<1> QED BY <1>7 DEF q, r, x

LEMMA SubSeqTail ==
  ASSUME NEW S, NEW p \in Seq(S), NEW n \in 1 .. Len(p), NEW k \in 1 .. n, NEW h \in 1 .. n - k + 2
  PROVE  SubSeq(SubSeq(p, k, n), h, n - k + 1) = SubSeq(p, k + h - 1, n)
<1> DEFINE q == SubSeq(p, k, n)
           M == n - k + 1
           r == SubSeq(q, h, M)
           l == k + h - 1
           u == SubSeq(p, l, n)
<1>1. /\ Len(p) \in Nat /\ n \in 0 .. Len(p) /\ k \in 1 .. Len(p) + 1 /\ k <= n /\ M \in Nat
      /\ l \in 1 .. Len(p) + 1 /\ h \in 1 .. M + 1 /\ M \in 0 .. M
  OBVIOUS
<1>2. /\ q \in Seq(S) /\ Len(q) = M
      /\ \A i \in 1 .. Len(q) : q[i] = p[k + i - 1]
  <2>1. /\ q \in Seq(S) /\ (k <= n => Len(q) = n - k + 1)
        /\ \A i \in 1 .. Len(q) : q[i] = p[k + i - 1]
    BY <1>1, SubSeqIs
  <2> QED BY <1>1, <2>1
<1> HIDE DEF M, q, l
<1>3. /\ r \in Seq(S)
      /\ h <= M => Len(r) = M - h + 1
      /\ ~(h <= M) => Len(r) = 0
      /\ \A i \in 1 .. Len(r) : r[i] = q[h + i - 1]
  BY <1>1, <1>2, SubSeqIs
<1>4. /\ u \in Seq(S)
      /\ l <= n => Len(u) = n - l + 1
      /\ ~(l <= n) => Len(u) = 0
      /\ \A i \in 1 .. Len(u) : u[i] = p[l + i - 1]
  BY <1>1, SubSeqIs
<1> HIDE DEF r, u
<1>5. Len(r) = Len(u)
  <2>1. (h <= M <=> l <= n) /\ M - h + 1 = n - l + 1
    BY <1>1 DEF l, M
  <2> QED BY <1>3, <1>4, <2>1
<1>6. \A i \in 1 .. Len(r) : r[i] = u[i]
  <2> SUFFICES ASSUME NEW i \in 1 .. Len(r) PROVE r[i] = u[i]
    OBVIOUS
  <2> DEFINE g == h + i - 1
  <2>1. h <= M /\ Len(r) = M - h + 1
    BY <1>3
  <2>2. g \in 1 .. Len(q) /\ k + g - 1 = l + i - 1
    BY <1>1, <1>2, <2>1 DEF l
  <2>3. r[i] = q[g]
    BY <1>3
  <2> HIDE DEF g
  <2>4. q[g] = p[k + g - 1]
    BY <1>2, <2>2
  <2>5. u[i] = p[l + i - 1]
    BY <1>4, <1>5, Zenon
  <2> QED BY <2>2, <2>3, <2>4, <2>5, Zenon
<1>7. r = u
  BY <1>3, <1>4, <1>5, <1>6, SeqEqual, Zenon
<1> QED BY <1>7 DEF r, u, q, l, M

\* The next part joins those at hand, or a passage is finished before it.
LEMMA AddedNext ==
  ASSUME NEW z, z.overlap \in Nat, z.size \in Nat, NEW E, NEW p, Mergeable(p, E), NEW separator \in Text,
         \A j \in 1 .. Len(separator) : ~(separator[j] > 0), \A i \in 1 .. Len(p) : Len(p[i]) <= z.size,
         NEW n \in 1 .. Len(p) - 1, NEW k, NEW j, NEW m, Merging(m, p, separator, z, n, k, j)
  PROVE  \E h, i : Merging(Added(m, p[n + 1], separator, z), p, separator, z, n + 1, h, i)
<1> DEFINE x == p[n + 1]
           cur == m.current
           more == Len(x) + (IF cur = <<>> THEN 0 ELSE Len(separator))
           full == Len(Joined(cur, separator)) + more > z.size /\ cur # <<>>
           a == Added(m, x, separator, z)
           N == n + 1
<1>0. Len(p) \in Nat /\ p \in Seq(Text) /\ \A i \in 1 .. Len(p) : p[i] \in Text
  BY DEF Mergeable
<1>1. /\ k \in 1 .. n /\ j \in k - 1 .. n - 1 /\ cur = SubSeq(p, k, n)
      /\ Len(Joined(cur, separator)) <= z.size
      /\ Covers(m.texts, Span(p, 1, j), z) /\ Cardinality(Span(p, k, j)) <= z.overlap
      /\ m.texts # <<>> => j # 0
  BY DEF Merging
<1>2. n \in 1 .. Len(p) /\ N \in 1 .. Len(p) /\ n \in 0 .. Len(p) - 1
  BY <1>0
<1>3. x \in Text /\ x \in Seq(Clean) /\ Len(x) <= z.size /\ Len(x) \in Nat
  <2>1. p[N] \in Text /\ Len(p[N]) <= z.size
    <3> HIDE DEF N
    <3> QED BY <1>0, <1>2
  <2> QED BY <2>1 DEF Text
<1>4. cur \in Seq(Text) /\ Len(cur) = n - k + 1 /\ Joined(cur, separator) \in Text
  <2>1. k \in 1 .. n
    BY <1>1
  <2>2. /\ SubSeq(p, k, n) \in Seq(Text) /\ Len(SubSeq(p, k, n)) = n - k + 1
        /\ Joined(SubSeq(p, k, n), separator) \in Text
    BY <1>2, <2>1, SpanJoined
  <2> HIDE DEF cur
  <2> QED BY <1>1, <2>2
<1>5. cur # <<>>
  <2>1. Len(cur) # 0
    BY <1>1, <1>4
  <2> QED BY <2>1
<1>6. /\ a.texts = IF full THEN Appended(m.texts, Joined(cur, separator)) ELSE m.texts
      /\ a.current = Append(IF full THEN Kept(cur, separator, more, z) ELSE cur, x)
  BY Zenon DEF Added
<1>7. more = Len(x) + Len(separator) /\ Len(separator) \in Nat /\ Len(Joined(cur, separator)) \in Nat
  BY <1>4, <1>5 DEF Text
<1>8. separator \in Seq(Clean)
  BY DEF Text
<1>9. \A c \in Seq(Text) : Len(Joined(Append(c, x), separator)) =
         IF c = <<>> THEN Len(x) ELSE Len(Joined(c, separator)) + Len(separator) + Len(x)
  <2>1. Seq(Text) = Seq(Seq(Clean))
    BY DEF Text
  <2> HIDE DEF x
  <2> QED BY <1>3, <1>8, <2>1, JoinedAppend
<1>10. CASE ~full
  <2>1. a.texts = m.texts /\ a.current = Append(cur, x)
    BY <1>6, <1>10, Zenon
  <2>2. Len(Joined(cur, separator)) + more <= z.size
    <3>1. more \in Nat /\ Len(Joined(cur, separator)) \in Nat
      <4> HIDE DEF more, cur, x
      <4> QED BY <1>3, <1>7
    <3>2. ~(Len(Joined(cur, separator)) + more > z.size)
      <4> HIDE DEF more, cur
      <4> QED BY <1>5, <1>10
    <3> HIDE DEF more, cur, full
    <3> QED BY <3>1, <3>2
  <2> HIDE DEF full, a, more, cur, x
  <2>3. a.current = SubSeq(p, k, n + 1)
    <3>1. k \in 1 .. n + 1
      BY <1>1, <1>2
    <3>2. Append(SubSeq(p, k, n), p[n + 1]) = SubSeq(p, k, n + 1)
      BY <1>0, <1>2, <3>1, SubSeqNext, Zenon
    <3> QED BY <1>1, <2>1, <3>2 DEF x
  <2>4. Len(Joined(a.current, separator)) <= z.size
    <3>1. Len(Joined(a.current, separator)) = Len(Joined(cur, separator)) + Len(separator) + Len(x)
      BY <1>4, <1>5, <1>9, <2>1
    <3> QED BY <1>3, <1>7, <2>2, <3>1
  <2>5. k \in 1 .. n + 1 /\ j \in k - 1 .. (n + 1) - 1
    BY <1>1, <1>2
  <2>6. Merging(a, p, separator, z, n + 1, k, j)
    BY <1>1, <2>1, <2>3, <2>4, <2>5 DEF Merging
  <2> QED BY <2>6 DEF a, x
<1>11. CASE full
  <2> DEFINE M == n - k + 1
             kept == Kept(cur, separator, more, z)
             tail(h) == SubSeq(cur, h, Len(cur))
  <2>1. PICK h \in 1 .. Len(cur) + 1 :
           /\ kept = tail(h)
           /\ \/ Len(Joined(tail(h), separator)) = 0
              \/ /\ Len(Joined(tail(h), separator)) <= z.overlap
                 /\ Len(Joined(tail(h), separator)) + more <= z.size
    <3> HIDE DEF cur, more
    <3> QED BY <1>4, KeptIs, Zenon
  <2> DEFINE l == k + h - 1
  <2>2. a.texts = Appended(m.texts, Joined(cur, separator)) /\ a.current = Append(kept, x)
    BY <1>6, <1>11
  <2>3. Covers(a.texts, Span(p, 1, n), z)
    <3> HIDE DEF a
    <3> QED BY <1>2, <2>2, Flushed, Zenon
  <2> HIDE DEF a, full, more, cur, x
  <2>4. l \in 1 .. n + 1 /\ h \in 1 .. n - k + 2 /\ l \in k .. n + 1
    BY <1>1, <1>2, <1>4, <2>1
  <2>5. kept = SubSeq(p, l, n)
    <3>1. SubSeq(SubSeq(p, k, n), h, n - k + 1) = SubSeq(p, k + h - 1, n)
      BY <1>0, <1>1, <1>2, <2>4, SubSeqTail
    <3> QED BY <1>1, <1>4, <2>1, <3>1, Zenon
  <2>6. \/ Len(Joined(kept, separator)) = 0
        \/ /\ Len(Joined(kept, separator)) <= z.overlap
           /\ Len(Joined(kept, separator)) + more <= z.size
    BY <2>1
  <2> HIDE DEF kept, l
  <2>7. a.current = SubSeq(p, l, n + 1)
    <3>1. Append(SubSeq(p, l, n), p[n + 1]) = SubSeq(p, l, n + 1)
      BY <1>0, <1>2, <2>4, SubSeqNext, Zenon
    <3> QED BY <2>2, <2>5, <3>1 DEF x
  <2>8. l <= n => /\ kept \in Seq(Text) /\ Len(kept) = n - l + 1
                  /\ Joined(kept, separator) \in Text
                  /\ Letters(Joined(kept, separator)) = Span(p, l, n)
                  /\ Len(Joined(kept, separator)) # 0
    <3> SUFFICES ASSUME l <= n
                 PROVE  /\ kept \in Seq(Text) /\ Len(kept) = n - l + 1
                        /\ Joined(kept, separator) \in Text
                        /\ Letters(Joined(kept, separator)) = Span(p, l, n)
                        /\ Len(Joined(kept, separator)) # 0
      OBVIOUS
    <3>1. l \in 1 .. n
      BY <2>4
    <3>2. /\ SubSeq(p, l, n) \in Seq(Text) /\ Len(SubSeq(p, l, n)) = n - l + 1
          /\ Joined(SubSeq(p, l, n), separator) \in Text
          /\ Letters(Joined(SubSeq(p, l, n), separator)) = Span(p, l, n)
          /\ Len(Joined(SubSeq(p, l, n), separator)) # 0
      BY <1>2, <3>1, SpanJoined, Zenon
    <3> QED BY <2>5, <3>2
  <2>9. ~(l <= n) => kept = <<>> /\ Span(p, l, n) = {}
    <3> SUFFICES ASSUME ~(l <= n) PROVE kept = <<>> /\ Span(p, l, n) = {}
      OBVIOUS
    <3>1. n < l /\ l \in Int /\ n \in Int
      BY <2>4
    <3>2. SubSeq(p, l, n) = <<>>
      BY <3>1, SubSeqEmpty
    <3>3. \A i \in l .. n : FALSE
      BY <3>1
    <3> QED BY <2>5, <3>2, <3>3 DEF Span
  <2>10. Len(Joined(a.current, separator)) <= z.size
    <3>1. CASE l <= n
      <4>1. kept # <<>>
        <5>1. Len(kept) # 0
          BY <2>4, <2>8, <3>1
        <5> QED BY <5>1
      <4>2. Len(Joined(a.current, separator)) = Len(Joined(kept, separator)) + Len(separator) + Len(x)
        BY <1>9, <2>2, <2>8, <3>1, <4>1
      <4>3. Len(Joined(kept, separator)) \in Nat
        BY <2>8, <3>1 DEF Text
      <4> QED BY <1>3, <1>7, <2>6, <2>8, <3>1, <4>2, <4>3
    <3>2. CASE ~(l <= n)
      <4>1. kept = <<>> /\ kept \in Seq(Text)
        BY <2>9, <3>2
      <4>2. Len(Joined(a.current, separator)) = Len(x)
        BY <1>9, <2>2, <4>1, Zenon
      <4> QED BY <1>3, <4>2
    <3> QED BY <3>1, <3>2
  <2>11. Cardinality(Span(p, l, n)) <= z.overlap
    <3>1. CASE l <= n
      <4> DEFINE t == Joined(kept, separator)
      <4>1. t \in Seq(Symbols) /\ Letters(t) = Span(p, l, n) /\ Len(t) <= z.overlap
        BY <2>6, <2>8, <3>1, TextsAreSymbols
      <4> HIDE DEF t
      <4>2. Cardinality(Letters(t)) <= Len(t) /\ Cardinality(Letters(t)) \in Nat /\ Len(t) \in Nat
        BY <4>1, LettersCount
      <4>3. Cardinality(Letters(t)) <= z.overlap
        BY <4>1, <4>2
      <4> QED BY <4>1, <4>3
    <3>2. CASE ~(l <= n)
      <4>1. Cardinality({}) = 0
        BY FS_EmptySet
      <4>2. Cardinality(Span(p, l, n)) = 0
        BY <2>9, <3>2, <4>1, Zenon
      <4> QED BY <4>2
    <3> QED BY <3>1, <3>2
  <2>12. l \in 1 .. n + 1 /\ n \in l - 1 .. (n + 1) - 1 /\ n # 0
    BY <1>2, <2>4
  <2>13. Merging(a, p, separator, z, n + 1, l, n)
    BY <2>3, <2>7, <2>10, <2>11, <2>12 DEF Merging
  <2> QED BY <2>13 DEF a, x
<1> QED BY <1>10, <1>11, Zenon

LEMMA AddedFirst ==
  ASSUME NEW z, z.overlap \in Nat, z.size \in Nat, NEW E, NEW p, Mergeable(p, E), NEW separator \in Text,
         Len(p) # 0, \A i \in 1 .. Len(p) : Len(p[i]) <= z.size
  PROVE  Merging(Added([texts |-> <<>>, current |-> <<>>], p[1], separator, z), p, separator, z, 1, 1, 0)
<1> DEFINE x == p[1]
           m == [texts |-> <<>>, current |-> <<>>]
           a == Added(m, x, separator, z)
<1>1. p \in Seq(Text) /\ Len(p) \in Nat /\ 1 \in 1 .. Len(p)
  BY DEF Mergeable
<1>2. x \in Text /\ Len(x) <= z.size /\ x \in Seq(Clean) /\ separator \in Seq(Clean)
  BY <1>1 DEF Text
<1>3. m.current = <<>> /\ m.texts = <<>>
  OBVIOUS
<1> HIDE DEF m
<1>4. a.texts = <<>> /\ a.current = Append(<<>>, x)
  BY <1>3 DEF Added
<1> HIDE DEF a, x
<1>5. Len(Joined(Append(<<>>, x), separator)) = Len(x)
  <2>1. <<>> \in Seq(Seq(Clean))
    OBVIOUS
  <2> QED BY <1>2, <2>1, JoinedAppend, Zenon
<1>6. a.current = SubSeq(p, 1, 1)
  <2> DEFINE n == 0
  <2>1. n \in 0 .. Len(p) - 1 /\ 1 \in 1 .. n + 1
    BY <1>1
  <2>2. Append(SubSeq(p, 1, n), p[n + 1]) = SubSeq(p, 1, n + 1)
    <3> HIDE DEF n
    <3> QED BY <1>1, <2>1, SubSeqNext
  <2>3. SubSeq(p, 1, n) = <<>> /\ n + 1 = 1
    BY SubSeqEmpty
  <2> HIDE DEF n
  <2> QED BY <1>4, <2>2, <2>3 DEF x
<1>7. Span(p, 1, 0) = {}
  BY DEF Span
<1>8. Cardinality(Span(p, 1, 0)) <= z.overlap
  <2>1. Cardinality({}) = 0
    BY FS_EmptySet
  <2>2. Cardinality(Span(p, 1, 0)) = 0
    BY <1>7, <2>1, Zenon
  <2> QED BY <2>2
<1>9. Covers(a.texts, Span(p, 1, 0), z)
  BY <1>4, <1>7, CoversNothing, Zenon
<1>10. 1 \in 1 .. 1 /\ 0 \in 1 - 1 .. 1 - 1 /\ Len(Joined(a.current, separator)) <= z.size
  BY <1>2, <1>4, <1>5
<1>11. Merging(a, p, separator, z, 1, 1, 0)
  BY <1>4, <1>6, <1>8, <1>9, <1>10 DEF Merging
<1> QED BY <1>11 DEF a, x, m

\* What merging has after each of the first n parts.
MergesUpTo(f, parts, separator, z, n) ==
  f = [i \in 0 .. n |-> IF i = 0 THEN [texts |-> <<>>, current |-> <<>>]
                        ELSE Added(f[i - 1], parts[i], separator, z)]

LEMMA MergingExists ==
  ASSUME NEW parts, NEW separator, NEW z, NEW m \in Nat
  PROVE  \E f : MergesUpTo(f, parts, separator, z, m)
<1> DEFINE T == {n \in Nat : ~\E f : MergesUpTo(f, parts, separator, z, n)}
<1> SUFFICES ASSUME T # {} PROVE FALSE
  OBVIOUS
<1>1. PICK n \in T : \A k \in T : n <= k
  BY LeastNatural, Zenon
<1>2. CASE n = 0
  <2>1. MergesUpTo([i \in 0 .. 0 |-> [texts |-> <<>>, current |-> <<>>]], parts, separator, z, 0)
    BY DEF MergesUpTo
  <2> QED BY <1>2, <2>1
<1>3. CASE n # 0
  <2>1. n - 1 \in Nat /\ n - 1 \notin T
    BY <1>1, <1>3
  <2>2. PICK f : MergesUpTo(f, parts, separator, z, n - 1)
    BY <2>1
  <2> DEFINE step(h, i) == IF i = 0 THEN [texts |-> <<>>, current |-> <<>>]
                           ELSE Added(h[i - 1], parts[i], separator, z)
             g == [i \in 0 .. n |-> step(f, i)]
  <2>3. \A i \in 0 .. n - 1 : g[i] = f[i]
    <3> SUFFICES ASSUME NEW i \in 0 .. n - 1 PROVE g[i] = f[i]
      BY Zenon
    <3>1. f = [l \in 0 .. n - 1 |-> step(f, l)]
      BY <2>2 DEF MergesUpTo
    <3>2. i \in 0 .. n
      BY <2>1
    <3> HIDE DEF step
    <3>3. f[i] = step(f, i)
      BY <3>1
    <3> QED BY <3>2, <3>3
  <2>4. \A i \in 0 .. n : step(g, i) = step(f, i)
    <3> HIDE DEF g
    <3> SUFFICES ASSUME NEW i \in 0 .. n, i # 0 PROVE step(g, i) = step(f, i)
      OBVIOUS
    <3>1. i - 1 \in 0 .. n - 1
      BY <2>1
    <3> QED BY <2>3, <3>1
  <2> HIDE DEF step
  <2>5. g = [i \in 0 .. n |-> step(g, i)]
    BY <2>4
  <2> HIDE DEF g
  <2>6. MergesUpTo(g, parts, separator, z, n)
    BY <2>5, Zenon DEF step, MergesUpTo
  <2> QED BY <2>6
<1> QED BY <1>2, <1>3

\* What merging makes of parts that are no longer than a passage.
LEMMA MergeSplitsCovers ==
  ASSUME NEW z, z.overlap \in Nat, z.size \in Nat, NEW E, NEW p, Mergeable(p, E), NEW separator \in Text,
         \A j \in 1 .. Len(separator) : ~(separator[j] > 0), \A i \in 1 .. Len(p) : Len(p[i]) <= z.size,
         Len(p) # 0
  PROVE  Covers(MergeSplits(p, separator, z), LettersIn(p), z)
<1> DEFINE N == Len(p)
           f == CHOOSE h : MergesUpTo(h, p, separator, z, Len(p))
           start == [texts |-> <<>>, current |-> <<>>]
           step(n) == IF n = 0 THEN start ELSE Added(f[n - 1], p[n], separator, z)
           Good(n) == \E k, j : Merging(f[n], p, separator, z, n, k, j)
<1>1. N \in Nat \ {0}
  BY DEF Mergeable
<1>2. MergesUpTo(f, p, separator, z, N)
  BY <1>1, MergingExists, Zenon
<1>3. MergeSplits(p, separator, z) = Appended(f[N].texts, Joined(f[N].current, separator))
  BY Zenon DEF MergeSplits, MergesUpTo
<1> HIDE DEF f
<1>4. f = [n \in 0 .. N |-> step(n)]
  BY <1>2, Zenon DEF MergesUpTo
<1> HIDE DEF step
<1>5. \A n \in 0 .. N : f[n] = step(n)
  BY <1>4
<1>6. f[0] = start /\ \A n \in 1 .. N : f[n] = Added(f[n - 1], p[n], separator, z)
  <2>1. 0 \in 0 .. N /\ \A n \in 1 .. N : n \in 0 .. N /\ n # 0
    BY <1>1
  <2> QED BY <1>5, <2>1 DEF step
<1> HIDE DEF start
<1>7. Good(1)
  <2>1. f[1] = Added(f[0], p[1], separator, z)
    <3>1. 1 \in 1 .. N /\ 1 - 1 = 0
      BY <1>1
    <3> QED BY <1>6, <3>1
  <2>2. f[1] = Added(start, p[1], separator, z)
    BY <1>6, <2>1
  <2>3. Merging(Added(start, p[1], separator, z), p, separator, z, 1, 1, 0)
    BY AddedFirst DEF start
  <2> QED BY <2>2, <2>3
<1>8. ASSUME NEW n \in 1 .. N - 1, Good(n) PROVE Good(n + 1)
  <2>1. PICK k, j : Merging(f[n], p, separator, z, n, k, j)
    BY <1>8
  <2> DEFINE m == f[n]
  <2>2. n \in 1 .. Len(p) - 1 /\ Merging(m, p, separator, z, n, k, j)
    BY <2>1
  <2> HIDE DEF m
  <2>3. \E h, i : Merging(Added(m, p[n + 1], separator, z), p, separator, z, n + 1, h, i)
    BY <2>2, AddedNext, Zenon
  <2>4. n + 1 \in 1 .. N /\ (n + 1) - 1 = n
    BY <1>1
  <2>5. f[n + 1] = Added(m, p[n + 1], separator, z)
    BY <1>6, <2>4 DEF m
  <2> QED BY <2>3, <2>5
<1> DEFINE T == {n \in 1 .. N : ~Good(n)}
<1>9. T = {}
  <2> SUFFICES ASSUME T # {} PROVE FALSE
    OBVIOUS
  <2>1. PICK k \in T : \A j \in T : k <= j
    <3>1. T \in SUBSET Nat
      OBVIOUS
    <3> HIDE DEF T
    <3> QED BY <3>1, LeastNatural, Zenon
  <2>2. k \in 1 .. N /\ ~Good(k)
    BY <2>1
  <2>3. k # 1
    BY <1>7, <2>2
  <2> DEFINE l == k - 1
  <2>4. l \in 1 .. N - 1 /\ l \in 1 .. N /\ ~(k <= l) /\ l + 1 = k
    BY <1>1, <2>2, <2>3
  <2> HIDE DEF l
  <2>5. Good(l)
    BY <2>1, <2>4
  <2> HIDE DEF Good
  <2>6. Good(l + 1)
    BY <1>8, <2>4, <2>5
  <2> QED BY <2>2, <2>4, <2>6
<1>10. N \in 1 .. N
  BY <1>1
<1>11. PICK k, j : Merging(f[N], p, separator, z, N, k, j)
  BY <1>9, <1>10
<1>12. Covers(Appended(f[N].texts, Joined(f[N].current, separator)), Span(p, 1, N), z)
  <2> DEFINE m == f[N]
  <2>1. Merging(m, p, separator, z, N, k, j)
    BY <1>11
  <2> HIDE DEF m, N
  <2>2. Covers(Appended(m.texts, Joined(m.current, separator)), Span(p, 1, N), z)
    BY <1>10, <2>1, Flushed, Zenon DEF N
  <2> QED BY <2>2 DEF m
<1>13. Span(p, 1, N) = LettersIn(p)
  BY DEF Span, LettersIn
<1> QED BY <1>3, <1>12, <1>13

\* f covers the letters of each text of E.
Suits(f, E, z) == \A t \in E : t # <<>> /\ Rising(t) => Covers(f[t], Letters(t), z)

LEMMA MergeableSpan ==
  ASSUME NEW E, NEW p, Mergeable(p, E), NEW n \in 1 .. Len(p), NEW k \in 1 .. n
  PROVE  /\ Mergeable(SubSeq(p, k, n), E) /\ Len(SubSeq(p, k, n)) = n - k + 1
         /\ LettersIn(SubSeq(p, k, n)) = Span(p, k, n)
         /\ \A i \in 1 .. Len(SubSeq(p, k, n)) : k + i - 1 \in k .. n /\ SubSeq(p, k, n)[i] = p[k + i - 1]
<1> DEFINE q == SubSeq(p, k, n)
<1>1. /\ p \in Seq(Text) /\ Len(p) \in Nat /\ Sorted(p)
      /\ \A i \in 1 .. Len(p) : p[i] \in E /\ p[i] # <<>> /\ Rising(p[i]) /\ (i # 1 => ~Blank(p[i]))
  BY DEF Mergeable
<1>2. /\ q \in Seq(Text) /\ Len(q) = n - k + 1
      /\ \A i \in 1 .. Len(q) : q[i] = p[k + i - 1]
  <2>1. n \in 0 .. Len(p) /\ k \in 1 .. Len(p) + 1 /\ k <= n
    BY <1>1
  <2>2. /\ q \in Seq(Text) /\ (k <= n => Len(q) = n - k + 1)
        /\ \A i \in 1 .. Len(q) : q[i] = p[k + i - 1]
    BY <1>1, <2>1, SubSeqIs
  <2> QED BY <2>1, <2>2, Zenon
<1> HIDE DEF q
<1>3. \A i \in 1 .. Len(q) : /\ k + i - 1 \in k .. n /\ k + i - 1 \in 1 .. Len(p)
                             /\ (i # 1 => k + i - 1 # 1) /\ q[i] = p[k + i - 1]
  BY <1>1, <1>2
<1>4. \A i \in 1 .. Len(q) : q[i] \in E /\ q[i] # <<>> /\ Rising(q[i]) /\ (i # 1 => ~Blank(q[i]))
  <2> SUFFICES ASSUME NEW i \in 1 .. Len(q)
               PROVE  q[i] \in E /\ q[i] # <<>> /\ Rising(q[i]) /\ (i # 1 => ~Blank(q[i]))
    OBVIOUS
  <2> DEFINE m == k + i - 1
  <2>1. m \in 1 .. Len(p) /\ (i # 1 => m # 1) /\ q[i] = p[m]
    BY <1>3
  <2> HIDE DEF m
  <2> QED BY <1>1, <2>1
<1>5. Sorted(q)
  <2> SUFFICES ASSUME NEW i \in 1 .. Len(q), NEW j \in 1 .. Len(q), i < j
               PROVE  \A a \in Letters(q[i]), b \in Letters(q[j]) : a < b
    BY DEF Sorted
  <2> DEFINE l == k + i - 1
             m == k + j - 1
  <2>1. l \in 1 .. Len(p) /\ m \in 1 .. Len(p) /\ q[i] = p[l] /\ q[j] = p[m]
    BY <1>3, Zenon
  <2>2. l < m
    BY <1>2
  <2> HIDE DEF l, m
  <2> QED BY <1>1, <2>1, <2>2 DEF Sorted
<1>6. Mergeable(q, E)
  BY <1>2, <1>4, <1>5 DEF Mergeable
<1>7. LettersIn(q) = Span(p, k, n)
  <2>1. \A c : c \in LettersIn(q) <=> \E i \in 1 .. Len(q) : c \in Letters(q[i])
    BY DEF LettersIn
  <2>2. \A c : c \in Span(p, k, n) <=> \E m \in k .. n : c \in Letters(p[m])
    BY DEF Span
  <2>4. \A m \in k .. n : m - k + 1 \in 1 .. Len(q) /\ q[m - k + 1] = p[m]
    <3> SUFFICES ASSUME NEW m \in k .. n PROVE m - k + 1 \in 1 .. Len(q) /\ q[m - k + 1] = p[m]
      BY Zenon
    <3> DEFINE i == m - k + 1
    <3>1. i \in 1 .. Len(q) /\ k + i - 1 = m
      BY <1>2
    <3> HIDE DEF i
    <3>2. q[i] = p[m]
      BY <1>2, <3>1, Zenon
    <3> QED BY <3>1, <3>2 DEF i
  <2>5. \A c : c \in LettersIn(q) <=> c \in Span(p, k, n)
    BY <1>3, <2>1, <2>2, <2>4
  <2> QED BY <2>5, Zenon
<1> QED BY <1>2, <1>3, <1>6, <1>7 DEF q

\* The last of the parts that follow the nth and are not long.
RunEnd(p, n, size) == CHOOSE m \in n .. Len(p) :
                        /\ m = Len(p) \/ Len(p[m + 1]) >= size
                        /\ \A k \in n .. m : ~(Len(p[k]) >= size)

LEMMA RunEnds ==
  ASSUME NEW p, Len(p) \in Nat, NEW size, NEW n \in 1 .. Len(p), ~(Len(p[n]) >= size)
  PROVE  /\ RunEnd(p, n, size) \in n .. Len(p)
         /\ RunEnd(p, n, size) = Len(p) \/ Len(p[RunEnd(p, n, size) + 1]) >= size
         /\ \A k \in n .. RunEnd(p, n, size) : ~(Len(p[k]) >= size)
<1> DEFINE N == Len(p)
           long(k) == Len(p[k]) >= size
           T == {m \in n .. N : m = N \/ long(m + 1)}
<1>1. T \in SUBSET Nat /\ N \in T
  OBVIOUS
<1>2. PICK m \in T : \A k \in T : m <= k
  <2> HIDE DEF T
  <2> QED BY <1>1, LeastNatural, Zenon
<1>3. m \in n .. N /\ (m = N \/ long(m + 1))
  BY <1>2
<1>4. \A k \in n .. m : ~long(k)
  <2> SUFFICES ASSUME NEW k \in n .. m, long(k) PROVE FALSE
    OBVIOUS
  <2>1. k # n
    OBVIOUS
  <2> DEFINE l == k - 1
  <2>2. l \in n .. N /\ ~(m <= l) /\ l + 1 = k
    BY <1>3, <2>1
  <2> HIDE DEF l, long
  <2>3. l \in T
    BY <2>2
  <2> HIDE DEF T
  <2> QED BY <1>2, <2>2, <2>3
<1>5. \E i \in n .. N : (i = N \/ long(i + 1)) /\ \A k \in n .. i : ~long(k)
  BY <1>3, <1>4
<1> QED BY <1>5, Zenon DEF RunEnd

\* Splitting at one separator, when what it leaves is split well at the finer ones.
LEMMA SplitAtSuits ==
  ASSUME NEW z, z.overlap \in Nat, z.size \in Nat,
         NEW D \in SUBSET Text, NEW E \in SUBSET Text, NEW separator \in Text,
         \A j \in 1 .. Len(separator) : ~(separator[j] > 0),
         \A t \in D : \A a, b : Piece(t, separator, a, b) =>
           SubSeq(t, a, b) \in E /\ (a # 1 => ~Blank(SubSeq(t, a, b))),
         NEW f, Suits(f, E, z)
  PROVE  Suits(SplitAt(separator, f, z), D, z)
<1> SUFFICES ASSUME NEW t \in D, t # <<>>, Rising(t)
             PROVE  Covers(SplitAt(separator, f, z)[t], Letters(t), z)
  BY DEF Suits
<1> DEFINE p == Splits(t, separator)
           long(n) == Len(p[n]) >= z.size
           upto(n) == CHOOSE m \in n .. Len(p) : /\ m = Len(p) \/ long(m + 1)
                                                 /\ \A k \in n .. m : ~long(k)
           s == [n \in DOMAIN p |-> IF long(n) THEN f[p[n]]
                                    ELSE IF n > 1 /\ ~long(n - 1) THEN <<>>
                                    ELSE MergeSplits(SubSeq(p, n, upto(n)), separator, z)]
<1>1. t \in Text /\ t \in Seq(Symbols)
  BY TextsAreSymbols
<1>2. SplitAt(separator, f, z)[t] = IF Starts(t, separator) = {} THEN f[t] ELSE FlattenSeq(s)
  BY <1>1 DEF SplitAt
<1>3. \A a, b : Piece(t, separator, a, b) => SubSeq(t, a, b) \in E /\ (a # 1 => ~Blank(SubSeq(t, a, b)))
  OBVIOUS
<1>4. CASE Starts(t, separator) = {}
  <2>1. Piece(t, separator, 1, Len(t)) /\ SubSeq(t, 1, Len(t)) = t
    BY <1>1, <1>4, PieceOfItself
  <2>2. t \in E
    BY <1>3, <2>1, Zenon
  <2> QED BY <1>2, <1>4, <2>2 DEF Suits
<1>5. CASE Starts(t, separator) # {}
  <2> DEFINE N == Len(p)
             end(n) == RunEnd(p, n, z.size)
             L == [n \in 1 .. N |-> IF long(n) THEN Letters(p[n])
                                    ELSE IF n > 1 /\ ~long(n - 1) THEN {}
                                    ELSE Span(p, n, end(n))]
  <2>1. Mergeable(p, E) /\ LettersIn(p) = Letters(t)
    BY <1>1, <1>3, SplitsAre
  <2> HIDE DEF p
  <2>2. /\ p \in Seq(Text) /\ N \in Nat /\ DOMAIN p = 1 .. N
        /\ \A n \in 1 .. N : p[n] \in E /\ p[n] # <<>> /\ Rising(p[n])
        /\ Sorted(p)
    BY <2>1 DEF Mergeable
  <2>3. \A n : upto(n) = end(n)
    BY Zenon DEF RunEnd
  <2> HIDE DEF upto
  <2>4. \A n \in 1 .. N : ~long(n) =>
          /\ end(n) \in n .. N
          /\ end(n) = N \/ long(end(n) + 1)
          /\ \A k \in n .. end(n) : ~long(k)
    BY <2>2, RunEnds, Zenon
  <2>5. \A n \in 1 .. N : s[n] = IF long(n) THEN f[p[n]]
                                 ELSE IF n > 1 /\ ~long(n - 1) THEN <<>>
                                 ELSE MergeSplits(SubSeq(p, n, end(n)), separator, z)
    BY <2>2, <2>3
  <2>6. DOMAIN s = 1 .. N
    BY <2>2
  <2> HIDE DEF end, s
  <2>7. ASSUME NEW n \in 1 .. N PROVE Covers(s[n], L[n], z)
    <3>1. CASE long(n)
      <4>1. s[n] = f[p[n]] /\ L[n] = Letters(p[n])
        BY <2>5, <3>1
      <4>2. Covers(f[p[n]], Letters(p[n]), z)
        BY <2>2 DEF Suits
      <4> QED BY <4>1, <4>2
    <3>2. CASE ~long(n) /\ n > 1 /\ ~long(n - 1)
      <4>1. s[n] = <<>> /\ L[n] = {}
        BY <2>5, <3>2
      <4> QED BY <4>1, CoversNothing, Zenon
    <3>3. CASE ~long(n) /\ ~(n > 1 /\ ~long(n - 1))
      <4> DEFINE m == end(n)
                 q == SubSeq(p, n, m)
      <4>1. m \in n .. N /\ \A k \in n .. m : ~long(k)
        BY <2>4, <3>3
      <4>2. s[n] = MergeSplits(q, separator, z) /\ L[n] = Span(p, n, m)
        BY <2>5, <3>3
      <4>3. m \in 1 .. Len(p) /\ n \in 1 .. m
        BY <2>2, <4>1
      <4> HIDE DEF m
      <4>4. /\ Mergeable(q, E) /\ Len(q) = m - n + 1 /\ LettersIn(q) = Span(p, n, m)
            /\ \A i \in 1 .. Len(q) : n + i - 1 \in n .. m /\ q[i] = p[n + i - 1]
        BY <2>1, <4>3, MergeableSpan
      <4> HIDE DEF q
      <4>5. \A i \in 1 .. Len(q) : Len(q[i]) <= z.size
        <5> SUFFICES ASSUME NEW i \in 1 .. Len(q) PROVE Len(q[i]) <= z.size
          OBVIOUS
        <5> DEFINE k == n + i - 1
        <5>1. k \in n .. m /\ q[i] = p[k]
          BY <4>4
        <5>2. k \in 1 .. N
          BY <2>2, <4>3, <5>1
        <5> HIDE DEF k
        <5>3. ~(Len(p[k]) >= z.size)
          BY <4>1, <5>1
        <5>4. Len(p[k]) \in Nat
          BY <2>2, <5>2 DEF Text
        <5> QED BY <5>1, <5>3, <5>4
      <4>6. Len(q) # 0
        BY <4>3, <4>4
      <4>7. Covers(MergeSplits(q, separator, z), LettersIn(q), z)
        BY <4>4, <4>5, <4>6, MergeSplitsCovers, Zenon
      <4> QED BY <4>2, <4>4, <4>7, Zenon
    <3> QED BY <3>1, <3>2, <3>3
  <2>8. \A n \in 1 .. N : \A c \in L[n] : \E i \in n .. N :
          c \in Letters(p[i]) /\ (i = n \/ (~long(n) /\ i <= end(n)))
    <3> SUFFICES ASSUME NEW n \in 1 .. N, NEW c \in L[n]
                 PROVE  \E i \in n .. N : c \in Letters(p[i]) /\ (i = n \/ (~long(n) /\ i <= end(n)))
      OBVIOUS
    <3>1. CASE long(n)
      <4>1. c \in Letters(p[n]) /\ n \in n .. N
        BY <3>1
      <4> QED BY <4>1
    <3>2. CASE ~long(n)
      <4>1. c \in Span(p, n, end(n)) /\ end(n) \in n .. N
        BY <2>4, <3>2
      <4>2. PICK i \in n .. end(n) : c \in Letters(p[i])
        BY <4>1 DEF Span
      <4>3. i \in n .. N /\ i <= end(n)
        BY <4>1
      <4> QED BY <3>2, <4>2, <4>3
    <3> QED BY <3>1, <3>2
  <2>9. ASSUME NEW m \in 1 .. N, NEW n \in 1 .. N, m < n, NEW a \in L[m], NEW b \in L[n] PROVE a < b
    <3>0. /\ \E i \in m .. N : a \in Letters(p[i]) /\ (i = m \/ (~long(m) /\ i <= end(m)))
          /\ \E i \in n .. N : b \in Letters(p[i])
      <4> HIDE DEF L, N
      <4> QED BY <2>8, Zenon
    <3>1. PICK i \in m .. N : a \in Letters(p[i]) /\ (i = m \/ (~long(m) /\ i <= end(m)))
      <4> HIDE DEF L
      <4> QED BY <3>0
    <3>2. PICK j \in n .. N : b \in Letters(p[j])
      <4> HIDE DEF L
      <4> QED BY <3>0
    <3>3. i < n
      <4>1. CASE i = m
        BY <2>9, <4>1
      <4>2. CASE ~long(m) /\ i <= end(m)
        <5>1. end(m) \in m .. N /\ \A k \in m .. end(m) : ~long(k)
          BY <2>4, <4>2
        <5>2. SUFFICES ASSUME n <= end(m) PROVE FALSE
          BY <2>2, <4>2, <5>1
        <5>3. n \in m .. end(m) /\ n - 1 \in m .. end(m) /\ n > 1
          BY <2>9, <5>1, <5>2
        <5>4. ~long(n) /\ ~long(n - 1)
          BY <5>1, <5>3
        <5>5. L[n] = {}
          BY <5>3, <5>4
        <5> QED BY <5>5
      <4> QED BY <3>1, <4>1, <4>2
    <3>4. i \in 1 .. Len(p) /\ j \in 1 .. Len(p) /\ i < j
      BY <2>2, <3>3
    <3> QED BY <2>2, <3>1, <3>2, <3>4 DEF Sorted
  <2>10. UNION {L[n] : n \in 1 .. N} = LettersIn(p)
    <3>1. \A c : c \in LettersIn(p) <=> \E n \in 1 .. N : c \in Letters(p[n])
      BY DEF LettersIn
    <3>2. ASSUME NEW n \in 1 .. N, NEW c \in L[n] PROVE c \in LettersIn(p)
      <4>0. \E i \in n .. N : c \in Letters(p[i])
        <5> HIDE DEF L, N
        <5> QED BY <2>8
      <4>1. PICK i \in n .. N : c \in Letters(p[i])
        <5> HIDE DEF L
        <5> QED BY <4>0
      <4>2. i \in 1 .. N
        <5> HIDE DEF L
        <5> QED BY <2>2
      <4> QED BY <3>1, <4>1, <4>2
    <3>3. ASSUME NEW i \in 1 .. N, NEW c \in Letters(p[i]) PROVE \E n \in 1 .. N : c \in L[n]
      <4>1. CASE long(i)
        <5>1. L[i] = Letters(p[i])
          BY <4>1
        <5> QED BY <5>1
      <4>2. CASE ~long(i)
        <5> DEFINE T == {n \in 1 .. i : \A k \in n .. i : ~long(k)}
        <5>1. T \in SUBSET Nat /\ i \in T
          BY <4>2
        <5>2. PICK n \in T : \A m \in T : n <= m
          <6> HIDE DEF T
          <6> QED BY <5>1, LeastNatural, Zenon
        <5>3. n \in 1 .. i /\ \A k \in n .. i : ~long(k)
          BY <5>2
        <5>4. n \in 1 .. N /\ ~long(n)
          BY <2>2, <5>3
        <5>5. ~(n > 1 /\ ~long(n - 1))
          <6> SUFFICES ASSUME n > 1, ~long(n - 1) PROVE FALSE
            OBVIOUS
          <6> DEFINE m == n - 1
          <6>1. m \in 1 .. i /\ ~(n <= m) /\ \A k \in m .. i : k = m \/ k \in n .. i
            BY <5>3
          <6>2. ~long(m)
            OBVIOUS
          <6> HIDE DEF m, long
          <6>3. m \in T
            BY <5>3, <6>1, <6>2, Zenon
          <6> HIDE DEF T
          <6> QED BY <5>2, <6>1, <6>3
        <5>6. L[n] = Span(p, n, end(n))
          BY <5>4, <5>5
        <5> DEFINE e == end(n)
        <5>7. e \in n .. N /\ (e = N \/ long(e + 1))
          BY <2>4, <5>4
        <5> HIDE DEF e, L
        <5>8. i \in n .. e
          <6>1. n \in Int /\ e \in Int /\ N \in Int /\ n <= i /\ n <= e /\ e <= N /\ i <= N
            <7> HIDE DEF T, N
            <7> QED BY <2>2, <5>3, <5>7
          <6> SUFFICES ASSUME e < i PROVE FALSE
            BY <6>1
          <6>2. e + 1 \in n .. i /\ e # N
            <7> HIDE DEF T, N
            <7> QED BY <6>1
          <6>3. ~long(e + 1)
            BY <5>3, <6>2
          <6> QED BY <5>7, <6>2, <6>3
        <5>9. c \in Span(p, n, e)
          BY <5>8 DEF Span
        <5> QED BY <5>4, <5>6, <5>9 DEF e
      <4> QED BY <4>1, <4>2
    <3> HIDE DEF L
    <3> QED BY <3>1, <3>2, <3>3, Zenon
  <2>11. s \in Seq(Seq(Text)) /\ Len(s) = N
    <3>1. \A n \in 1 .. N : s[n] \in Seq(Text)
      BY <2>7 DEF Covers
    <3>2. s = [n \in 1 .. N |-> s[n]]
      BY <2>6 DEF s
    <3>3. s \in [1 .. N -> Seq(Text)]
      BY <3>1, <3>2
    <3> HIDE DEF N
    <3> QED BY <2>2, <3>3, IsSeq
  <2> HIDE DEF L, N
  <2>12. Covers(FlattenSeq(s), UNION {L[n] : n \in 1 .. N}, z)
    BY <2>2, <2>7, <2>9, <2>11, CoversFlat, Zenon
  <2> QED BY <1>2, <1>5, <2>1, <2>10, <2>12, Zenon
<1> QED BY <1>4, <1>5

\* A text no longer than a passage.
LEMMA CoversOne ==
  ASSUME NEW z, NEW t \in Text, Len(t) \in 1 .. z.size, ~Blank(t)
  PROVE  Covers(<<t>>, Letters(t), z)
<1> DEFINE T == <<t>>
<1>1. T \in Seq(Text) /\ Len(T) = 1 /\ T[1] = t
  OBVIOUS
<1>2. Letters(t) \subseteq Nat \ {0}
  BY TextsAreSymbols, LettersAre
<1> HIDE DEF T
<1>3. \A n \in 1 .. Len(T) : n = 1
  BY <1>1
<1>4. 1 \in 1 .. Len(T) /\ 2 .. Len(T) = {}
  BY <1>1
<1>5. Covers(T, Letters(t), z)
  BY <1>1, <1>2, <1>3, <1>4 DEF Covers
<1> QED BY <1>5 DEF T

\* The whole of a text.
LEMMA SubSeqWhole ==
  ASSUME NEW S, NEW t \in Seq(S), t # <<>>
  PROVE  SubSeq(t, 1, Len(t)) = t
<1> DEFINE u == SubSeq(t, 1, Len(t))
<1>1. Len(t) \in Nat /\ Len(t) # 0
  BY EmptySeq
<1>2. /\ u \in Seq(S) /\ Len(u) = Len(t)
      /\ \A n \in 1 .. Len(u) : u[n] = t[1 + n - 1]
  BY <1>1, SubSeqIs
<1> HIDE DEF u
<1>3. \A n \in 1 .. Len(u) : u[n] = t[n]
  BY <1>1, <1>2
<1>4. u = t
  BY <1>2, <1>3, SeqEqual
<1> QED BY <1>4 DEF u

LEMMA SplitTextCovers ==
  ASSUME NEW z, z.overlap \in Nat, z.size \in Nat \ {0}, NEW t \in Wholes, t # <<>>, Rising(t)
  PROVE  Covers(SplitText(t, z), Letters(t), z)
<1> DEFINE first      == [u \in Seq(Symbols) |-> <<SubSeq(u, 1, Min({z.size, Len(u)}))>>]
           symbols    == SplitAt(<<>>, first, z)
           words      == SplitAt(<<Space>>, symbols, z)
           sentences  == SplitAt(<<Period, Space>>, words, z)
           lines      == SplitAt(<<Newline>>, sentences, z)
           paragraphs == SplitAt(<<Newline, Newline>>, lines, z)
<1>1. SplitText(t, z) = paragraphs[t]
  BY Zenon DEF SplitText
<1>2. Suits(first, Singles, z)
  <2> SUFFICES ASSUME NEW u \in Singles PROVE Covers(first[u], Letters(u), z)
    BY Zenon DEF Suits
  <2>1. u \in Text /\ u \in Seq(Symbols) /\ Len(u) = 1 /\ u[1] \notin White
    BY TextsAreSymbols DEF Singles
  <2>2. Min({z.size, Len(u)}) = Len(u)
    <3>1. \A x \in {z.size, 1} : (\A y \in {z.size, 1} : x <= y) => x = 1
      OBVIOUS
    <3>2. \A y \in {z.size, 1} : 1 <= y
      OBVIOUS
    <3>3. Min({z.size, 1}) \in {z.size, 1} /\ \A y \in {z.size, 1} : Min({z.size, 1}) <= y
      BY <3>2 DEF Min
    <3> QED BY <2>1, <3>1, <3>3
  <2>3. first[u] = <<SubSeq(u, 1, Len(u))>>
    BY <2>1, <2>2, Zenon
  <2>4. SubSeq(u, 1, Len(u)) = u
    BY <2>1, SubSeqWhole
  <2>5. Len(u) \in 1 .. z.size /\ ~Blank(u)
    BY <2>1, BlankIs
  <2> QED BY <2>1, <2>3, <2>4, <2>5, CoversOne, Zenon
<1>3. /\ Wholes \in SUBSET Text /\ Paragraphs \in SUBSET Text /\ Lines \in SUBSET Text
      /\ Sentences \in SUBSET Text /\ Words \in SUBSET Text /\ Singles \in SUBSET Text
  BY DEF Wholes, Paragraphs, Lines, Sentences, Words, Singles
<1>4. z.size \in Nat
  OBVIOUS
<1> HIDE DEF first
<1>5. Suits(symbols, Words, z)
  <2>1. \A j \in 1 .. Len(<<>>) : ~(<<>>[j] > 0)
    OBVIOUS
  <2>2. \A u \in Words : \A a, b : Piece(u, <<>>, a, b) =>
          SubSeq(u, a, b) \in Singles /\ (a # 1 => ~Blank(SubSeq(u, a, b)))
    BY WordPieces
  <2> QED BY <1>2, <1>3, <1>4, <2>1, <2>2, SeparatorsAre, SplitAtSuits
<1> HIDE DEF symbols
<1>6. Suits(words, Sentences, z)
  <2>1. \A j \in 1 .. Len(<<Space>>) : ~(<<Space>>[j] > 0)
    BY SeparatorsAre
  <2>2. \A u \in Sentences : \A a, b : Piece(u, <<Space>>, a, b) =>
          SubSeq(u, a, b) \in Words /\ (a # 1 => ~Blank(SubSeq(u, a, b)))
    BY SentencePieces
  <2> QED BY <1>3, <1>4, <1>5, <2>1, <2>2, SeparatorsAre, SplitAtSuits
<1> HIDE DEF words
<1>7. Suits(sentences, Lines, z)
  <2>1. \A j \in 1 .. Len(<<Period, Space>>) : ~(<<Period, Space>>[j] > 0)
    BY SeparatorsAre
  <2>2. \A u \in Lines : \A a, b : Piece(u, <<Period, Space>>, a, b) =>
          SubSeq(u, a, b) \in Sentences /\ (a # 1 => ~Blank(SubSeq(u, a, b)))
    BY LinePieces
  <2> QED BY <1>3, <1>4, <1>6, <2>1, <2>2, SeparatorsAre, SplitAtSuits
<1> HIDE DEF sentences
<1>8. Suits(lines, Paragraphs, z)
  <2>1. \A j \in 1 .. Len(<<Newline>>) : ~(<<Newline>>[j] > 0)
    BY SeparatorsAre
  <2>2. \A u \in Paragraphs : \A a, b : Piece(u, <<Newline>>, a, b) =>
          SubSeq(u, a, b) \in Lines /\ (a # 1 => ~Blank(SubSeq(u, a, b)))
    BY ParagraphPieces
  <2> QED BY <1>3, <1>4, <1>7, <2>1, <2>2, SeparatorsAre, SplitAtSuits
<1> HIDE DEF lines
<1>9. Suits(paragraphs, Wholes, z)
  <2>1. \A j \in 1 .. Len(<<Newline, Newline>>) : ~(<<Newline, Newline>>[j] > 0)
    BY SeparatorsAre
  <2>2. \A u \in Wholes : \A a, b : Piece(u, <<Newline, Newline>>, a, b) =>
          SubSeq(u, a, b) \in Paragraphs /\ (a # 1 => ~Blank(SubSeq(u, a, b)))
    BY WholePieces
  <2> QED BY <1>3, <1>4, <1>8, <2>1, <2>2, SeparatorsAre, SplitAtSuits, Zenon
<1> HIDE DEF paragraphs
<1> QED BY <1>1, <1>9 DEF Suits

\* What chunk does with the texts of a section changes nothing they cover.
LEMMA CleanedCovers ==
  ASSUME NEW z, z.size \in Nat, NEW T, NEW L, Covers(T, L, z)
  PROVE  Covers(Cleaned(T), L, z)
<1> DEFINE s == At(T, {n \in DOMAIN T : ~Blank(T[n])})
           c == Cleaned(T)
<1>1. T \in Seq(Text) /\ Len(T) \in Nat /\ DOMAIN T = 1 .. Len(T)
  BY DEF Covers
<1>2. \A n \in 1 .. Len(T) : ~Blank(T[n])
  BY DEF Covers
<1>3. {n \in DOMAIN T : ~Blank(T[n])} = 1 .. Len(T)
  BY <1>1, <1>2
<1>4. s \in Seq(Text) /\ \E g : Picks(g, s, T, 1 .. Len(T))
  BY <1>1, <1>3, AtPicks, Zenon
<1>5. PICK g : Picks(g, s, T, 1 .. Len(T))
  BY <1>4, Zenon
<1>6. c = [n \in DOMAIN s |-> Stripped(s[n])]
  BY Zenon DEF Cleaned
<1> HIDE DEF s
<1>7. Len(s) \in Nat /\ DOMAIN s = 1 .. Len(s)
  BY <1>4
<1>8. c = [n \in 1 .. Len(s) |-> Stripped(s[n])]
  BY <1>6, <1>7
<1> HIDE DEF c
<1>9. \A n \in 1 .. Len(s) : g[n] \in 1 .. Len(T) /\ s[n] = T[g[n]] /\ c[n] = Stripped(T[g[n]])
  BY <1>5, <1>8 DEF Picks
<1>10. \A k \in 1 .. Len(T) :
         /\ T[k] \in Text
         /\ Stripped(T[k]) \in Text
         /\ Letters(Stripped(T[k])) = Letters(T[k])
         /\ Len(Stripped(T[k])) \in 1 .. z.size
         /\ ~Blank(Stripped(T[k]))
         /\ Has(T[k], Period) => Has(Stripped(T[k]), Period)
  <2> SUFFICES ASSUME NEW k \in 1 .. Len(T)
               PROVE  /\ T[k] \in Text
                      /\ Stripped(T[k]) \in Text
                      /\ Letters(Stripped(T[k])) = Letters(T[k])
                      /\ Len(Stripped(T[k])) \in 1 .. z.size
                      /\ ~Blank(Stripped(T[k]))
                      /\ Has(T[k], Period) => Has(Stripped(T[k]), Period)
    OBVIOUS
  <2>1. T[k] \in Text
    BY <1>1
  <2>2. T[k] \in Seq(Clean) /\ ~Blank(T[k])
    BY <1>2, <2>1 DEF Text
  <2>3. /\ Stripped(T[k]) \in Seq(Clean)
        /\ Len(Stripped(T[k])) <= Len(T[k])
        /\ Letters(Stripped(T[k])) = Letters(T[k])
        /\ Has(T[k], Period) => Has(Stripped(T[k]), Period)
        /\ Len(Stripped(T[k])) # 0 /\ ~Blank(Stripped(T[k]))
    BY <2>2, StripIs
  <2>4. Len(T[k]) \in 1 .. z.size
    BY DEF Covers
  <2>5. Len(Stripped(T[k])) \in 1 .. z.size
    <3> DEFINE l == Len(Stripped(T[k]))
               m == Len(T[k])
    <3>1. l \in Nat /\ l # 0 /\ l <= m /\ m \in 1 .. z.size
      BY <2>3, <2>4
    <3> HIDE DEF l, m
    <3>2. l \in 1 .. z.size
      BY <3>1
    <3> QED BY <3>2 DEF l
  <2>6. Stripped(T[k]) \in Text
    BY <2>3 DEF Text
  <2> QED BY <2>1, <2>3, <2>5, <2>6
<1>11. c \in Seq(Text) /\ Len(c) = Len(s)
  <2>1. c \in [1 .. Len(s) -> Text]
    BY <1>8, <1>9, <1>10, Zenon
  <2> DEFINE m == Len(s)
  <2>2. m \in Nat /\ c \in [1 .. m -> Text]
    BY <1>7, <2>1
  <2> HIDE DEF m
  <2>3. c \in Seq(Text) /\ Len(c) = m
    BY <2>2, IsSeq
  <2> QED BY <2>3 DEF m
<1>12. \A n \in 1 .. Len(c) : g[n] \in 1 .. Len(T) /\ c[n] = Stripped(T[g[n]]) /\ Letters(c[n]) = Letters(T[g[n]])
  BY <1>9, <1>10, <1>11
<1>13. \A n \in 1 .. Len(c) : Len(c[n]) \in 1 .. z.size /\ ~Blank(c[n]) /\ Letters(c[n]) \subseteq L
  <2>1. \A k \in 1 .. Len(T) : Letters(T[k]) \subseteq L
    BY DEF Covers
  <2> QED BY <1>10, <1>12, <2>1, Zenon
<1>14. \A n \in 1 .. Len(c) : \A a, b \in Letters(c[n]) : \A d \in L : a <= d /\ d <= b => d \in Letters(c[n])
  <2>1. \A k \in 1 .. Len(T) : \A a, b \in Letters(T[k]) : \A d \in L : a <= d /\ d <= b => d \in Letters(T[k])
    BY DEF Covers
  <2> QED BY <1>12, <2>1, Zenon
<1>15. \A d \in L : \E n \in 1 .. Len(c) : d \in Letters(c[n])
  <2> SUFFICES ASSUME NEW d \in L PROVE \E n \in 1 .. Len(c) : d \in Letters(c[n])
    OBVIOUS
  <2>1. PICK k \in 1 .. Len(T) : d \in Letters(T[k])
    BY DEF Covers
  <2>2. PICK n \in 1 .. Len(s) : g[n] = k
    BY <1>5 DEF Picks
  <2>3. n \in 1 .. Len(c)
    BY <1>11
  <2> QED BY <1>12, <2>1, <2>2, <2>3
<1>16. \A n \in 2 .. Len(c) : Follows(c[n - 1], c[n], z)
  <2> SUFFICES ASSUME NEW n \in 2 .. Len(c) PROVE Follows(c[n - 1], c[n], z)
    OBVIOUS
  <2> DEFINE m == n - 1
  <2>1. m \in 1 .. Len(s) - 1 /\ m + 1 = n /\ m \in 1 .. Len(c) /\ n \in 1 .. Len(c)
    BY <1>7, <1>11
  <2> HIDE DEF m
  <2>2. g[m] \in 1 .. Len(T) /\ g[n] \in 1 .. Len(T)
    BY <1>12, <2>1
  <2> DEFINE a == g[m]
             b == g[n]
             i == a + 1
  <2>3. b = a + 1
    <3>1. a < b
      BY <1>5, <1>11, <2>1 DEF Picks
    <3>2. i \in 1 .. Len(T)
      BY <1>1, <2>2, <3>1
    <3>3. 1 .. Len(T) \subseteq Int
      OBVIOUS
    <3> HIDE DEF i
    <3>4. ~(g[m] < i /\ i < g[m + 1])
      BY <1>5, <1>7, <2>1, <3>2, <3>3, PicksNext, ZenonT(30)
    <3> QED BY <2>1, <2>2, <3>1, <3>4 DEF i
  <2>4. a \in 1 .. Len(T) /\ b \in 2 .. Len(T) /\ a = b - 1
    BY <2>2, <2>3
  <2>5. c[m] = Stripped(T[a]) /\ c[n] = Stripped(T[b]) /\ Letters(c[m]) = Letters(T[a]) /\ Letters(c[n]) = Letters(T[b])
    BY <1>12, <2>1
  <2> HIDE DEF a, b
  <2>6. Follows(T[a], T[b], z)
    BY <2>4 DEF Covers
  <2>7. Has(T[b], Period) => Has(c[n], Period)
    BY <1>10, <2>4, <2>5
  <2>8. Follows(c[m], c[n], z)
    BY <2>5, <2>6, <2>7 DEF Follows
  <2> QED BY <2>8 DEF m
<1>17. L \subseteq Nat \ {0}
  BY DEF Covers
<1>18. Covers(c, L, z)
  BY <1>11, <1>13, <1>14, <1>15, <1>16, <1>17 DEF Covers
<1> QED BY <1>18 DEF c

\* The passages P of a section, each with its title and page: their texts T cover what
\* it says.
Told(P, section, T, z) ==
  /\ Covers(T, Letters(section.text), z)
  /\ P \in Seq([text : Text, title : {section.title}, page : {section.page}]) /\ Len(P) = Len(T)
  /\ \A n \in 1 .. Len(T) : P[n] = [text |-> T[n], title |-> section.title, page |-> section.page]

LEMMA SectionCovers ==
  ASSUME NEW z, z.overlap \in Nat, z.size \in Nat \ {0},
         NEW section, section.text \in Seq(Symbols), Rising(section.text)
  PROVE  \E T : Told(PassagesOf(section, z), section, T, z)
<1> DEFINE t == Normalized(section.text)
           T == IF t = <<>> THEN <<>>
                ELSE IF Len(t) <= z.size THEN <<t>>
                ELSE Cleaned(SplitText(t, z))
           P == PassagesOf(section, z)
<1>1. P = [n \in DOMAIN T |-> [text |-> T[n], title |-> section.title, page |-> section.page]]
  BY Zenon DEF PassagesOf
<1> HIDE DEF P
<1>2. /\ t \in Text /\ Letters(t) = Letters(section.text) /\ Rising(t)
      /\ Spaced(t) /\ TwoBreaks(t) /\ Ends(t)
  BY NormalizedIs
<1> HIDE DEF t
<1>3. t # <<>> => Len(t) \in Nat \ {0} /\ t[Len(t)] \notin White /\ ~Blank(t) /\ t \in Wholes
  <2> SUFFICES ASSUME t # <<>>
               PROVE  Len(t) \in Nat \ {0} /\ t[Len(t)] \notin White /\ ~Blank(t) /\ t \in Wholes
    OBVIOUS
  <2>1. t \in Seq(Symbols) /\ Len(t) \in Nat \ {0}
    BY <1>2, TextsAreSymbols, EmptySeq
  <2>2. t[Len(t)] \notin White
    BY <1>2, <2>1 DEF Ends
  <2>3. ~Blank(t)
    BY <2>1, <2>2, BlankIs
  <2>4. t \in Wholes
    BY <1>2 DEF Wholes
  <2> QED BY <2>1, <2>2, <2>3, <2>4
<1>4. Covers(T, Letters(t), z)
  <2>1. CASE t = <<>>
    <3>1. Letters(t) = {}
      BY <2>1 DEF Letters
    <3> QED BY <2>1, <3>1, CoversNothing, Zenon
  <2>2. CASE t # <<>> /\ Len(t) <= z.size
    <3>1. Len(t) \in 1 .. z.size /\ T = <<t>>
      BY <1>3, <2>2
    <3> HIDE DEF T
    <3> QED BY <1>2, <1>3, <2>2, <3>1, CoversOne
  <2>3. CASE t # <<>> /\ ~(Len(t) <= z.size)
    <3>1. T = Cleaned(SplitText(t, z))
      BY <2>3
    <3>2. Covers(SplitText(t, z), Letters(t), z)
      BY <1>2, <1>3, <2>3, SplitTextCovers
    <3> HIDE DEF T
    <3> QED BY <3>1, <3>2, CleanedCovers
  <2> QED BY <2>1, <2>2, <2>3
<1> HIDE DEF T
<1>5. T \in Seq(Text) /\ DOMAIN T = 1 .. Len(T) /\ Len(T) \in Nat
  BY <1>4 DEF Covers
<1>6. P = [n \in 1 .. Len(T) |-> [text |-> T[n], title |-> section.title, page |-> section.page]]
  BY <1>1, <1>5
<1>7. P \in Seq([text : Text, title : {section.title}, page : {section.page}]) /\ Len(P) = Len(T)
  <2> DEFINE m == Len(T)
             Q == [text : Text, title : {section.title}, page : {section.page}]
  <2>1. \A n \in 1 .. m : [text |-> T[n], title |-> section.title, page |-> section.page] \in Q
    BY <1>5
  <2>2. m \in Nat /\ P \in [1 .. m -> Q]
    BY <1>5, <1>6, <2>1
  <2> HIDE DEF m, Q
  <2>3. P \in Seq(Q) /\ Len(P) = m
    BY <2>2, IsSeq
  <2> QED BY <2>3 DEF m, Q
<1>8. \A n \in 1 .. Len(T) : P[n] = [text |-> T[n], title |-> section.title, page |-> section.page]
  BY <1>6
<1>9. Told(P, section, T, z)
  BY <1>2, <1>4, <1>7, <1>8 DEF Told
<1> QED BY <1>9 DEF P

-----------------------------------------------------------------------------
(* Sections.                                                               *)

LEMMA BlocksAre ==
  ASSUME NEW f \in File
  PROVE  /\ f.blocks \in Seq(Block) /\ Len(f.blocks) \in Nat \ {0} /\ f.blocks # <<>>
         /\ DOMAIN f.blocks = 1 .. Len(f.blocks)
         /\ \A i \in 1 .. Len(f.blocks) : /\ f.blocks[i] \in Block
                                          /\ f.blocks[i].symbols \in Seq(Symbols)
                                          /\ f.blocks[i].heading \in BOOLEAN
<1>1. f.blocks \in Seq(Block) /\ f.blocks # <<>>
  BY DEF File
<1>2. Len(f.blocks) \in Nat \ {0} /\ DOMAIN f.blocks = 1 .. Len(f.blocks)
  BY <1>1, EmptySeq
<1>3. \A i \in 1 .. Len(f.blocks) : f.blocks[i] \in Block
  BY <1>1
<1>4. \A b \in Block : b.symbols \in Seq(Symbols) /\ b.heading \in BOOLEAN
  BY DEF Block
<1> QED BY <1>1, <1>2, <1>3, <1>4

\* The letters of a block.
BlockLetters(f, i) == Letters(f.blocks[i].symbols)

\* Letters are in the order of the file, of its blocks and within one.
LEMMA NumberedIs ==
  ASSUME NEW f \in File, Numbered(f)
  PROVE  /\ \A i \in 1 .. Len(f.blocks) : Rising(f.blocks[i].symbols)
         /\ \A i, j \in 1 .. Len(f.blocks) : i < j =>
              \A a \in BlockLetters(f, i), b \in BlockLetters(f, j) : a < b
<1>1. \A i, j \in 1 .. Len(f.blocks) :
        \A m \in DOMAIN f.blocks[i].symbols, n \in DOMAIN f.blocks[j].symbols :
          f.blocks[i].symbols[m] > 0 /\ f.blocks[j].symbols[n] > 0 /\ (i < j \/ (i = j /\ m < n)) =>
            f.blocks[i].symbols[m] < f.blocks[j].symbols[n]
  <2>1. DOMAIN f.blocks = 1 .. Len(f.blocks)
    BY BlocksAre
  <2> QED BY <2>1, Zenon DEF Numbered
<1>2. ASSUME NEW i \in 1 .. Len(f.blocks) PROVE Rising(f.blocks[i].symbols)
  <2> DEFINE t == f.blocks[i].symbols
  <2>1. t \in Seq(Symbols)
    BY BlocksAre
  <2>2. \A m, n \in DOMAIN t : t[m] > 0 /\ t[n] > 0 /\ m < n => t[m] < t[n]
    BY <1>1
  <2> HIDE DEF t
  <2>3. DOMAIN t = 1 .. Len(t)
    BY <2>1
  <2>4. Rising(t)
    BY <2>2, <2>3 DEF Rising
  <2> QED BY <2>4 DEF t
<1>3. ASSUME NEW i \in 1 .. Len(f.blocks), NEW j \in 1 .. Len(f.blocks), i < j,
             NEW a \in BlockLetters(f, i), NEW b \in BlockLetters(f, j)
      PROVE  a < b
  <2> DEFINE t == f.blocks[i].symbols
             u == f.blocks[j].symbols
  <2>1. \A m \in DOMAIN t, n \in DOMAIN u : t[m] > 0 /\ u[n] > 0 => t[m] < u[n]
    BY <1>1, <1>3
  <2>2. a \in Letters(t) /\ b \in Letters(u)
    BY DEF BlockLetters
  <2> HIDE DEF t, u
  <2>3. PICK m \in DOMAIN t : t[m] > 0 /\ a = t[m]
    BY <2>2 DEF Letters
  <2>4. PICK n \in DOMAIN u : u[n] > 0 /\ b = u[n]
    BY <2>2 DEF Letters
  <2> QED BY <2>1, <2>3, <2>4
<1> QED BY <1>2, <1>3

\* q is some blocks of the file, the nth its h[n]th.
Chosen(q, h, f) ==
  /\ q \in Seq(Block)
  /\ \A n \in 1 .. Len(q) : h[n] \in 1 .. Len(f.blocks) /\ q[n] = f.blocks[h[n]]
  /\ \A m, n \in 1 .. Len(q) : m < n => h[m] < h[n]

\* q is the blocks B of the file.
Taken(q, h, f, B) == Chosen(q, h, f) /\ {h[n] : n \in 1 .. Len(q)} = B

\* What stands between the blocks of a section.
Between(between) == between \in Seq(Symbols) /\ \A j \in 1 .. Len(between) : ~(between[j] > 0)

\* What is said in the blocks of B.
Said(f, B) == UNION {BlockLetters(f, i) : i \in B}

ExtractedSection == [text : Seq(Symbols), title : Seq(Symbols) \cup {NoTitle}, page : Nat]

LEMMA SectionIs ==
  ASSUME NEW f \in File, Numbered(f), NEW q, NEW h, NEW B, Taken(q, h, f, B),
         NEW between, Between(between), NEW title \in Seq(Symbols) \cup {NoTitle}, NEW page \in Nat
  PROVE  /\ Section(q, between, title, page) \in ExtractedSection
         /\ Section(q, between, title, page).title = title
         /\ Section(q, between, title, page).page = page
         /\ Rising(Section(q, between, title, page).text)
         /\ Letters(Section(q, between, title, page).text) = Said(f, B)
<1>0. Chosen(q, h, f) /\ {h[n] : n \in 1 .. Len(q)} = B
  BY DEF Taken
<1> DEFINE N == Len(q)
           p == [n \in DOMAIN q |-> q[n].symbols]
           t == Joined(p, between)
<1>1. N \in Nat /\ DOMAIN q = 1 .. N
  BY <1>0 DEF Chosen
<1>2. p = [n \in 1 .. N |-> q[n].symbols]
  BY <1>1
<1>3. \A n \in 1 .. N : h[n] \in 1 .. Len(f.blocks) /\ q[n].symbols = f.blocks[h[n]].symbols
  BY <1>0 DEF Chosen
<1>4. p \in [1 .. N -> Seq(Symbols)]
  BY <1>2, <1>3, BlocksAre, Zenon
<1>5. Section(q, between, title, page) = [text |-> t, title |-> title, page |-> page]
  BY Zenon DEF Section
<1> HIDE DEF N
<1>6. p \in Seq(Seq(Symbols)) /\ Len(p) = N /\ \A n \in 1 .. N : p[n] = f.blocks[h[n]].symbols
  BY <1>1, <1>2, <1>3, <1>4, IsSeq
<1> HIDE DEF p
<1>7. \A n \in 1 .. N : Letters(p[n]) = BlockLetters(f, h[n])
  BY <1>6 DEF BlockLetters
<1>8. Sorted(p)
  <2>1. \A m, n \in 1 .. N : m < n => h[m] < h[n]
    BY <1>0 DEF Chosen, N
  <2>2. \A i, j \in 1 .. Len(f.blocks) : i < j => \A a \in BlockLetters(f, i), b \in BlockLetters(f, j) : a < b
    BY NumberedIs
  <2>3. \A m, n \in 1 .. N : m < n => \A a \in Letters(p[m]), b \in Letters(p[n]) : a < b
    <3> SUFFICES ASSUME NEW m \in 1 .. N, NEW n \in 1 .. N, m < n PROVE \A a \in Letters(p[m]), b \in Letters(p[n]) : a < b
      OBVIOUS
    <3> DEFINE i == h[m]
               j == h[n]
    <3>1. i \in 1 .. Len(f.blocks) /\ j \in 1 .. Len(f.blocks) /\ i < j
      BY <1>3, <2>1
    <3>2. Letters(p[m]) = BlockLetters(f, i) /\ Letters(p[n]) = BlockLetters(f, j)
      BY <1>7
    <3> HIDE DEF i, j
    <3> QED BY <2>2, <3>1, <3>2
  <2> QED BY <1>6, <2>3 DEF Sorted
<1>9. \A n \in 1 .. Len(p) : Rising(p[n])
  BY <1>3, <1>6, NumberedIs, Zenon
<1>10. t \in Seq(Symbols) /\ Letters(t) = LettersIn(p) /\ Rising(t)
  <2>1. Symbols \in {Clean, Symbols}
    OBVIOUS
  <2>2. between \in Seq(Symbols) /\ \A j \in 1 .. Len(between) : ~(between[j] > 0)
    BY DEF Between
  <2> QED BY <1>6, <1>8, <1>9, <2>1, <2>2, JoinedIs, Zenon
<1> HIDE DEF t
<1>11. Letters(t) = Said(f, {h[n] : n \in 1 .. N})
  <2>1. \A c : c \in LettersIn(p) <=> \E n \in 1 .. N : c \in Letters(p[n])
    BY <1>6 DEF LettersIn
  <2>2. \A c : c \in Said(f, {h[n] : n \in 1 .. N}) <=> \E n \in 1 .. N : c \in BlockLetters(f, h[n])
    BY DEF Said
  <2>3. \A c : c \in LettersIn(p) <=> c \in Said(f, {h[n] : n \in 1 .. N})
    BY <1>7, <2>1, <2>2
  <2> QED BY <1>10, <2>3, Zenon
<1>12. [text |-> t, title |-> title, page |-> page] \in ExtractedSection
  BY <1>10 DEF ExtractedSection
<1>13. Said(f, {h[n] : n \in 1 .. N}) = Said(f, B)
  BY <1>0, Zenon DEF N
<1> QED BY <1>5, <1>10, <1>11, <1>12, <1>13

\* The sections of a file: the kth says what its blocks B[k] do.
Drawn(S, f, B) ==
  /\ S \in Seq(ExtractedSection)
  /\ \A k \in 1 .. Len(S) : /\ B[k] \subseteq 1 .. Len(f.blocks)
                            /\ Rising(S[k].text) /\ Letters(S[k].text) = Said(f, B[k])
  /\ \A k, l \in 1 .. Len(S) : k < l => \A i \in B[k], j \in B[l] : i < j
  /\ \A k \in 1 .. Len(S) : \A i, j \in B[k] : \A l \in 1 .. Len(f.blocks) :
       i <= l /\ l <= j => l \in B[k] \/ BlockLetters(f, l) = {}
  /\ \A k \in 1 .. Len(S) : \A i \in B[k] :
       S[k].title = TitleOf(f, i) /\ (f.format = "pdf" => S[k].page = i)
  /\ \A i \in 1 .. Len(f.blocks) : \/ BlockLetters(f, i) = {}
                                   \/ f.format = "pdf" /\ ~f.blocks[i].readable
                                   \/ \E k \in 1 .. Len(S) : i \in B[k]

\* Without the blank sections.
LEMMA SolidDrawn ==
  ASSUME NEW f \in File, NEW S, NEW B, Drawn(S, f, B)
  PROVE  \E C : Drawn(At(S, {n \in DOMAIN S : ~Blank(S[n].text)}), f, C)
<1> DEFINE P == {n \in DOMAIN S : ~Blank(S[n].text)}
           s == At(S, P)
<1>1. S \in Seq(ExtractedSection) /\ Len(S) \in Nat /\ DOMAIN S = 1 .. Len(S)
  BY DEF Drawn
<1>2. P \subseteq 1 .. Len(S)
  BY <1>1
<1>3. \A n \in 1 .. Len(S) : n \notin P => Said(f, B[n]) = {}
  <2> SUFFICES ASSUME NEW n \in 1 .. Len(S), n \notin P PROVE Said(f, B[n]) = {}
    OBVIOUS
  <2>1. Blank(S[n].text) /\ S[n].text \in Seq(Symbols)
    <3>1. S[n] \in ExtractedSection
      BY <1>1
    <3>2. \A u \in ExtractedSection : u.text \in Seq(Symbols)
      BY DEF ExtractedSection
    <3>3. n \in DOMAIN S
      BY <1>1
    <3>4. Blank(S[n].text)
      BY <3>3
    <3> HIDE DEF P
    <3> QED BY <3>1, <3>2, <3>4
  <2> DEFINE t == S[n].text
  <2> HIDE DEF t
  <2>2. Blank(t) /\ t \in Seq(Symbols)
    BY <2>1 DEF t
  <2>3. \A i \in 1 .. Len(t) : ~(t[i] > 0)
    <3>1. \A c \in White : ~(c > 0)
      BY DEF White, Space, Newline
    <3>2. \A i \in 1 .. Len(t) : t[i] \in White
      BY <2>2, BlankIs
    <3> QED BY <3>1, <3>2
  <2>4. Letters(t) = {}
    BY <2>2, <2>3 DEF Letters
  <2> QED BY <2>4 DEF Drawn, t
<1> HIDE DEF P
<1>4. s \in Seq(ExtractedSection) /\ \E g : Picks(g, s, S, P)
  BY <1>1, <1>2, AtPicks, Zenon
<1>5. PICK g : Picks(g, s, S, P)
  BY <1>4
<1> HIDE DEF s
<1> DEFINE N == Len(s)
           C == [n \in 1 .. N |-> B[g[n]]]
<1>6. N \in Nat
  BY <1>4
<1>7. \A n \in 1 .. N : g[n] \in 1 .. Len(S) /\ s[n] = S[g[n]] /\ C[n] = B[g[n]]
  BY <1>2, <1>5, Zenon DEF Picks
<1>8. \A k, l \in 1 .. N : k < l => g[k] < g[l]
  BY <1>5 DEF Picks
<1> HIDE DEF C
<1>9. \A k \in 1 .. N : /\ C[k] \subseteq 1 .. Len(f.blocks)
                        /\ Rising(s[k].text) /\ Letters(s[k].text) = Said(f, C[k])
  <2>1. \A k \in 1 .. Len(S) : /\ B[k] \subseteq 1 .. Len(f.blocks)
                               /\ Rising(S[k].text) /\ Letters(S[k].text) = Said(f, B[k])
    BY DEF Drawn
  <2> HIDE DEF N
  <2> QED BY <1>7, <2>1
<1>10. \A k, l \in 1 .. N : k < l => \A i \in C[k], j \in C[l] : i < j
  <2>1. \A k, l \in 1 .. Len(S) : k < l => \A i \in B[k], j \in B[l] : i < j
    BY DEF Drawn
  <2> HIDE DEF N
  <2> QED BY <1>7, <1>8, <2>1
<1>11. \A k \in 1 .. N : \A i, j \in C[k] : \A l \in 1 .. Len(f.blocks) :
         i <= l /\ l <= j => l \in C[k] \/ BlockLetters(f, l) = {}
  <2>1. \A k \in 1 .. Len(S) : \A i, j \in B[k] : \A l \in 1 .. Len(f.blocks) :
          i <= l /\ l <= j => l \in B[k] \/ BlockLetters(f, l) = {}
    BY DEF Drawn
  <2> HIDE DEF N
  <2> QED BY <1>7, <2>1
<1>12. \A k \in 1 .. N : \A i \in C[k] :
         s[k].title = TitleOf(f, i) /\ (f.format = "pdf" => s[k].page = i)
  <2>1. \A k \in 1 .. Len(S) : \A i \in B[k] :
          S[k].title = TitleOf(f, i) /\ (f.format = "pdf" => S[k].page = i)
    BY DEF Drawn
  <2> HIDE DEF N
  <2> QED BY <1>7, <2>1
<1>13. \A i \in 1 .. Len(f.blocks) : \/ BlockLetters(f, i) = {}
                                     \/ f.format = "pdf" /\ ~f.blocks[i].readable
                                     \/ \E k \in 1 .. N : i \in C[k]
  <2> SUFFICES ASSUME NEW i \in 1 .. Len(f.blocks), BlockLetters(f, i) # {},
                      ~(f.format = "pdf" /\ ~f.blocks[i].readable)
               PROVE  \E k \in 1 .. N : i \in C[k]
    OBVIOUS
  <2>1. \E k \in 1 .. Len(S) : i \in B[k]
    BY DEF Drawn
  <2>2. PICK k \in 1 .. Len(S) : i \in B[k]
    BY <2>1
  <2>3. k \in P
    BY <1>3, <2>2 DEF Said
  <2>4. PICK n \in 1 .. N : g[n] = k
    BY <1>5, <2>3 DEF Picks
  <2> HIDE DEF N
  <2> QED BY <1>7, <2>2, <2>4
<1>14. Drawn(s, f, C)
  BY <1>4, <1>9, <1>10, <1>11, <1>12, <1>13, Zenon DEF Drawn
<1> QED BY <1>14 DEF s, P

\* Where the kth of the parts opened at o ends.
LastOf(o, n, k) == IF k = Len(o) THEN n ELSE o[k + 1] - 1

\* The parts opened at P share 1 .. N out.
LEMMA OpensAre ==
  ASSUME NEW N \in Nat, NEW P, P \subseteq 1 .. N, N # 0 => 1 \in P
  PROVE  /\ Len(InOrder(P)) \in Nat /\ DOMAIN InOrder(P) = 1 .. Len(InOrder(P))
         /\ \A k \in 1 .. Len(InOrder(P)) :
              /\ InOrder(P)[k] \in P
              /\ LastOf(InOrder(P), N, k) \in InOrder(P)[k] .. N
              /\ \A p \in P : ~(InOrder(P)[k] < p /\ p <= LastOf(InOrder(P), N, k))
         /\ \A k, l \in 1 .. Len(InOrder(P)) : k < l => LastOf(InOrder(P), N, k) < InOrder(P)[l]
         /\ \A m \in 1 .. N : \E k \in 1 .. Len(InOrder(P)) : m \in InOrder(P)[k] .. LastOf(InOrder(P), N, k)
<1> DEFINE o == InOrder(P)
           c == Cardinality(P)
<1>1. IsFiniteSet(P) /\ P \subseteq Nat
  <2>1. IsFiniteSet(1 .. N) /\ P \in SUBSET (1 .. N)
    BY Counting
  <2>2. IsFiniteSet(P)
    <3> DEFINE Q == 1 .. N
    <3>1. IsFiniteSet(Q) /\ P \in SUBSET Q
      BY <2>1
    <3> HIDE DEF Q
    <3> QED BY <3>1, FS_Subset, Zenon
  <2>3. P \subseteq Nat
    OBVIOUS
  <2> QED BY <2>2, <2>3
<1>2. /\ c \in Nat /\ o \in [1 .. c -> P]
      /\ \A i \in P : \E n \in 1 .. c : o[n] = i
      /\ \A m, n \in 1 .. c : m < n <=> o[m] < o[n]
  BY <1>1, InOrderLists, Zenon
<1> HIDE DEF o, c
<1>3. Len(o) = c /\ DOMAIN o = 1 .. c
  BY <1>2, IsSeq
<1>4. \A k \in 1 .. c : o[k] \in P /\ o[k] \in 1 .. N
  BY <1>2, Zenon
<1>5. ASSUME NEW k \in 1 .. c
      PROVE  /\ LastOf(o, N, k) \in o[k] .. N
             /\ \A p \in P : ~(o[k] < p /\ p <= LastOf(o, N, k))
             /\ \A l \in 1 .. c : k < l => LastOf(o, N, k) < o[l]
  <2>1. CASE k = c
    <3>1. LastOf(o, N, k) = N
      BY <1>3, <2>1 DEF LastOf
    <3>2. \A p \in P : ~(o[k] < p)
      <4> SUFFICES ASSUME NEW p \in P, o[k] < p PROVE FALSE
        OBVIOUS
      <4>1. PICK n \in 1 .. c : o[n] = p
        BY <1>2
      <4>2. k < n
        BY <1>2, <4>1
      <4> QED BY <1>2, <2>1, <4>2
    <3>3. \A l \in 1 .. c : ~(k < l)
      BY <1>2, <2>1
    <3>4. N \in o[k] .. N
      BY <1>4
    <3> QED BY <3>1, <3>2, <3>3, <3>4
  <2>2. CASE k # c
    <3> DEFINE j == k + 1
    <3>1. j \in 1 .. c /\ k < j
      BY <1>2, <2>2
    <3>2. LastOf(o, N, k) = o[j] - 1
      BY <1>3, <2>2 DEF LastOf
    <3>3. \A l \in 1 .. c : k < l => l = j \/ j < l
      BY <1>2
    <3>4. \A n \in 1 .. c : ~(k < n /\ n < j)
      BY <1>2
    <3> HIDE DEF j
    <3>5. o[k] < o[j] /\ o[k] \in 1 .. N /\ o[j] \in 1 .. N
      BY <1>2, <1>4, <3>1
    <3>6. \A p \in P : ~(o[k] < p /\ p < o[j])
      <4> SUFFICES ASSUME NEW p \in P, o[k] < p, p < o[j] PROVE FALSE
        OBVIOUS
      <4>1. PICK n \in 1 .. c : o[n] = p
        BY <1>2
      <4>2. k < n /\ n < j
        BY <1>2, <3>1, <4>1
      <4> QED BY <3>4, <4>2
    <3>7. \A l \in 1 .. c : k < l => o[j] <= o[l]
      <4> SUFFICES ASSUME NEW l \in 1 .. c, k < l PROVE o[j] <= o[l]
        OBVIOUS
      <4>1. l = j \/ o[j] < o[l]
        BY <1>2, <3>1, <3>3
      <4>2. o[l] \in 1 .. N
        BY <1>4
      <4> QED BY <3>5, <4>1, <4>2
    <3>8. o[j] - 1 \in o[k] .. N
      BY <3>5
    <3>9. \A p \in P : p \in Int
      OBVIOUS
    <3>10. \A p \in P : p <= o[j] - 1 => p < o[j]
      BY <3>5, <3>9
    <3>11. \A l \in 1 .. c : k < l => o[j] - 1 < o[l]
      BY <1>4, <3>5, <3>7
    <3> QED BY <3>2, <3>6, <3>8, <3>10, <3>11
  <2> QED BY <2>1, <2>2
<1>6. ASSUME NEW m \in 1 .. N PROVE \E k \in 1 .. c : m \in o[k] .. LastOf(o, N, k)
  <2> DEFINE T == {d \in Nat : \E p \in P : p <= m /\ d = m - p}
  <2>1. T \in SUBSET Nat /\ T # {}
    <3>1. 1 \in P /\ 1 <= m /\ m - 1 \in Nat
      OBVIOUS
    <3>2. m - 1 \in T
      BY <3>1
    <3> QED BY <3>2, Zenon
  <2>2. PICK d \in T : \A e \in T : d <= e
    <3> HIDE DEF T
    <3> QED BY <2>1, LeastNatural
  <2>3. PICK p \in P : p <= m /\ d = m - p
    BY <2>2
  <2>4. PICK k \in 1 .. c : o[k] = p
    BY <1>2
  <2>5. m <= LastOf(o, N, k)
    <3>1. CASE k = c
      <4>1. LastOf(o, N, k) = N
        BY <1>3, <3>1 DEF LastOf
      <4> QED BY <4>1
    <3>2. CASE k # c
      <4> DEFINE j == k + 1
      <4>1. j \in 1 .. c /\ k < j
        BY <1>2, <3>2
      <4>2. LastOf(o, N, k) = o[j] - 1
        BY <1>3, <3>2 DEF LastOf
      <4> HIDE DEF j
      <4>3. o[j] \in P /\ p < o[j] /\ o[j] \in 1 .. N /\ p \in 1 .. N
        BY <1>2, <1>4, <2>4, <4>1, Zenon
      <4>4. ~(o[j] <= m)
        <5> SUFFICES ASSUME o[j] <= m PROVE FALSE
          OBVIOUS
        <5>1. m - o[j] \in T /\ m - o[j] < m - p
          BY <4>3
        <5>2. m - p <= m - o[j]
          <6> HIDE DEF T
          <6> QED BY <2>2, <2>3, <5>1, Zenon
        <5> QED BY <4>3, <5>1, <5>2
      <4> QED BY <4>2, <4>3, <4>4
    <3> QED BY <3>1, <3>2
  <2>6. m \in o[k] .. LastOf(o, N, k)
    <3>1. LastOf(o, N, k) \in Int /\ o[k] \in Int
      BY <1>4, <1>5
    <3> QED BY <2>3, <2>4, <2>5, <3>1
  <2> QED BY <2>6
<1> QED BY <1>2, <1>3, <1>4, <1>5, <1>6, Zenon DEF o

\* Some blocks in a row, of those chosen.
LEMMA ChosenPart ==
  ASSUME NEW f \in File, NEW b, NEW g, Chosen(b, g, f), NEW u \in 1 .. Len(b), NEW v \in u .. Len(b)
  PROVE  \E h : Taken(SubSeq(b, u, v), h, f, {g[m] : m \in u .. v})
<1> DEFINE q == SubSeq(b, u, v)
           N == Len(q)
           h == [n \in 1 .. N |-> g[u + n - 1]]
<1>1. b \in Seq(Block) /\ Len(b) \in Nat
  BY DEF Chosen
<1>2. u \in 1 .. Len(b) + 1 /\ v \in 0 .. Len(b)
  BY <1>1
<1>3. /\ q \in Seq(Block) /\ N = v - u + 1
      /\ \A n \in 1 .. N : q[n] = b[u + n - 1]
      /\ \A n \in 1 .. N : u + n - 1 \in u .. v /\ u + n - 1 \in 1 .. Len(b)
  BY <1>1, <1>2, SubSeqIs
<1> HIDE DEF q
<1>4. \A n \in 1 .. N : h[n] = g[u + n - 1]
  OBVIOUS
<1> HIDE DEF h
<1>5. \A n \in 1 .. N : h[n] \in 1 .. Len(f.blocks) /\ q[n] = f.blocks[h[n]]
  <2> SUFFICES ASSUME NEW n \in 1 .. N PROVE h[n] \in 1 .. Len(f.blocks) /\ q[n] = f.blocks[h[n]]
    OBVIOUS
  <2> DEFINE m == u + n - 1
  <2>1. m \in 1 .. Len(b) /\ h[n] = g[m] /\ q[n] = b[m]
    BY <1>3, <1>4
  <2> HIDE DEF m
  <2>2. g[m] \in 1 .. Len(f.blocks) /\ b[m] = f.blocks[g[m]]
    BY <2>1 DEF Chosen
  <2> QED BY <2>1, <2>2
<1>6. \A k, n \in 1 .. N : k < n => h[k] < h[n]
  <2> SUFFICES ASSUME NEW k \in 1 .. N, NEW n \in 1 .. N, k < n PROVE h[k] < h[n]
    OBVIOUS
  <2> DEFINE l == u + k - 1
             m == u + n - 1
  <2>1. l \in 1 .. Len(b) /\ m \in 1 .. Len(b) /\ l < m /\ h[k] = g[l] /\ h[n] = g[m]
    BY <1>3, <1>4
  <2> HIDE DEF l, m
  <2>2. g[l] < g[m]
    BY <2>1 DEF Chosen
  <2> QED BY <2>1, <2>2
<1>7. {h[n] : n \in 1 .. N} = {g[m] : m \in u .. v}
  <2>1. \A n \in 1 .. N : \E m \in u .. v : h[n] = g[m]
    BY <1>3, <1>4, Zenon
  <2>2. ASSUME NEW m \in u .. v PROVE \E n \in 1 .. N : h[n] = g[m]
    <3> DEFINE n == m - u + 1
    <3>1. n \in 1 .. N /\ u + n - 1 = m
      BY <1>3
    <3>2. h[n] = g[m]
      BY <1>4, <3>1
    <3> QED BY <3>1, <3>2
  <2>3. ASSUME NEW c \in {h[n] : n \in 1 .. N} PROVE c \in {g[m] : m \in u .. v}
    BY <2>1
  <2>4. ASSUME NEW c \in {g[m] : m \in u .. v} PROVE c \in {h[n] : n \in 1 .. N}
    <3>1. PICK m \in u .. v : c = g[m]
      BY <2>4
    <3>2. PICK n \in 1 .. N : h[n] = g[m]
      BY <2>2
    <3> QED BY <3>1, <3>2
  <2> QED BY <2>3, <2>4, Zenon
<1>8. Chosen(q, h, f)
  BY <1>3, <1>5, <1>6 DEF Chosen
<1>9. Taken(q, h, f, {g[m] : m \in u .. v})
  BY <1>7, <1>8, Zenon DEF Taken
<1> QED BY <1>9, Zenon DEF q

\* b is the file's blocks that have a text, at least.
Solid(b, g, f) ==
  /\ Chosen(b, g, f)
  /\ \A i \in 1 .. Len(f.blocks) : Blank(f.blocks[i].symbols) \/ \E m \in 1 .. Len(b) : g[m] = i
  /\ \A m \in 1 .. Len(b) : b[m].heading => ~Blank(b[m].symbols)

\* The title of a block is the heading its section begins with.
LEMMA TitleIs ==
  ASSUME NEW f \in File, f.format \in {"md", "docx"}, NEW b, NEW g, Solid(b, g, f),
         NEW u \in 1 .. Len(b), u = 1 \/ b[u].heading, NEW m \in u .. Len(b),
         \A p \in 1 .. Len(b) : b[p].heading => ~(u < p /\ p <= m)
  PROVE  TitleOf(f, g[m]) = IF b[u].heading THEN b[u].symbols ELSE NoTitle
<1> DEFINE a == g[m]
           headings == {h \in 1 .. a : f.blocks[h].heading /\ ~Blank(f.blocks[h].symbols)}
<1>1. b \in Seq(Block) /\ Len(b) \in Nat /\ m \in 1 .. Len(b)
  BY DEF Solid, Chosen
<1>2. /\ \A n \in 1 .. Len(b) : g[n] \in 1 .. Len(f.blocks) /\ b[n] = f.blocks[g[n]]
      /\ \A k, n \in 1 .. Len(b) : k < n => g[k] < g[n]
  BY DEF Solid, Chosen
<1>3. Len(f.blocks) \in Nat
  BY BlocksAre
<1>4. a \in 1 .. Len(f.blocks)
  BY <1>1, <1>2
<1>5. TitleOf(f, a) = IF headings = {} THEN NoTitle
                      ELSE f.blocks[CHOOSE h \in headings : \A k \in headings : k <= h].symbols
  <2>1. TitleOf(f, a) = IF f.format \notin {"md", "docx"} \/ headings = {} THEN NoTitle
                        ELSE f.blocks[CHOOSE h \in headings : \A k \in headings : k <= h].symbols
    BY Zenon DEF TitleOf
  <2> HIDE DEF headings, a
  <2> QED BY <2>1
<1>6. ASSUME NEW h \in headings
      PROVE  \E n \in 1 .. u : g[n] = h /\ b[n].heading
  <2>1. h \in 1 .. a /\ f.blocks[h].heading /\ ~Blank(f.blocks[h].symbols)
    OBVIOUS
  <2>2. h \in 1 .. Len(f.blocks)
    BY <1>3, <1>4, <2>1
  <2>3. \A i \in 1 .. Len(f.blocks) : Blank(f.blocks[i].symbols) \/ \E n \in 1 .. Len(b) : g[n] = i
    BY DEF Solid
  <2>4. PICK n \in 1 .. Len(b) : g[n] = h
    BY <2>1, <2>2, <2>3
  <2>5. b[n].heading
    BY <1>2, <2>1, <2>4, Zenon
  <2>6. ~(m < n)
    <3> SUFFICES ASSUME m < n PROVE FALSE
      OBVIOUS
    <3>1. a < h
      BY <1>1, <1>2, <2>4
    <3> QED BY <1>4, <2>1, <3>1
  <2>7. ~(u < n /\ n <= m)
    BY <2>5
  <2>8. n \in 1 .. u
    BY <2>6, <2>7
  <2> QED BY <2>4, <2>5, <2>8
<1>7. CASE b[u].heading
  <2> DEFINE c == g[u]
  <2>1. c \in 1 .. Len(f.blocks) /\ b[u] = f.blocks[c]
    BY <1>2
  <2>2. c <= a
    <3>1. u = m \/ u < m
      OBVIOUS
    <3>2. u = m \/ g[u] < g[m]
      BY <1>1, <1>2, <3>1
    <3> QED BY <1>4, <2>1, <3>2
  <2>3. c \in headings
    <3>1. ~Blank(b[u].symbols)
      BY <1>7 DEF Solid
    <3> QED BY <1>4, <1>7, <2>1, <2>2, <3>1
  <2>4. \A h \in headings : h <= c
    <3> SUFFICES ASSUME NEW h \in headings PROVE h <= c
      OBVIOUS
    <3>1. PICK n \in 1 .. u : g[n] = h
      BY <1>6
    <3>2. n \in 1 .. Len(b) /\ (n = u \/ n < u)
      BY <1>1
    <3>3. h = c \/ h < c
      BY <1>2, <3>1, <3>2
    <3>4. h \in Int
      BY <1>2, <3>1, <3>2
    <3> QED BY <2>1, <3>3, <3>4
  <2>5. (CHOOSE h \in headings : \A k \in headings : k <= h) = c
    <3>1. \A h \in headings : h \in Int
      BY <1>4
    <3> HIDE DEF headings, c
    <3>2. \A h \in headings : (\A k \in headings : k <= h) => h = c
      BY <2>3, <2>4, <3>1
    <3> QED BY <2>3, <2>4, <3>2
  <2> QED BY <1>5, <1>7, <2>1, <2>3, <2>5, Zenon
<1>8. CASE ~b[u].heading
  <2>1. headings = {}
    <3> SUFFICES ASSUME NEW h \in headings PROVE FALSE
      OBVIOUS
    <3>1. PICK n \in 1 .. u : g[n] = h /\ b[n].heading
      BY <1>6
    <3>2. u = 1 /\ n = u
      BY <1>8
    <3> QED BY <1>8, <3>1, <3>2
  <2> QED BY <1>5, <1>8, <2>1
<1> QED BY <1>7, <1>8

LEMMA BlankLetters ==
  ASSUME NEW t \in Seq(Symbols), Blank(t)
  PROVE  Letters(t) = {}
<1>1. \A c \in White : ~(c > 0)
  BY DEF White, Space, Newline
<1>2. \A i \in 1 .. Len(t) : t[i] \in White
  BY BlankIs
<1>3. \A i \in 1 .. Len(t) : ~(t[i] > 0)
  BY <1>1, <1>2
<1> QED BY <1>3 DEF Letters

\* Word documents and Markdown.
LEMMA HeadedDrawn ==
  ASSUME NEW f \in File, Numbered(f), f.format \in {"md", "docx"}, NEW b, NEW g, Solid(b, g, f),
         NEW between, Between(between)
  PROVE  \E B : Drawn(Headed(b, between), f, B)
<1> DEFINE M == Len(b)
           P == {n \in DOMAIN b : n = 1 \/ b[n].heading}
           o == InOrder(P)
           K == Len(o)
           last(k) == LastOf(o, M, k)
           title(k) == IF b[o[k]].heading THEN b[o[k]].symbols ELSE NoTitle
           s(k) == Section(SubSeq(b, o[k], last(k)), between, title(k), 0)
           S == Headed(b, between)
           C(k) == {g[m] : m \in o[k] .. last(k)}
           B == [k \in 1 .. K |-> C(k)]
<1>1. b \in Seq(Block) /\ M \in Nat /\ DOMAIN b = 1 .. M /\ Chosen(b, g, f)
  BY SMTT(20) DEF Solid, Chosen
<1>2. /\ \A n \in 1 .. M : g[n] \in 1 .. Len(f.blocks) /\ b[n] = f.blocks[g[n]]
      /\ \A k, n \in 1 .. M : k < n => g[k] < g[n]
  BY DEF Solid, Chosen
<1>3. P \subseteq 1 .. M /\ (M # 0 => 1 \in P) /\ \A n \in 1 .. M : n \in P <=> n = 1 \/ b[n].heading
  BY <1>1
<1> HIDE DEF M
<1>4. S = [k \in DOMAIN o |-> s(k)]
  BY Zenon DEF Headed, M, LastOf
<1> HIDE DEF P, S
<1>5. K \in Nat /\ DOMAIN o = 1 .. K
  BY <1>1, <1>3, OpensAre
<1>6. \A k \in 1 .. K : /\ o[k] \in P
                        /\ last(k) \in o[k] .. M
                        /\ \A p \in P : ~(o[k] < p /\ p <= last(k))
  BY <1>1, <1>3, OpensAre, Zenon
<1>7. \A k, l \in 1 .. K : k < l => last(k) < o[l]
  BY <1>1, <1>3, OpensAre, Zenon
<1>8. \A m \in 1 .. M : \E k \in 1 .. K : m \in o[k] .. last(k)
  BY <1>1, <1>3, OpensAre, Zenon
<1> HIDE DEF o
<1>9. S = [k \in 1 .. K |-> s(k)]
  BY <1>4, <1>5
<1>10. \A k \in 1 .. K : o[k] \in 1 .. M /\ last(k) \in o[k] .. M
  BY <1>3, <1>6, Zenon
<1> HIDE DEF last, K
<1>11. \A k \in 1 .. K : title(k) \in Seq(Symbols) \cup {NoTitle}
  <2> SUFFICES ASSUME NEW k \in 1 .. K PROVE title(k) \in Seq(Symbols) \cup {NoTitle}
    OBVIOUS
  <2> DEFINE u == o[k]
             i == g[u]
  <2>1. i \in 1 .. Len(f.blocks) /\ b[u] = f.blocks[i]
    BY <1>2, <1>10
  <2> HIDE DEF i
  <2>2. f.blocks[i].symbols \in Seq(Symbols)
    BY <2>1, BlocksAre
  <2> QED BY <2>1, <2>2
<1> HIDE DEF title
<1>12. \A k \in 1 .. K : /\ s(k) \in ExtractedSection
                         /\ s(k).title = title(k)
                         /\ Rising(s(k).text) /\ Letters(s(k).text) = Said(f, C(k))
  <2> SUFFICES ASSUME NEW k \in 1 .. K
               PROVE  /\ s(k) \in ExtractedSection
                      /\ s(k).title = title(k)
                      /\ Rising(s(k).text) /\ Letters(s(k).text) = Said(f, C(k))
    OBVIOUS
  <2> DEFINE u == o[k]
             v == last(k)
             q == SubSeq(b, u, v)
             t == title(k)
  <2>1. u \in 1 .. Len(b) /\ v \in u .. Len(b)
    BY <1>10 DEF M
  <2>2. t \in Seq(Symbols) \cup {NoTitle}
    BY <1>11
  <2> HIDE DEF u, v, t
  <2> DEFINE W == {g[m] : m \in u .. v}
  <2>3. PICK h : Taken(q, h, f, W)
    BY <1>1, <2>1, ChosenPart, Zenon
  <2> HIDE DEF q, W
  <2> DEFINE x == Section(q, between, t, 0)
  <2>4. /\ x \in ExtractedSection /\ x.title = t /\ Rising(x.text)
        /\ Letters(x.text) = Said(f, W)
    BY <2>2, <2>3, SectionIs
  <2> HIDE DEF x
  <2>5. x = s(k) /\ W = C(k)
    BY DEF x, q, u, v, t, W
  <2> HIDE DEF s, C
  <2> QED BY <2>4, <2>5 DEF t
<1> HIDE DEF s
<1>13. S \in Seq(ExtractedSection) /\ Len(S) = K /\ \A k \in 1 .. K : S[k] = s(k)
  <2>1. S \in [1 .. K -> ExtractedSection] /\ \A k \in 1 .. K : S[k] = s(k)
    BY <1>9, <1>12, Zenon
  <2> QED BY <1>5, <2>1, IsSeq
<1>14. \A k \in 1 .. K : B[k] = C(k)
  OBVIOUS
<1> HIDE DEF B
<1>15. \A k \in 1 .. K : \A i \in C(k) : \E m \in 1 .. M : g[m] = i /\ o[k] <= m /\ m <= last(k)
  <2> SUFFICES ASSUME NEW k \in 1 .. K, NEW i \in C(k)
               PROVE  \E m \in 1 .. M : g[m] = i /\ o[k] <= m /\ m <= last(k)
    OBVIOUS
  <2>1. PICK m \in o[k] .. last(k) : g[m] = i
    OBVIOUS
  <2>2. m \in 1 .. M /\ o[k] <= m /\ m <= last(k)
    BY <1>1, <1>10
  <2> QED BY <2>1, <2>2
<1>16. \A k \in 1 .. K : \A m \in 1 .. M : o[k] <= m /\ m <= last(k) => g[m] \in C(k)
  BY <1>1, <1>10
<1> HIDE DEF C
<1>17. ASSUME NEW k \in 1 .. K PROVE C(k) \subseteq 1 .. Len(f.blocks)
  BY <1>2, <1>15
<1>18. ASSUME NEW k \in 1 .. K, NEW l \in 1 .. K, k < l, NEW i \in C(k), NEW j \in C(l) PROVE i < j
  <2>1. PICK m \in 1 .. M : g[m] = i /\ o[k] <= m /\ m <= last(k)
    BY <1>15
  <2>2. PICK n \in 1 .. M : g[n] = j /\ o[l] <= n /\ n <= last(l)
    BY <1>15
  <2>3. last(k) < o[l] /\ last(k) \in 1 .. M /\ o[l] \in 1 .. M
    BY <1>7, <1>10, <1>18, <1>1
  <2>4. m < n
    BY <2>1, <2>2, <2>3
  <2> QED BY <1>2, <2>1, <2>2, <2>4
<1>19. \A l \in 1 .. Len(f.blocks) : BlockLetters(f, l) = {} \/ \E n \in 1 .. M : g[n] = l
  <2> SUFFICES ASSUME NEW l \in 1 .. Len(f.blocks), BlockLetters(f, l) # {} PROVE \E n \in 1 .. M : g[n] = l
    OBVIOUS
  <2>1. ~Blank(f.blocks[l].symbols)
    BY BlocksAre, BlankLetters DEF BlockLetters
  <2> QED BY <2>1 DEF Solid, M
<1>20. ASSUME NEW k \in 1 .. K, NEW i \in C(k), NEW j \in C(k), NEW l \in 1 .. Len(f.blocks), i <= l, l <= j
       PROVE  l \in C(k) \/ BlockLetters(f, l) = {}
  <2> SUFFICES ASSUME NEW n \in 1 .. M, g[n] = l PROVE l \in C(k)
    BY <1>19
  <2>1. PICK m \in 1 .. M : g[m] = i /\ o[k] <= m /\ m <= last(k)
    BY <1>15
  <2>2. PICK p \in 1 .. M : g[p] = j /\ o[k] <= p /\ p <= last(k)
    BY <1>15
  <2>3. i \in Int /\ j \in Int /\ l \in Int
    BY <1>17
  <2>4. ~(n < m)
    <3> SUFFICES ASSUME n < m PROVE FALSE
      OBVIOUS
    <3>1. l < i
      BY <1>2, <2>1
    <3> QED BY <1>20, <2>3, <3>1
  <2>5. ~(p < n)
    <3> SUFFICES ASSUME p < n PROVE FALSE
      OBVIOUS
    <3>1. j < l
      BY <1>2, <2>2
    <3> QED BY <1>20, <2>3, <3>1
  <2>6. o[k] <= n /\ n <= last(k)
    <3>1. o[k] \in Int /\ last(k) \in Int /\ M \in Int
      BY <1>1, <1>10
    <3> QED BY <2>1, <2>2, <2>4, <2>5, <3>1
  <2> QED BY <1>16, <2>6
<1>21. ASSUME NEW k \in 1 .. K, NEW i \in C(k) PROVE title(k) = TitleOf(f, i)
  <2> DEFINE u == o[k]
  <2>1. PICK m \in 1 .. M : g[m] = i /\ u <= m /\ m <= last(k)
    BY <1>15
  <2>2. u \in 1 .. M /\ last(k) \in 1 .. M /\ u \in P /\ \A p \in P : ~(u < p /\ p <= last(k))
    BY <1>1, <1>6, <1>10
  <2>3. title(k) = IF b[u].heading THEN b[u].symbols ELSE NoTitle
    BY DEF title
  <2> HIDE DEF u
  <2>4. u = 1 \/ b[u].heading
    BY <1>3, <2>2
  <2>5. \A p \in 1 .. M : b[p].heading => ~(u < p /\ p <= m)
    <3> SUFFICES ASSUME NEW p \in 1 .. M, b[p].heading, u < p, p <= m PROVE FALSE
      OBVIOUS
    <3>1. p \in P /\ p <= last(k)
      BY <1>1, <1>3, <2>1, <2>2
    <3> QED BY <2>2, <3>1
  <2>6. u \in 1 .. Len(b) /\ m \in u .. Len(b)
    BY <1>1, <2>1, <2>2 DEF M
  <2>7. \A p \in 1 .. Len(b) : b[p].heading => ~(u < p /\ p <= m)
    BY <2>5 DEF M
  <2>8. TitleOf(f, g[m]) = IF b[u].heading THEN b[u].symbols ELSE NoTitle
    BY <2>4, <2>6, <2>7, TitleIs
  <2> QED BY <2>1, <2>3, <2>8
<1>22. f.format # "pdf"
  OBVIOUS
<1>23. ASSUME NEW i \in 1 .. Len(f.blocks), BlockLetters(f, i) # {}
       PROVE  \E k \in 1 .. K : i \in C(k)
  <2>1. PICK m \in 1 .. M : g[m] = i
    BY <1>19, <1>23
  <2>2. PICK k \in 1 .. K : m \in o[k] .. last(k)
    BY <1>8 DEF last
  <2>3. o[k] <= m /\ m <= last(k)
    BY <1>1, <1>10, <2>2
  <2> QED BY <1>16, <2>1, <2>3
<1>24. Drawn(S, f, B)
  <2>1. \A k \in 1 .. K : /\ B[k] \subseteq 1 .. Len(f.blocks)
                          /\ Rising(S[k].text) /\ Letters(S[k].text) = Said(f, B[k])
    BY <1>12, <1>13, <1>14, <1>17
  <2>2. \A k, l \in 1 .. K : k < l => \A i \in B[k], j \in B[l] : i < j
    BY <1>14, <1>18
  <2>3. \A k \in 1 .. K : \A i, j \in B[k] : \A l \in 1 .. Len(f.blocks) :
          i <= l /\ l <= j => l \in B[k] \/ BlockLetters(f, l) = {}
    BY <1>14, <1>20
  <2>4. \A k \in 1 .. K : \A i \in B[k] : S[k].title = TitleOf(f, i)
    BY <1>12, <1>13, <1>14, <1>21
  <2>5. \A i \in 1 .. Len(f.blocks) : BlockLetters(f, i) = {} \/ \E k \in 1 .. K : i \in B[k]
    BY <1>14, <1>23
  <2> QED BY <1>13, <1>22, <2>1, <2>2, <2>3, <2>4, <2>5 DEF Drawn
<1> QED BY <1>24 DEF S

LEMMA BetweensAre == Between(<<>>) /\ Between(<<Newline>>) /\ Between(<<Newline, Newline>>)
<1>1. \A j \in 1 .. Len(<<>>) : ~(<<>>[j] > 0)
  OBVIOUS
<1>2. \A j \in 1 .. Len(<<Newline>>) : ~(<<Newline>>[j] > 0)
  BY SeparatorsAre
<1>3. \A j \in 1 .. Len(<<Newline, Newline>>) : ~(<<Newline, Newline>>[j] > 0)
  BY SeparatorsAre
<1>4. <<>> \in Seq(Symbols) /\ <<Newline>> \in Seq(Symbols) /\ <<Newline, Newline>> \in Seq(Symbols)
  BY SeparatorsAre, TextsAreSymbols
<1> QED BY <1>1, <1>2, <1>3, <1>4 DEF Between

LEMMA Untitled ==
  ASSUME NEW f, f.format \in {"txt", "pdf"}
  PROVE  \A i : TitleOf(f, i) = NoTitle
<1>1. f.format \notin {"md", "docx"}
  OBVIOUS
<1> QED BY <1>1, Zenon DEF TitleOf

\* The file's blocks, all of them.
LEMMA AllChosen ==
  ASSUME NEW f \in File
  PROVE  Chosen(f.blocks, [n \in 1 .. Len(f.blocks) |-> n], f)
<1> DEFINE N == Len(f.blocks)
           g == [n \in 1 .. N |-> n]
<1>1. \A n \in 1 .. N : g[n] = n
  OBVIOUS
<1> HIDE DEF g
<1>2. Chosen(f.blocks, g, f)
  BY <1>1, BlocksAre DEF Chosen
<1> QED BY <1>2 DEF g

\* Plain text: one section.
LEMMA TextDrawn ==
  ASSUME NEW f \in File, Numbered(f), f.format = "txt"
  PROVE  \E B : Drawn(<<Section(f.blocks, <<Newline>>, NoTitle, 0)>>, f, B)
<1> DEFINE N == Len(f.blocks)
           g == [n \in 1 .. N |-> n]
           x == Section(f.blocks, <<Newline>>, NoTitle, 0)
           S == <<x>>
           B == <<1 .. N>>
<1>1. Chosen(f.blocks, g, f)
  BY AllChosen
<1>2. \A n \in 1 .. N : g[n] = n
  OBVIOUS
<1>3. {g[n] : n \in 1 .. N} = 1 .. N
  BY <1>2, Zenon
<1> HIDE DEF g
<1>4. /\ x \in ExtractedSection /\ x.title = NoTitle /\ Rising(x.text)
      /\ Letters(x.text) = Said(f, {g[n] : n \in 1 .. N})
  <2> DEFINE q == f.blocks
             gap == <<Newline>>
             none == NoTitle
             W == {g[n] : n \in 1 .. N}
             y == Section(q, gap, none, 0)
  <2>1. Taken(q, g, f, W) /\ Between(gap) /\ none \in Seq(Symbols) \cup {NoTitle}
    BY <1>1, BetweensAre DEF Taken
  <2>2. y = x
    OBVIOUS
  <2> HIDE DEF q, gap, none, x, W, N
  <2>3. /\ y \in ExtractedSection /\ y.title = none /\ Rising(y.text)
        /\ Letters(y.text) = Said(f, W)
    BY <2>1, SectionIs
  <2> HIDE DEF y
  <2> QED BY <2>2, <2>3 DEF none, W
<1> HIDE DEF x
<1>5. S \in Seq(ExtractedSection) /\ Len(S) = 1 /\ S[1] = x /\ B[1] = 1 .. N
  BY <1>4
<1>6. \A k \in 1 .. Len(S) : k = 1
  BY <1>5
<1>7. 1 \in 1 .. Len(S)
  BY <1>5
<1>8. \A k, l \in 1 .. Len(S) : ~(k < l)
  BY <1>6
<1>9. \A i : TitleOf(f, i) = NoTitle
  BY Untitled
<1>10. f.format # "pdf"
  OBVIOUS
<1> HIDE DEF S, B, N
<1>11. Letters(x.text) = Said(f, 1 .. N)
  BY <1>3, <1>4, Zenon
<1>12. \A k \in 1 .. Len(S) : /\ B[k] = 1 .. N /\ S[k] = x
  BY <1>5, <1>6
<1>13. \A k \in 1 .. Len(S) : /\ B[k] \subseteq 1 .. N
                              /\ Rising(S[k].text) /\ Letters(S[k].text) = Said(f, B[k])
  BY <1>4, <1>11, <1>12, Zenon
<1>14. \A k \in 1 .. Len(S) : \A i, j \in B[k] : \A l \in 1 .. N :
         i <= l /\ l <= j => l \in B[k] \/ BlockLetters(f, l) = {}
  BY <1>12, Zenon
<1>15. \A k \in 1 .. Len(S) : \A i \in B[k] :
         S[k].title = TitleOf(f, i) /\ (f.format = "pdf" => S[k].page = i)
  BY <1>4, <1>9, <1>10, <1>12
<1>16. \A i \in 1 .. N : \E k \in 1 .. Len(S) : i \in B[k]
  BY <1>7, <1>12, Zenon
<1>17. Drawn(S, f, B)
  BY <1>5, <1>8, <1>13, <1>14, <1>15, <1>16 DEF Drawn, N
<1> QED BY <1>17 DEF S, x

\* A PDF: one section per page that can be read.
LEMMA PagesDrawn ==
  ASSUME NEW f \in File, Numbered(f), f.format = "pdf"
  PROVE  \E B : Drawn(At(Pages(f.blocks), {n \in DOMAIN f.blocks : f.blocks[n].readable}), f, B)
<1> DEFINE N == Len(f.blocks)
           P == {n \in DOMAIN f.blocks : f.blocks[n].readable}
           pages == Pages(f.blocks)
           x(n) == Section(<<f.blocks[n]>>, <<>>, NoTitle, n)
           s == At(pages, P)
<1>1. N \in Nat /\ DOMAIN f.blocks = 1 .. N
  BY BlocksAre
<1>2. P \subseteq 1 .. N /\ \A i \in 1 .. N : i \in P <=> f.blocks[i].readable
  BY <1>1
<1> HIDE DEF P, N
<1>3. pages = [n \in 1 .. N |-> x(n)]
  BY <1>1 DEF Pages
<1>4. \A n \in 1 .. N : /\ x(n) \in ExtractedSection
                        /\ x(n).title = NoTitle /\ x(n).page = n
                        /\ Rising(x(n).text) /\ Letters(x(n).text) = Said(f, {n})
  <2> SUFFICES ASSUME NEW n \in 1 .. N
               PROVE  /\ x(n) \in ExtractedSection
                      /\ x(n).title = NoTitle /\ x(n).page = n
                      /\ Rising(x(n).text) /\ Letters(x(n).text) = Said(f, {n})
    OBVIOUS
  <2> DEFINE q == <<f.blocks[n]>>
             h == <<n>>
             u == Section(q, <<>>, NoTitle, n)
  <2>1. f.blocks[n] \in Block /\ n \in 1 .. Len(f.blocks)
    BY BlocksAre DEF N
  <2>2. q \in Seq(Block) /\ Len(q) = 1 /\ q[1] = f.blocks[n] /\ h[1] = n
    BY <2>1
  <2> HIDE DEF q, h
  <2>3. \A k \in 1 .. Len(q) : k = 1
    BY <2>2
  <2>4. \A k, l \in 1 .. Len(q) : ~(k < l)
    BY <2>3
  <2>5. Chosen(q, h, f)
    BY <2>1, <2>2, <2>3, <2>4 DEF Chosen
  <2>6. {h[k] : k \in 1 .. Len(q)} = {n}
    <3>1. 1 \in 1 .. Len(q)
      BY <2>2
    <3> QED BY <2>2, <2>3, <3>1
  <2> DEFINE W == {n}
             gap == <<>>
             none == NoTitle
  <2>a. Between(gap) /\ none \in Seq(Symbols) \cup {NoTitle} /\ n \in Nat
    BY <1>1, BetweensAre
  <2>b. {h[k] : k \in 1 .. Len(q)} = W
    BY <2>6
  <2> HIDE DEF W
  <2>7. Taken(q, h, f, W)
    BY <2>5, <2>b DEF Taken
  <2> HIDE DEF W, gap, none
  <2> DEFINE y == Section(q, gap, none, n)
  <2>8. /\ y \in ExtractedSection /\ y.title = none /\ y.page = n /\ Rising(y.text)
        /\ Letters(y.text) = Said(f, W)
    BY <2>a, <2>7, SectionIs
  <2>9. y = u
    BY DEF gap, none
  <2> HIDE DEF y, u
  <2>10. /\ u \in ExtractedSection /\ u.title = NoTitle /\ u.page = n /\ Rising(u.text)
         /\ Letters(u.text) = Said(f, {n})
    BY <2>8, <2>9 DEF none, W
  <2>11. u = x(n)
    BY DEF q, u
  <2> HIDE DEF x
  <2> QED BY <2>10, <2>11
<1> HIDE DEF x, pages
<1>5. pages \in Seq(ExtractedSection) /\ Len(pages) = N /\ \A n \in 1 .. N : pages[n] = x(n)
  <2>1. pages \in [1 .. N -> ExtractedSection] /\ \A n \in 1 .. N : pages[n] = x(n)
    BY <1>3, <1>4, Zenon
  <2> QED BY <1>1, <2>1, IsSeq
<1>6. P \subseteq 1 .. Len(pages)
  BY <1>2, <1>5
<1>7. s \in Seq(ExtractedSection) /\ \E g : Picks(g, s, pages, P)
  BY <1>5, <1>6, AtPicks, Zenon
<1>8. PICK g : Picks(g, s, pages, P)
  BY <1>7
<1> HIDE DEF s
<1> DEFINE M == Len(s)
           B == [k \in 1 .. M |-> {g[k]}]
<1>9. \A k \in 1 .. M : B[k] = {g[k]}
  OBVIOUS
<1> HIDE DEF B
<1>10. \A k \in 1 .. M : g[k] \in P /\ g[k] \in 1 .. N /\ s[k] = x(g[k])
  BY <1>2, <1>5, <1>8, Zenon DEF Picks
<1>11. \A k, l \in 1 .. M : k < l => g[k] < g[l]
  BY <1>8 DEF Picks
<1>12. \A i : TitleOf(f, i) = NoTitle
  BY Untitled
<1>13. \A k \in 1 .. M : /\ B[k] \subseteq 1 .. N
                         /\ Rising(s[k].text) /\ Letters(s[k].text) = Said(f, B[k])
  <2> HIDE DEF M
  <2> QED BY <1>4, <1>9, <1>10
<1>14. \A k, l \in 1 .. M : k < l => \A i \in B[k], j \in B[l] : i < j
  <2> HIDE DEF M
  <2> QED BY <1>9, <1>11
<1>15. \A k \in 1 .. M : \A i, j \in B[k] : \A l \in 1 .. N :
         i <= l /\ l <= j => l \in B[k] \/ BlockLetters(f, l) = {}
  <2> SUFFICES ASSUME NEW k \in 1 .. M, NEW i \in B[k], NEW j \in B[k], NEW l \in 1 .. N, i <= l, l <= j
               PROVE  l \in B[k]
    OBVIOUS
  <2>1. i = g[k] /\ j = g[k] /\ g[k] \in 1 .. N
    BY <1>9, <1>10
  <2>2. l = g[k]
    BY <2>1
  <2> QED BY <1>9, <2>2
<1>16. \A k \in 1 .. M : \A i \in B[k] : s[k].title = TitleOf(f, i) /\ s[k].page = i
  <2> HIDE DEF M
  <2> QED BY <1>4, <1>9, <1>10, <1>12
<1>17. \A i \in 1 .. N : ~f.blocks[i].readable \/ \E k \in 1 .. M : i \in B[k]
  <2> SUFFICES ASSUME NEW i \in 1 .. N, f.blocks[i].readable PROVE \E k \in 1 .. M : i \in B[k]
    OBVIOUS
  <2>1. i \in P
    BY <1>2
  <2>2. PICK k \in 1 .. M : g[k] = i
    BY <1>8, <2>1 DEF Picks
  <2> QED BY <1>9, <2>2
<1>18. Drawn(s, f, B)
  <2> HIDE DEF N
  <2> QED BY <1>7, <1>13, <1>14, <1>15, <1>16, <1>17 DEF Drawn, N
<1> QED BY <1>18 DEF s, P, pages

\* A Word document without its empty paragraphs.
LEMMA ParagraphsSolid ==
  ASSUME NEW f \in File
  PROVE  \E g : Solid(At(f.blocks, {n \in DOMAIN f.blocks : ~Blank(f.blocks[n].symbols)}), g, f)
<1> DEFINE N == Len(f.blocks)
           P == {n \in DOMAIN f.blocks : ~Blank(f.blocks[n].symbols)}
           b == At(f.blocks, P)
<1>1. N \in Nat /\ DOMAIN f.blocks = 1 .. N /\ f.blocks \in Seq(Block)
  BY BlocksAre
<1>2. P \subseteq 1 .. N /\ \A i \in 1 .. N : i \in P <=> ~Blank(f.blocks[i].symbols)
  BY <1>1
<1> HIDE DEF P
<1>3. b \in Seq(Block) /\ \E g : Picks(g, b, f.blocks, P)
  BY <1>1, <1>2, AtPicks, Zenon
<1>4. PICK g : Picks(g, b, f.blocks, P)
  BY <1>3
<1> HIDE DEF b, N
<1>5. \A k \in 1 .. Len(b) : g[k] \in P /\ g[k] \in 1 .. N /\ b[k] = f.blocks[g[k]]
  BY <1>2, <1>4, Zenon DEF Picks
<1>6. \A k, l \in 1 .. Len(b) : k < l => g[k] < g[l]
  BY <1>4 DEF Picks
<1>7. \A i \in 1 .. N : Blank(f.blocks[i].symbols) \/ \E m \in 1 .. Len(b) : g[m] = i
  <2> SUFFICES ASSUME NEW i \in 1 .. N, ~Blank(f.blocks[i].symbols) PROVE \E m \in 1 .. Len(b) : g[m] = i
    OBVIOUS
  <2>1. i \in P
    BY <1>2
  <2> QED BY <1>4, <2>1 DEF Picks
<1>8. \A m \in 1 .. Len(b) : ~Blank(b[m].symbols)
  BY <1>2, <1>5
<1>9. Solid(b, g, f)
  BY <1>3, <1>5, <1>6, <1>7, <1>8 DEF Solid, Chosen, N
<1> QED BY <1>9 DEF b, P

LEMMA ExtractedDrawn ==
  ASSUME NEW f \in Files, f.format # "other"
  PROVE  \E B : Drawn(Extracted(f), f, B)
<1>1. f \in File /\ Numbered(f)
  BY PassagesAssumption
<1>2. f.format \in {"txt", "md", "docx", "pdf"}
  BY <1>1 DEF File
<1>3. \E B : Drawn(Sections(f), f, B)
  <2>1. CASE f.format = "txt"
    <3>1. Sections(f) = <<Section(f.blocks, <<Newline>>, NoTitle, 0)>>
      BY <2>1 DEF Sections
    <3> QED BY <1>1, <2>1, <3>1, TextDrawn
  <2>2. CASE f.format = "md"
    <3>1. Sections(f) = Headed(f.blocks, <<Newline>>)
      BY <2>2 DEF Sections
    <3> DEFINE g == [n \in 1 .. Len(f.blocks) |-> n]
    <3>2. Chosen(f.blocks, g, f)
      BY <1>1, AllChosen
    <3>3. \A n \in 1 .. Len(f.blocks) : g[n] = n
      OBVIOUS
    <3>4. \A n \in 1 .. Len(f.blocks) : f.blocks[n].heading => ~Blank(f.blocks[n].symbols)
      <4> SUFFICES ASSUME NEW n \in 1 .. Len(f.blocks), f.blocks[n].heading PROVE ~Blank(f.blocks[n].symbols)
        OBVIOUS
      <4>1. n \in DOMAIN f.blocks
        BY <1>1, BlocksAre
      <4>2. \E i \in DOMAIN f.blocks[n].symbols : f.blocks[n].symbols[i] \notin White
        BY <2>2, <4>1, PassagesAssumption
      <4> QED BY <4>2 DEF Blank
    <3> HIDE DEF g
    <3>5. Solid(f.blocks, g, f)
      BY <3>2, <3>3, <3>4 DEF Solid
    <3> QED BY <1>1, <2>2, <3>1, <3>5, BetweensAre, HeadedDrawn
  <2>3. CASE f.format = "docx"
    <3> DEFINE b == At(f.blocks, {n \in DOMAIN f.blocks : ~Blank(f.blocks[n].symbols)})
    <3>1. Sections(f) = Headed(b, <<Newline, Newline>>)
      BY <2>3 DEF Sections
    <3>2. PICK g : Solid(b, g, f)
      BY <1>1, ParagraphsSolid
    <3> HIDE DEF b
    <3> QED BY <1>1, <2>3, <3>1, <3>2, BetweensAre, HeadedDrawn
  <2>4. CASE f.format = "pdf"
    <3>1. Sections(f) = At(Pages(f.blocks), {n \in DOMAIN f.blocks : f.blocks[n].readable})
      BY <2>4 DEF Sections
    <3> QED BY <1>1, <2>4, <3>1, PagesDrawn
  <2> QED BY <1>2, <2>1, <2>2, <2>3, <2>4
<1>4. PICK B : Drawn(Sections(f), f, B)
  BY <1>3
<1>5. Extracted(f) = At(Sections(f), {n \in DOMAIN Sections(f) : ~Blank(Sections(f)[n].text)})
  BY Zenon DEF Extracted
<1> QED BY <1>1, <1>4, <1>5, SolidDrawn

\* What is promised of the passages made of a file.
FileCovered(f, z, made) ==
  /\ \A n \in DOMAIN made :
       /\ Len(made[n].text) \in 1 .. z.size
       /\ \A a, b \in Letters(made[n].text), i \in DOMAIN f.blocks :
            Letters(f.blocks[i].symbols) \cap (a .. b) \subseteq Letters(made[n].text)
  /\ \A i \in DOMAIN f.blocks : \A c \in Letters(f.blocks[i].symbols) :
       \/ f.format = "pdf" /\ ~f.blocks[i].readable
       \/ \E n \in DOMAIN made :
            /\ c \in Letters(made[n].text)
            /\ made[n].title = TitleOf(f, i)
            /\ f.format = "pdf" => made[n].page = i
  /\ \A n \in 2 .. Len(made) :
       LET before == Letters(made[n - 1].text)
           after == Letters(made[n].text)
       IN /\ Cardinality(before \cap after) <= z.overlap
          /\ \/ Period \in ToSet(made[n].text)
             \/ \E c \in after : \A b \in before : b < c

PassageOfFile == [text : Text, title : Seq(Symbols) \cup {NoTitle}, page : Nat]

\* The passages of the sections, one section after the other.
LEMMA ChunkedCovers ==
  ASSUME NEW f \in File, Numbered(f), NEW z, z.overlap \in Nat, z.size \in Nat \ {0},
         NEW S, NEW B, Drawn(S, f, B), S # <<>>
  PROVE  FileCovered(f, z, Chunked(S, z))
<1> DEFINE N == Len(S)
           s == [n \in DOMAIN S |-> PassagesOf(S[n], z)]
           t == FlattenSeq(s)
           D == [n \in 1 .. N |-> CHOOSE T : Told(s[n], S[n], T, z)]
           L == [n \in 1 .. N |-> Letters(S[n].text)]
           F == Len(f.blocks)
<1>1. S \in Seq(ExtractedSection) /\ N \in Nat \ {0} /\ DOMAIN S = 1 .. N
  <2>1. S \in Seq(ExtractedSection)
    BY DEF Drawn
  <2> QED BY <2>1, EmptySeq
<1>2. F \in Nat /\ DOMAIN f.blocks = 1 .. F
  BY BlocksAre
<1> HIDE DEF F
<1>3. \A i, j \in 1 .. F : i < j => \A a \in BlockLetters(f, i), b \in BlockLetters(f, j) : a < b
  BY NumberedIs DEF F
<1>4. \A i \in 1 .. F : BlockLetters(f, i) \subseteq Nat \ {0} /\ BlockLetters(f, i) = Letters(f.blocks[i].symbols)
  BY BlocksAre, LettersAre DEF F, BlockLetters
<1>5. t = Chunked(S, z)
  BY Zenon DEF Chunked
<1>6. s = [n \in 1 .. N |-> PassagesOf(S[n], z)]
  BY <1>1
<1> HIDE DEF s
<1>7. \A n \in 1 .. N : Told(s[n], S[n], D[n], z)
  <2> SUFFICES ASSUME NEW n \in 1 .. N PROVE Told(s[n], S[n], D[n], z)
    BY Zenon
  <2> DEFINE x == S[n]
             p == s[n]
  <2>1. p = PassagesOf(x, z) /\ x \in ExtractedSection /\ Rising(x.text)
    BY <1>1, <1>6 DEF Drawn
  <2> HIDE DEF p, x
  <2>2. x.text \in Seq(Symbols)
    BY <2>1 DEF ExtractedSection
  <2>3. \E T : Told(PassagesOf(x, z), x, T, z)
    BY <2>1, <2>2, SectionCovers
  <2>4. Told(p, x, CHOOSE T : Told(p, x, T, z), z)
    BY <2>1, <2>3
  <2>5. D[n] = CHOOSE T : Told(p, x, T, z)
    BY DEF p, x
  <2>6. Told(p, x, D[n], z)
    BY <2>4, <2>5, Zenon
  <2> QED BY <2>6 DEF p, x
<1>8. \A n \in 1 .. N : L[n] = Letters(S[n].text)
  OBVIOUS
<1> HIDE DEF D, L
<1>9. \A n \in 1 .. N :
        /\ D[n] \in Seq(Text) /\ L[n] \subseteq Nat \ {0} /\ Len(s[n]) = Len(D[n])
        /\ \A h \in 1 .. Len(D[n]) : Len(D[n][h]) \in 1 .. z.size /\ ~Blank(D[n][h]) /\ Letters(D[n][h]) \subseteq L[n]
        /\ \A h \in 1 .. Len(D[n]) : \A a, b \in Letters(D[n][h]) : \A c \in L[n] :
             a <= c /\ c <= b => c \in Letters(D[n][h])
        /\ \A c \in L[n] : \E h \in 1 .. Len(D[n]) : c \in Letters(D[n][h])
        /\ \A h \in 2 .. Len(D[n]) : Follows(D[n][h - 1], D[n][h], z)
        /\ \A h \in 1 .. Len(D[n]) : s[n][h] = [text |-> D[n][h], title |-> S[n].title, page |-> S[n].page]
  <2> SUFFICES ASSUME NEW n \in 1 .. N
               PROVE  /\ D[n] \in Seq(Text) /\ L[n] \subseteq Nat \ {0} /\ Len(s[n]) = Len(D[n])
                      /\ \A k \in 1 .. Len(D[n]) : Len(D[n][k]) \in 1 .. z.size /\ ~Blank(D[n][k]) /\ Letters(D[n][k]) \subseteq L[n]
                      /\ \A k \in 1 .. Len(D[n]) : \A a, b \in Letters(D[n][k]) : \A c \in L[n] :
                           a <= c /\ c <= b => c \in Letters(D[n][k])
                      /\ \A c \in L[n] : \E k \in 1 .. Len(D[n]) : c \in Letters(D[n][k])
                      /\ \A k \in 2 .. Len(D[n]) : Follows(D[n][k - 1], D[n][k], z)
                      /\ \A k \in 1 .. Len(D[n]) : s[n][k] = [text |-> D[n][k], title |-> S[n].title, page |-> S[n].page]
    BY Zenon
  <2> DEFINE x == S[n]
             p == s[n]
             d == D[n]
             l == L[n]
  <2>1. Told(p, x, d, z) /\ l = Letters(x.text)
    BY <1>7, <1>8
  <2> HIDE DEF x, p, d, l
  <2>2. /\ d \in Seq(Text) /\ l \subseteq Nat \ {0}
        /\ \A k \in 1 .. Len(d) : Len(d[k]) \in 1 .. z.size /\ ~Blank(d[k]) /\ Letters(d[k]) \subseteq l
        /\ \A k \in 1 .. Len(d) : \A a, b \in Letters(d[k]) : \A c \in l : a <= c /\ c <= b => c \in Letters(d[k])
        /\ \A c \in l : \E k \in 1 .. Len(d) : c \in Letters(d[k])
        /\ \A k \in 2 .. Len(d) : Follows(d[k - 1], d[k], z)
    BY <2>1 DEF Told, Covers
  <2>3. /\ Len(p) = Len(d)
        /\ \A k \in 1 .. Len(d) : p[k] = [text |-> d[k], title |-> x.title, page |-> x.page]
    BY <2>1 DEF Told
  <2> QED BY <2>2, <2>3, Zenon DEF x, p, d, l
<1>10. \A n \in 1 .. N : s[n] \in Seq(PassageOfFile)
  <2> SUFFICES ASSUME NEW n \in 1 .. N PROVE s[n] \in Seq(PassageOfFile)
    OBVIOUS
  <2> DEFINE Q == [text : Text, title : {S[n].title}, page : {S[n].page}]
  <2>1. s[n] \in Seq(Q)
    BY <1>7 DEF Told
  <2>2. Q \subseteq PassageOfFile
    <3>1. S[n] \in ExtractedSection
      BY <1>1
    <3> QED BY <3>1 DEF PassageOfFile, ExtractedSection
  <2> HIDE DEF Q
  <2> QED BY <2>1, <2>2
<1>11. Len(s) = N
  <2>1. s \in [1 .. N -> Seq(PassageOfFile)]
    BY <1>6, <1>10
  <2> HIDE DEF N
  <2> QED BY <1>1, <2>1, IsSeq
<1>12. t \in Seq(PassageOfFile) /\ \E w, i : Located(t, s, N, w, i)
  BY <1>1, <1>10, <1>11, FlatLocated
<1>13. PICK w, h : Located(t, s, N, w, h)
  BY <1>12
<1> HIDE DEF t, N
<1> DEFINE M == Len(t)
<1>14. M \in Nat /\ DOMAIN t = 1 .. M
  BY <1>12
<1>15. \A k \in 1 .. M : w[k] \in 1 .. N /\ h[k] \in 1 .. Len(D[w[k]]) /\ t[k] = s[w[k]][h[k]]
  <2>1. \A k \in 1 .. M : w[k] \in 1 .. N /\ h[k] \in 1 .. Len(s[w[k]]) /\ t[k] = s[w[k]][h[k]]
    BY <1>13 DEF Located
  <2> HIDE DEF M
  <2> QED BY <1>9, <2>1
<1>16. \A k \in 1 .. M : t[k] = [text |-> D[w[k]][h[k]], title |-> S[w[k]].title, page |-> S[w[k]].page]
  <2> HIDE DEF M
  <2> QED BY <1>9, <1>15, SMTT(20)
<1>17. \A k \in 1 .. M : /\ t[k].text = D[w[k]][h[k]] /\ t[k].title = S[w[k]].title /\ t[k].page = S[w[k]].page
  <2> SUFFICES ASSUME NEW k \in 1 .. M
               PROVE  t[k].text = D[w[k]][h[k]] /\ t[k].title = S[w[k]].title /\ t[k].page = S[w[k]].page
    OBVIOUS
  <2> DEFINE x == t[k]
             d == D[w[k]][h[k]]
             title == S[w[k]].title
             page == S[w[k]].page
  <2>1. x = [text |-> d, title |-> title, page |-> page]
    BY <1>16
  <2> HIDE DEF x, d, title, page
  <2>2. x.text = d /\ x.title = title /\ x.page = page
    BY <2>1
  <2> QED BY <2>2 DEF x, d, title, page
<1>18. \A n \in 1 .. N : \A j \in 1 .. Len(D[n]) : \E k \in 1 .. M : w[k] = n /\ h[k] = j
  BY <1>9, <1>13 DEF Located
<1>19. \A k \in 2 .. M : w[k - 1] < w[k] \/ (w[k - 1] = w[k] /\ h[k] = h[k - 1] + 1)
  BY <1>13 DEF Located
<1> HIDE DEF M
<1>20. \A n \in 1 .. N : B[n] \subseteq 1 .. F /\ L[n] = Said(f, B[n])
  BY <1>8 DEF Drawn, N, F
<1>21. \A n \in 1 .. N : \A c : c \in L[n] <=> \E i \in B[n] : c \in BlockLetters(f, i)
  BY <1>20 DEF Said
<1>22. \A m, n \in 1 .. N : m < n => \A i \in B[m], j \in B[n] : i < j
  BY DEF Drawn, N
<1>23. \A m, n \in 1 .. N : m < n => \A a \in L[m], b \in L[n] : a < b
  <2> SUFFICES ASSUME NEW m \in 1 .. N, NEW n \in 1 .. N, m < n, NEW a \in L[m], NEW b \in L[n] PROVE a < b
    OBVIOUS
  <2>1. PICK i \in B[m] : a \in BlockLetters(f, i)
    BY <1>21
  <2>2. PICK j \in B[n] : b \in BlockLetters(f, j)
    BY <1>21
  <2>3. i \in 1 .. F /\ j \in 1 .. F /\ i < j
    BY <1>20, <1>22
  <2> QED BY <1>3, <2>1, <2>2, <2>3
<1>24. ASSUME NEW k \in 1 .. M
       PROVE  /\ Len(t[k].text) \in 1 .. z.size
              /\ \A a, b \in Letters(t[k].text), i \in 1 .. F : \A c \in BlockLetters(f, i) :
                   a <= c /\ c <= b => c \in Letters(t[k].text)
  <2> DEFINE n == w[k]
             j == h[k]
             u == t[k].text
  <2>1. n \in 1 .. N /\ j \in 1 .. Len(D[n]) /\ u = D[n][j]
    BY <1>15, <1>17
  <2> HIDE DEF n, j, u
  <2>2. Len(u) \in 1 .. z.size /\ Letters(u) \subseteq L[n]
    BY <1>9, <2>1, Zenon
  <2>3. \A a, b \in Letters(u) : \A c \in L[n] : a <= c /\ c <= b => c \in Letters(u)
    BY <1>9, <2>1
  <2>4. ASSUME NEW a \in Letters(u), NEW b \in Letters(u), NEW i \in 1 .. F, NEW c \in BlockLetters(f, i),
               a <= c, c <= b
        PROVE  c \in Letters(u)
    <3>1. PICK p \in B[n] : a \in BlockLetters(f, p)
      BY <1>21, <2>1, <2>2
    <3>2. PICK q \in B[n] : b \in BlockLetters(f, q)
      BY <1>21, <2>1, <2>2
    <3>3. p \in 1 .. F /\ q \in 1 .. F
      BY <1>20, <2>1
    <3>4. a \in Nat /\ b \in Nat /\ c \in Nat
      BY <1>4, <3>1, <3>2, <3>3
    <3>5. ~(i < p)
      <4> SUFFICES ASSUME i < p PROVE FALSE
        OBVIOUS
      <4>1. c < a
        BY <1>3, <3>1, <3>3
      <4> QED BY <2>4, <3>4, <4>1
    <3>6. ~(q < i)
      <4> SUFFICES ASSUME q < i PROVE FALSE
        OBVIOUS
      <4>1. b < c
        BY <1>3, <3>2, <3>3
      <4> QED BY <2>4, <3>4, <4>1
    <3>7. p <= i /\ i <= q
      BY <3>3, <3>5, <3>6
    <3>8. i \in B[n] \/ BlockLetters(f, i) = {}
      BY <2>1, <3>7, Zenon DEF Drawn, N, F
    <3>9. c \in L[n]
      BY <1>21, <2>1, <3>8
    <3> QED BY <2>3, <2>4, <3>9
  <2>5. /\ Len(u) \in 1 .. z.size
        /\ \A a, b \in Letters(u), i \in 1 .. F : \A c \in BlockLetters(f, i) :
             a <= c /\ c <= b => c \in Letters(u)
    BY <2>2, <2>4
  <2> QED BY <2>5 DEF u
<1>25. ASSUME NEW i \in 1 .. F, NEW c \in BlockLetters(f, i), ~(f.format = "pdf" /\ ~f.blocks[i].readable)
       PROVE  \E k \in 1 .. M : /\ c \in Letters(t[k].text)
                                /\ t[k].title = TitleOf(f, i)
                                /\ f.format = "pdf" => t[k].page = i
  <2>1. \E n \in 1 .. N : i \in B[n]
    BY <1>25 DEF Drawn, N, F
  <2>2. PICK n \in 1 .. N : i \in B[n]
    BY <2>1
  <2>3. c \in L[n]
    BY <1>21, <2>2
  <2>4. PICK j \in 1 .. Len(D[n]) : c \in Letters(D[n][j])
    BY <1>9, <2>3
  <2>5. PICK k \in 1 .. M : w[k] = n /\ h[k] = j
    BY <1>18
  <2>6. t[k].text = D[n][j] /\ t[k].title = S[n].title /\ t[k].page = S[n].page
    BY <1>17, <2>5, Zenon
  <2>7. S[n].title = TitleOf(f, i) /\ (f.format = "pdf" => S[n].page = i)
    BY <2>2 DEF Drawn, N
  <2> QED BY <2>4, <2>6, <2>7
<1>26. ASSUME NEW k \in 2 .. M PROVE Follows(t[k - 1].text, t[k].text, z)
  <2> DEFINE l == k - 1
  <2>1. l \in 1 .. M /\ k \in 1 .. M
    BY <1>14
  <2>2. w[l] < w[k] \/ (w[l] = w[k] /\ h[k] = h[l] + 1)
    BY <1>19
  <2> HIDE DEF l
  <2> DEFINE m == w[l]
             n == w[k]
             i == h[l]
             j == h[k]
             u == t[l].text
             v == t[k].text
  <2>3. /\ m \in 1 .. N /\ i \in 1 .. Len(D[m]) /\ u = D[m][i]
        /\ n \in 1 .. N /\ j \in 1 .. Len(D[n]) /\ v = D[n][j]
    BY <1>15, <1>17, <2>1
  <2>4. m < n \/ (m = n /\ j = i + 1)
    BY <2>2
  <2> HIDE DEF m, n, i, j, u, v
  <2>5. v \in Text /\ ~Blank(v)
    <3>1. D[n] \in Seq(Text)
      BY <1>9, <2>3
    <3>2. \A e \in 1 .. Len(D[n]) : ~Blank(D[n][e])
      BY <1>9, <2>3, Zenon
    <3>3. ~Blank(v)
      BY <2>3, <3>2, Zenon
    <3>4. v \in Text
      BY <2>3, <3>1
    <3> QED BY <3>3, <3>4
  <2>6. CASE m = n /\ j = i + 1
    <3>1. j \in 2 .. Len(D[m]) /\ j - 1 = i
      BY <2>3, <2>6
    <3>2. Follows(D[m][j - 1], D[m][j], z)
      BY <1>9, <2>3, <3>1
    <3>3. Follows(u, v, z)
      BY <2>3, <2>6, <3>1, <3>2
    <3> QED BY <3>3 DEF u, v, l
  <2>7. CASE m < n
    <3>1. Letters(u) \subseteq L[m] /\ Letters(v) \subseteq L[n] /\ L[m] \subseteq Nat
      BY <1>9, <2>3, Zenon
    <3>2. \A a \in Letters(u) : \A b \in Letters(v) : a < b
      BY <1>23, <2>3, <2>7, <3>1, Zenon
    <3>3. Letters(u) \subseteq Nat
      BY <3>1
    <3>4. Follows(u, v, z)
      BY <2>5, <3>2, <3>3, FollowsApart
    <3> QED BY <3>4 DEF u, v, l
  <2> QED BY <2>4, <2>6, <2>7
<1>27. \A k \in 1 .. M : t[k].text \in Text
  BY <1>9, <1>15, <1>17
<1>28. FileCovered(f, z, t)
  <2>1. ASSUME NEW k \in DOMAIN t, NEW a \in Letters(t[k].text), NEW b \in Letters(t[k].text), NEW i \in DOMAIN f.blocks
        PROVE  Letters(f.blocks[i].symbols) \cap (a .. b) \subseteq Letters(t[k].text)
    <3>1. k \in 1 .. M /\ i \in 1 .. F
      BY <1>2, <1>14
    <3> SUFFICES ASSUME NEW c \in Letters(f.blocks[i].symbols), c \in a .. b PROVE c \in Letters(t[k].text)
      OBVIOUS
    <3>2. c \in BlockLetters(f, i)
      BY DEF BlockLetters
    <3>3. a <= c /\ c <= b
      OBVIOUS
    <3> QED BY <1>24, <3>1, <3>2, <3>3, Zenon
  <2>2. \A k \in DOMAIN t : Len(t[k].text) \in 1 .. z.size
    BY <1>14, <1>24
  <2>3. ASSUME NEW i \in DOMAIN f.blocks, NEW c \in Letters(f.blocks[i].symbols)
        PROVE  \/ f.format = "pdf" /\ ~f.blocks[i].readable
               \/ \E n \in DOMAIN t :
                    /\ c \in Letters(t[n].text)
                    /\ t[n].title = TitleOf(f, i)
                    /\ f.format = "pdf" => t[n].page = i
    <3>1. i \in 1 .. F /\ c \in BlockLetters(f, i)
      BY <1>2 DEF BlockLetters
    <3> QED BY <1>14, <1>25, <3>1
  <2>4. ASSUME NEW n \in 2 .. Len(t)
        PROVE  /\ Cardinality(Letters(t[n - 1].text) \cap Letters(t[n].text)) <= z.overlap
               /\ \/ Period \in ToSet(t[n].text)
                  \/ \E c \in Letters(t[n].text) : \A b \in Letters(t[n - 1].text) : b < c
    <3> DEFINE u == t[n - 1].text
               v == t[n].text
    <3>1. Follows(u, v, z)
      BY <1>26 DEF M
    <3>2. v \in Text
      <4>1. n \in 1 .. M
        BY <1>14 DEF M
      <4> QED BY <1>27, <4>1
    <3> HIDE DEF u, v
    <3>3. DOMAIN v = 1 .. Len(v)
      BY <3>2 DEF Text
    <3>4. Has(v, Period) => Period \in ToSet(v)
      BY <3>3 DEF Has, ToSet
    <3>5. /\ Cardinality(Letters(u) \cap Letters(v)) <= z.overlap
          /\ \/ Period \in ToSet(v)
             \/ \E c \in Letters(v) : \A b \in Letters(u) : b < c
      BY <3>1, <3>4 DEF Follows
    <3> QED BY <3>5 DEF u, v
  <2> QED BY <2>1, <2>2, <2>3, <2>4, Zenon DEF FileCovered
<1> QED BY <1>5, <1>28

\* What a file that passes the limits becomes.
LEMMA ProcessedCovers ==
  ASSUME NEW f \in Files, NEW z \in Sizings, Processed(f, z).code = "none"
  PROVE  FileCovered(f, z, Processed(f, z).made)
<1> DEFINE S == Extracted(f)
           made == Chunked(S, z)
<1>1. \A code, m : Ended(code, m).code = code /\ Ended(code, m).made = m
  BY DEF Ended
<1>2. Processed(f, z) = IF f.format = "other" THEN Ended("UNSUPPORTED_FILE_TYPE", <<>>)
                        ELSE IF S = <<>> THEN Ended("EMPTY_DOCUMENT", <<>>)
                        ELSE IF Length(S) > z.maxText THEN Ended("RESOURCE_LIMIT_EXCEEDED", <<>>)
                        ELSE Limited(made, z)
  BY Zenon DEF Processed
<1>3. Limited(made, z) = IF made = <<>> THEN Ended("CHUNKING_FAILED", <<>>)
                         ELSE IF Len(made) > z.maxPassages THEN Ended("RESOURCE_LIMIT_EXCEEDED", <<>>)
                         ELSE Ended("none", made)
  BY Zenon DEF Limited
<1> HIDE DEF S, made
<1>4. f.format # "other" /\ S # <<>> /\ Processed(f, z).made = made
  BY <1>1, <1>2, <1>3
<1>5. f \in File /\ Numbered(f) /\ z.size \in Nat /\ z.overlap \in 0 .. z.size - 1
  BY PassagesAssumption
<1>6. z.overlap \in Nat /\ z.size \in Nat \ {0}
  BY <1>5
<1>7. PICK B : Drawn(S, f, B)
  BY <1>4, ExtractedDrawn DEF S
<1>8. FileCovered(f, z, made)
  BY <1>4, <1>5, <1>6, <1>7, ChunkedCovers DEF made
<1> QED BY <1>4, <1>8

-----------------------------------------------------------------------------
(* The passages of the file.                                               *)

\* The file followed is one of those considered, and what it became is what the code
\* makes of it.
CutInv ==
  /\ subject = "file" => file \in Files /\ sizing \in Sizings
  /\ passages # Unprocessed => subject = "file" /\ passages = Processed(file, sizing)

LEMMA CutInvHolds == ScoringSpec => []CutInv
<1>1. ScoringInit => CutInv
  BY DEF ScoringInit, PassagesInit, Only, CutInv
<1>2. CutInv /\ [ScoringNext]_allVars => CutInv'
  <2> SUFFICES ASSUME CutInv, [ScoringNext]_allVars PROVE CutInv'
    OBVIOUS
  <2>1. CASE CutFile
    BY <2>1 DEF CutFile, ProcessDocument, CutInv
  <2>2. CASE UNCHANGED <<subject, file, sizing, passages>>
    BY <2>2 DEF CutInv
  <2>3. ~CutFile => UNCHANGED <<subject, file, sizing, passages>>
    BY DEF ScoringNext, ScoreHypothesis, ScoreAnswer, RouteQuery, AnswerTurn, Investigate, EvaluateRetrieval,
           allVars, passageVars
  <2> QED BY <2>1, <2>2, <2>3
<1> QED BY <1>1, <1>2, PTL DEF ScoringSpec

\* Whatever a file says, wherever its separators are and however its sizes fall
\* (RecursiveTextChunker.chunk, the extractors, TextNormalizer): no letter is lost,
\* none moves to another heading or page, every passage is an unbroken stretch of its
\* section no longer than the chunk size, and the next one repeats no more than the
\* overlap.
THEOREM PassagesCoverTheirFile == ScoringSpec => []PassagesCoverFile
<1>1. CutInv => PassagesCoverFile
  <2> SUFFICES ASSUME CutInv, passages # Unprocessed, passages.code = "none"
               PROVE  FileCovered(file, sizing, passages.made)
    BY Zenon DEF PassagesCoverFile, FileCovered
  <2>1. file \in Files /\ sizing \in Sizings /\ passages = Processed(file, sizing)
    BY DEF CutInv
  <2>2. Processed(file, sizing).code = "none"
    BY <2>1
  <2>3. FileCovered(file, sizing, Processed(file, sizing).made)
    BY <2>1, <2>2, ProcessedCovers
  <2> QED BY <2>1, <2>3
<1> QED BY <1>1, CutInvHolds, PTL
=============================================================================
