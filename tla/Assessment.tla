----------------------------- MODULE Assessment -----------------------------
(***************************************************************************)
(* What an investigation claims and what a remediation proposal risks:     *)
(*   backend/app/services/investigations/groundedness.py  (Assess),        *)
(*   backend/app/services/remediation/risk.py             (Evaluate),      *)
(*   backend/app/services/remediation/service.py, the proposals generated  *)
(*   from a hypothesis, and sandbox.py, the fixtures of the policy.        *)
(* Scores are integers in hundredths.  round() is taken half up: the       *)
(* scores of the code are multiples of 0.05 before a mean, so no mean lies *)
(* on a tie next to a threshold of a level.                                *)
(***************************************************************************)
EXTENDS Integers, FiniteSets, Sequences, FiniteSetsExt

CONSTANTS
  Events,          \* the evidence events of the incident: id -> what is known of it
  MaxUnresolved,   \* bound: citations of a hypothesis that resolve to no event
  MaxActions,      \* bound: actions of a proposal
  ActionKinds,     \* the actions a proposal may name
  None

\* RemediationActionType, and what the risk evaluation looks for in an action.
Action ==
  [type : {"manual", "config_change", "scale", "service_restart", "rollback", "dependency_update",
           "firewall_rule"},
   words : {"none", "mutating", "destructive"}, reversible : BOOLEAN, broad : BOOLEAN]

\* What is stored of an assessment (GroundednessStatus, SystemConfidenceLevel);
\* "none" stands for that of a proposal which names no hypothesis.
Assessments ==
  [score : Int \cup {None}, confidence : Int \cup {None},
   status : {"well_supported", "partially_supported", "weakly_supported", "unsupported", "contested",
             "rejected", "evaluation_failed", "none"},
   level : {"low", "medium", "high", "unknown", "none"}]

ASSUME BoundsAssumption == MaxUnresolved \in Nat /\ MaxActions \in Nat

ASSUME DataAssumption ==
  /\ ActionKinds \subseteq Action
  /\ \A e \in DOMAIN Events : Events[e].score \in Nat \cup {None}
  /\ None \notin Assessments

Clamp(low, high, n) == Max({low, Min({high, n})})
Rounded(n, d) == (2 * n + d) \div (2 * d)      \* n / d, half up

-----------------------------------------------------------------------------
(* GroundednessEvaluator.evaluate.  A hypothesis cites events for and      *)
(* against it; claims says that its text asserts a failure mechanism.      *)

\* Mutant: the ratio counts the citations that resolve to nothing.
ContradictionDiluted(h) ==
  LET k == Cardinality(h.contradicts)
      n == Cardinality(h.supports)
  IN IF k = 0 THEN 0 ELSE Min({100, Rounded(150 * k, n + k + h.unresolved)})

Contradiction(h) ==
  LET k == Cardinality(h.contradicts)
      n == Cardinality(h.supports)
  IN IF k = 0 THEN 0 ELSE Min({100, Rounded(150 * k, n + k)})

Sources(h) == {Events[e].source : e \in h.supports}
Summaries(h) == {Events[e].summary : e \in h.supports}
Duplicated(h) == Cardinality(h.supports) - Cardinality(Summaries(h))

Diversity(h) ==
  CASE Cardinality(Sources(h)) >= 3 -> 100
    [] Cardinality(Sources(h)) = 2 -> 80
    [] OTHER -> IF Duplicated(h) > 0 THEN 25 ELSE 50

\* The effective count of evidence, in tenths: a duplicate counts a tenth.
Effective(h) == 10 * Cardinality(Summaries(h)) + Duplicated(h)

Coverage(h) ==
  LET several == Cardinality(Sources(h)) >= 2 IN
    CASE Effective(h) >= 30 /\ several -> 100
      [] Effective(h) \in 20 .. 29 /\ several -> 70
      [] Effective(h) >= 20 /\ ~several -> 45
      [] OTHER -> IF Duplicated(h) > 0 THEN 25 ELSE 40

Earliest(events) == Min({Events[e].at : e \in events})

Temporal(h) ==
  LET triggers == {e \in h.supports : Events[e].trigger}
      symptoms == {e \in h.supports : Events[e].symptom}
  IN CASE triggers # {} /\ symptoms # {} ->
            IF Earliest(triggers) <= Earliest(symptoms) THEN 100 ELSE 10
       [] triggers = {} \/ symptoms = {} ->
            IF Duplicated(h) > 0 /\ Cardinality(Sources(h)) = 1 THEN 50 ELSE 80

RetrievalQuality(h) ==
  LET ranked == {e \in h.supports : Events[e].score # None} IN
    IF ranked = {} THEN 75
    ELSE Clamp(0, 100, Rounded(MapThenSumSet(LAMBDA e : Events[e].score, ranked), Cardinality(ranked)))

Unsubstantiated(h) == h.claims /\ ~\E e \in h.supports : Events[e].corroborates

GroundednessScore(h) ==
  LET n == Cardinality(h.supports)
      base == 35 * Coverage(h) + 25 * Temporal(h) + 25 * Diversity(h) + 15 * RetrievalQuality(h)
      cited == (base * n * (1000 - 7 * Contradiction(h))) \div ((n + h.unresolved) * 1000)
      penalty == IF Unsubstantiated(h) THEN 1250 ELSE 0
  IN Clamp(0, 100, (cited - penalty + 50) \div 100)

GroundednessStatus(h) ==
  CASE Contradiction(h) >= 40 -> "contested"
    [] Contradiction(h) < 40 /\ GroundednessScore(h) >= 75 -> "well_supported"
    [] Contradiction(h) < 40 /\ GroundednessScore(h) \in 45 .. 74 -> "partially_supported"
    [] Contradiction(h) < 40 /\ GroundednessScore(h) < 45 -> "weakly_supported"

SystemConfidence(h) ==
  Clamp(0, 100, Rounded(GroundednessScore(h) * (1000 - 8 * Contradiction(h)), 1000))

ConfidenceLevel(status, confidence) ==
  CASE status \in {"contested", "weakly_supported"} \/ confidence < 40 -> "low"
    [] status \notin {"contested", "weakly_supported"} /\ confidence \in 40 .. 74 -> "medium"
    [] OTHER -> "high"

\* No citation that supports it resolves: rejected.
Rejected == [score |-> 0, confidence |-> 0, status |-> "rejected", level |-> "low"]

Assess(h) ==
  IF h.supports = {} THEN Rejected
  ELSE [score |-> GroundednessScore(h), confidence |-> SystemConfidence(h),
        status |-> GroundednessStatus(h),
        level |-> ConfidenceLevel(GroundednessStatus(h), SystemConfidence(h))]

\* An evaluation that raised is kept out of the investigation's way.
EvaluationFailed ==
  [score |-> None, confidence |-> None, status |-> "evaluation_failed", level |-> "unknown"]

-----------------------------------------------------------------------------
(* RiskEvaluator.evaluate. *)

BaseScore(type) ==
  CASE type = "manual" -> 20
    [] type = "config_change" -> 35
    [] type = "scale" -> 40
    [] type = "service_restart" -> 50
    [] type = "rollback" -> 60
    [] type = "dependency_update" -> 65
    [] type = "firewall_rule" -> 70

Worded(type, words) ==
  CASE words = "destructive" -> Max({BaseScore(type), 85})
    [] words = "mutating" -> Max({BaseScore(type), 55})
    [] words = "none" -> BaseScore(type)

ActionScore(a) ==
  LET undoable == Min({100, Worded(a.type, a.words) + (IF a.reversible THEN 0 ELSE 20)})
  IN Min({100, undoable + (IF a.broad THEN 15 ELSE 0)})

\* The mean over the actions, in thousandths.
Composite(actions) ==
  LET total == MapThenSumSet(LAMBDA i : ActionScore(actions[i]), DOMAIN actions)
      mean == (10 * total) \div Len(actions)
  IN Min({1000, mean + (IF Len(actions) > 3 THEN 100 ELSE 0)})

\* What a weak hypothesis adds: the first rule that applies.
Misdirected(assessed) ==
  CASE assessed.score # None /\ assessed.score < 50 -> 200
    [] (assessed.score = None \/ assessed.score >= 50) /\
         assessed.status \in {"contested", "rejected", "weakly_supported"} -> 250
    [] (assessed.score = None \/ assessed.score >= 50) /\
         assessed.status \notin {"contested", "rejected", "weakly_supported"} /\
         assessed.level = "low" -> 150
    [] OTHER -> 0

RiskLevel(score) ==
  CASE score >= 80 -> "critical"
    [] score \in 60 .. 79 -> "high"
    [] score \in 35 .. 59 -> "medium"
    [] score < 35 -> "low"

Unlinked == [score |-> 100, confidence |-> 100, status |-> "none", level |-> "none"]

Score(actions, assessed) ==
  IF actions = <<>> THEN 10
  ELSE Clamp(5, 99, Rounded(Min({1000, Composite(actions) + Misdirected(assessed)}), 10))

\* Mutant: the level is taken from the actions alone.
EvaluateUngrounded(actions, assessed) ==
  [score |-> Score(actions, assessed), level |-> RiskLevel(Score(actions, Unlinked))]

Evaluate(actions, assessed) ==
  [score |-> Score(actions, assessed), level |-> RiskLevel(Score(actions, assessed))]

Grade(level) == CHOOSE n \in 1 .. 4 : <<"low", "medium", "high", "critical">>[n] = level

\* generate_proposal_from_hypothesis: the plan for the mechanism the claim
\* names, with the words and targets of its steps.
Step(type, words, broad) ==
  [type |-> type, words |-> words, reversible |-> TRUE, broad |-> broad]

GeneratedPlans ==
  {<<Step("config_change", "none", TRUE), Step("service_restart", "destructive", FALSE),
     Step("manual", "none", FALSE)>>,
   <<Step("scale", "mutating", FALSE), Step("service_restart", "mutating", FALSE)>>,
   <<Step("rollback", "mutating", FALSE), Step("manual", "none", FALSE)>>,
   <<Step("service_restart", "mutating", FALSE), Step("manual", "none", FALSE)>>}

-----------------------------------------------------------------------------
(* A hypothesis gathers citations and is assessed; a proposal, linked to   *)
(* it or to none, gathers actions and is evaluated.                        *)

VARIABLES
  hypothesis,   \* the citations of the hypothesis being written
  assessed,     \* its stored assessment, None before; Unlinked without hypothesis
  actions       \* the actions of the proposal

vars == <<hypothesis, assessed, actions>>

Uncited(claims) == [supports |-> {}, contradicts |-> {}, unresolved |-> 0, claims |-> claims]

Init ==
  /\ hypothesis \in {Uncited(claims) : claims \in BOOLEAN}
  /\ assessed = None
  /\ actions = <<>>

CiteFor(e) ==
  /\ assessed = None
  /\ e \notin hypothesis.supports \union hypothesis.contradicts
  /\ hypothesis' = [hypothesis EXCEPT !.supports = @ \union {e}]
  /\ UNCHANGED <<assessed, actions>>

CiteAgainst(e) ==
  /\ assessed = None
  /\ e \notin hypothesis.supports \union hypothesis.contradicts
  /\ hypothesis' = [hypothesis EXCEPT !.contradicts = @ \union {e}]
  /\ UNCHANGED <<assessed, actions>>

\* A citation of an event of another incident, or of none.
CiteUnresolved ==
  /\ assessed = None
  /\ hypothesis.unresolved < MaxUnresolved
  /\ hypothesis' = [hypothesis EXCEPT !.unresolved = @ + 1]
  /\ UNCHANGED <<assessed, actions>>

\* evaluate_and_persist_job_hypotheses; the citations are not read again.
Persist(assessment) ==
  /\ assessed = None
  /\ assessed' = assessment
  /\ hypothesis' = Uncited(FALSE)
  /\ UNCHANGED actions

PersistAssessment == Persist(Assess(hypothesis))
PersistFailure == Persist(EvaluationFailed)

\* A proposal that names no hypothesis.
LeaveUnlinked ==
  /\ hypothesis = Uncited(FALSE)
  /\ Persist(Unlinked)

AddAction(a) ==
  /\ assessed # None
  /\ Len(actions) < MaxActions
  /\ actions' = Append(actions, a)
  /\ UNCHANGED <<hypothesis, assessed>>

GeneratePlan ==
  /\ assessed \notin {None, Unlinked}
  /\ actions = <<>>
  /\ actions' \in GeneratedPlans
  /\ UNCHANGED <<hypothesis, assessed>>

Next ==
  \/ \E e \in DOMAIN Events : CiteFor(e) \/ CiteAgainst(e)
  \/ CiteUnresolved
  \/ PersistAssessment
  \/ PersistFailure
  \/ LeaveUnlinked
  \/ \E a \in ActionKinds : AddAction(a)
  \/ GeneratePlan

Spec == Init /\ [][Next]_vars

-----------------------------------------------------------------------------
(* Properties. *)

\* A citation against a hypothesis, or one that resolves to no event of the
\* incident, never raises its groundedness, its confidence or the quality it
\* is said to have: "contradictory evidence monotonically discounts", and
\* invalid citations "cannot validate hypotheses" (ARCHITECTURE.md:131-135).
Order == <<"rejected", "weakly_supported", "partially_supported", "well_supported">>
Place(status) == IF status = "contested" THEN 1 ELSE CHOOSE n \in 1 .. 4 : Order[n] = status

OnlySupportRaises ==
  [][(assessed = None /\ assessed' = None /\ hypothesis'.supports = hypothesis.supports)
       => LET before == Assess(hypothesis)
              after == Assess(hypothesis')
          IN /\ after.score <= before.score
             /\ after.confidence <= before.confidence
             /\ before.status # "rejected" => Place(after.status) <= Place(before.status)]_vars

\* The same actions with one of them made irreversible, aimed at critical
\* infrastructure or worded more drastically never score lower: whatever rules
\* apply to the other actions and to the hypothesis.
Graver(a) ==
  {[a EXCEPT !.reversible = FALSE], [a EXCEPT !.broad = TRUE],
   [a EXCEPT !.words = "destructive"]} \union
  (IF a.words = "none" THEN {[a EXCEPT !.words = "mutating"]} ELSE {})

\* A proposal for a hypothesis that is contested, rejected, weakly supported or
\* of low confidence is graded as the same actions 0.15 higher would be, at
\* least: "weakly grounded, contested, or low-confidence hypotheses trigger
\* elevated risk ratings" (ARCHITECTURE.md:162).
WeakGroundingElevates ==
  (/\ assessed # None
   /\ \/ assessed.status \in {"contested", "rejected", "weakly_supported"}
      \/ assessed.level = "low"
   /\ actions # <<>>) =>
    Grade(Evaluate(actions, assessed).level) >=
      Grade(RiskLevel(Clamp(5, 99, Rounded(Min({1000, Composite(actions) + 150}), 10))))
=============================================================================
