---------------------------- MODULE ApprovalPolicy ----------------------------
(***************************************************************************)
(* ApprovalPolicyService, which says who may approve a remediation         *)
(* proposal, and the sandbox simulator, which tries the policy on fixed    *)
(* proposals (services/remediation/policy.py and sandbox.py).  A proposal  *)
(* is what the policy looks at; scores are in hundredths.                  *)
(***************************************************************************)
EXTENDS Integers

\* The rules in the order in which they are tried.
Rules == {"organization", "lifecycle", "separation", "assessment", "role"}

\* A level the service does not know is critical, a missing one medium.
RequiredRoles(level) ==
  IF level \in {"low", "medium", "none"} THEN {"MEMBER", "ADMIN", "OWNER"} ELSE {"ADMIN", "OWNER"}

\* Mutant: a single action does not account for a high score either.
StaleUpToOneAction(p) == p.actions <= 1 /\ p.score > 50

\* The score of a proposal without actions should have been a low one.
Stale(p) == p.actions = 0 /\ p.score > 50

\* The risk assessment is there and complete, and agrees with the actions.
AssessmentHolds(p) ==
  /\ p.score \in 0..100
  /\ p.graded
  /\ ~Stale(p)
  /\ ~p.executable

Breaks(rule, p, reviewer) ==
  CASE rule = "organization" -> reviewer.organization # p.organization
    [] rule = "lifecycle"    -> p.status \notin {"proposed", "reviewed"}
    [] rule = "separation"   -> p.creator = reviewer.user
    [] rule = "assessment"   -> ~AssessmentHolds(p)
    [] rule = "role"         -> reviewer.role \notin RequiredRoles(p.level)

\* evaluate: every rule is tried, whatever the others say.
Violations(rules, p, reviewer) == {rule \in rules : Breaks(rule, p, reviewer)}

Allowed(p, reviewer) == Violations(Rules, p, reviewer) = {}

\* assert_can_approve: the error of a refused approval, which the dry run
\* spells out as the list of violations.
Refusal(violated) ==
  IF violated = {} THEN "none"
  ELSE IF "lifecycle" \in violated THEN "conflict"
  ELSE IF "separation" \in violated THEN "forbidden"
  ELSE IF "assessment" \in violated THEN "invalid"
  ELSE "forbidden"

-----------------------------------------------------------------------------
(* The sandbox. *)

Fixture(status, level, score, actions, role, creator) ==
  [proposal |-> [organization |-> "alpha", status |-> status, creator |-> creator, level |-> level,
                 score |-> score, graded |-> TRUE, actions |-> actions, executable |-> FALSE],
   reviewer |-> [user |-> "reviewer", organization |-> "alpha", role |-> role]]

Healthy01 == Fixture("proposed", "low", 15, 1, "ADMIN", "another")
Degraded02 == Fixture("proposed", "high", 75, 0, "MEMBER", "another")
ElevatedRisk03 == Fixture("proposed", "critical", 95, 1, "ADMIN", "another")
UnauthorizedReviewer04 == Fixture("proposed", "high", 70, 0, "MEMBER", "another")
CreatorSelfApproval05 == Fixture("proposed", "low", 20, 0, "ADMIN", "reviewer")
ExpiredProposal06 == Fixture("expired", "low", 10, 0, "ADMIN", "another")
ConflictingApproval07 == Fixture("approved", "medium", 45, 0, "ADMIN", "another")

Fixtures ==
  [healthy_01 |-> Healthy01,
   degraded_02 |-> Degraded02,
   elevated_risk_03 |-> ElevatedRisk03,
   unauthorized_reviewer_04 |-> UnauthorizedReviewer04,
   creator_self_approval_05 |-> CreatorSelfApproval05,
   expired_proposal_06 |-> ExpiredProposal06,
   conflicting_approval_07 |-> ConflictingApproval07]

Scenarios == DOMAIN Fixtures

\* The eighth scenario reclaims a job of its own: nothing of the worker runs.
Reclaimed(startedAgo, threshold, attempts, maxAttempts) ==
  IF startedAgo > threshold /\ attempts < maxAttempts THEN "queued" ELSE "failed"

InvestigationRecovery08 == 400 > 180 /\ Reclaimed(400, 180, 1, 3) = "queued"

\* What a scenario asks of the violations the policy finds.
Expected(s, violated) ==
  CASE s \in {"healthy_01", "elevated_risk_03"} -> violated = {}
    [] s \in {"degraded_02", "unauthorized_reviewer_04"} -> violated # {}
    [] s = "creator_self_approval_05" -> "separation" \in violated
    [] s \in {"expired_proposal_06", "conflicting_approval_07"} -> "lifecycle" \in violated

\* simulate_scenario, with a policy of some of the rules.
Passed(s, rules) == Expected(s, Violations(rules, Fixtures[s].proposal, Fixtures[s].reviewer))

\* simulate_all.
AllPassed(rules) == (\A s \in Scenarios : Passed(s, rules)) /\ InvestigationRecovery08
=============================================================================
