------------------------------- MODULE Scoring -------------------------------
(***************************************************************************)
(* The judgements the backend computes from the record before it, without  *)
(* a lock or a second actor.  They share no state, so a behaviour follows  *)
(* one of them, its subject:                                               *)
(*   hypothesis   its groundedness and the risk of its proposal            *)
(*   answer       the groundedness of a chat answer                        *)
(*   query        its route                                                *)
(*   file         its passages                                             *)
(*   sources      what a chat answer was told, cites and is checked on     *)
(*   report       what an investigation makes of its evidence              *)
(*   evaluation   a dataset run against a retriever, and its regression    *)
(* The approval policy reads what the risk evaluation of a proposal wrote; *)
(* a report assesses its hypotheses as the assessment does.                *)
(***************************************************************************)
EXTENDS Verification, QueryRouting, ApprovalPolicy, Passages, AnswerSources,
        InvestigationReport, Evaluation

VARIABLE subject

allVars == <<subject, vars, verifyVars, queryVars, passageVars, sourceVars, reportVars, evaluationVars>>

\* The first state of each part, where only the one followed is free.
Only(subjects, s, rest) == IF subject = s THEN subjects ELSE {rest}

SomeFile == CHOOSE f \in Files : TRUE
SomeSizing == CHOOSE z \in Sizings : TRUE
SomeRequest == CHOOSE r \in Requests : TRUE
SomeSearch == CHOOSE s \in Searches : TRUE

ScoringInit ==
  /\ subject \in {"hypothesis", "answer", "query", "file", "sources", "report", "evaluation"}
  /\ Init /\ (subject # "hypothesis" => ~hypothesis.claims)
  /\ VerifyInit /\ (subject # "answer" => ~llm)
  /\ PassagesInit(Only(Files, "file", SomeFile), Only(Sizings, "file", SomeSizing))
  /\ SourcesInit(Only(Requests, "sources", SomeRequest))
  /\ ReportInit(Only(Searches, "report", SomeSearch))
  /\ EvaluationInit(Only(Datasets, "evaluation", <<>>), Only(Retrievers, "evaluation", "hybrid"),
                    Only(BOOLEAN, "evaluation", FALSE))
  /\ QueryInit(Only(Query, "query", Plainest))

ScoreHypothesis ==
  /\ subject = "hypothesis" /\ Next
  /\ UNCHANGED <<subject, verifyVars, queryVars, passageVars, sourceVars, reportVars, evaluationVars>>

ScoreAnswer ==
  /\ subject = "answer" /\ VerifyNext
  /\ UNCHANGED <<subject, vars, queryVars, passageVars, sourceVars, reportVars, evaluationVars>>

RouteQuery ==
  /\ subject = "query" /\ AnalyzeQuery
  /\ UNCHANGED <<subject, vars, verifyVars, passageVars, sourceVars, reportVars, evaluationVars>>

CutFile ==
  /\ subject = "file" /\ ProcessDocument
  /\ UNCHANGED <<subject, vars, verifyVars, queryVars, sourceVars, reportVars, evaluationVars>>

AnswerTurn ==
  /\ subject = "sources" /\ SourcesNext
  /\ UNCHANGED <<subject, vars, verifyVars, queryVars, passageVars, reportVars, evaluationVars>>

Investigate ==
  /\ subject = "report" /\ ReportNext
  /\ UNCHANGED <<subject, vars, verifyVars, queryVars, passageVars, sourceVars, evaluationVars>>

EvaluateRetrieval ==
  /\ subject = "evaluation" /\ EvaluationNext
  /\ UNCHANGED <<subject, vars, verifyVars, queryVars, passageVars, sourceVars, reportVars>>

ScoringNext ==
  \/ ScoreHypothesis \/ ScoreAnswer \/ RouteQuery \/ CutFile \/ AnswerTurn \/ Investigate
  \/ EvaluateRetrieval

ScoringSpec == ScoringInit /\ [][ScoringNext]_allVars

-----------------------------------------------------------------------------
(* Properties. *)

\* What the policy sees of a proposal evaluated as e, and of a reviewer.
Proposal(e) ==
  [organization |-> "alpha", status |-> "proposed", creator |-> "creator", level |-> e.level,
   score |-> e.score, graded |-> TRUE, actions |-> Len(actions), executable |-> FALSE]

Reviewer(role) == [user |-> "reviewer", organization |-> "alpha", role |-> role]

\* The evaluator's scores and the policy that reads them agree: whatever the
\* actions and the hypothesis, an administrator other than the creator may
\* approve an evaluated proposal, so none is refused by everybody as stale; and
\* a member may only where the risk is below the high one.
EvaluatedIsApprovable ==
  assessed # None =>
    LET proposal == Proposal(Evaluate(actions, assessed))
    IN /\ Allowed(proposal, Reviewer("ADMIN"))
       /\ Allowed(proposal, Reviewer("MEMBER")) <=> proposal.score < 60
=============================================================================
