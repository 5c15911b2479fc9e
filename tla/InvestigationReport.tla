------------------------- MODULE InvestigationReport -------------------------
(***************************************************************************)
(* What an investigation makes of its evidence (services/investigations):  *)
(* the three channels of retrieval.py and their fusion, the checks of      *)
(* engine.py on the output of the model, the hypotheses it stores, their   *)
(* assessment by groundedness.py and the summary the report shows.         *)
(* How a job runs, is cancelled and retried is InvestigationJobs.          *)
(***************************************************************************)
EXTENDS Assessment, SequencesExt

R == INSTANCE Ranking

CONSTANTS
  Searches,        \* how an incident's evidence answers its query: records of Search
  Outputs,         \* what the model may return, a set of records of Output
  Foreign,         \* an evidence id of another incident, or of none
  Limit, ChannelTopK,   \* INVESTIGATION_DEFAULT_RESULT_LIMIT; EVIDENCE_*_TOP_K, one for all
  MaxHypotheses

EvidenceIds == DOMAIN Events

\* The events of the incident by time and id, the words each shares with the
\* query, its similarity in hundredths where it has a vector, and how the
\* semantic channel fares.
Search ==
  [events : Seq(EvidenceIds), terms : [EvidenceIds -> Nat],
   similar : [EvidenceIds -> (0 .. 100) \cup {None}], semantic : {"on", "off", "fails"},
   grounding : BOOLEAN]

Draft == [supports : SUBSET (EvidenceIds \cup {Foreign}),
          contradicts : SUBSET (EvidenceIds \cup {Foreign}), claims : BOOLEAN]

\* A next step is risky when its action names a mutating verb.
NextStep == [risky : BOOLEAN, approval : BOOLEAN]

\* reads: what _parse_structured_output and the schema make of the text.
Output ==
  [reads : {"valid", "no JSON", "no object", "off schema"}, drafts : Seq(Draft), notes : BOOLEAN,
   steps : Seq(NextStep)]

ASSUME ReportAssumption ==
  /\ \A o \in Outputs : o \in Output
  /\ Searches # {} /\ \A s \in Searches : s \in Search
  /\ Limit \in Nat \ {0} /\ ChannelTopK \in Nat \ {0} /\ MaxHypotheses \in Nat \ {0}
  /\ Foreign \notin EvidenceIds

VARIABLES
  search, reportStep,
  retrieved,   \* the evidence of the prompt, in order
  output,
  rows,        \* the root_cause_hypotheses of the job
  summary
reportVars == <<search, reportStep, retrieved, output, rows, summary>>

-----------------------------------------------------------------------------
(* retrieve_evidence. *)

\* The members of S in the strict order prior of all of them.
Ordered(S, prior) ==
  LET place(c) == Cardinality({d \in S : <<d, c>> \in prior}) + 1
  IN [n \in 1 .. Cardinality(S) |-> CHOOSE c \in S : place(c) = n]

\* The events a channel scores, the best first; of equals the earlier.
RankedBy(s, scores) ==
  LET place(e) == CHOOSE n \in DOMAIN s.events : s.events[n] = e
      before(a, b) == scores[a] > scores[b] \/ (scores[a] = scores[b] /\ place(a) < place(b))
      ranked == {e \in ToSet(s.events) : scores[e] # None}
  IN R!FirstOf(Ordered(ranked, {p \in ranked \X ranked : before(p[1], p[2])}), ChannelTopK)

Lexical(s) == RankedBy(s, s.terms)

\* Without a provider, or when it fails, the other channels decide.
Semantic(s) ==
  IF s.semantic # "on" THEN <<>>
  ELSE RankedBy(s, s.similar)

Recent(s) == R!FirstOf(Reverse(s.events), ChannelTopK)

Positive(s) == [lexical  |-> {e \in EvidenceIds : s.terms[e] > 0},
                semantic |-> {e \in EvidenceIds : s.similar[e] # None /\ s.similar[e] > 10}]

\* The channels an event is said to be from: where none matched anything, those
\* that ranked it.
From(e, positive, channels) ==
  LET credited == {c \in {"lexical", "semantic"} :
                     e \in ToSet(channels[c]) /\ (e \in positive[c] \/ positive[c] = {})}
                  \cup {c \in {"recency"} : e \in ToSet(channels[c])}
  IN IF credited = {} THEN {"lexical"} ELSE credited

Method(sources) ==
  IF Cardinality(sources) > 1 THEN "hybrid" ELSE CHOOSE c \in sources : TRUE

\* _rrf_fuse_multichannel and the cut to the limit.
RankedEvidence(s) ==
  LET channels == [lexical |-> Lexical(s), semantic |-> Semantic(s), recency |-> Recent(s)]
      found == {e \in ToSet(s.events) : \E c \in DOMAIN channels : e \in ToSet(channels[c])}
      share(c, e) == R!Share(R!RankIn(channels[c], e))
      score == [e \in EvidenceIds |-> share("lexical", e) + share("semantic", e) + share("recency", e)]
      place(e) == CHOOSE n \in DOMAIN s.events : s.events[n] = e
      before(a, b) == score[a] > score[b] \/ (score[a] = score[b] /\ place(a) < place(b))
      ranking == R!FirstOf(Ordered(found, {p \in found \X found : before(p[1], p[2])}), Limit)
  IN [n \in DOMAIN ranking |->
        [event |-> ranking[n], method |-> Method(From(ranking[n], Positive(s), channels))]]

-----------------------------------------------------------------------------
(* _validate_and_build_drafts, the assessment and the summary. *)

\* Mutant: every hypothesis with a citation left is called supported.
DraftStatusOfLinks(supports, contradicts) ==
  IF supports \cup contradicts = {} THEN "rejected" ELSE "supported"

DraftStatus(supports, contradicts) ==
  CASE supports \cup contradicts = {} -> "rejected"
    [] contradicts # {} -> "contested"
    [] supports # {} /\ contradicts = {} -> "supported"

\* Citations that do not resolve to retrieved evidence are dropped.
Row(draft, allowed) ==
  LET supports == draft.supports \cap allowed
      contradicts == draft.contradicts \cap allowed
  IN [supports |-> supports, contradicts |-> contradicts, claims |-> draft.claims,
      unresolved |-> 0, drafted |-> DraftStatus(supports, contradicts),
      status |-> DraftStatus(supports, contradicts), grounded |-> None]

KeptDrafts(o) == R!FirstOf(o.drafts, MaxHypotheses)

\* evaluate_and_persist_job_hypotheses, of one row: the status follows the
\* assessment, once rejected always; a failed evaluation leaves it.
Grounded(row) == IF row.status = "rejected" THEN "rejected" ELSE Assess(row).status

Aligned(row, grounded) ==
  CASE grounded = "evaluation_failed" -> row.status
    [] grounded \in {"rejected", "contested"} -> grounded
    [] OTHER -> IF row.status = "rejected" THEN "rejected" ELSE "supported"

Having(status) == {n \in DOMAIN rows : rows[n].grounded = status}

Levels == {"well_supported", "partially_supported", "weakly_supported", "contested", "rejected"}

\* The notes of the model, or those of _default_uncertainty on the drafts; what
\* the assessment and the cut add comes on top.
Notes ==
  LET drafted(status) == \E n \in DOMAIN rows : rows[n].drafted = status
      own == {"correlation"} \cup {status \in {"rejected", "contested"} : drafted(status)}
  IN (IF output.notes THEN {"model"} ELSE own)
     \cup {w \in {"weak"} : Having("weakly_supported") # {}}
     \cup {t \in {"truncated"} : Len(output.drafts) > MaxHypotheses}

\* _enforce_approval.
Enforced(step) == [step EXCEPT !.approval = @ \/ step.risky]

Summary(notes, counts, steps) == [notes |-> notes, counts |-> counts, steps |-> steps]

-----------------------------------------------------------------------------
(* execute_claimed_job, where nothing takes the job away. *)

ReportInit(searches) ==
  /\ search \in searches
  /\ reportStep = "retrieve"
  /\ retrieved = <<>> /\ output = None /\ rows = <<>> /\ summary = None

Proceed(from, to) == reportStep = from /\ reportStep' = to /\ UNCHANGED search

RetrieveEvidence ==
  /\ Proceed("retrieve", IF RankedEvidence(search) = <<>> THEN "nothing found" ELSE "generate")
  /\ retrieved' = RankedEvidence(search)
  /\ UNCHANGED <<output, rows, summary>>

CompleteWithoutEvidence ==
  /\ Proceed("nothing found", "done")
  /\ summary' = Summary({"no evidence"}, None, <<[risky |-> FALSE, approval |-> FALSE]>>)
  /\ UNCHANGED <<retrieved, output, rows>>

GenerateOutput ==
  /\ Proceed("generate", "parse")
  /\ output' \in Outputs
  /\ UNCHANGED <<retrieved, rows, summary>>

\* LLMException: the job fails with the category of the error.
ProviderRaises ==
  /\ Proceed("generate", "failed")
  /\ UNCHANGED <<retrieved, output, rows, summary>>

RejectOutput ==
  /\ output # None /\ output.reads # "valid"
  /\ Proceed("parse", "failed")
  /\ UNCHANGED <<retrieved, output, rows, summary>>

PersistRows ==
  /\ output # None /\ output.reads = "valid"
  /\ Proceed("parse", IF search.grounding THEN "assess" ELSE "summarize")
  /\ LET allowed == {retrieved[n].event : n \in DOMAIN retrieved}
     IN rows' = [n \in DOMAIN KeptDrafts(output) |-> Row(output.drafts[n], allowed)]
  /\ UNCHANGED <<retrieved, output, summary>>

Unassessed == {n \in DOMAIN rows : rows[n].grounded = None}

AssessRow(fails) ==
  /\ reportStep = "assess" /\ Unassessed # {}
  /\ LET n == Min(Unassessed)
         grounded == IF fails THEN "evaluation_failed" ELSE Grounded(rows[n])
     IN rows' = [rows EXCEPT ![n] = [@ EXCEPT !.grounded = grounded,
                                              !.status = Aligned(rows[n], grounded)]]
  /\ UNCHANGED <<search, reportStep, retrieved, output, summary>>

AssessNext  == AssessRow(FALSE)
AssessFails == AssessRow(TRUE)

AllAssessed ==
  /\ Unassessed = {}
  /\ Proceed("assess", "summarize")
  /\ UNCHANGED <<retrieved, output, rows, summary>>

\* Without hypotheses, or with grounding off, there is nothing to count.
Summarize ==
  /\ Proceed("summarize", "done")
  /\ LET counts == IF rows = <<>> \/ ~search.grounding THEN None
                   ELSE [level \in Levels |-> Cardinality(Having(level))]
     IN summary' = Summary(Notes, counts, [n \in DOMAIN output.steps |-> Enforced(output.steps[n])])
  /\ UNCHANGED <<retrieved, output, rows>>

ReportNext ==
  \/ RetrieveEvidence \/ CompleteWithoutEvidence \/ GenerateOutput \/ ProviderRaises
  \/ RejectOutput \/ PersistRows \/ AssessNext \/ AssessFails \/ AllAssessed \/ Summarize

-----------------------------------------------------------------------------
(* Properties. *)

\* A finished report stands on its rows.  A hypothesis called supported rests on
\* retrieved evidence for it, grounding on or off, failed or not; a contested one
\* has evidence against it.  Each row counts once, unless its evaluation failed;
\* weak support and hypotheses cut off are always told, and where the model told
\* no doubts of its own, a hypothesis not called supported is.
ReportMatchesRows ==
  (reportStep = "done" /\ rows # <<>>) =>
    LET prompted == {retrieved[n].event : n \in DOMAIN retrieved}
        doubted == {n \in DOMAIN rows : rows[n].status # "supported"}
        failed == Having("evaluation_failed")
    IN /\ \A n \in DOMAIN rows :
            /\ rows[n].supports \cup rows[n].contradicts \subseteq prompted
            /\ rows[n].status = "supported" => rows[n].supports # {}
            /\ rows[n].status = "contested" => rows[n].contradicts # {}
       /\ summary.counts # None =>
            MapThenSumSet(LAMBDA level : summary.counts[level], Levels) + Cardinality(failed) = Len(rows)
       /\ Len(rows) < Len(output.drafts) => "truncated" \in summary.notes
       /\ (\E n \in DOMAIN rows : rows[n].grounded = "weakly_supported") => "weak" \in summary.notes
       /\ doubted # {} /\ ~output.notes => summary.notes \cap {"rejected", "contested"} # {}
       /\ \A n \in DOMAIN summary.steps : summary.steps[n].risky => summary.steps[n].approval
=============================================================================
