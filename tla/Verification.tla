---------------------------- MODULE Verification ----------------------------
(***************************************************************************)
(* The verification of an answer, backend/app/services/verification/:      *)
(* claims are extracted, each is compared with the chunks that overlap it  *)
(* most, first by the heuristic verifier and, when that is not sure and    *)
(* the deployment allows it, by an LLM; the verdicts are aggregated into   *)
(* the groundedness and the hallucination risk of the answer.              *)
(* A chunk is what the heuristic sees of it: the overlap of its words with *)
(* those of the claim, in hundredths, and whether their numbers or their   *)
(* negations clash.                                                        *)
(***************************************************************************)
EXTENDS Integers, Sequences, FiniteSets, SequencesExt

CONSTANTS
  Overlaps,     \* the overlaps a chunk may have with a claim
  MaxChunks,    \* bound: chunks retrieved for the answer
  TopK,         \* VERIFICATION_EVIDENCE_TOP_K
  MaxClaims,    \* bound: claims of the answer
  NoVerdict

ASSUME VerificationAssumption ==
  /\ Overlaps \subseteq 0 .. 100
  /\ TopK \in Nat \ {0} /\ MaxChunks \in Nat /\ MaxClaims \in Nat

VARIABLES
  stage,      \* of verify_answer: "idle", "verifying" or "answered"
  llm,        \* is the LLM fallback enabled
  claims,     \* verifiable claims left to verify
  evidence,   \* the chunks selected for the claim being verified
  doubtful,   \* the heuristic's verdict while the LLM is asked, or NoVerdict
  results,    \* the verdicts so far
  groundedness

verifyVars == <<stage, llm, claims, evidence, doubtful, results, groundedness>>

Verdict(status, confidence) == [status |-> status, confidence |-> confidence]

NonVerifiable == Verdict("NON_VERIFIABLE", 95)
Unknown == Verdict("UNCERTAIN", 30)

Chunks == [overlap : Overlaps, clash : {"none", "numbers", "negation"}]

-----------------------------------------------------------------------------
(* HeuristicVerifier.verify: chunk after chunk, until one contradicts. *)

Contradicts(c) ==
  \/ c.clash = "numbers" /\ c.overlap >= 10
  \/ c.clash = "negation" /\ c.overlap >= 50

Raised(v, status, confidence) ==
  Verdict(status, IF v.confidence > confidence THEN v.confidence ELSE confidence)

\* Mutant: a later partial match replaces the support found before.
WeighLast(v, c) ==
  CASE v.status = "CONTRADICTED" -> v
    [] v.status # "CONTRADICTED" /\ Contradicts(c) ->
         Verdict("CONTRADICTED", IF c.clash = "numbers" THEN 85 ELSE 80)
    [] OTHER ->
         IF c.overlap >= 65 THEN Raised(v, "SUPPORTED", 85)
         ELSE IF c.overlap >= 50 THEN Raised(v, "PARTIALLY_SUPPORTED", 65)
         ELSE IF c.overlap >= 30 /\ v.status = "UNSUPPORTED" THEN Raised(v, "PARTIALLY_SUPPORTED", 55)
         ELSE IF c.overlap < 30 /\ v.status = "UNSUPPORTED" THEN Raised(v, "UNSUPPORTED", 60)
         ELSE v

Weigh(v, c) ==
  CASE v.status = "CONTRADICTED" -> v
    [] v.status # "CONTRADICTED" /\ Contradicts(c) ->
         Verdict("CONTRADICTED", IF c.clash = "numbers" THEN 85 ELSE 80)
    [] OTHER ->
         IF c.overlap >= 65 THEN Raised(v, "SUPPORTED", 85)
         ELSE IF c.overlap >= 50 /\ v.status # "SUPPORTED" THEN Raised(v, "PARTIALLY_SUPPORTED", 65)
         ELSE IF c.overlap \in 30 .. 49 /\ v.status = "UNSUPPORTED"
           THEN Raised(v, "PARTIALLY_SUPPORTED", 55)
         ELSE IF c.overlap < 30 /\ v.status = "UNSUPPORTED" THEN Raised(v, "UNSUPPORTED", 60)
         ELSE v

Heuristic(chunks) ==
  IF chunks = <<>> THEN Verdict("UNSUPPORTED", 70)
  ELSE LET weighed[n \in 0 .. Len(chunks)] ==
             IF n = 0 THEN Verdict("UNSUPPORTED", 0) ELSE Weigh(weighed[n - 1], chunks[n])
       IN weighed[Len(chunks)]

\* EvidenceSelector.select: by overlap, with a bonus of 5 for the first retrieved
\* chunk, half of it for the second, and so on.
Precedes(chunks, i, j) ==
  (chunks[i].overlap * i + 5) * j >= (chunks[j].overlap * j + 5) * i

Select(chunks) ==
  LET ranked == SetToSortSeq(DOMAIN chunks,
        LAMBDA i, j : Precedes(chunks, i, j) /\ (Precedes(chunks, j, i) => i < j))
  IN [n \in 1 .. (IF Len(chunks) < TopK THEN Len(chunks) ELSE TopK) |-> chunks[ranked[n]]]

-----------------------------------------------------------------------------
(* aggregate_groundedness. *)

Count(verdicts, status) == Cardinality({i \in DOMAIN verdicts : verdicts[i].status = status})

\* Mutant: what no chunk supports is left out like what nobody could decide.
DecidedSupported(verdicts) ==
  Len(verdicts) - Count(verdicts, "UNCERTAIN") - Count(verdicts, "NON_VERIFIABLE")
    - Count(verdicts, "UNSUPPORTED")

Decided(verdicts) ==
  Len(verdicts) - Count(verdicts, "UNCERTAIN") - Count(verdicts, "NON_VERIFIABLE")

\* In thousandths.
GroundedShare(verdicts) ==
  IF Decided(verdicts) = 0 THEN 1000
  ELSE (1000 * Count(verdicts, "SUPPORTED") + 500 * Count(verdicts, "PARTIALLY_SUPPORTED"))
         \div Decided(verdicts)

MuchContradicted(verdicts) ==
  LET contradicted == Count(verdicts, "CONTRADICTED")
  IN contradicted > 0 /\ (contradicted >= 2 \/ 5 * contradicted >= Len(verdicts))

AnswerStatus(verdicts) ==
  LET share == GroundedShare(verdicts) IN
    IF Count(verdicts, "CONTRADICTED") > 0
      THEN IF MuchContradicted(verdicts) THEN "CONTRADICTED" ELSE "LOW_GROUNDEDNESS"
    ELSE IF share >= 850 THEN "HIGHLY_GROUNDED"
    ELSE IF share >= 600 THEN "MOSTLY_GROUNDED"
    ELSE IF share >= 400 THEN "PARTIALLY_GROUNDED"
    ELSE IF share = 0 /\ Count(verdicts, "UNCERTAIN") > 0 THEN "UNCERTAIN"
    ELSE "LOW_GROUNDEDNESS"

HallucinationRisk(verdicts) ==
  LET unsupported == Count(verdicts, "UNSUPPORTED") IN
    IF MuchContradicted(verdicts) THEN "HIGH"
    ELSE IF \/ Count(verdicts, "CONTRADICTED") = 1
            \/ unsupported >= 2
            \/ unsupported > 0 /\ 10 * unsupported >= 3 * Len(verdicts)
      THEN "MEDIUM"
    ELSE "LOW"

Aggregate(verdicts) ==
  [status |-> AnswerStatus(verdicts), risk |-> HallucinationRisk(verdicts)]

-----------------------------------------------------------------------------
(* verify_answer. *)

VerifyInit ==
  /\ stage = "idle"
  /\ llm \in BOOLEAN
  /\ claims = 0
  /\ evidence = NoVerdict
  /\ doubtful = NoVerdict
  /\ results = <<>>
  /\ groundedness = NoVerdict

\* The opinions among the claims are judged at once, ahead of the others; a
\* failing extraction yields no claim at all.
ExtractClaims(verifiable, opinions) ==
  /\ stage = "idle"
  /\ verifiable + opinions <= MaxClaims
  /\ stage' = "verifying"
  /\ claims' = verifiable
  /\ results' = [i \in 1 .. opinions |-> NonVerifiable]
  /\ UNCHANGED <<llm, evidence, doubtful, groundedness>>

SelectEvidence(chunks) ==
  /\ stage = "verifying" /\ claims > 0 /\ evidence = NoVerdict
  /\ evidence' = Select(chunks)
  /\ claims' = claims - 1
  /\ UNCHANGED <<stage, llm, doubtful, results, groundedness>>

Conclude(verdict) ==
  /\ results' = Append(results, verdict)
  /\ evidence' = NoVerdict
  /\ doubtful' = NoVerdict
  /\ UNCHANGED <<stage, llm, claims, groundedness>>

Sure(verdict) ==
  verdict.confidence >= 75 /\ verdict.status \in {"SUPPORTED", "CONTRADICTED"}

JudgeByHeuristic ==
  /\ evidence # NoVerdict /\ doubtful = NoVerdict
  /\ LET verdict == Heuristic(evidence) IN
       \/ /\ Sure(verdict) \/ ~llm
          /\ Conclude(verdict)
       \/ /\ ~Sure(verdict) /\ llm
          /\ doubtful' = verdict
          /\ UNCHANGED <<stage, llm, claims, evidence, results, groundedness>>

\* A timeout of the heuristic, or an exception it raised.
HeuristicFails ==
  /\ evidence # NoVerdict /\ doubtful = NoVerdict
  /\ Conclude(Unknown)

Statuses ==
  {"SUPPORTED", "PARTIALLY_SUPPORTED", "UNSUPPORTED", "CONTRADICTED", "UNCERTAIN",
   "NON_VERIFIABLE"}

\* Without evidence the LLM is not called; an answer that cannot be parsed
\* counts as uncertain.
LlmVerdicts ==
  IF evidence = <<>> THEN {Verdict("UNSUPPORTED", 60)}
  ELSE {Verdict("UNCERTAIN", 40)} \union {Verdict(status, 90) : status \in Statuses}

JudgeByLlm ==
  /\ doubtful # NoVerdict
  /\ \E verdict \in LlmVerdicts :
       Conclude(IF verdict.confidence > doubtful.confidence THEN verdict ELSE doubtful)

\* A timeout of the LLM, or an exception of its provider: the heuristic stands.
LlmFails ==
  /\ doubtful # NoVerdict
  /\ Conclude(doubtful)

AggregateVerdicts ==
  /\ stage = "verifying" /\ claims = 0 /\ evidence = NoVerdict
  /\ groundedness' = Aggregate(results)
  /\ stage' = "answered"
  /\ UNCHANGED <<llm, claims, evidence, doubtful, results>>

VerifyNext ==
  \/ \E verifiable, opinions \in 0 .. MaxClaims : ExtractClaims(verifiable, opinions)
  \/ \E n \in 0 .. MaxChunks : \E chunks \in [1 .. n -> Chunks] : SelectEvidence(chunks)
  \/ JudgeByHeuristic
  \/ HeuristicFails
  \/ JudgeByLlm
  \/ LlmFails
  \/ AggregateVerdicts

-----------------------------------------------------------------------------
(* Properties. *)

\* What the heuristic says of a claim does not depend on the order in which it
\* sees the selected chunks, although it stops at the first contradiction and
\* lets earlier chunks decide what later ones may change.  (Its confidence
\* does depend on it: 0.60 or 0.55 for a weak match.)
VerdictIgnoresOrder ==
  evidence # NoVerdict =>
    \A order \in [DOMAIN evidence -> DOMAIN evidence] :
      IsInjective(order) =>
        Heuristic([i \in DOMAIN evidence |-> evidence[order[i]]]).status
          = Heuristic(evidence).status

\* An answer called highly grounded has no contradicted claim and is not said
\* to carry more than a low risk of hallucination: the score leaves undecided
\* claims and opinions out while the rates behind the risk count every claim.
\* (With up to thirteen claims: two of fourteen may be unsupported.)
HighlyGroundedIsLowRisk ==
  groundedness # NoVerdict =>
    (groundedness.status = "HIGHLY_GROUNDED" =>
       groundedness.risk = "LOW" /\ Count(results, "CONTRADICTED") = 0)
=============================================================================
