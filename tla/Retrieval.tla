------------------------------ MODULE Retrieval ------------------------------
(***************************************************************************)
(* One retrieval request (services/retrieval, reranking and                *)
(* retrieval_intelligence): a search authorizes, embeds the query, reads   *)
(* the vector and the keyword branch, fuses and reranks them; the adaptive *)
(* service makes one search or several side by side, merges their results, *)
(* retries a poor one and falls back when a strategy fails.  What a branch *)
(* finds is any ranking: the database's part is not modelled.              *)
(***************************************************************************)
EXTENDS Ranking

CONSTANTS
  Chunks,      \* ids of the chunks of the searched knowledge bases
  Settings,    \* the settings considered, a set of records of Setting
  SubQueries,  \* the variants of a multi-query request, or its sub-queries
  TopK,        \* request.top_k
  CandidateK,  \* request.candidate_k
  RerankerK,   \* RERANKER_CANDIDATE_K
  MaxAttempts, \* MAX_RETRIEVAL_ATTEMPTS
  Unread, Failed  \* a branch that has not answered, or has raised

Setting == [strategy : {"OFF", "HYBRID", "EXPANDED", "MULTI_QUERY"},
            modes : SUBSET {"hybrid", "vector", "keyword"}, \* of the query analysis
            reranking : BOOLEAN,   \* ENABLE_RERANKING
            parallel : BOOLEAN,    \* ENABLE_PARALLEL_HYBRID_SEARCH
            overBudget : BOOLEAN,  \* queries * candidates > MAX_TOTAL_CANDIDATES
            retries : BOOLEAN]     \* failure detection is on and the query expands

\* The schema of a request bounds candidate_k by 500.
ASSUME RetrievalAssumption ==
  /\ Chunks \subseteq Nat /\ Settings \subseteq Setting
  /\ {TopK, RerankerK, MaxAttempts, CandidateK} \subseteq Nat \ {0} /\ CandidateK <= 500
  /\ IsFiniteSet(SubQueries) /\ SubQueries # {} /\ {"own", "retry", "fallback"} \cap SubQueries = {}

VARIABLES
  settings,  \* the settings of this process and what the analysis says
  searches,  \* the searches of the request
  aborted,   \* sessions whose transaction a failed statement has ended
  request    \* the request: its step and response

requestVars == <<settings, searches, aborted, request>>

Slots == {"own", "retry", "fallback"} \cup SubQueries

\* The fallback uses the session of the request again.
Session(s) == IF s = "fallback" THEN "own" ELSE s

Results  == Seq([chunk : Chunks, score : 0..Whole])
Branches == RankingsOf(Chunks, CandidateK)

Search == [step : {"idle", "authorizing", "embedding", "reading", "fusing", "reranking",
                   "done", "failed"},
           mode : {"hybrid", "vector", "keyword"},
           vector : Branches \cup {Unread, Failed}, keyword : Branches \cup {Unread, Failed},
           results : Results,
           kept : BOOLEAN]  \* the reranker fell back to the list it was given

NoSearch == [step |-> "idle", mode |-> "hybrid", vector |-> Unread, keyword |-> Unread,
             results |-> <<>>, kept |-> FALSE]

RequestSteps == {"new", "searching", "judging", "retrying", "falling back", "answered", "error"}

RequestTypeOK ==
  /\ settings \in Settings
  /\ searches \in [Slots -> Search]
  /\ aborted \subseteq Slots \ {"fallback"}
  /\ request \in [step : RequestSteps, response : Results]

RequestInit ==
  /\ settings \in Settings
  /\ searches = [s \in Slots |-> NoSearch]
  /\ aborted = {}
  /\ request = [step |-> "new", response |-> <<>>]

-----------------------------------------------------------------------------
(* One search. *)

At(s, step)  == searches[s].step = step
Go(s, step)  == searches' = [searches EXCEPT ![s].step = step]
Healthy(s)   == Session(s) \notin aborted
SearchOnly   == UNCHANGED <<settings, aborted, request>>

InitialTopK    == IF settings.reranking THEN RerankerK ELSE TopK
UsesVector(s)  == searches[s].mode # "keyword"
UsesKeyword(s) == searches[s].mode # "vector"
Hybrid(s)      == UsesVector(s) /\ UsesKeyword(s)
Parallel(s)    == settings.parallel /\ Hybrid(s)

\* validate_knowledge_bases_access; the analysis of the query sets the mode.
Authorize(s) ==
  /\ At(s, "authorizing") /\ Healthy(s)
  /\ \E mode \in settings.modes :
       searches' = [searches EXCEPT ![s].mode = mode,
                      ![s].step = IF mode = "keyword" THEN "reading" ELSE "embedding"]
  /\ SearchOnly

\* A knowledge base that is not the organization's, or a database error: then
\* the session refuses every further statement.
AuthorizationFails(s) ==
  /\ At(s, "authorizing")
  /\ Go(s, "failed")
  /\ aborted' \in {aborted, aborted \cup {Session(s)}}
  /\ UNCHANGED <<settings, request>>

EmbedQuery(s) ==
  /\ At(s, "embedding")
  /\ Go(s, "reading")
  /\ SearchOnly

\* The provider fails or returns another dimension.
EmbeddingFails(s) ==
  /\ At(s, "embedding")
  /\ Go(s, "failed")
  /\ SearchOnly

VectorTurn(s) == At(s, "reading") /\ UsesVector(s) /\ searches[s].vector = Unread

\* On one session the keyword branch follows the vector branch.
KeywordTurn(s) ==
  /\ At(s, "reading") /\ UsesKeyword(s) /\ searches[s].keyword = Unread
  /\ (~Parallel(s) /\ UsesVector(s)) => searches[s].vector # Unread

ReadVector(s) ==
  /\ VectorTurn(s)
  /\ Parallel(s) \/ Healthy(s)
  /\ \E found \in Branches : searches' = [searches EXCEPT ![s].vector = found]
  /\ SearchOnly

ReadKeyword(s) ==
  /\ KeywordTurn(s)
  /\ Parallel(s) \/ Healthy(s)
  /\ \E found \in Branches : searches' = [searches EXCEPT ![s].keyword = found]
  /\ SearchOnly

\* A branch on a session of its own fails alone; one on the search's session
\* leaves it aborted for the next statement, if the statement got that far.
AbortedBy(s) == IF Parallel(s) THEN aborted ELSE aborted \cup {Session(s)}

VectorFails(s) ==
  /\ VectorTurn(s)
  /\ searches' = [searches EXCEPT ![s].vector = Failed]
  /\ aborted' \in {aborted, AbortedBy(s)}
  /\ UNCHANGED <<settings, request>>

KeywordFails(s) ==
  /\ KeywordTurn(s)
  /\ searches' = [searches EXCEPT ![s].keyword = Failed]
  /\ aborted' \in {aborted, AbortedBy(s)}
  /\ UNCHANGED <<settings, request>>

\* Mutant: a hybrid search raises what either branch met.
LostByEither(s) == Failed \in {searches[s].vector, searches[s].keyword}

\* Of one mode the failure is raised, of a hybrid only that of both branches.
Lost(s) == (UsesVector(s) => searches[s].vector = Failed) /\ (UsesKeyword(s) => searches[s].keyword = Failed)

Collect(s) ==
  /\ At(s, "reading")
  /\ UsesVector(s) => searches[s].vector # Unread
  /\ UsesKeyword(s) => searches[s].keyword # Unread
  /\ Go(s, IF Lost(s) THEN "failed" ELSE "fusing")
  /\ SearchOnly

Rows(branch) == IF branch \in {Unread, Failed} THEN <<>> ELSE branch

\* A single branch keeps scores of its own: any that fall with the rank.
Scored(branch, k) ==
  {r \in [DOMAIN FirstOf(branch, k) -> [chunk : Chunks, score : {Whole \div 4, Whole}]] :
     /\ \A n \in DOMAIN r : r[n].chunk = branch[n]
     /\ \A m, n \in DOMAIN r : m < n => r[m].score >= r[n].score}

Fusions(s) ==
  IF Hybrid(s) THEN {Fuse(Rows(searches[s].vector), Rows(searches[s].keyword), InitialTopK)}
  ELSE Scored(IF UsesVector(s) THEN searches[s].vector ELSE searches[s].keyword, InitialTopK)

FuseBranches(s) ==
  /\ At(s, "fusing")
  /\ \E results \in Fusions(s) :
       searches' = [searches EXCEPT ![s].results = results,
         ![s].step = IF settings.reranking /\ results # <<>> THEN "reranking" ELSE "done"]
  /\ SearchOnly

Rerank(s) ==
  /\ At(s, "reranking")
  /\ \E scores \in [DOMAIN searches[s].results -> {Whole \div 2, Whole}] :
       searches' = [searches EXCEPT ![s].step = "done",
                      ![s].results = Reranked(searches[s].results, scores, TopK)]
  /\ SearchOnly

\* Timeout, an error or no reranker: the list stays as it is, with all the
\* candidates that were meant for the reranker.
RerankerFallsBack(s) ==
  /\ At(s, "reranking")
  /\ searches' = [searches EXCEPT ![s].step = "done", ![s].kept = TRUE]
  /\ SearchOnly

SearchStep(s) ==
  \/ Authorize(s) \/ AuthorizationFails(s) \/ EmbedQuery(s) \/ EmbeddingFails(s)
  \/ ReadVector(s) \/ ReadKeyword(s) \/ VectorFails(s) \/ KeywordFails(s) \/ Collect(s)
  \/ FuseBranches(s) \/ Rerank(s) \/ RerankerFallsBack(s)

-----------------------------------------------------------------------------
(* The request: AdaptiveRetrievalService.retrieve. *)

Ended(s)   == searches[s].step \in {"done", "failed"}
Started(S) == [s \in Slots |-> IF s \in S THEN [searches[s] EXCEPT !.step = "authorizing"] ELSE searches[s]]
First      == IF settings.strategy = "MULTI_QUERY" THEN SubQueries ELSE {"own"}
Attempts   == Cardinality(First)
Adaptive   == settings.strategy # "OFF"

\* The exception handler: one more search, on the session of the request.
FallBack == request' = [request EXCEPT !.step = "falling back"] /\ searches' = Started({"fallback"})

StartSearches ==
  /\ request.step = "new"
  /\ request' = [request EXCEPT !.step = "searching"]
  /\ searches' = Started(First)
  /\ ~(settings.strategy \in {"EXPANDED", "MULTI_QUERY"} /\ settings.overBudget)
  /\ UNCHANGED <<settings, aborted>>

\* _enforce_budgets refuses the strategy.
BudgetExceeded ==
  /\ request.step = "new"
  /\ settings.strategy \in {"EXPANDED", "MULTI_QUERY"} /\ settings.overBudget
  /\ FallBack
  /\ UNCHANGED <<settings, aborted>>

\* gather keeps the order of the queries, here any one order of them.
Order == SetToSeq(First)

\* The results of the searches; one that failed is left out.
Gathered == [n \in DOMAIN Order |-> IF At(Order[n], "done") THEN searches[Order[n]].results ELSE <<>>]

TakeAnswer ==
  /\ request.step = "searching"
  /\ \A s \in First : Ended(s)
  /\ \E s \in First : At(s, "done")
  /\ request' = [step |-> IF Adaptive THEN "judging" ELSE "answered",
                 response |-> IF settings.strategy = "MULTI_QUERY" THEN Merge(Gathered, TopK)
                              ELSE searches["own"].results]
  /\ UNCHANGED <<settings, searches, aborted>>

SearchesFailed ==
  /\ request.step = "searching"
  /\ \A s \in First : At(s, "failed")
  /\ IF Adaptive THEN FallBack
     ELSE request' = [request EXCEPT !.step = "error"] /\ UNCHANGED searches
  /\ UNCHANGED <<settings, aborted>>

WorthRetrying ==
  /\ settings.retries /\ settings.strategy # "EXPANDED"
  /\ LowConfidence(request.response)
  /\ Attempts < MaxAttempts

\* The retry with the expanded query has a session of its own.
StartRetry ==
  /\ request.step = "judging" /\ WorthRetrying
  /\ request' = [request EXCEPT !.step = "retrying"]
  /\ searches' = Started({"retry"})
  /\ UNCHANGED <<settings, aborted>>

KeepAnswer ==
  /\ request.step = "judging" /\ ~WorthRetrying
  /\ request' = [request EXCEPT !.step = "answered"]
  /\ UNCHANGED <<settings, searches, aborted>>

\* A retry that failed leaves the first answer.
Better(retried) == retried # <<>> /\ (request.response = <<>> \/ TopScore(retried) > TopScore(request.response))

FinishRetry ==
  /\ request.step = "retrying" /\ Ended("retry")
  /\ LET retried == searches["retry"].results
     IN request' = [step |-> "answered",
          response |-> IF At("retry", "done") /\ Better(retried) THEN retried ELSE request.response]
  /\ UNCHANGED <<settings, searches, aborted>>

\* Mutant: a failed fallback raises and nobody answers.
FinishFallbackRaises ==
  /\ request.step = "falling back" /\ At("fallback", "done")
  /\ request' = [step |-> "answered", response |-> searches["fallback"].results]
  /\ UNCHANGED <<settings, searches, aborted>>

\* A fallback that failed leaves an empty answer.
FinishFallback ==
  /\ request.step = "falling back" /\ Ended("fallback")
  /\ request' = [step |-> "answered", response |-> searches["fallback"].results]
  /\ UNCHANGED <<settings, searches, aborted>>

RequestStep ==
  \/ StartSearches \/ BudgetExceeded \/ TakeAnswer \/ SearchesFailed
  \/ StartRetry \/ KeepAnswer \/ FinishRetry \/ FinishFallback

RequestNext == RequestStep \/ \E s \in Slots : SearchStep(s)

\* Every await of the request ends: the database and the provider answer or
\* raise, and the reranker has a timeout.
Fairness == WF_requestVars(RequestNext)

RequestSpec == RequestInit /\ [][RequestNext]_requestVars /\ Fairness

-----------------------------------------------------------------------------
(* Properties. *)

\* A branch ranks c above d, or finds only c; and it may find neither.
Ahead(branch, c, d) ==
  \E m \in RankIn(branch, c) : RankIn(branch, d) = {} \/ \E n \in RankIn(branch, d) : m < n
NotBehind(branch, c, d) == Ahead(branch, c, d) \/ RankIn(branch, c) \cup RankIn(branch, d) = {}

\* What both branches rank at least as high, and one of them higher.
BothPrefer(v, k, c, d) ==
  NotBehind(v, c, d) /\ NotBehind(k, c, d) /\ (Ahead(v, c, d) \/ Ahead(k, c, d))

\* In a list d never stands without or before a chunk that is better.
Respects(fused, v, k) ==
  \A c \in Range(v) \cup Range(k), n \in DOMAIN fused :
    BothPrefer(v, k, c, fused[n].chunk) => \E m \in DOMAIN fused : m < n /\ fused[m].chunk = c

\* A fused list never puts a chunk before one that both branches ranked at
\* least as high and one of them higher (or alone), whatever the cut at top_k:
\* also the cut keeps the better of two chunks.
FusionRespectsBranches ==
  \A s \in Slots :
    Hybrid(s) /\ (At(s, "reranking") \/ (At(s, "done") /\ ~settings.reranking)) =>
      Respects(searches[s].results, Rows(searches[s].vector), Rows(searches[s].keyword))

\* An answered request is empty only if none of its searches found anything: a
\* failed sub-query, retry or branch never hides what another one found.
NothingFoundIsLost ==
  request.step = "answered" /\ request.response = <<>> =>
    \A s \in Slots :
      /\ At(s, "done") => searches[s].results = <<>>
      /\ Hybrid(s) /\ At(s, "failed") =>
           Rows(searches[s].vector) = <<>> /\ Rows(searches[s].keyword) = <<>>

\* Whatever fails, the adaptive service answers; without it the search answers
\* or raises.
EveryRequestEnds ==
  <>(request.step = "answered" \/ (~Adaptive /\ request.step = "error"))
=============================================================================
