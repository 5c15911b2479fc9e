# TracePilot in TLA+

TLA+ modules for TracePilot (a FastAPI backend over PostgreSQL, a worker process, a React
frontend), the TLC configurations that check them on small instances, and proofs checked by TLAPS
for every value of the constants. Source paths are relative to `src/`.

`tlc -config <file>.cfg <module>` makes a run, `tlapm <module>_proofs.tla` checks a proof.
`PROJECT.json` lists the components, the runs, one mutant per property, the source lines every
definition stands for, the findings, the hazards and the theorems.

Contents: 1 inventory, 2 modules, 3 runs and bounds, 4 fairness, 5 proofs, 6 what the code does that
its documents do not say, 7 not modelled, 8 what is left.

## 1. Inventory

| Component (under `backend/app/services` unless said) | State it keeps | Hard behaviour | Modules |
|---|---|---|---|
| Investigation jobs: `investigations/{service,engine}.py`, `backend/scripts/run_investigation_worker.py` | `investigation_jobs`, `root_cause_hypotheses` | racing requests and sweeps, crashes, executions slower than the stale timeout, unguarded ORM writes | `InvestigationJobs`, `JobLifecycle` |
| Investigation stream: `investigations/streaming.py`, `frontend/src/hooks/useInvestigationStream.ts` | the generator's last state; the hook's status, timers, attempts | broken connections, silent ends, late answers, new renders | `InvestigationStream` |
| Incidents and evidence: `incidents/service.py`, `investigations/{backfill,retrieval}.py` | `evidence_events` | racing deduplication keys, rollbacks of the whole session, failing statements and providers | `Evidence` |
| Investigation report: `investigations/{retrieval,engine,groundedness}.py` | hypotheses, the job's summary | channels that fail, output that cites what is not there, failing assessments | `InvestigationReport` (over `Assessment`) |
| Groundedness and risk: `investigations/groundedness.py`, `remediation/risk.py` | assessment and risk columns | sums and thresholds | `Assessment` |
| Remediation: `remediation/{service,policy,sandbox}.py` | proposals, decisions, audit events | row locks over stale ORM copies, lost updates | `Remediation`, `ApprovalPolicy` |
| Review center: `frontend/src/components/remediation/*` | list, selection, dialog | list answers out of order, decisions sent without a version | `ReviewCenter`, with `Remediation` in `Reviews` |
| Documents: `documents`, `ingestion`, `embeddings/service.py` | documents, jobs, chunks, vectors, files | crashes between commits, chunks replaced under an embedding job | `DocumentPipeline` |
| Extraction and chunking: `ingestion/extraction`, `normalization`, `chunking` | none | separators, sizes and overlap at their limits | `Passages` |
| Document panel: `frontend/src/components/documents/DocumentPanel.tsx` | list on the screen, polling | late answers, polling that depends on the list | `DocumentPanel`, in `Frontend` |
| Query embedding cache: `embeddings/cache.py` | LRU map, in-flight futures | single flight under failure and cancellation | `QueryEmbeddingCache` |
| RAG chat: `rag/service.py` | conversations, messages | question committed before the answer exists, disconnects, deletion in flight | `RagChat` (extends the cache) |
| Sources of an answer: `rag/{context,citations}.py` | none | budget, fallbacks, citations of what was cut | `AnswerSources` |
| Chat page: `frontend/src/App.tsx` | messages, stream, abort controller | done, error, end and Stop in any order | `ChatPage`, in `Frontend` |
| Accounts: `auth`, `users`, `organizations` | users, organizations, `refresh_tokens` | two rotations of a token, reuse detection beside a rotation | `Accounts` |
| Retrieval: `retrieval`, `reranking`, `retrieval_intelligence` | a request's results | failing branches, sub-queries, retries, fallback | `Retrieval`, `Ranking` |
| Query intelligence: `query_intelligence`, `retrieval_intelligence/{complexity,strategies}` | none | weights that add up to a class | `QueryRouting` |
| Verification: `verification` | none | verdicts merged in sequence, score and rates over different sets | `Verification` |
| Offline evaluation: `evaluation` | baseline | failed searches counted as empty ones | `Evaluation` |
| Providers, organizations and knowledge base CRUD, health, tracing, configuration, benchmarks, other pages | - | - | none, see section 7 |

The API process inserts and cancels jobs and serves the chat; worker processes poll the job table;
the SSE generator polls the same row; remediation proposals are made from a job's hypotheses and then
live alone; investigations read the evidence clients ingest; the chat reads what the document
pipeline made searchable. All communication between processes goes through the database, so the unit
of atomicity is one committed transaction or one SELECT under READ COMMITTED. Inside one process the
unit is what runs between two awaits (backend) or one callback (browser).

Two facts of the ORM settings shape several models: sessions have `expire_on_commit=False` and
`autoflush=False` (`backend/app/db/session.py:150-156`), and no query asks for `populate_existing`.
A SELECT therefore returns an object that is already loaded with its old column values, and a commit
writes the columns that differ from that copy.

## 2. Modules

**InvestigationJobs.** `row` is `investigation_jobs`, `hyps` the hypotheses by the execution `<<worker,
attempt>>` that wrote them. `started` is the age of `started_at`: `null`, `recent`, or `stale` once
behind the cutoff of the sweep. Each action is one SELECT or one commit: `ReadStale`/`WriteStale` are
the halves of `requeue_stale_running`, `SelectQueued`/`ClaimJob` those of `claim_next_queued`;
`create_job` is `ReadKey`, `ReadActive`, `InsertJob`, `RereadKey`, `RereadActive`. `client[c].met` is
history: the jobs whose rows refused the insert of the request (by the key or as active), so that what a
request that fails has met can be said of those very jobs. Conditional UPDATEs test `status`, ORM writes
(`UpdateProgress`, `WriteStale`) do not. Environment: `Age`, `Crash`, `InternalError`, failing handlers.
Left out: the heartbeat counter and tenants (every statement is scoped to one organization).
`JobLifecycle` is what a polling client is promised: bounded attempts, moves forward apart from retries,
a completed job that shows its last attempt and no other; `ImplementsLifecycle` is the refinement.

**InvestigationStream** instantiates `JobLifecycle` for the jobs, so the stream is checked against
the promise the job model keeps. `server` is the generator, `wire` the events in transit, `conn` what
the hook waits for, `gets` the REST reads in flight. `Disturbances` says what may happen besides
connection failures, so that each property names what it does not survive; `met` and `told` are
history variables.

**Remediation.** `proposals`, `decisions`, `trail` are the three tables, `sessions[c]` what request
`c` loaded in `get_remediation_proposal_or_404`. `SELECT ... FOR UPDATE` takes the lock but does not
refresh the loaded object; `Flushed` writes the columns that differ from the copy. `trail` has the
events that carry a status: `transition_status` of an approved proposal writes two of them with the
same statuses, the invalidation of the approval and the change itself. `overwritten` remembers
proposals some request wrote from an outdated copy: the clauses of `StandingApproval` and
`TrailTellsStatus` that need every write to have seen the one before except them by name, and what
happens to them is the subject of the two violated runs. **ReviewCenter** is the page of one
reviewer: every choice of a filter or proposal loads the list again, answers come in any order, a
decision is sent without a version. **Reviews** joins them: a behaviour follows the server's races or
the page. **ApprovalPolicy** is `policy.py` and the proposals on which `sandbox.py` tries it.

**DocumentPipeline.** One request is a session that loads the document and commits several times:
upload (file, then row), ingestion, embedding in parts, status patches, deletion. Chunks and vectors
carry the number of the ingestion whose text they are made from, so a vector of a text that is gone
can be told. Crashes, failing commits and the failure path that commits without a rollback are
actions; `abandoned` and `stray` remember what a crash left.

**Frontend** joins **ChatPage** (turns, their streams, the shared `streamRef`, Stop, selecting,
deleting, logging out), **DocumentPanel** (loads, operations, polling) and **Accounts**, whose tokens
the browsers obtain; they share no state, so a behaviour stays in the view it starts in.

**QueryEmbeddingCache** has one step per body of `async with self._lock` and names a future after
the call that made it. **RagChat** extends it: a turn embeds its question in a task of its own while
another reads the history on another session; streamed turns commit the question first, synchronous
ones with the answer. `offered` remembers the messages a history could be taken from.

**Accounts**: registration with its organization and slug, login, rotation, reuse detection, logout.
A request reads and commits in two steps; `races`, `condemned` and `excused` are history variables.

**Evidence**: clients check keys, insert, re-read after a lost race (the session is rolled back as a
whole) and embed; `marks` remembers which item of which batch met a failed statement or a provider that
could not be had. A backfill pages through events without a vector; an investigation reads events and
vectors on a session of its own. At most `MaxFaults` statements fail.

**Ranking** has reciprocal rank fusion, the reranker's order and the merge of several answers with the
rounding the code uses; **Retrieval** is a request through the hybrid service, the parallel
sub-queries, the retry of a poor answer and the fallback. What a branch finds is any ranking.

**Scoring** joins the judgements computed without a second actor; a behaviour follows one subject:

- **Assessment**: groundedness of a hypothesis, risk of its proposal, in hundredths;
- **Verification**: selection of evidence, heuristic and LLM verdicts, aggregation;
- **QueryRouting**: a query as the patterns see it, ambiguity, class, branch and strategy;
- **ApprovalPolicy**, applied to what the risk evaluation wrote;
- **Passages**: a text is a sequence of symbols whose letters are numbered in the order of the file, so
  a passage tells where it is from; sections per format, normalization, splitting at one separator after
  the other (`SplitAt`, a function of the finer one), merging with overlap (`Added`, a part at a time);
- **AnswerSources**: retrieval with its fallbacks, context budget, citations, evidence to verify;
- **InvestigationReport**: the three channels, the checks on the model's output, stored hypotheses,
  their assessment and the summary;
- **Evaluation**: a dataset run through a retriever, metrics, baseline and comparison.

Texts are reduced to what the rules tell apart (a citation is a number, a chunk is its overlap with a
claim and whether numbers or negations clash), scores to integers of the code's precision.

## 3. Runs and bounds

| Run | Instance | Shows |
|---|---|---|
| `jobs` | 1 worker, 2 clients, 1 incident, a key and a blank key, 2 jobs, 2 attempts, 1 crash, slow executions | `ExecutorOwnsJob`, `CancelIsFinal`, `LostRaceHasEnded`, `ImplementsLifecycle`, `EveryJobSettles` |
| `stream` | 2 jobs, 1 reconnection, 2 failures, 2 reads in flight, one kind of disturbance at a time | `NeverStranded`, `StreamIsOfSelected`, `EndIsShown` |
| `reviews` | server: 1 proposal, a member and an admin, 2 requests, 3 versions; page: 2 proposals, one the reviewer's own, 2 filters | `OneApprovalPerVersion`, `StandingApproval`, `TrailTellsStatus`, `OfferedIsAccepted` |
| `documents` | 1 document of 2 chunks, 2 requests, 2 ingestions | `ProcessingIsOwned`, `SearchableAsStated`, `FilesMatchRows` |
| `rag_chat` | 2 turns with one question, an existing conversation, cache of 1 entry | `NobodyWaitsInVain`, `OutcomeMatchesStore`, `PromptHasNewestHistory`, `EveryTurnEnds` |
| `frontend` | account: 2 users, 2 requests, 3 tokens; chat: 2 turns and an existing conversation; panel: 2 knowledge bases, 1 document | `OneLinePerLogin`, `ReuseIsContained`, `TurnIsShownOnce`, `PanelCatchesUp` |
| `retrieval` | 3 chunks, 2 sub-queries, 6 settings, cut at 2 | `FusionRespectsBranches`, `NothingFoundIsLost`, `EveryRequestEnds` |
| `evidence` | 3 events, 1 key, 2 clients, pages of 1, 1 fault, 1 backfill | `AnswersMatchRows`, `RaceIsNoFailure`, `BackfillCovers` |
| `scoring` | the enumerated inputs of `MCScoring` | `WeakGroundingElevates`, `OnlySupportRaises`, `VerdictIgnoresOrder`, `HighlyGroundedIsLowRisk`, `OneBranchIsEnough`, `EvaluatedIsApprovable`, `PassagesCoverFile`, `CitationsAreSources`, `ReportMatchesRows`, `RegressionIsSeen` |
| `jobs_double_execution` | 2 workers, no execution outlives the timeout | `NoDoubleExecution` is violated |
| `remediation_final` | 1 proposal, 2 requests | `NoApprovalOfFinal` is violated |
| `remediation_mutation` | 1 proposal, 2 requests, 2 status events | `MutationInvalidates` is violated |

The last three are disagreements between the code and what it says of itself. Two overlapping sweeps
let two workers execute one job, although the worker script calls concurrent workers safe from it
(`backend/scripts/run_investigation_worker.py:15-16`). An approval that waited for the row lock
behind a rejection approves the rejected proposal, which `ARCHITECTURE.md:189,196` excludes. A
recalculation that loaded the proposal before its approval gives the approved proposal another risk
and leaves the approval standing, although `ARCHITECTURE.md:191` has any mutation after the approval
invalidate it, raise the version and record an `approval_invalidated` event.

Why the bounds are enough. *Jobs*: two attempts separate the first, a retry and the exhausted budget;
two jobs let a settled job be followed by an active one of the same incident; two clients are an
insert race; a crash can fall between any two steps. *Stream*: one reconnection and two failures
reach the polling fallback; a second read is an overlap. *Reviews*: two requests make every overlap
of a read and a write, three versions let an approval be revoked twice; on the page one late list
answer (`MaxLoads`), one decision under way (`MaxSent`) and one change by others (`MaxChanges`) are
the three things that race, and the theorem `OffersHold` has no such bound. *Documents*: two
requests are every pair of operations on a document, two chunks let a job be interrupted between
batches. *Chat*: two turns share a computation, wait for it, cancel it, and read each other's history
(a history of 1 message is exceeded by two). *Frontend*: two turns are a stream open beside another;
two bases are a late answer of the other. *Accounts*: a login, a rotation and its race are three
tokens. *Retrieval*: three chunks over a cut of two make the cut matter; each setting of
`MCRetrieval` is one way through the services. *Evidence*: two clients race for one key, pages of
one event make the backfill's position matter. *Scoring*: the inputs lie on both sides of every
threshold of the code.

Bounds appear in guards or as sizes of inputs only: `MaxJobs`, `MaxCrashes`, `MaxMark`, `MaxWire`,
`MaxGets`, `MaxBreaks`, `MaxMet`, `MaxVersion`, `MaxTrail`, `MaxLoads`, `MaxSent`, `MaxChanges`,
`MaxIngestions`, `MaxTokens`, `MaxTurns`, `MaxFaults`, `MaxBackfills`, `MaxUnresolved`, `MaxActions`,
`MaxClaims`, `MaxChunks`, `MaxHypotheses`. `MaxAttempts`, `MaxReconnect`, `MaxSize`, `MaxHistory`,
`TopK`, `CandidateK`, `Budget` and the like are settings of the code at small values.

`CHECK_DEADLOCK FALSE` stands where a behaviour may end: when the bounded tokens, versions, turns or
inputs are used up. Symmetry over clients, requests and users is used in runs of safety properties
only.

Every module has a type invariant `TypeOK`. The runs do not list it among the properties they are about;
for jobs, stream, remediation, documents, retrieval, accounts, cache, chat, chat page and evidence a
type invariant is part of what is proved.

## 4. Fairness

- *Jobs*: `run_loop` never stops and every pass ends, so each worker is weakly fair in `PassStep \/
  ExecuteStep` as a whole; the branch an execution takes is not fair. The clock is (`Age`). Requests,
  cancellations and crashes owe nothing.
- *Stream*: the generator's poll loop, delivery on an open connection, the browser's timers and the
  answers to reads. Jobs, the user and failures owe nothing.
- *Chat turns*: database, providers and model answer or fail within their timeouts, and the event
  loop runs what can run: weak fairness of a turn's handler, its history task and its call.
- *Document panel*: timers fire (weak); of repeated polls some are answered and shown (strong: every
  new list restarts the effect, and a poll may fail). *Chat page*: every response ends or breaks.
- *Retrieval*: every await of the request ends, as the reranker has a timeout and the others raise.
- *Remediation, accounts, documents, evidence, scoring*: nothing obliges anybody; no liveness.

## 5. Proofs

The proof modules use nothing but the assumptions on the constants (finite sets, positive bounds,
null values distinct from what they stand beside) and, where a theorem says so, a hypothesis of its
own: one worker, no status set by hand, at most 13 claims, at most 202 cases. Each of these is a limit
of the code, and its paragraph says which. One assumption on a constant is a limit of the API: a branch
returns at most 500 chunks (`CandidateK`, `retrieval/schemas.py:59-63`). One module has the proofs of a
component; `Reviews_proofs`, `Frontend_proofs` and `Scoring_proofs` are about compositions, and
`DocumentPipeline_proofs` has the retrieval's as well.

`InvestigationJobs_proofs`, for any number of workers, clients, jobs, attempts and crashes:

- `TypeCorrect`: `TypeOK` is not inductive, as an execution indexes `row` by `cur[w]`; `BusyHasJob`
  says that a busy worker holds a job.
- `UniqueJobs`: steps either leave identity and activity of every row alone or only settle rows
  (`QuietRows`), or are the claim, the insert and the sweep's write; the last two are refused by the
  index.
- `AttemptsBounded`: `TokenBound` counts, for a job whose attempts are used up, the attempts
  started, the claim a queued job has to come, and the workers with an outdated snapshot; a read
  makes no token, a write spends one.
- `LosersMetRivals`: `RaceInv` follows a request that lost the insert race: the rows that refused it
  are still there, of its incident, and once it has looked for its key none of them carries it; one
  that is still active is what its last re-read returns.
- With one worker (`OneWorker`): `SoleExecutorOwns` and `SoleCancelIsFinal` from `SoleInv`
  (`HeldRuns`, `SnapRuns`, `CancelledStay`: what a worker holds or has found stale is running), and
  `SoleWorkerImplements`, the refinement of `JobLifecycle`, from `LifeInv` (`OwnHyps`: from the
  clearing on, the hypotheses of a job are this execution's; `SnapCurrent`; `AttemptsLeft`). The
  run `jobs_double_execution` shows why one worker is needed.

`InvestigationStream_proofs`, for any number of jobs, reconnections, failures and disturbances:
`WatchIsTyped`; `StreamFollowsSelection`, from `StreamInv` (a connection that was given up leaves
neither a polling generator nor events); `KeepsWatching`, from `WatchInv`: reads are of the selected
job and what the hook takes for the end was shown, unless there was a switch; timers run only after a
failure; a stream that ended by itself has told the end or still carries it. It follows that the hook
is waiting for a stream or a timer without counting reads in flight, which is more than
`NeverStranded` asks.

`Reviews_proofs`, for any number of proposals, users and requests. Of the server: `RowsTyped`;
`ApprovedOnce` (an approval is recorded only after the table itself shows none for that version, so the
age of the copy does not matter); `ApprovalStands`, from `ApprovalInv` (the approver has a decision of
his own, and while no outdated copy overwrote the proposal that decision `Stands`: it is of this
version and risk, or a rejection of the version came later) and `PresentInv` (a request has a copy of
a proposal that exists); `TrailTells`, from `TrailInv`: a status changes only together with an event that
leads to it, and the events of a commit on a current copy continue the trail (`GrownTrail`, for one
event or the pair).
`ReviewsHaveTwoEnds`: a step of `Reviews` is one of the server or one of the page, so what holds of
either holds of both. Of the page: `OffersHold`, from `OfferInv`: what a dialog or a decision under way
was offered on satisfied the policy.

`DocumentPipeline_proofs`, for any number of documents, requests, parts and ingestions, with crashes
and failing commits anywhere:

- `RequestsFitTheirRows`: the inductive `PipelineInv` relates what a request has read to the row as it
  is by now: its job is still listed, the chunks it counted are those of an ingestion that has
  happened, an upload that stored its file is alone with the document, and there is room for every
  ingestion under way. Rows only grow (`Evolves`), which is why an old reading stays good for
  something.
- `VectorsMatchChunks`: vectors are of the text their chunks have, and a COMPLETED job has covered all
  of them, although another request may ingest between two batches.
- `FilesAndRowsMatch` needs nothing more than `PipelineInv`.
- `NothingIsStranded` and `ReadyIsSearchable` have the hypotheses that no caller of PATCH sets
  PROCESSING, or READY: the endpoint writes any status it is given (`documents/service.py:317`), and
  then nobody owns the one and nothing stands behind the other. The run sets ARCHIVED by hand.
  `ProcessingIsHeld` follows who will write the status next: the request that put it there, or one that
  took over a later ingestion of the same document.

The same module, for any number of chunks and sub-queries and any settings of a retrieval request:

- `FusionIsFair`: a rank counts strictly more than every greater one, in spite of the rounding
  (`SharesFall`, which needs a limit on ranks: beyond rank 31 680 two of them may round to one score), so a
  chunk that no branch ranks behind another and one ranks ahead scores higher and stands first.
- `NoResultIsLost`, from `RequestInv`: for every search what it has read and found (`AsRead`), for every
  step of the request which searches run, have ended or never began (`PhaseInv`). Merging rankings
  removes doubles and cuts the end, never the beginning, so a request that found something answers
  something.

`Frontend_proofs`: `AccountsTyped`, `LinesBounded`, `ReuseContained`, and `SignInInEveryView`, by which
they hold of the composed frontend. The inductive `LinesCounted` counts tokens that are not revoked
rather than usable ones: a token may expire while it is being rotated, and its successor is usable.
`ReuseInv` says that condemned tokens stay revoked and whoever had read one before the detection is
marked. For the page, with any number of turns and whatever the other views do: `TurnsAreShownOnce` from
`PageInv` (what is shown was sent, the shared reference belongs to the one open stream of a turn the
user stayed with, and that turn has no answer on the screen before it is finalized).

`RagChat_proofs`: for the cache, `CacheServesWaiters` from `FutureInv` (a future belongs to a call that
was made; whoever pops the future of its query resolves it) and `CacheStaysBounded`; for the chat,
`ChatImplementsCache` (every step of a turn is a step of the cache or leaves it alone) and
`TurnsAreServed`. `ChatInv` says where the messages of a turn can be (`Placed`), that a question is
stored once and before its answer, and that committed messages stay until the conversation goes; from it
`OutcomesAreTrue` and `PromptsHaveTheirHistory`. The second hangs on `OneQuestion`: the code asks for
one message more than the limit and drops the turn's own question, which can only be one of them.

`Evidence_proofs`, for any number of events, keys, clients and batches: `AnswersAreTrue` and
`RacesAreNoFailure` from `IngestInv` (what a client works on is stored under its item's key, was
accepted by nobody and is worked on by nobody else; a session is broken only after a statement of its
own batch failed, and every failed item is marked or comes after one that is);
`BackfillsCover` from `BackfillInv` (what was found is embedded, refused or still to do, and a batch
being saved has a vector or a refusal for each of its events).

`Scoring_proofs`, for any inputs:

- queries: `BranchesSpared`, for every vocabulary, by the arithmetic of the weights; `NeverExpanded`;
- policy: `SandboxPasses`, and exactly which policies the sandbox would let pass (`SandboxNotices`,
  `SandboxMissesRoles`);
- verification: `OrderDoesNotMatter`, from a characterisation of the heuristic's verdict that does not
  mention an order; `ShortAnswersAreLowRisk` for at most 13 claims:
  of 14 claims two may be unsupported (12/14 is still HIGHLY_GROUNDED, two are never a low risk), and the
  code sets no limit to the claims of an answer;
- assessment: `DoubtNeverRaises`, an action property: groundedness and confidence are antitone in the
  contradicting and unresolved citations, through every rounding; `WeakGroundingRaisesRisk`;
  `EvaluatedCanBeApproved`, which relates the evaluator's thresholds to the policy's;
- sources: `CitationsHold`, from `SourcesInv`: the prompt is the beginning of what was found, so that a
  number means the same passage to model, reader and verifier;
- report: `ReportsTellTheirRows`, from `ReportInv` (evidence retrieved has a place in the ranking, rows
  cite retrieved evidence only, the output is what the model gave, the summary counts the rows);
- evaluation: `NoFalseAlarm` for a dataset of any size, `RegressionsAreSeen` for at most 202 cases:
  beyond, one case weighs less than the rounding of the shares to four decimals can hide;
- passages: `PassagesCoverTheirFile`, for every file and every chunk size and overlap, in five steps.
  *Normalization* (`NormalizedIs`) keeps every letter in its place and leaves no space before white
  space, at most two line breaks together and no white space at the ends. *Splitting*: the parts at a
  separator are the stretches between its occurrences, every letter in one of them (`Piece`,
  `PartsApart`); each level leaves texts with a simpler form (`Lines`, `Sentences`, `Words`, `Singles`:
  of a text without line breaks, say, no part but the first is blank), and without the
  normalization a part could be blank and a passage empty. *Merging* (`AddedNext`): the current parts
  are a window of all parts, what was finished covers everything before it, and each passage takes up
  within the overlap of the one before and, unless it has a period, goes beyond it. What `Covers` says of each
  list of passages holds of lists put together whose letters follow each other (`CoversFlat`), so it
  rises through the separators. *Sections* are drawn from consecutive blocks under the last heading
  (`Drawn`), and *a file* is the list of its sections. Assumed, and tested by the run: letters are
  numbered in the order of the file (a way to tell them apart, no limit on files), a Markdown heading
  has a text (`markdown.py:36`) and the settings are those the chunker accepts (`recursive.py:26-29`).

Where a value is computed along a sequence or a set (the sum of scores, the verdict after the first m
chunks, the first hit of a ranking), the induction is made by the least counterexample (`LeastNatural`)
over lengths, as the provers do not instantiate the library's induction theorems.

Only model-checked: all liveness (fairness and ENABLED are out of the prover's reach) and with it
`EveryJobSettles`, `EndIsShown`, `EveryTurnEnds`, `PanelCatchesUp`, `EveryRequestEnds`. Every safety
invariant of the passing runs is a theorem.

## 6. Observations

Met while modelling; the models contain them, and the properties are stated around them.

Jobs and stream: two overlapping sweeps can move a job out of a terminal status (the write has
`WHERE id = ...` only, while `investigations/service.py:29-32` calls every transition conditional). An
idempotency key of spaces is skipped by the look-ups and stored by the insert, so that using it again
fails with HTTP 500. A stream that ends at its time limit is followed by one read; a job still running
then is not watched any more. Aborting a stream re-reads the old job, and the answer is shown as that
of the job now selected. `docs/ARCHITECTURE.md:87` speaks of Last-Event-ID; no code reads it.

Remediation: rejecting an approved proposal (`remediation/service.py:776-778`) neither raises its version
nor takes the approver away nor records `approval_invalidated`, although `ARCHITECTURE.md:191` asks for
all three of any change after the approval; `StandingApproval` says what is left, an approver on a
rejected version. The same line is contradicted by a recalculation that races the approval (run
`remediation_mutation`). The dialog reloads on `HTTP_409`, the server sends `CONFLICT` (the test
`remediation.test.tsx:317` mocks `HTTP_409`). A decision carries no version; the rationale typed in the
dialog survives closing it; a late list answer can move the open dialog to another proposal
(`RemediationReviewCenter.tsx:79`) or overwrite a reload (`:63`), and a late audit answer is shown with
another proposal (`ProposalDetailView.tsx:66-85`). The mean risk of a proposal is diluted by harmless
actions. Sandbox scenarios 02 and 04 would pass without the role rule, scenario 08 runs none of the
worker's code.

Evidence and report: the vector channel may return an event the others did not fetch; the sort then
raises KeyError (`investigations/retrieval.py:137`) outside the `try` around the channel, so the whole
retrieval and with it the investigation fail. If no embedding provider can be had, the handler rolls the
session back, which expires the event just stored, and reading its id (`incidents/service.py:279`, then
`:322`) raises: an item that is stored is reported FAILED, although `evidence_embedding.py:5` and the
handler's comment (`:270-271`) promise that it remains usable; a retry under its deduplication key finds
a duplicate. An event is tagged "lexical" without any match (`:128`). "TIMELINE (chronological ...)"
(`prompts.py:71`) lists evidence in the order of its fused rank. The truncation note counts the
hypotheses dropped and says "returned" (`engine.py:241`). A hypothesis with contradicting evidence only
ends REJECTED without a reason. An RRF score is used as retrieval quality, which lowers groundedness
(`groundedness.py:296-306`). Default uncertainty notes are omitted when the model gives its own.

Chat, documents and retrieval: the context budget counts 2 of a separator's 7 characters. An answer
that cites only sources the budget cut shows the first three, which it never cited. A turn cancelled
with CancelledError is not caught by its waiters' `except Exception`. The comment at `App.tsx:365` does
not hold for a stream that ends without an event. Punctuation is lost where a text is split. Every
fused list has gaps in the ranks of arXiv sources.

Query intelligence: the EXPANDED strategy cannot be chosen
(`backend/docs/PHASE_2_4_RETRIEVAL_INTELLIGENCE.md:106` describes when it is). A capital at the
beginning of a sentence counts as an entity; a multi-hop query with a snake_case word goes to the
keyword branch alone; every query of one or two words is ambiguous; decomposition drops clauses of fewer
than three words, and a comparison of standard and enterprise plans searches refund policies.

Evaluation: a failed search counts as a miss and a database error fails every later case; the comparison
ignores a different dataset or cut and does not see small regressions that add up; with 272 cases the
loss of one hit of 49 passes as less than two per cent, as the shares are rounded first (`Evaluation`
rounds a half up where Python rounds the binary fraction, a tie to the even digit: shares may differ by
one ten-thousandth, and no property depends on it); a case with
only a snippet is always missed; query intelligence re-routes the single-branch adapters
(`runner.py:185-193` sets process-wide flags around an await); the groundedness evaluator takes the type
of a claim from the expected label. `organizations/service.py:58` looks for a free slug before it
inserts it. Some settings are documented with other values than they have (`MAX_TOTAL_CANDIDATES`) or
read nowhere.

## 7. Not modelled

- LLM and embedding providers: network clients. The models that call them let a call succeed, fail or
  never return.
- Organizations, users and knowledge bases: single-statement CRUD behind membership checks, apart from
  registration (`Accounts`) and the deletion of a knowledge base (`DocumentPipeline`).
- Health, tracing, diagnostics, configuration, metrics: reports that no other part reads.
- Benchmarks and maintenance scripts; the evaluation's NDCG, segments and rendering.
- Frontend: forms and pages without a protocol of their own, the audit panel, the incident tab, the
  dry-run dialog, the document inspector.
- SQL of the two search branches and the extraction of claims from a text: any ranking, any claims.
- The dry run of a proposal and the drafting of texts, prompts and titles.

## 8. What is left

Proofs: the document panel's type invariant. In the models: the timeline of an incident, the audit
panel, token accounting of a conversation.
