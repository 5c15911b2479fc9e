-------------------------- MODULE InvestigationJobs --------------------------
(***************************************************************************)
(* Durable investigation jobs: the rows of investigation_jobs and of       *)
(* root_cause_hypotheses, the API requests that create and cancel jobs,    *)
(* and the worker processes that sweep, claim and execute them.            *)
(*                                                                         *)
(* One action is one committed transaction or one SELECT: between two of   *)
(* them any other session may run (READ COMMITTED).  The sessions are made *)
(* with expire_on_commit=False, so an ORM object keeps the column values   *)
(* it was loaded with, and the UPDATE a commit flushes for it carries no   *)
(* guard on status.  Jobs are numbered in the order of requested_at.       *)
(***************************************************************************)
EXTENDS Naturals, FiniteSets

CONSTANTS
  Incidents,      \* incidents a job can be requested for
  Keys,           \* idempotency keys clients send, stripped; may contain Blank
  Blank,          \* the empty string: what stripping leaves of a key of spaces
  Clients,        \* API requests in flight at the same time
  Workers,        \* investigation worker processes
  MaxAttempts,    \* investigation_jobs.max_attempts
  ClaimBatch,     \* .limit(10) of claim_next_queued
  SlowExecution,  \* may an execution outlive INVESTIGATION_STALE_RUNNING_SECONDS?
  MaxJobs,        \* bound: rows of investigation_jobs
  MaxCrashes,     \* bound: worker deaths
  None            \* SQL NULL

ASSUME WorkersAssumption == IsFiniteSet(Workers) /\ Workers # {}
ASSUME BoundsAssumption ==
  /\ MaxAttempts \in Nat \ {0}
  /\ ClaimBatch \in Nat \ {0}
  /\ MaxJobs \in Nat \ {0}
  /\ MaxCrashes \in Nat
ASSUME SlowExecutionAssumption == SlowExecution \in BOOLEAN
ASSUME BlankAssumption == Blank # None
ASSUME NoneAssumption == None \notin Incidents \cup Keys \cup (Workers \X Nat)

VARIABLES
  row,        \* investigation_jobs, by job number
  hyps,       \* root_cause_hypotheses of each job: the executions whose output is there
  client,     \* API requests inside create_job
  cancelled,  \* history: jobs whose cancellation was answered with 200
  pc,         \* where each worker stands in run_once
  cur,        \* the job a worker works on, 0 for none
  att,        \* attempt_count of that job when the worker loaded it
  snap,       \* attempt_count of the rows the sweep SELECT returned, 0 for the others
  cand,       \* queued jobs claim_next_queued has still to try
  seen,       \* hypotheses the groundedness evaluation has loaded
  crashes     \* worker deaths so far

dbVars     == <<row, hyps>>
apiVars    == <<client, cancelled>>
workerVars == <<pc, cur, att, snap, cand, seen>>
vars       == <<row, hyps, client, cancelled, pc, cur, att, snap, cand, seen, crashes>>

Jobs     == 1..MaxJobs
Active   == {"queued", "running"}
Terminal == {"completed", "failed", "cancelled"}
Stages   == {"queued", "running", "retrieving_evidence", "building_timeline",
             "generating_hypotheses", "validating_citations", "persisting",
             "evaluating_groundedness", "completed", "failed", "cancelled"}
Executions == Workers \X Nat

\* The columns the properties tell apart.  progress is written with stage and
\* error_category with status; started is the age of started_at, result names
\* the execution whose result_summary is stored.  A number no row has yet is
\* "absent".
Row == [status   : Active \cup Terminal \cup {"absent"},
        stage    : Stages,
        attempt  : Nat,
        started  : {"null", "recent", "stale"},
        incident : Incidents \cup {None},
        key      : Keys \cup {None},
        result   : Executions \cup {None}]

AbsentRow == [status |-> "absent", stage |-> "queued", attempt |-> 0, started |-> "null",
              incident |-> None, key |-> None, result |-> None]

ExecutionPcs == {"clear", "retrieve", "collect", "decide", "generate", "validate",
                 "persist", "report", "assess", "assessing", "complete", "recover"}
WorkerPcs    == {"idle", "sweep", "select", "claim", "load", "escaped"} \cup ExecutionPcs
ReadPcs      == {"key_read", "active_read", "insert", "key_reread", "active_reread"}

\* met is history: the jobs whose rows refused the request's INSERT.
Request      == [pc : {"idle", "error"} \cup ReadPcs,
                 incident : Incidents \cup {None}, key : Keys \cup {None}, met : SUBSET Jobs]
IdleRequest  == [pc |-> "idle", incident |-> None, key |-> None, met |-> {}]

Exec(w) == <<w, att[w]>>
Executing(w) == pc[w] \in ExecutionPcs

TypeOK ==
  /\ row \in [Jobs -> Row]
  /\ hyps \in [Jobs -> SUBSET Executions]
  /\ client \in [Clients -> Request]
  /\ cancelled \in SUBSET Jobs
  /\ pc \in [Workers -> WorkerPcs]
  /\ cur \in [Workers -> Jobs \cup {0}]
  /\ att \in [Workers -> Nat]
  /\ snap \in [Workers -> [Jobs -> Nat]]
  /\ cand \in [Workers -> SUBSET Jobs]
  /\ seen \in [Workers -> SUBSET Executions]
  /\ crashes \in 0..MaxCrashes

NoSnap == [j \in Jobs |-> 0]

Init ==
  /\ row = [j \in Jobs |-> AbsentRow]
  /\ hyps = [j \in Jobs |-> {}]
  /\ client = [c \in Clients |-> IdleRequest]
  /\ cancelled = {}
  /\ pc = [w \in Workers |-> "idle"]
  /\ cur = [w \in Workers |-> 0]
  /\ att = [w \in Workers |-> 0]
  /\ snap = [w \in Workers |-> NoSnap]
  /\ cand = [w \in Workers |-> {}]
  /\ seen = [w \in Workers |-> {}]
  /\ crashes = 0

-----------------------------------------------------------------------------
(* The table: its unique indexes and the conditional UPDATEs.              *)

\* uq_investigation_jobs_single_active
SingleActive(r) ==
  \A j, k \in Jobs :
    r[j].status \in Active /\ r[k].status \in Active /\ r[j].incident = r[k].incident
      => j = k

\* uq_investigation_jobs_incident_idempotency; NULL keys never conflict
SingleKey(r) ==
  \A j, k \in Jobs :
    r[j].key # None /\ r[j].key = r[k].key /\ r[j].incident = r[k].incident => j = k

HasKey(i, k) == \E j \in Jobs : row[j].incident = i /\ row[j].key = k
HasActive(i) == \E j \in Jobs : row[j].incident = i /\ row[j].status \in Active

ClaimedRow(r) ==
  [r EXCEPT !.status = "running", !.stage = "running", !.started = "recent",
            !.attempt = @ + 1]

CompletedRow(r, execution) ==
  [r EXCEPT !.status = "completed", !.stage = "completed", !.result = execution]

FailedRow(r) == [r EXCEPT !.status = "failed", !.stage = "failed"]

RequeuedRow(r) ==
  [r EXCEPT !.status = "queued", !.stage = "queued", !.started = "null"]

CancelledRow(r) == [r EXCEPT !.status = "cancelled", !.stage = "cancelled"]

\* UPDATE ... WHERE id = j AND status = 'running'
FailIfRunning(j) ==
  row' = IF row[j].status = "running" THEN [row EXCEPT ![j] = FailedRow(@)] ELSE row

-----------------------------------------------------------------------------
(* API: POST /incidents/{id}/investigations and POST /investigations/{id}/cancel. *)

Step(c, from, to) ==
  /\ client[c].pc = from
  /\ client' = [client EXCEPT ![c].pc = to]

Answer(c, from) ==
  /\ client[c].pc = from
  /\ client' = [client EXCEPT ![c] = IdleRequest]

\* `if key:`
HasText(k) == k \notin {None, Blank}

InFlight == {c \in Clients : client[c].pc \in ReadPcs}
Rows     == {j \in Jobs : row[j].status # "absent"}

\* A client sends a request, with or without an idempotency key.  The guard
\* keeps a row free for each request in flight (bound MaxJobs).
RequestJob(c) ==
  /\ client[c].pc \in {"idle", "error"}
  /\ Cardinality(Rows) + Cardinality(InFlight) < MaxJobs
  /\ \E i \in Incidents, k \in Keys \cup {None} :
       client' = [client EXCEPT ![c] =
                    [pc |-> IF HasText(k) THEN "key_read" ELSE "active_read",
                     incident |-> i, key |-> k, met |-> {}]]
  /\ UNCHANGED <<dbVars, cancelled, workerVars, crashes>>

ReadKey(c) ==
  /\ IF HasKey(client[c].incident, client[c].key)
     THEN Answer(c, "key_read") ELSE Step(c, "key_read", "active_read")
  /\ UNCHANGED <<dbVars, cancelled, workerVars, crashes>>

ReadActive(c) ==
  /\ IF HasActive(client[c].incident)
     THEN Answer(c, "active_read") ELSE Step(c, "active_read", "insert")
  /\ UNCHANGED <<dbVars, cancelled, workerVars, crashes>>

NewRow(c) == [AbsentRow EXCEPT !.status = "queued",
                               !.incident = client[c].incident, !.key = client[c].key]

\* The rows that conflict with the INSERT in one of the two indexes.
Refusing(c) ==
  {j \in Jobs : /\ row[j].incident = client[c].incident
                /\ \/ row[j].status \in Active
                   \/ client[c].key # None /\ row[j].key = client[c].key}

\* INSERT and commit; an IntegrityError rolls back and reads again.
InsertJob(c) ==
  \E j \in Jobs :
    LET inserted == [row EXCEPT ![j] = NewRow(c)] IN
    /\ row[j].status = "absent"
    /\ \A k \in 1..(j - 1) : row[k].status # "absent"
    /\ IF SingleActive(inserted) /\ SingleKey(inserted)
       THEN row' = inserted /\ Answer(c, "insert")
       ELSE /\ client[c].pc = "insert"
            /\ client' = [client EXCEPT
                 ![c].pc = IF HasText(client[c].key) THEN "key_reread" ELSE "active_reread",
                 ![c].met = Refusing(c)]
            /\ UNCHANGED row
    /\ UNCHANGED <<hyps, cancelled, workerVars, crashes>>

\* Mutant of RereadKey: the rollback is followed by the active re-read only.
RereadKeySkipped(c) ==
  /\ Step(c, "key_reread", "active_reread")
  /\ UNCHANGED <<dbVars, cancelled, workerVars, crashes>>

RereadKey(c) ==
  /\ IF HasKey(client[c].incident, client[c].key)
     THEN Answer(c, "key_reread") ELSE Step(c, "key_reread", "active_reread")
  /\ UNCHANGED <<dbVars, cancelled, workerVars, crashes>>

\* With no winner left to return the IntegrityError is raised again (HTTP 500).
RereadActive(c) ==
  /\ IF HasActive(client[c].incident)
     THEN Answer(c, "active_reread") ELSE Step(c, "active_reread", "error")
  /\ UNCHANGED <<dbVars, cancelled, workerVars, crashes>>

\* Mutant of CancelJob: any active job may be cancelled.
CancelActiveJob(j) ==
  /\ row[j].status \in Active
  /\ row' = [row EXCEPT ![j] = CancelledRow(@)]
  /\ cancelled' = cancelled \cup {j}
  /\ UNCHANGED <<hyps, client, workerVars, crashes>>

\* Conditional UPDATE queued -> cancelled.  On any other status the request
\* is answered 409 and changes nothing.
CancelJob(j) ==
  /\ row[j].status = "queued"
  /\ row' = [row EXCEPT ![j] = CancelledRow(@)]
  /\ cancelled' = cancelled \cup {j}
  /\ UNCHANGED <<hyps, client, workerVars, crashes>>

-----------------------------------------------------------------------------
(* Worker pass, run_once: sweep stale jobs, then claim and execute.        *)

Goto(w, from, to) ==
  /\ pc[w] = from
  /\ pc' = [pc EXCEPT ![w] = to]

Release(w, to) ==
  /\ pc' = [pc EXCEPT ![w] = to]
  /\ cur' = [cur EXCEPT ![w] = 0]
  /\ att' = [att EXCEPT ![w] = 0]
  /\ seen' = [seen EXCEPT ![w] = {}]
  /\ UNCHANGED <<snap, cand>>

\* Mutant of IsStale: jobs without attempts left are not selected.
IsStaleWithAttemptsLeft(j) ==
  row[j].status = "running" /\ row[j].started = "stale" /\ row[j].attempt < MaxAttempts

IsStale(j) == row[j].status = "running" /\ row[j].started = "stale"

\* SELECT of requeue_stale_running: the ORM keeps attempt_count as read.
ReadStale(w) ==
  /\ Goto(w, "idle", "sweep")
  /\ snap' = [snap EXCEPT ![w] = [j \in Jobs |-> IF IsStale(j) THEN row[j].attempt ELSE 0]]
  /\ UNCHANGED <<dbVars, apiVars, cur, att, cand, seen, crashes>>

\* The row a sweep writes for job j it read with attempt_count a > 0.
SweptRow(r, a) ==
  IF a >= MaxAttempts THEN FailedRow(r) ELSE RequeuedRow(r)

Swept(w) ==
  [j \in Jobs |-> IF snap[w][j] = 0 THEN row[j] ELSE SweptRow(row[j], snap[w][j])]

\* One commit for all of them, WHERE id = ... only.  If it breaks the
\* single-active index the pass fails and is retried after the interval.
WriteStale(w) ==
  /\ pc[w] = "sweep"
  /\ IF SingleActive(Swept(w))
     THEN row' = Swept(w) /\ Goto(w, "sweep", "select")
     ELSE UNCHANGED row /\ Goto(w, "sweep", "idle")
  /\ snap' = [snap EXCEPT ![w] = NoSnap]
  /\ UNCHANGED <<hyps, apiVars, cur, att, cand, seen, crashes>>

Oldest(S) == {j \in S : Cardinality({k \in S : k < j}) < ClaimBatch}

SelectQueued(w) ==
  /\ Goto(w, "select", "claim")
  /\ cand' = [cand EXCEPT ![w] = Oldest({j \in Jobs : row[j].status = "queued"})]
  /\ UNCHANGED <<dbVars, apiVars, cur, att, snap, seen, crashes>>

\* Mutant of ClaimJob: the UPDATE without its status condition.
ClaimJobUnguarded(w) ==
  /\ pc[w] = "claim"
  /\ \E j \in cand[w] :
       /\ \A k \in cand[w] : j <= k
       /\ row' = [row EXCEPT ![j] = ClaimedRow(@)]
       /\ cur' = [cur EXCEPT ![w] = j]
       /\ pc' = [pc EXCEPT ![w] = "load"]
       /\ cand' = [cand EXCEPT ![w] = {}]
  /\ UNCHANGED <<hyps, apiVars, att, snap, seen, crashes>>

\* Conditional UPDATE queued -> running on the oldest remaining candidate.
ClaimJob(w) ==
  /\ pc[w] = "claim"
  /\ \E j \in cand[w] :
       /\ \A k \in cand[w] : j <= k
       /\ IF row[j].status = "queued"
          THEN /\ row' = [row EXCEPT ![j] = ClaimedRow(@)]
               /\ cur' = [cur EXCEPT ![w] = j]
               /\ pc' = [pc EXCEPT ![w] = "load"]
               /\ cand' = [cand EXCEPT ![w] = {}]
          ELSE /\ cand' = [cand EXCEPT ![w] = @ \ {j}]
               /\ UNCHANGED <<row, cur, pc>>
  /\ UNCHANGED <<hyps, apiVars, att, snap, seen, crashes>>

\* No candidate left: the pass ends and the loop sleeps.
EndPass(w) ==
  /\ cand[w] = {}
  /\ Goto(w, "claim", "idle")
  /\ UNCHANGED <<dbVars, apiVars, cur, att, snap, cand, seen, crashes>>

\* Fresh session: reload the claimed job, skip it if no longer running.
LoadJob(w) ==
  /\ pc[w] = "load"
  /\ IF row[cur[w]].status = "running"
     THEN /\ pc' = [pc EXCEPT ![w] = "clear"]
          /\ att' = [att EXCEPT ![w] = row[cur[w]].attempt]
          /\ UNCHANGED <<cur, snap, cand, seen>>
     ELSE Release(w, "select")
  /\ UNCHANGED <<dbVars, apiVars, crashes>>

-----------------------------------------------------------------------------
(* execute_claimed_job.                                                    *)

\* update_progress: an ORM write of stage and progress, WHERE id = ... only.
UpdateProgress(w, from, stage, to) ==
  /\ Goto(w, from, to)
  /\ row' = [row EXCEPT ![cur[w]].stage = stage]

\* Mutant of ClearArtifacts: a retry keeps the hypotheses of earlier attempts.
KeepArtifacts(w) ==
  /\ Goto(w, "clear", "retrieve")
  /\ UNCHANGED <<dbVars, apiVars, cur, att, snap, cand, seen, crashes>>

ClearArtifacts(w) ==
  /\ Goto(w, "clear", "retrieve")
  /\ hyps' = [hyps EXCEPT ![cur[w]] = {}]
  /\ UNCHANGED <<row, apiVars, cur, att, snap, cand, seen, crashes>>

\* The stages whose commit is followed by reads and provider calls only.
\* The ownership check after "validating_citations" is answered from the
\* session's identity map, where the job is still running: it never refuses.
Advance(w) ==
  /\ \/ UpdateProgress(w, "retrieve", "retrieving_evidence", "collect")
     \/ UpdateProgress(w, "collect", "building_timeline", "decide")
     \/ UpdateProgress(w, "decide", "generating_hypotheses", "generate")
     \/ UpdateProgress(w, "generate", "validating_citations", "validate")
     \/ UpdateProgress(w, "validate", "persisting", "persist")
  /\ UNCHANGED <<hyps, apiVars, cur, att, snap, cand, seen, crashes>>

\* complete_job; on a refused update the engine surfaces the current state.
CompleteJob(w) ==
  /\ row' = IF row[cur[w]].status = "running"
            THEN [row EXCEPT ![cur[w]] = CompletedRow(@, Exec(w))] ELSE row
  /\ Release(w, "select")

\* Nothing retrieved: an explicit empty result.
CompleteEmpty(w) ==
  /\ pc[w] = "decide"
  /\ CompleteJob(w)
  /\ UNCHANGED <<hyps, apiVars, crashes>>

\* LLM failure or unusable output: fail_job inside the except clause, whose
\* own refusal (409) escapes to the worker.
ProviderFails(w) ==
  /\ pc[w] = "generate"
  /\ FailIfRunning(cur[w])
  /\ IF row[cur[w]].status = "running"
     THEN Release(w, "select")
     ELSE Goto(w, "generate", "escaped") /\ UNCHANGED <<cur, att, snap, cand, seen>>
  /\ UNCHANGED <<hyps, apiVars, crashes>>

\* The database refuses fail_job inside the except clause.
HandlerFails(w) ==
  /\ Goto(w, "generate", "escaped")
  /\ UNCHANGED <<dbVars, apiVars, cur, att, snap, cand, seen, crashes>>

\* Validated drafts (possibly none) are inserted in one commit.
PersistHypotheses(w) ==
  /\ Goto(w, "persist", "report")
  /\ \E drafts \in {{}, {Exec(w)}} :
       /\ hyps' = [hyps EXCEPT ![cur[w]] = @ \cup drafts]
       /\ seen' = [seen EXCEPT ![w] = drafts]
  /\ UNCHANGED <<row, apiVars, cur, att, snap, cand, crashes>>

\* refresh() of an object whose row is gone raises.
Vanished(w) == ~(seen[w] \subseteq hyps[cur[w]])

ReportGrounding(w) ==
  /\ UpdateProgress(w, "report", "evaluating_groundedness", "assess")
  /\ ~Vanished(w)
  /\ UNCHANGED <<hyps, apiVars, cur, att, snap, cand, seen, crashes>>

\* Groundedness evaluation: load the job's hypotheses, whoever wrote them ...
LoadHypotheses(w) ==
  /\ Goto(w, "assess", "assessing")
  /\ seen' = [seen EXCEPT ![w] = hyps[cur[w]]]
  /\ UNCHANGED <<dbVars, apiVars, cur, att, snap, cand, crashes>>

\* ... and write the assessments back.
WriteAssessments(w) ==
  /\ Goto(w, "assessing", "complete")
  /\ ~Vanished(w)
  /\ UNCHANGED <<dbVars, apiVars, cur, att, snap, cand, seen, crashes>>

CompleteWithResults(w) ==
  /\ pc[w] = "complete"
  /\ ~Vanished(w)
  /\ CompleteJob(w)
  /\ UNCHANGED <<hyps, apiVars, crashes>>

\* Any other exception.  Necessary when a loaded hypothesis has vanished.
InternalError(w) ==
  /\ Executing(w)
  /\ pc[w] # "recover"
  /\ pc' = [pc EXCEPT ![w] = "recover"]
  /\ UNCHANGED <<dbVars, apiVars, cur, att, snap, cand, seen, crashes>>

\* Roll back, then fail the job if it is still running.
Recover(w) ==
  /\ pc[w] = "recover"
  /\ FailIfRunning(cur[w])
  /\ Release(w, "select")
  /\ UNCHANGED <<hyps, apiVars, crashes>>

\* The failure path fails too: the job stays running for a later sweep.
RecoverFails(w) ==
  /\ pc[w] = "recover"
  /\ Release(w, "select")
  /\ UNCHANGED <<dbVars, apiVars, crashes>>

\* An exception out of the engine: fail the job only when its attempts are
\* used up, and end the pass.
HandleEscaped(w) ==
  /\ pc[w] = "escaped"
  /\ IF row[cur[w]].attempt >= MaxAttempts
     THEN FailIfRunning(cur[w]) ELSE UNCHANGED row
  /\ Release(w, "idle")
  /\ UNCHANGED <<hyps, apiVars, crashes>>

-----------------------------------------------------------------------------
(* Environment.                                                            *)

\* started_at of a running job falls behind the stale cutoff.  Without
\* SlowExecution this happens only to jobs no live worker holds.
Age(j) ==
  /\ row[j].status = "running"
  /\ row[j].started = "recent"
  /\ SlowExecution \/ \A w \in Workers : cur[w] # j
  /\ row' = [row EXCEPT ![j].started = "stale"]
  /\ UNCHANGED <<hyps, apiVars, workerVars, crashes>>

\* A worker process dies; the restarted one begins a new pass.
Crash(w) ==
  /\ pc[w] # "idle"
  /\ crashes < MaxCrashes
  /\ crashes' = crashes + 1
  /\ pc' = [pc EXCEPT ![w] = "idle"]
  /\ cur' = [cur EXCEPT ![w] = 0]
  /\ att' = [att EXCEPT ![w] = 0]
  /\ snap' = [snap EXCEPT ![w] = NoSnap]
  /\ cand' = [cand EXCEPT ![w] = {}]
  /\ seen' = [seen EXCEPT ![w] = {}]
  /\ UNCHANGED <<dbVars, apiVars>>

-----------------------------------------------------------------------------

CreateStep(c) ==
  \/ ReadKey(c) \/ ReadActive(c) \/ InsertJob(c) \/ RereadKey(c) \/ RereadActive(c)

PassStep(w) ==
  \/ ReadStale(w) \/ WriteStale(w) \/ SelectQueued(w) \/ ClaimJob(w)
  \/ EndPass(w) \/ LoadJob(w) \/ HandleEscaped(w)

ExecuteStep(w) ==
  \/ ClearArtifacts(w) \/ Advance(w) \/ CompleteEmpty(w)
  \/ ProviderFails(w) \/ HandlerFails(w)
  \/ PersistHypotheses(w) \/ ReportGrounding(w)
  \/ LoadHypotheses(w) \/ WriteAssessments(w) \/ CompleteWithResults(w)
  \/ InternalError(w) \/ Recover(w) \/ RecoverFails(w)

Next ==
  \/ \E c \in Clients : RequestJob(c) \/ CreateStep(c)
  \/ \E j \in Jobs : CancelJob(j) \/ Age(j)
  \/ \E w \in Workers : PassStep(w) \/ ExecuteStep(w) \/ Crash(w)

Spec == Init /\ [][Next]_vars

\* The worker loop and the clock never stop; clients and cancellations owe nothing.
Fairness ==
  /\ \A w \in Workers : WF_vars(PassStep(w) \/ ExecuteStep(w))
  /\ \A j \in Jobs : WF_vars(Age(j))

FairSpec == Spec /\ Fairness

-----------------------------------------------------------------------------
(* Properties that hold for any number of workers.                         *)

\* At most one queued or running job per incident, although a sweep may put
\* a job back into the queue after another was created for its incident.
OneActivePerIncident == SingleActive(row)

\* A retried POST never creates a second job for the same idempotency key.
OneJobPerKey == SingleKey(row)

\* attempt_count passes max_attempts by at most one for each additional
\* worker: each may hold one sweep snapshot taken before the last attempt.
AttemptBound ==
  \A j \in Jobs : row[j].attempt <= MaxAttempts + Cardinality(Workers) - 1

\* create_job fails with HTTP 500 only when every job whose row refused its
\* INSERT has come to an end by then, and none of them carries the text key
\* the request was sent with: a winner that is still at work, or that belongs
\* to the same retried POST, is returned and never reported as an error.
LostRaceHasEnded ==
  [][\A c \in Clients :
       client[c].pc # "error" /\ client'[c].pc = "error" =>
         /\ client[c].met # {}
         /\ \A j \in client[c].met :
              /\ row[j].status \in Terminal
              /\ HasText(client[c].key) => row[j].key # client[c].key]_vars

-----------------------------------------------------------------------------
(* Properties of the documented deployment: exactly one worker replica.    *)

\* Whatever a worker is executing is still running, in the attempt the
\* worker loaded: no progress write, result or failure lands on a job that
\* was requeued, settled or claimed again meanwhile.
ExecutorOwnsJob ==
  \A w \in Workers : Executing(w) =>
    row[cur[w]].status = "running" /\ row[cur[w]].attempt = att[w]

\* Two workers never execute the same job at the same time.
NoDoubleExecution ==
  \A v, w \in Workers : Executing(v) /\ Executing(w) /\ cur[v] = cur[w] => v = w

\* A cancellation answered with 200 is final: the job never runs again.
CancelIsFinal ==
  \A j \in cancelled :
    row[j].status = "cancelled" /\ \A w \in Workers : cur[w] # j

\* What a completed job shows: the execution of its result_summary and the
\* executions its hypotheses come from.
Shown(j) ==
  IF row[j].status = "completed" THEN {e[2] : e \in hyps[j] \cup {row[j].result}} ELSE {}

Lifecycle == INSTANCE JobLifecycle WITH
  phase <- [j \in Jobs |-> row[j].status],
  tries <- [j \in Jobs |-> row[j].attempt],
  shown <- [j \in Jobs |-> Shown(j)]

\* The service with one worker implements JobLifecycle.
ImplementsLifecycle == Lifecycle!LifecycleSpec

\* With workers that keep polling, every queued job comes to an end.
EveryJobSettles ==
  \A j \in Jobs : row[j].status = "queued" ~> row[j].status \in Terminal
=============================================================================
