----------------------- MODULE InvestigationJobs_proofs -----------------------
(***************************************************************************)
(* Machine-checked facts about InvestigationJobs, for every number of      *)
(* workers, jobs, clients, attempts and crashes.                           *)
(***************************************************************************)
EXTENDS InvestigationJobs, FiniteSetTheorems, TLAPS

-----------------------------------------------------------------------------
(* Type correctness.                                                       *)

\* A worker holds a job number exactly while it loads, executes or gives up
\* on a claimed job.
BusyPcs == ExecutionPcs \cup {"load", "escaped"}
BusyHasJob == \A w \in Workers : pc[w] \in BusyPcs => cur[w] \in Jobs

TypeInv == TypeOK /\ BusyHasJob

LEMMA InitTypeInv == Init => TypeInv
<1> SUFFICES ASSUME Init PROVE TypeInv
  OBVIOUS
<1> USE BoundsAssumption
<1>1. AbsentRow \in Row
  BY DEF AbsentRow, Row, Active, Terminal, Stages
<1>2. TypeOK
  BY <1>1 DEF Init, TypeOK, IdleRequest, Request, WorkerPcs, NoSnap
<1>3. BusyHasJob
  BY DEF Init, BusyHasJob, BusyPcs, ExecutionPcs
<1> QED BY <1>2, <1>3 DEF TypeInv

\* The conditional UPDATEs and the sweep write rows of the right type.
LEMMA RowUpdates ==
  ASSUME NEW r \in Row
  PROVE  /\ ClaimedRow(r) \in Row
         /\ FailedRow(r) \in Row
         /\ RequeuedRow(r) \in Row
         /\ CancelledRow(r) \in Row
         /\ [r EXCEPT !.started = "stale"] \in Row
         /\ \A e \in Executions : CompletedRow(r, e) \in Row
         /\ \A a \in Nat : SweptRow(r, a) \in Row
         /\ \A s \in Stages : [r EXCEPT !.stage = s] \in Row
<1> USE DEF Row, Active, Terminal
<1> {"queued", "running", "completed", "failed", "cancelled"} \subseteq Stages
  BY DEF Stages
<1>1. ClaimedRow(r) \in Row
  <2>1. r.attempt + 1 \in Nat
    OBVIOUS
  <2> QED BY <2>1 DEF ClaimedRow
<1>2. \A e \in Executions : CompletedRow(r, e) \in Row
  BY DEF CompletedRow
<1>3. FailedRow(r) \in Row
  BY DEF FailedRow
<1>4. RequeuedRow(r) \in Row
  BY DEF RequeuedRow
<1>5. CancelledRow(r) \in Row
  BY DEF CancelledRow
<1>6. \A a \in Nat : SweptRow(r, a) \in Row
  BY <1>3, <1>4 DEF SweptRow
<1>7. [r EXCEPT !.started = "stale"] \in Row
  OBVIOUS
<1>8. \A s \in Stages : [r EXCEPT !.stage = s] \in Row
  OBVIOUS
<1> HIDE DEF Row, Active, Terminal
<1> QED BY <1>1, <1>2, <1>3, <1>4, <1>5, <1>6, <1>7, <1>8

LEMMA MovedRequest ==
  ASSUME NEW q \in Request, NEW to \in {"error"} \cup ReadPcs, NEW m \in SUBSET Jobs
  PROVE  [q EXCEPT !.pc = to] \in Request /\ [q EXCEPT !.pc = to, !.met = m] \in Request
<1>1. [q EXCEPT !.pc = to] \in Request
  BY DEF Request
<1>2. [q EXCEPT !.pc = to, !.met = m] = [[q EXCEPT !.pc = to] EXCEPT !.met = m]
  BY DEF Request
<1>3. \A p \in Request : [p EXCEPT !.met = m] \in Request
  BY DEF Request
<1> QED BY <1>1, <1>2, <1>3

LEMMA CreateTypeInv ==
  ASSUME TypeInv, NEW c \in Clients, RequestJob(c) \/ CreateStep(c)
  PROVE  TypeInv'
<1> USE DEF TypeInv, TypeOK, BusyHasJob, dbVars, apiVars, workerVars
<1>1. ASSUME client' \in [Clients -> Request], UNCHANGED <<dbVars, cancelled, workerVars, crashes>>
      PROVE  TypeInv'
  BY <1>1
<1>2. ASSUME NEW from, NEW to \in {"error"} \cup ReadPcs, Step(c, from, to)
      PROVE  client' \in [Clients -> Request]
  <2>1. [client[c] EXCEPT !.pc = to] \in Request
    BY MovedRequest
  <2> QED BY <1>2, <2>1 DEF Step
<1>3. ASSUME NEW from, Answer(c, from) PROVE client' \in [Clients -> Request]
  BY <1>3 DEF Answer, IdleRequest, Request
<1>4. CASE RequestJob(c)
  <2>1. client' \in [Clients -> Request]
    BY <1>4 DEF RequestJob, Request, ReadPcs
  <2> QED BY <1>1, <1>4, <2>1 DEF RequestJob
<1>5. CASE ReadKey(c)
  BY <1>1, <1>2, <1>3, <1>5 DEF ReadKey, ReadPcs
<1>6. CASE ReadActive(c)
  BY <1>1, <1>2, <1>3, <1>6 DEF ReadActive, ReadPcs
<1>7. CASE InsertJob(c)
  <2>1. NewRow(c) \in Row
    BY DEF NewRow, AbsentRow, Row, Request, Active, Terminal, Stages
  <2>2. client' \in [Clients -> Request]
    <3>1. CASE \E from : Answer(c, from)
      BY <1>3, <3>1
    <3>2. CASE \E to \in ReadPcs :
                 client' = [client EXCEPT ![c].pc = to, ![c].met = Refusing(c)]
      <4>1. PICK to \in ReadPcs :
              client' = [client EXCEPT ![c] = [@ EXCEPT !.pc = to, !.met = Refusing(c)]]
        BY <3>2
      <4>2. Refusing(c) \subseteq Jobs
        BY DEF Refusing
      <4>3. [client[c] EXCEPT !.pc = to, !.met = Refusing(c)] \in Request
        BY <4>2, MovedRequest
      <4> QED BY <4>1, <4>3
    <3> QED BY <1>7, <3>1, <3>2 DEF InsertJob, ReadPcs
  <2>3. row' \in [Jobs -> Row]
    BY <1>7, <2>1 DEF InsertJob
  <2> QED BY <1>7, <2>2, <2>3 DEF InsertJob
<1>8. CASE RereadKey(c)
  BY <1>1, <1>2, <1>3, <1>8 DEF RereadKey, ReadPcs
<1>9. CASE RereadActive(c)
  BY <1>1, <1>2, <1>3, <1>9 DEF RereadActive, ReadPcs
<1> QED BY <1>4, <1>5, <1>6, <1>7, <1>8, <1>9 DEF CreateStep

\* The part of TypeOK about the worker's own state.
WorkerType ==
  /\ pc \in [Workers -> WorkerPcs]
  /\ cur \in [Workers -> Jobs \cup {0}]
  /\ att \in [Workers -> Nat]
  /\ snap \in [Workers -> [Jobs -> Nat]]
  /\ cand \in [Workers -> SUBSET Jobs]
  /\ seen \in [Workers -> SUBSET Executions]

LEMMA ReleaseType ==
  ASSUME WorkerType, BusyHasJob, NEW w \in Workers, NEW to \in {"idle", "select"},
         Release(w, to)
  PROVE  WorkerType' /\ BusyHasJob'
BY DEF WorkerType, BusyHasJob, Release, BusyPcs, ExecutionPcs, WorkerPcs

LEMMA GotoType ==
  ASSUME WorkerType, BusyHasJob, NEW w \in Workers, NEW from, NEW to \in WorkerPcs,
         Goto(w, from, to), to \in BusyPcs => from \in BusyPcs, UNCHANGED cur
  PROVE  pc' \in [Workers -> WorkerPcs] /\ BusyHasJob'
BY DEF WorkerType, BusyHasJob, Goto

LEMMA EnvironmentTypeInv ==
  ASSUME TypeInv,
         \/ \E j \in Jobs : CancelJob(j) \/ Age(j)
         \/ \E w \in Workers : Crash(w)
  PROVE  TypeInv'
<1> USE DEF TypeInv, TypeOK, BusyHasJob, dbVars, apiVars, workerVars
<1>1. ASSUME NEW j \in Jobs, CancelJob(j) PROVE TypeInv'
  <2>1. CancelledRow(row[j]) \in Row
    BY RowUpdates
  <2> QED BY <1>1, <2>1 DEF CancelJob
<1>2. ASSUME NEW j \in Jobs, Age(j) PROVE TypeInv'
  <2>1. [row[j] EXCEPT !.started = "stale"] \in Row
    BY RowUpdates
  <2> QED BY <1>2, <2>1 DEF Age
<1>3. ASSUME NEW w \in Workers, Crash(w) PROVE TypeInv'
  <2>1. crashes' \in 0..MaxCrashes
    BY <1>3, BoundsAssumption DEF Crash
  <2>2. NoSnap \in [Jobs -> Nat] /\ "idle" \in WorkerPcs /\ "idle" \notin BusyPcs
    BY DEF NoSnap, WorkerPcs, BusyPcs, ExecutionPcs
  <2> QED BY <1>3, <2>1, <2>2 DEF Crash
<1> QED BY <1>1, <1>2, <1>3

LEMMA PassTypeInv ==
  ASSUME TypeInv, NEW w \in Workers, PassStep(w)
  PROVE  TypeInv'
<1> USE DEF dbVars, apiVars
<1>1. TypeOK /\ BusyHasJob /\ WorkerType
  BY DEF TypeInv, TypeOK, WorkerType
<1>2. {"sweep", "select", "claim", "idle"} \subseteq WorkerPcs \ BusyPcs
  BY DEF WorkerPcs, BusyPcs, ExecutionPcs
<1>3. "load" \in BusyPcs /\ "clear" \in BusyPcs /\ "escaped" \in BusyPcs
      /\ BusyPcs \subseteq WorkerPcs
  BY DEF WorkerPcs, BusyPcs, ExecutionPcs
<1>4. ASSUME UNCHANGED <<hyps, client, cancelled, crashes>>, row' \in [Jobs -> Row],
             WorkerType', BusyHasJob'
      PROVE  TypeInv'
  BY <1>1, <1>4 DEF TypeInv, TypeOK, WorkerType
<1>5. CASE ReadStale(w)
  <2>1. [j \in Jobs |-> IF IsStale(j) THEN row[j].attempt ELSE 0] \in [Jobs -> Nat]
    BY <1>1 DEF TypeOK, Row
  <2>2. pc' \in [Workers -> WorkerPcs] /\ BusyHasJob'
    BY <1>1, <1>2, <1>5, GotoType DEF ReadStale
  <2>3. WorkerType'
    BY <1>1, <1>5, <2>1, <2>2 DEF ReadStale, WorkerType
  <2> QED BY <1>1, <1>4, <1>5, <2>2, <2>3 DEF ReadStale, TypeOK
<1>6. CASE WriteStale(w)
  <2>1. Swept(w) \in [Jobs -> Row]
    <3> SUFFICES ASSUME NEW j \in Jobs
                 PROVE  (IF snap[w][j] = 0 THEN row[j] ELSE SweptRow(row[j], snap[w][j])) \in Row
      BY DEF Swept
    <3>1. row[j] \in Row
      BY <1>1 DEF TypeOK
    <3>2. SweptRow(row[j], snap[w][j]) \in Row
      BY <1>1, <3>1, RowUpdates DEF WorkerType
    <3> QED BY <3>1, <3>2
  <2>2. pc' \in [Workers -> WorkerPcs] /\ BusyHasJob'
    BY <1>1, <1>2, <1>6, GotoType DEF WriteStale
  <2>3. WorkerType'
    BY <1>1, <1>6, <2>2 DEF WriteStale, WorkerType, NoSnap
  <2>4. row' \in [Jobs -> Row]
    BY <1>1, <1>6, <2>1 DEF WriteStale, TypeOK
  <2> QED BY <1>4, <1>6, <2>2, <2>3, <2>4 DEF WriteStale
<1>7. CASE SelectQueued(w)
  <2>1. Oldest({j \in Jobs : row[j].status = "queued"}) \subseteq Jobs
    BY DEF Oldest
  <2>2. pc' \in [Workers -> WorkerPcs] /\ BusyHasJob'
    BY <1>1, <1>2, <1>7, GotoType DEF SelectQueued
  <2>3. WorkerType'
    BY <1>1, <1>7, <2>1, <2>2 DEF SelectQueued, WorkerType
  <2> QED BY <1>1, <1>4, <1>7, <2>2, <2>3 DEF SelectQueued, TypeOK
<1>8. CASE ClaimJob(w)
  <2>1. PICK j \in cand[w] :
          IF row[j].status = "queued"
          THEN /\ row' = [row EXCEPT ![j] = ClaimedRow(@)]
               /\ cur' = [cur EXCEPT ![w] = j]
               /\ pc' = [pc EXCEPT ![w] = "load"]
               /\ cand' = [cand EXCEPT ![w] = {}]
          ELSE /\ cand' = [cand EXCEPT ![w] = @ \ {j}]
               /\ UNCHANGED <<row, cur, pc>>
    BY <1>8 DEF ClaimJob
  <2>2. j \in Jobs /\ row[j] \in Row /\ ClaimedRow(row[j]) \in Row
    BY <1>1, <2>1, RowUpdates DEF TypeOK
  <2>3. row' \in [Jobs -> Row]
    BY <1>1, <2>1, <2>2 DEF TypeOK
  <2>4. cand' \in [Workers -> SUBSET Jobs]
    BY <1>1, <2>1 DEF WorkerType
  <2>5. pc' \in [Workers -> WorkerPcs] /\ cur' \in [Workers -> Jobs \cup {0}]
    BY <1>1, <1>3, <2>1, <2>2 DEF WorkerType
  <2>6. WorkerType'
    BY <1>1, <1>8, <2>4, <2>5 DEF WorkerType, ClaimJob
  <2>7. BusyHasJob'
    BY <1>1, <2>1, <2>2 DEF WorkerType, BusyHasJob
  <2> QED BY <1>4, <1>8, <2>3, <2>6, <2>7 DEF ClaimJob
<1>9. CASE EndPass(w)
  <2>1. pc' \in [Workers -> WorkerPcs] /\ BusyHasJob'
    BY <1>1, <1>2, <1>9, GotoType DEF EndPass
  <2>2. WorkerType'
    BY <1>1, <1>9, <2>1 DEF EndPass, WorkerType
  <2> QED BY <1>1, <1>4, <1>9, <2>1, <2>2 DEF EndPass, TypeOK
<1>10. CASE LoadJob(w)
  <2>1. cur[w] \in Jobs
    BY <1>1, <1>3, <1>10 DEF LoadJob, BusyHasJob
  <2>2. WorkerType' /\ BusyHasJob'
    <3>1. CASE row[cur[w]].status = "running"
      <4>1. row[cur[w]].attempt \in Nat
        BY <1>1, <2>1 DEF TypeOK, Row
      <4> QED BY <1>1, <1>3, <1>10, <2>1, <3>1, <4>1 DEF LoadJob, WorkerType, BusyHasJob
    <3>2. CASE row[cur[w]].status # "running"
      BY <1>1, <1>10, <3>2, ReleaseType DEF LoadJob
    <3> QED BY <3>1, <3>2
  <2> QED BY <1>1, <1>4, <1>10, <2>2 DEF LoadJob, TypeOK
<1>11. CASE HandleEscaped(w)
  <2>1. WorkerType' /\ BusyHasJob'
    BY <1>1, <1>11, ReleaseType DEF HandleEscaped
  <2>2. row' \in [Jobs -> Row]
    <3>1. \A j \in Jobs : FailedRow(row[j]) \in Row
      BY <1>1, RowUpdates DEF TypeOK
    <3> QED BY <1>1, <1>11, <3>1 DEF HandleEscaped, FailIfRunning, TypeOK
  <2> QED BY <1>4, <1>11, <2>1, <2>2 DEF HandleEscaped
<1> QED BY <1>5, <1>6, <1>7, <1>8, <1>9, <1>10, <1>11 DEF PassStep

LEMMA ExecuteTypeInv ==
  ASSUME TypeInv, NEW w \in Workers, ExecuteStep(w)
  PROVE  TypeInv'
<1> USE DEF dbVars, apiVars
<1>1. TypeOK /\ BusyHasJob /\ WorkerType
  BY DEF TypeInv, TypeOK, WorkerType
<1>2. ExecutionPcs \subseteq BusyPcs /\ BusyPcs \subseteq WorkerPcs
  BY DEF WorkerPcs, BusyPcs
<1>3. Exec(w) \in Executions
  BY <1>1 DEF Exec, Executions, WorkerType
<1>4. pc[w] \in BusyPcs => cur[w] \in Jobs /\ row[cur[w]] \in Row /\ hyps[cur[w]] \in SUBSET Executions
  BY <1>1 DEF BusyHasJob, TypeOK
<1>5. ASSUME UNCHANGED <<client, cancelled, crashes>>, row' \in [Jobs -> Row],
             hyps' \in [Jobs -> SUBSET Executions], WorkerType', BusyHasJob'
      PROVE  TypeInv'
  BY <1>1, <1>5 DEF TypeInv, TypeOK, WorkerType
<1>6. ASSUME NEW from \in ExecutionPcs, NEW to \in WorkerPcs, Goto(w, from, to),
             UNCHANGED <<cur, att, snap, cand>>, seen' \in [Workers -> SUBSET Executions]
      PROVE  WorkerType' /\ BusyHasJob'
  BY <1>1, <1>2, <1>6, GotoType DEF WorkerType
<1>7. ASSUME UNCHANGED row \/ FailIfRunning(cur[w]) PROVE row' \in [Jobs -> Row]
  <2>1. \A j \in Jobs : FailedRow(row[j]) \in Row
    BY <1>1, RowUpdates DEF TypeOK
  <2> QED BY SMTT(30), <1>1, <1>7, <2>1 DEF FailIfRunning, TypeOK
<1>8. ASSUME NEW from \in ExecutionPcs, NEW to \in WorkerPcs, NEW s \in Stages,
             UpdateProgress(w, from, s, to),
             UNCHANGED <<hyps, client, cancelled, cur, att, snap, cand, seen, crashes>>
      PROVE  TypeInv'
  <2>1. row' \in [Jobs -> Row]
    BY <1>1, <1>8, RowUpdates DEF UpdateProgress, TypeOK
  <2>2. WorkerType' /\ BusyHasJob'
    BY <1>1, <1>6, <1>8 DEF UpdateProgress, WorkerType
  <2> QED BY <1>1, <1>5, <1>8, <2>1, <2>2 DEF TypeOK
<1>9. ASSUME CompleteJob(w), UNCHANGED <<hyps, client, cancelled, crashes>> PROVE TypeInv'
  <2>1. \A j \in Jobs : CompletedRow(row[j], Exec(w)) \in Row
    BY <1>1, <1>3, RowUpdates DEF TypeOK
  <2>2. row' \in [Jobs -> Row]
    BY <1>1, <1>9, <2>1 DEF CompleteJob, TypeOK
  <2>3. WorkerType' /\ BusyHasJob'
    BY <1>1, <1>9, ReleaseType DEF CompleteJob
  <2> QED BY <1>1, <1>5, <1>9, <2>2, <2>3 DEF TypeOK
<1>10. CASE ClearArtifacts(w)
  <2>1. WorkerType' /\ BusyHasJob'
    BY <1>1, <1>6, <1>10 DEF ClearArtifacts, WorkerType, ExecutionPcs, WorkerPcs
  <2>2. hyps' \in [Jobs -> SUBSET Executions]
    BY <1>1, <1>10 DEF ClearArtifacts, TypeOK
  <2> QED BY <1>1, <1>5, <1>10, <2>1, <2>2 DEF ClearArtifacts, TypeOK
<1>11. CASE Advance(w)
  BY <1>8, <1>11 DEF Advance, ExecutionPcs, WorkerPcs, Stages
<1>12. CASE CompleteEmpty(w)
  BY <1>9, <1>12 DEF CompleteEmpty
<1>13. CASE ProviderFails(w)
  <2>1. WorkerType' /\ BusyHasJob'
    <3>1. CASE row[cur[w]].status = "running"
      BY <1>1, <1>13, <3>1, ReleaseType DEF ProviderFails
    <3>2. CASE row[cur[w]].status # "running"
      BY <1>1, <1>6, <1>13, <3>2 DEF ProviderFails, WorkerType, ExecutionPcs, WorkerPcs
    <3> QED BY <3>1, <3>2
  <2>2. row' \in [Jobs -> Row]
    BY <1>7, <1>13 DEF ProviderFails
  <2> QED BY <1>1, <1>5, <1>13, <2>1, <2>2 DEF ProviderFails, TypeOK
<1>14. CASE HandlerFails(w)
  <2>1. WorkerType' /\ BusyHasJob'
    BY <1>1, <1>6, <1>14 DEF HandlerFails, WorkerType, ExecutionPcs, WorkerPcs
  <2> QED BY <1>1, <1>5, <1>14, <2>1 DEF HandlerFails, TypeOK
<1>15. CASE PersistHypotheses(w)
  <2>1. PICK drafts \in {{}, {Exec(w)}} :
          /\ hyps' = [hyps EXCEPT ![cur[w]] = @ \cup drafts]
          /\ seen' = [seen EXCEPT ![w] = drafts]
    BY <1>15 DEF PersistHypotheses
  <2>2. drafts \in SUBSET Executions
    BY <1>3
  <2>3. hyps' \in [Jobs -> SUBSET Executions]
    BY <1>1, <2>1, <2>2 DEF TypeOK
  <2>4. seen' \in [Workers -> SUBSET Executions]
    BY <1>1, <2>1, <2>2 DEF WorkerType
  <2>5. WorkerType' /\ BusyHasJob'
    BY <1>6, <1>15, <2>4 DEF PersistHypotheses, ExecutionPcs, WorkerPcs
  <2> QED BY <1>1, <1>5, <1>15, <2>3, <2>5 DEF PersistHypotheses, TypeOK
<1>16. CASE ReportGrounding(w)
  BY <1>8, <1>16 DEF ReportGrounding, ExecutionPcs, WorkerPcs, Stages
<1>17. CASE LoadHypotheses(w)
  <2>1. hyps[cur[w]] \in SUBSET Executions
    BY <1>2, <1>4, <1>17 DEF LoadHypotheses, Goto, ExecutionPcs
  <2>2. seen' \in [Workers -> SUBSET Executions]
    BY <1>1, <1>17, <2>1 DEF LoadHypotheses, WorkerType
  <2>3. WorkerType' /\ BusyHasJob'
    BY <1>6, <1>17, <2>2 DEF LoadHypotheses, ExecutionPcs, WorkerPcs
  <2> QED BY <1>1, <1>5, <1>17, <2>3 DEF LoadHypotheses, TypeOK
<1>18. CASE WriteAssessments(w)
  <2>1. WorkerType' /\ BusyHasJob'
    BY <1>1, <1>6, <1>18 DEF WriteAssessments, WorkerType, ExecutionPcs, WorkerPcs
  <2> QED BY <1>1, <1>5, <1>18, <2>1 DEF WriteAssessments, TypeOK
<1>19. CASE CompleteWithResults(w)
  BY <1>9, <1>19 DEF CompleteWithResults
<1>20. CASE InternalError(w)
  <2>1. WorkerType'
    BY <1>1, <1>20 DEF InternalError, WorkerType, ExecutionPcs, WorkerPcs
  <2>2. BusyHasJob'
    BY <1>1, <1>2, <1>4, <1>20 DEF InternalError, Executing, BusyHasJob, WorkerType
  <2> QED BY <1>1, <1>5, <1>20, <2>1, <2>2 DEF InternalError, TypeOK
<1>21. CASE Recover(w)
  BY <1>1, <1>5, <1>7, <1>21, ReleaseType DEF Recover, TypeOK
<1>22. CASE RecoverFails(w)
  BY <1>1, <1>5, <1>22, ReleaseType DEF RecoverFails, TypeOK
<1> QED BY <1>10, <1>11, <1>12, <1>13, <1>14, <1>15, <1>16, <1>17, <1>18, <1>19, <1>20,
           <1>21, <1>22 DEF ExecuteStep

LEMMA NextTypeInv == TypeInv /\ [Next]_vars => TypeInv'
<1>1. CASE UNCHANGED vars
  BY <1>1 DEF TypeInv, TypeOK, BusyHasJob, vars
<1>2. CASE Next
  BY <1>2, CreateTypeInv, EnvironmentTypeInv, PassTypeInv, ExecuteTypeInv DEF Next
<1> QED BY <1>1, <1>2

\* Every reachable state is well typed, and a busy worker has a job.
THEOREM TypeCorrect == Spec => []TypeInv
BY InitTypeInv, NextTypeInv, PTL DEF Spec

-----------------------------------------------------------------------------
(* What a step can do to the table.  All steps but the insertion of a job, *)
(* the sweep and the claim leave identity and attempts of every row alone  *)
(* and put nothing back into the queue.                                    *)

QuietRows ==
  \A j \in Jobs : /\ row'[j].incident = row[j].incident
                  /\ row'[j].key = row[j].key
                  /\ row'[j].attempt = row[j].attempt
                  /\ row'[j].status \in Active => row'[j].status = row[j].status

LEMMA UnchangedRowsQuiet == ASSUME UNCHANGED row PROVE QuietRows
BY DEF QuietRows

LEMMA FailIfRunningQuiet ==
  ASSUME TypeOK, NEW j, FailIfRunning(j) PROVE QuietRows
BY DEF QuietRows, TypeOK, Row, FailIfRunning, FailedRow, Active

LEMMA UpdateProgressQuiet ==
  ASSUME TypeOK, NEW w, NEW from, NEW stage, NEW to, UpdateProgress(w, from, stage, to)
  PROVE  QuietRows
BY DEF QuietRows, TypeOK, Row, UpdateProgress

LEMMA CompleteJobQuiet ==
  ASSUME TypeOK, NEW w, CompleteJob(w) PROVE QuietRows
BY DEF QuietRows, TypeOK, Row, CompleteJob, CompletedRow, Active

LEMMA QuietSteps ==
  ASSUME TypeOK,
         \/ UNCHANGED vars
         \/ \E c \in Clients : \/ RequestJob(c) \/ ReadKey(c) \/ ReadActive(c)
                               \/ RereadKey(c) \/ RereadActive(c)
         \/ \E j \in Jobs : CancelJob(j) \/ Age(j)
         \/ \E w \in Workers :
              \/ SelectQueued(w) \/ EndPass(w) \/ LoadJob(w) \/ HandleEscaped(w) \/ ExecuteStep(w)
  PROVE  QuietRows /\ UNCHANGED snap
<1> USE DEF dbVars, workerVars
<1>1. CASE UNCHANGED vars
  BY <1>1, UnchangedRowsQuiet DEF vars
<1>2. ASSUME NEW c \in Clients,
             RequestJob(c) \/ ReadKey(c) \/ ReadActive(c) \/ RereadKey(c) \/ RereadActive(c)
      PROVE  QuietRows /\ UNCHANGED snap
  BY <1>2, UnchangedRowsQuiet DEF RequestJob, ReadKey, ReadActive, RereadKey, RereadActive
<1>3. ASSUME NEW j \in Jobs, CancelJob(j) PROVE QuietRows /\ UNCHANGED snap
  BY <1>3 DEF QuietRows, TypeOK, Row, CancelJob, CancelledRow, Active
<1>4. ASSUME NEW j \in Jobs, Age(j) PROVE QuietRows /\ UNCHANGED snap
  BY <1>4 DEF QuietRows, TypeOK, Row, Age
<1>5. ASSUME NEW w \in Workers, SelectQueued(w) \/ EndPass(w) \/ LoadJob(w) \/ HandleEscaped(w)
      PROVE  QuietRows /\ UNCHANGED snap
  <2>1. CASE SelectQueued(w) \/ EndPass(w)
    BY <2>1, UnchangedRowsQuiet DEF SelectQueued, EndPass
  <2>2. CASE LoadJob(w)
    BY <2>2, UnchangedRowsQuiet DEF LoadJob, Release
  <2>3. CASE HandleEscaped(w)
    BY <2>3, UnchangedRowsQuiet, FailIfRunningQuiet DEF HandleEscaped, Release
  <2> QED BY <1>5, <2>1, <2>2, <2>3
<1>6. ASSUME NEW w \in Workers, ExecuteStep(w) PROVE QuietRows /\ UNCHANGED snap
  <2>1. CASE ClearArtifacts(w) \/ HandlerFails(w) \/ PersistHypotheses(w) \/ LoadHypotheses(w)
             \/ WriteAssessments(w) \/ InternalError(w) \/ RecoverFails(w)
    BY <2>1, UnchangedRowsQuiet DEF ClearArtifacts, HandlerFails, PersistHypotheses,
       LoadHypotheses, WriteAssessments, InternalError, RecoverFails, Release
  <2>2. CASE Advance(w) \/ ReportGrounding(w)
    BY <2>2, UpdateProgressQuiet DEF Advance, ReportGrounding
  <2>3. CASE CompleteEmpty(w) \/ CompleteWithResults(w)
    BY <2>3, CompleteJobQuiet DEF CompleteEmpty, CompleteWithResults, CompleteJob, Release
  <2>4. CASE ProviderFails(w)
    BY <2>4, FailIfRunningQuiet DEF ProviderFails, Release
  <2>5. CASE Recover(w)
    BY <2>5, FailIfRunningQuiet DEF Recover, Release
  <2> QED BY <1>6, <2>1, <2>2, <2>3, <2>4, <2>5 DEF ExecuteStep
<1> QED BY <1>1, <1>2, <1>3, <1>4, <1>5, <1>6

\* The steps QuietSteps leaves.
LEMMA StepCases ==
  ASSUME TypeOK, [Next]_vars
  PROVE  \/ QuietRows /\ UNCHANGED snap
         \/ \E c \in Clients : InsertJob(c)
         \/ \E w \in Workers : ReadStale(w) \/ WriteStale(w) \/ ClaimJob(w) \/ Crash(w)
BY QuietSteps DEF Next, CreateStep, PassStep

-----------------------------------------------------------------------------
(* The unique indexes.                                                     *)

\* A sweep writes no key, no incident and no attempt_count.
LEMMA SweptIdentity ==
  ASSUME TypeOK, NEW w \in Workers, WriteStale(w), NEW j \in Jobs
  PROVE  /\ row'[j].incident = row[j].incident
         /\ row'[j].key = row[j].key
         /\ row'[j].attempt = row[j].attempt
<1>1. SweptRow(row[j], snap[w][j]).incident = row[j].incident
      /\ SweptRow(row[j], snap[w][j]).key = row[j].key
      /\ SweptRow(row[j], snap[w][j]).attempt = row[j].attempt
  BY DEF SweptRow, FailedRow, RequeuedRow, TypeOK, Row
<1> QED BY <1>1 DEF WriteStale, Swept

LEMMA ClaimKeepsIdentity ==
  ASSUME TypeOK, NEW w \in Workers, ClaimJob(w), NEW j \in Jobs
  PROVE  /\ row'[j].incident = row[j].incident
         /\ row'[j].key = row[j].key
         /\ row'[j].status \in Active => row[j].status \in Active
<1>1. ASSUME NEW k \in Jobs, row[k].status = "queued", row' = [row EXCEPT ![k] = ClaimedRow(@)]
      PROVE  /\ row'[j].incident = row[j].incident
             /\ row'[j].key = row[j].key
             /\ row'[j].status \in Active => row[j].status \in Active
  BY <1>1 DEF ClaimedRow, TypeOK, Row, Active
<1>2. UNCHANGED row \/ \E k \in Jobs : /\ row[k].status = "queued"
                                      /\ row' = [row EXCEPT ![k] = ClaimedRow(@)]
  BY DEF ClaimJob, TypeOK
<1> QED BY <1>1, <1>2

\* However requests, sweeps and cancellations interleave, an incident never
\* has two active jobs and an idempotency key never names two jobs.
THEOREM UniqueJobs == Spec => [](OneActivePerIncident /\ OneJobPerKey)
<1> DEFINE Inv == OneActivePerIncident /\ OneJobPerKey
<1> USE DEF OneActivePerIncident, OneJobPerKey, SingleActive, SingleKey
<1>1. Init => Inv
  BY DEF Init, AbsentRow, Active
<1>2. ASSUME TypeInv, Inv, [Next]_vars PROVE Inv'
  <2> TypeOK
    BY <1>2 DEF TypeInv
  <2>1. CASE QuietRows
    BY <1>2, <2>1 DEF QuietRows
  <2>2. ASSUME NEW c \in Clients, InsertJob(c) PROVE Inv'
    <3>1. UNCHANGED row \/ (SingleActive(row') /\ SingleKey(row'))
      BY ZenonT(30), <2>2 DEF InsertJob
    <3> QED BY <1>2, <3>1
  <2>3. ASSUME NEW w \in Workers, WriteStale(w) PROVE Inv'
    <3>1. OneActivePerIncident'
      BY <1>2, <2>3 DEF WriteStale
    <3>2. OneJobPerKey'
      BY <1>2, <2>3, SweptIdentity
    <3> QED BY <3>1, <3>2
  <2>4. ASSUME NEW w \in Workers, ClaimJob(w) PROVE Inv'
    BY <1>2, <2>4, ClaimKeepsIdentity
  <2>5. ASSUME NEW w \in Workers, ReadStale(w) \/ Crash(w) PROVE Inv'
    BY <1>2, <2>5 DEF ReadStale, Crash, dbVars
  <2> QED BY <1>2, <2>1, <2>2, <2>3, <2>4, <2>5, StepCases
<1> QED BY <1>1, <1>2, TypeCorrect, PTL DEF Spec

-----------------------------------------------------------------------------
(* The bound on attempts.  A worker whose sweep read job j before its last *)
(* allowed attempt can still put j back into the queue: it holds a token.  *)
(* From the last allowed attempt on, each claim is paid for by a token     *)
(* handed in earlier, and no new token is issued.                          *)

Tokens(j)  == {w \in Workers : snap[w][j] # 0 /\ snap[w][j] < MaxAttempts}
Pending(j) == IF row[j].status = "queued" THEN 1 ELSE 0

SnapInSweep == \A w \in Workers : pc[w] # "sweep" => snap[w] = NoSnap

TokenBound ==
  \A j \in Jobs : row[j].attempt >= MaxAttempts =>
    row[j].attempt + Cardinality(Tokens(j)) + Pending(j)
      <= MaxAttempts + Cardinality(Workers) - 1

AttemptInv == TypeInv /\ SnapInSweep /\ TokenBound

LEMMA WorkerCount == Cardinality(Workers) \in Nat \ {0}
BY WorkersAssumption, FS_CardinalityType, FS_EmptySet

LEMMA TokensFinite ==
  ASSUME NEW j
  PROVE  IsFiniteSet(Tokens(j)) /\ Cardinality(Tokens(j)) \in Nat
BY WorkersAssumption, FS_Subset, FS_CardinalityType DEF Tokens

\* Fewer tokens, no new entry in the queue: the bound stays.
LEMMA FewerTokens ==
  ASSUME TypeOK, TokenBound, NEW j \in Jobs,
         row'[j].attempt = row[j].attempt,
         row'[j].status = "queued" => row[j].status = "queued",
         row[j].attempt >= MaxAttempts => Tokens(j)' \subseteq Tokens(j)
  PROVE  row'[j].attempt >= MaxAttempts =>
           row'[j].attempt + Cardinality(Tokens(j)') + Pending(j)'
             <= MaxAttempts + Cardinality(Workers) - 1
<1> SUFFICES ASSUME row[j].attempt >= MaxAttempts
             PROVE  row[j].attempt + Cardinality(Tokens(j)') + Pending(j)'
                      <= MaxAttempts + Cardinality(Workers) - 1
  OBVIOUS
<1>1. IsFiniteSet(Tokens(j)') /\ Cardinality(Tokens(j)') <= Cardinality(Tokens(j))
  BY TokensFinite, FS_Subset
<1>2. Cardinality(Tokens(j)') \in Nat /\ Cardinality(Tokens(j)) \in Nat
  BY <1>1, TokensFinite, FS_CardinalityType
<1>3. Pending(j)' <= Pending(j) /\ Pending(j) \in Nat /\ Pending(j)' \in Nat
  BY DEF Pending
<1>4. row[j].attempt \in Nat
  BY DEF TypeOK, Row
<1> QED BY <1>1, <1>2, <1>3, <1>4, WorkerCount, BoundsAssumption DEF TokenBound

LEMMA InitAttemptInv == Init => AttemptInv
<1> SUFFICES ASSUME Init PROVE SnapInSweep /\ TokenBound
  BY InitTypeInv DEF AttemptInv
<1>1. SnapInSweep
  BY DEF Init, SnapInSweep
<1>2. TokenBound
  BY BoundsAssumption DEF Init, TokenBound, AbsentRow
<1> QED BY <1>1, <1>2

LEMMA SnapInSweepStep ==
  ASSUME TypeInv, SnapInSweep, [Next]_vars
  PROVE  SnapInSweep'
<1> TypeOK
  BY DEF TypeInv
<1> USE DEF SnapInSweep, TypeOK
<1>1. ASSUME NEW w \in Workers, ReadStale(w) PROVE SnapInSweep'
  BY <1>1 DEF ReadStale, Goto
<1>2. ASSUME NEW w \in Workers, WriteStale(w) \/ Crash(w) PROVE SnapInSweep'
  BY <1>2 DEF WriteStale, Crash, Goto, NoSnap
<1>3. ASSUME NEW w \in Workers, SelectQueued(w) \/ ClaimJob(w) \/ EndPass(w) \/ LoadJob(w)
                                \/ HandleEscaped(w)
      PROVE  SnapInSweep'
  BY <1>3 DEF SelectQueued, ClaimJob, EndPass, LoadJob, HandleEscaped, Goto, Release
<1>4. ASSUME NEW w \in Workers, ExecuteStep(w) PROVE SnapInSweep'
  BY <1>4 DEF ExecuteStep, ClearArtifacts, Advance, UpdateProgress, CompleteEmpty,
     CompleteJob, ProviderFails, HandlerFails, PersistHypotheses, ReportGrounding,
     LoadHypotheses, WriteAssessments, CompleteWithResults, InternalError, Recover,
     RecoverFails, Executing, ExecutionPcs, Goto, Release
<1>5. ASSUME NEW c \in Clients, RequestJob(c) \/ CreateStep(c) PROVE SnapInSweep'
  BY <1>5 DEF RequestJob, CreateStep, ReadKey, ReadActive, InsertJob, RereadKey, RereadActive,
     workerVars
<1>6. ASSUME NEW j \in Jobs, CancelJob(j) \/ Age(j) PROVE SnapInSweep'
  BY <1>6 DEF CancelJob, Age, workerVars
<1>7. CASE UNCHANGED vars
  BY <1>7 DEF vars
<1> QED BY <1>1, <1>2, <1>3, <1>4, <1>5, <1>6, <1>7 DEF Next, PassStep

LEMMA TokenBoundStep ==
  ASSUME AttemptInv, [Next]_vars
  PROVE  TokenBound'
<1> USE DEF AttemptInv, TypeInv
<1>1. CASE QuietRows /\ UNCHANGED snap
  BY <1>1, FewerTokens DEF QuietRows, Active, Tokens, TokenBound
<1>2. ASSUME NEW c \in Clients, InsertJob(c) PROVE TokenBound'
  <2> SUFFICES ASSUME NEW j \in Jobs
               PROVE  row'[j].attempt >= MaxAttempts =>
                        row'[j].attempt + Cardinality(Tokens(j)') + Pending(j)'
                          <= MaxAttempts + Cardinality(Workers) - 1
    BY DEF TokenBound
  <2>1. UNCHANGED snap
    BY <1>2 DEF InsertJob, workerVars
  <2>2. row'[j] = row[j] \/ row'[j].attempt = 0
    <3>1. CASE UNCHANGED row
      BY <3>1
    <3>2. CASE \E k \in Jobs : row' = [row EXCEPT ![k] = NewRow(c)]
      <4>1. NewRow(c).attempt = 0
        BY DEF NewRow, AbsentRow
      <4>2. PICK k \in Jobs : row' = [row EXCEPT ![k] = NewRow(c)]
        BY <3>2
      <4>3. row'[j] = row[j] \/ row'[j] = NewRow(c)
        BY <4>2 DEF TypeOK
      <4> QED BY <4>1, <4>3
    <3>3. UNCHANGED row \/ \E k \in Jobs : row' = [row EXCEPT ![k] = NewRow(c)]
      BY <1>2 DEF InsertJob
    <3> QED BY <3>1, <3>2, <3>3
  <2>3. CASE row'[j] = row[j]
    BY <2>1, <2>3, FewerTokens DEF Tokens
  <2>4. CASE row'[j].attempt = 0
    BY <2>4, BoundsAssumption
  <2> QED BY <2>2, <2>3, <2>4
<1>3. ASSUME NEW w \in Workers, ReadStale(w) PROVE TokenBound'
  <2>1. \A j \in Jobs : row[j].attempt >= MaxAttempts => Tokens(j)' \subseteq Tokens(j)
    BY <1>3, BoundsAssumption DEF ReadStale, Tokens, TypeOK, Row
  <2>2. UNCHANGED row
    BY <1>3 DEF ReadStale, dbVars
  <2> QED BY <2>1, <2>2, FewerTokens DEF TokenBound
<1>4. ASSUME NEW w \in Workers, Crash(w) PROVE TokenBound'
  <2>1. \A j \in Jobs : Tokens(j)' \subseteq Tokens(j)
    BY <1>4 DEF Crash, Tokens, TypeOK, NoSnap
  <2>2. UNCHANGED row
    BY <1>4 DEF Crash, dbVars
  <2> QED BY <2>1, <2>2, FewerTokens DEF TokenBound
<1>5. ASSUME NEW w \in Workers, WriteStale(w) PROVE TokenBound'
  <2> SUFFICES ASSUME NEW j \in Jobs
               PROVE  row'[j].attempt >= MaxAttempts =>
                        row'[j].attempt + Cardinality(Tokens(j)') + Pending(j)'
                          <= MaxAttempts + Cardinality(Workers) - 1
    BY DEF TokenBound
  <2>1. row'[j].attempt = row[j].attempt
    BY <1>5, SweptIdentity
  <2>2. Tokens(j)' = Tokens(j) \ {w}
    BY <1>5 DEF WriteStale, Tokens, TypeOK, NoSnap
  <2>3. CASE w \in Tokens(j)
    <3>1. Cardinality(Tokens(j)') = Cardinality(Tokens(j)) - 1
      BY <2>2, <2>3, TokensFinite, FS_RemoveElement
    <3>2. Pending(j)' \in {0, 1} /\ Pending(j) \in {0, 1}
      BY DEF Pending
    <3>3. row[j].attempt \in Nat /\ Cardinality(Tokens(j)) \in Nat
      BY TokensFinite DEF TypeOK, Row
    <3> QED BY <2>1, <3>1, <3>2, <3>3, WorkerCount, BoundsAssumption DEF TokenBound
  <2>4. CASE w \notin Tokens(j)
    <3>1. row'[j].status = "queued" => row[j].status = "queued"
      <4>1. CASE UNCHANGED row
        BY <4>1
      <4>2. CASE row' = Swept(w)
        <5>1. row'[j] = IF snap[w][j] = 0 THEN row[j] ELSE SweptRow(row[j], snap[w][j])
          BY <4>2 DEF Swept
        <5>2. snap[w][j] = 0 \/ snap[w][j] >= MaxAttempts
          BY <2>4, BoundsAssumption DEF Tokens, TypeOK
        <5>3. CASE snap[w][j] = 0
          BY <5>1, <5>3
        <5>4. CASE snap[w][j] # 0 /\ snap[w][j] >= MaxAttempts
          <6>1. row'[j] = FailedRow(row[j])
            BY <5>1, <5>4 DEF SweptRow
          <6>2. row'[j].status = "failed"
            BY <6>1 DEF FailedRow, TypeOK, Row
          <6> QED BY <6>2
        <5> QED BY <5>2, <5>3, <5>4
      <4>3. UNCHANGED row \/ row' = Swept(w)
        BY <1>5 DEF WriteStale
      <4> QED BY <4>1, <4>2, <4>3
    <3> QED BY <2>1, <2>2, <3>1, FewerTokens
  <2> QED BY <2>3, <2>4
<1>6. ASSUME NEW w \in Workers, ClaimJob(w) PROVE TokenBound'
  <2> SUFFICES ASSUME NEW j \in Jobs
               PROVE  row'[j].attempt >= MaxAttempts =>
                        row'[j].attempt + Cardinality(Tokens(j)') + Pending(j)'
                          <= MaxAttempts + Cardinality(Workers) - 1
    BY DEF TokenBound
  <2>1. UNCHANGED snap /\ pc[w] = "claim"
    BY <1>6 DEF ClaimJob
  <2>2. Tokens(j)' = Tokens(j)
    BY <2>1 DEF Tokens
  <2>3. \/ row'[j] = row[j]
        \/ row[j].status = "queued" /\ row'[j] = ClaimedRow(row[j])
    BY <1>6 DEF ClaimJob, TypeOK
  <2>4. CASE row'[j] = row[j]
    BY <2>2, <2>4, FewerTokens
  <2>5. CASE row[j].status = "queued" /\ row'[j] = ClaimedRow(row[j])
    <3>1. row'[j].attempt = row[j].attempt + 1 /\ Pending(j) = 1 /\ Pending(j)' = 0
      BY <2>5 DEF ClaimedRow, Pending, TypeOK, Row
    <3>2. Tokens(j) \subseteq Workers \ {w}
      BY <2>1 DEF Tokens, SnapInSweep, NoSnap
    <3>3. Cardinality(Workers \ {w}) = Cardinality(Workers) - 1 /\ IsFiniteSet(Workers \ {w})
      BY WorkersAssumption, FS_RemoveElement
    <3>4. Cardinality(Tokens(j)) <= Cardinality(Workers) - 1
      BY <3>2, <3>3, FS_Subset
    <3>5. row[j].attempt \in Nat /\ Cardinality(Tokens(j)) \in Nat
      BY TokensFinite DEF TypeOK, Row
    <3> QED BY <2>2, <3>1, <3>4, <3>5, WorkerCount, BoundsAssumption DEF TokenBound
  <2> QED BY <2>3, <2>4, <2>5
<1> QED BY <1>1, <1>2, <1>3, <1>4, <1>5, <1>6, StepCases

\* attempt_count never passes max_attempts by more than the number of
\* additional workers; with one worker max_attempts is kept exactly.
THEOREM AttemptsBounded == Spec => []AttemptBound
<1>1. AttemptInv /\ [Next]_vars => AttemptInv'
  BY NextTypeInv, SnapInSweepStep, TokenBoundStep DEF AttemptInv
<1>2. AttemptInv => AttemptBound
  <2> SUFFICES ASSUME AttemptInv, NEW j \in Jobs
               PROVE  row[j].attempt <= MaxAttempts + Cardinality(Workers) - 1
    BY DEF AttemptBound
  <2>1. row[j].attempt \in Nat /\ Cardinality(Tokens(j)) \in Nat /\ Pending(j) \in Nat
    BY TokensFinite DEF AttemptInv, TypeInv, TypeOK, Row, Pending
  <2> QED BY <2>1, WorkerCount, BoundsAssumption DEF AttemptInv, TokenBound
<1> QED BY InitAttemptInv, <1>1, <1>2, PTL DEF Spec

-----------------------------------------------------------------------------
(* The request that lost the insert race.                                  *)

\* A row that is there stays, with its incident and its key.
RowsRemain ==
  \A j \in Jobs : row[j].status # "absent" => /\ row'[j].status # "absent"
                                              /\ row'[j].incident = row[j].incident
                                              /\ row'[j].key = row[j].key

KeyedRows == \A j \in Jobs : row[j].key # None => row[j].status # "absent"

\* j is a row of the incident c asks for.
Rival(c, j) == row[j].status # "absent" /\ row[j].incident = client[c].incident

\* A request that re-reads met rows of its incident, and once it has re-read by
\* key, none of them has its key.
LoserHasMet ==
  \A c \in Clients :
    /\ client[c].pc \in {"key_reread", "active_reread"} => client[c].met # {}
    /\ client[c].pc \in {"key_reread", "active_reread"} =>
         \A j \in client[c].met : Rival(c, j)
    /\ client[c].pc = "active_reread" /\ HasText(client[c].key) =>
         \A j \in client[c].met : row[j].key # client[c].key

RaceInv == KeyedRows /\ LoserHasMet

LEMMA KeptStatus ==
  ASSUME TypeOK, NEW w \in Workers, PassStep(w) \/ ExecuteStep(w),
         NEW j \in Jobs, row[j].status # "absent"
  PROVE  row'[j].status # "absent"
<1> USE DEF TypeOK, Row, dbVars
<1>1. ASSUME NEW k, FailIfRunning(k) PROVE row'[j].status # "absent"
  BY <1>1 DEF FailIfRunning, FailedRow
<1>2. ASSUME NEW from, NEW stage, NEW to, UpdateProgress(w, from, stage, to)
      PROVE  row'[j].status # "absent"
  BY <1>2 DEF UpdateProgress
<1>3. ASSUME CompleteJob(w) PROVE row'[j].status # "absent"
  BY <1>3 DEF CompleteJob, CompletedRow
<1>4. CASE UNCHANGED row
  BY <1>4
<1>5. CASE WriteStale(w)
  <2>1. SweptRow(row[j], snap[w][j]).status # "absent"
    BY DEF SweptRow, FailedRow, RequeuedRow
  <2> QED BY <1>5, <2>1 DEF WriteStale, Swept
<1>6. CASE ClaimJob(w)
  <2>1. \A k \in Jobs : ClaimedRow(row[k]).status = "running"
    BY DEF ClaimedRow
  <2>2. UNCHANGED row \/ \E k \in Jobs : row' = [row EXCEPT ![k] = ClaimedRow(@)]
    BY <1>6 DEF ClaimJob
  <2> QED BY <2>1, <2>2
<1>7. CASE HandleEscaped(w) \/ ProviderFails(w) \/ Recover(w)
  BY <1>1, <1>7 DEF HandleEscaped, ProviderFails, Recover
<1>8. CASE Advance(w) \/ ReportGrounding(w)
  BY <1>2, <1>8 DEF Advance, ReportGrounding
<1>9. CASE CompleteEmpty(w) \/ CompleteWithResults(w)
  BY <1>3, <1>9 DEF CompleteEmpty, CompleteWithResults
<1>10. \/ UNCHANGED row
       \/ WriteStale(w) \/ ClaimJob(w) \/ HandleEscaped(w) \/ ProviderFails(w) \/ Recover(w)
       \/ Advance(w) \/ ReportGrounding(w) \/ CompleteEmpty(w) \/ CompleteWithResults(w)
  BY DEF PassStep, ReadStale, SelectQueued, EndPass, LoadJob, ExecuteStep, ClearArtifacts,
     HandlerFails, PersistHypotheses, LoadHypotheses, WriteAssessments, InternalError, RecoverFails
<1> QED BY <1>4, <1>5, <1>6, <1>7, <1>8, <1>9, <1>10

\* What no insertion does: rows remain, with their identity, and no key appears.
LEMMA RowsKept ==
  ASSUME TypeOK, [Next]_vars, \A c \in Clients : ~InsertJob(c), NEW j \in Jobs
  PROVE  /\ row'[j].incident = row[j].incident
         /\ row'[j].key = row[j].key
         /\ row[j].status # "absent" => row'[j].status # "absent"
<1>1. row'[j].incident = row[j].incident /\ row'[j].key = row[j].key
  BY StepCases, SweptIdentity, ClaimKeepsIdentity DEF QuietRows, ReadStale, Crash, dbVars
<1>2. ASSUME row[j].status # "absent" PROVE row'[j].status # "absent"
  <2>1. ASSUME NEW w \in Workers, PassStep(w) \/ ExecuteStep(w)
        PROVE  row'[j].status # "absent"
    BY <1>2, <2>1, KeptStatus
  <2>2. ASSUME NEW k \in Jobs, CancelJob(k) \/ Age(k) PROVE row'[j].status # "absent"
    BY ZenonT(30), <1>2, <2>2 DEF CancelJob, Age, CancelledRow, TypeOK, Row
  <2>3. ASSUME NEW c \in Clients, RequestJob(c) \/ CreateStep(c) PROVE row'[j].status # "absent"
    BY <1>2, <2>3 DEF RequestJob, CreateStep, ReadKey, ReadActive, RereadKey, RereadActive, dbVars
  <2>4. ASSUME NEW w \in Workers, Crash(w) PROVE row'[j].status # "absent"
    BY <1>2, <2>4 DEF Crash, dbVars
  <2> QED BY <1>2, <2>1, <2>2, <2>3, <2>4 DEF Next, vars
<1> QED BY <1>1, <1>2

\* An insertion is refused by rows that are there, all of its incident.
LEMMA RefusedInsertMeetsRival ==
  ASSUME TypeOK, KeyedRows, SingleActive(row), SingleKey(row),
         NEW c \in Clients, NEW j \in Jobs, row[j].status = "absent",
         ~(/\ SingleActive([row EXCEPT ![j] = NewRow(c)])
           /\ SingleKey([row EXCEPT ![j] = NewRow(c)]))
  PROVE  /\ Refusing(c) # {} /\ Refusing(c) \subseteq Jobs
         /\ \A k \in Refusing(c) : Rival(c, k)
<1> DEFINE inserted == [row EXCEPT ![j] = NewRow(c)]
<1>1. inserted[j] = NewRow(c) /\ \A k \in Jobs \ {j} : inserted[k] = row[k]
  BY DEF TypeOK
<1>2. NewRow(c).incident = client[c].incident /\ NewRow(c).key = client[c].key
  BY DEF NewRow, AbsentRow
<1> HIDE DEF inserted
<1>3. ASSUME ~SingleActive(inserted) PROVE Refusing(c) # {}
  <2>1. PICK k \in Jobs \ {j} :
          row[k].status \in Active /\ row[k].incident = client[c].incident
    BY <1>1, <1>2, <1>3 DEF SingleActive
  <2> QED BY <2>1 DEF Refusing
<1>4. ASSUME ~SingleKey(inserted) PROVE Refusing(c) # {}
  <2>1. PICK k \in Jobs \ {j} :
          /\ row[k].incident = client[c].incident
          /\ client[c].key # None /\ row[k].key = client[c].key
    BY <1>1, <1>2, <1>4 DEF SingleKey
  <2> QED BY <2>1 DEF Refusing
<1>5. Refusing(c) \subseteq Jobs /\ \A k \in Refusing(c) : Rival(c, k)
  BY DEF Refusing, Rival, Active, KeyedRows
<1> QED BY <1>3, <1>4, <1>5 DEF inserted

LEMMA NextRaceInv ==
  ASSUME TypeOK, SingleActive(row), SingleKey(row), RaceInv, [Next]_vars
  PROVE  RaceInv'
<1>1. KeyedRows'
  <2>1. CASE \A c \in Clients : ~InsertJob(c)
    BY <2>1, RowsKept DEF RaceInv, KeyedRows
  <2>2. ASSUME NEW c \in Clients, InsertJob(c) PROVE KeyedRows'
    BY ZenonT(30), <2>2 DEF InsertJob, NewRow, AbsentRow, RaceInv, KeyedRows, TypeOK
  <2> QED BY <2>1, <2>2
<1>2. RowsRemain
  <2>1. CASE \A c \in Clients : ~InsertJob(c)
    BY <2>1, RowsKept DEF RowsRemain
  <2>2. ASSUME NEW c \in Clients, InsertJob(c) PROVE RowsRemain
    BY <2>2 DEF InsertJob, RowsRemain, TypeOK
  <2> QED BY <2>1, <2>2
<1>3. ASSUME NEW c \in Clients
      PROVE  /\ client'[c].pc \in {"key_reread", "active_reread"} => client'[c].met # {}
             /\ client'[c].pc \in {"key_reread", "active_reread"} =>
                  \A j \in client'[c].met : Rival(c, j)'
             /\ client'[c].pc = "active_reread" /\ HasText(client'[c].key) =>
                  \A j \in client'[c].met : row'[j].key # client'[c].key
  <2>0. client[c].met \subseteq Jobs
    BY DEF TypeOK, Request
  <2>1. CASE client'[c] = client[c]
    BY <1>2, <2>0, <2>1 DEF RowsRemain, RaceInv, LoserHasMet, Rival
  <2>2. CASE client'[c].pc \notin {"key_reread", "active_reread"}
    BY <2>2
  <2>3. CASE InsertJob(c)
    <3>1. PICK j \in Jobs :
            /\ row[j].status = "absent"
            /\ IF /\ SingleActive([row EXCEPT ![j] = NewRow(c)])
                  /\ SingleKey([row EXCEPT ![j] = NewRow(c)])
               THEN Answer(c, "insert")
               ELSE /\ client' = [client EXCEPT
                         ![c].pc = IF HasText(client[c].key) THEN "key_reread"
                                                             ELSE "active_reread",
                         ![c].met = Refusing(c)]
                    /\ UNCHANGED row
      BY <2>3 DEF InsertJob
    <3>2. CASE Answer(c, "insert")
      BY <2>2, <3>2 DEF Answer, IdleRequest, TypeOK
    <3>3. CASE ~Answer(c, "insert")
      <4>1. Refusing(c) # {} /\ Refusing(c) \subseteq Jobs /\ \A k \in Refusing(c) : Rival(c, k)
        BY <3>1, <3>3, RefusedInsertMeetsRival DEF RaceInv
      <4>2. /\ client'[c].incident = client[c].incident
            /\ client'[c].key = client[c].key
            /\ client'[c].met = Refusing(c)
            /\ client'[c].pc = IF HasText(client[c].key) THEN "key_reread" ELSE "active_reread"
            /\ UNCHANGED row
        BY <3>1, <3>3 DEF TypeOK, Request
      <4> QED BY <4>1, <4>2 DEF Rival
    <3> QED BY <3>2, <3>3
  <2>4. CASE RereadKey(c)
    <3>1. CASE Answer(c, "key_reread")
      BY <2>2, <3>1 DEF Answer, IdleRequest, TypeOK
    <3>2. CASE ~Answer(c, "key_reread")
      <4>1. ~HasKey(client[c].incident, client[c].key) /\ Step(c, "key_reread", "active_reread")
            /\ UNCHANGED row
        BY <2>4, <3>2 DEF RereadKey, dbVars
      <4>2. /\ client[c].pc = "key_reread" /\ client'[c].pc = "active_reread"
            /\ client'[c].incident = client[c].incident /\ client'[c].key = client[c].key
            /\ client'[c].met = client[c].met
        BY <4>1 DEF Step, TypeOK, Request
      <4> QED BY <2>0, <4>1, <4>2 DEF HasKey, Rival, RaceInv, LoserHasMet
    <3> QED BY <3>1, <3>2
  <2>5. CASE RequestJob(c) \/ ReadKey(c) \/ ReadActive(c) \/ RereadActive(c)
    BY <2>2, <2>5 DEF RequestJob, ReadKey, ReadActive, RereadActive, Step, Answer, IdleRequest,
       TypeOK, Request
  <2>6. \/ client'[c] = client[c] \/ InsertJob(c) \/ RereadKey(c) \/ RereadActive(c)
        \/ RequestJob(c) \/ ReadKey(c) \/ ReadActive(c)
    <3>1. ASSUME NEW b \in Clients \ {c}, RequestJob(b) \/ CreateStep(b)
          PROVE  client'[c] = client[c]
      BY <3>1 DEF RequestJob, CreateStep, ReadKey, ReadActive, InsertJob, RereadKey,
         RereadActive, Step, Answer, TypeOK
    <3>2. \/ UNCHANGED client
          \/ \E b \in Clients : RequestJob(b) \/ CreateStep(b)
      BY DEF Next, vars, apiVars, CancelJob, Age, Crash, PassStep, ReadStale, WriteStale, SelectQueued,
         ClaimJob, EndPass, LoadJob, HandleEscaped, ExecuteStep, ClearArtifacts, Advance,
         CompleteEmpty, ProviderFails, HandlerFails, PersistHypotheses, ReportGrounding,
         LoadHypotheses, WriteAssessments, CompleteWithResults, InternalError, Recover, RecoverFails
    <3> QED BY <3>1, <3>2 DEF CreateStep
  <2> QED BY <2>1, <2>3, <2>4, <2>5, <2>6
<1> QED BY <1>1, <1>3 DEF RaceInv, LoserHasMet

\* A step that fails a request is its re-read of the active job.
LEMMA ErrorIsReread ==
  ASSUME TypeOK, [Next]_vars, NEW c \in Clients,
         client[c].pc # "error", client'[c].pc = "error"
  PROVE  RereadActive(c) /\ Step(c, "active_reread", "error") /\ UNCHANGED row
         /\ ~HasActive(client[c].incident)
<1>1. \E b \in Clients : RequestJob(b) \/ CreateStep(b)
  BY DEF Next, vars, apiVars, CancelJob, Age, Crash, PassStep, ReadStale, WriteStale, SelectQueued,
     ClaimJob, EndPass, LoadJob, HandleEscaped, ExecuteStep, ClearArtifacts, Advance,
     CompleteEmpty, ProviderFails, HandlerFails, PersistHypotheses, ReportGrounding,
     LoadHypotheses, WriteAssessments, CompleteWithResults, InternalError, Recover, RecoverFails
<1>2. RequestJob(c) \/ CreateStep(c)
  <2>1. ASSUME NEW b \in Clients \ {c}, RequestJob(b) \/ CreateStep(b)
        PROVE  client'[c] = client[c]
    BY <2>1 DEF RequestJob, CreateStep, ReadKey, ReadActive, InsertJob, RereadKey,
       RereadActive, Step, Answer, TypeOK
  <2> QED BY <1>1, <2>1
<1>3. ~RequestJob(c) /\ ~ReadKey(c) /\ ~ReadActive(c) /\ ~InsertJob(c) /\ ~RereadKey(c)
  <2>1. \A from : ~Answer(c, from)
    BY DEF Answer, IdleRequest, TypeOK
  <2>2. \A from, to : to # "error" => ~Step(c, from, to)
    BY DEF Step, TypeOK, Request
  <2>3. ~RequestJob(c)
    BY DEF RequestJob, TypeOK
  <2>4. ~InsertJob(c)
    <3>1. ASSUME NEW to \in {"key_reread", "active_reread"},
                 client' = [client EXCEPT ![c].pc = to, ![c].met = Refusing(c)]
          PROVE  FALSE
      BY <3>1 DEF TypeOK, Request
    <3> QED BY <2>1, <3>1 DEF InsertJob
  <2> QED BY <2>1, <2>2, <2>3, <2>4 DEF ReadKey, ReadActive, RereadKey
<1>4. RereadActive(c)
  BY <1>2, <1>3 DEF CreateStep
<1> QED BY <1>4 DEF RereadActive, Answer, IdleRequest, TypeOK, dbVars

LEMMA LoserHasOnlyEndedRivals ==
  ASSUME TypeOK, RaceInv, [Next]_vars, NEW c \in Clients,
         client[c].pc # "error", client'[c].pc = "error"
  PROVE  /\ client[c].met # {}
         /\ \A j \in client[c].met :
              /\ row[j].status \in Terminal
              /\ HasText(client[c].key) => row[j].key # client[c].key
<1>1. client[c].pc = "active_reread" /\ ~HasActive(client[c].incident)
  BY ErrorIsReread DEF Step
<1>2. client[c].met # {} /\ client[c].met \subseteq Jobs
  BY <1>1 DEF RaceInv, LoserHasMet, TypeOK, Request
<1>3. ASSUME NEW j \in client[c].met PROVE row[j].status \in Terminal
  <2>1. Rival(c, j) /\ j \in Jobs
    BY <1>1, <1>2, <1>3 DEF RaceInv, LoserHasMet
  <2> QED BY <1>1, <2>1 DEF Rival, HasActive, TypeOK, Row
<1> QED BY <1>1, <1>2, <1>3 DEF RaceInv, LoserHasMet

\* A request that fails after losing the insert race was refused by jobs that
\* had all ended by its last re-read, and had another key than the one it
\* looked up, with any number of workers.
THEOREM LosersMetRivals == Spec => LostRaceHasEnded
<1>1. Init => RaceInv
  BY DEF Init, RaceInv, KeyedRows, LoserHasMet, AbsentRow, IdleRequest
<1>2. TypeInv /\ OneActivePerIncident /\ OneJobPerKey /\ RaceInv /\ [Next]_vars => RaceInv'
  BY NextRaceInv DEF TypeInv, OneActivePerIncident, OneJobPerKey
<1>3. TypeInv /\ RaceInv /\ [Next]_vars =>
        [\A c \in Clients :
           client[c].pc # "error" /\ client'[c].pc = "error" =>
             /\ client[c].met # {}
             /\ \A j \in client[c].met :
                  /\ row[j].status \in Terminal
                  /\ HasText(client[c].key) => row[j].key # client[c].key]_vars
  BY LoserHasOnlyEndedRivals DEF TypeInv
<1> QED BY <1>1, <1>2, <1>3, TypeCorrect, UniqueJobs, PTL DEF Spec, LostRaceHasEnded

-----------------------------------------------------------------------------
(* One worker replica.                                                     *)

\* A worker that is busy with a job finds it running, in the attempt it loaded;
\* it holds a job, and a snapshot of stale ones, only while it uses them.
HeldRuns == \A w \in Workers : /\ pc[w] \in BusyPcs => row[cur[w]].status = "running"
                               /\ Executing(w) => row[cur[w]].attempt = att[w]
                               /\ cur[w] # 0 => pc[w] \in BusyPcs
SnapRuns == \A w \in Workers : \A j \in Jobs :
              snap[w][j] # 0 => pc[w] = "sweep" /\ row[j].status = "running"
CancelledStay == \A j \in cancelled : row[j].status = "cancelled"

SoleInv == HeldRuns /\ SnapRuns /\ CancelledStay

OneWorker == \A v, w \in Workers : v = w

LEMMA InitSoleInv == Init => SoleInv
BY DEF Init, SoleInv, HeldRuns, SnapRuns, CancelledStay, BusyPcs, ExecutionPcs, Executing, NoSnap

\* What happens to rows that are neither running nor cancelled concerns nobody.
LEMMA OthersSoleInv ==
  ASSUME TypeInv, SoleInv, UNCHANGED workerVars,
         \A j \in Jobs : row[j].status \in {"running", "cancelled"} =>
                         row'[j].status = row[j].status /\ row'[j].attempt = row[j].attempt,
         \A j \in cancelled' : j \in cancelled \/ row'[j].status = "cancelled"
  PROVE  SoleInv'
<1> USE DEF SoleInv, workerVars
<1>1. HeldRuns'
  <2> SUFFICES ASSUME NEW w \in Workers
               PROVE  /\ pc[w] \in BusyPcs => row'[cur[w]].status = "running"
                      /\ Executing(w) => row'[cur[w]].attempt = att[w]
                      /\ cur[w] # 0 => pc[w] \in BusyPcs
    BY DEF HeldRuns, Executing
  <2>1. pc[w] \in BusyPcs => cur[w] \in Jobs /\ row[cur[w]].status = "running"
    BY DEF TypeInv, BusyHasJob, HeldRuns
  <2>2. Executing(w) => pc[w] \in BusyPcs
    BY DEF Executing, BusyPcs
  <2> QED BY <2>1, <2>2 DEF HeldRuns
<1>2. SnapRuns'
  BY DEF SnapRuns
<1>3. CancelledStay'
  BY DEF CancelledStay, TypeInv, TypeOK
<1> QED BY <1>1, <1>2, <1>3

LEMMA ApiSoleInv ==
  ASSUME TypeInv, SoleInv,
         \/ UNCHANGED vars
         \/ \E c \in Clients : RequestJob(c) \/ CreateStep(c)
         \/ \E j \in Jobs : CancelJob(j) \/ Age(j)
  PROVE  SoleInv'
<1>1. CASE UNCHANGED vars
  BY <1>1, OthersSoleInv DEF vars, workerVars
<1>2. ASSUME NEW c \in Clients,
             RequestJob(c) \/ ReadKey(c) \/ ReadActive(c) \/ RereadKey(c) \/ RereadActive(c)
      PROVE  SoleInv'
  <2>1. UNCHANGED <<row, cancelled, workerVars>>
    BY <1>2 DEF RequestJob, ReadKey, ReadActive, RereadKey, RereadActive, dbVars
  <2> QED BY <2>1, OthersSoleInv
<1>3. ASSUME NEW c \in Clients, InsertJob(c) PROVE SoleInv'
  <2>1. PICK j \in Jobs : /\ row[j].status = "absent"
                          /\ row' = row \/ row' = [row EXCEPT ![j] = NewRow(c)]
    BY <1>3 DEF InsertJob
  <2>2. UNCHANGED <<cancelled, workerVars>>
    BY <1>3 DEF InsertJob
  <2>3. \A k \in Jobs \ {j} : row'[k] = row[k]
    BY <2>1 DEF TypeInv, TypeOK
  <2> QED BY <2>1, <2>2, <2>3, OthersSoleInv
<1>4. ASSUME NEW j \in Jobs, CancelJob(j) PROVE SoleInv'
  <2>1. \A k \in Jobs \ {j} : row'[k] = row[k]
    BY <1>4 DEF CancelJob, TypeInv, TypeOK
  <2>2. row[j].status = "queued" /\ row'[j].status = "cancelled"
    <3>1. CancelledRow(row[j]).status = "cancelled"
      BY DEF CancelledRow, TypeInv, TypeOK, Row
    <3> QED BY <1>4, <3>1 DEF CancelJob, TypeInv, TypeOK
  <2>3. UNCHANGED workerVars /\ cancelled' = cancelled \cup {j}
    BY <1>4 DEF CancelJob
  <2> QED BY <2>1, <2>2, <2>3, OthersSoleInv
<1>5. ASSUME NEW j \in Jobs, Age(j) PROVE SoleInv'
  <2>1. \A k \in Jobs : row'[k].status = row[k].status /\ row'[k].attempt = row[k].attempt
    BY <1>5 DEF Age, Row, TypeInv, TypeOK
  <2>2. UNCHANGED <<workerVars, cancelled>>
    BY <1>5 DEF Age, apiVars
  <2> QED BY <2>1, <2>2, OthersSoleInv
<1> QED BY <1>1, <1>2, <1>3, <1>4, <1>5 DEF CreateStep

\* A step that leaves or keeps the job it holds, and touches no other row.
LEMMA ReleasedSoleInv ==
  ASSUME TypeInv, SoleInv, OneWorker, NEW w \in Workers, NEW to \in {"idle", "select"},
         pc[w] \in BusyPcs, Release(w, to), UNCHANGED cancelled,
         \A j \in Jobs \ {cur[w]} : row'[j] = row[j]
  PROVE  SoleInv'
<1> USE DEF TypeInv, TypeOK, BusyHasJob, SoleInv
<1>1. \A j \in Jobs : snap'[w][j] = 0
  BY DEF SnapRuns, Release, BusyPcs, ExecutionPcs
<1>2. HeldRuns'
  BY DEF OneWorker, HeldRuns, Release, BusyPcs, ExecutionPcs, Executing
<1>3. CancelledStay'
  BY DEF CancelledStay, HeldRuns
<1> QED BY <1>1, <1>2, <1>3 DEF OneWorker, SnapRuns

LEMMA KeptSoleInv ==
  ASSUME TypeInv, SoleInv, OneWorker, NEW w \in Workers, Executing(w),
         pc' = [pc EXCEPT ![w] = pc'[w]], pc'[w] \in BusyPcs, UNCHANGED <<cur, att, snap, cancelled>>,
         \A j \in Jobs : row'[j].status = row[j].status /\ row'[j].attempt = row[j].attempt
  PROVE  SoleInv'
<1> USE DEF TypeInv, TypeOK, BusyHasJob, SoleInv
<1>0. pc[w] \in BusyPcs
  BY DEF Executing, BusyPcs
<1>1. \A j \in Jobs : snap'[w][j] = 0
  BY <1>0 DEF SnapRuns, BusyPcs, ExecutionPcs
<1>2. HeldRuns'
  BY <1>0 DEF OneWorker, HeldRuns, Executing
<1>3. CancelledStay'
  BY DEF CancelledStay
<1> QED BY <1>1, <1>2, <1>3 DEF OneWorker, SnapRuns

LEMMA FailTouchesOne ==
  ASSUME TypeOK, NEW j \in Jobs, FailIfRunning(j)
  PROVE  \A k \in Jobs \ {j} : row'[k] = row[k]
BY DEF FailIfRunning, TypeOK

LEMMA PassSoleInv ==
  ASSUME TypeInv, SoleInv, OneWorker, NEW w \in Workers, PassStep(w)
  PROVE  SoleInv'
<1> USE DEF TypeInv, TypeOK, BusyHasJob, dbVars, apiVars
<1>1. CASE ReadStale(w)
  <2>1. pc[w] = "idle" /\ pc' = [pc EXCEPT ![w] = "sweep"] /\ UNCHANGED <<row, cur, att, cancelled>>
    BY <1>1 DEF ReadStale, Goto
  <2>2. \A j \in Jobs : snap'[w][j] # 0 => row[j].status = "running"
    BY <1>1 DEF ReadStale, IsStale
  <2>3. HeldRuns'
    BY <2>1 DEF SoleInv, HeldRuns, OneWorker, BusyPcs, ExecutionPcs, Executing
  <2> QED BY <2>1, <2>2, <2>3 DEF SoleInv, SnapRuns, CancelledStay, OneWorker
<1>2. CASE WriteStale(w)
  <2>1. /\ pc[w] = "sweep" /\ UNCHANGED <<cur, att, cancelled>>
        /\ pc' = [pc EXCEPT ![w] = pc'[w]] /\ pc'[w] \in {"select", "idle"}
        /\ \A j \in Jobs : snap'[w][j] = 0
    BY <1>2 DEF WriteStale, Goto, NoSnap
  <2>2. \A j \in Jobs : snap[w][j] = 0 => row'[j] = row[j]
    BY <1>2 DEF WriteStale, Swept
  <2>3. CancelledStay'
    BY <2>1, <2>2 DEF SoleInv, SnapRuns, CancelledStay
  <2>4. HeldRuns'
    BY <2>1 DEF SoleInv, HeldRuns, OneWorker, BusyPcs, ExecutionPcs, Executing
  <2> QED BY <2>1, <2>3, <2>4 DEF SoleInv, SnapRuns, OneWorker
<1>3. CASE SelectQueued(w) \/ EndPass(w)
  <2>1. /\ pc[w] \in {"select", "claim"} /\ UNCHANGED <<row, snap, cur, att, cancelled>>
        /\ pc' = [pc EXCEPT ![w] = pc'[w]] /\ pc'[w] \in {"claim", "idle"}
    BY <1>3 DEF SelectQueued, EndPass, Goto
  <2>2. HeldRuns'
    BY <2>1 DEF SoleInv, HeldRuns, OneWorker, BusyPcs, ExecutionPcs, Executing
  <2> QED BY <2>1, <2>2 DEF SoleInv, SnapRuns, CancelledStay, OneWorker
<1>4. CASE ClaimJob(w)
  <2>1. pc[w] = "claim" /\ UNCHANGED <<att, snap, cancelled>>
    BY <1>4 DEF ClaimJob
  <2>2. CASE UNCHANGED <<row, cur, pc>>
    BY <2>1, <2>2 DEF SoleInv, HeldRuns, SnapRuns, CancelledStay, Executing
  <2>3. ASSUME NEW j \in Jobs, row[j].status = "queued", row' = [row EXCEPT ![j] = ClaimedRow(@)],
               cur' = [cur EXCEPT ![w] = j], pc' = [pc EXCEPT ![w] = "load"]
        PROVE  SoleInv'
    <3>1. row'[j].status = "running"
      BY <2>3 DEF ClaimedRow, Row
    <3>2. HeldRuns'
      BY <2>3, <3>1 DEF HeldRuns, OneWorker, BusyPcs, ExecutionPcs, Executing
    <3>3. SnapRuns'
      BY <2>1 DEF SoleInv, SnapRuns, OneWorker
    <3>4. CancelledStay'
      BY <2>1, <2>3 DEF SoleInv, CancelledStay
    <3> QED BY <3>2, <3>3, <3>4 DEF SoleInv
  <2> QED BY <1>4, <2>2, <2>3 DEF ClaimJob
<1>5. CASE LoadJob(w)
  <2>1. pc[w] = "load" /\ pc[w] \in BusyPcs /\ UNCHANGED <<row, cancelled>>
    BY <1>5 DEF LoadJob, BusyPcs
  <2>2. row[cur[w]].status = "running"
    BY <2>1 DEF SoleInv, HeldRuns
  <2>3. /\ pc' = [pc EXCEPT ![w] = "clear"] /\ UNCHANGED <<cur, snap>>
        /\ att' = [att EXCEPT ![w] = row[cur[w]].attempt]
    BY <1>5, <2>2 DEF LoadJob
  <2>4. HeldRuns'
    BY <2>1, <2>2, <2>3 DEF OneWorker, HeldRuns, BusyPcs, ExecutionPcs, Executing
  <2> QED BY <2>1, <2>3, <2>4 DEF SoleInv, SnapRuns, CancelledStay, OneWorker
<1>6. CASE HandleEscaped(w)
  <2>1. pc[w] \in BusyPcs
    BY <1>6 DEF HandleEscaped, BusyPcs
  <2>2. \A k \in Jobs \ {cur[w]} : row'[k] = row[k]
    BY <1>6, <2>1, FailTouchesOne DEF HandleEscaped
  <2> QED BY <1>6, <2>1, <2>2, ReleasedSoleInv DEF HandleEscaped
<1> QED BY <1>1, <1>2, <1>3, <1>4, <1>5, <1>6 DEF PassStep

LEMMA ExecuteSoleInv ==
  ASSUME TypeInv, SoleInv, OneWorker, NEW w \in Workers, ExecuteStep(w)
  PROVE  SoleInv'
<1> USE DEF TypeInv, TypeOK, BusyHasJob, dbVars, apiVars
<1>1. Executing(w)
  BY DEF ExecuteStep, ClearArtifacts, Advance, UpdateProgress, CompleteEmpty, ProviderFails, HandlerFails,
         PersistHypotheses, ReportGrounding, LoadHypotheses, WriteAssessments, CompleteWithResults,
         InternalError, Recover, RecoverFails, Goto, Executing, ExecutionPcs
<1>2. pc[w] \in BusyPcs /\ cur[w] \in Jobs /\ row[cur[w]].status = "running"
  BY <1>1 DEF Executing, BusyPcs, SoleInv, HeldRuns
<1>3. CASE \/ ClearArtifacts(w) \/ HandlerFails(w) \/ PersistHypotheses(w) \/ LoadHypotheses(w)
           \/ WriteAssessments(w) \/ InternalError(w)
  <2>1. /\ UNCHANGED <<row, cur, att, snap, cancelled>>
        /\ pc' = [pc EXCEPT ![w] = pc'[w]] /\ pc'[w] \in BusyPcs
    BY <1>3 DEF ClearArtifacts, HandlerFails, PersistHypotheses, LoadHypotheses, WriteAssessments,
       InternalError, Goto, BusyPcs, ExecutionPcs
  <2> QED BY <1>1, <2>1, KeptSoleInv
<1>4. CASE Advance(w) \/ ReportGrounding(w)
  <2>1. PICK from, stage, to :
          UpdateProgress(w, from, stage, to) /\ to \in ExecutionPcs
    BY <1>4 DEF Advance, ReportGrounding, ExecutionPcs
  <2>2. UNCHANGED <<cur, att, snap, cancelled>>
    BY <1>4 DEF Advance, ReportGrounding
  <2>3. \A j \in Jobs : row'[j].status = row[j].status /\ row'[j].attempt = row[j].attempt
    BY <2>1 DEF UpdateProgress, Row
  <2>4. pc' = [pc EXCEPT ![w] = pc'[w]] /\ pc'[w] \in BusyPcs
    BY <2>1 DEF UpdateProgress, Goto, BusyPcs
  <2> QED BY <1>1, <2>2, <2>3, <2>4, KeptSoleInv
<1>5. CASE CompleteEmpty(w) \/ CompleteWithResults(w)
  <2>1. CompleteJob(w) /\ UNCHANGED cancelled
    BY <1>5 DEF CompleteEmpty, CompleteWithResults
  <2>2. \A j \in Jobs \ {cur[w]} : row'[j] = row[j]
    BY <2>1 DEF CompleteJob
  <2> QED BY <1>2, <2>1, <2>2, ReleasedSoleInv DEF CompleteJob
<1>6. CASE ProviderFails(w)
  <2>1. \A j \in Jobs \ {cur[w]} : row'[j] = row[j]
    BY <1>2, <1>6, FailTouchesOne DEF ProviderFails
  <2> QED BY <1>2, <1>6, <2>1, ReleasedSoleInv DEF ProviderFails
<1>7. CASE Recover(w)
  <2>1. \A j \in Jobs \ {cur[w]} : row'[j] = row[j]
    BY <1>2, <1>7, FailTouchesOne DEF Recover
  <2> QED BY <1>2, <1>7, <2>1, ReleasedSoleInv DEF Recover
<1>8. CASE RecoverFails(w)
  BY <1>2, <1>8, ReleasedSoleInv DEF RecoverFails
<1> QED BY <1>3, <1>4, <1>5, <1>6, <1>7, <1>8 DEF ExecuteStep

LEMMA CrashSoleInv ==
  ASSUME TypeInv, SoleInv, OneWorker, NEW w \in Workers, Crash(w)
  PROVE  SoleInv'
<1> USE DEF TypeInv, TypeOK, dbVars, apiVars, Crash
<1>1. HeldRuns'
  BY DEF OneWorker, HeldRuns, BusyPcs, ExecutionPcs, Executing
<1>2. SnapRuns'
  BY DEF OneWorker, SnapRuns, NoSnap
<1> QED BY <1>1, <1>2 DEF SoleInv, CancelledStay

LEMMA NextSoleInv ==
  ASSUME OneWorker, TypeInv, SoleInv, [Next]_vars
  PROVE  SoleInv'
BY ApiSoleInv, PassSoleInv, ExecuteSoleInv, CrashSoleInv DEF Next

\* With one worker replica, what a worker executes is running in the attempt it
\* loaded: no sweep or claim comes between.
THEOREM SoleExecutorOwns == ASSUME OneWorker PROVE Spec => []ExecutorOwnsJob
<1>1. SoleInv => ExecutorOwnsJob
  BY DEF SoleInv, HeldRuns, ExecutorOwnsJob, Executing, BusyPcs
<1> QED BY <1>1, InitSoleInv, NextSoleInv, TypeCorrect, PTL DEF Spec

\* With one worker replica, a cancellation that was answered is final.
THEOREM SoleCancelIsFinal == ASSUME OneWorker PROVE Spec => []CancelIsFinal
<1>1. TypeInv /\ SoleInv => CancelIsFinal
  <2> SUFFICES ASSUME TypeInv, SoleInv, NEW j \in cancelled
               PROVE  row[j].status = "cancelled" /\ \A w \in Workers : cur[w] # j
    BY DEF CancelIsFinal
  <2>1. j \in Jobs /\ j # 0 /\ row[j].status = "cancelled"
    BY DEF TypeInv, TypeOK, SoleInv, CancelledStay, Jobs
  <2> QED BY <2>1 DEF SoleInv, HeldRuns
<1> QED BY <1>1, InitSoleInv, NextSoleInv, TypeCorrect, PTL DEF Spec

-----------------------------------------------------------------------------
(* One worker replica implements JobLifecycle.                             *)

\* From the end of clear_attempt_artifacts to complete_job the hypotheses of
\* the job are those of this execution.
Writing == ExecutionPcs \ {"clear", "recover"}
OwnHyps == \A w \in Workers : pc[w] \in Writing => hyps[cur[w]] \subseteq {Exec(w)}

SnapCurrent == \A w \in Workers : \A j \in Jobs : snap[w][j] # 0 => snap[w][j] = row[j].attempt

\* A queued job has an attempt left, a row that is not there has made none.
AttemptsLeft ==
  \A j \in Jobs : /\ row[j].status = "queued" => row[j].attempt < MaxAttempts
                  /\ row[j].status = "absent" => row[j].attempt = 0

LifeInv == OwnHyps /\ SnapCurrent /\ AttemptsLeft

LEMMA InitLifeInv == Init => LifeInv
BY BoundsAssumption DEF Init, LifeInv, OwnHyps, SnapCurrent, AttemptsLeft, Writing, ExecutionPcs,
   AbsentRow, NoSnap

\* Steps that start no attempt, put nothing into the queue and read nothing stale.
LEMMA KeptLifeInv ==
  ASSUME OneWorker, TypeInv, LifeInv, NEW w \in Workers,
         \A j \in Jobs : row'[j].attempt = row[j].attempt,
         \A j \in Jobs : row'[j].status \in {"queued", "absent"} => row'[j].status = row[j].status,
         \A j \in Jobs : snap'[w][j] \in {0, snap[w][j]},
         pc'[w] \in Writing => hyps'[cur'[w]] \subseteq {Exec(w)'}
  PROVE  LifeInv'
<1> USE DEF OneWorker
<1>1. OwnHyps'
  BY DEF OwnHyps
<1>2. SnapCurrent'
  BY DEF LifeInv, SnapCurrent
<1>3. AttemptsLeft'
  BY DEF LifeInv, AttemptsLeft
<1> QED BY <1>1, <1>2, <1>3 DEF LifeInv

LEMMA ApiLifeInv ==
  ASSUME TypeInv, LifeInv,
         \/ UNCHANGED vars
         \/ \E c \in Clients : RequestJob(c) \/ CreateStep(c)
         \/ \E j \in Jobs : CancelJob(j) \/ Age(j)
  PROVE  LifeInv'
<1> USE DEF TypeInv, TypeOK, Row, dbVars, workerVars
<1>1. UNCHANGED <<hyps, workerVars>>
  BY DEF vars, RequestJob, CreateStep, ReadKey, ReadActive, InsertJob, RereadKey, RereadActive,
     CancelJob, Age
<1>2. ASSUME NEW k \in Jobs
      PROVE  /\ row'[k].attempt = row[k].attempt
             /\ row'[k].status \in {"queued", "absent"} =>
                  row'[k].status = row[k].status \/ row[k].status = "absent"
  <2>1. CASE UNCHANGED row
    BY <2>1
  <2>2. ASSUME NEW c \in Clients, InsertJob(c), ~UNCHANGED row
        PROVE  /\ row'[k].attempt = row[k].attempt
               /\ row'[k].status \in {"queued", "absent"} =>
                    row'[k].status = row[k].status \/ row[k].status = "absent"
    <3>1. PICK j \in Jobs : row[j].status = "absent" /\ row' = [row EXCEPT ![j] = NewRow(c)]
      BY <2>2 DEF InsertJob
    <3>2. NewRow(c).attempt = 0
      BY DEF NewRow, AbsentRow
    <3>3. row[j].attempt = 0
      BY <3>1 DEF LifeInv, AttemptsLeft
    <3> QED BY <3>1, <3>2, <3>3
  <2>3. ASSUME NEW j \in Jobs, CancelJob(j)
        PROVE  /\ row'[k].attempt = row[k].attempt
               /\ row'[k].status \in {"queued", "absent"} => row'[k].status = row[k].status
    BY <2>3 DEF CancelJob, CancelledRow
  <2>4. ASSUME NEW j \in Jobs, Age(j)
        PROVE  row'[k].attempt = row[k].attempt /\ row'[k].status = row[k].status
    BY <2>4 DEF Age
  <2>5. \/ UNCHANGED row
        \/ \E c \in Clients : InsertJob(c)
        \/ \E j \in Jobs : CancelJob(j) \/ Age(j)
    BY DEF vars, RequestJob, CreateStep, ReadKey, ReadActive, RereadKey, RereadActive
  <2> QED BY <2>1, <2>2, <2>3, <2>4, <2>5
<1>3. AttemptsLeft'
  BY <1>2, BoundsAssumption DEF LifeInv, AttemptsLeft
<1>4. OwnHyps' /\ SnapCurrent'
  BY <1>1, <1>2 DEF LifeInv, OwnHyps, SnapCurrent, Exec
<1> QED BY <1>3, <1>4 DEF LifeInv

LEMMA QuietColumns ==
  ASSUME TypeOK, NEW w \in Workers, NEW j \in Jobs,
         \/ FailIfRunning(cur[w]) \/ CompleteJob(w) \/ UNCHANGED row
         \/ \E from, stage, to : UpdateProgress(w, from, stage, to)
  PROVE  /\ row'[j].attempt = row[j].attempt
         /\ row'[j].status \in {"queued", "absent"} => row'[j].status = row[j].status
<1> USE DEF TypeOK, Row
<1>1. CASE FailIfRunning(cur[w])
  BY <1>1 DEF FailIfRunning, FailedRow
<1>2. CASE CompleteJob(w)
  BY <1>2 DEF CompleteJob, CompletedRow
<1>3. ASSUME NEW from, NEW stage, NEW to, UpdateProgress(w, from, stage, to)
      PROVE  row'[j].attempt = row[j].attempt /\ row'[j].status = row[j].status
  BY <1>3 DEF UpdateProgress
<1> QED BY <1>1, <1>2, <1>3

LEMMA PassLifeInv ==
  ASSUME OneWorker, TypeInv, SoleInv, LifeInv, NEW w \in Workers, PassStep(w) \/ Crash(w)
  PROVE  LifeInv'
<1> USE DEF TypeInv, TypeOK, Row, dbVars
<1>1. pc'[w] \notin Writing
  BY DEF PassStep, ReadStale, WriteStale, SelectQueued, ClaimJob, EndPass, LoadJob, HandleEscaped,
     Crash, Goto, Release, Writing, ExecutionPcs
<1>2. pc[w] # "sweep" => \A j \in Jobs : snap[w][j] = 0
  BY DEF SoleInv, SnapRuns
<1>3. CASE ReadStale(w)
  <2>1. UNCHANGED row /\ \A j \in Jobs : snap'[w][j] \in {0, row[j].attempt}
    BY <1>3 DEF ReadStale
  <2> QED BY <1>1, <2>1 DEF LifeInv, OwnHyps, SnapCurrent, AttemptsLeft, OneWorker
<1>4. CASE WriteStale(w)
  <2>1. \A j \in Jobs : snap'[w][j] = 0
    BY <1>4 DEF WriteStale, NoSnap
  <2>2. ASSUME NEW j \in Jobs
        PROVE  /\ row'[j].status = "queued" => row'[j].attempt < MaxAttempts
               /\ row'[j].status = "absent" => row'[j].attempt = 0
    <3>1. CASE row'[j] = row[j]
      BY <3>1 DEF LifeInv, AttemptsLeft
    <3>2. CASE row'[j] # row[j]
      <4>1. row'[j] = SweptRow(row[j], row[j].attempt)
        BY <1>4, <3>2 DEF WriteStale, Swept, LifeInv, SnapCurrent
      <4> QED BY <4>1, BoundsAssumption DEF SweptRow, FailedRow, RequeuedRow
    <3> QED BY <3>1, <3>2
  <2> QED BY <1>1, <2>1, <2>2 DEF LifeInv, OwnHyps, SnapCurrent, AttemptsLeft, OneWorker
<1>5. CASE ClaimJob(w)
  <2>1. pc[w] = "claim" /\ UNCHANGED snap
    BY <1>5 DEF ClaimJob
  <2>2. ASSUME NEW j \in Jobs
        PROVE  row'[j].status \in {"queued", "absent"} => row'[j] = row[j]
    <3>1. ClaimedRow(row[j]).status = "running"
      BY DEF ClaimedRow
    <3> QED BY <1>5, <3>1 DEF ClaimJob
  <2> QED BY <1>1, <1>2, <2>1, <2>2 DEF LifeInv, OwnHyps, SnapCurrent, AttemptsLeft, OneWorker
<1>6. CASE SelectQueued(w) \/ EndPass(w) \/ LoadJob(w)
  <2>1. UNCHANGED <<row, snap>>
    BY <1>6 DEF SelectQueued, EndPass, LoadJob, Release
  <2> QED BY <1>1, <2>1, KeptLifeInv
<1>7. CASE HandleEscaped(w)
  <2>1. UNCHANGED snap /\ (FailIfRunning(cur[w]) \/ UNCHANGED row)
    BY <1>7 DEF HandleEscaped, Release
  <2> QED BY <1>1, <2>1, QuietColumns, KeptLifeInv
<1>8. CASE Crash(w)
  <2>1. UNCHANGED row /\ \A j \in Jobs : snap'[w][j] = 0
    BY <1>8 DEF Crash, NoSnap
  <2> QED BY <1>1, <2>1, KeptLifeInv
<1> QED BY <1>3, <1>4, <1>5, <1>6, <1>7, <1>8 DEF PassStep

LEMMA ExecuteLifeInv ==
  ASSUME OneWorker, TypeInv, SoleInv, LifeInv, NEW w \in Workers, ExecuteStep(w)
  PROVE  LifeInv'
<1> USE DEF TypeInv, TypeOK, BusyHasJob, dbVars
<1>1. pc[w] \in BusyPcs /\ cur[w] \in Jobs
  BY DEF ExecuteStep, ClearArtifacts, Advance, UpdateProgress, CompleteEmpty, ProviderFails, HandlerFails,
         PersistHypotheses, ReportGrounding, LoadHypotheses, WriteAssessments, CompleteWithResults,
         InternalError, Recover, RecoverFails, Goto, Executing, ExecutionPcs, BusyPcs
<1>2. ASSUME UNCHANGED snap,
             \/ FailIfRunning(cur[w]) \/ CompleteJob(w) \/ UNCHANGED row
             \/ \E from, stage, to : UpdateProgress(w, from, stage, to),
             pc'[w] \in Writing => hyps'[cur'[w]] \subseteq {Exec(w)'}
      PROVE  LifeInv'
  <2>1. \A j \in Jobs : /\ row'[j].attempt = row[j].attempt
                        /\ row'[j].status \in {"queued", "absent"} => row'[j].status = row[j].status
    BY <1>2, QuietColumns
  <2> QED BY <1>2, <2>1, KeptLifeInv
<1>3. CASE ClearArtifacts(w)
  BY <1>1, <1>2, <1>3 DEF ClearArtifacts
<1>4. CASE PersistHypotheses(w)
  <2>1. pc[w] \in Writing /\ UNCHANGED <<row, cur, att, snap>>
    BY <1>4 DEF PersistHypotheses, Goto, Writing, ExecutionPcs
  <2>2. hyps'[cur[w]] \subseteq hyps[cur[w]] \cup {Exec(w)}
    BY <1>1, <1>4 DEF PersistHypotheses
  <2> QED BY <1>2, <2>1, <2>2 DEF LifeInv, OwnHyps, Exec
<1>5. CASE Advance(w) \/ ReportGrounding(w)
  <2>1. pc[w] \in Writing /\ UNCHANGED <<hyps, cur, att, snap>>
    BY <1>5 DEF Advance, ReportGrounding, UpdateProgress, Goto, Writing, ExecutionPcs
  <2>2. \E from, stage, to : UpdateProgress(w, from, stage, to)
    BY <1>5 DEF Advance, ReportGrounding
  <2> QED BY <1>2, <2>1, <2>2 DEF LifeInv, OwnHyps, Exec
<1>6. CASE HandlerFails(w) \/ LoadHypotheses(w) \/ WriteAssessments(w)
  <2>1. pc[w] \in Writing /\ UNCHANGED <<row, hyps, cur, att, snap>>
    BY <1>6 DEF HandlerFails, LoadHypotheses, WriteAssessments, Goto, Writing, ExecutionPcs
  <2> QED BY <1>2, <2>1 DEF LifeInv, OwnHyps, Exec
<1>7. CASE InternalError(w) \/ RecoverFails(w)
  <2>1. pc'[w] \notin Writing /\ UNCHANGED <<row, snap>>
    BY <1>7 DEF InternalError, RecoverFails, Release, Writing, ExecutionPcs
  <2> QED BY <1>2, <2>1
<1>8. CASE CompleteEmpty(w) \/ CompleteWithResults(w)
  <2>1. pc'[w] \notin Writing /\ UNCHANGED snap /\ CompleteJob(w)
    BY <1>8 DEF CompleteEmpty, CompleteWithResults, CompleteJob, Release, Writing, ExecutionPcs
  <2> QED BY <1>2, <2>1
<1>9. CASE ProviderFails(w) \/ Recover(w)
  <2>1. pc'[w] \notin Writing /\ UNCHANGED snap /\ FailIfRunning(cur[w])
    BY <1>9 DEF ProviderFails, Recover, Goto, Release, Writing, ExecutionPcs
  <2> QED BY <1>2, <2>1
<1> QED BY <1>3, <1>4, <1>5, <1>6, <1>7, <1>8, <1>9 DEF ExecuteStep

LEMMA NextLifeInv ==
  ASSUME OneWorker, TypeInv, SoleInv, LifeInv, [Next]_vars
  PROVE  LifeInv'
BY ApiLifeInv, PassLifeInv, ExecuteLifeInv DEF Next

\* No completed job changes what it shows, and none becomes completed.
ShownStays ==
  \A j \in Jobs : IF row[j].status = "completed"
                  THEN /\ row'[j].status = "completed"
                       /\ row'[j].result = row[j].result
                       /\ hyps'[j] = hyps[j]
                  ELSE row'[j].status # "completed"

LEMMA ShownUnchanged ==
  ASSUME ShownStays
  PROVE  [j \in Jobs |-> Shown(j)]' = [j \in Jobs |-> Shown(j)]
<1>1. ASSUME NEW j \in Jobs PROVE Shown(j)' = Shown(j)
  BY DEF ShownStays, Shown
<1> QED BY <1>1

LEMMA QuietStutters ==
  ASSUME ShownStays,
         \A j \in Jobs : row'[j].status = row[j].status /\ row'[j].attempt = row[j].attempt
  PROVE  UNCHANGED Lifecycle!lifecycleVars
BY ShownUnchanged DEF Lifecycle!lifecycleVars

\* One job changes its status.
LEMMA MovesOne ==
  ASSUME NEW j \in Jobs, NEW from, NEW to, row[j].status = from, row'[j].status = to,
         \A k \in Jobs \ {j} : row'[k].status = row[k].status
  PROVE  Lifecycle!Move(j, from, to)
BY DEF Lifecycle!Move

LEMMA TriesUnchanged ==
  ASSUME \A j \in Jobs : row'[j].attempt = row[j].attempt
  PROVE  [j \in Jobs |-> row[j].attempt]' = [j \in Jobs |-> row[j].attempt]
OBVIOUS

LEMMA FailImplements ==
  ASSUME TypeOK, NEW j \in Jobs, FailIfRunning(j), UNCHANGED hyps
  PROVE  [Lifecycle!LifecycleNext]_(Lifecycle!lifecycleVars)
<1> USE DEF TypeOK, Row
<1>1. CASE row[j].status # "running"
  BY <1>1, QuietStutters DEF FailIfRunning, ShownStays
<1>2. CASE row[j].status = "running"
  <2>1. row' = [row EXCEPT ![j] = FailedRow(@)]
    BY <1>2 DEF FailIfRunning
  <2>2. FailedRow(row[j]).status = "failed" /\ FailedRow(row[j]).attempt = row[j].attempt
    BY DEF FailedRow
  <2>3. Lifecycle!Move(j, "running", "failed")
    BY <1>2, <2>1, <2>2, MovesOne
  <2>4. ShownStays
    BY <1>2, <2>1, <2>2 DEF ShownStays
  <2>5. \A k \in Jobs : row'[k].attempt = row[k].attempt
    BY <2>1, <2>2
  <2> QED BY <2>3, <2>4, <2>5, ShownUnchanged, TriesUnchanged DEF Lifecycle!LifecycleNext, Lifecycle!Fail
<1> QED BY <1>1, <1>2

LEMMA CompleteImplements ==
  ASSUME TypeOK, NEW w \in Workers, NEW j \in Jobs, cur[w] = j, CompleteJob(w), UNCHANGED hyps,
         row[j].attempt = att[w], row[j].status = "running", hyps[j] \subseteq {Exec(w)}
  PROVE  [Lifecycle!LifecycleNext]_(Lifecycle!lifecycleVars)
<1> USE DEF TypeOK, Row
<1>1. row' = [row EXCEPT ![j] = CompletedRow(@, Exec(w))]
  BY DEF CompleteJob
<1>2. /\ CompletedRow(row[j], Exec(w)).status = "completed"
      /\ CompletedRow(row[j], Exec(w)).attempt = row[j].attempt
      /\ CompletedRow(row[j], Exec(w)).result = Exec(w)
  BY DEF CompletedRow
<1>3. Lifecycle!Move(j, "running", "completed")
  BY <1>1, <1>2, MovesOne
<1>4. Shown(j)' = {row[j].attempt}
  <2>0. row'[j].status = "completed" /\ row'[j].result = Exec(w) /\ hyps'[j] = hyps[j]
    BY <1>1, <1>2
  <2>1. Shown(j)' = {e[2] : e \in hyps[j] \cup {Exec(w)}}
    BY <2>0 DEF Shown
  <2>2. hyps[j] \cup {Exec(w)} = {Exec(w)}
    OBVIOUS
  <2>3. Exec(w)[2] = row[j].attempt
    BY DEF Exec
  <2> QED BY <2>1, <2>2, <2>3
<1>5. \A k \in Jobs \ {j} : Shown(k)' = Shown(k)
  BY <1>1 DEF Shown
<1>6. [k \in Jobs |-> Shown(k)]'
        = [[k \in Jobs |-> Shown(k)] EXCEPT ![j] = {[k \in Jobs |-> row[k].attempt][j]}]
  BY <1>4, <1>5
<1>7. \A k \in Jobs : row'[k].attempt = row[k].attempt
  BY <1>1, <1>2
<1> QED BY <1>3, <1>6, <1>7, TriesUnchanged DEF Lifecycle!LifecycleNext, Lifecycle!Complete

LEMMA ApiImplements ==
  ASSUME TypeInv, LifeInv,
         \/ UNCHANGED vars
         \/ \E c \in Clients : RequestJob(c) \/ CreateStep(c)
         \/ \E j \in Jobs : CancelJob(j) \/ Age(j)
  PROVE  [Lifecycle!LifecycleNext]_(Lifecycle!lifecycleVars)
<1> USE DEF TypeInv, TypeOK, Row, dbVars
<1>1. UNCHANGED hyps
  BY DEF vars, RequestJob, CreateStep, ReadKey, ReadActive, InsertJob, RereadKey, RereadActive,
     CancelJob, Age
<1>2. CASE UNCHANGED row
  BY <1>1, <1>2, QuietStutters DEF ShownStays
<1>3. ASSUME NEW c \in Clients, InsertJob(c), ~UNCHANGED row
      PROVE  [Lifecycle!LifecycleNext]_(Lifecycle!lifecycleVars)
  <2>1. PICK j \in Jobs : row[j].status = "absent" /\ row' = [row EXCEPT ![j] = NewRow(c)]
    BY <1>3 DEF InsertJob
  <2>2. NewRow(c).status = "queued" /\ NewRow(c).attempt = 0 /\ row[j].attempt = 0
    BY <2>1 DEF NewRow, AbsentRow, LifeInv, AttemptsLeft
  <2>3. Lifecycle!Move(j, "absent", "queued")
    BY <2>1, <2>2, MovesOne
  <2>4. ShownStays /\ \A k \in Jobs : row'[k].attempt = row[k].attempt
    BY <1>1, <2>1, <2>2 DEF ShownStays
  <2> QED BY <2>3, <2>4, ShownUnchanged, TriesUnchanged DEF Lifecycle!LifecycleNext, Lifecycle!Submit
<1>4. ASSUME NEW j \in Jobs, CancelJob(j)
      PROVE  [Lifecycle!LifecycleNext]_(Lifecycle!lifecycleVars)
  <2>1. row[j].status = "queued" /\ row' = [row EXCEPT ![j] = CancelledRow(@)]
    BY <1>4 DEF CancelJob
  <2>2. CancelledRow(row[j]).status = "cancelled" /\ CancelledRow(row[j]).attempt = row[j].attempt
    BY DEF CancelledRow
  <2>3. Lifecycle!Move(j, "queued", "cancelled")
    BY <2>1, <2>2, MovesOne
  <2>4. ShownStays /\ \A k \in Jobs : row'[k].attempt = row[k].attempt
    BY <1>1, <2>1, <2>2 DEF ShownStays
  <2> QED BY <2>3, <2>4, ShownUnchanged, TriesUnchanged DEF Lifecycle!LifecycleNext, Lifecycle!Cancel
<1>5. ASSUME NEW j \in Jobs, Age(j)
      PROVE  [Lifecycle!LifecycleNext]_(Lifecycle!lifecycleVars)
  <2>1. \A k \in Jobs : /\ row'[k].status = row[k].status
                        /\ row'[k].attempt = row[k].attempt
                        /\ row'[k].result = row[k].result
    BY <1>5 DEF Age
  <2> QED BY <1>1, <2>1, QuietStutters DEF ShownStays
<1>6. \/ UNCHANGED row
      \/ \E c \in Clients : InsertJob(c)
      \/ \E j \in Jobs : CancelJob(j) \/ Age(j)
  BY DEF vars, RequestJob, CreateStep, ReadKey, ReadActive, RereadKey, RereadActive
<1> QED BY <1>2, <1>3, <1>4, <1>5, <1>6

LEMMA SweepImplements ==
  ASSUME TypeInv, SoleInv, LifeInv, NEW w \in Workers, WriteStale(w), ~UNCHANGED row
  PROVE  Lifecycle!LifecycleNext
<1> PICK S \in SUBSET Jobs : S = {j \in Jobs : snap[w][j] # 0}
  OBVIOUS
<1> USE DEF TypeInv, TypeOK, Row
<1>1. row' = Swept(w) /\ UNCHANGED hyps
  BY DEF WriteStale
<1>2. \A j \in S : row[j].status = "running" /\ snap[w][j] = row[j].attempt
  BY DEF SoleInv, SnapRuns, LifeInv, SnapCurrent
<1>3. ASSUME NEW j \in Jobs
      PROVE  /\ row'[j].attempt = row[j].attempt
             /\ j \notin S => row'[j] = row[j]
             /\ j \in S => row'[j].status = IF row[j].attempt < MaxAttempts THEN "queued" ELSE "failed"
  <2>1. CASE j \notin S
    BY <1>1, <2>1 DEF Swept
  <2>2. CASE j \in S
    <3>1. row'[j] = SweptRow(row[j], row[j].attempt)
      BY <1>1, <1>2, <2>2 DEF Swept
    <3> QED BY <2>2, <3>1, BoundsAssumption DEF SweptRow, FailedRow, RequeuedRow
  <2> QED BY <2>1, <2>2
<1>4. ShownStays
  BY <1>1, <1>2, <1>3 DEF ShownStays
<1>5. [j \in Jobs |-> row[j].status]' =
        [j \in Jobs |-> IF j \notin S THEN [k \in Jobs |-> row[k].status][j]
                        ELSE IF [k \in Jobs |-> row[k].attempt][j] < MaxAttempts
                             THEN "queued" ELSE "failed"]
  BY <1>3
<1>6. Lifecycle!Reclaim(S)
  BY <1>2, <1>3, <1>4, <1>5, ShownUnchanged, TriesUnchanged DEF Lifecycle!Reclaim
<1> QED BY <1>6 DEF Lifecycle!LifecycleNext

LEMMA PassImplements ==
  ASSUME OneWorker, TypeInv, SoleInv, LifeInv, NEW w \in Workers, PassStep(w) \/ Crash(w)
  PROVE  [Lifecycle!LifecycleNext]_(Lifecycle!lifecycleVars)
<1> USE DEF TypeInv, TypeOK, Row, BusyHasJob, dbVars
<1>1. UNCHANGED hyps
  BY DEF PassStep, ReadStale, WriteStale, SelectQueued, ClaimJob, EndPass, LoadJob, HandleEscaped, Crash
<1>2. CASE UNCHANGED row
  BY <1>1, <1>2, QuietStutters DEF ShownStays
<1>3. CASE WriteStale(w)
  BY <1>2, <1>3, SweepImplements
<1>4. ASSUME ClaimJob(w), ~UNCHANGED row
      PROVE  [Lifecycle!LifecycleNext]_(Lifecycle!lifecycleVars)
  <2>1. PICK j \in Jobs : row[j].status = "queued" /\ row' = [row EXCEPT ![j] = ClaimedRow(@)]
    BY <1>4 DEF ClaimJob
  <2>2. ClaimedRow(row[j]).status = "running" /\ ClaimedRow(row[j]).attempt = row[j].attempt + 1
    BY DEF ClaimedRow
  <2>3. Lifecycle!Move(j, "queued", "running")
    BY <2>1, <2>2, MovesOne
  <2>4. ShownStays
    BY <1>1, <2>1, <2>2 DEF ShownStays
  <2>5. [k \in Jobs |-> row[k].attempt]' = [[k \in Jobs |-> row[k].attempt] EXCEPT ![j] = @ + 1]
    BY <2>1, <2>2
  <2>6. [k \in Jobs |-> row[k].attempt][j] < MaxAttempts
    BY <2>1 DEF LifeInv, AttemptsLeft
  <2>7. Lifecycle!Start(j)
    BY <2>3, <2>4, <2>5, <2>6, ShownUnchanged DEF Lifecycle!Start
  <2> QED BY <2>7 DEF Lifecycle!LifecycleNext
<1>5. CASE HandleEscaped(w) /\ FailIfRunning(cur[w])
  <2>1. cur[w] \in Jobs
    BY <1>5 DEF HandleEscaped, BusyPcs
  <2> QED BY <1>1, <1>5, <2>1, FailImplements
<1>6. \/ UNCHANGED row \/ WriteStale(w) \/ ClaimJob(w)
      \/ HandleEscaped(w) /\ FailIfRunning(cur[w])
  BY DEF PassStep, ReadStale, SelectQueued, EndPass, LoadJob, HandleEscaped, Crash
<1> QED BY <1>2, <1>3, <1>4, <1>5, <1>6

LEMMA ExecuteImplements ==
  ASSUME OneWorker, TypeInv, SoleInv, LifeInv, NEW w \in Workers, ExecuteStep(w)
  PROVE  [Lifecycle!LifecycleNext]_(Lifecycle!lifecycleVars)
<1> USE DEF TypeInv, TypeOK, Row, dbVars
<1>1. Executing(w)
  BY DEF ExecuteStep, ClearArtifacts, Advance, UpdateProgress, CompleteEmpty, ProviderFails, HandlerFails,
         PersistHypotheses, ReportGrounding, LoadHypotheses, WriteAssessments, CompleteWithResults,
         InternalError, Recover, RecoverFails, Goto, Executing, ExecutionPcs
<1>2. cur[w] \in Jobs /\ row[cur[w]].status = "running" /\ row[cur[w]].attempt = att[w]
  BY <1>1 DEF Executing, BusyPcs, BusyHasJob, SoleInv, HeldRuns
<1>3. CASE /\ UNCHANGED row
           /\ UNCHANGED hyps \/ \E S : hyps' = [hyps EXCEPT ![cur[w]] = S]
  BY <1>2, <1>3, QuietStutters DEF ShownStays
<1>4. ASSUME NEW from, NEW stage, NEW to, UpdateProgress(w, from, stage, to), UNCHANGED hyps
      PROVE  [Lifecycle!LifecycleNext]_(Lifecycle!lifecycleVars)
  <2>1. \A k \in Jobs : /\ row'[k].status = row[k].status
                        /\ row'[k].attempt = row[k].attempt
                        /\ row'[k].result = row[k].result
    BY <1>4 DEF UpdateProgress
  <2> QED BY <1>4, <2>1, QuietStutters DEF ShownStays
<1>5. CASE CompleteEmpty(w) \/ CompleteWithResults(w)
  <2>1. pc[w] \in Writing /\ CompleteJob(w) /\ UNCHANGED hyps
    BY <1>5 DEF CompleteEmpty, CompleteWithResults, Writing, ExecutionPcs
  <2> QED BY <1>2, <2>1, CompleteImplements DEF LifeInv, OwnHyps
<1>6. CASE ProviderFails(w) \/ Recover(w)
  BY <1>2, <1>6, FailImplements DEF ProviderFails, Recover
<1>7. CASE Advance(w) \/ ReportGrounding(w)
  BY <1>4, <1>7 DEF Advance, ReportGrounding
<1>8. CASE ClearArtifacts(w) \/ PersistHypotheses(w)
  <2>1. UNCHANGED row /\ \E S : hyps' = [hyps EXCEPT ![cur[w]] = S]
    BY <1>8 DEF ClearArtifacts, PersistHypotheses
  <2> QED BY <1>3, <2>1
<1>9. CASE \/ HandlerFails(w) \/ LoadHypotheses(w) \/ WriteAssessments(w)
           \/ InternalError(w) \/ RecoverFails(w)
  BY <1>3, <1>9 DEF HandlerFails, LoadHypotheses, WriteAssessments, InternalError, RecoverFails
<1> QED BY <1>5, <1>6, <1>7, <1>8, <1>9 DEF ExecuteStep

LEMMA InitImplements == Init => Lifecycle!LifecycleInit
<1> SUFFICES ASSUME Init PROVE Lifecycle!LifecycleInit
  OBVIOUS
<1>1. \A j \in Jobs : row[j].status = "absent" /\ row[j].attempt = 0 /\ Shown(j) = {}
  BY DEF Init, AbsentRow, Shown
<1> QED BY <1>1 DEF Lifecycle!LifecycleInit

\* With one worker replica, whatever the requests, cancellations and crashes,
\* the job table does what JobLifecycle promises the client that polls a job.
THEOREM SoleWorkerImplements == ASSUME OneWorker PROVE Spec => ImplementsLifecycle
<1>1. TypeInv /\ SoleInv /\ LifeInv /\ [Next]_vars
        => [Lifecycle!LifecycleNext]_(Lifecycle!lifecycleVars)
  BY ApiImplements, PassImplements, ExecuteImplements DEF Next
<1> QED BY <1>1, InitImplements, InitSoleInv, NextSoleInv, InitLifeInv, NextLifeInv, TypeCorrect, PTL
        DEF Spec, ImplementsLifecycle, Lifecycle!LifecycleSpec
=============================================================================
