------------------------ MODULE DocumentPipeline_proofs ------------------------
(***************************************************************************)
(* What documents keep through any number of concurrent requests, for      *)
(* every number of documents, chunks, requests and ingestions; and what a  *)
(* retrieval request makes of the chunks, for every number of them.        *)
(*                                                                         *)
(* A request and the row it works on are related by what the request has   *)
(* read (SessionFits); a row changes in few ways (Evolves), and none of    *)
(* them invalidates what another request has read.                         *)
(*                                                                         *)
(* Fused and merged lists are lists by rank: a rank counts more than every *)
(* greater one, so a chunk that both branches prefer scores higher and     *)
(* stands first; and the first entry of any list survives every cut.  The  *)
(* invariant of a request (RequestInv) says what each search has read and  *)
(* found, and which searches run, have ended or never began at each step.  *)
(***************************************************************************)
EXTENDS DocumentPipeline, Retrieval, FiniteSetTheorems, SequenceTheorems, WellFoundedInduction,
        TLAPS

\* The jobs of a row, by the operation.
JobList(row, op) == IF op = "ingest" THEN row.ingestions ELSE row.embeddings

\* The vectors of a row are of its chunks, and complete where the last job
\* that completed has covered these chunks.
RowFits(row) ==
  /\ \A p \in Parts : row.vectors[p] \in {0, row.chunks}
  /\ row.covered <= row.chunks
  /\ row.covered = row.chunks => \A p \in Parts : row.vectors[p] = row.chunks

\* What a request that ingests, embeds, changes or deletes knows of its row: the
\* job it found or inserted is there, and what it has no more to embed is
\* embedded, unless the chunks were replaced since.
JobFits(s, row) ==
  /\ s.step = "found" => s.job <= Len(JobList(row, s.op))
  /\ s.step \in {"committed", "working", "replacing"} => s.job \in 1..Len(JobList(row, s.op))

ChunksFit(s, row) ==
  s.op = "embed" /\ s.step # "loaded" =>
    /\ s.chunks <= row.chunks
    /\ s.chunks = row.chunks => \A p \in Parts \ s.todo : row.vectors[p] = row.chunks

SessionFits(s, row) == JobFits(s, row) /\ ChunksFit(s, row)

\* What a step may make of a row.
Evolves(row, new) ==
  /\ row.chunks <= new.chunks
  /\ Len(row.ingestions) <= Len(new.ingestions)
  /\ Len(row.embeddings) <= Len(new.embeddings)
  /\ new.chunks = row.chunks => \A p \in Parts : new.vectors[p] \in {row.vectors[p], row.chunks}

LEMMA SessionFitsEvolved ==
  ASSUME NEW s \in Working, NEW row \in Row, NEW new \in Row, SessionFits(s, row), Evolves(row, new)
  PROVE  SessionFits(s, new)
<1>1. Len(JobList(row, s.op)) \in Nat /\ Len(JobList(new, s.op)) \in Nat
  BY DEF JobList, Row
<1>2. Len(JobList(row, s.op)) <= Len(JobList(new, s.op))
  BY DEF JobList, Evolves
<1>3. JobFits(s, new)
  BY <1>1, <1>2 DEF SessionFits, JobFits, Working
<1>4. ChunksFit(s, new)
  <2> SUFFICES ASSUME s.op = "embed", s.step # "loaded"
               PROVE  /\ s.chunks <= new.chunks
                      /\ s.chunks = new.chunks => \A p \in Parts \ s.todo : new.vectors[p] = new.chunks
    BY DEF ChunksFit
  <2>1. s.chunks \in Nat /\ row.chunks \in Nat /\ new.chunks \in Nat
    BY IngestionsAssumption DEF Working, Row, Generation
  <2>2. s.chunks <= row.chunks /\ (s.chunks = row.chunks => \A p \in Parts \ s.todo : row.vectors[p] = row.chunks)
    BY DEF SessionFits, ChunksFit
  <2>3. row.chunks <= new.chunks
    BY DEF Evolves
  <2>4. ASSUME s.chunks = new.chunks, NEW p \in Parts \ s.todo PROVE new.vectors[p] = new.chunks
    <3>1. s.chunks = row.chunks /\ new.chunks = row.chunks
      BY <2>1, <2>2, <2>3, <2>4
    <3>2. row.vectors[p] = row.chunks
      BY <2>2, <2>4, <3>1
    <3>3. new.vectors[p] \in {row.vectors[p], row.chunks}
      BY <2>4, <3>1 DEF Evolves
    <3> QED
      BY <3>1, <3>2, <3>3
  <2> QED
    BY <2>1, <2>2, <2>3, <2>4
<1> QED
  BY <1>3, <1>4 DEF SessionFits

LEMMA JobsAreListed ==
  ASSUME NEW d, NEW op
  PROVE  JobsOf(d, op) = JobList(documents[d], op)
BY DEF JobsOf, Jobs, JobList

-----------------------------------------------------------------------------
(* The inductive invariant. *)

Busy(c) == sessions[c] # None /\ sessions[c].op # "upload"

RowsFit == \A d \in Documents : Exists(d) => RowFits(documents[d])

SessionsFit ==
  \A c \in Clients : Busy(c) /\ Exists(sessions[c].document) =>
    SessionFits(sessions[c], documents[sessions[c].document])

\* An upload that stored its file is alone with a document that has no row yet.
UploadsPlaced ==
  \A c \in Clients :
    /\ \A step \in {"stored", "inserted"} : Step(c, "upload", step) => sessions[c].document \in Documents
    /\ Step(c, "upload", "stored") =>
         /\ sessions[c].document \in files
         /\ ~Exists(sessions[c].document)
         /\ sessions[c].document \notin stray
         /\ \A other \in Clients \ {c} :
              sessions[other] # None => sessions[other].document # sessions[c].document

\* The ingestions under way have room for their chunks.
IngestionsCounted ==
  \A d \in Documents : Exists(d) =>
    documents[d].chunks + Cardinality(Ingesting(d)) <= MaxIngestions

PipelineInv == TypeOK /\ RowsFit /\ SessionsFit /\ UploadsPlaced /\ IngestionsCounted

-----------------------------------------------------------------------------
(* What the commits make of a row. *)

LEMMA RowsAreRows ==
  ASSUME TypeOK, NEW d \in Documents, Exists(d)
  PROVE  documents[d] \in Row
BY DEF TypeOK, Exists

LEMMA BusyIsWorking ==
  ASSUME TypeOK, NEW c \in Clients, Busy(c)
  PROVE  sessions[c] \in Working
BY DEF TypeOK, Busy, Upload

LEMMA StepIsBusy ==
  ASSUME NEW c, NEW op, NEW step, Step(c, op, step), op # "upload"
  PROVE  Busy(c) /\ sessions[c].op = op /\ sessions[c].step = step
BY DEF Step, Busy

\* A commit that leaves the chunks alone and loses no job.
LEMMA ChunksAlone ==
  ASSUME NEW row \in Row, NEW new \in Row, RowFits(row),
         new.chunks = row.chunks, new.vectors = row.vectors, new.covered = row.covered,
         Len(row.ingestions) <= Len(new.ingestions), Len(row.embeddings) <= Len(new.embeddings)
  PROVE  RowFits(new) /\ Evolves(row, new)
<1>1. row.chunks \in Nat
  BY IngestionsAssumption DEF Row, Generation
<1>2. QED
  BY <1>1 DEF RowFits, Evolves

LEMMA WrittenType ==
  ASSUME NEW S, NEW copy, NEW value \in S, NEW stored \in S
  PROVE  Written(copy, value, stored) \in S
BY DEF Written

LEMMA JobListType ==
  ASSUME NEW row \in Row, NEW op
  PROVE  JobList(row, op) \in Seq(JobStatuses)
BY DEF Row, JobList

\* One job of a list is written; the others and their number stay.
LEMMA JobWritten ==
  ASSUME NEW jobs \in Seq(JobStatuses), NEW n \in 1..Len(jobs), NEW copy, NEW value \in JobStatuses
  PROVE  LET written == [jobs EXCEPT ![n] = Written(copy, value, @)]
         IN /\ written \in Seq(JobStatuses)
            /\ Len(written) = Len(jobs)
            /\ written[n] = Written(copy, value, jobs[n])
            /\ \A m \in 1..Len(jobs) : m # n => written[m] = jobs[m]
<1> DEFINE v == Written(copy, value, jobs[n])
<1>1. v \in JobStatuses
  BY DEF Written
<1> HIDE DEF v
<1>2. LET written == [jobs EXCEPT ![n] = v]
      IN /\ written \in Seq(JobStatuses) /\ Len(written) = Len(jobs) /\ written[n] = v
         /\ \A m \in 1..Len(jobs) : m # n => written[m] = jobs[m]
  BY <1>1
<1> QED
  BY <1>2 DEF v

\* The jobs after the first commit: the one found, or one more.
LEMMA StartedJobs ==
  ASSUME NEW c \in Clients, NEW op, NEW d \in Documents, documents[d] \in Row,
         sessions[c] \in Working, sessions[c].op = op, sessions[c].step = "found",
         JobFits(sessions[c], documents[d])
  PROVE  LET jobs == JobList(documents[d], op)
             new == JobsStarted(c, op, d)
         IN /\ new \in Seq(JobStatuses)
            /\ sessions[c].job = 0 => Len(new) = Len(jobs) + 1 /\ new[Len(jobs) + 1] = "PROCESSING"
            /\ sessions[c].job # 0 => Len(new) = Len(jobs)
            /\ \A m \in 1..Len(jobs) : m # sessions[c].job => new[m] = jobs[m]
<1> DEFINE jobs == JobList(documents[d], op)
           new == JobsStarted(c, op, d)
           n == sessions[c].job
<1>1. jobs \in Seq(JobStatuses) /\ n \in Nat /\ "PROCESSING" \in JobStatuses
  BY JobListType DEF Working, JobStatuses
<1>2. n <= Len(jobs)
  BY DEF JobFits
<1>3. CASE n = 0
  <2>1. new = Append(jobs, "PROCESSING")
    BY <1>3, JobsAreListed DEF JobsStarted
  <2> HIDE DEF jobs, new
  <2>2. /\ new \in Seq(JobStatuses) /\ Len(new) = Len(jobs) + 1 /\ new[Len(jobs) + 1] = "PROCESSING"
        /\ \A m \in 1..Len(jobs) : new[m] = jobs[m]
    BY <1>1, <2>1
  <2> QED
    BY <1>3, <2>2 DEF jobs, new
<1>4. CASE n # 0
  <2>1. n \in 1..Len(jobs)
    BY <1>1, <1>2, <1>4
  <2>2. new = [jobs EXCEPT ![n] = Written(sessions[c].jobStatus, "PROCESSING", @)]
    BY <1>4, JobsAreListed DEF JobsStarted
  <2> HIDE DEF jobs, new, n
  <2>3. /\ new \in Seq(JobStatuses) /\ Len(new) = Len(jobs)
        /\ \A m \in 1..Len(jobs) : m # n => new[m] = jobs[m]
    BY <1>1, <2>1, <2>2, JobWritten
  <2> QED
    BY <1>4, <2>3 DEF jobs, new, n
<1> QED
  BY <1>3, <1>4

\* A row whose jobs of one kind and whose status are changed is a row.
LEMMA RowWithJobs ==
  ASSUME NEW row \in Row, NEW jobs \in Seq(JobStatuses),
         NEW status \in Statuses, NEW embedding \in EmbeddingStatuses
  PROVE  /\ [row EXCEPT !.status = status, !.ingestions = jobs] \in Row
         /\ [row EXCEPT !.ingestions = jobs, !.status = status] \in Row
         /\ [row EXCEPT !.embedding = embedding, !.embeddings = jobs] \in Row
         /\ [row EXCEPT !.embeddings = jobs, !.embedding = embedding] \in Row
BY DEF Row

LEMMA StartedRow ==
  ASSUME NEW c \in Clients, NEW op, NEW d \in Documents, documents[d] \in Row, RowFits(documents[d]),
         sessions[c] \in Working, sessions[c].op = op, sessions[c].step = "found",
         JobFits(sessions[c], documents[d])
  PROVE  LET row == documents[d]
             new == RowStarted(c, op, d)
         IN /\ new \in Row /\ RowFits(new) /\ Evolves(row, new)
            /\ new.chunks = row.chunks
            /\ JobList(new, op) = JobsStarted(c, op, d)
            /\ op = "ingest" => /\ new.embedding = row.embedding
                                /\ new.status = Written(sessions[c].status, "PROCESSING", row.status)
            /\ op # "ingest" => /\ new.status = row.status /\ new.ingestions = row.ingestions
                                /\ new.embedding = Written(sessions[c].embedding, "PROCESSING", row.embedding)
<1> DEFINE row == documents[d]
           new == RowStarted(c, op, d)
           jobs == JobsStarted(c, op, d)
           status == Written(sessions[c].status, "PROCESSING", row.status)
           embedding == Written(sessions[c].embedding, "PROCESSING", row.embedding)
<1>1. /\ jobs \in Seq(JobStatuses) /\ Len(JobList(row, op)) <= Len(jobs)
  BY StartedJobs, JobListType
<1>2. status \in Statuses /\ embedding \in EmbeddingStatuses
  BY DEF Written, Row, Statuses, EmbeddingStatuses
<1>3. CASE op = "ingest"
  <2>1. new = [row EXCEPT !.status = status, !.ingestions = jobs]
    BY <1>3 DEF RowStarted
  <2> HIDE DEF status, jobs, new, row
  <2>2. new \in Row
    BY <1>1, <1>2, <2>1, RowWithJobs DEF row
  <2>3. /\ new.status = status /\ new.ingestions = jobs /\ new.embedding = row.embedding
        /\ new.embeddings = row.embeddings
        /\ new.chunks = row.chunks /\ new.vectors = row.vectors /\ new.covered = row.covered
    BY <2>1 DEF row, Row
  <2>4. Len(row.embeddings) \in Nat /\ Len(row.ingestions) <= Len(new.ingestions)
    BY <1>1, <1>3, <2>3 DEF JobList, row, Row
  <2>5. RowFits(new) /\ Evolves(row, new)
    BY <2>2, <2>3, <2>4, ChunksAlone DEF row
  <2> QED
    BY <1>3, <2>2, <2>3, <2>5 DEF JobList, status, jobs, new, row
<1>4. CASE op # "ingest"
  <2>1. new = [row EXCEPT !.embedding = embedding, !.embeddings = jobs]
    BY <1>4 DEF RowStarted
  <2> HIDE DEF embedding, jobs, new, row
  <2>2. new \in Row
    BY <1>1, <1>2, <2>1, RowWithJobs DEF row
  <2>3. /\ new.embedding = embedding /\ new.embeddings = jobs /\ new.status = row.status
        /\ new.ingestions = row.ingestions
        /\ new.chunks = row.chunks /\ new.vectors = row.vectors /\ new.covered = row.covered
    BY <2>1 DEF row, Row
  <2>4. Len(row.ingestions) \in Nat /\ Len(row.embeddings) <= Len(new.embeddings)
    BY <1>1, <1>4, <2>3 DEF JobList, row, Row
  <2>5. RowFits(new) /\ Evolves(row, new)
    BY <2>2, <2>3, <2>4, ChunksAlone DEF row
  <2> QED
    BY <1>4, <2>2, <2>3, <2>5 DEF JobList, embedding, jobs, new, row
<1> QED
  BY <1>3, <1>4

\* The last commit of a job: its own outcome and that of the document.
LEMMA EndedRow ==
  ASSUME NEW c \in Clients, NEW op, NEW d \in Documents, documents[d] \in Row, RowFits(documents[d]),
         sessions[c] \in Working, sessions[c].op = op,
         sessions[c].job \in 1..Len(JobList(documents[d], op)),
         NEW status \in Statuses, NEW embedding \in EmbeddingStatuses, NEW job \in JobStatuses
  PROVE  LET row == documents[d]
             new == RowEnded(c, op, d, status, embedding, job)
             jobs == JobList(row, op)
         IN /\ new \in Row /\ RowFits(new) /\ Evolves(row, new)
            /\ new.chunks = row.chunks /\ new.vectors = row.vectors /\ new.covered = row.covered
            /\ JobList(new, op) \in Seq(JobStatuses)
            /\ Len(JobList(new, op)) = Len(jobs)
            /\ JobList(new, op)[sessions[c].job] = Written(sessions[c].jobStatus, job, jobs[sessions[c].job])
            /\ \A m \in 1..Len(jobs) : m # sessions[c].job => JobList(new, op)[m] = jobs[m]
            /\ op = "ingest" => /\ new.embedding = row.embedding
                                /\ new.status = Written(sessions[c].status, status, row.status)
            /\ op # "ingest" => /\ new.status = row.status /\ new.ingestions = row.ingestions
                                /\ new.embedding = Written(sessions[c].embedding, embedding, row.embedding)
<1> DEFINE row == documents[d]
           new == RowEnded(c, op, d, status, embedding, job)
           jobs == JobList(row, op)
           written == [jobs EXCEPT ![sessions[c].job] = Written(sessions[c].jobStatus, job, @)]
           status1 == Written(sessions[c].status, status, row.status)
           embedding1 == Written(sessions[c].embedding, embedding, row.embedding)
<1>0. jobs \in Seq(JobStatuses)
  BY JobListType
<1>1. /\ written \in Seq(JobStatuses) /\ Len(written) = Len(jobs)
      /\ written[sessions[c].job] = Written(sessions[c].jobStatus, job, jobs[sessions[c].job])
      /\ \A m \in 1..Len(jobs) : m # sessions[c].job => written[m] = jobs[m]
  <2> HIDE DEF jobs
  <2>1. sessions[c].job \in 1..Len(jobs)
    BY DEF jobs
  <2> QED
    BY <1>0, <2>1, JobWritten
<1>2. status1 \in Statuses /\ embedding1 \in EmbeddingStatuses
  BY DEF Written, Row
<1>3. CASE op = "ingest"
  <2>1. new = [row EXCEPT !.ingestions = written, !.status = status1]
    BY <1>3, JobsAreListed DEF RowEnded
  <2> HIDE DEF status1, written, new, row, jobs
  <2>2. new \in Row
    BY <1>1, <1>2, <2>1, RowWithJobs DEF row
  <2>3. /\ new.status = status1 /\ new.ingestions = written /\ new.embedding = row.embedding
        /\ new.embeddings = row.embeddings
        /\ new.chunks = row.chunks /\ new.vectors = row.vectors /\ new.covered = row.covered
    BY <2>1 DEF row, Row
  <2>4. Len(row.embeddings) \in Nat /\ Len(jobs) \in Nat /\ jobs = row.ingestions
    BY <1>0, <1>3 DEF JobList, row, jobs, Row
  <2>5. RowFits(new) /\ Evolves(row, new)
    <3>1. Len(row.ingestions) <= Len(new.ingestions) /\ Len(row.embeddings) <= Len(new.embeddings)
      BY <1>1, <2>3, <2>4
    <3> QED BY <2>2, <2>3, <3>1, ChunksAlone DEF row
  <2>6. JobList(new, op) = written
    BY <1>3, <2>3 DEF JobList
  <2> QED
    BY <1>1, <1>3, <2>2, <2>3, <2>5, <2>6 DEF status1, jobs, new, row
<1>4. CASE op # "ingest"
  <2>1. new = [row EXCEPT !.embeddings = written, !.embedding = embedding1]
    BY <1>4, JobsAreListed DEF RowEnded
  <2> HIDE DEF embedding1, written, new, row, jobs
  <2>2. new \in Row
    BY <1>1, <1>2, <2>1, RowWithJobs DEF row
  <2>3. /\ new.embedding = embedding1 /\ new.embeddings = written /\ new.status = row.status
        /\ new.ingestions = row.ingestions
        /\ new.chunks = row.chunks /\ new.vectors = row.vectors /\ new.covered = row.covered
    BY <2>1 DEF row, Row
  <2>4. Len(row.ingestions) \in Nat /\ Len(jobs) \in Nat /\ jobs = row.embeddings
    BY <1>0, <1>4 DEF JobList, row, jobs, Row
  <2>5. RowFits(new) /\ Evolves(row, new)
    <3>1. Len(row.ingestions) <= Len(new.ingestions) /\ Len(row.embeddings) <= Len(new.embeddings)
      BY <1>1, <2>3, <2>4
    <3> QED BY <2>2, <2>3, <3>1, ChunksAlone DEF row
  <2>6. JobList(new, op) = written
    BY <1>4, <2>3 DEF JobList
  <2> QED
    BY <1>1, <1>4, <2>2, <2>3, <2>5, <2>6 DEF embedding1, jobs, new, row
<1> QED
  BY <1>3, <1>4

-----------------------------------------------------------------------------
(* Steps of a request that is at work on a document.                        *)

KeepsOthers(c) == \A other \in Clients \ {c} : sessions'[other] = sessions[other]

\* A row is left alone, or a commit writes it; new chunks had their place reserved.
WritesRow ==
  \/ UNCHANGED documents
  \/ \E d \in Documents, new \in Row :
       /\ Exists(d) /\ Save(d, new)
       /\ RowFits(new) /\ Evolves(documents[d], new)
       /\ \/ new.chunks = documents[d].chunks
          \/ new.chunks + Cardinality(Ingesting(d)') <= MaxIngestions

\* The request goes on with its document, or begins with one, or has ended.
Continues(c) ==
  Busy(c) /\ sessions'[c].op = sessions[c].op /\ sessions'[c].document = sessions[c].document

Begins(c, d) ==
  /\ sessions[c] = None /\ Exists(d) /\ UNCHANGED documents
  /\ sessions'[c].document = d
  /\ sessions'[c].op = "ingest" => documents[d].chunks + Cardinality(Ingesting(d)) < MaxIngestions

GoesOn(c) ==
  sessions'[c] # None =>
    /\ sessions'[c] \in Working
    /\ Continues(c) \/ \E d \in Documents : Begins(c, d)
    /\ Exists(sessions[c].document)' => SessionFits(sessions'[c], documents'[sessions'[c].document])

QuietStep(c) ==
  /\ sessions' \in [Clients -> Upload \cup Working \cup {None}]
  /\ abandoned' \subseteq Documents
  /\ KeepsOthers(c) /\ GoesOn(c) /\ WritesRow
  /\ UNCHANGED <<kb, files, stray>>

LEMMA EvolvesSame ==
  ASSUME NEW row \in Row
  PROVE  Evolves(row, row)
<1>1. row.chunks \in Nat /\ Len(row.ingestions) \in Nat /\ Len(row.embeddings) \in Nat
  BY IngestionsAssumption DEF Row, Generation
<1> QED
  BY <1>1 DEF Evolves

LEMMA RowsWritten ==
  ASSUME PipelineInv, WritesRow
  PROVE  /\ documents' \in [Documents -> Row \cup {None}]
         /\ \A d \in Documents : Exists(d)' <=> Exists(d)
         /\ \A d \in Documents : Exists(d) =>
              /\ documents'[d] \in Row /\ RowFits(documents'[d])
              /\ Evolves(documents[d], documents'[d])
              /\ \/ documents'[d].chunks = documents[d].chunks
                 \/ documents'[d].chunks + Cardinality(Ingesting(d)') <= MaxIngestions
<1>0. documents \in [Documents -> Row \cup {None}]
  BY DEF PipelineInv, TypeOK
<1>1. CASE UNCHANGED documents
  <2>1. \A d \in Documents : Exists(d) => documents[d] \in Row /\ RowFits(documents[d])
    BY RowsAreRows DEF PipelineInv, RowsFit
  <2> QED
    BY <1>0, <1>1, <2>1, EvolvesSame DEF Exists
<1>2. ASSUME NEW e \in Documents, NEW new \in Row, Exists(e), Save(e, new), RowFits(new),
             Evolves(documents[e], new),
             \/ new.chunks = documents[e].chunks
             \/ new.chunks + Cardinality(Ingesting(e)') <= MaxIngestions
      PROVE  /\ documents' \in [Documents -> Row \cup {None}]
             /\ \A d \in Documents : Exists(d)' <=> Exists(d)
             /\ \A d \in Documents : Exists(d) =>
                  /\ documents'[d] \in Row /\ RowFits(documents'[d])
                  /\ Evolves(documents[d], documents'[d])
                  /\ \/ documents'[d].chunks = documents[d].chunks
                     \/ documents'[d].chunks + Cardinality(Ingesting(d)') <= MaxIngestions
  <2>1. documents' = [documents EXCEPT ![e] = new]
    BY <1>2 DEF Save
  <2>2. documents'[e] = new /\ \A d \in Documents : d # e => documents'[d] = documents[d]
    BY <1>0, <2>1
  <2>3. new # None
    BY NoneAssumption
  <2>4. \A d \in Documents : Exists(d) => documents[d] \in Row /\ RowFits(documents[d])
    BY RowsAreRows DEF PipelineInv, RowsFit
  <2>5. documents' \in [Documents -> Row \cup {None}]
    BY <1>0, <2>1
  <2>6. \A d \in Documents : Exists(d)' <=> Exists(d)
    BY <1>2, <2>2, <2>3 DEF Exists
  <2>7. ASSUME NEW d \in Documents, Exists(d)
        PROVE  /\ documents'[d] \in Row /\ RowFits(documents'[d])
               /\ Evolves(documents[d], documents'[d])
               /\ \/ documents'[d].chunks = documents[d].chunks
                  \/ documents'[d].chunks + Cardinality(Ingesting(d)') <= MaxIngestions
    <3>1. CASE d = e
      BY <1>2, <2>2, <3>1
    <3>2. CASE d # e
      BY <2>2, <2>4, <2>7, <3>2, EvolvesSame
    <3> QED BY <3>1, <3>2
  <2> QED
    BY <2>5, <2>6, <2>7
<1> QED
  BY <1>1, <1>2 DEF WritesRow

\* Whoever ingests a document after such a step did so before.
LEMMA FewerIngesting ==
  ASSUME NEW c \in Clients, NEW d, KeepsOthers(c),
         sessions'[c] # None /\ sessions'[c].op = "ingest" /\ sessions'[c].document = d
           => c \in Ingesting(d)
  PROVE  /\ Ingesting(d)' \subseteq Ingesting(d)
         /\ Cardinality(Ingesting(d)') \in Nat /\ Cardinality(Ingesting(d)) \in Nat
         /\ Cardinality(Ingesting(d)') <= Cardinality(Ingesting(d))
<1>1. Ingesting(d)' \subseteq Ingesting(d)
  BY DEF Ingesting, KeepsOthers
<1>2. IsFiniteSet(Ingesting(d))
  BY ClientsAssumption, FS_Subset DEF Ingesting
<1>3. IsFiniteSet(Ingesting(d)')
  BY <1>1, <1>2, FS_Subset
<1> QED
  BY <1>1, <1>2, <1>3, FS_Subset, FS_CardinalityType

\* Or there is one more.
LEMMA OneMoreIngesting ==
  ASSUME NEW c \in Clients, NEW d, KeepsOthers(c)
  PROVE  /\ Cardinality(Ingesting(d)') \in Nat /\ Cardinality(Ingesting(d)) \in Nat
         /\ Cardinality(Ingesting(d)') <= Cardinality(Ingesting(d)) + 1
<1>1. Ingesting(d)' \subseteq Ingesting(d) \cup {c}
  BY DEF Ingesting, KeepsOthers
<1>2. IsFiniteSet(Ingesting(d))
  BY ClientsAssumption, FS_Subset DEF Ingesting
<1>3. /\ IsFiniteSet(Ingesting(d) \cup {c})
      /\ Cardinality(Ingesting(d) \cup {c}) \in {Cardinality(Ingesting(d)), Cardinality(Ingesting(d)) + 1}
  BY <1>2, FS_AddElement
<1>4. /\ IsFiniteSet(Ingesting(d)')
      /\ Cardinality(Ingesting(d)') <= Cardinality(Ingesting(d) \cup {c})
  BY <1>1, <1>3, FS_Subset
<1> QED
  BY <1>2, <1>3, <1>4, FS_CardinalityType

LEMMA QuietStepKeepsInv ==
  ASSUME PipelineInv, NEW c \in Clients, QuietStep(c)
  PROVE  PipelineInv'
<1>1. /\ documents' \in [Documents -> Row \cup {None}]
      /\ \A d \in Documents : Exists(d)' <=> Exists(d)
      /\ \A d \in Documents : Exists(d) =>
           /\ documents'[d] \in Row /\ RowFits(documents'[d])
           /\ Evolves(documents[d], documents'[d])
           /\ \/ documents'[d].chunks = documents[d].chunks
              \/ documents'[d].chunks + Cardinality(Ingesting(d)') <= MaxIngestions
  BY RowsWritten DEF QuietStep
<1>2. TypeOK'
  BY <1>1 DEF PipelineInv, TypeOK, QuietStep
<1>3. RowsFit'
  BY <1>1 DEF RowsFit
<1>4. SessionsFit'
  <2> SUFFICES ASSUME NEW x \in Clients, Busy(x)', Exists(sessions[x].document)'
               PROVE  SessionFits(sessions'[x], documents'[sessions'[x].document])
    BY DEF SessionsFit
  <2>1. CASE x = c
    BY <2>1 DEF QuietStep, GoesOn, Busy
  <2>2. CASE x # c
    <3>1. sessions'[x] = sessions[x] /\ Busy(x)
      BY <2>2 DEF QuietStep, KeepsOthers, Busy
    <3>2. sessions[x] \in Working /\ sessions[x].document \in Documents
      BY <3>1, BusyIsWorking DEF PipelineInv, Working
    <3>3. Exists(sessions[x].document)
      BY <1>1, <3>1, <3>2 DEF Exists
    <3>4. SessionFits(sessions[x], documents[sessions[x].document])
      BY <3>1, <3>3 DEF PipelineInv, SessionsFit
    <3> QED
      BY <1>1, <3>1, <3>2, <3>3, <3>4, RowsAreRows, SessionFitsEvolved DEF PipelineInv
  <2> QED BY <2>1, <2>2
<1>5. UploadsPlaced'
  <2> SUFFICES ASSUME NEW x \in Clients
               PROVE  /\ \A step \in {"stored", "inserted"} :
                           Step(x, "upload", step)' => sessions'[x].document \in Documents
                      /\ Step(x, "upload", "stored")' =>
                           /\ sessions'[x].document \in files'
                           /\ ~Exists(sessions[x].document)'
                           /\ sessions'[x].document \notin stray'
                           /\ \A other \in Clients \ {x} :
                                sessions'[other] # None => sessions'[other].document # sessions'[x].document
    BY DEF UploadsPlaced
  <2>1. CASE x = c
    BY <2>1 DEF QuietStep, GoesOn, Step, Working
  <2>2. CASE x # c
    <3>1. sessions'[x] = sessions[x] /\ \A step : Step(x, "upload", step)' <=> Step(x, "upload", step)
      BY <2>2 DEF QuietStep, KeepsOthers, Step
    <3>2. \A other \in Clients : sessions'[other] # None =>
            \/ sessions[other] # None /\ sessions'[other].document = sessions[other].document
            \/ Exists(sessions'[other].document)
      BY DEF QuietStep, KeepsOthers, GoesOn, Busy, Continues, Begins
    <3>3. UploadsPlaced
      BY DEF PipelineInv
    <3> QED
      BY <1>1, <3>1, <3>2, <3>3 DEF QuietStep, UploadsPlaced, Exists
  <2> QED BY <2>1, <2>2
<1>6. IngestionsCounted'
  <2> SUFFICES ASSUME NEW d \in Documents, Exists(d)',
                      documents'[d].chunks = documents[d].chunks
               PROVE  documents'[d].chunks + Cardinality(Ingesting(d)') <= MaxIngestions
    BY <1>1 DEF IngestionsCounted
  <2>1. Exists(d) /\ documents[d].chunks \in Nat
    BY <1>1, RowsAreRows, IngestionsAssumption DEF PipelineInv, Row, Generation
  <2>2. documents[d].chunks + Cardinality(Ingesting(d)) <= MaxIngestions
    BY <2>1 DEF PipelineInv, IngestionsCounted
  <2>3. CASE sessions'[c] # None /\ sessions'[c].op = "ingest" /\ sessions'[c].document = d
               /\ Begins(c, d)
    <3>1. documents[d].chunks + Cardinality(Ingesting(d)) < MaxIngestions
      BY <2>3 DEF Begins
    <3>2. /\ Cardinality(Ingesting(d)') \in Nat /\ Cardinality(Ingesting(d)) \in Nat
          /\ Cardinality(Ingesting(d)') <= Cardinality(Ingesting(d)) + 1
      BY OneMoreIngesting DEF QuietStep
    <3> QED BY <2>1, <3>1, <3>2, IngestionsAssumption
  <2>4. CASE ~(sessions'[c] # None /\ sessions'[c].op = "ingest" /\ sessions'[c].document = d
               /\ Begins(c, d))
    <3>1. sessions'[c] # None /\ sessions'[c].op = "ingest" /\ sessions'[c].document = d
            => c \in Ingesting(d)
      BY <2>4 DEF QuietStep, GoesOn, Ingesting, Busy, Continues, Begins
    <3>2. /\ Cardinality(Ingesting(d)') \in Nat /\ Cardinality(Ingesting(d)) \in Nat
          /\ Cardinality(Ingesting(d)') <= Cardinality(Ingesting(d))
      BY <3>1, FewerIngesting DEF QuietStep
    <3> QED BY <2>1, <2>2, <3>2, IngestionsAssumption
  <2> QED BY <2>3, <2>4
<1> QED
  BY <1>2, <1>3, <1>4, <1>5, <1>6 DEF PipelineInv

-----------------------------------------------------------------------------
(* Each operation on a document as such a step. *)

LEMMA SessionSet ==
  ASSUME TypeOK, NEW c \in Clients, NEW s \in Upload \cup Working \cup {None},
         sessions' = [sessions EXCEPT ![c] = s]
  PROVE  /\ sessions' \in [Clients -> Upload \cup Working \cup {None}]
         /\ KeepsOthers(c) /\ sessions'[c] = s
BY DEF TypeOK, KeepsOthers

LEMMA EndsQuietly ==
  ASSUME PipelineInv, NEW c \in Clients, End(c), WritesRow, abandoned' \subseteq Documents,
         UNCHANGED <<kb, files, stray>>
  PROVE  QuietStep(c)
<1>1. /\ sessions' \in [Clients -> Upload \cup Working \cup {None}]
      /\ KeepsOthers(c) /\ sessions'[c] = None
  BY SessionSet DEF End, PipelineInv
<1> QED
  BY <1>1 DEF QuietStep, GoesOn

LEMMA FindJobQuiet ==
  ASSUME PipelineInv, NEW c \in Clients, FindJob(c)
  PROVE  QuietStep(c)
<1> DEFINE s == sessions[c]
           d == s.document
           row == documents[d]
           new == sessions'[c]
<1>1. /\ Busy(c) /\ s \in Working /\ d \in Documents /\ s.step = "loaded" /\ s.op \in {"ingest", "embed"}
  <2>1. Busy(c) /\ s.step = "loaded" /\ s.op \in {"ingest", "embed"}
    BY DEF FindJob, Step, Busy
  <2> QED BY <2>1, BusyIsWorking DEF PipelineInv, Working
<1>2. CASE CanStart(s.op, d)
  <2> DEFINE job == Len(JobsOf(d, s.op))
             jobStatus == IF s.job # 0 THEN s.jobStatus
                          ELSE IF JobsOf(d, s.op) = <<>> THEN "PROCESSING" ELSE JobsOf(d, s.op)[1]
             todo == {p \in Parts : row.vectors[p] # row.chunks}
             found == [s EXCEPT !.step = "found", !.job = job, !.jobStatus = jobStatus,
                                !.chunks = row.chunks, !.todo = todo]
  <2>1. row \in Row /\ Exists(d)
    BY <1>1, <1>2, RowsAreRows DEF CanStart, PipelineInv
  <2>2. JobsOf(d, s.op) = JobList(row, s.op) /\ JobList(row, s.op) \in Seq(JobStatuses)
    BY <2>1, JobsAreListed, JobListType
  <2>3. /\ job \in Nat /\ jobStatus \in JobStatuses /\ row.chunks \in Generation /\ todo \in SUBSET Parts
    BY <1>1, <2>1, <2>2 DEF Working, Row, JobStatuses
  <2>4. sessions' = [sessions EXCEPT ![c] = found]
    BY <1>1, <1>2 DEF FindJob
  <2> HIDE DEF job, jobStatus, todo
  <2>5. /\ found \in Working
        /\ found.op = s.op /\ found.document = d /\ found.step = "found" /\ found.job = job
        /\ found.chunks = row.chunks /\ found.todo = todo
    BY <1>1, <2>3 DEF Working
  <2> HIDE DEF found
  <2>6. /\ sessions' \in [Clients -> Upload \cup Working \cup {None}]
        /\ KeepsOthers(c) /\ new = found
    BY <2>4, <2>5, SessionSet DEF PipelineInv
  <2>7. UNCHANGED <<kb, documents, files, abandoned, stray>>
    BY DEF FindJob
  <2>8. SessionFits(found, row)
    <3>1. JobFits(found, row)
      BY <2>2, <2>5 DEF JobFits, job
    <3>2. ChunksFit(found, row)
      BY <2>1, <2>5, IngestionsAssumption DEF ChunksFit, todo, Row, Generation
    <3> QED BY <3>1, <3>2 DEF SessionFits
  <2>9. GoesOn(c)
    BY <1>1, <2>5, <2>6, <2>7, <2>8 DEF GoesOn, Continues
  <2> QED
    BY <2>6, <2>7, <2>9 DEF QuietStep, WritesRow, PipelineInv, TypeOK
<1>3. CASE ~CanStart(s.op, d)
  <2>1. End(c) /\ UNCHANGED <<kb, documents, files, abandoned, stray>>
    BY <1>3 DEF FindJob
  <2> QED
    BY <2>1, EndsQuietly DEF WritesRow, PipelineInv, TypeOK
<1> QED
  BY <1>2, <1>3

\* A request at step of an ingestion or an embedding, and its row.
LEMMA AtWork ==
  ASSUME PipelineInv, NEW c \in Clients, NEW op \in {"ingest", "embed"}, NEW step, Step(c, op, step)
  PROVE  /\ Busy(c) /\ sessions[c] \in Working /\ sessions[c].document \in Documents
         /\ sessions[c].op = op /\ sessions[c].step = step
         /\ Exists(sessions[c].document) =>
              /\ documents[sessions[c].document] \in Row
              /\ RowFits(documents[sessions[c].document])
              /\ SessionFits(sessions[c], documents[sessions[c].document])
<1>1. Busy(c) /\ sessions[c].op = op /\ sessions[c].step = step
  BY StepIsBusy
<1>2. sessions[c] \in Working /\ sessions[c].document \in Documents
  BY <1>1, BusyIsWorking DEF PipelineInv, Working
<1> QED
  BY <1>1, <1>2, RowsAreRows DEF PipelineInv, RowsFit, SessionsFit

LEMMA RowSaved ==
  ASSUME PipelineInv, NEW d \in Documents, NEW new \in Row, Exists(d), Save(d, new)
  PROVE  Exists(d)' /\ documents'[d] = new
BY NoneAssumption DEF PipelineInv, TypeOK, Save, Exists

LEMMA StartJobQuiet ==
  ASSUME PipelineInv, NEW c \in Clients, StartJob(c)
  PROVE  QuietStep(c)
<1> DEFINE s == sessions[c]
           d == s.document
           row == documents[d]
           op == s.op
<1>1. PICK o \in {"ingest", "embed"} : Step(c, o, "found")
  BY DEF StartJob
<1>2. /\ Busy(c) /\ s \in Working /\ d \in Documents /\ op = o /\ s.step = "found"
      /\ Exists(d) => row \in Row /\ RowFits(row) /\ SessionFits(s, row)
  BY <1>1, AtWork
<1>3. CASE Exists(d)
  <2> DEFINE new == RowStarted(c, op, d)
             job == IF s.job = 0 THEN Len(JobsOf(d, op)) + 1 ELSE s.job
             started == [s EXCEPT !.step = "committed", !.job = job]
  <2>1. Save(d, new) /\ UNCHANGED <<kb, files, abandoned, stray>>
    BY <1>3 DEF StartJob
  <2>2. sessions' = [sessions EXCEPT ![c] = started]
    BY <1>2, <1>3 DEF StartJob
  <2>3. /\ new \in Row /\ RowFits(new) /\ Evolves(row, new) /\ new.chunks = row.chunks
        /\ JobList(new, op) = JobsStarted(c, op, d)
    BY <1>2, <1>3, StartedRow DEF SessionFits
  <2>4. /\ JobsStarted(c, op, d) \in Seq(JobStatuses)
        /\ s.job = 0 => Len(JobsStarted(c, op, d)) = Len(JobList(row, op)) + 1
        /\ s.job # 0 => Len(JobsStarted(c, op, d)) = Len(JobList(row, op))
    BY <1>2, <1>3, StartedJobs DEF SessionFits
  <2>5. job \in 1..Len(JobsStarted(c, op, d))
    <3>1. JobsOf(d, op) = JobList(row, op) /\ Len(JobList(row, op)) \in Nat
      BY <1>2, <1>3, JobsAreListed, JobListType
    <3>2. s.job \in Nat /\ s.job <= Len(JobList(row, op))
      BY <1>2, <1>3 DEF SessionFits, JobFits, Working
    <3> QED BY <2>4, <3>1, <3>2
  <2> HIDE DEF new, job
  <2>6. job \in Nat
    BY <2>4, <2>5
  <2>7. /\ started \in Working /\ started.op = op /\ started.document = d
        /\ started.step = "committed" /\ started.job = job
        /\ started.chunks = s.chunks /\ started.todo = s.todo
    BY <1>2, <2>6 DEF Working
  <2> HIDE DEF started
  <2>8. /\ sessions' \in [Clients -> Upload \cup Working \cup {None}]
        /\ KeepsOthers(c) /\ sessions'[c] = started
    BY <2>2, <2>7, SessionSet DEF PipelineInv
  <2>9. documents'[d] = new /\ WritesRow
    BY <1>2, <1>3, <2>1, <2>3, RowSaved DEF WritesRow
  <2>10. SessionFits(started, new)
    <3>1. SessionFits(s, new)
      BY <1>2, <1>3, <2>3, SessionFitsEvolved
    <3>2. ChunksFit(started, new)
      BY <1>2, <2>7, <3>1 DEF SessionFits, ChunksFit
    <3>3. JobFits(started, new)
      BY <2>3, <2>5, <2>7 DEF JobFits
    <3> QED BY <3>2, <3>3 DEF SessionFits
  <2>11. GoesOn(c)
    BY <1>2, <2>7, <2>8, <2>9, <2>10 DEF GoesOn, Continues
  <2> QED
    BY <2>1, <2>8, <2>9, <2>11 DEF QuietStep, PipelineInv, TypeOK
<1>4. CASE ~Exists(d)
  <2>1. End(c) /\ UNCHANGED <<kb, documents, files, abandoned, stray>>
    BY <1>4 DEF StartJob
  <2> QED
    BY <2>1, EndsQuietly DEF WritesRow, PipelineInv, TypeOK
<1> QED
  BY <1>3, <1>4

LEMMA RefreshQuiet ==
  ASSUME PipelineInv, NEW c \in Clients, Refresh(c)
  PROVE  QuietStep(c)
<1> DEFINE s == sessions[c]
           d == s.document
           row == documents[d]
           op == s.op
<1>1. PICK o \in {"ingest", "embed"} : Step(c, o, "committed")
  BY DEF Refresh
<1>2. /\ Busy(c) /\ s \in Working /\ d \in Documents /\ op = o /\ s.step = "committed"
      /\ Exists(d) => row \in Row /\ RowFits(row) /\ SessionFits(s, row)
  BY <1>1, AtWork
<1>0. UNCHANGED <<kb, documents, files, abandoned, stray>>
  BY DEF Refresh
<1>3. CASE Exists(d)
  <2> DEFINE read == [s EXCEPT !.step = "working", !.status = row.status, !.embedding = row.embedding,
                               !.jobStatus = JobsOf(d, op)[s.job]]
  <2>1. sessions' = [sessions EXCEPT ![c] = read]
    BY <1>2, <1>3 DEF Refresh
  <2>2. JobsOf(d, op)[s.job] \in JobStatuses /\ s.job \in 1..Len(JobList(row, op))
    <3>1. JobsOf(d, op) = JobList(row, op) /\ JobList(row, op) \in Seq(JobStatuses)
      BY <1>2, <1>3, JobsAreListed, JobListType
    <3>2. s.job \in 1..Len(JobList(row, op))
      BY <1>2, <1>3 DEF SessionFits, JobFits
    <3> QED BY <3>1, <3>2
  <2>3. /\ read \in Working /\ read.op = op /\ read.document = d
        /\ read.step = "working" /\ read.job = s.job
        /\ read.chunks = s.chunks /\ read.todo = s.todo
    BY <1>2, <1>3, <2>2 DEF Working, Row
  <2> HIDE DEF read
  <2>4. /\ sessions' \in [Clients -> Upload \cup Working \cup {None}]
        /\ KeepsOthers(c) /\ sessions'[c] = read
    BY <2>1, <2>3, SessionSet DEF PipelineInv
  <2>5. SessionFits(read, row)
    BY <1>2, <1>3, <2>2, <2>3 DEF SessionFits, JobFits, ChunksFit
  <2>6. GoesOn(c)
    BY <1>0, <1>2, <2>3, <2>4, <2>5 DEF GoesOn, Continues
  <2> QED
    BY <1>0, <2>4, <2>6 DEF QuietStep, WritesRow, PipelineInv, TypeOK
<1>4. CASE ~Exists(d)
  <2>1. End(c)
    BY <1>4 DEF Refresh
  <2> QED
    BY <1>0, <2>1, EndsQuietly DEF WritesRow, PipelineInv, TypeOK
<1> QED
  BY <1>3, <1>4

LEMMA FailJobQuiet ==
  ASSUME PipelineInv, NEW c \in Clients, FailJob(c)
  PROVE  QuietStep(c)
<1> DEFINE s == sessions[c]
           d == s.document
           new == RowEnded(c, s.op, d, "FAILED", "FAILED", "FAILED")
<1>1. PICK o \in {"ingest", "embed"} : Step(c, o, "working")
  BY DEF FailJob
<1>2. /\ Busy(c) /\ s \in Working /\ d \in Documents /\ s.op = o /\ s.step = "working"
      /\ Exists(d) => documents[d] \in Row /\ RowFits(documents[d]) /\ SessionFits(s, documents[d])
  BY <1>1, AtWork
<1>3. End(c) /\ UNCHANGED <<kb, files, abandoned, stray>>
  BY DEF FailJob
<1>4. WritesRow
  <2>1. CASE Exists(d)
    <3>1. Save(d, new)
      BY <2>1 DEF FailJob
    <3>0. /\ s.job \in 1..Len(JobList(documents[d], s.op))
          /\ "FAILED" \in Statuses /\ "FAILED" \in EmbeddingStatuses /\ "FAILED" \in JobStatuses
      BY <1>2, <2>1 DEF SessionFits, JobFits, Statuses, EmbeddingStatuses, JobStatuses
    <3>2. new \in Row /\ RowFits(new) /\ Evolves(documents[d], new) /\ new.chunks = documents[d].chunks
      BY <1>2, <2>1, <3>0, EndedRow
    <3> QED BY <1>2, <2>1, <3>1, <3>2 DEF WritesRow
  <2>2. CASE ~Exists(d)
    BY <2>2 DEF FailJob, WritesRow
  <2> QED BY <2>1, <2>2
<1> QED
  BY <1>3, <1>4, EndsQuietly DEF PipelineInv, TypeOK

LEMMA AbandonQuiet ==
  ASSUME PipelineInv, NEW c \in Clients, Busy(c), Abandon(c)
  PROVE  QuietStep(c)
<1>1. sessions[c].document \in Documents
  BY BusyIsWorking DEF PipelineInv, Working
<1>2. End(c) /\ UNCHANGED <<kb, documents, files, stray>> /\ abandoned' \subseteq Documents
  BY <1>1 DEF Abandon, PipelineInv, TypeOK
<1> QED
  BY <1>2, EndsQuietly DEF WritesRow

LEMMA DeleteChunksQuiet ==
  ASSUME PipelineInv, NEW c \in Clients, DeleteChunks(c)
  PROVE  QuietStep(c)
<1> DEFINE s == sessions[c]
           d == s.document
           row == documents[d]
           replacing == [s EXCEPT !.step = "replacing", !.chunks = row.chunks]
<1>1. Step(c, "ingest", "working") /\ Exists(d) /\ UNCHANGED <<kb, documents, files, abandoned, stray>>
  BY DEF DeleteChunks
<1>2. /\ Busy(c) /\ s \in Working /\ d \in Documents /\ s.op = "ingest" /\ s.step = "working"
      /\ row \in Row /\ SessionFits(s, row)
  BY <1>1, AtWork
<1>3. sessions' = [sessions EXCEPT ![c] = replacing]
  BY <1>2 DEF DeleteChunks
<1>4. /\ replacing \in Working /\ replacing.op = "ingest" /\ replacing.document = d
      /\ replacing.step = "replacing" /\ replacing.job = s.job
  BY <1>2 DEF Working, Row
<1> HIDE DEF replacing
<1>5. /\ sessions' \in [Clients -> Upload \cup Working \cup {None}]
      /\ KeepsOthers(c) /\ sessions'[c] = replacing
  BY <1>3, <1>4, SessionSet DEF PipelineInv
<1>6. SessionFits(replacing, row)
  BY <1>2, <1>4 DEF SessionFits, JobFits, ChunksFit
<1>7. GoesOn(c)
  BY <1>1, <1>2, <1>4, <1>5, <1>6 DEF GoesOn, Continues
<1> QED
  BY <1>1, <1>5, <1>7 DEF QuietStep, WritesRow, PipelineInv, TypeOK

\* Of any natural numbers one is the least.
LEMMA LeastNatural ==
  ASSUME NEW T \in SUBSET Nat, T # {}
  PROVE  \E m \in T : \A n \in T : m <= n
<1>1. PICK m \in T : \A n \in T : ~(<<n, m>> \in OpToRel(<, Nat))
  BY NatLessThanWellFounded, WFMin
<1>2. \A n \in T : ~(n < m)
  BY <1>1 DEF OpToRel
<1> QED
  BY <1>2

\* The next chunk of a batch is one that has no vector yet.
LEMMA NextPartType ==
  ASSUME NEW c, sessions[c].todo \subseteq Parts, sessions[c].todo # {}
  PROVE  NextPart(c) \in sessions[c].todo
<1>0. sessions[c].todo \in SUBSET Nat
  BY PartsAssumption
<1>1. \E p \in sessions[c].todo : \A q \in sessions[c].todo : p <= q
  BY <1>0, LeastNatural
<1> QED
  BY <1>1 DEF NextPart

\* A request that embeds, and one chunk less to do.
LEMMA LessToDo ==
  ASSUME NEW s \in Working, NEW part, s.op = "embed", s.step = "working"
  PROVE  LET rest == [s EXCEPT !.todo = @ \ {part}]
         IN /\ rest \in Working /\ rest.op = "embed" /\ rest.step = "working"
            /\ rest.document = s.document /\ rest.job = s.job /\ rest.chunks = s.chunks
            /\ rest.todo = s.todo \ {part}
            /\ rest.embedding = s.embedding /\ rest.jobStatus = s.jobStatus
BY DEF Working

LEMMA EmbedBatchQuiet ==
  ASSUME PipelineInv, NEW c \in Clients, EmbedBatch(c)
  PROVE  QuietStep(c)
<1> DEFINE s == sessions[c]
           d == s.document
           row == documents[d]
           part == NextPart(c)
           new == [row EXCEPT !.vectors[part] = s.chunks]
           rest == [s EXCEPT !.todo = @ \ {part}]
<1>1. /\ Step(c, "embed", "working") /\ s.todo # {} /\ Exists(d) /\ row.chunks = s.chunks
      /\ UNCHANGED <<kb, files, abandoned, stray>>
  BY DEF EmbedBatch, StillThere
<1>2. /\ Busy(c) /\ s \in Working /\ d \in Documents /\ s.op = "embed" /\ s.step = "working"
      /\ row \in Row /\ RowFits(row) /\ SessionFits(s, row)
  BY <1>1, AtWork
<1>3. part \in s.todo /\ part \in Parts
  BY <1>1, <1>2, NextPartType DEF Working
<1>4. Save(d, new) /\ sessions' = [sessions EXCEPT ![c] = rest]
  BY <1>1, <1>2 DEF EmbedBatch, Save
<1>5. /\ rest \in Working /\ rest.op = "embed" /\ rest.step = "working"
      /\ rest.document = d /\ rest.job = s.job /\ rest.chunks = s.chunks
      /\ rest.todo = s.todo \ {part}
  BY <1>2, LessToDo
<1> HIDE DEF part
<1>6. /\ new \in Row /\ new.chunks = row.chunks /\ new.covered = row.covered
      /\ new.ingestions = row.ingestions /\ new.embeddings = row.embeddings
      /\ new.vectors[part] = row.chunks
      /\ \A p \in Parts : p # part => new.vectors[p] = row.vectors[p]
  BY <1>1, <1>2, <1>3 DEF Row
<1> HIDE DEF new, rest
<1>7. RowFits(new) /\ Evolves(row, new)
  <2>1. \A p \in Parts : new.vectors[p] \in {row.vectors[p], row.chunks}
    BY <1>6
  <2>2. RowFits(new)
    BY <1>2, <1>6, <2>1 DEF RowFits
  <2>3. Evolves(row, row)
    BY <1>2, EvolvesSame
  <2> QED BY <1>6, <2>1, <2>2, <2>3 DEF Evolves
<1>8. /\ sessions' \in [Clients -> Upload \cup Working \cup {None}]
      /\ KeepsOthers(c) /\ sessions'[c] = rest
  BY <1>4, <1>5, SessionSet DEF PipelineInv
<1>9. documents'[d] = new /\ WritesRow
  BY <1>1, <1>2, <1>4, <1>6, <1>7, RowSaved DEF WritesRow
<1>10. SessionFits(rest, new)
  <2>1. JobFits(rest, new)
    BY <1>2, <1>5, <1>6 DEF SessionFits, JobFits, JobList
  <2>2. \A p \in Parts \ rest.todo : new.vectors[p] = new.chunks
    BY <1>1, <1>2, <1>5, <1>6 DEF SessionFits, ChunksFit
  <2>3. rest.chunks <= new.chunks
    BY <1>2, <1>5, <1>6 DEF SessionFits, ChunksFit
  <2> QED BY <2>1, <2>2, <2>3 DEF SessionFits, ChunksFit
<1>11. GoesOn(c)
  BY <1>2, <1>5, <1>8, <1>9, <1>10 DEF GoesOn, Continues
<1> QED
  BY <1>1, <1>8, <1>9, <1>11 DEF QuietStep, PipelineInv, TypeOK

LEMMA BatchVanishedQuiet ==
  ASSUME PipelineInv, NEW c \in Clients, BatchVanished(c)
  PROVE  QuietStep(c)
<1> DEFINE s == sessions[c]
           d == s.document
           row == documents[d]
           part == NextPart(c)
           rest == [s EXCEPT !.todo = @ \ {part}]
<1>1. Step(c, "embed", "working") /\ ~StillThere(c)
  BY DEF BatchVanished
<1>2. /\ Busy(c) /\ s \in Working /\ d \in Documents /\ s.op = "embed" /\ s.step = "working"
      /\ Exists(d) => row \in Row /\ SessionFits(s, row)
  BY <1>1, AtWork
<1>3. CASE Abandon(c)
  BY <1>2, <1>3, AbandonQuiet
<1>4. CASE /\ sessions' = [sessions EXCEPT ![c].todo = @ \ {NextPart(c)}]
           /\ UNCHANGED <<kb, documents, files, abandoned, stray>>
  <2>1. sessions' = [sessions EXCEPT ![c] = rest]
    BY <1>2, <1>4
  <2>2. /\ rest \in Working /\ rest.op = "embed" /\ rest.step = "working"
        /\ rest.document = d /\ rest.job = s.job /\ rest.chunks = s.chunks
    BY <1>2, LessToDo
  <2> HIDE DEF rest
  <2>3. /\ sessions' \in [Clients -> Upload \cup Working \cup {None}]
        /\ KeepsOthers(c) /\ sessions'[c] = rest
    BY <2>1, <2>2, SessionSet DEF PipelineInv
  <2>4. Exists(d) => SessionFits(rest, row)
    BY <1>1, <1>2, <2>2 DEF StillThere, SessionFits, JobFits, ChunksFit
  <2>5. GoesOn(c)
    BY <1>2, <1>4, <2>2, <2>3, <2>4 DEF GoesOn, Continues, Exists
  <2> QED
    BY <1>4, <2>3, <2>5 DEF QuietStep, WritesRow, PipelineInv, TypeOK
<1> QED
  BY <1>3, <1>4 DEF BatchVanished

LEMMA FinishEmbeddingQuiet ==
  ASSUME PipelineInv, NEW c \in Clients, FinishEmbedding(c)
  PROVE  QuietStep(c)
<1> DEFINE s == sessions[c]
           d == s.document
           row == documents[d]
           ended == RowEnded(c, "embed", d, "READY", "COMPLETED", "COMPLETED")
           new == [ended EXCEPT !.covered = s.chunks]
<1>1. /\ Step(c, "embed", "working") /\ s.todo = {} /\ UNCHANGED <<kb, files, stray>>
      /\ End(c) /\ UNCHANGED abandoned
  BY DEF FinishEmbedding, NothingLeft
<1>2. /\ Busy(c) /\ s \in Working /\ d \in Documents /\ s.op = "embed" /\ s.step = "working"
      /\ Exists(d) => row \in Row /\ RowFits(row) /\ SessionFits(s, row)
  BY <1>1, AtWork
<1>3. WritesRow
  <2>1. CASE Exists(d)
    <3>1. Save(d, new)
      BY <2>1 DEF FinishEmbedding
    <3>2. /\ s.job \in 1..Len(JobList(row, "embed"))
          /\ "READY" \in Statuses /\ "COMPLETED" \in EmbeddingStatuses /\ "COMPLETED" \in JobStatuses
      BY <1>2, <2>1 DEF SessionFits, JobFits, Statuses, EmbeddingStatuses, JobStatuses
    <3>3. /\ ended \in Row /\ RowFits(ended) /\ Evolves(row, ended)
          /\ ended.chunks = row.chunks /\ ended.vectors = row.vectors
      BY <1>2, <2>1, <3>2, EndedRow
    <3>4. /\ s.chunks \in Generation /\ s.chunks <= row.chunks
          /\ s.chunks = row.chunks => \A p \in Parts : row.vectors[p] = row.chunks
      BY <1>1, <1>2, <2>1 DEF SessionFits, ChunksFit, Working
    <3> HIDE DEF ended
    <3>5. /\ new \in Row /\ new.chunks = row.chunks /\ new.vectors = row.vectors /\ new.covered = s.chunks
          /\ new.ingestions = ended.ingestions /\ new.embeddings = ended.embeddings
      BY <3>3, <3>4 DEF Row
    <3> HIDE DEF new
    <3>6. RowFits(new)
      BY <3>3, <3>4, <3>5 DEF RowFits
    <3>7. Evolves(row, new)
      BY <3>3, <3>5 DEF Evolves
    <3> QED BY <1>2, <2>1, <3>1, <3>5, <3>6, <3>7 DEF WritesRow
  <2>2. CASE ~Exists(d)
    BY <2>2 DEF FinishEmbedding, WritesRow
  <2> QED BY <2>1, <2>2
<1> QED
  BY <1>1, <1>3, EndsQuietly DEF PipelineInv, TypeOK

LEMMA StatusWritten ==
  ASSUME NEW row \in Row, RowFits(row), NEW status \in Statuses
  PROVE  LET new == [row EXCEPT !.status = status]
         IN /\ new \in Row /\ RowFits(new) /\ Evolves(row, new) /\ new.chunks = row.chunks
            /\ new.status = status /\ new.embedding = row.embedding /\ new.ingestions = row.ingestions
<1> DEFINE new == [row EXCEPT !.status = status]
<1>1. /\ new \in Row /\ new.chunks = row.chunks /\ new.vectors = row.vectors /\ new.covered = row.covered
      /\ new.ingestions = row.ingestions /\ new.embeddings = row.embeddings
      /\ new.status = status /\ new.embedding = row.embedding
  BY DEF Row
<1> HIDE DEF new
<1>2. Len(row.ingestions) \in Nat /\ Len(row.embeddings) \in Nat
  BY DEF Row
<1>3. RowFits(new) /\ Evolves(row, new)
  BY <1>1, <1>2, ChunksAlone
<1> QED
  BY <1>1, <1>3 DEF new

LEMMA PatchStatusQuiet ==
  ASSUME PipelineInv, NEW c \in Clients, NEW status \in SetByHand, PatchStatus(c, status)
  PROVE  QuietStep(c)
<1> DEFINE s == sessions[c]
           d == s.document
           row == documents[d]
           written == Written(s.status, status, row.status)
           new == [row EXCEPT !.status = written]
<1>1. End(c) /\ UNCHANGED <<kb, files, abandoned, stray>> /\ Step(c, "patch", "loaded")
  BY DEF PatchStatus
<1>2. d \in Documents
  BY <1>1, StepIsBusy, BusyIsWorking DEF PipelineInv, Working
<1>3. WritesRow
  <2>1. CASE Exists(d)
    <3>1. Save(d, new)
      BY <2>1 DEF PatchStatus
    <3>2. row \in Row /\ RowFits(row)
      BY <1>2, <2>1, RowsAreRows DEF PipelineInv, RowsFit
    <3>3. written \in Statuses
      BY <3>2, SetByHandAssumption DEF Written, Row
    <3> HIDE DEF written
    <3>4. new \in Row /\ RowFits(new) /\ Evolves(row, new) /\ new.chunks = row.chunks
      BY <3>2, <3>3, StatusWritten
    <3> QED BY <1>2, <2>1, <3>1, <3>4 DEF WritesRow
  <2>2. CASE ~Exists(d)
    BY <2>2 DEF PatchStatus, WritesRow
  <2> QED BY <2>1, <2>2
<1> QED
  BY <1>1, <1>3, EndsQuietly DEF PipelineInv, TypeOK

LEMMA DeleteDocumentQuiet ==
  ASSUME PipelineInv, NEW c \in Clients, DeleteDocument(c)
  PROVE  QuietStep(c)
<1> DEFINE d == sessions[c].document
           row == documents[d]
           new == [row EXCEPT !.deleted = TRUE]
<1>1. End(c) /\ UNCHANGED <<kb, files, abandoned, stray>> /\ Step(c, "delete", "loaded")
  BY DEF DeleteDocument
<1>2. d \in Documents
  BY <1>1, StepIsBusy, BusyIsWorking DEF PipelineInv, Working
<1>3. WritesRow
  <2>1. CASE Exists(d)
    <3>1. Save(d, new)
      BY <2>1 DEF DeleteDocument
    <3>2. row \in Row /\ RowFits(row)
      BY <1>2, <2>1, RowsAreRows DEF PipelineInv, RowsFit
    <3>3. /\ new \in Row /\ new.chunks = row.chunks /\ new.vectors = row.vectors
          /\ new.covered = row.covered
          /\ new.ingestions = row.ingestions /\ new.embeddings = row.embeddings
      BY <3>2 DEF Row
    <3>4. Len(row.ingestions) \in Nat /\ Len(row.embeddings) \in Nat
      BY SMTT(30), <3>2 DEF Row
    <3> HIDE DEF new
    <3>5. RowFits(new) /\ Evolves(row, new)
      BY <3>2, <3>3, <3>4, ChunksAlone
    <3> QED BY <1>2, <2>1, <3>1, <3>3, <3>5 DEF WritesRow, new
  <2>2. CASE ~Exists(d)
    BY <2>2 DEF DeleteDocument, WritesRow
  <2> QED BY <2>1, <2>2
<1> QED
  BY <1>1, <1>3, EndsQuietly DEF PipelineInv, TypeOK

LEMMA FinishIngestionQuiet ==
  ASSUME PipelineInv, NEW c \in Clients, FinishIngestion(c)
  PROVE  QuietStep(c)
<1> DEFINE s == sessions[c]
<1>0. PICK d \in Documents : d = s.document
  <2>1. Step(c, "ingest", "replacing")
    BY DEF FinishIngestion
  <2> QED BY <2>1, AtWork
<1> DEFINE row == documents[d]
           ended == RowEnded(c, "ingest", d, "READY", "none", "COMPLETED")
           new == ReplacedChunks(ended, row.chunks + 1)
<1>1. /\ Step(c, "ingest", "replacing") /\ Exists(d) /\ Save(d, new) /\ End(c)
      /\ UNCHANGED <<kb, files, abandoned, stray>>
  BY <1>0 DEF FinishIngestion
<1>2. /\ Busy(c) /\ s \in Working /\ d \in Documents /\ s.op = "ingest" /\ s.step = "replacing"
      /\ row \in Row /\ RowFits(row) /\ SessionFits(s, row)
  BY <1>0, <1>1, AtWork
<1>3. /\ s.job \in 1..Len(JobList(row, "ingest"))
      /\ "READY" \in Statuses /\ "none" \in EmbeddingStatuses /\ "COMPLETED" \in JobStatuses
  BY <1>2 DEF SessionFits, JobFits, Statuses, EmbeddingStatuses, JobStatuses
<1>4. /\ ended \in Row /\ RowFits(ended) /\ Evolves(row, ended)
      /\ ended.chunks = row.chunks /\ ended.covered = row.covered
  BY <1>2, <1>3, EndedRow
<1>5. row.chunks + 1 + Cardinality(Ingesting(d)') <= MaxIngestions
  <2>1. c \in Ingesting(d)
    BY <1>0, <1>2 DEF Ingesting, Busy
  <2>2. KeepsOthers(c) /\ sessions'[c] = None
    BY <1>1, SessionSet DEF End, PipelineInv
  <2>3. Ingesting(d)' = Ingesting(d) \ {c}
    BY <2>1, <2>2 DEF Ingesting, KeepsOthers
  <2>4. IsFiniteSet(Ingesting(d))
    BY ClientsAssumption, FS_Subset DEF Ingesting
  <2>5. /\ Cardinality(Ingesting(d)') = Cardinality(Ingesting(d)) - 1
        /\ Cardinality(Ingesting(d)) \in Nat
    BY <2>1, <2>3, <2>4, FS_RemoveElement, FS_CardinalityType
  <2>6. row.chunks + Cardinality(Ingesting(d)) <= MaxIngestions /\ row.chunks \in Nat
    BY <1>1, <1>2, IngestionsAssumption DEF PipelineInv, IngestionsCounted, Row, Generation
  <2> QED BY <2>5, <2>6, IngestionsAssumption
<1>6. row.chunks \in Nat /\ row.covered \in Nat /\ row.chunks + 1 \in Generation /\ 0 \in Generation
  <2>1. IsFiniteSet(Ingesting(d)')
    <3>1. Ingesting(d)' \subseteq Clients
      BY DEF Ingesting
    <3> QED BY <3>1, ClientsAssumption, FS_Subset
  <2>2. Cardinality(Ingesting(d)') \in Nat
    BY <2>1, FS_CardinalityType
  <2> QED BY <1>2, <1>5, <2>2, IngestionsAssumption DEF Row, Generation
<1> HIDE DEF ended
<1>7. /\ new \in Row /\ new.chunks = row.chunks + 1 /\ new.covered = row.covered
      /\ new.ingestions = ended.ingestions /\ new.embeddings = ended.embeddings
      /\ \A p \in Parts : new.vectors[p] = 0
  BY <1>4, <1>6 DEF ReplacedChunks, Row
<1> HIDE DEF new
<1>8. RowFits(new)
  BY <1>2, <1>6, <1>7 DEF RowFits
<1>9. Evolves(row, new)
  BY <1>4, <1>6, <1>7 DEF Evolves
<1>10. WritesRow
  <2>1. new.chunks + Cardinality(Ingesting(d)') <= MaxIngestions
    BY <1>5, <1>7
  <2> QED BY <1>1, <1>2, <1>7, <1>8, <1>9, <2>1 DEF WritesRow
<1> QED
  BY <1>1, <1>10, EndsQuietly DEF PipelineInv, TypeOK

LEMMA IngestionConflictQuiet ==
  ASSUME PipelineInv, NEW c \in Clients, IngestionConflict(c)
  PROVE  QuietStep(c)
<1>1. Busy(c) /\ Abandon(c)
  BY StepIsBusy DEF IngestionConflict
<1> QED BY <1>1, AbandonQuiet

\* A request that loaded a document, and perhaps a job of it.
LEMMA LoadedQuiet ==
  ASSUME PipelineInv, NEW c \in Clients, NEW d \in Documents, Exists(d), sessions[c] = None,
         NEW s \in Working, s.step = "loaded", s.document = d,
         sessions' = [sessions EXCEPT ![c] = s],
         s.op = "ingest" => documents[d].chunks + Cardinality(Ingesting(d)) < MaxIngestions,
         UNCHANGED <<kb, documents, files, abandoned, stray>>
  PROVE  QuietStep(c)
<1>1. /\ sessions' \in [Clients -> Upload \cup Working \cup {None}]
      /\ KeepsOthers(c) /\ sessions'[c] = s
  BY SessionSet DEF PipelineInv
<1>2. \A row : SessionFits(s, row)
  BY DEF SessionFits, JobFits, ChunksFit
<1>3. Begins(c, d)
  BY <1>1 DEF Begins
<1>4. GoesOn(c)
  BY <1>1, <1>2, <1>3 DEF GoesOn
<1> QED
  BY <1>1, <1>4 DEF QuietStep, WritesRow, PipelineInv, TypeOK

LEMMA LoadDocumentQuiet ==
  ASSUME PipelineInv, NEW c \in Clients, NEW op \in {"ingest", "embed", "patch", "delete"},
         NEW d \in Documents, LoadDocument(c, op, d)
  PROVE  QuietStep(c)
<1> DEFINE row == documents[d]
           s == [op |-> op, step |-> "loaded", document |-> d,
                 status |-> row.status, embedding |-> row.embedding,
                 job |-> 0, jobStatus |-> "PROCESSING", chunks |-> 0, todo |-> {}]
<1>1. /\ sessions[c] = None /\ Exists(d)
      /\ op = "ingest" => row.chunks + Cardinality(Ingesting(d)) < MaxIngestions
      /\ sessions' = [sessions EXCEPT ![c] = s]
      /\ UNCHANGED <<kb, documents, files, abandoned, stray>>
  BY DEF LoadDocument, Live
<1>2. s \in Working /\ s.step = "loaded" /\ s.document = d /\ s.op = op
  <2>1. row \in Row
    BY <1>1, RowsAreRows DEF PipelineInv
  <2> QED BY <2>1, IngestionsAssumption DEF Working, Row, JobStatuses, Generation
<1> HIDE DEF s
<1> QED BY <1>1, <1>2, LoadedQuiet

LEMMA RetryEmbeddingQuiet ==
  ASSUME PipelineInv, NEW c \in Clients, NEW d \in Documents, RetryEmbedding(c, d)
  PROVE  QuietStep(c)
<1> DEFINE row == documents[d]
           s == [op |-> "embed", step |-> "loaded", document |-> d,
                 status |-> row.status, embedding |-> row.embedding,
                 job |-> 1, jobStatus |-> row.embeddings[1], chunks |-> 0, todo |-> {}]
<1>1. /\ sessions[c] = None /\ Exists(d) /\ row.embeddings # <<>>
      /\ sessions' = [sessions EXCEPT ![c] = s]
      /\ UNCHANGED <<kb, documents, files, abandoned, stray>>
  BY DEF RetryEmbedding
<1>2. s \in Working /\ s.step = "loaded" /\ s.document = d /\ s.op = "embed"
  <2>1. row \in Row
    BY <1>1, RowsAreRows DEF PipelineInv
  <2>2. row.embeddings[1] \in JobStatuses
    <3>1. row.embeddings \in Seq(JobStatuses)
      BY <2>1 DEF Row
    <3> QED BY <1>1, <3>1
  <2> QED BY <2>1, <2>2, IngestionsAssumption DEF Working, Row, Generation
<1> HIDE DEF s
<1> QED BY <1>1, <1>2, LoadedQuiet

LEMMA LoseQuiet ==
  ASSUME PipelineInv, NEW c \in Clients, Busy(c), Lose(c)
  PROVE  QuietStep(c)
<1>1. sessions[c].document \in Documents
  BY BusyIsWorking DEF PipelineInv, Working
<1>2. End(c) /\ UNCHANGED <<kb, documents, files>> /\ abandoned' \subseteq Documents
  BY <1>1 DEF Lose, PipelineInv, TypeOK
<1>3. UNCHANGED stray
  BY DEF Lose, Step, Busy
<1> QED
  BY <1>2, <1>3, EndsQuietly DEF WritesRow

-----------------------------------------------------------------------------
(* Steps of an upload.                                                      *)

LEMMA FreshRowFits ==
  ASSUME NEW x \in Contents
  PROVE  FreshRow(x) \in Row /\ RowFits(FreshRow(x)) /\ FreshRow(x).chunks = 0
<1>1. 0 \in Generation
  BY IngestionsAssumption DEF Generation
<1>2. FreshRow(x) \in Row
  BY <1>1 DEF FreshRow, Row, Statuses, EmbeddingStatuses
<1>3. /\ FreshRow(x).chunks = 0 /\ FreshRow(x).covered = 0
      /\ \A p \in Parts : FreshRow(x).vectors[p] = 0
  BY DEF FreshRow
<1> QED
  BY <1>2, <1>3 DEF RowFits

\* An upload inserts its row where no other request is, or leaves the rows alone.
InsertsRow(c) ==
  /\ documents' \in [Documents -> Row \cup {None}]
  /\ \A d \in Documents : documents'[d] # documents[d] =>
       /\ documents'[d] \in Row /\ RowFits(documents'[d]) /\ documents'[d].chunks = 0
       /\ \A other \in Clients \ {c} : sessions[other] # None => sessions[other].document # d

UploadStep(c, s) ==
  /\ ~Busy(c) /\ s \in Upload \cup {None}
  /\ sessions' = [sessions EXCEPT ![c] = s]
  /\ InsertsRow(c)
  /\ files' \subseteq Documents /\ stray' \subseteq Documents
  /\ UNCHANGED <<kb, abandoned>>

LEMMA UploadStepKeepsInv ==
  ASSUME PipelineInv, NEW c \in Clients, NEW s, UploadStep(c, s), UploadsPlaced'
  PROVE  PipelineInv'
<1>1. /\ sessions' \in [Clients -> Upload \cup Working \cup {None}]
      /\ KeepsOthers(c) /\ sessions'[c] = s
  BY SessionSet DEF PipelineInv, UploadStep
<1>2. TypeOK'
  BY <1>1 DEF PipelineInv, TypeOK, UploadStep, InsertsRow
<1>3. RowsFit'
  BY DEF RowsFit, UploadStep, InsertsRow, Exists, PipelineInv
<1>4. ~Busy(c)'
  BY <1>1 DEF UploadStep, Busy, Upload
<1>5. SessionsFit'
  <2> SUFFICES ASSUME NEW x \in Clients, Busy(x)', Exists(sessions[x].document)'
               PROVE  SessionFits(sessions'[x], documents'[sessions'[x].document])
    BY DEF SessionsFit
  <2>1. x # c /\ sessions'[x] = sessions[x] /\ Busy(x)
    BY <1>1, <1>4 DEF KeepsOthers, Busy
  <2>2. sessions[x] \in Working /\ sessions[x].document \in Documents
    BY <2>1, BusyIsWorking DEF PipelineInv, Working
  <2>3. documents'[sessions[x].document] = documents[sessions[x].document]
    BY <2>1, <2>2 DEF UploadStep, InsertsRow, Busy
  <2>4. Exists(sessions[x].document)
    BY <2>1, <2>3 DEF Exists
  <2> QED
    BY <2>1, <2>3, <2>4 DEF PipelineInv, SessionsFit
<1>6. IngestionsCounted'
  <2> SUFFICES ASSUME NEW d \in Documents, Exists(d)'
               PROVE  documents'[d].chunks + Cardinality(Ingesting(d)') <= MaxIngestions
    BY DEF IngestionsCounted
  <2>1. c \notin Ingesting(d)' /\ c \notin Ingesting(d)
    BY <1>1 DEF Ingesting, UploadStep, Upload, Busy
  <2>2. Ingesting(d)' = Ingesting(d)
    BY <1>1, <2>1 DEF Ingesting, KeepsOthers
  <2>3. CASE documents'[d] = documents[d]
    <3>1. Exists(d)
      BY <2>3 DEF Exists
    <3> QED BY <2>2, <2>3, <3>1 DEF PipelineInv, IngestionsCounted
  <2>4. CASE documents'[d] # documents[d]
    <3>1. documents'[d].chunks = 0 /\ Ingesting(d) = {}
      BY <2>1, <2>4 DEF UploadStep, InsertsRow, Ingesting
    <3> QED BY <2>2, <3>1, FS_EmptySet, IngestionsAssumption
  <2> QED BY <2>3, <2>4
<1> QED
  BY <1>2, <1>3, <1>5, <1>6 DEF PipelineInv

LEMMA RowsLeftAlone ==
  ASSUME TypeOK, NEW c, UNCHANGED documents
  PROVE  InsertsRow(c)
BY DEF InsertsRow, TypeOK

LEMMA UploadIsIdle ==
  ASSUME NEW c, NEW step, Step(c, "upload", step)
  PROVE  ~Busy(c) /\ sessions[c] # None /\ sessions[c].op = "upload" /\ sessions[c].step = step
BY DEF Step, Busy

LEMMA UploadTyped ==
  ASSUME TypeOK, NEW c \in Clients, NEW step, Step(c, "upload", step)
  PROVE  sessions[c] \in Upload
BY DEF TypeOK, Step, Working

LEMMA CheckUploadKeepsInv ==
  ASSUME PipelineInv, NEW c \in Clients, NEW x \in Contents, CheckUpload(c, x)
  PROVE  PipelineInv'
<1> DEFINE s == [op |-> "upload", step |-> "checked", content |-> x, document |-> None]
<1>1. /\ ~Busy(c) /\ sessions' = [sessions EXCEPT ![c] = s]
      /\ UNCHANGED <<kb, documents, files, abandoned, stray>>
  BY DEF CheckUpload, Busy
<1>2. s \in Upload /\ s.step = "checked" /\ s.document = None
  BY DEF Upload
<1> HIDE DEF s
<1>3. KeepsOthers(c) /\ sessions'[c] = s
  BY <1>1, <1>2, SessionSet DEF PipelineInv
<1>4. UploadsPlaced'
  <2>1. UploadsPlaced
    BY DEF PipelineInv
  <2> QED
    BY <1>1, <1>2, <1>3, <2>1, NoneAssumption DEF UploadsPlaced, Step, KeepsOthers, Exists
<1>5. UploadStep(c, s)
  BY <1>1, <1>2, RowsLeftAlone DEF UploadStep, PipelineInv, TypeOK
<1> QED
  BY <1>4, <1>5, UploadStepKeepsInv

LEMMA StoreFileKeepsInv ==
  ASSUME PipelineInv, NEW c \in Clients, StoreFile(c)
  PROVE  PipelineInv'
<1>1. PICK d \in Documents :
        /\ Unused(d) /\ files' = files \cup {d}
        /\ sessions' = [sessions EXCEPT ![c].step = "stored", ![c].document = d]
  BY DEF StoreFile
<1> DEFINE s == [sessions[c] EXCEPT !.step = "stored", !.document = d]
<1>2. /\ Step(c, "upload", "checked") /\ UNCHANGED <<kb, documents, abandoned, stray>>
      /\ sessions' = [sessions EXCEPT ![c] = s]
  BY <1>1 DEF StoreFile
<1>3. s \in Upload /\ s.step = "stored" /\ s.document = d
  <2>1. sessions[c] \in Upload
    BY <1>2, UploadTyped DEF PipelineInv
  <2> QED BY <2>1 DEF Upload
<1> HIDE DEF s
<1>4. KeepsOthers(c) /\ sessions'[c] = s
  BY <1>2, <1>3, SessionSet DEF PipelineInv
<1>5. UploadsPlaced'
  <2>1. UploadsPlaced
    BY DEF PipelineInv
  <2>2. /\ ~Exists(d) /\ d \notin files \cup stray
        /\ \A x \in Clients : sessions[x] # None => sessions[x].document # d
    BY <1>1 DEF Unused
  <2> SUFFICES ASSUME NEW x \in Clients, NEW step \in {"stored", "inserted"}, Step(x, "upload", step)'
               PROVE  /\ sessions'[x].document \in Documents
                      /\ step = "stored" =>
                           /\ sessions'[x].document \in files'
                           /\ ~Exists(sessions[x].document)'
                           /\ sessions'[x].document \notin stray'
                           /\ \A other \in Clients \ {x} :
                                sessions'[other] # None => sessions'[other].document # sessions'[x].document
    BY DEF UploadsPlaced
  <2>3. CASE x = c
    BY ZenonT(30), <1>1, <1>2, <1>3, <1>4, <2>2, <2>3 DEF KeepsOthers, Exists
  <2>4. CASE x # c
    <3>1. sessions'[x] = sessions[x] /\ Step(x, "upload", step)
      BY <1>4, <2>4 DEF KeepsOthers, Step
    <3>2. sessions[x].document # d
      BY <2>2, <3>1 DEF Step
    <3>3. \A other \in Clients : sessions'[other] # None =>
            \/ sessions'[other].document = d
            \/ sessions[other] # None /\ sessions'[other].document = sessions[other].document
      BY <1>3, <1>4 DEF KeepsOthers
    <3>4. sessions[x].document \in Documents
      BY <2>1, <3>1 DEF UploadsPlaced
    <3>5. CASE step = "stored"
      <4>1. /\ sessions[x].document \in files
            /\ ~Exists(sessions[x].document)
            /\ sessions[x].document \notin stray
            /\ \A other \in Clients \ {x} :
                 sessions[other] # None => sessions[other].document # sessions[x].document
        BY <2>1, <3>1, <3>5 DEF UploadsPlaced
      <4>2. files \subseteq files' /\ documents' = documents /\ stray' = stray
        BY <1>1, <1>2
      <4>3. ~Exists(sessions[x].document)'
        BY <3>1, <4>1, <4>2 DEF Exists
      <4>4. \A other \in Clients \ {x} :
              sessions'[other] # None => sessions'[other].document # sessions'[x].document
        BY <3>1, <3>2, <3>3, <4>1
      <4>5. sessions'[x].document \in files' /\ sessions'[x].document \notin stray'
        BY <3>1, <4>1, <4>2
      <4>6. sessions'[x].document \in Documents
        BY <3>1, <3>4
      <4> QED BY <4>3, <4>4, <4>5, <4>6, Zenon
    <3>6. CASE step # "stored"
      BY <3>1, <3>4, <3>6
    <3> QED BY <3>5, <3>6
  <2> QED BY <2>3, <2>4
<1>6. UploadStep(c, s)
  BY <1>1, <1>2, <1>3, RowsLeftAlone, UploadIsIdle DEF UploadStep, PipelineInv, TypeOK
<1> QED
  BY <1>5, <1>6, UploadStepKeepsInv

LEMMA InsertDocumentKeepsInv ==
  ASSUME PipelineInv, NEW c \in Clients, InsertDocument(c)
  PROVE  PipelineInv'
<1> DEFINE s == [sessions[c] EXCEPT !.step = "inserted"]
           row == FreshRow(sessions[c].content)
<1>1. /\ Step(c, "upload", "stored") /\ UNCHANGED <<kb, files, abandoned, stray>>
      /\ sessions' = [sessions EXCEPT ![c] = s]
      /\ documents' = [documents EXCEPT ![sessions[c].document] = row]
  BY DEF InsertDocument, Save, Advance
<1>2. sessions[c] \in Upload /\ sessions[c].content \in Contents
  BY <1>1, UploadTyped DEF PipelineInv, Upload
<1>3. /\ s \in Upload /\ s.step = "inserted" /\ s.document = sessions[c].document
  BY <1>2 DEF Upload
<1>4. row \in Row /\ RowFits(row) /\ row.chunks = 0
  BY <1>2, FreshRowFits
<1> HIDE DEF s, row
<1>5. KeepsOthers(c) /\ sessions'[c] = s
  BY <1>1, <1>3, SessionSet DEF PipelineInv
<1>6. UploadsPlaced
  BY DEF PipelineInv
<1>7. PICK d \in Documents : d = sessions[c].document
  BY <1>1, <1>6 DEF UploadsPlaced
<1>8. /\ documents \in [Documents -> Row \cup {None}]
      /\ documents' = [documents EXCEPT ![d] = row]
  BY <1>1, <1>7 DEF PipelineInv, TypeOK
<1>9. \A other \in Clients \ {c} : sessions[other] # None => sessions[other].document # d
  BY <1>1, <1>6, <1>7 DEF UploadsPlaced
<1>10. InsertsRow(c)
  BY <1>4, <1>8, <1>9 DEF InsertsRow
<1>11. UploadsPlaced'
  <2> SUFFICES ASSUME NEW x \in Clients
               PROVE  /\ \A step \in {"stored", "inserted"} :
                           Step(x, "upload", step)' => sessions'[x].document \in Documents
                      /\ Step(x, "upload", "stored")' =>
                           /\ sessions'[x].document \in files'
                           /\ ~Exists(sessions[x].document)'
                           /\ sessions'[x].document \notin stray'
                           /\ \A other \in Clients \ {x} :
                                sessions'[other] # None => sessions'[other].document # sessions'[x].document
    BY DEF UploadsPlaced
  <2>1. CASE x = c
    BY <1>3, <1>5, <1>7, <2>1 DEF Step
  <2>2. CASE x # c
    <3>1. sessions'[x] = sessions[x] /\ \A step : Step(x, "upload", step)' <=> Step(x, "upload", step)
      BY <1>5, <2>2 DEF KeepsOthers, Step
    <3>2. \A other \in Clients : sessions'[other] # None =>
            sessions[other] # None /\ sessions'[other].document = sessions[other].document
      BY <1>1, <1>3, <1>5 DEF KeepsOthers, Step
    <3>3. sessions[x] # None => sessions[x].document # d
      BY <1>9, <2>2
    <3>4. Step(x, "upload", "stored") => sessions[x].document # d /\ sessions[x].document \in Documents
      BY <1>6, <3>3 DEF Step, UploadsPlaced
    <3>5. Step(x, "upload", "stored") => ~Exists(sessions[x].document)'
      BY <1>6, <1>8, <3>1, <3>4 DEF UploadsPlaced, Exists
    <3> QED
      BY <1>1, <1>6, <3>1, <3>2, <3>5 DEF UploadsPlaced
  <2> QED BY <2>1, <2>2
<1>12. UploadStep(c, s)
  BY <1>1, <1>3, <1>10, UploadIsIdle DEF UploadStep, PipelineInv, TypeOK
<1> QED
  BY <1>11, <1>12, UploadStepKeepsInv

\* An upload ends; its file may be deleted, its document may become stray.
LEMMA UploadEndsKeepsInv ==
  ASSUME PipelineInv, NEW c \in Clients, sessions[c] # None, ~Busy(c), End(c),
         \/ UNCHANGED <<files, stray>>
         \/ /\ \E step \in {"stored", "inserted"} : Step(c, "upload", step)
            /\ files' \in {files, files \ {sessions[c].document}}
            /\ stray' \in {stray, stray \cup {sessions[c].document}},
         UNCHANGED <<kb, documents, abandoned>>
  PROVE  PipelineInv'
<1>1. sessions' = [sessions EXCEPT ![c] = None] /\ KeepsOthers(c) /\ sessions'[c] = None
  BY SessionSet DEF End, PipelineInv
<1>2. UploadsPlaced /\ TypeOK
  BY DEF PipelineInv
<1>3. files' \subseteq Documents /\ stray' \subseteq Documents
  BY <1>2 DEF TypeOK, UploadsPlaced
<1>4. UploadsPlaced'
  <2> SUFFICES ASSUME NEW x \in Clients, NEW step \in {"stored", "inserted"}, Step(x, "upload", step)'
               PROVE  /\ sessions'[x].document \in Documents
                      /\ step = "stored" =>
                           /\ sessions'[x].document \in files'
                           /\ ~Exists(sessions[x].document)'
                           /\ sessions'[x].document \notin stray'
                           /\ \A other \in Clients \ {x} :
                                sessions'[other] # None => sessions'[other].document # sessions'[x].document
    BY DEF UploadsPlaced
  <2>1. x # c /\ sessions'[x] = sessions[x] /\ Step(x, "upload", step)
    BY <1>1 DEF KeepsOthers, Step
  <2>2. \A other \in Clients : sessions'[other] # None =>
          sessions[other] # None /\ sessions'[other].document = sessions[other].document
    BY <1>1 DEF KeepsOthers
  <2>3. step = "stored" => sessions[c].document # sessions[x].document
    BY <1>2, <2>1 DEF UploadsPlaced
  <2> QED
    BY <1>2, <2>1, <2>2, <2>3 DEF UploadsPlaced, Exists
<1>5. UploadStep(c, None)
  BY <1>1, <1>2, <1>3, RowsLeftAlone DEF UploadStep
<1> QED
  BY <1>4, <1>5, UploadStepKeepsInv

LEMMA FinishUploadKeepsInv ==
  ASSUME PipelineInv, NEW c \in Clients, FinishUpload(c)
  PROVE  PipelineInv'
BY UploadEndsKeepsInv, UploadIsIdle DEF FinishUpload

LEMMA FailUploadKeepsInv ==
  ASSUME PipelineInv, NEW c \in Clients, FailUpload(c)
  PROVE  PipelineInv'
<1>1. /\ \E step \in {"stored", "inserted"} : Step(c, "upload", step)
      /\ files' = files \ {sessions[c].document}
      /\ stray' \in {stray, stray \cup {sessions[c].document}}
      /\ End(c) /\ UNCHANGED <<kb, documents, abandoned>>
  BY DEF FailUpload
<1>2. ~Busy(c) /\ sessions[c] # None
  BY <1>1, UploadIsIdle
<1> QED BY <1>1, <1>2, UploadEndsKeepsInv

LEMMA LoseKeepsInv ==
  ASSUME PipelineInv, NEW c \in Clients, Lose(c)
  PROVE  PipelineInv'
<1>1. CASE Busy(c)
  BY <1>1, LoseQuiet, QuietStepKeepsInv
<1>2. CASE ~Busy(c)
  <2>1. sessions[c] # None /\ sessions[c].op = "upload"
    BY <1>2 DEF Lose, Busy
  <2>2. End(c) /\ UNCHANGED <<kb, documents, files, abandoned>>
    BY <2>1 DEF Lose, Begun
  <2>3. CASE Step(c, "upload", "stored")
    <3>1. stray' = stray \cup {sessions[c].document}
      BY <2>3 DEF Lose
    <3> QED BY <1>2, <2>1, <2>2, <2>3, <3>1, UploadEndsKeepsInv
  <2>4. CASE ~Step(c, "upload", "stored")
    <3>1. stray' = stray
      BY <2>4 DEF Lose
    <3> QED BY <1>2, <2>1, <2>2, <3>1, UploadEndsKeepsInv
  <2> QED BY <2>3, <2>4
<1> QED BY <1>1, <1>2

LEMMA DeleteKnowledgeBaseKeepsInv ==
  ASSUME PipelineInv, DeleteKnowledgeBase
  PROVE  PipelineInv'
<1>1. /\ kb' = FALSE /\ documents' = [d \in Documents |-> None]
      /\ stray' = stray \cup {d \in Documents : Exists(d)}
      /\ UNCHANGED <<files, sessions, abandoned>>
  BY DEF DeleteKnowledgeBase
<1>2. \A d \in Documents : ~Exists(d)'
  BY <1>1 DEF Exists
<1>3. TypeOK'
  BY <1>1 DEF PipelineInv, TypeOK
<1>4. RowsFit' /\ IngestionsCounted'
  BY <1>2 DEF RowsFit, IngestionsCounted
<1>5. \A c \in Clients : Busy(c)' => sessions'[c].document \in Documents
  BY <1>3, BusyIsWorking DEF TypeOK, Busy, Upload, Working
<1>6. SessionsFit'
  BY <1>2, <1>5 DEF SessionsFit
<1>7. UploadsPlaced'
  BY <1>1, <1>2 DEF PipelineInv, UploadsPlaced, Step
<1> QED BY <1>3, <1>4, <1>6, <1>7 DEF PipelineInv


-----------------------------------------------------------------------------
(* Every step is one of a request at work, one of an upload, or the          *)
(* deletion of the knowledge base.                                           *)

Serves(c) ==
  \/ \E d \in Documents, op \in {"ingest", "embed", "patch", "delete"} : LoadDocument(c, op, d)
  \/ \E d \in Documents : RetryEmbedding(c, d)
  \/ FindJob(c) \/ StartJob(c) \/ Refresh(c) \/ FailJob(c)
  \/ DeleteChunks(c) \/ FinishIngestion(c) \/ IngestionConflict(c)
  \/ EmbedBatch(c) \/ BatchVanished(c) \/ FinishEmbedding(c)
  \/ \E s \in SetByHand : PatchStatus(c, s)
  \/ DeleteDocument(c)
  \/ Busy(c) /\ Lose(c)

Uploads(c) ==
  \/ \E x \in Contents : CheckUpload(c, x)
  \/ StoreFile(c) \/ InsertDocument(c) \/ FinishUpload(c) \/ FailUpload(c)
  \/ ~Busy(c) /\ Lose(c)

LEMMA NextCases ==
  ASSUME Next
  PROVE  (\E c \in Clients : Serves(c) \/ Uploads(c)) \/ DeleteKnowledgeBase
<1>1. ASSUME NEW c \in Clients, Request(c) \/ Handle(c) \/ Lose(c)
      PROVE  Serves(c) \/ Uploads(c)
  <2>1. CASE Request(c)
    BY <2>1 DEF Request, Serves, Uploads
  <2>2. CASE Handle(c)
    BY <2>2 DEF Handle, Serves, Uploads
  <2>3. CASE Lose(c)
    BY <2>3 DEF Serves, Uploads
  <2> QED BY <1>1, <2>1, <2>2, <2>3
<1> QED
  BY <1>1 DEF Next

\* A request at work is no upload that stored its file.
LEMMA ServesQuietly ==
  ASSUME PipelineInv, NEW c \in Clients, Serves(c)
  PROVE  QuietStep(c) /\ ~Step(c, "upload", "stored")
<1>1. CASE \E d \in Documents, op \in {"ingest", "embed", "patch", "delete"} : LoadDocument(c, op, d)
  BY <1>1, LoadDocumentQuiet DEF LoadDocument, Step
<1>2. CASE \E d \in Documents : RetryEmbedding(c, d)
  BY <1>2, RetryEmbeddingQuiet DEF RetryEmbedding, Step
<1>3. CASE FindJob(c)
  BY <1>3, FindJobQuiet DEF FindJob, Step
<1>4. CASE StartJob(c)
  BY <1>4, StartJobQuiet DEF StartJob, Step
<1>5. CASE Refresh(c)
  BY <1>5, RefreshQuiet DEF Refresh, Step
<1>6. CASE FailJob(c)
  BY <1>6, FailJobQuiet DEF FailJob, Step
<1>7. CASE DeleteChunks(c)
  BY <1>7, DeleteChunksQuiet DEF DeleteChunks, Step
<1>8. CASE FinishIngestion(c)
  BY <1>8, FinishIngestionQuiet DEF FinishIngestion, Step
<1>9. CASE IngestionConflict(c)
  BY <1>9, IngestionConflictQuiet DEF IngestionConflict, Step
<1>10. CASE EmbedBatch(c)
  BY <1>10, EmbedBatchQuiet DEF EmbedBatch, Step
<1>11. CASE BatchVanished(c)
  BY <1>11, BatchVanishedQuiet DEF BatchVanished, Step
<1>12. CASE FinishEmbedding(c)
  BY <1>12, FinishEmbeddingQuiet DEF FinishEmbedding, Step
<1>13. CASE \E s \in SetByHand : PatchStatus(c, s)
  BY <1>13, PatchStatusQuiet DEF PatchStatus, Step
<1>14. CASE DeleteDocument(c)
  BY <1>14, DeleteDocumentQuiet DEF DeleteDocument, Step
<1>15. CASE Busy(c) /\ Lose(c)
  BY <1>15, LoseQuiet DEF Busy, Step
<1> QED
  BY <1>1, <1>2, <1>3, <1>4, <1>5, <1>6, <1>7, <1>8, <1>9, <1>10, <1>11, <1>12, <1>13, <1>14, <1>15
  DEF Serves

LEMMA UploadsKeepInv ==
  ASSUME PipelineInv, NEW c \in Clients, Uploads(c)
  PROVE  PipelineInv'
BY CheckUploadKeepsInv, StoreFileKeepsInv, InsertDocumentKeepsInv, FinishUploadKeepsInv,
   FailUploadKeepsInv, LoseKeepsInv DEF Uploads

LEMMA InitialInv ==
  ASSUME Init
  PROVE  PipelineInv
<1>1. /\ \A d \in Documents : ~Exists(d)
      /\ \A c \in Clients : sessions[c] = None
  BY DEF Init, Exists
<1> QED
  BY <1>1 DEF Init, PipelineInv, TypeOK, RowsFit, SessionsFit, UploadsPlaced, IngestionsCounted,
              Busy, Step

LEMMA StutterKeepsInv ==
  ASSUME PipelineInv, UNCHANGED vars
  PROVE  PipelineInv'
<1>1. UNCHANGED kb /\ UNCHANGED documents /\ UNCHANGED files /\ UNCHANGED sessions
      /\ UNCHANGED abandoned /\ UNCHANGED stray
  BY DEF vars
<1> QED
  BY <1>1 DEF PipelineInv, TypeOK, RowsFit, SessionsFit, UploadsPlaced, IngestionsCounted,
              Busy, Step, Exists, Ingesting

LEMMA StepKeepsInv ==
  ASSUME PipelineInv, [Next]_vars
  PROVE  PipelineInv'
<1>1. ASSUME NEW c \in Clients, Serves(c) PROVE PipelineInv'
  BY <1>1, ServesQuietly, QuietStepKeepsInv
<1>2. ASSUME NEW c \in Clients, Uploads(c) PROVE PipelineInv'
  BY <1>2, UploadsKeepInv
<1> QED
  BY <1>1, <1>2, DeleteKnowledgeBaseKeepsInv, StutterKeepsInv, NextCases

\* The variables keep their types, and every request what it has read of its
\* document: the inductive invariant holds, for any number of documents,
\* requests, chunks and ingestions.
THEOREM RequestsFitTheirRows == Spec => []PipelineInv
<1>1. Init => PipelineInv
  BY InitialInv
<1>2. PipelineInv /\ [Next]_vars => PipelineInv'
  BY StepKeepsInv
<1> QED
  BY <1>1, <1>2, PTL DEF Spec

\* A vector is always of the text of its chunk, and an embedding that completed
\* for the chunks of a document has left none out.
THEOREM VectorsMatchChunks == Spec => [](VectorsAreOfTheirChunks /\ CompletedCoversChunks)
<1>1. PipelineInv => VectorsAreOfTheirChunks /\ CompletedCoversChunks
  BY DEF PipelineInv, RowsFit, RowFits, VectorsAreOfTheirChunks, CompletedCoversChunks
<1> QED
  BY <1>1, RequestsFitTheirRows, PTL

-----------------------------------------------------------------------------
(* Files and rows. *)

LEMMA ServingKeepsFiles ==
  ASSUME PipelineInv, FilesMatchRows, NEW c \in Clients, Serves(c)
  PROVE  FilesMatchRows'
<1>1. QuietStep(c) /\ ~Step(c, "upload", "stored")
  BY ServesQuietly
<1>2. \A d \in Documents : Exists(d)' <=> Exists(d)
  BY <1>1, RowsWritten DEF QuietStep
<1>3. ~Step(c, "upload", "stored")'
  BY <1>1 DEF QuietStep, GoesOn, Step, Working
<1>4. \A d \in Documents : Uploading(d)' <=> Uploading(d)
  BY <1>1, <1>3 DEF QuietStep, KeepsOthers, Uploading, Step
<1> QED
  BY <1>1, <1>2, <1>4 DEF QuietStep, FilesMatchRows

LEMMA UploadKeepsFiles ==
  ASSUME PipelineInv, FilesMatchRows, NEW c \in Clients, Uploads(c)
  PROVE  FilesMatchRows'
<1>0. /\ documents \in [Documents -> Row \cup {None}] /\ sessions \in [Clients -> Upload \cup Working \cup {None}]
      /\ UploadsPlaced
  BY DEF PipelineInv, TypeOK
<1>1. CASE \E x \in Contents : CheckUpload(c, x)
  <2>1. UNCHANGED <<documents, files, stray>> /\ ~Step(c, "upload", "stored") /\ ~Step(c, "upload", "stored")'
        /\ KeepsOthers(c)
    BY <1>0, <1>1 DEF CheckUpload, Step, KeepsOthers
  <2>2. \A d : Uploading(d)' <=> Uploading(d)
    BY <2>1 DEF Uploading, Step, KeepsOthers
  <2> QED BY <2>1, <2>2 DEF FilesMatchRows, Exists
<1>2. CASE StoreFile(c)
  <2>1. PICK d \in Documents :
          /\ files' = files \cup {d}
          /\ sessions' = [sessions EXCEPT ![c] = [sessions[c] EXCEPT !.step = "stored", !.document = d]]
    BY <1>2 DEF StoreFile
  <2>2. UNCHANGED <<documents, stray>> /\ Step(c, "upload", "checked")
    BY <1>2 DEF StoreFile
  <2>3. /\ [sessions[c] EXCEPT !.step = "stored", !.document = d] \in Upload
        /\ [sessions[c] EXCEPT !.step = "stored", !.document = d].document = d
        /\ [sessions[c] EXCEPT !.step = "stored", !.document = d].step = "stored"
        /\ [sessions[c] EXCEPT !.step = "stored", !.document = d].op = "upload"
    BY <2>2, UploadTyped DEF PipelineInv, Upload
  <2>4. KeepsOthers(c) /\ Step(c, "upload", "stored")' /\ sessions'[c].document = d
    BY <1>0, <2>1, <2>3, NoneAssumption DEF KeepsOthers, Step
  <2>5. \A e : Uploading(e)' <=> (Uploading(e) \/ e = d)
    BY <2>2, <2>4 DEF Uploading, Step, KeepsOthers
  <2> QED BY <2>1, <2>2, <2>5 DEF FilesMatchRows, Exists
<1>3. CASE InsertDocument(c)
  <2>1. PICK d \in Documents : d = sessions[c].document /\ d \in files
    BY <1>0, <1>3 DEF InsertDocument, UploadsPlaced
  <2>2. /\ Step(c, "upload", "stored") /\ UNCHANGED <<files, stray>>
        /\ sessions' = [sessions EXCEPT ![c].step = "inserted"]
        /\ documents' = [documents EXCEPT ![d] = FreshRow(sessions[c].content)]
    BY <1>3, <2>1 DEF InsertDocument, Save, Advance
  <2>3. sessions[c] \in Upload /\ sessions[c].content \in Contents
    BY <2>2, UploadTyped DEF PipelineInv, Upload
  <2>4. FreshRow(sessions[c].content) # None
    BY <2>3, FreshRowFits, NoneAssumption
  <2>5. KeepsOthers(c) /\ ~Step(c, "upload", "stored")'
    BY <1>0, <2>2, <2>3 DEF KeepsOthers, Step, Upload
  <2>6. \A e \in Documents : Exists(e)' <=> Exists(e) \/ e = d
    BY <1>0, <2>1, <2>2, <2>4 DEF Exists
  <2>7. \A e : e # d => (Uploading(e)' <=> Uploading(e))
    BY <2>1, <2>5 DEF Uploading, Step, KeepsOthers
  <2> QED BY <2>1, <2>2, <2>6, <2>7 DEF FilesMatchRows
<1>4. CASE FinishUpload(c)
  <2>1. UNCHANGED <<documents, files, stray>> /\ ~Step(c, "upload", "stored") /\ ~Step(c, "upload", "stored")'
        /\ KeepsOthers(c)
    BY <1>0, <1>4 DEF FinishUpload, End, Step, KeepsOthers
  <2>2. \A d : Uploading(d)' <=> Uploading(d)
    BY <2>1 DEF Uploading, Step, KeepsOthers
  <2> QED BY <2>1, <2>2 DEF FilesMatchRows, Exists
<1>5. CASE FailUpload(c)
  <2>1. PICK d \in Documents : d = sessions[c].document
    BY <1>0, <1>5 DEF FailUpload, UploadsPlaced
  <2>2. /\ UNCHANGED documents /\ files' = files \ {d} /\ stray' = IF Exists(d) THEN stray \cup {d} ELSE stray
        /\ KeepsOthers(c) /\ ~Step(c, "upload", "stored")'
    BY <1>0, <1>5, <2>1 DEF FailUpload, End, Step, KeepsOthers
  <2>3. \A e : e # d => (Uploading(e)' <=> Uploading(e))
    BY <2>1, <2>2 DEF Uploading, Step, KeepsOthers
  <2> QED BY <2>2, <2>3 DEF FilesMatchRows, Exists
<1>6. CASE ~Busy(c) /\ Lose(c)
  <2>1. /\ UNCHANGED <<documents, files>> /\ KeepsOthers(c) /\ ~Step(c, "upload", "stored")'
        /\ stray' = IF Step(c, "upload", "stored") THEN stray \cup {sessions[c].document} ELSE stray
    BY <1>0, <1>6 DEF Lose, End, Step, KeepsOthers
  <2>2. \A e : e \notin stray' => (e \in stray <=> e \in stray') /\ (Uploading(e)' <=> Uploading(e))
    BY <2>1 DEF Uploading, Step, KeepsOthers
  <2> QED BY <2>1, <2>2 DEF FilesMatchRows, Exists
<1> QED
  BY <1>1, <1>2, <1>3, <1>4, <1>5, <1>6 DEF Uploads

LEMMA KnowledgeBaseLeavesStrays ==
  ASSUME PipelineInv, FilesMatchRows, DeleteKnowledgeBase
  PROVE  FilesMatchRows'
<1>1. /\ documents' = [d \in Documents |-> None]
      /\ stray' = stray \cup {d \in Documents : Exists(d)}
      /\ UNCHANGED <<files, sessions>>
  BY DEF DeleteKnowledgeBase
<1>2. \A d \in Documents : ~Exists(d)' /\ (Uploading(d)' <=> Uploading(d))
  BY <1>1 DEF Exists, Uploading, Step
<1> QED
  BY <1>1, <1>2 DEF FilesMatchRows

LEMMA StepKeepsFiles ==
  ASSUME PipelineInv, FilesMatchRows, [Next]_vars
  PROVE  FilesMatchRows'
<1>1. CASE UNCHANGED vars
  BY <1>1 DEF vars, FilesMatchRows, Exists, Uploading, Step
<1> QED
  BY <1>1, ServingKeepsFiles, UploadKeepsFiles, KnowledgeBaseLeavesStrays, NextCases

\* The storage has the file of a document exactly when the document has a row,
\* apart from the documents that the model records as stray.
THEOREM FilesAndRowsMatch == Spec => []FilesMatchRows
<1>1. Init => FilesMatchRows
  BY DEF Init, FilesMatchRows, Exists
<1> QED
  BY <1>1, StepKeepsFiles, RequestsFitTheirRows, PTL DEF Spec


-----------------------------------------------------------------------------
(* What says PROCESSING is held by a request: one whose first commit is      *)
(* done, and whose copy, once it was read again, says PROCESSING too.  Its   *)
(* last commit then differs from the copy, and is written.                   *)

Holding(s, op, d) ==
  s # None /\ s.op = op /\ s.document = d /\ s.step \in {"committed", "working", "replacing"}

HoldsStatus(s, d)    == Holding(s, "ingest", d) /\ (s.step = "committed" \/ s.status = "PROCESSING")
HoldsEmbedding(s, d) == Holding(s, "embed", d) /\ (s.step = "committed" \/ s.embedding = "PROCESSING")
HoldsJob(s, d, n)    == /\ Holding(s, "ingest", d) /\ s.job = n
                        /\ s.step = "committed" \/ s.jobStatus = "PROCESSING"

ProcessingIsHeld ==
  \A d \in Documents : Exists(d) /\ d \notin abandoned =>
    /\ documents[d].status = "PROCESSING" => \E c \in Clients : HoldsStatus(sessions[c], d)
    /\ documents[d].embedding = "PROCESSING" => \E c \in Clients : HoldsEmbedding(sessions[c], d)
    /\ \A n \in DOMAIN documents[d].ingestions : documents[d].ingestions[n] = "PROCESSING"
         => \E c \in Clients : HoldsJob(sessions[c], d, n)

\* What says PROCESSING after a step is held by the request of the step, or
\* said so before and was held by another.
MarksFollow(c, d) ==
  /\ documents'[d].status = "PROCESSING" =>
       \/ HoldsStatus(sessions'[c], d)
       \/ Exists(d) /\ documents[d].status = "PROCESSING" /\ ~HoldsStatus(sessions[c], d)
  /\ documents'[d].embedding = "PROCESSING" =>
       \/ HoldsEmbedding(sessions'[c], d)
       \/ Exists(d) /\ documents[d].embedding = "PROCESSING" /\ ~HoldsEmbedding(sessions[c], d)
  /\ \A n \in DOMAIN documents'[d].ingestions : documents'[d].ingestions[n] = "PROCESSING" =>
       \/ HoldsJob(sessions'[c], d, n)
       \/ /\ Exists(d) /\ n \in DOMAIN documents[d].ingestions
          /\ documents[d].ingestions[n] = "PROCESSING" /\ ~HoldsJob(sessions[c], d, n)

HeldStep(c) ==
  /\ KeepsOthers(c) /\ abandoned \subseteq abandoned'
  /\ \A d \in Documents : Exists(d)' /\ d \notin abandoned' => MarksFollow(c, d)

LEMMA HeldStepKeepsHeld ==
  ASSUME ProcessingIsHeld, NEW c \in Clients, HeldStep(c)
  PROVE  ProcessingIsHeld'
<1> SUFFICES ASSUME NEW d \in Documents, Exists(d)', d \notin abandoned'
             PROVE  /\ documents'[d].status = "PROCESSING" => \E x \in Clients : HoldsStatus(sessions'[x], d)
                    /\ documents'[d].embedding = "PROCESSING" =>
                         \E x \in Clients : HoldsEmbedding(sessions'[x], d)
                    /\ \A n \in DOMAIN documents'[d].ingestions : documents'[d].ingestions[n] = "PROCESSING"
                         => \E x \in Clients : HoldsJob(sessions'[x], d, n)
  BY DEF ProcessingIsHeld, HoldsStatus, HoldsEmbedding, HoldsJob, Holding
<1>1. d \notin abandoned /\ MarksFollow(c, d) /\ KeepsOthers(c)
  BY DEF HeldStep
<1>2. documents'[d].status = "PROCESSING" => \E x \in Clients : HoldsStatus(sessions'[x], d)
  <2>1. ASSUME Exists(d), documents[d].status = "PROCESSING", ~HoldsStatus(sessions[c], d)
        PROVE  \E x \in Clients : HoldsStatus(sessions'[x], d)
    <3>1. PICK x \in Clients : HoldsStatus(sessions[x], d)
      BY <1>1, <2>1 DEF ProcessingIsHeld
    <3>2. sessions'[x] = sessions[x]
      BY <1>1, <2>1, <3>1 DEF KeepsOthers
    <3> QED BY <3>1, <3>2
  <2> QED BY <1>1, <2>1 DEF MarksFollow
<1>3. documents'[d].embedding = "PROCESSING" => \E x \in Clients : HoldsEmbedding(sessions'[x], d)
  <2>1. ASSUME Exists(d), documents[d].embedding = "PROCESSING", ~HoldsEmbedding(sessions[c], d)
        PROVE  \E x \in Clients : HoldsEmbedding(sessions'[x], d)
    <3>1. PICK x \in Clients : HoldsEmbedding(sessions[x], d)
      BY <1>1, <2>1 DEF ProcessingIsHeld
    <3>2. sessions'[x] = sessions[x]
      BY <1>1, <2>1, <3>1 DEF KeepsOthers
    <3> QED BY <3>1, <3>2
  <2> QED BY <1>1, <2>1 DEF MarksFollow
<1>4. ASSUME NEW n \in DOMAIN documents'[d].ingestions, documents'[d].ingestions[n] = "PROCESSING"
      PROVE  \E x \in Clients : HoldsJob(sessions'[x], d, n)
  <2>1. ASSUME Exists(d), n \in DOMAIN documents[d].ingestions, documents[d].ingestions[n] = "PROCESSING",
               ~HoldsJob(sessions[c], d, n)
        PROVE  \E x \in Clients : HoldsJob(sessions'[x], d, n)
    <3>1. PICK x \in Clients : HoldsJob(sessions[x], d, n)
      BY <1>1, <2>1 DEF ProcessingIsHeld
    <3>2. sessions'[x] = sessions[x]
      BY <1>1, <2>1, <3>1 DEF KeepsOthers
    <3> QED BY <3>1, <3>2
  <2> QED BY <1>1, <1>4, <2>1 DEF MarksFollow
<1> QED
  BY <1>2, <1>3, <1>4

\* Before its first commit, and in any other operation, a request holds nothing.
NotHolding(s) == s = None \/ s.op \notin {"ingest", "embed"} \/ s.step \in {"loaded", "found"}

LEMMA NotHoldingHoldsNothing ==
  ASSUME NEW s, NotHolding(s), NEW d
  PROVE  ~HoldsStatus(s, d) /\ ~HoldsEmbedding(s, d) /\ \A n : ~HoldsJob(s, d, n)
BY DEF NotHolding, HoldsStatus, HoldsEmbedding, HoldsJob, Holding

\* The rows are left alone, and what was held still is.
LEMMA RowsAloneHeld ==
  ASSUME NEW c \in Clients, UNCHANGED documents, KeepsOthers(c), abandoned \subseteq abandoned',
         \A d \in Documents \ abandoned' : Exists(d) =>
           /\ HoldsStatus(sessions[c], d) => HoldsStatus(sessions'[c], d)
           /\ HoldsEmbedding(sessions[c], d) => HoldsEmbedding(sessions'[c], d)
           /\ \A n : HoldsJob(sessions[c], d, n) => HoldsJob(sessions'[c], d, n)
  PROVE  HeldStep(c)
BY DEF HeldStep, MarksFollow, Exists

\* A commit of a request that is on this document and no other.
LEMMA RowSavedHeld ==
  ASSUME PipelineInv, NEW c \in Clients, NEW d \in Documents, NEW new \in Row,
         Exists(d), Save(d, new), KeepsOthers(c), abandoned \subseteq abandoned',
         sessions[c].document = d, MarksFollow(c, d)
  PROVE  HeldStep(c)
<1>1. documents'[d] = new /\ \A e \in Documents : e # d => documents'[e] = documents[e]
  BY DEF PipelineInv, TypeOK, Save
<1>2. ASSUME NEW e \in Documents, e # d, Exists(e)' PROVE MarksFollow(c, e)
  <2>1. documents'[e] = documents[e] /\ Exists(e)
    BY <1>1, <1>2 DEF Exists
  <2>2. ~HoldsStatus(sessions[c], e) /\ ~HoldsEmbedding(sessions[c], e) /\ \A n : ~HoldsJob(sessions[c], e, n)
    BY <1>2 DEF HoldsStatus, HoldsEmbedding, HoldsJob, Holding
  <2> QED BY <2>1, <2>2 DEF MarksFollow
<1> QED
  BY <1>2 DEF HeldStep

\* The last commit writes what the copy holds.
LEMMA EndedHeld ==
  ASSUME PipelineInv, NEW c \in Clients, NEW op \in {"ingest", "embed"}, NEW d \in Documents,
         sessions[c] \in Working, sessions[c].op = op, sessions[c].document = d,
         sessions[c].step \in {"working", "replacing"}, Exists(d),
         NEW status \in Statuses \ {"PROCESSING"}, NEW embedding \in EmbeddingStatuses \ {"PROCESSING"},
         NEW job \in JobStatuses \ {"PROCESSING"}, NEW new \in Row,
         new.status = RowEnded(c, op, d, status, embedding, job).status,
         new.embedding = RowEnded(c, op, d, status, embedding, job).embedding,
         new.ingestions = RowEnded(c, op, d, status, embedding, job).ingestions,
         Save(d, new), KeepsOthers(c), abandoned \subseteq abandoned'
  PROVE  HeldStep(c)
<1> DEFINE s == sessions[c]
           row == documents[d]
           ended == RowEnded(c, op, d, status, embedding, job)
<1>0. Busy(c)
  BY NoneAssumption DEF Busy
<1>1. row \in Row /\ RowFits(row) /\ SessionFits(s, row)
  BY <1>0, RowsAreRows DEF PipelineInv, RowsFit, SessionsFit
<1>2. s.job \in 1..Len(JobList(row, op))
  BY <1>1 DEF SessionFits, JobFits
<1>3. /\ Len(JobList(ended, op)) = Len(JobList(row, op))
      /\ JobList(ended, op) \in Seq(JobStatuses) /\ JobList(row, op) \in Seq(JobStatuses)
      /\ JobList(ended, op)[s.job] = Written(s.jobStatus, job, JobList(row, op)[s.job])
      /\ \A m \in 1..Len(JobList(row, op)) : m # s.job => JobList(ended, op)[m] = JobList(row, op)[m]
      /\ op = "ingest" => /\ ended.embedding = row.embedding
                          /\ ended.status = Written(s.status, status, row.status)
      /\ op # "ingest" => /\ ended.status = row.status /\ ended.ingestions = row.ingestions
                          /\ ended.embedding = Written(s.embedding, embedding, row.embedding)
  BY SMTT(30), <1>1, <1>2, EndedRow, JobListType
<1> HIDE DEF ended
<1>4. documents'[d] = new
  BY DEF PipelineInv, TypeOK, Save
<1>5. MarksFollow(c, d)
  <2>1. CASE op = "ingest"
    <3>1. new.status = "PROCESSING" => row.status = "PROCESSING" /\ ~HoldsStatus(s, d)
      BY <1>3, <2>1 DEF ended, Written, HoldsStatus
    <3>2. new.embedding = row.embedding /\ ~HoldsEmbedding(s, d)
      BY <1>3, <2>1 DEF ended, HoldsEmbedding, Holding
    <3>3. /\ new.ingestions = JobList(ended, op) /\ row.ingestions = JobList(row, op)
          /\ DOMAIN new.ingestions = 1..Len(row.ingestions) /\ DOMAIN row.ingestions = 1..Len(row.ingestions)
      <4>1. new.ingestions = JobList(ended, op) /\ row.ingestions = JobList(row, op)
        BY <2>1 DEF ended, JobList
      <4>2. new.ingestions \in Seq(JobStatuses) /\ row.ingestions \in Seq(JobStatuses)
            /\ Len(new.ingestions) = Len(row.ingestions)
        BY <1>3, <4>1
      <4> QED BY <4>1, <4>2
    <3>4. ASSUME NEW n \in DOMAIN new.ingestions, new.ingestions[n] = "PROCESSING"
          PROVE  row.ingestions[n] = "PROCESSING" /\ ~HoldsJob(s, d, n)
      <4>1. CASE n = s.job
        BY <1>3, <3>3, <3>4, <4>1 DEF Written, HoldsJob
      <4>2. CASE n # s.job
        BY <1>3, <3>3, <3>4, <4>2 DEF HoldsJob
      <4> QED BY <4>1, <4>2
    <3> QED BY <1>4, <3>1, <3>2, <3>3, <3>4 DEF MarksFollow
  <2>2. CASE op = "embed"
    <3>1. new.status = row.status /\ ~HoldsStatus(s, d) /\ \A n : ~HoldsJob(s, d, n)
      BY <1>3, <2>2 DEF ended, HoldsStatus, HoldsJob, Holding
    <3>2. new.embedding = "PROCESSING" => row.embedding = "PROCESSING" /\ ~HoldsEmbedding(s, d)
      BY <1>3, <2>2 DEF ended, Written, HoldsEmbedding
    <3>3. new.ingestions = row.ingestions
      BY <1>3, <2>2 DEF ended
    <3> QED BY <1>4, <3>1, <3>2, <3>3 DEF MarksFollow
  <2> QED BY <2>1, <2>2
<1> QED
  BY <1>5, RowSavedHeld

\* A READY row without chunks comes from no commit that leaves none.
LEMMA ReadySaved ==
  ASSUME PipelineInv, ReadyHasChunks, NEW d \in Documents, NEW new \in Row, Exists(d), Save(d, new),
         new.status = "READY" => new.chunks # 0
  PROVE  ReadyHasChunks'
<1>1. documents'[d] = new /\ \A e \in Documents : e # d => documents'[e] = documents[e]
  BY DEF PipelineInv, TypeOK, Save
<1> QED
  BY <1>1 DEF ReadyHasChunks, Exists


LEMMA ReadyAlone ==
  ASSUME ReadyHasChunks, UNCHANGED documents
  PROVE  ReadyHasChunks'
BY DEF ReadyHasChunks, Exists

\* A request that holds nothing moves on, or ends, without a commit.
LEMMA IdleStepHeld ==
  ASSUME NEW c \in Clients, NotHolding(sessions[c]), UNCHANGED documents, KeepsOthers(c),
         abandoned \subseteq abandoned'
  PROVE  HeldStep(c)
BY NotHoldingHoldsNothing, RowsAloneHeld

\* A request that is at work moves on without a commit.
LEMMA WorkingOnHeld ==
  ASSUME NEW c \in Clients, UNCHANGED <<documents, abandoned>>, KeepsOthers(c),
         sessions[c] # None, sessions'[c] # None,
         sessions[c].step \in {"working", "replacing"}, sessions'[c].step \in {"working", "replacing"},
         sessions'[c].op = sessions[c].op, sessions'[c].document = sessions[c].document,
         sessions'[c].status = sessions[c].status, sessions'[c].embedding = sessions[c].embedding,
         sessions'[c].job = sessions[c].job, sessions'[c].jobStatus = sessions[c].jobStatus
  PROVE  HeldStep(c)
<1>1. \A d : /\ HoldsStatus(sessions[c], d) => HoldsStatus(sessions'[c], d)
             /\ HoldsEmbedding(sessions[c], d) => HoldsEmbedding(sessions'[c], d)
             /\ \A n : HoldsJob(sessions[c], d, n) => HoldsJob(sessions'[c], d, n)
  BY DEF HoldsStatus, HoldsEmbedding, HoldsJob, Holding
<1> QED
  BY <1>1, RowsAloneHeld

\* Who gives up on a document that is gone, or is recorded as abandoned.
LEMMA GivesUpHeld ==
  ASSUME NEW c \in Clients, UNCHANGED documents, KeepsOthers(c), abandoned \subseteq abandoned',
         sessions[c].document \in abandoned' \/ ~Exists(sessions[c].document)
  PROVE  HeldStep(c)
<1>1. ASSUME NEW d \in Documents \ abandoned', Exists(d)
      PROVE  ~HoldsStatus(sessions[c], d) /\ ~HoldsEmbedding(sessions[c], d)
             /\ \A n : ~HoldsJob(sessions[c], d, n)
  BY <1>1 DEF HoldsStatus, HoldsEmbedding, HoldsJob, Holding
<1> QED
  BY <1>1, RowsAloneHeld

LEMMA EndKeepsOthers ==
  ASSUME PipelineInv, NEW c \in Clients, End(c)
  PROVE  KeepsOthers(c) /\ sessions'[c] = None
BY DEF PipelineInv, TypeOK, End, KeepsOthers

LEMMA FindJobHeld ==
  ASSUME PipelineInv, NEW c \in Clients, FindJob(c)
  PROVE  HeldStep(c) /\ UNCHANGED documents
<1>1. NotHolding(sessions[c]) /\ UNCHANGED <<documents, abandoned>>
  BY DEF FindJob, Step, NotHolding
<1>2. KeepsOthers(c)
  BY FindJobQuiet DEF QuietStep
<1> QED BY <1>1, <1>2, IdleStepHeld

LEMMA StartJobHeld ==
  ASSUME PipelineInv, NEW c \in Clients, StartJob(c)
  PROVE  HeldStep(c) /\ (ReadyHasChunks => ReadyHasChunks')
<1> DEFINE s == sessions[c]
           op == s.op
<1>1. PICK o \in {"ingest", "embed"} : Step(c, o, "found")
  BY DEF StartJob
<1>0. PICK d \in Documents : d = s.document
  BY <1>1, AtWork
<1> DEFINE row == documents[d]
<1>2. /\ Busy(c) /\ s \in Working /\ op = o /\ s.step = "found"
      /\ Exists(d) => row \in Row /\ RowFits(row) /\ SessionFits(s, row)
  BY <1>0, <1>1, AtWork
<1>3. KeepsOthers(c) /\ UNCHANGED abandoned
  BY StartJobQuiet DEF QuietStep, StartJob
<1>4. ~HoldsStatus(s, d) /\ ~HoldsEmbedding(s, d) /\ \A n : ~HoldsJob(s, d, n)
  BY <1>2, NotHoldingHoldsNothing DEF NotHolding
<1>5. CASE Exists(d)
  <2> DEFINE new == RowStarted(c, op, d)
             jobs == JobsStarted(c, op, d)
             job == IF s.job = 0 THEN Len(JobsOf(d, op)) + 1 ELSE s.job
             started == [s EXCEPT !.step = "committed", !.job = job]
  <2>1. Save(d, new) /\ sessions' = [sessions EXCEPT ![c] = started]
    BY <1>0, <1>2, <1>5 DEF StartJob
  <2>2. /\ new \in Row /\ new.chunks = row.chunks /\ JobList(new, op) = jobs
        /\ op = "ingest" => /\ new.embedding = row.embedding
                            /\ new.status = Written(s.status, "PROCESSING", row.status)
        /\ op # "ingest" => /\ new.status = row.status /\ new.ingestions = row.ingestions
                            /\ new.embedding = Written(s.embedding, "PROCESSING", row.embedding)
    BY <1>2, <1>5, StartedRow DEF SessionFits
  <2>3. JobFits(s, row) /\ JobsOf(d, op) = JobList(row, op) /\ JobList(row, op) \in Seq(JobStatuses)
    BY <1>2, <1>5, JobsAreListed, JobListType DEF SessionFits
  <2>4. /\ jobs \in Seq(JobStatuses)
        /\ s.job = 0 => Len(jobs) = Len(JobList(row, op)) + 1
        /\ s.job # 0 => Len(jobs) = Len(JobList(row, op))
        /\ \A m \in 1..Len(JobList(row, op)) : m # s.job => jobs[m] = JobList(row, op)[m]
    BY <1>2, <1>5, <2>3, StartedJobs
  <2>5. /\ started.op = op /\ started.document = d /\ started.step = "committed" /\ started.job = job
        /\ started # None
    <3>1. job \in Nat
      BY <1>2, <2>3 DEF Working
    <3> HIDE DEF job
    <3>2. started \in Working
      BY <1>2, <3>1 DEF Working
    <3> QED BY <1>0, <1>2, <3>2, NoneAssumption DEF Working
  <2> HIDE DEF started, new, jobs
  <2>6. sessions'[c] = started /\ documents'[d] = new
    BY <1>5, <2>1, <2>2, RowSaved DEF PipelineInv, TypeOK
  <2>7. MarksFollow(c, d)
    <3>1. CASE op = "ingest"
      <4>1. HoldsStatus(sessions'[c], d) /\ \A n : n = job => HoldsJob(sessions'[c], d, n)
        BY <2>5, <2>6, <3>1 DEF HoldsStatus, HoldsJob, Holding
      <4>2. new.embedding = row.embedding
        BY <2>2, <3>1
      <4>3. new.ingestions = jobs /\ row.ingestions = JobList(row, op)
        BY <2>2, <3>1 DEF JobList
      <4>4. ASSUME NEW n \in DOMAIN jobs, n # job
            PROVE  n \in DOMAIN JobList(row, op) /\ JobList(row, op)[n] = jobs[n]
        <5>1. n \in 1..Len(jobs) /\ Len(JobList(row, op)) \in Nat
          BY <2>3, <2>4, <4>4
        <5>2. n \in 1..Len(JobList(row, op)) /\ n # s.job
          BY <2>3, <2>4, <4>4, <5>1
        <5> QED BY <2>3, <2>4, <5>2
      <4> HIDE DEF job
      <4> QED BY <1>4, <1>5, <2>6, <4>1, <4>2, <4>3, <4>4 DEF MarksFollow
    <3>2. CASE op # "ingest"
      <4>1. HoldsEmbedding(sessions'[c], d)
        BY <1>2, <2>5, <2>6, <3>2 DEF HoldsEmbedding, Holding
      <4>2. new.status = row.status /\ new.ingestions = row.ingestions
        BY <2>2, <3>2
      <4> QED BY <1>4, <1>5, <2>6, <4>1, <4>2 DEF MarksFollow
    <3> QED BY <3>1, <3>2
  <2>8. new.status = "READY" => row.status = "READY"
    BY <2>2 DEF Written
  <2>9. ReadyHasChunks => ReadyHasChunks'
    BY <1>5, <2>1, <2>2, <2>8, ReadySaved DEF ReadyHasChunks
  <2> QED BY <1>0, <1>3, <1>5, <2>1, <2>2, <2>7, <2>9, RowSavedHeld
<1>6. CASE ~Exists(d)
  <2>1. UNCHANGED documents
    BY <1>0, <1>6 DEF StartJob
  <2> QED BY <1>0, <1>3, <1>6, <2>1, GivesUpHeld, ReadyAlone
<1> QED
  BY <1>5, <1>6

LEMMA RefreshHeld ==
  ASSUME PipelineInv, NEW c \in Clients, Refresh(c)
  PROVE  HeldStep(c) /\ UNCHANGED documents
<1> DEFINE s == sessions[c]
           op == s.op
<1>1. PICK o \in {"ingest", "embed"} : Step(c, o, "committed")
  BY DEF Refresh
<1>0. PICK d \in Documents : d = s.document
  BY <1>1, AtWork
<1> DEFINE row == documents[d]
<1>2. /\ Busy(c) /\ s \in Working /\ op = o /\ s.step = "committed"
      /\ Exists(d) => row \in Row /\ RowFits(row) /\ SessionFits(s, row)
  BY <1>0, <1>1, AtWork
<1>3. KeepsOthers(c) /\ UNCHANGED <<documents, abandoned>>
  BY RefreshQuiet DEF QuietStep, Refresh
<1>4. CASE Exists(d)
  <2> DEFINE read == [s EXCEPT !.step = "working", !.status = row.status, !.embedding = row.embedding,
                               !.jobStatus = JobsOf(d, op)[s.job]]
  <2>1. sessions' = [sessions EXCEPT ![c] = read]
    BY <1>0, <1>2, <1>4 DEF Refresh
  <2>2. /\ read.op = op /\ read.document = d /\ read.step = "working" /\ read.job = s.job
        /\ read.status = row.status /\ read.embedding = row.embedding
        /\ read.jobStatus = JobList(row, op)[s.job] /\ read # None
    <3>1. JobsOf(d, op) = JobList(row, op) /\ JobList(row, op) \in Seq(JobStatuses)
      BY <1>2, <1>4, JobsAreListed, JobListType
    <3>2. JobsOf(d, op)[s.job] \in JobStatuses
      BY <1>2, <1>4, <3>1 DEF SessionFits, JobFits
    <3>3. read \in Working
      BY <1>2, <1>4, <3>2 DEF Working, Row
    <3> QED BY ZenonT(60), <1>0, <1>2, <3>1, <3>3, NoneAssumption DEF Working
  <2> HIDE DEF read
  <2>3. sessions'[c] = read
    BY <2>1 DEF PipelineInv, TypeOK
  <2>4. MarksFollow(c, d)
    <3>1. CASE op = "ingest"
      <4>1. row.status = "PROCESSING" => HoldsStatus(sessions'[c], d)
        BY <2>2, <2>3, <3>1 DEF HoldsStatus, Holding
      <4>2. ~HoldsEmbedding(s, d)
        BY <3>1 DEF HoldsEmbedding, Holding
      <4>3. \A n : row.ingestions[n] = "PROCESSING" => HoldsJob(sessions'[c], d, n) \/ ~HoldsJob(s, d, n)
        BY <2>2, <2>3, <3>1 DEF HoldsJob, Holding, JobList
      <4> QED BY <1>3, <1>4, <4>1, <4>2, <4>3 DEF MarksFollow
    <3>2. CASE op # "ingest"
      <4>1. row.embedding = "PROCESSING" => HoldsEmbedding(sessions'[c], d)
        BY <1>2, <2>2, <2>3, <3>2 DEF HoldsEmbedding, Holding
      <4>2. ~HoldsStatus(s, d) /\ \A n : ~HoldsJob(s, d, n)
        BY <3>2 DEF HoldsStatus, HoldsJob, Holding
      <4> QED BY <1>3, <1>4, <4>1, <4>2 DEF MarksFollow
    <3> QED BY <3>1, <3>2
  <2>5. ASSUME NEW e \in Documents, e # d, Exists(e)' PROVE MarksFollow(c, e)
    <3>1. ~HoldsStatus(s, e) /\ ~HoldsEmbedding(s, e) /\ \A n : ~HoldsJob(s, e, n)
      BY <1>0, <2>5 DEF HoldsStatus, HoldsEmbedding, HoldsJob, Holding
    <3> QED BY <1>3, <2>5, <3>1 DEF MarksFollow, Exists
  <2> QED BY <1>3, <2>4, <2>5 DEF HeldStep
<1>5. CASE ~Exists(d)
  BY <1>0, <1>3, <1>5, GivesUpHeld
<1> QED
  BY <1>3, <1>4, <1>5

LEMMA FailJobHeld ==
  ASSUME PipelineInv, NEW c \in Clients, FailJob(c)
  PROVE  HeldStep(c) /\ (ReadyHasChunks => ReadyHasChunks')
<1> DEFINE s == sessions[c]
<1>1. PICK o \in {"ingest", "embed"} : Step(c, o, "working")
  BY DEF FailJob
<1>0. PICK d \in Documents : d = s.document
  BY <1>1, AtWork
<1> DEFINE row == documents[d]
           new == RowEnded(c, o, d, "FAILED", "FAILED", "FAILED")
<1>2. /\ s \in Working /\ s.op = o /\ s.step = "working"
      /\ Exists(d) => row \in Row /\ RowFits(row) /\ SessionFits(s, row)
  BY <1>0, <1>1, AtWork
<1>3. KeepsOthers(c) /\ UNCHANGED abandoned
  BY EndKeepsOthers DEF FailJob
<1>4. CASE Exists(d)
  <2>1. Save(d, new)
    BY <1>0, <1>2, <1>4 DEF FailJob
  <2>2. /\ s.job \in 1..Len(JobList(row, o))
        /\ "FAILED" \in Statuses /\ "FAILED" \in EmbeddingStatuses /\ "FAILED" \in JobStatuses
    BY <1>2, <1>4 DEF SessionFits, JobFits, Statuses, EmbeddingStatuses, JobStatuses
  <2>3. /\ new \in Row /\ new.chunks = row.chunks
        /\ o = "ingest" => new.status = Written(s.status, "FAILED", row.status)
        /\ o # "ingest" => new.status = row.status
    BY <1>2, <1>4, <2>2, EndedRow
  <2>4. HeldStep(c)
    BY <1>0, <1>2, <1>3, <1>4, <2>1, <2>2, <2>3, EndedHeld
  <2>5. new.status = "READY" => row.status = "READY"
    BY <2>3 DEF Written
  <2> HIDE DEF new
  <2>6. ReadyHasChunks => ReadyHasChunks'
    BY <1>4, <2>1, <2>3, <2>5, ReadySaved DEF ReadyHasChunks
  <2> QED BY <2>4, <2>6
<1>5. CASE ~Exists(d)
  <2>1. UNCHANGED documents
    BY <1>0, <1>5 DEF FailJob
  <2> QED BY <1>0, <1>3, <1>5, <2>1, GivesUpHeld, ReadyAlone
<1> QED
  BY <1>4, <1>5


LEMMA DeleteChunksHeld ==
  ASSUME PipelineInv, NEW c \in Clients, DeleteChunks(c)
  PROVE  HeldStep(c) /\ UNCHANGED documents
<1> DEFINE s == sessions[c]
           replacing == [s EXCEPT !.step = "replacing", !.chunks = documents[s.document].chunks]
<1>1. Step(c, "ingest", "working") /\ UNCHANGED <<documents, abandoned>> /\ Exists(s.document)
  BY DEF DeleteChunks
<1>2. s \in Working /\ s # None /\ s.step = "working" /\ documents[s.document] \in Row
  BY <1>1, AtWork DEF Busy
<1>3. sessions' = [sessions EXCEPT ![c] = replacing]
  BY <1>2 DEF DeleteChunks
<1>4. /\ replacing \in Working /\ replacing.op = s.op /\ replacing.document = s.document
      /\ replacing.step = "replacing" /\ replacing.status = s.status /\ replacing.embedding = s.embedding
      /\ replacing.job = s.job /\ replacing.jobStatus = s.jobStatus
  BY <1>2 DEF Working, Row
<1> HIDE DEF replacing
<1>5. KeepsOthers(c) /\ sessions'[c] = replacing /\ replacing # None
  BY <1>3, <1>4, SessionSet, NoneAssumption DEF PipelineInv
<1> QED
  BY <1>1, <1>2, <1>4, <1>5, WorkingOnHeld

LEMMA FinishIngestionHeld ==
  ASSUME PipelineInv, NEW c \in Clients, FinishIngestion(c)
  PROVE  HeldStep(c) /\ (ReadyHasChunks => ReadyHasChunks')
<1> DEFINE s == sessions[c]
<1>0. PICK d \in Documents : d = s.document
  <2>1. Step(c, "ingest", "replacing")
    BY DEF FinishIngestion
  <2> QED BY <2>1, AtWork
<1> DEFINE row == documents[d]
           ended == RowEnded(c, "ingest", d, "READY", "none", "COMPLETED")
           new == ReplacedChunks(ended, row.chunks + 1)
<1>1. Step(c, "ingest", "replacing") /\ Exists(d) /\ Save(d, new) /\ UNCHANGED abandoned
  BY <1>0 DEF FinishIngestion
<1>2. /\ s \in Working /\ s.op = "ingest" /\ s.step = "replacing"
      /\ row \in Row /\ RowFits(row) /\ SessionFits(s, row)
  BY <1>0, <1>1, AtWork
<1>3. /\ s.job \in 1..Len(JobList(row, "ingest"))
      /\ "READY" \in Statuses /\ "none" \in EmbeddingStatuses /\ "COMPLETED" \in JobStatuses
  BY <1>2 DEF SessionFits, JobFits, Statuses, EmbeddingStatuses, JobStatuses
<1>4. ended \in Row /\ row.chunks \in Nat
  <2>1. ended \in Row
    BY <1>2, <1>3, EndedRow
  <2>2. row.chunks \in Nat
    BY <1>2, IngestionsAssumption DEF Row, Generation
  <2> QED BY <2>1, <2>2
<1>5. documents'[d] = new /\ documents' \in [Documents -> Row \cup {None}]
  <2>1. QuietStep(c)
    BY FinishIngestionQuiet
  <2> QED BY <1>1, <2>1, RowsWritten DEF QuietStep, PipelineInv, TypeOK, Save
<1> HIDE DEF ended
<1>6. /\ new.status = ended.status /\ new.embedding = ended.embedding
      /\ new.ingestions = ended.ingestions /\ new.chunks = row.chunks + 1
  BY <1>4 DEF ReplacedChunks, Row
<1>7. new \in Row
  <2>1. new # None
    <3>1. QuietStep(c)
      BY FinishIngestionQuiet
    <3>2. Exists(d)'
      BY <1>1, <3>1, RowsWritten DEF QuietStep
    <3> QED BY <1>5, <3>2 DEF Exists
  <2> QED BY <1>5, <2>1
<1> HIDE DEF new
<1>8. KeepsOthers(c)
  BY EndKeepsOthers DEF FinishIngestion
<1>9. HeldStep(c)
  BY <1>0, <1>1, <1>2, <1>3, <1>6, <1>7, <1>8, EndedHeld DEF ended
<1>10. ReadyHasChunks => ReadyHasChunks'
  BY <1>1, <1>4, <1>6, <1>7, ReadySaved
<1> QED
  BY <1>9, <1>10

LEMMA AbandonHeld ==
  ASSUME PipelineInv, NEW c \in Clients, Abandon(c)
  PROVE  HeldStep(c) /\ UNCHANGED documents
<1>1. KeepsOthers(c) /\ UNCHANGED documents /\ abandoned' = abandoned \cup {sessions[c].document}
  BY EndKeepsOthers DEF Abandon
<1> QED BY <1>1, GivesUpHeld

LEMMA EmbedBatchHeld ==
  ASSUME PipelineInv, NEW c \in Clients, EmbedBatch(c)
  PROVE  HeldStep(c) /\ (ReadyHasChunks => ReadyHasChunks')
<1> DEFINE s == sessions[c]
           rest == [s EXCEPT !.todo = @ \ {NextPart(c)}]
<1>0. PICK d \in Documents : d = s.document
  <2>1. Step(c, "embed", "working")
    BY DEF EmbedBatch
  <2> QED BY <2>1, AtWork
<1> DEFINE row == documents[d]
           part == NextPart(c)
           new == [row EXCEPT !.vectors[part] = s.chunks]
<1>1. /\ Step(c, "embed", "working") /\ s.todo # {} /\ Exists(d) /\ row.chunks = s.chunks
      /\ UNCHANGED abandoned /\ Save(d, new)
  BY <1>0 DEF EmbedBatch, StillThere
<1>2. /\ s \in Working /\ s.op = "embed" /\ s.step = "working" /\ row \in Row
  BY <1>0, <1>1, AtWork
<1>3. sessions' = [sessions EXCEPT ![c] = rest]
  BY <1>2 DEF EmbedBatch
<1>4. /\ rest \in Working /\ rest.op = "embed" /\ rest.step = "working" /\ rest.document = d
      /\ rest.embedding = s.embedding
  BY <1>0, <1>2, LessToDo
<1> HIDE DEF rest
<1>5. KeepsOthers(c) /\ sessions'[c] = rest /\ rest # None
  BY <1>3, <1>4, SessionSet, NoneAssumption DEF PipelineInv
<1>6. part \in Parts
  BY <1>1, <1>2, NextPartType DEF Working
<1> HIDE DEF part
<1>7. /\ new \in Row /\ new.chunks = row.chunks /\ new.status = row.status
      /\ new.embedding = row.embedding /\ new.ingestions = row.ingestions
  BY <1>1, <1>2, <1>6 DEF Row
<1> HIDE DEF new
<1>8. documents'[d] = new
  BY <1>1, <1>7, RowSaved
<1>9. MarksFollow(c, d)
  <2>1. ~HoldsStatus(s, d) /\ \A n : ~HoldsJob(s, d, n)
    BY <1>2 DEF HoldsStatus, HoldsJob, Holding
  <2>2. HoldsEmbedding(s, d) => HoldsEmbedding(sessions'[c], d)
    BY <1>2, <1>4, <1>5 DEF HoldsEmbedding, Holding
  <2> QED BY <1>1, <1>7, <1>8, <2>1, <2>2 DEF MarksFollow
<1>10. HeldStep(c)
  BY <1>0, <1>1, <1>5, <1>7, <1>9, RowSavedHeld
<1>11. ReadyHasChunks => ReadyHasChunks'
  BY <1>1, <1>7, ReadySaved DEF ReadyHasChunks
<1> QED
  BY <1>10, <1>11

LEMMA BatchVanishedHeld ==
  ASSUME PipelineInv, NEW c \in Clients, BatchVanished(c)
  PROVE  HeldStep(c) /\ UNCHANGED documents
<1> DEFINE s == sessions[c]
           rest == [s EXCEPT !.todo = @ \ {NextPart(c)}]
<1>1. Step(c, "embed", "working")
  BY DEF BatchVanished
<1>2. s \in Working /\ s # None /\ s.op = "embed" /\ s.step = "working"
  BY <1>1, AtWork DEF Busy
<1>3. CASE Abandon(c)
  BY <1>3, AbandonHeld
<1>4. CASE /\ sessions' = [sessions EXCEPT ![c].todo = @ \ {NextPart(c)}]
           /\ UNCHANGED <<kb, documents, files, abandoned, stray>>
  <2>1. sessions' = [sessions EXCEPT ![c] = rest]
    BY <1>2, <1>4
  <2>2. /\ rest \in Working /\ rest.op = "embed" /\ rest.step = "working"
        /\ rest.document = s.document /\ rest.job = s.job
        /\ rest.embedding = s.embedding
    BY <1>2, LessToDo
  <2>3. rest.status = s.status /\ rest.jobStatus = s.jobStatus
    BY <1>2 DEF Working
  <2> HIDE DEF rest
  <2>4. KeepsOthers(c) /\ sessions'[c] = rest /\ rest # None
    BY <2>1, <2>2, SessionSet, NoneAssumption DEF PipelineInv
  <2> QED BY <1>2, <1>4, <2>2, <2>3, <2>4, WorkingOnHeld
<1> QED
  BY <1>3, <1>4 DEF BatchVanished

LEMMA FinishEmbeddingHeld ==
  ASSUME PipelineInv, NEW c \in Clients, FinishEmbedding(c)
  PROVE  HeldStep(c) /\ (ReadyHasChunks => ReadyHasChunks')
<1> DEFINE s == sessions[c]
<1>0. PICK d \in Documents : d = s.document
  <2>1. Step(c, "embed", "working")
    BY DEF FinishEmbedding
  <2> QED BY <2>1, AtWork
<1> DEFINE row == documents[d]
           ended == RowEnded(c, "embed", d, "READY", "COMPLETED", "COMPLETED")
           new == [ended EXCEPT !.covered = s.chunks]
<1>1. Step(c, "embed", "working") /\ UNCHANGED abandoned
  BY DEF FinishEmbedding
<1>2. /\ s \in Working /\ s.op = "embed" /\ s.step = "working"
      /\ Exists(d) => row \in Row /\ RowFits(row) /\ SessionFits(s, row)
  BY <1>0, <1>1, AtWork
<1>3. KeepsOthers(c)
  BY EndKeepsOthers DEF FinishEmbedding
<1>4. CASE Exists(d)
  <2>1. Save(d, new)
    BY <1>0, <1>4 DEF FinishEmbedding
  <2>2. /\ s.job \in 1..Len(JobList(row, "embed"))
        /\ "READY" \in Statuses /\ "COMPLETED" \in EmbeddingStatuses /\ "COMPLETED" \in JobStatuses
    BY <1>2, <1>4 DEF SessionFits, JobFits, Statuses, EmbeddingStatuses, JobStatuses
  <2>3. ended \in Row /\ ended.chunks = row.chunks /\ ended.status = row.status
    BY <1>2, <1>4, <2>2, EndedRow
  <2>4. s.chunks \in Generation
    BY <1>2 DEF Working
  <2> HIDE DEF ended
  <2>5. /\ new \in Row /\ new.chunks = row.chunks /\ new.status = ended.status
        /\ new.embedding = ended.embedding /\ new.ingestions = ended.ingestions
    BY <2>3, <2>4 DEF Row
  <2> HIDE DEF new
  <2>6. HeldStep(c)
    BY <1>0, <1>2, <1>3, <1>1, <1>4, <2>1, <2>2, <2>5, EndedHeld DEF ended
  <2>7. ReadyHasChunks => ReadyHasChunks'
    BY <1>4, <2>1, <2>3, <2>5, ReadySaved DEF ReadyHasChunks
  <2> QED BY <2>6, <2>7
<1>5. CASE ~Exists(d)
  <2>1. UNCHANGED documents
    BY <1>0, <1>5 DEF FinishEmbedding
  <2> QED BY <1>0, <1>1, <1>3, <1>5, <2>1, GivesUpHeld, ReadyAlone
<1> QED
  BY <1>4, <1>5

LEMMA PatchStatusHeld ==
  ASSUME PipelineInv, NEW c \in Clients, NEW status \in SetByHand, PatchStatus(c, status)
  PROVE  /\ status # "PROCESSING" => HeldStep(c)
         /\ status # "READY" => (ReadyHasChunks => ReadyHasChunks')
<1> DEFINE s == sessions[c]
<1>1. Step(c, "patch", "loaded") /\ UNCHANGED abandoned
  BY DEF PatchStatus
<1>0. PICK d \in Documents : d = s.document
  BY <1>1, StepIsBusy, BusyIsWorking DEF PipelineInv, Working
<1> DEFINE row == documents[d]
           written == Written(s.status, status, row.status)
           new == [row EXCEPT !.status = written]
<1>2. KeepsOthers(c) /\ NotHolding(s)
  BY <1>1, EndKeepsOthers DEF PatchStatus, NotHolding, Step
<1>3. CASE Exists(d)
  <2>1. Save(d, new)
    BY <1>0, <1>3 DEF PatchStatus
  <2>2. row \in Row /\ RowFits(row)
    BY <1>3, RowsAreRows DEF PipelineInv, RowsFit
  <2>3. written \in Statuses /\ written \in {status, row.status}
    BY <2>2, SetByHandAssumption DEF Written, Row
  <2> HIDE DEF written
  <2>4. /\ new \in Row /\ new.chunks = row.chunks /\ new.status = written
        /\ new.embedding = row.embedding /\ new.ingestions = row.ingestions
    BY <2>2, <2>3, StatusWritten
  <2> HIDE DEF new
  <2>5. documents'[d] = new
    BY <1>3, <2>1, <2>4, RowSaved
  <2>6. ASSUME status # "PROCESSING" PROVE HeldStep(c)
    <3>1. MarksFollow(c, d)
      BY <1>2, <1>3, <2>3, <2>4, <2>5, <2>6, NotHoldingHoldsNothing DEF MarksFollow
    <3> QED BY <1>0, <1>1, <1>2, <1>3, <2>1, <2>4, <3>1, RowSavedHeld
  <2>7. ASSUME status # "READY", ReadyHasChunks PROVE ReadyHasChunks'
    BY <1>3, <2>1, <2>3, <2>4, <2>7, ReadySaved DEF ReadyHasChunks
  <2> QED BY <2>6, <2>7
<1>4. CASE ~Exists(d)
  <2>1. UNCHANGED documents
    BY <1>0, <1>4 DEF PatchStatus
  <2> QED BY <1>1, <1>2, <2>1, IdleStepHeld, ReadyAlone
<1> QED
  BY <1>3, <1>4

LEMMA DeleteDocumentHeld ==
  ASSUME PipelineInv, NEW c \in Clients, DeleteDocument(c)
  PROVE  HeldStep(c) /\ (ReadyHasChunks => ReadyHasChunks')
<1> DEFINE s == sessions[c]
<1>1. Step(c, "delete", "loaded") /\ UNCHANGED abandoned
  BY DEF DeleteDocument
<1>0. PICK d \in Documents : d = s.document
  BY <1>1, StepIsBusy, BusyIsWorking DEF PipelineInv, Working
<1> DEFINE row == documents[d]
           new == [row EXCEPT !.deleted = TRUE]
<1>2. KeepsOthers(c) /\ NotHolding(s)
  BY <1>1, EndKeepsOthers DEF DeleteDocument, NotHolding, Step
<1>3. CASE Exists(d)
  <2>1. Save(d, new)
    BY <1>0, <1>3 DEF DeleteDocument
  <2>2. row \in Row
    BY <1>3, RowsAreRows DEF PipelineInv
  <2>3. /\ new \in Row /\ new.chunks = row.chunks /\ new.status = row.status
        /\ new.embedding = row.embedding /\ new.ingestions = row.ingestions
    BY <2>2 DEF Row
  <2> HIDE DEF new
  <2>4. documents'[d] = new
    BY <1>3, <2>1, <2>3, RowSaved
  <2>5. MarksFollow(c, d)
    BY <1>2, <1>3, <2>3, <2>4, NotHoldingHoldsNothing DEF MarksFollow
  <2>6. HeldStep(c)
    BY <1>0, <1>1, <1>2, <1>3, <2>1, <2>3, <2>5, RowSavedHeld
  <2>7. ReadyHasChunks => ReadyHasChunks'
    BY <1>3, <2>1, <2>3, ReadySaved DEF ReadyHasChunks
  <2> QED BY <2>6, <2>7
<1>4. CASE ~Exists(d)
  <2>1. UNCHANGED documents
    BY <1>0, <1>4 DEF DeleteDocument
  <2> QED BY <1>1, <1>2, <2>1, IdleStepHeld, ReadyAlone
<1> QED
  BY <1>3, <1>4

LEMMA LoseHeld ==
  ASSUME PipelineInv, NEW c \in Clients, Lose(c)
  PROVE  HeldStep(c) /\ UNCHANGED documents
<1>1. KeepsOthers(c) /\ UNCHANGED documents
  BY EndKeepsOthers DEF Lose
<1>2. CASE Begun(c)
  <2>1. abandoned' = abandoned \cup {sessions[c].document}
    BY <1>2 DEF Lose
  <2> QED BY <1>1, <2>1, GivesUpHeld
<1>3. CASE ~Begun(c)
  <2>1. UNCHANGED abandoned
    BY <1>3 DEF Lose
  <2>2. \A d : /\ ~HoldsStatus(sessions[c], d) /\ ~HoldsEmbedding(sessions[c], d)
               /\ \A n : ~HoldsJob(sessions[c], d, n)
    BY <1>3 DEF HoldsStatus, HoldsEmbedding, HoldsJob, Holding, Begun
  <2> QED BY <1>1, <2>1, <2>2, RowsAloneHeld
<1> QED
  BY <1>2, <1>3


LEMMA UploadHeld ==
  ASSUME PipelineInv, NEW c \in Clients, Uploads(c)
  PROVE  HeldStep(c) /\ (ReadyHasChunks => ReadyHasChunks')
<1>0. /\ documents \in [Documents -> Row \cup {None}]
      /\ sessions \in [Clients -> Upload \cup Working \cup {None}]
  BY DEF PipelineInv, TypeOK
<1>1. CASE \E x \in Contents : CheckUpload(c, x)
  <2>1. KeepsOthers(c) /\ UNCHANGED <<documents, abandoned>> /\ NotHolding(sessions[c])
    BY <1>1 DEF CheckUpload, KeepsOthers, NotHolding
  <2> QED BY <2>1, IdleStepHeld, ReadyAlone
<1>2. CASE StoreFile(c)
  <2>1. KeepsOthers(c) /\ UNCHANGED <<documents, abandoned>> /\ NotHolding(sessions[c])
    BY <1>0, <1>2 DEF StoreFile, KeepsOthers, NotHolding, Step
  <2> QED BY <2>1, IdleStepHeld, ReadyAlone
<1>3. CASE InsertDocument(c)
  <2>1. PICK d \in Documents : d = sessions[c].document
    BY <1>3 DEF InsertDocument, PipelineInv, UploadsPlaced
  <2>2. /\ Step(c, "upload", "stored") /\ UNCHANGED abandoned
        /\ documents' = [documents EXCEPT ![d] = FreshRow(sessions[c].content)]
        /\ sessions' = [sessions EXCEPT ![c].step = "inserted"]
    BY <1>3, <2>1 DEF InsertDocument, Save, Advance
  <2>3. KeepsOthers(c) /\ NotHolding(sessions[c])
    BY <1>0, <2>2 DEF KeepsOthers, NotHolding, Step
  <2>4. /\ documents'[d].status = "UPLOADED" /\ documents'[d].embedding = "none"
        /\ documents'[d].ingestions = <<>>
        /\ \A e \in Documents : e # d => documents'[e] = documents[e]
    BY <1>0, <2>2 DEF FreshRow
  <2>5. ASSUME NEW e \in Documents, Exists(e)' PROVE MarksFollow(c, e)
    <3>1. CASE e = d
      BY <2>4, <3>1 DEF MarksFollow
    <3>2. CASE e # d
      BY <2>3, <2>4, <2>5, <3>2, NotHoldingHoldsNothing DEF MarksFollow, Exists
    <3> QED BY <3>1, <3>2
  <2>6. ReadyHasChunks => ReadyHasChunks'
    BY <2>4 DEF ReadyHasChunks, Exists
  <2> QED BY <2>2, <2>3, <2>5, <2>6 DEF HeldStep
<1>4. CASE FinishUpload(c) \/ FailUpload(c)
  <2>1. UNCHANGED <<documents, abandoned>> /\ End(c) /\ NotHolding(sessions[c])
    BY <1>4 DEF FinishUpload, FailUpload, NotHolding, Step
  <2> QED BY <2>1, EndKeepsOthers, IdleStepHeld, ReadyAlone
<1>5. CASE ~Busy(c) /\ Lose(c)
  BY <1>5, LoseHeld, ReadyAlone
<1> QED
  BY <1>1, <1>2, <1>3, <1>4, <1>5 DEF Uploads

LEMMA ServingHeld ==
  ASSUME PipelineInv, NEW c \in Clients, Serves(c)
  PROVE  /\ "PROCESSING" \notin SetByHand => HeldStep(c)
         /\ "READY" \notin SetByHand => (ReadyHasChunks => ReadyHasChunks')
<1>1. CASE \E d \in Documents, op \in {"ingest", "embed", "patch", "delete"} : LoadDocument(c, op, d)
  <2>1. KeepsOthers(c)
    BY <1>1, LoadDocumentQuiet DEF QuietStep
  <2>2. UNCHANGED <<documents, abandoned>> /\ NotHolding(sessions[c])
    BY <1>1 DEF LoadDocument, NotHolding
  <2> QED BY <2>1, <2>2, IdleStepHeld, ReadyAlone
<1>2. CASE \E d \in Documents : RetryEmbedding(c, d)
  <2>1. KeepsOthers(c)
    BY <1>2, RetryEmbeddingQuiet DEF QuietStep
  <2>2. UNCHANGED <<documents, abandoned>> /\ NotHolding(sessions[c])
    BY <1>2 DEF RetryEmbedding, NotHolding
  <2> QED BY <2>1, <2>2, IdleStepHeld, ReadyAlone
<1>3. CASE FindJob(c)
  BY <1>3, FindJobHeld, ReadyAlone
<1>4. CASE StartJob(c)
  BY <1>4, StartJobHeld
<1>5. CASE Refresh(c)
  BY <1>5, RefreshHeld, ReadyAlone
<1>6. CASE FailJob(c)
  BY <1>6, FailJobHeld
<1>7. CASE DeleteChunks(c)
  BY <1>7, DeleteChunksHeld, ReadyAlone
<1>8. CASE FinishIngestion(c)
  BY <1>8, FinishIngestionHeld
<1>9. CASE IngestionConflict(c)
  BY <1>9, AbandonHeld, ReadyAlone DEF IngestionConflict
<1>10. CASE EmbedBatch(c)
  BY <1>10, EmbedBatchHeld
<1>11. CASE BatchVanished(c)
  BY <1>11, BatchVanishedHeld, ReadyAlone
<1>12. CASE FinishEmbedding(c)
  BY <1>12, FinishEmbeddingHeld
<1>13. CASE \E s \in SetByHand : PatchStatus(c, s)
  BY <1>13, PatchStatusHeld
<1>14. CASE DeleteDocument(c)
  BY <1>14, DeleteDocumentHeld
<1>15. CASE Busy(c) /\ Lose(c)
  BY <1>15, LoseHeld, ReadyAlone
<1> QED
  BY <1>1, <1>2, <1>3, <1>4, <1>5, <1>6, <1>7, <1>8, <1>9, <1>10, <1>11, <1>12, <1>13, <1>14, <1>15
  DEF Serves

LEMMA NoRowNoMarks ==
  ASSUME DeleteKnowledgeBase
  PROVE  ProcessingIsHeld' /\ ReadyHasChunks'
<1>1. \A d \in Documents : ~Exists(d)'
  BY DEF DeleteKnowledgeBase, Exists
<1> QED BY <1>1 DEF ProcessingIsHeld, ReadyHasChunks

LEMMA StutterHeld ==
  ASSUME UNCHANGED vars
  PROVE  /\ ProcessingIsHeld => ProcessingIsHeld'
         /\ ReadyHasChunks => ReadyHasChunks'
<1>1. UNCHANGED documents /\ UNCHANGED sessions /\ UNCHANGED abandoned
  BY DEF vars
<1>2. ReadyHasChunks => ReadyHasChunks'
  BY <1>1, ReadyAlone
<1>3. ProcessingIsHeld => ProcessingIsHeld'
  BY <1>1 DEF ProcessingIsHeld, HoldsStatus, HoldsEmbedding, HoldsJob, Holding, Exists
<1> QED BY <1>2, <1>3

LEMMA HeldIsOwned ==
  ASSUME ProcessingIsHeld
  PROVE  ProcessingIsOwned
<1>1. ASSUME NEW c \in Clients, NEW op, NEW d, op \in {"ingest", "embed"}, Holding(sessions[c], op, d)
      PROVE  Owner(c, op, d)
  BY <1>1 DEF Holding, Owner, Begun
<1>2. ASSUME NEW d \in Documents, Exists(d), d \notin abandoned
      PROVE  /\ documents[d].status = "PROCESSING" => \E c \in Clients : Owner(c, "ingest", d)
             /\ documents[d].embedding = "PROCESSING" => \E c \in Clients : Owner(c, "embed", d)
             /\ \A n \in DOMAIN documents[d].ingestions : documents[d].ingestions[n] = "PROCESSING"
                  => \E c \in Clients : Owner(c, "ingest", d) /\ sessions[c].job = n
  BY <1>1, <1>2 DEF ProcessingIsHeld, HoldsStatus, HoldsEmbedding, HoldsJob
<1> QED
  BY <1>2 DEF ProcessingIsOwned

\* Nobody waits for a job that nobody runs: where no caller of PATCH sets the
\* status PROCESSING by hand, what says PROCESSING is owned by a request, or the
\* model records that some request abandoned the document.
THEOREM NothingIsStranded ==
  ASSUME "PROCESSING" \notin SetByHand
  PROVE  Spec => []ProcessingIsOwned
<1>1. Init => ProcessingIsHeld
  BY DEF Init, ProcessingIsHeld, Exists
<1>2. PipelineInv /\ ProcessingIsHeld /\ [Next]_vars => ProcessingIsHeld'
  BY ServingHeld, UploadHeld, HeldStepKeepsHeld, NoRowNoMarks, StutterHeld, NextCases
<1>3. ProcessingIsHeld => ProcessingIsOwned
  BY HeldIsOwned
<1> QED
  BY <1>1, <1>2, <1>3, RequestsFitTheirRows, PTL DEF Spec

\* What is searched is what the statuses say, where no caller of PATCH sets the
\* status READY by hand.
THEOREM ReadyIsSearchable ==
  ASSUME "READY" \notin SetByHand
  PROVE  Spec => []SearchableAsStated
<1>1. Init => ReadyHasChunks
  BY DEF Init, ReadyHasChunks, Exists
<1>2. PipelineInv /\ ReadyHasChunks /\ [Next]_vars => ReadyHasChunks'
  BY ServingHeld, UploadHeld, NoRowNoMarks, StutterHeld, NextCases
<1>3. ReadyHasChunks /\ VectorsAreOfTheirChunks /\ CompletedCoversChunks => SearchableAsStated
  BY DEF SearchableAsStated
<1> QED
  BY <1>1, <1>2, <1>3, RequestsFitTheirRows, VectorsMatchChunks, PTL DEF Spec

-----------------------------------------------------------------------------
(* A request for the chunks: the orderings it is built from.               *)

\* c comes before d.
Precedes(score, c, d) == score[c] > score[d] \/ (score[c] = score[d] /\ c < d)

PlaceOf(S, score, c) == Cardinality({d \in S : Precedes(score, d, c)}) + 1

\* ByScore in the words of PlaceOf.
LEMMA ByScorePlaces ==
  ASSUME NEW S, NEW score
  PROVE  ByScore(S, score) = [n \in 1 .. Cardinality(S) |-> CHOOSE c \in S : PlaceOf(S, score, c) = n]
BY Zenon DEF ByScore, PlaceOf, Precedes

\* What precedes has a smaller place, and no place is beyond the last.
LEMMA PlacesOrdered ==
  ASSUME NEW S, S \subseteq Int, IsFiniteSet(S), NEW score \in [S -> Int]
  PROVE  /\ \A c \in S : PlaceOf(S, score, c) \in 1 .. Cardinality(S)
         /\ \A c, d \in S : Precedes(score, c, d) => PlaceOf(S, score, c) < PlaceOf(S, score, d)
<1> DEFINE Before(c) == {d \in S : Precedes(score, d, c)}
<1>1. \A c \in S : /\ IsFiniteSet(Before(c)) /\ Cardinality(Before(c)) \in Nat
                   /\ Cardinality(Before(c)) <= Cardinality(S)
                   /\ Cardinality(Before(c)) = Cardinality(S) => Before(c) = S
  BY FS_Subset, FS_CardinalityType
<1>2. \A c \in S : c \notin Before(c)
  BY DEF Precedes
<1>3. Cardinality(S) \in Nat
  BY FS_CardinalityType
<1>4. \A c \in S : PlaceOf(S, score, c) = Cardinality(Before(c)) + 1
  BY DEF PlaceOf
<1>5. \A c, d \in S : Precedes(score, c, d) => Before(c) \subseteq Before(d) /\ c \in Before(d)
  <2> SUFFICES ASSUME NEW c \in S, NEW d \in S, Precedes(score, c, d)
               PROVE  Before(c) \subseteq Before(d) /\ c \in Before(d)
    OBVIOUS
  <2>1. \A a \in S : a \in Int /\ score[a] \in Int
    OBVIOUS
  <2>2. ASSUME NEW a \in S, Precedes(score, a, c) PROVE Precedes(score, a, d)
    BY <2>1, <2>2 DEF Precedes
  <2> QED BY <2>2
<1> HIDE DEF Before
<1>6. \A c \in S : PlaceOf(S, score, c) \in 1 .. Cardinality(S)
  <2> SUFFICES ASSUME NEW c \in S PROVE PlaceOf(S, score, c) \in 1 .. Cardinality(S)
    OBVIOUS
  <2>1. Before(c) # S
    BY <1>2
  <2>2. Cardinality(Before(c)) < Cardinality(S)
    BY <1>1, <1>3, <2>1
  <2> QED BY <1>1, <1>3, <1>4, <2>2
<1>7. ASSUME NEW c \in S, NEW d \in S, Precedes(score, c, d)
      PROVE  Cardinality(Before(c)) < Cardinality(Before(d))
  <2>1. Before(c) \in SUBSET Before(d) /\ Before(c) # Before(d)
    BY <1>2, <1>5, <1>7
  <2>2. /\ Cardinality(Before(c)) <= Cardinality(Before(d))
        /\ Cardinality(Before(d)) = Cardinality(Before(c)) => Before(d) = Before(c)
    BY <1>1, <2>1, FS_Subset
  <2> QED BY <1>1, <2>1, <2>2
<1>8. \A c, d \in S : Precedes(score, c, d) => PlaceOf(S, score, c) < PlaceOf(S, score, d)
  BY <1>1, <1>4, <1>7
<1> QED BY <1>6, <1>8

\* ByScore lists every member once, the higher scores first.
LEMMA ByScoreOrders ==
  ASSUME NEW S, S \subseteq Int, IsFiniteSet(S), NEW score \in [S -> Int]
  PROVE  /\ ByScore(S, score) \in [1 .. Cardinality(S) -> S]
         /\ \A c \in S : \E n \in 1 .. Cardinality(S) : ByScore(S, score)[n] = c
         /\ \A m, n \in 1 .. Cardinality(S) : ByScore(S, score)[m] = ByScore(S, score)[n] => m = n
         /\ \A m, n \in 1 .. Cardinality(S) :
              Precedes(score, ByScore(S, score)[m], ByScore(S, score)[n]) => m < n
<1> DEFINE N == Cardinality(S)
           place(c) == PlaceOf(S, score, c)
           order == ByScore(S, score)
           f == [c \in S |-> place(c)]
<1>1. /\ \A c \in S : place(c) \in 1 .. N
      /\ \A c, d \in S : Precedes(score, c, d) => place(c) < place(d)
  BY PlacesOrdered
<1>2. \A c, d \in S : c # d => Precedes(score, c, d) \/ Precedes(score, d, c)
  BY DEF Precedes
<1>3. N \in Nat
  BY FS_CardinalityType
<1>4. order = [n \in 1 .. N |-> CHOOSE c \in S : place(c) = n]
  BY ByScorePlaces
<1> HIDE DEF place, order, N
<1>5. \A c, d \in S : place(c) = place(d) => c = d
  BY <1>1, <1>2, <1>3
<1>6. f \in Injection(S, 1 .. N)
  BY <1>1, <1>5 DEF Injection, IsInjective
<1>7. f \in Surjection(S, 1 .. N)
  <2>1. IsFiniteSet(1 .. N) /\ Cardinality(1 .. N) = N
    BY <1>3, FS_Interval
  <2> HIDE DEF f
  <2> QED BY <1>6, <2>1, FS_Injection DEF N
<1>8. \A n \in 1 .. N : \E c \in S : place(c) = n
  BY <1>7 DEF Surjection
<1>9. \A n \in 1 .. N : order[n] \in S /\ place(order[n]) = n
  BY <1>4, <1>8
<1>10. order \in [1 .. N -> S]
  BY <1>4, <1>8
<1>11. \A c \in S : \E n \in 1 .. N : order[n] = c
  BY <1>1, <1>5, <1>9
<1>12. \A m, n \in 1 .. N : order[m] = order[n] => m = n
  BY <1>9
<1>13. \A m, n \in 1 .. N : Precedes(score, order[m], order[n]) => m < n
  BY <1>1, <1>9
<1> QED BY <1>10, <1>11, <1>12, <1>13 DEF order, N

\* A quotient is the greatest number of times the divisor fits.
LEMMA DivFits ==
  ASSUME NEW a \in Nat, NEW b \in Nat \ {0}
  PROVE  a \div b \in Nat /\ b * (a \div b) <= a /\ a < b * (a \div b) + b
OBVIOUS

\* A rank of a branch, what it counts, and the most it can.
IsRank(n) == n \in Nat /\ 1 <= n /\ n <= 500
Part(n) == 1000000000 \div (60 + n)
MostOfOne == 20000000
Kept(score) == (score + 500) \div 1000

\* A quotient falls strictly where the divisors are small.
LEMMA QuotientsFall ==
  ASSUME NEW B \in Nat, NEW a \in Nat \ {0}, NEW b \in Nat \ {0}, a < b, a * a <= B
  PROVE  B \div b < B \div a
<1> DEFINE p == B \div a
           q == B \div b
<1>1. p \in Nat /\ B < a * p + a
  BY DivFits
<1>2. q \in Nat /\ b * q <= B
  BY DivFits
<1> HIDE DEF p, q
<1>3. ASSUME p <= q PROVE FALSE
  <2>1. a * p <= a * q
    BY <1>1, <1>2, <1>3
  <2>2. b * q = a * q + (b - a) * q
    BY <1>2
  <2>3. q <= (b - a) * q
    <3>1. b - a \in Nat \ {0}
      OBVIOUS
    <3> HIDE DEF p
    <3> QED BY <1>2, <3>1
  <2>4. q < a
    BY <1>1, <1>2, <2>1, <2>2, <2>3
  <2>5. p <= a - 1
    BY <1>1, <1>2, <1>3, <2>4
  <2>6. a * p <= a * (a - 1)
    BY <1>1, <2>5
  <2>7. a * (a - 1) = a * a - a
    OBVIOUS
  <2>8. a * p \in Int /\ a * a \in Int
    BY <1>1
  <2> QED BY <1>1, <2>6, <2>7, <2>8
<1>4. q < p
  BY <1>1, <1>2, <1>3
<1> QED BY <1>4 DEF p, q

\* A rank counts strictly more than every greater one, and more than none.
LEMMA SharesFall ==
  ASSUME NEW m, NEW n, IsRank(m), IsRank(n), m < n
  PROVE  Part(n) < Part(m)
<1> DEFINE a == 60 + m
           b == 60 + n
           B == 1000000000
<1>1. a \in Nat \ {0} /\ b \in Nat \ {0} /\ a < b /\ a <= 560
  BY SMTT(30) DEF IsRank
<1>2. B \in Nat /\ 560 * 560 <= B
  BY SMTT(30)
<1>3. Part(n) = B \div b /\ Part(m) = B \div a
  BY SMTT(30) DEF Part
<1> HIDE DEF a, b, B
<1>4. a * a <= B
  <2>1. a * a <= 560 * a
    BY <1>1, SMTT(30)
  <2> QED BY <1>1, <1>2, <2>1, SMTT(30)
<1>5. B \div b < B \div a
  BY <1>1, <1>2, <1>4, QuotientsFall, SMTT(30)
<1> QED BY <1>3, <1>5, SMTT(30)

\* What one rank counts lies between nothing and MostOfOne.
LEMMA SharesCount == \A n : IsRank(n) => Part(n) \in Nat \ {0} /\ Part(n) <= MostOfOne
<1> SUFFICES ASSUME NEW n, IsRank(n) PROVE Part(n) \in Nat \ {0} /\ Part(n) <= MostOfOne
  BY SMTT(30)
<1> DEFINE b == 60 + n
           B == 1000000000
           q == B \div b
<1>1. b \in Nat \ {0} /\ 50 <= b /\ b <= 560
  BY SMTT(30) DEF IsRank
<1>2. B \in Nat /\ 50 * MostOfOne = B /\ 560 < B /\ MostOfOne \in Nat
  BY SMTT(30) DEF MostOfOne
<1>3. Part(n) = q
  BY SMTT(30) DEF Part
<1> HIDE DEF b, B
<1>4. q \in Nat /\ b * q <= B /\ B < b * q + b
  BY <1>1, <1>2, DivFits, SMTT(30)
<1> HIDE DEF q
<1>5. q # 0
  <2> SUFFICES ASSUME q = 0 PROVE FALSE
    OBVIOUS
  <2>1. b * q = 0
    BY <1>1, SMTT(30)
  <2> QED BY <1>1, <1>2, <1>4, <2>1, SMTT(30)
<1>6. 50 * q <= b * q
  BY <1>1, <1>4, SMTT(30)
<1>7. 50 * q <= 50 * MostOfOne
  <2>1. b * q \in Int
    BY <1>1, <1>4, SMTT(30)
  <2> QED BY <1>2, <1>4, <1>6, <2>1, SMTT(30)
<1>8. q <= MostOfOne
  BY <1>2, <1>4, <1>7, SMTT(30)
<1> QED BY <1>3, <1>4, <1>5, <1>8, SMTT(30)

\* Two shares give a score that is kept as at most 1.0.
LEMMA MostOfTwo ==
  /\ MostOfOne \in Nat /\ Whole \in Nat
  /\ \A a, b \in Nat :
       a <= MostOfOne /\ b <= MostOfOne => Kept(a + b) \in Nat /\ Kept(a + b) <= Whole
BY SMTT(30) DEF MostOfOne, Whole, Kept

\* What a branch says of a chunk: one rank, or none.
LEMMA Ranked ==
  ASSUME NEW branch \in Branches, NEW c
  PROVE  RankIn(branch, c) = {} \/ \E n : IsRank(n) /\ RankIn(branch, c) = {n}
<1>1. PICK n \in 0 .. CandidateK : branch \in [1 .. n -> Chunks]
  BY Zenon DEF Branches, RankingsOf
<1>2. \A i, j \in DOMAIN branch : branch[i] = branch[j] => i = j
  BY Zenon DEF Branches, RankingsOf
<1>3. DOMAIN branch = 1 .. n /\ n \in Nat /\ n <= 500
  BY <1>1, RetrievalAssumption
<1>4. ASSUME RankIn(branch, c) # {} PROVE \E m : IsRank(m) /\ RankIn(branch, c) = {m}
  <2>1. PICK m \in DOMAIN branch : branch[m] = c
    BY <1>4 DEF RankIn
  <2>2. RankIn(branch, c) = {m}
    BY <1>2, <2>1 DEF RankIn
  <2>3. IsRank(m)
    BY <1>3, <2>1 DEF IsRank
  <2> QED BY <2>2, <2>3
<1> QED BY <1>4

\* The share of no rank and of one.
LEMMA ShareIs ==
  /\ Share({}) = 0
  /\ \A n : Share({n}) = Part(n)
<1>1. \A n : (CHOOSE m \in {n} : TRUE) = n
  OBVIOUS
<1> QED BY <1>1, SMTT(30) DEF Share, RrfK, Part

\* What a branch counts for any chunk.
LEMMA ShareOfRank ==
  ASSUME NEW branch \in Branches, NEW c
  PROVE  Share(RankIn(branch, c)) \in 0 .. MostOfOne
BY Ranked, ShareIs, SharesCount, MostOfTwo

\* A branch counts more for the chunk it ranks ahead.
LEMMA AheadCountsMore ==
  ASSUME NEW branch \in Branches, NEW c, NEW d, Ahead(branch, c, d)
  PROVE  Share(RankIn(branch, c)) > Share(RankIn(branch, d))
<1>1. PICK m : IsRank(m) /\ RankIn(branch, c) = {m}
  BY Ranked DEF Ahead
<1>2. CASE RankIn(branch, d) = {}
  BY <1>1, <1>2, ShareIs, SharesCount, MostOfTwo
<1>3. CASE RankIn(branch, d) # {}
  <2>1. PICK n : IsRank(n) /\ RankIn(branch, d) = {n}
    BY <1>3, Ranked
  <2>2. m < n
    BY <1>1, <2>1 DEF Ahead
  <2> QED BY <1>1, <2>1, <2>2, ShareIs, SharesFall, SMTT(30)
<1> QED BY <1>2, <1>3

\* So does the sum over both branches, if both agree.
LEMMA PreferredCountsMore ==
  ASSUME NEW v \in Branches, NEW k \in Branches, NEW c, NEW d, BothPrefer(v, k, c, d)
  PROVE  RrfScore(v, k, c) > RrfScore(v, k, d)
<1>1. /\ Share(RankIn(v, c)) \in Nat /\ Share(RankIn(v, d)) \in Nat
      /\ Share(RankIn(k, c)) \in Nat /\ Share(RankIn(k, d)) \in Nat
  BY ShareOfRank, MostOfTwo
<1>2. \A b \in {v, k} : NotBehind(b, c, d) => Share(RankIn(b, c)) >= Share(RankIn(b, d))
  <2> SUFFICES ASSUME NEW b \in {v, k}, NotBehind(b, c, d)
               PROVE  Share(RankIn(b, c)) >= Share(RankIn(b, d))
    OBVIOUS
  <2>1. CASE Ahead(b, c, d)
    BY <1>1, <2>1, AheadCountsMore
  <2>2. CASE RankIn(b, c) \cup RankIn(b, d) = {}
    <3>1. RankIn(b, c) = {} /\ RankIn(b, d) = {}
      BY <2>2
    <3> QED BY <3>1, ShareIs
  <2> QED BY <2>1, <2>2 DEF NotBehind
<1>3. Share(RankIn(v, c)) >= Share(RankIn(v, d)) /\ Share(RankIn(k, c)) >= Share(RankIn(k, d))
  BY <1>2 DEF BothPrefer
<1>4. Share(RankIn(v, c)) > Share(RankIn(v, d)) \/ Share(RankIn(k, c)) > Share(RankIn(k, d))
  BY AheadCountsMore DEF BothPrefer
<1> QED BY <1>1, <1>3, <1>4 DEF RrfScore

\* The branches find finitely many chunks.
LEMMA FoundIsFinite ==
  ASSUME NEW v \in Branches, NEW k \in Branches
  PROVE  /\ IsFiniteSet(Range(v) \cup Range(k))
         /\ Range(v) \cup Range(k) \subseteq Chunks
<1>1. \A b \in Branches : IsFiniteSet(Range(b)) /\ Range(b) \subseteq Chunks
  <2> SUFFICES ASSUME NEW b \in Branches PROVE IsFiniteSet(Range(b)) /\ Range(b) \subseteq Chunks
    OBVIOUS
  <2>1. PICK n \in 0 .. CandidateK : b \in [1 .. n -> Chunks]
    BY Zenon DEF Branches, RankingsOf
  <2>2. n \in Nat /\ IsFiniteSet(1 .. n)
    BY <2>1, FS_Interval, RetrievalAssumption
  <2>3. b \in Surjection(1 .. n, Range(b)) /\ Range(b) \subseteq Chunks
    BY <2>1 DEF Surjection, Range
  <2> QED BY <2>2, <2>3, FS_Surjection
<1> QED BY <1>1, FS_Union

\* The first k of a list.
LEMMA FirstOfList ==
  ASSUME NEW S, NEW s \in Seq(S), NEW k \in Nat
  PROVE  /\ FirstOf(s, k) \in Seq(S)
         /\ DOMAIN FirstOf(s, k) = 1 .. (IF Len(s) < k THEN Len(s) ELSE k)
         /\ \A n \in DOMAIN FirstOf(s, k) : n \in 1 .. Len(s) /\ FirstOf(s, k)[n] = s[n]
BY DEF FirstOf

\* One entry of a list.
Result == [chunk : Chunks, score : 0 .. Whole]

\* A fused list respects its branches, for every cut.
LEMMA FusedRespects ==
  ASSUME NEW v \in Branches, NEW k \in Branches, NEW K \in Nat
  PROVE  /\ Respects(Fuse(v, k, K), v, k)
         /\ Fuse(v, k, K) \in Results
<1> DEFINE S == Range(v) \cup Range(k)
           score == [c \in S |-> RrfScore(v, k, c)]
           order == ByScore(DOMAIN score, score)
           N == Cardinality(S)
           all == [n \in 1 .. N |-> [chunk |-> order[n], score |-> (score[order[n]] + 500) \div 1000]]
           fused == FirstOf(all, K)
<1>1. IsFiniteSet(S) /\ S \subseteq Chunks /\ S \subseteq Int /\ N \in Nat
  <2>1. IsFiniteSet(S) /\ S \subseteq Chunks
    BY FoundIsFinite
  <2> HIDE DEF S
  <2>2. Chunks \subseteq Int
    BY RetrievalAssumption
  <2>3. Cardinality(S) \in Nat
    BY <2>1, FS_CardinalityType, Zenon
  <2> QED BY <2>1, <2>2, <2>3
<1>h. \A c \in S : score[c] = RrfScore(v, k, c)
  OBVIOUS
<1>t. score \in [S -> {RrfScore(v, k, c) : c \in S}] /\ DOMAIN score = S
  OBVIOUS
<1> HIDE DEF score
<1>2. \A c \in S : score[c] = RrfScore(v, k, c) /\ score[c] \in Nat /\ Kept(score[c]) \in 0 .. Whole
  <2>1. \A c \in S : Share(RankIn(v, c)) \in 0 .. MostOfOne /\ Share(RankIn(k, c)) \in 0 .. MostOfOne
    BY ShareOfRank
  <2> HIDE DEF S
  <2> QED BY <1>h, <2>1, MostOfTwo DEF RrfScore
<1>3. score \in [S -> Int] /\ DOMAIN score = S
  <2> HIDE DEF S
  <2> QED BY <1>t, <1>2
<1>4. /\ order \in [1 .. N -> S]
      /\ \A c \in S : \E n \in 1 .. N : order[n] = c
      /\ \A m, n \in 1 .. N : Precedes(score, order[m], order[n]) => m < n
  <2>1. order = ByScore(S, score)
    BY <1>3
  <2> HIDE DEF S, order, N
  <2>2. S \subseteq Int /\ IsFiniteSet(S) /\ score \in [S -> Int]
    BY <1>1, <1>3
  <2>3. order \in [1 .. Cardinality(S) -> S]
    BY <2>1, <2>2, ByScoreOrders
  <2>4. \A c \in S : \E n \in 1 .. Cardinality(S) : order[n] = c
    <3>1. \A c \in S : \E n \in 1 .. Cardinality(S) : ByScore(S, score)[n] = c
      BY <2>2, ByScoreOrders, ZenonT(60)
    <3> QED BY <2>1, <3>1
  <2>5. \A m, n \in 1 .. Cardinality(S) : Precedes(score, order[m], order[n]) => m < n
    BY <2>1, <2>2, ByScoreOrders
  <2> QED BY <2>3, <2>4, <2>5, Zenon DEF N
<1>5. Fuse(v, k, K) = fused
  <2> DEFINE listed == [n \in DOMAIN order |->
                         [chunk |-> order[n], score |-> (score[order[n]] + 500) \div 1000]]
  <2>1. Fuse(v, k, K) = FirstOf(listed, K)
    BY Zenon DEF Fuse, score, S
  <2>2. listed = all
    <3>1. DOMAIN order = 1 .. N
      BY <1>4
    <3> HIDE DEF order, N
    <3> QED BY <3>1, Zenon
  <2> HIDE DEF listed, all
  <2> QED BY <2>1, <2>2, Zenon
<1> HIDE DEF order, N, S
<1>6. \A n \in 1 .. N : all[n] \in Result /\ all[n].chunk = order[n]
  <2> SUFFICES ASSUME NEW n \in 1 .. N
               PROVE  all[n] \in Result /\ all[n].chunk = order[n]
    OBVIOUS
  <2>1. order[n] \in Chunks /\ order[n] \in S
    BY <1>1, <1>4
  <2>2. Kept(score[order[n]]) \in 0 .. Whole
    BY <1>2, <2>1
  <2>3. all[n] = [chunk |-> order[n], score |-> Kept(score[order[n]])]
    BY DEF Kept
  <2> HIDE DEF all
  <2> QED BY <2>1, <2>2, <2>3 DEF Result
<1>7. all \in Seq(Result) /\ Len(all) = N
  <2>1. all \in [1 .. N -> Result]
    BY <1>6
  <2> HIDE DEF all
  <2> QED BY <1>1, <2>1
<1> HIDE DEF all
<1>8. /\ fused \in Results
      /\ DOMAIN fused = 1 .. (IF N < K THEN N ELSE K)
      /\ \A n \in DOMAIN fused : n \in 1 .. N /\ fused[n] = all[n]
  <2>1. Results = Seq(Result)
    BY DEF Results, Result
  <2> QED BY <1>1, <1>7, <2>1, FirstOfList
<1>9. Respects(fused, v, k)
  <2> SUFFICES ASSUME NEW c \in S, NEW n \in DOMAIN fused, BothPrefer(v, k, c, fused[n].chunk)
               PROVE  \E m \in DOMAIN fused : m < n /\ fused[m].chunk = c
    BY DEF Respects, S
  <2>1. n \in 1 .. N /\ fused[n].chunk = order[n] /\ order[n] \in S
    BY <1>4, <1>6, <1>8
  <2>2. PICK m \in 1 .. N : order[m] = c
    BY <1>4
  <2>3. RrfScore(v, k, c) > RrfScore(v, k, order[n])
    BY <2>1, PreferredCountsMore
  <2>4. Precedes(score, order[m], order[n])
    BY <1>2, <2>1, <2>2, <2>3 DEF Precedes
  <2>5. m < n
    BY <1>4, <2>1, <2>2, <2>4
  <2>6. m \in DOMAIN fused
    BY <1>1, <1>8, <2>2, <2>5
  <2> QED BY <1>6, <1>8, <2>2, <2>5, <2>6
<1> QED BY <1>5, <1>8, <1>9

\* Flattening, over the first n sequences.
FlatOf(f, s, n) == f = [i \in 1 .. n |-> IF i = 1 THEN s[i] ELSE f[i - 1] \o s[i]]

\* The function that FlattenSeq chooses exists, for every length.
LEMMA FlatExists ==
  ASSUME NEW s, NEW n \in Nat
  PROVE  \E f : FlatOf(f, s, n)
<1> DEFINE T == {k \in Nat : ~\E f : FlatOf(f, s, k)}
<1> SUFFICES ASSUME T # {} PROVE FALSE
  OBVIOUS
<1>1. PICK k \in T : \A j \in T : k <= j
  BY LeastNatural
<1>2. k # 0
  <2>1. FlatOf([i \in 1 .. 0 |-> 0], s, 0)
    BY DEF FlatOf
  <2> QED BY <1>1, <2>1
<1>3. k - 1 \in Nat /\ k - 1 \notin T
  BY <1>1, <1>2
<1>4. PICK f : FlatOf(f, s, k - 1)
  BY <1>3
<1> DEFINE h == [i \in 1 .. k |-> IF i = k THEN IF i = 1 THEN s[i] ELSE f[i - 1] \o s[i] ELSE f[i]]
<1>5. \A i \in 1 .. k : h[i] = IF i = 1 THEN s[i] ELSE h[i - 1] \o s[i]
  <2> SUFFICES ASSUME NEW i \in 1 .. k PROVE h[i] = IF i = 1 THEN s[i] ELSE h[i - 1] \o s[i]
    OBVIOUS
  <2>1. CASE i = 1 /\ i = k
    BY <2>1
  <2>2. CASE i # k
    <3>1. i \in 1 .. k - 1 /\ i - 1 # k /\ i # k
      BY <2>2, <1>3
    <3>2. f[i] = IF i = 1 THEN s[i] ELSE f[i - 1] \o s[i]
      <4>1. f = [j \in 1 .. k - 1 |-> IF j = 1 THEN s[j] ELSE f[j - 1] \o s[j]]
        BY <1>4 DEF FlatOf
      <4> QED BY <3>1, <4>1, Zenon
    <3>3. h[i] = f[i] /\ (i # 1 => h[i - 1] = f[i - 1])
      <4>1. i # 1 => i - 1 \in 1 .. k
        BY <3>1, <1>3
      <4> QED BY <3>1, <4>1
    <3> QED BY <3>2, <3>3
  <2>3. CASE i = k /\ i # 1
    <3>1. i - 1 \in 1 .. k /\ i - 1 # k
      BY <2>3, <1>3
    <3>2. h[i - 1] = f[i - 1]
      BY <3>1
    <3> QED BY <2>3, <3>2
  <2> QED BY <2>1, <2>2, <2>3
<1>6. FlatOf(h, s, k)
  <2>1. h = [i \in 1 .. k |-> h[i]]
    OBVIOUS
  <2> HIDE DEF h
  <2> QED BY <1>5, <2>1 DEF FlatOf
<1> QED BY <1>1, <1>6

\* Flattening loses no sequence altogether.
LEMMA Flattened ==
  ASSUME NEW N \in Nat \ {0}, NEW S, NEW s \in [1 .. N -> Seq(S)]
  PROVE  /\ FlattenSeq(s) \in Seq(S)
         /\ FlattenSeq(s) = <<>> => \A i \in 1 .. N : s[i] = <<>>
<1> DEFINE flat == CHOOSE f : FlatOf(f, s, N)
<1>1. FlatOf(flat, s, N)
  BY FlatExists
<1>2. Len(s) = N
  OBVIOUS
<1>3. FlattenSeq(s) = flat[N]
  BY <1>2, Zenon DEF FlattenSeq, FlatOf
<1> HIDE DEF flat
<1>4. \A i \in 1 .. N : flat[i] = IF i = 1 THEN s[i] ELSE flat[i - 1] \o s[i]
  BY <1>1 DEF FlatOf
<1> DEFINE Good(i) == flat[i] \in Seq(S) /\ (flat[i] = <<>> => \A j \in 1 .. i : s[j] = <<>>)
           T == {i \in 1 .. N : ~Good(i)}
<1>5. T = {}
  <2> SUFFICES ASSUME T # {} PROVE FALSE
    OBVIOUS
  <2>1. PICK k \in T : \A j \in T : k <= j
    <3>1. T \in SUBSET Nat
      OBVIOUS
    <3> HIDE DEF T
    <3> QED BY <3>1, LeastNatural
  <2>2. s[k] \in Seq(S) /\ k \in 1 .. N /\ ~Good(k)
    BY <2>1
  <2>3. k # 1
    <3> SUFFICES ASSUME k = 1 PROVE FALSE
      OBVIOUS
    <3>1. flat[1] = s[1]
      BY <1>4, <2>2
    <3> QED BY <2>2, <3>1
  <2>4. k - 1 \in 1 .. N /\ k - 1 \notin T
    BY <2>1, <2>2, <2>3
  <2>5. Good(k - 1)
    BY <2>4
  <2>6. flat[k] = flat[k - 1] \o s[k]
    BY <1>4, <2>2, <2>3
  <2>7. flat[k] \in Seq(S)
    BY <2>2, <2>5, <2>6, ConcatProperties
  <2>8. ASSUME flat[k] = <<>> PROVE \A j \in 1 .. k : s[j] = <<>>
    <3>1. Len(flat[k]) = Len(flat[k - 1]) + Len(s[k]) /\ Len(flat[k]) = 0
      <4>1. Len(flat[k]) = 0
        BY <2>8
      <4>2. flat[k - 1] \in Seq(S)
        BY <2>5
      <4> QED BY <2>2, <2>6, <4>1, <4>2, ConcatProperties, SMTT(30)
    <3>2. flat[k - 1] = <<>> /\ s[k] = <<>>
      BY <2>2, <2>5, <3>1
    <3>3. \A j \in 1 .. k : j \in 1 .. k - 1 \/ j = k
      BY <2>2
    <3> QED BY <2>5, <3>2, <3>3
  <2>9. Good(k)
    BY <2>7, <2>8
  <2> QED BY <2>2, <2>9
<1>6. Good(N)
  <2>1. N \in 1 .. N /\ N \notin T
    BY <1>5
  <2> HIDE DEF Good
  <2> QED BY <2>1
<1> QED BY <1>3, <1>6

\* A reranked list is a list of results.
LEMMA RerankedTyped ==
  ASSUME NEW results \in Results, NEW k \in Nat, NEW scores \in [DOMAIN results -> 0 .. Whole]
  PROVE  Reranked(results, scores, k) \in Results
<1> DEFINE S == DOMAIN results
           order == ByScore(S, scores)
           N == Cardinality(S)
           all == [n \in 1 .. N |-> [results[order[n]] EXCEPT !.score = scores[order[n]]]]
<1>1. results \in Seq(Result) /\ S = 1 .. Len(results) /\ Len(results) \in Nat
  BY DEF Results, Result
<1>2. IsFiniteSet(S) /\ S \subseteq Int /\ N \in Nat
  BY <1>1, FS_Interval, FS_CardinalityType
<1>3. scores \in [S -> Int]
  BY <1>1, MostOfTwo
<1>4. order \in [1 .. N -> S]
  BY <1>2, <1>3, ByScoreOrders
<1>5. Reranked(results, scores, k) = FirstOf(all, k)
  <2>1. DOMAIN order = 1 .. N
    BY <1>4
  <2> HIDE DEF N
  <2> QED BY <2>1, Zenon DEF Reranked, order, S
<1> HIDE DEF order, N
<1>6. \A n \in 1 .. N : all[n] \in Result
  <2> SUFFICES ASSUME NEW n \in 1 .. N PROVE all[n] \in Result
    OBVIOUS
  <2>1. results[order[n]] \in Result /\ scores[order[n]] \in 0 .. Whole
    BY <1>1, <1>4
  <2> QED BY <2>1 DEF Result
<1>7. all \in Seq(Result)
  <2>1. all \in [1 .. N -> Result]
    BY <1>6
  <2> HIDE DEF all
  <2> QED BY <1>2, <2>1
<1> HIDE DEF all
<1> QED BY <1>5, <1>7, FirstOfList DEF Results, Result

\* Merging loses no answer altogether.
LEMMA MergedIsOf ==
  ASSUME NEW N \in Nat \ {0}, NEW answers \in [1 .. N -> Results], NEW k \in Nat \ {0}
  PROVE  /\ Merge(answers, k) \in Results
         /\ Merge(answers, k) = <<>> => \A i \in 1 .. N : answers[i] = <<>>
<1> DEFINE joined == FlattenSeq(answers)
           S == {n \in DOMAIN joined : \A m \in 1 .. n - 1 : joined[m].chunk # joined[n].chunk}
           score == [n \in S |-> joined[n].score]
           order == ByScore(S, score)
           M == Cardinality(S)
           all == [n \in 1 .. M |-> joined[order[n]]]
<1>1. /\ joined \in Seq(Result)
      /\ joined = <<>> => \A i \in 1 .. N : answers[i] = <<>>
  BY Flattened DEF Results, Result
<1>2. Merge(answers, k) = BestOf(joined, k)
  BY Zenon DEF Merge
<1> HIDE DEF joined
<1>3. DOMAIN joined = 1 .. Len(joined) /\ Len(joined) \in Nat /\ IsFiniteSet(1 .. Len(joined))
  BY <1>1, FS_Interval
<1>4. IsFiniteSet(S) /\ S \subseteq Int /\ M \in Nat
  BY <1>3, FS_Subset, FS_CardinalityType
<1>5. score \in [S -> Int]
  <2>1. \A n \in S : n \in 1 .. Len(joined)
    BY <1>3
  <2>2. \A n \in S : joined[n].score \in Int
    <3>1. \A n \in 1 .. Len(joined) : joined[n] \in Result
      BY <1>1
    <3> HIDE DEF S
    <3> QED BY <2>1, <3>1, MostOfTwo DEF Result
  <2> HIDE DEF S
  <2> QED BY <2>2
<1>6. order \in [1 .. M -> S]
  <2> HIDE DEF score, S
  <2> QED BY <1>4, <1>5, ByScoreOrders
<1>7. BestOf(joined, k) = FirstOf(all, k)
  <2>1. DOMAIN order = 1 .. M
    BY <1>6
  <2> HIDE DEF M
  <2> QED BY <2>1, Zenon DEF BestOf
<1>8. joined # <<>> => M # 0
  <2> SUFFICES ASSUME joined # <<>> PROVE M # 0
    OBVIOUS
  <2>1. 1 \in S
    BY <1>1, <1>3
  <2> HIDE DEF S
  <2> QED BY <1>4, <2>1, FS_EmptySet
<1> HIDE DEF order, M
<1>9. all \in Seq(Result) /\ Len(all) = M
  <2>1. \A n \in 1 .. M : joined[order[n]] \in Result
    <3>1. \A n \in 1 .. M : order[n] \in DOMAIN joined
      BY <1>6
    <3> QED BY <1>1, <3>1
  <2>2. all \in [1 .. M -> Result]
    BY <2>1
  <2> HIDE DEF all
  <2> QED BY <1>4, <2>2
<1> HIDE DEF all, S
<1>10. FirstOf(all, k) \in Seq(Result) /\ DOMAIN FirstOf(all, k) = 1 .. (IF M < k THEN M ELSE k)
  BY <1>9, FirstOfList
<1>11. FirstOf(all, k) = <<>> => M = 0
  BY <1>4, <1>10
<1> QED BY <1>1, <1>2, <1>7, <1>8, <1>10, <1>11 DEF Results, Result

\* The scores of the model are scores.
LEMMA PartsOfWhole == {Whole \div 4, Whole} \subseteq 0 .. Whole /\ {Whole \div 2, Whole} \subseteq 0 .. Whole
<1>1. Whole \in Nat
  BY MostOfTwo
<1>2. /\ Whole \div 4 \in Nat /\ 4 * (Whole \div 4) <= Whole
      /\ Whole \div 2 \in Nat /\ 2 * (Whole \div 2) <= Whole
  BY <1>1, DivFits
<1> QED BY <1>1, <1>2

\* The ranking of a branch as results, each with a score of its own.
LEMMA ScoredTyped ==
  ASSUME NEW branch \in Branches, NEW k \in Nat, NEW r \in Scored(branch, k)
  PROVE  r \in Results
<1>1. PICK n \in 0 .. CandidateK : branch \in [1 .. n -> Chunks]
  BY Zenon DEF Branches, RankingsOf
<1>2. n \in Nat
  BY <1>1, RetrievalAssumption
<1>3. branch \in Seq(Chunks)
  BY <1>1, <1>2
<1> DEFINE m == IF Len(branch) < k THEN Len(branch) ELSE k
<1>4. DOMAIN FirstOf(branch, k) = 1 .. m /\ m \in Nat
  BY <1>3, FirstOfList
<1>5. r \in [1 .. m -> [chunk : Chunks, score : {Whole \div 4, Whole}]]
  BY <1>4 DEF Scored
<1>6. {Whole \div 4, Whole} \subseteq 0 .. Whole
  BY PartsOfWhole
<1> HIDE DEF m
<1>7. r \in [1 .. m -> Result]
  <2> DEFINE scores == {Whole \div 4, Whole}
  <2> HIDE DEF scores
  <2>1. scores \subseteq 0 .. Whole /\ r \in [1 .. m -> [chunk : Chunks, score : scores]]
    BY <1>5, <1>6, Zenon DEF scores
  <2> QED BY <2>1 DEF Result
<1>8. r \in Seq(Result)
  BY <1>4, <1>7
<1> QED BY <1>8 DEF Results, Result

\* A finite set as a list of its members.
LEMMA SetAsList ==
  ASSUME NEW S, IsFiniteSet(S)
  PROVE  /\ SetToSeq(S) \in [1 .. Cardinality(S) -> S]
         /\ \A c \in S : \E n \in 1 .. Cardinality(S) : SetToSeq(S)[n] = c
<1> DEFINE N == Cardinality(S)
<1>1. N \in Nat
  BY FS_CardinalityType
<1>2. PICK n \in Nat : ExistsBijection(1 .. n, S)
  BY FS_NatBijection
<1>3. n = N
  BY <1>2, FS_CountingElements
<1>4. PICK f : f \in Bijection(1 .. N, S)
  BY <1>2, <1>3 DEF ExistsBijection
<1>5. f \in [1 .. N -> S] /\ IsInjective(f)
  BY <1>4 DEF Bijection, Injection
<1>6. SetToSeq(S) \in [1 .. N -> S] /\ IsInjective(SetToSeq(S))
  BY <1>5, Zenon DEF SetToSeq
<1>7. SetToSeq(S) \in Injection(1 .. N, S)
  BY <1>6 DEF Injection
<1>8. IsFiniteSet(1 .. N) /\ Cardinality(1 .. N) = N
  BY <1>1, FS_Interval
<1>9. SetToSeq(S) \in Surjection(1 .. N, S)
  <2> HIDE DEF N
  <2> QED BY <1>7, <1>8, FS_Injection DEF N
<1> QED BY <1>6, <1>9 DEF Surjection

-----------------------------------------------------------------------------
(* The invariant of a request.                                             *)

\* What a search has read and found, at each of its steps.
AsRead(r) ==
  LET hybrid == r.mode = "hybrid"
  IN  /\ r.step \in {"idle", "authorizing", "embedding"} => r.vector = Unread /\ r.keyword = Unread
      /\ r.step = "fusing" =>
           /\ r.mode # "keyword" => r.vector # Unread
           /\ r.mode # "vector" => r.keyword # Unread
           /\ (r.mode # "keyword" /\ r.vector # Failed) \/ (r.mode # "vector" /\ r.keyword # Failed)
      /\ r.step = "reranking" => settings.reranking
      /\ hybrid /\ r.step = "failed" => Rows(r.vector) = <<>> /\ Rows(r.keyword) = <<>>
      /\ r.step \notin {"reranking", "done"} => r.results = <<>>
      /\ hybrid /\ (r.step = "reranking" \/ (r.step = "done" /\ ~settings.reranking)) =>
           r.results = Fuse(Rows(r.vector), Rows(r.keyword), InitialTopK)

Idle(s) == At(s, "idle")

\* An empty response tells that none of the searches of S has found anything.
ToldOf(S) ==
  request.response = <<>> => \A s \in S : At(s, "done") => searches[s].results = <<>>

\* Which searches run, have ended or never started at each step of the request.
PhaseInv ==
  /\ request.step = "new" => \A s \in Slots : Idle(s)
  /\ request.step = "searching" => \A s \in Slots \ First : Idle(s)
  /\ request.step = "judging" =>
       (\A s \in First : Ended(s)) /\ (\A s \in Slots \ First : Idle(s)) /\ ToldOf(First)
  /\ request.step = "retrying" =>
       /\ \A s \in First : Ended(s)
       /\ \A s \in Slots \ (First \cup {"retry"}) : Idle(s)
       /\ ToldOf(First)
  /\ request.step = "falling back" => \A s \in Slots \ {"fallback"} : Idle(s) \/ At(s, "failed")
  /\ request.step = "answered" => (\A s \in Slots : Idle(s) \/ Ended(s)) /\ ToldOf(Slots)
  /\ request.step = "error" => \A s \in Slots : Idle(s) \/ At(s, "failed")

RequestInv == RequestTypeOK /\ (\A s \in Slots : AsRead(searches[s])) /\ PhaseInv

\* The rows of a branch are a ranking, whatever came of it.
LEMMA RowsTyped == \A b \in Branches \cup {Unread, Failed} : Rows(b) \in Branches
<1>1. <<>> \in [1 .. 0 -> Chunks] /\ 0 \in 0 .. CandidateK
  BY RetrievalAssumption
<1>2. <<>> \in UNION {[1 .. n -> Chunks] : n \in 0 .. CandidateK}
  BY <1>1
<1>3. \A i, j \in DOMAIN <<>> : FALSE
  OBVIOUS
<1>4. <<>> \in Branches
  BY <1>2, <1>3 DEF Branches, RankingsOf
<1> QED BY <1>4 DEF Rows

\* The empty list is a list of results.
LEMMA EmptyResults == <<>> \in Results
BY DEF Results

\* The fused list is cut at a positive length.
LEMMA CutoffType == ASSUME RequestTypeOK PROVE InitialTopK \in Nat \ {0}
BY RetrievalAssumption DEF InitialTopK

\* The invariant holds of a new request.
LEMMA RequestInitInv == RequestInit => RequestInv
<1> SUFFICES ASSUME RequestInit PROVE RequestInv
  OBVIOUS
<1>1. NoSearch \in Search
  BY EmptyResults DEF NoSearch, Search
<1>2. RequestTypeOK
  BY <1>1, EmptyResults DEF RequestInit, RequestTypeOK, RequestSteps
<1>3. \A s \in Slots : searches[s] = NoSearch
  BY DEF RequestInit
<1>4. AsRead(NoSearch)
  BY DEF AsRead, NoSearch
<1>5. PhaseInv
  BY <1>3 DEF RequestInit, PhaseInv, Idle, At, NoSearch
<1> QED BY <1>2, <1>3, <1>4, <1>5 DEF RequestInv

\* What a step of a search does to the state: a search that was running reaches r.
Reaches(s, r) ==
  /\ r \in Search /\ r.step # "idle" /\ AsRead(r)
  /\ searches[s].step \notin {"idle", "done", "failed"}
  /\ searches' = [searches EXCEPT ![s] = r]
  /\ aborted' \subseteq Slots \ {"fallback"}
  /\ UNCHANGED <<settings, request>>

\* Every step of a search is one that Reaches describes: one case per action.
LEMMA SearchReaches ==
  ASSUME RequestTypeOK, NEW s \in Slots, AsRead(searches[s]), SearchStep(s)
  PROVE  \E r : Reaches(s, r)
<1> DEFINE q == searches[s]
<1>1. q \in Search /\ settings \in Settings /\ aborted \subseteq Slots \ {"fallback"}
  BY DEF RequestTypeOK
<1>2. settings \in Setting
  BY <1>1, RetrievalAssumption
<1>3. AsRead(q)
  OBVIOUS
<1>4. Session(s) \in Slots \ {"fallback"}
  BY DEF Session, Slots
<1>a. CASE Authorize(s)
  <2>1. PICK mode \in settings.modes :
          searches' = [searches EXCEPT ![s].mode = mode,
                         ![s].step = IF mode = "keyword" THEN "reading" ELSE "embedding"]
    BY <1>a DEF Authorize
  <2> DEFINE r == [q EXCEPT !.mode = mode, !.step = IF mode = "keyword" THEN "reading" ELSE "embedding"]
  <2>2. searches' = [searches EXCEPT ![s] = r]
    BY <2>1 DEF RequestTypeOK
  <2>3. mode \in {"hybrid", "vector", "keyword"}
    BY <1>2, <2>1 DEF Setting
  <2>4. r \in Search
    BY <1>1, <2>3 DEF Search
  <2>5. q.step = "authorizing"
    BY <1>a DEF Authorize, At
  <2>6. AsRead(r) /\ r.step # "idle"
    BY <1>1, <1>3, <2>3, <2>5 DEF AsRead, Search
  <2> HIDE DEF r
  <2>7. Reaches(s, r)
    BY <1>1, <1>a, <2>2, <2>4, <2>5, <2>6 DEF Authorize, SearchOnly, Reaches
  <2> QED BY <2>7
<1>b. CASE AuthorizationFails(s)
  <2> DEFINE r == [q EXCEPT !.step = "failed"]
  <2>1. searches' = [searches EXCEPT ![s] = r]
    BY <1>b DEF AuthorizationFails, Go, RequestTypeOK
  <2>2. q.step = "authorizing"
    BY <1>b DEF AuthorizationFails, At
  <2>3. r \in Search /\ AsRead(r) /\ r.step # "idle"
    BY <1>1, <1>3, <2>2 DEF AsRead, Search, Rows
  <2>4. aborted' \subseteq Slots \ {"fallback"} /\ UNCHANGED <<settings, request>>
    BY <1>1, <1>4, <1>b DEF AuthorizationFails, SearchOnly
  <2> HIDE DEF r
  <2> QED BY <2>1, <2>2, <2>3, <2>4 DEF Reaches
<1>c. CASE EmbedQuery(s)
  <2> DEFINE r == [q EXCEPT !.step = "reading"]
  <2>1. searches' = [searches EXCEPT ![s] = r]
    BY <1>c DEF EmbedQuery, Go, RequestTypeOK
  <2>2. q.step = "embedding"
    BY <1>c DEF EmbedQuery, At
  <2>3. r \in Search /\ AsRead(r) /\ r.step # "idle"
    BY <1>1, <1>3, <2>2 DEF AsRead, Search, Rows
  <2>4. aborted' \subseteq Slots \ {"fallback"} /\ UNCHANGED <<settings, request>>
    BY <1>1, <1>4, <1>c DEF EmbedQuery, SearchOnly
  <2> HIDE DEF r
  <2> QED BY <2>1, <2>2, <2>3, <2>4 DEF Reaches
<1>d. CASE EmbeddingFails(s)
  <2> DEFINE r == [q EXCEPT !.step = "failed"]
  <2>1. searches' = [searches EXCEPT ![s] = r]
    BY <1>d DEF EmbeddingFails, Go, RequestTypeOK
  <2>2. q.step = "embedding"
    BY <1>d DEF EmbeddingFails, At
  <2>3. r \in Search /\ AsRead(r) /\ r.step # "idle"
    BY <1>1, <1>3, <2>2 DEF AsRead, Search, Rows
  <2>4. aborted' \subseteq Slots \ {"fallback"} /\ UNCHANGED <<settings, request>>
    BY <1>1, <1>4, <1>d DEF EmbeddingFails, SearchOnly
  <2> HIDE DEF r
  <2> QED BY <2>1, <2>2, <2>3, <2>4 DEF Reaches
<1>e. CASE ReadVector(s)
  <2>1. PICK found \in Branches : searches' = [searches EXCEPT ![s].vector = found]
    BY <1>e DEF ReadVector
  <2> DEFINE r == [q EXCEPT !.vector = found]
  <2>2. searches' = [searches EXCEPT ![s] = r]
    BY <2>1 DEF RequestTypeOK
  <2>3. q.step = "reading"
    BY <1>e DEF ReadVector, VectorTurn, At
  <2>4. r \in Search /\ AsRead(r) /\ r.step # "idle"
    BY <1>1, <1>3, <2>3 DEF AsRead, Search
  <2>5. aborted' \subseteq Slots \ {"fallback"} /\ UNCHANGED <<settings, request>>
    BY <1>1, <1>e DEF ReadVector, SearchOnly
  <2> HIDE DEF r
  <2> QED BY <2>2, <2>3, <2>4, <2>5 DEF Reaches
<1>f. CASE ReadKeyword(s)
  <2>1. PICK found \in Branches : searches' = [searches EXCEPT ![s].keyword = found]
    BY <1>f DEF ReadKeyword
  <2> DEFINE r == [q EXCEPT !.keyword = found]
  <2>2. searches' = [searches EXCEPT ![s] = r]
    BY <2>1 DEF RequestTypeOK
  <2>3. q.step = "reading"
    BY <1>f DEF ReadKeyword, KeywordTurn, At
  <2>4. r \in Search /\ AsRead(r) /\ r.step # "idle"
    BY <1>1, <1>3, <2>3 DEF AsRead, Search
  <2>5. aborted' \subseteq Slots \ {"fallback"} /\ UNCHANGED <<settings, request>>
    BY <1>1, <1>f DEF ReadKeyword, SearchOnly
  <2> HIDE DEF r
  <2> QED BY <2>2, <2>3, <2>4, <2>5 DEF Reaches
<1>g. CASE VectorFails(s)
  <2> DEFINE r == [q EXCEPT !.vector = Failed]
  <2>1. searches' = [searches EXCEPT ![s] = r]
    BY <1>g DEF VectorFails, RequestTypeOK
  <2>2. q.step = "reading"
    BY <1>g DEF VectorFails, VectorTurn, At
  <2>3. r \in Search /\ AsRead(r) /\ r.step # "idle"
    BY <1>1, <1>3, <2>2 DEF AsRead, Search
  <2>4. aborted' \subseteq Slots \ {"fallback"} /\ UNCHANGED <<settings, request>>
    BY <1>1, <1>4, <1>g DEF VectorFails, AbortedBy
  <2> HIDE DEF r
  <2> QED BY <2>1, <2>2, <2>3, <2>4 DEF Reaches
<1>h. CASE KeywordFails(s)
  <2> DEFINE r == [q EXCEPT !.keyword = Failed]
  <2>1. searches' = [searches EXCEPT ![s] = r]
    BY <1>h DEF KeywordFails, RequestTypeOK
  <2>2. q.step = "reading"
    BY <1>h DEF KeywordFails, KeywordTurn, At
  <2>3. r \in Search /\ AsRead(r) /\ r.step # "idle"
    BY <1>1, <1>3, <2>2 DEF AsRead, Search
  <2>4. aborted' \subseteq Slots \ {"fallback"} /\ UNCHANGED <<settings, request>>
    BY <1>1, <1>4, <1>h DEF KeywordFails, AbortedBy
  <2> HIDE DEF r
  <2> QED BY <2>1, <2>2, <2>3, <2>4 DEF Reaches
<1>i. CASE Collect(s)
  <2> DEFINE r == [q EXCEPT !.step = IF Lost(s) THEN "failed" ELSE "fusing"]
  <2>1. searches' = [searches EXCEPT ![s] = r]
    BY <1>i DEF Collect, Go, RequestTypeOK
  <2>2. q.step = "reading"
    BY <1>i DEF Collect, At
  <2>3. /\ q.mode # "keyword" => q.vector # Unread
        /\ q.mode # "vector" => q.keyword # Unread
    BY <1>i DEF Collect, UsesVector, UsesKeyword
  <2>4. r \in Search /\ r.step # "idle"
    BY <1>1 DEF Search
  <2>5. ASSUME Lost(s) PROVE AsRead(r)
    <3>1. /\ q.mode # "keyword" => q.vector = Failed
          /\ q.mode # "vector" => q.keyword = Failed
      BY <2>5, Zenon DEF Lost, UsesVector, UsesKeyword
    <3> QED BY <1>1, <1>3, <2>2, <2>5, <3>1 DEF AsRead, Search, Rows
  <2>6. ASSUME ~Lost(s) PROVE AsRead(r)
    <3>1. (q.mode # "keyword" /\ q.vector # Failed) \/ (q.mode # "vector" /\ q.keyword # Failed)
      BY <2>6, Zenon DEF Lost, UsesVector, UsesKeyword
    <3> QED BY <1>1, <1>3, <2>2, <2>3, <2>6, <3>1 DEF AsRead, Search
  <2>7. AsRead(r)
    BY <2>5, <2>6
  <2>8. aborted' \subseteq Slots \ {"fallback"} /\ UNCHANGED <<settings, request>>
    BY <1>1, <1>i DEF Collect, SearchOnly
  <2> HIDE DEF r
  <2> QED BY <2>1, <2>2, <2>4, <2>7, <2>8 DEF Reaches
<1>j. CASE FuseBranches(s)
  <2>1. PICK results \in Fusions(s) :
          searches' = [searches EXCEPT ![s].results = results,
            ![s].step = IF settings.reranking /\ results # <<>> THEN "reranking" ELSE "done"]
    BY <1>j DEF FuseBranches
  <2>2. q.step = "fusing"
    BY <1>j DEF FuseBranches, At
  <2>3. InitialTopK \in Nat
    BY CutoffType
  <2>4. ASSUME Hybrid(s) PROVE results \in Results
    <3>1. results = Fuse(Rows(q.vector), Rows(q.keyword), InitialTopK)
      BY <2>4 DEF Fusions
    <3>2. Rows(q.vector) \in Branches /\ Rows(q.keyword) \in Branches
      BY <1>1, RowsTyped DEF Search
    <3> QED BY <2>3, <3>1, <3>2, FusedRespects
  <2>5. ASSUME ~Hybrid(s) PROVE results \in Results
    <3> DEFINE branch == IF q.mode # "keyword" THEN q.vector ELSE q.keyword
    <3>1. branch \in Branches
      BY <1>1, <1>3, <2>2, <2>5 DEF AsRead, Search, Hybrid, UsesVector, UsesKeyword
    <3>2. results \in Scored(branch, InitialTopK)
      BY <2>5 DEF Fusions, UsesVector
    <3> HIDE DEF branch
    <3> QED BY <2>3, <3>1, <3>2, ScoredTyped
  <2>6. results \in Results
    BY <2>4, <2>5
  <2>7. q.mode = "hybrid" => results = Fuse(Rows(q.vector), Rows(q.keyword), InitialTopK)
    BY DEF Fusions, Hybrid, UsesVector, UsesKeyword
  <2> DEFINE r == [q EXCEPT !.results = results,
                     !.step = IF settings.reranking /\ results # <<>> THEN "reranking" ELSE "done"]
  <2>8. searches' = [searches EXCEPT ![s] = r]
    BY <2>1 DEF RequestTypeOK
  <2>9. r \in Search /\ AsRead(r) /\ r.step # "idle"
    BY <1>1, <1>3, <2>2, <2>6, <2>7 DEF AsRead, Search
  <2>10. aborted' \subseteq Slots \ {"fallback"} /\ UNCHANGED <<settings, request>>
    BY <1>1, <1>j DEF FuseBranches, SearchOnly
  <2> HIDE DEF r
  <2> QED BY <2>2, <2>8, <2>9, <2>10 DEF Reaches
<1>k. CASE Rerank(s)
  <2>1. PICK scores \in [DOMAIN q.results -> {Whole \div 2, Whole}] :
          searches' = [searches EXCEPT ![s].step = "done",
                         ![s].results = Reranked(q.results, scores, TopK)]
    BY <1>k DEF Rerank
  <2> DEFINE kept == Reranked(q.results, scores, TopK)
             r == [q EXCEPT !.step = "done", !.results = kept]
  <2>2. q.step = "reranking"
    BY <1>k DEF Rerank, At
  <2>3. kept \in Results
    <3>1. {Whole \div 2, Whole} \subseteq 0 .. Whole
      BY PartsOfWhole
    <3>2. q.results \in Results /\ TopK \in Nat
      BY <1>1, RetrievalAssumption DEF Search
    <3>3. scores \in [DOMAIN q.results -> 0 .. Whole]
      BY <2>1, <3>1
    <3> QED BY <3>2, <3>3, RerankedTyped
  <2> HIDE DEF kept
  <2>4. searches' = [searches EXCEPT ![s] = r]
    BY <2>1 DEF RequestTypeOK, kept
  <2>5. settings.reranking
    BY <1>3, <2>2 DEF AsRead
  <2>6. r \in Search /\ AsRead(r) /\ r.step # "idle"
    BY <1>1, <1>3, <2>2, <2>3, <2>5 DEF AsRead, Search
  <2>7. aborted' \subseteq Slots \ {"fallback"} /\ UNCHANGED <<settings, request>>
    BY <1>1, <1>k DEF Rerank, SearchOnly
  <2> HIDE DEF r
  <2> QED BY <2>2, <2>4, <2>6, <2>7 DEF Reaches
<1>l. CASE RerankerFallsBack(s)
  <2> DEFINE r == [q EXCEPT !.step = "done", !.kept = TRUE]
  <2>1. searches' = [searches EXCEPT ![s] = r]
    BY <1>l DEF RerankerFallsBack, RequestTypeOK
  <2>2. q.step = "reranking"
    BY <1>l DEF RerankerFallsBack, At
  <2>3. r \in Search /\ AsRead(r) /\ r.step # "idle"
    BY <1>1, <1>3, <2>2 DEF AsRead, Search, Rows
  <2>4. aborted' \subseteq Slots \ {"fallback"} /\ UNCHANGED <<settings, request>>
    BY <1>1, <1>4, <1>l DEF RerankerFallsBack, SearchOnly
  <2> HIDE DEF r
  <2> QED BY <2>1, <2>2, <2>3, <2>4 DEF Reaches
<1> QED
  BY <1>a, <1>b, <1>c, <1>d, <1>e, <1>f, <1>g, <1>h, <1>i, <1>j, <1>k, <1>l DEF SearchStep

\* The first searches are some, and none of them is the retry or the fallback.
LEMMA FirstIs ==
  ASSUME RequestTypeOK
  PROVE  /\ First \subseteq Slots \ {"retry", "fallback"}
         /\ IsFiniteSet(First) /\ Cardinality(First) \in Nat \ {0}
<1>1. First \subseteq Slots \ {"retry", "fallback"} /\ First # {}
  BY RetrievalAssumption DEF First, Slots
<1>2. IsFiniteSet(First)
  BY RetrievalAssumption, FS_Singleton DEF First
<1> QED BY <1>1, <1>2, FS_CardinalityType, FS_EmptySet

\* One search moves on: the others, and the request, stay as they are.
LEMMA ReachesInv ==
  ASSUME RequestInv, NEW s \in Slots, NEW r, Reaches(s, r)
  PROVE  RequestInv'
<1>1. /\ settings' = settings /\ request' = request
      /\ searches \in [Slots -> Search]
      /\ searches' = [searches EXCEPT ![s] = r]
      /\ r \in Search /\ r.step # "idle" /\ AsRead(r)
      /\ searches[s].step \notin {"idle", "done", "failed"}
  BY DEF RequestInv, RequestTypeOK, Reaches
<1>2. searches'[s] = r /\ \A t \in Slots \ {s} : searches'[t] = searches[t]
  BY <1>1
<1>3. RequestTypeOK'
  <2>1. searches' \in [Slots -> Search]
    BY <1>1
  <2> QED BY <1>1, <2>1 DEF RequestInv, RequestTypeOK, Reaches
<1>4. \A t \in Slots : AsRead(searches[t])'
  <2> SUFFICES ASSUME NEW t \in Slots PROVE AsRead(searches[t])'
    OBVIOUS
  <2>1. AsRead(searches'[t])
    BY <1>1, <1>2 DEF RequestInv
  <2> QED BY <1>1, <2>1 DEF AsRead, InitialTopK
<1>5. First' = First /\ First \subseteq Slots \ {"retry", "fallback"}
  BY <1>1, FirstIs DEF First, RequestInv
<1>6. /\ \A t \in Slots \ {s} : (Idle(t)' <=> Idle(t)) /\ (Ended(t)' <=> Ended(t))
                               /\ \A x \in {"done", "failed"} : At(t, x)' <=> At(t, x)
      /\ ~Idle(s) /\ ~Ended(s) /\ ~At(s, "failed")
  BY <1>1, <1>2 DEF Idle, Ended, At
<1>7. PhaseInv /\ request'.step = request.step /\ request'.response = request.response
  BY <1>1 DEF RequestInv
<1>8. request.step \notin {"new", "judging", "answered", "error"}
  BY <1>5, <1>6, <1>7, Zenon DEF PhaseInv
<1>9. request.step = "searching" => s \in First
  BY <1>6, <1>7 DEF PhaseInv
<1>10. request.step = "retrying" => s = "retry"
  BY <1>5, <1>6, <1>7 DEF PhaseInv
<1>11. request.step = "falling back" => s = "fallback"
  BY <1>6, <1>7 DEF PhaseInv
<1>12. request.step = "retrying" => ToldOf(First)'
  <2> SUFFICES ASSUME request.step = "retrying" PROVE ToldOf(First)'
    OBVIOUS
  <2>1. ToldOf(First) /\ s \notin First
    BY <1>5, <1>7, <1>10 DEF PhaseInv
  <2>2. \A t \in First : searches'[t] = searches[t]
    BY <1>2, <1>5, <2>1
  <2> QED BY <1>5, <1>7, <2>1, <2>2 DEF ToldOf, At
<1>13. PhaseInv'
  <2>1. request'.step = "searching" => \A t \in Slots \ First' : Idle(t)'
    BY <1>5, <1>6, <1>7, <1>9 DEF PhaseInv
  <2>2. request'.step = "retrying" =>
          /\ \A t \in First' : Ended(t)'
          /\ \A t \in Slots \ (First' \cup {"retry"}) : Idle(t)'
    BY <1>5, <1>6, <1>7, <1>10 DEF PhaseInv
  <2>3. request'.step = "falling back" => \A t \in Slots \ {"fallback"} : Idle(t)' \/ At(t, "failed")'
    BY <1>6, <1>7, <1>11 DEF PhaseInv
  <2> QED BY <1>7, <1>8, <1>12, <2>1, <2>2, <2>3 DEF PhaseInv
<1> QED BY <1>3, <1>4, <1>13 DEF RequestInv

\* Searches that are idle start.
LEMMA StartedInv ==
  ASSUME RequestInv, NEW S, S \subseteq Slots, \A s \in S : Idle(s),
         searches' = Started(S), settings' = settings
  PROVE  /\ searches' \in [Slots -> Search]
         /\ \A s \in Slots : AsRead(searches[s])'
         /\ \A s \in Slots \ S : searches'[s] = searches[s]
<1>1. searches \in [Slots -> Search] /\ \A s \in Slots : AsRead(searches[s])
  BY DEF RequestInv, RequestTypeOK
<1>2. \A s \in Slots :
        searches'[s] = IF s \in S THEN [searches[s] EXCEPT !.step = "authorizing"] ELSE searches[s]
  BY DEF Started
<1>3. \A s \in S : [searches[s] EXCEPT !.step = "authorizing"] \in Search
  BY <1>1 DEF Search
<1>4. searches' \in [Slots -> Search]
  BY <1>1, <1>3 DEF Started
<1>5. ASSUME NEW s \in Slots PROVE AsRead(searches[s])'
  <2>1. CASE s \in S
    <3> DEFINE q == searches[s]
               r == [q EXCEPT !.step = "authorizing"]
    <3>1. q \in Search /\ q.step = "idle" /\ AsRead(q)
      BY <1>1, <2>1 DEF Idle, At
    <3>2. AsRead(r)
      BY <3>1 DEF AsRead, Search
    <3>3. searches'[s] = r
      BY <1>2, <2>1
    <3> HIDE DEF r, q
    <3>4. AsRead(searches'[s])
      BY <3>2, <3>3
    <3> QED BY <3>4 DEF AsRead, InitialTopK
  <2>2. CASE s \notin S
    <3>1. AsRead(searches'[s])
      BY <1>1, <1>2, <2>2
    <3> QED BY <3>1 DEF AsRead, InitialTopK
  <2> QED BY <2>1, <2>2
<1> QED BY <1>2, <1>4, <1>5

\* The searches stay as they are.
LEMMA SameSearches ==
  ASSUME RequestInv, UNCHANGED <<settings, searches, aborted>>,
         request' \in [step : RequestSteps, response : Results], PhaseInv'
  PROVE  RequestInv'
<1>1. RequestTypeOK'
  BY DEF RequestInv, RequestTypeOK
<1>2. \A s \in Slots : AsRead(searches[s])'
  BY DEF RequestInv, AsRead, InitialTopK
<1> QED BY <1>1, <1>2 DEF RequestInv

\* All that was gathered is empty only if no search found anything.
LEMMA GatheredIs ==
  ASSUME RequestInv
  PROVE  /\ Gathered \in [1 .. Cardinality(First) -> Results]
         /\ (\A n \in 1 .. Cardinality(First) : Gathered[n] = <<>>) =>
              \A s \in First : At(s, "done") => searches[s].results = <<>>
<1> DEFINE N == Cardinality(First)
<1>1. /\ IsFiniteSet(First) /\ First \subseteq Slots
      /\ \A s \in Slots : searches[s] \in Search
  BY FirstIs DEF RequestInv, RequestTypeOK
<1>2. Order \in [1 .. N -> First] /\ \A s \in First : \E n \in 1 .. N : Order[n] = s
  BY <1>1, SetAsList DEF Order
<1> HIDE DEF N
<1>3. \A s \in Slots : searches[s].results \in Results
  BY <1>1 DEF Search
<1>4. Gathered = [n \in 1 .. N |-> IF At(Order[n], "done") THEN searches[Order[n]].results ELSE <<>>]
  <2>1. DOMAIN Order = 1 .. N
    BY <1>2
  <2> QED BY <2>1, Zenon DEF Gathered
<1>5. Gathered \in [1 .. N -> Results]
  BY <1>1, <1>2, <1>3, <1>4, EmptyResults
<1>6. (\A n \in 1 .. N : Gathered[n] = <<>>) =>
        \A s \in First : At(s, "done") => searches[s].results = <<>>
  <2> SUFFICES ASSUME \A n \in 1 .. N : Gathered[n] = <<>>, NEW s \in First, At(s, "done")
               PROVE  searches[s].results = <<>>
    OBVIOUS
  <2>1. PICK n \in 1 .. N : Order[n] = s
    BY <1>2
  <2>2. Gathered[n] = searches[s].results
    BY <1>4, <2>1
  <2> QED BY <2>1, <2>2
<1> QED BY <1>5, <1>6 DEF N

\* A request that starts searches keeps the invariant, if its phase is right.
LEMMA StartKeepsInv ==
  ASSUME RequestInv, NEW S, S \subseteq Slots, \A s \in S : Idle(s), searches' = Started(S),
         UNCHANGED <<settings, aborted>>, NEW x \in RequestSteps, request' = [request EXCEPT !.step = x],
         PhaseInv'
  PROVE  RequestInv'
<1>1. searches' \in [Slots -> Search] /\ \A s \in Slots : AsRead(searches[s])'
  BY StartedInv
<1>2. RequestTypeOK'
  BY <1>1 DEF RequestInv, RequestTypeOK
<1> QED BY <1>1, <1>2 DEF RequestInv

\* Every step of the request keeps the invariant: one case per action.
LEMMA RequestStepInv ==
  ASSUME RequestInv, RequestStep
  PROVE  RequestInv'
<1>1. /\ RequestTypeOK /\ PhaseInv
      /\ request \in [step : RequestSteps, response : Results]
      /\ \A s \in Slots : searches[s] \in Search /\ AsRead(searches[s])
      /\ First \subseteq Slots \ {"retry", "fallback"} /\ First # {}
  <2>1. First # {}
    BY FirstIs, FS_EmptySet DEF RequestInv
  <2> QED BY <2>1, FirstIs DEF RequestInv, RequestTypeOK
<1>2. {"own", "retry", "fallback"} \subseteq Slots
  BY DEF Slots
<1>3. settings' = settings => First' = First
  BY DEF First
<1>a. CASE StartSearches
  <2>1. /\ request.step = "new" /\ request' = [request EXCEPT !.step = "searching"]
        /\ searches' = Started(First) /\ UNCHANGED <<settings, aborted>>
    BY <1>a DEF StartSearches
  <2>2. \A s \in Slots : Idle(s)
    BY <1>1, <2>1 DEF PhaseInv
  <2>3. \A s \in Slots \ First : searches'[s] = searches[s]
    BY <1>1, <2>1, <2>2, StartedInv
  <2>4. PhaseInv'
    <3>1. request'.step = "searching"
      BY <1>1, <2>1
    <3>2. \A s \in Slots \ First' : Idle(s)'
      BY <1>3, <2>1, <2>2, <2>3 DEF Idle, At
    <3> QED BY <3>1, <3>2 DEF PhaseInv
  <2>5. "searching" \in RequestSteps
    BY DEF RequestSteps
  <2> QED BY <1>1, <2>1, <2>2, <2>4, <2>5, StartKeepsInv
<1>b. CASE BudgetExceeded
  <2>1. /\ request.step = "new" /\ request' = [request EXCEPT !.step = "falling back"]
        /\ searches' = Started({"fallback"}) /\ UNCHANGED <<settings, aborted>>
    BY <1>b DEF BudgetExceeded, FallBack
  <2>2. \A s \in Slots : Idle(s)
    BY <1>1, <2>1 DEF PhaseInv
  <2>3. \A s \in Slots \ {"fallback"} : searches'[s] = searches[s]
    BY <1>2, <2>1, <2>2, StartedInv
  <2>4. PhaseInv'
    <3>1. request'.step = "falling back"
      BY <1>1, <2>1
    <3>2. \A s \in Slots \ {"fallback"} : Idle(s)'
      BY <2>2, <2>3 DEF Idle, At
    <3> QED BY <3>1, <3>2 DEF PhaseInv
  <2>5. "falling back" \in RequestSteps
    BY DEF RequestSteps
  <2> DEFINE S == {"fallback"}
  <2>6. S \subseteq Slots /\ (\A s \in S : Idle(s)) /\ searches' = Started(S)
    BY <1>2, <2>1, <2>2
  <2> HIDE DEF S
  <2> QED BY <2>1, <2>4, <2>5, <2>6, StartKeepsInv
<1>c. CASE TakeAnswer
  <2> DEFINE response == IF settings.strategy = "MULTI_QUERY" THEN Merge(Gathered, TopK)
                         ELSE searches["own"].results
             step == IF Adaptive THEN "judging" ELSE "answered"
  <2>1. /\ request.step = "searching" /\ \A s \in First : Ended(s)
        /\ \E s \in First : At(s, "done")
        /\ request' = [step |-> step, response |-> response]
        /\ UNCHANGED <<settings, searches, aborted>>
    BY <1>c DEF TakeAnswer
  <2>2. response \in Results /\
          (response = <<>> => \A s \in First : At(s, "done") => searches[s].results = <<>>)
    <3>1. CASE settings.strategy = "MULTI_QUERY"
      <4>1. Cardinality(First) \in Nat \ {0} /\ TopK \in Nat \ {0}
        BY FirstIs, RetrievalAssumption DEF RequestInv
      <4>2. /\ Merge(Gathered, TopK) \in Results
            /\ Merge(Gathered, TopK) = <<>> => \A n \in 1 .. Cardinality(First) : Gathered[n] = <<>>
        BY <4>1, GatheredIs, MergedIsOf
      <4> QED BY <3>1, <4>2, GatheredIs
    <3>2. CASE settings.strategy # "MULTI_QUERY"
      <4>1. First = {"own"}
        BY <3>2 DEF First
      <4>2. searches["own"].results \in Results
        BY <1>1, <1>2 DEF Search
      <4> QED BY <3>2, <4>1, <4>2
    <3> QED BY <3>1, <3>2
  <2>3. step \in {"judging", "answered"} /\ step \in RequestSteps
    BY DEF RequestSteps
  <2> HIDE DEF response, step
  <2>4. \A s \in Slots \ First : Idle(s)
    BY <1>1, <2>1 DEF PhaseInv
  <2>5. request'.step = step /\ request'.response = response
    BY <2>1
  <2>6. /\ \A s \in First : Ended(s)'
        /\ \A s \in Slots \ First : Idle(s)'
        /\ ToldOf(First)' /\ ToldOf(Slots)'
    <3>1. /\ \A s \in First : Ended(s)'
          /\ \A s \in Slots \ First : Idle(s)'
      BY <2>1, <2>4 DEF Ended, Idle, At
    <3>2. ToldOf(First)' /\ ToldOf(Slots)'
      BY <1>3, <2>1, <2>2, <2>4, <2>5 DEF ToldOf, At, Idle
    <3> QED BY <3>1, <3>2
  <2>7. PhaseInv'
    <3>1. \A s \in Slots : Idle(s)' \/ Ended(s)'
      BY <2>6
    <3> QED BY <1>3, <2>1, <2>3, <2>5, <2>6, <3>1, Zenon DEF PhaseInv
  <2> QED BY <2>1, <2>2, <2>3, <2>7, SameSearches
<1>d. CASE SearchesFailed
  <2>1. /\ request.step = "searching" /\ \A s \in First : At(s, "failed")
        /\ UNCHANGED <<settings, aborted>>
    BY <1>d DEF SearchesFailed
  <2>2. \A s \in Slots \ First : Idle(s)
    BY <1>1, <2>1 DEF PhaseInv
  <2>3. CASE Adaptive
    <3>1. request' = [request EXCEPT !.step = "falling back"] /\ searches' = Started({"fallback"})
      BY <1>d, <2>3 DEF SearchesFailed, FallBack
    <3>2. Idle("fallback") /\ {"fallback"} \subseteq Slots
      BY <1>1, <1>2, <2>2
    <3>3. \A s \in Slots \ {"fallback"} : searches'[s] = searches[s]
      BY <2>1, <3>1, <3>2, StartedInv
    <3>4. PhaseInv'
      <4>1. request'.step = "falling back"
        BY <1>1, <3>1
      <4>2. \A s \in Slots \ {"fallback"} : Idle(s)' \/ At(s, "failed")'
        BY <2>1, <2>2, <3>3 DEF Idle, At
      <4> QED BY <4>1, <4>2 DEF PhaseInv
    <3>5. "falling back" \in RequestSteps
      BY DEF RequestSteps
    <3> DEFINE S == {"fallback"}
    <3>6. S \subseteq Slots /\ (\A s \in S : Idle(s)) /\ searches' = Started(S)
      BY <3>1, <3>2
    <3> HIDE DEF S
    <3> QED BY <2>1, <3>1, <3>4, <3>5, <3>6, StartKeepsInv
  <2>4. CASE ~Adaptive
    <3>1. request' = [request EXCEPT !.step = "error"] /\ UNCHANGED searches
      BY <1>d, <2>4 DEF SearchesFailed
    <3>2. request' \in [step : RequestSteps, response : Results] /\ request'.step = "error"
      BY <1>1, <3>1 DEF RequestSteps
    <3>3. \A s \in Slots : Idle(s)' \/ At(s, "failed")'
      BY <2>1, <2>2, <3>1 DEF Idle, At
    <3>4. PhaseInv'
      BY <3>2, <3>3 DEF PhaseInv
    <3> QED BY <2>1, <3>1, <3>2, <3>4, SameSearches
  <2> QED BY <2>3, <2>4
<1>e. CASE StartRetry
  <2>1. /\ request.step = "judging" /\ request' = [request EXCEPT !.step = "retrying"]
        /\ searches' = Started({"retry"}) /\ UNCHANGED <<settings, aborted>>
    BY <1>e DEF StartRetry
  <2>2. /\ \A s \in First : Ended(s)
        /\ \A s \in Slots \ First : Idle(s)
        /\ ToldOf(First)
    BY <1>1, <2>1 DEF PhaseInv
  <2>3. Idle("retry") /\ {"retry"} \subseteq Slots
    BY <1>1, <1>2, <2>2
  <2>4. \A s \in Slots \ {"retry"} : searches'[s] = searches[s]
    BY <2>1, <2>3, StartedInv
  <2>5. request'.step = "retrying" /\ request'.response = request.response
    BY <1>1, <2>1
  <2>6. First' = First /\ \A s \in First : searches'[s] = searches[s]
    BY <1>1, <1>3, <2>1, <2>4
  <2>7. /\ \A s \in First' : Ended(s)'
        /\ \A s \in Slots \ (First' \cup {"retry"}) : Idle(s)'
    BY <2>2, <2>4, <2>6 DEF Ended, Idle, At
  <2>8. ToldOf(First)'
    BY <2>2, <2>5, <2>6 DEF ToldOf, At
  <2>9. PhaseInv'
    BY <2>5, <2>7, <2>8 DEF PhaseInv
  <2>10. "retrying" \in RequestSteps
    BY DEF RequestSteps
  <2> DEFINE S == {"retry"}
  <2>11. S \subseteq Slots /\ (\A s \in S : Idle(s)) /\ searches' = Started(S)
    BY <2>1, <2>3
  <2> HIDE DEF S
  <2> QED BY <2>1, <2>9, <2>10, <2>11, StartKeepsInv
<1>f. CASE KeepAnswer
  <2>1. /\ request.step = "judging" /\ request' = [request EXCEPT !.step = "answered"]
        /\ UNCHANGED <<settings, searches, aborted>>
    BY <1>f DEF KeepAnswer
  <2>2. /\ \A s \in First : Ended(s)
        /\ \A s \in Slots \ First : Idle(s)
        /\ ToldOf(First)
    BY <1>1, <2>1 DEF PhaseInv
  <2>3. /\ request' \in [step : RequestSteps, response : Results]
        /\ request'.step = "answered" /\ request'.response = request.response
    BY <1>1, <2>1 DEF RequestSteps
  <2>4. \A s \in Slots : Idle(s)' \/ Ended(s)'
    BY <2>1, <2>2 DEF Idle, Ended, At
  <2>5. ToldOf(Slots)'
    BY <2>1, <2>2, <2>3 DEF ToldOf, Idle, At
  <2>6. PhaseInv'
    BY <2>3, <2>4, <2>5 DEF PhaseInv
  <2> QED BY <2>1, <2>3, <2>6, SameSearches
<1>g. CASE FinishRetry
  <2> DEFINE retried == searches["retry"].results
             taken == At("retry", "done") /\ Better(retried)
             response == IF taken THEN retried ELSE request.response
  <2>1. /\ request.step = "retrying" /\ Ended("retry")
        /\ request' = [step |-> "answered", response |-> response]
        /\ UNCHANGED <<settings, searches, aborted>>
    BY <1>g DEF FinishRetry
  <2>2. /\ \A s \in First : Ended(s)
        /\ \A s \in Slots \ (First \cup {"retry"}) : Idle(s)
        /\ ToldOf(First)
    BY <1>1, <2>1 DEF PhaseInv
  <2>3. retried \in Results
    BY <1>1, <1>2 DEF Search
  <2>4. response = <<>> => request.response = <<>> /\ (At("retry", "done") => retried = <<>>)
    BY Zenon DEF Better
  <2>5. response \in Results
    BY <1>1, <2>3
  <2> HIDE DEF response, taken
  <2>6. /\ request' \in [step : RequestSteps, response : Results]
        /\ request'.step = "answered" /\ request'.response = response
    BY <2>1, <2>5 DEF RequestSteps
  <2>7. \A s \in Slots : Idle(s)' \/ Ended(s)'
    BY <2>1, <2>2 DEF Idle, Ended, At
  <2>8. ToldOf(Slots)'
    <3> SUFFICES ASSUME response = <<>>, NEW s \in Slots, At(s, "done") PROVE searches[s].results = <<>>
      BY <2>1, <2>6 DEF ToldOf, At
    <3>1. s \in First \/ s = "retry"
      BY <2>2 DEF Idle, At
    <3> QED BY <2>2, <2>4, <3>1 DEF ToldOf
  <2>9. PhaseInv'
    BY <2>6, <2>7, <2>8 DEF PhaseInv
  <2> QED BY <2>1, <2>6, <2>9, SameSearches
<1>h. CASE FinishFallback
  <2> DEFINE found == searches["fallback"].results
  <2>1. /\ request.step = "falling back" /\ Ended("fallback")
        /\ request' = [step |-> "answered", response |-> found]
        /\ UNCHANGED <<settings, searches, aborted>>
    BY <1>h DEF FinishFallback
  <2>2. \A s \in Slots \ {"fallback"} : Idle(s) \/ At(s, "failed")
    BY <1>1, <2>1 DEF PhaseInv
  <2>3. found \in Results
    BY <1>1, <1>2 DEF Search
  <2>4. /\ request' \in [step : RequestSteps, response : Results]
        /\ request'.step = "answered" /\ request'.response = found
    BY <2>1, <2>3 DEF RequestSteps
  <2>5. \A s \in Slots : Idle(s)' \/ Ended(s)'
    BY <2>1, <2>2 DEF Idle, Ended, At
  <2>6. ToldOf(Slots)'
    <3> SUFFICES ASSUME found = <<>>, NEW s \in Slots, At(s, "done") PROVE searches[s].results = <<>>
      BY <2>1, <2>4 DEF ToldOf, At
    <3>1. s = "fallback"
      BY <2>2 DEF Idle, At
    <3> QED BY <3>1
  <2>7. PhaseInv'
    BY <2>4, <2>5, <2>6 DEF PhaseInv
  <2> QED BY <2>1, <2>4, <2>7, SameSearches
<1> QED
  BY <1>a, <1>b, <1>c, <1>d, <1>e, <1>f, <1>g, <1>h DEF RequestStep

\* The invariant holds in every reachable state.
LEMMA RequestSound == RequestSpec => []RequestInv
<1>1. RequestInv /\ [RequestNext]_requestVars => RequestInv'
  <2> SUFFICES ASSUME RequestInv, [RequestNext]_requestVars PROVE RequestInv'
    OBVIOUS
  <2>1. CASE RequestStep
    BY <2>1, RequestStepInv
  <2>2. ASSUME NEW s \in Slots, SearchStep(s) PROVE RequestInv'
    <3>1. PICK r : Reaches(s, r)
      BY <2>2, SearchReaches DEF RequestInv
    <3> QED BY <2>2, <3>1, ReachesInv, SMTT(30)
  <2>3. CASE UNCHANGED requestVars
    <3>1. request \in [step : RequestSteps, response : Results] /\ PhaseInv
      BY DEF RequestInv, RequestTypeOK
    <3>2. UNCHANGED <<settings, searches, aborted, request>>
      BY <2>3 DEF requestVars
    <3>3. PhaseInv'
      <4>1. First' = First /\ request'.step = request.step
        BY <3>2 DEF First
      <4>2. /\ \A s \in Slots : (Idle(s)' <=> Idle(s)) /\ (Ended(s)' <=> Ended(s))
                                /\ (At(s, "failed")' <=> At(s, "failed"))
            /\ ToldOf(First)' <=> ToldOf(First)
            /\ ToldOf(Slots)' <=> ToldOf(Slots)
        BY <3>2, <4>1, ZenonT(30) DEF Idle, Ended, At, ToldOf
      <4>3. First \subseteq Slots
        BY FirstIs DEF RequestInv
      <4> QED BY <3>1, <4>1, <4>2, <4>3 DEF PhaseInv
    <3> QED BY <3>1, <3>2, <3>3, SameSearches
  <2> QED BY <2>1, <2>2, <2>3 DEF RequestNext
<1> QED
  BY RequestInitInv, <1>1, PTL DEF RequestSpec

\* FusionRespectsBranches holds of any number of chunks and whatever the
\* cutoffs are, while a branch returns at most 500 chunks.
THEOREM FusionIsFair == RequestSpec => []FusionRespectsBranches
<1>1. RequestInv => FusionRespectsBranches
  <2> SUFFICES ASSUME RequestInv, NEW s \in Slots, Hybrid(s),
                      At(s, "reranking") \/ (At(s, "done") /\ ~settings.reranking)
               PROVE  Respects(searches[s].results, Rows(searches[s].vector), Rows(searches[s].keyword))
    BY DEF FusionRespectsBranches
  <2>1. searches[s] \in Search /\ AsRead(searches[s]) /\ RequestTypeOK
    BY DEF RequestInv, RequestTypeOK
  <2>2. searches[s].mode = "hybrid"
    BY <2>1 DEF Hybrid, UsesVector, UsesKeyword, Search
  <2>3. searches[s].results = Fuse(Rows(searches[s].vector), Rows(searches[s].keyword), InitialTopK)
    BY <2>1, <2>2 DEF AsRead, At
  <2>4. Rows(searches[s].vector) \in Branches /\ Rows(searches[s].keyword) \in Branches
    BY <2>1, RowsTyped DEF Search
  <2>5. InitialTopK \in Nat
    BY <2>1, CutoffType
  <2> QED BY <2>3, <2>4, <2>5, FusedRespects
<1> QED
  BY RequestSound, <1>1, PTL

\* NothingFoundIsLost holds for any number of sub-queries and every setting.
THEOREM NoResultIsLost == RequestSpec => []NothingFoundIsLost
<1>1. RequestInv => NothingFoundIsLost
  <2> SUFFICES ASSUME RequestInv, request.step = "answered", request.response = <<>>, NEW s \in Slots
               PROVE  /\ At(s, "done") => searches[s].results = <<>>
                      /\ Hybrid(s) /\ At(s, "failed") =>
                           Rows(searches[s].vector) = <<>> /\ Rows(searches[s].keyword) = <<>>
    BY DEF NothingFoundIsLost
  <2>1. searches[s] \in Search /\ AsRead(searches[s]) /\ PhaseInv
    BY DEF RequestInv, RequestTypeOK
  <2>2. At(s, "done") => searches[s].results = <<>>
    BY <2>1 DEF PhaseInv, ToldOf
  <2>3. Hybrid(s) => searches[s].mode = "hybrid"
    BY <2>1 DEF Hybrid, UsesVector, UsesKeyword, Search
  <2> QED BY <2>1, <2>2, <2>3 DEF AsRead, At
<1> QED
  BY RequestSound, <1>1, PTL
=============================================================================
