--------------------------- MODULE DocumentPipeline ---------------------------
(***************************************************************************)
(* Documents of a knowledge base: upload, ingestion into chunks, embedding *)
(* of the chunks, archiving and deletion.  Every operation is one request; *)
(* it loads the document, works on that copy and commits several times.    *)
(* A commit writes the columns that differ from the copy, and nothing      *)
(* keeps two requests from working on one document.                        *)
(***************************************************************************)
EXTENDS Naturals, Sequences, FiniteSets

CONSTANTS
  Documents,     \* document rows the table has room for
  Contents,      \* what an uploaded file may contain
  Clients,       \* requests the server handles at the same time
  Parts,         \* chunks a document is cut into, 1..n
  MaxIngestions, \* bound: times the chunks of a document are replaced
  SetByHand,     \* statuses that callers of PATCH ask for
  None           \* null

Statuses          == {"UPLOADED", "PROCESSING", "READY", "FAILED", "ARCHIVED"}
EmbeddingStatuses == {"none", "PROCESSING", "COMPLETED", "FAILED"}
JobStatuses       == {"PROCESSING", "COMPLETED", "FAILED"}

ASSUME PartsAssumption == Parts \subseteq Nat \ {0} /\ Parts # {}
ASSUME IngestionsAssumption == MaxIngestions \in Nat \ {0}
ASSUME SetByHandAssumption == SetByHand \subseteq Statuses
ASSUME ClientsAssumption == IsFiniteSet(Clients)

VARIABLES
  kb,         \* whether the knowledge base exists
  documents,  \* documents, with the jobs and the chunks of their version
  files,      \* documents whose file is in the storage
  sessions,   \* what each request has loaded and where it is
  abandoned,  \* history: documents some request left without recording an outcome
  stray       \* history: documents whose row or file is gone without the other

vars == <<kb, documents, files, sessions, abandoned, stray>>

Generation == 0..MaxIngestions

\* The chunks are those of one ingestion: "chunks" numbers it, 0 for none.
\* "vectors" tells the ingestion whose text a chunk's vector was made from.
\* "covered" is the ingestion whose chunks the last completed embedding job had.
Row ==
  [content : Contents, status : Statuses, embedding : EmbeddingStatuses, deleted : BOOLEAN,
   ingestions : Seq(JobStatuses), embeddings : Seq(JobStatuses),
   chunks : Generation, vectors : [Parts -> Generation], covered : Generation]

Upload  == [op : {"upload"}, step : {"checked", "stored", "inserted"}, content : Contents,
            document : Documents \cup {None}]
Working == [op : {"ingest", "embed", "patch", "delete"},
            step : {"loaded", "found", "committed", "working", "replacing"},
            document : Documents, status : Statuses, embedding : EmbeddingStatuses,
            job : Nat, jobStatus : JobStatuses, chunks : Generation, todo : SUBSET Parts]

ASSUME NoneAssumption == None \notin Documents \cup Row \cup Upload \cup Working

TypeOK ==
  /\ kb \in BOOLEAN
  /\ documents \in [Documents -> Row \cup {None}]
  /\ files \subseteq Documents
  /\ sessions \in [Clients -> Upload \cup Working \cup {None}]
  /\ abandoned \subseteq Documents
  /\ stray \subseteq Documents

Init ==
  /\ kb = TRUE
  /\ documents = [d \in Documents |-> None]
  /\ files = {}
  /\ sessions = [c \in Clients |-> None]
  /\ abandoned = {}
  /\ stray = {}

-----------------------------------------------------------------------------
(* Rows, copies and commits. *)

Exists(d) == documents[d] # None
Live(d)   == Exists(d) /\ ~documents[d].deleted

\* Only a column that the request changed relative to its copy is in the UPDATE.
Written(copy, value, stored) == IF copy = value THEN stored ELSE value

Step(c, op, step) == sessions[c] # None /\ sessions[c].op = op /\ sessions[c].step = step

End(c)           == sessions' = [sessions EXCEPT ![c] = None]
Advance(c, step) == sessions' = [sessions EXCEPT ![c].step = step]
Save(d, row)     == documents' = [documents EXCEPT ![d] = row]

\* The jobs of a kind, for the request's document.
Jobs(op)     == IF op = "ingest" THEN "ingestions" ELSE "embeddings"
JobsOf(d, op) == documents[d][Jobs(op)]

\* The request ends without having recorded anything: the session was closed,
\* or the commit failed and the failure handler, which does not roll back,
\* failed on the same session.
Abandon(c) ==
  /\ abandoned' = abandoned \cup {sessions[c].document}
  /\ End(c)
  /\ UNCHANGED <<kb, documents, files, stray>>

-----------------------------------------------------------------------------
(* Upload. *)

FreshRow(x) ==
  [content |-> x, status |-> "UPLOADED", embedding |-> "none", deleted |-> FALSE,
   ingestions |-> <<>>, embeddings |-> <<>>,
   chunks |-> 0, vectors |-> [p \in Parts |-> 0], covered |-> 0]

Duplicates(x) == {d \in Documents : Live(d) /\ documents[d].content = x}

Unused(d) ==
  /\ ~Exists(d) /\ d \notin files \cup abandoned \cup stray
  /\ \A c \in Clients : sessions[c] # None => sessions[c].document # d

\* One duplicate is a conflict, several an error of the look-up.
CheckUpload(c, x) ==
  /\ sessions[c] = None /\ kb
  /\ Duplicates(x) = {}
  /\ sessions' = [sessions EXCEPT ![c] =
       [op |-> "upload", step |-> "checked", content |-> x, document |-> None]]
  /\ UNCHANGED <<kb, documents, files, abandoned, stray>>

StoreFile(c) ==
  /\ Step(c, "upload", "checked")
  /\ \E d \in Documents :
       /\ Unused(d)
       /\ files' = files \cup {d}
       /\ sessions' = [sessions EXCEPT ![c].step = "stored", ![c].document = d]
  /\ UNCHANGED <<kb, documents, abandoned, stray>>

InsertDocument(c) ==
  /\ Step(c, "upload", "stored") /\ kb
  /\ Save(sessions[c].document, FreshRow(sessions[c].content))
  /\ Advance(c, "inserted")
  /\ UNCHANGED <<kb, files, abandoned, stray>>

FinishUpload(c) ==
  /\ Step(c, "upload", "inserted")
  /\ End(c)
  /\ UNCHANGED <<kb, documents, files, abandoned, stray>>

\* Mutant: the file of a failed insert is left in the storage.
FailUploadKeepsFile(c) ==
  /\ \E step \in {"stored", "inserted"} : Step(c, "upload", step)
  /\ End(c)
  /\ UNCHANGED <<kb, documents, files, abandoned, stray>>

\* The commit fails, or the row cannot be read again after it: both delete the file.
FailUpload(c) ==
  LET d == sessions[c].document IN
  /\ \E step \in {"stored", "inserted"} : Step(c, "upload", step)
  /\ files' = files \ {d}
  /\ stray' = IF Exists(d) THEN stray \cup {d} ELSE stray
  /\ End(c)
  /\ UNCHANGED <<kb, documents, abandoned>>

-----------------------------------------------------------------------------
(* What ingestion and embedding have in common. *)

Ingesting(d) == {c \in Clients : sessions[c] # None /\ sessions[c].op = "ingest"
                                 /\ sessions[c].document = d}

\* get_document_or_404; an embedding also asks that the copy is READY.
LoadDocument(c, op, d) ==
  LET row == documents[d] IN
  /\ sessions[c] = None
  /\ Live(d)
  /\ op = "ingest" => row.chunks + Cardinality(Ingesting(d)) < MaxIngestions
  /\ op = "embed" => row.status = "READY"
  /\ sessions' = [sessions EXCEPT ![c] =
       [op |-> op, step |-> "loaded", document |-> d,
        status |-> row.status, embedding |-> row.embedding,
        job |-> 0, jobStatus |-> "PROCESSING", chunks |-> 0, todo |-> {}]]
  /\ UNCHANGED <<kb, documents, files, abandoned, stray>>

\* The retry of an embedding job finds the document through the job, deleted or
\* not, and keeps the job it has loaded.
RetryEmbedding(c, d) ==
  LET row == documents[d] IN
  /\ sessions[c] = None
  /\ Exists(d) /\ row.embeddings # <<>> /\ row.status = "READY"
  /\ sessions' = [sessions EXCEPT ![c] =
       [op |-> "embed", step |-> "loaded", document |-> d,
        status |-> row.status, embedding |-> row.embedding,
        job |-> 1, jobStatus |-> row.embeddings[1], chunks |-> 0, todo |-> {}]]
  /\ UNCHANGED <<kb, documents, files, abandoned, stray>>

\* Version, chunks and job are looked up.  A version with two jobs, an embedding
\* without chunks and a document that is gone are errors that change nothing.
CanStart(op, d) ==
  /\ Exists(d)
  /\ Len(JobsOf(d, op)) <= 1
  /\ op = "embed" => documents[d].chunks # 0

FindJob(c) ==
  LET d == sessions[c].document
      op == sessions[c].op
      row == documents[d] IN
  /\ \E o \in {"ingest", "embed"} : Step(c, o, "loaded")
  /\ IF CanStart(op, d)
     THEN sessions' = [sessions EXCEPT
            ![c].step = "found",
            ![c].job = Len(JobsOf(d, op)),
            ![c].jobStatus = IF sessions[c].job # 0 THEN @
                             ELSE IF JobsOf(d, op) = <<>> THEN "PROCESSING" ELSE JobsOf(d, op)[1],
            ![c].chunks = row.chunks,
            ![c].todo = {p \in Parts : row.vectors[p] # row.chunks}]
     ELSE End(c)
  /\ UNCHANGED <<kb, documents, files, abandoned, stray>>

\* The first commit: the job runs, the document is being processed.
JobsStarted(c, op, d) ==
  IF sessions[c].job = 0
  THEN Append(JobsOf(d, op), "PROCESSING")
  ELSE [JobsOf(d, op) EXCEPT ![sessions[c].job] = Written(sessions[c].jobStatus, "PROCESSING", @)]

RowStarted(c, op, d) ==
  LET row == documents[d] IN
  IF op = "ingest"
  THEN [row EXCEPT !.status = Written(sessions[c].status, "PROCESSING", @),
                   !.ingestions = JobsStarted(c, op, d)]
  ELSE [row EXCEPT !.embedding = Written(sessions[c].embedding, "PROCESSING", @),
                   !.embeddings = JobsStarted(c, op, d)]

StartJob(c) ==
  LET d == sessions[c].document
      op == sessions[c].op IN
  /\ \E o \in {"ingest", "embed"} : Step(c, o, "found")
  /\ IF Exists(d)
     THEN /\ Save(d, RowStarted(c, op, d))
          /\ sessions' = [sessions EXCEPT
               ![c].step = "committed",
               ![c].job = IF @ = 0 THEN Len(JobsOf(d, op)) + 1 ELSE @]
     ELSE End(c) /\ UNCHANGED documents
  /\ UNCHANGED <<kb, files, abandoned, stray>>

\* session.refresh of job and document: the copies are read again.
Refresh(c) ==
  LET d == sessions[c].document
      op == sessions[c].op IN
  /\ \E o \in {"ingest", "embed"} : Step(c, o, "committed")
  /\ IF Exists(d)
     THEN sessions' = [sessions EXCEPT
            ![c].step = "working",
            ![c].status = documents[d].status,
            ![c].embedding = documents[d].embedding,
            ![c].jobStatus = JobsOf(d, op)[sessions[c].job]]
     ELSE End(c)
  /\ UNCHANGED <<kb, documents, files, abandoned, stray>>

\* Mutant: the document keeps its status when the job fails.
RowEndedDocumentForgotten(c, op, d, status, embedding, job) ==
  [documents[d] EXCEPT
     ![Jobs(op)] = [JobsOf(d, op) EXCEPT ![sessions[c].job] = job],
     !.status = IF op = "ingest" /\ job # "FAILED" THEN status ELSE @,
     !.embedding = IF op = "embed" /\ job # "FAILED" THEN embedding ELSE @]

\* The last commit of a job, with the outcome of the job and of the document.
RowEnded(c, op, d, status, embedding, job) ==
  LET row == documents[d]
      jobs == [JobsOf(d, op) EXCEPT ![sessions[c].job] = Written(sessions[c].jobStatus, job, @)] IN
  IF op = "ingest"
  THEN [row EXCEPT !.ingestions = jobs, !.status = Written(sessions[c].status, status, @)]
  ELSE [row EXCEPT !.embeddings = jobs, !.embedding = Written(sessions[c].embedding, embedding, @)]

\* The failure handler, when the session is still usable.
FailJob(c) ==
  LET d == sessions[c].document
      op == sessions[c].op IN
  /\ \E o \in {"ingest", "embed"} : Step(c, o, "working")
  /\ IF Exists(d)
     THEN Save(d, RowEnded(c, op, d, "FAILED", "FAILED", "FAILED"))
     ELSE UNCHANGED documents
  /\ End(c)
  /\ UNCHANGED <<kb, files, abandoned, stray>>

-----------------------------------------------------------------------------
(* Ingestion: the chunks of the version are deleted and inserted anew, in    *)
(* one transaction with the outcome.                                         *)

\* The file is read and cut; then the old chunks are deleted, and stay locked.
DeleteChunks(c) ==
  LET d == sessions[c].document IN
  /\ Step(c, "ingest", "working")
  /\ d \in files /\ Exists(d)
  /\ sessions' = [sessions EXCEPT ![c].step = "replacing", ![c].chunks = documents[d].chunks]
  /\ UNCHANGED <<kb, documents, files, abandoned, stray>>

ReplacedChunks(row, n) == [row EXCEPT !.chunks = n, !.vectors = [p \in Parts |-> 0]]

\* Chunks that another ingestion inserted after this one's DELETE have the same
\* indices: the unique constraint fails the INSERT.
FinishIngestion(c) ==
  LET d == sessions[c].document IN
  /\ Step(c, "ingest", "replacing")
  /\ Exists(d) /\ documents[d].chunks = sessions[c].chunks
  /\ Save(d, ReplacedChunks(RowEnded(c, "ingest", d, "READY", "none", "COMPLETED"),
                            documents[d].chunks + 1))
  /\ End(c)
  /\ UNCHANGED <<kb, files, abandoned, stray>>

IngestionConflict(c) ==
  LET d == sessions[c].document IN
  /\ Step(c, "ingest", "replacing")
  /\ ~(Exists(d) /\ documents[d].chunks = sessions[c].chunks)
  /\ Abandon(c)

-----------------------------------------------------------------------------
(* Embedding: one commit per batch, in the order of the chunks. *)

BeingDeleted(d, n) ==
  \E c \in Clients : Step(c, "ingest", "replacing") /\ sessions[c].document = d
                     /\ sessions[c].chunks = n

\* Mutant: chunks are found by their index, not by their key.
StillThereByIndex(c) == Exists(sessions[c].document) /\ documents[sessions[c].document].chunks # 0

StillThere(c) ==
  Exists(sessions[c].document) /\ documents[sessions[c].document].chunks = sessions[c].chunks

NextPart(c) == CHOOSE p \in sessions[c].todo : \A q \in sessions[c].todo : p <= q

\* An UPDATE of a chunk waits for a transaction that is deleting it.
EmbedBatch(c) ==
  LET d == sessions[c].document IN
  /\ Step(c, "embed", "working")
  /\ sessions[c].todo # {}
  /\ ~BeingDeleted(d, sessions[c].chunks)
  /\ StillThere(c)
  /\ Save(d, [documents[d] EXCEPT !.vectors[NextPart(c)] = sessions[c].chunks])
  /\ sessions' = [sessions EXCEPT ![c].todo = @ \ {NextPart(c)}]
  /\ UNCHANGED <<kb, files, abandoned, stray>>

\* The chunks of the batch are gone.  The UPDATE that matches no row is noticed,
\* and then the failure handler fails too, or it is not: that depends on whether
\* the driver counts the rows of a batch of statements.
BatchVanished(c) ==
  /\ Step(c, "embed", "working")
  /\ sessions[c].todo # {}
  /\ ~BeingDeleted(sessions[c].document, sessions[c].chunks)
  /\ ~StillThere(c)
  /\ \/ Abandon(c)
     \/ /\ sessions' = [sessions EXCEPT ![c].todo = @ \ {NextPart(c)}]
        /\ UNCHANGED <<kb, documents, files, abandoned, stray>>

NothingLeft(c) == sessions[c].todo = {}

FinishEmbedding(c) ==
  LET d == sessions[c].document IN
  /\ Step(c, "embed", "working")
  /\ NothingLeft(c)
  /\ IF Exists(d)
     THEN /\ Save(d, [RowEnded(c, "embed", d, "READY", "COMPLETED", "COMPLETED")
                        EXCEPT !.covered = sessions[c].chunks])
          /\ End(c)
          /\ UNCHANGED abandoned
     ELSE End(c) /\ UNCHANGED <<documents, abandoned>>
  /\ UNCHANGED <<kb, files, stray>>

-----------------------------------------------------------------------------
(* Metadata, deletion, and requests that are lost. *)

PatchStatus(c, s) ==
  LET d == sessions[c].document IN
  /\ Step(c, "patch", "loaded")
  /\ IF Exists(d)
     THEN Save(d, [documents[d] EXCEPT !.status = Written(sessions[c].status, s, @)])
     ELSE UNCHANGED documents
  /\ End(c)
  /\ UNCHANGED <<kb, files, abandoned, stray>>

DeleteDocument(c) ==
  LET d == sessions[c].document IN
  /\ Step(c, "delete", "loaded")
  /\ IF Exists(d)
     THEN Save(d, [documents[d] EXCEPT !.deleted = TRUE])
     ELSE UNCHANGED documents
  /\ End(c)
  /\ UNCHANGED <<kb, files, abandoned, stray>>

\* The rows of the knowledge base go with it, the files stay.
DeleteKnowledgeBase ==
  /\ kb /\ kb' = FALSE
  /\ documents' = [d \in Documents |-> None]
  /\ stray' = stray \cup {d \in Documents : Exists(d)}
  /\ UNCHANGED <<files, sessions, abandoned>>

Begun(c) == sessions[c].op \in {"ingest", "embed"}
            /\ sessions[c].step \in {"committed", "working", "replacing"}

\* The process that serves the request stops: its open transaction is undone.
Lose(c) ==
  /\ sessions[c] # None
  /\ abandoned' = IF Begun(c) THEN abandoned \cup {sessions[c].document} ELSE abandoned
  /\ stray' = IF Step(c, "upload", "stored") THEN stray \cup {sessions[c].document} ELSE stray
  /\ End(c)
  /\ UNCHANGED <<kb, documents, files>>

Request(c) ==
  \/ \E x \in Contents : CheckUpload(c, x)
  \/ \E d \in Documents, op \in {"ingest", "embed", "patch", "delete"} : LoadDocument(c, op, d)
  \/ \E d \in Documents : RetryEmbedding(c, d)

Handle(c) ==
  \/ StoreFile(c) \/ InsertDocument(c) \/ FinishUpload(c) \/ FailUpload(c)
  \/ FindJob(c) \/ StartJob(c) \/ Refresh(c) \/ FailJob(c)
  \/ DeleteChunks(c) \/ FinishIngestion(c) \/ IngestionConflict(c)
  \/ EmbedBatch(c) \/ BatchVanished(c) \/ FinishEmbedding(c)
  \/ \E s \in SetByHand : PatchStatus(c, s)
  \/ DeleteDocument(c)

Next ==
  \/ \E c \in Clients : Request(c) \/ Handle(c) \/ Lose(c)
  \/ DeleteKnowledgeBase

Spec == Init /\ [][Next]_vars

-----------------------------------------------------------------------------
(* Properties. *)

Owner(c, op, d) == sessions[c] # None /\ sessions[c].op = op /\ sessions[c].document = d /\ Begun(c)

\* A document or a job that says PROCESSING is being processed by a request,
\* unless some request on the document was lost or could not record its
\* failure: nothing else strands it (ingestion/service.py:82, :216 and
\* embeddings/service.py:118, :206).
ProcessingIsOwned ==
  \A d \in Documents : Exists(d) /\ d \notin abandoned =>
    /\ documents[d].status = "PROCESSING" => \E c \in Clients : Owner(c, "ingest", d)
    /\ documents[d].embedding = "PROCESSING" => \E c \in Clients : Owner(c, "embed", d)
    /\ \A n \in DOMAIN documents[d].ingestions : documents[d].ingestions[n] = "PROCESSING"
         => \E c \in Clients : Owner(c, "ingest", d) /\ sessions[c].job = n

\* A READY document has chunks, whatever requests interleave on it.
ReadyHasChunks ==
  \A d \in Documents : Exists(d) /\ documents[d].status = "READY" => documents[d].chunks # 0

\* A vector was made from the text of the chunk that carries it.
VectorsAreOfTheirChunks ==
  \A d \in Documents : Exists(d) =>
    \A p \in Parts : documents[d].vectors[p] \in {0, documents[d].chunks}

\* The embedding status COMPLETED covers every chunk, unless the chunks are
\* newer than those the job has embedded: ingestion/service.py:151 replaces
\* them and leaves the embedding status alone.
CompletedCoversChunks ==
  \A d \in Documents : Exists(d) /\ documents[d].embedding = "COMPLETED"
                       /\ documents[d].covered = documents[d].chunks =>
    \A p \in Parts : documents[d].vectors[p] = documents[d].chunks

\* What the retrieval searches (retrieval/filters.py:58, vector.py:55) is what
\* the statuses say, whatever requests interleave: a READY document has chunks,
\* their vectors are of their own text, and an embedding COMPLETED for these
\* chunks has left none out.
SearchableAsStated == ReadyHasChunks /\ VectorsAreOfTheirChunks /\ CompletedCoversChunks

Uploading(d) == \E c \in Clients : Step(c, "upload", "stored") /\ sessions[c].document = d

\* The storage has the file of a document exactly when the document has a row,
\* except while it is uploaded, after a crash between file and row, after the
\* knowledge base was deleted, and after an insert that committed and was then
\* reported as failed (documents/service.py:119-165).
FilesMatchRows ==
  \A d \in Documents \ stray : ~Uploading(d) => (Exists(d) <=> d \in files)
=============================================================================
