------------------------------- MODULE Evidence -------------------------------
(***************************************************************************)
(* The evidence of one incident (services/incidents and                    *)
(* services/investigations): clients ingest batches of events, each item   *)
(* checked for its deduplication key, inserted and then embedded; a        *)
(* backfill embeds what was left without a vector; an investigation reads  *)
(* the events, compares their vectors with its query and goes on.  All of  *)
(* them work on sessions of their own, and statements may fail.            *)
(***************************************************************************)
EXTENDS Naturals, Sequences, FiniteSets

CONSTANTS
  Events,      \* ids, ordered as their event_timestamp: numbers
  Keys,        \* deduplication keys
  NoKey,       \* an event without deduplication_key
  Clients,     \* callers of the ingestion routes
  Batches,     \* what a client may send: a set of sequences of keys
  BatchSize,   \* batch_size of the backfill
  FetchCap,    \* INVESTIGATION_EVIDENCE_FETCH_CAP
  NearestK,    \* EVIDENCE_SEMANTIC_TOP_K
  MaxFaults,   \* bound: statements that fail
  MaxBackfills \* bound: runs of the backfill

\* EvidenceBatchCreate.items has at least one item.
ASSUME EvidenceAssumption ==
  /\ Events \subseteq Nat /\ Events # {}
  /\ NoKey \notin Keys
  /\ Batches \subseteq Seq(Keys \cup {NoKey}) \ {<<>>}
  /\ {BatchSize, FetchCap, NearestK} \subseteq Nat \ {0}

VARIABLES
  rows,           \* table evidence_events: a row per event, or none
  client,         \* ingestion requests
  backfill,       \* the backfill script
  investigation,  \* the evidence stage of an investigation
  faults          \* number of statements that failed

vars == <<rows, client, backfill, investigation, faults>>

NoRow == [key |-> NoKey, stored |-> FALSE, embedded |-> FALSE]
Row   == [key : Keys \cup {NoKey}, stored : BOOLEAN, embedded : BOOLEAN]

Result == [status : {"ACCEPTED", "DUPLICATE"}, event : Events] \cup [status : {"FAILED"}]

\* History of a request: what happened to which item of its batch, a statement
\* that failed for another reason than the constraint, or a provider that
\* could not be had.
Marks == {"statement", "provider"} \X Nat

ClientSteps == {"checking", "inserting", "rereading", "embedding", "saving", "answered"}

TypeOK ==
  /\ rows \in [Events -> Row]
  /\ \A c \in Clients :
       /\ client[c].batch \in Batches
       /\ client[c].step \in ClientSteps
       /\ client[c].session \in {"good", "broken"}
       /\ client[c].event \in Events
       /\ client[c].results \in Seq(Result)
       /\ Len(client[c].results) <= Len(client[c].batch)
       /\ client[c].marks \subseteq Marks
  /\ backfill.step \in {"idle", "embedding", "saving", "done", "died"}
  /\ UNION {backfill.todo, backfill.vectors, backfill.found, backfill.refused} \subseteq Events
  /\ investigation.step \in {"idle", "fetching", "embedding", "comparing", "fusing", "progress",
                             "runbooks", "generating", "failed"}
  /\ investigation.session \in {"good", "aborted"}
  /\ UNION {investigation.fetched, investigation.nearest} \subseteq Events
  /\ faults \in 0..MaxFaults

Init ==
  /\ rows = [e \in Events |-> NoRow]
  /\ client \in [Clients -> {[batch |-> b, step |-> "checking", session |-> "good",
                              event |-> CHOOSE e \in Events : TRUE, results |-> <<>>, marks |-> {}]
                             : b \in Batches}]
  /\ backfill = [step |-> "idle", todo |-> {}, vectors |-> {}, found |-> {}, refused |-> {}, runs |-> 0]
  /\ investigation = [step |-> "idle", session |-> "good", fetched |-> {}, nearest |-> {}, vectors |-> {}]
  /\ faults = 0

Stored    == {e \in Events : rows[e].stored}
Embedded  == {e \in Stored : rows[e].embedded}
HasKey(k) == {e \in Stored : k # NoKey /\ rows[e].key = k}

\* The first n of a set of events by time.
Earliest(S, n) == {e \in S : Cardinality({f \in S : f < e}) < n}

Fault == faults < MaxFaults /\ faults' = faults + 1

-----------------------------------------------------------------------------
(* Ingestion: create_evidence_event for each item of a batch. *)

Item(c) == client[c].batch[Len(client[c].results) + 1]
InStep(c, step) == client[c].step = step
Enter(c, step)  == client' = [client EXCEPT ![c].step = step]
IngestOnly == UNCHANGED <<backfill, investigation>>

Number(c) == Len(client[c].results) + 1

\* The item has its result; the next one, if any, begins.
AnswerMarked(c, result, session, marks) ==
  client' = [client EXCEPT ![c].results = Append(@, result), ![c].session = session,
     ![c].marks = @ \cup marks,
     ![c].step = IF Len(client[c].results) + 1 < Len(client[c].batch) THEN "checking" ELSE "answered"]

Answer(c, result, session) == AnswerMarked(c, result, session, {})

Check(c) ==
  /\ InStep(c, "checking") /\ client[c].session = "good"
  /\ IF HasKey(Item(c)) = {} THEN Enter(c, "inserting")
     ELSE \E e \in HasKey(Item(c)) : Answer(c, [status |-> "DUPLICATE", event |-> e], "good")
  /\ UNCHANGED <<rows, faults>>
  /\ IngestOnly

\* The commit of the new row, unless another row has taken the key meanwhile.
Insert(c) ==
  /\ InStep(c, "inserting")
  /\ HasKey(Item(c)) = {}
  /\ \E e \in Events \ Stored :
       /\ rows' = [rows EXCEPT ![e] = [key |-> Item(c), stored |-> TRUE, embedded |-> FALSE]]
       /\ client' = [client EXCEPT ![c].event = e, ![c].step = "embedding"]
  /\ UNCHANGED faults
  /\ IngestOnly

\* Mutant: the conflict is answered without the rollback.
ConflictNotRolledBack(c) ==
  /\ InStep(c, "inserting")
  /\ HasKey(Item(c)) # {}
  /\ Answer(c, [status |-> "FAILED"], "broken")
  /\ UNCHANGED <<rows, faults>>
  /\ IngestOnly

\* The unique constraint refuses the row; the session is rolled back.
Conflict(c) ==
  /\ InStep(c, "inserting")
  /\ HasKey(Item(c)) # {}
  /\ Enter(c, "rereading")
  /\ UNCHANGED <<rows, faults>>
  /\ IngestOnly

\* Mutant: a conflict answers with the row it had prepared.
RereadOwn(c) ==
  /\ InStep(c, "rereading")
  /\ Answer(c, [status |-> "DUPLICATE", event |-> client[c].event], "good")
  /\ UNCHANGED <<rows, faults>>
  /\ IngestOnly

Reread(c) ==
  /\ InStep(c, "rereading")
  /\ \E e \in HasKey(Item(c)) : Answer(c, [status |-> "DUPLICATE", event |-> e], "good")
  /\ UNCHANGED <<rows, faults>>
  /\ IngestOnly

\* The provider gives a vector, or nothing for whatever went wrong.  If there
\* is no provider (its model cannot be loaded) the handler rolls back: that
\* expires the stored event, whose id the batch then fails to read.
Embed(c) ==
  /\ InStep(c, "embedding")
  /\ \/ Enter(c, "saving")
     \/ Answer(c, [status |-> "ACCEPTED", event |-> client[c].event], "good")
     \/ AnswerMarked(c, [status |-> "FAILED"], "good", {<<"provider", Number(c)>>})
  /\ UNCHANGED <<rows, faults>>
  /\ IngestOnly

SaveVector(c) ==
  /\ InStep(c, "saving")
  /\ rows' = [rows EXCEPT ![client[c].event].embedded = TRUE]
  /\ Answer(c, [status |-> "ACCEPTED", event |-> client[c].event], "good")
  /\ UNCHANGED faults
  /\ IngestOnly

\* A statement of the item fails for another reason than the constraint, the
\* second commit included: nothing rolls the session back before the next item.
ItemFails(c) ==
  /\ client[c].step \in {"checking", "inserting", "rereading", "saving"}
  /\ client[c].session = "good"
  /\ Fault
  /\ AnswerMarked(c, [status |-> "FAILED"], "broken", {<<"statement", Number(c)>>})
  /\ UNCHANGED rows
  /\ IngestOnly

\* On a broken session every further item of the batch fails.
ItemRefused(c) ==
  /\ InStep(c, "checking") /\ client[c].session = "broken"
  /\ Answer(c, [status |-> "FAILED"], "broken")
  /\ UNCHANGED <<rows, faults>>
  /\ IngestOnly

-----------------------------------------------------------------------------
(* The backfill. *)

BackfillOnly == UNCHANGED <<client, investigation>>

StartBackfill ==
  /\ backfill.step \in {"idle", "done", "died"} /\ backfill.runs < MaxBackfills
  /\ LET todo == Stored \ Embedded
     IN backfill' = [step |-> IF todo = {} THEN "done" ELSE "embedding", todo |-> todo, vectors |-> {},
                     found |-> todo, refused |-> {}, runs |-> backfill.runs + 1]
  /\ UNCHANGED <<rows, faults>>
  /\ BackfillOnly

Batch == Earliest(backfill.todo, BatchSize)

\* The provider answers for any of the events of the batch.
EmbedBatch ==
  /\ backfill.step = "embedding"
  /\ \E got \in SUBSET Batch :
       backfill' = [backfill EXCEPT !.step = "saving", !.vectors = got,
                                    !.refused = @ \cup (Batch \ got)]
  /\ UNCHANGED <<rows, faults>>
  /\ BackfillOnly

\* Mutant: the next batch starts one event late.
RestSkipsOne == backfill.todo \ Earliest(backfill.todo, BatchSize + 1)

Rest == backfill.todo \ Batch

SaveBatch ==
  /\ backfill.step = "saving"
  /\ rows' = [e \in Events |-> IF e \in backfill.vectors THEN [rows[e] EXCEPT !.embedded = TRUE] ELSE rows[e]]
  /\ backfill' = [backfill EXCEPT !.todo = Rest, !.step = IF Rest = {} THEN "done" ELSE "embedding"]
  /\ UNCHANGED faults
  /\ BackfillOnly

\* The rollback expires the events of the later batches too: the first of them
\* raises where it is read and again where that is logged.
SaveBatchFails ==
  /\ backfill.step = "saving"
  /\ Fault
  /\ backfill' = [backfill EXCEPT !.step = IF Rest = {} THEN "done" ELSE "died", !.todo = Rest,
                                  !.refused = @ \cup Batch]
  /\ UNCHANGED rows
  /\ BackfillOnly

-----------------------------------------------------------------------------
(* The evidence stage of an investigation. *)

InvestigationOnly == UNCHANGED <<rows, client, backfill>>
Reaches(step) == investigation' = [investigation EXCEPT !.step = step]

Claimed ==
  /\ investigation.step = "idle"
  /\ Reaches("fetching")
  /\ UNCHANGED faults /\ InvestigationOnly

\* The earliest events up to the cap, with the vectors they have now.
Fetch ==
  /\ investigation.step = "fetching"
  /\ LET fetched == Earliest(Stored, FetchCap)
     IN investigation' = [investigation EXCEPT !.fetched = fetched, !.vectors = fetched \cap Embedded,
                            !.step = IF fetched = {} THEN "progress" ELSE "embedding"]
  /\ UNCHANGED faults /\ InvestigationOnly

\* No vector for the query, or none of an event: the channel stays empty.
EmbedQuery ==
  /\ investigation.step = "embedding"
  /\ \/ investigation.vectors # {} /\ Reaches("comparing")
     \/ Reaches("fusing")
  /\ UNCHANGED faults /\ InvestigationOnly

\* The nearest of all the events of the incident that have a vector by now.
Compare ==
  /\ investigation.step = "comparing"
  /\ \E nearest \in SUBSET Embedded :
       /\ Cardinality(nearest) = IF Cardinality(Embedded) < NearestK THEN Cardinality(Embedded) ELSE NearestK
       /\ investigation' = [investigation EXCEPT !.nearest = nearest, !.step = "fusing"]
  /\ UNCHANGED faults /\ InvestigationOnly

\* The exception is caught, the transaction stays aborted.
CompareFails ==
  /\ investigation.step = "comparing"
  /\ Fault
  /\ investigation' = [investigation EXCEPT !.session = "aborted", !.step = "fusing"]
  /\ InvestigationOnly

\* by_id knows the fetched events only.
Fuse ==
  /\ investigation.step = "fusing"
  /\ Reaches(IF investigation.nearest \subseteq investigation.fetched THEN "progress" ELSE "failed")
  /\ UNCHANGED faults /\ InvestigationOnly

\* update_progress and get_timeline.
Progress ==
  /\ investigation.step = "progress"
  /\ Reaches(IF investigation.session = "good" THEN "runbooks" ELSE "failed")
  /\ UNCHANGED faults /\ InvestigationOnly

\* retrieve_runbooks never raises; what fails inside it may be a statement, and
\* then the next statement of the investigation fails.
Runbooks ==
  /\ investigation.step = "runbooks"
  /\ \/ Reaches("generating") /\ UNCHANGED faults
     \/ Reaches("failed") /\ Fault
  /\ InvestigationOnly

ClientStep(c) ==
  \/ Check(c) \/ Insert(c) \/ Conflict(c) \/ Reread(c) \/ Embed(c) \/ SaveVector(c)
  \/ ItemFails(c) \/ ItemRefused(c)

BackfillStep == StartBackfill \/ EmbedBatch \/ SaveBatch \/ SaveBatchFails

InvestigationStep ==
  \/ Claimed \/ Fetch \/ EmbedQuery \/ Compare \/ CompareFails \/ Fuse \/ Progress \/ Runbooks

Next == BackfillStep \/ InvestigationStep \/ \E c \in Clients : ClientStep(c)

Spec == Init /\ [][Next]_vars

-----------------------------------------------------------------------------
(* Properties. *)

Answered(c) == {n \in DOMAIN client[c].results : client[c].results[n].status # "FAILED"}

\* What a client is told is what the table holds: the event named for an item
\* is stored under the item's key, also when two clients raced for it, and only
\* one item of all the batches was accepted for an event.
AnswersMatchRows ==
  LET Given == UNION {{c} \X Answered(c) : c \in Clients}
      Told(p) == client[p[1]].results[p[2]]
  IN /\ \A p \in Given : rows[Told(p).event].stored /\ rows[Told(p).event].key = client[p[1]].batch[p[2]]
     /\ \A p, q \in Given :
          /\ Told(p).status = "ACCEPTED" /\ Told(q).status = "ACCEPTED"
          /\ Told(p).event = Told(q).event
          => p = q

\* An item is reported as failed only because no provider could be had for
\* that very item (it is stored all the same), or because a statement failed at
\* it or before it in the same batch: a lost race for a deduplication key is
\* never reported as a failure, nor does what fails for another client spread.
RaceIsNoFailure ==
  \A c \in Clients : \A n \in DOMAIN client[c].results \ Answered(c) :
    \/ <<"provider", n>> \in client[c].marks
    \/ \E m \in 1..n : <<"statement", m>> \in client[c].marks

\* A backfill that ran to its end left none of the events it found without a
\* vector but those the provider or a failed commit refused.
BackfillCovers ==
  backfill.step = "done" => backfill.found \subseteq Embedded \cup backfill.refused
=============================================================================
