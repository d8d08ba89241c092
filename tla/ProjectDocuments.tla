-------------------------- MODULE ProjectDocuments --------------------------
(***************************************************************************)
(* The project-document plane: the project_documents rows, their ingestion *)
(* and cleanup jobs, the uploaded sources, the chunk rows and the vectors  *)
(* of the project's index; the upload, completion and deletion requests;   *)
(* ProjectDocumentIngestionWorker and ProjectDocumentCleanupWorker behind  *)
(* their pollers; and the recovery of expired leases.                      *)
(*                                                                         *)
(* A step is one SQL statement or transaction, or one stretch of code      *)
(* between awaits.  Time is abstracted: a lease may be found expired at    *)
(* any step its holder has not finished, and retry delays have any length. *)
(* One chunk stands for the chunks of a document; its vector_id tells a    *)
(* row from a row inserted again after a purge.                            *)
(***************************************************************************)
EXTENDS Naturals, FiniteSets

CONSTANTS
    Docs,        \* project_documents rows of one project
    Ingesters,   \* document pollers, one per worker process
    Cleaners,    \* cleanup pollers, one per worker process
    VectorIds,   \* bound: values of project_document_chunks.vector_id
    MaxAttempts, \* max_attempts of the ingestion worker
    Faults,      \* the kinds of fault a run considers
    MaxFaults,   \* bound: faults taken
    None         \* SQL NULL

Workers == Ingesters \cup Cleaners

FaultKinds == {"ingester_crash", "cleaner_crash", "slow", "store", "database"}

ASSUME ConstantsAssumption ==
    /\ MaxAttempts \in Nat \ {0}
    /\ MaxFaults \in Nat
    /\ Faults \subseteq FaultKinds
    /\ Ingesters \cap Cleaners = {}
    /\ None \notin Docs \cup VectorIds

InFlight == {"extracting", "indexing"}
Hidden == {"deleting", "deleted"}
DocStatus == {"absent", "received", "ready", "failed"} \cup InFlight \cup Hidden
JobStatus == {"absent", "queued", "extracting", "completed", "failed"}
CleanupStatus == {"absent", "queued", "running", "completed", "failed"}

IngesterPc == {"idle", "claim", "download", "begin", "rows", "embed", "publish",
               "finish", "list", "remove", "purge", "retry", "fail", "fail_job"}
CleanerPc == {"idle", "claim", "list", "remove", "purge", "storage",
              "finish_cleanup", "cleanup_failed"}

VARIABLES
    status,     \* project_documents.status
    expired,    \* expires_at has passed
    job,        \* document_ingestion_jobs.status
    attempts,   \* its attempts, saturating at MaxAttempts
    cleanup,    \* document_cleanup_jobs.status
    source,     \* the uploaded object is in private storage
    row,        \* vector_id of the document's chunk row, or None
    index,      \* the document's vector ids in the project index
    completing, \* completion requests that read "received", INSERT pending
    closed,     \* projects.deleted_at is set
    pc,         \* where each worker's execute (and its poll loop) stands
    doc,        \* the document it executes
    state,      \* its local state: the status it believes the document has
    ids,        \* the vector ids it read or was assigned
    resume,     \* where it continues after purging vectors
    faults      \* faults taken so far

docVars == <<status, expired, job, attempts>>
storeVars == <<source, row, index>>
apiVars == <<completing, closed>>
localVars == <<pc, doc, state, ids, resume>>
vars == <<docVars, cleanup, storeVars, apiVars, localVars, faults>>

Init ==
    /\ status = [d \in Docs |-> "absent"]
    /\ expired = [d \in Docs |-> FALSE]
    /\ job = [d \in Docs |-> "absent"]
    /\ attempts = [d \in Docs |-> 0]
    /\ cleanup = [d \in Docs |-> "absent"]
    /\ source = [d \in Docs |-> FALSE]
    /\ row = [d \in Docs |-> None]
    /\ index = [d \in Docs |-> {}]
    /\ completing = {}
    /\ closed = FALSE
    /\ pc = [w \in Workers |-> "idle"]
    /\ doc = [w \in Workers |-> None]
    /\ state = [w \in Workers |-> "extracting"]
    /\ ids = [w \in Workers |-> {}]
    /\ resume = [w \in Workers |-> "idle"]
    /\ faults = 0

----------------------------------------------------------------------------
(* Local control *)

\* next_id returned d: execute(d) starts, its claim still to come.
Dispatch(w, d) ==
    /\ pc' = [pc EXCEPT ![w] = "claim"]
    /\ doc' = [doc EXCEPT ![w] = d]
    /\ UNCHANGED <<state, ids, resume>>

Goto(w, label) ==
    /\ pc' = [pc EXCEPT ![w] = label]
    /\ UNCHANGED <<doc, state, ids, resume>>

\* execute returns or raises: its locals are gone.
Return(w) ==
    /\ pc' = [pc EXCEPT ![w] = "idle"]
    /\ doc' = [doc EXCEPT ![w] = None]
    /\ state' = [state EXCEPT ![w] = "extracting"]
    /\ ids' = [ids EXCEPT ![w] = {}]
    /\ resume' = [resume EXCEPT ![w] = "idle"]

\* Delete the document's vectors and chunk rows, then continue at label.
StartPurge(w, label) ==
    /\ pc' = [pc EXCEPT ![w] = "list"]
    /\ resume' = [resume EXCEPT ![w] = label]
    /\ UNCHANGED <<doc, state, ids>>

Fault(kind) ==
    /\ kind \in Faults
    /\ faults < MaxFaults
    /\ faults' = faults + 1

Holds(w, d) == doc[w] = d /\ pc[w] # "claim"

----------------------------------------------------------------------------
(* API requests and the passing of time *)

\* POST documents: a new row, or a failed one submitted again; any other row
\* with this content is returned as it is.  The project was read on another
\* connection and may be closed since.  A failed row found only after the
\* INSERT met it keeps its expires_at.
InitiateUpload(d) ==
    /\ status[d] \in {"absent", "failed"}
    /\ status' = [status EXCEPT ![d] = "received"]
    /\ \/ expired' = [expired EXCEPT ![d] = FALSE]
       \/ status[d] = "failed" /\ UNCHANGED expired
    /\ UNCHANGED <<job, attempts, cleanup, storeVars, apiVars, localVars, faults>>

\* The client writes the source through its upload URL, whatever the row
\* has become since the URL was issued.
UploadSource(d) ==
    /\ status[d] # "absent"
    /\ source' = [source EXCEPT ![d] = TRUE]
    /\ UNCHANGED <<docVars, cleanup, row, index, apiVars, localVars, faults>>

\* Mutant: the object is not looked for.
BeginCompleteUnchecked(d) ==
    /\ status[d] = "received"
    /\ completing' = completing \cup {d}
    /\ UNCHANGED <<docVars, cleanup, storeVars, closed, localVars, faults>>

\* POST complete: the row is received and the object exists ...
BeginComplete(d) ==
    /\ status[d] = "received"
    /\ source[d]
    /\ completing' = completing \cup {d}
    /\ UNCHANGED <<docVars, cleanup, storeVars, closed, localVars, faults>>

\* Mutant: a job in any state is queued again.
CompleteUploadRequeues(d) ==
    /\ d \in completing
    /\ completing' = completing \ {d}
    /\ job' = [job EXCEPT ![d] = "queued"]
    /\ UNCHANGED <<status, expired, attempts, cleanup, storeVars, closed,
                   localVars, faults>>

\* ... and the job is inserted, or a failed one queued again, on a separate
\* connection that does not look at the row.
CompleteUpload(d) ==
    /\ d \in completing
    /\ completing' = completing \ {d}
    /\ job' = [job EXCEPT ![d] = IF @ \in {"absent", "failed"} THEN "queued" ELSE @]
    /\ UNCHANGED <<status, expired, attempts, cleanup, storeVars, closed,
                   localVars, faults>>

\* _enqueue_cleanup, for each document of S.
Enqueue(S) ==
    cleanup' = [d \in Docs |-> IF d \in S /\ cleanup[d] # "completed"
                               THEN "queued" ELSE cleanup[d]]

Hide(S) ==
    status' = [d \in Docs |-> IF d \in S THEN "deleting" ELSE status[d]]

\* Mutant: a deleted document is deleted again.
DeleteDocumentAgain(d) ==
    /\ status[d] # "absent"
    /\ Hide({d})
    /\ Enqueue({d})
    /\ UNCHANGED <<expired, job, attempts, storeVars, apiVars, localVars, faults>>

\* DELETE document: its read may be stale, its UPDATE excludes only deleted.
DeleteDocument(d) ==
    /\ status[d] \notin {"absent", "deleted"}
    /\ Hide({d})
    /\ Enqueue({d})
    /\ UNCHANGED <<expired, job, attempts, storeVars, apiVars, localVars, faults>>

\* DELETE project: every document not yet deleted, in one transaction.
DeleteProject ==
    /\ ~closed
    /\ closed' = TRUE
    /\ LET S == {d \in Docs : status[d] \notin {"absent", "deleted"}}
       IN Hide(S) /\ Enqueue(S)
    /\ UNCHANGED <<expired, job, attempts, storeVars, completing, localVars, faults>>

Expire(d) ==
    /\ status[d] # "absent"
    /\ expired' = [expired EXCEPT ![d] = TRUE]
    /\ UNCHANGED <<status, job, attempts, cleanup, storeVars, apiVars,
                   localVars, faults>>

----------------------------------------------------------------------------
(* ProjectDocumentIngestionWorker.execute *)

Claimable(d) == job[d] \in {"queued", "failed"} /\ status[d] = "received"

PollJob(w) ==
    /\ pc[w] = "idle"
    /\ \E d \in Docs : Claimable(d) /\ ~expired[d] /\ Dispatch(w, d)
    /\ UNCHANGED <<docVars, cleanup, storeVars, apiVars, faults>>

ClaimJob(w) ==
    /\ pc[w] = "claim"
    /\ IF Claimable(doc[w])
       THEN /\ job' = [job EXCEPT ![doc[w]] = "extracting"]
            /\ attempts' = [attempts EXCEPT ![doc[w]] =
                              IF @ < MaxAttempts THEN @ + 1 ELSE @]
            /\ status' = [status EXCEPT ![doc[w]] = "extracting"]
            /\ Goto(w, "download")
       ELSE Return(w) /\ UNCHANGED <<status, job, attempts>>
    /\ UNCHANGED <<expired, cleanup, storeVars, apiVars, faults>>

\* Download, verify and extract: it succeeds, fails for good (verification,
\* extraction, page limit) or fails for now (storage, extractor).
Extract(w) ==
    /\ pc[w] = "download"
    /\ \/ source[doc[w]] /\ Goto(w, "begin")
       \/ source[doc[w]] /\ Goto(w, "fail")
       \/ Goto(w, "retry")
    /\ UNCHANGED <<docVars, cleanup, storeVars, apiVars, faults>>

\* transition_document(extracting -> indexing); a lost race returns quietly.
BeginIndexing(w) ==
    /\ pc[w] = "begin"
    /\ IF status[doc[w]] = "extracting"
       THEN /\ status' = [status EXCEPT ![doc[w]] = "indexing"]
            /\ state' = [state EXCEPT ![w] = "indexing"]
            /\ pc' = [pc EXCEPT ![w] = "rows"]
            /\ UNCHANGED <<doc, ids, resume>>
       ELSE Return(w) /\ UNCHANGED status
    /\ UNCHANGED <<expired, job, attempts, cleanup, storeVars, apiVars, faults>>

\* A new row's vector_id is never one in use.
FreshIds(d) ==
    VectorIds \ (index[d] \cup {row[d]} \cup UNION {ids[w] : w \in Workers})

\* replace_document_chunks: an existing row of the same text keeps its id.
WriteRows(w) ==
    /\ pc[w] = "rows"
    /\ ~expired[doc[w]]
    /\ \E id \in IF row[doc[w]] = None THEN FreshIds(doc[w]) ELSE {row[doc[w]]} :
          /\ row' = [row EXCEPT ![doc[w]] = id]
          /\ ids' = [ids EXCEPT ![w] = {id}]
    /\ pc' = [pc EXCEPT ![w] = "embed"]
    /\ UNCHANGED <<docVars, cleanup, source, index, apiVars, doc, state, resume,
                   faults>>

\* Embed the chunks and add them to the project index under the ids held;
\* publishing the index's snapshot may still fail.
AddVectors(w) ==
    /\ pc[w] = "embed"
    /\ index' = [index EXCEPT ![doc[w]] = @ \cup ids[w]]
    /\ Goto(w, "publish") \/ Goto(w, "retry")
    /\ UNCHANGED <<docVars, cleanup, source, row, apiVars, faults>>

\* Mutant: the exception is swallowed.
IndexingFailsQuietly(w) ==
    /\ pc[w] \in {"rows", "embed"}
    /\ Goto(w, "publish")
    /\ UNCHANGED <<docVars, cleanup, storeVars, apiVars, faults>>

\* vectors.index raises (expired document, chunk rows, embedding, index):
\* nothing is counted as written, so nothing is purged.
IndexingFails(w) ==
    /\ pc[w] \in {"rows", "embed"}
    /\ Goto(w, "retry")
    /\ UNCHANGED <<docVars, cleanup, storeVars, apiVars, faults>>

\* transition_document(indexing -> ready); a lost race purges the vectors.
Publish(w) ==
    /\ pc[w] = "publish"
    /\ IF status[doc[w]] = "indexing"
       THEN status' = [status EXCEPT ![doc[w]] = "ready"] /\ Goto(w, "finish")
       ELSE StartPurge(w, "idle") /\ UNCHANGED status
    /\ UNCHANGED <<expired, job, attempts, cleanup, storeVars, apiVars, faults>>

\* finish_job: a job still leased takes the outcome, any other is left alone.
FinishJob(w, outcome) ==
    /\ job' = [job EXCEPT ![doc[w]] = IF @ = "extracting" THEN outcome ELSE @]
    /\ Return(w)
    /\ UNCHANGED <<status, expired, attempts, cleanup, storeVars, apiVars, faults>>

Finish(w) == pc[w] = "finish" /\ FinishJob(w, "completed")

\* A repository call raises outside the failure handlers: the generic
\* handler retries, and purges first once vectors_written is set.
DatabaseFails(w) ==
    /\ Fault("database")
    /\ \/ pc[w] = "begin" /\ Goto(w, "retry")
       \/ pc[w] \in {"publish", "finish"} /\ StartPurge(w, "retry")
    /\ UNCHANGED <<docVars, cleanup, storeVars, apiVars>>

\* retry_job: both rows or, when the document moved on, neither and an error.
RetryJob(w) ==
    /\ pc[w] = "retry"
    /\ IF job[doc[w]] = "extracting" /\ attempts[doc[w]] < MaxAttempts
       THEN /\ IF status[doc[w]] = state[w]
               THEN /\ job' = [job EXCEPT ![doc[w]] = "queued"]
                    /\ status' = [status EXCEPT ![doc[w]] = "received"]
               ELSE UNCHANGED <<status, job>>
            /\ Return(w)
       ELSE Goto(w, "fail") /\ UNCHANGED <<status, job>>
    /\ UNCHANGED <<expired, attempts, cleanup, storeVars, apiVars, faults>>

\* _fail: transition_document(state -> failed), then finish_job.
Fail(w) ==
    /\ pc[w] = "fail"
    /\ IF status[doc[w]] = state[w]
       THEN status' = [status EXCEPT ![doc[w]] = "failed"] /\ Goto(w, "fail_job")
       ELSE Return(w) /\ UNCHANGED status
    /\ UNCHANGED <<expired, job, attempts, cleanup, storeVars, apiVars, faults>>

FailJob(w) == pc[w] = "fail_job" /\ FinishJob(w, "failed")

----------------------------------------------------------------------------
(* delete_document of the vector store, for either worker *)

ListVectors(w) ==
    /\ pc[w] = "list"
    /\ ids' = [ids EXCEPT ![w] = {row[doc[w]]} \ {None}]
    /\ pc' = [pc EXCEPT ![w] = "remove"]
    /\ UNCHANGED <<docVars, cleanup, storeVars, apiVars, doc, state, resume, faults>>

RemoveVectors(w) ==
    /\ pc[w] = "remove"
    /\ index' = [index EXCEPT ![doc[w]] = @ \ ids[w]]
    /\ Goto(w, "purge")
    /\ UNCHANGED <<docVars, cleanup, source, row, apiVars, faults>>

PurgeRows(w) ==
    /\ pc[w] = "purge"
    /\ row' = [row EXCEPT ![doc[w]] = None]
    /\ IF resume[w] = "idle" THEN Return(w) ELSE Goto(w, resume[w])
    /\ UNCHANGED <<docVars, cleanup, source, index, apiVars, faults>>

\* The ingester swallows the error and goes on; the cleaner records it.
StoreFails(w) ==
    /\ Fault("store")
    /\ pc[w] \in {"list", "remove", "purge", "storage"}
    /\ IF w \in Cleaners THEN Goto(w, "cleanup_failed")
       ELSE IF resume[w] = "idle" THEN Return(w) ELSE Goto(w, resume[w])
    /\ UNCHANGED <<docVars, cleanup, storeVars, apiVars>>

----------------------------------------------------------------------------
(* ProjectDocumentCleanupWorker.execute *)

\* next_claimable_cleanup: documents past retention are hidden and enqueued,
\* then one queued or failed cleanup is picked.
PollCleanup(w) ==
    /\ pc[w] = "idle"
    /\ LET due == {d \in Docs : expired[d] /\ status[d] \notin Hidden}
       IN Hide(due) /\ Enqueue(due)
    /\ \E d \in Docs : cleanup'[d] \in {"queued", "failed"} /\ Dispatch(w, d)
    /\ UNCHANGED <<expired, job, attempts, storeVars, apiVars, faults>>

\* claim_cleanup marks the job running whether or not there is a document
\* left to purge.
ClaimCleanup(w) ==
    /\ pc[w] = "claim"
    /\ IF cleanup[doc[w]] \in {"queued", "failed"}
       THEN cleanup' = [cleanup EXCEPT ![doc[w]] = "running"]
       ELSE UNCHANGED cleanup
    /\ IF cleanup[doc[w]] \in {"queued", "failed"} /\ status[doc[w]] = "deleting"
       THEN StartPurge(w, "storage")
       ELSE Return(w)
    /\ UNCHANGED <<docVars, storeVars, apiVars, faults>>

DeleteSource(w) ==
    /\ pc[w] = "storage"
    /\ source' = [source EXCEPT ![doc[w]] = FALSE]
    /\ Goto(w, "finish_cleanup")
    /\ UNCHANGED <<docVars, cleanup, row, index, apiVars, faults>>

FinishCleanup(w) ==
    /\ pc[w] = "finish_cleanup"
    /\ IF status[doc[w]] = "deleting"
       THEN /\ status' = [status EXCEPT ![doc[w]] = "deleted"]
            /\ cleanup' = [cleanup EXCEPT ![doc[w]] =
                             IF @ = "running" THEN "completed" ELSE @]
            /\ row' = [row EXCEPT ![doc[w]] = None]
       ELSE UNCHANGED <<status, cleanup, row>>
    /\ Return(w)
    /\ UNCHANGED <<expired, job, attempts, source, index, apiVars, faults>>

\* Mutant: the failure is not recorded on the job.
CleanupFailedQuietly(w) ==
    /\ pc[w] = "cleanup_failed"
    /\ Return(w)
    /\ UNCHANGED <<docVars, cleanup, storeVars, apiVars, faults>>

CleanupFailed(w) ==
    /\ pc[w] = "cleanup_failed"
    /\ cleanup' = [cleanup EXCEPT ![doc[w]] = IF @ = "running" THEN "failed" ELSE @]
    /\ Return(w)
    /\ UNCHANGED <<docVars, storeVars, apiVars, faults>>

----------------------------------------------------------------------------
(* Lease recovery and crashes *)

\* Mutant: recovery ignores the document's status.
LeasedByJobAlone(d) == job[d] = "extracting"

\* Mutant: recovery forgets documents being indexed.
LeasedWhileExtracting(d) == job[d] = "extracting" /\ status[d] = "extracting"

Leased(d) == job[d] = "extracting" /\ status[d] \in InFlight

\* reset_stale_jobs: a lease expires under a worker that is gone, or (a fault)
\* under one that is slow.
ResetStale(S) ==
    /\ S # {}
    /\ \A d \in S : Leased(d)
    /\ IF \E d \in S, w \in Ingesters : Holds(w, d)
       THEN Fault("slow") ELSE UNCHANGED faults
    /\ job' = [d \in Docs |-> IF d \in S THEN "queued" ELSE job[d]]
    /\ status' = [d \in Docs |-> IF d \in S THEN "received" ELSE status[d]]
    /\ UNCHANGED <<expired, attempts, cleanup, storeVars, apiVars, localVars>>

\* The process dies, or an exception leaves execute, at any point.
Crash(w) ==
    /\ Fault(IF w \in Ingesters THEN "ingester_crash" ELSE "cleaner_crash")
    /\ pc[w] # "idle"
    /\ Return(w)
    /\ UNCHANGED <<docVars, cleanup, storeVars, apiVars>>

Request(d) ==
    \/ InitiateUpload(d) \/ UploadSource(d) \/ BeginComplete(d)
    \/ DeleteDocument(d) \/ Expire(d)

IngesterStep(w) ==
    \/ ClaimJob(w) \/ Extract(w) \/ BeginIndexing(w) \/ WriteRows(w)
    \/ AddVectors(w) \/ IndexingFails(w) \/ Publish(w) \/ Finish(w)
    \/ RetryJob(w) \/ Fail(w) \/ FailJob(w)
    \/ ListVectors(w) \/ RemoveVectors(w) \/ PurgeRows(w)

CleanerStep(w) ==
    \/ ClaimCleanup(w) \/ ListVectors(w) \/ RemoveVectors(w) \/ PurgeRows(w)
    \/ DeleteSource(w) \/ FinishCleanup(w) \/ CleanupFailed(w)

Next ==
    \/ \E d \in Docs : Request(d) \/ CompleteUpload(d)
    \/ DeleteProject
    \/ \E w \in Ingesters : PollJob(w) \/ IngesterStep(w) \/ DatabaseFails(w)
    \/ \E w \in Cleaners : PollCleanup(w) \/ CleanerStep(w)
    \/ \E w \in Workers : StoreFails(w) \/ Crash(w)
    \/ \E S \in SUBSET Docs : ResetStale(S)

Spec == Init /\ [][Next]_vars

\* The poll loops run for ever and await each step they started; the digest
\* poller's maintenance resets stale leases every minute; a request that has
\* read the row goes on to its INSERT.
Fairness ==
    /\ \A w \in Ingesters : WF_vars(PollJob(w)) /\ WF_vars(IngesterStep(w))
    /\ \A w \in Cleaners : WF_vars(PollCleanup(w)) /\ WF_vars(CleanerStep(w))
    /\ WF_vars(\E S \in SUBSET Docs : ResetStale(S))
    /\ \A d \in Docs : WF_vars(CompleteUpload(d))

FairSpec == Spec /\ Fairness

----------------------------------------------------------------------------
(* Properties *)

RowsType ==
    /\ status \in [Docs -> DocStatus]
    /\ expired \in [Docs -> BOOLEAN]
    /\ job \in [Docs -> JobStatus]
    /\ attempts \in [Docs -> 0..MaxAttempts]
    /\ cleanup \in [Docs -> CleanupStatus]
    /\ source \in [Docs -> BOOLEAN]
    /\ row \in [Docs -> VectorIds \cup {None}]
    /\ index \in [Docs -> SUBSET VectorIds]
    /\ completing \in SUBSET Docs
    /\ closed \in BOOLEAN
    /\ faults \in 0..MaxFaults

LocalsType ==
    /\ pc \in [Workers -> IngesterPc \cup CleanerPc]
    /\ doc \in [Workers -> Docs \cup {None}]
    /\ state \in [Workers -> InFlight]
    /\ ids \in [Workers -> SUBSET VectorIds]
    /\ resume \in [Workers -> {"idle", "retry", "storage"}]
    /\ \A w \in Workers : doc[w] = None <=> pc[w] = "idle"
    /\ \A w \in Ingesters : pc[w] \in IngesterPc /\ resume[w] # "storage"
    /\ \A w \in Cleaners : pc[w] \in CleanerPc /\ resume[w] # "retry"

\* Every variable has its type, and a worker holds a document exactly while
\* it executes one.
TypeOK == RowsType /\ LocalsType

\* A document being extracted or indexed always has a leased job, so lease
\* recovery can find it: a late finish_job of an execution that lost its
\* document never completes or fails the job of its successor.
InFlightLeased ==
    \A d \in Docs : status[d] \in InFlight => job[d] = "extracting"

Settles(w) == pc[w] \in {"finish", "fail_job"}

\* finish_job has no fence: it hits whatever job the document has.  Still,
\* when an execution is about to call it, the job is the one it claimed: no
\* other execution is about to finish it, none is in flight under it.
FinishOwned ==
    \A w \in Ingesters : Settles(w) =>
        /\ job[doc[w]] = "extracting"
        /\ status[doc[w]] \notin InFlight
        /\ \A v \in Ingesters : Settles(v) /\ doc[v] = doc[w] => v = w

\* A document on its way out always has a cleanup that is still to be done,
\* however often deletion, expiry and project deletion enqueue it again.
CleanupScheduled ==
    \A d \in Docs :
        /\ status[d] = "deleting" => cleanup[d] \in {"queued", "running", "failed"}
        /\ cleanup[d] = "completed" => status[d] = "deleted"

\* Until it is deleted, a document with an ingestion job has its source: a
\* completion is accepted only after the object exists, and no cleanup of an
\* earlier deletion takes it away.
SourceKept ==
    \A d \in Docs : job[d] # "absent" /\ status[d] \notin Hidden => source[d]

\* While no lease expires under a live worker and finish_job does not fail,
\* a ready document has its chunk row and the row's vector is in the index:
\* no crash, retry or purge of an earlier attempt strips it.
ReadyRetrievable ==
    \A d \in Docs : status[d] = "ready" => row[d] \in index[d]

PhaseOf(s) ==
    CASE s = "absent" -> "none"
      [] s \in {"received"} \cup InFlight -> "processing"
      [] s \in Hidden -> "withdrawn"
      [] OTHER -> s

Lifecycle == INSTANCE DocumentLifecycle
    WITH phase <- [d \in Docs |-> PhaseOf(status[d])]

\* Whatever executions overlap, the user sees the promised lifecycle: ready
\* documents are not reprocessed and withdrawn ones never reappear.
LifecycleRefined == Lifecycle!Spec

\* An upload whose job is queued is eventually ready, failed or withdrawn,
\* through retries, crashed workers and expired leases.
UploadsSettle ==
    \A d \in Docs :
        job[d] = "queued" /\ status[d] = "received"
            ~> status[d] \notin {"received"} \cup InFlight

\* A withdrawn document is eventually deleted when stores fail for a while
\* but no cleaner dies.
DeletionsComplete ==
    \A d \in Docs : status[d] = "deleting" ~> status[d] = "deleted"
=============================================================================
