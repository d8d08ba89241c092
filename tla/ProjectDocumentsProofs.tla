----------------------- MODULE ProjectDocumentsProofs -----------------------
(***************************************************************************)
(* Machine-checked proofs about ProjectDocuments, for every set of         *)
(* documents, workers and vector ids, every fault and every fault bound.   *)
(***************************************************************************)
EXTENDS ProjectDocuments, TLAPS

----------------------------------------------------------------------------
(* Local control *)

\* The labels a worker's execute goes through.
Labels(w) == (IF w \in Ingesters THEN IngesterPc ELSE CleanerPc) \ {"idle"}

\* Where an executing worker may continue: at a label of its own.
LEMMA GotoLocals ==
    ASSUME NEW w \in Workers, LocalsType, pc[w] # "idle",
           NEW label \in Labels(w), Goto(w, label)
    PROVE  LocalsType'
  BY ConstantsAssumption DEF Goto, LocalsType, Labels, Workers, IngesterPc, CleanerPc

\* A worker that returns forgets its locals.
LEMMA ReturnLocals ==
    ASSUME NEW w \in Workers, LocalsType, Return(w)
    PROVE  LocalsType'
  BY ConstantsAssumption
  DEF Return, LocalsType, Workers, InFlight, IngesterPc, CleanerPc

\* An idle worker that is given a document executes it.
LEMMA DispatchLocals ==
    ASSUME NEW w \in Workers, NEW d \in Docs, LocalsType, Dispatch(w, d)
    PROVE  LocalsType'
  BY ConstantsAssumption DEF Dispatch, LocalsType, Workers, IngesterPc, CleanerPc

\* Both kinds of worker purge, and continue where they may.
LEMMA StartPurgeLocals ==
    ASSUME NEW w \in Workers, LocalsType, pc[w] # "idle",
           NEW label \in IF w \in Ingesters THEN {"idle", "retry"} ELSE {"storage"},
           StartPurge(w, label)
    PROVE  LocalsType'
  BY ConstantsAssumption DEF StartPurge, LocalsType, Workers, IngesterPc, CleanerPc

\* A purge continues at a label of the worker, if it continues at all.
LEMMA ResumeLabel ==
    ASSUME NEW w \in Workers, LocalsType, resume[w] # "idle"
    PROVE  resume[w] \in Labels(w)
  BY ConstantsAssumption DEF LocalsType, Labels, Workers, IngesterPc, CleanerPc

\* A worker that executes holds a document.
LEMMA Executing ==
    ASSUME NEW w \in Workers, LocalsType, pc[w] # "idle"
    PROVE  doc[w] \in Docs
  BY ConstantsAssumption DEF LocalsType

----------------------------------------------------------------------------
(* TypeOK *)

LEMMA TypeInit == Init => TypeOK
  <1> SUFFICES ASSUME Init PROVE TypeOK
    OBVIOUS
  <1>1. 0 \in 0..MaxAttempts /\ 0 \in 0..MaxFaults
    BY ConstantsAssumption
  <1>2. RowsType
    BY <1>1 DEF Init, RowsType, DocStatus, JobStatus, CleanupStatus
  <1>3. LocalsType
    BY ConstantsAssumption DEF Init, LocalsType, InFlight, IngesterPc, CleanerPc, Workers
  <1> QED
    BY <1>2, <1>3 DEF TypeOK

LEMMA RequestType ==
    ASSUME TypeOK, NEW d \in Docs, Request(d) \/ CompleteUpload(d)
    PROVE  TypeOK'
  <1> USE DEF TypeOK, RowsType, docVars, storeVars, apiVars, localVars
  <1>0. UNCHANGED localVars => LocalsType'
    BY DEF LocalsType
  <1>1. CASE InitiateUpload(d)
    BY <1>0, <1>1 DEF InitiateUpload, DocStatus
  <1>2. CASE UploadSource(d)
    BY <1>0, <1>2 DEF UploadSource
  <1>3. CASE BeginComplete(d)
    BY <1>0, <1>3 DEF BeginComplete
  <1>4. CASE CompleteUpload(d)
    BY <1>0, <1>4 DEF CompleteUpload, JobStatus
  <1>5. CASE DeleteDocument(d)
    BY <1>0, <1>5 DEF DeleteDocument, Hide, Enqueue, DocStatus, CleanupStatus, Hidden
  <1>6. CASE Expire(d)
    BY <1>0, <1>6 DEF Expire
  <1> QED
    BY <1>1, <1>2, <1>3, <1>4, <1>5, <1>6 DEF Request

LEMMA ProjectType ==
    ASSUME TypeOK, DeleteProject \/ \E S \in SUBSET Docs : ResetStale(S)
    PROVE  TypeOK'
  <1> USE DEF TypeOK, RowsType, docVars, storeVars, apiVars, localVars
  <1>0. UNCHANGED localVars => LocalsType'
    BY DEF LocalsType
  <1>1. CASE DeleteProject
    BY <1>0, <1>1 DEF DeleteProject, Hide, Enqueue, DocStatus, CleanupStatus, Hidden
  <1>2. ASSUME NEW S \in SUBSET Docs, ResetStale(S) PROVE TypeOK'
    <2>1. faults' \in 0..MaxFaults
      BY <1>2, ConstantsAssumption DEF ResetStale, Fault
    <2> QED
      BY <1>0, <1>2, <2>1 DEF ResetStale, DocStatus, JobStatus
  <1> QED
    BY <1>1, <1>2

\* Either worker's purge.
LEMMA PurgeType ==
    ASSUME TypeOK, NEW w \in Workers,
           ListVectors(w) \/ RemoveVectors(w) \/ PurgeRows(w)
    PROVE  TypeOK'
  <1> USE DEF TypeOK, RowsType, docVars, storeVars, apiVars, localVars
  <1>0. doc[w] \in Docs
    BY Executing DEF ListVectors, RemoveVectors, PurgeRows
  <1>1. CASE ListVectors(w)
    <2>1. LocalsType'
      BY <1>0, <1>1, ConstantsAssumption
      DEF ListVectors, LocalsType, Workers, IngesterPc, CleanerPc
    <2> QED
      BY <1>1, <2>1 DEF ListVectors
  <1>2. CASE RemoveVectors(w)
    <2>1. "purge" \in Labels(w)
      BY DEF Labels, IngesterPc, CleanerPc
    <2>2. LocalsType'
      BY <1>2, <2>1, GotoLocals DEF RemoveVectors
    <2> QED
      BY <1>0, <1>2, <2>2 DEF RemoveVectors
  <1>3. CASE PurgeRows(w)
    <2>1. LocalsType'
      BY <1>3, GotoLocals, ReturnLocals, ResumeLabel DEF PurgeRows
    <2> QED
      BY <1>0, <1>3, <2>1 DEF PurgeRows
  <1> QED
    BY <1>1, <1>2, <1>3

\* What a step of a worker needs: it holds a document, and its locals change
\* by one of the local-control operators.
LEMMA IngesterType ==
    ASSUME TypeOK, NEW w \in Ingesters,
           PollJob(w) \/ IngesterStep(w) \/ DatabaseFails(w)
    PROVE  TypeOK'
  <1> USE DEF TypeOK, RowsType, docVars, storeVars, apiVars, localVars
  <1> DEFINE d == doc[w]
  <1>0. w \in Workers /\ (pc[w] # "idle" => d \in Docs)
    BY Executing DEF Workers
  <1>g. ASSUME pc[w] # "idle", NEW label \in IngesterPc \ {"idle"}, Goto(w, label)
        PROVE  LocalsType'
    BY <1>0, <1>g, GotoLocals DEF Labels
  <1>r. Return(w) => LocalsType'
    BY <1>0, ReturnLocals
  <1>s. ASSUME pc[w] # "idle", NEW label \in {"idle", "retry"}, StartPurge(w, label)
        PROVE  LocalsType'
    BY <1>0, <1>s, StartPurgeLocals
  <1>1. CASE PollJob(w)
    BY <1>0, <1>1, DispatchLocals DEF PollJob
  <1>2. CASE ClaimJob(w)
    <2>1. LocalsType'
      BY <1>2, <1>g, <1>r DEF ClaimJob, IngesterPc
    <2>2. attempts' \in [Docs -> 0..MaxAttempts]
      BY <1>0, <1>2, ConstantsAssumption DEF ClaimJob
    <2> QED
      BY <1>0, <1>2, <2>1, <2>2 DEF ClaimJob, DocStatus, JobStatus, InFlight
  <1>3. CASE Extract(w)
    BY <1>3, <1>g DEF Extract, IngesterPc
  <1>4. CASE BeginIndexing(w)
    <2>2. CASE status[d] = "extracting"
      BY <1>0, <1>4, <2>2, ConstantsAssumption
      DEF BeginIndexing, LocalsType, Workers, DocStatus, InFlight, IngesterPc
    <2>3. CASE status[d] # "extracting"
      BY <1>4, <2>3, <1>r DEF BeginIndexing
    <2> QED
      BY <2>2, <2>3
  <1>5. CASE WriteRows(w)
    BY <1>0, <1>5, ConstantsAssumption
    DEF WriteRows, FreshIds, LocalsType, Workers, IngesterPc
  <1>6. CASE AddVectors(w)
    <2>1. ids[w] \subseteq VectorIds
      BY <1>0 DEF LocalsType
    <2>2. LocalsType'
      BY <1>6, <1>g DEF AddVectors, IngesterPc
    <2> QED
      BY <1>0, <1>6, <2>1, <2>2 DEF AddVectors
  <1>7. CASE IndexingFails(w)
    BY <1>7, <1>g DEF IndexingFails, IngesterPc
  <1>8. CASE Publish(w)
    BY <1>0, <1>8, <1>g, <1>s DEF Publish, DocStatus, IngesterPc
  <1>9. CASE Finish(w) \/ FailJob(w)
    BY <1>0, <1>9, <1>r DEF Finish, FailJob, FinishJob, JobStatus
  <1>10. CASE DatabaseFails(w)
    <2>1. faults' \in 0..MaxFaults
      BY <1>10, ConstantsAssumption DEF DatabaseFails, Fault
    <2> QED
      BY <1>10, <1>g, <1>s, <2>1 DEF DatabaseFails, IngesterPc
  <1>11. CASE RetryJob(w)
    BY <1>0, <1>11, <1>g, <1>r DEF RetryJob, DocStatus, JobStatus, IngesterPc
  <1>12. CASE Fail(w)
    BY <1>0, <1>12, <1>g, <1>r DEF Fail, DocStatus, IngesterPc
  <1>13. CASE ListVectors(w) \/ RemoveVectors(w) \/ PurgeRows(w)
    BY <1>0, <1>13, PurgeType
  <1> QED
    BY <1>1, <1>2, <1>3, <1>4, <1>5, <1>6, <1>7, <1>8, <1>9, <1>10, <1>11,
       <1>12, <1>13 DEF IngesterStep

LEMMA CleanerType ==
    ASSUME TypeOK, NEW w \in Cleaners, PollCleanup(w) \/ CleanerStep(w)
    PROVE  TypeOK'
  <1> USE DEF TypeOK, RowsType, docVars, storeVars, apiVars, localVars
  <1> DEFINE d == doc[w]
  <1>0. w \in Workers /\ w \notin Ingesters /\ (pc[w] # "idle" => d \in Docs)
    BY Executing, ConstantsAssumption DEF Workers
  <1>r. Return(w) => LocalsType'
    BY <1>0, ReturnLocals
  <1>1. CASE PollCleanup(w)
    <2>1. LocalsType'
      BY <1>0, <1>1, DispatchLocals DEF PollCleanup
    <2> QED
      BY <1>1, <2>1
      DEF PollCleanup, Hide, Enqueue, DocStatus, CleanupStatus, Hidden
  <1>2. CASE ClaimCleanup(w)
    <2>1. LocalsType'
      BY <1>0, <1>2, <1>r, StartPurgeLocals DEF ClaimCleanup
    <2> QED
      BY <1>0, <1>2, <2>1 DEF ClaimCleanup, CleanupStatus
  <1>3. CASE ListVectors(w) \/ RemoveVectors(w) \/ PurgeRows(w)
    BY <1>0, <1>3, PurgeType
  <1>4. CASE DeleteSource(w)
    <2>1. LocalsType'
      BY <1>0, <1>4, GotoLocals DEF DeleteSource, Labels, CleanerPc
    <2> QED
      BY <1>0, <1>4, <2>1 DEF DeleteSource
  <1>5. CASE FinishCleanup(w)
    BY <1>0, <1>5, <1>r DEF FinishCleanup, DocStatus, Hidden, CleanupStatus
  <1>6. CASE CleanupFailed(w)
    BY <1>0, <1>6, <1>r DEF CleanupFailed, CleanupStatus
  <1> QED
    BY <1>1, <1>2, <1>3, <1>4, <1>5, <1>6 DEF CleanerStep

LEMMA FaultType ==
    ASSUME TypeOK, NEW w \in Workers, StoreFails(w) \/ Crash(w)
    PROVE  TypeOK'
  <1> USE DEF TypeOK, RowsType, docVars, storeVars, apiVars, localVars
  <1>0. faults' \in 0..MaxFaults
    BY ConstantsAssumption DEF StoreFails, Crash, Fault
  <1>r. Return(w) => LocalsType'
    BY ReturnLocals
  <1>1. CASE Crash(w)
    BY <1>0, <1>1, <1>r DEF Crash
  <1>2. CASE StoreFails(w)
    <2>1. CASE w \in Cleaners
      <3>1. "cleanup_failed" \in Labels(w)
        BY <2>1, ConstantsAssumption DEF Labels, CleanerPc
      <3>2. LocalsType'
        BY <1>2, <2>1, <3>1, GotoLocals DEF StoreFails
      <3> QED
        BY <1>0, <1>2, <3>2 DEF StoreFails
    <2>2. CASE w \notin Cleaners
      <3>1. LocalsType'
        BY <1>2, <2>2, <1>r, ResumeLabel, GotoLocals DEF StoreFails
      <3> QED
        BY <1>0, <1>2, <3>1 DEF StoreFails
    <2> QED
      BY <2>1, <2>2
  <1> QED
    BY <1>1, <1>2

\* Every step keeps the types.
LEMMA TypeNext == TypeOK /\ [Next]_vars => TypeOK'
  <1>1. TypeOK /\ UNCHANGED vars => TypeOK'
    BY DEF TypeOK, RowsType, LocalsType, vars, docVars, storeVars, apiVars, localVars
  <1>2. TypeOK /\ Next => TypeOK'
    BY RequestType, ProjectType, IngesterType, CleanerType, FaultType DEF Next
  <1> QED
    BY <1>1, <1>2

\* Every reachable state of every instance is well typed, and a worker holds
\* a document exactly while it executes.
THEOREM TypeCorrect == Spec => []TypeOK
  BY TypeInit, TypeNext, PTL DEF Spec

----------------------------------------------------------------------------
(* InFlightLeased: the inductive invariant *)

LeaseInv == TypeOK /\ InFlightLeased /\ FinishOwned

LEMMA LeaseInit == Init => LeaseInv
  BY TypeInit, ConstantsAssumption
  DEF Init, LeaseInv, InFlightLeased, FinishOwned, Settles, InFlight, Workers

\* A step that leaves the jobs alone, takes no document in flight and starts
\* no finish_job keeps the invariant.
LEMMA QuietLease ==
    ASSUME LeaseInv, TypeOK',
           job' = job,
           \A d \in Docs : status'[d] \in InFlight => status[d] \in InFlight,
           \A v \in Ingesters : Settles(v)' => Settles(v) /\ doc'[v] = doc[v]
    PROVE  LeaseInv'
  <1>1. \A v \in Ingesters : Settles(v) => doc[v] \in Docs
    BY Executing DEF LeaseInv, TypeOK, Settles, Workers
  <1>2. InFlightLeased'
    BY DEF LeaseInv, InFlightLeased
  <1>3. FinishOwned'
    BY <1>1 DEF LeaseInv, FinishOwned
  <1> QED
    BY <1>2, <1>3 DEF LeaseInv

\* Requests and deletions take documents out of flight, never in.
LEMMA RequestLease ==
    ASSUME LeaseInv, NEW d \in Docs, Request(d) \/ CompleteUpload(d)
    PROVE  LeaseInv'
  <1> USE DEF docVars, localVars, Settles
  <1>0. TypeOK'
    BY RequestType DEF LeaseInv
  <1>t. status \in [Docs -> DocStatus] /\ job \in [Docs -> JobStatus]
    BY DEF LeaseInv, TypeOK, RowsType
  <1>1. CASE Request(d)
    BY <1>0, <1>1, <1>t, QuietLease
    DEF Request, InitiateUpload, UploadSource, BeginComplete, DeleteDocument,
        Expire, Hide, InFlight
  <1>2. CASE CompleteUpload(d)
    <2>1. \A e \in Docs : job[e] = "extracting" => job'[e] = "extracting"
      BY <1>2, <1>t DEF CompleteUpload
    <2>2. \A v \in Ingesters : Settles(v) => doc[v] \in Docs
      BY Executing DEF LeaseInv, TypeOK, Workers
    <2> QED
      BY <1>0, <1>2, <2>1, <2>2
      DEF CompleteUpload, LeaseInv, InFlightLeased, FinishOwned
  <1> QED
    BY <1>1, <1>2

LEMMA ProjectLease ==
    ASSUME LeaseInv, DeleteProject \/ \E S \in SUBSET Docs : ResetStale(S)
    PROVE  LeaseInv'
  <1> USE DEF docVars, localVars, Settles
  <1>0. TypeOK'
    BY ProjectType DEF LeaseInv
  <1>t. status \in [Docs -> DocStatus] /\ job \in [Docs -> JobStatus]
    BY DEF LeaseInv, TypeOK, RowsType
  <1>1. CASE DeleteProject
    BY <1>0, <1>1, <1>t, QuietLease DEF DeleteProject, Hide, InFlight
  <1>2. ASSUME NEW S \in SUBSET Docs, ResetStale(S) PROVE LeaseInv'
    <2>1. \A e \in Docs : IF e \in S THEN status[e] \in InFlight /\ status'[e] = "received"
                           ELSE job'[e] = job[e] /\ status'[e] = status[e]
      BY <1>2, <1>t DEF ResetStale, Leased
    <2>2. \A v \in Ingesters : Settles(v) => doc[v] \in Docs
      BY Executing DEF LeaseInv, TypeOK, Workers
    <2>3. pc' = pc /\ doc' = doc
      BY <1>2 DEF ResetStale
    <2>4. InFlightLeased'
      BY <2>1 DEF LeaseInv, InFlightLeased, InFlight
    <2>5. FinishOwned'
      BY <2>1, <2>2, <2>3 DEF LeaseInv, FinishOwned, InFlight
    <2> QED
      BY <1>0, <2>4, <2>5 DEF LeaseInv
  <1> QED
    BY <1>1, <1>2

\* An ingester settles only the document it just took out of flight, takes
\* in flight only a document with no finish_job to come, and releases a job
\* only while no one else is about to finish it.
LEMMA IngesterLease ==
    ASSUME LeaseInv, NEW w \in Ingesters,
           PollJob(w) \/ IngesterStep(w) \/ DatabaseFails(w)
    PROVE  LeaseInv'
  <1> USE DEF docVars, localVars, Settles
  <1> DEFINE d == doc[w]
  <1>0. TypeOK'
    BY IngesterType DEF LeaseInv
  <1>t. /\ status \in [Docs -> DocStatus] /\ job \in [Docs -> JobStatus]
        /\ pc \in [Workers -> IngesterPc \cup CleanerPc] /\ w \in Workers
        /\ doc \in [Workers -> Docs \cup {None}]
    BY DEF LeaseInv, TypeOK, RowsType, LocalsType, Workers
  <1>h. \A v \in Ingesters : v \in Workers /\ (pc[v] # "idle" => doc[v] \in Docs)
    BY Executing DEF LeaseInv, TypeOK, Workers
  <1>1. CASE PollJob(w)
    BY <1>0, <1>1, <1>t, QuietLease DEF PollJob, Dispatch, Workers
  <1>2. CASE \/ Extract(w) \/ WriteRows(w) \/ AddVectors(w) \/ IndexingFails(w)
             \/ DatabaseFails(w)
    BY <1>0, <1>2, <1>t, <1>h, QuietLease
    DEF Extract, WriteRows, AddVectors, IndexingFails, DatabaseFails, Goto, StartPurge
  <1>3. CASE ListVectors(w) \/ RemoveVectors(w) \/ PurgeRows(w)
    <2>1. resume[w] \in {"idle", "retry"}
      BY <1>t DEF LeaseInv, TypeOK, LocalsType
    <2> QED
      BY <1>0, <1>3, <1>t, <1>h, <2>1, QuietLease
      DEF ListVectors, RemoveVectors, PurgeRows, Goto, Return
  <1>4. CASE BeginIndexing(w)
    BY <1>0, <1>4, <1>t, <1>h, QuietLease DEF BeginIndexing, Return, InFlight
  <1>5. CASE ClaimJob(w)
    <2>1. CASE ~Claimable(d)
      BY <1>0, <1>5, <2>1, <1>t, <1>h, QuietLease DEF ClaimJob, Return
    <2>2. CASE Claimable(d)
      <3>1. /\ job[d] # "extracting" /\ d \in Docs
            /\ job' = [job EXCEPT ![d] = "extracting"]
            /\ status' = [status EXCEPT ![d] = "extracting"]
            /\ pc' = [pc EXCEPT ![w] = "download"] /\ doc' = doc
        BY <1>5, <2>2, <1>h DEF ClaimJob, Claimable, Goto
      <3>2. InFlightLeased'
        BY <3>1, <1>t DEF LeaseInv, InFlightLeased
      <3>3. FinishOwned'
        BY <3>1, <1>t, <1>h DEF LeaseInv, FinishOwned
      <3> QED
        BY <1>0, <3>2, <3>3 DEF LeaseInv
    <2> QED
      BY <2>1, <2>2
  <1>6. CASE Publish(w) \/ Fail(w)
    <2>1. CASE status' = status
      BY <1>0, <1>6, <2>1, <1>t, <1>h, QuietLease
      DEF Publish, Fail, StartPurge, Return, Goto, LeaseInv, TypeOK, LocalsType, InFlight
    <2>2. CASE status' # status
      <3>1. state[w] \in InFlight /\ d \in Docs
        BY <1>6, <1>t, <1>h DEF Publish, Fail, LeaseInv, TypeOK, LocalsType
      <3>2. /\ status[d] \in InFlight /\ job' = job /\ doc' = doc
            /\ \E s \in {"ready", "failed"} : status' = [status EXCEPT ![d] = s]
            /\ \E l \in {"finish", "fail_job"} : pc' = [pc EXCEPT ![w] = l]
        BY <1>6, <2>2, <3>1 DEF Publish, Fail, Goto, InFlight
      <3>3. InFlightLeased'
        BY <3>1, <3>2, <1>t DEF LeaseInv, InFlightLeased, InFlight
      <3>4. FinishOwned'
        BY <3>1, <3>2, <1>t, <1>h DEF LeaseInv, InFlightLeased, FinishOwned, InFlight
      <3> QED
        BY <1>0, <3>3, <3>4 DEF LeaseInv
    <2> QED
      BY <2>1, <2>2
  <1>7. CASE Finish(w) \/ FailJob(w)
    <2>1. /\ status' = status /\ d \in Docs /\ Settles(w)
          /\ \E o \in {"completed", "failed"} : job' = [job EXCEPT ![d] = o]
          /\ pc' = [pc EXCEPT ![w] = "idle"] /\ doc' = [doc EXCEPT ![w] = None]
      BY <1>7, <1>t, <1>h DEF Finish, FailJob, FinishJob, Return, LeaseInv, FinishOwned
    <2>2. status[d] \notin InFlight
      BY <2>1 DEF LeaseInv, FinishOwned
    <2>3. InFlightLeased'
      BY <2>1, <2>2, <1>t DEF LeaseInv, InFlightLeased
    <2>4. FinishOwned'
      BY <2>1, <1>t, <1>h DEF LeaseInv, FinishOwned
    <2> QED
      BY <1>0, <2>3, <2>4 DEF LeaseInv
  <1>8. CASE RetryJob(w)
    <2>1. CASE job' = job
      <3>1. status' = status
        BY <1>8, <2>1, <1>t, <1>h DEF RetryJob
      <3> QED
        BY <1>0, <1>8, <2>1, <3>1, <1>t, <1>h, QuietLease DEF RetryJob, Return, Goto
    <2>2. CASE job' # job
      <3>1. /\ status[d] = state[w] /\ d \in Docs
            /\ job' = [job EXCEPT ![d] = "queued"]
            /\ status' = [status EXCEPT ![d] = "received"]
            /\ pc' = [pc EXCEPT ![w] = "idle"] /\ doc' = [doc EXCEPT ![w] = None]
        BY <1>8, <2>2, <1>h DEF RetryJob, Return
      <3>2. status[d] \in InFlight
        BY <3>1, <1>t DEF LeaseInv, TypeOK, LocalsType
      <3>3. InFlightLeased'
        BY <3>1, <1>t DEF LeaseInv, InFlightLeased, InFlight
      <3>4. FinishOwned'
        BY <3>1, <3>2, <1>t, <1>h DEF LeaseInv, FinishOwned, InFlight
      <3> QED
        BY <1>0, <3>3, <3>4 DEF LeaseInv
    <2> QED
      BY <2>1, <2>2
  <1> QED
    BY <1>1, <1>2, <1>3, <1>4, <1>5, <1>6, <1>7, <1>8 DEF IngesterStep

\* Cleaners and faults start no finish_job and take nothing in flight.
LEMMA OtherLease ==
    ASSUME LeaseInv, NEW w \in Workers,
           \/ w \in Cleaners /\ (PollCleanup(w) \/ CleanerStep(w))
           \/ StoreFails(w) \/ Crash(w)
    PROVE  LeaseInv'
  <1> USE DEF docVars, localVars, Settles
  <1>0. TypeOK'
    BY CleanerType, FaultType DEF LeaseInv
  <1>t. /\ status \in [Docs -> DocStatus] /\ Ingesters \subseteq Workers
        /\ pc \in [Workers -> IngesterPc \cup CleanerPc]
        /\ doc \in [Workers -> Docs \cup {None}]
        /\ resume[w] \in {"idle", "retry", "storage"}
    BY DEF LeaseInv, TypeOK, RowsType, LocalsType, Workers
  <1>1. job' = job /\ \A v \in Workers \ {w} : pc'[v] = pc[v] /\ doc'[v] = doc[v]
    BY <1>t DEF PollCleanup, CleanerStep, ClaimCleanup, ListVectors, RemoveVectors,
       PurgeRows, DeleteSource, FinishCleanup, CleanupFailed, StoreFails, Crash,
       Dispatch, Goto, Return, StartPurge
  <1>2. \A d \in Docs : status'[d] \in InFlight => status[d] \in InFlight
    BY <1>t DEF PollCleanup, CleanerStep, ClaimCleanup, ListVectors, RemoveVectors,
       PurgeRows, DeleteSource, FinishCleanup, CleanupFailed, StoreFails, Crash,
       Hide, InFlight
  <1>3. w \in Ingesters => ~Settles(w)'
    BY <1>t, ConstantsAssumption DEF StoreFails, Crash, Goto, Return
  <1> QED
    BY <1>0, <1>1, <1>2, <1>3, <1>t, QuietLease

LEMMA LeaseNext == LeaseInv /\ [Next]_vars => LeaseInv'
  <1>1. LeaseInv /\ UNCHANGED vars => LeaseInv'
    BY DEF LeaseInv, TypeOK, RowsType, LocalsType, InFlightLeased, FinishOwned,
       Settles, vars, docVars, storeVars, apiVars, localVars
  <1>2. LeaseInv /\ Next => LeaseInv'
    BY RequestLease, ProjectLease, IngesterLease, OtherLease DEF Next, Workers
  <1> QED
    BY <1>1, <1>2

\* Whatever executions overlap and wherever they crash, a document in flight
\* has a job that lease recovery can find.
THEOREM InFlightRecoverable == Spec => []InFlightLeased
  <1>1. LeaseInv => InFlightLeased
    BY DEF LeaseInv
  <1> QED
    BY <1>1, LeaseInit, LeaseNext, PTL DEF Spec

\* finish_job only ever finishes the job its execution claimed.
THEOREM FinishCorrect == Spec => []FinishOwned
  <1>1. LeaseInv => FinishOwned
    BY DEF LeaseInv
  <1> QED
    BY <1>1, LeaseInit, LeaseNext, PTL DEF Spec

----------------------------------------------------------------------------
(* CleanupScheduled *)

CleanupInv == TypeOK /\ CleanupScheduled

\* Documents that are, or become, hidden keep their status.
HiddenKept ==
    \A d \in Docs : status[d] \in Hidden \/ status'[d] \in Hidden
                    => status'[d] = status[d]

\* A step that hides nothing and leaves the cleanups alone.
LEMMA QuietCleanup ==
    ASSUME CleanupInv, TypeOK', cleanup' = cleanup, HiddenKept
    PROVE  CleanupInv'
  BY DEF CleanupInv, CleanupScheduled, Hidden, HiddenKept

\* Hiding documents that are not deleted, with their cleanups enqueued.
LEMMA EnqueueCleanup ==
    ASSUME CleanupInv, TypeOK', NEW S \in SUBSET Docs,
           \A d \in S : status[d] # "deleted", Hide(S), Enqueue(S)
    PROVE  CleanupInv'
  BY DEF CleanupInv, CleanupScheduled, Hide, Enqueue

LEMMA CleanupNext == CleanupInv /\ [Next]_vars => CleanupInv'
  <1> SUFFICES ASSUME CleanupInv, [Next]_vars PROVE CleanupInv'
    OBVIOUS
  <1> USE DEF docVars
  <1>0. TypeOK'
    BY TypeNext DEF CleanupInv
  <1>t. /\ status \in [Docs -> DocStatus] /\ state \in [Workers -> InFlight]
        /\ cleanup \in [Docs -> CleanupStatus]
        /\ \A w \in Workers : pc[w] # "idle" => doc[w] \in Docs
    BY Executing DEF CleanupInv, TypeOK, RowsType, LocalsType
  <1>1. ASSUME NEW d \in Docs, Request(d) \/ CompleteUpload(d) PROVE CleanupInv'
    <2>1. CASE DeleteDocument(d)
      BY <1>0, <2>1, EnqueueCleanup DEF DeleteDocument
    <2>2. CASE ~DeleteDocument(d)
      <3>1. HiddenKept /\ cleanup' = cleanup
        BY <1>1, <1>t, <2>2
        DEF Request, InitiateUpload, UploadSource, BeginComplete, CompleteUpload,
            Expire, Hidden, HiddenKept
      <3> QED
        BY <1>0, <3>1, QuietCleanup
    <2> QED
      BY <2>1, <2>2
  <1>2. CASE DeleteProject
    BY <1>0, <1>2, EnqueueCleanup DEF DeleteProject
  <1>3. ASSUME NEW w \in Ingesters, PollJob(w) \/ IngesterStep(w) \/ DatabaseFails(w)
        PROVE CleanupInv'
    <2>1. w \in Workers
      BY DEF Workers
    <2>2. cleanup' = cleanup
      BY <1>3 DEF PollJob, IngesterStep, DatabaseFails, ClaimJob, Extract,
         BeginIndexing, WriteRows, AddVectors, IndexingFails, Publish, Finish,
         FinishJob, RetryJob, Fail, FailJob, ListVectors, RemoveVectors, PurgeRows
    <2>3. HiddenKept
      BY <1>3, <1>t, <2>1 DEF HiddenKept, PollJob, IngesterStep, DatabaseFails, ClaimJob,
         Claimable, Extract, BeginIndexing, WriteRows, AddVectors, IndexingFails,
         Publish, Finish, FinishJob, RetryJob, Fail, FailJob, ListVectors,
         RemoveVectors, PurgeRows, Hidden, InFlight
    <2> QED
      BY <1>0, <2>2, <2>3, QuietCleanup
  <1>4. ASSUME NEW w \in Cleaners, PollCleanup(w) \/ CleanerStep(w)
        PROVE CleanupInv'
    <2>1. w \in Workers
      BY DEF Workers
    <2>2. CASE PollCleanup(w)
      BY <1>0, <2>2, EnqueueCleanup DEF PollCleanup, Hidden
    <2>3. CASE ListVectors(w) \/ RemoveVectors(w) \/ PurgeRows(w) \/ DeleteSource(w)
      <3>1. HiddenKept /\ cleanup' = cleanup
        BY <2>3 DEF ListVectors, RemoveVectors, PurgeRows, DeleteSource, HiddenKept
      <3> QED
        BY <1>0, <3>1, QuietCleanup
    <2>4. CASE ClaimCleanup(w) \/ CleanupFailed(w)
      <3>1. status' = status
        BY <2>4 DEF ClaimCleanup, CleanupFailed
      <3>2. \A d \in Docs : \/ cleanup'[d] = cleanup[d]
                            \/ /\ cleanup[d] \in {"queued", "failed", "running"}
                               /\ cleanup'[d] \in {"running", "failed"}
        BY <1>t, <2>1, <2>4 DEF ClaimCleanup, CleanupFailed
      <3> QED
        BY <1>0, <3>1, <3>2 DEF CleanupInv, CleanupScheduled
    <2>5. CASE FinishCleanup(w)
      <3>1. doc[w] \in Docs
        BY <1>t, <2>1, <2>5 DEF FinishCleanup
      <3>2. CASE status[doc[w]] = "deleting"
        <4>1. /\ status' = [status EXCEPT ![doc[w]] = "deleted"]
              /\ \A d \in Docs \ {doc[w]} : cleanup'[d] = cleanup[d]
          BY <1>t, <2>5, <3>2 DEF FinishCleanup
        <4> QED
          BY <1>0, <1>t, <3>1, <4>1 DEF CleanupInv, CleanupScheduled
      <3>3. CASE status[doc[w]] # "deleting"
        <4>1. HiddenKept /\ cleanup' = cleanup
          BY <2>5, <3>3 DEF FinishCleanup, HiddenKept
        <4> QED
          BY <1>0, <4>1, QuietCleanup
      <3> QED
        BY <3>2, <3>3
    <2> QED
      BY <1>4, <2>2, <2>3, <2>4, <2>5 DEF CleanerStep
  <1>5. ASSUME NEW w \in Workers, StoreFails(w) \/ Crash(w) PROVE CleanupInv'
    <2>1. HiddenKept /\ cleanup' = cleanup
      BY <1>5 DEF StoreFails, Crash, HiddenKept
    <2> QED
      BY <1>0, <2>1, QuietCleanup
  <1>6. ASSUME NEW S \in SUBSET Docs, ResetStale(S) PROVE CleanupInv'
    <2>1. HiddenKept /\ cleanup' = cleanup
      BY <1>6, <1>t DEF ResetStale, Leased, InFlight, Hidden, HiddenKept
    <2> QED
      BY <1>0, <2>1, QuietCleanup
  <1>7. CASE UNCHANGED vars
    <2>1. HiddenKept /\ cleanup' = cleanup
      BY <1>7 DEF vars, HiddenKept
    <2> QED
      BY <1>0, <2>1, QuietCleanup
  <1> QED
    BY <1>1, <1>2, <1>3, <1>4, <1>5, <1>6, <1>7 DEF Next

\* No interleaving of deletions, expiry and cleaners loses a cleanup.
THEOREM CleanupCorrect == Spec => []CleanupScheduled
  <1>1. Init => CleanupInv
    BY TypeInit DEF Init, CleanupInv, CleanupScheduled
  <1>2. CleanupInv => CleanupScheduled
    BY DEF CleanupInv
  <1> QED
    BY <1>1, <1>2, CleanupNext, PTL DEF Spec

----------------------------------------------------------------------------
(* The plane implements the promised lifecycle *)

\* Only documents that exist expire.
LifecycleInv == TypeOK /\ \A d \in Docs : expired[d] => status[d] # "absent"

Phases == [d \in Docs |-> PhaseOf(status[d])]

LEMMA PhaseValues ==
    /\ PhaseOf("absent") = "none"
    /\ \A s \in {"received", "extracting", "indexing"} : PhaseOf(s) = "processing"
    /\ \A s \in {"deleting", "deleted"} : PhaseOf(s) = "withdrawn"
    /\ \A s \in {"ready", "failed"} : PhaseOf(s) = s
  BY DEF PhaseOf, InFlight, Hidden

\* Steps that change no phase are stutters.
LEMMA Stutter ==
    ASSUME TypeOK, TypeOK',
           \A d \in Docs : PhaseOf(status'[d]) = PhaseOf(status[d])
    PROVE  Phases' = Phases
  BY DEF Phases

\* Hiding documents that exist is a withdrawal.
LEMMA Withdrawal ==
    ASSUME TypeOK, NEW S \in SUBSET Docs, Hide(S),
           \A d \in S : status[d] # "absent"
    PROVE  Lifecycle!Withdraw(S)
  <1>1. \A d \in S : PhaseOf(status[d]) # "none"
    BY PhaseValues DEF TypeOK, RowsType, DocStatus, InFlight, Hidden
  <1>2. Phases' = [d \in Docs |-> IF d \in S THEN "withdrawn" ELSE Phases[d]]
    BY PhaseValues DEF Hide, Phases
  <1> QED
    BY <1>1, <1>2 DEF Lifecycle!Withdraw, Phases

\* One document that changes phase, the others kept.
LEMMA OnePhase ==
    ASSUME TypeOK, NEW d \in Docs, NEW s \in DocStatus,
           status' = [status EXCEPT ![d] = s]
    PROVE  Phases' = [Phases EXCEPT ![d] = PhaseOf(s)]
  BY DEF Phases, TypeOK, RowsType

\* Only InitiateUpload makes a document exist, and it has not expired then.
LEMMA LifecycleInvNext == LifecycleInv /\ [Next]_vars => LifecycleInv'
  <1> SUFFICES ASSUME LifecycleInv, [Next]_vars PROVE LifecycleInv'
    OBVIOUS
  <1> USE DEF docVars
  <1>0. TypeOK'
    BY TypeNext DEF LifecycleInv
  <1>t. /\ status \in [Docs -> DocStatus] /\ expired \in [Docs -> BOOLEAN]
        /\ \A w \in Workers : pc[w] # "idle" => doc[w] \in Docs
    BY Executing DEF LifecycleInv, TypeOK, RowsType
  <1>e. \A d \in Docs : expired[d] => status[d] # "absent"
    BY DEF LifecycleInv
  <1>1. ASSUME NEW d \in Docs, Request(d) \/ CompleteUpload(d)
        PROVE \A e \in Docs : expired'[e] => status'[e] # "absent"
    BY <1>1, <1>t, <1>e DEF Request, InitiateUpload, UploadSource, BeginComplete,
       DeleteDocument, Hide, Expire, CompleteUpload
  <1>2. CASE DeleteProject \/ \E S \in SUBSET Docs : ResetStale(S)
    BY <1>0, <1>2, <1>t, <1>e DEF DeleteProject, ResetStale, Hide, LifecycleInv
  <1>3. ASSUME NEW w \in Workers,
               \/ PollJob(w) \/ IngesterStep(w) \/ DatabaseFails(w)
               \/ PollCleanup(w) \/ CleanerStep(w) \/ StoreFails(w) \/ Crash(w)
        PROVE \A e \in Docs : expired'[e] => status'[e] # "absent"
    <2>1. expired' = expired
      BY <1>3 DEF PollJob, IngesterStep, DatabaseFails, ClaimJob, Extract,
         BeginIndexing, WriteRows, AddVectors, IndexingFails, Publish, Finish,
         FinishJob, RetryJob, Fail, FailJob, ListVectors, RemoveVectors, PurgeRows,
         PollCleanup, CleanerStep, ClaimCleanup, DeleteSource, FinishCleanup,
         CleanupFailed, StoreFails, Crash
    <2>2. \A e \in Docs : status'[e] = "absent" => status[e] = "absent"
      BY <1>3, <1>t DEF PollJob, IngesterStep, DatabaseFails, ClaimJob, Extract,
         BeginIndexing, WriteRows, AddVectors, IndexingFails, Publish, Finish,
         FinishJob, RetryJob, Fail, FailJob, ListVectors, RemoveVectors, PurgeRows,
         PollCleanup, CleanerStep, ClaimCleanup, DeleteSource, FinishCleanup,
         CleanupFailed, StoreFails, Crash, Hide
    <2> QED
      BY <1>e, <2>1, <2>2
  <1>4. CASE UNCHANGED vars
    BY <1>0, <1>4, <1>e DEF vars, LifecycleInv
  <1> QED
    BY <1>0, <1>1, <1>2, <1>3, <1>4 DEF Next, LifecycleInv, Workers

LEMMA LifecycleStep ==
    ASSUME LifecycleInv, [Next]_vars
    PROVE  [Lifecycle!Next]_Phases
  <1> USE DEF docVars
  <1>0. TypeOK /\ TypeOK'
    BY TypeNext DEF LifecycleInv
  <1>t. /\ status \in [Docs -> DocStatus] /\ state \in [Workers -> InFlight]
        /\ \A w \in Workers : pc[w] # "idle" => doc[w] \in Docs
    BY <1>0, Executing DEF TypeOK, RowsType, LocalsType
  <1>u. status' = status => UNCHANGED Phases
    BY DEF Phases
  <1>s. ASSUME NEW d \in Docs, NEW s \in DocStatus,
               status' = [status EXCEPT ![d] = s],
               \/ PhaseOf(s) = PhaseOf(status[d])
               \/ /\ PhaseOf(status[d]) = "processing"
                  /\ PhaseOf(s) \in {"ready", "failed"}
               \/ /\ PhaseOf(status[d]) \in {"none", "failed"}
                  /\ PhaseOf(s) = "processing"
        PROVE  [Lifecycle!Next]_Phases
    <2>1. Phases' = [Phases EXCEPT ![d] = PhaseOf(s)] /\ Phases[d] = PhaseOf(status[d])
      BY <1>0, <1>s, OnePhase DEF Phases
    <2>2. CASE PhaseOf(s) = PhaseOf(status[d])
      BY <2>1, <2>2 DEF Phases
    <2>3. CASE PhaseOf(s) # PhaseOf(status[d])
      <3>1. Lifecycle!Submit(d) \/ Lifecycle!Settle(d)
        BY <1>s, <2>1, <2>3 DEF Lifecycle!Submit, Lifecycle!Settle, Phases
      <3> QED
        BY <3>1 DEF Lifecycle!Next
    <2> QED
      BY <2>2, <2>3
  <1>h. ASSUME NEW S \in SUBSET Docs, Hide(S), \A d \in S : status[d] # "absent"
        PROVE  [Lifecycle!Next]_Phases
    BY <1>0, <1>h, Withdrawal DEF Lifecycle!Next
  <1>1. ASSUME NEW d \in Docs, Request(d) \/ CompleteUpload(d)
        PROVE [Lifecycle!Next]_Phases
    <2>1. CASE InitiateUpload(d)
      BY <1>s, <2>1, PhaseValues DEF InitiateUpload, DocStatus
    <2>2. CASE DeleteDocument(d)
      BY <1>h, <2>2 DEF DeleteDocument
    <2>3. CASE UploadSource(d) \/ BeginComplete(d) \/ Expire(d) \/ CompleteUpload(d)
      BY <1>u, <2>3 DEF UploadSource, BeginComplete, Expire, CompleteUpload
    <2> QED
      BY <1>1, <2>1, <2>2, <2>3 DEF Request
  <1>2. CASE DeleteProject
    BY <1>2, <1>h DEF DeleteProject
  <1>3. ASSUME NEW w \in Ingesters, PollJob(w) \/ IngesterStep(w) \/ DatabaseFails(w)
        PROVE [Lifecycle!Next]_Phases
    <2>1. w \in Workers /\ (pc[w] # "idle" => doc[w] \in Docs)
      BY <1>t DEF Workers
    <2>2. CASE status' = status
      BY <1>u, <2>2
    <2>3. CASE status' # status
      <3>1. ClaimJob(w) \/ BeginIndexing(w) \/ Publish(w) \/ RetryJob(w) \/ Fail(w)
        BY <1>3, <2>3 DEF PollJob, IngesterStep, DatabaseFails, Extract, WriteRows,
           AddVectors, IndexingFails, Finish, FailJob, FinishJob, ListVectors,
           RemoveVectors, PurgeRows
      <3>2. CASE ClaimJob(w) \/ BeginIndexing(w) \/ RetryJob(w)
        <4>1. /\ doc[w] \in Docs /\ status[doc[w]] \in {"received", "extracting", "indexing"}
              /\ \E s \in {"received", "extracting", "indexing"} :
                    status' = [status EXCEPT ![doc[w]] = s]
          BY <1>t, <2>1, <2>3, <3>2 DEF ClaimJob, BeginIndexing, RetryJob, Claimable, InFlight
        <4> QED
          BY <1>s, <4>1, PhaseValues DEF DocStatus, InFlight
      <3>3. CASE Publish(w) \/ Fail(w)
        <4>1. /\ doc[w] \in Docs /\ status[doc[w]] \in {"extracting", "indexing"}
              /\ \E s \in {"ready", "failed"} : status' = [status EXCEPT ![doc[w]] = s]
          BY <1>t, <2>1, <2>3, <3>3 DEF Publish, Fail, InFlight
        <4> QED
          BY <1>s, <4>1, PhaseValues DEF DocStatus
      <3> QED
        BY <3>1, <3>2, <3>3
    <2> QED
      BY <2>2, <2>3
  <1>4. ASSUME NEW w \in Cleaners, PollCleanup(w) \/ CleanerStep(w)
        PROVE [Lifecycle!Next]_Phases
    <2>1. w \in Workers /\ (pc[w] # "idle" => doc[w] \in Docs)
      BY <1>t DEF Workers
    <2>2. CASE PollCleanup(w)
      BY <1>h, <2>2 DEF PollCleanup, LifecycleInv
    <2>3. CASE FinishCleanup(w)
      BY <1>s, <1>u, <2>1, <2>3, PhaseValues DEF FinishCleanup, DocStatus, Hidden
    <2>4. CASE status' = status
      BY <1>u, <2>4
    <2> QED
      BY <1>4, <2>2, <2>3, <2>4 DEF CleanerStep, ClaimCleanup, ListVectors,
         RemoveVectors, PurgeRows, DeleteSource, CleanupFailed
  <1>5. ASSUME NEW w \in Workers, StoreFails(w) \/ Crash(w) PROVE UNCHANGED Phases
    BY <1>5, <1>u DEF StoreFails, Crash
  <1>6. ASSUME NEW S \in SUBSET Docs, ResetStale(S) PROVE UNCHANGED Phases
    <2>1. \A d \in Docs : PhaseOf(status'[d]) = PhaseOf(status[d])
      BY <1>6, <1>t, PhaseValues DEF ResetStale, Leased, InFlight
    <2> QED
      BY <1>0, <2>1, Stutter
  <1>7. CASE UNCHANGED vars
    BY <1>7, <1>u DEF vars
  <1> QED
    BY <1>1, <1>2, <1>3, <1>4, <1>5, <1>6, <1>7 DEF Next

\* The plane, with every overlap, crash and retry, implements the lifecycle
\* its users are promised.
THEOREM LifecycleCorrect == Spec => LifecycleRefined
  <1>1. Init => LifecycleInv
    BY TypeInit DEF Init, LifecycleInv
  <1>2. Init => Lifecycle!Init
    BY PhaseValues DEF Init, Lifecycle!Init
  <1>3. LifecycleInv /\ [Next]_vars => [Lifecycle!Next]_[d \in Docs |-> PhaseOf(status[d])]
    BY LifecycleStep DEF Phases
  <1> QED
    BY <1>1, <1>2, <1>3, LifecycleInvNext, PTL DEF Spec, LifecycleRefined, Lifecycle!Spec

----------------------------------------------------------------------------
(* SourceKept *)

Purging(w) == pc[w] \notin {"idle", "claim"}

\* A pending completion saw the source, and a cleaner past its claim works on
\* a document that stays hidden.
SourceInv ==
    /\ TypeOK
    /\ SourceKept
    /\ \A d \in completing : status[d] \notin Hidden => source[d]
    /\ \A w \in Cleaners : Purging(w) => status[doc[w]] \in Hidden

\* Jobs are only queued by completions, sources only deleted by cleaners, and
\* hidden documents stay hidden.
SourcesQuiet ==
    /\ \A d \in Docs : status[d] \in Hidden => status'[d] \in Hidden
    /\ \A d \in Docs : job'[d] # "absent" => job[d] # "absent"
    /\ source' = source
    /\ completing' \subseteq completing

LEMMA QuietSource ==
    ASSUME SourceInv, TypeOK', SourcesQuiet,
           \A w \in Cleaners : Purging(w)' => Purging(w) /\ doc'[w] = doc[w]
    PROVE  SourceInv'
  <1>1. \A w \in Cleaners : Purging(w) => doc[w] \in Docs
    BY Executing DEF SourceInv, TypeOK, Purging, Workers
  <1>2. completing \subseteq Docs
    BY DEF SourceInv, TypeOK, RowsType
  <1>3. SourceKept'
    BY DEF SourceInv, SourceKept, SourcesQuiet
  <1>4. \A d \in completing' : status'[d] \notin Hidden => source'[d]
    BY <1>2 DEF SourceInv, SourcesQuiet
  <1>5. \A w \in Cleaners : Purging(w)' => status'[doc'[w]] \in Hidden
    BY <1>1 DEF SourceInv, SourcesQuiet
  <1> QED
    BY <1>3, <1>4, <1>5 DEF SourceInv

LEMMA SourceNext == SourceInv /\ [Next]_vars => SourceInv'
  <1> SUFFICES ASSUME SourceInv, [Next]_vars PROVE SourceInv'
    OBVIOUS
  <1> USE DEF docVars, storeVars, apiVars, localVars
  <1>0. TypeOK'
    BY TypeNext DEF SourceInv
  <1>t. /\ status \in [Docs -> DocStatus] /\ state \in [Workers -> InFlight]
        /\ job \in [Docs -> JobStatus] /\ source \in [Docs -> BOOLEAN]
        /\ completing \subseteq Docs
        /\ pc \in [Workers -> IngesterPc \cup CleanerPc]
        /\ doc \in [Workers -> Docs \cup {None}]
        /\ resume \in [Workers -> {"idle", "retry", "storage"}]
        /\ Cleaners \subseteq Workers /\ Ingesters \subseteq Workers
        /\ Cleaners \cap Ingesters = {}
    BY ConstantsAssumption DEF SourceInv, TypeOK, RowsType, LocalsType, Workers
  <1>d. \A w \in Workers : pc[w] # "idle" => doc[w] \in Docs
    BY Executing DEF SourceInv, TypeOK
  <1>1. ASSUME NEW d \in Docs, Request(d) \/ CompleteUpload(d) PROVE SourceInv'
    <2>0. \A w \in Cleaners : Purging(w)' => Purging(w) /\ doc'[w] = doc[w]
      BY <1>1 DEF Request, InitiateUpload, UploadSource, BeginComplete,
         DeleteDocument, Expire, CompleteUpload, Purging
    <2>1. CASE InitiateUpload(d) \/ DeleteDocument(d) \/ Expire(d)
      <3>1. SourcesQuiet
        BY <1>t, <2>1 DEF InitiateUpload, DeleteDocument, Expire, Hide, Hidden, SourcesQuiet
      <3> QED
        BY <1>0, <2>0, <3>1, QuietSource
    <2>2. CASE UploadSource(d) \/ BeginComplete(d)
      <3>1. /\ status' = status /\ job' = job
            /\ \A e \in Docs : source[e] => source'[e]
            /\ \A e \in completing' : e \in completing \/ source'[e]
        BY <1>t, <2>2 DEF UploadSource, BeginComplete
      <3>2. pc' = pc /\ doc' = doc
        BY <2>2 DEF UploadSource, BeginComplete
      <3> QED
        BY <1>0, <1>t, <3>1, <3>2 DEF SourceInv, SourceKept, Purging
    <2>3. CASE CompleteUpload(d)
      <3>1. /\ status' = status /\ source' = source /\ d \in completing
            /\ \A e \in Docs \ {d} : job'[e] = job[e]
            /\ completing' \subseteq completing /\ pc' = pc /\ doc' = doc
        BY <1>t, <2>3 DEF CompleteUpload
      <3> QED
        BY <1>0, <1>t, <3>1 DEF SourceInv, SourceKept, Purging
    <2> QED
      BY <1>1, <2>1, <2>2, <2>3 DEF Request
  <1>2. CASE DeleteProject \/ \E S \in SUBSET Docs : ResetStale(S)
    <2>1. SourcesQuiet
      BY <1>t, <1>2 DEF DeleteProject, ResetStale, Hide, Leased, InFlight, Hidden, SourcesQuiet
    <2>2. pc' = pc /\ doc' = doc
      BY <1>2 DEF DeleteProject, ResetStale
    <2> QED
      BY <1>0, <2>1, <2>2, QuietSource DEF Purging
  <1>3. ASSUME NEW w \in Ingesters, PollJob(w) \/ IngesterStep(w) \/ DatabaseFails(w)
        PROVE SourceInv'
    <2>1. \A v \in Cleaners : pc'[v] = pc[v] /\ doc'[v] = doc[v]
      BY <1>3, <1>t DEF PollJob, IngesterStep, DatabaseFails, ClaimJob, Extract,
         BeginIndexing, WriteRows, AddVectors, IndexingFails, Publish, Finish,
         FinishJob, RetryJob, Fail, FailJob, ListVectors, RemoveVectors, PurgeRows,
         Dispatch, Goto, Return, StartPurge
    <2>2. source' = source /\ completing' = completing
      BY <1>3 DEF PollJob, IngesterStep, DatabaseFails, ClaimJob, Extract,
         BeginIndexing, WriteRows, AddVectors, IndexingFails, Publish, Finish,
         FinishJob, RetryJob, Fail, FailJob, ListVectors, RemoveVectors, PurgeRows
    <2>3. \A d \in Docs : status[d] \in Hidden => status'[d] \in Hidden
      BY <1>3, <1>t, <1>d DEF PollJob, IngesterStep, DatabaseFails, ClaimJob,
         Claimable, Extract, BeginIndexing, WriteRows, AddVectors, IndexingFails,
         Publish, Finish, FinishJob, RetryJob, Fail, FailJob, ListVectors,
         RemoveVectors, PurgeRows, Hidden, InFlight
    <2>4. \A d \in Docs : job'[d] # "absent" => job[d] # "absent"
      BY <1>3, <1>t, <1>d DEF PollJob, IngesterStep, DatabaseFails, ClaimJob,
         Claimable, Extract, BeginIndexing, WriteRows, AddVectors, IndexingFails,
         Publish, Finish, FinishJob, RetryJob, Fail, FailJob, ListVectors,
         RemoveVectors, PurgeRows
    <2>5. SourcesQuiet
      BY <2>2, <2>3, <2>4 DEF SourcesQuiet
    <2> QED
      BY <1>0, <2>1, <2>5, QuietSource DEF Purging
  <1>4. ASSUME NEW w \in Workers,
               \/ w \in Cleaners /\ (PollCleanup(w) \/ CleanerStep(w))
               \/ StoreFails(w) \/ Crash(w)
        PROVE SourceInv'
    <2>1. \A v \in Cleaners \ {w} : pc'[v] = pc[v] /\ doc'[v] = doc[v]
      BY <1>4, <1>t DEF PollCleanup, CleanerStep, ClaimCleanup, ListVectors,
         RemoveVectors, PurgeRows, DeleteSource, FinishCleanup, CleanupFailed,
         StoreFails, Crash, Dispatch, Goto, Return, StartPurge
    <2>2. /\ job' = job /\ completing' = completing
          /\ \A d \in Docs : status[d] \in Hidden => status'[d] \in Hidden
      BY <1>4, <1>t DEF PollCleanup, CleanerStep, ClaimCleanup, ListVectors,
         RemoveVectors, PurgeRows, DeleteSource, FinishCleanup, CleanupFailed,
         StoreFails, Crash, Hide, Hidden
    <2>3. CASE w \in Cleaners /\ ClaimCleanup(w) /\ status[doc[w]] = "deleting"
      <3>1. status' = status /\ source' = source /\ doc[w] \in Docs
        BY <1>d, <1>t, <2>3 DEF ClaimCleanup
      <3>2. Purging(w)' => doc'[w] = doc[w]
        BY <1>t, <2>3 DEF ClaimCleanup, StartPurge, Return, Purging
      <3> QED
        BY <1>0, <2>1, <2>2, <2>3, <3>1, <3>2
        DEF SourceInv, SourceKept, Purging, Hidden
    <2>4. CASE w \in Cleaners /\ DeleteSource(w)
      <3>1. /\ status' = status /\ doc' = doc /\ doc[w] \in Docs
            /\ source' = [source EXCEPT ![doc[w]] = FALSE]
        BY <1>d, <1>t, <2>4 DEF DeleteSource, Goto
      <3>2. status[doc[w]] \in Hidden /\ Purging(w)
        BY <2>4 DEF SourceInv, DeleteSource, Purging
      <3> QED
        BY <1>0, <1>t, <2>1, <2>2, <3>1, <3>2 DEF SourceInv, SourceKept, Purging
    <2>5. CASE ~(w \in Cleaners /\ ClaimCleanup(w) /\ status[doc[w]] = "deleting")
               /\ ~(w \in Cleaners /\ DeleteSource(w))
      <3>1. source' = source
        BY <1>4, <2>5 DEF PollCleanup, CleanerStep, ClaimCleanup, ListVectors,
           RemoveVectors, PurgeRows, FinishCleanup, CleanupFailed, StoreFails, Crash
      <3>2. Purging(w)' => Purging(w) /\ doc'[w] = doc[w]
        BY <1>4, <1>t, <2>5 DEF PollCleanup, CleanerStep, ClaimCleanup,
           ListVectors, RemoveVectors, PurgeRows, FinishCleanup, CleanupFailed,
           StoreFails, Crash, Dispatch, Goto, Return, Purging
      <3>3. SourcesQuiet
        BY <2>2, <3>1 DEF SourcesQuiet
      <3>4. \A v \in Cleaners : Purging(v)' => Purging(v) /\ doc'[v] = doc[v]
        BY <2>1, <3>2 DEF Purging
      <3> QED
        BY <1>0, <3>3, <3>4, QuietSource
    <2> QED
      BY <2>3, <2>4, <2>5
  <1>5. CASE UNCHANGED vars
    BY <1>0, <1>5, QuietSource DEF vars, SourcesQuiet, Purging
  <1> QED
    BY <1>1, <1>2, <1>3, <1>4, <1>5 DEF Next, Workers

\* No request, cleanup or crash takes the source of a document that may still
\* be ingested.
THEOREM SourceCorrect == Spec => []SourceKept
  <1>1. Init => SourceInv
    BY TypeInit DEF Init, SourceInv, SourceKept, Purging, Workers
  <1>2. SourceInv => SourceKept
    BY DEF SourceInv
  <1> QED
    BY <1>1, <1>2, SourceNext, PTL DEF Spec

\* An execution that has claimed its document, and one that strips it.
Executes(w) == pc[w] \notin {"idle", "claim"}
Strips == {"list", "remove", "purge"}

\* What an execution may rely on, unless its document is hidden.
Standing(w) ==
    LET d == doc[w] IN
    \/ status[d] \in Hidden
    \/ /\ job[d] = "extracting"
       /\ pc[w] \notin Strips
       /\ pc[w] \in {"download", "begin"} => status[d] = "extracting" /\ state[w] = "extracting"
       /\ pc[w] \in {"rows", "embed", "publish"} => status[d] = "indexing" /\ state[w] = "indexing"
       /\ pc[w] \in {"retry", "fail"} => status[d] = state[w]
       /\ pc[w] = "finish" => status[d] = "ready"
       /\ pc[w] = "fail_job" => status[d] \in {"failed", "received"}
       /\ pc[w] = "embed" => ids[w] = {row[d]}
       /\ pc[w] = "publish" => row[d] \in index[d]

PlacedAt(w) ==
    /\ resume[w] = "idle"
    /\ IF Executes(w) THEN Standing(w) ELSE state[w] = "extracting"
Placed == \A w \in Ingesters : PlacedAt(w)

\* A document that is not hidden has one execution.
OneExecution ==
    \A v, w \in Ingesters :
        v # w /\ Executes(v) /\ Executes(w) /\ doc[v] = doc[w] => status[doc[w]] \in Hidden

RetrievalInv == SourceInv /\ Placed /\ OneExecution /\ ReadyRetrievable

HiddenStays == \A d \in Docs : status[d] \in Hidden => status'[d] \in Hidden
Untouched(d) ==
    status'[d] = status[d] /\ job'[d] = job[d] /\ row'[d] = row[d] /\ index'[d] = index[d]
SameLocals(w) ==
    /\ pc'[w] = pc[w] /\ doc'[w] = doc[w] /\ state'[w] = state[w]
    /\ ids'[w] = ids[w] /\ resume'[w] = resume[w]
Unclaimed(d) == \A w \in Ingesters : Executes(w) => doc[w] # d

\* A step no execution takes for its document: the document is hidden, submitted
\* again, queued or left alone, and no execution starts.
LEMMA QuietRetrieval ==
    ASSUME RetrievalInv, SourceInv', HiddenStays,
           \A d \in Docs :
               \/ status'[d] \in Hidden
               \/ /\ row'[d] = row[d] /\ index'[d] = index[d]
                  /\ \/ status'[d] = status[d]
                     \/ status[d] \in {"absent", "failed"} /\ status'[d] = "received"
                     \/ Unclaimed(d) /\ status'[d] # "ready"
                  /\ job'[d] = job[d] \/ job[d] # "extracting" \/ Unclaimed(d),
           \A w \in Ingesters : \/ SameLocals(w)
                                \/ ~Executes(w)' /\ PlacedAt(w)'
    PROVE  RetrievalInv'
  <1>t. /\ \A w \in Ingesters : w \in Workers /\ pc[w] \in IngesterPc /\ state[w] \in InFlight
        /\ \A w \in Ingesters : Executes(w) => doc[w] \in Docs
    BY Executing DEF RetrievalInv, SourceInv, TypeOK, LocalsType, Workers, Executes
  <1>1. ReadyRetrievable'
    BY DEF RetrievalInv, ReadyRetrievable, Hidden
  <1>2. OneExecution'
    BY <1>t DEF RetrievalInv, OneExecution, Executes, SameLocals, HiddenStays
  <1>3. ASSUME NEW w \in Ingesters PROVE PlacedAt(w)'
    <2>1. CASE ~SameLocals(w)
      BY <1>3, <2>1
    <2>2. CASE SameLocals(w) /\ Executes(w)
      <3> DEFINE d == doc[w]
      <3>1. d \in Docs /\ pc[w] \in IngesterPc /\ state[w] \in InFlight /\ ~Unclaimed(d)
        BY <1>t, <1>3, <2>2 DEF Unclaimed
      <3>2. Standing(w) /\ resume[w] = "idle"
        BY <1>3, <2>2 DEF RetrievalInv, Placed, PlacedAt
      <3>3. CASE status'[d] \in Hidden
        BY <2>2, <3>2, <3>3 DEF SameLocals, PlacedAt, Executes, Standing
      <3>4. CASE status'[d] \notin Hidden
        <4>1. /\ row'[d] = row[d] /\ index'[d] = index[d] /\ status[d] \notin Hidden
              /\ \/ status'[d] = status[d]
                 \/ status[d] \in {"absent", "failed"} /\ status'[d] = "received"
              /\ job'[d] = job[d]
          BY <3>1, <3>2, <3>4 DEF HiddenStays, Standing
        <4>2. status'[d] = status[d] \/ pc[w] = "fail_job"
          BY <2>2, <3>1, <3>2, <4>1 DEF Standing, IngesterPc, InFlight, Executes, Strips
        <4> QED
          BY <2>2, <3>2, <4>1, <4>2 DEF Standing, SameLocals, PlacedAt, Executes
      <3> QED
        BY <3>3, <3>4
    <2>3. CASE SameLocals(w) /\ ~Executes(w)
      BY <1>3, <2>3 DEF RetrievalInv, Placed, PlacedAt, SameLocals, Executes
    <2> QED
      BY <2>1, <2>2, <2>3
  <1> QED
    BY <1>1, <1>2, <1>3 DEF RetrievalInv, Placed, PlacedAt

\* A step of an execution that its document's other executions do not notice.
LEMMA OwnRetrieval ==
    ASSUME RetrievalInv, SourceInv', HiddenStays, NEW w \in Ingesters, doc[w] \in Docs,
           \A v \in Ingesters \ {w} : SameLocals(v),
           \A d \in Docs \ {doc[w]} : Untouched(d),
           \A v \in Ingesters \ {w} :
               Executes(v) /\ doc[v] = doc[w] => status[doc[w]] \in Hidden,
           PlacedAt(w)', Executes(w)' => doc'[w] = doc[w],
           status'[doc[w]] = "ready" => row'[doc[w]] \in index'[doc[w]]
    PROVE  RetrievalInv'
  <1>t. \A v \in Ingesters : v \in Workers /\ (Executes(v) => doc[v] \in Docs)
    BY Executing DEF RetrievalInv, SourceInv, TypeOK, LocalsType, Workers, Executes
  <1>1. ReadyRetrievable'
    BY DEF RetrievalInv, ReadyRetrievable, Untouched
  <1>2. OneExecution'
    BY <1>t DEF RetrievalInv, OneExecution, Executes, SameLocals, HiddenStays
  <1>3. ASSUME NEW v \in Ingesters PROVE PlacedAt(v)'
    <2>1. CASE v = w
      BY <2>1
    <2>2. CASE v # w /\ Executes(v)
      <3>1. SameLocals(v) /\ resume[v] = "idle" /\ Standing(v) /\ doc[v] \in Docs
        BY <1>t, <1>3, <2>2 DEF RetrievalInv, Placed, PlacedAt
      <3>2. CASE doc[v] = doc[w]
        BY <2>2, <3>1, <3>2 DEF SameLocals, PlacedAt, Executes, Standing, HiddenStays
      <3>3. CASE doc[v] # doc[w]
        <4>1. Untouched(doc[v])
          BY <3>1, <3>3
        <4>2. Standing(v)'
          BY <3>1, <4>1 DEF SameLocals, Standing, Untouched
        <4> QED
          BY <2>2, <3>1, <4>2 DEF SameLocals, PlacedAt, Executes
      <3> QED
        BY <3>2, <3>3
    <2>3. CASE v # w /\ ~Executes(v)
      BY <1>3, <2>3 DEF RetrievalInv, Placed, PlacedAt, SameLocals, Executes
    <2> QED
      BY <2>1, <2>2, <2>3
  <1> QED
    BY <1>1, <1>2, <1>3 DEF RetrievalInv, Placed, PlacedAt

\* Hidden documents stay hidden.
LEMMA HiddenNext ==
    ASSUME TypeOK, Next
    PROVE  HiddenStays
  <1>t. /\ status \in [Docs -> DocStatus] /\ state \in [Workers -> InFlight]
        /\ \A w \in Workers : pc[w] # "idle" => doc[w] \in Docs
    BY Executing DEF TypeOK, RowsType, LocalsType
  <1>1. ASSUME NEW d \in Docs, Request(d) \/ CompleteUpload(d) PROVE HiddenStays
    BY <1>1, <1>t DEF Request, InitiateUpload, UploadSource, BeginComplete, CompleteUpload,
       DeleteDocument, Hide, Expire, Hidden, HiddenStays, docVars
  <1>2. CASE DeleteProject
    BY <1>2, <1>t DEF DeleteProject, Hide, Hidden, HiddenStays
  <1>3. ASSUME NEW w \in Ingesters, PollJob(w) \/ IngesterStep(w) \/ DatabaseFails(w)
        PROVE HiddenStays
    BY <1>3, <1>t DEF HiddenStays, PollJob, IngesterStep, DatabaseFails, ClaimJob, Claimable,
       Extract, BeginIndexing, WriteRows, AddVectors, IndexingFails, Publish, Finish,
       FinishJob, RetryJob, Fail, FailJob, ListVectors, RemoveVectors, PurgeRows, Hidden,
       InFlight, Workers, docVars
  <1>4. ASSUME NEW w \in Cleaners, PollCleanup(w) \/ CleanerStep(w) PROVE HiddenStays
    BY <1>4, <1>t DEF HiddenStays, PollCleanup, CleanerStep, ClaimCleanup, ListVectors,
       RemoveVectors, PurgeRows, DeleteSource, FinishCleanup, CleanupFailed, Hide, Hidden,
       Workers, docVars
  <1>5. ASSUME NEW w \in Workers, StoreFails(w) \/ Crash(w) PROVE HiddenStays
    BY <1>5 DEF StoreFails, Crash, HiddenStays, docVars
  <1>6. ASSUME NEW S \in SUBSET Docs, ResetStale(S) PROVE HiddenStays
    BY <1>6, <1>t DEF ResetStale, Leased, InFlight, Hidden, HiddenStays
  <1> QED
    BY <1>1, <1>2, <1>3, <1>4, <1>5, <1>6 DEF Next

\* Every step of an execution, from its claim to its return.
LEMMA IngesterRetrieval ==
    ASSUME RetrievalInv, SourceInv', HiddenStays, NEW w \in Ingesters, IngesterStep(w)
    PROVE  RetrievalInv'
  <1> DEFINE d == doc[w]
  <1> USE DEF docVars, storeVars
  <1>t. /\ status \in [Docs -> DocStatus] /\ job \in [Docs -> JobStatus]
        /\ row \in [Docs -> VectorIds \cup {None}] /\ index \in [Docs -> SUBSET VectorIds]
        /\ pc \in [Workers -> IngesterPc \cup CleanerPc]
        /\ doc \in [Workers -> Docs \cup {None}] /\ state \in [Workers -> InFlight]
        /\ ids \in [Workers -> SUBSET VectorIds]
        /\ resume \in [Workers -> {"idle", "retry", "storage"}]
        /\ \A v \in Ingesters : v \in Workers
    BY DEF RetrievalInv, SourceInv, TypeOK, RowsType, LocalsType, Workers
  <1>p. w \in Workers /\ pc[w] # "idle" /\ d \in Docs /\ state[w] \in InFlight
    <2>1. pc[w] # "idle"
      BY <1>t DEF IngesterStep, ClaimJob, Extract, BeginIndexing, WriteRows, AddVectors,
         IndexingFails, Publish, Finish, RetryJob, Fail, FailJob, ListVectors,
         RemoveVectors, PurgeRows
    <2> QED
      BY <1>t, <2>1, Executing DEF RetrievalInv, SourceInv, TypeOK
  <1>r. PlacedAt(w)
    BY DEF RetrievalInv, Placed
  <1>o. Executes(w) => \A v \in Ingesters \ {w} :
              Executes(v) /\ doc[v] = d => status[d] \in Hidden
    BY DEF RetrievalInv, OneExecution
  <1>y. status[d] = "ready" => row[d] \in index[d]
    BY <1>p DEF RetrievalInv, ReadyRetrievable
  <1>1. CASE ClaimJob(w)
    <2>1. CASE Claimable(d)
      <3>1. /\ \A v \in Ingesters \ {w} : SameLocals(v)
            /\ \A e \in Docs \ {d} : Untouched(e)
            /\ PlacedAt(w)' /\ doc'[w] = d /\ status'[d] = "extracting"
        BY <1>1, <1>t, <1>p, <1>r, <2>1
           DEF ClaimJob, Goto, SameLocals, Untouched, PlacedAt, Executes, Standing, Strips
      <3>2. \A v \in Ingesters \ {w} : Executes(v) /\ doc[v] = d => status[d] \in Hidden
        BY <2>1 DEF Claimable, RetrievalInv, Placed, PlacedAt, Standing
      <3> QED
        BY <1>p, <3>1, <3>2, OwnRetrieval
    <2>2. CASE ~Claimable(d)
      <3>1. /\ \A v \in Ingesters : SameLocals(v) \/ (~Executes(v)' /\ PlacedAt(v)')
            /\ UNCHANGED <<status, job, row, index>>
        BY <1>1, <1>t, <1>p, <2>2 DEF ClaimJob, Return, SameLocals, Executes, PlacedAt
      <3> QED
        BY <3>1, QuietRetrieval
    <2> QED
      BY <2>1, <2>2
  <1>2. ASSUME Executes(w), \A v \in Ingesters \ {w} : SameLocals(v),
               \A e \in Docs \ {d} : Untouched(e),
               PlacedAt(w)', Executes(w)' => doc'[w] = d,
               status'[d] = "ready" => row'[d] \in index'[d]
        PROVE  RetrievalInv'
    BY <1>p, <1>o, <1>2, OwnRetrieval
  <1>3. CASE Extract(w)
    BY <1>2, <1>3, <1>t, <1>p, <1>r, <1>y
       DEF Extract, Goto, SameLocals, Untouched, PlacedAt, Executes, Standing, Strips
  <1>4. CASE BeginIndexing(w)
    <2>1. /\ \A v \in Ingesters \ {w} : SameLocals(v)
          /\ \A e \in Docs \ {d} : Untouched(e)
          /\ Executes(w)' => doc'[w] = d
      BY <1>4, <1>t, <1>p DEF BeginIndexing, Goto, Return, SameLocals, Untouched, Executes
    <2>2. Executes(w) /\ Standing(w) /\ resume[w] = "idle"
      BY <1>4, <1>r DEF BeginIndexing, Goto, Return, Executes, PlacedAt
    <2>3. CASE status[d] = "extracting"
      <3>1. /\ status'[d] = "indexing" /\ state'[w] = "indexing" /\ pc'[w] = "rows"
            /\ UNCHANGED <<job, row, index, doc, ids, resume>>
        BY <1>4, <1>t, <1>p, <2>3 DEF BeginIndexing, Goto, Return
      <3>2. Standing(w)' /\ Executes(w)' /\ (status'[d] = "ready" => row'[d] \in index'[d])
        BY <1>4, <2>2, <2>3, <3>1 DEF BeginIndexing, Standing, Strips, Executes, Hidden, InFlight
      <3> QED
        BY <1>2, <2>1, <2>2, <3>1, <3>2 DEF PlacedAt
    <2>4. CASE ~(status[d] = "extracting")
      <3>1. /\ pc'[w] = "idle" /\ state'[w] = "extracting" /\ resume'[w] = "idle"
            /\ UNCHANGED <<status, row, index>>
        BY <1>4, <1>t, <1>p, <2>4 DEF BeginIndexing, Goto, Return
      <3> QED
        BY <1>2, <1>y, <2>1, <2>2, <3>1 DEF PlacedAt, Executes
    <2> QED
      BY <2>3, <2>4
  <1>5. CASE WriteRows(w)
    BY <1>2, <1>5, <1>t, <1>p, <1>r, <1>y
       DEF WriteRows, SameLocals, Untouched, PlacedAt, Executes, Standing, Strips, Hidden
  <1>6. CASE AddVectors(w)
    BY <1>2, <1>6, <1>t, <1>p, <1>r, <1>y
       DEF AddVectors, Goto, SameLocals, Untouched, PlacedAt, Executes, Standing, Strips
  <1>7. CASE IndexingFails(w)
    BY <1>2, <1>7, <1>t, <1>p, <1>r, <1>y
       DEF IndexingFails, Goto, SameLocals, Untouched, PlacedAt, Executes, Standing, Strips
  <1>8. CASE Publish(w)
    <2>1. /\ \A v \in Ingesters \ {w} : SameLocals(v)
          /\ \A e \in Docs \ {d} : Untouched(e)
          /\ Executes(w)' => doc'[w] = d
      BY <1>8, <1>t, <1>p DEF Publish, Goto, StartPurge, SameLocals, Untouched, Executes
    <2>2. Executes(w) /\ Standing(w) /\ resume[w] = "idle"
      BY <1>8, <1>r DEF Publish, Goto, StartPurge, Executes, PlacedAt
    <2>3. CASE status[d] = "indexing"
      <3>1. /\ status'[d] = "ready" /\ pc'[w] = "finish" /\ pc[w] = "publish"
            /\ UNCHANGED <<job, row, index, doc, state, ids, resume>>
        BY <1>8, <1>t, <1>p, <2>3 DEF Publish, Goto, StartPurge
      <3>2. Standing(w)' /\ Executes(w)' /\ (status'[d] = "ready" => row'[d] \in index'[d])
        BY <1>8, <2>2, <2>3, <3>1 DEF Publish, Standing, Strips, Executes, Hidden, InFlight
      <3> QED
        BY <1>2, <2>1, <2>2, <3>1, <3>2 DEF PlacedAt
    <2>4. CASE ~(status[d] = "indexing")
      <3>1. /\ pc'[w] = "list" /\ resume'[w] = "idle" /\ pc[w] = "publish"
            /\ UNCHANGED <<status, row, index, doc>>
        BY <1>8, <1>t, <1>p, <2>4 DEF Publish, Goto, StartPurge
      <3> QED
        BY <1>2, <1>y, <2>1, <2>2, <2>4, <3>1 DEF PlacedAt, Executes, Standing
    <2> QED
      BY <2>3, <2>4
  <1>9. CASE Finish(w) \/ FailJob(w)
    BY <1>2, <1>9, <1>t, <1>p, <1>r, <1>y
       DEF Finish, FailJob, FinishJob, Return, SameLocals, Untouched, PlacedAt, Executes
  <1>10. CASE RetryJob(w)
    BY <1>2, <1>10, <1>t, <1>p, <1>r, <1>y
       DEF RetryJob, Goto, Return, SameLocals, Untouched, PlacedAt, Executes, Standing, Strips
  <1>11. CASE Fail(w)
    <2>1. /\ \A v \in Ingesters \ {w} : SameLocals(v)
          /\ \A e \in Docs \ {d} : Untouched(e)
          /\ Executes(w)' => doc'[w] = d
      BY <1>11, <1>t, <1>p DEF Fail, Goto, Return, SameLocals, Untouched, Executes
    <2>2. Executes(w) /\ Standing(w) /\ resume[w] = "idle"
      BY <1>11, <1>r DEF Fail, Goto, Return, Executes, PlacedAt
    <2>3. CASE status[d] = state[w]
      <3>1. /\ status'[d] = "failed" /\ pc'[w] = "fail_job"
            /\ UNCHANGED <<job, row, index, doc, state, ids, resume>>
        BY <1>11, <1>t, <1>p, <2>3 DEF Fail, Goto, Return
      <3>2. Standing(w)' /\ Executes(w)' /\ (status'[d] = "ready" => row'[d] \in index'[d])
        BY <1>11, <1>p, <2>2, <2>3, <3>1 DEF Fail, Standing, Strips, Executes, Hidden, InFlight
      <3> QED
        BY <1>2, <2>1, <2>2, <3>1, <3>2 DEF PlacedAt
    <2>4. CASE ~(status[d] = state[w])
      <3>1. /\ pc'[w] = "idle" /\ state'[w] = "extracting" /\ resume'[w] = "idle"
            /\ UNCHANGED <<status, row, index>>
        BY <1>11, <1>t, <1>p, <2>4 DEF Fail, Goto, Return
      <3> QED
        BY <1>2, <1>y, <2>1, <2>2, <3>1 DEF PlacedAt, Executes
    <2> QED
      BY <2>3, <2>4
  <1>12. CASE ListVectors(w) \/ RemoveVectors(w) \/ PurgeRows(w)
    <2>1. status[d] \in Hidden
      BY <1>12, <1>r DEF ListVectors, RemoveVectors, PurgeRows, PlacedAt, Executes, Standing,
         Strips
    <2>2. status'[d] \in Hidden /\ status'[d] # "ready"
      BY <1>p, <2>1 DEF HiddenStays, Hidden
    <2> QED
      BY <1>2, <1>12, <1>t, <1>p, <1>r, <2>2
         DEF ListVectors, RemoveVectors, PurgeRows, Goto, Return, SameLocals, Untouched,
             PlacedAt, Executes, Standing
  <1> QED
    BY <1>1, <1>3, <1>4, <1>5, <1>6, <1>7, <1>8, <1>9, <1>10, <1>11, <1>12 DEF IngesterStep

\* Without those two faults only a hidden document is stripped.
LEMMA RetrievalNext ==
    ASSUME Faults \cap {"slow", "database"} = {}, RetrievalInv, [Next]_vars
    PROVE  RetrievalInv'
  <1>s. SourceInv'
    BY SourceNext DEF RetrievalInv
  <1>h. CASE Next
    <2>h. HiddenStays
      BY <1>h, HiddenNext DEF RetrievalInv, SourceInv
    <2> USE DEF docVars, storeVars, localVars
    <2>t. /\ status \in [Docs -> DocStatus] /\ job \in [Docs -> JobStatus]
          /\ row \in [Docs -> VectorIds \cup {None}] /\ index \in [Docs -> SUBSET VectorIds]
          /\ pc \in [Workers -> IngesterPc \cup CleanerPc]
          /\ doc \in [Workers -> Docs \cup {None}] /\ state \in [Workers -> InFlight]
          /\ ids \in [Workers -> SUBSET VectorIds]
          /\ resume \in [Workers -> {"idle", "retry", "storage"}]
          /\ \A v \in Ingesters : v \in Workers /\ v \notin Cleaners
          /\ \A v \in Workers : pc[v] # "idle" => doc[v] \in Docs
      BY Executing, ConstantsAssumption
         DEF RetrievalInv, SourceInv, TypeOK, RowsType, LocalsType, Workers
    <2>p. \A v \in Ingesters : PlacedAt(v)
      BY DEF RetrievalInv, Placed
    <2>q. ASSUME \A d \in Docs :
                   \/ status'[d] \in Hidden
                   \/ /\ row'[d] = row[d] /\ index'[d] = index[d]
                      /\ \/ status'[d] = status[d]
                         \/ status[d] \in {"absent", "failed"} /\ status'[d] = "received"
                      /\ job'[d] = job[d] \/ job[d] # "extracting",
                 \A v \in Ingesters : SameLocals(v) \/ (~Executes(v)' /\ PlacedAt(v)')
          PROVE  RetrievalInv'
      BY <1>s, <2>h, <2>q, QuietRetrieval
    <2>1. ASSUME NEW d \in Docs, Request(d) \/ CompleteUpload(d) PROVE RetrievalInv'
      BY <2>1, <2>q, <2>t DEF Request, InitiateUpload, UploadSource, BeginComplete,
         CompleteUpload, DeleteDocument, Hide, Expire, Hidden, SameLocals
    <2>2. CASE DeleteProject
      BY <2>2, <2>q, <2>t DEF DeleteProject, Hide, Hidden, SameLocals
    <2>3. ASSUME NEW w \in Ingesters, PollJob(w) PROVE RetrievalInv'
      BY <2>3, <2>q, <2>t, <2>p DEF PollJob, Dispatch, SameLocals, Executes, PlacedAt
    <2>4. ASSUME NEW w \in Ingesters, IngesterStep(w) PROVE RetrievalInv'
      BY <1>s, <2>h, <2>4, IngesterRetrieval
    <2>5. ASSUME NEW w \in Ingesters, DatabaseFails(w) PROVE RetrievalInv'
      BY <2>5 DEF DatabaseFails, Fault
    <2>6. ASSUME NEW w \in Cleaners, PollCleanup(w) PROVE RetrievalInv'
      <3>1. \A v \in Ingesters : SameLocals(v)
        BY <2>6, <2>t DEF PollCleanup, Dispatch, SameLocals
      <3> QED
        BY <2>6, <2>q, <2>t, <3>1 DEF PollCleanup, Hide, Hidden
    <2>7. ASSUME NEW w \in Cleaners, CleanerStep(w) PROVE RetrievalInv'
      <3>1. \A v \in Ingesters : SameLocals(v)
        BY <2>7, <2>t DEF CleanerStep, ClaimCleanup, ListVectors, RemoveVectors, PurgeRows,
           DeleteSource, FinishCleanup, CleanupFailed, StartPurge, Goto, Return, SameLocals
      <3>2. CASE ClaimCleanup(w) \/ ListVectors(w) \/ DeleteSource(w) \/ CleanupFailed(w)
        BY <2>q, <3>1, <3>2 DEF ClaimCleanup, ListVectors, DeleteSource, CleanupFailed
      <3>3. CASE RemoveVectors(w) \/ PurgeRows(w) \/ FinishCleanup(w)
        <4>1. pc[w] \notin {"idle", "claim"} /\ w \in Workers
          BY <3>3 DEF RemoveVectors, PurgeRows, FinishCleanup, Workers
        <4>2. doc[w] \in Docs /\ status[doc[w]] \in Hidden
          BY <2>t, <2>7, <4>1 DEF RetrievalInv, SourceInv, Purging
        <4>3. \A d \in Docs \ {doc[w]} : Untouched(d)
          BY <2>t, <3>3 DEF RemoveVectors, PurgeRows, FinishCleanup, Untouched
        <4> QED
          BY <2>q, <2>h, <3>1, <4>2, <4>3 DEF HiddenStays, Untouched
      <3> QED
        BY <2>7, <3>2, <3>3 DEF CleanerStep
    <2>8. ASSUME NEW w \in Workers, StoreFails(w) \/ Crash(w) PROVE RetrievalInv'
      <3>1. \A v \in Ingesters : SameLocals(v) \/ (~Executes(v)' /\ PlacedAt(v)')
        BY <2>8, <2>t, <2>p DEF StoreFails, Crash, Goto, Return, SameLocals, Executes, PlacedAt
      <3> QED
        BY <2>8, <2>q, <3>1 DEF StoreFails, Crash
    <2>9. ASSUME NEW S \in SUBSET Docs, ResetStale(S) PROVE RetrievalInv'
      <3>1. \A d \in S : Unclaimed(d)
        BY <2>9, <2>t DEF ResetStale, Holds, Fault, Unclaimed, Executes
      <3>2. \A v \in Ingesters : SameLocals(v)
        BY <2>9 DEF ResetStale, SameLocals
      <3>3. \A d \in Docs : /\ row'[d] = row[d] /\ index'[d] = index[d]
                            /\ d \notin S => status'[d] = status[d] /\ job'[d] = job[d]
                            /\ d \in S => status'[d] = "received"
        BY <2>9 DEF ResetStale
      <3> QED
        BY <1>s, <2>h, <3>1, <3>2, <3>3, QuietRetrieval
    <2> QED
      BY <1>h, <2>1, <2>2, <2>3, <2>4, <2>5, <2>6, <2>7, <2>8, <2>9 DEF Next
  <1>u. CASE UNCHANGED vars
    <2>1. /\ \A d \in Docs : Untouched(d)
          /\ \A v \in Ingesters : SameLocals(v)
          /\ HiddenStays
      BY <1>u DEF vars, docVars, storeVars, localVars, Untouched, SameLocals, HiddenStays
    <2> QED
      BY <1>s, <2>1, QuietRetrieval DEF Untouched
  <1> QED
    BY <1>h, <1>u

\* The invariant where no lease expires under a live worker and finish_job
\* does not fail.
PromptInv == RetrievalInv /\ Faults \cap {"slow", "database"} = {}

\* While no lease expires under a live worker and no repository call fails, a
\* ready document keeps its row and its vector, whatever crashes, retries,
\* deletions and failing stores there are.
THEOREM RetrievableCorrect ==
    Faults \cap {"slow", "database"} = {} => (Spec => []ReadyRetrievable)
  <1>1. Faults \cap {"slow", "database"} = {} /\ Init => PromptInv
    <2>1. Init => SourceInv
      BY TypeInit DEF Init, SourceInv, SourceKept, Purging, Workers
    <2>2. Init => Placed /\ OneExecution /\ ReadyRetrievable
      BY DEF Init, Placed, PlacedAt, OneExecution, ReadyRetrievable, Executes, Workers
    <2> QED
      BY <2>1, <2>2 DEF PromptInv, RetrievalInv
  <1>2. PromptInv /\ [Next]_vars => PromptInv'
    <2> SUFFICES ASSUME Faults \cap {"slow", "database"} = {}, RetrievalInv, [Next]_vars
                 PROVE  RetrievalInv'
      BY DEF PromptInv
    <2> QED
      BY RetrievalNext
  <1>3. PromptInv => ReadyRetrievable
    BY DEF PromptInv, RetrievalInv
  <1> QED
    BY <1>1, <1>2, <1>3, PTL DEF Spec
=============================================================================
