------------------------- MODULE ProjectIndexProofs -------------------------
(***************************************************************************)
(* The two promises of the project index, for any number of documents,     *)
(* pollers, retrievals and faults: what is ready is published, and what is *)
(* deleted is not.  Both rest on the lock: from load to upload the poller  *)
(* that holds it is the only one to edit the file, so what it writes is    *)
(* the file it loaded with its own document added or removed (Edits), and  *)
(* no document another poller finished is lost or comes back.              *)
(***************************************************************************)
EXTENDS ProjectIndex, TLAPS

WriterStep ==
    \/ \E d \in Docs : RequestDeletion(d)
    \/ \E w \in Writers :
         \/ \E d \in Docs : StartIndex(w, d) \/ StartDelete(w, d)
         \/ Embed(w) \/ Acquire(w) \/ Open(w) \/ Write(w)
         \/ Upload(w) \/ UploadFails(w) \/ Purge(w) \/ Finish(w)
    \/ WorkerCrash

ReaderStep ==
    \E r \in Readers :
        \/ Search(r) \/ ObjectExists(r) \/ Get(r) \/ Fetched(r)
        \/ PullFails(r) \/ Timeout(r) \/ Load(r)

\* Types of what the worker process and the stores hold.
WorkerTyped ==
    /\ status \in [Docs -> Status]
    /\ rows \subseteq Docs
    /\ local \in Whole \cup {NoFile}
    /\ snapshot \in Whole \cup {NoFile}
    /\ lock \in Writers \cup {None}
    /\ pc \in [Writers -> WriterPc]
    /\ doc \in [Writers -> Docs]
    /\ index \in [Writers -> Whole]

\* Types of what the API process holds.
ReaderTyped ==
    /\ pulled \in Contents
    /\ staging \in Contents
    /\ rpc \in [Readers -> ReaderPc]
    /\ stream \in [Readers -> Whole]
    /\ place \in [Readers -> Places]
    /\ overlap \in [Readers -> Overlaps]

\* A document is handled by one poller.
OneHandler ==
    \A v, w \in Writers : pc[v] # "idle" /\ pc[w] # "idle" /\ doc[v] = doc[w] => v = w

\* The lock is held exactly from the load to the upload.
Holding == {"open", "write", "upload"}
LockHeld == \A w \in Writers : pc[w] \in Holding => lock = w

\* A published index was the worker's file first.
FileFirst == local = NoFile => snapshot = NoFile

\* What the poller holding the lock has in memory and on disk.
Edits ==
    \A w \in Writers :
        /\ pc[w] = "write" =>
              IF Adds(w) THEN index[w] = (local \ NoFile) \cup {doc[w]}
                         ELSE local # NoFile /\ index[w] = local \ {doc[w]}
        /\ pc[w] = "upload" => local # NoFile /\ (Adds(w) <=> doc[w] \in local)

\* What a poller knows of its document where it stands.
Progress ==
    \A w \in Writers :
        /\ pc[w] = "embed" => Adds(w)
        /\ pc[w] # "idle" => status[doc[w]] \in {"received", "deleting"}
        /\ pc[w] \in {"embed", "lock"} \cup Holding => doc[w] \in rows
        /\ pc[w] = "purge" => /\ ~Adds(w)
                              /\ doc[w] \notin local
                              /\ doc[w] \notin snapshot
        /\ pc[w] = "finish" =>
              IF Adds(w) THEN doc[w] \in rows /\ doc[w] \in local /\ doc[w] \in snapshot
                         ELSE doc[w] \notin rows

\* The rows of a withdrawn document are deleted after its vectors.
RowsLast ==
    \A d \in Docs : status[d] \in {"deleting", "deleted"} /\ d \notin rows =>
        d \notin local /\ d \notin snapshot

IndexInv ==
    /\ WorkerTyped
    /\ OneHandler
    /\ LockHeld
    /\ FileFirst
    /\ Edits
    /\ Progress
    /\ RowsLast
    /\ ReadyPublished
    /\ DeletedUnpublished

-----------------------------------------------------------------------------
\* The two marks of a path are neither documents nor each other.
LEMMA Marks ==
    /\ NoFile # Torn
    /\ NoFile \notin Whole
    /\ Torn \notin Whole
    /\ \A d \in Docs : d \notin NoFile /\ d \notin Torn
  BY ConstantsAssumption DEF NoFile, Torn, Whole

\* A step is one of the worker process and the stores or one of the API.
LEMMA Steps == Next <=> WriterStep \/ ReaderStep
  BY DEF Next, WriterStep, ReaderStep

\* Retrievals touch neither the stores nor the worker.
LEMMA ReadersOnlyRead == ReaderStep => UNCHANGED <<storeVars, writerVars>>
  BY DEF ReaderStep, Search, ObjectExists, Get, Fetched, PullFails, Timeout, Load

\* The worker touches nothing of the API process.
LEMMA WritersOnlyWrite == WriterStep => UNCHANGED <<fileVars, readerVars>>
  BY DEF WriterStep, RequestDeletion, StartIndex, StartDelete, Embed, Acquire, Open,
         Write, Upload, UploadFails, Purge, Finish, WorkerCrash

\* Faults stay within their bound.
LEMMA FaultsBounded == faults \in 0 .. MaxFaults /\ [Next]_vars => faults' \in 0 .. MaxFaults
<1> SUFFICES ASSUME faults \in 0 .. MaxFaults, [Next]_vars
             PROVE  faults' \in 0 .. MaxFaults
  OBVIOUS
<1>1. (faults' = faults) \/ Fault
  <2>1. CASE WriterStep
    BY <2>1 DEF WriterStep, RequestDeletion, StartIndex, StartDelete, Embed, Acquire, Open,
         Write, Upload, UploadFails, Purge, Finish, WorkerCrash
  <2>2. CASE ReaderStep
    BY <2>2 DEF ReaderStep, Search, ObjectExists, Get, Fetched, PullFails, Timeout, Load
  <2>3. CASE UNCHANGED vars
    BY <2>3 DEF vars
  <2> QED
    BY <2>1, <2>2, <2>3, Steps
<1>2. CASE faults' = faults
  BY <1>2
<1>3. CASE Fault
  <2>1. MaxFaults \in Nat
    BY ConstantsAssumption
  <2>2. faults < MaxFaults /\ faults' = faults + 1
    BY <1>3 DEF Fault
  <2>3. faults \in Nat
    BY <2>1
  <2> QED
    BY <2>1, <2>2, <2>3
<1> QED
  BY <1>1, <1>2, <1>3

-----------------------------------------------------------------------------
(***************************************************************************)
(* The worker process, one lemma per step.                                 *)
(***************************************************************************)

LEMMA StartIndexKeeps ==
  ASSUME IndexInv, NEW w \in Writers, NEW d \in Docs, StartIndex(w, d)
  PROVE  IndexInv'
<1> USE Marks DEF IndexInv, WorkerTyped, StartIndex, Goto, Handled, storeVars, writerVars
<1>1. WorkerTyped'
  BY DEF Status, WriterPc, Whole
<1>2. OneHandler'
  BY DEF OneHandler
<1>3. LockHeld'
  BY DEF LockHeld, Holding
<1>4. FileFirst'
  BY DEF FileFirst
<1>5. Edits'
  BY DEF Edits, Adds
<1>6. Progress'
  BY DEF Progress, Adds, Holding
<1>7. RowsLast'
  BY DEF RowsLast
<1>8. ReadyPublished'
  BY DEF ReadyPublished
<1>9. DeletedUnpublished'
  BY DEF DeletedUnpublished
<1> QED
  BY <1>1, <1>2, <1>3, <1>4, <1>5, <1>6, <1>7, <1>8, <1>9 DEF IndexInv

LEMMA EmbedKeeps ==
  ASSUME IndexInv, NEW w \in Writers, Embed(w)
  PROVE  IndexInv'
<1> USE Marks DEF IndexInv, WorkerTyped, Embed, Goto, storeVars, writerVars
<1>1. WorkerTyped'
  BY DEF Status, WriterPc, Whole
<1>2. OneHandler'
  BY DEF OneHandler
<1>3. LockHeld'
  BY DEF LockHeld, Holding
<1>4. FileFirst'
  BY DEF FileFirst
<1>5. Edits'
  BY DEF Edits, Adds
<1>6. Progress'
  BY DEF Progress, Adds, Holding
<1>7. RowsLast'
  BY DEF RowsLast
<1>8. ReadyPublished'
  BY DEF ReadyPublished
<1>9. DeletedUnpublished'
  BY DEF DeletedUnpublished
<1> QED
  BY <1>1, <1>2, <1>3, <1>4, <1>5, <1>6, <1>7, <1>8, <1>9 DEF IndexInv

LEMMA RequestDeletionKeeps ==
  ASSUME IndexInv, NEW d \in Docs, RequestDeletion(d)
  PROVE  IndexInv'
<1> USE Marks DEF IndexInv, WorkerTyped, RequestDeletion, storeVars, writerVars
<1>1. WorkerTyped'
  BY DEF Status, WriterPc, Whole
<1>2. OneHandler'
  BY DEF OneHandler
<1>3. LockHeld'
  BY DEF LockHeld, Holding
<1>4. FileFirst'
  BY DEF FileFirst
<1>5. Edits'
  BY DEF Edits, Adds
<1>6. Progress'
  BY DEF Progress, Adds, Holding
<1>7. RowsLast'
  BY DEF RowsLast, ReadyPublished
<1>8. ReadyPublished'
  BY DEF ReadyPublished
<1>9. DeletedUnpublished'
  BY DEF DeletedUnpublished
<1> QED
  BY <1>1, <1>2, <1>3, <1>4, <1>5, <1>6, <1>7, <1>8, <1>9 DEF IndexInv

LEMMA StartDeleteKeeps ==
  ASSUME IndexInv, NEW w \in Writers, NEW d \in Docs, StartDelete(w, d)
  PROVE  IndexInv'
<1> USE Marks DEF IndexInv, WorkerTyped, StartDelete, Goto, Handled, storeVars, writerVars
<1>1. WorkerTyped'
  BY DEF Status, WriterPc, Whole
<1>2. OneHandler'
  BY DEF OneHandler
<1>3. LockHeld'
  BY DEF LockHeld, Holding
<1>4. FileFirst'
  BY DEF FileFirst
<1>5. Edits'
  BY DEF Edits, Adds
<1>6. Progress'
  BY DEF Progress, Adds, Holding, RowsLast
<1>7. RowsLast'
  BY DEF RowsLast
<1>8. ReadyPublished'
  BY DEF ReadyPublished
<1>9. DeletedUnpublished'
  BY DEF DeletedUnpublished
<1> QED
  BY <1>1, <1>2, <1>3, <1>4, <1>5, <1>6, <1>7, <1>8, <1>9 DEF IndexInv

LEMMA AcquireKeeps ==
  ASSUME IndexInv, NEW w \in Writers, Acquire(w)
  PROVE  IndexInv'
<1> USE Marks DEF IndexInv, WorkerTyped, Acquire, Goto, storeVars, writerVars
<1>1. WorkerTyped'
  BY DEF Status, WriterPc, Whole
<1>2. OneHandler'
  BY DEF OneHandler
<1>3. LockHeld'
  BY ConstantsAssumption DEF LockHeld, Holding
<1>4. FileFirst'
  BY DEF FileFirst
<1>5. Edits'
  BY DEF Edits, Adds
<1>6. Progress'
  BY DEF Progress, Adds, Holding
<1>7. RowsLast'
  BY DEF RowsLast
<1>8. ReadyPublished'
  BY DEF ReadyPublished
<1>9. DeletedUnpublished'
  BY DEF DeletedUnpublished
<1> QED
  BY <1>1, <1>2, <1>3, <1>4, <1>5, <1>6, <1>7, <1>8, <1>9 DEF IndexInv

LEMMA OpenKeeps ==
  ASSUME IndexInv, NEW w \in Writers, Open(w)
  PROVE  IndexInv'
<1> USE Marks DEF IndexInv, WorkerTyped, Open, Goto, storeVars, writerVars
<1>1. WorkerTyped'
  BY DEF Status, WriterPc, Whole
<1>2. OneHandler'
  BY DEF OneHandler
<1>3. LockHeld'
  BY DEF LockHeld, Holding
<1>4. FileFirst'
  BY DEF FileFirst
<1>5. Edits'
  BY DEF Edits, Adds, LockHeld, Holding, Progress, OneHandler, RowsLast, ReadyPublished, FileFirst, Whole
<1>6. Progress'
  BY DEF Progress, Adds, Holding, FileFirst
<1>7. RowsLast'
  BY DEF RowsLast
<1>8. ReadyPublished'
  BY DEF ReadyPublished
<1>9. DeletedUnpublished'
  BY DEF DeletedUnpublished
<1> QED
  BY <1>1, <1>2, <1>3, <1>4, <1>5, <1>6, <1>7, <1>8, <1>9 DEF IndexInv

LEMMA WriteKeeps ==
  ASSUME IndexInv, NEW w \in Writers, Write(w)
  PROVE  IndexInv'
<1> USE Marks DEF IndexInv, WorkerTyped, Write, Goto, storeVars, writerVars
<1>1. WorkerTyped'
  BY DEF Status, WriterPc, Whole
<1>2. OneHandler'
  BY DEF OneHandler
<1>3. LockHeld'
  BY DEF LockHeld, Holding
<1>4. FileFirst'
  <2>1. local' \in Whole
    BY DEF Whole
  <2> QED
    BY <2>1 DEF FileFirst
<1>5. Edits'
  BY DEF Edits, Adds, LockHeld, Holding
<1>6. Progress'
  BY DEF Progress, Adds, Holding, Edits, LockHeld
<1>7. RowsLast'
  BY DEF RowsLast, Edits, Adds, LockHeld, Holding
<1>8. ReadyPublished'
  BY DEF ReadyPublished, Edits, Adds, Progress
<1>9. DeletedUnpublished'
  BY DEF DeletedUnpublished, Edits, Adds, LockHeld, Holding
<1> QED
  BY <1>1, <1>2, <1>3, <1>4, <1>5, <1>6, <1>7, <1>8, <1>9 DEF IndexInv

LEMMA UploadKeeps ==
  ASSUME IndexInv, NEW w \in Writers, Upload(w)
  PROVE  IndexInv'
<1> USE Marks DEF IndexInv, WorkerTyped, Upload, Goto, storeVars, writerVars
<1>1. WorkerTyped'
  BY DEF Status, WriterPc, Whole
<1>2. OneHandler'
  BY DEF OneHandler
<1>3. LockHeld'
  BY DEF LockHeld, Holding
<1>4. FileFirst'
  BY DEF FileFirst
<1>5. Edits'
  BY DEF Edits, Adds
<1>6. Progress'
  BY DEF Progress, Adds, Holding, Edits, LockHeld
<1>7. RowsLast'
  BY DEF RowsLast
<1>8. ReadyPublished'
  BY DEF ReadyPublished
<1>9. DeletedUnpublished'
  BY DEF DeletedUnpublished
<1> QED
  BY <1>1, <1>2, <1>3, <1>4, <1>5, <1>6, <1>7, <1>8, <1>9 DEF IndexInv

LEMMA UploadFailsKeeps ==
  ASSUME IndexInv, NEW w \in Writers, UploadFails(w)
  PROVE  IndexInv'
<1> USE Marks DEF IndexInv, WorkerTyped, UploadFails, Goto, storeVars, writerVars
<1>1. WorkerTyped'
  BY DEF Status, WriterPc, Whole
<1>2. OneHandler'
  BY DEF OneHandler
<1>3. LockHeld'
  BY DEF LockHeld, Holding
<1>4. FileFirst'
  BY DEF FileFirst
<1>5. Edits'
  BY DEF Edits, Adds
<1>6. Progress'
  BY DEF Progress, Adds, Holding
<1>7. RowsLast'
  BY DEF RowsLast
<1>8. ReadyPublished'
  BY DEF ReadyPublished
<1>9. DeletedUnpublished'
  BY DEF DeletedUnpublished
<1> QED
  BY <1>1, <1>2, <1>3, <1>4, <1>5, <1>6, <1>7, <1>8, <1>9 DEF IndexInv

LEMMA PurgeKeeps ==
  ASSUME IndexInv, NEW w \in Writers, Purge(w)
  PROVE  IndexInv'
<1> USE Marks DEF IndexInv, WorkerTyped, Purge, Goto, storeVars, writerVars
<1>1. WorkerTyped'
  BY DEF Status, WriterPc, Whole
<1>2. OneHandler'
  BY DEF OneHandler
<1>3. LockHeld'
  BY DEF LockHeld, Holding
<1>4. FileFirst'
  BY DEF FileFirst
<1>5. Edits'
  BY DEF Edits, Adds
<1>6. Progress'
  BY DEF Progress, Adds, Holding, OneHandler
<1>7. RowsLast'
  BY DEF RowsLast, Progress, Adds
<1>8. ReadyPublished'
  BY DEF ReadyPublished, Progress, Adds
<1>9. DeletedUnpublished'
  BY DEF DeletedUnpublished
<1> QED
  BY <1>1, <1>2, <1>3, <1>4, <1>5, <1>6, <1>7, <1>8, <1>9 DEF IndexInv

LEMMA FinishKeeps ==
  ASSUME IndexInv, NEW w \in Writers, Finish(w)
  PROVE  IndexInv'
<1> USE Marks DEF IndexInv, WorkerTyped, Finish, Goto, storeVars, writerVars
<1>1. WorkerTyped'
  BY DEF Status, WriterPc, Whole
<1>2. OneHandler'
  BY DEF OneHandler
<1>3. LockHeld'
  BY DEF LockHeld, Holding
<1>4. FileFirst'
  BY DEF FileFirst
<1>5. Edits'
  BY DEF Edits, Adds, OneHandler
<1>6. Progress'
  BY DEF Progress, Adds, Holding, OneHandler
<1>7. RowsLast'
  BY DEF RowsLast, Progress, Adds
<1>8. ReadyPublished'
  BY DEF ReadyPublished, Progress, Adds
<1>9. DeletedUnpublished'
  BY DEF DeletedUnpublished, Progress, Adds, RowsLast
<1> QED
  BY <1>1, <1>2, <1>3, <1>4, <1>5, <1>6, <1>7, <1>8, <1>9 DEF IndexInv

LEMMA WorkerCrashKeeps ==
  ASSUME IndexInv, WorkerCrash
  PROVE  IndexInv'
<1> USE Marks DEF IndexInv, WorkerTyped, WorkerCrash, storeVars, writerVars
<1>1. WorkerTyped'
  BY DEF Status, WriterPc, Whole
<1>2. OneHandler'
  BY DEF OneHandler
<1>3. LockHeld'
  BY DEF LockHeld, Holding
<1>4. FileFirst'
  BY DEF FileFirst
<1>5. Edits'
  BY DEF Edits, Adds
<1>6. Progress'
  BY DEF Progress, Adds, Holding
<1>7. RowsLast'
  BY DEF RowsLast
<1>8. ReadyPublished'
  BY DEF ReadyPublished
<1>9. DeletedUnpublished'
  BY DEF DeletedUnpublished
<1> QED
  BY <1>1, <1>2, <1>3, <1>4, <1>5, <1>6, <1>7, <1>8, <1>9 DEF IndexInv

-----------------------------------------------------------------------------
(***************************************************************************)
(* The invariant and what follows from it.                                 *)
(***************************************************************************)

LEMMA InitInv == Init => IndexInv
<1> SUFFICES ASSUME Init PROVE IndexInv
  OBVIOUS
<1> USE Marks DEF Init
<1>1. WorkerTyped
  BY DEF WorkerTyped, Status, WriterPc, Whole
<1>2. OneHandler /\ LockHeld /\ FileFirst
  BY DEF OneHandler, LockHeld, Holding, FileFirst
<1>3. Edits /\ Progress
  BY DEF Edits, Progress, Holding
<1>4. RowsLast /\ ReadyPublished /\ DeletedUnpublished
  BY DEF RowsLast, ReadyPublished, DeletedUnpublished
<1> QED
  BY <1>1, <1>2, <1>3, <1>4 DEF IndexInv

\* The invariant speaks of the stores and of the worker only.
LEMMA SameInv == IndexInv /\ UNCHANGED <<storeVars, writerVars>> => IndexInv'
  BY DEF IndexInv, storeVars, writerVars, WorkerTyped, OneHandler, LockHeld, FileFirst,
         Edits, Adds, Progress, RowsLast, ReadyPublished, DeletedUnpublished

LEMMA StepInv == IndexInv /\ [Next]_vars => IndexInv'
<1> SUFFICES ASSUME IndexInv, [Next]_vars PROVE IndexInv'
  OBVIOUS
<1>1. CASE WriterStep
  BY <1>1, RequestDeletionKeeps, StartIndexKeeps, StartDeleteKeeps, EmbedKeeps, AcquireKeeps,
     OpenKeeps, WriteKeeps, UploadKeeps, UploadFailsKeeps, PurgeKeeps, FinishKeeps,
     WorkerCrashKeeps DEF WriterStep
<1>2. CASE ReaderStep
  BY <1>2, ReadersOnlyRead, SameInv
<1>3. CASE UNCHANGED vars
  BY <1>3, SameInv DEF vars
<1> QED
  BY <1>1, <1>2, <1>3, Steps

LEMMA AlwaysIndexInv == Spec => []IndexInv
  BY InitInv, StepInv, PTL DEF Spec

\* For any number of documents, pollers, retrievals and faults: a document that
\* is ready has its rows, and its vectors in the worker's file and in the
\* published snapshot.
THEOREM PublicationCorrect == Spec => []ReadyPublished
<1>1. IndexInv => ReadyPublished
  BY DEF IndexInv
<1> QED
  BY <1>1, AlwaysIndexInv, PTL

\* For any number of them, a deleted document is in neither store.
THEOREM DeletionCorrect == Spec => []DeletedUnpublished
<1>1. IndexInv => DeletedUnpublished
  BY DEF IndexInv
<1> QED
  BY <1>1, AlwaysIndexInv, PTL

-----------------------------------------------------------------------------
(***************************************************************************)
(* Types.  The stream of a download is an index because the object found   *)
(* by object_exists is never taken away again.                             *)
(***************************************************************************)

\* A retrieval about to GET the snapshot found one.
Found == \A r \in Readers : rpc[r] = "get" => snapshot # NoFile

LEMMA FoundInit == Init => Found /\ ReaderTyped /\ faults \in 0 .. MaxFaults
<1> SUFFICES ASSUME Init PROVE Found /\ ReaderTyped /\ faults \in 0 .. MaxFaults
  OBVIOUS
<1>1. Found
  BY DEF Init, Found
<1>2. ReaderTyped
  BY DEF Init, ReaderTyped, Contents, ReaderPc, Whole, Places, Overlaps
<1>3. faults \in 0 .. MaxFaults
  <2>1. MaxFaults \in Nat
    BY ConstantsAssumption
  <2> QED
    BY <2>1 DEF Init
<1> QED
  BY <1>1, <1>2, <1>3

\* A published snapshot is only ever replaced.
LEMMA SnapshotStays ==
  ASSUME IndexInv, WriterStep, snapshot # NoFile
  PROVE  snapshot' # NoFile
<1>1. (snapshot' = snapshot) \/ (snapshot' = local /\ \E w \in Writers : pc[w] = "upload")
  BY DEF WriterStep, RequestDeletion, StartIndex, StartDelete, Embed, Acquire, Open,
         Write, Upload, UploadFails, Purge, Finish, WorkerCrash, storeVars
<1> QED
  BY <1>1 DEF IndexInv, Edits

LEMMA FoundStep == IndexInv /\ Found /\ ReaderTyped /\ [Next]_vars => Found'
<1> SUFFICES ASSUME IndexInv, Found, ReaderTyped, [Next]_vars PROVE Found'
  OBVIOUS
<1>1. CASE WriterStep
  BY <1>1, WritersOnlyWrite, SnapshotStays DEF Found, readerVars
<1>2. ASSUME NEW r \in Readers,
             \/ Search(r) \/ ObjectExists(r) \/ Get(r) \/ Fetched(r)
             \/ PullFails(r) \/ Timeout(r) \/ Load(r)
      PROVE  Found'
  <2>1. snapshot' = snapshot
    BY <1>2, ReadersOnlyRead DEF ReaderStep, storeVars
  <2>2. \A q \in Readers : rpc'[q] = "get" => rpc[q] = "get" \/ snapshot # NoFile
    BY <1>2 DEF ReaderTyped, Search, ObjectExists, Get, Fetched, PullFails, Timeout, Load,
                ReaderGoto, AfterPull
  <2> QED
    BY <2>1, <2>2 DEF Found
<1>3. CASE UNCHANGED vars
  BY <1>3 DEF Found, vars, storeVars, readerVars
<1> QED
  BY <1>1, <1>2, <1>3, Steps DEF ReaderStep

LEMMA ReaderTypedStep ==
  IndexInv /\ Found /\ ReaderTyped /\ [Next]_vars => ReaderTyped'
<1> SUFFICES ASSUME IndexInv, Found, ReaderTyped, [Next]_vars PROVE ReaderTyped'
  OBVIOUS
<1> USE DEF ReaderTyped, Contents, ReaderPc, Places, Overlaps, ReaderGoto, AfterPull, fileVars
<1>1. CASE WriterStep
  BY <1>1, WritersOnlyWrite DEF readerVars
<1>2. ASSUME NEW r \in Readers, Search(r) PROVE ReaderTyped'
  BY <1>2 DEF Search
<1>3. ASSUME NEW r \in Readers, ObjectExists(r) PROVE ReaderTyped'
  BY <1>3 DEF ObjectExists
<1>4. ASSUME NEW r \in Readers, Get(r) PROVE ReaderTyped'
  <2>1. snapshot \in Whole
    BY <1>4 DEF Get, Found, IndexInv, WorkerTyped
  <2> QED
    BY <1>4, <2>1 DEF Get
<1>5. ASSUME NEW r \in Readers, Fetched(r) PROVE ReaderTyped'
  <2>1. PICK bytes \in Written(r) : Fetched(r)!2!(bytes)
    BY <1>5 DEF Fetched
  <2>2. bytes \in Contents
    BY DEF Written
  <2> QED
    BY <1>5, <2>1, <2>2 DEF Fetched
<1>6. ASSUME NEW r \in Readers, PullFails(r) PROVE ReaderTyped'
  BY <1>6 DEF PullFails
<1>7. ASSUME NEW r \in Readers, Timeout(r) PROVE ReaderTyped'
  BY <1>7 DEF Timeout
<1>8. ASSUME NEW r \in Readers, Load(r) PROVE ReaderTyped'
  BY <1>8 DEF Load
<1>9. CASE UNCHANGED vars
  BY <1>9 DEF vars, readerVars
<1> QED
  BY <1>1, <1>2, <1>3, <1>4, <1>5, <1>6, <1>7, <1>8, <1>9, Steps DEF ReaderStep

\* Every reachable state is well typed: no mark of a missing or broken file
\* gets into an index in memory, a stream or the published snapshot.
THEOREM TypeCorrect == Spec => []TypeOK
<1> DEFINE Typed == Found /\ ReaderTyped /\ faults \in 0 .. MaxFaults
<1>1. Init => Typed
  BY FoundInit
<1>2. IndexInv /\ Typed /\ [Next]_vars => Typed'
  BY FoundStep, ReaderTypedStep, FaultsBounded
<1>3. IndexInv /\ Typed => TypeOK
  BY DEF IndexInv, WorkerTyped, ReaderTyped, TypeOK
<1> QED
  BY <1>1, <1>2, <1>3, AlwaysIndexInv, PTL DEF Spec

-----------------------------------------------------------------------------
(***************************************************************************)
(* Torn files.  A download that lost the staging path to a rename or an    *)
(* unlink finds a file there again only if another download has opened one *)
(* since, and by then it knows of the overlap.                             *)
(***************************************************************************)

Displaced ==
    \A r \in Readers :
        Downloading(r) /\ place[r] # "staging" /\ staging # NoFile => overlap[r] # "none"

LEMMA DisplacedStep == ReaderTyped /\ Displaced /\ [Next]_vars => Displaced'
<1> SUFFICES ASSUME ReaderTyped, Displaced, [Next]_vars PROVE Displaced'
  OBVIOUS
<1> USE DEF ReaderTyped, Displaced, Downloading, ReaderGoto, AfterPull, fileVars
<1>1. CASE WriterStep
  BY <1>1, WritersOnlyWrite DEF readerVars
<1>2. ASSUME NEW q \in Readers, Search(q) \/ ObjectExists(q) \/ Load(q) \/ Timeout(q)
      PROVE  Displaced'
  BY <1>2 DEF Search, ObjectExists, Load, Timeout
<1>3. ASSUME NEW q \in Readers, Get(q) PROVE Displaced'
  BY <1>3 DEF Get
<1>4. ASSUME NEW q \in Readers, Fetched(q) \/ PullFails(q) PROVE Displaced'
  <2>1. staging' = NoFile
    BY <1>4 DEF Fetched, PullFails
  <2> QED
    BY <2>1
<1>5. CASE UNCHANGED vars
  BY <1>5 DEF vars, readerVars
<1> QED
  BY <1>1, <1>2, <1>3, <1>4, <1>5, Steps DEF ReaderStep

LEMMA TornStep ==
  ASSUME ReaderTyped, Displaced, Next, pulled' = Torn, pulled # Torn
  PROVE  \E r \in Readers : Downloading(r) /\ overlap[r] # "none"
<1>1. PICK r \in Readers : Fetched(r)
  <2>1. CASE WriterStep
    BY <2>1, WritersOnlyWrite DEF fileVars
  <2>2. CASE ReaderStep
    BY <2>2 DEF ReaderStep, Search, ObjectExists, Get, PullFails, Timeout, Load, fileVars
  <2> QED
    BY <2>1, <2>2, Steps
<1>2. PICK bytes \in Written(r) : Fetched(r)!2!(bytes)
  BY <1>1 DEF Fetched
<1>3. bytes = Torn \/ (place[r] # "staging" /\ staging = Torn)
  BY <1>2
<1>4. CASE bytes = Torn
  <2>1. overlap[r] = "file"
    BY <1>4, Marks DEF Written, ReaderTyped
  <2> QED
    BY <1>1, <2>1 DEF Fetched
<1>5. CASE place[r] # "staging" /\ staging = Torn
  BY <1>1, <1>5, Marks DEF Displaced, Fetched
<1> QED
  BY <1>3, <1>4, <1>5

\* For any number of retrievals, documents and faults, a file that is not a
\* whole index reaches the index path only through overlapping downloads.
THEOREM TornCorrect == Spec => TornByOverlap
<1> DEFINE Typed == Found /\ ReaderTyped
<1>1. Init => Typed /\ Displaced
  <2>1. Init => Displaced
    BY DEF Init, Displaced, Downloading
  <2> QED
    BY <2>1, FoundInit
<1>2. IndexInv /\ Typed /\ Displaced /\ [Next]_vars => (Typed /\ Displaced)'
  <2>1. IndexInv /\ Typed /\ [Next]_vars => Typed'
    BY FoundStep, ReaderTypedStep
  <2>2. Typed /\ Displaced /\ [Next]_vars => Displaced'
    BY DisplacedStep
  <2> QED
    BY <2>1, <2>2
<1>3. Typed /\ Displaced /\ [Next]_vars =>
        [pulled' = Torn =>
            pulled = Torn \/ \E r \in Readers : Downloading(r) /\ overlap[r] # "none"]_vars
  BY TornStep
<1> QED
  BY <1>1, <1>2, <1>3, AlwaysIndexInv, PTL DEF Spec, TornByOverlap

-----------------------------------------------------------------------------
(***************************************************************************)
(* The refinement of PublishedIndex.  Between uploads the file may differ  *)
(* from the snapshot only by what is still being ingested or deleted.      *)
(***************************************************************************)

Ahead ==
    \A d \in Docs :
        /\ status[d] = "received" /\ d \in snapshot => d \in local
        /\ status[d] = "deleting" /\ d \in local => d \in snapshot

LEMMA AheadInit == Init => Ahead
  BY Marks DEF Init, Ahead

LEMMA AheadStep == IndexInv /\ Ahead /\ [Next]_vars => Ahead'
<1> SUFFICES ASSUME IndexInv, Ahead, [Next]_vars PROVE Ahead'
  OBVIOUS
<1> USE Marks DEF Ahead
<1>1. CASE UNCHANGED <<status, local, snapshot>>
  BY <1>1
<1>2. ASSUME NEW d \in Docs, RequestDeletion(d) PROVE Ahead'
  BY <1>2 DEF RequestDeletion, IndexInv, WorkerTyped, ReadyPublished
<1>3. ASSUME NEW w \in Writers, Write(w) PROVE Ahead'
  BY <1>3 DEF Write, Goto, IndexInv, Edits, Adds
<1>4. ASSUME NEW w \in Writers, Upload(w) \/ UploadFails(w) PROVE Ahead'
  BY <1>4 DEF Upload, UploadFails
<1>5. ASSUME NEW w \in Writers, Finish(w) PROVE Ahead'
  BY <1>5 DEF Finish, IndexInv, WorkerTyped, Progress
<1>6. CASE WriterStep
  <2>1. \/ UNCHANGED <<status, local, snapshot>>
        \/ \E d \in Docs : RequestDeletion(d)
        \/ \E w \in Writers : Write(w) \/ Upload(w) \/ UploadFails(w) \/ Finish(w)
    BY <1>6 DEF WriterStep, StartIndex, StartDelete, Embed, Acquire, Open, Purge,
                WorkerCrash, storeVars
  <2> QED
    BY <2>1, <1>1, <1>2, <1>3, <1>4, <1>5
<1>7. CASE ReaderStep
  BY <1>7, <1>1, ReadersOnlyRead DEF storeVars
<1>8. CASE UNCHANGED vars
  BY <1>8, <1>1 DEF vars, storeVars
<1> QED
  BY <1>6, <1>7, <1>8, Steps

\* An upload that landed takes in only documents being ingested and leaves out
\* only documents being deleted.
LEMMA UploadPublishes ==
  ASSUME IndexInv, Ahead, NEW w \in Writers, pc[w] = "upload",
         snapshot' = local, status' = status
  PROVE  Public!Publish
<1> USE Marks DEF IndexInv, WorkerTyped
<1>1. \A d \in Docs : d \in local /\ d \notin snapshot => status[d] = "received"
  BY DEF ReadyPublished, DeletedUnpublished, Ahead, Status
<1>2. \A d \in Docs : d \in snapshot /\ d \notin local => status[d] = "deleting"
  BY DEF ReadyPublished, DeletedUnpublished, Ahead, Status
<1>3. local \ NoFile \subseteq Docs /\ snapshot \ NoFile \subseteq Docs
  BY DEF Whole
<1> QED
  BY <1>1, <1>2, <1>3 DEF Public!Publish, Public!InPhase

LEMMA PublicStep ==
  IndexInv /\ Ahead /\ [Next]_vars => [Public!Next]_<<status, snapshot \ NoFile>>
<1> SUFFICES ASSUME IndexInv, Ahead, [Next]_vars
             PROVE  [Public!Next]_<<status, snapshot \ NoFile>>
  OBVIOUS
<1>1. CASE UNCHANGED <<status, snapshot>>
  BY <1>1
<1>2. ASSUME NEW d \in Docs, RequestDeletion(d) PROVE Public!Next
  BY <1>2 DEF RequestDeletion, Public!Next, Public!Withdraw, Public!Move
<1>3. ASSUME NEW w \in Writers, Upload(w) PROVE Public!Next
  BY <1>3, UploadPublishes DEF Upload, Public!Next
<1>4. ASSUME NEW w \in Writers, UploadFails(w)
      PROVE  Public!Next \/ UNCHANGED <<status, snapshot>>
  BY <1>4, UploadPublishes DEF UploadFails, Public!Next
<1>5. ASSUME NEW w \in Writers, Finish(w) PROVE Public!Next
  <2>1. doc[w] \in Docs /\ status[doc[w]] \in {"received", "deleting"}
    BY <1>5 DEF Finish, IndexInv, WorkerTyped, Progress
  <2>2. CASE Adds(w)
    BY <1>5, <2>1, <2>2, Marks
       DEF Finish, Adds, IndexInv, Progress, Public!Next, Public!Serve, Public!Move
  <2>3. CASE ~Adds(w)
    BY <1>5, <2>1, <2>3
       DEF Finish, Adds, IndexInv, Progress, RowsLast, Public!Next, Public!Forget, Public!Move
  <2> QED
    BY <2>2, <2>3
<1>6. CASE WriterStep
  <2>1. \/ UNCHANGED <<status, snapshot>>
        \/ \E d \in Docs : RequestDeletion(d)
        \/ \E w \in Writers : Upload(w) \/ UploadFails(w) \/ Finish(w)
    BY <1>6 DEF WriterStep, StartIndex, StartDelete, Embed, Acquire, Open, Write, Purge,
                WorkerCrash, storeVars
  <2> QED
    BY <2>1, <1>1, <1>2, <1>3, <1>4, <1>5
<1>7. CASE ReaderStep
  BY <1>7, <1>1, ReadersOnlyRead DEF storeVars
<1>8. CASE UNCHANGED vars
  BY <1>8, <1>1 DEF vars, storeVars
<1> QED
  BY <1>6, <1>7, <1>8, Steps

\* The index is what PublishedIndex says, for any number of documents, pollers,
\* retrievals and faults: every snapshot ever published differs from the one
\* before only by documents being ingested or deleted.
THEOREM PublicCorrect == Spec => PublicationRefined
<1>1. Init => Public!Init
  BY Marks DEF Init, Public!Init
<1>2. IndexInv /\ Ahead /\ [Next]_vars => [Public!Next]_<<status, snapshot \ NoFile>>
  BY PublicStep
<1> QED
  BY <1>1, <1>2, AlwaysIndexInv, AheadInit, AheadStep, PTL
     DEF Spec, PublicationRefined, Public!Spec

=============================================================================
