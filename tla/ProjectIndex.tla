---------------------------- MODULE ProjectIndex ----------------------------
(***************************************************************************)
(* One project's Turbovec index: TurbovecProjectIndexStore in the worker   *)
(* process, which edits a local file and publishes it as a snapshot, and   *)
(* in an API process on another host, which pulls the snapshot and reads   *)
(* it.  The clients are HybridProjectDocumentStore.index and               *)
(* delete_document, called by the two pollers of the one worker process,   *)
(* and the searches of concurrent retrievals under their deadline.         *)
(*                                                                         *)
(* A vector stands for the vectors of a document: they keep their ids over *)
(* retries, so an index is the set of the documents in it.  Whether a poll *)
(* may start, retries and deletions during an ingestion are the business   *)
(* of ProjectDocuments; here a document is handled by one poller at a time *)
(* and deleted once it is ready.                                           *)
(***************************************************************************)
EXTENDS Naturals, FiniteSets

CONSTANTS
    Docs,      \* documents of the project
    Writers,   \* the pollers of the worker process
    Readers,   \* retrievals of the API process
    MaxFaults, \* bound: faults taken
    None       \* nobody holds the lock

ASSUME ConstantsAssumption ==
    /\ MaxFaults \in Nat
    /\ Docs \cap {"no file", "torn"} = {}
    /\ None \notin Writers

\* What a path or the object key can hold: a whole index, nothing, or a file
\* that is not a whole index.
Whole == SUBSET Docs
NoFile == {"no file"}
Torn == {"torn"}
Contents == Whole \cup {NoFile, Torn}

Status == {"received", "ready", "deleting", "deleted"}
WriterPc == {"idle", "embed", "lock", "open", "write", "upload", "purge", "finish"}
ReaderPc == {"idle", "exists", "get", "pull", "load"}
\* Where the stream of a download lands: in the file at the staging path, in
\* the file at the index path once it was renamed, or in a file with no name.
Places == {"staging", "installed", "unlinked"}
Overlaps == {"none", "time", "file"}

VARIABLES
    status,    \* project_documents.status, as far as the index is concerned
    rows,      \* documents with rows in project_document_chunks
    local,     \* the worker's .tvim
    snapshot,  \* the object in private storage
    lock,      \* the store's lock of the project, in the worker process
    pc,        \* where each poller stands
    doc,       \* the document it handles
    index,     \* the index it has in memory
    pulled,    \* the API's .tvim
    staging,   \* the API's .tvim.download
    rpc,       \* where each retrieval stands
    stream,    \* the snapshot its download streams
    place,     \* where the stream lands
    overlap,   \* what it shares with another download: nothing, only a time
               \* at which both were open, or a time and the file
    faults     \* faults taken so far

storeVars == <<status, rows, local, snapshot>>
writerVars == <<lock, pc, doc, index>>
fileVars == <<pulled, staging>>
readerVars == <<rpc, stream, place, overlap>>
vars == <<storeVars, writerVars, fileVars, readerVars, faults>>

TypeOK ==
    /\ status \in [Docs -> Status]
    /\ rows \subseteq Docs
    /\ local \in Whole \cup {NoFile}
    /\ snapshot \in Whole \cup {NoFile}
    /\ lock \in Writers \cup {None}
    /\ pc \in [Writers -> WriterPc]
    /\ doc \in [Writers -> Docs]
    /\ index \in [Writers -> Whole]
    /\ pulled \in Contents
    /\ staging \in Contents
    /\ rpc \in [Readers -> ReaderPc]
    /\ stream \in [Readers -> Whole]
    /\ place \in [Readers -> Places]
    /\ overlap \in [Readers -> Overlaps]
    /\ faults \in 0 .. MaxFaults

Init ==
    /\ status = [d \in Docs |-> "received"]
    /\ rows = {}
    /\ local = NoFile
    /\ snapshot = NoFile
    /\ lock = None
    /\ pc = [w \in Writers |-> "idle"]
    /\ doc \in [Writers -> Docs]
    /\ \A v, w \in Writers : doc[v] = doc[w]
    /\ index = [w \in Writers |-> {}]
    /\ pulled = NoFile
    /\ staging = NoFile
    /\ rpc = [r \in Readers |-> "idle"]
    /\ stream = [r \in Readers |-> {}]
    /\ place = [r \in Readers |-> "unlinked"]
    /\ overlap = [r \in Readers |-> "none"]
    /\ faults = 0

Fault ==
    /\ faults < MaxFaults
    /\ faults' = faults + 1

(***************************************************************************)
(* The worker process.                                                     *)
(***************************************************************************)

Handled(d) == \E w \in Writers : pc[w] # "idle" /\ doc[w] = d

Adds(w) == status[doc[w]] = "received"

Goto(w, place_) == pc' = [pc EXCEPT ![w] = place_]

\* index: replace_document_chunks commits the rows before anything else.
StartIndex(w, d) ==
    /\ pc[w] = "idle"
    /\ status[d] = "received"
    /\ ~Handled(d)
    /\ rows' = rows \cup {d}
    /\ Goto(w, "embed")
    /\ doc' = [doc EXCEPT ![w] = d]
    /\ UNCHANGED <<status, local, snapshot, lock, index, fileVars, readerVars, faults>>

\* The vectors of its chunks come back, or the attempt fails.
Embed(w) ==
    /\ pc[w] = "embed"
    /\ \/ Goto(w, "lock") /\ UNCHANGED faults
       \/ Goto(w, "idle") /\ Fault
    /\ UNCHANGED <<storeVars, lock, doc, index, fileVars, readerVars>>

\* The user deletes a document that was being served.
RequestDeletion(d) ==
    /\ status[d] = "ready"
    /\ status' = [status EXCEPT ![d] = "deleting"]
    /\ UNCHANGED <<rows, local, snapshot, writerVars, fileVars, readerVars, faults>>

\* As StartDelete, had the rows been deleted together with the listing.
StartDeletePurging(w, d) ==
    /\ pc[w] = "idle"
    /\ status[d] = "deleting"
    /\ ~Handled(d)
    /\ Goto(w, IF d \in rows THEN "lock" ELSE "purge")
    /\ doc' = [doc EXCEPT ![w] = d]
    /\ rows' = rows \ {d}
    /\ UNCHANGED <<status, local, snapshot, lock, index, fileVars, readerVars, faults>>

\* delete_document: the ids listed from the rows; remove returns at once
\* when there are none.
StartDelete(w, d) ==
    /\ pc[w] = "idle"
    /\ status[d] = "deleting"
    /\ ~Handled(d)
    /\ Goto(w, IF d \in rows THEN "lock" ELSE "purge")
    /\ doc' = [doc EXCEPT ![w] = d]
    /\ UNCHANGED <<storeVars, lock, index, fileVars, readerVars, faults>>

\* As Acquire, had each edit not waited for the one under way.
AcquireAnyway(w) ==
    /\ pc[w] = "lock"
    /\ lock' = w
    /\ Goto(w, "open")
    /\ UNCHANGED <<storeVars, doc, index, fileVars, readerVars, faults>>

\* Mutual exclusion over the file: one edit from load to upload at a time.
Acquire(w) ==
    /\ pc[w] = "lock"
    /\ lock = None
    /\ lock' = w
    /\ Goto(w, "open")
    /\ UNCHANGED <<storeVars, doc, index, fileVars, readerVars, faults>>

\* add: _open_or_create and _add_replacing; remove: _load_local and
\* _remove_all, or a return when this host has no file.
Open(w) ==
    /\ pc[w] = "open"
    /\ \/ /\ Adds(w)
          /\ index' = [index EXCEPT ![w] = IF local = NoFile
                                           THEN {doc[w]} ELSE local \cup {doc[w]}]
          /\ Goto(w, "write")
          /\ UNCHANGED lock
       \/ /\ ~Adds(w)
          /\ local # NoFile
          /\ index' = [index EXCEPT ![w] = local \ {doc[w]}]
          /\ Goto(w, "write")
          /\ UNCHANGED lock
       \/ /\ ~Adds(w)
          /\ local = NoFile
          /\ lock' = None
          /\ Goto(w, "purge")
          /\ UNCHANGED index
    /\ UNCHANGED <<storeVars, doc, fileVars, readerVars, faults>>

\* _write_local: the staging file is written whole, then renamed.
Write(w) ==
    /\ pc[w] = "write"
    /\ local' = index[w]
    /\ Goto(w, "upload")
    /\ UNCHANGED <<status, rows, snapshot, lock, doc, index, fileVars, readerVars, faults>>

\* upload_file replaces the object; the bytes were read when the call began,
\* and nothing edits the file while the lock is held.
Upload(w) ==
    /\ pc[w] = "upload"
    /\ snapshot' = local
    /\ lock' = None
    /\ Goto(w, IF Adds(w) THEN "finish" ELSE "purge")
    /\ UNCHANGED <<status, rows, local, doc, index, fileVars, readerVars, faults>>

\* It raises, before or after storage took the object; the attempt fails and
\* the poller comes back to the document later.
UploadFails(w) ==
    /\ pc[w] = "upload"
    /\ Fault
    /\ snapshot' \in {snapshot, local}
    /\ lock' = None
    /\ Goto(w, "idle")
    /\ UNCHANGED <<status, rows, local, doc, index, fileVars, readerVars>>

\* delete_document deletes the rows last: a retry still finds the ids.
Purge(w) ==
    /\ pc[w] = "purge"
    /\ rows' = rows \ {doc[w]}
    /\ Goto(w, "finish")
    /\ UNCHANGED <<status, local, snapshot, lock, doc, index, fileVars, readerVars, faults>>

\* The call has returned: the document is marked ready, or deleted.
Finish(w) ==
    /\ pc[w] = "finish"
    /\ Goto(w, "idle")
    /\ status' = [status EXCEPT ![doc[w]] = IF Adds(w) THEN "ready" ELSE "deleted"]
    /\ UNCHANGED <<rows, local, snapshot, lock, doc, index, fileVars, readerVars, faults>>

\* The worker dies and is started again on the same disk.
WorkerCrash ==
    /\ Fault
    /\ \E w \in Writers : pc[w] # "idle"
    /\ pc' = [w \in Writers |-> "idle"]
    /\ lock' = None
    /\ UNCHANGED <<storeVars, doc, index, fileVars, readerVars>>

(***************************************************************************)
(* The API process.                                                        *)
(***************************************************************************)

Downloading(r) == rpc[r] = "pull"

ReaderGoto(r, place_) == rpc' = [rpc EXCEPT ![r] = place_]

\* After a pull the file is there or the index is unavailable.
AfterPull(r, file) == ReaderGoto(r, IF file = NoFile THEN "idle" ELSE "load")

\* search, once some eligible chunk is on the allowlist: a local file is
\* used as it is, otherwise the snapshot is pulled.
Search(r) ==
    /\ rpc[r] = "idle"
    /\ \E d \in rows : status[d] = "ready"
    /\ ReaderGoto(r, IF pulled = NoFile THEN "exists" ELSE "load")
    /\ UNCHANGED <<storeVars, writerVars, fileVars, stream, place, overlap, faults>>

\* object_exists.  False ends the pull.
ObjectExists(r) ==
    /\ rpc[r] = "exists"
    /\ \/ snapshot # NoFile /\ ReaderGoto(r, "get")
       \/ snapshot = NoFile /\ AfterPull(r, pulled)
    /\ UNCHANGED <<storeVars, writerVars, fileVars, stream, place, overlap, faults>>

\* As Get, had the snapshot been downloaded to the index path itself.
GetInPlace(r) ==
    /\ rpc[r] = "get"
    /\ stream' = [stream EXCEPT ![r] = snapshot]
    /\ pulled' = Torn
    /\ place' = [place EXCEPT ![r] = "installed"]
    /\ ReaderGoto(r, "pull")
    /\ UNCHANGED <<storeVars, writerVars, staging, overlap, faults>>

\* download_to: the response of the GET is bound to the object it found;
\* open("wb") creates the staging file or empties the one that is there.
Get(r) ==
    /\ rpc[r] = "get"
    /\ LET open == {q \in Readers : Downloading(q)}
           same == {q \in open : place[q] = "staging"}
       IN overlap' = [q \in Readers |->
                        IF same # {} /\ q \in same \cup {r} THEN "file"
                        ELSE IF open # {} /\ q \in open \cup {r} /\ overlap[q] = "none"
                        THEN "time"
                        ELSE overlap[q]]
    /\ stream' = [stream EXCEPT ![r] = snapshot]
    /\ staging' = Torn
    /\ place' = [place EXCEPT ![r] = "staging"]
    /\ ReaderGoto(r, "pull")
    /\ UNCHANGED <<storeVars, writerVars, pulled, faults>>

\* What a file holds when the download of r has written its last byte: the
\* snapshot, unless another download truncated or overwrote parts of it.
Written(r) == {stream[r]} \cup {t \in {Torn} : overlap[r] = "file"}

\* The last chunk is written and os.replace moves whatever is at the staging
\* path; when a rename or an unlink has taken the path away it raises.
Fetched(r) ==
    /\ Downloading(r)
    /\ \E bytes \in Written(r) :
         LET staged == IF place[r] = "staging" THEN bytes ELSE staging
             inPlace == IF place[r] = "installed" THEN bytes ELSE pulled
         IN IF staged = NoFile
            THEN /\ pulled' = inPlace
                 /\ staging' = NoFile
                 /\ place' = [place EXCEPT ![r] = "unlinked"]
                 /\ AfterPull(r, inPlace)
            ELSE /\ pulled' = staged
                 /\ staging' = NoFile
                 /\ place' = [q \in Readers |->
                                IF q # r /\ place[q] = "staging"
                                THEN "installed" ELSE "unlinked"]
                 /\ ReaderGoto(r, "load")
    /\ overlap' = [overlap EXCEPT ![r] = "none"]
    /\ UNCHANGED <<storeVars, writerVars, stream, faults>>

\* Storage fails in object_exists or in the download: the staging path is
\* unlinked and the search goes on with the file another pull left, if any.
PullFails(r) ==
    /\ rpc[r] \in {"exists", "get", "pull"}
    /\ Fault
    /\ staging' = NoFile
    /\ place' = [q \in Readers |-> IF q # r /\ place[q] = "installed"
                                   THEN "installed" ELSE "unlinked"]
    /\ AfterPull(r, pulled)
    /\ overlap' = [overlap EXCEPT ![r] = "none"]
    /\ UNCHANGED <<storeVars, writerVars, pulled, stream>>

\* The deadline of the retrieval cancels it: the stream is closed, and the
\* handler of Exception does not run.
Timeout(r) ==
    /\ rpc[r] # "idle"
    /\ Fault
    /\ ReaderGoto(r, "idle")
    /\ place' = [place EXCEPT ![r] = "unlinked"]
    /\ overlap' = [overlap EXCEPT ![r] = "none"]
    /\ UNCHANGED <<storeVars, writerVars, fileVars, stream>>

\* _load_local reads the file: a search over it, or ProjectIndexUnavailable.
Load(r) ==
    /\ rpc[r] = "load"
    /\ ReaderGoto(r, "idle")
    /\ UNCHANGED <<storeVars, writerVars, fileVars, stream, place, overlap, faults>>

Next ==
    \/ \E d \in Docs : RequestDeletion(d)
    \/ \E w \in Writers :
         \/ \E d \in Docs : StartIndex(w, d) \/ StartDelete(w, d)
         \/ Embed(w) \/ Acquire(w) \/ Open(w) \/ Write(w)
         \/ Upload(w) \/ UploadFails(w) \/ Purge(w) \/ Finish(w)
    \/ WorkerCrash
    \/ \E r \in Readers :
         \/ Search(r) \/ ObjectExists(r) \/ Get(r) \/ Fetched(r)
         \/ PullFails(r) \/ Timeout(r) \/ Load(r)

Spec == Init /\ [][Next]_vars

-----------------------------------------------------------------------------
(***************************************************************************)
(* Properties.                                                             *)
(***************************************************************************)

\* A document is marked ready only when its rows, the worker's file and the
\* published snapshot hold it, and no edit for another document, no failed
\* upload and no restart between load and upload loses it again.
ReadyPublished ==
    \A d \in Docs : status[d] = "ready" =>
        /\ d \in rows
        /\ d \in local
        /\ d \in snapshot

\* A deleted document has left the rows, the worker's file and the published
\* snapshot, and nothing published later brings it back.
DeletedUnpublished ==
    \A d \in Docs : status[d] = "deleted" =>
        /\ d \notin rows
        /\ d \notin local
        /\ d \notin snapshot

\* Timeouts, failed downloads, restarts of the worker and snapshots replaced
\* meanwhile never put a file that is not a whole index at the index path:
\* only downloads of one process that overlap do.
TornByOverlap ==
    [][pulled' = Torn =>
          pulled = Torn \/ \E r \in Readers : Downloading(r) /\ overlap[r] # "none"]_vars

\* To the owner of a document and to whoever pulls the snapshot the index is
\* what PublishedIndex says: an upload after failed uploads, restarts and edits
\* for other documents takes in nothing but documents being ingested and drops
\* nothing but documents being deleted.
Public == INSTANCE PublishedIndex WITH phase <- status, published <- snapshot \ NoFile
PublicationRefined == Public!Spec
=============================================================================
