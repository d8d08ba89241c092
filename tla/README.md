# Verification of the cowork agent

TLA+ models of the cowork agent's backend (`src/src/cowork_agent`), checked
with TLC and proved with TLAPS. Paths below are relative to
`src/src/cowork_agent/` unless they start with `src/`.

The agent reads a user's mailbox and plans actions from it (mail digests),
answers questions in a chat with memory, and keeps documents per project for
retrieval. One API process (FastAPI, `app.py`, `composition.py`) serves
requests and runs digests as background tasks. Any number of worker processes
(`orchestration/worker.py`) poll PostgreSQL. Nothing but the database and the
object storage connects them: every queue is a table, every lock is a
compare-and-set on a row, every lease is a timestamp, and a crashed process is
noticed only by someone else's timeout. That is where the tests do not reach
and where the models are.

## 1. Inventory

| Component | State | Operations | Hard behaviour | What makes it correct |
|---|---|---|---|---|
| Digest control plane: `api/digest_runs.py`, `features/email_action_plan/workflow.py`, `orchestration/{postgres_poller,recovery,worker}.py`, `persistence/repositories/postgres.py` | `digest_runs`, `tasks`, `task_run_links`, `outbox_events`; raw bodies in process memory | idempotent create, claim, execute, save, sweep, relay | API tasks and pollers race for a run; a slow execution is superseded; a crash at any await; sweeps act on old listings | leases exclude each other, finished runs stay finished, results match what they advertise, every run finishes |
| Project documents: `api/projects.py`, `orchestration/project_document_worker.py`, `persistence/repositories/{projects,project_document_chunks}.py`, `integrations/rag/project_documents.py` | document, ingestion-job and cleanup-job rows; sources; chunk rows; vectors | initiate, upload, complete, delete, expire, ingest, retry, clean up, reset stale leases | one state spread over five stores without a common transaction; leases without fencing; deletion during ingestion | the two state machines of document and job agree, what is ready can be found, what is withdrawn stays withdrawn and is purged |
| Project index: `integrations/rag/project_index.py`, `integrations/storage/supabase.py` | one `.tvim` file per project and host, one snapshot in storage | add, remove, drop, pull, search | whole-file snapshots under an in-process lock; uploads that fail after they landed; downloads of concurrent retrievals through one staging path | what is ready is published, what is deleted is not, a reader's file is whole |
| Batch evaluation: `features/batch_evaluation/{service,supervisor,runner,credentials,artifacts}.py`, `persistence/repositories/evaluation_jobs.py` | SQLite jobs, units and attempts; supervisor tasks and a lock; credential pool; manifest files | submit, run lanes, lease and rotate keys, cancel, collect, report, recover, close | restart in the middle, cancellation against completion, keys on cooldown, budgets, shielded writes | no unknown attempt is replayed, an announced outcome has its report, every queued job ends |
| Chat turns: `features/ai_chat/{controller,turn_journal,task_episode_settlement}.py`, `persistence/repositories/{chat_history,sqlite_chat}.py`, `api/chat.py` | turn rows; per session a lock, live turns, cancelled ids, finished streams, parked episodes, the buffer | stream, record, settle, complete, fail, replay, cancel, retry by key | cancellation from another request while the journal writes its own snapshot; disconnects and restarts between any two statements | an answer, once durable, is kept and remembered once; a cached answer is durable; the lock is always released |
| Task episodes: `features/ai_chat/{task_episode_settlement,memory_gateway}.py`, `persistence/repositories/{postgres,sqlite_chat}.py` | `task_episodes`, parked writes and cached episodes of each process | settle, replay, approve, complete, reject, delete, purge, retrieve | a write whose acknowledgement was lost, a replay and a decision in any order, across processes | a decision is never undone, caches only lag behind, something current is always retrieved |
| Mail scans: `features/ai_chat/{mail_scan_reconciliation,session_buffer}.py`, `api/chat.py`, `persistence/repositories/chat_history.py`, `src/frontend/src/dashboard/hooks/{useStreamingChat,mailScanProtocol}.ts` | one turn row per scan, or its place in the buffer; in the dashboard the providers' progress, the activities shown, a chain of posts | post a snapshot, begin, reconcile, store; poll, show, queue, stop, retry | read and replace in two transactions; posts beside the chain, posts outliving their caller; a retry under the key of an ended turn | a turn is coherent, its activities move forward, an ended one stays, an undisturbed scan is recorded as shown |
| Resilience: `integrations/security/resilience.py`, `integrations/key_rotation.py` | breaker state, quarantined keys | admit, record, reset, rotate | results of calls admitted before a trip arrive after it | a recovered service is used again |
| OAuth and connections: `integrations/gmail/auth.py`, `integrations/google_calendar/oauth.py`, `persistence/repositories/*_connections.py` | nonces, connection rows | begin, callback, upsert | callback on another process, replayed state | a state is used at most once |
| Retrieval: `integrations/rag/{rrf,mmr,bm25,hybrid}.py` | none | rank, fuse | ties, empty lists | fused rank agrees with its definition |
| Providers, parsing, prompts, reports, the rest of the frontend | none, or external | I/O | | not modelled: I/O, text, views |

How they interact. The digest poller's maintenance (once a minute) sweeps
stuck runs, resets stale document leases (`orchestration/document_recovery.py`)
and relays the outbox; so one process recovers both planes. Document rows gate
retrieval, chunk rows hold text and vector ids, the index holds the vectors.
Chat reads runs and documents and writes neither; its episodes come back into
later turns through retrieval. The worker process edits the index and publishes
it, API processes pull it. Batch evaluation lives in one process with its own
SQLite file and shares nothing with the rest but the providers. `PROJECT.json` lists the
components, and under `hazards` what can go wrong in each, at its line.

## 2. Modules

| Module | Models | Extends |
|---|---|---|
| `RunLifecycle` | abstract: what the owner of a run and the consumers of its event are promised | |
| `DigestRuns` | the digest control plane; instantiates `RunLifecycle` under a refinement mapping | |
| `DigestRunsProofs` | its theorems, the refinement included | `DigestRuns`, `TLAPS` |
| `MCDigestRuns` | its instances for TLC | `DigestRuns` |
| `DocumentLifecycle` | abstract: what a user is promised of a document | |
| `ProjectDocuments` | the document plane; instantiates `DocumentLifecycle` under a refinement mapping | |
| `ProjectDocumentsProofs` | its theorems, the refinement included | `ProjectDocuments`, `TLAPS` |
| `MCProjectDocuments` | its instances: which faults a run considers | `ProjectDocuments` |
| `ChatTurns` | the turns of one chat session | |
| `ChatTurnsProofs` | its theorems | `ChatTurns`, `TLAPS` |
| `MCChatTurns` | its symmetry for TLC | `ChatTurns` |
| `TaskEpisodes` | what becomes of the episodes chat turns propose | |
| `TaskEpisodesProofs` | its theorems | `TaskEpisodes`, `TLAPS` |
| `MCTaskEpisodes` | its symmetry for TLC | `TaskEpisodes` |
| `PublishedIndex` | abstract: which documents a published snapshot takes in and drops | |
| `ProjectIndex` | the index file, its snapshot and its readers; instantiates `PublishedIndex` | |
| `ProjectIndexProofs` | its theorems, the refinement included | `ProjectIndex`, `TLAPS` |
| `MCProjectIndex` | its symmetry for TLC | `ProjectIndex` |
| `JobLifecycle` | abstract: what a client is promised of an evaluation job | |
| `EvaluationJobs` | batch evaluation with its credential pool; instantiates `JobLifecycle` under a refinement mapping | |
| `EvaluationJobsProofs` | its invariant and safety theorems | `EvaluationJobs`, `TLAPS` |
| `JobLifecycleProofs` | the refinement | `EvaluationJobsProofs` |
| `MCEvaluationJobs` | its symmetry for TLC | `EvaluationJobs` |
| `MailTurnLifecycle` | abstract: what a reader is promised of a mail-scan turn | |
| `MailTurns` | the endpoint that records a scan, over the history store or the buffer; instantiates `MailTurnLifecycle` | |
| `MailScans` | the dashboard that runs a scan and posts its progress | `MailTurns` |
| `MailTurnsProofs` | the theorems of both, the refinement included | `MailScans`, `TLAPS` |
| `MCMailScans` | their instance: the plan of a scan and symmetry | `MailScans` |

Two pairs meet at a boundary rather than in a product. `ProjectDocuments` keeps
the index as a set of vectors that a step changes at once; `ProjectIndex` opens
that step up into load, edit, write, upload and download, and takes from the
document plane that one poller handles a document at a time, which the leases
give when no execution outlives its own. `ChatTurns` knows of an episode only
that its write may be parked; `TaskEpisodes` takes from it that a stream holds
the lock of its session in one process.

In every model an action is one SQL statement or transaction, or one stretch
of Python between two awaits: exactly the units other processes can see
between. Every execution has a program counter `pc` and its Python locals,
which `Return` (in the chat, `Leave`) drops. Definitions named "Mutant" in a comment are plausible
bugs of the definition after them. They are no part of the specification:
replacing the definition by its mutant must break a checked property, which
shows that the property depends on that code.

### DigestRuns

| Model | Code |
|---|---|
| `CreateRun`, `Poll` | POST handler with its background task, `PostgresPoller.poll_once` |
| `Claim` | `claim`, a CAS on `status = 'queued'`, with the clock read before it |
| `Fetch`, `Generate`, `CheckSeen`, `WriteTask`, `FinishTry`, `FailTry` | the try block of `DigestWorker.execute`; `save_task` is two statements, so two steps |
| `EndTry` | the finalizer that drops raw bodies |
| `SaveRun`, `AppendEvent` | the final UPDATE by id alone; the event, in a second transaction |
| `StartSweep`, `ResetStuck`, `StartPublish`, `Publish`, `EndMaintenance` | `sweep_stuck_runs` over a listing, `reset_stuck_run` as a CAS, the outbox relay |
| `Crash`, `SaveRunFails`, `AppendEventFails`, `MaintenanceFails`, `Tick` | process death, failing writes, time |

Mail is abstracted to the plan an execution may produce (`Plans`): which
message anchors a task and under which title, at most one generated task per
thread, plus a warning for each mail the API's scanner quarantined (workers
have no scanner). A replay may produce any other plan, as a model call may.
The fingerprint is thread and title: `workflow.py:501` prefers a task's
incident key to its thread, but a task takes its candidate's
(`parsers.py:75`), and `correlate_candidates` gives every candidate None
(`correlation.py:100`, "deferred" by its docstring).
`started_at` is the lease: `claim` writes the executor's clock there, and a
sweep may requeue the run once that is older than `RunningTimeout`. A
superseded execution is not stopped. It keeps saving tasks and ends with an
unconditional UPDATE; the docstring of `recovery.py` concedes this overlap, so
the properties speak of leases and of rows and do not claim that only one
execution is alive. A cancelled asyncio task is covered by `Crash`: it, too,
leaves the row running and drops the locals (a crash also takes the process's
other executions with it).

### ProjectDocuments

| Model | Code |
|---|---|
| `InitiateUpload`, `UploadSource`, `BeginComplete`, `CompleteUpload` | POST document, PUT source, POST complete (read and INSERT on two connections) |
| `DeleteDocument`, `DeleteProject`, `Expire` | deletion requests, `expires_at` passing |
| `PollJob`, `ClaimJob`, `Extract`, `BeginIndexing`, `WriteRows`, `AddVectors`, `Publish`, `Finish` | `ProjectDocumentIngestionWorker.execute` |
| `IndexingFails`, `DatabaseFails`, `RetryJob`, `Fail`, `FailJob` | its exception handlers |
| `ListVectors`, `RemoveVectors`, `PurgeRows`, `StoreFails` | `delete_document` of the vector store, for the ingester's best-effort purge and for the cleaner |
| `PollCleanup`, `ClaimCleanup`, `DeleteSource`, `FinishCleanup`, `CleanupFailed` | `next_claimable_cleanup` (which also expires documents), `ProjectDocumentCleanupWorker.execute` |
| `ResetStale`, `Crash` | `reset_stale_jobs`, process death |

Time is not modelled: a lease may be found expired at any step its holder has
not finished. Finding it expired under a *live* holder counts as the fault
`slow`. Retry delays have any length. One chunk stands for the chunks of a
document and carries a `vector_id`; a purged and reinserted row gets another
one, never one still in use. `attempts` saturates at `MaxAttempts`, beyond
which the code does not distinguish values. `DeleteDocument` reads the row and
then updates it under `status <> 'deleted'`; only the UPDATE's guard
constrains it here, since the read may be old. In the same way
`InitiateUpload` has no guard on the project: `require_project` reads it on an
earlier connection, and a document may be made in a project deleted since.

### ChatTurns

| Model | Code |
|---|---|
| `Submit`, `Acquire`, `Disconnect` | POST message, `_turn_lock` and the lookups under it, the teardown of an SSE request |
| `Rewrite`, `Replay` | `TaskEpisodeSettler.replay`, a finished stream served again |
| `Begin`, `BeginFails`, `Reopen`, `ReopenFails`, `Adopt` | `begin_turn`, the reopening UPDATE, `TurnJournal.adopt` |
| `ReplayCompleted`, `Route`, `Stop` | an answer found in the row, routing, a tripped `CancellationGuard` |
| `Record`, `RecordRefused`, `Recorded` | `TurnJournal.record`: transition, UPDATE, registry |
| `Reply`, `ReplyFails`, `FailWrite`, `Fail` | the generated reply, `_fail_turn` and the error event |
| `Draft`, `Drafted`, `Settle`, `Persist`, `PersistFails`, `Remember`, `Finish` | the two ways to complete a turn, with and without a task |
| `Cancel`, `CancelWrite`, `CancelFails`, `CancelDone` | `cancel_turn`, which never takes the lock |
| `Crash` | a restart: only the rows survive |

One session's controller is modelled; sessions share nothing but tables. A key
stands for its turn, because the row is unique by it. The activities of a turn
are abstracted to `trail`, the number of transitions recorded; a real turn
records three to seven before its reply, and `Records` of them stand for these.
What a transition depends on is whether the activity is already in the row,
which happens when an interrupted attempt left its trail there, and that is
kept. A request may be torn down at any await, before or after the statement it
waited for took effect, as with PostgreSQL; an SQLite write handed to a thread,
which could land after the teardown, is not modelled. Also left out: what is
said in a turn, mail-scan turns, deletion of the session, a controller without
history, conflicting reuse of a key, and the event transport.

### TaskEpisodes

| Model | Code |
|---|---|
| `Propose`, `Retry` | a turn that reads its context and drafts a task; the replay of a parked write |
| `Write`, `WriteUnacked` | the upsert by `record_id`, conditional on identity and status; one whose acknowledgement is lost |
| `Settle`, `Replayed`, `Finish` | `TaskEpisodeSettler.settle`, `replay`, the turn completed and the write parked |
| `Ask`, `Load`, `Refuse`, `Transit`, `Delete`, `Conclude` | the episode endpoints: cached or read, the lifecycle, the compare-and-set, the row's deletion, the cache |
| `Retrieved`, `Findings` | the retrieval predicate, the limit, and the rule that superseded episodes are dropped |
| `Expire`, `Purge`, `Abandon`, `Restart` | retention, a stream torn down, a process that starts again |

The PostgreSQL store is modelled, with any number of processes. Episodes are
numbered as they are minted. `updated_at` always grows along a row, so the
upsert's comparison of it never decides and is left out; whether a query's
words match an episode is a free choice.

### ProjectIndex

| Model | Code |
|---|---|
| `StartIndex`, `Embed`, `StartDelete`, `Purge`, `Finish` | `HybridProjectDocumentStore.index`, `delete_document` and the status written after them |
| `Acquire`, `Open`, `Write`, `Upload`, `UploadFails` | `TurbovecProjectIndexStore.add` and `remove` under the project's lock |
| `RequestDeletion`, `WorkerCrash` | a deletion request, a restart on the same disk |
| `Search`, `ObjectExists`, `Get`, `Fetched`, `PullFails`, `Timeout`, `Load` | a retrieval: local file or `_pull_snapshot`, the download into the staging path and its rename, a failing storage, the deadline |

A vector stands for a document's vectors. The path of a file and the file are
kept apart (`place`): a download goes on writing into a file that another one
renamed or unlinked. What a file holds that two downloads wrote is either the
snapshot or a broken file.

### EvaluationJobs

| Model | Code |
|---|---|
| `Submit`, `Validate`, `AddUnits`, `Queue`, `Schedule` | `EvaluationJobService.submit`: four durable steps, then the task |
| `Begin`, `Plan`, `PlanFails`, `UnplannedEnd`, `Ready`, `Promote`, `Join`, `Drained` | `EvaluationJobRunner.run` up to the end of its lanes |
| `Outcomes`, `OutcomesFail`, `Check`, `Collect`, `Report`, `Verify`, `Finish`, `Raised`, `CancelReport`, `CancelEnd` | collection, the manifest, the terminal state, a run that raises, the report of a cancelled job |
| `Lease`, `NextUnit`, `LaneCheck`, `Claim`, `Try`, `Start`, `Call`, `Judge`, `Settle`, `Confirm`, `Backoff`, `Complete`, `Release` | a lane in either execution mode: credential, the synchronous and the awaited check of its loop, unit, attempts, provider, outcome |
| `Recovered` | a key whose cooldown has passed |
| `InterruptOutside`, `InterruptClaim`, `InterruptStart`, `InterruptCall`, `InterruptUnit`, `InterruptComplete` | the `CancelledError` at each await, with what is shielded and what is not |
| `Land` | `complete_unit` is awaited by a fixed lane without a shield (`runner.py:618`): what `late` says its thread has still to write lands after the lane was interrupted, at any time before the process dies |
| `RequestCancel`, `Stop`, `Await`, `CancelFinish` | `EvaluationSupervisor.cancel` under its lock |
| `Crash`, `Recover`, `Classify`, `Resume`, `Serve` | process death and `EvaluationSupervisor.recover` |

An attempt is started only when the unit has none or its last one failed, so
number and state of the last attempt stand for the list. `doubtful` is a
history variable: the units for which a provider call was cut short. What a
plug-in computes is an outcome, and of the budgets only that of requests is
kept. The only registered plug-in never answers with a cancelled unit, though
`_validate_outcome` would take one, and its `classify_failure` never names a
state for the key (`plugins/memory_eval.py`), so neither is an outcome of
`Call`; a key cools down or is disabled by the provider's answer. Left out: an
orderly shutdown of the supervisor, `evaluation_steps` (progress for display)
and database failures.

### MailTurns and MailScans

| Model | Code |
|---|---|
| `Valid`, `Draft`, `Refuse` | `persist_mail_scan` before it touches the store: 404, 422, or a key used for another text |
| `Begin` | `begin_turn`, then `reconcile_mail_turn` with no await between |
| `Store` | `update_turn`, the second transaction, by id alone |
| `Mergeable`, `Merge`, `Settled`, `Reconcilable`, `Acceptable`, `Update` | `reconcile_mail_activities` and `reconcile_mail_turn`: when they raise, and what they return |
| `Upsert`, `Evict` | `upsert_buffer_mail_turn`; the turn pushed out of the buffer or expired |
| `Lose`, `DeleteSession` | a call that never arrives or dies, deletion of the session with its rows |
| `Start`, `Publish`, `Finish` | `sendMessage` and `retryTurn`, a provider's progress, the end of the scan |
| `PostNext`, `DropNext`, `Answer`, `LoseAnswer` | the promise chain of `mailPersistQueueRef`, an aborted fetch, `persistMailScanTurn` after its response |
| `StopScan`, `StopSaving`, `ScanFails`, `Delete` | `stopGeneration` while polling or while the last post is awaited, a scan that raises, `deleteChat` |

`MailTurns` lets anybody post anything; `MailScans` adds the client whose
requests these are, and shares the server's actions. `durable` says which of the
two stores a deployment has; it never changes. A stop aborts a fetch, and
what it aborts may still be served (`Serve`), which is why a handler can outlive
the wait for it. Texts, counts, outcomes, details and time stamps are left out,
since a request is refused for them before it touches a turn. (The times
of activities are the exception: `reconcile_mail_activities` checks their order
after `begin_turn`, but the server stamps them itself, so only a server whose
clock runs backwards can refuse there.) Left out too are the new
session a 404 may open and the cancellation endpoints, which answer 404 for a
mail turn, because no controller runs it. What is not an error of the payload is
kept: the order of the checks, the two transactions, and that a turn that has
ended is returned as it is.

## 3. Runs

`pass` runs check whole state spaces; figures are distinct states.

| Run | Question | Bounds | Result |
|---|---|---|---|
| `digest_leases` | do claims, sweeps, crashes and final saves of three executors keep the lease of a run exclusive and a fresh claim safe from stale sweeps? | 2 pollers, 1 API task, 1 run, 1 message, timeout 0 ticks, 1 tick, 1 fault | holds, 1.5M |
| `digest_runs` | after crashes, supersessions and replays with other plans, do raw bodies go, is `RunLifecycle` implemented, does every run finish and every event get relayed? | 1 poller, 1 API task, 2 messages of one thread, timeout 1, 2 ticks, 1 fault | holds, 377K |
| `docs_safety` | do document, job, cleanup and source agree, and is the promised lifecycle implemented, whatever overlaps and fails? | 2 ingesters, 1 cleaner, 1 document, 2 vector ids, all faults, at most 2 | holds, 1.45M |
| `docs_live` | does every upload settle, does every deletion complete, is every ready document retrievable? | 1 ingester, 1 cleaner, 4 vector ids, ingester crashes and store failures, at most 2 | holds, 257K |
| `chat_turns` | are cached answers durable, are answers kept, does the session remember each once? | 2 streams, 1 canceller, a task message and a plain one, 2 records, failing turn writes, crashes, disconnects | holds, 533K |
| `chat_live` | does every waiting message get its answer or its error? | 3 streams of one task message, 1 canceller, 1 record, all faults | holds, 110K |
| `episodes` | what becomes of an episode's row, of what processes believe of it and of retrieval? | 2 processes, 2 turns, 2 episodes, 1 user, 2 items; a lost acknowledgement, restart, hang-up or expiry, 1 of them | holds, 4.2M |
| `index` | is what is ready published and what is deleted not, is a reader's file whole, is `PublishedIndex` implemented? | 2 documents, 2 pollers, 2 retrievals, 2 faults of any kind | holds, 1.6M |
| `eval_jobs` | are credentials and units exclusive, is no unknown attempt replayed, is the promised lifecycle implemented? | 1 job of 2 units in either mode, 2 lanes, 2 attempts, budget 2, 2 keys, 1 canceller; a crash, failed preflight or unreadable artifact | holds, 1.54M |
| `eval_live` | does every queued job end, does every cancellation? | the same with 1 lane and 1 key | holds, 137K |
| `mail_scans` | is the turn coherent and what can an overlap lose, is an undisturbed scan recorded as shown, are its posts accepted, does an ended turn stay? | history store or buffer, 2 providers, 4 posts, 2 attempts, 2 waiting snapshots, 4 statuses of a run, 1 kind of disturbance, any number of times | holds, 219K |
| `chat_cancel` | a turn whose cancellation was acknowledged stays cancelled | no faults | violated |

Why the bounds are enough. Three executors are what the sweep race needs: a
sweeper with an old listing, a second sweeper that requeues, a third that
claims afresh; with one poller that mutant goes unnoticed. Two replies of one
thread are what a replay needs to anchor the same task elsewhere. A timeout of
0 ticks lets a lease expire at every tick; one tick already separates a claim
from its supersession, and `digest_runs` uses a longer clock because a fault
is only taken while the clock can still run past the timeout (`Fault`), lest
`MaxTime` hide the recovery. So its fault strikes in the first tick, and a
live execution is superseded in the third. One document is enough for the documents: rows of
different documents share only the project's closing and the index. Two
ingesters give one overlapping pair; three vector ids are what a purge, a
reinsert and a late writer need, a fourth leaves slack, and the two of
`docs_safety` are enough because its properties do not look at vectors. Each
safety property that a theorem covers (section 5) holds for all values of
these constants in any case. Symmetry is used for safety runs only, over
pollers, messages, workers and vector ids, which the code treats alike.
`docs_live` contains no `slow` and no `database` fault: with them
`ReadyRetrievable` is false (section 4 says how the second breaks it).

In the chat two streams contend for the lock and a third waits in `chat_live`;
the two messages differ in what completes them. With two records, one precedes
each guard and one follows routing, which is all the code's longer trail adds.
Faults of the chat are not counted: its state space is finite with any number
of them. `chat_turns` has no failing cancellation writes, because with them
`RememberedOnce` is false (section 5 proves it without them): a late cancellation overwrites the committed answer
while its client disconnects, the retry reopens the row, a second cancellation
fails and so drops the turn from the cancelled ids, the retry generates, and
the session remembers the turn twice. Restarts empty the buffer and so
`RememberedOnce` speaks of one process. The durable properties are proved with
all faults. Symmetry is over streams and cancellers.

Two processes and two episodes of one or two turns give each way in which a
writer, a decider and a stale cache meet on one row, and a chain in which one
episode supersedes the other. The index needs a second poller for an edit that
would be lost and a second retrieval for overlapping downloads; the second
fault is a failed upload followed by a restart, or a deadline and a failed
download. In `eval_jobs` two lanes contend for units and keys; a budget of two
is spent by two first attempts or by one unit's two; a fault more would mostly
repeat the first, and the theorems cover any number. Only keys and cancellers
are symmetric: lanes are not, since shards are assigned by lane number. In
`eval_live` one lane is enough, because no lane waits for another.

In `mail_scans` two providers are what a relapse to
"connecting" needs. Four posts carry a scan to its end with a relapse on the
way, or a scan with its stop or with a retry; several kinds of disturbance in one
behaviour are left to the theorem, and so are requests no dashboard sends.
Queued and running make the same snapshot but
for the status, and partial comes from two providers that end differently, so
providers report four of the six statuses; the theorems have all. A provider's answer is
shown without waiting, and queued if the queue is not full. When the queue is
full the answer waits, which is an order the code can take as well.

`CHECK_DEADLOCK FALSE` is used where the system may stop: a withdrawn document
in a closed project, a turn whose episodes are all minted, documents that are
all deleted, a job that has ended, posts that are all made.

### Fairness

`run_forever` of the pollers loops for ever and awaits each step it starts, so
each execution's steps and each poll that stays possible are weakly fair. The
digest poller alternates between maintenance and polling; either may be
disabled while the other runs and both come round again, hence strong fairness
of `StartSweep` and `Poll` there. The clock ticks. In the document plane
`ResetStale` is weakly fair because maintenance calls it every minute in any
poller process, and `CompleteUpload` because a request that has read the row
goes on to its INSERT. `asyncio.Lock` wakes its waiters in order, hence strong
fairness of `Acquire`; a chat stream goes on because its awaits on stores and
providers have timeouts. A submission, a runner, a lane and a cancellation of
the evaluation are asyncio tasks that are run when they can run, since the
provider answers or is timed out; the supervisor recovers when the process is
started again, and it is started again. No key need ever cool off: a lane whose
credential is not back fails its unit. No fairness is given to requests, failures, crashes, or
to the particular outcome of a step that may succeed or fail.

## 4. Findings

- **An acknowledged cancellation is overwritten** (`chat_cancel`). `record`
  writes the journal's own snapshot, still generating, and `update_turn` does
  not look at the row. The stream then stops at a later guard and the row says
  generating until somebody retries it.
### Seen while modelling

These disagree with a text of the repository, and TLC found each as a violated
property before its run made room for others:

- Lifecycle events can be lost. The terminal row and its event are two
  transactions, the second's failure is only logged, and a terminal run is
  never executed again (`features/email_action_plan/workflow.py:569`, against
  the docstring at 574).
- A cleanup whose process dies is never run again: `next_claimable_cleanup`
  picks queued and failed jobs, nothing resets a running one
  (`persistence/repositories/projects.py:753`, against `c3-worker.md:59`).
- Chunk text survives a deletion. An ingester that was indexing when the
  deletion completed inserts the chunk rows again
  (`persistence/repositories/project_document_chunks.py:66`, against
  `c3-worker.md:62`).
- A turn interrupted after its first activity cannot be retried. Its row is
  still generating, the retry adopts its activities, and completing the first
  one again raises (`features/ai_chat/controller.py:606`, against the
  parallel-chat lifecycle design of 2026-08-17, line 21).
- A superseded episode can be retrieved: supersession is looked up only among
  the at most five results of one query
  (`features/ai_chat/memory_gateway.py:225`, against
  `AI-CHAT-MEMORY-EXPLAINED.md:549`). `CurrentRemains` is the part that holds.
- A reader's index can be torn. Concurrent downloads of one process share a
  staging path without a lock (`integrations/rag/project_index.py:239`, against
  the comment at line 10), and a torn file stays, since a local file is used as
  it is. `TornByOverlap` is the part that holds: nothing else tears it.
- A mail turn that has failed becomes generating again. `reconcile_mail_turn`
  refuses a regression (`mail_scan_reconciliation.py:172`, "terminal mail turn
  cannot regress"), but it compares with what `begin_turn` returned, and
  `update_turn` replaces whatever the row holds by then
  (`persistence/repositories/chat_history.py:95`). When the mailboxes cannot be
  listed, the dashboard posts the failed turn at once, beside the post of the
  first snapshot (`useStreamingChat.ts:1349`). If the failure is stored between
  the two transactions of the first post, that post's handler stores generating
  over it, and nothing is posted afterwards. `LostByOverlap` and `EndKept` are
  the parts that hold: it takes such an overlap, and one happens only after a
  stop, an immediate failure, a lost answer, a deletion or an eviction.

Others, which no text denies:
- Two runs can both call a task new: `save_task` selects before it upserts,
  without a lock.
- A replay may list one task twice under two anchoring messages, since the
  fingerprint set is local to an execution.
- A lease that expires under a slow worker lets two executions of one run or
  document overlap (both docs deny it, `recovery.py` concedes it).
- A resubmitted document can wait for ever. `_fail` moves the document and then
  the job; a crash between leaves the job leased under a failed document, the
  next upload makes the document received, and `reset_stale_jobs` wants a
  document in flight.
- An upload request that checked its project just before the project was
  deleted makes a document there afterwards, which the deletion's cleanup has
  not seen.
- A ready document can lose its vectors. When `finish_job` raises after the
  document became ready, the handler purges the vectors, and the retry that
  should write them again is refused.
- A source uploaded through a still valid URL after the cleanup stays in
  storage.
- A cancelled turn id is never forgotten (`_cancelled_turn_ids`), so a retry of
  its key reopens the row and stops silently at the first guard, until the
  process restarts. A cancellation whose write fails forgets the id, that of an
  earlier acknowledged cancellation included.
- Evaluation, submission: a crash between the insert of a job and its move to
  queued strands it as accepted or validating, which recovery does not list;
  its idempotency key then returns it for ever. Units may be added to a job
  that was cancelled meanwhile.
- Evaluation, budgets: the ledger is created by each run of a job
  (`runner.py:434`), so a restart may spend the budget again.
- Evaluation, cancellation: a lane interrupted while it classifies an answer,
  and a crash while a cancellation is being carried out, leave the attempt
  running in a terminal job (`supervisor.py:31` and `:139`, where the batch
  evaluation spec, line 440, wants it settled).
- Evaluation, cancellation: a unit may be settled after its job has ended as
  cancelled. The lane was interrupted while a thread was writing the outcome,
  and nothing waits for that thread. `complete_unit` asks for a claimed unit,
  not for a live job, and no doc promises otherwise; the progress of a
  cancelled job, unlike its manifest, can therefore still move. `JobLifecycle`
  allows it, and TLC finds `JobRefined` violated if it does not.
- Evaluation, failure: a run that raises fails its job without a manifest
  (spec, line 269); a rate limit followed by a timeout within one unit leaves
  the lane pulling under a key that is cooling down (spec, line 458); a resumed
  collection has forgotten the warnings of plug-in cleanups; `complete_unit` is
  not fenced by an owner, which is safe because a process runs a job once; a
  second job that finds no free key fails without having run a unit.
- Episodes: `_delete_task_episode_sync` of the SQLite store has seven
  placeholders and six values, so a deletion there always fails
  (`sqlite_chat.py:649`). A parked write that had landed resurrects a deleted
  episode, undecided. A parked write is lost in a restart although its turn is
  completed. A compare-and-set that misses leaves the cached status stale, and
  the episode answers 404 until the process restarts. The retry of an
  interrupted turn mints another identity and conflicts with the row, so its
  card is never shown. The PostgreSQL transition ignores expiry, SQLite checks
  it; SQLite limits before it filters, and leaves summaries behind when all is
  deleted.
- Mail scans: a stop posts the activities shown, which the answer to an older
  post may have set back, and is then refused with 409; a stop while the last
  post is awaited aborts that post and posts nothing. Either way the row may stay
  generating while the dashboard shows an end. A retry of a failed or cancelled
  scan is refused or ignored post by post, since its key belongs to an ended
  turn: what it finds is shown and not kept.
- Index: an API process never refreshes a file it has pulled, where ADR-008
  speaks of invalidation by `projects.updated_at`. A worker on an empty disk
  starts an empty index and overwrites the snapshot, and its `remove` leaves
  vectors published. A failing `object_exists` of one retrieval unlinks
  another's staging file. `drop` removes only the local file.

## 5. Proofs

All theorems hold for any sets of processes, runs, messages, documents, any
timeout, any fault kinds (two theorems name those they exclude) and any number
of attempts, under
`ConstantsAssumption` of each module (disjoint process sets, natural bounds,
`None` distinct from data), which TLC evaluates in the runs.

`DigestRunsProofs`
- `TypeCorrect`: `[]TypeOK`.
- `LeaseCorrect`, `LeaseRecordedCorrect`: `[]LeaseExclusive` and
  `[]LeaseRecorded`. Exclusivity is not inductive: nothing in it forbids a
  requeue of a leased run. The
  strengthening ties the lease to the row. While an execution is within its
  timeout, the row either carries its very claim clock in `started_at`, or is
  terminal; and the cutoff of a sweep never exceeds the present time minus the
  timeout, so a reset that passes its compare-and-set hits only rows whose
  holder's lease has expired. Two leased executions of one run would then both
  have claimed it, and the later claim needed a row that was queued.
- `FreshClaimStays` and `TerminalStays`: the action properties, from the same
  invariant.
- `OutboxCorrect`: `[]OutboxAfterTerminal`, from `TerminalStays` and the order
  of the save and the append.
- `BodiesCorrect`, `ItemsCorrect`: `[]RawBodiesBounded`, that the raw bodies in
  memory belong to the executions under way that fetched them, and
  `[]AdvertisedItemsListed`, that what a finished run advertises is linked to
  it. The second needs that links of a run are only ever added (`LinksStay`), and
  that an execution has linked what it no longer has to save (`SavedSoFar`).
- `RunCorrect`: `Spec => RunRefined`: the plane implements `RunLifecycle`, with
  the links as the list, the row as verdict and count, and the outbox as the
  announcements. Beside the invariants above it needs that executions work on
  runs that were created (`Created`).

`ProjectDocumentsProofs`
- `TypeCorrect`: `[]TypeOK`.
- `InFlightRecoverable`, `FinishCorrect`: `finish_job` matches on the job's
  status alone. The inductive invariant says that an execution about to finish
  a job is the only one, and that its document has left the in-flight states
  while the job is still leased. A document can only enter flight through
  `claim_job`, which requires a job that is queued or failed; so from the
  moment an execution has settled its document until it finishes the job,
  nobody else can claim it. That is the fence the code does not have a column
  for.
- `CleanupCorrect`: `[]CleanupScheduled`, with the fact that hiding a document
  and enqueuing its cleanup are one transaction and that a completed cleanup
  belongs to a deleted document.
- `SourceCorrect`: `[]SourceKept`. It needs the requests in flight
  (`completing`) and the cleaners about to delete a source.
- `RetrievableCorrect`: `Faults \cap {"slow", "database"} = {} => (Spec =>
  []ReadyRetrievable)`. Without expired leases under live workers an execution
  past its claim is the only one of its document and finds the status it left
  there, or the document hidden (`Standing`, `OneExecution`); so only hidden
  documents are ever stripped.
- `LifecycleCorrect`: `Spec => LifecycleRefined`, that is, the plane
  implements `DocumentLifecycle` under `PhaseOf`; each action maps to
  `Submit`, `Settle`, `Withdraw` or a stutter.

`ChatTurnsProofs`
- `TypeCorrect`: `[]TypeOK`.
- `CachedCorrect`, `CompletedCorrect`: `[]CachedDurable` and `CompletedStays`.
  Neither is inductive: every write of the journal is unconditional, so a
  stream about to record could take an answer back. The strengthening says that
  streams past `Acquire` hold the lock and so are one (`LockExclusive`), that
  a stream which may still write something other than an answer found its row
  without one (`WritersUnanswered`), and that a stream which has persisted its
  answer finds it in the row, or a cancellation (`AnswersWritten`).
- `RememberedCorrect`: `"cancel_write" \notin Faults => (Spec => []RememberedOnce)`.
  A stream that may still remember has a turn the buffer does not list; what
  the buffer lists is completed or marked as cancelled, so a retry finds the
  answer or stops.

`EvaluationJobsProofs`. All theorems follow from one invariant, `JobInv`, whose
conjuncts say where everybody may be: what a process that is down or
recovering leaves alone (`Quiescent`), which durable state a submission, a
runner, a cancellation and the supervisor stand for (`Submitting`,
`RunningJob`, `Cancelled`, `Supervised`, `Draining`, `Decided`), what a lane
has in hand and that it is its own (`InHand`, `Owned`, `Apart`, `Fresh`,
`Blank`), how attempts follow their unit (`Counted`, `Started`, `Doubtful`,
`Certain`), and who holds a key (`Leased`, `Single`, `Held`, `Halted`). There
is one lemma per action, and `Invariance` puts them together. It carries
`LateOwn` along: an outcome that has still to land is that of a unit taken once
and in no lane's hands, and none is left while a process is down or recovering.
Without it a late write might settle the unit of another lane.
- `TypeCorrect`: `[]TypeOK`; with it, attempts and budgets within their limits.
- `LeasesCorrect`, `UnitsCorrect`, `QuietCorrect`: `[]LeaseExclusive`,
  `[]UnitsOwned`, `[]TerminalQuiet`.
- `ReplayCorrect`: `NoReplay`. A doubtful unit is either still in the hands of
  the lane that was cut short, which cannot start it again, or its last attempt
  is in a state `start_attempt` refuses (`Doubtful`), through every restart.

`JobLifecycleProofs`
- `LifecycleCorrect`: `Spec => JobRefined`. Beside `JobInv` it needs that a run
  past its first step is one of a live job (`Live`), that a job with an
  interrupted lane or an outcome still to land was asked to stop or has stopped
  as cancelled (`Stopped`), that a runner about to announce has
  written its report (`Reported`), that its verdict is what the units earned
  (`Earned`), and that a job is run to its cancelled end only after somebody
  asked for it (`Requested`).

`TaskEpisodesProofs`
- `TypeCorrect`: `[]TypeOK`.
- `ForwardCorrect`: `EpisodesMoveForward`. Identities are minted once for one
  turn, so whatever holds an episode (row, draft, parked write) agrees on what
  it supersedes (`Agreed`), and a replayed write changes nothing that was
  decided.
- `CacheCorrect`: `[]CacheBehind`. Not inductive alone: what a writer was
  answered and what a request has read is cached later, so these too must be
  statuses the row has passed (`AnswerSeen`, `UserSeen`).
- `CurrentCorrect`: `[]CurrentRemains`. An episode supersedes only older ones
  (`Linked`), hence the youngest of a result is never dropped.

`ProjectIndexProofs`
- `TypeCorrect`: `[]TypeOK`.
- `PublicationCorrect`, `DeletionCorrect`: `[]ReadyPublished` and
  `[]DeletedUnpublished`. The poller that holds the lock is the only one to
  edit the file, so what it uploads is what it loaded with its own document
  added or removed (`Edits`), and rows outlive vectors (`RowsLast`).
- `TornCorrect`: `TornByOverlap`.
- `PublicCorrect`: `Spec => PublicationRefined`. A poller uploads its whole
  file, so an upload carries whatever earlier attempts left in it. `Ahead` says
  that this is only what is still being ingested, or not yet removed because it
  is being deleted, and that is what `PublishedIndex!Publish` allows.

`MailTurnsProofs`
- `TypeCorrect`, `CoherentCorrect`, `ReplayCorrect`: `[]TypeOK`,
  `[]TurnCoherent`, `[]ReplayHarmless`. A row can be coherent and still become
  incoherent if a call stores what it merged with something else, so the
  invariant `ServerInv` keeps for each call what it saw, that this was coherent
  and acceptable, and that what it will store is `Update` of it (`CallsKept`).
  The rest are lemmas about reconciliation: a merge followed by the settlement
  of its turn is coherent, and to reconcile twice is to reconcile once.
- `BufferCorrect`: `Spec /\ ~durable => TurnRefined`; `OverlapCorrect`:
  `LostByOverlap`. Both rest on the lemma that `Update` of an acceptable request
  is a step of `MailTurnLifecycle` from the turn it was applied to; in the buffer
  that is the row, in the history store it is the row unless another call
  overlapped.
- `ScanTypeCorrect`: `[]ScanTypeOK`, from `DashInv`: what is queued, posted,
  merged and stored is always a snapshot of the dashboard's plan.
- `EndKeptCorrect`: `EndKept`, from `CalmInv`: until a stop, an immediate
  failure, a lost answer, a deletion or an eviction, one post is under way at a
  time and the row is as its handler saw it, so storing is `Update` of the row itself, which
  leaves an ended turn alone.
- `VerdictCorrect`, `RefusalCorrect`: `[]VerdictStored` and
  `[]OnlyRelapseRefused`, from `QuietInv`, the state of a scan that nothing has
  disturbed: whatever is queued, posted or stored is a `Report` of some status
  (`QuietReports`); the final one is the last and is queued, under way or stored
  (`QuietEnd`, `QuietSaving`, `QuietOver`); and with one provider a "connecting"
  report never follows one of another status (`QuietSole`). That a report of an end is
  acceptable after any report that is not one, and that among the others only
  "connecting" can be refused, are lemmas over the statuses.

Some theorems state what no run checks any more, because a stronger property of
a run has it as a consequence: `RunRefined` contains that a finished run stays
finished, lists what it advertises and is announced only then (`TerminalStays`,
`ItemsCorrect`, `OutboxCorrect`), `LeaseRecordedCorrect` is what
`LeaseExclusive` rests on, and `BufferCorrect` is `LostByOverlap` where no call
overlaps. `ReplayCorrect` and the type invariants of the documents, the chat, the
episodes and the index are proved only.

Only model-checked: the liveness properties, since fairness and ENABLED are out
of the prover's reach. Every other property of a passing run is proved.

## 6. Not modelled

The SQLite adapters and the single-process development worker share the
contracts of the PostgreSQL ones without their concurrency. Quotas of uploads
(a read, then an insert: two uploads may pass together), project creation and
renaming, retrieval and read endpoints, ambiguous commits (a statement either
happens or raises here) are left out of the document plane. What the chat, the
episodes, the index, the evaluation and the mail scans leave out is listed with their tables in
section 2.
Providers, prompts, parsing, PDF rendering, scanners, the
frontend beyond its mail scans and offline evaluation scripts are I/O or text.

The circuit breaker and key rotation, OAuth nonces and connections,
retrieval algorithms and the evaluation plug-ins
are components without a module. The first is small and sequential enough for
its unit tests; rankings and plug-ins compute over data that only their
implementations define.

## 7. Plan

Done: the digest plane, the document plane and the project index with an
abstract specification each, the chat's turns, task episodes, batch evaluation
with its credential pool and its abstract lifecycle, and mail scans with theirs.
What is left, in order of weight:

1. **CircuitBreaker** (`integrations/security/resilience.py`): closed, open,
   half-open with calls in flight; rotation of keys whose active set shrinks.
2. **An abstract chat turn** that `ChatTurns` implements, as `MailTurns` does
   `MailTurnLifecycle`: opened, answered, cancelled or failed, reopened only by a
   retry of its key.
3. **Upload quotas** of `ProjectDocuments`: how far concurrent uploads overshoot
   them; OAuth nonces; rank fusion against reference definitions.
4. The index inside `ProjectDocuments`: one composition with overlapping
   executions, in place of the boundary of section 2.

## 8. Running

    tlc -config DigestLeases.cfg MCDigestRuns.tla
    tlc -config DocsSafety.cfg MCProjectDocuments.tla
    tlc -config ChatTurns.cfg MCChatTurns.tla
    tlc -config TaskEpisodes.cfg MCTaskEpisodes.tla
    tlc -config ProjectIndex.cfg MCProjectIndex.tla
    tlc -config EvaluationJobs.cfg MCEvaluationJobs.tla
    tlc -config MailScans.cfg MCMailScans.tla
    tlapm DigestRunsProofs.tla

Each configuration names its module by its prefix: `Digest*.cfg` is for
`MCDigestRuns`, `Docs*.cfg` for `MCProjectDocuments`, `Chat*.cfg` for
`MCChatTurns`, `Evaluation*.cfg` for `MCEvaluationJobs`. Every module named
`*Proofs` is checked by `tlapm` as in the last line.
