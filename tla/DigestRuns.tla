----------------------------- MODULE DigestRuns -----------------------------
(***************************************************************************)
(* The durable mail-digest control plane: the digest_runs table, the       *)
(* executions of DigestWorker in the API process (background tasks of      *)
(* POST /v1/mail-todo/runs) and in the worker processes (PostgresPoller),  *)
(* the stuck-run sweep, the task tables and the lifecycle outbox.          *)
(*                                                                         *)
(* A step is one stretch of code between two awaits, or one SQL statement  *)
(* or transaction.  Mail content, classification and plan generation are   *)
(* abstracted to the plan they produce: which message anchors a task and   *)
(* with which fingerprint.                                                 *)
(***************************************************************************)
EXTENDS Integers, FiniteSets

CONSTANTS
    Runs,           \* digest runs, one per (user_id, idempotency_key)
    Pollers,        \* worker processes, each one PostgresPoller loop
    ApiTasks,       \* background tasks of the one API process
    Messages,       \* provider message ids; they key the tasks table
    ThreadOf,       \* the thread of each message
    Titles,         \* normalized title and deadline of a generated task
    Quarantine,     \* the title of a quarantined mail's warning task
    RunningTimeout, \* DEFAULT_RUNNING_TIMEOUT, in clock ticks
    MaxTime,        \* bound: the clock stops here
    MaxFaults,      \* bound: process crashes and failed database writes
    None            \* SQL NULL / Python None

Executors == Pollers \cup ApiTasks

ASSUME ConstantsAssumption ==
    /\ RunningTimeout \in Nat
    /\ MaxTime \in Nat
    /\ MaxFaults \in Nat
    /\ IsFiniteSet(Messages)
    /\ Pollers \cap ApiTasks = {}
    /\ "api" \notin Pollers
    /\ None \notin Runs \cup Executors \cup Messages \cup Titles \cup {Quarantine}
    /\ None \notin Int \cup {"new", "seen", "succeeded", "partial", "failed"}

Terminal == {"succeeded", "partial", "failed"}
RunStatus == {"absent", "queued", "running"} \cup Terminal

\* The process an execution runs in, and with it its ShortTermStore.
ProcOf(w) == IF w \in ApiTasks THEN "api" ELSE w
Processes == Pollers \cup {"api"}

\* What an execution persists, keyed by anchoring message: one Task Candidate
\* per thread, so at most one generated task per thread, plus a warning for
\* each mail the API process's scanner quarantined (a poller has no scanner).
Plans(w) ==
    {p \in [Messages -> Titles \cup {Quarantine, None}] :
        /\ \A m, n \in Messages :
              m # n /\ ThreadOf[m] = ThreadOf[n]
                => {p[m], p[n]} \cap {Quarantine, None} # {}
        /\ w \in Pollers => \A m \in Messages : p[m] # Quarantine}

Planned(p) == {m \in Messages : p[m] # None}

VARIABLES
    now,         \* wall clock
    status,      \* digest_runs.status
    startedAt,   \* digest_runs.started_at
    createdAt,   \* digest_runs.created_at
    itemCount,   \* digest_runs.action_items_count
    tasks,       \* tasks: title of the row of each message, or None
    links,       \* task_run_links: freshness per run and message, or None
    outbox,      \* outbox_events: status in the event of each run, or None
    published,   \* runs whose event has published_at set
    shortTerm,   \* ShortTermStore._entries of each process
    pc,          \* where each execution (and poller loop) stands
    job,         \* the run id it holds
    clock,       \* the claim clock DigestWorker.execute read
    work,        \* its local data: plan, unsaved messages, flags, result
    stuck,       \* runs a poller's sweep listed and has still to visit
    cutoff,      \* now - running_timeout of that sweep
    pending,     \* outbox events a poller's publisher still has to publish
    faults       \* faults taken so far

runVars == <<status, startedAt, createdAt, itemCount>>
taskVars == <<tasks, links>>
outboxVars == <<outbox, published>>
sweepVars == <<stuck, cutoff, pending>>
vars == <<now, runVars, taskVars, outboxVars, shortTerm, pc, job, clock,
          work, sweepVars, faults>>

NoWork == [plan |-> [m \in Messages |-> None], left |-> {}, msg |-> None,
           skipped |-> FALSE, seen |-> FALSE, result |-> "failed"]

Init ==
    /\ now = 0
    /\ status = [r \in Runs |-> "absent"]
    /\ startedAt = [r \in Runs |-> None]
    /\ createdAt = [r \in Runs |-> 0]
    /\ itemCount = [r \in Runs |-> 0]
    /\ tasks = [m \in Messages |-> None]
    /\ links = [r \in Runs |-> [m \in Messages |-> None]]
    /\ outbox = [r \in Runs |-> None]
    /\ published = {}
    /\ shortTerm = [p \in Processes |-> {}]
    /\ pc = [w \in Executors |-> "idle"]
    /\ job = [w \in Executors |-> None]
    /\ clock = [w \in Executors |-> 0]
    /\ work = [w \in Executors |-> NoWork]
    /\ stuck = [w \in Pollers |-> {}]
    /\ cutoff = [w \in Pollers |-> 0]
    /\ pending = [w \in Pollers |-> {}]
    /\ faults = 0

----------------------------------------------------------------------------
(* Dispatch: the API's POST handler and the poller's poll_once *)

\* The earliest-created runs of S: ORDER BY created_at, ties by opaque id.
Oldest(S) == {r \in S : \A q \in S : createdAt[r] <= createdAt[q]}

\* DigestWorker.execute starts: it reads its clock before it claims.
Dispatch(w, r) ==
    /\ pc' = [pc EXCEPT ![w] = "claim"]
    /\ job' = [job EXCEPT ![w] = r]
    /\ clock' = [clock EXCEPT ![w] = now]
    /\ UNCHANGED work

\* execute returns or raises: its locals are gone.
Return(w) ==
    /\ pc' = [pc EXCEPT ![w] = "idle"]
    /\ job' = [job EXCEPT ![w] = None]
    /\ clock' = [clock EXCEPT ![w] = 0]
    /\ work' = [work EXCEPT ![w] = NoWork]

\* POST /v1/mail-todo/runs: idempotent create, then a background execute,
\* also when the key had already created the run.
CreateRun(w, r) ==
    /\ pc[w] = "idle"
    /\ IF status[r] = "absent"
       THEN /\ status' = [status EXCEPT ![r] = "queued"]
            /\ createdAt' = [createdAt EXCEPT ![r] = now]
       ELSE UNCHANGED <<status, createdAt>>
    /\ Dispatch(w, r)
    /\ UNCHANGED <<now, startedAt, itemCount, taskVars, outboxVars, shortTerm,
                   sweepVars, faults>>

\* poll_once: next_claimable_run, then execute.
Poll(w) ==
    /\ pc[w] = "idle"
    /\ \E r \in Oldest({q \in Runs : status[q] = "queued"}) : Dispatch(w, r)
    /\ UNCHANGED <<now, runVars, taskVars, outboxVars, shortTerm, sweepVars,
                   faults>>

----------------------------------------------------------------------------
(* DigestWorker.execute *)

\* Mutant: the claim also takes over running runs.
ClaimRunning(w) ==
    /\ pc[w] = "claim"
    /\ IF status[job[w]] \in {"queued", "running"}
       THEN /\ status' = [status EXCEPT ![job[w]] = "running"]
            /\ startedAt' = [startedAt EXCEPT ![job[w]] = clock[w]]
            /\ pc' = [pc EXCEPT ![w] = "fetch"]
            /\ UNCHANGED <<job, clock, work>>
       ELSE /\ UNCHANGED <<status, startedAt>>
            /\ Return(w)
    /\ UNCHANGED <<now, createdAt, itemCount, taskVars, outboxVars, shortTerm,
                   sweepVars, faults>>

\* The CAS claim; an execution that loses it only reads the run and returns.
Claim(w) ==
    /\ pc[w] = "claim"
    /\ IF status[job[w]] = "queued"
       THEN /\ status' = [status EXCEPT ![job[w]] = "running"]
            /\ startedAt' = [startedAt EXCEPT ![job[w]] = clock[w]]
            /\ pc' = [pc EXCEPT ![w] = "fetch"]
            /\ UNCHANGED <<job, clock, work>>
       ELSE /\ UNCHANGED <<status, startedAt>>
            /\ Return(w)
    /\ UNCHANGED <<now, createdAt, itemCount, taskVars, outboxVars, shortTerm,
                   sweepVars, faults>>

\* Mutant: no finalizer.
EndTryKeepsBodies(w, result) ==
    /\ pc' = [pc EXCEPT ![w] = "save"]
    /\ work' = [work EXCEPT ![w].result = result]
    /\ UNCHANGED shortTerm

\* The try block ends with a result and the finalizer clears the raw bodies.
EndTry(w, result) ==
    /\ pc' = [pc EXCEPT ![w] = "save"]
    /\ work' = [work EXCEPT ![w].result = result]
    /\ shortTerm' = [shortTerm EXCEPT ![ProcOf(w)] = @ \ {job[w]}]

\* Threads are fetched (some perhaps skipped after their retry budget), the
\* envelopes scanned and put in short-term memory.
Fetch(w) ==
    /\ pc[w] = "fetch"
    /\ \E skipped \in BOOLEAN : work' = [work EXCEPT ![w].skipped = skipped]
    /\ shortTerm' = [shortTerm EXCEPT ![ProcOf(w)] = @ \cup {job[w]}]
    /\ pc' = [pc EXCEPT ![w] = "generate"]
    /\ UNCHANGED <<now, runVars, taskVars, outboxVars, job, clock, sweepVars,
                   faults>>

\* Classification, retrieval, generation, validation and in-run dedup.
Generate(w) ==
    /\ pc[w] = "generate"
    /\ \E p \in Plans(w) :
        work' = [work EXCEPT ![w].plan = p, ![w].left = Planned(p)]
    /\ pc' = [pc EXCEPT ![w] = "persist"]
    /\ UNCHANGED <<now, runVars, taskVars, outboxVars, shortTerm, job, clock,
                   sweepVars, faults>>

\* Any exception of the try block: the run will be saved as failed.
FailTry(w) ==
    /\ pc[w] \in {"fetch", "generate", "persist", "write"}
    /\ EndTry(w, "failed")
    /\ UNCHANGED <<now, runVars, taskVars, outboxVars, job, clock, sweepVars,
                   faults>>

\* A row of the mailbox already carries the fingerprint: the title, and the
\* incident key or else the thread.  No task has an incident key: correlation
\* gives every candidate none (correlation.py:100), and a task takes its
\* candidate's (parsers.py:75).
Known(m, title) ==
    \E n \in Messages : ThreadOf[n] = ThreadOf[m] /\ tasks[n] = title

\* save_task, first statement: freshness is decided by a plain SELECT.
CheckSeen(w) ==
    /\ pc[w] = "persist"
    /\ \E m \in work[w].left :
        work' = [work EXCEPT ![w].msg = m, ![w].seen = Known(m, work[w].plan[m])]
    /\ pc' = [pc EXCEPT ![w] = "write"]
    /\ UNCHANGED <<now, runVars, taskVars, outboxVars, shortTerm, job, clock,
                   sweepVars, faults>>

\* Mutant: a later save overwrites the freshness of the link.
WriteTaskRelabelling(w) ==
    LET m == work[w].msg IN
    /\ pc[w] = "write"
    /\ tasks' = [tasks EXCEPT ![m] = work[w].plan[m]]
    /\ links' = [links EXCEPT ![job[w]][m] = IF work[w].seen THEN "seen" ELSE "new"]
    /\ work' = [work EXCEPT ![w].left = @ \ {m}, ![w].msg = None,
                            ![w].seen = FALSE]
    /\ pc' = [pc EXCEPT ![w] = "persist"]
    /\ UNCHANGED <<now, runVars, outboxVars, shortTerm, job, clock, sweepVars,
                   faults>>

\* save_task, the rest: upsert the row; the link's freshness is written
\* once and kept by every later save of the same run and message.
WriteTask(w) ==
    LET m == work[w].msg IN
    /\ pc[w] = "write"
    /\ tasks' = [tasks EXCEPT ![m] = work[w].plan[m]]
    /\ links' = [links EXCEPT ![job[w]][m] =
                    IF @ # None THEN @
                    ELSE IF work[w].seen THEN "seen" ELSE "new"]
    /\ work' = [work EXCEPT ![w].left = @ \ {m}, ![w].msg = None,
                            ![w].seen = FALSE]
    /\ pc' = [pc EXCEPT ![w] = "persist"]
    /\ UNCHANGED <<now, runVars, outboxVars, shortTerm, job, clock, sweepVars,
                   faults>>

\* Every task is saved: a run that skipped threads is partial.
FinishTry(w) ==
    /\ pc[w] = "persist"
    /\ work[w].left = {}
    /\ EndTry(w, IF work[w].skipped THEN "partial" ELSE "succeeded")
    /\ UNCHANGED <<now, runVars, taskVars, outboxVars, job, clock, sweepVars,
                   faults>>

\* runs.save: an UPDATE by id alone, whatever the row's status is by now.
SaveRun(w) ==
    LET r == job[w] IN
    /\ pc[w] = "save"
    /\ status' = [status EXCEPT ![r] = work[w].result]
    /\ startedAt' = [startedAt EXCEPT ![r] = clock[w]]
    /\ itemCount' = [itemCount EXCEPT ![r] =
                        IF work[w].result = "failed" THEN 0
                        ELSE Cardinality(Planned(work[w].plan))]
    /\ pc' = [pc EXCEPT ![w] = "event"]
    /\ UNCHANGED <<now, createdAt, taskVars, outboxVars, shortTerm, job, clock,
                   work, sweepVars, faults>>

\* _append_completion_event: the first event of a run wins.
AppendEvent(w) ==
    /\ pc[w] = "event"
    /\ outbox' = [outbox EXCEPT ![job[w]] = IF @ # None THEN @ ELSE work[w].result]
    /\ Return(w)
    /\ UNCHANGED <<now, runVars, taskVars, published, shortTerm, sweepVars,
                   faults>>

----------------------------------------------------------------------------
(* PostgresWorkerMaintenance.run: the sweep, then the outbox relay *)

\* Mutant: the comparison with the cutoff is inverted.
StartSweepInverted(w) ==
    /\ pc[w] = "idle"
    /\ cutoff' = [cutoff EXCEPT ![w] = now - RunningTimeout]
    /\ stuck' = [stuck EXCEPT ![w] =
          {r \in Runs : status[r] = "running" /\ startedAt[r] > now - RunningTimeout}]
    /\ pc' = [pc EXCEPT ![w] = "sweep"]
    /\ UNCHANGED <<now, runVars, taskVars, outboxVars, shortTerm, job, clock,
                   work, pending, faults>>

\* list_stuck_runs; the worker passes no requeue callback, so the queued
\* runs in the listing are skipped.
StartSweep(w) ==
    /\ pc[w] = "idle"
    /\ cutoff' = [cutoff EXCEPT ![w] = now - RunningTimeout]
    /\ stuck' = [stuck EXCEPT ![w] =
          {r \in Runs : status[r] = "running" /\ startedAt[r] < now - RunningTimeout}]
    /\ pc' = [pc EXCEPT ![w] = "sweep"]
    /\ UNCHANGED <<now, runVars, taskVars, outboxVars, shortTerm, job, clock,
                   work, pending, faults>>

\* Mutants of the compare-and-set: what it tests, and what it sets.
ResetStuckIf(w, Stale(_), state) ==
    /\ pc[w] = "sweep"
    /\ \E r \in Oldest(stuck[w]) :
        /\ IF Stale(r)
           THEN /\ status' = [status EXCEPT ![r] = state]
                /\ startedAt' = [startedAt EXCEPT ![r] = None]
           ELSE UNCHANGED <<status, startedAt>>
        /\ stuck' = [stuck EXCEPT ![w] = @ \ {r}]
    /\ UNCHANGED <<now, createdAt, itemCount, taskVars, outboxVars, shortTerm,
                   pc, job, clock, work, cutoff, pending, faults>>

\* Mutant: a claim made at the cutoff itself counts as stale.
ResetStuckAtCutoff(w) ==
    ResetStuckIf(w, LAMBDA r : status[r] = "running" /\ startedAt[r] <= cutoff[w],
                 "queued")

\* Mutant: started_at is cleared and the status is not.
ResetStuckHalf(w) ==
    ResetStuckIf(w, LAMBDA r : status[r] = "running" /\ startedAt[r] < cutoff[w],
                 "running")

\* reset_stuck_run, a compare-and-set on status and started_at.
ResetStuck(w) ==
    /\ pc[w] = "sweep"
    /\ \E r \in Oldest(stuck[w]) :
        /\ IF status[r] = "running" /\ startedAt[r] < cutoff[w]
           THEN /\ status' = [status EXCEPT ![r] = "queued"]
                /\ startedAt' = [startedAt EXCEPT ![r] = None]
           ELSE UNCHANGED <<status, startedAt>>
        /\ stuck' = [stuck EXCEPT ![w] = @ \ {r}]
    /\ UNCHANGED <<now, createdAt, itemCount, taskVars, outboxVars, shortTerm,
                   pc, job, clock, work, cutoff, pending, faults>>

\* Mutant: only the events of succeeded runs are relayed.
StartPublishSucceeded(w) ==
    /\ pc[w] = "sweep"
    /\ stuck[w] = {}
    /\ pending' = [pending EXCEPT ![w] =
          {r \in Runs : outbox[r] = "succeeded"} \ published]
    /\ pc' = [pc EXCEPT ![w] = "publish"]
    /\ UNCHANGED <<now, runVars, taskVars, outboxVars, shortTerm, job, clock,
                   work, stuck, cutoff, faults>>

\* publish_pending reads the unpublished events.
StartPublish(w) ==
    /\ pc[w] = "sweep"
    /\ stuck[w] = {}
    /\ pending' = [pending EXCEPT ![w] = {r \in Runs : outbox[r] # None} \ published]
    /\ pc' = [pc EXCEPT ![w] = "publish"]
    /\ UNCHANGED <<now, runVars, taskVars, outboxVars, shortTerm, job, clock,
                   work, stuck, cutoff, faults>>

\* One event is traced and marked published.
Publish(w) ==
    /\ pc[w] = "publish"
    /\ \E r \in pending[w] :
        /\ published' = published \cup {r}
        /\ pending' = [pending EXCEPT ![w] = @ \ {r}]
    /\ UNCHANGED <<now, runVars, taskVars, outbox, shortTerm, pc, job, clock,
                   work, stuck, cutoff, faults>>

EndMaintenance(w) ==
    /\ pc[w] = "publish"
    /\ pending[w] = {}
    /\ pc' = [pc EXCEPT ![w] = "idle"]
    /\ cutoff' = [cutoff EXCEPT ![w] = 0]
    /\ UNCHANGED <<now, runVars, taskVars, outboxVars, shortTerm, job, clock,
                   work, stuck, pending, faults>>

----------------------------------------------------------------------------
(* Faults and time *)

\* A fault that leaves a run in 'running' is only taken while the clock can
\* still run past the timeout, so that MaxTime does not hide the recovery.
Fault ==
    /\ faults < MaxFaults
    /\ now + RunningTimeout < MaxTime
    /\ faults' = faults + 1

\* The final UPDATE raises: execute ends and the row keeps 'running'.
SaveRunFails(w) ==
    /\ pc[w] = "save"
    /\ Fault
    /\ Return(w)
    /\ UNCHANGED <<now, runVars, taskVars, outboxVars, shortTerm, sweepVars>>

\* The outbox INSERT raises: the exception is logged and swallowed.
AppendEventFails(w) ==
    /\ pc[w] = "event"
    /\ Fault
    /\ Return(w)
    /\ UNCHANGED <<now, runVars, taskVars, outboxVars, shortTerm, sweepVars>>

\* Maintenance raises (also in the document recovery between the two parts);
\* run_forever logs it and polls on.
MaintenanceFails(w) ==
    /\ pc[w] \in {"sweep", "publish"}
    /\ Fault
    /\ pc' = [pc EXCEPT ![w] = "idle"]
    /\ stuck' = [stuck EXCEPT ![w] = {}]
    /\ pending' = [pending EXCEPT ![w] = {}]
    /\ cutoff' = [cutoff EXCEPT ![w] = 0]
    /\ UNCHANGED <<now, runVars, taskVars, outboxVars, shortTerm, job, clock,
                   work>>

\* A process dies and is restarted: its executions and memory are gone.
Crash(p) ==
    LET lost(f, x) == [w \in DOMAIN f |-> IF ProcOf(w) = p THEN x ELSE f[w]] IN
    /\ Fault
    /\ \E w \in Executors : ProcOf(w) = p /\ pc[w] # "idle"
    /\ pc' = lost(pc, "idle")
    /\ job' = lost(job, None)
    /\ clock' = lost(clock, 0)
    /\ work' = lost(work, NoWork)
    /\ stuck' = lost(stuck, {})
    /\ cutoff' = lost(cutoff, 0)
    /\ pending' = lost(pending, {})
    /\ shortTerm' = [shortTerm EXCEPT ![p] = {}]
    /\ UNCHANGED <<now, runVars, taskVars, outboxVars>>

Tick ==
    /\ now < MaxTime
    /\ now' = now + 1
    /\ UNCHANGED <<runVars, taskVars, outboxVars, shortTerm, pc, job, clock,
                   work, sweepVars, faults>>

----------------------------------------------------------------------------
\* One step of an execution that is under way.
ExecuteStep(w) ==
    \/ Claim(w) \/ Fetch(w) \/ Generate(w) \/ FailTry(w) \/ CheckSeen(w)
    \/ WriteTask(w) \/ FinishTry(w) \/ SaveRun(w) \/ AppendEvent(w)

MaintenanceStep(w) ==
    ResetStuck(w) \/ StartPublish(w) \/ Publish(w) \/ EndMaintenance(w)

FaultStep ==
    \/ \E w \in Executors : SaveRunFails(w) \/ AppendEventFails(w)
    \/ \E w \in Pollers : MaintenanceFails(w)
    \/ \E p \in Processes : Crash(p)

Next ==
    \/ \E w \in ApiTasks, r \in Runs : CreateRun(w, r)
    \/ \E w \in Pollers : Poll(w) \/ StartSweep(w) \/ MaintenanceStep(w)
    \/ \E w \in Executors : ExecuteStep(w)
    \/ FaultStep
    \/ Tick

Spec == Init /\ [][Next]_vars

\* What is under way goes on, time passes, and run_forever comes back both to
\* its maintenance and to its poll, however often the other one runs.
Fairness ==
    /\ WF_vars(Tick)
    /\ \A w \in Executors : WF_vars(ExecuteStep(w))
    /\ \A w \in Pollers : /\ WF_vars(MaintenanceStep(w))
                          /\ SF_vars(StartSweep(w))
                          /\ SF_vars(Poll(w))

FairSpec == Spec /\ Fairness

----------------------------------------------------------------------------
(* Properties *)

WorkType ==
    [plan : [Messages -> Titles \cup {Quarantine, None}],
     left : SUBSET Messages,
     msg : Messages \cup {None},
     skipped : BOOLEAN,
     seen : BOOLEAN,
     result : Terminal]

Holding == {"fetch", "generate", "persist", "write", "save", "event"}

RowsType ==
    /\ status \in [Runs -> RunStatus]
    /\ startedAt \in [Runs -> Int \cup {None}]
    /\ createdAt \in [Runs -> Int]
    /\ itemCount \in [Runs -> Nat]
    /\ tasks \in [Messages -> Titles \cup {Quarantine, None}]
    /\ links \in [Runs -> [Messages -> {"new", "seen", None}]]
    /\ outbox \in [Runs -> Terminal \cup {None}]
    /\ published \in SUBSET Runs

LocalsType ==
    /\ pc \in [Executors -> {"idle", "claim", "sweep", "publish"} \cup Holding]
    /\ job \in [Executors -> Runs \cup {None}]
    /\ clock \in [Executors -> Int]
    /\ work \in [Executors -> WorkType]
    /\ shortTerm \in [Processes -> SUBSET Runs]

SweepsType ==
    /\ stuck \in [Pollers -> SUBSET Runs]
    /\ cutoff \in [Pollers -> Int]
    /\ pending \in [Pollers -> SUBSET Runs]

StartedRows == \A r \in Runs : status[r] = "running" => startedAt[r] \in Int

PlacedLocals ==
    \A w \in Executors :
        /\ pc[w] \in Holding \cup {"claim"} => job[w] \in Runs
        /\ pc[w] = "write" => work[w].msg \in work[w].left

\* Every variable has its type, and the columns and locals agree with the
\* place they are read at: a run that was started has a started_at, and an
\* execution under way has a run and, while it writes, a message.
TypeOK ==
    /\ now \in 0..MaxTime
    /\ faults \in 0..MaxFaults
    /\ RowsType
    /\ LocalsType
    /\ SweepsType
    /\ StartedRows
    /\ PlacedLocals

\* The execution holds the claim of a run, and its lease: less than
\* running_timeout has passed since its claim clock.
Leased(w) ==
    /\ pc[w] \in Holding \ {"event"}
    /\ clock[w] >= now - RunningTimeout

\* claim and reset_stuck_run, both compare-and-sets on the row, exclude each
\* other within the timeout: two executions of one run never both have their
\* lease, whatever the interleaving of claims, sweeps, crashes and saves.
LeaseExclusive ==
    \A v, w \in Executors :
        v # w /\ Leased(v) /\ Leased(w) => job[v] # job[w]

\* The row of a leased run still carries that lease, or is already terminal
\* because a superseded execution saved it first.
LeaseRecorded ==
    \A w \in Executors :
        Leased(w) =>
            \/ status[job[w]] \in Terminal
            \/ status[job[w]] = "running" /\ startedAt[job[w]] = clock[w]

\* Lifecycle events are about finished runs: an outbox row implies that the
\* run is terminal (publish_pending raises on any other status), and only
\* existing rows are marked published.
OutboxAfterTerminal ==
    /\ \A r \in Runs : outbox[r] # None => status[r] \in Terminal
    /\ \A r \in published : outbox[r] # None

Linked(r) == {m \in Messages : links[r][m] # None}

\* A finished run lists at least the tasks its action_items_count advertises,
\* also after replays, superseded executions and failed attempts.
AdvertisedItemsListed ==
    \A r \in Runs :
        status[r] \in {"succeeded", "partial"} =>
            itemCount[r] <= Cardinality(Linked(r))

\* Raw mail bodies never outlive the execution: a process keeps envelopes of
\* a run only while one of its executions is between put and the finalizer.
RawBodiesBounded ==
    \A p \in Processes : \A r \in shortTerm[p] :
        \E w \in Executors :
            /\ ProcOf(w) = p
            /\ job[w] = r
            /\ pc[w] \in {"generate", "persist", "write"}

\* A finished run is never queued or claimed again.
TerminalStable ==
    [][\A r \in Runs : status[r] \in Terminal => status'[r] \in Terminal]_vars

\* "concurrent sweepers can never clobber a run another worker just
\* re-claimed": a run goes back to queued only when its current claim is
\* older than the timeout, however stale the sweeper's listing is.
FreshClaimNotClobbered ==
    [][\A r \in Runs :
        status[r] = "running" /\ status'[r] = "queued"
            => startedAt[r] < now - RunningTimeout]_vars

\* How far a run is for its owner.
PhaseOf(s) ==
    IF s = "absent" THEN "none" ELSE IF s \in Terminal THEN s ELSE "pending"

\* The control plane implements RunLifecycle: no replay, superseded execution,
\* sweep or crash drops or relabels a listed item, leaves a finished run with
\* a count above its list, or announces a run that has not finished.
Lifecycle == INSTANCE RunLifecycle WITH
    phase <- [r \in Runs |-> PhaseOf(status[r])],
    listed <- links, advertised <- itemCount, announced <- outbox, relayed <- published
RunRefined == Lifecycle!Spec

\* Every run that was created finishes, through crashes of the process that
\* executes it, failed final writes and failed maintenance.
RunsFinish ==
    \A r \in Runs : status[r] # "absent" ~> status[r] \in Terminal

\* Every event in the outbox is relayed.
EventsPublished ==
    \A r \in Runs : outbox[r] # None ~> r \in published
=============================================================================
