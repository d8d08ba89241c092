--------------------------- MODULE EvaluationJobs ---------------------------
(***************************************************************************)
(* Batch evaluation jobs: the SQLite rows of jobs, units and attempts, the *)
(* supervisor's runner tasks, the lanes that pull units and call a model   *)
(* under a leased credential, submissions, cancellations, crash and        *)
(* restart recovery.                                                       *)
(*                                                                         *)
(* A step is one transaction of the job store, or the Python between two   *)
(* awaits.  A job's runner is at run[j], its lane i is the worker <<j, i>>.*)
(* An attempt is started only when the unit has none or its last one has   *)
(* failed, so a unit's attempts are their number and the last one's state. *)
(***************************************************************************)
EXTENDS Naturals, FiniteSets

CONSTANTS
    Jobs,        \* jobs, one per idempotency key
    UnitCount,   \* work units of a job
    MaxWorkers,  \* max_workers of the requests
    MaxAttempts, \* max_attempts_per_unit
    Budget,      \* provider requests a run of a job may reserve
    Keys,        \* credentials of the pool
    Cancels,     \* cancel requests clients may have open
    Faults,      \* the kinds of fault a run considers
    MaxFaults,   \* how often they strike
    None         \* no job, no key holder

FaultKinds == {"crash", "preflight", "artifact"}

ASSUME ConstantsAssumption ==
    /\ UnitCount \in Nat \ {0} /\ MaxWorkers \in Nat \ {0}
    /\ MaxAttempts \in Nat \ {0} /\ Budget \in Nat \ {0}
    /\ IsFiniteSet(Keys)
    /\ Faults \subseteq FaultKinds /\ MaxFaults \in Nat
    /\ None \notin Jobs \cup (Jobs \X (0..(MaxWorkers - 1)))

Units == 0..(UnitCount - 1)
Lanes == 0..(MaxWorkers - 1)
Workers == Jobs \X Lanes

Terminal == {"succeeded", "partially_succeeded", "failed", "cancelled"}
JobState == {"absent", "accepted", "validating", "queued", "running",
             "collecting", "cancellation_requested"} \cup Terminal
Recoverable == {"queued", "running", "collecting", "cancellation_requested"}
UnitTerminal == {"succeeded", "failed", "cancelled"}
UnitState == {"absent", "ready", "running"} \cup UnitTerminal
AttemptState == {"none", "running", "succeeded", "failed", "unknown", "cancelled"}
NoAttempt == [number |-> 0, state |-> "none"]

RunPc == {"idle", "begin", "plan", "unplanned_end", "ready", "promote",
          "lanes", "drain", "outcomes", "check", "collect", "report", "verify",
          "finish", "cancel_report", "cancel_end", "raised"}
LanePc == {"idle", "lease", "check", "claim", "try", "start", "call", "judge",
           "settle", "confirm", "backoff", "complete", "release"}
\* What a lane has in hand: an outcome of its unit, or how its attempt went.
Result == {"none", "succeeded", "failed", "cancelled", "unknown", "retry", "error", "spent"}

VARIABLES
    job,       \* evaluation_jobs.state
    unit,      \* evaluation_units.state
    attempt,   \* evaluation_attempts of a unit
    manifest,  \* the public manifest file of a job
    doubtful,  \* history: units whose provider outcome nobody knows
    phase,     \* the process serves ("up"), is "down", or "recovering"
    orphaned,  \* recover(): jobs whose attempts are still to be classified
    resuming,  \* recover(): jobs still to be started
    late,      \* outcomes a thread still has to write for a lane that has left
    batch,     \* jobs run as request_batch; the others run workflow_shards
    workers,   \* effective_workers
    submit,    \* where the request that created the job stands
    run,       \* where the runner task stands
    quitting,  \* _cancellation_tasks: jobs whose task was cancelled already
    tally,     \* what the outcomes amount to, and whether the run resumed them
    spent,     \* requests reserved in the run's BudgetLedger
    lane,      \* where a lane stands
    work,      \* the unit it has claimed
    tries,     \* attempt_number of its loop
    result,    \* see Result
    halted,    \* lanes whose lane_stopped is set
    throttled, \* lanes whose credential_cooling is set
    hit,       \* lanes to which a CancelledError is on its way
    caught,    \* lanes that have received it
    key,       \* CredentialState
    holder,    \* the lane with a credential's active lease
    cancelPc,  \* where a cancel request stands
    cancelJob, \* the job it cancels
    faults     \* faults so far

store == <<job, unit, attempt, manifest>>
poolVars == <<key, holder>>
laneVars == <<lane, work, tries, result, halted, throttled, hit, caught>>
runVars == <<run, quitting, tally, spent>>
bootVars == <<phase, orphaned, resuming, late>>
requestVars == <<batch, workers, submit>>
cancelVars == <<cancelPc, cancelJob>>
vars == <<store, doubtful, bootVars, requestVars, runVars, laneVars, poolVars,
          cancelVars, faults>>

Verdict == {"none", "succeeded", "partially_succeeded", "failed"}

TypeOK ==
    /\ job \in [Jobs -> JobState]
    /\ unit \in [Jobs -> [Units -> UnitState]]
    /\ attempt \in [Jobs -> [Units -> [number : 0..MaxAttempts, state : AttemptState]]]
    /\ manifest \in [Jobs -> {"none", "report", "failed", "cancelled"}]
    /\ doubtful \in [Jobs -> SUBSET Units]
    /\ phase \in {"up", "down", "recovering"}
    /\ orphaned \subseteq Jobs /\ resuming \subseteq Jobs
    /\ late \in [Jobs -> [Units -> {"none"} \cup UnitTerminal]]
    /\ batch \subseteq Jobs
    /\ workers \in [Jobs -> 0..MaxWorkers]
    /\ submit \in [Jobs -> {"idle", "validate", "units", "queue", "start"}]
    /\ run \in [Jobs -> RunPc]
    /\ quitting \subseteq Jobs
    /\ tally \in [Jobs -> [verdict : Verdict, resumed : BOOLEAN]]
    /\ spent \in [Jobs -> 0..Budget]
    /\ lane \in [Workers -> LanePc]
    /\ work \in [Workers -> Units]
    /\ tries \in [Workers -> 1..MaxAttempts]
    /\ result \in [Workers -> Result]
    /\ halted \subseteq Workers /\ throttled \subseteq Workers
    /\ hit \subseteq Workers /\ caught \subseteq Workers
    /\ key \in [Keys -> {"available", "leased", "cooling_down", "disabled"}]
    /\ holder \in [Keys -> Workers \cup {None}]
    /\ cancelPc \in [Cancels -> {"idle", "stop", "await", "finish"}]
    /\ cancelJob \in [Cancels -> Jobs \cup {None}]
    /\ faults \in 0..MaxFaults

NoTally == [verdict |-> "none", resumed |-> FALSE]
NothingLate == [j \in Jobs |-> [u \in Units |-> "none"]]

Init ==
    /\ job = [j \in Jobs |-> "absent"]
    /\ unit = [j \in Jobs |-> [u \in Units |-> "absent"]]
    /\ attempt = [j \in Jobs |-> [u \in Units |-> NoAttempt]]
    /\ manifest = [j \in Jobs |-> "none"]
    /\ doubtful = [j \in Jobs |-> {}]
    /\ phase = "up" /\ orphaned = {} /\ resuming = {} /\ late = NothingLate
    /\ batch = {} /\ workers = [j \in Jobs |-> 0]
    /\ submit = [j \in Jobs |-> "idle"]
    /\ run = [j \in Jobs |-> "idle"] /\ quitting = {}
    /\ tally = [j \in Jobs |-> NoTally]
    /\ spent = [j \in Jobs |-> 0]
    /\ lane = [w \in Workers |-> "idle"]
    /\ work = [w \in Workers |-> 0]
    /\ tries = [w \in Workers |-> 1]
    /\ result = [w \in Workers |-> "none"]
    /\ halted = {} /\ throttled = {} /\ hit = {} /\ caught = {}
    /\ key = [k \in Keys |-> "available"]
    /\ holder = [k \in Keys |-> None]
    /\ cancelPc = [c \in Cancels |-> "idle"]
    /\ cancelJob = [c \in Cancels |-> None]
    /\ faults = 0

Fault(kind) ==
    /\ kind \in Faults /\ faults < MaxFaults
    /\ faults' = faults + 1

-----------------------------------------------------------------------------
\* Submission: EvaluationJobService.submit.

Healthy == {k \in Keys : key[k] = "available"}

\* The supervisor's lock, held while a cancellation is written and its task stopped.
LockFree == \A c \in Cancels : cancelPc[c] # "stop"

\* A resubmission under the same idempotency key returns the row unchanged.
Submit(j) ==
    /\ phase = "up" /\ job[j] = "absent"
    /\ \E n \in 1..MaxWorkers :
          /\ n \in {MaxWorkers, Cardinality(Healthy), UnitCount}
          /\ n <= Cardinality(Healthy) /\ n <= UnitCount
          /\ workers' = [workers EXCEPT ![j] = n]
    /\ batch' \in {batch, batch \cup {j}}
    /\ job' = [job EXCEPT ![j] = "accepted"]
    /\ submit' = [submit EXCEPT ![j] = "validate"]
    /\ UNCHANGED <<unit, attempt, manifest, doubtful, bootVars, runVars, laneVars,
                   poolVars, cancelVars, faults>>

\* transition_job: a move the table does not have fails, and the request with it.
Validate(j) ==
    /\ submit[j] = "validate"
    /\ IF job[j] = "accepted"
         THEN /\ job' = [job EXCEPT ![j] = "validating"]
              /\ submit' = [submit EXCEPT ![j] = "units"]
         ELSE submit' = [submit EXCEPT ![j] = "idle"] /\ job' = job
    /\ UNCHANGED <<unit, attempt, manifest, doubtful, bootVars, batch, workers,
                   runVars, laneVars, poolVars, cancelVars, faults>>

\* add_units looks at no state: the job may have been cancelled meanwhile.
AddUnits(j) ==
    /\ submit[j] = "units"
    /\ unit' = [unit EXCEPT ![j] = [u \in Units |-> "ready"]]
    /\ submit' = [submit EXCEPT ![j] = "queue"]
    /\ UNCHANGED <<job, attempt, manifest, doubtful, bootVars, batch, workers,
                   runVars, laneVars, poolVars, cancelVars, faults>>

Queue(j) ==
    /\ submit[j] = "queue"
    /\ IF job[j] = "validating"
         THEN /\ job' = [job EXCEPT ![j] = "queued"]
              /\ submit' = [submit EXCEPT ![j] = "start"]
         ELSE submit' = [submit EXCEPT ![j] = "idle"] /\ job' = job
    /\ UNCHANGED <<unit, attempt, manifest, doubtful, bootVars, batch, workers,
                   runVars, laneVars, poolVars, cancelVars, faults>>

\* _start_task_locked: one task per job; a job being cancelled is run to its
\* end and its task never interrupted.
StartRunner(j) ==
    IF run[j] = "idle" /\ job[j] \in Recoverable
      THEN /\ run' = [run EXCEPT ![j] = "begin"]
           /\ quitting' = IF job[j] = "cancellation_requested"
                            THEN quitting \cup {j} ELSE quitting
      ELSE UNCHANGED <<run, quitting>>

Schedule(j) ==
    /\ submit[j] = "start" /\ LockFree
    /\ StartRunner(j)
    /\ submit' = [submit EXCEPT ![j] = "idle"]
    /\ UNCHANGED <<store, doubtful, bootVars, batch, workers, tally, spent,
                   laneVars, poolVars, cancelVars, faults>>
-----------------------------------------------------------------------------
\* The runner of a job: EvaluationJobRunner.run.

RunTo(j, pc) == run' = [run EXCEPT ![j] = pc]

Cancelling(j) == job[j] = "cancellation_requested"

\* The task is done and discarded.
RunEnds(j) ==
    /\ RunTo(j, "idle")
    /\ quitting' = quitting \ {j}
    /\ tally' = [tally EXCEPT ![j] = NoTally]
    /\ spent' = [spent EXCEPT ![j] = 0]

Begin(j) ==
    /\ run[j] = "begin"
    /\ IF job[j] \in Terminal
         THEN RunEnds(j)
         ELSE /\ RunTo(j, IF Cancelling(j) THEN "cancel_report" ELSE "plan")
              /\ UNCHANGED <<quitting, tally, spent>>
    /\ UNCHANGED <<store, doubtful, bootVars, requestVars, laneVars, poolVars,
                   cancelVars, faults>>

Plan(j) ==
    /\ run[j] = "plan"
    /\ RunTo(j, "ready")
    /\ UNCHANGED <<store, doubtful, bootVars, requestVars, quitting, tally, spent,
                   laneVars, poolVars, cancelVars, faults>>

\* except BaseException: the failed preflight, or a cancellation of the task.
Unplanned(j) ==
    /\ manifest' = [manifest EXCEPT ![j] = "failed"]
    /\ RunTo(j, "unplanned_end")

PlanFails(j) ==
    /\ run[j] = "plan" /\ Fault("preflight")
    /\ Unplanned(j)
    /\ UNCHANGED <<job, unit, attempt, doubtful, bootVars, requestVars, quitting,
                   tally, spent, laneVars, poolVars, cancelVars>>

UnplannedEnd(j) ==
    /\ run[j] = "unplanned_end"
    /\ job' = IF job[j] \in {"validating", "queued", "running", "collecting"}
                THEN [job EXCEPT ![j] = "failed"] ELSE job
    /\ RunEnds(j)
    /\ UNCHANGED <<unit, attempt, manifest, doubtful, bootVars, requestVars,
                   laneVars, poolVars, cancelVars, faults>>

\* A new ledger, and a task for each lane.
Launch(j) ==
    /\ RunTo(j, "lanes")
    /\ spent' = [spent EXCEPT ![j] = 0]
    /\ lane' = [w \in Workers |->
                  IF w[1] = j /\ w[2] < workers[j] THEN "lease" ELSE lane[w]]

\* The row as read after planning.
Ready(j) ==
    /\ run[j] = "ready"
    /\ \/ /\ Cancelling(j) /\ RunTo(j, "cancel_report")
          /\ UNCHANGED <<tally, spent, lane>>
       \/ /\ job[j] = "collecting" /\ RunTo(j, "outcomes")
          /\ tally' = [tally EXCEPT ![j].resumed = TRUE]
          /\ UNCHANGED <<spent, lane>>
       \/ /\ job[j] = "queued" /\ RunTo(j, "promote")
          /\ UNCHANGED <<tally, spent, lane>>
       \/ job[j] = "running" /\ Launch(j) /\ UNCHANGED tally
    /\ UNCHANGED <<store, doubtful, bootVars, requestVars, quitting, work, tries,
                   result, halted, throttled, hit, caught, poolVars, cancelVars, faults>>

Promote(j) ==
    /\ run[j] = "promote"
    /\ IF job[j] = "queued"
         THEN job' = [job EXCEPT ![j] = "running"] /\ Launch(j)
         ELSE RunTo(j, "cancel_report") /\ UNCHANGED <<job, spent, lane>>
    /\ UNCHANGED <<unit, attempt, manifest, doubtful, bootVars, requestVars, quitting,
                   tally, work, tries, result, halted, throttled, hit, caught,
                   poolVars, cancelVars, faults>>

LanesDone(j) == \A w \in Workers : w[1] = j => lane[w] = "idle"

\* gather: a cancelled one too waits for every lane.
Join(j) ==
    /\ run[j] = "lanes" /\ LanesDone(j)
    /\ RunTo(j, "outcomes")
    /\ UNCHANGED <<store, doubtful, bootVars, requestVars, quitting, tally, spent,
                   laneVars, poolVars, cancelVars, faults>>

\* Mutant: a cancelled gather does not wait for the lanes.
DrainedEarly(j) ==
    /\ run[j] = "drain"
    /\ RunEnds(j)
    /\ UNCHANGED <<store, doubtful, bootVars, requestVars, laneVars, poolVars,
                   cancelVars, faults>>

Drained(j) ==
    /\ run[j] = "drain" /\ LanesDone(j)
    /\ RunEnds(j)
    /\ UNCHANGED <<store, doubtful, bootVars, requestVars, laneVars, poolVars,
                   cancelVars, faults>>

Succeeded(j) == {u \in Units : unit[j][u] = "succeeded"}

\* The verdict over the units' outcomes; a warning of a plug-in's cleanup,
\* which a resumed collection does not know of, takes full success away.
Outcomes(j) ==
    /\ run[j] = "outcomes"
    /\ \E warned \in BOOLEAN :
          /\ warned => ~tally[j].resumed
          /\ tally' = [tally EXCEPT ![j].verdict =
                         IF Succeeded(j) = Units /\ ~warned THEN "succeeded"
                         ELSE IF Succeeded(j) # {} THEN "partially_succeeded"
                         ELSE "failed"]
    /\ RunTo(j, IF tally[j].resumed THEN "report" ELSE "check")
    /\ UNCHANGED <<store, doubtful, bootVars, requestVars, quitting, spent,
                   laneVars, poolVars, cancelVars, faults>>

\* A private outcome that cannot be read back raises out of the run.
OutcomesFail(j) ==
    /\ run[j] = "outcomes" /\ Succeeded(j) # {} /\ Fault("artifact")
    /\ RunTo(j, "raised")
    /\ UNCHANGED <<store, doubtful, bootVars, requestVars, quitting, tally, spent,
                   laneVars, poolVars, cancelVars>>

Check(j) ==
    /\ run[j] = "check"
    /\ RunTo(j, IF Cancelling(j) THEN "cancel_report" ELSE "collect")
    /\ UNCHANGED <<store, doubtful, bootVars, requestVars, quitting, tally, spent,
                   laneVars, poolVars, cancelVars, faults>>

Collect(j) ==
    /\ run[j] = "collect"
    /\ IF job[j] = "running"
         THEN job' = [job EXCEPT ![j] = "collecting"] /\ RunTo(j, "report")
         ELSE job' = job /\ RunTo(j, "cancel_report")
    /\ UNCHANGED <<unit, attempt, manifest, doubtful, bootVars, requestVars, quitting,
                   tally, spent, laneVars, poolVars, cancelVars, faults>>

Report(j) ==
    /\ run[j] = "report"
    /\ \/ /\ manifest' = [manifest EXCEPT ![j] = "report"]
          /\ UNCHANGED <<tally, faults>>
       \/ /\ Fault("artifact")
          /\ manifest' = [manifest EXCEPT ![j] = "failed"]
          /\ tally' = [tally EXCEPT ![j].verdict = "failed"]
    /\ RunTo(j, "verify")
    /\ UNCHANGED <<job, unit, attempt, doubtful, bootVars, requestVars, quitting, spent,
                   laneVars, poolVars, cancelVars>>

Verify(j) ==
    /\ run[j] = "verify"
    /\ RunTo(j, IF Cancelling(j) THEN "cancel_report" ELSE "finish")
    /\ UNCHANGED <<store, doubtful, bootVars, requestVars, quitting, tally, spent,
                   laneVars, poolVars, cancelVars, faults>>

\* Mutant: the terminal state is written whatever the row says by then.
FinishBlindly(j) ==
    /\ run[j] = "finish"
    /\ job' = [job EXCEPT ![j] = tally[j].verdict] /\ RunEnds(j)
    /\ UNCHANGED <<unit, attempt, manifest, doubtful, bootVars, requestVars,
                   laneVars, poolVars, cancelVars, faults>>

\* Only the first collection of a job catches a cancellation that slips in here.
Finish(j) ==
    /\ run[j] = "finish"
    /\ IF job[j] = "collecting"
         THEN job' = [job EXCEPT ![j] = tally[j].verdict] /\ RunEnds(j)
         ELSE /\ RunTo(j, IF tally[j].resumed THEN "raised" ELSE "cancel_report")
              /\ UNCHANGED <<job, quitting, tally, spent>>
    /\ UNCHANGED <<unit, attempt, manifest, doubtful, bootVars, requestVars,
                   laneVars, poolVars, cancelVars, faults>>

\* _run_managed: a run that raised fails its job, without a manifest.
Raised(j) ==
    /\ run[j] = "raised"
    /\ job' = IF job[j] \in {"queued", "running", "collecting"}
                THEN [job EXCEPT ![j] = "failed"] ELSE job
    /\ RunEnds(j)
    /\ UNCHANGED <<unit, attempt, manifest, doubtful, bootVars, requestVars,
                   laneVars, poolVars, cancelVars, faults>>

\* _finish_cancelled: a report of the plan's outcomes where there is a plan
\* and they can be read.
CancelReport(j) ==
    /\ run[j] = "cancel_report"
    /\ \E r \in {"report", "cancelled"} : manifest' = [manifest EXCEPT ![j] = r]
    /\ RunTo(j, "cancel_end")
    /\ UNCHANGED <<job, unit, attempt, doubtful, bootVars, requestVars, quitting,
                   tally, spent, laneVars, poolVars, cancelVars, faults>>

CancelEnd(j) ==
    /\ run[j] = "cancel_end"
    /\ job' = IF Cancelling(j) THEN [job EXCEPT ![j] = "cancelled"] ELSE job
    /\ RunEnds(j)
    /\ UNCHANGED <<unit, attempt, manifest, doubtful, bootVars, requestVars,
                   laneVars, poolVars, cancelVars, faults>>

-----------------------------------------------------------------------------
\* A lane: _run_pull_lane, _run_fixed_lane, _execute_claimed_unit.

Go(w, pc) == lane' = [lane EXCEPT ![w] = pc]
Outcome(w, r) == result' = [result EXCEPT ![w] = r]

\* A lane whose task was cancelled does nothing but receive the cancellation.
At(w, pc) == lane[w] = pc /\ w \notin hit

\* Mutant: the ledger is exhausted one reservation late.
ExhaustedLate(j) == spent[j] > Budget
Exhausted(j) == spent[j] >= Budget
Unit(w) == unit[w[1]][work[w]]
Attempt(w) == attempt[w[1]][work[w]]

\* The runner's and the requests' state, which no lane touches.
laneFrame == <<job, manifest, bootVars, requestVars, run, quitting, tally,
               cancelVars, faults>>

\* The head of the loop over units, up to its first await.
NextUnit(w) == IF w \in halted \/ Exhausted(w[1]) THEN "release" ELSE "check"

Lease(w) ==
    /\ At(w, "lease")
    /\ \/ /\ Healthy = {} /\ Go(w, "idle") /\ UNCHANGED poolVars
       \/ \E k \in Healthy :
             /\ key' = [key EXCEPT ![k] = "leased"]
             /\ holder' = [holder EXCEPT ![k] = w]
             /\ Go(w, NextUnit(w))
    /\ UNCHANGED <<laneFrame, unit, attempt, doubtful, spent, work, tries, result,
                   halted, throttled, hit, caught>>

LaneCheck(w) ==
    /\ At(w, "check")
    /\ Go(w, IF Cancelling(w[1]) THEN "release" ELSE "claim")
    /\ UNCHANGED <<laneFrame, unit, attempt, doubtful, spent, work, tries, result,
                   halted, throttled, hit, caught, poolVars>>

\* Mutant: a claimed unit may be claimed again.
ClaimableTaken(w) ==
    {u \in Units : /\ job[w[1]] \in {"queued", "running"}
                   /\ unit[w[1]][u] \in {"ready", "running"}
                   /\ w[1] \in batch \/ u % workers[w[1]] = w[2]}

\* claim_ready_unit takes any unit, claim_ready_unit_by_id one of the lane's
\* shard; neither a unit of a job that is not executable.
Claimable(w) ==
    {u \in Units : /\ job[w[1]] \in {"queued", "running"}
                   /\ unit[w[1]][u] = "ready"
                   /\ w[1] \in batch \/ u % workers[w[1]] = w[2]}

Take(w, u) ==
    /\ \A v \in Claimable(w) : u <= v
    /\ unit' = [unit EXCEPT ![w[1]][u] = "running"]
    /\ work' = [work EXCEPT ![w] = u]

Claim(w) ==
    /\ At(w, "claim")
    /\ \/ Claimable(w) = {} /\ Go(w, "release") /\ UNCHANGED <<unit, work, tries>>
       \/ \E u \in Claimable(w) :
             Take(w, u) /\ tries' = [tries EXCEPT ![w] = 1] /\ Go(w, "try")
    /\ UNCHANGED <<laneFrame, attempt, doubtful, spent, result, halted, throttled,
                   hit, caught, poolVars>>

\* The head of the attempts' loop.
Try(w) ==
    /\ At(w, "try")
    /\ \/ Cancelling(w[1]) /\ Outcome(w, "cancelled") /\ Go(w, "complete")
       \/ /\ ~Cancelling(w[1])
          /\ Outcome(w, IF Exhausted(w[1]) THEN "spent" ELSE "none") /\ Go(w, "start")
    /\ UNCHANGED <<laneFrame, unit, attempt, doubtful, spent, work, tries, halted,
                   throttled, hit, caught, poolVars>>

\* start_attempt refuses a unit that has an attempt whose outcome is open,
\* unknown or a success; the refusal fails the unit.
Startable(w) == Unit(w) = "running" /\ Attempt(w).state \in {"none", "failed"}

NewAttempt(w) ==
    attempt' = [attempt EXCEPT ![w[1]][work[w]] =
                  [number |-> @.number + 1, state |-> "running"]]

Start(w) ==
    /\ At(w, "start")
    /\ IF Startable(w)
         THEN /\ NewAttempt(w)
              /\ IF result[w] = "spent"
                   THEN Outcome(w, "error") /\ Go(w, "settle")
                   ELSE result' = result /\ Go(w, "call")
         ELSE Outcome(w, "failed") /\ Go(w, "complete") /\ UNCHANGED attempt
    /\ UNCHANGED <<laneFrame, unit, doubtful, spent, work, tries, halted, throttled,
                   hit, caught, poolVars>>

\* What the provider said of the credential while it was called.
Judged(w, event) ==
    LET mine == {k \in Keys : holder[k] = w} IN
    CASE event = "rate_limited" ->
            /\ key' = [k \in Keys |-> IF k \in mine THEN "cooling_down" ELSE key[k]]
            /\ throttled' = throttled \cup {w}
            /\ UNCHANGED <<holder, halted>>
      [] event = "authentication_failed" ->
            /\ key' = [k \in Keys |-> IF k \in mine THEN "disabled" ELSE key[k]]
            /\ holder' = [k \in Keys |-> IF k \in mine THEN None ELSE holder[k]]
            /\ halted' = halted \cup {w}
            /\ UNCHANGED throttled
      [] OTHER -> UNCHANGED <<poolVars, halted, throttled>>

\* execute_work: the plug-in calls the provider within the budget, then cleans
\* up.  A timeout leaves it unknown what the provider did.
Call(w) ==
    /\ At(w, "call")
    /\ IF Exhausted(w[1])
         THEN /\ Outcome(w, "error") /\ Go(w, "judge")
              /\ UNCHANGED <<spent, doubtful, halted, throttled, poolVars>>
         ELSE /\ spent' = [spent EXCEPT ![w[1]] = @ + 1]
              /\ \E o \in {"succeeded", "failed", "unknown", "retry", "error"} :
                    /\ Outcome(w, o)
                    /\ Go(w, IF o \in {"retry", "error"} THEN "judge" ELSE "settle")
                    /\ doubtful' = IF o = "unknown"
                         THEN [doubtful EXCEPT ![w[1]] = @ \cup {work[w]}] ELSE doubtful
              /\ \E event \in {"none", "rate_limited", "authentication_failed"} :
                    Judged(w, event)
    /\ UNCHANGED <<laneFrame, unit, attempt, work, tries, hit, caught>>

\* An error is read as a cancellation where one has been requested.
Judge(w) ==
    /\ At(w, "judge")
    /\ result' = IF Cancelling(w[1]) THEN [result EXCEPT ![w] = "cancelled"] ELSE result
    /\ Go(w, "settle")
    /\ UNCHANGED <<laneFrame, unit, attempt, doubtful, spent, work, tries, halted,
                   throttled, hit, caught, poolVars>>

AttemptEnd(r) ==
    CASE r \in {"succeeded", "failed"} -> "succeeded"
      [] r \in {"unknown", "cancelled"} -> r
      [] OTHER -> "failed"

FinishAttempt(w) ==
    attempt' = [attempt EXCEPT ![w[1]][work[w]].state = AttemptEnd(result[w])]

Retried(w) ==
    /\ result[w] = "retry" /\ tries[w] < MaxAttempts
    /\ w \notin halted /\ ~Exhausted(w[1])

\* finish_attempt, and what follows it without an await.
Settle(w) ==
    /\ At(w, "settle")
    /\ FinishAttempt(w)
    /\ \/ /\ result[w] \in {"succeeded", "failed"} /\ Go(w, "confirm")
          /\ UNCHANGED <<result, halted>>
       \/ /\ Retried(w) /\ Go(w, "backoff")
          /\ UNCHANGED <<result, halted>>
       \/ /\ result[w] \in {"cancelled", "unknown", "retry", "error"} /\ ~Retried(w)
          /\ Outcome(w, IF result[w] = "cancelled" THEN "cancelled" ELSE "failed")
          /\ halted' = IF w \in throttled /\ result[w] \in {"retry", "error"}
                         THEN halted \cup {w} ELSE halted
          /\ Go(w, "complete")
    /\ UNCHANGED <<laneFrame, unit, doubtful, spent, work, tries, throttled, hit,
                   caught, poolVars>>

\* An answer that arrives after the cancellation does not count.
Confirm(w) ==
    /\ At(w, "confirm")
    /\ IF Cancelling(w[1])
         THEN Outcome(w, "cancelled") /\ UNCHANGED halted
         ELSE /\ halted' = IF w \in throttled THEN halted \cup {w} ELSE halted
              /\ result' = result
    /\ Go(w, "complete")
    /\ UNCHANGED <<laneFrame, unit, attempt, doubtful, spent, work, tries,
                   throttled, hit, caught, poolVars>>

\* The lane sleeps before the next attempt; resume_after_cooldown raises, and
\* the unit fails, when its credential is not back.
StillCooling(w) ==
    w \in throttled /\ \E k \in Keys : holder[k] = w /\ key[k] = "cooling_down"

Backoff(w) ==
    /\ At(w, "backoff")
    /\ IF Cancelling(w[1]) \/ StillCooling(w)
         THEN /\ Outcome(w, IF Cancelling(w[1]) THEN "cancelled" ELSE "failed")
              /\ Go(w, "complete") /\ UNCHANGED <<tries, throttled>>
         ELSE /\ tries' = [tries EXCEPT ![w] = @ + 1]
              /\ throttled' = throttled \ {w}
              /\ result' = result /\ Go(w, "try")
    /\ UNCHANGED <<laneFrame, unit, attempt, doubtful, spent, work, halted, hit,
                   caught, poolVars>>

\* complete_unit; credential_cooling was local to the unit's last attempt.
Record(w) == unit' = [unit EXCEPT ![w[1]][work[w]] = result[w]]
DropsUnit(w) ==
    /\ Outcome(w, "none")
    /\ work' = [work EXCEPT ![w] = 0] /\ tries' = [tries EXCEPT ![w] = 1]
    /\ throttled' = throttled \ {w}

Complete(w) ==
    /\ At(w, "complete")
    /\ Record(w) /\ DropsUnit(w)
    /\ Go(w, IF w \in caught THEN "release" ELSE NextUnit(w))
    /\ UNCHANGED <<laneFrame, attempt, doubtful, spent, halted, hit, caught, poolVars>>

\* finally: lease.release().  A key that is cooling down stays so.
Release(w) ==
    /\ lane[w] = "release"
    /\ key' = [k \in Keys |-> IF holder[k] = w /\ key[k] = "leased"
                                THEN "available" ELSE key[k]]
    /\ holder' = [k \in Keys |-> IF holder[k] = w THEN None ELSE holder[k]]
    /\ halted' = halted \ {w} /\ throttled' = throttled \ {w}
    /\ hit' = hit \ {w} /\ caught' = caught \ {w}
    /\ Go(w, "idle")
    /\ UNCHANGED <<laneFrame, unit, attempt, doubtful, spent, work, tries, result>>

\* Mutant: a key that cooled off is back in the pool, whoever holds it.
RecoveredFree(k) ==
    /\ key[k] = "cooling_down"
    /\ key' = [key EXCEPT ![k] = "available"]
    /\ UNCHANGED <<store, doubtful, bootVars, requestVars, runVars, laneVars, holder,
                   cancelVars, faults>>

\* The clock passes a key's cooling_until, and somebody looks at the pool.
Recovered(k) ==
    /\ key[k] = "cooling_down"
    /\ key' = [key EXCEPT ![k] = IF holder[k] # None THEN "leased" ELSE "available"]
    /\ UNCHANGED <<store, doubtful, bootVars, requestVars, runVars, laneVars, holder,
                   cancelVars, faults>>
-----------------------------------------------------------------------------
\* A cancellation of the runner's task reaches its lanes where each one awaits.
\* A shielded operation (claim, start, a batch lane's complete) lands first;
\* another is abandoned before it reached the database or after, and what a
\* thread has begun to write of a unit's outcome may land later still.

Interrupting(w, pc) == lane[w] = pc /\ w \in hit

\* Received inside the unit's execution: the unit is completed as cancelled.
CancelsUnit(w) ==
    /\ hit' = hit \ {w} /\ caught' = caught \cup {w}
    /\ Outcome(w, "cancelled") /\ Go(w, "complete")

InterruptOutside(w) ==
    /\ \E pc \in {"lease", "check"} :
          Interrupting(w, pc) /\ Go(w, IF pc = "lease" THEN "idle" ELSE "release")
    /\ hit' = hit \ {w}
    /\ UNCHANGED <<laneFrame, unit, attempt, doubtful, spent, work, tries, result,
                   halted, throttled, caught, poolVars>>

InterruptClaim(w) ==
    /\ Interrupting(w, "claim")
    /\ \/ /\ Claimable(w) = {} /\ Go(w, "release") /\ hit' = hit \ {w}
          /\ UNCHANGED <<unit, work, result, caught>>
       \/ \E u \in Claimable(w) : Take(w, u) /\ CancelsUnit(w)
    /\ UNCHANGED <<laneFrame, attempt, doubtful, spent, tries, halted, throttled, poolVars>>

\* The new attempt is settled as cancelled; the one of an exhausted budget is
\* started and finished without a shield.
InterruptStart(w) ==
    /\ Interrupting(w, "start")
    /\ IF result[w] = "spent"
         THEN /\ CancelsUnit(w)
              /\ \/ Startable(w) /\ NewAttempt(w)
                 \/ attempt' = attempt
         ELSE IF Startable(w)
         THEN /\ NewAttempt(w) /\ Outcome(w, "cancelled") /\ Go(w, "settle")
              /\ hit' = hit \ {w} /\ caught' = caught \cup {w}
         ELSE CancelsUnit(w) /\ attempt' = attempt
    /\ UNCHANGED <<laneFrame, unit, doubtful, spent, work, tries, halted, throttled,
                   poolVars>>

\* After a timeout the attempt is unknown and the cancellation swallowed.
InterruptCall(w) ==
    /\ Interrupting(w, "call")
    /\ \/ Outcome(w, "cancelled") /\ caught' = caught \cup {w}
       \/ Outcome(w, "unknown") /\ caught' = caught
    /\ Go(w, "settle") /\ hit' = hit \ {w}
    /\ doubtful' = [doubtful EXCEPT ![w[1]] = @ \cup {work[w]}]
    /\ UNCHANGED <<laneFrame, unit, attempt, spent, work, tries, halted, throttled, poolVars>>

\* At "judge" the attempt is left running.
InterruptUnit(w) ==
    /\ \/ \E pc \in {"try", "judge", "confirm", "backoff"} : Interrupting(w, pc)
          /\ attempt' = attempt
       \/ /\ Interrupting(w, "settle")
          /\ FinishAttempt(w) \/ attempt' = attempt
    /\ CancelsUnit(w)
    /\ UNCHANGED <<laneFrame, unit, doubtful, spent, work, tries, halted, throttled, poolVars>>

InterruptComplete(w) ==
    /\ Interrupting(w, "complete")
    /\ \/ Record(w) /\ late' = late
       \/ /\ w[1] \notin batch /\ unit' = unit
          /\ late' \in {late, [late EXCEPT ![w[1]][work[w]] = result[w]]}
    /\ DropsUnit(w)
    /\ Go(w, "release") /\ hit' = hit \ {w}
    /\ UNCHANGED <<job, manifest, phase, orphaned, resuming, requestVars, run, quitting,
                   tally, cancelVars, faults, attempt, doubtful, spent, halted, caught,
                   poolVars>>

\* The thread gets to its transaction, which asks for a unit that is claimed.
Land(j, u) ==
    /\ late[j][u] # "none"
    /\ unit' = [unit EXCEPT ![j][u] = IF @ = "running" THEN late[j][u] ELSE @]
    /\ late' = [late EXCEPT ![j][u] = "none"]
    /\ UNCHANGED <<job, attempt, manifest, doubtful, phase, orphaned, resuming,
                   requestVars, runVars, laneVars, poolVars, cancelVars, faults>>
-----------------------------------------------------------------------------
\* Cancellation: EvaluationSupervisor.cancel.

RequestCancel(c, j) ==
    /\ phase = "up" /\ cancelPc[c] = "idle" /\ LockFree
    /\ job[j] \notin Terminal \cup {"absent"}
    /\ job' = [job EXCEPT ![j] = "cancellation_requested"]
    /\ cancelPc' = [cancelPc EXCEPT ![c] = "stop"]
    /\ cancelJob' = [cancelJob EXCEPT ![c] = j]
    /\ UNCHANGED <<unit, attempt, manifest, doubtful, bootVars, requestVars, runVars,
                   laneVars, poolVars, faults>>

\* task.cancel(): where the runner awaits, it ends; planning and the report of
\* a cancellation swallow it; its lanes are told and waited for.
Interrupt(j) ==
    CASE run[j] = "plan" ->
            Unplanned(j) /\ UNCHANGED <<job, tally, spent, hit>>
      [] run[j] = "lanes" ->
            /\ RunTo(j, "drain")
            /\ hit' = hit \cup {w \in Workers : w[1] = j /\ lane[w] \notin {"idle", "release"}}
            /\ UNCHANGED <<store, tally, spent>>
      [] run[j] = "cancel_report" -> UNCHANGED <<store, run, tally, spent, hit>>
      [] run[j] = "cancel_end" ->
            /\ job' \in {job, [job EXCEPT ![j] = "cancelled"]}
            /\ RunTo(j, "idle") /\ tally' = [tally EXCEPT ![j] = NoTally]
            /\ spent' = [spent EXCEPT ![j] = 0]
            /\ UNCHANGED <<manifest, hit>>
      [] OTHER ->
            /\ RunTo(j, "idle") /\ tally' = [tally EXCEPT ![j] = NoTally]
            /\ spent' = [spent EXCEPT ![j] = 0]
            /\ UNCHANGED <<job, manifest, hit>>

\* Still under the lock: the task is cancelled once, or one is started.
Stop(c) ==
    LET j == cancelJob[c] IN
    /\ cancelPc[c] = "stop"
    /\ IF run[j] # "idle" /\ j \notin quitting
         THEN /\ Interrupt(j)
              /\ quitting' = IF run'[j] = "idle" THEN quitting ELSE quitting \cup {j}
         ELSE /\ StartRunner(j)
              /\ UNCHANGED <<job, manifest, tally, spent, hit>>
    /\ cancelPc' = [cancelPc EXCEPT ![c] = "await"]
    /\ UNCHANGED <<unit, attempt, doubtful, bootVars, requestVars, lane, work, tries,
                   result, halted, throttled, caught, poolVars, cancelJob, faults>>

CancelDone(c) ==
    /\ cancelPc' = [cancelPc EXCEPT ![c] = "idle"]
    /\ cancelJob' = [cancelJob EXCEPT ![c] = None]

\* Mutant: the task has ended, so the cancellation is taken as done.
AwaitTrusts(c) ==
    /\ cancelPc[c] = "await" /\ run[cancelJob[c]] = "idle"
    /\ CancelDone(c)
    /\ UNCHANGED <<store, doubtful, bootVars, requestVars, runVars, laneVars,
                   poolVars, faults>>

\* _finish_cancellation: a job still not cancelled is run again.
Await(c) ==
    LET j == cancelJob[c] IN
    /\ cancelPc[c] = "await" /\ run[j] = "idle"
    /\ IF Cancelling(j)
         THEN /\ LockFree /\ StartRunner(j)
              /\ cancelPc' = [cancelPc EXCEPT ![c] = "finish"]
              /\ cancelJob' = cancelJob
         ELSE CancelDone(c) /\ UNCHANGED <<run, quitting>>
    /\ UNCHANGED <<store, doubtful, bootVars, requestVars, tally, spent, laneVars,
                   poolVars, faults>>

CancelFinish(c) ==
    /\ cancelPc[c] = "finish" /\ run[cancelJob[c]] = "idle"
    /\ CancelDone(c)
    /\ UNCHANGED <<store, doubtful, bootVars, requestVars, runVars, laneVars,
                   poolVars, faults>>
-----------------------------------------------------------------------------
\* Crash, and recovery at the next start: EvaluationSupervisor.recover.

\* What the provider did for an attempt whose outcome was lost, nobody knows.
Interrupted(j) ==
    {u \in Units : unit[j][u] = "running" /\ attempt[j][u].state \in {"running", "succeeded"}}

Crash ==
    /\ phase # "down" /\ Fault("crash")
    /\ phase' = "down" /\ orphaned' = {} /\ resuming' = {} /\ late' = NothingLate
    /\ doubtful' = [j \in Jobs |-> doubtful[j] \cup Interrupted(j)]
    /\ submit' = [j \in Jobs |-> "idle"]
    /\ run' = [j \in Jobs |-> "idle"] /\ quitting' = {}
    /\ tally' = [j \in Jobs |-> NoTally]
    /\ spent' = [j \in Jobs |-> 0]
    /\ lane' = [w \in Workers |-> "idle"]
    /\ work' = [w \in Workers |-> 0] /\ tries' = [w \in Workers |-> 1]
    /\ result' = [w \in Workers |-> "none"]
    /\ halted' = {} /\ throttled' = {} /\ hit' = {} /\ caught' = {}
    /\ key' = [k \in Keys |-> "available"] /\ holder' = [k \in Keys |-> None]
    /\ cancelPc' = [c \in Cancels |-> "idle"] /\ cancelJob' = [c \in Cancels |-> None]
    /\ UNCHANGED <<store, batch, workers>>

\* Mutant: a job whose results were being collected is not recovered.
RecoverRunning ==
    /\ phase = "down"
    /\ phase' = "recovering"
    /\ resuming' = {j \in Jobs : job[j] \in Recoverable \ {"collecting"}}
    /\ orphaned' = {j \in Jobs : job[j] \in {"running", "collecting"}}
    /\ UNCHANGED <<store, doubtful, late, requestVars, runVars, laneVars, poolVars,
                   cancelVars, faults>>

\* list_recoverable_jobs.
Recover ==
    /\ phase = "down"
    /\ phase' = "recovering"
    /\ resuming' = {j \in Jobs : job[j] \in Recoverable}
    /\ orphaned' = {j \in Jobs : job[j] \in {"running", "collecting"}}
    /\ UNCHANGED <<store, doubtful, late, requestVars, runVars, laneVars, poolVars,
                   cancelVars, faults>>

\* Mutant: an attempt cut short counts as failed, and its unit is ready again.
ClassifyRetries(j) ==
    /\ j \in orphaned
    /\ unit' = [unit EXCEPT ![j] = [u \in Units |->
                  IF unit[j][u] = "running" THEN "ready" ELSE unit[j][u]]]
    /\ attempt' = [attempt EXCEPT ![j] = [u \in Units |->
                  IF unit[j][u] = "running" /\ attempt[j][u].state = "running"
                    THEN [attempt[j][u] EXCEPT !.state = "failed"] ELSE attempt[j][u]]]
    /\ orphaned' = orphaned \ {j}
    /\ UNCHANGED <<job, manifest, doubtful, phase, resuming, late, requestVars, runVars,
                   laneVars, poolVars, cancelVars, faults>>

\* recover_orphaned_attempts: a unit never attempted is ready again, any other
\* stays running, and an attempt cut short is unknown.
Classify(j) ==
    /\ j \in orphaned
    /\ unit' = [unit EXCEPT ![j] = [u \in Units |->
                  IF unit[j][u] = "running" /\ attempt[j][u].state = "none"
                    THEN "ready" ELSE unit[j][u]]]
    /\ attempt' = [attempt EXCEPT ![j] = [u \in Units |->
                  IF unit[j][u] = "running" /\ attempt[j][u].state = "running"
                    THEN [attempt[j][u] EXCEPT !.state = "unknown"] ELSE attempt[j][u]]]
    /\ orphaned' = orphaned \ {j}
    /\ UNCHANGED <<job, manifest, doubtful, phase, resuming, late, requestVars, runVars,
                   laneVars, poolVars, cancelVars, faults>>

Resume(j) ==
    /\ orphaned = {} /\ j \in resuming
    /\ StartRunner(j)
    /\ resuming' = resuming \ {j}
    /\ UNCHANGED <<store, doubtful, phase, orphaned, late, requestVars, tally, spent,
                   laneVars, poolVars, cancelVars, faults>>

Serve ==
    /\ phase = "recovering" /\ orphaned \cup resuming = {}
    /\ phase' = "up"
    /\ UNCHANGED <<store, doubtful, orphaned, resuming, late, requestVars, runVars,
                   laneVars, poolVars, cancelVars, faults>>
-----------------------------------------------------------------------------
RunStep(j) ==
    \/ Begin(j) \/ Plan(j) \/ PlanFails(j) \/ UnplannedEnd(j) \/ Ready(j) \/ Promote(j)
    \/ Join(j) \/ Drained(j) \/ Outcomes(j) \/ OutcomesFail(j) \/ Check(j) \/ Collect(j)
    \/ Report(j) \/ Verify(j) \/ Finish(j) \/ Raised(j) \/ CancelReport(j) \/ CancelEnd(j)

LaneStep(w) ==
    \/ Lease(w) \/ LaneCheck(w) \/ Claim(w) \/ Try(w) \/ Start(w) \/ Call(w) \/ Judge(w)
    \/ Settle(w) \/ Confirm(w) \/ Backoff(w) \/ Complete(w) \/ Release(w)

InterruptStep(w) ==
    \/ InterruptOutside(w) \/ InterruptClaim(w) \/ InterruptStart(w) \/ InterruptCall(w)
    \/ InterruptUnit(w) \/ InterruptComplete(w)

SubmitStep(j) == Validate(j) \/ AddUnits(j) \/ Queue(j) \/ Schedule(j)
CancelStep(c) == Stop(c) \/ Await(c) \/ CancelFinish(c)
RecoveryStep == Recover \/ Serve \/ \E j \in Jobs : Classify(j) \/ Resume(j)

Next ==
    \/ \E j \in Jobs : Submit(j) \/ SubmitStep(j) \/ RunStep(j)
    \/ \E w \in Workers : LaneStep(w) \/ InterruptStep(w)
    \/ \E k \in Keys : Recovered(k)
    \/ \E j \in Jobs, u \in Units : Land(j, u)
    \/ \E c \in Cancels : CancelStep(c) \/ \E j \in Jobs : RequestCancel(c, j)
    \/ Crash \/ RecoveryStep

Spec == Init /\ [][Next]_vars

\* A task that can run is run, the provider answers or times out, and a
\* stopped process is started again; no request need come and no key cool off.
Fairness ==
    /\ \A j \in Jobs : WF_vars(SubmitStep(j)) /\ WF_vars(RunStep(j))
    /\ \A w \in Workers : WF_vars(LaneStep(w)) /\ WF_vars(InterruptStep(w))
    /\ \A c \in Cancels : WF_vars(CancelStep(c))
    /\ WF_vars(RecoveryStep)

FairSpec == Spec /\ Fairness
-----------------------------------------------------------------------------
\* Properties.

\* One key, one lane: a leased key has a holder, a key a lane holds is not
\* given away, and the provider is called under exactly one key, one that is
\* neither back in the pool nor disabled.
Busy == LanePc \ {"idle", "lease"}
LeaseExclusive ==
    /\ \A k \in Keys :
          /\ key[k] = "leased" => holder[k] \in Workers
          /\ holder[k] \in Workers =>
                key[k] \in {"leased", "cooling_down"} /\ lane[holder[k]] \in Busy
    /\ \A w \in Workers : lane[w] = "call" =>
          \E k \in Keys : {l \in Keys : holder[l] = w} = {k}

\* Two lanes never work on the same unit, and the unit a lane works on has not
\* been given back or settled behind its back.
Working == {"try", "start", "call", "judge", "settle", "confirm", "backoff", "complete"}
UnitsOwned ==
    \A w \in Workers : lane[w] \in Working =>
       /\ Unit(w) = "running"
       /\ \A v \in Workers \ {w} :
             v[1] = w[1] /\ lane[v] \in Working => work[v] # work[w]

\* Cleanup before the end: no lane of a job that has ended still runs.
TerminalQuiet ==
    \A w \in Workers : lane[w] # "idle" => job[w[1]] \notin Terminal

\* A unit the provider may have worked on, nobody knows with what outcome, is
\* never attempted again: not by a retry, a second lane or a restart.
NoReplay ==
    [][\A j \in Jobs : \A u \in doubtful[j] : attempt'[j][u].number = attempt[j][u].number]_vars

\* A job behaves as its client is promised.
StageOf(s) ==
    CASE s = "absent" -> "none"
      [] s = "cancellation_requested" -> "cancelling"
      [] s \in Terminal -> s
      [] OTHER -> "open"
DoneOf(s) == IF s \in UnitTerminal THEN s ELSE "open"
Lifecycle == INSTANCE JobLifecycle WITH
    stage <- [j \in Jobs |-> StageOf(job[j])],
    done <- [j \in Jobs |-> [u \in Units |-> DoneOf(unit[j][u])]],
    result <- manifest
JobRefined == Lifecycle!Spec

\* A job that was queued comes to an end, whatever its lanes, its
\* cancellations and restarts.
JobsEnd == \A j \in Jobs : job[j] = "queued" ~> job[j] \in Terminal

\* A cancellation ends the job as cancelled, and answers its request.
CancellationsEnd ==
    /\ \A j \in Jobs : Cancelling(j) ~> job[j] = "cancelled"
    /\ \A c \in Cancels : cancelPc[c] # "idle" ~> cancelPc[c] = "idle"
=============================================================================
