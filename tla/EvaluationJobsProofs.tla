------------------------- MODULE EvaluationJobsProofs -------------------------
(***************************************************************************)
(* The promises about evaluation jobs, for any number of jobs, units,      *)
(* lanes, credentials, requests and faults.  What the proofs rest on:      *)
(*                                                                         *)
(*   - before a job is queued nothing runs but the end of its cancellation *)
(*     (Submitting), and while a process recovers nothing runs at all      *)
(*     until every orphan is classified (Quiescent);                       *)
(*   - a lane runs only under a runner that waits for it, and such a       *)
(*     runner's job has not ended (Supervised, RunningJob);                *)
(*   - a lane holds one key, and none from the moment the key is disabled, *)
(*     after which it makes no further call (Held, Halted);                *)
(*   - a unit in doubt is past every step that could start an attempt      *)
(*     (Doubtful, Certain);                                                *)
(*   - a unit whose outcome is still to land belongs to no lane (LateOwn). *)
(***************************************************************************)
EXTENDS EvaluationJobs, TLAPS

\* A recovering process answers no request, and classifies first.
Quiescent ==
    /\ phase # "up" =>
          /\ \A j \in Jobs : submit[j] = "idle"
          /\ \A c \in Cancels : cancelPc[c] = "idle"
    /\ phase = "up" => orphaned = {}
    /\ phase = "down" => resuming = {}
    /\ phase = "down" \/ orphaned # {} =>
          /\ \A j \in Jobs : run[j] = "idle"
          /\ \A w \in Workers : lane[w] = "idle"

\* A request whose job is not queued meets no lanes, and its units are its own.
Submitting ==
    \A j \in Jobs :
        /\ job[j] = "absent" =>
              run[j] = "idle" /\ submit[j] = "idle" /\ \A u \in Units : unit[j][u] = "absent"
        /\ submit[j] \in {"validate", "units"} => \A u \in Units : unit[j][u] = "absent"
        /\ submit[j] \in {"validate", "units", "queue"} =>
              /\ job[j] \in {"accepted", "validating", "cancellation_requested", "cancelled"}
              /\ run[j] \in {"idle", "begin", "cancel_report", "cancel_end"}
              /\ run[j] # "idle" => job[j] \in {"cancellation_requested", "cancelled"}

\* A cancel request is for a job.
Cancelled == \A c \in Cancels : cancelPc[c] # "idle" => cancelJob[c] \in Jobs

Supervised == \A w \in Workers : lane[w] # "idle" => run[w[1]] \in {"lanes", "drain"}
RunningJob ==
    \A j \in Jobs : run[j] \in {"lanes", "drain"} =>
        job[j] \in {"running", "cancellation_requested"}

\* A run that waits for interrupted lanes is not interrupted again.
Draining == \A j \in Jobs : run[j] = "drain" => j \in quitting

\* A run has its verdict from the outcomes on.
Decided ==
    \A j \in Jobs : run[j] \in {"check", "collect", "report", "verify", "finish"} =>
        tally[j].verdict # "none"

\* What a lane has in hand fits where it stands.
InHand ==
    \A w \in Workers :
        /\ lane[w] = "judge" => result[w] \in {"retry", "error"}
        /\ lane[w] = "settle" =>
              result[w] \in {"succeeded", "failed", "unknown", "cancelled", "retry", "error"}
        /\ lane[w] = "confirm" => result[w] \in {"succeeded", "failed"}
        /\ lane[w] = "backoff" => tries[w] < MaxAttempts
        /\ lane[w] = "complete" => result[w] \in UnitTerminal

\* Two lanes work on different units, and those are running.
Owned == \A w \in Workers : lane[w] \in Working => unit[w[1]][work[w]] = "running"
Apart ==
    \A v, w \in Workers :
        v # w /\ v[1] = w[1] /\ lane[v] \in Working /\ lane[w] \in Working
            => work[v] # work[w]

\* A unit that was never claimed was never attempted.
Fresh ==
    \A j \in Jobs : \A u \in Units :
        unit[j][u] \in {"absent", "ready"} => attempt[j][u] = NoAttempt /\ u \notin doubtful[j]

\* No attempt without a state.
Blank == \A j \in Jobs : \A u \in Units : attempt[j][u].state = "none" => attempt[j][u] = NoAttempt

\* A unit has as many attempts as its lane has made.
Counted ==
    \A w \in Workers :
        /\ lane[w] \in {"try", "start"} => attempt[w[1]][work[w]].number < tries[w]
        /\ lane[w] \in Working => attempt[w[1]][work[w]].number <= tries[w]
Started == \A w \in Workers : lane[w] = "call" => attempt[w[1]][work[w]].state # "none"

\* A unit in doubt has an attempt, and no lane is about to make another.
Doubtful == \A j \in Jobs : \A u \in doubtful[j] : attempt[j][u].state # "none"
Certain ==
    \A w \in Workers :
        (\/ lane[w] \in {"try", "start", "call", "judge", "backoff"}
         \/ lane[w] = "settle" /\ result[w] \in {"retry", "error"})
            => work[w] \notin doubtful[w[1]]

\* A lane that works holds one key, unless it was halted and has lost it.
Leased ==
    \A k \in Keys :
        /\ key[k] = "leased" => holder[k] \in Workers
        /\ holder[k] \in Workers =>
              key[k] \in {"leased", "cooling_down"} /\ lane[holder[k]] \in Busy
Single == \A k, l \in Keys : holder[k] \in Workers /\ holder[k] = holder[l] => k = l
Held == \A w \in Workers : lane[w] \in Busy /\ w \notin halted => \E k \in Keys : holder[k] = w
Halted ==
    \A w \in Workers :
        lane[w] \in {"check", "claim", "try", "start", "call", "backoff"} => w \notin halted

JobInv ==
    /\ TypeOK
    /\ Quiescent /\ Submitting /\ Cancelled
    /\ Supervised /\ RunningJob /\ Draining /\ Decided
    /\ InHand /\ Owned /\ Apart /\ Fresh /\ Blank /\ Counted /\ Started
    /\ Doubtful /\ Certain
    /\ Leased /\ Single /\ Held /\ Halted

\* What lands late is the outcome of a unit that was taken and that no lane
\* works on; a process that has died writes nothing.
Taken(j, u) == unit[j][u] \in {"running"} \cup UnitTerminal
LateOwn ==
    /\ phase = "down" \/ orphaned # {} => late = NothingLate
    /\ \A j \in Jobs : \A u \in Units : late[j][u] # "none" =>
          /\ Taken(j, u)
          /\ \A w \in Workers : w[1] = j /\ lane[w] \in Working => work[w] # u

-----------------------------------------------------------------------------

\* A worker is a lane of a job.
LEMMA WorkerJob == \A w \in Workers : w[1] \in Jobs /\ w[2] \in Lanes
  BY DEF Workers

\* Nobody is no lane, the first unit is a unit, the first try a try and no tally
\* a tally.
LEMMA Constants ==
    /\ None \notin Jobs /\ None \notin Workers
    /\ 0 \in Units /\ 1 \in 1..MaxAttempts
    /\ UnitCount \in Nat /\ MaxWorkers \in Nat /\ MaxAttempts \in Nat /\ Budget \in Nat
    /\ MaxFaults \in Nat
    /\ NoTally \in [verdict : Verdict, resumed : BOOLEAN]
  BY ConstantsAssumption DEF Units, Workers, Lanes, NoTally, Verdict

-----------------------------------------------------------------------------
\* Submission: nothing runs for the job yet.

LEMMA SubmitKeeps ==
  ASSUME JobInv, NEW j \in Jobs, Submit(j)
  PROVE  JobInv'
<1> USE DEF Submit, Healthy,
            store, poolVars, laneVars, runVars, bootVars, requestVars, cancelVars
<1>1. TypeOK'
  BY Constants, WorkerJob DEF JobInv, TypeOK, JobState, Terminal, UnitState, UnitTerminal,
     AttemptState, RunPc, LanePc, Result, Verdict
<1>2. Quiescent' /\ Cancelled' /\ Supervised' /\ RunningJob'
  BY DEF JobInv, Quiescent, Cancelled, Supervised, RunningJob
<1>3. Decided' /\ InHand' /\ Owned' /\ Apart'
  BY DEF JobInv, Decided, InHand, Owned, Working, Apart
<1>4. Fresh' /\ Counted' /\ Started' /\ Doubtful'
  BY DEF JobInv, Fresh, Counted, Working, Started, Doubtful
<1>5. Certain' /\ Leased' /\ Single' /\ Held'
  BY DEF JobInv, Certain, Leased, Busy, LanePc, Single, Held
<1>6. Blank' /\ Draining' /\ Halted'
  BY DEF JobInv, Blank, Draining, Halted
<1>7. Submitting'
  BY WorkerJob DEF JobInv, Submitting, TypeOK, Terminal
<1> QED
  BY <1>1, <1>2, <1>7, <1>3, <1>4, <1>5, <1>6 DEF JobInv

LEMMA ValidateKeeps ==
  ASSUME JobInv, NEW j \in Jobs, Validate(j)
  PROVE  JobInv'
<1> USE DEF Validate,
            store, poolVars, laneVars, runVars, bootVars, requestVars, cancelVars
<1>1. TypeOK'
  <2>1. /\ job \in [Jobs -> JobState]
        /\ submit \in [Jobs -> {"idle", "validate", "units", "queue", "start"}]
        /\ tally \in [Jobs -> [verdict : Verdict, resumed : BOOLEAN]]
    BY DEF JobInv, TypeOK
  <2>2. job' \in [Jobs -> JobState]
    BY <2>1 DEF JobState, Terminal
  <2>3. submit' \in [Jobs -> {"idle", "validate", "units", "queue", "start"}]
    BY <2>1
  <2> QED
    BY <2>2, <2>3 DEF JobInv, TypeOK
<1>2. Quiescent' /\ Cancelled' /\ Supervised' /\ Decided'
  BY DEF JobInv, Quiescent, Cancelled, Supervised, Decided
<1>3. InHand' /\ Owned' /\ Apart' /\ Fresh'
  BY DEF JobInv, InHand, Owned, Working, Apart, Fresh
<1>4. Counted' /\ Started' /\ Doubtful' /\ Certain'
  BY DEF JobInv, Counted, Working, Started, Doubtful, Certain
<1>5. Leased' /\ Single' /\ Held' /\ Blank'
  BY DEF JobInv, Leased, Busy, LanePc, Single, Held, Blank
<1>6. Draining' /\ Halted'
  BY DEF JobInv, Draining, Halted
<1>7. Submitting'
  BY WorkerJob DEF JobInv, Submitting, TypeOK, Terminal
<1>8. RunningJob'
  BY DEF JobInv, RunningJob, TypeOK, Terminal
<1> QED
  BY <1>1, <1>2, <1>7, <1>8, <1>3, <1>4, <1>5, <1>6 DEF JobInv

LEMMA AddUnitsKeeps ==
  ASSUME JobInv, NEW j \in Jobs, AddUnits(j)
  PROVE  JobInv'
<1> USE DEF AddUnits,
            store, poolVars, laneVars, runVars, bootVars, requestVars, cancelVars
<1>1. TypeOK'
  BY Constants, WorkerJob DEF JobInv, TypeOK, JobState, Terminal, UnitState, UnitTerminal,
     AttemptState, RunPc, LanePc, Result, Verdict
<1>2. Quiescent' /\ Cancelled' /\ Supervised' /\ RunningJob'
  BY DEF JobInv, Quiescent, Cancelled, Supervised, RunningJob
<1>3. Decided' /\ InHand' /\ Apart' /\ Counted'
  BY DEF JobInv, Decided, InHand, Apart, Working, Counted
<1>4. Started' /\ Doubtful' /\ Certain' /\ Leased'
  BY DEF JobInv, Started, Doubtful, Certain, Leased, Busy, LanePc
<1>5. Single' /\ Held' /\ Blank' /\ Draining'
  BY DEF JobInv, Single, Held, Busy, Blank, Draining
<1>6. Halted'
  BY DEF JobInv, Halted
<1>7. Submitting'
  BY WorkerJob DEF JobInv, Submitting, TypeOK, Terminal
<1>8. Owned'
  BY WorkerJob DEF JobInv, Owned, Working, TypeOK, Submitting, Supervised, Quiescent
<1>9. Fresh'
  BY WorkerJob DEF JobInv, Fresh, TypeOK, Submitting, NoAttempt, Interrupted, Quiescent
<1> QED
  BY <1>1, <1>2, <1>7, <1>3, <1>8, <1>9, <1>4, <1>5, <1>6 DEF JobInv

LEMMA QueueKeeps ==
  ASSUME JobInv, NEW j \in Jobs, Queue(j)
  PROVE  JobInv'
<1> USE DEF Queue,
            store, poolVars, laneVars, runVars, bootVars, requestVars, cancelVars
<1>1. TypeOK'
  <2>1. /\ job \in [Jobs -> JobState]
        /\ submit \in [Jobs -> {"idle", "validate", "units", "queue", "start"}]
        /\ tally \in [Jobs -> [verdict : Verdict, resumed : BOOLEAN]]
    BY DEF JobInv, TypeOK
  <2>2. job' \in [Jobs -> JobState]
    BY <2>1 DEF JobState, Terminal
  <2>3. submit' \in [Jobs -> {"idle", "validate", "units", "queue", "start"}]
    BY <2>1
  <2> QED
    BY <2>2, <2>3 DEF JobInv, TypeOK
<1>2. Quiescent' /\ Cancelled' /\ Supervised' /\ Decided'
  BY DEF JobInv, Quiescent, Cancelled, Supervised, Decided
<1>3. InHand' /\ Owned' /\ Apart' /\ Fresh'
  BY DEF JobInv, InHand, Owned, Working, Apart, Fresh
<1>4. Counted' /\ Started' /\ Doubtful' /\ Certain'
  BY DEF JobInv, Counted, Working, Started, Doubtful, Certain
<1>5. Leased' /\ Single' /\ Held' /\ Blank'
  BY DEF JobInv, Leased, Busy, LanePc, Single, Held, Blank
<1>6. Draining' /\ Halted'
  BY DEF JobInv, Draining, Halted
<1>7. Submitting'
  BY WorkerJob DEF JobInv, Submitting, TypeOK, Terminal
<1>8. RunningJob'
  BY DEF JobInv, RunningJob, TypeOK, Terminal
<1> QED
  BY <1>1, <1>2, <1>7, <1>8, <1>3, <1>4, <1>5, <1>6 DEF JobInv

LEMMA ScheduleKeeps ==
  ASSUME JobInv, NEW j \in Jobs, Schedule(j)
  PROVE  JobInv'
<1> USE DEF Schedule, StartRunner, Recoverable,
            store, poolVars, laneVars, runVars, bootVars, requestVars, cancelVars
<1>1. TypeOK'
  <2>1. /\ submit \in [Jobs -> {"idle", "validate", "units", "queue", "start"}]
        /\ run \in [Jobs -> RunPc]
        /\ quitting \subseteq Jobs
    BY DEF JobInv, TypeOK
  <2>2. submit' \in [Jobs -> {"idle", "validate", "units", "queue", "start"}]
    BY <2>1
  <2>3. run' \in [Jobs -> RunPc]
    BY <2>1 DEF RunPc
  <2>4. quitting' \subseteq Jobs
    BY <2>1
  <2> QED
    BY <2>2, <2>3, <2>4 DEF JobInv, TypeOK
<1>2. Quiescent' /\ Cancelled' /\ InHand' /\ Owned'
  BY DEF JobInv, Quiescent, Cancelled, InHand, Owned, Working
<1>3. Apart' /\ Fresh' /\ Counted' /\ Started'
  BY DEF JobInv, Apart, Working, Fresh, Counted, Started
<1>4. Doubtful' /\ Certain' /\ Leased' /\ Single'
  BY DEF JobInv, Doubtful, Certain, Leased, Busy, LanePc, Single
<1>5. Submitting'
  BY WorkerJob DEF JobInv, Submitting, TypeOK, Terminal
<1>6. Supervised'
  BY WorkerJob DEF JobInv, Supervised, TypeOK
<1>7. RunningJob'
  BY DEF JobInv, RunningJob, TypeOK, Terminal
<1>8. Decided'
  BY DEF JobInv, Decided, TypeOK
<1>9. Held'
  BY DEF JobInv, Held, Busy
<1>10. Blank'
  BY DEF JobInv, Blank
<1>11. Draining'
  BY DEF JobInv, Draining, TypeOK
<1>12. Halted'
  BY DEF JobInv, Halted
<1> QED
  BY <1>1, <1>2, <1>5, <1>6, <1>7, <1>8, <1>3, <1>4, <1>9, <1>10, <1>11,
     <1>12 DEF JobInv

-----------------------------------------------------------------------------
\* The runner of a job.

LEMMA BeginKeeps ==
  ASSUME JobInv, NEW j \in Jobs, Begin(j)
  PROVE  JobInv'
<1> USE DEF Begin, RunEnds, RunTo, Cancelling, Terminal,
            store, poolVars, laneVars, runVars, bootVars, requestVars, cancelVars
<1>1. TypeOK'
  <2>1. /\ run \in [Jobs -> RunPc]
        /\ quitting \subseteq Jobs
        /\ tally \in [Jobs -> [verdict : Verdict, resumed : BOOLEAN]]
        /\ spent \in [Jobs -> 0..Budget]
        /\ workers \in [Jobs -> 0..MaxWorkers]
    BY DEF JobInv, TypeOK
  <2>2. run' \in [Jobs -> RunPc]
    BY <2>1 DEF RunPc
  <2>3. quitting' \subseteq Jobs
    BY <2>1
  <2>4. tally' \in [Jobs -> [verdict : Verdict, resumed : BOOLEAN]]
    BY <2>1, Constants, WorkerJob DEF Verdict, JobInv, InHand, Counted, Decided, Working,
       NoAttempt, Fresh
  <2>5. spent' \in [Jobs -> 0..Budget]
    BY <2>1, Constants, WorkerJob DEF Exhausted
  <2> QED
    BY <2>2, <2>3, <2>4, <2>5 DEF JobInv, TypeOK
<1>2. Quiescent' /\ Cancelled' /\ InHand' /\ Owned'
  BY DEF JobInv, Quiescent, Cancelled, InHand, Owned, Working
<1>3. Apart' /\ Fresh' /\ Counted' /\ Started'
  BY DEF JobInv, Apart, Working, Fresh, Counted, Started
<1>4. Doubtful' /\ Certain' /\ Leased' /\ Single'
  BY DEF JobInv, Doubtful, Certain, Leased, Busy, LanePc, Single
<1>5. Submitting'
  BY WorkerJob DEF JobInv, Submitting, TypeOK, Terminal
<1>6. Supervised'
  BY WorkerJob DEF JobInv, Supervised, TypeOK
<1>7. RunningJob'
  BY DEF JobInv, RunningJob, TypeOK, Terminal
<1>8. Decided'
  BY DEF JobInv, Decided, TypeOK
<1>9. Held'
  BY DEF JobInv, Held, Busy
<1>10. Blank'
  BY DEF JobInv, Blank
<1>11. Draining'
  BY DEF JobInv, Draining, TypeOK
<1>12. Halted'
  BY DEF JobInv, Halted
<1> QED
  BY <1>1, <1>2, <1>5, <1>6, <1>7, <1>8, <1>3, <1>4, <1>9, <1>10, <1>11,
     <1>12 DEF JobInv

LEMMA PlanKeeps ==
  ASSUME JobInv, NEW j \in Jobs, Plan(j)
  PROVE  JobInv'
<1> USE DEF Plan, RunTo, Cancelling, Terminal,
            store, poolVars, laneVars, runVars, bootVars, requestVars, cancelVars
<1>1. TypeOK'
  BY Constants, WorkerJob DEF JobInv, TypeOK, JobState, Terminal, UnitState, UnitTerminal,
     AttemptState, RunPc, LanePc, Result, Verdict
<1>2. Quiescent' /\ Submitting' /\ Cancelled' /\ Supervised'
  BY DEF JobInv, Quiescent, Submitting, Cancelled, Supervised
<1>3. RunningJob' /\ Decided' /\ InHand' /\ Owned'
  BY DEF JobInv, RunningJob, Decided, InHand, Owned, Working
<1>4. Apart' /\ Fresh' /\ Counted' /\ Started'
  BY DEF JobInv, Apart, Working, Fresh, Counted, Started
<1>5. Doubtful' /\ Certain' /\ Leased' /\ Single'
  BY DEF JobInv, Doubtful, Certain, Leased, Busy, LanePc, Single
<1>6. Held' /\ Blank' /\ Draining' /\ Halted'
  BY DEF JobInv, Held, Busy, Blank, Draining, Halted
<1> QED
  BY <1>1, <1>2, <1>3, <1>4, <1>5, <1>6 DEF JobInv

LEMMA PlanFailsKeeps ==
  ASSUME JobInv, NEW j \in Jobs, PlanFails(j)
  PROVE  JobInv'
<1> USE DEF PlanFails, Unplanned, Fault, RunTo, Cancelling, Terminal,
            store, poolVars, laneVars, runVars, bootVars, requestVars, cancelVars
<1>1. TypeOK'
  BY Constants, WorkerJob DEF JobInv, TypeOK, JobState, Terminal, UnitState, UnitTerminal,
     AttemptState, RunPc, LanePc, Result, Verdict
<1>2. Quiescent' /\ Submitting' /\ Cancelled' /\ Supervised'
  BY DEF JobInv, Quiescent, Submitting, Cancelled, Supervised
<1>3. RunningJob' /\ Decided' /\ InHand' /\ Owned'
  BY DEF JobInv, RunningJob, Decided, InHand, Owned, Working
<1>4. Apart' /\ Fresh' /\ Counted' /\ Started'
  BY DEF JobInv, Apart, Working, Fresh, Counted, Started
<1>5. Doubtful' /\ Certain' /\ Leased' /\ Single'
  BY DEF JobInv, Doubtful, Certain, Leased, Busy, LanePc, Single
<1>6. Held' /\ Blank' /\ Draining' /\ Halted'
  BY DEF JobInv, Held, Busy, Blank, Draining, Halted
<1> QED
  BY <1>1, <1>2, <1>3, <1>4, <1>5, <1>6 DEF JobInv

LEMMA UnplannedEndKeeps ==
  ASSUME JobInv, NEW j \in Jobs, UnplannedEnd(j)
  PROVE  JobInv'
<1> USE DEF UnplannedEnd, RunEnds, RunTo, Cancelling, Terminal,
            store, poolVars, laneVars, runVars, bootVars, requestVars, cancelVars
<1>1. TypeOK'
  BY Constants, WorkerJob DEF JobInv, TypeOK, JobState, Terminal, UnitState, UnitTerminal,
     AttemptState, RunPc, LanePc, Result, Verdict
<1>2. Quiescent' /\ Submitting' /\ Cancelled' /\ Supervised'
  BY DEF JobInv, Quiescent, Submitting, Cancelled, Supervised
<1>3. RunningJob' /\ Decided' /\ InHand' /\ Owned'
  BY DEF JobInv, RunningJob, Decided, InHand, Owned, Working
<1>4. Apart' /\ Fresh' /\ Counted' /\ Started'
  BY DEF JobInv, Apart, Working, Fresh, Counted, Started
<1>5. Doubtful' /\ Certain' /\ Leased' /\ Single'
  BY DEF JobInv, Doubtful, Certain, Leased, Busy, LanePc, Single
<1>6. Held' /\ Blank' /\ Draining' /\ Halted'
  BY DEF JobInv, Held, Busy, Blank, Draining, Halted
<1> QED
  BY <1>1, <1>2, <1>3, <1>4, <1>5, <1>6 DEF JobInv

LEMMA ReadyKeeps ==
  ASSUME JobInv, NEW j \in Jobs, Ready(j)
  PROVE  JobInv'
<1> USE DEF Ready, Launch, RunTo, Cancelling, Terminal,
            store, poolVars, laneVars, runVars, bootVars, requestVars, cancelVars
<1>1. /\ job \in [Jobs -> JobState]
      /\ run \in [Jobs -> RunPc]
      /\ lane \in [Workers -> LanePc]
      /\ tally \in [Jobs -> [verdict : Verdict, resumed : BOOLEAN]]
  BY DEF JobInv, TypeOK
<1>2. \A w \in Workers : w[1] = j => lane[w] = "idle"
  BY DEF JobInv, Supervised
<1>3. tally' \in [Jobs -> [verdict : Verdict, resumed : BOOLEAN]]
  <2>1. tally' = tally \/ tally' = [tally EXCEPT ![j].resumed = TRUE]
    OBVIOUS
  <2> HIDE DEF Ready
  <2> QED
    BY <1>1, <2>1
<1>4. Leased'
  BY <1>1, <1>2, Constants DEF JobInv, Leased, Busy, LanePc
<1>5. TypeOK'
  <2>1. /\ run \in [Jobs -> RunPc]
        /\ spent \in [Jobs -> 0..Budget]
        /\ lane \in [Workers -> LanePc]
        /\ workers \in [Jobs -> 0..MaxWorkers]
    BY DEF JobInv, TypeOK
  <2>2. run' \in [Jobs -> RunPc]
    BY <2>1 DEF RunPc
  <2>3. spent' \in [Jobs -> 0..Budget]
    BY <2>1, Constants, WorkerJob DEF Exhausted
  <2>4. lane' \in [Workers -> LanePc]
    BY <2>1 DEF LanePc
  <2> QED
    BY <1>3, <2>2, <2>3, <2>4 DEF JobInv, TypeOK
<1>6. Quiescent' /\ Cancelled' /\ InHand' /\ Owned'
  BY DEF JobInv, Quiescent, Cancelled, InHand, Owned, Working
<1>7. Apart' /\ Fresh' /\ Counted' /\ Started'
  BY DEF JobInv, Apart, Working, Fresh, Counted, Started
<1>8. Doubtful' /\ Certain' /\ Single' /\ Held'
  BY DEF JobInv, Doubtful, Certain, Single, Held, Busy
<1>9. Submitting'
  <2>1. /\ submit[j] \notin {"validate", "units", "queue"} /\ job[j] # "absent"
        /\ \A i \in Jobs \ {j} : run'[i] = run[i]
    BY <1>1 DEF JobInv, Submitting
  <2>2. job' = job /\ submit' = submit /\ unit' = unit
    OBVIOUS
  <2> HIDE DEF Ready
  <2> QED
    BY <2>1, <2>2 DEF JobInv, Submitting
<1>10. Supervised'
  <2>1. \A i \in Jobs \ {j} : run'[i] = run[i]
    BY <1>1
  <2>2. \A w \in Workers : w[1] # j => lane'[w] = lane[w]
    BY <1>1
  <2>3. run'[j] = "lanes" \/ lane' = lane
    BY <1>1
  <2> HIDE DEF Ready
  <2> QED
    BY <1>2, <2>1, <2>2, <2>3, WorkerJob DEF JobInv, Supervised
<1>11. RunningJob'
  BY DEF JobInv, RunningJob, TypeOK, Terminal
<1>12. Decided'
  BY DEF JobInv, Decided, TypeOK
<1>13. Blank'
  BY DEF JobInv, Blank
<1>14. Draining'
  BY DEF JobInv, Draining, TypeOK
<1>15. Halted'
  BY DEF JobInv, Halted
<1> QED
  BY <1>5, <1>6, <1>9, <1>10, <1>11, <1>12, <1>7, <1>8, <1>4, <1>13, <1>14,
     <1>15 DEF JobInv

LEMMA PromoteKeeps ==
  ASSUME JobInv, NEW j \in Jobs, Promote(j)
  PROVE  JobInv'
<1> USE DEF Promote, Launch, RunTo, Cancelling, Terminal,
            store, poolVars, laneVars, runVars, bootVars, requestVars, cancelVars
<1>1. /\ job \in [Jobs -> JobState]
      /\ run \in [Jobs -> RunPc]
      /\ lane \in [Workers -> LanePc]
  BY DEF JobInv, TypeOK
<1>2. \A w \in Workers : w[1] = j => lane[w] = "idle"
  BY DEF JobInv, Supervised
<1>3. Supervised'
  <2>1. ASSUME NEW w \in Workers, lane'[w] # "idle"
        PROVE  run'[w[1]] \in {"lanes", "drain"}
    <3>1. w[1] \in Jobs
      BY WorkerJob
    <3>2. CASE w[1] = j
      BY <1>1, <1>2, <2>1, <3>2
    <3>3. CASE w[1] # j
      BY <1>1, <2>1, <3>1, <3>3 DEF JobInv, Supervised
    <3> QED
      BY <3>2, <3>3
  <2> QED
    BY <2>1 DEF Supervised
<1>4. RunningJob'
  <2>1. CASE job[j] = "queued"
    BY <1>1, <2>1 DEF JobInv, RunningJob
  <2>2. CASE job[j] # "queued"
    BY <1>1, <2>2 DEF JobInv, RunningJob
  <2> QED
    BY <2>1, <2>2
<1>5. Leased'
  BY <1>1, <1>2, Constants DEF JobInv, Leased, Busy, LanePc
<1>6. TypeOK'
  <2>1. /\ job \in [Jobs -> JobState]
        /\ run \in [Jobs -> RunPc]
        /\ spent \in [Jobs -> 0..Budget]
        /\ lane \in [Workers -> LanePc]
        /\ tally \in [Jobs -> [verdict : Verdict, resumed : BOOLEAN]]
        /\ workers \in [Jobs -> 0..MaxWorkers]
    BY DEF JobInv, TypeOK
  <2>2. job' \in [Jobs -> JobState]
    BY <2>1 DEF JobState, Terminal
  <2>3. run' \in [Jobs -> RunPc]
    BY <2>1 DEF RunPc
  <2>4. spent' \in [Jobs -> 0..Budget]
    BY <2>1, Constants, WorkerJob DEF Exhausted
  <2>5. lane' \in [Workers -> LanePc]
    BY <2>1 DEF LanePc
  <2> QED
    BY <2>2, <2>3, <2>4, <2>5 DEF JobInv, TypeOK
<1>7. Quiescent' /\ Cancelled' /\ InHand' /\ Owned'
  BY DEF JobInv, Quiescent, Cancelled, InHand, Owned, Working
<1>8. Apart' /\ Fresh' /\ Counted' /\ Started'
  BY DEF JobInv, Apart, Working, Fresh, Counted, Started
<1>9. Doubtful' /\ Certain' /\ Single' /\ Held'
  BY DEF JobInv, Doubtful, Certain, Single, Held, Busy
<1>10. Submitting'
  <2>1. /\ submit[j] \notin {"validate", "units", "queue"} /\ job[j] # "absent"
        /\ \A i \in Jobs \ {j} : run'[i] = run[i] /\ job'[i] = job[i]
        /\ job'[j] # "absent"
    BY <1>1 DEF JobInv, Submitting
  <2>2. submit' = submit /\ unit' = unit
    OBVIOUS
  <2> HIDE DEF Promote
  <2> QED
    BY <2>1, <2>2 DEF JobInv, Submitting
<1>11. Decided'
  BY DEF JobInv, Decided, TypeOK
<1>12. Blank'
  BY DEF JobInv, Blank
<1>13. Draining'
  BY DEF JobInv, Draining, TypeOK
<1>14. Halted'
  BY DEF JobInv, Halted
<1> QED
  BY <1>6, <1>7, <1>10, <1>3, <1>4, <1>11, <1>8, <1>9, <1>5, <1>12, <1>13, <1>14
     DEF JobInv

LEMMA JoinKeeps ==
  ASSUME JobInv, NEW j \in Jobs, Join(j)
  PROVE  JobInv'
<1> USE DEF Join, LanesDone, RunTo, Cancelling, Terminal,
            store, poolVars, laneVars, runVars, bootVars, requestVars, cancelVars
<1>1. TypeOK'
  BY Constants, WorkerJob DEF JobInv, TypeOK, JobState, Terminal, UnitState, UnitTerminal,
     AttemptState, RunPc, LanePc, Result, Verdict
<1>2. Quiescent' /\ Submitting' /\ Cancelled' /\ Supervised'
  BY DEF JobInv, Quiescent, Submitting, Cancelled, Supervised
<1>3. RunningJob' /\ Decided' /\ InHand' /\ Owned'
  BY DEF JobInv, RunningJob, Decided, InHand, Owned, Working
<1>4. Apart' /\ Fresh' /\ Counted' /\ Started'
  BY DEF JobInv, Apart, Working, Fresh, Counted, Started
<1>5. Doubtful' /\ Certain' /\ Leased' /\ Single'
  BY DEF JobInv, Doubtful, Certain, Leased, Busy, LanePc, Single
<1>6. Held' /\ Blank' /\ Draining' /\ Halted'
  BY DEF JobInv, Held, Busy, Blank, Draining, Halted
<1> QED
  BY <1>1, <1>2, <1>3, <1>4, <1>5, <1>6 DEF JobInv

LEMMA DrainedKeeps ==
  ASSUME JobInv, NEW j \in Jobs, Drained(j)
  PROVE  JobInv'
<1> USE DEF Drained, LanesDone, RunEnds, RunTo, Cancelling, Terminal,
            store, poolVars, laneVars, runVars, bootVars, requestVars, cancelVars
<1>1. TypeOK'
  BY Constants, WorkerJob DEF JobInv, TypeOK, JobState, Terminal, UnitState, UnitTerminal,
     AttemptState, RunPc, LanePc, Result, Verdict
<1>2. Quiescent' /\ Submitting' /\ Cancelled' /\ Supervised'
  BY DEF JobInv, Quiescent, Submitting, Cancelled, Supervised
<1>3. RunningJob' /\ Decided' /\ InHand' /\ Owned'
  BY DEF JobInv, RunningJob, Decided, InHand, Owned, Working
<1>4. Apart' /\ Fresh' /\ Counted' /\ Started'
  BY DEF JobInv, Apart, Working, Fresh, Counted, Started
<1>5. Doubtful' /\ Certain' /\ Leased' /\ Single'
  BY DEF JobInv, Doubtful, Certain, Leased, Busy, LanePc, Single
<1>6. Held'
  BY DEF JobInv, Held, Busy
<1>7. Blank'
  BY DEF JobInv, Blank
<1>8. Draining'
  BY DEF JobInv, Draining, TypeOK
<1>9. Halted'
  BY DEF JobInv, Halted
<1> QED
  BY <1>1, <1>2, <1>3, <1>4, <1>5, <1>6, <1>7, <1>8, <1>9 DEF JobInv

LEMMA OutcomesKeeps ==
  ASSUME JobInv, NEW j \in Jobs, Outcomes(j)
  PROVE  JobInv'
<1> USE DEF Outcomes, Verdict, RunTo, Cancelling, Terminal,
            store, poolVars, laneVars, runVars, bootVars, requestVars, cancelVars
<1>1. TypeOK'
  <2>1. /\ run \in [Jobs -> RunPc]
        /\ tally \in [Jobs -> [verdict : Verdict, resumed : BOOLEAN]]
    BY DEF JobInv, TypeOK
  <2>2. run' \in [Jobs -> RunPc]
    BY <2>1 DEF RunPc
  <2>3. tally' \in [Jobs -> [verdict : Verdict, resumed : BOOLEAN]]
    BY <2>1, Constants DEF Verdict
  <2> QED
    BY <2>2, <2>3 DEF JobInv, TypeOK
<1>2. Quiescent' /\ Submitting' /\ Cancelled' /\ Supervised'
  BY DEF JobInv, Quiescent, Submitting, Cancelled, Supervised
<1>3. RunningJob' /\ InHand' /\ Owned' /\ Apart'
  BY DEF JobInv, RunningJob, InHand, Owned, Working, Apart
<1>4. Fresh' /\ Counted' /\ Started' /\ Doubtful'
  BY DEF JobInv, Fresh, Counted, Working, Started, Doubtful
<1>5. Certain' /\ Leased' /\ Single' /\ Held'
  BY DEF JobInv, Certain, Leased, Busy, LanePc, Single, Held
<1>6. Blank' /\ Draining' /\ Halted'
  BY DEF JobInv, Blank, Draining, Halted
<1>7. Decided'
  BY DEF JobInv, Decided, TypeOK
<1> QED
  BY <1>1, <1>2, <1>3, <1>7, <1>4, <1>5, <1>6 DEF JobInv

LEMMA OutcomesFailKeeps ==
  ASSUME JobInv, NEW j \in Jobs, OutcomesFail(j)
  PROVE  JobInv'
<1> USE DEF OutcomesFail, Fault, RunTo, Cancelling, Terminal,
            store, poolVars, laneVars, runVars, bootVars, requestVars, cancelVars
<1>1. TypeOK'
  BY Constants, WorkerJob DEF JobInv, TypeOK, JobState, Terminal, UnitState, UnitTerminal,
     AttemptState, RunPc, LanePc, Result, Verdict
<1>2. Quiescent' /\ Submitting' /\ Cancelled' /\ Supervised'
  BY DEF JobInv, Quiescent, Submitting, Cancelled, Supervised
<1>3. RunningJob' /\ Decided' /\ InHand' /\ Owned'
  BY DEF JobInv, RunningJob, Decided, InHand, Owned, Working
<1>4. Apart' /\ Fresh' /\ Counted' /\ Started'
  BY DEF JobInv, Apart, Working, Fresh, Counted, Started
<1>5. Doubtful' /\ Certain' /\ Leased' /\ Single'
  BY DEF JobInv, Doubtful, Certain, Leased, Busy, LanePc, Single
<1>6. Held' /\ Blank' /\ Draining' /\ Halted'
  BY DEF JobInv, Held, Busy, Blank, Draining, Halted
<1> QED
  BY <1>1, <1>2, <1>3, <1>4, <1>5, <1>6 DEF JobInv

LEMMA CheckKeeps ==
  ASSUME JobInv, NEW j \in Jobs, Check(j)
  PROVE  JobInv'
<1> USE DEF Check, RunTo, Cancelling, Terminal,
            store, poolVars, laneVars, runVars, bootVars, requestVars, cancelVars
<1>1. TypeOK'
  BY Constants, WorkerJob DEF JobInv, TypeOK, JobState, Terminal, UnitState, UnitTerminal,
     AttemptState, RunPc, LanePc, Result, Verdict
<1>2. Quiescent' /\ Submitting' /\ Cancelled' /\ Supervised'
  BY DEF JobInv, Quiescent, Submitting, Cancelled, Supervised
<1>3. RunningJob' /\ Decided' /\ InHand' /\ Owned'
  BY DEF JobInv, RunningJob, Decided, InHand, Owned, Working
<1>4. Apart' /\ Fresh' /\ Counted' /\ Started'
  BY DEF JobInv, Apart, Working, Fresh, Counted, Started
<1>5. Doubtful' /\ Certain' /\ Leased' /\ Single'
  BY DEF JobInv, Doubtful, Certain, Leased, Busy, LanePc, Single
<1>6. Held' /\ Blank' /\ Draining' /\ Halted'
  BY DEF JobInv, Held, Busy, Blank, Draining, Halted
<1> QED
  BY <1>1, <1>2, <1>3, <1>4, <1>5, <1>6 DEF JobInv

LEMMA CollectKeeps ==
  ASSUME JobInv, NEW j \in Jobs, Collect(j)
  PROVE  JobInv'
<1> USE DEF Collect, RunTo, Cancelling, Terminal,
            store, poolVars, laneVars, runVars, bootVars, requestVars, cancelVars
<1>1. /\ job \in [Jobs -> JobState]
      /\ run \in [Jobs -> RunPc]
  BY DEF JobInv, TypeOK
<1>2. RunningJob'
  BY <1>1 DEF JobInv, RunningJob
<1>3. TypeOK'
  <2>1. /\ job \in [Jobs -> JobState]
        /\ run \in [Jobs -> RunPc]
        /\ tally \in [Jobs -> [verdict : Verdict, resumed : BOOLEAN]]
    BY DEF JobInv, TypeOK
  <2>2. job' \in [Jobs -> JobState]
    BY <2>1 DEF JobState, Terminal
  <2>3. run' \in [Jobs -> RunPc]
    BY <2>1 DEF RunPc
  <2> QED
    BY <2>2, <2>3 DEF JobInv, TypeOK
<1>4. Quiescent' /\ Cancelled' /\ InHand' /\ Owned'
  BY DEF JobInv, Quiescent, Cancelled, InHand, Owned, Working
<1>5. Apart' /\ Fresh' /\ Counted' /\ Started'
  BY DEF JobInv, Apart, Working, Fresh, Counted, Started
<1>6. Doubtful' /\ Certain' /\ Leased' /\ Single'
  BY DEF JobInv, Doubtful, Certain, Leased, Busy, LanePc, Single
<1>7. Submitting'
  <2>1. /\ submit[j] \notin {"validate", "units", "queue"} /\ job[j] # "absent"
        /\ \A i \in Jobs \ {j} : run'[i] = run[i] /\ job'[i] = job[i]
        /\ job'[j] # "absent"
    BY <1>1 DEF JobInv, Submitting
  <2>2. submit' = submit /\ unit' = unit
    OBVIOUS
  <2> HIDE DEF Collect
  <2> QED
    BY <2>1, <2>2 DEF JobInv, Submitting
<1>8. Supervised'
  BY WorkerJob DEF JobInv, Supervised, TypeOK
<1>9. Decided'
  BY DEF JobInv, Decided, TypeOK
<1>10. Held'
  BY DEF JobInv, Held, Busy
<1>11. Blank'
  BY DEF JobInv, Blank
<1>12. Draining'
  BY DEF JobInv, Draining, TypeOK
<1>13. Halted'
  BY DEF JobInv, Halted
<1> QED
  BY <1>3, <1>4, <1>7, <1>8, <1>2, <1>9, <1>5, <1>6, <1>10, <1>11, <1>12,
     <1>13 DEF JobInv

LEMMA ReportKeeps ==
  ASSUME JobInv, NEW j \in Jobs, Report(j)
  PROVE  JobInv'
<1> USE DEF Report, Fault, RunTo, Cancelling, Terminal,
            store, poolVars, laneVars, runVars, bootVars, requestVars, cancelVars
<1>1. TypeOK'
  <2>1. /\ manifest \in [Jobs -> {"none", "report", "failed", "cancelled"}]
        /\ run \in [Jobs -> RunPc]
        /\ tally \in [Jobs -> [verdict : Verdict, resumed : BOOLEAN]]
        /\ faults \in 0..MaxFaults
    BY DEF JobInv, TypeOK
  <2>2. manifest' \in [Jobs -> {"none", "report", "failed", "cancelled"}]
    BY <2>1
  <2>3. run' \in [Jobs -> RunPc]
    BY <2>1 DEF RunPc
  <2>4. tally' \in [Jobs -> [verdict : Verdict, resumed : BOOLEAN]]
    BY <2>1, Constants DEF Verdict
  <2>5. faults' \in 0..MaxFaults
    BY <2>1, Constants, WorkerJob
  <2> QED
    BY <2>2, <2>3, <2>4, <2>5 DEF JobInv, TypeOK
<1>2. Quiescent' /\ Submitting' /\ Cancelled' /\ Supervised'
  BY DEF JobInv, Quiescent, Submitting, Cancelled, Supervised
<1>3. RunningJob' /\ InHand' /\ Owned' /\ Apart'
  BY DEF JobInv, RunningJob, InHand, Owned, Working, Apart
<1>4. Fresh' /\ Counted' /\ Started' /\ Doubtful'
  BY DEF JobInv, Fresh, Counted, Working, Started, Doubtful
<1>5. Certain' /\ Leased' /\ Single' /\ Held'
  BY DEF JobInv, Certain, Leased, Busy, LanePc, Single, Held
<1>6. Blank' /\ Draining' /\ Halted'
  BY DEF JobInv, Blank, Draining, Halted
<1>7. Decided'
  BY DEF JobInv, Decided, TypeOK
<1> QED
  BY <1>1, <1>2, <1>3, <1>7, <1>4, <1>5, <1>6 DEF JobInv

LEMMA VerifyKeeps ==
  ASSUME JobInv, NEW j \in Jobs, Verify(j)
  PROVE  JobInv'
<1> USE DEF Verify, RunTo, Cancelling, Terminal,
            store, poolVars, laneVars, runVars, bootVars, requestVars, cancelVars
<1>1. TypeOK'
  BY Constants, WorkerJob DEF JobInv, TypeOK, JobState, Terminal, UnitState, UnitTerminal,
     AttemptState, RunPc, LanePc, Result, Verdict
<1>2. Quiescent' /\ Submitting' /\ Cancelled' /\ Supervised'
  BY DEF JobInv, Quiescent, Submitting, Cancelled, Supervised
<1>3. RunningJob' /\ Decided' /\ InHand' /\ Owned'
  BY DEF JobInv, RunningJob, Decided, InHand, Owned, Working
<1>4. Apart' /\ Fresh' /\ Counted' /\ Started'
  BY DEF JobInv, Apart, Working, Fresh, Counted, Started
<1>5. Doubtful' /\ Certain' /\ Leased' /\ Single'
  BY DEF JobInv, Doubtful, Certain, Leased, Busy, LanePc, Single
<1>6. Held' /\ Blank' /\ Draining' /\ Halted'
  BY DEF JobInv, Held, Busy, Blank, Draining, Halted
<1> QED
  BY <1>1, <1>2, <1>3, <1>4, <1>5, <1>6 DEF JobInv

LEMMA FinishKeeps ==
  ASSUME JobInv, NEW j \in Jobs, Finish(j)
  PROVE  JobInv'
<1> USE DEF Finish, RunEnds, RunTo, Cancelling, Terminal,
            store, poolVars, laneVars, runVars, bootVars, requestVars, cancelVars
<1>1. /\ job \in [Jobs -> JobState]
      /\ run \in [Jobs -> RunPc]
      /\ submit \in [Jobs -> {"idle", "validate", "units", "queue", "start"}]
      /\ tally \in [Jobs -> [verdict : Verdict, resumed : BOOLEAN]]
  BY DEF JobInv, TypeOK
<1>2. submit[j] \in {"idle", "start"}
  BY <1>1 DEF JobInv, Submitting
<1>3. tally[j].verdict \in Verdict \ {"none"}
  BY <1>1 DEF JobInv, Decided
<1>4. /\ job \in [Jobs -> JobState]
      /\ run \in [Jobs -> RunPc]
      /\ submit[j] \in {"idle", "start"}
      /\ tally[j].verdict \in Verdict \ {"none"}
  BY <1>1, <1>2, <1>3
<1>5. /\ \A i \in Jobs \ {j} : job'[i] = job[i] /\ run'[i] = run[i] /\ tally'[i] = tally[i]
      /\ run'[j] \in {"idle", "raised", "cancel_report"}
      /\ job'[j] # "absent"
  <2>1. CASE job[j] = "collecting"
    BY <1>4, <2>1 DEF Verdict, JobInv, TypeOK
  <2>2. CASE job[j] # "collecting"
    BY <1>4, <2>2 DEF JobInv, Submitting, TypeOK
  <2> QED
    BY <2>1, <2>2
<1>6. submit' = submit /\ unit' = unit
  OBVIOUS
<1> HIDE DEF Finish
<1>7. Submitting'
  BY <1>4, <1>5, <1>6 DEF JobInv, Submitting
<1>8. RunningJob'
  BY <1>5 DEF JobInv, RunningJob
<1>9. Decided'
  BY <1>5 DEF JobInv, Decided
<1>10. TypeOK'
  <2>1. /\ job \in [Jobs -> JobState]
        /\ run \in [Jobs -> RunPc]
        /\ quitting \subseteq Jobs
        /\ tally \in [Jobs -> [verdict : Verdict, resumed : BOOLEAN]]
        /\ spent \in [Jobs -> 0..Budget]
        /\ workers \in [Jobs -> 0..MaxWorkers]
    BY DEF JobInv, TypeOK
  <2>2. job' \in [Jobs -> JobState]
    BY <2>1, Constants, WorkerJob DEF JobState, Terminal, Terminal, Verdict, JobInv, InHand,
       Counted, Decided, Working, NoAttempt, Fresh, Finish
  <2>3. run' \in [Jobs -> RunPc]
    BY <2>1 DEF RunPc, Finish
  <2>4. quitting' \subseteq Jobs
    BY <2>1 DEF Finish
  <2>5. tally' \in [Jobs -> [verdict : Verdict, resumed : BOOLEAN]]
    BY <2>1, Constants, WorkerJob DEF Verdict, Finish
  <2>6. spent' \in [Jobs -> 0..Budget]
    BY <2>1, Constants DEF Exhausted, Finish
  <2> QED
    BY <2>2, <2>3, <2>4, <2>5, <2>6 DEF JobInv, TypeOK, Finish
<1>11. Quiescent' /\ Cancelled' /\ InHand' /\ Owned'
  BY DEF JobInv, Quiescent, Cancelled, InHand, Owned, Working, Finish
<1>12. Apart' /\ Fresh' /\ Counted' /\ Started'
  BY DEF JobInv, Apart, Working, Fresh, Counted, Started, Finish
<1>13. Doubtful' /\ Certain' /\ Leased' /\ Single'
  BY DEF JobInv, Doubtful, Certain, Leased, Busy, LanePc, Single, Finish
<1>14. Supervised'
  BY WorkerJob DEF JobInv, Supervised, TypeOK, Finish
<1>15. Held'
  BY DEF JobInv, Held, Busy, Finish
<1>16. Blank'
  BY DEF JobInv, Blank, Finish
<1>17. Draining'
  <2>1. \A i \in Jobs \ {j} : i \in quitting => i \in quitting'
    BY <1>1 DEF Finish
  <2> QED
    BY <1>5, <2>1 DEF JobInv, Draining
<1>18. Halted'
  BY DEF JobInv, Halted, Finish
<1> QED
  BY <1>10, <1>11, <1>7, <1>14, <1>8, <1>9, <1>12, <1>13, <1>15, <1>16, <1>17, <1>18
     DEF JobInv

LEMMA RaisedKeeps ==
  ASSUME JobInv, NEW j \in Jobs, Raised(j)
  PROVE  JobInv'
<1> USE DEF Raised, RunEnds, RunTo, Cancelling, Terminal,
            store, poolVars, laneVars, runVars, bootVars, requestVars, cancelVars
<1>1. TypeOK'
  BY Constants, WorkerJob DEF JobInv, TypeOK, JobState, Terminal, UnitState, UnitTerminal,
     AttemptState, RunPc, LanePc, Result, Verdict
<1>2. Quiescent' /\ Submitting' /\ Cancelled' /\ Supervised'
  BY DEF JobInv, Quiescent, Submitting, Cancelled, Supervised
<1>3. RunningJob' /\ Decided' /\ InHand' /\ Owned'
  BY DEF JobInv, RunningJob, Decided, InHand, Owned, Working
<1>4. Apart' /\ Fresh' /\ Counted' /\ Started'
  BY DEF JobInv, Apart, Working, Fresh, Counted, Started
<1>5. Doubtful' /\ Certain' /\ Leased' /\ Single'
  BY DEF JobInv, Doubtful, Certain, Leased, Busy, LanePc, Single
<1>6. Held' /\ Blank' /\ Draining' /\ Halted'
  BY DEF JobInv, Held, Busy, Blank, Draining, Halted
<1> QED
  BY <1>1, <1>2, <1>3, <1>4, <1>5, <1>6 DEF JobInv

LEMMA CancelReportKeeps ==
  ASSUME JobInv, NEW j \in Jobs, CancelReport(j)
  PROVE  JobInv'
<1> USE DEF CancelReport, RunTo, Cancelling, Terminal,
            store, poolVars, laneVars, runVars, bootVars, requestVars, cancelVars
<1>1. TypeOK'
  BY Constants, WorkerJob DEF JobInv, TypeOK, JobState, Terminal, UnitState, UnitTerminal,
     AttemptState, RunPc, LanePc, Result, Verdict
<1>2. Quiescent' /\ Submitting' /\ Cancelled' /\ Supervised'
  BY DEF JobInv, Quiescent, Submitting, Cancelled, Supervised
<1>3. RunningJob' /\ Decided' /\ InHand' /\ Owned'
  BY DEF JobInv, RunningJob, Decided, InHand, Owned, Working
<1>4. Apart' /\ Fresh' /\ Counted' /\ Started'
  BY DEF JobInv, Apart, Working, Fresh, Counted, Started
<1>5. Doubtful' /\ Certain' /\ Leased' /\ Single'
  BY DEF JobInv, Doubtful, Certain, Leased, Busy, LanePc, Single
<1>6. Held' /\ Blank' /\ Draining' /\ Halted'
  BY DEF JobInv, Held, Busy, Blank, Draining, Halted
<1> QED
  BY <1>1, <1>2, <1>3, <1>4, <1>5, <1>6 DEF JobInv

LEMMA CancelEndKeeps ==
  ASSUME JobInv, NEW j \in Jobs, CancelEnd(j)
  PROVE  JobInv'
<1> USE DEF CancelEnd, RunEnds, RunTo, Cancelling, Terminal,
            store, poolVars, laneVars, runVars, bootVars, requestVars, cancelVars
<1>1. TypeOK'
  BY Constants, WorkerJob DEF JobInv, TypeOK, JobState, Terminal, UnitState, UnitTerminal,
     AttemptState, RunPc, LanePc, Result, Verdict
<1>2. Quiescent' /\ Submitting' /\ Cancelled' /\ Supervised'
  BY DEF JobInv, Quiescent, Submitting, Cancelled, Supervised
<1>3. RunningJob' /\ Decided' /\ InHand' /\ Owned'
  BY DEF JobInv, RunningJob, Decided, InHand, Owned, Working
<1>4. Apart' /\ Fresh' /\ Counted' /\ Started'
  BY DEF JobInv, Apart, Working, Fresh, Counted, Started
<1>5. Doubtful' /\ Certain' /\ Leased' /\ Single'
  BY DEF JobInv, Doubtful, Certain, Leased, Busy, LanePc, Single
<1>6. Held' /\ Blank' /\ Draining' /\ Halted'
  BY DEF JobInv, Held, Busy, Blank, Draining, Halted
<1> QED
  BY <1>1, <1>2, <1>3, <1>4, <1>5, <1>6 DEF JobInv

-----------------------------------------------------------------------------
\* A lane: what it holds and has in hand changes, its job stays.

LEMMA LeaseKeeps ==
  ASSUME JobInv, NEW w \in Workers, Lease(w)
  PROVE  JobInv'
<1> USE DEF Lease, Healthy, NextUnit, Go, Outcome, At, Unit, Attempt, laneFrame,
            store, poolVars, laneVars, runVars, bootVars, requestVars, cancelVars
<1>1. /\ lane \in [Workers -> LanePc]
      /\ key \in [Keys -> {"available", "leased", "cooling_down", "disabled"}]
      /\ holder \in [Keys -> Workers \cup {None}]
  BY DEF JobInv, TypeOK
<1>2. lane[w] = "lease" /\ \A k \in Keys : holder[k] # w
  BY <1>1, Constants DEF JobInv, Leased, Busy, LanePc
<1>3. \/ lane' = [lane EXCEPT ![w] = "idle"] /\ UNCHANGED poolVars
      \/ \E k \in Keys :
            /\ key[k] = "available"
            /\ key' = [key EXCEPT ![k] = "leased"]
            /\ holder' = [holder EXCEPT ![k] = w]
            /\ lane' = [lane EXCEPT ![w] = NextUnit(w)]
  OBVIOUS
<1>n. /\ NextUnit(w) \in {"check", "release"}
      /\ NextUnit(w) = "check" => w \notin halted
  OBVIOUS
<1>4. work' = work
  OBVIOUS
<1> HIDE DEF Lease, NextUnit
<1>5. Apart'
  BY <1>1, <1>2, <1>3, <1>n, <1>4 DEF JobInv, Apart, Working
<1>6. Leased'
  <2>1. CASE UNCHANGED poolVars
    BY <1>1, <1>2, <1>3, <2>1 DEF JobInv, Leased, Busy, LanePc
  <2>2. ASSUME NEW k \in Keys, key[k] = "available",
               key' = [key EXCEPT ![k] = "leased"],
               holder' = [holder EXCEPT ![k] = w],
               lane' = [lane EXCEPT ![w] = NextUnit(w)]
        PROVE  Leased'
    <3>1. ASSUME NEW l \in Keys, l # k
          PROVE  key'[l] = key[l] /\ holder'[l] = holder[l] /\ holder[l] # w
      BY <1>1, <1>2, <2>2, <3>1
    <3>2. key'[k] = "leased" /\ holder'[k] = w /\ lane'[w] \in {"check", "release"}
      BY <1>1, <1>n, <2>2
    <3>3. \A v \in Workers : v # w => lane'[v] = lane[v]
      BY <1>1, <2>2
    <3> QED
      BY <3>1, <3>2, <3>3 DEF JobInv, Leased, Busy, LanePc
  <2> QED
    BY <1>3, <2>1, <2>2
<1>7. Single'
  BY <1>1, <1>2, <1>3 DEF JobInv, Single
<1>8. TypeOK'
  <2>1. /\ lane \in [Workers -> LanePc]
        /\ key \in [Keys -> {"available", "leased", "cooling_down", "disabled"}]
        /\ holder \in [Keys -> Workers \cup {None}]
    BY DEF JobInv, TypeOK
  <2>2. lane' \in [Workers -> LanePc]
    BY <2>1, <1>3, <1>n DEF LanePc
  <2>3. key' \in [Keys -> {"available", "leased", "cooling_down", "disabled"}]
    BY <2>1 DEF Lease
  <2>4. holder' \in [Keys -> Workers \cup {None}]
    BY <2>1 DEF Lease
  <2> QED
    BY <2>2, <2>3, <2>4 DEF JobInv, TypeOK, Lease
<1>9. Quiescent' /\ Submitting' /\ Cancelled' /\ RunningJob'
  BY DEF JobInv, Quiescent, Submitting, Cancelled, RunningJob, Lease
<1>10. Decided' /\ Fresh' /\ Doubtful' /\ Blank'
  BY DEF JobInv, Decided, Fresh, Doubtful, Blank, Lease
<1>11. Draining'
  BY DEF JobInv, Draining, Lease
<1>12. Supervised'
  BY WorkerJob DEF JobInv, Supervised, TypeOK, Lease, NextUnit
<1>13. InHand'
  BY DEF JobInv, InHand, TypeOK, Lease, NextUnit
<1>14. Owned'
  BY WorkerJob DEF JobInv, Owned, Working, TypeOK, Lease, NextUnit
<1>15. Counted'
  BY WorkerJob, Constants DEF JobInv, Counted, Working, TypeOK, Lease, NextUnit
<1>16. Started'
  BY WorkerJob DEF JobInv, Started, TypeOK, Lease, NextUnit
<1>17. Certain'
  BY WorkerJob DEF JobInv, Certain, TypeOK, Lease, NextUnit
<1>18. Held'
  <2>1. ASSUME NEW v \in Workers, lane'[v] \in Busy, v \notin halted
        PROVE  \E k \in Keys : holder'[k] = v
    <3>1. CASE v = w
      BY <1>1, <1>2, <1>3, <2>1, <3>1 DEF Busy
    <3>2. CASE v # w
      <4>1. PICK k \in Keys : holder[k] = v
        BY <1>1, <1>3, <2>1, <3>2 DEF JobInv, Held
      <4>2. holder'[k] = v
        BY <1>1, <1>3, <4>1, Constants DEF JobInv, Leased
      <4> QED
        BY <4>2
    <3> QED
      BY <3>1, <3>2
  <2> QED
    BY <2>1 DEF Held, Lease
<1>19. Halted'
  BY <1>1, <1>3, <1>n DEF JobInv, Halted, Lease
<1> QED
  BY <1>8, <1>9, <1>12, <1>10, <1>13, <1>14, <1>5, <1>15, <1>16, <1>17, <1>6,
     <1>7, <1>18, <1>11, <1>19 DEF JobInv

LEMMA LaneCheckKeeps ==
  ASSUME JobInv, NEW w \in Workers, LaneCheck(w)
  PROVE  JobInv'
<1> USE DEF LaneCheck, Cancelling, Go, Outcome, At, Unit, Attempt, laneFrame,
            store, poolVars, laneVars, runVars, bootVars, requestVars, cancelVars
<1>1. TypeOK'
  BY Constants, WorkerJob DEF JobInv, TypeOK, JobState, Terminal, UnitState, UnitTerminal,
     AttemptState, RunPc, LanePc, Result, Verdict
<1>2. Quiescent' /\ Submitting' /\ Cancelled' /\ Supervised'
  BY DEF JobInv, Quiescent, Submitting, Cancelled, Supervised
<1>3. RunningJob' /\ Decided' /\ InHand' /\ Owned'
  BY DEF JobInv, RunningJob, Decided, InHand, Owned, Working
<1>4. Apart' /\ Fresh' /\ Counted' /\ Started'
  BY DEF JobInv, Apart, Working, Fresh, Counted, Started
<1>5. Doubtful' /\ Certain' /\ Leased' /\ Single'
  BY DEF JobInv, Doubtful, Certain, Leased, Busy, LanePc, Single
<1>6. Blank' /\ Draining' /\ Halted'
  BY DEF JobInv, Blank, Draining, Halted
<1>7. Held'
  BY Constants DEF JobInv, Held, Busy, TypeOK, LanePc
<1> QED
  BY <1>1, <1>2, <1>3, <1>4, <1>5, <1>7, <1>6 DEF JobInv

LEMMA ClaimKeeps ==
  ASSUME JobInv, NEW w \in Workers, Claim(w)
  PROVE  JobInv'
<1> USE DEF Claim, Take, Claimable, Go, Outcome, At, Unit, Attempt, laneFrame,
            store, poolVars, laneVars, runVars, bootVars, requestVars, cancelVars
<1>1. /\ lane \in [Workers -> LanePc]
      /\ tries \in [Workers -> 1..MaxAttempts]
      /\ unit \in [Jobs -> [Units -> UnitState]]
      /\ work \in [Workers -> Units]
  BY DEF JobInv, TypeOK
<1>2. w[1] \in Jobs
  BY WorkerJob
<1>3. lane[w] = "claim" /\ w \notin halted
  BY DEF JobInv, Halted
<1>4. \/ lane' = [lane EXCEPT ![w] = "release"] /\ UNCHANGED <<unit, work, tries>>
      \/ \E u \in Units :
            /\ job[w[1]] \in {"queued", "running"} /\ unit[w[1]][u] = "ready"
            /\ unit' = [unit EXCEPT ![w[1]][u] = "running"]
            /\ work' = [work EXCEPT ![w] = u]
            /\ tries' = [tries EXCEPT ![w] = 1]
            /\ lane' = [lane EXCEPT ![w] = "try"]
  OBVIOUS
<1>5. /\ result' = result /\ key' = key /\ holder' = holder /\ halted' = halted
      /\ attempt' = attempt /\ doubtful' = doubtful /\ run' = run /\ job' = job
      /\ submit' = submit
  OBVIOUS
<1> HIDE DEF Claim
<1> DEFINE Kept ==
      /\ lane' \in [Workers -> LanePc] /\ tries' \in [Workers -> 1..MaxAttempts]
      /\ unit' \in [Jobs -> [Units -> UnitState]] /\ work' \in [Workers -> Units]
      /\ Submitting' /\ Fresh' /\ Supervised' /\ InHand' /\ Owned' /\ Apart'
      /\ Counted' /\ Started' /\ Doubtful' /\ Certain'
      /\ Leased' /\ Single' /\ Held' /\ Halted'
\* There is no unit to take.
<1>6. ASSUME lane' = [lane EXCEPT ![w] = "release"] /\ UNCHANGED <<unit, work, tries>>
      PROVE  Kept
  <2>b. /\ \A v \in Workers \ {w} : lane'[v] = lane[v]
        /\ lane'[w] = "release"
        /\ unit' = unit /\ work' = work /\ tries' = tries
    BY <1>1, <1>6
  <2>1. lane' \in [Workers -> LanePc]
    BY <1>1, <1>6 DEF LanePc
  <2>3. Submitting' /\ Fresh' /\ Doubtful' /\ Single'
    BY <1>5, <2>b DEF JobInv, Submitting, Fresh, Doubtful, Single
  <2>5. Supervised' /\ InHand' /\ Owned' /\ Apart'
    BY <1>3, <1>5, <2>b DEF JobInv, Supervised, InHand, Owned, Apart, Working
  <2>6. Counted' /\ Started' /\ Certain'
    BY <1>3, <1>5, <2>b DEF JobInv, Counted, Started, Certain, Working
  <2>7. Leased' /\ Held' /\ Halted'
    BY <1>3, <1>5, <2>b DEF JobInv, Leased, Held, Halted, Busy, LanePc
  <2> QED
    BY <1>1, <2>b, <2>1, <2>3, <2>5, <2>6, <2>7
\* The first one that is ready, which no other lane has.
<1>7. ASSUME NEW u \in Units,
             job[w[1]] \in {"queued", "running"}, unit[w[1]][u] = "ready",
             unit' = [unit EXCEPT ![w[1]][u] = "running"],
             work' = [work EXCEPT ![w] = u],
             tries' = [tries EXCEPT ![w] = 1],
             lane' = [lane EXCEPT ![w] = "try"]
      PROVE  Kept
  <2>b. /\ \A v \in Workers \ {w} : /\ lane'[v] = lane[v] /\ work'[v] = work[v]
                                    /\ tries'[v] = tries[v]
        /\ lane'[w] = "try" /\ work'[w] = u /\ tries'[w] = 1
    BY <1>1, <1>7
  <2>u. /\ unit'[w[1]][u] = "running"
        /\ \A j \in Jobs : \A v \in Units : <<j, v>> # <<w[1], u>> => unit'[j][v] = unit[j][v]
    BY <1>1, <1>7, <1>2
  <2>n. attempt[w[1]][u] = NoAttempt /\ u \notin doubtful[w[1]]
    BY <1>7, <1>2 DEF JobInv, Fresh
  <2>s. submit[w[1]] \notin {"validate", "units"} /\ job[w[1]] # "absent"
    BY <1>7, <1>2 DEF JobInv, Submitting
  <2>o. \A v \in Workers : lane[v] \in Working =>
           v[1] \in Jobs /\ work[v] \in Units /\ <<v[1], work[v]>> # <<w[1], u>>
    BY <1>1, <1>7, WorkerJob DEF JobInv, Owned
  <2>1. lane' \in [Workers -> LanePc] /\ work' \in [Workers -> Units]
    BY <1>1, <1>7 DEF LanePc
  <2>2. tries' \in [Workers -> 1..MaxAttempts]
    BY <1>1, <1>7, Constants
  <2>4. unit' \in [Jobs -> [Units -> UnitState]]
    BY <1>1, <1>7, <1>2 DEF UnitState
  <2>3. Submitting'
    BY <1>5, <2>u, <2>s DEF JobInv, Submitting
  <2>5. Fresh'
    BY <1>5, <2>u DEF JobInv, Fresh
  <2>6. Supervised'
    BY <1>3, <1>5, <2>b DEF JobInv, Supervised
  <2>7. InHand'
    BY <1>5, <2>b DEF JobInv, InHand
  <2>8. Owned'
    BY <2>b, <2>u, <2>o DEF JobInv, Owned, Working
  <2>9. Apart'
    BY <2>b, <2>o DEF JobInv, Apart, Working
  <2>10. Counted'
    BY <1>5, <2>b, <2>n DEF JobInv, Counted, Working, NoAttempt
  <2>11. Started' /\ Doubtful'
    BY <1>5, <2>b DEF JobInv, Started, Doubtful
  <2>12. Certain'
    BY <1>5, <2>b, <2>n DEF JobInv, Certain
  <2>13. Leased' /\ Single' /\ Held' /\ Halted'
    BY <1>3, <1>5, <2>b DEF JobInv, Leased, Single, Held, Halted, Busy, LanePc
  <2> QED
    BY <2>1, <2>2, <2>3, <2>4, <2>5, <2>6, <2>7, <2>8, <2>9, <2>10, <2>11, <2>12, <2>13
<1>8. Kept
  BY <1>4, <1>6, <1>7
<1> HIDE DEF Kept
<1>9. TypeOK'
  <2>1. /\ lane' \in [Workers -> LanePc] /\ tries' \in [Workers -> 1..MaxAttempts]
        /\ unit' \in [Jobs -> [Units -> UnitState]] /\ work' \in [Workers -> Units]
    BY <1>8 DEF Kept
  <2> QED
    BY <2>1 DEF Claim, JobInv, TypeOK
<1>10. Quiescent' /\ Cancelled' /\ RunningJob' /\ Decided'
  <2>1. phase # "down" /\ orphaned = {}
    BY <1>3 DEF JobInv, Quiescent
  <2> QED
    BY <2>1 DEF Claim, JobInv, Quiescent, Cancelled, RunningJob, Decided
<1>11. Blank' /\ Draining'
  BY DEF JobInv, Blank, Draining, Claim
<1> QED
  BY <1>9, <1>10, <1>8, <1>11 DEF JobInv, Kept

LEMMA TryKeeps ==
  ASSUME JobInv, NEW w \in Workers, Try(w)
  PROVE  JobInv'
<1> USE DEF Try, Cancelling, Go, Outcome, At, Unit, Attempt, laneFrame,
            store, poolVars, laneVars, runVars, bootVars, requestVars, cancelVars
<1>1. /\ lane \in [Workers -> LanePc]
      /\ result \in [Workers -> Result]
  BY DEF JobInv, TypeOK
<1>2. \A v \in Workers \ {w} : lane'[v] = lane[v] /\ result'[v] = result[v]
  BY <1>1
<1>3. /\ lane[w] = "try"
      /\ lane'[w] \in {"complete", "start"}
      /\ lane'[w] = "complete" => result'[w] = "cancelled"
  BY <1>1
<1>4. work' = work /\ key' = key /\ holder' = holder /\ halted' = halted /\ tries' = tries
  OBVIOUS
<1> HIDE DEF Try
<1>5. InHand'
  BY <1>2, <1>3, <1>4 DEF JobInv, InHand, UnitTerminal
<1>6. Apart'
  BY <1>2, <1>3, <1>4 DEF JobInv, Apart, Working
<1>7. Leased'
  BY <1>2, <1>3, <1>4 DEF JobInv, Leased, Busy, LanePc
<1>8. Held'
  BY <1>2, <1>3, <1>4 DEF JobInv, Held, Busy, LanePc
<1>9. TypeOK'
  <2>1. /\ lane \in [Workers -> LanePc]
        /\ result \in [Workers -> Result]
    BY DEF JobInv, TypeOK
  <2>2. lane' \in [Workers -> LanePc]
    BY <2>1 DEF LanePc, Try
  <2>3. result' \in [Workers -> Result]
    BY <2>1 DEF Result, Try
  <2> QED
    BY <2>2, <2>3 DEF JobInv, TypeOK, Try
<1>10. Quiescent' /\ Submitting' /\ Cancelled' /\ RunningJob'
  BY DEF JobInv, Quiescent, Submitting, Cancelled, RunningJob, Try
<1>11. Decided' /\ Fresh' /\ Doubtful' /\ Single'
  BY DEF JobInv, Decided, Fresh, Doubtful, Single, Try
<1>12. Blank' /\ Draining'
  BY DEF JobInv, Blank, Draining, Try
<1>13. Supervised'
  BY WorkerJob DEF JobInv, Supervised, TypeOK, Try
<1>14. Owned'
  BY WorkerJob DEF JobInv, Owned, Working, TypeOK, Try
<1>15. Counted'
  BY WorkerJob, Constants DEF JobInv, Counted, Working, TypeOK, Try
<1>16. Started'
  BY WorkerJob DEF JobInv, Started, TypeOK, Try
<1>17. Certain'
  BY WorkerJob DEF JobInv, Certain, TypeOK, Try
<1>18. Halted'
  BY DEF JobInv, Halted, TypeOK, Try
<1> QED
  BY <1>9, <1>10, <1>13, <1>11, <1>5, <1>14, <1>6, <1>15, <1>16, <1>17, <1>7, <1>8,
     <1>12, <1>18 DEF JobInv

LEMMA StartKeeps ==
  ASSUME JobInv, NEW w \in Workers, Start(w)
  PROVE  JobInv'
<1> USE DEF Start, Startable, NewAttempt, Go, Outcome, At, Unit, Attempt, laneFrame,
            store, poolVars, laneVars, runVars, bootVars, requestVars, cancelVars
<1>1. /\ lane \in [Workers -> LanePc]
      /\ result \in [Workers -> Result]
      /\ tries \in [Workers -> 1..MaxAttempts]
      /\ attempt \in [Jobs -> [Units -> [number : 0..MaxAttempts, state : AttemptState]]]
      /\ work \in [Workers -> Units]
      /\ doubtful \in [Jobs -> SUBSET Units]
  BY DEF JobInv, TypeOK
<1>2. w[1] \in Jobs /\ work[w] \in Units
  BY <1>1, WorkerJob
<1>3. \A v \in Workers \ {w} : lane'[v] = lane[v] /\ result'[v] = result[v]
  BY <1>1
<1>4. /\ lane[w] = "start"
      /\ lane'[w] \in {"settle", "call", "complete"}
      /\ lane'[w] = "settle" => result'[w] = "error"
      /\ lane'[w] = "complete" => result'[w] = "failed" /\ attempt' = attempt
      /\ lane'[w] \in {"settle", "call"} =>
            attempt' = [attempt EXCEPT ![w[1]][work[w]] =
                          [number |-> @.number + 1, state |-> "running"]]
  BY <1>1
<1>5. /\ work' = work /\ key' = key /\ holder' = holder /\ halted' = halted
      /\ unit' = unit /\ doubtful' = doubtful /\ run' = run /\ tries' = tries
  OBVIOUS
<1>6. result' \in [Workers -> Result]
  <2>1. result' = result \/ result' = [result EXCEPT ![w] = "error"]
                         \/ result' = [result EXCEPT ![w] = "failed"]
    OBVIOUS
  <2> HIDE DEF Start
  <2> QED
    BY <1>1, <2>1 DEF Result
<1> HIDE DEF Start
<1>7. attempt[w[1]][work[w]].number \in Nat /\ attempt[w[1]][work[w]].number < tries[w]
  BY <1>1, <1>4, <1>2 DEF JobInv, Counted
<1>8. tries[w] \in 1..MaxAttempts
  BY <1>1
<1>9. \A j \in Jobs : \A u \in Units : <<j, u>> # <<w[1], work[w]>> => attempt'[j][u] = attempt[j][u]
  BY <1>1, <1>4, <1>2
<1>10. attempt'[w[1]][work[w]] = attempt[w[1]][work[w]]
      \/ /\ attempt'[w[1]][work[w]].number = attempt[w[1]][work[w]].number + 1
         /\ attempt'[w[1]][work[w]].state = "running"
  BY <1>1, <1>4, <1>2
<1>11. attempt' \in [Jobs -> [Units -> [number : 0..MaxAttempts, state : AttemptState]]]
  <2>1. CASE attempt' = attempt
    BY <1>1, <2>1
  <2>2. CASE lane'[w] \in {"settle", "call"}
    <3>1. attempt[w[1]][work[w]].number + 1 \in 0..MaxAttempts
      BY <1>7, <1>8, Constants
    <3> DEFINE new == [number |-> attempt[w[1]][work[w]].number + 1, state |-> "running"]
    <3>2. new \in [number : 0..MaxAttempts, state : AttemptState]
      BY <3>1 DEF AttemptState
    <3>3. attempt' = [attempt EXCEPT ![w[1]][work[w]] = new]
      BY <1>4, <2>2
    <3> HIDE DEF new
    <3> QED
      BY <1>1, <1>2, <3>2, <3>3
  <2> QED
    BY <1>4, <2>1, <2>2
<1>12. unit[w[1]][work[w]] = "running"
  BY <1>4 DEF JobInv, Owned, Working
<1>13. \A v \in Workers \ {w} : lane[v] \in Working => <<v[1], work[v]>> # <<w[1], work[w]>>
  BY <1>4 DEF JobInv, Apart, Working
<1>14. \A v \in Workers : v[1] \in Jobs /\ work[v] \in Units
  BY <1>1, WorkerJob
<1>15. InHand'
  BY <1>3, <1>4, <1>5 DEF JobInv, InHand, UnitTerminal
<1>16. Owned'
  BY <1>3, <1>4, <1>5 DEF JobInv, Owned, Working
<1>17. Apart'
  BY <1>3, <1>4, <1>5 DEF JobInv, Apart, Working
<1>18. Fresh'
  BY <1>5, <1>9, <1>12 DEF JobInv, Fresh
<1>19. Counted'
  <2>1. ASSUME NEW v \in Workers
        PROVE  /\ lane'[v] \in {"try", "start"} => attempt'[v[1]][work[v]].number < tries[v]
               /\ lane'[v] \in Working => attempt'[v[1]][work[v]].number <= tries[v]
    <3>1. CASE v = w
      BY <1>4, <1>10, <1>7, <1>8, <3>1
    <3>2. CASE v # w
      BY <1>3, <1>9, <1>14, <1>13, <3>2 DEF JobInv, Counted, Working
    <3> QED
      BY <3>1, <3>2
  <2> QED
    BY <1>5, <2>1 DEF Counted
<1>20. Started'
  <2>1. ASSUME NEW v \in Workers, lane'[v] = "call"
        PROVE  attempt'[v[1]][work[v]].state # "none"
    <3>1. CASE v = w
      BY <1>1, <1>4, <1>2, <2>1, <3>1
    <3>2. CASE v # w
      BY <1>3, <1>9, <1>14, <1>13, <2>1, <3>2 DEF JobInv, Started, Working
    <3> QED
      BY <3>1, <3>2
  <2> QED
    BY <1>5, <2>1 DEF Started
<1>21. Doubtful'
  BY <1>1, <1>5, <1>9, <1>10 DEF JobInv, Doubtful
<1>22. Leased'
  BY <1>3, <1>4, <1>5 DEF JobInv, Leased, Busy, LanePc
<1>23. Held'
  BY <1>3, <1>4, <1>5 DEF JobInv, Held, Busy, LanePc
<1>24. Blank'
  BY <1>9, <1>10 DEF JobInv, Blank
<1>25. TypeOK'
  <2>1. lane \in [Workers -> LanePc]
    BY DEF JobInv, TypeOK
  <2>2. lane' \in [Workers -> LanePc]
    BY <2>1 DEF LanePc, Start
  <2> QED
    BY <1>11, <1>6, <2>2 DEF JobInv, TypeOK, Start
<1>26. Quiescent' /\ Submitting' /\ Cancelled' /\ RunningJob'
  BY DEF JobInv, Quiescent, Submitting, Cancelled, RunningJob, Start
<1>27. Decided' /\ Single' /\ Draining'
  BY DEF JobInv, Decided, Single, Draining, Start
<1>28. Supervised'
  BY WorkerJob DEF JobInv, Supervised, TypeOK, Start
<1>29. Certain'
  BY WorkerJob DEF JobInv, Certain, TypeOK, Start
<1>30. Halted'
  BY DEF JobInv, Halted, TypeOK, Start
<1> QED
  BY <1>25, <1>26, <1>28, <1>27, <1>15, <1>16, <1>17, <1>18, <1>19, <1>20, <1>21, <1>29,
     <1>22, <1>23, <1>24, <1>30 DEF JobInv

LEMMA CallKeeps ==
  ASSUME JobInv, NEW w \in Workers, Call(w)
  PROVE  JobInv'
<1> USE DEF Call, Go, Outcome, At, Unit, Attempt, laneFrame,
            store, poolVars, laneVars, runVars, bootVars, requestVars, cancelVars
<1>1. /\ lane \in [Workers -> LanePc]
      /\ result \in [Workers -> Result]
      /\ spent \in [Jobs -> 0..Budget]
      /\ doubtful \in [Jobs -> SUBSET Units]
      /\ work \in [Workers -> Units]
      /\ key \in [Keys -> {"available", "leased", "cooling_down", "disabled"}]
      /\ holder \in [Keys -> Workers \cup {None}]
      /\ halted \subseteq Workers /\ throttled \subseteq Workers
  BY DEF JobInv, TypeOK
<1>2. w[1] \in Jobs /\ work[w] \in Units
  BY <1>1, WorkerJob
<1>3. /\ lane[w] = "call" /\ attempt[w[1]][work[w]].state # "none"
      /\ unit[w[1]][work[w]] = "running"
  BY DEF JobInv, Started, Owned, Working
<1>4. /\ \A v \in Workers \ {w} : lane'[v] = lane[v] /\ result'[v] = result[v]
      /\ lane'[w] \in {"judge", "settle"}
      /\ lane'[w] = "judge" => result'[w] \in {"retry", "error"}
      /\ lane'[w] = "settle" => result'[w] \in {"succeeded", "failed", "unknown"}
      /\ lane' \in [Workers -> LanePc] /\ result' \in [Workers -> Result]
  <2>1. CASE Exhausted(w[1])
    BY <1>1, <2>1 DEF LanePc, Result
  <2>2. CASE ~Exhausted(w[1])
    BY <1>1, <2>2 DEF LanePc, Result
  <2> QED
    BY <2>1, <2>2
<1>5. /\ \A j \in Jobs \ {w[1]} : doubtful'[j] = doubtful[j]
      /\ doubtful'[w[1]] \subseteq doubtful[w[1]] \cup {work[w]}
      /\ lane'[w] = "judge" => doubtful' = doubtful
      /\ doubtful' \in [Jobs -> SUBSET Units]
  <2>1. \/ doubtful' = doubtful
        \/ /\ doubtful' = [doubtful EXCEPT ![w[1]] = @ \cup {work[w]}]
           /\ lane'[w] = "settle"
    BY <1>1
  <2> HIDE DEF Call
  <2> QED
    BY <1>1, <1>2, <2>1
<1>6. spent' \in [Jobs -> 0..Budget]
  <2>1. \/ spent' = spent
        \/ spent[w[1]] < Budget /\ spent' = [spent EXCEPT ![w[1]] = @ + 1]
    BY <1>1, <1>2, Constants DEF Exhausted
  <2> HIDE DEF Call
  <2> QED
    BY <1>1, <1>2, <2>1, Constants
<1>7. \E event : Judged(w, event) \/ UNCHANGED <<halted, throttled, poolVars>>
  OBVIOUS
<1>8. /\ unit' = unit /\ attempt' = attempt /\ tries' = tries /\ work' = work
      /\ run' = run /\ job' = job
  OBVIOUS
<1> HIDE DEF Call
<1>9. /\ \A k \in Keys : holder[k] # w => key'[k] = key[k] /\ holder'[k] = holder[k]
      /\ \A k \in Keys : holder[k] = w =>
            \/ key'[k] = key[k] /\ holder'[k] = w
            \/ key'[k] = "cooling_down" /\ holder'[k] = w
            \/ key'[k] = "disabled" /\ holder'[k] = None /\ w \in halted'
      /\ \A v \in Workers \ {w} : v \in halted' <=> v \in halted
      /\ \A k \in Keys : holder[k] = w => holder'[k] = w \/ w \in halted'
      /\ key' \in [Keys -> {"available", "leased", "cooling_down", "disabled"}]
      /\ holder' \in [Keys -> Workers \cup {None}]
      /\ halted' \subseteq Workers /\ throttled' \subseteq Workers
  <2>1. CASE UNCHANGED <<halted, throttled, poolVars>>
    BY <1>1, <2>1
  <2>2. ASSUME NEW event, Judged(w, event), event = "rate_limited"
        PROVE  <1>9!:
    BY <1>1, <2>2 DEF Judged
  <2>3. ASSUME NEW event, Judged(w, event), event = "authentication_failed"
        PROVE  <1>9!:
    BY <1>1, <2>3 DEF Judged
  <2>4. ASSUME NEW event, Judged(w, event),
               event \notin {"rate_limited", "authentication_failed"}
        PROVE  <1>9!:
    BY <1>1, <2>4 DEF Judged
  <2> QED
    BY <1>7, <2>1, <2>2, <2>3, <2>4
<1>10. w \in halted => w \in halted'
  BY <1>3 DEF JobInv, Halted
<1>11. InHand'
  BY <1>4, <1>8 DEF JobInv, InHand, UnitTerminal
<1>12. Owned'
  BY <1>3, <1>4, <1>8 DEF JobInv, Owned, Working
<1>13. Apart'
  BY <1>3, <1>4, <1>8 DEF JobInv, Apart, Working
<1>14. Fresh'
  BY <1>3, <1>8, <1>5 DEF JobInv, Fresh
<1>15. Doubtful'
  BY <1>3, <1>8, <1>5 DEF JobInv, Doubtful
<1>16. Certain'
  <2>1. \A v \in Workers \ {w} : lane[v] \in Working => <<v[1], work[v]>> # <<w[1], work[w]>>
    BY <1>3 DEF JobInv, Apart, Working
  <2>2. \A v \in Workers : v[1] \in Jobs
    BY WorkerJob
  <2> QED
    BY <1>3, <1>4, <1>8, <1>5, <2>1, <2>2 DEF JobInv, Certain, Working
<1>17. Leased'
  BY <1>3, <1>4, <1>9, Constants DEF JobInv, Leased, Busy, LanePc
<1>18. Single'
  BY <1>9, Constants DEF JobInv, Single
<1>19. Held'
  BY <1>3, <1>4, <1>9, <1>10 DEF JobInv, Held, Busy, LanePc
<1>20. Halted'
  BY <1>4, <1>9 DEF JobInv, Halted
<1>21. TypeOK'
  BY <1>5, <1>6, <1>4, <1>9 DEF JobInv, TypeOK, Call
<1>22. Quiescent' /\ Submitting' /\ Cancelled' /\ RunningJob'
  BY DEF JobInv, Quiescent, Submitting, Cancelled, RunningJob, Call
<1>23. Decided' /\ Blank' /\ Draining'
  BY DEF JobInv, Decided, Blank, Draining, Call
<1>24. Supervised'
  BY WorkerJob DEF JobInv, Supervised, TypeOK, Call
<1>25. Counted'
  BY WorkerJob, Constants DEF JobInv, Counted, Working, TypeOK, Call
<1>26. Started'
  BY WorkerJob DEF JobInv, Started, TypeOK, Call
<1> QED
  BY <1>21, <1>22, <1>24, <1>23, <1>11, <1>12, <1>13, <1>14, <1>25, <1>26, <1>15, <1>16,
     <1>17, <1>18, <1>19, <1>20 DEF JobInv

LEMMA JudgeKeeps ==
  ASSUME JobInv, NEW w \in Workers, Judge(w)
  PROVE  JobInv'
<1> USE DEF Judge, Cancelling, Go, Outcome, At, Unit, Attempt, laneFrame,
            store, poolVars, laneVars, runVars, bootVars, requestVars, cancelVars
<1>1. TypeOK'
  BY Constants, WorkerJob DEF JobInv, TypeOK, JobState, Terminal, UnitState, UnitTerminal,
     AttemptState, RunPc, LanePc, Result, Verdict
<1>2. Quiescent' /\ Submitting' /\ Cancelled' /\ Supervised'
  BY DEF JobInv, Quiescent, Submitting, Cancelled, Supervised
<1>3. RunningJob' /\ Decided' /\ Owned' /\ Apart'
  BY DEF JobInv, RunningJob, Decided, Owned, Working, Apart
<1>4. Fresh' /\ Counted' /\ Started' /\ Doubtful'
  BY DEF JobInv, Fresh, Counted, Working, Started, Doubtful
<1>5. Certain' /\ Leased' /\ Single' /\ Blank'
  BY DEF JobInv, Certain, Leased, Busy, LanePc, Single, Blank
<1>6. Draining' /\ Halted'
  BY DEF JobInv, Draining, Halted
<1>7. InHand'
  BY DEF JobInv, InHand, TypeOK
<1>8. Held'
  BY Constants DEF JobInv, Held, Busy, TypeOK, LanePc
<1> QED
  BY <1>1, <1>2, <1>3, <1>7, <1>4, <1>5, <1>8, <1>6 DEF JobInv

LEMMA SettleKeeps ==
  ASSUME JobInv, NEW w \in Workers, Settle(w)
  PROVE  JobInv'
<1> USE DEF Settle, FinishAttempt, Retried, Go, Outcome, At, Unit, Attempt, laneFrame,
            store, poolVars, laneVars, runVars, bootVars, requestVars, cancelVars
<1>1. /\ lane \in [Workers -> LanePc]
      /\ result \in [Workers -> Result]
      /\ attempt \in [Jobs -> [Units -> [number : 0..MaxAttempts, state : AttemptState]]]
      /\ work \in [Workers -> Units]
  BY DEF JobInv, TypeOK
<1>2. w[1] \in Jobs /\ work[w] \in Units /\ result[w] \in Result
  BY <1>1, WorkerJob
<1>3. lane[w] = "settle" /\ unit[w[1]][work[w]] = "running"
  BY DEF JobInv, Owned, Working
<1>4. AttemptEnd(result[w]) \in AttemptState \ {"none"}
  BY DEF AttemptEnd, AttemptState
<1>5. attempt' \in [Jobs -> [Units -> [number : 0..MaxAttempts, state : AttemptState]]]
  <2> DEFINE new == [attempt[w[1]][work[w]] EXCEPT !.state = AttemptEnd(result[w])]
  <2>1. new \in [number : 0..MaxAttempts, state : AttemptState]
    BY <1>1, <1>2, <1>4
  <2>2. attempt' = [attempt EXCEPT ![w[1]][work[w]] = new]
    OBVIOUS
  <2> HIDE DEF new, Settle
  <2> QED
    BY <1>1, <1>2, <2>1, <2>2
<1>6. /\ \A j \in Jobs : \A u \in Units : attempt'[j][u].number = attempt[j][u].number
      /\ \A j \in Jobs : \A u \in Units :
            attempt'[j][u] = attempt[j][u] \/ attempt'[j][u].state # "none"
      /\ \A j \in Jobs : \A u \in Units :
            <<j, u>> # <<w[1], work[w]>> => attempt'[j][u] = attempt[j][u]
  BY <1>1, <1>2, <1>4
<1>7. /\ \A v \in Workers \ {w} : lane'[v] = lane[v] /\ result'[v] = result[v]
      /\ lane'[w] \in {"confirm", "backoff", "complete"}
      /\ lane'[w] = "confirm" => result'[w] \in {"succeeded", "failed"} /\ halted' = halted
      /\ lane'[w] = "backoff" => /\ tries[w] < MaxAttempts /\ w \notin halted'
                                 /\ result[w] \in {"retry", "error"}
      /\ lane'[w] = "complete" => result'[w] \in {"cancelled", "failed"}
      /\ \A v \in Workers \ {w} : v \in halted' <=> v \in halted
      /\ w \in halted => w \in halted'
  BY <1>1
<1>8. \A v \in Workers : v[1] \in Jobs /\ work[v] \in Units
  BY <1>1, WorkerJob
<1>9. /\ key' = key /\ holder' = holder /\ work' = work /\ tries' = tries
      /\ unit' = unit /\ doubtful' = doubtful /\ run' = run /\ job' = job
  OBVIOUS
<1> HIDE DEF Settle, FinishAttempt, Retried
<1>10. InHand'
  BY <1>7, <1>9 DEF JobInv, InHand, UnitTerminal
<1>11. Owned'
  BY <1>3, <1>7, <1>9 DEF JobInv, Owned, Working
<1>12. Apart'
  BY <1>3, <1>7, <1>9 DEF JobInv, Apart, Working
<1>13. Fresh'
  BY <1>3, <1>9, <1>6 DEF JobInv, Fresh
<1>14. Counted'
  BY <1>3, <1>7, <1>9, <1>6, <1>8 DEF JobInv, Counted, Working
<1>15. Started'
  BY <1>3, <1>7, <1>9, <1>6, <1>8 DEF JobInv, Started
<1>16. Doubtful'
  <2>1. \A j \in Jobs : doubtful[j] \subseteq Units
    BY DEF JobInv, TypeOK
  <2> QED
    BY <1>9, <1>6, <2>1 DEF JobInv, Doubtful
<1>17. Certain'
  BY <1>3, <1>7, <1>9 DEF JobInv, Certain
<1>18. Leased'
  BY <1>3, <1>7, <1>9 DEF JobInv, Leased, Busy, LanePc
<1>19. Held'
  BY <1>3, <1>7, <1>9 DEF JobInv, Held, Busy, LanePc
<1>20. Halted'
  BY <1>3, <1>7, <1>9 DEF JobInv, Halted
<1>21. Blank'
  BY <1>6 DEF JobInv, Blank
<1>22. TypeOK'
  <2>1. /\ lane \in [Workers -> LanePc]
        /\ result \in [Workers -> Result]
        /\ halted \subseteq Workers
    BY DEF JobInv, TypeOK
  <2>2. lane' \in [Workers -> LanePc]
    BY <2>1 DEF LanePc, Settle, FinishAttempt, Retried
  <2>3. result' \in [Workers -> Result]
    BY <2>1 DEF Result, Settle, FinishAttempt, Retried
  <2>4. halted' \subseteq Workers
    BY <2>1 DEF Settle, FinishAttempt, Retried
  <2> QED
    BY <1>5, <2>2, <2>3, <2>4 DEF JobInv, TypeOK, Settle, FinishAttempt, Retried
<1>23. Quiescent' /\ Submitting' /\ Cancelled' /\ RunningJob'
  BY DEF JobInv, Quiescent, Submitting, Cancelled, RunningJob, Settle, FinishAttempt, Retried
<1>24. Decided' /\ Single' /\ Draining'
  BY DEF JobInv, Decided, Single, Draining, Settle, FinishAttempt, Retried
<1>25. Supervised'
  BY WorkerJob DEF JobInv, Supervised, TypeOK, Settle, FinishAttempt, Retried
<1> QED
  BY <1>22, <1>23, <1>25, <1>24, <1>10, <1>11, <1>12, <1>13, <1>14, <1>15, <1>16, <1>17,
     <1>18, <1>19, <1>21, <1>20 DEF JobInv

LEMMA ConfirmKeeps ==
  ASSUME JobInv, NEW w \in Workers, Confirm(w)
  PROVE  JobInv'
<1> USE DEF Confirm, Cancelling, Go, Outcome, At, Unit, Attempt, laneFrame,
            store, poolVars, laneVars, runVars, bootVars, requestVars, cancelVars
<1>1. TypeOK'
  <2>1. /\ lane \in [Workers -> LanePc]
        /\ result \in [Workers -> Result]
        /\ halted \subseteq Workers
    BY DEF JobInv, TypeOK
  <2>2. lane' \in [Workers -> LanePc]
    BY <2>1 DEF LanePc
  <2>3. result' \in [Workers -> Result]
    BY <2>1 DEF Result
  <2>4. halted' \subseteq Workers
    BY <2>1
  <2> QED
    BY <2>2, <2>3, <2>4 DEF JobInv, TypeOK
<1>2. Quiescent' /\ Submitting' /\ Cancelled' /\ Supervised'
  BY DEF JobInv, Quiescent, Submitting, Cancelled, Supervised
<1>3. RunningJob' /\ Decided' /\ Owned' /\ Apart'
  BY DEF JobInv, RunningJob, Decided, Owned, Working, Apart
<1>4. Fresh' /\ Counted' /\ Started' /\ Doubtful'
  BY DEF JobInv, Fresh, Counted, Working, Started, Doubtful
<1>5. Leased' /\ Single' /\ Blank' /\ Draining'
  BY DEF JobInv, Leased, Busy, LanePc, Single, Blank, Draining
<1>6. Halted'
  BY DEF JobInv, Halted
<1>7. InHand'
  BY DEF JobInv, InHand, TypeOK, UnitTerminal
<1>8. Certain'
  BY WorkerJob DEF JobInv, Certain, TypeOK
<1>9. Held'
  BY Constants DEF JobInv, Held, Busy, TypeOK, LanePc
<1> QED
  BY <1>1, <1>2, <1>3, <1>7, <1>4, <1>8, <1>5, <1>9, <1>6 DEF JobInv

LEMMA BackoffKeeps ==
  ASSUME JobInv, NEW w \in Workers, Backoff(w)
  PROVE  JobInv'
<1> USE DEF Backoff, Cancelling, Go, Outcome, At, Unit, Attempt, laneFrame,
            store, poolVars, laneVars, runVars, bootVars, requestVars, cancelVars
<1>1. /\ lane \in [Workers -> LanePc]
      /\ result \in [Workers -> Result]
      /\ tries \in [Workers -> 1..MaxAttempts]
      /\ attempt \in [Jobs -> [Units -> [number : 0..MaxAttempts, state : AttemptState]]]
      /\ work \in [Workers -> Units]
  BY DEF JobInv, TypeOK
<1>2. \A v \in Workers \ {w} : /\ lane'[v] = lane[v] /\ result'[v] = result[v]
                               /\ tries'[v] = tries[v]
  BY <1>1
<1>3. /\ lane[w] = "backoff"
      /\ lane'[w] \in {"complete", "try"}
      /\ lane'[w] = "complete" => result'[w] \in {"cancelled", "failed"} /\ tries' = tries
      /\ lane'[w] = "try" => tries'[w] = tries[w] + 1
  BY <1>1
<1>4. /\ work' = work /\ key' = key /\ holder' = holder /\ halted' = halted
      /\ unit' = unit /\ attempt' = attempt /\ doubtful' = doubtful /\ run' = run
  OBVIOUS
<1>5. tries[w] \in 1..MaxAttempts /\ tries[w] < MaxAttempts
  BY <1>1, <1>3 DEF JobInv, InHand
<1>6. tries' \in [Workers -> 1..MaxAttempts]
  <2>1. tries' = tries \/ tries' = [tries EXCEPT ![w] = @ + 1]
    OBVIOUS
  <2> HIDE DEF Backoff
  <2> QED
    BY <1>1, <1>5, <2>1, Constants
<1>7. attempt[w[1]][work[w]].number \in Nat
  BY <1>1, WorkerJob
<1> HIDE DEF Backoff
<1>8. InHand'
  BY <1>2, <1>3 DEF JobInv, InHand, UnitTerminal
<1>9. Owned'
  BY <1>2, <1>3, <1>4 DEF JobInv, Owned, Working
<1>10. Apart'
  BY <1>2, <1>3, <1>4 DEF JobInv, Apart, Working
<1>11. Counted'
  <2>1. attempt[w[1]][work[w]].number <= tries[w]
    BY <1>3 DEF JobInv, Counted, Working
  <2>2. lane'[w] = "try" => attempt[w[1]][work[w]].number < tries'[w]
    BY <1>3, <1>7, <1>5, <2>1
  <2> QED
    BY <1>2, <1>3, <1>4, <1>7, <1>5, <2>1, <2>2 DEF JobInv, Counted, Working
<1>12. Started'
  BY <1>2, <1>3, <1>4 DEF JobInv, Started
<1>13. Certain'
  BY <1>2, <1>3, <1>4 DEF JobInv, Certain
<1>14. Leased'
  BY <1>2, <1>3, <1>4 DEF JobInv, Leased, Busy, LanePc
<1>15. Held'
  BY <1>2, <1>3, <1>4 DEF JobInv, Held, Busy, LanePc
<1>16. Halted'
  BY <1>2, <1>3, <1>4 DEF JobInv, Halted
<1>17. TypeOK'
  <2>1. /\ lane \in [Workers -> LanePc]
        /\ result \in [Workers -> Result]
        /\ throttled \subseteq Workers
    BY DEF JobInv, TypeOK
  <2>2. lane' \in [Workers -> LanePc]
    BY <2>1 DEF LanePc, Backoff
  <2>3. result' \in [Workers -> Result]
    BY <2>1 DEF Result, Backoff
  <2>4. throttled' \subseteq Workers
    BY <2>1 DEF Backoff
  <2> QED
    BY <1>6, <2>2, <2>3, <2>4 DEF JobInv, TypeOK, Backoff
<1>18. Quiescent' /\ Submitting' /\ Cancelled' /\ RunningJob'
  BY DEF JobInv, Quiescent, Submitting, Cancelled, RunningJob, Backoff
<1>19. Decided' /\ Fresh' /\ Doubtful' /\ Single'
  BY DEF JobInv, Decided, Fresh, Doubtful, Single, Backoff
<1>20. Blank' /\ Draining'
  BY DEF JobInv, Blank, Draining, Backoff
<1>21. Supervised'
  BY WorkerJob DEF JobInv, Supervised, TypeOK, Backoff
<1> QED
  BY <1>17, <1>18, <1>21, <1>19, <1>8, <1>9, <1>10, <1>11, <1>12, <1>13, <1>14, <1>15,
     <1>20, <1>16 DEF JobInv

LEMMA CompleteKeeps ==
  ASSUME JobInv, NEW w \in Workers, Complete(w)
  PROVE  JobInv'
<1> USE DEF Complete, Record, DropsUnit, NextUnit, Go, Outcome, At, Unit, Attempt, laneFrame,
            store, poolVars, laneVars, runVars, bootVars, requestVars, cancelVars
<1>1. /\ lane \in [Workers -> LanePc]
      /\ result \in [Workers -> Result]
      /\ tries \in [Workers -> 1..MaxAttempts]
      /\ unit \in [Jobs -> [Units -> UnitState]]
      /\ work \in [Workers -> Units]
  BY DEF JobInv, TypeOK
<1>2. w[1] \in Jobs /\ work[w] \in Units
  BY <1>1, WorkerJob
<1>3. lane[w] = "complete" /\ result[w] \in UnitTerminal /\ unit[w[1]][work[w]] = "running"
  BY DEF JobInv, InHand, Owned, Working
<1>4. /\ \A v \in Workers \ {w} : /\ lane'[v] = lane[v] /\ result'[v] = result[v]
                                  /\ tries'[v] = tries[v] /\ work'[v] = work[v]
      /\ lane'[w] \in {"release", "check"}
  BY <1>1
<1>5. /\ unit'[w[1]][work[w]] = result[w]
      /\ \A j \in Jobs : \A v \in Units : <<j, v>> # <<w[1], work[w]>> => unit'[j][v] = unit[j][v]
  BY <1>1, <1>2
<1>6. \A v \in Workers \ {w} : lane[v] \in Working =>
         v[1] \in Jobs /\ work[v] \in Units /\ <<v[1], work[v]>> # <<w[1], work[w]>>
  BY <1>1, <1>3, WorkerJob DEF JobInv, Apart, Working
<1>7. submit[w[1]] \notin {"validate", "units"} /\ job[w[1]] # "absent"
  BY <1>3, <1>2 DEF JobInv, Submitting, UnitTerminal
<1>8. /\ key' = key /\ holder' = holder /\ halted' = halted
      /\ attempt' = attempt /\ doubtful' = doubtful /\ run' = run /\ job' = job
      /\ submit' = submit
  OBVIOUS
<1>9. unit' \in [Jobs -> [Units -> UnitState]]
  BY <1>1, <1>3, <1>2 DEF UnitState
<1>10. work' \in [Workers -> Units]
  BY <1>1, Constants
<1> HIDE DEF Complete
<1>11. Submitting'
  BY <1>8, <1>5, <1>7 DEF JobInv, Submitting
<1>12. InHand'
  BY <1>4 DEF JobInv, InHand
<1>13. Owned'
  BY <1>4, <1>5, <1>6 DEF JobInv, Owned, Working
<1>14. Apart'
  BY <1>4 DEF JobInv, Apart, Working
<1>15. Fresh'
  BY <1>3, <1>8, <1>5 DEF JobInv, Fresh, UnitTerminal
<1>16. Counted'
  BY <1>4, <1>8 DEF JobInv, Counted, Working
<1>17. Held'
  BY <1>3, <1>4, <1>8 DEF JobInv, Held, Busy, LanePc
<1>18. TypeOK'
  <2>1. /\ lane \in [Workers -> LanePc]
        /\ tries \in [Workers -> 1..MaxAttempts]
        /\ result \in [Workers -> Result]
        /\ throttled \subseteq Workers
    BY DEF JobInv, TypeOK
  <2>2. lane' \in [Workers -> LanePc]
    BY <2>1 DEF LanePc, Complete
  <2>3. tries' \in [Workers -> 1..MaxAttempts]
    BY <2>1, Constants DEF Complete
  <2>4. result' \in [Workers -> Result]
    BY <2>1 DEF Result, Complete
  <2>5. throttled' \subseteq Workers
    BY <2>1 DEF Complete
  <2> QED
    BY <1>9, <1>10, <2>2, <2>3, <2>4, <2>5 DEF JobInv, TypeOK, Complete
<1>19. Quiescent' /\ Cancelled' /\ Supervised' /\ RunningJob'
  BY DEF JobInv, Quiescent, Cancelled, Supervised, RunningJob, Complete
<1>20. Decided' /\ Started' /\ Doubtful' /\ Certain'
  BY DEF JobInv, Decided, Started, Doubtful, Certain, Complete
<1>21. Leased' /\ Single' /\ Blank' /\ Draining'
  BY DEF JobInv, Leased, Busy, LanePc, Single, Blank, Draining, Complete
<1>22. Halted'
  BY DEF JobInv, Halted, Complete
<1> QED
  BY <1>18, <1>19, <1>11, <1>20, <1>12, <1>13, <1>14, <1>15, <1>16, <1>21, <1>17, <1>22 DEF
     JobInv

LEMMA ReleaseKeeps ==
  ASSUME JobInv, NEW w \in Workers, Release(w)
  PROVE  JobInv'
<1> USE DEF Release, Go, Outcome, At, Unit, Attempt, laneFrame,
            store, poolVars, laneVars, runVars, bootVars, requestVars, cancelVars
<1>1. TypeOK'
  BY Constants, WorkerJob DEF JobInv, TypeOK, JobState, Terminal, UnitState, UnitTerminal,
     AttemptState, RunPc, LanePc, Result, Verdict
<1>2. Quiescent' /\ Submitting' /\ Cancelled' /\ Supervised'
  BY DEF JobInv, Quiescent, Submitting, Cancelled, Supervised
<1>3. RunningJob' /\ Decided' /\ InHand' /\ Owned'
  BY DEF JobInv, RunningJob, Decided, InHand, Owned, Working
<1>4. Apart' /\ Fresh' /\ Counted' /\ Started'
  BY DEF JobInv, Apart, Working, Fresh, Counted, Started
<1>5. Doubtful' /\ Certain' /\ Blank' /\ Draining'
  BY DEF JobInv, Doubtful, Certain, Blank, Draining
<1>6. Halted'
  BY DEF JobInv, Halted
<1>7. Leased'
  BY Constants DEF JobInv, Leased, Busy, TypeOK, LanePc
<1>8. Single'
  BY Constants DEF JobInv, Single, TypeOK
<1>9. Held'
  BY Constants DEF JobInv, Held, Busy, TypeOK, LanePc
<1> QED
  BY <1>1, <1>2, <1>3, <1>4, <1>5, <1>7, <1>8, <1>9, <1>6 DEF JobInv

-----------------------------------------------------------------------------
\* A cancellation reaches a lane.

LEMMA InterruptOutsideKeeps ==
  ASSUME JobInv, NEW w \in Workers, InterruptOutside(w)
  PROVE  JobInv'
<1> USE DEF InterruptOutside, Interrupting, Go, Outcome, At, Unit, Attempt, laneFrame,
            store, poolVars, laneVars, runVars, bootVars, requestVars, cancelVars
<1>1. TypeOK'
  BY Constants, WorkerJob DEF JobInv, TypeOK, JobState, Terminal, UnitState, UnitTerminal,
     AttemptState, RunPc, LanePc, Result, Verdict
<1>2. Quiescent' /\ Submitting' /\ Cancelled' /\ Supervised'
  BY DEF JobInv, Quiescent, Submitting, Cancelled, Supervised
<1>3. RunningJob' /\ Decided' /\ InHand' /\ Owned'
  BY DEF JobInv, RunningJob, Decided, InHand, Owned, Working
<1>4. Apart' /\ Fresh' /\ Counted' /\ Started'
  BY DEF JobInv, Apart, Working, Fresh, Counted, Started
<1>5. Doubtful' /\ Certain' /\ Leased' /\ Single'
  BY DEF JobInv, Doubtful, Certain, Leased, Busy, LanePc, Single
<1>6. Blank' /\ Draining' /\ Halted'
  BY DEF JobInv, Blank, Draining, Halted
<1>7. Held'
  BY Constants DEF JobInv, Held, Busy, TypeOK, LanePc
<1> QED
  BY <1>1, <1>2, <1>3, <1>4, <1>5, <1>7, <1>6 DEF JobInv

LEMMA InterruptClaimKeeps ==
  ASSUME JobInv, NEW w \in Workers, InterruptClaim(w)
  PROVE  JobInv'
<1> USE DEF InterruptClaim, Interrupting, CancelsUnit, Take, Claimable, Go, Outcome, At, Unit,
            Attempt, laneFrame,
            store, poolVars, laneVars, runVars, bootVars, requestVars, cancelVars
<1>1. /\ lane \in [Workers -> LanePc]
      /\ result \in [Workers -> Result]
      /\ unit \in [Jobs -> [Units -> UnitState]]
      /\ work \in [Workers -> Units]
  BY DEF JobInv, TypeOK
<1>2. w[1] \in Jobs
  BY WorkerJob
<1>3. lane[w] = "claim" /\ w \notin halted
  BY DEF JobInv, Halted
<1>4. \/ lane' = [lane EXCEPT ![w] = "release"] /\ UNCHANGED <<unit, work, result>>
      \/ \E u \in Units :
            /\ job[w[1]] \in {"queued", "running"} /\ unit[w[1]][u] = "ready"
            /\ unit' = [unit EXCEPT ![w[1]][u] = "running"]
            /\ work' = [work EXCEPT ![w] = u]
            /\ result' = [result EXCEPT ![w] = "cancelled"]
            /\ lane' = [lane EXCEPT ![w] = "complete"]
  OBVIOUS
<1>5. /\ tries' = tries /\ key' = key /\ holder' = holder /\ halted' = halted
      /\ attempt' = attempt /\ doubtful' = doubtful /\ run' = run /\ job' = job
      /\ submit' = submit
  OBVIOUS
<1> HIDE DEF InterruptClaim
<1> DEFINE Kept ==
      /\ lane' \in [Workers -> LanePc] /\ result' \in [Workers -> Result]
      /\ unit' \in [Jobs -> [Units -> UnitState]] /\ work' \in [Workers -> Units]
      /\ Submitting' /\ Fresh' /\ Supervised' /\ InHand' /\ Owned' /\ Apart'
      /\ Counted' /\ Started' /\ Doubtful' /\ Certain'
      /\ Leased' /\ Single' /\ Held' /\ Halted'
\* There is no unit to take.
<1>6. ASSUME lane' = [lane EXCEPT ![w] = "release"] /\ UNCHANGED <<unit, work, result>>
      PROVE  Kept
  <2>b. /\ \A v \in Workers \ {w} : lane'[v] = lane[v]
        /\ lane'[w] = "release"
        /\ unit' = unit /\ work' = work /\ result' = result
    BY <1>1, <1>6
  <2>1. lane' \in [Workers -> LanePc]
    BY <1>1, <1>6 DEF LanePc
  <2>3. Submitting' /\ Fresh' /\ Doubtful' /\ Single'
    BY <1>5, <2>b DEF JobInv, Submitting, Fresh, Doubtful, Single
  <2>5. Supervised' /\ InHand' /\ Owned' /\ Apart'
    BY <1>3, <1>5, <2>b DEF JobInv, Supervised, InHand, Owned, Apart, Working
  <2>6. Counted' /\ Started' /\ Certain'
    BY <1>3, <1>5, <2>b DEF JobInv, Counted, Started, Certain, Working
  <2>7. Leased' /\ Held' /\ Halted'
    BY <1>3, <1>5, <2>b DEF JobInv, Leased, Held, Halted, Busy, LanePc
  <2> QED
    BY <1>1, <2>b, <2>1, <2>3, <2>5, <2>6, <2>7
\* The first one that is ready, which no other lane has.
<1>7. ASSUME NEW u \in Units,
             job[w[1]] \in {"queued", "running"}, unit[w[1]][u] = "ready",
             unit' = [unit EXCEPT ![w[1]][u] = "running"],
             work' = [work EXCEPT ![w] = u],
             result' = [result EXCEPT ![w] = "cancelled"],
             lane' = [lane EXCEPT ![w] = "complete"]
      PROVE  Kept
  <2>b. /\ \A v \in Workers \ {w} : /\ lane'[v] = lane[v] /\ work'[v] = work[v]
                                    /\ result'[v] = result[v]
        /\ lane'[w] = "complete" /\ work'[w] = u /\ result'[w] = "cancelled"
    BY <1>1, <1>7
  <2>u. /\ unit'[w[1]][u] = "running"
        /\ \A j \in Jobs : \A v \in Units : <<j, v>> # <<w[1], u>> => unit'[j][v] = unit[j][v]
    BY <1>1, <1>7, <1>2
  <2>n. attempt[w[1]][u] = NoAttempt /\ u \notin doubtful[w[1]]
    BY <1>7, <1>2 DEF JobInv, Fresh
  <2>s. submit[w[1]] \notin {"validate", "units"} /\ job[w[1]] # "absent"
    BY <1>7, <1>2 DEF JobInv, Submitting
  <2>o. \A v \in Workers : lane[v] \in Working =>
           v[1] \in Jobs /\ work[v] \in Units /\ <<v[1], work[v]>> # <<w[1], u>>
    BY <1>1, <1>7, WorkerJob DEF JobInv, Owned
  <2>1. lane' \in [Workers -> LanePc] /\ work' \in [Workers -> Units]
    BY <1>1, <1>7 DEF LanePc
  <2>2. result' \in [Workers -> Result]
    BY <1>1, <1>7 DEF Result
  <2>4. unit' \in [Jobs -> [Units -> UnitState]]
    BY <1>1, <1>7, <1>2 DEF UnitState
  <2>3. Submitting'
    BY <1>5, <2>u, <2>s DEF JobInv, Submitting
  <2>5. Fresh'
    BY <1>5, <2>u DEF JobInv, Fresh
  <2>6. Supervised'
    BY <1>3, <1>5, <2>b DEF JobInv, Supervised
  <2>7. InHand'
    BY <1>5, <2>b DEF JobInv, InHand, UnitTerminal
  <2>8. Owned'
    BY <2>b, <2>u, <2>o DEF JobInv, Owned, Working
  <2>9. Apart'
    BY <2>b, <2>o DEF JobInv, Apart, Working
  <2>t. tries[w] \in 1..MaxAttempts
    BY DEF JobInv, TypeOK
  <2>10. Counted'
    BY <1>5, <2>t, Constants, <2>b, <2>n DEF JobInv, Counted, Working, NoAttempt
  <2>11. Started' /\ Doubtful'
    BY <1>5, <2>b DEF JobInv, Started, Doubtful
  <2>12. Certain'
    BY <1>5, <2>b, <2>n DEF JobInv, Certain
  <2>13. Leased' /\ Single' /\ Held' /\ Halted'
    BY <1>3, <1>5, <2>b DEF JobInv, Leased, Single, Held, Halted, Busy, LanePc
  <2> QED
    BY <2>1, <2>2, <2>3, <2>4, <2>5, <2>6, <2>7, <2>8, <2>9, <2>10, <2>11, <2>12, <2>13
<1>8. Kept
  BY <1>4, <1>6, <1>7
<1> HIDE DEF Kept
<1>9. TypeOK'
  <2>1. /\ lane' \in [Workers -> LanePc] /\ result' \in [Workers -> Result]
        /\ unit' \in [Jobs -> [Units -> UnitState]] /\ work' \in [Workers -> Units]
    BY <1>8 DEF Kept
  <2>2. hit \subseteq Workers /\ caught \subseteq Workers
    BY DEF JobInv, TypeOK
  <2>3. hit' \subseteq Workers /\ caught' \subseteq Workers
    BY <2>2 DEF InterruptClaim
  <2> QED
    BY <2>1, <2>3 DEF InterruptClaim, JobInv, TypeOK
<1>10. Quiescent' /\ Cancelled' /\ RunningJob' /\ Decided'
  <2>1. phase # "down" /\ orphaned = {}
    BY <1>3 DEF JobInv, Quiescent
  <2> QED
    BY <2>1 DEF InterruptClaim, JobInv, Quiescent, Cancelled, RunningJob, Decided
<1>11. Blank' /\ Draining'
  BY DEF JobInv, Blank, Draining, InterruptClaim
<1> QED
  BY <1>9, <1>10, <1>8, <1>11 DEF JobInv, Kept

LEMMA InterruptStartKeeps ==
  ASSUME JobInv, NEW w \in Workers, InterruptStart(w)
  PROVE  JobInv'
<1> USE DEF InterruptStart, Interrupting, CancelsUnit, Startable, NewAttempt, Go, Outcome, At,
            Unit, Attempt, laneFrame,
            store, poolVars, laneVars, runVars, bootVars, requestVars, cancelVars
<1>1. /\ lane \in [Workers -> LanePc]
      /\ result \in [Workers -> Result]
      /\ tries \in [Workers -> 1..MaxAttempts]
      /\ attempt \in [Jobs -> [Units -> [number : 0..MaxAttempts, state : AttemptState]]]
      /\ work \in [Workers -> Units]
      /\ doubtful \in [Jobs -> SUBSET Units]
  BY DEF JobInv, TypeOK
<1>2. w[1] \in Jobs /\ work[w] \in Units
  BY <1>1, WorkerJob
<1>3. \A v \in Workers \ {w} : lane'[v] = lane[v] /\ result'[v] = result[v]
  BY <1>1
<1>4. /\ lane[w] = "start"
      /\ lane'[w] \in {"settle", "complete"}
      /\ result'[w] = "cancelled"
      /\ \/ attempt' = attempt
         \/ attempt' = [attempt EXCEPT ![w[1]][work[w]] =
                          [number |-> @.number + 1, state |-> "running"]]
  BY <1>1
<1>5. /\ work' = work /\ key' = key /\ holder' = holder /\ halted' = halted
      /\ unit' = unit /\ doubtful' = doubtful /\ run' = run /\ tries' = tries
  OBVIOUS
<1>6. result' \in [Workers -> Result]
  <2>1. result' = [result EXCEPT ![w] = "cancelled"]
    OBVIOUS
  <2> HIDE DEF InterruptStart
  <2> QED
    BY <1>1, <2>1 DEF Result
<1> HIDE DEF InterruptStart
<1>7. attempt[w[1]][work[w]].number \in Nat /\ attempt[w[1]][work[w]].number < tries[w]
  BY <1>1, <1>4, <1>2 DEF JobInv, Counted
<1>8. tries[w] \in 1..MaxAttempts
  BY <1>1
<1>9. \A j \in Jobs : \A u \in Units : <<j, u>> # <<w[1], work[w]>> => attempt'[j][u] = attempt[j][u]
  BY <1>1, <1>4, <1>2
<1>10. attempt'[w[1]][work[w]] = attempt[w[1]][work[w]]
      \/ /\ attempt'[w[1]][work[w]].number = attempt[w[1]][work[w]].number + 1
         /\ attempt'[w[1]][work[w]].state = "running"
  BY <1>1, <1>4, <1>2
<1>11. attempt' \in [Jobs -> [Units -> [number : 0..MaxAttempts, state : AttemptState]]]
  <2>1. CASE attempt' = attempt
    BY <1>1, <2>1
  <2>2. CASE attempt' = [attempt EXCEPT ![w[1]][work[w]] =
                           [number |-> @.number + 1, state |-> "running"]]
    <3>1. attempt[w[1]][work[w]].number + 1 \in 0..MaxAttempts
      BY <1>7, <1>8, Constants
    <3> DEFINE new == [number |-> attempt[w[1]][work[w]].number + 1, state |-> "running"]
    <3>2. new \in [number : 0..MaxAttempts, state : AttemptState]
      BY <3>1 DEF AttemptState
    <3>3. attempt' = [attempt EXCEPT ![w[1]][work[w]] = new]
      BY <2>2
    <3> HIDE DEF new
    <3> QED
      BY <1>1, <1>2, <3>2, <3>3
  <2> QED
    BY <1>4, <2>1, <2>2
<1>12. unit[w[1]][work[w]] = "running"
  BY <1>4 DEF JobInv, Owned, Working
<1>13. \A v \in Workers \ {w} : lane[v] \in Working => <<v[1], work[v]>> # <<w[1], work[w]>>
  BY <1>4 DEF JobInv, Apart, Working
<1>14. \A v \in Workers : v[1] \in Jobs /\ work[v] \in Units
  BY <1>1, WorkerJob
<1>15. InHand'
  BY <1>3, <1>4, <1>5 DEF JobInv, InHand, UnitTerminal
<1>16. Owned'
  BY <1>3, <1>4, <1>5 DEF JobInv, Owned, Working
<1>17. Apart'
  BY <1>3, <1>4, <1>5 DEF JobInv, Apart, Working
<1>18. Fresh'
  BY <1>5, <1>9, <1>12 DEF JobInv, Fresh
<1>19. Counted'
  <2>1. ASSUME NEW v \in Workers
        PROVE  /\ lane'[v] \in {"try", "start"} => attempt'[v[1]][work[v]].number < tries[v]
               /\ lane'[v] \in Working => attempt'[v[1]][work[v]].number <= tries[v]
    <3>1. CASE v = w
      BY <1>4, <1>10, <1>7, <1>8, <3>1
    <3>2. CASE v # w
      BY <1>3, <1>9, <1>14, <1>13, <3>2 DEF JobInv, Counted, Working
    <3> QED
      BY <3>1, <3>2
  <2> QED
    BY <1>5, <2>1 DEF Counted
<1>20. Started'
  <2>1. ASSUME NEW v \in Workers, lane'[v] = "call"
        PROVE  attempt'[v[1]][work[v]].state # "none"
    <3>1. CASE v = w
      BY <1>1, <1>4, <1>2, <2>1, <3>1
    <3>2. CASE v # w
      BY <1>3, <1>9, <1>14, <1>13, <2>1, <3>2 DEF JobInv, Started, Working
    <3> QED
      BY <3>1, <3>2
  <2> QED
    BY <1>5, <2>1 DEF Started
<1>21. Doubtful'
  BY <1>1, <1>5, <1>9, <1>10 DEF JobInv, Doubtful
<1>22. Leased'
  BY <1>3, <1>4, <1>5 DEF JobInv, Leased, Busy, LanePc
<1>23. Held'
  BY <1>3, <1>4, <1>5 DEF JobInv, Held, Busy, LanePc
<1>24. Blank'
  BY <1>9, <1>10 DEF JobInv, Blank
<1>25. TypeOK'
  <2>1. /\ lane \in [Workers -> LanePc]
        /\ hit \subseteq Workers
        /\ caught \subseteq Workers
    BY DEF JobInv, TypeOK
  <2>2. lane' \in [Workers -> LanePc]
    BY <2>1 DEF LanePc, InterruptStart
  <2>3. hit' \subseteq Workers
    BY <2>1 DEF InterruptStart
  <2>4. caught' \subseteq Workers
    BY <2>1 DEF InterruptStart
  <2> QED
    BY <1>11, <1>6, <2>2, <2>3, <2>4 DEF JobInv, TypeOK, InterruptStart
<1>26. Quiescent'
  BY DEF JobInv, Quiescent, InterruptStart
<1>27. Submitting'
  BY DEF JobInv, Submitting, InterruptStart
<1>28. Cancelled'
  BY DEF JobInv, Cancelled, InterruptStart
<1>29. Supervised'
  BY WorkerJob DEF JobInv, Supervised, TypeOK, InterruptStart
<1>30. RunningJob'
  BY DEF JobInv, RunningJob, InterruptStart
<1>31. Decided'
  BY DEF JobInv, Decided, InterruptStart
<1>32. Certain'
  BY WorkerJob DEF JobInv, Certain, TypeOK, InterruptStart
<1>33. Single'
  BY DEF JobInv, Single, InterruptStart
<1>34. Draining'
  BY DEF JobInv, Draining, InterruptStart
<1>35. Halted'
  BY DEF JobInv, Halted, TypeOK, InterruptStart
<1> QED
  BY <1>25, <1>26, <1>27, <1>28, <1>29, <1>30, <1>31, <1>15, <1>16, <1>17, <1>18, <1>19,
     <1>20, <1>21, <1>32, <1>22, <1>33, <1>23, <1>24, <1>34, <1>35 DEF JobInv

LEMMA InterruptCallKeeps ==
  ASSUME JobInv, NEW w \in Workers, InterruptCall(w)
  PROVE  JobInv'
<1> USE DEF InterruptCall, Interrupting, Go, Outcome, At, Unit, Attempt, laneFrame,
            store, poolVars, laneVars, runVars, bootVars, requestVars, cancelVars
<1>1. /\ lane \in [Workers -> LanePc]
      /\ result \in [Workers -> Result]
      /\ doubtful \in [Jobs -> SUBSET Units]
      /\ work \in [Workers -> Units]
  BY DEF JobInv, TypeOK
<1>2. w[1] \in Jobs /\ work[w] \in Units
  BY <1>1, WorkerJob
<1>3. /\ lane[w] = "call" /\ attempt[w[1]][work[w]].state # "none"
      /\ unit[w[1]][work[w]] = "running"
  BY DEF JobInv, Started, Owned, Working
<1>4. /\ \A v \in Workers \ {w} : lane'[v] = lane[v] /\ result'[v] = result[v]
      /\ lane'[w] = "settle" /\ result'[w] \in {"unknown", "cancelled"}
  BY <1>1
<1>5. /\ \A j \in Jobs \ {w[1]} : doubtful'[j] = doubtful[j]
      /\ doubtful'[w[1]] = doubtful[w[1]] \cup {work[w]}
  BY <1>1, <1>2
<1>6. /\ unit' = unit /\ attempt' = attempt /\ tries' = tries /\ work' = work
      /\ run' = run /\ job' = job /\ key' = key /\ holder' = holder /\ halted' = halted
  OBVIOUS
<1> HIDE DEF InterruptCall
<1>7. InHand'
  BY <1>4, <1>6 DEF JobInv, InHand, UnitTerminal
<1>8. Owned'
  BY <1>3, <1>4, <1>6 DEF JobInv, Owned, Working
<1>9. Apart'
  BY <1>3, <1>4, <1>6 DEF JobInv, Apart, Working
<1>10. Fresh'
  BY <1>3, <1>6, <1>5 DEF JobInv, Fresh
<1>11. Doubtful'
  BY <1>3, <1>6, <1>5 DEF JobInv, Doubtful
<1>12. Certain'
  <2>1. \A v \in Workers \ {w} : lane[v] \in Working => <<v[1], work[v]>> # <<w[1], work[w]>>
    BY <1>3 DEF JobInv, Apart, Working
  <2>2. \A v \in Workers : v[1] \in Jobs
    BY WorkerJob
  <2> QED
    BY <1>3, <1>4, <1>6, <1>5, <2>1, <2>2 DEF JobInv, Certain, Working
<1>13. Leased'
  BY <1>3, <1>4, <1>6 DEF JobInv, Leased, Busy, LanePc
<1>14. Held'
  BY <1>3, <1>4, <1>6 DEF JobInv, Held, Busy, LanePc
<1>15. Halted'
  BY <1>4, <1>6 DEF JobInv, Halted
<1>16. TypeOK'
  <2>1. /\ doubtful \in [Jobs -> SUBSET Units]
        /\ lane \in [Workers -> LanePc]
        /\ result \in [Workers -> Result]
        /\ hit \subseteq Workers
        /\ caught \subseteq Workers
        /\ work \in [Workers -> Units]
    BY DEF JobInv, TypeOK
  <2>2. doubtful' \in [Jobs -> SUBSET Units]
    BY <2>1, Constants, WorkerJob DEF InterruptCall
  <2>3. lane' \in [Workers -> LanePc]
    BY <2>1 DEF LanePc, InterruptCall
  <2>4. result' \in [Workers -> Result]
    BY <2>1 DEF Result, InterruptCall
  <2>5. hit' \subseteq Workers
    BY <2>1 DEF InterruptCall
  <2>6. caught' \subseteq Workers
    BY <2>1 DEF InterruptCall
  <2> QED
    BY <2>2, <2>3, <2>4, <2>5, <2>6 DEF JobInv, TypeOK, InterruptCall
<1>17. Quiescent' /\ Submitting' /\ Cancelled' /\ Supervised'
  BY DEF JobInv, Quiescent, Submitting, Cancelled, Supervised, InterruptCall
<1>18. RunningJob' /\ Decided' /\ Counted' /\ Started'
  BY DEF JobInv, RunningJob, Decided, Counted, Working, Started, InterruptCall
<1>19. Single' /\ Blank' /\ Draining'
  BY DEF JobInv, Single, Blank, Draining, InterruptCall
<1> QED
  BY <1>16, <1>17, <1>18, <1>7, <1>8, <1>9, <1>10, <1>11, <1>12, <1>13, <1>19, <1>14, <1>15
     DEF JobInv

LEMMA InterruptUnitKeeps ==
  ASSUME JobInv, NEW w \in Workers, InterruptUnit(w)
  PROVE  JobInv'
<1> USE DEF InterruptUnit, Interrupting, CancelsUnit, Go, Outcome, At, Unit, Attempt, laneFrame,
            store, poolVars, laneVars, runVars, bootVars, requestVars, cancelVars
<1>1. /\ lane \in [Workers -> LanePc]
      /\ result \in [Workers -> Result]
      /\ attempt \in [Jobs -> [Units -> [number : 0..MaxAttempts, state : AttemptState]]]
      /\ work \in [Workers -> Units]
  BY DEF JobInv, TypeOK
<1>2. w[1] \in Jobs /\ work[w] \in Units /\ result[w] \in Result
  BY <1>1, WorkerJob
<1>3. lane[w] \in {"try", "judge", "confirm", "backoff", "settle"}
  OBVIOUS
<1>4. AttemptEnd(result[w]) \in AttemptState \ {"none"}
  BY DEF AttemptEnd, AttemptState
<1>5. attempt' = attempt
      \/ attempt' = [attempt EXCEPT ![w[1]][work[w]].state = AttemptEnd(result[w])]
  BY DEF FinishAttempt
<1>6. attempt' \in [Jobs -> [Units -> [number : 0..MaxAttempts, state : AttemptState]]]
  <2> DEFINE new == [attempt[w[1]][work[w]] EXCEPT !.state = AttemptEnd(result[w])]
  <2>1. new \in [number : 0..MaxAttempts, state : AttemptState]
    BY <1>1, <1>2, <1>4
  <2>2. CASE attempt' = attempt
    BY <1>1, <2>2
  <2>3. CASE attempt' = [attempt EXCEPT ![w[1]][work[w]] = new]
    <3> HIDE DEF new, InterruptUnit
    <3> QED
      BY <1>1, <1>2, <2>1, <2>3
  <2> QED
    BY <1>5, <2>2, <2>3
<1>7. /\ \A j \in Jobs : \A u \in Units : attempt'[j][u].number = attempt[j][u].number
      /\ \A j \in Jobs : \A u \in Units :
            attempt'[j][u] = attempt[j][u] \/ attempt'[j][u].state # "none"
      /\ \A j \in Jobs : \A u \in Units :
            <<j, u>> # <<w[1], work[w]>> => attempt'[j][u] = attempt[j][u]
  <2> HIDE DEF InterruptUnit
  <2>1. CASE attempt' = attempt
    BY <2>1
  <2>2. CASE attempt' = [attempt EXCEPT ![w[1]][work[w]].state = AttemptEnd(result[w])]
    BY <1>1, <1>2, <1>4, <2>2
  <2> QED
    BY <1>5, <2>1, <2>2
<1>8. /\ \A v \in Workers \ {w} : lane'[v] = lane[v] /\ result'[v] = result[v]
      /\ lane'[w] = "complete" /\ result'[w] = "cancelled"
  BY <1>1
<1>9. \A v \in Workers : v[1] \in Jobs /\ work[v] \in Units
  BY <1>1, WorkerJob
<1>10. /\ key' = key /\ holder' = holder /\ work' = work /\ tries' = tries
      /\ unit' = unit /\ doubtful' = doubtful /\ run' = run /\ job' = job /\ halted' = halted
  OBVIOUS
<1> HIDE DEF InterruptUnit
<1>11. unit[w[1]][work[w]] = "running"
  BY <1>3 DEF JobInv, Owned, Working
<1>12. Supervised'
  BY <1>3, <1>8, <1>10 DEF JobInv, Supervised
<1>13. InHand'
  BY <1>8, <1>10 DEF JobInv, InHand, UnitTerminal
<1>14. Owned'
  BY <1>3, <1>8, <1>10 DEF JobInv, Owned, Working
<1>15. Apart'
  BY <1>3, <1>8, <1>10 DEF JobInv, Apart, Working
<1>16. Fresh'
  BY <1>11, <1>10, <1>7 DEF JobInv, Fresh
<1>17. Counted'
  BY <1>3, <1>8, <1>10, <1>7, <1>9 DEF JobInv, Counted, Working
<1>18. Started'
  BY <1>8, <1>10, <1>7, <1>9 DEF JobInv, Started
<1>19. Doubtful'
  <2>1. \A j \in Jobs : doubtful[j] \subseteq Units
    BY DEF JobInv, TypeOK
  <2> QED
    BY <1>10, <1>7, <2>1 DEF JobInv, Doubtful
<1>20. Certain'
  BY <1>8, <1>10 DEF JobInv, Certain
<1>21. Leased'
  BY <1>3, <1>8, <1>10 DEF JobInv, Leased, Busy, LanePc
<1>22. Held'
  BY <1>3, <1>8, <1>10 DEF JobInv, Held, Busy, LanePc
<1>23. Halted'
  BY <1>8, <1>10 DEF JobInv, Halted
<1>24. Blank'
  BY <1>7 DEF JobInv, Blank
<1>25. TypeOK'
  <2>1. /\ lane \in [Workers -> LanePc]
        /\ result \in [Workers -> Result]
        /\ hit \subseteq Workers
        /\ caught \subseteq Workers
    BY DEF JobInv, TypeOK
  <2>2. lane' \in [Workers -> LanePc]
    BY <2>1 DEF LanePc, InterruptUnit
  <2>3. result' \in [Workers -> Result]
    BY <2>1 DEF Result, InterruptUnit
  <2>4. hit' \subseteq Workers
    BY <2>1 DEF InterruptUnit
  <2>5. caught' \subseteq Workers
    BY <2>1 DEF InterruptUnit
  <2> QED
    BY <1>6, <2>2, <2>3, <2>4, <2>5 DEF JobInv, TypeOK, InterruptUnit
<1>26. Quiescent' /\ Submitting' /\ Cancelled' /\ RunningJob'
  BY DEF JobInv, Quiescent, Submitting, Cancelled, RunningJob, InterruptUnit
<1>27. Decided' /\ Single' /\ Draining'
  BY DEF JobInv, Decided, Single, Draining, InterruptUnit
<1> QED
  BY <1>25, <1>26, <1>12, <1>27, <1>13, <1>14, <1>15, <1>16, <1>17, <1>18, <1>19, <1>20, <1>21,
     <1>22, <1>24, <1>23 DEF JobInv

LEMMA InterruptCompleteKeeps ==
  ASSUME JobInv, NEW w \in Workers, InterruptComplete(w)
  PROVE  JobInv'
<1> USE DEF InterruptComplete, Interrupting, Record, DropsUnit, Go, Outcome, At, Unit, Attempt,
            laneFrame,
            store, poolVars, laneVars, runVars, bootVars, requestVars, cancelVars
<1>1. /\ lane \in [Workers -> LanePc]
      /\ result \in [Workers -> Result]
      /\ tries \in [Workers -> 1..MaxAttempts]
      /\ unit \in [Jobs -> [Units -> UnitState]]
      /\ work \in [Workers -> Units]
  BY DEF JobInv, TypeOK
<1>2. w[1] \in Jobs /\ work[w] \in Units
  BY <1>1, WorkerJob
<1>3. lane[w] = "complete" /\ result[w] \in UnitTerminal /\ unit[w[1]][work[w]] = "running"
  BY DEF JobInv, InHand, Owned, Working
<1>4. /\ \A v \in Workers \ {w} : /\ lane'[v] = lane[v] /\ result'[v] = result[v]
                                  /\ tries'[v] = tries[v] /\ work'[v] = work[v]
      /\ lane'[w] = "release"
  BY <1>1
<1>5. unit' = unit \/ unit' = [unit EXCEPT ![w[1]][work[w]] = result[w]]
  OBVIOUS
<1>6. /\ unit'[w[1]][work[w]] \in {"running", result[w]}
      /\ \A j \in Jobs : \A v \in Units : <<j, v>> # <<w[1], work[w]>> => unit'[j][v] = unit[j][v]
  BY <1>1, <1>3, <1>5, <1>2
<1>7. \A v \in Workers \ {w} : lane[v] \in Working =>
         v[1] \in Jobs /\ work[v] \in Units /\ <<v[1], work[v]>> # <<w[1], work[w]>>
  BY <1>1, <1>3, WorkerJob DEF JobInv, Apart, Working
<1>8. submit[w[1]] \notin {"validate", "units"} /\ job[w[1]] # "absent"
  BY <1>3, <1>2 DEF JobInv, Submitting, UnitTerminal
<1>9. /\ key' = key /\ holder' = holder /\ halted' = halted
      /\ attempt' = attempt /\ doubtful' = doubtful /\ run' = run /\ job' = job
      /\ submit' = submit
  OBVIOUS
<1>10. unit' \in [Jobs -> [Units -> UnitState]]
  <2>1. [unit EXCEPT ![w[1]][work[w]] = result[w]] \in [Jobs -> [Units -> UnitState]]
    BY <1>1, <1>3, <1>2 DEF UnitState
  <2> QED
    BY <1>1, <1>5, <2>1
<1>11. work' \in [Workers -> Units]
  BY <1>1, Constants
<1>l. late' \in [Jobs -> [Units -> {"none"} \cup UnitTerminal]]
  <2>1. late \in [Jobs -> [Units -> {"none"} \cup UnitTerminal]]
    BY DEF JobInv, TypeOK
  <2>2. late' = late \/ late' = [late EXCEPT ![w[1]][work[w]] = result[w]]
    OBVIOUS
  <2> QED
    BY <1>2, <1>3, <2>1, <2>2
<1> HIDE DEF InterruptComplete
<1>12. Submitting'
  BY <1>9, <1>6, <1>8 DEF JobInv, Submitting
<1>13. InHand'
  BY <1>4 DEF JobInv, InHand
<1>14. Owned'
  BY <1>4, <1>6, <1>7 DEF JobInv, Owned, Working
<1>15. Apart'
  BY <1>4 DEF JobInv, Apart, Working
<1>16. Fresh'
  BY <1>3, <1>9, <1>6 DEF JobInv, Fresh, UnitTerminal
<1>17. Counted'
  BY <1>4, <1>9 DEF JobInv, Counted, Working
<1>18. Held'
  BY <1>3, <1>4, <1>9 DEF JobInv, Held, Busy, LanePc
<1>19. TypeOK'
  <2>1. /\ lane \in [Workers -> LanePc]
        /\ tries \in [Workers -> 1..MaxAttempts]
        /\ result \in [Workers -> Result]
        /\ throttled \subseteq Workers
        /\ hit \subseteq Workers
    BY DEF JobInv, TypeOK
  <2>2. lane' \in [Workers -> LanePc]
    BY <2>1 DEF LanePc, InterruptComplete
  <2>3. tries' \in [Workers -> 1..MaxAttempts]
    BY <2>1, Constants DEF InterruptComplete
  <2>4. result' \in [Workers -> Result]
    BY <2>1 DEF Result, InterruptComplete
  <2>5. throttled' \subseteq Workers
    BY <2>1 DEF InterruptComplete
  <2>6. hit' \subseteq Workers
    BY <2>1 DEF InterruptComplete
  <2> QED
    BY <1>l, <1>10, <1>11, <2>2, <2>3, <2>4, <2>5, <2>6 DEF JobInv, TypeOK, InterruptComplete
<1>20. Quiescent' /\ Cancelled' /\ Supervised' /\ RunningJob'
  BY DEF JobInv, Quiescent, Cancelled, Supervised, RunningJob, InterruptComplete
<1>21. Decided' /\ Started' /\ Doubtful' /\ Certain'
  BY DEF JobInv, Decided, Started, Doubtful, Certain, InterruptComplete
<1>22. Leased' /\ Single' /\ Blank' /\ Draining'
  BY DEF JobInv, Leased, Busy, LanePc, Single, Blank, Draining, InterruptComplete
<1>23. Halted'
  BY DEF JobInv, Halted, InterruptComplete
<1> QED
  BY <1>19, <1>20, <1>12, <1>21, <1>13, <1>14, <1>15, <1>16, <1>17, <1>22, <1>18, <1>23 DEF
     JobInv

-----------------------------------------------------------------------------
\* A key cools off.

LEMMA RecoveredKeeps ==
  ASSUME JobInv, NEW k \in Keys, Recovered(k)
  PROVE  JobInv'
<1> USE DEF Recovered,
            store, poolVars, laneVars, runVars, bootVars, requestVars, cancelVars
<1>1. TypeOK'
  BY DEF JobInv, TypeOK
<1>2. Quiescent' /\ Submitting' /\ Cancelled' /\ Supervised'
  BY DEF JobInv, Quiescent, Submitting, Cancelled, Supervised
<1>3. RunningJob' /\ Decided' /\ InHand' /\ Owned'
  BY DEF JobInv, RunningJob, Decided, InHand, Owned, Working
<1>4. Apart' /\ Fresh' /\ Counted' /\ Started'
  BY DEF JobInv, Apart, Working, Fresh, Counted, Started
<1>5. Doubtful' /\ Certain' /\ Single' /\ Held'
  BY DEF JobInv, Doubtful, Certain, Single, Held, Busy
<1>6. Blank' /\ Draining' /\ Halted'
  BY DEF JobInv, Blank, Draining, Halted
<1>7. Leased'
  BY Constants DEF JobInv, Leased, Busy, TypeOK, LanePc
<1> QED
  BY <1>1, <1>2, <1>3, <1>4, <1>5, <1>7, <1>6 DEF JobInv

-----------------------------------------------------------------------------
\* A job is cancelled.

LEMMA RequestCancelKeeps ==
  ASSUME JobInv, NEW c \in Cancels, NEW j \in Jobs, RequestCancel(c, j)
  PROVE  JobInv'
<1> USE DEF RequestCancel, LockFree, Terminal,
            store, poolVars, laneVars, runVars, bootVars, requestVars, cancelVars
<1>1. TypeOK'
  BY Constants, WorkerJob DEF JobInv, TypeOK, JobState, Terminal, UnitState, UnitTerminal,
     AttemptState, RunPc, LanePc, Result, Verdict
<1>2. Quiescent' /\ Submitting' /\ Supervised' /\ RunningJob'
  BY DEF JobInv, Quiescent, Submitting, Supervised, RunningJob
<1>3. Decided' /\ InHand' /\ Owned' /\ Apart'
  BY DEF JobInv, Decided, InHand, Owned, Working, Apart
<1>4. Fresh' /\ Counted' /\ Started' /\ Doubtful'
  BY DEF JobInv, Fresh, Counted, Working, Started, Doubtful
<1>5. Certain' /\ Leased' /\ Single' /\ Held'
  BY DEF JobInv, Certain, Leased, Busy, LanePc, Single, Held
<1>6. Blank' /\ Draining' /\ Halted'
  BY DEF JobInv, Blank, Draining, Halted
<1>7. Cancelled'
  BY DEF JobInv, Cancelled, TypeOK
<1> QED
  BY <1>1, <1>2, <1>7, <1>3, <1>4, <1>5, <1>6 DEF JobInv

LEMMA StopKeeps ==
  ASSUME JobInv, NEW c \in Cancels, Stop(c)
  PROVE  JobInv'
<1> USE DEF Stop, StartRunner, Recoverable, Interrupt, Unplanned, RunTo,
            store, poolVars, laneVars, runVars, bootVars, requestVars, cancelVars
<1>1. /\ quitting \subseteq Jobs
      /\ run \in [Jobs -> RunPc]
  BY DEF JobInv, TypeOK
<1>2. cancelJob[c] \in Jobs
  BY DEF JobInv, Cancelled
<1>3. quitting' \subseteq Jobs
  <2>1. \/ quitting' = quitting
        \/ quitting' = quitting \cup {cancelJob[c]}
    OBVIOUS
  <2> QED
    BY <1>1, <1>2, <2>1
<1>4. /\ \A i \in Jobs : i # cancelJob[c] => run'[i] = run[i]
      /\ run[cancelJob[c]] \in {"lanes", "drain"} => run'[cancelJob[c]] \in {"lanes", "drain"}
      /\ lane' = lane
  <2>1. CASE run[cancelJob[c]] = "lanes"
    BY <1>1, <1>2, <2>1
  <2>2. CASE run[cancelJob[c]] = "drain"
    <3>1. cancelJob[c] \in quitting
      BY <1>2, <2>2 DEF JobInv, Draining
    <3> QED
      BY <1>1, <1>2, <2>2, <3>1
  <2>3. CASE run[cancelJob[c]] \notin {"lanes", "drain"}
    BY <1>1, <1>2, <2>3
  <2> QED
    BY <2>1, <2>2, <2>3
<1>5. /\ quitting \subseteq quitting'
      /\ run'[cancelJob[c]] = "drain" => cancelJob[c] \in quitting'
  <2>1. CASE run[cancelJob[c]] = "lanes"
    BY <1>1, <1>2, <2>1
  <2>2. CASE run[cancelJob[c]] = "drain"
    <3>1. cancelJob[c] \in quitting
      BY <1>2, <2>2 DEF JobInv, Draining
    <3> QED
      BY <1>1, <1>2, <2>2, <3>1
  <2>3. CASE run[cancelJob[c]] \notin {"lanes", "drain"}
    BY <1>1, <1>2, <2>3
  <2> QED
    BY <2>1, <2>2, <2>3
<1>6. \A i \in Jobs : i # cancelJob[c] => tally'[i] = tally[i]
  <2>1. tally \in [Jobs -> [verdict : Verdict, resumed : BOOLEAN]]
    BY DEF JobInv, TypeOK
  <2>2. tally' = tally \/ tally' = [tally EXCEPT ![cancelJob[c]] = NoTally]
    OBVIOUS
  <2>3. CASE tally' = tally
    BY <2>3
  <2>4. CASE tally' = [tally EXCEPT ![cancelJob[c]] = NoTally]
    BY <1>2, <2>1, <2>4
  <2> QED
    BY <2>2, <2>3, <2>4
<1>7. \/ run'[cancelJob[c]] \in {"idle", "begin", "unplanned_end", "drain", "cancel_report"}
      \/ run' = run /\ tally' = tally
  <2>1. CASE run[cancelJob[c]] # "idle" /\ cancelJob[c] \notin quitting
    <3>1. Interrupt(cancelJob[c])
      BY <2>1
    <3> QED
      BY <1>1, <1>2, <3>1
  <2>2. CASE ~(run[cancelJob[c]] # "idle" /\ cancelJob[c] \notin quitting)
    BY <1>1, <1>2, <2>2
  <2> QED
    BY <2>1, <2>2
<1> HIDE DEF Stop
<1>8. Supervised'
  BY <1>4, WorkerJob DEF JobInv, Supervised
<1>9. Decided'
  BY <1>4, <1>6, <1>7 DEF JobInv, Decided
<1>10. Draining'
  BY <1>1, <1>4, <1>5 DEF JobInv, Draining
<1>11. TypeOK'
  <2>1. /\ job \in [Jobs -> JobState]
        /\ manifest \in [Jobs -> {"none", "report", "failed", "cancelled"}]
        /\ run \in [Jobs -> RunPc]
        /\ tally \in [Jobs -> [verdict : Verdict, resumed : BOOLEAN]]
        /\ spent \in [Jobs -> 0..Budget]
        /\ hit \subseteq Workers
        /\ cancelPc \in [Cancels -> {"idle", "stop", "await", "finish"}]
        /\ workers \in [Jobs -> 0..MaxWorkers]
    BY DEF JobInv, TypeOK
  <2>2. job' \in [Jobs -> JobState]
    BY <2>1 DEF JobState, Terminal, Stop
  <2>3. manifest' \in [Jobs -> {"none", "report", "failed", "cancelled"}]
    BY <2>1 DEF Stop
  <2>4. run' \in [Jobs -> RunPc]
    BY <2>1 DEF RunPc, Stop
  <2>5. tally' \in [Jobs -> [verdict : Verdict, resumed : BOOLEAN]]
    BY <2>1, Constants DEF Verdict, Stop
  <2>6. spent' \in [Jobs -> 0..Budget]
    BY <2>1, Constants DEF Exhausted, Stop
  <2>7. hit' \subseteq Workers
    BY <2>1 DEF Stop
  <2>8. cancelPc' \in [Cancels -> {"idle", "stop", "await", "finish"}]
    BY <2>1 DEF Stop
  <2> QED
    BY <1>3, <2>2, <2>3, <2>4, <2>5, <2>6, <2>7, <2>8 DEF JobInv, TypeOK, Stop
<1>12. Quiescent' /\ Cancelled' /\ InHand' /\ Owned'
  BY DEF JobInv, Quiescent, Cancelled, InHand, Owned, Working, Stop
<1>13. Apart' /\ Fresh' /\ Counted' /\ Started'
  BY DEF JobInv, Apart, Working, Fresh, Counted, Started, Stop
<1>14. Doubtful' /\ Certain' /\ Leased' /\ Single'
  BY DEF JobInv, Doubtful, Certain, Leased, Busy, LanePc, Single, Stop
<1>15. Held' /\ Blank' /\ Halted'
  BY DEF JobInv, Held, Busy, Blank, Halted, Stop
<1>16. Submitting'
  BY WorkerJob DEF JobInv, Submitting, TypeOK, Terminal, Quiescent, Supervised, RunningJob,
     Owned, Working, Recoverable, Cancelled, Stop
<1>17. RunningJob'
  BY DEF JobInv, RunningJob, TypeOK, Terminal, Stop
<1> QED
  BY <1>11, <1>12, <1>16, <1>8, <1>17, <1>9, <1>13, <1>14, <1>15, <1>10 DEF JobInv

LEMMA AwaitKeeps ==
  ASSUME JobInv, NEW c \in Cancels, Await(c)
  PROVE  JobInv'
<1> USE DEF Await, StartRunner, Recoverable, LockFree, CancelDone, Cancelling,
            store, poolVars, laneVars, runVars, bootVars, requestVars, cancelVars
<1>1. /\ quitting \subseteq Jobs
      /\ cancelPc \in [Cancels -> {"idle", "stop", "await", "finish"}]
      /\ cancelJob \in [Cancels -> Jobs \cup {None}]
  BY DEF JobInv, TypeOK
<1>2. cancelJob[c] \in Jobs
  BY DEF JobInv, Cancelled
<1>3. quitting' \subseteq Jobs
  BY <1>1, <1>2
<1>4. /\ \A d \in Cancels \ {c} : cancelPc'[d] = cancelPc[d] /\ cancelJob'[d] = cancelJob[d]
      /\ cancelPc'[c] # "idle" => cancelJob'[c] = cancelJob[c]
  <2>1. CASE Cancelling(cancelJob[c])
    BY <1>1, <2>1
  <2>2. CASE ~Cancelling(cancelJob[c])
    BY <1>1, <2>2
  <2> QED
    BY <2>1, <2>2
<1> HIDE DEF Await
<1>5. Cancelled'
  BY <1>2, <1>4 DEF JobInv, Cancelled
<1>6. TypeOK'
  <2>1. /\ run \in [Jobs -> RunPc]
        /\ cancelPc \in [Cancels -> {"idle", "stop", "await", "finish"}]
        /\ cancelJob \in [Cancels -> Jobs \cup {None}]
    BY DEF JobInv, TypeOK
  <2>2. run' \in [Jobs -> RunPc]
    BY <2>1 DEF RunPc, Await
  <2>3. cancelPc' \in [Cancels -> {"idle", "stop", "await", "finish"}]
    BY <2>1 DEF Await
  <2>4. cancelJob' \in [Cancels -> Jobs \cup {None}]
    BY <2>1 DEF Await
  <2> QED
    BY <1>3, <2>2, <2>3, <2>4 DEF JobInv, TypeOK, Await
<1>7. Quiescent' /\ InHand' /\ Owned' /\ Apart'
  BY DEF JobInv, Quiescent, InHand, Owned, Working, Apart, Await
<1>8. Fresh' /\ Counted' /\ Started' /\ Doubtful'
  BY DEF JobInv, Fresh, Counted, Working, Started, Doubtful, Await
<1>9. Certain' /\ Leased' /\ Single' /\ Held'
  BY DEF JobInv, Certain, Leased, Busy, LanePc, Single, Held, Await
<1>10. Submitting'
  BY WorkerJob DEF JobInv, Submitting, TypeOK, Terminal, Await
<1>11. Supervised'
  BY WorkerJob DEF JobInv, Supervised, TypeOK, Await
<1>12. RunningJob'
  BY DEF JobInv, RunningJob, TypeOK, Terminal, Await
<1>13. Decided'
  BY DEF JobInv, Decided, TypeOK, Await
<1>14. Blank'
  BY DEF JobInv, Blank, Await
<1>15. Draining'
  BY DEF JobInv, Draining, TypeOK, Await
<1>16. Halted'
  BY DEF JobInv, Halted, Await
<1> QED
  BY <1>6, <1>7, <1>10, <1>5, <1>11, <1>12, <1>13, <1>8, <1>9, <1>14, <1>15,
     <1>16 DEF JobInv

LEMMA CancelFinishKeeps ==
  ASSUME JobInv, NEW c \in Cancels, CancelFinish(c)
  PROVE  JobInv'
<1> USE DEF CancelFinish, CancelDone,
            store, poolVars, laneVars, runVars, bootVars, requestVars, cancelVars
<1>1. TypeOK'
  BY DEF JobInv, TypeOK
<1>2. Quiescent' /\ Submitting' /\ Supervised' /\ RunningJob'
  BY DEF JobInv, Quiescent, Submitting, Supervised, RunningJob
<1>3. Decided' /\ InHand' /\ Owned' /\ Apart'
  BY DEF JobInv, Decided, InHand, Owned, Working, Apart
<1>4. Fresh' /\ Counted' /\ Started' /\ Doubtful'
  BY DEF JobInv, Fresh, Counted, Working, Started, Doubtful
<1>5. Certain' /\ Leased' /\ Single' /\ Held'
  BY DEF JobInv, Certain, Leased, Busy, LanePc, Single, Held
<1>6. Blank' /\ Draining' /\ Halted'
  BY DEF JobInv, Blank, Draining, Halted
<1>7. Cancelled'
  BY DEF JobInv, Cancelled, TypeOK
<1> QED
  BY <1>1, <1>2, <1>7, <1>3, <1>4, <1>5, <1>6 DEF JobInv

-----------------------------------------------------------------------------
\* A crash leaves nothing running; recovery classifies before it runs.

LEMMA CrashKeeps ==
  ASSUME JobInv, Crash
  PROVE  JobInv'
<1> USE DEF Crash, Fault, Interrupted,
            store, poolVars, laneVars, runVars, bootVars, requestVars, cancelVars
<1>1. TypeOK'
  <2>1. /\ doubtful \in [Jobs -> SUBSET Units]
        /\ phase \in {"up", "down", "recovering"}
        /\ orphaned \subseteq Jobs
        /\ resuming \subseteq Jobs
        /\ submit \in [Jobs -> {"idle", "validate", "units", "queue", "start"}]
        /\ run \in [Jobs -> RunPc]
        /\ quitting \subseteq Jobs
        /\ tally \in [Jobs -> [verdict : Verdict, resumed : BOOLEAN]]
        /\ spent \in [Jobs -> 0..Budget]
        /\ lane \in [Workers -> LanePc]
        /\ work \in [Workers -> Units]
        /\ tries \in [Workers -> 1..MaxAttempts]
        /\ result \in [Workers -> Result]
        /\ halted \subseteq Workers
        /\ throttled \subseteq Workers
        /\ hit \subseteq Workers
        /\ caught \subseteq Workers
        /\ key \in [Keys -> {"available", "leased", "cooling_down", "disabled"}]
        /\ holder \in [Keys -> Workers \cup {None}]
        /\ cancelPc \in [Cancels -> {"idle", "stop", "await", "finish"}]
        /\ cancelJob \in [Cancels -> Jobs \cup {None}]
        /\ faults \in 0..MaxFaults
        /\ workers \in [Jobs -> 0..MaxWorkers]
    BY DEF JobInv, TypeOK
  <2>2. doubtful' \in [Jobs -> SUBSET Units]
    BY <2>1
  <2>3. phase' \in {"up", "down", "recovering"}
    BY <2>1
  <2>4. orphaned' \subseteq Jobs
    BY <2>1
  <2>5. resuming' \subseteq Jobs
    BY <2>1
  <2>6. submit' \in [Jobs -> {"idle", "validate", "units", "queue", "start"}]
    BY <2>1
  <2>7. run' \in [Jobs -> RunPc]
    BY <2>1 DEF RunPc
  <2>8. quitting' \subseteq Jobs
    BY <2>1
  <2>9. tally' \in [Jobs -> [verdict : Verdict, resumed : BOOLEAN]]
    BY <2>1, Constants DEF Verdict
  <2>10. spent' \in [Jobs -> 0..Budget]
    BY <2>1, Constants DEF Exhausted
  <2>11. lane' \in [Workers -> LanePc]
    BY <2>1 DEF LanePc
  <2>12. work' \in [Workers -> Units]
    BY <2>1, Constants, WorkerJob
  <2>13. tries' \in [Workers -> 1..MaxAttempts]
    BY <2>1, Constants
  <2>14. result' \in [Workers -> Result]
    BY <2>1 DEF Result
  <2>15. halted' \subseteq Workers
    BY <2>1
  <2>16. throttled' \subseteq Workers
    BY <2>1
  <2>17. hit' \subseteq Workers
    BY <2>1
  <2>18. caught' \subseteq Workers
    BY <2>1
  <2>19. key' \in [Keys -> {"available", "leased", "cooling_down", "disabled"}]
    BY <2>1
  <2>20. holder' \in [Keys -> Workers \cup {None}]
    BY <2>1
  <2>21. cancelPc' \in [Cancels -> {"idle", "stop", "await", "finish"}]
    BY <2>1
  <2>22. cancelJob' \in [Cancels -> Jobs \cup {None}]
    BY <2>1
  <2>23. faults' \in 0..MaxFaults
    BY <2>1, Constants
  <2>24. late' \in [Jobs -> [Units -> {"none"} \cup UnitTerminal]]
    BY DEF NothingLate
  <2> QED
    BY <2>2, <2>3, <2>4, <2>5, <2>6, <2>7, <2>8, <2>9, <2>10, <2>11, <2>12, <2>13, <2>14, <2>15,
       <2>16, <2>17, <2>18, <2>19, <2>20, <2>21, <2>22, <2>23, <2>24 DEF JobInv, TypeOK
<1>2. Quiescent' /\ Submitting' /\ Cancelled' /\ Supervised'
  BY DEF JobInv, Quiescent, Submitting, Cancelled, Supervised
<1>3. RunningJob' /\ Decided' /\ InHand' /\ Owned'
  BY DEF JobInv, RunningJob, Decided, InHand, Owned, Working
<1>4. Apart' /\ Fresh' /\ Counted' /\ Started'
  BY DEF JobInv, Apart, Working, Fresh, Counted, Started
<1>5. Doubtful' /\ Certain' /\ Held' /\ Blank'
  BY DEF JobInv, Doubtful, Certain, Held, Busy, Blank
<1>6. Draining' /\ Halted'
  BY DEF JobInv, Draining, Halted
<1>7. Leased'
  BY Constants DEF JobInv, Leased, Busy, TypeOK, LanePc
<1>8. Single'
  BY Constants DEF JobInv, Single, TypeOK
<1> QED
  BY <1>1, <1>2, <1>3, <1>4, <1>5, <1>7, <1>8, <1>6 DEF JobInv

LEMMA RecoverKeeps ==
  ASSUME JobInv, Recover
  PROVE  JobInv'
<1> USE DEF Recover, Recoverable,
            store, poolVars, laneVars, runVars, bootVars, requestVars, cancelVars
<1>1. TypeOK'
  BY DEF JobInv, TypeOK
<1>2. Quiescent' /\ Submitting' /\ Cancelled' /\ Supervised'
  BY DEF JobInv, Quiescent, Submitting, Cancelled, Supervised
<1>3. RunningJob' /\ Decided' /\ InHand' /\ Owned'
  BY DEF JobInv, RunningJob, Decided, InHand, Owned, Working
<1>4. Apart' /\ Fresh' /\ Counted' /\ Started'
  BY DEF JobInv, Apart, Working, Fresh, Counted, Started
<1>5. Doubtful' /\ Certain' /\ Leased' /\ Single'
  BY DEF JobInv, Doubtful, Certain, Leased, Busy, LanePc, Single
<1>6. Held' /\ Blank' /\ Draining' /\ Halted'
  BY DEF JobInv, Held, Busy, Blank, Draining, Halted
<1> QED
  BY <1>1, <1>2, <1>3, <1>4, <1>5, <1>6 DEF JobInv

LEMMA ServeKeeps ==
  ASSUME JobInv, Serve
  PROVE  JobInv'
<1> USE DEF Serve,
            store, poolVars, laneVars, runVars, bootVars, requestVars, cancelVars
<1>1. TypeOK'
  BY DEF JobInv, TypeOK
<1>2. Quiescent' /\ Submitting' /\ Cancelled' /\ Supervised'
  BY DEF JobInv, Quiescent, Submitting, Cancelled, Supervised
<1>3. RunningJob' /\ Decided' /\ InHand' /\ Owned'
  BY DEF JobInv, RunningJob, Decided, InHand, Owned, Working
<1>4. Apart' /\ Fresh' /\ Counted' /\ Started'
  BY DEF JobInv, Apart, Working, Fresh, Counted, Started
<1>5. Doubtful' /\ Certain' /\ Leased' /\ Single'
  BY DEF JobInv, Doubtful, Certain, Leased, Busy, LanePc, Single
<1>6. Held' /\ Blank' /\ Draining' /\ Halted'
  BY DEF JobInv, Held, Busy, Blank, Draining, Halted
<1> QED
  BY <1>1, <1>2, <1>3, <1>4, <1>5, <1>6 DEF JobInv

LEMMA ClassifyKeeps ==
  ASSUME JobInv, NEW j \in Jobs, Classify(j)
  PROVE  JobInv'
<1> USE DEF Classify,
            store, poolVars, laneVars, runVars, bootVars, requestVars, cancelVars
<1>1. /\ unit \in [Jobs -> [Units -> UnitState]]
      /\ attempt \in [Jobs -> [Units -> [number : 0..MaxAttempts, state : AttemptState]]]
      /\ doubtful \in [Jobs -> SUBSET Units]
  BY DEF JobInv, TypeOK
<1>2. /\ \A w \in Workers : lane[w] = "idle"
      /\ \A i \in Jobs : submit[i] = "idle"
  BY DEF JobInv, Quiescent
<1>3. \A i \in Jobs : \A u \in Units :
         \/ unit'[i][u] = unit[i][u]
         \/ /\ unit[i][u] = "running" /\ attempt[i][u].state = "none"
            /\ unit'[i][u] = "ready" /\ i = j
  BY <1>1
<1>4. \A i \in Jobs : \A u \in Units :
         \/ attempt'[i][u] = attempt[i][u]
         \/ /\ unit[i][u] = "running" /\ attempt[i][u].state = "running"
            /\ attempt'[i][u] = [attempt[i][u] EXCEPT !.state = "unknown"]
  BY <1>1
<1>5. \A i \in Jobs : \A u \in Units :
         attempt'[i][u] = attempt[i][u] \/ attempt'[i][u].state = "unknown"
  BY <1>1, <1>4
<1>6. attempt' \in [Jobs -> [Units -> [number : 0..MaxAttempts, state : AttemptState]]]
  <2> DEFINE row == [u \in Units |->
                       IF unit[j][u] = "running" /\ attempt[j][u].state = "running"
                         THEN [attempt[j][u] EXCEPT !.state = "unknown"] ELSE attempt[j][u]]
  <2>1. \A u \in Units : row[u] \in [number : 0..MaxAttempts, state : AttemptState]
    <3>1. ASSUME NEW u \in Units
          PROVE  row[u] \in [number : 0..MaxAttempts, state : AttemptState]
      <4>1. attempt[j][u] \in [number : 0..MaxAttempts, state : AttemptState]
        BY <1>1
      <4>2. [attempt[j][u] EXCEPT !.state = "unknown"] \in [number : 0..MaxAttempts, state : AttemptState]
        BY <4>1 DEF AttemptState
      <4> QED
        BY <4>1, <4>2
    <3> QED
      BY <3>1
  <2>2. row \in [Units -> [number : 0..MaxAttempts, state : AttemptState]]
    BY <2>1
  <2>3. attempt' = [attempt EXCEPT ![j] = row]
    OBVIOUS
  <2> HIDE DEF row, Classify
  <2> QED
    BY <1>1, <2>2, <2>3
<1>7. doubtful' = doubtful /\ lane' = lane /\ job' = job /\ run' = run /\ submit' = submit
  OBVIOUS
<1> HIDE DEF Classify
<1>8. Submitting'
  BY <1>2, <1>7, <1>3 DEF JobInv, Submitting
<1>9. Owned'
  BY <1>2, <1>7 DEF Owned, Working
<1>10. Fresh'
  <2>1. ASSUME NEW i \in Jobs, NEW u \in Units, unit'[i][u] \in {"absent", "ready"}
        PROVE  attempt'[i][u] = NoAttempt /\ u \notin doubtful[i]
    <3>1. CASE unit'[i][u] = unit[i][u]
      BY <1>4, <2>1, <3>1 DEF JobInv, Fresh
    <3>2. CASE unit[i][u] = "running" /\ attempt[i][u].state = "none"
      <4>1. u \notin doubtful[i]
        BY <3>2 DEF JobInv, Doubtful
      <4>2. attempt'[i][u] = attempt[i][u]
        BY <1>4, <3>2
      <4> QED
        BY <3>2, <4>1, <4>2 DEF JobInv, Blank
    <3> QED
      BY <1>3, <3>1, <3>2
  <2> QED
    BY <1>7, <2>1 DEF Fresh
<1>11. Counted'
  BY <1>2, <1>7 DEF Counted, Working
<1>12. Started'
  BY <1>2, <1>7 DEF Started
<1>13. Doubtful'
  <2>1. \A i \in Jobs : \A u \in Units : attempt[i][u].state # "none" => attempt'[i][u].state # "none"
    BY <1>5
  <2> QED
    BY <1>1, <1>7, <2>1 DEF JobInv, Doubtful
<1>14. Blank'
  BY <1>5 DEF JobInv, Blank
<1>15. TypeOK'
  <2>1. /\ unit \in [Jobs -> [Units -> UnitState]]
        /\ orphaned \subseteq Jobs
        /\ work \in [Workers -> Units]
        /\ result \in [Workers -> Result]
    BY DEF JobInv, TypeOK
  <2>2. unit' \in [Jobs -> [Units -> UnitState]]
    BY <2>1 DEF UnitState, UnitTerminal, Classify
  <2>3. orphaned' \subseteq Jobs
    BY <2>1 DEF Classify
  <2> QED
    BY <1>6, <2>2, <2>3 DEF JobInv, TypeOK, Classify
<1>16. Quiescent' /\ Cancelled' /\ Supervised' /\ RunningJob'
  BY DEF JobInv, Quiescent, Cancelled, Supervised, RunningJob, Classify
<1>17. Decided' /\ InHand' /\ Apart' /\ Certain'
  BY DEF JobInv, Decided, InHand, Apart, Working, Certain, Classify
<1>18. Leased' /\ Single' /\ Held' /\ Draining'
  BY DEF JobInv, Leased, Busy, LanePc, Single, Held, Draining, Classify
<1>19. Halted'
  BY DEF JobInv, Halted, Classify
<1> QED
  BY <1>15, <1>16, <1>8, <1>17, <1>9, <1>10, <1>11, <1>12, <1>13, <1>18, <1>14, <1>19 DEF
     JobInv

LEMMA ResumeKeeps ==
  ASSUME JobInv, NEW j \in Jobs, Resume(j)
  PROVE  JobInv'
<1> USE DEF Resume, StartRunner, Recoverable,
            store, poolVars, laneVars, runVars, bootVars, requestVars, cancelVars
<1>1. TypeOK'
  <2>1. /\ resuming \subseteq Jobs
        /\ run \in [Jobs -> RunPc]
        /\ quitting \subseteq Jobs
    BY DEF JobInv, TypeOK
  <2>2. resuming' \subseteq Jobs
    BY <2>1
  <2>3. run' \in [Jobs -> RunPc]
    BY <2>1 DEF RunPc
  <2>4. quitting' \subseteq Jobs
    BY <2>1
  <2> QED
    BY <2>2, <2>3, <2>4 DEF JobInv, TypeOK
<1>2. Cancelled' /\ InHand' /\ Owned' /\ Apart'
  BY DEF JobInv, Cancelled, InHand, Owned, Working, Apart
<1>3. Fresh' /\ Counted' /\ Started' /\ Doubtful'
  BY DEF JobInv, Fresh, Counted, Working, Started, Doubtful
<1>4. Certain' /\ Leased' /\ Single' /\ Held'
  BY DEF JobInv, Certain, Leased, Busy, LanePc, Single, Held
<1>5. Quiescent'
  BY DEF JobInv, Quiescent, TypeOK, Supervised, Submitting, Cancelled
<1>6. Submitting'
  BY WorkerJob DEF JobInv, Submitting, TypeOK, Terminal
<1>7. Supervised'
  BY WorkerJob DEF JobInv, Supervised, TypeOK
<1>8. RunningJob'
  BY DEF JobInv, RunningJob, TypeOK, Terminal
<1>9. Decided'
  BY DEF JobInv, Decided, TypeOK
<1>10. Blank'
  BY DEF JobInv, Blank
<1>11. Draining'
  BY DEF JobInv, Draining, TypeOK
<1>12. Halted'
  BY DEF JobInv, Halted
<1> QED
  BY <1>1, <1>5, <1>6, <1>2, <1>7, <1>8, <1>9, <1>3, <1>4, <1>10, <1>11,
     <1>12 DEF JobInv

-----------------------------------------------------------------------------
\* An outcome lands late: the unit is settled, and no lane is at work on it.

LEMMA LandKeeps ==
  ASSUME JobInv, LateOwn, NEW j \in Jobs, NEW u \in Units, Land(j, u)
  PROVE  JobInv'
<1> USE DEF Land, store, poolVars, laneVars, runVars, bootVars, requestVars, cancelVars
<1>1. /\ unit \in [Jobs -> [Units -> UnitState]]
      /\ late \in [Jobs -> [Units -> {"none"} \cup UnitTerminal]]
  BY DEF JobInv, TypeOK
<1>2. late[j][u] \in UnitTerminal
  BY <1>1
<1>3. /\ \A i \in Jobs : \A v \in Units : <<i, v>> # <<j, u>> => unit'[i][v] = unit[i][v]
      /\ unit'[j][u] = unit[j][u] \/ (unit[j][u] = "running" /\ unit'[j][u] \in UnitTerminal)
  <2> DEFINE s == IF unit[j][u] = "running" THEN late[j][u] ELSE unit[j][u]
  <2>1. /\ unit' = [unit EXCEPT ![j][u] = s]
        /\ s = unit[j][u] \/ (unit[j][u] = "running" /\ s = late[j][u])
    OBVIOUS
  <2> HIDE DEF Land, s
  <2>2. unit'[j][u] = s
    BY <1>1, <2>1
  <2>3. \A i \in Jobs : \A v \in Units : <<i, v>> # <<j, u>> => unit'[i][v] = unit[i][v]
    BY <1>1, <2>1
  <2> QED
    BY <1>2, <2>1, <2>2, <2>3
<1>4. unit' \in [Jobs -> [Units -> UnitState]]
  <2>1. (IF unit[j][u] = "running" THEN late[j][u] ELSE unit[j][u]) \in UnitState
    BY <1>1, <1>2 DEF UnitState
  <2> QED
    BY <1>1, <2>1
<1>5. late' \in [Jobs -> [Units -> {"none"} \cup UnitTerminal]]
  BY <1>1
<1>6. \A w \in Workers : lane[w] \in Working => <<w[1], work[w]>> # <<j, u>>
  BY DEF LateOwn
<1> HIDE DEF Land
<1>7. TypeOK'
  BY <1>4, <1>5 DEF JobInv, TypeOK, Land
<1>8. Owned'
  <2>1. lane' = lane /\ work' = work
    BY DEF Land
  <2>2. \A w \in Workers : w[1] \in Jobs /\ work[w] \in Units
    BY WorkerJob DEF JobInv, TypeOK
  <2> QED
    BY <1>3, <1>6, <2>1, <2>2 DEF JobInv, Owned
<1>9. Submitting'
  <2>1. job' = job /\ run' = run /\ submit' = submit
    BY DEF Land
  <2> QED
    BY <1>3, <2>1 DEF JobInv, Submitting
<1>10. Fresh'
  <2>1. attempt' = attempt /\ doubtful' = doubtful
    BY DEF Land
  <2> QED
    BY <1>3, <2>1 DEF JobInv, Fresh, UnitTerminal
<1>11. Quiescent' /\ Cancelled' /\ Supervised' /\ RunningJob'
  BY DEF JobInv, Quiescent, Cancelled, Supervised, RunningJob, Land
<1>12. Decided' /\ InHand' /\ Apart' /\ Counted'
  BY DEF JobInv, Decided, InHand, Apart, Working, Counted, Land
<1>13. Started' /\ Doubtful' /\ Certain' /\ Leased'
  BY DEF JobInv, Started, Doubtful, Certain, Leased, Busy, LanePc, Land
<1>14. Single' /\ Held' /\ Blank' /\ Draining' /\ Halted'
  BY DEF JobInv, Single, Held, Busy, LanePc, Blank, Draining, Halted, Land
<1> QED
  BY <1>7, <1>8, <1>9, <1>10, <1>11, <1>12, <1>13, <1>14 DEF JobInv

\* What a step must leave alone for an outcome on its way to stay one: a lane
\* works on the unit it had or on one that was ready, and no unit is given back.
LEMMA LateFrame ==
  ASSUME LateOwn, late' = late,
         (phase' = "down" \/ orphaned' # {}) => (phase = "down" \/ orphaned # {}),
         \A j \in Jobs : \A u \in Units :
            late[j][u] # "none" /\ Taken(j, u) => unit'[j][u] \in {"running"} \cup UnitTerminal,
         \A w \in Workers : lane'[w] \in Working =>
            \/ lane[w] \in Working /\ work'[w] = work[w]
            \/ unit[w[1]][work'[w]] = "ready"
  PROVE  LateOwn'
<1>1. \A j \in Jobs : \A u \in Units : late[j][u] # "none" =>
         \A w \in Workers : w[1] = j /\ lane'[w] \in Working => work'[w] # u
  BY DEF LateOwn, Taken, UnitTerminal
<1>2. \A j \in Jobs : \A u \in Units : late'[j][u] # "none" => Taken(j, u)'
  BY DEF LateOwn, Taken
<1>3. phase' = "down" \/ orphaned' # {} => late' = NothingLate'
  BY DEF LateOwn, NothingLate
<1> QED
  BY <1>1, <1>2, <1>3 DEF LateOwn

\* The requests' and the runners' steps leave the lanes' units alone.
LEMMA LateOthers ==
  ASSUME JobInv, LateOwn,
         \/ \E j \in Jobs : Submit(j) \/ SubmitStep(j) \/ RunStep(j)
         \/ \E c \in Cancels : CancelStep(c) \/ \E j \in Jobs : RequestCancel(c, j)
         \/ \E k \in Keys : Recovered(k)
         \/ Recover \/ Serve \/ \E j \in Jobs : Resume(j)
         \/ UNCHANGED vars
  PROVE  LateOwn'
<1> USE DEF store, poolVars, laneVars, runVars, bootVars, requestVars, cancelVars
<1>1. /\ unit \in [Jobs -> [Units -> UnitState]]
      /\ lane \in [Workers -> LanePc]
  BY DEF JobInv, TypeOK
<1>2. CASE \E j \in Jobs : AddUnits(j)
  <2>1. PICK j \in Jobs : AddUnits(j)
    BY <1>2
  <2>2. \A u \in Units : ~Taken(j, u)
    BY <2>1 DEF AddUnits, JobInv, Submitting, Taken, UnitTerminal
  <2>3. \A i \in Jobs \ {j} : unit'[i] = unit[i]
    BY <1>1, <2>1 DEF AddUnits
  <2>4. UNCHANGED <<late, phase, orphaned, lane, work>>
    BY <2>1 DEF AddUnits
  <2> QED
    BY <2>2, <2>3, <2>4, LateFrame DEF Taken
<1>3. CASE \E j \in Jobs : RunStep(j)
  <2>1. UNCHANGED <<late, phase, orphaned, unit, work>>
    BY <1>3 DEF RunStep, Begin, Plan, PlanFails, UnplannedEnd, Unplanned, Fault, Ready, Promote,
       Join, Drained, Outcomes, OutcomesFail, Check, Collect, Report, Verify, Finish, Raised,
       CancelReport, CancelEnd
  <2>2. lane' = lane \/ \E j \in Jobs : Launch(j)
    BY <1>3 DEF RunStep, Begin, Plan, PlanFails, UnplannedEnd, Unplanned, Ready, Promote, Join,
       Drained, Outcomes, OutcomesFail, Check, Collect, Report, Verify, Finish, Raised,
       CancelReport, CancelEnd
  <2>3. \A w \in Workers : lane'[w] \in {lane[w], "lease"}
    BY <2>2 DEF Launch
  <2> QED
    BY <2>1, <2>3, LateFrame DEF Working, Taken
<1>4. CASE \/ \E j \in Jobs : Submit(j) \/ Validate(j) \/ Queue(j) \/ Schedule(j) \/ Resume(j)
           \/ \E c \in Cancels : CancelStep(c) \/ \E j \in Jobs : RequestCancel(c, j)
           \/ \E k \in Keys : Recovered(k)
           \/ Serve \/ UNCHANGED vars
  <2>1. UNCHANGED <<late, orphaned, unit, work, lane>> /\ (phase' = "down" => phase = "down")
    BY <1>4 DEF Submit, Validate, Queue, Schedule, Resume, CancelStep, Stop, Await, CancelFinish,
       RequestCancel, Recovered, Serve, vars
  <2> QED
    BY <2>1, LateFrame DEF Taken
<1>5. CASE Recover
  <2>1. UNCHANGED <<late, unit, work, lane>> /\ phase = "down"
    BY <1>5 DEF Recover
  <2> QED
    BY <2>1, LateFrame DEF Taken
<1> QED
  BY <1>2, <1>3, <1>4, <1>5 DEF SubmitStep

\* A lane takes a unit that is ready, works on it, and leaves it settled, or
\* leaves its outcome to land.
LEMMA LateLanes ==
  ASSUME JobInv, LateOwn, NEW w \in Workers, LaneStep(w) \/ InterruptStep(w)
  PROVE  LateOwn'
<1> USE DEF laneFrame, bootVars
<1>1. /\ unit \in [Jobs -> [Units -> UnitState]]
      /\ lane \in [Workers -> LanePc]
      /\ work \in [Workers -> Units]
      /\ late \in [Jobs -> [Units -> {"none"} \cup UnitTerminal]]
      /\ w[1] \in Jobs /\ work[w] \in Units
  BY WorkerJob DEF JobInv, TypeOK
<1>2. UNCHANGED <<phase, orphaned>>
  BY DEF LaneStep, InterruptStep, Lease, LaneCheck, Claim, Try, Start, Call, Judge, Settle,
     Confirm, Backoff, Complete, Release, InterruptOutside, InterruptClaim, InterruptStart,
     InterruptCall, InterruptUnit, InterruptComplete
<1>3. \E pc : lane' = [lane EXCEPT ![w] = pc]
  BY DEF LaneStep, InterruptStep, Lease, LaneCheck, Claim, Try, Start, Call, Judge, Settle,
     Confirm, Backoff, Complete, Release, InterruptOutside, InterruptClaim, InterruptStart,
     InterruptCall, InterruptUnit, InterruptComplete, CancelsUnit, Go
<1>4. \A v \in Workers \ {w} : lane'[v] = lane[v]
  BY <1>3
\* It takes a unit that is ready.
<1>5. CASE Claim(w) \/ InterruptClaim(w)
  <2>1. late' = late
    BY <1>5 DEF Claim, InterruptClaim
  <2>2. CASE lane' = [lane EXCEPT ![w] = "release"] /\ unit' = unit /\ work' = work
    BY <1>1, <1>2, <1>4, <2>1, <2>2, LateFrame DEF Working, Taken
  <2>3. ASSUME NEW u \in Units, unit[w[1]][u] = "ready",
               unit' = [unit EXCEPT ![w[1]][u] = "running"], work' = [work EXCEPT ![w] = u]
        PROVE  LateOwn'
    <3>1. \A j \in Jobs : \A v \in Units :
             Taken(j, v) => unit'[j][v] \in {"running"} \cup UnitTerminal
      BY <1>1, <2>3 DEF Taken
    <3>2. \A v \in Workers : lane'[v] \in Working =>
             \/ lane[v] \in Working /\ work'[v] = work[v]
             \/ unit[v[1]][work'[v]] = "ready"
      BY <1>1, <1>4, <2>3
    <3> QED
      BY <1>2, <2>1, <3>1, <3>2, LateFrame
  <2> QED
    BY <1>5, <2>2, <2>3 DEF Claim, InterruptClaim, Claimable, Take, Go
\* It works on the unit it has.
<1>6. CASE ~(Claim(w) \/ InterruptClaim(w) \/ Complete(w) \/ InterruptComplete(w))
  <2>1. UNCHANGED <<late, unit, work>>
    BY <1>6 DEF LaneStep, InterruptStep, Lease, LaneCheck, Try, Start, Call, Judge, Settle,
       Confirm, Backoff, Release, InterruptOutside, InterruptStart, InterruptCall, InterruptUnit
  <2>2. lane[w] \in Working \/ lane'[w] \notin Working
    BY <1>1, <1>6 DEF LaneStep, InterruptStep, Lease, LaneCheck, Try, Start, Call, Judge, Settle,
       Confirm, Backoff, Release, InterruptOutside, InterruptStart, InterruptCall, InterruptUnit,
       Interrupting, At, Go, NextUnit, Working
  <2> QED
    BY <1>2, <1>4, <2>1, <2>2, LateFrame DEF Taken
\* It is done with it.
<1>7. CASE Complete(w) \/ InterruptComplete(w)
  <2>1. lane[w] = "complete" /\ result[w] \in UnitTerminal /\ unit[w[1]][work[w]] = "running"
    BY <1>7 DEF Complete, InterruptComplete, At, Interrupting, JobInv, InHand, Owned, Working
  <2>2. lane'[w] \notin Working
    BY <1>1, <1>7 DEF Complete, InterruptComplete, Go, NextUnit, Working
  <2>3. work' = [work EXCEPT ![w] = 0]
    BY <1>7 DEF Complete, InterruptComplete, DropsUnit
  <2>4. \A v \in Workers : lane'[v] \in Working =>
           v # w /\ lane[v] \in Working /\ work'[v] = work[v]
    BY <1>1, <1>4, <2>2, <2>3
  <2>5. unit' = unit \/ unit' = [unit EXCEPT ![w[1]][work[w]] = result[w]]
    BY <1>7 DEF Complete, InterruptComplete, Record
  <2>6. \A j \in Jobs : \A v \in Units :
           Taken(j, v) => unit'[j][v] \in {"running"} \cup UnitTerminal
    BY <1>1, <2>1, <2>5 DEF Taken
  <2>7. CASE late' = late
    BY <1>2, <2>4, <2>6, <2>7, LateFrame
  <2>8. CASE late' = [late EXCEPT ![w[1]][work[w]] = result[w]]
    <3>1. phase # "down" /\ orphaned = {}
      BY <2>1 DEF JobInv, Quiescent
    <3>2. \A j \in Jobs : \A u \in Units : late'[j][u] # "none" =>
             late[j][u] # "none" \/ (j = w[1] /\ u = work[w])
      BY <1>1, <2>8
    <3>3. \A j \in Jobs : \A u \in Units : late'[j][u] # "none" => Taken(j, u)
      BY <2>1, <3>2 DEF LateOwn, Taken
    <3>4. \A v \in Workers : lane'[v] \in Working /\ v[1] = w[1] => work'[v] # work[w]
      BY <2>1, <2>4 DEF JobInv, Apart, Working
    <3>5. \A j \in Jobs : \A u \in Units : late'[j][u] # "none" =>
             \A v \in Workers : v[1] = j /\ lane'[v] \in Working => work'[v] # u
      BY <2>4, <3>2, <3>4 DEF LateOwn
    <3>6. \A j \in Jobs : \A u \in Units : late'[j][u] # "none" => Taken(j, u)'
      BY <2>6, <3>3 DEF Taken
    <3> QED
      BY <1>2, <3>1, <3>5, <3>6 DEF LateOwn
  <2> QED
    BY <1>7, <2>7, <2>8 DEF Complete, InterruptComplete
<1> QED
  BY <1>5, <1>6, <1>7

\* A process that died leaves nothing to land, and what lands is gone.
LEMMA LateEnds ==
  ASSUME JobInv, LateOwn,
         \/ Crash \/ \E j \in Jobs : Classify(j)
         \/ \E j \in Jobs, u \in Units : Land(j, u)
  PROVE  LateOwn'
<1> USE DEF bootVars
<1>1. CASE Crash \/ \E j \in Jobs : Classify(j)
  <2>1. late' = NothingLate
    BY <1>1 DEF Crash, Classify, LateOwn
  <2> QED
    BY <2>1 DEF LateOwn, NothingLate
<1>2. CASE \E j \in Jobs, u \in Units : Land(j, u)
  <2>1. PICK j \in Jobs, u \in Units : Land(j, u)
    BY <1>2
  <2>2. /\ unit \in [Jobs -> [Units -> UnitState]]
        /\ late \in [Jobs -> [Units -> {"none"} \cup UnitTerminal]]
    BY DEF JobInv, TypeOK
  <2>3. \A i \in Jobs : \A v \in Units : late'[i][v] # "none" => late[i][v] # "none"
    BY <2>1, <2>2 DEF Land
  <2>4. \A i \in Jobs : \A v \in Units : Taken(i, v) => Taken(i, v)'
    BY <2>1, <2>2 DEF Land, Taken
  <2>5. UNCHANGED <<lane, work, phase, orphaned>> /\ late # NothingLate
    BY <2>1 DEF Land, laneVars, NothingLate
  <2> QED
    BY <2>3, <2>4, <2>5 DEF LateOwn
<1> QED
  BY <1>1, <1>2

-----------------------------------------------------------------------------

LEMMA InitHolds == Init => JobInv /\ LateOwn
<1> SUFFICES ASSUME Init PROVE JobInv /\ LateOwn
  OBVIOUS
<1>1. TypeOK
  BY Constants DEF Init, TypeOK, JobState, UnitState, AttemptState, NoAttempt, NoTally,
     NothingLate, Verdict, RunPc, LanePc, Result
<1>2. Quiescent /\ Submitting /\ Cancelled /\ Supervised /\ RunningJob /\ Draining /\ Decided
  BY WorkerJob DEF Init, Quiescent, Submitting, Cancelled, Supervised, RunningJob, Draining,
     Decided
<1>3. InHand /\ Owned /\ Apart /\ Counted /\ Started /\ Certain /\ Held /\ Halted
  BY DEF Init, InHand, Owned, Apart, Counted, Started, Certain, Held, Halted, Working, Busy
<1>4. Fresh /\ Blank /\ Doubtful /\ Leased /\ Single
  BY Constants DEF Init, Fresh, Blank, Doubtful, Leased, Single, NoAttempt
<1>5. LateOwn
  BY DEF Init, LateOwn, NothingLate
<1> QED
  BY <1>1, <1>2, <1>3, <1>4, <1>5 DEF JobInv

LEMMA StutterKeeps ==
  ASSUME JobInv, UNCHANGED vars
  PROVE  JobInv'
<1> USE DEF JobInv, vars, store, poolVars, laneVars, runVars, bootVars, requestVars, cancelVars
<1>1. TypeOK'
  BY DEF TypeOK
<1>2. Quiescent' /\ Submitting' /\ Cancelled' /\ Supervised' /\ RunningJob' /\ Draining' /\ Decided'
  BY DEF Quiescent, Submitting, Cancelled, Supervised, RunningJob, Draining, Decided
<1>3. InHand' /\ Owned' /\ Apart' /\ Counted' /\ Started' /\ Certain' /\ Held' /\ Halted'
  BY DEF InHand, Owned, Apart, Counted, Started, Certain, Held, Halted
<1>4. Fresh' /\ Blank' /\ Doubtful' /\ Leased' /\ Single'
  BY DEF Fresh, Blank, Doubtful, Leased, Single
<1> QED
  BY <1>1, <1>2, <1>3, <1>4

\* The invariant is inductive, together with what it takes for late outcomes.
THEOREM Invariance == Spec => [](JobInv /\ LateOwn)
<1>1. JobInv /\ LateOwn /\ [Next]_vars => JobInv'
  <2> SUFFICES ASSUME JobInv, LateOwn, [Next]_vars
               PROVE  JobInv'
    OBVIOUS
  <2>1. CASE UNCHANGED vars
    BY <2>1, StutterKeeps
  <2>2. ASSUME NEW j \in Jobs, Submit(j) \/ SubmitStep(j)
        PROVE  JobInv'
    BY <2>2, SubmitKeeps, ValidateKeeps, AddUnitsKeeps, QueueKeeps, ScheduleKeeps DEF SubmitStep
  <2>3. ASSUME NEW j \in Jobs, RunStep(j)
        PROVE  JobInv'
    BY <2>3, BeginKeeps, PlanKeeps, PlanFailsKeeps, UnplannedEndKeeps, ReadyKeeps, PromoteKeeps,
       JoinKeeps, DrainedKeeps, OutcomesKeeps, OutcomesFailKeeps, CheckKeeps, CollectKeeps,
       ReportKeeps, VerifyKeeps, FinishKeeps, RaisedKeeps, CancelReportKeeps, CancelEndKeeps
       DEF RunStep
  <2>4. ASSUME NEW w \in Workers, LaneStep(w)
        PROVE  JobInv'
    BY <2>4, LeaseKeeps, LaneCheckKeeps, ClaimKeeps, TryKeeps, StartKeeps, CallKeeps,
       JudgeKeeps,
       SettleKeeps, ConfirmKeeps, BackoffKeeps, CompleteKeeps, ReleaseKeeps DEF LaneStep
  <2>5. ASSUME NEW w \in Workers, InterruptStep(w)
        PROVE  JobInv'
    BY <2>5, InterruptOutsideKeeps, InterruptClaimKeeps, InterruptStartKeeps,
       InterruptCallKeeps, InterruptUnitKeeps, InterruptCompleteKeeps DEF InterruptStep
  <2>6. ASSUME NEW c \in Cancels, CancelStep(c) \/ \E j \in Jobs : RequestCancel(c, j)
        PROVE  JobInv'
    BY <2>6, StopKeeps, AwaitKeeps, CancelFinishKeeps, RequestCancelKeeps DEF CancelStep
  <2>7. ASSUME NEW k \in Keys, Recovered(k)
        PROVE  JobInv'
    BY <2>7, RecoveredKeeps
  <2>8. CASE Crash \/ RecoveryStep
    BY <2>8, CrashKeeps, RecoverKeeps, ServeKeeps, ClassifyKeeps, ResumeKeeps DEF RecoveryStep
  <2>9. CASE \E j \in Jobs, u \in Units : Land(j, u)
    BY <2>9, LandKeeps
  <2> QED
    BY <2>1, <2>2, <2>3, <2>4, <2>5, <2>6, <2>7, <2>8, <2>9 DEF Next
<1>2. JobInv /\ LateOwn /\ [Next]_vars => LateOwn'
  BY LateOthers, LateLanes, LateEnds DEF Next, RecoveryStep
<1> QED
  BY <1>1, <1>2, InitHolds, PTL DEF Spec

\* Every reachable state is well typed; no unit has more attempts than its
\* request allows and no run reserves more than its budget.
THEOREM TypeCorrect == Spec => []TypeOK
<1>1. JobInv => TypeOK
  BY DEF JobInv
<1> QED
  BY <1>1, Invariance, PTL

\* One key, one lane: whatever cools down, is disabled, released or recovered,
\* a lane calls the provider under exactly one key, which nobody else holds.
THEOREM LeasesCorrect == Spec => []LeaseExclusive
<1>1. JobInv => LeaseExclusive
  <2> SUFFICES ASSUME JobInv
               PROVE  LeaseExclusive
    OBVIOUS
  <2>1. ASSUME NEW w \in Workers, lane[w] = "call"
        PROVE  \E k \in Keys : {l \in Keys : holder[l] = w} = {k}
    <3>1. w \notin halted /\ lane[w] \in Busy
      BY <2>1 DEF JobInv, Halted, Busy, LanePc
    <3>2. PICK k \in Keys : holder[k] = w
      BY <3>1 DEF JobInv, Held
    <3>3. \A l \in Keys : holder[l] = w => l = k
      BY <3>2 DEF JobInv, Single
    <3> QED
      BY <3>2, <3>3
  <2> QED
    BY <2>1 DEF JobInv, Leased, LeaseExclusive
<1> QED
  BY <1>1, Invariance, PTL

\* Two lanes never work on the same unit, and no unit is given back or settled
\* behind the lane that works on it, under any interruption, crash and restart.
THEOREM UnitsCorrect == Spec => []UnitsOwned
<1>1. JobInv => UnitsOwned
  BY DEF JobInv, Owned, Apart, UnitsOwned, Unit
<1> QED
  BY <1>1, Invariance, PTL

\* No lane of a job that has ended still runs.
THEOREM QuietCorrect == Spec => []TerminalQuiet
<1>1. JobInv => TerminalQuiet
  BY WorkerJob DEF JobInv, Supervised, RunningJob, TerminalQuiet, Terminal
<1> QED
  BY <1>1, Invariance, PTL

\* A unit in doubt is never attempted again: not by a retry, a second lane or a
\* restart.
THEOREM ReplayCorrect == Spec => NoReplay
<1> DEFINE Kept == \A j \in Jobs : \A u \in doubtful[j] : attempt'[j][u].number = attempt[j][u].number
<1>1. attempt' = attempt => Kept
  OBVIOUS
<1>2. ASSUME JobInv, NEW w \in Workers, lane[w] = "start", NewAttempt(w)
      PROVE  Kept
  <2>1. w[1] \in Jobs /\ work[w] \in Units /\ work[w] \notin doubtful[w[1]]
    BY <1>2, WorkerJob DEF JobInv, TypeOK, Certain
  <2>2. ASSUME NEW j \in Jobs, NEW u \in doubtful[j]
        PROVE  attempt'[j][u] = attempt[j][u]
    <3>1. /\ u \in Units
          /\ attempt \in [Jobs -> [Units -> [number : 0..MaxAttempts, state : AttemptState]]]
      BY <1>2 DEF JobInv, TypeOK
    <3>2. attempt' = [attempt EXCEPT ![w[1]][work[w]] =
                        [number |-> @.number + 1, state |-> "running"]]
      BY <1>2 DEF NewAttempt
    <3>3. <<j, u>> # <<w[1], work[w]>>
      BY <2>1, <2>2
    <3> QED
      BY <2>1, <3>1, <3>2, <3>3
  <2> QED
    BY <2>2
<1>3. ASSUME JobInv, NEW w \in Workers, FinishAttempt(w)
      PROVE  Kept
  <2>1. w[1] \in Jobs /\ work[w] \in Units
    BY <1>3, WorkerJob DEF JobInv, TypeOK
  <2>2. ASSUME NEW j \in Jobs, NEW u \in Units
        PROVE  attempt'[j][u].number = attempt[j][u].number
    BY <1>3, <2>1 DEF JobInv, TypeOK, FinishAttempt
  <2> QED
    BY <1>3, <2>2 DEF JobInv, TypeOK
<1>4. ASSUME JobInv, NEW j \in Jobs, Classify(j)
      PROVE  Kept
  <2>1. ASSUME NEW i \in Jobs, NEW u \in Units
        PROVE  attempt'[i][u].number = attempt[i][u].number
    BY <1>4 DEF JobInv, TypeOK, Classify
  <2> QED
    BY <1>4, <2>1 DEF JobInv, TypeOK
<1>5. JobInv /\ [Next]_vars => [Kept]_vars
  <2> SUFFICES ASSUME JobInv, Next
               PROVE  Kept
    OBVIOUS
  <2> HIDE DEF Kept
  <2>1. ASSUME NEW j \in Jobs, Submit(j) \/ SubmitStep(j)
        PROVE  Kept
    BY <1>1, <2>1 DEF SubmitStep, Submit, Validate, AddUnits, Queue, Schedule, store
  <2>2. ASSUME NEW j \in Jobs, RunStep(j)
        PROVE  Kept
    BY <1>1, <2>2 DEF RunStep, Begin, Plan, PlanFails, UnplannedEnd, Ready, Promote, Join,
       Drained,
       Outcomes, OutcomesFail, Check, Collect, Report, Verify, Finish, Raised, CancelReport,
       CancelEnd, store
  <2>3. ASSUME NEW w \in Workers, LaneStep(w)
        PROVE  Kept
    <3>1. \/ attempt' = attempt
          \/ lane[w] = "start" /\ NewAttempt(w)
          \/ FinishAttempt(w)
      BY <2>3 DEF LaneStep, Lease, LaneCheck, Claim, Try, Start, Call, Judge, Settle, Confirm,
         Backoff, Complete, Release, At
    <3> QED
      BY <1>1, <1>2, <1>3, <3>1
  <2>4. ASSUME NEW w \in Workers, InterruptStep(w)
        PROVE  Kept
    <3>1. \/ attempt' = attempt
          \/ lane[w] = "start" /\ NewAttempt(w)
          \/ FinishAttempt(w)
      BY <2>4 DEF InterruptStep, InterruptOutside, InterruptClaim, InterruptStart,
         InterruptCall,
         InterruptUnit, InterruptComplete, Interrupting
    <3> QED
      BY <1>1, <1>2, <1>3, <3>1
  <2>5. ASSUME NEW c \in Cancels, CancelStep(c) \/ \E j \in Jobs : RequestCancel(c, j)
        PROVE  Kept
    BY <1>1, <2>5 DEF CancelStep, Stop, Await, CancelFinish, RequestCancel, store
  <2>6. ASSUME NEW k \in Keys, Recovered(k)
        PROVE  Kept
    BY <1>1, <2>6 DEF Recovered, store
  <2>7. CASE Crash \/ RecoveryStep
    BY <1>1, <1>4, <2>7 DEF RecoveryStep, Crash, Recover, Serve, Resume, store
  <2>8. CASE \E j \in Jobs, u \in Units : Land(j, u)
    BY <1>1, <2>8 DEF Land
  <2> QED
    BY <2>1, <2>2, <2>3, <2>4, <2>5, <2>6, <2>7, <2>8 DEF Next
<1> QED
  BY <1>5, Invariance, PTL DEF Spec, NoReplay
=============================================================================
