------------------------- MODULE JobLifecycleProofs -------------------------
(***************************************************************************)
(* Evaluation jobs behave as JobLifecycle says, for any number of jobs,    *)
(* units, lanes, credentials, requests and faults.  To the invariant of    *)
(* EvaluationJobsProofs this adds what a runner knows of its job: it has   *)
(* not ended (Live), the manifest its verdict needs has been written       *)
(* (Reported), the units still say what the verdict says (Earned), and a   *)
(* job whose runner is about to be stopped can only end as cancelled       *)
(* (Requested), as can one whose lanes were told to stop or have left an   *)
(* outcome that is still to land (Stopped).                                *)
(***************************************************************************)
EXTENDS EvaluationJobsProofs

Live ==
    \A j \in Jobs : run[j] \notin {"idle", "begin"} => job[j] \notin Terminal \cup {"absent"}
Reported ==
    \A j \in Jobs :
        /\ run[j] = "cancel_end" => manifest[j] \in {"report", "cancelled"}
        /\ run[j] \in {"verify", "finish"} /\ tally[j].verdict # "failed" => manifest[j] = "report"
Judging == {"check", "collect", "report", "verify", "finish"}
Earned ==
    \A j \in Jobs : run[j] \in Judging =>
        /\ tally[j].verdict = "succeeded" => \A u \in Units : unit[j][u] = "succeeded"
        /\ tally[j].verdict = "partially_succeeded" => \E u \in Units : unit[j][u] = "succeeded"

Ending == {"cancellation_requested", "cancelled"}
Requested == \A c \in Cancels : cancelPc[c] = "stop" => job[cancelJob[c]] \in Ending

Stopped ==
    /\ \A w \in hit : job[w[1]] \in Ending
    /\ \A j \in Jobs : \A u \in Units : late[j][u] # "none" => job[j] \in Ending

RunInv == JobInv /\ LateOwn /\ Live /\ Reported /\ Earned /\ Requested /\ Stopped

\* What the abstract specification sees.
Stages == [j \in Jobs |-> StageOf(job[j])]
Settled == [j \in Jobs |-> [u \in Units |-> DoneOf(unit[j][u])]]
Kept == [Lifecycle!Next]_<<Stages, Settled, manifest>>

-----------------------------------------------------------------------------
\* What the steps leave alone.

LEMMA Stores ==
  ASSUME JobInv
  PROVE  /\ job \in [Jobs -> JobState]
         /\ unit \in [Jobs -> [Units -> UnitState]]
         /\ manifest \in [Jobs -> {"none", "report", "failed", "cancelled"}]
         /\ run \in [Jobs -> RunPc]
         /\ tally \in [Jobs -> [verdict : Verdict, resumed : BOOLEAN]]
  BY DEF JobInv, TypeOK

\* A lane writes units, of the job whose runner waits for it: it takes one that
\* is ready or settles the one it works on.
LaneWrites(w) ==
    \/ unit' = unit
    \/ /\ run[w[1]] \in {"lanes", "drain"}
       /\ \/ \E u \in Units : /\ unit[w[1]][u] = "ready"
                              /\ unit' = [unit EXCEPT ![w[1]][u] = "running"]
          \/ \E u \in Units, s \in UnitTerminal :
                /\ unit[w[1]][u] = "running"
                /\ unit' = [unit EXCEPT ![w[1]][u] = s]

\* A lane touches nothing of its job but a unit.
LEMMA LaneFrame ==
  ASSUME JobInv, NEW w \in Workers, LaneStep(w) \/ InterruptStep(w)
  PROVE  UNCHANGED <<job, manifest, run, tally>> /\ LaneWrites(w)
<1> USE DEF laneFrame
<1>w. w[1] \in Jobs /\ work[w] \in Units
  BY WorkerJob DEF JobInv, TypeOK
<1>1. UNCHANGED <<job, manifest, run, tally>>
  BY DEF LaneStep, InterruptStep, Lease, LaneCheck, Claim, Try, Start, Call, Judge, Settle,
     Confirm, Backoff, Complete, Release, InterruptOutside, InterruptClaim, InterruptStart,
     InterruptCall, InterruptUnit, InterruptComplete
<1>2. CASE Claim(w) \/ InterruptClaim(w)
  <2>1. lane[w] = "claim"
    BY <1>2 DEF Claim, InterruptClaim, At, Interrupting
  <2>2. run[w[1]] \in {"lanes", "drain"}
    BY <2>1 DEF JobInv, Supervised
  <2>3. unit' = unit \/ \E u \in Claimable(w) : unit' = [unit EXCEPT ![w[1]][u] = "running"]
    BY <1>2 DEF Claim, InterruptClaim, Take
  <2> QED
    BY <1>1, <2>2, <2>3 DEF LaneWrites, Claimable
<1>3. CASE Complete(w) \/ InterruptComplete(w)
  <2>1. lane[w] = "complete"
    BY <1>3 DEF Complete, InterruptComplete, At, Interrupting
  <2>2. /\ run[w[1]] \in {"lanes", "drain"}
        /\ result[w] \in UnitTerminal /\ unit[w[1]][work[w]] = "running"
    BY <2>1 DEF JobInv, Supervised, InHand, Owned, Working
  <2>3. unit' = unit \/ unit' = [unit EXCEPT ![w[1]][work[w]] = result[w]]
    BY <1>3 DEF Complete, InterruptComplete, Record
  <2> QED
    BY <1>1, <1>w, <2>2, <2>3 DEF LaneWrites
<1>4. CASE ~(Claim(w) \/ InterruptClaim(w) \/ Complete(w) \/ InterruptComplete(w))
  <2>1. unit' = unit
    BY <1>4 DEF LaneStep, InterruptStep, Lease, LaneCheck, Try, Start, Call, Judge, Settle,
       Confirm, Backoff, Release, InterruptOutside, InterruptStart, InterruptCall, InterruptUnit
  <2> QED
    BY <1>1, <2>1 DEF LaneWrites
<1> QED
  BY <1>2, <1>3, <1>4

-----------------------------------------------------------------------------
\* What a runner knows of its job stays true.

RunFacts == Live /\ Reported /\ Earned

LEMMA RunInit == Init => RunFacts
  BY DEF Init, RunFacts, Live, Reported, Earned, Judging

\* A runner judges when its lanes are done.
LEMMA LaneKnows ==
  ASSUME RunInv, NEW w \in Workers, LaneStep(w) \/ InterruptStep(w)
  PROVE  RunFacts'
<1>1. UNCHANGED <<job, manifest, run, tally>> /\ LaneWrites(w)
  BY LaneFrame DEF RunInv
<1>2. unit \in [Jobs -> [Units -> UnitState]] /\ w[1] \in Jobs
  BY Stores, WorkerJob DEF RunInv
<1>3. \A j \in Jobs : run[j] \in Judging => unit'[j] = unit[j]
  BY <1>1, <1>2 DEF LaneWrites, Judging
<1> QED
  BY <1>1, <1>3 DEF RunInv, RunFacts, Live, Reported, Earned, Judging

\* A submission is over before its job has a runner that judges.
LEMMA SubmitKnows ==
  ASSUME RunInv, NEW j \in Jobs, Submit(j) \/ SubmitStep(j)
  PROVE  RunFacts'
<1> USE DEF store, poolVars, laneVars, runVars, bootVars, requestVars, cancelVars
<1>1. /\ job \in [Jobs -> JobState]
      /\ unit \in [Jobs -> [Units -> UnitState]]
      /\ run \in [Jobs -> RunPc]
  BY Stores DEF RunInv
<1>2. manifest' = manifest /\ tally' = tally
  BY DEF SubmitStep, Submit, Validate, AddUnits, Queue, Schedule
<1>3. /\ \A i \in Jobs : run'[i] = run[i] \/ run'[i] = "begin"
      /\ \A i \in Jobs : run[i] \in Judging => unit'[i] = unit[i]
  <2>1. CASE AddUnits(j)
    <3>1. submit[j] = "units"
      BY <2>1 DEF AddUnits
    <3>2. run[j] \notin Judging
      BY <3>1 DEF RunInv, JobInv, Submitting, Judging
    <3> QED
      BY <1>1, <2>1, <3>2 DEF AddUnits
  <2>2. CASE Submit(j) \/ Validate(j) \/ Queue(j) \/ Schedule(j)
    <3>1. unit' = unit
      BY <2>2 DEF Submit, Validate, Queue, Schedule
    <3>2. run' = run \/ run' = [run EXCEPT ![j] = "begin"]
      BY <2>2 DEF Submit, Validate, Queue, Schedule, StartRunner
    <3> QED
      BY <1>1, <3>1, <3>2
  <2> QED
    BY <2>1, <2>2 DEF SubmitStep
<1>4. \A i \in Jobs : \/ job'[i] = job[i]
                      \/ job'[i] \in {"accepted", "validating", "queued"}
  <2>1. \/ job' = job
        \/ \E s \in {"accepted", "validating", "queued"} : job' = [job EXCEPT ![j] = s]
    BY DEF SubmitStep, Submit, Validate, AddUnits, Queue, Schedule
  <2> QED
    BY <1>1, <2>1
<1> QED
  BY <1>2, <1>3, <1>4 DEF RunInv, RunFacts, Live, Reported, Earned, Judging, Terminal

\* No verdict rests on a unit that was still open.
LEMMA LandKnows ==
  ASSUME RunInv, NEW j \in Jobs, NEW u \in Units, Land(j, u)
  PROVE  RunFacts'
<1> USE DEF runVars
<1>1. unit \in [Jobs -> [Units -> UnitState]]
  BY Stores DEF RunInv
<1>2. UNCHANGED <<job, manifest, run, tally>>
  BY DEF Land
<1>3. \A i \in Jobs : \A v \in Units :
         unit[i][v] = "succeeded" => unit'[i][v] = "succeeded"
  BY <1>1 DEF Land
<1> QED
  BY <1>2, <1>3 DEF RunInv, RunFacts, Live, Reported, Earned

\* One step of a runner, its job's alone.
LEMMA RunKnows ==
  ASSUME RunInv, NEW j \in Jobs, RunStep(j)
  PROVE  RunFacts'
<1> USE DEF store, poolVars, laneVars, runVars, bootVars, requestVars, cancelVars,
            RunTo, RunEnds, Launch, Unplanned
<1>1. /\ job \in [Jobs -> JobState]
      /\ manifest \in [Jobs -> {"none", "report", "failed", "cancelled"}]
      /\ run \in [Jobs -> RunPc]
      /\ tally \in [Jobs -> [verdict : Verdict, resumed : BOOLEAN]]
  BY Stores DEF RunInv
<1>2. unit' = unit
  BY DEF RunStep, Begin, Plan, PlanFails, UnplannedEnd, Ready, Promote, Join, Drained, Outcomes,
     OutcomesFail, Check, Collect, Report, Verify, Finish, Raised, CancelReport, CancelEnd
<1>3. \A i \in Jobs \ {j} : /\ job'[i] = job[i] /\ manifest'[i] = manifest[i]
                            /\ run'[i] = run[i] /\ tally'[i] = tally[i]
  <2>1. job' = job \/ job' = [job EXCEPT ![j] = job'[j]]
    BY <1>1 DEF RunStep, Begin, Plan, PlanFails, UnplannedEnd, Ready, Promote, Join, Drained,
       Outcomes, OutcomesFail, Check, Collect, Report, Verify, Finish, Raised, CancelReport,
       CancelEnd
  <2>2. manifest' = manifest \/ manifest' = [manifest EXCEPT ![j] = manifest'[j]]
    BY <1>1 DEF RunStep, Begin, Plan, PlanFails, UnplannedEnd, Ready, Promote, Join, Drained,
       Outcomes, OutcomesFail, Check, Collect, Report, Verify, Finish, Raised, CancelReport,
       CancelEnd
  <2>3. \E pc : run' = [run EXCEPT ![j] = pc]
    BY DEF RunStep, Begin, Plan, PlanFails, UnplannedEnd, Ready, Promote, Join, Drained,
       Outcomes, OutcomesFail, Check, Collect, Report, Verify, Finish, Raised, CancelReport,
       CancelEnd
  <2>4. \/ tally' = tally
        \/ tally' = [tally EXCEPT ![j] = NoTally]
        \/ tally' = [tally EXCEPT ![j].resumed = TRUE]
        \/ \E v \in Verdict : tally' = [tally EXCEPT ![j].verdict = v]
    BY DEF RunStep, Begin, Plan, PlanFails, UnplannedEnd, Ready, Promote, Join, Drained,
       Outcomes, OutcomesFail, Check, Collect, Report, Verify, Finish, Raised, CancelReport,
       CancelEnd, Verdict
  <2> QED
    BY <1>1, <2>1, <2>2, <2>3, <2>4
<1> DEFINE Good ==
      /\ run'[j] \notin {"idle", "begin"} => job'[j] \notin Terminal \cup {"absent"}
      /\ run'[j] = "cancel_end" => manifest'[j] \in {"report", "cancelled"}
      /\ run'[j] \in {"verify", "finish"} /\ tally'[j].verdict # "failed" => manifest'[j] = "report"
      /\ run'[j] \in Judging =>
            /\ tally'[j].verdict = "succeeded" => \A u \in Units : unit[j][u] = "succeeded"
            /\ tally'[j].verdict = "partially_succeeded" => \E u \in Units : unit[j][u] = "succeeded"
<1>l. run[j] \notin {"idle", "begin"} => job[j] \notin Terminal \cup {"absent"}
  BY DEF RunInv, Live
<1>r. run[j] \in {"verify", "finish"} /\ tally[j].verdict # "failed" => manifest[j] = "report"
  BY DEF RunInv, Reported
<1>e. run[j] \in Judging =>
         /\ tally[j].verdict = "succeeded" => \A u \in Units : unit[j][u] = "succeeded"
         /\ tally[j].verdict = "partially_succeeded" => \E u \in Units : unit[j][u] = "succeeded"
  BY DEF RunInv, Earned
<1>b. run[j] = "begin" => job[j] # "absent"
  BY DEF RunInv, JobInv, Submitting
<1>4. ASSUME Begin(j)
      PROVE  Good
  <2>1. \/ run'[j] = "idle"
        \/ run'[j] \in {"cancel_report", "plan"} /\ job' = job /\ job[j] \notin Terminal
    BY <1>1, <1>4 DEF Begin
  <2> QED
    BY <1>4, <1>b, <2>1 DEF Judging, Begin
<1>5. ASSUME Plan(j) \/ PlanFails(j) \/ Join(j) \/ OutcomesFail(j)
      PROVE  Good
  <2>1. /\ run'[j] \in {"ready", "unplanned_end", "outcomes", "raised"}
        /\ job' = job /\ run[j] \notin {"idle", "begin"}
    BY <1>1, <1>5 DEF Plan, PlanFails, Join, OutcomesFail
  <2> QED
    BY <1>l, <2>1 DEF Judging
<1>6. ASSUME UnplannedEnd(j) \/ Drained(j) \/ Raised(j) \/ CancelEnd(j)
      PROVE  Good
  <2>1. run'[j] = "idle"
    BY <1>1, <1>6 DEF UnplannedEnd, Drained, Raised, CancelEnd
  <2> QED
    BY <2>1 DEF Judging
<1>7. ASSUME Ready(j) \/ Promote(j)
      PROVE  Good
  <2>1. /\ run'[j] \in {"cancel_report", "outcomes", "promote", "lanes"}
        /\ job'[j] \in {job[j], "running"} /\ run[j] \notin {"idle", "begin"}
    BY <1>1, <1>7 DEF Ready, Promote
  <2> QED
    BY <1>l, <2>1 DEF Judging, Terminal
<1>8. ASSUME Outcomes(j)
      PROVE  Good
  <2>1. /\ run'[j] \in {"report", "check"} /\ job' = job /\ run[j] = "outcomes"
        /\ tally'[j].verdict = "succeeded" => Succeeded(j) = Units
        /\ tally'[j].verdict = "partially_succeeded" => Succeeded(j) # {}
    BY <1>1, <1>8 DEF Outcomes
  <2> QED
    BY <1>l, <2>1 DEF Judging, Succeeded
<1>9. ASSUME Check(j) \/ Collect(j) \/ Verify(j)
      PROVE  Good
  <2>1. /\ run'[j] \in {"cancel_report", "collect", "report", "finish"}
        /\ job'[j] \in {job[j], "collecting"} /\ tally' = tally /\ manifest' = manifest
        /\ run[j] \in Judging /\ (run'[j] = "finish" => run[j] = "verify")
    BY <1>1, <1>9 DEF Check, Collect, Verify, Judging
  <2> QED
    BY <1>l, <1>r, <1>e, <2>1 DEF Judging, Terminal
<1>10. ASSUME Report(j)
       PROVE  Good
  <2>1. /\ run'[j] = "verify" /\ job' = job /\ run[j] = "report"
        /\ \/ manifest'[j] = "report" /\ tally' = tally
           \/ tally'[j].verdict = "failed"
    BY <1>1, <1>10 DEF Report
  <2> QED
    BY <1>l, <1>e, <2>1 DEF Judging
<1>11. ASSUME Finish(j)
       PROVE  Good
  <2>1. /\ run'[j] \in {"idle", "raised", "cancel_report"}
        /\ run'[j] # "idle" => job' = job /\ run[j] = "finish"
    BY <1>1, <1>11 DEF Finish
  <2> QED
    BY <1>l, <2>1 DEF Judging
<1>12. ASSUME CancelReport(j)
       PROVE  Good
  <2>1. /\ run'[j] = "cancel_end" /\ job' = job /\ run[j] = "cancel_report"
        /\ manifest'[j] \in {"report", "cancelled"}
    BY <1>1, <1>12 DEF CancelReport
  <2> QED
    BY <1>l, <2>1 DEF Judging
<1>13. Good
  BY <1>4, <1>5, <1>6, <1>7, <1>8, <1>9, <1>10, <1>11, <1>12 DEF RunStep
<1> QED
  BY <1>2, <1>3, <1>13 DEF RunInv, RunFacts, Live, Reported, Earned

\* A cancellation stops a runner where it awaits, or starts one.
LEMMA CancelKnows ==
  ASSUME RunInv, NEW c \in Cancels, CancelStep(c) \/ \E j \in Jobs : RequestCancel(c, j)
  PROVE  RunFacts'
<1> USE DEF store, poolVars, laneVars, runVars, bootVars, requestVars, cancelVars, RunTo
<1>1. /\ job \in [Jobs -> JobState]
      /\ manifest \in [Jobs -> {"none", "report", "failed", "cancelled"}]
      /\ run \in [Jobs -> RunPc]
      /\ tally \in [Jobs -> [verdict : Verdict, resumed : BOOLEAN]]
  BY Stores DEF RunInv
<1>2. unit' = unit
  BY DEF CancelStep, Stop, Await, CancelFinish, RequestCancel
<1>3. CASE \E j \in Jobs : RequestCancel(c, j)
  <2>1. PICK j \in Jobs : RequestCancel(c, j)
    BY <1>3
  <2>2. /\ \A i \in Jobs : job'[i] \in {job[i], "cancellation_requested"}
        /\ UNCHANGED <<manifest, run, tally>>
    BY <1>1, <2>1 DEF RequestCancel
  <2> QED
    BY <1>2, <2>2 DEF RunInv, RunFacts, Live, Reported, Earned, Judging, Terminal
<1>4. CASE Await(c) \/ CancelFinish(c)
  <2>1. /\ UNCHANGED <<job, manifest, tally>>
        /\ run' = run \/ run' = [run EXCEPT ![cancelJob[c]] = "begin"]
    BY <1>4 DEF Await, CancelFinish, StartRunner
  <2>2. \A i \in Jobs : run'[i] \in {run[i], "begin"}
    BY <1>1, <2>1
  <2> QED
    BY <1>2, <2>1, <2>2 DEF RunInv, RunFacts, Live, Reported, Earned, Judging
<1>5. CASE Stop(c)
  <2> DEFINE j == cancelJob[c]
  <2>j. j \in Jobs
    BY <1>5 DEF RunInv, JobInv, Cancelled, Stop
  <2>1. CASE Interrupt(j)
    <3>1. \/ /\ UNCHANGED <<job, tally>> /\ run[j] = "plan"
             /\ run' = [run EXCEPT ![j] = "unplanned_end"]
             /\ manifest' = [manifest EXCEPT ![j] = "failed"]
          \/ /\ UNCHANGED <<job, manifest, tally>> /\ run[j] = "lanes"
             /\ run' = [run EXCEPT ![j] = "drain"]
          \/ UNCHANGED <<job, manifest, tally, run>>
          \/ /\ job' = job \/ job' = [job EXCEPT ![j] = "cancelled"]
             /\ run' = [run EXCEPT ![j] = "idle"] /\ manifest' = manifest
             /\ tally' = [tally EXCEPT ![j] = NoTally]
      BY <2>1 DEF Interrupt, Unplanned
    <3> HIDE DEF j
    <3>2. \A i \in Jobs \ {j} : /\ job'[i] = job[i] /\ manifest'[i] = manifest[i]
                                /\ run'[i] = run[i] /\ tally'[i] = tally[i]
      BY <1>1, <2>j, <3>1
    <3>3. \/ /\ UNCHANGED <<job, tally>> /\ run'[j] \in {"unplanned_end", "drain"}
             /\ run[j] \notin {"idle", "begin"}
          \/ UNCHANGED <<job, manifest, tally, run>>
          \/ run'[j] = "idle"
      BY <1>1, <2>j, <3>1
    <3> QED
      BY <1>2, <2>j, <3>2, <3>3 DEF RunInv, RunFacts, Live, Reported, Earned, Judging
  <2>2. CASE StartRunner(j) /\ UNCHANGED <<job, manifest, tally>>
    <3>1. \A i \in Jobs : run'[i] \in {run[i], "begin"}
      BY <1>1, <2>2 DEF StartRunner
    <3> QED
      BY <1>2, <2>2, <3>1 DEF RunInv, RunFacts, Live, Reported, Earned, Judging
  <2> QED
    BY <1>5, <2>1, <2>2 DEF Stop
<1> QED
  BY <1>3, <1>4, <1>5 DEF CancelStep

\* Whatever crashed, no runner has anything left to know.
LEMMA RecoveryKnows ==
  ASSUME RunInv, Crash \/ RecoveryStep
  PROVE  RunFacts'
<1> USE DEF store, poolVars, laneVars, runVars, bootVars, requestVars, cancelVars
<1>1. run \in [Jobs -> RunPc]
  BY Stores DEF RunInv
<1>2. UNCHANGED <<job, manifest>>
  BY DEF RecoveryStep, Crash, Recover, Serve, Classify, Resume
<1>3. CASE Crash
  BY <1>3 DEF Crash, RunFacts, Live, Reported, Earned, Judging
<1>4. CASE Recover \/ Serve \/ \E j \in Jobs : Resume(j)
  <2>1. UNCHANGED <<unit, tally>> /\ \A i \in Jobs : run'[i] \in {run[i], "begin"}
    BY <1>1, <1>4 DEF Recover, Serve, Resume, StartRunner
  <2> QED
    BY <1>2, <2>1 DEF RunInv, RunFacts, Live, Reported, Earned, Judging
<1>5. CASE \E j \in Jobs : Classify(j)
  <2>1. run' = run /\ \A j \in Jobs : run[j] = "idle"
    BY <1>5 DEF Classify, RunInv, JobInv, Quiescent
  <2> QED
    BY <2>1 DEF RunFacts, Live, Reported, Earned, Judging
<1> QED
  BY <1>3, <1>4, <1>5 DEF RecoveryStep

\* A job that is being cancelled or was cancelled is never anything else.
LEMMA EndingStays ==
  ASSUME RunInv, [Next]_vars, NEW j \in Jobs, job[j] \in Ending
  PROVE  job'[j] \in Ending
<1> USE DEF store
<1>1. job \in [Jobs -> JobState]
  BY Stores DEF RunInv
<1>2. CASE UNCHANGED vars
  BY <1>2 DEF vars
<1>3. CASE \E i \in Jobs : Submit(i) \/ SubmitStep(i)
  BY <1>1, <1>3 DEF Submit, SubmitStep, Validate, AddUnits, Queue, Schedule, Ending, Terminal
<1>4. CASE \E i \in Jobs : RunStep(i)
  <2>1. PICK i \in Jobs : RunStep(i)
    BY <1>4
  <2>2. CASE Finish(i)
    BY <1>1, <2>2 DEF Finish, Ending, Terminal
  <2>3. CASE ~Finish(i)
    <3>1. \/ job' = job
          \/ job[i] \notin Ending /\ \E s \in JobState : job' = [job EXCEPT ![i] = s]
          \/ job' = [job EXCEPT ![i] = "cancelled"]
      BY <2>1, <2>3 DEF RunStep, Begin, Plan, PlanFails, UnplannedEnd, Ready, Promote, Join,
         Drained, Outcomes, OutcomesFail, Check, Collect, Report, Verify, Raised, CancelReport,
         CancelEnd, Ending, Terminal, JobState
    <3> QED
      BY <1>1, <3>1 DEF Ending, Terminal
  <2> QED
    BY <2>2, <2>3
<1>5. CASE \E w \in Workers : LaneStep(w) \/ InterruptStep(w)
  BY <1>5, LaneFrame DEF RunInv
<1>6. CASE \E k \in Keys : Recovered(k)
  BY <1>6 DEF Recovered
<1>7. CASE \E c \in Cancels : CancelStep(c) \/ \E i \in Jobs : RequestCancel(c, i)
  <2>1. PICK c \in Cancels : CancelStep(c) \/ \E i \in Jobs : RequestCancel(c, i)
    BY <1>7
  <2>2. \/ job' = job
        \/ \E i, s : s \in Ending /\ job' = [job EXCEPT ![i] = s]
    BY <2>1 DEF CancelStep, Stop, Interrupt, Unplanned, Await, CancelFinish, RequestCancel,
       Ending, Terminal
  <2> QED
    BY <1>1, <2>2
<1>8. CASE Crash \/ RecoveryStep
  BY <1>8 DEF Crash, RecoveryStep, Recover, Serve, Classify, Resume
<1>9. CASE \E i \in Jobs, u \in Units : Land(i, u)
  BY <1>9 DEF Land
<1> QED
  BY <1>2, <1>3, <1>4, <1>5, <1>6, <1>7, <1>8, <1>9 DEF Next

\* A lane is told to stop, and leaves an outcome behind, only for a cancellation.
LEMMA StoppedStays ==
  ASSUME RunInv, [Next]_vars
  PROVE  Stopped'
<1> USE DEF store, poolVars, laneVars, runVars, bootVars, requestVars, cancelVars, laneFrame
<1>1. /\ \A w \in hit : w \in Workers /\ job[w[1]] \in Ending
      /\ \A j \in Jobs : \A u \in Units : late[j][u] # "none" => job[j] \in Ending
      /\ late \in [Jobs -> [Units -> {"none"} \cup UnitTerminal]]
  BY DEF RunInv, Stopped, JobInv, TypeOK
<1> DEFINE Same ==
      /\ \A w \in hit' : w \in hit \/ (w \in Workers /\ job[w[1]] \in Ending)
      /\ \A j \in Jobs : \A u \in Units :
            late'[j][u] # "none" => late[j][u] # "none" \/ job[j] \in Ending
<1>2. Same
  <2>1. CASE \E w \in Workers : LaneStep(w) \/ InterruptStep(w)
    <3>1. PICK w \in Workers : LaneStep(w) \/ InterruptStep(w)
      BY <2>1
    <3>2. hit' = hit \/ hit' = hit \ {w}
      BY <3>1 DEF LaneStep, InterruptStep, Lease, LaneCheck, Claim, Try, Start, Call, Judge,
         Settle, Confirm, Backoff, Complete, Release, InterruptOutside, InterruptClaim,
         InterruptStart, InterruptCall, InterruptUnit, InterruptComplete, CancelsUnit
    <3>3. \/ late' = late
          \/ w \in hit /\ late' = [late EXCEPT ![w[1]][work[w]] = result[w]]
      BY <3>1 DEF LaneStep, InterruptStep, Lease, LaneCheck, Claim, Try, Start, Call, Judge,
         Settle, Confirm, Backoff, Complete, Release, InterruptOutside, InterruptClaim,
         InterruptStart, InterruptCall, InterruptUnit, InterruptComplete, Interrupting
    <3> QED
      BY <1>1, <3>2, <3>3
  <2>2. CASE \E c \in Cancels : Stop(c)
    <3>1. PICK c \in Cancels : Stop(c)
      BY <2>2
    <3> DEFINE j == cancelJob[c]
    <3>j. j \in Jobs /\ job[j] \in Ending
      BY <3>1 DEF Stop, RunInv, JobInv, Cancelled, Requested
    <3>2. \/ hit' = hit
          \/ hit' = hit \cup {w \in Workers : w[1] = j /\ lane[w] \notin {"idle", "release"}}
      BY <3>1 DEF Stop, Interrupt, Unplanned
    <3>3. late' = late
      BY <3>1 DEF Stop
    <3> HIDE DEF j
    <3> QED
      BY <3>j, <3>2, <3>3
  <2>3. CASE Crash
    BY <2>3 DEF Crash, NothingLate
  <2>4. CASE \E j \in Jobs, u \in Units : Land(j, u)
    BY <1>1, <2>4 DEF Land
  <2>5. CASE UNCHANGED <<hit, late>>
    BY <2>5
  <2>6. CASE \E j \in Jobs : Submit(j) \/ SubmitStep(j)
    BY <2>5, <2>6 DEF Submit, SubmitStep, Validate, AddUnits, Queue, Schedule
  <2>7. CASE \E j \in Jobs : RunStep(j)
    BY <2>5, <2>7 DEF RunStep, Begin, Plan, PlanFails, UnplannedEnd, Ready, Promote, Join,
       Drained, Outcomes, OutcomesFail, Check, Collect, Report, Verify, Finish, Raised,
       CancelReport, CancelEnd
  <2>8. CASE \E c \in Cancels : Await(c) \/ CancelFinish(c) \/ \E j \in Jobs : RequestCancel(c, j)
    BY <2>5, <2>8 DEF Await, CancelFinish, RequestCancel
  <2>9. CASE RecoveryStep \/ (\E k \in Keys : Recovered(k)) \/ UNCHANGED vars
    BY <2>5, <2>9 DEF RecoveryStep, Recover, Serve, Classify, Resume, Recovered, vars
  <2> QED
    BY <2>1, <2>2, <2>3, <2>4, <2>6, <2>7, <2>8, <2>9 DEF Next, CancelStep
<1>3. \A w \in Workers : w[1] \in Jobs
  BY WorkerJob
<1> QED
  BY <1>1, <1>2, <1>3, EndingStays DEF Stopped

\* Until its runner is stopped the lock keeps a cancellation's job.
LEMMA RequestedStays ==
  ASSUME RunInv, [Next]_vars
  PROVE  Requested'
<1> USE DEF cancelVars
<1>1. /\ cancelPc \in [Cancels -> {"idle", "stop", "await", "finish"}]
      /\ cancelJob \in [Cancels -> Jobs \cup {None}]
      /\ Cancelled /\ Requested
  BY DEF RunInv, JobInv, TypeOK
<1>2. CASE UNCHANGED cancelVars
  BY <1>1, <1>2, EndingStays DEF Requested, Cancelled
<1>3. CASE \E c \in Cancels : CancelStep(c)
  <2>1. PICK c \in Cancels : CancelStep(c)
    BY <1>3
  <2>2. \A d \in Cancels : cancelPc'[d] = "stop" => cancelPc[d] = "stop" /\ cancelJob'[d] = cancelJob[d]
    BY <1>1, <2>1 DEF CancelStep, Stop, Await, CancelFinish, CancelDone
  <2> QED
    BY <1>1, <2>2, EndingStays DEF Requested, Cancelled
<1>4. CASE \E c \in Cancels, j \in Jobs : RequestCancel(c, j)
  <2>1. PICK c \in Cancels, j \in Jobs : RequestCancel(c, j)
    BY <1>4
  <2>2. job'[j] \in Ending
    BY <2>1, Stores DEF RunInv, RequestCancel, Ending
  <2>3. /\ cancelJob'[c] = j
        /\ \A d \in Cancels \ {c} : cancelPc'[d] = cancelPc[d] /\ cancelJob'[d] = cancelJob[d]
    BY <1>1, <2>1 DEF RequestCancel
  <2> QED
    BY <1>1, <2>2, <2>3, EndingStays DEF Requested, Cancelled
<1>5. CASE Crash
  BY <1>5 DEF Crash, Requested
<1> QED
  <2>1. CASE UNCHANGED vars
    BY <1>2, <2>1 DEF vars
  <2>2. CASE \E j \in Jobs : Submit(j) \/ SubmitStep(j)
    BY <1>2, <2>2 DEF Submit, SubmitStep, Validate, AddUnits, Queue, Schedule
  <2>3. CASE \E j \in Jobs : RunStep(j)
    BY <1>2, <2>3 DEF RunStep, Begin, Plan, PlanFails, UnplannedEnd, Ready, Promote, Join,
       Drained, Outcomes, OutcomesFail, Check, Collect, Report, Verify, Finish, Raised,
       CancelReport, CancelEnd
  <2>4. CASE \E w \in Workers : LaneStep(w) \/ InterruptStep(w)
    BY <1>2, <2>4 DEF laneFrame, LaneStep, InterruptStep, Lease, LaneCheck, Claim, Try, Start,
       Call, Judge, Settle, Confirm, Backoff, Complete, Release, InterruptOutside,
       InterruptClaim, InterruptStart, InterruptCall, InterruptUnit, InterruptComplete
  <2>5. CASE \E k \in Keys : Recovered(k)
    BY <1>2, <2>5 DEF Recovered
  <2>6. CASE RecoveryStep
    BY <1>2, <2>6 DEF RecoveryStep, Recover, Serve, Classify, Resume
  <2>7. CASE \E j \in Jobs, u \in Units : Land(j, u)
    BY <1>2, <2>7 DEF Land
  <2> QED
    BY <1>3, <1>4, <1>5, <2>1, <2>2, <2>3, <2>4, <2>5, <2>6, <2>7 DEF Next

\* Every reachable state has the invariant: what a runner goes by when it writes
\* its manifest and its verdict (runner.py) is so when it writes them.
THEOREM RunInvariance == Spec => []RunInv
<1>1. Init => RunInv
  <2>1. Init => Requested /\ Stopped
    BY DEF Init, Requested, Stopped, NothingLate
  <2> QED
    BY <2>1, InitHolds, RunInit DEF RunInv, RunFacts
<1>2. RunInv /\ [Next]_vars => RunFacts' /\ Requested' /\ Stopped'
  <2> SUFFICES ASSUME RunInv, [Next]_vars
               PROVE  RunFacts'
    BY RequestedStays, StoppedStays
  <2>1. CASE UNCHANGED vars
    BY <2>1 DEF vars, store, runVars, RunInv, RunFacts, Live, Reported, Earned, Judging
  <2>2. CASE \E k \in Keys : Recovered(k)
    BY <2>2 DEF Recovered, store, runVars, RunInv, RunFacts, Live, Reported, Earned, Judging
  <2> QED
    BY <2>1, <2>2, SubmitKnows, RunKnows, LaneKnows, LandKnows, CancelKnows,
       RecoveryKnows DEF Next
<1>3. JobInv' /\ LateOwn' /\ RunFacts' /\ Requested' /\ Stopped' => RunInv'
  BY DEF RunInv, RunFacts
<1> QED
  BY <1>1, <1>2, <1>3, Invariance, PTL DEF Spec

-----------------------------------------------------------------------------
\* Every step is a step of the abstract specification or a stutter.

\* The refinement mapping, value by value.
LEMMA StageValues ==
    /\ StageOf("absent") = "none" /\ StageOf("cancellation_requested") = "cancelling"
    /\ \A s \in {"accepted", "validating", "queued", "running", "collecting"} : StageOf(s) = "open"
    /\ \A s \in Terminal : StageOf(s) = s
  BY DEF StageOf, Terminal

LEMMA DoneValues ==
    /\ \A s \in {"absent", "ready", "running"} : DoneOf(s) = "open"
    /\ \A s \in UnitTerminal : DoneOf(s) = s
  BY DEF DoneOf, UnitTerminal

\* What the abstract variables are at a job.
LEMMA Seen ==
    ASSUME NEW j \in Jobs
    PROVE  Stages[j] = StageOf(job[j]) /\ \A u \in Units : Settled[j][u] = DoneOf(unit[j][u])
  BY DEF Stages, Settled

\* Steps nobody outside sees.
LEMMA Unseen ==
    ASSUME manifest' = manifest,
           \A j \in Jobs : StageOf(job'[j]) = StageOf(job[j]),
           \A j \in Jobs : \A u \in Units : DoneOf(unit'[j][u]) = DoneOf(unit[j][u])
    PROVE  Kept
<1>1. Stages' = Stages
  BY DEF Stages
<1>2. Settled' = Settled
  BY DEF Settled
<1> QED
  BY <1>1, <1>2 DEF Kept

\* One job changes stage, the others and the units keep theirs.
LEMMA OneStage ==
    ASSUME JobInv, NEW j \in Jobs, NEW s, job' = [job EXCEPT ![j] = s], unit' = unit
    PROVE  Stages' = [Stages EXCEPT ![j] = StageOf(s)] /\ Settled' = Settled
<1>1. job \in [Jobs -> JobState]
  BY Stores
<1>2. Stages' = [Stages EXCEPT ![j] = StageOf(s)]
  BY <1>1 DEF Stages
<1> QED
  BY <1>2 DEF Settled

\* A job that has not ended gets a manifest.
LEMMA Written ==
    ASSUME RunInv, NEW j \in Jobs, NEW r \in {"report", "failed", "cancelled"},
           run[j] \notin {"idle", "begin"}, job' = job, unit' = unit,
           manifest' = [manifest EXCEPT ![j] = r]
    PROVE  Kept
<1>1. job[j] \in JobState /\ job[j] \notin Terminal \cup {"absent"}
  BY Stores DEF RunInv, Live
<1>2. Stages[j] \in {"open", "cancelling"}
  BY <1>1, StageValues, Seen DEF JobState
<1>3. Stages' = Stages /\ Settled' = Settled
  BY DEF Stages, Settled
<1>4. Lifecycle!Report(j)
  BY <1>2, <1>3 DEF Lifecycle!Report, Lifecycle!Open, Stages, Settled
<1> QED
  BY <1>4 DEF Kept, Lifecycle!Next

\* A job that runs fails, with whatever manifest.
LEMMA Failed ==
    ASSUME JobInv, NEW j \in Jobs,
           job[j] \in {"validating", "queued", "running", "collecting"},
           job' = [job EXCEPT ![j] = "failed"], unit' = unit, manifest' = manifest
    PROVE  Kept
<1>1. Stages[j] = "open" /\ StageOf("failed") = "failed"
  BY StageValues, Seen DEF Terminal
<1>2. Stages' = [Stages EXCEPT ![j] = "failed"] /\ Settled' = Settled
  BY <1>1, OneStage
<1>3. Lifecycle!End(j, "failed")
  BY <1>1, <1>2 DEF Lifecycle!End, Lifecycle!Open, Stages, Settled
<1> QED
  BY <1>3 DEF Kept, Lifecycle!Next, Lifecycle!Verdicts

\* A cancellation that has been requested comes to its end.
LEMMA CancelledThen ==
    ASSUME RunInv, NEW j \in Jobs, run[j] = "cancel_end", Cancelling(j),
           job' = [job EXCEPT ![j] = "cancelled"], unit' = unit, manifest' = manifest
    PROVE  Kept
<1>1. Stages[j] = "cancelling" /\ StageOf("cancelled") = "cancelled"
  BY StageValues, Seen DEF Terminal, Cancelling
<1>2. Stages' = [Stages EXCEPT ![j] = "cancelled"] /\ Settled' = Settled
  BY <1>1, OneStage DEF RunInv
<1>3. Lifecycle!EndCancelled(j)
  BY <1>1, <1>2 DEF Lifecycle!EndCancelled, Stages, Settled, RunInv, Reported
<1> QED
  BY <1>3 DEF Kept, Lifecycle!Next

\* A submission accepts a job; its later steps nobody sees.
LEMMA SubmitSeen ==
  ASSUME RunInv, NEW j \in Jobs, Submit(j) \/ SubmitStep(j)
  PROVE  Kept
<1> USE DEF store
<1>1. /\ job \in [Jobs -> JobState] /\ unit \in [Jobs -> [Units -> UnitState]]
      /\ JobInv
  BY Stores DEF RunInv
<1>2. CASE Submit(j)
  <2>1. /\ job[j] = "absent" /\ job' = [job EXCEPT ![j] = "accepted"]
        /\ unit' = unit /\ manifest' = manifest
    BY <1>2 DEF Submit
  <2>2. Stages[j] = "none" /\ StageOf("accepted") = "open"
    BY <2>1, StageValues, Seen
  <2>3. Stages' = [Stages EXCEPT ![j] = "open"] /\ Settled' = Settled
    BY <1>1, <2>1, <2>2, OneStage
  <2>4. Lifecycle!Accept(j)
    BY <2>1, <2>2, <2>3 DEF Lifecycle!Accept, Lifecycle!Open, Stages, Settled
  <2> QED
    BY <2>4 DEF Kept, Lifecycle!Next
<1>3. CASE AddUnits(j)
  <2>1. \A u \in Units : unit[j][u] = "absent"
    BY <1>3 DEF RunInv, JobInv, Submitting, AddUnits
  <2>2. job' = job /\ manifest' = manifest /\ unit' = [unit EXCEPT ![j] = [u \in Units |-> "ready"]]
    BY <1>3 DEF AddUnits
  <2>3. \A i \in Jobs : \A u \in Units : DoneOf(unit'[i][u]) = DoneOf(unit[i][u])
    BY <1>1, <2>1, <2>2, DoneValues
  <2> QED
    BY <2>2, <2>3, Unseen
<1>4. CASE Validate(j) \/ Queue(j) \/ Schedule(j)
  <2>1. /\ unit' = unit /\ manifest' = manifest
        /\ \/ job' = job
           \/ job[j] = "accepted" /\ job' = [job EXCEPT ![j] = "validating"]
           \/ job[j] = "validating" /\ job' = [job EXCEPT ![j] = "queued"]
    BY <1>4 DEF Validate, Queue, Schedule
  <2>2. \A i \in Jobs : StageOf(job'[i]) = StageOf(job[i])
    BY <1>1, <2>1, StageValues
  <2> QED
    BY <2>1, <2>2, Unseen
<1> QED
  BY <1>2, <1>3, <1>4 DEF SubmitStep

\* A runner reports, ends its job, or does what nobody sees.
LEMMA RunSeen ==
  ASSUME RunInv, NEW j \in Jobs, RunStep(j)
  PROVE  Kept
<1> USE DEF store
<1>1. /\ job \in [Jobs -> JobState]
      /\ tally \in [Jobs -> [verdict : Verdict, resumed : BOOLEAN]]
      /\ JobInv
  BY Stores DEF RunInv
<1>2. unit' = unit
  BY DEF RunStep, Begin, Plan, PlanFails, UnplannedEnd, Ready, Promote, Join, Drained, Outcomes,
     OutcomesFail, Check, Collect, Report, Verify, Finish, Raised, CancelReport, CancelEnd
<1>3. CASE \/ Begin(j) \/ Plan(j) \/ Ready(j) \/ Join(j) \/ Drained(j) \/ Outcomes(j)
           \/ OutcomesFail(j) \/ Check(j) \/ Verify(j) \/ Promote(j) \/ Collect(j)
  <2>1. /\ manifest' = manifest
        /\ \/ job' = job
           \/ job[j] = "queued" /\ job' = [job EXCEPT ![j] = "running"]
           \/ job[j] = "running" /\ job' = [job EXCEPT ![j] = "collecting"]
    BY <1>3 DEF Begin, Plan, Ready, Join, Drained, Outcomes, OutcomesFail, Check, Verify,
       Promote, Collect
  <2>2. \A i \in Jobs : StageOf(job'[i]) = StageOf(job[i])
    BY <1>1, <2>1, StageValues
  <2> QED
    BY <1>2, <2>1, <2>2, Unseen
<1>4. CASE PlanFails(j) \/ CancelReport(j) \/ Report(j)
  <2>1. /\ run[j] \notin {"idle", "begin"} /\ job' = job
        /\ \E r \in {"report", "failed", "cancelled"} : manifest' = [manifest EXCEPT ![j] = r]
    BY <1>4 DEF PlanFails, Unplanned, CancelReport, Report
  <2> QED
    BY <1>2, <2>1, Written
<1>5. CASE UnplannedEnd(j) \/ Raised(j)
  <2>1. /\ manifest' = manifest
        /\ \/ job' = job
           \/ /\ job[j] \in {"validating", "queued", "running", "collecting"}
              /\ job' = [job EXCEPT ![j] = "failed"]
    BY <1>5 DEF UnplannedEnd, Raised
  <2> QED
    BY <1>1, <1>2, <2>1, Failed, Unseen
<1>6. CASE CancelEnd(j)
  <2>1. manifest' = manifest /\ run[j] = "cancel_end"
    BY <1>6 DEF CancelEnd
  <2>2. CASE Cancelling(j)
    <3>1. job' = [job EXCEPT ![j] = "cancelled"]
      BY <1>6, <2>2 DEF CancelEnd
    <3> QED
      BY <1>2, <2>1, <2>2, <3>1, CancelledThen
  <2>3. CASE ~Cancelling(j)
    <3>1. job' = job
      BY <1>6, <2>3 DEF CancelEnd
    <3> QED
      BY <1>2, <2>1, <3>1, Unseen
  <2> QED
    BY <2>2, <2>3
<1>7. CASE Finish(j)
  <2> DEFINE v == tally[j].verdict
  <2>0. /\ job[j] = "collecting" => job' = [job EXCEPT ![j] = v]
        /\ job[j] # "collecting" => job' = job
    BY <1>7 DEF Finish
  <2>1. /\ manifest' = manifest /\ run[j] = "finish"
        /\ job' = job \/ (job[j] = "collecting" /\ job' = [job EXCEPT ![j] = v])
    BY <1>7, <2>0 DEF Finish
  <2>2. v \in Lifecycle!Verdicts
    BY <1>1, <2>1 DEF JobInv, Decided, Verdict, Lifecycle!Verdicts
  <2>3. /\ v = "succeeded" => \A u \in Units : unit[j][u] = "succeeded"
        /\ v = "partially_succeeded" => \E u \in Units : unit[j][u] = "succeeded"
        /\ v # "failed" => manifest[j] = "report"
    BY <2>1 DEF RunInv, Earned, Reported, Judging
  <2>4. CASE job' = job
    BY <1>2, <2>1, <2>4, Unseen
  <2>5. CASE job[j] = "collecting" /\ job' = [job EXCEPT ![j] = v]
    <3>1. Stages[j] = "open" /\ StageOf(v) = v
      BY <2>2, <2>5, StageValues, Seen DEF Terminal, Lifecycle!Verdicts
    <3> HIDE DEF v
    <3>2. Stages' = [Stages EXCEPT ![j] = v] /\ Settled' = Settled
      <4>1. Stages' = [Stages EXCEPT ![j] = StageOf(v)] /\ Settled' = Settled
        BY <1>1, <1>2, <2>5, OneStage
      <4> QED
        BY <3>1, <4>1
    <3>3. \A u \in Units : unit[j][u] = "succeeded" => Settled[j][u] = "succeeded"
      BY DoneValues, Seen DEF UnitTerminal
    <3>4. Lifecycle!End(j, v)
      BY <2>1, <2>3, <3>1, <3>2, <3>3 DEF Lifecycle!End, Lifecycle!Open, Stages, Settled
    <3> QED
      BY <2>2, <3>4 DEF Kept, Lifecycle!Next
  <2> QED
    BY <2>1, <2>4, <2>5
<1> QED
  BY <1>3, <1>4, <1>5, <1>6, <1>7 DEF RunStep

\* A lane settles a unit, once.
LEMMA LaneSeen ==
  ASSUME RunInv, NEW w \in Workers, LaneStep(w) \/ InterruptStep(w)
  PROVE  Kept
<1> DEFINE j == w[1]
<1>1. /\ job \in [Jobs -> JobState] /\ unit \in [Jobs -> [Units -> UnitState]]
      /\ j \in Jobs
  BY Stores, WorkerJob DEF RunInv
<1>2. UNCHANGED <<job, manifest, run, tally>> /\ LaneWrites(w)
  BY LaneFrame DEF RunInv
<1>3. run[j] \in {"lanes", "drain"} => job[j] \in {"running", "cancellation_requested"}
  BY <1>1 DEF RunInv, JobInv, RunningJob
<1> HIDE DEF j
<1>4. ASSUME NEW u \in Units, unit[j][u] = "ready", unit' = [unit EXCEPT ![j][u] = "running"]
      PROVE  Kept
  <2>1. \A i \in Jobs : \A v \in Units : DoneOf(unit'[i][v]) = DoneOf(unit[i][v])
    BY <1>1, <1>4, DoneValues
  <2> QED
    BY <1>2, <2>1, Unseen
<1>5. ASSUME run[j] \in {"lanes", "drain"}, NEW u \in Units, NEW s \in UnitTerminal,
             unit[j][u] = "running", unit' = [unit EXCEPT ![j][u] = s]
      PROVE  Kept
  <2>1. Stages[j] \in {"open", "cancelling"} /\ Stages' = Stages
    BY <1>1, <1>2, <1>3, <1>5, StageValues, Seen DEF Stages
  <2>2. Settled[j][u] = "open"
    BY <1>1, <1>5, DoneValues, Seen
  <2>3. Settled' = [Settled EXCEPT ![j][u] = s]
    BY <1>1, <1>5, DoneValues DEF Settled
  <2>4. Lifecycle!Settle(j, u)
    BY <1>2, <2>1, <2>2, <2>3 DEF Lifecycle!Settle, Lifecycle!Open, Stages, Settled, UnitTerminal
  <2> QED
    BY <1>1, <2>4 DEF Kept, Lifecycle!Next
<1>6. CASE unit' = unit
  BY <1>2, <1>6, Unseen
<1> QED
  BY <1>2, <1>4, <1>5, <1>6 DEF LaneWrites, j

\* What a stopped lane left behind settles its unit, of a job that is being
\* cancelled or was.
LEMMA LandSeen ==
  ASSUME RunInv, NEW j \in Jobs, NEW u \in Units, Land(j, u)
  PROVE  Kept
<1>1. /\ unit \in [Jobs -> [Units -> UnitState]]
      /\ late[j][u] \in UnitTerminal /\ job[j] \in Ending
      /\ UNCHANGED <<job, manifest>>
  BY Stores DEF RunInv, JobInv, TypeOK, Stopped, Land
<1>2. CASE unit[j][u] = "running"
  <2>1. unit' = [unit EXCEPT ![j][u] = late[j][u]]
    BY <1>2 DEF Land
  <2> DEFINE s == late[j][u]
  <2>2. s \in UnitTerminal /\ unit' = [unit EXCEPT ![j][u] = s]
    BY <1>1, <2>1
  <2> HIDE DEF s
  <2>3. Stages[j] \in {"cancelling", "cancelled"} /\ Stages' = Stages
    BY <1>1, StageValues, Seen DEF Stages, Ending, Terminal
  <2>4. Settled[j][u] = "open"
    BY <1>2, DoneValues, Seen
  <2>5. Settled' = [Settled EXCEPT ![j][u] = s]
    BY <1>1, <2>2, DoneValues DEF Settled
  <2>6. Lifecycle!Settle(j, u)
    BY <1>1, <2>2, <2>3, <2>4, <2>5 DEF Lifecycle!Settle, Stages, Settled, UnitTerminal
  <2> QED
    BY <2>6 DEF Kept, Lifecycle!Next
<1>3. CASE unit[j][u] # "running"
  <2>1. \A i \in Jobs : \A v \in Units : unit'[i][v] = unit[i][v]
    BY <1>1, <1>3 DEF Land
  <2> QED
    BY <1>1, <2>1, Unseen
<1> QED
  BY <1>2, <1>3

\* A cancellation asks, and may interrupt a runner that reports or ends.
LEMMA CancelSeen ==
  ASSUME RunInv, NEW c \in Cancels, CancelStep(c) \/ \E j \in Jobs : RequestCancel(c, j)
  PROVE  Kept
<1> USE DEF store
<1>1. job \in [Jobs -> JobState] /\ JobInv
  BY Stores DEF RunInv
<1>2. unit' = unit
  BY DEF CancelStep, Stop, Await, CancelFinish, RequestCancel
<1>3. CASE \E j \in Jobs : RequestCancel(c, j)
  <2>1. PICK j \in Jobs : /\ job[j] \notin Terminal \cup {"absent"} /\ manifest' = manifest
                          /\ job' = [job EXCEPT ![j] = "cancellation_requested"]
    BY <1>3 DEF RequestCancel
  <2>2. Stages[j] \in {"open", "cancelling"}
    BY <1>1, <2>1, StageValues, Seen DEF JobState
  <2>a. /\ Stages' = [Stages EXCEPT ![j] = StageOf("cancellation_requested")]
        /\ Settled' = Settled
    BY <1>1, <1>2, <2>1, OneStage DEF JobState
  <2>3. Stages' = [Stages EXCEPT ![j] = "cancelling"] /\ Settled' = Settled
    BY <2>a, StageValues
  <2>4. CASE Stages[j] = "open"
    <3>1. Lifecycle!Cancel(j)
      BY <2>1, <2>3, <2>4 DEF Lifecycle!Cancel, Lifecycle!Open, Stages, Settled
    <3> QED
      BY <3>1 DEF Kept, Lifecycle!Next
  <2>5. CASE Stages[j] = "cancelling"
    <3>1. Stages' = Stages
      BY <2>3, <2>5 DEF Stages
    <3> QED
      BY <2>1, <2>3, <3>1 DEF Kept
  <2> QED
    BY <2>2, <2>4, <2>5
<1>4. CASE Await(c) \/ CancelFinish(c)
  <2>1. UNCHANGED <<job, manifest>>
    BY <1>4 DEF Await, CancelFinish
  <2> QED
    BY <1>2, <2>1, Unseen
<1>5. CASE Stop(c)
  <2> DEFINE j == cancelJob[c]
  <2>j. j \in Jobs
    BY <1>5 DEF RunInv, JobInv, Cancelled, Stop
  <2>1. \/ UNCHANGED <<job, manifest>>
        \/ /\ job' = job /\ run[j] = "plan" /\ manifest' = [manifest EXCEPT ![j] = "failed"]
        \/ /\ run[j] = "cancel_end" /\ manifest' = manifest
           /\ job' = [job EXCEPT ![j] = "cancelled"]
    BY <1>5 DEF Stop, Interrupt, Unplanned
  <2> HIDE DEF j
  <2>2. CASE job' = job /\ run[j] = "plan" /\ manifest' = [manifest EXCEPT ![j] = "failed"]
    BY <1>2, <2>j, <2>2, Written
  <2>3. CASE /\ run[j] = "cancel_end" /\ manifest' = manifest
             /\ job' = [job EXCEPT ![j] = "cancelled"]
    <3>1. job[j] \in Ending
      BY <1>5 DEF RunInv, Requested, Stop, j
    <3>2. Cancelling(j)
      BY <2>j, <2>3, <3>1 DEF RunInv, Live, Ending, Terminal, Cancelling
    <3> QED
      BY <1>2, <2>j, <2>3, <3>2, CancelledThen
  <2> QED
    BY <1>2, <2>1, <2>2, <2>3, Unseen
<1> QED
  BY <1>3, <1>4, <1>5 DEF CancelStep

\* A crash and the recovery from it undo nothing a client has seen.
LEMMA RecoverySeen ==
  ASSUME RunInv, Crash \/ RecoveryStep
  PROVE  Kept
<1> USE DEF store
<1>1. UNCHANGED <<job, manifest>>
  BY DEF RecoveryStep, Crash, Recover, Serve, Classify, Resume
<1>2. CASE \E j \in Jobs : Classify(j)
  <2>1. unit \in [Jobs -> [Units -> UnitState]]
    BY Stores DEF RunInv
  <2>2. \A i \in Jobs : \A u \in Units :
           \/ unit'[i][u] = unit[i][u]
           \/ unit[i][u] = "running" /\ unit'[i][u] = "ready"
    BY <1>2, <2>1 DEF Classify
  <2>3. \A i \in Jobs : \A u \in Units : DoneOf(unit'[i][u]) = DoneOf(unit[i][u])
    BY <2>2, DoneValues
  <2> QED
    BY <1>1, <2>3, Unseen
<1>3. CASE Crash \/ Recover \/ Serve \/ \E j \in Jobs : Resume(j)
  <2>1. unit' = unit
    BY <1>3 DEF Crash, Recover, Serve, Resume
  <2> QED
    BY <1>1, <2>1, Unseen
<1> QED
  BY <1>2, <1>3 DEF RecoveryStep

\* For its client a job is what JobLifecycle says, whatever runner, lane,
\* cancellation, crash or restart works on it.
THEOREM LifecycleCorrect == Spec => JobRefined
<1>1. Init => Lifecycle!Init
  BY StageValues, DoneValues DEF Init, Lifecycle!Init
<1>2. RunInv /\ [Next]_vars => Kept
  <2> SUFFICES ASSUME RunInv, [Next]_vars
               PROVE  Kept
    OBVIOUS
  <2>1. CASE UNCHANGED vars
    BY <2>1, Unseen DEF vars, store
  <2>2. CASE \E k \in Keys : Recovered(k)
    BY <2>2, Unseen DEF Recovered, store
  <2> QED
    BY <2>1, <2>2, SubmitSeen, RunSeen, LaneSeen, LandSeen, CancelSeen, RecoverySeen DEF Next
<1>3. Kept <=> [Lifecycle!Next]_<<[j \in Jobs |-> StageOf(job[j])],
                                  [j \in Jobs |-> [u \in Units |-> DoneOf(unit[j][u])]],
                                  manifest>>
  BY DEF Kept, Stages, Settled
<1> QED
  BY <1>1, <1>2, <1>3, RunInvariance, PTL DEF Spec, JobRefined, Lifecycle!Spec
=============================================================================
