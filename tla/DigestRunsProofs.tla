-------------------------- MODULE DigestRunsProofs --------------------------
(***************************************************************************)
(* Machine-checked proofs about DigestRuns, for every set of runs,         *)
(* processes and messages and every timeout.                               *)
(***************************************************************************)
EXTENDS DigestRuns, FiniteSetTheorems, TLAPS

\* Every step of Next is one of these.
LEMMA NextCases ==
    ASSUME Next
    PROVE  \/ \E w \in ApiTasks, r \in Runs : CreateRun(w, r)
           \/ \E w \in Pollers : Poll(w) \/ StartSweep(w) \/ ResetStuck(w)
                \/ StartPublish(w) \/ Publish(w) \/ EndMaintenance(w)
                \/ MaintenanceFails(w)
           \/ \E w \in Executors : Claim(w) \/ Fetch(w) \/ Generate(w)
                \/ FailTry(w) \/ CheckSeen(w) \/ WriteTask(w) \/ FinishTry(w)
                \/ SaveRun(w) \/ AppendEvent(w) \/ SaveRunFails(w)
                \/ AppendEventFails(w)
           \/ \E p \in Processes : Crash(p)
           \/ Tick
  BY DEF Next, ExecuteStep, MaintenanceStep, FaultStep

LEMMA NoWorkType == NoWork \in WorkType
  BY DEF NoWork, WorkType, Terminal

\* An execution that gets its plan keeps the type of its locals.
LEMMA PlanUpdateType ==
    ASSUME NEW v \in WorkType,
           NEW p \in [Messages -> Titles \cup {Quarantine, None}],
           NEW S \in SUBSET Messages
    PROVE  [v EXCEPT !.plan = p, !.left = S] \in WorkType
  BY DEF WorkType

\* The processes of the executions.
LEMMA ProcOfType == \A w \in Executors : ProcOf(w) \in Processes
  BY DEF ProcOf, Processes, Executors

\* What an execution persists is finite, so it can be counted.
LEMMA PlannedFinite ==
    ASSUME NEW p PROVE Cardinality(Planned(p)) \in Nat
  <1>1. IsFiniteSet(Planned(p))
    BY ConstantsAssumption, FS_Subset DEF Planned
  <1> QED
    BY <1>1, FS_CardinalityType

LEMMA TypeInit == Init => TypeOK
  <1> SUFFICES ASSUME Init PROVE TypeOK
    OBVIOUS
  <1> USE ConstantsAssumption
  <1>1. RowsType
    BY DEF Init, RowsType, RunStatus
  <1>2. LocalsType
    BY NoWorkType DEF Init, LocalsType
  <1>3. SweepsType
    BY DEF Init, SweepsType
  <1>4. StartedRows /\ PlacedLocals
    BY DEF Init, StartedRows, PlacedLocals, Holding
  <1> QED
    BY <1>1, <1>2, <1>3, <1>4 DEF Init, TypeOK

\* TypeOK is preserved by every step.
LEMMA TypeNext == TypeOK /\ [Next]_vars => TypeOK'
  <1> SUFFICES ASSUME TypeOK, [Next]_vars PROVE TypeOK'
    OBVIOUS
  <1> USE ConstantsAssumption
  <1> USE DEF TypeOK, runVars, taskVars, outboxVars, sweepVars
  <1>1. ASSUME NEW w \in ApiTasks, NEW r \in Runs, CreateRun(w, r) PROVE TypeOK'
    <2>1. RowsType'
      BY <1>1 DEF CreateRun, Dispatch, Executors, RowsType, LocalsType,
         RunStatus, PlacedLocals, Holding
    <2>2. LocalsType'
      BY <1>1 DEF CreateRun, Dispatch, Executors, LocalsType,
         PlacedLocals, Holding
    <2>3. StartedRows'
      BY <1>1 DEF CreateRun, Dispatch, Executors, StartedRows, RowsType,
         LocalsType, Terminal
    <2>4. PlacedLocals'
      BY <1>1 DEF CreateRun, Dispatch, Executors, PlacedLocals,
         LocalsType, Holding
    <2> QED
      BY <1>1, <2>1, <2>2, <2>3, <2>4 DEF CreateRun, SweepsType
  <1>2. ASSUME NEW w \in Pollers, Poll(w) PROVE TypeOK'
    <2>1. LocalsType'
      BY <1>2 DEF Poll, Dispatch, Oldest, Executors, LocalsType,
         PlacedLocals, Holding
    <2>2. PlacedLocals'
      BY <1>2 DEF Poll, Dispatch, Oldest, Executors, PlacedLocals,
         LocalsType, Holding
    <2> QED
      BY <1>2, <2>1, <2>2 DEF Poll, RowsType, SweepsType, StartedRows
  <1>3. ASSUME NEW w \in Executors, Claim(w) PROVE TypeOK'
    <2>1. job[w] \in Runs /\ clock[w] \in Int
      BY <1>3 DEF Claim, PlacedLocals, LocalsType
    <2>2. status' \in [Runs -> RunStatus] /\ startedAt' \in [Runs -> Int \cup {None}]
      BY <1>3, <2>1 DEF Claim, RowsType, RunStatus
    <2>3. RowsType'
      BY <1>3, <2>2 DEF Claim, RowsType
    <2>4. LocalsType'
      BY <1>3, NoWorkType DEF Claim, Return, LocalsType, Holding
    <2>5. StartedRows'
      BY <1>3, <2>1 DEF Claim, StartedRows, RowsType
    <2>6. PlacedLocals'
      BY <1>3 DEF Claim, Return, PlacedLocals, LocalsType, Holding
    <2> QED
      BY <1>3, <2>3, <2>4, <2>5, <2>6 DEF Claim, SweepsType
  <1>4. ASSUME NEW w \in Executors, Fetch(w) PROVE TypeOK'
    <2>1. PICK skipped \in BOOLEAN : work' = [work EXCEPT ![w].skipped = skipped]
      BY <1>4 DEF Fetch
    <2>2. [work[w] EXCEPT !.skipped = skipped] \in WorkType
      <3>1. work[w] \in WorkType
        BY <1>4 DEF LocalsType
      <3> QED
        BY <2>1, <3>1 DEF WorkType
    <2>3. work' \in [Executors -> WorkType]
      BY <1>4, <2>1, <2>2 DEF Fetch, LocalsType
    <2>4. LocalsType'
      BY <1>4, <2>3, ProcOfType DEF Fetch, LocalsType, PlacedLocals, Holding
    <2>5. PlacedLocals'
      BY <1>4, <2>1 DEF Fetch, PlacedLocals, LocalsType, Holding, WorkType
    <2> QED
      BY <1>4, <2>4, <2>5 DEF Fetch, RowsType, SweepsType, StartedRows
  <1>5. ASSUME NEW w \in Executors, Generate(w) PROVE TypeOK'
    <2>1. PICK p \in Plans(w) :
            work' = [work EXCEPT ![w].plan = p, ![w].left = Planned(p)]
      BY <1>5 DEF Generate
    <2>2. p \in [Messages -> Titles \cup {Quarantine, None}] /\ Planned(p) \subseteq Messages
      BY DEF Plans, Planned
    <2>3. [work[w] EXCEPT !.plan = p, !.left = Planned(p)] \in WorkType
      BY <2>2, PlanUpdateType DEF LocalsType
    <2>4. LocalsType'
      BY <1>5, <2>1, <2>3 DEF Generate, LocalsType, Holding
    <2>5. PlacedLocals'
      BY <1>5 DEF Generate, PlacedLocals, LocalsType, Holding
    <2> QED
      BY <1>5, <2>4, <2>5 DEF Generate, RowsType, SweepsType, StartedRows
  <1>6. ASSUME NEW w \in Executors, FailTry(w) PROVE TypeOK'
    <2>1. [work[w] EXCEPT !.result = "failed"] \in WorkType
      <3>1. work[w] \in WorkType
        BY <1>6 DEF LocalsType
      <3> QED
        BY <3>1 DEF Terminal, WorkType
    <2>2. work' \in [Executors -> WorkType]
      BY <1>6, <2>1 DEF FailTry, EndTry, LocalsType
    <2>3. LocalsType'
      BY <1>6, <2>2, ProcOfType DEF FailTry, EndTry, LocalsType, PlacedLocals, Holding
    <2>4. PlacedLocals'
      BY <1>6 DEF FailTry, EndTry, PlacedLocals, LocalsType, Holding, WorkType
    <2> QED
      BY <1>6, <2>3, <2>4 DEF FailTry, RowsType, SweepsType, StartedRows
  <1>7. ASSUME NEW w \in Executors, CheckSeen(w) PROVE TypeOK'
    <2>1. PICK m \in work[w].left : work' = [work EXCEPT
          ![w].msg = m, ![w].seen = Known(m, work[w].plan[m])]
      BY <1>7 DEF CheckSeen
    <2>2. [work[w] EXCEPT !.msg = m, !.seen = Known(m, work[w].plan[m])] \in WorkType
      BY <1>7, <2>1 DEF Known, LocalsType, PlacedLocals, WorkType
    <2>3. work' \in [Executors -> WorkType]
      BY <1>7, <2>1, <2>2 DEF CheckSeen, LocalsType
    <2>4. LocalsType'
      BY <1>7, <2>3, ProcOfType DEF CheckSeen, LocalsType, PlacedLocals, Holding
    <2>5. PlacedLocals'
      BY <1>7, <2>1 DEF CheckSeen, PlacedLocals, LocalsType, Holding, WorkType
    <2> QED
      BY <1>7, <2>4, <2>5 DEF CheckSeen, RowsType, SweepsType, StartedRows
  <1>8. ASSUME NEW w \in Executors, WriteTask(w) PROVE TypeOK'
    <2>1. [work[w] EXCEPT !.left = @ \ {work[w].msg}, !.msg = None, !.seen = FALSE] \in WorkType
      <3>1. work[w] \in WorkType
        BY <1>8 DEF LocalsType
      <3> QED
        BY <3>1 DEF WorkType
    <2>2. work' \in [Executors -> WorkType]
      BY <1>8, <2>1 DEF WriteTask, LocalsType
    <2>3. LocalsType'
      BY <1>8, <2>2, ProcOfType DEF WriteTask, LocalsType, PlacedLocals, Holding
    <2>4. RowsType'
      BY <1>8 DEF WriteTask, RowsType, LocalsType, PlacedLocals, Holding, WorkType
    <2>5. PlacedLocals'
      BY <1>8 DEF WriteTask, PlacedLocals, LocalsType, Holding, WorkType
    <2> QED
      BY <1>8, <2>3, <2>4, <2>5 DEF WriteTask, SweepsType, StartedRows
  <1>9. ASSUME NEW w \in Executors, FinishTry(w) PROVE TypeOK'
    <2>1. [work[w] EXCEPT !.result = IF work[w].skipped THEN "partial" ELSE "succeeded"] \in WorkType
      <3>1. work[w] \in WorkType
        BY DEF LocalsType
      <3>2. (IF work[w].skipped THEN "partial" ELSE "succeeded") \in Terminal
        BY DEF Terminal
      <3> QED
        BY <3>1, <3>2 DEF WorkType
    <2>2. work' \in [Executors -> WorkType]
      BY <1>9, <2>1 DEF FinishTry, EndTry, LocalsType
    <2>3. LocalsType'
      BY <1>9, <2>2, ProcOfType DEF FinishTry, EndTry, LocalsType, PlacedLocals, Holding
    <2>4. PlacedLocals'
      BY <1>9 DEF FinishTry, EndTry, PlacedLocals, LocalsType, Holding, WorkType
    <2> QED
      BY <1>9, <2>3, <2>4 DEF FinishTry, RowsType, SweepsType, StartedRows
  <1>10. ASSUME NEW w \in Executors, SaveRun(w) PROVE TypeOK'
    <2>1. RowsType'
      BY <1>10, PlannedFinite DEF SaveRun, WorkType, RowsType,
         LocalsType, RunStatus, PlacedLocals, Holding
    <2>2. LocalsType'
      BY <1>10, PlannedFinite DEF SaveRun, WorkType, LocalsType,
         PlacedLocals, Holding
    <2>3. StartedRows'
      BY <1>10 DEF SaveRun, WorkType, StartedRows, RowsType, LocalsType,
         Terminal
    <2>4. PlacedLocals'
      BY <1>10 DEF SaveRun, WorkType, PlacedLocals, LocalsType, Holding
    <2> QED
      BY <1>10, <2>1, <2>2, <2>3, <2>4 DEF SaveRun, SweepsType
  <1>11. ASSUME NEW w \in Executors, AppendEvent(w) PROVE TypeOK'
    <2>1. RowsType'
      BY <1>11 DEF AppendEvent, Return, WorkType, RowsType, LocalsType,
         RunStatus, PlacedLocals, Holding
    <2>2. LocalsType'
      BY <1>11, NoWorkType DEF AppendEvent, Return, WorkType,
         LocalsType, PlacedLocals, Holding
    <2>3. PlacedLocals'
      BY <1>11 DEF AppendEvent, Return, WorkType, PlacedLocals,
         LocalsType, Holding
    <2> QED
      BY <1>11, <2>1, <2>2, <2>3 DEF AppendEvent, SweepsType,
         StartedRows
  <1>12. ASSUME NEW w \in Pollers, StartSweep(w) PROVE TypeOK'
    <2>1. LocalsType'
      BY <1>12 DEF StartSweep, Executors, LocalsType, PlacedLocals,
         Holding
    <2>2. SweepsType'
      BY <1>12 DEF StartSweep, Executors, SweepsType
    <2>3. PlacedLocals'
      BY <1>12 DEF StartSweep, Executors, PlacedLocals, LocalsType,
         Holding
    <2> QED
      BY <1>12, <2>1, <2>2, <2>3 DEF StartSweep, RowsType, StartedRows
  <1>13. ASSUME NEW w \in Pollers, ResetStuck(w) PROVE TypeOK'
    <2>1. RowsType'
      BY <1>13 DEF ResetStuck, Oldest, RowsType, LocalsType, RunStatus,
         PlacedLocals, Holding
    <2>2. SweepsType'
      BY <1>13 DEF ResetStuck, Oldest, SweepsType
    <2>3. StartedRows'
      BY <1>13 DEF ResetStuck, Oldest, StartedRows, RowsType,
         LocalsType, Terminal
    <2> QED
      BY <1>13, <2>1, <2>2, <2>3 DEF ResetStuck, LocalsType,
         PlacedLocals
  <1>14. ASSUME NEW w \in Pollers, StartPublish(w) PROVE TypeOK'
    <2>1. LocalsType'
      BY <1>14 DEF StartPublish, Executors, LocalsType, PlacedLocals,
         Holding
    <2>2. SweepsType'
      BY <1>14 DEF StartPublish, Executors, SweepsType
    <2>3. PlacedLocals'
      BY <1>14 DEF StartPublish, Executors, PlacedLocals, LocalsType,
         Holding
    <2> QED
      BY <1>14, <2>1, <2>2, <2>3 DEF StartPublish, RowsType, StartedRows
  <1>15. ASSUME NEW w \in Pollers, Publish(w) PROVE TypeOK'
    <2>1. RowsType'
      BY <1>15 DEF Publish, SweepsType, RowsType, LocalsType, RunStatus,
         PlacedLocals, Holding
    <2>2. SweepsType'
      BY <1>15 DEF Publish, SweepsType
    <2> QED
      BY <1>15, <2>1, <2>2 DEF Publish, LocalsType, StartedRows,
         PlacedLocals
  <1>16. ASSUME NEW w \in Pollers, EndMaintenance(w) PROVE TypeOK'
    <2>1. LocalsType'
      BY <1>16 DEF EndMaintenance, Executors, LocalsType, PlacedLocals,
         Holding
    <2>2. SweepsType'
      BY <1>16 DEF EndMaintenance, Executors, SweepsType
    <2>3. PlacedLocals'
      BY <1>16 DEF EndMaintenance, Executors, PlacedLocals, LocalsType,
         Holding
    <2> QED
      BY <1>16, <2>1, <2>2, <2>3 DEF EndMaintenance, RowsType,
         StartedRows
  <1>17. ASSUME NEW w \in Executors, SaveRunFails(w) PROVE TypeOK'
    <2>1. LocalsType'
      BY <1>17, NoWorkType DEF SaveRunFails, Return, LocalsType,
         PlacedLocals, Holding
    <2>2. PlacedLocals'
      BY <1>17 DEF SaveRunFails, Return, PlacedLocals, LocalsType,
         Holding
    <2> QED
      BY <1>17, <2>1, <2>2 DEF SaveRunFails, RowsType, SweepsType,
         StartedRows, Fault
  <1>18. ASSUME NEW w \in Executors, AppendEventFails(w) PROVE TypeOK'
    <2>1. LocalsType'
      BY <1>18, NoWorkType DEF AppendEventFails, Return, LocalsType,
         PlacedLocals, Holding
    <2>2. PlacedLocals'
      BY <1>18 DEF AppendEventFails, Return, PlacedLocals, LocalsType,
         Holding
    <2> QED
      BY <1>18, <2>1, <2>2 DEF AppendEventFails, RowsType, SweepsType,
         StartedRows, Fault
  <1>19. ASSUME NEW w \in Pollers, MaintenanceFails(w) PROVE TypeOK'
    <2>1. LocalsType'
      BY <1>19 DEF MaintenanceFails, Executors, LocalsType,
         PlacedLocals, Holding
    <2>2. SweepsType'
      BY <1>19 DEF MaintenanceFails, Executors, SweepsType
    <2>3. PlacedLocals'
      BY <1>19 DEF MaintenanceFails, Executors, PlacedLocals,
         LocalsType, Holding
    <2> QED
      BY <1>19, <2>1, <2>2, <2>3 DEF MaintenanceFails, RowsType,
         StartedRows, Fault
  <1>20. ASSUME NEW p \in Processes, Crash(p) PROVE TypeOK'
    <2>1. LocalsType'
      BY <1>20, NoWorkType DEF Crash, LocalsType, PlacedLocals, Holding
    <2>2. SweepsType'
      BY <1>20 DEF Crash, SweepsType
    <2>3. PlacedLocals'
      BY <1>20 DEF Crash, PlacedLocals, LocalsType, Holding
    <2> QED
      BY <1>20, <2>1, <2>2, <2>3 DEF Crash, RowsType, StartedRows, Fault
  <1>21. CASE Tick
    BY <1>21 DEF Tick, RowsType, LocalsType, SweepsType, StartedRows,
       PlacedLocals
  <1>22. CASE UNCHANGED vars
    BY <1>22 DEF vars, RowsType, LocalsType, SweepsType, StartedRows,
       PlacedLocals
  <1> QED
    BY <1>1, <1>2, <1>3, <1>4, <1>5, <1>6, <1>7, <1>8, <1>9, <1>10, <1>11,
       <1>12, <1>13, <1>14, <1>15, <1>16, <1>17, <1>18, <1>19, <1>20, <1>21,
       <1>22, NextCases

\* Every variable keeps its type, a claimed run its started_at and an
\* execution its run, on every behaviour of the control plane.
THEOREM TypeCorrect == Spec => []TypeOK
  BY TypeInit, TypeNext, PTL DEF Spec

----------------------------------------------------------------------------
(* The lease: claim and reset_stuck_run exclude each other *)

\* A sweep's cutoff lies a full timeout in the past.
CutoffPast ==
    \A w \in Pollers : pc[w] = "sweep" => cutoff[w] <= now - RunningTimeout

\* The inductive invariant.  LeaseExclusive alone is not inductive: that the
\* row still records an unexpired claim is what keeps a second claim, and a
\* reset made from a stale listing, from succeeding.
LeaseInv == TypeOK /\ CutoffPast /\ LeaseRecorded /\ LeaseExclusive

LEMMA LeaseInit == Init => LeaseInv
  <1> SUFFICES ASSUME Init PROVE LeaseInv
    OBVIOUS
  <1>1. \A w \in Executors : pc[w] = "idle"
    BY DEF Init
  <1>2. CutoffPast
    BY <1>1 DEF CutoffPast, Executors
  <1>3. LeaseRecorded /\ LeaseExclusive
    BY <1>1 DEF LeaseRecorded, LeaseExclusive, Leased, Holding
  <1> QED
    BY <1>2, <1>3, TypeInit DEF LeaseInv

\* Where no existing row changes and executions only leave, the lease
\* invariant is kept.
LEMMA LeaseKept ==
    ASSUME LeaseInv, TypeOK',
           now' >= now,
           \A r \in Runs : \/ status'[r] = status[r] /\ startedAt'[r] = startedAt[r]
                          \/ status[r] = "absent",
           \A w \in Executors :
              Leased(w)' => Leased(w) /\ job'[w] = job[w] /\ clock'[w] = clock[w],
           \A w \in Pollers :
              pc'[w] = "sweep" => cutoff'[w] <= now' - RunningTimeout
    PROVE  LeaseInv'
  <1>1. CutoffPast'
    BY DEF CutoffPast
  <1>2. ASSUME NEW w \in Executors, Leased(w) PROVE job[w] \in Runs
    BY <1>2 DEF Leased, LeaseInv, TypeOK, PlacedLocals
  <1>3. LeaseRecorded'
    BY <1>2 DEF LeaseInv, LeaseRecorded, Terminal
  <1>4. LeaseExclusive'
    BY DEF LeaseInv, LeaseExclusive
  <1> QED
    BY <1>1, <1>3, <1>4 DEF LeaseInv

\* A claim succeeds only on a queued run, which no lease can hold.
LEMMA LeaseClaim ==
    ASSUME LeaseInv, TypeOK', NEW w \in Executors, Claim(w)
    PROVE  LeaseInv'
  <1> USE DEF LeaseInv, runVars, taskVars, outboxVars, sweepVars
  <1>0. /\ job[w] \in Runs
        /\ status \in [Runs -> RunStatus]
        /\ startedAt \in [Runs -> Int \cup {None}]
        /\ pc \in [Executors -> {"idle", "claim", "sweep", "publish"} \cup Holding]
    BY DEF Claim, TypeOK, PlacedLocals, RowsType, LocalsType
  <1>1. CASE status[job[w]] = "queued"
    <2>1. /\ status' = [status EXCEPT ![job[w]] = "running"]
          /\ startedAt' = [startedAt EXCEPT ![job[w]] = clock[w]]
          /\ pc' = [pc EXCEPT ![w] = "fetch"]
          /\ UNCHANGED <<job, clock, now, cutoff>>
      BY <1>1 DEF Claim
    <2>2. \A v \in Executors : Leased(v) => job[v] # job[w]
      BY <1>1 DEF LeaseRecorded, Terminal
    <2>3. \A v \in Executors \ {w} : Leased(v)' => Leased(v)
      BY <2>1, <1>0 DEF Leased
    <2>4. CutoffPast'
      BY <2>1, <1>0 DEF CutoffPast, Executors
    <2>5. LeaseRecorded'
      BY <2>1, <2>2, <2>3, <1>0 DEF LeaseRecorded
    <2>6. LeaseExclusive'
      BY <2>1, <2>2, <2>3 DEF LeaseExclusive
    <2> QED
      BY <2>4, <2>5, <2>6
  <1>2. CASE status[job[w]] # "queued"
    <2>1. /\ UNCHANGED <<status, startedAt, now, cutoff>>
          /\ pc' = [pc EXCEPT ![w] = "idle"]
          /\ job' = [job EXCEPT ![w] = None]
          /\ clock' = [clock EXCEPT ![w] = 0]
      BY <1>2 DEF Claim, Return
    <2>2. \A v \in Executors :
            Leased(v)' => Leased(v) /\ job'[v] = job[v] /\ clock'[v] = clock[v]
      BY <2>1, <1>0 DEF Leased, Holding, TypeOK, LocalsType
    <2>3. \A v \in Pollers : pc'[v] = "sweep" => cutoff'[v] <= now' - RunningTimeout
      BY <2>1, <1>0 DEF CutoffPast, Executors
    <2> QED
      BY <1>0, <2>1, <2>2, <2>3, LeaseKept DEF TypeOK
  <1> QED
    BY <1>1, <1>2

\* The reset's compare-and-set fails on a run that anyone has a lease of.
LEMMA LeaseReset ==
    ASSUME LeaseInv, TypeOK', NEW w \in Pollers, ResetStuck(w)
    PROVE  LeaseInv'
  <1> USE DEF LeaseInv, runVars, taskVars, outboxVars, sweepVars
  <1>0. /\ status \in [Runs -> RunStatus]
        /\ startedAt \in [Runs -> Int \cup {None}]
        /\ clock \in [Executors -> Int] /\ cutoff \in [Pollers -> Int]
        /\ now \in Int /\ RunningTimeout \in Int
        /\ UNCHANGED <<pc, job, clock, cutoff, now>>
    BY ConstantsAssumption DEF ResetStuck, TypeOK, RowsType, LocalsType, SweepsType
  <1>1. PICK r \in Runs :
          IF status[r] = "running" /\ startedAt[r] < cutoff[w]
          THEN /\ status' = [status EXCEPT ![r] = "queued"]
               /\ startedAt' = [startedAt EXCEPT ![r] = None]
          ELSE UNCHANGED <<status, startedAt>>
    BY DEF ResetStuck, Oldest, TypeOK, SweepsType
  <1>2. CASE ~(status[r] = "running" /\ startedAt[r] < cutoff[w])
    BY <1>0, <1>1, <1>2 DEF CutoffPast, LeaseRecorded, LeaseExclusive, Leased
  <1>3. CASE status[r] = "running" /\ startedAt[r] < cutoff[w]
    <2>1. startedAt[r] \in Int /\ startedAt[r] < now - RunningTimeout
      BY <1>0, <1>3 DEF CutoffPast, ResetStuck, TypeOK, StartedRows
    <2>2. \A v \in Executors : Leased(v) => job[v] # r
      BY <1>0, <1>3, <2>1 DEF LeaseRecorded, Leased, Terminal
    <2>3. \A v \in Executors : Leased(v)' => Leased(v)
      BY <1>0 DEF Leased
    <2>4. LeaseRecorded'
      <3> SUFFICES ASSUME NEW v \in Executors, Leased(v)'
                   PROVE  \/ status'[job'[v]] \in Terminal
                          \/ /\ status'[job'[v]] = "running"
                             /\ startedAt'[job'[v]] = clock'[v]
        BY DEF LeaseRecorded
      <3>1. Leased(v) /\ job'[v] = job[v] /\ clock'[v] = clock[v]
        BY <1>0, <2>3
      <3>2. job[v] \in Runs \ {r}
        BY <2>2, <3>1 DEF Leased, TypeOK, PlacedLocals
      <3>3. status'[job[v]] = status[job[v]] /\ startedAt'[job[v]] = startedAt[job[v]]
        BY <1>0, <1>1, <1>3, <3>2
      <3> QED
        BY <3>1, <3>3 DEF LeaseRecorded
    <2>5. CutoffPast'
      BY <1>0 DEF CutoffPast
    <2>6. LeaseExclusive'
      BY <1>0, <2>3 DEF LeaseExclusive
    <2> QED
      BY <2>4, <2>5, <2>6
  <1> QED
    BY <1>2, <1>3

\* A save makes the row terminal, whoever else still executes the run.
LEMMA LeaseSave ==
    ASSUME LeaseInv, TypeOK', NEW w \in Executors, SaveRun(w)
    PROVE  LeaseInv'
  <1> USE DEF LeaseInv, runVars, taskVars, outboxVars, sweepVars
  <1>0. /\ job[w] \in Runs
        /\ work[w].result \in Terminal
        /\ status \in [Runs -> RunStatus]
        /\ startedAt \in [Runs -> Int \cup {None}]
        /\ pc \in [Executors -> {"idle", "claim", "sweep", "publish"} \cup Holding]
    BY DEF SaveRun, TypeOK, PlacedLocals, RowsType, LocalsType, WorkType, Holding
  <1>1. /\ status' = [status EXCEPT ![job[w]] = work[w].result]
        /\ startedAt' = [startedAt EXCEPT ![job[w]] = clock[w]]
        /\ pc' = [pc EXCEPT ![w] = "event"]
        /\ UNCHANGED <<job, clock, now, cutoff>>
    BY DEF SaveRun
  <1>2. \A v \in Executors : Leased(v)' => Leased(v)
    BY <1>0, <1>1 DEF Leased
  <1>3. CutoffPast'
    BY <1>0, <1>1 DEF CutoffPast, Executors
  <1>4. LeaseRecorded'
    BY <1>0, <1>1, <1>2 DEF LeaseRecorded
  <1>5. LeaseExclusive'
    BY <1>1, <1>2 DEF LeaseExclusive
  <1> QED
    BY <1>3, <1>4, <1>5

LEMMA LeaseNext == LeaseInv /\ [Next]_vars => LeaseInv'
  <1> SUFFICES ASSUME LeaseInv, [Next]_vars PROVE LeaseInv'
    OBVIOUS
  <1>0. TypeOK /\ TypeOK'
    BY TypeNext DEF LeaseInv
  <1> DEFINE Kept ==
        /\ now' >= now
        /\ \A r \in Runs : \/ status'[r] = status[r] /\ startedAt'[r] = startedAt[r]
                          \/ status[r] = "absent"
        /\ \A v \in Executors :
             Leased(v)' => Leased(v) /\ job'[v] = job[v] /\ clock'[v] = clock[v]
        /\ \A v \in Pollers :
             pc'[v] = "sweep" => cutoff'[v] <= now' - RunningTimeout
  <1>k. Kept => LeaseInv'
    BY <1>0, LeaseKept
  <1>t. /\ now \in Int /\ RunningTimeout \in Int
        /\ job \in [Executors -> Runs \cup {None}]
        /\ clock \in [Executors -> Int]
        /\ cutoff \in [Pollers -> Int]
        /\ pc \in [Executors -> {"idle", "claim", "sweep", "publish"} \cup Holding]
        /\ CutoffPast
    BY <1>0, ConstantsAssumption DEF TypeOK, LocalsType, SweepsType, LeaseInv
  <1> USE DEF runVars, taskVars, outboxVars, sweepVars, CutoffPast
  <1> HIDE DEF Kept

  <1>1. ASSUME NEW w \in ApiTasks, NEW r \in Runs, CreateRun(w, r) PROVE LeaseInv'
    <2>1. now' = now /\ cutoff' = cutoff /\ pc' = [pc EXCEPT ![w] = "claim"]
      BY <1>1 DEF CreateRun, Dispatch
    <2>2. \A q \in Runs : \/ status'[q] = status[q] /\ startedAt'[q] = startedAt[q]
                         \/ status[q] = "absent"
      BY <1>0, <1>1 DEF CreateRun, TypeOK, RowsType
    <2>3. \A v \in Executors :
            Leased(v)' => Leased(v) /\ job'[v] = job[v] /\ clock'[v] = clock[v]
      BY <1>t, <1>1, <2>1 DEF CreateRun, Dispatch, Leased, Holding, Executors
    <2> QED
      BY <1>k, <1>t, <2>1, <2>2, <2>3 DEF Kept, Executors
  <1>2. ASSUME NEW w \in Pollers, Poll(w) PROVE LeaseInv'
    BY <1>k, <1>t, <1>2 DEF Kept, Poll, Dispatch, Executors, Leased, Holding
  <1>3. ASSUME NEW w \in Executors, Fetch(w) PROVE LeaseInv'
    BY <1>k, <1>t, <1>3 DEF Kept, Fetch, Leased, Holding
  <1>4. ASSUME NEW w \in Executors, Generate(w) PROVE LeaseInv'
    BY <1>k, <1>t, <1>4 DEF Kept, Generate, Leased, Holding
  <1>5. ASSUME NEW w \in Executors, FailTry(w) PROVE LeaseInv'
    BY <1>k, <1>t, <1>5 DEF Kept, FailTry, EndTry, Leased, Holding
  <1>6. ASSUME NEW w \in Executors, CheckSeen(w) PROVE LeaseInv'
    BY <1>k, <1>t, <1>6 DEF Kept, CheckSeen, Leased, Holding
  <1>7. ASSUME NEW w \in Executors, WriteTask(w) PROVE LeaseInv'
    BY <1>k, <1>t, <1>7 DEF Kept, WriteTask, Leased, Holding
  <1>8. ASSUME NEW w \in Executors, FinishTry(w) PROVE LeaseInv'
    BY <1>k, <1>t, <1>8 DEF Kept, FinishTry, EndTry, Leased, Holding
  <1>9. ASSUME NEW w \in Executors, AppendEvent(w) PROVE LeaseInv'
    BY <1>k, <1>t, <1>9 DEF Kept, AppendEvent, Return, Leased, Holding
  <1>10. ASSUME NEW w \in Executors, SaveRunFails(w) PROVE LeaseInv'
    BY <1>k, <1>t, <1>10 DEF Kept, SaveRunFails, Return, Leased, Holding
  <1>11. ASSUME NEW w \in Executors, AppendEventFails(w) PROVE LeaseInv'
    BY <1>k, <1>t, <1>11 DEF Kept, AppendEventFails, Return, Leased, Holding
  <1>12. ASSUME NEW w \in Pollers, StartSweep(w) PROVE LeaseInv'
    BY <1>k, <1>t, <1>12 DEF Kept, StartSweep, Executors, Leased, Holding
  <1>13. ASSUME NEW w \in Pollers, StartPublish(w) PROVE LeaseInv'
    BY <1>k, <1>t, <1>13 DEF Kept, StartPublish, Executors, Leased, Holding
  <1>14. ASSUME NEW w \in Pollers, Publish(w) PROVE LeaseInv'
    BY <1>k, <1>t, <1>14 DEF Kept, Publish, Executors, Leased, Holding
  <1>15. ASSUME NEW w \in Pollers, EndMaintenance(w) PROVE LeaseInv'
    BY <1>k, <1>t, <1>15 DEF Kept, EndMaintenance, Executors, Leased, Holding
  <1>16. ASSUME NEW w \in Pollers, MaintenanceFails(w) PROVE LeaseInv'
    BY <1>k, <1>t, <1>16 DEF Kept, MaintenanceFails, Executors, Leased, Holding
  <1>17. ASSUME NEW w \in Executors, Claim(w) PROVE LeaseInv'
    BY <1>17, <1>0, LeaseClaim
  <1>18. ASSUME NEW w \in Pollers, ResetStuck(w) PROVE LeaseInv'
    BY <1>18, <1>0, LeaseReset
  <1>19. ASSUME NEW w \in Executors, SaveRun(w) PROVE LeaseInv'
    BY <1>19, <1>0, LeaseSave
  <1>20. ASSUME NEW p \in Processes, Crash(p) PROVE LeaseInv'
    <2>1. \A v \in Executors :
            Leased(v)' => Leased(v) /\ job'[v] = job[v] /\ clock'[v] = clock[v]
      BY <1>t, <1>20 DEF Crash, Leased, Holding
    <2>2. \A v \in Pollers : pc'[v] = "sweep" => cutoff'[v] <= now' - RunningTimeout
      BY <1>t, <1>20 DEF Crash, Executors
    <2> QED
      BY <1>k, <1>t, <1>20, <2>1, <2>2 DEF Kept, Crash
  <1>21. CASE Tick
    BY <1>k, <1>t, <1>21 DEF Kept, Tick, Leased, Holding
  <1>22. CASE UNCHANGED vars
    BY <1>k, <1>t, <1>22 DEF Kept, vars, Leased, Holding
  <1> QED
    BY <1>1, <1>2, <1>3, <1>4, <1>5, <1>6, <1>7, <1>8, <1>9, <1>10, <1>11,
       <1>12, <1>13, <1>14, <1>15, <1>16, <1>17, <1>18, <1>19, <1>20,
       <1>21, <1>22, NextCases

\* The strengthened invariant holds of every reachable state.
LEMMA LeaseInvariant == Spec => []LeaseInv
  BY LeaseInit, LeaseNext, PTL DEF Spec

\* No two executions of a run both have its lease, on every behaviour, for
\* any number of API tasks and worker processes and any timeout.
THEOREM LeaseCorrect == Spec => []LeaseExclusive
  <1>1. LeaseInv => LeaseExclusive
    BY DEF LeaseInv
  <1> QED
    BY LeaseInvariant, <1>1, PTL

\* The row of a run tells of the lease on it: a run somebody leases is running
\* under that very claim, or finished.
THEOREM LeaseRecordedCorrect == Spec => []LeaseRecorded
  <1>1. LeaseInv => LeaseRecorded
    BY DEF LeaseInv
  <1> QED
    BY LeaseInvariant, <1>1, PTL

----------------------------------------------------------------------------
(* The life of a row *)

\* Every change a step can make to the status of a run.
LEMMA StatusStep ==
    ASSUME LeaseInv, [Next]_vars, NEW r \in Runs
    PROVE  \/ status'[r] = status[r]
           \/ status[r] = "absent" /\ status'[r] = "queued"
           \/ status[r] = "queued" /\ status'[r] = "running"
           \/ /\ status[r] = "running" /\ status'[r] = "queued"
              /\ startedAt[r] < now - RunningTimeout
           \/ status'[r] \in Terminal
  <1> DEFINE Moved ==
        \/ status'[r] = status[r]
        \/ status[r] = "absent" /\ status'[r] = "queued"
        \/ status[r] = "queued" /\ status'[r] = "running"
        \/ /\ status[r] = "running" /\ status'[r] = "queued"
           /\ startedAt[r] < now - RunningTimeout
        \/ status'[r] \in Terminal
  <1>t. /\ status \in [Runs -> RunStatus]
        /\ \A w \in Executors : work[w].result \in Terminal
    BY DEF LeaseInv, TypeOK, RowsType, LocalsType, WorkType
  <1> USE DEF runVars, taskVars, outboxVars, sweepVars
  <1>1. ASSUME NEW w \in ApiTasks, NEW q \in Runs, CreateRun(w, q) PROVE Moved
    BY <1>t, <1>1 DEF CreateRun
  <1>2. ASSUME NEW w \in Executors, Claim(w) PROVE Moved
    BY <1>t, <1>2 DEF Claim
  <1>3. ASSUME NEW w \in Executors, SaveRun(w) PROVE Moved
    BY <1>t, <1>3 DEF SaveRun
  <1>4. ASSUME NEW w \in Pollers, ResetStuck(w) PROVE Moved
    <2>1. /\ pc[w] = "sweep" /\ cutoff[w] <= now - RunningTimeout
          /\ cutoff[w] \in Int /\ now \in Int /\ RunningTimeout \in Int
      BY <1>4, ConstantsAssumption
         DEF ResetStuck, LeaseInv, CutoffPast, TypeOK, SweepsType
    <2>2. status[r] = "running" => startedAt[r] \in Int
      BY DEF LeaseInv, TypeOK, StartedRows
    <2> QED
      BY <1>t, <1>4, <2>1, <2>2 DEF ResetStuck
  <1>5. ASSUME status' = status PROVE Moved
    BY <1>5 DEF Moved
  <1> HIDE DEF Moved
  <1>6. Moved
    BY <1>1, <1>2, <1>3, <1>4, <1>5, NextCases, ZenonT(60)
       DEF Poll, StartSweep, StartPublish, Publish, EndMaintenance,
           MaintenanceFails, Fetch, Generate, FailTry, CheckSeen, WriteTask,
           FinishTry, AppendEvent, SaveRunFails, AppendEventFails, Crash, Tick,
           vars
  <1> QED
    BY <1>6 DEF Moved

\* No step queues or claims a finished run again.
THEOREM TerminalStays == Spec => TerminalStable
  <1>1. LeaseInv /\ [Next]_vars
          => [\A r \in Runs : status[r] \in Terminal => status'[r] \in Terminal]_vars
    BY StatusStep DEF Terminal
  <1> QED
    BY <1>1, LeaseInvariant, PTL DEF Spec, TerminalStable

\* No sweep, however stale its listing, requeues a run within the timeout.
THEOREM FreshClaimStays == Spec => FreshClaimNotClobbered
  <1>1. LeaseInv /\ [Next]_vars
          => [\A r \in Runs :
                status[r] = "running" /\ status'[r] = "queued"
                  => startedAt[r] < now - RunningTimeout]_vars
    BY StatusStep DEF Terminal
  <1> QED
    BY <1>1, LeaseInvariant, PTL DEF Spec, FreshClaimNotClobbered

----------------------------------------------------------------------------
(* The outbox *)

\* An execution is about to append the event only after its save, and a relay
\* only holds events that exist.
EventsInFlight ==
    /\ \A w \in Executors : pc[w] = "event" => status[job[w]] \in Terminal
    /\ \A w \in Pollers : \A r \in pending[w] : outbox[r] # None

OutboxInv == LeaseInv /\ OutboxAfterTerminal /\ EventsInFlight

LEMMA OutboxInit == Init => OutboxInv
  BY LeaseInit DEF Init, OutboxInv, OutboxAfterTerminal, EventsInFlight

LEMMA OutboxNext == OutboxInv /\ [Next]_vars => OutboxInv'
  <1> SUFFICES ASSUME OutboxInv, [Next]_vars PROVE OutboxInv'
    OBVIOUS
  <1>0. LeaseInv'
    BY LeaseNext DEF OutboxInv
  <1>t. TypeOK /\ TypeOK'
    BY <1>0 DEF LeaseInv, OutboxInv
  <1>s. \A r \in Runs : status[r] \in Terminal => status'[r] \in Terminal
    BY StatusStep DEF OutboxInv, Terminal
  <1> DEFINE Quiet ==
        /\ UNCHANGED outbox
        /\ \A r \in published' : outbox[r] # None
        /\ \A w \in Executors :
             pc'[w] = "event" => pc[w] = "event" /\ job'[w] = job[w]
        /\ \A w \in Pollers : \A r \in pending'[w] : outbox[r] # None
  <1>q. Quiet => OutboxInv'
    BY <1>0, <1>t, <1>s
       DEF OutboxInv, OutboxAfterTerminal, EventsInFlight, TypeOK, RowsType,
           PlacedLocals, Holding
  <1> HIDE DEF Quiet
  <1>d. /\ pc \in [Executors -> {"idle", "claim", "sweep", "publish"} \cup Holding]
        /\ job \in [Executors -> Runs \cup {None}]
        /\ pending \in [Pollers -> SUBSET Runs]
        /\ \A r \in published : outbox[r] # None
        /\ \A w \in Pollers : \A r \in pending[w] : outbox[r] # None
    BY <1>t DEF TypeOK, LocalsType, SweepsType, OutboxInv, OutboxAfterTerminal,
       EventsInFlight
  <1> USE DEF runVars, taskVars, outboxVars, sweepVars
  <1>1. ASSUME NEW w \in ApiTasks, NEW r \in Runs, CreateRun(w, r) PROVE OutboxInv'
    BY <1>q, <1>d, <1>1 DEF Quiet, CreateRun, Dispatch, Executors
  <1>2. ASSUME NEW w \in Pollers, Poll(w) PROVE OutboxInv'
    BY <1>q, <1>d, <1>2 DEF Quiet, Poll, Dispatch, Executors
  <1>3. ASSUME NEW w \in Executors, Claim(w) PROVE OutboxInv'
    BY <1>q, <1>d, <1>3 DEF Quiet, Claim, Return
  <1>4. ASSUME NEW w \in Executors, Fetch(w) PROVE OutboxInv'
    BY <1>q, <1>d, <1>4 DEF Quiet, Fetch
  <1>5. ASSUME NEW w \in Executors, Generate(w) PROVE OutboxInv'
    BY <1>q, <1>d, <1>5 DEF Quiet, Generate
  <1>6. ASSUME NEW w \in Executors, FailTry(w) PROVE OutboxInv'
    BY <1>q, <1>d, <1>6 DEF Quiet, FailTry, EndTry
  <1>7. ASSUME NEW w \in Executors, CheckSeen(w) PROVE OutboxInv'
    BY <1>q, <1>d, <1>7 DEF Quiet, CheckSeen
  <1>8. ASSUME NEW w \in Executors, WriteTask(w) PROVE OutboxInv'
    BY <1>q, <1>d, <1>8 DEF Quiet, WriteTask
  <1>9. ASSUME NEW w \in Executors, FinishTry(w) PROVE OutboxInv'
    BY <1>q, <1>d, <1>9 DEF Quiet, FinishTry, EndTry
  <1>10. ASSUME NEW w \in Executors, SaveRunFails(w) PROVE OutboxInv'
    BY <1>q, <1>d, <1>10 DEF Quiet, SaveRunFails, Return
  <1>11. ASSUME NEW w \in Executors, AppendEventFails(w) PROVE OutboxInv'
    BY <1>q, <1>d, <1>11 DEF Quiet, AppendEventFails, Return
  <1>12. ASSUME NEW w \in Pollers, StartSweep(w) PROVE OutboxInv'
    BY <1>q, <1>d, <1>12 DEF Quiet, StartSweep, Executors
  <1>13. ASSUME NEW w \in Pollers, ResetStuck(w) PROVE OutboxInv'
    BY <1>q, <1>d, <1>13 DEF Quiet, ResetStuck, Executors
  <1>14. ASSUME NEW w \in Pollers, StartPublish(w) PROVE OutboxInv'
    BY <1>q, <1>d, <1>14 DEF Quiet, StartPublish, Executors
  <1>15. ASSUME NEW w \in Pollers, Publish(w) PROVE OutboxInv'
    BY <1>q, <1>d, <1>15 DEF Quiet, Publish, Executors
  <1>16. ASSUME NEW w \in Pollers, EndMaintenance(w) PROVE OutboxInv'
    BY <1>q, <1>d, <1>16 DEF Quiet, EndMaintenance, Executors
  <1>17. ASSUME NEW w \in Pollers, MaintenanceFails(w) PROVE OutboxInv'
    BY <1>q, <1>d, <1>17 DEF Quiet, MaintenanceFails, Executors
  <1>18. ASSUME NEW w \in Executors, SaveRun(w) PROVE OutboxInv'
    <2>1. job[w] \in Runs /\ work[w].result \in Terminal
      BY <1>t, <1>18 DEF SaveRun, TypeOK, PlacedLocals, Holding, LocalsType, WorkType
    <2>2. status'[job[w]] \in Terminal
      BY <1>t, <1>18, <2>1 DEF SaveRun, TypeOK, RowsType
    <2>3. EventsInFlight'
      BY <1>t, <1>d, <1>s, <1>18, <2>2
         DEF SaveRun, EventsInFlight, OutboxInv, TypeOK, PlacedLocals, Holding
    <2>4. OutboxAfterTerminal'
      BY <1>s, <1>18 DEF SaveRun, OutboxAfterTerminal, OutboxInv
    <2> QED
      BY <1>0, <2>3, <2>4 DEF OutboxInv
  <1>19. ASSUME NEW w \in Executors, AppendEvent(w) PROVE OutboxInv'
    <2>1. job[w] \in Runs /\ work[w].result \in Terminal /\ status[job[w]] \in Terminal
      BY <1>t, <1>19 DEF AppendEvent, TypeOK, PlacedLocals, Holding, LocalsType,
         WorkType, OutboxInv, EventsInFlight
    <2>2. \A r \in Runs : outbox[r] # None => outbox'[r] # None
      BY <1>t, <1>19, <2>1 DEF AppendEvent, TypeOK, RowsType
    <2>3. EventsInFlight'
      BY <1>t, <1>d, <1>19, <2>2
         DEF AppendEvent, Return, EventsInFlight, OutboxInv, TypeOK, SweepsType
    <2>4. OutboxAfterTerminal'
      BY <1>t, <1>19, <2>1, <2>2
         DEF AppendEvent, OutboxAfterTerminal, OutboxInv, TypeOK, RowsType
    <2> QED
      BY <1>0, <2>3, <2>4 DEF OutboxInv
  <1>20. ASSUME NEW p \in Processes, Crash(p) PROVE OutboxInv'
    BY <1>q, <1>d, <1>20 DEF Quiet, Crash
  <1>21. CASE Tick
    BY <1>q, <1>d, <1>21 DEF Quiet, Tick
  <1>22. CASE UNCHANGED vars
    BY <1>q, <1>d, <1>22 DEF Quiet, vars
  <1> QED
    BY <1>1, <1>2, <1>3, <1>4, <1>5, <1>6, <1>7, <1>8, <1>9, <1>10, <1>11,
       <1>12, <1>13, <1>14, <1>15, <1>16, <1>17, <1>18, <1>19, <1>20,
       <1>21, <1>22, NextCases

\* An outbox row always belongs to a finished run, and what is marked
\* published exists.
THEOREM OutboxCorrect == Spec => []OutboxAfterTerminal
  <1>1. OutboxInv => OutboxAfterTerminal
    BY DEF OutboxInv
  <1> QED
    BY OutboxInit, OutboxNext, <1>1, PTL DEF Spec

----------------------------------------------------------------------------
(* Raw bodies *)

InTry == {"generate", "persist", "write"}
BodiesInv == TypeOK /\ RawBodiesBounded

\* Bodies stay only while their execution is in its try block, and end with it.
LEMMA BodiesNext == BodiesInv /\ [Next]_vars => BodiesInv'
  <1> SUFFICES ASSUME BodiesInv, [Next]_vars PROVE BodiesInv'
    OBVIOUS
  <1>t. TypeOK'
    BY TypeNext DEF BodiesInv
  <1>d. /\ pc \in [Executors -> {"idle", "claim", "sweep", "publish"} \cup Holding]
        /\ job \in [Executors -> Runs \cup {None}]
        /\ shortTerm \in [Processes -> SUBSET Runs]
        /\ RawBodiesBounded
    BY DEF BodiesInv, TypeOK, LocalsType
  <1> DEFINE Stays == \A w \in Executors :
               pc[w] \in InTry => pc'[w] \in InTry /\ job'[w] = job[w]
  <1>q. shortTerm' = shortTerm /\ Stays => BodiesInv'
    BY <1>t, <1>d DEF BodiesInv, RawBodiesBounded, InTry
  <1>e. ASSUME NEW w \in Executors, NEW result, EndTry(w, result), UNCHANGED job
        PROVE  BodiesInv'
    <2>1. \A v \in Executors \ {w} : pc'[v] = pc[v]
      BY <1>d, <1>e DEF EndTry
    <2>2. \A p \in Processes : \A r \in shortTerm'[p] :
             r \in shortTerm[p] /\ ~(p = ProcOf(w) /\ r = job[w])
      BY <1>d, <1>e, ProcOfType DEF EndTry
    <2>3. \A p \in Processes : \A r \in shortTerm'[p] :
             \E v \in Executors \ {w} : ProcOf(v) = p /\ job[v] = r /\ pc[v] \in InTry
      BY <1>d, <2>2 DEF RawBodiesBounded, InTry
    <2> QED
      BY <1>t, <1>e, <2>1, <2>3 DEF BodiesInv, RawBodiesBounded, InTry
  <1> HIDE DEF Stays
  <1> USE DEF runVars, taskVars, outboxVars, sweepVars
  <1>1. ASSUME NEW w \in ApiTasks, NEW r \in Runs, CreateRun(w, r) PROVE BodiesInv'
    BY <1>q, <1>d, <1>1 DEF Stays, InTry, CreateRun, Dispatch, Executors
  <1>2. ASSUME NEW w \in Pollers, Poll(w) \/ StartSweep(w) \/ ResetStuck(w)
                 \/ StartPublish(w) \/ Publish(w) \/ EndMaintenance(w) \/ MaintenanceFails(w)
        PROVE BodiesInv'
    BY <1>q, <1>d, <1>2
       DEF Stays, InTry, Poll, Dispatch, StartSweep, ResetStuck, StartPublish, Publish,
           EndMaintenance, MaintenanceFails, Executors
  <1>3. ASSUME NEW w \in Executors, Claim(w) \/ SaveRun(w) \/ AppendEvent(w)
                 \/ SaveRunFails(w) \/ AppendEventFails(w)
        PROVE BodiesInv'
    BY <1>q, <1>d, <1>3
       DEF Stays, InTry, Claim, SaveRun, AppendEvent, SaveRunFails, AppendEventFails, Return
  <1>4. ASSUME NEW w \in Executors, Generate(w) \/ CheckSeen(w) \/ WriteTask(w)
        PROVE BodiesInv'
    BY <1>q, <1>d, <1>4 DEF Stays, InTry, Generate, CheckSeen, WriteTask
  <1>5. ASSUME NEW w \in Executors, FailTry(w) \/ FinishTry(w) PROVE BodiesInv'
    BY <1>e, <1>5 DEF FailTry, FinishTry
  <1>6. ASSUME NEW w \in Executors, Fetch(w) PROVE BodiesInv'
    <2>1. /\ pc' = [pc EXCEPT ![w] = "generate"] /\ job' = job
          /\ shortTerm' = [shortTerm EXCEPT ![ProcOf(w)] = @ \cup {job[w]}]
          /\ pc[w] = "fetch"
      BY <1>6 DEF Fetch
    <2>2. \A p \in Processes : \A r \in shortTerm'[p] :
             r \in shortTerm[p] \/ (p = ProcOf(w) /\ r = job[w])
      BY <1>d, <2>1, ProcOfType
    <2>3. Stays
      BY <1>d, <2>1 DEF Stays, InTry
    <2> QED
      BY <1>t, <1>d, <2>1, <2>2, <2>3 DEF BodiesInv, RawBodiesBounded, Stays, InTry
  <1>7. ASSUME NEW p \in Processes, Crash(p) PROVE BodiesInv'
    <2>1. /\ pc' = [w \in Executors |-> IF ProcOf(w) = p THEN "idle" ELSE pc[w]]
          /\ job' = [w \in Executors |-> IF ProcOf(w) = p THEN None ELSE job[w]]
          /\ shortTerm' = [shortTerm EXCEPT ![p] = {}]
      BY <1>d, <1>7 DEF Crash
    <2> QED
      BY <1>t, <1>d, <2>1 DEF BodiesInv, RawBodiesBounded
  <1>8. CASE Tick
    BY <1>q, <1>d, <1>8 DEF Stays, Tick
  <1>9. CASE UNCHANGED vars
    BY <1>q, <1>d, <1>9 DEF Stays, vars
  <1> QED
    BY <1>1, <1>2, <1>3, <1>4, <1>5, <1>6, <1>7, <1>8, <1>9, NextCases

\* A process keeps the raw bodies of a run only while one of its executions of
\* that run is between put and the finalizer.
THEOREM BodiesCorrect == Spec => []RawBodiesBounded
  <1>1. Init => BodiesInv
    BY TypeInit DEF Init, BodiesInv, RawBodiesBounded
  <1>2. BodiesInv => RawBodiesBounded
    BY DEF BodiesInv
  <1> QED
    BY <1>1, <1>2, BodiesNext, PTL DEF Spec

----------------------------------------------------------------------------
(* Advertised items *)

\* An execution has linked what it no longer has to save, and all of its plan
\* when its result is not a failure.
SavedSoFar ==
    \A w \in Executors :
        /\ pc[w] \in {"persist", "write"} =>
              Planned(work[w].plan) \ work[w].left \subseteq Linked(job[w])
        /\ pc[w] = "save" /\ work[w].result # "failed" =>
              Planned(work[w].plan) \subseteq Linked(job[w])

ListedInv == TypeOK /\ SavedSoFar /\ AdvertisedItemsListed

\* Linked after a step, and that links are only ever added.
LinkedAfter(r) == {m \in Messages : links'[r][m] # None}
LinksStay == \A r \in Runs : Linked(r) \subseteq Linked(r)'

\* What a longer list still lists.
LEMMA ListedMore ==
    ASSUME NEW r \in Runs, Linked(r) \subseteq Linked(r)'
    PROVE  /\ Cardinality(Linked(r)) \in Nat /\ Cardinality(Linked(r)') \in Nat
           /\ Cardinality(Linked(r)) <= Cardinality(Linked(r)')
  <1>1. IsFiniteSet(Linked(r)) /\ IsFiniteSet(Linked(r)')
    BY ConstantsAssumption, FS_Subset DEF Linked
  <1> QED
    BY <1>1, FS_Subset, FS_CardinalityType

\* No execution forgets what it linked, and no result says more than is linked.
LEMMA ListedNext == ListedInv /\ [Next]_vars => ListedInv'
  <1> SUFFICES ASSUME ListedInv, [Next]_vars PROVE ListedInv'
    OBVIOUS
  <1>t. TypeOK /\ TypeOK'
    BY TypeNext DEF ListedInv
  <1>d. /\ pc \in [Executors -> {"idle", "claim", "sweep", "publish"} \cup Holding]
        /\ job \in [Executors -> Runs \cup {None}]
        /\ work \in [Executors -> WorkType]
        /\ links \in [Runs -> [Messages -> {"new", "seen", None}]]
        /\ status \in [Runs -> RunStatus] /\ itemCount \in [Runs -> Nat]
        /\ \A w \in Executors : pc[w] \in Holding => job[w] \in Runs
    BY <1>t DEF TypeOK, RowsType, LocalsType, PlacedLocals
  <1> DEFINE Rows == \A r \in Runs :
               status'[r] \in {"succeeded", "partial"} =>
                  status'[r] = status[r] /\ itemCount'[r] = itemCount[r]
             Same(w) == /\ pc'[w] = pc[w] /\ job'[w] = job[w]
                        /\ work'[w].plan = work[w].plan /\ work'[w].left = work[w].left
                        /\ work'[w].result = work[w].result
             Away(w) == pc'[w] \notin {"persist", "write", "save"}
  <1>a. Rows /\ LinksStay => AdvertisedItemsListed'
    BY <1>d, ListedMore DEF ListedInv, AdvertisedItemsListed, LinksStay
  <1>b. ASSUME NEW w \in Executors, LinksStay, Same(w) \/ Away(w)
        PROVE  /\ pc'[w] \in {"persist", "write"} =>
                     Planned(work'[w].plan) \ work'[w].left \subseteq LinkedAfter(job'[w])
               /\ pc'[w] = "save" /\ work'[w].result # "failed" =>
                     Planned(work'[w].plan) \subseteq LinkedAfter(job'[w])
    BY <1>d, <1>b DEF ListedInv, SavedSoFar, LinksStay, Linked, LinkedAfter, Holding
  <1>q. ASSUME Rows, LinksStay, \A w \in Executors : Same(w) \/ Away(w)
        PROVE  ListedInv'
    BY <1>t, <1>a, <1>b, <1>q DEF ListedInv, SavedSoFar, Linked, LinkedAfter
  <1>u. UNCHANGED links => LinksStay
    BY DEF LinksStay, Linked, LinkedAfter
  <1> HIDE DEF Rows, Same, Away
  <1> USE DEF runVars, taskVars, outboxVars, sweepVars
  <1>1. ASSUME NEW w \in ApiTasks, NEW r \in Runs, CreateRun(w, r) PROVE ListedInv'
    BY <1>q, <1>u, <1>d, <1>1 DEF Rows, Same, Away, CreateRun, Dispatch, Executors
  <1>2. ASSUME NEW w \in Pollers, Poll(w) \/ StartSweep(w) \/ ResetStuck(w)
                 \/ StartPublish(w) \/ Publish(w) \/ EndMaintenance(w) \/ MaintenanceFails(w)
        PROVE ListedInv'
    BY <1>q, <1>u, <1>d, <1>2
       DEF Rows, Same, Away, Poll, Dispatch, StartSweep, ResetStuck, StartPublish, Publish,
           EndMaintenance, MaintenanceFails, Executors
  <1>3. ASSUME NEW w \in Executors, Claim(w) \/ Fetch(w) \/ AppendEvent(w)
                 \/ SaveRunFails(w) \/ AppendEventFails(w)
        PROVE ListedInv'
    BY <1>q, <1>u, <1>d, <1>3
       DEF Rows, Same, Away, Claim, Fetch, AppendEvent, SaveRunFails, AppendEventFails, Return
  <1>o. ASSUME NEW w \in Executors, LinksStay, Rows,
               \A v \in Executors \ {w} : Same(v) \/ Away(v),
               /\ pc'[w] \in {"persist", "write"} =>
                     Planned(work'[w].plan) \ work'[w].left \subseteq LinkedAfter(job'[w])
               /\ pc'[w] = "save" /\ work'[w].result # "failed" =>
                     Planned(work'[w].plan) \subseteq LinkedAfter(job'[w])
        PROVE  ListedInv'
    BY <1>t, <1>a, <1>b, <1>o DEF ListedInv, SavedSoFar, Linked, LinkedAfter
  <1>4. ASSUME NEW w \in Executors, Generate(w) PROVE ListedInv'
    <2>1. PICK p : /\ work' = [work EXCEPT ![w].plan = p, ![w].left = Planned(p)]
                   /\ pc' = [pc EXCEPT ![w] = "persist"] /\ job' = job
                   /\ UNCHANGED <<status, itemCount, links>>
      BY <1>4 DEF Generate
    <2>2. pc'[w] = "persist" /\ work'[w].plan = p /\ work'[w].left = Planned(p)
      BY <1>d, <2>1 DEF WorkType
    <2>3. \A v \in Executors \ {w} : Same(v)
      BY <1>d, <2>1 DEF Same
    <2> QED
      BY <1>o, <1>u, <2>1, <2>2, <2>3 DEF Rows
  <1>5. ASSUME NEW w \in Executors, FailTry(w) \/ FinishTry(w) PROVE ListedInv'
    <2>1. /\ pc' = [pc EXCEPT ![w] = "save"] /\ job' = job
          /\ UNCHANGED <<status, itemCount, links>>
          /\ \/ work' = [work EXCEPT ![w].result = "failed"]
             \/ /\ pc[w] = "persist" /\ work[w].left = {}
                /\ \E x : work' = [work EXCEPT ![w].result = x]
      BY <1>5 DEF FailTry, FinishTry, EndTry
    <2>2. /\ pc'[w] = "save" /\ work'[w].plan = work[w].plan
          /\ work'[w].result = "failed" \/ (pc[w] = "persist" /\ work[w].left = {})
      BY <1>d, <2>1 DEF WorkType
    <2>3. \A v \in Executors \ {w} : Same(v)
      BY <1>d, <2>1 DEF Same
    <2>4. pc[w] = "persist" /\ work[w].left = {} => Planned(work[w].plan) \subseteq Linked(job[w])
      BY DEF ListedInv, SavedSoFar
    <2>5. LinkedAfter(job'[w]) = Linked(job[w])
      BY <2>1 DEF Linked, LinkedAfter
    <2> QED
      BY <1>o, <1>u, <2>1, <2>2, <2>3, <2>4, <2>5 DEF Rows
  <1>6. ASSUME NEW w \in Executors, CheckSeen(w) PROVE ListedInv'
    <2>1. /\ pc[w] = "persist" /\ pc' = [pc EXCEPT ![w] = "write"] /\ job' = job
          /\ UNCHANGED <<status, itemCount, links>>
          /\ \E m, b : work' = [work EXCEPT ![w].msg = m, ![w].seen = b]
      BY <1>6 DEF CheckSeen
    <2>2. /\ pc'[w] = "write" /\ work'[w].plan = work[w].plan
          /\ work'[w].left = work[w].left
      BY <1>d, <2>1 DEF WorkType
    <2>3. \A v \in Executors \ {w} : Same(v)
      BY <1>d, <2>1 DEF Same
    <2>4. Planned(work[w].plan) \ work[w].left \subseteq Linked(job[w])
      BY <2>1 DEF ListedInv, SavedSoFar
    <2>5. LinkedAfter(job'[w]) = Linked(job[w])
      BY <2>1 DEF Linked, LinkedAfter
    <2> QED
      BY <1>o, <1>u, <2>1, <2>2, <2>3, <2>4, <2>5 DEF Rows
  <1>7. ASSUME NEW w \in Executors, WriteTask(w) PROVE ListedInv'
    <2> DEFINE m == work[w].msg
    <2>1. /\ pc[w] = "write" /\ pc' = [pc EXCEPT ![w] = "persist"] /\ job' = job
          /\ UNCHANGED <<status, itemCount>>
          /\ links' = [links EXCEPT ![job[w]][m] =
                         IF @ # None THEN @ ELSE IF work[w].seen THEN "seen" ELSE "new"]
          /\ work' = [work EXCEPT ![w].left = @ \ {m}, ![w].msg = None, ![w].seen = FALSE]
      BY <1>7 DEF WriteTask
    <2>2. job[w] \in Runs /\ m \in Messages
      BY <1>t, <1>d, <2>1 DEF Holding, TypeOK, PlacedLocals, WorkType
    <2>3. /\ pc'[w] = "persist" /\ work'[w].plan = work[w].plan
          /\ work'[w].left = work[w].left \ {m}
      BY <1>d, <2>1 DEF WorkType
    <2>4. \A v \in Executors \ {w} : Same(v)
      BY <1>d, <2>1 DEF Same
    <2>5. \A r \in Runs, n \in Messages : links[r][n] # None => links'[r][n] # None
      BY <1>d, <2>1, <2>2, ConstantsAssumption
    <2>6. links'[job[w]][m] # None
      BY <1>d, <2>1, <2>2, ConstantsAssumption
    <2>7. LinksStay /\ m \in LinkedAfter(job'[w]) /\ Linked(job[w]) \subseteq LinkedAfter(job'[w])
      BY <2>1, <2>2, <2>5, <2>6 DEF LinksStay, Linked, LinkedAfter
    <2>8. Planned(work[w].plan) \ work[w].left \subseteq Linked(job[w])
      BY <2>1 DEF ListedInv, SavedSoFar
    <2> QED
      BY <1>o, <2>1, <2>3, <2>4, <2>7, <2>8 DEF Rows
  <1>8. ASSUME NEW w \in Executors, SaveRun(w) PROVE ListedInv'
    <2>1. /\ pc[w] = "save" /\ pc' = [pc EXCEPT ![w] = "event"]
          /\ UNCHANGED <<job, work, links>>
          /\ status' = [status EXCEPT ![job[w]] = work[w].result]
          /\ itemCount' = [itemCount EXCEPT ![job[w]] =
                              IF work[w].result = "failed" THEN 0
                              ELSE Cardinality(Planned(work[w].plan))]
      BY <1>8 DEF SaveRun
    <2>2. job[w] \in Runs
      BY <1>d, <2>1 DEF Holding
    <2>3. \A v \in Executors : Same(v) \/ Away(v)
      BY <1>d, <2>1 DEF Same, Away
    <2>4. work[w].result # "failed" =>
             /\ Planned(work[w].plan) \subseteq Linked(job[w])
             /\ Cardinality(Planned(work[w].plan)) <= Cardinality(Linked(job[w]))
      <3>1. IsFiniteSet(Linked(job[w]))
        BY ConstantsAssumption, FS_Subset DEF Linked, LinkedAfter
      <3>2. work[w].result # "failed" => Planned(work[w].plan) \subseteq Linked(job[w])
        BY <2>1 DEF ListedInv, SavedSoFar
      <3> QED
        BY <3>1, <3>2, FS_Subset
    <2>5. \A r \in Runs : Linked(r)' = Linked(r)
      BY <2>1 DEF Linked, LinkedAfter
    <2>6. AdvertisedItemsListed'
      <3> SUFFICES ASSUME NEW r \in Runs, status'[r] \in {"succeeded", "partial"}
                   PROVE  itemCount'[r] <= Cardinality(Linked(r)')
        BY DEF AdvertisedItemsListed
      <3>1. CASE r = job[w]
        BY <1>d, <2>1, <2>4, <2>5, <3>1
      <3>2. CASE r # job[w]
        BY <1>d, <2>1, <2>5, <3>2 DEF ListedInv, AdvertisedItemsListed
      <3> QED
        BY <3>1, <3>2
    <2> QED
      BY <1>t, <1>b, <1>u, <2>1, <2>3, <2>6 DEF ListedInv, SavedSoFar, Linked, LinkedAfter
  <1>9. ASSUME NEW p \in Processes, Crash(p) PROVE ListedInv'
    <2>1. /\ pc' = [w \in Executors |-> IF ProcOf(w) = p THEN "idle" ELSE pc[w]]
          /\ job' = [w \in Executors |-> IF ProcOf(w) = p THEN None ELSE job[w]]
          /\ work' = [w \in Executors |-> IF ProcOf(w) = p THEN NoWork ELSE work[w]]
          /\ UNCHANGED <<status, itemCount, links>>
      BY <1>d, <1>9 DEF Crash
    <2> QED
      BY <1>q, <1>u, <1>d, <2>1 DEF Rows, Same, Away
  <1>10. CASE Tick
    BY <1>q, <1>u, <1>10 DEF Rows, Same, Away, Tick
  <1>11. CASE UNCHANGED vars
    BY <1>q, <1>u, <1>11 DEF Rows, Same, Away, vars
  <1> QED
    BY <1>1, <1>2, <1>3, <1>4, <1>5, <1>6, <1>7, <1>8, <1>9, <1>10, <1>11, NextCases

\* A finished run lists at least the tasks it advertises, also after replays,
\* superseded executions and failed attempts.
THEOREM ItemsCorrect == Spec => []AdvertisedItemsListed
  <1>1. Init => ListedInv
    BY TypeInit DEF Init, ListedInv, SavedSoFar, AdvertisedItemsListed
  <1>2. ListedInv => AdvertisedItemsListed
    BY DEF ListedInv
  <1> QED
    BY <1>1, <1>2, ListedNext, PTL DEF Spec

----------------------------------------------------------------------------
(* The refinement of RunLifecycle *)

\* An execution works on a run that was created.
Created ==
    \A w \in Executors : pc[w] \in Holding \cup {"claim"} => status[job[w]] # "absent"

RefineInv == OutboxInv /\ ListedInv /\ Created

LEMMA CreatedNext == OutboxInv /\ Created /\ [Next]_vars => Created'
  <1> SUFFICES ASSUME OutboxInv, Created, [Next]_vars PROVE Created'
    OBVIOUS
  <1>t. TypeOK /\ TypeOK' /\ LeaseInv
    BY TypeNext DEF OutboxInv, LeaseInv
  <1>d. /\ pc \in [Executors -> {"idle", "claim", "sweep", "publish"} \cup Holding]
        /\ job \in [Executors -> Runs \cup {None}]
        /\ status \in [Runs -> RunStatus]
        /\ \A w \in Executors : pc[w] \in Holding \cup {"claim"} => job[w] \in Runs
    BY <1>t DEF TypeOK, RowsType, LocalsType, PlacedLocals
  <1>s. \A r \in Runs : status[r] # "absent" => status'[r] # "absent"
    BY <1>t, StatusStep DEF Terminal
  <1> DEFINE Same(w) == /\ pc'[w] \in Holding \cup {"claim"}
                        => pc[w] \in Holding \cup {"claim"} /\ job'[w] = job[w]
             Fresh(w) == pc'[w] = "claim" /\ job'[w] \in Runs /\ status'[job'[w]] # "absent"
  <1>q. (\A w \in Executors : Same(w) \/ Fresh(w)) => Created'
    BY <1>d, <1>s DEF Created
  <1> HIDE DEF Same, Fresh
  <1> USE DEF Holding
  <1>1. ASSUME NEW w \in ApiTasks, NEW r \in Runs, CreateRun(w, r) PROVE Created'
    <2>1. Fresh(w)
      BY <1>d, <1>1 DEF Fresh, CreateRun, Dispatch, Executors, RunStatus
    <2>2. \A v \in Executors \ {w} : Same(v)
      BY <1>d, <1>1 DEF Same, CreateRun, Dispatch, Executors
    <2> QED
      BY <1>q, <2>1, <2>2
  <1>2. ASSUME NEW w \in Pollers, Poll(w) PROVE Created'
    <2>1. Fresh(w)
      BY <1>d, <1>2 DEF Fresh, Poll, Oldest, Dispatch, Executors, runVars
    <2>2. \A v \in Executors \ {w} : Same(v)
      BY <1>d, <1>2 DEF Same, Poll, Dispatch, Executors
    <2> QED
      BY <1>q, <2>1, <2>2
  <1>3. ASSUME NEW w \in Executors,
               Claim(w) \/ AppendEvent(w) \/ SaveRunFails(w) \/ AppendEventFails(w)
        PROVE  Created'
    BY <1>q, <1>d, <1>3 DEF Same, Claim, AppendEvent, SaveRunFails, AppendEventFails, Return
  <1>4. ASSUME NEW w \in Executors,
               \/ Fetch(w) \/ Generate(w) \/ FailTry(w) \/ CheckSeen(w)
               \/ WriteTask(w) \/ FinishTry(w) \/ SaveRun(w)
        PROVE  Created'
    <2>1. \A v \in Executors : Same(v)
      BY <1>d, <1>4 DEF Same, Fetch, Generate, FailTry, CheckSeen, WriteTask, FinishTry,
         SaveRun, EndTry
    <2> QED
      BY <1>q, <2>1
  <1>5. ASSUME NEW w \in Pollers,
               \/ StartSweep(w) \/ ResetStuck(w) \/ StartPublish(w) \/ Publish(w)
               \/ EndMaintenance(w) \/ MaintenanceFails(w)
        PROVE  Created'
    <2>1. \A v \in Executors : Same(v)
      BY <1>d, <1>5 DEF Same, StartSweep, ResetStuck, StartPublish, Publish, EndMaintenance,
         MaintenanceFails, Executors
    <2> QED
      BY <1>q, <2>1
  <1>6. ASSUME NEW p \in Processes, Crash(p) PROVE Created'
    <2>1. /\ pc' = [w \in Executors |-> IF ProcOf(w) = p THEN "idle" ELSE pc[w]]
          /\ job' = [w \in Executors |-> IF ProcOf(w) = p THEN None ELSE job[w]]
      BY <1>d, <1>6 DEF Crash
    <2>2. \A v \in Executors : Same(v)
      BY <1>d, <2>1 DEF Same
    <2> QED
      BY <1>q, <2>2
  <1>7. ASSUME UNCHANGED <<pc, job>> PROVE Created'
    BY <1>q, <1>7 DEF Same
  <1> QED
    BY <1>1, <1>2, <1>3, <1>4, <1>5, <1>6, <1>7, NextCases DEF Tick, vars

\* The variables of RunLifecycle.
Shown == <<[r \in Runs |-> PhaseOf(status[r])], links, itemCount, outbox, published>>

\* Statuses and verdicts do not clash, and None is no label.
LEMMA LifecycleValues ==
    /\ Lifecycle!Verdicts = Terminal /\ Lifecycle!Labels = {"new", "seen"}
    /\ \A s \in RunStatus : PhaseOf(s) \in {"none", "pending"} \cup Terminal
    /\ \A s \in RunStatus : PhaseOf(s) = "none" <=> s = "absent"
    /\ \A s \in Terminal : PhaseOf(s) = s
    /\ None \notin {"new", "seen"} \cup Terminal
  BY ConstantsAssumption DEF Lifecycle!Verdicts, Lifecycle!Labels, PhaseOf, Terminal, RunStatus

\* RunLifecycle counts as DigestRuns does.
LEMMA SameCount == ASSUME NEW S PROVE Lifecycle!Cardinality(S) = Cardinality(S)
  BY DEF Lifecycle!Cardinality, Cardinality

\* A save by the execution of w is the end of its run, with no more items than
\* it has linked.
LEMMA SaveFinishes ==
    ASSUME RefineInv, NEW w \in Executors, SaveRun(w)
    PROVE  Lifecycle!Next
  <1> DEFINE r == job[w]
             n == IF work[w].result = "failed" THEN 0
                  ELSE Cardinality(Planned(work[w].plan))
  <1>1. /\ TypeOK /\ r \in Runs /\ work[w].result \in Terminal
        /\ status[r] \in RunStatus \ {"absent"}
    BY DEF SaveRun, RefineInv, OutboxInv, LeaseInv, Created, TypeOK, PlacedLocals,
           LocalsType, RowsType, WorkType, Holding
  <1>2. n \in 0 .. Cardinality(Linked(r))
    <2>1. IsFiniteSet(Linked(r))
      BY ConstantsAssumption, FS_Subset DEF Linked
    <2>2. Cardinality(Linked(r)) \in Nat
      BY <2>1, FS_CardinalityType
    <2>3. work[w].result # "failed" => Planned(work[w].plan) \subseteq Linked(r)
      BY DEF SaveRun, RefineInv, ListedInv, SavedSoFar
    <2>4. /\ work[w].result # "failed" =>
                Cardinality(Planned(work[w].plan)) <= Cardinality(Linked(r))
          /\ Cardinality(Planned(work[w].plan)) \in Nat
      BY <2>1, <2>3, FS_Subset, PlannedFinite
    <2> QED
      BY <2>2, <2>4
  <1>3. Lifecycle!Items(r) = Linked(r)
    BY DEF Lifecycle!Items, Linked
  <1>4. itemCount' = [itemCount EXCEPT ![r] = n]
    BY DEF SaveRun
  <1>5. [q \in Runs |-> PhaseOf(status'[q])]
          = [[q \in Runs |-> PhaseOf(status[q])] EXCEPT ![r] = work[w].result]
    BY <1>1, LifecycleValues DEF SaveRun, TypeOK, RowsType
  <1>6. [q \in Runs |-> PhaseOf(status[q])][r] # "none"
    BY <1>1, LifecycleValues
  <1>7. UNCHANGED <<links, outbox, published>>
    BY DEF SaveRun, taskVars, outboxVars
  <1>8. work[w].result = "failed" => n = 0
    OBVIOUS
  <1> HIDE DEF n
  <1>9. Lifecycle!Finish(r, work[w].result)
    BY <1>2, <1>3, <1>4, <1>5, <1>6, <1>7, <1>8, SameCount DEF Lifecycle!Finish
  <1> QED
    BY <1>1, <1>9, LifecycleValues DEF Lifecycle!Next

LEMMA ShownStep == RefineInv /\ [Next]_vars => [Lifecycle!Next]_Shown
  <1> SUFFICES ASSUME RefineInv, [Next]_vars PROVE [Lifecycle!Next]_Shown
    OBVIOUS
  <1>t. TypeOK
    BY DEF RefineInv, ListedInv
  <1>d. /\ status \in [Runs -> RunStatus]
        /\ links \in [Runs -> [Messages -> {"new", "seen", None}]]
        /\ outbox \in [Runs -> Terminal \cup {None}]
        /\ \A w \in Executors : pc[w] \in Holding \cup {"claim"} =>
             job[w] \in Runs /\ status[job[w]] # "absent"
        /\ \A w \in Executors : work[w].result \in Terminal
    BY <1>t DEF TypeOK, RowsType, LocalsType, PlacedLocals, WorkType, RefineInv, Created
  <1> USE DEF runVars, taskVars, outboxVars
  <1>1. ASSUME NEW w \in ApiTasks, NEW r \in Runs, CreateRun(w, r)
        PROVE  [Lifecycle!Next]_Shown
    <2>1. CASE status[r] = "absent"
      <3>1. status' = [status EXCEPT ![r] = "queued"]
        BY <1>1, <2>1 DEF CreateRun
      <3>2. [q \in Runs |-> PhaseOf(status'[q])]
              = [[q \in Runs |-> PhaseOf(status[q])] EXCEPT ![r] = "pending"]
        BY <1>d, <3>1 DEF PhaseOf, Terminal
      <3>3. Lifecycle!Create(r)
        BY <1>1, <2>1, <3>2, LifecycleValues, <1>d DEF CreateRun, Lifecycle!Create
      <3> QED
        BY <3>3 DEF Lifecycle!Next
    <2>2. CASE status[r] # "absent"
      BY <1>1, <2>2 DEF CreateRun, Shown
    <2> QED
      BY <2>1, <2>2
  <1>2. ASSUME NEW w \in Executors, WriteTask(w) PROVE [Lifecycle!Next]_Shown
    <2> DEFINE m == work[w].msg
    <2>1. job[w] \in Runs /\ status[job[w]] # "absent" /\ m \in Messages
      BY <1>2, <1>d, <1>t DEF WriteTask, Holding, TypeOK, PlacedLocals, LocalsType, WorkType
    <2>2. CASE links[job[w]][m] # None
      <3>1. links' = links
        BY <1>2, <1>d, <2>1, <2>2 DEF WriteTask
      <3> QED
        BY <1>2, <3>1 DEF WriteTask, Shown
    <2>3. CASE links[job[w]][m] = None
      <3>1. \E label \in {"new", "seen"} : links' = [links EXCEPT ![job[w]][m] = label]
        BY <1>2, <1>d, <2>1, <2>3 DEF WriteTask
      <3>2. [q \in Runs |-> PhaseOf(status[q])][job[w]] # "none"
        BY <1>d, <2>1, LifecycleValues
      <3>3. Lifecycle!List(job[w], m)
        BY <1>2, <2>3, <3>1, <3>2, LifecycleValues DEF WriteTask, Lifecycle!List
      <3> QED
        BY <2>1, <3>3 DEF Lifecycle!Next
    <2> QED
      BY <2>2, <2>3
  <1>3. ASSUME NEW w \in Executors, SaveRun(w) PROVE [Lifecycle!Next]_Shown
    BY <1>3, SaveFinishes
  <1>4. ASSUME NEW w \in Executors, AppendEvent(w) PROVE [Lifecycle!Next]_Shown
    <2> DEFINE r == job[w]
    <2>1. r \in Runs /\ status[r] \in Terminal /\ work[w].result \in Terminal
      BY <1>4, <1>d DEF AppendEvent, Holding, RefineInv, OutboxInv, EventsInFlight
    <2>2. CASE outbox[r] # None
      <3>1. outbox' = outbox
        BY <1>4, <1>d, <2>1, <2>2 DEF AppendEvent
      <3> QED
        BY <1>4, <3>1 DEF AppendEvent, Shown
    <2>3. CASE outbox[r] = None
      <3>1. outbox' = [outbox EXCEPT ![r] = work[w].result]
        BY <1>4, <1>d, <2>1, <2>3 DEF AppendEvent
      <3>2. [q \in Runs |-> PhaseOf(status[q])][r] \in Terminal
        BY <2>1, LifecycleValues
      <3>3. Lifecycle!Announce(r, work[w].result)
        BY <1>4, <2>3, <3>1, <3>2, LifecycleValues DEF AppendEvent, Lifecycle!Announce
      <3> QED
        BY <2>1, <3>3, LifecycleValues DEF Lifecycle!Next
    <2> QED
      BY <2>2, <2>3
  <1>5. ASSUME NEW w \in Pollers, Publish(w) PROVE [Lifecycle!Next]_Shown
    <2>1. PICK r \in pending[w] : published' = published \cup {r}
      BY <1>5 DEF Publish
    <2>2. r \in Runs /\ outbox[r] # None
      BY <1>t, <2>1 DEF TypeOK, SweepsType, RefineInv, OutboxInv, EventsInFlight
    <2>3. Lifecycle!Relay(r)
      BY <1>5, <2>1, <2>2 DEF Publish, Lifecycle!Relay
    <2> QED
      BY <2>2, <2>3 DEF Lifecycle!Next
  <1>6. ASSUME UNCHANGED <<links, itemCount, outbox, published>>,
               \A r \in Runs : PhaseOf(status'[r]) = PhaseOf(status[r])
        PROVE  [Lifecycle!Next]_Shown
    BY <1>6 DEF Shown
  <1>7. ASSUME NEW w \in Executors, Claim(w) PROVE [Lifecycle!Next]_Shown
    BY <1>6, <1>7, <1>d DEF Claim, PhaseOf, Terminal
  <1>8. ASSUME NEW w \in Pollers, ResetStuck(w) PROVE [Lifecycle!Next]_Shown
    BY <1>6, <1>8, <1>d DEF ResetStuck, PhaseOf, Terminal
  <1>9. ASSUME UNCHANGED <<status, links, itemCount, outbox, published>>
        PROVE  [Lifecycle!Next]_Shown
    BY <1>9 DEF Shown
  <1> HIDE DEF runVars, taskVars, outboxVars
  <1>10. ASSUME NEW w \in Pollers,
                \/ Poll(w) \/ StartSweep(w) \/ StartPublish(w)
                \/ EndMaintenance(w) \/ MaintenanceFails(w)
         PROVE  [Lifecycle!Next]_Shown
    BY <1>9, <1>10 DEF Poll, StartSweep, StartPublish, EndMaintenance, MaintenanceFails,
       runVars, taskVars, outboxVars
  <1>11. ASSUME NEW w \in Executors,
                \/ Fetch(w) \/ Generate(w) \/ FailTry(w) \/ CheckSeen(w) \/ FinishTry(w)
                \/ SaveRunFails(w) \/ AppendEventFails(w)
         PROVE  [Lifecycle!Next]_Shown
    BY <1>9, <1>11 DEF Fetch, Generate, FailTry, CheckSeen, FinishTry, SaveRunFails,
       AppendEventFails, runVars, taskVars, outboxVars
  <1>12. ASSUME (\E p \in Processes : Crash(p)) \/ Tick \/ UNCHANGED vars
         PROVE  [Lifecycle!Next]_Shown
    BY <1>9, <1>12 DEF Crash, Tick, vars, runVars, taskVars, outboxVars
  <1> QED
    BY <1>1, <1>2, <1>3, <1>4, <1>5, <1>7, <1>8, <1>10, <1>11, <1>12, NextCases

\* For its owner and for the consumers of its event a run is what RunLifecycle
\* says, for any runs, processes, messages, timeout and faults.
THEOREM RunCorrect == Spec => RunRefined
  <1>1. Init => RefineInv
    <2>1. Init => ListedInv
      BY TypeInit DEF Init, ListedInv, SavedSoFar, AdvertisedItemsListed
    <2>2. Init => Created
      BY DEF Init, Created, Holding
    <2> QED
      BY <2>1, <2>2, OutboxInit DEF RefineInv
  <1>2. RefineInv /\ [Next]_vars => RefineInv'
    BY OutboxNext, ListedNext, CreatedNext DEF RefineInv
  <1>3. Init => Lifecycle!Init
    BY DEF Init, Lifecycle!Init, PhaseOf
  <1>4. RefineInv /\ [Next]_vars =>
          [Lifecycle!Next]_<<[r \in Runs |-> PhaseOf(status[r])],
                             links, itemCount, outbox, published>>
    BY ShownStep DEF Shown
  <1> QED
    BY <1>1, <1>2, <1>3, <1>4, PTL DEF Spec, RunRefined, Lifecycle!Spec
=============================================================================
