---------------------------- MODULE JobLifecycle ----------------------------
(***************************************************************************)
(* What a client of the evaluation API is promised about its job, whatever *)
(* runner, lane, cancellation or restart is at work on it: units are       *)
(* settled once, a cancellation is final, and an outcome, once announced,  *)
(* keeps the result that was there when it was announced.  A verdict keeps *)
(* the progress too; a cancelled job may still see a unit settled, by a    *)
(* write its stopped lanes have left behind.                               *)
(***************************************************************************)
CONSTANTS Jobs, Units

VARIABLES
    stage,  \* how far the job is for its client
    done,   \* the units settled, and as what
    result  \* the public manifest

Open == "open"
Verdicts == {"succeeded", "partially_succeeded", "failed"}

Init ==
    /\ stage = [j \in Jobs |-> "none"]
    /\ done = [j \in Jobs |-> [u \in Units |-> "open"]]
    /\ result = [j \in Jobs |-> "none"]

Accept(j) ==
    /\ stage[j] = "none"
    /\ stage' = [stage EXCEPT ![j] = Open]
    /\ UNCHANGED <<done, result>>

Settle(j, u) ==
    /\ stage[j] \in {Open, "cancelling", "cancelled"} /\ done[j][u] = "open"
    /\ \E s \in {"succeeded", "failed", "cancelled"} : done' = [done EXCEPT ![j][u] = s]
    /\ UNCHANGED <<stage, result>>

\* A manifest may be written and rewritten until the job has ended.
Report(j) ==
    /\ stage[j] \in {Open, "cancelling"}
    /\ \E r \in {"report", "failed", "cancelled"} : result' = [result EXCEPT ![j] = r]
    /\ UNCHANGED <<stage, done>>

Cancel(j) ==
    /\ stage[j] = Open
    /\ stage' = [stage EXCEPT ![j] = "cancelling"]
    /\ UNCHANGED <<done, result>>

\* A success of any kind has a report, and full success has every unit; a
\* failure may be without manifest (README, Seen while modelling).
End(j, v) ==
    /\ stage[j] = Open
    /\ v = "succeeded" => \A u \in Units : done[j][u] = "succeeded"
    /\ v = "partially_succeeded" => \E u \in Units : done[j][u] = "succeeded"
    /\ v # "failed" => result[j] = "report"
    /\ stage' = [stage EXCEPT ![j] = v]
    /\ UNCHANGED <<done, result>>

EndCancelled(j) ==
    /\ stage[j] = "cancelling"
    /\ result[j] \in {"report", "cancelled"}
    /\ stage' = [stage EXCEPT ![j] = "cancelled"]
    /\ UNCHANGED <<done, result>>

Next ==
    \E j \in Jobs :
       \/ Accept(j) \/ Report(j) \/ Cancel(j) \/ EndCancelled(j)
       \/ \E u \in Units : Settle(j, u)
       \/ \E v \in Verdicts : End(j, v)

Spec == Init /\ [][Next]_<<stage, done, result>>
=============================================================================
