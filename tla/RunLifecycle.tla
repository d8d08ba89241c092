---------------------------- MODULE RunLifecycle ----------------------------
(***************************************************************************)
(* What the owner of a digest run and the consumers of its event are       *)
(* promised, whatever API tasks, pollers, sweeps, replays, superseded      *)
(* executions and crashes work on it: an item once listed stays, with the  *)
(* label it was given first; the count of a finished run never exceeds its *)
(* list; and a run is announced once, after it has finished, and is        *)
(* relayed only then.                                                      *)
(***************************************************************************)
EXTENDS Naturals, FiniteSets

CONSTANTS Runs, Messages, None

VARIABLES
    phase,      \* none, pending, or how the run finished
    listed,     \* the label of each item of the run, or None
    advertised, \* the number of items shown for it
    announced,  \* the verdict in its event, or None
    relayed     \* the runs whose event was relayed

Verdicts == {"succeeded", "partial", "failed"}
Labels == {"new", "seen"}
Items(r) == {m \in Messages : listed[r][m] # None}

Init ==
    /\ phase = [r \in Runs |-> "none"]
    /\ listed = [r \in Runs |-> [m \in Messages |-> None]]
    /\ advertised = [r \in Runs |-> 0]
    /\ announced = [r \in Runs |-> None]
    /\ relayed = {}

Create(r) ==
    /\ phase[r] = "none"
    /\ phase' = [phase EXCEPT ![r] = "pending"]
    /\ UNCHANGED <<listed, advertised, announced, relayed>>

\* A superseded execution may still list items of a finished run.
List(r, m) ==
    /\ phase[r] # "none"
    /\ listed[r][m] = None
    /\ \E label \in Labels : listed' = [listed EXCEPT ![r][m] = label]
    /\ UNCHANGED <<phase, advertised, announced, relayed>>

\* The last execution to save decides, also against an earlier verdict.
Finish(r, v) ==
    /\ phase[r] # "none"
    /\ phase' = [phase EXCEPT ![r] = v]
    /\ \E n \in 0 .. Cardinality(Items(r)) :
          /\ v = "failed" => n = 0
          /\ advertised' = [advertised EXCEPT ![r] = n]
    /\ UNCHANGED <<listed, announced, relayed>>

\* The verdict announced is that of the execution that announces it.
Announce(r, v) ==
    /\ phase[r] \in Verdicts
    /\ announced[r] = None
    /\ announced' = [announced EXCEPT ![r] = v]
    /\ UNCHANGED <<phase, listed, advertised, relayed>>

Relay(r) ==
    /\ announced[r] # None
    /\ relayed' = relayed \cup {r}
    /\ UNCHANGED <<phase, listed, advertised, announced>>

Next ==
    \E r \in Runs :
       \/ Create(r) \/ Relay(r)
       \/ \E m \in Messages : List(r, m)
       \/ \E v \in Verdicts : Finish(r, v) \/ Announce(r, v)

Spec == Init /\ [][Next]_<<phase, listed, advertised, announced, relayed>>
=============================================================================
