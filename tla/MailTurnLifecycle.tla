-------------------------- MODULE MailTurnLifecycle --------------------------
(***************************************************************************)
(* What a reader of a chat is promised about the turn of an @mail scan,    *)
(* whatever is posted about it and in whatever order: it opens once, its   *)
(* activities are announced in one order and each moves only forward, and  *)
(* once the scan has ended nothing about the turn changes.                 *)
(***************************************************************************)
EXTENDS Naturals, Sequences

CONSTANT Codes

VARIABLES
    stage, \* "none", "open", or how the scan ended
    steps  \* the activities announced so far, a code and a status each

Ends == {"completed", "failed", "cancelled"}

Rank == [s \in {"pending", "running", "completed", "failed", "cancelled", "skipped"} |->
    CASE s = "pending" -> 0 [] s = "running" -> 1 [] OTHER -> 2]

Activities == Seq([code : Codes, status : DOMAIN Rank])

\* An activity keeps its place and its code, and its status or a later one.
Forward(old, new) ==
    /\ Len(old) <= Len(new)
    /\ \A i \in 1..Len(old) :
          /\ new[i].code = old[i].code
          /\ \/ new[i].status = old[i].status
             \/ Rank[new[i].status] > Rank[old[i].status]

\* The work of a scan that has ended is over, and done if the scan succeeded.
Ended(s, new) ==
    \A i \in 1..Len(new) :
        /\ s \in Ends => Rank[new[i].status] = 2
        /\ s = "completed" => new[i].status \in {"completed", "skipped"}

Init == stage = "none" /\ steps = <<>>

Record ==
    /\ stage \in {"none", "open"}
    /\ stage' \in {"open"} \cup Ends
    /\ steps' \in Activities
    /\ Forward(steps, steps')
    /\ Ended(stage', steps')

\* The chat, or the turn as the oldest of a full buffer, is dropped.
Forget ==
    /\ stage' = "none"
    /\ steps' = <<>>

Next == Record \/ Forget

Spec == Init /\ [][Next]_<<stage, steps>>
=============================================================================
