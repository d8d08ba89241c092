--------------------------- MODULE PublishedIndex ---------------------------
(***************************************************************************)
(* What the rest of the system is promised about a project's index,        *)
(* whatever pollers, files, locks, uploads and restarts are behind it: a   *)
(* snapshot replaces another as a whole, but it takes in only documents    *)
(* being ingested and leaves out only documents being deleted, so a        *)
(* document is served from when it is published until it is withdrawn, and *)
(* forgotten only once it is gone.                                         *)
(***************************************************************************)
CONSTANT Docs

VARIABLES
    phase,    \* how far a document is for its owner
    published \* the documents in the snapshot that readers pull

InPhase(p) == {d \in Docs : phase[d] = p}

Init ==
    /\ phase = [d \in Docs |-> "received"]
    /\ published = {}

\* One upload may carry the additions and removals of several attempts.
Publish ==
    /\ published' \subseteq published \cup InPhase("received")
    /\ published \subseteq published' \cup InPhase("deleting")
    /\ UNCHANGED phase

Move(d, from, to) ==
    /\ phase[d] = from
    /\ phase' = [phase EXCEPT ![d] = to]
    /\ UNCHANGED published

Serve(d) == d \in published /\ Move(d, "received", "ready")

Withdraw(d) == Move(d, "ready", "deleting")

Forget(d) == d \notin published /\ Move(d, "deleting", "deleted")

Next == Publish \/ \E d \in Docs : Serve(d) \/ Withdraw(d) \/ Forget(d)

Spec == Init /\ [][Next]_<<phase, published>>
=============================================================================
