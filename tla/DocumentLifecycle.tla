------------------------- MODULE DocumentLifecycle -------------------------
(***************************************************************************)
(* What a user is promised about an uploaded project document, whichever   *)
(* worker, cleaner or request is at work on it: it is processed until it   *)
(* is ready or failed, a failed one may be submitted again, and a document *)
(* withdrawn (deleted, expired, its project deleted) never comes back.     *)
(***************************************************************************)
CONSTANT Docs

VARIABLE phase

Phase == {"none", "processing", "ready", "failed", "withdrawn"}

Init == phase = [d \in Docs |-> "none"]

\* A first upload, or another try at a failed one.
Submit(d) ==
    /\ phase[d] \in {"none", "failed"}
    /\ phase' = [phase EXCEPT ![d] = "processing"]

Settle(d) ==
    /\ phase[d] = "processing"
    /\ \E outcome \in {"ready", "failed"} :
          phase' = [phase EXCEPT ![d] = outcome]

\* Deletion and expiry take any number of documents at once.
Withdraw(S) ==
    /\ \A d \in S : phase[d] # "none"
    /\ phase' = [d \in Docs |-> IF d \in S THEN "withdrawn" ELSE phase[d]]

Next ==
    \/ \E d \in Docs : Submit(d) \/ Settle(d)
    \/ \E S \in SUBSET Docs : Withdraw(S)

Spec == Init /\ [][Next]_phase
=============================================================================
