---------------------------- MODULE MCDigestRuns ----------------------------
(* Small instances of DigestRuns for TLC. *)
EXTENDS DigestRuns, TLC

CONSTANTS t1

\* All messages are replies in one thread, so that a replay may anchor the
\* same task on another message.
OneThread == [m \in Messages |-> t1]

Symmetric == Permutations(Pollers) \cup Permutations(Messages)
=============================================================================
