------------------------ MODULE MCProjectDocuments ------------------------
(* Instances of ProjectDocuments for TLC. *)
EXTENDS ProjectDocuments, TLC

SafetyFaults == FaultKinds
CrashAndStore == {"ingester_crash", "store"}

Symmetric == Permutations(Ingesters) \cup Permutations(Cleaners)
                 \cup Permutations(VectorIds)
=============================================================================
