--------------------------- MODULE MCTaskEpisodes ---------------------------
\* Instances of TaskEpisodes for TLC.
EXTENDS TaskEpisodes, TLC

Symmetry == Permutations(Procs) \cup Permutations(Turns) \cup Permutations(Users)
=============================================================================
