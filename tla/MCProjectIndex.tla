--------------------------- MODULE MCProjectIndex ---------------------------
\* Instances of ProjectIndex for TLC.
EXTENDS ProjectIndex, TLC

Symmetry == Permutations(Docs) \cup Permutations(Writers) \cup Permutations(Readers)
=============================================================================
