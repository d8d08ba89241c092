-------------------------- MODULE MCEvaluationJobs --------------------------
\* Instances of EvaluationJobs for TLC.
EXTENDS EvaluationJobs, TLC

Symmetry == Permutations(Keys) \cup Permutations(Cancels)
=============================================================================
