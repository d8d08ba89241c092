----------------------------- MODULE MCMailScans -----------------------------
\* Instances of MailScans for TLC.
EXTENDS MailScans, TLC

CONSTANTS checking, processing, preparing \* the codes of a scan

Symmetry == Permutations(Posts) \cup Permutations(Providers)

MCPlan == <<checking, processing, preparing>>
=============================================================================
