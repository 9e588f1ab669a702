----------------------------- MODULE MCMediaJob -----------------------------
\* Small instances of MediaJob for TLC; the jobs are interchangeable.
EXTENDS MediaJob, TLC

Symmetry == Permutations(Jobs)
=============================================================================
