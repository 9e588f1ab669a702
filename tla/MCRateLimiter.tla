--------------------------- MODULE MCRateLimiter ---------------------------
\* Instances of RateLimiter for TLC.
EXTENDS RateLimiter, TLC

\* Calls are interchangeable in the safety runs.
Symmetry == Permutations(Calls)
=============================================================================
