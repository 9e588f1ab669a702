---------------------------- MODULE MCUserStore -----------------------------
\* Small instances of UserStore for TLC; handlers and people are interchangeable.
EXTENDS UserStore, TLC

Symmetry == Permutations(Handlers) \cup Permutations(People)
=============================================================================
