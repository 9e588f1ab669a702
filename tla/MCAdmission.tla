---------------------------- MODULE MCAdmission ----------------------------
\* Instances of Admission for TLC.
EXTENDS Admission, TLC

\* Requests and keys are interchangeable; only the safety runs use it.
Symmetry == Permutations(Requests) \cup Permutations(Keys)
=============================================================================
