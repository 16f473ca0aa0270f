---------------------------- MODULE MCVerification ----------------------------
EXTENDS Verification, TLC

\* Requests are interchangeable.
Symmetry == Permutations(Requests)
=============================================================================
