---------------------------- MODULE MCSuperAdmin ----------------------------
EXTENDS SuperAdmin, TLC

\* Users and requests are interchangeable (safety runs only).
Symmetry == Permutations(Users) \cup Permutations(Requests)
=============================================================================
