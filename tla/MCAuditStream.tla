---------------------------- MODULE MCAuditStream ----------------------------
EXTENDS AuditStream, TLC

Symmetry == Permutations(Conns) \cup Permutations(Requests) \cup Permutations(Apps)
=============================================================================
