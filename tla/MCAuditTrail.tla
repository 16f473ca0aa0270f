---------------------------- MODULE MCAuditTrail -----------------------------
EXTENDS AuditTrail, TLC

Symmetry == Permutations(Requests) \cup Permutations(Apps)
=============================================================================
