---------------------------- MODULE MCAuditChain ----------------------------
EXTENDS AuditChain, TLC

Interchangeable == Permutations(Writers) \cup Permutations(Connections)
=============================================================================
