---------------------------- MODULE MCQuarantine ----------------------------
EXTENDS Quarantine, TLC

Interchangeable == Permutations(Files) \cup Permutations(Callers)
=============================================================================
