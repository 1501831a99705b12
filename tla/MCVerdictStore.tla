---- MODULE MCVerdictStore ----
EXTENDS VerdictStore
====
