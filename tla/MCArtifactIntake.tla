-------------------------- MODULE MCArtifactIntake --------------------------
(* An instance of the intake for TLC: two links to the same file, seen by two *)
(* indexes, and digests that are uploaded.                                    *)
EXTENDS ArtifactIntake

CONSTANT d1

SameFile == [j \in Job |-> d1]

==============================================================================
