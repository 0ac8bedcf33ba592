---------------------------- MODULE MCPrivateStage ----------------------------
(* Instances of PrivateStage. *)
EXTENDS PrivateStage, TLC

\* "pkg-1.0.tar.gz" is of version 1.0 only, "pkg-1.0.1.tar.gz" fits 1.0 and 1.0.1.
SharedName == [n \in Names |-> IF n = 1 THEN {1} ELSE {1, 2}]

\* Neither indexes nor contents are told apart.
Interchangeable == Permutations(Stages) \cup Permutations(Contents)
=============================================================================
