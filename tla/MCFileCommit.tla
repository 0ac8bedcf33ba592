---------------------------- MODULE MCFileCommit ----------------------------
(* Model-checking instances of FileCommit.                                 *)
EXTENDS FileCommit, TLC

CONSTANTS p1, p2, p3, t1, t2

\* Two threads which upload and delete different release files.
OwnPaths == t1 :> {p1, p2} @@ t2 :> {p3}

\* Two threads of which one has a release file of its own; they share the other.
SomeShared == t1 :> {p1, p2} @@ t2 :> {p2}

\* Two threads which upload and delete the same release files.
SharedPaths == [t \in {t1, t2} |-> {p1, p2}]
=============================================================================
