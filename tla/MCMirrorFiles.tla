------------------------------ MODULE MCMirrorFiles ------------------------------
(* Instances of MirrorFiles. *)
EXTENDS MirrorFiles, TLC

CONSTANTS f1, f2

\* Each file is of a version of its own.
VersionOf == (f1 :> 1) @@ (f2 :> 2)

Interchangeable == Permutations(Clients)
=============================================================================
