------------------------------ MODULE MCKeyFS ------------------------------
(* Model-checking instance of KeyFS: symmetric threads, keys and values.   *)
EXTENDS KeyFS, TLC

Symmetry ==
    Permutations(Threads) \cup Permutations(Keys) \cup Permutations(Vals)
=============================================================================
