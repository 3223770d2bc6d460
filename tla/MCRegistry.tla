----------------------------- MODULE MCRegistry -----------------------------
(* Small instances of Registry for TLC.                                       *)
EXTENDS Registry, TLC

Symmetry ==
    Permutations(Procs) \cup Permutations(Keys) \cup Permutations(Packages)
=============================================================================
