--------------------------- MODULE MCVerifiedGraph ---------------------------
(* Instances of VerifiedGraph for TLC. *)
EXTENDS VerifiedGraph, TLC

(* Requests are alike. *)
Alike == Permutations(Callers)
=============================================================================
