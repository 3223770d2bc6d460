---------------------------- MODULE MCFrontDesk ----------------------------
(* Small instances of FrontDesk for TLC.                                      *)
EXTENDS FrontDesk, TLC

Symmetry == Permutations(Threads)
=============================================================================
