--------------------------- MODULE MCEvidenceChain ---------------------------
(* Small instances of EvidenceChain for TLC.                                  *)
EXTENDS EvidenceChain, TLC

Symmetry == Permutations(Packages)
=============================================================================
