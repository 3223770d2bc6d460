------------------------- MODULE MCAdaptiveSteering -------------------------
EXTENDS AdaptiveSteering, TLC

Symmetry == Permutations(Builds)
=============================================================================
