---------------------------- MODULE MCLabAssets ----------------------------
EXTENDS LabAssets, TLC

Symmetry == Permutations(Platforms)
=============================================================================
