-------------------------- MODULE MC_ChainInterface --------------------------
EXTENDS ChainInterface, TLC

MCSymmetry == Permutations(Callers)
=============================================================================
