---------------------------- MODULE MCCacheCntlr ----------------------------
EXTENDS CacheCntlr, TLC

BlockSymmetry == Permutations(Block)
=============================================================================
