--------------------------- MODULE MCCacheSetLRU2 ---------------------------
(* A 5-way set (2 exact and 3 approximate ways) shared by 4 blocks: either *)
(* partition can be full with a block left over to fill.                   *)
EXTENDS CacheSetLRU2, TLC

BlockSymmetry == Permutations(Tag)
=============================================================================
