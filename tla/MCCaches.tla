------------------------------ MODULE MCCaches ------------------------------
(* Two loaders of two keys share a cache.                                  *)
EXTENDS Caches, TLC

CONSTANTS l1, l2, k1, k2

(* No definition tells loaders, or keys, apart.                            *)
Same == Permutations(Loaders) \union Permutations(Keys)
=============================================================================
