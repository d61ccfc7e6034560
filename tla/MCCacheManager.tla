---------------------------- MODULE MCCacheManager ----------------------------
(* Small instances of CacheManager for TLC. *)
EXTENDS CacheManager, TLC

\* Keys, values and goroutines are only compared with each other.
Symmetry == Permutations(Keys) \cup Permutations(Values) \cup Permutations(Clients)
=============================================================================
