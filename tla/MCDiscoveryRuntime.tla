------------------------- MODULE MCDiscoveryRuntime -------------------------
(* TLC instances of DiscoveryRuntime. *)
EXTENDS DiscoveryRuntime, TLC

Symm == Permutations(Calls) \cup Permutations(Stoppers)
=============================================================================
