----------------------------- MODULE MCWatchdog -----------------------------
(* TLC instances of Watchdog. *)
EXTENDS Watchdog, TLC

Symm == Permutations(Domains)
=============================================================================
