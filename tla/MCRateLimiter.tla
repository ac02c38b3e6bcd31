---------------------------- MODULE MCRateLimiter -----------------------------
(***************************************************************************)
(* RateLimiter on a small instance: the burst is no multiple of the rate,  *)
(* so that both roundings of the script matter.                            *)
(***************************************************************************)
EXTENDS RateLimiter, TLC

\* Two servers, the clock of one two seconds behind.
MCSkews == {-2, 0}

Symmetric == Permutations(Calls)
=============================================================================
