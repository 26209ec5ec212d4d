---------------------------- MODULE MCRateLimiter ----------------------------
(***************************************************************************)
(* A small instance of RateLimiter: three interchangeable clients for a    *)
(* map of two; a request and a half at once and one every four ticks, three *)
(* and a quarter tokens at once and one and a half in a tick.              *)
(***************************************************************************)
EXTENDS RateLimiter, TLC

MCSymmetry == Permutations(Clients)
=============================================================================
