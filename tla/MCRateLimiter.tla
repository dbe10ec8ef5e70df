--------------------------- MODULE MCRateLimiter ---------------------------
(* Values for model checking RateLimiter.                                  *)
EXTENDS RateLimiter, TLC

Symmetry == Permutations(Key) \cup Permutations(Req)


=============================================================================
