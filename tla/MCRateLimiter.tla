---------------------------- MODULE MCRateLimiter ----------------------------
(* Instances of RateLimiter.                                                 *)
EXTENDS RateLimiter, TLC

KeySymmetry == Permutations(Key)

=============================================================================
