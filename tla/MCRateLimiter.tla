---------------------------- MODULE MCRateLimiter ----------------------------
(* Instances of RateLimiter for TLC; a second has three milliseconds. The   *)
(* users share nothing but the bound on the outages.                        *)
EXTENDS RateLimiter

CONSTANT u1

OneUser == {u1}
=============================================================================
