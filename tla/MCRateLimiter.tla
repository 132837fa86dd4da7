---------------------------- MODULE MCRateLimiter ----------------------------
(***************************************************************************)
(* Instances of RateLimiter for TLC.                                       *)
(***************************************************************************)
EXTENDS RateLimiter, TLC

CONSTANTS r1, r2

\* One instance is a tick behind the database, another a tick ahead.
SkewOfTwo == (r1 :> -1) @@ (r2 :> 1)
===============================================================================
