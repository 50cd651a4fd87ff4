--------------------------- MODULE MCRateLimiter ---------------------------
(***************************************************************************)
(* RateLimiter for TLC. The counter bounds itself (CountBound), so the     *)
(* state space is finite for every limit and needs no constraint.          *)
(***************************************************************************)
EXTENDS RateLimiter
=============================================================================
