--------------------------- MODULE MCRateLimiter ---------------------------
(* One client, one tool with its own rate and one with the default; half-  *)
(* second ticks, so that retryAfter has something to round.                *)
EXTENDS RateLimiter, TLC

MCPerTool == "search" :> 2
=============================================================================
