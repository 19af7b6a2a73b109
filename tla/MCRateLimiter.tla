--------------------------- MODULE MCRateLimiter ---------------------------
(***************************************************************************)
(* Instances of RateLimiter for TLC: a form limited to two requests and a  *)
(* webhook limited to three, a window of two seconds of two ticks each.  *)
(***************************************************************************)
EXTENDS RateLimiter

CONSTANTS form, webhook

TwoRoutes == [k \in {form, webhook} |-> IF k = form THEN 2 ELSE 3]

OneRoute == [k \in {form} |-> 2]
=============================================================================
