------------------------- MODULE MCPrintLogicPush -------------------------
(***************************************************************************)
(* Instances of PrintLogicPush for TLC.                                    *)
(***************************************************************************)
EXTENDS PrintLogicPush, TLC

CONSTANTS q1, q2, w1, w2, o1, o2, o3

\* Quotes, workers and orders are interchangeable; all runs are of safety.
Sym == Permutations({q1, q2}) \cup Permutations({w1, w2})
         \cup Permutations({o1, o2, o3})
=============================================================================
