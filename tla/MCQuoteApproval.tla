--------------------------- MODULE MCQuoteApproval ---------------------------
(***************************************************************************)
(* Instances of QuoteApproval for TLC.                                     *)
(***************************************************************************)
EXTENDS QuoteApproval, TLC

CONSTANTS q1, q2, l1, l2, w1, w2

\* Quotes, workers and links are interchangeable; sound for safety only.
Sym == Permutations({q1, q2}) \cup Permutations({w1, w2})
         \cup Permutations({l1, l2})

SymLinks == Permutations({l1, l2})
=============================================================================
