---------------------------- MODULE MCEngagement ----------------------------
(***************************************************************************)
(* Instances of Engagement for TLC.                                        *)
(***************************************************************************)
EXTENDS Engagement, TLC

CONSTANTS m1, m2, t1, c1, c2, k1, k2, w1, w2, w3

\* Both mails belong to one thread: what goes wrong goes wrong between them.
OneThread == [m \in {m1, m2} |-> t1]

\* With all three workers two requests may meet in one container or in two.
TwoHomes == [w \in Workers |-> IF w = w3 THEN k2 ELSE k1]

\* Sound for the invariants and the refinement: nothing tells them apart.
Sym == Permutations({c1, c2}) \cup Permutations({w1, w2})
         \cup Permutations({m1, m2})
=============================================================================
