---------------------------- MODULE MCW5hLoop ----------------------------
(* One order through the whole loop.                                       *)
EXTENDS W5hLoop, TLC

CONSTANTS i1, u1, d1, c1, h1, f1, f2, x1, x2, m1, w

MCAmount == [i \in Intents |-> 1]
MCThreshold == [i \in Intents |-> 0]

MCSymmetry == Permutations(FundingSigs)

===========================================================================
