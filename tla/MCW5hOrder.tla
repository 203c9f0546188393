---------------------------- MODULE MCW5hOrder ----------------------------
(* Two drafts of the same order, two callers, concurrent requests.         *)
EXTENDS W5hOrder, TLC

CONSTANTS i1, u1, u2, d1, d2, c1, c2, s1

MCAmount == [i \in Intents |-> 1]

\* Users, drafts and calls are interchangeable.
MCSymmetry == Permutations(Users) \cup Permutations(Drafts) \cup Permutations(Calls)

===========================================================================
