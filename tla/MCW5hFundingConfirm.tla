----------------------- MODULE MCW5hFundingConfirm -----------------------
(* Funding transactions with any memos and any transferred amount, two     *)
(* concurrent confirm calls.                                               *)
EXTENDS W5hFundingConfirm, TLC

CONSTANTS i1, i2, u1, u2, f1, f2, x, h1, h2

\* All intents ask for the same amount.
MCAmount == [i \in Intents |-> 1]

\* So intents, funding signatures, users and handlers are interchangeable.
MCSymmetry == Permutations(Intents) \cup Permutations(Users)
              \cup Permutations(FundingSigs) \cup Permutations(Handlers)

===========================================================================
