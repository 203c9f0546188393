----------------------------- MODULE W5hBudget -----------------------------
(***************************************************************************)
(* What the intent repository promises about money, without its ten        *)
(* statuses: an order's budget is open, then held, and leaves the hands of *)
(* the system at most once, spent on the deposit or returned to the user.  *)
(***************************************************************************)
CONSTANT Orders

VARIABLE budget   \* order -> "open", "held", "spent", "returned" or "closed"

BudgetState == {"open", "held", "spent", "returned", "closed"}

BudgetInit == budget = [o \in Orders |-> "open"]

\* The transfers a budget may make.
Transfer == {<<"open", "held">>, <<"open", "closed">>, <<"held", "closed">>,
             <<"held", "spent">>, <<"held", "returned">>}

Move(o, to) ==
  /\ <<budget[o], to>> \in Transfer
  /\ budget' = [budget EXCEPT ![o] = to]

BudgetNext == \E o \in Orders, to \in BudgetState : Move(o, to)

BudgetSpec == BudgetInit /\ [][BudgetNext]_budget

===========================================================================
