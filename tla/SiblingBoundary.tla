-------------------------- MODULE SiblingBoundary --------------------------
(* The walks of the authority program over the instructions that share the *)
(* transaction with ExecuteAction: one refresh before one withdraw for a   *)
(* Solend rule, one swap among allowed instructions for a Jupiter rule.    *)
(* A descriptor names the program, the variant and the accounts touched.   *)
EXTENDS Integers, Sequences, FiniteSets

CONSTANTS
  Absent,        \* an account the descriptor does not name
  MaxSiblings,   \* MAX_SIBLING_INSTRUCTIONS, MAX_JUPITER_SIBLING_INSTRUCTIONS
  MaxWritable    \* MAX_WRITABLE_ACCOUNTS_PER_DESCRIPTOR

ASSUME SiblingsAssumption == MaxSiblings \in Nat /\ MaxWritable \in Nat

---------------------------------------------------------------------------
(* Solend: a cursor of the refresh and the withdraw met so far.            *)

Start == [ok |-> TRUE, refresh |-> 0, withdraw |-> 0]

Refuse(acc) == [acc EXCEPT !.ok = FALSE]

\* A second one is a conflict; one of another reserve is let through.
OnRefresh(acc, ix, i, x) ==
  CASE ix.reserve = Absent    -> Refuse(acc)
    [] ix.reserve \notin {Absent, x.reserve} -> acc
    [] ix.reserve = x.reserve /\ acc.refresh # 0 -> Refuse(acc)
    [] ix.reserve = x.reserve /\ acc.refresh = 0 -> [acc EXCEPT !.refresh = i]

\* Of the rule's obligation every account must match; of another
\* obligation the rule's reserve may not be touched.
OnWithdraw(acc, ix, i, x) ==
  IF \/ Absent \in {ix.reserve, ix.obligation, ix.market, ix.destination}
     \/ ix.obligation # x.obligation /\ ix.reserve = x.reserve
     \/ /\ ix.obligation = x.obligation
        /\ \/ <<ix.reserve, ix.market, ix.destination>>
                # <<x.reserve, x.market, x.destination>>
           \/ acc.withdraw # 0
  THEN Refuse(acc)
  ELSE IF ix.obligation = x.obligation THEN [acc EXCEPT !.withdraw = i]
  ELSE acc

\* Any other instruction of Solend must leave both targets alone.
OnOther(acc, ix, x) ==
  IF ix.reserve = x.reserve \/ ix.obligation = x.obligation
  THEN Refuse(acc) ELSE acc

Visit(acc, ix, i, x) ==
  CASE ix.program # "solend" -> acc
    [] ix.program = "solend" /\ ix.variant = "refresh" -> OnRefresh(acc, ix, i, x)
    [] ix.program = "solend" /\ ix.variant = "withdraw" -> OnWithdraw(acc, ix, i, x)
    [] ix.program = "solend" /\ ix.variant \notin {"refresh", "withdraw"} ->
         OnOther(acc, ix, x)

\* Seeded fault: the order of the two is not compared.
BothSeen(acc) == acc.ok /\ acc.refresh # 0 /\ acc.withdraw # 0

RefreshThenWithdraw(acc) ==
  /\ acc.ok
  /\ acc.refresh # 0
  /\ acc.withdraw # 0
  /\ acc.refresh < acc.withdraw

verify_same_tx_refresh_and_withdraw(siblings, x) ==
  LET walk[i \in 0 .. Len(siblings)] ==
        IF i = 0 THEN Start ELSE Visit(walk[i - 1], siblings[i], i, x)
  IN /\ Len(siblings) <= MaxSiblings
     /\ RefreshThenWithdraw(walk[Len(siblings)])

\* An instruction of Solend that works on one of the rule's accounts; a
\* refresh works on a reserve alone.
Touches(ix, x) ==
  /\ ix.program = "solend"
  /\ \/ ix.reserve = x.reserve
     \/ ix.variant # "refresh" /\ ix.obligation = x.obligation

---------------------------------------------------------------------------
(* Jupiter: a phase cursor around the swap.                                *)

JupiterClasses == {"compute_budget", "jupiter", "spl_token", "ata", "system"}

\* Transfer, CloseAccount, TransferChecked, SyncNative.
AllowedTokenVariants == {3, 9, 12, 17}

SwapAllowed(phase) == phase = "before"

NextPhase(phase, class) ==
  CASE class = "jupiter" -> "at"
    [] class # "jupiter" /\ phase = "at" -> "after"
    [] class # "jupiter" /\ phase # "at" -> phase

\* Only the swap itself may write accounts beyond the allowed set.
SiblingAllowed(acc, ix, writable) ==
  /\ ix.program \in JupiterClasses
  /\ ix.program = "spl_token" => ix.variant \in AllowedTokenVariants
  /\ ix.program = "jupiter" => SwapAllowed(acc.phase)
  /\ ix.program # "jupiter" => ix.writes \subseteq writable

\* The first gate of the boundary, before any of the list is looked at.
WithinLimits(siblings) ==
  /\ Len(siblings) <= MaxSiblings
  /\ \A i \in DOMAIN siblings : Cardinality(siblings[i].writes) <= MaxWritable

verify_sibling_instructions(siblings, writable) ==
  LET walk[i \in 0 .. Len(siblings)] ==
        IF i = 0 THEN [ok |-> TRUE, phase |-> "before", swaps |-> 0]
        ELSE LET acc == walk[i - 1]
                 ix  == siblings[i]
             IN [ok    |-> acc.ok /\ SiblingAllowed(acc, ix, writable),
                 phase |-> NextPhase(acc.phase, ix.program),
                 swaps |-> acc.swaps + (IF ix.program = "jupiter" THEN 1 ELSE 0)]
  IN /\ walk[Len(siblings)].ok
     /\ walk[Len(siblings)].swaps = 1

===========================================================================
