------------------------------ MODULE W5hLoop ------------------------------
(***************************************************************************)
(* The whole W5h loop: order, funding, confirmation, execution and refund  *)
(* over one pair of repositories, one controlled wallet and one clock      *)
(* (the wiring of crates/gateway/src/daemon.rs).  The components meet in   *)
(* the rows, and in the wallet that every funding transfer fills and every *)
(* deposit empties.                                                        *)
(***************************************************************************)
EXTENDS W5hOrder, W5hFundingConfirm, W5hExecute

bridgeVars == <<draft, fin, verdict, runs, unruled>>
verifierVars == <<ftx, conf>>

loopVars == <<row, now, rules, bridgeVars, verifierVars, execVars, marketVars>>

OrderStep == OrderNext /\ UNCHANGED <<verifierVars, execVars, marketVars>>

DemoStep == /\ \E i \in Intents : DemoCommand(i)
            /\ UNCHANGED <<verifierVars, execVars, marketVars>>

ConfirmStep ==
  /\ \/ \E h \in Handlers, i \in Intents, s \in FundingSigs, u \in Users : ConfirmBegin(h, i, s, u)
     \/ \E h \in Handlers : HandlerStep(h)
  /\ UNCHANGED <<rules, bridgeVars, execVars, marketVars>>

\* A funding transfer reaches the controlled account in a confirmed block.
\* It is taken back only if that block is abandoned.
FundingChainStep(s) ==
  /\ ChainStep(s)
  /\ ftx'[s].chain = "unseen" => "fork" \in Faults
  /\ wallet' = CASE ftx'[s].chain = "confirmed" -> wallet + ftx[s].delta
                 [] ftx[s].chain = "confirmed" /\ ftx'[s].chain = "unseen" -> wallet - ftx[s].delta
                 [] OTHER -> wallet
  /\ wallet' >= 0   \* a deposit that spent the transfer is built on its block
  /\ UNCHANGED <<row, now, rules, bridgeVars, conf, execVars, dep, apy>>

ExecutionLegStep == ExecuteNext /\ UNCHANGED <<now, bridgeVars, verifierVars>>

RefundLegStep == /\ \E i \in Intents : Refund(i)
                 /\ UNCHANGED <<now, rules, bridgeVars, verifierVars, execVars, dep, apy>>

\* The daemon restarts: every task, request and draft is gone.
DaemonRestart ==
  /\ "crash" \in Faults
  /\ OrderRestart
  /\ conf' = [h \in Handlers |-> IdleHandler]
  /\ exe' = [p \in Executors |-> IdleExecutor]
  /\ batch' = {} /\ tickApy' = 0
  /\ UNCHANGED <<ftx, marketVars>>

ClockStep == Tick /\ UNCHANGED <<rules, bridgeVars, verifierVars, execVars, marketVars>>

LoopInit == OInit /\ ConfirmInit /\ ExecuteInit /\ wallet = 0

LoopNext ==
  \/ OrderStep \/ DemoStep \/ ConfirmStep
  \/ \E s \in FundingSigs : FundingChainStep(s)
  \/ ExecutionLegStep \/ RefundLegStep \/ DaemonRestart \/ ClockStep

LoopSpec == LoopInit /\ [][LoopNext]_loopVars

---------------------------------------------------------------------------
(* Properties. *)

\* The components use the repository as W5hFunding describes it: together
\* they do nothing to the rows that its theorems do not cover.
ImplementsRepository == FSpec

\* End to end: the controlled wallet signs a deposit for an order only if a
\* transaction of exactly its amount, with its memo, succeeded in a confirmed
\* block, and the order carries that transaction's signature.
DepositIsFunded ==
  \A x \in ExecSigs : \A i \in dep[x].for :
    LET s == row[i].fundingSig IN
      s \in FundingSigs /\ Pays(i, s) /\ "confirmed" \in ftx[s].blocks

===========================================================================
