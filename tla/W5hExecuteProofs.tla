-------------------------- MODULE W5hExecuteProofs --------------------------
(***************************************************************************)
(* Theorems about the funding and the execution of orders.                 *)
(*                                                                         *)
(* The intent repository: for any intents, users and signatures and any    *)
(* clock bound, whoever calls the operations and in whatever order.  The   *)
(* funding-confirm verifier over it: for any number of handlers with any   *)
(* signatures, any interleaving of their awaits with the other users of    *)
(* the repository, forks and aborted requests.  The execution of funded    *)
(* orders: for any orders, any number of manual approvals beside the       *)
(* watcher, any market and every fault of the environment, crashes between *)
(* any two awaits included.  The shared wallet: no order is paid with      *)
(* another one's budget.                                                   *)
(*                                                                         *)
(* The theorems that speak of a second deposit assume that no answer of    *)
(* sendTransaction is lost: execute releases the lease on any error        *)
(* answer, and the run execute_lost_response shows what that leads to.     *)
(***************************************************************************)
EXTENDS W5hExecute, W5hFundingConfirm, FiniteSetTheorems, TLAPS

---------------------------------------------------------------------------
(* The intent repository.                                                  *)

\* A row that is not yet submitted has no funding signature: what makes the
\* first signature the only one.
FundingUnbound ==
  \A i \in Intents :
    row[i].status \in {"absent", "funding_required"} => row[i].fundingSig = Null

\* The inductive invariant: the type invariant and the three safety
\* invariants support each other (SpentOrReturned needs the type of a
\* signature, FundedHasSignature needs that Sigs does not hold Null).
FInv == /\ FTypeOK /\ FundedHasSignature /\ SpentOrReturned /\ RefundOnlyAfterExpiry
        /\ FundingUnbound

\* A repository step on i leaves every other row alone and gives i a
\* well-formed row.
RowChange(i) == /\ row' \in [Intents -> Row]
                /\ \A j \in Intents \ {i} : row'[j] = row[j]

\* Every initial state of the repository satisfies the invariant.
LEMMA FInitInv == FInit => FInv
<1> SUFFICES ASSUME FInit PROVE FInv
    OBVIOUS
<1>2. AbsentRow \in Row
    BY DEF AbsentRow, Row, OptSig
<1>3. FTypeOK
    BY <1>2, ClockAssumption DEF FInit, FTypeOK
<1>4. FundedHasSignature /\ SpentOrReturned /\ RefundOnlyAfterExpiry /\ FundingUnbound
    BY DEF FInit, AbsentRow, FundingUnbound, FundedHasSignature, SpentOrReturned,
           RefundOnlyAfterExpiry, Funded
<1> QED BY <1>3, <1>4 DEF FInv

\* Each method writes one row, and writes it well-formed (the columns it
\* binds have the types the schema gives them).
LEMMA RepoStepTypes ==
  ASSUME FTypeOK, NEW i \in Intents, RepoStep(i)
  PROVE  RowChange(i)
<1> USE DEF FTypeOK, RowChange
<1>1. ASSUME NEW u \in Users, NEW h \in 0 .. now, NEW t \in 0 .. now, Insert(i, u, h, t)
      PROVE  RowChange(i)
    <2>1. t + Window \in Nat /\ h \in Nat
        BY ClockAssumption
    <2> QED BY <1>1, <2>1 DEF Insert, Row, OptSig, IntentStatus
<1>2. ASSUME NEW s \in Sigs, MarkFundingSubmittedIfRequired(i, s)
      PROVE  RowChange(i)
    BY <1>2 DEF MarkFundingSubmittedIfRequired, Row, OptSig, IntentStatus
<1>3. ASSUME NEW s \in Sigs, MarkBudgetReservedIfSubmitted(i, s)
      PROVE  RowChange(i)
    BY <1>3 DEF MarkBudgetReservedIfSubmitted, Row, IntentStatus
<1>4. ASSUME NEW s \in Sigs, MarkFundingInvalidIfSubmitted(i, s)
      PROVE  RowChange(i)
    BY <1>4 DEF MarkFundingInvalidIfSubmitted, Row, IntentStatus
<1>5. ASSUME NEW s \in Sigs, MarkCompletedIfExecuting(i, s)
      PROVE  RowChange(i)
    BY <1>5 DEF MarkCompletedIfExecuting, Row, OptSig, IntentStatus
<1>6. ASSUME NEW s \in Sigs, MarkRefundedIfRefunding(i, s)
      PROVE  RowChange(i)
    BY <1>6 DEF MarkRefundedIfRefunding, Row, OptSig, IntentStatus
<1>7. ASSUME NEW t \in 0 .. now, LeaseExecutionIfBudgetReserved(i, t)
      PROVE  RowChange(i)
    BY <1>7 DEF LeaseExecutionIfBudgetReserved, Row, IntentStatus
<1>8. ASSUME NEW t \in 0 .. now, MarkExpiredIfPast(i, t)
      PROVE  RowChange(i)
    BY <1>8 DEF MarkExpiredIfPast, Row, IntentStatus
<1>9. ASSUME NEW t \in 0 .. now, LeaseRefundIfExpiredOrPast(i, t)
      PROVE  RowChange(i)
    BY <1>9 DEF LeaseRefundIfExpiredOrPast, Row, IntentStatus
<1>10. CASE ReleaseExecutionLease(i)
    BY <1>10 DEF ReleaseExecutionLease, Row, IntentStatus
<1>11. CASE MarkFailed(i)
    BY <1>11 DEF MarkFailed, Row, IntentStatus
<1> QED BY <1>1, <1>2, <1>3, <1>4, <1>5, <1>6, <1>7, <1>8, <1>9, <1>10, <1>11
        DEF RepoStep, FundingStep, ExecutionStep, RefundStep

\* What one row must satisfy at clock reading t.
RowOK(r, t) == /\ r.status \in {"absent", "funding_required"} => r.fundingSig = Null
               /\ r.status \in Funded => r.fundingSig # Null
               /\ r.execSig # Null <=> r.status = "completed"
               /\ r.refundSig # Null <=> r.status = "refunded"
               /\ r.status \in {"expired", "refunding", "refunded"} => r.expires =< t

\* The invariant, row by row.
LEMMA FInvIsRowOK ==
  FInv <=> FTypeOK /\ \A i \in Intents : RowOK(row[i], now)
BY DEF FInv, FundedHasSignature, SpentOrReturned, RefundOnlyAfterExpiry,
               FundingUnbound, RowOK

\* No method can leave its row with columns that contradict its status.
LEMMA RepoStepRowOK ==
  ASSUME FTypeOK, NEW i \in Intents, RowOK(row[i], now), RepoStep(i)
  PROVE  RowOK(row'[i], now)
<1> USE NullAssumption, ClockAssumption DEF FTypeOK, RowOK, Funded, Row, OptSig
<1>1. ASSUME NEW u \in Users, NEW h \in 0 .. now, NEW t \in 0 .. now, Insert(i, u, h, t)
      PROVE  RowOK(row'[i], now)
    BY <1>1 DEF Insert
<1>2. ASSUME NEW s \in Sigs, MarkFundingSubmittedIfRequired(i, s)
      PROVE  RowOK(row'[i], now)
    BY <1>2 DEF MarkFundingSubmittedIfRequired, CanSubmit
<1>3. ASSUME NEW s \in Sigs, MarkBudgetReservedIfSubmitted(i, s)
      PROVE  RowOK(row'[i], now)
    BY <1>3 DEF MarkBudgetReservedIfSubmitted, SubmittedAs
<1>4. ASSUME NEW s \in Sigs, MarkFundingInvalidIfSubmitted(i, s)
      PROVE  RowOK(row'[i], now)
    BY <1>4 DEF MarkFundingInvalidIfSubmitted, SubmittedAs
<1>5. ASSUME NEW s \in Sigs, MarkCompletedIfExecuting(i, s)
      PROVE  RowOK(row'[i], now)
    BY <1>5 DEF MarkCompletedIfExecuting
<1>6. ASSUME NEW s \in Sigs, MarkRefundedIfRefunding(i, s)
      PROVE  RowOK(row'[i], now)
    BY <1>6 DEF MarkRefundedIfRefunding
<1>7. ASSUME NEW t \in 0 .. now, LeaseExecutionIfBudgetReserved(i, t)
      PROVE  RowOK(row'[i], now)
    BY <1>7 DEF LeaseExecutionIfBudgetReserved, CanLeaseExecution
<1>8. ASSUME NEW t \in 0 .. now, MarkExpiredIfPast(i, t)
      PROVE  RowOK(row'[i], now)
    BY <1>8 DEF MarkExpiredIfPast, CanExpire
<1>9. ASSUME NEW t \in 0 .. now, LeaseRefundIfExpiredOrPast(i, t)
      PROVE  RowOK(row'[i], now)
    BY <1>9 DEF LeaseRefundIfExpiredOrPast, CanLeaseRefund
<1>10. CASE ReleaseExecutionLease(i)
    BY <1>10 DEF ReleaseExecutionLease
<1>11. CASE MarkFailed(i)
    BY <1>11 DEF MarkFailed, CanFail, Terminal
<1> QED BY <1>1, <1>2, <1>3, <1>4, <1>5, <1>6, <1>7, <1>8, <1>9, <1>10, <1>11
        DEF RepoStep, FundingStep, ExecutionStep, RefundStep

\* The invariant is inductive.
LEMMA FNextInv == FInv /\ [FNext]_fundingVars => FInv'
<1> SUFFICES ASSUME FInv, [FNext]_fundingVars PROVE FInv'
    OBVIOUS
<1>1. CASE Tick
    <2>1. now' \in 0 .. MaxTime /\ now =< now' /\ row' = row
        BY <1>1, ClockAssumption DEF Tick, FInv, FTypeOK
    <2>2. FTypeOK'
        BY <2>1 DEF FInv, FTypeOK
    <2>3. ASSUME NEW i \in Intents PROVE RowOK(row[i], now')
        BY <2>1, FInvIsRowOK DEF RowOK, FTypeOK, Row
    <2> QED BY <2>1, <2>2, <2>3
            DEF FInv, FundedHasSignature, SpentOrReturned, RefundOnlyAfterExpiry,
               FundingUnbound, RowOK
<1>2. ASSUME NEW i \in Intents, RepoStep(i), UNCHANGED now
      PROVE  FInv'
    <2>1. RowChange(i) /\ RowOK(row'[i], now)
        BY <1>2, RepoStepTypes, RepoStepRowOK, FInvIsRowOK
    <2>2. \A j \in Intents : RowOK(row'[j], now')
        BY <1>2, <2>1, FInvIsRowOK DEF RowChange
    <2>3. FTypeOK'
        BY <1>2, <2>1 DEF RowChange, FInv, FTypeOK
    <2> QED BY <2>2, <2>3
            DEF FInv, FundedHasSignature, SpentOrReturned, RefundOnlyAfterExpiry,
               FundingUnbound, RowOK
<1>3. CASE UNCHANGED fundingVars
    BY <1>3 DEF fundingVars, FInv, FTypeOK, FundedHasSignature, SpentOrReturned, FundingUnbound,
                RefundOnlyAfterExpiry
<1> QED BY <1>1, <1>2, <1>3 DEF FNext

\* The repository keeps its rows consistent, whoever calls it: the types
\* hold, a funded status has a funding signature, a budget is never both
\* spent and returned, and the refund path opens only after the deadline.
THEOREM FundingInvariant ==
  FSpec => [](FTypeOK /\ FundedHasSignature /\ SpentOrReturned /\ RefundOnlyAfterExpiry)
<1>1. FInv => FTypeOK /\ FundedHasSignature /\ SpentOrReturned /\ RefundOnlyAfterExpiry
    BY DEF FInv
<1> QED BY <1>1, FInitInv, FNextInv, PTL DEF FSpec

---------------------------------------------------------------------------
(* What a step may never do. *)

\* The three action properties, for one row.
RowStep(r, q) ==
  /\ r.status \in Terminal => q = r
  /\ r.fundingSig # Null => /\ q.fundingSig = r.fundingSig
                             /\ q.user = r.user
                             /\ q.hash = r.hash
                             /\ q.expires = r.expires
  /\ r.status \in {"expired", "refunding", "refunded"} =>
       q.status \notin {"budget_reserved", "executing", "completed"}

\* Every method takes its row along an allowed edge.
LEMMA RepoStepRowStep ==
  ASSUME FInv, NEW i \in Intents, RepoStep(i)
  PROVE  RowStep(row[i], row'[i])
<1>0. row[i] \in Row /\ RowOK(row[i], now)
    BY FInvIsRowOK DEF FInv, FTypeOK
<1> USE <1>0, NullAssumption DEF FInv, FTypeOK, RowStep, RowOK, Funded, Row, OptSig, Terminal
<1>1. ASSUME NEW u \in Users, NEW h \in 0 .. now, NEW t \in 0 .. now, Insert(i, u, h, t),
             row[i].fundingSig = Null
      PROVE  RowStep(row[i], row'[i])
    BY <1>1 DEF Insert, IsAbsent
<1>2. ASSUME NEW s \in Sigs, MarkFundingSubmittedIfRequired(i, s),
             row[i].status = "funding_required" => row[i].fundingSig = Null
      PROVE  RowStep(row[i], row'[i])
    BY <1>2 DEF MarkFundingSubmittedIfRequired, CanSubmit
<1>3. ASSUME NEW s \in Sigs, MarkBudgetReservedIfSubmitted(i, s)
      PROVE  RowStep(row[i], row'[i])
    BY <1>3 DEF MarkBudgetReservedIfSubmitted, SubmittedAs
<1>4. ASSUME NEW s \in Sigs, MarkFundingInvalidIfSubmitted(i, s)
      PROVE  RowStep(row[i], row'[i])
    BY <1>4 DEF MarkFundingInvalidIfSubmitted, SubmittedAs
<1>5. ASSUME NEW s \in Sigs, MarkCompletedIfExecuting(i, s)
      PROVE  RowStep(row[i], row'[i])
    BY <1>5 DEF MarkCompletedIfExecuting
<1>6. ASSUME NEW s \in Sigs, MarkRefundedIfRefunding(i, s)
      PROVE  RowStep(row[i], row'[i])
    BY <1>6 DEF MarkRefundedIfRefunding
<1>7. ASSUME NEW t \in 0 .. now, LeaseExecutionIfBudgetReserved(i, t)
      PROVE  RowStep(row[i], row'[i])
    BY <1>7 DEF LeaseExecutionIfBudgetReserved, CanLeaseExecution
<1>8. ASSUME NEW t \in 0 .. now, MarkExpiredIfPast(i, t)
      PROVE  RowStep(row[i], row'[i])
    BY <1>8 DEF MarkExpiredIfPast, CanExpire
<1>9. ASSUME NEW t \in 0 .. now, LeaseRefundIfExpiredOrPast(i, t)
      PROVE  RowStep(row[i], row'[i])
    BY <1>9 DEF LeaseRefundIfExpiredOrPast, CanLeaseRefund
<1>10. CASE ReleaseExecutionLease(i)
    BY <1>10 DEF ReleaseExecutionLease
<1>11. CASE MarkFailed(i)
    BY <1>11 DEF MarkFailed, CanFail
<1>12. row[i].status \in {"absent", "funding_required"} => row[i].fundingSig = Null
    OBVIOUS
<1> QED BY <1>1, <1>2, <1>3, <1>4, <1>5, <1>6, <1>7, <1>8, <1>9, <1>10, <1>11, <1>12
        DEF RepoStep, FundingStep, ExecutionStep, RefundStep, Insert, IsAbsent

\* So does every step of the repository, for all rows.
LEMMA FNextRowStep ==
  ASSUME FInv, [FNext]_fundingVars
  PROVE  \A i \in Intents : RowStep(row[i], row'[i])
<1>1. CASE UNCHANGED row
    BY <1>1 DEF RowStep
<1>2. ASSUME NEW i \in Intents, RepoStep(i)
      PROVE  \A j \in Intents : RowStep(row[j], row'[j])
    <2>1. RowStep(row[i], row'[i]) /\ RowChange(i)
        BY <1>2, RepoStepRowStep, RepoStepTypes DEF FInv
    <2> QED BY <2>1 DEF RowChange, RowStep
<1> QED BY <1>1, <1>2 DEF FNext, Tick, fundingVars

\* A row is bound to its first funding signature and to its terminal status,
\* and a refund lease excludes execution, for every caller and every order.
THEOREM FundingSteps ==
  FSpec => TerminalIsFinal /\ BindingIsFinal /\ RefundExcludesExecution
<1> DEFINE Step == \A i \in Intents : RowStep(row[i], row'[i])
<1>1. FInv /\ [FNext]_fundingVars => [Step]_fundingVars
    BY FNextRowStep
<1>2. [Step]_fundingVars =>
        /\ [\A i \in Intents : row[i].status \in Terminal => row'[i] = row[i]]_fundingVars
        /\ [\A i \in Intents : row[i].fundingSig # Null =>
              /\ row'[i].fundingSig = row[i].fundingSig
              /\ row'[i].user = row[i].user
              /\ row'[i].hash = row[i].hash
              /\ row'[i].expires = row[i].expires]_fundingVars
        /\ [\A i \in Intents :
              row[i].status \in {"expired", "refunding", "refunded"} =>
                row'[i].status \notin {"budget_reserved", "executing", "completed"}]_fundingVars
    BY DEF RowStep
<1> QED BY <1>1, <1>2, FInitInv, FNextInv, PTL
        DEF FSpec, TerminalIsFinal, BindingIsFinal, RefundExcludesExecution

---------------------------------------------------------------------------
(* The repository implements the abstract budget. *)

\* The abstract budget of one row stays put or makes one allowed transfer.
BudgetStep(r, q) == \/ BudgetOf(q) = BudgetOf(r)
                    \/ <<BudgetOf(r), BudgetOf(q)>> \in Abstract!Transfer

\* Every method makes at most one transfer.
LEMMA RepoStepBudget ==
  ASSUME FTypeOK, NEW i \in Intents, RepoStep(i)
  PROVE  BudgetStep(row[i], row'[i])
<1> USE DEF FTypeOK, BudgetStep, BudgetOf, Abstract!Transfer, Row
<1>1. ASSUME NEW u \in Users, NEW h \in 0 .. now, NEW t \in 0 .. now, Insert(i, u, h, t)
      PROVE  BudgetStep(row[i], row'[i])
    BY <1>1 DEF Insert, IsAbsent
<1>2. ASSUME NEW s \in Sigs, MarkFundingSubmittedIfRequired(i, s)
      PROVE  BudgetStep(row[i], row'[i])
    BY <1>2 DEF MarkFundingSubmittedIfRequired, CanSubmit
<1>3. ASSUME NEW s \in Sigs, MarkBudgetReservedIfSubmitted(i, s)
      PROVE  BudgetStep(row[i], row'[i])
    BY <1>3 DEF MarkBudgetReservedIfSubmitted, SubmittedAs
<1>4. ASSUME NEW s \in Sigs, MarkFundingInvalidIfSubmitted(i, s)
      PROVE  BudgetStep(row[i], row'[i])
    BY <1>4 DEF MarkFundingInvalidIfSubmitted, SubmittedAs
<1>5. ASSUME NEW s \in Sigs, MarkCompletedIfExecuting(i, s)
      PROVE  BudgetStep(row[i], row'[i])
    BY <1>5 DEF MarkCompletedIfExecuting
<1>6. ASSUME NEW s \in Sigs, MarkRefundedIfRefunding(i, s)
      PROVE  BudgetStep(row[i], row'[i])
    BY <1>6 DEF MarkRefundedIfRefunding
<1>7. ASSUME NEW t \in 0 .. now, LeaseExecutionIfBudgetReserved(i, t)
      PROVE  BudgetStep(row[i], row'[i])
    BY <1>7 DEF LeaseExecutionIfBudgetReserved, CanLeaseExecution
<1>8. ASSUME NEW t \in 0 .. now, MarkExpiredIfPast(i, t)
      PROVE  BudgetStep(row[i], row'[i])
    BY <1>8 DEF MarkExpiredIfPast, CanExpire
<1>9. ASSUME NEW t \in 0 .. now, LeaseRefundIfExpiredOrPast(i, t)
      PROVE  BudgetStep(row[i], row'[i])
    BY <1>9 DEF LeaseRefundIfExpiredOrPast, CanLeaseRefund
<1>10. CASE ReleaseExecutionLease(i)
    BY <1>10 DEF ReleaseExecutionLease
<1>11. CASE MarkFailed(i)
    BY <1>11 DEF MarkFailed, CanFail, Terminal, IntentStatus
<1> QED BY <1>1, <1>2, <1>3, <1>4, <1>5, <1>6, <1>7, <1>8, <1>9, <1>10, <1>11
        DEF RepoStep, FundingStep, ExecutionStep, RefundStep

\* Every behaviour of the repository, seen through BudgetOf, is a behaviour of
\* W5hBudget: a budget is spent or returned at most once, and only if it was
\* reserved.
THEOREM FundingImplementsBudget == FSpec => ImplementsBudget
<1>1. FInit => Abstract!BudgetInit
    BY DEF FInit, AbstractBudget, AbsentRow, BudgetOf, Abstract!BudgetInit
<1>2. FInv /\ [FNext]_fundingVars => [Abstract!BudgetNext]_AbstractBudget
    <2> SUFFICES ASSUME FInv, [FNext]_fundingVars, AbstractBudget' # AbstractBudget
                 PROVE  Abstract!BudgetNext
        OBVIOUS
    <2>1. ASSUME row' = row PROVE FALSE
        BY <2>1 DEF AbstractBudget
    <2>2. PICK i \in Intents : RepoStep(i)
        BY <2>1 DEF FNext, Tick, fundingVars
    <2>3. RowChange(i) /\ BudgetStep(row[i], row'[i])
        BY <2>2, RepoStepTypes, RepoStepBudget DEF FInv
    <2>4. AbstractBudget' = [AbstractBudget EXCEPT ![i] = BudgetOf(row'[i])]
        BY <2>3 DEF AbstractBudget, RowChange
    <2>5. <<AbstractBudget[i], BudgetOf(row'[i])>> \in Abstract!Transfer
        BY <2>3, <2>4 DEF AbstractBudget, BudgetStep
    <2>6. BudgetOf(row'[i]) \in Abstract!BudgetState
        BY DEF BudgetOf, Abstract!BudgetState
    <2> QED BY <2>4, <2>5, <2>6 DEF Abstract!BudgetNext, Abstract!Move
<1> QED BY <1>1, <1>2, FInitInv, FNextInv, PTL
        DEF FSpec, ImplementsBudget, Abstract!BudgetSpec

---------------------------------------------------------------------------
(* The verifier.  The repository's own invariant says that a funded row    *)
(* has a signature.  What is added is the handlers' side: a handler that   *)
(* comes to write its verdict found it in a transaction whose memo and     *)
(* delta never change, and the WHERE clause ties the write to the very     *)
(* signature it verified.                                                  *)

ConfPcs == {"idle", "submit", "fetch", "invalidate", "reserve", "reread"}

Conf == [pc : ConfPcs, i : Intents \cup {Null}, s : OptSig, reply : Replies]

\* Handlers and transactions are well formed, and a handler at work has an
\* intent and the signature of a funding transaction.
ConfirmType ==
  /\ ftx \in [FundingSigs -> FundingTx]
  /\ conf \in [Handlers -> Conf]
  /\ \A h \in Handlers : conf[h].pc # "idle" =>
       conf[h].i \in Intents /\ conf[h].s \in FundingSigs

\* The history of the blocks agrees with the fork the cluster follows.
BlocksTold ==
  \A s \in FundingSigs :
    /\ Succeeded(s) => "confirmed" \in ftx[s].blocks
    /\ Fetchable(s) /\ ~Succeeded(s) => "erring" \in ftx[s].blocks

\* Only the verifier binds signatures, and no verdict comes without one.
BoundToFunding ==
  \A i \in Intents : /\ row[i].fundingSig \in FundingSigs \cup {Null}
                     /\ row[i].status = "funding_invalid" => row[i].fundingSig # Null

\* What a verdict on order i and transaction s rests on.
Earned(i, s) == Pays(i, s) /\ "confirmed" \in ftx[s].blocks
Refuted(i, s) == ~Pays(i, s) \/ "erring" \in ftx[s].blocks

\* What a handler is about to write is true of the transaction it read.
VerdictStands ==
  \A h \in Handlers :
    /\ conf[h].pc = "reserve" => Earned(conf[h].i, conf[h].s)
    /\ conf[h].pc = "invalidate" => Refuted(conf[h].i, conf[h].s)

\* The verifier's part of the invariant.
ConfirmInv == /\ ConfirmType /\ BlocksTold /\ BoundToFunding /\ VerdictStands
              /\ FundedIsVerified /\ InvalidIsDeserved

---------------------------------------------------------------------------
(* The steps of the other users of the repository.                         *)

\* Everything a caller may do to row i except bind or judge its funding.
OtherStep(i) == \/ \E u \in Users, h \in 0 .. now, t \in 0 .. now : Insert(i, u, h, t)
                \/ ExecutionStep(i)
                \/ RefundStep(i)

\* Such a step leaves the binding and the verdict on it alone.
KeepsVerdict(r, q) ==
  /\ q.fundingSig \in {r.fundingSig, Null}
  /\ q.status \in Funded => r.status \in Funded /\ q.fundingSig = r.fundingSig
  /\ q.status = "funding_invalid" =>
       r.status = "funding_invalid" /\ q.fundingSig = r.fundingSig

\* Insert, the execution side and the refund side only move a funded budget.
LEMMA OtherStepKeepsVerdict ==
  ASSUME FTypeOK, NEW i \in Intents, OtherStep(i)
  PROVE  KeepsVerdict(row[i], row'[i])
<1> USE DEF FTypeOK, KeepsVerdict, Funded, Row
<1>1. ASSUME NEW u \in Users, NEW h \in 0 .. now, NEW t \in 0 .. now, Insert(i, u, h, t)
      PROVE  KeepsVerdict(row[i], row'[i])
    BY <1>1 DEF Insert
<1>2. CASE ExecutionStep(i)
    BY <1>2 DEF ExecutionStep, LeaseExecutionIfBudgetReserved, CanLeaseExecution,
                MarkCompletedIfExecuting, ReleaseExecutionLease, MarkFailed, CanFail, Terminal
<1>3. CASE RefundStep(i)
    BY <1>3 DEF RefundStep, MarkExpiredIfPast, CanExpire, LeaseRefundIfExpiredOrPast,
                CanLeaseRefund, MarkRefundedIfRefunding
<1> QED BY <1>1, <1>2, <1>3 DEF OtherStep

\* The handlers are left alone, or all of them end (a restart).
HandlersStay == conf' = conf \/ conf' = [h \in Handlers |-> IdleHandler]

\* No step of the other users, and no restart, disturbs the verifier.
LEMMA OthersKeepConfirmInv ==
  ASSUME ConfirmInv, UNCHANGED ftx, HandlersStay,
         \A i \in Intents : KeepsVerdict(row[i], row'[i])
  PROVE  ConfirmInv'
<1>1. IdleHandler \in Conf /\ IdleHandler.pc = "idle"
    BY DEF IdleHandler, Conf, ConfPcs, OptSig, Replies
<1>2. ConfirmType'
    BY <1>1 DEF ConfirmInv, ConfirmType, HandlersStay
<1>3. VerdictStands'
    BY <1>1 DEF ConfirmInv, VerdictStands, HandlersStay, Earned, Refuted, Pays
<1>4. BoundToFunding'
    BY DEF ConfirmInv, BoundToFunding, KeepsVerdict
<1>5. FundedIsVerified' /\ InvalidIsDeserved'
    BY DEF ConfirmInv, FundedIsVerified, InvalidIsDeserved, KeepsVerdict, Pays
<1>6. BlocksTold'
    BY DEF ConfirmInv, BlocksTold, Succeeded, Fetchable
<1> QED BY <1>2, <1>3, <1>4, <1>5, <1>6 DEF ConfirmInv

\* A block is confirmed, finalized or abandoned: memo and delta stay, and no
\* block that was confirmed is forgotten.
LEMMA ChainKeepsConfirmInv ==
  ASSUME ConfirmInv, NEW s \in FundingSigs, ChainStep(s), UNCHANGED <<row, conf>>
  PROVE  ConfirmInv'
<1>1. /\ ftx' \in [FundingSigs -> FundingTx]
      /\ \A x \in FundingSigs : /\ ftx'[x].memos = ftx[x].memos
                                /\ ftx'[x].delta = ftx[x].delta
                                /\ ftx[x].blocks \subseteq ftx'[x].blocks
      /\ BlocksTold'
    <2>1. PICK c \in ChainStates :
            /\ <<ftx[s].chain, c>> \in {"unseen"} \X {"confirmed", "erring"}
                                       \cup {"confirmed", "erring"} \X {"unseen"}
                                       \cup {<<"confirmed", "finalized">>, <<"erring", "failed">>}
            /\ ftx' = [ftx EXCEPT ![s] =
                         [@ EXCEPT !.chain = c,
                                   !.blocks = ftx[s].blocks
                                                \cup ({c} \cap {"confirmed", "erring"})]]
        BY DEF ChainStep
    <2> DEFINE f == [ftx[s] EXCEPT !.chain = c,
                                   !.blocks = ftx[s].blocks
                                                \cup ({c} \cap {"confirmed", "erring"})]
    <2>2. ftx[s] \in FundingTx /\ ftx \in [FundingSigs -> FundingTx]
        BY DEF ConfirmInv, ConfirmType
    <2>3. /\ f \in FundingTx /\ f.memos = ftx[s].memos /\ f.delta = ftx[s].delta /\ f.chain = c
          /\ f.blocks = ftx[s].blocks \cup ({c} \cap {"confirmed", "erring"})
        BY <2>2 DEF FundingTx
    <2>4. ftx' = [ftx EXCEPT ![s] = f]
        BY <2>1
    <2> HIDE DEF f
    <2>5. ftx'[s] = f /\ \A x \in FundingSigs \ {s} : ftx'[x] = ftx[x]
        BY <2>2, <2>4
    <2>6. /\ c \in {"confirmed", "finalized"} => "confirmed" \in f.blocks
          /\ c \in {"erring", "failed"} => "erring" \in f.blocks
        BY <2>1, <2>3 DEF ConfirmInv, BlocksTold, Succeeded, Fetchable
    <2>7. BlocksTold'
        BY <2>3, <2>5, <2>6 DEF ConfirmInv, BlocksTold, Succeeded, Fetchable, ChainStates
    <2>8. ftx' \in [FundingSigs -> FundingTx]
        BY <2>2, <2>3, <2>4
    <2> QED BY <2>3, <2>5, <2>7, <2>8
<1>2. ConfirmType' /\ BoundToFunding'
    BY <1>1 DEF ConfirmInv, ConfirmType, BoundToFunding
<1>3. VerdictStands'
    BY <1>1 DEF ConfirmInv, ConfirmType, VerdictStands, Earned, Refuted, Pays
<1>4. FundedIsVerified' /\ InvalidIsDeserved'
    BY <1>1, NullAssumption DEF ConfirmInv, BoundToFunding, FundedIsVerified, InvalidIsDeserved, Pays
<1> QED BY <1>1, <1>2, <1>3, <1>4 DEF ConfirmInv

---------------------------------------------------------------------------
(* The handler.                                                            *)

\* Frame h is at pc p and, unless it is done, has the intent and the signature
\* it had.
HandlerAt(h, p) ==
  /\ conf' \in [Handlers -> Conf]
  /\ conf'[h].pc = p
  /\ p # "idle" => conf'[h].i = conf[h].i /\ conf'[h].s = conf[h].s
  /\ \A g \in Handlers \ {h} : conf'[g] = conf[g]

\* A goto and a reply change nothing else of the handler's frame.
LEMMA HandlerMoves ==
  ASSUME ConfirmType, NEW h \in Handlers
  PROVE  /\ \A p \in ConfPcs : ConfGoto(h, p) => HandlerAt(h, p)
         /\ \A r \in Replies : ConfReply(h, r) => HandlerAt(h, "idle")
<1>1. conf[h] \in Conf /\ conf \in [Handlers -> Conf]
    BY DEF ConfirmType
<1>2. ASSUME NEW p \in ConfPcs, ConfGoto(h, p) PROVE HandlerAt(h, p)
    BY <1>1, <1>2 DEF ConfGoto, HandlerAt, Conf
<1>3. ASSUME NEW r \in Replies, ConfReply(h, r) PROVE HandlerAt(h, "idle")
    BY <1>1, <1>3 DEF ConfReply, IdleHandler, HandlerAt, Conf, ConfPcs, OptSig
<1> QED BY <1>2, <1>3

\* A request arrives: the answer from the row, or the handler goes on.
LEMMA BeginKeepsConfirmInv ==
  ASSUME FTypeOK, ConfirmInv, NEW h \in Handlers, NEW i \in Intents, NEW s \in FundingSigs,
         NEW u \in Users, ConfirmBegin(h, i, s, u)
  PROVE  ConfirmInv'
<1>1. EarlyReply(row[i], u) \in Replies
    BY DEF EarlyReply, Replies
<1>2. PICK c \in Conf : /\ conf' = [conf EXCEPT ![h] = c]
                        /\ c.pc \in {"idle", "submit"}
                        /\ c.pc = "submit" => c.i \in Intents /\ c.s \in FundingSigs
    <2>1. CASE EarlyReply(row[i], u) = "none"
        <3> DEFINE c == [pc |-> "submit", i |-> i, s |-> s, reply |-> "none"]
        <3>1. c \in Conf
            BY FundingSigsAssumption DEF Conf, ConfPcs, OptSig, Replies
        <3> QED BY <2>1, <3>1 DEF ConfirmBegin
    <2>2. CASE EarlyReply(row[i], u) # "none"
        <3> DEFINE c == [IdleHandler EXCEPT !.reply = EarlyReply(row[i], u)]
        <3>1. c \in Conf /\ c.pc = "idle"
            BY <1>1 DEF IdleHandler, Conf, ConfPcs, OptSig
        <3>2. conf' = [conf EXCEPT ![h] = c]
            BY <2>2 DEF ConfirmBegin, ConfReply
        <3> HIDE DEF c
        <3> QED BY <3>1, <3>2
    <2> QED BY <2>1, <2>2
<1>3. UNCHANGED <<row, ftx>>
    BY DEF ConfirmBegin
<1>4. ConfirmType' /\ BlocksTold' /\ BoundToFunding'
    BY <1>2, <1>3
    DEF ConfirmInv, ConfirmType, BlocksTold, BoundToFunding, Succeeded, Fetchable
<1>5. VerdictStands'
    BY <1>2, <1>3 DEF ConfirmInv, ConfirmType, VerdictStands, Earned, Refuted, Pays
<1>6. FundedIsVerified' /\ InvalidIsDeserved'
    BY <1>3 DEF ConfirmInv, FundedIsVerified, InvalidIsDeserved, Pays
<1> QED BY <1>4, <1>5, <1>6 DEF ConfirmInv

\* A handler step that moves its frame to p, where what p claims is true,
\* keeps the frames' part of the invariant.
LEMMA MoveKeepsFrames ==
  ASSUME ConfirmType, BlocksTold, VerdictStands, UNCHANGED ftx, NEW h \in Handlers,
         NEW p \in ConfPcs, conf[h].pc # "idle", HandlerAt(h, p),
         p = "reserve" => Earned(conf[h].i, conf[h].s),
         p = "invalidate" => Refuted(conf[h].i, conf[h].s)
  PROVE  ConfirmType' /\ BlocksTold' /\ VerdictStands'
<1>1. ConfirmType' /\ BlocksTold'
    BY DEF ConfirmType, BlocksTold, HandlerAt, Succeeded, Fetchable
<1>2. ASSUME NEW g \in Handlers
      PROVE  /\ conf'[g].pc = "reserve" => Earned(conf'[g].i, conf'[g].s)
             /\ conf'[g].pc = "invalidate" => Refuted(conf'[g].i, conf'[g].s)
    <2>1. CASE g = h
        BY <2>1 DEF HandlerAt
    <2>2. CASE g # h
        BY <2>2 DEF HandlerAt, VerdictStands
    <2> QED BY <2>1, <2>2
<1>3. VerdictStands'
    BY <1>2 DEF VerdictStands, Earned, Refuted, Pays
<1> QED BY <1>1, <1>3

\* Binding a signature judges nothing: the row is in no funded status, and a
\* row already bound keeps its signature.
LEMMA SubmitKeepsRows ==
  ASSUME FTypeOK, ConfirmInv, UNCHANGED ftx, NEW i \in Intents, NEW s \in FundingSigs,
         MarkFundingSubmittedIfRequired(i, s)
  PROVE  BoundToFunding' /\ FundedIsVerified' /\ InvalidIsDeserved'
<1>1. /\ row' \in [Intents -> Row] /\ \A j \in Intents \ {i} : row'[j] = row[j]
      /\ row'[i].status = "funding_submitted" /\ row'[i].fundingSig = s
    BY FundingSigsAssumption
    DEF FTypeOK, MarkFundingSubmittedIfRequired, Row, OptSig, IntentStatus
<1> QED BY <1>1 DEF ConfirmInv, BoundToFunding, FundedIsVerified, InvalidIsDeserved, Funded, Pays

\* A verdict is written on a row that is bound to the verified signature.
LEMMA VerdictKeepsRows ==
  ASSUME FTypeOK, ConfirmInv, UNCHANGED ftx, NEW i \in Intents, NEW s \in FundingSigs,
         \/ /\ MarkBudgetReservedIfSubmitted(i, s)
            /\ Earned(i, s)
         \/ MarkFundingInvalidIfSubmitted(i, s) /\ Refuted(i, s)
  PROVE  BoundToFunding' /\ FundedIsVerified' /\ InvalidIsDeserved'
<1>0. s # Null
    BY NullAssumption, FundingSigsAssumption
<1>1. /\ \A j \in Intents \ {i} : row'[j] = row[j]
      /\ row'[i].fundingSig = s
      /\ \/ row'[i].status = "budget_reserved" /\ Earned(i, s)
         \/ row'[i].status = "funding_invalid" /\ Refuted(i, s)
    BY DEF FTypeOK, MarkBudgetReservedIfSubmitted, MarkFundingInvalidIfSubmitted, SubmittedAs, Row
<1>2. BoundToFunding'
    BY <1>0, <1>1 DEF ConfirmInv, BoundToFunding
<1>3. FundedIsVerified'
    BY <1>1 DEF ConfirmInv, FundedIsVerified, Funded, Earned, Refuted, Pays
<1>4. InvalidIsDeserved'
    BY <1>1 DEF ConfirmInv, InvalidIsDeserved, Earned, Refuted, Pays
<1> QED BY <1>2, <1>3, <1>4

\* A handler's step keeps the invariant.
LEMMA HandlerKeepsConfirmInv ==
  ASSUME FTypeOK, ConfirmInv, NEW h \in Handlers, HandlerStep(h)
  PROVE  ConfirmInv'
<1> DEFINE i == conf[h].i
           s == conf[h].s
           Rows == BoundToFunding' /\ FundedIsVerified' /\ InvalidIsDeserved'
<1>0. UNCHANGED ftx /\ conf[h].pc # "idle" /\ i \in Intents /\ s \in FundingSigs
    BY DEF HandlerStep, ConfirmSubmit, ConfirmPending, ConfirmVerify, ConfirmInvalidate,
           ConfirmReserve, ConfirmReread, ConfirmAbort, ConfirmInv, ConfirmType
<1>1. ASSUME UNCHANGED row PROVE Rows
    BY <1>0, <1>1 DEF ConfirmInv, BoundToFunding, FundedIsVerified, InvalidIsDeserved, Pays
<1>2. ASSUME NEW r \in Replies, ConfReply(h, r) PROVE ConfirmType' /\ BlocksTold' /\ VerdictStands'
    <2>1. HandlerAt(h, "idle") /\ "idle" \in ConfPcs
        BY <1>2, HandlerMoves DEF ConfirmInv, ConfPcs
    <2> QED BY <1>0, <2>1, MoveKeepsFrames DEF ConfirmInv
<1>3. CASE ConfirmSubmit(h)
    <2>1. CASE MarkFundingSubmittedIfRequired(i, s) /\ ConfGoto(h, "fetch")
        <3>1. HandlerAt(h, "fetch") /\ "fetch" \in ConfPcs
            BY <2>1, HandlerMoves DEF ConfirmInv, ConfPcs
        <3> QED BY <1>0, <2>1, <3>1, MoveKeepsFrames, SubmitKeepsRows DEF ConfirmInv
    <2>2. CASE ConfReply(h, "request_mismatch") /\ UNCHANGED row
        BY <1>1, <1>2, <2>2 DEF ConfirmInv, Replies
    <2> QED BY <1>3, <2>1, <2>2 DEF ConfirmSubmit
<1>4. CASE ConfirmPending(h) \/ ConfirmReread(h) \/ ConfirmAbort(h)
    <2>1. UNCHANGED row /\ \E r \in Replies : ConfReply(h, r)
        BY <1>4 DEF ConfirmPending, ConfirmReread, ConfirmAbort, Replies
    <2> QED BY <1>1, <1>2, <2>1 DEF ConfirmInv
<1>5. CASE ConfirmVerify(h)
    <2>1. CASE Verified(i, s)
        <3>1. HandlerAt(h, "reserve") /\ "reserve" \in ConfPcs
            BY <1>5, <2>1, HandlerMoves DEF ConfirmInv, ConfPcs, ConfirmVerify
        <3>2. Earned(i, s) /\ UNCHANGED row
            BY <1>0, <1>5, <2>1
            DEF ConfirmVerify, ConfirmInv, BlocksTold, Verified, MemoMatches, DeltaMatches, Earned, Pays
        <3> QED BY <1>0, <1>1, <2>1, <3>1, <3>2, MoveKeepsFrames DEF ConfirmInv
    <2>2. CASE ~Verified(i, s)
        <3>1. HandlerAt(h, "invalidate") /\ "invalidate" \in ConfPcs
            BY <1>5, <2>2, HandlerMoves DEF ConfirmInv, ConfPcs, ConfirmVerify
        <3>2. Refuted(i, s) /\ UNCHANGED row
            BY <1>0, <1>5, <2>2
            DEF ConfirmVerify, ConfirmInv, BlocksTold, Verified, MemoMatches, DeltaMatches, Refuted, Pays
        <3> QED BY <1>0, <1>1, <2>2, <3>1, <3>2, MoveKeepsFrames DEF ConfirmInv
    <2> QED BY <2>1, <2>2
<1>6. CASE ConfirmInvalidate(h)
    <2>1. Refuted(i, s) /\ ConfReply(h, "funding_invalid") /\ "funding_invalid" \in Replies
        BY <1>6 DEF ConfirmInvalidate, ConfirmInv, VerdictStands, Replies
    <2>2. Rows
        BY <1>0, <1>1, <1>6, <2>1, VerdictKeepsRows DEF ConfirmInvalidate
    <2> QED BY <1>2, <2>1, <2>2 DEF ConfirmInv
<1>7. CASE ConfirmReserve(h)
    <2>1. Earned(i, s) /\ ConfGoto(h, "reread")
        BY <1>7 DEF ConfirmReserve, ConfirmInv, VerdictStands
    <2>2. Rows
        BY <1>0, <1>1, <1>7, <2>1, VerdictKeepsRows DEF ConfirmReserve
    <2>3. HandlerAt(h, "reread") /\ "reread" \in ConfPcs
        BY <2>1, HandlerMoves DEF ConfirmInv, ConfPcs
    <2> QED BY <1>0, <2>2, <2>3, MoveKeepsFrames DEF ConfirmInv
<1> QED BY <1>3, <1>4, <1>5, <1>6, <1>7 DEF HandlerStep

\* A handler uses the repository as W5hFunding describes it: it binds a
\* signature or writes a verdict.
LEMMA HandlerUsesRepository ==
  ASSUME ConfirmType, NEW h \in Handlers, HandlerStep(h)
  PROVE  UNCHANGED now /\ (UNCHANGED row \/ \E i \in Intents : FundingStep(i))
<1>1. conf[h].pc # "idle" => conf[h].i \in Intents /\ conf[h].s \in Sigs
    BY FundingSigsAssumption DEF ConfirmType
<1> QED BY <1>1 DEF HandlerStep, ConfirmSubmit, ConfirmPending, ConfirmVerify, ConfirmInvalidate,
           ConfirmReserve, ConfirmReread, ConfirmAbort, FundingStep

---------------------------------------------------------------------------
(* The specification.                                                      *)

CInv == FInv /\ ConfirmInv

\* Every initial state satisfies the invariant.
LEMMA CInitInv == CInit => CInv
<1> SUFFICES ASSUME CInit PROVE CInv
    OBVIOUS
<1>1. FInv
    BY FInitInv DEF CInit
<1>2. IdleHandler \in Conf /\ IdleHandler.pc = "idle"
    BY DEF IdleHandler, Conf, ConfPcs, OptSig, Replies
<1>3. ConfirmType /\ BlocksTold /\ VerdictStands
    BY <1>2 DEF CInit, ConfirmInit, ConfirmType, VerdictStands, BlocksTold, Succeeded, Fetchable
<1>4. \A i \in Intents : row[i].status = "absent" /\ row[i].fundingSig = Null
    BY DEF CInit, FInit, AbsentRow
<1>5. BoundToFunding /\ FundedIsVerified /\ InvalidIsDeserved
    BY <1>4 DEF BoundToFunding, FundedIsVerified, InvalidIsDeserved, Funded
<1> QED BY <1>1, <1>3, <1>5 DEF CInv, ConfirmInv

\* Every step of the verifier and of the other users is a repository step.
LEMMA ConfirmUsesRepository ==
  ASSUME CInv, [CNext]_confirmVars
  PROVE  [FNext]_fundingVars
<1>1. CASE UNCHANGED confirmVars
    BY <1>1 DEF confirmVars, fundingVars
<1>2. CASE ConfirmNext
    <2>1. UNCHANGED now /\ (UNCHANGED row \/ \E i \in Intents : FundingStep(i))
        BY <1>2, HandlerUsesRepository DEF ConfirmNext, ConfirmBegin, CInv, ConfirmInv
    <2> QED BY <2>1 DEF FNext, RepoStep, fundingVars
<1>3. CASE OtherUsers /\ UNCHANGED <<now, ftx, conf>>
    <2>1. now \in 0 .. now
        BY DEF CInv, FInv, FTypeOK
    <2>2. \E i \in Intents : RepoStep(i)
        BY <1>3, <2>1 DEF OtherUsers, RepoStep
    <2> QED BY <1>3, <2>2 DEF FNext
<1>4. CASE Tick
    BY <1>4 DEF FNext
<1> QED BY <1>1, <1>2, <1>3, <1>4 DEF CNext

\* The invariant is inductive.
LEMMA CNextInv == CInv /\ [CNext]_confirmVars => CInv'
<1> SUFFICES ASSUME CInv, [CNext]_confirmVars PROVE CInv'
    OBVIOUS
<1>0. FInv'
    BY ConfirmUsesRepository, FNextInv DEF CInv
<1>1. CASE ConfirmNext
    <2>1. FTypeOK /\ ConfirmInv
        BY DEF CInv, FInv
    <2>2. ASSUME NEW h \in Handlers, NEW i \in Intents, NEW s \in FundingSigs,
                 NEW u \in Users, ConfirmBegin(h, i, s, u)
          PROVE  ConfirmInv'
        BY <2>1, <2>2, BeginKeepsConfirmInv
    <2>3. ASSUME NEW h \in Handlers, HandlerStep(h) PROVE ConfirmInv'
        BY <2>1, <2>3, HandlerKeepsConfirmInv
    <2>4. ASSUME NEW s \in FundingSigs, ChainStep(s), UNCHANGED <<row, conf>> PROVE ConfirmInv'
        BY <2>1, <2>4, ChainKeepsConfirmInv
    <2> QED BY <1>0, <1>1, <2>2, <2>3, <2>4 DEF ConfirmNext, CInv
<1>2. CASE OtherUsers /\ UNCHANGED <<now, ftx, conf>>
    <2>1. PICK i \in Intents : OtherStep(i)
        <3>1. now \in 0 .. now
            BY DEF CInv, FInv, FTypeOK
        <3> QED BY <1>2, <3>1 DEF OtherUsers, OtherStep
    <2>2. RepoStep(i)
        BY <2>1 DEF OtherStep, RepoStep
    <2>3. \A j \in Intents : KeepsVerdict(row[j], row'[j])
        <3>1. KeepsVerdict(row[i], row'[i]) /\ RowChange(i)
            BY <2>1, <2>2, OtherStepKeepsVerdict, RepoStepTypes DEF CInv, FInv
        <3> QED BY <3>1 DEF RowChange, KeepsVerdict
    <2> QED BY <1>0, <1>2, <2>3, OthersKeepConfirmInv DEF CInv, HandlersStay
<1>3. CASE (Tick /\ UNCHANGED <<ftx, conf>>) \/ UNCHANGED confirmVars
    <2>1. UNCHANGED <<row, ftx, conf>>
        BY <1>3 DEF Tick, confirmVars
    <2>2. \A j \in Intents : KeepsVerdict(row[j], row'[j])
        BY <2>1 DEF KeepsVerdict
    <2> QED BY <1>0, <2>1, <2>2, OthersKeepConfirmInv DEF CInv, HandlersStay
<1> QED BY <1>1, <1>2, <1>3 DEF CNext

\* A budget is reserved only for a transaction that names the intent, is for
\* exactly its amount and succeeded in a confirmed block, however many handlers
\* race, with whatever signatures.
THEOREM ConfirmFundedIsVerified == CSpec => []FundedIsVerified
<1>1. CInv => FundedIsVerified
  BY DEF CInv, ConfirmInv
<1> QED BY <1>1, CInitInv, CNextInv, PTL DEF CSpec

\* No transaction with the right memo and amount is declared invalid unless it
\* failed in some confirmed block, whatever the racing handlers saw and when.
THEOREM ConfirmInvalidIsDeserved == CSpec => []InvalidIsDeserved
<1>1. CInv => InvalidIsDeserved
  BY DEF CInv, ConfirmInv
<1> QED BY <1>1, CInitInv, CNextInv, PTL DEF CSpec

\* The verifier with the other users implements the repository: what is proved
\* of every caller holds of these.
THEOREM ConfirmImplementsRepository == CSpec => FSpec
<1>1. CInit => FInit
    BY DEF CInit
<1> QED BY <1>1, CInitInv, CNextInv, ConfirmUsesRepository, PTL DEF CSpec, FSpec

\* So the race of handlers, executions and refunds never has a budget both
\* spent and returned, never reopens a refund, and implements the abstract budget.
THEOREM ConfirmKeepsBudgets ==
  CSpec => []SpentOrReturned /\ RefundExcludesExecution /\ ImplementsBudget
BY ConfirmImplementsRepository, FundingInvariant, FundingSteps, FundingImplementsBudget, PTL

---------------------------------------------------------------------------
(* The execution of funded orders.                                         *)

Exec == [pc : ExecPcs, i : Intents \cup {Null}, hash : Nat, t : Nat, sig : ExecSigs \cup {Null}]

Dep == [chain : DepStates, amount : Nat, for : SUBSET Intents]

OffPcs == {"idle", "listed", "scan"}
HoldPcs == {"build", "send", "poll", "mark_rule", "mark_intent", "release", "mark_failed"}
SentPcs == {"poll", "mark_rule", "mark_intent", "mark_failed"}

\* No deposit for i has landed or still may.
NotLive(i) == \A x \in ExecSigs : Live(x) => i \notin dep[x].for

NoAnswerIsLost == "lost_response" \notin Faults

\* What the rows and the cluster must satisfy for an executor's frame e: a
\* frame between lease and write-back has its row in executing; one that has
\* sent knows its transaction; before that nothing is under way.
FrameOK(e) ==
  /\ e \in Exec
  /\ e.t =< now
  /\ e.pc \notin OffPcs => e.i \in Intents
  /\ e.pc \in HoldPcs => row[e.i].status = "executing"
  /\ e.pc \in SentPcs => e.sig \in ExecSigs /\ e.i \in dep[e.sig].for
  /\ e.pc \in {"mark_rule", "mark_intent"} => dep[e.sig].chain = "landed"
  /\ NoAnswerIsLost /\ e.pc \in {"build", "send", "release"} => NotLive(e.i)

\* No two executors hold the same intent.
HoldersDiffer ==
  \A p, q \in Executors : p # q /\ exe[p].pc \in HoldPcs /\ exe[q].pc \in HoldPcs =>
    exe[p].i # exe[q].i

\* The statuses of an intent for which a deposit may be under way.
SentStatus == {"executing", "completed", "failed"}

\* Unless an answer was lost, a deposit is under way only for an intent that
\* says so: what keeps a second lease, and a refund, from a budget in flight.
DepositIsRecorded ==
  NoAnswerIsLost => /\ \A i \in Intents : row[i].status \notin SentStatus => NotLive(i)
                    /\ SingleDeposit

ExecType == /\ rules \in [Rules -> RuleRow]
            /\ exe \in [Executors -> Exec]
            /\ dep \in [ExecSigs -> Dep]
            /\ batch \subseteq Intents

\* The inductive invariant of the execution leg.
ExecInv == /\ ExecType
           /\ \A p \in Executors : FrameOK(exe[p])
           /\ HoldersDiffer
           /\ DepositIsRecorded
           /\ CompletedIsDeposited

\* The lease is exclusive in every state of the invariant.
LEMMA ExecInvExclusive == ExecInv => LeaseIsExclusive
<1> SUFFICES ASSUME ExecInv, NEW p \in Executors, NEW i \in Intents, Holds(p, i)
             PROVE  row[i].status = "executing" /\ \A q \in Executors \ {p} : ~Holds(q, i)
    BY DEF LeaseIsExclusive
<1>1. exe[p].pc \in HoldPcs /\ exe[p].i = i
    BY DEF Holds, HoldPcs
<1>2. row[i].status = "executing"
    BY <1>1 DEF ExecInv, FrameOK
<1>3. \A q \in Executors \ {p} : ~Holds(q, i)
    BY <1>1 DEF ExecInv, HoldersDiffer, Holds, HoldPcs
<1> QED BY <1>2, <1>3

---------------------------------------------------------------------------
(* Steps that write no row, no rule and no deposit.                        *)

\* An executor moves to frame e without taking a lease.
LEMMA FrameMoveKeepsInv ==
  ASSUME FTypeOK, ExecInv, UNCHANGED <<row, now, rules, dep>>, batch' \subseteq Intents,
         NEW p \in Executors, NEW e, exe' = [exe EXCEPT ![p] = e], FrameOK(e),
         e.pc \in HoldPcs => exe[p].pc \in HoldPcs /\ e.i = exe[p].i
  PROVE  ExecInv'
<1>1. e \in Exec /\ ExecType'
    BY DEF ExecInv, ExecType, FrameOK
<1>2. \A q \in Executors : FrameOK(exe'[q])
    BY DEF ExecInv, ExecType
<1>3. \A q \in Executors : FrameOK(exe[q])'
    BY <1>2 DEF FrameOK, NotLive, Live
<1>4. HoldersDiffer'
    BY DEF ExecInv, ExecType, HoldersDiffer
<1>5. DepositIsRecorded' /\ CompletedIsDeposited'
    BY DEF ExecInv, DepositIsRecorded, CompletedIsDeposited, NotLive, Live, SingleDeposit, Deposited
<1> QED BY <1>1, <1>3, <1>4, <1>5 DEF ExecInv

\* A frame that holds nothing is in order.
LEMMA IdleFrameOK ==
  ASSUME FTypeOK, NEW l \in OffPcs
  PROVE  FrameOK([IdleExecutor EXCEPT !.pc = l]) /\ [IdleExecutor EXCEPT !.pc = l].pc = l
<1> DEFINE e == [IdleExecutor EXCEPT !.pc = l]
<1>1. e \in Exec /\ e.pc = l /\ e.t = 0
    BY DEF IdleExecutor, Exec, OffPcs, ExecPcs
<1>2. now \in Nat
    BY ClockAssumption DEF FTypeOK
<1> HIDE DEF e
<1>3. FrameOK(e)
    BY <1>1, <1>2 DEF FrameOK, OffPcs, HoldPcs, SentPcs
<1> QED BY <1>1, <1>3 DEF e

\* The call returns.
LEMMA ReturnKeepsInv ==
  ASSUME FTypeOK, ExecInv, UNCHANGED <<row, now, rules, dep, batch>>,
         NEW p \in Executors, ExecReturn(p)
  PROVE  ExecInv'
<1>1. PICK l \in OffPcs : exe' = [exe EXCEPT ![p] = [IdleExecutor EXCEPT !.pc = l]]
    BY DEF ExecReturn, OffPcs
<1>2. batch' \subseteq Intents /\ l \notin HoldPcs
    BY DEF ExecInv, ExecType, OffPcs, HoldPcs
<1> QED BY <1>1, <1>2, IdleFrameOK, FrameMoveKeepsInv

\* A goto changes the program counter of one frame and nothing else.
LEMMA GotoFrame ==
  ASSUME ExecType, NEW p \in Executors, NEW l \in ExecPcs
  PROVE  LET e == [exe[p] EXCEPT !.pc = l] IN
           /\ e \in Exec /\ e.pc = l /\ e.i = exe[p].i /\ e.t = exe[p].t /\ e.sig = exe[p].sig
           /\ e.hash = exe[p].hash
           /\ ExecGoto(p, l) => exe' = [exe EXCEPT ![p] = e]
<1>1. exe[p] \in Exec
    BY DEF ExecType
<1> QED BY <1>1 DEF Exec, ExecGoto

\* The checks before the lease: any goto to a step that holds nothing.
LEMMA PrecheckKeepsInv ==
  ASSUME FTypeOK, ExecInv, UNCHANGED <<row, now, rules, dep>>, batch' \subseteq Intents,
         NEW p \in Executors, NEW l \in ExecPcs \ HoldPcs, ExecGoto(p, l),
         l \in OffPcs \/ exe[p].pc \notin OffPcs
  PROVE  ExecInv'
<1> DEFINE e == [exe[p] EXCEPT !.pc = l]
<1>1. /\ e \in Exec /\ e.pc = l /\ e.i = exe[p].i /\ e.t = exe[p].t
      /\ exe' = [exe EXCEPT ![p] = e]
    BY GotoFrame DEF ExecInv
<1> HIDE DEF e
<1>2. FrameOK(exe[p])
    BY DEF ExecInv
<1>3. FrameOK(e) /\ e.pc \notin HoldPcs
    BY <1>1, <1>2 DEF FrameOK, HoldPcs, SentPcs
<1> QED BY <1>1, <1>3, FrameMoveKeepsInv

\* An execution starts: for an intent of the tick, or for the one named by a
\* manual approval.
LEMMA StartKeepsInv ==
  ASSUME FTypeOK, ExecInv, UNCHANGED <<row, now, rules, dep>>, batch' \subseteq Intents,
         NEW p \in Executors, NEW i \in Intents, NEW h \in Nat, ExecStart(p, i, h)
  PROVE  ExecInv'
<1> DEFINE e == [IdleExecutor EXCEPT !.pc = "rule", !.i = i, !.hash = h]
<1>1. e \in Exec /\ e.pc = "rule" /\ e.i = i /\ e.t = 0
    BY DEF IdleExecutor, Exec, ExecPcs
<1>2. exe' = [exe EXCEPT ![p] = e]
    BY DEF ExecStart
<1>3. now \in Nat
    BY ClockAssumption DEF FTypeOK
<1> HIDE DEF e
<1>4. FrameOK(e) /\ e.pc \notin HoldPcs
    BY <1>1, <1>3 DEF FrameOK, HoldPcs, SentPcs
<1> QED BY <1>2, <1>4, FrameMoveKeepsInv

\* The watcher's tick up to a dispatch.
LEMMA TickKeepsInv ==
  ASSUME FTypeOK, ExecInv, UNCHANGED now, WatcherList \/ WatcherFetch \/ WatcherScan
  PROVE  ExecInv'
<1>0. UNCHANGED <<row, rules, dep>> /\ Watcher \in Executors
    BY DEF WatcherList, WatcherFetch, WatcherScan, marketVars, Executors
<1>1. {"idle", "listed", "scan"} \subseteq (ExecPcs \ HoldPcs) \cap OffPcs
    BY DEF ExecPcs, HoldPcs, OffPcs
<1>2. CASE WatcherList
    BY <1>0, <1>1, <1>2, PrecheckKeepsInv DEF WatcherList
<1>3. CASE WatcherFetch
    <2>1. batch' \subseteq Intents
        BY <1>3 DEF WatcherFetch, ExecInv, ExecType
    <2> QED BY <1>0, <1>1, <1>3, <2>1, PrecheckKeepsInv DEF WatcherFetch
<1>4. CASE WatcherScan
    <2>1. PICK i \in batch :
            /\ batch' = batch \ {i}
            /\ \/ ExecStart(Watcher, i, row[i].hash)
               \/ ExecGoto(Watcher, "idle") \/ ExecGoto(Watcher, "scan")
        BY <1>4 DEF WatcherScan
    <2>2. i \in Intents /\ batch' \subseteq Intents /\ row[i].hash \in Nat
        BY <2>1 DEF ExecInv, ExecType, FTypeOK, Row
    <2> QED BY <1>0, <1>1, <2>1, <2>2, PrecheckKeepsInv, StartKeepsInv
<1> QED BY <1>2, <1>3, <1>4

\* A manual approval, with the hash of a row or of a rule.
LEMMA ManualKeepsInv ==
  ASSUME FTypeOK, ExecInv, UNCHANGED now, NEW p \in Manuals, NEW i \in Intents, ManualBegin(p, i)
  PROVE  ExecInv'
<1>1. UNCHANGED <<row, rules, dep, batch>> /\ p \in Executors
    BY DEF ManualBegin, marketVars, Executors
<1>2. row[i].hash \in Nat /\ rules[i].hash \in Nat /\ batch \subseteq Intents
    BY RulesAreIntents DEF FTypeOK, Row, ExecInv, ExecType, RuleRow
<1> QED BY <1>1, <1>2, StartKeepsInv DEF ManualBegin

\* The re-checks before the lease.
LEMMA ChecksKeepInv ==
  ASSUME FTypeOK, ExecInv, UNCHANGED now, NEW p \in Executors,
         ExecLookup(p) \/ ExecApy(p) \/ ExecBudget(p) \/ ExecPrecheckError(p)
  PROVE  ExecInv'
<1>0. UNCHANGED <<row, rules, dep, batch>> /\ batch' \subseteq Intents /\ exe[p].pc \notin OffPcs
    BY DEF ExecLookup, ExecApy, ExecBudget, ExecPrecheckError, marketVars, ExecInv, ExecType, OffPcs
<1>1. {"apy", "budget"} \subseteq ExecPcs \ HoldPcs
    BY DEF ExecPcs, HoldPcs
<1>2. CASE ExecReturn(p)
    BY <1>0, <1>2, ReturnKeepsInv
<1>3. CASE \E l \in {"apy", "budget"} : ExecGoto(p, l)
    BY <1>0, <1>1, <1>3, PrecheckKeepsInv
<1>4. CASE exe' = [exe EXCEPT ![p] = [exe[p] EXCEPT !.pc = "lease", !.t = now]]
    <2> DEFINE e == [exe[p] EXCEPT !.pc = "lease", !.t = now]
    <2>1. exe[p] \in Exec /\ now \in Nat /\ FrameOK(exe[p])
        BY ClockAssumption DEF ExecInv, ExecType, FTypeOK
    <2>2. e \in Exec /\ e.pc = "lease" /\ e.i = exe[p].i /\ e.t = now
        BY <2>1 DEF Exec, ExecPcs
    <2>3. exe' = [exe EXCEPT ![p] = e]
        BY <1>4
    <2> HIDE DEF e
    <2>4. FrameOK(e) /\ e.pc \notin HoldPcs
        BY <1>0, <2>1, <2>2 DEF FrameOK, HoldPcs, SentPcs
    <2> QED BY <1>0, <2>3, <2>4, FrameMoveKeepsInv
<1> QED BY <1>2, <1>3, <1>4 DEF ExecLookup, ExecApy, ExecBudget, ExecPrecheckError

\* A crash: the frame is gone, its row and its deposit stay.
LEMMA CrashKeepsInv ==
  ASSUME FTypeOK, ExecInv, UNCHANGED now, NEW p \in Executors, ExecCrash(p)
  PROVE  ExecInv'
<1>1. /\ UNCHANGED <<row, rules, dep>> /\ batch' \subseteq Intents
      /\ exe' = [exe EXCEPT ![p] = [IdleExecutor EXCEPT !.pc = "idle"]]
    BY DEF ExecCrash, marketVars, ExecInv, ExecType, IdleExecutor
<1>2. "idle" \in OffPcs /\ "idle" \notin HoldPcs
    BY DEF OffPcs, HoldPcs
<1> QED BY <1>1, <1>2, IdleFrameOK, FrameMoveKeepsInv

\* A holder goes on under the lease, with what its next step relies on.
LEMMA HolderMoveKeepsInv ==
  ASSUME FTypeOK, ExecInv, UNCHANGED <<row, now, rules, dep, batch>>,
         NEW p \in Executors, NEW l \in HoldPcs, ExecGoto(p, l), exe[p].pc \in HoldPcs,
         l \in {"build", "send", "release"} <=> exe[p].pc \in {"build", "send", "release"},
         l \in {"mark_rule", "mark_intent"} => dep[exe[p].sig].chain = "landed"
  PROVE  ExecInv'
<1> DEFINE e == [exe[p] EXCEPT !.pc = l]
<1>0. l \in ExecPcs
    BY DEF HoldPcs, ExecPcs
<1>1. /\ e \in Exec /\ e.pc = l /\ e.i = exe[p].i /\ e.t = exe[p].t /\ e.sig = exe[p].sig
      /\ exe' = [exe EXCEPT ![p] = e]
    BY <1>0, GotoFrame DEF ExecInv
<1> HIDE DEF e
<1>2. FrameOK(exe[p]) /\ batch' \subseteq Intents
    BY DEF ExecInv, ExecType
<1>3. FrameOK(e)
    BY <1>1, <1>2 DEF FrameOK, HoldPcs, SentPcs, OffPcs
<1> QED BY <1>1, <1>2, <1>3, FrameMoveKeepsInv

\* Building a transaction and polling it write nothing.
LEMMA BuildPollKeepInv ==
  ASSUME FTypeOK, ExecInv, UNCHANGED now, NEW p \in Executors, ExecBuild(p) \/ ExecPoll(p)
  PROVE  ExecInv'
<1>0. UNCHANGED <<row, rules, dep, batch>> /\ exe[p].pc \in {"build", "poll"}
    BY DEF ExecBuild, ExecPoll, marketVars
<1>1. CASE ExecBuild(p)
    <2>1. exe[p].pc = "build" /\ (ExecGoto(p, "send") \/ ExecGoto(p, "release"))
        BY <1>1 DEF ExecBuild
    <2> QED BY <1>0, <2>1, HolderMoveKeepsInv DEF HoldPcs
<1>2. CASE ExecPoll(p)
    <2>1. /\ exe[p].pc = "poll"
          /\ \/ dep[exe[p].sig].chain = "landed" /\ ExecGoto(p, "mark_rule")
             \/ ExecGoto(p, "mark_failed")
             \/ ExecReturn(p)
        BY <1>2 DEF ExecPoll
    <2>2. CASE ExecReturn(p)
        BY <1>0, <2>2, ReturnKeepsInv
    <2> QED BY <1>0, <2>1, <2>2, HolderMoveKeepsInv DEF HoldPcs
<1> QED BY <1>1, <1>2

---------------------------------------------------------------------------
(* Steps that write a row.                                                 *)

\* The status of row i changes, in a way that agrees with the deposits: the
\* holder of i is frame p, or nobody held it before.
LEMMA RowWriteKeepsInv ==
  ASSUME FTypeOK, ExecInv, UNCHANGED <<now, rules, dep>>, batch' \subseteq Intents,
         NEW p \in Executors, exe' \in [Executors -> Exec], FrameOK(exe[p])',
         \A q \in Executors \ {p} : exe'[q] = exe[q],
         NEW i \in Intents, \A j \in Intents \ {i} : row'[j] = row[j],
         exe'[p].pc \in HoldPcs => exe'[p].i = i,
         \A q \in Executors \ {p} : exe[q].pc \in HoldPcs => exe[q].i # i,
         NoAnswerIsLost /\ row'[i].status \notin SentStatus => NotLive(i),
         row'[i].status = "completed" =>
           /\ row'[i].execSig \in ExecSigs
           /\ dep[row'[i].execSig].chain = "landed"
           /\ i \in dep[row'[i].execSig].for
  PROVE  ExecInv'
<1>1. ExecType'
    BY DEF ExecInv, ExecType, FrameOK
<1>2. ASSUME NEW q \in Executors, q # p PROVE FrameOK(exe[q])'
    <2>1. exe'[q] = exe[q] /\ FrameOK(exe[q])
        BY <1>2 DEF ExecInv, ExecType
    <2>2. exe[q].pc \in HoldPcs => row'[exe[q].i] = row[exe[q].i]
        <3>1. exe[q].pc \in HoldPcs => exe[q].i \in Intents \ {i}
            BY <1>2, <2>1 DEF FrameOK, HoldPcs, OffPcs
        <3> QED BY <3>1
    <2> QED BY <2>1, <2>2 DEF FrameOK, NotLive, Live
<1>4. HoldersDiffer'
    BY DEF ExecInv, ExecType, HoldersDiffer
<1>5. DepositIsRecorded'
    BY DEF ExecInv, DepositIsRecorded, NotLive, Live, SingleDeposit
<1>6. CompletedIsDeposited'
    BY DEF ExecInv, CompletedIsDeposited, Deposited
<1> QED BY <1>1, <1>2, <1>4, <1>5, <1>6 DEF ExecInv

\* The lease: the row was in budget_reserved, so nobody held the intent and no
\* deposit for it was under way.
LEMMA LeaseKeepsExecInv ==
  ASSUME FTypeOK, ExecInv, UNCHANGED now, NEW p \in Executors, ExecLease(p)
  PROVE  ExecInv'
<1> DEFINE i == exe[p].i
<1>0. /\ UNCHANGED <<rules, dep, batch>> /\ batch' \subseteq Intents
      /\ FrameOK(exe[p]) /\ exe[p].pc = "lease" /\ exe[p] \in Exec
    BY DEF ExecLease, marketVars, ExecInv, ExecType
<1>1. i \in Intents
    BY <1>0 DEF FrameOK, OffPcs
<1>2. CASE ExecReturn(p) /\ UNCHANGED row
    BY <1>0, <1>2, ReturnKeepsInv
<1>3. CASE LeaseExecutionIfBudgetReserved(i, exe[p].t) /\ ExecGoto(p, "build")
    <2>1. /\ row[i].status = "budget_reserved" /\ row'[i].status = "executing"
          /\ \A j \in Intents \ {i} : row'[j] = row[j]
        BY <1>1, <1>3 DEF LeaseExecutionIfBudgetReserved, CanLeaseExecution, FTypeOK, Row
    <2> DEFINE e == [exe[p] EXCEPT !.pc = "build"]
    <2>2. "build" \in ExecPcs
        BY DEF ExecPcs
    <2>3. /\ e \in Exec /\ e.pc = "build" /\ e.i = i /\ e.t = exe[p].t
          /\ exe' = [exe EXCEPT ![p] = e]
        BY <1>3, <2>2, GotoFrame DEF ExecInv
    <2> HIDE DEF e
    <2>4. /\ exe'[p] = e /\ exe' \in [Executors -> Exec]
          /\ \A q \in Executors \ {p} : exe'[q] = exe[q]
        BY <2>3 DEF ExecInv, ExecType
    <2>5. \A q \in Executors \ {p} : exe[q].pc \in HoldPcs => exe[q].i # i
        BY <2>1 DEF ExecInv, FrameOK
    <2>6. NoAnswerIsLost => NotLive(i)
        BY <1>1, <2>1 DEF ExecInv, DepositIsRecorded, SentStatus
    <2>7. FrameOK(exe[p])'
        <3>1. e.t =< now' /\ e.i \in Intents /\ row'[e.i].status = "executing"
            BY <1>0, <1>1, <2>1, <2>3 DEF FrameOK
        <3>2. NoAnswerIsLost => \A x \in ExecSigs : Live(x)' => e.i \notin dep'[x].for
            BY <1>0, <2>3, <2>6 DEF NotLive, Live
        <3> QED BY <2>3, <2>4, <3>1, <3>2 DEF FrameOK, OffPcs, HoldPcs, SentPcs, NotLive
    <2> QED BY <1>0, <1>1, <2>1, <2>3, <2>4, <2>5, <2>7, RowWriteKeepsInv DEF SentStatus
<1> QED BY <1>2, <1>3 DEF ExecLease

\* The write-backs: the holder settles its row, or the statement does nothing,
\* and gives the intent up.
LEMMA SettleKeepsExecInv ==
  ASSUME FTypeOK, ExecInv, UNCHANGED now, NEW p \in Executors,
         ExecMarkIntent(p) \/ ExecRelease(p) \/ ExecMarkFailed(p)
  PROVE  ExecInv'
<1> DEFINE i == exe[p].i
<1>0. /\ UNCHANGED <<rules, dep, batch>> /\ batch' \subseteq Intents /\ ExecReturn(p)
      /\ FrameOK(exe[p]) /\ exe[p].pc \in HoldPcs
    BY DEF ExecMarkIntent, ExecRelease, ExecMarkFailed, marketVars, ExecInv, ExecType, HoldPcs
<1>1. i \in Intents /\ row[i].status = "executing"
    BY <1>0 DEF FrameOK, OffPcs, HoldPcs
<1>2. CASE UNCHANGED row
    BY <1>0, <1>2, ReturnKeepsInv
<1>3. CASE ~UNCHANGED row
    <2>1. \/ ExecMarkIntent(p) /\ MarkCompletedIfExecuting(i, exe[p].sig)
          \/ ExecRelease(p) /\ ReleaseExecutionLease(i)
          \/ ExecMarkFailed(p) /\ MarkFailed(i)
        BY <1>3 DEF ExecMarkIntent, ExecRelease, ExecMarkFailed
    <2>2. /\ \A j \in Intents \ {i} : row'[j] = row[j]
          /\ \/ /\ exe[p].pc = "mark_intent"
                /\ row'[i].status = "completed" /\ row'[i].execSig = exe[p].sig
             \/ exe[p].pc = "release" /\ row'[i].status = "budget_reserved"
             \/ row'[i].status = "failed"
        <3> USE <1>1 DEF FTypeOK, Row
        <3>1. CASE ExecMarkIntent(p) /\ MarkCompletedIfExecuting(i, exe[p].sig)
            <4>1. exe[p].pc = "mark_intent"
                BY <3>1 DEF ExecMarkIntent
            <4> QED BY <3>1, <4>1 DEF MarkCompletedIfExecuting
        <3>2. CASE ExecRelease(p) /\ ReleaseExecutionLease(i)
            <4>1. exe[p].pc = "release"
                BY <3>2 DEF ExecRelease
            <4> QED BY <3>2, <4>1 DEF ReleaseExecutionLease
        <3>3. CASE MarkFailed(i)
            BY <3>3 DEF MarkFailed
        <3> QED BY <2>1, <3>1, <3>2, <3>3
    <2>3. PICK l \in OffPcs : exe' = [exe EXCEPT ![p] = [IdleExecutor EXCEPT !.pc = l]]
        BY <1>0 DEF ExecReturn, OffPcs
    <2> DEFINE e == [IdleExecutor EXCEPT !.pc = l]
    <2>4. e \in Exec /\ e.pc = l /\ e.t = 0
        BY DEF IdleExecutor, Exec, OffPcs, ExecPcs
    <2>5. exe' = [exe EXCEPT ![p] = e]
        BY <2>3
    <2> HIDE DEF e
    <2>6. /\ exe'[p] = e /\ exe' \in [Executors -> Exec]
          /\ \A q \in Executors \ {p} : exe'[q] = exe[q]
        BY <2>4, <2>5 DEF ExecInv, ExecType
    <2>7. FrameOK(exe[p])' /\ exe'[p].pc \notin HoldPcs
        <3>1. now' \in Nat
            BY ClockAssumption DEF FTypeOK
        <3> QED BY <2>4, <2>6, <3>1 DEF FrameOK, OffPcs, HoldPcs, SentPcs
    <2>8. \A q \in Executors \ {p} : exe[q].pc \in HoldPcs => exe[q].i # i
        BY <1>0 DEF ExecInv, HoldersDiffer
    <2>9. NoAnswerIsLost /\ row'[i].status \notin SentStatus => NotLive(i)
        BY <1>0, <2>2 DEF FrameOK, SentStatus
    <2>10. row'[i].status = "completed" =>
             /\ row'[i].execSig \in ExecSigs
             /\ dep[row'[i].execSig].chain = "landed"
             /\ i \in dep[row'[i].execSig].for
        BY <1>0, <2>2 DEF FrameOK, SentPcs
    <2> QED BY <1>0, <1>1, <2>2, <2>6, <2>7, <2>8, <2>9, <2>10, RowWriteKeepsInv
<1> QED BY <1>2, <1>3

---------------------------------------------------------------------------
(* Steps that write the rule or a deposit.                                 *)

\* mark_completed writes a well-formed row.
LEMMA RuleCompletion ==
  ASSUME rules \in [Rules -> RuleRow], NEW i \in Rules, MarkRuleCompleted(i)
  PROVE  /\ rules' \in [Rules -> RuleRow]
         /\ rules'[i].status = "completed" /\ rules'[i].hash = rules[i].hash
         /\ rules[i].status # "absent"
         /\ \A j \in Rules \ {i} : rules'[j] = rules[j]
<1> DEFINE y == [rules[i] EXCEPT !.status = "completed", !.completed = TRUE]
<1>0. rules[i] \in RuleRow
    OBVIOUS
<1>1. y \in RuleRow /\ y.status = "completed" /\ y.hash = rules[i].hash
    BY <1>0 DEF RuleRow, RuleStatus
<1>2. rules' = [rules EXCEPT ![i] = y] /\ rules[i].status # "absent"
    BY DEF MarkRuleCompleted, RulePresent
<1> HIDE DEF y
<1> QED BY <1>1, <1>2

\* The rule is completed by the frame whose deposit landed.
LEMMA MarkRuleKeepsInv ==
  ASSUME FTypeOK, ExecInv, UNCHANGED now, NEW p \in Executors, ExecMarkRule(p)
  PROVE  ExecInv'
<1> DEFINE i == exe[p].i
           e == [exe[p] EXCEPT !.pc = "mark_intent"]
<1>0. /\ UNCHANGED <<row, dep, batch>> /\ ExecGoto(p, "mark_intent")
      /\ FrameOK(exe[p]) /\ exe[p].pc = "mark_rule"
      /\ MarkRuleCompleted(i) \/ UNCHANGED rules
    BY DEF ExecMarkRule, marketVars, ExecInv
<1>1. i \in Intents /\ i \in Rules /\ Deposited(i)
    BY <1>0, RulesAreIntents DEF FrameOK, OffPcs, SentPcs, Deposited
<1>2. /\ rules' \in [Rules -> RuleRow]
      /\ \A j \in Intents : rules'[j].status = "completed" =>
           rules[j].status = "completed" \/ j = i
    BY <1>0, <1>1, RuleCompletion, RulesAreIntents DEF ExecInv, ExecType
<1>3. "mark_intent" \in ExecPcs
    BY DEF ExecPcs
<1>4. /\ e \in Exec /\ e.pc = "mark_intent" /\ e.i = i /\ e.t = exe[p].t /\ e.sig = exe[p].sig
      /\ exe' = [exe EXCEPT ![p] = e]
    BY <1>0, <1>3, GotoFrame DEF ExecInv
<1> HIDE DEF e
<1>5. FrameOK(e)
    BY <1>0, <1>4 DEF FrameOK, HoldPcs, SentPcs, OffPcs
<1>6. \A q \in Executors : FrameOK(exe'[q])
    BY <1>4, <1>5 DEF ExecInv, ExecType
<1>7. \A q \in Executors : FrameOK(exe[q])'
    BY <1>0, <1>6 DEF FrameOK, NotLive, Live
<1>8. HoldersDiffer' /\ ExecType'
    BY <1>0, <1>2, <1>4 DEF ExecInv, ExecType, HoldersDiffer, HoldPcs
<1>9. DepositIsRecorded' /\ CompletedIsDeposited'
    BY <1>0, <1>1, <1>2
    DEF ExecInv, DepositIsRecorded, CompletedIsDeposited, NotLive, Live, SingleDeposit, Deposited
<1> QED BY <1>7, <1>8, <1>9 DEF ExecInv

\* What a step of the cluster does to the deposits: it keeps their senders,
\* revives none, and takes back none that landed.
DepositsAge ==
  /\ dep' \in [ExecSigs -> Dep]
  /\ \A x \in ExecSigs : /\ dep'[x].for = dep[x].for
                         /\ Live(x)' => Live(x)
                         /\ dep[x].chain = "landed" => dep'[x].chain = "landed"

\* A deposit lands, fails, is dropped or is delayed.
LEMMA DepositAges ==
  ASSUME ExecType, NEW x \in ExecSigs, DepositStep(x)
  PROVE  DepositsAge
<1>0. dep[x] \in Dep /\ dep \in [ExecSigs -> Dep]
    BY DEF ExecType
<1>1. PICK c \in DepStates :
        /\ dep' = [dep EXCEPT ![x].chain = c]
        /\ dep[x].chain \in {"inflight", "erring"}
    BY DEF DepositStep, DepositLands, DepositFails, DepositDelayed, DepStates
<1>2. /\ dep' \in [ExecSigs -> Dep] /\ dep'[x].for = dep[x].for
      /\ \A y \in ExecSigs \ {x} : dep'[y] = dep[y]
    BY <1>0, <1>1 DEF Dep
<1> QED BY <1>1, <1>2 DEF DepositsAge, Live

\* The cluster decides deposits; nobody's lease or record is disturbed.
LEMMA DepositKeepsInv ==
  ASSUME ExecInv, UNCHANGED <<row, now, rules, exe, batch>>, DepositsAge
  PROVE  ExecInv'
<1>1. ExecType' /\ HoldersDiffer'
    BY DEF ExecInv, ExecType, HoldersDiffer, DepositsAge
<1>2. \A i \in Intents : NotLive(i) => NotLive(i)'
    BY DEF NotLive, DepositsAge
<1>3. ASSUME NEW p \in Executors PROVE FrameOK(exe[p])'
    <2>1. FrameOK(exe[p]) /\ exe' = exe
        BY DEF ExecInv
    <2>2. exe[p].pc \notin OffPcs /\ NotLive(exe[p].i) =>
            \A x \in ExecSigs : Live(x)' => exe[p].i \notin dep'[x].for
        BY DEF NotLive, DepositsAge
    <2> QED BY <2>1, <2>2 DEF FrameOK, DepositsAge, NotLive, HoldPcs, SentPcs, OffPcs
<1>4. DepositIsRecorded'
    BY <1>2 DEF ExecInv, DepositIsRecorded, SingleDeposit, DepositsAge
<1>5. CompletedIsDeposited'
    BY DEF ExecInv, CompletedIsDeposited, Deposited, DepositsAge
<1> QED BY <1>1, <1>3, <1>4, <1>5 DEF ExecInv

\* The broadcast: the intent's first live deposit, alone or together with an
\* order of the same amount under the same blockhash.
LEMMA SendKeepsInv ==
  ASSUME FTypeOK, ExecInv, UNCHANGED now, NEW p \in Executors, ExecSend(p)
  PROVE  ExecInv'
<1> DEFINE i == exe[p].i
<1>0. /\ UNCHANGED <<row, rules, batch>>
      /\ FrameOK(exe[p]) /\ exe[p].pc = "send" /\ exe[p] \in Exec
    BY DEF ExecSend, ExecInv, ExecType
<1>1. i \in Intents /\ row[i].status = "executing" /\ (NoAnswerIsLost => NotLive(i))
    BY <1>0 DEF FrameOK, OffPcs, HoldPcs
<1>2. CASE ExecGoto(p, "release") /\ UNCHANGED dep
    <2>1. "release" \in HoldPcs /\ exe[p].pc \in HoldPcs
        BY <1>0 DEF HoldPcs
    <2> QED BY <1>0, <1>2, <2>1, HolderMoveKeepsInv
<1>3. ASSUME NEW x \in ExecSigs,
             MayCarry(x, i),
             dep' = [dep EXCEPT ![x] = [chain |-> "inflight", amount |-> Amount[i],
                                        for |-> @.for \cup {i}]],
             \/ exe' = [exe EXCEPT ![p] = [@ EXCEPT !.pc = "poll", !.sig = x]]
             \/ "lost_response" \in Faults /\ ExecGoto(p, "release")
      PROVE  ExecInv'
    <2>1. /\ dep' \in [ExecSigs -> Dep]
          /\ dep'[x].for = dep[x].for \cup {i} /\ dep'[x].chain = "inflight"
          /\ \A y \in ExecSigs \ {x} : dep'[y] = dep[y]
        BY <1>1, <1>3, AmountAssumption DEF ExecInv, ExecType, Dep, DepStates
    <2>2. dep[x].for = {} \/ Live(x)
        BY <1>3 DEF MayCarry, Unused, Live
    <2>3. dep[x].chain # "landed"
        BY <1>3 DEF MayCarry, Unused
    <2>4. \A j \in Intents \ {i} : NotLive(j) => NotLive(j)'
        BY <2>1, <2>2 DEF NotLive, Live
    <2>5. PICK e \in Exec :
            /\ exe' = [exe EXCEPT ![p] = e] /\ e.i = i /\ e.t = exe[p].t
            /\ \/ e.pc = "poll" /\ e.sig = x
               \/ e.pc = "release" /\ ~NoAnswerIsLost
        <3>1. CASE exe' = [exe EXCEPT ![p] = [@ EXCEPT !.pc = "poll", !.sig = x]]
            <4> DEFINE e == [exe[p] EXCEPT !.pc = "poll", !.sig = x]
            <4>1. e \in Exec /\ e.pc = "poll" /\ e.i = i /\ e.t = exe[p].t /\ e.sig = x
                BY <1>0 DEF Exec, ExecPcs
            <4>2. exe' = [exe EXCEPT ![p] = e]
                BY <3>1
            <4> QED BY <4>1, <4>2
        <3>2. CASE "lost_response" \in Faults /\ ExecGoto(p, "release")
            <4> DEFINE e == [exe[p] EXCEPT !.pc = "release"]
            <4>1. "release" \in ExecPcs
                BY DEF ExecPcs
            <4>2. /\ e \in Exec /\ e.pc = "release" /\ e.i = i /\ e.t = exe[p].t
                  /\ exe' = [exe EXCEPT ![p] = e]
                BY <3>2, <4>1, GotoFrame DEF ExecInv
            <4> QED BY <3>2, <4>2 DEF NoAnswerIsLost
        <3> QED BY <1>3, <3>1, <3>2
    <2>6. /\ exe'[p] = e /\ exe' \in [Executors -> Exec]
          /\ \A q \in Executors \ {p} : exe'[q] = exe[q]
        BY <2>5 DEF ExecInv, ExecType
    <2>7. ExecType'
        BY <1>0, <2>1, <2>6 DEF ExecInv, ExecType
    <2>8. FrameOK(exe[p])'
        BY <1>0, <1>1, <2>1, <2>5, <2>6 DEF FrameOK, OffPcs, HoldPcs, SentPcs
    <2>9. ASSUME NEW q \in Executors, q # p PROVE FrameOK(exe[q])'
        <3>1. FrameOK(exe[q]) /\ exe'[q] = exe[q]
            BY <2>6, <2>9 DEF ExecInv
        <3>2. exe[q].pc \in HoldPcs => exe[q].i \in Intents \ {i}
            BY <1>0, <2>9, <3>1 DEF ExecInv, HoldersDiffer, FrameOK, OffPcs, HoldPcs
        <3>3. exe[q].pc \in HoldPcs /\ NotLive(exe[q].i) =>
                \A y \in ExecSigs : Live(y)' => exe[q].i \notin dep'[y].for
            BY <2>1, <2>2, <3>2 DEF NotLive, Live
        <3>4. exe[q].pc \in SentPcs => exe[q].i \in dep'[exe[q].sig].for
            BY <2>1, <3>1 DEF FrameOK
        <3>5. exe[q].pc \in {"mark_rule", "mark_intent"} => dep'[exe[q].sig].chain = "landed"
            BY <2>1, <2>3, <3>1 DEF FrameOK, SentPcs
        <3> QED BY <1>0, <3>1, <3>3, <3>4, <3>5 DEF FrameOK, NotLive, HoldPcs
    <2>10. HoldersDiffer'
        BY <1>0, <2>5, <2>6 DEF ExecInv, HoldersDiffer, HoldPcs
    <2>11. NoAnswerIsLost => SingleDeposit'
        <3> SUFFICES ASSUME NoAnswerIsLost, NEW y \in ExecSigs, NEW z \in ExecSigs, y # z,
                            Live(y)', Live(z)'
                     PROVE  dep'[y].for \cap dep'[z].for = {}
            BY DEF SingleDeposit
        <3>1. \A u, v \in ExecSigs : Live(u) /\ Live(v) /\ u # v => dep[u].for \cap dep[v].for = {}
            BY DEF ExecInv, DepositIsRecorded, SingleDeposit
        <3>2. \A u \in ExecSigs \ {x} : Live(u)' => Live(u) /\ i \notin dep[u].for
            BY <1>1, <2>1 DEF NotLive, Live
        <3>3. \A u \in ExecSigs \ {x} : Live(u)' => dep'[u].for \cap dep'[x].for = {}
            BY <2>1, <2>2, <3>1, <3>2
        <3> QED BY <2>1, <3>1, <3>2, <3>3
    <2>12. DepositIsRecorded'
        BY <1>0, <1>1, <2>4, <2>11 DEF ExecInv, DepositIsRecorded, SentStatus
    <2>13. CompletedIsDeposited'
        BY <1>0, <2>1, <2>3 DEF ExecInv, CompletedIsDeposited, Deposited
    <2> QED BY <2>7, <2>8, <2>9, <2>10, <2>12, <2>13 DEF ExecInv
<1> QED BY <1>2, <1>3 DEF ExecSend

\* Every step of an executor and of the cluster keeps the invariant.
LEMMA ExecuteNextKeepsInv ==
  ASSUME FTypeOK, ExecInv, UNCHANGED now, ExecuteNext
  PROVE  ExecInv'
<1>1. ASSUME NEW p \in Executors, ExecuteStep(p) PROVE ExecInv'
    BY <1>1, ChecksKeepInv, LeaseKeepsExecInv, BuildPollKeepInv, SendKeepsInv, MarkRuleKeepsInv,
       SettleKeepsExecInv DEF ExecuteStep
<1>2. CASE WatcherStep
    BY <1>1, <1>2, TickKeepsInv DEF WatcherStep, Executors
<1>3. ASSUME NEW p \in Manuals, ExecuteStep(p) \/ \E i \in Intents : ManualBegin(p, i)
      PROVE  ExecInv'
    BY <1>1, <1>3, ManualKeepsInv DEF Executors
<1>4. ASSUME NEW p \in Executors, ExecCrash(p) PROVE ExecInv'
    BY <1>4, CrashKeepsInv
<1>5. ASSUME UNCHANGED <<row, rules, execVars>>,
             (\E x \in ExecSigs : DepositStep(x)) \/ UNCHANGED dep
      PROVE  ExecInv'
    <2>1. DepositsAge
        BY <1>5, DepositAges DEF ExecInv, ExecType, DepositsAge, Live
    <2> QED BY <1>5, <2>1, DepositKeepsInv DEF execVars
<1> QED BY <1>2, <1>3, <1>4, <1>5 DEF ExecuteNext

\* The executors use the repository as W5hFunding describes it: they lease,
\* with a clock reading that is not ahead of the clock, and settle.
LEMMA ExecuteUsesRepository ==
  ASSUME FTypeOK, ExecInv, ExecuteNext
  PROVE  UNCHANGED row \/ \E i \in Intents : ExecutionStep(i)
<1>1. ASSUME NEW p \in Executors, ExecuteStep(p)
      PROVE  UNCHANGED row \/ \E i \in Intents : ExecutionStep(i)
    <2>1. exe[p].pc \notin OffPcs => exe[p].i \in Intents /\ exe[p].t \in 0 .. now
        BY DEF ExecInv, FrameOK, Exec
    <2>2. exe[p].pc = "mark_intent" => exe[p].sig \in Sigs
        BY ExecSigsAssumption DEF ExecInv, FrameOK, SentPcs
    <2>3. CASE ExecLease(p)
        BY <2>1, <2>3 DEF ExecLease, ExecutionStep, OffPcs
    <2>4. CASE ExecMarkIntent(p)
        BY <2>1, <2>2, <2>4 DEF ExecMarkIntent, ExecutionStep, OffPcs
    <2>5. CASE ExecRelease(p) \/ ExecMarkFailed(p)
        BY <2>1, <2>5 DEF ExecRelease, ExecMarkFailed, ExecutionStep, OffPcs
    <2> QED BY <1>1, <2>3, <2>4, <2>5
            DEF ExecuteStep, ExecLookup, ExecApy, ExecBudget, ExecPrecheckError, ExecBuild,
                ExecSend, ExecPoll, ExecMarkRule
<1>2. Watcher \in Executors /\ Manuals \subseteq Executors
    BY DEF Executors
<1> QED BY <1>1, <1>2 DEF ExecuteNext, WatcherStep, WatcherList, WatcherFetch, WatcherScan,
                         ManualBegin, ExecCrash

---------------------------------------------------------------------------
(* The rest of the system.                                                 *)

\* A step of another component leaves leases and outcomes alone.
KeepsLease(r, q) ==
  /\ r.status = "executing" => q.status = "executing"
  /\ q.status = "completed" => r.status = "completed" /\ q.execSig = r.execSig
  /\ q.status \notin SentStatus => r.status \notin SentStatus

\* Orders, the verifier and the refund side do.
LEMMA OthersKeepLease ==
  ASSUME FTypeOK, NEW i \in Intents,
         \/ \E u \in Users, h \in 0 .. now, t \in 0 .. now : Insert(i, u, h, t)
         \/ FundingStep(i)
         \/ RefundStep(i)
  PROVE  KeepsLease(row[i], row'[i])
<1> USE DEF FTypeOK, Row, KeepsLease, SentStatus
<1>1. ASSUME NEW u \in Users, NEW h \in 0 .. now, NEW t \in 0 .. now, Insert(i, u, h, t)
      PROVE  KeepsLease(row[i], row'[i])
    BY <1>1 DEF Insert, IsAbsent
<1>2. CASE FundingStep(i)
    BY <1>2 DEF FundingStep, MarkFundingSubmittedIfRequired, CanSubmit,
                MarkBudgetReservedIfSubmitted, MarkFundingInvalidIfSubmitted, SubmittedAs
<1>3. CASE RefundStep(i)
    BY <1>3 DEF RefundStep, MarkExpiredIfPast, CanExpire, LeaseRefundIfExpiredOrPast,
                CanLeaseRefund, MarkRefundedIfRefunding
<1> QED BY <1>1, <1>2, <1>3

\* Such steps, and a restart of all executors, keep the invariant.
LEMMA OthersKeepExecInv ==
  ASSUME FTypeOK, ExecInv, UNCHANGED dep, batch' \subseteq Intents, now' \in Nat, now' >= now,
         exe' = exe \/ exe' = [p \in Executors |-> IdleExecutor],
         rules' \in [Rules -> RuleRow],
         \A i \in Intents : /\ KeepsLease(row[i], row'[i])
                            /\ rules'[i].status = "completed" => rules[i].status = "completed"
  PROVE  ExecInv'
<1>1. IdleExecutor \in Exec /\ IdleExecutor.pc = "idle" /\ IdleExecutor.t = 0
    BY DEF IdleExecutor, Exec, ExecPcs
<1>2. ExecType' /\ HoldersDiffer'
    BY <1>1 DEF ExecInv, ExecType, HoldersDiffer, HoldPcs
<1>3. ASSUME NEW p \in Executors PROVE FrameOK(exe[p])'
    <2>1. CASE exe' = exe
        <3>1. FrameOK(exe[p]) /\ exe[p].t \in Nat /\ now \in Nat
            BY ClockAssumption DEF ExecInv, ExecType, Exec, FTypeOK
        <3>2. exe[p].t =< now'
            BY <3>1 DEF FrameOK
        <3>3. exe[p].pc \in HoldPcs => row'[exe[p].i].status = "executing"
            BY <3>1 DEF FrameOK, HoldPcs, OffPcs, KeepsLease
        <3> QED BY <2>1, <3>1, <3>2, <3>3 DEF FrameOK, NotLive, Live
    <2>2. CASE exe' = [q \in Executors |-> IdleExecutor]
        BY <1>1, <2>2 DEF FrameOK, OffPcs, HoldPcs, SentPcs
    <2> QED BY <2>1, <2>2
<1>4. DepositIsRecorded' /\ CompletedIsDeposited'
    BY DEF ExecInv, DepositIsRecorded, CompletedIsDeposited, NotLive, Live, SingleDeposit, Deposited,
           KeepsLease
<1> QED BY <1>2, <1>3, <1>4 DEF ExecInv

\* The refund caller uses the repository's refund side.
LEMMA RefundUsesRepository ==
  ASSUME FTypeOK, NEW i \in Intents, Refund(i)
  PROVE  RefundStep(i)
<1>1. now \in 0 .. now
    BY DEF FTypeOK
<1> QED BY <1>1 DEF Refund, RefundStep

---------------------------------------------------------------------------
(* The specification.                                                      *)

\* Before anything is executed the execution leg's invariant holds.
LEMMA ExecuteInitInv ==
  ASSUME ExecuteInit, now = 0, rules \in [Rules -> RuleRow],
         \A i \in Intents : rules[i].status # "completed" /\ row[i].status # "completed"
  PROVE  ExecInv
<1>1. /\ IdleExecutor \in Exec /\ IdleExecutor.pc = "idle" /\ IdleExecutor.t = 0
      /\ Unused \in Dep /\ Unused.chain = "unused" /\ Unused.for = {}
    BY DEF IdleExecutor, Exec, ExecPcs, Unused, Dep, DepStates
<1>2. ExecType /\ HoldersDiffer
    BY <1>1 DEF ExecuteInit, ExecType, HoldersDiffer, HoldPcs
<1>3. \A p \in Executors : FrameOK(exe[p])
    BY <1>1 DEF ExecuteInit, FrameOK, OffPcs, HoldPcs, SentPcs
<1>4. \A x \in ExecSigs : ~Live(x)
    BY <1>1 DEF ExecuteInit, Live
<1>5. DepositIsRecorded /\ CompletedIsDeposited
    BY <1>4 DEF DepositIsRecorded, NotLive, SingleDeposit, CompletedIsDeposited
<1> QED BY <1>2, <1>3, <1>5 DEF ExecInv

XInv == FInv /\ ExecInv

\* Every initial state satisfies the invariant.
LEMMA XInitInv == XInit => XInv
<1> SUFFICES ASSUME XInit PROVE XInv
    OBVIOUS
<1>1. PICK e \in [Intents -> Window .. Window + 1], c \in [Intents -> RuleStates] :
        /\ row = [i \in Intents |-> FundedRow(e[i])]
        /\ rules = [i \in Rules |-> RuleAfterOrder(c[i], e[i])]
    BY DEF XInit
<1>2. ASSUME NEW k \in Window .. Window + 1
      PROVE  /\ FundedRow(k) \in Row /\ FundedRow(k).status = "budget_reserved"
             /\ FundedRow(k).fundingSig # Null
             /\ FundedRow(k).execSig = Null /\ FundedRow(k).refundSig = Null
    <2> DEFINE s == CHOOSE s \in Sigs \ ExecSigs : TRUE
               u == CHOOSE u \in Users : TRUE
    <2>1. s \in Sigs /\ u \in Users /\ s # Null
        BY FundedAssumption, NullAssumption
    <2>2. k \in Nat /\ k - Window \in Nat
        BY ClockAssumption
    <2>3. FundedRow(k) = [AbsentRow EXCEPT !.status = "budget_reserved", !.hash = k - Window,
                                           !.expires = k, !.fundingSig = s, !.user = u]
        BY DEF FundedRow
    <2> HIDE DEF s, u
    <2>4. AbsentRow \in Row /\ AbsentRow.execSig = Null /\ AbsentRow.refundSig = Null
        BY DEF AbsentRow, Row, OptSig
    <2> QED BY <2>1, <2>2, <2>3, <2>4 DEF Row, OptSig, IntentStatus
<1>3. ASSUME NEW k \in Window .. Window + 1, NEW o \in RuleStates
      PROVE  RuleAfterOrder(o, k) \in RuleRow /\ RuleAfterOrder(o, k).status # "completed"
    <2>1. k - Window \in Nat /\ k - Window + 1 \in Nat
        BY ClockAssumption
    <2>2. AbsentRule \in RuleRow /\ AbsentRule.status = "absent"
        BY DEF AbsentRule, RuleRow
    <2>3. ASSUME NEW h \in Nat
          PROVE  LET y == [AbsentRule EXCEPT !.status = "active", !.hash = h] IN
                   y \in RuleRow /\ y.status = "active"
        BY DEF AbsentRule, RuleRow, RuleStatus
    <2> QED BY <2>1, <2>2, <2>3, RuleStatesAssumption DEF RuleAfterOrder
<1>4. /\ row \in [Intents -> Row]
      /\ \A i \in Intents : /\ row[i].status = "budget_reserved" /\ row[i].fundingSig # Null
                            /\ row[i].execSig = Null /\ row[i].refundSig = Null
    BY <1>1, <1>2
<1>5. rules \in [Rules -> RuleRow] /\ \A i \in Intents : rules[i].status # "completed"
    BY <1>1, <1>3, RulesAreIntents
<1>6. FInv
    BY <1>4, ClockAssumption
    DEF XInit, FInv, FTypeOK, FundedHasSignature, SpentOrReturned, RefundOnlyAfterExpiry,
        FundingUnbound, Funded
<1>7. ExecInv
    BY <1>4, <1>5, ExecuteInitInv DEF XInit
<1> QED BY <1>6, <1>7 DEF XInv

\* Every step is a repository step.
LEMMA XStepsRepository ==
  ASSUME XInv, [XNext]_executeVars
  PROVE  [FNext]_fundingVars
<1>1. CASE ExecuteNext /\ UNCHANGED now
    BY <1>1, ExecuteUsesRepository DEF XInv, FInv, FNext, RepoStep, fundingVars
<1>2. CASE \E i \in Intents : Refund(i) /\ UNCHANGED <<now, rules, execVars, dep, apy>>
    BY <1>2, RefundUsesRepository DEF XInv, FInv, FNext, RepoStep
<1>3. CASE Tick
    BY <1>3 DEF FNext
<1>4. CASE UNCHANGED executeVars
    BY <1>4 DEF executeVars, fundingVars
<1> QED BY <1>1, <1>2, <1>3, <1>4 DEF XNext

\* The invariant is inductive.
LEMMA XNextInv == XInv /\ [XNext]_executeVars => XInv'
<1> SUFFICES ASSUME XInv, [XNext]_executeVars PROVE XInv'
    OBVIOUS
<1>0. FInv' /\ FTypeOK /\ ExecInv /\ FTypeOK'
    BY XStepsRepository, FNextInv DEF XInv, FInv
<1>1. CASE ExecuteNext /\ UNCHANGED now
    BY <1>0, <1>1, ExecuteNextKeepsInv DEF XInv
<1>2. ASSUME UNCHANGED <<rules, exe, batch, dep>>, now' >= now,
             \A i \in Intents : KeepsLease(row[i], row'[i])
      PROVE  XInv'
    <2>1. batch' \subseteq Intents /\ now' \in Nat /\ rules' \in [Rules -> RuleRow]
        BY <1>0, <1>2, ClockAssumption DEF ExecInv, ExecType, FTypeOK
    <2> QED BY <1>0, <1>2, <2>1, OthersKeepExecInv DEF XInv
<1>3. ASSUME NEW i \in Intents, Refund(i), UNCHANGED <<now, rules, execVars, dep, apy>>
      PROVE  XInv'
    <2>1. RefundStep(i)
        BY <1>0, <1>3, RefundUsesRepository
    <2>2. KeepsLease(row[i], row'[i]) /\ RowChange(i)
        BY <1>0, <2>1, OthersKeepLease, RepoStepTypes DEF RepoStep
    <2>3. \A j \in Intents : KeepsLease(row[j], row'[j])
        BY <2>2 DEF RowChange, KeepsLease
    <2>4. now' >= now
        BY <1>0, <1>3, ClockAssumption DEF FTypeOK
    <2> QED BY <1>2, <1>3, <2>3, <2>4 DEF execVars
<1>4. CASE (Tick /\ UNCHANGED <<rules, execVars, marketVars>>) \/ UNCHANGED executeVars
    <2>1. UNCHANGED <<row, rules, exe, batch, dep>> /\ now' >= now
        BY <1>0, <1>4, ClockAssumption DEF Tick, execVars, marketVars, executeVars, FTypeOK
    <2>2. \A i \in Intents : KeepsLease(row[i], row'[i])
        BY <2>1 DEF KeepsLease
    <2> QED BY <1>2, <2>1, <2>2
<1> QED BY <1>1, <1>3, <1>4 DEF XNext

\* "Two callers, exactly one winner": from the lease to the write-back an
\* executor is alone with its intent, whatever crashes, times out or fails.
THEOREM ExecuteLeaseIsExclusive == XSpec => []LeaseIsExclusive
<1>1. XInv => LeaseIsExclusive
    BY ExecInvExclusive DEF XInv
<1> QED BY <1>1, XInitInv, XNextInv, PTL DEF XSpec

\* Completion is evidence: a completed intent, and a completed rule, have a
\* finalized deposit that was sent for them.
THEOREM ExecuteCompletedIsDeposited == XSpec => []CompletedIsDeposited
<1>1. XInv => CompletedIsDeposited
    BY DEF XInv, ExecInv
<1> QED BY <1>1, XInitInv, XNextInv, PTL DEF XSpec

\* Unless an answer of sendTransaction is lost, no intent ever has two deposits
\* that landed or still may, crashes and poll timeouts included.
THEOREM ExecuteSingleDeposit ==
  ASSUME NoAnswerIsLost
  PROVE  XSpec => []SingleDeposit
<1>1. XInv => SingleDeposit
    BY DEF XInv, ExecInv, DepositIsRecorded
<1> QED BY <1>1, XInitInv, XNextInv, PTL DEF XSpec

\* Under the same assumption a budget that goes back to its user is not also
\* deposited, now or later.
THEOREM ExecuteRefundExcludesDeposit ==
  ASSUME NoAnswerIsLost
  PROVE  XSpec => []RefundedIsNotDeposited
<1>1. XInv => RefundedIsNotDeposited
    BY DEF XInv, ExecInv, DepositIsRecorded, RefundedIsNotDeposited, NotLive, SentStatus
<1> QED BY <1>1, XInitInv, XNextInv, PTL DEF XSpec

---------------------------------------------------------------------------
(* The shared wallet: budgets are sums of raw units.                       *)

\* An order has as many raw units as its amount says.
LEMMA UnitsOfOrder ==
  ASSUME NEW i \in Intents
  PROVE  IsFiniteSet(Units(i)) /\ Cardinality(Units(i)) = Amount[i]
<1> DEFINE n == Amount[i]
           A == {i}
           B == 1 .. n
<1>1. n \in Nat \ {0}
    BY AmountAssumption
<1>2. IsFiniteSet(B) /\ Cardinality(B) = n
    BY <1>1, FS_Interval
<1>3. IsFiniteSet(A) /\ Cardinality(A) = 1
    BY FS_Singleton
<1> HIDE DEF n, A, B
<1>4. IsFiniteSet(A \X B) /\ Cardinality(A \X B) = 1 * n
    BY <1>2, <1>3, FS_Product
<1>5. Units(i) = A \X B
    BY DEF Units, A, B, n
<1> QED BY <1>1, <1>4, <1>5 DEF n

\* All the units of a set of orders.
LEMMA UnitsAreFinite ==
  ASSUME NEW S \in SUBSET Intents
  PROVE  IsFiniteSet(UNION {Units(i) : i \in S})
<1> DEFINE f == [i \in S |-> Units(i)]
           T == {Units(i) : i \in S}
<1>1. IsFiniteSet(S)
    BY IntentsAssumption, FS_Subset
<1>2. f \in Surjection(S, T)
    BY DEF Surjection
<1>3. \A U \in T : IsFiniteSet(U)
    BY UnitsOfOrder
<1> HIDE DEF f, T
<1>4. IsFiniteSet(T)
    BY <1>1, <1>2, FS_Surjection
<1>5. IsFiniteSet(UNION T)
    BY <1>3, <1>4, FS_UNION
<1> QED BY <1>5 DEF T

\* Fewer orders need no more.
LEMMA SumMonotone ==
  ASSUME NEW S \in SUBSET Intents, NEW R \in SUBSET S
  PROVE  Sum(S) \in Nat /\ Sum(R) \in Nat /\ Sum(R) =< Sum(S)
<1> DEFINE A == UNION {Units(i) : i \in S}
           B == UNION {Units(i) : i \in R}
<1>1. IsFiniteSet(A) /\ B \in SUBSET A
    BY UnitsAreFinite
<1> HIDE DEF A, B
<1>2. IsFiniteSet(B) /\ Cardinality(B) =< Cardinality(A)
    BY <1>1, FS_Subset
<1>3. Cardinality(A) \in Nat /\ Cardinality(B) \in Nat
    BY <1>1, <1>2, FS_CardinalityType
<1> QED BY <1>2, <1>3 DEF Sum, A, B

\* Without one order, exactly its amount less is needed.
LEMMA SumWithout ==
  ASSUME NEW S \in SUBSET Intents, NEW i \in S
  PROVE  Sum(S) = Sum(S \ {i}) + Amount[i]
<1> DEFINE A == UNION {Units(j) : j \in S}
           B == UNION {Units(j) : j \in S \ {i}}
           C == Units(i)
<1>1. IsFiniteSet(B)
    BY UnitsAreFinite
<1>2. IsFiniteSet(C) /\ Cardinality(C) = Amount[i] /\ Amount[i] \in Nat
    BY UnitsOfOrder, AmountAssumption
<1>3. A = B \cup C
    OBVIOUS
<1>4. B \cap C = {}
    BY DEF Units
<1> HIDE DEF A, B, C
<1>5. Cardinality(B \cup C) = Cardinality(B) + Cardinality(C) - Cardinality(B \cap C)
    BY <1>1, <1>2, FS_Union
<1>6. Cardinality(B) \in Nat
    BY <1>1, FS_CardinalityType
<1>7. Cardinality(B \cap C) = 0
    BY <1>4, FS_EmptySet
<1>8. Cardinality(A) = Cardinality(B) + Amount[i]
    BY <1>2, <1>3, <1>5, <1>6, <1>7
<1> QED BY <1>8 DEF Sum, A, B

\* The budgets that were neither deposited nor returned.
Owed == {i \in Intents : ~Deposited(i) /\ row[i].status # "refunded"}

\* A transaction that was sent was sent for someone, and moves that amount.
PaysItsAmount(d) == d.chain # "unused" => /\ d.for # {}
                                          /\ \A i \in d.for : d.amount = Amount[i]

WalletInv == /\ wallet \in Nat
             /\ \A x \in ExecSigs : PaysItsAmount(dep[x])
             /\ BudgetsAreBacked

\* What a step may do to the deposits.
DepositsStay ==
  \A x \in ExecSigs : PaysItsAmount(dep'[x]) /\ (dep[x].chain = "landed" => dep'[x] = dep[x])

\* The initial wallet holds every budget.
LEMMA WalletInit == XInit => WalletInv
<1> SUFFICES ASSUME XInit PROVE WalletInv
    OBVIOUS
<1>1. wallet = Sum(Intents) /\ Owed \in SUBSET Intents
    BY DEF XInit, Owed
<1>2. wallet \in Nat /\ Sum(Owed) \in Nat /\ Sum(Owed) =< wallet
    BY <1>1, SumMonotone
<1>3. BudgetsAreBacked
    BY <1>2 DEF BudgetsAreBacked, Owed
<1>4. Unused.chain = "unused"
    BY DEF Unused
<1>5. \A x \in ExecSigs : PaysItsAmount(dep[x])
    BY <1>4 DEF XInit, ExecuteInit, PaysItsAmount
<1> QED BY <1>2, <1>3, <1>5 DEF WalletInv

\* A broadcast adds an order of its own amount to an unused transaction, or
\* to one in flight that moves the same amount.
LEMMA SendPays ==
  ASSUME ExecInv, WalletInv, NEW p \in Executors, ExecSend(p)
  PROVE  DepositsStay
<1> DEFINE i == exe[p].i
<1>1. CASE UNCHANGED dep
    BY <1>1 DEF DepositsStay, WalletInv
<1>2. ASSUME NEW x \in ExecSigs, MayCarry(x, i),
             dep' = [dep EXCEPT ![x] = [chain |-> "inflight", amount |-> Amount[i],
                                        for |-> @.for \cup {i}]]
      PROVE  DepositsStay
    <2>1. /\ dep'[x].for = dep[x].for \cup {i} /\ dep'[x].amount = Amount[i]
          /\ \A y \in ExecSigs \ {x} : dep'[y] = dep[y]
        BY <1>2 DEF ExecInv, ExecType
    <2>2. dep[x].chain # "landed" /\ (dep[x].for = {} \/ dep[x].amount = Amount[i])
        BY <1>2 DEF MayCarry, Unused
    <2>3. \A j \in dep[x].for : Amount[j] = Amount[i]
        BY <1>2, <2>2 DEF WalletInv, PaysItsAmount, MayCarry, Unused
    <2>4. PaysItsAmount(dep'[x])
        BY <2>1, <2>3 DEF PaysItsAmount
    <2> QED BY <2>1, <2>2, <2>4 DEF DepositsStay, WalletInv
<1> QED BY <1>1, <1>2 DEF ExecSend

\* The cluster changes the fate of a transaction that has not landed.
LEMMA FatePays ==
  ASSUME ExecInv, WalletInv, NEW x \in ExecSigs, DepositStep(x)
  PROVE  /\ DepositsStay
         /\ dep[x].chain \in {"inflight", "erring"} /\ dep'[x].for = dep[x].for
<1>0. dep[x] \in Dep /\ dep \in [ExecSigs -> Dep]
    BY DEF ExecInv, ExecType
<1>1. PICK c \in DepStates :
        /\ dep' = [dep EXCEPT ![x].chain = c]
        /\ dep[x].chain \in {"inflight", "erring"}
    BY DEF DepositStep, DepositLands, DepositFails, DepositDelayed, DepStates
<1>2. /\ dep'[x].for = dep[x].for /\ dep'[x].amount = dep[x].amount
      /\ \A y \in ExecSigs \ {x} : dep'[y] = dep[y]
    BY <1>0, <1>1 DEF Dep
<1>3. PaysItsAmount(dep[x]) /\ PaysItsAmount(dep'[x])
    BY <1>1, <1>2 DEF WalletInv, PaysItsAmount
<1> QED BY <1>1, <1>2, <1>3 DEF DepositsStay, WalletInv

\* An executor's own steps move no money.
LEMMA ExecuteStepPays ==
  ASSUME ExecInv, WalletInv, NEW p \in Executors, ExecuteStep(p)
  PROVE  DepositsStay /\ UNCHANGED wallet
<1>1. CASE ExecSend(p)
    BY <1>1, SendPays DEF ExecSend
<1>2. CASE UNCHANGED marketVars
    BY <1>2 DEF marketVars, DepositsStay, WalletInv
<1> QED BY <1>1, <1>2 DEF ExecuteStep, ExecLookup, ExecApy, ExecBudget, ExecLease,
      ExecPrecheckError, ExecBuild, ExecPoll, ExecMarkRule, ExecMarkIntent, ExecRelease,
      ExecMarkFailed

\* How a step touches the wallet: not at all, or a deposit lands, or a budget
\* is returned.
LEMMA WalletMoves ==
  ASSUME XInv, WalletInv, [XNext]_executeVars
  PROVE  /\ DepositsStay
         /\ \/ UNCHANGED wallet
            \/ \E x \in ExecSigs : DepositLands(x) /\ UNCHANGED row
            \/ \E i \in Intents : /\ Refund(i) /\ UNCHANGED dep
                                  /\ row[i].status = "refunding" /\ row'[i].status = "refunded"
                                  /\ wallet >= Amount[i] /\ wallet' = wallet - Amount[i]
<1>0. ExecInv /\ Watcher \in Executors /\ Manuals \subseteq Executors
    BY DEF XInv, Executors
<1>1. CASE UNCHANGED <<dep, wallet>>
    BY <1>1 DEF DepositsStay, WalletInv
<1>2. ASSUME NEW p \in Executors, ExecuteStep(p) PROVE DepositsStay /\ UNCHANGED wallet
    BY <1>0, <1>2, ExecuteStepPays
<1>3. ASSUME NEW x \in ExecSigs, DepositStep(x), UNCHANGED row
      PROVE  DepositsStay /\ (UNCHANGED wallet \/ DepositLands(x))
    BY <1>0, <1>3, FatePays DEF DepositStep, DepositFails, DepositDelayed
<1>4. ASSUME NEW i \in Intents, Refund(i), UNCHANGED dep
      PROVE  /\ DepositsStay
             /\ \/ UNCHANGED wallet
                \/ /\ row[i].status = "refunding" /\ row'[i].status = "refunded"
                   /\ wallet >= Amount[i] /\ wallet' = wallet - Amount[i]
    <2>1. DepositsStay
        BY <1>4 DEF DepositsStay, WalletInv
    <2>2. row \in [Intents -> Row]
        BY DEF XInv, FInv, FTypeOK
    <2>3. ASSUME NEW s \in Sigs, MarkRefundedIfRefunding(i, s)
          PROVE  row[i].status = "refunding" /\ row'[i].status = "refunded"
        BY <2>2, <2>3 DEF MarkRefundedIfRefunding, Row
    <2> QED BY <1>4, <2>1, <2>3 DEF Refund
<1>5. CASE ExecuteNext
    BY <1>0, <1>1, <1>2, <1>3, <1>5
    DEF ExecuteNext, WatcherStep, WatcherList, WatcherFetch, WatcherScan, ManualBegin, ExecCrash,
        marketVars
<1>6. CASE (Tick /\ UNCHANGED <<rules, execVars, marketVars>>) \/ UNCHANGED executeVars
    BY <1>1, <1>6 DEF executeVars, marketVars
<1> QED BY <1>4, <1>5, <1>6 DEF XNext

\* No budget comes to be owed again.
LEMMA OwedShrinks ==
  ASSUME XInv, [XNext]_executeVars, DepositsStay
  PROVE  Owed' \subseteq Owed
<1>1. \A i \in Intents : row[i].status = "refunded" => row'[i].status = "refunded"
    BY XStepsRepository, FNextRowStep DEF XInv, RowStep, Terminal
<1>2. \A i \in Intents : Deposited(i) => Deposited(i)'
    BY DEF Deposited, DepositsStay
<1> QED BY <1>1, <1>2 DEF Owed

\* What leaves the wallet is the amount of a budget that is owed no longer:
\* this is where a second deposit, or a deposit beside a refund, would break
\* the promise to the other orders.
LEMMA WalletNext ==
  ASSUME NoAnswerIsLost, XInv, WalletInv, [XNext]_executeVars
  PROVE  WalletInv'
<1>1. DepositsStay /\ Owed' \subseteq Owed /\ Owed \in SUBSET Intents
    BY WalletMoves, OwedShrinks DEF Owed
<1>2. wallet \in Nat /\ wallet >= Sum(Owed)
    BY DEF WalletInv, BudgetsAreBacked, Owed
<1>3. wallet' \in Nat /\ wallet' >= Sum(Owed')
    <2>1. ASSUME NEW i \in Owed, i \notin Owed', wallet >= Amount[i], wallet' = wallet - Amount[i]
          PROVE  wallet' \in Nat /\ wallet' >= Sum(Owed')
        <3>1. Sum(Owed) = Sum(Owed \ {i}) + Amount[i]
            BY <1>1, SumWithout
        <3>2. Owed \ {i} \in SUBSET Intents /\ Owed' \in SUBSET (Owed \ {i})
            BY <1>1, <2>1
        <3>3. Sum(Owed \ {i}) \in Nat /\ Sum(Owed') \in Nat /\ Sum(Owed') =< Sum(Owed \ {i})
            BY <3>2, SumMonotone
        <3>4. Amount[i] \in Nat
            BY <1>1, AmountAssumption
        <3> QED BY <1>2, <2>1, <3>1, <3>3, <3>4
    <2>2. CASE UNCHANGED wallet
        <3>1. Sum(Owed) \in Nat /\ Sum(Owed') \in Nat /\ Sum(Owed') =< Sum(Owed)
            BY <1>1, SumMonotone
        <3> QED BY <1>2, <2>2, <3>1
    <2>3. ASSUME NEW x \in ExecSigs, DepositLands(x), UNCHANGED row
          PROVE  \E i \in Owed : i \notin Owed' /\ wallet >= Amount[i] /\ wallet' = wallet - Amount[i]
        <3>1. /\ dep[x] \in Dep /\ dep \in [ExecSigs -> Dep]
              /\ dep[x].chain \in {"inflight", "erring"} /\ Live(x) /\ PaysItsAmount(dep[x])
            BY <2>3 DEF DepositLands, Live, XInv, ExecInv, ExecType, WalletInv
        <3>2. PICK i \in dep[x].for : dep[x].amount = Amount[i]
            BY <3>1 DEF PaysItsAmount
        <3>3. i \in Intents
            BY <3>1, <3>2 DEF Dep
        <3>4. ~Deposited(i)
            BY <3>1, <3>2 DEF Deposited, XInv, ExecInv, DepositIsRecorded, SingleDeposit, Live
        <3>5. row[i].status # "refunded"
            BY <3>1, <3>2, <3>3 DEF XInv, ExecInv, DepositIsRecorded, NotLive, SentStatus
        <3>6. dep'[x].chain = "landed" /\ dep'[x].for = dep[x].for
            BY <2>3, <3>1 DEF DepositLands, Dep
        <3>7. Deposited(i)'
            BY <3>2, <3>6 DEF Deposited
        <3> QED BY <2>3, <3>2, <3>3, <3>4, <3>5, <3>7 DEF Owed, DepositLands
    <2>4. ASSUME NEW i \in Intents, UNCHANGED dep,
                 row[i].status = "refunding", row'[i].status = "refunded"
          PROVE  i \in Owed /\ i \notin Owed'
        <3>1. ~Deposited(i)
            BY <2>4 DEF Deposited, Live, XInv, ExecInv, DepositIsRecorded, NotLive, SentStatus
        <3> QED BY <2>4, <3>1 DEF Owed
    <2> QED BY <2>1, <2>2, <2>3, <2>4, WalletMoves
<1> QED BY <1>1, <1>3 DEF WalletInv, DepositsStay, BudgetsAreBacked, Owed

\* Unless an answer of sendTransaction is lost, the shared controlled wallet
\* always holds every budget that was neither deposited nor returned, whatever
\* the other orders did: no order is paid with another one's money.
THEOREM ExecuteBudgetsAreBacked ==
  ASSUME NoAnswerIsLost
  PROVE  XSpec => []BudgetsAreBacked
<1>1. XInit => XInv /\ WalletInv
    BY XInitInv, WalletInit
<1>2. (XInv /\ WalletInv) /\ [XNext]_executeVars => (XInv /\ WalletInv)'
    BY XNextInv, WalletNext
<1>3. WalletInv => BudgetsAreBacked
    BY DEF WalletInv
<1> QED BY <1>1, <1>2, <1>3, PTL DEF XSpec

===========================================================================
