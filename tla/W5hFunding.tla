---------------------------- MODULE W5hFunding ----------------------------
(***************************************************************************)
(* The durable repository of W5h funding intents                           *)
(* (crates/state-store/src/stage2_w5h_funding.rs).  One row per intent_id; *)
(* every transition is one SQL statement guarded by its WHERE clause, so   *)
(* every operation below is one atomic step that either changes the row or *)
(* affects zero rows (and then the action is simply not enabled).          *)
(*                                                                         *)
(* The columns kept are the ones the guards and the callers tell apart:    *)
(* status, owner, rule hash, expiry and the three signatures.  Error       *)
(* texts, finalized slots and updated_at_ms are left out.                  *)
(***************************************************************************)
EXTENDS Integers

CONSTANTS
  Intents,   \* intent ids: the hex of the watch rule id
  Users,     \* user wallets
  Sigs,      \* transaction signatures
  Null,      \* SQL NULL
  Amount,    \* intent id -> amount_raw (the rule id is derived from it)
  Window,    \* W5H_EXPIRY_SECONDS, in ticks of the clock
  MaxTime    \* bound on the clock

ASSUME NullAssumption == Null \notin Sigs
ASSUME AmountAssumption == Amount \in [Intents -> Nat \ {0}]
ASSUME ClockAssumption == Window \in Nat \ {0} /\ MaxTime \in Nat

VARIABLES
  row,   \* intent id -> row of stage2_w5h_funding_intents
  now    \* wall clock

fundingVars == <<row, now>>

---------------------------------------------------------------------------

IntentStatus == {"funding_required", "funding_submitted", "funding_invalid",
                 "budget_reserved", "executing", "completed", "expired",
                 "refunding", "refunded", "failed"}

\* W5hIntentStatus::is_terminal
Terminal == {"funding_invalid", "completed", "refunded", "failed"}

OptSig == Sigs \cup {Null}

Row == [status : IntentStatus \cup {"absent"},
        user : Users \cup {Null},
        hash : Nat,           \* slot of the rule build, for canonical_rule_hash
        expires : Nat,
        fundingSig : OptSig,
        execSig : OptSig,
        refundSig : OptSig]

\* No row under this key: only the status field means anything.
IsAbsent(r) == r.status = "absent"

AbsentRow == [status |-> "absent",
              user |-> Null,
              hash |-> 0,
              expires |-> 0,
              fundingSig |-> Null,
              execSig |-> Null,
              refundSig |-> Null]

---------------------------------------------------------------------------
(* The WHERE clauses. *)

CanSubmit(r, s) ==
  \/ r.status = "funding_required"
  \/ r.status = "funding_submitted" /\ r.fundingSig \in {Null, s}

SubmittedAs(r, s) == r.status = "funding_submitted" /\ r.fundingSig = s

CanLeaseExecution(r, t) == r.status = "budget_reserved" /\ r.expires > t

CanExpire(r, t) == r.status = "budget_reserved" /\ r.expires =< t

\* Seeded fault: a refund lease that takes over an execution lease.
CanLeaseRefundExecuting(r, t) ==
  r.status \in {"budget_reserved", "expired", "executing"} /\ r.expires =< t

CanLeaseRefund(r, t) == r.status \in {"budget_reserved", "expired"} /\ r.expires =< t

\* Seeded fault: the NOT IN list forgets completed and refunded.
CanFailFinished(r) == r.status \notin {"failed", "funding_invalid", "absent"}

CanFail(r) == r.status \notin Terminal \cup {"absent"}

---------------------------------------------------------------------------
(* One action per repository method that writes. *)

\* insert: the PRIMARY KEY makes a second insert fail.  The caller stamps
\* expires_at_ms from its own clock reading t.
Insert(i, u, h, t) ==
  /\ IsAbsent(row[i])
  /\ row' = [row EXCEPT ![i] = [status |-> "funding_required",
                                user |-> u,
                                hash |-> h,
                                expires |-> t + Window,
                                fundingSig |-> Null,
                                execSig |-> Null,
                                refundSig |-> Null]]

MarkFundingSubmittedIfRequired(i, s) ==
  /\ CanSubmit(row[i], s)
  /\ row' = [row EXCEPT ![i] = [@ EXCEPT !.status = "funding_submitted", !.fundingSig = s]]

MarkBudgetReservedIfSubmitted(i, s) ==
  /\ SubmittedAs(row[i], s)
  /\ row' = [row EXCEPT ![i].status = "budget_reserved"]

MarkFundingInvalidIfSubmitted(i, s) ==
  /\ SubmittedAs(row[i], s)
  /\ row' = [row EXCEPT ![i].status = "funding_invalid"]

\* The caller reads the clock before the statement runs: t is that reading.
LeaseExecutionIfBudgetReserved(i, t) ==
  /\ CanLeaseExecution(row[i], t)
  /\ row' = [row EXCEPT ![i].status = "executing"]

MarkCompletedIfExecuting(i, s) ==
  /\ row[i].status = "executing"
  /\ row' = [row EXCEPT ![i] = [@ EXCEPT !.status = "completed", !.execSig = s]]

\* Seeded fault: a release that also matches a refunding row.
ReleaseAnyLease(i) ==
  /\ row[i].status \in {"executing", "refunding"}
  /\ row' = [row EXCEPT ![i].status = "budget_reserved"]

ReleaseExecutionLease(i) ==
  /\ row[i].status = "executing"
  /\ row' = [row EXCEPT ![i].status = "budget_reserved"]

MarkExpiredIfPast(i, t) ==
  /\ CanExpire(row[i], t)
  /\ row' = [row EXCEPT ![i].status = "expired"]

LeaseRefundIfExpiredOrPast(i, t) ==
  /\ CanLeaseRefund(row[i], t)
  /\ row' = [row EXCEPT ![i].status = "refunding"]

MarkRefundedIfRefunding(i, s) ==
  /\ row[i].status = "refunding"
  /\ row' = [row EXCEPT ![i] = [@ EXCEPT !.status = "refunded", !.refundSig = s]]

MarkFailed(i) ==
  /\ CanFail(row[i])
  /\ row' = [row EXCEPT ![i].status = "failed"]

---------------------------------------------------------------------------
(* The repository under every caller: any operation, in any order. *)

Tick == /\ now < MaxTime
        /\ now' = now + 1
        /\ UNCHANGED row

FInit == /\ row = [i \in Intents |-> AbsentRow]
         /\ now = 0

FundingStep(i) ==
  \E s \in Sigs : \/ MarkFundingSubmittedIfRequired(i, s)
                  \/ MarkBudgetReservedIfSubmitted(i, s)
                  \/ MarkFundingInvalidIfSubmitted(i, s)

ExecutionStep(i) ==
  \/ \E t \in 0 .. now : LeaseExecutionIfBudgetReserved(i, t)
  \/ \E s \in Sigs : MarkCompletedIfExecuting(i, s)
  \/ ReleaseExecutionLease(i)
  \/ MarkFailed(i)

RefundStep(i) ==
  \/ \E t \in 0 .. now : MarkExpiredIfPast(i, t)
  \/ \E t \in 0 .. now : LeaseRefundIfExpiredOrPast(i, t)
  \/ \E s \in Sigs : MarkRefundedIfRefunding(i, s)

RepoStep(i) ==
  \/ \E u \in Users, h \in 0 .. now, t \in 0 .. now : Insert(i, u, h, t)
  \/ FundingStep(i)
  \/ ExecutionStep(i)
  \/ RefundStep(i)

FNext == \/ Tick
         \/ \E i \in Intents : RepoStep(i) /\ UNCHANGED now

FSpec == FInit /\ [][FNext]_fundingVars

---------------------------------------------------------------------------
(* Properties. *)

\* Every row holds a status the code can parse and well-formed columns.
FTypeOK == /\ row \in [Intents -> Row]
           /\ now \in 0 .. MaxTime

Funded == {"budget_reserved", "executing", "completed", "expired",
           "refunding", "refunded"}

\* A status that treats the budget as real money is reached only through a
\* funding signature (mark_budget_reserved_if_submitted is the single door).
FundedHasSignature ==
  \A i \in Intents : row[i].status \in Funded => row[i].fundingSig # Null

\* The terminal of record and the signature columns agree: an execution
\* signature only on a completed row, a refund signature only on a refunded
\* one, so that one budget is never both spent and returned.
SpentOrReturned ==
  \A i \in Intents :
    /\ row[i].execSig # Null <=> row[i].status = "completed"
    /\ row[i].refundSig # Null <=> row[i].status = "refunded"

\* The refund path is entered only once the window is over
\* (lease_refund_if_expired_or_past, mark_expired_if_past).
RefundOnlyAfterExpiry ==
  \A i \in Intents :
    row[i].status \in {"expired", "refunding", "refunded"} => row[i].expires =< now

\* is_terminal: "the intent will not change again".
TerminalIsFinal ==
  [][\A i \in Intents : row[i].status \in Terminal => row'[i] = row[i]]_fundingVars

\* Once a funding signature is recorded the row is bound to it, its owner and
\* its deadline for good, whatever the callers interleave.
BindingIsFinal ==
  [][\A i \in Intents : row[i].fundingSig # Null =>
       /\ row'[i].fundingSig = row[i].fundingSig
       /\ row'[i].user = row[i].user
       /\ row'[i].hash = row[i].hash
       /\ row'[i].expires = row[i].expires]_fundingVars

\* Once the refund lease is taken the budget never returns to the execution
\* path: execution and refund leases are mutually exclusive for good.
RefundExcludesExecution ==
  [][\A i \in Intents :
       row[i].status \in {"expired", "refunding", "refunded"} =>
         row'[i].status \notin {"budget_reserved", "executing", "completed"}]_fundingVars

\* The statuses in terms of the abstract budget.
BudgetOf(r) ==
  CASE r.status \in {"absent", "funding_required", "funding_submitted"} -> "open"
    [] r.status \in {"budget_reserved", "executing", "expired", "refunding"} -> "held"
    [] r.status = "completed" -> "spent"
    [] r.status = "refunded" -> "returned"
    [] OTHER -> "closed"

AbstractBudget == [i \in Intents |-> BudgetOf(row[i])]

Abstract == INSTANCE W5hBudget WITH Orders <- Intents, budget <- AbstractBudget

\* The repository implements the abstract budget: whatever its callers do, a
\* reserved budget is spent or returned, once, and nothing is spent or
\* returned that was not reserved before.
ImplementsBudget == Abstract!BudgetSpec

===========================================================================
