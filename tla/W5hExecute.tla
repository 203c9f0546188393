---------------------------- MODULE W5hExecute ----------------------------
(***************************************************************************)
(* Execution of a funded intent: the W5i background watcher                *)
(* (crates/gateway/src/stage2_w5i_auto_execute.rs) and the manual approval *)
(* command both run Stage2ChatExecutor::execute                            *)
(* (crates/gateway/src/stage2_chat_execute.rs).  An execution re-checks    *)
(* the rule, the market and the wallet, takes the execution lease, builds, *)
(* signs, broadcasts and polls the deposit, and writes the outcome back.   *)
(* Every await is a step boundary.                                         *)
(***************************************************************************)
EXTENDS W5hFunding, Stage2WatchRules, FiniteSets, FiniteSetsExt

CONSTANTS
  ExecSigs,    \* signatures of deposit transactions
  Manuals,     \* concurrent manual approval requests
  Watcher,     \* the single W5i watcher task
  Threshold,   \* rule id -> threshold_bps (the rule id is derived from it)
  Apys,        \* readings of the Save display APY
  MinAmount,   \* PHASE5C_MIN_AMOUNT_RAW
  MaxAmount,   \* PHASE5C_MAX_AMOUNT_RAW
  BatchLimit,  \* MAX_INTENTS_PER_TICK
  Faults       \* the failures the environment may produce

FaultKinds == {"crash", "db_error", "read_error", "build_failed", "rejected", "lost_response",
               "poll_timeout", "tx_error", "dropped", "fork", "same_blockhash"}

ASSUME RulesAreIntents == Rules = Intents
ASSUME ExecSigsAssumption == ExecSigs \subseteq Sigs
ASSUME ExecutorsAssumption == Watcher \notin Manuals
ASSUME MarketAssumption == Threshold \in [Rules -> Nat] /\ Apys \subseteq Nat
ASSUME BatchLimitAssumption == BatchLimit \in Nat \ {0}
ASSUME FaultsAssumption == Faults \subseteq FaultKinds

VARIABLES
  exe,      \* executor -> program counter, request, clock reading, signature
  batch,    \* intents of the watcher's current tick still to scan
  tickApy,  \* the APY the watcher fetched for this tick
  dep,      \* deposit signature -> its amount, its senders, its fate on the cluster
  apy,      \* the Save display APY
  wallet    \* USDC of the controlled wallet

execVars == <<exe, batch, tickApy>>
marketVars == <<dep, apy, wallet>>
executeVars == <<row, now, rules, execVars, marketVars>>

Executors == Manuals \cup {Watcher}

---------------------------------------------------------------------------
(* The cluster and the market (external). *)

\* A deposit that executed with an error in a block that is not final
\* ("erring") may still succeed in another fork.
DepStates == {"unused", "inflight", "erring", "landed", "failed", "dropped"}

Unused == [chain |-> "unused", amount |-> 0, for |-> {}]

\* The deposit has spent the budget or still may.
Live(x) == dep[x].chain \in {"inflight", "erring", "landed"}

DepositLands(x) ==
  /\ dep[x].chain \in {"inflight", "erring"}
  /\ wallet >= dep[x].amount
  /\ dep' = [dep EXCEPT ![x].chain = "landed"]
  /\ wallet' = wallet - dep[x].amount

DepositFails(x) ==
  /\ dep[x].chain = "inflight"
  /\ wallet < dep[x].amount \/ "tx_error" \in Faults
  /\ dep' = [dep EXCEPT ![x].chain = "failed"]
  /\ UNCHANGED wallet

\* The blockhash expires before a leader includes the transaction, or a
\* block that is not final yet holds it with an error.
DepositDelayed(x) ==
  /\ dep[x].chain = "inflight"
  /\ \E c \in {"dropped", "erring"} :
       /\ (IF c = "dropped" THEN "dropped" ELSE "fork") \in Faults
       /\ dep' = [dep EXCEPT ![x].chain = c]
  /\ UNCHANGED wallet

DepositStep(x) == DepositLands(x) \/ DepositFails(x) \/ DepositDelayed(x)

MarketStep == \E a \in Apys : apy' = a

---------------------------------------------------------------------------
(* Local control of an executor. *)

IdleExecutor == [pc |-> "idle", i |-> Null, hash |-> 0, t |-> 0, sig |-> Null]

ExecGoto(p, l) == exe' = [exe EXCEPT ![p].pc = l]

\* The call returns: the watcher goes on with its tick, a request is over.
ExecReturn(p) ==
  exe' = [exe EXCEPT ![p] =
            [IdleExecutor EXCEPT !.pc = IF p = Watcher /\ batch # {} THEN "scan" ELSE "idle"]]

ExecStart(p, i, h) == exe' = [exe EXCEPT ![p] = [IdleExecutor EXCEPT !.pc = "rule", !.i = i, !.hash = h]]

\* A statement that may fail, with its failure ignored by the caller.
DbError == "db_error" \in Faults

InBand(i) == MinAmount =< Amount[i] /\ Amount[i] =< MaxAmount

---------------------------------------------------------------------------
(* The watcher's tick. *)

Reserved == {i \in Intents : row[i].status = "budget_reserved"}

\* Seeded fault: the listing is sorted the other way round.
IsNewestBatch(B) ==
  /\ B \subseteq Reserved
  /\ \A i \in B, j \in Reserved \ B : row[i].expires >= row[j].expires
  /\ Cardinality(B) = Min({BatchLimit, Cardinality(Reserved)})

\* list_budget_reserved: the oldest BatchLimit rows.  Creation order is
\* expiry order, since every row gets the same window.
IsBatch(B) ==
  /\ B \subseteq Reserved
  /\ \A i \in B, j \in Reserved \ B : row[i].expires =< row[j].expires
  /\ Cardinality(B) = Min({BatchLimit, Cardinality(Reserved)})

WatcherList ==
  /\ exe[Watcher].pc = "idle"
  /\ \E B \in SUBSET Intents : IsBatch(B) /\ B # {} /\ batch' = B
  /\ ExecGoto(Watcher, "listed")
  /\ UNCHANGED <<row, rules, tickApy, marketVars>>

\* One APY reading serves the whole tick; a failed fetch ends the tick.
WatcherFetch ==
  /\ exe[Watcher].pc = "listed"
  /\ \/ ExecGoto(Watcher, "scan") /\ tickApy' = apy /\ UNCHANGED batch
     \/ /\ "read_error" \in Faults
        /\ ExecGoto(Watcher, "idle") /\ batch' = {} /\ UNCHANGED tickApy
  /\ UNCHANGED <<row, rules, marketVars>>

\* Next intent of the tick, oldest first: dispatch it or pass over it.
WatcherScan ==
  /\ exe[Watcher].pc = "scan"
  /\ \E i \in batch :
       /\ \A j \in batch : row[i].expires =< row[j].expires
       /\ batch' = batch \ {i}
       /\ IF InBand(i) /\ tickApy > Threshold[i]
          THEN ExecStart(Watcher, i, row[i].hash)
          ELSE ExecGoto(Watcher, IF batch = {i} THEN "idle" ELSE "scan")
  /\ UNCHANGED <<row, rules, tickApy, marketVars>>

---------------------------------------------------------------------------
(* Stage2ChatExecutor::execute *)

\* The manual command carries the rule id and hash of a result card; the
\* static gates (approval phrases, cluster, key path, RPC) have passed.
ManualBegin(p, i) ==
  /\ p \in Manuals
  /\ exe[p].pc = "idle"
  /\ \E h \in {row[i].hash, rules[i].hash} : ExecStart(p, i, h)
  /\ UNCHANGED <<row, rules, batch, tickApy, marketVars>>

\* Steps 6-9: the rule exists, has the hash the caller named, is still
\* executable and its amount lies in the band.
RuleAllows(p) ==
  LET r == rules[exe[p].i] IN
    /\ r.status \in PreExecution
    /\ r.hash = exe[p].hash
    /\ InBand(exe[p].i)

ExecLookup(p) ==
  /\ exe[p].pc = "rule"
  /\ IF RuleAllows(p) THEN ExecGoto(p, "apy") ELSE ExecReturn(p)
  /\ UNCHANGED <<row, rules, batch, tickApy, marketVars>>

\* Step 10, first half: the APY is strictly above the threshold now.
ExecApy(p) ==
  /\ exe[p].pc = "apy"
  /\ IF apy > Threshold[exe[p].i] THEN ExecGoto(p, "budget") ELSE ExecReturn(p)
  /\ UNCHANGED <<row, rules, batch, tickApy, marketVars>>

\* Step 10, second half: the shared controlled wallet holds the amount.  The
\* clock reading for the lease is taken before the statement is sent.
ExecBudget(p) ==
  /\ exe[p].pc = "budget"
  /\ IF wallet >= Amount[exe[p].i]
     THEN exe' = [exe EXCEPT ![p] = [@ EXCEPT !.pc = "lease", !.t = now]]
     ELSE ExecReturn(p)
  /\ UNCHANGED <<row, rules, batch, tickApy, marketVars>>

\* A lookup, a fetch or the lease statement itself fails: nothing is written.
ExecPrecheckError(p) ==
  /\ "read_error" \in Faults
  /\ exe[p].pc \in {"rule", "apy", "budget", "lease"}
  /\ ExecReturn(p)
  /\ UNCHANGED <<row, rules, batch, tickApy, marketVars>>

\* Seeded fault: the lease is a read, not a compare-and-set.
LeaseByRead(p) ==
  /\ exe[p].pc = "lease"
  /\ \/ row[exe[p].i].status \in {"budget_reserved", "executing"}
        /\ row' = [row EXCEPT ![exe[p].i].status = "executing"] /\ ExecGoto(p, "build")
     \/ ~CanLeaseExecution(row[exe[p].i], exe[p].t) /\ ExecReturn(p) /\ UNCHANGED row
  /\ UNCHANGED <<rules, batch, tickApy, marketVars>>

\* Step 11a: the CAS lease shared by all executors.
ExecLease(p) ==
  /\ exe[p].pc = "lease"
  /\ \/ LeaseExecutionIfBudgetReserved(exe[p].i, exe[p].t) /\ ExecGoto(p, "build")
     \/ ~CanLeaseExecution(row[exe[p].i], exe[p].t) /\ ExecReturn(p) /\ UNCHANGED row
  /\ UNCHANGED <<rules, batch, tickApy, marketVars>>

\* build_sign_send_poll up to the broadcast: the balance is read once more;
\* any other failure to build, or a transaction over the size limit.
ExecBuild(p) ==
  /\ exe[p].pc = "build"
  /\ \/ wallet >= Amount[exe[p].i] /\ ExecGoto(p, "send")
     \/ wallet < Amount[exe[p].i] /\ ExecGoto(p, "release")
     \/ "build_failed" \in Faults /\ ExecGoto(p, "release")
  /\ UNCHANGED <<row, rules, batch, tickApy, marketVars>>

\* A transaction is its instructions and its blockhash.  The instructions
\* depend on the amount alone, so a second execution of the same amount under
\* the same blockhash sends the very transaction that is already in flight.
MayCarry(x, i) ==
  \/ dep[x] = Unused
  \/ /\ "same_blockhash" \in Faults
     /\ dep[x].chain = "inflight" /\ dep[x].amount = Amount[i]

\* sendTransaction.  An error answer is BroadcastFailed, whether the node
\* refused the transaction or the answer to an accepted one was lost.
ExecSend(p) ==
  /\ exe[p].pc = "send"
  /\ \/ \E x \in ExecSigs :
          /\ MayCarry(x, exe[p].i)
          /\ dep' = [dep EXCEPT ![x] = [chain |-> "inflight", amount |-> Amount[exe[p].i],
                                        for |-> @.for \cup {exe[p].i}]]
          /\ \/ exe' = [exe EXCEPT ![p] = [@ EXCEPT !.pc = "poll", !.sig = x]]
             \/ "lost_response" \in Faults /\ ExecGoto(p, "release")
     \/ "rejected" \in Faults /\ ExecGoto(p, "release") /\ UNCHANGED dep
  /\ UNCHANGED <<row, rules, batch, tickApy, apy, wallet>>

\* Seeded fault: a timeout is taken for a transaction that did not land.
PollTimeoutReleases(p) ==
  /\ exe[p].pc = "poll"
  /\ \/ dep[exe[p].sig].chain = "landed" /\ ExecGoto(p, "mark_rule")
     \/ dep[exe[p].sig].chain \in {"failed", "erring"} /\ ExecGoto(p, "mark_failed")
     \/ "poll_timeout" \in Faults /\ ExecGoto(p, "release")
  /\ UNCHANGED <<row, rules, batch, tickApy, marketVars>>

\* Seeded fault: a status that is not final yet counts as landed.
PollAcceptsPending(p) ==
  /\ exe[p].pc = "poll"
  /\ \/ dep[exe[p].sig].chain \in {"inflight", "landed"} /\ ExecGoto(p, "mark_rule")
     \/ dep[exe[p].sig].chain \in {"failed", "erring"} /\ ExecGoto(p, "mark_failed")
     \/ "poll_timeout" \in Faults /\ ExecReturn(p)
  /\ UNCHANGED <<row, rules, batch, tickApy, marketVars>>

\* poll_signature_with_backoff: finalized, an error at any commitment, or
\* the deadline (or too many RPC errors), after which nothing is written.
ExecPoll(p) ==
  /\ exe[p].pc = "poll"
  /\ \/ dep[exe[p].sig].chain = "landed" /\ ExecGoto(p, "mark_rule")
     \/ dep[exe[p].sig].chain \in {"failed", "erring"} /\ ExecGoto(p, "mark_failed")
     \/ "poll_timeout" \in Faults /\ ExecReturn(p)
  /\ UNCHANGED <<row, rules, batch, tickApy, marketVars>>

\* Finalized, first write: the rule, unconditionally.
ExecMarkRule(p) ==
  /\ exe[p].pc = "mark_rule"
  /\ \/ MarkRuleCompleted(exe[p].i)
     \/ DbError /\ UNCHANGED rules
  /\ ExecGoto(p, "mark_intent")
  /\ UNCHANGED <<row, batch, tickApy, marketVars>>

\* Finalized, second write: the intent, if it is still executing.
ExecMarkIntent(p) ==
  /\ exe[p].pc = "mark_intent"
  /\ \/ MarkCompletedIfExecuting(exe[p].i, exe[p].sig)
     \/ DbError /\ UNCHANGED row
     \/ row[exe[p].i].status # "executing" /\ UNCHANGED row
  /\ ExecReturn(p)
  /\ UNCHANGED <<rules, batch, tickApy, marketVars>>

\* Seeded fault: a pre-broadcast failure only reports its error.
ReleaseForgotten(p) ==
  /\ exe[p].pc = "release"
  /\ ExecReturn(p)
  /\ UNCHANGED <<row, rules, batch, tickApy, marketVars>>

\* Pre-broadcast failure or BroadcastFailed: give the lease back.
ExecRelease(p) ==
  /\ exe[p].pc = "release"
  /\ \/ ReleaseExecutionLease(exe[p].i)
     \/ DbError /\ UNCHANGED row
     \/ row[exe[p].i].status # "executing" /\ UNCHANGED row
  /\ ExecReturn(p)
  /\ UNCHANGED <<rules, batch, tickApy, marketVars>>

\* OnChainFailure: the intent is failed for good.
ExecMarkFailed(p) ==
  /\ exe[p].pc = "mark_failed"
  /\ \/ MarkFailed(exe[p].i)
     \/ DbError /\ UNCHANGED row
     \/ ~CanFail(row[exe[p].i]) /\ UNCHANGED row
  /\ ExecReturn(p)
  /\ UNCHANGED <<rules, batch, tickApy, marketVars>>

\* The request's connection closes or the daemon restarts: the call is gone,
\* the rows and whatever was broadcast stay.
ExecCrash(p) ==
  /\ "crash" \in Faults
  /\ exe[p].pc # "idle"
  /\ exe' = [exe EXCEPT ![p] = IdleExecutor]
  /\ batch' = IF p = Watcher THEN {} ELSE batch
  /\ UNCHANGED <<row, rules, tickApy, marketVars>>

ExecuteStep(p) ==
  \/ ExecLookup(p) \/ ExecApy(p) \/ ExecBudget(p) \/ ExecLease(p) \/ ExecPrecheckError(p)
  \/ ExecBuild(p) \/ ExecSend(p) \/ ExecPoll(p)
  \/ ExecMarkRule(p) \/ ExecMarkIntent(p) \/ ExecRelease(p) \/ ExecMarkFailed(p)

WatcherStep == WatcherList \/ WatcherFetch \/ WatcherScan \/ ExecuteStep(Watcher)

\* Everything but the clock, the funding side and the refund side.
ExecuteNext ==
  \/ WatcherStep
  \/ \E p \in Manuals : \/ \E i \in Intents : ManualBegin(p, i)
                        \/ ExecuteStep(p)
  \/ \E p \in Executors : ExecCrash(p)
  \/ /\ \/ \E x \in ExecSigs : DepositStep(x) /\ UNCHANGED apy
        \/ MarketStep /\ UNCHANGED <<dep, wallet>>
     /\ UNCHANGED <<row, rules, execVars>>

ExecuteInit ==
  /\ exe = [p \in Executors |-> IdleExecutor]
  /\ batch = {} /\ tickApy = 0
  /\ dep = [x \in ExecSigs |-> Unused]
  /\ apy \in Apys

---------------------------------------------------------------------------
(* Execution on its own: every intent starts funded, with the rule that    *)
(* the order left behind, and the wallet holds exactly the funded amounts. *)

CONSTANT RuleStates   \* what the order may have left: "same", "other", "absent"

ASSUME RuleStatesAssumption == RuleStates \subseteq {"same", "other", "absent"}
\* A funded order has a user and a funding transaction.
ASSUME FundedAssumption == Users # {} /\ Sigs \ ExecSigs # {}
\* An intent id is the hex of a 32-byte hash.
ASSUME IntentsAssumption == IsFiniteSet(Intents)

FundedRow(e) == [AbsentRow EXCEPT !.status = "budget_reserved", !.hash = e - Window,
                                  !.expires = e, !.fundingSig = CHOOSE s \in Sigs \ ExecSigs : TRUE,
                                  !.user = CHOOSE u \in Users : TRUE]

\* The rule of this order, of an earlier order with the same id, or none:
\* the bridge goes on when the insert fails.
RuleAfterOrder(c, e) ==
  CASE c = "same"   -> [AbsentRule EXCEPT !.status = "active", !.hash = e - Window]
    [] c = "other"  -> [AbsentRule EXCEPT !.status = "active", !.hash = e - Window + 1]
    [] c = "absent" -> AbsentRule

\* The raw units of an order's amount, and how many the orders of S have.
Units(i) == {i} \X (1 .. Amount[i])

Sum(S) == Cardinality(UNION {Units(i) : i \in S})

XInit ==
  /\ now = 0
  /\ \E e \in [Intents -> Window .. Window + 1] : \E c \in [Intents -> RuleStates] :
       /\ row = [i \in Intents |-> FundedRow(e[i])]
       /\ rules = [i \in Rules |-> RuleAfterOrder(c[i], e[i])]
  /\ ExecuteInit
  /\ wallet = Sum(Intents)

\* The refund caller of the lease protocol: the lease, then the transfer back
\* and its record.  There is no such caller in the tree yet.
Refund(i) ==
  \/ LeaseRefundIfExpiredOrPast(i, now) /\ UNCHANGED wallet
  \/ /\ wallet >= Amount[i]
     /\ \E s \in Sigs \ ExecSigs : MarkRefundedIfRefunding(i, s)
     /\ wallet' = wallet - Amount[i]

XNext ==
  \/ ExecuteNext /\ UNCHANGED now
  \/ Tick /\ UNCHANGED <<rules, execVars, marketVars>>
  \/ \E i \in Intents : Refund(i) /\ UNCHANGED <<now, rules, execVars, dep, apy>>

XSpec == XInit /\ [][XNext]_executeVars

\* The runtime schedules every task, the watcher ticks for ever and the
\* cluster decides every transaction; nothing forces the clock, the market,
\* the users or the operator.
Fairness ==
  /\ WF_executeVars(WatcherStep /\ UNCHANGED now)
  /\ \A p \in Manuals : WF_executeVars(ExecuteStep(p) /\ UNCHANGED now)
  /\ \A x \in ExecSigs :
       WF_executeVars((DepositLands(x) \/ DepositFails(x))
                        /\ UNCHANGED <<now, row, rules, execVars, apy>>)

XFairSpec == XSpec /\ Fairness

---------------------------------------------------------------------------
(* Properties. *)

ExecPcs == {"idle", "listed", "scan", "rule", "apy", "budget", "lease", "build", "send",
            "poll", "mark_rule", "mark_intent", "release", "mark_failed"}

\* Between the lease and the write-back.
Holds(p, i) ==
  /\ exe[p].i = i
  /\ exe[p].pc \in {"build", "send", "poll", "mark_rule", "mark_intent",
                    "release", "mark_failed"}

\* "Two callers, exactly one winner": from the lease to the write-back an
\* executor is alone with its intent, and the row still says executing when
\* it comes to write the outcome.
LeaseIsExclusive ==
  \A p \in Executors, i \in Intents : Holds(p, i) =>
    /\ row[i].status = "executing"
    /\ \A q \in Executors \ {p} : ~Holds(q, i)

\* An intent's budget is deposited once: there are never two transactions
\* for it that have landed or still may.
SingleDeposit ==
  \A x, y \in ExecSigs : Live(x) /\ Live(y) /\ x # y => dep[x].for \cap dep[y].for = {}

Deposited(i) == \E x \in ExecSigs : dep[x].chain = "landed" /\ i \in dep[x].for

\* Completion is evidence: a completed intent carries the signature of a
\* finalized deposit sent for it, and a completed rule has one too.
CompletedIsDeposited ==
  \A i \in Intents :
    /\ row[i].status = "completed" =>
         /\ row[i].execSig \in ExecSigs
         /\ dep[row[i].execSig].chain = "landed"
         /\ i \in dep[row[i].execSig].for
    /\ rules[i].status = "completed" => Deposited(i)

\* A budget that goes back to its user is not also deposited, now or later
\* ("refund cannot lease while we hold it").
RefundedIsNotDeposited ==
  \A i \in Intents : row[i].status \in {"refunding", "refunded"} =>
    ~\E x \in ExecSigs : Live(x) /\ i \in dep[x].for

\* The shared controlled wallet still holds every budget that was neither
\* deposited nor returned, whatever the other orders did.
BudgetsAreBacked ==
  wallet >= Sum({i \in Intents : ~Deposited(i) /\ row[i].status # "refunded"})

\* A deposit for the order was handed to the cluster.
Sent(i) == \E x \in ExecSigs : i \in dep[x].for

\* A lease blocks nobody for nothing: unless a deposit for the intent has been
\* handed to the cluster, the lease is given back.
UnsentLeasesResolve ==
  \A i \in Intents :
    row[i].status = "executing" ~>
      row[i].status # "executing" \/ Sent(i)

Executable(i) == rules[i].status \in PreExecution /\ rules[i].hash = row[i].hash /\ InBand(i)

\* Among the rows the watcher lists: fewer than BatchLimit reserved rows are as
\* old or older, the expired ones and those that can never execute included.
InReach(i) ==
  Cardinality({j \in Reserved \ {i} : row[j].expires =< row[i].expires}) < BatchLimit

\* A funded order is executed unless its window closes, if from some point on
\* its market condition holds, it is in reach of the listing and its attempts
\* do not fail before the broadcast: neither the other orders of the batch nor
\* the rows beyond the limit, nor anything that went wrong before, prevents it.
OrdersAreServed ==
  \A i \in Intents :
    <>[](/\ apy > Threshold[i]
         /\ row[i].status = "budget_reserved" => InReach(i)
         /\ \A p \in Executors : exe[p].i = i => exe[p].pc # "release") =>
      (row[i].status = "budget_reserved" /\ Executable(i) ~> Sent(i) \/ row[i].expires =< now)

===========================================================================
