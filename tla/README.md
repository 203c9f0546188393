# TLA+ models of the Solfrontier gateway and its authority program

This directory holds a TLA+ development of the parts of the repository that
move money or hold the authority to move it:

* the Stage 2 conditional-deposit loop: a user states an order in chat ("deposit
  0.25 USDC when the supply APY is above 5 %"), funds it with one signed
  transfer, and a background watcher deposits the funds from a controlled wallet
  when the condition holds;
* the approval and signing pipeline: a proposed transaction passes a multi-stage
  approval, is parked, handed to the user's wallet and broadcast, with rows that
  survive a restart;
* the Solend pipeline, which does the same for deposits and withdrawals with
  in-memory stores and its own confirmation tracker;
* the transaction tracker, which follows what was sent to its end;
* the on-chain authority program, which re-checks a rule's conditions before it
  withdraws, and the off-chain evaluator that decides when to call it.

TLC checks the modules on small instances; TLAPS proves all their safety
properties for every instance. Liveness is only model-checked (section 5).

## 1. Inventory of the system

The repository is a Rust workspace (`crates/`), two on-chain programs
(`programs/`), a Next.js frontend and some binaries.

| Part | State | Operations | Talks to |
|---|---|---|---|
| Funding-intent repository (`state-store/stage2_w5h_funding.rs`) | one SQLite row per intent: status (10), owner, rule hash, expiry, three signatures | insert; guarded UPDATEs submit, reserve, invalidate, lease, complete, release, expire, refund-lease, refunded, fail | all of the W5h loop |
| Watch-rule repository (`state-store/stage2_watch_rules.rs`) | one row per rule: status (7), hash, slot expiry, nonce, flags | insert, listings, guarded and unguarded `mark_*` | bridge, chat executor, watcher, executor |
| Draft store, finalize handler, bridge (`stage2_phase5c_draft.rs`, `runtime/stage2_w5h_intent_finalize_wiring.rs`, `stage2_w5h_bridge.rs`) | in-memory slots, active or tombstone, with a TTL | mint, confirm, reject; persist the rule, then the intent | LLM draft path, strict chat grammar, APY fetchers, both repositories |
| Funding-confirm verifier (`stage2_w5h_funding_confirm.rs`) | none of its own | bind signature, fetch transaction, check memo and delta, reserve or invalidate | frontend, RPC node, intent repository |
| Chat executor (`stage2_chat_execute.rs`) | none of its own | gates, lease, build, sign, send, poll, write back | manual approval command, watcher, RPC node, both repositories |
| W5i watcher (`stage2_w5i_auto_execute.rs`) | the current tick | list the 16 oldest reserved intents, fetch APY, dispatch | chat executor |
| Stage 2 rule watcher (`stage2_watcher.rs`) | in-flight set, health snapshot | tick, force tick | rule repository, evaluator, simulator |
| Stage 2 executor (`stage2_executor.rs`) | in-flight set | execute ready rules, execute one rule | rule repository, execution client |
| Condition evaluator (`stage2_evaluator.rs`) | a cache of readings, one tick's worth | evaluate | price and reserve providers |
| Approval store and workflow (`approval_store.rs`, `approval_routing.rs`, `types/approval.rs`) | workflows with stages, votes and a lease | create, decide, expire, signal | API, signing, parking stores |
| Pending signing, durable pending state, orchestrator (`tools/signing.rs`, `durable_pending.rs`, `orchestrator/mod.rs`) | parked transactions, oneshot channels, pending signatures, SQLite copies | propose, park, resume, complete, reap, recover on start | approval store, wallet, RPC node |
| Solend pipeline (`tools/solend_*.rs`, `integrations/solend_*.rs`) | park, JIT-ready, signing and lifecycle stores, tracked set | propose, park, resume, prepare, submit, track | approval store, RPC node, wallet |
| Transaction tracker, lifecycle persister (`solana-core/tracker.rs`, `tx_lifecycle.rs`, `lifecycle_persister.rs`) | a record per signature, one SQLite row each | register, poll, rebroadcast, persist, emit, recover | RPC node, event bus |
| `clawsol-authority` | authorization and checkpoint accounts | create, revoke, close, execute, open and verify a bracket | Solend (CPI), Jupiter (sibling instruction) |
| `clawsol-intent` | intent accounts | create, record a result | audit |
| Wallet challenge | single-use nonces | issue, confirm | sessions |
| Risk engine, session policy, lending policy | policies | evaluate | tools |
| Chat grammar, LLM extractor, chat wiring | conversation state | text to order or draft | agent runtime |
| Jupiter integration, tools, API, agent runtime, channels, observability, wallet engine, Solana core, frontend, binaries | sessions, caches, configuration | input and output | each other |

How they interact: everything in the gateway is an async task of one daemon
process. The tasks share SQLite repositories through single statements, memory
stores through mutexes, oneshot channels between a decision and the task it
resumes, and one controlled wallet on the cluster. No lock is held across an
`await`, so between any two awaits of one task any other task may run. The
cluster is asynchronous: a transaction may land late, never, or in a block that
is abandoned, and a node may lag behind in height or in status.

What is hard here, and what would make each part correct:

* **Intent repository**: all mutual exclusion of the loop is in ten WHERE
  clauses. Correct if no sequence of calls, whoever makes them, spends and
  returns one budget, rebinds a funding signature or leaves a terminal status.
* **Verifier**: handlers race with different signatures; the transaction may
  not be visible yet; a wrong "invalid" is terminal. Correct if funded means
  verified and invalid means deserved.
* **Executor and watcher**: checks go stale between the read and the lease; the
  broadcast can be lost, the poll can time out, the process can die at any
  await. Correct if there is one deposit per intent, completion is evidence of
  a deposit, refunds and deposits exclude each other and the shared wallet
  covers all budgets.
* **Drafts and bridge**: confirm and reject race; ids collide by design; the two
  inserts are not a transaction. Correct if an order runs once and memo, intent
  and rule agree.
* **Rule lifecycle**: ticks overlap within and across processes and work on
  snapshots; revocation comes at any time. Correct if a rule is dispatched
  once, and a stale tick never undoes a later decision.
* **Approval and signing**: votes, lease, resume task, wallet, reaper and crash
  meet over three stores and two tables, and the consuming write of each row may
  fail. Correct if nothing leaves without every quorum, leaves once, and nothing
  stays parked.
* **Solend pipeline**: guards are read before an await and used after it; a
  wallet may be rebound while a request waits; duplicate POSTs race; a timeout
  races a late landing. Correct if one POST sends, a refused payload is never
  sent, a handoff was re-checked, and a timeout is reported only when the
  transaction can no longer land unseen.
* **Tracking**: observations arrive late and from lagging nodes, state changes
  can be lost, rows are reloaded after a restart. Correct if finality is never
  invented and tracking ends.
* **Authority program**: a grant may be revoked, closed and created again under
  the same address; conditions are proved with snapshots the executor supplies;
  prices and rates are fixed point with products wider than a word. Correct if a
  grant runs once while it stands, moves only what it names, and its arithmetic
  equals the mathematical definition, also as the watcher computes it.

`PROJECT.json` lists every component and, under `hazards`, the lines where
these difficulties sit, with the properties aimed at them.

## 2. Plan

Order of work, most important behaviour first:

1. `W5hFunding` and its abstract specification `W5hBudget`: done.
2. `W5hFundingConfirm`, `W5hExecute`, `W5hOrder` over it, and `W5hLoop`, which
   composes them: done.
3. `Stage2WatchRules` and `Stage2Lifecycle` (rule watcher and executor): done.
4. `ApprovalWorkflow` and `SigningPipeline` (approval, parking, durable state,
   crash and resume): done.
5. `SolendSubmit`, `SolendPipeline`, `TxLifecycle`, `TxTracking`: done.
6. `ConditionVerifier`, `SiblingBoundary`, `AuthorityProgram`,
   `ConditionEvaluator`: done for the authority program and its evaluator. The
   intent program is left.
7. Left among pure algorithms: policy evaluation order and the sliding-window
   rate limiter, each against a reference definition; and the wallet challenge.
8. Proofs: done for every safety property that a run checks, invariants, action
   properties and refinements alike.
9. Proofs left: an abstract specification for the signing pipeline that its rows
   implement. Liveness stays with TLC (section 5).

No module declares a RECURSIVE operator; recursion is written as recursive
functions or folds, so that all modules can be proved about.

## 3. Modules and their correspondence to the code

The rule throughout: one SQL statement, one mutex-protected method or one
stretch of code between two awaits is one action; an early return is a guard
or an alternative; a handler's local variables are a record with a program
counter `pc`.

### The conditional-deposit loop

* **`W5hBudget`** is the promise: an order's budget is open, held, then spent,
  returned or closed, and moves only along five transfers.
* **`W5hFunding`** is the intent repository. `row[i]` keeps status, owner, rule
  hash, expiry and the three signatures; `now` is the wall clock. Each method is
  an action whose guard (`CanSubmit`, `SubmittedAs`, `CanLeaseExecution`, ...) is
  the WHERE clause. A call that matches no row changes nothing, so the action is
  not enabled. `BudgetOf` maps a row to `W5hBudget`.
* **`Stage2WatchRules`** has the rule repository's methods as operators. The
  creation slot stands for the canonical hash, which covers it.
* **`W5hFundingConfirm`** is the confirm handler: `ConfirmBegin` (row lookup,
  ownership, status switch), `ConfirmSubmit`, `ConfirmPending` or
  `ConfirmVerify`, `ConfirmInvalidate` or `ConfirmReserve`, `ConfirmReread`;
  `ConfirmAbort` is a failing statement or a dropped request at any await. A
  funding transaction is its set of memos, its delta on the controlled account,
  and where it stands on the cluster: unseen, confirmed, erring in a confirmed
  block, or final either way. A confirmed block may be abandoned, and the
  transaction then lands again with the other result or not at all; `blocks` is
  the history of the confirmed blocks it has been in. It also runs alone, with the rest of the system reduced to
  what it may do to the rows (`OtherUsers`).
* **`W5hExecute`** is the watcher's tick (`WatcherList`, `WatcherFetch`,
  `WatcherScan`) and `Stage2ChatExecutor::execute` (`ExecLookup` to
  `ExecMarkFailed`), which the manual command enters through `ManualBegin`. A
  deposit transaction is identified by amount and blockhash, so two executions
  of one amount may send the same one (`MayCarry`). The listing takes the oldest
  `BatchLimit` reserved rows, expired ones included. `Faults` selects what the
  environment does. `Sum` counts the raw units of a set of orders. `Refund` uses
  the repository's refund protocol, for which the tree has a lease and a record
  but no caller yet.
* **`W5hOrder`** is the draft store, the finalize handler and the bridge. Time
  also stands for slots. `verdict`, `runs` and `unruled` (orders whose rule
  insert failed) are history variables.
* **`W5hLoop`** composes the three over shared `row`, `rules`, `wallet` and
  `now`: a confirmed funding transfer fills the wallet, a deposit empties it,
  `DaemonRestart` ends all tasks at once.
* **`Stage2Lifecycle`** is the rule watcher and the executor as overlapping
  frames: a frame holds the snapshot it loaded, the rule it works on and the
  slot of its tick; `inflight` holds one set per component and process.
  Revocation has a repository method and tests but no production caller; it is
  an environment action.

### Approval and signing

* **`ApprovalWorkflow`** has the workflow of `types/approval.rs` as functions of
  one workflow: stages, quorum, rejection, double votes, roles, and the decision
  the store takes on them.
* **`SigningPipeline`** is `submit_for_signing` and everything it wakes:
  `Propose` and `ParkForApproval` (the row is written before the entry is
  shown), `SpawnResume` (after the audit append is awaited), `Decide` and `Signal` (decision and oneshot are two steps),
  `TaskApproved`, `TaskRefused`, `TaskTimesOut` (the resume task),
  `SubmitPending`, `SubmitSigned`, `SubmitFails` and `RecordPending` (the
  orchestrator and the signature row), `Complete`, `MarkCompleted` and
  `Broadcast` (a wallet's POST), `ReaperExpires` and `ReaperMarks`, and
  `Restart` with `recover`. The tool runs inside its caller's request, so its
  future may be dropped at an await: between parking and the spawn of the resume
  task (`ToolDropped`: the entry stays with nobody waiting for it), and before
  the signature row is written (`RecordDropped`). Each store write may fail,
  within `MaxFailures`.
  `handed`, `sent` and `excused` are history variables; `excused` holds the
  requests whose consuming write failed or was cut off, or whose wallet answered
  before its row was written. The code accepts that these may be sent again, and
  the properties except exactly them. Left out: rows that do not decode, the
  purge of terminal rows, a dropped channel, spend records. The completion
  metadata row is written and marked with its signature row.

### Tracking and the Solend pipeline

* **`TxLifecycle`** is `calculate_next_state`, shared by both trackers.
* **`TxTracking`** is the worker of `tracker.rs` with its awaits as step
  boundaries (height, statuses, each rebroadcast), the registration and recovery
  in `daemon.rs`, and the persister. The network is external: blocks, forks,
  a node that lags by up to `Lag` blocks, slots that run ahead of heights.
  Which of the warm and cool records a tick polls is left open.
* **`SolendSubmit`** goes from a signing handoff to the end of its transaction:
  the submit route, verification, the attempts to send, the recorded outcome and
  the confirmation tracker with its rebroadcasts. Height and statuses come from
  two `read_client()` calls, so from nodes that lag independently: the second may
  not know a transaction that was final at the height the first one gave. A
  fetched blockhash is taken to be fresh. The interval between rebroadcasts is
  open. The TTL
  sweep of recorded outcomes is left out.
* **`SolendPipeline`** puts the request side before it: tool call, park, approval,
  resume with the fresh re-check, the JIT-ready entry and prepare, for deposits
  and withdrawals of one session, whose wallet may be rebound at any time. The
  withdraw variants share the actions where their code is the same. What RPC
  reads say of positions and policies is left open. A restart loses every store,
  as the code documents, and is not an action.

### The authority program and the evaluator

* **`ConditionVerifier`** is the program's arithmetic: `mul_div` through a double
  word with bitwise long division, the utilisation curve and supply rate, and
  the comparison of prices of different exponents. `Wad` and `HalfBits` scale
  10^18 and 64 bits down. Shifts and `pow10_i128` are the recursive functions
  `TwoTo` and `TenTo`; `FloorOrOverflow` is the reference that the double-word
  arithmetic is compared with.
* **`SiblingBoundary`** has the walks over sibling instructions: a cursor for the
  Solend refresh and withdraw, and for the Jupiter swap, with its cap on writable
  accounts (`WithinLimits`; `MaxWritable` stands for 32). `Touches` says, for the
  properties, which Solend instructions work on a rule's reserve or obligation.
* **`AuthorityProgram`** has one action per instruction. An instruction is
  atomic, so an action is the conjunction of all checks and writes. Whatever a
  caller supplies (accounts, proof, siblings, amount) is an argument. As in the
  code, the conditions of a proof are not tied to the rule hash of the grant,
  snapshots come from the executor, the withdraw takes the live collateral
  amount and not the amount of the call (`state.rs:10`), and checkpoints are
  never closed. What Solend pays for the collateral is at its exchange rate, any
  amount of `Redeems`. The two checks of the swap bracket are modelled, and no
  property speaks of them: they bind nothing but the balance they read.
* **`ConditionEvaluator`** extends it with the watcher's evaluation: ticks
  overlap, share a cache and ask providers with the lock released; `PlanRequest`,
  `FetchBatch` and `EvaluateView` are the three stretches under a lock, and any
  of them may find the cache rotated by another tick. A reading carries, as
  history, the context of the tick that asked for it (`by`). The refusal of an
  empty rule is left out. The tree has only no-op and mock providers, so readings
  are arbitrary, a reserve other than the one asked for included. For a rule with
  logic "any" the program is stricter than the hint: an error in any condition
  of the proof refuses it.

Operators marked "Seeded fault" are not part of the models. Each is the form a
plausible bug would give to the definition below it, and shows that a property
can fail.

## 4. Runs

| Run | Instance | Shows |
|---|---|---|
| `confirm_race` | 1 intent, 2 users, 2 handlers, 2 transactions with any memo and delta, confirmed blocks that may be abandoned, clock 0..1 | funded was verified in a confirmed block, invalid is deserved, a budget is spent or returned, refund excludes execution; the rows implement `W5hBudget` |
| `execute_safety` | 2 intents of equal amount, the watcher and one manual request, 2 deposit signatures, every fault but a lost send answer | lease exclusion, one deposit, completion is evidence, refund excludes deposit, budgets are backed |
| `execute_served` | 3 intents, a listing of 2, an APY above the lower or above both thresholds, each order perhaps without its rule, builds that fail, transactions rejected, fairness | unsent leases are given back; an order within reach of the listing is sent, whatever stands beside it or waits behind it |
| `execute_lost_response` | 1 intent, the watcher, a send whose answer is lost | a violation: the intent is deposited twice |
| `order_confirms` | 2 drafts of one order, 2 calls, TTL 1, clock 0..2, restarts, failing fetches and rule inserts | an order runs at most once; memo, intent and rule agree unless the rule insert failed |
| `loop` | 1 order, 1 draft, 1 handler, the watcher, restarts and chain faults | a deposit is funded by its own transfer; the composition implements `W5hFunding` |
| `lifecycle_frames` | 1 rule, 2 watcher frames (one forced) and 2 executor frames in one process, an executor frame in another, revocation, restarts, store errors | dispatched once; a terminal status is replaced only if it is a revocation, and only by the frame whose lease came before it; a revocation before the lease is final |
| `lifecycle_fair` | 2 rules, one outside the allowlist, revocation, fairness | leased rules settle, expired rules are collected |
| `signing_pipeline` | 1 request with two stages (two analysts, then the chief), 2 operators and an anonymous voter, 2 signature ids, 2 wallet calls, 1 failing write, 1 crash, tool calls dropped at any await, fairness | a hand-over is authorised and happens once, one broadcast, nothing is stuck but an entry whose call was dropped before its task was spawned |
| `tx_tracking` | 1 legacy transaction whose blockhash is valid for two blocks, heights to 5, a node one block behind, 1 failure, 1 restart, fairness | finality is real, tracking closes |
| `authority_program` | 2 rules, 2 wallets, 2 grants, lists of up to 3 siblings, reserves and prices around the kinks; 2 overlapping evaluator ticks | a grant runs once and only while it stands, withdraws what it names; prices, rate, products and sibling walks equal their definitions; the evaluator says true only on the readings of one tick, and where the program's gate passes on them |
| `solend_pipeline` | 2 requests, 1 handoff, 2 POSTs with good, altered or undecodable payloads, 1 rebinding, 2 attempts to send, 1 rebroadcast, heights to 3, nodes that lag independently, fairness | one POST sends, a refused payload never does, a handoff was re-checked, at a timeout the fate of the transaction is decided, submissions settle |

The bounds are enough for the cases that matter. Two intents let one order
starve, drain or imitate the other; two signatures and two handlers let a
binding be contested; two executors are the largest number that meet at the
lease; a window of one tick puts the clock before and at the deadline, which is
where the statements compare, and with a clock of two after it; two deposit
signatures are what a double deposit needs. Three orders and a listing of two
let one order wait behind others that are due, are not due, or can never
execute; `InReach` says which of them the listing must return. In
the signing run the second signature id is the hand-over after a restart, and
two wallet calls race for one id. In the tracking run the heights pass the last
valid block by more than the node's lag and the tracking buffer together
(`TrackingBounds`), so the worker meets the transaction before, at and after
expiry. A second grant is what a replay under the same address needs.

Two runs start from families of states instead of one, to keep their product
small. `authority_program` takes either the program with an idle evaluator or
the evaluator beside a chain of which only the clock moves, as the two share
only the clock and the verifier's operators. `solend_pipeline` takes either two
fresh requests, or one request already handed over with a signing entry waiting.
The second family is a state that the first reaches, and every disjunct fires in
one of them. The grants of `authority_program` name one destination: a second one
only multiplies the balances, and calls with an account of another destination
are among the arguments (the theorem `AuthorityWithdrawIsGranted` is for any
number of them).
`MulDivIsExact` uses words of four bits and tries all operands; section 5 has the
theorem for every width.

### Findings

`execute_lost_response` is expected to end in a violation: the answer of
`sendTransaction` is lost, the lease is released, and the intent is deposited
twice, against the comment at `stage2_chat_execute.rs:1037`. `execute_safety`
shows that with this one fault taken away single execution holds under all the
others.

The models also contain differences between text and code that have no run of
their own. In the deposit loop:

* funding is accepted at commitment `confirmed`
  (`stage2_w5h_funding_confirm.rs:945`, while the comment at line 121 says "Tx
  confirmed AND finalized"), so the block of a funded order may be abandoned; in
  the same way an error seen at `confirmed` makes the order `funding_invalid`,
  which is terminal, although the transaction may succeed in the block that
  becomes final (line 154 says "Tx finalized AND verification failed");
* nothing rejects a funding signature that another intent has used, so a
  transaction that carries the memos of two orders of its amount funds both
  (`stage2_w5h_funding_confirm.rs:571`, while `docs/SECURITY_BOUNDARIES.md:122`
  says "The verifier rejects on `funding_signature` re-use");
* a failed rule insert still answers success (`stage2_w5h_bridge.rs:166`,
  against `docs/ARCHITECTURE.md:74`); `HashesAgree` excepts these orders;
* the stored window starts at the insert and not at the finalize instant
  (`stage2_w5h_bridge.rs:174`, against `docs/ARCHITECTURE.md:75`);
* an error in a block that is not final fails the intent although the deposit
  may still land (fault `fork`, against `stage2_chat_execute.rs:1060`);
* equal terms give equal ids, so a second user is answered with the first
  user's order (`BridgePersistIntent`);
* the executor's write-back on failure is the unguarded `mark_failed` and
  replaces a revocation that came after the lease (`JobFail`,
  `stage2_executor.rs:936`, while the header, line 18, names
  `mark_failed_if_not_terminal`); `OnlyHolderOverwrites` says that this is the
  only way in which a terminal status is replaced.

In signing and tracking:

* a tool call that is dropped between parking its transaction and spawning the
  resume task leaves an entry that no lease reaps (`ToolDropped`,
  `tools/signing.rs:484`, while the comment at line 827 says "the parked signing
  task is actively reaped"); `NothingIsStuck` excepts exactly these entries, and
  a restart removes them;
* a wallet may answer before its signature row is written; the row is then
  inserted as pending after it was consumed (`tools/signing.rs`, `RecordPending`);
* events can be emitted again after a restart, although the persister's comment
  says exactly once; a state change that could not be stored is not retried on
  the next observation; an error at commitment `processed` is terminal;
* recovered metadata has lost its last valid block height, the filter at
  start-up compares a slot with a block height, a rebroadcast decodes only
  legacy transactions, and a row can go back to an earlier state at start-up.

In the Solend pipeline:

* a transaction that has landed is reported as timed out if the node asked for
  its status lags behind the one asked for the height
  (`solend_confirmation.rs:207` and `:246`, while `tx_lifecycle.rs:50` says of an
  expired transaction that it "can never land"); `TimeoutIsDecided` says what is
  left: it can no longer land, or is final;
* a payload that does not decode is recorded as rejected and its entry stays
  (`solend_submit.rs:415`); a losing duplicate POST is answered "not found"
  while the winner is still sending;
* a send error counts as failed although the node may have accepted, and up to
  several attempts are made where the comment says exactly once
  (`solend_submit.rs:397`); a client that disconnects between the send and the
  record leaves its transaction untracked (`Disconnect`);
* two proposals that pass the guard together both park
  (`tools/solend_deposit.rs:481`); prepare does not consume the JIT-ready entry,
  so one approval can serve several deposits, each signed by the user
  (`solend_jit_ready.rs:138` says single-shot);
* a parked withdraw-all never expires (`tools/solend_withdraw_all_usdc.rs:628`);
  a failed status at commitment `processed` is terminal.

In the evaluator, the view of the cache is taken under a lock of its own: a tick
that rotates the cache after another's `integrate` removes the readings just
fetched, and a rule that they make true is answered with a transient error
(`stage2_evaluator.rs:1363`, while the comment at line 1356 says "Token rotation
is not a correctness issue"). The next tick asks again. `TrueIsOfOneTick` shows
that rotation never makes a rule true on readings that do not belong together.
A comment also says that "the validation layer rejects empty rules
at insert time" (`stage2_evaluator.rs:569`), but `insert` does not validate, and
`validate_conditions_bounded` (`types/stage2_watch_rule.rs:450`) has no
production caller. The one builder of rules in the gateway gives a rule a single
condition, so no empty rule arises; `WatchedAssumption` states what is relied on.

In the authority program, a bracket's checkpoint of an earlier grant is still
there when the same address is granted again and the nonce starts over: the
post-check of the new grant is answered with it (`jupiter_bracket.rs:497`, while
line 79 says that the seed "binds the checkpoint to the exact authorization that
authorised the Jupiter execution").

### Deadlock

`CHECK_DEADLOCK FALSE` is set where a bounded instance really stops: the rule
lifecycle once all rules are terminal and the slot bound is reached, and the
signing, tracking, authority and Solend runs once every request, transaction or
grant has ended and the bounds are used up. The other runs check it.

### Fairness

* `W5hExecute`: weak fairness for the watcher's steps, for every manual call
  that has begun and for the cluster deciding a transaction in flight. The
  watcher is a `loop` with a fixed sleep (`run`), a tokio task that is ready is
  polled, and a transaction with a blockhash either lands or expires. Nothing
  forces the clock, the market, users, operators or refunds to act.
* `Stage2Lifecycle`: weak fairness for each watcher and executor frame. Their
  doc comments make the driver call them on a schedule. Force ticks run in
  frames of their own and no fairness is needed for them. Slots, creation and
  revocation are not forced.
* `SigningPipeline` (`SFairness`): tasks that are ready run, the lease and TTL
  timers fire, the reaper ticks every 30 s. The reaper serves one candidate at a
  time, which is why it has strong fairness for each. A tool call that is not
  dropped goes on to spawn its task; nothing forces or forbids a drop. Nothing is
  assumed of operators, wallets or crashes.
* `TxTracking` (`TFairness`): blocks are produced, a processed block is settled
  or abandoned, the worker ticks and again and again reaches a node that is up
  to date.
* `SolendSubmit` (`SFairness`): blocks are produced and finalized, the tracker
  ticks, and its reads succeed again and again. Nothing is assumed of clients.

Liveness runs use no symmetry.

## 5. Proofs

The theorems hold for all sets of intents, users, rules, requests, operators,
signatures, handlers, executors, frames, processes, wallets and transactions,
and for all amounts, windows, heights and bounds on failures and restarts. The
assumptions are those in the modules that declare the constants: what is a
number is one, `Null` and `Absent` are none of the values they stand beside
(no signature, row, record, workflow or handoff), there are finitely many
signatures to track and finitely many intent ids (`IntentsAssumption`: an id is
the hex of a hash), a funded order has a user and a funding transaction
(`FundedAssumption`), a session has a wallet (`Wallets # {}`), and the grants
and calls of the authority program name wallets, destinations and addresses of
the model (`ArgumentsAssumption`). The proofs about the program's checks use
four more:

* `WadFitsWord`: 10^18 is less than 2^128.
* `ReservesAssumption`: the fields of a reserve snapshot have the widths of
  `SolendReserveSnapshot`. What is borrowed is a `u128`; a `u64` percentage as a
  fraction of 10^18 is below 2^128, which is all that is asked of the rates.
* `ProofsAssumption`: a boundary names its reserve (the field is no `Option` in
  the code), prices, thresholds and exponents are signed, a confidence is not
  negative.
* `WatchedAssumption`: a watched rule has at least one condition and no more than
  a proof may carry (see the findings in section 4), and a provider's error is
  terminal or transient.

TLC evaluates all of them on the runs.

| Module | Theorems | What they establish |
|---|---|---|
| `W5hExecuteProofs` | `FundingInvariant`, `FundingSteps`, `FundingImplementsBudget` | of `FSpec`: `SpentOrReturned`, `RefundExcludesExecution`, `ImplementsBudget`, and `FTypeOK`, `FundedHasSignature`, `RefundOnlyAfterExpiry`, `TerminalIsFinal`, `BindingIsFinal`, which no run repeats |
| | `ConfirmFundedIsVerified`, `ConfirmInvalidIsDeserved`, `ConfirmImplementsRepository`, `ConfirmKeepsBudgets` | of `CSpec`: `FundedIsVerified`, `InvalidIsDeserved`; `CSpec` implements `FSpec` and so keeps its promises |
| | `ExecuteLeaseIsExclusive`, `ExecuteCompletedIsDeposited`, `ExecuteSingleDeposit`, `ExecuteRefundExcludesDeposit`, `ExecuteBudgetsAreBacked` | of `XSpec`: `LeaseIsExclusive`, `CompletedIsDeposited`; `SingleDeposit`, `RefundedIsNotDeposited` and `BudgetsAreBacked` if no send answer is lost |
| `W5hLoopProofs` | `OrderDraftRunsOnce`, `OrderHashesAgree` | of `OSpec`: `DraftRunsOnce`, `HashesAgree` |
| | `LoopImplementsRepository`, `LoopDepositIsFunded`, `LoopKeepsPromises`, `LoopKeepsBudgets`, `LoopDepositsOnce` | of `LoopSpec`: `ImplementsRepository`, `DepositIsFunded`, and all the properties above in the composition |
| `Stage2LifecycleProofs` | `LifecycleDispatchesOnce`, `LifecycleHolderOverwrites`, `LifecycleRevocationIsFinal` | of `LifeSpec`: `DispatchedOnce`, `OnlyHolderOverwrites`, `RevokedBeforeLeaseIsFinal` |
| `SigningPipelineProofs` | `SigningHandsOverOnce`, `SigningSendsOnce`, `SigningHandOverIsAuthorised` | of `SSpec`: `HandedOverOnce`, `SentOnceUnlessExcused`, `HandOverIsAuthorised` |
| `SolendPipelineProofs` | `SolendOneSubmitSends`, `SolendRefusedIsNeverSent`, `SolendHandoffIsRechecked`, `SolendTimeoutIsDecided` | of `PSpec`, the whole pipeline from empty stores: `OneSubmitSends`, `RefusedIsNeverSent`, `HandoffIsRechecked`, `TimeoutIsDecided` |
| `TxTrackingProofs` | `TrackingFinalizedIsReal` | of `TSpec`: `FinalizedIsReal` |
| `AuthorityProgramProofs` | `AuthorityGrantRunsOnce`, `AuthorityRunNeedsStandingGrant`, `AuthorityWithdrawIsGranted` | of `ASpec`: `GrantRunsOnce`, `RunNeedsStandingGrant`, `WithdrawIsGranted` |
| | `AuthorityMulDivIsExact`, `AuthoritySiblingsAreExact`, `AuthorityRateFollowsCurve`, `AuthorityAdmittedPricesHold` | of `ASpec`: `MulDivIsExact`, `SiblingsAreExact`, `RateFollowsCurve`, `AdmittedPricesHold` |
| | `EvaluatorTrueIsOfOneTick` | of `ESpec`, program and evaluator together: `TrueIsOfOneTick` |
| `AuthorityChecksProofs` | `MulDivFloorIsExact` | `mul_div_floor_u128` equals the floor of the exact quotient for every word width, the 128 bits of the code included |
| | `SiblingWalkIsExact`, `SwapWalkIsExact` | what the Solend and the Jupiter walk accept, for lists of any length |

Every theorem follows the same pattern: an inductive invariant, one lemma per
action or group of actions that it is kept, and the property read off from it or
from one step. For the Solend pipeline and the authority program the theorems
start from the initial state of the program, while the runs start from families
of states (section 4). An action that proofs need to speak of a second time has
what it leaves alone stated as a lemma (`StillReal`, `SolendMoves`, `EntriesGo`
and their likes).

### The arguments

* **Repository (`FInv`)**. The type invariant, the three safety invariants and
  `FundingUnbound` (a row that was never submitted has no funding signature).
  The write of a signature keeps `SpentOrReturned` only if signatures are typed
  and differ from `Null`; `BindingIsFinal` needs `FundingUnbound`, because the
  submit statement accepts a row whose signature column is empty. The action
  properties reduce to one relation between the old and the new row, `RowStep`.
* **Verifier (`CInv` = `FInv` and `ConfirmInv`)**. `FundedIsVerified` is not
  inductive: what a handler is about to write must be true of the transaction it
  read (`VerdictStands`). A verdict rests on what does not change afterwards: memo
  and amount, and a block in which the transaction succeeded (`Earned`) or erred
  (`Refuted`), which the history keeps although the cluster may abandon it
  (`BlocksTold` ties the history to what the node shows). The WHERE clause ties
  the write to the signature verified. The other users of the rows are
  reduced to `KeepsVerdict`, what they may do to a row.
* **Executors (`XInv` = `FInv` and `ExecInv`)**. `FrameOK` says for every place
  of `execute` what the row and the cluster look like: between lease and
  write-back the row is `executing`, a frame that has sent knows its
  transaction, and before the send nothing for the intent is under way. The last
  part is what a lost send answer destroys, so `SingleDeposit` and
  `RefundedIsNotDeposited` assume `NoAnswerIsLost`; the run
  `execute_lost_response` shows that `SingleDeposit` fails without it.
* **Wallet (`WalletInv`, on top of `XInv`)**. Every transaction that was sent was
  sent for some order and moves exactly that order's amount (`PaysItsAmount`,
  also when two orders share one transaction). The set of budgets still owed
  never grows, and whatever leaves the wallet is the amount of an order that is
  owed before the step and not after it. A second deposit, or a deposit beside a
  refund, would be paid by the other orders, so `SingleDeposit` and
  `RefundedIsNotDeposited` carry the argument. A budget is a set of raw units, so
  sums are cardinalities and the library's theorems on finite sets suffice
  (`SumMonotone`, `SumWithout`).
* **Drafts and bridge (`OInv` = `FInv` and `OrderInv`)**. A call between consume
  and persist holds the only run of its draft, and the hash it carries is the one
  the rule row has or will get.
* **Loop (`LoopInv`)**. The conjunction of the components' invariants with
  `DepositIsFunded`. Each component keeps its own by the lemmas above. That it
  keeps the others' follows from what it may do to a row: `RowEffects` shows that
  each kind of repository step (`Created`, `Judged`, `Executed`, `Refunded`)
  disturbs at most the component that takes it. `LoopKeepsPromises` therefore
  says that the environments with which the components were modelled alone
  (`OtherUsers` and its likes) were general enough.
* **Rule lifecycle (`LifeInv`)**. A rule that was never leased has nonce 0 and
  was not sent (`FreshUntilLeased`); a frame between lease and write-back is alone
  with its rule, holds its current nonce, and the row is executing or was revoked
  since (`HolderIsAlone`). The CAS on the nonce makes a stale snapshot harmless,
  and the write-back replaces a revocation or nothing.
* **Signing (`SignInv`)**. It follows the two durable rows: a request that can
  still be handed over is new or has a pending approval row
  (`RowGuardsHandOver`), ids are unused until minted (`IdsAreFresh`), and a
  signature that can still be sent is in exactly one place: the orchestrator's
  map, one call, or behind a pending row (`RowGuardsSend`). Requests whose
  consuming write failed are excused. `ApprovalStands` follows an approval from
  the votes to the task; `Sound` is kept because `apply_decision` appends only
  votes that the stage admits, for chains of any length.
* **Solend (`PInv`)**. The submit side (`SubmitInv`): who sends has taken the
  entry, what was sent has left a trace, a refused handoff was never claimed, and
  after a timeout the final height has passed the last valid block, whatever node
  gave it (`TimeoutIsPast`), so that every block which could hold the transaction
  is final. Nothing is assumed of the node that gives the status. The request side
  (`RequestInv`): each stage of a request has the marks of the stages before it.
* **Tracking (`TrackInv`)**. `Real` is followed from a node's answer through
  memory, the channel, the row and the events. It is inductive because the
  network takes back only what is not final.
* **Authority program (`AuthInv`)**. Authorizations are numbered as they are
  created. The record at an address is that of the last one created there
  (`GrantsAreNumbered`), so its flags speak of that number
  (`RecordSpeaksOfGrant`), and closing and creating again gives a new one.

* **Arithmetic and walks (`AuthorityChecksProofs`)**. The code loops over bits and
  lists, the model recurses, and the proofs need induction. The library's
  theorems for it take an operator as a parameter, which the provers cannot
  instantiate; `NatSetInduction` therefore states induction for a set of
  naturals, and `RecursionOverNat` that a function given by its first value and a
  table of steps exists. On these rest the powers, the invariant of the long
  division (after each bit, quotient and remainder are those of the leading
  bits, and the overflow flag says whether the quotient left the word) and the
  invariants of the two walks (what the cursor remembers of the prefix it has
  seen).
* **Rates and prices**. The three regions of the curve are floors of linear
  functions; that they meet at the kinks and do not fall is shown from a few
  facts about floors (`DivModUnique`, `FloorMonotone`, `FloorWithin`), with the
  overflow cases kept apart. For prices, the comparison scaled by powers of ten
  is shown to be that of the two decimal numbers (`BoundSpeaksForInterval`).
* **Evaluator against gate (`EvalInv`)**. Through all overlapping ticks the
  shared cache holds readings of the known kinds, all asked for by the tick whose
  token it carries (`OfToken`), and a tick that fetches or views has a watched
  rule in hand. The token is looked at again when the answer is stored, which is
  what keeps `OfToken` over the await. Condition by condition the evaluator's
  verdict on these readings is the program's (`VerdictIsGate`), and so is the
  verdict on the rule.

### Only model-checked

Liveness: `OrdersAreServed`, `UnsentLeasesResolve`, `LeasedRulesSettle`,
`ExpiredRulesAreCollected`, `NothingIsStuck`, `TrackingCloses`,
`SubmissionsSettle`. TLAPS has no means for fairness and ENABLED here.

## 6. What is not modelled

* JSON, base58 and instruction encoding, account parsing and address derivation,
  key handling, logging, metrics, audit records and DTO wording. They decide no
  transition; where a decode can fail the failure is an alternative of the step.
* The LLM and the chat grammar. Whatever they produce enters as a draft or a
  chat command with an arbitrary order.
* The static gates of `execute` (environment switches, approval phrases): a
  request that fails them changes nothing.
* An executor wired without a funding-intent repository (the flow before W5h):
  it takes no lease and writes only the rule. The daemon always wires one.
* Sessions. A draft's key is the pair of session and draft id; a call from
  another session meets an unknown draft, which the models have as an empty slot.
* Service beyond the batch limit. The W5i watcher lists the 16 oldest reserved
  rows and nothing calls `mark_expired_if_past`, so orders behind 16 rows that
  can never execute are not served. The models have this; `OrdersAreServed`
  promises service to the orders within reach of the listing and to no others.
* A rule listing smaller than the number of rules in `Stage2Lifecycle`'s liveness
  run, where orphaned executing rules could fill it.
* Risk engine, session policy and lending policy: their verdict is an arbitrary
  choice where a modelled handler asks for it. Spend limits are advisory input
  to them.
* The intent program, the wallet challenge, the API's rate limiter: small and
  separate from the flows above; section 2 lists them as left.
* Jupiter's off-chain integration, whose parking store has the design of the
  Solend one; its on-chain boundary and bracket are modelled.
* The parts listed as `not_modelled` in `PROJECT.json`.

The models cover the protocols and leave most of the code's lines out: the
larger part of the tree is unit tests in the same files, parsing and building of
messages, routes and their types, wiring, and user interfaces, which keep no
state that two tasks share.
