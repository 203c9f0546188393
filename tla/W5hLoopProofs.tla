--------------------------- MODULE W5hLoopProofs ---------------------------
(***************************************************************************)
(* Theorems about the way from a draft to its two rows, for any drafts,    *)
(* orders and users, any number of concurrent finalize and chat calls,     *)
(* failed fetches, failed statements and restarts at any time; and about   *)
(* the whole W5h loop: what is proved of each component on its own, with   *)
(* the rest of the system reduced to what it may do to the rows, holds     *)
(* when all of them run together, and the chain from a funding transfer to *)
(* a deposit is closed.                                                    *)
(***************************************************************************)
EXTENDS W5hLoop, W5hExecuteProofs

---------------------------------------------------------------------------
(* Drafts, calls and the bridge.                                           *)

CallReplies == {"none", "ok", "bad_request", "bridge_failed", "rejected", "hash_mismatch",
                "already_finalized", "not_found"}

Call == [pc : {"idle", "fetch", "rule", "intent"}, i : Intents \cup {Null},
         user : Users \cup {Null}, hash : Nat, reply : CallReplies]

Verdicts == {"none", "confirmed", "rejected"}

\* Store, calls and rules are well formed; an active draft has an order, and a
\* call at work has an order, a user and no answer yet.
OrderType ==
  /\ rules \in [Rules -> RuleRow]
  /\ draft \in [Drafts -> DraftSlot]
  /\ fin \in [Calls -> Call]
  /\ verdict \in [Drafts -> Verdicts]
  /\ runs \in [Drafts -> Nat]
  /\ \A d \in Drafts : draft[d].entry = "active" => draft[d].i \in Intents
  /\ \A c \in Calls : fin[c].pc # "idle" =>
       fin[c].i \in Intents /\ fin[c].user \in Users /\ fin[c].reply = "none"

\* Nothing happened yet to a draft that is still to be decided: what makes
\* the consumption of its entry the single door to the bridge.
UndecidedIsUnused ==
  \A d \in Drafts : draft[d].entry \in {"unused", "active"} =>
    verdict[d] = "none" /\ runs[d] = 0

\* Rules are built at slots that have been reached.
HashesArePast ==
  /\ \A i \in Intents : rules[i].hash =< now
  /\ \A c \in Calls : fin[c].hash =< now

\* A call about to write its intent names the stored rule, and an answered
\* order has its row: what HashesAgree needs of the calls in between.
CallsKnowTheirRule ==
  \A c \in Calls :
    /\ fin[c].pc = "intent" /\ fin[c].i \notin unruled =>
         RulePresent(fin[c].i) /\ rules[fin[c].i].hash = fin[c].hash
    /\ fin[c].reply = "ok" => fin[c].i \in Intents /\ ~IsAbsent(row[fin[c].i])

OrderInv == /\ OrderType /\ UndecidedIsUnused /\ HashesArePast /\ CallsKnowTheirRule
            /\ DraftRunsOnce /\ HashesAgree

---------------------------------------------------------------------------
(* Writing rows and rules.                                                 *)

\* insert creates a well-formed active rule of the given hash.
LEMMA RuleInserted ==
  ASSUME rules \in [Rules -> RuleRow], NEW i \in Rules, NEW h \in Nat, NEW e \in Nat,
         RuleInsert(i, h, e)
  PROVE  /\ rules' \in [Rules -> RuleRow]
         /\ rules'[i].status = "active" /\ rules'[i].hash = h
         /\ \A j \in Rules \ {i} : rules'[j] = rules[j]
<1> DEFINE y == [AbsentRule EXCEPT !.status = "active", !.hash = h, !.expires = e]
<1>1. y \in RuleRow /\ y.status = "active" /\ y.hash = h
    BY DEF RuleRow, RuleStatus, AbsentRule
<1>2. rules' = [rules EXCEPT ![i] = y]
    BY DEF RuleInsert
<1> HIDE DEF y
<1> QED BY <1>1, <1>2

\* A row keeps its rule hash and does not come or go.
KeepsHash(r, q) == (IsAbsent(q) <=> IsAbsent(r)) /\ (~IsAbsent(r) => q.hash = r.hash)

\* Only insert creates a row, and nothing rewrites its hash.
LEMMA OnlyInsertWritesHash ==
  ASSUME FTypeOK, NEW i \in Intents, FundingStep(i) \/ ExecutionStep(i) \/ RefundStep(i)
  PROVE  KeepsHash(row[i], row'[i])
<1> USE DEF FTypeOK, Row, KeepsHash, IsAbsent
<1>1. CASE FundingStep(i)
    BY <1>1 DEF FundingStep, MarkFundingSubmittedIfRequired, CanSubmit,
                MarkBudgetReservedIfSubmitted, MarkFundingInvalidIfSubmitted, SubmittedAs
<1>2. CASE ExecutionStep(i)
    BY <1>2 DEF ExecutionStep, LeaseExecutionIfBudgetReserved, CanLeaseExecution,
                MarkCompletedIfExecuting, ReleaseExecutionLease, MarkFailed, CanFail
<1>3. CASE RefundStep(i)
    BY <1>3 DEF RefundStep, MarkExpiredIfPast, CanExpire, LeaseRefundIfExpiredOrPast,
                CanLeaseRefund, MarkRefundedIfRefunding
<1> QED BY <1>1, <1>2, <1>3

\* A rule keeps its hash and does not come or go.
KeepsRule(i) == (rules'[i].status = "absent" <=> rules[i].status = "absent")
                /\ rules'[i].hash = rules[i].hash

\* Whatever else happens to orders and rules leaves the bridge alone.
LEMMA OthersKeepOrderInv ==
  ASSUME FTypeOK, OrderInv, UNCHANGED <<draft, fin, verdict, runs, unruled>>,
         now' \in Nat, now' >= now, rules' \in [Rules -> RuleRow],
         \A i \in Intents : KeepsHash(row[i], row'[i]) /\ KeepsRule(i)
  PROVE  OrderInv'
<1> USE OrderRulesAreIntents DEF OrderInv
<1>1. OrderType' /\ UndecidedIsUnused' /\ DraftRunsOnce'
    BY DEF OrderType, UndecidedIsUnused, DraftRunsOnce
<1>2. HashesArePast'
    BY DEF HashesArePast, KeepsRule, OrderType, RuleRow, Call, FTypeOK
<1>3. CallsKnowTheirRule'
    BY DEF CallsKnowTheirRule, KeepsRule, KeepsHash, OrderType, RulePresent
<1>4. HashesAgree'
    BY DEF HashesAgree, CallsKnowTheirRule, KeepsRule, KeepsHash, RulePresent
<1> QED BY <1>1, <1>2, <1>3, <1>4

---------------------------------------------------------------------------
(* The draft store.                                                        *)

\* The store's part of the invariant.
DraftInv == /\ draft \in [Drafts -> DraftSlot]
            /\ verdict \in [Drafts -> Verdicts]
            /\ runs \in [Drafts -> Nat]
            /\ \A d \in Drafts : draft[d].entry = "active" => draft[d].i \in Intents
            /\ UndecidedIsUnused /\ DraftRunsOnce

\* A confirm that finds the entry active and live consumes it: it enters the
\* bridge at most once, before any rejection.
LEMMA ConfirmKeepsDrafts ==
  ASSUME FTypeOK, OrderInv, NEW c \in Calls, NEW d \in Drafts, NEW u \in Users \cup {Null},
         NEW b \in BOOLEAN, FinalizeConfirm(c, d, u, b)
  PROVE  DraftInv'
<1> DEFINE outcome == ConsumeOutcome(d, b)
           y == SlotAfterConsume(d, outcome)
<1>0. draft[d] \in DraftSlot /\ now \in Nat
    BY ClockAssumption DEF OrderInv, OrderType, FTypeOK
<1>1. outcome = "ok" => draft[d].entry = "active"
    BY DEF ConsumeOutcome, LiveEntry
<1>2. /\ y \in DraftSlot
      /\ y.entry \in {"active", "unused"} => y = draft[d]
      /\ outcome = "ok" => y.entry = "tombstone"
    <2>1. ConsumedSlot(d) \in DraftSlot /\ ConsumedSlot(d).entry = "tombstone"
        BY <1>0, TtlAssumption DEF ConsumedSlot, DraftSlot
    <2>2. NoEntry \in DraftSlot /\ NoEntry.entry = "none"
        BY DEF NoEntry, DraftSlot
    <2> QED BY <1>0, <2>1, <2>2 DEF SlotAfterConsume
<1>3. draft' = [draft EXCEPT ![d] = y]
    BY DEF FinalizeConfirm
<1>4. /\ verdict' = [verdict EXCEPT ![d] = IF outcome = "ok" /\ @ = "none" THEN "confirmed" ELSE @]
      /\ runs' = runs \/ (outcome = "ok" /\ runs' = [runs EXCEPT ![d] = @ + 1])
    BY DEF FinalizeConfirm
<1> HIDE DEF outcome, y
<1>5. ASSUME NEW e \in Drafts, e # d
      PROVE  draft'[e] = draft[e] /\ verdict'[e] = verdict[e] /\ runs'[e] = runs[e]
    BY <1>3, <1>4, <1>5 DEF OrderInv, OrderType
<1>6. draft'[d] = y
    BY <1>3 DEF OrderInv, OrderType
<1>7. /\ verdict[d] = "none" /\ outcome = "ok" => verdict'[d] = "confirmed"
      /\ ~(verdict[d] = "none" /\ outcome = "ok") => verdict'[d] = verdict[d]
      /\ runs'[d] = runs[d] \/ (outcome = "ok" /\ runs'[d] = runs[d] + 1)
    BY <1>4 DEF OrderInv, OrderType
<1>8. outcome = "ok" => verdict[d] = "none" /\ runs[d] = 0
    BY <1>1 DEF OrderInv, UndecidedIsUnused
<1>9. /\ draft' \in [Drafts -> DraftSlot]
      /\ verdict' \in [Drafts -> Verdicts]
      /\ runs' \in [Drafts -> Nat]
    BY <1>2, <1>3, <1>4 DEF OrderInv, OrderType, Verdicts
<1>10. \A e \in Drafts : draft'[e].entry = "active" => draft'[e].i \in Intents
    BY <1>2, <1>5, <1>6 DEF OrderInv, OrderType
<1>11. UndecidedIsUnused'
    BY <1>2, <1>5, <1>6, <1>7 DEF OrderInv, UndecidedIsUnused
<1>12. DraftRunsOnce'
    BY <1>5, <1>7, <1>8 DEF OrderInv, OrderType, DraftRunsOnce
<1> QED BY <1>9, <1>10, <1>11, <1>12 DEF DraftInv

\* A reject drops the entry, so no confirm can enter the bridge after it.
LEMMA RejectKeepsDrafts ==
  ASSUME OrderInv, NEW c \in Calls, NEW d \in Drafts, FinalizeReject(c, d)
  PROVE  DraftInv'
<1> DEFINE y == IF draft[d].entry = "unused" THEN draft[d] ELSE NoEntry
<1>0. draft[d] \in DraftSlot /\ NoEntry \in DraftSlot /\ NoEntry.entry = "none"
    BY DEF OrderInv, OrderType, NoEntry, DraftSlot
<1>1. y.entry \in {"active", "unused"} => y = draft[d] /\ y.entry = "unused"
    BY <1>0
<1>2. draft' = [draft EXCEPT ![d] = y] /\ runs' = runs
    BY DEF FinalizeReject
<1>3. /\ verdict' \in [Drafts -> Verdicts]
      /\ \A e \in Drafts : \/ verdict'[e] = verdict[e]
                           \/ e = d /\ verdict'[e] = "rejected" /\ draft[d].entry = "active"
    BY DEF FinalizeReject, OrderInv, OrderType, Verdicts, LiveEntry
<1>4. y \in DraftSlot
    BY <1>0
<1> HIDE DEF y
<1>5. draft' \in [Drafts -> DraftSlot] /\ runs' \in [Drafts -> Nat]
    BY <1>2, <1>4 DEF OrderInv, OrderType
<1>6. \A e \in Drafts : draft'[e].entry \in {"active", "unused"} =>
        draft'[e] = draft[e] /\ (e = d => draft[d].entry # "active")
    BY <1>1, <1>2, <1>4 DEF OrderInv, OrderType
<1>7. \A e \in Drafts : draft'[e].entry = "active" => draft'[e].i \in Intents
    BY <1>6 DEF OrderInv, OrderType
<1>8. UndecidedIsUnused'
    BY <1>2, <1>3, <1>6 DEF OrderInv, UndecidedIsUnused
<1>9. DraftRunsOnce'
    BY <1>2, <1>3 DEF OrderInv, UndecidedIsUnused, DraftRunsOnce
<1> QED BY <1>3, <1>5, <1>7, <1>8, <1>9 DEF DraftInv

---------------------------------------------------------------------------
(* The calls and the bridge.                                               *)

\* Call c moves to a frame x, and every other call stays.
CallMoves(c, x) == fin' = [fin EXCEPT ![c] = x]

\* The invariant of one call's frame x.
CallOK(x) ==
  /\ x \in Call
  /\ x.pc # "idle" => x.i \in Intents /\ x.user \in Users /\ x.reply = "none"
  /\ x.hash =< now
  /\ x.pc = "intent" /\ x.i \notin unruled => RulePresent(x.i) /\ rules[x.i].hash = x.hash
  /\ x.reply = "ok" =>
       /\ x.i \in Intents /\ ~IsAbsent(row[x.i])
       /\ x.i \notin unruled => x.hash = row[x.i].hash

\* The rows' part of the invariant.
RulesAgree ==
  /\ rules \in [Rules -> RuleRow]
  /\ \A i \in Intents : rules[i].hash =< now
  /\ \A i \in Intents \ unruled : ~IsAbsent(row[i]) =>
       RulePresent(i) /\ rules[i].hash = row[i].hash

\* The invariant, component by component.
LEMMA OrderInvParts ==
  OrderInv <=> /\ DraftInv /\ RulesAgree
               /\ fin \in [Calls -> Call] /\ \A c \in Calls : CallOK(fin[c])
BY DEF OrderInv, OrderType, DraftInv, RulesAgree, CallOK, HashesArePast, CallsKnowTheirRule,
       HashesAgree

\* The same for the next state.
LEMMA OrderInvPartsNext ==
  OrderInv' <=> /\ DraftInv' /\ RulesAgree'
                /\ fin' \in [Calls -> Call] /\ \A c \in Calls : CallOK(fin[c])'
BY DEF OrderInv, OrderType, DraftInv, RulesAgree, CallOK, HashesArePast, CallsKnowTheirRule,
       HashesAgree

\* A call that ended without an order to show for it is in order.
LEMMA RepliedIsOK ==
  ASSUME FTypeOK, NEW r \in CallReplies \ {"ok"}
  PROVE  CallOK([IdleCall EXCEPT !.reply = r])
<1> DEFINE x == [IdleCall EXCEPT !.reply = r]
<1>1. x \in Call /\ x.pc = "idle" /\ x.hash = 0 /\ x.reply = r
    BY DEF IdleCall, Call, CallReplies
<1>2. now \in Nat
    BY ClockAssumption DEF FTypeOK
<1> HIDE DEF x
<1>3. CallOK(x)
    BY <1>1, <1>2 DEF CallOK
<1> QED BY <1>3 DEF x

\* A step of call c that writes no row and no rule: its new frame has to
\* satisfy the invariant, the other frames do.
LEMMA CallStepKeepsInv ==
  ASSUME FTypeOK, OrderInv, DraftInv', UNCHANGED <<row, now, rules, unruled>>,
         NEW c \in Calls, NEW x, CallMoves(c, x), CallOK(x)
  PROVE  OrderInv'
<1>1. RulesAgree'
    BY OrderInvParts DEF RulesAgree, RulePresent
<1>2. \A e \in Calls : CallOK(fin'[e])
    BY OrderInvParts DEF CallMoves, CallOK
<1>3. \A e \in Calls : CallOK(fin[e])'
    BY <1>2 DEF CallOK, RulePresent
<1>4. fin' \in [Calls -> Call]
    BY OrderInvParts DEF CallMoves, CallOK
<1> QED BY <1>1, <1>3, <1>4, OrderInvPartsNext

\* The drafts are not touched.
LEMMA DraftsStay ==
  ASSUME OrderInv, UNCHANGED <<draft, verdict, runs>>
  PROVE  DraftInv'
BY DEF OrderInv, OrderType, DraftInv, UndecidedIsUnused, DraftRunsOnce

\* Confirm, reject and the chat command start a call or answer it.
LEMMA FinalizeKeepsInv ==
  ASSUME FTypeOK, OrderInv, NEW c \in Calls,
         \/ \E d \in Drafts, u \in Users \cup {Null}, b \in BOOLEAN : FinalizeConfirm(c, d, u, b)
         \/ \E d \in Drafts : FinalizeReject(c, d)
         \/ \E i \in Intents, u \in Users : ChatCommand(c, i, u)
  PROVE  OrderInv'
<1>0. now \in Nat
    BY ClockAssumption DEF FTypeOK
<1>1. ASSUME NEW i \in Intents, NEW u \in Users
      PROVE  CallOK([IdleCall EXCEPT !.pc = "fetch", !.i = i, !.user = u])
    <2> DEFINE x == [IdleCall EXCEPT !.pc = "fetch", !.i = i, !.user = u]
    <2>1. x \in Call /\ x.pc = "fetch" /\ x.i = i /\ x.user = u /\ x.hash = 0 /\ x.reply = "none"
        BY DEF IdleCall, Call, CallReplies
    <2> HIDE DEF x
    <2>2. CallOK(x)
        BY <1>0, <2>1 DEF CallOK
    <2> QED BY <2>2 DEF x
<1>2. ASSUME NEW d \in Drafts, NEW u \in Users \cup {Null}, NEW b \in BOOLEAN,
             FinalizeConfirm(c, d, u, b)
      PROVE  OrderInv'
    <2>1. DraftInv' /\ UNCHANGED <<row, now, rules, unruled>>
        BY <1>2, ConfirmKeepsDrafts DEF FinalizeConfirm
    <2>2. CASE ConsumeOutcome(d, b) = "ok" /\ u # Null
        <3>1. draft[d].i \in Intents /\ u \in Users
            BY <2>2 DEF ConsumeOutcome, LiveEntry, OrderInv, OrderType
        <3>2. CallMoves(c, [IdleCall EXCEPT !.pc = "fetch", !.i = draft[d].i, !.user = u])
            BY <1>2, <2>2 DEF FinalizeConfirm, CallMoves, IdleCall
        <3> QED BY <1>1, <2>1, <3>1, <3>2, CallStepKeepsInv
    <2>3. CASE ~(ConsumeOutcome(d, b) = "ok" /\ u # Null)
        <3>1. PICK r \in CallReplies \ {"ok"} : CallReply(c, r)
            BY <1>2, <2>3 DEF FinalizeConfirm, ConsumeOutcome, CallReplies
        <3> QED BY <2>1, <3>1, RepliedIsOK, CallStepKeepsInv DEF CallReply, CallMoves
    <2> QED BY <2>2, <2>3
<1>3. ASSUME NEW d \in Drafts, FinalizeReject(c, d)
      PROVE  OrderInv'
    <2>1. DraftInv' /\ UNCHANGED <<row, now, rules, unruled>> /\ CallReply(c, "rejected")
        BY <1>3, RejectKeepsDrafts DEF FinalizeReject
    <2>2. "rejected" \in CallReplies \ {"ok"}
        BY DEF CallReplies
    <2> QED BY <2>1, <2>2, RepliedIsOK, CallStepKeepsInv DEF CallReply, CallMoves
<1>4. ASSUME NEW i \in Intents, NEW u \in Users, ChatCommand(c, i, u)
      PROVE  OrderInv'
    <2>1. DraftInv' /\ UNCHANGED <<row, now, rules, unruled>>
        BY <1>4, DraftsStay DEF ChatCommand
    <2> QED BY <1>1, <1>4, <2>1, CallStepKeepsInv DEF ChatCommand, CallMoves
<1> QED BY <1>2, <1>3, <1>4

\* The snapshot: the call carries the hash of a rule built now.
LEMMA FetchKeepsInv ==
  ASSUME FTypeOK, OrderInv, NEW c \in Calls, BridgeFetch(c)
  PROVE  OrderInv'
<1>0. now \in Nat /\ fin[c] \in Call /\ CallOK(fin[c]) /\ fin[c].pc = "fetch"
    BY ClockAssumption, OrderInvParts DEF FTypeOK, BridgeFetch
<1>1. DraftInv' /\ UNCHANGED <<row, now, rules, unruled>>
    BY DraftsStay DEF BridgeFetch
<1> DEFINE x == [fin[c] EXCEPT !.pc = "rule", !.hash = now]
<1>2. /\ x \in Call /\ x.pc = "rule" /\ x.i = fin[c].i /\ x.user = fin[c].user
      /\ x.hash = now /\ x.reply = fin[c].reply
    BY <1>0 DEF Call
<1>3. fin' = [fin EXCEPT ![c] = x] \/ CallReply(c, "bridge_failed")
    BY DEF BridgeFetch
<1> HIDE DEF x
<1>4. CallOK(x)
    BY <1>0, <1>2 DEF CallOK
<1>5. CASE CallReply(c, "bridge_failed")
    <2>1. "bridge_failed" \in CallReplies \ {"ok"}
        BY DEF CallReplies
    <2> QED BY <1>1, <1>5, <2>1, RepliedIsOK, CallStepKeepsInv DEF CallReply, CallMoves
<1>6. CASE fin' = [fin EXCEPT ![c] = x]
    BY <1>1, <1>4, <1>6, CallStepKeepsInv DEF CallMoves
<1> QED BY <1>3, <1>5, <1>6

\* A rule is stored where there was none, or a failed insert is remembered:
\* what was known of rows and calls stays true.
LEMMA RuleStepKeepsRows ==
  ASSUME FTypeOK, OrderInv, UNCHANGED <<row, now>>, NEW i \in Intents,
         \/ unruled' = unruled /\ \E h \in 0 .. now, e \in Nat : RuleInsert(i, h, e)
         \/ rules' = rules /\ unruled' \in {unruled, unruled \cup {i}}
  PROVE  RulesAgree' /\ \A x \in Call : CallOK(x) => CallOK(x)'
<1>0. RulesAgree /\ now \in Nat
    BY OrderInvParts, ClockAssumption DEF FTypeOK
<1>1. CASE unruled' = unruled /\ \E h \in 0 .. now, e \in Nat : RuleInsert(i, h, e)
    <2>1. PICK h \in 0 .. now, e \in Nat : RuleInsert(i, h, e)
        BY <1>1
    <2>2. /\ rules' \in [Rules -> RuleRow]
          /\ rules'[i].status = "active" /\ rules'[i].hash = h
          /\ \A j \in Rules \ {i} : rules'[j] = rules[j]
        BY <1>0, <2>1, RuleInserted, OrderRulesAreIntents DEF RulesAgree
    <2>3. rules[i].status = "absent"
        BY <2>1 DEF RuleInsert, RulePresent
    <2>4. RulesAgree'
        BY <1>0, <1>1, <2>2, <2>3, OrderRulesAreIntents DEF RulesAgree, RulePresent
    <2>5. ASSUME NEW x \in Call, CallOK(x) PROVE CallOK(x)'
        BY <1>1, <2>2, <2>3, <2>5, OrderRulesAreIntents DEF CallOK, RulePresent
    <2> QED BY <2>4, <2>5
<1>2. CASE rules' = rules /\ unruled' \in {unruled, unruled \cup {i}}
    BY <1>0, <1>2 DEF RulesAgree, CallOK, RulePresent
<1> QED BY <1>1, <1>2

\* persist_rule_idempotent: the call goes on with the hash of the stored rule,
\* or the order is one whose rule insert failed.
LEMMA PersistRuleKeepsInv ==
  ASSUME FTypeOK, OrderInv, NEW c \in Calls, BridgePersistRule(c)
  PROVE  OrderInv'
<1> DEFINE i == fin[c].i
           x(h) == [fin[c] EXCEPT !.pc = "intent", !.hash = h]
<1>0. now \in Nat /\ fin[c] \in Call /\ CallOK(fin[c]) /\ fin[c].pc = "rule" /\ RulesAgree
    BY ClockAssumption, OrderInvParts DEF FTypeOK, BridgePersistRule
<1>1. /\ i \in Intents /\ fin[c].user \in Users /\ fin[c].reply = "none"
      /\ fin[c].hash \in 0 .. now
    BY <1>0 DEF CallOK, Call
<1>2. DraftInv' /\ UNCHANGED <<row, now>>
    BY DraftsStay DEF BridgePersistRule
<1>3. PICK h \in 0 .. now :
        /\ fin' = [fin EXCEPT ![c] = x(h)]
        /\ \/ RuleInsert(i, h, h + RuleWindow) /\ unruled' = unruled
           \/ RulePresent(i) /\ rules[i].hash = h /\ UNCHANGED <<rules, unruled>>
           \/ unruled' = unruled \cup {i} /\ UNCHANGED rules
    <2>1. rules[i].hash \in 0 .. now
        BY <1>0, <1>1, OrderRulesAreIntents DEF RulesAgree, RuleRow
    <2> QED BY <1>1, <2>1 DEF BridgePersistRule, CollisionHash
<1>4. /\ x(h) \in Call /\ x(h).pc = "intent" /\ x(h).i = i /\ x(h).user = fin[c].user
      /\ x(h).hash = h /\ x(h).reply = fin[c].reply
    <2>1. fin[c] \in Call /\ h \in Nat
        BY <1>0
    <2> QED BY <2>1 DEF Call
<1>5. h + RuleWindow \in Nat
    BY TtlAssumption
<1>6. RulesAgree' /\ \A z \in Call : CallOK(z) => CallOK(z)'
    BY <1>1, <1>2, <1>3, <1>5, RuleStepKeepsRows
<1> DEFINE y == x(h)
<1>7. /\ y \in Call /\ y.pc = "intent" /\ y.i = i /\ y.user = fin[c].user
      /\ y.hash = h /\ y.reply = "none" /\ fin' = [fin EXCEPT ![c] = y]
    BY <1>1, <1>3, <1>4
<1> HIDE DEF y, x
<1>8. i \notin unruled' => rules'[i].status # "absent" /\ rules'[i].hash = h
    <2>1. CASE RuleInsert(i, h, h + RuleWindow)
        BY <1>0, <1>1, <1>5, <2>1, RuleInserted, OrderRulesAreIntents DEF RulesAgree
    <2>2. CASE ~RuleInsert(i, h, h + RuleWindow)
        BY <1>3, <2>2 DEF RulePresent
    <2> QED BY <2>1, <2>2
<1>9. CallOK(fin[c])'
    <2>1. fin'[c] = y
        BY <1>7, OrderInvParts
    <2> QED BY <1>0, <1>1, <1>2, <1>7, <1>8, <2>1 DEF CallOK, RulePresent
<1>10. ASSUME NEW e \in Calls, e # c PROVE CallOK(fin[e])'
    <2>1. fin'[e] = fin[e] /\ fin[e] \in Call /\ CallOK(fin[e])
        BY <1>7, <1>10, OrderInvParts
    <2> QED BY <1>6, <2>1 DEF CallOK
<1>11. fin' \in [Calls -> Call]
    BY <1>7, OrderInvParts
<1> QED BY <1>2, <1>6, <1>9, <1>10, <1>11, OrderInvPartsNext

\* The intent row is written with the hash of the stored rule, or the row that
\* is there has it already.
LEMMA PersistIntentKeepsInv ==
  ASSUME FTypeOK, OrderInv, NEW c \in Calls, BridgePersistIntent(c)
  PROVE  OrderInv'
<1> DEFINE i == fin[c].i
           x == [fin[c] EXCEPT !.pc = "idle", !.reply = "ok"]
<1>0. now \in Nat /\ fin[c] \in Call /\ CallOK(fin[c]) /\ fin[c].pc = "intent" /\ RulesAgree
    BY ClockAssumption, OrderInvParts DEF FTypeOK, BridgePersistIntent
<1>1. i \in Intents /\ fin[c].user \in Users /\ fin[c].hash \in 0 .. now
    BY <1>0 DEF CallOK, Call
<1>2. DraftInv' /\ UNCHANGED <<now, rules, unruled>>
    BY DraftsStay DEF BridgePersistIntent
<1>3. x \in Call /\ x.pc = "idle" /\ x.i = i /\ x.hash = fin[c].hash /\ x.reply = "ok"
    BY <1>0 DEF Call, CallReplies
<1>4. \/ Insert(i, fin[c].user, fin[c].hash, now) /\ fin' = [fin EXCEPT ![c] = x]
      \/ ~IsAbsent(row[i]) /\ fin' = [fin EXCEPT ![c] = x] /\ UNCHANGED row
      \/ CallReply(c, "bridge_failed") /\ UNCHANGED row
    BY DEF BridgePersistIntent, Answer
<1> HIDE DEF x
<1>5. CASE Insert(i, fin[c].user, fin[c].hash, now) /\ fin' = [fin EXCEPT ![c] = x]
    <2>1. /\ row[i].status = "absent" /\ row'[i].status = "funding_required"
          /\ row'[i].hash = fin[c].hash
          /\ \A j \in Intents \ {i} : row'[j] = row[j]
        BY <1>1, <1>5 DEF Insert, IsAbsent, FTypeOK
    <2>2. i \notin unruled => RulePresent(i) /\ rules[i].hash = fin[c].hash
        BY <1>0 DEF CallOK
    <2>3. RulesAgree'
        BY <1>0, <1>2, <2>1, <2>2 DEF RulesAgree, RulePresent, IsAbsent
    <2>4. CallOK(fin[c])'
        <3>1. fin'[c] = x
            BY <1>5, OrderInvParts
        <3> QED BY <1>0, <1>1, <1>2, <1>3, <2>1, <3>1 DEF CallOK, IsAbsent
    <2>5. ASSUME NEW e \in Calls, e # c PROVE CallOK(fin[e])'
        <3>1. fin'[e] = fin[e] /\ fin[e] \in Call /\ CallOK(fin[e])
            BY <1>5, <2>5, OrderInvParts
        <3> QED BY <1>2, <2>1, <3>1 DEF CallOK, IsAbsent, RulePresent
    <2>6. fin' \in [Calls -> Call]
        BY <1>3, <1>5, OrderInvParts
    <2> QED BY <1>2, <2>3, <2>4, <2>5, <2>6, OrderInvPartsNext
<1>6. CASE ~IsAbsent(row[i]) /\ fin' = [fin EXCEPT ![c] = x] /\ UNCHANGED row
    <2>1. i \notin unruled => fin[c].hash = row[i].hash
        BY <1>0, <1>1, <1>6 DEF CallOK, RulesAgree
    <2>2. CallOK(x)
        BY <1>0, <1>1, <1>3, <1>6, <2>1 DEF CallOK
    <2> QED BY <1>2, <1>6, <2>2, CallStepKeepsInv DEF CallMoves
<1>7. CASE CallReply(c, "bridge_failed") /\ UNCHANGED row
    <2>1. "bridge_failed" \in CallReplies \ {"ok"}
        BY DEF CallReplies
    <2> QED BY <1>2, <1>7, <2>1, RepliedIsOK, CallStepKeepsInv DEF CallReply, CallMoves
<1> QED BY <1>4, <1>5, <1>6, <1>7

\* A draft is stored under an id that was never used.
LEMMA DraftInsertKeepsInv ==
  ASSUME FTypeOK, OrderInv, NEW d \in Drafts, NEW i \in Intents, DraftInsert(d, i)
  PROVE  OrderInv'
<1> DEFINE y == [entry |-> "active", i |-> i, expires |-> now + DraftTtl]
<1>1. y \in DraftSlot /\ y.entry = "active" /\ y.i = i
    BY TtlAssumption, ClockAssumption DEF DraftSlot, FTypeOK
<1>2. /\ draft' = [draft EXCEPT ![d] = y] /\ draft[d].entry = "unused"
      /\ UNCHANGED <<row, now, rules, fin, verdict, runs, unruled>>
    BY DEF DraftInsert
<1> HIDE DEF y
<1>3. DraftInv'
    BY <1>1, <1>2 DEF DraftInv, OrderInv, OrderType, UndecidedIsUnused, DraftRunsOnce
<1>4. RulesAgree' /\ fin' \in [Calls -> Call] /\ \A c \in Calls : CallOK(fin[c])'
    BY <1>2, OrderInvParts DEF RulesAgree, CallOK, RulePresent
<1> QED BY <1>3, <1>4, OrderInvPartsNext

\* A restart forgets drafts and calls; nothing that was decided is undone.
LEMMA OrderRestartKeepsInv ==
  ASSUME FTypeOK, OrderInv, OrderRestart
  PROVE  OrderInv'
<1>0. NoEntry \in DraftSlot /\ NoEntry.entry = "none"
    BY DEF NoEntry, DraftSlot
<1>1. DraftInv'
    BY <1>0 DEF OrderRestart, DraftInv, OrderInv, OrderType, UndecidedIsUnused, DraftRunsOnce
<1>2. CallOK(IdleCall) /\ IdleCall \in Call
    <2>1. /\ IdleCall \in Call /\ IdleCall.pc = "idle" /\ IdleCall.hash = 0
          /\ IdleCall.reply = "none"
        BY DEF IdleCall, Call, CallReplies
    <2>2. now \in Nat
        BY ClockAssumption DEF FTypeOK
    <2> QED BY <2>1, <2>2 DEF CallOK
<1>3. RulesAgree' /\ fin' \in [Calls -> Call]
    BY <1>2, OrderInvParts DEF OrderRestart, RulesAgree, RulePresent
<1>4. \A c \in Calls : CallOK(fin[c])'
    BY <1>2 DEF OrderRestart, CallOK, RulePresent
<1> QED BY <1>1, <1>3, <1>4, OrderInvPartsNext

\* The demo command stores a rule where there is none.
LEMMA DemoKeepsInv ==
  ASSUME FTypeOK, OrderInv, NEW i \in Intents, DemoCommand(i)
  PROVE  OrderInv'
<1>1. now \in 0 .. now /\ now + RuleWindow \in Nat
    BY ClockAssumption, TtlAssumption DEF FTypeOK
<1>2. UNCHANGED <<row, now, draft, fin, verdict, runs, unruled>>
    BY DEF DemoCommand
<1>3. RulesAgree' /\ \A x \in Call : CallOK(x) => CallOK(x)'
    BY <1>1, <1>2, RuleStepKeepsRows DEF DemoCommand
<1>4. DraftInv'
    BY <1>2, DraftsStay
<1>5. ASSUME NEW c \in Calls PROVE CallOK(fin[c])'
    <2>1. fin'[c] = fin[c] /\ fin[c] \in Call /\ CallOK(fin[c])
        BY <1>2, OrderInvParts
    <2> QED BY <1>3, <2>1 DEF CallOK
<1> QED BY <1>2, <1>3, <1>4, <1>5, OrderInvParts, OrderInvPartsNext

\* Every step of the order side keeps the invariant.
LEMMA OrderNextKeepsInv ==
  ASSUME FTypeOK, OrderInv, OrderNext
  PROVE  OrderInv'
BY DraftInsertKeepsInv, FinalizeKeepsInv, FetchKeepsInv, PersistRuleKeepsInv,
   PersistIntentKeepsInv, OrderRestartKeepsInv DEF OrderNext

\* The bridge uses the repository as W5hFunding describes it: it inserts rows
\* with the hash of a rule built at a slot that has been reached.
LEMMA OrderUsesRepository ==
  ASSUME FTypeOK, OrderInv, OrderNext
  PROVE  /\ UNCHANGED now
         /\ \/ UNCHANGED row
            \/ \E i \in Intents, u \in Users, h \in 0 .. now, t \in 0 .. now : Insert(i, u, h, t)
<1>1. CASE \E c \in Calls : BridgePersistIntent(c)
    <2>1. PICK c \in Calls : BridgePersistIntent(c)
        BY <1>1
    <2>2. fin[c] \in Call /\ CallOK(fin[c]) /\ fin[c].pc = "intent" /\ now \in 0 .. now
        BY <2>1, OrderInvParts, ClockAssumption DEF FTypeOK, BridgePersistIntent
    <2>3. fin[c].i \in Intents /\ fin[c].user \in Users /\ fin[c].hash \in 0 .. now
        BY <2>2 DEF CallOK, Call
    <2> QED BY <2>1, <2>2, <2>3 DEF BridgePersistIntent
<1>2. CASE ~\E c \in Calls : BridgePersistIntent(c)
    BY <1>2 DEF OrderNext, DraftInsert, FinalizeConfirm, FinalizeReject, ChatCommand, BridgeFetch,
           BridgePersistRule, OrderRestart
<1> QED BY <1>1, <1>2

---------------------------------------------------------------------------
(* The specification.                                                      *)

OInv == FInv /\ OrderInv

\* Every initial state satisfies the invariant.
LEMMA OrderInitInv == OInit => OInv
<1> SUFFICES ASSUME OInit PROVE OInv
    OBVIOUS
<1>1. FInv /\ now = 0 /\ \A i \in Intents : row[i].status = "absent"
    BY FInitInv DEF OInit, FInit, AbsentRow
<1>2. rules \in [Rules -> RuleRow] /\ \A i \in Rules : rules[i].hash = 0
    BY DEF OInit, RulesInit, AbsentRule, RuleRow, RuleStatus
<1>3. RulesAgree
    BY <1>1, <1>2, OrderRulesAreIntents DEF RulesAgree, IsAbsent
<1>4. DraftInv
    <2> DEFINE y == [NoEntry EXCEPT !.entry = "unused"]
    <2>1. y \in DraftSlot /\ y.entry = "unused"
        BY DEF NoEntry, DraftSlot
    <2>2. /\ draft = [d \in Drafts |-> y] /\ verdict = [d \in Drafts |-> "none"]
          /\ runs = [d \in Drafts |-> 0]
        BY DEF OInit, OrderInit
    <2> HIDE DEF y
    <2>3. draft \in [Drafts -> DraftSlot] /\ verdict \in [Drafts -> Verdicts] /\ runs \in [Drafts -> Nat]
        BY <2>1, <2>2 DEF Verdicts
    <2>4. \A d \in Drafts : draft[d].entry = "unused" /\ verdict[d] = "none" /\ runs[d] = 0
        BY <2>1, <2>2
    <2> QED BY <2>3, <2>4 DEF DraftInv, UndecidedIsUnused, DraftRunsOnce
<1>5. /\ IdleCall \in Call /\ IdleCall.pc = "idle" /\ IdleCall.hash = 0
      /\ IdleCall.reply = "none"
    BY DEF IdleCall, Call, CallReplies
<1>6. fin \in [Calls -> Call] /\ \A c \in Calls : CallOK(fin[c])
    BY <1>1, <1>5 DEF OInit, OrderInit, CallOK
<1> QED BY <1>1, <1>3, <1>4, <1>6, OrderInvParts DEF OInv

\* Every step is a repository step.
LEMMA OrderStepsRepository ==
  ASSUME OInv, [ONext]_orderVars
  PROVE  [FNext]_fundingVars
<1>1. CASE OrderNext
    <2>1. /\ UNCHANGED now
          /\ \/ UNCHANGED row
             \/ \E i \in Intents, u \in Users, h \in 0 .. now, t \in 0 .. now : Insert(i, u, h, t)
        BY <1>1, OrderUsesRepository DEF OInv, FInv
    <2> QED BY <2>1 DEF FNext, RepoStep, fundingVars
<1>2. CASE \E i \in Intents : DemoCommand(i)
    BY <1>2 DEF DemoCommand, fundingVars
<1>3. CASE Tick
    BY <1>3 DEF FNext
<1>4. CASE UNCHANGED orderVars
    BY <1>4 DEF orderVars, fundingVars
<1> QED BY <1>1, <1>2, <1>3, <1>4 DEF ONext

\* The invariant is inductive.
LEMMA OrderNextInv == OInv /\ [ONext]_orderVars => OInv'
<1> SUFFICES ASSUME OInv, [ONext]_orderVars PROVE OInv'
    OBVIOUS
<1>0. FInv'
    BY OrderStepsRepository, FNextInv DEF OInv
<1>1. CASE OrderNext
    BY <1>0, <1>1, OrderNextKeepsInv DEF OInv, FInv
<1>2. CASE \E i \in Intents : DemoCommand(i)
    BY <1>0, <1>2, DemoKeepsInv DEF OInv, FInv
<1>3. CASE (Tick /\ UNCHANGED <<rules, draft, fin, verdict, runs, unruled>>) \/ UNCHANGED orderVars
    <2>1. /\ UNCHANGED <<row, rules, draft, fin, verdict, runs, unruled>>
          /\ now' \in Nat /\ now' >= now
        BY <1>3, ClockAssumption DEF Tick, orderVars, OInv, FInv, FTypeOK
    <2>2. rules' \in [Rules -> RuleRow] /\ \A i \in Intents : KeepsHash(row[i], row'[i]) /\ KeepsRule(i)
        BY <2>1 DEF KeepsHash, KeepsRule, OInv, OrderInv, OrderType
    <2> QED BY <1>0, <2>1, <2>2, OthersKeepOrderInv DEF OInv, FInv
<1> QED BY <1>1, <1>2, <1>3 DEF ONext

\* However confirms and rejects race, retry or come late, a draft's order enters
\* the bridge at most once, and never after it was rejected.
THEOREM OrderDraftRunsOnce == OSpec => []DraftRunsOnce
<1>1. OInv => DraftRunsOnce
    BY DEF OInv, OrderInv
<1> QED BY <1>1, OrderInitInv, OrderNextInv, PTL DEF OSpec

\* Row, rule and answer name the same canonical hash, except for an order whose
\* rule insert failed.
THEOREM OrderHashesAgree == OSpec => []HashesAgree
<1>1. OInv => HashesAgree
    BY DEF OInv, OrderInv
<1> QED BY <1>1, OrderInitInv, OrderNextInv, PTL DEF OSpec

---------------------------------------------------------------------------
(* The loop.  Its invariant is the conjunction of the components'          *)
(* invariants.  Each component keeps its own by its own lemmas; that it    *)
(* keeps the others' follows from the few things it may do to a row.       *)

LoopInv == FInv /\ ConfirmInv /\ OrderInv /\ ExecInv /\ DepositIsFunded

\* The clock, for the comparisons below.
LEMMA ClockIsNat == FTypeOK => now \in Nat
BY ClockAssumption DEF FTypeOK

---------------------------------------------------------------------------
(* What each component does to the rows.                                   *)

\* The rows stay, or one row is created, judged, executed or refunded.
Created == \E i \in Intents, u \in Users, h \in 0 .. now, t \in 0 .. now : Insert(i, u, h, t)
Judged == \E i \in Intents : FundingStep(i)
Executed == \E i \in Intents : ExecutionStep(i)
Refunded == \E i \in Intents : RefundStep(i)

\* What the verifier, the bridge and the executors rely on.
VerdictsKept == \A i \in Intents : KeepsVerdict(row[i], row'[i])
HashesKept == \A i \in Intents : KeepsHash(row[i], row'[i])
LeasesKept == \A i \in Intents : KeepsLease(row[i], row'[i])

\* Each kind of step is a repository step and disturbs at most the component
\* that takes it.
LEMMA RowEffects ==
  ASSUME FTypeOK
  PROVE  /\ UNCHANGED row => VerdictsKept /\ HashesKept /\ LeasesKept
         /\ Created => VerdictsKept /\ LeasesKept
         /\ Judged => HashesKept /\ LeasesKept
         /\ Executed => VerdictsKept /\ HashesKept
         /\ Refunded => VerdictsKept /\ HashesKept /\ LeasesKept
         /\ (UNCHANGED row \/ Created \/ Judged \/ Executed \/ Refunded) /\ UNCHANGED now
              => [FNext]_fundingVars
<1> USE DEF VerdictsKept, HashesKept, LeasesKept
<1>1. UNCHANGED row => VerdictsKept /\ HashesKept /\ LeasesKept
    BY DEF KeepsVerdict, KeepsHash, KeepsLease
<1>2. ASSUME NEW i \in Intents, RepoStep(i)
      PROVE  /\ KeepsVerdict(row[i], row'[i]) => VerdictsKept
             /\ KeepsHash(row[i], row'[i]) => HashesKept
             /\ KeepsLease(row[i], row'[i]) => LeasesKept
    <2>1. \A j \in Intents \ {i} : row'[j] = row[j]
        BY <1>2, RepoStepTypes DEF RowChange
    <2> QED BY <2>1 DEF KeepsVerdict, KeepsHash, KeepsLease
<1>3. ASSUME Created PROVE VerdictsKept /\ LeasesKept
    <2>1. PICK i \in Intents : \E u \in Users, h \in 0 .. now, t \in 0 .. now : Insert(i, u, h, t)
        BY <1>3 DEF Created
    <2>2. RepoStep(i) /\ OtherStep(i)
        BY <2>1 DEF RepoStep, OtherStep
    <2> QED BY <1>2, <2>1, <2>2, OtherStepKeepsVerdict, OthersKeepLease
<1>4. ASSUME Judged PROVE HashesKept /\ LeasesKept
    <2>1. PICK i \in Intents : FundingStep(i)
        BY <1>4 DEF Judged
    <2>2. RepoStep(i)
        BY <2>1 DEF RepoStep
    <2> QED BY <1>2, <2>1, <2>2, OnlyInsertWritesHash, OthersKeepLease
<1>5. ASSUME Executed PROVE VerdictsKept /\ HashesKept
    <2>1. PICK i \in Intents : ExecutionStep(i)
        BY <1>5 DEF Executed
    <2>2. RepoStep(i) /\ OtherStep(i)
        BY <2>1 DEF RepoStep, OtherStep
    <2> QED BY <1>2, <2>1, <2>2, OtherStepKeepsVerdict, OnlyInsertWritesHash
<1>6. ASSUME Refunded PROVE VerdictsKept /\ HashesKept /\ LeasesKept
    <2>1. PICK i \in Intents : RefundStep(i)
        BY <1>6 DEF Refunded
    <2>2. RepoStep(i) /\ OtherStep(i)
        BY <2>1 DEF RepoStep, OtherStep
    <2> QED BY <1>2, <2>1, <2>2, OtherStepKeepsVerdict, OnlyInsertWritesHash, OthersKeepLease
<1>7. ASSUME UNCHANGED row \/ Created \/ Judged \/ Executed \/ Refunded, UNCHANGED now
      PROVE  [FNext]_fundingVars
    BY <1>7 DEF Created, Judged, Executed, Refunded, FNext, RepoStep, fundingVars
<1> QED BY <1>1, <1>3, <1>4, <1>5, <1>6, <1>7

---------------------------------------------------------------------------
(* What the components do to the rules and to the deposits.                *)

\* No rule is completed by this step, and the rules stay well formed.
NoRuleCompletes ==
  /\ rules' \in [Rules -> RuleRow]
  /\ \A i \in Intents : rules'[i].status = "completed" => rules[i].status = "completed"

\* The bridge and the demo command only store active rules.
LEMMA OrderCompletesNoRule ==
  ASSUME FTypeOK, OrderInv, OrderNext \/ \E i \in Intents : DemoCommand(i)
  PROVE  NoRuleCompletes
<1>1. rules \in [Rules -> RuleRow]
    BY DEF OrderInv, OrderType
<1>2. ASSUME NEW i \in Intents, NEW h \in Nat, RuleInsert(i, h, h + RuleWindow)
      PROVE  NoRuleCompletes
    <2>1. h + RuleWindow \in Nat /\ i \in Rules
        BY TtlAssumption, OrderRulesAreIntents
    <2>2. /\ rules' \in [Rules -> RuleRow] /\ rules'[i].status = "active"
          /\ \A j \in Rules \ {i} : rules'[j] = rules[j]
        BY <1>1, <1>2, <2>1, RuleInserted
    <2> QED BY <2>2, OrderRulesAreIntents DEF NoRuleCompletes
<1>3. ASSUME UNCHANGED rules PROVE NoRuleCompletes
    BY <1>1, <1>3 DEF NoRuleCompletes
<1>4. ASSUME NEW c \in Calls, BridgePersistRule(c) PROVE NoRuleCompletes
    <2>1. fin[c].i \in Intents /\ fin[c].hash \in Nat
        BY <1>4 DEF OrderInv, OrderType, BridgePersistRule, Call
    <2> QED BY <1>2, <1>3, <1>4, <2>1 DEF BridgePersistRule
<1>5. ASSUME NEW i \in Intents, DemoCommand(i) PROVE NoRuleCompletes
    BY <1>2, <1>5, ClockIsNat DEF DemoCommand
<1> QED BY <1>3, <1>4, <1>5 DEF OrderNext, DraftInsert, FinalizeConfirm, FinalizeReject,
           ChatCommand, BridgeFetch, BridgePersistIntent, OrderRestart

\* An executor completes rules, and changes no hash.
LEMMA ExecuteKeepsRules ==
  ASSUME ExecInv, ExecuteNext
  PROVE  rules' \in [Rules -> RuleRow] /\ \A i \in Intents : KeepsRule(i)
<1>1. rules \in [Rules -> RuleRow]
    BY DEF ExecInv, ExecType
<1>2. ASSUME UNCHANGED rules
      PROVE  rules' \in [Rules -> RuleRow] /\ \A i \in Intents : KeepsRule(i)
    BY <1>1, <1>2 DEF KeepsRule
<1>3. ASSUME NEW p \in Executors, ExecMarkRule(p)
      PROVE  rules' \in [Rules -> RuleRow] /\ \A i \in Intents : KeepsRule(i)
    <2>1. exe[p].i \in Intents
        BY <1>3 DEF ExecMarkRule, ExecInv, FrameOK, OffPcs
    <2>2. CASE MarkRuleCompleted(exe[p].i)
        BY <1>1, <2>1, <2>2, RuleCompletion, RulesAreIntents DEF KeepsRule
    <2> QED BY <1>2, <1>3, <2>2 DEF ExecMarkRule
<1>4. ASSUME NEW p \in Executors, ExecuteStep(p), ~ExecMarkRule(p) PROVE UNCHANGED rules
    BY <1>4 DEF ExecuteStep, ExecLookup, ExecApy, ExecBudget, ExecLease, ExecPrecheckError,
                ExecBuild, ExecSend, ExecPoll, ExecMarkIntent, ExecRelease, ExecMarkFailed
<1>5. Watcher \in Executors /\ Manuals \subseteq Executors
    BY DEF Executors
<1> QED BY <1>2, <1>3, <1>4, <1>5 DEF ExecuteNext, WatcherStep, WatcherList, WatcherFetch,
           WatcherScan, ManualBegin, ExecCrash

\* A deposit gets a new sender only from an executor whose row is executing.
NewSendersHold ==
  \A x \in ExecSigs, i \in Intents : i \in dep'[x].for =>
    i \in dep[x].for \/ row[i].status = "executing"

\* sendTransaction is the only step that adds a sender.
LEMMA ExecuteSends ==
  ASSUME ExecInv, ExecuteNext
  PROVE  NewSendersHold
<1>0. dep \in [ExecSigs -> Dep]
    BY DEF ExecInv, ExecType
<1>1. ASSUME UNCHANGED dep PROVE NewSendersHold
    BY <1>1 DEF NewSendersHold
<1>2. ASSUME NEW p \in Executors, ExecSend(p) PROVE NewSendersHold
    <2>1. row[exe[p].i].status = "executing"
        BY <1>2 DEF ExecSend, ExecInv, FrameOK, HoldPcs
    <2>2. CASE \E x \in ExecSigs :
                 dep' = [dep EXCEPT ![x] = [chain |-> "inflight", amount |-> Amount[exe[p].i],
                                            for |-> @.for \cup {exe[p].i}]]
        BY <1>0, <2>1, <2>2 DEF NewSendersHold
    <2> QED BY <1>1, <1>2, <2>2 DEF ExecSend
<1>3. ASSUME NEW p \in Executors, ExecuteStep(p), ~ExecSend(p) PROVE UNCHANGED dep
    BY <1>3 DEF ExecuteStep, ExecLookup, ExecApy, ExecBudget, ExecLease, ExecPrecheckError,
                ExecBuild, ExecPoll, ExecMarkRule, ExecMarkIntent, ExecRelease, ExecMarkFailed,
                marketVars
<1>4. ASSUME NEW x \in ExecSigs, DepositStep(x) PROVE NewSendersHold
    <2>1. DepositsAge
        BY <1>4, DepositAges DEF ExecInv
    <2> QED BY <2>1 DEF DepositsAge, NewSendersHold
<1>5. Watcher \in Executors /\ Manuals \subseteq Executors
    BY DEF Executors
<1> QED BY <1>1, <1>2, <1>3, <1>4, <1>5 DEF ExecuteNext, WatcherStep, WatcherList, WatcherFetch,
           WatcherScan, ManualBegin, ExecCrash, marketVars

---------------------------------------------------------------------------
(* The invariant.                                                          *)

\* Memo and amount of a funding transaction are what they are, and the blocks
\* that held it are not forgotten.
TransfersStand ==
  \A s \in FundingSigs : /\ ftx'[s].memos = ftx[s].memos /\ ftx'[s].delta = ftx[s].delta
                         /\ ftx[s].blocks \subseteq ftx'[s].blocks

\* A deposit keeps its funding: the row is bound to its signature for good,
\* the transaction stands, and a new sender's row is funded.
LEMMA FundingSurvives ==
  ASSUME FInv, FundedIsVerified, DepositIsFunded, ExecType, dep' \in [ExecSigs -> Dep],
         [FNext]_fundingVars, TransfersStand, NewSendersHold
  PROVE  DepositIsFunded'
<1> SUFFICES ASSUME NEW x \in ExecSigs, NEW i \in dep'[x].for
             PROVE  /\ row'[i].fundingSig \in FundingSigs
                    /\ i \in ftx'[row'[i].fundingSig].memos
                    /\ ftx'[row'[i].fundingSig].delta = Amount[i]
                    /\ "confirmed" \in ftx'[row'[i].fundingSig].blocks
    BY DEF DepositIsFunded, Pays
<1>1. i \in Intents
    BY DEF Dep
<1>2. LET s == row[i].fundingSig IN
        s \in FundingSigs /\ i \in ftx[s].memos /\ ftx[s].delta = Amount[i]
        /\ "confirmed" \in ftx[s].blocks
    <2>1. CASE i \in dep[x].for
        BY <2>1 DEF DepositIsFunded, Pays
    <2>2. CASE row[i].status = "executing"
        BY <1>1, <2>2 DEF FundedIsVerified, Funded, Pays
    <2> QED BY <1>1, <2>1, <2>2 DEF NewSendersHold
<1>3. row[i].fundingSig # Null
    BY <1>2, NullAssumption, FundingSigsAssumption
<1>4. row'[i].fundingSig = row[i].fundingSig
    BY <1>1, <1>3, FNextRowStep DEF RowStep
<1> QED BY <1>2, <1>4 DEF TransfersStand

\* Every initial state satisfies the invariant.
LEMMA LoopInitInv == LoopInit => LoopInv
<1> SUFFICES ASSUME LoopInit PROVE LoopInv
    OBVIOUS
<1>1. FInv /\ OrderInv
    BY OrderInitInv DEF LoopInit, OInv
<1>2. ConfirmInv
    BY CInitInv DEF LoopInit, OInit, CInit, CInv
<1>3. ExecInv
    <2>1. /\ now = 0 /\ rules \in [Rules -> RuleRow]
          /\ \A i \in Intents : rules[i].status # "completed" /\ row[i].status # "completed"
        BY <1>1, OrderRulesAreIntents
        DEF LoopInit, OInit, FInit, RulesInit, OrderInv, OrderType, AbsentRow, AbsentRule
    <2> QED BY <2>1, ExecuteInitInv DEF LoopInit
<1>4. DepositIsFunded
    BY DEF LoopInit, ExecuteInit, DepositIsFunded, Unused
<1> QED BY <1>1, <1>2, <1>3, <1>4 DEF LoopInv

\* A step of the loop is a repository step, and keeps the invariants of the
\* verifier, the bridge and the executors.
LoopStepOK == [FNext]_fundingVars /\ ConfirmInv' /\ OrderInv' /\ ExecInv'
              /\ TransfersStand /\ NewSendersHold

\* Nothing else changes.
LEMMA Unchanged ==
  /\ UNCHANGED ftx => TransfersStand
  /\ UNCHANGED dep => NewSendersHold
BY DEF TransfersStand, NewSendersHold

\* Orders and the demo command.
LEMMA OrderLegOK ==
  ASSUME LoopInv, OrderStep \/ DemoStep
  PROVE  LoopStepOK
<1>0. FTypeOK /\ ConfirmInv /\ OrderInv /\ ExecInv
    BY DEF LoopInv, FInv
<1>1. UNCHANGED <<ftx, conf, exe, batch, dep>>
    BY DEF OrderStep, DemoStep, verifierVars, execVars, marketVars
<1>2. UNCHANGED now /\ (UNCHANGED row \/ Created)
    BY <1>0, OrderUsesRepository DEF OrderStep, DemoStep, DemoCommand, Created
<1>3. VerdictsKept /\ LeasesKept /\ [FNext]_fundingVars
    BY <1>0, <1>2, RowEffects
<1>4. OrderInv'
    BY <1>0, OrderNextKeepsInv, DemoKeepsInv DEF OrderStep, DemoStep
<1>5. NoRuleCompletes
    BY <1>0, OrderCompletesNoRule DEF OrderStep, DemoStep
<1>6. ConfirmInv'
    BY <1>0, <1>1, <1>3, OthersKeepConfirmInv DEF HandlersStay, VerdictsKept
<1>7. ExecInv'
    <2>1. batch' \subseteq Intents /\ now' \in Nat /\ now' >= now
        BY <1>0, <1>1, <1>2, ClockIsNat DEF ExecInv, ExecType
    <2> QED BY <1>0, <1>1, <1>3, <1>5, <2>1, OthersKeepExecInv DEF NoRuleCompletes, LeasesKept
<1> QED BY <1>1, <1>3, <1>4, <1>6, <1>7, Unchanged DEF LoopStepOK

\* A component that leaves bridge and rules alone keeps the bridge's invariant.
LEMMA BridgeStays ==
  ASSUME FTypeOK, OrderInv, UNCHANGED <<bridgeVars, rules>>, HashesKept, now' \in Nat, now' >= now
  PROVE  OrderInv'
<1>1. rules' \in [Rules -> RuleRow] /\ \A i \in Intents : KeepsRule(i)
    BY DEF OrderInv, OrderType, KeepsRule
<1> QED BY <1>1, OthersKeepOrderInv DEF bridgeVars, HashesKept

\* One that leaves executors, rules and deposits alone keeps the executors'.
LEMMA ExecutorsStay ==
  ASSUME FTypeOK, ExecInv, UNCHANGED <<execVars, rules, dep>>, LeasesKept, now' \in Nat, now' >= now
  PROVE  ExecInv'
<1>1. rules' \in [Rules -> RuleRow] /\ batch' \subseteq Intents /\ exe' = exe
    BY DEF ExecInv, ExecType, execVars
<1> QED BY <1>1, OthersKeepExecInv DEF LeasesKept

\* The verifier's handlers.
LEMMA ConfirmLegOK ==
  ASSUME LoopInv, ConfirmStep
  PROVE  LoopStepOK
<1>0. FTypeOK /\ ConfirmInv /\ OrderInv /\ ExecInv
    BY DEF LoopInv, FInv
<1>1. UNCHANGED <<rules, bridgeVars, execVars, dep>>
    BY DEF ConfirmStep, marketVars
<1>2. UNCHANGED <<now, ftx>> /\ (UNCHANGED row \/ Judged)
    BY <1>0, HandlerUsesRepository
    DEF ConfirmStep, ConfirmBegin, ConfirmInv, Judged, HandlerStep, ConfirmSubmit, ConfirmPending,
        ConfirmVerify, ConfirmInvalidate, ConfirmReserve, ConfirmReread, ConfirmAbort
<1>3. HashesKept /\ LeasesKept /\ [FNext]_fundingVars
    BY <1>0, <1>2, RowEffects
<1>4. ConfirmInv'
    BY <1>0, BeginKeepsConfirmInv, HandlerKeepsConfirmInv DEF ConfirmStep
<1>5. now' \in Nat /\ now' >= now
    BY <1>0, <1>2, ClockIsNat
<1>6. OrderInv' /\ ExecInv'
    BY <1>0, <1>1, <1>3, <1>5, BridgeStays, ExecutorsStay
<1> QED BY <1>1, <1>2, <1>3, <1>4, <1>6, Unchanged DEF LoopStepOK

\* The cluster confirms, finalizes or abandons a funding transfer.
LEMMA ChainLegOK ==
  ASSUME LoopInv, NEW s \in FundingSigs, FundingChainStep(s)
  PROVE  LoopStepOK
<1>0. FTypeOK /\ ConfirmInv /\ OrderInv /\ ExecInv
    BY DEF LoopInv, FInv
<1>1. UNCHANGED <<row, now, rules, bridgeVars, conf, execVars, dep>> /\ ChainStep(s)
    BY DEF FundingChainStep
<1>2. HashesKept /\ LeasesKept /\ [FNext]_fundingVars
    BY <1>0, <1>1, RowEffects
<1>3. now' \in Nat /\ now' >= now
    BY <1>0, <1>1, ClockIsNat
<1>4. ConfirmInv'
    BY <1>0, <1>1, ChainKeepsConfirmInv
<1>5. TransfersStand
    BY <1>0, <1>1 DEF ConfirmInv, ConfirmType, ChainStep, FundingTx, ChainStates, TransfersStand
<1>6. OrderInv' /\ ExecInv'
    BY <1>0, <1>1, <1>2, <1>3, BridgeStays, ExecutorsStay
<1> QED BY <1>1, <1>2, <1>4, <1>5, <1>6, Unchanged DEF LoopStepOK

\* The executors, the market and the cluster's decisions on deposits.
LEMMA ExecutionLegOK ==
  ASSUME LoopInv, ExecutionLegStep
  PROVE  LoopStepOK
<1>0. FTypeOK /\ ConfirmInv /\ OrderInv /\ ExecInv
    BY DEF LoopInv, FInv
<1>1. ExecuteNext /\ UNCHANGED <<now, bridgeVars, ftx, conf>>
    BY DEF ExecutionLegStep, verifierVars
<1>2. UNCHANGED row \/ Executed
    BY <1>0, <1>1, ExecuteUsesRepository DEF Executed
<1>3. VerdictsKept /\ HashesKept /\ [FNext]_fundingVars
    BY <1>0, <1>1, <1>2, RowEffects
<1>4. ExecInv'
    BY <1>0, <1>1, ExecuteNextKeepsInv
<1>5. ConfirmInv'
    BY <1>0, <1>1, <1>3, OthersKeepConfirmInv DEF HandlersStay, VerdictsKept
<1>6. OrderInv'
    <2>1. rules' \in [Rules -> RuleRow] /\ \A i \in Intents : KeepsRule(i)
        BY <1>0, <1>1, ExecuteKeepsRules
    <2>2. now' \in Nat /\ now' >= now
        BY <1>0, <1>1, ClockIsNat
    <2> QED BY <1>0, <1>1, <1>3, <2>1, <2>2, OthersKeepOrderInv DEF bridgeVars, HashesKept
<1>7. NewSendersHold
    BY <1>0, <1>1, ExecuteSends
<1> QED BY <1>1, <1>3, <1>4, <1>5, <1>6, <1>7, Unchanged DEF LoopStepOK

\* Refunds, the clock and stuttering.
LEMMA RefundLegOK ==
  ASSUME LoopInv, RefundLegStep \/ ClockStep \/ UNCHANGED loopVars
  PROVE  LoopStepOK
<1>0. FTypeOK /\ ConfirmInv /\ OrderInv /\ ExecInv
    BY DEF LoopInv, FInv
<1>1. UNCHANGED <<rules, bridgeVars, ftx, conf, execVars, dep>>
    BY DEF RefundLegStep, ClockStep, loopVars, verifierVars, marketVars
<1>2. \/ UNCHANGED now /\ (UNCHANGED row \/ Refunded)
      \/ Tick
    BY <1>0, RefundUsesRepository DEF RefundLegStep, ClockStep, loopVars, Refunded
<1>3. UNCHANGED row \/ Refunded
    BY <1>2 DEF Tick
<1>4. VerdictsKept /\ HashesKept /\ LeasesKept /\ [FNext]_fundingVars
    BY <1>0, <1>2, <1>3, RowEffects DEF FNext
<1>5. now' \in Nat /\ now' >= now
    BY <1>0, <1>2, ClockIsNat DEF Tick
<1>6. ConfirmInv'
    BY <1>0, <1>1, <1>4, OthersKeepConfirmInv DEF HandlersStay, VerdictsKept
<1>7. OrderInv' /\ ExecInv'
    BY <1>0, <1>1, <1>4, <1>5, BridgeStays, ExecutorsStay
<1> QED BY <1>1, <1>4, <1>6, <1>7, Unchanged DEF LoopStepOK

\* A restart of the daemon.
LEMMA RestartLegOK ==
  ASSUME LoopInv, DaemonRestart
  PROVE  LoopStepOK
<1>0. FTypeOK /\ ConfirmInv /\ OrderInv /\ ExecInv
    BY DEF LoopInv, FInv
<1>1. /\ OrderRestart /\ UNCHANGED <<row, now, rules, ftx, dep>> /\ batch' = {}
      /\ conf' = [h \in Handlers |-> IdleHandler]
      /\ exe' = [p \in Executors |-> IdleExecutor]
    BY DEF DaemonRestart, OrderRestart, marketVars
<1>2. VerdictsKept /\ LeasesKept /\ [FNext]_fundingVars
    BY <1>0, <1>1, RowEffects
<1>3. OrderInv'
    BY <1>0, <1>1, OrderRestartKeepsInv
<1>4. ConfirmInv'
    BY <1>0, <1>1, <1>2, OthersKeepConfirmInv DEF HandlersStay, VerdictsKept
<1>5. ExecInv'
    <2>1. now' \in Nat /\ now' >= now /\ rules' \in [Rules -> RuleRow] /\ batch' \subseteq Intents
        BY <1>0, <1>1, ClockIsNat DEF ExecInv, ExecType
    <2> QED BY <1>0, <1>1, <1>2, <2>1, OthersKeepExecInv DEF LeasesKept
<1> QED BY <1>1, <1>2, <1>3, <1>4, <1>5, Unchanged DEF LoopStepOK

\* Every step of the loop, all components together.
LEMMA LoopNextOK ==
  ASSUME LoopInv, [LoopNext]_loopVars
  PROVE  LoopStepOK
BY OrderLegOK, ConfirmLegOK, ChainLegOK, ExecutionLegOK, RefundLegOK, RestartLegOK DEF LoopNext

\* The invariant is inductive.
LEMMA LoopNextInv == LoopInv /\ [LoopNext]_loopVars => LoopInv'
<1> SUFFICES ASSUME LoopInv, [LoopNext]_loopVars PROVE LoopInv'
    OBVIOUS
<1>1. LoopStepOK
    BY LoopNextOK
<1>2. FInv'
    BY <1>1, FNextInv DEF LoopInv, LoopStepOK
<1>3. DepositIsFunded'
    BY <1>1, FundingSurvives DEF LoopInv, LoopStepOK, ConfirmInv, ExecInv, ExecType
<1> QED BY <1>1, <1>2, <1>3 DEF LoopInv, LoopStepOK

---------------------------------------------------------------------------
(* The specification.                                                      *)

\* Together the components do nothing to the rows that the repository's
\* theorems do not cover.
THEOREM LoopImplementsRepository == LoopSpec => ImplementsRepository
<1>1. LoopInit => FInit
    BY DEF LoopInit, OInit
<1>2. LoopInv /\ [LoopNext]_loopVars => [FNext]_fundingVars
    BY LoopNextOK DEF LoopStepOK
<1> QED BY <1>1, <1>2, LoopInitInv, LoopNextInv, PTL DEF LoopSpec, ImplementsRepository, FSpec

\* End to end: a deposit is signed for an order only if a transaction of exactly
\* its amount, with its memo, reached the controlled account in a block the
\* cluster confirmed.
THEOREM LoopDepositIsFunded == LoopSpec => []DepositIsFunded
<1>1. LoopInv => DepositIsFunded
    BY DEF LoopInv
<1> QED BY <1>1, LoopInitInv, LoopNextInv, PTL DEF LoopSpec

\* What each component promises on its own it keeps in the whole loop: verdicts
\* are deserved, drafts run once, hashes agree, leases are exclusive and
\* completion is evidence.
THEOREM LoopKeepsPromises ==
  LoopSpec => [](/\ FundedIsVerified /\ InvalidIsDeserved
                 /\ DraftRunsOnce /\ HashesAgree
                 /\ LeaseIsExclusive /\ CompletedIsDeposited)
<1>1. LoopInv => /\ FundedIsVerified /\ InvalidIsDeserved
                 /\ DraftRunsOnce /\ HashesAgree
                 /\ LeaseIsExclusive /\ CompletedIsDeposited
    BY ExecInvExclusive DEF LoopInv, ConfirmInv, OrderInv, ExecInv
<1> QED BY <1>1, LoopInitInv, LoopNextInv, PTL DEF LoopSpec

\* In the whole loop a budget is spent or returned at most once and only after
\* it was reserved, a refund excludes execution, and outcomes are final.
THEOREM LoopKeepsBudgets ==
  LoopSpec => /\ ImplementsBudget /\ []SpentOrReturned
              /\ TerminalIsFinal /\ BindingIsFinal /\ RefundExcludesExecution
BY LoopImplementsRepository, FundingInvariant, FundingSteps, FundingImplementsBudget, PTL
DEF ImplementsRepository

\* And unless an answer of sendTransaction is lost, no order is deposited twice
\* and no refunded budget is deposited.
THEOREM LoopDepositsOnce ==
  ASSUME NoAnswerIsLost
  PROVE  LoopSpec => [](SingleDeposit /\ RefundedIsNotDeposited)
<1>1. LoopInv => SingleDeposit /\ RefundedIsNotDeposited
    BY DEF LoopInv, ExecInv, DepositIsRecorded, RefundedIsNotDeposited, NotLive, SentStatus
<1> QED BY <1>1, LoopInitInv, LoopNextInv, PTL DEF LoopSpec

=============================================================================
