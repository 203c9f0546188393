-------------------------- MODULE Stage2Lifecycle --------------------------
(***************************************************************************)
(* The Stage 2 rule lifecycle: the condition watcher                       *)
(* (crates/gateway/src/stage2_watcher.rs) takes a rule from active to      *)
(* condition_met, the executor (crates/gateway/src/stage2_executor.rs)     *)
(* leases it, dispatches it once and settles it, and a revocation may come *)
(* at any time.  Ticks overlap: a frame works on the snapshot of the rules *)
(* it loaded, and every await is a step boundary.                          *)
(***************************************************************************)
EXTENDS Stage2WatchRules, Sequences, FiniteSets, FiniteSetsExt

CONSTANTS
  Ticks,       \* concurrent watcher tick frames
  ForcedTicks, \* the ones of them that serve force_tick_rule
  Jobs,        \* concurrent executor tick frames
  ProcessOf,   \* frame -> the process it runs in, with its in-flight sets
  BatchSize,   \* max_rules_per_tick
  RuleLife,    \* slots from creation to expiry
  MaxSlot,     \* bound on the slot clock
  Allowed,     \* the rules whose action type is in action_type_allowlist
  LifeFaults   \* what the environment may do

Frames == Ticks \cup Jobs
Processes == {ProcessOf[f] : f \in Frames}

ASSUME FramesAssumption == Ticks \cap Jobs = {}
ASSUME LifeAssumption == RuleLife \in Nat /\ MaxSlot \in Nat /\ BatchSize \in Nat \ {0}
ASSUME AllowedAssumption == Allowed \subseteq Rules /\ ForcedTicks \subseteq Ticks
ASSUME LifeFaultsAssumption == LifeFaults \subseteq {"revoke", "restart", "db_error"}

VARIABLES
  slot,      \* the cluster's slot
  tick,      \* watcher frame -> program counter, rules to do, current rule, ctx.current_slot
  job,       \* executor frame -> program counter, rules to do, current rule, nonces it loaded
  inflight,  \* <<kind of frame, process>> -> the in-flight set
  sent       \* rule -> nonces of the requests handed to the execution client

lifeVars == <<rules, slot, tick, job, inflight, sent>>

---------------------------------------------------------------------------
(* What both components share. *)

\* Seeded fault: the slot-filtered listing, which never returns expired rules.
LoadUnexpired == ListActive(slot)

\* The rules a tick may load.
Loadable == PendingLifecycle

\* The oldest BatchSize of them.
IsLoad(B) ==
  /\ B \subseteq Loadable
  /\ \A r \in B, q \in Loadable \ B : rules[r].hash =< rules[q].hash
  /\ Cardinality(B) = Min({BatchSize, Cardinality(Loadable)})

WithStatus(B, s) == {r \in B : rules[r].status = s}

\* A compare-and-set statement on rule r: it matches, it finds the rule in a
\* status outside S and changes no row, or the store reports an error.
Attempt(Write, r, S) ==
  \/ Write
  \/ rules[r].status \notin S /\ UNCHANGED rules
  \/ "db_error" \in LifeFaults /\ UNCHANGED rules

WatcherSet(f) == <<"watcher", ProcessOf[f]>>
ExecutorSet(f) == <<"executor", ProcessOf[f]>>

IdleTick == [pc |-> "idle", todo |-> {}, r |-> "none", slot |-> 0]
IdleJob == [pc |-> "idle", todo |-> {}, r |-> "none", nonces |-> [r \in Rules |-> 0]]

---------------------------------------------------------------------------
(* Stage2Watcher *)

TickGoto(f, l) == tick' = [tick EXCEPT ![f].pc = l]

\* The frame goes on with its next rule, or its tick is over.
TickNext(f) ==
  tick' = [tick EXCEPT ![f] =
             IF @.todo = {} THEN IdleTick ELSE [@ EXCEPT !.pc = "loop", !.r = "none"]]

\* The guard is dropped.
TickDone(f) ==
  /\ TickNext(f)
  /\ inflight' = [inflight EXCEPT ![WatcherSet(f)] = @ \ {tick[f].r}]

\* tick: load the batch; rules that are not active are passed over, so only
\* the active ones of the snapshot matter.
TickStart(f) ==
  /\ tick[f].pc = "idle" /\ f \notin ForcedTicks
  /\ \E B \in SUBSET Rules :
       /\ IsLoad(B) /\ WithStatus(B, "active") # {}
       /\ tick' = [tick EXCEPT ![f] = [IdleTick EXCEPT !.pc = "loop", !.slot = slot,
                                                       !.todo = WithStatus(B, "active")]]
  /\ UNCHANGED <<rules, slot, job, inflight, sent>>

\* force_tick_rule, where enabled: one rule, whatever the batch.
ForceTick(f, r) ==
  /\ tick[f].pc = "idle" /\ f \in ForcedTicks
  /\ rules[r].status = "active"
  /\ tick' = [tick EXCEPT ![f] = [IdleTick EXCEPT !.pc = "loop", !.slot = slot, !.todo = {r}]]
  /\ UNCHANGED <<rules, slot, job, inflight, sent>>

\* process_rule, steps 2 and 3, on the snapshot of the rule.
TickTake(f) ==
  /\ tick[f].pc = "loop"
  /\ \E r \in tick[f].todo :
       LET t == [tick[f] EXCEPT !.todo = @ \ {r}, !.r = r] IN
         \/ /\ t.slot >= rules[r].expires
            /\ tick' = [tick EXCEPT ![f] = [t EXCEPT !.pc = "expire"]]
            /\ UNCHANGED inflight
         \/ /\ t.slot < rules[r].expires /\ r \notin inflight[WatcherSet(f)]
            /\ tick' = [tick EXCEPT ![f] = [t EXCEPT !.pc = "evaluate"]]
            /\ inflight' = [inflight EXCEPT ![WatcherSet(f)] = @ \cup {r}]
         \/ /\ t.slot < rules[r].expires /\ r \in inflight[WatcherSet(f)]
            /\ tick' = [tick EXCEPT ![f] =
                          IF t.todo = {} THEN IdleTick ELSE [t EXCEPT !.r = "none"]]
            /\ UNCHANGED inflight
  /\ UNCHANGED <<rules, slot, job, sent>>

\* Past the slot expiry; the frame takes no guard for this.
TickExpire(f) ==
  /\ tick[f].pc = "expire"
  /\ Attempt(MarkExpiredIfNotTerminal(tick[f].r), tick[f].r, PreExecution)
  /\ TickNext(f)
  /\ UNCHANGED <<slot, job, inflight, sent>>

\* mark_checked, then the evaluator, then on true the simulator: false, a
\* transient or an internal error ends here, a terminal error fails the rule.
TickEvaluate(f) ==
  /\ tick[f].pc = "evaluate"
  /\ \/ \E l \in {"met", "fail"} : TickGoto(f, l) /\ UNCHANGED inflight
     \/ TickDone(f)
  /\ UNCHANGED <<rules, slot, job, sent>>

\* handle_condition_true: the CAS, or the race is lost.
TickMet(f) ==
  /\ tick[f].pc = "met"
  /\ Attempt(MarkConditionMetIfActive(tick[f].r), tick[f].r, {"active"})
  /\ TickDone(f)
  /\ UNCHANGED <<slot, job, sent>>

\* record_terminal
TickFail(f) ==
  /\ tick[f].pc = "fail"
  /\ Attempt(MarkFailedIfNotTerminal(tick[f].r), tick[f].r, PreExecution)
  /\ TickDone(f)
  /\ UNCHANGED <<slot, job, sent>>

TickStep(f) == \/ TickStart(f) \/ TickTake(f) \/ TickExpire(f)
               \/ TickEvaluate(f) \/ TickMet(f) \/ TickFail(f)

---------------------------------------------------------------------------
(* Stage2Executor *)

JobGoto(f, l) == job' = [job EXCEPT ![f].pc = l]

JobNext(f) ==
  job' = [job EXCEPT ![f] =
            IF @.todo = {} THEN IdleJob ELSE [@ EXCEPT !.pc = "loop", !.r = "none"]]

JobDone(f) ==
  /\ JobNext(f)
  /\ inflight' = [inflight EXCEPT ![ExecutorSet(f)] = @ \ {job[f].r}]

JobLoad(f, B) ==
  /\ WithStatus(B, "condition_met") # {}
  /\ job' = [job EXCEPT ![f] = [IdleJob EXCEPT !.pc = "loop",
                                               !.todo = WithStatus(B, "condition_met"),
                                               !.nonces = [r \in Rules |-> rules[r].nonce]]]

\* execute_ready_rules_once and execute_rule_once.
JobStart(f) ==
  /\ job[f].pc = "idle"
  /\ \/ \E B \in SUBSET Rules : IsLoad(B) /\ JobLoad(f, B)
     \/ \E r \in Rules : JobLoad(f, {r})
  /\ UNCHANGED <<rules, slot, tick, inflight, sent>>

\* process_rule, steps 1 and 2: the allowlist and the in-flight guard.
JobTake(f) ==
  /\ job[f].pc = "loop"
  /\ \E r \in job[f].todo :
       LET j == [job[f] EXCEPT !.todo = @ \ {r}, !.r = r] IN
         IF r \notin Allowed \/ r \in inflight[ExecutorSet(f)]
         THEN /\ job' = [job EXCEPT ![f] =
                           IF j.todo = {} THEN IdleJob ELSE [j EXCEPT !.r = "none"]]
              /\ UNCHANGED inflight
         ELSE /\ job' = [job EXCEPT ![f] = [j EXCEPT !.pc = "lease"]]
              /\ inflight' = [inflight EXCEPT ![ExecutorSet(f)] = @ \cup {r}]
  /\ UNCHANGED <<rules, slot, tick, sent>>

Nonce(f) == job[f].nonces[job[f].r] + 1

\* Steps 3 and 4: the CAS lease with the next nonce, then the request, which
\* cannot always be built.
JobLease(f) ==
  /\ job[f].pc = "lease"
  /\ \/ /\ MarkExecutingIfConditionMet(job[f].r, Nonce(f))
        /\ \E l \in {"dispatch", "fail"} : JobGoto(f, l)
        /\ UNCHANGED inflight
     \/ /\ rules[job[f].r].status # "condition_met" \/ "db_error" \in LifeFaults
        /\ JobDone(f) /\ UNCHANGED rules
  /\ UNCHANGED <<slot, tick, sent>>

\* Step 5: the client confirms or reports an error.
JobDispatch(f) ==
  /\ job[f].pc = "dispatch"
  /\ sent' = [sent EXCEPT ![job[f].r] = Append(@, Nonce(f))]
  /\ \E l \in {"complete", "fail"} : JobGoto(f, l)
  /\ UNCHANGED <<rules, slot, tick, inflight>>

\* Step 6, success: mark_completed has no status predicate.
JobComplete(f) ==
  /\ job[f].pc = "complete"
  /\ Attempt(MarkRuleCompleted(job[f].r), job[f].r, RuleStatus)
  /\ JobDone(f)
  /\ UNCHANGED <<slot, tick, sent>>

\* Seeded fault: the guarded method, which does not match an executing row.
JobFailGuarded(f) ==
  /\ job[f].pc = "fail"
  /\ Attempt(MarkFailedIfNotTerminal(job[f].r), job[f].r, PreExecution)
  /\ JobDone(f)
  /\ UNCHANGED <<slot, tick, sent>>

\* mark_failed_best_effort: mark_failed has no status predicate.
JobFail(f) ==
  /\ job[f].pc = "fail"
  /\ Attempt(MarkRuleFailed(job[f].r), job[f].r, RuleStatus)
  /\ JobDone(f)
  /\ UNCHANGED <<slot, tick, sent>>

JobStep(f) == \/ JobStart(f) \/ JobTake(f) \/ JobLease(f)
              \/ JobDispatch(f) \/ JobComplete(f) \/ JobFail(f)

---------------------------------------------------------------------------
(* The rest of the world. *)

Create(r) == /\ RuleInsert(r, slot, slot + RuleLife)
             /\ UNCHANGED <<slot, tick, job, inflight, sent>>

Revoke(r) == /\ "revoke" \in LifeFaults
             /\ rules[r].status # "revoked"
             /\ MarkRevoked(r)
             /\ UNCHANGED <<slot, tick, job, inflight, sent>>

SlotStep == /\ slot < MaxSlot
            /\ slot' = slot + 1
            /\ UNCHANGED <<rules, tick, job, inflight, sent>>

\* A process restarts: its frames and in-flight sets are gone.
ProcessRestart(p) ==
  /\ "restart" \in LifeFaults
  /\ tick' = [f \in Ticks |-> IF ProcessOf[f] = p THEN IdleTick ELSE tick[f]]
  /\ job' = [f \in Jobs |-> IF ProcessOf[f] = p THEN IdleJob ELSE job[f]]
  /\ inflight' = [k \in DOMAIN inflight |-> IF k[2] = p THEN {} ELSE inflight[k]]
  /\ UNCHANGED <<rules, slot, sent>>

LifeInit ==
  /\ RulesInit
  /\ slot = 0
  /\ tick = [f \in Ticks |-> IdleTick]
  /\ job = [f \in Jobs |-> IdleJob]
  /\ inflight = [k \in {"watcher", "executor"} \X Processes |-> {}]
  /\ sent = [r \in Rules |-> <<>>]

LifeNext ==
  \/ \E f \in Ticks : TickStep(f) \/ \E r \in Rules : ForceTick(f, r)
  \/ \E f \in Jobs : JobStep(f)
  \/ \E r \in Rules : Create(r) \/ Revoke(r)
  \/ \E p \in Processes : ProcessRestart(p)
  \/ SlotStep

LifeSpec == LifeInit /\ [][LifeNext]_lifeVars

\* The driver keeps calling tick and execute_ready_rules_once, and a call
\* that has begun goes on.
LifeFairSpec ==
  /\ LifeSpec
  /\ \A f \in Ticks : WF_lifeVars(TickStep(f))
  /\ \A f \in Jobs : WF_lifeVars(JobStep(f))

---------------------------------------------------------------------------
(* Properties. *)

\* "One-shot v1: no retries": a rule is dispatched at most once, from all
\* frames of all processes, restarts included, and always under its own nonce.
DispatchedOnce ==
  \A r \in Rules : sent[r] \in {<<>>, <<rules[r].nonce>>}

JobHolds(f, r) == job[f].r = r /\ job[f].pc \in {"dispatch", "complete", "fail"}

\* Frame f, which leased r under its present nonce, writes its outcome back.
WritesBack(f, r) ==
  /\ JobHolds(f, r) /\ Nonce(f) = rules[r].nonce
  /\ ~JobHolds(f, r)'
  /\ rules'[r].status = IF job[f].pc = "complete" THEN "completed" ELSE "failed"

\* A decision is final but for a revocation, which may come at any time.  Only
\* the revocation itself can be undone, and only by one step: the write-back of
\* the very frame that leased the rule before it was revoked.  No tick, no
\* other frame and no stale snapshot replaces a terminal status.
OnlyHolderOverwrites ==
  [][\A r \in Rules :
       /\ rules[r].status \in RuleTerminal
       /\ rules'[r].status \notin {rules[r].status, "revoked"}
       => rules[r].status = "revoked" /\ \E f \in Jobs : WritesBack(f, r)]_lifeVars

\* A revocation that comes before the lease is final: the rule is neither
\* leased nor dispatched afterwards, whatever the frames have loaded.
RevokedBeforeLeaseIsFinal ==
  [][\A r \in Rules :
       rules[r].status = "revoked" /\ rules[r].nonce = 0 =>
         rules'[r].status = "revoked" /\ sent'[r] = sent[r]]_lifeVars

\* A leased rule is settled ("we cannot leave it in executing indefinitely").
LeasedRulesSettle ==
  \A r \in Rules : rules[r].status = "executing" ~> rules[r].status # "executing"

\* A rule past its slot expiry does not stay active for ever.
ExpiredRulesAreCollected ==
  \A r \in Rules :
    rules[r].status = "active" /\ rules[r].expires =< slot ~> rules[r].status # "active"

===========================================================================
