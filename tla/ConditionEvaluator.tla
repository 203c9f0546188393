------------------------ MODULE ConditionEvaluator ------------------------
(* The watcher's off-chain evaluator (crates/gateway/src/                  *)
(* stage2_evaluator.rs) beside the on-chain program: its verdict decides   *)
(* when a rule is sent to the gate that AuthorityProgram models, so the    *)
(* two must agree.  Ticks overlap (force_tick_rule), read the clock once   *)
(* and share a cache of readings; the lock of the cache is not held while  *)
(* the provider is asked, nor between storing the answer and the view.     *)
(*                                                                         *)
(* The evaluator's fixed-point arithmetic repeats the program's and is     *)
(* modelled by the same operators.                                         *)
EXTENDS AuthorityProgram

CONSTANTS
  Ticks,       \* overlapping ticks
  Watched,     \* rules: logic and conditions, each with kind, key and condition
  Keys,        \* feeds and reserves
  Values(_),   \* key -> what the provider may read there, without its time
  Errors(_)    \* key -> the errors it may meet there

\* A rule has conditions, and no more than a proof may carry: the gateway's
\* one builder of rules, build_w5e_watch_rule, gives it a single one.
ASSUME WatchedAssumption ==
  /\ Absent \notin Watched
  /\ \A r \in Watched :
       /\ r.conditions \in Seq({r.conditions[k] : k \in DOMAIN r.conditions})
       /\ Len(r.conditions) \in 1 .. MaxConditions
       /\ \A k \in DOMAIN r.conditions : r.conditions[k].key \in Keys
  /\ \A k \in Keys : Errors(k) \subseteq {"terminal", "transient"}

VARIABLES
  cache,       \* TickCache: token and key -> reading, Absent when not attempted
  tick         \* tick -> its context, the rule in hand, the keys asked for, the verdict

evalVars == <<cache, tick>>

NoTick == [pc |-> "idle", ctx |-> Absent, rule |-> Absent, asked |-> {}, out |-> "none"]
Unread == [k \in Keys |-> Absent]

NothingRead == cache = [token |-> Absent, read |-> Unread]

EInit == NothingRead /\ tick = [f \in Ticks |-> NoTick]

---------------------------------------------------------------------------
(* One condition: met, not met, an error that passes or one that does not. *)

Verdict(met) == IF met THEN "true" ELSE "false"

\* Neither too old nor from the future.
AgeAllowed(now, at, max) == now - at \in 0 .. max

eval_pyth(c, s, now) ==
  IF s.feed # c.feed THEN "terminal"
  ELSE IF ~AgeAllowed(now, s.publish_time, c.max_age) THEN "transient"
  ELSE IF ~BoundAgrees(c) THEN "terminal"
  ELSE IF s.price = 0 \/ ~((s.conf * 10000) \div Abs(s.price) <= c.max_confidence_bps)
       THEN "transient"
  ELSE IF s.exponent - c.exponent \notin -MaxExponentDiff .. MaxExponentDiff THEN "terminal"
  ELSE Verdict(PythHolds(c, s))

eval_solend(reserve, c, s, slot) ==
  IF s.reserve # reserve THEN "terminal"
  ELSE IF c.formula_version # 1 \/ c.rate_kind # "apr" THEN "terminal"
  ELSE IF \/ ~is_reserve_config_valid(s)
          \/ ~AgeAllowed(slot, s.last_update_slot, c.max_staleness)
          \/ s.stale
       THEN "transient"
  ELSE IF supply_apr_wad(s) = Overflow THEN "terminal"
  ELSE Verdict(SolendHolds(c, s))

\* The provider's own error is passed on; a key it left out is a transient.
evaluate_one_condition(pc, read, ctx) ==
  LET s == read[pc.key] IN
  IF s = Absent THEN "transient"
  ELSE IF s.error # "none" THEN s.error
  ELSE IF pc.kind = "pyth" THEN eval_pyth(pc.condition, s.value, ctx.unix)
  ELSE eval_solend(pc.key, pc.condition, s.value, ctx.slot)

\* fold_all, fold_any with merge_severity.  The deciding value ends the loop,
\* so an error counts only where no condition decides.
evaluate_rule_against_batch(rule, read, ctx) ==
  LET outs == {evaluate_one_condition(rule.conditions[k], read, ctx) : k \in DOMAIN rule.conditions}
      decides == IF rule.logic = "all" THEN "false" ELSE "true"
  IN IF decides \in outs THEN decides
     ELSE IF "terminal" \in outs THEN "terminal"
     ELSE IF "transient" \in outs THEN "transient"
     ELSE Verdict(rule.logic = "all")

---------------------------------------------------------------------------
(* evaluate, with the cache of the tick.                                   *)

\* TickCache::ensure_token: readings of another tick are dropped.
ensure_token(ctx) ==
  IF cache.token = ctx THEN cache ELSE [token |-> ctx, read |-> Unread]

KeysOf(rule) == {rule.conditions[k].key : k \in DOMAIN rule.conditions}

\* The watcher reads slot and time once for all rules of the tick.
BeginTick(f) ==
  /\ tick[f].pc \in {"idle", "ready"} /\ tick[f].ctx # clock
  /\ tick' = [tick EXCEPT ![f] = [NoTick EXCEPT !.pc = "ready", !.ctx = clock]]
  /\ UNCHANGED cache

\* missing_request: the keys not yet attempted in this tick.
PlanRequest(f, rule) ==
  /\ tick[f].pc = "ready"
  /\ cache' = ensure_token(tick[f].ctx)
  /\ LET missing == {k \in KeysOf(rule) : cache'.read[k] = Absent} IN
     tick' = [tick EXCEPT ![f] = [@ EXCEPT !.pc = IF missing = {} THEN "view" ELSE "fetch",
                                           !.rule = rule, !.asked = missing, !.out = "none"]]

\* A reading as of now, or an error, or no answer for the key; by, for history,
\* is the context of the tick that asked.
Readings(k, ctx) ==
  {Absent} \cup {[error |-> e, value |-> Absent, by |-> ctx] : e \in Errors(k)}
    \cup {[error |-> "none", by |-> ctx,
           value |-> IF "feed" \in DOMAIN s THEN [s EXCEPT !.publish_time = clock.unix]
                     ELSE [s EXCEPT !.last_update_slot = clock.slot]] : s \in Values(k)}

With(read, batch) ==
  [k \in Keys |-> IF k \in DOMAIN batch THEN batch[k] ELSE read[k]]

\* Seeded fault: the token is not looked at again after the provider was awaited.
IntegrateUnrotated(ctx, batch) == [cache EXCEPT !.read = With(cache.read, batch)]

\* The answer is stored under this tick's token, whoever rotated the cache
\* meanwhile.
IntegrateBatch(ctx, batch) ==
  [token |-> ctx, read |-> With(ensure_token(ctx).read, batch)]

FetchBatch(f) ==
  LET t == tick[f] IN
  /\ t.pc = "fetch"
  /\ \E batch \in [t.asked -> UNION {Readings(k, t.ctx) : k \in t.asked}] :
       /\ \A k \in t.asked : batch[k] \in Readings(k, t.ctx)
       /\ cache' = IntegrateBatch(t.ctx, batch)
  /\ tick' = [tick EXCEPT ![f] = [@ EXCEPT !.pc = "view", !.asked = {}]]

\* snapshot_view is taken under a lock of its own: of the cache as it is now.
EvaluateView(f) ==
  /\ tick[f].pc = "view"
  /\ tick' = [tick EXCEPT ![f] =
                [@ EXCEPT !.pc = "ready", !.rule = Absent,
                          !.out = evaluate_rule_against_batch(tick[f].rule, cache.read, tick[f].ctx)]]
  /\ UNCHANGED cache

ENext ==
  \E f \in Ticks : \/ BeginTick(f) \/ FetchBatch(f) \/ EvaluateView(f)
                   \/ \E rule \in Watched : PlanRequest(f, rule)

\* The chain and the watcher, each at its own pace.
ESpec ==
  /\ AInit /\ EInit
  /\ [][(ANext /\ UNCHANGED evalVars) \/ (ENext /\ UNCHANGED avars)]_<<avars, evalVars>>

---------------------------------------------------------------------------
(* Properties.                                                             *)

\* The proof an executor would build from these readings.
ProofOf(rule, read) ==
  [logic |-> rule.logic,
   conditions |-> [k \in DOMAIN rule.conditions |->
                     [kind |-> rule.conditions[k].kind,
                      condition |-> rule.conditions[k].condition,
                      snapshot |-> read[rule.conditions[k].key].value]]]

\* The program's gate on the same readings at the time of the tick.
GatePasses(rule, read, ctx) ==
  /\ \A k \in KeysOf(rule) : read[k] # Absent /\ read[k].error = "none"
  /\ ConditionsPass(ProofOf(rule, read), ctx)

\* The step in which the tick gives the verdict on the rule in hand.
GivesVerdict(f) == tick[f].pc = "view" /\ tick'[f].pc = "ready"

\* evaluate, with ticks that overlap between its three locks: a rule whose
\* conditions must all hold is called true only on readings that one tick
\* fetched, never on a price of one tick and a rate of another, and only where
\* the program's gate passes on these readings at the tick's own slot and time
\* (which the execution, being later, does not promise to repeat).
TrueIsOfOneTick ==
  [][\A f \in Ticks : GivesVerdict(f) /\ tick'[f].out = "true" /\ tick[f].rule.logic = "all" =>
       /\ GatePasses(tick[f].rule, cache.read, tick[f].ctx)
       /\ \A j, k \in KeysOf(tick[f].rule) : cache.read[j].by = cache.read[k].by]_<<avars, evalVars>>

===========================================================================
