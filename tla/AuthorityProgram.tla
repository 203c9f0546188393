------------------------- MODULE AuthorityProgram -------------------------
(* The on-chain authority program: a user grants an executor one action by *)
(* creating an authorization account, the executor runs it once, the user  *)
(* revokes and closes it, and a pair of checks brackets the balance of the *)
(* destination around a swap.                                              *)
(*                                                                         *)
(* An instruction is atomic: when any check fails the transaction has no   *)
(* effect, so an action is the conjunction of the checks and the writes.   *)
(* The address of an authorization is derived from the user and the rule,  *)
(* so the pair stands for the address.  Everything a caller supplies is an *)
(* argument; the clock, the records and the balances are the chain's.      *)
EXTENDS ConditionVerifier, SiblingBoundary, FiniteSets

CONSTANTS
  Users, Rules,
  Signers,       \* who signs a user's instructions: users and others
  Wallets,       \* delegated wallets, each with an obligation at Solend
  Destinations,  \* token accounts that receive the proceeds
  Grants,        \* what a user may sign: the arguments of CreateAuthorization
  Calls,         \* the arguments and accounts of ExecuteAction
  Bracketed,     \* rules whose executor brackets its swap
  MinOutputs,    \* what an executor may ask of a bracket
  DemoTuple,     \* MAINNET_BETA_DEMO_USDC_TUPLE
  Redeems(_),    \* amount of cTokens -> what Solend may pay for it
  Reserves,      \* reserve snapshots on which the rate curve is compared
  Descriptors,   \* sibling instructions of which every short list is tried
  ClockSteps,    \* seconds between two slots
  Collateral,    \* what each wallet has at Solend
  MaxSlot, MaxBalance, MaxGrants   \* bounds

ASSUME AuthorityAssumption ==
  /\ Users \subseteq Signers
  /\ Absent \notin Users \cup Rules \cup Wallets \cup Destinations
  /\ IsFiniteSet(Grants)
  /\ Bracketed \subseteq Rules
  /\ MinOutputs \subseteq Nat /\ ClockSteps \subseteq Nat
  /\ Collateral \in Nat /\ \A n \in 0 .. Collateral : Redeems(n) \subseteq Nat
  /\ MaxSlot \in Nat /\ MaxBalance \in Nat /\ MaxGrants \in Nat

\* Integers of a grant and of a call are unsigned.  The account of a call is
\* owned by the program, which has accounts at its own addresses only.
ASSUME ArgumentsAssumption ==
  /\ \A g \in Grants : /\ g.max \in Nat /\ g.expires \in Nat
                       /\ g.delegated \in Wallets /\ g.destination \in Destinations
  /\ \A c \in Calls : c.account \in Users \X Rules /\ c.amount \in Nat /\ c.nonce \in Nat

\* The proof of a boundary names its reserve; prices, thresholds and exponents
\* are signed integers and a confidence is not negative.
ASSUME ProofsAssumption ==
  /\ \A c \in Calls : c.solend # Absent => c.solend.reserve # Absent
  /\ \A c \in Calls : \A k \in DOMAIN c.proof.conditions :
       LET pc == c.proof.conditions[k] IN pc.kind = "pyth" =>
         /\ pc.snapshot.price \in Int /\ pc.snapshot.conf \in Nat
         /\ pc.snapshot.exponent \in Int
         /\ pc.condition.threshold \in Int /\ pc.condition.exponent \in Int

ASSUME ReservesAssumption == \A s \in Reserves : s \in ReserveSnapshot

VARIABLES
  authz,       \* address -> AuthorizationRecord, or Absent
  checkpoint,  \* <<address, nonce, destination>> -> bracket, or Absent
  clock,       \* the Clock sysvar: slot and unix time
  balance,     \* destination -> tokens
  position,    \* wallet -> collateral at Solend and the live cToken amount
  created,     \* history: authorizations created so far, which number them
  granted,     \* history: address -> the last authorization created there
  takenBack,   \* history: the authorizations the user revoked
  runs         \* history: authorization -> its executions that succeeded

history == <<created, granted, takenBack, runs>>
avars == <<authz, checkpoint, clock, balance, position, history>>

Address == Users \X Rules
Nonces == 1 .. 2
Brackets == (Users \X Bracketed) \X Nonces \X Destinations

AInit ==
  /\ authz = [p \in Address |-> Absent]
  /\ checkpoint = [k \in Brackets |-> Absent]
  /\ clock = [slot |-> 0, unix |-> 0]
  /\ balance = [d \in Destinations |-> 0]
  /\ \E n \in 1 .. Collateral :
       position = [w \in Wallets |-> [collateral |-> Collateral, ctoken |-> n]]
  /\ created = 0
  /\ granted = [p \in Address |-> 0]
  /\ takenBack = {}
  /\ runs = [g \in 1 .. MaxGrants |-> 0]

---------------------------------------------------------------------------
(* The user's instructions.                                                *)

\* The account is created by the system program, which refuses an address
\* in use: a closed one is free again, and starts at nonce 0.
process_create_authorization(p, g) ==
  /\ created < MaxGrants
  /\ g.max # 0
  /\ clock.slot < g.expires
  /\ authz[p] = Absent
  /\ authz' = [authz EXCEPT ![p] =
       [executor |-> g.executor, delegated |-> g.delegated, hash |-> g.hash,
        action |-> g.action, max |-> g.max, used |-> 0,
        destination |-> g.destination, expires |-> g.expires,
        revoked |-> FALSE, completed |-> FALSE, nonce |-> 0, last_slot |-> 0]]
  /\ created' = created + 1
  /\ granted' = [granted EXCEPT ![p] = created + 1]
  /\ UNCHANGED <<checkpoint, clock, balance, position, takenBack, runs>>

\* A second revoke succeeds and writes nothing.
process_revoke(u, p) ==
  /\ authz[p] # Absent
  /\ p[1] = u
  /\ authz' = [authz EXCEPT ![p] = [@ EXCEPT !.revoked = TRUE]]
  /\ takenBack' = takenBack \cup {granted[p]}
  /\ UNCHANGED <<checkpoint, clock, balance, position, created, granted, runs>>

Closeable(r) == r.revoked \/ r.completed \/ clock.slot >= r.expires

process_close_authorization(u, p) ==
  /\ authz[p] # Absent
  /\ p[1] = u
  /\ Closeable(authz[p])
  /\ authz' = [authz EXCEPT ![p] = Absent]
  /\ UNCHANGED <<checkpoint, clock, balance, position, history>>

---------------------------------------------------------------------------
(* ExecuteAction: the record, then the conditions, then the boundary.      *)

RecordMatches(c, r) ==
  /\ c.signed
  /\ c.account = <<c.user, c.rule>>
  /\ r.executor = c.executor
  /\ r.hash = c.hash
  /\ r.action = c.action

\* Seeded fault: a completed record may run again.
RecordLiveIfUnrevoked(r) == clock.slot < r.expires /\ ~r.revoked

\* Seeded fault: the revocation is not looked at.
RecordLiveIfUnexpired(r) == clock.slot < r.expires /\ ~r.completed

RecordLive(r) ==
  /\ clock.slot < r.expires
  /\ ~r.revoked
  /\ ~r.completed

WithinCap(c, r) ==
  /\ c.amount # 0
  /\ r.used + c.amount <= r.max

NonceIsNext(c, r) ==
  /\ c.nonce = r.nonce + 1
  /\ ~(r.last_slot # 0 /\ clock.slot = r.last_slot)

verify_solend_delegated_boundary(r, user, b) ==
  /\ b # Absent
  /\ b.program = "solend"
  /\ b.obligation_program = "solend"
  /\ b.obligation_owner # user
  /\ b.obligation_owner = r.delegated
  /\ b.obligation_market = b.market
  /\ b.destination = r.destination
  /\ verify_same_tx_refresh_and_withdraw(b.siblings, b)

verify_jupiter_boundary_skeleton(r, b) ==
  /\ b # Absent
  /\ WithinLimits(b.siblings)
  /\ b.program = "jupiter"
  /\ b.destination = r.destination
  /\ \A f \in {b.pre, b.post} : f.address = b.destination /\ f.mint = b.mint
  /\ verify_sibling_instructions(b.siblings,
       {r.delegated, r.destination, b.input, b.output})

---------------------------------------------------------------------------
(* The Solend calls made from the program, when their accounts are given.  *)

require_external_delegated_wallet_signer(r, user, a) ==
  a.wallet # user /\ a.wallet = r.delegated /\ a.wallet_signed

\* Seeded fault: the obligation's owner is believed from the proof.
ShadowMappingAnyOwner(r, user, b, a) ==
  /\ a.obligation = b.obligation /\ a.reserve = b.reserve
  /\ a.market = b.market /\ a.destination = r.destination

\* Each of the accounts against the proof and the record.
validate_solend_withdraw_shadow_mapping(r, user, b, a) ==
  /\ ~a.sysvar_in_base
  /\ a.obligation = b.obligation
  /\ a.obligation_program = "solend"
  /\ a.obligation_owner # user
  /\ a.obligation_owner = r.delegated
  /\ a.obligation_market = b.market
  /\ a.reserve = b.reserve
  /\ a.reserve_program = "solend"
  /\ a.reserve_market = b.market
  /\ a.market = b.market
  /\ a.ctoken_program = "token" /\ a.ctoken_owner = r.delegated
  /\ a.ctoken_mint = a.collateral_mint
  /\ a.destination = r.destination /\ a.destination_program = "token"
  /\ a.token_program = "token"
  /\ \A s \in {a.owner_slot, a.transfer_slot} :
       s.key # user /\ s.key = r.delegated /\ s.signed

\* Any other set of oracles is refused: their check is not written yet.
OracleAllowed(b, a) ==
  [reserve |-> b.reserve, market |-> b.market,
   liquidity_mint |-> a.destination_mint, ctoken_mint |-> a.collateral_mint,
   pyth |-> a.pyth, switchboard |-> a.switchboard] = DemoTuple

\* The collateral taken out is the live cToken amount, not the call's.
\* Solend refuses more than the obligation holds, and pays at the exchange
\* rate of the moment.
try_solend_cpi_skeleton(c, r) ==
  LET a == c.cpi
      amount == position[a.wallet].ctoken
  IN /\ a.program = "solend"
     /\ a.clock = "clock"
     /\ require_external_delegated_wallet_signer(r, c.user, a)
     /\ validate_solend_withdraw_shadow_mapping(r, c.user, c.solend, a)
     /\ amount # 0
     /\ OracleAllowed(c.solend, a)
     /\ amount <= position[a.obligation_owner].collateral
     /\ position' = [position EXCEPT ![a.obligation_owner] =
                       [position[a.obligation_owner] EXCEPT !.collateral = @ - amount]]
     /\ \E paid \in Redeems(amount) :
          balance' = [balance EXCEPT ![a.destination] = @ + paid]

\* With fewer accounts than the calls need they are skipped.
SolendCalls(c, r) ==
  IF r.action = "solend" /\ c.cpi # Absent
  THEN try_solend_cpi_skeleton(c, r)
  ELSE UNCHANGED <<position, balance>>

ExecutedRecord(c, r) ==
  [r EXCEPT !.used = @ + c.amount, !.completed = TRUE,
            !.nonce = c.nonce, !.last_slot = clock.slot]

\* Every check before the calls to Solend, in the order of the code.
Admitted(c) ==
  /\ authz[c.account] # Absent
  /\ LET r == authz[c.account] IN
       /\ RecordMatches(c, r)
       /\ RecordLive(r)
       /\ WithinCap(c, r)
       /\ NonceIsNext(c, r)
       /\ ConditionsPass(c.proof, clock)
       /\ r.action = "solend" => verify_solend_delegated_boundary(r, c.user, c.solend)
       /\ r.action = "jupiter" => verify_jupiter_boundary_skeleton(r, c.jupiter)

process_execute_action(c) ==
  /\ Admitted(c)
  /\ SolendCalls(c, authz[c.account])
  /\ authz' = [authz EXCEPT ![c.account] = ExecutedRecord(c, @)]
  /\ runs' = [runs EXCEPT ![granted[c.account]] = @ + 1]
  /\ UNCHANGED <<checkpoint, clock, created, granted, takenBack>>

---------------------------------------------------------------------------
(* The bracket around a swap, and what moves besides the program.          *)

\* The balance is read from the chain; the address of the checkpoint must
\* be free.
process_pre_jupiter_bracket_check(e, p, n, d, m) ==
  /\ authz[p] # Absent
  /\ authz[p].executor = e
  /\ authz[p].destination = d
  /\ n = authz[p].nonce + 1
  /\ checkpoint[<<p, n, d>>] = Absent
  /\ checkpoint' = [checkpoint EXCEPT ![<<p, n, d>>] =
       [pre |-> balance[d], min |-> m, consumed |-> FALSE]]
  /\ UNCHANGED <<authz, clock, balance, position, history>>

process_post_jupiter_bracket_check(e, p, n, d) ==
  /\ authz[p] # Absent
  /\ authz[p].executor = e
  /\ checkpoint[<<p, n, d>>] # Absent
  /\ LET k == checkpoint[<<p, n, d>>] IN
       /\ ~k.consumed
       /\ balance[d] - k.pre >= 0
       /\ balance[d] - k.pre >= k.min
       /\ checkpoint' = [checkpoint EXCEPT ![<<p, n, d>>].consumed = TRUE]
  /\ UNCHANGED <<authz, clock, balance, position, history>>

\* A swap or a payment moves the destination's tokens.
TokensMove(d, to) ==
  /\ to # balance[d]
  /\ balance' = [balance EXCEPT ![d] = to]
  /\ UNCHANGED <<authz, checkpoint, clock, position, history>>

\* The slot advances; the unix time may stand still.
Tick(seconds) ==
  /\ clock.slot < MaxSlot
  /\ clock' = [slot |-> clock.slot + 1, unix |-> clock.unix + seconds]
  /\ UNCHANGED <<authz, checkpoint, balance, position, history>>

\* All but ExecuteAction.
OtherStep ==
  \/ \E p \in Address, g \in Grants : process_create_authorization(p, g)
  \/ \E u \in Signers, p \in Address : process_revoke(u, p)
  \/ \E u \in Signers, p \in Address : process_close_authorization(u, p)
  \/ \E e \in {g.executor : g \in Grants}, k \in Brackets :
       \/ \E m \in MinOutputs : process_pre_jupiter_bracket_check(e, k[1], k[2], k[3], m)
       \/ process_post_jupiter_bracket_check(e, k[1], k[2], k[3])
  \/ \E d \in Destinations, to \in 0 .. MaxBalance : TokensMove(d, to)
  \/ \E seconds \in ClockSteps : Tick(seconds)

ANext == OtherStep \/ \E c \in Calls : process_execute_action(c)

ASpec == AInit /\ [][ANext]_avars

---------------------------------------------------------------------------
(* Properties.                                                             *)

\* process_execute_action, process_close_authorization: however often a
\* rule is executed, revoked, closed and created again, each authorization
\* the user signed is executed at most once.
GrantRunsOnce == \A g \in 1 .. MaxGrants : runs[g] <= 1

\* process_revoke against process_execute_action: an execution is of the
\* authorization that stands at its address, which the user has not taken
\* back and which has not expired, and stays below the cap.
RunNeedsStandingGrant ==
  [][\A g \in 1 .. MaxGrants : runs'[g] # runs[g] =>
       /\ g \notin takenBack
       /\ \E p \in Address :
            /\ granted[p] = g
            /\ authz[p] # Absent
            /\ clock.slot < authz[p].expires
            /\ authz'[p].used \in 1 .. authz[p].max]_avars

\* A price q of exponent pe stands to the threshold as compared, both
\* written at the smaller exponent.
StandsTo(q, pe, c) ==
  LET low == IF pe < c.exponent THEN pe ELSE c.exponent
  IN Compare(c.comparison, q * TenTo[pe - low], c.threshold * TenTo[c.exponent - low])

\* verify_pyth_price_condition, evaluate_condition_logic: whatever the
\* exponents, a call that is admitted and requires all its conditions has,
\* for a conservative bound, a threshold that every price of the confidence
\* interval meets; and every snapshot it uses, of an "any" rule too, is of
\* the past and fresh at that moment.
AdmittedPricesHold ==
  \A call \in Calls : Admitted(call) =>
    \A k \in DOMAIN call.proof.conditions :
      LET pc == call.proof.conditions[k]
          c == pc.condition
          s == pc.snapshot
      IN pc.kind = "pyth" =>
           /\ clock.unix - s.publish_time \in 0 .. c.max_age
           /\ (call.proof.logic = "all" /\ c.bound_mode # "midpoint") =>
                \A q \in s.price - s.conf .. s.price + s.conf :
                  StandsTo(q, s.exponent, c)

\* The initial states: where a statement about the program's arithmetic
\* alone, which no state can change, is evaluated.
Genesis ==
  /\ clock.slot = 0 /\ created = 0
  /\ \A d \in Destinations : balance[d] = 0

UtilOf == [s \in Reserves |-> utilization_wad(s)]
RateOf == [s \in Reserves |-> current_borrow_rate_wad(s)]
AprOf  == [s \in Reserves |-> supply_apr_wad(s)]

SameCurve(s, t) ==
  [s EXCEPT !.available = t.available, !.borrowed = t.borrowed] = t

\* current_borrow_rate_wad, supply_apr_wad: despite the rounding of every
\* product and quotient the rate meets the configured rate at each kink,
\* the widest one included, and neither it nor the supply rate falls when
\* the utilisation rises, across the kinks too.
RateFollowsCurve ==
  Genesis => \A s \in Reserves : is_reserve_config_valid(s) =>
    /\ UtilOf[s] = 0 => RateOf[s] = pct_to_wad(s.min_rate)
    /\ (UtilOf[s] = pct_to_wad(s.optimal_util) /\ s.optimal_util # 0) =>
         RateOf[s] = pct_to_wad(s.optimal_rate)
    /\ (UtilOf[s] = pct_to_wad(s.max_util) /\ s.max_util > s.optimal_util) =>
         RateOf[s] = pct_to_wad(s.max_rate)
    /\ (UtilOf[s] = Wad /\ s.max_util < 100) =>
         RateOf[s] = pct_to_wad(s.super_max_rate)
    /\ \A t \in Reserves : (SameCurve(s, t) /\ UtilOf[s] <= UtilOf[t]) =>
         RateOf[s] <= RateOf[t] /\ AprOf[s] <= AprOf[t]

\* mul_div_floor_u128: with words of two half-words of HalfBits = 2 bits,
\* every product and every divisor gives the floor of the quotient, or the
\* error when that does not fit a word.
MulDivIsExact ==
  Genesis => \A a, b, c \in 0 .. Word(2) - 1 :
    mul_div_floor(2, a, b, c) = FloorOrOverflow(2, a, b, c)

\* verify_same_tx_refresh_and_withdraw: a list is accepted only when the
\* instructions of Solend that touch the rule's reserve or obligation are
\* exactly a refresh and, after it, a withdraw into the destination.
SiblingsAreExact ==
  Genesis => \A n \in 0 .. MaxSiblings : \A l \in [1 .. n -> Descriptors] :
    \A x \in {[reserve |-> b.reserve, obligation |-> b.obligation,
                market |-> b.market, destination |-> b.destination] :
               b \in {c.solend : c \in Calls} \ {Absent}} :
      verify_same_tx_refresh_and_withdraw(l, x) =>
        \E r, w \in 1 .. n :
          /\ r < w
          /\ {i \in 1 .. n : Touches(l[i], x)} = {r, w}
          /\ l[r].variant = "refresh"
          /\ l[w].variant = "withdraw" /\ l[w].destination = x.destination

\* try_solend_cpi_skeleton: collateral leaves an obligation only in the
\* step that completes an authorization naming that wallet, and what Solend
\* pays for all of it arrives at the destination the user signed.
WithdrawIsGranted ==
  [][\A w \in Wallets : position'[w].collateral # position[w].collateral =>
       \E p \in Address :
         /\ authz[p] # Absent
         /\ authz[p].delegated = w
         /\ ~authz[p].completed /\ authz'[p].completed
         /\ balance'[authz[p].destination] - balance[authz[p].destination]
              \in Redeems(position[w].collateral - position'[w].collateral)]_avars

===========================================================================
