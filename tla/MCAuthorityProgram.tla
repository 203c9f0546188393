------------------------ MODULE MCAuthorityProgram ------------------------
(* Two rules of a user over one delegated wallet and one destination, with *)
(* accounts of another wallet and of another destination in the calls; and *)
(* the watcher's evaluator, beside a chain of which only the clock moves.  *)
EXTENDS ConditionEvaluator, TLC

CONSTANTS u1, u2, r1, r2, w1, w2, d1, d2, t1, t2

\* A Solend and a Jupiter authorization; the second expires first.
MCGrants ==
  {[executor |-> "e1", delegated |-> w1, hash |-> "h1", action |-> "solend",
    max |-> 2, destination |-> d1, expires |-> 2],
   [executor |-> "e1", delegated |-> w1, hash |-> "h2", action |-> "jupiter",
    max |-> 1, destination |-> d1, expires |-> 1]}

MCDemoTuple ==
  [reserve |-> "r", market |-> "m", liquidity_mint |-> "usdc",
   ctoken_mint |-> "cusdc", pyth |-> "p", switchboard |-> "s"]

\* A cToken is worth one token, or more with the interest since.
MCRedeems(n) == {n, n + 1}

---------------------------------------------------------------------------
(* Conditions: a conservative price above a threshold of another exponent, *)
(* one of each direction, and a reserve's rate.                            *)

Above == [feed |-> "sol", comparison |-> "gt", threshold |-> 15, exponent |-> -1,
          max_age |-> 1, max_confidence_bps |-> 6000, bound_mode |-> "lower"]
Below == [feed |-> "sol", comparison |-> "lte", threshold |-> 3, exponent |-> 0,
          max_age |-> 1, max_confidence_bps |-> 6000, bound_mode |-> "upper"]
Whole == [Above EXCEPT !.threshold = 2, !.exponent = 0]
Wrong == [Above EXCEPT !.bound_mode = "upper"]

Price(p, c, e, t) ==
  [feed |-> "sol", price |-> p, conf |-> c, exponent |-> e, publish_time |-> t]

MCPyth ==
  {[kind |-> "pyth", condition |-> c, snapshot |-> s] :
     c \in {Above, Below, Whole, Wrong},
     s \in {Price(2, 0, 0, 0), Price(2, 1, 0, 1), Price(3, 1, 0, 0),
            Price(25, 10, -1, 0), Price(15, 0, -1, 1), Price(-2, 1, 0, 0)}}

Curve(o, m) ==
  [min_rate |-> 1, optimal_rate |-> 8, max_rate |-> 40, super_max_rate |-> 300,
   optimal_util |-> o, max_util |-> m, take_rate |-> 20,
   available |-> 0, borrowed |-> 0, last_update_slot |-> 0, stale |-> FALSE]

MCReserves ==
  {[Curve(x[1], x[2]) EXCEPT !.available = a, !.borrowed = b] :
     x \in {<<0, 0>>, <<0, 80>>, <<50, 80>>, <<80, 80>>, <<80, 100>>, <<100, 100>>},
     a \in {0, 1, 3},
     b \in {0, 1, 3333, 5000, 7499, 9999, 10000, 12000, 30000, 40000, 90000}}

MCSolend ==
  {[kind |-> "solend",
    condition |-> [comparison |-> "gte", threshold_bps |-> t, rate_kind |-> "apr",
                   formula_version |-> 1, max_staleness |-> 1],
    snapshot |-> [Curve(50, 80) EXCEPT !.available = 1, !.borrowed = 10000]] :
     t \in {300, 400}}

\* Conditions that pass, fail, are stale or are malformed.
SecondConditions ==
  {y \in MCPyth : /\ y.condition \in {Above, Wrong}
                  /\ y.snapshot \in {Price(2, 1, 0, 1), Price(3, 1, 0, 0)}}

MCProofs ==
  {[logic |-> "all", conditions |-> <<x>>] : x \in MCPyth \cup MCSolend}
    \cup {[logic |-> l, conditions |-> <<x, y>>] :
            l \in {"all", "any"}, x \in MCSolend, y \in SecondConditions}
    \cup {[logic |-> "all", conditions |-> << >>]}

---------------------------------------------------------------------------
(* Sibling instructions.                                                   *)

Ix(v, r, o) ==
  [program |-> "solend", variant |-> v, reserve |-> r, obligation |-> o,
   market |-> "m", destination |-> d1]

MCDescriptors ==
  {Ix("refresh", r, Absent) : r \in {"r", "r2", Absent}}
    \cup {Ix(v, r, o) : v \in {"withdraw", "borrow"},
                        r \in {"r", "r2"}, o \in {"o", "o2", Absent}}
    \cup {[Ix("withdraw", "r", "o") EXCEPT !.destination = d2],
          [Ix("withdraw", "r", "o") EXCEPT !.program = "other"]}

Pair == <<Ix("refresh", "r", Absent), Ix("withdraw", "r", "o")>>

MCBoundary ==
  [program |-> "solend", obligation_program |-> "solend", obligation_owner |-> w1,
   obligation_market |-> "m", market |-> "m", reserve |-> "r", obligation |-> "o",
   destination |-> d1, siblings |-> Pair]

MCBoundaries ==
  {Absent, MCBoundary,
   [MCBoundary EXCEPT !.obligation_owner = u1],
   [MCBoundary EXCEPT !.destination = d2],
   [MCBoundary EXCEPT !.siblings = <<Pair[2], Pair[1]>>]}

Sib(p, v, ws) == [program |-> p, variant |-> v, writes |-> ws]

MCJupiter ==
  [program |-> "jupiter", destination |-> d1, mint |-> "wsol",
   pre |-> [address |-> d1, mint |-> "wsol"], post |-> [address |-> d1, mint |-> "wsol"],
   input |-> "in", output |-> "out",
   siblings |-> <<Sib("compute_budget", 0, {}), Sib("jupiter", 0, {"pool"}),
                  Sib("spl_token", 9, {"out"})>>]

MCJupiters ==
  {Absent, MCJupiter,
   [MCJupiter EXCEPT !.siblings = @ \o <<Sib("jupiter", 0, {})>>],
   [MCJupiter EXCEPT !.siblings = <<Sib("spl_token", 4, {})>> \o @],
   [MCJupiter EXCEPT !.siblings = <<Sib("jupiter", 0, {"pool", "vault"})>>]}

---------------------------------------------------------------------------
(* Calls: a good one and those that differ from it in one respect.         *)

MCAccounts ==
  [wallet |-> w1, wallet_signed |-> TRUE, program |-> "solend", clock |-> "clock",
   sysvar_in_base |-> FALSE, obligation |-> "o", obligation_program |-> "solend",
   obligation_owner |-> w1, obligation_market |-> "m", reserve |-> "r",
   reserve_program |-> "solend", reserve_market |-> "m", market |-> "m",
   ctoken_program |-> "token", ctoken_owner |-> w1, ctoken_mint |-> "cusdc",
   collateral_mint |-> "cusdc", destination |-> d1, destination_program |-> "token",
   destination_mint |-> "usdc", token_program |-> "token",
   owner_slot |-> [key |-> w1, signed |-> TRUE],
   transfer_slot |-> [key |-> w1, signed |-> TRUE],
   pyth |-> "p", switchboard |-> "s"]

MCCpi ==
  {Absent, MCAccounts,
   [MCAccounts EXCEPT !.obligation_owner = w2],
   [MCAccounts EXCEPT !.destination = d2],
   [MCAccounts EXCEPT !.pyth = "q"],
   [MCAccounts EXCEPT !.wallet_signed = FALSE]}

FirstProof ==
  [logic |-> "all",
   conditions |-> <<[kind |-> "pyth", condition |-> Above, snapshot |-> Price(2, 0, 0, 0)]>>]

Good(r, solend) ==
  [account |-> <<u1, r>>, user |-> u1, rule |-> r, executor |-> "e1", signed |-> TRUE,
   hash |-> IF solend THEN "h1" ELSE "h2",
   action |-> IF solend THEN "solend" ELSE "jupiter",
   amount |-> 1, nonce |-> 1, proof |-> FirstProof,
   solend |-> IF solend THEN MCBoundary ELSE Absent,
   jupiter |-> IF solend THEN Absent ELSE MCJupiter, cpi |-> Absent]

MCCalls ==
  LET goods == {Good(r, b) : r \in {r1, r2}, b \in BOOLEAN}
      first == Good(r1, TRUE)
  IN goods
     \cup {[g EXCEPT !.nonce = 2] : g \in goods}
     \cup {[first EXCEPT !.amount = n] : n \in {0, 2, 3}}
     \cup {[first EXCEPT !.executor = "e2"], [first EXCEPT !.signed = FALSE],
           [first EXCEPT !.hash = "h2"], [first EXCEPT !.user = u2]}
     \cup {[first EXCEPT !.proof = x] : x \in MCProofs}
     \cup {[first EXCEPT !.solend = b] : b \in MCBoundaries}
     \cup {[first EXCEPT !.cpi = a] : a \in MCCpi}
     \cup {[Good(r1, FALSE) EXCEPT !.jupiter = b] : b \in MCJupiters}

---------------------------------------------------------------------------
(* The evaluator.                                                          *)

Watch(kind, key, c) == [kind |-> kind, key |-> key, condition |-> c]

Rate == Watch("solend", "reserve",
              (CHOOSE x \in MCSolend : x.condition.threshold_bps = 300).condition)

\* A rule on both, one on either, malformed in the price, and one that asks
\* for the price alone.
MCWatched ==
  {[logic |-> "all", conditions |-> <<Watch("pyth", "sol", Above), Rate>>],
   [logic |-> "any", conditions |-> <<Watch("pyth", "sol", Wrong), Rate>>],
   [logic |-> "all", conditions |-> <<Watch("pyth", "sol", Above)>>]}

MCErrors(k) == {IF k = "sol" THEN "terminal" ELSE "transient"}

\* Prices above and at the threshold; the reserve asked for, and another.
MCValues(k) ==
  IF k = "sol" THEN {Price(20, 0, -1, 0), Price(15, 0, -1, 0)}
  ELSE {[Curve(50, 80) EXCEPT !.available = 1, !.borrowed = 10000] @@ [reserve |-> r] :
          r \in {"reserve", "other"}}

\* The two share the clock and nothing else, so that either may stand still
\* while the other is looked at.  The program, with no tick ever beginning:
ProgramOnly ==
  AInit /\ NothingRead /\ tick = [f \in Ticks |-> [NoTick EXCEPT !.pc = "over"]]

\* The evaluator, after the user has taken back the last of MaxGrants grants.
WatcherOnly ==
  /\ authz = [p \in Address |-> Absent]
  /\ checkpoint = [k \in Brackets |-> Absent]
  /\ clock = [slot |-> 0, unix |-> 0]
  /\ balance = [d \in Destinations |-> 0]
  /\ position = [v \in Wallets |-> [collateral |-> Collateral, ctoken |-> 1]]
  /\ created = MaxGrants /\ takenBack = 1 .. MaxGrants
  /\ granted = [p \in Address |-> IF p = <<u1, r1>> THEN MaxGrants ELSE 0]
  /\ runs = [g \in 1 .. MaxGrants |-> 0]
  /\ EInit

Watching == \E f \in Ticks : tick[f].pc # "over"

MCNext ==
  \/ ~Watching /\ ANext /\ UNCHANGED evalVars
  \/ Watching /\ (\E seconds \in ClockSteps : Tick(seconds)) /\ UNCHANGED evalVars
  \/ ENext /\ UNCHANGED avars

MCSpec == (ProgramOnly \/ WatcherOnly) /\ [][MCNext]_<<avars, evalVars>>

===========================================================================
