------------------------- MODULE ConditionVerifier -------------------------
(* The arithmetic with which the on-chain authority program re-checks the  *)
(* conditions of a rule: a Pyth price against a threshold of another       *)
(* exponent, and a Solend reserve's supply rate in fixed-point ("WAD")     *)
(* numbers whose products do not fit the machine word.                     *)
(*                                                                         *)
(* Scale: SOLEND_WAD is 10^18 and a word has 128 bits in the code; Wad and *)
(* HalfBits make both small enough for every input to be tried.            *)
EXTENDS Integers, Sequences

CONSTANTS
  Wad,            \* SOLEND_WAD, a multiple of 10000
  HalfBits,       \* half the bits of a word (64 in the code)
  MaxExponentDiff,\* PYTH_MAX_EXPONENT_DIFF
  MaxConditions   \* MAX_PROOF_CONDITIONS

ASSUME ScaleAssumption ==
  /\ HalfBits \in Nat \ {0}
  /\ Wad \in Nat \ {0} /\ Wad % 10000 = 0
  /\ MaxExponentDiff \in Nat
  /\ MaxConditions \in Nat \ {0}

\* The error of the checked arithmetic; every caller passes it on.
Overflow == -1

---------------------------------------------------------------------------
(* floor(a * b / c) through a double word, long division bit by bit.       *)

\* A shift by n bits.
TwoTo[n \in Nat] == IF n = 0 THEN 1 ELSE 2 * TwoTo[n - 1]

Word(h) == TwoTo[2 * h]

ASSUME WadFitsWord == Wad < Word(HalfBits)

\* Seeded fault: the carry out of the two middle products is lost.
WideProductNoCarry(h, a, b) ==
  LET half == TwoTo[h]
      ll == (a % half) * (b % half)
      mid == ((a % half) * (b \div half) + (a \div half) * (b % half)) % Word(h)
      lo  == ll + (mid % half) * half
  IN [hi |-> (a \div half) * (b \div half) + (mid \div half)
               + (lo \div Word(h)),
      lo |-> lo % Word(h)]

\* The four partial products added into a pair of words.
WideProduct(h, a, b) ==
  LET half == TwoTo[h]
      ll == (a % half) * (b % half)
      lh == (a % half) * (b \div half)
      hl == (a \div half) * (b % half)
      mid == (lh + hl) % Word(h)
      lo  == ll + (mid % half) * half
  IN [hi |-> (a \div half) * (b \div half) + (mid \div half)
               + (lo \div Word(h))
               + (IF mid < lh THEN half ELSE 0),
      lo |-> lo % Word(h)]

bit_of_u256(h, n, i) ==
  IF i < 2 * h THEN (n.lo \div TwoTo[i]) % 2 ELSE (n.hi \div TwoTo[i - 2 * h]) % 2

\* One round: the remainder is shifted by one bit, the bit it loses counts.
DivideStep(h, d, bit, c) ==
  LET lost    == d.rem >= Word(h) \div 2
      shifted == (2 * d.rem + bit) % Word(h)
      sub     == lost \/ shifted >= c
  IN [rem  |-> IF sub THEN (shifted - c) % Word(h) ELSE shifted,
      quot |-> (2 * d.quot + (IF sub THEN 1 ELSE 0)) % Word(h),
      over |-> d.over \/ d.quot >= Word(h) \div 2]

\* Rounds from the top bit down to bit i.
LongDivision(h, n, c) ==
  LET rounds[i \in 0 .. 4 * h] ==
        IF i = 4 * h THEN [rem |-> 0, quot |-> 0, over |-> FALSE]
        ELSE DivideStep(h, rounds[i + 1], bit_of_u256(h, n, i), c)
  IN rounds[0]

\* checked_mul without computing the product.
FitsWord(h, a, b) == b = 0 \/ a <= (Word(h) - 1) \div b

mul_div_floor(h, a, b, c) ==
  IF c = 0 THEN Overflow
  ELSE IF FitsWord(h, a, b) THEN (a * b) \div c
  ELSE LET d == LongDivision(h, WideProduct(h, a, b), c)
       IN IF d.over THEN Overflow ELSE d.quot

\* What it must return: the floor of the quotient, or the error when that
\* does not fit a word.
FloorOrOverflow(h, a, b, c) ==
  IF c = 0 THEN Overflow
  ELSE IF (a * b) \div c >= Word(h) THEN Overflow
  ELSE (a * b) \div c

mul_wad(a, b) ==
  IF Overflow \in {a, b} THEN Overflow ELSE mul_div_floor(HalfBits, a, b, Wad)

div_wad(a, b) == mul_div_floor(HalfBits, a, Wad, b)

\* checked_add.
add_wad(a, b) ==
  IF Overflow \in {a, b} \/ a + b >= Word(HalfBits) THEN Overflow ELSE a + b

---------------------------------------------------------------------------
(* The supply rate of a reserve: utilisation through the kinked curve.     *)

pct_to_wad(pct) == pct * (Wad \div 100)

\* SolendReserveSnapshot.  Only what is borrowed takes a whole word; the
\* widest rate, as a fraction, still fits one.
ReserveSnapshot ==
  {s \in [min_rate : Nat, optimal_rate : Nat, max_rate : Nat, super_max_rate : Nat,
          optimal_util : Nat, max_util : Nat, take_rate : Nat, available : Nat,
          borrowed : 0 .. Word(HalfBits) - 1, last_update_slot : Nat, stale : BOOLEAN] :
     pct_to_wad(s.super_max_rate) < Word(HalfBits)}

is_reserve_config_valid(s) ==
  /\ s.min_rate <= s.optimal_rate
  /\ s.optimal_rate <= s.max_rate
  /\ s.max_rate <= s.super_max_rate
  /\ s.optimal_util <= s.max_util
  /\ s.max_util <= 100
  /\ s.take_rate <= 100

utilization_wad(s) ==
  LET denom == add_wad(s.borrowed, s.available * Wad)
  IN IF s.borrowed = 0 THEN 0
     ELSE IF denom = Overflow THEN Overflow
     ELSE div_wad(s.borrowed, denom)

\* base + (u - from) / (to - from) * (top - base)
Segment(u, from, to, base, top) ==
  add_wad(mul_wad(div_wad(u - from, to - from), top - base), base)

\* Seeded fault: the widest rate is read as a byte.
SuperMaxFromByte(s) == pct_to_wad(s.super_max_rate % 256)

\* The only rate of the reserve wider than a byte.
SuperMaxWad(s) == pct_to_wad(s.super_max_rate)

current_borrow_rate_wad(s) ==
  LET u   == utilization_wad(s)
      opt == pct_to_wad(s.optimal_util)
      top == pct_to_wad(s.max_util)
  IN CASE u = Overflow -> Overflow
       [] u # Overflow /\ u <= opt ->
            IF opt = 0 THEN pct_to_wad(s.min_rate)
            ELSE Segment(u, 0, opt, pct_to_wad(s.min_rate),
                         pct_to_wad(s.optimal_rate))
       [] u > opt /\ u <= top ->
            Segment(u, opt, top, pct_to_wad(s.optimal_rate),
                    pct_to_wad(s.max_rate))
       [] u > opt /\ u > top ->
            IF top = Wad THEN SuperMaxWad(s)
            ELSE Segment(u, top, Wad, pct_to_wad(s.max_rate), SuperMaxWad(s))

supply_apr_wad(s) ==
  mul_wad(current_borrow_rate_wad(s),
          mul_wad(utilization_wad(s), Wad - pct_to_wad(s.take_rate)))

---------------------------------------------------------------------------
(* One condition: the gates that must pass, then the comparison.           *)

Compare(cmp, lhs, rhs) ==
  CASE cmp = "lt"  -> lhs < rhs
    [] cmp = "lte" -> lhs <= rhs
    [] cmp = "gt"  -> lhs > rhs
    [] cmp = "gte" -> lhs >= rhs

Abs(n) == IF n < 0 THEN -n ELSE n

\* The conservative side of the confidence interval must be the one that
\* makes the comparison harder; the midpoint goes with either.
BoundAgrees(c) ==
  \/ c.bound_mode = "midpoint"
  \/ c.bound_mode = "lower" /\ c.comparison \in {"gt", "gte"}
  \/ c.bound_mode = "upper" /\ c.comparison \in {"lt", "lte"}

PythGates(c, s, now) ==
  /\ s.feed = c.feed
  /\ now - s.publish_time \in 0 .. c.max_age
  /\ BoundAgrees(c)
  /\ s.price # 0
  /\ (s.conf * 10000) \div Abs(s.price) <= c.max_confidence_bps
  /\ s.exponent - c.exponent \in -MaxExponentDiff .. MaxExponentDiff

PriceBound(c, s) ==
  CASE c.bound_mode = "lower"    -> s.price - s.conf
    [] c.bound_mode = "upper"    -> s.price + s.conf
    [] c.bound_mode = "midpoint" -> s.price

\* Seeded fault: the wrong side is scaled.
PythHoldsUnscaled(c, s) ==
  Compare(c.comparison, PriceBound(c, s), c.threshold)

\* pow10_i128.
TenTo[n \in Nat] == IF n = 0 THEN 1 ELSE 10 * TenTo[n - 1]

\* The side with the larger exponent is scaled up, so nothing is rounded.
PythHolds(c, s) ==
  LET diff == s.exponent - c.exponent
      bound == PriceBound(c, s)
  IN IF diff >= 0
     THEN Compare(c.comparison, bound * TenTo[diff], c.threshold)
     ELSE Compare(c.comparison, bound, c.threshold * TenTo[-diff])

SolendGates(c, s, slot) ==
  /\ c.formula_version = 1
  /\ c.rate_kind = "apr"
  /\ is_reserve_config_valid(s)
  /\ slot - s.last_update_slot \in 0 .. c.max_staleness
  /\ ~s.stale
  /\ supply_apr_wad(s) # Overflow

SolendHolds(c, s) ==
  Compare(c.comparison, supply_apr_wad(s), c.threshold_bps * (Wad \div 10000))

Gates(pc, clock) ==
  IF pc.kind = "pyth" THEN PythGates(pc.condition, pc.snapshot, clock.unix)
  ELSE SolendGates(pc.condition, pc.snapshot, clock.slot)

Holds(pc) ==
  IF pc.kind = "pyth" THEN PythHolds(pc.condition, pc.snapshot)
  ELSE SolendHolds(pc.condition, pc.snapshot)

\* A condition whose gates fail refuses the call whatever the others say.
ConditionsPass(proof, clock) ==
  /\ proof.conditions # << >>
  /\ Len(proof.conditions) <= MaxConditions
  /\ \A i \in DOMAIN proof.conditions : Gates(proof.conditions[i], clock)
  /\ IF proof.logic = "all"
     THEN \A i \in DOMAIN proof.conditions : Holds(proof.conditions[i])
     ELSE \E i \in DOMAIN proof.conditions : Holds(proof.conditions[i])

===========================================================================
