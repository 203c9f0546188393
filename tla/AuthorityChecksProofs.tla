---------------------- MODULE AuthorityChecksProofs ----------------------
(***************************************************************************)
(* Theorems about the pure checks of the authority program, for every      *)
(* input: the wide multiplication and division are exact whatever the      *)
(* width of a word, the supply rate follows its curve, and the walks over  *)
(* the sibling instructions accept only lists of the shape they promise.   *)
(*                                                                         *)
(* The checks recurse over numbers, so the first section has what the      *)
(* recursion needs: induction for a set of naturals, and that a function   *)
(* given by a first value and a table of steps exists.                     *)
(***************************************************************************)
EXTENDS ConditionVerifier, SiblingBoundary, WellFoundedInduction, SequenceTheorems, TLAPS

---------------------------------------------------------------------------
(* Induction and recursion over the naturals.                              *)

\* Induction for a set: what holds of 0 and passes from n to n + 1 holds of
\* every natural.
LEMMA NatSetInduction ==
  ASSUME NEW T, 0 \in T, \A n \in Nat : n \in T => n + 1 \in T
  PROVE  Nat \subseteq T
<1> DEFINE U == Nat \ T
<1> SUFFICES ASSUME U # {} PROVE FALSE
  OBVIOUS
<1>1. PICK x \in U : \A y \in U : ~ (<<y, x>> \in OpToRel(<, Nat))
  <2>1. IsWellFoundedOn(OpToRel(<, Nat), Nat)
    BY NatLessThanWellFounded
  <2>2. U \subseteq Nat
    OBVIOUS
  <2> HIDE DEF U
  <2> QED BY <2>1, <2>2, WFMin
<1>2. \A y \in U : ~(y < x)
  BY <1>1 DEF OpToRel
<1>3. x # 0 /\ x - 1 \in Nat
  OBVIOUS
<1>4. x - 1 \in U
  BY <1>3
<1> QED BY <1>2, <1>4

\* g follows the steps F from c for n rounds.
Follows(g, n, S, c, F) ==
  /\ g \in [0 .. n -> S]
  /\ g[0] = c
  /\ \A i \in 0 .. n - 1 : g[i + 1] = F[i][g[i]]

\* g follows them for ever.
Recurs(g, S, c, F) ==
  /\ g \in [Nat -> S]
  /\ g[0] = c
  /\ \A n \in Nat : g[n + 1] = F[n][g[n]]

\* The steps can be followed for any number of rounds.
LEMMA PrefixExists ==
  ASSUME NEW S, NEW c \in S, NEW F \in [Nat -> [S -> S]]
  PROVE  \A n \in Nat : \E g : Follows(g, n, S, c, F)
<1> DEFINE T == {n \in Nat : \E g : Follows(g, n, S, c, F)}
<1>1. 0 \in T
  <2>1. Follows([i \in 0 .. 0 |-> c], 0, S, c, F)
    BY DEF Follows
  <2> QED BY <2>1
<1>2. ASSUME NEW n \in Nat, n \in T PROVE n + 1 \in T
  <2>1. PICK g : Follows(g, n, S, c, F)
    BY <1>2
  <2> DEFINE h == [i \in 0 .. n + 1 |-> IF i = n + 1 THEN F[n][g[n]] ELSE g[i]]
  <2>2. g \in [0 .. n -> S] /\ g[n] \in S /\ F[n][g[n]] \in S
    BY <2>1 DEF Follows
  <2>3. h \in [0 .. n + 1 -> S]
    BY <2>2
  <2>4. h[0] = c
    BY <2>1 DEF Follows
  <2>5. ASSUME NEW i \in 0 .. (n + 1) - 1 PROVE h[i + 1] = F[i][h[i]]
    <3>1. h[i] = g[i]
      OBVIOUS
    <3>2. CASE i = n
      BY <3>1, <3>2
    <3>3. CASE i \in 0 .. n - 1
      <4>1. h[i + 1] = g[i + 1]
        BY <3>3
      <4> HIDE DEF h
      <4> QED BY <2>1, <3>1, <3>3, <4>1 DEF Follows
    <3> QED BY <3>2, <3>3
  <2>6. Follows(h, n + 1, S, c, F)
    <3> HIDE DEF h
    <3> QED BY <2>3, <2>4, <2>5 DEF Follows
  <2> QED BY <2>6
<1> HIDE DEF T
<1>3. Nat \subseteq T
  BY <1>1, <1>2, NatSetInduction
<1> QED BY <1>3 DEF T

\* Two ways of following them agree as far as both go.
LEMMA PrefixUnique ==
  ASSUME NEW S, NEW c \in S, NEW F \in [Nat -> [S -> S]], NEW n \in Nat, NEW m \in Nat,
         n <= m, NEW g, NEW h, Follows(g, n, S, c, F), Follows(h, m, S, c, F)
  PROVE  \A i \in 0 .. n : g[i] = h[i]
<1> DEFINE T == {i \in Nat : i \in 0 .. n => g[i] = h[i]}
<1>1. 0 \in T
  BY DEF Follows
<1>2. ASSUME NEW i \in Nat, i \in T PROVE i + 1 \in T
  <2> SUFFICES ASSUME i + 1 \in 0 .. n PROVE g[i + 1] = h[i + 1]
    OBVIOUS
  <2>1. i \in 0 .. n - 1 /\ i \in 0 .. m - 1 /\ i \in 0 .. n /\ g[i] = h[i]
    BY <1>2
  <2> HIDE DEF T
  <2> QED BY <2>1 DEF Follows
<1> HIDE DEF T
<1>3. Nat \subseteq T
  BY <1>1, <1>2, NatSetInduction
<1> QED BY <1>3 DEF T

\* So they can be followed for ever: the recursion defines a function.
LEMMA RecursionOverNat ==
  ASSUME NEW S, NEW c \in S, NEW F \in [Nat -> [S -> S]]
  PROVE  \E g : Recurs(g, S, c, F)
<1> DEFINE p(n) == CHOOSE g : Follows(g, n, S, c, F)
           G == [n \in Nat |-> p(n)[n]]
<1>1. ASSUME NEW n \in Nat PROVE Follows(p(n), n, S, c, F)
  BY PrefixExists
<1> HIDE DEF p
<1>2. G \in [Nat -> S]
  BY <1>1 DEF Follows
<1>3. G[0] = c
  BY <1>1 DEF Follows
<1>4. ASSUME NEW n \in Nat PROVE G[n + 1] = F[n][G[n]]
  <2>1. Follows(p(n), n, S, c, F) /\ Follows(p(n + 1), n + 1, S, c, F)
    BY <1>1
  <2>2. p(n)[n] = p(n + 1)[n]
    <3>1. \A i \in 0 .. n : p(n)[i] = p(n + 1)[i]
      BY <2>1, PrefixUnique
    <3> QED BY <3>1
  <2>3. p(n + 1)[n + 1] = F[n][p(n + 1)[n]]
    BY <2>1 DEF Follows
  <2> QED BY <2>2, <2>3
<1>5. Recurs(G, S, c, F)
  <2> HIDE DEF G
  <2> QED BY <1>2, <1>3, <1>4 DEF Recurs
<1> QED BY <1>5

---------------------------------------------------------------------------
(* mul_div_floor_u128: products and quotients of words.                    *)

\* TwoTo is the power of two.
LEMMA TwoToIs ==
  /\ TwoTo \in [Nat -> Nat \ {0}]
  /\ TwoTo[0] = 1
  /\ \A n \in Nat : TwoTo[n + 1] = 2 * TwoTo[n]
<1> DEFINE P(f) == f = [n \in Nat |-> IF n = 0 THEN 1 ELSE 2 * f[n - 1]]
           S == Nat \ {0}
           c == 1
           F == [n \in Nat |-> [v \in S |-> 2 * v]]
<1>1. PICK g \in [Nat -> S] : g[0] = 1 /\ \A n \in Nat : g[n + 1] = 2 * g[n]
  <2>1. F \in [Nat -> [S -> S]]
    OBVIOUS
  <2>2. \E g : Recurs(g, S, c, F)
    <3>1. c \in S
      OBVIOUS
    <3> HIDE DEF F, S, c
    <3> QED BY <2>1, <3>1, RecursionOverNat
  <2> QED BY <2>2 DEF Recurs
<1>2. P(g)
  BY <1>1
<1>3. P(TwoTo)
  <2>1. TwoTo = CHOOSE f : P(f)
    BY DEF TwoTo
  <2> HIDE DEF P
  <2> QED BY <1>2, <2>1
<1>4. \A n \in Nat : TwoTo[n] = IF n = 0 THEN 1 ELSE 2 * TwoTo[n - 1]
  BY <1>3
<1>5. TwoTo[0] = 1 /\ \A n \in Nat : TwoTo[n + 1] = 2 * TwoTo[n]
  BY <1>4
<1> DEFINE T == {n \in Nat : TwoTo[n] \in S}
<1>6. Nat \subseteq T
  <2>1. 0 \in T /\ \A n \in Nat : n \in T => n + 1 \in T
    BY <1>5
  <2> HIDE DEF T
  <2> QED BY <2>1, NatSetInduction
<1> QED BY <1>3, <1>5, <1>6

\* A shift by m + n bits is one by m and one by n.
LEMMA TwoToAdds ==
  ASSUME NEW m \in Nat
  PROVE  \A n \in Nat : TwoTo[m + n] = TwoTo[m] * TwoTo[n]
<1> DEFINE T == {n \in Nat : TwoTo[m + n] = TwoTo[m] * TwoTo[n]}
<1>1. 0 \in T
  BY TwoToIs
<1>2. ASSUME NEW n \in Nat, n \in T PROVE n + 1 \in T
  <2>1. m + n \in Nat /\ (m + n) + 1 = m + (n + 1)
    OBVIOUS
  <2>2. TwoTo[(m + n) + 1] = 2 * TwoTo[m + n] /\ TwoTo[n + 1] = 2 * TwoTo[n]
    BY <2>1, TwoToIs
  <2>3. TwoTo[m + n] = TwoTo[m] * TwoTo[n]
    BY <1>2
  <2>4. TwoTo[m] \in Nat /\ TwoTo[n] \in Nat
    BY TwoToIs
  <2>5. \A u, v \in Nat : 2 * (u * v) = u * (2 * v)
    OBVIOUS
  <2>6. 2 * (TwoTo[m] * TwoTo[n]) = TwoTo[m] * (2 * TwoTo[n])
    BY <2>4, <2>5
  <2> QED BY <2>1, <2>2, <2>3, <2>6
<1>3. Nat \subseteq T
  <2> HIDE DEF T
  <2> QED BY <1>1, <1>2, NatSetInduction
<1> QED BY <1>3

\* A word is two half-words, a double word two words.
LEMMA WordIs ==
  ASSUME NEW h \in Nat
  PROVE  /\ TwoTo[h] \in Nat \ {0}
         /\ Word(h) = TwoTo[h] * TwoTo[h]
         /\ Word(h) \in Nat \ {0}
         /\ TwoTo[4 * h] = Word(h) * Word(h)
<1>1. 2 * h = h + h /\ 4 * h = (2 * h) + (2 * h) /\ 2 * h \in Nat /\ 4 * h \in Nat
  OBVIOUS
<1>2. TwoTo[h + h] = TwoTo[h] * TwoTo[h]
  BY TwoToAdds
<1>3. TwoTo[(2 * h) + (2 * h)] = TwoTo[2 * h] * TwoTo[2 * h]
  BY <1>1, TwoToAdds
<1> QED BY <1>1, <1>2, <1>3, TwoToIs DEF Word

\* Division with remainder.
LEMMA DivMod ==
  ASSUME NEW n \in Nat, NEW d \in Nat \ {0}
  PROVE  /\ n \div d \in Nat /\ n % d \in 0 .. d - 1
         /\ n = (n \div d) * d + (n % d)
<1>1. n \div d \in Int /\ n % d \in Int
  OBVIOUS
<1>2. n % d \in 0 .. d - 1
  OBVIOUS
<1>3. n = d * (n \div d) + (n % d)
  OBVIOUS
<1>4. n \div d >= 0
  OBVIOUS
<1>5. d * (n \div d) = (n \div d) * d
  BY <1>1
<1> QED BY <1>1, <1>2, <1>3, <1>4, <1>5

\* Quotient and remainder are unique.
LEMMA DivModUnique ==
  ASSUME NEW d \in Nat \ {0}, NEW q \in Nat, NEW r \in 0 .. d - 1
  PROVE  (q * d + r) \div d = q /\ (q * d + r) % d = r
OBVIOUS

\* A number below the modulus is its own remainder.
LEMMA SmallMod ==
  ASSUME NEW d \in Nat \ {0}, NEW r \in 0 .. d - 1
  PROVE  r % d = r
OBVIOUS

\* The four partial products add up.
LEMMA WideProductIs ==
  ASSUME NEW h \in Nat, NEW a \in 0 .. Word(h) - 1, NEW b \in 0 .. Word(h) - 1
  PROVE  LET n == WideProduct(h, a, b)
         IN /\ n.hi \in Nat /\ n.lo \in 0 .. Word(h) - 1
            /\ n.hi * Word(h) + n.lo = a * b
<1> DEFINE H == TwoTo[h]
           W == Word(h)
           a0 == a % H
           a1 == a \div H
           b0 == b % H
           b1 == b \div H
           ll == a0 * b0
           lh == a0 * b1
           hl == a1 * b0
           hh == a1 * b1
           mid == (lh + hl) % W
           m1 == mid \div H
           m0 == mid % H
           lo == ll + m0 * H
           c1 == lo \div W
           c2 == IF mid < lh THEN H ELSE 0
           n == WideProduct(h, a, b)
<1>1. H \in Nat \ {0} /\ W = H * H /\ W \in Nat \ {0} /\ a \in Nat /\ b \in Nat
  BY WordIs
<1>2. n.hi = hh + m1 + c1 + c2 /\ n.lo = lo % W
  BY DEF WideProduct
<1> HIDE DEF H, W, n
<1>3. /\ a0 \in 0 .. H - 1 /\ a1 \in Nat /\ a = a1 * H + a0
      /\ b0 \in 0 .. H - 1 /\ b1 \in Nat /\ b = b1 * H + b0
  BY <1>1, DivMod
<1>4. a1 \in 0 .. H - 1 /\ b1 \in 0 .. H - 1
  <2>1. \A v, u \in Nat : v >= H => v * H + u >= H * H
    BY <1>1
  <2>2. a < H * H /\ b < H * H
    BY <1>1 DEF W
  <2> HIDE DEF a0, a1, b0, b1
  <2> QED BY <1>1, <1>3, <2>1, <2>2
<1> HIDE DEF a0, a1, b0, b1
<1>5. ll \in Nat /\ lh \in Nat /\ hl \in Nat /\ hh \in Nat /\ lh < W /\ hl < W
  <2>1. \A u, v \in 0 .. H - 1 : u * v \in Nat /\ u * v < H * H
    BY <1>1
  <2> QED BY <1>1, <1>3, <1>4, <2>1
<1> HIDE DEF ll, lh, hl, hh
<1>6. mid \in 0 .. W - 1 /\ lh + hl = (IF mid < lh THEN W ELSE 0) + mid
  <2>1. CASE lh + hl < W
    <3>1. mid = lh + hl
      BY <1>1, <1>5, <2>1
    <3> HIDE DEF mid
    <3> QED BY <1>1, <1>5, <2>1, <3>1
  <2>2. CASE lh + hl >= W
    <3>1. lh + hl = 1 * W + (lh + hl - W) /\ lh + hl - W \in 0 .. W - 1
      BY <1>1, <1>5, <2>2
    <3>2. mid = lh + hl - W
      BY <1>1, <3>1, DivModUnique
    <3> QED BY <1>1, <1>5, <2>2, <3>1, <3>2
  <2> QED BY <1>1, <1>5, <2>1, <2>2
<1> HIDE DEF mid
<1>7. m1 \in Nat /\ m0 \in 0 .. H - 1 /\ mid = m1 * H + m0
  <2>1. mid \in Nat
    BY <1>1, <1>6
  <2> QED BY <1>1, <2>1, DivMod
<1> HIDE DEF m0, m1
<1>8. lo \in Nat
  BY <1>1, <1>5, <1>7
<1> HIDE DEF lo
<1>9. c1 \in Nat /\ lo % W \in 0 .. W - 1 /\ lo = c1 * W + (lo % W)
  BY <1>1, <1>8, DivMod
<1> HIDE DEF c1
<1>10. c2 \in Nat /\ c2 * H = (IF mid < lh THEN W ELSE 0)
  BY <1>1
<1> HIDE DEF c2
<1>11. lh + hl = c2 * H + (m1 * H + m0)
  BY <1>6, <1>7, <1>10
<1> DEFINE e == lo % W
<1>12. e \in Nat /\ lo = c1 * W + e /\ lo = ll + m0 * H
  BY <1>9 DEF lo
<1> HIDE DEF e
<1>13. (hh + m1 + c1 + c2) * W + e = a * b
  <2>1. a * b = hh * (H * H) + (lh + hl) * H + ll
    BY <1>1, <1>3 DEF ll, lh, hl, hh
  <2>2. (hh + m1 + c1 + c2) * W + e = hh * W + m1 * W + c2 * W + (c1 * W + e)
    BY <1>1, <1>5, <1>7, <1>9, <1>10, <1>12
  <2>3. m1 * W + c2 * W + m0 * H = (c2 * H + (m1 * H + m0)) * H
    BY <1>1, <1>7, <1>10
  <2> QED BY <1>1, <1>5, <1>7, <1>9, <1>10, <1>11, <1>12, <2>1, <2>2, <2>3
<1> QED BY <1>1, <1>2, <1>5, <1>7, <1>9, <1>10, <1>12, <1>13 DEF e, W, n

\* Bit i of the double word.
LEMMA BitIs ==
  ASSUME NEW h \in Nat, NEW n, n.hi \in Nat, n.lo \in 0 .. Word(h) - 1, NEW i \in 0 .. 4 * h - 1
  PROVE  LET p == n.hi * Word(h) + n.lo
             q == p \div TwoTo[i + 1]
         IN /\ bit_of_u256(h, n, i) \in {0, 1}
            /\ q \in Nat
            /\ p \div TwoTo[i] = 2 * q + bit_of_u256(h, n, i)
<1> DEFINE W == Word(h)
           hi == n.hi
           lo == n.lo
           p == hi * W + lo
           D == TwoTo[i]
           u == p \div D
           bit == bit_of_u256(h, n, i)
<1>1. /\ W \in Nat \ {0} /\ D \in Nat \ {0} /\ TwoTo[i + 1] = 2 * D
      /\ hi \in Nat /\ lo \in Nat /\ lo < W
  <2>1. W \in Nat \ {0}
    BY WordIs
  <2>2. i \in Nat
    OBVIOUS
  <2>3. D \in Nat \ {0} /\ TwoTo[i + 1] = 2 * D
    BY <2>2, TwoToIs
  <2> HIDE DEF W, D
  <2> QED BY <2>1, <2>3 DEF W
<1>2. p \in Nat
  BY <1>1
<1>3. u \in Nat
  BY <1>1, <1>2, DivMod
<1>4. bit = u % 2
  <2>1. CASE i < 2 * h
    <3> DEFINE k == 2 * h - i - 1
               E == TwoTo[k]
               v == lo \div D
    <3>1. k \in Nat /\ i + (k + 1) = 2 * h
      BY <2>1
    <3>2. E \in Nat \ {0} /\ TwoTo[k + 1] = 2 * E
      BY <3>1, TwoToIs
    <3>3. W = D * (2 * E)
      <4>1. TwoTo[i + (k + 1)] = TwoTo[i] * TwoTo[k + 1]
        BY <3>1, TwoToAdds
      <4> QED BY <3>1, <3>2, <4>1 DEF Word
    <3>4. bit = v % 2
      BY <2>1 DEF bit_of_u256
    <3> HIDE DEF W, D, E, bit, p
    <3>5. v \in Nat /\ lo % D \in 0 .. D - 1 /\ lo = v * D + (lo % D)
      BY <1>1, DivMod
    <3> HIDE DEF v
    <3>6. p = (2 * (hi * E) + v) * D + (lo % D)
      <4>1. hi * (D * (2 * E)) = (2 * (hi * E)) * D
        BY <1>1, <3>2
      <4>2. \A y \in Nat : (y + v) * D = y * D + v * D
        BY <1>1, <3>5
      <4>3. 2 * (hi * E) \in Nat
        BY <1>1, <3>2
      <4> DEFINE y == 2 * (hi * E)
      <4>4. hi * W = y * D
        BY <3>3, <4>1
      <4>5. p = hi * W + lo
        BY DEF p
      <4>6. y \in Nat /\ y * D \in Nat /\ v * D \in Nat
        BY <1>1, <3>5, <4>3
      <4> HIDE DEF y
      <4>7. (y + v) * D = y * D + v * D
        BY <4>2, <4>6
      <4> QED BY <1>1, <3>5, <4>4, <4>5, <4>6, <4>7 DEF y
    <3>7. 2 * (hi * E) + v \in Nat
      BY <1>1, <3>2, <3>5
    <3>8. u = 2 * (hi * E) + v
      BY <1>1, <3>5, <3>6, <3>7, DivModUnique
    <3>9. hi * E \in Nat
      BY <1>1, <3>2
    <3> QED BY <3>4, <3>5, <3>8, <3>9
  <2>2. CASE i >= 2 * h
    <3> DEFINE k == i - 2 * h
               E == TwoTo[k]
               v == hi \div E
               r == hi % E
    <3>1. k \in Nat /\ (2 * h) + k = i
      BY <2>2
    <3>2. E \in Nat \ {0}
      BY <3>1, TwoToIs
    <3>3. D = W * E
      <4>1. TwoTo[(2 * h) + k] = TwoTo[2 * h] * TwoTo[k]
        BY <3>1, TwoToAdds
      <4> QED BY <3>1, <4>1 DEF Word
    <3>4. bit = v % 2
      BY <2>2 DEF bit_of_u256
    <3> HIDE DEF W, D, E, bit, p
    <3>5. v \in Nat /\ r \in 0 .. E - 1 /\ hi = v * E + r
      BY <1>1, <3>2, DivMod
    <3> HIDE DEF v, r
    <3>6. p = v * D + (r * W + lo)
      <4>1. (v * E + r) * W = v * (W * E) + r * W
        BY <1>1, <3>2, <3>5
      <4> QED BY <1>1, <3>3, <3>5, <4>1 DEF p
    <3>7. r * W + lo \in 0 .. D - 1
      <4>1. r * W <= (E - 1) * W
        BY <1>1, <3>2, <3>5
      <4>2. (E - 1) * W = W * E - W
        BY <1>1, <3>2
      <4>3. r * W \in Nat
        BY <1>1, <3>5, <3>2
      <4> QED BY <1>1, <3>2, <3>3, <4>1, <4>2, <4>3
    <3>8. u = v
      BY <1>1, <3>5, <3>6, <3>7, DivModUnique
    <3> QED BY <3>4, <3>8
  <2> QED BY <2>1, <2>2
<1> HIDE DEF bit, p, D, u
<1> DEFINE q == p \div (2 * D)
<1>5. u = 2 * (u \div 2) + (u % 2) /\ u \div 2 \in Nat /\ u % 2 \in {0, 1}
  BY <1>3
<1>6. q = u \div 2
  <2> DEFINE s == p % D
             t == u \div 2
             b == u % 2
  <2>1. s \in 0 .. D - 1 /\ p = u * D + s
    BY <1>1, <1>2, DivMod DEF u
  <2>2. u = 2 * t + b /\ t \in Nat /\ b \in {0, 1}
    BY <1>5
  <2> HIDE DEF s, t, b
  <2>3. p = t * (2 * D) + (b * D + s)
    <3>1. (2 * t + b) * D = t * (2 * D) + b * D
      BY <1>1, <2>2
    <3> QED BY <1>1, <2>1, <2>2, <3>1
  <2>4. b * D + s \in 0 .. (2 * D) - 1 /\ 2 * D \in Nat \ {0}
    BY <1>1, <2>1, <2>2
  <2>5. q = t
    BY <2>2, <2>3, <2>4, DivModUnique
  <2> QED BY <2>5 DEF t
<1> QED BY <1>1, <1>4, <1>5, <1>6 DEF bit, p, D, u

Division == [rem : Nat, quot : Nat, over : BOOLEAN]

\* What the rounds have computed once they have consumed the bits of p.
Divided(h, d, p, c) ==
  /\ d \in Division
  /\ d.rem = p % c
  /\ d.over <=> p \div c >= Word(h)
  /\ ~d.over => d.quot = p \div c

\* The top bit of a word is worth half of it.
LEMMA WordIsEven ==
  ASSUME NEW h \in Nat \ {0}
  PROVE  \E v \in Nat \ {0} : Word(h) = 2 * v /\ Word(h) \div 2 = v
<1>1. 2 * h - 1 \in Nat /\ (2 * h - 1) + 1 = 2 * h
  OBVIOUS
<1>2. TwoTo[2 * h] = 2 * TwoTo[2 * h - 1] /\ TwoTo[2 * h - 1] \in Nat \ {0}
  BY <1>1, TwoToIs
<1> DEFINE v == TwoTo[2 * h - 1]
<1>3. v \in Nat \ {0} /\ Word(h) = 2 * v
  BY <1>2 DEF Word
<1> HIDE DEF v
<1>4. Word(h) \div 2 = v
  BY <1>3
<1> QED BY <1>3, <1>4

\* mul_div_floor_u128: a round that shifts in one more bit divides what has
\* been shifted in so far, although the shift loses the remainder's top bit.
LEMMA DivideStepKeeps ==
  ASSUME NEW h \in Nat \ {0}, NEW c \in 1 .. Word(h) - 1, NEW p \in Nat, NEW bit \in {0, 1},
         NEW d, Divided(h, d, p, c)
  PROVE  Divided(h, DivideStep(h, d, bit, c), 2 * p + bit, c)
<1> DEFINE W == Word(h)
           t == 2 * d.rem + bit
           lost == d.rem >= W \div 2
           shifted == t % W
           sub == lost \/ shifted >= c
           s == IF sub THEN 1 ELSE 0
           e == DivideStep(h, d, bit, c)
           q == p \div c
<1>1. PICK v \in Nat \ {0} : W = 2 * v /\ W \div 2 = v
  BY WordIsEven
<1>2. /\ c \in Nat \ {0} /\ c < W
      /\ q \in Nat /\ d.rem \in 0 .. c - 1 /\ p = q * c + d.rem
      /\ d \in Division
  <2>1. c \in Nat \ {0} /\ c < W
    BY <1>1
  <2>2. d.rem = p % c /\ d \in Division
    BY DEF Divided
  <2> HIDE DEF W
  <2> QED BY <2>1, <2>2, DivMod
<1>3. /\ e.rem = IF sub THEN (shifted - c) % W ELSE shifted
      /\ e.quot = (2 * d.quot + s) % W
      /\ e.over = (d.over \/ d.quot >= W \div 2)
      /\ e = [rem |-> e.rem, quot |-> e.quot, over |-> e.over]
  BY DEF DivideStep
<1> HIDE DEF W, e, q
<1>4. t \in 0 .. 2 * c - 1 /\ t < 2 * W
  BY <1>1, <1>2
<1>5. (sub <=> t >= c) /\ e.rem = t - s * c
  <2>1. CASE lost
    <3>1. t >= W /\ t = 1 * W + (t - W) /\ t - W \in 0 .. W - 1
      BY <1>1, <1>2, <1>4, <2>1
    <3>2. shifted = t - W
      BY <1>1, <3>1, DivModUnique
    <3>3. sub /\ s = 1
      BY <2>1
    <3>4. shifted - c = t - W - c /\ t - c \in 0 .. W - 1
      BY <1>1, <1>2, <1>4, <3>1, <3>2
    <3>5. (t - W - c) % W = t - c
      BY <1>1, <1>2, <3>1, <3>4
    <3> HIDE DEF shifted, sub, s, t
    <3> QED BY <1>1, <1>2, <1>3, <1>4, <3>1, <3>2, <3>3, <3>4, <3>5
  <2>2. CASE ~lost
    <3>1. t \in 0 .. W - 1
      BY <1>1, <1>2, <1>4, <2>2
    <3>2. shifted = t
      BY <1>1, <3>1
    <3>3. sub <=> t >= c
      BY <2>2, <3>2
    <3>4. t >= c => (t - c) % W = t - c
      <4> SUFFICES ASSUME t >= c PROVE (t - c) % W = t - c
        OBVIOUS
      <4>1. t - c \in 0 .. W - 1
        BY <1>1, <1>2, <3>1
      <4> HIDE DEF t
      <4> QED BY <1>1, <4>1, SmallMod
    <3>5. s = (IF sub THEN 1 ELSE 0)
      OBVIOUS
    <3> HIDE DEF shifted, sub, s, t
    <3> QED BY <1>1, <1>2, <1>3, <1>4, <3>1, <3>2, <3>3, <3>4, <3>5
  <2> QED BY <2>1, <2>2
<1>6. s \in {0, 1} /\ (s = 1 <=> t >= c)
  BY <1>5
<1> HIDE DEF sub, s
<1>7. e.rem \in 0 .. c - 1
  BY <1>2, <1>4, <1>5, <1>6
<1>8. 2 * p + bit = (2 * q + s) * c + e.rem
  <2>1. 2 * p + bit = 2 * (q * c) + t
    BY <1>2
  <2>2. (2 * q + s) * c = 2 * (q * c) + s * c
    BY <1>2, <1>6
  <2>3. s * c \in Nat /\ q * c \in Nat
    BY <1>2, <1>6
  <2> HIDE DEF t
  <2> QED BY <1>2, <1>4, <1>5, <2>1, <2>2, <2>3
<1>9. (2 * p + bit) \div c = 2 * q + s /\ (2 * p + bit) % c = e.rem
  <2>1. 2 * q + s \in Nat
    BY <1>2, <1>6
  <2> QED BY <1>2, <1>7, <1>8, <2>1, DivModUnique
<1>10. d.quot \in Nat /\ d.over \in BOOLEAN /\ (d.over <=> q >= W) /\ (~d.over => d.quot = q)
  BY <1>2 DEF Divided, Division, q, W
<1>11. e.over \in BOOLEAN /\ (e.over <=> 2 * q + s >= W)
  <2>1. e.over \in BOOLEAN
    BY <1>3, <1>10
  <2>2. CASE d.over
    <3>1. q >= W
      BY <1>10, <2>2
    <3>2. 2 * q + s >= W
      BY <1>1, <1>2, <1>6, <3>1
    <3>3. e.over
      BY <1>3, <2>2
    <3> QED BY <2>1, <3>2, <3>3
  <2>3. CASE ~d.over
    <3>1. e.over <=> q >= v
      BY <1>1, <1>3, <1>10, <2>3
    <3>2. q >= v <=> 2 * q + s >= W
      BY <1>1, <1>2, <1>6
    <3> QED BY <2>1, <3>1, <3>2
  <2> QED BY <2>2, <2>3
<1>12. ~e.over => e.quot = 2 * q + s
  <2> SUFFICES ASSUME ~e.over PROVE e.quot = 2 * q + s
    OBVIOUS
  <2>1. ~d.over
    BY <1>3
  <2>2. d.quot = q /\ 2 * q + s < W /\ 2 * q + s \in Nat
    BY <1>1, <1>2, <1>6, <1>10, <1>11, <2>1
  <2>3. (2 * q + s) % W = 2 * q + s
    BY <1>1, <2>2
  <2> QED BY <1>3, <2>2, <2>3
<1>13. e \in Division
  <2>1. 2 * d.quot + s \in Nat
    BY <1>6, <1>10
  <2>2. e.quot \in Nat
    BY <1>1, <1>3, <2>1
  <2>3. e.rem \in Nat
    BY <1>2, <1>7
  <2>4. [rem |-> e.rem, quot |-> e.quot, over |-> e.over] \in Division
    BY <1>11, <2>2, <2>3 DEF Division
  <2> QED BY <1>3, <2>4
<1> QED BY <1>9, <1>11, <1>12, <1>13 DEF Divided, W, e

\* Before the first round.
Undivided == [rem |-> 0, quot |-> 0, over |-> FALSE]

\* The rounds of LongDivision.
IsRounds(f, h, n, c) ==
  f = [i \in 0 .. 4 * h |->
         IF i = 4 * h THEN [rem |-> 0, quot |-> 0, over |-> FALSE]
         ELSE DivideStep(h, f[i + 1], bit_of_u256(h, n, i), c)]

\* A round keeps the remainder, the quotient and the flag what they are.
LEMMA DivideStepType ==
  ASSUME NEW h \in Nat, NEW d \in Division, NEW bit \in {0, 1}, NEW c \in Nat
  PROVE  DivideStep(h, d, bit, c) \in Division
<1> DEFINE W == Word(h)
           shifted == (2 * d.rem + bit) % W
           sub == d.rem >= W \div 2 \/ shifted >= c
           rem == IF sub THEN (shifted - c) % W ELSE shifted
           quot == (2 * d.quot + (IF sub THEN 1 ELSE 0)) % W
           over == d.over \/ d.quot >= W \div 2
<1>1. W \in Nat \ {0}
  BY WordIs
<1>2. d.rem \in Nat /\ d.quot \in Nat /\ d.over \in BOOLEAN
  BY DEF Division
<1>3. DivideStep(h, d, bit, c) = [rem |-> rem, quot |-> quot, over |-> over]
  BY DEF DivideStep
<1> HIDE DEF W
<1>4. shifted \in Nat
  BY <1>1, <1>2
<1> HIDE DEF shifted
<1>5. rem \in Nat
  BY <1>1, <1>4
<1>6. quot \in Nat
  BY <1>1, <1>2
<1>7. over \in BOOLEAN
  OBVIOUS
<1> HIDE DEF rem, quot, over
<1> QED BY <1>3, <1>5, <1>6, <1>7 DEF Division

\* The rounds from the top bit down are defined, each by the one above it.
LEMMA RoundsExist ==
  ASSUME NEW h \in Nat, NEW c \in Nat, NEW n, n.hi \in Nat, n.lo \in 0 .. Word(h) - 1
  PROVE  LET f == CHOOSE g : IsRounds(g, h, n, c) IN
           /\ f[4 * h] = Undivided
           /\ \A i \in 0 .. 4 * h - 1 :
                f[i] = DivideStep(h, f[i + 1], bit_of_u256(h, n, i), c)
<1> DEFINE m == 4 * h
           Step(d, i) == DivideStep(h, d, bit_of_u256(h, n, i), c)
           F == [k \in Nat |-> [d \in Division |-> IF k < m THEN Step(d, m - 1 - k) ELSE d]]
<1>0. m \in Nat
  OBVIOUS
<1>1. F \in [Nat -> [Division -> Division]]
  <2>1. ASSUME NEW k \in Nat, NEW d \in Division, k < m PROVE Step(d, m - 1 - k) \in Division
    <3>1. m - 1 - k \in 0 .. m - 1
      BY <1>0, <2>1
    <3>2. bit_of_u256(h, n, m - 1 - k) \in {0, 1}
      BY <3>1, BitIs
    <3> QED BY <3>2, DivideStepType
  <2> HIDE DEF Step, m
  <2> QED BY <2>1
<1>2. Undivided \in Division
  BY DEF Undivided, Division
<1>3. PICK g : Recurs(g, Division, Undivided, F)
  <2> HIDE DEF F
  <2> QED BY <1>1, <1>2, RecursionOverNat
<1> HIDE DEF Step
<1>4. /\ g \in [Nat -> Division] /\ g[0] = Undivided
      /\ \A k \in Nat : k < m => g[k + 1] = Step(g[k], m - 1 - k)
  BY <1>3 DEF Recurs
<1> HIDE DEF m
<1> DEFINE r == [i \in 0 .. m |-> g[m - i]]
<1>5. ASSUME NEW i \in 0 .. m
      PROVE  r[i] = IF i = m THEN Undivided ELSE Step(r[i + 1], i)
  <2>1. CASE i = m
    BY <1>0, <1>4, <2>1
  <2>2. CASE i # m
    <3> DEFINE k == m - i - 1
    <3>1. k \in Nat /\ k < m /\ m - 1 - k = i /\ k + 1 = m - i /\ i + 1 \in 0 .. m /\ m - (i + 1) = k
      BY <1>0, <2>2
    <3>2. g[m - i] = Step(g[k], i)
      BY <1>4, <3>1
    <3>3. r[i] = g[m - i] /\ r[i + 1] = g[k]
      BY <3>1
    <3> HIDE DEF r, k
    <3> QED BY <2>2, <3>2, <3>3
  <2> QED BY <2>1, <2>2
<1>6. IsRounds(r, h, n, c)
  BY <1>5 DEF IsRounds, Step, m, Undivided
<1> DEFINE f == CHOOSE y : IsRounds(y, h, n, c)
<1>7. IsRounds(f, h, n, c)
  BY <1>6
<1> HIDE DEF f
<1>8. \A i \in 0 .. m : f[i] = IF i = m THEN Undivided ELSE Step(f[i + 1], i)
  BY <1>7 DEF IsRounds, Step, m, Undivided
<1>9. m \in 0 .. m /\ \A i \in 0 .. m - 1 : i \in 0 .. m /\ i # m
  BY <1>0
<1>10. f[m] = Undivided /\ \A i \in 0 .. m - 1 : f[i] = Step(f[i + 1], i)
  BY <1>8, <1>9
<1> QED BY <1>10 DEF f, Step, m

\* After the last round the whole double word has been divided.
LEMMA LongDivisionIs ==
  ASSUME NEW h \in Nat \ {0}, NEW c \in 1 .. Word(h) - 1,
         NEW n, n.hi \in Nat, n.lo \in 0 .. Word(h) - 1,
         NEW p, p = n.hi * Word(h) + n.lo, p < Word(h) * Word(h)
  PROVE  Divided(h, LongDivision(h, n, c), p, c)
<1> DEFINE m == 4 * h
           f == CHOOSE g : IsRounds(g, h, n, c)
           T == {k \in Nat : k \in 0 .. m => Divided(h, f[m - k], p \div TwoTo[m - k], c)}
<1>0. m \in Nat /\ c \in Nat
  BY WordIs
<1>p. p \in Nat
  <2>1. Word(h) \in Nat
    BY WordIs
  <2>2. n.hi * Word(h) \in Nat /\ n.lo \in Nat
    BY <2>1
  <2> QED BY <2>1, <2>2
<1>1. LongDivision(h, n, c) = f[0]
  BY DEF LongDivision, IsRounds
<1>2. /\ f[m] = Undivided
      /\ \A i \in 0 .. m - 1 : f[i] = DivideStep(h, f[i + 1], bit_of_u256(h, n, i), c)
  BY <1>0, RoundsExist
<1> HIDE DEF f
<1>3. 0 \in T
  <2>1. p \in Nat /\ TwoTo[m] = Word(h) * Word(h) /\ Word(h) \in Nat \ {0}
    BY <1>p, WordIs
  <2>2. p \div TwoTo[m] = 0
    <3> DEFINE M == TwoTo[m]
    <3>1. M \in Nat \ {0} /\ p \in 0 .. M - 1 /\ p = 0 * M + p
      BY <2>1
    <3> HIDE DEF M
    <3>2. p \div M = 0
      BY <3>1, DivModUnique
    <3> QED BY <3>2 DEF M
  <2>3. Divided(h, Undivided, 0, c)
    BY <1>0, <2>1 DEF Divided, Undivided, Division
  <2>4. m - 0 = m
    BY <1>0
  <2> HIDE DEF m
  <2> QED BY <1>2, <2>2, <2>3, <2>4
<1>4. ASSUME NEW k \in Nat, k \in T PROVE k + 1 \in T
  <2> SUFFICES ASSUME k + 1 \in 0 .. m
               PROVE  Divided(h, f[m - (k + 1)], p \div TwoTo[m - (k + 1)], c)
    OBVIOUS
  <2> DEFINE i == m - (k + 1)
             bit == bit_of_u256(h, n, i)
             q == p \div TwoTo[i + 1]
  <2>1. i \in 0 .. m - 1 /\ i + 1 = m - k /\ k \in 0 .. m
    BY <1>0
  <2>2. Divided(h, f[i + 1], q, c)
    BY <1>4, <2>1
  <2> HIDE DEF T
  <2>3. bit \in {0, 1} /\ q \in Nat /\ p \div TwoTo[i] = 2 * q + bit
    <3> HIDE DEF i
    <3> QED BY <2>1, BitIs
  <2>4. f[i] = DivideStep(h, f[i + 1], bit, c)
    BY <1>2, <2>1
  <2> HIDE DEF i, bit, q, m
  <2>5. Divided(h, DivideStep(h, f[i + 1], bit, c), 2 * q + bit, c)
    BY <2>2, <2>3, DivideStepKeeps
  <2>6. Divided(h, f[i], p \div TwoTo[i], c)
    BY <2>3, <2>4, <2>5
  <2> QED BY <2>6 DEF i
<1>5. m \in T
  <2>1. Nat \subseteq T
    <3> HIDE DEF T
    <3> QED BY <1>3, <1>4, NatSetInduction
  <2> QED BY <1>0, <2>1
<1>6. Divided(h, f[0], p \div TwoTo[0], c)
  <2>1. m \in 0 .. m /\ m - m = 0
    BY <1>0
  <2> HIDE DEF m
  <2> QED BY <1>5, <2>1
<1>7. p \div TwoTo[0] = p
  <2>1. p \in Nat /\ TwoTo[0] = 1
    BY <1>p, TwoToIs
  <2> QED BY <2>1
<1> QED BY <1>1, <1>6, <1>7

\* mul_div_floor_u128, for every width of a word and all of its values, the
\* 128 bits of the code included: the result is the floor of a * b / c, and the
\* error exactly when c is zero or the floor does not fit a word.
THEOREM MulDivFloorIsExact ==
  ASSUME NEW h \in Nat \ {0}, NEW a \in 0 .. Word(h) - 1, NEW b \in 0 .. Word(h) - 1,
         NEW c \in 0 .. Word(h) - 1
  PROVE  mul_div_floor(h, a, b, c) = FloorOrOverflow(h, a, b, c)
<1> DEFINE W == Word(h)
           n == WideProduct(h, a, b)
           d == LongDivision(h, n, c)
<1>1. W \in Nat \ {0} /\ a \in Nat /\ b \in Nat /\ c \in Nat /\ a < W /\ b < W
  BY WordIs
<1>2. CASE c = 0
  BY <1>2 DEF mul_div_floor, FloorOrOverflow
<1>3. CASE c # 0 /\ FitsWord(h, a, b)
  <2>1. a * b < W /\ a * b \in Nat
    <3>1. CASE b = 0
      BY <1>1, <3>1
    <3>2. CASE b # 0
      <4> DEFINE u == (W - 1) \div b
      <4>1. u \in Nat /\ (W - 1) % b \in 0 .. b - 1 /\ W - 1 = u * b + ((W - 1) % b)
        <5>1. W - 1 \in Nat /\ b \in Nat \ {0}
          BY <1>1, <3>2
        <5> HIDE DEF W
        <5> QED BY <5>1, DivMod
      <4>2. a <= u
        BY <1>3, <3>2 DEF FitsWord
      <4> HIDE DEF u, W
      <4>3. a * b <= u * b
        BY <1>1, <4>1, <4>2
      <4>4. u * b \in Nat /\ a * b \in Nat
        BY <1>1, <4>1
      <4> QED BY <1>1, <4>1, <4>3, <4>4
    <3> QED BY <3>1, <3>2
  <2>2. (a * b) \div c < W
    <3> DEFINE y == a * b
    <3>1. y \in Nat /\ y < W
      BY <2>1
    <3> HIDE DEF y
    <3>2. y \div c \in Nat /\ y % c \in 0 .. c - 1 /\ y = (y \div c) * c + (y % c)
      BY <1>1, <1>3, <3>1, DivMod
    <3>3. y \div c <= (y \div c) * c
      <4>1. \A k \in Nat : k <= k * c
        BY <1>1, <1>3
      <4> QED BY <3>2, <4>1
    <3> QED BY <1>1, <3>1, <3>2, <3>3 DEF y
  <2>3. mul_div_floor(h, a, b, c) = (a * b) \div c
    BY <1>3 DEF mul_div_floor
  <2> QED BY <1>1, <1>3, <2>1, <2>2, <2>3 DEF FloorOrOverflow
<1>4. CASE c # 0 /\ ~FitsWord(h, a, b)
  <2>1. n.hi \in Nat /\ n.lo \in 0 .. Word(h) - 1 /\ n.hi * Word(h) + n.lo = a * b
    BY WideProductIs
  <2>2. a * b < Word(h) * Word(h)
    BY <1>1
  <2>3. Divided(h, d, a * b, c)
    <3>1. c \in 1 .. Word(h) - 1
      BY <1>1, <1>4
    <3> HIDE DEF n
    <3> QED BY <2>1, <2>2, <3>1, LongDivisionIs
  <2>4. mul_div_floor(h, a, b, c) = IF d.over THEN Overflow ELSE d.quot
    BY <1>4 DEF mul_div_floor
  <2> HIDE DEF d
  <2> QED BY <1>4, <2>3, <2>4 DEF Divided, FloorOrOverflow
<1> QED BY <1>2, <1>3, <1>4

---------------------------------------------------------------------------
(* The supply rate of a reserve.                                           *)

\* The scale: a percent is a whole number of units.
LEMMA ScaleIs ==
  /\ HalfBits \in Nat \ {0} /\ Word(HalfBits) \in Nat \ {0}
  /\ Wad \in Nat \ {0} /\ Wad < Word(HalfBits)
  /\ Wad \div 100 \in Nat \ {0} /\ 100 * (Wad \div 100) = Wad
<1>1. HalfBits \in Nat \ {0} /\ Wad \in Nat \ {0} /\ Wad % 10000 = 0
  BY ScaleAssumption
<1>2. Wad \div 100 \in Nat \ {0} /\ 100 * (Wad \div 100) = Wad
  BY <1>1
<1> QED BY <1>1, <1>2, WordIs, WadFitsWord

\* A quotient does not fall when the dividend grows.
LEMMA FloorMonotone ==
  ASSUME NEW x \in Nat, NEW y \in Nat, x <= y, NEW d \in Nat \ {0}
  PROVE  x \div d <= y \div d
<1> DEFINE p == x \div d
           q == y \div d
<1>1. /\ p \in Nat /\ x % d \in 0 .. d - 1 /\ x = p * d + (x % d)
      /\ q \in Nat /\ y % d \in 0 .. d - 1 /\ y = q * d + (y % d)
  BY DivMod
<1> HIDE DEF p, q
<1> SUFFICES ASSUME p > q PROVE FALSE
  BY <1>1 DEF p, q
<1>2. p * d >= (q + 1) * d
  BY <1>1
<1>3. (q + 1) * d = q * d + d /\ q * d \in Nat /\ p * d \in Nat
  BY <1>1
<1> QED BY <1>1, <1>2, <1>3

\* A multiple divides without rounding.
LEMMA FloorOfMultiple ==
  ASSUME NEW q \in Nat, NEW d \in Nat \ {0}
  PROVE  (q * d) \div d = q
<1>1. 0 \in 0 .. d - 1 /\ q * d + 0 = q * d
  OBVIOUS
<1> QED BY <1>1, DivModUnique

\* A quotient is bounded by any number whose multiple bounds the dividend.
LEMMA FloorWithin ==
  ASSUME NEW x \in Nat, NEW q \in Nat, NEW d \in Nat \ {0}, x <= q * d
  PROVE  x \div d \in Nat /\ x \div d <= q
<1> DEFINE y == q * d
<1>1. y \in Nat /\ x <= y /\ y \div d = q
  BY FloorOfMultiple
<1> HIDE DEF y
<1>2. x \div d <= y \div d
  BY <1>1, FloorMonotone
<1> QED BY <1>1, <1>2, DivMod

\* Nor does a product when a factor grows.
LEMMA ProductMonotone ==
  ASSUME NEW a \in Nat, NEW b \in Nat, a <= b, NEW c \in Nat
  PROVE  a * c \in Nat /\ b * c \in Nat /\ a * c <= b * c
OBVIOUS

\* A product with a factor of at most one is exact to the floor.
LEMMA MulWadIs ==
  ASSUME NEW a \in 0 .. Wad, NEW b \in 0 .. Word(HalfBits) - 1
  PROVE  /\ mul_wad(a, b) = (a * b) \div Wad
         /\ mul_wad(a, b) \in 0 .. b
<1> DEFINE W == Word(HalfBits)
           f == (a * b) \div Wad
<1>1. /\ W \in Nat \ {0} /\ Wad \in Nat \ {0} /\ Wad < W /\ a \in Nat /\ b \in Nat
      /\ HalfBits \in Nat \ {0}
  BY ScaleIs
<1> HIDE DEF W
<1>2. a * b \in Nat /\ Wad * b \in Nat /\ a * b <= Wad * b
  BY <1>1, ProductMonotone
<1>4. f \in Nat /\ f <= b
  <2>1. Wad * b = b * Wad
    BY <1>1
  <2> QED BY <1>1, <1>2, <2>1, FloorWithin
<1>5. mul_div_floor(HalfBits, a, b, Wad) = FloorOrOverflow(HalfBits, a, b, Wad)
  <2>1. a \in 0 .. W - 1 /\ Wad \in 0 .. W - 1 /\ b \in 0 .. W - 1
    BY <1>1 DEF W
  <2> QED BY <1>1, <2>1, MulDivFloorIsExact DEF W
<1>6. b < W
  BY <1>1 DEF W
<1>7. FloorOrOverflow(HalfBits, a, b, Wad) = f
  <2> HIDE DEF f
  <2> QED BY <1>1, <1>4, <1>6 DEF FloorOrOverflow, W, f
<1>8. Overflow \notin {a, b}
  BY <1>1 DEF Overflow
<1>9. mul_wad(a, b) = f
  BY <1>5, <1>7, <1>8 DEF mul_wad
<1> HIDE DEF f
<1>10. f \in 0 .. b
  BY <1>1, <1>4
<1> QED BY <1>9, <1>10 DEF f

\* A quotient of at most one.
LEMMA DivWadIs ==
  ASSUME NEW b \in 1 .. Word(HalfBits) - 1, NEW a \in 0 .. b
  PROVE  /\ div_wad(a, b) = (a * Wad) \div b
         /\ div_wad(a, b) \in 0 .. Wad
         /\ a = 0 => div_wad(a, b) = 0
         /\ a = b => div_wad(a, b) = Wad
<1> DEFINE W == Word(HalfBits)
           f == (a * Wad) \div b
<1>1. /\ W \in Nat \ {0} /\ Wad \in Nat \ {0} /\ Wad < W /\ b \in Nat \ {0} /\ a \in Nat
      /\ a <= b /\ b < W /\ HalfBits \in Nat \ {0}
  BY ScaleIs
<1>2. a * Wad \in Nat /\ b * Wad \in Nat /\ a * Wad <= b * Wad
  BY <1>1, ProductMonotone
<1>3. (b * Wad) \div b = Wad
  <2>1. b * Wad = Wad * b
    BY <1>1
  <2> QED BY <1>1, <2>1, FloorOfMultiple
<1>4. f \in Nat /\ f <= Wad
  <2>1. b * Wad = Wad * b
    BY <1>1
  <2> QED BY <1>1, <1>2, <2>1, FloorWithin
<1>5. mul_div_floor(HalfBits, a, Wad, b) = FloorOrOverflow(HalfBits, a, Wad, b)
  <2>1. a \in 0 .. W - 1 /\ Wad \in 0 .. W - 1 /\ b \in 0 .. W - 1
    BY <1>1
  <2> QED BY <1>1, <2>1, MulDivFloorIsExact
<1>6. FloorOrOverflow(HalfBits, a, Wad, b) = f
  <2> HIDE DEF f
  <2> QED BY <1>1, <1>4 DEF FloorOrOverflow, f
<1>7. div_wad(a, b) = f
  BY <1>5, <1>6 DEF div_wad
<1>8. a = 0 => f = 0
  <2>1. (0 * b) \div b = 0 /\ 0 * Wad = 0 /\ 0 * b = 0
    BY <1>1, FloorOfMultiple
  <2> QED BY <2>1
<1>9. a = b => f = Wad
  BY <1>3
<1> HIDE DEF f
<1>10. f \in 0 .. Wad
  BY <1>1, <1>4
<1> QED BY <1>7, <1>8, <1>9, <1>10 DEF f

\* checked_add, of a sum that fits.
LEMMA AddWadIs ==
  ASSUME NEW a \in Nat, NEW b \in Nat, a + b < Word(HalfBits)
  PROVE  add_wad(a, b) = a + b
<1>1. Overflow \notin {a, b} /\ Word(HalfBits) \in Nat
  BY ScaleIs DEF Overflow
<1> QED BY <1>1 DEF add_wad

\* The straight piece from base, at from, to top, at to.
LEMMA SegmentIs ==
  ASSUME NEW from \in 0 .. Wad, NEW to \in 0 .. Wad, from < to,
         NEW base \in 0 .. Word(HalfBits) - 1, NEW top \in 0 .. Word(HalfBits) - 1,
         base <= top,
         NEW u \in from .. to
  PROVE  /\ Segment(u, from, to, base, top) =
              ((((u - from) * Wad) \div (to - from)) * (top - base)) \div Wad + base
         /\ Segment(u, from, to, base, top) \in base .. top
         /\ u = from => Segment(u, from, to, base, top) = base
         /\ u = to => Segment(u, from, to, base, top) = top
<1> DEFINE W == Word(HalfBits)
           d == to - from
           a == u - from
           h == top - base
           q == div_wad(a, d)
           m == mul_wad(q, h)
<1>1. /\ W \in Nat \ {0} /\ Wad \in Nat \ {0} /\ Wad < W
      /\ from \in Nat /\ to \in Nat /\ u \in Nat /\ base \in Nat /\ top \in Nat /\ top < W
  BY ScaleIs
<1>2. d \in 1 .. W - 1 /\ a \in 0 .. d /\ h \in 0 .. W - 1
  BY <1>1
<1>3. /\ u = from => a = 0
      /\ u = to => a = d
      /\ h + base = top
  BY <1>1
<1>4. Segment(u, from, to, base, top) = add_wad(m, base)
  BY DEF Segment
<1> HIDE DEF d, a, h
<1>5. /\ q = (a * Wad) \div d
      /\ q \in 0 .. Wad
      /\ a = 0 => q = 0
      /\ a = d => q = Wad
  BY <1>2, DivWadIs DEF W
<1> HIDE DEF q
<1>6. m = (q * h) \div Wad /\ m \in 0 .. h
  BY <1>2, <1>5, MulWadIs DEF W
<1>7. q = 0 => m = 0
  <2>1. 0 * h = 0 * Wad /\ (0 * Wad) \div Wad = 0
    BY <1>1, <1>2, FloorOfMultiple
  <2> QED BY <1>6, <2>1
<1>8. q = Wad => m = h
  <2>1. Wad * h = h * Wad /\ (h * Wad) \div Wad = h
    BY <1>1, <1>2, FloorOfMultiple
  <2> QED BY <1>6, <2>1
<1> HIDE DEF m
<1>9. m \in Nat /\ m + base <= top /\ m + base < W
  BY <1>1, <1>2, <1>3, <1>6
<1>10. add_wad(m, base) = m + base
  BY <1>1, <1>9, AddWadIs DEF W
<1>11. m + base \in base .. top
  BY <1>1, <1>9
<1>12. (u = from => m + base = base) /\ (u = to => m + base = top)
  BY <1>1, <1>3, <1>5, <1>7, <1>8, <1>9
<1>13. m + base = ((((u - from) * Wad) \div (to - from)) * (top - base)) \div Wad + base
  BY <1>5, <1>6 DEF a, d, h
<1> QED BY <1>4, <1>10, <1>11, <1>12, <1>13

\* Along a piece the rate does not fall.
LEMMA SegmentMonotone ==
  ASSUME NEW from \in 0 .. Wad, NEW to \in 0 .. Wad, from < to,
         NEW base \in 0 .. Word(HalfBits) - 1, NEW top \in 0 .. Word(HalfBits) - 1,
         base <= top,
         NEW u \in from .. to, NEW v \in from .. to, u <= v
  PROVE  Segment(u, from, to, base, top) <= Segment(v, from, to, base, top)
<1> DEFINE a == u - from
           b == v - from
           d == to - from
           h == top - base
           x == a * Wad
           y == b * Wad
           p == x \div d
           q == y \div d
           ph == p * h
           qh == q * h
<1>1. Wad \in Nat \ {0} /\ from \in Nat /\ to \in Nat /\ base \in Nat /\ top \in Nat
  BY ScaleIs
<1>2. a \in Nat /\ b \in Nat /\ a <= b /\ d \in Nat \ {0} /\ h \in Nat
  BY <1>1
<1>3. /\ Segment(u, from, to, base, top) = (ph \div Wad) + base
      /\ Segment(v, from, to, base, top) = (qh \div Wad) + base
  BY SegmentIs
<1> HIDE DEF a, b, d, h
<1>4. x \in Nat /\ y \in Nat /\ x <= y
  BY <1>1, <1>2, ProductMonotone
<1> HIDE DEF x, y
<1>5. p \in Nat /\ q \in Nat /\ p <= q
  BY <1>2, <1>4, FloorMonotone, DivMod
<1> HIDE DEF p, q
<1>6. ph \in Nat /\ qh \in Nat /\ ph <= qh
  BY <1>2, <1>5, ProductMonotone
<1> HIDE DEF ph, qh
<1>7. ph \div Wad \in Nat /\ qh \div Wad \in Nat /\ ph \div Wad <= qh \div Wad
  BY <1>1, <1>6, FloorMonotone, DivMod
<1> QED BY <1>1, <1>3, <1>7

\* The kinked curve over a utilisation u: kinks at opt and top.
KinkedRate(u, opt, top, r0, r1, r2, r3) ==
  IF u <= opt THEN IF opt = 0 THEN r0 ELSE Segment(u, 0, opt, r0, r1)
  ELSE IF u <= top THEN Segment(u, opt, top, r1, r2)
  ELSE IF top = Wad THEN r3
  ELSE Segment(u, top, Wad, r2, r3)

\* Each utilisation is on the piece that its range names, and the pieces meet
\* the configured rates at their ends.
LEMMA KinkedRateIs ==
  ASSUME NEW opt \in 0 .. Wad, NEW top \in opt .. Wad,
         NEW r0 \in 0 .. Word(HalfBits) - 1, NEW r1 \in 0 .. Word(HalfBits) - 1,
         NEW r2 \in 0 .. Word(HalfBits) - 1, NEW r3 \in 0 .. Word(HalfBits) - 1,
         r0 <= r1, r1 <= r2, r2 <= r3,
         NEW u \in 0 .. Wad
  PROVE  /\ u <= opt => KinkedRate(u, opt, top, r0, r1, r2, r3) \in r0 .. r1
         /\ (u > opt /\ u <= top) => KinkedRate(u, opt, top, r0, r1, r2, r3) \in r1 .. r2
         /\ u > top => KinkedRate(u, opt, top, r0, r1, r2, r3) \in r2 .. r3
         /\ u = 0 => KinkedRate(u, opt, top, r0, r1, r2, r3) = r0
         /\ (u = opt /\ opt # 0) => KinkedRate(u, opt, top, r0, r1, r2, r3) = r1
         /\ (u = top /\ top > opt) => KinkedRate(u, opt, top, r0, r1, r2, r3) = r2
         /\ (u = Wad /\ top < Wad) => KinkedRate(u, opt, top, r0, r1, r2, r3) = r3
<1> DEFINE W == Word(HalfBits)
           R == KinkedRate(u, opt, top, r0, r1, r2, r3)
<1>1. /\ W \in Nat \ {0} /\ Wad \in Nat \ {0} /\ opt \in Nat /\ top \in Nat /\ top \in 0 .. Wad
      /\ u \in Nat /\ r0 \in Nat /\ r1 \in Nat /\ r2 \in Nat /\ r3 \in Nat
      /\ opt <= top /\ top <= Wad /\ u <= Wad /\ 0 \in 0 .. Wad /\ Wad \in 0 .. Wad
  BY ScaleIs
<1>2. CASE u <= opt
  <2>1. CASE opt = 0
    BY <1>1, <1>2, <2>1 DEF KinkedRate
  <2>2. CASE opt # 0
    <3>1. R = Segment(u, 0, opt, r0, r1)
      BY <1>2, <2>2 DEF KinkedRate
    <3>2. 0 < opt /\ u \in 0 .. opt
      BY <1>1, <1>2, <2>2
    <3>3. /\ Segment(u, 0, opt, r0, r1) \in r0 .. r1
          /\ u = 0 => Segment(u, 0, opt, r0, r1) = r0
          /\ u = opt => Segment(u, 0, opt, r0, r1) = r1
      BY <1>1, <3>2, SegmentIs
    <3> HIDE DEF R
    <3>4. /\ R \in r0 .. r1
          /\ u = 0 => R = r0
          /\ u = opt => R = r1
      BY <3>1, <3>3
    <3>5. ~(u > opt) /\ ~(u > top) /\ ~(u = top /\ top > opt) /\ ~(u = Wad /\ top < Wad)
      BY <1>1, <1>2
    <3> QED BY <3>4, <3>5 DEF R
  <2> QED BY <2>1, <2>2
<1>3. CASE u > opt /\ u <= top
  <2>1. R = Segment(u, opt, top, r1, r2)
    BY <1>1, <1>3 DEF KinkedRate
  <2>2. opt < top /\ u \in opt .. top
    BY <1>1, <1>3
  <2>3. /\ Segment(u, opt, top, r1, r2) \in r1 .. r2
        /\ u = top => Segment(u, opt, top, r1, r2) = r2
    BY <1>1, <2>2, SegmentIs
  <2> HIDE DEF R
  <2>4. /\ R \in r1 .. r2
        /\ u = top => R = r2
    BY <2>1, <2>3
  <2>5. ~(u <= opt) /\ ~(u > top) /\ u # 0 /\ u # opt /\ ~(u = Wad /\ top < Wad)
    BY <1>1, <1>3
  <2> QED BY <2>4, <2>5 DEF R
<1>4. CASE u > top
  <2>1. top < Wad /\ top # Wad /\ u \in top .. Wad /\ ~(u <= opt) /\ ~(u <= top)
    BY <1>1, <1>4
  <2>2. R = Segment(u, top, Wad, r2, r3)
    BY <2>1 DEF KinkedRate
  <2>3. /\ Segment(u, top, Wad, r2, r3) \in r2 .. r3
        /\ u = Wad => Segment(u, top, Wad, r2, r3) = r3
    <3>1. top \in 0 .. Wad /\ Wad \in 0 .. Wad /\ top < Wad /\ u \in top .. Wad
      BY <1>1, <2>1
    <3> QED BY <3>1, SegmentIs
  <2> HIDE DEF R
  <2>4. /\ R \in r2 .. r3
        /\ u = Wad => R = r3
    BY <2>2, <2>3
  <2>5. u # 0 /\ u # opt /\ u # top
    BY <1>1, <1>4
  <2> QED BY <2>1, <2>4, <2>5 DEF R
<1> QED BY <1>1, <1>2, <1>3, <1>4

\* Across the kinks the rate does not fall either.
LEMMA KinkedRateMonotone ==
  ASSUME NEW opt \in 0 .. Wad, NEW top \in opt .. Wad,
         NEW r0 \in 0 .. Word(HalfBits) - 1, NEW r1 \in 0 .. Word(HalfBits) - 1,
         NEW r2 \in 0 .. Word(HalfBits) - 1, NEW r3 \in 0 .. Word(HalfBits) - 1,
         r0 <= r1, r1 <= r2, r2 <= r3,
         NEW u \in 0 .. Wad, NEW v \in 0 .. Wad, u <= v
  PROVE  /\ KinkedRate(u, opt, top, r0, r1, r2, r3) \in 0 .. Word(HalfBits) - 1
         /\ KinkedRate(u, opt, top, r0, r1, r2, r3) <= KinkedRate(v, opt, top, r0, r1, r2, r3)
<1> DEFINE W == Word(HalfBits)
           R == KinkedRate(u, opt, top, r0, r1, r2, r3)
           S == KinkedRate(v, opt, top, r0, r1, r2, r3)
<1>1. /\ W \in Nat \ {0} /\ Wad \in Nat \ {0} /\ opt \in Nat /\ top \in Nat /\ top \in 0 .. Wad
      /\ u \in Nat /\ v \in Nat /\ r0 \in Nat /\ r1 \in Nat /\ r2 \in Nat /\ r3 \in Nat
      /\ opt <= top /\ top <= Wad /\ u <= Wad /\ v <= Wad /\ 0 \in 0 .. Wad /\ Wad \in 0 .. Wad
      /\ r3 < W
  BY ScaleIs
<1>2. /\ u <= opt => R \in r0 .. r1
      /\ (u > opt /\ u <= top) => R \in r1 .. r2
      /\ u > top => R \in r2 .. r3
  BY KinkedRateIs
<1>3. /\ v <= opt => S \in r0 .. r1
      /\ (v > opt /\ v <= top) => S \in r1 .. r2
      /\ v > top => S \in r2 .. r3
  BY KinkedRateIs
<1>4. CASE v <= opt
  <2>1. CASE opt = 0
    <3>1. u = v
      BY <1>1, <1>4, <2>1
    <3>2. R = S
      BY <3>1
    <3> HIDE DEF R, S
    <3> QED BY <1>1, <1>2, <1>3, <1>4, <3>1, <3>2 DEF R, S, W
  <2>2. CASE opt # 0
    <3>1. 0 < opt /\ u \in 0 .. opt /\ v \in 0 .. opt /\ u <= opt
      BY <1>1, <1>4, <2>2
    <3>2. R = Segment(u, 0, opt, r0, r1) /\ S = Segment(v, 0, opt, r0, r1)
      BY <1>4, <2>2, <3>1 DEF KinkedRate
    <3>3. Segment(u, 0, opt, r0, r1) <= Segment(v, 0, opt, r0, r1)
      BY <1>1, <3>1, SegmentMonotone
    <3>4. R <= S
      BY <3>2, <3>3
    <3> HIDE DEF R, S
    <3> QED BY <1>1, <1>2, <3>1, <3>4 DEF R, S, W
  <2> QED BY <2>1, <2>2
<1>5. CASE u > opt /\ v <= top
  <2>1. opt < top /\ u \in opt .. top /\ v \in opt .. top /\ ~(u <= opt) /\ ~(v <= opt) /\ u <= top
    BY <1>1, <1>5
  <2>2. R = Segment(u, opt, top, r1, r2) /\ S = Segment(v, opt, top, r1, r2)
    BY <1>5, <2>1 DEF KinkedRate
  <2>3. Segment(u, opt, top, r1, r2) <= Segment(v, opt, top, r1, r2)
    BY <1>1, <2>1, SegmentMonotone
  <2>4. R <= S
    BY <2>2, <2>3
  <2> HIDE DEF R, S
  <2> QED BY <1>1, <1>2, <1>5, <2>1, <2>4 DEF R, S, W
<1>6. CASE u > top
  <2>1. /\ top < Wad /\ top # Wad /\ u \in top .. Wad /\ v \in top .. Wad
        /\ ~(u <= opt) /\ ~(v <= opt) /\ ~(u <= top) /\ ~(v <= top)
    BY <1>1, <1>6
  <2>2. R = Segment(u, top, Wad, r2, r3) /\ S = Segment(v, top, Wad, r2, r3)
    BY <2>1 DEF KinkedRate
  <2>3. Segment(u, top, Wad, r2, r3) <= Segment(v, top, Wad, r2, r3)
    BY <1>1, <2>1, SegmentMonotone
  <2>4. R <= S
    BY <2>2, <2>3
  <2> HIDE DEF R, S
  <2> QED BY <1>1, <1>2, <1>6, <2>4 DEF R, S, W
<1>7. CASE u <= opt /\ v > opt
  <2>1. R \in r0 .. r1 /\ (S \in r1 .. r2 \/ S \in r2 .. r3)
    BY <1>1, <1>2, <1>3, <1>7
  <2> HIDE DEF R, S
  <2> QED BY <1>1, <2>1 DEF R, S, W
<1>8. CASE u > opt /\ u <= top /\ v > top
  <2>1. R \in r1 .. r2 /\ S \in r2 .. r3
    BY <1>1, <1>2, <1>3, <1>8
  <2> HIDE DEF R, S
  <2> QED BY <1>1, <2>1 DEF R, S, W
<1> QED BY <1>1, <1>4, <1>5, <1>6, <1>7, <1>8

\* The same with the small factor on the other side.
LEMMA MulWadOfSmall ==
  ASSUME NEW a \in 0 .. Word(HalfBits) - 1, NEW b \in 0 .. Wad
  PROVE  /\ mul_wad(a, b) = (a * b) \div Wad
         /\ mul_wad(a, b) \in 0 .. a
<1> DEFINE W == Word(HalfBits)
           f == (a * b) \div Wad
<1>1. /\ W \in Nat \ {0} /\ Wad \in Nat \ {0} /\ Wad < W /\ a \in Nat /\ b \in Nat
      /\ HalfBits \in Nat \ {0} /\ b <= Wad
  BY ScaleIs
<1>2. f \in Nat /\ f <= a
  <2>1. a * b = b * a /\ Wad * a = a * Wad /\ a * b \in Nat
    BY <1>1
  <2>2. b * a <= Wad * a
    BY <1>1, ProductMonotone
  <2>3. a * b <= a * Wad
    BY <2>1, <2>2
  <2> QED BY <1>1, <2>1, <2>3, FloorWithin
<1>3. mul_div_floor(HalfBits, a, b, Wad) = FloorOrOverflow(HalfBits, a, b, Wad)
  <2>1. a \in 0 .. W - 1 /\ Wad \in 0 .. W - 1 /\ b \in 0 .. W - 1
    BY <1>1
  <2> QED BY <1>1, <2>1, MulDivFloorIsExact
<1>4. a < W /\ Overflow \notin {a, b}
  BY <1>1 DEF Overflow
<1>5. FloorOrOverflow(HalfBits, a, b, Wad) = f
  <2> HIDE DEF f
  <2> QED BY <1>1, <1>2, <1>4 DEF FloorOrOverflow, f
<1>6. mul_wad(a, b) = f
  BY <1>3, <1>4, <1>5 DEF mul_wad
<1> HIDE DEF f
<1>7. f \in 0 .. a
  BY <1>1, <1>2
<1> QED BY <1>6, <1>7 DEF f

\* utilization_wad: at most one, or the error of the addition.
LEMMA UtilizationIs ==
  ASSUME NEW s \in ReserveSnapshot
  PROVE  utilization_wad(s) \in 0 .. Wad \cup {Overflow}
<1> DEFINE W == Word(HalfBits)
           k == s.available * Wad
           b == s.borrowed
           n == add_wad(b, k)
<1>1. W \in Nat \ {0} /\ Wad \in Nat \ {0}
  BY ScaleIs
<1>2. b \in 0 .. W - 1 /\ k \in Nat
  BY <1>1 DEF ReserveSnapshot
<1>3. utilization_wad(s) = IF b = 0 THEN 0 ELSE IF n = Overflow THEN Overflow ELSE div_wad(b, n)
  BY DEF utilization_wad
<1> HIDE DEF b, k
<1>4. n # Overflow => n = b + k /\ n < W
  BY <1>1, <1>2 DEF add_wad
<1> HIDE DEF n
<1>5. CASE b = 0
  BY <1>1, <1>3, <1>5
<1>6. CASE b # 0 /\ n = Overflow
  BY <1>3, <1>6
<1>7. CASE b # 0 /\ n # Overflow
  <2>1. n \in 1 .. W - 1 /\ b \in 0 .. n
    BY <1>1, <1>2, <1>4, <1>7
  <2>2. div_wad(b, n) \in 0 .. Wad
    BY <2>1, DivWadIs DEF W
  <2> QED BY <1>3, <1>7, <2>2
<1> QED BY <1>5, <1>6, <1>7

\* What a valid configuration says of the curve.
LEMMA CurveOf ==
  ASSUME NEW s \in ReserveSnapshot, is_reserve_config_valid(s)
  PROVE  /\ pct_to_wad(s.optimal_util) \in 0 .. Wad
         /\ pct_to_wad(s.max_util) \in pct_to_wad(s.optimal_util) .. Wad
         /\ pct_to_wad(s.take_rate) \in 0 .. Wad
         /\ pct_to_wad(s.min_rate) \in 0 .. Word(HalfBits) - 1
         /\ pct_to_wad(s.optimal_rate) \in 0 .. Word(HalfBits) - 1
         /\ pct_to_wad(s.max_rate) \in 0 .. Word(HalfBits) - 1
         /\ pct_to_wad(s.super_max_rate) \in 0 .. Word(HalfBits) - 1
         /\ pct_to_wad(s.min_rate) <= pct_to_wad(s.optimal_rate)
         /\ pct_to_wad(s.optimal_rate) <= pct_to_wad(s.max_rate)
         /\ pct_to_wad(s.max_rate) <= pct_to_wad(s.super_max_rate)
         /\ s.optimal_util # 0 => pct_to_wad(s.optimal_util) # 0
         /\ s.max_util > s.optimal_util => pct_to_wad(s.max_util) > pct_to_wad(s.optimal_util)
         /\ s.max_util < 100 => pct_to_wad(s.max_util) < Wad
<1> DEFINE e == Wad \div 100
<1>1. e \in Nat \ {0} /\ 100 * e = Wad /\ Wad \in Nat /\ Word(HalfBits) \in Nat
  BY ScaleIs
<1>2. /\ s.min_rate \in Nat /\ s.optimal_rate \in Nat /\ s.max_rate \in Nat
      /\ s.super_max_rate \in Nat /\ s.optimal_util \in Nat /\ s.max_util \in Nat
      /\ s.take_rate \in Nat
      /\ s.super_max_rate * e < Word(HalfBits)
  BY DEF ReserveSnapshot, pct_to_wad
<1>3. /\ s.min_rate <= s.optimal_rate /\ s.optimal_rate <= s.max_rate
      /\ s.max_rate <= s.super_max_rate /\ s.optimal_util <= s.max_util
      /\ s.max_util <= 100 /\ s.take_rate <= 100
  BY DEF is_reserve_config_valid
<1> HIDE DEF e
<1>4. \A x, y \in Nat : x <= y => x * e \in Nat /\ y * e \in Nat /\ x * e <= y * e
  BY <1>1, ProductMonotone
<1>5. \A x, y \in Nat : x < y => x * e < y * e
  <2> SUFFICES ASSUME NEW x \in Nat, NEW y \in Nat, x < y PROVE x * e < y * e
    OBVIOUS
  <2>1. (x + 1) * e <= y * e /\ (x + 1) * e = x * e + e /\ x * e \in Nat /\ y * e \in Nat
    BY <1>1, <1>4
  <2> QED BY <1>1, <2>1
<1>6. \A x \in Nat : x # 0 => x * e # 0
  <2> SUFFICES ASSUME NEW x \in Nat, x # 0 PROVE x * e # 0
    OBVIOUS
  <2>1. 0 * e < x * e /\ 0 * e = 0 /\ x * e \in Nat
    BY <1>1, <1>4, <1>5
  <2> QED BY <2>1
<1>7. \A x : pct_to_wad(x) = x * e
  BY DEF pct_to_wad, e
<1>8. /\ s.min_rate * e <= s.optimal_rate * e /\ s.optimal_rate * e <= s.max_rate * e
      /\ s.max_rate * e <= s.super_max_rate * e
      /\ s.min_rate * e \in Nat /\ s.optimal_rate * e \in Nat /\ s.max_rate * e \in Nat
      /\ s.super_max_rate * e \in Nat
  BY <1>2, <1>3, <1>4
<1>9. /\ s.optimal_util * e <= s.max_util * e /\ s.max_util * e <= Wad
      /\ s.take_rate * e <= Wad
      /\ s.optimal_util * e \in Nat /\ s.max_util * e \in Nat /\ s.take_rate * e \in Nat
  BY <1>1, <1>2, <1>3, <1>4
<1>10. /\ s.optimal_util # 0 => s.optimal_util * e # 0
       /\ s.max_util > s.optimal_util => s.max_util * e > s.optimal_util * e
       /\ s.max_util < 100 => s.max_util * e < Wad
  <2>1. s.max_util > s.optimal_util => s.optimal_util * e < s.max_util * e
    BY <1>2, <1>5
  <2>2. s.max_util < 100 => s.max_util * e < 100 * e
    BY <1>2, <1>5
  <2> QED BY <1>1, <1>2, <1>6, <1>9, <2>1, <2>2
<1> HIDE DEF pct_to_wad
<1>11. /\ s.optimal_util * e \in 0 .. Wad
       /\ s.max_util * e \in s.optimal_util * e .. Wad
       /\ s.take_rate * e \in 0 .. Wad
  BY <1>1, <1>9
<1>12. /\ s.min_rate * e \in 0 .. Word(HalfBits) - 1
       /\ s.optimal_rate * e \in 0 .. Word(HalfBits) - 1
       /\ s.max_rate * e \in 0 .. Word(HalfBits) - 1
       /\ s.super_max_rate * e \in 0 .. Word(HalfBits) - 1
  BY <1>1, <1>2, <1>8
<1> QED BY <1>7, <1>8, <1>10, <1>11, <1>12

\* The rate that the configuration of s gives a utilisation u.
RateAt(s, u) ==
  KinkedRate(u, pct_to_wad(s.optimal_util), pct_to_wad(s.max_util),
             pct_to_wad(s.min_rate), pct_to_wad(s.optimal_rate),
             pct_to_wad(s.max_rate), pct_to_wad(s.super_max_rate))

\* current_borrow_rate_wad is the kinked curve at the utilisation.
LEMMA BorrowRateIs ==
  ASSUME NEW s \in ReserveSnapshot, is_reserve_config_valid(s)
  PROVE  current_borrow_rate_wad(s) =
           IF utilization_wad(s) = Overflow THEN Overflow ELSE RateAt(s, utilization_wad(s))
<1> DEFINE u == utilization_wad(s)
           opt == pct_to_wad(s.optimal_util)
           top == pct_to_wad(s.max_util)
<1>1. u \in 0 .. Wad \cup {Overflow}
  BY UtilizationIs
<1>2. opt \in 0 .. Wad /\ top \in opt .. Wad /\ Wad \in Nat
  BY CurveOf, ScaleIs
<1>3. current_borrow_rate_wad(s) =
        CASE u = Overflow -> Overflow
          [] u # Overflow /\ u <= opt ->
               IF opt = 0 THEN pct_to_wad(s.min_rate)
               ELSE Segment(u, 0, opt, pct_to_wad(s.min_rate), pct_to_wad(s.optimal_rate))
          [] u > opt /\ u <= top ->
               Segment(u, opt, top, pct_to_wad(s.optimal_rate), pct_to_wad(s.max_rate))
          [] u > opt /\ u > top ->
               IF top = Wad THEN pct_to_wad(s.super_max_rate)
               ELSE Segment(u, top, Wad, pct_to_wad(s.max_rate), pct_to_wad(s.super_max_rate))
  BY DEF current_borrow_rate_wad, SuperMaxWad
<1> HIDE DEF u, opt, top
<1>4. CASE u = Overflow
  <2>1. ~(u > opt)
    BY <1>2, <1>4 DEF Overflow
  <2> QED BY <1>3, <1>4, <2>1 DEF u
<1>5. CASE u # Overflow
  <2>1. u \in Nat /\ opt \in Nat /\ top \in Nat /\ opt <= top
    BY <1>1, <1>2, <1>5
  <2>2. CASE u <= opt
    <3>1. ~(u > opt)
      BY <2>1, <2>2
    <3> QED BY <1>3, <1>5, <2>2, <3>1 DEF RateAt, KinkedRate, u, opt, top
  <2>3. CASE u > opt /\ u <= top
    <3>1. ~(u <= opt) /\ ~(u > top)
      BY <2>1, <2>3
    <3> QED BY <1>3, <1>5, <2>3, <3>1 DEF RateAt, KinkedRate, u, opt, top
  <2>4. CASE u > top
    <3>1. ~(u <= opt) /\ ~(u <= top) /\ u > opt
      BY <2>1, <2>4
    <3> QED BY <1>3, <1>5, <2>4, <3>1 DEF RateAt, KinkedRate, u, opt, top
  <2> QED BY <2>1, <2>2, <2>3, <2>4
<1> QED BY <1>4, <1>5

\* u is the utilisation of s, v that of a reserve of the same curve.
LEMMA RateAtMonotone ==
  ASSUME NEW s \in ReserveSnapshot, is_reserve_config_valid(s),
         NEW u \in 0 .. Wad, NEW v \in 0 .. Wad, u <= v
  PROVE  /\ RateAt(s, u) \in 0 .. Word(HalfBits) - 1
         /\ RateAt(s, u) <= RateAt(s, v)
  BY CurveOf, KinkedRateMonotone DEF RateAt

\* supply_apr_wad's products: no overflow, and no fall when the utilisation and
\* the rate grow.
LEMMA SupplyRateIs ==
  ASSUME NEW u \in 0 .. Wad, NEW v \in 0 .. Wad, u <= v, NEW k \in 0 .. Wad,
         NEW p \in 0 .. Word(HalfBits) - 1, NEW q \in 0 .. Word(HalfBits) - 1, p <= q
  PROVE  /\ mul_wad(p, mul_wad(u, k)) \in Nat
         /\ mul_wad(p, mul_wad(u, k)) <= mul_wad(q, mul_wad(v, k))
<1> DEFINE W == Word(HalfBits)
           x == u * k
           y == v * k
           m == x \div Wad
           n == y \div Wad
           pm == p * m
           qn == q * n
<1>1. /\ W \in Nat \ {0} /\ Wad \in Nat \ {0} /\ Wad < W /\ u \in Nat /\ v \in Nat /\ k \in Nat
      /\ p \in Nat /\ q \in Nat /\ k \in 0 .. W - 1 /\ k <= Wad
  BY ScaleIs
<1>2. /\ mul_wad(u, k) = m /\ m \in 0 .. k
      /\ mul_wad(v, k) = n /\ n \in 0 .. k
  BY <1>1, MulWadIs
<1>3. x \in Nat /\ y \in Nat /\ x <= y
  BY <1>1, ProductMonotone
<1> HIDE DEF x, y
<1>4. m <= n
  BY <1>1, <1>3, FloorMonotone
<1> HIDE DEF m, n
<1>5. m \in 0 .. Wad /\ n \in 0 .. Wad /\ m \in Nat /\ n \in Nat
  BY <1>1, <1>2
<1>6. mul_wad(p, m) = pm \div Wad /\ mul_wad(q, n) = qn \div Wad
  BY <1>5, MulWadOfSmall
<1>7. pm \in Nat /\ qn \in Nat /\ pm <= qn
  <2>1. p * m <= q * m /\ p * m \in Nat /\ q * m \in Nat
    BY <1>1, <1>5, ProductMonotone
  <2>2. m * q <= n * q /\ m * q = q * m /\ n * q = q * n /\ q * n \in Nat
    BY <1>1, <1>4, <1>5, ProductMonotone
  <2> QED BY <2>1, <2>2
<1> HIDE DEF pm, qn
<1>8. pm \div Wad \in Nat /\ pm \div Wad <= qn \div Wad
  BY <1>1, <1>7, FloorMonotone, DivMod
<1> QED BY <1>2, <1>6, <1>8

\* The reserves agree on everything but what is deposited and borrowed.
LEMMA SupplyRateMonotone ==
  ASSUME NEW s \in ReserveSnapshot, NEW t \in ReserveSnapshot, is_reserve_config_valid(s),
         t.min_rate = s.min_rate, t.optimal_rate = s.optimal_rate,
         t.max_rate = s.max_rate, t.super_max_rate = s.super_max_rate,
         t.optimal_util = s.optimal_util, t.max_util = s.max_util,
         t.take_rate = s.take_rate,
         utilization_wad(s) <= utilization_wad(t)
  PROVE  /\ current_borrow_rate_wad(s) <= current_borrow_rate_wad(t)
         /\ supply_apr_wad(s) <= supply_apr_wad(t)
<1> DEFINE u == utilization_wad(s)
           v == utilization_wad(t)
           p == RateAt(s, u)
           q == RateAt(s, v)
           k == Wad - pct_to_wad(s.take_rate)
<1>1. is_reserve_config_valid(t)
  BY DEF is_reserve_config_valid
<1>2. RateAt(t, v) = q
  BY DEF RateAt
<1>3. /\ current_borrow_rate_wad(s) = IF u = Overflow THEN Overflow ELSE p
      /\ current_borrow_rate_wad(t) = IF v = Overflow THEN Overflow ELSE q
  BY <1>1, <1>2, BorrowRateIs
<1>4. /\ supply_apr_wad(s) = mul_wad(current_borrow_rate_wad(s), mul_wad(u, k))
      /\ supply_apr_wad(t) = mul_wad(current_borrow_rate_wad(t), mul_wad(v, k))
  BY DEF supply_apr_wad
<1>5. u \in 0 .. Wad \cup {Overflow} /\ v \in 0 .. Wad \cup {Overflow} /\ u <= v /\ Wad \in Nat
  BY UtilizationIs, ScaleIs
<1>6. k \in 0 .. Wad
  BY CurveOf, ScaleIs
<1>7. /\ u # Overflow => u \in 0 .. Wad
      /\ v # Overflow => v \in 0 .. Wad
      /\ u # Overflow => v # Overflow
  BY <1>5 DEF Overflow
<1> HIDE DEF u, v, k
<1>8. u # Overflow => p \in 0 .. Word(HalfBits) - 1 /\ p <= q
  BY <1>5, <1>7, RateAtMonotone
<1>9. v # Overflow => q \in 0 .. Word(HalfBits) - 1
  <2> SUFFICES ASSUME v # Overflow PROVE q \in 0 .. Word(HalfBits) - 1
    OBVIOUS
  <2>1. v \in 0 .. Wad /\ v <= v
    BY <1>5, <1>7
  <2> QED BY <2>1, RateAtMonotone
<1> HIDE DEF p, q
<1>10. Overflow <= Overflow /\ \A n \in Nat : Overflow <= n
  BY DEF Overflow
<1>11. CASE u # Overflow
  BY <1>3, <1>4, <1>5, <1>6, <1>7, <1>8, <1>9, <1>11, SupplyRateIs
<1>12. CASE u = Overflow /\ v = Overflow
  BY <1>3, <1>4, <1>10, <1>12 DEF mul_wad
<1>13. CASE u = Overflow /\ v # Overflow
  <2>1. q \in Nat
    BY <1>9, <1>13, ScaleIs
  <2>2. mul_wad(q, mul_wad(v, k)) \in Nat
    <3>1. v <= v /\ q <= q
      BY <1>5, <1>7, <1>13, <2>1
    <3> QED BY <1>6, <1>7, <1>9, <1>13, <3>1, SupplyRateIs
  <2>3. mul_wad(Overflow, mul_wad(u, k)) = Overflow
    BY DEF mul_wad
  <2> QED BY <1>3, <1>4, <1>10, <1>13, <2>1, <2>2, <2>3
<1> QED BY <1>11, <1>12, <1>13

\* The kinks.
LEMMA RateMeetsKinks ==
  ASSUME NEW s \in ReserveSnapshot, is_reserve_config_valid(s)
  PROVE  LET u == utilization_wad(s)
             rate == current_borrow_rate_wad(s)
         IN /\ u = 0 => rate = pct_to_wad(s.min_rate)
            /\ (u = pct_to_wad(s.optimal_util) /\ s.optimal_util # 0) =>
                 rate = pct_to_wad(s.optimal_rate)
            /\ (u = pct_to_wad(s.max_util) /\ s.max_util > s.optimal_util) =>
                 rate = pct_to_wad(s.max_rate)
            /\ (u = Wad /\ s.max_util < 100) => rate = pct_to_wad(s.super_max_rate)
<1> DEFINE u == utilization_wad(s)
           opt == pct_to_wad(s.optimal_util)
           top == pct_to_wad(s.max_util)
           r0 == pct_to_wad(s.min_rate)
           r1 == pct_to_wad(s.optimal_rate)
           r2 == pct_to_wad(s.max_rate)
           r3 == pct_to_wad(s.super_max_rate)
<1>1. u \in 0 .. Wad \cup {Overflow} /\ Wad \in Nat
  BY UtilizationIs, ScaleIs
<1>2. /\ opt \in 0 .. Wad /\ top \in opt .. Wad
      /\ r0 \in 0 .. Word(HalfBits) - 1 /\ r1 \in 0 .. Word(HalfBits) - 1
      /\ r2 \in 0 .. Word(HalfBits) - 1 /\ r3 \in 0 .. Word(HalfBits) - 1
      /\ r0 <= r1 /\ r1 <= r2 /\ r2 <= r3
      /\ s.optimal_util # 0 => opt # 0
      /\ s.max_util > s.optimal_util => top > opt
      /\ s.max_util < 100 => top < Wad
  BY CurveOf
<1>3. current_borrow_rate_wad(s) = IF u = Overflow THEN Overflow ELSE RateAt(s, u)
  BY BorrowRateIs
<1>4. RateAt(s, u) = KinkedRate(u, opt, top, r0, r1, r2, r3)
  BY DEF RateAt
<1>5. u \in {0, opt, top, Wad} => u # Overflow /\ u \in 0 .. Wad
  BY <1>1, <1>2 DEF Overflow
<1> HIDE DEF u, opt, top, r0, r1, r2, r3
<1>6. u \in 0 .. Wad =>
        /\ u = 0 => KinkedRate(u, opt, top, r0, r1, r2, r3) = r0
        /\ (u = opt /\ opt # 0) => KinkedRate(u, opt, top, r0, r1, r2, r3) = r1
        /\ (u = top /\ top > opt) => KinkedRate(u, opt, top, r0, r1, r2, r3) = r2
        /\ (u = Wad /\ top < Wad) => KinkedRate(u, opt, top, r0, r1, r2, r3) = r3
  BY <1>2, KinkedRateIs
<1> QED BY <1>2, <1>3, <1>4, <1>5, <1>6 DEF u, opt, top, r0, r1, r2, r3

---------------------------------------------------------------------------
(* verify_same_tx_refresh_and_withdraw: the walk over the siblings.        *)

\* The values of the walk's cursor.
Cursor == [ok : BOOLEAN, refresh : Nat, withdraw : Nat]

\* The walk of the check over the list l.
IsWalk(f, l, x) ==
  f = [i \in 0 .. Len(l) |->
         IF i = 0 THEN Start ELSE Visit(f[i - 1], l[i], i, x)]

\* A visit keeps the cursor a cursor.
LEMMA VisitKeepsCursor ==
  ASSUME NEW acc \in Cursor, NEW ix, NEW i \in Nat, NEW x, x.reserve # Absent
  PROVE  Visit(acc, ix, i, x) \in Cursor
<1>1. Refuse(acc) \in Cursor
  BY DEF Refuse, Cursor
<1>2. [acc EXCEPT !.refresh = i] \in Cursor /\ [acc EXCEPT !.withdraw = i] \in Cursor
  BY DEF Cursor
<1>3. OnRefresh(acc, ix, i, x) \in {acc, Refuse(acc), [acc EXCEPT !.refresh = i]}
  BY DEF OnRefresh
<1>4. OnWithdraw(acc, ix, i, x) \in {acc, Refuse(acc), [acc EXCEPT !.withdraw = i]}
  BY DEF OnWithdraw
<1>5. OnOther(acc, ix, x) \in {acc, Refuse(acc)}
  BY DEF OnOther
<1>6. Visit(acc, ix, i, x) \in {acc, OnRefresh(acc, ix, i, x), OnWithdraw(acc, ix, i, x), OnOther(acc, ix, x)}
  BY DEF Visit
<1> QED BY <1>1, <1>2, <1>3, <1>4, <1>5, <1>6

\* The walk over the list is defined, each position by the one before.
LEMMA WalkExists ==
  ASSUME NEW D, NEW l \in Seq(D), NEW x, x.reserve # Absent
  PROVE  LET f == CHOOSE g : IsWalk(g, l, x) IN
           /\ f[0] = Start
           /\ \A i \in 1 .. Len(l) : f[i] = Visit(f[i - 1], l[i], i, x)
<1> DEFINE F == [n \in Nat |-> [a \in Cursor |-> Visit(a, l[n + 1], n + 1, x)]]
<1>1. F \in [Nat -> [Cursor -> Cursor]]
  BY VisitKeepsCursor
<1>2. Start \in Cursor
  BY DEF Start, Cursor
<1>3. PICK g : Recurs(g, Cursor, Start, F)
  <2> HIDE DEF F
  <2> QED BY <1>1, <1>2, RecursionOverNat
<1>4. /\ g \in [Nat -> Cursor] /\ g[0] = Start
      /\ \A n \in Nat : g[n + 1] = Visit(g[n], l[n + 1], n + 1, x)
  BY <1>3 DEF Recurs
<1> DEFINE h == [i \in 0 .. Len(l) |-> g[i]]
<1>5. Len(l) \in Nat
  OBVIOUS
<1>6. IsWalk(h, l, x)
  <2>1. ASSUME NEW i \in 0 .. Len(l)
        PROVE  h[i] = IF i = 0 THEN Start ELSE Visit(h[i - 1], l[i], i, x)
    <3>1. CASE i = 0
      BY <1>4, <1>5, <3>1
    <3>2. CASE i # 0
      <4>1. i - 1 \in Nat /\ i - 1 \in 0 .. Len(l) /\ (i - 1) + 1 = i
        BY <1>5, <3>2
      <4>2. g[i] = Visit(g[i - 1], l[i], i, x)
        BY <1>4, <4>1
      <4> QED BY <3>2, <4>1, <4>2
    <3> QED BY <3>1, <3>2
  <2> QED BY <2>1 DEF IsWalk
<1> DEFINE f == CHOOSE y : IsWalk(y, l, x)
<1>7. IsWalk(f, l, x)
  BY <1>6
<1> HIDE DEF f
<1>8. /\ f[0] = Start
      /\ \A i \in 1 .. Len(l) : f[i] = Visit(f[i - 1], l[i], i, x)
  BY <1>5, <1>7 DEF IsWalk
<1> QED BY <1>8 DEF f

\* What the check looks at is the end of that walk.
LEMMA VerifyIsWalk ==
  ASSUME NEW l, NEW x, verify_same_tx_refresh_and_withdraw(l, x)
  PROVE  RefreshThenWithdraw((CHOOSE g : IsWalk(g, l, x))[Len(l)])
BY DEF verify_same_tx_refresh_and_withdraw, IsWalk

\* After i instructions: unless the list is refused, the cursor's positions are
\* those of the instructions that touch the rule's accounts, of the right kind.
Met(acc, l, i, x) ==
  /\ acc \in Cursor
  /\ acc.ok =>
       /\ acc.refresh \in 0 .. i /\ acc.withdraw \in 0 .. i
       /\ \A j \in 1 .. i : Touches(l[j], x) <=> j \in {acc.refresh, acc.withdraw}
       /\ acc.refresh # 0 => l[acc.refresh].variant = "refresh"
       /\ acc.withdraw # 0 => /\ l[acc.withdraw].variant = "withdraw"
                              /\ l[acc.withdraw].destination = x.destination

\* An instruction that touches nothing of the rule's leaves the cursor alone.
LEMMA SameCursorMeets ==
  ASSUME NEW l, NEW x, NEW i \in Nat, NEW acc, Met(acc, l, i, x), ~Touches(l[i + 1], x)
  PROVE  Met(acc, l, i + 1, x)
<1>1. acc \in Cursor
  BY DEF Met
<1> SUFFICES ASSUME acc.ok
             PROVE  /\ acc.refresh \in 0 .. i + 1 /\ acc.withdraw \in 0 .. i + 1
                    /\ \A j \in 1 .. i + 1 : Touches(l[j], x) <=> j \in {acc.refresh, acc.withdraw}
  BY <1>1 DEF Met
<1>2. acc.refresh \in 0 .. i /\ acc.withdraw \in 0 .. i
  BY DEF Met
<1>3. ASSUME NEW j \in 1 .. i + 1 PROVE Touches(l[j], x) <=> j \in {acc.refresh, acc.withdraw}
  <2>1. CASE j = i + 1
    BY <1>2, <2>1
  <2>2. CASE j \in 1 .. i
    BY <2>2 DEF Met
  <2> QED BY <2>1, <2>2
<1> QED BY <1>2, <1>3

\* The first refresh is noted where it is met.
LEMMA NextRefreshMeets ==
  ASSUME NEW l, NEW x, NEW i \in Nat, NEW acc, Met(acc, l, i, x), Touches(l[i + 1], x),
         acc.refresh = 0, l[i + 1].variant = "refresh"
  PROVE  Met([acc EXCEPT !.refresh = i + 1], l, i + 1, x)
<1> DEFINE b == [acc EXCEPT !.refresh = i + 1]
<1>1. acc \in Cursor
  BY DEF Met
<1>2. b \in Cursor /\ b.ok = acc.ok /\ b.refresh = i + 1 /\ b.withdraw = acc.withdraw
  BY <1>1 DEF Cursor
<1> HIDE DEF b
<1> SUFFICES ASSUME b.ok PROVE Met(b, l, i + 1, x)
  BY <1>2 DEF Met, b
<1>3. acc.withdraw \in 0 .. i
  BY <1>2 DEF Met
<1>4. ASSUME NEW j \in 1 .. i + 1 PROVE Touches(l[j], x) <=> j \in {b.refresh, b.withdraw}
  <2>1. CASE j = i + 1
    BY <1>2, <2>1
  <2>2. CASE j \in 1 .. i
    BY <1>2, <2>2 DEF Met
  <2> QED BY <2>1, <2>2
<1>5. b.withdraw # 0 => l[b.withdraw].variant = "withdraw" /\ l[b.withdraw].destination = x.destination
  BY <1>2 DEF Met
<1> QED BY <1>2, <1>3, <1>4, <1>5 DEF Met

\* And so is the first withdraw into the destination.
LEMMA NextWithdrawMeets ==
  ASSUME NEW l, NEW x, NEW i \in Nat, NEW acc, Met(acc, l, i, x), Touches(l[i + 1], x),
         acc.withdraw = 0, l[i + 1].variant = "withdraw", l[i + 1].destination = x.destination
  PROVE  Met([acc EXCEPT !.withdraw = i + 1], l, i + 1, x)
<1> DEFINE b == [acc EXCEPT !.withdraw = i + 1]
<1>1. acc \in Cursor
  BY DEF Met
<1>2. b \in Cursor /\ b.ok = acc.ok /\ b.withdraw = i + 1 /\ b.refresh = acc.refresh
  BY <1>1 DEF Cursor
<1> HIDE DEF b
<1> SUFFICES ASSUME b.ok PROVE Met(b, l, i + 1, x)
  BY <1>2 DEF Met, b
<1>3. acc.refresh \in 0 .. i
  BY <1>2 DEF Met
<1>4. ASSUME NEW j \in 1 .. i + 1 PROVE Touches(l[j], x) <=> j \in {b.refresh, b.withdraw}
  <2>1. CASE j = i + 1
    BY <1>2, <2>1
  <2>2. CASE j \in 1 .. i
    BY <1>2, <2>2 DEF Met
  <2> QED BY <2>1, <2>2
<1>5. b.refresh # 0 => l[b.refresh].variant = "refresh"
  BY <1>2 DEF Met
<1> QED BY <1>2, <1>3, <1>4, <1>5 DEF Met

\* However an instruction is handled, the cursor names exactly the instructions
\* that touched the rule's accounts, or the list is refused.
LEMMA VisitMeets ==
  ASSUME NEW l, NEW x, x.reserve # Absent, NEW i \in Nat, NEW acc, Met(acc, l, i, x)
  PROVE  Met(Visit(acc, l[i + 1], i + 1, x), l, i + 1, x)
<1> DEFINE ix == l[i + 1]
<1>0. acc \in Cursor
  BY DEF Met
<1>1. Met(Refuse(acc), l, i + 1, x)
  <2>1. Refuse(acc) \in Cursor /\ Refuse(acc).ok = FALSE
    BY <1>0 DEF Refuse, Cursor
  <2> QED BY <2>1 DEF Met
<1>2. CASE ix.program # "solend"
  <2>1. Visit(acc, ix, i + 1, x) = acc /\ ~Touches(ix, x)
    BY <1>2 DEF Visit, Touches
  <2> QED BY <2>1, SameCursorMeets
<1>3. CASE ix.program = "solend" /\ ix.variant = "refresh"
  <2>1. Visit(acc, ix, i + 1, x) = OnRefresh(acc, ix, i + 1, x)
    BY <1>3 DEF Visit
  <2>2. CASE ix.reserve = Absent \/ (ix.reserve = x.reserve /\ acc.refresh # 0)
    BY <1>1, <2>1, <2>2 DEF OnRefresh
  <2>3. CASE ix.reserve \notin {Absent, x.reserve}
    <3>1. OnRefresh(acc, ix, i + 1, x) = acc /\ ~Touches(ix, x)
      BY <1>3, <2>3 DEF OnRefresh, Touches
    <3> QED BY <2>1, <3>1, SameCursorMeets
  <2>4. CASE ix.reserve = x.reserve /\ acc.refresh = 0
    <3>1. OnRefresh(acc, ix, i + 1, x) = [acc EXCEPT !.refresh = i + 1] /\ Touches(ix, x)
      BY <1>3, <2>4 DEF OnRefresh, Touches
    <3> QED BY <1>3, <2>1, <2>4, <3>1, NextRefreshMeets
  <2> QED BY <2>2, <2>3, <2>4
<1>4. CASE ix.program = "solend" /\ ix.variant = "withdraw"
  <2>1. Visit(acc, ix, i + 1, x) = OnWithdraw(acc, ix, i + 1, x)
    BY <1>4 DEF Visit
  <2>2. CASE OnWithdraw(acc, ix, i + 1, x) = Refuse(acc)
    BY <1>1, <2>1, <2>2
  <2>3. CASE /\ OnWithdraw(acc, ix, i + 1, x) = [acc EXCEPT !.withdraw = i + 1]
             /\ ix.obligation = x.obligation /\ acc.withdraw = 0
             /\ ix.destination = x.destination
    <3>1. Touches(ix, x)
      BY <1>4, <2>3 DEF Touches
    <3> QED BY <1>4, <2>1, <2>3, <3>1, NextWithdrawMeets
  <2>4. CASE /\ OnWithdraw(acc, ix, i + 1, x) = acc
             /\ ix.obligation # x.obligation /\ ix.reserve # x.reserve
    <3>1. ~Touches(ix, x)
      BY <1>4, <2>4 DEF Touches
    <3> QED BY <2>1, <2>4, <3>1, SameCursorMeets
  <2> QED BY <2>2, <2>3, <2>4 DEF OnWithdraw
<1>5. CASE ix.program = "solend" /\ ix.variant \notin {"refresh", "withdraw"}
  <2>1. Visit(acc, ix, i + 1, x) = OnOther(acc, ix, x)
    BY <1>5 DEF Visit
  <2>2. CASE ix.reserve = x.reserve \/ ix.obligation = x.obligation
    BY <1>1, <2>1, <2>2 DEF OnOther
  <2>3. CASE ~(ix.reserve = x.reserve \/ ix.obligation = x.obligation)
    <3>1. OnOther(acc, ix, x) = acc /\ ~Touches(ix, x)
      BY <2>3 DEF OnOther, Touches
    <3> QED BY <2>1, <3>1, SameCursorMeets
  <2> QED BY <2>2, <2>3
<1> QED BY <1>2, <1>3, <1>4, <1>5

\* verify_same_tx_refresh_and_withdraw, for lists of any length and of any
\* instructions: one that is accepted has exactly two instructions of Solend
\* that touch the rule's reserve or obligation, a refresh and, after it, a
\* withdraw into the destination the user signed.
THEOREM SiblingWalkIsExact ==
  ASSUME NEW D, NEW l \in Seq(D), NEW x, x.reserve # Absent,
         verify_same_tx_refresh_and_withdraw(l, x)
  PROVE  \E r, w \in 1 .. Len(l) :
           /\ r < w
           /\ {i \in 1 .. Len(l) : Touches(l[i], x)} = {r, w}
           /\ l[r].variant = "refresh"
           /\ l[w].variant = "withdraw" /\ l[w].destination = x.destination
<1> DEFINE f == CHOOSE g : IsWalk(g, l, x)
           T == {i \in Nat : i \in 0 .. Len(l) => Met(f[i], l, i, x)}
<1>0. Len(l) \in Nat
  OBVIOUS
<1>1. f[0] = Start /\ \A i \in 1 .. Len(l) : f[i] = Visit(f[i - 1], l[i], i, x)
  BY WalkExists
<1>2. RefreshThenWithdraw(f[Len(l)])
  BY VerifyIsWalk
<1> HIDE DEF f
<1>3. 0 \in T
  <2>1. /\ Start \in Cursor /\ Start.refresh = 0 /\ Start.withdraw = 0
        /\ \A j \in 1 .. 0 : FALSE
    BY DEF Start, Cursor
  <2>2. Met(Start, l, 0, x)
    BY <2>1 DEF Met
  <2> QED BY <1>1, <2>2
<1>4. ASSUME NEW i \in Nat, i \in T PROVE i + 1 \in T
  <2> SUFFICES ASSUME i + 1 \in 0 .. Len(l) PROVE Met(f[i + 1], l, i + 1, x)
    OBVIOUS
  <2>1. i \in 0 .. Len(l) /\ i + 1 \in 1 .. Len(l) /\ (i + 1) - 1 = i
    BY <1>0
  <2>2. Met(f[i], l, i, x)
    BY <1>4, <2>1
  <2>3. f[i + 1] = Visit(f[i], l[i + 1], i + 1, x)
    BY <1>1, <2>1
  <2> HIDE DEF T
  <2> QED BY <2>2, <2>3, VisitMeets
<1>5. Nat \subseteq T
  <2> HIDE DEF T
  <2> QED BY <1>3, <1>4, NatSetInduction
<1>6. Met(f[Len(l)], l, Len(l), x)
  BY <1>0, <1>5
<1> DEFINE acc == f[Len(l)]
<1>7. acc.ok /\ acc.refresh # 0 /\ acc.withdraw # 0 /\ acc.refresh < acc.withdraw
  BY <1>2 DEF RefreshThenWithdraw
<1> HIDE DEF acc
<1>8. Met(acc, l, Len(l), x)
  BY <1>6 DEF acc
<1>9. acc.refresh \in 1 .. Len(l) /\ acc.withdraw \in 1 .. Len(l)
  BY <1>0, <1>7, <1>8 DEF Met
<1>10. {i \in 1 .. Len(l) : Touches(l[i], x)} = {acc.refresh, acc.withdraw}
  BY <1>7, <1>8, <1>9 DEF Met
<1> QED BY <1>7, <1>8, <1>9, <1>10 DEF Met

---------------------------------------------------------------------------
(* verify_sibling_instructions: the phases around the swap.                *)

\* The values of the phase cursor.
Phases == [ok : BOOLEAN, phase : {"before", "at", "after"}, swaps : Nat]

\* The cursor before the first instruction, and after one more.
Unswapped == [ok |-> TRUE, phase |-> "before", swaps |-> 0]

Passed(acc, ix, writable) ==
  [ok    |-> acc.ok /\ SiblingAllowed(acc, ix, writable),
   phase |-> NextPhase(acc.phase, ix.program),
   swaps |-> acc.swaps + (IF ix.program = "jupiter" THEN 1 ELSE 0)]

\* The walk of the check over the list l.
IsSwapWalk(f, l, writable) ==
  f = [i \in 0 .. Len(l) |->
         IF i = 0 THEN [ok |-> TRUE, phase |-> "before", swaps |-> 0]
         ELSE [ok    |-> f[i - 1].ok /\ SiblingAllowed(f[i - 1], l[i], writable),
               phase |-> NextPhase(f[i - 1].phase, l[i].program),
               swaps |-> f[i - 1].swaps + (IF l[i].program = "jupiter" THEN 1 ELSE 0)]]

\* An instruction that may stand beside the swap.
MayAccompany(ix, writable) ==
  /\ ix.program \in JupiterClasses
  /\ ix.program = "spl_token" => ix.variant \in AllowedTokenVariants
  /\ ix.program # "jupiter" => ix.writes \subseteq writable

\* After i instructions: unless the list is refused, all of them may stand
\* there and at most one, which ends the first phase, is a swap.
Swapped(acc, l, i, writable) ==
  /\ acc \in Phases
  /\ acc.phase = "before" => acc.swaps = 0
  /\ acc.ok =>
       /\ \A j \in 1 .. i : MayAccompany(l[j], writable)
       /\ acc.phase = "before" => \A j \in 1 .. i : l[j].program # "jupiter"
       /\ acc.phase # "before" =>
            \E m \in 1 .. i : \A j \in 1 .. i : l[j].program = "jupiter" <=> j = m

\* A visit keeps the cursor a cursor.
LEMMA PassedKeepsPhases ==
  ASSUME NEW acc \in Phases, NEW ix, NEW writable
  PROVE  Passed(acc, ix, writable) \in Phases
<1> DEFINE ok == acc.ok /\ SiblingAllowed(acc, ix, writable)
           phase == NextPhase(acc.phase, ix.program)
           swaps == acc.swaps + (IF ix.program = "jupiter" THEN 1 ELSE 0)
<1>1. ok \in BOOLEAN
  OBVIOUS
<1>2. phase \in {"before", "at", "after"}
  BY DEF NextPhase, Phases
<1>3. swaps \in Nat
  BY DEF Phases
<1>4. Passed(acc, ix, writable) = [ok |-> ok, phase |-> phase, swaps |-> swaps]
  BY DEF Passed
<1> HIDE DEF ok, phase, swaps
<1> QED BY <1>1, <1>2, <1>3, <1>4 DEF Phases

\* The walk is defined, each position by the one before.
LEMMA SwapWalkExists ==
  ASSUME NEW D, NEW l \in Seq(D), NEW writable
  PROVE  LET f == CHOOSE g : IsSwapWalk(g, l, writable) IN
           /\ f[0] = Unswapped
           /\ \A i \in 1 .. Len(l) : f[i] = Passed(f[i - 1], l[i], writable)
<1> DEFINE F == [n \in Nat |-> [a \in Phases |-> Passed(a, l[n + 1], writable)]]
<1>1. F \in [Nat -> [Phases -> Phases]]
  BY PassedKeepsPhases
<1>2. Unswapped \in Phases
  BY DEF Unswapped, Phases
<1>3. PICK g : Recurs(g, Phases, Unswapped, F)
  <2> HIDE DEF F
  <2> QED BY <1>1, <1>2, RecursionOverNat
<1>4. /\ g \in [Nat -> Phases] /\ g[0] = Unswapped
      /\ \A n \in Nat : g[n + 1] = Passed(g[n], l[n + 1], writable)
  BY <1>3 DEF Recurs
<1> DEFINE h == [i \in 0 .. Len(l) |-> g[i]]
<1>5. Len(l) \in Nat
  OBVIOUS
<1>6. IsSwapWalk(h, l, writable)
  <2>1. ASSUME NEW i \in 0 .. Len(l)
        PROVE  h[i] = IF i = 0 THEN Unswapped ELSE Passed(h[i - 1], l[i], writable)
    <3>1. CASE i = 0
      BY <1>4, <1>5, <3>1
    <3>2. CASE i # 0
      <4>1. i - 1 \in Nat /\ i - 1 \in 0 .. Len(l) /\ (i - 1) + 1 = i
        BY <1>5, <3>2
      <4>2. g[i] = Passed(g[i - 1], l[i], writable)
        BY <1>4, <4>1
      <4> QED BY <3>2, <4>1, <4>2
    <3> QED BY <3>1, <3>2
  <2>2. h = [i \in 0 .. Len(l) |-> h[i]]
    OBVIOUS
  <2> HIDE DEF h
  <2>3. h = [i \in 0 .. Len(l) |-> IF i = 0 THEN Unswapped ELSE Passed(h[i - 1], l[i], writable)]
    BY <2>1, <2>2
  <2> QED BY <2>3 DEF IsSwapWalk, Unswapped, Passed
<1> DEFINE f == CHOOSE y : IsSwapWalk(y, l, writable)
<1>7. IsSwapWalk(f, l, writable)
  BY <1>6
<1> HIDE DEF f
<1>8. f = [i \in 0 .. Len(l) |-> IF i = 0 THEN Unswapped ELSE Passed(f[i - 1], l[i], writable)]
  BY <1>7 DEF IsSwapWalk, Unswapped, Passed
<1>9. \A i \in 0 .. Len(l) : f[i] = IF i = 0 THEN Unswapped ELSE Passed(f[i - 1], l[i], writable)
  BY <1>8
<1>10. /\ f[0] = Unswapped
       /\ \A i \in 1 .. Len(l) : f[i] = Passed(f[i - 1], l[i], writable)
  BY <1>5, <1>9
<1> QED BY <1>10 DEF f

\* One more instruction.
LEMMA PassedSwaps ==
  ASSUME NEW l, NEW writable, NEW i \in Nat, NEW acc, Swapped(acc, l, i, writable)
  PROVE  Swapped(Passed(acc, l[i + 1], writable), l, i + 1, writable)
<1> DEFINE ix == l[i + 1]
           b == Passed(acc, ix, writable)
<1>1. acc \in Phases /\ acc.swaps \in Nat
  BY DEF Swapped, Phases
<1>2. b \in Phases
  BY <1>1, PassedKeepsPhases
<1>3. /\ b.ok <=> acc.ok /\ SiblingAllowed(acc, ix, writable)
      /\ b.phase = NextPhase(acc.phase, ix.program)
      /\ b.swaps = acc.swaps + (IF ix.program = "jupiter" THEN 1 ELSE 0)
  BY DEF Passed
<1> HIDE DEF b
<1>4. b.phase = "before" <=> acc.phase = "before" /\ ix.program # "jupiter"
  BY <1>1, <1>3 DEF NextPhase, Phases
<1>5. b.phase = "before" => b.swaps = 0
  BY <1>1, <1>3, <1>4 DEF Swapped
<1>6. ASSUME b.ok
      PROVE  /\ \A j \in 1 .. i + 1 : MayAccompany(l[j], writable)
             /\ b.phase = "before" => \A j \in 1 .. i + 1 : l[j].program # "jupiter"
             /\ b.phase # "before" =>
                  \E m \in 1 .. i + 1 : \A j \in 1 .. i + 1 : l[j].program = "jupiter" <=> j = m
  <2>1. acc.ok /\ MayAccompany(ix, writable) /\ (ix.program = "jupiter" => acc.phase = "before")
    BY <1>3, <1>6 DEF SiblingAllowed, MayAccompany, SwapAllowed
  <2>2. \A j \in 1 .. i + 1 : j \in 1 .. i \/ j = i + 1
    OBVIOUS
  <2>3. \A j \in 1 .. i + 1 : MayAccompany(l[j], writable)
    BY <2>1, <2>2 DEF Swapped
  <2>4. b.phase = "before" => \A j \in 1 .. i + 1 : l[j].program # "jupiter"
    BY <1>4, <2>1, <2>2 DEF Swapped
  <2>5. ASSUME b.phase # "before"
        PROVE  \E m \in 1 .. i + 1 : \A j \in 1 .. i + 1 : l[j].program = "jupiter" <=> j = m
    <3>1. CASE ix.program = "jupiter"
      <4>1. \A j \in 1 .. i : l[j].program # "jupiter"
        BY <2>1, <3>1 DEF Swapped
      <4>2. i + 1 \in 1 .. i + 1 /\ i + 1 \notin 1 .. i
        OBVIOUS
      <4>3. \A j \in 1 .. i + 1 : l[j].program = "jupiter" <=> j = i + 1
        BY <2>2, <3>1, <4>1, <4>2
      <4> QED BY <4>2, <4>3
    <3>2. CASE ix.program # "jupiter"
      <4>1. acc.phase # "before"
        BY <1>4, <2>5, <3>2
      <4>2. PICK m \in 1 .. i : \A j \in 1 .. i : l[j].program = "jupiter" <=> j = m
        BY <2>1, <4>1 DEF Swapped
      <4>3. m \in 1 .. i + 1 /\ m # i + 1
        OBVIOUS
      <4>4. \A j \in 1 .. i + 1 : l[j].program = "jupiter" <=> j = m
        BY <2>2, <3>2, <4>2, <4>3
      <4> QED BY <4>3, <4>4
    <3> QED BY <3>1, <3>2
  <2> QED BY <2>3, <2>4, <2>5
<1> QED BY <1>2, <1>5, <1>6 DEF Swapped, b

\* verify_sibling_instructions, for lists of any length: one that is accepted
\* has exactly one swap, every instruction is of an allowed program and, of
\* the token program, of an allowed variant, and nothing but the swap writes
\* an account outside the set the rule allows.
THEOREM SwapWalkIsExact ==
  ASSUME NEW D, NEW l \in Seq(D), NEW writable, verify_sibling_instructions(l, writable)
  PROVE  /\ \A i \in 1 .. Len(l) : MayAccompany(l[i], writable)
         /\ \E m \in 1 .. Len(l) : \A i \in 1 .. Len(l) : l[i].program = "jupiter" <=> i = m
<1> DEFINE f == CHOOSE g : IsSwapWalk(g, l, writable)
           T == {i \in Nat : i \in 0 .. Len(l) => Swapped(f[i], l, i, writable)}
<1>0. Len(l) \in Nat
  OBVIOUS
<1>1. f[0] = Unswapped /\ \A i \in 1 .. Len(l) : f[i] = Passed(f[i - 1], l[i], writable)
  BY SwapWalkExists
<1>2. f[Len(l)].ok /\ f[Len(l)].swaps = 1
  BY DEF verify_sibling_instructions, IsSwapWalk
<1> HIDE DEF f
<1>3. 0 \in T
  <2>1. Unswapped \in Phases /\ Unswapped.phase = "before" /\ Unswapped.swaps = 0
        /\ \A j \in 1 .. 0 : FALSE
    BY DEF Unswapped, Phases
  <2>2. Swapped(Unswapped, l, 0, writable)
    BY <2>1 DEF Swapped
  <2> QED BY <1>1, <2>2
<1>4. ASSUME NEW i \in Nat, i \in T PROVE i + 1 \in T
  <2> SUFFICES ASSUME i + 1 \in 0 .. Len(l) PROVE Swapped(f[i + 1], l, i + 1, writable)
    OBVIOUS
  <2>1. i \in 0 .. Len(l) /\ i + 1 \in 1 .. Len(l) /\ (i + 1) - 1 = i
    BY <1>0
  <2>2. Swapped(f[i], l, i, writable)
    BY <1>4, <2>1
  <2>3. f[i + 1] = Passed(f[i], l[i + 1], writable)
    BY <1>1, <2>1
  <2> HIDE DEF T
  <2> QED BY <2>2, <2>3, PassedSwaps
<1>5. Nat \subseteq T
  <2> HIDE DEF T
  <2> QED BY <1>3, <1>4, NatSetInduction
<1>6. Swapped(f[Len(l)], l, Len(l), writable)
  BY <1>0, <1>5
<1> QED BY <1>2, <1>6 DEF Swapped

===========================================================================
