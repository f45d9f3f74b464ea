----------------------------- MODULE PoolProofs -----------------------------
(***************************************************************************)
(* Proofs about Pool and Portfolio, for any pools, requests and failures   *)
(* and any number of overlapping requests: no swap, deposit or withdrawal  *)
(* lowers what a share is worth, so no pool ever falls below its seed; no  *)
(* copy of the portfolio takes a task's reward twice; and no copy of it is *)
(* overdrawn, which is what its type says.  With one request at a time:    *)
(* none makes tokens, and, about TokenPlatform, no more is held or         *)
(* recorded of a wrapped token than its supply.                            *)
(***************************************************************************)
EXTENDS TokenPlatform, SumTheorems, WellFoundedInduction, TLAPS

\* A pool that can be swapped in.
Good(p) == p \in PoolRecord /\ p.r0 > 0 /\ p.r1 > 0 /\ p.shares > 0

-----------------------------------------------------------------------------
(* Arithmetic *)

\* Division rounds down.
LEMMA RoundsDown ==
    ASSUME NEW x \in Nat, NEW y \in Nat, y > 0
    PROVE  x \div y \in Nat /\ (x \div y) * y <= x
OBVIOUS

LEMMA LesserIs ==
    ASSUME NEW x \in Nat, NEW y \in Nat
    PROVE  Lesser(x, y) \in Nat /\ Lesser(x, y) <= x /\ Lesser(x, y) <= y
BY DEF Lesser

LEMMA ProductLeq ==
    ASSUME NEW a \in Nat, NEW b \in Nat, NEW c \in Nat, NEW d \in Nat, a <= b, c <= d
    PROVE  a * c <= b * d
<1>1. a * c <= b * c
  OBVIOUS
<1>2. b * c <= b * d
  OBVIOUS
<1> QED
  BY <1>1, <1>2

LEMMA ProductNat ==
    ASSUME NEW a \in Nat, NEW b \in Nat
    PROVE  a * b \in Nat /\ (a > 0 /\ b > 0 => a * b > 0)
OBVIOUS

LEMMA ProductPositive ==
    ASSUME NEW a \in Nat, NEW b \in Nat, a * b > 0
    PROVE  a > 0 /\ b > 0
OBVIOUS

\* A factor both sides have may be left out.
LEMMA Cancel ==
    ASSUME NEW a \in Nat, NEW b \in Nat, NEW c \in Nat, c > 0, a * c <= b * c
    PROVE  a <= b
<1> SUFFICES ASSUME a > b PROVE FALSE
  OBVIOUS
<1>1. a = b + (a - b) /\ a - b > 0 /\ a - b \in Nat
  OBVIOUS
<1>2. a * c = b * c + (a - b) * c
  OBVIOUS
<1>3. (a - b) * c > 0
  BY <1>1, ProductNat
<1> QED
  BY <1>2, <1>3, ProductNat

\* The integer root that AddLiquidity's Sqrt looks for exists.
LEMMA HasRoot ==
    ASSUME NEW n \in Nat
    PROVE  \E r \in 0..n : IsRoot(n, r)
<1> DEFINE T == {r \in Nat : n < (r + 1) * (r + 1)}
<1>1. n \in T
  <2>1. (n + 1) * (n + 1) = n * n + 2 * n + 1
    OBVIOUS
  <2>2. n * n >= 0
    OBVIOUS
  <2> QED
    BY <2>1, <2>2
<1>2. PICK r \in T : \A s \in T : ~(<<s, r>> \in OpToRel(<, Nat))
  <2> HIDE DEF T
  <2>1. T \subseteq Nat
    BY DEF T
  <2> QED
    BY <1>1, <2>1, NatLessThanWellFounded, WFMin
<1>3. \A s \in T : ~(s < r)
  BY <1>2 DEF OpToRel
<1>4. r \in Nat /\ n < (r + 1) * (r + 1)
  OBVIOUS
<1>5. r <= n
  BY <1>1, <1>3, <1>4
<1>6. r * r <= n
  <2>1. CASE r = 0
    BY <2>1
  <2>2. CASE r # 0
    <3>1. r - 1 \in Nat /\ r - 1 < r
      BY <1>4, <2>2
    <3>2. ~(n < r * r)
      <4>1. (r - 1) + 1 = r
        BY <1>4
      <4> QED
        BY <1>3, <3>1, <4>1
    <3> QED
      BY <3>2, <1>4
  <2> QED
    BY <2>1, <2>2
<1> QED
  BY <1>4, <1>5, <1>6 DEF IsRoot

LEMMA RootIs ==
    ASSUME NEW n \in Nat
    PROVE  Root(n) \in Nat /\ Root(n) * Root(n) <= n
<1>1. Root(n) \in 0..n /\ IsRoot(n, Root(n))
  BY HasRoot DEF Root
<1> QED
  BY <1>1 DEF IsRoot

-----------------------------------------------------------------------------
(* Worth *)

LEMMA WorthTransitive ==
    ASSUME NEW p \in PoolRecord, NEW q \in PoolRecord, NEW b \in PoolRecord, q.shares > 0,
           ShareWorthAtLeast(p, q), ShareWorthAtLeast(q, b)
    PROVE  ShareWorthAtLeast(p, b)
<1> DEFINE P == p.r0 * p.r1
           Q == q.r0 * q.r1
           B == b.r0 * b.r1
           ps == p.shares * p.shares
           qs == q.shares * q.shares
           bs == b.shares * b.shares
<1>1. /\ {P, Q, B, ps, qs, bs} \subseteq Nat /\ qs > 0
  BY ProductNat DEF PoolRecord
<1>2. Q * ps <= P * qs /\ B * qs <= Q * bs
  <2>1. q.r0 * q.r1 * p.shares * p.shares = Q * ps /\ p.r0 * p.r1 * q.shares * q.shares = P * qs
    BY DEF PoolRecord
  <2>2. b.r0 * b.r1 * q.shares * q.shares = B * qs /\ q.r0 * q.r1 * b.shares * b.shares = Q * bs
    BY DEF PoolRecord
  <2> QED
    BY <1>1, <2>1, <2>2, ProductNat DEF ShareWorthAtLeast
<1>3. B * ps <= P * bs
  <2> HIDE DEF P, Q, B, ps, qs, bs
  <2>1. (Q * ps) * bs <= (P * qs) * bs /\ (B * qs) * ps <= (Q * bs) * ps
    BY <1>1, <1>2, ProductNat, ProductLeq
  <2>2. /\ (B * ps) * qs = (B * qs) * ps /\ (Q * bs) * ps = (Q * ps) * bs
        /\ (P * qs) * bs = (P * bs) * qs
    BY <1>1
  <2>3. (B * ps) * qs <= (P * bs) * qs
    <3>1. {(B * ps) * qs, (B * qs) * ps, (Q * bs) * ps,
           (Q * ps) * bs, (P * qs) * bs, (P * bs) * qs} \subseteq Nat
      BY <1>1, ProductNat
    <3> QED
      BY <2>1, <2>2, <3>1
  <2> QED
    BY <1>1, <2>3, ProductNat, Cancel
<1>4. b.r0 * b.r1 * p.shares * p.shares = B * ps /\ p.r0 * p.r1 * b.shares * b.shares = P * bs
  BY DEF PoolRecord
<1> QED
  BY <1>1, <1>3, <1>4, ProductNat DEF ShareWorthAtLeast

\* Two amounts that each fall short of their share of the reserves by nothing.
LEMMA WorthOfShares ==
    ASSUME NEW p \in PoolRecord, NEW q \in PoolRecord,
           q.r0 * p.shares <= p.r0 * q.shares, q.r1 * p.shares <= p.r1 * q.shares
    PROVE  ShareWorthAtLeast(p, q)
<1>1. {q.r0 * p.shares, p.r0 * q.shares, q.r1 * p.shares, p.r1 * q.shares} \subseteq Nat
  BY ProductNat DEF PoolRecord
<1>2. (q.r0 * p.shares) * (q.r1 * p.shares) <= (p.r0 * q.shares) * (p.r1 * q.shares)
  BY <1>1, ProductLeq
<1>3. (q.r0 * p.shares) * (q.r1 * p.shares) = q.r0 * q.r1 * p.shares * p.shares
  BY DEF PoolRecord
<1>4. (p.r0 * q.shares) * (p.r1 * q.shares) = p.r0 * p.r1 * q.shares * q.shares
  BY DEF PoolRecord
<1> QED
  BY <1>1, <1>2, <1>3, <1>4, ProductNat DEF ShareWorthAtLeast

-----------------------------------------------------------------------------
(* Swaps, deposits and withdrawals *)

LEMMA SidesOf ==
    ASSUME NEW p, Good(p), NEW side \in {0, 1}
    PROVE  /\ In(p, side) \in Nat /\ In(p, side) > 0
           /\ Out(p, side) \in Nat /\ Out(p, side) > 0
           /\ In(p, side) * Out(p, side) = p.r0 * p.r1
<1>1. CASE side = 0
  BY <1>1 DEF Good, PoolRecord, In, Out
<1>2. CASE side = 1
  BY <1>2 DEF Good, PoolRecord, In, Out
<1> QED
  BY <1>1, <1>2

LEMMA AmountOutNat ==
    ASSUME NEW p, Good(p), NEW side \in {0, 1}, NEW ain \in Nat
    PROVE  AmountOut(p, side, ain) \in Nat
<1> DEFINE paid == ain * (10000 - FeeBps)
<1>1. paid \in Nat
  BY PortfolioAssumed, ProductNat DEF PortfolioAssumption, PoolAssumption
<1>2. AmountOut(p, side, ain) = (paid * Out(p, side)) \div (In(p, side) * 10000 + paid)
  BY DEF AmountOut
<1> HIDE DEF paid
<1>3. paid * Out(p, side) \in Nat /\ In(p, side) * 10000 + paid \in Nat
      /\ In(p, side) * 10000 + paid > 0
  BY <1>1, SidesOf, ProductNat
<1> QED
  BY <1>2, <1>3, RoundsDown

\* What a swap gives is at most what keeps the product of the reserves.
LEMMA AmountOutFair ==
    ASSUME NEW p, Good(p), NEW side \in {0, 1}, NEW ain \in Nat, CanSwap(p, side, ain)
    PROVE  /\ AmountOut(p, side, ain) \in Nat
           /\ AmountOut(p, side, ain) < Out(p, side)
           /\ In(p, side) * Out(p, side)
              <= (In(p, side) + ain) * (Out(p, side) - AmountOut(p, side, ain))
<1> DEFINE i == In(p, side)
           o == Out(p, side)
           g == 10000 - FeeBps
           paid == ain * g
           x == AmountOut(p, side, ain)
<1>1. i \in Nat /\ i > 0 /\ o \in Nat /\ o > 0
  BY SidesOf
<1>2. g \in Nat /\ g > 0 /\ g <= 10000
  BY PortfolioAssumed DEF PortfolioAssumption, PoolAssumption
<1>3. ain > 0 /\ x < o
  BY DEF CanSwap, CanQuote
<1>4. paid \in Nat /\ paid * o \in Nat /\ i * 10000 + paid \in Nat /\ i * 10000 + paid > 0
  <2> HIDE DEF i, o, g
  <2>1. paid \in Nat
    BY <1>2, ProductNat
  <2> HIDE DEF paid
  <2> QED
    BY <1>1, <2>1, ProductNat
<1>5. x = (paid * o) \div (i * 10000 + paid)
  BY DEF AmountOut
<1>6. x \in Nat /\ x * (i * 10000 + paid) <= paid * o
  <2> HIDE DEF x, i, o, paid
  <2> QED
    BY <1>4, <1>5, RoundsDown
<1>7. o - x \in Nat
  <2> HIDE DEF x, i, o, paid
  <2> QED
    BY <1>1, <1>3, <1>6
<1> HIDE DEF x, i, o, g
<1>8. (x * i) * 10000 <= (ain * (o - x)) * 10000
  <2>1. (x * i) * 10000 <= paid * (o - x)
    <3>1. x * (i * 10000 + paid) = (x * i) * 10000 + x * paid
      BY <1>1, <1>4, <1>6
    <3>2. paid * (o - x) = paid * o - x * paid
      BY <1>1, <1>4, <1>6
    <3>3. {x * i, x * paid, paid * o} \subseteq Nat
      BY <1>1, <1>4, <1>6, ProductNat
    <3> HIDE DEF paid
    <3> QED
      BY <1>1, <1>4, <1>6, <1>7, <3>1, <3>2, <3>3
  <2>2. paid * (o - x) = (ain * (o - x)) * g
    BY <1>1, <1>2, <1>6, <1>7
  <2>3. ain * (o - x) \in Nat
    BY <1>7, ProductNat
  <2>4. (ain * (o - x)) * g <= (ain * (o - x)) * 10000
    BY <1>2, <2>3, ProductLeq
  <2>5. (x * i) * 10000 \in Nat /\ (ain * (o - x)) * g \in Nat
    BY <1>1, <1>2, <1>6, <2>3, ProductNat
  <2> HIDE DEF paid
  <2> QED
    BY <2>1, <2>2, <2>3, <2>4, <2>5
<1>9. x * i <= ain * (o - x)
  BY <1>1, <1>6, <1>7, <1>8, ProductNat
<1>10. (i + ain) * (o - x) = i * o - x * i + ain * (o - x)
  BY <1>1, <1>6, <1>7
<1>11. i * o <= (i + ain) * (o - x)
  <2>1. {i * o, x * i, ain * (o - x)} \subseteq Nat
    BY <1>1, <1>6, <1>7, ProductNat
  <2> QED
    BY <1>9, <1>10, <2>1
<1> QED
  BY <1>3, <1>6, <1>11 DEF x, i, o

\* A swap keeps the worth of a share: the fee and the rounding are the pool's.
LEMMA SwapKeepsWorth ==
    ASSUME NEW p, Good(p), NEW side \in {0, 1}, NEW ain \in Nat, CanSwap(p, side, ain)
    PROVE  Good(Swapped(p, side, ain)) /\ ShareWorthAtLeast(Swapped(p, side, ain), p)
<1> DEFINE x == AmountOut(p, side, ain)
           q == Swapped(p, side, ain)
<1>1. /\ x \in Nat /\ x < Out(p, side)
      /\ In(p, side) * Out(p, side) <= (In(p, side) + ain) * (Out(p, side) - x)
  BY AmountOutFair
<1>2. /\ Good(q) /\ q.shares = p.shares
      /\ q.r0 * q.r1 = (In(p, side) + ain) * (Out(p, side) - x)
  <2>1. q = IF side = 0 THEN [p EXCEPT !.r0 = @ + ain, !.r1 = @ - x]
            ELSE [p EXCEPT !.r1 = @ + ain, !.r0 = @ - x]
    BY DEF Swapped
  <2> HIDE DEF x, q
  <2>2. CASE side = 0
    <3>1. In(p, side) = p.r0 /\ Out(p, side) = p.r1
      BY <2>2 DEF In, Out
    <3>2. q = [r0 |-> p.r0 + ain, r1 |-> p.r1 - x, shares |-> p.shares]
      BY <2>1, <2>2 DEF Good, PoolRecord
    <3>3. x \in Nat /\ x < p.r1
      BY <1>1, <3>1
    <3>4. Good(q)
      BY <3>2, <3>3 DEF Good, PoolRecord
    <3> QED
      BY <3>1, <3>2, <3>4
  <2>3. CASE side = 1
    <3>1. In(p, side) = p.r1 /\ Out(p, side) = p.r0
      BY <2>3 DEF In, Out
    <3>2. q = [r0 |-> p.r0 - x, r1 |-> p.r1 + ain, shares |-> p.shares]
      <4>1. q = [p EXCEPT !.r1 = @ + ain, !.r0 = @ - x]
        BY <2>1, <2>3
      <4> QED
        BY <4>1 DEF Good, PoolRecord
    <3>3. x \in Nat /\ x < p.r0
      BY <1>1, <3>1
    <3>4. Good(q)
      BY <3>2, <3>3 DEF Good, PoolRecord
    <3>5. q.r0 * q.r1 = q.r1 * q.r0
      BY <3>4 DEF Good, PoolRecord
    <3> QED
      BY <3>1, <3>2, <3>4, <3>5
  <2> QED
    BY <2>2, <2>3
<1>3. p.r0 * p.r1 <= q.r0 * q.r1
  BY <1>1, <1>2, SidesOf
<1>4. p.shares \in Nat /\ p.r0 * p.r1 \in Nat /\ q.r0 * q.r1 \in Nat
  BY <1>2, ProductNat DEF Good, PoolRecord
<1>5. p.r0 * p.r1 * p.shares <= q.r0 * q.r1 * p.shares
  BY <1>3, <1>4, ProductLeq
<1>6. p.r0 * p.r1 * p.shares * p.shares <= q.r0 * q.r1 * p.shares * p.shares
  BY <1>4, <1>5, ProductLeq, ProductNat
<1>7. /\ p.r0 * p.r1 * p.shares * p.shares \in Nat
      /\ q.r0 * q.r1 * p.shares * p.shares \in Nat
  BY <1>4, ProductNat
<1> HIDE DEF q
<1> QED
  BY <1>2, <1>6, <1>7 DEF ShareWorthAtLeast, q

\* A deposit into a pool that has shares mints for the scarcer amount.
LEMMA AddKeepsWorth ==
    ASSUME NEW p, Good(p), NEW a0 \in Nat, NEW a1 \in Nat
    PROVE  /\ Good(Added(p, a0, a1)) /\ ShareWorthAtLeast(Added(p, a0, a1), p)
           /\ Minted(p, a0, a1) \in Nat
<1> DEFINE m0 == (a0 * p.shares) \div p.r0
           m1 == (a1 * p.shares) \div p.r1
           m == Lesser(m0, m1)
           q == Added(p, a0, a1)
<1>1. p \in PoolRecord /\ p.r0 \in Nat /\ p.r1 \in Nat /\ p.shares \in Nat
      /\ p.r0 > 0 /\ p.r1 > 0 /\ p.shares > 0
  BY DEF Good, PoolRecord
<1>2. m0 \in Nat /\ m0 * p.r0 <= a0 * p.shares
  BY <1>1, ProductNat, RoundsDown
<1>3. m1 \in Nat /\ m1 * p.r1 <= a1 * p.shares
  BY <1>1, ProductNat, RoundsDown
<1>4. m \in Nat /\ m <= m0 /\ m <= m1
  <2> HIDE DEF m0, m1
  <2> QED
    BY <1>2, <1>3, LesserIs
<1>5. Minted(p, a0, a1) = m
  BY <1>1 DEF Minted
<1>6. q = [r0 |-> p.r0 + a0, r1 |-> p.r1 + a1, shares |-> p.shares + m]
  BY <1>5 DEF Added
<1> HIDE DEF m, m0, m1, q
<1>7. m * p.r0 <= a0 * p.shares /\ m * p.r1 <= a1 * p.shares
  <2>1. m * p.r0 <= m0 * p.r0 /\ m * p.r1 <= m1 * p.r1
    BY <1>1, <1>2, <1>3, <1>4, ProductLeq
  <2>2. {m * p.r0, m0 * p.r0, m * p.r1, m1 * p.r1, a0 * p.shares, a1 * p.shares} \subseteq Nat
    BY <1>1, <1>2, <1>3, <1>4, ProductNat
  <2> QED
    BY <1>2, <1>3, <2>1, <2>2
<1>8. Good(q)
  BY <1>1, <1>4, <1>6 DEF Good, PoolRecord
<1>9. p.r0 * q.shares <= q.r0 * p.shares /\ p.r1 * q.shares <= q.r1 * p.shares
  <2>1. /\ p.r0 * (p.shares + m) = p.r0 * p.shares + m * p.r0
        /\ (p.r0 + a0) * p.shares = p.r0 * p.shares + a0 * p.shares
        /\ p.r1 * (p.shares + m) = p.r1 * p.shares + m * p.r1
        /\ (p.r1 + a1) * p.shares = p.r1 * p.shares + a1 * p.shares
    BY <1>1, <1>4
  <2>2. {m * p.r0, m * p.r1, a0 * p.shares, a1 * p.shares, p.r0 * p.shares, p.r1 * p.shares} \subseteq Nat
    BY <1>1, <1>4, ProductNat
  <2>3. q.r0 = p.r0 + a0 /\ q.r1 = p.r1 + a1 /\ q.shares = p.shares + m
    BY <1>6
  <2> QED
    BY <1>7, <2>1, <2>2, <2>3
<1>10. ShareWorthAtLeast(q, p)
  BY <1>1, <1>8, <1>9, WorthOfShares DEF Good
<1> QED
  BY <1>4, <1>5, <1>8, <1>10 DEF q

\* A withdrawal pays rounding down, and never the last share.
LEMMA RemoveKeepsWorth ==
    ASSUME NEW p, Good(p), NEW n \in Nat, CanRemove(p, n)
    PROVE  Good(Removed(p, n)) /\ ShareWorthAtLeast(Removed(p, n), p)
<1> DEFINE b == Burnt(p, n)
           x0 == (b * p.r0) \div p.shares
           x1 == (b * p.r1) \div p.shares
           q == Removed(p, n)
<1>1. p \in PoolRecord /\ p.r0 \in Nat /\ p.r1 \in Nat /\ p.shares \in Nat
      /\ p.r0 > 0 /\ p.r1 > 0 /\ p.shares > 0
  BY DEF Good, PoolRecord
<1>2. b \in Nat /\ b < p.shares
  BY <1>1 DEF Burnt
<1>3. q = [r0 |-> p.r0 - x0, r1 |-> p.r1 - x1, shares |-> p.shares - b]
  BY DEF Removed, Paid0, Paid1
<1>4. /\ x0 \in Nat /\ x0 * p.shares <= b * p.r0
      /\ x1 \in Nat /\ x1 * p.shares <= b * p.r1
  <2> HIDE DEF b
  <2> QED
    BY <1>1, <1>2, ProductNat, RoundsDown
<1> HIDE DEF b, x0, x1, q
<1> DEFINE s == p.shares - b
<1>5. s \in Nat /\ s > 0
  BY <1>1, <1>2
<1>6. p.r0 * s <= (p.r0 - x0) * p.shares /\ p.r1 * s <= (p.r1 - x1) * p.shares
  <2>1. /\ p.r0 * (p.shares - b) = p.r0 * p.shares - b * p.r0
        /\ (p.r0 - x0) * p.shares = p.r0 * p.shares - x0 * p.shares
        /\ p.r1 * (p.shares - b) = p.r1 * p.shares - b * p.r1
        /\ (p.r1 - x1) * p.shares = p.r1 * p.shares - x1 * p.shares
    BY <1>1, <1>2, <1>4
  <2>2. {x0 * p.shares, x1 * p.shares, b * p.r0, b * p.r1, p.r0 * p.shares, p.r1 * p.shares} \subseteq Nat
    BY <1>1, <1>2, <1>4, ProductNat
  <2> QED
    BY <1>4, <2>1, <2>2
<1> HIDE DEF s
<1>7. ASSUME NEW r \in Nat, NEW x \in Nat, r > 0, r * s <= (r - x) * p.shares
      PROVE  r - x \in Nat /\ r - x > 0
  <2>1. r * s > 0
    BY <1>5, <1>7, ProductNat
  <2> SUFFICES ASSUME x >= r PROVE FALSE
    BY <1>7
  <2>2. x - r \in Nat /\ (x - r) * p.shares \in Nat
    BY <1>1, <1>7, ProductNat
  <2>3. (r - x) * p.shares = 0 - (x - r) * p.shares
    BY <1>1, <1>7
  <2>4. r * s \in Nat
    BY <1>5, ProductNat
  <2> QED
    BY <1>7, <2>1, <2>2, <2>3, <2>4
<1>8. q.r0 = p.r0 - x0 /\ q.r1 = p.r1 - x1 /\ q.shares = s
  BY <1>3 DEF s
<1>9. Good(q)
  <2>1. p.r0 - x0 \in Nat /\ p.r0 - x0 > 0 /\ p.r1 - x1 \in Nat /\ p.r1 - x1 > 0
    BY <1>1, <1>4, <1>6, <1>7
  <2> QED
    BY <1>3, <1>5, <2>1 DEF Good, PoolRecord, s
<1>10. ShareWorthAtLeast(q, p)
  BY <1>1, <1>6, <1>8, <1>9, WorthOfShares DEF Good
<1> QED
  BY <1>9, <1>10 DEF q

-----------------------------------------------------------------------------
(* Seeds and new pools *)

Worthy(p, q) == Good(p) /\ ShareWorthAtLeast(p, Base(q))

LEMMA BaseIs ==
    ASSUME NEW q \in Pair
    PROVE  Good(Base(q)) /\ Base(q).r0 * Base(q).r1 <= Base(q).shares * Base(q).shares
<1>1. CASE Seeds[q] = NoPool
  BY <1>1 DEF Base, Good, PoolRecord
<1>2. CASE Seeds[q] # NoPool
  BY <1>2, PortfolioAssumed DEF Base, Good, PoolFile, PortfolioAssumption
<1> QED
  BY <1>1, <1>2

LEMMA SeedWorthy ==
    ASSUME NEW q \in Pair, Seeds[q] # NoPool
    PROVE  Seeds[q] \in PoolRecord /\ Worthy(Seeds[q], q)
<1>1. Base(q) = Seeds[q] /\ Good(Seeds[q])
  BY BaseIs DEF Base
<1>2. ShareWorthAtLeast(Seeds[q], Seeds[q])
  <2>1. Seeds[q].r0 * Seeds[q].r1 * Seeds[q].shares * Seeds[q].shares \in Nat
    BY <1>1, ProductNat DEF Good, PoolRecord
  <2> QED
    BY <2>1 DEF ShareWorthAtLeast
<1> QED
  BY <1>1, <1>2 DEF Worthy, Good

\* A new pool mints the root of its product.
LEMMA NewPoolWorthy ==
    ASSUME NEW q \in Pair, NEW a0 \in Nat, NEW a1 \in Nat, CanAdd(Empty, a0, a1)
    PROVE  Worthy(Added(Empty, a0, a1), q) /\ Minted(Empty, a0, a1) \in Nat
<1> DEFINE s == Root(a0 * a1)
           p == Added(Empty, a0, a1)
           b == Base(q)
<1>1. a0 * a1 \in Nat
  BY ProductNat
<1>2. s \in Nat /\ s * s <= a0 * a1 /\ s > 0
  BY <1>1, RootIs DEF CanAdd, Empty
<1>3. a0 > 0 /\ a1 > 0
  <2>1. s * s > 0
    BY <1>2, ProductNat
  <2>2. s * s \in Nat
    BY <1>2, ProductNat
  <2> HIDE DEF s
  <2>3. a0 * a1 > 0
    BY <1>1, <1>2, <2>1, <2>2
  <2> QED
    BY <2>3, ProductPositive
<1>4. Minted(Empty, a0, a1) = s /\ p = [r0 |-> a0, r1 |-> a1, shares |-> s]
  BY <1>2 DEF Minted, Added, Empty
<1> HIDE DEF s, p
<1>5. Good(p)
  BY <1>2, <1>3, <1>4 DEF Good, PoolRecord
<1>6. /\ b \in PoolRecord /\ b.r0 \in Nat /\ b.r1 \in Nat /\ b.shares \in Nat
      /\ b.r0 * b.r1 <= b.shares * b.shares
  BY BaseIs DEF Good, PoolRecord
<1> HIDE DEF b
<1>7. (b.r0 * b.r1) * (s * s) <= (b.shares * b.shares) * (a0 * a1)
  BY <1>1, <1>2, <1>6, ProductLeq, ProductNat
<1>8. ShareWorthAtLeast(p, b)
  <2>1. b.r0 * b.r1 * s * s = (b.r0 * b.r1) * (s * s)
    BY <1>2, <1>6
  <2>2. a0 * a1 * b.shares * b.shares = (b.shares * b.shares) * (a0 * a1)
    BY <1>6
  <2>3. (b.r0 * b.r1) * (s * s) \in Nat /\ (b.shares * b.shares) * (a0 * a1) \in Nat
    BY <1>1, <1>2, <1>6, ProductNat
  <2>4. p.r0 = a0 /\ p.r1 = a1 /\ p.shares = s
    BY <1>4
  <2>5. a0 * a1 * b.shares * b.shares >= b.r0 * b.r1 * s * s
    BY <1>7, <2>1, <2>2, <2>3
  <2> QED
    BY <2>4, <2>5 DEF ShareWorthAtLeast
<1> QED
  BY <1>2, <1>4, <1>5, <1>8 DEF Worthy, b, p

\* What keeps a share's worth keeps it above the base.
LEMMA WorthyMore ==
    ASSUME NEW q \in Pair, NEW p, Worthy(p, q), NEW r, Good(r), ShareWorthAtLeast(r, p)
    PROVE  Worthy(r, q)
<1>1. p \in PoolRecord /\ r \in PoolRecord /\ Base(q) \in PoolRecord /\ p.shares > 0
  BY BaseIs DEF Worthy, Good
<1>2. ShareWorthAtLeast(r, Base(q))
  BY <1>1, WorthTransitive DEF Worthy
<1> QED
  BY <1>2 DEF Worthy

-----------------------------------------------------------------------------
(* Requests *)

Step == {"load", "keep", "save", "mustSave", "swap", "quote", "secondLeg", "add", "remove", "update",
         "pay0", "pay1", "get0", "get1", "burn", "shares", "reseed", "seedPools", "starter",
         "pay", "get", "refuse", "isOpen", "mark", "reward", "pledge", "borrow", "lent",
         "payDebt", "release", "repaid", "lock", "receipt", "staked", "redeem", "principal", "unstaked"}
Steps(s) == {s[i] : i \in 1..Len(s)}

LEMMA StepsOfTail ==
    ASSUME NEW s \in Seq(Step), s # <<>>
    PROVE  Tail(s) \in Seq(Step) /\ Steps(Tail(s)) \subseteq Steps(s)
BY DEF Steps

LEMMA StepsOfRest ==
    ASSUME NEW s \in Seq(Step), NEW n \in Nat
    PROVE  /\ SubSeq(s, n + 1, Len(s)) \in Seq(Step)
           /\ Steps(SubSeq(s, n + 1, Len(s))) \subseteq Steps(s)
<1> DEFINE rest == SubSeq(s, n + 1, Len(s))
<1>1. PICK L \in Nat : L = Len(s)
  OBVIOUS
<1>2. ASSUME NEW i \in (n + 1)..L
      PROVE  i \in 1..L /\ s[i] \in Step
  <2>1. i \in 1..L
    BY <1>1
  <2> QED
    BY <1>1, <2>1
<1>3. rest \in Seq(Step)
  BY <1>1, <1>2
<1>4. Len(rest) = IF n + 1 <= L THEN L - n ELSE 0
  BY <1>1
<1>5. ASSUME NEW j \in 1..Len(rest)
      PROVE  rest[j] \in Steps(s)
  <2>1. n + j \in 1..L /\ n + j \in (n + 1)..L
    BY <1>1, <1>4
  <2>2. rest[j] = s[n + j]
    BY <1>1, <1>4
  <2> QED
    BY <1>1, <2>1, <2>2 DEF Steps
<1> QED
  BY <1>3, <1>5 DEF Steps

LEMMA StepsOfBoth ==
    ASSUME NEW s \in Seq(Step), NEW t \in Seq(Step)
    PROVE  /\ s \o t \in Seq(Step)
           /\ \A x : x \in Steps(s \o t) => x \in Steps(s) \/ x \in Steps(t)
           /\ s # <<>> => s \o t # <<>> /\ Head(s \o t) = Head(s)
<1>1. s \o t \in Seq(Step) /\ Len(s \o t) = Len(s) + Len(t)
  OBVIOUS
<1>2. ASSUME NEW i \in 1..Len(s \o t)
      PROVE  (s \o t)[i] \in Steps(s) \/ (s \o t)[i] \in Steps(t)
  <2>1. CASE i <= Len(s)
    <3>1. (s \o t)[i] = s[i] /\ i \in 1..Len(s)
      BY <1>1, <2>1
    <3> QED
      BY <3>1 DEF Steps
  <2>2. CASE i > Len(s)
    <3>1. (s \o t)[i] = t[i - Len(s)] /\ i - Len(s) \in 1..Len(t)
      BY <1>1, <2>2
    <3> QED
      BY <3>1 DEF Steps
  <2> QED
    BY <2>1, <2>2
<1>3. s # <<>> => s \o t # <<>> /\ Head(s \o t) = Head(s)
  OBVIOUS
<1> QED
  BY <1>1, <1>2, <1>3 DEF Steps

LEMMA StepsOfComplete ==
    ASSUME NEW op
    PROVE  Complete(op) \in Seq(Step) /\ "update" \notin Steps(Complete(op))
<1>1. CASE TaskOf[op] = NoTask
  BY <1>1 DEF Complete, Steps
<1>2. CASE TaskOf[op] # NoTask
  <2>1. Complete(op) = <<"isOpen", "mark", "reward", "save">>
    BY <1>2 DEF Complete
  <2>2. <<"isOpen", "mark", "reward", "save">> \in Seq(Step)
    BY DEF Step
  <2> QED
    BY <2>1, <2>2 DEF Steps
<1> QED
  BY <1>1, <1>2

\* A request that has a pool to put in place works it out first.
WorksOutFirst(s) ==
    \/ Head(s) \in {"swap", "add", "remove"}
    \/ Head(s) = "quote" /\ Tail(s) # <<>> /\ Head(Tail(s)) = "swap"

LEMMA Fixed ==
    /\ <<"load", "keep">> \in Seq(Step) /\ "update" \notin Steps(<<"load", "keep">>)
    /\ <<"swap">> \in Seq(Step) /\ <<"add">> \in Seq(Step) /\ <<"remove">> \in Seq(Step)
    /\ <<"quote">> \in Seq(Step) /\ <<"secondLeg">> \in Seq(Step)
    /\ <<"pay0", "get1", "save", "update", "save">> \in Seq(Step)
    /\ <<"pay0", "pay1", "shares", "save", "update">> \in Seq(Step)
    /\ <<"burn", "get0", "get1", "save", "update">> \in Seq(Step)
BY DEF Step, Steps

LEMMA SwapIs == Swap \in Seq(Step) /\ Swap # <<>> /\ Head(Swap) = "swap"
BY StepsOfComplete, Fixed, StepsOfBoth DEF Swap, GetPortfolio

LEMMA FirstTwo ==
    ASSUME NEW s \in Seq(Step), Len(s) >= 2
    PROVE  s # <<>> /\ Head(s) = s[1] /\ Tail(s) # <<>> /\ Head(Tail(s)) = s[2]
<1>1. s # <<>> /\ Head(s) = s[1]
  OBVIOUS
<1>2. Tail(s) \in Seq(Step) /\ Len(Tail(s)) = Len(s) - 1 /\ Tail(s)[1] = s[2]
  OBVIOUS
<1>3. Tail(s) # <<>> /\ Head(Tail(s)) = Tail(s)[1]
  <2> DEFINE t == Tail(s)
  <2>1. t \in Seq(Step) /\ Len(t) >= 1
    BY <1>2
  <2> HIDE DEF t
  <2> QED
    <3>1. t # <<>> /\ Head(t) = t[1]
      BY <2>1
    <3> QED
      BY <3>1 DEF t
<1> QED
  BY <1>1, <1>2, <1>3

LEMMA BridgeIs ==
    LET p == <<"quote">> \o Swap \o <<"secondLeg">> \o Swap
    IN p \in Seq(Step) /\ p # <<>> /\ WorksOutFirst(p)
<1> DEFINE q == <<"quote">> \o Swap
           p == q \o <<"secondLeg">> \o Swap
<1>1. q \in Seq(Step) /\ Len(q) = 1 + Len(Swap) /\ q[1] = "quote" /\ q[2] = Swap[1]
  BY SwapIs, Fixed
<1>2. Len(Swap) \in Nat /\ Len(Swap) >= 1 /\ Swap[1] = "swap"
  BY SwapIs
<1> HIDE DEF q
<1>3. q \o <<"secondLeg">> \in Seq(Step) /\ Len(q \o <<"secondLeg">>) = Len(q) + 1
      /\ (q \o <<"secondLeg">>)[1] = q[1] /\ (q \o <<"secondLeg">>)[2] = q[2]
  BY <1>1, <1>2, Fixed
<1>4. /\ p \in Seq(Step) /\ Len(p) >= 2 /\ p[1] = "quote" /\ p[2] = "swap"
  BY <1>1, <1>2, <1>3, SwapIs
<1> HIDE DEF p
<1>5. p # <<>> /\ Head(p) = "quote" /\ Tail(p) # <<>> /\ Head(Tail(p)) = "swap"
  BY <1>4, FirstTwo
<1> QED
  BY <1>4, <1>5 DEF WorksOutFirst, p, q

\* A request that only works on the portfolio.
Quiet(s) == s \in Seq(Step) /\ s # <<>> /\ "update" \notin Steps(s)

LEMMA QuietWith ==
    ASSUME NEW s, Quiet(s), NEW t \in Seq(Step), "update" \notin Steps(t)
    PROVE  Quiet(s \o t)
BY StepsOfBoth DEF Quiet

LEMMA QuietComplete ==
    ASSUME NEW op, NEW s, Quiet(s)
    PROVE  Quiet(s \o Complete(op))
BY StepsOfComplete, QuietWith

LEMMA QuietPrograms ==
    /\ Quiet(GetPortfolio) /\ Quiet(GetPortfolio \o <<"pay", "get", "save">>)
    /\ Quiet(GetPortfolio \o <<"get", "mustSave">>)
    /\ Quiet(GetPortfolio \o <<"mustSave">>) /\ Quiet(GetPortfolio \o <<"save">>)
    /\ Quiet(GetPortfolio \o <<"isOpen", "mark", "reward", "save">>)
    /\ Quiet(GetPortfolio \o <<"pledge", "borrow", "lent", "save">>)
    /\ Quiet(GetPortfolio \o <<"pledge", "refuse">>)
    /\ Quiet(GetPortfolio \o <<"payDebt", "release", "repaid", "save">>)
    /\ Quiet(GetPortfolio \o <<"pay", "save">>)
    /\ Quiet(GetPortfolio \o <<"lock", "receipt", "staked", "save">>)
    /\ Quiet(GetPortfolio \o <<"redeem", "principal", "unstaked", "save">>)
    /\ Quiet(<<"reseed", "seedPools">> \o GetPortfolio \o <<"starter", "save">>)
<1>1. Quiet(GetPortfolio)
  BY Fixed DEF GetPortfolio, Quiet
<1>2. Quiet(GetPortfolio \o <<"pay", "get", "save">>)
  <2>1. <<"pay", "get", "save">> \in Seq(Step) /\ "update" \notin Steps(<<"pay", "get", "save">>)
    BY DEF Step, Steps
  <2> QED
    BY <1>1, <2>1, QuietWith
<1>3. Quiet(GetPortfolio \o <<"get", "mustSave">>)
  <2>1. <<"get", "mustSave">> \in Seq(Step) /\ "update" \notin Steps(<<"get", "mustSave">>)
    BY DEF Step, Steps
  <2> QED
    BY <1>1, <2>1, QuietWith
<1>4. Quiet(GetPortfolio \o <<"mustSave">>) /\ Quiet(GetPortfolio \o <<"save">>)
  <2>1. /\ <<"mustSave">> \in Seq(Step) /\ "update" \notin Steps(<<"mustSave">>)
        /\ <<"save">> \in Seq(Step) /\ "update" \notin Steps(<<"save">>)
    BY DEF Step, Steps
  <2> QED
    BY <1>1, <2>1, QuietWith
<1>5. Quiet(GetPortfolio \o <<"isOpen", "mark", "reward", "save">>)
  <2>1. /\ <<"isOpen", "mark", "reward", "save">> \in Seq(Step)
        /\ "update" \notin Steps(<<"isOpen", "mark", "reward", "save">>)
    BY DEF Step, Steps
  <2> QED
    BY <1>1, <2>1, QuietWith
<1>6. Quiet(GetPortfolio \o <<"pledge", "borrow", "lent", "save">>)
  <2>1. /\ <<"pledge", "borrow", "lent", "save">> \in Seq(Step)
        /\ "update" \notin Steps(<<"pledge", "borrow", "lent", "save">>)
    BY DEF Step, Steps
  <2> QED
    BY <1>1, <2>1, QuietWith
<1>7. Quiet(GetPortfolio \o <<"pledge", "refuse">>)
  <2>1. <<"pledge", "refuse">> \in Seq(Step) /\ "update" \notin Steps(<<"pledge", "refuse">>)
    BY DEF Step, Steps
  <2> QED
    BY <1>1, <2>1, QuietWith
<1>8. Quiet(GetPortfolio \o <<"payDebt", "release", "repaid", "save">>)
  <2>1. /\ <<"payDebt", "release", "repaid", "save">> \in Seq(Step)
        /\ "update" \notin Steps(<<"payDebt", "release", "repaid", "save">>)
    BY DEF Step, Steps
  <2> QED
    BY <1>1, <2>1, QuietWith
<1>9. Quiet(GetPortfolio \o <<"pay", "save">>)
  <2>1. <<"pay", "save">> \in Seq(Step) /\ "update" \notin Steps(<<"pay", "save">>)
    BY DEF Step, Steps
  <2> QED
    BY <1>1, <2>1, QuietWith
<1>10. Quiet(GetPortfolio \o <<"lock", "receipt", "staked", "save">>)
  <2>1. /\ <<"lock", "receipt", "staked", "save">> \in Seq(Step)
        /\ "update" \notin Steps(<<"lock", "receipt", "staked", "save">>)
    BY DEF Step, Steps
  <2> QED
    BY <1>1, <2>1, QuietWith
<1>11. Quiet(GetPortfolio \o <<"redeem", "principal", "unstaked", "save">>)
  <2>1. /\ <<"redeem", "principal", "unstaked", "save">> \in Seq(Step)
        /\ "update" \notin Steps(<<"redeem", "principal", "unstaked", "save">>)
    BY DEF Step, Steps
  <2> QED
    BY <1>1, <2>1, QuietWith
<1>12. Quiet(<<"reseed", "seedPools">> \o GetPortfolio \o <<"starter", "save">>)
  <2>1. /\ Quiet(<<"reseed", "seedPools">>)
        /\ <<"starter", "save">> \in Seq(Step) /\ "update" \notin Steps(<<"starter", "save">>)
    BY DEF Step, Steps, Quiet
  <2>2. Quiet(<<"reseed", "seedPools">> \o GetPortfolio)
    BY <1>1, <2>1, QuietWith DEF Quiet
  <2> QED
    BY <2>1, <2>2, QuietWith
<1> QED
  BY <1>1, <1>2, <1>3, <1>4, <1>5, <1>6, <1>7, <1>8, <1>9, <1>10, <1>11, <1>12

LEMMA ProgramWorksOutFirst ==
    ASSUME NEW op
    PROVE  \/ Quiet(Program(op))
           \/ Program(op) \in Seq(Step) /\ Program(op) # <<>> /\ WorksOutFirst(Program(op))
<1>1. CASE op = "swap"
  BY <1>1, SwapIs DEF Program, WorksOutFirst
<1>2. CASE op = "bridge"
  BY <1>2, BridgeIs DEF Program
<1>3. CASE op = "add"
  <2>1. /\ Add \in Seq(Step) /\ Add # <<>> /\ Head(Add) = "add"
    BY Fixed, StepsOfBoth DEF Add, GetPortfolio
  <2> QED
    BY <1>3, <2>1 DEF Program, WorksOutFirst
<1>4. CASE op = "remove"
  <2>1. /\ Remove \in Seq(Step) /\ Remove # <<>> /\ Head(Remove) = "remove"
    BY Fixed, StepsOfBoth DEF Remove, GetPortfolio
  <2> QED
    BY <1>4, <2>1 DEF Program, WorksOutFirst
<1>5. CASE op \in {"rateSwap", "deposit", "pending", "mint", "stake"}
  <2>1. CASE op = "rateSwap"
    <3>1. Program(op) = GetPortfolio \o <<"pay", "get", "save">> \o Complete(op)
      BY <2>1 DEF Program
    <3> QED
      BY <3>1, QuietPrograms, QuietComplete
  <2>2. CASE op = "deposit"
    <3>1. Program(op) = GetPortfolio \o <<"get", "mustSave">> \o Complete(op)
      BY <2>2 DEF Program
    <3> QED
      BY <3>1, QuietPrograms, QuietComplete
  <2>3. CASE op = "pending"
    <3>1. Program(op) = GetPortfolio \o <<"mustSave">> \o Complete(op)
      BY <2>3 DEF Program
    <3> QED
      BY <3>1, QuietPrograms, QuietComplete
  <2>4. CASE op = "mint"
    <3>1. Program(op) = GetPortfolio \o <<"save">> \o Complete(op)
      BY <2>4 DEF Program
    <3> QED
      BY <3>1, QuietPrograms, QuietComplete
  <2>5. CASE op = "stake"
    <3>1. Program(op) = GetPortfolio \o <<"lock", "receipt", "staked", "save">> \o Complete(op)
      BY <2>5 DEF Program
    <3> QED
      BY <3>1, QuietPrograms, QuietComplete
  <2> QED
    BY <1>5, <2>1, <2>2, <2>3, <2>4, <2>5
<1>6. CASE op \in {"loan", "badLoan", "repay"}
  <2>1. Program(op) = LoanProgram(op)
    BY <1>6 DEF Program
  <2>2. Quiet(LoanProgram(op))
    BY <1>6, QuietPrograms DEF LoanProgram
  <2> QED
    BY <2>1, <2>2
<1>7. CASE op = "send"
  BY <1>7, QuietPrograms DEF Program, Send
<1>8. CASE op \notin {"swap", "bridge", "add", "remove", "rateSwap", "deposit", "pending", "mint", "stake",
                     "loan", "badLoan", "repay", "send"}
  BY <1>8, QuietPrograms DEF Program
<1> QED
  BY <1>1, <1>2, <1>3, <1>4, <1>5, <1>6, <1>7, <1>8

-----------------------------------------------------------------------------
(* The invariant *)

PoolsKept(f) ==
    /\ f \in [Pair -> PoolRecord \cup {NoPool}]
    /\ \A q \in Pair : f[q] # NoPool => Worthy(f[q], q)

\* A request that will put a pool in place has worked it out, or does so first.
Ready(m) == m.pair \in Pair /\ Worthy(m.pool, m.pair)
Planned(s, m) == "update" \in Steps(s) => Ready(m) \/ WorksOutFirst(s)

RequestInv ==
    /\ todo \in [Client -> Seq(Step)]
    /\ ask \in [Client -> Request \cup {NoRequest}]
    /\ mine = [c \in Client |-> mine[c]]
    /\ \A c \in Client : todo[c] # <<>> => ask[c] \in Request /\ Planned(todo[c], mine[c])

PoolInv ==
    /\ PoolsKept(pools)
    /\ poolFile \notin {NoFile, Broken} => PoolsKept(poolFile)
    /\ RequestInv

LEMMA SeedsKept == PoolsKept(Seeds)
<1>1. Seeds \in [Pair -> PoolRecord \cup {NoPool}]
  BY PortfolioAssumed DEF PortfolioAssumption, PoolFile
<1> QED
  BY <1>1, SeedWorthy DEF PoolsKept

LEMMA InitKeeps == Init => PoolInv
<1> SUFFICES ASSUME Init PROVE PoolInv
  OBVIOUS
<1>1. PoolsKept(pools) /\ (poolFile \notin {NoFile, Broken} => PoolsKept(poolFile))
  BY SeedsKept DEF Init
<1>2. RequestInv
  BY DEF Init, RequestInv
<1> QED
  BY <1>1, <1>2 DEF PoolInv

\* A request goes on to steps it had ahead of it, or ends.
LEMMA GoesOn ==
    ASSUME RequestInv, NEW c \in Client, todo[c] # <<>>, NEW rest \in Seq(Step),
           todo' = [todo EXCEPT ![c] = rest],
           ask' = [ask EXCEPT ![c] = IF rest = <<>> THEN NoRequest ELSE @],
           \/ rest = <<>> /\ mine' = mine
           \/ /\ Steps(rest) \subseteq Steps(todo[c])
              /\ \/ ~WorksOutFirst(todo[c]) /\ mine' = mine
                 \/ \E m : Ready(m) /\ mine' = [mine EXCEPT ![c] = m]
    PROVE  RequestInv'
<1>1. todo' \in [Client -> Seq(Step)] /\ ask' \in [Client -> Request \cup {NoRequest}]
  BY DEF RequestInv
<1>2. mine' = [d \in Client |-> mine'[d]]
  BY DEF RequestInv
<1>3. ASSUME NEW d \in Client, todo'[d] # <<>>
      PROVE  ask'[d] \in Request /\ Planned(todo'[d], mine'[d])
  <2>1. CASE d # c
    <3>1. todo'[d] = todo[d] /\ ask'[d] = ask[d] /\ mine'[d] = mine[d]
      BY <2>1 DEF RequestInv
    <3> QED
      BY <1>3, <3>1 DEF RequestInv
  <2>2. CASE d = c
    <3>1. todo'[d] = rest /\ rest # <<>> /\ ask'[d] = ask[c] /\ ask[c] \in Request
      BY <1>3, <2>2 DEF RequestInv
    <3>2. Planned(todo[c], mine[c])
      BY DEF RequestInv
    <3>3. CASE ~WorksOutFirst(todo[c]) /\ mine' = mine
      BY <2>2, <3>1, <3>2, <3>3 DEF Planned
    <3>4. CASE \E m : Ready(m) /\ mine' = [mine EXCEPT ![c] = m]
      <4>1. Ready(mine'[c])
        BY <3>4 DEF RequestInv
      <4> QED
        BY <2>2, <3>1, <4>1 DEF Planned
    <3> QED
      BY <3>1, <3>3, <3>4
  <2> QED
    BY <2>1, <2>2
<1> QED
  BY <1>1, <1>2, <1>3 DEF RequestInv

LEMMA RestKept ==
    ASSUME RequestInv, NEW c \in Client, todo[c] # <<>>, NEW rest, NEW p, NEW owner,
           Go(c, rest, p, owner), UNCHANGED mine,
           \/ rest = <<>>
           \/ /\ ~WorksOutFirst(todo[c])
              /\ rest = Tail(todo[c]) \/ \E n \in Nat : rest = SubSeq(todo[c], n + 1, Len(todo[c]))
    PROVE  RequestInv'
<1>1. todo[c] \in Seq(Step)
  BY DEF RequestInv
<1>2. rest \in Seq(Step) /\ (rest = <<>> \/ Steps(rest) \subseteq Steps(todo[c]))
  <2>1. CASE rest = <<>>
    BY <2>1
  <2>2. CASE rest = Tail(todo[c])
    BY <1>1, <2>2, StepsOfTail
  <2>3. CASE \E n \in Nat : rest = SubSeq(todo[c], n + 1, Len(todo[c]))
    BY <1>1, <2>3, StepsOfRest
  <2> QED
    BY <2>1, <2>2, <2>3
<1> QED
  BY <1>2, GoesOn DEF Go

LEMMA PoolsUnchanged ==
    ASSUME PoolInv, UNCHANGED <<pools, poolFile>>, RequestInv'
    PROVE  PoolInv'
BY DEF PoolInv, PoolsKept

NotPool == Step \ {"swap", "add", "remove", "quote"}

LEMMA NotPoolStep ==
    ASSUME NEW c, NEW step \in NotPool, At(c, step)
    PROVE  todo[c] # <<>> /\ ~WorksOutFirst(todo[c])
BY DEF NotPool, At, WorksOutFirst

LEMMA DoesKeeps ==
    ASSUME PoolInv, NEW c \in Client, NEW step \in NotPool, NEW ok, NEW p, Does(c, step, ok, p)
    PROVE  PoolInv'
<1>1. todo[c] # <<>> /\ ~WorksOutFirst(todo[c])
  BY NotPoolStep DEF Does
<1>2. UNCHANGED poolVars
  BY DEF Does
<1>3. Go(c, Tail(todo[c]), p, alias) \/ Go(c, <<>>, view[c], alias)
  BY DEF Does, Change, Refuse
<1>4. RequestInv'
  BY <1>1, <1>2, <1>3, RestKept DEF PoolInv, poolVars
<1> QED
  BY <1>2, <1>4, PoolsUnchanged DEF poolVars

LEMMA PaysKeeps ==
    ASSUME PoolInv, NEW c \in Client, NEW step \in NotPool, NEW k, NEW n, Pays(c, step, k, n)
    PROVE  PoolInv'
BY DoesKeeps DEF Pays

LEMMA GetsKeeps ==
    ASSUME PoolInv, NEW c \in Client, NEW step \in NotPool, NEW k, NEW n, Gets(c, step, k, n)
    PROVE  PoolInv'
BY DoesKeeps DEF Gets

LEMMA SkipKeeps ==
    ASSUME RequestInv, NEW c \in Client, NEW step \in NotPool, At(c, step), NEW n \in Nat, Skip(c, n),
           UNCHANGED mine
    PROVE  RequestInv'
<1>1. todo[c] # <<>> /\ ~WorksOutFirst(todo[c])
  BY NotPoolStep
<1>2. Go(c, SubSeq(todo[c], n + 1, Len(todo[c])), view[c], alias)
  BY DEF Skip, Change
<1> QED
  BY <1>1, <1>2, RestKept

-----------------------------------------------------------------------------
(* Steps that work out a pool, or put one in place *)

LEMMA RefuseKeeps ==
    ASSUME PoolInv, NEW c \in Client, todo[c] # <<>>, Refuse(c), UNCHANGED <<pools, poolFile, mine>>
    PROVE  PoolInv'
<1>1. Go(c, <<>>, view[c], alias)
  BY DEF Refuse, Change
<1>2. RequestInv'
  BY <1>1, RestKept DEF PoolInv
<1> QED
  BY <1>2, PoolsUnchanged

\* A pool that is worked out is one that may be put in place.
LEMMA WorksKeeps ==
    ASSUME PoolInv, NEW c \in Client, NEW step, NEW ok, NEW m, Works(c, step, ok, m),
           ok => Ready(m)
    PROVE  PoolInv'
<1>1. todo[c] # <<>> /\ UNCHANGED <<pools, poolFile>> /\ todo[c] \in Seq(Step)
  BY DEF Works, At, PoolInv, RequestInv
<1>2. CASE ok
  <2>1. Skip(c, 1) /\ mine' = [mine EXCEPT ![c] = m]
    BY <1>2 DEF Works
  <2>2. Go(c, SubSeq(todo[c], 2, Len(todo[c])), view[c], alias)
    BY <2>1 DEF Skip, Change
  <2>3. /\ SubSeq(todo[c], 2, Len(todo[c])) \in Seq(Step)
        /\ Steps(SubSeq(todo[c], 2, Len(todo[c]))) \subseteq Steps(todo[c])
    <3>1. 1 \in Nat /\ 1 + 1 = 2
      OBVIOUS
    <3> QED
      BY <1>1, <3>1, StepsOfRest
  <2>4. RequestInv'
    BY <1>1, <1>2, <2>1, <2>2, <2>3, GoesOn DEF PoolInv, Go
  <2> QED
    BY <1>1, <2>4, PoolsUnchanged
<1>3. CASE ~ok
  BY <1>1, <1>3, RefuseKeeps DEF Works
<1> QED
  BY <1>2, <1>3

LEMMA SwapStep ==
    ASSUME PoolInv, NEW c \in Client, WorkOutSwap(c)
    PROVE  PoolInv'
<1> DEFINE r == ask[c]
           p == pools[r.pair]
<1>1. r \in Request
  BY DEF WorkOutSwap, Works, At, PoolInv, RequestInv
<1>2. r.pair \in Pair /\ r.side \in {0, 1} /\ r.n \in Nat
  BY <1>1 DEF Request
<1>3. ASSUME p # NoPool, CanSwap(p, r.side, r.n)
      PROVE  Worthy(Swapped(p, r.side, r.n), r.pair)
  <2>1. Worthy(p, r.pair)
    BY <1>2, <1>3 DEF PoolInv, PoolsKept
  <2>2. Good(Swapped(p, r.side, r.n)) /\ ShareWorthAtLeast(Swapped(p, r.side, r.n), p)
    BY <1>2, <1>3, <2>1, SwapKeepsWorth DEF Worthy
  <2> QED
    BY <1>2, <2>1, <2>2, WorthyMore
<1> QED
  BY <1>2, <1>3, WorksKeeps DEF WorkOutSwap, Ready

LEMMA AddStep ==
    ASSUME PoolInv, NEW c \in Client, WorkOutAdd(c)
    PROVE  PoolInv'
<1> DEFINE r == ask[c]
           new == pools[r.pair] = NoPool
           p == IF new THEN Empty ELSE pools[r.pair]
           a0 == IF new /\ r.side = 1 THEN r.m ELSE r.n
           a1 == IF new /\ r.side = 1 THEN r.n ELSE r.m
<1>1. r \in Request
  BY DEF WorkOutAdd, Works, At, PoolInv, RequestInv
<1>2. r.pair \in Pair /\ r.n \in Nat /\ r.m \in Nat /\ a0 \in Nat /\ a1 \in Nat
  BY <1>1 DEF Request
<1>3. ASSUME CanAdd(p, a0, a1)
      PROVE  Worthy(Added(p, a0, a1), r.pair)
  <2> HIDE DEF a0, a1
  <2>1. CASE new
    BY <1>2, <1>3, <2>1, NewPoolWorthy
  <2>2. CASE ~new
    <3>1. p = pools[r.pair] /\ Worthy(p, r.pair)
      BY <1>2, <2>2 DEF PoolInv, PoolsKept
    <3>2. Good(Added(p, a0, a1)) /\ ShareWorthAtLeast(Added(p, a0, a1), p)
      BY <1>2, <3>1, AddKeepsWorth DEF Worthy
    <3> QED
      BY <1>2, <3>1, <3>2, WorthyMore
  <2> QED
    BY <2>1, <2>2
<1> QED
  BY <1>2, <1>3, WorksKeeps DEF WorkOutAdd, Ready

LEMMA RemoveStep ==
    ASSUME PoolInv, NEW c \in Client, WorkOutRemove(c)
    PROVE  PoolInv'
<1> DEFINE r == ask[c]
           p == pools[r.pair]
<1>1. r \in Request
  BY DEF WorkOutRemove, Works, At, PoolInv, RequestInv
<1>2. r.pair \in Pair /\ r.n \in Nat
  BY <1>1 DEF Request
<1>3. ASSUME p # NoPool, CanRemove(p, r.n)
      PROVE  Worthy(Removed(p, r.n), r.pair)
  <2>1. Worthy(p, r.pair)
    BY <1>2, <1>3 DEF PoolInv, PoolsKept
  <2>2. Good(Removed(p, r.n)) /\ ShareWorthAtLeast(Removed(p, r.n), p)
    BY <1>2, <1>3, <2>1, RemoveKeepsWorth DEF Worthy
  <2> QED
    BY <1>2, <2>1, <2>2, WorthyMore
<1> QED
  BY <1>2, <1>3, WorksKeeps DEF WorkOutRemove, Ready

\* The quote of a bridge's first leg comes before a swap.
LEMMA QuoteStep ==
    ASSUME PoolInv, NEW c \in Client, Quote(c)
    PROVE  PoolInv'
<1> DEFINE r == ask[c]
           p == pools[r.pair]
           x == AmountOut(p, r.side, r.n) * AtomicPerWhole
<1>1. todo[c] # <<>> /\ Head(todo[c]) = "quote" /\ todo[c] \in Seq(Step) /\ r \in Request
      /\ UNCHANGED <<pools, poolFile, mine>>
  BY DEF Quote, At, PoolInv, RequestInv, poolVars
<1>2. CASE p # NoPool /\ CanQuote(p, r.n)
  <2>1. todo' = [todo EXCEPT ![c] = Tail(@)] /\ ask' = [ask EXCEPT ![c].m = x]
    BY <1>2 DEF Quote
  <2>2. x \in Nat
    <3>1. r.pair \in Pair /\ r.side \in {0, 1} /\ r.n \in Nat
      BY <1>1 DEF Request
    <3>2. Good(p)
      BY <1>2, <3>1 DEF PoolInv, PoolsKept, Worthy
    <3>3. AmountOut(p, r.side, r.n) \in Nat
      BY <3>1, <3>2, AmountOutNat
    <3> QED
      BY <3>3, ProductNat, PortfolioAssumed DEF PortfolioAssumption
  <2> HIDE DEF x
  <2>3. [r EXCEPT !.m = x] \in Request
    BY <1>1, <2>2 DEF Request
  <2>4. Tail(todo[c]) \in Seq(Step) /\ Steps(Tail(todo[c])) \subseteq Steps(todo[c])
    BY <1>1, StepsOfTail
  <2>5. ASSUME NEW d \in Client, todo'[d] # <<>>
        PROVE  ask'[d] \in Request /\ Planned(todo'[d], mine'[d])
    <3>1. CASE d # c
      <4>1. todo'[d] = todo[d] /\ ask'[d] = ask[d] /\ mine'[d] = mine[d]
        BY <1>1, <2>1, <3>1 DEF PoolInv, RequestInv
      <4> QED
        BY <2>5, <4>1 DEF PoolInv, RequestInv
    <3>2. CASE d = c
      <4>1. todo'[c] = Tail(todo[c]) /\ ask'[c] = [r EXCEPT !.m = x] /\ mine'[c] = mine[c]
        BY <1>1, <2>1 DEF PoolInv, RequestInv
      <4>2. Planned(todo[c], mine[c])
        BY <1>1 DEF PoolInv, RequestInv
      <4>3. Planned(Tail(todo[c]), mine[c])
        BY <1>1, <2>4, <4>2 DEF Planned, WorksOutFirst
      <4> QED
        BY <2>3, <3>2, <4>1, <4>3
    <3> QED
      BY <3>1, <3>2
  <2>6. todo' \in [Client -> Seq(Step)] /\ ask' \in [Client -> Request \cup {NoRequest}]
    BY <2>1, <2>3, <2>4 DEF PoolInv, RequestInv
  <2>7. RequestInv'
    BY <1>1, <2>5, <2>6 DEF PoolInv, RequestInv
  <2> QED
    BY <1>1, <2>7, PoolsUnchanged
<1>3. CASE ~(p # NoPool /\ CanQuote(p, r.n))
  BY <1>1, <1>3, RefuseKeeps DEF Quote
<1> QED
  BY <1>2, <1>3

LEMMA SecondLegStep ==
    ASSUME PoolInv, NEW c \in Client, SecondLeg(c)
    PROVE  PoolInv'
<1> DEFINE r == ask[c]
           s == [r EXCEPT !.pair = r.next, !.n = r.m, !.side = IF r.next[1] = Onex THEN 0 ELSE 1]
<1>1. /\ todo[c] # <<>> /\ ~WorksOutFirst(todo[c]) /\ todo[c] \in Seq(Step) /\ r \in Request
      /\ todo' = [todo EXCEPT ![c] = Tail(@)] /\ ask' = [ask EXCEPT ![c] = s]
      /\ UNCHANGED <<pools, poolFile, mine>>
  BY DEF SecondLeg, At, PoolInv, RequestInv, poolVars, WorksOutFirst
<1>2. s \in Request
  BY <1>1 DEF Request
<1> HIDE DEF s
<1>3. Tail(todo[c]) \in Seq(Step) /\ Steps(Tail(todo[c])) \subseteq Steps(todo[c])
  BY <1>1, StepsOfTail
<1>4. ASSUME NEW d \in Client, todo'[d] # <<>>
      PROVE  ask'[d] \in Request /\ Planned(todo'[d], mine'[d])
  <2>1. CASE d # c
    <3>1. todo'[d] = todo[d] /\ ask'[d] = ask[d] /\ mine'[d] = mine[d]
      BY <1>1, <2>1 DEF PoolInv, RequestInv
    <3> QED
      BY <1>4, <3>1 DEF PoolInv, RequestInv
  <2>2. CASE d = c
    <3>1. todo'[c] = Tail(todo[c]) /\ ask'[c] = s /\ mine'[c] = mine[c]
      BY <1>1 DEF PoolInv, RequestInv
    <3>2. Planned(todo[c], mine[c])
      BY <1>1 DEF PoolInv, RequestInv
    <3> QED
      BY <1>1, <1>2, <1>3, <2>2, <3>1, <3>2 DEF Planned
  <2> QED
    BY <2>1, <2>2
<1>5. todo' \in [Client -> Seq(Step)] /\ ask' \in [Client -> Request \cup {NoRequest}]
  BY <1>1, <1>2, <1>3 DEF PoolInv, RequestInv
<1>6. RequestInv'
  BY <1>1, <1>4, <1>5 DEF PoolInv, RequestInv
<1> QED
  BY <1>1, <1>6, PoolsUnchanged

\* What is put in place was worked out, and so is no worse than the base,
\* whatever became of the pool since.
LEMMA UpdateStep ==
    ASSUME PoolInv, NEW c \in Client, Update(c)
    PROVE  PoolInv'
<1>1. /\ At(c, "update") /\ Skip(c, 1) /\ UNCHANGED mine
      /\ pools' = [pools EXCEPT ![mine[c].pair] = mine[c].pool]
      /\ poolFile' \in {pools'} \cup {poolFile, Broken}
  BY DEF Update
<1>2. "update" \in NotPool
  BY DEF NotPool, Step
<1>3. RequestInv'
  BY <1>1, <1>2, SkipKeeps DEF PoolInv
<1>4. Ready(mine[c])
  <2>1. todo[c] \in Seq(Step) /\ todo[c] # <<>> /\ Head(todo[c]) = "update"
    BY <1>1 DEF At, PoolInv, RequestInv
  <2>2. "update" \in Steps(todo[c])
    BY <2>1 DEF Steps
  <2>3. ~WorksOutFirst(todo[c])
    BY <1>1, <1>2, NotPoolStep
  <2> QED
    BY <2>1, <2>2, <2>3 DEF PoolInv, RequestInv, Planned
<1>5. PoolsKept(pools')
  BY <1>1, <1>4 DEF PoolInv, PoolsKept, Ready, Worthy, Good
<1>6. poolFile' \notin {NoFile, Broken} => PoolsKept(poolFile')
  BY <1>1, <1>5 DEF PoolInv
<1> QED
  BY <1>3, <1>5, <1>6 DEF PoolInv, PoolsKept

LEMMA SeedStep ==
    ASSUME PoolInv, NEW c \in Client, SeedPools(c)
    PROVE  PoolInv'
<1>1. /\ At(c, "seedPools") /\ Skip(c, 1) /\ UNCHANGED mine
      /\ pools' = [q \in Pair |-> IF Seeds[q] = NoPool THEN pools[q] ELSE Seeds[q]]
      /\ poolFile' \in {pools'} \cup {poolFile, Broken}
  BY DEF SeedPools
<1>2. RequestInv'
  BY <1>1, SkipKeeps DEF PoolInv, NotPool, Step
<1>3. PoolsKept(pools')
  BY <1>1, SeedsKept DEF PoolInv, PoolsKept
<1>4. poolFile' \notin {NoFile, Broken} => PoolsKept(poolFile')
  BY <1>1, <1>3 DEF PoolInv
<1> QED
  BY <1>2, <1>3, <1>4 DEF PoolInv, PoolsKept

LEMMA ReseedStep ==
    ASSUME PoolInv, NEW c \in Client, Reseed(c)
    PROVE  PoolInv'
<1>1. /\ At(c, "reseed") /\ Skip(c, IF pools = NoPools THEN 1 ELSE 2)
      /\ UNCHANGED <<pools, poolFile, mine>>
  BY DEF Reseed, poolVars
<1>2. RequestInv'
  BY <1>1, SkipKeeps DEF PoolInv, NotPool, Step
<1> QED
  BY <1>1, <1>2, PoolsUnchanged

LEMMA PoolStepKeeps ==
    ASSUME PoolInv, NEW c \in Client, PoolStep(c)
    PROVE  PoolInv'
<1> USE DEF NotPool, Step
<1>1. CASE WorkOutSwap(c) \/ WorkOutAdd(c) \/ WorkOutRemove(c)
  BY <1>1, SwapStep, AddStep, RemoveStep
<1>2. CASE Quote(c) \/ SecondLeg(c)
  BY <1>2, QuoteStep, SecondLegStep
<1>3. CASE Update(c) \/ Reseed(c) \/ SeedPools(c)
  BY <1>3, UpdateStep, ReseedStep, SeedStep
<1>4. CASE GiveStarter(c)
  BY <1>4, DoesKeeps DEF GiveStarter
<1>5. CASE Pays(c, "pay0", mine[c].key0, mine[c].n0) \/ Pays(c, "pay1", mine[c].key1, mine[c].n1)
  BY <1>5, PaysKeeps
<1>6. CASE Gets(c, "get0", mine[c].key0, mine[c].n0) \/ Gets(c, "get1", mine[c].key1, mine[c].n1)
  BY <1>6, GetsKeeps
<1>7. CASE Pays(c, "burn", ask[c].pair, mine[c].shares)
  BY <1>7, PaysKeeps
<1>8. CASE Gets(c, "shares", ask[c].pair, mine[c].shares)
  BY <1>8, GetsKeeps
<1> QED
  BY <1>1, <1>2, <1>3, <1>4, <1>5, <1>6, <1>7, <1>8 DEF PoolStep

-----------------------------------------------------------------------------
(* The other steps *)

LEMMA StoreKeeps ==
    ASSUME PoolInv, NEW c \in Client, Load(c) \/ Save(c)
    PROVE  PoolInv'
<1>1. UNCHANGED <<pools, poolFile, mine>>
  BY DEF Load, Save, poolVars
<1>2. CASE Load(c)
  <2>1. todo[c] # <<>> /\ ~WorksOutFirst(todo[c])
    BY <1>2, NotPoolStep DEF Load, NotPool, Step
  <2>2. PICK p : IF p = Broken THEN Refuse(c)
                 ELSE \E q \in Synced(p) :
                         Go(c, Tail(todo[c]), q, IF alias = c THEN Nobody ELSE alias)
    BY <1>2 DEF Load
  <2>3. CASE p = Broken
    BY <1>1, <2>1, <2>2, <2>3, RefuseKeeps
  <2>4. CASE p # Broken
    <3>1. RequestInv'
      BY <1>1, <2>1, <2>2, <2>4, RestKept DEF PoolInv
    <3> QED
      BY <1>1, <3>1, PoolsUnchanged
  <2> QED
    BY <2>3, <2>4
<1>3. CASE Save(c)
  <2>1. todo[c] # <<>> /\ ~WorksOutFirst(todo[c])
    BY <1>3, NotPoolStep DEF Save, NotPool, Step
  <2>2. Go(c, Tail(todo[c]), view[c], c) \/ Go(c, <<>>, view[c], c)
    BY <1>3 DEF Save
  <2>3. RequestInv'
    BY <1>1, <2>1, <2>2, RestKept DEF PoolInv
  <2> QED
    BY <1>1, <2>3, PoolsUnchanged
<1> QED
  BY <1>2, <1>3

LEMMA BalanceKeeps ==
    ASSUME PoolInv, NEW c \in Client, Transfer(c) \/ TaskStep(c) \/ LoanStep(c) \/ StakeStep(c)
    PROVE  PoolInv'
<1> USE DEF NotPool, Step
<1>1. CASE Transfer(c)
  BY <1>1, PaysKeeps, GetsKeeps, DoesKeeps DEF Transfer
<1>2. CASE TaskStep(c)
  <2>1. CASE At(c, "isOpen") /\ UNCHANGED poolVars /\ (Skip(c, 1) \/ Skip(c, 4))
    <3>1. RequestInv' /\ UNCHANGED <<pools, poolFile>>
      BY <2>1, SkipKeeps DEF PoolInv, poolVars
    <3> QED
      BY <3>1, PoolsUnchanged
  <2>2. CASE \E p : Does(c, "mark", TRUE, p) \/ Does(c, "reward", TRUE, p)
    BY <2>2, DoesKeeps
  <2> QED
    BY <1>2, <2>1, <2>2 DEF TaskStep
<1>3. CASE LoanStep(c)
  BY <1>3, PaysKeeps, GetsKeeps, DoesKeeps DEF LoanStep
<1>4. CASE StakeStep(c)
  BY <1>4, PaysKeeps, GetsKeeps, DoesKeeps DEF StakeStep
<1> QED
  BY <1>1, <1>2, <1>3, <1>4

LEMMA BeginKeeps ==
    ASSUME PoolInv, NEW c \in Client, Begin(c)
    PROVE  PoolInv'
<1>1. PICK r \in Requests : ask' = [ask EXCEPT ![c] = r] /\ todo' = [todo EXCEPT ![c] = Program(r.op)]
  BY DEF Begin
<1>2. mine' = [mine EXCEPT ![c] = NothingMine] /\ UNCHANGED <<pools, poolFile>>
  BY DEF Begin
<1>3. r \in Request
  BY PortfolioAssumed DEF PortfolioAssumption
<1>4. Program(r.op) \in Seq(Step) /\ Planned(Program(r.op), NothingMine)
  BY ProgramWorksOutFirst DEF Quiet, Planned
<1>5. todo' \in [Client -> Seq(Step)] /\ ask' \in [Client -> Request \cup {NoRequest}]
      /\ mine' = [d \in Client |-> mine'[d]]
  BY <1>1, <1>2, <1>3, <1>4 DEF PoolInv, RequestInv
<1>6. ASSUME NEW d \in Client, todo'[d] # <<>>
      PROVE  ask'[d] \in Request /\ Planned(todo'[d], mine'[d])
  BY <1>1, <1>2, <1>3, <1>4, <1>6 DEF PoolInv, RequestInv
<1>7. RequestInv'
  BY <1>5, <1>6 DEF RequestInv
<1> QED
  BY <1>2, <1>7, PoolsUnchanged

\* The pools after a stop are those of the file, the seeds, or none.
LEMMA StopKeeps ==
    ASSUME PoolInv, Stop
    PROVE  PoolInv'
<1>1. RequestInv'
  BY DEF Stop, RequestInv
<1>2. PoolsKept(NoPools)
  BY DEF PoolsKept, NoPools
<1>3. \/ pools' \in {Seeds, NoPools}
      \/ poolFile \notin {NoFile, Broken} /\ pools' = poolFile
  BY DEF Stop
<1>4. PoolsKept(pools')
  BY <1>2, <1>3, SeedsKept DEF PoolInv
<1>5. poolFile' \in {poolFile, Seeds, NoFile, Broken}
  <2>1. \/ poolFile' \in {Seeds} \cup IF DiskFaults THEN {NoFile, Broken} ELSE {}
        \/ UNCHANGED poolFile
    BY DEF Stop
  <2> QED
    BY <2>1
<1>6. poolFile' \notin {NoFile, Broken} => PoolsKept(poolFile')
  BY <1>5, SeedsKept DEF PoolInv
<1> QED
  BY <1>1, <1>4, <1>6 DEF PoolInv, PoolsKept

LEMMA NextKeeps == PoolInv /\ [PortfolioNext]_portVars => PoolInv'
<1> SUFFICES ASSUME PoolInv, [PortfolioNext]_portVars PROVE PoolInv'
  OBVIOUS
<1>1. ASSUME NEW c \in Client, Begin(c) PROVE PoolInv'
  BY <1>1, BeginKeeps
<1>2. ASSUME NEW c \in Client, PortfolioStep(c) PROVE PoolInv'
  BY <1>2, StoreKeeps, PoolStepKeeps, BalanceKeeps DEF PortfolioStep
<1>3. CASE Stop
  BY <1>3, StopKeeps
<1>4. CASE UNCHANGED portVars
  BY <1>4 DEF portVars, PoolInv, PoolsKept, RequestInv, Planned, Ready
<1> QED
  BY <1>1, <1>2, <1>3, <1>4 DEF PortfolioNext

-----------------------------------------------------------------------------

\* A request that puts a pool in place has worked it out from a pool no worse
\* than its base, and the pools in memory and on disk are no worse either.
THEOREM PoolInvariant == PortfolioSpec => []PoolInv
<1>1. Init => PoolInv
  BY InitKeeps
<1>2. PoolInv /\ [PortfolioNext]_portVars => PoolInv'
  BY NextKeeps
<1> QED
  BY <1>1, <1>2, PTL DEF PortfolioSpec

\* However requests overlap, whatever copy of a pool overwrites another and
\* whatever fails, a share never falls below its worth in the seed, or below one
\* where the pool was made: for any fee, amounts, pairs and requests.
THEOREM NoShareLosesWorth == PortfolioSpec => []ShareWorthKept
<1>1. PoolInv => ShareWorthKept
  BY DEF PoolInv, PoolsKept, Worthy, ShareWorthKept
<1> QED
  BY <1>1, PoolInvariant, PTL

-----------------------------------------------------------------------------
(* Rewards: a task is looked up, marked and rewarded in one copy, in that  *)
(* order and with nothing of the request in between.                       *)

\* In a copy, a task that is open has not been rewarded.
SoundCopy(p) ==
    /\ p = [bal |-> p.bal, open |-> p.open, earned |-> p.earned, loans |-> p.loans, stakes |-> p.stakes]
    /\ p.earned \in [Task -> {0, 1}]
    /\ \A t \in Task : t \in p.open => p.earned[t] = 0

\* Which step may stand before which.
Follows(a, b) ==
    /\ a = "isOpen" <=> b = "mark"
    /\ a = "mark" <=> b = "reward"
    /\ a = "payDebt" <=> b = "release"
    /\ a = "release" <=> b = "repaid"
    /\ a = "redeem" <=> b = "principal"
    /\ a = "principal" <=> b = "unstaked"
    /\ a = "reward" => b = "save"
    /\ a = "reseed" => b = "seedPools"
Tasked(s) == \A i \in 1..Len(s) : i < Len(s) => Follows(s[i], s[i + 1])

\* The task a request completes, and what it knows of it.
TaskNow(r) == IF r.op = "claim" THEN r.task ELSE TaskOf[r.op]
Rewarding(step, t, p) ==
    /\ step = "mark" /\ t \in Task => t \in p.open
    /\ step = "reward" /\ t \in Task => t \notin p.open /\ p.earned[t] = 0

RewardClient(s, r, p) ==
    /\ SoundCopy(p)
    /\ s # <<>> => Tasked(s) /\ Rewarding(Head(s), TaskNow(r), p)

RewardInv ==
    /\ cached # NoFile => SoundCopy(cached)
    /\ file \notin {NoFile, Broken} => SoundCopy(file)
    /\ view = [c \in Client |-> view[c]]
    /\ \A c \in Client : RewardClient(todo[c], ask[c], view[c])

-----------------------------------------------------------------------------
(* Copies *)

LEMMA DefaultSound == SoundCopy(DefaultPortfolio)
BY DEF SoundCopy, DefaultPortfolio

LEMMA CopySound ==
    ASSUME NEW p, SoundCopy(p), NEW k, NEW v
    PROVE  /\ SoundCopy([p EXCEPT !.bal = v]) /\ SoundCopy([p EXCEPT !.bal[k] = v])
           /\ SoundCopy([p EXCEPT !.loans[k] = v]) /\ SoundCopy([p EXCEPT !.stakes[k] = v])
<1>1. ASSUME NEW b, NEW l, NEW s
      PROVE  SoundCopy([bal |-> b, open |-> p.open, earned |-> p.earned, loans |-> l, stakes |-> s])
  BY DEF SoundCopy
<1>2. p = [bal |-> p.bal, open |-> p.open, earned |-> p.earned, loans |-> p.loans, stakes |-> p.stakes]
  BY DEF SoundCopy
<1>3. /\ [p EXCEPT !.bal = v] = [bal |-> v, open |-> p.open, earned |-> p.earned,
                                 loans |-> p.loans, stakes |-> p.stakes]
      /\ [p EXCEPT !.bal[k] = v] = [bal |-> [p.bal EXCEPT ![k] = v], open |-> p.open, earned |-> p.earned,
                                    loans |-> p.loans, stakes |-> p.stakes]
  BY <1>2
<1>4. /\ [p EXCEPT !.loans[k] = v] = [bal |-> p.bal, open |-> p.open, earned |-> p.earned,
                                      loans |-> [p.loans EXCEPT ![k] = v], stakes |-> p.stakes]
      /\ [p EXCEPT !.stakes[k] = v] = [bal |-> p.bal, open |-> p.open, earned |-> p.earned,
                                       loans |-> p.loans, stakes |-> [p.stakes EXCEPT ![k] = v]]
  BY <1>2
<1> QED
  BY <1>1, <1>3, <1>4

LEMMA MarkSound ==
    ASSUME NEW p, SoundCopy(p), NEW t
    PROVE  LET q == [p EXCEPT !.open = @ \ {t}]
           IN SoundCopy(q) /\ (Rewarding("mark", t, p) => Rewarding("reward", t, q))
<1> DEFINE q == [p EXCEPT !.open = @ \ {t}]
<1>1. p = [bal |-> p.bal, open |-> p.open, earned |-> p.earned, loans |-> p.loans, stakes |-> p.stakes]
  BY DEF SoundCopy
<1>2. q = [bal |-> p.bal, open |-> p.open \ {t}, earned |-> p.earned, loans |-> p.loans, stakes |-> p.stakes]
  BY <1>1
<1> HIDE DEF q
<1>3. SoundCopy(q)
  BY <1>2 DEF SoundCopy
<1>4. Rewarding("mark", t, p) => Rewarding("reward", t, q)
  BY <1>2 DEF SoundCopy, Rewarding
<1> QED
  BY <1>3, <1>4 DEF q

LEMMA RewardSound ==
    ASSUME NEW p, SoundCopy(p), NEW t, Rewarding("reward", t, p), NEW k, NEW n
    PROVE  SoundCopy([p EXCEPT !.bal[k] = @ + n, !.earned[t] = @ + 1])
<1> DEFINE q == [p EXCEPT !.bal[k] = @ + n, !.earned[t] = @ + 1]
<1>1. p = [bal |-> p.bal, open |-> p.open, earned |-> p.earned, loans |-> p.loans, stakes |-> p.stakes]
  BY DEF SoundCopy
<1>2. PICK v, w : v = p.bal[k] + n /\ w = p.earned[t] + 1
  OBVIOUS
<1>3. q = [p EXCEPT !.bal[k] = v, !.earned[t] = w]
  BY <1>2
<1>4. PICK b, e : b = [p.bal EXCEPT ![k] = v] /\ e = [p.earned EXCEPT ![t] = w]
  OBVIOUS
<1>5. q = [bal |-> b, open |-> p.open, earned |-> e, loans |-> p.loans, stakes |-> p.stakes]
  <2>1. q = [[p EXCEPT !.bal[k] = v] EXCEPT !.earned[t] = w]
    BY <1>3
  <2>2. [p EXCEPT !.bal[k] = v]
           = [bal |-> b, open |-> p.open, earned |-> p.earned, loans |-> p.loans, stakes |-> p.stakes]
    BY <1>1, <1>4
  <2>3. [[bal |-> b, open |-> p.open, earned |-> p.earned, loans |-> p.loans, stakes |-> p.stakes]
            EXCEPT !.earned[t] = w]
           = [bal |-> b, open |-> p.open, earned |-> [p.earned EXCEPT ![t] = w],
              loans |-> p.loans, stakes |-> p.stakes]
    OBVIOUS
  <2> QED
    BY <1>4, <2>1, <2>2, <2>3
<1> HIDE DEF q
<1>6. SUFFICES e \in [Task -> {0, 1}] /\ \A u \in Task : u \in p.open => e[u] = 0
  BY <1>5 DEF SoundCopy, q
<1>7. CASE t \in Task
  <2>1. p.earned[t] = 0 /\ t \notin p.open /\ p.earned \in [Task -> {0, 1}]
    BY <1>7 DEF Rewarding, SoundCopy
  <2>2. e = [p.earned EXCEPT ![t] = 1]
    BY <1>2, <1>4, <2>1
  <2> QED
    BY <2>1, <2>2 DEF SoundCopy
<1>8. CASE t \notin Task
  <2>1. e = p.earned
    BY <1>4, <1>8 DEF SoundCopy
  <2> QED
    BY <2>1 DEF SoundCopy
<1> QED
  BY <1>7, <1>8

-----------------------------------------------------------------------------
(* Sequences of steps *)

LEMMA TailIsRest ==
    ASSUME NEW s \in Seq(Step), s # <<>>
    PROVE  Tail(s) = SubSeq(s, 2, Len(s)) /\ Len(s) \in Nat \ {0} /\ Head(s) = s[1]
OBVIOUS

\* What a request has left, once it is not in the middle of a task.
LEMMA RestTasked ==
    ASSUME NEW s \in Seq(Step), Tasked(s), NEW n \in Nat, n >= 1,
           NEW rest, rest = SubSeq(s, n + 1, Len(s))
    PROVE  /\ rest \in Seq(Step) /\ Tasked(rest)
           /\ rest # <<>> => n < Len(s) /\ Head(rest) = s[n + 1] /\ Follows(s[n], Head(rest))
<1>1. /\ rest \in Seq(Step) /\ Len(s) \in Nat
      /\ Len(rest) = IF n < Len(s) THEN Len(s) - n ELSE 0
      /\ \A i \in 1..Len(rest) : rest[i] = s[n + i]
  OBVIOUS
<1>2. Tasked(rest)
  <2> SUFFICES ASSUME NEW i \in 1..Len(rest), i < Len(rest) PROVE Follows(rest[i], rest[i + 1])
    BY DEF Tasked
  <2>1. n < Len(s) /\ Len(rest) = Len(s) - n
    BY <1>1
  <2>2. /\ i + 1 \in 1..Len(rest) /\ n + i \in 1..Len(s) /\ n + i < Len(s)
        /\ (n + i) + 1 = n + (i + 1)
    BY <1>1, <2>1
  <2>3. rest[i] = s[n + i] /\ rest[i + 1] = s[n + (i + 1)]
    BY <1>1, <2>2
  <2>4. Follows(s[n + i], s[(n + i) + 1])
    BY <2>2 DEF Tasked
  <2> QED
    BY <2>2, <2>3, <2>4
<1>3. ASSUME rest # <<>>
      PROVE  n < Len(s) /\ Head(rest) = s[n + 1] /\ Follows(s[n], Head(rest))
  <2>1. Len(rest) > 0 /\ Head(rest) = rest[1]
    BY <1>1, <1>3
  <2>2. n < Len(s) /\ 1 \in 1..Len(rest) /\ n \in 1..Len(s)
    BY <1>1, <2>1
  <2>3. rest[1] = s[n + 1]
    BY <1>1, <2>2
  <2> QED
    BY <2>1, <2>2, <2>3 DEF Tasked
<1> QED
  BY <1>1, <1>2, <1>3

\* A sequence that may stand before and after another of the kind.
Closed(s) ==
    /\ s \in Seq(Step) /\ Len(s) >= 1 /\ Tasked(s)
    /\ s[1] \notin {"mark", "reward", "release", "repaid", "principal", "unstaked"}
    /\ s[Len(s)] \notin {"isOpen", "mark", "reward", "reseed", "payDebt", "release", "redeem", "principal"}

LEMMA ClosedBoth ==
    ASSUME NEW s, Closed(s), NEW t, Closed(t)
    PROVE  Closed(s \o t)
<1> DEFINE u == s \o t
<1>1. /\ u \in Seq(Step) /\ Len(u) = Len(s) + Len(t) /\ Len(s) \in Nat /\ Len(t) \in Nat
      /\ Len(s) >= 1 /\ Len(t) >= 1
      /\ \A i \in 1..Len(s) : u[i] = s[i]
      /\ \A i \in 1..Len(t) : u[Len(s) + i] = t[i]
  BY DEF Closed
<1> HIDE DEF u
<1>2. u[1] = s[1] /\ u[Len(u)] = t[Len(t)]
  BY <1>1
<1>3. ASSUME NEW i \in 1..Len(u), i < Len(u)
      PROVE  Follows(u[i], u[i + 1])
  <2>1. CASE i < Len(s)
    <3>1. i \in 1..Len(s) /\ i + 1 \in 1..Len(s)
      BY <1>1, <2>1
    <3>2. u[i] = s[i] /\ u[i + 1] = s[i + 1]
      BY <1>1, <3>1
    <3> QED
      BY <2>1, <3>1, <3>2 DEF Closed, Tasked
  <2>2. CASE i = Len(s)
    <3>1. i \in 1..Len(s) /\ 1 \in 1..Len(t) /\ i + 1 = Len(s) + 1
      BY <1>1, <2>2
    <3>2. u[i] = s[Len(s)] /\ u[i + 1] = t[1]
      BY <1>1, <2>2, <3>1
    <3> QED
      BY <3>2 DEF Closed, Follows
  <2>3. CASE i > Len(s)
    <3>1. PICK j \in 1..Len(t) : i = Len(s) + j /\ j < Len(t)
      <4>1. i - Len(s) \in 1..Len(t) /\ i = Len(s) + (i - Len(s)) /\ i - Len(s) < Len(t)
        BY <1>1, <1>3, <2>3
      <4> QED
        BY <4>1
    <3>2. j + 1 \in 1..Len(t) /\ i + 1 = Len(s) + (j + 1)
      BY <1>1, <3>1
    <3>3. u[i] = t[j] /\ u[i + 1] = t[j + 1]
      BY <1>1, <3>1, <3>2
    <3> QED
      BY <3>1, <3>3 DEF Closed, Tasked
  <2> QED
    BY <1>1, <2>1, <2>2, <2>3
<1> QED
  BY <1>1, <1>2, <1>3 DEF Closed, Tasked, u

LEMMA ClosedFixed ==
    /\ Closed(GetPortfolio) /\ Closed(<<"swap">>) /\ Closed(<<"add">>) /\ Closed(<<"remove">>)
    /\ Closed(<<"quote">>) /\ Closed(<<"secondLeg">>) /\ Closed(<<"mustSave">>) /\ Closed(<<"save">>)
    /\ Closed(<<"pay0", "get1", "save", "update", "save">>)
    /\ Closed(<<"pay0", "pay1", "shares", "save", "update">>)
    /\ Closed(<<"burn", "get0", "get1", "save", "update">>)
    /\ Closed(<<"isOpen", "mark", "reward", "save">>)
    /\ Closed(<<"pay", "save">>) /\ Closed(<<"pay", "get", "save">>) /\ Closed(<<"get", "mustSave">>)
    /\ Closed(<<"pledge", "borrow", "lent", "save">>) /\ Closed(<<"pledge", "refuse">>)
    /\ Closed(<<"payDebt", "release", "repaid", "save">>)
    /\ Closed(<<"lock", "receipt", "staked", "save">>)
    /\ Closed(<<"redeem", "principal", "unstaked", "save">>)
    /\ Closed(<<"reseed", "seedPools">>) /\ Closed(<<"starter", "save">>)
<1> USE DEF Closed, Tasked, Follows, Step
<1>1. /\ Closed(GetPortfolio) /\ Closed(<<"swap">>) /\ Closed(<<"add">>) /\ Closed(<<"remove">>)
      /\ Closed(<<"quote">>) /\ Closed(<<"secondLeg">>) /\ Closed(<<"mustSave">>) /\ Closed(<<"save">>)
  BY DEF GetPortfolio
<1>2. Closed(<<"pay0", "get1", "save", "update", "save">>)
  OBVIOUS
<1>3. Closed(<<"pay0", "pay1", "shares", "save", "update">>)
  OBVIOUS
<1>4. Closed(<<"burn", "get0", "get1", "save", "update">>)
  OBVIOUS
<1>5. Closed(<<"isOpen", "mark", "reward", "save">>)
  OBVIOUS
<1>6. Closed(<<"pay", "save">>) /\ Closed(<<"pay", "get", "save">>) /\ Closed(<<"get", "mustSave">>)
  OBVIOUS
<1>7. Closed(<<"pledge", "borrow", "lent", "save">>) /\ Closed(<<"pledge", "refuse">>)
  OBVIOUS
<1>8. Closed(<<"payDebt", "release", "repaid", "save">>)
  OBVIOUS
<1>9. Closed(<<"lock", "receipt", "staked", "save">>)
  OBVIOUS
<1>10. Closed(<<"redeem", "principal", "unstaked", "save">>)
  OBVIOUS
<1>11. Closed(<<"reseed", "seedPools">>) /\ Closed(<<"starter", "save">>)
  OBVIOUS
<1> HIDE DEF Closed, Tasked, Follows, Step
<1> QED
  BY <1>1, <1>2, <1>3, <1>4, <1>5, <1>6, <1>7, <1>8, <1>9, <1>10, <1>11

LEMMA ClosedComplete ==
    ASSUME NEW op, NEW s, Closed(s)
    PROVE  Closed(s \o Complete(op))
<1>1. CASE TaskOf[op] = NoTask
  <2>1. s \o <<>> = s
    BY DEF Closed
  <2> QED
    BY <1>1, <2>1 DEF Complete
<1>2. CASE TaskOf[op] # NoTask
  BY <1>2, ClosedFixed, ClosedBoth DEF Complete
<1> QED
  BY <1>1, <1>2

LEMMA ClosedSwap == Closed(Swap) /\ Closed(Add) /\ Closed(Remove) /\ Closed(Send)
<1>1. Closed(Swap)
  BY ClosedFixed, ClosedBoth, ClosedComplete DEF Swap
<1>2. Closed(Add) /\ Closed(Remove) /\ Closed(Send)
  BY ClosedFixed, ClosedBoth DEF Add, Remove, Send
<1> QED
  BY <1>1, <1>2

LEMMA ClosedProgram ==
    ASSUME NEW op
    PROVE  Closed(Program(op))
<1> USE ClosedFixed, ClosedBoth, ClosedComplete
<1>1. CASE op \in {"swap", "bridge", "add", "remove", "send"}
  BY <1>1, ClosedSwap DEF Program
<1>2. CASE op = "rateSwap"
  BY <1>2 DEF Program
<1>3. CASE op = "deposit"
  BY <1>3 DEF Program
<1>4. CASE op \in {"pending", "mint", "moveNFT"}
  BY <1>4 DEF Program
<1>5. CASE op = "claim"
  BY <1>5 DEF Program
<1>6. CASE op \in {"loan", "badLoan", "repay"}
  <2>1. Closed(LoanProgram(op))
    BY <1>6 DEF LoanProgram
  <2> QED
    BY <1>6, <2>1 DEF Program
<1>7. CASE op \in {"stake", "unstake"}
  BY <1>7 DEF Program
<1>8. CASE op = "activate"
  BY <1>8 DEF Program
<1>9. CASE op \notin {"swap", "bridge", "add", "remove", "send", "rateSwap", "deposit", "pending", "mint",
                     "moveNFT", "claim", "loan", "badLoan", "repay", "stake", "unstake", "activate"}
  BY <1>9 DEF Program
<1> QED
  BY <1>1, <1>2, <1>3, <1>4, <1>5, <1>6, <1>7, <1>8, <1>9

-----------------------------------------------------------------------------
(* Steps *)

LEMMA RewardInit == Init => RewardInv
BY DefaultSound DEF Init, RewardInv, RewardClient

\* A request goes on to steps it had ahead of it, or ends.
LEMMA RewardGoesOn ==
    ASSUME RequestInv, RewardInv, NEW c \in Client, NEW rest, NEW p, NEW owner, Go(c, rest, p, owner),
           SoundCopy(p),
           rest # <<>> => Tasked(rest) /\ Rewarding(Head(rest), TaskNow(ask[c]), p),
           cached' # NoFile => SoundCopy(cached'),
           file' \notin {NoFile, Broken} => SoundCopy(file')
    PROVE  RewardInv'
<1>1. /\ todo' = [todo EXCEPT ![c] = rest]
      /\ view' = [view EXCEPT ![c] = IF rest = <<>> THEN DefaultPortfolio ELSE p]
      /\ ask' = [ask EXCEPT ![c] = IF rest = <<>> THEN NoRequest ELSE @]
  BY DEF Go
<1>2. todo \in [Client -> Seq(Step)] /\ ask \in [Client -> Request \cup {NoRequest}]
      /\ view = [d \in Client |-> view[d]]
  BY DEF RequestInv, RewardInv
<1>3. ASSUME NEW d \in Client
      PROVE  RewardClient(todo'[d], ask'[d], view'[d])
  <2>1. CASE d # c
    <3>1. todo'[d] = todo[d] /\ ask'[d] = ask[d] /\ view'[d] = view[d]
      BY <1>1, <1>2, <2>1
    <3> QED
      BY <3>1 DEF RewardInv
  <2>2. CASE d = c /\ rest = <<>>
    <3>1. todo'[d] = <<>> /\ view'[d] = DefaultPortfolio
      BY <1>1, <1>2, <2>2
    <3> QED
      BY <3>1, DefaultSound DEF RewardClient
  <2>3. CASE d = c /\ rest # <<>>
    <3>1. todo'[d] = rest /\ view'[d] = p /\ ask'[d] = ask[c]
      BY <1>1, <1>2, <2>3
    <3> QED
      BY <2>3, <3>1 DEF RewardClient
  <2> QED
    BY <2>1, <2>2, <2>3
<1>4. view' = [d \in Client |-> view'[d]]
  BY <1>1, <1>2
<1> QED
  BY <1>3, <1>4 DEF RewardInv

LEMMA RewardChange ==
    ASSUME RequestInv, RewardInv, NEW c \in Client, NEW rest, NEW p, Change(c, rest, p), SoundCopy(p),
           rest # <<>> => Tasked(rest) /\ Rewarding(Head(rest), TaskNow(ask[c]), p)
    PROVE  RewardInv'
<1>1. Go(c, rest, p, alias) /\ cached' \in {cached, p} /\ file' = file
  BY DEF Change
<1>2. cached' # NoFile => SoundCopy(cached')
  BY <1>1 DEF RewardInv
<1>3. file' \notin {NoFile, Broken} => SoundCopy(file')
  BY <1>1 DEF RewardInv
<1> QED
  BY <1>1, <1>2, <1>3, RewardGoesOn

LEMMA RewardAt ==
    ASSUME RequestInv, RewardInv, NEW c \in Client, NEW step, At(c, step)
    PROVE  /\ todo[c] \in Seq(Step) /\ todo[c] # <<>> /\ todo[c][1] = step /\ Tasked(todo[c])
           /\ SoundCopy(view[c]) /\ Rewarding(step, TaskNow(ask[c]), view[c])
           /\ Tail(todo[c]) = SubSeq(todo[c], 1 + 1, Len(todo[c]))
<1>1. todo[c] \in Seq(Step) /\ todo[c] # <<>> /\ Head(todo[c]) = step
  BY DEF At, RequestInv
<1>2. Tail(todo[c]) = SubSeq(todo[c], 2, Len(todo[c])) /\ Head(todo[c]) = todo[c][1]
  BY <1>1, TailIsRest
<1>3. RewardClient(todo[c], ask[c], view[c])
  BY DEF RewardInv
<1> QED
  BY <1>1, <1>2, <1>3 DEF RewardClient

\* What follows a step that is none of a task's first two.
LEMMA CalmRest ==
    ASSUME RequestInv, RewardInv, NEW c \in Client, NEW step, At(c, step), step \notin {"isOpen", "mark"},
           NEW p
    PROVE  LET rest == Tail(todo[c])
           IN rest # <<>> => Tasked(rest) /\ Rewarding(Head(rest), TaskNow(ask[c]), p)
<1>1. todo[c] \in Seq(Step) /\ todo[c] # <<>> /\ todo[c][1] = step /\ Tasked(todo[c])
      /\ Tail(todo[c]) = SubSeq(todo[c], 1 + 1, Len(todo[c]))
  BY RewardAt
<1>2. /\ Tasked(Tail(todo[c]))
      /\ Tail(todo[c]) # <<>> => Follows(step, Head(Tail(todo[c])))
  <2>1. 1 \in Nat /\ 1 >= 1
    OBVIOUS
  <2> QED
    BY <1>1, <2>1, RestTasked
<1> QED
  BY <1>2 DEF Follows, Rewarding

LEMMA RewardRefuse ==
    ASSUME RequestInv, RewardInv, NEW c \in Client, Refuse(c)
    PROVE  RewardInv'
<1>1. Change(c, <<>>, view[c]) /\ SoundCopy(view[c])
  BY DEF Refuse, RewardInv, RewardClient
<1> QED
  BY <1>1, RewardChange

LEMMA RewardDoes ==
    ASSUME RequestInv, RewardInv, NEW c \in Client, NEW step, step \notin {"isOpen", "mark"},
           NEW ok, NEW p, Does(c, step, ok, p), SoundCopy(p)
    PROVE  RewardInv'
<1>1. At(c, step) /\ (Change(c, Tail(todo[c]), p) \/ Refuse(c))
  BY DEF Does
<1>2. CASE Change(c, Tail(todo[c]), p)
  BY <1>1, <1>2, CalmRest, RewardChange
<1> QED
  BY <1>1, <1>2, RewardRefuse

LEMMA RewardPays ==
    ASSUME RequestInv, RewardInv, NEW c \in Client, NEW step, step \notin {"isOpen", "mark"},
           NEW k, NEW n, Pays(c, step, k, n) \/ Gets(c, step, k, n)
    PROVE  RewardInv'
<1>1. SoundCopy(view[c])
  BY DEF RewardInv, RewardClient
<1>2. SoundCopy([view[c] EXCEPT !.bal[k] = @ - n]) /\ SoundCopy([view[c] EXCEPT !.bal[k] = @ + n])
  BY <1>1, CopySound
<1> QED
  BY <1>2, RewardDoes DEF Pays, Gets

LEMMA RewardSkip ==
    ASSUME RequestInv, RewardInv, NEW c \in Client, NEW step, At(c, step), step \notin {"isOpen", "mark"},
           Skip(c, 1)
    PROVE  RewardInv'
<1>1. Change(c, Tail(todo[c]), view[c]) /\ SoundCopy(view[c])
  BY RewardAt DEF Skip
<1> QED
  BY <1>1, CalmRest, RewardChange

LEMMA RewardWorks ==
    ASSUME RequestInv, RewardInv, NEW c \in Client, NEW step, step \notin {"isOpen", "mark"},
           NEW ok, NEW m, Works(c, step, ok, m)
    PROVE  RewardInv'
BY RewardSkip, RewardRefuse DEF Works

\* A bridge goes on to its next leg: its task stays.
LEMMA RewardLegs ==
    ASSUME RequestInv, RewardInv, NEW c \in Client, Quote(c) \/ SecondLeg(c)
    PROVE  RewardInv'
<1>1. CASE Refuse(c)
  BY <1>1, RewardRefuse
<1>2. ASSUME NEW step \in {"quote", "secondLeg"}, At(c, step), todo' = [todo EXCEPT ![c] = Tail(@)],
             ask[c] \in Request, TaskNow(ask'[c]) = TaskNow(ask[c]),
             \A d \in Client : d # c => ask'[d] = ask[d], UNCHANGED <<cached, file, view>>
      PROVE  RewardInv'
  <2>1. todo \in [Client -> Seq(Step)] /\ SoundCopy(view[c])
    BY <1>2, RewardAt DEF RequestInv
  <2>2. RewardClient(Tail(todo[c]), ask'[c], view[c])
    BY <1>2, <2>1, CalmRest DEF RewardClient
  <2>3. ASSUME NEW d \in Client
        PROVE  RewardClient(todo'[d], ask'[d], view'[d])
    <3>1. CASE d = c
      <4>1. todo'[d] = Tail(todo[c]) /\ view'[d] = view[c]
        BY <1>2, <2>1, <3>1
      <4> QED
        BY <2>2, <3>1, <4>1
    <3>2. CASE d # c
      <4>1. todo'[d] = todo[d] /\ view'[d] = view[d] /\ ask'[d] = ask[d]
        BY <1>2, <2>1, <3>2
      <4> QED
        BY <4>1 DEF RewardInv
    <3> QED
      BY <3>1, <3>2
  <2> QED
    BY <1>2, <2>3 DEF RewardInv
<1>3. CASE Quote(c) /\ ~Refuse(c)
  <2>1. At(c, "quote") /\ todo' = [todo EXCEPT ![c] = Tail(@)] /\ UNCHANGED <<cached, file, view>>
    BY <1>3 DEF Quote
  <2>2. PICK m : ask' = [ask EXCEPT ![c].m = m]
    BY <1>3 DEF Quote
  <2>3. ask[c] \in Request /\ ask = [d \in Client |-> ask[d]]
    BY <2>1 DEF At, RequestInv
  <2>4. ask'[c].op = ask[c].op /\ ask'[c].task = ask[c].task
    BY <2>2, <2>3 DEF Request
  <2>5. TaskNow(ask'[c]) = TaskNow(ask[c]) /\ \A d \in Client : d # c => ask'[d] = ask[d]
    BY <2>2, <2>3, <2>4 DEF TaskNow
  <2> QED
    BY <1>2, <2>1, <2>3, <2>5
<1>4. CASE SecondLeg(c)
  <2>1. At(c, "secondLeg") /\ todo' = [todo EXCEPT ![c] = Tail(@)] /\ UNCHANGED <<cached, file, view>>
    BY <1>4 DEF SecondLeg
  <2>2. PICK s : ask' = [ask EXCEPT ![c] = [ask[c] EXCEPT !.pair = ask[c].next, !.n = ask[c].m, !.side = s]]
    BY <1>4 DEF SecondLeg
  <2>3. ask[c] \in Request /\ ask = [d \in Client |-> ask[d]]
    BY <2>1 DEF At, RequestInv
  <2>4. ask'[c].op = ask[c].op /\ ask'[c].task = ask[c].task
    BY <2>2, <2>3 DEF Request
  <2>5. TaskNow(ask'[c]) = TaskNow(ask[c]) /\ \A d \in Client : d # c => ask'[d] = ask[d]
    BY <2>2, <2>3, <2>4 DEF TaskNow
  <2> QED
    BY <1>2, <2>1, <2>3, <2>5
<1> QED
  BY <1>1, <1>3, <1>4

LEMMA RewardPool ==
    ASSUME RequestInv, RewardInv, NEW c \in Client, PoolStep(c)
    PROVE  RewardInv'
<1>1. CASE WorkOutSwap(c) \/ WorkOutAdd(c) \/ WorkOutRemove(c)
  <2>1. \E step, ok, m : step \in {"swap", "add", "remove"} /\ Works(c, step, ok, m)
    BY <1>1 DEF WorkOutSwap, WorkOutAdd, WorkOutRemove
  <2> QED
    BY <2>1, RewardWorks
<1>2. CASE Quote(c) \/ SecondLeg(c)
  BY <1>2, RewardLegs
<1>3. CASE Update(c) \/ SeedPools(c)
  BY <1>3, RewardSkip DEF Update, SeedPools
<1>4. CASE Reseed(c)
  <2>1. At(c, "reseed") /\ (Skip(c, 1) \/ Skip(c, 2))
    BY <1>4 DEF Reseed
  <2>2. CASE Skip(c, 2)
    <3>1. todo[c] \in Seq(Step) /\ todo[c] # <<>> /\ todo[c][1] = "reseed" /\ Tasked(todo[c])
          /\ SoundCopy(view[c])
      BY <2>1, RewardAt
    <3>6. PICK rest : rest = SubSeq(todo[c], 2 + 1, Len(todo[c]))
      OBVIOUS
    <3>7. 2 \in Nat /\ 2 >= 1
      OBVIOUS
    <3>2. /\ Tasked(rest)
          /\ rest # <<>> => 2 < Len(todo[c]) /\ Follows(todo[c][2], Head(rest))
      BY <3>1, <3>6, <3>7, RestTasked
    <3>3. rest # <<>> => todo[c][2] = "seedPools"
      <4>1. 2 < Len(todo[c]) => Follows(todo[c][1], todo[c][1 + 1])
        BY <3>1 DEF Tasked
      <4> QED
        BY <3>1, <3>2, <4>1 DEF Follows
    <3>4. rest # <<>> => Tasked(rest) /\ Rewarding(Head(rest), TaskNow(ask[c]), view[c])
      BY <3>2, <3>3 DEF Follows, Rewarding
    <3>5. Change(c, rest, view[c])
      BY <2>2, <3>6 DEF Skip
    <3> QED
      BY <3>1, <3>4, <3>5, RewardChange
  <2> QED
    BY <2>1, <2>2, RewardSkip
<1>5. CASE GiveStarter(c)
  <2>1. PICK b : Does(c, "starter", \E k \in Key : view[c].bal[k] = 0 /\ Starter[k] > 0,
                      [view[c] EXCEPT !.bal = b])
    BY <1>5 DEF GiveStarter
  <2>2. SoundCopy([view[c] EXCEPT !.bal = b])
    BY CopySound DEF RewardInv, RewardClient
  <2> QED
    BY <2>1, <2>2, RewardDoes
<1>6. CASE \E step, k, n : /\ step \in {"pay0", "pay1", "get0", "get1", "burn", "shares"}
                            /\ (Pays(c, step, k, n) \/ Gets(c, step, k, n))
  BY <1>6, RewardPays
<1> QED
  BY <1>1, <1>2, <1>3, <1>4, <1>5, <1>6 DEF PoolStep

\* A copy whose balances are replaced.
LEMMA SyncedSound ==
    ASSUME NEW p, SoundCopy(p), NEW q \in Synced(p)
    PROVE  SoundCopy(q)
<1>1. PICK b : q = [p EXCEPT !.bal = b]
  BY DEF Synced
<1>2. SoundCopy([p EXCEPT !.bal = b])
  BY CopySound
<1> QED
  BY <1>1, <1>2

LEMMA RewardStore ==
    ASSUME RequestInv, RewardInv, NEW c \in Client, Load(c) \/ Save(c)
    PROVE  RewardInv'
<1>1. CASE Load(c)
  <2>1. At(c, "load")
    BY <1>1 DEF Load
  <2>2. PICK p : /\ p \in IF cached # NoFile THEN {cached}
                           ELSE {IF file = NoFile THEN DefaultPortfolio ELSE file}
                                \cup IF DiskFaults THEN {DefaultPortfolio} ELSE {}
                 /\ IF p = Broken THEN Refuse(c)
                    ELSE /\ cached' = p
                         /\ \E q \in Synced(p) :
                               Go(c, Tail(todo[c]), q, IF alias = c THEN Nobody ELSE alias)
                         /\ UNCHANGED file
    BY <1>1 DEF Load
  <2>3. CASE p = Broken
    BY <2>2, <2>3, RewardRefuse
  <2>4. CASE p # Broken
    <3>1. SoundCopy(p)
      BY <2>2, <2>4, DefaultSound DEF RewardInv
    <3>2. PICK q \in Synced(p) : Go(c, Tail(todo[c]), q, IF alias = c THEN Nobody ELSE alias)
      BY <2>2, <2>4
    <3>3. SoundCopy(q)
      BY <3>1, SyncedSound
    <3>4. cached' = p /\ file' = file
      BY <2>2, <2>4
    <3>5. (cached' # NoFile => SoundCopy(cached')) /\ (file' \notin {NoFile, Broken} => SoundCopy(file'))
      BY <3>1, <3>4 DEF RewardInv
    <3> QED
      BY <2>1, <3>2, <3>3, <3>5, CalmRest, RewardGoesOn
  <2> QED
    BY <2>3, <2>4
<1>2. CASE Save(c)
  <2>1. PICK step \in {"keep", "save", "mustSave"} : At(c, step)
    BY <1>2 DEF Save
  <2>2. SoundCopy(view[c])
    BY <2>1, RewardAt
  <2>3. cached' = view[c] /\ file' \in {view[c], file, Broken}
    BY <1>2 DEF Save
  <2>4. (cached' # NoFile => SoundCopy(cached')) /\ (file' \notin {NoFile, Broken} => SoundCopy(file'))
    BY <2>2, <2>3 DEF RewardInv
  <2>5. CASE Go(c, Tail(todo[c]), view[c], c)
    BY <2>1, <2>2, <2>4, <2>5, CalmRest, RewardGoesOn
  <2>6. CASE Go(c, <<>>, view[c], c)
    BY <2>2, <2>4, <2>6, RewardGoesOn
  <2> QED
    BY <1>2, <2>5, <2>6 DEF Save
<1> QED
  BY <1>1, <1>2

\* A task that is open is marked and then rewarded; one that is not is left.
LEMMA RewardTask ==
    ASSUME RequestInv, RewardInv, NEW c \in Client, TaskStep(c)
    PROVE  RewardInv'
<1>1. PICK t, p : t = TaskNow(ask[c]) /\ p = view[c]
  OBVIOUS
<1>2. \/ At(c, "isOpen") /\ Skip(c, IF t \in p.open THEN 1 ELSE 4)
      \/ Does(c, "mark", TRUE, [p EXCEPT !.open = @ \ {t}])
      \/ Does(c, "reward", TRUE, [p EXCEPT !.bal[RewardOf[t].key] = @ + RewardOf[t].n, !.earned[t] = @ + 1])
  BY <1>1 DEF TaskStep, TaskNow
<1>3. 1 \in Nat /\ 1 >= 1 /\ 4 \in Nat /\ 4 >= 1
  OBVIOUS
<1>4. CASE At(c, "isOpen") /\ Skip(c, IF t \in p.open THEN 1 ELSE 4)
  <2>1. /\ todo[c] \in Seq(Step) /\ todo[c] # <<>> /\ todo[c][1] = "isOpen" /\ Tasked(todo[c])
        /\ SoundCopy(p)
    BY <1>1, <1>4, RewardAt
  <2>2. CASE t \in p.open
    <3>1. PICK rest : rest = SubSeq(todo[c], 1 + 1, Len(todo[c]))
      OBVIOUS
    <3>2. Tasked(rest) /\ (rest # <<>> => Follows("isOpen", Head(rest)))
      BY <1>3, <2>1, <3>1, RestTasked
    <3>3. rest # <<>> => Tasked(rest) /\ Rewarding(Head(rest), t, p)
      BY <2>2, <3>2 DEF Follows, Rewarding
    <3>4. Change(c, rest, p)
      BY <1>1, <1>4, <2>2, <3>1 DEF Skip
    <3> QED
      BY <1>1, <2>1, <3>3, <3>4, RewardChange
  <2>3. CASE t \notin p.open
    <3>1. PICK rest : rest = SubSeq(todo[c], 4 + 1, Len(todo[c]))
      OBVIOUS
    <3>2. Tasked(rest) /\ (rest # <<>> => 4 < Len(todo[c]) /\ Follows(todo[c][4], Head(rest)))
      BY <1>3, <2>1, <3>1, RestTasked
    <3>3. 4 < Len(todo[c]) => todo[c][4] = "save"
      <4>1. 4 < Len(todo[c]) => /\ Follows(todo[c][1], todo[c][1 + 1]) /\ Follows(todo[c][2], todo[c][2 + 1])
                                /\ Follows(todo[c][3], todo[c][3 + 1])
        BY <2>1 DEF Tasked
      <4> QED
        BY <2>1, <4>1 DEF Follows
    <3>4. rest # <<>> => Tasked(rest) /\ Rewarding(Head(rest), t, p)
      BY <3>2, <3>3 DEF Follows, Rewarding
    <3>5. Change(c, rest, p)
      BY <1>1, <1>4, <2>3, <3>1 DEF Skip
    <3> QED
      BY <1>1, <2>1, <3>4, <3>5, RewardChange
  <2> QED
    BY <2>2, <2>3
<1>5. CASE Does(c, "mark", TRUE, [p EXCEPT !.open = @ \ {t}])
  <2>1. PICK q : q = [p EXCEPT !.open = @ \ {t}]
    OBVIOUS
  <2>2. At(c, "mark") /\ Change(c, Tail(todo[c]), q)
    BY <1>5, <2>1 DEF Does
  <2>3. /\ todo[c] \in Seq(Step) /\ todo[c] # <<>> /\ todo[c][1] = "mark" /\ Tasked(todo[c])
        /\ SoundCopy(p) /\ Rewarding("mark", t, p)
        /\ Tail(todo[c]) = SubSeq(todo[c], 1 + 1, Len(todo[c]))
    BY <1>1, <2>2, RewardAt
  <2>4. SoundCopy(q) /\ Rewarding("reward", t, q)
    BY <2>1, <2>3, MarkSound
  <2>5. Tasked(Tail(todo[c])) /\ (Tail(todo[c]) # <<>> => Follows("mark", Head(Tail(todo[c]))))
    BY <1>3, <2>3, RestTasked
  <2>6. Tail(todo[c]) # <<>> => Rewarding(Head(Tail(todo[c])), t, q)
    BY <2>4, <2>5 DEF Follows
  <2> QED
    BY <1>1, <2>2, <2>4, <2>5, <2>6, RewardChange
<1>6. CASE Does(c, "reward", TRUE,
                [p EXCEPT !.bal[RewardOf[t].key] = @ + RewardOf[t].n, !.earned[t] = @ + 1])
  <2>1. SoundCopy(p) /\ Rewarding("reward", t, p)
    BY <1>1, <1>6, RewardAt DEF Does
  <2>2. SoundCopy([p EXCEPT !.bal[RewardOf[t].key] = @ + RewardOf[t].n, !.earned[t] = @ + 1])
    BY <2>1, RewardSound
  <2> QED
    BY <1>6, <2>2, RewardDoes
<1> QED
  BY <1>2, <1>4, <1>5, <1>6

LEMMA RewardBalances ==
    ASSUME RequestInv, RewardInv, NEW c \in Client, Transfer(c) \/ LoanStep(c) \/ StakeStep(c)
    PROVE  RewardInv'
<1>1. SoundCopy(view[c])
  BY DEF RewardInv, RewardClient
<1>2. ASSUME NEW step, step \notin {"isOpen", "mark"}, NEW ok, NEW k, NEW v,
             \/ Does(c, step, ok, [view[c] EXCEPT !.bal[k] = v])
             \/ Does(c, step, ok, [view[c] EXCEPT !.loans[k] = v])
             \/ Does(c, step, ok, [view[c] EXCEPT !.stakes[k] = v])
             \/ Does(c, step, ok, view[c])
      PROVE  RewardInv'
  BY <1>1, <1>2, CopySound, RewardDoes
<1>3. CASE Transfer(c)
  BY <1>2, <1>3, RewardPays DEF Transfer
<1>4. CASE LoanStep(c)
  BY <1>2, <1>4, RewardPays DEF LoanStep
<1>5. CASE StakeStep(c)
  BY <1>2, <1>5, RewardPays DEF StakeStep
<1> QED
  BY <1>3, <1>4, <1>5

LEMMA RewardBegin ==
    ASSUME RequestInv, RewardInv, NEW c \in Client, Begin(c)
    PROVE  RewardInv'
<1>1. PICK r \in Requests : ask' = [ask EXCEPT ![c] = r] /\ todo' = [todo EXCEPT ![c] = Program(r.op)]
  BY DEF Begin
<1>2. UNCHANGED <<cached, file, view>>
  BY DEF Begin
<1>3. todo \in [Client -> Seq(Step)] /\ ask \in [Client -> Request \cup {NoRequest}]
  BY DEF RequestInv
<1>4. Closed(Program(r.op))
  BY ClosedProgram
<1>5. Program(r.op) # <<>> => Tasked(Program(r.op)) /\ Head(Program(r.op)) \notin {"mark", "reward"}
  BY <1>4 DEF Closed
<1>6. ASSUME NEW d \in Client
      PROVE  RewardClient(todo'[d], ask'[d], view'[d])
  <2>1. CASE d = c
    <3>1. todo'[d] = Program(r.op) /\ view'[d] = view[c]
      BY <1>1, <1>2, <1>3, <2>1
    <3> QED
      BY <1>5, <3>1 DEF RewardClient, RewardInv, Rewarding
  <2>2. CASE d # c
    <3>1. todo'[d] = todo[d] /\ view'[d] = view[d] /\ ask'[d] = ask[d]
      BY <1>1, <1>2, <1>3, <2>2
    <3> QED
      BY <3>1 DEF RewardInv
  <2> QED
    BY <2>1, <2>2
<1> QED
  BY <1>2, <1>6 DEF RewardInv

LEMMA RewardStop ==
    ASSUME RewardInv, Stop
    PROVE  RewardInv'
<1>1. /\ cached' = NoFile /\ file' = file /\ view' = [c \in Client |-> DefaultPortfolio]
      /\ todo' = [c \in Client |-> <<>>]
  BY DEF Stop
<1> QED
  BY <1>1, DefaultSound DEF RewardInv, RewardClient

LEMMA RewardNext == RequestInv /\ RewardInv /\ [PortfolioNext]_portVars => RewardInv'
<1> SUFFICES ASSUME RequestInv, RewardInv, [PortfolioNext]_portVars PROVE RewardInv'
  OBVIOUS
<1>1. ASSUME NEW c \in Client, Begin(c) PROVE RewardInv'
  BY <1>1, RewardBegin
<1>2. ASSUME NEW c \in Client, PortfolioStep(c) PROVE RewardInv'
  BY <1>2, RewardStore, RewardPool, RewardTask, RewardBalances DEF PortfolioStep
<1>3. CASE Stop
  BY <1>3, RewardStop
<1>4. CASE UNCHANGED portVars
  BY <1>4 DEF portVars, RewardInv, RewardClient
<1> QED
  BY <1>1, <1>2, <1>3, <1>4 DEF PortfolioNext

\* In no copy of the portfolio - in memory, on disk or in a request - has a task
\* been rewarded twice, though copies are taken while others are changed, and
\* overwrite each other.
THEOREM TasksRewardedOnce == PortfolioSpec => []RewardOnce
<1>1. PoolInv => RequestInv
  BY DEF PoolInv
<1>2. RewardInv => RewardOnce
  <2> SUFFICES ASSUME RewardInv, NEW p \in {cached, file} \cup {view[c] : c \in DOMAIN view},
                      p \notin {NoFile, Broken}, NEW t \in Task
               PROVE  p.earned[t] <= 1
    BY DEF RewardOnce
  <2>1. SoundCopy(p)
    BY DEF RewardInv, RewardClient
  <2>2. p.earned[t] \in {0, 1}
    BY <2>1 DEF SoundCopy
  <2> QED
    BY <2>2
<1> QED
  BY <1>1, <1>2, RewardInit, RewardNext, PoolInvariant, PTL DEF PortfolioSpec

-----------------------------------------------------------------------------
(* Types: no copy of the portfolio is overdrawn, and none is credited with *)
(* what is no amount.                                                      *)

Copies ==
    /\ cached \in PortfolioRecord \cup {NoFile} /\ file \in PortfolioRecord \cup {NoFile, Broken}
    /\ view \in [Client -> PortfolioRecord] /\ alias \in Client \cup {Nobody}

MineRecord == [pair : Pair, pool : PoolRecord, key0 : Key, n0 : Nat, key1 : Key, n1 : Nat, shares : Nat]

\* Where a request stands that found a task open, a loan to repay or a stake to
\* return, it is still so in its copy.
Due(step, r, p) ==
    /\ step \in {"mark", "reward"} => TaskNow(r) \in Task
    /\ step \in {"release", "repaid"} => p.loans[r.loan] > 0
    /\ step \in {"principal", "unstaked"} => p.stakes[r.stake] > 0

DueInv == \A c \in Client : todo[c] # <<>> => Due(Head(todo[c]), ask[c], view[c])

OfTokens(r) == r.pair \in Token \X Token /\ r.next \in Token \X Token
MineInv ==
    /\ mine \in [Client -> MineRecord]
    /\ \A c \in Client : todo[c] # <<>> => OfTokens(ask[c])

-----------------------------------------------------------------------------
(* A copy with one of its parts changed *)

LEMMA RecordIs ==
    ASSUME NEW p \in PortfolioRecord
    PROVE  /\ p = [bal |-> p.bal, open |-> p.open, earned |-> p.earned, loans |-> p.loans, stakes |-> p.stakes]
           /\ p.bal \in [Key -> Nat] /\ p.open \subseteq Task /\ p.earned \in [Task -> Nat]
           /\ p.loans \in [Loan -> Nat] /\ p.stakes \in [Stake -> Nat]
BY DEF PortfolioRecord, Amounts

LEMMA DefaultTyped == DefaultPortfolio \in PortfolioRecord
BY PortfolioAssumed DEF PortfolioAssumption, DefaultPortfolio, PortfolioRecord, Amounts, NoAmounts

LEMMA BalTyped ==
    ASSUME NEW p \in PortfolioRecord, NEW b \in [Key -> Nat]
    PROVE  [p EXCEPT !.bal = b] \in PortfolioRecord
<1>1. [p EXCEPT !.bal = b] = [bal |-> b, open |-> p.open, earned |-> p.earned, loans |-> p.loans, stakes |-> p.stakes]
  BY RecordIs
<1> QED
  BY <1>1, RecordIs DEF PortfolioRecord, Amounts

\* A copy whose balance of a key, which may be none, becomes n.
LEMMA BalanceTyped ==
    ASSUME NEW p \in PortfolioRecord, NEW k, NEW n, k \in Key => n \in Nat
    PROVE  [p EXCEPT !.bal[k] = n] \in PortfolioRecord
<1>1. [p.bal EXCEPT ![k] = n] \in [Key -> Nat]
  BY RecordIs
<1>2. [p EXCEPT !.bal[k] = n] = [p EXCEPT !.bal = [p.bal EXCEPT ![k] = n]]
  BY RecordIs
<1> QED
  BY <1>1, <1>2, BalTyped

LEMMA TermsTyped ==
    ASSUME NEW p \in PortfolioRecord, NEW k, NEW n
    PROVE  /\ (k \in Loan => n \in Nat) => [p EXCEPT !.loans[k] = n] \in PortfolioRecord
           /\ (k \in Stake => n \in Nat) => [p EXCEPT !.stakes[k] = n] \in PortfolioRecord
<1>1. [p EXCEPT !.loans[k] = n]
        = [bal |-> p.bal, open |-> p.open, earned |-> p.earned, loans |-> [p.loans EXCEPT ![k] = n],
           stakes |-> p.stakes]
  BY RecordIs
<1>2. [p EXCEPT !.stakes[k] = n]
        = [bal |-> p.bal, open |-> p.open, earned |-> p.earned, loans |-> p.loans,
           stakes |-> [p.stakes EXCEPT ![k] = n]]
  BY RecordIs
<1>3. (k \in Loan => n \in Nat) => [p.loans EXCEPT ![k] = n] \in [Loan -> Nat]
  BY RecordIs
<1>4. (k \in Stake => n \in Nat) => [p.stakes EXCEPT ![k] = n] \in [Stake -> Nat]
  BY RecordIs
<1>5. ASSUME NEW l \in [Loan -> Nat], NEW s \in [Stake -> Nat]
      PROVE  [bal |-> p.bal, open |-> p.open, earned |-> p.earned, loans |-> l, stakes |-> s] \in PortfolioRecord
  BY RecordIs DEF PortfolioRecord, Amounts
<1> QED
  BY <1>1, <1>2, <1>3, <1>4, <1>5, RecordIs

LEMMA MarkTyped ==
    ASSUME NEW p \in PortfolioRecord, NEW t
    PROVE  [p EXCEPT !.open = @ \ {t}] \in PortfolioRecord
<1>1. p = [bal |-> p.bal, open |-> p.open, earned |-> p.earned, loans |-> p.loans, stakes |-> p.stakes]
  BY RecordIs
<1>2. [p EXCEPT !.open = @ \ {t}]
        = [bal |-> p.bal, open |-> p.open \ {t}, earned |-> p.earned, loans |-> p.loans, stakes |-> p.stakes]
  BY <1>1
<1> QED
  BY <1>2, RecordIs DEF PortfolioRecord, Amounts

LEMMA RewardTyped ==
    ASSUME NEW p \in PortfolioRecord, NEW t \in Task
    PROVE  [p EXCEPT !.bal[RewardOf[t].key] = @ + RewardOf[t].n, !.earned[t] = @ + 1] \in PortfolioRecord
<1>1. PICK v, w : v = p.bal[RewardOf[t].key] + RewardOf[t].n /\ w = p.earned[t] + 1
  OBVIOUS
<1>2. RewardOf[t].key \in Token /\ RewardOf[t].n \in Nat /\ Token \subseteq Key
  BY PortfolioAssumed DEF PortfolioAssumption, Key
<1>3. v \in Nat /\ w \in Nat
  BY <1>1, <1>2, RecordIs
<1>4. PICK b, e : b = [p.bal EXCEPT ![RewardOf[t].key] = v] /\ e = [p.earned EXCEPT ![t] = w]
  OBVIOUS
<1>5. b \in [Key -> Nat] /\ e \in [Task -> Nat]
  BY <1>3, <1>4, RecordIs
<1>6. [p EXCEPT !.bal[RewardOf[t].key] = @ + RewardOf[t].n, !.earned[t] = @ + 1]
        = [[p EXCEPT !.bal[RewardOf[t].key] = v] EXCEPT !.earned[t] = w]
  BY <1>1
<1>7. [p EXCEPT !.bal[RewardOf[t].key] = v]
        = [bal |-> b, open |-> p.open, earned |-> p.earned, loans |-> p.loans, stakes |-> p.stakes]
  BY <1>4, RecordIs
<1>8. [[bal |-> b, open |-> p.open, earned |-> p.earned, loans |-> p.loans, stakes |-> p.stakes] EXCEPT !.earned[t] = w]
        = [bal |-> b, open |-> p.open, earned |-> e, loans |-> p.loans, stakes |-> p.stakes]
  BY <1>4
<1>9. [bal |-> b, open |-> p.open, earned |-> e, loans |-> p.loans, stakes |-> p.stakes] \in PortfolioRecord
  BY <1>5, RecordIs DEF PortfolioRecord, Amounts
<1> QED
  BY <1>6, <1>7, <1>8, <1>9

LEMMA SyncedTyped ==
    ASSUME NEW p \in PortfolioRecord, NEW q \in Synced(p)
    PROVE  q \in PortfolioRecord
<1>1. Onex \in Key /\ EvmBalances \in [Key -> Nat] /\ ChainBalance \in Nat
  BY PortfolioAssumed DEF PortfolioAssumption, Key, Amounts
<1>2. p.bal \in [Key -> Nat] /\ p.bal[Onex] \in Nat
  BY <1>1, RecordIs
<1>3. ASSUME NEW n \in Nat
      PROVE  /\ [EvmBalances EXCEPT ![Onex] = IF @ > 0 THEN @ ELSE n] \in [Key -> Nat]
             /\ [NoAmounts EXCEPT ![Onex] = n] \in [Key -> Nat] /\ [p.bal EXCEPT ![Onex] = n] \in [Key -> Nat]
  BY <1>1, <1>2 DEF NoAmounts
<1>4. PICK b \in [Key -> Nat] : q = [p EXCEPT !.bal = b]
  <2>1. PICK n \in {ChainBalance, p.bal[Onex]} :
           \/ q = [p EXCEPT !.bal = [EvmBalances EXCEPT ![Onex] = IF @ > 0 THEN @ ELSE n]]
           \/ q = [p EXCEPT !.bal = [NoAmounts EXCEPT ![Onex] = n]]
           \/ q = [p EXCEPT !.bal = [p.bal EXCEPT ![Onex] = n]]
    BY DEF Synced
  <2> QED
    BY <1>1, <1>2, <1>3, <2>1
<1> QED
  BY <1>4, BalTyped

-----------------------------------------------------------------------------
(* Steps on the copies *)

LEMMA CopiesGo ==
    ASSUME Copies, NEW c \in Client, NEW rest, NEW p \in PortfolioRecord, NEW owner \in Client \cup {Nobody},
           Go(c, rest, p, owner), cached' \in PortfolioRecord \cup {NoFile},
           file' \in PortfolioRecord \cup {NoFile, Broken}
    PROVE  Copies'
<1>1. view' = [view EXCEPT ![c] = IF rest = <<>> THEN DefaultPortfolio ELSE p]
      /\ alias' = IF rest = <<>> /\ owner = c THEN Nobody ELSE owner
  BY DEF Go
<1>2. view' \in [Client -> PortfolioRecord] /\ alias' \in Client \cup {Nobody}
  BY <1>1, DefaultTyped DEF Copies
<1> QED
  BY <1>2 DEF Copies

LEMMA CopiesChange ==
    ASSUME Copies, NEW c \in Client, NEW rest, NEW p \in PortfolioRecord, Change(c, rest, p)
    PROVE  Copies'
<1>1. Go(c, rest, p, alias) /\ cached' \in {cached, p} /\ file' = file
  BY DEF Change
<1>2. cached' \in PortfolioRecord \cup {NoFile} /\ file' \in PortfolioRecord \cup {NoFile, Broken}
      /\ alias \in Client \cup {Nobody}
  BY <1>1 DEF Copies
<1> QED
  BY <1>1, <1>2, CopiesGo

LEMMA CopiesSkip ==
    ASSUME Copies, NEW c \in Client, NEW n, Skip(c, n) \/ Refuse(c)
    PROVE  Copies'
BY CopiesChange DEF Skip, Refuse, Copies

LEMMA CopiesDoes ==
    ASSUME Copies, NEW c \in Client, NEW step, NEW ok, NEW p, Does(c, step, ok, p),
           ok => p \in PortfolioRecord
    PROVE  Copies'
<1>1. CASE ok
  BY <1>1, CopiesChange DEF Does
<1>2. CASE ~ok
  BY <1>2, CopiesSkip DEF Does
<1> QED
  BY <1>1, <1>2

LEMMA CopiesPays ==
    ASSUME Copies, NEW c \in Client, NEW step, NEW k, NEW n \in Nat,
           Pays(c, step, k, n) \/ Gets(c, step, k, n)
    PROVE  Copies'
<1>1. view[c] \in PortfolioRecord
  BY DEF Copies
<1>2. k \in Key => view[c].bal[k] \in Nat
  BY <1>1, RecordIs
<1>3. [view[c] EXCEPT !.bal[k] = @ + n] \in PortfolioRecord
  <2>1. k \in Key => view[c].bal[k] + n \in Nat
    BY <1>2
  <2> QED
    BY <1>1, <2>1, BalanceTyped
<1>4. view[c].bal[k] >= n => [view[c] EXCEPT !.bal[k] = @ - n] \in PortfolioRecord
  <2>1. view[c].bal[k] >= n => (k \in Key => view[c].bal[k] - n \in Nat)
    BY <1>2
  <2> QED
    BY <1>1, <2>1, BalanceTyped
<1> QED
  BY <1>3, <1>4, CopiesDoes DEF Pays, Gets

LEMMA CopiesLoad ==
    ASSUME Copies, NEW c \in Client, Load(c)
    PROVE  Copies'
<1>1. PICK p : /\ p \in IF cached # NoFile THEN {cached}
                         ELSE {IF file = NoFile THEN DefaultPortfolio ELSE file}
                              \cup IF DiskFaults THEN {DefaultPortfolio} ELSE {}
               /\ IF p = Broken THEN Refuse(c)
                  ELSE /\ cached' = p
                       /\ \E q \in Synced(p) :
                             Go(c, Tail(todo[c]), q, IF alias = c THEN Nobody ELSE alias)
                       /\ UNCHANGED file
  BY DEF Load
<1>2. CASE p = Broken
  BY <1>1, <1>2, CopiesSkip
<1>3. CASE p # Broken
  <2>1. p \in PortfolioRecord
    BY <1>1, <1>3, DefaultTyped DEF Copies
  <2>2. PICK q \in Synced(p) : Go(c, Tail(todo[c]), q, IF alias = c THEN Nobody ELSE alias)
    BY <1>1, <1>3
  <2>3. q \in PortfolioRecord
    BY <2>1, SyncedTyped
  <2>4. /\ cached' \in PortfolioRecord \cup {NoFile} /\ file' \in PortfolioRecord \cup {NoFile, Broken}
        /\ (IF alias = c THEN Nobody ELSE alias) \in Client \cup {Nobody}
    BY <1>1, <1>3, <2>1 DEF Copies
  <2> QED
    BY <2>2, <2>3, <2>4, CopiesGo
<1> QED
  BY <1>2, <1>3

LEMMA CopiesSave ==
    ASSUME Copies, NEW c \in Client, Save(c)
    PROVE  Copies'
<1>1. /\ file' \in {view[c], file, Broken} /\ cached' = view[c]
      /\ Go(c, Tail(todo[c]), view[c], c) \/ Go(c, <<>>, view[c], c)
  BY DEF Save
<1>2. /\ view[c] \in PortfolioRecord /\ cached' \in PortfolioRecord \cup {NoFile}
      /\ file' \in PortfolioRecord \cup {NoFile, Broken}
  BY <1>1 DEF Copies
<1> QED
  BY <1>1, <1>2, CopiesGo

LEMMA CopiesStop ==
    ASSUME Copies, Stop
    PROVE  Copies'
<1>1. /\ cached' = NoFile /\ file' = file /\ alias' = Nobody
      /\ view' = [c \in Client |-> DefaultPortfolio]
  BY DEF Stop
<1> QED
  BY <1>1, DefaultTyped DEF Copies

LEMMA CopiesTask ==
    ASSUME Copies, NEW c \in Client, TaskStep(c),
           At(c, "reward") => TaskNow(ask[c]) \in Task
    PROVE  Copies'
<1>1. PICK t, p : t = TaskNow(ask[c]) /\ p = view[c]
  OBVIOUS
<1>2. \/ At(c, "isOpen") /\ Skip(c, IF t \in p.open THEN 1 ELSE 4)
      \/ Does(c, "mark", TRUE, [p EXCEPT !.open = @ \ {t}])
      \/ Does(c, "reward", TRUE, [p EXCEPT !.bal[RewardOf[t].key] = @ + RewardOf[t].n, !.earned[t] = @ + 1])
  BY <1>1 DEF TaskStep, TaskNow
<1>3. p \in PortfolioRecord
  BY <1>1 DEF Copies
<1>4. CASE At(c, "isOpen") /\ Skip(c, IF t \in p.open THEN 1 ELSE 4)
  BY <1>4, CopiesSkip
<1>5. CASE Does(c, "mark", TRUE, [p EXCEPT !.open = @ \ {t}])
  <2>1. [p EXCEPT !.open = @ \ {t}] \in PortfolioRecord
    BY <1>3, MarkTyped
  <2> QED
    BY <1>5, <2>1, CopiesDoes
<1>6. CASE Does(c, "reward", TRUE,
                [p EXCEPT !.bal[RewardOf[t].key] = @ + RewardOf[t].n, !.earned[t] = @ + 1])
  <2>1. t \in Task
    BY <1>1, <1>6 DEF Does
  <2>2. [p EXCEPT !.bal[RewardOf[t].key] = @ + RewardOf[t].n, !.earned[t] = @ + 1] \in PortfolioRecord
    BY <1>3, <2>1, RewardTyped
  <2> QED
    BY <1>6, <2>2, CopiesDoes
<1> QED
  BY <1>2, <1>4, <1>5, <1>6

-----------------------------------------------------------------------------
(* What is due *)

DueStarts == {"isOpen", "mark", "payDebt", "release", "redeem", "principal"}

\* The request's next step, where it is none of those that something is due to.
LEMMA NotDue ==
    ASSUME RequestInv, RewardInv, NEW c \in Client, NEW step, At(c, step), step \notin DueStarts
    PROVE  LET rest == Tail(todo[c])
           IN rest # <<>> => \A r, p : Due(Head(rest), r, p)
<1>1. todo[c] \in Seq(Step) /\ todo[c] # <<>> /\ todo[c][1] = step /\ Tasked(todo[c])
      /\ Tail(todo[c]) = SubSeq(todo[c], 1 + 1, Len(todo[c]))
  BY RewardAt
<1>2. Tail(todo[c]) # <<>> => Follows(step, Head(Tail(todo[c])))
  <2>1. 1 \in Nat /\ 1 >= 1
    OBVIOUS
  <2> QED
    BY <1>1, <2>1, RestTasked
<1> QED
  BY <1>2 DEF Follows, Due, DueStarts

LEMMA DueGo ==
    ASSUME RequestInv, Copies, DueInv, NEW c \in Client, NEW rest, NEW p, NEW owner, Go(c, rest, p, owner),
           rest # <<>> => Due(Head(rest), ask[c], p)
    PROVE  DueInv'
<1>1. /\ todo' = [todo EXCEPT ![c] = rest]
      /\ view' = [view EXCEPT ![c] = IF rest = <<>> THEN DefaultPortfolio ELSE p]
      /\ ask' = [ask EXCEPT ![c] = IF rest = <<>> THEN NoRequest ELSE @]
  BY DEF Go
<1>2. todo \in [Client -> Seq(Step)] /\ ask \in [Client -> Request \cup {NoRequest}]
      /\ view \in [Client -> PortfolioRecord]
  BY DEF RequestInv, Copies
<1>3. ASSUME NEW d \in Client, todo'[d] # <<>>
      PROVE  Due(Head(todo'[d]), ask'[d], view'[d])
  <2>1. CASE d # c
    <3>1. todo'[d] = todo[d] /\ ask'[d] = ask[d] /\ view'[d] = view[d]
      BY <1>1, <1>2, <2>1
    <3> QED
      BY <1>3, <3>1 DEF DueInv
  <2>2. CASE d = c
    <3>1. todo'[d] = rest /\ rest # <<>>
      BY <1>1, <1>2, <1>3, <2>2
    <3>2. view'[d] = p /\ ask'[d] = ask[c]
      BY <1>1, <1>2, <2>2, <3>1
    <3> QED
      BY <3>1, <3>2
  <2> QED
    BY <2>1, <2>2
<1> QED
  BY <1>3 DEF DueInv

LEMMA DueChange ==
    ASSUME RequestInv, Copies, DueInv, NEW c \in Client, NEW rest, NEW p, Change(c, rest, p),
           rest # <<>> => Due(Head(rest), ask[c], p)
    PROVE  DueInv'
BY DueGo DEF Change

LEMMA DueRefuse ==
    ASSUME RequestInv, Copies, DueInv, NEW c \in Client, Refuse(c)
    PROVE  DueInv'
BY DueChange DEF Refuse

LEMMA DueDoes ==
    ASSUME RequestInv, RewardInv, Copies, DueInv, NEW c \in Client, NEW step, step \notin DueStarts,
           NEW ok, NEW p, Does(c, step, ok, p)
    PROVE  DueInv'
<1>1. At(c, step) /\ (Change(c, Tail(todo[c]), p) \/ Refuse(c))
  BY DEF Does
<1>2. CASE Change(c, Tail(todo[c]), p)
  BY <1>1, <1>2, NotDue, DueChange
<1> QED
  BY <1>1, <1>2, DueRefuse

LEMMA DueSkip ==
    ASSUME RequestInv, RewardInv, Copies, DueInv, NEW c \in Client, NEW step, step \notin DueStarts,
           At(c, step), Skip(c, 1)
    PROVE  DueInv'
<1>1. Change(c, Tail(todo[c]), view[c])
  BY RewardAt DEF Skip
<1> QED
  BY <1>1, NotDue, DueChange

\* A step that something is due after.
LEMMA DueNext ==
    ASSUME RequestInv, RewardInv, Copies, DueInv, NEW c \in Client, NEW step, NEW ok, NEW p, Does(c, step, ok, p),
           ok => \A next : Follows(step, next) => Due(next, ask[c], p)
    PROVE  DueInv'
<1>1. At(c, step) /\ ((ok /\ Change(c, Tail(todo[c]), p)) \/ Refuse(c))
  BY DEF Does
<1>2. CASE ok /\ Change(c, Tail(todo[c]), p)
  <2>1. todo[c] \in Seq(Step) /\ todo[c] # <<>> /\ todo[c][1] = step /\ Tasked(todo[c])
        /\ Tail(todo[c]) = SubSeq(todo[c], 1 + 1, Len(todo[c]))
    BY <1>1, RewardAt
  <2>2. Tail(todo[c]) # <<>> => Follows(step, Head(Tail(todo[c])))
    <3>1. 1 \in Nat /\ 1 >= 1
      OBVIOUS
    <3> QED
      BY <2>1, <3>1, RestTasked
  <2> QED
    BY <1>2, <2>2, DueChange
<1> QED
  BY <1>1, <1>2, DueRefuse

LEMMA DueNow ==
    ASSUME RequestInv, DueInv, NEW c \in Client, NEW step, At(c, step)
    PROVE  Due(step, ask[c], view[c])
BY DEF DueInv, At

LEMMA DueLoad ==
    ASSUME RequestInv, RewardInv, Copies, DueInv, NEW c \in Client, Load(c)
    PROVE  DueInv'
<1>1. PICK p : IF p = Broken THEN Refuse(c)
               ELSE \E q \in Synced(p) :
                       Go(c, Tail(todo[c]), q, IF alias = c THEN Nobody ELSE alias)
  BY DEF Load
<1>2. At(c, "load")
  BY DEF Load
<1>3. CASE p = Broken
  BY <1>1, <1>3, DueRefuse
<1>4. CASE p # Broken
  <2>1. PICK q, o : Go(c, Tail(todo[c]), q, o)
    BY <1>1, <1>4
  <2> QED
    BY <1>2, <2>1, NotDue, DueGo DEF DueStarts
<1> QED
  BY <1>3, <1>4

LEMMA DueSave ==
    ASSUME RequestInv, RewardInv, Copies, DueInv, NEW c \in Client, Save(c)
    PROVE  DueInv'
<1>1. PICK step \in {"keep", "save", "mustSave"} : At(c, step)
  BY DEF Save
<1>2. Go(c, Tail(todo[c]), view[c], c) \/ Go(c, <<>>, view[c], c)
  BY DEF Save
<1>3. CASE Go(c, Tail(todo[c]), view[c], c)
  BY <1>1, <1>3, NotDue, DueGo DEF DueStarts
<1>4. CASE Go(c, <<>>, view[c], c)
  BY <1>4, DueGo
<1> QED
  BY <1>2, <1>3, <1>4

LEMMA DueTask ==
    ASSUME RequestInv, RewardInv, Copies, DueInv, NEW c \in Client, TaskStep(c)
    PROVE  DueInv'
<1>1. PICK t, p : t = TaskNow(ask[c]) /\ p = view[c]
  OBVIOUS
<1>2. \/ At(c, "isOpen") /\ Skip(c, IF t \in p.open THEN 1 ELSE 4)
      \/ Does(c, "mark", TRUE, [p EXCEPT !.open = @ \ {t}])
      \/ Does(c, "reward", TRUE, [p EXCEPT !.bal[RewardOf[t].key] = @ + RewardOf[t].n, !.earned[t] = @ + 1])
  BY <1>1 DEF TaskStep, TaskNow
<1>3. 1 \in Nat /\ 1 >= 1 /\ 4 \in Nat /\ 4 >= 1 /\ p.open \subseteq Task
  BY <1>1, RecordIs DEF Copies
<1>4. CASE At(c, "isOpen") /\ Skip(c, IF t \in p.open THEN 1 ELSE 4)
  <2>1. /\ todo[c] \in Seq(Step) /\ todo[c] # <<>> /\ todo[c][1] = "isOpen" /\ Tasked(todo[c])
    BY <1>4, RewardAt
  <2>2. CASE t \in p.open
    <3>1. PICK rest : rest = SubSeq(todo[c], 1 + 1, Len(todo[c]))
      OBVIOUS
    <3>2. rest # <<>> => Follows("isOpen", Head(rest))
      BY <1>3, <2>1, <3>1, RestTasked
    <3>3. rest # <<>> => Due(Head(rest), ask[c], p)
      BY <1>1, <1>3, <2>2, <3>2 DEF Follows, Due
    <3>4. Change(c, rest, p)
      BY <1>1, <1>4, <2>2, <3>1 DEF Skip
    <3> QED
      BY <3>3, <3>4, DueChange
  <2>3. CASE t \notin p.open
    <3>1. PICK rest : rest = SubSeq(todo[c], 4 + 1, Len(todo[c]))
      OBVIOUS
    <3>2. rest # <<>> => 4 < Len(todo[c]) /\ Follows(todo[c][4], Head(rest))
      BY <1>3, <2>1, <3>1, RestTasked
    <3>3. 4 < Len(todo[c]) => todo[c][4] = "save"
      <4>1. 4 < Len(todo[c]) => /\ Follows(todo[c][1], todo[c][1 + 1]) /\ Follows(todo[c][2], todo[c][2 + 1])
                                /\ Follows(todo[c][3], todo[c][3 + 1])
        BY <2>1 DEF Tasked
      <4> QED
        BY <2>1, <4>1 DEF Follows
    <3>4. rest # <<>> => Due(Head(rest), ask[c], p)
      BY <3>2, <3>3 DEF Follows, Due
    <3>5. Change(c, rest, p)
      BY <1>1, <1>4, <2>3, <3>1 DEF Skip
    <3> QED
      BY <3>4, <3>5, DueChange
  <2> QED
    BY <2>2, <2>3
<1>5. CASE Does(c, "mark", TRUE, [p EXCEPT !.open = @ \ {t}])
  <2>1. t \in Task
    BY <1>1, <1>5, DueNow DEF Does, Due
  <2> QED
    BY <1>1, <1>5, <2>1, DueNext DEF Follows, Due
<1>6. CASE Does(c, "reward", TRUE,
                [p EXCEPT !.bal[RewardOf[t].key] = @ + RewardOf[t].n, !.earned[t] = @ + 1])
  BY <1>6, DueDoes DEF DueStarts
<1> QED
  BY <1>2, <1>4, <1>5, <1>6

LEMMA DueLoan ==
    ASSUME RequestInv, RewardInv, Copies, DueInv, NEW c \in Client, LoanStep(c)
    PROVE  DueInv'
<1>1. PICK l, p : l = ask[c].loan /\ p = view[c]
  OBVIOUS
<1>2. \/ \E k, n : Pays(c, "pledge", k, n) \/ Gets(c, "borrow", k, n)
      \/ Does(c, "lent", TRUE, [p EXCEPT !.loans[l] = @ + 1])
      \/ Does(c, "payDebt", p.loans[l] > 0 /\ p.bal[l.debtKey] >= l.debt,
               [p EXCEPT !.bal[l.debtKey] = @ - l.debt])
      \/ Gets(c, "release", l.key, l.col)
      \/ Does(c, "repaid", TRUE, [p EXCEPT !.loans[l] = @ - 1])
  BY <1>1 DEF LoanStep
<1>3. ASSUME NEW k, NEW v
      PROVE  [p EXCEPT !.bal[k] = v].loans = p.loans
  BY <1>1, RecordIs DEF Copies
<1>4. CASE \E k, n : Pays(c, "pledge", k, n) \/ Gets(c, "borrow", k, n)
  BY <1>4, DueDoes DEF DueStarts, Pays, Gets
<1>5. CASE Does(c, "lent", TRUE, [p EXCEPT !.loans[l] = @ + 1])
  BY <1>5, DueDoes DEF DueStarts
<1>6. CASE Does(c, "payDebt", p.loans[l] > 0 /\ p.bal[l.debtKey] >= l.debt,
                [p EXCEPT !.bal[l.debtKey] = @ - l.debt])
  <2>1. PICK q : q = [p EXCEPT !.bal[l.debtKey] = @ - l.debt]
    OBVIOUS
  <2>2. q.loans = p.loans
    BY <1>3, <2>1
  <2>3. p.loans[l] > 0 => \A next : Follows("payDebt", next) => Due(next, ask[c], q)
    BY <1>1, <2>2 DEF Follows, Due
  <2>4. Does(c, "payDebt", p.loans[l] > 0 /\ p.bal[l.debtKey] >= l.debt, q)
    BY <1>6, <2>1
  <2> QED
    BY <2>3, <2>4, DueNext
<1>7. CASE Gets(c, "release", l.key, l.col)
  <2>1. PICK q : q = [p EXCEPT !.bal[l.key] = @ + l.col]
    OBVIOUS
  <2>2. q.loans = p.loans
    BY <1>3, <2>1
  <2>3. Does(c, "release", TRUE, q)
    BY <1>1, <1>7, <2>1 DEF Gets
  <2>4. p.loans[l] > 0
    BY <1>1, <2>3, DueNow DEF Does, Due
  <2>5. \A next : Follows("release", next) => Due(next, ask[c], q)
    BY <1>1, <2>2, <2>4 DEF Follows, Due
  <2> QED
    BY <2>3, <2>5, DueNext
<1>8. CASE Does(c, "repaid", TRUE, [p EXCEPT !.loans[l] = @ - 1])
  BY <1>8, DueDoes DEF DueStarts
<1> QED
  BY <1>2, <1>4, <1>5, <1>6, <1>7, <1>8

LEMMA DueStake ==
    ASSUME RequestInv, RewardInv, Copies, DueInv, NEW c \in Client, StakeStep(c)
    PROVE  DueInv'
<1>1. PICK s, p, r : s = ask[c].stake /\ p = view[c] /\ r = s.n + s.n \div BonusOne
  OBVIOUS
<1>2. \/ \E k, n : Pays(c, "lock", k, n) \/ Gets(c, "receipt", k, n)
      \/ Does(c, "staked", TRUE, [p EXCEPT !.stakes[s] = @ + 1])
      \/ \E unlocked \in BOOLEAN :
            Does(c, "redeem", unlocked /\ p.stakes[s] > 0 /\ p.bal[s.receipt] >= r,
                 [p EXCEPT !.bal[s.receipt] = @ - r])
      \/ \E n : Gets(c, "principal", s.key, n)
      \/ Does(c, "unstaked", TRUE, [p EXCEPT !.stakes[s] = @ - 1])
  BY <1>1 DEF StakeStep
<1>3. ASSUME NEW k, NEW v
      PROVE  [p EXCEPT !.bal[k] = v].stakes = p.stakes
  BY <1>1, RecordIs DEF Copies
<1>4. CASE \E k, n : Pays(c, "lock", k, n) \/ Gets(c, "receipt", k, n)
  BY <1>4, DueDoes DEF DueStarts, Pays, Gets
<1>5. CASE Does(c, "staked", TRUE, [p EXCEPT !.stakes[s] = @ + 1])
  BY <1>5, DueDoes DEF DueStarts
<1>6. CASE \E unlocked \in BOOLEAN :
             Does(c, "redeem", unlocked /\ p.stakes[s] > 0 /\ p.bal[s.receipt] >= r,
                  [p EXCEPT !.bal[s.receipt] = @ - r])
  <2>1. PICK q : q = [p EXCEPT !.bal[s.receipt] = @ - r]
    OBVIOUS
  <2>2. q.stakes = p.stakes
    BY <1>3, <2>1
  <2>3. p.stakes[s] > 0 => \A next : Follows("redeem", next) => Due(next, ask[c], q)
    BY <1>1, <2>2 DEF Follows, Due
  <2>4. PICK ok \in BOOLEAN : (ok => p.stakes[s] > 0) /\ Does(c, "redeem", ok, q)
    <3>1. PICK u \in BOOLEAN : Does(c, "redeem", u /\ p.stakes[s] > 0 /\ p.bal[s.receipt] >= r, q)
      BY <1>6, <2>1
    <3> WITNESS (u /\ p.stakes[s] > 0 /\ p.bal[s.receipt] >= r) \in BOOLEAN
    <3> QED
      BY <3>1
  <2> QED
    BY <2>3, <2>4, DueNext
<1>7. CASE \E n : Gets(c, "principal", s.key, n)
  <2>1. PICK n : Gets(c, "principal", s.key, n)
    BY <1>7
  <2>2. PICK q : q = [p EXCEPT !.bal[s.key] = @ + n]
    OBVIOUS
  <2>3. q.stakes = p.stakes
    BY <1>3, <2>2
  <2>4. Does(c, "principal", TRUE, q)
    BY <1>1, <2>1, <2>2 DEF Gets
  <2>5. p.stakes[s] > 0
    BY <1>1, <2>4, DueNow DEF Does, Due
  <2>6. \A next : Follows("principal", next) => Due(next, ask[c], q)
    BY <1>1, <2>3, <2>5 DEF Follows, Due
  <2> QED
    BY <2>4, <2>6, DueNext
<1>8. CASE Does(c, "unstaked", TRUE, [p EXCEPT !.stakes[s] = @ - 1])
  BY <1>8, DueDoes DEF DueStarts
<1> QED
  BY <1>2, <1>4, <1>5, <1>6, <1>7, <1>8

\* A bridge goes on to its next leg: nothing is due.
LEMMA DueLegs ==
    ASSUME RequestInv, RewardInv, Copies, DueInv, NEW c \in Client, Quote(c) \/ SecondLeg(c)
    PROVE  DueInv'
<1>1. CASE Refuse(c)
  BY <1>1, DueRefuse
<1>2. CASE ~Refuse(c)
  <2>1. /\ At(c, "quote") \/ At(c, "secondLeg")
        /\ todo' = [todo EXCEPT ![c] = Tail(@)] /\ view' = view /\ \E r : ask' = [ask EXCEPT ![c] = r]
    <3>1. CASE Quote(c)
      BY <1>2, <3>1 DEF Quote
    <3>2. CASE SecondLeg(c)
      BY <3>2 DEF SecondLeg
    <3> QED
      BY <3>1, <3>2
  <2>2. Tail(todo[c]) # <<>> => \A r, p : Due(Head(Tail(todo[c])), r, p)
    BY <2>1, NotDue DEF DueStarts
  <2>3. todo \in [Client -> Seq(Step)] /\ ask \in [Client -> Request \cup {NoRequest}]
    BY DEF RequestInv
  <2>4. ASSUME NEW d \in Client, todo'[d] # <<>>
        PROVE  Due(Head(todo'[d]), ask'[d], view'[d])
    <3>1. CASE d # c
      <4>1. todo'[d] = todo[d] /\ ask'[d] = ask[d] /\ view'[d] = view[d]
        BY <2>1, <2>3, <3>1
      <4> QED
        BY <2>4, <4>1 DEF DueInv
    <3>2. CASE d = c
      <4>1. todo'[d] = Tail(todo[c])
        BY <2>1, <2>3, <3>2
      <4> QED
        BY <2>2, <2>4, <4>1
    <3> QED
      BY <3>1, <3>2
  <2> QED
    BY <2>4 DEF DueInv
<1> QED
  BY <1>1, <1>2

LEMMA DuePool ==
    ASSUME RequestInv, RewardInv, Copies, DueInv, NEW c \in Client, PoolStep(c)
    PROVE  DueInv'
<1> USE DEF DueStarts
<1>1. CASE WorkOutSwap(c) \/ WorkOutAdd(c) \/ WorkOutRemove(c)
  <2>1. \E step, ok, m : step \in {"swap", "add", "remove"} /\ Works(c, step, ok, m)
    BY <1>1 DEF WorkOutSwap, WorkOutAdd, WorkOutRemove
  <2> QED
    BY <2>1, DueSkip, DueRefuse DEF Works
<1>2. CASE Quote(c) \/ SecondLeg(c)
  BY <1>2, DueLegs
<1>3. CASE Update(c) \/ SeedPools(c)
  BY <1>3, DueSkip DEF Update, SeedPools
<1>4. CASE Reseed(c)
  <2>1. At(c, "reseed") /\ (Skip(c, 1) \/ Skip(c, 2))
    BY <1>4 DEF Reseed
  <2>2. CASE Skip(c, 2)
    <3>1. todo[c] \in Seq(Step) /\ todo[c] # <<>> /\ todo[c][1] = "reseed" /\ Tasked(todo[c])
      BY <2>1, RewardAt
    <3>2. PICK rest : rest = SubSeq(todo[c], 2 + 1, Len(todo[c]))
      OBVIOUS
    <3>3. 2 \in Nat /\ 2 >= 1
      OBVIOUS
    <3>4. rest # <<>> => 2 < Len(todo[c]) /\ Follows(todo[c][2], Head(rest))
      BY <3>1, <3>2, <3>3, RestTasked
    <3>5. rest # <<>> => todo[c][2] = "seedPools"
      <4>1. 2 < Len(todo[c]) => Follows(todo[c][1], todo[c][1 + 1])
        BY <3>1 DEF Tasked
      <4> QED
        BY <3>1, <3>4, <4>1 DEF Follows
    <3>6. rest # <<>> => Due(Head(rest), ask[c], view[c])
      BY <3>4, <3>5 DEF Follows, Due
    <3>7. Change(c, rest, view[c])
      BY <2>2, <3>2 DEF Skip
    <3> QED
      BY <3>6, <3>7, DueChange
  <2> QED
    BY <2>1, <2>2, DueSkip
<1>5. CASE GiveStarter(c)
  BY <1>5, DueDoes DEF GiveStarter
<1>6. CASE \E step, k, n : /\ step \in {"pay0", "pay1", "get0", "get1", "burn", "shares"}
                            /\ (Pays(c, step, k, n) \/ Gets(c, step, k, n))
  BY <1>6, DueDoes DEF Pays, Gets
<1> QED
  BY <1>1, <1>2, <1>3, <1>4, <1>5, <1>6 DEF PoolStep

LEMMA DueTransfer ==
    ASSUME RequestInv, RewardInv, Copies, DueInv, NEW c \in Client, Transfer(c)
    PROVE  DueInv'
BY DueDoes DEF Transfer, Pays, Gets, DueStarts

LEMMA DueBegin ==
    ASSUME RequestInv, DueInv, NEW c \in Client, Begin(c)
    PROVE  DueInv'
<1>1. PICK r \in Requests : ask' = [ask EXCEPT ![c] = r] /\ todo' = [todo EXCEPT ![c] = Program(r.op)]
  BY DEF Begin
<1>2. view' = view /\ todo \in [Client -> Seq(Step)] /\ ask \in [Client -> Request \cup {NoRequest}]
  BY DEF Begin, RequestInv
<1>3. Closed(Program(r.op))
  BY ClosedProgram
<1>4. \A q, p : Due(Head(Program(r.op)), q, p)
  BY <1>3 DEF Closed, Due
<1> QED
  BY <1>1, <1>2, <1>4 DEF DueInv

LEMMA DueStop ==
    ASSUME Stop
    PROVE  DueInv'
BY DEF Stop, DueInv

-----------------------------------------------------------------------------
(* What a request has worked out *)

LEMMA SidesAre ==
    ASSUME NEW r, r \in Request, OfTokens(r)
    PROVE  r.pair[1] \in Key /\ r.pair[2] \in Key /\ SideIn(r) \in Key /\ SideOut(r) \in Key
<1>1. r.pair[1] \in Token /\ r.pair[2] \in Token /\ r.side \in {0, 1}
  BY DEF OfTokens, Request
<1>2. r.side = 0 => SideIn(r) = r.pair[1] /\ SideOut(r) = r.pair[2]
  BY DEF SideIn, SideOut
<1>3. r.side = 1 => SideIn(r) = r.pair[2] /\ SideOut(r) = r.pair[1]
  BY DEF SideIn, SideOut
<1> QED
  BY <1>1, <1>2, <1>3 DEF Key

LEMMA PaidNat ==
    ASSUME NEW p, Good(p), NEW n \in Nat
    PROVE  Paid0(p, n) \in Nat /\ Paid1(p, n) \in Nat
<1>1. Burnt(p, n) \in Nat /\ p.r0 \in Nat /\ p.r1 \in Nat /\ p.shares \in Nat /\ p.shares > 0
  BY DEF Good, PoolRecord, Burnt
<1>2. PICK b, x, y, s : b = Burnt(p, n) /\ x = p.r0 /\ y = p.r1 /\ s = p.shares
  OBVIOUS
<1>3. b * x \in Nat /\ b * y \in Nat /\ s \in Nat /\ s > 0
  BY <1>1, <1>2, ProductNat
<1>4. (b * x) \div s \in Nat /\ (b * y) \div s \in Nat
  BY <1>3, RoundsDown
<1> QED
  BY <1>2, <1>4 DEF Paid0, Paid1

LEMMA MineGo ==
    ASSUME RequestInv, MineInv, NEW c \in Client, todo[c] # <<>>, NEW rest, NEW p, NEW owner,
           Go(c, rest, p, owner), mine' \in [Client -> MineRecord]
    PROVE  MineInv'
<1>1. /\ todo' = [todo EXCEPT ![c] = rest]
      /\ ask' = [ask EXCEPT ![c] = IF rest = <<>> THEN NoRequest ELSE @]
  BY DEF Go
<1>2. todo \in [Client -> Seq(Step)] /\ ask \in [Client -> Request \cup {NoRequest}]
  BY DEF RequestInv
<1>3. ASSUME NEW d \in Client, todo'[d] # <<>>
      PROVE  OfTokens(ask'[d])
  <2>1. ask'[d] = ask[d] /\ todo[d] # <<>>
    BY <1>1, <1>2, <1>3
  <2> QED
    BY <2>1 DEF MineInv
<1> QED
  BY <1>3 DEF MineInv

LEMMA MineWorks ==
    ASSUME RequestInv, MineInv, NEW c \in Client, NEW step, NEW ok, NEW m, Works(c, step, ok, m),
           ok => m \in MineRecord
    PROVE  MineInv'
<1>1. todo[c] # <<>>
  BY DEF Works, At
<1>2. CASE ok
  <2>1. mine' \in [Client -> MineRecord]
    BY <1>2 DEF Works, MineInv
  <2> QED
    BY <1>1, <1>2, <2>1, MineGo DEF Works, Skip, Change
<1>3. CASE ~ok
  <2>1. mine' \in [Client -> MineRecord]
    BY <1>3 DEF Works, MineInv
  <2> QED
    BY <1>1, <1>3, <2>1, MineGo DEF Works, Refuse, Change
<1> QED
  BY <1>2, <1>3

LEMMA MineAsks ==
    ASSUME RequestInv, MineInv, NEW c \in Client, todo[c] # <<>>
    PROVE  /\ ask[c] \in Request /\ OfTokens(ask[c]) /\ ask[c].pair \in Pair
           /\ ask[c].side \in {0, 1} /\ ask[c].n \in Nat /\ ask[c].m \in Nat
BY DEF RequestInv, MineInv, Request

LEMMA MineSwap ==
    ASSUME PoolInv, MineInv, NEW c \in Client, WorkOutSwap(c)
    PROVE  MineInv'
<1> DEFINE r == ask[c]
           p == pools[r.pair]
           m == [pair |-> r.pair, pool |-> Swapped(p, r.side, r.n), key0 |-> SideIn(r), n0 |-> r.n,
                 key1 |-> SideOut(r), n1 |-> AmountOut(p, r.side, r.n), shares |-> 0]
<1>1. r \in Request /\ OfTokens(r) /\ r.pair \in Pair /\ r.side \in {0, 1} /\ r.n \in Nat
  BY MineAsks DEF WorkOutSwap, Works, At, PoolInv
<1>2. ASSUME p # NoPool, CanSwap(p, r.side, r.n)
      PROVE  m \in MineRecord
  <2>1. Good(p)
    BY <1>1, <1>2 DEF PoolInv, PoolsKept, Worthy
  <2>2. Swapped(p, r.side, r.n) \in PoolRecord /\ AmountOut(p, r.side, r.n) \in Nat
    BY <1>1, <1>2, <2>1, SwapKeepsWorth, AmountOutNat DEF Good
  <2> QED
    BY <1>1, <2>2, SidesAre DEF MineRecord
<1> QED
  BY <1>2, MineWorks DEF WorkOutSwap, PoolInv

LEMMA MineAdd ==
    ASSUME PoolInv, MineInv, NEW c \in Client, WorkOutAdd(c)
    PROVE  MineInv'
<1> DEFINE r == ask[c]
           new == pools[r.pair] = NoPool
           p == IF new THEN Empty ELSE pools[r.pair]
           turned == r.side = 1
           a0 == IF new /\ turned THEN r.m ELSE r.n
           a1 == IF new /\ turned THEN r.n ELSE r.m
           k0 == IF ~new /\ turned THEN r.pair[2] ELSE r.pair[1]
           k1 == IF ~new /\ turned THEN r.pair[1] ELSE r.pair[2]
           m == [pair |-> r.pair, pool |-> Added(p, a0, a1), key0 |-> k0, n0 |-> a0, key1 |-> k1, n1 |-> a1,
                 shares |-> Minted(p, a0, a1)]
<1>1. r \in Request /\ OfTokens(r) /\ r.pair \in Pair /\ r.n \in Nat /\ r.m \in Nat
  BY MineAsks DEF WorkOutAdd, Works, At, PoolInv
<1>2. a0 \in Nat /\ a1 \in Nat /\ k0 \in Key /\ k1 \in Key
  BY <1>1, SidesAre
<1>3. ASSUME CanAdd(p, a0, a1)
      PROVE  m \in MineRecord
  <2> HIDE DEF a0, a1, k0, k1
  <2>1. Good(Added(p, a0, a1)) /\ Minted(p, a0, a1) \in Nat
    <3>1. CASE new
      BY <1>1, <1>2, <1>3, <3>1, NewPoolWorthy DEF Worthy
    <3>2. CASE ~new
      <4>1. p = pools[r.pair] /\ Good(p)
        BY <1>1, <3>2 DEF PoolInv, PoolsKept, Worthy
      <4> QED
        BY <1>2, <4>1, AddKeepsWorth
    <3> QED
      BY <3>1, <3>2
  <2> QED
    BY <1>1, <1>2, <2>1 DEF MineRecord, Good
<1> QED
  BY <1>3, MineWorks DEF WorkOutAdd, PoolInv

LEMMA MineRemove ==
    ASSUME PoolInv, MineInv, NEW c \in Client, WorkOutRemove(c)
    PROVE  MineInv'
<1> DEFINE r == ask[c]
           p == pools[r.pair]
           m == [pair |-> r.pair, pool |-> Removed(p, r.n), key0 |-> r.pair[1], n0 |-> Paid0(p, r.n),
                 key1 |-> r.pair[2], n1 |-> Paid1(p, r.n), shares |-> r.n]
<1>1. r \in Request /\ OfTokens(r) /\ r.pair \in Pair /\ r.n \in Nat
  BY MineAsks DEF WorkOutRemove, Works, At, PoolInv
<1>2. ASSUME p # NoPool, CanRemove(p, r.n)
      PROVE  m \in MineRecord
  <2>1. Good(p)
    BY <1>1, <1>2 DEF PoolInv, PoolsKept, Worthy
  <2>2. Removed(p, r.n) \in PoolRecord /\ Paid0(p, r.n) \in Nat /\ Paid1(p, r.n) \in Nat
    BY <1>1, <1>2, <2>1, RemoveKeepsWorth, PaidNat DEF Good
  <2> QED
    BY <1>1, <2>2, SidesAre DEF MineRecord
<1> QED
  BY <1>2, MineWorks DEF WorkOutRemove, PoolInv

LEMMA MineLegs ==
    ASSUME RequestInv, MineInv, NEW c \in Client, Quote(c) \/ SecondLeg(c)
    PROVE  MineInv'
<1>1. todo[c] # <<>> /\ mine' = mine
  BY DEF Quote, SecondLeg, At, poolVars
<1>2. CASE Refuse(c)
  BY <1>1, <1>2, MineGo DEF Refuse, Change, MineInv
<1>3. CASE ~Refuse(c)
  <2>1. ask[c] \in Request /\ OfTokens(ask[c])
    BY <1>1, MineAsks
  <2>2. todo' = [todo EXCEPT ![c] = Tail(@)] /\ \E r : OfTokens(r) /\ ask' = [ask EXCEPT ![c] = r]
    <3>1. CASE Quote(c)
      <4>1. PICK m : todo' = [todo EXCEPT ![c] = Tail(@)] /\ ask' = [ask EXCEPT ![c].m = m]
        BY <1>3, <3>1 DEF Quote
      <4>2. OfTokens([ask[c] EXCEPT !.m = m])
        BY <2>1 DEF OfTokens, Request
      <4> QED
        BY <4>1, <4>2
    <3>2. CASE SecondLeg(c)
      <4>1. PICK side : /\ todo' = [todo EXCEPT ![c] = Tail(@)]
                        /\ ask' = [ask EXCEPT ![c] = [ask[c] EXCEPT !.pair = ask[c].next, !.n = ask[c].m,
                                                                    !.side = side]]
        BY <3>2 DEF SecondLeg
      <4>2. OfTokens([ask[c] EXCEPT !.pair = ask[c].next, !.n = ask[c].m, !.side = side])
        BY <2>1 DEF OfTokens, Request
      <4> QED
        BY <4>1, <4>2
    <3> QED
      BY <3>1, <3>2
  <2>3. todo \in [Client -> Seq(Step)] /\ ask \in [Client -> Request \cup {NoRequest}]
    BY DEF RequestInv
  <2>4. ASSUME NEW d \in Client, todo'[d] # <<>>
        PROVE  OfTokens(ask'[d])
    <3>1. CASE d # c
      BY <2>2, <2>3, <2>4, <3>1 DEF MineInv
    <3>2. CASE d = c
      BY <2>2, <2>3, <3>2
    <3> QED
      BY <3>1, <3>2
  <2> QED
    BY <1>1, <2>4 DEF MineInv
<1> QED
  BY <1>2, <1>3

\* A step that is none of a pool's.
LEMMA MineStays ==
    ASSUME RequestInv, MineInv, NEW c \in Client, todo[c] # <<>>, UNCHANGED mine,
           \E rest, p, owner : Go(c, rest, p, owner)
    PROVE  MineInv'
BY MineGo DEF MineInv

LEMMA MineDoes ==
    ASSUME RequestInv, MineInv, NEW c \in Client, NEW step, NEW ok, NEW p, Does(c, step, ok, p)
    PROVE  MineInv'
BY MineStays DEF Does, At, Change, Refuse, poolVars

LEMMA MinePool ==
    ASSUME PoolInv, MineInv, NEW c \in Client, PoolStep(c)
    PROVE  MineInv'
<1>1. RequestInv
  BY DEF PoolInv
<1>2. CASE WorkOutSwap(c) \/ WorkOutAdd(c) \/ WorkOutRemove(c)
  BY <1>2, MineSwap, MineAdd, MineRemove
<1>3. CASE Quote(c) \/ SecondLeg(c)
  BY <1>1, <1>3, MineLegs
<1>4. CASE Update(c) \/ SeedPools(c) \/ Reseed(c)
  BY <1>1, <1>4, MineStays DEF Update, SeedPools, Reseed, Skip, Change, At, poolVars
<1>5. CASE GiveStarter(c)
  BY <1>1, <1>5, MineDoes DEF GiveStarter
<1>6. CASE \E step, k, n : Pays(c, step, k, n) \/ Gets(c, step, k, n)
  BY <1>1, <1>6, MineDoes DEF Pays, Gets
<1> QED
  BY <1>2, <1>3, <1>4, <1>5, <1>6 DEF PoolStep

LEMMA MineOther ==
    ASSUME RequestInv, MineInv, NEW c \in Client,
           Load(c) \/ Save(c) \/ Transfer(c) \/ TaskStep(c) \/ LoanStep(c) \/ StakeStep(c)
    PROVE  MineInv'
<1>1. CASE Load(c)
  BY <1>1, MineStays DEF Load, At, Refuse, Change, poolVars
<1>2. CASE Save(c)
  BY <1>2, MineStays DEF Save, At, poolVars
<1>3. CASE Transfer(c)
  BY <1>3, MineDoes DEF Transfer, Pays, Gets
<1>4. CASE TaskStep(c)
  <2>1. (\E step, ok, p : Does(c, step, ok, p)) \/ (At(c, "isOpen") /\ (\E n : Skip(c, n)) /\ UNCHANGED poolVars)
    BY <1>4 DEF TaskStep
  <2> QED
    BY <2>1, MineDoes, MineStays DEF Skip, Change, At, poolVars
<1>5. CASE LoanStep(c)
  BY <1>5, MineDoes DEF LoanStep, Pays, Gets
<1>6. CASE StakeStep(c)
  BY <1>6, MineDoes DEF StakeStep, Pays, Gets
<1> QED
  BY <1>1, <1>2, <1>3, <1>4, <1>5, <1>6

LEMMA NothingMineTyped ==
    ASSUME Pair # {}
    PROVE  NothingMine \in MineRecord
<1>1. (CHOOSE q \in Pair : TRUE) \in Pair
  OBVIOUS
<1>2. Empty \in PoolRecord /\ Onex \in Key
  BY PortfolioAssumed DEF PortfolioAssumption, Empty, PoolRecord, Key
<1> QED
  BY <1>1, <1>2 DEF NothingMine, MineRecord

LEMMA MineBegin ==
    ASSUME Pair # {}, RequestInv, MineInv, NEW c \in Client, Begin(c)
    PROVE  MineInv'
<1>1. PICK r \in Requests : ask' = [ask EXCEPT ![c] = r] /\ todo' = [todo EXCEPT ![c] = Program(r.op)]
  BY DEF Begin
<1>2. OfTokens(r)
  BY PortfolioAssumed DEF PortfolioAssumption, OfTokens
<1>3. todo \in [Client -> Seq(Step)] /\ ask \in [Client -> Request \cup {NoRequest}]
  BY DEF RequestInv
<1>4. mine' \in [Client -> MineRecord]
  BY NothingMineTyped DEF Begin, MineInv
<1> QED
  BY <1>1, <1>2, <1>3, <1>4 DEF MineInv

LEMMA MineStop ==
    ASSUME Pair # {}, Stop
    PROVE  MineInv'
BY NothingMineTyped DEF Stop, MineInv

-----------------------------------------------------------------------------
(* What is credited is an amount, and what is taken was there *)

LEMMA CopiesPool ==
    ASSUME PoolInv, MineInv, Copies, NEW c \in Client, PoolStep(c)
    PROVE  Copies'
<1>1. mine[c].n0 \in Nat /\ mine[c].n1 \in Nat /\ mine[c].shares \in Nat
  BY DEF MineInv, MineRecord
<1>2. CASE WorkOutSwap(c) \/ WorkOutAdd(c) \/ WorkOutRemove(c)
  <2>1. \E n : Skip(c, n) \/ Refuse(c)
    BY <1>2 DEF WorkOutSwap, WorkOutAdd, WorkOutRemove, Works
  <2> QED
    BY <2>1, CopiesSkip
<1>3. CASE Quote(c) \/ SecondLeg(c)
  <2>1. Refuse(c) \/ UNCHANGED <<cached, file, alias, view>>
    BY <1>3 DEF Quote, SecondLeg
  <2> QED
    BY <2>1, CopiesSkip DEF Copies
<1>4. CASE Update(c) \/ Reseed(c) \/ SeedPools(c)
  BY <1>4, CopiesSkip DEF Update, Reseed, SeedPools
<1>5. CASE GiveStarter(c)
  <2>1. PICK ok, b : /\ b = [k \in Key |-> IF view[c].bal[k] = 0 THEN Starter[k] ELSE view[c].bal[k]]
                     /\ Does(c, "starter", ok, [view[c] EXCEPT !.bal = b])
    BY <1>5 DEF GiveStarter
  <2>2. view[c] \in PortfolioRecord /\ view[c].bal \in [Key -> Nat] /\ Starter \in [Key -> Nat]
    BY RecordIs, PortfolioAssumed DEF Copies, PortfolioAssumption, Amounts
  <2>3. b \in [Key -> Nat]
    BY <2>1, <2>2
  <2>4. [view[c] EXCEPT !.bal = b] \in PortfolioRecord
    BY <2>2, <2>3, BalTyped
  <2> QED
    BY <2>1, <2>4, CopiesDoes
<1>6. CASE Pays(c, "pay0", mine[c].key0, mine[c].n0) \/ Pays(c, "pay1", mine[c].key1, mine[c].n1)
  BY <1>1, <1>6, CopiesPays
<1>7. CASE Gets(c, "get0", mine[c].key0, mine[c].n0) \/ Gets(c, "get1", mine[c].key1, mine[c].n1)
  BY <1>1, <1>7, CopiesPays
<1>8. CASE Pays(c, "burn", ask[c].pair, mine[c].shares) \/ Gets(c, "shares", ask[c].pair, mine[c].shares)
  BY <1>1, <1>8, CopiesPays
<1> QED
  BY <1>2, <1>3, <1>4, <1>5, <1>6, <1>7, <1>8 DEF PoolStep

LEMMA CopiesTransfer ==
    ASSUME RequestInv, MineInv, Copies, NEW c \in Client, Transfer(c)
    PROVE  Copies'
<1>1. todo[c] # <<>>
  BY DEF Transfer, Pays, Gets, Does, At
<1>2. ask[c].n \in Nat /\ ask[c].m \in Nat
  BY <1>1, MineAsks
<1>3. CASE Pays(c, "pay", ask[c].key, ask[c].n) \/ Gets(c, "get", ask[c].to, ask[c].m)
  BY <1>2, <1>3, CopiesPays
<1>4. CASE Does(c, "refuse", FALSE, view[c])
  BY <1>4, CopiesDoes
<1> QED
  BY <1>3, <1>4 DEF Transfer

LEMMA CopiesLoan ==
    ASSUME RequestInv, DueInv, Copies, NEW c \in Client, LoanStep(c)
    PROVE  Copies'
<1>1. PICK l, p : l = ask[c].loan /\ p = view[c]
  OBVIOUS
<1>2. todo[c] # <<>>
  BY DEF LoanStep, Pays, Gets, Does, At
<1>3. l \in Loan /\ l \in LoanTerms
  BY <1>1, <1>2, PortfolioAssumed DEF RequestInv, Request, PortfolioAssumption
<1>4. l.col \in Nat /\ l.debt \in Nat /\ (IF l.kind = "borrow" THEN l.debt ELSE 0) \in Nat
  BY <1>3 DEF LoanTerms
<1>5. p \in PortfolioRecord /\ p.loans[l] \in Nat
  BY <1>1, <1>3, RecordIs DEF Copies
<1>6. CASE Pays(c, "pledge", l.key, l.col) \/ Gets(c, "release", l.key, l.col)
           \/ Gets(c, "borrow", l.debtKey, IF l.kind = "borrow" THEN l.debt ELSE 0)
  BY <1>4, <1>6, CopiesPays
<1>7. CASE Does(c, "lent", TRUE, [p EXCEPT !.loans[l] = @ + 1])
  <2>1. [p EXCEPT !.loans[l] = @ + 1] \in PortfolioRecord
    <3>1. p.loans[l] + 1 \in Nat
      BY <1>5
    <3> QED
      BY <1>5, <3>1, TermsTyped
  <2> QED
    BY <1>7, <2>1, CopiesDoes
<1>8. CASE Does(c, "payDebt", p.loans[l] > 0 /\ p.bal[l.debtKey] >= l.debt,
                [p EXCEPT !.bal[l.debtKey] = @ - l.debt])
  <2>1. p.bal[l.debtKey] >= l.debt => [p EXCEPT !.bal[l.debtKey] = @ - l.debt] \in PortfolioRecord
    <3>1. p.bal[l.debtKey] >= l.debt => (l.debtKey \in Key => p.bal[l.debtKey] - l.debt \in Nat)
      BY <1>4, <1>5, RecordIs
    <3> QED
      BY <1>5, <3>1, BalanceTyped
  <2> QED
    BY <1>8, <2>1, CopiesDoes
<1>9. CASE Does(c, "repaid", TRUE, [p EXCEPT !.loans[l] = @ - 1])
  <2>1. p.loans[l] > 0
    BY <1>1, <1>9, DueNow DEF Does, Due
  <2>2. [p EXCEPT !.loans[l] = @ - 1] \in PortfolioRecord
    <3>1. p.loans[l] - 1 \in Nat
      BY <1>5, <2>1
    <3> QED
      BY <1>5, <3>1, TermsTyped
  <2> QED
    BY <1>9, <2>2, CopiesDoes
<1> QED
  BY <1>1, <1>6, <1>7, <1>8, <1>9 DEF LoanStep

LEMMA CopiesStake ==
    ASSUME RequestInv, DueInv, Copies, NEW c \in Client, StakeStep(c)
    PROVE  Copies'
<1>1. PICK s, p, r : s = ask[c].stake /\ p = view[c] /\ r = s.n + s.n \div BonusOne
  OBVIOUS
<1>2. todo[c] # <<>>
  BY DEF StakeStep, Pays, Gets, Does, At
<1>3. s \in Stake /\ s \in StakeTerms
  BY <1>1, <1>2, PortfolioAssumed DEF RequestInv, Request, PortfolioAssumption
<1>4. s.n \in Nat /\ r \in Nat
  <2>1. s.n \in Nat /\ BonusOne \in Nat \ {0}
    BY <1>3, PortfolioAssumed DEF StakeTerms, PortfolioAssumption
  <2>2. s.n \div BonusOne \in Nat
    BY <2>1, RoundsDown
  <2> QED
    BY <1>1, <2>1, <2>2
<1>5. p \in PortfolioRecord /\ p.stakes[s] \in Nat
  BY <1>1, <1>3, RecordIs DEF Copies
<1>6. CASE Pays(c, "lock", s.key, s.n) \/ Gets(c, "receipt", s.receipt, r)
  BY <1>4, <1>6, CopiesPays
<1>7. CASE Does(c, "staked", TRUE, [p EXCEPT !.stakes[s] = @ + 1])
  <2>1. [p EXCEPT !.stakes[s] = @ + 1] \in PortfolioRecord
    <3>1. p.stakes[s] + 1 \in Nat
      BY <1>5
    <3> QED
      BY <1>5, <3>1, TermsTyped
  <2> QED
    BY <1>7, <2>1, CopiesDoes
<1>8. CASE \E unlocked \in BOOLEAN :
             Does(c, "redeem", unlocked /\ p.stakes[s] > 0 /\ p.bal[s.receipt] >= r,
                  [p EXCEPT !.bal[s.receipt] = @ - r])
  <2>1. p.bal[s.receipt] >= r => [p EXCEPT !.bal[s.receipt] = @ - r] \in PortfolioRecord
    <3>1. p.bal[s.receipt] >= r => (s.receipt \in Key => p.bal[s.receipt] - r \in Nat)
      BY <1>4, <1>5, RecordIs
    <3> QED
      BY <1>5, <3>1, BalanceTyped
  <2>2. PICK unlocked \in BOOLEAN :
             Does(c, "redeem", unlocked /\ p.stakes[s] > 0 /\ p.bal[s.receipt] >= r,
                  [p EXCEPT !.bal[s.receipt] = @ - r])
    BY <1>8
  <2> QED
    BY <2>1, <2>2, CopiesDoes
<1>9. CASE \E reward \in {0, 1} : Gets(c, "principal", s.key, s.n + reward)
  <2>1. PICK reward \in {0, 1} : Gets(c, "principal", s.key, s.n + reward)
    BY <1>9
  <2>2. s.n + reward \in Nat
    BY <1>4
  <2> QED
    BY <2>1, <2>2, CopiesPays
<1>10. CASE Does(c, "unstaked", TRUE, [p EXCEPT !.stakes[s] = @ - 1])
  <2>1. p.stakes[s] > 0
    BY <1>1, <1>10, DueNow DEF Does, Due
  <2>2. [p EXCEPT !.stakes[s] = @ - 1] \in PortfolioRecord
    <3>1. p.stakes[s] - 1 \in Nat
      BY <1>5, <2>1
    <3> QED
      BY <1>5, <3>1, TermsTyped
  <2> QED
    BY <1>10, <2>2, CopiesDoes
<1> QED
  BY <1>1, <1>6, <1>7, <1>8, <1>9, <1>10 DEF StakeStep

-----------------------------------------------------------------------------

TypeInv == Copies /\ DueInv /\ MineInv

LEMMA TypeInit ==
    ASSUME Pair # {}
    PROVE  Init => TypeInv
<1>1. Init => Copies
  BY DefaultTyped DEF Init, Copies
<1>2. Init => DueInv
  BY DEF Init, DueInv
<1>3. Init => MineInv
  BY NothingMineTyped DEF Init, MineInv
<1> QED
  BY <1>1, <1>2, <1>3 DEF TypeInv

LEMMA TypeStep ==
    ASSUME PoolInv, RewardInv, TypeInv, NEW c \in Client, PortfolioStep(c)
    PROVE  TypeInv'
<1>1. RequestInv /\ Copies /\ DueInv /\ MineInv
  BY DEF PoolInv, TypeInv
<1>2. CASE Load(c)
  BY <1>1, <1>2, CopiesLoad, DueLoad, MineOther DEF TypeInv
<1>3. CASE Save(c)
  BY <1>1, <1>3, CopiesSave, DueSave, MineOther DEF TypeInv
<1>4. CASE PoolStep(c)
  BY <1>1, <1>4, CopiesPool, DuePool, MinePool DEF TypeInv
<1>5. CASE Transfer(c)
  BY <1>1, <1>5, CopiesTransfer, DueTransfer, MineOther DEF TypeInv
<1>6. CASE TaskStep(c)
  <2>1. At(c, "reward") => TaskNow(ask[c]) \in Task
    BY <1>1, DueNow DEF Due
  <2> QED
    BY <1>1, <1>6, <2>1, CopiesTask, DueTask, MineOther DEF TypeInv
<1>7. CASE LoanStep(c)
  BY <1>1, <1>7, CopiesLoan, DueLoan, MineOther DEF TypeInv
<1>8. CASE StakeStep(c)
  BY <1>1, <1>8, CopiesStake, DueStake, MineOther DEF TypeInv
<1> QED
  BY <1>2, <1>3, <1>4, <1>5, <1>6, <1>7, <1>8 DEF PortfolioStep

LEMMA TypeNext ==
    ASSUME Pair # {}
    PROVE  PoolInv /\ RewardInv /\ TypeInv /\ [PortfolioNext]_portVars => TypeInv'
<1> SUFFICES ASSUME PoolInv, RewardInv, TypeInv, [PortfolioNext]_portVars PROVE TypeInv'
  OBVIOUS
<1>1. RequestInv /\ Copies /\ DueInv /\ MineInv
  BY DEF PoolInv, TypeInv
<1>2. ASSUME NEW c \in Client, Begin(c) PROVE TypeInv'
  <2>1. Copies'
    BY <1>1, <1>2 DEF Begin, Copies
  <2> QED
    BY <1>1, <1>2, <2>1, DueBegin, MineBegin DEF TypeInv
<1>3. ASSUME NEW c \in Client, PortfolioStep(c) PROVE TypeInv'
  BY <1>3, TypeStep
<1>4. CASE Stop
  BY <1>1, <1>4, CopiesStop, DueStop, MineStop DEF TypeInv
<1>5. CASE UNCHANGED portVars
  BY <1>5 DEF portVars, TypeInv, Copies, DueInv, MineInv
<1> QED
  BY <1>2, <1>3, <1>4, <1>5 DEF PortfolioNext

\* In every copy of the portfolio every balance is an amount, and no loan is
\* repaid or stake returned that is not there: a step looks at the copy it then
\* changes (portfolio.go, SubBalance), so nothing is overdrawn, however requests
\* overlap and whatever fails.
THEOREM PortfolioTypes ==
    ASSUME Pair # {}
    PROVE  PortfolioSpec => []PortfolioTypeOK
<1>1. PoolInv /\ TypeInv => PortfolioTypeOK
  BY DEF PoolInv, PoolsKept, RequestInv, TypeInv, Copies, MineInv, MineRecord, PortfolioTypeOK, PoolFile
<1>2. PoolInv => RequestInv
  BY DEF PoolInv
<1> QED
  BY <1>1, <1>2, TypeInit, TypeNext, RewardInit, RewardNext, PoolInvariant, PTL DEF PortfolioSpec
-----------------------------------------------------------------------------
(* What there is of a token, and how a step changes it *)

LEMMA OnInt ==
    ASSUME NEW k, NEW n \in Int, NEW t
    PROVE  On(k, n, t) \in Int
BY DEF On

LEMMA ReserveInt ==
    ASSUME NEW p \in PoolRecord \cup {NoPool}, NEW q, NEW t
    PROVE  Reserve(p, q, t) \in Int
<1>1. CASE p = NoPool
  BY <1>1 DEF Reserve
<1>2. CASE p # NoPool
  <2>1. p.r0 \in Int /\ p.r1 \in Int
    BY <1>2 DEF PoolRecord
  <2>2. On(q[1], p.r0, t) \in Int /\ On(q[2], p.r1, t) \in Int
    BY <2>1, OnInt
  <2> QED
    BY <1>2, <2>2 DEF Reserve
<1> QED
  BY <1>1, <1>2

LEMMA LoanIs ==
    ASSUME NEW l \in Loan
    PROVE  l.col \in Nat /\ l.debt \in Nat
BY PortfolioAssumed DEF PortfolioAssumption, LoanTerms

LEMMA LoanWorthInt ==
    ASSUME NEW l \in Loan, NEW t
    PROVE  LoanWorth(l, t) \in Int
<1>1. On(l.key, l.col, t) \in Int /\ On(l.debtKey, l.debt, t) \in Int
  BY LoanIs, OnInt
<1> QED
  BY <1>1 DEF LoanWorth

Reserves(ps, t) == [q \in Pair |-> Reserve(ps[q], q, t)]
LoansWorth(n, t) == [l \in Loan |-> n[l] * LoanWorth(l, t)]

LEMMA HoldingInt ==
    ASSUME BackedAssumption, NEW p \in PortfolioRecord, NEW ps \in PoolFile, NEW t \in Token
    PROVE  /\ p.bal[t] \in Int /\ Holding(p, ps, t) \in Int
           /\ SumFunctionOnSet(Reserves(ps, t), Pair) \in Int
           /\ SumFunctionOnSet(LoansWorth(p.loans, t), Loan) \in Int
           /\ Holding(p, ps, t) = p.bal[t] + SumFunctionOnSet(Reserves(ps, t), Pair)
                                  + SumFunctionOnSet(LoansWorth(p.loans, t), Loan)
<1>1. p.bal[t] \in Nat /\ \A l \in Loan : p.loans[l] \in Nat
  BY RecordIs DEF Key
<1>2. \A q \in Pair : Reserves(ps, t)[q] \in Int
  BY ReserveInt DEF Reserves, PoolFile
<1>3. \A l \in Loan : LoansWorth(p.loans, t)[l] \in Int
  BY <1>1, LoanWorthInt DEF LoansWorth
<1>4. /\ SumFunctionOnSet(Reserves(ps, t), Pair) \in Int
      /\ SumFunctionOnSet(LoansWorth(p.loans, t), Loan) \in Int
  BY <1>2, <1>3, SumInt DEF BackedAssumption
<1>5. Holding(p, ps, t) = p.bal[t] + SumFunctionOnSet(Reserves(ps, t), Pair)
                          + SumFunctionOnSet(LoansWorth(p.loans, t), Loan)
  BY DEF Holding, Reserves, LoansWorth
<1> QED
  BY <1>1, <1>4, <1>5

\* Only the balances change.
LEMMA HoldingOfBalance ==
    ASSUME BackedAssumption, NEW p \in PortfolioRecord, NEW q \in PortfolioRecord, p.loans = q.loans,
           NEW ps \in PoolFile, NEW t \in Token
    PROVE  Holding(q, ps, t) = Holding(p, ps, t) - p.bal[t] + q.bal[t]
BY HoldingInt

\* One pool changes.
LEMMA HoldingOfPool ==
    ASSUME BackedAssumption, NEW p \in PortfolioRecord, NEW ps \in PoolFile, NEW x \in Pair,
           NEW v \in PoolRecord, NEW t \in Token
    PROVE  LET after == [ps EXCEPT ![x] = v]
           IN  /\ after \in PoolFile
               /\ Holding(p, after, t) = Holding(p, ps, t) - Reserve(ps[x], x, t) + Reserve(v, x, t)
<1> DEFINE after == [ps EXCEPT ![x] = v]
<1>1. after \in PoolFile /\ after[x] = v /\ \A q \in Pair : q # x => after[q] = ps[q]
  BY DEF PoolFile
<1> HIDE DEF after
<1>2. \A q \in Pair : /\ Reserves(ps, t)[q] \in Int /\ Reserves(after, t)[q] \in Int
                      /\ q # x => Reserves(after, t)[q] = Reserves(ps, t)[q]
  BY <1>1, ReserveInt DEF Reserves, PoolFile
<1>3. SumFunctionOnSet(Reserves(after, t), Pair)
      = SumFunctionOnSet(Reserves(ps, t), Pair) - Reserves(ps, t)[x] + Reserves(after, t)[x]
  BY <1>2, SumChange DEF BackedAssumption
<1>4. Reserves(ps, t)[x] = Reserve(ps[x], x, t) /\ Reserves(after, t)[x] = Reserve(v, x, t)
  BY <1>1 DEF Reserves
<1>5. Reserve(ps[x], x, t) \in Int /\ Reserve(v, x, t) \in Int
  BY <1>2, <1>4
<1>6. Holding(p, after, t) = Holding(p, ps, t) - Reserve(ps[x], x, t) + Reserve(v, x, t)
  BY <1>1, <1>3, <1>4, <1>5, HoldingInt
<1> QED
  BY <1>1, <1>6 DEF after

LEMMA OneMore ==
    ASSUME NEW a \in Int, NEW b \in Int
    PROVE  (a + 1) * b = a * b + b /\ (a - 1) * b = a * b - b /\ a * b \in Int
OBVIOUS

\* One loan more, or less.
LEMMA HoldingOfLoan ==
    ASSUME BackedAssumption, NEW p \in PortfolioRecord, NEW q \in PortfolioRecord, p.bal = q.bal,
           NEW l \in Loan, \A k \in Loan : k # l => q.loans[k] = p.loans[k],
           NEW ps \in PoolFile, NEW t \in Token
    PROVE  /\ q.loans[l] = p.loans[l] + 1 => Holding(q, ps, t) = Holding(p, ps, t) + LoanWorth(l, t)
           /\ q.loans[l] = p.loans[l] - 1 => Holding(q, ps, t) = Holding(p, ps, t) - LoanWorth(l, t)
<1>1. \A k \in Loan : p.loans[k] \in Int /\ q.loans[k] \in Int
  BY RecordIs
<1>2. LoanWorth(l, t) \in Int
  BY LoanWorthInt
<1>3. \A k \in Loan : /\ LoansWorth(p.loans, t)[k] \in Int /\ LoansWorth(q.loans, t)[k] \in Int
                      /\ k # l => LoansWorth(q.loans, t)[k] = LoansWorth(p.loans, t)[k]
  BY <1>1, LoanWorthInt, OneMore DEF LoansWorth
<1>4. SumFunctionOnSet(LoansWorth(q.loans, t), Loan)
      = SumFunctionOnSet(LoansWorth(p.loans, t), Loan) - LoansWorth(p.loans, t)[l] + LoansWorth(q.loans, t)[l]
  <2>1. PICK f, g : f = LoansWorth(p.loans, t) /\ g = LoansWorth(q.loans, t)
    OBVIOUS
  <2>2. IsFiniteSet(Loan)
    BY DEF BackedAssumption
  <2>3. \A k \in Loan : f[k] \in Int /\ g[k] \in Int /\ (k # l => g[k] = f[k])
    BY <1>3, <2>1
  <2>4. SumFunctionOnSet(g, Loan) = SumFunctionOnSet(f, Loan) - f[l] + g[l]
    BY <2>2, <2>3, SumChange
  <2> QED
    BY <2>1, <2>4
<1>5. /\ LoansWorth(p.loans, t)[l] = p.loans[l] * LoanWorth(l, t)
      /\ LoansWorth(q.loans, t)[l] = q.loans[l] * LoanWorth(l, t)
  BY DEF LoansWorth
<1>6. /\ q.loans[l] = p.loans[l] + 1
         => LoansWorth(q.loans, t)[l] = LoansWorth(p.loans, t)[l] + LoanWorth(l, t)
      /\ q.loans[l] = p.loans[l] - 1
         => LoansWorth(q.loans, t)[l] = LoansWorth(p.loans, t)[l] - LoanWorth(l, t)
  BY <1>1, <1>2, <1>5, OneMore
<1> QED
  BY <1>2, <1>3, <1>4, <1>6, HoldingInt

-----------------------------------------------------------------------------
(* The steps of the requests that make no token *)

MoneyOps == {"swap", "bridge", "add", "remove", "loan", "badLoan", "repay", "send"}
Money(r) == r.op \in MoneyOps /\ (r.op = "add" => r.side = 0)

\* The step a request has at i; a save of the portfolio before that of its pool
\* stands apart.
Node(s, i) == IF s[i] = "save" /\ i < Len(s) /\ s[i + 1] = "update" THEN "savePool" ELSE s[i]

\* Which step stands before which.
SwapOrder ==
    {<<"swap", "load">>, <<"load", "keep">>, <<"keep", "pay0">>, <<"pay0", "get1">>, <<"get1", "savePool">>,
     <<"savePool", "update">>, <<"update", "save">>, <<"save", "isOpen">>, <<"isOpen", "mark">>,
     <<"mark", "reward">>, <<"reward", "save">>}
BridgeOrder == SwapOrder \cup {<<"quote", "swap">>, <<"save", "secondLeg">>, <<"secondLeg", "swap">>}
AddOrder ==
    {<<"add", "load">>, <<"load", "keep">>, <<"keep", "pay0">>, <<"pay0", "pay1">>, <<"pay1", "shares">>,
     <<"shares", "savePool">>, <<"savePool", "update">>}
RemoveOrder ==
    {<<"remove", "load">>, <<"load", "keep">>, <<"keep", "burn">>, <<"burn", "get0">>, <<"get0", "get1">>,
     <<"get1", "savePool">>, <<"savePool", "update">>}
MoneyOrder(op) ==
    CASE op = "swap" -> SwapOrder
      [] op = "bridge" -> BridgeOrder
      [] op = "add" -> AddOrder
      [] op = "remove" -> RemoveOrder
      [] op = "loan" -> {<<"load", "keep">>, <<"keep", "pledge">>, <<"pledge", "borrow">>, <<"borrow", "lent">>,
                         <<"lent", "save">>}
      [] op = "badLoan" -> {<<"load", "keep">>, <<"keep", "pledge">>, <<"pledge", "refuse">>}
      [] op = "repay" -> {<<"load", "keep">>, <<"keep", "payDebt">>, <<"payDebt", "release">>,
                          <<"release", "repaid">>, <<"repaid", "save">>}
      [] OTHER -> {<<"load", "keep">>, <<"keep", "pay">>, <<"pay", "save">>}
NodesOf(op) == {x[1] : x \in MoneyOrder(op)} \cup {x[2] : x \in MoneyOrder(op)}

InOrder(s, op) == \A i \in 1..Len(s) : i < Len(s) => <<Node(s, i), Node(s, i + 1)>> \in MoneyOrder(op)
MoneyPath(s, op, first, last) ==
    s \in Seq(Step) /\ Len(s) >= 1 /\ InOrder(s, op) /\ s[1] = first /\ s[Len(s)] = last
MoneyWay(s, op) ==
    /\ s \in Seq(Step) /\ Len(s) >= 1 /\ InOrder(s, op)
    /\ Node(s, 1) \in NodesOf(op) /\ s[Len(s)] \in {"save", "update", "refuse"}

LEMMA PathBoth ==
    ASSUME NEW op, NEW first, NEW b, NEW a, NEW last, NEW s, MoneyPath(s, op, first, b),
           NEW t, MoneyPath(t, op, a, last), <<b, a>> \in MoneyOrder(op), a \notin {"save", "update"}
    PROVE  MoneyPath(s \o t, op, first, last)
<1> DEFINE u == s \o t
<1>1. /\ u \in Seq(Step) /\ Len(u) = Len(s) + Len(t) /\ Len(s) \in Nat /\ Len(t) \in Nat
      /\ Len(s) >= 1 /\ Len(t) >= 1
      /\ \A i \in 1..Len(s) : u[i] = s[i]
      /\ \A i \in 1..Len(t) : u[Len(s) + i] = t[i]
  BY DEF MoneyPath
<1> HIDE DEF u
<1>2. u[1] = s[1] /\ u[Len(u)] = t[Len(t)]
  BY <1>1
<1>3. s[1] = first /\ s[Len(s)] = b /\ t[1] = a /\ t[Len(t)] = last
  BY DEF MoneyPath
<1>4. ASSUME NEW i \in 1..Len(s)
      PROVE  Node(u, i) = Node(s, i)
  <2>1. CASE i < Len(s)
    <3>1. u[i] = s[i] /\ u[i + 1] = s[i + 1] /\ i < Len(u)
      BY <1>1, <2>1
    <3> QED
      BY <2>1, <3>1 DEF Node
  <2>2. CASE i = Len(s)
    <3>1. u[i] = s[i] /\ u[i + 1] = a
      <4>1. 1 \in 1..Len(t) /\ i + 1 = Len(s) + 1
        BY <1>1, <2>2
      <4> QED
        BY <1>1, <1>3, <4>1
    <3>2. ~(i < Len(s))
      BY <2>2
    <3> QED
      BY <3>1, <3>2 DEF Node
  <2> QED
    BY <1>1, <2>1, <2>2
<1>5. ASSUME NEW j \in 1..Len(t)
      PROVE  Node(u, Len(s) + j) = Node(t, j)
  <2>1. CASE j < Len(t)
    <3>1. j + 1 \in 1..Len(t) /\ (Len(s) + j) + 1 = Len(s) + (j + 1) /\ Len(s) + j < Len(u)
      BY <1>1, <2>1
    <3>2. u[Len(s) + j] = t[j] /\ u[(Len(s) + j) + 1] = t[j + 1]
      BY <1>1, <3>1
    <3> QED
      BY <2>1, <3>1, <3>2 DEF Node
  <2>2. CASE j = Len(t)
    <3>1. u[Len(s) + j] = t[j] /\ ~(Len(s) + j < Len(u)) /\ ~(j < Len(t))
      <4>1. u[Len(s) + j] = t[j]
        BY <1>1
      <4>2. Len(s) + j = Len(u)
        BY <1>1, <2>2
      <4>3. ~(Len(s) + j < Len(u)) /\ ~(j < Len(t))
        BY <1>1, <2>2, <4>2
      <4> QED
        BY <4>1, <4>3
    <3> QED
      BY <3>1 DEF Node
  <2> QED
    BY <1>1, <2>1, <2>2
<1>6. Node(s, Len(s)) = b /\ Node(t, 1) = a
  <2>1. ~(Len(s) < Len(s))
    BY <1>1
  <2> QED
    BY <1>3, <2>1 DEF Node
<1>7. ASSUME NEW i \in 1..Len(u), i < Len(u)
      PROVE  <<Node(u, i), Node(u, i + 1)>> \in MoneyOrder(op)
  <2>1. CASE i < Len(s)
    <3>1. i \in 1..Len(s) /\ i + 1 \in 1..Len(s)
      BY <1>1, <2>1
    <3>2. Node(u, i) = Node(s, i) /\ Node(u, i + 1) = Node(s, i + 1)
      BY <1>4, <3>1
    <3> QED
      BY <2>1, <3>1, <3>2 DEF MoneyPath, InOrder
  <2>2. CASE i = Len(s)
    <3>1. i \in 1..Len(s) /\ 1 \in 1..Len(t) /\ i + 1 = Len(s) + 1
      BY <1>1, <2>2
    <3>2. Node(u, i) = b /\ Node(u, i + 1) = a
      BY <1>4, <1>5, <1>6, <2>2, <3>1
    <3> QED
      BY <3>2
  <2>3. CASE i > Len(s)
    <3>1. PICK j \in 1..Len(t) : i = Len(s) + j /\ j < Len(t)
      <4>1. PICK x \in Nat, y \in Nat : x = Len(s) /\ y = Len(t)
        BY <1>1
      <4>2. i \in Nat /\ i < x + y /\ i > x
        BY <1>1, <1>7, <2>3, <4>1
      <4>3. i - x \in 1..y /\ i = x + (i - x) /\ i - x < y
        BY <4>2
      <4> QED
        BY <4>1, <4>3
    <3>2. j + 1 \in 1..Len(t) /\ i + 1 = Len(s) + (j + 1)
      BY <1>1, <3>1
    <3>3. Node(u, i) = Node(t, j) /\ Node(u, i + 1) = Node(t, j + 1)
      BY <1>5, <3>1, <3>2
    <3> QED
      BY <3>1, <3>3 DEF MoneyPath, InOrder
  <2> QED
    BY <1>1, <2>1, <2>2, <2>3
<1> QED
  BY <1>1, <1>2, <1>3, <1>7 DEF MoneyPath, InOrder, u

LEMMA SwapPath ==
    ASSUME NEW op \in {"swap", "bridge"}
    PROVE  MoneyPath(Swap, op, "swap", "save")
<1> DEFINE x == <<"pay0", "get1", "save", "update", "save">>
           z == <<"isOpen", "mark", "reward", "save">>
<1>1. SwapOrder \subseteq MoneyOrder(op)
  BY DEF MoneyOrder, BridgeOrder
<1>2. MoneyPath(<<"swap">>, op, "swap", "swap")
  BY DEF MoneyPath, InOrder, Step
<1>3. MoneyPath(GetPortfolio, op, "load", "keep")
  <2>1. <<"load", "keep">> \in MoneyOrder(op)
    BY <1>1 DEF SwapOrder
  <2> QED
    BY <2>1 DEF MoneyPath, InOrder, Step, Node, GetPortfolio
<1>4. MoneyPath(x, op, "pay0", "save")
  <2>1. /\ <<"pay0", "get1">> \in MoneyOrder(op) /\ <<"get1", "savePool">> \in MoneyOrder(op)
        /\ <<"savePool", "update">> \in MoneyOrder(op) /\ <<"update", "save">> \in MoneyOrder(op)
    BY <1>1 DEF SwapOrder
  <2> QED
    BY <2>1 DEF MoneyPath, InOrder, Step, Node
<1>5. MoneyPath(z, op, "isOpen", "save")
  <2>1. /\ <<"isOpen", "mark">> \in MoneyOrder(op) /\ <<"mark", "reward">> \in MoneyOrder(op)
        /\ <<"reward", "save">> \in MoneyOrder(op)
    BY <1>1 DEF SwapOrder
  <2> QED
    BY <2>1 DEF MoneyPath, InOrder, Step, Node
<1>6. /\ <<"swap", "load">> \in MoneyOrder(op) /\ <<"keep", "pay0">> \in MoneyOrder(op)
      /\ <<"save", "isOpen">> \in MoneyOrder(op)
  BY <1>1 DEF SwapOrder
<1>7. Swap = ((<<"swap">> \o GetPortfolio) \o x) \o (IF TaskOf["swap"] = NoTask THEN <<>> ELSE z)
  BY DEF Swap, Complete
<1> HIDE DEF x, z
<1>8. MoneyPath(<<"swap">> \o GetPortfolio, op, "swap", "keep")
  BY <1>2, <1>3, <1>6, PathBoth
<1>9. PICK d : d = (<<"swap">> \o GetPortfolio) \o x
  OBVIOUS
<1>10. MoneyPath(d, op, "swap", "save")
  BY <1>4, <1>6, <1>8, <1>9, PathBoth
<1>11. MoneyPath(d \o z, op, "swap", "save")
  BY <1>5, <1>6, <1>10, PathBoth
<1>12. d \o <<>> = d
  BY <1>10 DEF MoneyPath
<1> QED
  BY <1>7, <1>9, <1>10, <1>11, <1>12

LEMMA PathIsWay ==
    ASSUME NEW op, NEW s, NEW first, NEW last, MoneyPath(s, op, first, last), first # "save",
           first \in NodesOf(op), last \in {"save", "update", "refuse"}
    PROVE  MoneyWay(s, op) /\ Node(s, 1) = first
BY DEF MoneyPath, MoneyWay, Node

FirstNode(op) == IF op \in {"swap", "add", "remove"} THEN op ELSE IF op = "bridge" THEN "quote" ELSE "load"

LEMMA MoneyProgram ==
    ASSUME NEW op \in MoneyOps
    PROVE  MoneyWay(Program(op), op) /\ Node(Program(op), 1) = FirstNode(op)
<1> USE DEF Program, MoneyOps, FirstNode
<1>1. MoneyPath(GetPortfolio, op, "load", "keep") /\ "load" \in NodesOf(op)
  <2>1. <<"load", "keep">> \in MoneyOrder(op)
    BY DEF MoneyOrder, SwapOrder, BridgeOrder, AddOrder, RemoveOrder
  <2>2. MoneyPath(GetPortfolio, op, "load", "keep")
    BY <2>1 DEF MoneyPath, InOrder, Step, Node, GetPortfolio
  <2>3. <<"load", "keep">>[1] \in NodesOf(op)
    BY <2>1 DEF NodesOf
  <2> QED
    BY <2>2, <2>3
<1>2. CASE op = "swap"
  <2>1. <<"swap", "load">>[1] \in NodesOf("swap")
    BY DEF NodesOf, MoneyOrder, SwapOrder
  <2>2. MoneyWay(Swap, "swap") /\ Node(Swap, 1) = "swap"
    BY <2>1, SwapPath, PathIsWay
  <2> QED
    BY <1>2, <2>2
<1>3. CASE op = "bridge"
  <2>1. /\ <<"quote", "swap">> \in MoneyOrder("bridge") /\ <<"save", "secondLeg">> \in MoneyOrder("bridge")
        /\ <<"secondLeg", "swap">> \in MoneyOrder("bridge")
    BY DEF MoneyOrder, BridgeOrder
  <2>2. MoneyPath(<<"quote">>, "bridge", "quote", "quote") /\ MoneyPath(<<"secondLeg">>, "bridge", "secondLeg", "secondLeg")
    BY DEF MoneyPath, InOrder, Step
  <2>3. MoneyPath(Swap, "bridge", "swap", "save")
    BY SwapPath
  <2>4. PICK a : a = <<"quote">> \o Swap
    OBVIOUS
  <2>5. MoneyPath(a, "bridge", "quote", "save")
    BY <2>1, <2>2, <2>3, <2>4, PathBoth
  <2>6. PICK b : b = a \o <<"secondLeg">>
    OBVIOUS
  <2>7. MoneyPath(b, "bridge", "quote", "secondLeg")
    BY <2>1, <2>2, <2>5, <2>6, PathBoth
  <2>8. MoneyPath(b \o Swap, "bridge", "quote", "save")
    BY <2>1, <2>3, <2>7, PathBoth
  <2>9. <<"quote", "swap">>[1] \in NodesOf("bridge")
    BY <2>1 DEF NodesOf
  <2>10. MoneyWay(b \o Swap, "bridge") /\ Node(b \o Swap, 1) = "quote"
    BY <2>8, <2>9, PathIsWay
  <2> QED
    BY <1>3, <2>4, <2>6, <2>10
<1>4. CASE op = "add"
  <2> DEFINE x == <<"pay0", "pay1", "shares", "save", "update">>
  <2>1. MoneyPath(<<"add">>, op, "add", "add")
    BY DEF MoneyPath, InOrder, Step
  <2>2. MoneyPath(x, op, "pay0", "update")
    BY <1>4 DEF MoneyPath, InOrder, Step, Node, MoneyOrder, AddOrder
  <2>3. /\ <<"add", "load">> \in MoneyOrder(op) /\ <<"keep", "pay0">> \in MoneyOrder(op)
    BY <1>4 DEF MoneyOrder, AddOrder
  <2> HIDE DEF x
  <2>4. MoneyPath(<<"add">> \o GetPortfolio, op, "add", "keep")
    BY <1>1, <2>1, <2>3, PathBoth
  <2>5. MoneyPath((<<"add">> \o GetPortfolio) \o x, op, "add", "update")
    BY <2>2, <2>3, <2>4, PathBoth
  <2>6. <<"add", "load">>[1] \in NodesOf(op)
    BY <2>3 DEF NodesOf
  <2> QED
    BY <1>4, <2>5, <2>6, PathIsWay DEF Add, x
<1>5. CASE op = "remove"
  <2> DEFINE x == <<"burn", "get0", "get1", "save", "update">>
  <2>1. MoneyPath(<<"remove">>, op, "remove", "remove")
    BY DEF MoneyPath, InOrder, Step
  <2>2. MoneyPath(x, op, "burn", "update")
    BY <1>5 DEF MoneyPath, InOrder, Step, Node, MoneyOrder, RemoveOrder
  <2>3. /\ <<"remove", "load">> \in MoneyOrder(op) /\ <<"keep", "burn">> \in MoneyOrder(op)
    BY <1>5 DEF MoneyOrder, RemoveOrder
  <2> HIDE DEF x
  <2>4. MoneyPath(<<"remove">> \o GetPortfolio, op, "remove", "keep")
    BY <1>1, <2>1, <2>3, PathBoth
  <2>5. MoneyPath((<<"remove">> \o GetPortfolio) \o x, op, "remove", "update")
    BY <2>2, <2>3, <2>4, PathBoth
  <2>6. <<"remove", "load">>[1] \in NodesOf(op)
    BY <2>3 DEF NodesOf
  <2> QED
    BY <1>5, <2>5, <2>6, PathIsWay DEF Remove, x
<1>6. CASE op = "loan"
  <2> DEFINE x == <<"pledge", "borrow", "lent", "save">>
  <2>1. MoneyPath(x, op, "pledge", "save")
    BY <1>6 DEF MoneyPath, InOrder, Step, Node, MoneyOrder
  <2>2. <<"keep", "pledge">> \in MoneyOrder(op)
    BY <1>6 DEF MoneyOrder
  <2> HIDE DEF x
  <2>3. MoneyPath(GetPortfolio \o x, op, "load", "save")
    BY <1>1, <2>1, <2>2, PathBoth
  <2> QED
    BY <1>1, <1>6, <2>3, PathIsWay DEF LoanProgram, x
<1>7. CASE op = "badLoan"
  <2> DEFINE x == <<"pledge", "refuse">>
  <2>1. MoneyPath(x, op, "pledge", "refuse")
    BY <1>7 DEF MoneyPath, InOrder, Step, Node, MoneyOrder
  <2>2. <<"keep", "pledge">> \in MoneyOrder(op)
    BY <1>7 DEF MoneyOrder
  <2> HIDE DEF x
  <2>3. MoneyPath(GetPortfolio \o x, op, "load", "refuse")
    BY <1>1, <2>1, <2>2, PathBoth
  <2> QED
    BY <1>1, <1>7, <2>3, PathIsWay DEF LoanProgram, x
<1>8. CASE op = "repay"
  <2> DEFINE x == <<"payDebt", "release", "repaid", "save">>
  <2>1. MoneyPath(x, op, "payDebt", "save")
    BY <1>8 DEF MoneyPath, InOrder, Step, Node, MoneyOrder
  <2>2. <<"keep", "payDebt">> \in MoneyOrder(op)
    BY <1>8 DEF MoneyOrder
  <2> HIDE DEF x
  <2>3. MoneyPath(GetPortfolio \o x, op, "load", "save")
    BY <1>1, <2>1, <2>2, PathBoth
  <2> QED
    BY <1>1, <1>8, <2>3, PathIsWay DEF LoanProgram, x
<1>9. CASE op = "send"
  <2> DEFINE x == <<"pay", "save">>
  <2>1. MoneyPath(x, op, "pay", "save")
    BY <1>9 DEF MoneyPath, InOrder, Step, Node, MoneyOrder
  <2>2. <<"keep", "pay">> \in MoneyOrder(op)
    BY <1>9 DEF MoneyOrder
  <2> HIDE DEF x
  <2>3. MoneyPath(GetPortfolio \o x, op, "load", "save")
    BY <1>1, <2>1, <2>2, PathBoth
  <2> QED
    BY <1>1, <1>9, <2>3, PathIsWay DEF Send, x
<1> QED
  BY <1>2, <1>3, <1>4, <1>5, <1>6, <1>7, <1>8, <1>9

\* What a request has left after n of its steps.
LEMMA MoneyRest ==
    ASSUME NEW op, NEW s, MoneyWay(s, op), NEW n \in Nat, n >= 1, NEW rest, rest = SubSeq(s, n + 1, Len(s))
    PROVE  /\ rest # <<>> =>
                 /\ MoneyWay(rest, op) /\ n < Len(s) /\ Node(rest, 1) = Node(s, n + 1)
                 /\ \A i \in 1..n : <<Node(s, i), Node(s, i + 1)>> \in MoneyOrder(op)
           /\ rest = <<>> => n >= Len(s)
<1>1. /\ rest \in Seq(Step) /\ Len(s) \in Nat
      /\ Len(rest) = IF n < Len(s) THEN Len(s) - n ELSE 0
      /\ \A i \in 1..Len(rest) : rest[i] = s[n + i]
  BY DEF MoneyWay
<1>2. CASE rest = <<>>
  <2>1. PICK x, y : x \in Nat /\ x = Len(s) /\ y = Len(rest)
    BY <1>1
  <2>2. y = (IF n < x THEN x - n ELSE 0) /\ y = 0
    BY <1>1, <1>2, <2>1
  <2>3. n >= x
    BY <2>1, <2>2
  <2> QED
    BY <1>2, <2>1, <2>3
<1>3. CASE rest # <<>>
  <2>1. n < Len(s) /\ Len(rest) >= 1 /\ Len(rest) = Len(s) - n /\ 1 \in 1..Len(rest) /\ Len(rest) \in 1..Len(rest)
        /\ n + Len(rest) = Len(s)
    BY <1>1, <1>3
  <2>2. ASSUME NEW i \in 1..Len(rest)
        PROVE  Node(rest, i) = Node(s, n + i)
    <3>1. CASE i < Len(rest)
      <4>1. i + 1 \in 1..Len(rest) /\ (n + i) + 1 = n + (i + 1) /\ n + i < Len(s)
        <5>1. PICK x, y : x \in Nat /\ x = Len(s) /\ y = Len(rest)
          BY <1>1
        <5>2. y = x - n /\ y \in Nat /\ i \in 1..y /\ i < y
          BY <2>1, <3>1, <5>1
        <5>3. i + 1 \in 1..y /\ (n + i) + 1 = n + (i + 1) /\ n + i < x
          BY <5>1, <5>2
        <5> QED
          BY <5>1, <5>3
      <4>2. rest[i] = s[n + i] /\ rest[i + 1] = s[(n + i) + 1]
        BY <1>1, <4>1
      <4> QED
        BY <3>1, <4>1, <4>2 DEF Node
    <3>2. CASE i = Len(rest)
      <4>1. ~(i < Len(rest)) /\ ~(n + i < Len(s)) /\ rest[i] = s[n + i]
        BY <1>1, <2>1, <3>2
      <4> QED
        BY <4>1 DEF Node
    <3> QED
      BY <1>1, <3>1, <3>2
  <2>3. ASSUME NEW i \in 1..Len(rest), i < Len(rest)
        PROVE  <<Node(rest, i), Node(rest, i + 1)>> \in MoneyOrder(op)
    <3>1. /\ i + 1 \in 1..Len(rest) /\ n + i \in 1..Len(s) /\ n + i < Len(s)
          /\ (n + i) + 1 = n + (i + 1)
      BY <1>1, <2>1, <2>3
    <3>2. Node(rest, i) = Node(s, n + i) /\ Node(rest, i + 1) = Node(s, n + (i + 1))
      BY <2>2, <3>1
    <3>3. <<Node(s, n + i), Node(s, (n + i) + 1)>> \in MoneyOrder(op)
      BY <3>1 DEF MoneyWay, InOrder
    <3> QED
      BY <3>1, <3>2, <3>3
  <2>4. ASSUME NEW i \in 1..n
        PROVE  <<Node(s, i), Node(s, i + 1)>> \in MoneyOrder(op)
    <3>1. i \in 1..Len(s) /\ i < Len(s)
      BY <1>1, <2>1
    <3> QED
      BY <3>1 DEF MoneyWay, InOrder
  <2>5. Node(rest, 1) = Node(s, n + 1)
    BY <2>1, <2>2
  <2>6. rest[Len(rest)] = s[Len(s)]
    BY <1>1, <2>1
  <2>7. Node(s, n + 1) \in NodesOf(op)
    <3>1. n \in 1..n
      OBVIOUS
    <3>2. <<Node(s, n), Node(s, n + 1)>> \in MoneyOrder(op)
      BY <2>4, <3>1
    <3>3. <<Node(s, n), Node(s, n + 1)>>[2] \in NodesOf(op)
      BY <3>2 DEF NodesOf
    <3> QED
      BY <3>3
  <2> QED
    BY <1>1, <1>3, <2>1, <2>3, <2>4, <2>5, <2>6, <2>7 DEF MoneyWay, InOrder
<1> QED
  BY <1>2, <1>3

-----------------------------------------------------------------------------
(* What a step adds of a token, and what the rest of the request may add *)

\* What a pool gains when the one worked out is put in its place.
PoolGain(op, m, t) ==
    CASE op \in {"swap", "bridge"} -> On(m.key0, m.n0, t) - On(m.key1, m.n1, t)
      [] op = "add" -> On(m.key0, m.n0, t) + On(m.key1, m.n1, t)
      [] OTHER -> 0 - On(m.key0, m.n0, t) - On(m.key1, m.n1, t)

Borrowed(l, t) == IF l.kind = "borrow" THEN On(l.debtKey, l.debt, t) ELSE 0

\* What a step adds at most.
Effect(h, r, m, t) ==
    CASE h = "pay0" -> 0 - On(m.key0, m.n0, t)
      [] h = "pay1" -> 0 - On(m.key1, m.n1, t)
      [] h = "get0" -> On(m.key0, m.n0, t)
      [] h = "get1" -> On(m.key1, m.n1, t)
      [] h = "update" -> PoolGain(r.op, m, t)
      [] h = "pledge" -> 0 - On(r.loan.key, r.loan.col, t)
      [] h = "borrow" -> Borrowed(r.loan, t)
      [] h = "lent" -> LoanWorth(r.loan, t)
      [] h = "payDebt" -> 0 - On(r.loan.debtKey, r.loan.debt, t)
      [] h = "release" -> On(r.loan.key, r.loan.col, t)
      [] h = "repaid" -> 0 - LoanWorth(r.loan, t)
      [] OTHER -> 0

\* What the request may still add from there, having taken as much before.
Rest(h, r, m, t) ==
    CASE r.op \in {"swap", "bridge"} /\ h = "get1" -> On(m.key0, m.n0, t)
      [] r.op = "add" /\ h = "pay1" -> On(m.key0, m.n0, t)
      [] r.op = "remove" /\ h = "get1" -> 0 - On(m.key0, m.n0, t)
      [] r.op = "add" /\ h = "shares" -> PoolGain(r.op, m, t)
      [] r.op \in {"swap", "bridge", "add", "remove"} /\ h \in {"savePool", "update"} -> PoolGain(r.op, m, t)
      [] r.op = "loan" /\ h = "borrow" -> On(r.loan.key, r.loan.col, t)
      [] r.op = "loan" /\ h = "lent" -> LoanWorth(r.loan, t)
      [] r.op = "repay" /\ h = "release" -> On(r.loan.debtKey, r.loan.debt, t)
      [] r.op = "repay" /\ h = "repaid" -> On(r.loan.debtKey, r.loan.debt, t) - On(r.loan.key, r.loan.col, t)
      [] OTHER -> 0

\* Where a request may be refused.
Refusing == {"quote", "swap", "add", "remove", "load", "pay0", "pay1", "burn", "pledge", "refuse", "payDebt", "pay"}

LEMMA AmountsInt ==
    ASSUME NEW m \in MineRecord, NEW l \in Loan, NEW t
    PROVE  /\ On(m.key0, m.n0, t) \in Nat /\ On(m.key1, m.n1, t) \in Nat
           /\ On(l.key, l.col, t) \in Nat /\ On(l.debtKey, l.debt, t) \in Nat /\ Borrowed(l, t) \in Nat
           /\ Borrowed(l, t) <= On(l.debtKey, l.debt, t)
           /\ LoanWorth(l, t) = On(l.key, l.col, t) - Borrowed(l, t)
<1>1. m.n0 \in Nat /\ m.n1 \in Nat /\ l.col \in Nat /\ l.debt \in Nat
  BY LoanIs DEF MineRecord
<1>2. /\ On(m.key0, m.n0, t) \in Nat /\ On(m.key1, m.n1, t) \in Nat
      /\ On(l.key, l.col, t) \in Nat /\ On(l.debtKey, l.debt, t) \in Nat
  BY <1>1 DEF On
<1> QED
  BY <1>2 DEF Borrowed, LoanWorth

\* A step adds no more than what the request might add before and not after it.
LEMMA Balanced ==
    ASSUME NEW r, Money(r), r.loan \in Loan, NEW m \in MineRecord, NEW t
    PROVE  /\ \A h \in NodesOf(r.op) :
                 /\ Rest(h, r, m, t) \in Int /\ Effect(h, r, m, t) \in Int
                 /\ h \in Refusing => 0 <= Rest(h, r, m, t)
                 /\ h \in {"save", "update", "refuse"} => Effect(h, r, m, t) <= Rest(h, r, m, t)
           /\ \A x \in MoneyOrder(r.op) : Effect(x[1], r, m, t) + Rest(x[2], r, m, t) <= Rest(x[1], r, m, t)
<1>1. PICK a0, a1, col, debt, lent \in Nat :
         /\ a0 = On(m.key0, m.n0, t) /\ a1 = On(m.key1, m.n1, t)
         /\ col = On(r.loan.key, r.loan.col, t) /\ debt = On(r.loan.debtKey, r.loan.debt, t)
         /\ lent = Borrowed(r.loan, t) /\ lent <= debt /\ LoanWorth(r.loan, t) = col - lent
  BY AmountsInt
<1>2. CASE r.op \in {"swap", "bridge"}
  BY <1>1, <1>2 DEF NodesOf, MoneyOrder, SwapOrder, BridgeOrder, Rest, Effect, PoolGain, Refusing
<1>3. CASE r.op = "add"
  BY <1>1, <1>3 DEF NodesOf, MoneyOrder, AddOrder, Rest, Effect, PoolGain, Refusing
<1>4. CASE r.op = "remove"
  BY <1>1, <1>4 DEF NodesOf, MoneyOrder, RemoveOrder, Rest, Effect, PoolGain, Refusing
<1>5. CASE r.op \in {"loan", "badLoan", "repay", "send"}
  BY <1>1, <1>5 DEF NodesOf, MoneyOrder, Rest, Effect, Refusing
<1> QED
  BY <1>2, <1>3, <1>4, <1>5 DEF Money, MoneyOps

-----------------------------------------------------------------------------
(* The invariant: what there is of a token and what the request may still  *)
(* add are no more than what there was                                     *)

Early == {"swap", "quote", "secondLeg", "add", "remove", "load", "keep"}
PoolNodes == {"load", "keep", "pay0", "pay1", "get0", "get1", "burn", "shares", "savePool", "update"}

Same(p, q) == p.loans = q.loans /\ \A t \in Token \ {Onex} : p.bal[t] = q.bal[t]
Gains(op, m, ps) ==
    \A t \in Token : Reserve(m.pool, m.pair, t) = Reserve(ps[m.pair], m.pair, t) + PoolGain(op, m, t)

\* Where a request stands at a step: once saved, its copy is the cached one; once
\* worked out, its pool is the one there is and what the swap brings it.
Stands(c, h, r, m) ==
    /\ h \notin Early => alias = c
    /\ h = "keep" => cached \in PortfolioRecord /\ Same(view[c], cached)
    /\ r.op \in {"swap", "bridge", "add", "remove"} /\ h \in PoolNodes => Gains(r.op, m, pools)

BackInv ==
    /\ file # Broken
    /\ owned \in [Client -> [Token -> Int]]
    /\ \A c \in Client :
          /\ alias = c => cached = view[c]
          /\ todo[c] = <<>> => ask[c] = NoRequest \/ ask[c].op \notin MoneyOps
          /\ todo[c] # <<>> /\ ask[c].op \in MoneyOps => MoneyWay(todo[c], ask[c].op)
          /\ todo[c] # <<>> /\ Money(ask[c]) =>
                /\ Stands(c, Node(todo[c], 1), ask[c], mine[c])
                /\ \A t \in Token \ {Onex} :
                      Owned(t) + Rest(Node(todo[c], 1), ask[c], mine[c], t) <= owned[c][t]

Typed == PoolInv /\ RewardInv /\ TypeInv
BackStep(c) == todo[c] # <<>> /\ todo'[c] = <<>> /\ Money(ask[c]) =>
                  \A t \in Token \ {Onex} : Owned(t)' <= owned[c][t]

LEMMA TypedIs ==
    ASSUME Typed, NEW c \in Client
    PROVE  /\ RequestInv /\ Copies /\ DueInv /\ MineInv
           /\ todo \in [Client -> Seq(Step)] /\ ask \in [Client -> Request \cup {NoRequest}]
           /\ todo[c] # <<>> => ask[c] \in Request
           /\ view \in [Client -> PortfolioRecord] /\ view[c] \in PortfolioRecord
           /\ mine \in [Client -> MineRecord] /\ mine[c] \in MineRecord /\ pools \in PoolFile
           /\ cached \in PortfolioRecord \cup {NoFile} /\ file \in PortfolioRecord \cup {NoFile, Broken}
BY DEF Typed, PoolInv, TypeInv, RequestInv, Copies, MineInv, PoolsKept, PoolFile

LEMMA OwnedInt ==
    ASSUME BackedAssumption, Typed, file # Broken, NEW t \in Token, NEW c \in Client
    PROVE  Current \in PortfolioRecord /\ Owned(t) \in Int
<1>1. Current \in PortfolioRecord
  BY TypedIs, DefaultTyped DEF Current
<1> QED
  BY <1>1, TypedIs, HoldingInt DEF Owned

LEMMA OwnedIntNext ==
    ASSUME BackedAssumption, Typed', file' # Broken, NEW t \in Token
    PROVE  Current' \in PortfolioRecord /\ Owned(t)' \in Int
<1>1. Copies' /\ pools' \in PoolFile
  BY DEF Typed, PoolInv, TypeInv, PoolsKept, PoolFile
<1>2. Current' \in PortfolioRecord
  BY <1>1, DefaultTyped DEF Current, Copies
<1> QED
  BY <1>1, <1>2, HoldingInt DEF Owned

\* A request that goes on, or ends.
LEMMA BackGo ==
    ASSUME BackedAssumption, Typed, Typed', BackInv, NEW c \in Client, todo[c] # <<>>,
           NEW n \in Nat, n >= 1, NEW rest, rest \in {<<>>, SubSeq(todo[c], n + 1, Len(todo[c]))},
           NEW p, NEW owner, Go(c, rest, p, owner), file' # Broken, owner = c => cached' = p,
           NEW r, r = ask[c], NEW h, h = Node(rest, 1), NEW m, m = mine'[c],
           rest # <<>> /\ Money(r) => Stands(c, h, r, m)',
           Money(r) => \A t \in Token \ {Onex} :
                          Owned(t)' + (IF rest = <<>> THEN 0 ELSE Rest(h, r, m, t)) <= owned[c][t]
    PROVE  BackInv' /\ BackStep(c)
<1>1. /\ todo' = [todo EXCEPT ![c] = rest]
      /\ view' = [view EXCEPT ![c] = IF rest = <<>> THEN DefaultPortfolio ELSE p]
      /\ ask' = [ask EXCEPT ![c] = IF rest = <<>> THEN NoRequest ELSE @]
      /\ alias' = IF rest = <<>> /\ owner = c THEN Nobody ELSE owner
      /\ owned' = [owned EXCEPT ![c] = IF rest = <<>> THEN NothingOwned ELSE @]
  BY DEF Go
<1>2. todo'[c] = rest /\ view'[c] = (IF rest = <<>> THEN DefaultPortfolio ELSE p)
      /\ ask'[c] = (IF rest = <<>> THEN NoRequest ELSE r)
      /\ owned'[c] = (IF rest = <<>> THEN NothingOwned ELSE owned[c])
  BY <1>1, TypedIs DEF BackInv
<1>3. owned' \in [Client -> [Token -> Int]]
  <2>1. NothingOwned \in [Token -> Int]
    BY DEF NothingOwned
  <2> QED
    BY <1>1, <2>1 DEF BackInv
<1>4. alias' = c => cached' = view'[c]
  <2>1. c # Nobody
    BY DEF BackedAssumption
  <2> QED
    BY <1>1, <1>2, <2>1
<1>5. rest # <<>> /\ r.op \in MoneyOps => MoneyWay(rest, r.op)
  BY MoneyRest DEF BackInv
<1>6. ASSUME rest # <<>>, Money(r)
      PROVE  /\ Stands(c, Node(todo[c], 1), ask[c], mine[c])'
             /\ \A t \in Token \ {Onex} :
                   Owned(t)' + Rest(Node(todo'[c], 1), ask'[c], mine'[c], t) <= owned'[c][t]
  <2>1. Node(todo'[c], 1) = h /\ ask'[c] = r /\ mine'[c] = m /\ owned'[c] = owned[c]
    BY <1>2, <1>6
  <2>2. Stands(c, Node(todo[c], 1), ask[c], mine[c])'
    BY <1>6, <2>1 DEF Stands
  <2> QED
    BY <1>6, <2>1, <2>2
<1>7. ASSUME NEW d \in Client PROVE d = c
  BY DEF BackedAssumption
<1>8. BackInv'
  <2> SUFFICES ASSUME NEW d \in Client
               PROVE  /\ alias' = d => cached' = view'[d]
                      /\ todo'[d] = <<>> => ask'[d] = NoRequest \/ ask'[d].op \notin MoneyOps
                      /\ todo'[d] # <<>> /\ ask'[d].op \in MoneyOps => MoneyWay(todo'[d], ask'[d].op)
                      /\ todo'[d] # <<>> /\ Money(ask'[d]) =>
                            /\ Stands(d, Node(todo[d], 1), ask[d], mine[d])'
                            /\ \A t \in Token \ {Onex} :
                                  Owned(t)' + Rest(Node(todo'[d], 1), ask'[d], mine'[d], t) <= owned'[d][t]
    BY <1>3 DEF BackInv
  <2>1. d = c
    BY <1>7
  <2>2. todo'[c] = <<>> => ask'[c] = NoRequest
    BY <1>2
  <2>3. todo'[c] # <<>> => rest # <<>> /\ ask'[c] = r
    BY <1>2
  <2> QED
    BY <1>2, <1>4, <1>5, <1>6, <2>1, <2>2, <2>3
<1>9. BackStep(c)
  <2> SUFFICES ASSUME rest = <<>>, Money(r), NEW t \in Token \ {Onex}
               PROVE  Owned(t)' <= owned[c][t]
    BY <1>2 DEF BackStep
  <2>1. Owned(t)' + 0 <= owned[c][t] /\ Owned(t)' \in Int /\ owned[c][t] \in Int
    BY OwnedIntNext DEF BackInv
  <2> QED
    BY <2>1
<1> QED
  BY <1>8, <1>9

LEMMA OrderIs ==
    ASSUME NEW op \in MoneyOps, NEW h, NEW k, <<h, k>> \in MoneyOrder(op)
    PROVE  /\ h \in NodesOf(op) /\ k \in NodesOf(op)
           /\ k = "keep" <=> h = "load"
           /\ h \in {"quote", "secondLeg"} => k = "swap"
           /\ k = "load" <=> h \in {"swap", "add", "remove"}
           /\ k \notin Early => h \notin Early \ {"keep"}
           /\ op \in {"swap", "bridge", "add", "remove"} /\ k \in PoolNodes =>
                 h \in {"swap", "add", "remove"} \/ h \in PoolNodes \ {"update"}
           /\ h = "save" => k \in {"isOpen", "secondLeg"} /\ op \in {"swap", "bridge"}
           /\ h = "update" => k = "save"
<1>1. h \in NodesOf(op) /\ k \in NodesOf(op)
  <2>1. <<h, k>>[1] \in NodesOf(op) /\ <<h, k>>[2] \in NodesOf(op)
    BY DEF NodesOf
  <2> QED
    BY <2>1
<1>2. CASE op \in {"swap", "bridge"}
  BY <1>1, <1>2 DEF MoneyOrder, SwapOrder, BridgeOrder, Early, PoolNodes
<1>3. CASE op = "add"
  BY <1>1, <1>3 DEF MoneyOrder, AddOrder, Early, PoolNodes
<1>4. CASE op = "remove"
  BY <1>1, <1>4 DEF MoneyOrder, RemoveOrder, Early, PoolNodes
<1>5. CASE op \in {"loan", "badLoan", "repay", "send"}
  BY <1>1, <1>5 DEF MoneyOrder, Early, PoolNodes
<1> QED
  BY <1>2, <1>3, <1>4, <1>5 DEF MoneyOps

\* What a step of those requests is told by.
LEMMA NodesAre ==
    ASSUME NEW op \in MoneyOps
    PROVE  /\ NodesOf(op) \subseteq
                 {"quote", "secondLeg", "swap", "add", "remove", "load", "keep", "pay0", "pay1", "get0", "get1", "burn",
                  "shares", "savePool", "update", "save", "isOpen", "mark", "reward", "pledge", "borrow", "lent",
                  "refuse", "payDebt", "release", "repaid", "pay"}
           /\ "reward" \in NodesOf(op) => op \in {"swap", "bridge"}
           /\ NodesOf(op) \cap {"quote", "secondLeg"} # {} => op = "bridge"
           /\ "swap" \in NodesOf(op) => op \in {"swap", "bridge"}
           /\ "add" \in NodesOf(op) => op = "add"
           /\ "remove" \in NodesOf(op) => op = "remove"
           /\ "update" \in NodesOf(op) => op \in {"swap", "bridge", "add", "remove"}
           /\ "get0" \in NodesOf(op) => op = "remove"
<1>1. CASE op \in {"swap", "bridge"}
  BY <1>1 DEF NodesOf, MoneyOrder, SwapOrder, BridgeOrder
<1>2. CASE op = "add"
  BY <1>2 DEF NodesOf, MoneyOrder, AddOrder
<1>3. CASE op = "remove"
  BY <1>3 DEF NodesOf, MoneyOrder, RemoveOrder
<1>4. CASE op \in {"loan", "badLoan", "repay", "send"}
  BY <1>4 DEF NodesOf, MoneyOrder
<1> QED
  BY <1>1, <1>2, <1>3, <1>4 DEF MoneyOps

\* Where a request stands, and where its next step leads.
LEMMA BackAt ==
    ASSUME Typed, BackInv, NEW c \in Client, NEW step, At(c, step), ask[c].op \in MoneyOps,
           NEW h, h = Node(todo[c], 1)
    PROVE  /\ ask[c] \in Request /\ ask[c].loan \in Loan
           /\ MoneyWay(todo[c], ask[c].op) /\ h \in NodesOf(ask[c].op)
           /\ h = step \/ (step = "save" /\ h = "savePool")
           /\ Tail(todo[c]) = SubSeq(todo[c], 1 + 1, Len(todo[c]))
           /\ Tail(todo[c]) # <<>> => <<h, Node(Tail(todo[c]), 1)>> \in MoneyOrder(ask[c].op)
           /\ Tail(todo[c]) = <<>> => h \in {"save", "update", "refuse"}
<1>1. PICK s, r : s = todo[c] /\ r = ask[c]
  OBVIOUS
<1>2. s \in Seq(Step) /\ s # <<>> /\ Head(s) = step /\ r \in Request
  BY <1>1, TypedIs DEF At
<1>3. MoneyWay(s, r.op)
  BY <1>1, <1>2 DEF BackInv
<1>4. Tail(s) = SubSeq(s, 1 + 1, Len(s)) /\ s[1] = step
  BY <1>2, TailIsRest
<1>5. h = step \/ (step = "save" /\ h = "savePool")
  BY <1>1, <1>4 DEF Node
<1>6. r.loan \in Loan
  BY <1>2 DEF Request
<1>7. /\ Tail(s) # <<>> => Node(Tail(s), 1) = Node(s, 1 + 1) /\ (\A i \in 1..1 : <<Node(s, i), Node(s, i + 1)>> \in MoneyOrder(r.op))
      /\ Tail(s) = <<>> => 1 >= Len(s)
  <2>1. 1 \in Nat /\ 1 >= 1
    OBVIOUS
  <2>2. PICK rest : rest = SubSeq(s, 1 + 1, Len(s))
    OBVIOUS
  <2> QED
    BY <1>3, <1>4, <2>1, <2>2, MoneyRest
<1>8. Tail(s) # <<>> => <<h, Node(Tail(s), 1)>> \in MoneyOrder(r.op)
  <2>1. 1 \in 1..1
    OBVIOUS
  <2> QED
    BY <1>1, <1>7, <2>1
<1>9. Tail(s) = <<>> => h \in {"save", "update", "refuse"}
  <2> HAVE Tail(s) = <<>>
  <2>1. Len(s) \in Nat /\ Len(s) >= 1 /\ Len(s) <= 1
    BY <1>2, <1>3, <1>7 DEF MoneyWay
  <2>2. PICK n \in Nat : n = Len(s) /\ n >= 1 /\ n <= 1
    BY <2>1
  <2>3. s[n] \in {"save", "update", "refuse"} /\ n = 1
    BY <1>3, <2>2 DEF MoneyWay
  <2>5. s[1] \in {"save", "update", "refuse"} /\ ~(1 < Len(s))
    BY <2>2, <2>3
  <2>4. Node(s, 1) = s[1]
    BY <2>5 DEF Node
  <2> QED
    BY <1>1, <2>4, <2>5
<1> QED
  BY <1>1, <1>2, <1>3, <1>4, <1>5, <1>6, <1>8, <1>9 DEF MoneyWay

LEMMA NodeAt ==
    ASSUME Typed, BackInv, NEW c \in Client, NEW step, step # "save", At(c, step), Money(ask[c])
    PROVE  step \in NodesOf(ask[c].op) /\ ask[c].op \in MoneyOps /\ Node(todo[c], 1) = step
<1>1. PICK h : h = Node(todo[c], 1)
  OBVIOUS
<1>2. ask[c].op \in MoneyOps
  BY DEF Money
<1>3. h \in NodesOf(ask[c].op) /\ (h = step \/ (step = "save" /\ h = "savePool"))
  BY <1>1, <1>2, BackAt
<1> QED
  BY <1>1, <1>2, <1>3

\* What is left after a step, for the provers a name of its own.
Left(s) == Tail(s)

\* A step adds what it may, and leads where the request then stands.
Brings(c) ==
    \A r, h, m : r = ask[c] /\ h = Node(todo[c], 1) /\ m = mine'[c] /\ Money(r) =>
        \A t \in Token \ {Onex} :
            /\ Owned(t)' <= Owned(t) + Effect(h, r, m, t)
            /\ Rest(h, r, m, t) = Rest(h, r, mine[c], t)
Leads(c) ==
    \A r, h, m, k : r = ask[c] /\ h = Node(todo[c], 1) /\ m = mine'[c] /\ Money(r) /\ todo'[c] # <<>>
                    /\ <<h, k>> \in MoneyOrder(r.op) => Stands(c, k, r, m)'

\* A request that goes on by one step.
LEMMA BackTail ==
    ASSUME BackedAssumption, Typed, Typed', BackInv, NEW c \in Client, NEW step, At(c, step),
           NEW p, NEW owner, Go(c, Left(todo[c]), p, owner), file' # Broken, owner = c => cached' = p,
           mine'[c] \in MineRecord, Brings(c), Leads(c)
    PROVE  BackInv' /\ BackStep(c)
<1>10. PICK r, h, m : r = ask[c] /\ h = Node(todo[c], 1) /\ m = mine'[c]
  OBVIOUS
<1>11. m \in MineRecord
  BY <1>10
<1>12. Money(r) => \A t \in Token \ {Onex} :
           /\ Owned(t)' <= Owned(t) + Effect(h, r, m, t)
           /\ Rest(h, r, m, t) = Rest(h, r, mine[c], t)
  BY <1>10 DEF Brings
<1>13. Money(r) /\ todo'[c] # <<>> => \A k : <<h, k>> \in MoneyOrder(r.op) => Stands(c, k, r, m)'
  BY <1>10 DEF Leads
<1>1. todo[c] # <<>> /\ todo[c] \in Seq(Step) /\ Tail(todo[c]) = SubSeq(todo[c], 1 + 1, Len(todo[c]))
  BY TypedIs, TailIsRest DEF At
<1>2. PICK rest, k : rest = Tail(todo[c]) /\ k = Node(rest, 1) /\ Go(c, rest, p, owner)
  BY DEF Left
<1>3. ASSUME Money(r)
      PROVE  /\ r.op \in MoneyOps /\ r.loan \in Loan /\ h \in NodesOf(r.op)
             /\ rest # <<>> => <<h, k>> \in MoneyOrder(r.op)
             /\ rest = <<>> => h \in {"save", "update", "refuse"}
  BY <1>2, <1>3, <1>10, BackAt DEF Money
<1>4. rest # <<>> /\ Money(r) => Stands(c, k, r, m)'
  <2>1. todo'[c] = rest
    BY <1>2, TypedIs DEF Go
  <2> QED
    BY <1>2, <1>3, <1>13, <2>1
<1>5. ASSUME Money(r), NEW t \in Token \ {Onex}
      PROVE  Owned(t)' + (IF rest = <<>> THEN 0 ELSE Rest(k, r, m, t)) <= owned[c][t]
  <2>1. Owned(t) + Rest(h, r, mine[c], t) <= owned[c][t]
    BY <1>1, <1>5, <1>10 DEF BackInv
  <2>2. Owned(t) \in Int /\ Owned(t)' \in Int /\ owned[c][t] \in Int
    BY OwnedInt, OwnedIntNext DEF BackInv
  <2>3. Rest(h, r, m, t) \in Int /\ Effect(h, r, m, t) \in Int
    BY <1>3, <1>5, <1>11, Balanced
  <2>4. CASE rest = <<>>
    <3>1. Effect(h, r, m, t) <= Rest(h, r, m, t)
      BY <1>3, <1>5, <1>11, <2>4, Balanced
    <3> QED
      BY <1>5, <1>12, <2>1, <2>2, <2>3, <2>4, <3>1
  <2>5. CASE rest # <<>>
    <3>1. <<h, k>>[1] = h /\ <<h, k>>[2] = k
      OBVIOUS
    <3>2. Effect(h, r, m, t) + Rest(k, r, m, t) <= Rest(h, r, m, t)
      BY <1>3, <1>5, <1>11, <2>5, <3>1, Balanced
    <3>3. Rest(k, r, m, t) \in Int
      BY <1>3, <1>5, <1>11, <2>5, OrderIs, Balanced
    <3> QED
      BY <1>5, <1>12, <2>1, <2>2, <2>3, <2>5, <3>2, <3>3
  <2> QED
    BY <2>4, <2>5
<1>6. 1 \in Nat /\ 1 >= 1
  OBVIOUS
<1>7. rest \in {<<>>, SubSeq(todo[c], 1 + 1, Len(todo[c]))} /\ Go(c, rest, p, owner)
  BY <1>1, <1>2
<1>8. Money(r) => \A t \in Token \ {Onex} :
                     Owned(t)' + (IF rest = <<>> THEN 0 ELSE Rest(k, r, m, t)) <= owned[c][t]
  BY <1>5
<1>9. todo[c] # <<>> /\ k = Node(rest, 1)
  BY <1>1, <1>2
<1> QED
  BY <1>4, <1>6, <1>7, <1>8, <1>9, <1>10, BackGo

\* What there is does not change with the caches, while the copy in memory is
\* that of the request.
LEMMA OwnedSame ==
    ASSUME UNCHANGED <<cached, file, pools>>
    PROVE  \A t \in Token : Owned(t)' = Owned(t)
BY DEF Owned, Current

LEMMA BackRefuse ==
    ASSUME BackedAssumption, Typed, Typed', BackInv, NEW c \in Client, NEW step, At(c, step), Refuse(c), UNCHANGED pools,
           Money(ask[c]) => step \in Refusing
    PROVE  BackInv' /\ BackStep(c)
<1>1. Go(c, <<>>, view[c], alias) /\ UNCHANGED <<cached, file>>
  BY DEF Refuse, Change, BackInv
<1>2. \A t \in Token : Owned(t)' = Owned(t) /\ Owned(t) \in Int
  BY <1>1, OwnedSame, OwnedInt DEF BackInv
<1>3. PICK r, h, m, k : r = ask[c] /\ h = Node(todo[c], 1) /\ m = mine'[c] /\ k = Node(<<>>, 1)
  OBVIOUS
<1>4. ASSUME Money(r), NEW t \in Token \ {Onex}
      PROVE  Owned(t)' + 0 <= owned[c][t]
  <2>1. Owned(t) + Rest(h, r, mine[c], t) <= owned[c][t] /\ owned[c][t] \in Int
    BY <1>3, <1>4 DEF BackInv, At
  <2>2. r.op \in MoneyOps /\ r.loan \in Loan /\ h \in NodesOf(r.op) /\ h = step
    <3>1. step # "save"
      BY <1>3, <1>4 DEF Refusing
    <3> QED
      BY <1>3, <1>4, <3>1, BackAt DEF Money
  <2>3. 0 <= Rest(h, r, mine[c], t) /\ Rest(h, r, mine[c], t) \in Int
    BY <1>3, <1>4, <2>2, TypedIs, Balanced
  <2> QED
    BY <1>2, <2>1, <2>3
<1>5. 1 \in Nat /\ 1 >= 1 /\ todo[c] # <<>> /\ file' # Broken /\ (alias = c => cached' = view[c])
  BY <1>1 DEF At, BackInv
<1> QED
  BY <1>1, <1>2, <1>3, <1>4, <1>5, BackGo

-----------------------------------------------------------------------------
(* Steps on the copy *)

\* A step but the first ones keeps what a request knows.
LEMMA StandsOn ==
    ASSUME BackInv, NEW c \in Client, todo[c] # <<>>, NEW r, r = ask[c], Money(r), NEW h, h = Node(todo[c], 1),
           h \notin {"swap", "add", "remove", "load"}, NEW k, <<h, k>> \in MoneyOrder(r.op),
           UNCHANGED <<pools, mine>>, NEW m, m = mine[c], alias' = c \/ k \in Early
    PROVE  Stands(c, k, r, m)'
<1>1. /\ k # "keep"
      /\ r.op \in {"swap", "bridge", "add", "remove"} /\ k \in PoolNodes => h \in PoolNodes
  BY OrderIs DEF Money
<1>2. r.op \in {"swap", "bridge", "add", "remove"} /\ k \in PoolNodes => Gains(r.op, m, pools)
  BY <1>1 DEF BackInv, Stands
<1>3. Gains(r.op, m, pools) => Gains(r.op, m, pools)'
  BY DEF Gains
<1> QED
  BY <1>1, <1>2, <1>3 DEF Stands

LEMMA BackDoes ==
    ASSUME BackedAssumption, Typed, Typed', BackInv, NEW c \in Client, NEW step,
           step \notin Early \cup {"save", "isOpen", "update"}, NEW ok, NEW p, Does(c, step, ok, p),
           ok => p \in PortfolioRecord,
           Money(ask[c]) /\ step \in NodesOf(ask[c].op) =>
              IF ok THEN \A t \in Token \ {Onex} :
                            Holding(p, pools, t) <= Holding(view[c], pools, t) + Effect(step, ask[c], mine[c], t)
              ELSE step \in Refusing
    PROVE  BackInv' /\ BackStep(c)
<1>1. At(c, step) /\ UNCHANGED <<pools, mine>> /\ todo[c] # <<>>
  BY DEF Does, poolVars, At
<1>2. PICK r, h, m : r = ask[c] /\ h = Node(todo[c], 1) /\ m = mine[c]
  OBVIOUS
<1>3. Money(r) => h = step /\ step \in NodesOf(r.op) /\ alias = c
  <2> HAVE Money(r)
  <2>1. h = step /\ h \in NodesOf(r.op)
    <3>1. ask[c].op \in MoneyOps /\ step # "save"
      BY <1>2 DEF Money
    <3>3. At(c, step) /\ h = Node(todo[c], 1)
      BY <1>1, <1>2
    <3>2. h \in NodesOf(ask[c].op) /\ (h = step \/ (step = "save" /\ h = "savePool"))
      BY <3>1, <3>3, BackAt
    <3> QED
      BY <1>2, <3>1, <3>2
  <2>2. h \notin Early
    BY <2>1
  <2> QED
    BY <1>1, <1>2, <2>1, <2>2 DEF BackInv, Stands
<1>4. CASE ~ok
  <2>1. Refuse(c)
    BY <1>4 DEF Does
  <2> QED
    BY <1>1, <1>2, <1>3, <1>4, <2>1, BackRefuse
<1>5. CASE ok
  <2>1. /\ Go(c, Tail(todo[c]), p, alias) /\ Go(c, Left(todo[c]), p, alias)
        /\ cached' = (IF alias = c THEN p ELSE cached) /\ file' = file
    BY <1>5 DEF Does, Change, Left
  <2>2. file' # Broken /\ (alias = c => cached' = p) /\ m = mine'[c] /\ m \in MineRecord
    BY <1>1, <1>2, <2>1, TypedIs DEF BackInv
  <2>3. ASSUME Money(r), NEW t \in Token \ {Onex}
        PROVE  Owned(t)' <= Owned(t) + Effect(h, r, m, t)
    <3>1. cached' = p /\ cached = view[c] /\ view[c] \in PortfolioRecord /\ p \in PortfolioRecord
      BY <1>3, <1>5, <2>1, <2>3, TypedIs DEF BackInv
    <3>2. Current' = p /\ Current = view[c]
      BY <3>1 DEF Current, BackedAssumption
    <3>3. Owned(t)' = Holding(p, pools, t) /\ Owned(t) = Holding(view[c], pools, t)
      BY <1>1, <3>2 DEF Owned
    <3> QED
      BY <1>2, <1>3, <1>5, <2>3, <3>3
  <2>4. ASSUME Money(r), todo'[c] # <<>>, NEW k, <<h, k>> \in MoneyOrder(r.op)
        PROVE  Stands(c, k, r, m)'
    <3>1. alias' = c
      <4>1. todo'[c] = Tail(todo[c])
        BY <2>1, TypedIs DEF Go
      <4> QED
        BY <1>3, <2>1, <2>4, <4>1 DEF Go
    <3>2. h \notin {"swap", "add", "remove", "load"}
      BY <1>3, <2>4 DEF Early
    <3> QED
      BY <1>1, <1>2, <2>4, <3>1, <3>2, StandsOn
  <2>5. Money(r) => \A t \in Token \ {Onex} :
              /\ Owned(t)' <= Owned(t) + Effect(h, r, m, t)
              /\ Rest(h, r, m, t) = Rest(h, r, mine[c], t)
    BY <1>2, <2>3
  <2>6. Money(r) /\ todo'[c] # <<>> => \A k : <<h, k>> \in MoneyOrder(r.op) => Stands(c, k, r, m)'
    BY <2>4
  <2>7. Brings(c) /\ Leads(c) /\ mine'[c] \in MineRecord
    BY <1>2, <2>2, <2>5, <2>6 DEF Brings, Leads
  <2> QED
    BY <1>1, <2>1, <2>2, <2>7, BackTail
<1> QED
  BY <1>4, <1>5

LEMMA HoldingCopy ==
    ASSUME BackedAssumption, Typed, NEW c \in Client, NEW k, NEW x, k \in Key => x \in Nat, NEW t \in Token,
           NEW z, z = [view[c] EXCEPT !.bal[k] = x]
    PROVE  /\ view[c].bal \in [Key -> Nat] /\ t \in Key
           /\ z \in PortfolioRecord /\ Holding(view[c], pools, t) \in Int
           /\ Holding(z, pools, t)
              = Holding(view[c], pools, t) - view[c].bal[t] + (IF k = t THEN x ELSE view[c].bal[t])
<1>1. PICK v : v = view[c]
  OBVIOUS
<1>2. v \in PortfolioRecord /\ pools \in PoolFile /\ t \in Key
  BY <1>1, TypedIs DEF Key
<1>3. v.bal \in [Key -> Nat]
  BY <1>2, RecordIs
<1>4. z \in PortfolioRecord
  BY <1>1, <1>2, BalanceTyped
<1>5. z.loans = v.loans /\ z.bal[t] = IF k = t THEN x ELSE v.bal[t]
  BY <1>1, <1>2, <1>3, RecordIs
<1>6. Holding(z, pools, t) = Holding(v, pools, t) - v.bal[t] + z.bal[t]
  BY <1>2, <1>4, <1>5, HoldingOfBalance
<1>7. Holding(v, pools, t) \in Int
  BY <1>2, HoldingInt
<1> QED
  BY <1>1, <1>2, <1>3, <1>4, <1>5, <1>6, <1>7

LEMMA HoldingLess ==
    ASSUME BackedAssumption, Typed, NEW c \in Client, NEW k, NEW n \in Nat, NEW t \in Token,
           NEW p, p = [view[c] EXCEPT !.bal[k] = @ - n], view[c].bal[k] >= n \/ k \notin Key
    PROVE  /\ p \in PortfolioRecord /\ Holding(view[c], pools, t) \in Int
           /\ Holding(p, pools, t) = Holding(view[c], pools, t) - On(k, n, t)
<1>1. PICK x : x = view[c].bal[k] - n
  OBVIOUS
<1>2. view[c].bal \in [Key -> Nat]
  BY TypedIs, RecordIs
<1>3. k \in Key => view[c].bal[k] \in Nat /\ x \in Nat
  BY <1>1, <1>2
<1>4. p = [view[c] EXCEPT !.bal[k] = x]
  BY <1>1
<1>5. /\ t \in Key /\ p \in PortfolioRecord /\ Holding(view[c], pools, t) \in Int
      /\ Holding(p, pools, t)
         = Holding(view[c], pools, t) - view[c].bal[t] + (IF k = t THEN x ELSE view[c].bal[t])
  <2>1. k \in Key => x \in Nat
    BY <1>3
  <2> QED
    BY <1>4, <2>1, HoldingCopy
<1>6. view[c].bal[t] \in Nat
  BY <1>2, <1>5
<1> QED
  BY <1>1, <1>5, <1>6 DEF On

LEMMA HoldingMore ==
    ASSUME BackedAssumption, Typed, NEW c \in Client, NEW k, NEW n \in Nat, NEW t \in Token,
           NEW p, p = [view[c] EXCEPT !.bal[k] = @ + n]
    PROVE  /\ p \in PortfolioRecord /\ Holding(view[c], pools, t) \in Int
           /\ Holding(p, pools, t) = Holding(view[c], pools, t) + On(k, n, t)
<1>1. PICK x : x = view[c].bal[k] + n
  OBVIOUS
<1>2. view[c].bal \in [Key -> Nat]
  BY TypedIs, RecordIs
<1>3. k \in Key => view[c].bal[k] \in Nat /\ x \in Nat
  BY <1>1, <1>2
<1>4. p = [view[c] EXCEPT !.bal[k] = x]
  BY <1>1
<1>5. /\ t \in Key /\ p \in PortfolioRecord /\ Holding(view[c], pools, t) \in Int
      /\ Holding(p, pools, t)
         = Holding(view[c], pools, t) - view[c].bal[t] + (IF k = t THEN x ELSE view[c].bal[t])
  <2>1. k \in Key => x \in Nat
    BY <1>3
  <2> QED
    BY <1>4, <2>1, HoldingCopy
<1>6. view[c].bal[t] \in Nat
  BY <1>2, <1>5
<1> QED
  BY <1>1, <1>5, <1>6 DEF On

\* A debit or a credit, when it changes no more than its step may.
LEMMA BackMoves ==
    ASSUME BackedAssumption, Typed, Typed', BackInv, NEW c \in Client, NEW step,
           step \notin Early \cup {"save", "isOpen", "update"}, NEW k, NEW n \in Nat,
           \/ /\ Pays(c, step, k, n)
              /\ Money(ask[c]) /\ step \in NodesOf(ask[c].op) =>
                    /\ step \in Refusing
                    /\ \A t \in Token \ {Onex} :
                          Effect(step, ask[c], mine[c], t) \in Int /\ 0 - On(k, n, t) <= Effect(step, ask[c], mine[c], t)
           \/ /\ Gets(c, step, k, n)
              /\ Money(ask[c]) /\ step \in NodesOf(ask[c].op) =>
                    \A t \in Token \ {Onex} :
                       Effect(step, ask[c], mine[c], t) \in Int /\ On(k, n, t) <= Effect(step, ask[c], mine[c], t)
    PROVE  BackInv' /\ BackStep(c)
<1>1. ASSUME NEW t \in Token
      PROVE  On(k, n, t) \in Int
  BY OnInt
<1>2. Token # {}
  BY PortfolioAssumed DEF PortfolioAssumption
<1>3. CASE /\ Pays(c, step, k, n)
           /\ Money(ask[c]) /\ step \in NodesOf(ask[c].op) =>
                 /\ step \in Refusing
                 /\ \A t \in Token \ {Onex} :
                       Effect(step, ask[c], mine[c], t) \in Int /\ 0 - On(k, n, t) <= Effect(step, ask[c], mine[c], t)
  <2>1. PICK p : p = [view[c] EXCEPT !.bal[k] = @ - n]
    OBVIOUS
  <2>2. PICK ok : ok = (view[c].bal[k] >= n)
    OBVIOUS
  <2>3. Does(c, step, view[c].bal[k] >= n, p)
    BY <1>3, <2>1 DEF Pays
  <2>4. view[c].bal[k] >= n => p \in PortfolioRecord
    BY <1>2, <2>1, HoldingLess
  <2>5. ASSUME Money(ask[c]), step \in NodesOf(ask[c].op), view[c].bal[k] >= n, NEW t \in Token \ {Onex}
        PROVE  Holding(p, pools, t) <= Holding(view[c], pools, t) + Effect(step, ask[c], mine[c], t)
    <3>3. t \in Token
      OBVIOUS
    <3>1. Holding(p, pools, t) = Holding(view[c], pools, t) - On(k, n, t) /\ Holding(view[c], pools, t) \in Int
      BY <2>1, <2>5, <3>3, HoldingLess
    <3>2. /\ Effect(step, ask[c], mine[c], t) \in Int /\ 0 - On(k, n, t) <= Effect(step, ask[c], mine[c], t)
          /\ On(k, n, t) \in Int
      BY <1>1, <1>3, <2>5
    <3> QED
      BY <3>1, <3>2
  <2>6. Money(ask[c]) /\ step \in NodesOf(ask[c].op) =>
           IF view[c].bal[k] >= n
           THEN \A t \in Token \ {Onex} :
                   Holding(p, pools, t) <= Holding(view[c], pools, t) + Effect(step, ask[c], mine[c], t)
           ELSE step \in Refusing
    BY <1>3, <2>5
  <2> QED
    BY <2>3, <2>4, <2>6, BackDoes
<1>4. CASE /\ Gets(c, step, k, n)
           /\ Money(ask[c]) /\ step \in NodesOf(ask[c].op) =>
                 \A t \in Token \ {Onex} :
                    Effect(step, ask[c], mine[c], t) \in Int /\ On(k, n, t) <= Effect(step, ask[c], mine[c], t)
  <2>1. PICK p : p = [view[c] EXCEPT !.bal[k] = @ + n]
    OBVIOUS
  <2>2. Does(c, step, TRUE, p)
    BY <1>4, <2>1 DEF Gets
  <2>3. \A u \in Token : /\ p \in PortfolioRecord /\ Holding(view[c], pools, u) \in Int
                         /\ Holding(p, pools, u) = Holding(view[c], pools, u) + On(k, n, u)
    BY <2>1, HoldingMore
  <2>4. ASSUME Money(ask[c]), step \in NodesOf(ask[c].op), NEW t \in Token \ {Onex}
        PROVE  Holding(p, pools, t) <= Holding(view[c], pools, t) + Effect(step, ask[c], mine[c], t)
    <3>3. t \in Token
      OBVIOUS
    <3>1. /\ p \in PortfolioRecord /\ Holding(view[c], pools, t) \in Int
          /\ Holding(p, pools, t) = Holding(view[c], pools, t) + On(k, n, t)
      BY <2>3, <3>3
    <3>2. /\ Effect(step, ask[c], mine[c], t) \in Int /\ On(k, n, t) <= Effect(step, ask[c], mine[c], t)
          /\ On(k, n, t) \in Int
      BY <1>1, <1>4, <2>4
    <3> QED
      BY <3>1, <3>2
  <2>5. Money(ask[c]) /\ step \in NodesOf(ask[c].op) =>
           IF TRUE
           THEN \A t \in Token \ {Onex} :
                   Holding(p, pools, t) <= Holding(view[c], pools, t) + Effect(step, ask[c], mine[c], t)
           ELSE step \in Refusing
    BY <2>4
  <2> QED
    BY <1>2, <2>2, <2>3, <2>5, BackDoes
<1> QED
  BY <1>3, <1>4

\* The other changes of a copy that concern no request here.
LEMMA BackOther ==
    ASSUME BackedAssumption, Typed, Typed', BackInv, NEW c \in Client,
           NEW step \in {"get", "lock", "receipt", "staked", "redeem", "principal", "unstaked", "starter"},
           NEW ok, NEW p, Does(c, step, ok, p), ok => p \in PortfolioRecord
    PROVE  BackInv' /\ BackStep(c)
<1>1. step \notin Early \cup {"save", "isOpen", "update"}
  BY DEF Early
<1>2. ~(Money(ask[c]) /\ step \in NodesOf(ask[c].op))
  BY NodesAre DEF Money
<1> QED
  BY <1>1, <1>2, BackDoes

\* A debit and a credit of amounts the request names.
LEMMA MovesTyped ==
    ASSUME BackedAssumption, Typed, NEW c \in Client, NEW k, NEW n \in Nat
    PROVE  /\ view[c].bal[k] >= n => [view[c] EXCEPT !.bal[k] = @ - n] \in PortfolioRecord
           /\ [view[c] EXCEPT !.bal[k] = @ + n] \in PortfolioRecord
<1>1. Onex \in Token
  BY PortfolioAssumed DEF PortfolioAssumption
<1> QED
  BY <1>1, HoldingLess, HoldingMore

LEMMA BackTransfer ==
    ASSUME BackedAssumption, Typed, Typed', BackInv, NEW c \in Client, Transfer(c)
    PROVE  BackInv' /\ BackStep(c)
<1>1. todo[c] # <<>> /\ ask[c] \in Request
  BY TypedIs DEF Transfer, Pays, Gets, Does, At
<1>2. ask[c].n \in Nat /\ ask[c].m \in Nat
  BY <1>1 DEF Request
<1>3. CASE Pays(c, "pay", ask[c].key, ask[c].n)
  <2>1. \A t \in Token : On(ask[c].key, ask[c].n, t) \in Nat
    BY <1>2 DEF On
  <2>2. "pay" \notin Early \cup {"save", "isOpen", "update"} /\ "pay" \in Refusing
    BY DEF Early, Refusing
  <2>3. \A t \in Token \ {Onex} :
           /\ Effect("pay", ask[c], mine[c], t) \in Int
           /\ 0 - On(ask[c].key, ask[c].n, t) <= Effect("pay", ask[c], mine[c], t)
    BY <2>1 DEF Effect
  <2> QED
    BY <1>2, <1>3, <2>2, <2>3, BackMoves
<1>4. CASE Gets(c, "get", ask[c].to, ask[c].m)
  BY <1>2, <1>4, MovesTyped, BackOther DEF Gets
<1>5. CASE Does(c, "refuse", FALSE, view[c])
  <2>1. "refuse" \notin Early \cup {"save", "isOpen", "update"} /\ "refuse" \in Refusing
    BY DEF Early, Refusing
  <2> QED
    BY <1>5, <2>1, BackDoes
<1> QED
  BY <1>3, <1>4, <1>5 DEF Transfer

LEMMA BackStakes ==
    ASSUME BackedAssumption, Typed, Typed', BackInv, NEW c \in Client, StakeStep(c)
    PROVE  BackInv' /\ BackStep(c)
<1>1. PICK s, p : s = ask[c].stake /\ p = view[c]
  OBVIOUS
<1>2. PICK receipt : receipt = s.n + s.n \div BonusOne
  OBVIOUS
<1>3. todo[c] # <<>> /\ ask[c] \in Request
  BY TypedIs DEF StakeStep, Pays, Gets, Does, At
<1>4. s \in Stake /\ s.n \in Nat /\ receipt \in Nat /\ p \in PortfolioRecord
  <2>1. s \in Stake /\ s.n \in Nat /\ BonusOne \in Nat \ {0}
    BY <1>1, <1>3, PortfolioAssumed DEF Request, PortfolioAssumption, StakeTerms
  <2>2. s.n \div BonusOne \in Nat
    BY <2>1
  <2> QED
    BY <1>1, <1>2, <2>1, <2>2, TypedIs
<1>5. CASE Pays(c, "lock", s.key, s.n) \/ Gets(c, "receipt", s.receipt, receipt)
  BY <1>1, <1>4, <1>5, MovesTyped, BackOther DEF Pays, Gets
<1>6. CASE Does(c, "staked", TRUE, [p EXCEPT !.stakes[s] = @ + 1])
  <2>1. [p EXCEPT !.stakes[s] = @ + 1] \in PortfolioRecord
    <3>1. p.stakes[s] + 1 \in Nat
      BY <1>4, RecordIs
    <3> QED
      BY <1>4, <3>1, TermsTyped
  <2> QED
    BY <1>6, <2>1, BackOther
<1>7. ASSUME NEW unlocked \in BOOLEAN,
             Does(c, "redeem", unlocked /\ p.stakes[s] > 0 /\ p.bal[s.receipt] >= receipt,
                  [p EXCEPT !.bal[s.receipt] = @ - receipt])
      PROVE  BackInv' /\ BackStep(c)
  <2>1. p.bal[s.receipt] >= receipt => [p EXCEPT !.bal[s.receipt] = @ - receipt] \in PortfolioRecord
    BY <1>1, <1>4, MovesTyped
  <2> QED
    BY <1>7, <2>1, BackOther
<1>8. ASSUME NEW reward \in {0, 1}, Gets(c, "principal", s.key, s.n + reward)
      PROVE  BackInv' /\ BackStep(c)
  <2>1. s.n + reward \in Nat
    BY <1>4
  <2> QED
    BY <1>1, <1>8, <2>1, MovesTyped, BackOther DEF Gets
<1>9. CASE Does(c, "unstaked", TRUE, [p EXCEPT !.stakes[s] = @ - 1])
  <2>1. p.stakes[s] > 0
    <3>1. Does(c, "unstaked", TRUE, [p EXCEPT !.stakes[s] = @ - 1]) => At(c, "unstaked")
      BY DEF Does
    <3> QED
      BY <1>1, <1>9, <3>1, TypedIs DEF At, DueInv, Due
  <2>2. [p EXCEPT !.stakes[s] = @ - 1] \in PortfolioRecord
    <3>1. p.stakes[s] - 1 \in Nat
      BY <1>4, <2>1, RecordIs
    <3> QED
      BY <1>4, <3>1, TermsTyped
  <2> QED
    BY <1>9, <2>2, BackOther
<1> QED
  BY <1>1, <1>2, <1>5, <1>6, <1>7, <1>8, <1>9 DEF StakeStep
\* What a pool's operation takes and gives.
LEMMA BackAmounts ==
    ASSUME BackedAssumption, Typed, Typed', BackInv, NEW c \in Client, NEW m, m = mine[c],
           \/ Pays(c, "pay0", m.key0, m.n0) \/ Pays(c, "pay1", m.key1, m.n1)
           \/ Gets(c, "get0", m.key0, m.n0) \/ Gets(c, "get1", m.key1, m.n1)
           \/ Pays(c, "burn", ask[c].pair, m.shares) \/ Gets(c, "shares", ask[c].pair, m.shares)
    PROVE  BackInv' /\ BackStep(c)
<1>1. m \in MineRecord /\ m.n0 \in Nat /\ m.n1 \in Nat /\ m.shares \in Nat
  BY TypedIs DEF MineRecord
<1>2. \A t \in Token : On(m.key0, m.n0, t) \in Nat /\ On(m.key1, m.n1, t) \in Nat
  BY <1>1 DEF On
<1>3. \A step \in {"pay0", "pay1", "get0", "get1", "burn", "shares"} : step \notin Early \cup {"save", "isOpen", "update"}
  BY DEF Early
<1>4. \A step \in {"pay0", "pay1", "burn"} : step \in Refusing
  BY DEF Refusing
<1>5. \A t \in Token : On(ask[c].pair, m.shares, t) = 0
  <2>1. todo[c] # <<>>
    BY DEF Pays, Gets, Does, At
  <2>2. ask[c].pair \in Pair
    BY <2>1, TypedIs DEF Request
  <2> QED
    BY <2>2 DEF On, BackedAssumption
<1>6. \A t \in Token \ {Onex} :
         /\ Effect("pay0", ask[c], m, t) \in Int /\ 0 - On(m.key0, m.n0, t) <= Effect("pay0", ask[c], m, t)
         /\ Effect("pay1", ask[c], m, t) \in Int /\ 0 - On(m.key1, m.n1, t) <= Effect("pay1", ask[c], m, t)
         /\ Effect("get0", ask[c], m, t) \in Int /\ On(m.key0, m.n0, t) <= Effect("get0", ask[c], m, t)
         /\ Effect("get1", ask[c], m, t) \in Int /\ On(m.key1, m.n1, t) <= Effect("get1", ask[c], m, t)
  BY <1>2 DEF Effect
<1>7. \A t \in Token \ {Onex} :
         /\ Effect("burn", ask[c], m, t) \in Int /\ 0 - On(ask[c].pair, m.shares, t) <= Effect("burn", ask[c], m, t)
         /\ Effect("shares", ask[c], m, t) \in Int /\ On(ask[c].pair, m.shares, t) <= Effect("shares", ask[c], m, t)
  BY <1>5 DEF Effect
<1>8. CASE Pays(c, "pay0", m.key0, m.n0)
  BY <1>1, <1>3, <1>4, <1>6, <1>8, BackMoves
<1>9. CASE Pays(c, "pay1", m.key1, m.n1)
  BY <1>1, <1>3, <1>4, <1>6, <1>9, BackMoves
<1>10. CASE Gets(c, "get0", m.key0, m.n0)
  BY <1>1, <1>3, <1>6, <1>10, BackMoves
<1>11. CASE Gets(c, "get1", m.key1, m.n1)
  BY <1>1, <1>3, <1>6, <1>11, BackMoves
<1>12. CASE Pays(c, "burn", ask[c].pair, m.shares)
  BY <1>1, <1>3, <1>4, <1>7, <1>12, BackMoves
<1>13. CASE Gets(c, "shares", ask[c].pair, m.shares)
  BY <1>1, <1>3, <1>7, <1>13, BackMoves
<1> QED
  BY <1>8, <1>9, <1>10, <1>11, <1>12, <1>13

LEMMA BackStarter ==
    ASSUME BackedAssumption, Typed, Typed', BackInv, NEW c \in Client, GiveStarter(c)
    PROVE  BackInv' /\ BackStep(c)
<1>1. PICK ok, b : /\ b = [k \in Key |-> IF view[c].bal[k] = 0 THEN Starter[k] ELSE view[c].bal[k]]
                   /\ Does(c, "starter", ok, [view[c] EXCEPT !.bal = b])
  BY DEF GiveStarter
<1>2. view[c] \in PortfolioRecord /\ view[c].bal \in [Key -> Nat] /\ Starter \in [Key -> Nat]
  BY TypedIs, RecordIs, PortfolioAssumed DEF PortfolioAssumption, Amounts
<1>3. b \in [Key -> Nat]
  BY <1>1, <1>2
<1>4. [view[c] EXCEPT !.bal = b] \in PortfolioRecord
  BY <1>2, <1>3, BalTyped
<1> QED
  BY <1>1, <1>4, BackOther

\* A step passed over that is none of these requests'.
LEMMA BackSeeds ==
    ASSUME BackedAssumption, Typed, Typed', BackInv, NEW c \in Client, Reseed(c) \/ SeedPools(c)
    PROVE  BackInv' /\ BackStep(c)
<1>1. PICK step \in {"reseed", "seedPools"}, n \in {1, 2} : At(c, step) /\ Skip(c, n)
  BY DEF Reseed, SeedPools
<1>2. ~Money(ask[c])
  <2> SUFFICES ASSUME ask[c].op \in MoneyOps
               PROVE  FALSE
    BY DEF Money
  <2>1. step \in NodesOf(ask[c].op)
    BY <1>1, BackAt
  <2> QED
    BY <2>1, NodesAre
<1>3. PICK rest : rest = SubSeq(todo[c], n + 1, Len(todo[c]))
  OBVIOUS
<1>4. Go(c, rest, view[c], alias) /\ file' # Broken /\ (alias = c => cached' = view[c]) /\ todo[c] # <<>>
  BY <1>1, <1>3 DEF Skip, Change, At, BackInv
<1>5. n \in Nat /\ n >= 1
  OBVIOUS
<1>6. PICK r, h, m : r = ask[c] /\ h = Node(rest, 1) /\ m = mine'[c]
  OBVIOUS
<1> QED
  BY <1>2, <1>3, <1>4, <1>5, <1>6, BackGo

-----------------------------------------------------------------------------
(* Loans and tasks *)

LEMMA BackLoan ==
    ASSUME BackedAssumption, Typed, Typed', BackInv, NEW c \in Client, LoanStep(c)
    PROVE  BackInv' /\ BackStep(c)
<1>1. PICK l, p, r, m : l = ask[c].loan /\ p = view[c] /\ r = ask[c] /\ m = mine[c]
  OBVIOUS
<1>2. todo[c] # <<>> /\ r \in Request
  BY <1>1, TypedIs DEF LoanStep, Pays, Gets, Does, At
<1>3. l \in Loan /\ l.col \in Nat /\ l.debt \in Nat /\ p \in PortfolioRecord /\ m \in MineRecord /\ pools \in PoolFile
  BY <1>1, <1>2, LoanIs, TypedIs DEF Request
<1>4. \A step \in {"pledge", "borrow", "lent", "payDebt", "release", "repaid"} :
         step \notin Early \cup {"save", "isOpen", "update"}
  BY DEF Early
<1>5. "pledge" \in Refusing /\ "payDebt" \in Refusing
  BY DEF Refusing
<1>6. \A t \in Token : /\ On(l.key, l.col, t) \in Nat /\ On(l.debtKey, l.debt, t) \in Nat /\ Borrowed(l, t) \in Nat
                       /\ LoanWorth(l, t) \in Int
  BY <1>3, AmountsInt, LoanWorthInt
<1>7. \A t \in Token :
         /\ Effect("pledge", r, m, t) = 0 - On(l.key, l.col, t) /\ Effect("borrow", r, m, t) = Borrowed(l, t)
         /\ Effect("lent", r, m, t) = LoanWorth(l, t) /\ Effect("payDebt", r, m, t) = 0 - On(l.debtKey, l.debt, t)
         /\ Effect("release", r, m, t) = On(l.key, l.col, t) /\ Effect("repaid", r, m, t) = 0 - LoanWorth(l, t)
  BY <1>1 DEF Effect
<1>8. CASE Pays(c, "pledge", l.key, l.col)
  <2>1. \A t \in Token \ {Onex} :
           Effect("pledge", r, m, t) \in Int /\ 0 - On(l.key, l.col, t) <= Effect("pledge", r, m, t)
    BY <1>6, <1>7
  <2> QED
    BY <1>1, <1>3, <1>4, <1>5, <1>8, <2>1, BackMoves
<1>9. CASE Gets(c, "borrow", l.debtKey, IF l.kind = "borrow" THEN l.debt ELSE 0)
  <2>1. PICK n : n = IF l.kind = "borrow" THEN l.debt ELSE 0
    OBVIOUS
  <2>2. n \in Nat /\ \A t \in Token : On(l.debtKey, n, t) = Borrowed(l, t)
    BY <1>3, <2>1 DEF On, Borrowed
  <2>3. \A t \in Token \ {Onex} :
           Effect("borrow", r, m, t) \in Int /\ On(l.debtKey, n, t) <= Effect("borrow", r, m, t)
    BY <1>6, <1>7, <2>2
  <2> QED
    BY <1>1, <1>4, <1>9, <2>1, <2>2, <2>3, BackMoves
<1>10. CASE Does(c, "lent", TRUE, [p EXCEPT !.loans[l] = @ + 1])
  <2>1. PICK q : q = [p EXCEPT !.loans[l] = @ + 1]
    OBVIOUS
  <2>2. p.loans \in [Loan -> Nat] /\ p.loans[l] + 1 \in Nat
    BY <1>3, RecordIs
  <2>3. q \in PortfolioRecord
    BY <1>3, <2>1, <2>2, TermsTyped
  <2>4. q.bal = p.bal /\ q.loans[l] = p.loans[l] + 1 /\ \A k \in Loan : k # l => q.loans[k] = p.loans[k]
    BY <1>3, <2>1, <2>2, RecordIs
  <2>5. \A t \in Token \ {Onex} : Holding(q, pools, t) <= Holding(p, pools, t) + Effect("lent", r, m, t)
    <3> SUFFICES ASSUME NEW t \in Token
                 PROVE  Holding(q, pools, t) <= Holding(p, pools, t) + Effect("lent", r, m, t)
      OBVIOUS
    <3>1. Holding(q, pools, t) = Holding(p, pools, t) + LoanWorth(l, t)
      BY <1>3, <2>3, <2>4, HoldingOfLoan
    <3>2. Holding(p, pools, t) \in Int
      BY <1>3, HoldingInt
    <3> QED
      BY <1>6, <1>7, <3>1, <3>2
  <2> QED
    BY <1>1, <1>4, <1>10, <2>1, <2>3, <2>5, BackDoes
<1>11. CASE Does(c, "payDebt", p.loans[l] > 0 /\ p.bal[l.debtKey] >= l.debt, [p EXCEPT !.bal[l.debtKey] = @ - l.debt])
  <2>1. PICK q, ok : q = [p EXCEPT !.bal[l.debtKey] = @ - l.debt] /\ ok = (p.loans[l] > 0 /\ p.bal[l.debtKey] >= l.debt)
    OBVIOUS
  <2>2. ASSUME ok, NEW t \in Token
        PROVE  q \in PortfolioRecord /\ Holding(q, pools, t) <= Holding(p, pools, t) + Effect("payDebt", r, m, t)
    <3>1. /\ q \in PortfolioRecord /\ Holding(p, pools, t) \in Int
          /\ Holding(q, pools, t) = Holding(p, pools, t) - On(l.debtKey, l.debt, t)
      <4>1. PICK k, n : k = l.debtKey /\ n = l.debt /\ n \in Nat
        BY <1>3
      <4>2. view[c].bal[k] >= n /\ q = [view[c] EXCEPT !.bal[k] = @ - n]
        BY <1>1, <2>1, <2>2, <4>1
      <4>3. \A u \in Token : /\ q \in PortfolioRecord /\ Holding(view[c], pools, u) \in Int
                             /\ Holding(q, pools, u) = Holding(view[c], pools, u) - On(k, n, u)
        BY <4>1, <4>2, HoldingLess
      <4> QED
        BY <1>1, <4>1, <4>3
    <3> QED
      BY <1>6, <1>7, <3>1
  <2>3. ok => q \in PortfolioRecord
    BY <2>2, PortfolioAssumed DEF PortfolioAssumption
  <2>4. Money(r) /\ "payDebt" \in NodesOf(r.op) =>
           IF ok THEN \A t \in Token \ {Onex} : Holding(q, pools, t) <= Holding(p, pools, t) + Effect("payDebt", r, m, t)
           ELSE "payDebt" \in Refusing
    BY <1>5, <2>2
  <2> QED
    BY <1>1, <1>4, <1>11, <2>1, <2>3, <2>4, BackDoes
<1>12. CASE Gets(c, "release", l.key, l.col)
  <2>1. \A t \in Token \ {Onex} :
           Effect("release", r, m, t) \in Int /\ On(l.key, l.col, t) <= Effect("release", r, m, t)
    BY <1>6, <1>7
  <2> QED
    BY <1>1, <1>3, <1>4, <1>12, <2>1, BackMoves
<1>13. CASE Does(c, "repaid", TRUE, [p EXCEPT !.loans[l] = @ - 1])
  <2>1. PICK q : q = [p EXCEPT !.loans[l] = @ - 1]
    OBVIOUS
  <2>2. p.loans[l] > 0
    <3>1. At(c, "repaid")
      BY <1>13 DEF Does
    <3> QED
      BY <1>1, <3>1, TypedIs DEF At, DueInv, Due
  <2>3. p.loans \in [Loan -> Nat] /\ p.loans[l] - 1 \in Nat
    BY <1>3, <2>2, RecordIs
  <2>4. q \in PortfolioRecord
    BY <1>3, <2>1, <2>3, TermsTyped
  <2>5. q.bal = p.bal /\ q.loans[l] = p.loans[l] - 1 /\ \A k \in Loan : k # l => q.loans[k] = p.loans[k]
    BY <1>3, <2>1, <2>3, RecordIs
  <2>6. \A t \in Token \ {Onex} : Holding(q, pools, t) <= Holding(p, pools, t) + Effect("repaid", r, m, t)
    <3> SUFFICES ASSUME NEW t \in Token
                 PROVE  Holding(q, pools, t) <= Holding(p, pools, t) + Effect("repaid", r, m, t)
      OBVIOUS
    <3>1. Holding(q, pools, t) = Holding(p, pools, t) - LoanWorth(l, t)
      BY <1>3, <2>4, <2>5, HoldingOfLoan
    <3>2. Holding(p, pools, t) \in Int
      BY <1>3, HoldingInt
    <3> QED
      BY <1>6, <1>7, <3>1, <3>2
  <2> QED
    BY <1>1, <1>4, <1>13, <2>1, <2>4, <2>6, BackDoes
<1> QED
  BY <1>1, <1>8, <1>9, <1>10, <1>11, <1>12, <1>13 DEF LoanStep
LEMMA BackTask ==
    ASSUME BackedAssumption, Typed, Typed', BackInv, NEW c \in Client, TaskStep(c)
    PROVE  BackInv' /\ BackStep(c)
<1>1. PICK r, h, m, t, p, reward :
         /\ r = ask[c] /\ h = Node(todo[c], 1) /\ m = mine[c] /\ t = TaskNow(r) /\ p = view[c] /\ reward = RewardOf[t]
  OBVIOUS
<1>2. \/ At(c, "isOpen") /\ UNCHANGED <<pools, mine>> /\ (Skip(c, 1) \/ Skip(c, 4))
      \/ Does(c, "mark", TRUE, [p EXCEPT !.open = @ \ {t}])
      \/ Does(c, "reward", TRUE, [p EXCEPT !.bal[reward.key] = @ + reward.n, !.earned[t] = @ + 1])
  BY <1>1 DEF TaskStep, TaskNow, poolVars
<1>3. p \in PortfolioRecord /\ m \in MineRecord
  BY <1>1, TypedIs
<1>4. CASE Does(c, "mark", TRUE, [p EXCEPT !.open = @ \ {t}])
  <2>1. PICK q : q = [p EXCEPT !.open = @ \ {t}]
    OBVIOUS
  <2>2. q \in PortfolioRecord /\ q.bal = p.bal /\ q.loans = p.loans
    <3>1. p = [bal |-> p.bal, open |-> p.open, earned |-> p.earned, loans |-> p.loans, stakes |-> p.stakes]
      BY <1>3, RecordIs
    <3>2. q = [bal |-> p.bal, open |-> p.open \ {t}, earned |-> p.earned, loans |-> p.loans, stakes |-> p.stakes]
      BY <2>1, <3>1
    <3>3. q \in PortfolioRecord
      BY <1>3, <2>1, MarkTyped
    <3> QED
      BY <3>2, <3>3
  <2>3. \A x \in Token \ {Onex} : Holding(q, pools, x) <= Holding(p, pools, x) + Effect("mark", r, m, x)
    <3> SUFFICES ASSUME NEW x \in Token
                 PROVE  Holding(q, pools, x) <= Holding(p, pools, x) + Effect("mark", r, m, x)
      OBVIOUS
    <3>1. Holding(q, pools, x) = Holding(p, pools, x)
      BY <2>2 DEF Holding
    <3>2. Holding(p, pools, x) \in Int /\ Effect("mark", r, m, x) = 0
      BY <1>3, TypedIs, HoldingInt DEF Effect
    <3> QED
      BY <3>1, <3>2
  <2>4. "mark" \notin Early \cup {"save", "isOpen", "update"}
    BY DEF Early
  <2> QED
    BY <1>1, <1>4, <2>1, <2>2, <2>3, <2>4, BackDoes
<1>5. CASE Does(c, "reward", TRUE, [p EXCEPT !.bal[reward.key] = @ + reward.n, !.earned[t] = @ + 1])
  <2>1. PICK q : q = [p EXCEPT !.bal[reward.key] = @ + reward.n, !.earned[t] = @ + 1]
    OBVIOUS
  <2>2. t \in Task
    <3>1. At(c, "reward")
      BY <1>5 DEF Does
    <3> QED
      BY <1>1, <3>1, TypedIs DEF At, DueInv, Due
  <2>3. q \in PortfolioRecord
    BY <1>1, <1>3, <2>1, <2>2, RewardTyped
  <2>4. ASSUME Money(r), "reward" \in NodesOf(r.op), NEW x \in Token \ {Onex}
        PROVE  Holding(q, pools, x) <= Holding(p, pools, x) + Effect("reward", r, m, x)
    <3>1. reward.key = Onex
      <4>1. r.op \in {"swap", "bridge"}
        BY <2>4, NodesAre DEF Money
      <4>2. t = TaskOf[r.op]
        BY <1>1, <4>1 DEF TaskNow
      <4> QED
        BY <1>1, <2>2, <4>1, <4>2 DEF BackedAssumption
    <3>2. q.bal[x] = p.bal[x] /\ q.loans = p.loans
      BY <1>3, <2>1, <2>4, <3>1, RecordIs DEF Key
    <3>3. Holding(q, pools, x) = Holding(p, pools, x)
      BY <3>2 DEF Holding
    <3>4. Holding(p, pools, x) \in Int /\ Effect("reward", r, m, x) = 0
      BY <1>3, TypedIs, HoldingInt DEF Effect
    <3> QED
      BY <3>3, <3>4
  <2>5. "reward" \notin Early \cup {"save", "isOpen", "update"}
    BY DEF Early
  <2> QED
    BY <1>1, <1>5, <2>1, <2>3, <2>4, <2>5, BackDoes
<1>6. ASSUME At(c, "isOpen"), UNCHANGED <<pools, mine>>, NEW n \in {1, 4}, Skip(c, n)
      PROVE  BackInv' /\ BackStep(c)
  <2>1. PICK rest, k : rest = SubSeq(todo[c], n + 1, Len(todo[c])) /\ k = Node(rest, 1)
    OBVIOUS
  <2>2. Go(c, rest, p, alias) /\ todo[c] # <<>> /\ cached' = (IF alias = c THEN p ELSE cached) /\ file' = file
    BY <1>1, <1>6, <2>1 DEF Skip, Change, At
  <2>3. /\ cached' = cached /\ file' # Broken /\ (alias = c => cached' = p)
        /\ \A x \in Token : Owned(x)' = Owned(x) /\ Owned(x) \in Int
    <3>1. cached' = cached
      BY <1>1, <2>2 DEF BackInv
    <3> QED
      BY <1>1, <1>6, <2>2, <3>1, OwnedSame, OwnedInt DEF BackInv
  <2>4. m = mine'[c] /\ n \in Nat /\ n >= 1
    BY <1>1, <1>6
  <2>5. ASSUME Money(r)
        PROVE  /\ r.op \in {"swap", "bridge"} /\ h = "isOpen" /\ r.loan \in Loan /\ MoneyWay(todo[c], r.op)
               /\ rest # <<>> => k \in {"mark", "isOpen", "secondLeg"}
               /\ alias = c
    <3>1. r.op \in MoneyOps /\ r.loan \in Loan /\ h \in NodesOf(r.op) /\ h = "isOpen" /\ MoneyWay(todo[c], r.op)
      BY <1>1, <1>6, <2>5, BackAt DEF Money
    <3>2. alias = c
      <4>1. h \notin Early
        BY <3>1 DEF Early
      <4> QED
        BY <1>1, <2>2, <2>5, <4>1 DEF BackInv, Stands
    <3>3. r.op \in {"swap", "bridge"}
      BY <3>1 DEF NodesOf, MoneyOrder, SwapOrder, BridgeOrder, AddOrder, RemoveOrder, MoneyOps
    <3>4. ASSUME rest # <<>>
          PROVE  k \in {"mark", "isOpen", "secondLeg"}
      <4>1. /\ k = Node(todo[c], n + 1)
            /\ \A i \in 1..n : <<Node(todo[c], i), Node(todo[c], i + 1)>> \in MoneyOrder(r.op)
        BY <2>1, <2>4, <3>1, <3>4, MoneyRest
      <4>2. \A x, y : <<x, y>> \in MoneyOrder(r.op) =>
               /\ x = "isOpen" => y = "mark" /\ (x = "mark" => y = "reward") /\ (x = "reward" => y = "save")
               /\ x = "mark" => y = "reward"
               /\ x = "reward" => y = "save"
               /\ x = "save" => y \in {"isOpen", "secondLeg"}
        BY <3>3 DEF MoneyOrder, SwapOrder, BridgeOrder
      <4>3. CASE n = 1
        <5>1. <<Node(todo[c], 1), Node(todo[c], 2)>> \in MoneyOrder(r.op) /\ k = Node(todo[c], 2)
          BY <4>1, <4>3
        <5> QED
          BY <1>1, <3>1, <4>2, <5>1
      <4>4. CASE n = 4
        <5>1. /\ <<Node(todo[c], 1), Node(todo[c], 2)>> \in MoneyOrder(r.op)
              /\ <<Node(todo[c], 2), Node(todo[c], 3)>> \in MoneyOrder(r.op)
              /\ <<Node(todo[c], 3), Node(todo[c], 4)>> \in MoneyOrder(r.op)
              /\ <<Node(todo[c], 4), Node(todo[c], 5)>> \in MoneyOrder(r.op)
              /\ k = Node(todo[c], 5)
          BY <4>1, <4>4
        <5> QED
          BY <1>1, <3>1, <4>2, <5>1
      <4> QED
        BY <4>3, <4>4
    <3> QED
      BY <3>1, <3>2, <3>3, <3>4
  <2>6. rest # <<>> /\ Money(r) => Stands(c, k, r, m)'
    <3> HAVE rest # <<>> /\ Money(r)
    <3>1. k \in {"mark", "isOpen", "secondLeg"} /\ alias = c /\ alias' = alias
      BY <2>2, <2>5 DEF Go
    <3>2. k # "keep" /\ k \notin PoolNodes
      BY <3>1 DEF PoolNodes
    <3> QED
      BY <3>1, <3>2 DEF Stands
  <2>7. Money(r) => \A x \in Token \ {Onex} :
                       Owned(x)' + (IF rest = <<>> THEN 0 ELSE Rest(k, r, m, x)) <= owned[c][x]
    <3> SUFFICES ASSUME Money(r), NEW x \in Token \ {Onex}
                 PROVE  Owned(x)' + (IF rest = <<>> THEN 0 ELSE Rest(k, r, m, x)) <= owned[c][x]
      OBVIOUS
    <3>1. Owned(x) + Rest(h, r, m, x) <= owned[c][x]
      BY <1>1, <2>2 DEF BackInv
    <3>2. Rest(h, r, m, x) = 0 /\ (rest # <<>> => Rest(k, r, m, x) = 0)
      BY <2>5 DEF Rest
    <3>3. Owned(x)' = Owned(x) /\ Owned(x) \in Int
      BY <2>3
    <3> QED
      BY <3>1, <3>2, <3>3
  <2> QED
    BY <1>1, <2>1, <2>2, <2>3, <2>4, <2>6, <2>7, BackGo
<1> QED
  BY <1>1, <1>2, <1>4, <1>5, <1>6
-----------------------------------------------------------------------------
(* Pools worked out and put in place *)

LEMMA OnMore ==
    ASSUME NEW k, NEW a \in Int, NEW b \in Int, NEW t
    PROVE  On(k, a + b, t) = On(k, a, t) + On(k, b, t) /\ On(k, a - b, t) = On(k, a, t) - On(k, b, t)
BY DEF On

LEMMA BackWorked ==
    ASSUME BackedAssumption, Typed, Typed', BackInv, NEW c \in Client, NEW step \in {"swap", "add", "remove"},
           NEW ok, NEW m, Works(c, step, ok, m), Money(ask[c]) /\ ok => Gains(ask[c].op, m, pools)
    PROVE  BackInv' /\ BackStep(c)
<1>1. At(c, step) /\ UNCHANGED pools /\ todo[c] # <<>> /\ todo[c] \in Seq(Step)
  BY TypedIs DEF Works, At
<1>2. CASE ~ok
  BY <1>1, <1>2, BackRefuse DEF Works, Refusing
<1>3. CASE ok
  <2>1. Skip(c, 1) /\ mine' = [mine EXCEPT ![c] = m]
    BY <1>3 DEF Works
  <2>2. mine'[c] = m /\ m \in MineRecord
    <3>1. mine'[c] = m
      BY <2>1, TypedIs
    <3>2. mine'[c] \in MineRecord
      BY DEF Typed, TypeInv, MineInv
    <3> QED
      BY <3>1, <3>2
  <2>3. /\ Go(c, Tail(todo[c]), view[c], alias) /\ UNCHANGED <<cached, file>>
        /\ file' # Broken /\ (alias = c => cached' = view[c])
    <3>1. SubSeq(todo[c], 1 + 1, Len(todo[c])) = Tail(todo[c])
      BY <1>1, TailIsRest
    <3> QED
      BY <2>1, <3>1 DEF Skip, Change, BackInv
  <2>4. PICK r, h : r = ask[c] /\ h = Node(todo[c], 1)
    OBVIOUS
  <2>5. Money(r) => h = step /\ r.op \in MoneyOps
    BY <1>1, <2>4, BackAt DEF Money
  <2>6. Money(r) => \A t \in Token \ {Onex} :
              /\ Owned(t)' <= Owned(t) + Effect(h, r, m, t)
              /\ Rest(h, r, m, t) = Rest(h, r, mine[c], t)
    <3> SUFFICES ASSUME Money(r), NEW t \in Token
                 PROVE  /\ Owned(t)' <= Owned(t) + Effect(h, r, m, t)
                        /\ Rest(h, r, m, t) = Rest(h, r, mine[c], t)
      OBVIOUS
    <3>1. Owned(t)' = Owned(t) /\ Owned(t) \in Int
      BY <1>1, <2>3, OwnedSame, OwnedInt DEF BackInv
    <3>2. Effect(h, r, m, t) = 0 /\ Rest(h, r, m, t) = 0 /\ Rest(h, r, mine[c], t) = 0
      BY <2>5 DEF Effect, Rest
    <3> QED
      BY <3>1, <3>2
  <2>7. Money(r) /\ todo'[c] # <<>> => \A k : <<h, k>> \in MoneyOrder(r.op) => Stands(c, k, r, m)'
    <3> SUFFICES ASSUME Money(r), NEW k, <<h, k>> \in MoneyOrder(r.op)
                 PROVE  Stands(c, k, r, m)'
      OBVIOUS
    <3>1. k = "load"
      BY <2>5, OrderIs
    <3>2. Gains(r.op, m, pools)'
      <4>1. Gains(r.op, m, pools)
        BY <1>3, <2>4
      <4> QED
        BY <1>1, <4>1 DEF Gains
    <3> QED
      BY <3>1, <3>2 DEF Stands, Early
  <2>8. Brings(c) /\ Leads(c) /\ mine'[c] \in MineRecord
    BY <2>2, <2>4, <2>6, <2>7 DEF Brings, Leads
  <2>9. PICK p, owner : p = view[c] /\ owner = alias
    OBVIOUS
  <2>10. At(c, step) /\ Go(c, Left(todo[c]), p, owner) /\ file' # Broken /\ (owner = c => cached' = p)
    BY <1>1, <2>3, <2>9 DEF Left
  <2> QED
    BY <2>8, <2>10, BackTail
<1> QED
  BY <1>2, <1>3

LEMMA BackSwap ==
    ASSUME BackedAssumption, Typed, Typed', BackInv, NEW c \in Client, WorkOutSwap(c)
    PROVE  BackInv' /\ BackStep(c)
<1>1. PICK r, p : r = ask[c] /\ p = pools[r.pair]
  OBVIOUS
<1>2. PICK m, ok : /\ m = [pair |-> r.pair, pool |-> Swapped(p, r.side, r.n), key0 |-> SideIn(r), n0 |-> r.n,
                           key1 |-> SideOut(r), n1 |-> AmountOut(p, r.side, r.n), shares |-> 0]
                   /\ ok = (p # NoPool /\ CanSwap(p, r.side, r.n))
  OBVIOUS
<1>3. Works(c, "swap", ok, m)
  BY <1>1, <1>2 DEF WorkOutSwap
<1>4. r \in Request /\ OfTokens(r) /\ r.pair \in Pair /\ r.side \in {0, 1} /\ r.n \in Nat
  BY <1>1, <1>3, TypedIs, MineAsks DEF Works, At
<1>5. ASSUME Money(r), ok
      PROVE  Gains(r.op, m, pools)
  <2>1. Good(p) /\ p # NoPool
    BY <1>1, <1>2, <1>4, <1>5 DEF Typed, PoolInv, PoolsKept, Worthy
  <2>2. Swapped(p, r.side, r.n) \in PoolRecord /\ AmountOut(p, r.side, r.n) \in Nat
    BY <1>2, <1>4, <1>5, <2>1, SwapKeepsWorth, AmountOutNat DEF Good
  <2>3. PICK v, out, q : v = Swapped(p, r.side, r.n) /\ out = AmountOut(p, r.side, r.n) /\ q = r.pair
    OBVIOUS
  <2>4. v # NoPool /\ out \in Nat /\ r.n \in Nat /\ p.r0 \in Nat /\ p.r1 \in Nat /\ p \in PoolRecord
    BY <1>4, <2>1, <2>2, <2>3 DEF BackedAssumption, Good, PoolRecord
  <2>5. /\ r.side = 0 => v.r0 = p.r0 + r.n /\ v.r1 = p.r1 - out
        /\ r.side = 1 => v.r1 = p.r1 + r.n /\ v.r0 = p.r0 - out
    BY <2>3, <2>4 DEF Swapped, PoolRecord
  <2>6. r.op \in {"swap", "bridge"}
    <3>1. At(c, "swap")
      BY <1>3 DEF Works
    <3>2. "swap" \in NodesOf(r.op) /\ r.op \in MoneyOps
      BY <1>1, <1>5, <3>1, NodeAt
    <3> QED
      BY <3>2, NodesAre
  <2>7. ASSUME NEW t \in Token
        PROVE  Reserve(v, q, t) = Reserve(p, q, t) + (On(SideIn(r), r.n, t) - On(SideOut(r), out, t))
    <3>1. Reserve(v, q, t) = On(q[1], v.r0, t) + On(q[2], v.r1, t) /\ Reserve(p, q, t) = On(q[1], p.r0, t) + On(q[2], p.r1, t)
      BY <2>1, <2>4 DEF Reserve
    <3>2. \A k : /\ On(k, r.n, t) \in Int /\ On(k, out, t) \in Int /\ On(k, p.r0, t) \in Int /\ On(k, p.r1, t) \in Int
                 /\ On(k, p.r0 + r.n, t) = On(k, p.r0, t) + On(k, r.n, t) /\ On(k, p.r1 + r.n, t) = On(k, p.r1, t) + On(k, r.n, t)
                 /\ On(k, p.r0 - out, t) = On(k, p.r0, t) - On(k, out, t) /\ On(k, p.r1 - out, t) = On(k, p.r1, t) - On(k, out, t)
      BY <2>4 DEF On
    <3>3. CASE r.side = 0
      <4>1. SideIn(r) = q[1] /\ SideOut(r) = q[2]
        BY <2>3, <3>3 DEF SideIn, SideOut
      <4> QED
        BY <2>5, <3>1, <3>2, <3>3, <4>1
    <3>4. CASE r.side = 1
      <4>1. SideIn(r) = q[2] /\ SideOut(r) = q[1]
        BY <2>3, <3>4 DEF SideIn, SideOut
      <4> QED
        BY <2>5, <3>1, <3>2, <3>4, <4>1
    <3> QED
      BY <1>4, <3>3, <3>4
  <2>8. /\ m.pool = v /\ m.pair = q /\ pools[m.pair] = p
        /\ \A t \in Token : PoolGain(r.op, m, t) = On(SideIn(r), r.n, t) - On(SideOut(r), out, t)
    BY <1>1, <1>2, <2>3, <2>6 DEF PoolGain
  <2> QED
    BY <2>7, <2>8 DEF Gains
<1> QED
  BY <1>1, <1>3, <1>5, BackWorked

LEMMA BackAdd ==
    ASSUME BackedAssumption, Typed, Typed', BackInv, NEW c \in Client, WorkOutAdd(c)
    PROVE  BackInv' /\ BackStep(c)
<1>1. PICK r, new : r = ask[c] /\ new = (pools[r.pair] = NoPool)
  OBVIOUS
<1>2. PICK p, a0, a1, k0, k1 :
         /\ p = (IF new THEN Empty ELSE pools[r.pair])
         /\ a0 = (IF new /\ r.side = 1 THEN r.m ELSE r.n)
         /\ a1 = (IF new /\ r.side = 1 THEN r.n ELSE r.m)
         /\ k0 = (IF ~new /\ r.side = 1 THEN r.pair[2] ELSE r.pair[1])
         /\ k1 = (IF ~new /\ r.side = 1 THEN r.pair[1] ELSE r.pair[2])
  OBVIOUS
<1>3. PICK m, ok : /\ m = [pair |-> r.pair, pool |-> Added(p, a0, a1), key0 |-> k0, n0 |-> a0, key1 |-> k1, n1 |-> a1,
                           shares |-> Minted(p, a0, a1)]
                   /\ ok = CanAdd(p, a0, a1)
  OBVIOUS
<1>4. Works(c, "add", ok, m)
  BY <1>1, <1>2, <1>3 DEF WorkOutAdd
<1>5. r \in Request /\ OfTokens(r) /\ r.pair \in Pair /\ r.n \in Nat /\ r.m \in Nat
  BY <1>1, <1>4, TypedIs, MineAsks DEF Works, At
<1>6. ASSUME Money(r), ok
      PROVE  Gains(r.op, m, pools)
  <2>1. r.op = "add" /\ r.side = 0
    <3>1. At(c, "add")
      BY <1>4 DEF Works
    <3>2. "add" \in NodesOf(r.op) /\ r.op \in MoneyOps
      BY <1>1, <1>6, <3>1, NodeAt
    <3> QED
      BY <1>6, <3>2, NodesAre DEF Money
  <2>2. a0 = r.n /\ a1 = r.m /\ k0 = r.pair[1] /\ k1 = r.pair[2]
    BY <1>2, <2>1
  <2>3. p.r0 \in Nat /\ p.r1 \in Nat
    <3>1. CASE new
      BY <1>2, <3>1 DEF Empty
    <3>2. CASE ~new
      BY <1>1, <1>2, <1>5, <3>2, TypedIs DEF PoolFile, PoolRecord
    <3> QED
      BY <3>1, <3>2
  <2>4. PICK v, q : v = m.pool /\ q = r.pair
    OBVIOUS
  <2>5. v.r0 = p.r0 + r.n /\ v.r1 = p.r1 + r.m /\ v # NoPool
    <3>1. v = Added(p, a0, a1)
      BY <1>3, <2>4
    <3>2. v \in PoolRecord
      <4>1. Works(c, "add", TRUE, m)
        BY <1>4, <1>6 DEF Works
      <4>2. mine'[c] = m /\ mine'[c] \in MineRecord
        <5>1. mine' = [mine EXCEPT ![c] = m]
          BY <4>1 DEF Works
        <5>2. mine'[c] \in MineRecord
          BY DEF Typed, TypeInv, MineInv
        <5> QED
          BY <5>1, <5>2, TypedIs
      <4> QED
        BY <2>4, <4>2 DEF MineRecord
    <3> QED
      BY <2>2, <3>1, <3>2 DEF Added, BackedAssumption
  <2>6. ASSUME NEW t \in Token
        PROVE  Reserve(v, q, t) = Reserve(pools[q], q, t) + (On(q[1], r.n, t) + On(q[2], r.m, t))
    <3>1. Reserve(v, q, t) = On(q[1], p.r0 + r.n, t) + On(q[2], p.r1 + r.m, t)
      BY <2>5 DEF Reserve
    <3>2. Reserve(pools[q], q, t) = On(q[1], p.r0, t) + On(q[2], p.r1, t)
      <4>1. CASE new
        <5>1. pools[q] = NoPool /\ p.r0 = 0 /\ p.r1 = 0
          BY <1>1, <1>2, <2>4, <4>1 DEF Empty
        <5> QED
          BY <5>1 DEF Reserve, On
      <4>2. CASE ~new
        BY <1>1, <1>2, <2>4, <4>2 DEF Reserve
      <4> QED
        BY <4>1, <4>2
    <3>3. /\ On(q[1], p.r0 + r.n, t) = On(q[1], p.r0, t) + On(q[1], r.n, t)
          /\ On(q[2], p.r1 + r.m, t) = On(q[2], p.r1, t) + On(q[2], r.m, t)
          /\ On(q[1], p.r0, t) \in Int /\ On(q[1], r.n, t) \in Int /\ On(q[2], p.r1, t) \in Int /\ On(q[2], r.m, t) \in Int
      BY <1>5, <2>3 DEF On
    <3> QED
      BY <3>1, <3>2, <3>3
  <2>7. /\ m.pool = v /\ m.pair = q
        /\ \A t \in Token : PoolGain(r.op, m, t) = On(q[1], r.n, t) + On(q[2], r.m, t)
    BY <1>3, <2>1, <2>2, <2>4 DEF PoolGain
  <2> QED
    BY <2>6, <2>7 DEF Gains
<1> QED
  BY <1>1, <1>4, <1>6, BackWorked

LEMMA BackRemove ==
    ASSUME BackedAssumption, Typed, Typed', BackInv, NEW c \in Client, WorkOutRemove(c)
    PROVE  BackInv' /\ BackStep(c)
<1>1. PICK r, p : r = ask[c] /\ p = pools[r.pair]
  OBVIOUS
<1>2. PICK m, ok : /\ m = [pair |-> r.pair, pool |-> Removed(p, r.n), key0 |-> r.pair[1], n0 |-> Paid0(p, r.n),
                           key1 |-> r.pair[2], n1 |-> Paid1(p, r.n), shares |-> r.n]
                   /\ ok = (p # NoPool /\ CanRemove(p, r.n))
  OBVIOUS
<1>3. Works(c, "remove", ok, m)
  BY <1>1, <1>2 DEF WorkOutRemove
<1>4. r \in Request /\ OfTokens(r) /\ r.pair \in Pair /\ r.n \in Nat
  BY <1>1, <1>3, TypedIs, MineAsks DEF Works, At
<1>5. ASSUME Money(r), ok
      PROVE  Gains(r.op, m, pools)
  <2>1. Good(p) /\ p # NoPool
    BY <1>1, <1>2, <1>4, <1>5 DEF Typed, PoolInv, PoolsKept, Worthy
  <2>2. Removed(p, r.n) \in PoolRecord /\ Paid0(p, r.n) \in Nat /\ Paid1(p, r.n) \in Nat
    BY <1>2, <1>4, <1>5, <2>1, RemoveKeepsWorth, PaidNat DEF Good
  <2>3. PICK v, x, y, q : v = Removed(p, r.n) /\ x = Paid0(p, r.n) /\ y = Paid1(p, r.n) /\ q = r.pair
    OBVIOUS
  <2>4. v # NoPool /\ x \in Nat /\ y \in Nat /\ p.r0 \in Nat /\ p.r1 \in Nat
    BY <2>1, <2>2, <2>3 DEF BackedAssumption, Good, PoolRecord
  <2>5. v.r0 = p.r0 - x /\ v.r1 = p.r1 - y
    BY <2>3 DEF Removed
  <2>6. r.op = "remove"
    <3>1. At(c, "remove")
      BY <1>3 DEF Works
    <3>2. "remove" \in NodesOf(r.op) /\ r.op \in MoneyOps
      BY <1>1, <1>5, <3>1, NodeAt
    <3> QED
      BY <3>2, NodesAre
  <2>7. ASSUME NEW t \in Token
        PROVE  Reserve(v, q, t) = Reserve(p, q, t) + (0 - On(q[1], x, t) - On(q[2], y, t))
    <3>1. Reserve(v, q, t) = On(q[1], p.r0 - x, t) + On(q[2], p.r1 - y, t) /\ Reserve(p, q, t) = On(q[1], p.r0, t) + On(q[2], p.r1, t)
      BY <2>1, <2>4, <2>5 DEF Reserve
    <3>2. /\ On(q[1], p.r0 - x, t) = On(q[1], p.r0, t) - On(q[1], x, t)
          /\ On(q[2], p.r1 - y, t) = On(q[2], p.r1, t) - On(q[2], y, t)
          /\ On(q[1], p.r0, t) \in Int /\ On(q[1], x, t) \in Int /\ On(q[2], p.r1, t) \in Int /\ On(q[2], y, t) \in Int
      BY <2>4 DEF On
    <3> QED
      BY <3>1, <3>2
  <2>8. /\ m.pool = v /\ m.pair = q /\ pools[m.pair] = p
        /\ \A t \in Token : PoolGain(r.op, m, t) = 0 - On(q[1], x, t) - On(q[2], y, t)
    BY <1>1, <1>2, <2>3, <2>6 DEF PoolGain
  <2> QED
    BY <2>7, <2>8 DEF Gains
<1> QED
  BY <1>1, <1>3, <1>5, BackWorked
\* The request of a bridge goes from leg to leg.
LEMMA BackAsks ==
    ASSUME BackedAssumption, Typed, Typed', BackInv, NEW c \in Client, NEW step \in {"quote", "secondLeg"}, At(c, step),
           NEW r, r = ask[c], NEW s, s.op = r.op, todo' = [todo EXCEPT ![c] = Tail(@)], ask' = [ask EXCEPT ![c] = s],
           UNCHANGED <<cached, file, alias, view, pools, mine, owned>>
    PROVE  BackInv' /\ BackStep(c)
<1>1. PICK rest, h, k, m : rest = Tail(todo[c]) /\ h = Node(todo[c], 1) /\ k = Node(rest, 1) /\ m = mine[c]
  OBVIOUS
<1>2. todo'[c] = rest /\ ask'[c] = s /\ m = mine'[c] /\ todo[c] # <<>>
  BY <1>1, TypedIs DEF At
<1>3. ASSUME r.op \in MoneyOps
      PROVE  /\ r.op = "bridge" /\ h = step /\ r.loan \in Loan /\ rest # <<>> /\ MoneyWay(rest, r.op) /\ k = "swap"
  <2>1. /\ h \in NodesOf(r.op) /\ h = step /\ r.loan \in Loan /\ MoneyWay(todo[c], r.op)
        /\ (h = step \/ (step = "save" /\ h = "savePool"))
    BY <1>1, <1>3, BackAt
  <2>2. rest # <<>> => <<h, k>> \in MoneyOrder(r.op)
    BY <1>1, <1>3, BackAt
  <2>3. rest = <<>> => h \in {"save", "update", "refuse"}
    BY <1>1, <1>3, BackAt
  <2>4. rest # <<>>
    BY <2>1, <2>3
  <2>5. r.op = "bridge"
    BY <1>3, <2>1, NodesAre
  <2>6. k = "swap"
    BY <1>3, <2>1, <2>2, <2>4, OrderIs
  <2>7. MoneyWay(rest, r.op)
    <3>1. rest = SubSeq(todo[c], 1 + 1, Len(todo[c]))
      BY <1>1, <1>2, TypedIs, TailIsRest
    <3>2. 1 \in Nat /\ 1 >= 1
      OBVIOUS
    <3> QED
      BY <2>1, <2>4, <3>1, <3>2, MoneyRest
  <2> QED
    BY <2>1, <2>4, <2>5, <2>6, <2>7
<1>4. ASSUME NEW d \in Client PROVE d = c
  BY DEF BackedAssumption
<1>5. Money(r) <=> Money(s)
  BY <1>3 DEF Money
<1>6. ASSUME Money(r)
      PROVE  /\ Stands(c, k, s, m)'
             /\ \A t \in Token \ {Onex} : Owned(t)' + Rest(k, s, m, t) <= owned[c][t]
  <2>1. k = "swap" /\ h \in {"quote", "secondLeg"}
    BY <1>3, <1>6 DEF Money
  <2>2. Stands(c, k, s, m)'
    BY <2>1 DEF Stands, Early, PoolNodes
  <2>3. ASSUME NEW t \in Token \ {Onex}
        PROVE  Owned(t)' + Rest(k, s, m, t) <= owned[c][t]
    <3>1. Owned(t) + Rest(h, r, m, t) <= owned[c][t]
      BY <1>1, <1>2, <1>6 DEF BackInv
    <3>2. Rest(h, r, m, t) = 0 /\ Rest(k, s, m, t) = 0
      BY <2>1 DEF Rest
    <3>3. Owned(t)' = Owned(t)
      BY OwnedSame
    <3> QED
      BY <3>1, <3>2, <3>3
  <2> QED
    BY <2>2, <2>3
<1>7. BackInv'
  <2> SUFFICES ASSUME NEW d \in Client
               PROVE  /\ alias' = d => cached' = view'[d]
                      /\ todo'[d] = <<>> => ask'[d] = NoRequest \/ ask'[d].op \notin MoneyOps
                      /\ todo'[d] # <<>> /\ ask'[d].op \in MoneyOps => MoneyWay(todo'[d], ask'[d].op)
                      /\ todo'[d] # <<>> /\ Money(ask'[d]) =>
                            /\ Stands(d, Node(todo[d], 1), ask[d], mine[d])'
                            /\ \A t \in Token \ {Onex} :
                                  Owned(t)' + Rest(Node(todo'[d], 1), ask'[d], mine'[d], t) <= owned'[d][t]
    BY DEF BackInv
  <2>1. d = c
    BY <1>4
  <2>2. alias' = c => cached' = view'[c]
    BY DEF BackInv
  <2>3. todo'[c] = <<>> => ask'[c].op \notin MoneyOps
    BY <1>2, <1>3
  <2>4. ask'[c].op \in MoneyOps => MoneyWay(todo'[c], ask'[c].op)
    BY <1>2, <1>3
  <2>5. ASSUME Money(ask'[c])
        PROVE  /\ Stands(c, Node(todo[c], 1), ask[c], mine[c])'
               /\ \A t \in Token \ {Onex} :
                     Owned(t)' + Rest(Node(todo'[c], 1), ask'[c], mine'[c], t) <= owned'[c][t]
    <3>1. Stands(c, k, s, m)' /\ \A t \in Token \ {Onex} : Owned(t)' + Rest(k, s, m, t) <= owned[c][t]
      BY <1>2, <1>5, <1>6, <2>5
    <3>2. k = Node(todo'[c], 1) /\ s = ask'[c] /\ m = mine'[c] /\ owned'[c] = owned[c]
      BY <1>1, <1>2
    <3>3. Stands(c, Node(todo[c], 1), ask[c], mine[c])'
      BY <3>1, <3>2 DEF Stands
    <3> QED
      BY <3>1, <3>2, <3>3
  <2> QED
    BY <2>1, <2>2, <2>3, <2>4, <2>5
<1>8. BackStep(c)
  BY <1>2, <1>3 DEF BackStep, Money
<1> QED
  BY <1>7, <1>8

LEMMA BackLegs ==
    ASSUME BackedAssumption, Typed, Typed', BackInv, NEW c \in Client, Quote(c) \/ SecondLeg(c)
    PROVE  BackInv' /\ BackStep(c)
<1>1. PICK r : r = ask[c] /\ r \in Request
  BY TypedIs DEF Quote, SecondLeg, At
<1>2. CASE Quote(c)
  <2>1. At(c, "quote") /\ UNCHANGED <<pools, mine>>
    BY <1>2 DEF Quote, poolVars
  <2>2. CASE Refuse(c)
    BY <2>1, <2>2, BackRefuse DEF Refusing
  <2>3. CASE ~Refuse(c)
    <3>1. PICK x : /\ todo' = [todo EXCEPT ![c] = Tail(@)] /\ ask' = [ask EXCEPT ![c].m = x]
                   /\ UNCHANGED <<cached, file, alias, view, started, owned>>
      BY <1>2, <2>3 DEF Quote
    <3>2. PICK s : s = [r EXCEPT !.m = x]
      OBVIOUS
    <3>3. s.op = r.op /\ ask' = [ask EXCEPT ![c] = s]
      BY <1>1, <3>1, <3>2 DEF Request
    <3> QED
      BY <1>1, <2>1, <3>1, <3>3, BackAsks
  <2> QED
    BY <2>2, <2>3
<1>3. CASE SecondLeg(c)
  <2>1. PICK s : s = [r EXCEPT !.pair = r.next, !.n = r.m, !.side = IF r.next[1] = Onex THEN 0 ELSE 1]
    OBVIOUS
  <2>2. /\ At(c, "secondLeg") /\ todo' = [todo EXCEPT ![c] = Tail(@)] /\ ask' = [ask EXCEPT ![c] = s]
        /\ UNCHANGED <<cached, file, alias, view, pools, mine, owned>>
    BY <1>1, <1>3, <2>1 DEF SecondLeg, poolVars
  <2>3. s.op = r.op
    BY <1>1, <2>1 DEF Request
  <2> QED
    BY <1>1, <2>2, <2>3, BackAsks
<1> QED
  BY <1>2, <1>3
LEMMA BackUpdate ==
    ASSUME BackedAssumption, Typed, Typed', BackInv, NEW c \in Client, Update(c)
    PROVE  BackInv' /\ BackStep(c)
<1>1. PICK r, h, m, x, v : r = ask[c] /\ h = Node(todo[c], 1) /\ m = mine[c] /\ x = m.pair /\ v = m.pool
  OBVIOUS
<1>2. At(c, "update") /\ Skip(c, 1) /\ mine' = mine /\ pools' = [pools EXCEPT ![x] = v]
  BY <1>1 DEF Update
<1>3. todo[c] # <<>> /\ todo[c] \in Seq(Step) /\ m \in MineRecord /\ x \in Pair /\ v \in PoolRecord
  BY <1>1, <1>2, TypedIs DEF At, MineRecord
<1>4. /\ Go(c, Left(todo[c]), view[c], alias) /\ UNCHANGED <<cached, file>>
      /\ file' # Broken /\ (alias = c => cached' = view[c])
  <2>1. SubSeq(todo[c], 1 + 1, Len(todo[c])) = Left(todo[c])
    BY <1>3, TailIsRest DEF Left
  <2> QED
    BY <1>2, <2>1 DEF Skip, Change, BackInv
<1>5. ASSUME Money(r)
      PROVE  /\ h = "update" /\ r.op \in {"swap", "bridge", "add", "remove"} /\ r.op \in MoneyOps /\ alias = c
             /\ Gains(r.op, m, pools) /\ r.loan \in Loan /\ h \in NodesOf(r.op)
  <2>1. h = "update" /\ r.op \in MoneyOps /\ h \in NodesOf(r.op)
    BY <1>1, <1>2, <1>5, NodeAt
  <2>2. r.op \in {"swap", "bridge", "add", "remove"}
    BY <2>1, NodesAre
  <2>3. Stands(c, h, r, m)
    BY <1>1, <1>3, <1>5 DEF BackInv
  <2>4. h \notin Early /\ h \in PoolNodes
    BY <2>1 DEF Early, PoolNodes
  <2>5. r.loan \in Loan
    BY <1>1, <1>3, TypedIs DEF Request
  <2> QED
    BY <2>1, <2>2, <2>3, <2>4, <2>5 DEF Stands
<1>6. Money(r) => \A t \in Token \ {Onex} : Owned(t)' <= Owned(t) + Effect(h, r, m, t)
  <2> SUFFICES ASSUME Money(r), NEW t \in Token
               PROVE  Owned(t)' <= Owned(t) + Effect(h, r, m, t)
    OBVIOUS
  <2>1. Current \in PortfolioRecord /\ Owned(t) \in Int /\ Current' = Current
    BY <1>4, OwnedInt DEF BackInv, Current
  <2>2. pools \in PoolFile
    BY TypedIs
  <2>3. Owned(t)' = Owned(t) - Reserve(pools[x], x, t) + Reserve(v, x, t)
    <3>1. Owned(t)' = Holding(Current, pools', t) /\ Owned(t) = Holding(Current, pools, t)
      BY <2>1 DEF Owned
    <3>2. PICK p, ps : p = Current /\ ps = pools
      OBVIOUS
    <3>3. p \in PortfolioRecord /\ ps \in PoolFile /\ x \in Pair /\ v \in PoolRecord
      BY <1>3, <2>1, <2>2, <3>2
    <3>4. Holding(p, [ps EXCEPT ![x] = v], t) = Holding(p, ps, t) - Reserve(ps[x], x, t) + Reserve(v, x, t)
      BY <3>3, HoldingOfPool
    <3>5. pools' = [ps EXCEPT ![x] = v]
      BY <1>2, <1>3, <3>2
    <3> QED
      BY <3>1, <3>2, <3>4, <3>5
  <2>4. Reserve(v, x, t) = Reserve(pools[x], x, t) + PoolGain(r.op, m, t)
    BY <1>1, <1>5 DEF Gains
  <2>5. Effect(h, r, m, t) = PoolGain(r.op, m, t) /\ Effect(h, r, m, t) \in Int
    <3>1. Effect(h, r, m, t) = PoolGain(r.op, m, t)
      BY <1>5 DEF Effect
    <3> QED
      BY <1>3, <1>5, <3>1, Balanced
  <2>6. Reserve(pools[x], x, t) \in Int
    BY <1>3, <2>2, ReserveInt DEF PoolFile
  <2> QED
    BY <2>1, <2>3, <2>4, <2>5, <2>6
<1>7. ASSUME Money(r), todo'[c] # <<>>, NEW k, <<h, k>> \in MoneyOrder(r.op)
      PROVE  Stands(c, k, r, m)'
  <2>1. alias' = c
    <3>1. todo'[c] = Left(todo[c])
      BY <1>4, TypedIs DEF Go
    <3> QED
      BY <1>4, <1>5, <1>7, <3>1 DEF Go
  <2>2. k = "save"
    BY <1>5, <1>7, OrderIs
  <2> QED
    BY <2>1, <2>2 DEF Stands, PoolNodes
<1>8. Brings(c)
  BY <1>1, <1>2, <1>6 DEF Brings
<1>9. Leads(c) /\ mine'[c] \in MineRecord
  BY <1>1, <1>2, <1>3, <1>7 DEF Leads
<1> QED
  BY <1>2, <1>4, <1>8, <1>9, BackTail

-----------------------------------------------------------------------------
(* The portfolio is loaded and saved *)

LEMMA SyncedSame ==
    ASSUME BackedAssumption, NEW p \in PortfolioRecord, NEW q \in Synced(p)
    PROVE  q \in PortfolioRecord /\ Same(q, p)
<1>1. PICK n : q = [p EXCEPT !.bal = [p.bal EXCEPT ![Onex] = n]]
  BY DEF Synced, BackedAssumption
<1>2. q.loans = p.loans /\ q.bal = [p.bal EXCEPT ![Onex] = n]
  BY <1>1, RecordIs
<1>3. \A t \in Token \ {Onex} : q.bal[t] = p.bal[t]
  BY <1>2, RecordIs DEF Key
<1> QED
  BY <1>2, <1>3, SyncedTyped DEF Same

LEMMA BackLoad ==
    ASSUME BackedAssumption, Typed, Typed', BackInv, NEW c \in Client, Load(c)
    PROVE  BackInv' /\ BackStep(c)
<1>1. At(c, "load") /\ UNCHANGED <<pools, mine>> /\ todo[c] # <<>> /\ todo[c] \in Seq(Step) /\ mine[c] \in MineRecord
  BY TypedIs DEF Load, poolVars, At
<1>2. Current \in PortfolioRecord /\ Current # Broken /\ Current # NoFile
  <2>1. Current \in PortfolioRecord
    BY TypedIs, DefaultTyped DEF Current, BackInv
  <2> QED
    BY <2>1 DEF BackedAssumption
<1>3. PICK q, owner : /\ cached' = Current /\ file' = file /\ q \in Synced(Current)
                      /\ owner = (IF alias = c THEN Nobody ELSE alias) /\ Go(c, Tail(todo[c]), q, owner)
  <2>1. PICK p : /\ p \in IF cached # NoFile THEN {cached}
                            ELSE {IF file = NoFile THEN DefaultPortfolio ELSE file}
                                 \cup IF DiskFaults THEN {DefaultPortfolio} ELSE {}
                 /\ IF p = Broken THEN Refuse(c)
                    ELSE /\ cached' = p
                         /\ \E q \in Synced(p) :
                               Go(c, Tail(todo[c]), q, IF alias = c THEN Nobody ELSE alias)
                         /\ UNCHANGED file
    BY DEF Load
  <2>2. p = Current
    BY <2>1 DEF Current, BackedAssumption
  <2> QED
    BY <1>2, <2>1, <2>2
<1>4. owner # c
  BY <1>3 DEF BackedAssumption
<1>5. PICK r, h, m : r = ask[c] /\ h = Node(todo[c], 1) /\ m = mine[c]
  OBVIOUS
<1>6. Money(r) => h = "load" /\ r.op \in MoneyOps
  BY <1>1, <1>5, NodeAt
<1>7. Current' = Current
  BY <1>2, <1>3 DEF Current
<1>8. Money(r) => \A t \in Token \ {Onex} : Owned(t)' <= Owned(t) + Effect(h, r, m, t)
  <2> SUFFICES ASSUME Money(r), NEW t \in Token
               PROVE  Owned(t)' <= Owned(t) + Effect(h, r, m, t)
    OBVIOUS
  <2>1. Owned(t)' = Owned(t) /\ Owned(t) \in Int
    BY <1>1, <1>7, OwnedInt DEF Owned, BackInv
  <2>2. Effect(h, r, m, t) = 0
    BY <1>6 DEF Effect
  <2> QED
    BY <2>1, <2>2
<1>9. ASSUME Money(r), todo'[c] # <<>>, NEW k, <<h, k>> \in MoneyOrder(r.op)
      PROVE  Stands(c, k, r, m)'
  <2>1. k = "keep" /\ h \in PoolNodes
    BY <1>6, <1>9, OrderIs DEF PoolNodes
  <2>2. view'[c] = q
    <3>1. todo'[c] = Tail(todo[c])
      BY <1>3, TypedIs DEF Go
    <3> QED
      BY <1>3, <1>9, <3>1, TypedIs DEF Go
  <2>3. cached' \in PortfolioRecord /\ Same(view'[c], cached')
    BY <1>2, <1>3, <2>2, SyncedSame
  <2>4. r.op \in {"swap", "bridge", "add", "remove"} => Gains(r.op, m, pools)
    BY <1>1, <1>5, <1>9, <2>1 DEF BackInv, Stands
  <2>5. Gains(r.op, m, pools) => Gains(r.op, m, pools)'
    BY <1>1 DEF Gains
  <2> QED
    BY <2>1, <2>3, <2>4, <2>5 DEF Stands, Early
<1>10. Brings(c)
  BY <1>1, <1>5, <1>8 DEF Brings
<1>11. Leads(c) /\ mine'[c] \in MineRecord
  BY <1>1, <1>5, <1>9 DEF Leads
<1>12. Go(c, Left(todo[c]), q, owner) /\ file' # Broken
  BY <1>3 DEF Left, BackInv
<1> QED
  BY <1>1, <1>4, <1>10, <1>11, <1>12, BackTail

LEMMA BackSave ==
    ASSUME BackedAssumption, Typed, Typed', BackInv, NEW c \in Client, Save(c)
    PROVE  BackInv' /\ BackStep(c)
<1>1. PICK step \in {"keep", "save", "mustSave"} : At(c, step)
  BY DEF Save
<1>2. /\ file' = view[c] /\ cached' = view[c] /\ Go(c, Tail(todo[c]), view[c], c) /\ UNCHANGED <<pools, mine>>
  BY DEF Save, BackedAssumption, poolVars
<1>3. todo[c] # <<>> /\ todo[c] \in Seq(Step) /\ mine[c] \in MineRecord /\ view[c] \in PortfolioRecord
  BY <1>1, TypedIs DEF At
<1>4. PICK r, h, m : r = ask[c] /\ h = Node(todo[c], 1) /\ m = mine[c]
  OBVIOUS
<1>5. ASSUME Money(r)
      PROVE  r.op \in MoneyOps /\ h \in NodesOf(r.op) /\ h \in {"keep", "save", "savePool"}
  <2>1. r.op \in MoneyOps
    BY <1>5 DEF Money
  <2>2. h \in NodesOf(r.op) /\ (h = step \/ (step = "save" /\ h = "savePool"))
    BY <1>1, <1>4, <2>1, BackAt
  <2>3. h # "mustSave"
    BY <2>1, <2>2, NodesAre
  <2> QED
    BY <2>1, <2>2, <2>3
<1>6. Current' = view[c]
  BY <1>2, <1>3 DEF Current, BackedAssumption
<1>7. ASSUME Money(r), NEW t \in Token \ {Onex}
      PROVE  Owned(t)' <= Owned(t) + Effect(h, r, m, t)
  <2>1. Stands(c, h, r, m)
    BY <1>3, <1>4, <1>7 DEF BackInv
  <2>2. Current \in PortfolioRecord /\ Owned(t) \in Int
    BY OwnedInt DEF BackInv
  <2>3. Same(view[c], Current)
    <3>1. CASE h = "keep"
      <4>1. cached \in PortfolioRecord /\ Same(view[c], cached)
        BY <2>1, <3>1 DEF Stands
      <4>2. Current = cached
        BY <4>1 DEF Current, BackedAssumption
      <4> QED
        BY <4>1, <4>2
    <3>2. CASE h # "keep"
      <4>1. alias = c
        BY <1>5, <1>7, <2>1, <3>2 DEF Stands, Early
      <4>2. cached = view[c]
        BY <4>1 DEF BackInv
      <4>3. Current = view[c]
        BY <1>3, <4>2 DEF Current, BackedAssumption
      <4> QED
        BY <4>3 DEF Same
    <3> QED
      BY <3>1, <3>2
  <2>4. Owned(t)' = Owned(t)
    <3>1. view[c].loans = Current.loans /\ view[c].bal[t] = Current.bal[t]
      BY <1>7, <2>3 DEF Same
    <3>2. PICK p : p = Current
      OBVIOUS
    <3>3. Holding(view[c], pools, t) = Holding(p, pools, t) - p.bal[t] + view[c].bal[t]
      BY <1>3, <2>2, <3>1, <3>2, TypedIs, HoldingOfBalance
    <3>4. p.bal[t] \in Int /\ Holding(p, pools, t) \in Int
      BY <2>2, <3>2, TypedIs, HoldingInt
    <3>5. Owned(t)' = Holding(view[c], pools, t) /\ Owned(t) = Holding(p, pools, t)
      BY <1>2, <1>6, <3>2 DEF Owned
    <3> QED
      BY <3>1, <3>2, <3>3, <3>4, <3>5
  <2>5. Effect(h, r, m, t) = 0
    BY <1>5, <1>7 DEF Effect
  <2> QED
    BY <2>2, <2>4, <2>5
<1>8. ASSUME Money(r), todo'[c] # <<>>, NEW k, <<h, k>> \in MoneyOrder(r.op)
      PROVE  Stands(c, k, r, m)'
  <2>1. alias' = c
    <3>1. todo'[c] = Tail(todo[c])
      BY <1>2, TypedIs DEF Go
    <3> QED
      BY <1>2, <1>8, <3>1 DEF Go
  <2>2. h \notin {"swap", "add", "remove", "load"}
    BY <1>5, <1>8
  <2> QED
    BY <1>2, <1>3, <1>4, <1>8, <2>1, <2>2, StandsOn
<1>9. Brings(c)
  BY <1>2, <1>4, <1>7 DEF Brings
<1>10. Leads(c) /\ mine'[c] \in MineRecord
  BY <1>2, <1>3, <1>4, <1>8 DEF Leads
<1>11. Go(c, Left(todo[c]), view[c], c) /\ file' # Broken
  BY <1>2, <1>3 DEF Left, BackedAssumption
<1> QED
  BY <1>1, <1>2, <1>9, <1>10, <1>11, BackTail

-----------------------------------------------------------------------------
(* A request begins; the rest of a request *)

LEMMA BackBegin ==
    ASSUME BackedAssumption, Typed, Typed', BackInv, NEW c \in Client, Begin(c)
    PROVE  BackInv' /\ BackStep(c)
<1>1. PICK r \in Requests : ask' = [ask EXCEPT ![c] = r] /\ todo' = [todo EXCEPT ![c] = Program(r.op)]
  BY DEF Begin
<1>2. /\ todo[c] = <<>> /\ UNCHANGED <<cached, file, alias, view, pools>> /\ mine' = [mine EXCEPT ![c] = NothingMine]
      /\ owned' = [owned EXCEPT ![c] = [t \in Token |-> IF Current = Broken THEN 0 ELSE Owned(t)]]
  BY DEF Begin
<1>3. Current \in PortfolioRecord /\ Current # Broken
  <2>1. Current \in PortfolioRecord
    BY TypedIs, DefaultTyped DEF Current, BackInv
  <2> QED
    BY <2>1 DEF BackedAssumption
<1>4. \A t \in Token : Owned(t) \in Int /\ Owned(t)' = Owned(t)
  BY <1>2, OwnedInt, OwnedSame DEF BackInv
<1>5. owned' \in [Client -> [Token -> Int]] /\ \A t \in Token : owned'[c][t] = Owned(t)
  <2>1. PICK o : o = [t \in Token |-> IF Current = Broken THEN 0 ELSE Owned(t)]
    OBVIOUS
  <2>2. o \in [Token -> Int] /\ \A t \in Token : o[t] = Owned(t)
    BY <1>3, <1>4, <2>1
  <2>3. owned' = [owned EXCEPT ![c] = o]
    BY <1>2, <2>1
  <2> QED
    BY <2>2, <2>3 DEF BackInv
<1>6. PICK s, k, m : s = Program(r.op) /\ k = Node(s, 1) /\ m = NothingMine
  OBVIOUS
<1>7. todo'[c] = s /\ ask'[c] = r /\ mine'[c] = m
  BY <1>1, <1>2, <1>6, TypedIs
<1>8. r.op \in MoneyOps => MoneyWay(s, r.op) /\ s # <<>> /\ k = FirstNode(r.op)
  <2> HAVE r.op \in MoneyOps
  <2>1. MoneyWay(s, r.op) /\ k = FirstNode(r.op)
    BY <1>6, MoneyProgram
  <2>2. s # <<>>
    BY <2>1 DEF MoneyWay
  <2> QED
    BY <2>1, <2>2
<1>9. ASSUME Money(r)
      PROVE  /\ Stands(c, Node(todo[c], 1), ask[c], mine[c])'
             /\ \A t \in Token \ {Onex} :
                   Owned(t)' + Rest(Node(todo'[c], 1), ask'[c], mine'[c], t) <= owned'[c][t]
  <2>1. /\ k \in {"swap", "add", "remove", "quote", "load"} /\ (r.op \in {"swap", "bridge", "add", "remove"} => k # "load")
    BY <1>8, <1>9 DEF Money, FirstNode
  <2>2. Stands(c, k, r, m)'
    BY <2>1 DEF Stands, Early, PoolNodes
  <2>3. ASSUME NEW t \in Token \ {Onex}
        PROVE  Owned(t)' + Rest(k, r, m, t) <= owned'[c][t]
    <3>1. Rest(k, r, m, t) = 0
      BY <2>1 DEF Rest
    <3> QED
      BY <1>4, <1>5, <3>1
  <2>4. k = Node(todo'[c], 1)
    BY <1>6, <1>7
  <2>5. Stands(c, Node(todo[c], 1), ask[c], mine[c])'
    BY <1>7, <2>2, <2>4 DEF Stands
  <2> QED
    BY <1>7, <2>3, <2>4, <2>5
<1>10. BackInv'
  <2> SUFFICES ASSUME NEW d \in Client
               PROVE  /\ alias' = d => cached' = view'[d]
                      /\ todo'[d] = <<>> => ask'[d] = NoRequest \/ ask'[d].op \notin MoneyOps
                      /\ todo'[d] # <<>> /\ ask'[d].op \in MoneyOps => MoneyWay(todo'[d], ask'[d].op)
                      /\ todo'[d] # <<>> /\ Money(ask'[d]) =>
                            /\ Stands(d, Node(todo[d], 1), ask[d], mine[d])'
                            /\ \A t \in Token \ {Onex} :
                                  Owned(t)' + Rest(Node(todo'[d], 1), ask'[d], mine'[d], t) <= owned'[d][t]
    BY <1>2, <1>5 DEF BackInv
  <2>1. d = c
    BY DEF BackedAssumption
  <2>2. alias' = c => cached' = view'[c]
    BY <1>2 DEF BackInv
  <2> QED
    BY <1>7, <1>8, <1>9, <2>1, <2>2
<1> QED
  BY <1>2, <1>10 DEF BackStep

LEMMA BackPool ==
    ASSUME BackedAssumption, Typed, Typed', BackInv, NEW c \in Client, PoolStep(c)
    PROVE  BackInv' /\ BackStep(c)
<1>1. PICK m : m = mine[c]
  OBVIOUS
<1>2. CASE WorkOutSwap(c) \/ WorkOutAdd(c) \/ WorkOutRemove(c)
  BY <1>2, BackSwap, BackAdd, BackRemove
<1>3. CASE Quote(c) \/ SecondLeg(c) \/ Update(c) \/ Reseed(c) \/ SeedPools(c) \/ GiveStarter(c)
  BY <1>3, BackLegs, BackUpdate, BackSeeds, BackStarter
<1>4. CASE \/ Pays(c, "pay0", m.key0, m.n0) \/ Pays(c, "pay1", m.key1, m.n1)
           \/ Gets(c, "get0", m.key0, m.n0) \/ Gets(c, "get1", m.key1, m.n1)
           \/ Pays(c, "burn", ask[c].pair, m.shares) \/ Gets(c, "shares", ask[c].pair, m.shares)
  BY <1>1, <1>4, BackAmounts
<1> QED
  BY <1>1, <1>2, <1>3, <1>4 DEF PoolStep

LEMMA BackNext ==
    ASSUME BackedAssumption, Typed, Typed', BackInv, [PortfolioNext]_portVars
    PROVE  BackInv' /\ [MakesNothing]_portVars
<1>1. CASE UNCHANGED portVars
  <2>1. UNCHANGED <<cached, file, alias, view, pools, mine, todo, ask, owned>>
    BY <1>1 DEF portVars
  <2>2. \A t \in Token : Owned(t)' = Owned(t)
    BY <2>1, OwnedSame
  <2>3. \A d, k, r, m : Stands(d, k, r, m)' <=> Stands(d, k, r, m)
    BY <2>1 DEF Stands, Gains
  <2>4. BackInv'
    <3> SUFFICES ASSUME NEW d \in Client, todo'[d] # <<>>, Money(ask'[d])
                 PROVE  /\ Stands(d, Node(todo[d], 1), ask[d], mine[d])'
                        /\ \A t \in Token \ {Onex} :
                              Owned(t)' + Rest(Node(todo'[d], 1), ask'[d], mine'[d], t) <= owned'[d][t]
      BY <2>1 DEF BackInv
    <3>1. Stands(d, Node(todo[d], 1), ask[d], mine[d])
      BY <2>1 DEF BackInv
    <3>2. Stands(d, Node(todo[d], 1), ask[d], mine[d])'
      BY <2>1, <3>1 DEF Stands, Gains
    <3> QED
      BY <2>1, <2>2, <3>2 DEF BackInv
  <2> QED
    BY <1>1, <2>4
<1>2. CASE PortfolioNext
  <2>1. PICK c \in Client : Begin(c) \/ PortfolioStep(c)
    BY <1>2 DEF PortfolioNext, Stop, BackedAssumption
  <2>2. ASSUME Begin(c) PROVE BackInv' /\ BackStep(c)
    BY <2>2, BackBegin
  <2>3. ASSUME PortfolioStep(c) PROVE BackInv' /\ BackStep(c)
    BY <2>3, BackLoad, BackSave, BackPool, BackTransfer, BackTask, BackLoan, BackStakes DEF PortfolioStep
  <2>4. BackInv' /\ BackStep(c)
    BY <2>1, <2>2, <2>3
  <2>5. MakesNothing
    <3> SUFFICES ASSUME NEW d \in Client, NEW t \in Token \ {Onex}, ask[d] # NoRequest, todo'[d] = <<>>,
                        ask[d].op \in MoneyOps, ask[d].op = "add" => ask[d].side = 0
                 PROVE  Owned(t)' <= owned[d][t]
      BY DEF MakesNothing, MoneyOps
    <3>1. d = c /\ todo[d] # <<>> /\ Money(ask[d])
      BY DEF BackedAssumption, BackInv, Money
    <3> QED
      BY <2>4, <3>1 DEF BackStep
  <2> QED
    BY <2>4, <2>5
<1> QED
  BY <1>1, <1>2

LEMMA BackInit ==
    ASSUME BackedAssumption
    PROVE  Init => BackInv
<1> SUFFICES ASSUME Init
             PROVE  BackInv
  OBVIOUS
<1>1. owned \in [Client -> [Token -> Int]]
  BY DEF Init, NothingOwned
<1> QED
  BY <1>1 DEF Init, BackInv, BackedAssumption

\* With one request at a time and no failures, what there is of a token when a
\* swap, a bridge, liquidity, a loan or a transfer ends is no more than when it
\* began, whichever of its steps refuses and however its legs follow each other
\* (defi.go, onexswap.go).
THEOREM NothingIsMade ==
    ASSUME BackedAssumption, Pair # {}
    PROVE  PortfolioSpec => [][MakesNothing]_portVars
<1>1. Init => Typed /\ BackInv
  BY InitKeeps, RewardInit, TypeInit, BackInit DEF Typed
<1>2. Typed /\ [PortfolioNext]_portVars => Typed'
  <2>1. PoolInv => RequestInv
    BY DEF PoolInv
  <2> QED
    BY <2>1, NextKeeps, RewardNext, TypeNext DEF Typed
<1>3. Typed /\ BackInv /\ Typed' /\ [PortfolioNext]_portVars => BackInv' /\ [MakesNothing]_portVars
  BY BackNext
<1> QED
  BY <1>1, <1>2, <1>3, PTL DEF PortfolioSpec

-----------------------------------------------------------------------------
(* The token platform: what is held of a wrapped token is within its       *)
(* supply, whatever write fails and wherever the process stops.            *)

\* A list in which every wrapped token is that of one request's origin, and has
\* one place.
Apart(list) ==
    /\ \A i \in DOMAIN list : list[i].origin # NoPool =>
          \E r \in WrapRequests : r.token = list[i].origin /\ KeyOf(list[i]) = WrapKey(r)
    /\ \A i \in DOMAIN list : list[i].origin = NoPool => KeyOf(list[i]) \notin WrapKeys
    /\ \A i, j \in DOMAIN list : KeyOf(list[i]) = KeyOf(list[j]) /\ KeyOf(list[i]) \in WrapKeys => i = j

Covers(list, k, n) == n = 0 \/ \E i \in DOMAIN list : KeyOf(list[i]) = k /\ n <= list[i].supply
Covered(list, p) == \A k \in WrapKeys : Covers(list, k, p.bal[k])
Recorded(list, w) == \A r \in WrapRequests : Covers(list, WrapKey(r), w[<<r.token, r.target>>])

\* What covered an amount still does; and of the token that is wrapped, n more.
Grown(list, more) == \A k \in WrapKeys, m \in Nat : Covers(list, k, m) => Covers(more, k, m)
GrownBy(list, more, k, n) == \A m \in Nat : Covers(list, k, m) => Covers(more, k, m + n)

LEMMA WrapIs ==
    ASSUME PlatformAssumption, NEW r \in WrapRequests
    PROVE  /\ r \in PlatformRequest /\ r.op = "wrap" /\ r.token \in Token /\ r.target \in PlatformChain
           /\ r.n \in Nat /\ WrapKey(r) \in Token /\ WrapKey(r) \in WrapKeys /\ r.token # NoPool
           /\ r.token[2] \in Id /\ WrapId[<<r.token[2], r.target>>] \in Id
<1>1. r \in PlatformRequest /\ r.op = "wrap"
  BY DEF WrapRequests, PlatformAssumption
<1>2. r.token \in PlatformChain \X Id /\ r.target \in PlatformChain /\ r.n \in Nat /\ Token = PlatformChain \X Id
  BY <1>1 DEF PlatformRequest, PlatformAssumption
<1>3. r.token[2] \in Id
  BY <1>2
<1>4. WrapId[<<r.token[2], r.target>>] \in Id
  BY <1>2, <1>3 DEF PlatformAssumption
<1> QED
  BY <1>1, <1>2, <1>3, <1>4 DEF WrapKey, WrapKeys, PlatformAssumption

LEMMA WrapKeysAre ==
    ASSUME PlatformAssumption
    PROVE  WrapKeys \subseteq Token
BY WrapIs DEF WrapKeys

LEMMA EntryIs ==
    ASSUME NEW list \in TokenFile, NEW i \in DOMAIN list
    PROVE  /\ list[i] \in PlatformToken /\ list[i].supply \in Nat /\ i \in 1..Len(list)
           /\ list[i].chain \in PlatformChain /\ list[i].id \in Id /\ list[i].origin \in Token \cup {NoPool}
<1>1. list[i] \in PlatformToken /\ i \in 1..Len(list)
  BY DEF TokenFile
<1> QED
  BY <1>1 DEF PlatformToken

\* The place of a wrapped token is where its key is, and it has but one.
LEMMA PlaceIs ==
    ASSUME PlatformAssumption, WrappedApart, NEW list \in TokenFile, Apart(list), NEW r \in WrapRequests
    PROVE  /\ \A i \in DOMAIN list : i \in PlaceOf(list, r.token, r.target) <=> KeyOf(list[i]) = WrapKey(r)
           /\ \A i, j \in PlaceOf(list, r.token, r.target) : i = j
           /\ PlaceOf(list, r.token, r.target) \subseteq DOMAIN list
<1>1. WrapKey(r) \in WrapKeys /\ r.token # NoPool
  BY WrapIs
<1>2. ASSUME NEW i \in DOMAIN list, i \in PlaceOf(list, r.token, r.target)
      PROVE  KeyOf(list[i]) = WrapKey(r)
  <2>1. list[i].chain = r.target /\ list[i].origin = r.token
    BY <1>2 DEF PlaceOf
  <2>2. PICK s \in WrapRequests : s.token = r.token /\ KeyOf(list[i]) = WrapKey(s)
    BY <1>1, <2>1 DEF Apart
  <2>3. s.target = r.target
    BY <2>1, <2>2 DEF KeyOf, WrapKey
  <2> QED
    BY <2>2, <2>3 DEF WrapKey
<1>3. ASSUME NEW i \in DOMAIN list, KeyOf(list[i]) = WrapKey(r)
      PROVE  i \in PlaceOf(list, r.token, r.target)
  <2>1. list[i].origin # NoPool
    BY <1>1, <1>3 DEF Apart
  <2>2. PICK s \in WrapRequests : s.token = list[i].origin /\ KeyOf(list[i]) = WrapKey(s)
    BY <2>1 DEF Apart
  <2>3. s.token = r.token
    BY <1>3, <2>2 DEF WrappedApart
  <2>4. list[i].chain = r.target
    BY <1>3 DEF KeyOf, WrapKey
  <2> QED
    BY <2>2, <2>3, <2>4 DEF PlaceOf
<1>4. PlaceOf(list, r.token, r.target) \subseteq DOMAIN list
  BY DEF PlaceOf
<1>5. ASSUME NEW i \in PlaceOf(list, r.token, r.target), NEW j \in PlaceOf(list, r.token, r.target)
      PROVE  i = j
  <2>1. i \in DOMAIN list /\ j \in DOMAIN list
    BY <1>4
  <2>2. KeyOf(list[i]) = WrapKey(r) /\ KeyOf(list[j]) = WrapKey(r)
    BY <1>2, <2>1
  <2> QED
    BY <1>1, <2>1, <2>2 DEF Apart
<1> QED
  BY <1>2, <1>3, <1>4, <1>5

LEMMA MinOfOne ==
    ASSUME NEW i \in Nat
    PROVE  Min({i}) = i
BY DEF Min

LEMMA WrappedKeyIs ==
    ASSUME PlatformAssumption, WrappedApart, NEW list \in TokenFile, Apart(list), NEW r \in WrapRequests
    PROVE  WrappedKey(list, r) = WrapKey(r)
<1> DEFINE at == PlaceOf(list, r.token, r.target)
<1>1. CASE at = {}
  BY <1>1 DEF WrappedKey, WrapKey
<1>2. CASE at # {}
  <2>1. PICK i \in DOMAIN list : at = {i} /\ KeyOf(list[i]) = WrapKey(r)
    BY <1>2, PlaceIs
  <2>2. Min(at) = i
    <3>1. i \in Nat
      BY EntryIs
    <3> QED
      BY <2>1, <3>1, MinOfOne
  <2>3. WrappedKey(list, r) = <<r.target, list[i].id>>
    BY <1>2, <2>2 DEF WrappedKey
  <2> QED
    BY <2>1, <2>3 DEF KeyOf, WrapKey
<1> QED
  BY <1>1, <1>2

\* A token at the end of the list, of a key that no wrapped token there has.
LEMMA ListAppends ==
    ASSUME NEW list \in TokenFile, Apart(list), NEW e \in PlatformToken,
           NEW more, more = Append(list, e),
           \/ e.origin = NoPool /\ KeyOf(e) \notin WrapKeys
           \/ /\ \E r \in WrapRequests : r.token = e.origin /\ KeyOf(e) = WrapKey(r)
              /\ \A i \in DOMAIN list : KeyOf(list[i]) # KeyOf(e)
              /\ e.origin # NoPool
    PROVE  /\ more \in TokenFile /\ Apart(more) /\ Grown(list, more)
           /\ more # <<>> /\ more[Len(more)] = e /\ Len(more) \in DOMAIN more
<1>1. /\ more \in TokenFile /\ Len(list) \in Nat /\ Len(more) = Len(list) + 1 /\ DOMAIN list = 1..Len(list)
      /\ DOMAIN more = 1..(Len(list) + 1)
      /\ \A i \in 1..Len(list) : more[i] = list[i]
      /\ more[Len(list) + 1] = e
  BY DEF TokenFile
<1>2. PICK n \in Nat : n = Len(list)
  BY <1>1
<1>3. \A i \in DOMAIN more : (i \in DOMAIN list /\ more[i] = list[i]) \/ (i = n + 1 /\ more[i] = e)
  BY <1>1, <1>2
<1>4. \A i \in DOMAIN list : i \in DOMAIN more /\ more[i] = list[i]
  BY <1>1, <1>2
<1>5. ASSUME NEW i \in DOMAIN more, more[i].origin # NoPool
      PROVE  \E r \in WrapRequests : r.token = more[i].origin /\ KeyOf(more[i]) = WrapKey(r)
  BY <1>3, <1>5 DEF Apart
<1>6. ASSUME NEW i \in DOMAIN more, more[i].origin = NoPool
      PROVE  KeyOf(more[i]) \notin WrapKeys
  BY <1>3, <1>6 DEF Apart
<1>7. ASSUME NEW i \in DOMAIN more, NEW j \in DOMAIN more,
             KeyOf(more[i]) = KeyOf(more[j]), KeyOf(more[i]) \in WrapKeys
      PROVE  i = j
  <2>1. (\A k \in DOMAIN list : KeyOf(list[k]) # KeyOf(e)) \/ KeyOf(e) \notin WrapKeys
    OBVIOUS
  <2> QED
    BY <1>3, <1>7, <2>1 DEF Apart
<1>8. Apart(more)
  BY <1>5, <1>6, <1>7 DEF Apart
<1>9. Grown(list, more)
  BY <1>4 DEF Grown, Covers
<1>10. more # <<>> /\ more[Len(more)] = e /\ Len(more) \in DOMAIN more
  BY <1>1
<1> QED
  BY <1>1, <1>8, <1>9, <1>10

\* The supply of a place that grows.
LEMMA ListRaises ==
    ASSUME NEW list \in TokenFile, Apart(list), NEW i \in DOMAIN list, NEW n \in Nat, NEW more,
           more = [list EXCEPT ![i].supply = list[i].supply + n],
           KeyOf(list[i]) \in WrapKeys
    PROVE  more \in TokenFile /\ Apart(more) /\ Grown(list, more) /\ GrownBy(list, more, KeyOf(list[i]), n)
<1>1. list[i] \in PlatformToken /\ list[i].supply \in Nat /\ i \in 1..Len(list)
  BY EntryIs
<1>2. PICK s \in Nat : s = list[i].supply + n
  BY <1>1
<1>3. PICK e : e = [list[i] EXCEPT !.supply = s]
  OBVIOUS
<1>4. e \in PlatformToken /\ e.supply = s /\ KeyOf(e) = KeyOf(list[i]) /\ e.origin = list[i].origin
  BY <1>1, <1>3 DEF PlatformToken, KeyOf
<1>5. more = [list EXCEPT ![i] = e]
  BY <1>2, <1>3
<1>6. more \in TokenFile /\ DOMAIN more = DOMAIN list
  BY <1>4, <1>5 DEF TokenFile
<1>7. \A j \in DOMAIN list : more[j] = IF j = i THEN e ELSE list[j]
  BY <1>5 DEF TokenFile
<1>8. \A j \in DOMAIN list : KeyOf(more[j]) = KeyOf(list[j]) /\ more[j].origin = list[j].origin
  BY <1>4, <1>7
<1>9. Apart(more)
  BY <1>6, <1>8 DEF Apart
<1>10. \A j \in DOMAIN list : list[j].supply <= more[j].supply /\ (j = i => list[j].supply + n <= more[j].supply)
                              /\ list[j].supply \in Nat /\ more[j].supply \in Nat
  <2> SUFFICES ASSUME NEW j \in DOMAIN list
               PROVE  list[j].supply <= more[j].supply /\ (j = i => list[j].supply + n <= more[j].supply)
                      /\ list[j].supply \in Nat /\ more[j].supply \in Nat
    OBVIOUS
  <2>1. list[j].supply \in Nat
    BY EntryIs
  <2> QED
    BY <1>1, <1>2, <1>4, <1>7, <2>1
<1>11. ASSUME NEW k \in WrapKeys, NEW m \in Nat, Covers(list, k, m)
       PROVE  Covers(more, k, m)
  <2>1. CASE m = 0
    BY <2>1 DEF Covers
  <2>2. CASE m # 0
    <3>1. PICK j \in DOMAIN list : KeyOf(list[j]) = k /\ m <= list[j].supply
      BY <1>11, <2>2 DEF Covers
    <3>2. m <= more[j].supply
      BY <1>10, <3>1
    <3> QED
      BY <1>6, <1>8, <3>1, <3>2 DEF Covers
  <2> QED
    BY <2>1, <2>2
<1>12. ASSUME NEW m \in Nat, Covers(list, KeyOf(list[i]), m)
       PROVE  Covers(more, KeyOf(list[i]), m + n)
  <2>1. m <= list[i].supply
    <3>1. CASE m = 0
      BY <1>1, <3>1
    <3>2. CASE m # 0
      <4>1. PICK j \in DOMAIN list : KeyOf(list[j]) = KeyOf(list[i]) /\ m <= list[j].supply
        BY <1>12, <3>2 DEF Covers
      <4>2. j = i
        BY <4>1 DEF Apart
      <4> QED
        BY <4>1, <4>2
    <3> QED
      BY <3>1, <3>2
  <2>2. m + n <= more[i].supply
    <3>1. list[i].supply + n <= more[i].supply /\ more[i].supply \in Nat
      BY <1>10
    <3>2. PICK x, y : x = list[i].supply /\ y = more[i].supply
      OBVIOUS
    <3>3. m <= x /\ x + n <= y /\ x \in Nat /\ y \in Nat
      BY <1>1, <2>1, <3>1, <3>2
    <3>4. m + n <= y
      BY <3>3
    <3> QED
      BY <3>2, <3>4
  <2> QED
    BY <1>6, <1>8, <2>2 DEF Covers
<1> QED
  BY <1>6, <1>9, <1>11, <1>12 DEF Grown, GrownBy

\* Wrapping adds to the supply of the wrapped token what it credits.
LEMMA WrapGrows ==
    ASSUME PlatformAssumption, WrappedApart, NEW list \in TokenFile, Apart(list), NEW r \in WrapRequests,
           NEW more, more = WrappedMore(list, r)
    PROVE  /\ more \in TokenFile /\ Apart(more) /\ Grown(list, more) /\ GrownBy(list, more, WrapKey(r), r.n)
<1> DEFINE at == PlaceOf(list, r.token, r.target)
           k == WrappedKey(list, r)
<1>1. k = WrapKey(r)
  BY WrappedKeyIs
<1>2. /\ r.token \in Token /\ r.n \in Nat /\ WrapKey(r) \in Token /\ WrapKey(r) \in WrapKeys /\ r.token # NoPool
      /\ r.target \in PlatformChain /\ WrapId[<<r.token[2], r.target>>] \in Id
  BY WrapIs
<1>3. CASE at = {}
  <2>1. PICK e : e = [chain |-> k[1], id |-> k[2], supply |-> r.n, origin |-> r.token]
    OBVIOUS
  <2>2. k[1] = r.target /\ k[2] = WrapId[<<r.token[2], r.target>>]
    BY <1>1 DEF WrapKey
  <2>3. e \in PlatformToken /\ KeyOf(e) = WrapKey(r) /\ e.origin = r.token /\ e.supply = r.n
    BY <1>2, <2>1, <2>2 DEF PlatformToken, KeyOf, WrapKey
  <2>4. more = Append(list, e)
    BY <1>3, <2>1 DEF WrappedMore
  <2>5. \A i \in DOMAIN list : KeyOf(list[i]) # KeyOf(e)
    BY <1>3, <2>3, PlaceIs
  <2>6. /\ more \in TokenFile /\ Apart(more) /\ Grown(list, more)
        /\ more[Len(more)] = e /\ Len(more) \in DOMAIN more
    BY <1>2, <2>3, <2>4, <2>5, ListAppends
  <2>7. ASSUME NEW m \in Nat, Covers(list, WrapKey(r), m)
        PROVE  Covers(more, WrapKey(r), m + r.n)
    <3>1. m = 0
      BY <2>3, <2>5, <2>7 DEF Covers
    <3>2. m + r.n <= more[Len(more)].supply
      BY <1>2, <2>3, <2>6, <3>1
    <3> QED
      BY <2>3, <2>6, <3>2 DEF Covers
  <2> QED
    BY <2>6, <2>7 DEF GrownBy
<1>4. CASE at # {}
  <2>1. PICK i \in DOMAIN list : at = {i} /\ KeyOf(list[i]) = WrapKey(r)
    BY <1>4, PlaceIs
  <2>2. i \in Nat
    BY EntryIs
  <2>3. {j \in DOMAIN list : KeyOf(list[j]) = k} = {i}
    BY <1>1, <1>2, <2>1 DEF Apart
  <2>4. Min(at) = i /\ FirstOf(list, k) = i
    BY <2>1, <2>2, <2>3, MinOfOne DEF FirstOf
  <2>5. more = [list EXCEPT ![i].supply = list[i].supply + r.n]
    BY <1>4, <2>4 DEF WrappedMore
  <2>6. PICK n \in Nat : n = r.n
    BY <1>2
  <2>7. more = [list EXCEPT ![i].supply = list[i].supply + n] /\ KeyOf(list[i]) \in WrapKeys
    BY <1>2, <2>1, <2>5, <2>6
  <2>8. /\ more \in TokenFile /\ Apart(more) /\ Grown(list, more)
        /\ GrownBy(list, more, KeyOf(list[i]), n)
    BY <2>7, ListRaises
  <2> QED
    BY <2>1, <2>6, <2>8
<1> QED
  BY <1>3, <1>4

-----------------------------------------------------------------------------
(* Copies of the portfolio *)

CopiesHeld(list) ==
    /\ cached # NoFile => Covered(list, cached)
    /\ file \notin {NoFile, Broken} => Covered(list, file)
    /\ \A c \in Client : Covered(list, view[c])

LEMMA CoversLess ==
    ASSUME NEW list \in TokenFile, NEW k, NEW m \in Nat, NEW n \in Nat, n <= m, Covers(list, k, m)
    PROVE  Covers(list, k, n)
<1>1. CASE n = 0
  BY <1>1 DEF Covers
<1>2. CASE n # 0
  <2>1. PICK i \in DOMAIN list : KeyOf(list[i]) = k /\ m <= list[i].supply
    BY <1>2 DEF Covers
  <2>2. PICK x \in Nat : x = list[i].supply
    BY EntryIs
  <2>3. n <= x
    BY <2>1, <2>2
  <2> QED
    BY <2>1, <2>2, <2>3 DEF Covers
<1> QED
  BY <1>1, <1>2

LEMMA BalanceIs ==
    ASSUME NEW p \in PortfolioRecord, NEW b, NEW k, NEW v
    PROVE  [p EXCEPT !.bal = b].bal = b /\ [p EXCEPT !.bal[k] = v].bal = [p.bal EXCEPT ![k] = v]
BY RecordIs

LEMMA DefaultCovered ==
    ASSUME PlatformAssumption, WrappedApart, NEW list
    PROVE  Covered(list, DefaultPortfolio)
<1>1. ASSUME NEW k \in WrapKeys
      PROVE  DefaultPortfolio.bal[k] = 0
  BY WrapKeysAre DEF DefaultPortfolio, NoAmounts, WrappedApart, Key
<1> QED
  BY <1>1 DEF Covered, Covers

\* A copy whose balance of one key changes.
LEMMA BookCovered ==
    ASSUME PlatformAssumption, NEW list, NEW p \in PortfolioRecord, Covered(list, p), NEW k, NEW v,
           k \in WrapKeys => Covers(list, k, v)
    PROVE  Covered(list, [p EXCEPT !.bal[k] = v])
<1>1. PICK q : q = [p EXCEPT !.bal[k] = v]
  OBVIOUS
<1>2. q.bal = [p.bal EXCEPT ![k] = v] /\ p.bal \in [Key -> Nat]
  BY <1>1, BalanceIs, RecordIs
<1>3. ASSUME NEW j \in WrapKeys
      PROVE  Covers(list, j, q.bal[j])
  <2>1. j \in Key
    BY WrapKeysAre DEF Key
  <2>2. CASE j = k
    BY <1>2, <2>1, <2>2
  <2>3. CASE j # k
    <3>1. q.bal[j] = p.bal[j]
      BY <1>2, <2>1, <2>3
    <3> QED
      BY <3>1 DEF Covered
  <2> QED
    BY <2>2, <2>3
<1> QED
  BY <1>1, <1>3 DEF Covered

LEMMA SyncedCovered ==
    ASSUME PlatformAssumption, WrappedApart, NEW list, NEW p \in PortfolioRecord, Covered(list, p), NEW q \in Synced(p)
    PROVE  Covered(list, q)
<1>1. /\ Onex \in Key /\ Onex \notin WrapKeys /\ EvmBalances \in [Key -> Nat] /\ WrapKeys \subseteq Key
      /\ \A k \in WrapKeys : EvmBalances[k] = 0
  BY WrapKeysAre, PortfolioAssumed DEF PortfolioAssumption, Key, Amounts, WrappedApart
<1>2. p.bal \in [Key -> Nat]
  BY RecordIs
<1>3. ASSUME NEW n, NEW k \in WrapKeys
      PROVE  /\ [EvmBalances EXCEPT ![Onex] = IF @ > 0 THEN @ ELSE n][k] = 0
             /\ [NoAmounts EXCEPT ![Onex] = n][k] = 0 /\ [p.bal EXCEPT ![Onex] = n][k] = p.bal[k]
  BY <1>1, <1>2 DEF NoAmounts
<1>4. PICK b : q = [p EXCEPT !.bal = b] /\ \A k \in WrapKeys : b[k] \in {0, p.bal[k]}
  <2>1. PICK n \in {ChainBalance, p.bal[Onex]} :
           \/ q = [p EXCEPT !.bal = [EvmBalances EXCEPT ![Onex] = IF @ > 0 THEN @ ELSE n]]
           \/ q = [p EXCEPT !.bal = [NoAmounts EXCEPT ![Onex] = n]]
           \/ q = [p EXCEPT !.bal = [p.bal EXCEPT ![Onex] = n]]
    BY DEF Synced
  <2>2. CASE q = [p EXCEPT !.bal = [EvmBalances EXCEPT ![Onex] = IF @ > 0 THEN @ ELSE n]]
    <3>1. PICK b : b = [EvmBalances EXCEPT ![Onex] = IF @ > 0 THEN @ ELSE n]
      OBVIOUS
    <3>2. \A k \in WrapKeys : b[k] = 0
      BY <1>3, <3>1
    <3> QED
      BY <2>2, <3>1, <3>2
  <2>3. CASE q = [p EXCEPT !.bal = [NoAmounts EXCEPT ![Onex] = n]]
    <3>1. PICK b : b = [NoAmounts EXCEPT ![Onex] = n]
      OBVIOUS
    <3>2. \A k \in WrapKeys : b[k] = 0
      BY <1>3, <3>1
    <3> QED
      BY <2>3, <3>1, <3>2
  <2>4. CASE q = [p EXCEPT !.bal = [p.bal EXCEPT ![Onex] = n]]
    <3>1. PICK b : b = [p.bal EXCEPT ![Onex] = n]
      OBVIOUS
    <3>2. \A k \in WrapKeys : b[k] = p.bal[k]
      BY <1>3, <3>1
    <3> QED
      BY <2>4, <3>1, <3>2
  <2> QED
    BY <2>1, <2>2, <2>3, <2>4
<1>5. q.bal = b
  BY <1>4, BalanceIs
<1> QED
  BY <1>4, <1>5 DEF Covered, Covers

LEMMA HeldGo ==
    ASSUME PlatformAssumption, WrappedApart, Copies, NEW list, CopiesHeld(list), NEW c \in Client, NEW rest,
           NEW p, NEW owner, Go(c, rest, p, owner), Covered(list, p),
           cached' # NoFile => Covered(list, cached'),
           file' \notin {NoFile, Broken} => Covered(list, file')
    PROVE  CopiesHeld(list)'
<1>1. view' = [view EXCEPT ![c] = IF rest = <<>> THEN DefaultPortfolio ELSE p]
  BY DEF Go
<1>2. ASSUME NEW d \in Client
      PROVE  Covered(list, view'[d])
  <2>1. view'[d] \in {view[d], DefaultPortfolio, p}
    BY <1>1 DEF Copies
  <2> QED
    BY <2>1, DefaultCovered DEF CopiesHeld
<1> QED
  BY <1>2 DEF CopiesHeld

LEMMA HeldChange ==
    ASSUME PlatformAssumption, WrappedApart, Copies, NEW list, CopiesHeld(list), NEW c \in Client, NEW rest,
           NEW p, Change(c, rest, p), Covered(list, p)
    PROVE  CopiesHeld(list)'
<1>1. Go(c, rest, p, alias) /\ cached' \in {cached, p} /\ file' = file
  BY DEF Change
<1>2. cached' # NoFile => Covered(list, cached')
  BY <1>1 DEF CopiesHeld
<1>3. file' \notin {NoFile, Broken} => Covered(list, file')
  BY <1>1 DEF CopiesHeld
<1> QED
  BY <1>1, <1>2, <1>3, HeldGo

LEMMA HeldSkip ==
    ASSUME PlatformAssumption, WrappedApart, Copies, NEW list, CopiesHeld(list), NEW c \in Client, NEW n,
           Skip(c, n) \/ Refuse(c)
    PROVE  CopiesHeld(list)'
<1>1. Covered(list, view[c])
  BY DEF CopiesHeld
<1> QED
  BY <1>1, HeldChange DEF Skip, Refuse

LEMMA HeldDoes ==
    ASSUME PlatformAssumption, WrappedApart, Copies, NEW list, CopiesHeld(list), NEW c \in Client,
           NEW step, NEW ok, NEW p, Does(c, step, ok, p), ok => Covered(list, p)
    PROVE  CopiesHeld(list)'
<1>1. CASE ok
  BY <1>1, HeldChange DEF Does
<1>2. CASE ~ok
  BY <1>2, HeldSkip DEF Does
<1> QED
  BY <1>1, <1>2

LEMMA HeldLoad ==
    ASSUME PlatformAssumption, WrappedApart, Copies, NEW list, CopiesHeld(list), NEW c \in Client, Load(c)
    PROVE  CopiesHeld(list)'
<1>1. PICK p : /\ p \in IF cached # NoFile THEN {cached}
                         ELSE {IF file = NoFile THEN DefaultPortfolio ELSE file}
                              \cup IF DiskFaults THEN {DefaultPortfolio} ELSE {}
               /\ IF p = Broken THEN Refuse(c)
                  ELSE /\ cached' = p
                       /\ \E q \in Synced(p) :
                             Go(c, Tail(todo[c]), q, IF alias = c THEN Nobody ELSE alias)
                       /\ UNCHANGED file
  BY DEF Load
<1>2. CASE p = Broken
  BY <1>1, <1>2, HeldSkip
<1>3. CASE p # Broken
  <2>1. p \in PortfolioRecord /\ Covered(list, p)
    BY <1>1, <1>3, DefaultTyped, DefaultCovered DEF Copies, CopiesHeld
  <2>2. PICK q \in Synced(p) : Go(c, Tail(todo[c]), q, IF alias = c THEN Nobody ELSE alias)
    BY <1>1, <1>3
  <2>3. Covered(list, q)
    BY <2>1, SyncedCovered
  <2>4. cached' = p /\ file' = file
    BY <1>1, <1>3
  <2>5. (cached' # NoFile => Covered(list, cached')) /\ (file' \notin {NoFile, Broken} => Covered(list, file'))
    BY <2>1, <2>4 DEF CopiesHeld
  <2> QED
    BY <2>2, <2>3, <2>5, HeldGo
<1> QED
  BY <1>2, <1>3

LEMMA HeldSave ==
    ASSUME PlatformAssumption, WrappedApart, Copies, NEW list, CopiesHeld(list), NEW c \in Client, Save(c)
    PROVE  CopiesHeld(list)'
<1>1. /\ file' \in {view[c], file, Broken} /\ cached' = view[c]
      /\ Go(c, Tail(todo[c]), view[c], c) \/ Go(c, <<>>, view[c], c)
  BY DEF Save
<1>2. Covered(list, view[c])
  BY DEF CopiesHeld
<1>3. (cached' # NoFile => Covered(list, cached')) /\ (file' \notin {NoFile, Broken} => Covered(list, file'))
  BY <1>1, <1>2 DEF CopiesHeld
<1> QED
  BY <1>1, <1>2, <1>3, HeldGo

LEMMA HeldGrows ==
    ASSUME PlatformAssumption, NEW list, NEW more, Grown(list, more), Copies, CopiesHeld(list)
    PROVE  CopiesHeld(more)
<1>1. ASSUME NEW p \in PortfolioRecord, Covered(list, p)
      PROVE  Covered(more, p)
  <2> SUFFICES ASSUME NEW k \in WrapKeys PROVE Covers(more, k, p.bal[k])
    BY DEF Covered
  <2>1. p.bal[k] \in Nat
    BY RecordIs, WrapKeysAre DEF Key
  <2>2. Covers(list, k, p.bal[k])
    BY <1>1 DEF Covered
  <2> QED
    BY <2>1, <2>2 DEF Grown
<1> QED
  BY <1>1 DEF CopiesHeld, Copies

LEMMA RecordedGrows ==
    ASSUME PlatformAssumption, NEW list, NEW more, Grown(list, more), NEW w \in WrapFile, Recorded(list, w)
    PROVE  Recorded(more, w)
<1> SUFFICES ASSUME NEW r \in WrapRequests PROVE Covers(more, WrapKey(r), w[<<r.token, r.target>>])
  BY DEF Recorded
<1>1. w[<<r.token, r.target>>] \in Nat /\ WrapKey(r) \in WrapKeys
  BY WrapIs DEF WrapFile
<1> QED
  BY <1>1 DEF Recorded, Grown

\* The records of a wrap that is recorded.
LEMMA RecordedMore ==
    ASSUME PlatformAssumption, WrappedApart, NEW list, NEW more, Grown(list, more), NEW r \in WrapRequests,
           GrownBy(list, more, WrapKey(r), r.n), NEW w \in WrapFile, Recorded(list, w)
    PROVE  Recorded(more, [w EXCEPT ![<<r.token, r.target>>] = @ + r.n])
<1> DEFINE new == [w EXCEPT ![<<r.token, r.target>>] = @ + r.n]
<1>1. w \in [Token \X PlatformChain -> Nat]
  BY DEF WrapFile
<1>2. /\ r.token \in Token /\ r.target \in PlatformChain /\ r.n \in Nat
      /\ <<r.token, r.target>> \in Token \X PlatformChain /\ w[<<r.token, r.target>>] \in Nat
  BY <1>1, WrapIs
<1>4. ASSUME NEW s \in WrapRequests
      PROVE  Covers(more, WrapKey(s), new[<<s.token, s.target>>])
  <2>1. /\ s.token \in Token /\ s.target \in PlatformChain /\ w[<<s.token, s.target>>] \in Nat
        /\ <<s.token, s.target>> \in Token \X PlatformChain /\ WrapKey(s) \in WrapKeys
        /\ Covers(list, WrapKey(s), w[<<s.token, s.target>>])
    BY <1>1, WrapIs DEF Recorded
  <2>2. CASE s.token = r.token /\ s.target = r.target
    <3>1. WrapKey(s) = WrapKey(r) /\ new[<<s.token, s.target>>] = w[<<r.token, r.target>>] + r.n
      BY <1>1, <1>2, <2>2 DEF WrapKey
    <3> QED
      BY <1>2, <2>1, <2>2, <3>1 DEF GrownBy
  <2>3. CASE ~(s.token = r.token /\ s.target = r.target)
    <3>1. <<s.token, s.target>> # <<r.token, r.target>>
      BY <2>3
    <3>2. new[<<s.token, s.target>>] = w[<<s.token, s.target>>]
      BY <1>1, <2>1, <3>1
    <3> QED
      BY <2>1, <3>2 DEF Grown
  <2> QED
    BY <2>2, <2>3
<1> QED
  BY <1>4 DEF Recorded

-----------------------------------------------------------------------------
(* The steps of a request on the platform *)

\* Which step stands before which.
Order(op) ==
    CASE op = "wrap" ->
            {<<"loadTokens", "load">>, <<"load", "keep">>, <<"keep", "wrap">>, <<"wrap", "customMore">>,
             <<"customMore", "loadWraps">>, <<"loadWraps", "saveTokens">>, <<"saveTokens", "saveWraps">>,
             <<"saveWraps", "spend">>, <<"spend", "obtain">>, <<"obtain", "save">>}
      [] op = "deploy" ->
            {<<"loadTokens", "deploy">>, <<"deploy", "saveTokens">>, <<"saveTokens", "customOnce">>,
             <<"customOnce", "load">>, <<"load", "keep">>, <<"keep", "issue">>, <<"issue", "mustSave">>,
             <<"mustSave", "load">>, <<"keep", "isOpen">>, <<"isOpen", "mark">>, <<"mark", "reward">>,
             <<"reward", "save">>}
      [] OTHER -> {}
Linked(s, op) == \A i \in 1..Len(s) : i < Len(s) => <<s[i], s[i + 1]>> \in Order(op)
PlatStep == {"loadTokens", "load", "keep", "wrap", "customMore", "loadWraps", "saveTokens", "saveWraps", "spend",
             "obtain", "save", "deploy", "customOnce", "issue", "mustSave", "isOpen", "mark", "reward", "list"}
\* The first n steps, and the one after them.
Passes(s, n, op) == \A i \in 1..n : <<s[i], s[i + 1]>> \in Order(op)
Way(s, op) == s \in Seq(PlatStep) /\ Len(s) >= 1 /\ Linked(s, op)

\* Such a way, from one step to another.
Goes(s, op, first, last) == Way(s, op) /\ s[1] = first /\ s[Len(s)] = last

LEMMA WayBoth ==
    ASSUME NEW op, NEW first, NEW b, NEW a, NEW last, NEW s, Goes(s, op, first, b),
           NEW t, Goes(t, op, a, last), <<b, a>> \in Order(op)
    PROVE  Goes(s \o t, op, first, last)
<1> DEFINE u == s \o t
<1>1. /\ u \in Seq(PlatStep) /\ Len(u) = Len(s) + Len(t) /\ Len(s) \in Nat /\ Len(t) \in Nat
      /\ Len(s) >= 1 /\ Len(t) >= 1
      /\ \A i \in 1..Len(s) : u[i] = s[i]
      /\ \A i \in 1..Len(t) : u[Len(s) + i] = t[i]
  BY DEF Way, Goes
<1> HIDE DEF u
<1>2. u[1] = s[1] /\ u[Len(u)] = t[Len(t)]
  BY <1>1
<1>10. s[1] = first /\ s[Len(s)] = b /\ t[1] = a /\ t[Len(t)] = last
  BY DEF Goes
<1>3. ASSUME NEW i \in 1..Len(u), i < Len(u)
      PROVE  <<u[i], u[i + 1]>> \in Order(op)
  <2>1. CASE i < Len(s)
    <3>1. i \in 1..Len(s) /\ i + 1 \in 1..Len(s)
      BY <1>1, <2>1
    <3>2. u[i] = s[i] /\ u[i + 1] = s[i + 1]
      BY <1>1, <3>1
    <3> QED
      BY <2>1, <3>1, <3>2 DEF Goes, Way, Linked
  <2>2. CASE i = Len(s)
    <3>1. i \in 1..Len(s) /\ 1 \in 1..Len(t) /\ i + 1 = Len(s) + 1
      BY <1>1, <2>2
    <3>2. u[i] = s[Len(s)] /\ u[i + 1] = t[1]
      BY <1>1, <2>2, <3>1
    <3> QED
      BY <1>10, <3>2
  <2>3. CASE i > Len(s)
    <3>1. PICK j \in 1..Len(t) : i = Len(s) + j /\ j < Len(t)
      <4>1. PICK x \in Nat, y \in Nat : x = Len(s) /\ y = Len(t)
        BY <1>1
      <4>2. i \in Nat /\ i < x + y /\ i > x
        BY <1>1, <1>3, <2>3, <4>1
      <4>3. i - x \in 1..y /\ i = x + (i - x) /\ i - x < y
        BY <4>2
      <4> QED
        BY <4>1, <4>3
    <3>2. j + 1 \in 1..Len(t) /\ i + 1 = Len(s) + (j + 1)
      BY <1>1, <3>1
    <3>3. u[i] = t[j] /\ u[i + 1] = t[j + 1]
      BY <1>1, <3>1, <3>2
    <3> QED
      BY <3>1, <3>3 DEF Goes, Way, Linked
  <2> QED
    BY <1>1, <2>1, <2>2, <2>3
<1> QED
  BY <1>1, <1>2, <1>3, <1>10 DEF Goes, Way, Linked, u

LEMMA WrapIsAWay == Goes(Wrap, "wrap", "loadTokens", "save")
<1>1. Goes(<<"loadTokens">>, "wrap", "loadTokens", "loadTokens")
  BY DEF Goes, Way, Linked, PlatStep
<1>2. Goes(GetPortfolio, "wrap", "load", "keep")
  BY DEF Goes, Way, Linked, Order, PlatStep, GetPortfolio
<1>3. Goes(<<"wrap", "customMore", "loadWraps", "saveTokens", "saveWraps", "spend", "obtain", "save">>,
           "wrap", "wrap", "save")
  BY DEF Goes, Way, Linked, Order, PlatStep
<1>4. <<"loadTokens", "load">> \in Order("wrap") /\ <<"keep", "wrap">> \in Order("wrap")
  BY DEF Order
<1>5. Goes(<<"loadTokens">> \o GetPortfolio, "wrap", "loadTokens", "keep")
  BY <1>1, <1>2, <1>4, WayBoth
<1> QED
  BY <1>3, <1>4, <1>5, WayBoth DEF Wrap

LEMMA DeployIsAWay == Way(Deploy, "deploy") /\ Head(Deploy) = "loadTokens"
<1> DEFINE a == <<"loadTokens", "deploy", "saveTokens", "customOnce">>
           i == <<"issue", "mustSave">>
           z == <<"isOpen", "mark", "reward", "save">>
<1>1. Goes(a, "deploy", "loadTokens", "customOnce")
  BY DEF Goes, Way, Linked, Order, PlatStep
<1>2. Goes(GetPortfolio, "deploy", "load", "keep")
  BY DEF Goes, Way, Linked, Order, PlatStep, GetPortfolio
<1>3. Goes(i, "deploy", "issue", "mustSave")
  BY DEF Goes, Way, Linked, Order, PlatStep
<1>4. Goes(z, "deploy", "isOpen", "save")
  BY DEF Goes, Way, Linked, Order, PlatStep
<1>5. /\ <<"customOnce", "load">> \in Order("deploy") /\ <<"keep", "issue">> \in Order("deploy")
      /\ <<"mustSave", "load">> \in Order("deploy") /\ <<"keep", "isOpen">> \in Order("deploy")
  BY DEF Order
<1>6. Deploy = (((a \o GetPortfolio) \o i) \o GetPortfolio) \o (IF TaskOf["deploy"] = NoTask THEN <<>> ELSE z)
  BY DEF Deploy, Complete
<1> HIDE DEF a, i, z
<1>7. Goes(a \o GetPortfolio, "deploy", "loadTokens", "keep")
  BY <1>1, <1>2, <1>5, WayBoth
<1>8. Goes((a \o GetPortfolio) \o i, "deploy", "loadTokens", "mustSave")
  BY <1>3, <1>5, <1>7, WayBoth
<1>9. PICK d : d = ((a \o GetPortfolio) \o i) \o GetPortfolio
  OBVIOUS
<1>10. Goes(d, "deploy", "loadTokens", "keep")
  BY <1>2, <1>5, <1>8, <1>9, WayBoth
<1>11. Goes(d \o z, "deploy", "loadTokens", "save")
  BY <1>4, <1>5, <1>10, WayBoth
<1>12. d \o <<>> = d
  BY <1>10 DEF Goes, Way
<1>13. Deploy = d \/ Deploy = d \o z
  BY <1>6, <1>9, <1>12
<1>14. PICK last : Goes(Deploy, "deploy", "loadTokens", last)
  BY <1>10, <1>11, <1>13
<1> QED
  BY <1>14 DEF Goes, Way

\* What a request has left after n of its steps.
LEMMA RestLinked ==
    ASSUME NEW op, NEW s, Way(s, op), NEW n \in Nat, n >= 1, NEW rest, rest = SubSeq(s, n + 1, Len(s)), rest # <<>>
    PROVE  /\ Way(rest, op) /\ n < Len(s) /\ Head(rest) = s[n + 1]
           /\ \A i \in 1..n : <<s[i], s[i + 1]>> \in Order(op)
<1>1. /\ rest \in Seq(PlatStep) /\ Len(s) \in Nat
      /\ Len(rest) = IF n < Len(s) THEN Len(s) - n ELSE 0
      /\ \A i \in 1..Len(rest) : rest[i] = s[n + i]
  BY DEF Way
<1>2. n < Len(s) /\ Len(rest) >= 1 /\ Head(rest) = rest[1] /\ 1 \in 1..Len(rest)
  BY <1>1
<1>3. Linked(rest, op)
  <2> SUFFICES ASSUME NEW i \in 1..Len(rest), i < Len(rest) PROVE <<rest[i], rest[i + 1]>> \in Order(op)
    BY DEF Linked
  <2>1. /\ i + 1 \in 1..Len(rest) /\ n + i \in 1..Len(s) /\ n + i < Len(s)
        /\ (n + i) + 1 = n + (i + 1)
    BY <1>1, <1>2
  <2>2. rest[i] = s[n + i] /\ rest[i + 1] = s[n + (i + 1)]
    BY <1>1, <2>1
  <2>3. <<s[n + i], s[(n + i) + 1]>> \in Order(op)
    BY <2>1 DEF Way, Linked
  <2> QED
    BY <2>1, <2>2, <2>3
<1>4. \A i \in 1..n : i \in 1..Len(s) /\ i < Len(s)
  BY <1>1, <1>2
<1> QED
  BY <1>1, <1>2, <1>3, <1>4 DEF Way, Linked

\* Where a request may stand.
Stations(op) == IF op = "list" THEN {"list"} ELSE {"loadTokens"} \cup {x[2] : x \in Order(op)}

PlanInv ==
    /\ todo \in [Client -> Seq(PlatStep)] /\ ask \in [Client -> PlatformRequests \cup {NoRequest}]
    /\ \A c \in Client : todo[c] # <<>> =>
          /\ ask[c] \in PlatformRequests /\ Way(todo[c], ask[c].op)
          /\ Head(todo[c]) \in Stations(ask[c].op)

LEMMA PlanBegin ==
    ASSUME PlatformAssumption, PlanInv, NEW c \in Client, PlatformBegin(c)
    PROVE  PlanInv'
<1>1. PICK r \in PlatformRequests : ask' = [ask EXCEPT ![c] = r] /\ todo' = [todo EXCEPT ![c] = PlatformProgram(r.op)]
  BY DEF PlatformBegin
<1>2. r.op \in {"deploy", "wrap", "list"}
  BY DEF PlatformAssumption, PlatformRequest
<1>3. Way(PlatformProgram(r.op), r.op) /\ Head(PlatformProgram(r.op)) \in Stations(r.op)
  <2>1. CASE r.op = "deploy"
    BY <2>1, DeployIsAWay DEF PlatformProgram, Stations
  <2>2. CASE r.op = "wrap"
    <3>1. Way(Wrap, "wrap") /\ Head(Wrap) = "loadTokens"
      BY WrapIsAWay DEF Goes, Way
    <3> QED
      BY <2>2, <3>1 DEF PlatformProgram, Stations
  <2>3. CASE r.op = "list"
    BY <2>3 DEF PlatformProgram, Way, Linked, PlatStep, Stations
  <2> QED
    BY <1>2, <2>1, <2>2, <2>3
<1>4. PlatformProgram(r.op) \in Seq(PlatStep)
  BY <1>3 DEF Way
<1> QED
  BY <1>1, <1>3, <1>4 DEF PlanInv

\* Where a request stands tells which it is.
LEMMA PlanAt ==
    ASSUME PlatformAssumption, PlanInv, NEW c \in Client, todo[c] # <<>>
    PROVE  /\ ask[c] \in PlatformRequests /\ ask[c].token \in Token /\ ask[c].target \in PlatformChain
           /\ ask[c].n \in Nat /\ ask[c].token[1] \in PlatformChain /\ ask[c].token[2] \in Id
           /\ ask[c].token = <<ask[c].token[1], ask[c].token[2]>>
           /\ ask[c].op \in {"deploy", "wrap", "list"} /\ (ask[c].op = "wrap" <=> ask[c] \in WrapRequests)
           /\ todo[c] \in Seq(PlatStep) /\ Head(todo[c]) = todo[c][1] /\ Tail(todo[c]) = SubSeq(todo[c], 2, Len(todo[c]))
           /\ Head(todo[c]) \in {"wrap", "customMore", "loadWraps", "saveWraps", "spend", "obtain"}
              => ask[c].op = "wrap"
           /\ Head(todo[c]) \in {"deploy", "customOnce", "issue", "mustSave", "isOpen", "mark", "reward"}
              => ask[c].op = "deploy"
           /\ Head(todo[c]) \in {"loadTokens", "load", "keep", "saveTokens", "save"} => ask[c].op # "list"
<1>1. PICK r, s : r = ask[c] /\ s = todo[c]
  OBVIOUS
<1>2. r \in PlatformRequests /\ r \in PlatformRequest /\ s \in Seq(PlatStep) /\ s # <<>> /\ Head(s) \in Stations(r.op)
  BY <1>1 DEF PlanInv, PlatformAssumption
<1>3. /\ r.token \in Token /\ r.target \in PlatformChain /\ r.n \in Nat /\ r.op \in {"deploy", "wrap", "list"}
      /\ Token = PlatformChain \X Id
  BY <1>2 DEF PlatformRequest, PlatformAssumption
<1>4. r.token[1] \in PlatformChain /\ r.token[2] \in Id /\ r.token = <<r.token[1], r.token[2]>>
  BY <1>3
<1>5. r.op = "wrap" <=> r \in WrapRequests
  BY <1>2 DEF WrapRequests
<1>6. Head(s) = s[1] /\ Tail(s) = SubSeq(s, 2, Len(s))
  BY <1>2
<1>7. PICK h : h = Head(s)
  OBVIOUS
<1>8. CASE r.op = "wrap"
  <2>1. h \in {"loadTokens", "load", "keep", "wrap", "customMore", "loadWraps", "saveTokens", "saveWraps", "spend",
               "obtain", "save"}
    BY <1>2, <1>7, <1>8 DEF Stations, Order
  <2> QED
    BY <1>1, <1>2, <1>3, <1>4, <1>5, <1>6, <1>7, <1>8, <2>1
<1>9. CASE r.op = "deploy"
  <2>1. h \in {"loadTokens", "deploy", "saveTokens", "customOnce", "load", "keep", "issue", "mustSave",
               "isOpen", "mark", "reward", "save"}
    BY <1>2, <1>7, <1>9 DEF Stations, Order
  <2> QED
    BY <1>1, <1>2, <1>3, <1>4, <1>5, <1>6, <1>7, <1>9, <2>1
<1>10. CASE r.op = "list"
  <2>1. h = "list"
    BY <1>2, <1>7, <1>10 DEF Stations
  <2> QED
    BY <1>1, <1>2, <1>3, <1>4, <1>5, <1>6, <1>7, <1>10, <2>1
<1> QED
  BY <1>3, <1>8, <1>9, <1>10

LEMMA PlanGo ==
    ASSUME PlatformAssumption, PlanInv, NEW c \in Client, todo[c] # <<>>, NEW n \in Nat, n >= 1,
           NEW rest, rest \in {<<>>, SubSeq(todo[c], n + 1, Len(todo[c]))}, NEW p, NEW owner, Go(c, rest, p, owner)
    PROVE  /\ PlanInv' /\ todo'[c] = rest
           /\ rest # <<>> =>
                 /\ ask'[c] = ask[c] /\ Head(rest) = todo[c][n + 1]
                 /\ Passes(todo[c], n, ask[c].op)
<1>1. PICK r, s : r = ask[c] /\ s = todo[c]
  OBVIOUS
<1>2. /\ todo' = [todo EXCEPT ![c] = rest]
      /\ ask' = [ask EXCEPT ![c] = IF rest = <<>> THEN NoRequest ELSE @]
  BY DEF Go
<1>3. Way(s, r.op) /\ r \in PlatformRequests
  BY <1>1 DEF PlanInv
<1>4. rest # <<>> =>
         /\ Way(rest, r.op) /\ n < Len(s) /\ Head(rest) = s[n + 1]
         /\ \A i \in 1..n : <<s[i], s[i + 1]>> \in Order(r.op)
  BY <1>1, <1>3, RestLinked
<1>5. rest # <<>> => Head(rest) \in Stations(r.op)
  <2> HAVE rest # <<>>
  <2>1. n \in 1..n /\ <<s[n], s[n + 1]>> \in Order(r.op)
    BY <1>4
  <2>2. PICK x \in Order(r.op) : x[2] = Head(rest)
    BY <1>4, <2>1
  <2>3. r.op # "list"
    BY <2>1 DEF Order
  <2> QED
    BY <2>2, <2>3 DEF Stations
<1>6. rest \in Seq(PlatStep)
  <2>1. <<>> \in Seq(PlatStep)
    OBVIOUS
  <2> QED
    BY <1>4, <2>1 DEF Way
<1>7. PlanInv'
  BY <1>1, <1>2, <1>3, <1>4, <1>5, <1>6 DEF PlanInv
<1> QED
  BY <1>1, <1>2, <1>4, <1>7 DEF PlanInv, Passes

-----------------------------------------------------------------------------
(* What a request on the platform knows of the files *)

TypesInv ==
    /\ Copies
    /\ issued \in TokenFile \cup {Broken} /\ wraps \in WrapFile \cup {Broken}
    /\ custom \in (SUBSET Token) \cup {Broken} /\ listed \subseteq Token
    /\ tcopy \in [Client -> TokenFile] /\ wcopy \in [Client -> WrapFile]

\* A request that stands at a step, with its copies t and w of the files and v of
\* the portfolio, beside the tokens that are issued.
Where(list, h, r, t, w, v) ==
    /\ r.op = "deploy" =>
          /\ h = "deploy" => list # Broken /\ t = list
          /\ h = "saveTokens" => list # Broken /\ Apart(t) /\ Grown(list, t)
          /\ h \notin {"loadTokens", "deploy"} => t # <<>> /\ KeyOf(t[Len(t)]) \notin WrapKeys
          /\ h \in {"mark", "reward"} => TaskOf[r.op] \in Task
    /\ r.op = "wrap" =>
          /\ h \in {"load", "keep", "wrap"} => list # Broken /\ t = list
          /\ h # "loadTokens" => Apart(t)
          /\ h \in {"customMore", "loadWraps", "saveTokens"} =>
                list # Broken /\ Grown(list, t) /\ GrownBy(list, t, WrapKey(r), r.n)
          /\ h = "saveTokens" => Recorded(list, w)
          /\ h = "saveWraps" => Recorded(list, [w EXCEPT ![<<r.token, r.target>>] = @ + r.n])
          /\ h \in {"saveWraps", "spend", "obtain"} =>
                list \in TokenFile /\ Covers(list, WrapKey(r), v.bal[WrapKey(r)] + r.n)

WhereInv == \A c \in Client : todo[c] # <<>> =>
                Where(issued, Head(todo[c]), ask[c], tcopy[c], wcopy[c], view[c])

HeldInv ==
    issued # Broken =>
        Apart(issued) /\ CopiesHeld(issued) /\ (wraps # Broken => Recorded(issued, wraps))

PlatInv == TypesInv /\ PlanInv /\ WhereInv /\ HeldInv

LEMMA WhereGo ==
    ASSUME PlatformAssumption, TypesInv, PlanInv, NEW c \in Client, \A d \in Client : d = c, todo[c] # <<>>,
           NEW n \in Nat, n >= 1, NEW rest, rest \in {<<>>, SubSeq(todo[c], n + 1, Len(todo[c]))},
           NEW p, NEW owner, Go(c, rest, p, owner),
           rest # <<>> => Where(issued', Head(rest), ask[c], tcopy'[c], wcopy'[c], p)
    PROVE  WhereInv'
<1>1. todo'[c] = rest /\ (rest # <<>> => ask'[c] = ask[c])
  BY PlanGo
<1>2. rest # <<>> => view'[c] = p
  BY DEF Go, TypesInv, Copies
<1>3. ASSUME NEW d \in Client, todo'[d] # <<>>
      PROVE  Where(issued', Head(todo'[d]), ask'[d], tcopy'[d], wcopy'[d], view'[d])
  <2>1. d = c
    OBVIOUS
  <2> QED
    BY <1>1, <1>2, <1>3, <2>1
<1> QED
  BY <1>3 DEF WhereInv

\* A request that goes on from a step that changes neither the files of the
\* platform nor its copies of them.
Plain == {"load", "keep", "customMore", "spend", "obtain", "save", "customOnce", "issue", "mustSave", "isOpen", "mark",
          "reward", "list"}
LEMMA WhereStays ==
    ASSUME PlatformAssumption, NEW r \in PlatformRequests, NEW h \in Plain, NEW k, <<h, k>> \in Order(r.op),
           NEW list, NEW t, NEW w, NEW v \in PortfolioRecord, Where(list, h, r, t, w, v),
           NEW p \in PortfolioRecord,
           h = "isOpen" => TaskOf[r.op] \in Task,
           h = "spend" => \A key \in WrapKeys : p.bal[key] <= v.bal[key]
    PROVE  Where(list, k, r, t, w, p)
<1>1. CASE r.op = "deploy"
  <2>1. k \notin {"loadTokens", "deploy", "saveTokens"}
    BY <1>1 DEF Order, Plain
  <2>2. k = "mark" => h = "isOpen"
    BY <1>1 DEF Order, Plain
  <2>3. k = "reward" => h = "mark"
    BY <1>1 DEF Order, Plain
  <2>4. h \notin {"loadTokens", "deploy"}
    BY DEF Plain
  <2> QED
    BY <1>1, <2>1, <2>2, <2>3, <2>4 DEF Where
<1>2. CASE r.op = "wrap"
  <2>1. /\ k \notin {"loadTokens", "load", "customMore", "saveTokens", "saveWraps", "spend"}
        /\ k = "keep" => h = "load"
        /\ k = "wrap" => h = "keep"
        /\ k = "loadWraps" => h = "customMore"
        /\ k = "obtain" => h = "spend"
    BY <1>2 DEF Order, Plain
  <2>2. h # "loadTokens"
    BY DEF Plain
  <2>3. h = "spend" => Covers(list, WrapKey(r), p.bal[WrapKey(r)] + r.n)
    <3> HAVE h = "spend"
    <3>1. r \in WrapRequests
      BY <1>2 DEF WrapRequests
    <3>2. WrapKey(r) \in WrapKeys /\ WrapKey(r) \in Key /\ r.n \in Nat
      BY <3>1, WrapIs DEF Key
    <3>3. PICK x, y : x = p.bal[WrapKey(r)] /\ y = v.bal[WrapKey(r)]
      OBVIOUS
    <3>4. x \in Nat /\ y \in Nat /\ x <= y
      BY <3>2, <3>3, RecordIs
    <3>5. Covers(list, WrapKey(r), y + r.n)
      BY <1>2, <3>3 DEF Where
    <3>6. PICK a \in Nat, b \in Nat : a = x + r.n /\ b = y + r.n /\ a <= b
      BY <3>2, <3>4
    <3>7. list \in TokenFile
      BY <1>2 DEF Where
    <3>8. Covers(list, WrapKey(r), a)
      BY <3>5, <3>6, <3>7, CoversLess
    <3> QED
      BY <3>3, <3>6, <3>8
  <2> QED
    BY <1>2, <2>1, <2>2, <2>3 DEF Where
<1>3. r.op \in {"deploy", "wrap", "list"}
  BY DEF PlatformAssumption, PlatformRequest
<1> QED
  BY <1>1, <1>2, <1>3 DEF Where

\* HeldInv after a step that leaves the files of the platform.
LEMMA HeldAfter ==
    ASSUME HeldInv, UNCHANGED <<issued, wraps>>, NEW list, list = issued, list # Broken => CopiesHeld(list)'
    PROVE  HeldInv'
BY DEF HeldInv, CopiesHeld

LEMMA Onward ==
    ASSUME PlatformAssumption, PlatInv, NEW c \in Client, \A d \in Client : d = c, NEW h \in Plain, At(c, h),
           NEW rest, rest \in {<<>>, Tail(todo[c])}, NEW p \in PortfolioRecord, NEW owner, Go(c, rest, p, owner),
           UNCHANGED <<issued, wraps, tcopy, wcopy>>,
           rest # <<>> /\ h = "isOpen" => TaskOf[ask[c].op] \in Task,
           rest # <<>> /\ h = "spend" => \A k \in WrapKeys : p.bal[k] <= view[c].bal[k]
    PROVE  PlanInv' /\ WhereInv'
<1>1. todo[c] # <<>> /\ Head(todo[c]) = h
  BY DEF At
<1>2. /\ ask[c] \in PlatformRequests /\ Head(todo[c]) = todo[c][1]
      /\ Tail(todo[c]) = SubSeq(todo[c], 2, Len(todo[c]))
  BY <1>1, PlanAt DEF PlatInv
<1> DEFINE n == 1
<1>6. n \in Nat /\ n >= 1 /\ n + 1 = 2 /\ n \in 1..n
  OBVIOUS
<1> HIDE DEF n
<1>7. rest \in {<<>>, SubSeq(todo[c], n + 1, Len(todo[c]))}
  BY <1>2, <1>6
<1>3. /\ PlanInv' /\ todo'[c] = rest
      /\ rest # <<>> => Head(rest) = todo[c][n + 1] /\ <<todo[c][n], todo[c][n + 1]>> \in Order(ask[c].op)
  <2>1. PlanInv' /\ todo'[c] = rest
    BY <1>1, <1>6, <1>7, PlanGo DEF PlatInv
  <2>2. rest # <<>> => Head(rest) = todo[c][n + 1]
    BY <1>1, <1>6, <1>7, PlanGo DEF PlatInv
  <2>3. rest # <<>> => Passes(todo[c], n, ask[c].op)
    BY <1>1, <1>6, <1>7, PlanGo DEF PlatInv
  <2> QED
    BY <1>6, <2>1, <2>2, <2>3 DEF Passes
<1>4. rest # <<>> => Where(issued', Head(rest), ask[c], tcopy'[c], wcopy'[c], p)
  <2> HAVE rest # <<>>
  <2>1. PICK k : k = Head(rest)
    OBVIOUS
  <2>2. <<h, k>> \in Order(ask[c].op)
    BY <1>1, <1>2, <1>3, <2>1 DEF n
  <2>3. Where(issued, h, ask[c], tcopy[c], wcopy[c], view[c])
    BY <1>1 DEF PlatInv, WhereInv
  <2>4. view[c] \in PortfolioRecord
    BY DEF PlatInv, TypesInv, Copies
  <2>5. Where(issued, k, ask[c], tcopy[c], wcopy[c], p)
    BY <1>2, <2>2, <2>3, <2>4, WhereStays
  <2> QED
    BY <2>1, <2>5
<1>5. WhereInv'
  BY <1>1, <1>4, <1>6, <1>7, WhereGo DEF PlatInv
<1> QED
  BY <1>3, <1>5

\* A step that works on the copy of the portfolio.
LEMMA DoesOnward ==
    ASSUME PlatformAssumption, WrappedApart, PlatInv, NEW c \in Client, \A d \in Client : d = c,
           NEW h \in Plain, NEW ok, NEW p \in PortfolioRecord, Does(c, h, ok, p), UNCHANGED platformVars,
           NEW list, list = issued, ok /\ list # Broken => Covered(list, p),
           ok /\ h = "isOpen" => TaskOf[ask[c].op] \in Task,
           ok /\ h = "spend" => \A k \in WrapKeys : p.bal[k] <= view[c].bal[k]
    PROVE  PlatInv'
<1>1. At(c, h) /\ UNCHANGED <<issued, wraps, custom, listed, tcopy, wcopy>>
  BY DEF Does, platformVars
<1>2. view[c] \in PortfolioRecord
  BY DEF PlatInv, TypesInv, Copies
<1>3. PlanInv' /\ WhereInv'
  <2>1. CASE ok
    <3>1. Go(c, Tail(todo[c]), p, alias)
      BY <2>1 DEF Does, Change
    <3> QED
      BY <1>1, <2>1, <3>1, Onward
  <2>2. CASE ~ok
    <3>1. Go(c, <<>>, view[c], alias)
      BY <2>2 DEF Does, Change, Refuse
    <3> QED
      BY <1>1, <1>2, <3>1, Onward
  <2> QED
    BY <2>1, <2>2
<1>4. TypesInv'
  <2>1. Copies'
    BY CopiesDoes DEF PlatInv, TypesInv
  <2> QED
    BY <1>1, <2>1 DEF PlatInv, TypesInv
<1>5. HeldInv'
  <2>1. list # Broken => CopiesHeld(list)'
    BY HeldDoes DEF PlatInv, TypesInv, HeldInv
  <2> QED
    BY <1>1, <2>1, HeldAfter DEF PlatInv
<1> QED
  BY <1>3, <1>4, <1>5 DEF PlatInv

LEMMA CoveredSame ==
    ASSUME NEW list, NEW p, Covered(list, p), NEW q, \A k \in WrapKeys : q.bal[k] = p.bal[k]
    PROVE  Covered(list, q)
BY DEF Covered

LEMMA LoadOnward ==
    ASSUME PlatformAssumption, WrappedApart, PlatInv, NEW c \in Client, \A d \in Client : d = c,
           Load(c), UNCHANGED platformVars
    PROVE  PlatInv'
<1>1. PICK list : list = issued
  OBVIOUS
<1>2. At(c, "load") /\ UNCHANGED <<issued, wraps, custom, listed, tcopy, wcopy>>
  BY DEF Load, platformVars
<1>3. Copies' /\ (list # Broken => CopiesHeld(list)')
  BY <1>1, CopiesLoad, HeldLoad DEF PlatInv, TypesInv, HeldInv
<1>4. PICK rest, q, owner : /\ rest \in {<<>>, Tail(todo[c])} /\ q \in PortfolioRecord
                            /\ Go(c, rest, q, owner)
  <2>1. view[c] \in PortfolioRecord
    BY DEF PlatInv, TypesInv, Copies
  <2>2. PICK p : /\ p \in IF cached # NoFile THEN {cached}
                           ELSE {IF file = NoFile THEN DefaultPortfolio ELSE file}
                                \cup IF DiskFaults THEN {DefaultPortfolio} ELSE {}
                 /\ IF p = Broken THEN Refuse(c)
                    ELSE /\ cached' = p
                         /\ \E q \in Synced(p) :
                               Go(c, Tail(todo[c]), q, IF alias = c THEN Nobody ELSE alias)
                         /\ UNCHANGED file
    BY DEF Load
  <2>3. CASE p = Broken
    BY <2>1, <2>2, <2>3 DEF Refuse, Change
  <2>4. CASE p # Broken
    <3>1. p \in PortfolioRecord
      BY <2>2, <2>4, DefaultTyped DEF PlatInv, TypesInv, Copies
    <3>2. PICK q \in Synced(p) : Go(c, Tail(todo[c]), q, IF alias = c THEN Nobody ELSE alias)
      BY <2>2, <2>4
    <3>3. q \in PortfolioRecord
      BY <3>1, SyncedTyped
    <3> QED
      BY <3>2, <3>3
  <2> QED
    BY <2>3, <2>4
<1>5. "load" \in Plain
  BY DEF Plain
<1>6. PlanInv' /\ WhereInv'
  BY <1>2, <1>4, <1>5, Onward
<1>7. TypesInv'
  BY <1>2, <1>3 DEF PlatInv, TypesInv
<1>8. HeldInv'
  BY <1>1, <1>2, <1>3, HeldAfter DEF PlatInv
<1> QED
  BY <1>6, <1>7, <1>8 DEF PlatInv

LEMMA SaveOnward ==
    ASSUME PlatformAssumption, WrappedApart, PlatInv, NEW c \in Client, \A d \in Client : d = c,
           Save(c), UNCHANGED platformVars
    PROVE  PlatInv'
<1>1. PICK list : list = issued
  OBVIOUS
<1>2. UNCHANGED <<issued, wraps, custom, listed, tcopy, wcopy>>
  BY DEF platformVars
<1>3. Copies' /\ (list # Broken => CopiesHeld(list)')
  BY <1>1, CopiesSave, HeldSave DEF PlatInv, TypesInv, HeldInv
<1>4. PICK h \in Plain : At(c, h) /\ h \in {"keep", "save", "mustSave"}
  BY DEF Save, Plain
<1>5. view[c] \in PortfolioRecord /\ (Go(c, Tail(todo[c]), view[c], c) \/ Go(c, <<>>, view[c], c))
  BY DEF Save, PlatInv, TypesInv, Copies
<1>6. PlanInv' /\ WhereInv'
  BY <1>2, <1>4, <1>5, Onward
<1>7. TypesInv'
  BY <1>2, <1>3 DEF PlatInv, TypesInv
<1>8. HeldInv'
  BY <1>1, <1>2, <1>3, HeldAfter DEF PlatInv
<1> QED
  BY <1>6, <1>7, <1>8 DEF PlatInv

LEMMA BookedOnward ==
    ASSUME PlatformAssumption, WrappedApart, PlatInv, NEW c \in Client, \A d \in Client : d = c,
           Booked(c), UNCHANGED platformVars
    PROVE  PlatInv'
<1>1. PICK list, r, v, t : list = issued /\ r = ask[c] /\ v = view[c] /\ t = tcopy[c]
  OBVIOUS
<1>2. v \in PortfolioRecord /\ t \in TokenFile /\ list \in TokenFile \cup {Broken}
  BY <1>1 DEF PlatInv, TypesInv, Copies
<1>3. list # Broken => Covered(list, v)
  BY <1>1 DEF PlatInv, HeldInv, CopiesHeld
<1>4. todo[c] # <<>> /\ PlanInv
  BY DEF Booked, Pays, Gets, Does, At, PlatInv
<1>5. r.n \in Nat /\ r \in PlatformRequests /\ r.token \in Token
  BY <1>1, <1>4, PlanAt
<1>6. Where(list, Head(todo[c]), r, t, wcopy[c], v)
  BY <1>1, <1>4 DEF PlatInv, WhereInv
<1>7. \A k \in Key : v.bal[k] \in Nat
  BY <1>2, RecordIs
<1>8. "issue" \in Plain /\ "spend" \in Plain /\ "obtain" \in Plain
  BY DEF Plain
<1>9. CASE Gets(c, "issue", Made(c), r.n)
  <2>1. PICK k, p : k = Made(c) /\ p = [v EXCEPT !.bal[k] = v.bal[k] + r.n]
    OBVIOUS
  <2>2. Does(c, "issue", TRUE, p)
    BY <1>1, <1>9, <2>1 DEF Gets
  <2>3. p \in PortfolioRecord
    <3>1. k \in Key => v.bal[k] + r.n \in Nat
      BY <1>5, <1>7
    <3> QED
      BY <1>2, <2>1, <3>1, BalanceTyped
  <2>4. r.op = "deploy" /\ Head(todo[c]) = "issue"
    <3>1. Head(todo[c]) = "issue"
      BY <2>2 DEF Does, At
    <3> QED
      BY <1>1, <1>4, <3>1, PlanAt
  <2>5. k \notin WrapKeys
    BY <1>1, <1>6, <2>1, <2>4 DEF Where, Made
  <2>6. list # Broken => Covered(list, p)
    BY <1>2, <1>3, <2>1, <2>5, BookCovered
  <2> QED
    BY <1>1, <1>8, <2>2, <2>3, <2>6, DoesOnward
<1>10. CASE Pays(c, "spend", r.token, r.n)
  <2>4. PICK k \in Key : k = r.token
    BY <1>5 DEF Key
  <2>1. PICK b \in Nat : b = v.bal[k]
    BY <1>7
  <2>2. CASE b >= r.n
    <3>1. PICK m \in Nat : m = b - r.n /\ m <= b
      BY <1>5, <2>2
    <3>2. PICK p : p = [v EXCEPT !.bal[k] = m]
      OBVIOUS
    <3>3. Does(c, "spend", TRUE, p)
      BY <1>1, <1>10, <2>1, <2>4, <2>2, <3>1, <3>2 DEF Pays
    <3>4. p \in PortfolioRecord
      BY <1>2, <3>2, BalanceTyped
    <3>5. list # Broken => Covered(list, p)
      <4> HAVE list # Broken
      <4>1. k \in WrapKeys => Covers(list, k, b)
        BY <1>3, <2>1 DEF Covered
      <4>2. k \in WrapKeys => Covers(list, k, m)
        BY <1>2, <3>1, <4>1, CoversLess
      <4> QED
        BY <1>2, <1>3, <3>2, <4>2, BookCovered
    <3>6. \A key \in WrapKeys : p.bal[key] <= v.bal[key]
      <4>1. p.bal = [v.bal EXCEPT ![k] = m] /\ v.bal \in [Key -> Nat]
        BY <1>2, <3>2, BalanceIs, RecordIs
      <4> TAKE key \in WrapKeys
      <4>2. key \in Key
        BY WrapKeysAre DEF Key
      <4>3. CASE key = k
        BY <2>1, <3>1, <4>1, <4>2, <4>3
      <4>4. CASE key # k
        <5>1. p.bal[key] = v.bal[key] /\ v.bal[key] \in Nat
          BY <4>1, <4>2, <4>4
        <5> QED
          BY <5>1
      <4> QED
        BY <4>3, <4>4
    <3> QED
      BY <1>1, <1>8, <3>3, <3>4, <3>5, <3>6, DoesOnward
  <2>3. CASE ~(b >= r.n)
    <3>1. Does(c, "spend", FALSE, v)
      BY <1>1, <1>10, <2>1, <2>4, <2>3 DEF Pays, Does
    <3> QED
      BY <1>1, <1>2, <1>8, <3>1, DoesOnward
  <2> QED
    BY <2>2, <2>3
<1>11. CASE Gets(c, "obtain", WrappedKey(t, r), r.n)
  <2>1. r.op = "wrap" /\ Head(todo[c]) = "obtain" /\ r \in WrapRequests
    <3>1. Head(todo[c]) = "obtain"
      BY <1>11 DEF Gets, Does, At
    <3> QED
      BY <1>1, <1>4, <3>1, PlanAt
  <2>2. Apart(t) /\ Covers(list, WrapKey(r), v.bal[WrapKey(r)] + r.n)
    BY <1>6, <2>1 DEF Where
  <2>3. WrappedKey(t, r) = WrapKey(r)
    BY <1>2, <2>1, <2>2, WrappedKeyIs
  <2>4. PICK k, p : k = WrapKey(r) /\ p = [v EXCEPT !.bal[k] = v.bal[k] + r.n]
    OBVIOUS
  <2>5. Does(c, "obtain", TRUE, p)
    BY <1>1, <1>11, <2>3, <2>4 DEF Gets
  <2>6. p \in PortfolioRecord
    <3>1. k \in Key => v.bal[k] + r.n \in Nat
      BY <1>5, <1>7
    <3> QED
      BY <1>2, <2>4, <3>1, BalanceTyped
  <2>7. list # Broken => Covered(list, p)
    BY <1>2, <1>3, <2>2, <2>4, BookCovered
  <2> QED
    BY <1>1, <1>8, <2>5, <2>6, <2>7, DoesOnward
<1> QED
  BY <1>1, <1>9, <1>10, <1>11 DEF Booked

LEMMA TaskOnward ==
    ASSUME PlatformAssumption, WrappedApart, PlatInv, NEW c \in Client, \A d \in Client : d = c,
           TaskStep(c), UNCHANGED platformVars
    PROVE  PlatInv'
<1>1. PICK list, p, t : list = issued /\ p = view[c] /\ t = TaskNow(ask[c])
  OBVIOUS
<1>2. p \in PortfolioRecord /\ (list # Broken => Covered(list, p))
  BY <1>1 DEF PlatInv, TypesInv, Copies, HeldInv, CopiesHeld
<1>3. \/ At(c, "isOpen") /\ Skip(c, IF t \in p.open THEN 1 ELSE 4)
      \/ Does(c, "mark", TRUE, [p EXCEPT !.open = @ \ {t}])
      \/ Does(c, "reward", TRUE, [p EXCEPT !.bal[RewardOf[t].key] = @ + RewardOf[t].n, !.earned[t] = @ + 1])
  BY <1>1 DEF TaskStep, TaskNow
<1>4. todo[c] # <<>> /\ Head(todo[c]) \in {"isOpen", "mark", "reward"} /\ PlanInv
  BY <1>3 DEF Does, At, PlatInv
<1>5. ask[c].op = "deploy" /\ t = TaskOf[ask[c].op]
  BY <1>1, <1>4, PlanAt DEF TaskNow
<1>6. p.open \subseteq Task
  BY <1>2, RecordIs
<1>7. "isOpen" \in Plain /\ "mark" \in Plain /\ "reward" \in Plain
  BY DEF Plain
<1>8. CASE At(c, "isOpen") /\ Skip(c, IF t \in p.open THEN 1 ELSE 4)
  <2>1. PICK n : n = IF t \in p.open THEN 1 ELSE 4
    OBVIOUS
  <2>2. PICK rest : rest = SubSeq(todo[c], n + 1, Len(todo[c]))
    OBVIOUS
  <2>3. Go(c, rest, p, alias)
    BY <1>1, <1>8, <2>1, <2>2 DEF Skip, Change
  <2>4. rest \in {<<>>, Tail(todo[c])} /\ (rest # <<>> => t \in Task)
    <3>1. CASE n = 1
      <4>1. rest = SubSeq(todo[c], 2, Len(todo[c]))
        BY <2>2, <3>1
      <4>2. rest = Tail(todo[c])
        BY <1>4, <4>1, PlanAt
      <4>3. t \in p.open
        BY <2>1, <3>1
      <4> QED
        BY <1>6, <4>2, <4>3
    <3>2. CASE n = 4
      <4>1. n \in Nat /\ n >= 1
        BY <3>2
      <4>2. ASSUME rest # <<>>
            PROVE  Passes(todo[c], n, ask[c].op)
        BY <1>4, <2>2, <2>3, <4>1, <4>2, PlanGo
      <4>3. PICK x : x = todo[c]
        OBVIOUS
      <4>4. ASSUME rest # <<>>
            PROVE  /\ <<x[1], x[2]>> \in Order("deploy") /\ <<x[2], x[3]>> \in Order("deploy")
                   /\ <<x[3], x[4]>> \in Order("deploy") /\ <<x[4], x[5]>> \in Order("deploy")
        <5>1. \A i \in 1..4 : <<x[i], x[i + 1]>> \in Order("deploy")
          BY <1>5, <3>2, <4>2, <4>3, <4>4 DEF Passes
        <5> QED
          BY <5>1
      <4>5. x[1] = "isOpen"
        BY <1>4, <1>8, <4>3, PlanAt DEF At
      <4>6. ASSUME rest # <<>>
            PROVE  FALSE
        <5>1. x[2] = "mark"
          BY <4>4, <4>5, <4>6 DEF Order
        <5>2. x[3] = "reward"
          BY <4>4, <4>6, <5>1 DEF Order
        <5>3. x[4] = "save"
          BY <4>4, <4>6, <5>2 DEF Order
        <5> QED
          BY <4>4, <4>6, <5>3 DEF Order
      <4> QED
        BY <4>6
    <3> QED
      BY <2>1, <3>1, <3>2
  <2>5. UNCHANGED <<issued, wraps, custom, listed, tcopy, wcopy>>
    BY DEF platformVars
  <2>6. PlanInv' /\ WhereInv'
    BY <1>2, <1>5, <1>7, <1>8, <2>3, <2>4, <2>5, Onward
  <2>7. Copies' /\ (list # Broken => CopiesHeld(list)')
    BY <1>1, <1>8, CopiesSkip, HeldSkip DEF PlatInv, TypesInv, HeldInv
  <2>8. TypesInv'
    BY <2>5, <2>7 DEF PlatInv, TypesInv
  <2>9. HeldInv'
    BY <1>1, <2>5, <2>7, HeldAfter DEF PlatInv
  <2> QED
    BY <2>6, <2>8, <2>9 DEF PlatInv
<1>9. CASE Does(c, "mark", TRUE, [p EXCEPT !.open = @ \ {t}])
  <2>1. PICK q : q = [p EXCEPT !.open = @ \ {t}]
    OBVIOUS
  <2>2. q \in PortfolioRecord /\ q.bal = p.bal
    <3>1. q \in PortfolioRecord
      BY <1>2, <2>1, MarkTyped
    <3>2. p = [bal |-> p.bal, open |-> p.open, earned |-> p.earned, loans |-> p.loans, stakes |-> p.stakes]
      BY <1>2, RecordIs
    <3> QED
      BY <2>1, <3>1, <3>2
  <2>3. list # Broken => Covered(list, q)
    BY <1>2, <2>2, CoveredSame
  <2> QED
    BY <1>1, <1>7, <1>9, <2>1, <2>2, <2>3, DoesOnward
<1>10. CASE Does(c, "reward", TRUE,
                 [p EXCEPT !.bal[RewardOf[t].key] = @ + RewardOf[t].n, !.earned[t] = @ + 1])
  <2>1. t \in Task
    <3>1. Head(todo[c]) = "reward"
      BY <1>10 DEF Does, At
    <3> QED
      BY <1>4, <1>5, <3>1 DEF PlatInv, WhereInv, Where
  <2>2. PICK k, m, q : /\ k = RewardOf[t].key /\ m = p.bal[k] + RewardOf[t].n
                       /\ q = [p EXCEPT !.bal[k] = m, !.earned[t] = @ + 1]
    OBVIOUS
  <2>3. q = [p EXCEPT !.bal[RewardOf[t].key] = @ + RewardOf[t].n, !.earned[t] = @ + 1]
    BY <2>2
  <2>4. q \in PortfolioRecord
    BY <1>2, <2>1, <2>3, RewardTyped
  <2>5. k \notin WrapKeys
    BY <2>1, <2>2 DEF WrappedApart
  <2>6. q.bal = [p.bal EXCEPT ![k] = m] /\ p.bal \in [Key -> Nat]
    BY <1>2, <2>2, RecordIs
  <2>7. \A key \in WrapKeys : q.bal[key] = p.bal[key]
    BY <2>5, <2>6, WrapKeysAre DEF Key
  <2>8. list # Broken => Covered(list, q)
    BY <1>2, <2>7, CoveredSame
  <2> QED
    BY <1>1, <1>7, <1>10, <2>3, <2>4, <2>8, DoesOnward
<1> QED
  BY <1>3, <1>8, <1>9, <1>10

\* A step that changes the custom tokens or the registry, and nothing else.
LEMMA KeysOnward ==
    ASSUME PlatformAssumption, WrappedApart, PlatInv, NEW c \in Client, \A d \in Client : d = c,
           NEW h \in Plain, At(c, h), h # "isOpen", h # "spend", Skip(c, 1) \/ Refuse(c),
           UNCHANGED <<issued, wraps, tcopy, wcopy>>,
           custom' \in (SUBSET Token) \cup {Broken}, listed' \subseteq Token
    PROVE  PlatInv'
<1>1. PICK list : list = issued
  OBVIOUS
<1>2. view[c] \in PortfolioRecord /\ todo[c] # <<>> /\ PlanInv
  BY DEF PlatInv, TypesInv, Copies, At
<1>3. Tail(todo[c]) = SubSeq(todo[c], 1 + 1, Len(todo[c]))
  BY <1>2, PlanAt
<1>4. Go(c, Tail(todo[c]), view[c], alias) \/ Go(c, <<>>, view[c], alias)
  BY <1>3 DEF Skip, Refuse, Change
<1>5. PlanInv' /\ WhereInv'
  BY <1>2, <1>4, Onward
<1>6. Copies' /\ (list # Broken => CopiesHeld(list)')
  BY <1>1, CopiesSkip, HeldSkip DEF PlatInv, TypesInv, HeldInv
<1>7. TypesInv'
  BY <1>6 DEF PlatInv, TypesInv
<1>8. HeldInv'
  BY <1>1, <1>6, HeldAfter DEF PlatInv
<1> QED
  BY <1>5, <1>7, <1>8 DEF PlatInv

LEMMA MergedIs ==
    ASSUME listed \subseteq Token, NEW f \in (SUBSET Token) \cup {Broken}
    PROVE  Merged(f) \subseteq Token /\ CustomTokens(f) \subseteq Token
<1>1. CustomTokens(f) \subseteq Token
  <2>1. CASE f = Broken
    BY <2>1 DEF CustomTokens
  <2>2. CASE f # Broken
    <3>1. CustomTokens(f) = f
      BY <2>2 DEF CustomTokens
    <3>2. f \in SUBSET Token
      BY <2>2
    <3> QED
      BY <3>1, <3>2
  <2> QED
    BY <2>1, <2>2
<1> QED
  BY <1>1 DEF Merged

LEMMA ListOnward ==
    ASSUME PlatformAssumption, WrappedApart, PlatInv, NEW c \in Client, \A d \in Client : d = c, List(c)
    PROVE  PlatInv'
<1>1. "list" \in Plain
  BY DEF Plain
<1>2. At(c, "list") /\ listed' = Merged(custom) /\ Skip(c, 1) /\ UNCHANGED <<issued, wraps, custom, tcopy, wcopy>>
  BY DEF List
<1>3. listed' \subseteq Token /\ custom' \in (SUBSET Token) \cup {Broken}
  BY <1>2, MergedIs DEF PlatInv, TypesInv
<1> QED
  BY <1>1, <1>2, <1>3, KeysOnward

LEMMA CustomOnward ==
    ASSUME PlatformAssumption, WrappedApart, PlatInv, NEW c \in Client, \A d \in Client : d = c, AddCustom(c)
    PROVE  PlatInv'
<1>1. PICK k : k = IF At(c, "customOnce") THEN Made(c) ELSE WrappedKey(tcopy[c], ask[c])
  OBVIOUS
<1>2. /\ At(c, "customOnce") \/ At(c, "customMore")
      /\ custom' \in {custom, CustomTokens(custom) \cup {k}, Broken}
      /\ UNCHANGED <<issued, wraps, tcopy, wcopy>>
      /\ \/ Refuse(c) /\ UNCHANGED listed
         \/ Skip(c, 1) /\ listed' \in {listed, Merged(custom')}
  BY <1>1 DEF AddCustom, Written
<1>3. PICK h \in {"customOnce", "customMore"} : At(c, h) /\ todo[c] # <<>> /\ Head(todo[c]) = h /\ PlanInv
  BY <1>2 DEF At, PlatInv
<1>4. k \in Token
  <2>1. PICK t, r : t = tcopy[c] /\ r = ask[c]
    OBVIOUS
  <2>2. t \in TokenFile
    BY <2>1 DEF PlatInv, TypesInv
  <2>3. Where(issued, h, r, t, wcopy[c], view[c])
    BY <1>3, <2>1 DEF PlatInv, WhereInv
  <2>4. CASE h = "customOnce"
    <3>1. t # <<>>
      BY <1>3, <2>1, <2>3, <2>4, PlanAt DEF Where
    <3>2. PICK i : i = Len(t)
      OBVIOUS
    <3>3. i \in DOMAIN t
      BY <2>2, <3>1, <3>2 DEF TokenFile
    <3>4. KeyOf(t[i]) \in Token
      BY <2>2, <3>3, EntryIs DEF KeyOf, PlatformAssumption
    <3> QED
      BY <1>1, <1>3, <2>1, <2>4, <3>2, <3>4 DEF Made
  <2>5. CASE h = "customMore"
    <3>1. r \in WrapRequests
      BY <1>3, <2>1, <2>5, PlanAt
    <3>2. Apart(t)
      BY <2>3, <2>5, <3>1 DEF Where, WrapRequests
    <3>3. WrappedKey(t, r) = WrapKey(r) /\ WrapKey(r) \in Token
      BY <2>2, <3>1, <3>2, WrappedKeyIs, WrapIs
    <3> QED
      BY <1>1, <1>3, <2>1, <2>5, <3>3 DEF At
  <2> QED
    BY <2>4, <2>5
<1>5. custom \in (SUBSET Token) \cup {Broken} /\ listed \subseteq Token
  BY DEF PlatInv, TypesInv
<1>6. custom' \in (SUBSET Token) \cup {Broken}
  <2>1. PICK more : more = CustomTokens(custom) \cup {k}
    OBVIOUS
  <2>2. more \in SUBSET Token
    BY <1>4, <1>5, <2>1, MergedIs
  <2>3. custom' \in {custom, more, Broken}
    BY <1>2, <2>1
  <2> QED
    BY <1>5, <2>2, <2>3
<1>7. listed' \subseteq Token
  <2>1. PICK f \in (SUBSET Token) \cup {Broken} : f = custom'
    BY <1>6
  <2>2. listed' \in {listed, Merged(f)}
    BY <1>2, <2>1 DEF Merged, CustomTokens
  <2> QED
    BY <1>5, <2>2, MergedIs
<1>8. h \in Plain /\ h # "isOpen" /\ h # "spend"
  BY DEF Plain
<1> QED
  BY <1>2, <1>3, <1>6, <1>7, <1>8, KeysOnward

\* A step that changes only what the request knows of the files.
LEMMA FilesOnward ==
    ASSUME PlatformAssumption, WrappedApart, PlatInv, NEW c \in Client, \A d \in Client : d = c, todo[c] # <<>>,
           NEW n \in Nat, n >= 1, NEW ok, NEW t, NEW w, Files(c, n, ok, t, w),
           ok => t \in TokenFile /\ w \in WrapFile,
           ok /\ Passes(todo[c], n, ask[c].op)
              => Where(issued, todo[c][n + 1], ask[c], t, w, view[c])
    PROVE  PlatInv'
<1>1. PICK list, p : list = issued /\ p = view[c]
  OBVIOUS
<1>2. UNCHANGED <<issued, wraps, custom, listed>> /\ PlanInv /\ TypesInv
  BY DEF Files, PlatInv
<1>3. PICK rest : rest = IF ok THEN SubSeq(todo[c], n + 1, Len(todo[c])) ELSE <<>>
  OBVIOUS
<1>4. rest \in {<<>>, SubSeq(todo[c], n + 1, Len(todo[c]))}
  BY <1>3
<1>5. Go(c, rest, p, alias)
  BY <1>1, <1>3 DEF Files, Skip, Refuse, Change
<1>6. PlanInv'
  BY <1>2, <1>4, <1>5, PlanGo
<1>7. ok => tcopy' = [tcopy EXCEPT ![c] = t] /\ wcopy' = [wcopy EXCEPT ![c] = w]
  BY DEF Files
<1>8. ~ok => UNCHANGED <<tcopy, wcopy>>
  BY DEF Files
<1>9. ASSUME rest # <<>>
      PROVE  Where(issued', Head(rest), ask[c], tcopy'[c], wcopy'[c], p)
  <2>1. ok
    BY <1>3, <1>9
  <2>2. Head(rest) = todo[c][n + 1]
    BY <1>2, <1>4, <1>5, <1>9, PlanGo
  <2>3. Passes(todo[c], n, ask[c].op)
    <3>1. rest # <<>> => Passes(todo[c], n, ask[c].op)
      BY <1>2, <1>4, <1>5, PlanGo
    <3> QED
      BY <1>9, <3>1
  <2>4. Where(issued, todo[c][n + 1], ask[c], t, w, view[c])
    BY <2>1, <2>3
  <2>5. tcopy'[c] = t /\ wcopy'[c] = w
    BY <1>2, <1>7, <2>1 DEF TypesInv
  <2> QED
    BY <1>1, <1>2, <2>2, <2>4, <2>5
<1>10. WhereInv'
  BY <1>2, <1>4, <1>5, <1>9, WhereGo
<1>11. Copies' /\ (list # Broken => CopiesHeld(list)')
  BY <1>1, CopiesSkip, HeldSkip DEF Files, PlatInv, TypesInv, HeldInv
<1>12. TypesInv'
  <2>1. tcopy' \in [Client -> TokenFile] /\ wcopy' \in [Client -> WrapFile]
    BY <1>2, <1>7, <1>8 DEF TypesInv
  <2> QED
    BY <1>2, <1>11, <2>1 DEF TypesInv
<1>13. HeldInv'
  BY <1>1, <1>2, <1>11, HeldAfter DEF PlatInv
<1> QED
  BY <1>6, <1>10, <1>12, <1>13 DEF PlatInv

LEMMA LoadTokensOnward ==
    ASSUME PlatformAssumption, WrappedApart, PlatInv, NEW c \in Client, \A d \in Client : d = c, LoadTokens(c)
    PROVE  PlatInv'
<1> DEFINE n == 1
<1>1. todo[c] # <<>> /\ Head(todo[c]) = "loadTokens" /\ Files(c, n, issued # Broken, issued, wcopy[c])
  BY DEF LoadTokens, At
<1>2. n \in Nat /\ n >= 1 /\ n \in 1..n /\ n = 1
  OBVIOUS
<1> HIDE DEF n
<1>3. issued # Broken => issued \in TokenFile /\ wcopy[c] \in WrapFile /\ Apart(issued)
  BY DEF PlatInv, TypesInv, HeldInv
<1>4. ASSUME issued # Broken, Passes(todo[c], n, ask[c].op)
      PROVE  Where(issued, todo[c][n + 1], ask[c], issued, wcopy[c], view[c])
  <2>1. PICK k, r : k = todo[c][n + 1] /\ r = ask[c]
    OBVIOUS
  <2>2. <<"loadTokens", k>> \in Order(r.op) /\ r.op \in {"deploy", "wrap", "list"}
    BY <1>1, <1>2, <1>4, <2>1, PlanAt DEF PlatInv, Passes
  <2>3. (r.op = "deploy" => k = "deploy") /\ (r.op = "wrap" => k = "load")
    BY <2>2 DEF Order
  <2> QED
    BY <1>3, <1>4, <2>1, <2>3 DEF Where
<1> QED
  BY <1>1, <1>2, <1>3, <1>4, FilesOnward

LEMMA LoadWrapsOnward ==
    ASSUME PlatformAssumption, WrappedApart, PlatInv, NEW c \in Client, \A d \in Client : d = c, LoadWraps(c)
    PROVE  PlatInv'
<1> DEFINE n == 1
<1>1. PICK w : w = IF wraps = Broken THEN NoWraps ELSE wraps
  OBVIOUS
<1>2. todo[c] # <<>> /\ Head(todo[c]) = "loadWraps" /\ Files(c, n, TRUE, tcopy[c], w)
  BY <1>1 DEF LoadWraps, At
<1>3. n \in Nat /\ n >= 1 /\ n \in 1..n /\ n = 1
  OBVIOUS
<1> HIDE DEF n
<1>4. w \in WrapFile /\ tcopy[c] \in TokenFile
  BY <1>1 DEF PlatInv, TypesInv, NoWraps, WrapFile
<1>5. issued # Broken => Recorded(issued, w)
  <2>1. CASE wraps = Broken
    <3>1. \A r \in WrapRequests : w[<<r.token, r.target>>] = 0
      BY <1>1, <2>1, WrapIs DEF NoWraps
    <3> QED
      BY <3>1 DEF Recorded, Covers
  <2>2. CASE wraps # Broken
    BY <1>1, <2>2 DEF PlatInv, HeldInv
  <2> QED
    BY <2>1, <2>2
<1>6. ASSUME Passes(todo[c], n, ask[c].op)
      PROVE  Where(issued, todo[c][n + 1], ask[c], tcopy[c], w, view[c])
  <2>1. PICK k, r : k = todo[c][n + 1] /\ r = ask[c]
    OBVIOUS
  <2>2. <<"loadWraps", k>> \in Order(r.op) /\ r.op = "wrap"
    BY <1>2, <1>3, <1>6, <2>1, PlanAt DEF PlatInv, Passes
  <2>3. k = "saveTokens"
    BY <2>2 DEF Order
  <2>4. Where(issued, "loadWraps", r, tcopy[c], wcopy[c], view[c])
    BY <1>2, <2>1 DEF PlatInv, WhereInv
  <2> QED
    BY <1>5, <2>1, <2>2, <2>3, <2>4 DEF Where
<1> QED
  BY <1>2, <1>3, <1>4, <1>6, FilesOnward

LEMMA DeployOnward ==
    ASSUME PlatformAssumption, WrappedApart, PlatInv, NEW c \in Client, \A d \in Client : d = c, DeployToken(c)
    PROVE  PlatInv'
<1> DEFINE n == 1
<1>1. PICK r, t, list : r = ask[c] /\ t = tcopy[c] /\ list = issued
  OBVIOUS
<1>2. n \in Nat /\ n >= 1 /\ n \in 1..n /\ n = 1
  OBVIOUS
<1>3. todo[c] # <<>> /\ Head(todo[c]) = "deploy" /\ PlanInv
  BY DEF DeployToken, At, PlatInv
<1>4. /\ r \in PlatformRequests \ WrapRequests /\ r.token \in Token /\ r.n \in Nat /\ r.op = "deploy"
      /\ r.token[1] \in PlatformChain /\ r.token[2] \in Id /\ r.token = <<r.token[1], r.token[2]>>
      /\ Head(todo[c]) = todo[c][1]
  BY <1>1, <1>3, PlanAt
<1>5. list # Broken /\ t = list /\ t \in TokenFile /\ Apart(t) /\ wcopy[c] \in WrapFile
  BY <1>1, <1>3, <1>4 DEF PlatInv, WhereInv, Where, HeldInv, TypesInv
<1>6. \/ \E id \in IF Taken(t, r.token[1], r.token[2]) THEN Suffixed ELSE {r.token[2]} :
             Files(c, n, r.n > 0,
                   Append(t, [chain |-> r.token[1], id |-> id, supply |-> r.n, origin |-> NoPool]), wcopy[c])
      \/ Files(c, n, FALSE, t, wcopy[c])
  BY <1>1 DEF DeployToken
<1> HIDE DEF n
<1>7. CASE Files(c, n, FALSE, t, wcopy[c])
  BY <1>2, <1>3, <1>7, FilesOnward
<1>8. ASSUME NEW id \in IF Taken(t, r.token[1], r.token[2]) THEN Suffixed ELSE {r.token[2]},
             Files(c, n, r.n > 0,
                   Append(t, [chain |-> r.token[1], id |-> id, supply |-> r.n, origin |-> NoPool]), wcopy[c])
      PROVE  PlatInv'
  <2>1. PICK e, more : /\ e = [chain |-> r.token[1], id |-> id, supply |-> r.n, origin |-> NoPool]
                       /\ more = Append(t, e)
    OBVIOUS
  <2>2. id \in Id /\ <<r.token[1], id>> \notin WrapKeys
    BY <1>4 DEF WrappedApart, PlatformAssumption
  <2>3. e \in PlatformToken /\ e.origin = NoPool /\ KeyOf(e) = <<r.token[1], id>>
    BY <1>4, <2>1, <2>2 DEF PlatformToken, KeyOf
  <2>4. /\ more \in TokenFile /\ Apart(more) /\ Grown(t, more)
        /\ more # <<>> /\ more[Len(more)] = e
    <3>1. KeyOf(e) \notin WrapKeys /\ more = Append(t, e)
      BY <2>1, <2>2, <2>3
    <3> QED
      BY <1>5, <2>3, <3>1, ListAppends
  <2>5. ASSUME Passes(todo[c], n, ask[c].op)
        PROVE  Where(issued, todo[c][n + 1], ask[c], more, wcopy[c], view[c])
    <3>1. PICK k : k = todo[c][n + 1]
      OBVIOUS
    <3>2. <<"deploy", k>> \in Order("deploy")
      BY <1>1, <1>2, <1>3, <1>4, <2>5, <3>1 DEF Passes
    <3>3. k = "saveTokens"
      BY <3>2 DEF Order
    <3> QED
      BY <1>1, <1>4, <1>5, <2>2, <2>3, <2>4, <3>1, <3>3 DEF Where
  <2>6. Files(c, n, r.n > 0, more, wcopy[c])
    BY <1>8, <2>1
  <2> QED
    BY <1>2, <1>3, <1>5, <2>4, <2>5, <2>6, FilesOnward
<1> QED
  BY <1>6, <1>7, <1>8

LEMMA WrapOnward ==
    ASSUME PlatformAssumption, WrappedApart, PlatInv, NEW c \in Client, \A d \in Client : d = c, WrapToken(c)
    PROVE  PlatInv'
<1>1. PICK r, t, list, new : /\ r = ask[c] /\ t = tcopy[c] /\ list = issued
                             /\ new = (PlaceOf(tcopy[c], r.token, r.target) = {})
  OBVIOUS
<1>2. todo[c] # <<>> /\ Head(todo[c]) = "wrap" /\ PlanInv
  BY DEF WrapToken, At, PlatInv
<1>3. r \in WrapRequests /\ r \in PlatformRequests /\ r.op = "wrap" /\ Head(todo[c]) = todo[c][1]
  BY <1>1, <1>2, PlanAt
<1>4. list # Broken /\ t = list /\ t \in TokenFile /\ Apart(t) /\ wcopy[c] \in WrapFile
  BY <1>1, <1>2, <1>3 DEF PlatInv, WhereInv, Where, TypesInv
<1>5. PICK more : more = WrappedMore(t, r)
  OBVIOUS
<1>6. more \in TokenFile /\ Apart(more) /\ Grown(list, more) /\ GrownBy(list, more, WrapKey(r), r.n)
  BY <1>3, <1>4, <1>5, WrapGrows
<1>7. PICK ok, n : Files(c, n, ok, more, wcopy[c]) /\ n \in {1, 2}
  <2>1. PICK known, ok : \E deployed \in BOOLEAN :
           Files(c, IF new THEN 1 ELSE 2, ok /\ deployed, more, wcopy[c])
    BY <1>1, <1>5 DEF WrapToken
  <2> QED
    BY <2>1
<1>8. ASSUME Passes(todo[c], n, ask[c].op)
      PROVE  Where(issued, todo[c][n + 1], ask[c], more, wcopy[c], view[c])
  <2>1. PICK x, k : x = todo[c] /\ k = todo[c][n + 1]
    OBVIOUS
  <2>2. k \in {"customMore", "loadWraps"}
    <3>1. x[1] = "wrap" /\ <<x[1], x[2]>> \in Order("wrap")
      <4>1. 1 \in 1..n /\ 1 + 1 = 2
        BY <1>7
      <4> QED
        BY <1>1, <1>2, <1>3, <1>8, <2>1, <4>1 DEF Passes
    <3>2. x[2] = "customMore"
      BY <3>1 DEF Order
    <3>3. CASE n = 1
      BY <2>1, <3>2, <3>3
    <3>4. CASE n = 2
      <4>1. 2 \in 1..n /\ 2 + 1 = 3
        BY <3>4
      <4>2. <<x[2], x[3]>> \in Order("wrap")
        BY <1>1, <1>3, <1>8, <2>1, <4>1 DEF Passes
      <4>3. x[3] = "loadWraps"
        BY <3>2, <4>2 DEF Order
      <4> QED
        BY <2>1, <3>4, <4>1, <4>3
    <3> QED
      BY <1>7, <3>3, <3>4
  <2> QED
    BY <1>1, <1>3, <1>4, <1>6, <2>1, <2>2 DEF Where
<1>9. n \in Nat /\ n >= 1
  BY <1>7
<1> QED
  BY <1>2, <1>4, <1>6, <1>7, <1>8, <1>9, FilesOnward

\* The place where a request goes on after a step that skips nothing.
LEMMA SkipsOne ==
    ASSUME PlatformAssumption, TypesInv, PlanInv, NEW c \in Client, \A d \in Client : d = c, todo[c] # <<>>,
           Skip(c, 1) \/ Refuse(c), NEW r, r = ask[c], NEW h, h = Head(todo[c]), UNCHANGED <<tcopy, wcopy>>,
           Refuse(c) \/ \A k : <<h, k>> \in Order(r.op) => Where(issued', k, r, tcopy[c], wcopy[c], view[c])
    PROVE  PlanInv' /\ WhereInv'
<1> DEFINE n == 1
<1>1. n \in Nat /\ n >= 1 /\ n \in 1..n /\ n = 1
  OBVIOUS
<1> HIDE DEF n
<1>2. PICK rest : /\ rest \in {<<>>, SubSeq(todo[c], n + 1, Len(todo[c]))} /\ Go(c, rest, view[c], alias)
                  /\ rest # <<>> => ~Refuse(c) \/ rest = <<>>
  <2>1. CASE Refuse(c)
    BY <2>1 DEF Refuse, Change
  <2>2. CASE ~Refuse(c)
    BY <1>1, <2>2 DEF Skip, Change
  <2> QED
    BY <2>1, <2>2
<1>3. PlanInv'
  BY <1>1, <1>2, PlanGo
<1>4. ASSUME rest # <<>>
      PROVE  Where(issued', Head(rest), ask[c], tcopy'[c], wcopy'[c], view[c])
  <2>1. PICK k : k = Head(rest)
    OBVIOUS
  <2>2. k = todo[c][n + 1]
    BY <1>1, <1>2, <1>4, <2>1, PlanGo
  <2>3. rest # <<>> => Passes(todo[c], n, ask[c].op)
    BY <1>1, <1>2, PlanGo
  <2>4. h = todo[c][1]
    BY PlanAt
  <2>5. <<h, k>> \in Order(r.op)
    BY <1>1, <1>4, <2>2, <2>3, <2>4 DEF Passes
  <2> QED
    BY <1>2, <1>4, <2>1, <2>5
<1> QED
  BY <1>1, <1>2, <1>3, <1>4, WhereGo

LEMMA SaveTokensOnward ==
    ASSUME PlatformAssumption, WrappedApart, PlatInv, NEW c \in Client, \A d \in Client : d = c, SaveTokens(c)
    PROVE  PlatInv'
<1>1. PICK r, t, w, v, list : /\ r = ask[c] /\ t = tcopy[c] /\ w = wcopy[c] /\ v = view[c] /\ list = issued
  OBVIOUS
<1>2. PICK h : h = Head(todo[c])
  OBVIOUS
<1>3. /\ todo[c] # <<>> /\ h = "saveTokens" /\ PlanInv /\ TypesInv
      /\ issued' \in {t, list, Broken} /\ UNCHANGED <<wraps, custom, listed, tcopy, wcopy>>
      /\ IF issued' = t THEN Skip(c, 1) ELSE Refuse(c)
  BY <1>1, <1>2 DEF SaveTokens, At, PlatInv, Written
<1>4. r \in PlatformRequests /\ r.op \in {"deploy", "wrap"} /\ (r.op = "wrap" <=> r \in WrapRequests)
  BY <1>1, <1>2, <1>3, PlanAt
<1>5. Where(list, h, r, t, w, v)
  BY <1>1, <1>2, <1>3 DEF PlatInv, WhereInv
<1>6. list # Broken /\ Apart(t) /\ Grown(list, t)
  BY <1>3, <1>4, <1>5 DEF Where
<1>7. t \in TokenFile /\ w \in WrapFile /\ v \in PortfolioRecord /\ list \in TokenFile
  BY <1>1, <1>3, <1>6 DEF TypesInv, Copies
<1>8. Apart(list) /\ CopiesHeld(list) /\ (wraps # Broken => Recorded(list, wraps))
  BY <1>1, <1>6 DEF PlatInv, HeldInv
<1>9. Copies' /\ Copies
  BY <1>3, CopiesSkip DEF TypesInv
<1>10. TypesInv'
  BY <1>3, <1>7, <1>9 DEF TypesInv
<1>11. CASE issued' = t
  <2>1. CopiesHeld(t)
    BY <1>6, <1>8, <1>9, HeldGrows
  <2>2. CopiesHeld(t)'
    BY <1>3, <1>9, <1>11, <2>1, HeldSkip
  <2>3. wraps # Broken => Recorded(t, wraps)
    <3>1. PICK x : x = wraps
      OBVIOUS
    <3>2. x # Broken => x \in WrapFile /\ Recorded(list, x)
      BY <1>3, <1>8, <3>1 DEF TypesInv
    <3>3. x # Broken => Recorded(t, x)
      BY <1>6, <3>2, RecordedGrows
    <3> QED
      BY <3>1, <3>3
  <2>4. HeldInv'
    BY <1>3, <1>6, <1>11, <2>2, <2>3 DEF HeldInv, CopiesHeld
  <2>5. ASSUME NEW k, <<h, k>> \in Order(r.op)
        PROVE  Where(t, k, r, t, w, v)
    <3>1. CASE r.op = "deploy"
      <4>1. k = "customOnce"
        BY <1>3, <2>5, <3>1 DEF Order
      <4> QED
        BY <1>3, <1>5, <3>1, <4>1 DEF Where
    <3>2. CASE r.op = "wrap"
      <4>1. k = "saveWraps"
        BY <1>3, <2>5, <3>2 DEF Order
      <4>2. GrownBy(list, t, WrapKey(r), r.n) /\ Recorded(list, w)
        BY <1>3, <1>5, <3>2 DEF Where
      <4>3. PICK new : new = [w EXCEPT ![<<r.token, r.target>>] = @ + r.n]
        OBVIOUS
      <4>4. Recorded(t, new)
        <5>1. r \in WrapRequests
          BY <1>4, <3>2
        <5> QED
          BY <1>6, <1>7, <4>2, <4>3, <5>1, RecordedMore
      <4>5. PICK m \in Nat : m = v.bal[WrapKey(r)]
        BY <1>4, <1>7, <3>2, WrapIs, RecordIs DEF Key
      <4>6. Covers(list, WrapKey(r), m)
        BY <1>1, <1>4, <1>8, <3>2, <4>5, WrapIs DEF CopiesHeld, Covered
      <4>7. Covers(t, WrapKey(r), m + r.n)
        BY <4>2, <4>6 DEF GrownBy
      <4> QED
        BY <1>6, <1>7, <3>2, <4>1, <4>3, <4>4, <4>5, <4>7 DEF Where
    <3> QED
      BY <1>4, <3>1, <3>2
  <2>6. PlanInv' /\ WhereInv'
    <3>1. Skip(c, 1) /\ \A k : <<h, k>> \in Order(r.op) => Where(issued', k, r, tcopy[c], wcopy[c], view[c])
      BY <1>1, <1>3, <1>11, <2>5
    <3> QED
      BY <1>1, <1>2, <1>3, <3>1, SkipsOne
  <2> QED
    BY <1>10, <2>4, <2>6 DEF PlatInv
<1>12. CASE issued' # t
  <2>1. Refuse(c) /\ issued' \in {list, Broken}
    BY <1>3, <1>12
  <2>2. CopiesHeld(list)'
    BY <1>8, <1>9, <2>1, HeldSkip
  <2>3. HeldInv'
    BY <1>3, <1>8, <2>1, <2>2 DEF HeldInv, CopiesHeld
  <2>4. PlanInv' /\ WhereInv'
    BY <1>1, <1>2, <1>3, <2>1, SkipsOne
  <2> QED
    BY <1>10, <2>3, <2>4 DEF PlatInv
<1> QED
  BY <1>11, <1>12

LEMMA SaveWrapsOnward ==
    ASSUME PlatformAssumption, WrappedApart, PlatInv, NEW c \in Client, \A d \in Client : d = c, SaveWraps(c)
    PROVE  PlatInv'
<1>1. PICK r, t, w, v, list : /\ r = ask[c] /\ t = tcopy[c] /\ w = wcopy[c] /\ v = view[c] /\ list = issued
  OBVIOUS
<1>2. PICK h, new : h = Head(todo[c]) /\ new = [w EXCEPT ![<<r.token, r.target>>] = @ + r.n]
  OBVIOUS
<1>3. /\ todo[c] # <<>> /\ h = "saveWraps" /\ PlanInv /\ TypesInv
      /\ wraps' \in {new, wraps, Broken} /\ UNCHANGED <<issued, custom, tcopy, wcopy>>
      /\ IF wraps' = new THEN Skip(c, 1) /\ listed' = Merged(custom) ELSE Refuse(c) /\ UNCHANGED listed
  BY <1>1, <1>2 DEF SaveWraps, At, PlatInv, Written
<1>4. /\ r \in WrapRequests /\ r.op = "wrap" /\ r.token \in Token /\ r.target \in PlatformChain /\ r.n \in Nat
  BY <1>1, <1>2, <1>3, PlanAt
<1>5. Where(list, h, r, t, w, v)
  BY <1>1, <1>2, <1>3 DEF PlatInv, WhereInv
<1>6. Recorded(list, new)
  BY <1>2, <1>3, <1>4, <1>5 DEF Where
<1>7. new \in WrapFile
  <2>1. w \in [Token \X PlatformChain -> Nat]
    BY <1>1, <1>3 DEF TypesInv, WrapFile
  <2> QED
    BY <1>2, <1>4, <2>1 DEF WrapFile
<1>8. TypesInv'
  <2>1. Copies'
    BY <1>3, CopiesSkip DEF TypesInv
  <2>2. wraps' \in WrapFile \cup {Broken}
    BY <1>3, <1>7 DEF TypesInv
  <2>3. listed' \subseteq Token
    BY <1>3, MergedIs DEF TypesInv
  <2> QED
    BY <1>3, <2>1, <2>2, <2>3 DEF TypesInv
<1>9. HeldInv'
  <2>1. list # Broken => CopiesHeld(list)'
    BY <1>1, <1>3, HeldSkip DEF PlatInv, HeldInv, TypesInv
  <2>2. list # Broken /\ wraps' # Broken => Recorded(list, wraps')
    BY <1>1, <1>3, <1>6 DEF PlatInv, HeldInv
  <2> QED
    BY <1>1, <1>3, <2>1, <2>2 DEF PlatInv, HeldInv, CopiesHeld
<1>10. ASSUME NEW k, <<h, k>> \in Order(r.op)
       PROVE  Where(list, k, r, t, w, v)
  <2>1. k = "spend"
    BY <1>3, <1>4, <1>10 DEF Order
  <2> QED
    BY <1>3, <1>4, <1>5, <2>1 DEF Where
<1>11. PlanInv' /\ WhereInv'
  <2>1. Skip(c, 1) \/ Refuse(c)
    BY <1>3
  <2>2. \A k : <<h, k>> \in Order(r.op) => Where(issued', k, r, tcopy[c], wcopy[c], view[c])
    BY <1>1, <1>3, <1>10
  <2> QED
    BY <1>1, <1>2, <1>3, <2>1, <2>2, SkipsOne
<1> QED
  BY <1>8, <1>9, <1>11 DEF PlatInv

LEMMA BeginOnward ==
    ASSUME PlatformAssumption, WrappedApart, PlatInv, NEW c \in Client, \A d \in Client : d = c, PlatformBegin(c)
    PROVE  PlatInv'
<1>1. PlanInv'
  BY PlanBegin DEF PlatInv
<1>2. /\ tcopy' = [tcopy EXCEPT ![c] = <<>>] /\ wcopy' = [wcopy EXCEPT ![c] = NoWraps]
      /\ UNCHANGED <<cached, file, alias, view, issued, wraps, custom, listed>>
  BY DEF PlatformBegin
<1>3. TypesInv'
  <2>1. <<>> \in TokenFile /\ NoWraps \in WrapFile
    BY DEF TokenFile, NoWraps, WrapFile
  <2> QED
    BY <1>2, <2>1 DEF PlatInv, TypesInv, Copies
<1>4. HeldInv'
  BY <1>2 DEF PlatInv, HeldInv, CopiesHeld
<1>5. WhereInv'
  <2>1. PICK r \in PlatformRequests : ask' = [ask EXCEPT ![c] = r] /\ todo' = [todo EXCEPT ![c] = PlatformProgram(r.op)]
    BY DEF PlatformBegin
  <2>2. ask'[c] = r /\ todo'[c] = PlatformProgram(r.op)
    BY <2>1 DEF PlatInv, PlanInv
  <2>3. r.op \in {"deploy", "wrap"} => Head(PlatformProgram(r.op)) = "loadTokens"
    <3>1. Head(Wrap) = "loadTokens"
      BY WrapIsAWay DEF Goes, Way
    <3> QED
      BY <3>1, DeployIsAWay DEF PlatformProgram
  <2>4. \A list, t, w, v : Where(list, Head(PlatformProgram(r.op)), r, t, w, v)
    BY <2>3 DEF Where
  <2>5. ASSUME NEW d \in Client
        PROVE  Where(issued', Head(todo'[d]), ask'[d], tcopy'[d], wcopy'[d], view'[d])
    <3>1. d = c
      OBVIOUS
    <3> QED
      BY <2>2, <2>4, <3>1
  <2> QED
    BY <2>5 DEF WhereInv
<1> QED
  BY <1>1, <1>3, <1>4, <1>5 DEF PlatInv

LEMMA StopOnward ==
    ASSUME PlatformAssumption, WrappedApart, PlatInv, PlatformStop
    PROVE  PlatInv'
<1>1. /\ Stop /\ listed' = Listed /\ UNCHANGED <<issued, wraps, custom, tcopy, wcopy>>
      /\ cached' = NoFile /\ file' = file /\ view' = [c \in Client |-> DefaultPortfolio]
      /\ todo' = [c \in Client |-> <<>>] /\ ask' = [c \in Client |-> NoRequest]
  BY DEF PlatformStop, Stop
<1>2. TypesInv'
  <2>1. Copies'
    BY <1>1, CopiesStop DEF PlatInv, TypesInv
  <2>2. Listed \subseteq Token
    BY DEF PlatformAssumption
  <2> QED
    BY <1>1, <2>1, <2>2 DEF PlatInv, TypesInv
<1>3. PlanInv'
  <2>1. <<>> \in Seq(PlatStep)
    OBVIOUS
  <2> QED
    BY <1>1, <2>1 DEF PlanInv
<1>4. WhereInv'
  BY <1>1 DEF WhereInv
<1>5. HeldInv'
  BY <1>1, DefaultCovered DEF PlatInv, HeldInv, CopiesHeld
<1> QED
  BY <1>2, <1>3, <1>4, <1>5 DEF PlatInv

LEMMA InitOnward ==
    ASSUME PlatformAssumption, WrappedApart, PlatformInit
    PROVE  PlatInv
<1>1. /\ issued = <<>> /\ wraps = NoWraps /\ custom = {} /\ listed = Listed
      /\ tcopy = [c \in Client |-> <<>>] /\ wcopy = [c \in Client |-> NoWraps]
      /\ cached = NoFile /\ file = NoFile /\ alias = Nobody
      /\ view = [c \in Client |-> DefaultPortfolio]
      /\ todo = [c \in Client |-> <<>>] /\ ask = [c \in Client |-> NoRequest]
  BY DEF PlatformInit, Init
<1>2. <<>> \in TokenFile /\ NoWraps \in WrapFile /\ <<>> \in Seq(PlatStep)
  BY DEF TokenFile, NoWraps, WrapFile
<1>3. Copies
  BY <1>1, DefaultTyped DEF Copies
<1>4. TypesInv
  BY <1>1, <1>2, <1>3 DEF TypesInv, PlatformAssumption
<1>5. PlanInv /\ WhereInv
  BY <1>1, <1>2 DEF PlanInv, WhereInv
<1>6. HeldInv
  <2>1. Recorded(<<>>, NoWraps)
    BY WrapIs DEF Recorded, Covers, NoWraps
  <2>2. CopiesHeld(issued)
    BY <1>1, DefaultCovered DEF CopiesHeld
  <2>3. Apart(<<>>)
    BY DEF Apart
  <2> QED
    BY <1>1, <2>1, <2>2, <2>3 DEF HeldInv
<1> QED
  BY <1>4, <1>5, <1>6 DEF PlatInv

LEMMA PlatformOnward ==
    ASSUME PlatformAssumption, WrappedApart, \A c, d \in Client : c = d, PlatInv, [PlatformNext]_<<portVars, platformVars>>
    PROVE  PlatInv'
<1>1. CASE UNCHANGED <<portVars, platformVars>>
  <2>1. /\ UNCHANGED <<issued, wraps, custom, listed, tcopy, wcopy, cached, file, alias, view, todo, ask>>
    BY <1>1 DEF portVars, platformVars
  <2>2. TypesInv'
    BY <2>1 DEF PlatInv, TypesInv, Copies
  <2>3. PlanInv'
    BY <2>1 DEF PlatInv, PlanInv
  <2>4. WhereInv'
    BY <2>1 DEF PlatInv, WhereInv
  <2>5. HeldInv'
    BY <2>1 DEF PlatInv, HeldInv, CopiesHeld
  <2> QED
    BY <2>2, <2>3, <2>4, <2>5 DEF PlatInv
<1>2. ASSUME NEW c \in Client, PlatformStep(c)
      PROVE  PlatInv'
  <2>1. \A d \in Client : d = c
    OBVIOUS
  <2>2. CASE LoadTokens(c) \/ LoadWraps(c)
    BY <2>1, <2>2, LoadTokensOnward, LoadWrapsOnward
  <2>3. CASE DeployToken(c) \/ WrapToken(c)
    BY <2>1, <2>3, DeployOnward, WrapOnward
  <2>4. CASE SaveTokens(c) \/ SaveWraps(c)
    BY <2>1, <2>4, SaveTokensOnward, SaveWrapsOnward
  <2>5. CASE AddCustom(c) \/ List(c)
    BY <2>1, <2>5, CustomOnward, ListOnward
  <2>6. CASE (Load(c) \/ Save(c) \/ TaskStep(c) \/ Booked(c)) /\ UNCHANGED platformVars
    BY <2>1, <2>6, LoadOnward, SaveOnward, TaskOnward, BookedOnward
  <2> QED
    BY <1>2, <2>2, <2>3, <2>4, <2>5, <2>6 DEF PlatformStep
<1>3. ASSUME NEW c \in Client, PlatformBegin(c)
      PROVE  PlatInv'
  <2>1. \A d \in Client : d = c
    OBVIOUS
  <2> QED
    BY <1>3, <2>1, BeginOnward
<1> QED
  BY <1>1, <1>2, <1>3, StopOnward DEF PlatformNext

\* What a request on the platform has done, and what is held beside what is issued,
\* is so after every step (TokenPlatform: PlatInv).
THEOREM PlatformInvariant ==
    ASSUME PlatformAssumption, WrappedApart, \A c, d \in Client : c = d
    PROVE  PlatformSpec => []PlatInv
<1>1. PlatformInit => PlatInv
  BY InitOnward
<1>2. PlatInv /\ [PlatformNext]_<<portVars, platformVars>> => PlatInv'
  BY PlatformOnward
<1> QED
  BY <1>1, <1>2, PTL DEF PlatformSpec

\* The supply of a key is no less than that of one of its tokens.
LEMMA SupplyIs ==
    ASSUME issued \in TokenFile, NEW k
    PROVE  /\ SupplyOf(k) \in Nat
           /\ \A i \in DOMAIN issued : KeyOf(issued[i]) = k => issued[i].supply <= SupplyOf(k)
<1>1. PICK f : f = [i \in DOMAIN issued |-> IF KeyOf(issued[i]) = k THEN issued[i].supply ELSE 0]
  OBVIOUS
<1>2. IsFiniteSet(DOMAIN issued)
  <2>1. DOMAIN issued = 1..Len(issued) /\ Len(issued) \in Nat
    BY DEF TokenFile
  <2> QED
    BY <2>1, FS_Interval
<1>3. \A i \in DOMAIN issued : f[i] \in Nat /\ (KeyOf(issued[i]) = k => f[i] = issued[i].supply)
  BY <1>1, EntryIs
<1>4. SupplyOf(k) = SumFunctionOnSet(f, DOMAIN issued)
  BY <1>1 DEF SupplyOf, SumFunction
<1>5. SumFunctionOnSet(f, DOMAIN issued) \in Nat
      /\ \A i \in DOMAIN issued : f[i] <= SumFunctionOnSet(f, DOMAIN issued)
  <2>1. PICK D : D = DOMAIN issued
    OBVIOUS
  <2>2. \A i \in D : f[i] \in Nat
    BY <1>3, <2>1
  <2> QED
    BY <1>2, <2>1, <2>2, SumNat
<1> QED
  BY <1>3, <1>4, <1>5

\* With one request at a time, whatever write fails and wherever the process stops,
\* no copy of the portfolio holds more of a wrapped token than its recorded supply,
\* nor do the records of wraps exceed it (WrapPlatformToken saves the tokens and the
\* records before the portfolio).
THEOREM WrappedTokensCovered ==
    ASSUME PlatformAssumption, WrappedApart, \A c, d \in Client : c = d
    PROVE  PlatformSpec => []WrappedCovered
<1>1. ASSUME PlatInv
      PROVE  WrappedCovered
  <2> SUFFICES ASSUME issued # Broken
               PROVE  /\ \A i \in DOMAIN issued, p \in {cached, file} :
                            issued[i].origin # NoPool /\ p \notin {NoFile, Broken}
                            => p.bal[KeyOf(issued[i])] <= SupplyOf(KeyOf(issued[i]))
                      /\ wraps # Broken => \A i \in DOMAIN issued :
                            issued[i].origin # NoPool
                            => wraps[<<issued[i].origin, issued[i].chain>>] <= issued[i].supply
    BY DEF WrappedCovered
  <2>1. issued \in TokenFile /\ Apart(issued) /\ CopiesHeld(issued) /\ Copies
    BY <1>1 DEF PlatInv, TypesInv, HeldInv
  <2>2. ASSUME NEW i \in DOMAIN issued, NEW p \in {cached, file},
               issued[i].origin # NoPool, p \notin {NoFile, Broken}
        PROVE  p.bal[KeyOf(issued[i])] <= SupplyOf(KeyOf(issued[i]))
    <3>1. PICK k : k = KeyOf(issued[i])
      OBVIOUS
    <3>2. k \in WrapKeys
      BY <2>1, <2>2, <3>1, WrapIs DEF Apart
    <3>3. p \in PortfolioRecord /\ Covered(issued, p)
      BY <2>1, <2>2 DEF Copies, CopiesHeld
    <3>4. p.bal[k] \in Nat
      BY <3>2, <3>3, WrapKeysAre, RecordIs DEF Key
    <3>5. Covers(issued, k, p.bal[k])
      BY <3>2, <3>3 DEF Covered
    <3>6. SupplyOf(k) \in Nat
      BY <2>1, SupplyIs
    <3>7. CASE p.bal[k] = 0
      BY <3>1, <3>6, <3>7
    <3>8. CASE p.bal[k] # 0
      <4>1. PICK j \in DOMAIN issued : KeyOf(issued[j]) = k /\ p.bal[k] <= issued[j].supply
        BY <3>5, <3>8 DEF Covers
      <4>2. issued[j].supply <= SupplyOf(k) /\ issued[j].supply \in Nat
        BY <2>1, <4>1, SupplyIs, EntryIs
      <4> QED
        BY <3>1, <3>4, <3>6, <4>1, <4>2
    <3> QED
      BY <3>7, <3>8
  <2>3. ASSUME wraps # Broken, NEW i \in DOMAIN issued, issued[i].origin # NoPool
        PROVE  wraps[<<issued[i].origin, issued[i].chain>>] <= issued[i].supply
    <3>1. PICK r \in WrapRequests : r.token = issued[i].origin /\ KeyOf(issued[i]) = WrapKey(r)
      BY <2>1, <2>3 DEF Apart
    <3>2. r.target = issued[i].chain /\ WrapKey(r) \in WrapKeys
      BY <3>1, WrapIs DEF KeyOf, WrapKey
    <3>3. Covers(issued, WrapKey(r), wraps[<<r.token, r.target>>])
      BY <1>1, <2>3 DEF PlatInv, HeldInv, Recorded
    <3>4. issued[i].supply \in Nat
      BY <2>1, EntryIs
    <3>5. CASE wraps[<<r.token, r.target>>] = 0
      BY <3>1, <3>2, <3>4, <3>5
    <3>6. CASE wraps[<<r.token, r.target>>] # 0
      <4>1. PICK j \in DOMAIN issued : KeyOf(issued[j]) = WrapKey(r) /\ wraps[<<r.token, r.target>>] <= issued[j].supply
        BY <3>3, <3>6 DEF Covers
      <4>2. j = i
        BY <2>1, <3>1, <3>2, <4>1 DEF Apart
      <4> QED
        BY <3>1, <3>2, <4>1, <4>2
    <3> QED
      BY <3>5, <3>6
  <2> QED
    BY <2>2, <2>3
<1> QED
  BY <1>1, PlatformInvariant, PTL

\* The files of the platform and the registry hold tokens, and no copy of the
\* portfolio is overdrawn (tokenplatform_bridge.go, store.go).
THEOREM PlatformTypes ==
    ASSUME PlatformAssumption, WrappedApart, \A c, d \in Client : c = d
    PROVE  PlatformSpec => []PlatformTypeOK
<1>1. PlatInv => PlatformTypeOK
  BY DEF PlatInv, TypesInv, Copies, PlatformTypeOK
<1> QED
  BY <1>1, PlatformInvariant, PTL
=============================================================================
