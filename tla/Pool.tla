-------------------------------- MODULE Pool --------------------------------
(***************************************************************************)
(* The constant-product pool of amm/pool.go, on its two reserves and its   *)
(* shares.  The code computes with big integers and divides rounding down; *)
(* what does not fit an unsigned 64-bit answer it refuses, which the       *)
(* numbers here never reach.                                               *)
(***************************************************************************)
EXTENDS Integers

CONSTANT FeeBps

PoolAssumption == FeeBps \in 0..9999

PoolRecord == [r0 : Nat, r1 : Nat, shares : Nat]
Empty == [r0 |-> 0, r1 |-> 0, shares |-> 0]

In(p, side) == IF side = 0 THEN p.r0 ELSE p.r1
Out(p, side) == IF side = 0 THEN p.r1 ELSE p.r0

\* Mutant of AmountOut: rounds up.
AmountOutUp(p, side, ain) ==
    LET paid == ain * (10000 - FeeBps)
    IN 1 + (paid * Out(p, side)) \div (In(p, side) * 10000 + paid)

\* QuoteSwap: what "ain" of one side buys of the other.
AmountOut(p, side, ain) ==
    LET paid == ain * (10000 - FeeBps)
    IN (paid * Out(p, side)) \div (In(p, side) * 10000 + paid)
CanQuote(p, ain) == ain > 0 /\ p.r0 > 0 /\ p.r1 > 0

\* Swap: the fee stays in the pool.
Swapped(p, side, ain) ==
    LET out == AmountOut(p, side, ain) IN
    IF side = 0 THEN [p EXCEPT !.r0 = @ + ain, !.r1 = @ - out]
    ELSE [p EXCEPT !.r1 = @ + ain, !.r0 = @ - out]
CanSwap(p, side, ain) ==
    CanQuote(p, ain) /\ AmountOut(p, side, ain) < Out(p, side)

\* big.Int Sqrt.
IsRoot(n, r) == r * r <= n /\ n < (r + 1) * (r + 1)
Root(n) == CHOOSE r \in 0..n : IsRoot(n, r)

Lesser(a, b) == IF a < b THEN a ELSE b
\* AddLiquidity: a pool without shares takes any amounts, another mints for the
\* scarcer of the two and keeps all of both, even if that mints nothing.
Minted(p, a0, a1) ==
    IF p.shares = 0 THEN Root(a0 * a1)
    ELSE Lesser((a0 * p.shares) \div p.r0, (a1 * p.shares) \div p.r1)
CanAdd(p, a0, a1) == p.shares = 0 => Root(a0 * a1) > 0
Added(p, a0, a1) ==
    [r0 |-> p.r0 + a0, r1 |-> p.r1 + a1, shares |-> p.shares + Minted(p, a0, a1)]

\* RemoveLiquidity never burns the last share: a larger request burns all but one.
Burnt(p, n) == IF n >= p.shares THEN p.shares - 1 ELSE n
CanRemove(p, n) == Burnt(p, n) > 0
Paid0(p, n) == (Burnt(p, n) * p.r0) \div p.shares
Paid1(p, n) == (Burnt(p, n) * p.r1) \div p.shares
Removed(p, n) ==
    [r0 |-> p.r0 - Paid0(p, n), r1 |-> p.r1 - Paid1(p, n), shares |-> p.shares - Burnt(p, n)]

\* A share of p is worth no less than a share of q, the product of the reserves
\* being a pool's worth.
ShareWorthAtLeast(p, q) ==
    p.r0 * p.r1 * q.shares * q.shares >= q.r0 * q.r1 * p.shares * p.shares
=============================================================================
