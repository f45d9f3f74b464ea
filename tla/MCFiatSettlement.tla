-------------------------- MODULE MCFiatSettlement --------------------------
(* An instance of FiatSettlement for TLC, and so of LedgerBook: one         *)
(* customer whose class has a pool of its own and one whose class has none, *)
(* and the disk may fail and the process stop between any two steps.        *)
EXTENDS FiatSettlement, TLC

CONSTANTS ann, bob, ext, poolM1, poolMint, poolNsb, usdcV, ethV, mintV, usd, eur, usdc, eth, stab

MCAccount == {ann, bob, ext, poolM1, poolMint, poolNsb, usdcV, ethV, mintV}
MCWorth == [s \in {usd, eur, usdc, eth, stab} |-> IF s = eur THEN 2 ELSE 1]

MCReq(p, q, n, s) == [from |-> p, to |-> q, amount |-> n, convertTo |-> s,
                      external |-> q = ext]
\* Of an account to itself, a conversion, and a payment out of the bank.
MCRequests == {MCReq(ann, ann, 2, NoAsset), MCReq(ann, usdcV, 2, usdc), MCReq(ann, ext, 3, usdc)}

MCEntry(p, s, n) == [q \in MCAccount |-> IF q = p THEN [asset |-> s, bal |-> n] ELSE NoAccount]
MCNothing == [q \in MCAccount |-> NoAccount]
MCSnapshots == {MCEntry(ann, usd, 4), MCNothing}
MCImports == {MCEntry(bob, eur, 1), MCNothing}

MCClass == {"m1", "m2", "m3", "m4", "mint", "nsb"}
MCClassOf == [p \in {ann, bob} |-> IF p = ann THEN "m1" ELSE "nsb"]
MCPoolOf == [k \in MCClass |-> IF k = "mint" THEN poolMint ELSE IF k = "nsb" THEN poolNsb ELSE poolM1]

\* What each account holds, also when its money is converted on the way to it.
MCAssetOf == [p \in MCAccount |-> IF p \in {usdcV, ext} THEN usdc ELSE IF p = bob THEN eur ELSE usd]

ASSUME MCAssumption == SettlementAssumption /\ Apart /\ KeepsAssets(MCAssetOf)
=============================================================================
