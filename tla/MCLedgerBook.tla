---------------------------- MODULE MCLedgerBook ----------------------------
(* Instances of LedgerBook for TLC: three accounts, one of them external,  *)
(* two assets.                                                             *)
EXTENDS LedgerBook, TLC

CONSTANTS ann, bob, ext, usd, eur

MCAccount == {ann, bob, ext}
MCWorth == [s \in {usd, eur} |-> IF s = usd THEN 1 ELSE 2]

MCReq(p, q, n, s) == [from |-> p, to |-> q, amount |-> n, convertTo |-> s,
                      external |-> q = ext]
\* Of an account to itself, with conversion, and out of the bank.  Every
\* account receives only the asset it holds.
MCRequests == {MCReq(ann, ann, 2, NoAsset), MCReq(ann, bob, 2, eur), MCReq(bob, ext, 1, NoAsset),
               MCReq(ann, bob, 4, eur)}
MCRequestsOut == {MCReq(ann, ext, 3, NoAsset), MCReq(ann, bob, 2, usd)}

MCEntry(p, s, n) == [q \in MCAccount |-> IF q = p THEN [asset |-> s, bal |-> n] ELSE NoAccount]
MCNothing == [q \in MCAccount |-> NoAccount]
MCSnapshots == {MCEntry(ann, usd, 4), MCNothing}
MCImports == {MCEntry(bob, eur, 1), MCNothing}
MCImportsNone == {}

Clients == Permutations(Client)
=============================================================================
