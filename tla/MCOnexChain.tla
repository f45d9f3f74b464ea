---------------------------- MODULE MCOnexChain ----------------------------
(* Instances of OnexChain for TLC: three addresses, two blocks             *)
(* above genesis unless a cfg says otherwise.                              *)
EXTENDS OnexChain

CONSTANTS a, b, m

MCAddr == {a, b, m}
MCTx(x, y, n, fee, k) == [from |-> x, to |-> y, amount |-> n, fee |-> fee, nonce |-> k]

\* a pays b twice in a row; b pays itself from what it received.
MCTxs == {MCTx(a, b, 3, 1, 0), MCTx(a, b, 2, 0, 1), MCTx(b, b, 2, 1, 0)}
\* Also a second transfer with the first one's nonce, as when a user pays again.
MCTxsPeers == MCTxs \cup {MCTx(a, m, 4, 0, 0)}
\* The miner spends its reward.
MCTxsMiner == {MCTx(m, a, 2, 1, 0)}

\* Two senders that need several blocks, one of them paid by the other.
MCTxsLive == MCTxs \cup {MCTx(b, a, 1, 0, 1)}

MCAlloc == [x \in MCAddr |-> IF x = a THEN 6 ELSE 0]
MCAllocTwo == [x \in MCAddr |-> IF x = a THEN 6 ELSE IF x = b THEN 3 ELSE 0]
MCAllocNone == [x \in MCAddr |-> 0]

ASSUME MCAssumption == NoOverflow
=============================================================================
