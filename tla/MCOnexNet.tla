----------------------------- MODULE MCOnexNet -----------------------------
(* Instances of OnexNet for TLC: two or three nodes, chains of two blocks. *)
EXTENDS OnexNet

CONSTANTS x, y, z, g

\* A node that dials a node that dials another one.
DialsLine == {<<z, x>>, <<x, y>>}
\* One dialer and its seed.
DialsSeed == {<<x, y>>}

\* The strongest case for foreign blocks: everyone starts from one genesis.
SharedGenesis == [n \in Node |-> g]
=============================================================================
