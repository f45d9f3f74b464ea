------------------------------ MODULE OnexNet ------------------------------
(***************************************************************************)
(* The peer-to-peer layer (internal/network): nodes dial their seeds,      *)
(* exchange hello messages, ask for missing blocks and broadcast new ones. *)
(* A chain is the sequence of its block hashes; what makes a block valid   *)
(* apart from its index and its previous hash is in OnexChain.             *)
(*                                                                         *)
(* A connection has two ends, each with a goroutine that reads it.  The    *)
(* node at the accepting end goes straight to handleConn, the dialer first *)
(* waits for a hello.  onexd never sends that hello from handleConn; nodes *)
(* in Answers run an implementation of the protocol that does.             *)
(***************************************************************************)
EXTENDS Naturals, Sequences

CONSTANTS
    Node,
    Dials,      \* pairs <<dialer, seed>>: the seeds each node is started with
    Genesis,    \* the hash of each node's genesis block
    Mining,     \* the nodes started with -mine
    Answers,    \* the nodes that answer a hello
    NoPeer      \* an absent entry of s.peers

\* Bounds, and what the runtime may do.
CONSTANTS
    MaxHeight,  \* highest block index
    MaxTx,      \* tx messages broadcast by each node
    Lossy       \* readMsg reads past the end of a message

Hash == (Node \X Nat) \cup {Genesis[n] : n \in Node}
Block == [idx : Nat, hash : Hash, prev : Hash]
End == Dials \X {"dialer", "seed"}
Peer == [end : End, height : Nat]

\* "lost" is the rest of a message whose beginning another read took.
Message ==
    [type : {"hello"}, id : Node, height : Nat]
      \cup [type : {"getblocks"}, from : Nat \ {0}]
      \cup [type : {"blocks"}, blocks : Seq(Block)]
      \cup [type : {"tx", "lost"}]

ASSUME NetAssumption ==
    /\ Dials \subseteq Node \X Node
    /\ \A c \in Dials : c[1] # c[2]
    /\ Mining \subseteq Node /\ Answers \subseteq Node
    /\ \A n \in Node : Genesis[n] \notin Node \X Nat
    /\ NoPeer \notin Peer
    /\ MaxHeight \in Nat /\ MaxTx \in Nat /\ Lossy \in BOOLEAN

VARIABLES
    chain,    \* the chain of each node, from its genesis block on
    unsent,   \* the block mineLoop has mined and not yet broadcast
    peers,    \* s.peers
    at,       \* what the goroutine of each end is doing
    wire,     \* the messages on their way to each end
    todo,     \* the blocks an end's applyBlocksSequential still has to apply
    reply,    \* the answer to a getblocks that is read and not yet written
    booting,  \* dials whose Bootstrap goroutine has not called syncFromPeers
    txs       \* tx messages broadcast so far

vars == <<chain, unsent, peers, at, wire, todo, reply, booting, txs>>

Owner(e) == IF e[2] = "dialer" THEN e[1][1] ELSE e[1][2]
Other(e) == <<e[1], IF e[2] = "dialer" THEN "seed" ELSE "dialer">>
Height(n) == Len(chain[n]) - 1
TipHash(n) == chain[n][Len(chain[n])]

\* The block of index i of a node.
BlockAt(n, i) == [idx |-> i, hash |-> chain[n][i + 1], prev |-> chain[n][i]]

Hello(n) == [type |-> "hello", id |-> n, height |-> Height(n)]

\* A write goes through while neither end has closed the connection; every
\* caller ignores its error.
Open(e) == at[e] # "closed" /\ at[Other(e)] # "closed"

Written(ends, m) ==
    [e \in End |-> IF e \in ends /\ Open(e) THEN Append(wire[e], m) ELSE wire[e]]

\* The far ends of the connections of a node's peers.
Reached(n, P) == {Other(peers[n][p].end) : p \in P}
PeersOf(n) == {p \in Node : peers[n][p] # NoPeer}

Init ==
    /\ chain = [n \in Node |-> <<Genesis[n]>>]
    /\ unsent = [n \in Node |-> <<>>]
    /\ peers = [n \in Node |-> [p \in Node |-> NoPeer]]
    /\ at = [e \in End |-> "none"]
    /\ wire = [e \in End |-> <<>>]
    /\ todo = [e \in End |-> <<>>] /\ reply = [e \in End |-> <<>>]
    /\ booting = {} /\ txs = [n \in Node |-> 0]

\* ConnectWait: the listener of the seed accepts, and the dialer says hello.
Dial(c) ==
    LET d == <<c, "dialer">>  s == <<c, "seed">>
    IN  /\ at[d] = "none"
        /\ at' = [at EXCEPT ![d] = "handshake", ![s] = "loop"]
        /\ wire' = [wire EXCEPT ![s] = <<Hello(c[1])>>]
        /\ UNCHANGED <<chain, unsent, peers, todo, reply, booting, txs>>

\* The goroutine of an end is at its readMsg and a message has arrived.
Reads(e, type) ==
    todo[e] = <<>> /\ reply[e] = <<>> /\ wire[e] # <<>> /\ Head(wire[e]).type = type

\* readMsg makes a new bufio.Reader for each call: what it has buffered past
\* the end of the message is gone with it, and may end inside a message.
Rests(w) ==
    IF ~Lossy THEN {Tail(w)}
    ELSE {<<>>} \cup
         UNION {{SubSeq(w, k, Len(w)), <<[type |-> "lost"]>> \o SubSeq(w, k + 1, Len(w))} :
                   k \in 2..Len(w)}

Consume(e, w) == \E rest \in Rests(wire[e]) : wire' = [w EXCEPT ![e] = rest]

\* s.peers is keyed by the peer's id: a later connection replaces an earlier
\* one, and no entry is ever removed.
Register(e) ==
    LET hello == Head(wire[e])
    IN  peers' = [peers EXCEPT ![Owner(e)][hello.id] = [end |-> e, height |-> hello.height]]

HandshakeDone(e) ==
    /\ at[e] = "handshake" /\ Reads(e, "hello")
    /\ at' = [at EXCEPT ![e] = "loop"]
    /\ Register(e)
    /\ booting' = booting \cup {e[1]}
    /\ Consume(e, wire)
    /\ UNCHANGED <<chain, unsent, todo, reply, txs>>

\* "expected hello", a message that does not parse, or the end of the stream.
Close(e) ==
    /\ at[e] \in {"handshake", "loop"} /\ todo[e] = <<>> /\ reply[e] = <<>>
    /\ \/ wire[e] = <<>> /\ at[Other(e)] = "closed"
       \/ wire[e] # <<>> /\ Head(wire[e]).type = "lost"
       \/ wire[e] # <<>> /\ at[e] = "handshake" /\ Head(wire[e]).type # "hello"
    /\ at' = [at EXCEPT ![e] = "closed"]
    /\ wire' = [wire EXCEPT ![e] = <<>>]
    /\ UNCHANGED <<chain, unsent, peers, todo, reply, booting, txs>>

\* Bootstrap goes on with syncFromPeers: every peer that said it is higher is
\* asked for the blocks above this node's tip.
SyncFromPeers(c) ==
    LET n == c[1]
        higher == {p \in PeersOf(n) : peers[n][p].height > Height(n)}
    IN  /\ c \in booting
        /\ wire' = Written(Reached(n, higher), [type |-> "getblocks", from |-> Height(n) + 1])
        /\ booting' = booting \ {c}
        /\ UNCHANGED <<chain, unsent, peers, at, todo, reply, txs>>

-----------------------------------------------------------------------------
(* handleConn *)

\* Mutant of HandleHello: every node answers.
HandleHelloAnswers(e) ==
    /\ at[e] = "loop" /\ Reads(e, "hello")
    /\ Register(e)
    /\ Consume(e, Written({Other(e)}, Hello(Owner(e))))
    /\ UNCHANGED <<chain, unsent, at, todo, reply, booting, txs>>

HandleHello(e) ==
    /\ at[e] = "loop" /\ Reads(e, "hello")
    /\ Register(e)
    /\ Consume(e, IF Owner(e) \in Answers /\ e[2] = "seed"
                  THEN Written({Other(e)}, Hello(Owner(e))) ELSE wire)
    /\ UNCHANGED <<chain, unsent, at, todo, reply, booting, txs>>

\* Mutant of BlocksFrom: starts one block late.
BlocksFromNext(n, from) == [k \in 1..(Height(n) - from) |-> BlockAt(n, from + k)]

BlocksFrom(n, from) == [k \in 1..(Height(n) + 1 - from) |-> BlockAt(n, from + k - 1)]

\* The blocks are read one by one under the chain's lock and written after it
\* is released: a block mined in between can be on the wire before them.
HandleGetBlocks(e) ==
    /\ at[e] = "loop" /\ Reads(e, "getblocks")
    /\ reply' = [reply EXCEPT ![e] = <<BlocksFrom(Owner(e), Head(wire[e]).from)>>]
    /\ Consume(e, wire)
    /\ UNCHANGED <<chain, unsent, peers, at, todo, booting, txs>>

WriteBlocks(e) ==
    /\ reply[e] # <<>>
    /\ wire' = Written({Other(e)}, [type |-> "blocks", blocks |-> Head(reply[e])])
    /\ reply' = [reply EXCEPT ![e] = <<>>]
    /\ UNCHANGED <<chain, unsent, peers, at, todo, booting, txs>>

\* A "newblock" is handled as a list of one block.
HandleBlocks(e) ==
    /\ at[e] = "loop" /\ Reads(e, "blocks")
    /\ todo' = [todo EXCEPT ![e] = Head(wire[e]).blocks]
    /\ Consume(e, wire)
    /\ UNCHANGED <<chain, unsent, peers, at, reply, booting, txs>>

\* The pool is in OnexChain.
HandleTx(e) ==
    /\ at[e] = "loop" /\ Reads(e, "tx")
    /\ Consume(e, wire)
    /\ UNCHANGED <<chain, unsent, peers, at, todo, reply, booting, txs>>

\* Mutant of Verdict: only the index is checked.
VerdictByIndex(n, b) ==
    IF b.idx <= Height(n) THEN (IF b.hash = TipHash(n) THEN "known" ELSE "refuse")
    ELSE IF b.idx = Height(n) + 1 THEN "apply" ELSE "refuse"

\* The answer of ApplyBlock to a valid block of index > 0.
Verdict(n, b) ==
    IF b.idx <= Height(n) THEN (IF b.hash = TipHash(n) THEN "known" ELSE "refuse")
    ELSE IF b.prev = TipHash(n) THEN "apply" ELSE "refuse"

\* One turn of applyBlocksSequential, which gives up at the first error; the
\* chain's lock is free between two turns.
ApplyNext(e) ==
    LET n == Owner(e)  b == Head(todo[e])  verdict == Verdict(n, b)
    IN  /\ todo[e] # <<>>
        /\ chain' = IF verdict = "apply" THEN [chain EXCEPT ![n] = Append(@, b.hash)] ELSE chain
        /\ todo' = [todo EXCEPT ![e] = IF verdict = "refuse" THEN <<>> ELSE Tail(@)]
        /\ UNCHANGED <<unsent, peers, at, wire, reply, booting, txs>>

-----------------------------------------------------------------------------
(* What the node sends: mineLoop and the transaction entry points *)

Mine(n) ==
    /\ n \in Mining /\ unsent[n] = <<>> /\ Height(n) < MaxHeight
    /\ chain' = [chain EXCEPT ![n] = Append(@, <<n, Height(n) + 1>>)]
    /\ unsent' = [unsent EXCEPT ![n] =
          <<[idx |-> Height(n) + 1, hash |-> <<n, Height(n) + 1>>, prev |-> TipHash(n)]>>]
    /\ UNCHANGED <<peers, at, wire, todo, reply, booting, txs>>

BroadcastBlock(n) ==
    /\ unsent[n] # <<>>
    /\ wire' = Written(Reached(n, PeersOf(n)), [type |-> "blocks", blocks |-> unsent[n]])
    /\ unsent' = [unsent EXCEPT ![n] = <<>>]
    /\ UNCHANGED <<chain, peers, at, todo, reply, booting, txs>>

BroadcastTx(n) ==
    /\ txs[n] < MaxTx
    /\ wire' = Written(Reached(n, PeersOf(n)), [type |-> "tx"])
    /\ txs' = [txs EXCEPT ![n] = @ + 1]
    /\ UNCHANGED <<chain, unsent, peers, at, todo, reply, booting>>

HandleConn(e) ==
    \/ HandleHello(e) \/ HandleGetBlocks(e) \/ HandleBlocks(e) \/ HandleTx(e)
    \/ WriteBlocks(e) \/ ApplyNext(e)

Next ==
    \/ \E c \in Dials : Dial(c) \/ SyncFromPeers(c)
    \/ \E e \in End : HandshakeDone(e) \/ HandleConn(e) \/ Close(e)
    \/ \E n \in Node : Mine(n) \/ BroadcastBlock(n) \/ BroadcastTx(n)

Spec == Init /\ [][Next]_vars

(* Every goroutine goes on; mining and wallets may do nothing. *)
Fairness ==
    /\ \A c \in Dials : WF_vars(Dial(c)) /\ WF_vars(SyncFromPeers(c))
    /\ \A e \in End : WF_vars(HandshakeDone(e) \/ HandleConn(e) \/ Close(e))
    /\ \A n \in Node : WF_vars(BroadcastBlock(n))

FairSpec == Spec /\ Fairness

-----------------------------------------------------------------------------
(* Properties *)

\* Types of all variables.
TypeOK ==
    /\ chain \in [Node -> Seq(Hash)] /\ \A n \in Node : chain[n] # <<>>
    /\ unsent \in [Node -> Seq(Block)]
    /\ peers \in [Node -> [Node -> Peer \cup {NoPeer}]]
    /\ at \in [End -> {"none", "handshake", "loop", "closed"}]
    /\ wire \in [End -> Seq(Message)]
    /\ todo \in [End -> Seq(Block)] /\ reply \in [End -> Seq(Seq(Block))]
    /\ booting \subseteq Dials /\ txs \in [Node -> Nat]

\* A node that does not answer a hello, and dials none that does.
Silent(n) == n \notin Answers /\ \A c \in Dials : c[1] = n => c[2] \notin Answers

\* A connection to a seed that does not answer carries nothing from its dialer
\* but the first hello.  So a silent node never takes over a block of another
\* one, whatever the other nodes do, who mines and what is lost.
Isolated ==
    \A n \in Node : Silent(n) => \A i \in 1..Height(n) : chain[n][i + 1] = <<n, i>>

\* However blocks are lost, reordered or applied while the node mines: chains
\* that have a block in common have everything below it in common.
SameBlockSamePast ==
    \A n, p \in Node, i \in 0..MaxHeight :
        i <= Height(n) /\ i <= Height(p) /\ chain[n][i + 1] = chain[p][i + 1] =>
            \A j \in 1..i : chain[n][j] = chain[p][j]

\* A node that has got through the handshake with a seed of its own genesis
\* block, and has no other source of blocks, takes over every block the seed
\* had when it said hello, whatever is mined and broadcast meanwhile.
CatchesUp ==
    \A c \in Dials : \A i \in 1..MaxHeight :
        peers[c[1]][c[2]] # NoPeer /\ i <= peers[c[1]][c[2]].height
            ~> i <= Height(c[1]) /\ chain[c[1]][i + 1] = chain[c[2]][i + 1]

\* A node started with a seed that is higher catches up with it.
SyncsWithSeed ==
    \A c \in Dials : Height(c[2]) > Height(c[1]) ~> Height(c[1]) >= Height(c[2])
=============================================================================
