--------------------------- MODULE OnexNetProofs ---------------------------
(***************************************************************************)
(* Proofs about OnexNet, for any nodes, seeds and bounds: its types; that  *)
(* a node that neither answers a hello nor dials a node that does never    *)
(* gets a block of another one; and that two chains with a block in common *)
(* have all below it in common.                                            *)
(***************************************************************************)
EXTENDS OnexNet, TLAPS

LEMMA EndType ==
    \A e \in End : Owner(e) \in Node /\ Other(e) \in End
BY NetAssumption DEF End, Owner, Other

LEMMA MessageFields ==
    ASSUME NEW m \in Message
    PROVE  /\ m.type = "hello" => m.id \in Node /\ m.height \in Nat
           /\ m.type = "getblocks" => m.from \in Nat \ {0}
           /\ m.type = "blocks" => m.blocks \in Seq(Block)
BY DEF Message

\* What is left of the messages is made of the same kind of messages.
LEMMA RestsType ==
    ASSUME NEW M, NEW w \in Seq(M), w # <<>>, [type |-> "lost"] \in M
    PROVE  \A rest \in Rests(w) : rest \in Seq(M)
<1>1. Tail(w) \in Seq(M)
  OBVIOUS
<1>2. <<>> \in Seq(M)
  OBVIOUS
<1>3. ASSUME NEW k \in 2..Len(w)
      PROVE  /\ SubSeq(w, k, Len(w)) \in Seq(M)
             /\ <<[type |-> "lost"]>> \o SubSeq(w, k + 1, Len(w)) \in Seq(M)
  <2>1. SubSeq(w, k, Len(w)) \in Seq(M)
    BY <1>3
  <2>2. SubSeq(w, k + 1, Len(w)) \in Seq(M)
    BY <1>3
  <2>3. <<[type |-> "lost"]>> \in Seq(M)
    OBVIOUS
  <2> QED
    BY <2>1, <2>2, <2>3
<1>4. CASE ~Lossy
  BY <1>1, <1>4 DEF Rests
<1>5. CASE Lossy
  <2> DEFINE Cut(k) == {SubSeq(w, k, Len(w)), <<[type |-> "lost"]>> \o SubSeq(w, k + 1, Len(w))}
         Cuts == UNION {Cut(k) : k \in 2..Len(w)}
  <2>1. \A k \in 2..Len(w) : \A rest \in Cut(k) : rest \in Seq(M)
    BY <1>3
  <2>2. Rests(w) = {<<>>} \cup Cuts
    BY <1>5 DEF Rests
  <2> HIDE DEF Cut
  <2>3. \A rest \in Cuts : rest \in Seq(M)
    BY <2>1, Zenon
  <2> HIDE DEF Cuts
  <2> QED
    BY <1>2, <2>2, <2>3
<1> QED
  BY <1>4, <1>5

LEMMA Appended ==
    ASSUME NEW S, NEW s \in Seq(S), NEW x \in S
    PROVE  Append(s, x) \in Seq(S) /\ Append(s, x) # <<>>
<1>1. Append(s, x) \in Seq(S) /\ Len(Append(s, x)) = Len(s) + 1 /\ Len(s) \in Nat
  OBVIOUS
<1> QED
  BY <1>1

LEMMA WrittenType ==
    ASSUME wire \in [End -> Seq(Message)], NEW ends, NEW m \in Message
    PROVE  Written(ends, m) \in [End -> Seq(Message)]
<1>1. ASSUME NEW e \in End
      PROVE  (IF e \in ends /\ Open(e) THEN Append(wire[e], m) ELSE wire[e]) \in Seq(Message)
  <2>1. wire[e] \in Seq(Message) /\ Append(wire[e], m) \in Seq(Message)
    BY <1>1
  <2> QED
    BY <2>1
<1> QED
  BY <1>1 DEF Written

LEMMA ConsumeType ==
    ASSUME wire \in [End -> Seq(Message)], NEW w \in [End -> Seq(Message)],
           NEW e \in End, wire[e] # <<>>, Consume(e, w)
    PROVE  wire' \in [End -> Seq(Message)]
<1>1. PICK rest \in Rests(wire[e]) : wire' = [w EXCEPT ![e] = rest]
  BY DEF Consume
<1>2. [type |-> "lost"] \in Message
  BY DEF Message
<1>3. rest \in Seq(Message)
  BY <1>1, <1>2, RestsType
<1> QED
  BY <1>1, <1>3

LEMMA HeightType ==
    ASSUME TypeOK, NEW n \in Node
    PROVE  /\ Height(n) \in Nat /\ Len(chain[n]) = Height(n) + 1
           /\ \A i \in 1..Len(chain[n]) : chain[n][i] \in Hash
           /\ TipHash(n) \in Hash
<1>1. chain[n] \in Seq(Hash) /\ chain[n] # <<>>
  BY DEF TypeOK
<1> QED
  BY <1>1 DEF Height, TipHash

LEMMA BlocksFromType ==
    ASSUME TypeOK, NEW n \in Node, NEW from \in Nat \ {0}
    PROVE  BlocksFrom(n, from) \in Seq(Block)
<1>1. ASSUME NEW k \in 1..(Height(n) + 1 - from)
      PROVE  BlockAt(n, from + k - 1) \in Block
  <2>1. from + k - 1 \in Nat /\ from + k - 1 + 1 \in 1..Len(chain[n])
        /\ from + k - 1 \in 1..Len(chain[n])
    BY <1>1, HeightType
  <2> QED
    BY <2>1, HeightType DEF BlockAt, Block
<1>2. CASE Height(n) + 1 - from \in Nat
  <2> DEFINE m == Height(n) + 1 - from
  <2>1. BlocksFrom(n, from) \in [1..m -> Block]
    BY <1>1 DEF BlocksFrom
  <2> QED
    BY <1>2, <2>1
<1>3. CASE Height(n) + 1 - from \notin Nat
  <2>1. 1..(Height(n) + 1 - from) = 1..0
    BY <1>3, HeightType
  <2>2. BlocksFrom(n, from) \in [1..0 -> Block]
    BY <2>1, <1>1 DEF BlocksFrom
  <2> QED
    BY <2>2
<1> QED
  BY <1>2, <1>3

LEMMA HelloType ==
    ASSUME TypeOK, NEW n \in Node
    PROVE  Hello(n) \in Message /\ Hello(n).type = "hello"
BY HeightType DEF Hello, Message

LEMMA RegisterType ==
    ASSUME TypeOK, NEW e \in End, Reads(e, "hello"), Register(e)
    PROVE  peers' \in [Node -> [Node -> Peer \cup {NoPeer}]]
<1>1. wire[e] \in Seq(Message) /\ wire[e] # <<>> /\ Head(wire[e]).type = "hello"
  BY DEF TypeOK, Reads
<1>2. Head(wire[e]) \in Message
  BY <1>1
<1>3. Head(wire[e]).id \in Node /\ Head(wire[e]).height \in Nat
  BY <1>1, <1>2, MessageFields
<1>4. [end |-> e, height |-> Head(wire[e]).height] \in Peer
  BY <1>3 DEF Peer
<1> QED
  BY <1>3, <1>4, EndType DEF Register, TypeOK

LEMMA TypeStep ==
    ASSUME TypeOK, [Next]_vars
    PROVE  TypeOK'
<1> USE DEF TypeOK
<1>1. ASSUME NEW c \in Dials, Dial(c)
      PROVE  TypeOK'
  <2>1. <<c, "dialer">> \in End /\ <<c, "seed">> \in End /\ c[1] \in Node
    BY NetAssumption DEF End
  <2>2. <<Hello(c[1])>> \in Seq(Message)
    BY <2>1, HelloType
  <2>3. wire' \in [End -> Seq(Message)]
    BY <1>1, <2>1, <2>2 DEF Dial
  <2>4. at' \in [End -> {"none", "handshake", "loop", "closed"}]
    BY <1>1, <2>1 DEF Dial
  <2> QED
    BY <1>1, <2>3, <2>4 DEF Dial
<1>2. ASSUME NEW c \in Dials, SyncFromPeers(c)
      PROVE  TypeOK'
  <2>1. c[1] \in Node
    BY NetAssumption
  <2>2. [type |-> "getblocks", from |-> Height(c[1]) + 1] \in Message
    BY <2>1, HeightType DEF Message
  <2>3. wire' \in [End -> Seq(Message)]
    BY <1>2, <2>2, WrittenType DEF SyncFromPeers
  <2> QED
    BY <1>2, <2>3 DEF SyncFromPeers
<1>3. ASSUME NEW e \in End, HandshakeDone(e)
      PROVE  TypeOK'
  <2>1. wire' \in [End -> Seq(Message)]
    BY <1>3, ConsumeType DEF HandshakeDone, Reads
  <2>2. peers' \in [Node -> [Node -> Peer \cup {NoPeer}]]
    BY <1>3, RegisterType DEF HandshakeDone
  <2>3. e[1] \in Dials
    BY DEF End
  <2> QED
    BY <1>3, <2>1, <2>2, <2>3 DEF HandshakeDone
<1>4. ASSUME NEW e \in End, Close(e)
      PROVE  TypeOK'
  BY <1>4 DEF Close
<1>5. ASSUME NEW e \in End, HandleHello(e)
      PROVE  TypeOK'
  <2> DEFINE w == IF Owner(e) \in Answers /\ e[2] = "seed"
                  THEN Written({Other(e)}, Hello(Owner(e))) ELSE wire
  <2>1. w \in [End -> Seq(Message)]
    BY EndType, HelloType, WrittenType
  <2>2. Consume(e, w) /\ wire[e] # <<>>
    BY <1>5 DEF HandleHello, Reads
  <2> HIDE DEF w
  <2>3. wire' \in [End -> Seq(Message)]
    BY <2>1, <2>2, ConsumeType
  <2>4. peers' \in [Node -> [Node -> Peer \cup {NoPeer}]]
    BY <1>5, RegisterType DEF HandleHello
  <2> QED
    BY <1>5, <2>3, <2>4 DEF HandleHello
<1>6. ASSUME NEW e \in End, HandleGetBlocks(e)
      PROVE  TypeOK'
  <2>1. wire' \in [End -> Seq(Message)]
    BY <1>6, ConsumeType DEF HandleGetBlocks, Reads
  <2>2. wire[e] \in Seq(Message) /\ wire[e] # <<>> /\ Head(wire[e]).type = "getblocks"
    BY <1>6 DEF HandleGetBlocks, Reads
  <2>3. Head(wire[e]).from \in Nat \ {0}
    BY <2>2, MessageFields
  <2>4. BlocksFrom(Owner(e), Head(wire[e]).from) \in Seq(Block)
    BY <2>3, EndType, BlocksFromType
  <2>5. <<BlocksFrom(Owner(e), Head(wire[e]).from)>> \in Seq(Seq(Block))
    BY <2>4
  <2>6. reply' \in [End -> Seq(Seq(Block))]
    BY <1>6, <2>5 DEF HandleGetBlocks
  <2> QED
    BY <1>6, <2>1, <2>6 DEF HandleGetBlocks
<1>7. ASSUME NEW e \in End, HandleBlocks(e)
      PROVE  TypeOK'
  <2>1. wire' \in [End -> Seq(Message)]
    BY <1>7, ConsumeType DEF HandleBlocks, Reads
  <2>2. wire[e] \in Seq(Message) /\ wire[e] # <<>> /\ Head(wire[e]).type = "blocks"
    BY <1>7 DEF HandleBlocks, Reads
  <2>3. Head(wire[e]).blocks \in Seq(Block)
    BY <2>2, MessageFields
  <2> QED
    BY <1>7, <2>1, <2>3 DEF HandleBlocks
<1>8. ASSUME NEW e \in End, HandleTx(e)
      PROVE  TypeOK'
  <2>1. wire' \in [End -> Seq(Message)]
    BY <1>8, ConsumeType DEF HandleTx, Reads
  <2> QED
    BY <1>8, <2>1 DEF HandleTx
<1>9. ASSUME NEW e \in End, WriteBlocks(e)
      PROVE  TypeOK'
  <2>1. Head(reply[e]) \in Seq(Block)
    BY <1>9 DEF WriteBlocks
  <2>2. [type |-> "blocks", blocks |-> Head(reply[e])] \in Message
    BY <2>1 DEF Message
  <2>3. wire' \in [End -> Seq(Message)]
    BY <1>9, <2>2, WrittenType DEF WriteBlocks
  <2>4. <<>> \in Seq(Seq(Block))
    OBVIOUS
  <2>5. reply' \in [End -> Seq(Seq(Block))]
    BY <1>9, <2>4 DEF WriteBlocks
  <2> QED
    BY <1>9, <2>3, <2>5 DEF WriteBlocks
<1>10. ASSUME NEW e \in End, ApplyNext(e)
       PROVE  TypeOK'
  <2>1. todo[e] \in Seq(Block) /\ todo[e] # <<>> /\ Owner(e) \in Node
    BY <1>10, EndType DEF ApplyNext
  <2>2. Head(todo[e]) \in Block /\ Tail(todo[e]) \in Seq(Block)
    BY <2>1
  <2>3. todo' \in [End -> Seq(Block)]
    BY <1>10, <2>2 DEF ApplyNext
  <2>4. Append(chain[Owner(e)], Head(todo[e]).hash) \in Seq(Hash)
        /\ Append(chain[Owner(e)], Head(todo[e]).hash) # <<>>
    BY <2>1, <2>2, Appended DEF Block
  <2>5. chain' \in [Node -> Seq(Hash)] /\ \A n \in Node : chain'[n] # <<>>
    BY <1>10, <2>1, <2>4 DEF ApplyNext
  <2> QED
    BY <1>10, <2>3, <2>5 DEF ApplyNext
<1>11. ASSUME NEW n \in Node, Mine(n)
       PROVE  TypeOK'
  <2> DEFINE h == <<n, Height(n) + 1>>
             b == [idx |-> Height(n) + 1, hash |-> h, prev |-> TipHash(n)]
  <2>0. Height(n) \in Nat /\ TipHash(n) \in Hash
    BY <1>11, HeightType
  <2>1. h \in Hash
    <3>1. h \in Node \X Nat
      BY <1>11, <2>0
    <3> QED
      BY <3>1 DEF Hash
  <2>2. <<b>> \in Seq(Block)
    <3> HIDE DEF h
    <3>1. b \in Block
      BY <2>0, <2>1 DEF Block
    <3> QED
      BY <3>1
  <2>3. Append(chain[n], h) \in Seq(Hash) /\ Append(chain[n], h) # <<>>
    BY <1>11, <2>1, Appended
  <2>4. chain' = [chain EXCEPT ![n] = Append(@, h)] /\ unsent' = [unsent EXCEPT ![n] = <<b>>]
    BY <1>11 DEF Mine
  <2> HIDE DEF b, h
  <2>5. chain' \in [Node -> Seq(Hash)] /\ \A p \in Node : chain'[p] # <<>>
    BY <2>3, <2>4
  <2>6. unsent' \in [Node -> Seq(Block)]
    BY <2>2, <2>4
  <2> QED
    BY <1>11, <2>5, <2>6 DEF Mine
<1>12. ASSUME NEW n \in Node, BroadcastBlock(n)
       PROVE  TypeOK'
  <2>1. [type |-> "blocks", blocks |-> unsent[n]] \in Message
    BY DEF Message
  <2>2. wire' \in [End -> Seq(Message)]
    BY <1>12, <2>1, WrittenType DEF BroadcastBlock
  <2> QED
    BY <1>12, <2>2 DEF BroadcastBlock
<1>13. ASSUME NEW n \in Node, BroadcastTx(n)
       PROVE  TypeOK'
  <2>1. [type |-> "tx"] \in Message
    BY DEF Message
  <2>2. wire' \in [End -> Seq(Message)]
    BY <1>13, <2>1, WrittenType DEF BroadcastTx
  <2> QED
    BY <1>13, <2>2 DEF BroadcastTx
<1>14. CASE UNCHANGED vars
  BY <1>14 DEF vars
<1> QED
  BY <1>1, <1>2, <1>3, <1>4, <1>5, <1>6, <1>7, <1>8, <1>9, <1>10, <1>11, <1>12,
     <1>13, <1>14 DEF Next, HandleConn

LEMMA TypeInit == Init => TypeOK
<1> SUFFICES ASSUME Init PROVE TypeOK
  OBVIOUS
<1>1. \A n \in Node : <<Genesis[n]>> \in Seq(Hash) /\ <<Genesis[n]>> # <<>>
  BY DEF Hash
<1> QED
  BY <1>1 DEF Init, TypeOK

\* Every variable keeps its type, for any topology.
THEOREM NetTypes == Spec => []TypeOK
BY TypeInit, TypeStep, PTL DEF Spec

(***************************************************************************)
(* Isolated is not inductive: it needs what is on the wires.               *)
(***************************************************************************)

\* The two ends of a connection to a seed that does not answer.
Quiet(e) == e[1][2] \notin Answers

SeedMessage == {m \in Message : m.type \in {"hello", "lost"}}
DialerMessage == {m \in Message : m.type \in {"getblocks", "blocks", "tx", "lost"}}
QuietMessage(e) == IF e[2] = "dialer" THEN DialerMessage ELSE SeedMessage

\* No hello is on its way to a quiet dialer, and nothing but hellos to its seed.
QuietWires(w) == \A e \in End : Quiet(e) => w[e] \in Seq(QuietMessage(e))

\* A quiet dialer never gets past its handshake.
QuietEnds ==
    \A e \in End : Quiet(e) => at[e] # (IF e[2] = "dialer" THEN "loop" ELSE "handshake")

\* A quiet connection is registered by its accepting end only, and neither end
\* has anything to apply or to answer.
QuietInv ==
    /\ \A c \in booting : c[2] \in Answers
    /\ \A e \in End : Quiet(e) => todo[e] = <<>> /\ reply[e] = <<>>
    /\ \A n, p \in Node :
          peers[n][p] # NoPeer /\ Quiet(peers[n][p].end) => peers[n][p].end[2] = "seed"

IsolatedInv == QuietWires(wire) /\ QuietEnds /\ QuietInv /\ Isolated

LEMMA Sides ==
    \A e \in End : /\ e[2] \in {"dialer", "seed"}
                   /\ e[2] = "seed" => Other(e)[2] = "dialer"
                   /\ Other(e)[1] = e[1]
                   /\ Quiet(Other(e)) <=> Quiet(e)
                   /\ e[1] \in Dials
BY DEF End, Other, Quiet

\* The owner of an end that is not quiet is not silent.
LEMMA SilentEnds ==
    ASSUME NEW e \in End, ~Quiet(e)
    PROVE  ~Silent(Owner(e))
BY Sides DEF Quiet, Silent, Owner

\* A message of a broadcast goes to quiet ends only if they are dialing ends.
LEMMA ReachedDialers ==
    ASSUME TypeOK, QuietInv, NEW n \in Node, NEW P, P \subseteq PeersOf(n)
    PROVE  \A e \in Reached(n, P) : e \in End /\ (Quiet(e) => e[2] = "dialer")
<1>1. ASSUME NEW p \in P
      PROVE  /\ Other(peers[n][p].end) \in End
             /\ Quiet(Other(peers[n][p].end)) => Other(peers[n][p].end)[2] = "dialer"
  <2>1. p \in Node /\ peers[n][p] # NoPeer
    BY <1>1 DEF PeersOf
  <2>2. peers[n][p] \in Peer
    BY <2>1 DEF TypeOK
  <2>3. peers[n][p].end \in End
    BY <2>2 DEF Peer
  <2> QED
    BY <2>1, <2>3, EndType, Sides DEF QuietInv
<1> QED
  BY <1>1 DEF Reached

LEMMA WrittenWires ==
    ASSUME QuietWires(wire), NEW ends, NEW m,
           \A e \in ends : Quiet(e) => e[2] = "dialer" /\ m \in DialerMessage
    PROVE  QuietWires(Written(ends, m))
<1> SUFFICES ASSUME NEW e \in End, Quiet(e)
             PROVE  Written(ends, m)[e] \in Seq(QuietMessage(e))
  BY DEF QuietWires
<1>1. Written(ends, m)[e] = IF e \in ends /\ Open(e) THEN Append(wire[e], m) ELSE wire[e]
  BY DEF Written
<1>2. wire[e] \in Seq(QuietMessage(e))
  BY DEF QuietWires
<1>3. CASE e \in ends
  <2>1. m \in QuietMessage(e)
    BY <1>3 DEF QuietMessage
  <2>2. Append(wire[e], m) \in Seq(QuietMessage(e))
    BY <1>2, <2>1, Appended
  <2> QED
    BY <1>1, <1>2, <2>2
<1>4. CASE e \notin ends
  BY <1>1, <1>2, <1>4
<1> QED
  BY <1>3, <1>4

\* What a quiet end reads: a seed hellos, a dialer anything else.
LEMMA QuietReads ==
    ASSUME QuietWires(wire), NEW e \in End, Quiet(e), NEW type, Reads(e, type)
    PROVE  /\ type = "hello" => e[2] = "seed"
           /\ e[2] = "seed" => type \in {"hello", "lost"}
<1>1. wire[e] \in Seq(QuietMessage(e)) /\ wire[e] # <<>> /\ Head(wire[e]).type = type
  BY DEF QuietWires, Reads
<1>2. Head(wire[e]) \in QuietMessage(e)
  BY <1>1
<1> QED
  BY <1>1, <1>2, Sides DEF QuietMessage, DialerMessage, SeedMessage

LEMMA LoopReads ==
    ASSUME QuietWires(wire), QuietEnds, NEW e \in End, Quiet(e), at[e] = "loop",
           NEW type, Reads(e, type)
    PROVE  type \in {"hello", "lost"}
BY QuietReads, Sides DEF QuietEnds

LEMMA ConsumeWires ==
    ASSUME QuietWires(wire), NEW e \in End, wire[e] # <<>>,
           NEW w, QuietWires(w), w = [ee \in End |-> w[ee]], Consume(e, w)
    PROVE  QuietWires(wire')
<1>1. PICK rest \in Rests(wire[e]) : wire' = [w EXCEPT ![e] = rest]
  BY DEF Consume
<1>2. [type |-> "lost"] \in QuietMessage(e)
  BY DEF QuietMessage, DialerMessage, SeedMessage, Message
<1>3. Quiet(e) => rest \in Seq(QuietMessage(e))
  BY <1>1, <1>2, RestsType DEF QuietWires
<1>4. \A ee \in End : wire'[ee] = IF ee = e THEN rest ELSE w[ee]
  BY <1>1
<1> QED
  BY <1>3, <1>4 DEF QuietWires

\* A connection is registered for its own end.
LEMMA Registered ==
    ASSUME TypeOK, QuietInv, NEW e \in End, Quiet(e) => e[2] = "seed", Register(e)
    PROVE  \A n, p \in Node :
              peers'[n][p] # NoPeer /\ Quiet(peers'[n][p].end) => peers'[n][p].end[2] = "seed"
<1>1. SUFFICES ASSUME NEW n \in Node, NEW p \in Node, peers'[n][p] # NoPeer
               PROVE  Quiet(peers'[n][p].end) => peers'[n][p].end[2] = "seed"
  OBVIOUS
<1>2. CASE peers'[n][p] = peers[n][p]
  BY <1>1, <1>2 DEF QuietInv
<1>3. CASE peers'[n][p] = [end |-> e, height |-> Head(wire[e]).height]
  BY <1>3
<1> QED
  BY <1>1, <1>2, <1>3 DEF Register, TypeOK

LEMMA QuietStep ==
    ASSUME TypeOK, IsolatedInv, [Next]_vars
    PROVE  QuietWires(wire)' /\ QuietEnds' /\ QuietInv'
<1> USE DEF IsolatedInv
<1>0. wire = [ee \in End |-> wire[ee]] /\ \A ends, m : Written(ends, m) = [ee \in End |-> Written(ends, m)[ee]]
  BY DEF TypeOK, Written
<1>1. ASSUME NEW c \in Dials, Dial(c)
      PROVE  QuietWires(wire)' /\ QuietEnds' /\ QuietInv'
  <2> DEFINE d == <<c, "dialer">>
             s == <<c, "seed">>
  <2>1. d \in End /\ s \in End /\ d # s /\ s[2] = "seed" /\ d[2] = "dialer" /\ c[1] \in Node
    BY <1>1, NetAssumption DEF End
  <2>2. Hello(c[1]) \in SeedMessage
    BY <2>1, HelloType DEF SeedMessage
  <2>3. <<Hello(c[1])>> \in Seq(QuietMessage(s))
    BY <2>1, <2>2 DEF QuietMessage
  <2>4. wire' = [wire EXCEPT ![s] = <<Hello(c[1])>>]
        /\ at' = [at EXCEPT ![d] = "handshake", ![s] = "loop"]
    BY <1>1 DEF Dial
  <2> HIDE DEF d, s
  <2>5. QuietWires(wire')
    BY <2>1, <2>3, <2>4 DEF QuietWires, TypeOK
  <2>6. QuietEnds'
    BY <2>1, <2>4 DEF QuietEnds, TypeOK
  <2> QED
    BY <1>1, <2>5, <2>6 DEF Dial, QuietInv
<1>2. ASSUME NEW c \in Dials, SyncFromPeers(c)
      PROVE  QuietWires(wire)' /\ QuietEnds' /\ QuietInv'
  <2> DEFINE n == c[1]
             higher == {p \in PeersOf(n) : peers[n][p].height > Height(n)}
             m == [type |-> "getblocks", from |-> Height(n) + 1]
  <2>1. n \in Node
    BY <1>2, NetAssumption
  <2>2. m \in DialerMessage
    BY <2>1, HeightType DEF DialerMessage, Message
  <2>3. \A e \in Reached(n, higher) : e \in End /\ (Quiet(e) => e[2] = "dialer")
    BY <2>1, ReachedDialers
  <2>4. wire' = Written(Reached(n, higher), m)
    BY <1>2 DEF SyncFromPeers
  <2>5. QuietWires(wire')
    BY <2>2, <2>3, <2>4, WrittenWires
  <2> QED
    BY <1>2, <2>5 DEF SyncFromPeers, QuietInv, QuietEnds
<1>3. ASSUME NEW e \in End, HandshakeDone(e)
      PROVE  QuietWires(wire)' /\ QuietEnds' /\ QuietInv'
  <2>1. Reads(e, "hello") /\ at[e] = "handshake" /\ Consume(e, wire) /\ Register(e)
        /\ at' = [at EXCEPT ![e] = "loop"] /\ booting' = booting \cup {e[1]}
    BY <1>3 DEF HandshakeDone
  <2>2. ~Quiet(e)
    BY <2>1, QuietReads DEF QuietEnds
  <2>3. QuietWires(wire')
    BY <1>0, <2>1, ConsumeWires DEF Reads
  <2>4. QuietEnds'
    BY <2>1, <2>2 DEF QuietEnds, TypeOK
  <2>5. e[1][2] \in Answers
    BY <2>2 DEF Quiet
  <2>6. QuietInv'
    BY <1>3, <2>1, <2>2, <2>5, Registered DEF HandshakeDone, QuietInv
  <2> QED
    BY <2>3, <2>4, <2>6
<1>4. ASSUME NEW e \in End, Close(e)
      PROVE  QuietWires(wire)' /\ QuietEnds' /\ QuietInv'
  <2>1. QuietWires(wire')
    <3>1. <<>> \in Seq(QuietMessage(e))
      OBVIOUS
    <3> QED
      BY <1>4, <3>1 DEF Close, QuietWires, TypeOK
  <2>2. QuietEnds'
    BY <1>4 DEF Close, QuietEnds, TypeOK
  <2> QED
    BY <1>4, <2>1, <2>2 DEF Close, QuietInv
<1>5. ASSUME NEW e \in End, HandleHello(e)
      PROVE  QuietWires(wire)' /\ QuietEnds' /\ QuietInv'
  <2> DEFINE w == IF Owner(e) \in Answers /\ e[2] = "seed"
                  THEN Written({Other(e)}, Hello(Owner(e))) ELSE wire
  <2>1. Consume(e, w) /\ at' = at /\ wire[e] # <<>> /\ Reads(e, "hello") /\ Register(e)
    BY <1>5 DEF HandleHello, Reads
  <2>2. QuietWires(w)
    <3>1. CASE Owner(e) \in Answers /\ e[2] = "seed"
      <4>1. ~Quiet(Other(e))
        BY <3>1, Sides DEF Owner, Quiet
      <4> QED
        BY <3>1, <4>1, WrittenWires
    <3> QED
      BY <3>1
  <2>3. w = [ee \in End |-> w[ee]]
    BY <1>0
  <2> HIDE DEF w
  <2>4. QuietWires(wire')
    BY <2>1, <2>2, <2>3, ConsumeWires
  <2>5. Quiet(e) => e[2] = "seed"
    BY <2>1, QuietReads
  <2>6. QuietInv'
    BY <1>5, <2>1, <2>5, Registered DEF HandleHello, QuietInv
  <2> QED
    BY <2>1, <2>4, <2>6 DEF QuietEnds
<1>6. ASSUME NEW e \in End, HandleGetBlocks(e) \/ HandleBlocks(e) \/ HandleTx(e)
      PROVE  QuietWires(wire)' /\ QuietEnds' /\ QuietInv'
  <2>1. Consume(e, wire) /\ at' = at /\ wire[e] # <<>> /\ peers' = peers /\ booting' = booting
    BY <1>6 DEF HandleGetBlocks, HandleBlocks, HandleTx, Reads
  <2>2. QuietWires(wire')
    BY <1>0, <2>1, ConsumeWires
  <2>3. ~Quiet(e)
    BY <1>6, LoopReads DEF HandleGetBlocks, HandleBlocks, HandleTx
  <2>4. \A ee \in End : Quiet(ee) => todo'[ee] = todo[ee] /\ reply'[ee] = reply[ee]
    BY <1>6, <2>3 DEF HandleGetBlocks, HandleBlocks, HandleTx, TypeOK
  <2> QED
    BY <2>1, <2>2, <2>4 DEF QuietEnds, QuietInv
<1>7. ASSUME NEW e \in End, WriteBlocks(e)
      PROVE  QuietWires(wire)' /\ QuietEnds' /\ QuietInv'
  <2> DEFINE m == [type |-> "blocks", blocks |-> Head(reply[e])]
  <2>1. ~Quiet(Other(e)) /\ ~Quiet(e)
    BY <1>7, Sides DEF WriteBlocks, QuietInv
  <2>2. wire' = Written({Other(e)}, m)
    BY <1>7 DEF WriteBlocks
  <2>3. QuietWires(wire')
    BY <2>1, <2>2, WrittenWires
  <2> QED
    BY <1>7, <2>1, <2>3 DEF WriteBlocks, QuietEnds, QuietInv, TypeOK
<1>8. ASSUME NEW e \in End, ApplyNext(e)
      PROVE  QuietWires(wire)' /\ QuietEnds' /\ QuietInv'
  <2>1. ~Quiet(e)
    BY <1>8 DEF ApplyNext, QuietInv
  <2>2. \A ee \in End : Quiet(ee) => todo'[ee] = todo[ee]
    BY <1>8, <2>1 DEF ApplyNext, TypeOK
  <2> QED
    BY <1>8, <2>2 DEF ApplyNext, QuietEnds, QuietInv
<1>9. ASSUME NEW n \in Node, Mine(n)
      PROVE  QuietWires(wire)' /\ QuietEnds' /\ QuietInv'
  BY <1>9 DEF Mine, QuietWires, QuietEnds, QuietInv
<1>10. ASSUME NEW n \in Node, BroadcastBlock(n) \/ BroadcastTx(n)
       PROVE  QuietWires(wire)' /\ QuietEnds' /\ QuietInv'
  <2>1. \A e \in Reached(n, PeersOf(n)) : e \in End /\ (Quiet(e) => e[2] = "dialer")
    BY <1>10, ReachedDialers
  <2>2. [type |-> "tx"] \in DialerMessage
    BY DEF DialerMessage, Message
  <2>3. [type |-> "blocks", blocks |-> unsent[n]] \in DialerMessage
    BY <1>10 DEF DialerMessage, Message, TypeOK
  <2>4. PICK m \in DialerMessage : wire' = Written(Reached(n, PeersOf(n)), m)
    BY <1>10, <2>2, <2>3 DEF BroadcastBlock, BroadcastTx
  <2>5. QuietWires(wire')
    BY <2>1, <2>4, WrittenWires
  <2> QED
    BY <1>10, <2>5 DEF BroadcastBlock, BroadcastTx, QuietEnds, QuietInv
<1>11. CASE UNCHANGED vars
  BY <1>11 DEF vars, QuietWires, QuietEnds, QuietInv
<1> QED
  BY <1>1, <1>2, <1>3, <1>4, <1>5, <1>6, <1>7, <1>8, <1>9, <1>10, <1>11
     DEF Next, HandleConn

\* Only mining and ApplyNext change a chain, and no silent node has blocks to apply.
LEMMA IsolatedStep ==
    ASSUME TypeOK, IsolatedInv, [Next]_vars
    PROVE  Isolated'
<1> USE DEF IsolatedInv
<1>1. ASSUME NEW n \in Node, Mine(n)
      PROVE  Isolated'
  <2>1. chain[n] \in Seq(Hash) /\ chain[n] # <<>>
    BY <1>1 DEF TypeOK
  <2>2. chain' = [chain EXCEPT ![n] = Append(@, <<n, Height(n) + 1>>)]
    BY <1>1 DEF Mine
  <2>3. Len(chain[n]) \in Nat /\ Len(chain[n]) = Height(n) + 1
    BY <2>1 DEF Height
  <2>4. Len(chain'[n]) = Len(chain[n]) + 1
        /\ chain'[n][Len(chain[n]) + 1] = <<n, Height(n) + 1>>
        /\ \A i \in 1..Len(chain[n]) : chain'[n][i] = chain[n][i]
    BY <1>1, <2>1, <2>2 DEF TypeOK
  <2>5. \A p \in Node : p # n => chain'[p] = chain[p]
    BY <2>2 DEF TypeOK
  <2>6. ASSUME NEW p \in Node, Silent(p), NEW i \in 1..Height(p)'
        PROVE  chain'[p][i + 1] = <<p, i>>
    <3>1. CASE p # n
      BY <2>5, <2>6, <3>1 DEF Isolated, Height
    <3>2. CASE p = n /\ i = Height(n) + 1
      BY <2>3, <2>4, <3>2
    <3>3. CASE p = n /\ i # Height(n) + 1
      <4>1. i \in 1..Height(n) /\ i + 1 \in 1..Len(chain[n])
        BY <2>3, <2>4, <2>6, <3>3 DEF Height
      <4> QED
        BY <1>1, <2>4, <2>6, <3>3, <4>1 DEF Isolated
    <3> QED
      BY <3>1, <3>2, <3>3
  <2> QED
    BY <2>6 DEF Isolated, Silent
<1>2. ASSUME NEW e \in End, ApplyNext(e)
      PROVE  Isolated'
  <2>1. ~Silent(Owner(e))
    BY <1>2, SilentEnds DEF ApplyNext, QuietInv
  <2>2. \A p \in Node : Silent(p) => chain'[p] = chain[p]
    BY <1>2, <2>1 DEF ApplyNext, TypeOK
  <2> QED
    BY <2>2 DEF Isolated, Silent, Height
<1>3. CASE chain' = chain
  BY <1>3 DEF Isolated, Silent, Height
<1>4. CASE UNCHANGED vars
  BY <1>3, <1>4 DEF vars
<1> QED
  BY <1>1, <1>2, <1>3, <1>4
     DEF Next, HandleConn, Dial, SyncFromPeers, HandshakeDone, Close, HandleHello,
         HandleGetBlocks, HandleBlocks, HandleTx, WriteBlocks, BroadcastBlock, BroadcastTx

LEMMA IsolatedInit == Init => IsolatedInv
<1> SUFFICES ASSUME Init PROVE IsolatedInv
  OBVIOUS
<1>1. QuietWires(wire) /\ QuietEnds /\ QuietInv
  BY DEF Init, QuietWires, QuietEnds, QuietInv
<1>2. ASSUME NEW n \in Node
      PROVE  Height(n) = 0
  <2>1. chain[n] = <<Genesis[n]>>
    BY <1>2 DEF Init
  <2>2. Len(chain[n]) = 1
    BY <2>1
  <2> QED
    BY <2>2 DEF Height
<1> QED
  BY <1>1, <1>2 DEF IsolatedInv, Isolated

\* A node that does not answer a hello, and dials only nodes that do not, never
\* has a block of another one, whatever the other nodes do.
THEOREM NeverSyncs == Spec => []Isolated
<1>1. TypeOK /\ IsolatedInv /\ [Next]_vars => (TypeOK /\ IsolatedInv)'
  BY TypeStep, QuietStep, IsolatedStep DEF IsolatedInv
<1>2. IsolatedInv => Isolated
  BY DEF IsolatedInv
<1> QED
  BY <1>1, <1>2, TypeInit, IsolatedInit, PTL DEF Spec

(***************************************************************************)
(* A hash belongs to one block: the one its node mined at its height and   *)
(* still has there, because a chain only gets longer.                      *)
(***************************************************************************)

\* The blocks that the node in their hash has, where it mined them.
MinedAt(b, m, i) == i \in 1..Height(m) /\ b = BlockAt(m, i) /\ b.hash = <<m, i>>
Mined == {b \in Block : \E m \in Node, i \in Nat : MinedAt(b, m, i)}

MinedMessage == {m \in Message : m.type = "blocks" => m.blocks \in Seq(Mined)}

\* All that is on its way was mined like that.
MinedInv ==
    /\ unsent \in [Node -> Seq(Mined)]
    /\ wire \in [End -> Seq(MinedMessage)]
    /\ todo \in [End -> Seq(Mined)] /\ reply \in [End -> Seq(Seq(Mined))]

\* So was every block of a chain above its genesis block.
ChainsMined ==
    \A n \in Node : /\ chain[n][1] = Genesis[n]
                    /\ \A i \in 1..Height(n) : BlockAt(n, i) \in Mined

\* SameBlockSamePast, at any height.
SamePast ==
    \A n, p \in Node, i \in Nat :
        i <= Height(n) /\ i <= Height(p) /\ chain[n][i + 1] = chain[p][i + 1] =>
            \A j \in 1..i : chain[n][j] = chain[p][j]

PastInv == ChainsMined /\ MinedInv /\ SamePast

LEMMA SameHash ==
    ASSUME NEW b \in Mined, NEW d \in Mined, b.hash = d.hash
    PROVE  b = d
<1>1. PICK m \in Node, i \in Nat : MinedAt(b, m, i)
  BY DEF Mined
<1>2. PICK p \in Node, j \in Nat : MinedAt(d, p, j)
  BY DEF Mined
<1> QED
  BY <1>1, <1>2 DEF MinedAt

LEMMA MinedWhere ==
    ASSUME NEW b \in Mined
    PROVE  \E m \in Node, i \in Nat :
              /\ i \in 1..Height(m) /\ b \in Block /\ b.hash = <<m, i>> /\ b.idx = i
              /\ b.hash = chain[m][i + 1] /\ b.prev = chain[m][i]
BY DEF Mined, MinedAt, BlockAt

LEMMA MoreInSeq ==
    ASSUME NEW S, NEW T, S \subseteq T, NEW s \in Seq(S)
    PROVE  s \in Seq(T)
OBVIOUS

\* A block on top of a chain.
LEMMA OnTop ==
    ASSUME TypeOK, NEW n \in Node, NEW L \in Nat, L = Height(n) + 1, NEW h \in Hash,
           chain' = [chain EXCEPT ![n] = Append(@, h)]
    PROVE  /\ Height(n)' = L /\ chain'[n][L + 1] = h
           /\ \A i \in 1..L : chain'[n][i] = chain[n][i]
           /\ \A p \in Node : p # n => chain'[p] = chain[p] /\ Height(p)' = Height(p)
           /\ \A p \in Node : \A i \in 1..Height(p) : i \in 1..Height(p)' /\ BlockAt(p, i)' = BlockAt(p, i)
           /\ Mined \subseteq Mined'
<1>1. chain[n] \in Seq(Hash) /\ chain'[n] = Append(chain[n], h) /\ Len(chain[n]) = L
  BY HeightType DEF TypeOK
<1>2. /\ Len(chain'[n]) = L + 1 /\ chain'[n][L + 1] = h
      /\ \A i \in 1..L : chain'[n][i] = chain[n][i]
  BY <1>1
<1>3. Height(n)' = L
  BY <1>2 DEF Height
<1>4. \A p \in Node : p # n => chain'[p] = chain[p] /\ Height(p)' = Height(p)
  BY DEF TypeOK, Height
<1>5. ASSUME NEW p \in Node, NEW i \in 1..Height(p)
      PROVE  i \in 1..Height(p)' /\ BlockAt(p, i)' = BlockAt(p, i)
  <2>1. CASE p = n
    <3>1. i \in 1..L /\ i + 1 \in 1..L
      BY <1>5, <2>1, HeightType
    <3> QED
      BY <1>2, <1>3, <2>1, <3>1 DEF BlockAt
  <2>2. CASE p # n
    BY <1>4, <1>5, <2>2 DEF BlockAt
  <2> QED
    BY <2>1, <2>2
<1>6. ASSUME NEW b \in Mined
      PROVE  b \in Mined'
  <2>1. PICK m \in Node, i \in Nat : MinedAt(b, m, i)
    BY DEF Mined
  <2>2. MinedAt(b, m, i)'
    BY <1>5, <2>1 DEF MinedAt
  <2> QED
    BY <2>1, <2>2 DEF Mined
<1> QED
  BY <1>2, <1>3, <1>4, <1>5, <1>6

\* The chain of a node goes on with a block whose hash no other chain has on
\* top of another block.
LEMMA ChainGoesOn ==
    ASSUME TypeOK, PastInv, NEW n \in Node, NEW L \in Nat, L = Height(n) + 1, NEW b \in Block,
           chain' = [chain EXCEPT ![n] = Append(@, b.hash)],
           b.idx = L, b.prev = TipHash(n), b \in Mined',
           \A p \in Node : L <= Height(p) /\ chain[p][L + 1] = b.hash => chain[p][L] = b.prev
    PROVE  ChainsMined' /\ SamePast'
<1>1. b.hash \in Hash
  BY DEF Block
<1>2. TipHash(n) = chain[n][L]
  BY HeightType DEF TipHash
<1>3. \A p \in Node : Height(p) \in Nat
  BY HeightType
<1>4. Height(n) = L - 1 /\ L >= 1
  BY <1>3
<1>5. /\ Height(n)' = L /\ chain'[n][L + 1] = b.hash
      /\ \A i \in 1..L : chain'[n][i] = chain[n][i]
  <2>1. Height(n)' = L
    BY <1>1, OnTop
  <2>2. chain'[n][L + 1] = b.hash
    BY <1>1, OnTop
  <2>3. \A i \in 1..L : chain'[n][i] = chain[n][i]
    BY <1>1, OnTop
  <2> QED
    BY <2>1, <2>2, <2>3
<1>6. \A p \in Node : p # n => chain'[p] = chain[p] /\ Height(p)' = Height(p)
  BY <1>1, OnTop
<1>7. \A p \in Node : \A i \in 1..Height(p) : BlockAt(p, i)' = BlockAt(p, i)
  BY <1>1, OnTop
<1>8. Mined \subseteq Mined'
  BY <1>1, OnTop
<1>9. BlockAt(n, L)' = b
  <2>1. b = [idx |-> b.idx, hash |-> b.hash, prev |-> b.prev]
    BY DEF Block
  <2>2. L \in 1..L
    BY <1>4
  <2>3. chain'[n][L] = b.prev
    BY <1>2, <1>5, <2>2
  <2> QED
    BY <1>5, <2>1, <2>3 DEF BlockAt
<1>10. ASSUME NEW p \in Node, NEW i \in 1..Height(p)'
       PROVE  BlockAt(p, i)' \in Mined'
  <2>1. CASE i \in 1..Height(p)
    BY <1>7, <1>8, <2>1 DEF PastInv, ChainsMined
  <2>2. CASE p = n /\ i = L
    BY <1>9, <2>2
  <2>3. CASE p = n
    <3>1. i \in 1..L
      BY <1>5, <1>10, <2>3
    <3>2. i \in 1..(L - 1) \/ i = L
      BY <1>4, <3>1
    <3> QED
      BY <1>4, <2>1, <2>2, <2>3, <3>2
  <2>4. CASE p # n
    BY <1>6, <1>10, <2>1, <2>4
  <2> QED
    BY <2>3, <2>4
<1>11. \A p \in Node : chain'[p][1] = Genesis[p]
  <2>1. 1 \in 1..L
    BY <1>4
  <2> QED
    BY <1>5, <1>6, <2>1 DEF PastInv, ChainsMined
<1>12. ASSUME NEW p \in Node, L <= Height(p), chain[p][L + 1] = b.hash
       PROVE  \A j \in 1..L : chain'[n][j] = chain[p][j]
  <2>1. chain[p][L] = chain[n][L]
    BY <1>2, <1>12
  <2>2. \A j \in 1..(L - 1) : chain[n][j] = chain[p][j]
    <3>1. L - 1 \in Nat /\ L - 1 <= Height(n) /\ L - 1 <= Height(p)
      BY <1>3, <1>4, <1>12
    <3>2. chain[n][L - 1 + 1] = chain[p][L - 1 + 1]
      BY <2>1
    <3> QED
      BY <3>1, <3>2 DEF PastInv, SamePast
  <2>3. \A j \in 1..L : j \in 1..(L - 1) \/ j = L
    BY <1>4
  <2> QED
    BY <1>5, <2>1, <2>2, <2>3
<1>13. ASSUME NEW p \in Node, p # n, NEW i \in Nat, i <= L, i <= Height(p),
              chain'[n][i + 1] = chain[p][i + 1]
       PROVE  \A j \in 1..i : chain'[n][j] = chain[p][j]
  <2>1. CASE i = L
    <3>1. L <= Height(p) /\ chain[p][L + 1] = b.hash
      BY <1>5, <1>13, <2>1
    <3> QED
      BY <1>12, <2>1, <3>1
  <2>2. CASE i # L
    <3>1. i <= Height(n) /\ i + 1 \in 1..L
      BY <1>4, <1>13, <2>2
    <3>2. chain[n][i + 1] = chain[p][i + 1]
      BY <1>5, <1>13, <3>1
    <3>3. \A j \in 1..i : chain[n][j] = chain[p][j]
      BY <1>13, <3>1, <3>2 DEF PastInv, SamePast
    <3>4. \A j \in 1..i : j \in 1..L
      BY <1>13
    <3> QED
      BY <1>5, <3>3, <3>4
  <2> QED
    BY <2>1, <2>2
<1>14. SamePast'
  <2> SUFFICES ASSUME NEW p \in Node, NEW q \in Node, NEW i \in Nat,
                      i <= Height(p)', i <= Height(q)', chain'[p][i + 1] = chain'[q][i + 1]
               PROVE  \A j \in 1..i : chain'[p][j] = chain'[q][j]
    BY DEF SamePast
  <2>1. CASE p = n /\ q # n
    <3>1. chain'[q] = chain[q] /\ i <= Height(q) /\ i <= L
      BY <1>5, <1>6, <2>1
    <3> QED
      BY <1>13, <2>1, <3>1
  <2>2. CASE q = n /\ p # n
    <3>1. chain'[p] = chain[p] /\ i <= Height(p) /\ i <= L
      BY <1>5, <1>6, <2>2
    <3>2. chain'[n][i + 1] = chain[p][i + 1]
      BY <2>2, <3>1
    <3> QED
      BY <1>13, <2>2, <3>1, <3>2
  <2>3. CASE p # n /\ q # n
    BY <1>6, <2>3 DEF PastInv, SamePast
  <2> QED
    BY <2>1, <2>2, <2>3
<1> QED
  BY <1>10, <1>11, <1>14 DEF ChainsMined

\* What was mined stays mined.
LEMMA MinedStays ==
    ASSUME MinedInv, Mined \subseteq Mined'
    PROVE  /\ unsent \in [Node -> Seq(Mined')] /\ wire \in [End -> Seq(MinedMessage')]
           /\ todo \in [End -> Seq(Mined')] /\ reply \in [End -> Seq(Seq(Mined'))]
<1>1. \A s \in Seq(Mined) : s \in Seq(Mined')
  BY MoreInSeq
<1>2. \A s \in Seq(Seq(Mined)) : s \in Seq(Seq(Mined'))
  <2>1. Seq(Mined) \subseteq Seq(Mined')
    BY <1>1
  <2> QED
    BY <2>1, MoreInSeq
<1>3. MinedMessage \subseteq MinedMessage'
  BY <1>1 DEF MinedMessage
<1>4. \A s \in Seq(MinedMessage) : s \in Seq(MinedMessage')
  BY <1>3, MoreInSeq
<1> QED
  BY <1>1, <1>2, <1>4 DEF MinedInv

LEMMA MineKeeps ==
    ASSUME TypeOK, PastInv, NEW n \in Node, Mine(n)
    PROVE  PastInv'
<1>1. PICK L \in Nat : L = Height(n) + 1
  BY HeightType
<1>2. L \in 1..L /\ TipHash(n) \in Hash /\ TipHash(n) = chain[n][L] /\ Height(n) < L
  BY <1>1, HeightType DEF TipHash
<1>3. <<n, L>> \in Hash
  <2>1. <<n, L>> \in Node \X Nat
    OBVIOUS
  <2> QED
    BY <2>1 DEF Hash
<1>4. PICK b \in Block : b = [idx |-> L, hash |-> <<n, L>>, prev |-> TipHash(n)]
  BY <1>2, <1>3 DEF Block
<1>5. /\ chain' = [chain EXCEPT ![n] = Append(@, b.hash)] /\ unsent' = [unsent EXCEPT ![n] = <<b>>]
      /\ UNCHANGED <<wire, todo, reply>>
  BY <1>1, <1>4 DEF Mine
<1>6. b.hash = <<n, L>> /\ b.idx = L /\ b.prev = TipHash(n) /\ b.hash \in Hash
  BY <1>3, <1>4
<1>7. /\ Height(n)' = L /\ chain'[n][L + 1] = b.hash /\ chain'[n][L] = TipHash(n)
      /\ Mined \subseteq Mined'
  BY <1>1, <1>2, <1>5, <1>6, OnTop
<1>8. b \in Mined'
  <2>1. b = BlockAt(n, L)'
    BY <1>4, <1>6, <1>7 DEF BlockAt
  <2>2. MinedAt(b, n, L)'
    BY <1>2, <1>6, <1>7, <2>1 DEF MinedAt
  <2> QED
    BY <2>2 DEF Mined
<1>9. ASSUME NEW p \in Node, L <= Height(p), chain[p][L + 1] = b.hash
      PROVE  FALSE
  <2>1. L \in 1..Height(p)
    BY <1>2, <1>9, HeightType
  <2>2. BlockAt(p, L) \in Mined /\ BlockAt(p, L).hash = <<n, L>>
    BY <1>6, <1>9, <2>1 DEF PastInv, ChainsMined, BlockAt
  <2>3. PICK m \in Node, i \in Nat : i \in 1..Height(m) /\ <<n, L>> = <<m, i>>
    BY <2>2, MinedWhere
  <2>4. L <= Height(n)
    BY <2>3
  <2> QED
    BY <1>1, <2>4, HeightType
<1>10. ChainsMined' /\ SamePast'
  BY <1>1, <1>5, <1>6, <1>8, <1>9, ChainGoesOn
<1>11. MinedInv'
  <2>1. <<b>> \in Seq(Mined')
    BY <1>8
  <2>2. unsent \in [Node -> Seq(Mined')]
    BY <1>7, MinedStays DEF PastInv
  <2>3. unsent' \in [Node -> Seq(Mined')]
    BY <1>5, <2>1, <2>2
  <2> QED
    BY <1>5, <1>7, <2>3, MinedStays DEF PastInv, MinedInv
<1> QED
  BY <1>10, <1>11 DEF PastInv

\* The hash of a mined block says at which height it is, in every chain.
LEMMA PlaceInHash ==
    ASSUME PastInv, NEW p \in Node, NEW j \in 1..Height(p)
    PROVE  \E q \in Node : chain[p][j + 1] = <<q, j>>
<1>1. BlockAt(p, j) \in Mined
  BY DEF PastInv, ChainsMined
<1>2. BlockAt(p, j).hash = chain[p][j + 1] /\ BlockAt(p, j).idx = j
  BY DEF BlockAt
<1> QED
  BY <1>1, <1>2, MinedWhere

\* So a block that is mined on the tip of a chain has the next index.
LEMMA PlaceOfTip ==
    ASSUME TypeOK, PastInv, NEW n \in Node, NEW L \in Nat, L = Height(n) + 1,
           NEW m \in Node, NEW i \in Nat, i \in 1..Height(m), chain[m][i] = chain[n][L]
    PROVE  i = L
<1>1. \A p \in Node : Genesis[p] \notin Node \X Nat
  BY NetAssumption
<1>2. Height(m) \in Nat /\ Height(n) \in Nat
  BY HeightType
<1>3. \A p \in Node : chain[p][1] = Genesis[p]
  BY DEF PastInv, ChainsMined
<1>4. i = 1 \/ \E k \in Nat, q \in Node : i = k + 1 /\ chain[m][i] = <<q, k>>
  <2> SUFFICES ASSUME i # 1 PROVE \E k \in Nat, q \in Node : i = k + 1 /\ chain[m][i] = <<q, k>>
    OBVIOUS
  <2>1. PICK k \in Nat : i = k + 1 /\ k \in 1..Height(m)
    BY <1>2
  <2> QED
    BY <2>1, PlaceInHash
<1>5. L = 1 \/ \E k \in Nat, q \in Node : L = k + 1 /\ chain[n][L] = <<q, k>>
  <2> SUFFICES ASSUME L # 1 PROVE \E k \in Nat, q \in Node : L = k + 1 /\ chain[n][L] = <<q, k>>
    OBVIOUS
  <2>1. PICK k \in Nat : L = k + 1 /\ k \in 1..Height(n)
    BY <1>2
  <2> QED
    BY <2>1, PlaceInHash
<1>6. CASE i = 1 /\ L # 1
  <2>1. PICK k \in Nat, q \in Node : chain[n][L] = <<q, k>>
    BY <1>5, <1>6
  <2>2. <<q, k>> = Genesis[m]
    BY <1>3, <1>6, <2>1
  <2> QED
    BY <1>1, <2>2
<1>7. CASE i # 1 /\ L = 1
  <2>1. PICK k \in Nat, q \in Node : chain[m][i] = <<q, k>>
    BY <1>4, <1>7
  <2>2. Genesis[n] = <<q, k>>
    BY <1>3, <1>7, <2>1
  <2>3. <<q, k>> \in Node \X Nat
    OBVIOUS
  <2>4. Genesis[n] \in Node \X Nat
    BY <2>2, <2>3
  <2> QED
    BY <1>1, <2>4
<1>8. CASE i # 1 /\ L # 1
  <2>1. PICK k \in Nat, q \in Node : i = k + 1 /\ chain[m][i] = <<q, k>>
    BY <1>4, <1>8
  <2>2. PICK l \in Nat, r \in Node : L = l + 1 /\ chain[n][L] = <<r, l>>
    BY <1>5, <1>8
  <2>3. k = l
    BY <2>1, <2>2
  <2> QED
    BY <2>1, <2>2, <2>3
<1> QED
  BY <1>6, <1>7, <1>8

LEMMA ApplyKeeps ==
    ASSUME TypeOK, PastInv, NEW e \in End, ApplyNext(e)
    PROVE  PastInv'
<1> DEFINE n == Owner(e)
           b == Head(todo[e])
<1>1. n \in Node /\ todo[e] \in Seq(Mined) /\ todo[e] # <<>>
  BY EndType DEF ApplyNext, PastInv, MinedInv
<1>2. b \in Mined /\ Tail(todo[e]) \in Seq(Mined)
  BY <1>1
<1>3. todo' \in [End -> Seq(Mined)]
  BY <1>1, <1>2 DEF ApplyNext, PastInv, MinedInv
<1>4. UNCHANGED <<unsent, wire, reply>>
  BY DEF ApplyNext
<1>5. CASE chain' = chain
  <2>1. Mined' = Mined /\ MinedMessage' = MinedMessage
    BY <1>5 DEF Mined, MinedAt, MinedMessage, BlockAt, Height
  <2> QED
    BY <1>3, <1>4, <1>5, <2>1 DEF PastInv, MinedInv, ChainsMined, SamePast, BlockAt, Height
<1>6. CASE /\ b.idx > Height(n) /\ b.prev = TipHash(n)
           /\ chain' = [chain EXCEPT ![n] = Append(@, b.hash)]
  <2>1. PICK L \in Nat : L = Height(n) + 1
    BY <1>1, HeightType
  <2>2. PICK m \in Node, i \in Nat :
           /\ i \in 1..Height(m) /\ b \in Block /\ b.hash = <<m, i>> /\ b.idx = i
           /\ b.hash = chain[m][i + 1] /\ b.prev = chain[m][i]
    BY <1>2, MinedWhere
  <2> HIDE DEF b, n
  <2>3. b.hash \in Hash /\ TipHash(n) = chain[n][L]
    BY <1>1, <2>1, <2>2, HeightType DEF Block, TipHash
  <2>4. b.idx = L
    BY <1>1, <1>6, <2>1, <2>2, <2>3, PlaceOfTip
  <2>5. Mined \subseteq Mined'
    BY <1>1, <1>6, <2>1, <2>3, OnTop
  <2>6. ASSUME NEW p \in Node, L <= Height(p), chain[p][L + 1] = b.hash
        PROVE  chain[p][L] = b.prev
    <3>1. L \in 1..Height(p)
      BY <1>1, <2>1, <2>6, HeightType
    <3>2. BlockAt(p, L) \in Mined
      BY <3>1 DEF PastInv, ChainsMined
    <3>3. BlockAt(p, L).hash = b.hash /\ BlockAt(p, L).prev = chain[p][L]
      BY <2>6 DEF BlockAt
    <3> QED
      BY <1>2, <3>2, <3>3, SameHash
  <2>7. ChainsMined' /\ SamePast'
    BY <1>1, <1>2, <1>6, <2>1, <2>2, <2>4, <2>5, <2>6, ChainGoesOn
  <2>8. MinedInv'
    <3>1. \A s \in Seq(Mined) : s \in Seq(Mined')
      BY <2>5, MoreInSeq
    <3> QED
      BY <1>3, <1>4, <2>5, <3>1, MinedStays DEF PastInv, MinedInv
  <2> QED
    BY <2>7, <2>8 DEF PastInv
<1>7. b.idx \in Nat /\ Height(n) \in Nat
  BY <1>1, <1>2, HeightType DEF Mined, Block
<1> QED
  BY <1>5, <1>6, <1>7 DEF ApplyNext, Verdict

\* What a node answers is of its chain.
LEMMA BlocksFromMined ==
    ASSUME TypeOK, PastInv, NEW n \in Node, NEW from \in Nat \ {0}
    PROVE  BlocksFrom(n, from) \in Seq(Mined)
<1> DEFINE m == Height(n) + 1 - from
<1>1. ASSUME NEW k \in 1..m
      PROVE  BlockAt(n, from + k - 1) \in Mined
  <2>1. from + k - 1 \in 1..Height(n)
    BY <1>1, HeightType
  <2> QED
    BY <2>1 DEF PastInv, ChainsMined
<1>2. BlocksFrom(n, from) \in [1..m -> Mined]
  BY <1>1 DEF BlocksFrom
<1>3. CASE m \in Nat
  BY <1>2, <1>3
<1>4. CASE m \notin Nat
  <2>1. 1..m = 1..0
    BY <1>4, HeightType
  <2>2. BlocksFrom(n, from) \in [1..0 -> Mined]
    BY <1>2, <2>1
  <2> QED
    BY <2>2
<1> QED
  BY <1>3, <1>4

LEMMA WrittenMined ==
    ASSUME wire \in [End -> Seq(MinedMessage)], NEW ends, NEW m \in MinedMessage
    PROVE  Written(ends, m) \in [End -> Seq(MinedMessage)]
<1>1. ASSUME NEW e \in End
      PROVE  (IF e \in ends /\ Open(e) THEN Append(wire[e], m) ELSE wire[e]) \in Seq(MinedMessage)
  <2>1. wire[e] \in Seq(MinedMessage) /\ Append(wire[e], m) \in Seq(MinedMessage)
    BY <1>1
  <2> QED
    BY <2>1
<1> QED
  BY <1>1 DEF Written

LEMMA ConsumeMined ==
    ASSUME wire \in [End -> Seq(MinedMessage)], NEW w \in [End -> Seq(MinedMessage)],
           NEW e \in End, wire[e] # <<>>, Consume(e, w)
    PROVE  wire' \in [End -> Seq(MinedMessage)]
<1>1. PICK rest \in Rests(wire[e]) : wire' = [w EXCEPT ![e] = rest]
  BY DEF Consume
<1>2. [type |-> "lost"] \in MinedMessage
  BY DEF Message, MinedMessage
<1>3. rest \in Seq(MinedMessage)
  BY <1>1, <1>2, RestsType
<1> QED
  BY <1>1, <1>3

LEMMA OtherMessages ==
    ASSUME NEW m \in Message, m.type # "blocks"
    PROVE  m \in MinedMessage
BY DEF MinedMessage

\* A step that leaves the chains alone sends on only what was mined.
LEMMA MessagesKeep ==
    ASSUME TypeOK, PastInv, [Next]_vars, chain' = chain,
           \A e \in End : ~ApplyNext(e)
    PROVE  /\ MinedInv
           /\ unsent' \in [Node -> Seq(Mined)] /\ wire' \in [End -> Seq(MinedMessage)]
           /\ todo' \in [End -> Seq(Mined)] /\ reply' \in [End -> Seq(Seq(Mined))]
<1> DEFINE Goal == /\ unsent' \in [Node -> Seq(Mined)] /\ wire' \in [End -> Seq(MinedMessage)]
                   /\ todo' \in [End -> Seq(Mined)] /\ reply' \in [End -> Seq(Seq(Mined))]
<1>0. MinedInv
  BY DEF PastInv
<1> USE DEF MinedInv
<1>1. ASSUME NEW c \in Dials, Dial(c)
      PROVE  Goal
  <2>1. <<c, "seed">> \in End /\ c[1] \in Node
    BY NetAssumption DEF End
  <2>2. Hello(c[1]) \in MinedMessage
    BY <2>1, HelloType, OtherMessages
  <2>3. <<Hello(c[1])>> \in Seq(MinedMessage)
    BY <2>2
  <2> QED
    BY <1>0, <1>1, <2>1, <2>3 DEF Dial
<1>2. ASSUME NEW c \in Dials, SyncFromPeers(c)
      PROVE  Goal
  <2>1. c[1] \in Node
    BY NetAssumption
  <2>2. [type |-> "getblocks", from |-> Height(c[1]) + 1] \in Message
    BY <2>1, HeightType DEF Message
  <2>3. [type |-> "getblocks", from |-> Height(c[1]) + 1] \in MinedMessage
    BY <2>2, OtherMessages
  <2>4. wire' \in [End -> Seq(MinedMessage)]
    BY <1>0, <1>2, <2>3, WrittenMined DEF SyncFromPeers
  <2> QED
    BY <1>0, <1>2, <2>4 DEF SyncFromPeers
<1>3. ASSUME NEW e \in End, HandshakeDone(e) \/ HandleTx(e)
      PROVE  Goal
  <2>1. wire' \in [End -> Seq(MinedMessage)]
    BY <1>0, <1>3, ConsumeMined DEF HandshakeDone, HandleTx, Reads
  <2> QED
    BY <1>0, <1>3, <2>1 DEF HandshakeDone, HandleTx
<1>4. ASSUME NEW e \in End, Close(e)
      PROVE  Goal
  BY <1>0, <1>4 DEF Close
<1>5. ASSUME NEW e \in End, HandleHello(e)
      PROVE  Goal
  <2> DEFINE w == IF Owner(e) \in Answers /\ e[2] = "seed"
                  THEN Written({Other(e)}, Hello(Owner(e))) ELSE wire
  <2>1. Hello(Owner(e)) \in MinedMessage
    BY EndType, HelloType, OtherMessages
  <2>2. w \in [End -> Seq(MinedMessage)]
    BY <1>0, <2>1, WrittenMined
  <2>3. Consume(e, w) /\ wire[e] # <<>>
    BY <1>5 DEF HandleHello, Reads
  <2> HIDE DEF w
  <2>4. wire' \in [End -> Seq(MinedMessage)]
    BY <1>0, <2>2, <2>3, ConsumeMined
  <2> QED
    BY <1>0, <1>5, <2>4 DEF HandleHello
<1>6. ASSUME NEW e \in End, HandleGetBlocks(e)
      PROVE  Goal
  <2>1. wire' \in [End -> Seq(MinedMessage)]
    BY <1>0, <1>6, ConsumeMined DEF HandleGetBlocks, Reads
  <2>2. wire[e] \in Seq(Message) /\ wire[e] # <<>> /\ Head(wire[e]).type = "getblocks"
    BY <1>6 DEF HandleGetBlocks, Reads, TypeOK
  <2>3. Head(wire[e]).from \in Nat \ {0}
    BY <2>2, MessageFields
  <2>4. BlocksFrom(Owner(e), Head(wire[e]).from) \in Seq(Mined)
    BY <2>3, EndType, BlocksFromMined
  <2>5. <<BlocksFrom(Owner(e), Head(wire[e]).from)>> \in Seq(Seq(Mined))
    BY <2>4
  <2>6. reply' \in [End -> Seq(Seq(Mined))]
    BY <1>0, <1>6, <2>5 DEF HandleGetBlocks
  <2> QED
    BY <1>0, <1>6, <2>1, <2>6 DEF HandleGetBlocks
<1>7. ASSUME NEW e \in End, HandleBlocks(e)
      PROVE  Goal
  <2>1. wire' \in [End -> Seq(MinedMessage)]
    BY <1>0, <1>7, ConsumeMined DEF HandleBlocks, Reads
  <2>2. wire[e] \in Seq(MinedMessage) /\ wire[e] # <<>> /\ Head(wire[e]).type = "blocks"
    BY <1>0, <1>7 DEF HandleBlocks, Reads
  <2>3. Head(wire[e]).blocks \in Seq(Mined)
    BY <2>2 DEF MinedMessage
  <2> QED
    BY <1>0, <1>7, <2>1, <2>3 DEF HandleBlocks
<1>8. ASSUME NEW e \in End, WriteBlocks(e)
      PROVE  Goal
  <2>1. Head(reply[e]) \in Seq(Mined) /\ Head(reply[e]) \in Seq(Block)
    BY <1>0, <1>8 DEF WriteBlocks, TypeOK
  <2>2. [type |-> "blocks", blocks |-> Head(reply[e])] \in MinedMessage
    BY <2>1 DEF Message, MinedMessage
  <2>3. wire' \in [End -> Seq(MinedMessage)]
    BY <1>0, <1>8, <2>2, WrittenMined DEF WriteBlocks
  <2>4. <<>> \in Seq(Seq(Mined))
    OBVIOUS
  <2> QED
    BY <1>0, <1>8, <2>3, <2>4 DEF WriteBlocks
<1>9. ASSUME NEW n \in Node, BroadcastBlock(n)
      PROVE  Goal
  <2>1. [type |-> "blocks", blocks |-> unsent[n]] \in MinedMessage
    BY <1>0 DEF Message, MinedMessage, TypeOK
  <2>2. wire' \in [End -> Seq(MinedMessage)]
    BY <1>0, <1>9, <2>1, WrittenMined DEF BroadcastBlock
  <2> QED
    BY <1>0, <1>9, <2>2 DEF BroadcastBlock
<1>10. ASSUME NEW n \in Node, BroadcastTx(n)
       PROVE  Goal
  <2>1. [type |-> "tx"] \in MinedMessage
    BY DEF Message, MinedMessage
  <2>2. wire' \in [End -> Seq(MinedMessage)]
    BY <1>0, <1>10, <2>1, WrittenMined DEF BroadcastTx
  <2> QED
    BY <1>0, <1>10, <2>2 DEF BroadcastTx
<1>11. ASSUME NEW n \in Node, Mine(n)
       PROVE  FALSE
  <2>1. chain[n] \in Seq(Hash) /\ chain'[n] = Append(chain[n], <<n, Height(n) + 1>>)
    BY <1>11 DEF Mine, TypeOK
  <2>2. <<n, Height(n) + 1>> \in Hash
    BY <1>11, HeightType DEF Hash
  <2> QED
    BY <1>11, <2>1, <2>2, OnTop, HeightType DEF Mine
<1>12. CASE UNCHANGED vars
  BY <1>0, <1>12 DEF vars
<1> QED
  BY <1>0, <1>1, <1>2, <1>3, <1>4, <1>5, <1>6, <1>7, <1>8, <1>9, <1>10, <1>11, <1>12
     DEF Next, HandleConn

LEMMA PastStep ==
    ASSUME TypeOK, PastInv, [Next]_vars
    PROVE  PastInv'
<1>1. CASE chain' = chain /\ \A e \in End : ~ApplyNext(e)
  <2>1. Mined' = Mined /\ MinedMessage' = MinedMessage
    BY <1>1 DEF Mined, MinedAt, MinedMessage, BlockAt, Height
  <2>2. MinedInv'
    BY <1>1, <2>1, MessagesKeep DEF MinedInv
  <2> QED
    BY <1>1, <2>1, <2>2 DEF PastInv, ChainsMined, SamePast, BlockAt, Height
<1>2. ASSUME chain' # chain, \A e \in End : ~ApplyNext(e)
      PROVE  \E n \in Node : Mine(n)
  BY <1>2 DEF Next, HandleConn, Dial, SyncFromPeers, HandshakeDone, Close, HandleHello, vars,
              HandleGetBlocks, HandleBlocks, HandleTx, WriteBlocks, BroadcastBlock, BroadcastTx
<1> QED
  BY <1>1, <1>2, MineKeeps, ApplyKeeps

LEMMA PastInit == Init => PastInv
<1> SUFFICES ASSUME Init PROVE PastInv
  OBVIOUS
<1>1. \A n \in Node : Height(n) = 0 /\ chain[n][1] = Genesis[n]
  <2> TAKE n \in Node
  <2>1. chain[n] = <<Genesis[n]>>
    BY DEF Init
  <2> QED
    BY <2>1 DEF Height
<1>2. ChainsMined /\ SamePast
  BY <1>1 DEF ChainsMined, SamePast
<1>3. MinedInv
  BY DEF Init, MinedInv
<1> QED
  BY <1>2, <1>3 DEF PastInv

\* However blocks are lost, reordered or applied while nodes mine, two chains
\* that have a block in common have everything below it in common.
THEOREM ChainsShareTheirPast == Spec => []SameBlockSamePast
<1>1. TypeOK /\ PastInv /\ [Next]_vars => (TypeOK /\ PastInv)'
  BY TypeStep, PastStep
<1>2. PastInv => SameBlockSamePast
  BY NetAssumption DEF PastInv, SamePast, SameBlockSamePast
<1> QED
  BY <1>1, <1>2, TypeInit, PastInit, PTL DEF Spec
=============================================================================
