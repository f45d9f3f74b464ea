-------------------------- MODULE OnexChainProofs --------------------------
(***************************************************************************)
(* Proofs about OnexChain: its types, the shape of the stored chain after  *)
(* any stop, that the account state is the tip's, that no transfer is      *)
(* executed twice, and where all money comes from and goes to, for any     *)
(* addresses, transfers, allocation and bounds.                            *)
(***************************************************************************)
EXTENDS OnexChain, FiniteSetTheorems, SumTheorems, TLAPS

(* The inductive invariant, in named parts. *)

\* A process that is down has nothing in memory.
DownInv ==
    ~running => phase = "idle" /\ height = 0 /\ pool = {} /\ validated = {}
                /\ dripping = NoTx /\ state = GenesisState

\* The holder of the lock builds on the tip.
LockInv ==
    /\ phase \in {"sim", "putblock"} =>
          /\ height < MaxHeight /\ disk[height] # NoBlock
          /\ blk.idx = height + 1 /\ blk.prev = disk[height].hash
    /\ phase = "putmeta" => height > 0
    /\ phase = "sim" => pos \in 1..Len(blk.txs) + 1

\* The miner and the holder of the lock agree on what the miner is doing.
MinerInv ==
    /\ own <=> mpc = "mining"
    /\ own => phase # "idle" /\ blk.txs = mtxs

ChainInv ==
    /\ \A i \in 0..MaxHeight : disk[i] # NoBlock => disk[i].idx = i
    /\ DurableChain /\ LiveChain

\* Hashes grow along the chain, and a block being executed has the newest.
HashInv ==
    /\ \A i \in 0..MaxHeight : disk[i] # NoBlock => disk[i].hash \in 1..hashes
    /\ \A i, j \in 0..metaDisk : i < j => disk[i].hash < disk[j].hash
    /\ running => \A i, j \in 0..height : i < j => disk[i].hash < disk[j].hash
    /\ phase \in {"sim", "putblock"} =>
          /\ blk.hash = hashes
          /\ \A i \in 0..MaxHeight : disk[i] # NoBlock => disk[i].hash < hashes

\* Every transaction of the chain has used its nonce.
NonceInv ==
    /\ running => \A i \in 1..height : \A k \in 1..Len(disk[i].txs) :
                     disk[i].txs[k].nonce < state[disk[i].txs[k].from].nonce
    /\ NoReplay

\* What the simulation has executed so far lies between the state and sim.
SimInv ==
    phase = "sim" =>
        /\ \A x \in Addr : state[x].nonce <= sim[x].nonce
        /\ \A k \in 1..pos - 1 :
              /\ state[blk.txs[k].from].nonce <= blk.txs[k].nonce
              /\ blk.txs[k].nonce < sim[blk.txs[k].from].nonce
        /\ \A k, l \in 1..pos - 1 : SameKey(blk.txs[k], blk.txs[l]) => k = l

\* A block whose effects are in bc.state repeats nothing of the chain.
CommitInv ==
    phase = "putblock" =>
        /\ \A k \in 1..Len(blk.txs) : blk.txs[k].nonce < state[blk.txs[k].from].nonce
        /\ \A k, l \in 1..Len(blk.txs) : SameKey(blk.txs[k], blk.txs[l]) => k = l
        /\ \A i \in 1..height : \A k \in 1..Len(disk[i].txs), l \in 1..Len(blk.txs) :
              ~SameKey(disk[i].txs[k], blk.txs[l])

IInv ==
    /\ TypeOK /\ DownInv /\ LockInv /\ MinerInv /\ ChainInv /\ HashInv
    /\ NonceInv /\ SimInv /\ CommitInv /\ StateMatchesTip /\ PoolNeverAhead

-----------------------------------------------------------------------------
(* Lemmas about the operators of the model. *)

LEMMA ModType == ASSUME NEW x \in Nat PROVE x % Word \in Nat
  BY ChainAssumption

\* A credit keeps the types and every nonce.
LEMMA CreditFacts ==
  ASSUME NEW s \in State, NEW a \in Addr, NEW n \in Nat
  PROVE  /\ Credit(s, a, n) \in State
         /\ \A x \in Addr : Credit(s, a, n)[x].nonce = s[x].nonce
<1>1. s[a].bal + n \in Nat
  BY DEF State, Account
<1>2. (s[a].bal + n) % Word \in Nat
  BY <1>1, ModType
<1>3. QED
  BY <1>2 DEF Credit, State, Account

\* A debit of an accepted transfer keeps the types and uses up its nonce.
LEMMA DebitFacts ==
  ASSUME NEW s \in State, NEW tx \in Tx, Accepts(s, tx)
  PROVE  /\ Debit(s, tx) \in State
         /\ \A x \in Addr : Debit(s, tx)[x].nonce =
               IF x = tx.from THEN s[x].nonce + 1 ELSE s[x].nonce
<1>1. Cost(tx) \in Nat
  BY ModType DEF Cost, Tx
<1>2. s[tx.from].bal - Cost(tx) \in Nat
  BY <1>1 DEF Accepts, State, Account, Tx
<1>3. QED
  BY <1>2 DEF Debit, State, Account, Tx

LEMMA AfterTxFacts ==
  ASSUME NEW s \in State, NEW tx \in Tx, NEW m \in Miners, Accepts(s, tx)
  PROVE  /\ AfterTx(s, tx, m) \in State
         /\ \A x \in Addr : AfterTx(s, tx, m)[x].nonce =
               IF x = tx.from THEN s[x].nonce + 1 ELSE s[x].nonce
<1> DEFINE d == Debit(s, tx)
           paid == Credit(d, tx.to, tx.amount)
<1>1. /\ d \in State
      /\ \A x \in Addr : d[x].nonce = IF x = tx.from THEN s[x].nonce + 1 ELSE s[x].nonce
  BY DebitFacts
<1>2. tx.to \in Addr /\ tx.amount \in Nat /\ tx.fee \in Nat
  BY DEF Tx
<1>3. paid \in State /\ \A x \in Addr : paid[x].nonce = d[x].nonce
  BY <1>1, <1>2, CreditFacts
<1>4. CASE tx.fee > 0 /\ m # NoMiner
  <2>1. m \in Addr
    BY <1>4 DEF Miners
  <2>2. AfterTx(s, tx, m) = Credit(paid, m, tx.fee)
    BY <1>4 DEF AfterTx
  <2>3. /\ Credit(paid, m, tx.fee) \in State
        /\ \A x \in Addr : Credit(paid, m, tx.fee)[x].nonce = paid[x].nonce
    BY <1>2, <1>3, <2>1, CreditFacts
  <2>4. QED
    BY <1>1, <1>3, <2>2, <2>3
<1>5. CASE ~(tx.fee > 0 /\ m # NoMiner)
  <2>1. AfterTx(s, tx, m) = paid
    BY <1>5 DEF AfterTx
  <2>2. QED
    BY <1>1, <1>3, <2>1
<1>6. QED
  BY <1>4, <1>5

LEMMA RewardFacts ==
  ASSUME NEW s \in State, NEW m \in Miners
  PROVE  /\ AfterReward(s, m) \in State
         /\ \A x \in Addr : AfterReward(s, m)[x].nonce = s[x].nonce
<1>1. CASE m = NoMiner \/ Reward = 0
  BY <1>1 DEF AfterReward
<1>2. CASE ~(m = NoMiner \/ Reward = 0)
  <2>1. m \in Addr /\ Reward \in Nat
    BY <1>2, ChainAssumption DEF Miners
  <2>2. QED
    BY <1>2, <2>1, CreditFacts DEF AfterReward
<1>3. QED
  BY <1>1, <1>2

LEMMA GenesisFacts ==
  /\ GenesisState \in State
  /\ \A h \in Nat : Genesis(h) \in Block
<1>1. GenesisState \in State
  BY ChainAssumption DEF GenesisState, State, Account
<1>2. QED
  BY <1>1 DEF Genesis, Block, Miners

\* The pool stays a finite set of transactions and only grows by one.
LEMMA PoolFacts ==
  ASSUME NEW p \in SUBSET Tx, IsFiniteSet(p), NEW tx \in Tx
  PROVE  /\ WithTx(p, tx) \subseteq Tx /\ IsFiniteSet(WithTx(p, tx))
         /\ p \subseteq WithTx(p, tx) /\ WithTx(p, tx) \subseteq p \cup {tx}
  BY FS_AddElement DEF WithTx

LEMMA TxFacts ==
  /\ \A tx \in Tx : tx.from \in Addr /\ tx.to \in Addr /\ tx.nonce \in Nat
  /\ \A w \in Wire \cup Block :
        w.txs \in Seq(Tx) /\ Len(w.txs) \in Nat /\ \A k \in 1..Len(w.txs) : w.txs[k] \in Tx
<1>1. \A w \in Wire \cup Block : w.txs \in Seq(Tx)
  BY DEF Wire, Block
<1>2. \A s \in Seq(Tx) : Len(s) \in Nat /\ \A k \in 1..Len(s) : s[k] \in Tx
  OBVIOUS
<1>3. QED
  BY <1>1, <1>2 DEF Tx

\* Pending returns transactions of the pool, and all of them if they fit.
LEMMA PendingFacts ==
  ASSUME NEW p \in SUBSET Tx, IsFiniteSet(p), NEW list \in PendingLists(p)
  PROVE  /\ list \in Seq(Tx)
         /\ Cardinality(p) <= MaxPending =>
               \A t \in p : \E i \in 1..Len(list) : list[i] = t
<1>1. PICK T \in SUBSET p :
         /\ list \in Orders(T)
         /\ Cardinality(T) = IF Cardinality(p) < MaxPending THEN Cardinality(p) ELSE MaxPending
  BY DEF PendingLists
<1>2. /\ IsFiniteSet(T) /\ Cardinality(T) \in Nat /\ Cardinality(p) \in Nat
      /\ Cardinality(T) = Cardinality(p) => T = p
  BY FS_Subset, FS_CardinalityType
<1>3. /\ list \in [1..Cardinality(T) -> T]
      /\ \A t \in T : \E i \in 1..Cardinality(T) : list[i] = t
  BY <1>1 DEF Orders
<1>4. list \in Seq(Tx) /\ Len(list) = Cardinality(T)
  BY <1>2, <1>3
<1>5. ASSUME Cardinality(p) <= MaxPending PROVE T = p
  BY <1>1, <1>2, <1>5, ChainAssumption
<1>6. QED
  BY <1>3, <1>4, <1>5

-----------------------------------------------------------------------------
(* The invariant holds at the start, and every action keeps it. *)

LEMMA InitInv == Init => IInv
<1> SUFFICES ASSUME Init PROVE IInv
  OBVIOUS
<1>1. /\ disk \in [0..MaxHeight -> Block \cup {NoBlock}]
      /\ disk[0] = Genesis(1) /\ \A i \in 1..MaxHeight : disk[i] = NoBlock
      /\ disk[0] # NoBlock
  BY GenesisFacts, ChainAssumption DEF Init
<1>2. TypeOK
  BY <1>1, GenesisFacts, ChainAssumption, FS_EmptySet DEF Init, TypeOK
<1>3. Genesis(1).idx = 0 /\ Genesis(1).hash = 1 /\ Genesis(1).root = GenesisState
  BY DEF Genesis
<1>4. ChainInv /\ HashInv
  BY <1>1, <1>3 DEF Init, ChainInv, HashInv, DurableChain, LiveChain
<1>5. NonceInv /\ StateMatchesTip /\ PoolNeverAhead
  BY <1>1, <1>3 DEF Init, NonceInv, NoReplay, StateMatchesTip, PoolNeverAhead
<1>6. DownInv /\ LockInv /\ MinerInv /\ SimInv /\ CommitInv
  BY DEF Init, DownInv, LockInv, MinerInv, SimInv, CommitInv
<1>7. QED
  BY <1>2, <1>4, <1>5, <1>6 DEF IInv

\* A step that leaves the store, the chain and the lock alone can disturb
\* only what relates to the pool and to the miner.
LEMMA ElsewhereInv ==
  ASSUME IInv, UNCHANGED <<storeVars, chainVars, lockVars>>,
         TypeOK', DownInv', MinerInv', PoolNeverAhead'
  PROVE  IInv'
<1> USE DEF storeVars, chainVars, lockVars
<1>1. LockInv' /\ ChainInv' /\ HashInv'
  BY DEF IInv, LockInv, ChainInv, HashInv, DurableChain, LiveChain, Linked
<1>2. NonceInv' /\ StateMatchesTip'
  BY DEF IInv, NonceInv, NoReplay, SameKey, StateMatchesTip
<1>3. SimInv' /\ CommitInv'
  BY DEF IInv, SimInv, CommitInv, SameKey
<1>4. QED
  BY <1>1, <1>2, <1>3 DEF IInv

LEMMA ValidateTxInv == ASSUME IInv, NEW tx \in Txs, ValidateTx(tx) PROVE IInv'
<1> USE DEF storeVars, chainVars, lockVars, mineVars, faucetVars
<1>1. TypeOK'
  BY DEF IInv, TypeOK, ValidateTx
<1>2. DownInv' /\ MinerInv'
  BY DEF IInv, DownInv, MinerInv, ValidateTx
<1>3. PoolNeverAhead'
  <2>1. tx \in Tx /\ tx.nonce \in Nat /\ tx.nonce <= state[tx.from].nonce
    BY ChainAssumption DEF ValidateTx, Accepts, Tx
  <2>2. QED
    BY <2>1 DEF IInv, PoolNeverAhead, ValidateTx
<1>4. QED
  BY <1>1, <1>2, <1>3, ElsewhereInv DEF ValidateTx

LEMMA AddTxInv == ASSUME IInv, NEW tx \in Txs, AddTx(tx) PROVE IInv'
<1> USE DEF storeVars, chainVars, lockVars, mineVars, faucetVars
<1>1. /\ tx \in Tx /\ pool' \subseteq Tx /\ IsFiniteSet(pool')
      /\ pool' \subseteq pool \cup {tx}
  BY ChainAssumption, PoolFacts DEF IInv, TypeOK, AddTx
<1>2. TypeOK'
  BY <1>1 DEF IInv, TypeOK, AddTx
<1>3. DownInv' /\ MinerInv'
  BY DEF IInv, DownInv, MinerInv, AddTx
<1>4. PoolNeverAhead'
  BY <1>1 DEF IInv, PoolNeverAhead, AddTx
<1>5. QED
  BY <1>2, <1>3, <1>4, ElsewhereInv DEF AddTx

LEMMA FaucetInv ==
  ASSUME IInv, (\E x \in Addr : DripBuild(x) \/ CooldownOver(x)) \/ DripSend
  PROVE  IInv'
<1> USE DEF storeVars, chainVars, lockVars, mineVars, poolVars
<1>1. CASE \E x \in Addr : DripBuild(x)
  <2> PICK x \in Addr : DripBuild(x)
    BY <1>1
  <2>1. FaucetTx(x) \in Tx /\ FaucetTx(x).nonce = state[Faucet].nonce
        /\ FaucetTx(x).from = Faucet
    BY ChainAssumption DEF IInv, TypeOK, State, Account, FaucetTx, Tx
  <2>2. TypeOK'
    BY <2>1 DEF IInv, TypeOK, DripBuild
  <2>3. state[Faucet].nonce \in Nat
    BY ChainAssumption DEF IInv, TypeOK, State, Account
  <2>4. DownInv' /\ MinerInv' /\ PoolNeverAhead'
    BY <2>1, <2>3 DEF IInv, DownInv, MinerInv, PoolNeverAhead, DripBuild
  <2>5. QED
    BY <2>2, <2>4, ElsewhereInv DEF DripBuild
<1>2. CASE \E x \in Addr : CooldownOver(x)
  <2>1. TypeOK' /\ DownInv' /\ MinerInv' /\ PoolNeverAhead'
    BY <1>2 DEF IInv, TypeOK, DownInv, MinerInv, PoolNeverAhead, CooldownOver
  <2>2. QED
    BY <1>2, <2>1, ElsewhereInv DEF CooldownOver
<1>3. CASE DripSend
  <2>1. /\ dripping \in Tx /\ pool' \subseteq Tx /\ IsFiniteSet(pool')
        /\ pool' \subseteq pool \cup {dripping}
    BY <1>3, PoolFacts DEF IInv, TypeOK, DripSend
  <2>2. TypeOK'
    BY <1>3, <2>1 DEF IInv, TypeOK, DripSend, Tx
  <2>3. DownInv' /\ MinerInv' /\ PoolNeverAhead'
    BY <1>3, <2>1 DEF IInv, DownInv, MinerInv, PoolNeverAhead, DripSend
  <2>4. QED
    BY <1>3, <2>2, <2>3, ElsewhereInv DEF DripSend
<1>4. QED
  BY <1>1, <1>2, <1>3

LEMMA MinerLoopInv == ASSUME IInv, MineTick \/ RemoveIncluded PROVE IInv'
<1> USE DEF storeVars, chainVars, lockVars, faucetVars, poolVars
<1>1. CASE MineTick
  <2>1. mtxs' \in Seq(Tx)
    BY <1>1, PendingFacts DEF IInv, TypeOK, MineTick
  <2>2. TypeOK' /\ DownInv' /\ MinerInv' /\ PoolNeverAhead'
    BY <1>1, <2>1 DEF IInv, TypeOK, DownInv, MinerInv, PoolNeverAhead, MineTick
  <2>3. QED
    BY <1>1, <2>2, ElsewhereInv DEF MineTick
<1>2. CASE RemoveIncluded
  <2>1. pool' \subseteq pool /\ IsFiniteSet(pool')
    BY <1>2, FS_Subset DEF IInv, TypeOK, RemoveIncluded, WithoutTxs
  <2>2. TypeOK' /\ DownInv' /\ MinerInv' /\ PoolNeverAhead'
    BY <1>2, <2>1 DEF IInv, TypeOK, DownInv, MinerInv, PoolNeverAhead, RemoveIncluded
  <2>3. QED
    BY <1>2, <2>2, ElsewhereInv DEF RemoveIncluded
<1>3. QED
  BY <1>1, <1>2

-----------------------------------------------------------------------------
(* Taking the lock. *)

LEMMA TipFacts ==
  ASSUME IInv, running, Tip # NoBlock
  PROVE  /\ disk[height] = Tip /\ Tip \in Block /\ Tip.idx = height
         /\ Tip.hash \in 1..hashes /\ height \in Nat
  BY ChainAssumption DEF IInv, TypeOK, Tip, ChainInv, HashInv

\* Only a block that extends the tip by one passes the checks.
LEMMA PeerWireFacts ==
  ASSUME IInv, running, Tip # NoBlock,
         NEW w \in PeerWires, Verdict(w, w.pow, Tip) = "apply"
  PROVE  /\ w \in Wire /\ w.idx = height + 1 /\ w.prev = Tip.hash
         /\ w.hash = hashes + 1
<1> DEFINE mined ==
      {v \in [idx : 1..height+2, hash : {hashes + 1},
              prev : {disk[i].hash : i \in 0..height} \cup {0},
              txs : UNION {[1..n -> Txs] : n \in 0..MaxPeerTxs},
              miner : {PeerMiner}, rootOk : BOOLEAN, pow : BOOLEAN] :
          v.prev # 0 => v.idx <= height + 1 /\ v.prev = disk[v.idx - 1].hash}
      again ==
      {[idx |-> i, hash |-> disk[i].hash, prev |-> disk[i].prev, txs |-> disk[i].txs,
        miner |-> disk[i].miner, rootOk |-> TRUE, pow |-> TRUE] : i \in 1..height}
<1>1. w \in mined \/ w \in again
  BY DEF PeerWires
<1>2. Tip.idx = height /\ Tip.hash \in Nat \ {0} /\ height \in Nat /\ hashes \in Nat
  BY TipFacts DEF IInv, TypeOK
<1>3. CASE w \in again
  <2>1. w.idx \in 1..height
    BY <1>3
  <2>2. QED
    BY <1>2, <2>1 DEF Verdict
<1>4. CASE w \in mined
  <2> HIDE DEF again
  <2>1. w.idx \in 1..height+2 /\ w.hash = hashes + 1
    BY <1>4
  <2>2. w.prev = Tip.hash
    BY <1>2, <2>1 DEF Verdict
  <2>3. w.idx <= height + 1
    BY <1>2, <1>4, <2>2
  <2>4. w.idx = height + 1
    BY <1>2, <2>1, <2>3 DEF Verdict
  <2>5. w.txs \in Seq(Tx)
    <3>1. PICK n \in 0..MaxPeerTxs : w.txs \in [1..n -> Txs]
      BY <1>4
    <3>2. n \in Nat /\ w.txs \in [1..n -> Tx]
      BY <3>1, ChainAssumption
    <3>3. QED
      BY <3>2
  <2>6. /\ w.miner \in Miners /\ w.rootOk \in BOOLEAN /\ w.pow \in BOOLEAN
        /\ w = [idx |-> w.idx, hash |-> w.hash, prev |-> w.prev, txs |-> w.txs,
                miner |-> w.miner, rootOk |-> w.rootOk, pow |-> w.pow]
    BY <1>4, ChainAssumption
  <2>7. w \in Wire
    BY <1>2, <2>1, <2>2, <2>4, <2>5, <2>6 DEF Wire
  <2>8. QED
    BY <2>1, <2>2, <2>4, <2>7
<1>5. QED
  BY <1>1, <1>3, <1>4

\* Whoever takes the lock with a block that extends the tip starts from the
\* state of the chain.
LEMMA ExecuteInv ==
  ASSUME IInv, running, phase = "idle", Tip # NoBlock, height < MaxHeight,
         NEW w \in Wire, NEW isOwn \in BOOLEAN, Execute(w, isOwn),
         w.idx = height + 1, w.prev = Tip.hash, w.hash = hashes + 1,
         hashes' = hashes + 1,
         UNCHANGED <<storeVars, running, state, tainted, poolVars, mtxs, faucetVars>>,
         mpc' = IF isOwn THEN "mining" ELSE mpc, isOwn => w.txs = mtxs
  PROVE  IInv'
<1> USE DEF storeVars, poolVars, faucetVars, Execute
<1>1. TypeOK'
  BY DEF IInv, TypeOK
<1>2. DownInv'
  BY DEF IInv, DownInv
<1>3. LockInv'
  <2>1. 1 \in 1..Len(w.txs) + 1
    BY DEF Wire
  <2>2. QED
    BY <2>1 DEF IInv, LockInv, Tip
<1>4. MinerInv'
  BY DEF IInv, MinerInv
<1>5. ChainInv'
  BY DEF IInv, ChainInv, DurableChain, LiveChain, Linked
<1>6. HashInv'
  BY DEF IInv, HashInv, TypeOK
<1>7. NonceInv' /\ StateMatchesTip' /\ PoolNeverAhead'
  <2>1. UNCHANGED <<disk, height, running, state, tainted, pool, validated, dripping>>
    OBVIOUS
  <2>2. NonceInv'
    BY <2>1 DEF IInv, NonceInv, NoReplay, SameKey
  <2>3. StateMatchesTip'
    BY <2>1 DEF IInv, StateMatchesTip
  <2>4. PoolNeverAhead'
    BY <2>1 DEF IInv, PoolNeverAhead
  <2>5. QED
    BY <2>2, <2>3, <2>4
<1>8. SimInv'
  <2>1. \A x \in Addr : state[x].nonce \in Nat
    BY DEF IInv, TypeOK, State, Account
  <2>2. QED
    BY <2>1 DEF SimInv
<1>9. CommitInv'
  BY DEF CommitInv
<1>10. QED
  BY <1>1, <1>2, <1>3, <1>4, <1>5, <1>6, <1>7, <1>8, <1>9 DEF IInv

LEMMA MineBeginInv == ASSUME IInv, MineBegin PROVE IInv'
<1> DEFINE w == [idx |-> Tip.idx + 1, hash |-> hashes + 1, prev |-> Tip.hash,
                 txs |-> mtxs, miner |-> Miner, rootOk |-> TRUE, pow |-> TRUE]
<1>1. running /\ phase = "idle" /\ Tip # NoBlock /\ height < MaxHeight
  BY DEF MineBegin
<1>2. Tip.idx = height /\ Tip.hash \in Nat /\ height \in Nat
  BY <1>1, TipFacts DEF IInv, TypeOK
<1>3. w \in Wire /\ w.idx = height + 1 /\ w.prev = Tip.hash /\ w.hash = hashes + 1
      /\ w.txs = mtxs
  BY <1>2, ChainAssumption DEF IInv, TypeOK, Wire
<1>4. Execute(w, TRUE)
  BY DEF MineBegin
<1> HIDE DEF w
<1>5. QED
  BY <1>1, <1>3, <1>4, ExecuteInv DEF MineBegin

LEMMA ReceiveBlockInv == ASSUME IInv, ReceiveBlock PROVE IInv'
<1>1. running /\ phase = "idle" /\ Tip # NoBlock /\ height < MaxHeight
  BY DEF ReceiveBlock
<1>2. PICK w \in PeerWires :
        IF Verdict(w, w.pow, Tip) = "apply"
        THEN Execute(w, FALSE) /\ hashes' = hashes + 1
        ELSE UNCHANGED <<lockVars, hashes>>
  BY DEF ReceiveBlock
<1>3. CASE Verdict(w, w.pow, Tip) = "apply"
  BY <1>1, <1>2, <1>3, PeerWireFacts, ExecuteInv DEF ReceiveBlock, mineVars
<1>4. CASE Verdict(w, w.pow, Tip) # "apply"
  <2>1. TypeOK' /\ DownInv' /\ MinerInv' /\ PoolNeverAhead'
    BY <1>2, <1>4 DEF ReceiveBlock, IInv, TypeOK, DownInv, MinerInv, PoolNeverAhead,
       storeVars, lockVars, poolVars, mineVars, faucetVars
  <2>2. UNCHANGED <<storeVars, chainVars, lockVars>>
    BY <1>2, <1>4 DEF ReceiveBlock, chainVars
  <2>3. QED
    BY <2>1, <2>2, ElsewhereInv
<1>5. QED
  BY <1>3, <1>4

\* A new genesis block, or what a failed write leaves of it.
LEMMA GenesisWritten ==
  ASSUME IInv, phase = "idle", running => height = 0 /\ (\A x \in Addr : state[x].nonce = 0), metaDisk = 0,
         hashes' = hashes + 1,
         NEW left \in {disk[0], NoBlock, Genesis(hashes + 1)},
         disk' = [disk EXCEPT ![0] = left],
         running' => left = Genesis(hashes + 1) \/ tainted',
         running => running', state' = GenesisState, tainted' \in BOOLEAN,
         running' \in BOOLEAN,
         UNCHANGED <<metaDisk, height, lockVars, poolVars, mineVars, faucetVars>>
  PROVE  IInv'
<1> USE DEF lockVars, poolVars, mineVars, faucetVars
<1>1. height = 0
  BY DEF IInv, DownInv, TypeOK
<1>2. Genesis(hashes + 1) \in Block /\ GenesisState \in State /\ 0 \in 0..MaxHeight
  BY GenesisFacts, ChainAssumption DEF IInv, TypeOK
<1>3. TypeOK'
  BY <1>2 DEF IInv, TypeOK
<1>4. DownInv' /\ LockInv' /\ MinerInv'
  BY DEF IInv, DownInv, LockInv, MinerInv
<1>5. left # NoBlock => left.idx = 0 /\ left.hash \in 1..hashes + 1
  BY <1>2 DEF IInv, ChainInv, HashInv, Genesis, TypeOK
<1>6. ChainInv'
  BY <1>1, <1>2, <1>5 DEF IInv, ChainInv, DurableChain, LiveChain, TypeOK
<1>7. HashInv'
  BY <1>1, <1>2, <1>5 DEF IInv, HashInv, TypeOK
<1>8. NonceInv' /\ SimInv' /\ CommitInv'
  BY <1>1 DEF NonceInv, NoReplay, SimInv, CommitInv
<1>9. StateMatchesTip'
  BY <1>1, <1>2 DEF StateMatchesTip, Genesis, IInv, TypeOK
<1>10. PoolNeverAhead'
  <2>1. \A x \in Addr : state'[x].nonce = 0
    BY DEF GenesisState
  <2>2. \A tx \in pool \cup validated : tx \in Tx
    BY ChainAssumption DEF IInv, TypeOK
  <2>3. \A tx \in pool \cup validated : running => tx.nonce <= 0
    BY <2>2 DEF IInv, PoolNeverAhead, Tx
  <2>4. dripping # NoTx => running /\ dripping \in Tx /\ dripping.nonce <= 0
    BY DEF IInv, PoolNeverAhead, DownInv, TypeOK, Tx
  <2>5. pool \cup validated # {} => running
    BY DEF IInv, DownInv
  <2>6. QED
    BY <2>1, <2>2, <2>3, <2>4, <2>5 DEF PoolNeverAhead, Tx
<1>11. QED
  BY <1>3, <1>4, <1>6, <1>7, <1>8, <1>9, <1>10 DEF IInv

LEMMA PeerGenesisFacts ==
  ASSUME IInv, PeerGenesis
  PROVE  /\ running /\ phase = "idle" /\ height = 0 /\ metaDisk = 0
         /\ \A x \in Addr : state[x].nonce = 0
         /\ AfterAlloc(state) = GenesisState
<1>1. running /\ phase = "idle" /\ Tip # NoBlock /\ AfterAlloc(state) = GenesisState
  BY DEF PeerGenesis
<1>2. Tip.idx = height /\ height \in Nat
  BY <1>1, TipFacts
<1>3. Genesis(hashes + 1).idx = 0
  BY DEF Genesis
<1>4. height = 0
  BY <1>2, <1>3 DEF PeerGenesis, Verdict
<1>5. metaDisk = 0
  BY <1>1, <1>4 DEF IInv, ChainInv, LiveChain, TypeOK
<1>6. ASSUME NEW x \in Addr PROVE state[x].nonce = 0
  <2>1. state[x] \in Account /\ AfterAlloc(state)[x] = GenesisState[x]
    BY <1>1 DEF IInv, TypeOK, State
  <2>2. AfterAlloc(state)[x].nonce = state[x].nonce
    BY <2>1 DEF AfterAlloc, Account
  <2>3. QED
    BY <2>1, <2>2 DEF GenesisState
<1>7. QED
  BY <1>1, <1>4, <1>5, <1>6

LEMMA ReceiveGenesisInv ==
  ASSUME IInv, ReceiveGenesis \/ ReceiveGenesisFails
  PROVE  IInv'
<1>1. PeerGenesis
  BY DEF ReceiveGenesis, ReceiveGenesisFails
<1>2. /\ running /\ phase = "idle" /\ height = 0 /\ metaDisk = 0
      /\ \A x \in Addr : state[x].nonce = 0
      /\ AfterAlloc(state) = GenesisState
  BY <1>1, PeerGenesisFacts
<1>3. tainted \in BOOLEAN /\ running \in BOOLEAN
  BY DEF IInv, TypeOK
<1>4. CASE ReceiveGenesis
  BY <1>2, <1>3, <1>4, GenesisWritten DEF ReceiveGenesis
<1>5. CASE ReceiveGenesisFails
  <2>1. PICK left \in {disk[0], NoBlock, Genesis(hashes + 1)} :
          disk' = [disk EXCEPT ![0] = left]
    BY <1>5 DEF ReceiveGenesisFails
  <2>2. QED
    BY <1>2, <1>3, <1>5, <2>1, GenesisWritten DEF ReceiveGenesisFails
<1>6. QED
  BY <1>4, <1>5

\* A store with a block above genesis is refused by its own block 0.
LEMMA RebuildRefused ==
  ASSUME IInv, metaDisk > 0, Rebuild
  PROVE  UNCHANGED vars
<1>1. /\ metaDisk \in Nat /\ 0 \in 0..metaDisk /\ metaDisk \in 0..metaDisk
      /\ 0 \in 0..MaxHeight /\ metaDisk \in 0..MaxHeight
  BY ChainAssumption DEF IInv, TypeOK
<1>2. disk[0].idx = 0 /\ disk[metaDisk].idx = metaDisk
  BY <1>1 DEF IInv, ChainInv, DurableChain, Linked
<1>3. disk[0].hash # disk[metaDisk].hash
  <2>1. disk[0].hash < disk[metaDisk].hash
    BY <1>1 DEF IInv, HashInv
  <2>2. disk[0].hash \in Nat /\ disk[metaDisk].hash \in Nat
    <3>1. disk[0] # NoBlock /\ disk[metaDisk] # NoBlock
      BY <1>1 DEF IInv, ChainInv, DurableChain, Linked
    <3>2. disk[0].hash \in 1..hashes /\ disk[metaDisk].hash \in 1..hashes /\ hashes \in Nat
      BY <1>1, <3>1 DEF IInv, HashInv, TypeOK
    <3>3. QED
      BY <3>2
  <2>3. QED
    BY <2>1, <2>2
<1>4. Verdict(disk[0], TRUE, disk[metaDisk]) = "refuse"
  BY <1>1, <1>2, <1>3 DEF Verdict
<1>5. QED
  BY <1>1, <1>4 DEF Rebuild

LEMMA SameInv == ASSUME IInv, UNCHANGED vars PROVE IInv'
<1>1. TypeOK' /\ DownInv' /\ MinerInv' /\ PoolNeverAhead'
  BY DEF IInv, TypeOK, DownInv, MinerInv, PoolNeverAhead, vars
<1>2. QED
  BY <1>1, ElsewhereInv DEF vars, storeVars, chainVars, lockVars

LEMMA StartInv == ASSUME IInv, Start \/ StartFails PROVE IInv'
<1>1. ~running /\ phase = "idle" /\ running \in BOOLEAN /\ tainted \in BOOLEAN
      /\ state = GenesisState
  BY DEF Start, StartFails, IInv, DownInv, TypeOK
<1>2. CASE Start /\ metaDisk = 0
  BY <1>1, <1>2, GenesisWritten DEF Start, NewGenesis
<1>3. CASE Start /\ metaDisk # 0
  <2>1. metaDisk > 0
    BY <1>3 DEF IInv, TypeOK
  <2>2. QED
    BY <1>3, <2>1, RebuildRefused, SameInv DEF Start
<1>4. CASE StartFails
  <2>1. PICK left \in {disk[0], NoBlock, Genesis(hashes + 1)} :
          disk' = [disk EXCEPT ![0] = left]
    BY <1>4 DEF StartFails
  <2>2. QED
    BY <1>1, <1>4, <2>1, GenesisWritten DEF StartFails
<1>5. QED
  BY <1>2, <1>3, <1>4

-----------------------------------------------------------------------------
(* Executing and storing a block. *)

LEMMA ExecTxInv == ASSUME IInv, ExecTx PROVE IInv'
<1> DEFINE tx == blk.txs[pos]
<1> USE DEF storeVars, chainVars, poolVars, mineVars, faucetVars
<1>1. /\ running /\ phase = "sim" /\ blk \in Wire /\ pos \in 1..Len(blk.txs)
      /\ pos' = pos + 1 /\ phase' = "sim"
      /\ UNCHANGED <<disk, metaDisk, height, running, state, tainted, hashes, own, blk,
                     pool, validated, sent, mpc, mtxs, dripping, cooling>>
  BY DEF IInv, TypeOK, LockInv, ExecTx, Wire
<1>2. tx \in Tx /\ tx.from \in Addr /\ tx.nonce \in Nat /\ Accepts(sim, tx)
  <2>1. tx \in Tx
    BY <1>1, TxFacts
  <2>2. QED
    BY <2>1, TxFacts DEF ExecTx
<1>3. sim \in State /\ state \in State /\ blk.miner \in Miners
  BY <1>1 DEF IInv, TypeOK, Wire
<1>4. /\ sim' \in State
      /\ \A x \in Addr : sim'[x].nonce =
            IF x = tx.from THEN sim[x].nonce + 1 ELSE sim[x].nonce
  <2>1. sim' = AfterTx(sim, tx, blk.miner)
    BY DEF ExecTx
  <2> HIDE DEF tx
  <2>2. QED
    BY <1>2, <1>3, <2>1, AfterTxFacts
<1>5. \A x \in Addr : state[x].nonce \in Nat /\ sim[x].nonce \in Nat
  BY <1>3 DEF State, Account
<1>6. sim[tx.from].nonce = tx.nonce
  BY <1>2 DEF Accepts
<1>7. \A k \in 1..Len(blk.txs) : blk.txs[k] \in Tx /\ blk.txs[k].from \in Addr
                                 /\ blk.txs[k].nonce \in Nat
  BY <1>1, TxFacts
<1>8. TypeOK'
  BY <1>1, <1>4 DEF IInv, TypeOK
<1>9. DownInv' /\ MinerInv' /\ ChainInv'
  BY <1>1 DEF IInv, DownInv, MinerInv, ChainInv, DurableChain, LiveChain, Linked
<1>10. LockInv'
  BY <1>1 DEF IInv, LockInv
<1>11. HashInv' /\ CommitInv'
  BY <1>1 DEF IInv, HashInv, CommitInv
<1>12. NonceInv' /\ StateMatchesTip' /\ PoolNeverAhead'
  BY <1>1 DEF IInv, NonceInv, NoReplay, SameKey, StateMatchesTip, PoolNeverAhead
<1>13. SimInv'
  <2> HIDE DEF tx
  <2>1. SimInv
    BY DEF IInv
  <2>2. \A x \in Addr : state[x].nonce <= sim'[x].nonce /\ sim[x].nonce <= sim'[x].nonce
    BY <1>1, <1>4, <1>5, <2>1 DEF SimInv
  <2>3. \A k \in 1..pos : k \in 1..pos - 1 \/ k = pos
    BY <1>1 DEF Wire
  <2>4. \A k \in 1..pos - 1 : /\ state[blk.txs[k].from].nonce <= blk.txs[k].nonce
                              /\ blk.txs[k].nonce < sim[blk.txs[k].from].nonce
                              /\ k \in 1..Len(blk.txs)
    BY <1>1, <2>1 DEF SimInv, Wire
  <2>5. \A k \in 1..pos - 1 : blk.txs[k].nonce < sim'[blk.txs[k].from].nonce
    BY <1>5, <1>7, <2>2, <2>4, <1>4
  <2>6. state[tx.from].nonce <= tx.nonce /\ tx.nonce < sim'[tx.from].nonce
    BY <1>1, <1>2, <1>4, <1>5, <1>6, <2>1 DEF SimInv
  <2>7. \A k \in 1..pos - 1 : ~SameKey(blk.txs[k], tx)
    BY <1>2, <1>6, <1>7, <2>4 DEF SameKey
  <2>8. \A k, l \in 1..pos : SameKey(blk.txs[k], blk.txs[l]) => k = l
    BY <1>1, <2>1, <2>3, <2>7 DEF SimInv, SameKey, tx
  <2>9. pos' - 1 = pos
    BY <1>1
  <2>10. QED
    BY <1>1, <2>2, <2>3, <2>4, <2>5, <2>6, <2>8, <2>9 DEF SimInv, tx, SameKey
<1>14. QED
  BY <1>8, <1>9, <1>10, <1>11, <1>12, <1>13 DEF IInv

\* Nonces only grow from the state to the simulation.
LEMMA SimGrows ==
  ASSUME IInv, phase = "sim"
  PROVE  \A x \in Addr : /\ state[x].nonce \in Nat /\ sim[x].nonce \in Nat
                         /\ state[x].nonce <= sim[x].nonce
BY DEF IInv, TypeOK, State, Account, SimInv

\* The blocks of the chain and their transactions.
LEMMA ChainBlockFacts ==
  ASSUME IInv, running, NEW i \in 1..height
  PROVE  /\ i \in 0..MaxHeight /\ disk[i] # NoBlock /\ disk[i] \in Block
         /\ \A k \in 1..Len(disk[i].txs) :
               /\ disk[i].txs[k].from \in Addr /\ disk[i].txs[k].nonce \in Nat
               /\ disk[i].txs[k].nonce < state[disk[i].txs[k].from].nonce
<1>1. height \in Nat /\ i \in Nat /\ i \in 0..MaxHeight /\ i \in 0..height /\ height > 0
  BY ChainAssumption DEF IInv, TypeOK
<1>2. Linked(height)
  BY <1>1 DEF IInv, ChainInv, LiveChain
<1>3. disk[i] # NoBlock
  BY <1>1, <1>2 DEF Linked
<1>4. disk[i] \in Block
  BY <1>1, <1>3 DEF IInv, TypeOK
<1>5. QED
  BY <1>1, <1>3, <1>4, TxFacts DEF IInv, NonceInv

LEMMA ExecCommitInv == ASSUME IInv, ExecCommit PROVE IInv'
<1> USE DEF storeVars, poolVars, mineVars, faucetVars
<1>1. /\ running /\ phase = "sim" /\ blk \in Wire /\ pos = Len(blk.txs) + 1
      /\ phase' = "putblock" /\ Len(blk.txs) \in Nat
      /\ UNCHANGED <<disk, metaDisk, height, running, tainted, hashes, own, blk, sim, pos,
                     pool, validated, sent, mpc, mtxs, dripping, cooling>>
  <2>1. running /\ phase = "sim" /\ blk \in Wire /\ pos \in 1..Len(blk.txs) + 1
        /\ pos > Len(blk.txs)
    BY DEF IInv, TypeOK, LockInv, ExecCommit
  <2>2. Len(blk.txs) \in Nat
    BY <2>1, TxFacts
  <2>3. QED
    BY <2>1, <2>2 DEF ExecCommit
<1>2. state' \in State /\ \A x \in Addr : state'[x].nonce = sim[x].nonce
  <2>1. sim \in State /\ blk.miner \in Miners
    BY <1>1 DEF IInv, TypeOK, Wire
  <2>2. QED
    BY <2>1, RewardFacts DEF ExecCommit
<1>3. \A x \in Addr : /\ state[x].nonce \in Nat /\ state'[x].nonce \in Nat
                      /\ state[x].nonce <= state'[x].nonce
  BY <1>1, <1>2, SimGrows
<1>4. \A k \in 1..Len(blk.txs) : blk.txs[k].from \in Addr /\ blk.txs[k].nonce \in Nat
  BY <1>1, TxFacts
<1>5. \A i \in 1..height : \A k \in 1..Len(disk[i].txs) :
         /\ disk[i].txs[k].from \in Addr /\ disk[i].txs[k].nonce \in Nat
         /\ disk[i].txs[k].nonce < state[disk[i].txs[k].from].nonce
  BY <1>1, ChainBlockFacts
<1>6. TypeOK'
  BY <1>1, <1>2 DEF IInv, TypeOK
<1>7. DownInv' /\ LockInv' /\ MinerInv' /\ ChainInv'
  BY <1>1 DEF IInv, DownInv, LockInv, MinerInv, ChainInv, DurableChain, LiveChain, Linked
<1>8. HashInv' /\ SimInv' /\ StateMatchesTip'
  BY <1>1 DEF IInv, HashInv, SimInv, StateMatchesTip
<1>9. NonceInv'
  <2>1. \A i \in 1..height : \A k \in 1..Len(disk[i].txs) :
           disk[i].txs[k].nonce < state'[disk[i].txs[k].from].nonce
    BY <1>3, <1>5
  <2>2. NoReplay'
    BY <1>1 DEF IInv, NonceInv, NoReplay, SameKey
  <2>3. QED
    BY <1>1, <2>1, <2>2 DEF NonceInv
<1>10. CommitInv'
  <2>1. \A k \in 1..Len(blk.txs) : k \in 1..pos - 1
    BY <1>1
  <2>2. \A k \in 1..Len(blk.txs) : blk.txs[k].nonce < state'[blk.txs[k].from].nonce
    BY <1>1, <1>2, <1>4, <2>1 DEF IInv, SimInv
  <2>3. \A k, l \in 1..Len(blk.txs) : SameKey(blk.txs[k], blk.txs[l]) => k = l
    BY <1>1, <2>1 DEF IInv, SimInv
  <2>4. \A l \in 1..Len(blk.txs) : state[blk.txs[l].from].nonce <= blk.txs[l].nonce
    BY <1>1, <2>1 DEF IInv, SimInv
  <2>5. \A i \in 1..height : \A k \in 1..Len(disk[i].txs), l \in 1..Len(blk.txs) :
           ~SameKey(disk[i].txs[k], blk.txs[l])
    <3> TAKE i \in 1..height
    <3> TAKE k \in 1..Len(disk[i].txs), l \in 1..Len(blk.txs)
    <3> DEFINE t == disk[i].txs[k]
               u == blk.txs[l]
    <3>1. t.from \in Addr /\ t.nonce \in Nat /\ t.nonce < state[t.from].nonce
      BY <1>5
    <3>2. u.nonce \in Nat /\ state[u.from].nonce <= u.nonce
      BY <1>4, <2>4
    <3> HIDE DEF t, u
    <3>3. ~SameKey(t, u)
      BY <1>3, <3>1, <3>2 DEF SameKey
    <3>4. QED
      BY <3>3 DEF t, u
  <2>6. QED
    BY <1>1, <2>2, <2>3, <2>5 DEF CommitInv, SameKey
<1>11. PoolNeverAhead'
  <2>1. /\ \A tx \in pool \cup validated : tx.from \in Addr /\ tx.nonce \in Nat
        /\ dripping # NoTx => dripping.from \in Addr /\ dripping.nonce \in Nat
    BY ChainAssumption, TxFacts DEF IInv, TypeOK
  <2>2. QED
    BY <1>1, <1>3, <2>1 DEF IInv, PoolNeverAhead
<1>12. QED
  BY <1>6, <1>7, <1>8, <1>9, <1>10, <1>11 DEF IInv

\* What is left when the holder of the lock lets go of it.
LEMMA ReleaseInv ==
  ASSUME IInv, running, phase # "idle", Release,
         mpc' \in {IF own THEN "wait" ELSE mpc, IF own THEN "remove" ELSE mpc},
         UNCHANGED <<running, state, hashes, height, pool, validated, sent, mtxs,
                     dripping, cooling>>,
         TypeOK', ChainInv', HashInv', \A i \in 0..height : disk'[i] = disk[i],
         tainted' \/ (tainted' = tainted /\ phase # "putblock")
  PROVE  IInv'
<1> USE DEF Release
<1>1. DownInv' /\ LockInv' /\ SimInv' /\ CommitInv'
  BY DEF IInv, DownInv, LockInv, SimInv, CommitInv
<1>2. MinerInv'
  BY DEF IInv, MinerInv
<1>3. PoolNeverAhead'
  BY DEF IInv, PoolNeverAhead
<1>4. StateMatchesTip'
  BY DEF IInv, StateMatchesTip, TypeOK
<1>5. NonceInv'
  <2>1. \A i \in 1..height : disk'[i] = disk[i]
    BY DEF IInv, TypeOK
  <2>2. NonceInv /\ UNCHANGED <<running, state, height>>
    BY DEF IInv
  <2>3. NoReplay'
    <3> SUFFICES ASSUME NEW i \in 1..height, NEW j \in 1..height,
                        NEW k \in 1..Len(disk'[i].txs), NEW l \in 1..Len(disk'[j].txs),
                        SameKey(disk'[i].txs[k], disk'[j].txs[l])
                 PROVE  i = j /\ k = l
      BY <2>2 DEF NoReplay, SameKey
    <3>1. disk'[i] = disk[i] /\ disk'[j] = disk[j]
      BY <2>1
    <3>2. QED
      BY <2>2, <3>1 DEF NonceInv, NoReplay
  <2>4. running' => \A i \in 1..height' : \A k \in 1..Len(disk'[i].txs) :
                     disk'[i].txs[k].nonce < state'[disk'[i].txs[k].from].nonce
    BY <2>1, <2>2 DEF NonceInv
  <2>5. QED
    BY <2>3, <2>4 DEF NonceInv
<1>6. QED
  BY <1>1, <1>2, <1>3, <1>4, <1>5 DEF IInv

LEMMA ExecFailsInv == ASSUME IInv, ExecFails PROVE IInv'
<1> USE DEF storeVars, chainVars, poolVars, faucetVars
<1>1. running /\ phase = "sim" /\ phase # "idle"
  BY DEF ExecFails
<1>2. TypeOK'
  BY GenesisFacts DEF IInv, TypeOK, ExecFails, Release, MinerGivesUp
<1>3. ChainInv' /\ HashInv'
  BY DEF IInv, ChainInv, HashInv, DurableChain, LiveChain, Linked, ExecFails, Release
<1>4. QED
  BY <1>1, <1>2, <1>3, ReleaseInv DEF ExecFails, MinerGivesUp

\* Only the file above the tip is touched while a block is being stored.
LEMMA AboveTip ==
  ASSUME IInv, running, phase = "putblock"
  PROVE  /\ blk \in Wire /\ blk.idx = height + 1 /\ blk.idx \in 1..MaxHeight
         /\ height \in Nat /\ metaDisk \in 0..height
         /\ blk.hash = hashes /\ blk.prev = disk[height].hash /\ disk[height] # NoBlock
BY ChainAssumption DEF IInv, TypeOK, LockInv, ChainInv, LiveChain, HashInv

LEMMA PutBlockFileFailsInv == ASSUME IInv, PutBlockFileFails PROVE IInv'
<1> USE DEF poolVars, faucetVars
<1>1. /\ running /\ phase = "putblock" /\ tainted' = TRUE
      /\ UNCHANGED <<metaDisk, height, running, state, hashes, pool, validated, sent,
                     mtxs, dripping, cooling>>
  BY DEF PutBlockFileFails
<1>2. PICK left \in {disk[blk.idx], NoBlock} : disk' = [disk EXCEPT ![blk.idx] = left]
  BY DEF PutBlockFileFails
<1>3. /\ blk.idx = height + 1 /\ blk.idx \in 0..MaxHeight /\ height \in Nat
      /\ metaDisk \in 0..height
  BY <1>1, AboveTip
<1>4. /\ \A i \in 0..height : disk'[i] = disk[i]
      /\ \A i \in 0..MaxHeight : disk'[i] = disk[i] \/ disk'[i] = NoBlock
  BY <1>2, <1>3 DEF IInv, TypeOK
<1>5. TypeOK'
  BY <1>2, <1>3, GenesisFacts DEF IInv, TypeOK, PutBlockFileFails, Release, MinerGivesUp
<1>6. ChainInv'
  BY <1>1, <1>3, <1>4 DEF IInv, ChainInv, DurableChain, LiveChain, Linked
<1>7. HashInv'
  BY <1>1, <1>3, <1>4 DEF IInv, HashInv, PutBlockFileFails, Release
<1>8. QED
  BY <1>1, <1>4, <1>5, <1>6, <1>7, ReleaseInv DEF PutBlockFileFails, MinerGivesUp

LEMMA PutMetaInv == ASSUME IInv, PutMeta \/ PutMetaFails PROVE IInv'
<1> USE DEF chainVars, poolVars, faucetVars
<1>1. /\ running /\ phase = "putmeta" /\ Release
      /\ metaDisk' \in {height, metaDisk, 0}
      /\ mpc' \in {IF own THEN "wait" ELSE mpc, IF own THEN "remove" ELSE mpc}
      /\ UNCHANGED <<disk, height, running, state, tainted, hashes, pool, validated, sent,
                     mtxs, dripping, cooling>>
  BY DEF PutMeta, PutMetaFails, MinerGivesUp
<1>2. height \in 1..MaxHeight /\ metaDisk \in 0..height /\ metaDisk' \in 0..height
  BY <1>1, ChainAssumption DEF IInv, TypeOK, LockInv, ChainInv, LiveChain
<1>3. TypeOK'
  <2>1. mpc' \in {"wait", "pending", "mining", "remove"}
    BY <1>1 DEF IInv, TypeOK
  <2>2. metaDisk' \in 0..MaxHeight
    BY <1>2, ChainAssumption
  <2>3. /\ phase' = "idle" /\ own' = FALSE /\ blk' = NoBlock /\ sim' = GenesisState /\ pos' = 0
        /\ GenesisState \in State
    BY <1>1, GenesisFacts DEF Release
  <2>4. QED
    BY <1>1, <2>1, <2>2, <2>3 DEF IInv, TypeOK
<1>4. ChainInv'
  <2>1. Linked(height) /\ \A i \in 0..metaDisk' : i \in 0..height
    BY <1>1, <1>2 DEF IInv, ChainInv, LiveChain
  <2>2. QED
    BY <1>1, <1>2, <2>1 DEF IInv, ChainInv, DurableChain, LiveChain, Linked
<1>5. HashInv'
  <2>1. \A i, j \in 0..height : i < j => disk[i].hash < disk[j].hash
    BY <1>1 DEF IInv, HashInv
  <2>2. QED
    BY <1>1, <1>2, <2>1 DEF IInv, HashInv, Release
<1>6. QED
  BY <1>1, <1>3, <1>4, <1>5, ReleaseInv DEF IInv, TypeOK

LEMMA PutBlockFileInv == ASSUME IInv, PutBlockFile PROVE IInv'
<1> DEFINE b == Stored(blk, state)
<1> USE DEF chainVars, poolVars, mineVars, faucetVars
<1>1. /\ running /\ phase = "putblock" /\ phase' = "putmeta"
      /\ disk' = [disk EXCEPT ![blk.idx] = b]
      /\ UNCHANGED <<metaDisk, running, state, tainted, hashes, own, blk, sim, pos,
                     pool, validated, sent, mpc, mtxs, dripping, cooling>>
  BY DEF PutBlockFile
<1>2. /\ blk \in Wire /\ blk.idx = height + 1 /\ blk.idx \in 1..MaxHeight
      /\ height \in Nat /\ metaDisk \in 0..height
      /\ blk.hash = hashes /\ blk.prev = disk[height].hash /\ disk[height] # NoBlock
  BY <1>1, AboveTip
<1>3. height' = height + 1
  BY <1>2 DEF PutBlockFile
<1>4. /\ b \in Block /\ b # NoBlock
      /\ b.idx = height + 1 /\ b.hash = hashes /\ b.prev = disk[height].hash
      /\ b.txs = blk.txs /\ b.root = state
  BY <1>2, ChainAssumption DEF Stored, Wire, Block, IInv, TypeOK
<1> HIDE DEF b
<1>5. /\ \A i \in 0..height : disk'[i] = disk[i]
      /\ disk'[height + 1] = b
      /\ \A i \in 0..MaxHeight : disk'[i] = disk[i] \/ (i = height + 1 /\ disk'[i] = b)
  BY <1>1, <1>2 DEF IInv, TypeOK
<1>6. TypeOK'
  BY <1>1, <1>2, <1>3, <1>4 DEF IInv, TypeOK
<1>7. DownInv' /\ LockInv' /\ MinerInv' /\ SimInv' /\ CommitInv' /\ PoolNeverAhead'
  BY <1>1, <1>2, <1>3 DEF IInv, DownInv, LockInv, MinerInv, SimInv, CommitInv, PoolNeverAhead
<1>8. StateMatchesTip'
  BY <1>1, <1>3, <1>4, <1>5 DEF StateMatchesTip
<1>9. ChainInv'
  <2>1. \A i \in 0..height : disk[i] # NoBlock /\ (i > 0 => disk[i].prev = disk[i - 1].hash)
    BY <1>1, <1>2 DEF IInv, ChainInv, LiveChain, Linked
  <2>2. \A i \in 0..MaxHeight : disk'[i] # NoBlock => disk'[i].idx = i
    BY <1>4, <1>5 DEF IInv, ChainInv
  <2>3. \A i \in 0..height' : /\ disk'[i] # NoBlock /\ disk'[i].idx = i
                              /\ i > 0 => disk'[i].prev = disk'[i - 1].hash
    <3>1. \A i \in 0..height' : i \in 0..height \/ i = height + 1
      BY <1>2, <1>3
    <3>2. \A i \in 0..height' : disk'[i] # NoBlock /\ disk'[i].idx = i
      <4>1. \A i \in 0..height' : i \in 0..MaxHeight
        BY <1>2, <1>3, ChainAssumption
      <4>2. \A i \in 0..height' : disk'[i] # NoBlock
        BY <1>4, <1>5, <2>1, <3>1
      <4>3. QED
        BY <2>2, <4>1, <4>2
    <3>3. ASSUME NEW i \in 0..height', i > 0 PROVE disk'[i].prev = disk'[i - 1].hash
      <4>1. i - 1 \in 0..height
        BY <1>2, <1>3, <3>3
      <4>2. CASE i \in 0..height
        BY <1>5, <2>1, <3>3, <4>1, <4>2
      <4>3. CASE i = height + 1
        <5>1. i - 1 = height
          BY <1>2, <4>3
        <5>2. QED
          BY <1>2, <1>4, <1>5, <4>1, <4>3, <5>1
      <4>4. QED
        BY <3>1, <4>2, <4>3
    <3>4. QED
      BY <3>2, <3>3
  <2>4. LiveChain'
    <3>1. metaDisk' <= height'
      BY <1>1, <1>2, <1>3
    <3>2. Linked(height)'
      BY <2>3 DEF Linked
    <3>3. QED
      BY <3>1, <3>2 DEF LiveChain
  <2>5. DurableChain'
    <3>1. \A i \in 0..metaDisk : i \in 0..height /\ (i > 0 => i - 1 \in 0..height)
      BY <1>2
    <3>2. QED
      BY <1>1, <1>5, <3>1 DEF IInv, ChainInv, DurableChain, Linked
  <2>6. QED
    BY <2>2, <2>4, <2>5 DEF ChainInv

<1>10. HashInv'
  <2>1. \A i \in 0..MaxHeight : disk[i] # NoBlock => disk[i].hash \in 1..hashes /\ disk[i].hash < hashes
    BY <1>1 DEF IInv, HashInv
  <2>2. \A i, j \in 0..height : i < j => disk[i].hash < disk[j].hash
    BY <1>1 DEF IInv, HashInv
  <2>3. \A i \in 0..height : i \in 0..MaxHeight /\ disk[i] # NoBlock
    <3>1. \A i \in 0..height : i \in 0..MaxHeight
      BY <1>2, ChainAssumption
    <3>2. \A i \in 0..height : disk[i] # NoBlock
      BY <1>1, <1>2 DEF IInv, ChainInv, LiveChain, Linked
    <3>3. QED
      BY <3>1, <3>2
  <2>4. \A i \in 0..MaxHeight : disk'[i] # NoBlock => disk'[i].hash \in 1..hashes'
    <3>1. hashes \in Nat /\ 1 <= hashes
      <4>1. disk[height].hash \in 1..hashes /\ hashes \in Nat
        BY <1>2, <2>1, <2>3 DEF IInv, TypeOK
      <4>2. QED
        BY <4>1
    <3>2. QED
      BY <1>1, <1>4, <1>5, <2>1, <3>1
  <2>5. \A i, j \in 0..height' : i < j => disk'[i].hash < disk'[j].hash
    <3> TAKE i, j \in 0..height'
    <3>1. i \in 0..height \/ i = height + 1
      BY <1>2, <1>3
    <3>2. j \in 0..height \/ j = height + 1
      BY <1>2, <1>3
    <3>3. QED
      BY <1>2, <1>4, <1>5, <2>1, <2>2, <2>3, <3>1, <3>2
  <2>6. \A i \in 0..metaDisk : i \in 0..height
    BY <1>2
  <2>7. \A i, j \in 0..metaDisk' : i < j => disk'[i].hash < disk'[j].hash
    BY <1>1, <1>5, <2>2, <2>6
  <2>8. QED
    BY <1>1, <2>4, <2>5, <2>7 DEF HashInv
<1>11. NonceInv'
  <2>1. \A i \in 1..height' : i \in 1..height \/ i = height + 1
    BY <1>2, <1>3
  <2>2. \A i \in 1..height : disk'[i] = disk[i]
    BY <1>2, <1>5
  <2>3. \A k \in 1..Len(b.txs) : b.txs[k].nonce < state[b.txs[k].from].nonce
    BY <1>1, <1>4 DEF IInv, CommitInv
  <2>4. \A i \in 1..height' : \A k \in 1..Len(disk'[i].txs) :
           disk'[i].txs[k].nonce < state[disk'[i].txs[k].from].nonce
    BY <1>1, <1>5, <2>1, <2>2, <2>3 DEF IInv, NonceInv
  <2>5. NoReplay'
    <3> SUFFICES ASSUME NEW i \in 1..height', NEW j \in 1..height',
                        NEW k \in 1..Len(disk'[i].txs), NEW l \in 1..Len(disk'[j].txs),
                        SameKey(disk'[i].txs[k], disk'[j].txs[l])
                 PROVE  i = j /\ k = l
      BY DEF NoReplay, SameKey
    <3>1. CASE i \in 1..height /\ j \in 1..height
      BY <1>1, <2>2, <3>1 DEF IInv, NonceInv, NoReplay
    <3>2. CASE i = height + 1 /\ j = height + 1
      BY <1>1, <1>4, <1>5, <3>2 DEF IInv, CommitInv
    <3>3. CASE i \in 1..height /\ j = height + 1
      BY <1>1, <1>4, <1>5, <2>2, <3>3 DEF IInv, CommitInv
    <3>4. CASE i = height + 1 /\ j \in 1..height
      <4>1. SameKey(disk[j].txs[l], blk.txs[k])
        BY <1>4, <1>5, <2>2, <3>4 DEF SameKey
      <4>2. l \in 1..Len(disk[j].txs) /\ k \in 1..Len(blk.txs)
        BY <1>4, <1>5, <2>2, <3>4
      <4>3. QED
        BY <1>1, <3>4, <4>1, <4>2 DEF IInv, CommitInv
    <3>5. QED
      BY <2>1, <3>1, <3>2, <3>3, <3>4
  <2>6. QED
    BY <1>1, <2>4, <2>5 DEF NonceInv
<1>12. QED
  BY <1>6, <1>7, <1>8, <1>9, <1>10, <1>11 DEF IInv

LEMMA StopInv == ASSUME IInv, Stop PROVE IInv'
<1> USE DEF Release
<1>1. /\ running /\ running' = FALSE /\ height' = 0 /\ phase' = "idle"
      /\ metaDisk' \in {metaDisk, 0} /\ hashes' = hashes
      /\ pool' = {} /\ validated' = {} /\ dripping' = NoTx /\ state' = GenesisState
      /\ own' = FALSE /\ mpc' = "wait"
  BY DEF Stop
<1>2. /\ \A i \in 0..MaxHeight : disk'[i] = disk[i] \/ disk'[i] = NoBlock
      /\ disk' \in [0..MaxHeight -> Block \cup {NoBlock}]
      /\ \A i \in 0..metaDisk : disk'[i] = disk[i]
  <2>1. CASE disk' = disk
    BY <2>1 DEF IInv, TypeOK
  <2>2. CASE phase = "putblock" /\ disk' = [disk EXCEPT ![blk.idx] = NoBlock]
    <3>1. blk.idx = height + 1 /\ height \in Nat /\ metaDisk \in 0..height
      BY <1>1, <2>2, AboveTip
    <3>2. disk \in [0..MaxHeight -> Block \cup {NoBlock}]
      BY DEF IInv, TypeOK
    <3>3. \A i \in 0..metaDisk : i # blk.idx /\ i \in 0..MaxHeight
      BY <3>1, ChainAssumption DEF IInv, TypeOK
    <3>4. \A i \in 0..MaxHeight : disk'[i] = IF i = blk.idx THEN NoBlock ELSE disk[i]
      BY <2>2, <3>2
    <3>5. disk' \in [0..MaxHeight -> Block \cup {NoBlock}]
      BY <2>2, <3>2
    <3>6. QED
      BY <3>3, <3>4, <3>5
  <2>3. QED
    BY <2>1, <2>2 DEF Stop
<1>3. TypeOK'
  <2> DEFINE Store == /\ disk \in [0..MaxHeight -> Block \cup {NoBlock}]
                      /\ metaDisk \in 0..MaxHeight /\ height \in 0..MaxHeight
                      /\ running \in BOOLEAN /\ tainted \in BOOLEAN
             Lock == /\ state \in State /\ sim \in State
                     /\ hashes \in Nat /\ pos \in Nat
                     /\ phase \in {"idle", "sim", "putblock", "putmeta"} /\ own \in BOOLEAN
                     /\ blk \in Wire \cup {NoBlock}
                     /\ phase # "idle" => blk \in Wire
             Rest == /\ pool \subseteq Tx /\ IsFiniteSet(pool)
                     /\ validated \subseteq Txs /\ sent \subseteq Txs
                     /\ mpc \in {"wait", "pending", "mining", "remove"} /\ mtxs \in Seq(Tx)
                     /\ dripping \in Tx \cup {NoTx} /\ cooling \subseteq Addr
  <2>1. Store'
    <3>1. tainted' = FALSE
      BY DEF Stop
    <3>2. metaDisk \in 0..MaxHeight /\ MaxHeight \in Nat
      BY ChainAssumption DEF IInv, TypeOK
    <3>3. metaDisk' \in 0..MaxHeight /\ height' \in 0..MaxHeight
      BY <1>1, <3>2
    <3>4. running' \in BOOLEAN /\ tainted' \in BOOLEAN
      BY <1>1, <3>1
    <3>5. QED
      BY <1>2, <3>3, <3>4
  <2>2. Lock'
    <3>1. sim' = GenesisState /\ pos' = 0 /\ blk' = NoBlock
      BY DEF Stop
    <3>2. hashes \in Nat
      BY DEF IInv, TypeOK
    <3>3. QED
      BY <1>1, <3>1, <3>2, GenesisFacts
  <2>3. Rest'
    <3>1. sent' = sent /\ mtxs' = <<>> /\ cooling' = {}
      BY DEF Stop
    <3>2. sent \subseteq Txs
      BY DEF IInv, TypeOK
    <3>3. QED
      BY <1>1, <3>1, <3>2, FS_EmptySet
  <2>4. QED
    BY <2>1, <2>2, <2>3 DEF TypeOK
<1>4. DownInv' /\ LockInv' /\ MinerInv' /\ SimInv' /\ CommitInv' /\ StateMatchesTip'
      /\ PoolNeverAhead' /\ NonceInv'
  BY <1>1 DEF DownInv, LockInv, MinerInv, SimInv, CommitInv, StateMatchesTip,
     PoolNeverAhead, NonceInv, NoReplay
<1>5. ChainInv'
  BY <1>1, <1>2 DEF IInv, ChainInv, DurableChain, LiveChain, Linked, TypeOK
<1>6. HashInv'
  BY <1>1, <1>2 DEF IInv, HashInv, TypeOK
<1>7. QED
  BY <1>3, <1>4, <1>5, <1>6 DEF IInv

-----------------------------------------------------------------------------
(* The theorems. *)

LEMMA StepInv == IInv /\ [Next]_vars => IInv'
<1> SUFFICES ASSUME IInv, [Next]_vars PROVE IInv'
  OBVIOUS
<1>1. CASE \E tx \in Txs : ValidateTx(tx) \/ AddTx(tx)
  BY <1>1, ValidateTxInv, AddTxInv
<1>2. CASE (\E x \in Addr : DripBuild(x) \/ CooldownOver(x)) \/ DripSend
  BY <1>2, FaucetInv
<1>3. CASE MineTick \/ RemoveIncluded
  BY <1>3, MinerLoopInv
<1>4. CASE MineBegin
  BY <1>4, MineBeginInv
<1>5. CASE ReceiveBlock
  BY <1>5, ReceiveBlockInv
<1>6. CASE ReceiveGenesis \/ ReceiveGenesisFails
  BY <1>6, ReceiveGenesisInv
<1>7. CASE ExecTx
  BY <1>7, ExecTxInv
<1>8. CASE ExecFails
  BY <1>8, ExecFailsInv
<1>9. CASE ExecCommit
  BY <1>9, ExecCommitInv
<1>10. CASE PutBlockFile
  BY <1>10, PutBlockFileInv
<1>11. CASE PutBlockFileFails
  BY <1>11, PutBlockFileFailsInv
<1>12. CASE PutMeta \/ PutMetaFails
  BY <1>12, PutMetaInv
<1>13. CASE Stop
  BY <1>13, StopInv
<1>14. CASE Start \/ StartFails
  BY <1>14, StartInv
<1>15. CASE UNCHANGED vars
  BY <1>15, SameInv
<1>16. QED
  BY <1>1, <1>2, <1>3, <1>4, <1>5, <1>6, <1>7, <1>8, <1>9, <1>10, <1>11, <1>12,
     <1>13, <1>14, <1>15 DEF Next

\* The inductive invariant holds in every reachable state.
THEOREM Invariance == Spec => []IInv
<1>1. Init => IInv
  BY InitInv
<1>2. IInv /\ [Next]_vars => IInv'
  BY StepInv
<1>3. QED
  BY <1>1, <1>2, PTL DEF Spec

\* Every variable keeps its type.
THEOREM TypeCorrect == Spec => []TypeOK
<1>1. IInv => TypeOK
  BY DEF IInv
<1>2. QED
  BY <1>1, Invariance, PTL

\* Whatever write fails and wherever the process stops, the blocks up to the
\* height in meta.json are all readable and linked.
THEOREM StoreIsAChain == Spec => []DurableChain
<1>1. IInv => DurableChain
  BY DEF IInv, ChainInv
<1>2. QED
  BY <1>1, Invariance, PTL

\* A running node serves a whole chain up to its height (Height, GetBlock),
\* also after a saveMeta that failed.
THEOREM ServedIsAChain == Spec => []LiveChain
<1>1. IInv => LiveChain
  BY DEF IInv, ChainInv
<1>2. QED
  BY <1>1, Invariance, PTL

\* Until a write of a block fails, the balances served are those of the tip.
THEOREM StateIsTheTips == Spec => []StateMatchesTip
<1>1. IInv => StateMatchesTip
  BY DEF IInv
<1>2. QED
  BY <1>1, Invariance, PTL

\* No signed transfer is executed twice.
THEOREM NoTransferTwice == Spec => []NoReplay
<1>1. IInv => NoReplay
  BY DEF IInv, NonceInv
<1>2. QED
  BY <1>1, Invariance, PTL

\* Nothing in the pool waits for a nonce still to come.
THEOREM PoolIsNeverAhead == Spec => []PoolNeverAhead
<1>1. IInv => PoolNeverAhead
  BY DEF IInv
<1>2. QED
  BY <1>1, Invariance, PTL

\* A store with a block above genesis keeps its process down for good.
THEOREM StoppedForGood == Spec => StaysDown
<1>1. IInv /\ [Next]_vars => [~running /\ metaDisk > 0 => ~running' /\ UNCHANGED storeVars]_vars
  <2> SUFFICES ASSUME IInv, Next, ~running, metaDisk > 0
               PROVE  ~running' /\ UNCHANGED storeVars
    OBVIOUS
  <2>1. ~(\E tx \in Txs : ValidateTx(tx) \/ AddTx(tx)) /\ ~(MineTick \/ MineBegin \/ RemoveIncluded)
    BY DEF ValidateTx, AddTx, MineTick, MineBegin, RemoveIncluded
  <2>2. ~(\E x \in Addr : DripBuild(x) \/ CooldownOver(x)) /\ ~DripSend
    BY DEF DripBuild, CooldownOver, DripSend
  <2>3. ~(ReceiveBlock \/ ReceiveGenesis \/ ReceiveGenesisFails)
    BY DEF ReceiveBlock, ReceiveGenesis, ReceiveGenesisFails, PeerGenesis
  <2>4. ~(ExecTx \/ ExecFails \/ ExecCommit)
    BY DEF ExecTx, ExecFails, ExecCommit
  <2>5. ~(PutBlockFile \/ PutBlockFileFails \/ PutMeta \/ PutMetaFails \/ Stop \/ StartFails)
    BY DEF PutBlockFile, PutBlockFileFails, PutMeta, PutMetaFails, Stop, StartFails
  <2>6. Start
    BY <2>1, <2>2, <2>3, <2>4, <2>5 DEF Next
  <2>7. Rebuild
    BY <2>6 DEF Start
  <2>8. UNCHANGED vars
    BY <2>7, RebuildRefused
  <2>9. QED
    BY <2>8 DEF vars, storeVars
<1>2. QED
  BY <1>1, Invariance, PTL DEF Spec, StaysDown

\* A running node never rewrites its chain.
THEOREM HistoryStays == Spec => HistoryImmutable
<1> DEFINE Kept == \A i \in 0..height : disk'[i] = disk[i]
<1>1. IInv /\ [Next]_vars => [running /\ running' /\ height > 0 => Kept]_vars
  <2> SUFFICES ASSUME IInv, Next, running, running', height > 0
               PROVE  Kept
    OBVIOUS
  <2>1. CASE UNCHANGED disk
    BY <2>1
  <2>2. CASE ReceiveGenesis \/ ReceiveGenesisFails
    BY <2>2, PeerGenesisFacts DEF ReceiveGenesis, ReceiveGenesisFails
  <2>3. CASE PutBlockFile \/ PutBlockFileFails
    <3>1. blk.idx = height + 1 /\ height \in Nat /\ blk.idx \in 1..MaxHeight
      BY <2>3, AboveTip DEF PutBlockFile, PutBlockFileFails
    <3>2. PICK f : disk' = [disk EXCEPT ![blk.idx] = f]
      BY <2>3 DEF PutBlockFile, PutBlockFileFails
    <3>3. \A i \in 0..height : i # blk.idx /\ i \in 0..MaxHeight
      BY <3>1, ChainAssumption
    <3>4. QED
      BY <3>2, <3>3 DEF IInv, TypeOK
  <2>4. CASE Stop \/ Start \/ StartFails
    BY <2>4 DEF Stop, Start, StartFails
  <2>5. CASE (\E tx \in Txs : ValidateTx(tx) \/ AddTx(tx)) \/ MineTick \/ MineBegin
             \/ RemoveIncluded
    BY <2>1, <2>5 DEF ValidateTx, AddTx, MineTick, MineBegin, RemoveIncluded, storeVars
  <2>6. CASE (\E x \in Addr : DripBuild(x) \/ CooldownOver(x)) \/ DripSend \/ ReceiveBlock
    BY <2>1, <2>6 DEF DripBuild, CooldownOver, DripSend, ReceiveBlock, storeVars
  <2>7. CASE ExecTx \/ ExecFails \/ ExecCommit \/ PutMeta \/ PutMetaFails
    BY <2>1, <2>7 DEF ExecTx, ExecFails, ExecCommit, PutMeta, PutMetaFails, storeVars
  <2>8. QED
    BY <2>2, <2>3, <2>4, <2>5, <2>6, <2>7 DEF Next
<1>2. QED
  BY <1>1, Invariance, PTL DEF Spec, HistoryImmutable

\* The nonces of a running node never go back.
LEMMA NoncesGrow ==
  ASSUME IInv, Next, running, running'
  PROVE  \A x \in Addr : /\ state[x].nonce \in Nat /\ state'[x].nonce \in Nat
                         /\ state[x].nonce <= state'[x].nonce
<1>1. \A x \in Addr : state[x].nonce \in Nat
  BY DEF IInv, TypeOK, State, Account
<1>2. CASE state' = state
  BY <1>1, <1>2
<1>3. CASE ExecCommit
  <2>1. phase = "sim" /\ blk \in Wire /\ sim \in State /\ state' = AfterReward(sim, blk.miner)
    BY <1>3 DEF ExecCommit, IInv, TypeOK
  <2>2. \A x \in Addr : state'[x].nonce = sim[x].nonce
    BY <2>1, RewardFacts DEF Wire
  <2>3. QED
    BY <2>1, <2>2, SimGrows
<1>4. CASE ReceiveGenesis \/ ReceiveGenesisFails
  <2>1. state' = GenesisState /\ \A x \in Addr : state[x].nonce = 0
    BY <1>4, PeerGenesisFacts DEF ReceiveGenesis, ReceiveGenesisFails
  <2>2. QED
    BY <2>1 DEF GenesisState
<1>5. CASE Stop \/ Start \/ StartFails
  BY <1>5 DEF Stop, Start, StartFails
<1>6. CASE (\E tx \in Txs : ValidateTx(tx) \/ AddTx(tx)) \/ MineTick \/ MineBegin
           \/ RemoveIncluded
  BY <1>2, <1>6 DEF ValidateTx, AddTx, MineTick, MineBegin, RemoveIncluded, chainVars
<1>7. CASE (\E x \in Addr : DripBuild(x) \/ CooldownOver(x)) \/ DripSend \/ ReceiveBlock
  BY <1>2, <1>7 DEF DripBuild, CooldownOver, DripSend, ReceiveBlock, chainVars
<1>8. CASE ExecTx \/ ExecFails \/ PutBlockFile \/ PutBlockFileFails
           \/ PutMeta \/ PutMetaFails
  BY <1>2, <1>8 DEF ExecTx, ExecFails, PutBlockFile, PutBlockFileFails, PutMeta,
     PutMetaFails, chainVars
<1>9. QED
  BY <1>3, <1>4, <1>5, <1>6, <1>7, <1>8 DEF Next

\* A step that takes nothing out of the pool leaves a stalled miner stalled,
\* if it sends the miner back to its ticker or leaves it where it is.
LEMMA StillStalled ==
  ASSUME IInv, Next, Stalled, running', pool \subseteq pool',
         \/ mpc' = "wait"
         \/ mpc' = mpc /\ mtxs' = mtxs /\ (mpc = "mining" => phase' = "sim")
  PROVE  Stalled'
<1>1. \A t \in Tx : Stale(t) => Stale(t)'
  <2>1. \A x \in Addr : /\ state[x].nonce \in Nat /\ state'[x].nonce \in Nat
                        /\ state[x].nonce <= state'[x].nonce
    BY NoncesGrow DEF Stalled
  <2>2. QED
    BY <2>1, TxFacts DEF Stale
<1>2. PICK t \in pool : Stale(t)
  BY DEF Stalled
<1>3. t \in Tx /\ t \in pool' /\ mtxs \in Seq(Tx)
  BY DEF IInv, TypeOK
<1>4. \A i \in 1..Len(mtxs) : mtxs[i] \in Tx
  BY <1>3
<1>5. CASE mpc' = "wait"
  BY <1>1, <1>2, <1>3, <1>5 DEF Stalled, Stale
<1>6. CASE mpc' = mpc /\ mtxs' = mtxs /\ (mpc = "mining" => phase' = "sim") /\ mpc # "wait"
  <2>1. PICK i \in 1..Len(mtxs) : Stale(mtxs[i])
    BY <1>6 DEF Stalled
  <2>2. Stale(mtxs[i])' /\ i \in 1..Len(mtxs')
    BY <1>1, <1>4, <1>6, <2>1 DEF Stale
  <2>3. QED
    BY <1>1, <1>2, <1>3, <1>6, <2>2 DEF Stalled, Stale
<1>7. QED
  BY <1>5, <1>6

\* One stale transaction in the pool stops the miner until the process does.
THEOREM StallLasts == Spec => StallIsPermanent
<1>1. IInv /\ [Next]_vars =>
        [Stalled /\ running' /\ Cardinality(pool') <= MaxPending => Stalled']_vars
  <2> SUFFICES ASSUME IInv, Next, Stalled, running', Cardinality(pool') <= MaxPending
               PROVE  Stalled'
    OBVIOUS
  <2>1. /\ running /\ mpc \in {"wait", "pending", "mining"}
        /\ mpc = "mining" => phase = "sim"
        /\ mpc # "mining" => ~own
        /\ own => mpc = "mining"
    BY DEF Stalled, IInv, MinerInv
  <2>2. CASE \E tx \in Txs : ValidateTx(tx) \/ AddTx(tx)
    BY <2>1, <2>2, StillStalled DEF ValidateTx, AddTx, WithTx, lockVars, mineVars
  <2>3. CASE (\E x \in Addr : DripBuild(x) \/ CooldownOver(x)) \/ DripSend
    BY <2>1, <2>3, StillStalled
       DEF DripBuild, CooldownOver, DripSend, WithTx, lockVars, poolVars, mineVars
  <2>4. CASE MineTick
    <3>1. /\ pool \in SUBSET Tx /\ IsFiniteSet(pool) /\ pool' = pool /\ mpc' = "pending"
          /\ mtxs' \in PendingLists(pool) /\ UNCHANGED state
      BY <2>4 DEF IInv, TypeOK, MineTick, poolVars, chainVars
    <3>2. PICK t \in pool : Stale(t)
      BY DEF Stalled
    <3>3. \A u \in pool : \E i \in 1..Len(mtxs') : mtxs'[i] = u
      BY <3>1, PendingFacts
    <3>4. PICK i \in 1..Len(mtxs') : mtxs'[i] = t
      BY <3>2, <3>3
    <3>5. QED
      BY <3>1, <3>2, <3>4 DEF Stalled, Stale
  <2>5. CASE MineBegin
    <3>1. /\ mpc = "pending" /\ mpc' = "mining" /\ phase' = "sim"
          /\ UNCHANGED <<mtxs, pool, state>>
      BY <2>5 DEF MineBegin, Execute, poolVars
    <3>2. QED
      BY <3>1 DEF Stalled, Stale
  <2>6. CASE RemoveIncluded \/ Stop \/ Start \/ StartFails
    BY <2>1, <2>6 DEF RemoveIncluded, Stop, Start, StartFails
  <2>7. CASE ReceiveBlock \/ ReceiveGenesis \/ ReceiveGenesisFails
    <3>1. phase = "idle" /\ UNCHANGED <<pool, mpc, mtxs>>
      BY <2>7 DEF ReceiveBlock, ReceiveGenesis, ReceiveGenesisFails, PeerGenesis,
         poolVars, mineVars
    <3>2. QED
      BY <2>1, <3>1, StillStalled
  <2>8. CASE ExecTx
    BY <2>1, <2>8, StillStalled DEF ExecTx, poolVars, mineVars
  <2>9. CASE ExecFails \/ PutBlockFileFails \/ PutMetaFails
    <3>1. /\ mpc' = IF own THEN "wait" ELSE mpc
          /\ UNCHANGED <<pool, mtxs>>
      BY <2>9 DEF ExecFails, PutBlockFileFails, PutMetaFails, MinerGivesUp, poolVars
    <3>2. CASE own
      BY <3>1, <3>2, StillStalled
    <3>3. CASE ~own
      BY <2>1, <3>1, <3>3, StillStalled DEF IInv, MinerInv
    <3>4. QED
      BY <3>2, <3>3
  <2>10. CASE PutBlockFile \/ PutMeta
    BY <2>1, <2>10, StillStalled DEF PutBlockFile, PutMeta, poolVars, mineVars
  <2>11. CASE ExecCommit
    <3>1. ~own
      <4> SUFFICES ASSUME own PROVE FALSE
        OBVIOUS
      <4>1. /\ mpc = "mining" /\ phase = "sim" /\ blk \in Wire /\ blk.txs = mtxs
            /\ pos > Len(blk.txs) /\ pos \in 1..Len(blk.txs) + 1
        BY <2>1, <2>11 DEF ExecCommit, IInv, TypeOK, MinerInv, LockInv
      <4>2. PICK i \in 1..Len(mtxs) : Stale(mtxs[i])
        BY <4>1 DEF Stalled
      <4>3. i \in 1..pos - 1 /\ blk.txs[i] \in Tx
        BY <4>1, <4>2, TxFacts
      <4>4. state[blk.txs[i].from].nonce <= blk.txs[i].nonce
        BY <4>1, <4>3 DEF IInv, SimInv
      <4>5. blk.txs[i].nonce < state[blk.txs[i].from].nonce
        BY <4>1, <4>2 DEF Stale
      <4>6. blk.txs[i].nonce \in Nat /\ state[blk.txs[i].from].nonce \in Nat
        BY <4>1, <4>3, TxFacts, SimGrows
      <4>7. QED
        BY <4>4, <4>5, <4>6
    <3>2. mpc # "mining"
      BY <3>1 DEF IInv, MinerInv
    <3>3. QED
      BY <2>1, <2>11, <3>2, StillStalled DEF ExecCommit, poolVars, mineVars
  <2>12. QED
    BY <2>2, <2>3, <2>4, <2>5, <2>6, <2>7, <2>8, <2>9, <2>10, <2>11 DEF Next
<1>2. QED
  BY <1>1, Invariance, PTL DEF Spec, StallIsPermanent

-----------------------------------------------------------------------------
(* Money: what the steps of a block do to the sum of the balances. *)

\* What a block takes out of the money there is with its first n transfers.
PartBurned(b, n) == IF b.miner = NoMiner THEN SumFunction([k \in 1..n |-> b.txs[k].fee]) ELSE 0

BurnedIn(d, h) == SumFunction([i \in 1..h |-> Burned(d[i])])
MintedIn(d, h) == SumFunction([i \in 1..h |-> Minted(d[i])])

Ordinary(tx) == tx.amount + tx.fee < Word

LEMMA BalancesSum ==
    ASSUME NEW s, s \in State
    PROVE  /\ Balances(s) = SumFunctionOnSet([x \in Addr |-> s[x].bal], Addr)
           /\ \A x \in Addr : s[x].bal \in Nat
BY SumOfFunction DEF Balances, State, Account

LEMMA BalancesNat ==
    ASSUME IsFiniteSet(Addr), NEW s, s \in State
    PROVE  /\ Balances(s) \in Nat
           /\ \A x \in Addr : s[x].bal \in Nat /\ s[x].bal <= Balances(s)
<1>1. PICK f : f = [x \in Addr |-> s[x].bal]
  OBVIOUS
<1>2. /\ Balances(s) = SumFunctionOnSet(f, Addr)
      /\ \A x \in Addr : f[x] = s[x].bal /\ f[x] \in Nat
  BY <1>1, BalancesSum
<1>3. SumFunctionOnSet(f, Addr) \in Nat /\ \A x \in Addr : f[x] <= SumFunctionOnSet(f, Addr)
  BY <1>2, SumNat
<1> QED
  BY <1>2, <1>3

\* One account's balance changes.
LEMMA BalancesChange ==
    ASSUME IsFiniteSet(Addr), NEW s, s \in State, NEW t, t \in State, NEW a \in Addr,
           \A x \in Addr : x # a => t[x].bal = s[x].bal
    PROVE  Balances(t) = Balances(s) - s[a].bal + t[a].bal
<1>1. PICK f, g : f = [x \in Addr |-> s[x].bal] /\ g = [x \in Addr |-> t[x].bal]
  OBVIOUS
<1>2. /\ Balances(s) = SumFunctionOnSet(f, Addr) /\ Balances(t) = SumFunctionOnSet(g, Addr)
      /\ \A x \in Addr : f[x] = s[x].bal /\ f[x] \in Nat /\ g[x] = t[x].bal /\ g[x] \in Nat
  BY <1>1, BalancesSum
<1>3. \A x \in Addr : f[x] \in Int /\ g[x] \in Int /\ (x # a => g[x] = f[x])
  BY <1>2
<1>4. SumFunctionOnSet(g, Addr) = SumFunctionOnSet(f, Addr) - f[a] + g[a]
  BY <1>3, SumChange
<1> QED
  BY <1>2, <1>4

LEMMA ModSmall == ASSUME NEW x \in Nat, x < Word PROVE x % Word = x
BY ChainAssumption

LEMMA CreditBalances ==
    ASSUME IsFiniteSet(Addr), NEW s, s \in State, NEW a \in Addr, NEW n \in Nat,
           Balances(s) + n < Word
    PROVE  /\ Credit(s, a, n) \in State /\ Balances(Credit(s, a, n)) = Balances(s) + n
           /\ \A x \in Addr : s[x].bal <= Credit(s, a, n)[x].bal
<1>1. PICK t : t = Credit(s, a, n)
  OBVIOUS
<1>2. t \in State
  BY <1>1, CreditFacts
<1>3. Balances(s) \in Nat /\ s[a].bal \in Nat /\ s[a].bal <= Balances(s)
  BY BalancesNat
<1>4. (s[a].bal + n) % Word = s[a].bal + n
  <2>1. s[a].bal + n \in Nat /\ s[a].bal + n < Word
    BY <1>3, ChainAssumption
  <2> QED
    BY <2>1, ModSmall
<1>5. t[a].bal = s[a].bal + n /\ \A x \in Addr : x # a => t[x].bal = s[x].bal
  <2>1. \A x \in Addr : s[x] \in Account
    BY DEF State
  <2>2. t = [s EXCEPT ![a].bal = (s[a].bal + n) % Word]
    BY <1>1 DEF Credit
  <2>3. t = [s EXCEPT ![a].bal = s[a].bal + n]
    BY <1>4, <2>2
  <2> QED
    BY <2>1, <2>3 DEF State, Account
<1>6. Balances(t) = Balances(s) - s[a].bal + t[a].bal
  BY <1>2, <1>5, BalancesChange
<1>7. \A x \in Addr : s[x].bal <= t[x].bal
  BY <1>3, <1>5, BalancesNat
<1>8. Balances(t) = Balances(s) + n
  BY <1>3, <1>5, <1>6
<1> QED
  BY <1>1, <1>2, <1>7, <1>8

LEMMA DebitBalances ==
    ASSUME IsFiniteSet(Addr), NEW s, s \in State, NEW tx \in Tx, Accepts(s, tx), Ordinary(tx)
    PROVE  /\ Debit(s, tx) \in State
           /\ Balances(Debit(s, tx)) = Balances(s) - (tx.amount + tx.fee)
           /\ tx.amount + tx.fee <= s[tx.from].bal
           /\ Debit(s, tx)[tx.from].bal = s[tx.from].bal - (tx.amount + tx.fee)
           /\ \A x \in Addr : x # tx.from => Debit(s, tx)[x].bal = s[x].bal
<1>1. PICK t : t = Debit(s, tx)
  OBVIOUS
<1>2. t \in State
  BY <1>1, DebitFacts
<1>3. tx.from \in Addr /\ tx.amount \in Nat /\ tx.fee \in Nat
  BY DEF Tx
<1>4. Cost(tx) = tx.amount + tx.fee
  <2>1. tx.amount + tx.fee \in Nat /\ tx.amount + tx.fee < Word
    BY <1>3 DEF Ordinary
  <2> QED
    BY <2>1, ModSmall DEF Cost
<1>5. s[tx.from].bal \in Nat /\ s[tx.from].nonce \in Nat /\ tx.amount + tx.fee <= s[tx.from].bal
  BY <1>3, <1>4 DEF Accepts, State, Account
<1>6. t = [s EXCEPT ![tx.from] = [bal |-> s[tx.from].bal - (tx.amount + tx.fee), nonce |-> s[tx.from].nonce + 1]]
  BY <1>1, <1>4 DEF Debit
<1>7. /\ t[tx.from].bal = s[tx.from].bal - (tx.amount + tx.fee)
      /\ \A x \in Addr : x # tx.from => t[x].bal = s[x].bal
  BY <1>3, <1>6 DEF State
<1>8. Balances(t) = Balances(s) - s[tx.from].bal + t[tx.from].bal
  BY <1>2, <1>3, <1>7, BalancesChange
<1>9. Balances(s) \in Nat
  BY BalancesNat
<1> QED
  BY <1>1, <1>2, <1>3, <1>5, <1>7, <1>8, <1>9

\* A transfer moves money, and its fee is nobody's when there is no miner.
LEMMA AfterTxBalances ==
    ASSUME IsFiniteSet(Addr), NEW s, s \in State, NEW tx \in Tx, NEW m \in Miners,
           Accepts(s, tx), Ordinary(tx), Balances(s) < Word
    PROVE  /\ Balances(AfterTx(s, tx, m)) = Balances(s) - (IF m = NoMiner THEN tx.fee ELSE 0)
           /\ \A x \in Addr : x # tx.from => s[x].bal <= AfterTx(s, tx, m)[x].bal
<1>1. PICK d : d = Debit(s, tx)
  OBVIOUS
<1>2. tx.to \in Addr /\ tx.amount \in Nat /\ tx.fee \in Nat /\ Balances(s) \in Nat
  BY BalancesNat DEF Tx
<1>3. d \in State /\ Balances(d) = Balances(s) - (tx.amount + tx.fee) /\ Balances(d) \in Nat
  BY <1>1, DebitBalances, BalancesNat
<1>4. PICK paid : paid = Credit(d, tx.to, tx.amount)
  OBVIOUS
<1>5. Balances(d) + tx.amount < Word
  BY <1>2, <1>3, ChainAssumption
<1>6. /\ paid \in State /\ Balances(paid) = Balances(d) + tx.amount /\ Balances(paid) \in Nat
      /\ \A x \in Addr : d[x].bal <= paid[x].bal
  BY <1>2, <1>3, <1>4, <1>5, CreditBalances, BalancesNat
<1>7. \A x \in Addr : x # tx.from => s[x].bal <= paid[x].bal
  BY <1>1, <1>6, DebitBalances
<1>8. CASE tx.fee > 0 /\ m # NoMiner
  <2>1. m \in Addr
    BY <1>8 DEF Miners
  <2>2. AfterTx(s, tx, m) = Credit(paid, m, tx.fee)
    BY <1>1, <1>4, <1>8 DEF AfterTx
  <2>3. Balances(paid) + tx.fee < Word
    BY <1>2, <1>3, <1>6, ChainAssumption
  <2>4. /\ Balances(Credit(paid, m, tx.fee)) = Balances(paid) + tx.fee
        /\ \A x \in Addr : paid[x].bal <= Credit(paid, m, tx.fee)[x].bal
        /\ Credit(paid, m, tx.fee) \in State
    BY <1>2, <1>6, <2>1, <2>3, CreditBalances
  <2>5. \A x \in Addr : s[x].bal \in Nat /\ paid[x].bal \in Nat /\ Credit(paid, m, tx.fee)[x].bal \in Nat
    BY <1>6, <2>4, BalancesNat
  <2>6. \A x \in Addr : x # tx.from => s[x].bal <= AfterTx(s, tx, m)[x].bal
    BY <1>7, <2>2, <2>4, <2>5
  <2>7. Balances(AfterTx(s, tx, m)) = Balances(s)
    BY <1>2, <1>3, <1>6, <2>2, <2>4
  <2> QED
    BY <1>2, <1>8, <2>6, <2>7
<1>9. CASE ~(tx.fee > 0 /\ m # NoMiner)
  <2>1. AfterTx(s, tx, m) = paid
    BY <1>1, <1>4, <1>9 DEF AfterTx
  <2>2. m # NoMiner => tx.fee = 0
    BY <1>2, <1>9
  <2>3. Balances(AfterTx(s, tx, m)) = Balances(s) - tx.fee
    BY <1>2, <1>3, <1>6, <2>1
  <2>4. tx.fee = IF m = NoMiner THEN tx.fee ELSE 0
    BY <2>2
  <2> QED
    BY <1>7, <2>1, <2>3, <2>4
<1> QED
  BY <1>8, <1>9

LEMMA RewardBalances ==
    ASSUME IsFiniteSet(Addr), NEW s, s \in State, NEW m \in Miners, Balances(s) + Reward < Word
    PROVE  /\ Balances(AfterReward(s, m)) = Balances(s) + (IF m = NoMiner THEN 0 ELSE Reward)
           /\ \A x \in Addr : s[x].bal <= AfterReward(s, m)[x].bal
<1>1. Reward \in Nat /\ Balances(s) \in Nat
  BY BalancesNat, ChainAssumption
<1>2. CASE m = NoMiner \/ Reward = 0
  BY <1>1, <1>2, BalancesNat DEF AfterReward
<1>3. CASE ~(m = NoMiner \/ Reward = 0)
  <2>1. m \in Addr /\ AfterReward(s, m) = Credit(s, m, Reward)
    BY <1>3 DEF AfterReward, Miners
  <2>2. /\ Balances(Credit(s, m, Reward)) = Balances(s) + Reward
        /\ \A x \in Addr : s[x].bal <= Credit(s, m, Reward)[x].bal
    BY <1>1, <2>1, CreditBalances
  <2> QED
    BY <1>3, <2>1, <2>2
<1> QED
  BY <1>2, <1>3

LEMMA GenesisBalances ==
    /\ Balances(GenesisState) = SumFunction(Alloc)
    /\ IsFiniteSet(Addr) => SumFunction(Alloc) \in Nat
<1>1. [a \in Addr |-> GenesisState[a].bal] = Alloc
  BY ChainAssumption DEF GenesisState
<1>2. Balances(GenesisState) = SumFunction(Alloc)
  BY <1>1 DEF Balances
<1> QED
  BY <1>2, GenesisFacts, BalancesNat

\* The fees of the transfers one by one.
LEMMA BurnsMore ==
    ASSUME NEW b, b \in Wire, NEW n \in 0..Len(b.txs)
    PROVE  /\ PartBurned(b, n) \in Nat
           /\ n = 0 => PartBurned(b, n) = 0
           /\ n > 0 => PartBurned(b, n) = PartBurned(b, n - 1) + (IF b.miner = NoMiner THEN b.txs[n].fee ELSE 0)
<1>1. PICK L \in Nat : L = Len(b.txs)
  BY DEF Wire
<1>2. n \in Nat /\ n <= L /\ \A k \in 1..L : b.txs[k].fee \in Nat
  BY <1>1, TxFacts DEF Tx
<1>3. PICK f : f = [k \in 1..n |-> b.txs[k].fee]
  OBVIOUS
<1>4. DOMAIN f = 1..n /\ \A k \in 1..n : f[k] \in Nat
  BY <1>2, <1>3
<1>5. n \in Int /\ IsFiniteSet(1..n)
  BY <1>2, FS_Interval
<1>6. SumFunction(f) = SumFunctionOnSet(f, 1..n) /\ SumFunctionOnSet(f, 1..n) \in Nat
  BY <1>4, <1>5, SumNat, SumOfFunction
<1>7. PartBurned(b, n) \in Nat
  BY <1>3, <1>6 DEF PartBurned
<1>8. ASSUME n = 0 PROVE PartBurned(b, n) = 0
  <2>1. 1..n = {}
    BY <1>8
  <2>2. SumFunction(f) = 0
    BY <1>6, <2>1, SumEmpty
  <2> QED
    BY <1>3, <2>2 DEF PartBurned
<1>9. ASSUME n > 0
      PROVE  PartBurned(b, n) = PartBurned(b, n - 1) + (IF b.miner = NoMiner THEN b.txs[n].fee ELSE 0)
  <2>1. PICK m \in Nat : m = n - 1
    BY <1>2, <1>9
  <2>2. PICK g : g = [k \in 1..m |-> b.txs[k].fee]
    OBVIOUS
  <2>3. /\ DOMAIN g = 1..m /\ DOMAIN f = 1..m + 1
        /\ \A k \in 1..m : g[k] \in Int /\ f[k] = g[k]
        /\ f[m + 1] \in Int /\ f[m + 1] = b.txs[n].fee
    BY <1>2, <1>3, <1>4, <2>1, <2>2
  <2>4. SumFunction(f) = SumFunction(g) + f[m + 1]
    BY <2>3, SumExtends
  <2>5. PartBurned(b, n - 1) = IF b.miner = NoMiner THEN SumFunction(g) ELSE 0
    BY <2>1, <2>2 DEF PartBurned
  <2>6. PartBurned(b, n) = IF b.miner = NoMiner THEN SumFunction(f) ELSE 0
    BY <1>3 DEF PartBurned
  <2> QED
    BY <2>3, <2>4, <2>5, <2>6
<1> QED
  BY <1>7, <1>8, <1>9

LEMMA AllBurned == ASSUME NEW b PROVE Burned(b) = PartBurned(b, Len(b.txs))
BY DEF Burned, Fees, PartBurned

\* The sums over the chain are those of its blocks, and one block more.
LEMMA SumsKept ==
    ASSUME NEW h \in Nat, NEW d, NEW e, \A i \in 1..h : d[i] = e[i]
    PROVE  BurnedIn(d, h) = BurnedIn(e, h) /\ MintedIn(d, h) = MintedIn(e, h)
<1>1. /\ [i \in 1..h |-> Burned(d[i])] = [i \in 1..h |-> Burned(e[i])]
      /\ [i \in 1..h |-> Minted(d[i])] = [i \in 1..h |-> Minted(e[i])]
  OBVIOUS
<1> QED
  BY <1>1 DEF BurnedIn, MintedIn

LEMMA SumsStart ==
    ASSUME NEW d
    PROVE  BurnedIn(d, 0) = 0 /\ MintedIn(d, 0) = 0
<1>1. 1..0 = {}
  OBVIOUS
<1>2. PICK f, g : f = [i \in 1..0 |-> Burned(d[i])] /\ g = [i \in 1..0 |-> Minted(d[i])]
  OBVIOUS
<1>3. SumFunction(f) = 0 /\ SumFunction(g) = 0
  BY <1>1, <1>2, SumEmpty, SumOfFunction
<1> QED
  BY <1>2, <1>3 DEF BurnedIn, MintedIn

LEMMA BlockSums ==
    ASSUME NEW b, b \in Wire \cup Block
    PROVE  Burned(b) \in Nat /\ Minted(b) \in Nat
<1>1. PICK L \in Nat : L = Len(b.txs)
  BY DEF Wire, Block
<1>2. \A k \in 1..L : b.txs[k].fee \in Nat
  BY <1>1, TxFacts DEF Tx
<1>3. PICK f : f = [k \in 1..L |-> b.txs[k].fee]
  OBVIOUS
<1>4. L \in Int /\ IsFiniteSet(1..L)
  BY FS_Interval
<1>5. SumFunction(f) \in Nat
  BY <1>2, <1>3, <1>4, SumNat, SumOfFunction
<1>6. Fees(b.txs) \in Nat
  BY <1>1, <1>3, <1>5 DEF Fees
<1> QED
  BY <1>6, ChainAssumption DEF Burned, Minted

LEMMA SumsAreNat ==
    ASSUME NEW h \in Nat, NEW d, \A i \in 1..h : d[i] \in Block
    PROVE  BurnedIn(d, h) \in Nat /\ MintedIn(d, h) \in Nat
<1>1. PICK f, g : f = [i \in 1..h |-> Burned(d[i])] /\ g = [i \in 1..h |-> Minted(d[i])]
  OBVIOUS
<1>2. \A i \in 1..h : f[i] \in Nat /\ g[i] \in Nat
  BY <1>1, BlockSums
<1>3. h \in Int /\ IsFiniteSet(1..h)
  BY FS_Interval
<1>4. SumFunction(f) \in Nat /\ SumFunction(g) \in Nat
  BY <1>1, <1>2, <1>3, SumNat, SumOfFunction
<1> QED
  BY <1>1, <1>4 DEF BurnedIn, MintedIn

LEMMA SumsGrow ==
    ASSUME NEW h \in Nat, NEW d, NEW e, \A i \in 1..h : d[i] \in Block /\ d[i] = e[i],
           e[h + 1] \in Block
    PROVE  /\ BurnedIn(e, h + 1) = BurnedIn(d, h) + Burned(e[h + 1])
           /\ MintedIn(e, h + 1) = MintedIn(d, h) + Minted(e[h + 1])
<1>1. PICK f, g : f = [i \in 1..h |-> Burned(d[i])] /\ g = [i \in 1..h |-> Minted(d[i])]
  OBVIOUS
<1>2. PICK u, v : u = [i \in 1..h + 1 |-> Burned(e[i])] /\ v = [i \in 1..h + 1 |-> Minted(e[i])]
  OBVIOUS
<1>3. \A k \in 1..h : k \in 1..h + 1
  OBVIOUS
<1>4. \A k \in 1..h : f[k] \in Int /\ u[k] = f[k] /\ g[k] \in Int /\ v[k] = g[k]
  BY <1>1, <1>2, <1>3, BlockSums
<1>5. h + 1 \in 1..h + 1
  OBVIOUS
<1>6. /\ u[h + 1] = Burned(e[h + 1]) /\ v[h + 1] = Minted(e[h + 1])
      /\ u[h + 1] \in Int /\ v[h + 1] \in Int
  BY <1>2, <1>5, BlockSums
<1> DOMAIN f = 1..h /\ DOMAIN g = 1..h /\ DOMAIN u = 1..h + 1 /\ DOMAIN v = 1..h + 1
  BY <1>1, <1>2
<1>7. SumFunction(u) = SumFunction(f) + u[h + 1]
  BY <1>4, <1>6, SumExtends
<1>8. SumFunction(v) = SumFunction(g) + v[h + 1]
  BY <1>4, <1>6, SumExtends
<1> QED
  BY <1>1, <1>2, <1>6, <1>7, <1>8 DEF BurnedIn, MintedIn

-----------------------------------------------------------------------------
(* The invariant of the money, in parts. *)

\* Every transfer that may come to be executed has a cost that does not wrap.
OrdinaryInv ==
    /\ \A tx \in pool : Ordinary(tx)
    /\ dripping # NoTx => Ordinary(dripping)
    /\ \A k \in 1..Len(mtxs) : Ordinary(mtxs[k])
    /\ phase = "sim" => \A k \in 1..Len(blk.txs) : Ordinary(blk.txs[k])

\* What the blocks made so far could bring, one reward each.
FitInv ==
    /\ hashes \in 1..MaxHash + 1 /\ (~running => hashes <= MaxHash)
    /\ Balances(state) + (IF phase = "sim" THEN Reward ELSE 0) <= SumFunction(Alloc) + Reward * (hashes - 1)

\* The simulation only burns fees.
BurnInv == phase = "sim" => Balances(sim) + PartBurned(blk, pos - 1) = Balances(state)

\* While a block is committed and not written its own sums are not yet the chain's.
Accounted ==
    IF phase = "putblock"
    THEN Balances(state) + BurnedIn(disk, height) + Burned(blk)
           = SumFunction(Alloc) + MintedIn(disk, height) + Minted(blk)
    ELSE Balances(state) + BurnedIn(disk, height) = SumFunction(Alloc) + MintedIn(disk, height)

MoneyInv ==
    /\ OrdinaryInv /\ FitInv /\ BurnInv
    /\ running /\ ~tainted => Accounted

LEMMA Times ==
    ASSUME NEW r \in Nat, NEW n \in Nat, NEW m \in Nat, n <= m
    PROVE  r * n \in Nat /\ r * n <= r * m /\ r * (n + 1) = r * n + r
<1>1. PICK d \in Nat : d = m - n
  OBVIOUS
<1>2. r * m = r * n + r * d
  BY <1>1
<1>3. r * n \in Nat /\ r * d \in Nat
  OBVIOUS
<1>4. r * (n + 1) = r * n + r
  OBVIOUS
<1> QED
  BY <1>2, <1>3, <1>4

\* So no balance wraps.
LEMMA BalancesFit ==
    ASSUME IInv, MoneyInv, NoOverflow
    PROVE  /\ Balances(state) \in Nat /\ Balances(state) < Word
           /\ phase = "sim" => /\ Balances(sim) \in Nat /\ Balances(sim) <= Balances(state)
                               /\ Balances(sim) + Reward < Word
<1>1. IsFiniteSet(Addr) /\ state \in State /\ sim \in State
  BY DEF NoOverflow, IInv, TypeOK
<1>2. Balances(state) \in Nat /\ Balances(sim) \in Nat /\ SumFunction(Alloc) \in Nat
  BY <1>1, BalancesNat, GenesisBalances
<1>3. hashes \in 1..MaxHash + 1 /\ Reward \in Nat /\ MaxHash \in Nat /\ Word \in Nat
  BY ChainAssumption DEF MoneyInv, FitInv
<1>4. PICK n \in Nat : n = hashes - 1
  BY <1>3
<1>5. Reward * n \in Nat /\ Reward * n <= Reward * MaxHash /\ Reward * MaxHash \in Nat
  BY <1>3, <1>4, Times
<1>6. SumFunction(Alloc) + Reward * n < Word
  BY <1>2, <1>3, <1>5 DEF NoOverflow
<1>7. Balances(state) + (IF phase = "sim" THEN Reward ELSE 0) <= SumFunction(Alloc) + Reward * n
  BY <1>4 DEF MoneyInv, FitInv
<1>8. Balances(state) < Word /\ (phase = "sim" => Balances(state) + Reward < Word)
  BY <1>2, <1>3, <1>5, <1>6, <1>7
<1>9. ASSUME phase = "sim"
      PROVE  Balances(sim) <= Balances(state)
  <2>1. blk \in Wire /\ pos \in 1..Len(blk.txs) + 1
    BY <1>9 DEF IInv, TypeOK, LockInv
  <2>2. PICK L \in Nat : L = Len(blk.txs)
    BY <2>1 DEF Wire
  <2>3. PICK n0 : n0 = pos - 1
    OBVIOUS
  <2>4. n0 \in 0..Len(blk.txs)
    BY <2>1, <2>2, <2>3
  <2>5. PartBurned(blk, n0) \in Nat
    BY <2>1, <2>4, BurnsMore
  <2>6. Balances(sim) + PartBurned(blk, n0) = Balances(state)
    BY <1>9, <2>3 DEF MoneyInv, BurnInv
  <2> QED
    BY <1>2, <2>5, <2>6
<1> QED
  BY <1>2, <1>3, <1>8, <1>9

-----------------------------------------------------------------------------
(* Every step keeps it. *)

LEMMA StillMoney ==
    ASSUME MoneyInv, OrdinaryInv',
           UNCHANGED <<disk, height, running, state, tainted, hashes, phase, blk, sim, pos>>
    PROVE  MoneyInv'
<1>1. Balances(state)' = Balances(state) /\ Balances(sim)' = Balances(sim)
  OBVIOUS
<1>2. FitInv'
  BY <1>1 DEF MoneyInv, FitInv
<1>3. BurnInv'
  BY <1>1 DEF MoneyInv, BurnInv
<1>4. running' /\ ~tainted' => Accounted'
  BY <1>1 DEF MoneyInv, Accounted
<1> QED
  BY <1>2, <1>3, <1>4 DEF MoneyInv

LEMMA PendingFrom ==
    ASSUME NEW p \in SUBSET Tx, IsFiniteSet(p), NEW list \in PendingLists(p)
    PROVE  \A k \in 1..Len(list) : list[k] \in p
<1>1. PICK T \in SUBSET p : list \in Orders(T)
  BY DEF PendingLists
<1>2. Cardinality(T) \in Nat
  BY FS_Subset, FS_CardinalityType
<1>3. list \in [1..Cardinality(T) -> T]
  BY <1>1 DEF Orders
<1>4. Len(list) = Cardinality(T)
  BY <1>2, <1>3
<1> QED
  BY <1>3, <1>4

LEMMA PoolMoney ==
    ASSUME IInv, MoneyInv, NoOverflow,
           \/ \E tx \in Txs : ValidateTx(tx) \/ AddTx(tx)
           \/ (\E x \in Addr : DripBuild(x) \/ CooldownOver(x)) \/ DripSend
           \/ MineTick \/ RemoveIncluded
    PROVE  MoneyInv'
<1> USE DEF storeVars, chainVars, lockVars, poolVars, mineVars, faucetVars
<1>1. UNCHANGED <<disk, height, running, state, tainted, hashes, phase, blk, sim, pos>>
  BY DEF ValidateTx, AddTx, DripBuild, CooldownOver, DripSend, MineTick, RemoveIncluded
<1>2. /\ \A tx \in pool : Ordinary(tx)
      /\ dripping # NoTx => Ordinary(dripping)
      /\ \A k \in 1..Len(mtxs) : Ordinary(mtxs[k])
      /\ phase = "sim" => \A k \in 1..Len(blk.txs) : Ordinary(blk.txs[k])
  BY DEF MoneyInv, OrdinaryInv
<1>3. \A tx \in pool' : Ordinary(tx)
  <2>1. CASE \E tx \in Txs : AddTx(tx)
    <3>1. PICK tx \in Txs : AddTx(tx)
      BY <2>1
    <3>2. Ordinary(tx)
      BY DEF NoOverflow, Ordinary
    <3> QED
      BY <1>2, <3>1, <3>2 DEF AddTx, WithTx
  <2>2. CASE DripSend
    BY <1>2, <2>2 DEF DripSend, WithTx
  <2>3. CASE RemoveIncluded
    BY <1>2, <2>3 DEF RemoveIncluded, WithoutTxs
  <2>4. CASE UNCHANGED pool
    BY <1>2, <2>4
  <2> QED
    BY <2>1, <2>2, <2>3, <2>4 DEF ValidateTx, DripBuild, CooldownOver, MineTick
<1>4. dripping' # NoTx => Ordinary(dripping')
  <2>1. CASE \E x \in Addr : DripBuild(x)
    <3>1. PICK x \in Addr : DripBuild(x)
      BY <2>1
    <3>2. dripping'.amount = Drip /\ dripping'.fee = 0
      BY <3>1 DEF DripBuild, FaucetTx
    <3>3. Drip + 0 < Word
      BY ChainAssumption DEF NoOverflow
    <3> QED
      BY <3>2, <3>3 DEF Ordinary
  <2>2. CASE dripping' \in {dripping, NoTx}
    BY <1>2, <2>2
  <2> QED
    BY <2>1, <2>2 DEF ValidateTx, AddTx, CooldownOver, DripSend, MineTick, RemoveIncluded
<1>5. \A k \in 1..Len(mtxs') : Ordinary(mtxs'[k])
  <2>1. CASE MineTick
    <3>1. PICK list \in PendingLists(pool) : mtxs' = list
      BY <2>1 DEF MineTick
    <3>2. \A k \in 1..Len(list) : list[k] \in pool
      BY PendingFrom DEF IInv, TypeOK
    <3> QED
      BY <1>2, <3>1, <3>2
  <2>2. CASE RemoveIncluded
    BY <2>2 DEF RemoveIncluded
  <2>3. CASE UNCHANGED mtxs
    BY <1>2, <2>3
  <2> QED
    BY <2>1, <2>2, <2>3 DEF ValidateTx, AddTx, DripBuild, CooldownOver, DripSend
<1>6. OrdinaryInv'
  BY <1>1, <1>2, <1>3, <1>4, <1>5 DEF OrdinaryInv
<1> QED
  BY <1>1, <1>6, StillMoney

\* One block more may be rewarded.
LEMMA OneHashMore ==
    ASSUME MoneyInv, NoOverflow, hashes' = hashes + 1
    PROVE  /\ hashes \in Nat /\ Reward * (hashes - 1) \in Nat
           /\ Reward * (hashes' - 1) = Reward * (hashes - 1) + Reward
<1>1. hashes \in 1..MaxHash + 1 /\ Reward \in Nat /\ MaxHash \in Nat
  BY ChainAssumption DEF MoneyInv, FitInv
<1>2. PICK n \in Nat : n = hashes - 1
  BY <1>1
<1>3. hashes' - 1 = n + 1
  BY <1>1, <1>2
<1> QED
  BY <1>1, <1>2, <1>3, Times

LEMMA ExecuteMoney ==
    ASSUME IInv, MoneyInv, NoOverflow, phase = "idle", NEW w, w \in Wire, running,
           \A k \in 1..Len(w.txs) : Ordinary(w.txs[k]),
           phase' = "sim", blk' = w, sim' = state, pos' = 1,
           hashes' = hashes + 1, hashes < MaxHash,
           UNCHANGED <<disk, height, running, state, tainted, pool, dripping, mtxs>>
    PROVE  MoneyInv'
<1>1. OrdinaryInv'
  BY DEF MoneyInv, OrdinaryInv
<1>2. FitInv'
  <2>1. hashes' \in 1..MaxHash + 1
    BY ChainAssumption DEF MoneyInv, FitInv
  <2>2. Balances(state) <= SumFunction(Alloc) + Reward * (hashes - 1) /\ Balances(state) \in Nat
    BY BalancesFit DEF MoneyInv, FitInv
  <2>3. SumFunction(Alloc) \in Nat /\ Reward \in Nat
    BY GenesisBalances, ChainAssumption DEF NoOverflow
  <2>4. Balances(state) + Reward <= SumFunction(Alloc) + Reward * (hashes' - 1)
    BY <2>2, <2>3, OneHashMore
  <2> QED
    BY <2>1, <2>4 DEF FitInv
<1>3. BurnInv'
  <2>1. 0 \in 0..Len(w.txs)
    BY DEF Wire
  <2>2. PartBurned(w, 0) = 0
    BY <2>1, BurnsMore
  <2>3. pos' - 1 = 0 /\ Balances(state) \in Nat /\ Balances(sim') = Balances(state) /\ Balances(state') = Balances(state)
    BY BalancesFit
  <2>4. Balances(sim') + PartBurned(blk', pos' - 1) = Balances(state')
    BY <2>2, <2>3
  <2> QED
    BY <2>4 DEF BurnInv
<1>4. running' /\ ~tainted' => Accounted'
  BY DEF MoneyInv, Accounted
<1> QED
  BY <1>1, <1>2, <1>3, <1>4 DEF MoneyInv

LEMMA MineBeginMoney == ASSUME IInv, MoneyInv, NoOverflow, MineBegin PROVE MoneyInv'
<1>1. PICK w : w = [idx |-> Tip.idx + 1, hash |-> hashes + 1, prev |-> Tip.hash,
                    txs |-> mtxs, miner |-> Miner, rootOk |-> TRUE, pow |-> TRUE]
  OBVIOUS
<1>2. /\ running /\ phase = "idle" /\ Tip # NoBlock /\ hashes < MaxHash
      /\ hashes' = hashes + 1 /\ Execute(w, TRUE)
      /\ UNCHANGED <<disk, height, running, state, tainted, pool, dripping, mtxs>>
  BY <1>1 DEF MineBegin, storeVars, poolVars, faucetVars
<1>3. Tip.idx = height /\ Tip.hash \in Nat /\ height \in Nat
  BY <1>2, TipFacts DEF IInv, TypeOK
<1>4. w \in Wire
  BY <1>1, <1>3, ChainAssumption DEF IInv, TypeOK, Wire
<1>5. \A k \in 1..Len(w.txs) : Ordinary(w.txs[k])
  BY <1>1 DEF MoneyInv, OrdinaryInv
<1> QED
  BY <1>2, <1>4, <1>5, ExecuteMoney DEF Execute

LEMMA ReceiveBlockMoney == ASSUME IInv, MoneyInv, NoOverflow, ReceiveBlock PROVE MoneyInv'
<1>1. /\ running /\ phase = "idle" /\ Tip # NoBlock /\ hashes < MaxHash
      /\ UNCHANGED <<disk, height, running, state, tainted, pool, dripping, mtxs>>
  BY DEF ReceiveBlock, storeVars, poolVars, mineVars, faucetVars
<1>2. PICK w \in PeerWires :
        IF Verdict(w, w.pow, Tip) = "apply"
        THEN Execute(w, FALSE) /\ hashes' = hashes + 1
        ELSE UNCHANGED <<lockVars, hashes>>
  BY DEF ReceiveBlock
<1>3. CASE Verdict(w, w.pow, Tip) = "apply"
  <2>1. w \in Wire /\ w.idx = height + 1
    BY <1>1, <1>3, PeerWireFacts
  <2>2. w.txs \in UNION {[1..n -> Txs] : n \in 0..MaxPeerTxs}
    <3>1. height \in Nat
      BY ChainAssumption DEF IInv, TypeOK
    <3>2. ASSUME NEW i \in 1..height, w = [idx |-> i, hash |-> disk[i].hash, prev |-> disk[i].prev,
                     txs |-> disk[i].txs, miner |-> disk[i].miner, rootOk |-> TRUE, pow |-> TRUE]
          PROVE  FALSE
      BY <2>1, <3>1, <3>2
    <3> QED
      BY <3>2 DEF PeerWires
  <2>3. PICK n \in 0..MaxPeerTxs : w.txs \in [1..n -> Txs]
    BY <2>2
  <2>4. Len(w.txs) = n
    BY <2>3, ChainAssumption
  <2>5. \A k \in 1..Len(w.txs) : Ordinary(w.txs[k])
    BY <2>3, <2>4 DEF NoOverflow, Ordinary
  <2> QED
    BY <1>1, <1>2, <1>3, <2>1, <2>5, ExecuteMoney DEF Execute
<1>4. CASE Verdict(w, w.pow, Tip) # "apply"
  <2>1. UNCHANGED <<disk, height, running, state, tainted, hashes, phase, blk, sim, pos, pool, dripping, mtxs>>
    BY <1>1, <1>2, <1>4 DEF lockVars
  <2>2. OrdinaryInv'
    BY <2>1 DEF MoneyInv, OrdinaryInv
  <2> QED
    BY <2>1, <2>2, StillMoney
<1> QED
  BY <1>3, <1>4

\* A genesis block carries the allocation and nothing else.
LEMMA GenesisMoney ==
    ASSUME IInv, MoneyInv, NoOverflow, hashes' = hashes + 1, height' = 0, state' = GenesisState,
           phase' = "idle", hashes' \in 1..MaxHash + 1, ~running' => hashes' <= MaxHash,
           UNCHANGED <<pool, dripping, mtxs>>
    PROVE  MoneyInv'
<1>1. Balances(state') = SumFunction(Alloc) /\ SumFunction(Alloc) \in Nat
  BY GenesisBalances DEF NoOverflow
<1>2. BurnedIn(disk', height') = 0 /\ MintedIn(disk', height') = 0
  BY SumsStart
<1>3. Accounted'
  BY <1>1, <1>2 DEF Accounted
<1>4. Reward * (hashes' - 1) \in Nat
  BY OneHashMore, ChainAssumption
<1>5. Balances(state') + 0 <= SumFunction(Alloc) + Reward * (hashes' - 1)
  BY <1>1, <1>4
<1>6. FitInv'
  BY <1>5 DEF FitInv
<1>7. OrdinaryInv' /\ BurnInv'
  BY DEF MoneyInv, OrdinaryInv, BurnInv
<1> QED
  BY <1>3, <1>6, <1>7 DEF MoneyInv

LEMMA ReceiveGenesisMoney ==
    ASSUME IInv, MoneyInv, NoOverflow, ReceiveGenesis \/ ReceiveGenesisFails
    PROVE  MoneyInv'
<1>1. PeerGenesis /\ hashes < MaxHash
  BY DEF ReceiveGenesis, ReceiveGenesisFails, PeerGenesis
<1>2. running /\ phase = "idle" /\ height = 0 /\ AfterAlloc(state) = GenesisState
  BY <1>1, PeerGenesisFacts
<1>3. /\ hashes' = hashes + 1 /\ height' = 0 /\ state' = GenesisState /\ phase' = "idle" /\ running'
      /\ UNCHANGED <<pool, dripping, mtxs>>
  BY <1>2 DEF ReceiveGenesis, ReceiveGenesisFails, lockVars, poolVars, mineVars, faucetVars
<1>4. hashes' \in 1..MaxHash + 1
  BY <1>1, <1>3, ChainAssumption DEF MoneyInv, FitInv
<1> QED
  BY <1>3, <1>4, GenesisMoney

LEMMA StartMoney ==
    ASSUME IInv, MoneyInv, NoOverflow, Start \/ StartFails
    PROVE  MoneyInv'
<1>1. ~running /\ phase = "idle" /\ height = 0 /\ state = GenesisState /\ metaDisk \in Nat
  BY ChainAssumption DEF Start, StartFails, IInv, DownInv, TypeOK
<1>2. hashes \in 1..MaxHash + 1 /\ hashes <= MaxHash /\ MaxHash \in Nat
  BY <1>1, ChainAssumption DEF MoneyInv, FitInv
<1>3. CASE Start /\ metaDisk = 0
  <2>1. /\ hashes' = hashes + 1 /\ height' = 0 /\ state' = GenesisState /\ phase' = "idle" /\ running'
        /\ UNCHANGED <<pool, dripping, mtxs>>
    BY <1>1, <1>3 DEF Start, NewGenesis, lockVars, poolVars, mineVars, faucetVars
  <2>2. hashes' \in 1..MaxHash + 1
    BY <1>2, <2>1
  <2> QED
    BY <2>1, <2>2, GenesisMoney
<1>4. CASE Start /\ metaDisk # 0
  <2>1. UNCHANGED vars
    <3>1. metaDisk > 0 /\ Rebuild
      BY <1>1, <1>4 DEF Start
    <3> QED
      BY <3>1, RebuildRefused
  <2>2. UNCHANGED <<disk, height, running, state, tainted, hashes, phase, blk, sim, pos, pool, dripping, mtxs>>
    BY <2>1 DEF vars
  <2>3. OrdinaryInv'
    BY <2>2 DEF MoneyInv, OrdinaryInv
  <2> QED
    BY <2>2, <2>3, StillMoney
<1>5. CASE StartFails
  <2>1. /\ hashes' = hashes + 1 /\ height' = 0 /\ state' = GenesisState /\ phase' = "idle" /\ ~running'
        /\ hashes < MaxHash /\ UNCHANGED <<pool, dripping, mtxs>>
    BY <1>1, <1>5 DEF StartFails, lockVars, poolVars, mineVars, faucetVars
  <2>2. hashes' \in 1..MaxHash + 1 /\ hashes' <= MaxHash
    BY <1>2, <2>1
  <2> QED
    BY <2>1, <2>2, GenesisMoney
<1> QED
  BY <1>3, <1>4, <1>5

LEMMA ExecTxMoney == ASSUME IInv, MoneyInv, NoOverflow, ExecTx PROVE MoneyInv'
<1>1. PICK tx : tx = blk.txs[pos]
  OBVIOUS
<1>2. PICK n : n = pos
  OBVIOUS
<1>3. /\ phase = "sim" /\ Accepts(sim, tx) /\ sim' = AfterTx(sim, tx, blk.miner) /\ pos' = n + 1
      /\ UNCHANGED <<disk, height, running, state, tainted, hashes, phase, blk, pool, dripping, mtxs>>
      /\ blk \in Wire /\ n \in 1..Len(blk.txs)
  BY <1>1, <1>2 DEF ExecTx, IInv, TypeOK, LockInv, Wire, storeVars, chainVars, poolVars, mineVars, faucetVars
<1>4. tx \in Tx /\ blk.miner \in Miners /\ sim \in State /\ Ordinary(tx)
  BY <1>1, <1>2, <1>3, TxFacts DEF Wire, IInv, TypeOK, MoneyInv, OrdinaryInv
<1>5. Balances(sim) \in Nat /\ Balances(sim) < Word /\ Balances(state) \in Nat
  BY <1>3, BalancesFit, ChainAssumption
<1>6. PICK f : f = IF blk.miner = NoMiner THEN tx.fee ELSE 0
  OBVIOUS
<1>7. Balances(sim') = Balances(sim) - f
  BY <1>3, <1>4, <1>5, <1>6, AfterTxBalances DEF NoOverflow
<1>8. n \in 0..Len(blk.txs) /\ n > 0 /\ n \in Nat /\ n - 1 \in 0..Len(blk.txs)
  <2>1. PICK L \in Nat : L = Len(blk.txs)
    BY <1>3 DEF Wire
  <2> QED
    BY <1>3, <2>1
<1>9. PartBurned(blk, n) = PartBurned(blk, n - 1) + f /\ PartBurned(blk, n) \in Nat /\ PartBurned(blk, n - 1) \in Nat
  BY <1>1, <1>2, <1>3, <1>6, <1>8, BurnsMore
<1>10. Balances(sim) + PartBurned(blk, n - 1) = Balances(state)
  BY <1>2, <1>3 DEF MoneyInv, BurnInv
<1>11. f \in Nat
  BY <1>4, <1>6 DEF Tx
<1>12. BurnInv'
  <2>1. pos' - 1 = n
    BY <1>3, <1>8
  <2>2. Balances(sim') + PartBurned(blk, n) = Balances(state)
    BY <1>5, <1>7, <1>9, <1>10, <1>11
  <2>3. Balances(state') = Balances(state) /\ PartBurned(blk', pos' - 1) = PartBurned(blk, n)
    BY <1>3, <2>1
  <2> QED
    BY <2>2, <2>3 DEF BurnInv
<1>13. OrdinaryInv' /\ FitInv'
  BY <1>3 DEF MoneyInv, OrdinaryInv, FitInv
<1>14. running' /\ ~tainted' => Accounted'
  BY <1>3 DEF MoneyInv, Accounted
<1> QED
  BY <1>12, <1>13, <1>14 DEF MoneyInv

\* The reward of the block is what its hash made room for.
LEMMA ExecCommitMoney == ASSUME IInv, MoneyInv, NoOverflow, ExecCommit PROVE MoneyInv'
<1>1. /\ phase = "sim" /\ phase' = "putblock" /\ state' = AfterReward(sim, blk.miner)
      /\ UNCHANGED <<disk, height, running, tainted, hashes, blk, sim, pos, pool, dripping, mtxs>>
      /\ blk \in Wire /\ sim \in State /\ blk.miner \in Miners
  BY DEF ExecCommit, IInv, TypeOK, Wire, storeVars, poolVars, mineVars, faucetVars
<1>2. PICK L \in Nat : L = Len(blk.txs)
  BY <1>1 DEF Wire
<1>3. pos - 1 = L
  BY <1>1, <1>2 DEF ExecCommit, IInv, LockInv
<1>4. /\ Balances(sim) \in Nat /\ Balances(sim) + Reward < Word /\ Balances(state) \in Nat
      /\ Balances(sim) <= Balances(state) /\ Reward \in Nat
  BY <1>1, BalancesFit, ChainAssumption
<1>5. Balances(state') = Balances(sim) + Minted(blk)
  BY <1>1, <1>4, RewardBalances DEF Minted, NoOverflow
<1>6. Balances(sim) + Burned(blk) = Balances(state)
  BY <1>1, <1>2, <1>3, AllBurned DEF MoneyInv, BurnInv
<1>7. Minted(blk) \in Nat /\ Burned(blk) \in Nat /\ Minted(blk) <= Reward
  BY <1>1, <1>4, BlockSums DEF Minted
<1>8. FitInv'
  <2>1. Balances(state) + Reward <= SumFunction(Alloc) + Reward * (hashes - 1)
    BY <1>1 DEF MoneyInv, FitInv
  <2>2. SumFunction(Alloc) + Reward * (hashes - 1) \in Int
    <3>1. SumFunction(Alloc) \in Nat /\ hashes \in Nat /\ Reward \in Nat
      BY GenesisBalances, ChainAssumption DEF NoOverflow, IInv, TypeOK
    <3> QED
      BY <3>1
  <2>3. Balances(state') + 0 <= SumFunction(Alloc) + Reward * (hashes - 1)
    BY <1>4, <1>5, <1>7, <2>1, <2>2
  <2> QED
    BY <1>1, <2>3 DEF MoneyInv, FitInv
<1>9. running' /\ ~tainted' => Accounted'
  <2> SUFFICES ASSUME running, ~tainted
               PROVE  Accounted'
    BY <1>1
  <2>1. Balances(state) + BurnedIn(disk, height) = SumFunction(Alloc) + MintedIn(disk, height)
    BY <1>1 DEF MoneyInv, Accounted
  <2>2. BurnedIn(disk, height) \in Nat /\ MintedIn(disk, height) \in Nat /\ SumFunction(Alloc) \in Nat
    <3>1. height \in Nat /\ \A i \in 1..height : disk[i] \in Block
      BY ChainBlockFacts, ChainAssumption DEF IInv, TypeOK
    <3> QED
      BY <3>1, SumsAreNat, GenesisBalances DEF NoOverflow
  <2>3. Balances(state') + BurnedIn(disk, height) + Burned(blk)
          = SumFunction(Alloc) + MintedIn(disk, height) + Minted(blk)
    BY <1>4, <1>5, <1>6, <1>7, <2>1, <2>2
  <2> QED
    BY <1>1, <2>3 DEF Accounted
<1>10. OrdinaryInv' /\ BurnInv'
  BY <1>1 DEF MoneyInv, OrdinaryInv, BurnInv
<1> QED
  BY <1>8, <1>9, <1>10 DEF MoneyInv

\* The block becomes one of the chain.
LEMMA PutBlockFileMoney == ASSUME IInv, MoneyInv, NoOverflow, PutBlockFile PROVE MoneyInv'
<1>1. /\ running /\ phase = "putblock" /\ phase' = "putmeta"
      /\ disk' = [disk EXCEPT ![blk.idx] = Stored(blk, state)]
      /\ height' = IF blk.idx > height THEN blk.idx ELSE height
      /\ UNCHANGED <<running, state, tainted, hashes, blk, sim, pos, pool, dripping, mtxs>>
  BY DEF PutBlockFile, chainVars, poolVars, mineVars, faucetVars
<1>2. blk \in Wire /\ blk.idx = height + 1 /\ blk.idx \in 1..MaxHeight /\ height \in Nat
  BY <1>1, AboveTip
<1>3. height' = height + 1
  BY <1>1, <1>2
<1>4. /\ DOMAIN disk = 0..MaxHeight /\ height + 1 \in 0..MaxHeight
      /\ \A i \in 1..height : disk[i] \in Block
  BY <1>1, <1>2, ChainBlockFacts, ChainAssumption DEF IInv, TypeOK
<1>5. Stored(blk, state) \in Block
  BY <1>2 DEF Stored, Wire, Block, IInv, TypeOK
<1>6. \A i \in 1..height : disk'[i] = disk[i]
  BY <1>1, <1>2
<1>7. disk'[height + 1] = Stored(blk, state)
  BY <1>1, <1>2, <1>4
<1>8. PICK d, e : d = disk /\ e = disk'
  OBVIOUS
<1>9. /\ BurnedIn(e, height + 1) = BurnedIn(d, height) + Burned(e[height + 1])
      /\ MintedIn(e, height + 1) = MintedIn(d, height) + Minted(e[height + 1])
  BY <1>2, <1>4, <1>5, <1>6, <1>7, <1>8, SumsGrow
<1>10. Burned(Stored(blk, state)) = Burned(blk) /\ Minted(Stored(blk, state)) = Minted(blk)
  BY DEF Burned, Minted, Stored
<1>11. running' /\ ~tainted' => Accounted'
  <2> SUFFICES ASSUME ~tainted
               PROVE  Accounted'
    BY <1>1
  <2>1. Balances(state) + BurnedIn(disk, height) + Burned(blk)
          = SumFunction(Alloc) + MintedIn(disk, height) + Minted(blk)
    BY <1>1 DEF MoneyInv, Accounted
  <2>2. /\ BurnedIn(disk, height) \in Nat /\ MintedIn(disk, height) \in Nat /\ SumFunction(Alloc) \in Nat
        /\ Burned(blk) \in Nat /\ Minted(blk) \in Nat /\ Balances(state) \in Nat
    BY <1>2, <1>4, SumsAreNat, BlockSums, GenesisBalances, BalancesFit DEF NoOverflow
  <2>3. Balances(state) + (BurnedIn(disk, height) + Burned(blk))
          = SumFunction(Alloc) + (MintedIn(disk, height) + Minted(blk))
    BY <2>1, <2>2
  <2>4. Balances(state') + BurnedIn(disk', height') = SumFunction(Alloc) + MintedIn(disk', height')
    BY <1>1, <1>3, <1>7, <1>8, <1>9, <1>10, <2>3
  <2> QED
    BY <1>1, <2>4 DEF Accounted
<1>12. OrdinaryInv' /\ FitInv' /\ BurnInv'
  BY <1>1 DEF MoneyInv, OrdinaryInv, FitInv, BurnInv
<1> QED
  BY <1>11, <1>12 DEF MoneyInv

\* The lock is released, by a block that failed or one that is written.
LEMMA ReleaseMoney ==
    ASSUME IInv, MoneyInv, NoOverflow, ExecFails \/ PutBlockFileFails \/ PutMeta \/ PutMetaFails
    PROVE  MoneyInv'
<1>1. /\ phase # "idle" /\ phase' = "idle" /\ UNCHANGED <<height, running, state, hashes, pool, dripping, mtxs>>
      /\ phase = "putblock" => tainted'
      /\ ~tainted' => disk' = disk /\ ~tainted
  BY DEF ExecFails, PutBlockFileFails, PutMeta, PutMetaFails, Release, storeVars, chainVars, poolVars, faucetVars
<1>2. OrdinaryInv' /\ BurnInv'
  BY <1>1 DEF MoneyInv, OrdinaryInv, BurnInv
<1>3. FitInv'
  <2>1. Balances(state) \in Nat /\ Reward \in Nat /\ SumFunction(Alloc) \in Nat /\ hashes \in Nat
    BY BalancesFit, GenesisBalances, ChainAssumption DEF NoOverflow, IInv, TypeOK
  <2>2. Balances(state) + 0 <= SumFunction(Alloc) + Reward * (hashes - 1)
    BY <2>1 DEF MoneyInv, FitInv
  <2> QED
    BY <1>1, <2>2 DEF MoneyInv, FitInv
<1>4. running' /\ ~tainted' => Accounted'
  BY <1>1 DEF MoneyInv, Accounted
<1> QED
  BY <1>2, <1>3, <1>4 DEF MoneyInv

LEMMA StopMoney == ASSUME IInv, MoneyInv, NoOverflow, Stop PROVE MoneyInv'
<1>1. /\ ~running' /\ phase' = "idle" /\ state' = GenesisState /\ hashes' = hashes /\ hashes < MaxHash
      /\ pool' = {} /\ dripping' = NoTx /\ mtxs' = <<>>
  BY DEF Stop, Release
<1>2. OrdinaryInv' /\ BurnInv'
  BY <1>1 DEF OrdinaryInv, BurnInv
<1>3. FitInv'
  <2>1. Reward \in Nat /\ SumFunction(Alloc) \in Nat /\ hashes \in 1..MaxHash + 1 /\ MaxHash \in Nat
    BY GenesisBalances, ChainAssumption DEF NoOverflow, MoneyInv, FitInv
  <2>2. PICK n \in Nat : n = hashes - 1
    BY <2>1
  <2>3. Reward * n \in Nat
    BY <2>1
  <2>4. Balances(state') + 0 <= SumFunction(Alloc) + Reward * (hashes - 1)
    BY <1>1, <2>1, <2>2, <2>3, GenesisBalances
  <2> QED
    BY <1>1, <2>1, <2>4 DEF FitInv
<1> QED
  BY <1>1, <1>2, <1>3 DEF MoneyInv

LEMMA InitMoney == ASSUME Init, NoOverflow PROVE MoneyInv
<1>1. hashes \in 1..MaxHash + 1 /\ running
  BY ChainAssumption DEF Init
<1>2. Balances(state) = SumFunction(Alloc) /\ SumFunction(Alloc) \in Nat
  BY GenesisBalances DEF Init, NoOverflow
<1>3. Reward * (hashes - 1) = 0
  BY ChainAssumption DEF Init
<1>4. FitInv
  BY <1>1, <1>2, <1>3 DEF Init, FitInv
<1>5. BurnedIn(disk, 0) = 0 /\ MintedIn(disk, 0) = 0
  BY SumsStart
<1>6. Accounted
  BY <1>2, <1>5 DEF Init, Accounted
<1>7. OrdinaryInv /\ BurnInv
  BY DEF Init, OrdinaryInv, BurnInv
<1> QED
  BY <1>4, <1>6, <1>7 DEF MoneyInv

LEMMA StepMoney == ASSUME IInv, MoneyInv, NoOverflow, [Next]_vars PROVE MoneyInv'
<1>1. CASE UNCHANGED vars
  <2>1. UNCHANGED <<disk, height, running, state, tainted, hashes, phase, blk, sim, pos, pool, dripping, mtxs>>
    BY <1>1 DEF vars
  <2>2. OrdinaryInv'
    BY <2>1 DEF MoneyInv, OrdinaryInv
  <2> QED
    BY <2>1, <2>2, StillMoney
<1>2. CASE (\E tx \in Txs : ValidateTx(tx) \/ AddTx(tx)) \/ (\E x \in Addr : DripBuild(x) \/ CooldownOver(x))
           \/ DripSend \/ MineTick \/ RemoveIncluded
  BY <1>2, PoolMoney
<1>3. CASE MineBegin
  BY <1>3, MineBeginMoney
<1>4. CASE ReceiveBlock
  BY <1>4, ReceiveBlockMoney
<1>5. CASE ReceiveGenesis \/ ReceiveGenesisFails
  BY <1>5, ReceiveGenesisMoney
<1>6. CASE ExecTx
  BY <1>6, ExecTxMoney
<1>7. CASE ExecCommit
  BY <1>7, ExecCommitMoney
<1>8. CASE PutBlockFile
  BY <1>8, PutBlockFileMoney
<1>9. CASE ExecFails \/ PutBlockFileFails \/ PutMeta \/ PutMetaFails
  BY <1>9, ReleaseMoney
<1>10. CASE Stop
  BY <1>10, StopMoney
<1>11. CASE Start \/ StartFails
  BY <1>11, StartMoney
<1> QED
  BY <1>1, <1>2, <1>3, <1>4, <1>5, <1>6, <1>7, <1>8, <1>9, <1>10, <1>11 DEF Next

\* Money is neither made nor lost by any block, whoever mined it and whatever it holds.
THEOREM MoneyIsAccounted == ASSUME NoOverflow PROVE Spec => []SupplyAccounted
<1>1. Init => IInv /\ MoneyInv
  BY InitInv, InitMoney
<1>2. IInv /\ MoneyInv /\ [Next]_vars => (IInv /\ MoneyInv)'
  BY StepInv, StepMoney
<1>3. IInv /\ MoneyInv => SupplyAccounted
  BY DEF MoneyInv, Accounted, SupplyAccounted, BurnedIn, MintedIn
<1> QED
  BY <1>1, <1>2, <1>3, PTL DEF Spec

-----------------------------------------------------------------------------
(* The pool: what was validated stays good until its nonce is used. *)

FundedInv ==
    running => \A tx \in pool \cup validated :
        tx.from # Faucet /\ tx.nonce = state[tx.from].nonce => Cost(tx) <= state[tx.from].bal

\* Only the faucet's own transfers go without validation.
DripInv == dripping # NoTx => dripping.from = Faucet

\* An account that is not spent from has what it had.
KeptInv ==
    phase = "sim" =>
        \A x \in Addr : sim[x].nonce = state[x].nonce => state[x].bal <= sim[x].bal

PoolInv == FundedInv /\ DripInv /\ KeptInv

LEMMA NothingWraps ==
    ASSUME NEW W \in Nat, NEW x \in Nat, NEW y \in Nat, x < W, y < W, (x + y) % W = y
    PROVE  x = 0
OBVIOUS

LEMMA InitPool == Init => PoolInv
BY DEF Init, PoolInv, FundedInv, DripInv, KeptInv

\* States that only gain where no nonce is used.
LEMMA StillFunded ==
    ASSUME IInv, FundedInv, running, pool' \subseteq pool, validated' \subseteq validated,
           \A x \in Addr : /\ state[x].nonce <= state'[x].nonce
                           /\ state'[x].nonce = state[x].nonce => state[x].bal <= state'[x].bal,
           \A x \in Addr : state'[x].bal \in Nat /\ state'[x].nonce \in Nat
    PROVE  FundedInv'
<1> SUFFICES ASSUME NEW tx \in pool \cup validated, tx.from # Faucet, tx.nonce = state'[tx.from].nonce
             PROVE  Cost(tx) <= state'[tx.from].bal
  BY DEF FundedInv
<1>1. tx \in Tx /\ tx.from \in Addr /\ tx.nonce \in Nat /\ tx.nonce <= state[tx.from].nonce
  BY TxFacts, ChainAssumption DEF IInv, TypeOK, PoolNeverAhead
<1>2. state[tx.from].nonce \in Nat /\ state[tx.from].bal \in Nat
  BY <1>1 DEF IInv, TypeOK, State, Account
<1>3. tx.nonce = state[tx.from].nonce
  BY <1>1, <1>2
<1>4. Cost(tx) <= state[tx.from].bal
  BY <1>3 DEF FundedInv
<1>5. Cost(tx) \in Nat
  BY <1>1, ModType DEF Cost, Tx
<1>6. PICK a \in Addr : a = tx.from
  BY <1>1
<1>7. state'[a].nonce = state[a].nonce
  BY <1>3, <1>6
<1>8. state[a].bal <= state'[a].bal /\ state'[a].bal \in Nat
  BY <1>7
<1> QED
  BY <1>2, <1>4, <1>5, <1>6, <1>8

LEMMA PoolStepPool ==
    ASSUME IInv, PoolInv,
           \/ \E tx \in Txs : ValidateTx(tx) \/ AddTx(tx)
           \/ (\E x \in Addr : DripBuild(x) \/ CooldownOver(x)) \/ DripSend
           \/ MineTick \/ RemoveIncluded
    PROVE  PoolInv'
<1> USE DEF storeVars, chainVars, lockVars, poolVars, mineVars, faucetVars
<1>1. UNCHANGED <<running, state, phase, sim>>
  BY DEF ValidateTx, AddTx, DripBuild, CooldownOver, DripSend, MineTick, RemoveIncluded
<1>2. KeptInv'
  BY <1>1 DEF PoolInv, KeptInv
<1>3. DripInv'
  BY DEF PoolInv, DripInv, ValidateTx, AddTx, DripBuild, FaucetTx, CooldownOver, DripSend, MineTick, RemoveIncluded
<1>4. \A tx \in (pool \cup validated)' :
          tx \in pool \cup validated \/ tx.from = Faucet \/ Accepts(state, tx)
  BY DEF PoolInv, DripInv, ValidateTx, AddTx, WithTx, DripBuild, CooldownOver, DripSend, MineTick, RemoveIncluded, WithoutTxs
<1>5. FundedInv'
  <2> SUFFICES ASSUME running, NEW tx \in (pool \cup validated)', tx.from # Faucet,
                      tx.nonce = state[tx.from].nonce
               PROVE  Cost(tx) <= state[tx.from].bal
    BY <1>1 DEF FundedInv
  <2>1. CASE tx \in pool \cup validated
    BY <2>1 DEF PoolInv, FundedInv
  <2>2. CASE Accepts(state, tx)
    <3>1. tx \in Tx /\ tx.from \in Addr
      <4>1. tx \in pool' \cup validated'
        OBVIOUS
      <4>2. pool' \subseteq Tx /\ validated' \subseteq Tx
        <5>1. TypeOK'
          BY StepInv DEF IInv, Next
        <5> QED
          BY <5>1, ChainAssumption DEF TypeOK
      <4> QED
        BY <4>1, <4>2 DEF Tx
    <3>2. Cost(tx) \in Nat
      BY <3>1, ModType DEF Cost, Tx
    <3>3. state[tx.from].bal \in Nat
      BY <3>1 DEF IInv, TypeOK, State, Account
    <3> QED
      BY <2>2, <3>2, <3>3 DEF Accepts
  <2> QED
    BY <1>4, <2>1, <2>2
<1> QED
  BY <1>2, <1>3, <1>5 DEF PoolInv

\* What a block leaves of the accounts that do not spend in it.
LEMMA ExecTxPool == ASSUME IInv, MoneyInv, PoolInv, NoOverflow, ExecTx PROVE PoolInv'
<1>1. PICK tx : tx = blk.txs[pos]
  OBVIOUS
<1>2. PICK n : n = pos
  OBVIOUS
<1>3. /\ phase = "sim" /\ Accepts(sim, tx) /\ sim' = AfterTx(sim, tx, blk.miner)
      /\ UNCHANGED <<running, state, pool, validated, dripping>>
      /\ blk \in Wire /\ n \in 1..Len(blk.txs)
  BY <1>1, <1>2 DEF ExecTx, IInv, TypeOK, LockInv, Wire, storeVars, chainVars, poolVars, mineVars, faucetVars
<1>4. tx \in Tx /\ blk.miner \in Miners /\ sim \in State /\ Ordinary(tx)
  BY <1>1, <1>2, <1>3, TxFacts DEF Wire, IInv, TypeOK, MoneyInv, OrdinaryInv
<1>5. Balances(sim) \in Nat /\ Balances(sim) < Word /\ Balances(state) \in Nat
  BY <1>3, BalancesFit, ChainAssumption
<1>6. PICK t : t = AfterTx(sim, tx, blk.miner)
  OBVIOUS
<1>7. /\ \A x \in Addr : x # tx.from => sim[x].bal <= t[x].bal
      /\ t \in State
      /\ \A x \in Addr : t[x].nonce = IF x = tx.from THEN sim[x].nonce + 1 ELSE sim[x].nonce
  BY <1>4, <1>3, <1>5, <1>6, AfterTxBalances, AfterTxFacts DEF NoOverflow
<1>8. KeptInv'
  <2> SUFFICES ASSUME NEW x \in Addr, t[x].nonce = state[x].nonce
               PROVE  state[x].bal <= t[x].bal
    BY <1>3, <1>6 DEF KeptInv
  <2>1. /\ state[x].nonce \in Nat /\ sim[x].nonce \in Nat /\ state[x].nonce <= sim[x].nonce
    BY <1>3, SimGrows
  <2>2. state[x].bal \in Nat /\ sim[x].bal \in Nat /\ t[x].bal \in Nat
    BY <1>4, <1>7 DEF IInv, TypeOK, State, Account
  <2>3. x # tx.from /\ sim[x].nonce = state[x].nonce
    BY <1>7, <2>1
  <2>4. state[x].bal <= sim[x].bal
    BY <1>3, <2>3 DEF PoolInv, KeptInv
  <2>5. sim[x].bal <= t[x].bal
    BY <1>7, <2>3
  <2> QED
    BY <2>2, <2>4, <2>5
<1>9. FundedInv' /\ DripInv'
  BY <1>3 DEF PoolInv, FundedInv, DripInv
<1> QED
  BY <1>8, <1>9 DEF PoolInv

LEMMA ExecCommitPool == ASSUME IInv, MoneyInv, PoolInv, NoOverflow, ExecCommit PROVE PoolInv'
<1>1. /\ running /\ phase = "sim" /\ phase' = "putblock" /\ state' = AfterReward(sim, blk.miner)
      /\ UNCHANGED <<running, pool, validated, dripping>>
      /\ blk \in Wire /\ sim \in State /\ blk.miner \in Miners
  BY DEF ExecCommit, IInv, TypeOK, Wire, storeVars, poolVars, mineVars, faucetVars
<1>2. Balances(sim) + Reward < Word
  BY <1>1, BalancesFit
<1>3. /\ state' \in State
      /\ \A x \in Addr : state'[x].nonce = sim[x].nonce /\ sim[x].bal <= state'[x].bal
  BY <1>1, <1>2, RewardBalances, RewardFacts DEF NoOverflow
<1>4. \A x \in Addr : state'[x].bal \in Nat /\ state'[x].nonce \in Nat
  BY <1>3 DEF State, Account
<1>5. ASSUME NEW x \in Addr
      PROVE  /\ state[x].nonce <= state'[x].nonce
             /\ state'[x].nonce = state[x].nonce => state[x].bal <= state'[x].bal
  <2>1. state[x].nonce <= sim[x].nonce /\ (sim[x].nonce = state[x].nonce => state[x].bal <= sim[x].bal)
    BY <1>1, SimGrows DEF PoolInv, KeptInv
  <2>2. state[x].bal \in Nat /\ sim[x].bal \in Nat /\ state'[x].bal \in Nat
    BY <1>1, <1>4 DEF IInv, TypeOK, State, Account
  <2> QED
    BY <1>3, <2>1, <2>2
<1>6. FundedInv'
  BY <1>1, <1>4, <1>5, StillFunded DEF PoolInv
<1>7. KeptInv' /\ DripInv'
  BY <1>1 DEF PoolInv, KeptInv, DripInv
<1> QED
  BY <1>6, <1>7 DEF PoolInv

\* A peer's genesis block gives each account what it was allocated, where it had nothing.
LEMMA ReceiveGenesisPool ==
    ASSUME IInv, MoneyInv, PoolInv, NoOverflow, ReceiveGenesis \/ ReceiveGenesisFails
    PROVE  PoolInv'
<1>1. PeerGenesis
  BY DEF ReceiveGenesis, ReceiveGenesisFails
<1>2. /\ running /\ phase = "idle" /\ AfterAlloc(state) = GenesisState
      /\ \A x \in Addr : state[x].nonce = 0
  BY <1>1, PeerGenesisFacts
<1>3. /\ state' = GenesisState /\ UNCHANGED <<running, phase, sim, pool, validated, dripping>>
  BY <1>2 DEF ReceiveGenesis, ReceiveGenesisFails, lockVars, poolVars, mineVars, faucetVars
<1>4. state \in State /\ IsFiniteSet(Addr) /\ Word \in Nat
  BY ChainAssumption DEF IInv, TypeOK, NoOverflow
<1>5. ASSUME NEW x \in Addr
      PROVE  state[x].bal = 0
  <2>1. state[x].bal \in Nat /\ Alloc[x] \in Nat
    BY <1>4, ChainAssumption DEF State, Account
  <2>2. state[x].bal < Word
    <3>1. Balances(state) < Word /\ Balances(state) \in Nat /\ state[x].bal <= Balances(state)
      BY <1>4, BalancesFit, BalancesNat
    <3> QED
      BY <1>4, <2>1, <3>1
  <2>3. Alloc[x] < Word
    <3>1. GenesisState[x].bal = Alloc[x] /\ Alloc[x] <= Balances(GenesisState)
      BY <1>4, GenesisFacts, BalancesNat DEF GenesisState
    <3>2. SumFunction(Alloc) < Word
      <4>1. MaxHash \in Nat /\ Reward \in Nat /\ SumFunction(Alloc) \in Nat
        BY <1>4, ChainAssumption, GenesisBalances
      <4>2. Reward * MaxHash \in Nat
        BY <4>1
      <4> QED
        BY <1>4, <4>1, <4>2 DEF NoOverflow
    <3>3. SumFunction(Alloc) \in Nat
      BY <1>4, GenesisBalances
    <3> QED
      BY <1>4, <2>1, <3>1, <3>2, <3>3, GenesisBalances
  <2>4. (state[x].bal + Alloc[x]) % Word = Alloc[x]
    <3>1. AfterAlloc(state)[x].bal = (state[x].bal + Alloc[x]) % Word
      BY <1>4 DEF AfterAlloc, State, Account
    <3>2. GenesisState[x].bal = Alloc[x]
      BY DEF GenesisState
    <3> QED
      BY <1>2, <3>1, <3>2
  <2> QED
    BY <1>4, <2>1, <2>2, <2>3, <2>4, NothingWraps
<1>6. \A x \in Addr : state'[x].bal \in Nat /\ state'[x].nonce = 0
  BY <1>3, ChainAssumption DEF GenesisState
<1>7. ASSUME NEW x \in Addr
      PROVE  /\ state[x].nonce <= state'[x].nonce
             /\ state'[x].nonce = state[x].nonce => state[x].bal <= state'[x].bal
  BY <1>2, <1>5, <1>6
<1>8. FundedInv'
  BY <1>2, <1>3, <1>6, <1>7, StillFunded DEF PoolInv
<1>9. KeptInv' /\ DripInv'
  BY <1>2, <1>3 DEF PoolInv, KeptInv, DripInv
<1> QED
  BY <1>8, <1>9 DEF PoolInv

\* The other steps start from the state, end a simulation or leave no process.
LEMMA OtherStepPool ==
    ASSUME IInv, PoolInv,
           \/ MineBegin \/ ReceiveBlock \/ ExecFails \/ PutBlockFile \/ PutBlockFileFails
           \/ PutMeta \/ PutMetaFails \/ Stop \/ Start \/ StartFails \/ UNCHANGED vars
    PROVE  PoolInv'
<1> USE DEF storeVars, chainVars, lockVars, poolVars, mineVars, faucetVars
<1>1. \A x \in Addr : state[x].bal \in Nat /\ state[x].nonce \in Nat
  BY DEF IInv, TypeOK, State, Account
<1>2. CASE MineBegin \/ ReceiveBlock
  <2>1. UNCHANGED <<running, state, pool, validated, dripping>>
    BY <1>2 DEF MineBegin, ReceiveBlock
  <2>2. (phase' = "sim" /\ sim' = state) \/ UNCHANGED <<phase, sim>>
    BY <1>2 DEF MineBegin, ReceiveBlock, Execute
  <2>3. KeptInv'
    BY <1>1, <2>1, <2>2 DEF PoolInv, KeptInv
  <2> QED
    BY <2>1, <2>3 DEF PoolInv, FundedInv, DripInv
<1>3. CASE ExecFails \/ PutBlockFile \/ PutBlockFileFails \/ PutMeta \/ PutMetaFails
  <2>1. UNCHANGED <<running, state, pool, validated, dripping>> /\ phase' # "sim"
    BY <1>3 DEF ExecFails, PutBlockFile, PutBlockFileFails, PutMeta, PutMetaFails, Release
  <2> QED
    BY <2>1 DEF PoolInv, FundedInv, DripInv, KeptInv
<1>4. CASE Stop
  <2>1. pool' = {} /\ validated' = {} /\ dripping' = NoTx /\ phase' # "sim"
    BY <1>4 DEF Stop, Release
  <2> QED
    BY <2>1 DEF PoolInv, FundedInv, DripInv, KeptInv
<1>5. CASE Start \/ StartFails
  <2>1. ~running /\ phase = "idle" /\ pool = {} /\ validated = {} /\ dripping = NoTx /\ metaDisk \in Nat
    BY <1>5, ChainAssumption DEF Start, StartFails, IInv, DownInv, TypeOK
  <2>2. UNCHANGED <<phase, pool, validated, dripping>>
    <3>1. CASE StartFails \/ (Start /\ metaDisk = 0)
      BY <3>1 DEF Start, StartFails, NewGenesis
    <3>2. CASE Start /\ metaDisk # 0
      <4>1. metaDisk > 0 /\ Rebuild
        BY <2>1, <3>2 DEF Start
      <4> QED
        BY <4>1, RebuildRefused DEF vars
    <3> QED
      BY <1>5, <3>1, <3>2
  <2> QED
    BY <2>1, <2>2 DEF PoolInv, FundedInv, DripInv, KeptInv
<1>6. CASE UNCHANGED vars
  BY <1>6 DEF vars, PoolInv, FundedInv, DripInv, KeptInv
<1> QED
  BY <1>2, <1>3, <1>4, <1>5, <1>6

LEMMA StepPool == ASSUME IInv, MoneyInv, PoolInv, NoOverflow, [Next]_vars PROVE PoolInv'
<1>1. CASE (\E tx \in Txs : ValidateTx(tx) \/ AddTx(tx)) \/ (\E x \in Addr : DripBuild(x) \/ CooldownOver(x))
           \/ DripSend \/ MineTick \/ RemoveIncluded
  BY <1>1, PoolStepPool
<1>2. CASE ExecTx
  BY <1>2, ExecTxPool
<1>3. CASE ExecCommit
  BY <1>3, ExecCommitPool
<1>4. CASE ReceiveGenesis \/ ReceiveGenesisFails
  BY <1>4, ReceiveGenesisPool
<1>5. CASE \/ MineBegin \/ ReceiveBlock \/ ExecFails \/ PutBlockFile \/ PutBlockFileFails
           \/ PutMeta \/ PutMetaFails \/ Stop \/ Start \/ StartFails \/ UNCHANGED vars
  BY <1>5, OtherStepPool
<1> QED
  BY <1>1, <1>2, <1>3, <1>4, <1>5 DEF Next

\* A transfer that waits and has become refusable has lost its nonce, never its cover.
THEOREM RefusedIsStale == ASSUME NoOverflow PROVE Spec => []PoolRefusedOnlyIfStale
<1>1. Init => IInv /\ MoneyInv /\ PoolInv
  BY InitInv, InitMoney, InitPool
<1>2. IInv /\ MoneyInv /\ PoolInv /\ [Next]_vars => (IInv /\ MoneyInv /\ PoolInv)'
  BY StepInv, StepMoney, StepPool
<1>3. IInv /\ MoneyInv /\ PoolInv => PoolRefusedOnlyIfStale
  <2> SUFFICES ASSUME IInv, FundedInv, running, NEW tx \in pool \cup validated,
                      tx.from # Faucet, tx.nonce = state[tx.from].nonce
               PROVE  Accepts(state, tx)
    BY DEF PoolInv, PoolRefusedOnlyIfStale
  <2>1. tx \in Tx /\ tx.from \in Addr
    BY TxFacts, ChainAssumption DEF IInv, TypeOK
  <2>2. Cost(tx) \in Nat
    BY <2>1, ModType DEF Cost, Tx
  <2>3. state[tx.from].bal \in Nat
    BY <2>1 DEF IInv, TypeOK, State, Account
  <2>4. Cost(tx) <= state[tx.from].bal
    BY DEF FundedInv
  <2> QED
    BY <2>2, <2>3, <2>4 DEF Accepts
<1> QED
  BY <1>1, <1>2, <1>3, PTL DEF Spec
=============================================================================
