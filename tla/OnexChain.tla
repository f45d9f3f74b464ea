----------------------------- MODULE OnexChain -----------------------------
(***************************************************************************)
(* One onexd node: the chain state and its critical section                *)
(* (internal/chain), the block store (internal/storage), the mempool       *)
(* (internal/mempool), the mining loop and transaction entry points        *)
(* (internal/node, internal/api, internal/rpc) and the faucet              *)
(* (internal/faucet).  Peers are an environment that runs the same code.   *)
(*                                                                         *)
(* bc.mu is held for the whole of FinalizeAndMineBlock and ApplyBlock, but *)
(* the process can stop at any point inside, and goroutines that do not    *)
(* need the lock go on; so a block is executed one transaction per step,   *)
(* with "phase" as the program counter of the lock holder.                 *)
(***************************************************************************)
EXTENDS Naturals, FiniteSets, Sequences, FiniteSetsExt

CONSTANTS
    Addr,        \* account addresses
    NoMiner,     \* the empty address ""
    Miner,       \* cfg.MinerAddr of this node
    PeerMiner,   \* the miner address in blocks of peers
    Faucet,      \* the address of the faucet wallet
    Drip,        \* amount of one faucet transfer
    Txs,         \* the signed transfers that wallets may submit
    Alloc,       \* genesis.Alloc
    Reward,      \* genesis.Reward
    Word,        \* 2^64: balances and amounts are uint64
    MaxPending,  \* 100, the argument of Pending in mineLoop
    NoBlock,     \* an absent or unreadable block file
    NoTx         \* no faucet transfer in progress

\* What the environment may do, and the bounds of the exploration.
CONSTANTS
    MaxHeight,    \* highest block index
    MaxHash,      \* number of blocks ever hashed
    MaxPeerTxs,   \* transactions in a block of a peer
    PeersOn,      \* peers send blocks
    FaucetOn,     \* -faucet
    DiskFaults,   \* os.WriteFile may fail
    Stops,        \* the process may stop and be started again
    Resubmit,     \* a transfer may be submitted more than once
    EmptyBlocks   \* the miner also ticks on an empty pool

Tx == [from : Addr, to : Addr, amount : Nat, fee : Nat, nonce : Nat]
Account == [bal : Nat, nonce : Nat]
State == [Addr -> Account]
Miners == Addr \cup {NoMiner}

\* A block file.  The state root is a hash of the state, so the state itself.
Block == [idx : Nat, hash : Nat, prev : Nat, txs : Seq(Tx),
          miner : Miners, root : State]

\* A block being executed; rootOk and pow say whether the root it carries is
\* the one its execution gives and whether its proof of work is valid.
Wire == [idx : Nat, hash : Nat, prev : Nat, txs : Seq(Tx),
         miner : Miners, rootOk : BOOLEAN, pow : BOOLEAN]

ASSUME ChainAssumption ==
    /\ NoMiner \notin Addr
    /\ Miner \in Miners /\ PeerMiner \in Miners /\ Faucet \in Addr
    /\ Drip \in Nat /\ Reward \in Nat /\ Word \in Nat \ {0}
    /\ Txs \subseteq Tx
    /\ Alloc \in [Addr -> Nat]
    /\ MaxPending \in Nat \ {0} /\ MaxHeight \in Nat /\ MaxHash \in Nat \ {0}
    /\ MaxPeerTxs \in Nat
    /\ {PeersOn, FaucetOn, DiskFaults, Stops, Resubmit, EmptyBlocks} \subseteq BOOLEAN
    /\ NoBlock \notin Block /\ NoBlock \notin Wire
    /\ NoTx \notin Tx

\* the store: files, and the copy of meta.json in memory
VARIABLES
    disk,       \* blocks/%08d.json
    metaDisk,   \* the height that Open would read from meta.json
    height      \* s.meta.Height
\* the chain
VARIABLES
    running,    \* is the process up
    state,      \* bc.state
    tainted,    \* history: a PutBlock failed after bc.state was changed
    hashes      \* history: number of block hashes so far
\* the holder of bc.mu
VARIABLES
    phase,      \* "idle", "sim", "putblock" or "putmeta"
    own,        \* FinalizeAndMineBlock (TRUE) or ApplyBlock (FALSE)
    blk,        \* the block being executed
    sim,        \* the simulated state
    pos         \* index of the next transaction
\* mempool, transaction entry points, mining loop and faucet
VARIABLES
    pool,       \* the transactions of the pool
    validated,  \* transactions past ValidateTx and not yet added
    sent,       \* history: transactions submitted, when each may be only once
    mpc, mtxs,  \* mineLoop: program counter, result of Pending
    dripping,   \* the transfer a Drip call has built
    cooling     \* addresses whose cooldown is active

storeVars == <<disk, metaDisk, height>>
chainVars == <<running, state, tainted, hashes>>
lockVars  == <<phase, own, blk, sim, pos>>
poolVars  == <<pool, validated, sent>>
mineVars  == <<mpc, mtxs>>
faucetVars == <<dripping, cooling>>
vars == <<disk, metaDisk, height, running, state, tainted, hashes, phase, own,
          blk, sim, pos, pool, validated, sent, mpc, mtxs, dripping, cooling>>

-----------------------------------------------------------------------------
(* Accounts: internal/chain/state.go *)

NoAccounts == [a \in Addr |-> [bal |-> 0, nonce |-> 0]]
GenesisState == [a \in Addr |-> [bal |-> Alloc[a], nonce |-> 0]]

Credit(s, a, n) == [s EXCEPT ![a].bal = (@ + n) % Word]

Cost(tx) == (tx.amount + tx.fee) % Word

\* Mutants of Accepts: one check left out.
AcceptsUnfunded(s, tx) == s[tx.from].nonce = tx.nonce
AcceptsAnyNonce(s, tx) == s[tx.from].bal >= Cost(tx)

Accepts(s, tx) ==
    /\ s[tx.from].bal >= Cost(tx)
    /\ s[tx.from].nonce = tx.nonce

\* Mutant of Debit: the nonce stays.
DebitSameNonce(s, tx) == [s EXCEPT ![tx.from].bal = @ - Cost(tx)]

Debit(s, tx) == [s EXCEPT ![tx.from] = [bal |-> @.bal - Cost(tx), nonce |-> @.nonce + 1]]

\* Mutant of AfterTx: both accounts are read before either is written.
AfterTxOldReads(s, tx, miner) ==
    LET paid == [Debit(s, tx) EXCEPT ![tx.to].bal = s[tx.to].bal + tx.amount]
    IN  IF tx.fee > 0 /\ miner # NoMiner THEN Credit(paid, miner, tx.fee) ELSE paid

\* ApplyTransaction of a signed transfer that Accepts: with no miner the fee
\* is nobody's.
AfterTx(s, tx, miner) ==
    LET paid == Credit(Debit(s, tx), tx.to, tx.amount)
    IN  IF tx.fee > 0 /\ miner # NoMiner THEN Credit(paid, miner, tx.fee) ELSE paid

AfterReward(s, miner) ==
    IF miner = NoMiner \/ Reward = 0 THEN s ELSE Credit(s, miner, Reward)

\* The coinbase transactions of a genesis block: one per allocated address.
AfterAlloc(s) == [a \in Addr |-> [s[a] EXCEPT !.bal = (@ + Alloc[a]) % Word]]

Genesis(h) == [idx |-> 0, hash |-> h, prev |-> 0, txs |-> <<>>,
               miner |-> NoMiner, root |-> GenesisState]

-----------------------------------------------------------------------------
(* Mempool: internal/mempool/mempool.go.  The pool is a map with a list of  *)
(* its keys, which RemoveIncluded rebuilds in map order: the order of the   *)
(* pending transactions is arbitrary.                                       *)

SameKey(t, u) == t.from = u.from /\ t.nonce = u.nonce

WithTx(p, tx) == IF \E t \in p : SameKey(t, tx) THEN p ELSE p \cup {tx}

\* Mutant of WithoutTxs: by sender only.
WithoutSenders(p, txs) == {t \in p : \A i \in 1..Len(txs) : t.from # txs[i].from}

WithoutTxs(p, txs) == {t \in p : \A i \in 1..Len(txs) : ~SameKey(t, txs[i])}

Orders(S) == {o \in [1..Cardinality(S) -> S] :
                 \A t \in S : \E i \in 1..Cardinality(S) : o[i] = t}

\* Mutant of PendingLists: one short of the maximum.
ShortLists(p) ==
    UNION {Orders(S) : S \in {T \in SUBSET p :
        Cardinality(T) = IF p = {} THEN 0 ELSE Cardinality(p) - 1}}

\* The results of Pending(MaxPending).
PendingLists(p) ==
    UNION {Orders(S) : S \in {T \in SUBSET p :
        Cardinality(T) = IF Cardinality(p) < MaxPending THEN Cardinality(p)
                                                        ELSE MaxPending}}

-----------------------------------------------------------------------------
(* The tip: storage.GetTip.  Its mutant reads meta.json again. *)
TipOnDisk == disk[metaDisk]
Tip == disk[height]

Init ==
    /\ disk = [i \in 0..MaxHeight |-> IF i = 0 THEN Genesis(1) ELSE NoBlock]
    /\ metaDisk = 0 /\ height = 0
    /\ running = TRUE /\ state = GenesisState /\ tainted = FALSE /\ hashes = 1
    /\ phase = "idle" /\ own = FALSE /\ blk = NoBlock /\ sim = GenesisState /\ pos = 0
    /\ pool = {} /\ validated = {} /\ sent = {}
    /\ mpc = "wait" /\ mtxs = <<>>
    /\ dripping = NoTx /\ cooling = {}

(* Transaction entry: handleSubmitTx, submitTx and the OnTransaction       *)
(* callback of a peer's "tx" message all validate first and add later.     *)

ValidateTx(tx) ==
    /\ running /\ phase = "idle"
    /\ Resubmit \/ tx \notin sent
    /\ Accepts(state, tx)
    /\ validated' = validated \cup {tx}
    /\ sent' = IF Resubmit THEN sent ELSE sent \cup {tx}
    /\ UNCHANGED <<storeVars, chainVars, lockVars, pool, mineVars, faucetVars>>

AddTx(tx) ==
    /\ running /\ tx \in validated
    /\ pool' = WithTx(pool, tx)
    /\ validated' = validated \ {tx}
    /\ UNCHANGED <<storeVars, chainVars, lockVars, sent, mineVars, faucetVars>>

(* Faucet: Drip builds a transfer with the nonce of the chain and adds it  *)
(* to the pool without ValidateTx; its mutex is held in between.           *)

\* Mutant of FaucetTx: one past the nonce of the chain.
FaucetTxAhead(to) == [from |-> Faucet, to |-> to, amount |-> Drip, fee |-> 0,
                      nonce |-> state[Faucet].nonce + 1]

FaucetTx(to) == [from |-> Faucet, to |-> to, amount |-> Drip, fee |-> 0,
                 nonce |-> state[Faucet].nonce]

DripBuild(to) ==
    /\ FaucetOn /\ running /\ phase = "idle" /\ dripping = NoTx
    /\ to \notin cooling
    /\ dripping' = FaucetTx(to)
    /\ UNCHANGED <<storeVars, chainVars, lockVars, poolVars, mineVars, cooling>>

DripSend ==
    /\ running /\ dripping # NoTx
    /\ pool' = WithTx(pool, dripping)
    /\ cooling' = cooling \cup {dripping.to}
    /\ dripping' = NoTx
    /\ UNCHANGED <<storeVars, chainVars, lockVars, validated, sent, mineVars>>

\* time.Since(t) >= f.cooldown
CooldownOver(a) ==
    /\ running /\ a \in cooling
    /\ cooling' = cooling \ {a}
    /\ UNCHANGED <<storeVars, chainVars, lockVars, poolVars, mineVars, dripping>>

-----------------------------------------------------------------------------
(* The critical section *)

Release ==
    /\ phase' = "idle" /\ own' = FALSE /\ blk' = NoBlock
    /\ sim' = GenesisState /\ pos' = 0

Execute(w, isOwn) ==
    /\ phase' = "sim" /\ own' = isOwn /\ blk' = w /\ sim' = state /\ pos' = 1

\* The miner goes back to its ticker when its call fails.
MinerGivesUp == mpc' = IF own THEN "wait" ELSE mpc

MineTick ==
    /\ running /\ mpc = "wait"
    /\ EmptyBlocks \/ pool # {}
    /\ \E list \in PendingLists(pool) : mtxs' = list
    /\ mpc' = "pending"
    /\ UNCHANGED <<storeVars, chainVars, lockVars, poolVars, faucetVars>>

\* FinalizeAndMineBlock takes the lock and reads the tip.
MineBegin ==
    /\ running /\ phase = "idle" /\ mpc = "pending"
    /\ Tip # NoBlock /\ height < MaxHeight /\ hashes < MaxHash
    /\ Execute([idx |-> Tip.idx + 1, hash |-> hashes + 1, prev |-> Tip.hash,
                txs |-> mtxs, miner |-> Miner, rootOk |-> TRUE, pow |-> TRUE], TRUE)
    /\ hashes' = hashes + 1
    /\ mpc' = "mining"
    /\ UNCHANGED <<storeVars, running, state, tainted, poolVars, mtxs, faucetVars>>

\* Mutant of Verdict: any block that is not above the tip is known.
VerdictOldKnown(b, pow, tip) ==
    IF b.idx # tip.idx + 1 /\ ~(b.idx = 0 /\ tip.idx = 0 /\ b.hash # tip.hash)
          /\ b.idx <= tip.idx
    THEN "known"
    ELSE IF b.idx > 0 /\ (b.prev # tip.hash \/ ~pow) THEN "refuse" ELSE "apply"

\* The checks of applyBlockInternal on a header against the tip.
Verdict(b, pow, tip) ==
    IF b.idx # tip.idx + 1 /\ ~(b.idx = 0 /\ tip.idx = 0 /\ b.hash # tip.hash)
          /\ b.idx <= tip.idx
    THEN IF b.hash = tip.hash THEN "known" ELSE "refuse"
    ELSE IF b.idx > 0 /\ (b.prev # tip.hash \/ ~pow) THEN "refuse" ELSE "apply"

\* Blocks of peers: mined on a block of this chain, or on one this node does
\* not have (hash 0), or a block of this chain sent once more.
PeerWires ==
    {w \in [idx : 1..height+2, hash : {hashes + 1},
            prev : {disk[i].hash : i \in 0..height} \cup {0},
            txs : UNION {[1..n -> Txs] : n \in 0..MaxPeerTxs},
            miner : {PeerMiner}, rootOk : BOOLEAN, pow : BOOLEAN] :
        w.prev # 0 => w.idx <= height + 1 /\ w.prev = disk[w.idx - 1].hash}
    \cup
    {[idx |-> i, hash |-> disk[i].hash, prev |-> disk[i].prev, txs |-> disk[i].txs,
      miner |-> disk[i].miner, rootOk |-> TRUE, pow |-> TRUE] : i \in 1..height}

ReceiveBlock ==
    /\ PeersOn /\ running /\ phase = "idle"
    /\ Tip # NoBlock /\ height < MaxHeight /\ hashes < MaxHash
    /\ \E w \in PeerWires :
          IF Verdict(w, w.pow, Tip) = "apply"
          THEN Execute(w, FALSE) /\ hashes' = hashes + 1
          ELSE UNCHANGED <<lockVars, hashes>>
    /\ UNCHANGED <<storeVars, running, state, tainted, poolVars, mineVars, faucetVars>>

\* The genesis block of another node with the same configuration passes every
\* check while there is no other block and its root still matches, which it
\* does only if nothing is allocated.
PeerGenesis ==
    /\ PeersOn /\ running /\ phase = "idle" /\ hashes < MaxHash
    /\ Tip # NoBlock
    /\ Verdict(Genesis(hashes + 1), TRUE, Tip) = "apply"
    /\ AfterAlloc(state) = GenesisState

\* It replaces this node's genesis block.
ReceiveGenesis ==
    /\ PeerGenesis
    /\ state' = AfterAlloc(state)
    /\ disk' = [disk EXCEPT ![0] = Genesis(hashes + 1)]
    /\ metaDisk' = height
    /\ hashes' = hashes + 1
    /\ UNCHANGED <<height, running, tainted, lockVars, poolVars, mineVars, faucetVars>>

\* PutBlock fails on one of its two files.
ReceiveGenesisFails ==
    /\ DiskFaults /\ PeerGenesis
    /\ state' = AfterAlloc(state) /\ tainted' = TRUE
    /\ \E left \in {disk[0], NoBlock, Genesis(hashes + 1)} :
          disk' = [disk EXCEPT ![0] = left]
    /\ hashes' = hashes + 1
    /\ UNCHANGED <<metaDisk, height, running, lockVars, poolVars, mineVars, faucetVars>>

ExecTx ==
    /\ running /\ phase = "sim" /\ pos <= Len(blk.txs)
    /\ Accepts(sim, blk.txs[pos])
    /\ sim' = AfterTx(sim, blk.txs[pos], blk.miner)
    /\ pos' = pos + 1
    /\ UNCHANGED <<storeVars, chainVars, phase, own, blk, poolVars, mineVars, faucetVars>>

\* Mutant of ExecFails: the transactions were applied to bc.state itself.
ExecFailsDirty ==
    /\ running /\ phase = "sim"
    /\ IF pos <= Len(blk.txs) THEN ~Accepts(sim, blk.txs[pos]) ELSE ~blk.rootOk
    /\ state' = sim
    /\ Release /\ MinerGivesUp
    /\ UNCHANGED <<storeVars, running, tainted, hashes, poolVars, mtxs, faucetVars>>

\* One transaction that does not apply fails the whole block.
ExecFails ==
    /\ running /\ phase = "sim"
    /\ IF pos <= Len(blk.txs) THEN ~Accepts(sim, blk.txs[pos]) ELSE ~blk.rootOk
    /\ Release /\ MinerGivesUp
    /\ UNCHANGED <<storeVars, chainVars, poolVars, mtxs, faucetVars>>

\* bc.state is changed before PutBlock is called.
ExecCommit ==
    /\ running /\ phase = "sim" /\ pos > Len(blk.txs) /\ blk.rootOk
    /\ state' = AfterReward(sim, blk.miner)
    /\ phase' = "putblock"
    /\ UNCHANGED <<storeVars, running, tainted, hashes, own, blk, sim, pos, poolVars,
                   mineVars, faucetVars>>

Stored(w, root) == [idx |-> w.idx, hash |-> w.hash, prev |-> w.prev, txs |-> w.txs,
                    miner |-> w.miner, root |-> root]

\* PutBlock, the block file: the height in memory follows it.
PutBlockFile ==
    /\ running /\ phase = "putblock"
    /\ disk' = [disk EXCEPT ![blk.idx] = Stored(blk, state)]
    /\ height' = IF blk.idx > height THEN blk.idx ELSE height
    /\ phase' = "putmeta"
    /\ UNCHANGED <<metaDisk, chainVars, own, blk, sim, pos, poolVars, mineVars, faucetVars>>

\* Mutants of PutBlockFileFails: the height raised, or saved, before the file.
PutBlockFileFailsRaised ==
    /\ DiskFaults /\ running /\ phase = "putblock"
    /\ tainted' = TRUE /\ height' = blk.idx
    /\ Release /\ MinerGivesUp
    /\ UNCHANGED <<disk, metaDisk, running, state, hashes, poolVars, mtxs, faucetVars>>
PutBlockFileFailsSaved ==
    /\ DiskFaults /\ running /\ phase = "putblock"
    /\ tainted' = TRUE /\ metaDisk' = blk.idx
    /\ Release /\ MinerGivesUp
    /\ UNCHANGED <<disk, height, running, state, hashes, poolVars, mtxs, faucetVars>>

\* os.WriteFile truncates and then writes: a failure leaves the old file or
\* one that does not parse.
PutBlockFileFails ==
    /\ DiskFaults /\ running /\ phase = "putblock"
    /\ \E left \in {disk[blk.idx], NoBlock} : disk' = [disk EXCEPT ![blk.idx] = left]
    /\ tainted' = TRUE
    /\ Release /\ MinerGivesUp
    /\ UNCHANGED <<metaDisk, height, running, state, hashes, poolVars, mtxs, faucetVars>>

PutMeta ==
    /\ running /\ phase = "putmeta"
    /\ metaDisk' = height
    /\ mpc' = IF own THEN "remove" ELSE mpc
    /\ Release
    /\ UNCHANGED <<disk, height, chainVars, poolVars, mtxs, faucetVars>>

\* Open ignores an unreadable meta.json and starts from height 0.
PutMetaFails ==
    /\ DiskFaults /\ running /\ phase = "putmeta"
    /\ metaDisk' \in {metaDisk, 0}
    /\ Release /\ MinerGivesUp
    /\ UNCHANGED <<disk, height, chainVars, poolVars, mtxs, faucetVars>>

\* mineLoop after a successful FinalizeAndMineBlock, without the lock.
RemoveIncluded ==
    /\ running /\ mpc = "remove"
    /\ pool' = WithoutTxs(pool, mtxs)
    /\ mpc' = "wait" /\ mtxs' = <<>>
    /\ UNCHANGED <<storeVars, chainVars, lockVars, validated, sent, faucetVars>>

-----------------------------------------------------------------------------
(* Stop and start of the process *)

Stop ==
    /\ Stops /\ running /\ hashes < MaxHash
    /\ running' = FALSE
    /\ disk' \in IF phase = "putblock"
                 THEN {disk, [disk EXCEPT ![blk.idx] = NoBlock]} ELSE {disk}
    /\ metaDisk' \in IF phase = "putmeta" THEN {metaDisk, 0} ELSE {metaDisk}
    /\ height' = 0 /\ state' = GenesisState /\ tainted' = FALSE
    /\ Release
    /\ pool' = {} /\ validated' = {}
    /\ mpc' = "wait" /\ mtxs' = <<>> /\ dripping' = NoTx /\ cooling' = {}
    /\ UNCHANGED <<hashes, sent>>

\* chain.New with a stored height of 0 makes a new genesis block.
NewGenesis ==
    /\ running' = TRUE
    /\ disk' = [disk EXCEPT ![0] = Genesis(hashes + 1)]
    /\ state' = GenesisState /\ hashes' = hashes + 1
    /\ UNCHANGED <<metaDisk, height, tainted, lockVars, poolVars, mineVars, faucetVars>>

\* chain.New with blocks in the store: rebuildState hands every block from 0
\* on to applyBlockInternal, and the first error ends the process.
Rebuild ==
    IF \E i \in 0..metaDisk :
          disk[i] = NoBlock \/ disk[metaDisk] = NoBlock
             \/ Verdict(disk[i], TRUE, disk[metaDisk]) # "known"
    THEN UNCHANGED vars
    ELSE /\ running' = TRUE /\ height' = metaDisk /\ state' = NoAccounts
         /\ UNCHANGED <<disk, metaDisk, tainted, hashes, lockVars, poolVars, mineVars,
                        faucetVars>>

Start ==
    /\ ~running
    /\ IF metaDisk = 0 THEN NewGenesis ELSE Rebuild

\* The genesis block cannot be written: the process ends.
StartFails ==
    /\ DiskFaults /\ ~running /\ metaDisk = 0 /\ hashes < MaxHash
    /\ \E left \in {disk[0], NoBlock, Genesis(hashes + 1)} :
          disk' = [disk EXCEPT ![0] = left]
    /\ hashes' = hashes + 1
    /\ UNCHANGED <<metaDisk, height, running, state, tainted, lockVars, poolVars,
                   mineVars, faucetVars>>

-----------------------------------------------------------------------------
Next ==
    \/ \E tx \in Txs : ValidateTx(tx) \/ AddTx(tx)
    \/ \E a \in Addr : DripBuild(a) \/ CooldownOver(a)
    \/ DripSend
    \/ MineTick \/ MineBegin \/ RemoveIncluded
    \/ ReceiveBlock \/ ReceiveGenesis \/ ReceiveGenesisFails
    \/ ExecTx \/ ExecFails \/ ExecCommit
    \/ PutBlockFile \/ PutBlockFileFails \/ PutMeta \/ PutMetaFails
    \/ Stop \/ Start \/ StartFails

Spec == Init /\ [][Next]_vars

(* The process goes on while it is up, and systemd or docker starts it     *)
(* again: weak fairness of every step the node takes by itself, none of    *)
(* what wallets, peers, the disk and the operator do.                      *)
LockHolder == ExecTx \/ ExecFails \/ ExecCommit \/ PutBlockFile \/ PutMeta

Fairness ==
    /\ \A tx \in Txs : WF_vars(AddTx(tx))
    /\ WF_vars(MineTick) /\ WF_vars(MineBegin) /\ WF_vars(RemoveIncluded)
    /\ WF_vars(LockHolder)
    /\ WF_vars(Start)

FairSpec == Spec /\ Fairness

-----------------------------------------------------------------------------
(* Properties *)

\* Types of all variables.
TypeOK ==
    /\ disk \in [0..MaxHeight -> Block \cup {NoBlock}]
    /\ metaDisk \in 0..MaxHeight /\ height \in 0..MaxHeight
    /\ running \in BOOLEAN /\ tainted \in BOOLEAN
    /\ state \in State /\ sim \in State
    /\ hashes \in Nat /\ pos \in Nat
    /\ phase \in {"idle", "sim", "putblock", "putmeta"} /\ own \in BOOLEAN
    /\ blk \in Wire \cup {NoBlock}
    /\ phase # "idle" => blk \in Wire
    /\ pool \subseteq Tx /\ IsFiniteSet(pool) /\ validated \subseteq Txs /\ sent \subseteq Txs
    /\ mpc \in {"wait", "pending", "mining", "remove"} /\ mtxs \in Seq(Tx)
    /\ dripping \in Tx \cup {NoTx} /\ cooling \subseteq Addr

\* Blocks 0..h are all there and each names the hash of the one before it.
Linked(h) ==
    \A i \in 0..h :
        /\ disk[i] # NoBlock
        /\ disk[i].idx = i
        /\ i > 0 => disk[i].prev = disk[i - 1].hash

\* Whenever the process stops, also in the middle of a PutBlock or after a
\* failed one, every block up to the height in meta.json can be read and they
\* form one chain (storage.PutBlock writes the block before the height).
DurableChain == metaDisk > 0 => Linked(metaDisk)

\* A running node serves a whole chain up to the height it reports, also when
\* saveMeta failed and meta.json is behind (Height, GetBlock, GetTip).
LiveChain == running => metaDisk <= height /\ (height > 0 => Linked(height))

\* While no PutBlock has failed, the account state is the one whose root the
\* tip carries: balances never show a block that is not in the chain, and
\* miss none that is (applyBlockInternal changes bc.state, then PutBlock).
StateMatchesTip ==
    running /\ ~tainted /\ phase # "putblock" => state = disk[height].root

\* A signed transfer is executed at most once: no two places of the chain
\* hold transactions of one sender with one nonce, whatever was submitted
\* twice, pooled after it was mined, or sent by peers in their blocks.
NoReplay ==
    running =>
        \A i, j \in 1..height :
            \A k \in 1..Len(disk[i].txs), l \in 1..Len(disk[j].txs) :
                SameKey(disk[i].txs[k], disk[j].txs[l]) => i = j /\ k = l

Balances(s) == SumFunction([a \in Addr |-> s[a].bal])
Fees(txs) == SumFunction([k \in 1..Len(txs) |-> txs[k].fee])

\* What a block adds to the money there is, and takes out of it.
Minted(b) == IF b.miner = NoMiner THEN 0 ELSE Reward
Burned(b) == IF b.miner = NoMiner THEN Fees(b.txs) ELSE 0

\* Every unit is accounted for: the balances and the fees burned in blocks
\* without a miner are the allocation plus one reward per block with a miner.
SupplyAccounted ==
    running /\ ~tainted /\ phase # "putblock" =>
        Balances(state) + SumFunction([i \in 1..height |-> Burned(disk[i])])
          = SumFunction(Alloc) + SumFunction([i \in 1..height |-> Minted(disk[i])])

\* No transaction waits for a nonce the chain has not reached, the faucet's
\* included: what is pooled is either next for its sender or never again.
PoolNeverAhead ==
    /\ \A tx \in pool \cup validated : running => tx.nonce <= state[tx.from].nonce
    /\ dripping # NoTx => dripping.nonce <= state[dripping.from].nonce

\* A pooled transfer of a wallet that the chain would refuse is stale, never
\* short of money: validation at submission stays good until its nonce is
\* used (the faucet adds without validation).
PoolRefusedOnlyIfStale ==
    running => \A tx \in pool \cup validated :
        tx.from # Faucet /\ tx.nonce = state[tx.from].nonce => Accepts(state, tx)

\* A transaction with a used nonce is pending, and the miner's next or
\* current attempt holds one.
Stale(tx) == tx.nonce < state[tx.from].nonce
Stalled ==
    /\ running
    /\ \E tx \in pool : Stale(tx)
    /\ \/ mpc = "wait"
       \/ /\ mpc = "pending" \/ (mpc = "mining" /\ phase = "sim")
          /\ \E i \in 1..Len(mtxs) : Stale(mtxs[i])

\* One stale transaction stops the miner for good: mineLoop drops nothing
\* when FinalizeAndMineBlock fails, so as long as the process runs and the
\* pool fits in one block no attempt gets as far as changing the state.
StallIsPermanent ==
    [][Stalled /\ running' /\ Cardinality(pool') <= MaxPending => Stalled']_vars

\* A running node never rewrites a block of its chain, only a genesis block
\* that has no successor (PutBlock overwrites files).
HistoryImmutable ==
    [][running /\ running' /\ height > 0 =>
        \A i \in 0..height : disk'[i] = disk[i]]_vars

\* Where each transfer is submitted once and no peer interferes, what is in
\* the pool gets into the chain.
PendingIsMined ==
    \A tx \in Txs :
        tx \in pool ~> \E i \in 1..height : \E k \in 1..Len(disk[i].txs) : disk[i].txs[k] = tx

\* A node whose meta.json names a block above genesis never starts again:
\* applyBlockInternal compares each stored block with the tip of the store it
\* is stored in.
StaysDown == [][~running /\ metaDisk > 0 => ~running' /\ UNCHANGED storeVars]_vars

\* A node that was stopped comes up again with its chain.
RestartRecovers == ~running ~> running

-----------------------------------------------------------------------------
(* The condition of the theorems about money: no sum of uint64 wraps, neither *)
(* what a transfer takes nor all that the allocation and the blocks that are  *)
(* made could bring.  The code checks neither.                                *)

NoOverflow ==
    /\ IsFiniteSet(Addr)
    /\ \A tx \in Txs : tx.amount + tx.fee < Word
    /\ Drip < Word
    /\ SumFunction(Alloc) + Reward * MaxHash < Word
=============================================================================
