----------------------------- MODULE Portfolio -----------------------------
(***************************************************************************)
(* The portfolio of the bridge's wallet and the pools it swaps in          *)
(* (bridge/portfolio.go, defi.go, staking.go, onexswap.go, amm/store.go).  *)
(*                                                                         *)
(* A request loads a copy of the portfolio, and Save makes that copy the   *)
(* object in the cache: what the request changes afterwards, saved or not, *)
(* every later request sees.  "todo" is what a client's request has still  *)
(* to do.  The records of deposits, swaps and NFTs, which no step reads,   *)
(* are left out; so is the address, the wallet being one.  Transfers of    *)
(* ONEX itself are the node's (OnexChain).                                 *)
(***************************************************************************)
EXTENDS Service, Pool, Sequences, FiniteSetsExt

CONSTANTS
    Token, Onex,     \* token keys
    Pair,            \* pairs of tokens, in the order of their keys
    Seeds,           \* configs/amm-pools.json: the pool of a pair, or NoPool
    Opening,         \* balances of a new portfolio
    Starter,         \* balances ActivateSwap gives where there are none
    ChainBalance,    \* the wallet's ONEX in the node
    EvmBalances,     \* what ReadEVMEntries finds, in production
    Production,
    Loan, Stake,     \* the terms there are
    Task, RewardOf,
    TaskOf,          \* the task an operation completes, or NoTask
    BonusOne,        \* 1000: a stake of this much has a bonus of one
    AtomicPerWhole,  \* 100000000
    Requests,
    NoPool, NoTask, NoRequest, Nobody,
    MaxStarted

Key == Token \cup Pair   \* a pair stands for the key of its shares
Amounts == [Key -> Nat]
NoAmounts == [k \in Key |-> 0]

LoanTerms == [kind : {"borrow", "lend"}, key : Key, col : Nat, debtKey : Key, debt : Nat]
StakeTerms == [key : Key, receipt : Key, n : Nat]
\* How many loans and stakes of the same terms are active.  "earned" is history:
\* how often this copy's past took a task's reward.
PortfolioRecord == [bal : Amounts, open : SUBSET Task, earned : [Task -> Nat],
                    loans : [Loan -> Nat], stakes : [Stake -> Nat]]
PoolFile == [Pair -> PoolRecord \cup {NoPool}]
Request == [op : {"swap", "bridge", "add", "remove", "rateSwap", "deposit", "pending", "mint", "moveNFT",
                  "claim", "loan", "badLoan", "repay", "send", "stake", "unstake", "activate", "view"},
            pair : Pair, side : {0, 1}, next : Pair, key : Key, to : Key, n : Nat, m : Nat,
            loan : Loan, stake : Stake, task : Task]

\* What the instances assume of the constants.
PortfolioAssumption ==
    /\ PoolAssumption /\ Onex \in Token
    /\ \A r \in Requests : {r.pair, r.next} \subseteq Token \X Token
    /\ Seeds \in PoolFile
    /\ \A q \in Pair : Seeds[q] # NoPool =>
          /\ q \in Token \X Token /\ Seeds[q].r0 > 0 /\ Seeds[q].r1 > 0 /\ Seeds[q].shares > 0
          /\ Seeds[q].r0 * Seeds[q].r1 <= Seeds[q].shares * Seeds[q].shares
    /\ {Opening, Starter, EvmBalances} \subseteq Amounts
    /\ ChainBalance \in Nat /\ Production \in BOOLEAN
    /\ Loan \subseteq LoanTerms /\ Stake \subseteq StakeTerms
    /\ RewardOf \in [Task -> [key : Token, n : Nat]]
    /\ Requests \subseteq Request /\ BonusOne \in Nat \ {0} /\ AtomicPerWhole \in Nat

ASSUME PortfolioAssumed == PortfolioAssumption

VARIABLES
    cached, file,    \* the portfolio in memory and on disk
    alias,           \* the client whose copy is the object in memory
    view,            \* each client's copy
    pools, poolFile, \* the pools in memory and in pools.json
    mine,            \* the pool of a pair a client has worked out, what it costs and gives
    todo, ask, started,
    owned            \* history: what there was of each token at the start

portVars == <<cached, file, alias, view, pools, poolFile, mine, todo, ask, started, owned>>
poolVars == <<pools, poolFile, mine>>

DefaultPortfolio ==
    [bal |-> IF Production THEN NoAmounts ELSE Opening,
     open |-> Task, earned |-> [t \in Task |-> 0],
     loans |-> [l \in Loan |-> 0], stakes |-> [s \in Stake |-> 0]]
NoPools == [q \in Pair |-> NoPool]
NothingOwned == [t \in Token |-> 0]
NothingMine == [pair |-> CHOOSE q \in Pair : TRUE, pool |-> Empty,
                key0 |-> Onex, n0 |-> 0, key1 |-> Onex, n1 |-> 0, shares |-> 0]

Init ==
    /\ cached = NoFile /\ file = NoFile /\ alias = Nobody
    /\ view = [c \in Client |-> DefaultPortfolio]
    /\ pools = Seeds /\ poolFile \in {Seeds} \cup IF DiskFaults THEN {NoFile, Broken} ELSE {}
    /\ mine = [c \in Client |-> NothingMine]
    /\ todo = [c \in Client |-> <<>>] /\ ask = [c \in Client |-> NoRequest]
    /\ started = 0 /\ owned = [c \in Client |-> NothingOwned]

-----------------------------------------------------------------------------
(* Requests as sequences of steps *)

GetPortfolio == <<"load", "keep">>
\* Mutant of Complete: the reward is booked before the task is marked.
CompleteRewardFirst(op) == IF TaskOf[op] = NoTask THEN <<>> ELSE <<"isOpen", "reward", "mark", "save">>

\* completeTask, for the operations that end with it.
Complete(op) == IF TaskOf[op] = NoTask THEN <<>> ELSE <<"isOpen", "mark", "reward", "save">>

\* OneXSwapExecute, OneXSwapAddLiquidity, OneXSwapRemoveLiquidity.
Swap == <<"swap">> \o GetPortfolio \o <<"pay0", "get1", "save", "update", "save">> \o Complete("swap")
Add == <<"add">> \o GetPortfolio \o <<"pay0", "pay1", "shares", "save", "update">>
Remove == <<"remove">> \o GetPortfolio \o <<"burn", "get0", "get1", "save", "update">>
Send == GetPortfolio \o <<"pay", "save">>
\* A loan whose debt does not parse is refused when its collateral is taken.
LoanProgram(op) ==
    CASE op = "loan" -> GetPortfolio \o <<"pledge", "borrow", "lent", "save">>
      [] op = "badLoan" -> GetPortfolio \o <<"pledge", "refuse">>
      [] op = "repay" -> GetPortfolio \o <<"payDebt", "release", "repaid", "save">>

\* Of these a bridge goes through ONEX: what its first leg did stays when the
\* second fails.
Program(op) ==
    CASE op = "swap" -> Swap
      [] op = "bridge" -> <<"quote">> \o Swap \o <<"secondLeg">> \o Swap
      [] op = "add" -> Add
      [] op = "remove" -> Remove
      [] op = "rateSwap" -> GetPortfolio \o <<"pay", "get", "save">> \o Complete(op)
      [] op = "deposit" -> GetPortfolio \o <<"get", "mustSave">> \o Complete(op)
      [] op = "pending" -> GetPortfolio \o <<"mustSave">> \o Complete(op)
      [] op = "mint" -> GetPortfolio \o <<"save">> \o Complete(op)
      [] op = "moveNFT" -> GetPortfolio \o <<"save">>
      [] op = "claim" -> GetPortfolio \o <<"isOpen", "mark", "reward", "save">>
      [] op \in {"loan", "badLoan", "repay"} -> LoanProgram(op)
      [] op = "send" -> Send
      [] op = "stake" -> GetPortfolio \o <<"lock", "receipt", "staked", "save">> \o Complete(op)
      [] op = "unstake" -> GetPortfolio \o <<"redeem", "principal", "unstaked", "save">>
      [] op = "activate" -> <<"reseed", "seedPools">> \o GetPortfolio \o <<"starter", "save">>
      [] OTHER -> GetPortfolio

At(c, step) == todo[c] # <<>> /\ Head(todo[c]) = step

\* The request goes on with its copy, or ends.
Go(c, rest, p, owner) ==
    /\ todo' = [todo EXCEPT ![c] = rest]
    /\ view' = [view EXCEPT ![c] = IF rest = <<>> THEN DefaultPortfolio ELSE p]
    /\ ask' = [ask EXCEPT ![c] = IF rest = <<>> THEN NoRequest ELSE @]
    /\ alias' = IF rest = <<>> /\ owner = c THEN Nobody ELSE owner
    /\ owned' = [owned EXCEPT ![c] = IF rest = <<>> THEN NothingOwned ELSE @]
    /\ UNCHANGED started

\* A change of the copy is one of the cached object too, once that is the copy.
Change(c, rest, p) ==
    /\ cached' = IF alias = c THEN p ELSE cached
    /\ Go(c, rest, p, alias) /\ UNCHANGED file

Skip(c, n) == Change(c, SubSeq(todo[c], n + 1, Len(todo[c])), view[c])
Refuse(c) == Change(c, <<>>, view[c])

\* A step that works on the copy alone; SubBalance; AddBalance.
Does(c, step, ok, p) ==
    /\ At(c, step) /\ IF ok THEN Change(c, Tail(todo[c]), p) ELSE Refuse(c)
    /\ UNCHANGED poolVars
\* Mutant of Pays: SubBalance does not look at the balance.
PaysUnchecked(c, step, k, n) == Does(c, step, TRUE, [view[c] EXCEPT !.bal[k] = @ - n])
Pays(c, step, k, n) ==
    Does(c, step, view[c].bal[k] >= n, [view[c] EXCEPT !.bal[k] = @ - n])
Gets(c, step, k, n) == Does(c, step, TRUE, [view[c] EXCEPT !.bal[k] = @ + n])

-----------------------------------------------------------------------------
(* PortfolioStore *)

\* syncOneXBalance: the node's balance replaces the portfolio's, unless the node
\* does not answer.  syncRealPortfolio: in production the rest is what the EVM
\* chains answer, or nothing.
Synced(p) ==
    LET real(n) == [EvmBalances EXCEPT ![Onex] = IF @ > 0 THEN @ ELSE n]
        bals(n) == IF Production THEN {real(n), [NoAmounts EXCEPT ![Onex] = n]}
                   ELSE {[p.bal EXCEPT ![Onex] = n]}
    IN {[p EXCEPT !.bal = b] : b \in bals(ChainBalance) \cup bals(p.bal[Onex])}

\* Load clones what is cached, or reads the file; one that cannot be read counts
\* as none, and makes a new portfolio.
Load(c) ==
    /\ At(c, "load")
    /\ \E p \in IF cached # NoFile THEN {cached}
                ELSE {IF file = NoFile THEN DefaultPortfolio ELSE file}
                     \cup IF DiskFaults THEN {DefaultPortfolio} ELSE {} :
          IF p = Broken THEN Refuse(c)
          ELSE /\ cached' = p
               /\ \E q \in Synced(p) :
                     Go(c, Tail(todo[c]), q, IF alias = c THEN Nobody ELSE alias)
               /\ UNCHANGED file
    /\ UNCHANGED poolVars

\* Save makes the copy the cached object and writes the file.  An error of that
\* is ignored, except by RecordDeposit.
Save(c) ==
    /\ At(c, "keep") \/ At(c, "save") \/ At(c, "mustSave")
    /\ file' \in {view[c]} \cup IF DiskFaults THEN {file, Broken} ELSE {}
    /\ cached' = view[c]
    /\ \/ Go(c, Tail(todo[c]), view[c], c)
       \/ At(c, "mustSave") /\ DiskFaults /\ Go(c, <<>>, view[c], c)
    /\ UNCHANGED poolVars

-----------------------------------------------------------------------------
(* Pools *)

SideIn(r) == r.pair[r.side + 1]
SideOut(r) == r.pair[2 - r.side]

Works(c, step, ok, m) ==
    /\ At(c, step)
    /\ IF ok THEN Skip(c, 1) /\ mine' = [mine EXCEPT ![c] = m] ELSE Refuse(c) /\ UNCHANGED mine
    /\ UNCHANGED <<pools, poolFile>>

\* The price a swap gives is that of the pool it then changes, so it is never
\* refused for slippage.
WorkOutSwap(c) ==
    LET r == ask[c]
        p == pools[r.pair]
    IN Works(c, "swap", p # NoPool /\ CanSwap(p, r.side, r.n),
             [pair |-> r.pair, pool |-> Swapped(p, r.side, r.n), key0 |-> SideIn(r), n0 |-> r.n,
              key1 |-> SideOut(r), n1 |-> AmountOut(p, r.side, r.n), shares |-> 0])

\* The quote of a bridge's first leg is the amount of its second, read as whole
\* units: the second leg sells that much more.
Quote(c) ==
    LET r == ask[c]
        p == pools[r.pair]
    IN /\ At(c, "quote")
       /\ IF p # NoPool /\ CanQuote(p, r.n)
          THEN /\ todo' = [todo EXCEPT ![c] = Tail(@)]
               /\ ask' = [ask EXCEPT ![c].m = AmountOut(p, r.side, r.n) * AtomicPerWhole]
               /\ UNCHANGED <<cached, file, alias, view, started, owned>>
          ELSE Refuse(c)
       /\ UNCHANGED poolVars

SecondLeg(c) ==
    LET r == ask[c] IN
    /\ At(c, "secondLeg")
    /\ todo' = [todo EXCEPT ![c] = Tail(@)]
    /\ ask' = [ask EXCEPT ![c] = [r EXCEPT !.pair = r.next, !.n = r.m,
                                           !.side = IF r.next[1] = Onex THEN 0 ELSE 1]]
    /\ UNCHANGED <<cached, file, alias, view, started, owned, poolVars>>

\* The amounts go with the tokens when the pool is new; the reserves of an
\* existing pool grow by them in the order given, though each is paid in the
\* token it was given for.
WorkOutAdd(c) ==
    LET r == ask[c]
        new == pools[r.pair] = NoPool
        p == IF new THEN Empty ELSE pools[r.pair]
        turned == r.side = 1
        a0 == IF new /\ turned THEN r.m ELSE r.n
        a1 == IF new /\ turned THEN r.n ELSE r.m
        k0 == IF ~new /\ turned THEN r.pair[2] ELSE r.pair[1]
        k1 == IF ~new /\ turned THEN r.pair[1] ELSE r.pair[2]
    IN Works(c, "add", CanAdd(p, a0, a1),
             [pair |-> r.pair, pool |-> Added(p, a0, a1), key0 |-> k0, n0 |-> a0, key1 |-> k1, n1 |-> a1,
              shares |-> Minted(p, a0, a1)])

\* All the shares asked for are debited, though the last one is not burnt.
WorkOutRemove(c) ==
    LET r == ask[c]
        p == pools[r.pair]
    IN Works(c, "remove", p # NoPool /\ CanRemove(p, r.n),
             [pair |-> r.pair, pool |-> Removed(p, r.n), key0 |-> r.pair[1], n0 |-> Paid0(p, r.n),
              key1 |-> r.pair[2], n1 |-> Paid1(p, r.n), shares |-> r.n])

\* Mutant of Update: only the file is written.
UpdateFileOnly(c) ==
    /\ At(c, "update")
    /\ poolFile' = [pools EXCEPT ![mine[c].pair] = mine[c].pool]
    /\ Skip(c, 1) /\ UNCHANGED <<pools, mine>>

\* Store.Update, whatever became of the pool since: in memory, then every pool of
\* it in the file.  Its error is ignored.
Update(c) ==
    /\ At(c, "update")
    /\ pools' = [pools EXCEPT ![mine[c].pair] = mine[c].pool]
    /\ poolFile' \in {pools'} \cup IF DiskFaults THEN {poolFile, Broken} ELSE {}
    /\ Skip(c, 1) /\ UNCHANGED mine

\* ActivateSwap: the seeds when there is no pool; the starter balances.
Reseed(c) == At(c, "reseed") /\ Skip(c, IF pools = NoPools THEN 1 ELSE 2) /\ UNCHANGED poolVars
SeedPools(c) ==
    /\ At(c, "seedPools")
    /\ pools' = [q \in Pair |-> IF Seeds[q] = NoPool THEN pools[q] ELSE Seeds[q]]
    /\ poolFile' \in {pools'} \cup IF DiskFaults THEN {poolFile, Broken} ELSE {}
    /\ Skip(c, 1) /\ UNCHANGED mine
GiveStarter(c) ==
    Does(c, "starter", \E k \in Key : view[c].bal[k] = 0 /\ Starter[k] > 0,
         [view[c] EXCEPT !.bal = [k \in Key |-> IF @[k] = 0 THEN Starter[k] ELSE @[k]]])

PoolStep(c) ==
    LET m == mine[c] IN
    \/ WorkOutSwap(c) \/ Quote(c) \/ SecondLeg(c) \/ WorkOutAdd(c) \/ WorkOutRemove(c)
    \/ Update(c) \/ Reseed(c) \/ SeedPools(c) \/ GiveStarter(c)
    \/ Pays(c, "pay0", m.key0, m.n0) \/ Pays(c, "pay1", m.key1, m.n1)
    \/ Gets(c, "get0", m.key0, m.n0) \/ Gets(c, "get1", m.key1, m.n1)
    \/ Pays(c, "burn", ask[c].pair, m.shares) \/ Gets(c, "shares", ask[c].pair, m.shares)

-----------------------------------------------------------------------------
(* Transfers, tasks, loans and stakes *)

Transfer(c) ==
    \/ Pays(c, "pay", ask[c].key, ask[c].n) \/ Gets(c, "get", ask[c].to, ask[c].m)
    \/ Does(c, "refuse", FALSE, view[c])

\* A task that is done is left alone: by completeTask in silence.
TaskStep(c) ==
    LET t == IF ask[c].op = "claim" THEN ask[c].task ELSE TaskOf[ask[c].op]
        p == view[c]
        reward == RewardOf[t]
    IN \/ /\ At(c, "isOpen") /\ Skip(c, IF t \in p.open THEN 1 ELSE 4) /\ UNCHANGED poolVars
       \/ Does(c, "mark", TRUE, [p EXCEPT !.open = @ \ {t}])
       \/ Does(c, "reward", TRUE, [p EXCEPT !.bal[reward.key] = @ + reward.n, !.earned[t] = @ + 1])

\* The amount of the debt is read after the collateral is taken.
LoanStep(c) ==
    LET l == ask[c].loan
        p == view[c]
    IN \/ Pays(c, "pledge", l.key, l.col)
       \/ Gets(c, "borrow", l.debtKey, IF l.kind = "borrow" THEN l.debt ELSE 0)
       \/ Does(c, "lent", TRUE, [p EXCEPT !.loans[l] = @ + 1])
       \/ Does(c, "payDebt", p.loans[l] > 0 /\ p.bal[l.debtKey] >= l.debt,
               [p EXCEPT !.bal[l.debtKey] = @ - l.debt])
       \/ Gets(c, "release", l.key, l.col)
       \/ Does(c, "repaid", TRUE, [p EXCEPT !.loans[l] = @ - 1])

\* A stake is locked for some days, and its reward grows with them.
StakeStep(c) ==
    LET s == ask[c].stake
        p == view[c]
        receipt == s.n + s.n \div BonusOne
    IN \/ Pays(c, "lock", s.key, s.n) \/ Gets(c, "receipt", s.receipt, receipt)
       \/ Does(c, "staked", TRUE, [p EXCEPT !.stakes[s] = @ + 1])
       \/ \E unlocked \in BOOLEAN :
             Does(c, "redeem", unlocked /\ p.stakes[s] > 0 /\ p.bal[s.receipt] >= receipt,
                  [p EXCEPT !.bal[s.receipt] = @ - receipt])
       \/ \E reward \in {0, 1} : Gets(c, "principal", s.key, s.n + reward)
       \/ Does(c, "unstaked", TRUE, [p EXCEPT !.stakes[s] = @ - 1])

-----------------------------------------------------------------------------

Current == IF cached # NoFile THEN cached ELSE IF file = NoFile THEN DefaultPortfolio ELSE file
On(k, n, t) == IF k = t THEN n ELSE 0
Reserve(p, q, t) == IF p = NoPool THEN 0 ELSE On(q[1], p.r0, t) + On(q[2], p.r1, t)
LoanWorth(l, t) == On(l.key, l.col, t) - IF l.kind = "borrow" THEN On(l.debtKey, l.debt, t) ELSE 0
\* What there is of a token: the balance, the pools', and what loans hold and owe.
Holding(p, ps, t) ==
    p.bal[t] + SumFunctionOnSet([q \in Pair |-> Reserve(ps[q], q, t)], Pair)
    + SumFunctionOnSet([l \in Loan |-> p.loans[l] * LoanWorth(l, t)], Loan)
Owned(t) == Holding(Current, pools, t)

Begin(c) ==
    /\ todo[c] = <<>> /\ started < MaxStarted
    /\ \E r \in Requests : /\ ask' = [ask EXCEPT ![c] = r]
                           /\ todo' = [todo EXCEPT ![c] = Program(r.op)]
    /\ started' = started + 1 /\ mine' = [mine EXCEPT ![c] = NothingMine]
    /\ owned' = [owned EXCEPT ![c] = [t \in Token |-> IF Current = Broken THEN 0 ELSE Owned(t)]]
    /\ UNCHANGED <<cached, file, alias, view, pools, poolFile>>

\* The process stops and starts again: of a file that cannot be read or parsed no
\* pool is loaded, and the next Update writes what there is in memory.
Stop ==
    /\ Stops /\ started > 0
    /\ cached' = NoFile /\ alias' = Nobody
    /\ view' = [c \in Client |-> DefaultPortfolio]
    /\ todo' = [c \in Client |-> <<>>] /\ ask' = [c \in Client |-> NoRequest]
    /\ owned' = [c \in Client |-> NothingOwned] /\ mine' = [c \in Client |-> NothingMine]
    /\ \/ poolFile = NoFile /\ pools' = Seeds
          /\ poolFile' \in {Seeds} \cup IF DiskFaults THEN {NoFile, Broken} ELSE {}
       \/ poolFile \notin {NoFile, Broken} /\ pools' = poolFile /\ UNCHANGED poolFile
       \/ poolFile = Broken /\ pools' = NoPools /\ UNCHANGED poolFile
       \/ DiskFaults /\ pools' = NoPools /\ UNCHANGED poolFile
    /\ UNCHANGED <<file, started>>

PortfolioStep(c) ==
    Load(c) \/ Save(c) \/ PoolStep(c) \/ Transfer(c) \/ TaskStep(c) \/ LoanStep(c) \/ StakeStep(c)

PortfolioNext == (\E c \in Client : Begin(c) \/ PortfolioStep(c)) \/ Stop
PortfolioSpec == Init /\ [][PortfolioNext]_portVars

-----------------------------------------------------------------------------

PortfolioTypeOK ==
    /\ cached \in PortfolioRecord \cup {NoFile} /\ file \in PortfolioRecord \cup {NoFile, Broken}
    /\ view \in [Client -> PortfolioRecord] /\ alias \in Client \cup {Nobody}
    /\ pools \in PoolFile /\ poolFile \in PoolFile \cup {NoFile, Broken}
    /\ mine \in [Client -> [pair : Pair, pool : PoolRecord, key0 : Key, n0 : Nat,
                         key1 : Key, n1 : Nat, shares : Nat]]
    /\ ask \in [Client -> Request \cup {NoRequest}]

\* Whatever copies of a pool overwrite each other and whatever write fails, a
\* share of a pool is never worth less than in its seed, or than one when the
\* pool was made: no rounding of a swap, a deposit or a withdrawal
\* (amm/pool.go) takes from those who hold shares.
Base(q) == IF Seeds[q] = NoPool THEN [r0 |-> 1, r1 |-> 1, shares |-> 1] ELSE Seeds[q]
ShareWorthKept ==
    \A q \in Pair :
        /\ pools[q] # NoPool => ShareWorthAtLeast(pools[q], Base(q))
        /\ poolFile \notin {NoFile, Broken} /\ poolFile[q] # NoPool
           => ShareWorthAtLeast(poolFile[q], Base(q))

\* In no copy of the portfolio has a task been rewarded twice (defi.go,
\* completeTask), though a copy may be taken while another request changes it.
RewardOnce ==
    \A p \in {cached, file} \cup {view[c] : c \in DOMAIN view} :
        p \notin {NoFile, Broken} => \A t \in Task : p.earned[t] <= 1

\* What MakesNothing assumes: requests come one at a time, nothing fails, the
\* portfolio is not replaced by what the EVM chains answer, and the reward of a
\* first swap is in ONEX (portfolio.go:154); there are finitely many pairs and
\* loans, and what stands for no file, no pool and nobody is none.
BackedAssumption ==
    /\ \A c, d \in Client : c = d
    /\ ~DiskFaults /\ ~Stops /\ ~Production
    /\ IsFiniteSet(Pair) /\ IsFiniteSet(Loan) /\ Token \cap Pair = {}
    /\ NoFile \notin PortfolioRecord /\ Broken \notin PortfolioRecord /\ NoFile # Broken
    /\ NoPool \notin PoolRecord /\ Nobody \notin Client
    /\ \A op \in {"swap", "bridge"} : TaskOf[op] \in Task => RewardOf[TaskOf[op]].key = Onex

\* With one request at a time and no failures, a swap, a bridge, liquidity, a
\* loan or a transfer makes no token: what a refused request took is gone, but
\* nothing is added.  ONEX is left out, since the node's balance replaces the
\* portfolio's; so is liquidity that names the pair in reverse.
MakesNothing ==
    \A c \in Client, t \in Token \ {Onex} :
        /\ ask[c] # NoRequest /\ todo'[c] = <<>>
        /\ ask[c].op \in {"swap", "bridge", "add", "remove", "loan", "badLoan", "repay", "send"}
        /\ ask[c].op = "add" => ask[c].side = 0
        => Owned(t)' <= owned[c][t]
=============================================================================
