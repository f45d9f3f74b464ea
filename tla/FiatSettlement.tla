--------------------------- MODULE FiatSettlement ---------------------------
(***************************************************************************)
(* Settlements on the ledger book: the batch that takes all fiat through   *)
(* the pools of the fund classes into the vaults of USDC and ETH and mints *)
(* a stablecoin (ledger/fiat_settlement_middleware.go), a single           *)
(* settlement (ledger/settlement.go) and a conversion that is paid out     *)
(* (bridge/ledger_convert.go).                                             *)
(*                                                                         *)
(* Each is a sequence of transfers of LedgerBook, with its loads, saves    *)
(* and failures, and ends with the first that fails: nothing is taken      *)
(* back.  The records of settlements, which no step reads, are left out;   *)
(* that they are saved is not.                                             *)
(***************************************************************************)
EXTENDS LedgerBook

CONSTANTS
    Fiat,        \* FiatRates: assets that are currencies
    Usd, Usdc, Eth, Stable,
    Customer,    \* accounts that are no vault, pool or mint
    Class,       \* fund classes
    ClassOf,     \* of a customer's account
    PoolOf,      \* poolAccountID
    UsdcVault, EthVault, MintVault,
    Receiver,    \* the account that stands for the receiver's address
    EthPercent,  \* DefaultEthLoadPct
    NoBatch,
    MaxPlain     \* transfers after which no other request or settlement starts

SettlementAssumption ==
    /\ Fiat \cup {Usd, Usdc, Eth, Stable} \subseteq Asset /\ Usd \in Fiat
    /\ Customer \cup {UsdcVault, EthVault, MintVault, Receiver} \subseteq Account
    /\ {"m1", "m2", "m3", "m4", "mint"} \subseteq Class
    /\ ClassOf \in [Customer -> Class] /\ PoolOf \in [Class -> Account]
    /\ EthPercent \in 1..99

VARIABLE batch   \* what is left of each client's settlement

\* "left" are accounts, with what they held when they were listed.
Batch == [phase : {"list", "pool", "drain", "eth", "tag", "put", "mint", "send", "record", "convert", "payout"},
          left : SUBSET [acct : Account, n : Nat, usd : Nat],
          acct : Account, amount : Nat, pay : BOOLEAN]
Left(a, n, usd) == [acct |-> a, n |-> n, usd |-> usd]

settlementVars == <<vars, batch>>

SettlementInit == Init /\ batch = [c \in Client |-> NoBatch]

-----------------------------------------------------------------------------

Balance(b, a) == IF b.accounts[a] = NoAccount THEN 0 ELSE b.accounts[a].bal

\* Mutant of Route: every class has a pool of its own.
RouteAsIs(class) == class

\* RouteFiatToPoolFundClass, for the classes AggregateFundClasses drains.
Aggregate == {"m1", "m2", "m3", "m4", "mint"}
Route(class) ==
    IF class = "nsb" THEN "mint" ELSE IF class \in Aggregate THEN class ELSE "m1"

\* listFiatAccounts.
FiatAccounts(b) ==
    {Left(a, Balance(b, a), OutAmount(Balance(b, a), b.accounts[a].asset, Usd)) :
        a \in {x \in Customer : Balance(b, x) > 0 /\ b.accounts[x].asset \in Fiat}}

EthPart(n) == (n * EthPercent) \div 100

Request0 == [from |-> UsdcVault, to |-> MintVault, amount |-> 1, convertTo |-> NoAsset, external |-> FALSE]
\* The next transfer of a batch, or what follows without one.
Transfers(c, r, b) ==
    /\ Goto(c, "read") /\ req' = [req EXCEPT ![c] = r] /\ batch' = [batch EXCEPT ![c] = b]
    /\ UNCHANGED <<book, file, from, rec, paid, next, unsaved>>
Continues(c, b) ==
    batch' = [batch EXCEPT ![c] = b] /\ UNCHANGED vars
\* A save whose error is ignored, as Mark's is.
SavesAnd(c, b) ==
    /\ Goto(c, "saveMark") /\ batch' = [batch EXCEPT ![c] = b]
    /\ UNCHANGED <<book, file, req, from, rec, paid, next, unsaved>>

\* Every settlement starts with SyncLedgerBook; one that is not a batch goes on
\* to its transfer.  "pay" is whether there is an address to pay.
BatchBegin(c) ==
    /\ batch[c] = NoBatch /\ pc[c] = "idle" /\ next < MaxPlain /\ Sync(c)
    /\ \E pay \in BOOLEAN :
          batch' = [batch EXCEPT ![c] =
              [phase |-> IF req'[c] = NoRequest THEN "list"
                         ELSE IF pay /\ ~req'[c].external THEN "convert" ELSE "record",
               left |-> {}, acct |-> UsdcVault, amount |-> 0, pay |-> pay]]

List(c) ==
    LET b == batch[c] IN
    /\ b.phase = "list"
    /\ IF CanLoad /\ FiatAccounts(Loaded) # {}
       THEN Continues(c, [b EXCEPT !.phase = "pool", !.left = FiatAccounts(Loaded)])
       ELSE Continues(c, NoBatch)

\* All an account had when it was listed goes to the pool of its class; then the
\* amounts of the batch are worked out, at the prices of its beginning.
ToPools(c) ==
    LET b == batch[c] IN
    /\ b.phase = "pool"
    /\ IF b.left # {}
       THEN \E x \in b.left :
               Transfers(c, [Request0 EXCEPT !.from = x.acct, !.to = PoolOf[Route(ClassOf[x.acct])],
                                             !.amount = x.n, !.convertTo = Usd],
                         [b EXCEPT !.left = @ \ {x},
                                   !.amount = @ + x.usd])
       ELSE Continues(c, [b EXCEPT !.phase = "drain", !.amount = OutAmount(@ - EthPart(@), Usd, Usdc),
                                   !.left = {Left(PoolOf[k], 0, 0) : k \in Aggregate}])

\* Each pool goes to the two vaults, with what an earlier batch has left in it.
Drain(c) ==
    LET b == batch[c] IN
    \/ /\ b.phase = "drain" /\ b.left = {}
       /\ Continues(c, [b EXCEPT !.phase = "tag", !.left = {Left(UsdcVault, 0, 0), Left(EthVault, 0, 0)}])
    \/ /\ b.phase = "drain"
       /\ \E x \in b.left :
             LET had == Balance(Loaded, x.acct)
                 then == [b EXCEPT !.phase = "eth", !.left = @ \ {x}, !.acct = x.acct]
             IN IF had - EthPart(had) > 0
                THEN Transfers(c, [Request0 EXCEPT !.from = x.acct, !.to = UsdcVault,
                                                   !.amount = had - EthPart(had), !.convertTo = Usdc], then)
                ELSE Continues(c, then)
    \/ /\ b.phase = "eth"
       /\ LET rest == Balance(Loaded, b.acct)
              then == [b EXCEPT !.phase = "drain"]
          IN IF rest > 0
             THEN Transfers(c, [Request0 EXCEPT !.from = b.acct, !.to = EthVault,
                                                !.amount = rest, !.convertTo = Eth], then)
             ELSE Continues(c, then)

\* tagEthereumVault, and the tag of the mint: an account is copied under the
\* lock, and the copy put back later.
TagAsset(a) == IF a = UsdcVault THEN Usdc ELSE IF a = EthVault THEN Eth ELSE Stable
Tag(c) ==
    LET b == batch[c] IN
    /\ b.phase = "tag"
    /\ \/ b.left = {} /\ Continues(c, [b EXCEPT !.phase = "mint", !.acct = UsdcVault])
       \/ \E x \in b.left :
             IF Loaded.accounts[x.acct] = NoAccount THEN Continues(c, [b EXCEPT !.left = @ \ {x}])
             ELSE /\ from' = [from EXCEPT ![c] = Loaded.accounts[x.acct]]
                  /\ batch' = [batch EXCEPT ![c] = [b EXCEPT !.phase = "put", !.left = @ \ {x}, !.acct = x.acct]]
                  /\ UNCHANGED <<book, file, pc, req, rec, paid, next, unsaved>>

Put(c) ==
    LET b == batch[c] IN
    /\ b.phase = "put"
    /\ book' = [book EXCEPT !.accounts[b.acct] = [from[c] EXCEPT !.asset = TagAsset(b.acct)]]
    /\ from' = [from EXCEPT ![c] = NoAccount]
    /\ batch' = [batch EXCEPT ![c] = IF b.acct = MintVault THEN [b EXCEPT !.phase = "send", !.acct = UsdcVault]
                                     ELSE [b EXCEPT !.phase = "tag"]]
    /\ pc' = [pc EXCEPT ![c] = IF b.acct = MintVault THEN "saveMark" ELSE @]
    /\ UNCHANGED <<file, req, rec, paid, next, unsaved>>

\* The batch's USDC is taken from the vault for the mint, and once more for the
\* receiver.
MintStable(c) ==
    LET b == batch[c] IN
    /\ b.phase = "mint"
    /\ \/ /\ b.amount > 0
          /\ Transfers(c, [Request0 EXCEPT !.amount = b.amount],
                       [b EXCEPT !.phase = "tag", !.left = {Left(MintVault, 0, 0)}])
       \/ Continues(c, [b EXCEPT !.phase = "send"])   \* MintStablecoin is off

\* Of a conversion, what it has brought the vault.
PayOut(c) ==
    LET b == batch[c]
        then == IF b.phase = "send" THEN [b EXCEPT !.phase = "record"] ELSE NoBatch
    IN
    /\ b.phase \in {"send", "payout"}
    /\ IF b.pay /\ b.amount > 0
       THEN Transfers(c, [Request0 EXCEPT !.from = b.acct, !.to = Receiver, !.amount = b.amount,
                                          !.convertTo = IF b.acct = UsdcVault THEN Usdc ELSE NoAsset,
                                          !.external = TRUE], then)
       ELSE Continues(c, then)

\* appendSettlement.
RecordIt(c) == batch[c].phase = "record" /\ SavesAnd(c, NoBatch)

\* A client with a settlement takes its next step when no transfer is under way.
BatchStep(c) ==
    /\ batch[c] # NoBatch /\ pc[c] = "idle"
    /\ List(c) \/ ToPools(c) \/ Drain(c) \/ Tag(c) \/ Put(c) \/ MintStable(c) \/ PayOut(c) \/ RecordIt(c)

-----------------------------------------------------------------------------

Ends(c) == batch' = [batch EXCEPT ![c] = NoBatch]

\* The transfer of a conversion says what there is to pay out.
Converts(c) ==
    batch' = IF batch[c] = NoBatch \/ batch[c].phase # "convert" THEN batch
             ELSE [batch EXCEPT ![c].phase = "payout", ![c].acct = req[c].to,
                                ![c].amount = OutAmount(req[c].amount, from[c].asset, OutAsset(req[c], from[c]))]

\* The steps of LedgerBook; an error ends the settlement, but for the save of
\* a mark.
BookStep(c) ==
    \/ batch[c] = NoBatch /\ next < MaxPlain /\ (Sync(c) \/ Import(c)) /\ UNCHANGED batch
    \/ (ResyncFails(c) \/ Save(c) \/ ReadAccount(c) \/ Settle(c) \/ Mark(c)) /\ UNCHANGED batch
    \/ Apply(c) /\ Converts(c)
    \/ (Refuse(c) \/ SettleFails(c)) /\ Ends(c)
    \/ pc[c] = "saveMark" /\ SaveFails(c) /\ UNCHANGED batch
    \/ pc[c] # "saveMark" /\ SaveFails(c) /\ Ends(c)

SettlementNext ==
    \/ \E c \in Client : BatchBegin(c) \/ BatchStep(c) \/ BookStep(c)
    \/ Stop /\ batch' = [c \in Client |-> NoBatch]

SettlementSpec == SettlementInit /\ [][SettlementNext]_settlementVars

-----------------------------------------------------------------------------
(* Properties *)

\* When a batch comes to mint, whatever earlier batches have left behind when
\* they failed: no money is left in a pool the batch has passed through and
\* none on a customer's fiat account, and the vault has what is to be minted.
\* With one request at a time.
BatchDrains ==
    \A c \in Client : batch[c] # NoBatch =>
        (batch[c].phase = "mint" /\ pc[c] = "idle" =>
            /\ \A k \in Class : Balance(book, PoolOf[k]) = 0
            /\ FiatAccounts(book) = {}
            /\ Balance(book, UsdcVault) >= batch[c].amount)

-----------------------------------------------------------------------------
(* The condition of the theorem about it: only batches pay into the pools,    *)
(* which are nobody's accounts, and a USDC is worth a dollar.                 *)

Pools == {PoolOf[k] : k \in Class}
Apart ==
    /\ Worth[Usd] = Worth[Usdc]
    /\ Pools \cap (Customer \cup {UsdcVault, EthVault, MintVault, Receiver}) = {}
    /\ Customer \cap {UsdcVault, EthVault} = {}
    /\ \A entries \in Snapshots \cup Imports, a \in Pools : entries[a] = NoAccount
    /\ \A r \in Requests : r.to \notin Pools
=============================================================================
