------------------------------ MODULE Launcher ------------------------------
(***************************************************************************)
(* The token launcher (bsc-launcher/server): contracts deployed by the     *)
(* server's key or by a wallet, the files of tokens, pools and listings,   *)
(* and the book of the flash coin's mirrors.  A file is read, changed and  *)
(* written under a lock of its own each time, so requests overlap between. *)
(*                                                                         *)
(* The EVM chains are external: a sender's transactions are mined in the   *)
(* order of their nonces, one for each, and the address of a contract is   *)
(* made of its sender and nonce, on every chain alike.  The rate limiter   *)
(* and the requests that only read are left out.                           *)
(***************************************************************************)
EXTENDS Service, Integers, FiniteSets

CONSTANTS
    Chain,
    Default,            \* "bsc", the chain a mirror is registered on
    Deployer, Wallet,   \* senders: the server's key, and MetaMask's
    Mirrors,            \* chains of flash-coin-mirror-result.json
    Predicted,          \* the address it names for each, or NoAddress
    NoAddress, NoTx, NoJob,
    MaxBegun, MaxNonce

Sender == {Deployer, Wallet}
Address == [from : Sender, nonce : 0..MaxNonce]
Tx == [chain : Chain, from : Sender, nonce : 0..MaxNonce, by : Client \cup {Wallet}]
Receipt == [tx : Tx, kind : {"created", "failed", "call"}]
TokenRecord == [address : Address, tx : Tx \cup {NoTx}, chain : Chain,
                deployMethod : {"backend", "metamask", "mirror"}]
Mirror == [address : Address \cup {NoAddress}, status : {"predicted", "live"}, verified : BOOLEAN]
Book == [canonical : Address \cup {NoAddress}, mirrors : [Mirrors -> Mirror]]
Listing == Chain \X Address

LauncherAssumption ==
    /\ Default \in Chain /\ Mirrors \subseteq Chain /\ Deployer # Wallet
    /\ Predicted \in [Mirrors -> Address \cup {NoAddress}]
    /\ NoAddress \notin Address
    /\ MaxBegun \in Nat /\ MaxNonce \in Nat

VARIABLES
    tokens,     \* tokens.json
    liquidity,  \* liquidity.json: the requests that appended to it
    listings,   \* listings-bridge-result.json
    live,       \* flash-coin-live-addresses.json
    pending, mined,
    job,        \* what each client's request has to do, with its copies
    begun

launcherVars == <<tokens, liquidity, listings, live, pending, mined, job, begun>>
chainVars == <<pending, mined>>

LauncherInit ==
    /\ tokens = {} /\ liquidity = {} /\ listings = {} /\ live = NoFile
    /\ pending = {} /\ mined = {}
    /\ job = [c \in Client |-> NoJob] /\ begun = 0

-----------------------------------------------------------------------------
(* The chains *)

Of(txs, ch, s) == {t \in txs : t.chain = ch /\ t.from = s}
MinedTxs == {r.tx : r \in mined}
AddressOf(t) == [from |-> t.from, nonce |-> t.nonce]
\* What isContractOn finds.
Code(ch) == {AddressOf(r.tx) : r \in {m \in mined : m.kind = "created" /\ m.tx.chain = ch}}
NonceAt(ch, s) == Cardinality(Of(MinedTxs, ch, s))
PendingNonceAt(ch, s) ==
    NonceAt(ch, s) + Cardinality({t.nonce : t \in Of(pending, ch, s)})

Mine(t) ==
    /\ t \in pending /\ t.nonce = NonceAt(t.chain, t.from)
    /\ \E kind \in {"created", "failed"} : mined' = mined \cup {[tx |-> t, kind |-> kind]}
    /\ pending' = pending \ {t}
    /\ UNCHANGED <<tokens, liquidity, listings, live, job, begun>>

\* A wallet's transaction, which need not create anything.
WalletSends(ch) ==
    LET n == NonceAt(ch, Wallet) IN
    /\ n \in 0..MaxNonce
    /\ \E kind \in {"created", "failed", "call"} :
          mined' = mined \cup {[tx |-> [chain |-> ch, from |-> Wallet, nonce |-> n, by |-> Wallet],
                                kind |-> kind]}
    /\ UNCHANGED <<tokens, liquidity, listings, live, pending, job, begun>>

-----------------------------------------------------------------------------
(* Requests *)

NoRecord == [address |-> NoAddress, tx |-> NoTx, chain |-> Default, deployMethod |-> "mirror"]
NoBook == [canonical |-> NoAddress,
           mirrors |-> [ch \in Mirrors |-> [address |-> NoAddress, status |-> "predicted", verified |-> FALSE]]]
Fresh(step) == [at |-> step, tx |-> NoTx, record |-> NoRecord, list |-> {}, book |-> NoBook]

Stage(c, step) == job[c] # NoJob /\ job[c].at = step
Move(c, j) == job' = [job EXCEPT ![c] = j] /\ UNCHANGED begun
Answer(c) == Move(c, NoJob)
Record(t, how) == [address |-> AddressOf(t), tx |-> t, chain |-> t.chain, deployMethod |-> how]

\* deployContract: the nonce is read, and the transaction sent afterwards.  The
\* node refuses a nonce that is used; one that is pending is replaced only at a
\* higher gas price.  Its answer may be lost.
SendTx(c) ==
    LET t == job[c].tx
        same == {u \in Of(pending, t.chain, t.from) : u.nonce = t.nonce}
    IN /\ Stage(c, "send")
       /\ \/ /\ t.nonce >= NonceAt(t.chain, t.from)
             /\ pending' = (pending \ same) \cup {t}
             /\ Move(c, [job[c] EXCEPT !.at = "wait"]) \/ Answer(c)
          \/ UNCHANGED pending /\ Answer(c)
       /\ UNCHANGED <<tokens, liquidity, listings, live, mined>>

\* waitReceipt gives up after three minutes, or when the client has gone; the
\* contract may still be created.
Wait(c) ==
    /\ Stage(c, "wait")
    /\ \/ \E r \in mined :
             /\ r.tx = job[c].tx
             /\ IF r.kind = "created"
                THEN Move(c, [job[c] EXCEPT !.at = "add", !.record = Record(r.tx, "backend")])
                ELSE Answer(c)
       \/ Answer(c)
    /\ UNCHANGED <<tokens, liquidity, listings, live, chainVars>>

\* Mutant of Verified: the address the client names is kept.
VerifiedClaimed(r, claimed) == [Record(r.tx, "metamask") EXCEPT !.address = claimed]

\* verifyDeployTx: the receipt names the contract, whatever the client says.
Verified(r, claimed) == Record(r.tx, "metamask")

\* TokenStore.Add and Upsert, up to the write.
LoadList(c) ==
    LET r == job[c].record
        others == {t \in tokens : t.address # r.address}
    IN /\ Stage(c, "add") \/ Stage(c, "upsert")
       /\ IF tokens = Broken \/ (Stage(c, "add") /\ others # tokens) THEN Answer(c)
          ELSE Move(c, [job[c] EXCEPT !.at = IF @ = "add" THEN "save" ELSE "saveMirror",
                                    !.list = others \cup {r}])
       /\ UNCHANGED <<tokens, liquidity, listings, live, chainVars>>

SaveList(c) ==
    /\ Stage(c, "save") \/ Stage(c, "saveMirror")
    /\ tokens' \in Written(job[c].list, tokens)
    /\ IF Stage(c, "saveMirror") /\ tokens' = job[c].list
       THEN Move(c, [job[c] EXCEPT !.at = "again"]) ELSE Answer(c)
    /\ UNCHANGED <<liquidity, listings, live, chainVars>>

\* A pool is appended without a look at those there are; a file of listings that
\* does not parse counts as empty.
LoadFile(c) ==
    /\ \/ /\ Stage(c, "loadPools")
          /\ IF liquidity = Broken THEN Answer(c)
             ELSE Move(c, [job[c] EXCEPT !.at = "savePools", !.list = @ \cup liquidity])
       \/ /\ Stage(c, "loadListings")
          /\ Move(c, [job[c] EXCEPT !.at = "saveListings",
                                  !.list = @ \cup IF listings = Broken THEN {} ELSE listings])
    /\ UNCHANGED <<tokens, liquidity, listings, live, chainVars>>

SaveFile(c) ==
    /\ \/ Stage(c, "savePools") /\ liquidity' \in Written(job[c].list, liquidity) /\ UNCHANGED listings
       \/ Stage(c, "saveListings") /\ listings' \in Written(job[c].list, listings) /\ UNCHANGED liquidity
    /\ Answer(c) /\ UNCHANGED <<tokens, live, chainVars>>

-----------------------------------------------------------------------------
(* The book of mirrors *)

\* loadFlashMirrorBook: what the live file has of a chain goes before what was
\* predicted.  Without an address of its own the book takes one of its mirrors',
\* and a mirror without one the book's.
Readable == live \notin {NoFile, Broken}
LoadedBooks ==
    LET predicted(ch) == [address |-> Predicted[ch], status |-> "predicted", verified |-> FALSE]
        found == [ch \in Mirrors |-> IF Readable THEN live.mirrors[ch] ELSE predicted(ch)]
        known == {found[ch].address : ch \in Mirrors} \ {NoAddress}
        canonical == IF Readable /\ live.canonical # NoAddress THEN {live.canonical}
                     ELSE IF known = {} THEN {NoAddress} ELSE known
    IN {[canonical |-> a,
         mirrors |-> [ch \in Mirrors |->
                        [found[ch] EXCEPT !.address = IF @ = NoAddress THEN a ELSE @]]] : a \in canonical}

\* Mutant of Seen: the mirror keeps its own address.
SeenKept(m, ch, a) ==
    IF a \in Code(ch) THEN [m EXCEPT !.status = "live", !.verified = TRUE] ELSE [m EXCEPT !.verified = FALSE]

\* verifyFlashMirrorOnChain looks for the book's address on every chain.
Seen(m, ch, a) ==
    IF a \in Code(ch) THEN [address |-> a, status |-> "live", verified |-> TRUE]
    ELSE [m EXCEPT !.verified = FALSE]

\* reloadFlashMirrorPayload looks for the mirror's own, and leaves one that was
\* live as it was.
Reloaded(m, ch, answers) ==
    IF m.address \in Code(ch) /\ ch \in answers THEN [m EXCEPT !.status = "live", !.verified = TRUE]
    ELSE [m EXCEPT !.verified = @ /\ m.status = "live"]

Verify(c) ==
    LET b == job[c].book IN
    /\ Stage(c, "verify")
    /\ \E answers \in SUBSET Mirrors :
          Move(c, [job[c] EXCEPT !.at = "reload",
                 !.book.mirrors = [ch \in Mirrors |-> IF ch \in answers /\ b.canonical # NoAddress
                                                      THEN Seen(@[ch], ch, b.canonical) ELSE @[ch]]])
    /\ UNCHANGED <<tokens, liquidity, listings, live, chainVars>>

Reload(c) ==
    /\ Stage(c, "reload")
    /\ \E answers \in SUBSET Mirrors :
          Move(c, [job[c] EXCEPT !.at = "keep",
                 !.book.mirrors = [ch \in Mirrors |-> Reloaded(@[ch], ch, answers)]])
    /\ UNCHANGED <<tokens, liquidity, listings, live, chainVars>>

\* An error of the write is ignored.
Keep(c) ==
    /\ Stage(c, "keep") /\ live' \in Written(job[c].book, live) /\ Answer(c)
    /\ UNCHANGED <<tokens, liquidity, listings, chainVars>>

\* handleFixPending registers the flash coin, then may load the book again.
Fix(c) ==
    /\ \E b \in LoadedBooks :
          \/ /\ Stage(c, "fix")
             /\ Move(c, IF b.canonical = NoAddress THEN [job[c] EXCEPT !.at = "again"]
                      ELSE [job[c] EXCEPT !.at = "upsert", !.record.address = b.canonical])
          \/ Stage(c, "again") /\ Move(c, [job[c] EXCEPT !.at = "reload", !.book = b])
          \/ Stage(c, "again") /\ Answer(c)
    /\ UNCHANGED <<tokens, liquidity, listings, live, chainVars>>

-----------------------------------------------------------------------------

LauncherBegin(c) ==
    /\ job[c] = NoJob /\ begun < MaxBegun /\ begun' = begun + 1
    /\ \/ job' = [job EXCEPT ![c] = [Fresh("loadPools") EXCEPT !.list = {begun}]]
       \/ \E j \in
          {[Fresh("send") EXCEPT !.tx = [chain |-> ch, from |-> Deployer,
                                         nonce |-> PendingNonceAt(ch, Deployer), by |-> c]] :
              ch \in {d \in Chain : PendingNonceAt(d, Deployer) \in 0..MaxNonce}}
          \cup {[Fresh("add") EXCEPT !.record = Verified(r, a)] :
                   r \in {m \in mined : m.kind = "created"}, a \in Address}
          \cup {Fresh("fix")}
          \cup {[Fresh(step) EXCEPT !.book = b] : step \in {"verify", "reload"}, b \in LoadedBooks}
          \cup {[Fresh("loadListings") EXCEPT !.list = {<<Default, AddressOf(t)>>}] : t \in MinedTxs} :
             job' = [job EXCEPT ![c] = j]
    /\ UNCHANGED <<tokens, liquidity, listings, live, chainVars>>

LauncherStop ==
    /\ Stops /\ job' = [c \in Client |-> NoJob]
    /\ UNCHANGED <<tokens, liquidity, listings, live, chainVars, begun>>

LauncherStep(c) ==
    \/ SendTx(c) \/ Wait(c) \/ LoadList(c) \/ SaveList(c) \/ LoadFile(c) \/ SaveFile(c)
    \/ Verify(c) \/ Reload(c) \/ Keep(c) \/ Fix(c)

LauncherNext ==
    \/ \E c \in Client : LauncherBegin(c) \/ LauncherStep(c)
    \/ \E t \in pending : Mine(t)
    \/ \E ch \in Chain : WalletSends(ch)
    \/ LauncherStop
LauncherSpec == LauncherInit /\ [][LauncherNext]_launcherVars

-----------------------------------------------------------------------------

LauncherTypeOK ==
    /\ tokens \in (SUBSET TokenRecord) \cup {Broken}
    /\ liquidity \in (SUBSET (0..MaxBegun)) \cup {Broken}
    /\ listings \in (SUBSET Listing) \cup {Broken}
    /\ live \in Book \cup {NoFile, Broken} /\ pending \subseteq Tx /\ mined \subseteq Receipt

\* Whatever deployments overlap, are replaced or lose their answer, whatever a
\* client claims, and though the flash coin may take a record's place: the
\* transaction of a registered token created the contract at its address on its
\* chain (deploy.go), and no address is registered twice (store.go).
RegisteredIsDeployed ==
    tokens # Broken =>
        /\ \A r \in tokens : r.deployMethod # "mirror" =>
              \E m \in mined : /\ m.tx = r.tx /\ m.kind = "created" /\ m.tx.chain = r.chain
                               /\ AddressOf(m.tx) = r.address
        /\ \A r, s \in tokens : r.address = s.address => r = s

\* A mirror the live file calls live or verified has its contract at the address
\* beside it (flashmirror.go, flashmirror_reload.go), though one check looks for
\* the book's address and the other for the mirror's own, and requests overwrite
\* each other's book.
LiveIsDeployed ==
    Readable => \A ch \in Mirrors :
        live.mirrors[ch].verified \/ live.mirrors[ch].status = "live"
        => live.mirrors[ch].address \in Code(ch)
=============================================================================
