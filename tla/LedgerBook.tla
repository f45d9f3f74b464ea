----------------------------- MODULE LedgerBook -----------------------------
(***************************************************************************)
(* The ledger book of the bridge (internal/ledger/book.go): accounts and   *)
(* transfer records in one JSON file with a copy in memory, and the calls  *)
(* that bring it up to date, move value and pay external destinations      *)
(* (bridge/ledger_book.go).                                                *)
(*                                                                         *)
(* Every HTTP request runs in a goroutine of its own.  s.mu is held for    *)
(* each load, each save and each change alone, never for a whole call: a   *)
(* client's request is a sequence of steps, "pc" names the next one.       *)
(***************************************************************************)
EXTENDS Service, Naturals, Sequences, FiniteSets, FiniteSetsExt, Functions

CONSTANTS
    Account,    \* account ids
    Asset,
    Worth,      \* value of one unit of an asset, from the price table
    Requests,   \* what clients ask for
    Snapshots,  \* what ReadRealLedger may return
    Imports,    \* what may be imported
    MaxLog,     \* 500, the records kept
    NoAccount,  \* an account the book does not have
    NoAsset,    \* a request without ConvertTo
    NoRequest,  \* a call that only brings the book up to date
    NoRecord

CONSTANT MaxXfers \* the bound on transfers started

BookAccount == [asset : Asset, bal : Nat]
Accounts == [Account -> BookAccount \cup {NoAccount}]
\* An external request names a destination outside the bank, and "to" is the
\* account that ExternalTo makes for it.
Request == [from : Account, to : Account, amount : Nat \ {0},
            convertTo : Asset \cup {NoAsset}, external : BOOLEAN]
Record == [id : Nat, status : {"completed", "pending", "submitted", "on_chain"}]
Book == [accounts : Accounts, transfers : Seq(Record)]

ASSUME BookAssumption ==
    /\ Worth \in [Asset -> Nat \ {0}]
    /\ Requests \subseteq Request
    /\ Snapshots \subseteq Accounts /\ Imports \subseteq Accounts
    /\ NoAccount \notin BookAccount /\ NoAsset \notin Asset
    /\ NoRequest \notin Request /\ NoRecord \notin Record
    /\ NoFile \notin Book /\ Broken \notin Book /\ NoFile # Broken
    /\ MaxLog \in Nat \ {0} /\ MaxXfers \in Nat
    /\ DiskFaults \in BOOLEAN /\ Stops \in BOOLEAN

VARIABLES
    book,   \* s.data
    file,   \* ledger-book.json
    pc,     \* the next step of each client
    req,    \* its request
    from,   \* its copy of the account to debit
    rec,    \* its transfer record
    paid,   \* the transfers an external service has carried out
    next,   \* history: transfers recorded so far
    unsaved \* history: the last save failed

clientVars == <<pc, req, from, rec>>
vars == <<book, file, pc, req, from, rec, paid, next, unsaved>>

EmptyBook == [accounts |-> [a \in Account |-> NoAccount], transfers |-> <<>>]

HasAccounts(b) == \E a \in Account : b.accounts[a] # NoAccount

\* load: what is in memory stays if it has any account.
CanLoad == HasAccounts(book) \/ file # Broken
Loaded ==
    IF HasAccounts(book) THEN book ELSE IF file = NoFile THEN EmptyBook ELSE file

Init ==
    /\ book = EmptyBook /\ file = NoFile
    /\ pc = [c \in Client |-> "idle"] /\ req = [c \in Client |-> NoRequest]
    /\ from = [c \in Client |-> NoAccount] /\ rec = [c \in Client |-> NoRecord]
    /\ paid = {} /\ next = 0 /\ unsaved = FALSE

Goto(c, label) == pc' = [pc EXCEPT ![c] = label]

\* The request of a client ends.
Done(c) ==
    /\ Goto(c, "idle")
    /\ req' = [req EXCEPT ![c] = NoRequest]
    /\ from' = [from EXCEPT ![c] = NoAccount]
    /\ rec' = [rec EXCEPT ![c] = NoRecord]

-----------------------------------------------------------------------------
(* Bringing the book up to date *)

\* SyncFromSnapshot: an entry replaces the account unless the book has more.
Synced(b, snap) ==
    [b EXCEPT !.accounts = [a \in Account |->
        IF snap[a] = NoAccount \/ (@[a] # NoAccount /\ @[a].bal > snap[a].bal)
        THEN @[a] ELSE snap[a]]]

\* An entry to import, if there is one.
Usable(entry) == entry # NoAccount /\ entry.bal > 0

\* SyncImportEntries: an entry with a positive balance always replaces it.
Imported(b, entries) ==
    [b EXCEPT !.accounts = [a \in Account |->
        IF Usable(entries[a]) THEN entries[a] ELSE @[a]]]

\* SyncLedgerBook, which every call starts with.
Sync(c) ==
    /\ pc[c] \in {"idle", "resync"} /\ CanLoad
    /\ \E snap \in Snapshots : book' = Synced(Loaded, snap)
    /\ \E r \in IF pc[c] = "idle" THEN Requests \cup {NoRequest} ELSE {NoRequest} :
          req' = [req EXCEPT ![c] = r]
    /\ Goto(c, "saveSync")
    /\ UNCHANGED <<file, from, rec, paid, next, unsaved>>

\* ImportActiveLedger saves an import if there is anything in it, and then
\* syncs once more, whose error it ignores.
Import(c) ==
    /\ pc[c] = "idle" /\ CanLoad
    /\ \E entries \in Imports :
          /\ book' = Imported(Loaded, entries)
          /\ Goto(c, IF \E a \in Account : Usable(entries[a]) THEN "saveImport" ELSE "resync")
    /\ UNCHANGED <<file, req, from, rec, paid, next, unsaved>>

ResyncFails(c) ==
    /\ pc[c] = "resync" /\ ~CanLoad
    /\ Done(c)
    /\ UNCHANGED <<book, file, paid, next, unsaved>>

-----------------------------------------------------------------------------
(* save: the whole book, whatever other clients have changed in it.  It is  *)
(* the last step of a call except before a transfer and before a payment.   *)

AfterSave(c) ==
    CASE pc[c] = "saveSync"   -> IF req[c] = NoRequest THEN "idle" ELSE "read"
      [] pc[c] = "saveImport" -> "resync"
      [] pc[c] = "saveXfer"   -> IF req[c].external THEN "settle" ELSE "idle"
      [] pc[c] = "saveMark"   -> "idle"

Saving == {"saveSync", "saveImport", "saveXfer", "saveMark"}

Save(c) ==
    /\ pc[c] \in Saving
    /\ file' = book /\ unsaved' = FALSE
    /\ IF AfterSave(c) = "idle" THEN Done(c)
       ELSE Goto(c, AfterSave(c)) /\ UNCHANGED <<req, from, rec>>
    /\ UNCHANGED <<book, paid, next>>

\* os.WriteFile truncates the file first; the call ends with the error.
SaveFails(c) ==
    /\ DiskFaults /\ pc[c] \in Saving
    /\ file' \in {file, Broken} /\ unsaved' = TRUE
    /\ Done(c)
    /\ UNCHANGED <<book, paid, next>>

-----------------------------------------------------------------------------
(* Transfer *)

\* Mutant of Funds: any existing account will do.
FundsUnchecked(c) == Loaded.accounts[req[c].from] # NoAccount

\* GetAccount finds the account and it has the amount.
Funds(c) ==
    LET a == Loaded.accounts[req[c].from]
    IN  a # NoAccount /\ a.bal >= req[c].amount

\* The account to debit is copied under the lock and debited later.
ReadAccount(c) ==
    /\ pc[c] = "read" /\ CanLoad /\ Funds(c) /\ next < MaxXfers
    /\ book' = Loaded
    /\ from' = [from EXCEPT ![c] = Loaded.accounts[req[c].from]]
    /\ Goto(c, "apply")
    /\ UNCHANGED <<file, req, rec, paid, next, unsaved>>

\* "account not found", "insufficient balance", or the file does not parse.
Refuse(c) ==
    /\ pc[c] = "read" /\ (CanLoad => ~Funds(c))
    /\ book' = IF CanLoad THEN Loaded ELSE book
    /\ Done(c)
    /\ UNCHANGED <<file, paid, next, unsaved>>

\* ConvertAmount, at the prices of the moment.
OutAmount(amount, a, b) ==
    IF a = b THEN amount ELSE (amount * Worth[a]) \div Worth[b]

OutAsset(r, f) == IF r.convertTo = NoAsset THEN f.asset ELSE r.convertTo

\* Mutant of Moved: the account to credit is read before the debit.
MovedOldReads(accts, r, f) ==
    LET debited == [accts EXCEPT ![r.from] = [f EXCEPT !.bal = @ - r.amount]]
        had == IF accts[r.to] = NoAccount THEN 0 ELSE accts[r.to].bal
    IN  [debited EXCEPT ![r.to] =
            [asset |-> OutAsset(r, f),
             bal |-> had + OutAmount(r.amount, f.asset, OutAsset(r, f))]]

\* The copy f is debited and put in place of the account; the account to
\* credit takes the asset that arrives, whatever it held before.
Moved(accts, r, f) ==
    LET debited == [accts EXCEPT ![r.from] = [f EXCEPT !.bal = @ - r.amount]]
        had == IF debited[r.to] = NoAccount THEN 0 ELSE debited[r.to].bal
    IN  [debited EXCEPT ![r.to] =
            [asset |-> OutAsset(r, f),
             bal |-> had + OutAmount(r.amount, f.asset, OutAsset(r, f))]]

\* A record is put in front; the oldest ones are dropped.
Logged(transfers, r) ==
    LET all == <<r>> \o transfers
    IN  SubSeq(all, 1, IF Len(all) > MaxLog THEN MaxLog ELSE Len(all))

NewRecord(r) ==
    [id |-> next + 1, status |-> IF r.external THEN "pending" ELSE "completed"]

\* Mutant of Apply: the book is not saved before the payment.
ApplyUnsaved(c) ==
    /\ pc[c] = "apply"
    /\ book' = [accounts |-> Moved(book.accounts, req[c], from[c]),
                transfers |-> Logged(book.transfers, NewRecord(req[c]))]
    /\ next' = next + 1
    /\ IF req[c].external
       THEN rec' = [rec EXCEPT ![c] = NewRecord(req[c])] /\ Goto(c, "settle") /\ UNCHANGED <<req, from>>
       ELSE Done(c)
    /\ UNCHANGED <<file, paid, unsaved>>

Apply(c) ==
    /\ pc[c] = "apply"
    /\ book' = [accounts |-> Moved(book.accounts, req[c], from[c]),
                transfers |-> Logged(book.transfers, NewRecord(req[c]))]
    /\ rec' = [rec EXCEPT ![c] = NewRecord(req[c])]
    /\ next' = next + 1
    /\ Goto(c, "saveXfer")
    /\ UNCHANGED <<file, req, from, paid, unsaved>>

\* Mutant of Settle: any answer of the service counts as on_chain.
SettleTrusts(c) ==
    /\ pc[c] = "settle"
    /\ paid' \in {paid, paid \cup {rec[c].id}}
    /\ rec' = [rec EXCEPT ![c].status = "on_chain"]
    /\ Goto(c, "mark")
    /\ UNCHANGED <<book, file, req, from, next, unsaved>>

\* settle: a transaction of a chain, or a reference of a service that has
\* carried the payment out or only taken note of it ("bank-pending:" counts
\* as submitted, "chain-pending:" and "pending-settlement" stay pending).
Settle(c) ==
    /\ pc[c] = "settle"
    /\ \/ /\ paid' = paid \cup {rec[c].id}
          /\ rec' = [rec EXCEPT ![c].status = "on_chain"]
       \/ /\ paid' \in {paid, paid \cup {rec[c].id}}
          /\ \E status \in {"pending", "submitted"} :
                rec' = [rec EXCEPT ![c].status = status]
    /\ Goto(c, "mark")
    /\ UNCHANGED <<book, file, req, from, next, unsaved>>

\* settle returns an error, possibly after the payment went out.
SettleFails(c) ==
    /\ pc[c] = "settle"
    /\ paid' \in {paid, paid \cup {rec[c].id}}
    /\ Done(c)
    /\ UNCHANGED <<book, file, next, unsaved>>

\* The first record of the book becomes this transfer's.
Mark(c) ==
    /\ pc[c] = "mark"
    /\ book' = IF book.transfers = <<>> THEN book
               ELSE [book EXCEPT !.transfers[1] = rec[c]]
    /\ Goto(c, "saveMark")
    /\ UNCHANGED <<file, req, from, rec, paid, next, unsaved>>

-----------------------------------------------------------------------------
\* The process stops, also while a file is written, and is started again.
Stop ==
    /\ Stops
    /\ file' \in IF \E c \in Client : pc[c] \in Saving THEN {file, Broken} ELSE {file}
    /\ book' = EmptyBook
    /\ pc' = [c \in Client |-> "idle"] /\ req' = [c \in Client |-> NoRequest]
    /\ from' = [c \in Client |-> NoAccount] /\ rec' = [c \in Client |-> NoRecord]
    /\ unsaved' = FALSE
    /\ UNCHANGED <<paid, next>>

Next ==
    \/ \E c \in Client :
          \/ Sync(c) \/ Import(c) \/ ResyncFails(c) \/ Save(c) \/ SaveFails(c)
          \/ ReadAccount(c) \/ Refuse(c) \/ Apply(c)
          \/ Settle(c) \/ SettleFails(c) \/ Mark(c)
    \/ Stop

Spec == Init /\ [][Next]_vars

-----------------------------------------------------------------------------
(* Properties *)

\* Types of all variables; that a balance is a natural number says that no
\* transfer overdraws an account, also when the copy it debits is stale.
TypeOK ==
    /\ book \in Book /\ file \in Book \cup {NoFile, Broken}
    /\ pc \in [Client -> Saving \cup {"idle", "resync", "read", "apply", "settle", "mark"}]
    /\ req \in [Client -> Request \cup {NoRequest}]
    /\ from \in [Client -> BookAccount \cup {NoAccount}]
    /\ rec \in [Client -> Record \cup {NoRecord}]
    /\ paid \subseteq 1..next /\ next \in Nat /\ unsaved \in BOOLEAN

\* However the saves of several requests overlap: when none of them has a
\* save to do and the last one did not fail, the file is what is in memory.
SavedWhenQuiet ==
    HasAccounts(book) /\ ~unsaved /\ (\A c \in Client : pc[c] \notin Saving) => file = book

\* A record in memory or in the file that says a payment is on a chain is one
\* of a payment that was made, whichever record Mark has written over.
OnChainIsPaid ==
    \A b \in {book, file} \ {NoFile, Broken} : \A i \in 1..Len(b.transfers) :
        b.transfers[i].status = "on_chain" => b.transfers[i].id \in paid

\* Every payment that went out is on record in the file, if it can be read,
\* whatever write failed and wherever the process stopped, until MaxLog newer
\* transfers have pushed it out.
PaidIsRecorded ==
    file # Broken =>
        \A id \in paid : id + MaxLog > next =>
            file # NoFile /\ \E i \in 1..Len(file.transfers) : file.transfers[i].id = id

Value(accts) ==
    [a \in Account |-> IF accts[a] = NoAccount THEN 0 ELSE accts[a].bal * Worth[accts[a].asset]]
Total(b) == SumFunction(Value(b.accounts))

\* "TransferRequest moves value between ledger accounts": a transfer neither
\* makes nor loses any, conversions and transfers of an account to itself
\* included.
ValueMoves ==
    [][\A c \in Client :
          pc[c] = "apply" /\ pc'[c] = "saveXfer" => Total(book') = Total(book)]_vars

\* "keep lower book balance if user transferred out since last sync": a sync
\* never gives an account more than the book has for it.
KeepsTransferredOut ==
    [][\A c \in Client : pc[c] \in {"idle", "resync"} /\ pc'[c] = "saveSync" =>
          \A a \in Account :
              LET b == Loaded.accounts[a]
              IN  b # NoAccount => book'.accounts[a].bal <= b.bal]_vars

-----------------------------------------------------------------------------
(* The condition of the theorem about value: every account keeps its asset,   *)
(* in what is synced, imported and sent to it, and no conversion rounds.  The *)
(* code takes an account's asset from what was sent to it last, and rounds.   *)

KeepsAssets(assetOf) ==
    /\ IsFiniteSet(Account) /\ assetOf \in [Account -> Asset]
    /\ \A entries \in Snapshots \cup Imports : \A a \in Account :
          entries[a] # NoAccount => entries[a].asset = assetOf[a]
    /\ \A r \in Requests :
          /\ assetOf[r.to] = IF r.convertTo = NoAsset THEN assetOf[r.from] ELSE r.convertTo
          /\ (r.amount * Worth[assetOf[r.from]]) % Worth[assetOf[r.to]] = 0
=============================================================================
