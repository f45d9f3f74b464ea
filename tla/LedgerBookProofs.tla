-------------------------- MODULE LedgerBookProofs --------------------------
(***************************************************************************)
(* Proofs about LedgerBook, for any accounts, requests and snapshots: its  *)
(* types, that the file catches up with the memory, that no payment is     *)
(* made up, and, for one request at a time, that payments are on record and *)
(* that transfers keep the value there is.  Then the same of FiatSettlement, *)
(* whose batches are made of transfers: each step of a batch is one of the *)
(* book's or one of four more, and a batch that is through has emptied the *)
(* customers' fiat and the pools.                                          *)
(***************************************************************************)
EXTENDS FiatSettlement, SumTheorems, TLAPS

\* What a client holds while it is inside Transfer.
ClientInv ==
    \A c \in Client :
        /\ pc[c] \in {"read", "apply", "saveXfer", "settle", "mark"} => req[c] \in Request
        /\ pc[c] = "apply" => from[c] \in BookAccount /\ from[c].bal >= req[c].amount
        /\ pc[c] \in {"saveXfer", "settle", "mark"} =>
              rec[c] \in Record /\ rec[c].id \in 1..next

BookInv == TypeOK /\ ClientInv

-----------------------------------------------------------------------------
(* What the operators return. *)

LEMMA BookFields ==
    ASSUME NEW b \in Book
    PROVE  b.accounts \in Accounts /\ b.transfers \in Seq(Record)
BY DEF Book

LEMMA EmptyBookType == EmptyBook \in Book /\ ~HasAccounts(EmptyBook)
<1>1. EmptyBook.accounts = [a \in Account |-> NoAccount]
  BY DEF EmptyBook
<1>2. EmptyBook.accounts \in Accounts
  BY <1>1 DEF Accounts
<1>3. <<>> \in Seq(Record)
  OBVIOUS
<1>4. EmptyBook \in Book
  BY <1>2, <1>3 DEF EmptyBook, Book
<1>5. QED
  BY <1>1, <1>4 DEF HasAccounts

LEMMA LoadedType ==
    ASSUME TypeOK, CanLoad
    PROVE  /\ Loaded \in Book
           /\ HasAccounts(book) => Loaded = book
           /\ HasAccounts(Loaded) /\ ~HasAccounts(book) => Loaded = file
<1>1. CASE HasAccounts(book)
  BY <1>1 DEF Loaded, TypeOK
<1>2. CASE ~HasAccounts(book) /\ file = NoFile
  BY <1>2, EmptyBookType DEF Loaded
<1>3. CASE ~HasAccounts(book) /\ file # NoFile
  BY <1>3 DEF Loaded, CanLoad, TypeOK
<1>4. QED
  BY <1>1, <1>2, <1>3

LEMMA WithAccountsType ==
    ASSUME NEW b \in Book, NEW accts \in Accounts
    PROVE  /\ [b EXCEPT !.accounts = accts] \in Book
           /\ [b EXCEPT !.accounts = accts].transfers = b.transfers
           /\ accts = b.accounts => [b EXCEPT !.accounts = accts] = b
BY DEF Book

LEMMA SyncedType ==
    ASSUME NEW b \in Book, NEW snap \in Accounts
    PROVE  Synced(b, snap) \in Book /\ Synced(b, snap).transfers = b.transfers
<1> DEFINE accts == [a \in Account |->
        IF snap[a] = NoAccount \/ (b.accounts[a] # NoAccount /\ b.accounts[a].bal > snap[a].bal)
        THEN b.accounts[a] ELSE snap[a]]
<1>1. accts \in Accounts
  BY BookFields DEF Accounts
<1>2. Synced(b, snap) = [b EXCEPT !.accounts = accts]
  BY DEF Synced, Book
<1> HIDE DEF accts
<1>3. QED
  BY <1>1, <1>2, WithAccountsType

LEMMA ImportedType ==
    ASSUME NEW b \in Book, NEW entries \in Accounts
    PROVE  /\ Imported(b, entries) \in Book
           /\ Imported(b, entries).transfers = b.transfers
           /\ (\A a \in Account : ~Usable(entries[a])) => Imported(b, entries) = b
<1> DEFINE accts == [a \in Account |-> IF Usable(entries[a]) THEN entries[a] ELSE b.accounts[a]]
<1>1. accts \in Accounts
  BY BookFields DEF Accounts
<1>2. Imported(b, entries) = [b EXCEPT !.accounts = accts]
  BY DEF Imported, Book
<1>3. (\A a \in Account : ~Usable(entries[a])) => accts = b.accounts
  BY BookFields DEF Accounts
<1> HIDE DEF accts
<1>4. QED
  BY <1>1, <1>2, <1>3, WithAccountsType

LEMMA MovedType ==
    ASSUME NEW accts \in Accounts, NEW r \in Request, NEW f \in BookAccount,
           f.bal >= r.amount
    PROVE  Moved(accts, r, f) \in Accounts
<1> DEFINE debited == [accts EXCEPT ![r.from] = [f EXCEPT !.bal = @ - r.amount]]
           had == IF debited[r.to] = NoAccount THEN 0 ELSE debited[r.to].bal
           asset == OutAsset(r, f)
           out == OutAmount(r.amount, f.asset, asset)
<1>1. /\ r.from \in Account /\ r.to \in Account /\ r.amount \in Nat
      /\ f.asset \in Asset /\ f.bal \in Nat /\ asset \in Asset
  BY DEF Request, BookAccount, OutAsset
<1>2. [f EXCEPT !.bal = @ - r.amount] \in BookAccount
  BY <1>1 DEF BookAccount
<1>3. debited \in Accounts
  BY <1>1, <1>2 DEF Accounts
<1>4. had \in Nat
  <2> HIDE DEF debited
  <2>1. debited[r.to] \in BookAccount \cup {NoAccount}
    BY <1>1, <1>3 DEF Accounts
  <2>2. QED
    BY <2>1 DEF BookAccount
<1>5. out \in Nat
  <2>1. Worth[f.asset] \in Nat \ {0} /\ Worth[asset] \in Nat \ {0}
    BY <1>1, BookAssumption
  <2> DEFINE p == r.amount * Worth[f.asset]  q == Worth[asset]
  <2>2. p \in Nat /\ q \in Nat \ {0}
    BY <1>1, <2>1
  <2>3. out = IF f.asset = asset THEN r.amount ELSE p \div q
    BY DEF OutAmount
  <2> HIDE DEF p, q, out
  <2>4. p \div q \in Nat
    BY <2>2, SMTT(20)
  <2>5. QED
    BY <1>1, <2>3, <2>4
<1>6. Moved(accts, r, f) = [debited EXCEPT ![r.to] = [asset |-> asset, bal |-> had + out]]
  BY DEF Moved
<1> HIDE DEF debited, had, asset, out
<1>7. [asset |-> asset, bal |-> had + out] \in BookAccount
  BY <1>1, <1>4, <1>5 DEF BookAccount
<1>8. QED
  BY <1>1, <1>3, <1>6, <1>7 DEF Accounts

\* The newest record comes first, every other one moves by one place, and a
\* record is dropped only past MaxLog.
LEMMA LoggedType ==
    ASSUME NEW transfers \in Seq(Record), NEW r \in Record
    PROVE  /\ Logged(transfers, r) \in Seq(Record)
           /\ Len(Logged(transfers, r)) = IF Len(transfers) + 1 > MaxLog THEN MaxLog
                                                                        ELSE Len(transfers) + 1
           /\ \A i \in 1..Len(Logged(transfers, r)) :
                 Logged(transfers, r)[i] = IF i = 1 THEN r ELSE transfers[i - 1]
<1> DEFINE all == <<r>> \o transfers
           n == IF Len(all) > MaxLog THEN MaxLog ELSE Len(all)
<1>1. all \in Seq(Record) /\ Len(all) = Len(transfers) + 1
  OBVIOUS
<1>2. \A i \in 1..Len(all) : all[i] = IF i = 1 THEN r ELSE transfers[i - 1]
  OBVIOUS
<1>3. Logged(transfers, r) = SubSeq(all, 1, n)
  BY DEF Logged
<1>4. MaxLog \in Nat \ {0}
  BY BookAssumption
<1> HIDE DEF all
<1>5. n \in 1..Len(all)
  BY <1>1, <1>4
<1> HIDE DEF n
<1>6. /\ SubSeq(all, 1, n) \in Seq(Record) /\ Len(SubSeq(all, 1, n)) = n
      /\ \A i \in 1..n : SubSeq(all, 1, n)[i] = all[i]
  BY <1>1, <1>5
<1>7. n = IF Len(transfers) + 1 > MaxLog THEN MaxLog ELSE Len(transfers) + 1
  BY <1>1 DEF n
<1>8. QED
  BY <1>1, <1>2, <1>3, <1>5, <1>6, <1>7

LEMMA NewRecordType ==
    ASSUME next \in Nat, NEW r
    PROVE  /\ NewRecord(r) \in Record /\ NewRecord(r).id = next + 1
           /\ NewRecord(r).status # "on_chain"
BY DEF NewRecord, Record

LEMMA MarkedType ==
    ASSUME NEW b \in Book, b.transfers # <<>>, NEW r \in Record
    PROVE  /\ [b EXCEPT !.transfers[1] = r] \in Book
           /\ [b EXCEPT !.transfers[1] = r].accounts = b.accounts
           /\ Len([b EXCEPT !.transfers[1] = r].transfers) = Len(b.transfers)
           /\ \A i \in 1..Len(b.transfers) : [b EXCEPT !.transfers[1] = r].transfers[i] =
                 IF i = 1 THEN r ELSE b.transfers[i]
<1> DEFINE s == [b.transfers EXCEPT ![1] = r]
<1>1. b.transfers \in Seq(Record) /\ b.accounts \in Accounts
  BY BookFields
<1>2. 1 \in 1..Len(b.transfers)
  BY <1>1
<1>3. /\ s \in Seq(Record) /\ Len(s) = Len(b.transfers)
      /\ \A i \in 1..Len(b.transfers) : s[i] = IF i = 1 THEN r ELSE b.transfers[i]
  BY <1>1, <1>2
<1>4. [b EXCEPT !.transfers[1] = r] = [b EXCEPT !.transfers = s]
  BY DEF Book
<1> HIDE DEF s
<1>5. /\ [b EXCEPT !.transfers = s] \in Book
      /\ [b EXCEPT !.transfers = s].accounts = b.accounts
      /\ [b EXCEPT !.transfers = s].transfers = s
  BY <1>1, <1>3 DEF Book
<1>6. QED
  BY <1>3, <1>4, <1>5

-----------------------------------------------------------------------------
(* Types. *)

\* The types of what belongs to the clients.
ClientTypes ==
    /\ pc \in [Client -> Saving \cup {"idle", "resync", "read", "apply", "settle", "mark"}]
    /\ req \in [Client -> Request \cup {NoRequest}]
    /\ from \in [Client -> BookAccount \cup {NoAccount}]
    /\ rec \in [Client -> Record \cup {NoRecord}]

LEMMA DoneInv ==
    ASSUME BookInv, NEW c \in Client, Done(c), next' = next
    PROVE  ClientTypes' /\ ClientInv'
<1>1. ClientTypes'
  BY DEF BookInv, TypeOK, ClientTypes, Done, Goto
<1>2. ASSUME NEW d \in Client
      PROVE  \/ pc'[d] = "idle"
             \/ /\ pc'[d] = pc[d] /\ req'[d] = req[d]
                /\ from'[d] = from[d] /\ rec'[d] = rec[d]
  BY DEF BookInv, TypeOK, Done, Goto
<1>3. ClientInv'
  BY <1>2 DEF BookInv, ClientInv
<1>4. QED
  BY <1>1, <1>3

LEMMA GotoInv ==
    ASSUME BookInv, NEW c \in Client, NEW label, Goto(c, label),
           UNCHANGED <<req, from, rec, next>>,
           \/ label \in {"saveImport", "resync", "saveMark"}
           \/ label = "read" /\ req[c] \in Request
           \/ label = "settle" /\ pc[c] = "saveXfer"
    PROVE  ClientTypes' /\ ClientInv'
<1>1. ClientTypes'
  BY DEF BookInv, TypeOK, ClientTypes, Goto, Saving
<1>2. ASSUME NEW d \in Client
      PROVE  pc'[d] = IF d = c THEN label ELSE pc[d]
  BY DEF BookInv, TypeOK, Goto
<1>3. ClientInv'
  BY <1>2 DEF BookInv, ClientInv
<1>4. QED
  BY <1>1, <1>3

LEMMA SyncInv ==
    ASSUME BookInv, NEW c \in Client, Sync(c)
    PROVE  BookInv'
<1>1. book' \in Book
  BY LoadedType, SyncedType, BookAssumption DEF BookInv, Sync
<1>2. PICK r \in Request \cup {NoRequest} : req' = [req EXCEPT ![c] = r]
  BY BookAssumption DEF Sync
<1>3. ClientTypes'
  BY <1>2 DEF BookInv, TypeOK, ClientTypes, Sync, Goto, Saving
<1>4. ASSUME NEW d \in Client
      PROVE  /\ pc'[d] = IF d = c THEN "saveSync" ELSE pc[d]
             /\ d # c => req'[d] = req[d]
             /\ from'[d] = from[d] /\ rec'[d] = rec[d] /\ next' = next
  BY <1>2 DEF BookInv, TypeOK, Sync, Goto
<1>5. ClientInv'
  BY <1>4 DEF BookInv, ClientInv
<1>6. TypeOK'
  BY <1>1, <1>3 DEF BookInv, TypeOK, ClientTypes, Sync
<1>7. QED
  BY <1>5, <1>6 DEF BookInv

LEMMA ImportInv ==
    ASSUME BookInv, NEW c \in Client, Import(c)
    PROVE  BookInv'
<1>1. book' \in Book
  BY LoadedType, ImportedType, BookAssumption DEF BookInv, Import
<1>2. PICK label \in {"saveImport", "resync"} : Goto(c, label)
  BY DEF Import
<1>3. ClientTypes' /\ ClientInv'
  BY <1>2, GotoInv DEF Import
<1>4. TypeOK'
  BY <1>1, <1>3 DEF BookInv, TypeOK, ClientTypes, Import
<1>5. QED
  BY <1>3, <1>4 DEF BookInv

\* Where a save leads that is not the last step of a request.
LEMMA AfterSaveCases ==
    ASSUME NEW c, pc[c] \in Saving, AfterSave(c) # "idle"
    PROVE  \/ pc[c] = "saveImport" /\ AfterSave(c) = "resync"
           \/ pc[c] = "saveSync" /\ req[c] # NoRequest /\ AfterSave(c) = "read"
           \/ pc[c] = "saveXfer" /\ AfterSave(c) = "settle"
<1>1. CASE pc[c] = "saveSync"
  <2>1. AfterSave(c) = IF req[c] = NoRequest THEN "idle" ELSE "read"
    BY <1>1, Zenon DEF AfterSave
  <2>2. QED
    BY <1>1, <2>1
<1>2. CASE pc[c] = "saveImport"
  BY <1>2, Zenon DEF AfterSave
<1>3. CASE pc[c] = "saveXfer"
  <2>1. AfterSave(c) = IF req[c].external THEN "settle" ELSE "idle"
    BY <1>3, Zenon DEF AfterSave
  <2>2. QED
    BY <1>3, <2>1
<1>4. CASE pc[c] = "saveMark"
  BY <1>4, Zenon DEF AfterSave
<1>5. QED
  BY <1>1, <1>2, <1>3, <1>4 DEF Saving

LEMMA SaveInv ==
    ASSUME BookInv, NEW c \in Client, Save(c)
    PROVE  BookInv'
<1>1. ClientTypes' /\ ClientInv'
  <2>1. CASE AfterSave(c) = "idle"
    BY <2>1, DoneInv DEF Save
  <2>2. CASE AfterSave(c) # "idle"
    <3>1. Goto(c, AfterSave(c)) /\ UNCHANGED <<req, from, rec, next>>
      BY <2>2 DEF Save
    <3>2. pc[c] \in Saving /\ req[c] \in Request \cup {NoRequest}
      BY DEF Save, BookInv, TypeOK
    <3>3. \/ AfterSave(c) = "resync"
          \/ AfterSave(c) = "read" /\ req[c] \in Request
          \/ AfterSave(c) = "settle" /\ pc[c] = "saveXfer"
      BY <2>2, <3>2, AfterSaveCases
    <3>4. QED
      BY <3>1, <3>3, GotoInv
  <2>3. QED
    BY <2>1, <2>2
<1>2. TypeOK'
  BY <1>1 DEF BookInv, TypeOK, ClientTypes, Save
<1>3. QED
  BY <1>1, <1>2 DEF BookInv

\* The steps that end a request: an error, or the failure of a save.
LEMMA EndInv ==
    ASSUME BookInv, NEW c \in Client,
           ResyncFails(c) \/ SaveFails(c) \/ Refuse(c) \/ SettleFails(c)
    PROVE  BookInv'
<1>1. Done(c) /\ next' = next
  BY DEF ResyncFails, SaveFails, Refuse, SettleFails
<1>2. ClientTypes' /\ ClientInv'
  BY <1>1, DoneInv
<1>3. book' \in Book
  BY LoadedType DEF BookInv, TypeOK, ResyncFails, SaveFails, Refuse, SettleFails
<1>4. file' \in Book \cup {NoFile, Broken} /\ unsaved' \in BOOLEAN
  BY DEF BookInv, TypeOK, ResyncFails, SaveFails, Refuse, SettleFails
<1>5. paid' \subseteq 1..next
  BY DEF BookInv, TypeOK, ClientInv, ResyncFails, SaveFails, Refuse, SettleFails
<1>6. TypeOK'
  BY <1>1, <1>2, <1>3, <1>4, <1>5 DEF BookInv, TypeOK, ClientTypes
<1>7. QED
  BY <1>2, <1>6 DEF BookInv

LEMMA ReadAccountInv ==
    ASSUME BookInv, NEW c \in Client, ReadAccount(c)
    PROVE  BookInv'
<1>1. Loaded \in Book /\ book' = Loaded
  BY LoadedType DEF BookInv, ReadAccount
<1> DEFINE acct == Loaded.accounts[req[c].from]
<1>2. req[c] \in Request
  BY BookAssumption DEF BookInv, ClientInv, ReadAccount
<1>3. acct \in BookAccount /\ acct.bal >= req[c].amount /\ from' = [from EXCEPT ![c] = acct]
  <2>1. acct \in BookAccount \cup {NoAccount}
    BY <1>1, <1>2, BookFields DEF Accounts, Request
  <2>2. QED
    BY <2>1 DEF ReadAccount, Funds
<1> HIDE DEF acct
<1>4. ClientTypes'
  BY <1>3 DEF BookInv, TypeOK, ClientTypes, ReadAccount, Goto, Saving
<1>5. ASSUME NEW d \in Client
      PROVE  /\ pc'[d] = IF d = c THEN "apply" ELSE pc[d]
             /\ from'[d] = IF d = c THEN acct ELSE from[d]
             /\ req'[d] = req[d] /\ rec'[d] = rec[d] /\ next' = next /\ pc[c] = "read"
  BY <1>3 DEF BookInv, TypeOK, ReadAccount, Goto
<1>6. ClientInv'
  BY <1>3, <1>5 DEF BookInv, ClientInv
<1>7. TypeOK'
  BY <1>1, <1>4 DEF BookInv, TypeOK, ClientTypes, ReadAccount
<1>8. QED
  BY <1>6, <1>7 DEF BookInv

LEMMA ApplyInv ==
    ASSUME BookInv, NEW c \in Client, Apply(c)
    PROVE  BookInv'
<1>1. /\ req[c] \in Request /\ from[c] \in BookAccount /\ from[c].bal >= req[c].amount
      /\ book \in Book /\ next \in Nat
  BY BookAssumption DEF BookInv, TypeOK, ClientInv, Apply
<1>2. NewRecord(req[c]) \in Record /\ NewRecord(req[c]).id = next + 1
  BY <1>1, NewRecordType
<1>3. book' \in Book
  <2>1. Moved(book.accounts, req[c], from[c]) \in Accounts
    BY <1>1, BookFields, MovedType
  <2>2. Logged(book.transfers, NewRecord(req[c])) \in Seq(Record)
    BY <1>1, <1>2, BookFields, LoggedType
  <2>3. QED
    BY <2>1, <2>2 DEF Apply, Book
<1>4. ClientTypes'
  BY <1>2 DEF BookInv, TypeOK, ClientTypes, Apply, Goto, Saving
<1>5. ASSUME NEW d \in Client
      PROVE  /\ pc'[d] = IF d = c THEN "saveXfer" ELSE pc[d]
             /\ rec'[d] = IF d = c THEN NewRecord(req[c]) ELSE rec[d]
             /\ req'[d] = req[d] /\ from'[d] = from[d] /\ next' = next + 1 /\ pc[c] = "apply"
  BY DEF BookInv, TypeOK, Apply, Goto
<1>6. ClientInv'
  <2>1. 1..next \subseteq 1..(next + 1) /\ next + 1 \in 1..(next + 1)
    BY <1>1
  <2>2. next' = next + 1
    BY DEF Apply
  <2>3. QED
    BY <1>2, <1>5, <2>1, <2>2 DEF BookInv, ClientInv
<1>7. next' \in Nat /\ paid' \subseteq 1..next'
  BY <1>1 DEF BookInv, TypeOK, Apply
<1>8. TypeOK'
  BY <1>3, <1>4, <1>7 DEF BookInv, TypeOK, ClientTypes, Apply
<1>9. QED
  BY <1>6, <1>8 DEF BookInv

LEMMA SettleInv ==
    ASSUME BookInv, NEW c \in Client, Settle(c)
    PROVE  /\ BookInv'
           /\ \E status \in {"pending", "submitted", "on_chain"} :
                 /\ rec' = [rec EXCEPT ![c].status = status]
                 /\ status = "on_chain" => rec[c].id \in paid'
<1>1. PICK status \in {"pending", "submitted", "on_chain"} :
         /\ rec' = [rec EXCEPT ![c].status = status]
         /\ status = "on_chain" => rec[c].id \in paid'
  BY DEF Settle
<1>2. rec[c] \in Record /\ rec[c].id \in 1..next
  BY DEF BookInv, ClientInv, Settle
<1>3. [rec[c] EXCEPT !.status = status] \in Record /\ [rec[c] EXCEPT !.status = status].id = rec[c].id
  BY <1>2 DEF Record
<1>4. rec' = [rec EXCEPT ![c] = [rec[c] EXCEPT !.status = status]]
  BY <1>1 DEF BookInv, TypeOK
<1>5. ClientTypes'
  BY <1>3, <1>4 DEF BookInv, TypeOK, ClientTypes, Settle, Goto, Saving
<1>6. ASSUME NEW d \in Client
      PROVE  /\ pc'[d] = IF d = c THEN "mark" ELSE pc[d]
             /\ rec'[d] = IF d = c THEN [rec[c] EXCEPT !.status = status] ELSE rec[d]
             /\ req'[d] = req[d] /\ from'[d] = from[d] /\ next' = next /\ pc[c] = "settle"
  BY <1>4 DEF BookInv, TypeOK, Settle, Goto
<1>7. ClientInv'
  BY <1>2, <1>3, <1>6 DEF BookInv, ClientInv
<1>8. paid' \subseteq 1..next
  BY <1>2 DEF BookInv, TypeOK, Settle
<1>9. TypeOK'
  BY <1>5, <1>8 DEF BookInv, TypeOK, ClientTypes, Settle
<1>10. QED
  BY <1>1, <1>7, <1>9 DEF BookInv

LEMMA MarkInv ==
    ASSUME BookInv, NEW c \in Client, Mark(c)
    PROVE  BookInv'
<1>1. book' \in Book
  BY MarkedType DEF BookInv, TypeOK, ClientInv, Mark
<1>2. ClientTypes' /\ ClientInv'
  BY GotoInv DEF Mark
<1>3. TypeOK'
  BY <1>1, <1>2 DEF BookInv, TypeOK, ClientTypes, Mark
<1>4. QED
  BY <1>2, <1>3 DEF BookInv

LEMMA StopInv ==
    ASSUME BookInv, Stop
    PROVE  BookInv'
<1>1. ClientTypes' /\ ClientInv'
  BY DEF Stop, ClientTypes, ClientInv
<1>2. TypeOK'
  BY <1>1, EmptyBookType DEF BookInv, TypeOK, ClientTypes, Stop
<1>3. QED
  BY <1>1, <1>2 DEF BookInv

LEMMA StepInv == BookInv /\ [Next]_vars => BookInv'
<1> SUFFICES ASSUME BookInv, [Next]_vars PROVE BookInv'
  OBVIOUS
<1>1. ASSUME NEW c \in Client, Sync(c) \/ Import(c) \/ Save(c)
      PROVE  BookInv'
  BY <1>1, SyncInv, ImportInv, SaveInv
<1>2. ASSUME NEW c \in Client, ResyncFails(c) \/ SaveFails(c) \/ Refuse(c) \/ SettleFails(c)
      PROVE  BookInv'
  BY <1>2, EndInv
<1>3. ASSUME NEW c \in Client, ReadAccount(c) \/ Apply(c) \/ Settle(c) \/ Mark(c)
      PROVE  BookInv'
  BY <1>3, ReadAccountInv, ApplyInv, SettleInv, MarkInv
<1>4. CASE Stop
  BY <1>4, StopInv
<1>5. CASE UNCHANGED vars
  BY <1>5 DEF vars, BookInv, TypeOK, ClientInv
<1>6. QED
  BY <1>1, <1>2, <1>3, <1>4, <1>5 DEF Next

LEMMA InitInv == Init => BookInv
<1> SUFFICES ASSUME Init PROVE BookInv
  OBVIOUS
<1>1. TypeOK
  BY EmptyBookType DEF Init, TypeOK, Saving
<1>2. ClientInv
  BY DEF Init, ClientInv
<1>3. QED
  BY <1>1, <1>2 DEF BookInv

LEMMA Invariance == Spec => []BookInv
BY InitInv, StepInv, PTL DEF Spec

\* Every variable keeps its type, balances are natural numbers however the
\* steps of the requests interleave: Transfer never overdraws an account.
THEOREM BookTypes == Spec => []TypeOK
<1>1. BookInv => TypeOK
  BY DEF BookInv
<1>2. QED
  BY <1>1, Invariance, PTL

-----------------------------------------------------------------------------
(* The file and the memory. *)

LEMMA SavedStep ==
    ASSUME BookInv, SavedWhenQuiet, [Next]_vars
    PROVE  SavedWhenQuiet'
<1> DEFINE Quiet == \A c \in Client : pc[c] \notin Saving
<1>1. SUFFICES ASSUME HasAccounts(book'), ~unsaved', Quiet'
               PROVE  file' = book'
  BY DEF SavedWhenQuiet, HasAccounts
<1>2. pc \in [Client -> Saving \cup {"idle", "resync", "read", "apply", "settle", "mark"}]
  BY DEF BookInv, TypeOK
<1>3. ASSUME NEW c \in Client, NEW label, Goto(c, label), label \in Saving
      PROVE  FALSE
  BY <1>1, <1>2, <1>3 DEF Goto
<1>4. ASSUME NEW c \in Client, Sync(c) \/ Apply(c) \/ Mark(c)
      PROVE  FALSE
  BY <1>3, <1>4 DEF Sync, Apply, Mark, Saving
\* A step that leaves the savers alone and may only load.
<1>5. ASSUME NEW c \in Client, pc[c] \notin Saving, \A d \in Client : d # c => pc'[d] = pc[d],
             file' = file, unsaved' = unsaved, book' = book \/ (CanLoad /\ book' = Loaded)
      PROVE  file' = book'
  <2>1. Quiet /\ ~unsaved
    BY <1>1, <1>5
  <2>2. CASE HasAccounts(book)
    BY <1>5, <2>1, <2>2, LoadedType DEF SavedWhenQuiet, BookInv
  <2>3. CASE ~HasAccounts(book)
    BY <1>1, <1>5, <2>3, LoadedType DEF BookInv
  <2>4. QED
    BY <2>2, <2>3
<1>6. ASSUME NEW c \in Client, Import(c)
      PROVE  file' = book'
  <2>1. PICK entries \in Imports : /\ book' = Imported(Loaded, entries)
                                   /\ Goto(c, IF \E a \in Account : Usable(entries[a])
                                              THEN "saveImport" ELSE "resync")
    BY <1>6 DEF Import
  <2>2. \A a \in Account : ~Usable(entries[a])
    BY <1>3, <2>1 DEF Saving
  <2>3. book' = Loaded
    BY <1>6, <2>1, <2>2, LoadedType, ImportedType, BookAssumption DEF BookInv, Import
  <2>4. pc[c] \notin Saving /\ \A d \in Client : d # c => pc'[d] = pc[d]
    BY <1>2, <1>6, <2>1 DEF Import, Goto, Saving
  <2>5. QED
    BY <1>5, <1>6, <2>3, <2>4 DEF Import
<1>7. ASSUME NEW c \in Client, ReadAccount(c) \/ Refuse(c) \/ ResyncFails(c)
                                 \/ Settle(c) \/ SettleFails(c)
      PROVE  file' = book'
  <2>1. pc[c] \notin Saving /\ \A d \in Client : d # c => pc'[d] = pc[d]
    BY <1>2, <1>7 DEF ReadAccount, Refuse, ResyncFails, Settle, SettleFails, Goto, Done, Saving
  <2>2. /\ file' = file /\ unsaved' = unsaved
        /\ book' = book \/ (CanLoad /\ book' = Loaded)
    BY <1>7 DEF ReadAccount, Refuse, ResyncFails, Settle, SettleFails
  <2>3. QED
    BY <1>5, <2>1, <2>2
<1>8. ASSUME NEW c \in Client, Save(c) \/ SaveFails(c)
      PROVE  file' = book'
  BY <1>1, <1>8 DEF Save, SaveFails
<1>9. CASE Stop
  BY <1>1, <1>9, EmptyBookType DEF Stop
<1>10. CASE UNCHANGED vars
  BY <1>1, <1>10 DEF vars, SavedWhenQuiet, HasAccounts
<1>11. QED
  BY <1>4, <1>6, <1>7, <1>8, <1>9, <1>10 DEF Next

\* When no request has a save to do and the last save did not fail, the file
\* is what is in memory, however many requests ran at the same time.
THEOREM FileCatchesUp == Spec => []SavedWhenQuiet
<1>1. Init => SavedWhenQuiet
  BY EmptyBookType DEF Init, SavedWhenQuiet
<1>2. BookInv /\ SavedWhenQuiet /\ [Next]_vars => SavedWhenQuiet'
  BY SavedStep
<1>3. QED
  BY <1>1, <1>2, Invariance, PTL DEF Spec

-----------------------------------------------------------------------------
(* No payment is made up. *)

OnChain(r) == r.status = "on_chain" => r.id \in paid
AllOnChain(b) == \A i \in 1..Len(b.transfers) : OnChain(b.transfers[i])

HonestInv ==
    /\ AllOnChain(book)
    /\ file \notin {NoFile, Broken} => AllOnChain(file)
    /\ \A c \in Client : pc[c] \in {"saveXfer", "settle", "mark"} => OnChain(rec[c])

LEMMA HonestStep ==
    ASSUME BookInv, HonestInv, [Next]_vars
    PROVE  HonestInv'
<1> DEFINE Holds(c) == pc[c] \in {"saveXfer", "settle", "mark"}
\* A step that adds payments at most, keeps the records and loads at most.
<1>1. ASSUME paid \subseteq paid',
             book'.transfers = book.transfers \/ (CanLoad /\ book'.transfers = Loaded.transfers),
             file' \in {file, Broken, book},
             \A c \in Client : Holds(c)' => Holds(c) /\ rec'[c] = rec[c]
      PROVE  HonestInv'
  <2>1. AllOnChain(Loaded) \/ ~CanLoad
    <3>1. CASE HasAccounts(book)
      BY <3>1 DEF Loaded, HonestInv
    <3>2. CASE ~HasAccounts(book) /\ file = NoFile
      BY <3>2 DEF Loaded, AllOnChain, EmptyBook
    <3>3. CASE ~HasAccounts(book) /\ file # NoFile
      BY <3>3 DEF Loaded, CanLoad, HonestInv
    <3>4. QED
      BY <3>1, <3>2, <3>3
  <2>2. AllOnChain(book)'
    BY <1>1, <2>1 DEF HonestInv, AllOnChain, OnChain
  <2>3. (file \notin {NoFile, Broken} => AllOnChain(file))'
    BY <1>1 DEF HonestInv, AllOnChain, OnChain
  <2>4. \A c \in Client : Holds(c)' => OnChain(rec[c])'
    BY <1>1 DEF HonestInv, OnChain
  <2>5. QED
    BY <2>2, <2>3, <2>4 DEF HonestInv
<1>2. pc \in [Client -> Saving \cup {"idle", "resync", "read", "apply", "settle", "mark"}]
  BY DEF BookInv, TypeOK
<1>3. ASSUME NEW c \in Client, Done(c)
      PROVE  \A d \in Client : Holds(d)' => Holds(d) /\ rec'[d] = rec[d]
  BY <1>2, <1>3 DEF BookInv, TypeOK, Done, Goto
<1>4. ASSUME NEW c \in Client, NEW label, Goto(c, label), rec' = rec,
             label \in {"saveXfer", "settle", "mark"} => Holds(c)
      PROVE  \A d \in Client : Holds(d)' => Holds(d) /\ rec'[d] = rec[d]
  BY <1>2, <1>4 DEF Goto
<1>5. ASSUME NEW c \in Client, Sync(c) \/ Import(c)
      PROVE  HonestInv'
  <2>1. book'.transfers = Loaded.transfers /\ CanLoad
    BY <1>5, LoadedType, SyncedType, ImportedType, BookAssumption DEF BookInv, Sync, Import
  <2>2. \A d \in Client : Holds(d)' => Holds(d) /\ rec'[d] = rec[d]
    <3>1. PICK label \in {"saveSync", "saveImport", "resync"} : Goto(c, label)
      BY <1>5 DEF Sync, Import
    <3>2. rec' = rec
      BY <1>5 DEF Sync, Import
    <3>3. QED
      BY <1>4, <3>1, <3>2
  <2>3. file' = file /\ paid' = paid
    BY <1>5 DEF Sync, Import
  <2>4. QED
    BY <1>1, <2>1, <2>2, <2>3
<1>6. ASSUME NEW c \in Client, ResyncFails(c) \/ SaveFails(c) \/ Refuse(c) \/ SettleFails(c)
      PROVE  HonestInv'
  <2>1. Done(c)
    BY <1>6 DEF ResyncFails, SaveFails, Refuse, SettleFails
  <2>2. book' = book \/ (CanLoad /\ book' = Loaded)
    BY <1>6 DEF ResyncFails, SaveFails, Refuse, SettleFails
  <2>3. file' \in {file, Broken, book} /\ paid \subseteq paid'
    BY <1>6 DEF ResyncFails, SaveFails, Refuse, SettleFails
  <2>4. QED
    BY <1>1, <1>3, <2>1, <2>2, <2>3
<1>7. ASSUME NEW c \in Client, Save(c)
      PROVE  HonestInv'
  <2>1. \A d \in Client : Holds(d)' => Holds(d) /\ rec'[d] = rec[d]
    <3>1. CASE Done(c)
      BY <1>3, <3>1
    <3>2. CASE ~Done(c)
      <4>1. Goto(c, AfterSave(c)) /\ rec' = rec /\ pc[c] \in Saving
        BY <1>7, <3>2 DEF Save
      <4>2. AfterSave(c) \in {"saveXfer", "settle", "mark"} => pc[c] = "saveXfer"
        BY <4>1, AfterSaveCases
      <4>3. QED
        BY <1>4, <4>1, <4>2
    <3>3. QED
      BY <3>1, <3>2
  <2>2. QED
    BY <1>1, <1>7, <2>1 DEF Save
<1>8. ASSUME NEW c \in Client, ReadAccount(c)
      PROVE  HonestInv'
  <2>1. \A d \in Client : Holds(d)' => Holds(d) /\ rec'[d] = rec[d]
    <3>1. Goto(c, "apply") /\ rec' = rec
      BY <1>8 DEF ReadAccount
    <3>2. QED
      BY <1>4, <3>1
  <2>2. QED
    BY <1>1, <1>8, <2>1 DEF ReadAccount
<1>9. ASSUME NEW c \in Client, Apply(c)
      PROVE  HonestInv'
  <2> DEFINE new == NewRecord(req[c])
  <2>1. new \in Record /\ new.status # "on_chain"
    BY NewRecordType DEF BookInv, TypeOK
  <2>2. book.transfers \in Seq(Record) /\ book'.transfers = Logged(book.transfers, new)
    BY <1>9, BookFields DEF BookInv, TypeOK, Apply
  <2> HIDE DEF new
  <2>3. /\ Len(book'.transfers) <= Len(book.transfers) + 1 /\ Len(book'.transfers) \in Nat
        /\ \A i \in 1..Len(book'.transfers) :
              book'.transfers[i] = IF i = 1 THEN new ELSE book.transfers[i - 1]
    <3> DEFINE old == book.transfers  log == Logged(old, new)
    <3>1. old \in Seq(Record) /\ book'.transfers = log
      BY <2>2
    <3> HIDE DEF old
    <3>2. /\ log \in Seq(Record)
          /\ Len(log) = IF Len(old) + 1 > MaxLog THEN MaxLog ELSE Len(old) + 1
          /\ \A i \in 1..Len(log) : log[i] = IF i = 1 THEN new ELSE old[i - 1]
      BY <2>1, <3>1, LoggedType
    <3> HIDE DEF log
    <3>3. Len(log) <= Len(old) + 1 /\ Len(log) \in Nat
      BY <3>1, <3>2, BookAssumption
    <3>4. QED
      BY <3>1, <3>2, <3>3 DEF old
  <2>4. AllOnChain(book)'
    <3>1. SUFFICES ASSUME NEW i \in 1..Len(book'.transfers)
                   PROVE  OnChain(book.transfers[i])'
      BY DEF AllOnChain
    <3>2. CASE i = 1
      BY <2>1, <2>3, <3>2 DEF OnChain
    <3>3. CASE i # 1
      <4>1. i - 1 \in 1..Len(book.transfers) /\ book'.transfers[i] = book.transfers[i - 1]
        BY <2>2, <2>3, <3>3
      <4>2. paid' = paid
        BY <1>9 DEF Apply
      <4>3. QED
        BY <4>1, <4>2 DEF HonestInv, AllOnChain, OnChain
    <3>4. QED
      BY <3>2, <3>3
  <2>5. ASSUME NEW d \in Client, Holds(d)'
        PROVE  OnChain(rec[d])'
    <3>1. rec'[d] = IF d = c THEN new ELSE rec[d]
      BY <1>9 DEF BookInv, TypeOK, Apply, new
    <3>2. d # c => pc'[d] = pc[d]
      BY <1>9 DEF BookInv, TypeOK, Apply, Goto
    <3>3. QED
      BY <1>9, <2>1, <2>5, <3>1, <3>2 DEF HonestInv, OnChain, Apply
  <2>6. (file \notin {NoFile, Broken} => AllOnChain(file))'
    BY <1>9 DEF Apply, HonestInv, AllOnChain, OnChain
  <2>7. QED
    BY <2>4, <2>5, <2>6 DEF HonestInv
<1>10. ASSUME NEW c \in Client, Settle(c)
       PROVE  HonestInv'
  <2>1. PICK status \in {"pending", "submitted", "on_chain"} :
           /\ rec' = [rec EXCEPT ![c].status = status]
           /\ status = "on_chain" => rec[c].id \in paid'
    BY <1>10, SettleInv
  <2>2. rec[c] \in Record /\ rec' = [rec EXCEPT ![c] = [rec[c] EXCEPT !.status = status]]
    BY <1>10, <2>1 DEF BookInv, TypeOK, ClientInv, Settle
  <2>3. [rec[c] EXCEPT !.status = status].id = rec[c].id
           /\ [rec[c] EXCEPT !.status = status].status = status
    BY <2>2 DEF Record
  <2>4. paid \subseteq paid' /\ book' = book /\ file' = file
    BY <1>10 DEF Settle
  <2>5. ASSUME NEW d \in Client, Holds(d)'
        PROVE  OnChain(rec[d])'
    <3>1. rec'[d] = IF d = c THEN [rec[c] EXCEPT !.status = status] ELSE rec[d]
      BY <2>2 DEF BookInv, TypeOK
    <3>2. d # c => pc'[d] = pc[d]
      BY <1>10 DEF BookInv, TypeOK, Settle, Goto
    <3>3. QED
      BY <2>1, <2>3, <2>4, <2>5, <3>1, <3>2 DEF HonestInv, OnChain
  <2>6. QED
    BY <2>4, <2>5 DEF HonestInv, AllOnChain, OnChain
<1>11. ASSUME NEW c \in Client, Mark(c)
       PROVE  HonestInv'
  <2>1. \A d \in Client : Holds(d)' => Holds(d) /\ rec'[d] = rec[d]
    <3>1. Goto(c, "saveMark") /\ rec' = rec /\ pc[c] = "mark"
      BY <1>11 DEF Mark
    <3>2. QED
      BY <1>4, <3>1
  <2>2. CASE book.transfers = <<>>
    BY <1>1, <1>11, <2>1, <2>2 DEF Mark
  <2>3. CASE book.transfers # <<>>
    <3>1. book \in Book /\ rec[c] \in Record /\ OnChain(rec[c]) /\ paid' = paid /\ file' = file
      BY <1>11 DEF BookInv, TypeOK, ClientInv, HonestInv, Mark
    <3>2. /\ Len(book'.transfers) = Len(book.transfers)
          /\ \A i \in 1..Len(book.transfers) :
                book'.transfers[i] = IF i = 1 THEN rec[c] ELSE book.transfers[i]
      BY <1>11, <2>3, <3>1, MarkedType DEF Mark
    <3>3. AllOnChain(book)'
      BY <3>1, <3>2 DEF HonestInv, AllOnChain, OnChain
    <3>4. QED
      BY <2>1, <3>1, <3>3 DEF HonestInv, AllOnChain, OnChain
  <2>4. QED
    BY <2>2, <2>3
<1>12. CASE Stop
  <2>1. book'.transfers = <<>> /\ paid' = paid /\ file' \in {file, Broken}
    BY <1>12 DEF Stop, EmptyBook
  <2>2. \A c \in Client : ~Holds(c)'
    BY <1>12 DEF Stop
  <2>3. QED
    BY <2>1, <2>2 DEF HonestInv, AllOnChain, OnChain
<1>13. CASE UNCHANGED vars
  BY <1>13 DEF vars, HonestInv, AllOnChain, OnChain
<1>14. QED
  BY <1>5, <1>6, <1>7, <1>8, <1>9, <1>10, <1>11, <1>12, <1>13 DEF Next

\* No record in memory or in the file claims a payment on a chain that was
\* not made, whichever record Mark has written over.
THEOREM NoPaymentMadeUp == Spec => []OnChainIsPaid
<1>1. Init => HonestInv
  BY DEF Init, EmptyBook, HonestInv, AllOnChain
<1>2. BookInv /\ HonestInv /\ [Next]_vars => HonestInv'
  BY HonestStep
<1>3. HonestInv => OnChainIsPaid
  BY DEF HonestInv, AllOnChain, OnChain, OnChainIsPaid
<1>4. QED
  BY <1>1, <1>2, <1>3, Invariance, PTL DEF Spec

-----------------------------------------------------------------------------
(* Payments are on record, for one request at a time.  The record of a     *)
(* transfer is the first one of the book until the next transfer, and each *)
(* transfer moves it by one place at most.                                 *)

OneAtATime == \A c, d \in Client : c = d

\* The payments of P among the newest of n transfers are in the list s.
Recorded(s, P, n) ==
    \A id \in P : id + MaxLog > n =>
        \E i \in 1..Len(s) : s[i].id = id /\ i + id <= n + 1

InFront(s, id) == s # <<>> /\ s[1].id = id

LEMMA FrontRecorded ==
    ASSUME NEW s \in Seq(Record), NEW n \in Nat, NEW P, NEW Q, InFront(s, n),
           Recorded(s, P, n), Q \subseteq P \cup {n}
    PROVE  Recorded(s, Q, n)
<1>1. 1 \in 1..Len(s) /\ s[1].id = n /\ 1 + n <= n + 1
  BY DEF InFront
<1>2. QED
  BY <1>1 DEF Recorded

LEMMA LaterRecorded ==
    ASSUME NEW s \in Seq(Record), NEW n \in Nat, NEW P, P \subseteq 1..n, Recorded(s, P, n)
    PROVE  Recorded(s, P, n + 1)
<1>1. SUFFICES ASSUME NEW id \in P, id + MaxLog > n + 1
               PROVE  \E i \in 1..Len(s) : s[i].id = id /\ i + id <= (n + 1) + 1
  BY DEF Recorded
<1>2. id \in Nat /\ MaxLog \in Nat /\ id + MaxLog > n
  BY <1>1, BookAssumption
<1>3. PICK i \in 1..Len(s) : s[i].id = id /\ i + id <= n + 1
  BY <1>2 DEF Recorded
<1>4. i + id <= (n + 1) + 1
  BY <1>2, <1>3
<1>5. QED
  BY <1>3, <1>4

LEMMA LoggedRecorded ==
    ASSUME NEW s \in Seq(Record), NEW n \in Nat, NEW P, P \subseteq 1..n, Recorded(s, P, n),
           NEW r \in Record, r.id = n + 1
    PROVE  Recorded(Logged(s, r), P, n + 1) /\ InFront(Logged(s, r), n + 1)
<1> DEFINE log == Logged(s, r)
<1>1. /\ log \in Seq(Record)
      /\ Len(log) = IF Len(s) + 1 > MaxLog THEN MaxLog ELSE Len(s) + 1
      /\ \A i \in 1..Len(log) : log[i] = IF i = 1 THEN r ELSE s[i - 1]
  BY LoggedType
<1>2. MaxLog \in Nat \ {0}
  BY BookAssumption
<1> HIDE DEF log
<1>3. InFront(log, n + 1)
  <2>1. 1 \in 1..Len(log)
    BY <1>1, <1>2
  <2>2. log # <<>> /\ log[1] = r
    BY <1>1, <2>1
  <2>3. QED
    BY <2>2 DEF InFront
<1>4. ASSUME NEW id \in P, id + MaxLog > n + 1
      PROVE  \E i \in 1..Len(log) : log[i].id = id /\ i + id <= (n + 1) + 1
  <2>1. id \in Nat /\ id + MaxLog > n
    BY <1>2, <1>4
  <2>2. PICK i \in 1..Len(s) : s[i].id = id /\ i + id <= n + 1
    BY <2>1 DEF Recorded
  <2>3. i + 1 <= MaxLog /\ i + 1 <= Len(s) + 1 /\ i \in Nat /\ i >= 1
    BY <1>2, <1>4, <2>1, <2>2
  <2>4. i + 1 \in 1..Len(log)
    BY <1>1, <1>2, <2>3
  <2>5. log[i + 1] = s[i]
    BY <1>1, <2>3, <2>4
  <2>6. (i + 1) + id <= (n + 1) + 1
    BY <2>1, <2>2
  <2>7. QED
    BY <2>2, <2>4, <2>5, <2>6
<1>5. Recorded(log, P, n + 1)
  BY <1>4 DEF Recorded
<1>6. QED
  BY <1>3, <1>5 DEF log

LEMMA MarkedRecorded ==
    ASSUME NEW b \in Book, NEW n \in Nat, NEW P, InFront(b.transfers, n),
           Recorded(b.transfers, P, n), NEW r \in Record, r.id = n
    PROVE  /\ Recorded([b EXCEPT !.transfers[1] = r].transfers, P, n)
           /\ InFront([b EXCEPT !.transfers[1] = r].transfers, n)
<1> DEFINE s == b.transfers  t == [b EXCEPT !.transfers[1] = r].transfers
<1>1. s \in Seq(Record) /\ s # <<>> /\ s[1].id = n
  BY BookFields DEF InFront
<1>2. /\ [b EXCEPT !.transfers[1] = r] \in Book
      /\ Len(t) = Len(s)
      /\ \A i \in 1..Len(s) : t[i] = IF i = 1 THEN r ELSE s[i]
  BY <1>1, MarkedType
<1>3. t \in Seq(Record)
  BY <1>2, BookFields
<1>4. Recorded(s, P, n)
  OBVIOUS
<1> HIDE DEF s, t
<1>5. \A i \in 1..Len(s) : t[i].id = s[i].id
  BY <1>1, <1>2
<1>6. Recorded(t, P, n)
  BY <1>2, <1>4, <1>5 DEF Recorded
<1>7. 1 \in 1..Len(s)
  BY <1>1
<1>8. t # <<>> /\ t[1].id = n
  BY <1>1, <1>2, <1>3, <1>5, <1>7
<1>9. QED
  BY <1>6, <1>8 DEF InFront, t

RecordInv ==
    /\ file = NoFile => paid = {}
    /\ file \notin {NoFile, Broken} => Recorded(file.transfers, paid, next)
    /\ HasAccounts(book) => Recorded(book.transfers, paid, next)
    /\ \A c \in Client :
          /\ pc[c] # "idle" => Recorded(book.transfers, paid, next)
          /\ pc[c] \in {"saveXfer", "settle", "mark"} =>
                rec[c].id = next /\ InFront(book.transfers, next)
          /\ pc[c] \in {"settle", "mark"} =>
                file \notin {NoFile, Broken} /\ InFront(file.transfers, next)

LEMMA LoadedRecorded ==
    ASSUME BookInv, RecordInv, CanLoad
    PROVE  Recorded(Loaded.transfers, paid, next)
<1>1. CASE HasAccounts(book)
  BY <1>1 DEF Loaded, RecordInv
<1>2. CASE ~HasAccounts(book) /\ file = NoFile
  BY <1>2 DEF Loaded, RecordInv, Recorded
<1>3. CASE ~HasAccounts(book) /\ file # NoFile
  BY <1>3 DEF Loaded, CanLoad, RecordInv
<1>4. QED
  BY <1>1, <1>2, <1>3

LEMMA RecordStep ==
    ASSUME OneAtATime, BookInv, RecordInv, [Next]_vars
    PROVE  RecordInv'
<1> DEFINE Recs(s) == Recorded(s, paid, next)
           InHand(c) == pc[c] \in {"saveXfer", "settle", "mark"}
           Saved(c) == pc[c] \in {"settle", "mark"}
<1>1. /\ pc \in [Client -> Saving \cup {"idle", "resync", "read", "apply", "settle", "mark"}]
      /\ book \in Book /\ next \in Nat /\ paid \subseteq 1..next
      /\ file \in Book \cup {NoFile, Broken} /\ NoFile # Broken
      /\ NoFile \notin Book /\ Broken \notin Book
  BY BookAssumption DEF BookInv, TypeOK
\* Steps after which the client holds no record: they load, import, sync or end.
<1>2. ASSUME NEW c \in Client, paid' = paid, next' = next, pc' = [pc EXCEPT ![c] = pc'[c]],
             pc'[c] \notin {"saveXfer", "settle", "mark"},
             \/ CanLoad /\ book'.transfers = Loaded.transfers
             \/ book' = book /\ (pc'[c] # "idle" => pc[c] # "idle"),
             \/ file' \in {file, Broken}
             \/ file' = book /\ pc[c] # "idle"
      PROVE  RecordInv'
  <2>1. \A d \in Client : d = c
    BY <1>2 DEF OneAtATime
  <2>2. CanLoad => Recs(Loaded.transfers)
    BY LoadedRecorded
  <2>3. (file = NoFile => paid = {})'
    BY <1>1, <1>2 DEF RecordInv
  <2>4. (file \notin {NoFile, Broken} => Recs(file.transfers))'
    BY <1>2 DEF RecordInv
  <2>5. (HasAccounts(book) => Recs(book.transfers))'
    BY <1>2, <2>2 DEF RecordInv, HasAccounts
  <2>6. (pc[c] # "idle" => Recs(book.transfers))'
    BY <1>2, <2>2 DEF RecordInv
  <2>7. QED
    BY <1>2, <2>1, <2>3, <2>4, <2>5, <2>6 DEF RecordInv
<1>3. ASSUME NEW c \in Client, Done(c), paid' = paid, next' = next, pc[c] # "idle",
             (CanLoad /\ book' = Loaded) \/ book' = book, file' \in {file, Broken, book}
      PROVE  RecordInv'
  <2>1. pc' = [pc EXCEPT ![c] = "idle"] /\ pc'[c] = "idle"
    BY <1>1, <1>3 DEF Done, Goto
  <2>2. QED
    BY <1>2, <1>3, <2>1
<1>4. ASSUME NEW c \in Client, Sync(c) \/ Import(c) \/ ReadAccount(c)
      PROVE  RecordInv'
  <2>1. CanLoad /\ book'.transfers = Loaded.transfers
    BY <1>4, LoadedType, SyncedType, ImportedType, BookAssumption
    DEF BookInv, Sync, Import, ReadAccount
  <2>2. PICK label \in {"saveSync", "saveImport", "resync", "apply"} : Goto(c, label)
    BY <1>4 DEF Sync, Import, ReadAccount
  <2>3. paid' = paid /\ next' = next /\ file' = file
    BY <1>4 DEF Sync, Import, ReadAccount
  <2>4. pc'[c] = label /\ pc' = [pc EXCEPT ![c] = label]
    BY <1>1, <2>2 DEF Goto
  <2>5. QED
    BY <1>2, <2>1, <2>2, <2>3, <2>4
<1>5. ASSUME NEW c \in Client, ResyncFails(c) \/ SaveFails(c) \/ Refuse(c)
      PROVE  RecordInv'
  <2>1. pc[c] # "idle"
    BY <1>5 DEF ResyncFails, SaveFails, Refuse, Saving
  <2>2. Done(c) /\ paid' = paid /\ next' = next
    BY <1>5 DEF ResyncFails, SaveFails, Refuse
  <2>3. (CanLoad /\ book' = Loaded) \/ book' = book
    BY <1>5 DEF ResyncFails, SaveFails, Refuse
  <2>4. file' \in {file, Broken, book}
    BY <1>5 DEF ResyncFails, SaveFails, Refuse
  <2>5. QED
    BY <1>3, <2>1, <2>2, <2>3, <2>4
<1>6. ASSUME NEW c \in Client, Save(c)
      PROVE  RecordInv'
  <2>1. pc[c] \in Saving /\ pc[c] # "idle" /\ file' = book /\ book' = book
           /\ paid' = paid /\ next' = next
    BY <1>6 DEF Save, Saving
  <2>2. CASE AfterSave(c) = "idle"
    <3>1. Done(c)
      BY <1>6, <2>2 DEF Save
    <3>2. QED
      BY <1>3, <2>1, <3>1
  <2>3. CASE AfterSave(c) # "idle"
    <3>1. Goto(c, AfterSave(c)) /\ rec' = rec
      BY <1>6, <2>3 DEF Save
    <3>2. pc'[c] = AfterSave(c) /\ pc' = [pc EXCEPT ![c] = AfterSave(c)]
      BY <1>1, <3>1 DEF Goto
    <3>3. \/ AfterSave(c) \in {"read", "resync"}
          \/ AfterSave(c) = "settle" /\ pc[c] = "saveXfer"
      BY <2>1, <2>3, AfterSaveCases
    <3>4. CASE AfterSave(c) \in {"read", "resync"}
      <4>1. pc' = [pc EXCEPT ![c] = pc'[c]] /\ pc'[c] \in {"read", "resync"}
        BY <3>2, <3>4
      <4> HIDE DEF Recs, InHand, Saved
      <4>2. pc'[c] \notin {"saveXfer", "settle", "mark"}
        BY <4>1
      <4>3. QED
        BY <1>2, <2>1, <4>1, <4>2
    <3>5. CASE AfterSave(c) = "settle" /\ pc[c] = "saveXfer"
      <4>1. /\ Recs(book.transfers) /\ rec[c].id = next /\ InFront(book.transfers, next)
            /\ \A d \in Client : d = c
        BY <2>1, <3>5 DEF RecordInv, OneAtATime
      <4>2. book \notin {NoFile, Broken}
        BY <1>1
      <4>3. QED
        BY <2>1, <3>1, <3>2, <3>5, <4>1, <4>2 DEF RecordInv
    <3>6. QED
      BY <3>3, <3>4, <3>5
  <2>4. QED
    BY <2>2, <2>3
<1>7. ASSUME NEW c \in Client, Apply(c)
      PROVE  RecordInv'
  <2> DEFINE new == NewRecord(req[c])
  <2>1. new \in Record /\ new.id = next + 1
    BY <1>1, NewRecordType
  <2>2. pc[c] = "apply" /\ \A d \in Client : d = c
    BY <1>7 DEF Apply, OneAtATime
  <2>3. Recs(book.transfers) /\ book.transfers \in Seq(Record)
    BY <1>1, <2>2, BookFields DEF RecordInv
  <2>4. /\ book'.transfers = Logged(book.transfers, new) /\ paid' = paid /\ next' = next + 1
        /\ file' = file
    BY <1>7 DEF Apply
  <2>5. pc'[c] = "saveXfer" /\ rec'[c] = new
    BY <1>1, <1>7 DEF BookInv, TypeOK, Apply, Goto
  <2> HIDE DEF new
  <2>6. Recs(book.transfers)' /\ InFront(book'.transfers, next')
    BY <1>1, <2>1, <2>3, <2>4, LoggedRecorded
  <2>7. (file \notin {NoFile, Broken} => Recs(file.transfers))'
    <3>1. SUFFICES ASSUME file \notin {NoFile, Broken} PROVE Recs(file.transfers)'
      BY <2>4
    <3>2. Recs(file.transfers) /\ file.transfers \in Seq(Record)
      BY <1>1, <3>1, BookFields DEF RecordInv
    <3>3. QED
      BY <1>1, <2>4, <3>2, LaterRecorded
  <2>8. QED
    BY <2>1, <2>2, <2>4, <2>5, <2>6, <2>7 DEF RecordInv
<1>8. ASSUME NEW c \in Client, Settle(c) \/ SettleFails(c)
      PROVE  RecordInv'
  <2>1. pc[c] = "settle" /\ book' = book /\ file' = file /\ next' = next
           /\ \A d \in Client : d = c
    BY <1>8 DEF Settle, SettleFails, OneAtATime
  <2>2. /\ Recs(book.transfers) /\ rec[c].id = next /\ InFront(book.transfers, next)
        /\ file \notin {NoFile, Broken} /\ InFront(file.transfers, next) /\ Recs(file.transfers)
    BY <2>1 DEF RecordInv
  <2>3. paid' \subseteq paid \cup {next}
    BY <1>8, <2>2 DEF Settle, SettleFails
  <2>4. book.transfers \in Seq(Record) /\ file.transfers \in Seq(Record)
    BY <1>1, <2>2, BookFields
  <2>5. Recs(book.transfers)' /\ Recs(file.transfers)'
    BY <1>1, <2>1, <2>2, <2>3, <2>4, FrontRecorded
  <2>6. CASE Settle(c)
    <3>1. rec'[c].id = rec[c].id
      <4>1. PICK status \in {"pending", "submitted", "on_chain"} :
               rec' = [rec EXCEPT ![c].status = status]
        BY <2>6, SettleInv
      <4>2. rec[c] \in Record
        BY <2>1 DEF BookInv, ClientInv
      <4>3. QED
        BY <4>1, <4>2 DEF BookInv, TypeOK, Record
    <3>2. pc'[c] = "mark"
      BY <1>1, <2>6 DEF Settle, Goto
    <3>3. QED
      BY <2>1, <2>2, <2>5, <3>1, <3>2 DEF RecordInv
  <2>7. CASE SettleFails(c)
    <3>1. pc'[c] = "idle"
      BY <1>1, <2>7 DEF SettleFails, Done, Goto
    <3>2. QED
      BY <2>1, <2>2, <2>5, <3>1 DEF RecordInv
  <2>8. QED
    BY <1>8, <2>6, <2>7
<1>9. ASSUME NEW c \in Client, Mark(c)
      PROVE  RecordInv'
  <2>1. pc[c] = "mark" /\ file' = file /\ next' = next /\ paid' = paid /\ rec' = rec
           /\ \A d \in Client : d = c
    BY <1>9 DEF Mark, OneAtATime
  <2>2. /\ Recs(book.transfers) /\ rec[c].id = next /\ InFront(book.transfers, next)
        /\ file \notin {NoFile, Broken} /\ InFront(file.transfers, next) /\ Recs(file.transfers)
        /\ rec[c] \in Record
    BY <2>1 DEF RecordInv, BookInv, ClientInv
  <2>3. book' = [book EXCEPT !.transfers[1] = rec[c]]
    BY <1>9, <2>2 DEF Mark, InFront
  <2>4. Recs(book.transfers)' /\ InFront(book'.transfers, next')
    BY <1>1, <2>1, <2>2, <2>3, MarkedRecorded
  <2>5. pc'[c] = "saveMark"
    BY <1>1, <1>9 DEF Mark, Goto
  <2>6. QED
    BY <2>1, <2>2, <2>4, <2>5 DEF RecordInv
<1>10. CASE Stop
  <2>1. /\ book' = EmptyBook /\ paid' = paid /\ next' = next /\ file' \in {file, Broken}
        /\ \A c \in Client : pc'[c] = "idle"
    BY <1>10 DEF Stop
  <2>2. ~HasAccounts(book')
    BY <2>1, EmptyBookType
  <2>3. QED
    BY <1>1, <2>1, <2>2 DEF RecordInv, HasAccounts
<1>11. CASE UNCHANGED vars
  BY <1>11 DEF vars, RecordInv, HasAccounts
<1>12. QED
  BY <1>4, <1>5, <1>6, <1>7, <1>8, <1>9, <1>10, <1>11 DEF Next

\* Where requests do not overlap, every payment that went out is in the file,
\* whatever write failed and wherever the process stopped.
THEOREM PaymentsAreRecorded ==
    ASSUME OneAtATime
    PROVE  Spec => []PaidIsRecorded
<1>1. Init => RecordInv
  <2> SUFFICES ASSUME Init PROVE RecordInv
    OBVIOUS
  <2>1. file = NoFile /\ paid = {} /\ ~HasAccounts(book) /\ \A c \in Client : pc[c] = "idle"
    BY EmptyBookType DEF Init
  <2>2. QED
    BY <2>1 DEF RecordInv
<1>2. BookInv /\ RecordInv /\ [Next]_vars => RecordInv'
  BY RecordStep
<1>3. RecordInv => PaidIsRecorded
  BY DEF RecordInv, Recorded, PaidIsRecorded
<1>4. QED
  BY <1>1, <1>2, <1>3, Invariance, PTL DEF Spec

-----------------------------------------------------------------------------
(* Transfers keep the value there is, for one request at a time. *)

InAssets(b, assetOf) ==
    \A a \in Account : b.accounts[a] # NoAccount => b.accounts[a].asset = assetOf[a]

\* The copy a request debits is what the book has, and of the account's asset.
ValueInv(assetOf) ==
    /\ InAssets(book, assetOf) /\ (file \notin {NoFile, Broken} => InAssets(file, assetOf))
    /\ \A c \in Client : pc[c] = "apply" => from[c] = book.accounts[req[c].from]

LEMMA InitValue ==
    ASSUME NEW assetOf, Init
    PROVE  ValueInv(assetOf)
BY DEF Init, ValueInv, InAssets, EmptyBook

LEMMA LoadedInAssets ==
    ASSUME NEW assetOf, CanLoad, ValueInv(assetOf)
    PROVE  InAssets(Loaded, assetOf)
BY DEF CanLoad, Loaded, ValueInv, InAssets, EmptyBook

\* An amount taken from a balance and paid in at the same worth.
LEMMA Multiplies ==
    ASSUME NEW x \in Nat, NEW y \in Nat, NEW w \in Nat
    PROVE  (x + y) * w = x * w + y * w /\ x * w \in Nat
OBVIOUS

LEMMA TakenOff ==
    ASSUME NEW x \in Nat, NEW y \in Nat, NEW w \in Nat, y <= x
    PROVE  (x - y) * w = x * w - y * w
<1>1. PICK d \in Nat : d = x - y
  OBVIOUS
<1>2. (d + y) * w = d * w + y * w /\ d * w \in Nat /\ y * w \in Nat
  BY Multiplies
<1>3. d + y = x
  BY <1>1
<1> QED
  BY <1>1, <1>2, <1>3

LEMMA ExactDivision ==
    ASSUME NEW n \in Nat, NEW w \in Nat \ {0}, n % w = 0
    PROVE  n \div w \in Nat /\ (n \div w) * w = n
OBVIOUS

\* What arrives has the worth of what was sent, where the conversion does not round.
LEMMA OutKeepsWorth ==
    ASSUME BookAssumption, NEW n \in Nat, NEW a \in Asset, NEW b \in Asset,
           (n * Worth[a]) % Worth[b] = 0
    PROVE  OutAmount(n, a, b) \in Nat /\ OutAmount(n, a, b) * Worth[b] = n * Worth[a]
<1>1. Worth[a] \in Nat \ {0} /\ Worth[b] \in Nat \ {0}
  BY DEF BookAssumption
<1>2. PICK w : w = Worth[b]
  OBVIOUS
<1>3. PICK m : m = n * Worth[a]
  OBVIOUS
<1>4. m \in Nat /\ w \in Nat \ {0}
  BY <1>1, <1>2, <1>3, Multiplies
<1>5. m \div w \in Nat /\ (m \div w) * w = m
  BY <1>2, <1>3, <1>4, ExactDivision
<1>6. CASE a = b
  BY <1>6 DEF OutAmount
<1>7. CASE a # b
  BY <1>2, <1>3, <1>5, <1>7 DEF OutAmount
<1> QED
  BY <1>6, <1>7

LEMMA ValueType ==
    ASSUME BookAssumption, NEW accts \in Accounts, NEW a \in Account
    PROVE  Value(accts)[a] \in Nat
<1>1. CASE accts[a] = NoAccount
  BY <1>1 DEF Value
<1>2. CASE accts[a] # NoAccount
  <2>1. accts[a].bal \in Nat /\ Worth[accts[a].asset] \in Nat
    BY <1>2 DEF BookAssumption, Accounts, BookAccount
  <2>2. PICK w : w = Worth[accts[a].asset]
    OBVIOUS
  <2>3. accts[a].bal * w \in Nat
    BY <2>1, <2>2, Multiplies
  <2> QED
    BY <1>2, <2>2, <2>3 DEF Value
<1> QED
  BY <1>1, <1>2

LEMMA ValueSum ==
    ASSUME BookAssumption, IsFiniteSet(Account), NEW accts \in Accounts
    PROVE  SumFunction(Value(accts)) \in Int
<1>1. PICK f : f = Value(accts)
  OBVIOUS
<1>2. DOMAIN f = Account /\ \A x \in Account : f[x] \in Int
  BY <1>1, ValueType DEF Value
<1> QED
  BY <1>1, <1>2, SumInt, SumOfFunction

\* One account changes.
LEMMA ValueChange ==
    ASSUME BookAssumption, IsFiniteSet(Account), NEW accts \in Accounts, NEW a \in Account,
           NEW entry \in BookAccount
    PROVE  SumFunction(Value([accts EXCEPT ![a] = entry]))
             = SumFunction(Value(accts)) - Value(accts)[a] + entry.bal * Worth[entry.asset]
<1>1. PICK changed : changed = [accts EXCEPT ![a] = entry]
  OBVIOUS
<1>2. changed \in Accounts /\ changed[a] = entry /\ \A x \in Account : x # a => changed[x] = accts[x]
  BY <1>1 DEF Accounts
<1>3. PICK f : f = Value(accts)
  OBVIOUS
<1>4. PICK g : g = Value(changed)
  OBVIOUS
<1>5. DOMAIN f = Account /\ DOMAIN g = Account
  BY <1>3, <1>4 DEF Value
<1>6. \A x \in Account : f[x] \in Int /\ g[x] \in Int
  BY <1>2, <1>3, <1>4, ValueType
<1>7. \A x \in Account : x # a => g[x] = f[x]
  BY <1>2, <1>3, <1>4 DEF Value
<1>8. g[a] = entry.bal * Worth[entry.asset]
  BY <1>2, <1>4 DEF Value, BookAssumption
<1>9. SumFunctionOnSet(g, Account) = SumFunctionOnSet(f, Account) - f[a] + g[a]
  BY <1>6, <1>7, SumChange
<1>10. SumFunction(f) = SumFunctionOnSet(f, Account) /\ SumFunction(g) = SumFunctionOnSet(g, Account)
  BY <1>5, SumOfFunction
<1> QED
  BY <1>1, <1>3, <1>4, <1>8, <1>9, <1>10

LEMMA MovedKeepsValue ==
    ASSUME BookAssumption, NEW assetOf, KeepsAssets(assetOf), NEW r \in Requests, NEW accts \in Accounts,
           accts[r.from] \in BookAccount, accts[r.from].bal >= r.amount,
           \A a \in Account : accts[a] # NoAccount => accts[a].asset = assetOf[a]
    PROVE  /\ \A a \in Account : Moved(accts, r, accts[r.from])[a] # NoAccount =>
                  Moved(accts, r, accts[r.from])[a].asset = assetOf[a]
           /\ SumFunction(Value(Moved(accts, r, accts[r.from]))) = SumFunction(Value(accts))
<1>1. /\ IsFiniteSet(Account) /\ r \in Request /\ assetOf \in [Account -> Asset]
      /\ assetOf[r.to] = IF r.convertTo = NoAsset THEN assetOf[r.from] ELSE r.convertTo
      /\ (r.amount * Worth[assetOf[r.from]]) % Worth[assetOf[r.to]] = 0
  BY DEF KeepsAssets, BookAssumption
<1>2. PICK f : f = accts[r.from]
  OBVIOUS
<1>3. /\ r.from \in Account /\ r.to \in Account /\ r.amount \in Nat
      /\ f \in BookAccount /\ f.asset = assetOf[r.from] /\ f.bal \in Nat /\ f # NoAccount
      /\ assetOf[r.from] \in Asset /\ assetOf[r.to] \in Asset
  BY <1>1, <1>2 DEF Request, BookAccount, BookAssumption
<1>4. OutAsset(r, f) = assetOf[r.to]
  BY <1>1, <1>3 DEF OutAsset
<1>5. PICK out : out = OutAmount(r.amount, f.asset, OutAsset(r, f))
  OBVIOUS
<1>6. PICK wf : wf = Worth[assetOf[r.from]]
  OBVIOUS
<1>7. PICK wt : wt = Worth[assetOf[r.to]]
  OBVIOUS
<1>8. out \in Nat /\ out * wt = r.amount * wf
  BY <1>1, <1>3, <1>4, <1>5, <1>6, <1>7, OutKeepsWorth
<1>9. wf \in Nat /\ wt \in Nat
  BY <1>3, <1>6, <1>7 DEF BookAssumption
<1>10. PICK less : less = [f EXCEPT !.bal = @ - r.amount]
  OBVIOUS
<1>11. less \in BookAccount /\ less.bal = f.bal - r.amount /\ less.asset = f.asset
  BY <1>2, <1>3, <1>10 DEF BookAccount
<1>12. PICK debited : debited = [accts EXCEPT ![r.from] = less]
  OBVIOUS
<1>13. debited \in Accounts /\ debited[r.from] = less /\ \A x \in Account : x # r.from => debited[x] = accts[x]
  BY <1>3, <1>11, <1>12 DEF Accounts
<1>14. \A a \in Account : debited[a] # NoAccount => debited[a].asset = assetOf[a]
  BY <1>3, <1>11, <1>13
<1>15. PICK had : had = IF debited[r.to] = NoAccount THEN 0 ELSE debited[r.to].bal
  OBVIOUS
<1>16. had \in Nat
  <2>1. debited[r.to] \in BookAccount \cup {NoAccount}
    BY <1>3, <1>13 DEF Accounts
  <2> QED
    BY <1>15, <2>1 DEF BookAccount
<1>17. PICK more : more = [asset |-> assetOf[r.to], bal |-> had + out]
  OBVIOUS
<1>18. more \in BookAccount /\ more.asset = assetOf[r.to] /\ more.bal = had + out
  BY <1>3, <1>8, <1>16, <1>17 DEF BookAccount
<1>19. Moved(accts, r, f) = [debited EXCEPT ![r.to] = more]
  BY <1>4, <1>5, <1>10, <1>12, <1>15, <1>17 DEF Moved
<1>20. \A a \in Account : Moved(accts, r, f)[a] # NoAccount => Moved(accts, r, f)[a].asset = assetOf[a]
  <2>1. DOMAIN debited = Account
    BY <1>13 DEF Accounts
  <2> QED
    BY <1>14, <1>18, <1>19, <2>1
<1>21. SumFunction(Value(debited)) = SumFunction(Value(accts)) - r.amount * wf
  <2>1. SumFunction(Value(debited)) = SumFunction(Value(accts)) - Value(accts)[r.from] + less.bal * wf
    <3>1. Worth[less.asset] = wf /\ r.from \in Account
      BY <1>3, <1>6, <1>11
    <3>2. SumFunction(Value([accts EXCEPT ![r.from] = less]))
            = SumFunction(Value(accts)) - Value(accts)[r.from] + less.bal * Worth[less.asset]
      BY <1>1, <1>11, <3>1, ValueChange
    <3> QED
      BY <1>12, <3>1, <3>2
  <2>2. Value(accts)[r.from] = f.bal * wf
    BY <1>2, <1>3, <1>6 DEF Value
  <2>3. less.bal * wf = f.bal * wf - r.amount * wf
    BY <1>2, <1>3, <1>9, <1>11, TakenOff
  <2>4. f.bal * wf \in Nat /\ r.amount * wf \in Nat
    BY <1>3, <1>9, Multiplies
  <2>5. SumFunction(Value(accts)) \in Int
    BY <1>1, ValueSum
  <2> QED
    BY <2>1, <2>2, <2>3, <2>4, <2>5
<1>22. SumFunction(Value([debited EXCEPT ![r.to] = more])) = SumFunction(Value(debited)) + out * wt
  <2>1. SumFunction(Value([debited EXCEPT ![r.to] = more]))
          = SumFunction(Value(debited)) - Value(debited)[r.to] + more.bal * wt
    BY <1>1, <1>3, <1>7, <1>13, <1>18, ValueChange
  <2>2. Value(debited)[r.to] = had * wt
    BY <1>3, <1>7, <1>9, <1>14, <1>15 DEF Value
  <2>3. more.bal * wt = had * wt + out * wt
    BY <1>8, <1>9, <1>16, <1>18, Multiplies
  <2>4. had * wt \in Nat /\ out * wt \in Nat
    BY <1>8, <1>9, <1>16, Multiplies
  <2>5. SumFunction(Value(debited)) \in Int
    BY <1>1, <1>13, ValueSum
  <2> QED
    BY <2>1, <2>2, <2>3, <2>4, <2>5
<1>23. SumFunction(Value(accts)) \in Int /\ r.amount * wf \in Nat
  BY <1>1, <1>3, <1>9, ValueSum, Multiplies
<1> QED
  BY <1>2, <1>8, <1>19, <1>20, <1>21, <1>22, <1>23

\* Of LedgerBook alone: what is asked for is one of Requests.
OwnRequests == \A c \in Client : req[c] \in Requests \cup {NoRequest}

LEMMA OwnStep ==
    ASSUME BookInv, OwnRequests, [Next]_vars
    PROVE  OwnRequests'
<1>1. req \in [Client -> Request \cup {NoRequest}]
  BY DEF BookInv, TypeOK
<1>2. ASSUME NEW c \in Client, NEW r \in Requests \cup {NoRequest}, req' = [req EXCEPT ![c] = r]
      PROVE  OwnRequests'
  BY <1>1, <1>2 DEF OwnRequests
<1>3. ASSUME NEW c \in Client, Done(c) \/ Sync(c)
      PROVE  OwnRequests'
  BY <1>2, <1>3 DEF Done, Sync
<1>4. CASE Stop
  BY <1>4 DEF Stop, OwnRequests
<1>5. ASSUME NEW c \in Client, ResyncFails(c) \/ Save(c) \/ SaveFails(c) \/ Refuse(c) \/ SettleFails(c)
      PROVE  Done(c) \/ req' = req
  BY <1>5 DEF ResyncFails, Save, SaveFails, Refuse, SettleFails
<1>6. ASSUME NEW c \in Client, Import(c) \/ ReadAccount(c) \/ Apply(c) \/ Settle(c) \/ Mark(c)
      PROVE  req' = req
  BY <1>6 DEF Import, ReadAccount, Apply, Settle, Mark
<1>7. CASE req' = req
  BY <1>7 DEF OwnRequests
<1> QED
  BY <1>3, <1>4, <1>5, <1>6, <1>7 DEF Next, vars

LEMMA ValueStep ==
    ASSUME BookAssumption, OneAtATime, NEW assetOf, KeepsAssets(assetOf), BookInv, OwnRequests,
           ValueInv(assetOf), [Next]_vars
    PROVE  /\ ValueInv(assetOf)'
           /\ \A c \in Client : pc[c] = "apply" /\ pc'[c] = "saveXfer" => Total(book') = Total(book)
<1>1. /\ pc \in [Client -> Saving \cup {"idle", "resync", "read", "apply", "settle", "mark"}]
      /\ from \in [Client -> BookAccount \cup {NoAccount}] /\ req \in [Client -> Request \cup {NoRequest}]
      /\ book \in Book /\ file \in Book \cup {NoFile, Broken}
  BY DEF BookInv, TypeOK
<1>2. \A a \in Account : (Value(book.accounts)')[a] = (Value(book.accounts'))[a]
  OBVIOUS
\* Steps after which nobody is about to debit.
<1>3. ASSUME NEW c \in Client, pc[c] # "apply", pc'[c] # "apply",
             InAssets(book, assetOf)', file' \in {file, Broken, book}
      PROVE  /\ ValueInv(assetOf)'
             /\ \A d \in Client : pc[d] = "apply" /\ pc'[d] = "saveXfer" => Total(book') = Total(book)
  <2>1. \A d \in Client : d = c
    BY DEF OneAtATime
  <2>2. (file \notin {NoFile, Broken} => InAssets(file, assetOf))'
    BY <1>3 DEF ValueInv, InAssets
  <2> QED
    BY <1>3, <2>1, <2>2 DEF ValueInv
<1>4. CanLoad => InAssets(Loaded, assetOf) /\ Loaded \in Book
  BY LoadedInAssets, LoadedType DEF BookInv
<1>5. ASSUME NEW c \in Client, Sync(c)
      PROVE  InAssets(book, assetOf)' /\ pc'[c] = "saveSync" /\ pc[c] # "apply" /\ file' = file
  <2>1. PICK snap \in Snapshots : book' = Synced(Loaded, snap)
    BY <1>5 DEF Sync
  <2>2. CanLoad /\ pc[c] \in {"idle", "resync"} /\ pc'[c] = "saveSync" /\ file' = file
    BY <1>1, <1>5 DEF Sync, Goto
  <2>3. \A a \in Account : snap[a] # NoAccount => snap[a].asset = assetOf[a]
    BY DEF KeepsAssets
  <2>4. \A a \in Account : book'.accounts[a] \in {Loaded.accounts[a], snap[a]}
    BY <1>4, <2>1, <2>2 DEF Synced, Book
  <2> QED
    BY <1>4, <2>2, <2>3, <2>4 DEF InAssets
<1>6. ASSUME NEW c \in Client, Import(c)
      PROVE  InAssets(book, assetOf)' /\ pc'[c] # "apply" /\ pc[c] # "apply" /\ file' = file
  <2>1. PICK entries \in Imports : /\ book' = Imported(Loaded, entries)
                                   /\ Goto(c, IF \E a \in Account : Usable(entries[a])
                                              THEN "saveImport" ELSE "resync")
    BY <1>6 DEF Import
  <2>2. CanLoad /\ pc[c] = "idle" /\ pc'[c] # "apply" /\ file' = file
    BY <1>1, <1>6, <2>1 DEF Import, Goto
  <2>3. \A a \in Account : entries[a] # NoAccount => entries[a].asset = assetOf[a]
    BY DEF KeepsAssets
  <2>4. \A a \in Account : book'.accounts[a] \in {Loaded.accounts[a], entries[a]}
    BY <1>4, <2>1, <2>2 DEF Imported, Book
  <2> QED
    BY <1>4, <2>2, <2>3, <2>4 DEF InAssets
<1>7. ASSUME NEW c \in Client, Apply(c)
      PROVE  InAssets(book, assetOf)' /\ Total(book') = Total(book) /\ pc'[c] = "saveXfer" /\ file' = file
  <2>1. /\ pc[c] = "apply" /\ req[c] \in Requests /\ from[c] \in BookAccount
        /\ from[c].bal >= req[c].amount /\ from[c] = book.accounts[req[c].from]
    BY <1>7, BookAssumption DEF Apply, BookInv, ClientInv, OwnRequests, ValueInv
  <2>2. book.accounts \in Accounts /\ book'.accounts = Moved(book.accounts, req[c], from[c])
    BY <1>1, <1>7, BookFields DEF Apply
  <2>3. pc'[c] = "saveXfer" /\ file' = file
    BY <1>1, <1>7 DEF Apply, Goto
  <2>4. \A a \in Account : book.accounts[a] # NoAccount => book.accounts[a].asset = assetOf[a]
    BY DEF ValueInv, InAssets
  <2>5. PICK r \in Requests : r = req[c]
    BY <2>1
  <2>6. PICK accts \in Accounts : accts = book.accounts
    BY <2>2
  <2>7. PICK then : then = book'.accounts
    OBVIOUS
  <2>8. then = Moved(accts, r, accts[r.from])
    BY <2>1, <2>2, <2>5, <2>6, <2>7
  <2>9. /\ \A a \in Account : then[a] # NoAccount => then[a].asset = assetOf[a]
        /\ SumFunction(Value(then)) = SumFunction(Value(accts))
    BY <2>1, <2>4, <2>5, <2>6, <2>8, MovedKeepsValue
  <2> QED
    BY <2>3, <2>6, <2>7, <2>9 DEF InAssets, Total
<1>8. ASSUME NEW c \in Client, ReadAccount(c)
      PROVE  ValueInv(assetOf)' /\ pc'[c] = "apply"
  <2>1. /\ CanLoad /\ book' = Loaded /\ from'[c] = Loaded.accounts[req[c].from] /\ pc'[c] = "apply"
        /\ file' = file /\ req' = req
    BY <1>1, <1>8 DEF ReadAccount, Goto
  <2>2. \A d \in Client : d = c
    BY DEF OneAtATime
  <2> QED
    BY <1>4, <2>1, <2>2 DEF ValueInv, InAssets
<1>9. ASSUME NEW c \in Client, Refuse(c) \/ ResyncFails(c) \/ Save(c) \/ SaveFails(c)
      PROVE  InAssets(book, assetOf)' /\ pc[c] # "apply" /\ pc'[c] # "apply" /\ file' \in {file, Broken, book}
  <2>1. book' = book \/ (CanLoad /\ book' = Loaded)
    BY <1>9 DEF Refuse, ResyncFails, Save, SaveFails
  <2>2. pc[c] # "apply" /\ file' \in {file, Broken, book}
    BY <1>9 DEF Refuse, ResyncFails, Save, SaveFails, Saving
  <2>3. pc'[c] # "apply"
    BY <1>1, <1>9 DEF Refuse, ResyncFails, Save, SaveFails, Saving, Done, Goto, AfterSave
  <2> QED
    BY <1>4, <2>1, <2>2, <2>3 DEF ValueInv, InAssets
<1>10. ASSUME NEW c \in Client, Settle(c) \/ SettleFails(c) \/ Mark(c)
      PROVE  InAssets(book, assetOf)' /\ pc[c] # "apply" /\ pc'[c] # "apply" /\ file' = file
  <2>1. pc[c] # "apply" /\ file' = file
    BY <1>10 DEF Settle, SettleFails, Mark
  <2>2. book'.accounts = book.accounts
    BY <1>1, <1>10 DEF Settle, SettleFails, Mark, Book
  <2>3. pc'[c] # "apply"
    BY <1>1, <1>10 DEF Settle, SettleFails, Mark, Done, Goto
  <2> QED
    BY <2>1, <2>2, <2>3 DEF ValueInv, InAssets
<1>11. CASE Stop
  <2>1. book' = EmptyBook /\ file' \in {file, Broken} /\ \A c \in Client : pc'[c] = "idle"
    BY <1>11 DEF Stop
  <2> QED
    BY <2>1 DEF ValueInv, InAssets, EmptyBook
<1>12. CASE UNCHANGED vars
  BY <1>12 DEF vars, ValueInv, InAssets
<1>13. ASSUME NEW c \in Client, Apply(c)
       PROVE  /\ ValueInv(assetOf)'
              /\ \A d \in Client : pc[d] = "apply" /\ pc'[d] = "saveXfer" => Total(book') = Total(book)
  <2>1. \A d \in Client : d = c
    BY DEF OneAtATime
  <2> QED
    BY <1>7, <1>13, <2>1 DEF ValueInv, InAssets
<1>14. ASSUME NEW c \in Client, ReadAccount(c)
       PROVE  /\ ValueInv(assetOf)'
              /\ \A d \in Client : pc[d] = "apply" /\ pc'[d] = "saveXfer" => Total(book') = Total(book)
  <2>1. \A d \in Client : d = c
    BY DEF OneAtATime
  <2> QED
    BY <1>8, <1>14, <2>1
<1> QED
  BY <1>3, <1>5, <1>6, <1>9, <1>10, <1>11, <1>12, <1>13, <1>14 DEF Next

\* Where requests do not overlap, every account keeps its asset and no
\* conversion rounds, a transfer makes no value and loses none, whatever fails
\* around it.
THEOREM TransfersKeepValue ==
    ASSUME OneAtATime, NEW assetOf, KeepsAssets(assetOf)
    PROVE  Spec => ValueMoves
<1>1. Init => ValueInv(assetOf)
  BY InitValue
<1>2. Init => OwnRequests
  BY DEF Init, OwnRequests
<1>3. BookInv /\ OwnRequests /\ [Next]_vars => OwnRequests'
  BY OwnStep
<1>4. BookInv /\ OwnRequests /\ ValueInv(assetOf) /\ [Next]_vars => ValueInv(assetOf)'
  BY BookAssumption, ValueStep
<1>5. BookInv /\ OwnRequests /\ ValueInv(assetOf) /\ [Next]_vars =>
        [\A c \in Client : pc[c] = "apply" /\ pc'[c] = "saveXfer" => Total(book') = Total(book)]_vars
  BY BookAssumption, ValueStep
<1> QED
  BY <1>1, <1>2, <1>3, <1>4, <1>5, Invariance, PTL DEF Spec, ValueMoves

-----------------------------------------------------------------------------
(* Settlements.  Each of their steps is one of LedgerBook, or one of these *)
(* four: it asks for a transfer, copies an account, puts a copy back, or   *)
(* saves.                                                                  *)

Asks(c) ==
    /\ Goto(c, "read") /\ \E r \in Request : req' = [req EXCEPT ![c] = r]
    /\ UNCHANGED <<book, file, from, rec, paid, next, unsaved>>
Copies(c) ==
    /\ HasAccounts(book)
    /\ \E a \in Account : book.accounts[a] # NoAccount /\ from' = [from EXCEPT ![c] = book.accounts[a]]
    /\ UNCHANGED <<book, file, pc, req, rec, paid, next, unsaved>>
PutsBack(c) ==
    /\ \E a \in Account, entry \in BookAccount : book' = [book EXCEPT !.accounts[a] = entry]
    /\ from' = [from EXCEPT ![c] = NoAccount]
    /\ Goto(c, "saveMark") \/ pc' = pc
    /\ UNCHANGED <<file, req, rec, paid, next, unsaved>>
Saves(c) == Goto(c, "saveMark") /\ UNCHANGED <<book, file, req, from, rec, paid, next, unsaved>>

\* Of a settlement: from its listing on, but for a transfer of its own that is
\* still ahead, the book has accounts, and it never is without again.
Before == {"saveSync", "read"}
SettlesAt(b, label, r, copy, bk, fl) ==
    /\ b.phase = "list" => HasAccounts(bk) \/ fl \in {NoFile, Broken} \/ ~HasAccounts(fl)
    /\ b.phase # "list" /\ (b.phase \in {"convert", "record"} => label \notin Before) => HasAccounts(bk)
    /\ b.phase \in {"convert", "record"} /\ label = "saveSync" => r # NoRequest
    /\ b.phase = "pool" => \A x \in b.left : x.n > 0
    /\ b.phase = "put" => label = "idle" /\ copy \in BookAccount

BatchInv ==
    /\ batch \in [Client -> Batch \cup {NoBatch}]
    /\ \A c \in Client : batch[c] # NoBatch =>
          SettlesAt(batch[c], pc[c], req[c], from[c], book, file)

LEMMA FromMemory ==
    ASSUME HasAccounts(book)
    PROVE  CanLoad /\ Loaded = book
BY DEF CanLoad, Loaded

LEMMA AsksInv ==
    ASSUME BookInv, NEW c \in Client, Asks(c)
    PROVE  BookInv'
<1>1. PICK r \in Request : req' = [req EXCEPT ![c] = r]
  BY DEF Asks
<1>2. ClientTypes'
  BY <1>1 DEF BookInv, TypeOK, ClientTypes, Asks, Goto, Saving
<1>3. ASSUME NEW d \in Client
      PROVE  /\ pc'[d] = IF d = c THEN "read" ELSE pc[d]
             /\ req'[d] = IF d = c THEN r ELSE req[d]
             /\ from'[d] = from[d] /\ rec'[d] = rec[d] /\ next' = next
  BY <1>1 DEF BookInv, TypeOK, Asks, Goto
<1>4. ClientInv'
  BY <1>3 DEF BookInv, ClientInv
<1>5. TypeOK'
  BY <1>2 DEF BookInv, TypeOK, ClientTypes, Asks
<1> QED
  BY <1>4, <1>5 DEF BookInv

LEMMA CopiesInv ==
    ASSUME BookInv, NEW c \in Client, pc[c] = "idle", Copies(c)
    PROVE  BookInv' /\ from'[c] \in BookAccount
<1>1. PICK a \in Account : book.accounts[a] # NoAccount /\ from' = [from EXCEPT ![c] = book.accounts[a]]
  BY DEF Copies
<1>2. book.accounts[a] \in BookAccount
  BY <1>1, BookFields DEF BookInv, TypeOK, Accounts
<1>3. ClientTypes' /\ from'[c] \in BookAccount
  BY <1>1, <1>2 DEF BookInv, TypeOK, ClientTypes, Copies
<1>4. \A d \in Client : d # c => from'[d] = from[d]
  BY <1>1 DEF BookInv, TypeOK
<1>5. pc' = pc /\ req' = req /\ rec' = rec /\ next' = next
  BY DEF Copies
<1>6. ClientInv'
  BY <1>4, <1>5 DEF BookInv, ClientInv
<1>7. TypeOK'
  BY <1>3 DEF BookInv, TypeOK, ClientTypes, Copies
<1> QED
  BY <1>3, <1>6, <1>7 DEF BookInv

LEMMA PutsBackInv ==
    ASSUME BookInv, NEW c \in Client, pc[c] = "idle", PutsBack(c)
    PROVE  BookInv' /\ book'.transfers = book.transfers /\ (HasAccounts(book) => HasAccounts(book'))
<1>1. PICK a \in Account, entry \in BookAccount : book' = [book EXCEPT !.accounts[a] = entry]
  BY DEF PutsBack
<1>2. PICK accts : accts = [book.accounts EXCEPT ![a] = entry]
  OBVIOUS
<1>3. accts \in Accounts /\ entry # NoAccount /\ accts[a] = entry
  BY <1>2, BookFields, BookAssumption DEF BookInv, TypeOK, Accounts
<1>4. book' = [book EXCEPT !.accounts = accts]
  BY <1>1, <1>2 DEF BookInv, TypeOK, Book
<1>5. book' \in Book /\ book'.transfers = book.transfers /\ book'.accounts = accts
  BY <1>3, <1>4, WithAccountsType DEF BookInv, TypeOK, Book
<1>6. HasAccounts(book')
  BY <1>3, <1>5 DEF HasAccounts
<1>7. PICK label \in {"saveMark", "idle"} : pc' = [pc EXCEPT ![c] = label]
  BY DEF PutsBack, Goto, BookInv, TypeOK
<1>8. ClientTypes'
  BY <1>7 DEF BookInv, TypeOK, ClientTypes, PutsBack, Saving
<1>9. ASSUME NEW d \in Client
      PROVE  /\ pc'[d] = IF d = c THEN label ELSE pc[d]
             /\ d # c => from'[d] = from[d]
             /\ req'[d] = req[d] /\ rec'[d] = rec[d] /\ next' = next
  BY <1>7 DEF BookInv, TypeOK, PutsBack
<1>10. ClientInv'
  BY <1>9 DEF BookInv, ClientInv
<1>11. TypeOK'
  BY <1>5, <1>8 DEF BookInv, TypeOK, ClientTypes, PutsBack
<1> QED
  BY <1>5, <1>6, <1>10, <1>11 DEF BookInv

LEMMA SavesInv ==
    ASSUME BookInv, NEW c \in Client, Saves(c)
    PROVE  BookInv'
<1>1. ClientTypes' /\ ClientInv'
  BY GotoInv DEF Saves
<1>2. TypeOK'
  BY <1>1 DEF BookInv, TypeOK, ClientTypes, Saves
<1> QED
  BY <1>1, <1>2 DEF BookInv

-----------------------------------------------------------------------------
(* Amounts *)

LEMMA PartIs ==
    ASSUME SettlementAssumption, NEW n \in Nat
    PROVE  EthPart(n) \in Nat /\ EthPart(n) <= n
<1>1. PICK p \in Nat : p = EthPercent /\ p <= 100
  BY DEF SettlementAssumption
<1>2. PICK q \in Nat : q + p = 100
  BY <1>1
<1>3. n * p \in Nat /\ n * q \in Nat /\ n * q + n * p = n * 100
  BY <1>2, Multiplies
<1>4. PICK m \in Nat : m = n * p
  BY <1>3
<1>5. m <= n * 100
  BY <1>3, <1>4
<1>6. EthPart(n) = m \div 100
  BY <1>1, <1>4 DEF EthPart
<1> QED
  BY <1>5, <1>6

LEMMA OutAmountType ==
    ASSUME NEW n \in Nat, NEW a \in Asset, NEW b \in Asset
    PROVE  OutAmount(n, a, b) \in Nat
<1>1. PICK w \in Nat \ {0} : w = Worth[b]
  BY BookAssumption
<1>2. Worth[a] \in Nat
  BY BookAssumption
<1>3. PICK m : m = n * Worth[a]
  OBVIOUS
<1>4. m \in Nat
  BY <1>2, <1>3, Multiplies
<1>5. m \div w \in Nat
  BY <1>4
<1> QED
  BY <1>1, <1>3, <1>5 DEF OutAmount

LEMMA RouteIs ==
    ASSUME SettlementAssumption, NEW class
    PROVE  Route(class) \in Aggregate /\ Aggregate \subseteq Class /\ PoolOf[Route(class)] \in Account
BY DEF SettlementAssumption, Route, Aggregate

LEMMA BalanceIs ==
    ASSUME NEW b \in Book, NEW a \in Account
    PROVE  Balance(b, a) \in Nat /\ (Balance(b, a) > 0 => b.accounts[a] \in BookAccount)
<1>1. b.accounts[a] \in BookAccount \cup {NoAccount}
  BY BookFields DEF Accounts
<1> QED
  BY <1>1 DEF Balance, BookAccount

LEMMA ListedIs ==
    ASSUME SettlementAssumption, NEW b \in Book, NEW x \in FiatAccounts(b)
    PROVE  /\ x \in [acct : Account, n : Nat, usd : Nat] /\ x.acct \in Customer /\ x.n > 0
           /\ x.n = Balance(b, x.acct) /\ b.accounts[x.acct].asset \in Fiat
           /\ x.usd = OutAmount(x.n, b.accounts[x.acct].asset, Usd)
           /\ b.accounts[x.acct] \in BookAccount
<1>1. PICK a \in Customer : /\ Balance(b, a) > 0 /\ b.accounts[a].asset \in Fiat
                            /\ x = Left(a, Balance(b, a), OutAmount(Balance(b, a), b.accounts[a].asset, Usd))
  BY DEF FiatAccounts
<1>2. a \in Account /\ Fiat \subseteq Asset /\ Usd \in Asset
  BY DEF SettlementAssumption
<1>3. Balance(b, a) \in Nat /\ b.accounts[a] \in BookAccount
  BY <1>1, <1>2, BalanceIs
<1>4. OutAmount(Balance(b, a), b.accounts[a].asset, Usd) \in Nat
  BY <1>1, <1>2, <1>3, OutAmountType
<1>5. x.acct = a /\ x.n = Balance(b, a) /\ x.usd = OutAmount(x.n, b.accounts[a].asset, Usd)
  BY <1>1 DEF Left
<1>6. x \in [acct : Account, n : Nat, usd : Nat]
  BY <1>1, <1>2, <1>3, <1>4 DEF Left
<1> QED
  BY <1>1, <1>3, <1>5, <1>6

-----------------------------------------------------------------------------
(* What a step leaves of a settlement *)

LEMMA HasKept ==
    ASSUME NEW b \in Book, NEW d \in Book, HasAccounts(b),
           \A a \in Account : b.accounts[a] # NoAccount => d.accounts[a] # NoAccount
    PROVE  HasAccounts(d)
BY DEF HasAccounts

LEMMA SyncedKeeps ==
    ASSUME NEW b \in Book, NEW snap \in Accounts, HasAccounts(b)
    PROVE  HasAccounts(Synced(b, snap))
<1>1. Synced(b, snap) \in Book
  BY SyncedType
<1>2. PICK a \in Account : b.accounts[a] # NoAccount
  BY DEF HasAccounts
<1>3. Synced(b, snap).accounts[a] = IF snap[a] = NoAccount \/ (b.accounts[a] # NoAccount /\ b.accounts[a].bal > snap[a].bal)
                                    THEN b.accounts[a] ELSE snap[a]
  BY DEF Synced, Book
<1>4. Synced(b, snap).accounts[a] # NoAccount
  BY <1>2, <1>3
<1> QED
  BY <1>4 DEF HasAccounts

LEMMA ImportedKeeps ==
    ASSUME NEW b \in Book, NEW entries \in Accounts, HasAccounts(b)
    PROVE  HasAccounts(Imported(b, entries))
<1>1. PICK a \in Account : b.accounts[a] # NoAccount
  BY DEF HasAccounts
<1>2. Imported(b, entries).accounts[a] = IF Usable(entries[a]) THEN entries[a] ELSE b.accounts[a]
  BY DEF Imported, Book
<1>3. Imported(b, entries).accounts[a] # NoAccount
  BY <1>1, <1>2 DEF Usable
<1> QED
  BY <1>3 DEF HasAccounts

\* The accounts after a transfer between two of them.
LEMMA MovedIs ==
    ASSUME NEW accts \in Accounts, NEW r \in Request, NEW f \in BookAccount, f.bal >= r.amount
    PROVE  /\ Moved(accts, r, f) \in Accounts /\ Moved(accts, r, f)[r.to] \in BookAccount
           /\ \A a \in Account \ {r.from, r.to} : Moved(accts, r, f)[a] = accts[a]
           /\ r.from # r.to =>
                 /\ Moved(accts, r, f)[r.from] = [asset |-> f.asset, bal |-> f.bal - r.amount]
                 /\ Moved(accts, r, f)[r.to] =
                       [asset |-> OutAsset(r, f),
                        bal |-> (IF accts[r.to] = NoAccount THEN 0 ELSE accts[r.to].bal)
                                + OutAmount(r.amount, f.asset, OutAsset(r, f))]
<1>1. PICK then : then = Moved(accts, r, f)
  OBVIOUS
<1>2. then \in Accounts
  BY <1>1, MovedType
<1>3. PICK less : less = [f EXCEPT !.bal = @ - r.amount]
  OBVIOUS
<1>4. /\ r.from \in Account /\ r.to \in Account /\ r.amount \in Nat
      /\ f.asset \in Asset /\ f.bal \in Nat /\ OutAsset(r, f) \in Asset
  BY DEF Request, BookAccount, OutAsset
<1>5. less = [asset |-> f.asset, bal |-> f.bal - r.amount] /\ less \in BookAccount
  BY <1>3, <1>4 DEF BookAccount
<1>6. PICK debited : debited = [accts EXCEPT ![r.from] = less]
  OBVIOUS
<1>7. debited \in Accounts /\ debited[r.from] = less /\ \A a \in Account : a # r.from => debited[a] = accts[a]
  BY <1>4, <1>5, <1>6 DEF Accounts
<1>8. PICK out : out = OutAmount(r.amount, f.asset, OutAsset(r, f))
  OBVIOUS
<1>9. out \in Nat
  BY <1>4, <1>8, OutAmountType
<1>10. PICK had : had = IF debited[r.to] = NoAccount THEN 0 ELSE debited[r.to].bal
  OBVIOUS
<1>11. had \in Nat
  <2>1. debited[r.to] \in BookAccount \cup {NoAccount}
    BY <1>4, <1>7 DEF Accounts
  <2> QED
    BY <1>10, <2>1 DEF BookAccount
<1>12. PICK more : more = [asset |-> OutAsset(r, f), bal |-> had + out]
  OBVIOUS
<1>13. more \in BookAccount
  BY <1>4, <1>9, <1>11, <1>12 DEF BookAccount
<1>14. then = [debited EXCEPT ![r.to] = more]
  BY <1>1, <1>3, <1>6, <1>8, <1>10, <1>12 DEF Moved
<1>15. then[r.to] = more /\ \A a \in Account : a # r.to => then[a] = debited[a]
  BY <1>4, <1>7, <1>14 DEF Accounts
<1>16. r.from # r.to => had = IF accts[r.to] = NoAccount THEN 0 ELSE accts[r.to].bal
  BY <1>4, <1>7, <1>10
<1> QED
  BY <1>1, <1>2, <1>4, <1>5, <1>7, <1>8, <1>12, <1>13, <1>15, <1>16

\* The steps of LedgerBook but for a stop.
BookSteps(c) ==
    \/ Sync(c) \/ Import(c) \/ ResyncFails(c) \/ Save(c) \/ SaveFails(c)
    \/ ReadAccount(c) \/ Refuse(c) \/ Apply(c) \/ Settle(c) \/ SettleFails(c) \/ Mark(c)

LEMMA BookGrows ==
    ASSUME BookInv, NEW c \in Client, BookSteps(c)
    PROVE  /\ HasAccounts(book) => HasAccounts(book')
           /\ file' \in {file, Broken, book}
           /\ \A d \in Client : d # c =>
                 pc'[d] = pc[d] /\ req'[d] = req[d] /\ from'[d] = from[d]
<1>1. file' \in {file, Broken, book}
  BY DEF BookSteps, Sync, Import, ResyncFails, Save, SaveFails, ReadAccount, Refuse, Apply, Settle, SettleFails, Mark
<1>2. \A d \in Client : d # c => pc'[d] = pc[d] /\ req'[d] = req[d] /\ from'[d] = from[d]
  <2>1. CASE Sync(c) \/ Import(c) \/ Mark(c) \/ Apply(c) \/ ReadAccount(c) \/ Settle(c)
    BY <2>1 DEF BookInv, TypeOK, Sync, Import, Mark, Apply, ReadAccount, Settle, Goto
  <2>2. CASE ResyncFails(c) \/ SaveFails(c) \/ Refuse(c) \/ SettleFails(c) \/ Save(c)
    BY <2>2 DEF BookInv, TypeOK, ResyncFails, SaveFails, Refuse, SettleFails, Save, Done, Goto
  <2> QED
    BY <2>1, <2>2 DEF BookSteps
<1>3. ASSUME HasAccounts(book)
      PROVE  HasAccounts(book')
  <2>1. CanLoad /\ Loaded = book /\ book \in Book
    BY <1>3, FromMemory DEF BookInv, TypeOK
  <2>2. CASE Sync(c) \/ Import(c)
    BY <1>3, <2>1, <2>2, SyncedKeeps, ImportedKeeps, BookAssumption DEF Sync, Import
  <2>3. CASE ResyncFails(c) \/ SaveFails(c) \/ Refuse(c) \/ SettleFails(c) \/ Save(c) \/ ReadAccount(c) \/ Settle(c)
    <3>1. book' = book
      BY <2>1, <2>3 DEF ResyncFails, SaveFails, Refuse, SettleFails, Save, ReadAccount, Settle
    <3> QED
      BY <1>3, <3>1 DEF HasAccounts
  <2>4. CASE Mark(c)
    <3>1. book'.accounts = book.accounts
      BY <2>1, <2>4 DEF Mark, Book
    <3> QED
      BY <1>3, <3>1 DEF HasAccounts
  <2>5. CASE Apply(c)
    <3>1. req[c] \in Request /\ from[c] \in BookAccount /\ from[c].bal >= req[c].amount
      BY <2>5 DEF BookInv, ClientInv, Apply
    <3>2. Moved(book.accounts, req[c], from[c])[req[c].to] \in BookAccount
      BY <2>1, <3>1, BookFields, MovedIs
    <3>3. book'.accounts = Moved(book.accounts, req[c], from[c]) /\ req[c].to \in Account
      BY <2>5, <3>1 DEF Apply, Request
    <3>4. book'.accounts[req[c].to] # NoAccount
      BY <3>2, <3>3, BookAssumption
    <3> QED
      BY <3>3, <3>4 DEF HasAccounts
  <2> QED
    BY <2>2, <2>3, <2>4, <2>5 DEF BookSteps
<1> QED
  BY <1>1, <1>2, <1>3

\* The step of one client, for the settlements of all.
LEMMA OneSettles ==
    ASSUME BatchInv, NEW c \in Client,
           HasAccounts(book) => HasAccounts(book'), file' \in {file, Broken, book},
           \A d \in Client : d # c => pc'[d] = pc[d] /\ req'[d] = req[d] /\ from'[d] = from[d],
           NEW b \in Batch \cup {NoBatch}, batch' = [batch EXCEPT ![c] = b],
           b # NoBatch => SettlesAt(b, pc'[c], req'[c], from'[c], book', file')
    PROVE  BatchInv'
<1>1. batch' \in [Client -> Batch \cup {NoBatch}] /\ batch'[c] = b
  BY DEF BatchInv
<1>2. ASSUME NEW d \in Client, d # c, batch'[d] # NoBatch
      PROVE  SettlesAt(batch'[d], pc'[d], req'[d], from'[d], book', file')
  <2>1. batch'[d] = batch[d] /\ batch[d] # NoBatch
    BY <1>2 DEF BatchInv
  <2>2. SettlesAt(batch[d], pc[d], req[d], from[d], book, file)
    BY <2>1 DEF BatchInv
  <2>3. HasAccounts(book') \/ file' \in {NoFile, Broken} \/ ~HasAccounts(file')
           \/ ~(HasAccounts(book) \/ file \in {NoFile, Broken} \/ ~HasAccounts(file))
    OBVIOUS
  <2> QED
    BY <1>2, <2>1, <2>2, <2>3 DEF SettlesAt
<1>3. \A d \in Client : batch'[d] # NoBatch => SettlesAt(batch'[d], pc'[d], req'[d], from'[d], book', file')
  BY <1>1, <1>2
<1> QED
  BY <1>1, <1>3 DEF BatchInv

\* A step of LedgerBook that leaves the settlement alone.
LEMMA SettlesOn ==
    ASSUME BookInv, BatchInv, NEW c \in Client, batch[c] # NoBatch,
           ResyncFails(c) \/ Save(c) \/ ReadAccount(c) \/ Settle(c) \/ Mark(c) \/ (pc[c] = "saveMark" /\ SaveFails(c))
    PROVE  SettlesAt(batch[c], pc'[c], req'[c], from'[c], book', file')
<1>1. BookSteps(c)
  BY DEF BookSteps
<1>2. (HasAccounts(book) => HasAccounts(book')) /\ file' \in {file, Broken, book}
  BY <1>1, BookGrows
<1>3. SettlesAt(batch[c], pc[c], req[c], from[c], book, file)
  BY DEF BatchInv
<1>4. pc[c] # "idle"
  BY DEF ResyncFails, Save, SaveFails, ReadAccount, Settle, Mark, Saving
<1>5. batch[c].phase # "put"
  BY <1>3, <1>4 DEF SettlesAt
<1>6. HasAccounts(book') \/ file' \in {NoFile, Broken} \/ ~HasAccounts(file')
         \/ ~(HasAccounts(book) \/ file \in {NoFile, Broken} \/ ~HasAccounts(file))
  BY <1>2
<1>7. pc \in [Client -> Saving \cup {"idle", "resync", "read", "apply", "settle", "mark"}]
  BY DEF BookInv, TypeOK
\* After a step that is not the save before a transfer.
<1>8. ASSUME pc'[c] \notin Before, pc[c] \in Before => HasAccounts(book')
      PROVE  SettlesAt(batch[c], pc'[c], req'[c], from'[c], book', file')
  BY <1>2, <1>3, <1>5, <1>6, <1>8 DEF SettlesAt, Before
<1>9. CASE ResyncFails(c) \/ (pc[c] = "saveMark" /\ SaveFails(c))
  <2>1. pc'[c] = "idle" /\ pc[c] \notin Before
    BY <1>7, <1>9 DEF ResyncFails, SaveFails, Done, Goto, Before
  <2> QED
    BY <1>8, <2>1 DEF Before
<1>10. CASE Settle(c) \/ Mark(c)
  <2>1. pc'[c] \in {"mark", "saveMark"} /\ pc[c] \notin Before
    BY <1>7, <1>10 DEF Settle, Mark, Goto, Before
  <2> QED
    BY <1>8, <2>1 DEF Before
<1>11. CASE ReadAccount(c)
  <2>1. pc'[c] = "apply"
    BY <1>7, <1>11 DEF ReadAccount, Goto
  <2>2. book' = Loaded /\ Funds(c) /\ CanLoad /\ req[c] \in Request
    BY <1>11 DEF ReadAccount, BookInv, ClientInv
  <2>3. HasAccounts(book')
    BY <2>2 DEF Funds, HasAccounts, Request
  <2> QED
    BY <1>8, <2>1, <2>3 DEF Before
<1>12. CASE Save(c)
  <2>1. CASE AfterSave(c) = "idle"
    <3>1. pc'[c] = "idle" /\ book' = book
      BY <1>7, <1>12, <2>1 DEF Save, Done, Goto
    <3>2. batch[c].phase \in {"convert", "record"} => pc[c] # "saveSync"
      <4>1. pc[c] = "saveSync" => AfterSave(c) = IF req[c] = NoRequest THEN "idle" ELSE "read"
        BY Zenon DEF AfterSave
      <4> QED
        BY <1>3, <2>1, <4>1 DEF SettlesAt
    <3>3. pc[c] # "read"
      BY <1>12 DEF Save, Saving
    <3> QED
      BY <1>2, <1>3, <1>5, <1>6, <3>1, <3>2, <3>3 DEF SettlesAt, Before
  <2>2. CASE AfterSave(c) # "idle"
    <3>1. pc'[c] = AfterSave(c) /\ book' = book /\ req' = req /\ pc[c] \in Saving
      BY <1>7, <1>12, <2>2 DEF Save, Goto
    <3>2. \/ pc[c] = "saveSync" /\ pc'[c] = "read"
          \/ pc[c] \in {"saveImport", "saveXfer"} /\ pc'[c] \in {"resync", "settle"}
      BY <2>2, <3>1, AfterSaveCases
    <3> QED
      BY <1>2, <1>3, <1>5, <1>6, <3>1, <3>2 DEF SettlesAt, Before
  <2> QED
    BY <2>1, <2>2
<1> QED
  BY <1>9, <1>10, <1>11, <1>12

-----------------------------------------------------------------------------
(* The steps of a settlement between its transfers *)

Kind(c) == UNCHANGED vars \/ Asks(c) \/ Copies(c) \/ PutsBack(c) \/ Saves(c)
Stepped(c) ==
    \E b \in Batch \cup {NoBatch} :
        /\ batch' = [batch EXCEPT ![c] = b]
        /\ b # NoBatch => SettlesAt(b, pc'[c], req'[c], from'[c], book', file')
\* What a settlement is that goes on.
Onward(b) == b.phase \notin {"list", "put", "convert"} /\ (b.phase = "pool" => \A x \in b.left : x.n > 0)
Between(c) == batch[c] # NoBatch /\ pc[c] = "idle"

LEMMA OnwardSettles ==
    ASSUME NEW b, Onward(b), NEW label, label # "saveSync", NEW r, NEW copy, NEW bk, HasAccounts(bk), NEW fl
    PROVE  SettlesAt(b, label, r, copy, bk, fl)
BY DEF Onward, SettlesAt

LEMMA ContinuesTo ==
    ASSUME BookInv, HasAccounts(book), NEW c \in Client, pc[c] = "idle",
           NEW b \in Batch \cup {NoBatch}, Continues(c, b), b # NoBatch => Onward(b)
    PROVE  Kind(c) /\ Stepped(c)
<1>1. UNCHANGED vars /\ batch' = [batch EXCEPT ![c] = b]
  BY DEF Continues
<1>2. pc'[c] = "idle" /\ book' = book
  BY <1>1 DEF vars
<1>3. b # NoBatch => SettlesAt(b, pc'[c], req'[c], from'[c], book', file')
  BY <1>2, OnwardSettles
<1> QED
  BY <1>1, <1>3 DEF Kind, Stepped

LEMMA TransfersTo ==
    ASSUME BookInv, HasAccounts(book), NEW c \in Client, NEW r \in Request,
           NEW b \in Batch \cup {NoBatch}, Transfers(c, r, b), b # NoBatch => Onward(b)
    PROVE  Kind(c) /\ Stepped(c)
<1>1. Asks(c) /\ batch' = [batch EXCEPT ![c] = b]
  BY DEF Transfers, Asks
<1>2. pc'[c] = "read" /\ book' = book
  BY <1>1 DEF Asks, Goto, BookInv, TypeOK
<1>3. b # NoBatch => SettlesAt(b, pc'[c], req'[c], from'[c], book', file')
  BY <1>2, OnwardSettles
<1> QED
  BY <1>1, <1>3 DEF Kind, Stepped

LEMMA SettlesBetween ==
    ASSUME BatchInv, NEW c \in Client, Between(c)
    PROVE  /\ batch[c] \in Batch
           /\ batch[c].phase # "list" => HasAccounts(book)
           /\ batch[c].phase = "list" => HasAccounts(book) \/ file \in {NoFile, Broken} \/ ~HasAccounts(file)
           /\ batch[c].phase = "pool" => \A x \in batch[c].left : x.n > 0
           /\ batch[c].phase = "put" => from[c] \in BookAccount
BY DEF Between, BatchInv, SettlesAt, Before

\* A change of some fields of a settlement.
LEMMA BatchIs ==
    ASSUME NEW b \in Batch
    PROVE  /\ b = [phase |-> b.phase, left |-> b.left, acct |-> b.acct, amount |-> b.amount, pay |-> b.pay]
           /\ b.left \in SUBSET [acct : Account, n : Nat, usd : Nat] /\ b.acct \in Account /\ b.amount \in Nat
           /\ b.pay \in BOOLEAN
BY DEF Batch

LEMMA BatchMade ==
    ASSUME NEW ph \in {"list", "pool", "drain", "eth", "tag", "put", "mint", "send", "record", "convert", "payout"},
           NEW l \in SUBSET [acct : Account, n : Nat, usd : Nat], NEW a \in Account, NEW m \in Nat, NEW e \in BOOLEAN
    PROVE  [phase |-> ph, left |-> l, acct |-> a, amount |-> m, pay |-> e] \in Batch
BY DEF Batch

LEMMA AskedIs ==
    ASSUME SettlementAssumption, NEW f \in Account, NEW t \in Account, NEW n \in Nat \ {0},
           NEW s \in Asset \cup {NoAsset}, NEW e \in BOOLEAN
    PROVE  [from |-> f, to |-> t, amount |-> n, convertTo |-> s, external |-> e] \in Request
BY DEF Request

LEMMA EmptyListed ==
    ASSUME SettlementAssumption, NEW a \in Account
    PROVE  Left(a, 0, 0) \in [acct : Account, n : Nat, usd : Nat]
BY DEF Left

\* What is listed is in memory: the batch has synced it.
LEMMA ListLoads ==
    ASSUME SettlementAssumption, BookInv, BatchInv, NEW c \in Client, Between(c), batch[c].phase = "list",
           CanLoad, FiatAccounts(Loaded) # {}
    PROVE  HasAccounts(book) /\ Loaded = book /\ Loaded \in Book
<1>1. Loaded \in Book
  BY LoadedType DEF BookInv
<1>2. PICK x \in FiatAccounts(Loaded) : TRUE
  OBVIOUS
<1>3. x.acct \in Customer /\ Loaded.accounts[x.acct] \in BookAccount
  BY <1>1, ListedIs
<1>4. HasAccounts(Loaded)
  BY <1>3, BookAssumption DEF HasAccounts, SettlementAssumption
<1>5. HasAccounts(book)
  <2>1. CASE file = NoFile
    BY <1>4, <2>1, EmptyBookType DEF Loaded
  <2>2. CASE file # NoFile
    BY <1>4, <2>2, SettlesBetween DEF Loaded, CanLoad
  <2> QED
    BY <2>1, <2>2
<1> QED
  BY <1>1, <1>5, FromMemory

LEMMA ListSteps ==
    ASSUME SettlementAssumption, BookInv, BatchInv, NEW c \in Client, Between(c), List(c)
    PROVE  Kind(c) /\ Stepped(c)
<1>1. PICK b \in Batch : b = batch[c] /\ b.phase = "list"
  BY SettlesBetween DEF List
<1>2. CASE CanLoad /\ FiatAccounts(Loaded) # {}
  <2>1. Loaded \in Book /\ HasAccounts(book)
    BY <1>1, <1>2, ListLoads DEF List
  <2>2. PICK l : l = FiatAccounts(Loaded)
    OBVIOUS
  <2>3. l \in SUBSET [acct : Account, n : Nat, usd : Nat] /\ \A y \in l : y.n > 0
    BY <2>1, <2>2, ListedIs
  <2>4. PICK d : d = [b EXCEPT !.phase = "pool", !.left = l]
    OBVIOUS
  <2>5. d = [phase |-> "pool", left |-> l, acct |-> b.acct, amount |-> b.amount, pay |-> b.pay]
    <3>1. b = [phase |-> b.phase, left |-> b.left, acct |-> b.acct, amount |-> b.amount, pay |-> b.pay]
      BY BatchIs
    <3> QED
      BY <2>4, <3>1
  <2>6. d \in Batch
    BY <1>1, <2>3, <2>5, BatchIs, BatchMade
  <2>7. Onward(d)
    BY <2>3, <2>5 DEF Onward
  <2>8. Continues(c, d)
    BY <1>1, <1>2, <2>2, <2>4 DEF List
  <2> QED
    BY <2>1, <2>6, <2>7, <2>8, ContinuesTo DEF Between
<1>3. CASE ~(CanLoad /\ FiatAccounts(Loaded) # {})
  <2>1. Continues(c, NoBatch)
    BY <1>3 DEF List
  <2> QED
    BY <2>1 DEF Continues, Kind, Stepped
<1> QED
  BY <1>2, <1>3

LEMMA ToPoolsSteps ==
    ASSUME SettlementAssumption, BookInv, BatchInv, NEW c \in Client, Between(c), ToPools(c)
    PROVE  Kind(c) /\ Stepped(c)
<1>1. PICK b \in Batch : b = batch[c] /\ b.phase = "pool"
  BY SettlesBetween DEF ToPools
<1>2. HasAccounts(book) /\ \A x \in b.left : x.n > 0
  BY <1>1, SettlesBetween
<1>3. /\ b = [phase |-> b.phase, left |-> b.left, acct |-> b.acct, amount |-> b.amount, pay |-> b.pay]
      /\ b.left \in SUBSET [acct : Account, n : Nat, usd : Nat] /\ b.acct \in Account /\ b.amount \in Nat
      /\ b.pay \in BOOLEAN
  BY <1>1, BatchIs
<1>4. CASE b.left # {}
  <2>1. PICK x \in b.left :
          Transfers(c, [Request0 EXCEPT !.from = x.acct, !.to = PoolOf[Route(ClassOf[x.acct])],
                                        !.amount = x.n, !.convertTo = Usd],
                    [b EXCEPT !.left = @ \ {x}, !.amount = @ + x.usd])
    BY <1>1, <1>4 DEF ToPools
  <2>2. x.acct \in Account /\ x.n \in Nat /\ x.usd \in Nat /\ x.n > 0
    BY <1>2, <1>3
  <2>3. PICK d : d = [b EXCEPT !.left = @ \ {x}, !.amount = @ + x.usd]
    OBVIOUS
  <2>4. d = [phase |-> "pool", left |-> b.left \ {x}, acct |-> b.acct, amount |-> b.amount + x.usd, pay |-> b.pay]
    BY <1>1, <1>3, <2>3
  <2>5. d \in Batch /\ Onward(d)
    BY <1>2, <1>3, <2>2, <2>4, BatchMade DEF Onward
  <2>6. PICK r : r = [Request0 EXCEPT !.from = x.acct, !.to = PoolOf[Route(ClassOf[x.acct])],
                                      !.amount = x.n, !.convertTo = Usd]
    OBVIOUS
  <2>7. r = [from |-> x.acct, to |-> PoolOf[Route(ClassOf[x.acct])], amount |-> x.n, convertTo |-> Usd,
             external |-> FALSE]
    BY <2>6 DEF Request0
  <2>8. Usd \in Asset \cup {NoAsset}
    BY DEF SettlementAssumption
  <2>9. r \in Request
    <3>1. PICK t \in Account : t = PoolOf[Route(ClassOf[x.acct])]
      BY RouteIs
    <3>2. x.n \in Nat \ {0}
      BY <2>2
    <3> QED
      BY <2>2, <2>7, <2>8, <3>1, <3>2, AskedIs
  <2> QED
    BY <1>2, <2>1, <2>3, <2>5, <2>6, <2>9, TransfersTo
<1>5. CASE b.left = {}
  <2>1. Continues(c, [b EXCEPT !.phase = "drain", !.amount = OutAmount(@ - EthPart(@), Usd, Usdc),
                               !.left = {Left(PoolOf[k], 0, 0) : k \in Aggregate}])
    BY <1>1, <1>5 DEF ToPools
  <2>2. PICK l : l = {Left(PoolOf[k], 0, 0) : k \in Aggregate}
    OBVIOUS
  <2>3. l \in SUBSET [acct : Account, n : Nat, usd : Nat]
    <3>1. \A k \in Aggregate : PoolOf[k] \in Account
      BY RouteIs DEF SettlementAssumption
    <3> QED
      BY <2>2, <3>1, EmptyListed
  <2>4. PICK m : m = OutAmount(b.amount - EthPart(b.amount), Usd, Usdc)
    OBVIOUS
  <2>5. m \in Nat
    <3>1. b.amount - EthPart(b.amount) \in Nat
      BY <1>3, PartIs
    <3> QED
      BY <2>4, <3>1, OutAmountType DEF SettlementAssumption
  <2>6. PICK d : d = [b EXCEPT !.phase = "drain", !.amount = m, !.left = l]
    OBVIOUS
  <2>7. d = [phase |-> "drain", left |-> l, acct |-> b.acct, amount |-> m, pay |-> b.pay]
    BY <1>3, <2>6
  <2>8. d \in Batch /\ Onward(d)
    BY <1>3, <2>3, <2>5, <2>7, BatchMade DEF Onward
  <2>9. Continues(c, d)
    BY <2>1, <2>2, <2>4, <2>6
  <2> QED
    BY <1>2, <2>8, <2>9, ContinuesTo DEF Between
<1> QED
  BY <1>4, <1>5

LEMMA DrainSteps ==
    ASSUME SettlementAssumption, BookInv, BatchInv, NEW c \in Client, Between(c), Drain(c)
    PROVE  Kind(c) /\ Stepped(c)
<1>1. PICK b \in Batch : b = batch[c] /\ b.phase \in {"drain", "eth"}
  BY SettlesBetween DEF Drain
<1>2. HasAccounts(book) /\ Loaded = book /\ book \in Book
  BY <1>1, SettlesBetween, FromMemory DEF BookInv, TypeOK
<1>3. /\ b = [phase |-> b.phase, left |-> b.left, acct |-> b.acct, amount |-> b.amount, pay |-> b.pay]
      /\ b.left \in SUBSET [acct : Account, n : Nat, usd : Nat] /\ b.acct \in Account /\ b.amount \in Nat
      /\ b.pay \in BOOLEAN
  BY <1>1, BatchIs
<1>4. {UsdcVault, EthVault} \subseteq Account /\ {Usdc, Eth} \subseteq Asset
  BY DEF SettlementAssumption
<1>5. CASE b.phase = "drain" /\ b.left = {} /\ Continues(c, [b EXCEPT !.phase = "tag", !.left = {Left(UsdcVault, 0, 0), Left(EthVault, 0, 0)}])
  <2>1. PICK l : l = {Left(UsdcVault, 0, 0), Left(EthVault, 0, 0)}
    OBVIOUS
  <2>2. l \in SUBSET [acct : Account, n : Nat, usd : Nat]
    BY <1>4, <2>1, EmptyListed
  <2>3. PICK d : d = [b EXCEPT !.phase = "tag", !.left = l]
    OBVIOUS
  <2>4. d = [phase |-> "tag", left |-> l, acct |-> b.acct, amount |-> b.amount, pay |-> b.pay]
    BY <1>3, <2>3
  <2>5. d \in Batch /\ Onward(d)
    BY <1>3, <2>2, <2>4, BatchMade DEF Onward
  <2> QED
    BY <1>2, <1>5, <2>1, <2>3, <2>5, ContinuesTo DEF Between
<1>6. ASSUME NEW x \in b.left, NEW had, had = Balance(Loaded, x.acct), NEW then,
             then = [b EXCEPT !.phase = "eth", !.left = @ \ {x}, !.acct = x.acct],
             IF had - EthPart(had) > 0
             THEN Transfers(c, [Request0 EXCEPT !.from = x.acct, !.to = UsdcVault,
                                                !.amount = had - EthPart(had), !.convertTo = Usdc], then)
             ELSE Continues(c, then)
      PROVE  Kind(c) /\ Stepped(c)
  <2>1. x.acct \in Account
    BY <1>3
  <2>2. had \in Nat /\ EthPart(had) \in Nat /\ EthPart(had) <= had
    BY <1>2, <1>6, <2>1, BalanceIs, PartIs
  <2>3. then = [phase |-> "eth", left |-> b.left \ {x}, acct |-> x.acct, amount |-> b.amount, pay |-> b.pay]
    BY <1>3, <1>6
  <2>4. then \in Batch /\ Onward(then)
    BY <1>3, <2>1, <2>3, BatchMade DEF Onward
  <2>5. CASE had - EthPart(had) > 0
    <3>1. PICK n \in Nat \ {0} : n = had - EthPart(had)
      BY <2>2, <2>5
    <3>2. PICK r : r = [Request0 EXCEPT !.from = x.acct, !.to = UsdcVault, !.amount = had - EthPart(had), !.convertTo = Usdc]
      OBVIOUS
    <3>3. r = [from |-> x.acct, to |-> UsdcVault, amount |-> n, convertTo |-> Usdc, external |-> FALSE]
      BY <3>1, <3>2 DEF Request0
    <3>4. r \in Request
      BY <1>4, <2>1, <3>3, AskedIs
    <3>5. Transfers(c, r, then)
      BY <1>6, <2>5, <3>2
    <3> QED
      BY <1>2, <2>4, <3>4, <3>5, TransfersTo
  <2>6. CASE ~(had - EthPart(had) > 0)
    BY <1>2, <1>6, <2>4, <2>6, ContinuesTo DEF Between
  <2> QED
    BY <2>5, <2>6
<1>7. ASSUME b.phase = "eth", NEW rest, rest = Balance(Loaded, b.acct), NEW then, then = [b EXCEPT !.phase = "drain"],
             IF rest > 0
             THEN Transfers(c, [Request0 EXCEPT !.from = b.acct, !.to = EthVault,
                                                !.amount = rest, !.convertTo = Eth], then)
             ELSE Continues(c, then)
      PROVE  Kind(c) /\ Stepped(c)
  <2>1. rest \in Nat
    BY <1>2, <1>3, <1>7, BalanceIs
  <2>2. then = [phase |-> "drain", left |-> b.left, acct |-> b.acct, amount |-> b.amount, pay |-> b.pay]
    BY <1>3, <1>7
  <2>3. then \in Batch /\ Onward(then)
    BY <1>3, <2>2, BatchMade DEF Onward
  <2>4. CASE rest > 0
    <3>1. PICK r : r = [Request0 EXCEPT !.from = b.acct, !.to = EthVault, !.amount = rest, !.convertTo = Eth]
      OBVIOUS
    <3>2. r = [from |-> b.acct, to |-> EthVault, amount |-> rest, convertTo |-> Eth, external |-> FALSE]
      BY <3>1 DEF Request0
    <3>3. r \in Request
      <4>1. rest \in Nat \ {0}
        BY <2>1, <2>4
      <4> QED
        BY <1>3, <1>4, <3>2, <4>1, AskedIs
    <3>4. Transfers(c, r, then)
      BY <1>7, <2>4, <3>1
    <3> QED
      BY <1>2, <2>3, <3>3, <3>4, TransfersTo
  <2>5. CASE ~(rest > 0)
    BY <1>2, <1>7, <2>3, <2>5, ContinuesTo DEF Between
  <2> QED
    BY <2>4, <2>5
<1> QED
  BY <1>1, <1>5, <1>6, <1>7 DEF Drain

LEMMA TagSteps ==
    ASSUME SettlementAssumption, BookInv, BatchInv, NEW c \in Client, Between(c), Tag(c)
    PROVE  Kind(c) /\ Stepped(c)
<1>1. PICK b \in Batch : b = batch[c] /\ b.phase = "tag"
  BY SettlesBetween DEF Tag
<1>2. HasAccounts(book) /\ Loaded = book /\ book \in Book
  BY <1>1, SettlesBetween, FromMemory DEF BookInv, TypeOK
<1>3. /\ b = [phase |-> b.phase, left |-> b.left, acct |-> b.acct, amount |-> b.amount, pay |-> b.pay]
      /\ b.left \in SUBSET [acct : Account, n : Nat, usd : Nat] /\ b.acct \in Account /\ b.amount \in Nat
      /\ b.pay \in BOOLEAN
  BY BatchIs
<1>4. CASE b.left = {} /\ Continues(c, [b EXCEPT !.phase = "mint", !.acct = UsdcVault])
  <2>1. PICK d : d = [b EXCEPT !.phase = "mint", !.acct = UsdcVault]
    OBVIOUS
  <2>2. d = [phase |-> "mint", left |-> b.left, acct |-> UsdcVault, amount |-> b.amount, pay |-> b.pay]
    BY <1>3, <2>1
  <2>3. UsdcVault \in Account
    BY DEF SettlementAssumption
  <2>4. d \in Batch /\ Onward(d)
    BY <1>3, <2>2, <2>3, BatchMade DEF Onward
  <2> QED
    BY <1>2, <1>4, <2>1, <2>4, ContinuesTo DEF Between
<1>5. ASSUME NEW x \in b.left, Continues(c, [b EXCEPT !.left = @ \ {x}])
      PROVE  Kind(c) /\ Stepped(c)
  <2>1. PICK d : d = [b EXCEPT !.left = @ \ {x}]
    OBVIOUS
  <2>2. d = [phase |-> "tag", left |-> b.left \ {x}, acct |-> b.acct, amount |-> b.amount, pay |-> b.pay]
    BY <1>1, <1>3, <2>1
  <2>3. d \in Batch /\ Onward(d)
    BY <1>3, <2>2, BatchMade DEF Onward
  <2> QED
    BY <1>2, <1>5, <2>1, <2>3, ContinuesTo DEF Between
<1>6. ASSUME NEW x \in b.left, Loaded.accounts[x.acct] # NoAccount,
             from' = [from EXCEPT ![c] = Loaded.accounts[x.acct]],
             batch' = [batch EXCEPT ![c] = [b EXCEPT !.phase = "put", !.left = @ \ {x}, !.acct = x.acct]],
             UNCHANGED <<book, file, pc, req, rec, paid, next, unsaved>>
      PROVE  Kind(c) /\ Stepped(c)
  <2>1. x.acct \in Account
    BY <1>3
  <2>2. Copies(c)
    BY <1>2, <1>6, <2>1 DEF Copies
  <2>3. from'[c] \in BookAccount
    BY <2>2, CopiesInv DEF Between
  <2>4. PICK d : d = [b EXCEPT !.phase = "put", !.left = @ \ {x}, !.acct = x.acct]
    OBVIOUS
  <2>5. d = [phase |-> "put", left |-> b.left \ {x}, acct |-> x.acct, amount |-> b.amount, pay |-> b.pay]
    BY <1>3, <2>4
  <2>6. d \in Batch
    BY <1>3, <2>1, <2>5, BatchMade
  <2>7. pc'[c] = "idle" /\ book' = book
    BY <1>6 DEF Between
  <2>8. SettlesAt(d, pc'[c], req'[c], from'[c], book', file')
    BY <1>2, <2>3, <2>5, <2>7 DEF SettlesAt, Before
  <2> QED
    BY <1>6, <2>2, <2>4, <2>6, <2>8 DEF Kind, Stepped
<1> QED
  BY <1>1, <1>4, <1>5, <1>6 DEF Tag

LEMMA PutSteps ==
    ASSUME SettlementAssumption, BookInv, BatchInv, NEW c \in Client, Between(c), Put(c)
    PROVE  Kind(c) /\ Stepped(c)
<1>1. PICK b \in Batch : b = batch[c] /\ b.phase = "put"
  BY SettlesBetween DEF Put
<1>2. HasAccounts(book) /\ from[c] \in BookAccount
  BY <1>1, SettlesBetween
<1>3. /\ b = [phase |-> b.phase, left |-> b.left, acct |-> b.acct, amount |-> b.amount, pay |-> b.pay]
      /\ b.left \in SUBSET [acct : Account, n : Nat, usd : Nat] /\ b.acct \in Account /\ b.amount \in Nat
      /\ b.pay \in BOOLEAN
  BY BatchIs
<1>4. PICK entry : entry = [from[c] EXCEPT !.asset = TagAsset(b.acct)]
  OBVIOUS
<1>5. entry \in BookAccount
  <2>1. TagAsset(b.acct) \in Asset
    BY DEF TagAsset, SettlementAssumption
  <2> QED
    BY <1>2, <1>4, <2>1 DEF BookAccount
<1>6. /\ book' = [book EXCEPT !.accounts[b.acct] = entry] /\ from' = [from EXCEPT ![c] = NoAccount]
      /\ batch' = [batch EXCEPT ![c] = IF b.acct = MintVault THEN [b EXCEPT !.phase = "send", !.acct = UsdcVault]
                                       ELSE [b EXCEPT !.phase = "tag"]]
      /\ pc' = [pc EXCEPT ![c] = IF b.acct = MintVault THEN "saveMark" ELSE @]
      /\ UNCHANGED <<file, req, rec, paid, next, unsaved>>
  BY <1>1, <1>4 DEF Put
<1>7. PutsBack(c)
  <2>1. Goto(c, "saveMark") \/ pc' = pc
    BY <1>6 DEF Goto, BookInv, TypeOK
  <2> QED
    BY <1>3, <1>5, <1>6, <2>1 DEF PutsBack
<1>8. HasAccounts(book')
  BY <1>2, <1>7, PutsBackInv DEF Between
<1>9. pc'[c] \in {"idle", "saveMark"}
  BY <1>6 DEF Between, BookInv, TypeOK
<1>10. ASSUME NEW ph \in {"send", "tag"}, NEW a \in Account,
              NEW d, d = [phase |-> ph, left |-> b.left, acct |-> a, amount |-> b.amount, pay |-> b.pay],
              batch' = [batch EXCEPT ![c] = d]
       PROVE  Kind(c) /\ Stepped(c)
  <2>1. d \in Batch /\ Onward(d)
    BY <1>3, <1>10, BatchMade DEF Onward
  <2>2. SettlesAt(d, pc'[c], req'[c], from'[c], book', file')
    BY <1>8, <1>9, <2>1, OnwardSettles
  <2> QED
    BY <1>7, <1>10, <2>1, <2>2 DEF Kind, Stepped
<1>11. CASE b.acct = MintVault
  <2>1. PICK d : d = [b EXCEPT !.phase = "send", !.acct = UsdcVault]
    OBVIOUS
  <2>2. d = [phase |-> "send", left |-> b.left, acct |-> UsdcVault, amount |-> b.amount, pay |-> b.pay]
    BY <1>3, <2>1
  <2>3. UsdcVault \in Account
    BY DEF SettlementAssumption
  <2> QED
    BY <1>6, <1>10, <1>11, <2>1, <2>2, <2>3
<1>12. CASE b.acct # MintVault
  <2>1. PICK d : d = [b EXCEPT !.phase = "tag"]
    OBVIOUS
  <2>2. d = [phase |-> "tag", left |-> b.left, acct |-> b.acct, amount |-> b.amount, pay |-> b.pay]
    BY <1>3, <2>1
  <2> QED
    BY <1>3, <1>6, <1>10, <1>12, <2>1, <2>2
<1> QED
  BY <1>11, <1>12

LEMMA MintSteps ==
    ASSUME SettlementAssumption, BookInv, BatchInv, NEW c \in Client, Between(c), MintStable(c)
    PROVE  Kind(c) /\ Stepped(c)
<1>1. PICK b \in Batch : b = batch[c] /\ b.phase = "mint"
  BY SettlesBetween DEF MintStable
<1>2. HasAccounts(book)
  BY <1>1, SettlesBetween
<1>3. /\ b = [phase |-> b.phase, left |-> b.left, acct |-> b.acct, amount |-> b.amount, pay |-> b.pay]
      /\ b.left \in SUBSET [acct : Account, n : Nat, usd : Nat] /\ b.acct \in Account /\ b.amount \in Nat
      /\ b.pay \in BOOLEAN
  BY BatchIs
<1>4. {UsdcVault, MintVault} \subseteq Account
  BY DEF SettlementAssumption
<1>5. CASE b.amount > 0 /\ Transfers(c, [Request0 EXCEPT !.amount = b.amount],
                                     [b EXCEPT !.phase = "tag", !.left = {Left(MintVault, 0, 0)}])
  <2>1. PICK d : d = [b EXCEPT !.phase = "tag", !.left = {Left(MintVault, 0, 0)}]
    OBVIOUS
  <2>2. d = [phase |-> "tag", left |-> {Left(MintVault, 0, 0)}, acct |-> b.acct, amount |-> b.amount, pay |-> b.pay]
    BY <1>3, <2>1
  <2>3. {Left(MintVault, 0, 0)} \in SUBSET [acct : Account, n : Nat, usd : Nat]
    BY <1>4, EmptyListed
  <2>4. d \in Batch /\ Onward(d)
    BY <1>3, <2>2, <2>3, BatchMade DEF Onward
  <2>5. PICK r : r = [Request0 EXCEPT !.amount = b.amount]
    OBVIOUS
  <2>6. r = [from |-> UsdcVault, to |-> MintVault, amount |-> b.amount, convertTo |-> NoAsset, external |-> FALSE]
    BY <2>5 DEF Request0
  <2>7. b.amount \in Nat \ {0}
    BY <1>3, <1>5
  <2>8. r \in Request
    BY <1>4, <2>6, <2>7, AskedIs
  <2> QED
    BY <1>2, <1>5, <2>1, <2>4, <2>5, <2>8, TransfersTo
<1>6. CASE Continues(c, [b EXCEPT !.phase = "send"])
  <2>1. PICK d : d = [b EXCEPT !.phase = "send"]
    OBVIOUS
  <2>2. d = [phase |-> "send", left |-> b.left, acct |-> b.acct, amount |-> b.amount, pay |-> b.pay]
    BY <1>3, <2>1
  <2>3. d \in Batch /\ Onward(d)
    BY <1>3, <2>2, BatchMade DEF Onward
  <2> QED
    BY <1>2, <1>6, <2>1, <2>3, ContinuesTo DEF Between
<1> QED
  BY <1>1, <1>5, <1>6 DEF MintStable

LEMMA PayOutSteps ==
    ASSUME SettlementAssumption, BookInv, BatchInv, NEW c \in Client, Between(c), PayOut(c)
    PROVE  Kind(c) /\ Stepped(c)
<1>1. PICK b \in Batch : b = batch[c] /\ b.phase \in {"send", "payout"}
  BY SettlesBetween DEF PayOut
<1>2. HasAccounts(book)
  BY <1>1, SettlesBetween
<1>3. /\ b = [phase |-> b.phase, left |-> b.left, acct |-> b.acct, amount |-> b.amount, pay |-> b.pay]
      /\ b.left \in SUBSET [acct : Account, n : Nat, usd : Nat] /\ b.acct \in Account /\ b.amount \in Nat
      /\ b.pay \in BOOLEAN
  BY BatchIs
<1>4. PICK then : then = IF b.phase = "send" THEN [b EXCEPT !.phase = "record"] ELSE NoBatch
  OBVIOUS
<1>5. then \in Batch \cup {NoBatch} /\ (then # NoBatch => Onward(then))
  <2>1. CASE b.phase = "send"
    <3>1. PICK d : d = [b EXCEPT !.phase = "record"]
      OBVIOUS
    <3>2. d = [phase |-> "record", left |-> b.left, acct |-> b.acct, amount |-> b.amount, pay |-> b.pay]
      BY <1>3, <3>1
    <3>3. d \in Batch /\ Onward(d)
      BY <1>3, <3>2, BatchMade DEF Onward
    <3> QED
      BY <1>4, <2>1, <3>1, <3>3
  <2> QED
    BY <1>4, <2>1
<1>6. CASE b.pay /\ b.amount > 0
  <2>1. PICK r : r = [Request0 EXCEPT !.from = b.acct, !.to = Receiver, !.amount = b.amount,
                                      !.convertTo = IF b.acct = UsdcVault THEN Usdc ELSE NoAsset, !.external = TRUE]
    OBVIOUS
  <2>2. r = [from |-> b.acct, to |-> Receiver, amount |-> b.amount,
             convertTo |-> IF b.acct = UsdcVault THEN Usdc ELSE NoAsset, external |-> TRUE]
    BY <2>1 DEF Request0
  <2>3. b.amount \in Nat \ {0} /\ Receiver \in Account /\ Usdc \in Asset
    BY <1>3, <1>6 DEF SettlementAssumption
  <2>4. PICK s \in Asset \cup {NoAsset} : s = IF b.acct = UsdcVault THEN Usdc ELSE NoAsset
    BY <2>3
  <2>5. r \in Request
    BY <1>3, <2>2, <2>3, <2>4, AskedIs
  <2>6. Transfers(c, r, then)
    BY <1>1, <1>4, <1>6, <2>1 DEF PayOut
  <2> QED
    BY <1>2, <1>5, <2>5, <2>6, TransfersTo
<1>7. CASE ~(b.pay /\ b.amount > 0)
  <2>1. Continues(c, then)
    BY <1>1, <1>4, <1>7 DEF PayOut
  <2> QED
    BY <1>2, <1>5, <2>1, ContinuesTo DEF Between
<1> QED
  BY <1>6, <1>7

LEMMA RecordSteps ==
    ASSUME BookInv, BatchInv, NEW c \in Client, Between(c), RecordIt(c)
    PROVE  Kind(c) /\ Stepped(c)
BY DEF RecordIt, SavesAnd, Saves, Kind, Stepped

LEMMA BetweenSteps ==
    ASSUME SettlementAssumption, BookInv, BatchInv, NEW c \in Client, BatchStep(c)
    PROVE  Kind(c) /\ Stepped(c) /\ Between(c)
<1>1. Between(c)
  BY DEF BatchStep, Between
<1> QED
  BY <1>1, ListSteps, ToPoolsSteps, DrainSteps, TagSteps, PutSteps, MintSteps, PayOutSteps, RecordSteps DEF BatchStep

LEMMA KindInv ==
    ASSUME BookInv, BatchInv, NEW c \in Client, Between(c), Kind(c), Stepped(c)
    PROVE  BookInv' /\ BatchInv'
<1>1. pc[c] = "idle"
  BY DEF Between
<1>2. BookInv'
  <2>1. CASE UNCHANGED vars
    BY <2>1 DEF vars, BookInv, TypeOK, ClientInv
  <2> QED
    BY <1>1, <2>1, AsksInv, CopiesInv, PutsBackInv, SavesInv DEF Kind
<1>3. HasAccounts(book) => HasAccounts(book')
  <2>1. CASE PutsBack(c)
    BY <1>1, <2>1, PutsBackInv
  <2>2. CASE book' = book
    BY <2>2 DEF HasAccounts
  <2> QED
    BY <2>1, <2>2 DEF Kind, vars, Asks, Copies, Saves
<1>4. file' = file
  BY DEF Kind, vars, Asks, Copies, PutsBack, Saves
<1>5. \A d \in Client : d # c => pc'[d] = pc[d] /\ req'[d] = req[d] /\ from'[d] = from[d]
  BY DEF Kind, vars, Asks, Copies, PutsBack, Saves, Goto, BookInv, TypeOK
<1>6. PICK b \in Batch \cup {NoBatch} :
         /\ batch' = [batch EXCEPT ![c] = b]
         /\ b # NoBatch => SettlesAt(b, pc'[c], req'[c], from'[c], book', file')
  BY DEF Stepped
<1> QED
  BY <1>2, <1>3, <1>4, <1>5, <1>6, OneSettles

-----------------------------------------------------------------------------
(* The steps of settlements *)

LEMMA AppliedHas ==
    ASSUME BookInv, NEW c \in Client, Apply(c)
    PROVE  HasAccounts(book') /\ pc'[c] = "saveXfer"
<1>1. /\ req[c] \in Request /\ from[c] \in BookAccount /\ from[c].bal >= req[c].amount
      /\ book \in Book /\ pc'[c] = "saveXfer"
  BY DEF BookInv, TypeOK, ClientInv, Apply, Goto
<1>2. Moved(book.accounts, req[c], from[c])[req[c].to] \in BookAccount
  BY <1>1, BookFields, MovedIs
<1>3. book'.accounts = Moved(book.accounts, req[c], from[c]) /\ req[c].to \in Account
  BY <1>1 DEF Apply, Request
<1>4. book'.accounts[req[c].to] # NoAccount
  BY <1>2, <1>3, BookAssumption
<1> QED
  BY <1>1, <1>3, <1>4 DEF HasAccounts

LEMMA BeginsInv ==
    ASSUME SettlementAssumption, BookInv, BatchInv, NEW c \in Client, BatchBegin(c)
    PROVE  BatchInv'
<1>1. Sync(c) /\ BookSteps(c)
  BY DEF BatchBegin, BookSteps
<1>2. /\ HasAccounts(book) => HasAccounts(book')
      /\ file' \in {file, Broken, book}
      /\ \A d \in Client : d # c => pc'[d] = pc[d] /\ req'[d] = req[d] /\ from'[d] = from[d]
  BY <1>1, BookGrows
<1>3. pc'[c] = "saveSync" /\ file' = file
  BY <1>1 DEF Sync, Goto, BookInv, TypeOK
<1>4. HasAccounts(book') \/ file' \in {NoFile, Broken} \/ ~HasAccounts(file')
  <2>1. SUFFICES ASSUME file \notin {NoFile, Broken}, HasAccounts(file)
                 PROVE  HasAccounts(book')
    BY <1>3
  <2>2. HasAccounts(Loaded)
    BY <2>1 DEF Loaded
  <2>3. Loaded \in Book
    BY <1>1, LoadedType DEF BookInv, Sync
  <2>4. PICK snap \in Snapshots : book' = Synced(Loaded, snap)
    BY <1>1 DEF Sync
  <2>5. snap \in Accounts
    BY <2>4, BookAssumption
  <2> QED
    BY <2>2, <2>3, <2>4, <2>5, SyncedKeeps
<1>5. PICK pay \in BOOLEAN :
         batch' = [batch EXCEPT ![c] =
              [phase |-> IF req'[c] = NoRequest THEN "list"
                         ELSE IF pay /\ ~req'[c].external THEN "convert" ELSE "record",
               left |-> {}, acct |-> UsdcVault, amount |-> 0, pay |-> pay]]
  BY DEF BatchBegin
<1>6. PICK ph : ph = IF req'[c] = NoRequest THEN "list"
                     ELSE IF pay /\ ~req'[c].external THEN "convert" ELSE "record"
  OBVIOUS
<1>7. ph \in {"list", "convert", "record"} /\ (ph # "list" => req'[c] # NoRequest)
  BY <1>6
<1>8. PICK b : b = [phase |-> ph, left |-> {}, acct |-> UsdcVault, amount |-> 0, pay |-> pay]
  OBVIOUS
<1>9. b \in Batch
  <2>1. UsdcVault \in Account /\ {} \in SUBSET [acct : Account, n : Nat, usd : Nat] /\ 0 \in Nat
    BY DEF SettlementAssumption
  <2> QED
    BY <1>7, <1>8, <2>1, BatchMade
<1>10. SettlesAt(b, pc'[c], req'[c], from'[c], book', file')
  BY <1>3, <1>4, <1>7, <1>8 DEF SettlesAt, Before
<1>11. batch' = [batch EXCEPT ![c] = b]
  BY <1>5, <1>6, <1>8
<1> QED
  BY <1>2, <1>9, <1>10, <1>11, OneSettles

LEMMA ConvertsTo ==
    ASSUME BookInv, BatchInv, NEW c \in Client, Apply(c), Converts(c)
    PROVE  Stepped(c)
<1>1. HasAccounts(book') /\ pc'[c] = "saveXfer"
  BY AppliedHas
<1>2. batch \in [Client -> Batch \cup {NoBatch}]
  BY DEF BatchInv
<1>3. CASE batch[c] = NoBatch
  <2>1. batch' = [batch EXCEPT ![c] = NoBatch]
    BY <1>2, <1>3 DEF Converts
  <2> QED
    BY <2>1 DEF Stepped
<1>4. CASE batch[c] # NoBatch /\ batch[c].phase # "convert"
  <2>1. batch' = [batch EXCEPT ![c] = batch[c]] /\ batch[c] \in Batch
    BY <1>2, <1>4 DEF Converts
  <2>2. SettlesAt(batch[c], pc[c], req[c], from[c], book, file) /\ pc[c] = "apply"
    BY <1>4 DEF BatchInv, Apply
  <2>3. SettlesAt(batch[c], pc'[c], req'[c], from'[c], book', file')
    BY <1>1, <1>4, <2>2 DEF SettlesAt, Before
  <2> QED
    BY <2>1, <2>3 DEF Stepped
<1>5. CASE batch[c] # NoBatch /\ batch[c].phase = "convert"
  <2>1. PICK b \in Batch : b = batch[c]
    BY <1>2, <1>5
  <2>2. /\ b = [phase |-> b.phase, left |-> b.left, acct |-> b.acct, amount |-> b.amount, pay |-> b.pay]
        /\ b.left \in SUBSET [acct : Account, n : Nat, usd : Nat] /\ b.pay \in BOOLEAN
    BY BatchIs
  <2>3. req[c] \in Request /\ from[c] \in BookAccount
    BY DEF BookInv, ClientInv, Apply
  <2>4. PICK n : n = OutAmount(req[c].amount, from[c].asset, OutAsset(req[c], from[c]))
    OBVIOUS
  <2>5. n \in Nat /\ req[c].to \in Account
    <3>1. req[c].to \in Account /\ req[c].amount \in Nat /\ from[c].asset \in Asset
          /\ OutAsset(req[c], from[c]) \in Asset
      BY <2>3 DEF Request, BookAccount, OutAsset
    <3> QED
      BY <2>4, <3>1, OutAmountType
  <2>6. PICK d : d = [b EXCEPT !.phase = "payout", !.acct = req[c].to, !.amount = n]
    OBVIOUS
  <2>7. d \in Batch /\ Onward(d)
    <3>1. d = [phase |-> "payout", left |-> b.left, acct |-> req[c].to, amount |-> n, pay |-> b.pay]
      BY <2>2, <2>6
    <3> QED
      BY <2>2, <2>5, <3>1, BatchMade DEF Onward
  <2>8. batch' = [batch EXCEPT ![c] = d]
    <3>1. batch' = [batch EXCEPT ![c].phase = "payout", ![c].acct = req[c].to, ![c].amount = n]
      BY <1>5, <2>4 DEF Converts
    <3> QED
      BY <1>2, <2>1, <2>6, <3>1
  <2>9. SettlesAt(d, pc'[c], req'[c], from'[c], book', file')
    BY <1>1, <2>7, OnwardSettles
  <2> QED
    BY <2>7, <2>8, <2>9 DEF Stepped
<1> QED
  BY <1>3, <1>4, <1>5

LEMMA BookStepped ==
    ASSUME SettlementAssumption, BookInv, BatchInv, NEW c \in Client, BookStep(c)
    PROVE  BookSteps(c) /\ Stepped(c)
<1>1. batch \in [Client -> Batch \cup {NoBatch}]
  BY DEF BatchInv
<1>2. CASE batch[c] = NoBatch /\ (Sync(c) \/ Import(c)) /\ UNCHANGED batch
  <2>1. batch' = [batch EXCEPT ![c] = NoBatch]
    BY <1>1, <1>2
  <2> QED
    BY <1>2, <2>1 DEF BookSteps, Stepped
<1>3. CASE /\ \/ ResyncFails(c) \/ Save(c) \/ ReadAccount(c) \/ Settle(c) \/ Mark(c)
              \/ pc[c] = "saveMark" /\ SaveFails(c)
           /\ UNCHANGED batch
  <2>1. batch' = [batch EXCEPT ![c] = batch[c]] /\ batch[c] \in Batch \cup {NoBatch}
    BY <1>1, <1>3
  <2>2. batch[c] # NoBatch => SettlesAt(batch[c], pc'[c], req'[c], from'[c], book', file')
    BY <1>3, SettlesOn
  <2> QED
    BY <1>3, <2>1, <2>2 DEF BookSteps, Stepped
<1>4. CASE Apply(c) /\ Converts(c)
  BY <1>4, ConvertsTo DEF BookSteps
<1>5. CASE (Refuse(c) \/ SettleFails(c) \/ SaveFails(c)) /\ Ends(c)
  BY <1>5 DEF BookSteps, Stepped, Ends
<1> QED
  BY <1>2, <1>3, <1>4, <1>5 DEF BookStep

OwnKind(c) == Between(c) /\ HasAccounts(book) /\ (Asks(c) \/ Copies(c) \/ PutsBack(c) \/ Saves(c))

\* For the book, a step is one of LedgerBook or of one of the four kinds.
LEMMA SettlementKinds ==
    ASSUME SettlementAssumption, BookInv, BatchInv, [SettlementNext]_settlementVars
    PROVE  [Next]_vars \/ \E c \in Client : OwnKind(c)
<1>1. ASSUME NEW c \in Client, BatchBegin(c) \/ BookStep(c)
      PROVE  Next
  BY <1>1 DEF BatchBegin, BookStep, Next
<1>2. ASSUME NEW c \in Client, BatchStep(c)
      PROVE  UNCHANGED vars \/ OwnKind(c)
  <2>1. Kind(c) /\ Between(c)
    BY <1>2, BetweenSteps
  <2>2. CASE batch[c].phase = "list"
    BY <1>2, <2>2 DEF BatchStep, List, ToPools, Drain, Tag, Put, MintStable, PayOut, RecordIt, Continues
  <2>3. CASE batch[c].phase # "list"
    BY <2>1, <2>3, SettlesBetween DEF Kind, OwnKind
  <2> QED
    BY <2>2, <2>3
<1> QED
  BY <1>1, <1>2 DEF SettlementNext, settlementVars, Next

LEMMA SettlementStep ==
    ASSUME SettlementAssumption, BookInv, BatchInv, [SettlementNext]_settlementVars
    PROVE  BookInv' /\ BatchInv'
<1>1. ASSUME NEW c \in Client, BatchBegin(c)
      PROVE  BookInv' /\ BatchInv'
  <2>1. Next
    BY <1>1 DEF BatchBegin, Next
  <2> QED
    BY <1>1, <2>1, StepInv, BeginsInv
<1>2. ASSUME NEW c \in Client, BatchStep(c)
      PROVE  BookInv' /\ BatchInv'
  BY <1>2, BetweenSteps, KindInv
<1>3. ASSUME NEW c \in Client, BookStep(c)
      PROVE  BookInv' /\ BatchInv'
  <2>1. BookSteps(c) /\ Stepped(c)
    BY <1>3, BookStepped
  <2>2. Next
    BY <2>1 DEF BookSteps, Next
  <2>3. PICK b \in Batch \cup {NoBatch} :
           /\ batch' = [batch EXCEPT ![c] = b]
           /\ b # NoBatch => SettlesAt(b, pc'[c], req'[c], from'[c], book', file')
    BY <2>1 DEF Stepped
  <2>4. /\ HasAccounts(book) => HasAccounts(book')
        /\ file' \in {file, Broken, book}
        /\ \A d \in Client : d # c => pc'[d] = pc[d] /\ req'[d] = req[d] /\ from'[d] = from[d]
    BY <2>1, BookGrows
  <2> QED
    BY <2>2, <2>3, <2>4, StepInv, OneSettles
<1>4. CASE Stop /\ batch' = [c \in Client |-> NoBatch]
  BY <1>4, StopInv DEF BatchInv
<1>5. CASE UNCHANGED settlementVars
  <2>1. UNCHANGED vars /\ batch' = batch
    BY <1>5 DEF settlementVars
  <2>2. BookInv'
    BY <2>1, StepInv
  <2>3. UNCHANGED <<book, file, pc, req, from>>
    BY <2>1 DEF vars
  <2> QED
    BY <2>1, <2>2, <2>3 DEF BatchInv, SettlesAt, HasAccounts
<1> QED
  BY <1>1, <1>2, <1>3, <1>4, <1>5 DEF SettlementNext

LEMMA SettlementStarts ==
    ASSUME SettlementInit
    PROVE  BookInv /\ BatchInv
BY InitInv DEF SettlementInit, BatchInv

LEMMA SettlementInvariance ==
    ASSUME SettlementAssumption
    PROVE  SettlementSpec => [](BookInv /\ BatchInv)
<1>1. BookInv /\ BatchInv /\ [SettlementNext]_settlementVars => BookInv' /\ BatchInv'
  BY SettlementStep
<1>2. SettlementInit => BookInv /\ BatchInv
  BY SettlementStarts
<1> QED
  BY <1>1, <1>2, PTL DEF SettlementSpec

\* Whatever a settlement goes through, no step of it leaves its types: the
\* account it puts back is one it has copied, what it asks for is never empty,
\* and no transfer of it overdraws an account, with any number of clients.
THEOREM SettlementTypes ==
    ASSUME SettlementAssumption
    PROVE  SettlementSpec => [](TypeOK /\ batch \in [Client -> Batch \cup {NoBatch}])
<1>1. BookInv /\ BatchInv => TypeOK /\ batch \in [Client -> Batch \cup {NoBatch}]
  BY DEF BookInv, BatchInv
<1> QED
  BY <1>1, SettlementInvariance, PTL

-----------------------------------------------------------------------------
(* The records of settlements *)

\* The four kinds leave the records alone.
LEMMA KindKeepsRecords ==
    ASSUME BookInv, NEW c \in Client, OwnKind(c)
    PROVE  /\ file' = file /\ rec' = rec /\ paid' = paid /\ next' = next
           /\ book'.transfers = book.transfers /\ HasAccounts(book)
           /\ pc'[c] \notin {"saveXfer", "settle", "mark"} /\ \A d \in Client : d # c => pc'[d] = pc[d]
<1>1. pc[c] = "idle" /\ HasAccounts(book)
  BY DEF OwnKind, Between
<1>2. CASE Asks(c) \/ Copies(c) \/ Saves(c)
  BY <1>1, <1>2 DEF Asks, Copies, Saves, Goto, BookInv, TypeOK
<1>3. CASE PutsBack(c)
  BY <1>1, <1>3, PutsBackInv DEF PutsBack, Goto, BookInv, TypeOK
<1> QED
  BY <1>2, <1>3 DEF OwnKind

LEMMA KindRecords ==
    ASSUME OneAtATime, BookInv, RecordInv, NEW c \in Client, OwnKind(c)
    PROVE  RecordInv'
<1>1. /\ file' = file /\ rec' = rec /\ paid' = paid /\ next' = next
      /\ book'.transfers = book.transfers /\ HasAccounts(book)
      /\ pc'[c] \notin {"saveXfer", "settle", "mark"}
  BY KindKeepsRecords
<1>2. Recorded(book'.transfers, paid', next')
  BY <1>1 DEF RecordInv
<1>3. \A d \in Client : d = c
  BY DEF OneAtATime
<1> QED
  BY <1>1, <1>2, <1>3 DEF RecordInv

\* Where settlements and other requests do not overlap, every payment that went
\* out is in the file, whatever write failed and wherever the process stopped,
\* also within a batch, whose steps between its transfers save nothing.
THEOREM SettledPaymentsAreRecorded ==
    ASSUME SettlementAssumption, OneAtATime
    PROVE  SettlementSpec => []PaidIsRecorded
<1>1. SettlementInit => RecordInv
  <2> SUFFICES ASSUME SettlementInit PROVE RecordInv
    OBVIOUS
  <2>1. file = NoFile /\ paid = {} /\ ~HasAccounts(book) /\ \A c \in Client : pc[c] = "idle"
    BY EmptyBookType DEF SettlementInit, Init
  <2> QED
    BY <2>1 DEF RecordInv
<1>2. BookInv /\ BatchInv /\ RecordInv /\ [SettlementNext]_settlementVars => RecordInv'
  BY SettlementKinds, RecordStep, KindRecords
<1>3. RecordInv => PaidIsRecorded
  BY DEF RecordInv, Recorded, PaidIsRecorded
<1> QED
  BY <1>1, <1>2, <1>3, SettlementInvariance, PTL DEF SettlementSpec

LEMMA KindHonest ==
    ASSUME BookInv, HonestInv, NEW c \in Client, OwnKind(c)
    PROVE  HonestInv'
<1>1. /\ file' = file /\ rec' = rec /\ paid' = paid
      /\ book'.transfers = book.transfers
      /\ pc'[c] \notin {"saveXfer", "settle", "mark"} /\ \A d \in Client : d # c => pc'[d] = pc[d]
  BY KindKeepsRecords
<1> QED
  BY <1>1 DEF HonestInv, AllOnChain, OnChain

\* No record claims a payment on a chain that was not made, however many
\* settlements overlap with each other and with other requests.
THEOREM NoSettlementMadeUp ==
    ASSUME SettlementAssumption
    PROVE  SettlementSpec => []OnChainIsPaid
<1>1. SettlementInit => HonestInv
  BY DEF SettlementInit, Init, EmptyBook, HonestInv, AllOnChain
<1>2. BookInv /\ BatchInv /\ HonestInv /\ [SettlementNext]_settlementVars => HonestInv'
  BY SettlementKinds, HonestStep, KindHonest
<1>3. HonestInv => OnChainIsPaid
  BY DEF HonestInv, AllOnChain, OnChain, OnChainIsPaid
<1> QED
  BY <1>1, <1>2, <1>3, SettlementInvariance, PTL DEF SettlementSpec

-----------------------------------------------------------------------------
(* What a batch takes out of the pools, of a customer's money on.  The     *)
(* invariant says, for each phase, what the batch has still to move and     *)
(* what it has moved; while a transfer is ahead, it says so of the accounts *)
(* this transfer will leave if it is made.                                  *)

AggPools == {PoolOf[k] : k \in Aggregate}
Vaults == {UsdcVault, EthVault}
Held(accts, a) == IF accts[a] = NoAccount THEN 0 ELSE accts[a].bal
InPools(accts, S) == SumFunctionOnSet([a \in Account |-> Held(accts, a)], S)
Rest(n) == n - EthPart(n)
ToDrain(left) == {a \in AggPools : Left(a, 0, 0) \in left}

\* A pool holds dollars, and one no class is routed to is never made.
PoolsIn(accts) ==
    \A a \in Pools : accts[a] # NoAccount => a \in AggPools /\ accts[a].asset = Usd
PaysPools(r) == r.to \in Pools => r.to \in AggPools /\ r.convertTo = Usd

FiatGone(accts) == \A a \in Customer : Held(accts, a) > 0 => accts[a].asset \notin Fiat
Drained(accts, amount) ==
    /\ FiatGone(accts) /\ \A a \in AggPools : Held(accts, a) = 0
    /\ amount <= Held(accts, UsdcVault)

\* What is listed is still there, as it was listed, and nothing else.
Listed(x, accts) ==
    /\ x.acct \in Customer /\ Held(accts, x.acct) = x.n /\ x.n > 0 /\ accts[x.acct].asset \in Fiat
    /\ x.usd = OutAmount(x.n, accts[x.acct].asset, Usd)
ListGoal(b, accts) ==
    /\ \A x \in b.left : Listed(x, accts)
    /\ \A a \in Customer : Held(accts, a) > 0 /\ accts[a].asset \in Fiat => \E x \in b.left : x.acct = a
    /\ b.amount <= InPools(accts, AggPools)

\* The vault has the amount already, or will have it from the pools that are left.
DrainGoal(b, accts, busy) ==
    /\ FiatGone(accts) /\ b.left \subseteq {Left(a, 0, 0) : a \in AggPools}
    /\ \A a \in AggPools : a \notin ToDrain(b.left) \cup busy => Held(accts, a) = 0
    /\ b.amount <= Held(accts, UsdcVault) + Rest(InPools(accts, ToDrain(b.left)))

TagsVaults(b, accts) ==
    b.left \subseteq {Left(a, 0, 0) : a \in Vaults} /\ Drained(accts, b.amount)

Goal(b, accts) ==
    /\ b.phase = "pool" => ListGoal(b, accts)
    /\ b.phase = "drain" => DrainGoal(b, accts, {})
    /\ b.phase = "eth" => b.acct \in AggPools \ ToDrain(b.left) /\ DrainGoal(b, accts, {b.acct})
    /\ b.phase = "tag" =>
          \/ TagsVaults(b, accts)
          \/ b.left = {Left(MintVault, 0, 0)} /\ accts[MintVault] # NoAccount
    /\ b.phase = "put" => b.acct = MintVault \/ (b.acct \in Vaults /\ TagsVaults(b, accts))
    /\ b.phase = "mint" => Drained(accts, b.amount)

Ahead(label) == label \in {"read", "apply"}
Enough(accts, r) == accts[r.from] # NoAccount /\ accts[r.from].bal >= r.amount
After(accts, r) == Moved(accts, r, accts[r.from])

\* Of a client and its settlement.
DrainsAt(b, label, r, copy, accts) ==
    /\ label \in {"saveSync", "read", "apply"} /\ r # NoRequest => PaysPools(r)
    /\ label = "apply" => copy = accts[r.from]
    /\ b # NoBatch =>
          /\ b.phase = "list" => b.amount = 0
          /\ label = "saveSync" => b.phase \in {"list", "convert", "record"}
          /\ b.phase = "put" => copy = accts[b.acct]
          /\ ~Ahead(label) => Goal(b, accts)
          /\ Ahead(label) /\ Enough(accts, r) => Goal(b, After(accts, r))

DrainInv ==
    /\ PoolsIn(book.accounts) /\ (file \notin {NoFile, Broken} => PoolsIn(file.accounts))
    /\ \A c \in Client : DrainsAt(batch[c], pc[c], req[c], from[c], book.accounts)

LEMMA Hundredth ==
    ASSUME NEW m \in Nat
    PROVE  m \div 100 \in Nat /\ 100 * (m \div 100) <= m /\ m < 100 * (m \div 100) + 100
OBVIOUS

LEMMA RestGrows ==
    ASSUME SettlementAssumption, NEW m \in Nat, NEW n \in Nat, m <= n
    PROVE  Rest(m) \in Nat /\ Rest(n) \in Nat /\ Rest(m) <= Rest(n)
<1>1. PICK p \in Nat : p = EthPercent /\ p <= 100
  BY DEF SettlementAssumption
<1>2. PICK q \in Nat : q + p = 100
  BY <1>1
<1>3. PICK d \in Nat : n = m + d
  BY SMT
<1>4. /\ m * p \in Nat /\ d * p \in Nat /\ d * q \in Nat
      /\ d * q + d * p = d * 100 /\ n * p = m * p + d * p
  BY <1>2, <1>3, Multiplies
<1>5. PICK x \in Nat : x = m * p
  BY <1>4
<1>6. PICK y \in Nat : y = n * p
  BY <1>4
<1>7. EthPart(m) = x \div 100 /\ EthPart(n) = y \div 100
  BY <1>1, <1>5, <1>6 DEF EthPart
<1>8. y <= x + d * 100
  BY <1>4, <1>5, <1>6
<1>9. y \div 100 <= x \div 100 + d
  BY <1>8, Hundredth
<1>10. EthPart(m) \in Nat /\ EthPart(m) <= m /\ EthPart(n) \in Nat /\ EthPart(n) <= n
  BY PartIs
<1>11. n - EthPart(n) >= m - EthPart(m)
  BY <1>3, <1>7, <1>9, <1>10
<1> QED
  BY <1>10, <1>11 DEF Rest

LEMMA RestAdds ==
    ASSUME SettlementAssumption, NEW m \in Nat, NEW n \in Nat
    PROVE  Rest(m) \in Nat /\ Rest(n) \in Nat /\ Rest(m + n) <= Rest(m) + Rest(n)
<1>1. PICK p \in Nat : p = EthPercent
  BY DEF SettlementAssumption
<1>2. m * p \in Nat /\ n * p \in Nat /\ (m + n) * p = m * p + n * p
  BY Multiplies
<1>3. PICK x \in Nat : x = m * p
  BY <1>2
<1>4. PICK y \in Nat : y = n * p
  BY <1>2
<1>5. EthPart(m) = x \div 100 /\ EthPart(n) = y \div 100 /\ EthPart(m + n) = (x + y) \div 100
  BY <1>1, <1>2, <1>3, <1>4 DEF EthPart
<1>6. x \div 100 + y \div 100 <= (x + y) \div 100
  BY Hundredth
<1>7. EthPart(m) \in Nat /\ EthPart(m) <= m /\ EthPart(n) \in Nat /\ EthPart(n) <= n
  BY PartIs
<1>8. m + n \in Nat /\ EthPart(m + n) \in Nat
  BY PartIs
<1> QED
  BY <1>5, <1>6, <1>7, <1>8 DEF Rest

LEMMA RestOfNothing ==
    ASSUME SettlementAssumption
    PROVE  Rest(0) = 0
<1>1. EthPart(0) \in Nat /\ EthPart(0) <= 0
  BY PartIs
<1> QED
  BY <1>1 DEF Rest

LEMMA DividesBack ==
    ASSUME NEW n \in Nat, NEW w \in Nat \ {0}
    PROVE  (n * w) \div w = n
OBVIOUS

LEMMA DollarIsUsdc ==
    ASSUME SettlementAssumption, Apart, NEW n \in Nat
    PROVE  OutAmount(n, Usd, Usdc) = n
<1>1. PICK w \in Nat \ {0} : w = Worth[Usd] /\ w = Worth[Usdc]
  BY BookAssumption DEF SettlementAssumption, Apart
<1>2. (n * w) \div w = n
  BY DividesBack
<1> QED
  BY <1>1, <1>2 DEF OutAmount

LEMMA HeldIs ==
    ASSUME NEW accts \in Accounts, NEW a \in Account
    PROVE  Held(accts, a) \in Nat /\ (Held(accts, a) > 0 => accts[a] \in BookAccount /\ accts[a] # NoAccount)
<1>1. accts[a] \in BookAccount \cup {NoAccount}
  BY DEF Accounts
<1> QED
  BY <1>1, BookAssumption DEF Held, BookAccount

\* Five classes are drained, so the pools are finitely many.
LEMMA PoolsFinite ==
    ASSUME SettlementAssumption
    PROVE  IsFiniteSet(AggPools) /\ AggPools \subseteq Account /\ AggPools \subseteq Pools
<1>1. AggPools = ((((({} \cup {PoolOf["m1"]}) \cup {PoolOf["m2"]}) \cup {PoolOf["m3"]}) \cup {PoolOf["m4"]})
                    \cup {PoolOf["mint"]})
  BY DEF AggPools, Aggregate
<1>2. IsFiniteSet(AggPools)
  BY <1>1, FS_EmptySet, FS_AddElement
<1> QED
  BY <1>2 DEF AggPools, Aggregate, Pools, SettlementAssumption

LEMMA PoolsSum ==
    ASSUME SettlementAssumption, NEW accts \in Accounts, NEW S, S \subseteq AggPools
    PROVE  /\ IsFiniteSet(S) /\ InPools(accts, S) \in Nat
           /\ \A x \in S : InPools(accts, S) = Held(accts, x) + InPools(accts, S \ {x})
<1>1. PICK f : f = [a \in Account |-> Held(accts, a)]
  OBVIOUS
<1>2. IsFiniteSet(S) /\ S \subseteq Account
  BY PoolsFinite, FS_Subset
<1>3. \A x \in S : f[x] \in Nat /\ f[x] = Held(accts, x)
  BY <1>1, <1>2, HeldIs
<1>4. SumFunctionOnSet(f, S) \in Nat
  BY <1>2, <1>3, SumNat
<1>5. \A x \in S : SumFunctionOnSet(f, S) = f[x] + SumFunctionOnSet(f, S \ {x})
  BY <1>2, <1>3, SumSplit
<1> QED
  BY <1>1, <1>2, <1>3, <1>4, <1>5 DEF InPools

LEMMA PoolsAgree ==
    ASSUME SettlementAssumption, NEW accts \in Accounts, NEW then \in Accounts, NEW S, S \subseteq AggPools,
           \A a \in S : then[a] = accts[a]
    PROVE  InPools(then, S) = InPools(accts, S)
<1>1. PICK f : f = [a \in Account |-> Held(accts, a)]
  OBVIOUS
<1>2. PICK h : h = [a \in Account |-> Held(then, a)]
  OBVIOUS
<1>3. IsFiniteSet(S) /\ S \subseteq Account
  BY PoolsFinite, FS_Subset
<1>4. \A x \in S : f[x] \in Int /\ h[x] = f[x]
  BY <1>1, <1>2, <1>3, HeldIs DEF Held
<1>5. SumFunctionOnSet(h, S) = SumFunctionOnSet(f, S)
  BY <1>3, <1>4, SumAgree
<1> QED
  BY <1>1, <1>2, <1>5 DEF InPools

\* What a transfer between two accounts leaves.
LEMMA AfterIs ==
    ASSUME NEW accts \in Accounts, NEW r \in Request, Enough(accts, r), NEW then, then = After(accts, r)
    PROVE  /\ then \in Accounts /\ then[r.to] # NoAccount
           /\ \A a \in Account \ {r.from, r.to} : then[a] = accts[a]
           /\ then[r.to].asset = OutAsset(r, accts[r.from])
           /\ r.from # r.to =>
                 /\ then[r.from] # NoAccount /\ then[r.from].asset = accts[r.from].asset
                 /\ Held(then, r.from) = Held(accts, r.from) - r.amount
                 /\ Held(then, r.to) = Held(accts, r.to) + OutAmount(r.amount, accts[r.from].asset, OutAsset(r, accts[r.from]))
<1>1. PICK f : f = accts[r.from]
  OBVIOUS
<1>2. r.from \in Account /\ r.to \in Account
  BY DEF Request
<1>3. f \in BookAccount /\ f.bal >= r.amount /\ f # NoAccount
  BY <1>1, <1>2 DEF Enough, Accounts
<1>4. then = Moved(accts, r, f)
  BY <1>1 DEF After
<1>5. /\ then \in Accounts /\ then[r.to] \in BookAccount
      /\ \A a \in Account \ {r.from, r.to} : then[a] = accts[a]
      /\ r.from # r.to =>
            /\ then[r.from] = [asset |-> f.asset, bal |-> f.bal - r.amount]
            /\ then[r.to] = [asset |-> OutAsset(r, f),
                             bal |-> (IF accts[r.to] = NoAccount THEN 0 ELSE accts[r.to].bal)
                                     + OutAmount(r.amount, f.asset, OutAsset(r, f))]
  BY <1>3, <1>4, MovedIs
<1>6. then[r.to] # NoAccount
  BY <1>5, BookAssumption
<1>7. then[r.to].asset = OutAsset(r, f)
  <2>1. PICK debited : debited = [accts EXCEPT ![r.from] = [f EXCEPT !.bal = @ - r.amount]]
    OBVIOUS
  <2>2. PICK n : n = (IF debited[r.to] = NoAccount THEN 0 ELSE debited[r.to].bal)
                     + OutAmount(r.amount, f.asset, OutAsset(r, f))
    OBVIOUS
  <2>3. then = [debited EXCEPT ![r.to] = [asset |-> OutAsset(r, f), bal |-> n]]
    BY <1>4, <2>1, <2>2 DEF Moved
  <2>4. DOMAIN debited = Account
    BY <2>1 DEF Accounts
  <2> QED
    BY <1>2, <2>3, <2>4
<1>8. ASSUME r.from # r.to
      PROVE  then[r.from] # NoAccount /\ then[r.from].asset = f.asset /\ then[r.from].bal = f.bal - r.amount
  <2>1. then[r.from] = [asset |-> f.asset, bal |-> f.bal - r.amount]
    BY <1>5, <1>8
  <2>2. f.bal - r.amount \in Nat /\ f.asset \in Asset
    BY <1>3 DEF BookAccount, Request
  <2>3. then[r.from] \in BookAccount
    BY <2>1, <2>2 DEF BookAccount
  <2> QED
    BY <2>1, <2>3, BookAssumption
<1>9. r.from # r.to =>
         /\ Held(then, r.from) = Held(accts, r.from) - r.amount
         /\ Held(then, r.to) = Held(accts, r.to) + OutAmount(r.amount, f.asset, OutAsset(r, f))
  BY <1>1, <1>3, <1>5, <1>6, <1>8 DEF Held
<1> QED
  BY <1>1, <1>5, <1>6, <1>7, <1>8, <1>9

LEMMA AfterPools ==
    ASSUME NEW accts \in Accounts, NEW r \in Request, Enough(accts, r), PoolsIn(accts), PaysPools(r),
           NoAsset \notin Asset, Usd \in Asset, Pools \subseteq Account
    PROVE  PoolsIn(After(accts, r))
<1>1. PICK then : then = After(accts, r)
  OBVIOUS
<1>2. /\ then[r.to].asset = OutAsset(r, accts[r.from])
      /\ \A a \in Account \ {r.from, r.to} : then[a] = accts[a]
      /\ r.from # r.to => then[r.from].asset = accts[r.from].asset
  BY <1>1, AfterIs
<1>3. ASSUME NEW a \in Pools, then[a] # NoAccount
      PROVE  a \in AggPools /\ then[a].asset = Usd
  <2>1. CASE a = r.to
    BY <1>2, <2>1 DEF PaysPools, OutAsset
  <2>2. CASE a # r.to /\ a = r.from
    BY <1>2, <2>2 DEF PoolsIn, Enough
  <2>3. CASE a # r.to /\ a # r.from
    BY <1>2, <1>3, <2>3 DEF PoolsIn
  <2> QED
    BY <2>1, <2>2, <2>3
<1> QED
  BY <1>1, <1>3 DEF PoolsIn

LEMMA PoolsAre ==
    ASSUME SettlementAssumption, Apart
    PROVE  /\ NoAsset \notin Asset /\ {Usd, Usdc, Eth} \subseteq Asset /\ Pools \subseteq Account
           /\ Customer \subseteq Account /\ {UsdcVault, EthVault, MintVault, Receiver} \subseteq Account
           /\ \A a \in Pools : a \notin Customer /\ a \notin {UsdcVault, EthVault, MintVault, Receiver}
           /\ UsdcVault \notin Customer /\ EthVault \notin Customer
BY BookAssumption DEF SettlementAssumption, Apart, Pools

\* The transfer to a pool of what was listed.
LEMMA PoolPaid ==
    ASSUME SettlementAssumption, Apart, NEW accts \in Accounts, NEW b \in Batch, ListGoal(b, accts),
           NEW x \in b.left, NEW r \in Request, r.from = x.acct, r.to = PoolOf[Route(ClassOf[x.acct])],
           r.amount = x.n, r.convertTo = Usd,
           NEW d, d.left = b.left \ {x}, d.amount = b.amount + x.usd
    PROVE  Enough(accts, r) => ListGoal(d, After(accts, r))
<1> SUFFICES ASSUME Enough(accts, r)
             PROVE  ListGoal(d, After(accts, r))
  OBVIOUS
<1>1. PICK then : then = After(accts, r)
  OBVIOUS
<1>2. PICK a \in Customer : a = x.acct
  BY DEF ListGoal, Listed
<1>3. PICK p \in AggPools : p = r.to
  BY RouteIs DEF AggPools
<1>4. /\ a \in Account /\ p \in Account /\ p \in Pools /\ p \notin Customer /\ a # p
      /\ NoAsset \notin Asset /\ Usd \in Asset /\ AggPools \cap Customer = {}
  BY PoolsAre, PoolsFinite
<1>5. \A y \in b.left : y = [acct |-> y.acct, n |-> y.n, usd |-> y.usd] /\ y.usd \in Nat /\ y.n \in Nat
  BY DEF Batch
<1>6. Held(accts, a) = x.n /\ accts[a].asset \in Fiat /\ x.usd = OutAmount(x.n, accts[a].asset, Usd)
  BY <1>2 DEF ListGoal, Listed
<1>7. OutAsset(r, accts[r.from]) = Usd
  BY <1>4 DEF OutAsset
<1>8. /\ then \in Accounts /\ \A q \in Account \ {a, p} : then[q] = accts[q]
      /\ Held(then, a) = Held(accts, a) - x.n
      /\ Held(then, p) = Held(accts, p) + x.usd
  BY <1>1, <1>2, <1>3, <1>4, <1>6, <1>7, AfterIs
<1>9. Held(then, a) = 0
  BY <1>5, <1>6, <1>8
<1>10. \A q \in Customer \ {a} : then[q] = accts[q] /\ Held(then, q) = Held(accts, q)
  BY <1>4, <1>8, PoolsAre DEF Held
<1>11. ASSUME NEW y \in d.left
       PROVE  Listed(y, then)
  <2>1. y \in b.left /\ y # x /\ Listed(y, accts) /\ Listed(x, accts)
    BY <1>11 DEF ListGoal
  <2>2. y.acct # a
    BY <1>2, <1>5, <2>1 DEF Listed
  <2> QED
    BY <1>10, <2>1, <2>2 DEF Listed
<1>12. ASSUME NEW q \in Customer, Held(then, q) > 0, then[q].asset \in Fiat
       PROVE  \E y \in d.left : y.acct = q
  <2>1. q # a
    BY <1>9, <1>12
  <2>2. PICK y \in b.left : y.acct = q
    BY <1>10, <1>12, <2>1 DEF ListGoal
  <2>3. y # x
    BY <1>2, <2>1, <2>2
  <2> QED
    BY <2>2, <2>3
<1>13. d.amount <= InPools(then, AggPools)
  <2>1. PICK S : S = AggPools \ {p}
    OBVIOUS
  <2>2. /\ InPools(accts, AggPools) = Held(accts, p) + InPools(accts, S)
        /\ InPools(then, AggPools) = Held(then, p) + InPools(then, S)
        /\ InPools(accts, S) \in Nat
    BY <1>8, <2>1, PoolsSum
  <2>3. InPools(then, S) = InPools(accts, S)
    <3>1. S \subseteq AggPools /\ \A q \in S : then[q] = accts[q]
      BY <1>2, <1>4, <1>8, <2>1, PoolsFinite
    <3> QED
      BY <1>8, <3>1, PoolsAgree
  <2>4. b.amount <= InPools(accts, AggPools) /\ b.amount \in Nat /\ x.usd \in Nat /\ Held(accts, p) \in Nat
    BY <1>4, <1>5, HeldIs DEF ListGoal, Batch
  <2> QED
    BY <1>8, <2>2, <2>3, <2>4
<1> QED
  BY <1>1, <1>11, <1>12, <1>13 DEF ListGoal

\* All that was listed is in the pools: what the vault will get of it.
LEMMA PoolsFull ==
    ASSUME SettlementAssumption, Apart, NEW accts \in Accounts, NEW b \in Batch, ListGoal(b, accts), b.left = {},
           NEW d, d.left = {Left(PoolOf[k], 0, 0) : k \in Aggregate},
           d.amount = OutAmount(b.amount - EthPart(b.amount), Usd, Usdc)
    PROVE  DrainGoal(d, accts, {})
<1>1. ToDrain(d.left) = AggPools /\ d.left \subseteq {Left(a, 0, 0) : a \in AggPools}
  BY DEF ToDrain, AggPools
<1>2. b.amount \in Nat /\ InPools(accts, AggPools) \in Nat /\ b.amount <= InPools(accts, AggPools)
  BY PoolsSum DEF ListGoal, Batch
<1>3. /\ Rest(b.amount) \in Nat /\ Rest(InPools(accts, AggPools)) \in Nat
      /\ Rest(b.amount) <= Rest(InPools(accts, AggPools))
  BY <1>2, RestGrows
<1>4. d.amount = Rest(b.amount)
  BY <1>3, DollarIsUsdc DEF Rest
<1>5. Held(accts, UsdcVault) \in Nat
  BY PoolsAre, HeldIs
<1>6. FiatGone(accts)
  BY DEF ListGoal, FiatGone
<1>7. d.amount <= Held(accts, UsdcVault) + Rest(InPools(accts, AggPools))
  BY <1>3, <1>4, <1>5
<1> QED
  BY <1>1, <1>6, <1>7 DEF DrainGoal

\* All pools are drained.
LEMMA PoolsEmpty ==
    ASSUME SettlementAssumption, NEW accts \in Accounts, NEW b, DrainGoal(b, accts, {}), b.left = {}
    PROVE  Drained(accts, b.amount)
<1>1. ToDrain(b.left) = {}
  BY DEF ToDrain
<1>2. InPools(accts, {}) = 0
  BY SumEmpty DEF InPools
<1>3. Held(accts, UsdcVault) \in Nat
  BY HeldIs DEF SettlementAssumption
<1>4. b.amount <= Held(accts, UsdcVault) + 0
  BY <1>1, <1>2, RestOfNothing DEF DrainGoal
<1>5. b.amount <= Held(accts, UsdcVault)
  BY <1>3, <1>4
<1> QED
  BY <1>1, <1>5 DEF DrainGoal, Drained

\* One pool: what it has to give, and what the others have.
LEMMA PoolNext ==
    ASSUME SettlementAssumption, NEW accts \in Accounts, NEW b, DrainGoal(b, accts, {}), NEW x \in b.left
    PROVE  /\ x.acct \in AggPools \ ToDrain(b.left \ {x})
           /\ ToDrain(b.left) = ToDrain(b.left \ {x}) \cup {x.acct}
           /\ ToDrain(b.left \ {x}) \subseteq AggPools
           /\ Held(accts, x.acct) \in Nat /\ InPools(accts, ToDrain(b.left \ {x})) \in Nat
           /\ InPools(accts, ToDrain(b.left)) = Held(accts, x.acct) + InPools(accts, ToDrain(b.left \ {x}))
<1>1. PICK a \in AggPools : x = Left(a, 0, 0)
  BY DEF DrainGoal
<1>2. x.acct = a /\ a \in Account
  BY <1>1, PoolsFinite DEF Left
<1>3. \A q \in AggPools : Left(q, 0, 0) = x => q = a
  BY <1>1 DEF Left
<1>4. PICK S : S = ToDrain(b.left)
  OBVIOUS
<1>5. PICK T : T = ToDrain(b.left \ {x})
  OBVIOUS
<1>6. a \notin T /\ S = T \cup {a} /\ T \subseteq AggPools /\ S \subseteq AggPools
  BY <1>1, <1>3, <1>4, <1>5 DEF ToDrain
<1>7. S \ {a} = T /\ a \in S
  BY <1>6
<1>8. InPools(accts, S) = Held(accts, a) + InPools(accts, S \ {a})
  BY <1>6, <1>7, PoolsSum
<1>9. InPools(accts, T) \in Nat
  BY <1>6, PoolsSum
<1>10. Held(accts, a) \in Nat
  BY <1>2, HeldIs
<1> QED
  BY <1>2, <1>4, <1>5, <1>6, <1>7, <1>8, <1>9, <1>10

\* The transfer of the dollars' part to the first vault.
LEMMA VaultPaid ==
    ASSUME SettlementAssumption, Apart, NEW accts \in Accounts, PoolsIn(accts),
           NEW b \in Batch, DrainGoal(b, accts, {}), NEW x \in b.left,
           NEW r \in Request, r.from = x.acct, r.to = UsdcVault, r.amount = Rest(Held(accts, x.acct)), r.convertTo = Usdc,
           NEW d, d.left = b.left \ {x}, d.amount = b.amount
    PROVE  Enough(accts, r) => DrainGoal(d, After(accts, r), {x.acct})
<1> SUFFICES ASSUME Enough(accts, r)
             PROVE  DrainGoal(d, After(accts, r), {x.acct})
  OBVIOUS
<1>1. PICK then : then = After(accts, r)
  OBVIOUS
<1>2. /\ x.acct \in AggPools \ ToDrain(d.left) /\ ToDrain(b.left) = ToDrain(d.left) \cup {x.acct}
      /\ ToDrain(d.left) \subseteq AggPools
      /\ Held(accts, x.acct) \in Nat /\ InPools(accts, ToDrain(d.left)) \in Nat
      /\ InPools(accts, ToDrain(b.left)) = Held(accts, x.acct) + InPools(accts, ToDrain(d.left))
  <2>1. ToDrain(d.left) = ToDrain(b.left \ {x})
    BY DEF ToDrain
  <2>2. PICK T : T = ToDrain(b.left \ {x})
    OBVIOUS
  <2>3. /\ x.acct \in AggPools \ T /\ ToDrain(b.left) = T \cup {x.acct} /\ T \subseteq AggPools
        /\ Held(accts, x.acct) \in Nat /\ InPools(accts, T) \in Nat
        /\ InPools(accts, ToDrain(b.left)) = Held(accts, x.acct) + InPools(accts, T)
    BY <2>2, PoolNext
  <2> QED
    BY <2>1, <2>2, <2>3
<1>3. PICK a \in AggPools : a = x.acct
  BY <1>2
<1>4. PICK T : T = ToDrain(d.left)
  OBVIOUS
<1>5. /\ a \in Account /\ UsdcVault \in Account /\ a # UsdcVault /\ a \notin Customer /\ UsdcVault \notin Customer
      /\ NoAsset \notin Asset /\ Usdc \in Asset /\ UsdcVault \notin AggPools /\ Customer \subseteq Account
  BY PoolsAre, PoolsFinite
<1>6. accts[a].asset = Usd /\ accts[a] # NoAccount
  BY <1>3, <1>5, PoolsFinite DEF Enough, PoolsIn
<1>7. OutAsset(r, accts[r.from]) = Usdc /\ r.amount \in Nat
  BY <1>5 DEF OutAsset, Request
<1>8. OutAmount(r.amount, accts[a].asset, Usdc) = r.amount
  BY <1>6, <1>7, DollarIsUsdc
<1>9. /\ then \in Accounts /\ \A q \in Account \ {a, UsdcVault} : then[q] = accts[q]
      /\ Held(then, UsdcVault) = Held(accts, UsdcVault) + r.amount
  BY <1>1, <1>3, <1>5, <1>7, <1>8, AfterIs
<1>10. \A q \in Account \ {a, UsdcVault} : Held(then, q) = Held(accts, q)
  BY <1>9 DEF Held
<1>11. FiatGone(then)
  BY <1>5, <1>9, <1>10 DEF FiatGone, DrainGoal
<1>12. \A q \in AggPools : q \notin T \cup {a} => Held(then, q) = 0
  BY <1>2, <1>3, <1>4, <1>5, <1>10, PoolsFinite DEF DrainGoal
<1>13. InPools(then, T) = InPools(accts, T)
  <2>1. \A q \in T : then[q] = accts[q]
    BY <1>2, <1>3, <1>4, <1>5, <1>9, PoolsFinite
  <2> QED
    BY <1>2, <1>4, <1>9, <2>1, PoolsAgree
<1>14. PICK h \in Nat : h = Held(accts, a)
  BY <1>2, <1>3
<1>15. PICK s \in Nat : s = InPools(accts, T)
  BY <1>2, <1>4
<1>16. Rest(h) \in Nat /\ Rest(s) \in Nat /\ Rest(h + s) <= Rest(h) + Rest(s)
  BY RestAdds
<1>17. b.amount <= Held(accts, UsdcVault) + Rest(h + s)
  BY <1>2, <1>3, <1>4, <1>14, <1>15 DEF DrainGoal
<1>18. Held(accts, UsdcVault) \in Nat /\ b.amount \in Nat /\ Rest(h + s) \in Nat
  BY <1>5, HeldIs, RestGrows DEF Batch
<1>19. d.amount <= Held(then, UsdcVault) + Rest(InPools(then, T))
  <2>1. r.amount = Rest(h)
    BY <1>3, <1>14
  <2>2. Held(then, UsdcVault) = Held(accts, UsdcVault) + Rest(h) /\ Rest(InPools(then, T)) = Rest(s)
    BY <1>9, <1>13, <1>15, <2>1
  <2> QED
    BY <1>16, <1>17, <1>18, <2>2
<1>20. d.left \subseteq {Left(q, 0, 0) : q \in AggPools}
  BY DEF DrainGoal
<1> QED
  BY <1>1, <1>3, <1>4, <1>11, <1>12, <1>19, <1>20 DEF DrainGoal

\* Where the first vault gets nothing.
LEMMA VaultSkipped ==
    ASSUME SettlementAssumption, NEW accts \in Accounts,
           NEW b \in Batch, DrainGoal(b, accts, {}), NEW x \in b.left, Rest(Held(accts, x.acct)) = 0,
           NEW d, d.left = b.left \ {x}, d.amount = b.amount
    PROVE  DrainGoal(d, accts, {x.acct})
<1>1. /\ ToDrain(b.left) = ToDrain(d.left) \cup {x.acct}
      /\ Held(accts, x.acct) \in Nat /\ InPools(accts, ToDrain(d.left)) \in Nat
      /\ InPools(accts, ToDrain(b.left)) = Held(accts, x.acct) + InPools(accts, ToDrain(d.left))
  <2>1. ToDrain(d.left) = ToDrain(b.left \ {x})
    BY DEF ToDrain
  <2>2. PICK T : T = ToDrain(b.left \ {x})
    OBVIOUS
  <2>3. /\ x.acct \in AggPools \ T /\ ToDrain(b.left) = T \cup {x.acct} /\ T \subseteq AggPools
        /\ Held(accts, x.acct) \in Nat /\ InPools(accts, T) \in Nat
        /\ InPools(accts, ToDrain(b.left)) = Held(accts, x.acct) + InPools(accts, T)
    BY <2>2, PoolNext
  <2> QED
    BY <2>1, <2>2, <2>3
<1>2. PICK h \in Nat : h = Held(accts, x.acct)
  BY <1>1
<1>3. PICK s \in Nat : s = InPools(accts, ToDrain(d.left))
  BY <1>1
<1>4. Rest(h) \in Nat /\ Rest(s) \in Nat /\ Rest(h + s) <= Rest(h) + Rest(s)
  BY RestAdds
<1>5. b.amount <= Held(accts, UsdcVault) + Rest(h + s)
  BY <1>1, <1>2, <1>3 DEF DrainGoal
<1>6. Held(accts, UsdcVault) \in Nat /\ b.amount \in Nat /\ Rest(h + s) \in Nat
  BY HeldIs, RestGrows DEF Batch, SettlementAssumption
<1>7. d.amount <= Held(accts, UsdcVault) + Rest(s)
  BY <1>2, <1>4, <1>5, <1>6
<1> QED
  BY <1>1, <1>3, <1>7 DEF DrainGoal

\* The transfer of all the rest to the second vault.
LEMMA PoolDrained ==
    ASSUME SettlementAssumption, Apart, NEW accts \in Accounts,
           NEW b \in Batch, b.acct \in AggPools \ ToDrain(b.left), DrainGoal(b, accts, {b.acct}),
           NEW r \in Request, r.from = b.acct, r.to = EthVault, r.amount = Held(accts, b.acct),
           NEW d, d.left = b.left, d.amount = b.amount
    PROVE  Enough(accts, r) => DrainGoal(d, After(accts, r), {})
<1> SUFFICES ASSUME Enough(accts, r)
             PROVE  DrainGoal(d, After(accts, r), {})
  OBVIOUS
<1>1. PICK then : then = After(accts, r)
  OBVIOUS
<1>2. PICK a \in AggPools : a = b.acct
  OBVIOUS
<1>3. PICK T : T = ToDrain(b.left)
  OBVIOUS
<1>4. /\ a \in Account /\ EthVault \in Account /\ a # EthVault /\ a \notin Customer /\ EthVault \notin Customer
      /\ EthVault \notin AggPools /\ Customer \subseteq Account /\ UsdcVault \in Account /\ a # UsdcVault
  BY PoolsAre, PoolsFinite
<1>5. r.amount \in Nat /\ accts[a].asset \in Asset /\ OutAsset(r, accts[a]) \in Asset
  BY <1>2, <1>4 DEF Request, Enough, Accounts, BookAccount, OutAsset
<1>6. PICK n \in Nat : n = OutAmount(r.amount, accts[a].asset, OutAsset(r, accts[a]))
  BY <1>5, OutAmountType
<1>7. /\ then \in Accounts /\ \A q \in Account \ {a, EthVault} : then[q] = accts[q]
      /\ Held(then, a) = Held(accts, a) - r.amount
      /\ Held(then, EthVault) = Held(accts, EthVault) + n
  BY <1>1, <1>2, <1>4, <1>6, AfterIs
<1>8. \A q \in Account \ {a, EthVault} : Held(then, q) = Held(accts, q)
  BY <1>7 DEF Held
<1>9. Held(then, a) = 0
  BY <1>2, <1>5, <1>7
<1>10. FiatGone(then)
  BY <1>4, <1>7, <1>8 DEF FiatGone, DrainGoal
<1>11. \A q \in AggPools : q \notin T => Held(then, q) = 0
  BY <1>2, <1>3, <1>4, <1>8, <1>9, PoolsFinite DEF DrainGoal
<1>12. InPools(then, T) = InPools(accts, T) /\ InPools(accts, T) \in Nat
  <2>1. T \subseteq AggPools /\ \A q \in T : then[q] = accts[q]
    BY <1>2, <1>3, <1>4, <1>7, PoolsFinite DEF ToDrain
  <2> QED
    BY <1>7, <2>1, PoolsAgree, PoolsSum
<1>13. /\ Held(accts, UsdcVault) \in Nat /\ Held(accts, EthVault) \in Nat /\ b.amount \in Nat
       /\ Rest(InPools(accts, T)) \in Nat
  BY <1>4, <1>12, HeldIs, RestGrows DEF Batch
<1>14. Held(then, UsdcVault) \in Nat /\ Held(then, UsdcVault) >= Held(accts, UsdcVault)
  <2>1. CASE UsdcVault = EthVault
    BY <1>7, <1>13, <2>1
  <2>2. CASE UsdcVault # EthVault
    BY <1>4, <1>8, <1>13, <2>2
  <2> QED
    BY <2>1, <2>2
<1>15. b.amount <= Held(accts, UsdcVault) + Rest(InPools(accts, T))
  BY <1>3 DEF DrainGoal
<1>16. d.amount <= Held(then, UsdcVault) + Rest(InPools(then, T))
  BY <1>12, <1>13, <1>14, <1>15
<1>17. d.left \subseteq {Left(q, 0, 0) : q \in AggPools} /\ ToDrain(d.left) = T
  BY <1>3 DEF DrainGoal
<1> QED
  BY <1>1, <1>10, <1>11, <1>16, <1>17 DEF DrainGoal

\* Where nothing is left in it.
LEMMA PoolWasEmpty ==
    ASSUME NEW accts, NEW b, DrainGoal(b, accts, {b.acct}), Held(accts, b.acct) = 0,
           NEW d, d.left = b.left, d.amount = b.amount
    PROVE  DrainGoal(d, accts, {})
BY DEF DrainGoal

\* The tag of a vault is put back: it holds what it held.
LEMMA Tagged ==
    ASSUME NEW accts \in Accounts, NEW a \in Account, NEW entry \in BookAccount, accts[a] # NoAccount,
           entry.bal = accts[a].bal, NEW then, then = [accts EXCEPT ![a] = entry]
    PROVE  /\ \A q \in Account : Held(then, q) = Held(accts, q)
           /\ \A q \in Account \ {a} : then[q] = accts[q]
BY BookAssumption DEF Held, Accounts

-----------------------------------------------------------------------------
(* Each step keeps what a batch has still to move *)

Drains(c) ==
    /\ PoolsIn(book'.accounts) /\ file' \in {file, Broken, book}
    /\ DrainsAt(batch'[c], pc'[c], req'[c], from'[c], book'.accounts)

LEMMA DrainsAll ==
    ASSUME OneAtATime, DrainInv, NEW c \in Client, Drains(c)
    PROVE  DrainInv'
<1>1. \A d \in Client : d = c
  BY DEF OneAtATime
<1>2. PoolsIn(book'.accounts) /\ (file' \notin {NoFile, Broken} => PoolsIn(file'.accounts))
  BY DEF Drains, DrainInv
<1>3. \A d \in Client : DrainsAt(batch'[d], pc'[d], req'[d], from'[d], book'.accounts)
  BY <1>1 DEF Drains
<1> QED
  BY <1>2, <1>3 DEF DrainInv

LEMMA GoalFree ==
    ASSUME NEW b, b.phase \in {"list", "convert", "payout", "send", "record"}, NEW accts
    PROVE  Goal(b, accts)
BY DEF Goal

\* What is known of a settlement between its transfers.
LEMMA DrainsBetween ==
    ASSUME BookInv, BatchInv, DrainInv, NEW c \in Client, Between(c)
    PROVE  /\ batch[c] \in Batch /\ book.accounts \in Accounts /\ PoolsIn(book.accounts)
           /\ Goal(batch[c], book.accounts)
           /\ batch[c].phase = "list" => batch[c].amount = 0
           /\ batch[c].phase = "put" => from[c] = book.accounts[batch[c].acct]
<1>1. DrainsAt(batch[c], pc[c], req[c], from[c], book.accounts) /\ PoolsIn(book.accounts)
  BY DEF DrainInv
<1>2. batch[c] # NoBatch /\ ~Ahead(pc[c])
  BY DEF Between, Ahead
<1>3. batch[c] \in Batch /\ book.accounts \in Accounts
  BY SettlesBetween, BookFields DEF BookInv, TypeOK
<1> QED
  BY <1>1, <1>2, <1>3 DEF DrainsAt

LEMMA ContinuesDrains ==
    ASSUME BookInv, BatchInv, DrainInv, NEW c \in Client, Between(c), NEW b, Continues(c, b),
           b # NoBatch => b.phase \notin {"list", "put"} /\ Goal(b, book.accounts)
    PROVE  Drains(c)
<1>1. batch'[c] = b
  BY DEF Continues, BatchInv
<1>2. pc'[c] = "idle" /\ book' = book /\ file' = file
  BY DEF Continues, vars, Between
<1>3. PoolsIn(book.accounts)
  BY DEF DrainInv
<1> QED
  BY <1>1, <1>2, <1>3 DEF Drains, DrainsAt, Ahead

LEMMA TransfersDrains ==
    ASSUME BookInv, BatchInv, DrainInv, NEW c \in Client, Between(c), NEW r, NEW b, Transfers(c, r, b),
           PaysPools(r),
           b # NoBatch => b.phase \notin {"list", "put"} /\ (Enough(book.accounts, r) => Goal(b, After(book.accounts, r)))
    PROVE  Drains(c)
<1>1. batch'[c] = b /\ pc'[c] = "read" /\ req'[c] = r
  BY DEF Transfers, BatchInv, BookInv, TypeOK, Goto
<1>2. book' = book /\ file' = file
  BY DEF Transfers
<1>3. PoolsIn(book.accounts)
  BY DEF DrainInv
<1> QED
  BY <1>1, <1>2, <1>3 DEF Drains, DrainsAt, Ahead

LEMMA ListDrains ==
    ASSUME SettlementAssumption, Apart, BookInv, BatchInv, DrainInv, NEW c \in Client, Between(c), List(c)
    PROVE  Drains(c)
<1>1. PICK b \in Batch : b = batch[c] /\ b.phase = "list" /\ b.amount = 0
  BY DrainsBetween DEF List
<1>2. CASE CanLoad /\ FiatAccounts(Loaded) # {}
  <2>1. Loaded = book /\ book \in Book
    BY <1>1, <1>2, ListLoads
  <2>2. PICK l : l = FiatAccounts(book)
    OBVIOUS
  <2>3. PICK d : d = [b EXCEPT !.phase = "pool", !.left = l]
    OBVIOUS
  <2>4. d = [phase |-> "pool", left |-> l, acct |-> b.acct, amount |-> b.amount, pay |-> b.pay]
    <3>1. b = [phase |-> b.phase, left |-> b.left, acct |-> b.acct, amount |-> b.amount, pay |-> b.pay]
      BY BatchIs
    <3> QED
      BY <2>3, <3>1
  <2>5. Continues(c, d)
    BY <1>1, <1>2, <2>1, <2>2, <2>3 DEF List
  <2>6. \A a : Balance(book, a) = Held(book.accounts, a)
    BY DEF Balance, Held
  <2>7. ListGoal(d, book.accounts)
    <3>1. \A x \in l : Listed(x, book.accounts)
      BY <2>1, <2>2, <2>6, ListedIs DEF Listed
    <3>2. ASSUME NEW a \in Customer, Held(book.accounts, a) > 0, book.accounts[a].asset \in Fiat
          PROVE  \E x \in l : x.acct = a
      <4>1. Left(a, Balance(book, a), OutAmount(Balance(book, a), book.accounts[a].asset, Usd)) \in l
        BY <2>2, <2>6, <3>2 DEF FiatAccounts
      <4> QED
        BY <4>1 DEF Left
    <3>3. InPools(book.accounts, AggPools) \in Nat
      BY PoolsSum, DrainsBetween
    <3>4. d.left = l /\ d.amount = 0
      BY <1>1, <2>4
    <3> QED
      BY <3>1, <3>2, <3>3, <3>4 DEF ListGoal
  <2>8. d.phase = "pool" /\ Goal(d, book.accounts)
    BY <2>4, <2>7 DEF Goal
  <2> QED
    BY <2>5, <2>8, ContinuesDrains
<1>3. CASE ~(CanLoad /\ FiatAccounts(Loaded) # {})
  <2>1. Continues(c, NoBatch)
    BY <1>3 DEF List
  <2> QED
    BY <2>1, ContinuesDrains
<1> QED
  BY <1>2, <1>3

LEMMA ToPoolsDrains ==
    ASSUME SettlementAssumption, Apart, BookInv, BatchInv, DrainInv, NEW c \in Client, Between(c), ToPools(c)
    PROVE  Drains(c)
<1>1. PICK b \in Batch : b = batch[c] /\ b.phase = "pool"
  BY DrainsBetween DEF ToPools
<1>2. PICK accts \in Accounts : accts = book.accounts
  BY DrainsBetween
<1>3. ListGoal(b, accts) /\ \A x \in b.left : x.n > 0
  BY <1>1, <1>2, DrainsBetween, SettlesBetween DEF Goal
<1>4. /\ b = [phase |-> b.phase, left |-> b.left, acct |-> b.acct, amount |-> b.amount, pay |-> b.pay]
      /\ b.left \in SUBSET [acct : Account, n : Nat, usd : Nat]
  BY <1>1, BatchIs
<1>5. CASE b.left # {}
  <2>1. PICK x \in b.left :
          Transfers(c, [Request0 EXCEPT !.from = x.acct, !.to = PoolOf[Route(ClassOf[x.acct])],
                                        !.amount = x.n, !.convertTo = Usd],
                    [b EXCEPT !.left = @ \ {x}, !.amount = @ + x.usd])
    BY <1>1, <1>5 DEF ToPools
  <2>2. PICK d : d = [b EXCEPT !.left = @ \ {x}, !.amount = @ + x.usd]
    OBVIOUS
  <2>3. d = [phase |-> "pool", left |-> b.left \ {x}, acct |-> b.acct, amount |-> b.amount + x.usd, pay |-> b.pay]
    BY <1>1, <1>4, <2>2
  <2>4. PICK r : r = [Request0 EXCEPT !.from = x.acct, !.to = PoolOf[Route(ClassOf[x.acct])],
                                      !.amount = x.n, !.convertTo = Usd]
    OBVIOUS
  <2>5. r = [from |-> x.acct, to |-> PoolOf[Route(ClassOf[x.acct])], amount |-> x.n, convertTo |-> Usd,
             external |-> FALSE]
    BY <2>4 DEF Request0
  <2>6. r \in Request
    <3>1. PICK t \in Account : t = PoolOf[Route(ClassOf[x.acct])]
      BY RouteIs
    <3>2. x.n \in Nat \ {0} /\ x.acct \in Account
      BY <1>3, <1>4
    <3>3. Usd \in Asset \cup {NoAsset}
      BY DEF SettlementAssumption
    <3> QED
      BY <2>5, <3>1, <3>2, <3>3, AskedIs
  <2>7. PaysPools(r)
    BY <2>5, RouteIs DEF PaysPools, AggPools
  <2>8. Enough(accts, r) => ListGoal(d, After(accts, r))
    <3>1. r.from = x.acct /\ r.to = PoolOf[Route(ClassOf[x.acct])] /\ r.amount = x.n /\ r.convertTo = Usd
      BY <2>5
    <3>2. d.left = b.left \ {x} /\ d.amount = b.amount + x.usd
      BY <2>3
    <3> QED
      BY <1>3, <2>6, <3>1, <3>2, PoolPaid
  <2>9. d.phase = "pool"
    BY <2>3
  <2>10. Enough(accts, r) => Goal(d, After(accts, r))
    BY <2>8, <2>9 DEF Goal
  <2> QED
    BY <1>2, <2>1, <2>2, <2>4, <2>7, <2>9, <2>10, TransfersDrains
<1>6. CASE b.left = {}
  <2>1. PICK d : d = [b EXCEPT !.phase = "drain", !.amount = OutAmount(@ - EthPart(@), Usd, Usdc),
                               !.left = {Left(PoolOf[k], 0, 0) : k \in Aggregate}]
    OBVIOUS
  <2>2. Continues(c, d)
    BY <1>1, <1>6, <2>1 DEF ToPools
  <2>3. /\ d.phase = "drain" /\ d.left = {Left(PoolOf[k], 0, 0) : k \in Aggregate}
        /\ d.amount = OutAmount(b.amount - EthPart(b.amount), Usd, Usdc)
    BY <1>4, <2>1
  <2>4. DrainGoal(d, accts, {})
    BY <1>3, <1>6, <2>3, PoolsFull
  <2>5. Goal(d, accts)
    BY <2>3, <2>4 DEF Goal
  <2> QED
    BY <1>2, <2>2, <2>3, <2>5, ContinuesDrains
<1> QED
  BY <1>5, <1>6

LEMMA DrainDrains ==
    ASSUME SettlementAssumption, Apart, BookInv, BatchInv, DrainInv, NEW c \in Client, Between(c), Drain(c)
    PROVE  Drains(c)
<1>1. PICK b \in Batch : b = batch[c] /\ b.phase \in {"drain", "eth"}
  BY DrainsBetween DEF Drain
<1>2. PICK accts \in Accounts : accts = book.accounts
  BY DrainsBetween
<1>3. /\ b = [phase |-> b.phase, left |-> b.left, acct |-> b.acct, amount |-> b.amount, pay |-> b.pay]
      /\ b.left \in SUBSET [acct : Account, n : Nat, usd : Nat] /\ b.acct \in Account
  BY <1>1, BatchIs
<1>4. Loaded = book /\ PoolsIn(accts) /\ Goal(b, accts)
  BY <1>1, <1>2, SettlesBetween, FromMemory, DrainsBetween
<1>5. \A a : Balance(Loaded, a) = Held(accts, a)
  BY <1>2, <1>4 DEF Balance, Held
<1>6. /\ {UsdcVault, EthVault} \subseteq Account /\ {Usdc, Eth} \subseteq Asset
      /\ UsdcVault \notin Pools /\ EthVault \notin Pools
  BY PoolsAre
<1>7. CASE b.phase = "drain" /\ b.left = {} /\ Continues(c, [b EXCEPT !.phase = "tag", !.left = {Left(UsdcVault, 0, 0), Left(EthVault, 0, 0)}])
  <2>1. PICK d : d = [b EXCEPT !.phase = "tag", !.left = {Left(UsdcVault, 0, 0), Left(EthVault, 0, 0)}]
    OBVIOUS
  <2>2. d.phase = "tag" /\ d.left = {Left(UsdcVault, 0, 0), Left(EthVault, 0, 0)} /\ d.amount = b.amount
    BY <1>3, <2>1
  <2>3. DrainGoal(b, accts, {})
    BY <1>4, <1>7 DEF Goal
  <2>4. Drained(accts, b.amount)
    BY <1>7, <2>3, PoolsEmpty
  <2>5. TagsVaults(d, accts)
    BY <2>2, <2>4 DEF TagsVaults, Vaults
  <2>6. Goal(d, accts)
    BY <2>2, <2>5 DEF Goal
  <2> QED
    BY <1>2, <1>7, <2>1, <2>2, <2>6, ContinuesDrains
<1>8. ASSUME b.phase = "drain", NEW x \in b.left, NEW had, had = Balance(Loaded, x.acct), NEW then,
             then = [b EXCEPT !.phase = "eth", !.left = @ \ {x}, !.acct = x.acct],
             IF had - EthPart(had) > 0
             THEN Transfers(c, [Request0 EXCEPT !.from = x.acct, !.to = UsdcVault,
                                                !.amount = had - EthPart(had), !.convertTo = Usdc], then)
             ELSE Continues(c, then)
      PROVE  Drains(c)
  <2>1. DrainGoal(b, accts, {})
    BY <1>4, <1>8 DEF Goal
  <2>2. then.phase = "eth" /\ then.left = b.left \ {x} /\ then.acct = x.acct /\ then.amount = b.amount
    BY <1>3, <1>8
  <2>3. x.acct \in AggPools \ ToDrain(then.left)
    <3>1. x.acct \in AggPools \ ToDrain(b.left \ {x})
      BY <2>1, PoolNext
    <3>2. ToDrain(then.left) = ToDrain(b.left \ {x})
      BY <2>2 DEF ToDrain
    <3> QED
      BY <3>1, <3>2
  <2>4. x.acct \in Account
    BY <1>3
  <2>5. had = Held(accts, x.acct) /\ had \in Nat /\ Rest(had) \in Nat /\ Rest(had) = had - EthPart(had)
    BY <1>5, <1>8, <2>4, HeldIs, RestGrows DEF Rest
  <2>6. CASE Rest(had) > 0
    <3>1. PICK n \in Nat \ {0} : n = Rest(had)
      BY <2>5, <2>6
    <3>2. PICK r : r = [Request0 EXCEPT !.from = x.acct, !.to = UsdcVault, !.amount = had - EthPart(had), !.convertTo = Usdc]
      OBVIOUS
    <3>3. r = [from |-> x.acct, to |-> UsdcVault, amount |-> n, convertTo |-> Usdc, external |-> FALSE]
      BY <2>5, <3>1, <3>2 DEF Request0
    <3>4. r \in Request
      BY <1>6, <2>4, <3>3, AskedIs
    <3>5. r.from = x.acct /\ r.to = UsdcVault /\ r.amount = Rest(Held(accts, x.acct)) /\ r.convertTo = Usdc
      BY <2>5, <3>1, <3>3
    <3>6. Transfers(c, r, then)
      BY <1>8, <2>5, <2>6, <3>2
    <3>7. Enough(accts, r) => DrainGoal(then, After(accts, r), {x.acct})
      BY <1>4, <2>1, <2>2, <3>4, <3>5, VaultPaid
    <3>8. Enough(accts, r) => Goal(then, After(accts, r))
      BY <2>2, <2>3, <3>7 DEF Goal
    <3>9. PaysPools(r)
      BY <1>6, <3>5 DEF PaysPools
    <3> QED
      BY <1>2, <2>2, <3>6, <3>8, <3>9, TransfersDrains
  <2>7. CASE ~(Rest(had) > 0)
    <3>1. Continues(c, then)
      BY <1>8, <2>5, <2>7
    <3>2. Rest(Held(accts, x.acct)) = 0
      BY <2>5, <2>7
    <3>3. DrainGoal(then, accts, {x.acct})
      BY <2>1, <2>2, <3>2, VaultSkipped
    <3>4. Goal(then, accts)
      BY <2>2, <2>3, <3>3 DEF Goal
    <3> QED
      BY <1>2, <2>2, <3>1, <3>4, ContinuesDrains
  <2> QED
    BY <2>6, <2>7
<1>9. ASSUME b.phase = "eth", NEW rest, rest = Balance(Loaded, b.acct), NEW then, then = [b EXCEPT !.phase = "drain"],
             IF rest > 0
             THEN Transfers(c, [Request0 EXCEPT !.from = b.acct, !.to = EthVault,
                                                !.amount = rest, !.convertTo = Eth], then)
             ELSE Continues(c, then)
      PROVE  Drains(c)
  <2>1. b.acct \in AggPools \ ToDrain(b.left) /\ DrainGoal(b, accts, {b.acct})
    BY <1>4, <1>9 DEF Goal
  <2>2. then.phase = "drain" /\ then.left = b.left /\ then.amount = b.amount
    BY <1>3, <1>9
  <2>3. rest = Held(accts, b.acct) /\ rest \in Nat
    BY <1>3, <1>5, <1>9, HeldIs
  <2>4. CASE rest > 0
    <3>1. PICK r : r = [Request0 EXCEPT !.from = b.acct, !.to = EthVault, !.amount = rest, !.convertTo = Eth]
      OBVIOUS
    <3>2. r = [from |-> b.acct, to |-> EthVault, amount |-> rest, convertTo |-> Eth, external |-> FALSE]
      BY <3>1 DEF Request0
    <3>3. r \in Request
      <4>1. rest \in Nat \ {0}
        BY <2>3, <2>4
      <4> QED
        BY <1>3, <1>6, <3>2, <4>1, AskedIs
    <3>4. r.from = b.acct /\ r.to = EthVault /\ r.amount = Held(accts, b.acct)
      BY <2>3, <3>2
    <3>5. Enough(accts, r) => DrainGoal(then, After(accts, r), {})
      BY <2>1, <2>2, <3>3, <3>4, PoolDrained
    <3>6. Enough(accts, r) => Goal(then, After(accts, r))
      BY <2>2, <3>5 DEF Goal
    <3>7. PaysPools(r)
      BY <1>6, <3>4 DEF PaysPools
    <3>8. Transfers(c, r, then)
      BY <1>9, <2>4, <3>1
    <3> QED
      BY <1>2, <2>2, <3>6, <3>7, <3>8, TransfersDrains
  <2>5. CASE ~(rest > 0)
    <3>1. Continues(c, then)
      BY <1>9, <2>5
    <3>2. Held(accts, b.acct) = 0
      BY <2>3, <2>5
    <3>3. DrainGoal(then, accts, {})
      BY <2>1, <2>2, <3>2, PoolWasEmpty
    <3>4. Goal(then, accts)
      BY <2>2, <3>3 DEF Goal
    <3> QED
      BY <1>2, <2>2, <3>1, <3>4, ContinuesDrains
  <2> QED
    BY <2>4, <2>5
<1> QED
  BY <1>1, <1>7, <1>8, <1>9 DEF Drain

LEMMA TagDrains ==
    ASSUME SettlementAssumption, Apart, BookInv, BatchInv, DrainInv, NEW c \in Client, Between(c), Tag(c)
    PROVE  Drains(c)
<1>1. PICK b \in Batch : b = batch[c] /\ b.phase = "tag"
  BY DrainsBetween DEF Tag
<1>2. PICK accts \in Accounts : accts = book.accounts
  BY DrainsBetween
<1>3. /\ b = [phase |-> b.phase, left |-> b.left, acct |-> b.acct, amount |-> b.amount, pay |-> b.pay]
      /\ b.left \in SUBSET [acct : Account, n : Nat, usd : Nat]
  BY <1>1, BatchIs
<1>4. Loaded = book /\ PoolsIn(accts)
  BY <1>1, <1>2, SettlesBetween, FromMemory, DrainsBetween
<1>5. TagsVaults(b, accts) \/ (b.left = {Left(MintVault, 0, 0)} /\ accts[MintVault] # NoAccount)
  <2>1. Goal(b, accts)
    BY <1>1, <1>2, DrainsBetween
  <2> QED
    BY <1>1, <2>1 DEF Goal
<1>6. CASE b.left = {} /\ Continues(c, [b EXCEPT !.phase = "mint", !.acct = UsdcVault])
  <2>1. PICK d : d = [b EXCEPT !.phase = "mint", !.acct = UsdcVault]
    OBVIOUS
  <2>2. d.phase = "mint" /\ d.amount = b.amount
    BY <1>3, <2>1
  <2>3. Drained(accts, b.amount)
    BY <1>5, <1>6 DEF TagsVaults
  <2>4. Goal(d, accts)
    BY <2>2, <2>3 DEF Goal
  <2> QED
    BY <1>2, <1>6, <2>1, <2>2, <2>4, ContinuesDrains
<1>7. ASSUME NEW x \in b.left, Loaded.accounts[x.acct] = NoAccount, Continues(c, [b EXCEPT !.left = @ \ {x}])
      PROVE  Drains(c)
  <2>1. PICK d : d = [b EXCEPT !.left = @ \ {x}]
    OBVIOUS
  <2>2. d.phase = "tag" /\ d.left = b.left \ {x} /\ d.amount = b.amount
    BY <1>1, <1>3, <2>1
  <2>3. TagsVaults(b, accts)
    BY <1>2, <1>4, <1>5, <1>7 DEF Left
  <2>4. TagsVaults(d, accts)
    BY <2>2, <2>3 DEF TagsVaults
  <2>5. Goal(d, accts)
    BY <2>2, <2>4 DEF Goal
  <2> QED
    BY <1>2, <1>7, <2>1, <2>2, <2>5, ContinuesDrains
<1>8. ASSUME NEW x \in b.left,
             from' = [from EXCEPT ![c] = Loaded.accounts[x.acct]],
             batch' = [batch EXCEPT ![c] = [b EXCEPT !.phase = "put", !.left = @ \ {x}, !.acct = x.acct]],
             UNCHANGED <<book, file, pc, req, rec, paid, next, unsaved>>
      PROVE  Drains(c)
  <2>1. PICK d : d = [b EXCEPT !.phase = "put", !.left = @ \ {x}, !.acct = x.acct]
    OBVIOUS
  <2>2. d.phase = "put" /\ d.left = b.left \ {x} /\ d.acct = x.acct /\ d.amount = b.amount
    BY <1>3, <2>1
  <2>3. batch'[c] = d /\ from'[c] = accts[d.acct] /\ pc'[c] = "idle" /\ book' = book /\ file' = file
    BY <1>2, <1>4, <1>8, <2>1, <2>2 DEF BatchInv, BookInv, TypeOK, Between
  <2>4. d.acct = MintVault \/ (d.acct \in Vaults /\ TagsVaults(d, accts))
    <3>1. CASE TagsVaults(b, accts)
      <4>1. x.acct \in Vaults
        BY <3>1 DEF TagsVaults, Left
      <4> QED
        BY <2>2, <3>1, <4>1 DEF TagsVaults
    <3>2. CASE b.left = {Left(MintVault, 0, 0)}
      BY <2>2, <3>2 DEF Left
    <3> QED
      BY <1>5, <3>1, <3>2
  <2>5. Goal(d, accts)
    BY <2>2, <2>4 DEF Goal
  <2> QED
    BY <1>2, <1>4, <2>2, <2>3, <2>5 DEF Drains, DrainsAt, Ahead
<1> QED
  BY <1>1, <1>6, <1>7, <1>8 DEF Tag

LEMMA PutDrains ==
    ASSUME SettlementAssumption, Apart, BookInv, BatchInv, DrainInv, NEW c \in Client, Between(c), Put(c)
    PROVE  Drains(c)
<1>1. PICK b \in Batch : b = batch[c] /\ b.phase = "put"
  BY DrainsBetween DEF Put
<1>2. PICK accts \in Accounts : accts = book.accounts
  BY DrainsBetween
<1>3. /\ b = [phase |-> b.phase, left |-> b.left, acct |-> b.acct, amount |-> b.amount, pay |-> b.pay]
      /\ b.acct \in Account
  BY <1>1, BatchIs
<1>4. /\ from[c] = accts[b.acct] /\ from[c] \in BookAccount /\ PoolsIn(accts)
      /\ b.acct = MintVault \/ (b.acct \in Vaults /\ TagsVaults(b, accts))
  BY <1>1, <1>2, DrainsBetween, SettlesBetween DEF Goal
<1>5. PICK entry : entry = [from[c] EXCEPT !.asset = TagAsset(b.acct)]
  OBVIOUS
<1>6. entry \in BookAccount /\ entry.bal = accts[b.acct].bal /\ accts[b.acct] # NoAccount
  <2>1. TagAsset(b.acct) \in Asset
    BY DEF TagAsset, SettlementAssumption
  <2> QED
    BY <1>4, <1>5, <2>1, BookAssumption DEF BookAccount
<1>7. PICK then : then = [accts EXCEPT ![b.acct] = entry]
  OBVIOUS
<1>8. /\ \A q \in Account : Held(then, q) = Held(accts, q)
      /\ \A q \in Account \ {b.acct} : then[q] = accts[q]
  <2>1. \A q \in Account \ {b.acct} : then[q] = accts[q]
    BY <1>7 DEF Accounts
  <2>2. then[b.acct] = entry /\ entry # NoAccount
    BY <1>3, <1>6, <1>7, BookAssumption DEF Accounts
  <2>3. Held(then, b.acct) = Held(accts, b.acct)
    BY <1>6, <2>2 DEF Held
  <2>4. ASSUME NEW q \in Account \ {b.acct} PROVE Held(then, q) = Held(accts, q)
    BY <2>1, <2>4 DEF Held
  <2> QED
    BY <2>1, <2>3, <2>4
<1>9. b.acct \notin Pools /\ Pools \subseteq Account /\ Customer \subseteq Account
         /\ UsdcVault \in Account /\ AggPools \subseteq Account
  BY <1>4, PoolsAre, PoolsFinite DEF Vaults
<1>10. PoolsIn(then)
  BY <1>4, <1>8, <1>9 DEF PoolsIn
<1>11. book'.accounts = then /\ file' = file
  BY <1>1, <1>2, <1>5, <1>7 DEF Put, BookInv, TypeOK, Book
<1>12. pc'[c] \in {"idle", "saveMark"}
  BY DEF Put, Between, BookInv, TypeOK
<1>13. CASE b.acct = MintVault
  <2>1. PICK d : d = [b EXCEPT !.phase = "send", !.acct = UsdcVault]
    OBVIOUS
  <2>2. batch'[c] = d /\ d.phase = "send"
    BY <1>1, <1>3, <1>13, <2>1 DEF Put, BatchInv
  <2>3. Goal(d, then)
    BY <2>2, GoalFree
  <2> QED
    BY <1>10, <1>11, <1>12, <2>2, <2>3 DEF Drains, DrainsAt, Ahead
<1>14. CASE b.acct # MintVault
  <2>1. PICK d : d = [b EXCEPT !.phase = "tag"]
    OBVIOUS
  <2>2. batch'[c] = d /\ d.phase = "tag" /\ d.left = b.left /\ d.amount = b.amount
    BY <1>1, <1>3, <1>14, <2>1 DEF Put, BatchInv
  <2>3. b.acct \in Vaults /\ TagsVaults(b, accts)
    BY <1>4, <1>14
  <2>4. b.acct \notin Customer
    BY <2>3, PoolsAre DEF Vaults
  <2>5. FiatGone(then)
    BY <1>8, <1>9, <2>3, <2>4 DEF FiatGone, TagsVaults, Drained
  <2>6. TagsVaults(d, then)
    BY <1>8, <1>9, <2>2, <2>3, <2>5 DEF TagsVaults, Drained
  <2>7. Goal(d, then)
    BY <2>2, <2>6 DEF Goal
  <2> QED
    BY <1>10, <1>11, <1>12, <2>2, <2>7 DEF Drains, DrainsAt, Ahead
<1> QED
  BY <1>13, <1>14

LEMMA MintDrains ==
    ASSUME SettlementAssumption, Apart, BookInv, BatchInv, DrainInv, NEW c \in Client, Between(c), MintStable(c)
    PROVE  Drains(c)
<1>1. PICK b \in Batch : b = batch[c] /\ b.phase = "mint"
  BY DrainsBetween DEF MintStable
<1>2. PICK accts \in Accounts : accts = book.accounts
  BY DrainsBetween
<1>3. /\ b = [phase |-> b.phase, left |-> b.left, acct |-> b.acct, amount |-> b.amount, pay |-> b.pay]
      /\ b.amount \in Nat
  BY <1>1, BatchIs
<1>4. CASE b.amount > 0 /\ Transfers(c, [Request0 EXCEPT !.amount = b.amount],
                                     [b EXCEPT !.phase = "tag", !.left = {Left(MintVault, 0, 0)}])
  <2>1. PICK d : d = [b EXCEPT !.phase = "tag", !.left = {Left(MintVault, 0, 0)}]
    OBVIOUS
  <2>2. d.phase = "tag" /\ d.left = {Left(MintVault, 0, 0)}
    BY <1>3, <2>1
  <2>3. PICK r : r = [Request0 EXCEPT !.amount = b.amount]
    OBVIOUS
  <2>4. r = [from |-> UsdcVault, to |-> MintVault, amount |-> b.amount, convertTo |-> NoAsset, external |-> FALSE]
    BY <2>3 DEF Request0
  <2>5. r \in Request
    <3>1. b.amount \in Nat \ {0}
      BY <1>3, <1>4
    <3>2. {UsdcVault, MintVault} \subseteq Account
      BY PoolsAre
    <3> QED
      BY <2>4, <3>1, <3>2, AskedIs
  <2>6. Enough(accts, r) => After(accts, r)[MintVault] # NoAccount
    <3>1. r.to = MintVault
      BY <2>4
    <3> QED
      BY <2>5, <3>1, AfterIs
  <2>7. Enough(accts, r) => Goal(d, After(accts, r))
    BY <2>2, <2>6 DEF Goal
  <2>8. PaysPools(r)
    BY <2>4, PoolsAre DEF PaysPools
  <2> QED
    BY <1>2, <1>4, <2>1, <2>2, <2>3, <2>7, <2>8, TransfersDrains
<1>5. CASE Continues(c, [b EXCEPT !.phase = "send"])
  <2>1. PICK d : d = [b EXCEPT !.phase = "send"]
    OBVIOUS
  <2>2. d.phase = "send"
    BY <1>3, <2>1
  <2>3. Goal(d, book.accounts)
    BY <2>2, GoalFree
  <2> QED
    BY <1>5, <2>1, <2>2, <2>3, ContinuesDrains
<1> QED
  BY <1>1, <1>4, <1>5 DEF MintStable

LEMMA PayOutDrains ==
    ASSUME SettlementAssumption, Apart, BookInv, BatchInv, DrainInv, NEW c \in Client, Between(c), PayOut(c)
    PROVE  Drains(c)
<1>1. PICK b \in Batch : b = batch[c] /\ b.phase \in {"send", "payout"}
  BY DrainsBetween DEF PayOut
<1>2. b = [phase |-> b.phase, left |-> b.left, acct |-> b.acct, amount |-> b.amount, pay |-> b.pay]
  BY <1>1, BatchIs
<1>3. PICK then : then = IF b.phase = "send" THEN [b EXCEPT !.phase = "record"] ELSE NoBatch
  OBVIOUS
<1>4. then # NoBatch => then.phase = "record" /\ \A accts : Goal(then, accts)
  <2>1. then # NoBatch => then.phase = "record"
    BY <1>2, <1>3
  <2> QED
    BY <2>1, GoalFree
<1>5. CASE b.pay /\ b.amount > 0
  <2>1. PICK r : r = [Request0 EXCEPT !.from = b.acct, !.to = Receiver, !.amount = b.amount,
                                      !.convertTo = IF b.acct = UsdcVault THEN Usdc ELSE NoAsset, !.external = TRUE]
    OBVIOUS
  <2>2. r.to = Receiver
    BY <2>1 DEF Request0
  <2>3. Transfers(c, r, then)
    BY <1>1, <1>3, <1>5, <2>1 DEF PayOut
  <2>4. PaysPools(r)
    BY <2>2, PoolsAre DEF PaysPools
  <2> QED
    BY <1>4, <2>3, <2>4, TransfersDrains
<1>6. CASE ~(b.pay /\ b.amount > 0)
  <2>1. Continues(c, then)
    BY <1>1, <1>3, <1>6 DEF PayOut
  <2> QED
    BY <1>4, <2>1, ContinuesDrains
<1> QED
  BY <1>5, <1>6

LEMMA RecordDrains ==
    ASSUME BookInv, BatchInv, DrainInv, NEW c \in Client, Between(c), RecordIt(c)
    PROVE  Drains(c)
<1>1. batch'[c] = NoBatch /\ pc'[c] = "saveMark" /\ book' = book /\ file' = file
  BY DEF RecordIt, SavesAnd, Goto, BatchInv, BookInv, TypeOK
<1> QED
  BY <1>1 DEF Drains, DrainsAt, DrainInv

LEMMA BatchStepDrains ==
    ASSUME SettlementAssumption, Apart, BookInv, BatchInv, DrainInv, NEW c \in Client, BatchStep(c)
    PROVE  Drains(c)
<1>1. Between(c)
  BY DEF BatchStep, Between
<1> QED
  BY <1>1, ListDrains, ToPoolsDrains, DrainDrains, TagDrains, PutDrains, MintDrains, PayOutDrains, RecordDrains
  DEF BatchStep

LEMMA LoadedPoolsIn ==
    ASSUME SettlementAssumption, DrainInv, CanLoad
    PROVE  PoolsIn(Loaded.accounts)
<1>1. CASE HasAccounts(book)
  BY <1>1 DEF Loaded, DrainInv
<1>2. CASE ~HasAccounts(book) /\ file = NoFile
  <2>1. \A a \in Pools : EmptyBook.accounts[a] = NoAccount
    BY DEF EmptyBook, Pools, SettlementAssumption
  <2> QED
    BY <1>2, <2>1 DEF Loaded, PoolsIn
<1>3. CASE ~HasAccounts(book) /\ file # NoFile
  BY <1>3 DEF Loaded, CanLoad, DrainInv
<1> QED
  BY <1>1, <1>2, <1>3

\* What is synced or imported names no pool, and requests do not pay into them.
LEMMA SyncPools ==
    ASSUME SettlementAssumption, Apart, BookInv, DrainInv, NEW c \in Client, Sync(c)
    PROVE  /\ PoolsIn(book'.accounts) /\ file' = file /\ pc'[c] = "saveSync"
           /\ req'[c] # NoRequest => PaysPools(req'[c])
<1>1. PICK snap \in Snapshots : book' = Synced(Loaded, snap)
  BY DEF Sync
<1>2. CanLoad /\ file' = file /\ pc'[c] = "saveSync"
  BY DEF Sync, Goto, BookInv, TypeOK
<1>3. Loaded \in Book /\ PoolsIn(Loaded.accounts)
  BY <1>2, LoadedType, LoadedPoolsIn DEF BookInv
<1>4. \A a \in Pools : a \in Account /\ snap[a] = NoAccount
  BY PoolsAre DEF Apart
<1>5. \A a \in Pools : book'.accounts[a] = Loaded.accounts[a]
  BY <1>1, <1>3, <1>4 DEF Synced, Book
<1>6. PICK r \in Requests \cup {NoRequest} : req' = [req EXCEPT ![c] = r]
  BY DEF Sync
<1>7. req'[c] = r
  BY <1>6 DEF BookInv, TypeOK
<1>8. r # NoRequest => r.to \notin Pools
  BY DEF Apart
<1> QED
  BY <1>2, <1>3, <1>5, <1>7, <1>8 DEF PoolsIn, PaysPools

LEMMA ImportPools ==
    ASSUME SettlementAssumption, Apart, BookInv, DrainInv, NEW c \in Client, Import(c)
    PROVE  PoolsIn(book'.accounts) /\ file' = file /\ pc'[c] \in {"saveImport", "resync"}
<1>1. PICK entries \in Imports : book' = Imported(Loaded, entries)
  BY DEF Import
<1>2. CanLoad /\ file' = file /\ pc'[c] \in {"saveImport", "resync"}
  BY DEF Import, Goto, BookInv, TypeOK
<1>3. Loaded \in Book /\ PoolsIn(Loaded.accounts)
  BY <1>2, LoadedType, LoadedPoolsIn DEF BookInv
<1>4. \A a \in Pools : a \in Account /\ ~Usable(entries[a])
  BY PoolsAre DEF Apart, Usable
<1>5. \A a \in Pools : book'.accounts[a] = Loaded.accounts[a]
  BY <1>1, <1>3, <1>4 DEF Imported, Book
<1> QED
  BY <1>2, <1>3, <1>5 DEF PoolsIn

LEMMA BeginDrains ==
    ASSUME SettlementAssumption, Apart, BookInv, BatchInv, DrainInv, NEW c \in Client, BatchBegin(c)
    PROVE  Drains(c)
<1>1. /\ PoolsIn(book'.accounts) /\ file' = file /\ pc'[c] = "saveSync"
      /\ req'[c] # NoRequest => PaysPools(req'[c])
  BY SyncPools DEF BatchBegin
<1>2. PICK pay \in BOOLEAN :
         batch' = [batch EXCEPT ![c] =
              [phase |-> IF req'[c] = NoRequest THEN "list"
                         ELSE IF pay /\ ~req'[c].external THEN "convert" ELSE "record",
               left |-> {}, acct |-> UsdcVault, amount |-> 0, pay |-> pay]]
  BY DEF BatchBegin
<1>3. batch'[c].phase \in {"list", "convert", "record"} /\ batch'[c].amount = 0
  BY <1>2 DEF BatchInv
<1>4. Goal(batch'[c], book'.accounts)
  BY <1>3, GoalFree
<1> QED
  BY <1>1, <1>3, <1>4 DEF Drains, DrainsAt, Ahead

\* A client that is not about to ask for a transfer, in or without a settlement.
LEMMA EndsDrains ==
    ASSUME BookInv, BatchInv, DrainInv, NEW c \in Client, Ends(c), Done(c),
           PoolsIn(book'.accounts), file' \in {file, Broken, book}
    PROVE  Drains(c)
<1>1. batch'[c] = NoBatch /\ pc'[c] = "idle"
  BY DEF Ends, Done, Goto, BatchInv, BookInv, TypeOK
<1> QED
  BY <1>1 DEF Drains, DrainsAt

LEMMA SameDrains ==
    ASSUME BookInv, BatchInv, DrainInv, NEW c \in Client, pc[c] # "idle", ~Ahead(pc[c]), batch' = batch,
           book'.accounts = book.accounts, pc'[c] \notin {"saveSync", "read", "apply"}, file' \in {file, Broken, book}
    PROVE  Drains(c)
<1>1. DrainsAt(batch[c], pc[c], req[c], from[c], book.accounts) /\ PoolsIn(book.accounts)
  BY DEF DrainInv
<1>2. batch[c] # NoBatch => batch[c].phase # "put"
  BY DEF BatchInv, SettlesAt
<1> QED
  BY <1>1, <1>2 DEF Drains, DrainsAt, Ahead

LEMMA SaveDrains ==
    ASSUME BookInv, BatchInv, DrainInv, NEW c \in Client, Save(c), batch' = batch
    PROVE  Drains(c)
<1>1. book' = book /\ file' = book /\ pc[c] \in Saving
  BY DEF Save
<1>2. pc \in [Client -> Saving \cup {"idle", "resync", "read", "apply", "settle", "mark"}]
  BY DEF BookInv, TypeOK
<1>3. CASE pc'[c] \notin {"saveSync", "read", "apply"}
  BY <1>1, <1>3, SameDrains DEF Saving, Ahead
<1>4. CASE pc'[c] \in {"saveSync", "read", "apply"}
  <2>1. AfterSave(c) # "idle"
    BY <1>2, <1>4 DEF Save, Done, Goto
  <2>2. pc'[c] = AfterSave(c) /\ req' = req /\ from' = from
    BY <1>2, <2>1 DEF Save, Goto
  <2>3. pc[c] = "saveSync" /\ pc'[c] = "read" /\ req[c] # NoRequest
    BY <1>1, <1>4, <2>1, <2>2, AfterSaveCases
  <2>4. DrainsAt(batch[c], pc[c], req[c], from[c], book.accounts) /\ PoolsIn(book.accounts)
    BY DEF DrainInv
  <2>5. batch[c] # NoBatch => batch[c].phase \in {"list", "convert", "record"} /\ \A accts : Goal(batch[c], accts)
    BY <2>3, <2>4, GoalFree DEF DrainsAt
  <2> QED
    BY <1>1, <2>2, <2>3, <2>4, <2>5 DEF Drains, DrainsAt
<1> QED
  BY <1>3, <1>4

LEMMA ReadDrains ==
    ASSUME SettlementAssumption, BookInv, BatchInv, DrainInv, NEW c \in Client, ReadAccount(c), batch' = batch
    PROVE  Drains(c)
<1>1. /\ pc[c] = "read" /\ CanLoad /\ Funds(c) /\ book' = Loaded /\ file' = file /\ req' = req
      /\ from'[c] = Loaded.accounts[req[c].from] /\ pc'[c] = "apply"
  BY DEF ReadAccount, Goto, BookInv, TypeOK
<1>2. PoolsIn(Loaded.accounts)
  BY <1>1, LoadedPoolsIn
<1>3. DrainsAt(batch[c], pc[c], req[c], from[c], book.accounts)
  BY DEF DrainInv
<1>4. PaysPools(req[c])
  <2>1. req[c] # NoRequest
    BY <1>1, BookAssumption DEF BookInv, ClientInv
  <2> QED
    BY <1>1, <1>3, <2>1 DEF DrainsAt
<1>5. Enough(Loaded.accounts, req[c])
  BY <1>1 DEF Funds, Enough
<1>6. ASSUME batch[c] # NoBatch
      PROVE  batch[c].phase # "put" /\ Goal(batch[c], After(Loaded.accounts, req[c]))
  <2>1. SettlesAt(batch[c], pc[c], req[c], from[c], book, file)
    BY <1>6 DEF BatchInv
  <2>2. batch[c].phase # "put"
    BY <1>1, <2>1 DEF SettlesAt
  <2>3. CASE HasAccounts(book)
    <3>1. Loaded = book
      BY <2>3, FromMemory
    <3> QED
      BY <1>1, <1>3, <1>5, <1>6, <2>2, <3>1 DEF DrainsAt, Ahead
  <2>4. CASE ~HasAccounts(book)
    <3>1. batch[c].phase \in {"list", "convert", "record"}
      BY <2>1, <2>4 DEF SettlesAt
    <3> QED
      BY <2>2, <3>1, GoalFree
  <2> QED
    BY <2>3, <2>4
<1> QED
  BY <1>1, <1>2, <1>3, <1>4, <1>6 DEF Drains, DrainsAt, Ahead

LEMMA ApplyDrains ==
    ASSUME SettlementAssumption, Apart, BookInv, BatchInv, DrainInv, NEW c \in Client, Apply(c), Converts(c)
    PROVE  Drains(c)
<1>1. DrainsAt(batch[c], pc[c], req[c], from[c], book.accounts) /\ PoolsIn(book.accounts)
  BY DEF DrainInv
<1>2. /\ pc[c] = "apply" /\ pc'[c] = "saveXfer" /\ file' = file
      /\ req[c] \in Request /\ from[c] \in BookAccount /\ from[c].bal >= req[c].amount
  BY DEF Apply, Goto, BookInv, TypeOK, ClientInv
<1>3. PICK accts \in Accounts : accts = book.accounts
  BY BookFields DEF BookInv, TypeOK
<1>4. PICK r \in Request : r = req[c]
  BY <1>2
<1>5. from[c] = accts[r.from] /\ PaysPools(r) /\ PoolsIn(accts)
  BY <1>1, <1>2, <1>3, <1>4, BookAssumption DEF DrainsAt
<1>6. Enough(accts, r)
  BY <1>2, <1>4, <1>5, BookAssumption DEF Enough
<1>7. book'.accounts = After(accts, r)
  BY <1>3, <1>4, <1>5 DEF Apply, After
<1>8. PoolsIn(After(accts, r))
  BY <1>5, <1>6, AfterPools, PoolsAre
<1>9. batch \in [Client -> Batch \cup {NoBatch}]
  BY DEF BatchInv
<1>10. CASE batch[c] = NoBatch
  <2>1. batch'[c] = NoBatch
    BY <1>10 DEF Converts
  <2> QED
    BY <1>2, <1>7, <1>8, <2>1 DEF Drains, DrainsAt
<1>11. CASE batch[c] # NoBatch /\ batch[c].phase # "convert"
  <2>1. batch'[c] = batch[c]
    BY <1>11 DEF Converts
  <2>2. batch[c].phase # "put"
    BY <1>2, <1>11 DEF BatchInv, SettlesAt
  <2>3. Goal(batch[c], After(accts, r))
    BY <1>1, <1>2, <1>3, <1>4, <1>6, <1>11 DEF DrainsAt, Ahead
  <2> QED
    BY <1>1, <1>2, <1>7, <1>8, <1>11, <2>1, <2>2, <2>3 DEF Drains, DrainsAt, Ahead
<1>12. CASE batch[c] # NoBatch /\ batch[c].phase = "convert"
  <2>1. batch'[c].phase = "payout"
    <3>1. batch[c] \in Batch
      BY <1>9, <1>12
    <3>2. batch[c] = [phase |-> batch[c].phase, left |-> batch[c].left, acct |-> batch[c].acct,
                      amount |-> batch[c].amount, pay |-> batch[c].pay]
      BY <3>1, BatchIs
    <3> QED
      BY <1>9, <1>12, <3>2 DEF Converts
  <2>2. Goal(batch'[c], After(accts, r))
    BY <2>1, GoalFree
  <2> QED
    BY <1>2, <1>7, <1>8, <2>1, <2>2 DEF Drains, DrainsAt, Ahead
<1> QED
  BY <1>10, <1>11, <1>12

LEMMA BookStepDrains ==
    ASSUME SettlementAssumption, Apart, BookInv, BatchInv, DrainInv, NEW c \in Client, BookStep(c)
    PROVE  Drains(c)
<1>1. PoolsIn(book.accounts)
  BY DEF DrainInv
<1>2. pc \in [Client -> Saving \cup {"idle", "resync", "read", "apply", "settle", "mark"}]
  BY DEF BookInv, TypeOK
<1>3. CASE batch[c] = NoBatch /\ (Sync(c) \/ Import(c)) /\ UNCHANGED batch
  <2>1. batch'[c] = NoBatch
    BY <1>3
  <2> QED
    BY <1>3, <2>1, SyncPools, ImportPools DEF Drains, DrainsAt
<1>4. CASE (ResyncFails(c) \/ (pc[c] = "saveMark" /\ SaveFails(c))) /\ UNCHANGED batch
  <2>1. /\ book' = book /\ file' \in {file, Broken, book} /\ pc[c] \in {"resync", "saveMark"}
        /\ pc'[c] = "idle"
    BY <1>2, <1>4 DEF ResyncFails, SaveFails, Done, Goto
  <2> QED
    BY <1>4, <2>1, SameDrains DEF Ahead
<1>5. CASE (Settle(c) \/ Mark(c)) /\ UNCHANGED batch
  <2>1. /\ book'.accounts = book.accounts /\ file' = file /\ pc[c] \in {"settle", "mark"}
        /\ pc'[c] \in {"mark", "saveMark"}
    BY <1>2, <1>5 DEF Settle, Mark, Goto, BookInv, TypeOK, Book
  <2> QED
    BY <1>5, <2>1, SameDrains DEF Ahead
<1>6. CASE (Refuse(c) \/ SettleFails(c) \/ SaveFails(c)) /\ Ends(c)
  <2>1. /\ Done(c) /\ file' \in {file, Broken, book}
        /\ book' = book \/ (CanLoad /\ book' = Loaded)
    BY <1>6 DEF Refuse, SettleFails, SaveFails
  <2>2. PoolsIn(book'.accounts)
    BY <1>1, <2>1, LoadedPoolsIn
  <2> QED
    BY <1>6, <2>1, <2>2, EndsDrains
<1> QED
  BY <1>3, <1>4, <1>5, <1>6, SaveDrains, ReadDrains, ApplyDrains DEF BookStep

LEMMA DrainStep ==
    ASSUME SettlementAssumption, Apart, OneAtATime, BookInv, BatchInv, DrainInv, [SettlementNext]_settlementVars
    PROVE  DrainInv'
<1>1. ASSUME NEW c \in Client, BatchBegin(c) \/ BatchStep(c) \/ BookStep(c)
      PROVE  DrainInv'
  <2>1. Drains(c)
    BY <1>1, BeginDrains, BatchStepDrains, BookStepDrains
  <2> QED
    BY <2>1, DrainsAll
<1>2. CASE Stop /\ batch' = [c \in Client |-> NoBatch]
  <2>1. book' = EmptyBook /\ file' \in {file, Broken} /\ \A c \in Client : pc'[c] = "idle" /\ batch'[c] = NoBatch
    BY <1>2 DEF Stop
  <2>2. PoolsIn(EmptyBook.accounts)
    BY PoolsAre DEF EmptyBook, PoolsIn
  <2> QED
    BY <2>1, <2>2 DEF DrainInv, DrainsAt
<1>3. CASE UNCHANGED settlementVars
  <2>1. UNCHANGED <<book, file, pc, req, from, batch>>
    BY <1>3 DEF settlementVars, vars
  <2> QED
    BY <2>1 DEF DrainInv
<1> QED
  BY <1>1, <1>2, <1>3 DEF SettlementNext

LEMMA DrainStarts ==
    ASSUME SettlementAssumption, Apart, SettlementInit
    PROVE  DrainInv
<1>1. \A c \in Client : pc[c] = "idle" /\ batch[c] = NoBatch
  BY DEF SettlementInit, Init
<1>2. PoolsIn(book.accounts) /\ file = NoFile
  BY PoolsAre DEF SettlementInit, Init, EmptyBook, PoolsIn
<1> QED
  BY <1>1, <1>2 DEF DrainInv, DrainsAt

LEMMA DrainInvGives ==
    ASSUME SettlementAssumption, Apart, BookInv, DrainInv
    PROVE  BatchDrains
<1>1. SUFFICES ASSUME NEW c \in Client, batch[c] # NoBatch, batch[c].phase = "mint", pc[c] = "idle"
               PROVE  /\ \A k \in Class : Balance(book, PoolOf[k]) = 0
                      /\ FiatAccounts(book) = {}
                      /\ Balance(book, UsdcVault) >= batch[c].amount
  BY DEF BatchDrains
<1>2. DrainsAt(batch[c], pc[c], req[c], from[c], book.accounts) /\ PoolsIn(book.accounts)
  BY DEF DrainInv
<1>3. Drained(book.accounts, batch[c].amount)
  BY <1>1, <1>2 DEF DrainsAt, Goal, Ahead
<1>4. \A a : Balance(book, a) = Held(book.accounts, a)
  BY DEF Balance, Held
<1>5. ASSUME NEW k \in Class
      PROVE  Held(book.accounts, PoolOf[k]) = 0
  <2>1. PICK a \in Pools : a = PoolOf[k]
    BY DEF Pools
  <2>2. CASE book.accounts[a] = NoAccount
    BY <2>1, <2>2 DEF Held
  <2>3. CASE book.accounts[a] # NoAccount
    BY <1>2, <1>3, <2>1, <2>3 DEF PoolsIn, Drained
  <2> QED
    BY <2>2, <2>3
<1>6. FiatAccounts(book) = {}
  BY <1>3, <1>4 DEF Drained, FiatGone, FiatAccounts
<1>7. Held(book.accounts, UsdcVault) \in Nat /\ batch[c].amount <= Held(book.accounts, UsdcVault)
  BY <1>3, PoolsAre, HeldIs, BookFields DEF Drained, BookInv, TypeOK
<1>8. Held(book.accounts, UsdcVault) >= batch[c].amount
  BY <1>7
<1> QED
  BY <1>4, <1>5, <1>6, <1>8

\* Where requests do not overlap, only batches pay into the pools and a USDC is
\* worth a dollar: a batch that comes to mint has left no fiat behind, no money
\* in any pool, and in the vault all it is about to mint, whatever earlier
\* batches left in the pools when they failed, and however the ETH part rounds.
THEOREM BatchesDrain ==
    ASSUME SettlementAssumption, Apart, OneAtATime
    PROVE  SettlementSpec => []BatchDrains
<1>1. SettlementInit => DrainInv
  BY DrainStarts
<1>2. BookInv /\ BatchInv /\ DrainInv /\ [SettlementNext]_settlementVars => DrainInv'
  BY DrainStep
<1>3. BookInv /\ BatchInv /\ DrainInv => BatchDrains
  BY DrainInvGives
<1> QED
  BY <1>1, <1>2, <1>3, SettlementInvariance, PTL DEF SettlementSpec

==============================================================================
