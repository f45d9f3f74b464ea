----------------------------- MODULE OnlineBank -----------------------------
(***************************************************************************)
(* The online bank of the bridge (internal/ledger/online_bank.go) and the  *)
(* requests that move money in it (bridge/online_bank_handlers.go): seeded *)
(* from the bank ledger file, transfers, sends to other banks, deposits,   *)
(* and the mirror of accounts that a Fineract core keeps.                  *)
(*                                                                         *)
(* Every call makes a store of its own, so its mutex excludes nobody: a    *)
(* request loads the file, works on its copy, and writes the whole copy    *)
(* back, and other requests run in between.                                *)
(***************************************************************************)
EXTENDS Service, Naturals, FiniteSets

CONSTANTS
    Account, Currency,
    Seeded,     \* the accounts that the bank ledger file gives
    CoreAccounts, \* accounts a Fineract core keeps
    CoreOpening, CoreCurrency, \* what they hold there at first
    Requests,   \* what clients ask for
    Provider,   \* a live bank API (Plaid, TrueLayer) is configured
    Outside, Federated, \* destinations outside the bank; Federated is the bank "hybx"
    NoAccount, NoRequest

\* Bounds, and what the environment may do.
CONSTANTS
    MaxStarted, \* requests started
    CoreFaults  \* the Fineract core may refuse

\* "in" and "out" are the sums of the account's lines in Transactions, and
\* "settled" is the part of "out" in sends whose status is completed.
BankAccount == [currency : Currency, opening : Nat, bal : Nat,
                in : Nat, out : Nat, settled : Nat]
BankFile == [Account -> BankAccount \cup {NoAccount}]
Request == [op : {"move", "send", "deposit", "coreSync", "coreDeposit", "coreWithdraw"},
            from : Account \cup {NoAccount},
            to : Account \cup {Outside, Federated, NoAccount}, amount : Nat]

ASSUME BankAssumption ==
    /\ Seeded \in BankFile
    /\ \A a \in Account : Seeded[a] # NoAccount =>
          /\ Seeded[a].bal = Seeded[a].opening
          /\ Seeded[a].in = 0 /\ Seeded[a].out = 0 /\ Seeded[a].settled = 0
    /\ CoreAccounts \subseteq Account /\ Requests \subseteq Request
    /\ CoreOpening \in [CoreAccounts -> Nat] /\ CoreCurrency \in Currency
    /\ NoAccount \notin BankAccount /\ NoAccount \notin Account
    /\ {Outside, Federated} \cap (Account \cup {NoAccount}) = {} /\ Outside # Federated
    /\ NoRequest \notin Request /\ {NoFile, Broken} \cap BankFile = {} /\ NoFile # Broken
    /\ MaxStarted \in Nat
    /\ {Provider, DiskFaults, Stops, CoreFaults} \subseteq BOOLEAN

VARIABLES
    bank,    \* online-bank.json
    pc,      \* the next step of each client
    req,     \* its request
    view,    \* its copy of the bank
    core,    \* balances in the Fineract core
    fed,     \* sends and purchases told to the HYBX federation
    handed,  \* history: what external rails were given, by account
    started  \* history: requests started

clientVars == <<pc, req, view>>
bankVars == <<bank, pc, req, view, core, fed, handed, started>>

EmptyBank == [a \in Account |-> NoAccount]

BankInit ==
    /\ bank = NoFile
    /\ pc = [c \in Client |-> "idle"] /\ req = [c \in Client |-> NoRequest]
    /\ view = [c \in Client |-> EmptyBank]
    /\ core = CoreOpening
    /\ fed = 0 /\ handed = [a \in Account |-> 0] /\ started = 0

Goto(c, label) == pc' = [pc EXCEPT ![c] = label]

\* The request of a client ends, answered or refused.
Done(c) ==
    /\ Goto(c, "idle")
    /\ req' = [req EXCEPT ![c] = NoRequest]
    /\ view' = [view EXCEPT ![c] = EmptyBank]

-----------------------------------------------------------------------------
(* The store *)

\* load: a missing file is an empty bank; one that does not parse is an error.
CanLoad == bank # Broken
Loaded == IF bank = NoFile THEN EmptyBank ELSE bank

\* save: the whole copy, or an error that may have cut the file short.
Save(st) == bank' = st
SaveFails == DiskFaults /\ bank' \in {bank, Broken}

NoAccounts(st) == \A a \in Account : st[a] = NoAccount
Exists(st, a) == a \in Account /\ st[a] # NoAccount

\* EnsureSystemAccount: an empty account, unless it is there.
WithSystemAccount(st, a, cur) ==
    [st EXCEPT ![a] = [currency |-> cur, opening |-> 0, bal |-> 0,
                       in |-> 0, out |-> 0, settled |-> 0]]

Debited(st, a, n) == [st EXCEPT ![a].bal = @ - n, ![a].out = @ + n]
\* Mutant of Credited: no line in the statement.
CreditedUnbooked(st, a, n) == [st EXCEPT ![a].bal = @ + n]

Credited(st, a, n) == [st EXCEPT ![a].bal = @ + n, ![a].in = @ + n]

\* Mutant of CanDebit: the balance is not looked at.
CanDebitUnchecked(st, a, n) == Exists(st, a) /\ n > 0

\* DebitAccount: a card's purchase, a wire, a conversion to HYBX.
CanDebit(st, a, n) == Exists(st, a) /\ n > 0 /\ st[a].bal >= n

\* Deposit.
CanDeposit(st, a, n) == Exists(st, a) /\ n > 0

\* Transfer between two accounts: the debit is in the copy when the account to
\* credit is looked up, so a transfer to oneself changes no balance.
CanMove(st, a, b, n) ==
    CanDebit(st, a, n) /\ Exists(st, b) /\ st[a].currency = st[b].currency
Moved(st, a, b, n) == Credited(Debited(st, a, n), b, n)

-----------------------------------------------------------------------------
(* A request *)

\* EnsureSeeded, which every handler calls first, saves the accounts of the
\* ledger file if its copy of the bank has none.
Start(c) ==
    /\ pc[c] = "idle" /\ CanLoad /\ started < MaxStarted
    /\ \E r \in Requests : req' = [req EXCEPT ![c] = r]
    /\ started' = started + 1
    /\ Goto(c, IF NoAccounts(Loaded) THEN "seed" ELSE "load")
    /\ UNCHANGED <<bank, view, core, fed, handed>>

Seed(c) ==
    /\ pc[c] = "seed"
    /\ \/ Save(Seeded) /\ Goto(c, "load") /\ UNCHANGED <<req, view>>
       \/ SaveFails /\ Done(c)
    /\ UNCHANGED <<core, fed, handed, started>>

External(r) == r.to \in {Outside, Federated}
IsMove(r) == r.op \in {"move", "send"} /\ ~External(r)

Accepts(st, r) ==
    CASE r.op = "deposit" -> CanDeposit(st, r.to, r.amount)
      [] IsMove(r) -> CanMove(st, r.from, r.to, r.amount)
      [] OTHER -> CanDebit(st, r.from, r.amount)

\* InitiateBankTransfer: a configured provider takes the send or not, and if its
\* answer is lost the send is pending all the same; without one the bank "hybx"
\* does, and any other waits as pending.
Settles(r) ==
    IF Provider
    THEN {[taken |-> TRUE, completed |-> TRUE], [taken |-> TRUE, completed |-> FALSE],
          [taken |-> FALSE, completed |-> FALSE]}
    ELSE {[taken |-> r.to = Federated, completed |-> r.to = Federated]}
NotSent == [taken |-> FALSE, completed |-> FALSE]

\* Mutant of Applied: a send is completed whether or not a rail took it.
AppliedCompleted(st, r, completed) ==
    CASE r.op = "deposit" -> Credited(st, r.to, r.amount)
      [] IsMove(r) -> Moved(st, r.from, r.to, r.amount)
      [] OTHER -> [Debited(st, r.from, r.amount) EXCEPT ![r.from].settled = @ + r.amount]

\* The copy after the request: a send is completed when a rail took it.
Applied(st, r, completed) ==
    CASE r.op = "deposit" -> Credited(st, r.to, r.amount)
      [] IsMove(r) -> Moved(st, r.from, r.to, r.amount)
      [] OTHER -> [Debited(st, r.from, r.amount) EXCEPT
                      ![r.from].settled = @ + (IF completed THEN r.amount ELSE 0)]

\* Transfer and Deposit up to their save: an external send is handed to its
\* rail before the file has it.
Work(c) ==
    /\ pc[c] = "load" /\ req[c].op \in {"move", "send", "deposit"}
    /\ IF CanLoad /\ Accepts(Loaded, req[c])
       THEN \E sent \in IF External(req[c]) THEN Settles(req[c]) ELSE {NotSent} :
               /\ view' = [view EXCEPT ![c] = Applied(Loaded, req[c], sent.completed)]
               /\ handed' = IF sent.taken THEN [handed EXCEPT ![req[c].from] = @ + req[c].amount]
                            ELSE handed
               /\ fed' = IF sent.taken /\ ~Provider THEN fed + 1 ELSE fed
               /\ Goto(c, "save") /\ UNCHANGED req
       ELSE Done(c) /\ UNCHANGED <<fed, handed>>
    /\ UNCHANGED <<bank, core, started>>

Write(c) ==
    /\ pc[c] = "save"
    /\ \/ Save(view[c]) /\ Goto(c, "apply") /\ UNCHANGED <<req, view>>
       \/ SaveFails /\ Done(c)
    /\ UNCHANGED <<core, fed, handed, started>>

\* The Fineract core posts a transaction, or refuses it.
CoreTakes(a, n) == core[a] >= n /\ core' = [core EXCEPT ![a] = @ - n]
CoreGives(a, n) == core' = [core EXCEPT ![a] = @ + n]

CoreRefuses(r) ==
    \/ CoreFaults /\ (r.op = "coreSync" \/ {r.from, r.to} \cap CoreAccounts # {})
    \/ r.from \in CoreAccounts /\ core[r.from] < r.amount

\* Mutant of CoreApplies: the account to credit is looked at first, and alone.
CoreAppliesCredit(r) ==
    IF r.to \in CoreAccounts THEN CoreGives(r.to, r.amount) ELSE UNCHANGED core

\* applyFineractTransfer, applyFineractDeposit: what is left of a transfer from
\* a core account is not looked at once the withdrawal is made.
CoreApplies(r) ==
    CASE r.from \in CoreAccounts -> CoreTakes(r.from, r.amount)
      [] r.from \notin CoreAccounts /\ r.to \in CoreAccounts -> CoreGives(r.to, r.amount)
      [] OTHER -> UNCHANGED core

\* applyHybrixTransfer: a send to the bank "hybx" goes to its federation.
HybrixTransfer(r) == fed' = IF r.to = Federated THEN fed + 1 ELSE fed

\* After the file has it, the core is told, and the federation unless the core
\* failed.
Apply(c) ==
    /\ pc[c] = "apply"
    /\ \/ /\ CoreApplies(req[c])
          /\ HybrixTransfer(req[c])
       \/ /\ CoreRefuses(req[c])
          /\ UNCHANGED <<core, fed>>
    /\ Done(c)
    /\ UNCHANGED <<bank, handed, started>>

\* SyncFineractToOnlineBank: the core's accounts as it has them, in the copy.
CoreSynced(st, balances) ==
    [a \in Account |->
        IF a \notin CoreAccounts THEN st[a]
        ELSE [(IF st[a] = NoAccount THEN WithSystemAccount(st, a, CoreCurrency) ELSE st)[a]
                 EXCEPT !.bal = balances[a]]]

\* SyncFineractAccounts, and FineractDeposit and FineractWithdraw, which post
\* to the core and then sync, ignoring an error of the sync.
CoreWork(c) ==
    /\ pc[c] = "load" /\ req[c].op \in {"coreSync", "coreDeposit", "coreWithdraw"}
    /\ \/ /\ CASE req[c].op = "coreDeposit" -> CoreGives(req[c].to, req[c].amount)
               [] req[c].op = "coreWithdraw" -> CoreTakes(req[c].from, req[c].amount)
               [] OTHER -> UNCHANGED core
          /\ IF CanLoad
             THEN /\ view' = [view EXCEPT ![c] = CoreSynced(Loaded, core')]
                  /\ Goto(c, "saveSync") /\ UNCHANGED req
             ELSE Done(c)
       \/ CoreRefuses(req[c]) /\ UNCHANGED core /\ Done(c)
    /\ UNCHANGED <<bank, fed, handed, started>>

CoreWrite(c) ==
    /\ pc[c] = "saveSync"
    /\ Save(view[c]) \/ SaveFails
    /\ Done(c)
    /\ UNCHANGED <<core, fed, handed, started>>

\* The process stops: every request is cut where it is.
Stop ==
    /\ Stops /\ \E c \in Client : pc[c] # "idle"
    /\ pc' = [c \in Client |-> "idle"] /\ req' = [c \in Client |-> NoRequest]
    /\ view' = [c \in Client |-> EmptyBank]
    /\ UNCHANGED <<bank, core, fed, handed, started>>

BankNext ==
    \/ \E c \in Client : \/ Start(c) \/ Seed(c) \/ Work(c) \/ Write(c) \/ Apply(c)
                         \/ CoreWork(c) \/ CoreWrite(c)
    \/ Stop

BankSpec == BankInit /\ [][BankNext]_bankVars

-----------------------------------------------------------------------------

BankTypeOK ==
    /\ bank \in BankFile \cup {NoFile, Broken}
    /\ pc \in [Client -> {"idle", "seed", "load", "save", "apply", "saveSync"}]
    /\ req \in [Client -> Request \cup {NoRequest}]
    /\ view \in [Client -> BankFile]
    /\ core \in [CoreAccounts -> Nat] /\ fed \in Nat
    /\ handed \in [Account -> Nat] /\ started \in 0..MaxStarted

Balanced(acct) == acct.bal + acct.out = acct.opening + acct.in

\* The statement explains every balance of the bank's own accounts, whatever
\* requests overlap, are cut short or lose their write to another's: a save is
\* the whole of one copy, lines and balances together.
Reconciled ==
    bank \notin {NoFile, Broken} =>
        \A a \in DOMAIN bank \ CoreAccounts : bank[a] # NoAccount => Balanced(bank[a])

Quiet == \A c \in Client : pc[c] = "idle"

\* What the statement says was sent was given to a rail, whatever requests
\* overlap, fail or are cut: a send is completed only by the answer of the rail,
\* and a copy that is written over another's loses lines, but makes none up.
BookedIsSent ==
    bank \notin {NoFile, Broken} =>
        \A a \in DOMAIN bank : bank[a] # NoAccount => bank[a].settled <= handed[a]

\* With one request at a time and no failures the bank's copy of a core account
\* is what the core has, if nobody transfers between two core accounts.
CoreFollows ==
    Quiet /\ bank \notin {NoFile, Broken} =>
        \A a \in CoreAccounts : bank[a] # NoAccount => bank[a].bal = core[a]

\* One request at a time, none cut or failing halfway; the core's accounts are
\* not in the ledger file, a transfer has at most one of them, and a deposit
\* names no account that it is taken from.
CoreAlone ==
    /\ \E c \in Client : Client = {c}
    /\ ~DiskFaults /\ ~Stops /\ ~CoreFaults
    /\ \A a \in CoreAccounts : Seeded[a] = NoAccount
    /\ \A r \in Requests :
          /\ ~(r.from \in CoreAccounts /\ r.to \in CoreAccounts)
          /\ r.op = "deposit" => r.from = NoAccount
=============================================================================
