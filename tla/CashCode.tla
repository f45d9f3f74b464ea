------------------------------ MODULE CashCode ------------------------------
(***************************************************************************)
(* Cash codes: pickup codes backed by money held in one escrow account of  *)
(* the online bank (internal/ledger/cashcode.go, bridge/cashcode.go).      *)
(*                                                                         *)
(* A request works on two files, cash-codes.json and online-bank.json, one *)
(* load or save at a time, and nothing excludes another request between    *)
(* two of them.                                                            *)
(***************************************************************************)
EXTENDS OnlineBank, Functions

CONSTANTS
    Code,         \* ids of cash codes, and with each its plaintext
    Escrow,       \* CashCodeEscrowAccountID
    DefaultCurrency, \* "USD"
    CashRequests, \* what clients ask for
    NoCode,
    ClockRuns     \* a code may expire in the middle of a request

CashRecord == [amount : Nat \ {0}, currency : Currency, issuer : Account,
               status : {"active", "redeemed", "cancelled", "expired"},
               escrowed : BOOLEAN, collected : BOOLEAN]
CashFile == [Code -> CashRecord \cup {NoCode}]
CashRequest == [op : {"issue", "redeem", "cancel"}, code : Code \cup {NoCode},
                acct : Account \cup {NoAccount}, amount : Nat, currency : Currency]

\* What the instances assume of them.
CashAssumption ==
    /\ Escrow \in Account /\ DefaultCurrency \in Currency
    /\ CashRequests \subseteq CashRequest
    /\ \A r \in CashRequests : r.op = "cancel" => r.code \in Code
    /\ NoCode \notin CashRecord /\ NoCode \notin Code /\ Broken \notin CashFile
    /\ ClockRuns \in BOOLEAN

VARIABLES
    codes,  \* cash-codes.json
    cview,  \* each client's copy of it
    late,   \* codes whose ExpiresAt is past
    known,  \* codes whose plaintext a client was given
    drawn,  \* history: codes generated
    funded, \* history: codes whose money has reached the escrow account
    paid,   \* history: redemptions paid out of it, by code
    refunded \* history: refunds paid out of it, by code

history == <<drawn, funded, paid, refunded>>
cashVars == <<codes, cview, late, known, history>>
vars == <<bankVars, cashVars>>

NoCodes == [k \in Code |-> NoCode]

Init ==
    /\ BankInit
    /\ codes = NoCodes /\ cview = [c \in Client |-> NoCodes]
    /\ late = {} /\ known = {} /\ drawn = {} /\ funded = {}
    /\ paid = [k \in Code |-> 0] /\ refunded = [k \in Code |-> 0]

-----------------------------------------------------------------------------
(* The store *)

CanLoadCodes == codes # Broken
SaveCodes(c) == codes' = cview[c]
SaveCodesFails == DiskFaults /\ codes' \in {codes, Broken}

CashDone(c) == Done(c) /\ cview' = [cview EXCEPT ![c] = NoCodes]

\* validateCashCodeActive, for the right PIN: a wrong one changes nothing.
Valid(f, k) == f[k] # NoCode /\ f[k].status = "active" /\ k \notin late

\* Issue: a new code, active before any money has moved.
Issued(f, r) ==
    [f EXCEPT ![r.code] = [amount |-> r.amount, currency |-> r.currency, issuer |-> r.acct,
                           status |-> "active", escrowed |-> FALSE, collected |-> FALSE]]

\* Mutant of MarkEscrow: the transaction is not noted.
MarkEscrowLost(f, k) == f

\* MarkEscrow and MarkRedeemed note the bank's transaction in the code.
MarkEscrow(f, k) == [f EXCEPT ![k].escrowed = TRUE]
MarkRedeemed(f, k) == [f EXCEPT ![k].collected = TRUE]

\* Mutant of Redeemed: the code stays active.
RedeemedActive(f, k) == [f EXCEPT ![k].collected = TRUE]

\* Redeem and Cancel of an active code.
Redeemed(f, k) == [f EXCEPT ![k].status = "redeemed"]
CanCancel(f, k) == f[k] # NoCode /\ f[k].status = "active"
Cancelled(f, k) == [f EXCEPT ![k].status = IF k \in late THEN "expired" ELSE "cancelled"]

\* A step that loads the codes, and goes on if it finds what it needs.
Copy(c, found, new, label) ==
    /\ IF CanLoadCodes /\ found
       THEN cview' = [cview EXCEPT ![c] = new] /\ Goto(c, label) /\ UNCHANGED <<req, view>>
       ELSE CashDone(c)
    /\ UNCHANGED <<bank, codes, known, history>>

-----------------------------------------------------------------------------
(* A request starts: the bank is seeded if it is empty *)

Ask(c) ==
    /\ pc[c] = "idle" /\ started < MaxStarted
    /\ \E r \in CashRequests :
          /\ r.op = "cancel" \/ CanLoad
          /\ r.op = "redeem" => r.code \in known
          /\ req' = [req EXCEPT ![c] = r]
          /\ Goto(c, IF r.op = "cancel" THEN "cancel"
                     ELSE IF NoAccounts(Loaded) THEN "seed" ELSE "escrow")
    /\ started' = started + 1
    /\ UNCHANGED <<bank, view, codes, cview, known, history>>

SeedFirst(c) ==
    /\ pc[c] = "seed"
    /\ \/ Save(Seeded) /\ Goto(c, "escrow") /\ UNCHANGED <<req, view, cview>>
       \/ SaveFails /\ CashDone(c)
    /\ UNCHANGED <<codes, known, history, started>>

\* ensureCashCodeEscrow: the account is made by the first request, in the
\* currency of that request; a redemption makes it in dollars.
EscrowCurrency(r) == IF r.op = "issue" THEN r.currency ELSE DefaultCurrency

AfterEscrow(r) == IF r.op = "issue" THEN "issue" ELSE "verify"

EnsureEscrow(c) ==
    /\ pc[c] = "escrow"
    /\ IF ~CanLoad THEN CashDone(c)
       ELSE /\ IF Exists(Loaded, Escrow)
               THEN Goto(c, AfterEscrow(req[c])) /\ UNCHANGED view
               ELSE /\ view' = [view EXCEPT ![c] =
                            WithSystemAccount(Loaded, Escrow, EscrowCurrency(req[c]))]
                    /\ Goto(c, "saveEscrow")
            /\ UNCHANGED <<req, cview>>
    /\ UNCHANGED <<bank, codes, known, history, started>>

SaveEscrow(c) ==
    /\ pc[c] = "saveEscrow"
    /\ \/ Save(view[c]) /\ Goto(c, AfterEscrow(req[c])) /\ UNCHANGED <<req, view, cview>>
       \/ SaveFails /\ CashDone(c)
    /\ UNCHANGED <<codes, known, history, started>>

-----------------------------------------------------------------------------
(* IssueCashCode *)

\* The issuer's account is there and holds the currency, the amount is one, and
\* the code is added to a copy of the file.
Issue(c) ==
    /\ pc[c] = "issue"
    /\ IF /\ CanLoad /\ CanLoadCodes /\ Exists(Loaded, req[c].acct) /\ req[c].amount > 0
          /\ Loaded[req[c].acct].currency = req[c].currency
       THEN \E k \in Code \ drawn :
               /\ req' = [req EXCEPT ![c].code = k]
               /\ cview' = [cview EXCEPT ![c] = Issued(codes, req'[c])]
               /\ drawn' = drawn \cup {k}
               /\ Goto(c, "saveIssue") /\ UNCHANGED view
       ELSE CashDone(c) /\ UNCHANGED drawn
    /\ UNCHANGED <<bank, codes, known, funded, paid, refunded, started>>

SaveIssue(c) ==
    /\ pc[c] = "saveIssue"
    /\ \/ SaveCodes(c) /\ Goto(c, "fund") /\ UNCHANGED <<req, view, cview>>
       \/ SaveCodesFails /\ CashDone(c)
    /\ UNCHANGED <<bank, known, history, started>>

-----------------------------------------------------------------------------
(* The transfers into and out of the escrow account *)

Payer(r) == IF r.op = "issue" THEN r.acct ELSE Escrow
Payee(r, rec) ==
    CASE r.op = "issue" -> Escrow [] r.op = "redeem" -> r.acct [] OTHER -> rec.issuer

\* Mutant of Refused: an issue goes on without its money.
RefusedGoesOn(c) ==
    IF req[c].op = "issue" THEN Goto(c, "markEscrow") /\ UNCHANGED <<req, view, cview>>
    ELSE CashDone(c)

\* A transfer that is refused ends the request; of an issue it cancels the code.
Refused(c) ==
    IF req[c].op = "issue" THEN Goto(c, "undo") /\ UNCHANGED <<req, view, cview>> ELSE CashDone(c)

Transfer(c) ==
    LET rec == cview[c][req[c].code]
        from == Payer(req[c])
        to == Payee(req[c], rec)
    IN /\ pc[c] \in {"fund", "pay", "refund"}
       /\ IF CanLoad /\ CanMove(Loaded, from, to, rec.amount)
          THEN /\ view' = [view EXCEPT ![c] = Moved(Loaded, from, to, rec.amount)]
               /\ Goto(c, "saveTransfer") /\ UNCHANGED <<req, cview>>
          ELSE Refused(c)
       /\ UNCHANGED <<bank, codes, known, history, started>>

AfterTransfer(c) ==
    CASE req[c].op = "issue" -> Goto(c, "markEscrow") /\ UNCHANGED <<req, view, cview>>
      [] req[c].op = "redeem" -> Goto(c, "redeem") /\ UNCHANGED <<req, view, cview>>
      [] OTHER -> CashDone(c)

SaveTransfer(c) ==
    /\ pc[c] = "saveTransfer"
    /\ \/ /\ Save(view[c])
          /\ IF req[c].op = "issue"
             THEN funded' = funded \cup {req[c].code} /\ UNCHANGED <<paid, refunded>>
             ELSE IF req[c].op = "redeem"
             THEN paid' = [paid EXCEPT ![req[c].code] = @ + 1] /\ UNCHANGED <<funded, refunded>>
             ELSE refunded' = [refunded EXCEPT ![req[c].code] = @ + 1] /\ UNCHANGED <<funded, paid>>
          /\ AfterTransfer(c)
       \/ SaveFails /\ Refused(c) /\ UNCHANGED <<funded, paid, refunded>>
    /\ UNCHANGED <<codes, known, drawn, started>>

-----------------------------------------------------------------------------
(* The end of an issue: its plaintext is answered whether or not the code    *)
(* could be marked.  After a failed transfer it is not, and the code is      *)
(* cancelled, if that succeeds.                                              *)

Answered(c) == known' = known \cup {req[c].code}

Mark(c) ==
    /\ pc[c] = "markEscrow"
    /\ IF CanLoadCodes /\ codes[req[c].code] # NoCode
       THEN /\ cview' = [cview EXCEPT ![c] = MarkEscrow(codes, req[c].code)]
            /\ Goto(c, "saveMark") /\ UNCHANGED <<req, view, known>>
       ELSE CashDone(c) /\ Answered(c)
    /\ UNCHANGED <<bank, codes, history, started>>

SaveMark(c) ==
    /\ pc[c] = "saveMark"
    /\ SaveCodes(c) \/ SaveCodesFails
    /\ CashDone(c)
    /\ IF req[c].op = "issue" THEN Answered(c) ELSE UNCHANGED known
    /\ UNCHANGED <<bank, history, started>>

Undo(c) ==
    /\ pc[c] = "undo"
    /\ Copy(c, CanCancel(codes, req[c].code), Cancelled(codes, req[c].code), "saveUndo")
    /\ UNCHANGED started

SaveUndo(c) ==
    /\ pc[c] = "saveUndo"
    /\ SaveCodes(c) \/ SaveCodesFails
    /\ CashDone(c)
    /\ UNCHANGED <<bank, known, history, started>>

-----------------------------------------------------------------------------
(* RedeemCashCode pays first and marks the code afterwards *)

Verify(c) ==
    /\ pc[c] = "verify"
    /\ Copy(c, CanLoad /\ Exists(Loaded, req[c].acct) /\ Valid(codes, req[c].code), codes, "pay")
    /\ UNCHANGED started

Redeem(c) ==
    /\ pc[c] = "redeem"
    /\ Copy(c, Valid(codes, req[c].code), Redeemed(codes, req[c].code), "saveRedeem")
    /\ UNCHANGED started

SaveRedeem(c) ==
    /\ pc[c] = "saveRedeem"
    /\ \/ SaveCodes(c) /\ Goto(c, "markRedeemed") /\ UNCHANGED <<req, view, cview>>
       \/ SaveCodesFails /\ CashDone(c)
    /\ UNCHANGED <<bank, known, history, started>>

MarkPaid(c) ==
    /\ pc[c] = "markRedeemed"
    /\ Copy(c, codes[req[c].code] # NoCode, MarkRedeemed(codes, req[c].code), "saveMark")
    /\ UNCHANGED started

-----------------------------------------------------------------------------
(* CancelCashCode marks first, and refunds a code that is marked escrowed *)

Cancel(c) ==
    /\ pc[c] = "cancel"
    /\ Copy(c, CanCancel(codes, req[c].code), Cancelled(codes, req[c].code), "saveCancel")
    /\ UNCHANGED started

\* Mutant of SaveCancel: a code is refunded whether or not it is marked escrowed.
SaveCancelRefunds(c) ==
    /\ pc[c] = "saveCancel"
    /\ \/ SaveCodes(c) /\ Goto(c, "refund") /\ UNCHANGED <<req, view, cview>>
       \/ SaveCodesFails /\ CashDone(c)
    /\ UNCHANGED <<bank, known, history, started>>

SaveCancel(c) ==
    /\ pc[c] = "saveCancel"
    /\ \/ /\ SaveCodes(c)
          /\ IF cview[c][req[c].code].escrowed
             THEN Goto(c, "refund") /\ UNCHANGED <<req, view, cview>>
             ELSE CashDone(c)
       \/ SaveCodesFails /\ CashDone(c)
    /\ UNCHANGED <<bank, known, history, started>>

-----------------------------------------------------------------------------

\* Time passes: a code that has been issued expires.
Expire ==
    /\ ClockRuns \/ \A c \in Client : pc[c] = "idle"
    /\ \E k \in Code \ late : codes # Broken /\ codes[k] # NoCode /\ late' = late \cup {k}
    /\ UNCHANGED <<bankVars, codes, cview, known, history>>

CashStop ==
    /\ Stop /\ cview' = [c \in Client |-> NoCodes]
    /\ UNCHANGED <<codes, late, known, history>>

Step(c) ==
    \/ Ask(c) \/ SeedFirst(c) \/ EnsureEscrow(c) \/ SaveEscrow(c)
    \/ Issue(c) \/ SaveIssue(c) \/ Mark(c) \/ SaveMark(c) \/ Undo(c) \/ SaveUndo(c)
    \/ Transfer(c) \/ SaveTransfer(c)
    \/ Verify(c) \/ Redeem(c) \/ SaveRedeem(c) \/ MarkPaid(c)
    \/ Cancel(c) \/ SaveCancel(c)

Next ==
    \/ \E c \in Client : Step(c) /\ UNCHANGED <<late, core, fed, handed>>
    \/ Expire
    \/ CashStop

Spec == Init /\ [][Next]_vars

-----------------------------------------------------------------------------

TypeOK ==
    /\ bank \in BankFile \cup {NoFile, Broken} /\ view \in [Client -> BankFile]
    /\ req \in [Client -> CashRequest \cup {NoRequest}]
    /\ codes \in CashFile \cup {Broken} /\ cview \in [Client -> CashFile]
    /\ late \subseteq Code /\ known \subseteq Code /\ drawn \subseteq Code
    /\ funded \subseteq Code /\ paid \in [Code -> Nat] /\ refunded \in [Code -> Nat]

\* Nobody holds the plaintext of a code whose money did not reach the escrow
\* account: the code is saved as active before the transfer, and an issue that
\* fails or is cut after that leaves it behind, but is not answered with it.
KnownIsFunded == known \subseteq funded

\* A code is paid for out of its own money only: whatever overlaps or fails, no
\* payment leaves the escrow account for a code that was never funded.
PaidIsFunded == \A k \in Code : paid[k] + refunded[k] > 0 => k \in funded

\* The codes whose money is in the escrow account.
Held == {k \in Code : codes[k] # NoCode /\ codes[k].status = "active" /\ codes[k].escrowed}

\* With one request at a time and no failures the escrow account holds exactly
\* the money of the active codes, which Status reports as escrowHeld.
EscrowExact ==
    Quiet /\ bank # NoFile =>
        IF bank[Escrow] = NoAccount THEN Held = {}
        ELSE bank[Escrow].bal = SumFunction([k \in Held |-> codes[k].amount])

\* A cash code is one-time (ledger/cashcode.go): it is paid out once, to the
\* one who redeems it or back to its issuer.
PaidOnce == \A k \in Code : paid[k] + refunded[k] <= 1

\* What an abstract cash code (OneTimeCode) sees of this: its money leaves its
\* issuer when the bank's file has the transfer, and the escrow account when it
\* has the payment, whichever of the two files is written first.
StateOf == [k \in Code |->
    IF k \notin funded THEN "none" ELSE IF paid[k] > 0 THEN "paid"
    ELSE IF refunded[k] > 0 THEN "returned" ELSE "held"]
WorthOf == [k \in Code |-> IF k \in funded THEN codes[k].amount ELSE 0]
OwnerOf == [k \in Code |-> IF k \in funded THEN codes[k].issuer ELSE NoAccount]
Opening == [a \in Account |-> IF Seeded[a] = NoAccount THEN 0 ELSE Seeded[a].bal]
Pocket == [a \in Account |->
    IF a = Escrow THEN 0 ELSE IF bank = NoFile THEN Opening[a]
    ELSE IF bank[a] = NoAccount THEN 0 ELSE bank[a].bal]

\* One request at a time, none of which fails halfway, is cut or finds a code
\* expired that was valid when it began; the accounts are customers'.
OneByOne ==
    /\ \A c, d \in Client : c = d
    /\ ~DiskFaults /\ ~Stops /\ ~ClockRuns
    /\ Seeded[Escrow] = NoAccount
    /\ \A r \in CashRequests : r.acct # Escrow
=============================================================================
