------------------------------- MODULE MCBank -------------------------------
(***************************************************************************)
(* Instances of the online bank and of what is built on it, for TLC.  The  *)
(* constant "part" of a behaviour is the module that takes its steps, so   *)
(* one run checks each of them, with its own clients and faults.           *)
(***************************************************************************)
EXTENDS CashCode, HybxCards, TLC

CONSTANTS ann, bob, escrow, fin, usd, eur, k1, k2, c1, c2, visa, master

VARIABLE part

Acct(cur, n) == [currency |-> cur, opening |-> n, bal |-> n, in |-> 0, out |-> 0, settled |-> 0]
MCAccount == {ann, bob, escrow, fin}
MCSeeded == (ann :> Acct(usd, 2) @@ bob :> Acct(usd, 1)
             @@ escrow :> NoAccount @@ fin :> NoAccount)
MCCoreOpening == (fin :> 2)

BankReq(o, f, t, n) == [op |-> o, from |-> f, to |-> t, amount |-> n]
MCRequests ==
    {BankReq("move", ann, bob, 1), BankReq("move", ann, ann, 1),
     BankReq("send", ann, Outside, 1), BankReq("send", bob, Federated, 1),
     BankReq("move", fin, bob, 1), BankReq("move", ann, fin, 1),
     BankReq("deposit", NoAccount, bob, 1), BankReq("coreSync", NoAccount, NoAccount, 0),
     BankReq("coreDeposit", NoAccount, fin, 1), BankReq("coreWithdraw", fin, NoAccount, 1)}

CashReq(o, k, a, n, cur) == [op |-> o, code |-> k, acct |-> a, amount |-> n, currency |-> cur]
MCCashRequests ==
    {CashReq("issue", NoCode, ann, 1, usd), CashReq("issue", NoCode, bob, 1, eur),
     CashReq("issue", NoCode, bob, 2, usd), CashReq("issue", NoCode, bob, 0, usd),
     CashReq("redeem", k1, bob, 0, usd), CashReq("redeem", k2, ann, 0, usd),
     CashReq("cancel", k1, NoAccount, 0, usd), CashReq("cancel", k2, NoAccount, 0, usd)}

CardReq(o, i, b, n) ==
    [op |-> o, acct |-> IF o \in {"sync", "list", "issueAll", "activate", "issueHybx", "bootstrap"}
                        THEN NoAccount ELSE ann, issuer |-> i, brand |-> b, amount |-> n]
MCCardRequests ==
    {CardReq(o, "nsb", NoBrand, 1) :
        o \in {"sync", "toHybx", "fromHybx", "exchangeTo", "exchangeFrom", "exchangeBank", "exchangeChain",
               "platform", "toCore", "coreToHybx", "swift",
               "list", "issueAll", "activate", "issueHybx", "bootstrap"}}
    \cup {CardReq("issue", "nsb", master, 0), CardReq("issue", "nsb", NoBrand, 0), CardReq("issue", "hybx", master, 0)}
    \cup {CardReq("authorize", "nsb", visa, 1), CardReq("authorize", "hybx", visa, 1), CardReq("authorize", "nsb", visa, 2),
          CardReq("authorize", "nsb", master, 1),
          CardReq("wire", "nsb", visa, 1), CardReq("release", "hybx", visa, 1)}

\* Two clients, with disk faults and stops; and one at a time.
Alone == INSTANCE OnlineBank WITH Client <- {c1}, DiskFaults <- FALSE, Stops <- FALSE,
    CoreFaults <- FALSE, MaxStarted <- 4

Cash == INSTANCE CashCode WITH MaxStarted <- 3
CashAlone == INSTANCE CashCode WITH
    Client <- {c1}, DiskFaults <- FALSE, Stops <- FALSE, ClockRuns <- FALSE, MaxStarted <- 5

\* The cards: an account of the bank's own and one of the core's.  Once
\* spent 2, the account needs money from HYBX for the card to be the limit.
HybxAccount == {ann, fin}
MCBrandOf == [a \in HybxAccount |-> visa]
HybxSeeded == [a \in HybxAccount |-> MCSeeded[a]]
Only(ops) == {r \in MCCardRequests : r.op \in ops}
Hybx == INSTANCE HybxCards WITH
    Provider <- FALSE, Account <- HybxAccount, Seeded <- HybxSeeded,
    CardRequests <- Only({"authorize", "issue", "activate", "toHybx"}), MaxStarted <- 2
HybxAlone == INSTANCE HybxCards WITH
    Provider <- FALSE, Account <- HybxAccount, Seeded <- HybxSeeded,
    CardRequests <- Only({"authorize", "issue", "issueAll", "wire", "release", "exchangeBank"}),
    Client <- {c1}, MaxStarted <- 3
HybxCalm == INSTANCE HybxCards WITH
    Production <- FALSE, Account <- HybxAccount, Seeded <- HybxSeeded,
    CardRequests <- MCCardRequests,
    Client <- {c1}, DiskFaults <- FALSE, Stops <- FALSE, MaxStarted <- 3

ASSUME MCAssumption ==
    /\ Alone!CoreAlone
    /\ CashAssumption /\ CashAlone!CashAssumption /\ CashAlone!OneByOne
    /\ Hybx!CardAssumption /\ HybxAlone!CardAssumption /\ HybxCalm!CardAssumption

NoCash ==
    /\ codes = NoCodes /\ cview = NoCode /\ late = {} /\ known = {}
    /\ drawn = {} /\ funded = {}
    /\ paid = [k \in Code |-> 0] /\ refunded = [k \in Code |-> 0]
NoHybx ==
    /\ mirrors = NoMirror /\ cards = Broken /\ todo = NoRequest
    /\ ask = NoRequest /\ copy = NoRequest /\ worth = 0

MCInit ==
    \/ part = "bank" /\ BankInit /\ NoCash /\ NoHybx
    \/ part = "bankAlone" /\ Alone!BankInit /\ NoCash /\ NoHybx
    \/ part = "cash" /\ Cash!Init /\ NoHybx
    \/ part = "cashAlone" /\ CashAlone!Init /\ NoHybx
    \/ part = "hybx" /\ Hybx!HybxInit /\ NoCash
    \/ part = "hybxAlone" /\ HybxAlone!HybxInit /\ NoCash
    \/ part = "hybxCalm" /\ HybxCalm!HybxInit /\ NoCash

Of(p, next) == part = p /\ next /\ UNCHANGED part

MCNext ==
    \/ Of("bank", BankNext) /\ UNCHANGED <<cashVars, cardVars>>
    \/ Of("bankAlone", Alone!BankNext) /\ UNCHANGED <<cashVars, cardVars>>
    \/ Of("cash", Cash!Next) /\ UNCHANGED cardVars
    \/ Of("cashAlone", CashAlone!Next) /\ UNCHANGED cardVars
    \/ Of("hybx", Hybx!HybxNext) /\ UNCHANGED cashVars
    \/ Of("hybxAlone", HybxAlone!HybxNext) /\ UNCHANGED cashVars
    \/ Of("hybxCalm", HybxCalm!HybxNext) /\ UNCHANGED cashVars

MCSpec == MCInit /\ [][MCNext]_<<part, bankVars, cashVars, cardVars>>

-----------------------------------------------------------------------------

\* Types of every part.
Types ==
    /\ part \in {"bank", "bankAlone"} => BankTypeOK \/ Alone!BankTypeOK
    /\ part \in {"cash", "cashAlone"} => Cash!TypeOK \/ CashAlone!TypeOK
    /\ part \in {"hybx", "hybxAlone", "hybxCalm"} => Hybx!HybxTypeOK \/ HybxAlone!HybxTypeOK

\* See OnlineBank: with one request at a time and a core that refuses only
\* what it cannot cover, the bank's copy of a core account is what the core has.
CoreFollowed == part = "bankAlone" => Alone!CoreFollows

\* See CashCode: with one request at a time and no failures the escrow account
\* holds the money of the active codes.
EscrowHeld == part = "cashAlone" => CashAlone!EscrowExact

\* With one request at a time and no failures, issuing, redeeming, cancelling and
\* expiring implement a code whose money leaves its issuer once and reaches one
\* account once (ledger/cashcode.go, bridge/cashcode.go).
Promise == INSTANCE OneTimeCode WITH
    Account <- MCAccount, Opening <- CashAlone!Opening,
    state <- IF part = "cashAlone" THEN CashAlone!StateOf ELSE [k \in Code |-> "none"],
    worth <- IF part = "cashAlone" THEN CashAlone!WorthOf ELSE [k \in Code |-> 0],
    owner <- IF part = "cashAlone" THEN CashAlone!OwnerOf ELSE [k \in Code |-> NoAccount],
    pocket <- IF part = "cashAlone" THEN CashAlone!Pocket ELSE CashAlone!Opening
OneTime == Promise!Spec

\* See HybxCards: with one request at a time, whatever fails, a card shows no
\* spending that its account did not pay.
ShownIsPaid == part = "hybxAlone" => HybxAlone!SpentIsDebited

\* See HybxCards: with one request at a time and no failures a conversion moves
\* value between an account and its mirror and makes or loses none.
ConvertMoves == [][part = "hybxCalm" => HybxCalm!ConvertMovesStep]_<<part, bankVars, cardVars>>
=============================================================================
