----------------------------- MODULE HybxCards -----------------------------
(***************************************************************************)
(* What the bridge keeps beside the online bank: the HYBX mirrors of its   *)
(* accounts (ledger/hybrix.go), exchanges over the HYBX middleware         *)
(* (hybx_middleware.go), and virtual cards with their purchases, wires and *)
(* SWIFT releases (bridge/virtual_cards.go, card_wire.go, swift_release.go)*)
(*                                                                         *)
(* Three files change one load or save at a time.  "todo" is what a        *)
(* client's request has still to do; a call whose error its caller ignores *)
(* stands between "try" and "end", and if a step of it fails the request   *)
(* goes on after it.                                                       *)
(* HYBX is enabled, and every card is of program 101.1.                    *)
(***************************************************************************)
EXTENDS OnlineBank, Sequences, FiniteSetsExt, Functions

CONSTANTS
    Brand,
    BrandOf,      \* the brand of the card made for an account
    DefaultLimit, \* 10000, of a card whose account is empty
    CardRequests,
    Production,   \* the bridge's mode
    NoMirror, NoCard, NoBrand

\* The id of a card is a hash of these.
Card == [issuer : {"nsb", "hybx"}, acct : Account, brand : Brand]
MirrorFile == [Account -> Nat \cup {NoMirror}]
CardFile == [Card -> [limit : Nat, spent : Nat] \cup {NoCard}]
CardRequest == [op : {"sync", "toHybx", "fromHybx", "exchangeTo", "exchangeFrom", "exchangeBank",
                      "exchangeChain", "platform", "toCore", "coreToHybx",
                      "list", "issue", "issueHybx", "issueAll", "activate",
                      "authorize", "wire", "release", "swift", "bootstrap"},
                acct : Account \cup {NoAccount}, issuer : {"nsb", "hybx"},
                brand : Brand \cup {NoBrand}, amount : Nat]

\* What the instances assume of them.
CardAssumption ==
    /\ BrandOf \in [Account -> Brand] /\ DefaultLimit \in Nat \ {0}
    /\ CardRequests \subseteq CardRequest /\ Production \in BOOLEAN
    /\ NoMirror \notin Nat /\ Broken \notin MirrorFile
    /\ NoCard \notin [limit : Nat, spent : Nat] /\ NoBrand \notin Brand

VARIABLES
    mirrors, \* hybx-mirrors.json
    cards,   \* virtual-cards.json
    todo,    \* the steps each client's request has before it
    ask,     \* the request
    copy,    \* its copies of the three files
    worth    \* history: the account's money in bank and mirror when it started

cardVars == <<mirrors, cards, todo, ask, copy, worth>>
hybxVars == <<bankVars, cardVars>>

NoMirrors == [a \in Account |-> NoMirror]
NoCards == [k \in Card |-> NoCard]
Blank == [bank |-> EmptyBank, mirrors |-> NoMirrors, cards |-> NoCards]

HybxInit ==
    /\ BankInit /\ mirrors = NoMirrors /\ cards = NoCards
    /\ todo = [c \in Client |-> <<>>] /\ ask = [c \in Client |-> NoRequest]
    /\ copy = [c \in Client |-> Blank] /\ worth = [c \in Client |-> 0]

-----------------------------------------------------------------------------
(* Requests as sequences of steps *)

SyncMirrors == <<"mirrorSync", "saveMirrors">>
EnsureCards == <<"seed", "ensureCards", "saveCards">>
SyncCore == <<"coreSync", "saveBank">>
\* Mutant of Convert: the bank is not told.
ConvertMirrorOnly(direction) == <<direction, "moveMirror", "saveMirrors">>

Convert(direction) == <<direction, "convertBank", "saveBank", "moveMirror", "saveMirrors">>
Ignored(call) == <<"try">> \o call \o <<"end">>

\* SyncHybxMiddleware, after an exchange: every mirror becomes its account.
Middleware == <<"seed">> \o Ignored(SyncMirrors) \o Ignored(EnsureCards) \o Ignored(SyncCore)

\* handleHybrixSync; handleHybrixConvert.
Sync == <<"seed">> \o SyncMirrors \o Ignored(EnsureCards) \o Middleware
ConvertRequest(direction) == <<"seed">> \o Convert(direction)

\* HybxExchangeBank: "hybx-bank" credits the account after the send and ignores
\* an error of that.  hybxExchangeToChain credits it before.
BankRoute(route) ==
    CASE route = "exchangeTo" -> Convert("toHybx")
      [] route = "exchangeFrom" -> Convert("fromHybx")
      [] OTHER -> <<"federate">> \o Ignored(Convert("fromHybx"))
ToChain == Convert("fromHybx") \o <<"federate">>
\* HybxExchange, by route.
Exchange(route) ==
    <<"seed">> \o (IF route = "exchangeChain" THEN ToChain ELSE BankRoute(route)) \o Middleware
\* hybxExchangeNSBToFineract, hybxExchangeFineractToHybx, hybxExchangeToPlatform.
ToCore == <<"seed", "moveToCore", "saveBank">> \o Ignored(<<"tellCore">>) \o Middleware
CoreToHybx == <<"seed">> \o SyncCore \o SyncMirrors \o Convert("toHybx") \o Middleware
ToPlatform == <<"seed">> \o Convert("toHybx") \o Middleware

\* IssueVirtualCard, IssueHybxVirtualCards, IssueCards1011, ActivateRails1011.
IssueOne == EnsureCards \o <<"issue", "saveCards">>
IssueHybx == <<"seed">> \o SyncMirrors \o EnsureCards
IssueAll == <<"seed">> \o SyncMirrors \o EnsureCards \o <<"refresh", "saveCards">>
Activate == IssueAll \o <<"refreshOnly", "saveCards">>

\* A payment by card, once the bank has moved the money: a HYBX card takes it
\* from the mirror as well, and the card itself is written.  In production the
\* federation log has a record of it.
ChargeMirror == Ignored(<<"debitMirror", "saveMirrors">>)
ChargeCards == <<"chargeCard", "saveCards">>
RecordSpend == IF Production THEN <<"federate">> ELSE <<>>

\* Mutant of Authorize: the card is charged before the account.
AuthorizeCardFirst ==
    EnsureCards \o <<"readCard">> \o ChargeCards \o <<"debit", "saveBank">> \o ChargeMirror \o RecordSpend

\* AuthorizeVirtualCard, WireTransferCard, releaseCardFundsSwift, and
\* ReleaseFundsSwift from an account.
Authorize ==
    EnsureCards \o <<"readCard", "debit", "saveBank">> \o ChargeMirror \o RecordSpend \o ChargeCards
Wire ==
    EnsureCards \o <<"readCard", "send", "saveBank">> \o ChargeMirror \o ChargeCards \o RecordSpend
Release == <<"seed">> \o Wire
SwiftRelease == <<"seed", "send", "saveBank">>

\* BootstrapProduction reports an error of a call and goes on with the next.
Bootstrap ==
    Ignored(<<"seed">>) \o Ignored(<<"seed">> \o SyncCore)
    \o Ignored(SyncMirrors) \o Ignored(EnsureCards) \o Ignored(SyncCore)
    \o Ignored(IssueHybx) \o Ignored(IssueAll)

\* The requests about cards, and all requests.
CardProgram(op) ==
    CASE op = "list" -> EnsureCards
      [] op = "issue" -> IssueOne
      [] op = "authorize" -> Authorize
      [] OTHER -> Wire

Program(op) ==
    CASE op = "sync" -> Sync
      [] op \in {"toHybx", "fromHybx"} -> ConvertRequest(op)
      [] op \in {"exchangeTo", "exchangeFrom", "exchangeBank", "exchangeChain"} -> Exchange(op)
      [] op = "platform" -> ToPlatform
      [] op = "toCore" -> ToCore
      [] op = "coreToHybx" -> CoreToHybx
      [] op \in {"list", "issue", "authorize", "wire"} -> CardProgram(op)
      [] op = "issueHybx" -> IssueHybx
      [] op = "issueAll" -> IssueAll
      [] op = "activate" -> Activate
      [] op = "release" -> Release
      [] op = "bootstrap" -> Bootstrap
      [] OTHER -> SwiftRelease

At(c, step) == todo[c] # <<>> /\ Head(todo[c]) = step

Marks == {"try", "end"}
PastMarks(steps) ==
    LET real == {i \in DOMAIN steps : steps[i] \notin Marks}
    IN IF real = {} THEN <<>> ELSE SubSeq(steps, Min(real), Len(steps))

\* The request goes on with its copies, or ends.
Continue(c, steps, mine) == LET rest == PastMarks(steps) IN
    /\ todo' = [todo EXCEPT ![c] = rest]
    /\ copy' = [copy EXCEPT ![c] = IF rest = <<>> THEN Blank ELSE mine]
    /\ ask' = [ask EXCEPT ![c] = IF rest = <<>> THEN NoRequest ELSE @]
    /\ UNCHANGED worth

Proceed(c, mine) == Continue(c, Tail(todo[c]), mine)

\* An error: it goes on after the call that may fail, if the step is in one.
Fail(c) ==
    LET marks == {i \in DOMAIN todo[c] : todo[c][i] \in Marks}
        inCall == marks # {} /\ todo[c][Min(marks)] = "end"
    IN Continue(c, IF inCall THEN SubSeq(todo[c], Min(marks), Len(todo[c])) ELSE <<>>, copy[c])

\* A step that only reads, and changes the request's copies.
Reads(c, step, ok, mine) ==
    /\ At(c, step)
    /\ IF ok THEN Proceed(c, mine) ELSE Fail(c)
    /\ UNCHANGED <<bank, mirrors, cards, core, fed, handed>>

-----------------------------------------------------------------------------
(* Mirrors *)

CanLoadMirrors == mirrors # Broken

\* SyncMirrorsFromOnlineBank: the balance of every account of the bank.
Mirrored(old, st) == [a \in Account |-> IF st[a] = NoAccount THEN old[a] ELSE st[a].bal]

MirrorSync(c) ==
    Reads(c, "mirrorSync", CanLoad /\ CanLoadMirrors,
          [copy[c] EXCEPT !.mirrors = Mirrored(mirrors, Loaded)])

SaveMirrors(c) ==
    /\ At(c, "saveMirrors")
    /\ \/ mirrors' = copy[c].mirrors /\ Proceed(c, copy[c])
       \/ DiskFaults /\ mirrors' \in {mirrors, Broken} /\ Fail(c)
    /\ UNCHANGED <<bank, cards, core, fed, handed>>

\* HybrixConvert loads the mirrors first and saves them last: the mirror is
\* changed in the copy it loaded before the bank was.
ReadMirror(c) ==
    \E direction \in {"toHybx", "fromHybx"} :
        Reads(c, direction,
              /\ CanLoadMirrors /\ ask[c].acct # NoAccount /\ ask[c].amount > 0
              /\ mirrors[ask[c].acct] # NoMirror
              /\ direction = "fromHybx" => mirrors[ask[c].acct] >= ask[c].amount,
              [copy[c] EXCEPT !.mirrors = mirrors])

ToMirror(r) == r.op \in {"toHybx", "exchangeTo", "platform", "coreToHybx"}

ConvertBank(c) ==
    Reads(c, "convertBank",
          CanLoad /\ IF ToMirror(ask[c]) THEN CanDebit(Loaded, ask[c].acct, ask[c].amount)
                     ELSE CanDeposit(Loaded, ask[c].acct, ask[c].amount),
          [copy[c] EXCEPT !.bank = IF ToMirror(ask[c])
                                   THEN Debited(Loaded, ask[c].acct, ask[c].amount)
                                   ELSE Credited(Loaded, ask[c].acct, ask[c].amount)])

MoveMirror(c) ==
    Reads(c, "moveMirror", TRUE,
          [copy[c] EXCEPT !.mirrors[ask[c].acct] =
              IF ToMirror(ask[c]) THEN @ + ask[c].amount ELSE @ - ask[c].amount])

\* DebitMirror stops at zero.
DebitMirror(c) ==
    LET a == ask[c].acct IN
    Reads(c, "debitMirror", ask[c].issuer = "hybx" /\ CanLoadMirrors /\ mirrors[a] # NoMirror,
          [copy[c] EXCEPT !.mirrors = [mirrors EXCEPT ![a] = IF @ > ask[c].amount THEN @ - ask[c].amount ELSE 0]])

-----------------------------------------------------------------------------
(* The bank *)

SeedBank(c) ==
    /\ At(c, "seed")
    /\ \/ CanLoad /\ ~NoAccounts(Loaded) /\ Proceed(c, copy[c]) /\ UNCHANGED bank
       \/ CanLoad /\ NoAccounts(Loaded) /\ Save(Seeded) /\ Proceed(c, copy[c])
       \/ CanLoad /\ NoAccounts(Loaded) /\ SaveFails /\ Fail(c)
       \/ ~CanLoad /\ Fail(c) /\ UNCHANGED bank
    /\ UNCHANGED <<mirrors, cards, core, fed, handed>>

\* DebitAccount for a purchase.
Debit(c) ==
    Reads(c, "debit", CanLoad /\ CanDebit(Loaded, ask[c].acct, ask[c].amount),
          [copy[c] EXCEPT !.bank = Debited(Loaded, ask[c].acct, ask[c].amount)])

\* Transfer to an IBAN, for a wire and a SWIFT release.
SendOut(c) ==
    LET from == ask[c].acct
        n == ask[c].amount
    IN /\ At(c, "send")
       /\ IF CanLoad /\ CanDebit(Loaded, from, n)
          THEN \E sent \in Settles([to |-> Outside]) :
                  /\ Proceed(c, [copy[c] EXCEPT !.bank = [Debited(Loaded, from, n) EXCEPT
                        ![from].settled = @ + (IF sent.completed THEN n ELSE 0)]])
                  /\ handed' = [handed EXCEPT ![from] = @ + (IF sent.taken THEN n ELSE 0)]
          ELSE Fail(c) /\ UNCHANGED handed
       /\ UNCHANGED <<bank, mirrors, cards, core, fed>>

\* The first account the core lists takes a transfer.
CoreAccount == CHOOSE a \in CoreAccounts : TRUE
MoveToCore(c) ==
    Reads(c, "moveToCore",
          CoreAccounts # {} /\ CanLoad /\ CanMove(Loaded, ask[c].acct, CoreAccount, ask[c].amount),
          [copy[c] EXCEPT !.bank = Moved(Loaded, ask[c].acct, CoreAccount, ask[c].amount)])

TellCore(c) ==
    /\ At(c, "tellCore")
    /\ \/ CoreGives(CoreAccount, ask[c].amount) /\ Proceed(c, copy[c])
       \/ CoreFaults /\ UNCHANGED core /\ Fail(c)
    /\ UNCHANGED <<bank, mirrors, cards, fed, handed>>

CoreSync(c) ==
    Reads(c, "coreSync", CoreAccounts # {} /\ CanLoad, [copy[c] EXCEPT !.bank = CoreSynced(Loaded, core)])

SaveBank(c) ==
    /\ At(c, "saveBank")
    /\ \/ Save(copy[c].bank) /\ Proceed(c, copy[c])
       \/ SaveFails /\ Fail(c)
    /\ UNCHANGED <<mirrors, cards, core, fed, handed>>

\* HybxFederateOutbound, HybxFederateChain.
Federate(c) ==
    /\ At(c, "federate") /\ fed' = fed + 1 /\ Proceed(c, copy[c])
    /\ UNCHANGED <<bank, mirrors, cards, core, handed>>

-----------------------------------------------------------------------------
(* Cards *)

CanLoadCards == cards # Broken

\* buildCardFromAccount, buildHybrixCard.
NewCard(balance) ==
    [limit |-> IF balance > 0 THEN balance ELSE DefaultLimit, spent |-> 0]
HybxBalance(mirror, acct) ==
    IF mirror > 0 THEN mirror ELSE IF acct = NoAccount THEN 0 ELSE acct.bal

\* syncCardBalance: the limit follows the money upwards, never down.
MoneyOf(k, st, ms) ==
    LET mirror == IF k.issuer = "hybx" /\ ms # Broken /\ ms[k.acct] # NoMirror THEN ms[k.acct] ELSE 0
        own == IF st = Broken \/ st[k.acct] = NoAccount THEN mirror ELSE st[k.acct].bal
    IN IF mirror = 0 \/ own < mirror THEN own ELSE mirror
Synced(k, rec, st, ms) == [rec EXCEPT !.limit = Max({@, MoneyOf(k, st, ms)})]
\* Mutant of Available: what was spent is not counted.
AvailableLimit(rec) == rec.limit

Available(rec) == IF rec.limit > rec.spent THEN rec.limit - rec.spent ELSE 0
CardOf(r) == [issuer |-> r.issuer, acct |-> r.acct, brand |-> r.brand]

\* ensureVirtualCards: a card of the bank for each of its accounts, and a HYBX
\* card for each mirror.
WithCards(f, st, ms) ==
    LET has(issuer, a) == \E b \in Brand :
            f[[issuer |-> issuer, acct |-> a, brand |-> b]] # NoCard
    IN [k \in Card |->
        IF f[k] # NoCard \/ k.brand # BrandOf[k.acct] \/ has(k.issuer, k.acct) THEN f[k]
        ELSE IF k.issuer = "nsb" /\ st[k.acct] # NoAccount THEN NewCard(st[k.acct].bal)
        ELSE IF k.issuer = "hybx" /\ ms[k.acct] # NoMirror
        THEN NewCard(HybxBalance(ms[k.acct], st[k.acct])) ELSE NoCard]

\* dedupeVirtualCards: one card per issuer and account is kept, the newer, or of
\* two made in the same second either.
Deduped(f) ==
    {g \in {[k \in Card |-> IF k \in keep THEN f[k] ELSE NoCard] :
                keep \in SUBSET {k \in Card : f[k] # NoCard}} :
        \A i \in {"nsb", "hybx"}, a \in Account :
            LET group(h) == {k \in Card : h[k] # NoCard /\ k.issuer = i /\ k.acct = a}
            IN Cardinality(group(g)) = IF group(f) = {} THEN 0 ELSE 1}

\* activateAllVirtualCards, and the loops of IssueCards1011 and ActivateRails1011.
Refreshed(f, st, ms) ==
    [k \in Card |-> IF f[k] = NoCard THEN NoCard ELSE Synced(k, f[k], st, ms)]

\* Mirrors that are still empty are synced on the way, an error of which leaves
\* the bank's own cards.  In production the file is not written when no card is
\* made or dropped; otherwise every card counts as changed.
EnsureAllCards(c) ==
    /\ At(c, "ensureCards")
    /\ IF CanLoad /\ CanLoadCards
       THEN /\ mirrors' \in IF mirrors # NoMirrors THEN {mirrors}
                            ELSE {Mirrored(mirrors, Loaded)} \cup IF DiskFaults THEN {mirrors, Broken} ELSE {}
            /\ LET ms == IF mirrors' = Broken THEN NoMirrors ELSE mirrors'
                   new == WithCards(cards, Loaded, ms)
               IN \E f \in Deduped(new) :
                     LET mine == [copy[c] EXCEPT !.cards = Refreshed(f, Loaded, ms)] IN
                     IF Production /\ f = cards THEN Continue(c, Tail(Tail(todo[c])), mine)
                     ELSE Proceed(c, mine)
       ELSE Fail(c) /\ UNCHANGED mirrors
    /\ UNCHANGED <<bank, cards, core, fed, handed>>

Refresh(c) ==
    /\ At(c, "refresh")
    /\ IF CanLoad /\ CanLoadCards
       THEN \E f \in Deduped(cards) :
               Proceed(c, [copy[c] EXCEPT !.cards = Refreshed(f, Loaded, mirrors)])
       ELSE Fail(c)
    /\ UNCHANGED <<bank, mirrors, cards, core, fed, handed>>

RefreshOnly(c) ==
    Reads(c, "refreshOnly", CanLoadCards,
          [copy[c] EXCEPT !.cards = Refreshed(cards, IF CanLoad THEN Loaded ELSE Broken, mirrors)])

\* IssueVirtualCard: the card asked for unless the account has it.  A HYBX card
\* of an account that has no mirror syncs them first.
IssueCard(c) ==
    LET r == ask[c]
        same(b) == [issuer |-> r.issuer, acct |-> r.acct, brand |-> b]
        brands == IF r.brand = NoBrand THEN Brand ELSE {r.brand}
        new == same(IF r.brand = NoBrand THEN BrandOf[r.acct] ELSE r.brand)
    IN /\ At(c, "issue")
       /\ IF /\ CanLoad /\ CanLoadCards /\ Exists(Loaded, r.acct)
             /\ r.issuer = "hybx" => CanLoadMirrors
             /\ \A b \in brands : cards[same(b)] = NoCard
          THEN /\ mirrors' = IF r.issuer = "hybx" /\ mirrors[r.acct] = NoMirror
                            THEN Mirrored(mirrors, Loaded) ELSE mirrors
               /\ Proceed(c, [copy[c] EXCEPT !.cards = [cards EXCEPT ![new] =
                     NewCard(IF r.issuer = "hybx" THEN HybxBalance(mirrors'[r.acct], Loaded[r.acct])
                             ELSE Loaded[r.acct].bal)]])
          ELSE Fail(c) /\ UNCHANGED mirrors
       /\ UNCHANGED <<bank, cards, core, fed, handed>>

\* A payment reads the card once: what it writes in the end is this copy.
ReadCard(c) ==
    LET k == CardOf(ask[c])
        rec == Synced(k, cards[k], IF CanLoad THEN Loaded ELSE Broken, mirrors)
    IN Reads(c, "readCard",
             /\ CanLoadCards /\ cards[k] # NoCard
             /\ ask[c].amount > 0 /\ Available(rec) >= ask[c].amount,
             [copy[c] EXCEPT !.cards = [cards EXCEPT ![k] = rec]])

ChargeCard(c) ==
    LET k == CardOf(ask[c])
        rec == [copy[c].cards[k] EXCEPT !.spent = @ + ask[c].amount]
    IN Reads(c, "chargeCard", TRUE,
             [copy[c] EXCEPT !.cards[k] = Synced(k, rec, IF CanLoad THEN Loaded ELSE Broken, mirrors)])

SaveCards(c) ==
    /\ At(c, "saveCards")
    /\ \/ cards' = copy[c].cards /\ Proceed(c, copy[c])
       \/ DiskFaults /\ cards' \in {cards, Broken} /\ Fail(c)
    /\ UNCHANGED <<bank, mirrors, core, fed, handed>>

-----------------------------------------------------------------------------

\* The account's money, in the bank (or as it is seeded) and in its mirror.
MoneyIn(a) ==
    LET st == IF bank = NoFile THEN Seeded ELSE bank IN
    IF a = NoAccount \/ Broken \in {bank, mirrors} THEN 0
    ELSE (IF st[a] = NoAccount THEN 0 ELSE st[a].bal)
         + IF mirrors[a] = NoMirror THEN 0 ELSE mirrors[a]

Begin(c) ==
    /\ todo[c] = <<>> /\ started < MaxStarted
    /\ \E r \in CardRequests :
          /\ ask' = [ask EXCEPT ![c] = r]
          /\ todo' = [todo EXCEPT ![c] = Program(r.op)]
          /\ worth' = [worth EXCEPT ![c] = MoneyIn(r.acct)]
    /\ started' = started + 1
    /\ UNCHANGED <<bank, mirrors, cards, copy, core, fed, handed>>

CardStop ==
    /\ Stops /\ \E c \in Client : todo[c] # <<>>
    /\ todo' = [c \in Client |-> <<>>] /\ ask' = [c \in Client |-> NoRequest]
    /\ copy' = [c \in Client |-> Blank]
    /\ UNCHANGED <<bankVars, mirrors, cards, worth>>

CardStep(c) ==
    \/ MirrorSync(c) \/ SaveMirrors(c) \/ ReadMirror(c) \/ ConvertBank(c) \/ MoveMirror(c)
    \/ DebitMirror(c) \/ SeedBank(c) \/ Debit(c) \/ SendOut(c) \/ MoveToCore(c) \/ TellCore(c)
    \/ CoreSync(c) \/ SaveBank(c) \/ Federate(c) \/ EnsureAllCards(c) \/ Refresh(c)
    \/ RefreshOnly(c) \/ IssueCard(c) \/ ReadCard(c) \/ ChargeCard(c) \/ SaveCards(c)

HybxNext ==
    \/ \E c \in Client : /\ \/ Begin(c)
                            \/ CardStep(c) /\ UNCHANGED started
                         /\ UNCHANGED clientVars
    \/ CardStop

HybxSpec == HybxInit /\ [][HybxNext]_hybxVars

-----------------------------------------------------------------------------

HybxTypeOK ==
    /\ bank \in BankFile \cup {NoFile, Broken}
    /\ mirrors \in MirrorFile \cup {Broken} /\ cards \in CardFile \cup {Broken}
    /\ ask \in [Client -> CardRequest \cup {NoRequest}]
    /\ copy \in [Client -> [bank : BankFile, mirrors : MirrorFile, cards : CardFile]]

\* No card has spent more than its limit, however purchases overlap, fail or
\* are written back from an old copy: the limit a purchase was checked against
\* is saved with it, and never falls.
WithinLimit ==
    cards # Broken => \A k \in DOMAIN cards : cards[k] # NoCard => cards[k].spent <= cards[k].limit

\* With one request at a time a card shows no purchase, wire or release that its
\* account did not pay, whatever fails and wherever the process stops: the bank
\* is debited first, and a card that is dropped takes its purchases with it.
SpentIsDebited ==
    bank \notin {NoFile, Broken} /\ cards # Broken =>
        \A a \in Account :
            LET of == {k \in Card : k.acct = a /\ cards[k] # NoCard}
            IN of # {} /\ bank[a] # NoAccount =>
                SumFunction([k \in of |-> cards[k].spent]) <= bank[a].out

\* Requests do not overlap: what a theorem about this property assumes.
OneAtATime == \A c, d \in Client : c = d

\* With one request at a time and no failures a conversion moves value between
\* an account and its mirror (ledger/hybrix.go) and makes or loses none.  The
\* same is not so of an exchange: SyncHybxMiddleware, which ends it, replaces
\* every mirror by the balance of its account.
ConvertMovesStep ==
    \A c \in Client, a \in Account :
        /\ ask[c] # NoRequest /\ ask[c].op \in {"toHybx", "fromHybx"} /\ ask[c].acct = a
        /\ todo'[c] = <<>>
        => MoneyIn(a)' = worth[c]
=============================================================================
