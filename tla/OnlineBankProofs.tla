-------------------------- MODULE OnlineBankProofs --------------------------
(***************************************************************************)
(* Proofs about OnlineBank, for any accounts, requests and bounds, any     *)
(* number of overlapping requests, and any failures: the statement         *)
(* explains every balance of the bank's own accounts, and what it says was *)
(* sent was given to a rail.  Both hold of the file because they hold of   *)
(* every request's copy of it: the inductive invariant says so of both.    *)
(* With one request at a time the core's accounts are mirrored.            *)
(* And proofs about CashCode, which works on the same file: a code is paid *)
(* out of its own money, and, with one request at a time, once.            *)
(***************************************************************************)
EXTENDS CashCode, SumTheorems, TLAPS

\* An account that its statement explains, if the bank is the one that keeps it.
SoundAccount(a, acct, given) ==
    /\ a \notin CoreAccounts => Balanced(acct)
    /\ acct.settled <= given

\* A file all of whose accounts are.
Sound(st, given) ==
    /\ st \in BankFile
    /\ \A a \in Account : st[a] # NoAccount => SoundAccount(a, st[a], given[a])

BankInv ==
    /\ bank \notin {NoFile, Broken} => Sound(bank, handed)
    /\ \A c \in Client : Sound(view[c], handed)
    /\ pc \in [Client -> {"idle", "seed", "load", "save", "apply", "saveSync"}]
    /\ req \in [Client -> Request \cup {NoRequest}]
    /\ \A c \in Client : pc[c] # "idle" => req[c] \in Request
    /\ view \in [Client -> BankFile]
    /\ core \in [CoreAccounts -> Nat]
    /\ handed \in [Account -> Nat]

-----------------------------------------------------------------------------
(* Files *)

LEMMA EmptySound ==
    ASSUME NEW given
    PROVE  Sound(EmptyBank, given)
BY BankAssumption DEF Sound, EmptyBank, BankFile

LEMMA SeededSound ==
    ASSUME NEW given \in [Account -> Nat]
    PROVE  Sound(Seeded, given)
<1> SUFFICES ASSUME NEW a \in Account, Seeded[a] # NoAccount
             PROVE  SoundAccount(a, Seeded[a], given[a])
  BY BankAssumption DEF Sound
<1>1. Seeded[a] \in BankAccount
  BY BankAssumption DEF BankFile
<1>2. /\ Seeded[a].bal = Seeded[a].opening
      /\ Seeded[a].in = 0 /\ Seeded[a].out = 0 /\ Seeded[a].settled = 0
  BY BankAssumption
<1> QED
  BY <1>1, <1>2 DEF SoundAccount, Balanced, BankAccount

\* What a request loads is sound if the file is.
LEMMA LoadedSound ==
    ASSUME BankInv, CanLoad
    PROVE  Sound(Loaded, handed)
BY EmptySound DEF BankInv, CanLoad, Loaded

\* The rails only ever get more.
LEMMA SoundMore ==
    ASSUME NEW st, NEW given \in [Account -> Nat], NEW more \in [Account -> Nat],
           Sound(st, given), \A a \in Account : given[a] <= more[a]
    PROVE  Sound(st, more)
<1> SUFFICES ASSUME NEW a \in Account, st[a] # NoAccount
             PROVE  SoundAccount(a, st[a], more[a])
  BY DEF Sound
<1>1. st[a] \in BankAccount /\ SoundAccount(a, st[a], given[a])
  BY DEF Sound, BankFile
<1>2. given[a] \in Nat /\ more[a] \in Nat /\ given[a] <= more[a]
  OBVIOUS
<1> QED
  BY <1>1, <1>2 DEF SoundAccount, BankAccount

\* A file of which one account has changed.
LEMMA SoundExcept ==
    ASSUME NEW st, NEW given, NEW a \in Account, NEW acct \in BankAccount,
           Sound(st, given), SoundAccount(a, acct, given[a])
    PROVE  Sound([st EXCEPT ![a] = acct], given)
BY DEF Sound, BankFile

\* One account less or more by an amount, with the line that says so.
DebitedAccount(acct, n) == [acct EXCEPT !.bal = @ - n, !.out = @ + n]
CreditedAccount(acct, n) == [acct EXCEPT !.bal = @ + n, !.in = @ + n]

LEMMA DebitedAccountSound ==
    ASSUME NEW a, NEW acct \in BankAccount, NEW g \in Nat, NEW n \in Nat,
           acct.bal >= n, SoundAccount(a, acct, g)
    PROVE  /\ DebitedAccount(acct, n) \in BankAccount
           /\ SoundAccount(a, DebitedAccount(acct, n), g)
<1>1. acct.bal - n \in Nat /\ acct.out + n \in Nat
  BY DEF BankAccount
<1>2. /\ DebitedAccount(acct, n).bal = acct.bal - n
      /\ DebitedAccount(acct, n).out = acct.out + n
      /\ DebitedAccount(acct, n).in = acct.in
      /\ DebitedAccount(acct, n).opening = acct.opening
      /\ DebitedAccount(acct, n).settled = acct.settled
  BY DEF DebitedAccount, BankAccount
<1>3. DebitedAccount(acct, n) \in BankAccount
  BY <1>1 DEF DebitedAccount, BankAccount
<1>4. acct.bal \in Nat /\ acct.out \in Nat /\ acct.in \in Nat /\ acct.opening \in Nat
  BY DEF BankAccount
<1> QED
  BY <1>2, <1>3, <1>4 DEF SoundAccount, Balanced

LEMMA CreditedAccountSound ==
    ASSUME NEW a, NEW acct \in BankAccount, NEW g \in Nat, NEW n \in Nat,
           SoundAccount(a, acct, g)
    PROVE  /\ CreditedAccount(acct, n) \in BankAccount
           /\ SoundAccount(a, CreditedAccount(acct, n), g)
<1>1. acct.bal + n \in Nat /\ acct.in + n \in Nat
  BY DEF BankAccount
<1>2. /\ CreditedAccount(acct, n).bal = acct.bal + n
      /\ CreditedAccount(acct, n).in = acct.in + n
      /\ CreditedAccount(acct, n).out = acct.out
      /\ CreditedAccount(acct, n).opening = acct.opening
      /\ CreditedAccount(acct, n).settled = acct.settled
  BY DEF CreditedAccount, BankAccount
<1>3. CreditedAccount(acct, n) \in BankAccount
  BY <1>1 DEF CreditedAccount, BankAccount
<1>4. acct.bal \in Nat /\ acct.out \in Nat /\ acct.in \in Nat /\ acct.opening \in Nat
  BY DEF BankAccount
<1> QED
  BY <1>2, <1>3, <1>4 DEF SoundAccount, Balanced

LEMMA DebitedSound ==
    ASSUME NEW st, NEW given \in [Account -> Nat], NEW a, NEW n \in Nat,
           Sound(st, given), CanDebit(st, a, n)
    PROVE  Sound(Debited(st, a, n), given) /\ Exists(Debited(st, a, n), a)
<1>1. a \in Account /\ st[a] # NoAccount /\ st[a].bal >= n
  BY DEF CanDebit, Exists
<1>2. st[a] \in BankAccount /\ SoundAccount(a, st[a], given[a])
  BY <1>1 DEF Sound, BankFile
<1>3. /\ DebitedAccount(st[a], n) \in BankAccount
      /\ SoundAccount(a, DebitedAccount(st[a], n), given[a])
  BY <1>1, <1>2, DebitedAccountSound
<1>4. Debited(st, a, n) = [st EXCEPT ![a] = DebitedAccount(st[a], n)]
  BY <1>1, <1>2 DEF Debited, DebitedAccount, Sound, BankFile, BankAccount
<1>5. st \in BankFile
  BY DEF Sound
<1>6. Exists(Debited(st, a, n), a)
  BY <1>1, <1>3, <1>4, <1>5, BankAssumption DEF Exists, BankFile
<1>7. Sound([st EXCEPT ![a] = DebitedAccount(st[a], n)], given)
  BY <1>1, <1>3, SoundExcept
<1> QED
  BY <1>4, <1>6, <1>7

LEMMA CreditedSound ==
    ASSUME NEW st, NEW given \in [Account -> Nat], NEW a, NEW n \in Nat,
           Sound(st, given), Exists(st, a)
    PROVE  Sound(Credited(st, a, n), given)
<1>1. a \in Account /\ st[a] # NoAccount
  BY DEF Exists
<1>2. st[a] \in BankAccount /\ SoundAccount(a, st[a], given[a])
  BY <1>1 DEF Sound, BankFile
<1>3. /\ CreditedAccount(st[a], n) \in BankAccount
      /\ SoundAccount(a, CreditedAccount(st[a], n), given[a])
  BY <1>1, <1>2, CreditedAccountSound
<1>4. Credited(st, a, n) = [st EXCEPT ![a] = CreditedAccount(st[a], n)]
  BY <1>1, <1>2 DEF Credited, CreditedAccount, Sound, BankFile, BankAccount
<1>5. Sound([st EXCEPT ![a] = CreditedAccount(st[a], n)], given)
  BY <1>1, <1>3, SoundExcept
<1> QED
  BY <1>4, <1>5

\* A transfer inside the bank, also of an account to itself.
LEMMA MovedSound ==
    ASSUME NEW st, NEW given \in [Account -> Nat], NEW a, NEW b, NEW n \in Nat,
           Sound(st, given), CanMove(st, a, b, n)
    PROVE  Sound(Moved(st, a, b, n), given)
<1>1. CanDebit(st, a, n) /\ Exists(st, b)
  BY DEF CanMove
<1>2. Sound(Debited(st, a, n), given) /\ Exists(Debited(st, a, n), a)
  BY <1>1, DebitedSound
<1>3. Exists(Debited(st, a, n), b)
  <2>1. CASE b = a
    BY <1>2, <2>1
  <2>2. CASE b # a
    BY <1>1, <2>2 DEF Debited, Exists, Sound, BankFile
  <2> QED
    BY <2>1, <2>2
<1> QED
  BY <1>2, <1>3, CreditedSound DEF Moved


\* A send: debited, and settled if the rail said so.
LEMMA SentSound ==
    ASSUME NEW st, NEW given \in [Account -> Nat], NEW a \in Account, NEW n \in Nat,
           NEW done \in BOOLEAN, NEW more \in [Account -> Nat],
           Sound(st, given), CanDebit(st, a, n),
           \A b \in Account : given[b] <= more[b],
           done => more[a] = given[a] + n
    PROVE  Sound([Debited(st, a, n) EXCEPT ![a].settled = @ + (IF done THEN n ELSE 0)], more)
<1> DEFINE now == Debited(st, a, n)
           acct == [now[a] EXCEPT !.settled = @ + (IF done THEN n ELSE 0)]
<1>1. Sound(now, given) /\ Exists(now, a)
  BY DebitedSound
<1>2. now[a] \in BankAccount /\ SoundAccount(a, now[a], given[a])
  BY <1>1 DEF Sound, BankFile, Exists
<1>3. /\ acct \in BankAccount
      /\ acct.settled = now[a].settled + (IF done THEN n ELSE 0)
      /\ acct.bal = now[a].bal /\ acct.in = now[a].in
      /\ acct.out = now[a].out /\ acct.opening = now[a].opening
  <2> HIDE DEF now
  <2> QED
    BY <1>2 DEF BankAccount
<1>4. given[a] \in Nat /\ more[a] \in Nat /\ given[a] <= more[a] /\ now[a].settled \in Nat
  <2> HIDE DEF now
  <2> QED
    BY <1>2 DEF BankAccount
<1>5. SoundAccount(a, acct, more[a])
  <2> HIDE DEF acct, now
  <2> QED
    BY <1>2, <1>3, <1>4 DEF SoundAccount, Balanced
<1>6. Sound(now, more)
  <2> HIDE DEF now
  <2> QED
    BY <1>1, SoundMore
<1>7. Sound([now EXCEPT ![a] = acct], more)
  <2> HIDE DEF acct, now
  <2> QED
    BY <1>3, <1>5, <1>6, SoundExcept
<1> QED
  BY <1>7

\* Settles: what is completed was taken.
LEMMA CompletedIsTaken ==
    ASSUME NEW r, NEW sent \in Settles(r) \cup {NotSent}
    PROVE  /\ sent.taken \in BOOLEAN /\ sent.completed \in BOOLEAN
           /\ sent.completed => sent.taken
<1> DEFINE Pair(t, d) == [taken |-> t, completed |-> d]
<1>1. CASE Provider
  <2>1. sent \in {Pair(TRUE, TRUE), Pair(TRUE, FALSE), Pair(FALSE, FALSE)}
    BY <1>1, Zenon DEF Settles, NotSent
  <2>2. CASE sent = Pair(TRUE, TRUE)
    BY <2>2
  <2>3. CASE sent = Pair(TRUE, FALSE)
    BY <2>3
  <2>4. CASE sent = Pair(FALSE, FALSE)
    BY <2>4
  <2> QED
    BY <2>1, <2>2, <2>3, <2>4, Zenon
<1>2. CASE ~Provider
  <2>1. sent = Pair(r.to = Federated, r.to = Federated) \/ sent = Pair(FALSE, FALSE)
    BY <1>2, Zenon DEF Settles, NotSent
  <2>2. CASE r.to = Federated
    <3>1. sent = Pair(TRUE, TRUE) \/ sent = Pair(FALSE, FALSE)
      BY <2>1, <2>2, Zenon
    <3>2. CASE sent = Pair(TRUE, TRUE)
      BY <3>2
    <3>3. CASE sent = Pair(FALSE, FALSE)
      BY <3>3
    <3> QED
      BY <3>1, <3>2, <3>3, Zenon
  <2>3. CASE r.to # Federated
    <3>1. sent = Pair(FALSE, FALSE)
      BY <2>1, <2>3, Zenon
    <3> QED
      BY <3>1
  <2> QED
    BY <2>2, <2>3
<1> QED
  BY <1>1, <1>2

LEMMA RequestFields ==
    ASSUME NEW r \in Request
    PROVE  /\ r.amount \in Nat
           /\ r.from \in Account \cup {NoAccount}
           /\ r.to \in Account \cup {Outside, Federated, NoAccount}
BY DEF Request

\* The copy of a request that moves money.
LEMMA AppliedSound ==
    ASSUME NEW r \in Request, NEW st, NEW given \in [Account -> Nat],
           NEW done \in BOOLEAN, NEW more \in [Account -> Nat],
           Sound(st, given), Accepts(st, r),
           \A b \in Account : given[b] <= more[b],
           done => r.from \in Account /\ more[r.from] = given[r.from] + r.amount
    PROVE  Sound(Applied(st, r, done), more)
<1>0. r.amount \in Nat
  BY RequestFields
<1>1. Sound(st, more)
  BY SoundMore
<1>2. CASE r.op = "deposit"
  <2>1. Exists(st, r.to)
    BY <1>2 DEF Accepts, CanDeposit, IsMove
  <2>2. Sound(Credited(st, r.to, r.amount), more)
    BY <1>0, <1>1, <2>1, CreditedSound
  <2> QED
    BY <1>2, <2>2 DEF Applied, IsMove
<1>3. CASE r.op # "deposit" /\ IsMove(r)
  <2>1. CanMove(st, r.from, r.to, r.amount)
    BY <1>3 DEF Accepts
  <2>2. Sound(Moved(st, r.from, r.to, r.amount), more)
    BY <1>0, <1>1, <2>1, MovedSound
  <2> QED
    BY <1>3, <2>2 DEF Applied
<1>4. CASE r.op # "deposit" /\ ~IsMove(r)
  <2>1. CanDebit(st, r.from, r.amount)
    BY <1>4 DEF Accepts
  <2>2. r.from \in Account
    BY <2>1 DEF CanDebit, Exists
  <2>3. Sound([Debited(st, r.from, r.amount) EXCEPT
                  ![r.from].settled = @ + (IF done THEN r.amount ELSE 0)], more)
    BY <1>0, <2>1, <2>2, SentSound
  <2> QED
    BY <1>4, <2>3 DEF Applied
<1> QED
  BY <1>2, <1>3, <1>4

\* The copy of a sync with the core: of the core's accounts it keeps the lines.
LEMMA CoreSyncedSound ==
    ASSUME NEW st, NEW given \in [Account -> Nat], Sound(st, given),
           NEW balances \in [CoreAccounts -> Nat]
    PROVE  Sound(CoreSynced(st, balances), given)
<1>1. st \in BankFile /\ CoreAccounts \subseteq Account /\ CoreCurrency \in Currency
  BY BankAssumption DEF Sound
<1>2. ASSUME NEW a \in Account
      PROVE  /\ CoreSynced(st, balances)[a] \in BankAccount \cup {NoAccount}
             /\ CoreSynced(st, balances)[a] # NoAccount
                => SoundAccount(a, CoreSynced(st, balances)[a], given[a])
  <2>1. CASE a \notin CoreAccounts
    <3>1. CoreSynced(st, balances)[a] = st[a]
      BY <2>1 DEF CoreSynced
    <3> QED
      BY <1>1, <3>1 DEF Sound, BankFile
  <2>2. CASE a \in CoreAccounts
    <3> DEFINE was == (IF st[a] = NoAccount THEN WithSystemAccount(st, a, CoreCurrency) ELSE st)[a]
    <3>1. was \in BankAccount /\ was.settled <= given[a]
      <4>1. CASE st[a] = NoAccount
        <5>1. was = [currency |-> CoreCurrency, opening |-> 0, bal |-> 0,
                     in |-> 0, out |-> 0, settled |-> 0]
          BY <1>1, <4>1 DEF WithSystemAccount, BankFile
        <5> QED
          BY <1>1, <5>1 DEF BankAccount
      <4>2. CASE st[a] # NoAccount
        BY <1>1, <4>2 DEF Sound, SoundAccount, BankFile
      <4> QED
        BY <4>1, <4>2
    <3>2. CoreSynced(st, balances)[a] = [was EXCEPT !.bal = balances[a]]
      BY <2>2 DEF CoreSynced
    <3>3. /\ [was EXCEPT !.bal = balances[a]] \in BankAccount
          /\ [was EXCEPT !.bal = balances[a]].settled = was.settled
      <4>1. balances[a] \in Nat
        BY <2>2
      <4> HIDE DEF was
      <4> QED
        BY <3>1, <4>1 DEF BankAccount
    <3> HIDE DEF was
    <3> QED
      BY <2>2, <3>1, <3>2, <3>3 DEF SoundAccount
  <2> QED
    BY <2>1, <2>2
<1>3. CoreSynced(st, balances) \in BankFile
  <2>1. CoreSynced(st, balances) = [a \in Account |-> CoreSynced(st, balances)[a]]
    BY DEF CoreSynced
  <2> QED
    BY <1>2, <2>1 DEF BankFile
<1> QED
  BY <1>2, <1>3 DEF Sound

-----------------------------------------------------------------------------
(* The invariant *)

LEMMA InitInv == BankInit => BankInv
<1> SUFFICES ASSUME BankInit
             PROVE  BankInv
  OBVIOUS
<1>1. EmptyBank \in BankFile
  BY EmptySound DEF Sound
<1> QED
  BY <1>1, EmptySound, BankAssumption DEF BankInit, BankInv

\* A step that ends or leaves the copies of requests and gives the rails no more.
LEMMA Calm ==
    ASSUME BankInv, NEW c \in Client, UNCHANGED handed,
           core' \in [CoreAccounts -> Nat],
           \/ UNCHANGED bank
           \/ bank' \in {NoFile, Broken}
           \/ Sound(bank', handed),
           \/ Done(c)
           \/ /\ req[c] \in Request /\ UNCHANGED req
              /\ \E label \in {"load", "save", "apply", "saveSync"} : Goto(c, label)
              /\ \/ UNCHANGED view
                 \/ \E st : Sound(st, handed) /\ view' = [view EXCEPT ![c] = st]
    PROVE  BankInv'
<1>1. (bank \notin {NoFile, Broken} => Sound(bank, handed))'
  BY DEF BankInv
<1>2. CASE Done(c)
  <2>1. view' \in [Client -> BankFile] /\ \A d \in Client : Sound(view'[d], handed)
    BY <1>2, EmptySound DEF Done, BankInv, Sound
  <2>2. /\ pc' \in [Client -> {"idle", "seed", "load", "save", "apply", "saveSync"}]
        /\ req' \in [Client -> Request \cup {NoRequest}]
        /\ \A d \in Client : pc'[d] # "idle" => req'[d] \in Request
    BY <1>2 DEF Done, Goto, BankInv
  <2> QED
    BY <1>1, <2>1, <2>2 DEF BankInv
<1>3. CASE /\ req[c] \in Request /\ UNCHANGED req
           /\ \E label \in {"load", "save", "apply", "saveSync"} : Goto(c, label)
           /\ \/ UNCHANGED view
              \/ \E st : Sound(st, handed) /\ view' = [view EXCEPT ![c] = st]
  <2>1. view' \in [Client -> BankFile] /\ \A d \in Client : Sound(view'[d], handed)
    BY <1>3 DEF BankInv, Sound
  <2>2. /\ pc' \in [Client -> {"idle", "seed", "load", "save", "apply", "saveSync"}]
        /\ req' \in [Client -> Request \cup {NoRequest}]
        /\ \A d \in Client : pc'[d] # "idle" => req'[d] \in Request
    BY <1>3 DEF Goto, BankInv
  <2> QED
    BY <1>1, <2>1, <2>2 DEF BankInv
<1> QED
  BY <1>2, <1>3

LEMMA StartInv ==
    ASSUME BankInv, NEW c \in Client, Start(c)
    PROVE  BankInv'
<1>1. PICK r \in Requests : req' = [req EXCEPT ![c] = r]
  BY DEF Start
<1>2. r \in Request
  BY <1>1, BankAssumption
<1>3. pc' = [pc EXCEPT ![c] = "seed"] \/ pc' = [pc EXCEPT ![c] = "load"]
  BY DEF Start, Goto
<1>4. UNCHANGED <<bank, view, core, handed>>
  BY DEF Start
<1> QED
  BY <1>1, <1>2, <1>3, <1>4 DEF BankInv

LEMMA SeedInv ==
    ASSUME BankInv, NEW c \in Client, Seed(c)
    PROVE  BankInv'
<1>1. req[c] \in Request /\ UNCHANGED <<core, handed>> /\ core \in [CoreAccounts -> Nat]
  BY DEF Seed, BankInv
<1>2. Sound(Seeded, handed)
  BY SeededSound DEF BankInv
<1>3. CASE Save(Seeded) /\ Goto(c, "load") /\ UNCHANGED <<req, view>>
  BY <1>1, <1>2, <1>3, Calm DEF Save
<1>4. CASE SaveFails /\ Done(c)
  BY <1>1, <1>4, Calm DEF SaveFails
<1> QED
  BY <1>3, <1>4 DEF Seed

LEMMA WorkInv ==
    ASSUME BankInv, NEW c \in Client, Work(c)
    PROVE  BankInv'
<1>1. req[c] \in Request /\ UNCHANGED <<bank, core>>
  BY DEF Work, BankInv
<1>2. CASE ~(CanLoad /\ Accepts(Loaded, req[c]))
  <2>1. Done(c) /\ UNCHANGED handed
    BY <1>2 DEF Work
  <2> QED
    BY <1>1, <2>1, Calm DEF BankInv
<1>3. CASE CanLoad /\ Accepts(Loaded, req[c])
  <2>1. PICK sent \in Settles(req[c]) \cup {NotSent} :
             /\ External(req[c]) \/ sent = NotSent
             /\ view' = [view EXCEPT ![c] = Applied(Loaded, req[c], sent.completed)]
             /\ handed' = IF sent.taken THEN [handed EXCEPT ![req[c].from] = @ + req[c].amount]
                          ELSE handed
             /\ Goto(c, "save") /\ UNCHANGED req
    BY <1>3 DEF Work
  <2>2. /\ sent.taken \in BOOLEAN /\ sent.completed \in BOOLEAN
        /\ sent.completed => sent.taken
    BY CompletedIsTaken
  <2>3. sent.taken => req[c].from \in Account
    <3>1. SUFFICES ASSUME External(req[c]), req[c].op # "deposit"
                   PROVE  req[c].from \in Account
      <4>1. NotSent.taken = FALSE
        BY DEF NotSent
      <4>2. CASE External(req[c]) /\ req[c].op = "deposit"
        <5>1. Exists(Loaded, req[c].to)
          BY <1>3, <4>2 DEF Accepts, CanDeposit, IsMove
        <5> QED
          BY <4>2, <5>1, BankAssumption DEF Exists, External
      <4> QED
        BY <2>1, <3>1, <4>1, <4>2
    <3>2. CanDebit(Loaded, req[c].from, req[c].amount)
      BY <1>3, <3>1 DEF Accepts, IsMove
    <3> QED
      BY <3>2 DEF CanDebit, Exists
  <2>4. handed \in [Account -> Nat] /\ req[c].amount \in Nat
    BY <1>1, RequestFields DEF BankInv
  <2>5. /\ handed' \in [Account -> Nat]
        /\ \A b \in Account : handed[b] <= handed'[b]
        /\ sent.taken => handed'[req[c].from] = handed[req[c].from] + req[c].amount
    BY <2>1, <2>2, <2>3, <2>4
  <2>6. Sound(Applied(Loaded, req[c], sent.completed), handed')
    BY <1>1, <1>3, <2>2, <2>3, <2>4, <2>5, LoadedSound, AppliedSound
  <2>7. \A d \in Client : Sound(view[d], handed')
    BY <2>4, <2>5, SoundMore DEF BankInv
  <2>8. bank \notin {NoFile, Broken} => Sound(bank, handed')
    BY <2>4, <2>5, SoundMore DEF BankInv
  <2>9. view' \in [Client -> BankFile] /\ \A d \in Client : Sound(view'[d], handed')
    BY <2>1, <2>6, <2>7 DEF BankInv, Sound
  <2>10. /\ pc' \in [Client -> {"idle", "seed", "load", "save", "apply", "saveSync"}]
         /\ \A d \in Client : pc'[d] # "idle" => req'[d] \in Request
    BY <1>1, <2>1 DEF Goto, BankInv
  <2> QED
    BY <1>1, <2>1, <2>5, <2>8, <2>9, <2>10 DEF BankInv
<1> QED
  BY <1>2, <1>3

LEMMA WriteInv ==
    ASSUME BankInv, NEW c \in Client, Write(c)
    PROVE  BankInv'
<1>1. req[c] \in Request /\ UNCHANGED <<core, handed>> /\ core \in [CoreAccounts -> Nat]
  BY DEF Write, BankInv
<1>2. Sound(view[c], handed)
  BY DEF BankInv
<1>3. CASE Save(view[c]) /\ Goto(c, "apply") /\ UNCHANGED <<req, view>>
  BY <1>1, <1>2, <1>3, Calm DEF Save
<1>4. CASE SaveFails /\ Done(c)
  BY <1>1, <1>4, Calm DEF SaveFails
<1> QED
  BY <1>3, <1>4 DEF Write

\* What the core is told keeps its balances numbers.
LEMMA CoreType ==
    ASSUME core \in [CoreAccounts -> Nat], NEW a, NEW n \in Nat,
           CoreTakes(a, n) \/ CoreGives(a, n)
    PROVE  core' \in [CoreAccounts -> Nat]
BY DEF CoreTakes, CoreGives

LEMMA ApplyInv ==
    ASSUME BankInv, NEW c \in Client, Apply(c)
    PROVE  BankInv'
<1>1. req[c] \in Request /\ UNCHANGED <<bank, handed>> /\ Done(c) /\ core \in [CoreAccounts -> Nat]
  BY DEF Apply, BankInv
<1>2. req[c].amount \in Nat
  BY <1>1, RequestFields
<1>3. core' \in [CoreAccounts -> Nat]
  <2>1. CASE CoreApplies(req[c])
    BY <1>1, <1>2, <2>1, CoreType DEF CoreApplies
  <2>2. CASE UNCHANGED core
    BY <1>1, <2>2
  <2> QED
    BY <2>1, <2>2 DEF Apply
<1> QED
  BY <1>1, <1>3, Calm

LEMMA CoreWorkInv ==
    ASSUME BankInv, NEW c \in Client, CoreWork(c)
    PROVE  BankInv'
<1>1. /\ req[c] \in Request /\ UNCHANGED <<bank, handed>>
      /\ core \in [CoreAccounts -> Nat]
  BY DEF CoreWork, BankInv
<1>2. req[c].amount \in Nat
  BY <1>1, RequestFields
<1>3. core' \in [CoreAccounts -> Nat]
  BY <1>1, <1>2, CoreType DEF CoreWork
<1>4. CASE Done(c)
  BY <1>1, <1>3, <1>4, Calm
<1>5. CASE /\ CanLoad /\ view' = [view EXCEPT ![c] = CoreSynced(Loaded, core')]
           /\ Goto(c, "saveSync") /\ UNCHANGED req
  <2>1. Sound(CoreSynced(Loaded, core'), handed)
    BY <1>3, <1>5, LoadedSound, CoreSyncedSound DEF BankInv
  <2> QED
    BY <1>1, <1>3, <1>5, <2>1, Calm
<1> QED
  BY <1>4, <1>5 DEF CoreWork

LEMMA CoreWriteInv ==
    ASSUME BankInv, NEW c \in Client, CoreWrite(c)
    PROVE  BankInv'
<1>1. Done(c) /\ UNCHANGED <<core, handed>> /\ core \in [CoreAccounts -> Nat]
  BY DEF CoreWrite, BankInv
<1>2. Sound(view[c], handed)
  BY DEF BankInv
<1>3. UNCHANGED bank \/ bank' \in {NoFile, Broken} \/ Sound(bank', handed)
  BY <1>2 DEF CoreWrite, Save, SaveFails
<1> QED
  BY <1>1, <1>3, Calm

LEMMA StopInv ==
    ASSUME BankInv, Stop
    PROVE  BankInv'
<1>1. EmptyBank \in BankFile
  BY EmptySound DEF Sound
<1> QED
  BY <1>1, EmptySound DEF Stop, BankInv

LEMMA StepInv == BankInv /\ [BankNext]_bankVars => BankInv'
<1> SUFFICES ASSUME BankInv, [BankNext]_bankVars
             PROVE  BankInv'
  OBVIOUS
<1>1. ASSUME NEW c \in Client, Start(c)
      PROVE  BankInv'
  BY <1>1, StartInv
<1>2. ASSUME NEW c \in Client, Seed(c)
      PROVE  BankInv'
  BY <1>2, SeedInv
<1>3. ASSUME NEW c \in Client, Work(c)
      PROVE  BankInv'
  BY <1>3, WorkInv
<1>4. ASSUME NEW c \in Client, Write(c)
      PROVE  BankInv'
  BY <1>4, WriteInv
<1>5. ASSUME NEW c \in Client, Apply(c)
      PROVE  BankInv'
  BY <1>5, ApplyInv
<1>6. ASSUME NEW c \in Client, CoreWork(c)
      PROVE  BankInv'
  BY <1>6, CoreWorkInv
<1>7. ASSUME NEW c \in Client, CoreWrite(c)
      PROVE  BankInv'
  BY <1>7, CoreWriteInv
<1>8. CASE Stop
  BY <1>8, StopInv
<1>9. CASE UNCHANGED bankVars
  BY <1>9 DEF bankVars, BankInv
<1> QED
  BY <1>1, <1>2, <1>3, <1>4, <1>5, <1>6, <1>7, <1>8, <1>9 DEF BankNext

THEOREM BankInvariant == BankSpec => []BankInv
BY InitInv, StepInv, PTL DEF BankSpec

\* online_bank.go: the lines of an account explain its balance, whatever
\* requests overlap, fail or are cut, for any number of them.
THEOREM StatementExplains == BankSpec => []Reconciled
<1>1. BankInv => Reconciled
  BY DEF BankInv, Sound, SoundAccount, Reconciled, BankFile
<1> QED
  BY <1>1, BankInvariant, PTL

\* online_bank.go, Transfer: of an account no more is booked as sent than rails
\* were given, though files are written over each other and writes fail.
THEOREM NothingBookedUnsent == BankSpec => []BookedIsSent
<1>1. BankInv => BookedIsSent
  BY DEF BankInv, Sound, SoundAccount, BookedIsSent, BankFile
<1> QED
  BY <1>1, BankInvariant, PTL

-----------------------------------------------------------------------------
(***************************************************************************)
(* The mirror of the core's accounts: with one request at a time the bank  *)
(* has of each what the core has, when no request is under way.  Between   *)
(* its two steps a transfer is in the bank's file and not yet in the core. *)
(***************************************************************************)

\* A file that has what the core has, and one in which the request has been
\* carried out that the core will be told of.
Follows(st) == \A a \in CoreAccounts : st[a] # NoAccount => st[a].bal = core[a]
Told(r, a) ==
    IF a = r.from THEN core[a] - r.amount ELSE IF a = r.to THEN core[a] + r.amount ELSE core[a]
IsAhead(st, r) ==
    /\ \A a \in CoreAccounts : st[a] # NoAccount => st[a].bal = Told(r, a)
    /\ r.from \in CoreAccounts => core[r.from] >= r.amount

CoreClient(step, r, v) ==
    /\ step # "idle" => r \in Requests
    /\ step \in {"idle", "seed", "load", "save"} => bank = NoFile \/ Follows(bank)
    /\ step = "save" => IsAhead(v, r)
    /\ step = "apply" => bank # NoFile /\ IsAhead(bank, r)
    /\ step = "saveSync" => Follows(v)

CoreInv == bank # Broken /\ \A c \in Client : CoreClient(pc[c], req[c], view[c])

CoreState == CoreAlone /\ BankInv /\ CoreInv

LEMMA DebitedBalance ==
    ASSUME NEW acct \in BankAccount, NEW n \in Nat, acct.bal >= n
    PROVE  DebitedAccount(acct, n) \in BankAccount /\ DebitedAccount(acct, n).bal = acct.bal - n
<1>1. acct.bal - n \in Nat /\ acct.out + n \in Nat
  BY DEF BankAccount
<1> QED
  BY <1>1 DEF DebitedAccount, BankAccount

LEMMA CreditedBalance ==
    ASSUME NEW acct \in BankAccount, NEW n \in Nat
    PROVE  CreditedAccount(acct, n) \in BankAccount /\ CreditedAccount(acct, n).bal = acct.bal + n
<1>1. acct.bal + n \in Nat /\ acct.in + n \in Nat
  BY DEF BankAccount
<1> QED
  BY <1>1 DEF CreditedAccount, BankAccount

LEMMA DebitedFile ==
    ASSUME NEW st \in BankFile, NEW a, NEW n \in Nat, CanDebit(st, a, n)
    PROVE  /\ Debited(st, a, n) \in BankFile /\ a \in Account /\ st[a].bal >= n
           /\ \A x \in Account : /\ Debited(st, a, n)[x] = NoAccount <=> st[x] = NoAccount
                                 /\ x # a => Debited(st, a, n)[x] = st[x]
           /\ Debited(st, a, n)[a].bal = st[a].bal - n
<1>1. a \in Account /\ st[a] # NoAccount /\ st[a].bal >= n
  BY DEF CanDebit, Exists
<1>2. st[a] \in BankAccount
  BY <1>1 DEF BankFile
<1>3. PICK d : d = DebitedAccount(st[a], n)
  OBVIOUS
<1>4. d \in BankAccount /\ d.bal = st[a].bal - n
  BY <1>1, <1>2, <1>3, DebitedBalance
<1>5. Debited(st, a, n) = [st EXCEPT ![a] = d]
  BY <1>1, <1>2, <1>3 DEF Debited, DebitedAccount, BankFile, BankAccount
<1> QED
  BY <1>1, <1>4, <1>5, BankAssumption DEF BankFile

LEMMA CreditedFile ==
    ASSUME NEW st \in BankFile, NEW a, NEW n \in Nat, Exists(st, a)
    PROVE  /\ Credited(st, a, n) \in BankFile /\ a \in Account
           /\ \A x \in Account : /\ Credited(st, a, n)[x] = NoAccount <=> st[x] = NoAccount
                                 /\ x # a => Credited(st, a, n)[x] = st[x]
           /\ Credited(st, a, n)[a].bal = st[a].bal + n
<1>1. a \in Account /\ st[a] # NoAccount
  BY DEF Exists
<1>2. st[a] \in BankAccount
  BY <1>1 DEF BankFile
<1>3. PICK d : d = CreditedAccount(st[a], n)
  OBVIOUS
<1>4. d \in BankAccount /\ d.bal = st[a].bal + n
  BY <1>1, <1>2, <1>3, CreditedBalance
<1>5. Credited(st, a, n) = [st EXCEPT ![a] = d]
  BY <1>1, <1>2, <1>3 DEF Credited, CreditedAccount, BankFile, BankAccount
<1> QED
  BY <1>1, <1>4, <1>5, BankAssumption DEF BankFile

\* A send notes what was settled, which is no matter of the balance.
LEMMA SettledFile ==
    ASSUME NEW st \in BankFile, NEW a \in Account, st[a] # NoAccount, NEW n \in Nat
    PROVE  \A x \in Account :
              /\ [st EXCEPT ![a].settled = @ + n][x] = NoAccount <=> st[x] = NoAccount
              /\ st[x] # NoAccount => [st EXCEPT ![a].settled = @ + n][x].bal = st[x].bal
<1>1. st[a] \in BankAccount
  BY DEF BankFile
<1>2. PICK acct : acct = [st[a] EXCEPT !.settled = @ + n]
  OBVIOUS
<1>3. acct \in BankAccount /\ acct.bal = st[a].bal
  <2>1. st[a].settled + n \in Nat
    BY <1>1 DEF BankAccount
  <2> QED
    BY <1>1, <1>2, <2>1 DEF BankAccount
<1>4. [st EXCEPT ![a].settled = @ + n] = [st EXCEPT ![a] = acct]
  BY <1>2 DEF BankFile
<1> QED
  BY <1>3, <1>4, BankAssumption DEF BankFile

\* A copy in which the request has been carried out is ahead of the core.
LEMMA AppliedIsAhead ==
    ASSUME CoreAlone, NEW st \in BankFile, Follows(st), core \in [CoreAccounts -> Nat],
           NEW r \in Requests, r.op \in {"move", "send", "deposit"}, Accepts(st, r), NEW done \in BOOLEAN
    PROVE  IsAhead(Applied(st, r, done), r)
<1>1. r \in Request /\ r.amount \in Nat /\ CoreAccounts \subseteq Account
  BY RequestFields, BankAssumption
<1>2. /\ ~(r.from \in CoreAccounts /\ r.to \in CoreAccounts)
      /\ r.op = "deposit" => r.from = NoAccount
  BY DEF CoreAlone
<1>3. \A a \in CoreAccounts : core[a] \in Nat /\ a # NoAccount /\ a # Outside /\ a # Federated
  BY <1>1, BankAssumption
<1>4. CASE r.op = "deposit"
  <2>1. PICK new : new = Credited(st, r.to, r.amount)
    OBVIOUS
  <2>2. Exists(st, r.to)
    BY <1>4 DEF Accepts, CanDeposit, IsMove
  <2>3. /\ \A x \in Account : (new[x] = NoAccount <=> st[x] = NoAccount) /\ (x # r.to => new[x] = st[x])
        /\ new[r.to].bal = st[r.to].bal + r.amount
    BY <1>1, <2>1, <2>2, CreditedFile
  <2>4. Applied(st, r, done) = new
    BY <1>4, <2>1 DEF Applied, IsMove
  <2>5. IsAhead(new, r)
    BY <1>1, <1>2, <1>3, <1>4, <2>3 DEF IsAhead, Told, Follows
  <2> QED
    BY <2>4, <2>5
<1>5. CASE r.op # "deposit" /\ IsMove(r)
  <2>1. PICK mid, new : mid = Debited(st, r.from, r.amount) /\ new = Credited(mid, r.to, r.amount)
    OBVIOUS
  <2>2. CanDebit(st, r.from, r.amount) /\ Exists(st, r.to)
    BY <1>5 DEF Accepts, CanMove
  <2>3. /\ mid \in BankFile /\ r.from \in Account /\ st[r.from].bal >= r.amount
        /\ \A x \in Account : (mid[x] = NoAccount <=> st[x] = NoAccount) /\ (x # r.from => mid[x] = st[x])
        /\ mid[r.from].bal = st[r.from].bal - r.amount
    BY <1>1, <2>1, <2>2, DebitedFile
  <2>4. Exists(mid, r.to)
    BY <2>2, <2>3 DEF Exists
  <2>5. /\ \A x \in Account : (new[x] = NoAccount <=> mid[x] = NoAccount) /\ (x # r.to => new[x] = mid[x])
        /\ new[r.to].bal = mid[r.to].bal + r.amount
    BY <1>1, <2>1, <2>3, <2>4, CreditedFile
  <2>6. Applied(st, r, done) = new
    BY <1>5, <2>1 DEF Applied, Moved
  <2>7. st[r.from] # NoAccount
    BY <2>2 DEF CanDebit, Exists
  <2>8. IsAhead(new, r)
    <3>1. ASSUME NEW a \in CoreAccounts, new[a] # NoAccount
          PROVE  new[a].bal = Told(r, a)
      <4>1. st[a] # NoAccount /\ st[a].bal = core[a]
        BY <1>1, <2>3, <2>5, <3>1 DEF Follows
      <4>2. CASE a = r.from
        BY <1>1, <1>2, <2>3, <2>5, <4>1, <4>2 DEF Told
      <4>3. CASE a # r.from /\ a = r.to
        BY <1>1, <2>3, <2>5, <4>1, <4>3 DEF Told
      <4>4. CASE a # r.from /\ a # r.to
        BY <1>1, <2>3, <2>5, <4>1, <4>4 DEF Told
      <4> QED
        BY <4>2, <4>3, <4>4
    <3>2. r.from \in CoreAccounts => core[r.from] >= r.amount
      BY <2>3, <2>7 DEF Follows
    <3> QED
      BY <3>1, <3>2 DEF IsAhead
  <2> QED
    BY <2>6, <2>8
<1>6. CASE r.op # "deposit" /\ ~IsMove(r)
  <2>1. (IF done THEN r.amount ELSE 0) \in Nat
    BY <1>1
  <2>2. PICK n \in Nat : n = (IF done THEN r.amount ELSE 0)
    BY <2>1
  <2>3. PICK mid, new :
           /\ mid = Debited(st, r.from, r.amount)
           /\ new = [mid EXCEPT ![r.from].settled = @ + n]
    OBVIOUS
  <2>4. CanDebit(st, r.from, r.amount)
    BY <1>6 DEF Accepts
  <2>5. /\ mid \in BankFile /\ r.from \in Account /\ st[r.from].bal >= r.amount
        /\ \A x \in Account : (mid[x] = NoAccount <=> st[x] = NoAccount) /\ (x # r.from => mid[x] = st[x])
        /\ mid[r.from].bal = st[r.from].bal - r.amount
    BY <1>1, <2>3, <2>4, DebitedFile
  <2>6. st[r.from] # NoAccount /\ mid[r.from] # NoAccount
    BY <2>4, <2>5 DEF CanDebit, Exists
  <2>7. \A x \in Account : (new[x] = NoAccount <=> mid[x] = NoAccount)
                           /\ (mid[x] # NoAccount => new[x].bal = mid[x].bal)
    BY <2>3, <2>5, <2>6, SettledFile
  <2>8. Applied(st, r, done) = new
    BY <1>6, <2>2, <2>3 DEF Applied
  <2>9. r.to \in {Outside, Federated}
    BY <1>6 DEF IsMove, External
  <2>10. IsAhead(new, r)
    <3>1. ASSUME NEW a \in CoreAccounts, new[a] # NoAccount
          PROVE  new[a].bal = Told(r, a)
      <4>1. a \in Account /\ a # r.to /\ st[a] # NoAccount /\ mid[a] # NoAccount /\ st[a].bal = core[a]
        BY <1>1, <1>3, <2>5, <2>7, <2>9, <3>1 DEF Follows
      <4>2. CASE a = r.from
        BY <2>5, <2>7, <4>1, <4>2 DEF Told
      <4>3. CASE a # r.from
        BY <2>5, <2>7, <4>1, <4>3 DEF Told
      <4> QED
        BY <4>2, <4>3
    <3>2. r.from \in CoreAccounts => core[r.from] >= r.amount
      BY <2>5, <2>6 DEF Follows
    <3> QED
      BY <3>1, <3>2 DEF IsAhead
  <2> QED
    BY <2>8, <2>10
<1> QED
  BY <1>4, <1>5, <1>6

LEMMA CoreInit == BankInit => CoreInv
BY BankAssumption DEF BankInit, CoreInv, CoreClient

LEMMA LoadedFollows ==
    ASSUME BankInv, bank # Broken, bank = NoFile \/ Follows(bank)
    PROVE  CanLoad /\ Loaded \in BankFile /\ Follows(Loaded)
<1>1. Loaded \in BankFile
  BY LoadedSound DEF CanLoad, Sound, BankInv
<1> QED
  BY <1>1, BankAssumption DEF CanLoad, Loaded, Follows, EmptyBank

\* A step of the one client.
LEMMA CoreBecame ==
    ASSUME CoreState, NEW c \in Client, NEW step, NEW r, NEW v,
           pc' = [pc EXCEPT ![c] = step], req' = [req EXCEPT ![c] = r], view' = [view EXCEPT ![c] = v],
           bank' # Broken, CoreClient(step, r, v)'
    PROVE  CoreInv'
<1>1. pc'[c] = step /\ req'[c] = r /\ view'[c] = v
  BY DEF CoreState, BankInv
<1>2. \A d \in Client : d = c
  BY DEF CoreState, CoreAlone
<1> QED
  BY <1>1, <1>2 DEF CoreInv

LEMMA CoreAt ==
    ASSUME CoreState, NEW c \in Client
    PROVE  /\ CoreClient(pc[c], req[c], view[c]) /\ bank # Broken /\ view[c] \in BankFile
           /\ pc = [pc EXCEPT ![c] = pc[c]] /\ req = [req EXCEPT ![c] = req[c]]
           /\ view = [view EXCEPT ![c] = view[c]] /\ core \in [CoreAccounts -> Nat]
           /\ ~DiskFaults /\ ~Stops /\ ~CoreFaults
BY DEF CoreState, CoreInv, CoreAlone, BankInv

\* The request ends, and the bank has what the core has.
LEMMA CoreEnds ==
    ASSUME CoreState, NEW c \in Client, Done(c), bank' # Broken, (bank = NoFile \/ Follows(bank))'
    PROVE  CoreInv'
<1>1. CoreClient("idle", NoRequest, EmptyBank)'
  BY DEF CoreClient
<1> QED
  BY <1>1, CoreBecame DEF Done, Goto

LEMMA StartCore ==
    ASSUME CoreState, NEW c \in Client, Start(c)
    PROVE  CoreInv'
<1>1. PICK r \in Requests : req' = [req EXCEPT ![c] = r]
  BY DEF Start
<1>2. PICK step \in {"seed", "load"} : pc' = [pc EXCEPT ![c] = step]
  BY DEF Start, Goto
<1>3. PICK v : v = view[c]
  OBVIOUS
<1>4. bank = NoFile \/ Follows(bank)
  BY CoreAt DEF CoreClient, Start
<1>5. CoreClient(step, r, v)'
  BY <1>2, <1>4 DEF Start, CoreClient, Follows
<1> QED
  BY <1>1, <1>2, <1>3, <1>5, CoreAt, CoreBecame DEF Start

LEMMA SeedCore ==
    ASSUME CoreState, NEW c \in Client, Seed(c)
    PROVE  CoreInv'
<1>1. /\ bank' = Seeded /\ Goto(c, "load")
      /\ req' = [req EXCEPT ![c] = req[c]] /\ view' = [view EXCEPT ![c] = view[c]]
  BY CoreAt DEF Seed, Save, SaveFails
<1>2. PICK r, v : r = req[c] /\ v = view[c]
  OBVIOUS
<1>3. r \in Requests
  BY <1>2, CoreAt DEF Seed, CoreClient
<1>4. Follows(bank)' /\ bank' # Broken
  BY <1>1, BankAssumption DEF Follows, CoreState, CoreAlone
<1>5. CoreClient("load", r, v)'
  BY <1>3, <1>4 DEF CoreClient
<1> QED
  BY <1>1, <1>2, <1>4, <1>5, CoreAt, CoreBecame DEF Goto

LEMMA WorkCore ==
    ASSUME CoreState, NEW c \in Client, Work(c)
    PROVE  CoreInv'
<1>1. req[c] \in Requests /\ (bank = NoFile \/ Follows(bank)) /\ UNCHANGED <<bank, core>>
  BY CoreAt DEF Work, CoreClient
<1>2. (bank = NoFile \/ Follows(bank))' /\ bank' # Broken
  BY <1>1, CoreAt DEF Follows
<1>3. CanLoad /\ Loaded \in BankFile /\ Follows(Loaded)
  BY <1>1, CoreAt, LoadedFollows DEF CoreState
<1>4. CASE ~Accepts(Loaded, req[c])
  BY <1>2, <1>4, CoreEnds DEF Work
<1>5. CASE Accepts(Loaded, req[c])
  <2>1. PICK sent \in Settles(req[c]) \cup {NotSent} :
             /\ view' = [view EXCEPT ![c] = Applied(Loaded, req[c], sent.completed)]
             /\ Goto(c, "save") /\ UNCHANGED req
    BY <1>3, <1>5 DEF Work
  <2>2. PICK r, v, done : r = req[c] /\ done = sent.completed /\ v = Applied(Loaded, r, done)
    OBVIOUS
  <2>3. done \in BOOLEAN
    BY <2>2, CompletedIsTaken
  <2>4. IsAhead(v, r)
    BY <1>1, <1>3, <1>5, <2>2, <2>3, CoreAt, AppliedIsAhead DEF CoreState, Work
  <2>5. CoreClient("save", r, v)'
    <3>1. IsAhead(v, r)'
      BY <1>1, <2>4 DEF IsAhead, Told
    <3> QED
      BY <1>1, <1>2, <2>2, <3>1 DEF CoreClient
  <2> QED
    BY <1>2, <2>1, <2>2, <2>5, CoreAt, CoreBecame DEF Goto
<1> QED
  BY <1>4, <1>5

LEMMA WriteCore ==
    ASSUME CoreState, NEW c \in Client, Write(c)
    PROVE  CoreInv'
<1>1. /\ bank' = view[c] /\ Goto(c, "apply") /\ UNCHANGED core
      /\ req' = [req EXCEPT ![c] = req[c]] /\ view' = [view EXCEPT ![c] = view[c]]
  BY CoreAt DEF Write, Save, SaveFails
<1>2. PICK r, v : r = req[c] /\ v = view[c]
  OBVIOUS
<1>3. r \in Requests /\ IsAhead(v, r) /\ v \in BankFile
  BY <1>2, CoreAt DEF Write, CoreClient
<1>4. bank' \notin {NoFile, Broken} /\ IsAhead(v, r)'
  BY <1>1, <1>2, <1>3, BankAssumption DEF IsAhead, Told
<1>5. bank' = v
  BY <1>1, <1>2
<1>6. IsAhead(bank, r)'
  BY <1>4, <1>5 DEF IsAhead, Told
<1>7. CoreClient("apply", r, v)'
  BY <1>3, <1>4, <1>6 DEF CoreClient
<1> QED
  BY <1>1, <1>2, <1>4, <1>7, CoreAt, CoreBecame DEF Goto

\* The core catches up.
LEMMA ApplyCore ==
    ASSUME CoreState, NEW c \in Client, Apply(c)
    PROVE  CoreInv'
<1>1. PICK r : r = req[c]
  OBVIOUS
<1>2. r \in Requests /\ bank # NoFile /\ IsAhead(bank, r) /\ UNCHANGED bank /\ Done(c)
  BY <1>1, CoreAt DEF Apply, CoreClient
<1>3. ~(r.from \in CoreAccounts /\ r.to \in CoreAccounts)
  BY <1>2 DEF CoreState, CoreAlone
<1>4. ~CoreRefuses(r)
  <2>1. r.amount \in Nat
    BY <1>2, RequestFields, BankAssumption
  <2> QED
    BY <1>2, <2>1, CoreAt DEF CoreRefuses, IsAhead
<1>5. CoreApplies(r)
  BY <1>1, <1>4 DEF Apply
<1>6. \A a \in CoreAccounts : core'[a] = Told(r, a)
  <2>1. CASE r.from \in CoreAccounts
    BY <1>3, <1>5, <2>1, CoreAt DEF CoreApplies, CoreTakes, Told
  <2>2. CASE r.from \notin CoreAccounts /\ r.to \in CoreAccounts
    BY <1>5, <2>2, CoreAt DEF CoreApplies, CoreGives, Told
  <2>3. CASE r.from \notin CoreAccounts /\ r.to \notin CoreAccounts
    BY <1>5, <2>3 DEF CoreApplies, Told
  <2> QED
    BY <2>1, <2>2, <2>3
<1>7. Follows(bank)'
  BY <1>2, <1>6 DEF IsAhead, Follows
<1> QED
  BY <1>2, <1>7, CoreAt, CoreEnds

\* A sync takes the core's balances over, after whatever was posted.
LEMMA CoreWorkCore ==
    ASSUME CoreState, NEW c \in Client, CoreWork(c)
    PROVE  CoreInv'
<1>1. req[c] \in Requests /\ (bank = NoFile \/ Follows(bank)) /\ UNCHANGED bank
  BY CoreAt DEF CoreWork, CoreClient
<1>2. CanLoad
  BY CoreAt DEF CanLoad
<1>3. CASE UNCHANGED core /\ Done(c)
  <2>1. (bank = NoFile \/ Follows(bank))'
    BY <1>1, <1>3 DEF Follows
  <2> QED
    BY <1>1, <1>3, <2>1, CoreAt, CoreEnds
<1>4. CASE view' = [view EXCEPT ![c] = CoreSynced(Loaded, core')] /\ Goto(c, "saveSync") /\ UNCHANGED req
  <2>1. PICK r, st, v : r = req[c] /\ st = Loaded /\ v = CoreSynced(st, core')
    OBVIOUS
  <2>2. CoreAccounts \subseteq Account /\ st \in BankFile
    BY <1>1, <2>1, CoreAt, LoadedFollows, BankAssumption DEF CoreState
  <2>3. \A a \in CoreAccounts : v[a].bal = core'[a]
    <3> SUFFICES ASSUME NEW a \in CoreAccounts
                 PROVE  v[a].bal = core'[a]
      OBVIOUS
    <3>1. PICK acct : acct = (IF st[a] = NoAccount THEN WithSystemAccount(st, a, CoreCurrency) ELSE st)[a]
      OBVIOUS
    <3>2. v[a] = [acct EXCEPT !.bal = core'[a]]
      BY <2>1, <2>2, <3>1 DEF CoreSynced
    <3>3. acct \in BankAccount
      BY <2>2, <3>1, BankAssumption DEF WithSystemAccount, BankFile, BankAccount
    <3> QED
      BY <3>2, <3>3 DEF BankAccount
  <2>4. CoreClient("saveSync", r, v)'
    BY <1>1, <2>1, <2>3 DEF CoreClient, Follows
  <2> QED
    BY <1>1, <1>4, <2>1, <2>4, CoreAt, CoreBecame DEF Goto
<1> QED
  BY <1>2, <1>3, <1>4 DEF CoreWork

LEMMA CoreWriteCore ==
    ASSUME CoreState, NEW c \in Client, CoreWrite(c)
    PROVE  CoreInv'
<1>1. bank' = view[c] /\ Done(c) /\ UNCHANGED core
  BY CoreAt DEF CoreWrite, Save, SaveFails
<1>2. Follows(view[c]) /\ view[c] \in BankFile
  BY CoreAt DEF CoreWrite, CoreClient
<1>3. bank' # Broken /\ Follows(bank)'
  BY <1>1, <1>2, BankAssumption DEF Follows
<1> QED
  BY <1>1, <1>3, CoreEnds

LEMMA CoreKeeps == CoreState /\ [BankNext]_bankVars => CoreInv'
<1> SUFFICES ASSUME CoreState, [BankNext]_bankVars
             PROVE  CoreInv'
  OBVIOUS
<1>1. ASSUME NEW c \in Client,
             \/ Start(c) \/ Seed(c) \/ Work(c) \/ Write(c) \/ Apply(c) \/ CoreWork(c) \/ CoreWrite(c)
      PROVE  CoreInv'
  BY <1>1, StartCore, SeedCore, WorkCore, WriteCore, ApplyCore, CoreWorkCore, CoreWriteCore
<1>2. CASE Stop
  BY <1>2 DEF Stop, CoreState, CoreAlone
<1>3. CASE UNCHANGED bankVars
  BY <1>3 DEF bankVars, CoreState, CoreInv, CoreClient, Follows, IsAhead, Told
<1> QED
  BY <1>1, <1>2, <1>3 DEF BankNext

\* The mirror (SyncFineractToOnlineBank, applyFineractTransfer): as long as
\* requests do not overlap and nothing fails, a core account has in the bank what
\* it has in the core between requests.
THEOREM CoreIsFollowed == ASSUME CoreAlone PROVE BankSpec => []CoreFollows
<1>1. BankInit => CoreInv
  BY CoreInit
<1>2. BankInv /\ CoreInv /\ [BankNext]_bankVars => CoreInv'
  BY CoreKeeps DEF CoreState
<1>3. CoreInv => CoreFollows
  <2> SUFFICES ASSUME CoreInv, Quiet, bank \notin {NoFile, Broken},
                      NEW a \in CoreAccounts, bank[a] # NoAccount
               PROVE  bank[a].bal = core[a]
    BY DEF CoreFollows
  <2>1. Follows(bank)
    BY DEF CoreInv, CoreClient, Quiet, CoreAlone
  <2> QED
    BY <2>1 DEF Follows
<1> QED
  BY <1>1, <1>2, <1>3, BankInvariant, PTL DEF BankSpec

-----------------------------------------------------------------------------
(***************************************************************************)
(* Cash codes: their money.  A code is known, or paid for, only after its  *)
(* money has reached the escrow account, because a copy of the codes is    *)
(* marked escrowed only by an issue that has transferred it.               *)
(***************************************************************************)

\* The steps that a request of each kind goes through.
CashSteps(op) ==
    CASE op = "issue" -> {"seed", "escrow", "saveEscrow", "issue", "saveIssue", "fund",
                          "saveTransfer", "markEscrow", "saveMark", "undo", "saveUndo"}
      [] op = "redeem" -> {"seed", "escrow", "saveEscrow", "verify", "pay", "saveTransfer",
                           "redeem", "saveRedeem", "markRedeemed", "saveMark"}
      [] OTHER -> {"cancel", "saveCancel", "refund", "saveTransfer"}

\* What a request knows of its code at a step.
CashClient(step, r) ==
    step # "idle" =>
        /\ r \in CashRequest /\ step \in CashSteps(r.op)
        /\ r.op = "issue" /\ step \in {"markEscrow", "saveMark"} => r.code \in funded
        /\ r.op = "redeem" => r.code \in known
        /\ r.op = "cancel" => r.code \in Code
        /\ r.op = "cancel" /\ step \in {"refund", "saveTransfer"} => r.code \in funded

\* A file, or a copy, that calls escrowed only what was funded.
SoundCode(k, rec) ==
    rec # NoCode =>
        /\ rec = [amount |-> rec.amount, currency |-> rec.currency, issuer |-> rec.issuer,
                  status |-> rec.status, escrowed |-> rec.escrowed, collected |-> rec.collected]
        /\ rec.escrowed \in BOOLEAN /\ (rec.escrowed = TRUE => k \in funded)
SoundCodes(f) ==
    /\ f = [k \in Code |-> f[k]]
    /\ \A k \in Code : SoundCode(k, f[k])

\* A code whose cancellation is about to be saved is called escrowed only if
\* it was funded.
CancelsACode(step, r, f) ==
    step = "saveCancel" =>
        f[r.code].escrowed \in BOOLEAN /\ (f[r.code].escrowed = TRUE => r.code \in funded)

CashHistory ==
    /\ KnownIsFunded /\ PaidIsFunded
    /\ paid \in [Code -> Nat] /\ refunded \in [Code -> Nat]

CashInv ==
    /\ codes # Broken => SoundCodes(codes)
    /\ pc = [c \in Client |-> pc[c]] /\ req = [c \in Client |-> req[c]]
    /\ cview = [c \in Client |-> cview[c]]
    /\ \A c \in Client :
          SoundCodes(cview[c]) /\ CashClient(pc[c], req[c]) /\ CancelsACode(pc[c], req[c], cview[c])
    /\ CashHistory

LEMMA NoCodesSound == SoundCodes(NoCodes)
BY DEF SoundCodes, SoundCode, NoCodes

LEMMA CashInitKeeps == Init => CashInv
BY NoCodesSound DEF Init, BankInit, CashInv, CashClient, CancelsACode, CashHistory, KnownIsFunded, PaidIsFunded

\* What was funded stays so.
LEMMA CodesStay ==
    ASSUME funded \subseteq funded', NEW f, SoundCodes(f)
    PROVE  SoundCodes(f)'
BY DEF SoundCodes, SoundCode

LEMMA ClientStays ==
    ASSUME funded \subseteq funded', known \subseteq known', NEW step, NEW r, CashClient(step, r)
    PROVE  CashClient(step, r)'
BY DEF CashClient

LEMMA CancelStays ==
    ASSUME funded \subseteq funded', NEW step, NEW r, NEW f, CancelsACode(step, r, f)
    PROVE  CancelsACode(step, r, f)'
BY DEF CancelsACode

\* A code in a sound file whose record changes its status or its marks.
LEMMA CodeChanges ==
    ASSUME NEW f, SoundCodes(f), NEW k \in Code, NEW rec, SoundCode(k, rec)
    PROVE  SoundCodes([f EXCEPT ![k] = rec])
BY DEF SoundCodes

LEMMA StatusChanges ==
    ASSUME NEW f, SoundCodes(f), NEW k, k \in Code => f[k] # NoCode, NEW s
    PROVE  SoundCodes([f EXCEPT ![k].status = s])
<1>1. CASE k \in Code
  <2> DEFINE rec == [f[k] EXCEPT !.status = s]
  <2>1. f[k] = [amount |-> f[k].amount, currency |-> f[k].currency, issuer |-> f[k].issuer,
                status |-> f[k].status, escrowed |-> f[k].escrowed, collected |-> f[k].collected]
        /\ f[k].escrowed \in BOOLEAN /\ (f[k].escrowed = TRUE => k \in funded)
    BY <1>1 DEF SoundCodes, SoundCode
  <2>2. rec = [amount |-> f[k].amount, currency |-> f[k].currency, issuer |-> f[k].issuer,
               status |-> s, escrowed |-> f[k].escrowed, collected |-> f[k].collected]
    BY <2>1
  <2>3. SoundCode(k, rec)
    BY <2>1, <2>2 DEF SoundCode
  <2>4. [f EXCEPT ![k].status = s] = [f EXCEPT ![k] = rec]
    OBVIOUS
  <2> QED
    BY <1>1, <2>3, <2>4, CodeChanges
<1>2. CASE k \notin Code
  <2>1. f = [x \in Code |-> f[x]]
    BY DEF SoundCodes
  <2>2. [f EXCEPT ![k].status = s] = f
    BY <1>2, <2>1
  <2> QED
    BY <2>2
<1> QED
  BY <1>1, <1>2

LEMMA RecordMarks ==
    ASSUME NEW rec, NEW v,
           rec = [amount |-> rec.amount, currency |-> rec.currency, issuer |-> rec.issuer,
                  status |-> rec.status, escrowed |-> rec.escrowed, collected |-> rec.collected]
    PROVE  /\ [rec EXCEPT !.collected = v]
                = [amount |-> rec.amount, currency |-> rec.currency, issuer |-> rec.issuer,
                   status |-> rec.status, escrowed |-> rec.escrowed, collected |-> v]
           /\ [rec EXCEPT !.escrowed = v]
                = [amount |-> rec.amount, currency |-> rec.currency, issuer |-> rec.issuer,
                   status |-> rec.status, escrowed |-> v, collected |-> rec.collected]
OBVIOUS

LEMMA MarksChange ==
    ASSUME NEW f, SoundCodes(f), NEW k, k \in Code => f[k] # NoCode
    PROVE  /\ SoundCodes(MarkRedeemed(f, k))
           /\ k \in funded => SoundCodes(MarkEscrow(f, k))
<1>1. CASE k \in Code
  <2> DEFINE rec == [f[k] EXCEPT !.collected = TRUE]
             esc == [f[k] EXCEPT !.escrowed = TRUE]
  <2>1. f[k] = [amount |-> f[k].amount, currency |-> f[k].currency, issuer |-> f[k].issuer,
                status |-> f[k].status, escrowed |-> f[k].escrowed, collected |-> f[k].collected]
        /\ f[k].escrowed \in BOOLEAN /\ (f[k].escrowed = TRUE => k \in funded)
    BY <1>1 DEF SoundCodes, SoundCode
  <2>2. rec = [amount |-> f[k].amount, currency |-> f[k].currency, issuer |-> f[k].issuer,
               status |-> f[k].status, escrowed |-> f[k].escrowed, collected |-> TRUE]
    BY <2>1, RecordMarks, Zenon
  <2>3. esc = [amount |-> f[k].amount, currency |-> f[k].currency, issuer |-> f[k].issuer,
               status |-> f[k].status, escrowed |-> TRUE, collected |-> f[k].collected]
    BY <2>1, RecordMarks, Zenon
  <2>4. SoundCode(k, rec) /\ (k \in funded => SoundCode(k, esc))
    BY <2>1, <2>2, <2>3 DEF SoundCode
  <2>5. MarkRedeemed(f, k) = [f EXCEPT ![k] = rec] /\ MarkEscrow(f, k) = [f EXCEPT ![k] = esc]
    BY DEF MarkRedeemed, MarkEscrow
  <2> HIDE DEF rec, esc
  <2>6. SoundCodes([f EXCEPT ![k] = rec])
    BY <1>1, <2>4, CodeChanges
  <2>7. k \in funded => SoundCodes([f EXCEPT ![k] = esc])
    BY <1>1, <2>4, CodeChanges
  <2> QED
    BY <2>5, <2>6, <2>7
<1>2. CASE k \notin Code
  <2>1. f = [x \in Code |-> f[x]]
    BY DEF SoundCodes
  <2>2. MarkRedeemed(f, k) = f /\ MarkEscrow(f, k) = f
    BY <1>2, <2>1 DEF MarkRedeemed, MarkEscrow
  <2> QED
    BY <2>2
<1> QED
  BY <1>1, <1>2

LEMMA IssuedSound ==
    ASSUME NEW f, SoundCodes(f), NEW r
    PROVE  SoundCodes(Issued(f, r))
<1>1. CASE r.code \in Code
  BY <1>1, CodeChanges DEF SoundCode, Issued
<1>2. CASE r.code \notin Code
  BY <1>2 DEF SoundCodes, Issued
<1> QED
  BY <1>1, <1>2

\* One client goes a step on: what remains to be looked at is what it carries.
LEMMA CashGoesOn ==
    ASSUME CashInv, NEW c \in Client, NEW step, NEW r, NEW f,
           pc' = [pc EXCEPT ![c] = step], req' = [req EXCEPT ![c] = r],
           cview' = [cview EXCEPT ![c] = f],
           funded \subseteq funded', known \subseteq known',
           codes' # Broken => SoundCodes(codes)', SoundCodes(f)', CashClient(step, r)',
           CancelsACode(step, r, f)', CashHistory'
    PROVE  CashInv'
<1>1. ASSUME NEW d \in Client
      PROVE  SoundCodes(cview[d])' /\ CashClient(pc[d], req[d])'
             /\ CancelsACode(pc[d], req[d], cview[d])'
  <2>1. CASE d = c
    BY <2>1 DEF CashInv, CancelsACode
  <2>2. CASE d # c
    <3>1. PICK g, label, q : g = cview[d] /\ label = pc[d] /\ q = req[d]
      OBVIOUS
    <3>2. cview'[d] = g /\ pc'[d] = label /\ req'[d] = q
      BY <2>2, <3>1 DEF CashInv
    <3>3. SoundCodes(g)' /\ CashClient(label, q)' /\ CancelsACode(label, q, g)'
      BY <3>1, CodesStay, ClientStays, CancelStays DEF CashInv
    <3> QED
      BY <3>2, <3>3 DEF CancelsACode
  <2> QED
    BY <2>1, <2>2
<1>2. pc' = [d \in Client |-> pc'[d]] /\ req' = [d \in Client |-> req'[d]]
      /\ cview' = [d \in Client |-> cview'[d]]
  BY DEF CashInv
<1> QED
  BY <1>1, <1>2 DEF CashInv

\* A request ends, or goes on, without anything being paid.
LEMMA CashEnds ==
    ASSUME CashInv, NEW c \in Client, CashDone(c), known' = known, UNCHANGED history,
           codes' # Broken => SoundCodes(codes)'
    PROVE  CashInv'
<1>1. /\ pc' = [pc EXCEPT ![c] = "idle"] /\ req' = [req EXCEPT ![c] = NoRequest]
      /\ cview' = [cview EXCEPT ![c] = NoCodes] /\ funded' = funded
  BY DEF CashDone, Done, Goto, history
<1>2. CashClient("idle", NoRequest)' /\ SoundCodes(NoCodes)' /\ CancelsACode("idle", NoRequest, NoCodes)'
  BY NoCodesSound DEF CashClient, CancelsACode, SoundCodes, SoundCode, NoCodes
<1>3. CashHistory'
  BY DEF CashInv, CashHistory, history, KnownIsFunded, PaidIsFunded
<1> QED
  BY <1>1, <1>2, <1>3, CashGoesOn

LEMMA CashSteps1 ==
    ASSUME CashInv, NEW c \in Client, NEW step, NEW f,
           Goto(c, step), UNCHANGED req, cview' = [cview EXCEPT ![c] = f], SoundCodes(f),
           known' = known, UNCHANGED history,
           codes' # Broken => SoundCodes(codes)', CashClient(step, req[c]),
           CancelsACode(step, req[c], f)
    PROVE  CashInv'
<1>1. PICK r : r = req[c]
  OBVIOUS
<1>2. /\ pc' = [pc EXCEPT ![c] = step] /\ req' = [req EXCEPT ![c] = r] /\ funded' = funded
  BY <1>1 DEF Goto, history, CashInv
<1>3. CashClient(step, r)' /\ SoundCodes(f)'
  BY <1>1, <1>2, CodesStay, ClientStays
<1>4. CashHistory'
  BY DEF CashInv, CashHistory, history, KnownIsFunded, PaidIsFunded
<1>5. CancelsACode(step, r, f)'
  BY <1>1, <1>2, CancelStays
<1> QED
  BY <1>2, <1>3, <1>4, <1>5, CashGoesOn

LEMMA CashWaits ==
    ASSUME CashInv, NEW c \in Client, NEW step, Goto(c, step), UNCHANGED <<req, cview>>,
           known' = known, UNCHANGED history,
           codes' # Broken => SoundCodes(codes)', CashClient(step, req[c]), step # "saveCancel"
    PROVE  CashInv'
<1>1. PICK f : f = cview[c]
  OBVIOUS
<1>2. cview' = [cview EXCEPT ![c] = f] /\ SoundCodes(f)
  BY <1>1 DEF CashInv
<1>3. CancelsACode(step, req[c], f)
  BY DEF CancelsACode
<1> QED
  BY <1>2, <1>3, CashSteps1

LEMMA SameCodes ==
    ASSUME CashInv, UNCHANGED <<codes, history>>
    PROVE  codes' # Broken => SoundCodes(codes)'
BY DEF CashInv, SoundCodes, SoundCode, history

LEMMA SavedCodes ==
    ASSUME CashInv, NEW c \in Client, UNCHANGED history, SaveCodes(c) \/ SaveCodesFails
    PROVE  codes' # Broken => SoundCodes(codes)'
BY DEF CashInv, SoundCodes, SoundCode, history, SaveCodes, SaveCodesFails

\* A step that makes a copy of the codes.
LEMMA CopyKeeps ==
    ASSUME CashInv, NEW c \in Client, NEW found, NEW new, NEW label,
           Copy(c, found, new, label),
           CanLoadCodes /\ found => SoundCodes(new) /\ CashClient(label, req[c])
                                    /\ CancelsACode(label, req[c], new)
    PROVE  CashInv'
<1>1. UNCHANGED <<codes, known, history>>
  BY DEF Copy
<1>2. codes' # Broken => SoundCodes(codes)'
  BY <1>1, SameCodes
<1>3. CASE CashDone(c)
  BY <1>1, <1>2, <1>3, CashEnds
<1>4. CASE CanLoadCodes /\ found /\ cview' = [cview EXCEPT ![c] = new] /\ Goto(c, label) /\ UNCHANGED req
  BY <1>1, <1>2, <1>4, CashSteps1
<1> QED
  BY <1>3, <1>4 DEF Copy

LEMMA AskKeeps ==
    ASSUME CashAssumption, CashInv, NEW c \in Client, Ask(c)
    PROVE  CashInv'
<1>1. PICK r \in CashRequests, step \in {"cancel", "seed", "escrow"} :
         /\ r.op = "redeem" => r.code \in known
         /\ req' = [req EXCEPT ![c] = r] /\ pc' = [pc EXCEPT ![c] = step]
         /\ step = "cancel" <=> r.op = "cancel"
  BY DEF Ask, Goto
<1>2. UNCHANGED <<codes, cview, known, history>> /\ funded' = funded
  BY DEF Ask, history
<1>3. r \in CashRequest /\ r.op \in {"issue", "redeem", "cancel"}
  BY DEF CashAssumption, CashRequest
<1>9. r.op = "cancel" => r.code \in Code
  BY DEF CashAssumption
<1>4. CashClient(step, r)'
  BY <1>1, <1>2, <1>3, <1>9 DEF CashClient, CashSteps
<1>8. \A f : CancelsACode(step, r, f)'
  BY <1>1 DEF CancelsACode
<1>5. PICK f : f = cview[c]
  OBVIOUS
<1>6. cview' = [cview EXCEPT ![c] = f] /\ SoundCodes(f)'
  BY <1>2, <1>5, CodesStay DEF CashInv
<1>7. CashHistory' /\ (codes' # Broken => SoundCodes(codes)')
  BY <1>2, SameCodes DEF CashInv, CashHistory, history, KnownIsFunded, PaidIsFunded
<1> QED
  BY <1>1, <1>2, <1>4, <1>6, <1>7, <1>8, CashGoesOn

\* What a client at a step asks for.
LEMMA ClientAt ==
    ASSUME CashInv, NEW c \in Client, pc[c] # "idle"
    PROVE  CashClient(pc[c], req[c]) /\ req[c] \in CashRequest
BY DEF CashInv, CashClient

LEMMA SeedKeeps ==
    ASSUME CashInv, NEW c \in Client, SeedFirst(c) \/ EnsureEscrow(c) \/ SaveEscrow(c)
    PROVE  CashInv'
<1>1. pc[c] \in {"seed", "escrow", "saveEscrow"} /\ UNCHANGED <<codes, known, history>>
  BY DEF SeedFirst, EnsureEscrow, SaveEscrow
<1>2. codes' # Broken => SoundCodes(codes)'
  BY <1>1, SameCodes
<1>3. req[c] \in CashRequest /\ CashClient(pc[c], req[c])
  BY <1>1, ClientAt
<1>4. CashClient("escrow", req[c]) /\ CashClient("saveEscrow", req[c])
      /\ CashClient(AfterEscrow(req[c]), req[c])
  BY <1>1, <1>3 DEF CashClient, CashSteps, AfterEscrow, CashRequest
<1>5. CASE CashDone(c)
  BY <1>1, <1>2, <1>5, CashEnds
<1>6. ASSUME NEW step \in {"escrow", "saveEscrow", AfterEscrow(req[c])},
             Goto(c, step), UNCHANGED <<req, cview>>
      PROVE  CashInv'
  <2>1. step # "saveCancel"
    BY <1>6 DEF AfterEscrow
  <2> QED
    BY <1>1, <1>2, <1>4, <1>6, <2>1, CashWaits
<1> QED
  BY <1>5, <1>6 DEF SeedFirst, EnsureEscrow, SaveEscrow

LEMMA IssueKeeps ==
    ASSUME CashInv, NEW c \in Client, Issue(c)
    PROVE  CashInv'
<1>1. pc[c] = "issue" /\ UNCHANGED <<codes, known, funded, paid, refunded>>
  BY DEF Issue
<1>2. codes' # Broken => SoundCodes(codes)'
  BY <1>1 DEF CashInv, SoundCodes, SoundCode
<1>3. req[c] \in CashRequest /\ CashClient(pc[c], req[c])
  BY <1>1, ClientAt
<1>4. req[c].op = "issue"
  BY <1>1, <1>3 DEF CashClient, CashSteps, CashRequest
<1>5. CashHistory'
  BY <1>1 DEF CashInv, CashHistory, KnownIsFunded, PaidIsFunded
<1>6. CASE CashDone(c) /\ UNCHANGED drawn
  BY <1>1, <1>2, <1>6, CashEnds DEF history
<1>7. ASSUME CanLoadCodes, NEW k \in Code, req' = [req EXCEPT ![c].code = k],
             cview' = [cview EXCEPT ![c] = Issued(codes, req'[c])], Goto(c, "saveIssue")
      PROVE  CashInv'
  <2>1. PICK r : r = [req[c] EXCEPT !.code = k]
    OBVIOUS
  <2>2. r \in CashRequest /\ r.op = "issue"
    BY <1>3, <1>4, <2>1 DEF CashRequest
  <2>3. req' = [req EXCEPT ![c] = r] /\ req'[c] = r
    BY <1>7, <2>1 DEF CashInv
  <2>4. PICK f : f = Issued(codes, r)
    OBVIOUS
  <2>5. SoundCodes(f)
    BY <1>7, <2>4, IssuedSound DEF CashInv, CanLoadCodes
  <2>6. SoundCodes(f)'
    BY <1>1, <2>5, CodesStay
  <2>7. cview' = [cview EXCEPT ![c] = f]
    BY <1>7, <2>3, <2>4
  <2>8. CashClient("saveIssue", r)' /\ CancelsACode("saveIssue", r, f)'
    BY <2>2 DEF CashClient, CashSteps, CancelsACode
  <2> QED
    BY <1>1, <1>2, <1>5, <1>7, <2>3, <2>6, <2>7, <2>8, CashGoesOn DEF Goto
<1> QED
  BY <1>6, <1>7 DEF Issue

LEMMA SaveIssueKeeps ==
    ASSUME CashInv, NEW c \in Client, SaveIssue(c) \/ SaveUndo(c) \/ SaveRedeem(c) \/ SaveCancel(c)
    PROVE  CashInv'
<1>1. /\ pc[c] \in {"saveIssue", "saveUndo", "saveRedeem", "saveCancel"}
      /\ UNCHANGED <<known, history>> /\ (SaveCodes(c) \/ SaveCodesFails)
  BY DEF SaveIssue, SaveUndo, SaveRedeem, SaveCancel
<1>2. codes' # Broken => SoundCodes(codes)'
  BY <1>1, SavedCodes
<1>3. req[c] \in CashRequest /\ CashClient(pc[c], req[c])
  BY <1>1, ClientAt
<1>4. CASE CashDone(c)
  BY <1>1, <1>2, <1>4, CashEnds
<1>5. CASE pc[c] = "saveIssue" /\ Goto(c, "fund") /\ UNCHANGED <<req, cview>>
  <2>1. CashClient("fund", req[c])
    BY <1>3, <1>5 DEF CashClient, CashSteps, CashRequest
  <2> QED
    BY <1>1, <1>2, <1>5, <2>1, CashWaits
<1>6. CASE pc[c] = "saveRedeem" /\ Goto(c, "markRedeemed") /\ UNCHANGED <<req, cview>>
  <2>1. CashClient("markRedeemed", req[c])
    BY <1>3, <1>6 DEF CashClient, CashSteps, CashRequest
  <2> QED
    BY <1>1, <1>2, <1>6, <2>1, CashWaits
<1>7. CASE /\ pc[c] = "saveCancel" /\ cview[c][req[c].code].escrowed
           /\ Goto(c, "refund") /\ UNCHANGED <<req, cview>>
  <2>1. req[c].op = "cancel"
    BY <1>3, <1>7 DEF CashClient, CashSteps, CashRequest
  <2>2. req[c].code \in funded
    BY <1>7 DEF CashInv, CancelsACode
  <2>3. CashClient("refund", req[c])
    BY <1>3, <1>7, <2>1, <2>2 DEF CashClient, CashSteps
  <2> QED
    BY <1>1, <1>2, <1>7, <2>3, CashWaits
<1> QED
  BY <1>4, <1>5, <1>6, <1>7 DEF SaveIssue, SaveUndo, SaveRedeem, SaveCancel

\* A transfer that is refused.
LEMMA RefusedKeeps ==
    ASSUME CashInv, NEW c \in Client, pc[c] \in {"fund", "pay", "refund", "saveTransfer"},
           Refused(c), UNCHANGED <<codes, known, history>>
    PROVE  CashInv'
<1>1. codes' # Broken => SoundCodes(codes)'
  BY SameCodes
<1>2. req[c] \in CashRequest /\ CashClient(pc[c], req[c])
  BY ClientAt
<1>3. CASE CashDone(c)
  BY <1>1, <1>3, CashEnds
<1>4. CASE req[c].op = "issue" /\ Goto(c, "undo") /\ UNCHANGED <<req, cview>>
  <2>1. CashClient("undo", req[c])
    BY <1>2, <1>4 DEF CashClient, CashSteps
  <2> QED
    BY <1>1, <1>4, <2>1, CashWaits
<1> QED
  BY <1>3, <1>4 DEF Refused

LEMMA TransferKeeps ==
    ASSUME CashInv, NEW c \in Client, Transfer(c)
    PROVE  CashInv'
<1>1. pc[c] \in {"fund", "pay", "refund"} /\ UNCHANGED <<codes, known, history>>
  BY DEF Transfer
<1>2. codes' # Broken => SoundCodes(codes)'
  BY <1>1, SameCodes
<1>3. req[c] \in CashRequest /\ CashClient(pc[c], req[c])
  BY <1>1, ClientAt
<1>4. CASE Refused(c)
  BY <1>1, <1>4, RefusedKeeps
<1>5. CASE Goto(c, "saveTransfer") /\ UNCHANGED <<req, cview>>
  <2>1. CashClient("saveTransfer", req[c])
    BY <1>1, <1>3 DEF CashClient, CashSteps, CashRequest
  <2> QED
    BY <1>1, <1>2, <1>5, <2>1, CashWaits
<1> QED
  BY <1>4, <1>5 DEF Transfer

\* A payment is counted.
LEMMA Counted ==
    ASSUME NEW f \in [Code -> Nat], NEW k
    PROVE  /\ [f EXCEPT ![k] = @ + 1] \in [Code -> Nat]
           /\ \A j \in Code : j # k => [f EXCEPT ![k] = @ + 1][j] = f[j]
<1>1. CASE k \in Code
  <2>1. f[k] + 1 \in Nat
    BY <1>1
  <2> QED
    BY <1>1, <2>1
<1>2. CASE k \notin Code
  <2>1. [f EXCEPT ![k] = @ + 1] = f
    BY <1>2
  <2> QED
    BY <2>1
<1> QED
  BY <1>1, <1>2

\* The bank's file has the transfer: an issue is funded by it, and a redemption
\* or a refund is of a code that was funded.
MoneyHasMoved(c) ==
    IF req[c].op = "issue"
    THEN funded' = funded \cup {req[c].code} /\ UNCHANGED <<paid, refunded>>
    ELSE IF req[c].op = "redeem"
    THEN paid' = [paid EXCEPT ![req[c].code] = @ + 1] /\ UNCHANGED <<funded, refunded>>
    ELSE refunded' = [refunded EXCEPT ![req[c].code] = @ + 1] /\ UNCHANGED <<funded, paid>>

LEMMA MoneyMoves ==
    ASSUME CashInv, NEW c \in Client, pc[c] = "saveTransfer", MoneyHasMoved(c), known' = known
    PROVE  /\ funded \subseteq funded' /\ CashHistory'
           /\ req[c].op = "issue" => req[c].code \in funded'
<1>2. req[c] \in CashRequest /\ CashClient("saveTransfer", req[c])
  BY ClientAt
<1>3. req[c].op \in {"issue", "redeem", "cancel"}
  BY <1>2 DEF CashRequest
<1>4. CASE req[c].op = "issue"
  <2>1. funded' = funded \cup {req[c].code} /\ UNCHANGED <<paid, refunded>>
    BY <1>4 DEF MoneyHasMoved
  <2> QED
    BY <1>4, <2>1 DEF CashInv, CashHistory, KnownIsFunded, PaidIsFunded
<1>5. CASE req[c].op = "redeem"
  <2>1. req[c].code \in funded
    BY <1>2, <1>5 DEF CashClient, CashInv, CashHistory, KnownIsFunded
  <2>2. paid' = [paid EXCEPT ![req[c].code] = @ + 1] /\ UNCHANGED <<funded, refunded>>
    BY <1>5 DEF MoneyHasMoved
  <2>3. paid' \in [Code -> Nat] /\ \A k \in Code : k # req[c].code => paid'[k] = paid[k]
    BY <2>2, Counted DEF CashInv, CashHistory
  <2>4. PaidIsFunded'
    BY <2>1, <2>2, <2>3 DEF CashInv, CashHistory, PaidIsFunded
  <2> QED
    BY <1>5, <2>2, <2>3, <2>4 DEF CashInv, CashHistory, KnownIsFunded
<1>6. CASE req[c].op = "cancel"
  <2>1. req[c].code \in funded
    BY <1>2, <1>6 DEF CashClient
  <2>2. refunded' = [refunded EXCEPT ![req[c].code] = @ + 1] /\ UNCHANGED <<funded, paid>>
    BY <1>6 DEF MoneyHasMoved
  <2>3. refunded' \in [Code -> Nat] /\ \A k \in Code : k # req[c].code => refunded'[k] = refunded[k]
    BY <2>2, Counted DEF CashInv, CashHistory
  <2>4. PaidIsFunded'
    BY <2>1, <2>2, <2>3 DEF CashInv, CashHistory, PaidIsFunded
  <2> QED
    BY <1>6, <2>2, <2>3, <2>4 DEF CashInv, CashHistory, KnownIsFunded
<1> QED
  BY <1>3, <1>4, <1>5, <1>6

LEMMA SaveTransferKeeps ==
    ASSUME CashInv, NEW c \in Client, SaveTransfer(c)
    PROVE  CashInv'
<1>1. pc[c] = "saveTransfer" /\ UNCHANGED <<codes, known, drawn>>
  BY DEF SaveTransfer
<1>2. req[c] \in CashRequest /\ CashClient("saveTransfer", req[c])
  BY <1>1, ClientAt
<1>3. req[c].op \in {"issue", "redeem", "cancel"}
  BY <1>2 DEF CashRequest
<1>4. CASE MoneyHasMoved(c) /\ AfterTransfer(c)
  <2>1. /\ funded \subseteq funded' /\ CashHistory'
        /\ req[c].op = "issue" => req[c].code \in funded'
    BY <1>1, <1>4, MoneyMoves
  <2>2. codes' # Broken => SoundCodes(codes)'
    <3>1. PICK f : f = codes
      OBVIOUS
    <3>2. f # Broken => SoundCodes(f)'
      BY <2>1, <3>1, CodesStay DEF CashInv
    <3> QED
      BY <1>1, <3>1, <3>2
  <2>3. PICK r, f : r = req[c] /\ f = cview[c]
    OBVIOUS
  <2>4. SoundCodes(f)' /\ SoundCodes(NoCodes)'
    BY <2>1, <2>3, CodesStay, NoCodesSound DEF CashInv
  <2>5. CASE req[c].op = "issue"
    <3>1. pc' = [pc EXCEPT ![c] = "markEscrow"] /\ req' = [req EXCEPT ![c] = r]
          /\ cview' = [cview EXCEPT ![c] = f]
      BY <1>4, <2>3, <2>5 DEF AfterTransfer, Goto, CashInv
    <3>2. CashClient("markEscrow", r)' /\ CancelsACode("markEscrow", r, f)'
      BY <1>2, <2>1, <2>3, <2>5 DEF CashClient, CashSteps, CancelsACode
    <3> QED
      BY <1>1, <2>1, <2>2, <2>4, <3>1, <3>2, CashGoesOn
  <2>6. CASE req[c].op = "redeem"
    <3>1. pc' = [pc EXCEPT ![c] = "redeem"] /\ req' = [req EXCEPT ![c] = r]
          /\ cview' = [cview EXCEPT ![c] = f]
      BY <1>4, <2>3, <2>6 DEF AfterTransfer, Goto, CashInv
    <3>2. CashClient("redeem", r)' /\ CancelsACode("redeem", r, f)'
      BY <1>1, <1>2, <2>3, <2>6 DEF CashClient, CashSteps, CancelsACode
    <3> QED
      BY <1>1, <2>1, <2>2, <2>4, <3>1, <3>2, CashGoesOn
  <2>7. CASE req[c].op = "cancel"
    <3>1. pc' = [pc EXCEPT ![c] = "idle"] /\ req' = [req EXCEPT ![c] = NoRequest]
          /\ cview' = [cview EXCEPT ![c] = NoCodes]
      BY <1>4, <2>7 DEF AfterTransfer, CashDone, Done, Goto
    <3>2. CashClient("idle", NoRequest)' /\ CancelsACode("idle", NoRequest, NoCodes)'
      BY DEF CashClient, CancelsACode
    <3> QED
      BY <1>1, <2>1, <2>2, <2>4, <3>1, <3>2, CashGoesOn
  <2> QED
    BY <1>3, <2>5, <2>6, <2>7
<1>5. CASE Refused(c) /\ UNCHANGED <<funded, paid, refunded>>
  BY <1>1, <1>5, RefusedKeeps DEF history
<1> QED
  BY <1>4, <1>5 DEF SaveTransfer, MoneyHasMoved

\* The plaintext is answered at the end of an issue that was paid for.
LEMMA AnswerKeeps ==
    ASSUME CashInv, NEW c \in Client, CashDone(c), UNCHANGED history,
           codes' # Broken => SoundCodes(codes)',
           known' = known \cup {req[c].code}, req[c].code \in funded
    PROVE  CashInv'
<1>1. /\ pc' = [pc EXCEPT ![c] = "idle"] /\ req' = [req EXCEPT ![c] = NoRequest]
      /\ cview' = [cview EXCEPT ![c] = NoCodes] /\ funded' = funded
  BY DEF CashDone, Done, Goto, history
<1>2. CashClient("idle", NoRequest)' /\ CancelsACode("idle", NoRequest, NoCodes)'
  BY DEF CashClient, CancelsACode
<1>3. SoundCodes(NoCodes)'
  BY <1>1, NoCodesSound, CodesStay
<1>4. CashHistory'
  BY DEF CashInv, CashHistory, history, KnownIsFunded, PaidIsFunded
<1> QED
  BY <1>1, <1>2, <1>3, <1>4, CashGoesOn

LEMMA MarkKeeps ==
    ASSUME CashInv, NEW c \in Client, Mark(c)
    PROVE  CashInv'
<1>1. pc[c] = "markEscrow" /\ UNCHANGED <<codes, history>>
  BY DEF Mark
<1>2. codes' # Broken => SoundCodes(codes)'
  BY <1>1, SameCodes
<1>3. req[c] \in CashRequest /\ CashClient("markEscrow", req[c])
  BY <1>1, ClientAt
<1>4. req[c].op = "issue" /\ req[c].code \in funded
  BY <1>3 DEF CashClient, CashSteps, CashRequest
<1>5. CASE CashDone(c) /\ Answered(c)
  BY <1>1, <1>2, <1>4, <1>5, AnswerKeeps DEF Answered
<1>6. CASE /\ CanLoadCodes /\ codes[req[c].code] # NoCode
           /\ cview' = [cview EXCEPT ![c] = MarkEscrow(codes, req[c].code)]
           /\ Goto(c, "saveMark") /\ UNCHANGED <<req, known>>
  <2>1. PICK f : f = MarkEscrow(codes, req[c].code)
    OBVIOUS
  <2>2. SoundCodes(f)
    BY <1>4, <1>6, <2>1, MarksChange DEF CanLoadCodes, CashInv
  <2>3. CashClient("saveMark", req[c]) /\ CancelsACode("saveMark", req[c], f)
    BY <1>3, <1>4 DEF CashClient, CashSteps, CancelsACode
  <2> QED
    BY <1>1, <1>2, <1>6, <2>1, <2>2, <2>3, CashSteps1
<1> QED
  BY <1>5, <1>6 DEF Mark

LEMMA SaveMarkKeeps ==
    ASSUME CashInv, NEW c \in Client, SaveMark(c)
    PROVE  CashInv'
<1>1. pc[c] = "saveMark" /\ UNCHANGED history /\ CashDone(c) /\ (SaveCodes(c) \/ SaveCodesFails)
  BY DEF SaveMark
<1>2. codes' # Broken => SoundCodes(codes)'
  BY <1>1, SavedCodes
<1>3. req[c] \in CashRequest /\ CashClient("saveMark", req[c])
  BY <1>1, ClientAt
<1>4. CASE req[c].op = "issue" /\ Answered(c)
  <2>1. req[c].code \in funded
    BY <1>3, <1>4 DEF CashClient
  <2> QED
    BY <1>1, <1>2, <1>4, <2>1, AnswerKeeps DEF Answered
<1>5. CASE known' = known
  BY <1>1, <1>2, <1>5, CashEnds
<1> QED
  BY <1>4, <1>5 DEF SaveMark

\* The copies an issue that fails, a redemption and a cancellation make.
LEMMA CopiesKeep ==
    ASSUME CashInv, NEW c \in Client,
           Undo(c) \/ Verify(c) \/ Redeem(c) \/ MarkPaid(c) \/ Cancel(c)
    PROVE  CashInv'
<1>1. pc[c] \in {"undo", "verify", "redeem", "markRedeemed", "cancel"}
  BY DEF Undo, Verify, Redeem, MarkPaid, Cancel
<1>2. req[c] \in CashRequest /\ CashClient(pc[c], req[c]) 
  BY <1>1, ClientAt
<1>3. CanLoadCodes => SoundCodes(codes)
  BY DEF CanLoadCodes, CashInv
<1>4. CASE Undo(c)
  <2>1. CanLoadCodes /\ CanCancel(codes, req[c].code) => SoundCodes(Cancelled(codes, req[c].code))
    BY <1>3, StatusChanges DEF Cancelled, CanCancel
  <2>2. CashClient("saveUndo", req[c]) /\ \A f : CancelsACode("saveUndo", req[c], f)
    BY <1>2, <1>4 DEF Undo, CashClient, CashSteps, CashRequest, CancelsACode
  <2> QED
    BY <1>4, <2>1, <2>2, CopyKeeps DEF Undo
<1>5. CASE Verify(c)
  <2>1. CashClient("pay", req[c]) /\ \A f : CancelsACode("pay", req[c], f)
    BY <1>2, <1>5 DEF Verify, CashClient, CashSteps, CashRequest, CancelsACode
  <2> QED
    BY <1>3, <1>5, <2>1, CopyKeeps DEF Verify
<1>6. CASE Redeem(c)
  <2>1. CanLoadCodes /\ Valid(codes, req[c].code) => SoundCodes(Redeemed(codes, req[c].code))
    BY <1>3, StatusChanges DEF Redeemed, Valid
  <2>2. CashClient("saveRedeem", req[c]) /\ \A f : CancelsACode("saveRedeem", req[c], f)
    BY <1>2, <1>6 DEF Redeem, CashClient, CashSteps, CashRequest, CancelsACode
  <2> QED
    BY <1>6, <2>1, <2>2, CopyKeeps DEF Redeem
<1>7. CASE MarkPaid(c)
  <2>1. CanLoadCodes /\ codes[req[c].code] # NoCode => SoundCodes(MarkRedeemed(codes, req[c].code))
    BY <1>3, MarksChange
  <2>2. CashClient("saveMark", req[c]) /\ \A f : CancelsACode("saveMark", req[c], f)
    BY <1>2, <1>7 DEF MarkPaid, CashClient, CashSteps, CashRequest, CancelsACode
  <2> QED
    BY <1>7, <2>1, <2>2, CopyKeeps DEF MarkPaid
<1>8. CASE Cancel(c)
  <2>1. CanLoadCodes /\ CanCancel(codes, req[c].code) => SoundCodes(Cancelled(codes, req[c].code))
    BY <1>3, StatusChanges DEF Cancelled, CanCancel
  <2>2. req[c].op = "cancel" /\ CashClient("saveCancel", req[c])
    BY <1>2, <1>8 DEF Cancel, CashClient, CashSteps, CashRequest
  <2>3. req[c].code \in Code
    BY <2>2 DEF CashClient
  <2>4. SUFFICES ASSUME CanLoadCodes, CanCancel(codes, req[c].code)
                 PROVE  CancelsACode("saveCancel", req[c], Cancelled(codes, req[c].code))
    BY <1>8, <2>1, <2>2, CopyKeeps DEF Cancel
  <2>5. PICK s : Cancelled(codes, req[c].code) = [codes EXCEPT ![req[c].code].status = s]
    BY DEF Cancelled
  <2>6. SoundCode(req[c].code, codes[req[c].code]) /\ codes = [k \in Code |-> codes[k]]
    BY <1>3, <2>3, <2>4 DEF SoundCodes
  <2>7. Cancelled(codes, req[c].code)[req[c].code] = [codes[req[c].code] EXCEPT !.status = s]
    BY <2>3, <2>5, <2>6
  <2>8. [codes[req[c].code] EXCEPT !.status = s].escrowed = codes[req[c].code].escrowed
    BY <2>4, <2>6 DEF SoundCode, CanCancel
  <2> QED
    BY <2>4, <2>6, <2>7, <2>8 DEF CancelsACode, SoundCode, CanCancel
<1> QED
  BY <1>4, <1>5, <1>6, <1>7, <1>8

LEMMA StopKeeps ==
    ASSUME CashInv, CashStop
    PROVE  CashInv'
<1>1. /\ pc' = [c \in Client |-> "idle"] /\ req' = [c \in Client |-> NoRequest]
      /\ cview' = [c \in Client |-> NoCodes] /\ UNCHANGED <<codes, known, history>>
  BY DEF CashStop, Stop
<1>2. funded' = funded /\ (codes' # Broken => SoundCodes(codes)')
  BY <1>1, SameCodes DEF history
<1>3. SoundCodes(NoCodes)'
  BY <1>2, NoCodesSound, CodesStay
<1>4. CashHistory'
  BY <1>1 DEF CashInv, CashHistory, history, KnownIsFunded, PaidIsFunded
<1> QED
  BY <1>1, <1>2, <1>3, <1>4 DEF CashInv, CashClient, CancelsACode

LEMMA OtherStepsKeep ==
    ASSUME CashInv, UNCHANGED <<codes, cview, pc, req, known, history>>
    PROVE  CashInv'
BY DEF CashInv, CashHistory, history, KnownIsFunded, PaidIsFunded, SoundCodes, SoundCode,
       CashClient, CancelsACode

\* The invariant is kept by every step.
LEMMA CashNextKeeps ==
    ASSUME CashAssumption, CashInv, [Next]_vars
    PROVE  CashInv'
<1>1. ASSUME NEW c \in Client, Step(c)
      PROVE  CashInv'
  BY <1>1, AskKeeps, SeedKeeps, IssueKeeps, SaveIssueKeeps, TransferKeeps, SaveTransferKeeps,
     MarkKeeps, SaveMarkKeeps, CopiesKeep DEF Step
<1>2. CASE Expire
  BY <1>2, OtherStepsKeep DEF Expire, bankVars
<1>3. CASE CashStop
  BY <1>3, StopKeeps
<1>4. CASE UNCHANGED vars
  BY <1>4, OtherStepsKeep DEF vars, bankVars, cashVars
<1> QED
  BY <1>1, <1>2, <1>3, <1>4 DEF Next

LEMMA CashInvariant == ASSUME CashAssumption PROVE Spec => []CashInv
<1>1. CashInv /\ [Next]_vars => CashInv'
  BY CashNextKeeps
<1> QED
  BY <1>1, CashInitKeeps, PTL DEF Spec

\* Whatever overlaps, fails or is cut short, the plaintext of a code is given
\* out only after its money has reached the escrow account.
THEOREM KnownCodesAreFunded == ASSUME CashAssumption PROVE Spec => []KnownIsFunded
<1>1. CashInv => KnownIsFunded
  BY DEF CashInv, CashHistory
<1> QED
  BY <1>1, CashInvariant, PTL

\* A code is redeemed or refunded out of money that reached the escrow account
\* under its own name: never one whose transfer was refused or lost.
THEOREM PaidCodesAreFunded == ASSUME CashAssumption PROVE Spec => []PaidIsFunded
<1>1. CashInv => PaidIsFunded
  BY DEF CashInv, CashHistory
<1> QED
  BY <1>1, CashInvariant, PTL

-----------------------------------------------------------------------------
(***************************************************************************)
(* A cash code is one-time: with one request at a time and no failures the *)
(* two files implement OneTimeCode.  The bank's file decides: a code's     *)
(* money has left its issuer when that file has the transfer, and has      *)
(* arrived when it has the payment, so every other step is a stutter.      *)
(***************************************************************************)

Promised == INSTANCE OneTimeCode WITH
    state <- StateOf, worth <- WorthOf, owner <- OwnerOf, pocket <- Pocket

Untouched(k) == paid[k] = 0 /\ refunded[k] = 0

\* A file of codes of customers, and one that may be saved: it says of every
\* code whose money is in the escrow account what the file says, and calls no
\* code active whose money has left.
OfCustomers(f) == f \in CashFile /\ \A k \in Code : f[k] # NoCode => f[k].issuer # Escrow
Fits(f) ==
    /\ OfCustomers(f)
    /\ \A k \in funded :
          /\ f[k] # NoCode /\ f[k].amount = codes[k].amount /\ f[k].issuer = codes[k].issuer
          /\ f[k].status = "active" => Untouched(k)

\* Only a redemption that has paid, and not yet marked its code, leaves a code
\* active whose money has left.
Honest(step, r) ==
    \A k \in funded : codes[k].status = "active" =>
        Untouched(k) \/ (step \in {"redeem", "saveRedeem"} /\ k = r.code)

Transferring(op, step, r) == r.op = op /\ step \in {"fund", "pay", "refund", "saveTransfer"}

\* What the request knows at each step; f and v are its copies of the files.
FilesOf(step, r, f, v) ==
    /\ step = "seed" => NoAccounts(Loaded)
    /\ step \in {"escrow", "saveEscrow"} => bank # NoFile
    /\ step = "saveEscrow" => v[Escrow] \in BankAccount /\ v = [bank EXCEPT ![Escrow] = v[Escrow]]
    /\ step \in {"saveIssue", "saveMark", "saveUndo", "saveRedeem", "saveCancel"} => Fits(f)
    /\ step \in {"fund", "pay", "refund", "saveTransfer"} => f = codes
    /\ step = "saveTransfer" =>
          /\ bank # NoFile /\ CanMove(bank, Payer(r), Payee(r, codes[r.code]), codes[r.code].amount)
          /\ v = Moved(bank, Payer(r), Payee(r, codes[r.code]), codes[r.code].amount)
CodeOf(step, r, f) ==
    /\ step = "saveIssue" \/ Transferring("issue", step, r) =>
          r.code \in drawn \ funded /\ f[r.code] # NoCode /\ f[r.code].issuer = r.acct
    /\ step \in {"redeem", "saveRedeem"} \/ Transferring("redeem", step, r) =>
          r.code \in funded /\ Valid(codes, r.code)
    /\ step = "saveCancel" =>
          f[r.code] # NoCode /\ f[r.code].status # "active" /\ (r.code \in funded => Untouched(r.code))
    /\ Transferring("cancel", step, r) =>
          r.code \in funded /\ Untouched(r.code) /\ codes[r.code].status # "active"

OneClient(step, r, f, v) ==
    /\ Honest(step, r)
    /\ step # "idle" => r.acct # Escrow /\ FilesOf(step, r, f, v) /\ CodeOf(step, r, f)

BankFits ==
    /\ bank \in BankFile \cup {NoFile}
    /\ bank # NoFile => \A a \in Account : Seeded[a] # NoAccount => bank[a] # NoAccount
CodesFit ==
    /\ OfCustomers(codes)
    /\ funded \subseteq drawn /\ drawn \subseteq Code /\ \A k \in funded : codes[k] # NoCode

OneInv ==
    /\ BankFits /\ CodesFit
    /\ view = [c \in Client |-> view[c]]
    /\ \A c \in Client : OneClient(pc[c], req[c], cview[c], view[c])

\* What may be assumed of a state and is not said of every step.
OneState == CashAssumption /\ OneByOne /\ CashInv /\ OneInv

-----------------------------------------------------------------------------
(* What the abstract code sees *)

LEMMA OneInitKeeps ==
    ASSUME CashAssumption, OneByOne, Init
    PROVE  OneInv /\ Promised!Init
<1>1. NoCodes \in CashFile
  BY DEF NoCodes, CashFile
<1>2. BankFits /\ CodesFit
  BY <1>1 DEF Init, BankInit, BankFits, CodesFit, OfCustomers, NoCodes
<1>3. ASSUME NEW c \in Client
      PROVE  OneClient(pc[c], req[c], cview[c], view[c])
  BY DEF Init, BankInit, OneClient, Honest
<1>4. view = [c \in Client |-> view[c]]
  BY DEF Init, BankInit
<1>5. StateOf = [k \in Code |-> "none"] /\ WorthOf = [k \in Code |-> 0]
      /\ OwnerOf = [k \in Code |-> NoAccount]
  BY DEF Init, StateOf, WorthOf, OwnerOf
<1>6. Pocket = Opening
  BY DEF Init, BankInit, Pocket, Opening, OneByOne
<1> QED
  BY <1>2, <1>3, <1>4, <1>5, <1>6 DEF OneInv, Promised!Init

\* A step after which the money is where it was.
LEMMA NothingMoves ==
    ASSUME OneState, UNCHANGED <<funded, paid, refunded>>, UNCHANGED Pocket,
           \A k \in funded : codes'[k].amount = codes[k].amount /\ codes'[k].issuer = codes[k].issuer
    PROVE  UNCHANGED Promised!vars
<1>1. UNCHANGED <<StateOf, WorthOf, OwnerOf>>
  BY DEF StateOf, WorthOf, OwnerOf
<1> QED
  BY <1>1 DEF Promised!vars

LEMMA SameBank ==
    ASSUME UNCHANGED bank
    PROVE  UNCHANGED Pocket
BY DEF Pocket

-----------------------------------------------------------------------------
(* Steps *)

\* The client goes on to a step, with a request and copies of the files.
Becomes(c, step, r, f, v) ==
    /\ pc' = [pc EXCEPT ![c] = step] /\ req' = [req EXCEPT ![c] = r]
    /\ cview' = [cview EXCEPT ![c] = f] /\ view' = [view EXCEPT ![c] = v]

LEMMA OneBecame ==
    ASSUME OneState, NEW c \in Client, NEW step, NEW r, NEW f, NEW v, Becomes(c, step, r, f, v),
           BankFits', CodesFit', OneClient(step, r, f, v)'
    PROVE  OneInv'
<1>1. pc'[c] = step /\ req'[c] = r /\ cview'[c] = f /\ view'[c] = v
  BY DEF Becomes, OneState, OneInv, CashInv
<1>2. view' = [d \in Client |-> view'[d]]
  BY DEF Becomes, OneState, OneInv
<1>3. \A d \in Client : d = c
  BY DEF OneState, OneByOne
<1> QED
  BY <1>1, <1>2, <1>3 DEF OneInv

\* The files stay.
FilesStay == UNCHANGED <<bank, codes, late, funded, paid, refunded>>

LEMMA OneStays ==
    ASSUME FilesStay, UNCHANGED drawn, NEW step, NEW r, NEW f, NEW v, OneClient(step, r, f, v)
    PROVE  OneClient(step, r, f, v)'
<1>1. Honest(step, r)'
  BY DEF FilesStay, Honest, Untouched, OneClient
<1>2. step # "idle" => FilesOf(step, r, f, v)'
  BY DEF FilesStay, FilesOf, OneClient, Loaded, NoAccounts, Fits, OfCustomers, Untouched, CanMove, CanDebit,
         Moved, Credited, Debited, Payer, Payee, Exists
<1>3. step # "idle" => CodeOf(step, r, f)'
  BY DEF FilesStay, CodeOf, OneClient, Transferring, Valid, Untouched
<1> QED
  BY <1>1, <1>2, <1>3 DEF OneClient

LEMMA FilesStayFit ==
    ASSUME OneState, FilesStay, UNCHANGED drawn
    PROVE  BankFits' /\ CodesFit' /\ UNCHANGED Promised!vars
<1>1. BankFits' /\ CodesFit'
  BY DEF OneState, OneInv, BankFits, CodesFit, OfCustomers, FilesStay
<1>2. UNCHANGED Promised!vars
  BY NothingMoves, SameBank DEF FilesStay
<1> QED
  BY <1>1, <1>2

\* A step that changes neither file.
LEMMA OneStep ==
    ASSUME OneState, NEW c \in Client, NEW step, NEW r, NEW f, NEW v, Becomes(c, step, r, f, v),
           FilesStay, UNCHANGED drawn, OneClient(step, r, f, v)
    PROVE  OneInv' /\ UNCHANGED Promised!vars
BY OneStays, FilesStayFit, OneBecame

\* The request ends.
LEMMA OneEnds ==
    ASSUME OneState, NEW c \in Client, CashDone(c), FilesStay, UNCHANGED drawn,
           pc[c] \notin {"redeem", "saveRedeem"}
    PROVE  OneInv' /\ UNCHANGED Promised!vars
<1>1. Becomes(c, "idle", NoRequest, NoCodes, EmptyBank)
  BY DEF CashDone, Done, Goto, Becomes
<1>2. OneClient("idle", NoRequest, NoCodes, EmptyBank)
  BY DEF OneState, OneInv, OneClient, Honest
<1> QED
  BY <1>1, <1>2, OneStep

\* The request of the client at a step.
LEMMA OneAt ==
    ASSUME OneState, NEW c \in Client, pc[c] # "idle"
    PROVE  /\ req[c] \in CashRequest /\ CashClient(pc[c], req[c]) /\ req[c].acct # Escrow
           /\ FilesOf(pc[c], req[c], cview[c], view[c]) /\ CodeOf(pc[c], req[c], cview[c])
           /\ Honest(pc[c], req[c])
BY ClientAt DEF OneState, OneInv, OneClient

\* The client goes on with the request that it has.
LEMMA OneGoes ==
    ASSUME OneState, NEW c \in Client, NEW step, NEW f, NEW v, Goto(c, step), UNCHANGED req,
           cview' = [cview EXCEPT ![c] = f], view' = [view EXCEPT ![c] = v]
    PROVE  Becomes(c, step, req[c], f, v)
BY DEF Becomes, Goto, OneState, CashInv

LEMMA OneKeeps ==
    ASSUME OneState, NEW c \in Client, UNCHANGED cview
    PROVE  cview' = [cview EXCEPT ![c] = cview[c]]
BY DEF OneState, CashInv

LEMMA OneViews ==
    ASSUME OneState, NEW c \in Client, UNCHANGED view
    PROVE  view' = [view EXCEPT ![c] = view[c]]
BY DEF OneState, OneInv

-----------------------------------------------------------------------------
(* Files of codes *)

LEMMA CodesLoad ==
    ASSUME OneState
    PROVE  CanLoadCodes /\ CanLoad /\ codes \in CashFile
BY BankAssumption DEF OneState, OneInv, CodesFit, OfCustomers, CashAssumption, CanLoadCodes, CanLoad, BankFits

\* One code of the file changes, and is not made active.
LEMMA CodeAltered ==
    ASSUME OneState, NEW k \in Code, codes[k] # NoCode, NEW rec \in CashRecord,
           rec.amount = codes[k].amount, rec.issuer = codes[k].issuer,
           rec.status = "active" => codes[k].status = "active" /\ (k \in funded => Untouched(k)),
           \A j \in funded : codes[j].status = "active" => j = k \/ Untouched(j)
    PROVE  Fits([codes EXCEPT ![k] = rec])
<1> DEFINE f == [codes EXCEPT ![k] = rec]
<1>1. f \in CashFile /\ f[k] = rec /\ \A j \in Code : j # k => f[j] = codes[j]
  BY CodesLoad DEF CashFile
<1>2. rec # NoCode
  BY DEF OneState, CashAssumption
<1>3. OfCustomers(f)
  BY <1>1 DEF OneState, OneInv, CodesFit, OfCustomers
<1> HIDE DEF f
<1>4. \A j \in funded :
         /\ f[j] # NoCode /\ f[j].amount = codes[j].amount /\ f[j].issuer = codes[j].issuer
         /\ f[j].status = "active" => Untouched(j)
  <2> SUFFICES ASSUME NEW j \in funded
               PROVE  /\ f[j] # NoCode /\ f[j].amount = codes[j].amount /\ f[j].issuer = codes[j].issuer
                      /\ f[j].status = "active" => Untouched(j)
    OBVIOUS
  <2>1. j \in Code /\ codes[j] # NoCode
    BY DEF OneState, OneInv, CodesFit
  <2> QED
    BY <1>1, <1>2, <2>1
<1>5. Fits(f)
  BY <1>3, <1>4 DEF Fits
<1> QED
  BY <1>5 DEF f

LEMMA CodeUnaltered ==
    ASSUME OneState, \A j \in funded : codes[j].status = "active" => Untouched(j)
    PROVE  Fits(codes)
BY DEF OneState, OneInv, CodesFit, Fits

\* The marks and the new statuses of a code.
LEMMA StatusRecord ==
    ASSUME NEW rec \in CashRecord, NEW s \in {"redeemed", "cancelled", "expired"},
           NEW new, new = [rec EXCEPT !.status = s]
    PROVE  new \in CashRecord /\ new.amount = rec.amount /\ new.issuer = rec.issuer /\ new.status = s
BY DEF CashRecord

LEMMA MarkedRecord ==
    ASSUME NEW rec \in CashRecord, NEW new \in {[rec EXCEPT !.escrowed = TRUE], [rec EXCEPT !.collected = TRUE]}
    PROVE  new \in CashRecord /\ new.amount = rec.amount /\ new.issuer = rec.issuer /\ new.status = rec.status
BY DEF CashRecord

LEMMA StatusFits ==
    ASSUME OneState, NEW k, k \in Code => codes[k] # NoCode,
           NEW s \in {"redeemed", "cancelled", "expired"},
           \A j \in funded : codes[j].status = "active" => j = k \/ Untouched(j)
    PROVE  Fits([codes EXCEPT ![k].status = s]) /\ (k \in Code => [codes EXCEPT ![k].status = s][k] # NoCode
             /\ [codes EXCEPT ![k].status = s][k].status = s)
<1>1. CASE k \in Code
  <2>1. PICK rec : rec = codes[k]
    OBVIOUS
  <2>2. rec \in CashRecord
    BY <1>1, <2>1, CodesLoad DEF CashFile
  <2>3. PICK new : new = [rec EXCEPT !.status = s]
    OBVIOUS
  <2>4. new \in CashRecord /\ new.amount = rec.amount /\ new.issuer = rec.issuer /\ new.status = s
    BY <2>2, <2>3, StatusRecord
  <2>5. Fits([codes EXCEPT ![k] = new])
    BY <1>1, <2>1, <2>4, CodeAltered
  <2>6. [codes EXCEPT ![k].status = s] = [codes EXCEPT ![k] = new]
    BY <2>1, <2>3
  <2>7. [codes EXCEPT ![k] = new][k] = new /\ new # NoCode
    BY <1>1, <2>4, CodesLoad DEF CashFile, OneState, CashAssumption
  <2> QED
    BY <2>4, <2>5, <2>6, <2>7
<1>2. CASE k \notin Code
  <2>1. [codes EXCEPT ![k].status = s] = codes
    BY <1>2, CodesLoad DEF CashFile
  <2>2. \A j \in funded : j # k
    BY <1>2 DEF OneState, OneInv, CodesFit
  <2>3. Fits(codes)
    BY <2>2, CodeUnaltered
  <2> QED
    BY <1>2, <2>1, <2>3
<1> QED
  BY <1>1, <1>2

LEMMA MarksFit ==
    ASSUME OneState, NEW k, k \in Code => codes[k] # NoCode,
           \A j \in funded : codes[j].status = "active" => Untouched(j)
    PROVE  Fits(MarkEscrow(codes, k)) /\ Fits(MarkRedeemed(codes, k))
<1>1. CASE k \in Code
  <2>1. PICK rec : rec = codes[k]
    OBVIOUS
  <2>2. rec \in CashRecord
    BY <1>1, <2>1, CodesLoad DEF CashFile
  <2>3. ASSUME NEW new \in {[rec EXCEPT !.escrowed = TRUE], [rec EXCEPT !.collected = TRUE]}
        PROVE  Fits([codes EXCEPT ![k] = new])
    <3>1. new \in CashRecord /\ new.amount = rec.amount /\ new.issuer = rec.issuer /\ new.status = rec.status
      BY <2>2, MarkedRecord
    <3> QED
      BY <1>1, <2>1, <3>1, CodeAltered
  <2>4. /\ MarkEscrow(codes, k) = [codes EXCEPT ![k] = [rec EXCEPT !.escrowed = TRUE]]
        /\ MarkRedeemed(codes, k) = [codes EXCEPT ![k] = [rec EXCEPT !.collected = TRUE]]
    BY <2>1 DEF MarkEscrow, MarkRedeemed
  <2> QED
    BY <2>3, <2>4
<1>2. CASE k \notin Code
  <2>1. MarkEscrow(codes, k) = codes /\ MarkRedeemed(codes, k) = codes
    BY <1>2, CodesLoad DEF CashFile, MarkEscrow, MarkRedeemed
  <2> QED
    BY <2>1, CodeUnaltered
<1> QED
  BY <1>1, <1>2

-----------------------------------------------------------------------------
(* The steps that change neither file *)

LEMMA OneCopies ==
    ASSUME OneState, NEW c \in Client, NEW found, NEW new, NEW label, Copy(c, found, new, label),
           UNCHANGED late, pc[c] \in {"redeem", "saveRedeem"} => found,
           found => OneClient(label, req[c], new, view[c])
    PROVE  OneInv' /\ UNCHANGED Promised!vars
<1>1. FilesStay /\ UNCHANGED drawn
  BY DEF Copy, FilesStay, history
<1>2. CASE found
  <2>1. cview' = [cview EXCEPT ![c] = new] /\ Goto(c, label) /\ UNCHANGED <<req, view>>
    BY <1>2, CodesLoad DEF Copy
  <2>2. Becomes(c, label, req[c], new, view[c])
    BY <2>1, OneGoes, OneViews
  <2> QED
    BY <1>1, <1>2, <2>2, OneStep
<1>3. CASE ~found
  <2>1. CashDone(c)
    BY <1>3 DEF Copy
  <2> QED
    BY <1>1, <1>3, <2>1, OneEnds
<1> QED
  BY <1>2, <1>3

LEMMA OneAsks ==
    ASSUME OneState, NEW c \in Client, Ask(c), UNCHANGED late
    PROVE  OneInv' /\ UNCHANGED Promised!vars
<1>1. PICK r \in CashRequests, step \in {"cancel", "seed", "escrow"} :
         /\ req' = [req EXCEPT ![c] = r] /\ pc' = [pc EXCEPT ![c] = step]
         /\ step = "seed" => NoAccounts(Loaded)
         /\ step = "escrow" => ~NoAccounts(Loaded)
  BY DEF Ask, Goto
<1>2. FilesStay /\ UNCHANGED <<drawn, cview, view>> /\ pc[c] = "idle"
  BY DEF Ask, FilesStay, history
<1>3. Becomes(c, step, r, cview[c], view[c])
  BY <1>1, <1>2, OneKeeps, OneViews DEF Becomes
<1>4. r.acct # Escrow
  BY DEF OneState, OneByOne
<1>5. Honest(step, r)
  BY <1>2 DEF OneState, OneInv, OneClient, Honest
<1>6. FilesOf(step, r, cview[c], view[c])
  BY <1>1 DEF FilesOf, Loaded, NoAccounts, EmptyBank
<1>7. CodeOf(step, r, cview[c])
  BY DEF CodeOf, Transferring
<1> QED
  BY <1>2, <1>3, <1>4, <1>5, <1>6, <1>7, OneStep DEF OneClient

\* At most steps the request knows nothing but that every code in the file that
\* is active has its money.
LEMMA OneKnowsLittle ==
    ASSUME OneState, NEW c \in Client, pc[c] \notin {"idle", "redeem", "saveRedeem"},
           NEW step \in {"issue", "verify", "markEscrow", "markRedeemed", "undo", "cancel"}, NEW f, NEW v
    PROVE  OneClient(step, req[c], f, v)
<1>1. Honest(step, req[c]) /\ req[c].acct # Escrow
  BY OneAt DEF Honest
<1> QED
  BY <1>1 DEF OneClient, FilesOf, CodeOf, Transferring

\* A copy that fits what the file says, and is saved next.
LEMMA OneWillSave ==
    ASSUME OneState, NEW c \in Client, pc[c] \notin {"idle", "redeem", "saveRedeem"},
           NEW step \in {"saveMark", "saveUndo"}, NEW f, Fits(f), NEW v
    PROVE  OneClient(step, req[c], f, v)
<1>1. Honest(step, req[c]) /\ req[c].acct # Escrow
  BY OneAt DEF Honest
<1> QED
  BY <1>1 DEF OneClient, FilesOf, CodeOf, Transferring

LEMMA OneMarks ==
    ASSUME OneState, NEW c \in Client, Mark(c), UNCHANGED late
    PROVE  OneInv' /\ UNCHANGED Promised!vars
<1>1. pc[c] = "markEscrow" /\ FilesStay /\ UNCHANGED drawn
  BY DEF Mark, FilesStay, history
<1>2. \A j \in funded : codes[j].status = "active" => Untouched(j)
  BY <1>1, OneAt DEF Honest
<1>3. CASE /\ codes[req[c].code] # NoCode /\ UNCHANGED <<req, view>>
           /\ cview' = [cview EXCEPT ![c] = MarkEscrow(codes, req[c].code)] /\ Goto(c, "saveMark")
  <2>1. PICK f : f = MarkEscrow(codes, req[c].code)
    OBVIOUS
  <2>2. Fits(f)
    BY <1>2, <1>3, <2>1, MarksFit
  <2>3. Becomes(c, "saveMark", req[c], f, view[c])
    BY <1>3, <2>1, OneGoes, OneViews
  <2> QED
    BY <1>1, <2>2, <2>3, OneWillSave, OneStep
<1>4. CASE CashDone(c)
  BY <1>1, <1>4, OneEnds
<1> QED
  BY <1>3, <1>4 DEF Mark

LEMMA OneMarksPaid ==
    ASSUME OneState, NEW c \in Client, MarkPaid(c), UNCHANGED late
    PROVE  OneInv' /\ UNCHANGED Promised!vars
<1>1. PICK k, f : k = req[c].code /\ f = MarkRedeemed(codes, k)
  OBVIOUS
<1>2. pc[c] = "markRedeemed" /\ Copy(c, codes[k] # NoCode, f, "saveMark")
  BY <1>1 DEF MarkPaid
<1>3. \A j \in funded : codes[j].status = "active" => Untouched(j)
  BY <1>2, OneAt DEF Honest
<1>4. codes[k] # NoCode => OneClient("saveMark", req[c], f, view[c])
  BY <1>1, <1>2, <1>3, MarksFit, OneWillSave
<1> QED
  BY <1>2, <1>4, OneCopies

LEMMA OneVerifies ==
    ASSUME OneState, NEW c \in Client, Verify(c), UNCHANGED late
    PROVE  OneInv' /\ UNCHANGED Promised!vars
<1>1. PICK r, f :
         r = req[c] /\ f = codes
  OBVIOUS
<1>2. pc[c] = "verify" /\ Copy(c, CanLoad /\ Exists(Loaded, r.acct) /\ Valid(codes, r.code), f, "pay")
  BY <1>1 DEF Verify
<1>3. r.acct # Escrow /\ r \in CashRequest /\ CashClient("verify", r) /\ Honest("pay", r)
  BY <1>1, <1>2, OneAt DEF Honest
<1>4. r.op = "redeem" /\ r.code \in funded
  BY <1>3 DEF CashClient, CashSteps, CashRequest, OneState, CashInv, CashHistory, KnownIsFunded
<1>5. CanLoad /\ Exists(Loaded, r.acct) /\ Valid(codes, r.code) => CodeOf("pay", r, f)
  BY <1>1, <1>4 DEF CodeOf, Transferring
<1>6. FilesOf("pay", r, f, view[c])
  BY <1>1 DEF FilesOf
<1>7. CanLoad /\ Exists(Loaded, r.acct) /\ Valid(codes, r.code) => OneClient("pay", req[c], f, view[c])
  BY <1>1, <1>3, <1>5, <1>6 DEF OneClient
<1> QED
  BY <1>2, <1>7, OneCopies

\* A redemption that has paid finds its code still valid.
LEMMA OneRedeems ==
    ASSUME OneState, NEW c \in Client, Redeem(c), UNCHANGED late
    PROVE  OneInv' /\ UNCHANGED Promised!vars
<1>1. PICK r, f :
         r = req[c] /\ f = Redeemed(codes, r.code)
  OBVIOUS
<1>2. pc[c] = "redeem" /\ Copy(c, Valid(codes, r.code), f, "saveRedeem")
  BY <1>1 DEF Redeem
<1>3. r.acct # Escrow /\ Honest("redeem", r) /\ CodeOf("redeem", r, cview[c])
  BY <1>1, <1>2, OneAt
<1>4. r.code \in funded /\ Valid(codes, r.code) /\ codes[r.code] # NoCode
  BY <1>3 DEF CodeOf, Valid
<1>5. Fits(f)
  <2>1. \A j \in funded : codes[j].status = "active" => j = r.code \/ Untouched(j)
    BY <1>3 DEF Honest
  <2> QED
    BY <1>1, <1>4, <2>1, StatusFits DEF Redeemed
<1>6. Honest("saveRedeem", r) /\ CodeOf("saveRedeem", r, f) /\ FilesOf("saveRedeem", r, f, view[c])
  BY <1>3, <1>4, <1>5 DEF Honest, CodeOf, FilesOf, Transferring
<1>7. OneClient("saveRedeem", req[c], f, view[c]) /\ Valid(codes, r.code)
  BY <1>1, <1>3, <1>4, <1>6 DEF OneClient
<1> QED
  BY <1>2, <1>7, OneCopies

LEMMA CancelledFits ==
    ASSUME OneState, NEW k, CanCancel(codes, k),
           \A j \in funded : codes[j].status = "active" => Untouched(j)
    PROVE  /\ Fits(Cancelled(codes, k))
           /\ k \in Code => Cancelled(codes, k)[k] # NoCode /\ Cancelled(codes, k)[k].status # "active"
<1>1. PICK s \in {"expired", "cancelled"} : s = IF k \in late THEN "expired" ELSE "cancelled"
  OBVIOUS
<1>2. Cancelled(codes, k) = [codes EXCEPT ![k].status = s]
  BY <1>1 DEF Cancelled
<1>3. s # "active" /\ s \in {"redeemed", "cancelled", "expired"} /\ codes[k] # NoCode
  BY DEF CanCancel
<1>4. PICK f : f = [codes EXCEPT ![k].status = s]
  OBVIOUS
<1>5. Fits(f) /\ (k \in Code => f[k] # NoCode /\ f[k].status = s)
  BY <1>3, <1>4, StatusFits
<1> QED
  BY <1>2, <1>3, <1>4, <1>5

LEMMA OneUndoes ==
    ASSUME OneState, NEW c \in Client, Undo(c), UNCHANGED late
    PROVE  OneInv' /\ UNCHANGED Promised!vars
<1>1. PICK k, f :
         k = req[c].code /\ f = Cancelled(codes, k)
  OBVIOUS
<1>2. pc[c] = "undo" /\ Copy(c, CanCancel(codes, k), f, "saveUndo")
  BY <1>1 DEF Undo
<1>3. \A j \in funded : codes[j].status = "active" => Untouched(j)
  BY <1>2, OneAt DEF Honest
<1>4. CanCancel(codes, k) => OneClient("saveUndo", req[c], f, view[c])
  BY <1>1, <1>2, <1>3, CancelledFits, OneWillSave
<1> QED
  BY <1>2, <1>4, OneCopies

LEMMA OneCancels ==
    ASSUME OneState, NEW c \in Client, Cancel(c), UNCHANGED late
    PROVE  OneInv' /\ UNCHANGED Promised!vars
<1>1. PICK r, f :
         r = req[c] /\ f = Cancelled(codes, r.code)
  OBVIOUS
<1>2. pc[c] = "cancel" /\ Copy(c, CanCancel(codes, r.code), f, "saveCancel")
  BY <1>1 DEF Cancel
<1>3. r.acct # Escrow /\ r \in CashRequest /\ CashClient("cancel", r) /\ Honest("cancel", r)
  BY <1>1, <1>2, OneAt
<1>4. r.op = "cancel" /\ r.code \in Code
  BY <1>3 DEF CashClient, CashSteps, CashRequest
<1>5. \A j \in funded : codes[j].status = "active" => Untouched(j)
  BY <1>3 DEF Honest
<1>6. CanCancel(codes, r.code) => Fits(f) /\ f[r.code] # NoCode /\ f[r.code].status # "active" /\ codes[r.code].status = "active"
  BY <1>1, <1>4, <1>5, CancelledFits DEF CanCancel
<1>7. CanCancel(codes, r.code) => Honest("saveCancel", r) /\ CodeOf("saveCancel", r, f) /\ FilesOf("saveCancel", r, f, view[c])
  BY <1>5, <1>6 DEF Honest, CodeOf, FilesOf, Transferring
<1>8. CanCancel(codes, r.code) => OneClient("saveCancel", req[c], f, view[c])
  BY <1>1, <1>3, <1>7 DEF OneClient
<1> QED
  BY <1>2, <1>8, OneCopies

LEMMA OneEnsures ==
    ASSUME OneState, NEW c \in Client, EnsureEscrow(c), UNCHANGED late
    PROVE  OneInv' /\ UNCHANGED Promised!vars
<1>1. pc[c] = "escrow" /\ FilesStay /\ UNCHANGED drawn /\ CanLoad
  BY CodesLoad DEF EnsureEscrow, FilesStay, history
<1>2. req[c] \in CashRequest /\ req[c].acct # Escrow /\ bank # NoFile /\ Honest("saveEscrow", req[c])
  BY <1>1, OneAt DEF FilesOf, Honest
<1>3. CASE Goto(c, AfterEscrow(req[c])) /\ UNCHANGED <<view, req, cview>>
  <2>1. AfterEscrow(req[c]) \in {"issue", "verify"}
    BY DEF AfterEscrow
  <2>2. Becomes(c, AfterEscrow(req[c]), req[c], cview[c], view[c])
    BY <1>3, OneGoes, OneKeeps, OneViews
  <2> QED
    BY <1>1, <2>1, <2>2, OneKnowsLittle, OneStep
<1>4. CASE /\ view' = [view EXCEPT ![c] = WithSystemAccount(Loaded, Escrow, EscrowCurrency(req[c]))]
           /\ Goto(c, "saveEscrow") /\ UNCHANGED <<req, cview>>
  <2>1. PICK v : v = WithSystemAccount(Loaded, Escrow, EscrowCurrency(req[c]))
    OBVIOUS
  <2>2. EscrowCurrency(req[c]) \in Currency
    BY <1>2 DEF EscrowCurrency, CashRequest, OneState, CashAssumption
  <2>3. Loaded = bank /\ bank \in BankFile /\ Escrow \in Account
    BY <1>1, <1>2 DEF Loaded, OneState, OneInv, BankFits, CashAssumption
  <2>4. v[Escrow] \in BankAccount /\ v = [bank EXCEPT ![Escrow] = v[Escrow]]
    BY <2>1, <2>2, <2>3 DEF WithSystemAccount, BankAccount, BankFile
  <2>5. FilesOf("saveEscrow", req[c], cview[c], v) /\ CodeOf("saveEscrow", req[c], cview[c])
    BY <1>2, <2>4 DEF FilesOf, CodeOf, Transferring
  <2>6. Becomes(c, "saveEscrow", req[c], cview[c], v)
    BY <1>4, <2>1, OneGoes, OneKeeps
  <2>7. OneClient("saveEscrow", req[c], cview[c], v)
    BY <1>2, <2>5 DEF OneClient
  <2> QED
    BY <1>1, <2>6, <2>7, OneStep
<1> QED
  BY <1>1, <1>3, <1>4 DEF EnsureEscrow

LEMMA CodeAdded ==
    ASSUME OneState, NEW r \in CashRequest, r.code \in Code \ drawn, r.acct \in Account \ {Escrow},
           r.amount > 0, \A j \in funded : codes[j].status = "active" => Untouched(j)
    PROVE  /\ Fits(Issued(codes, r)) /\ Issued(codes, r)[r.code] # NoCode
           /\ Issued(codes, r)[r.code].issuer = r.acct
<1>1. PICK rec : rec = [amount |-> r.amount, currency |-> r.currency, issuer |-> r.acct,
                        status |-> "active", escrowed |-> FALSE, collected |-> FALSE]
  OBVIOUS
<1>2. rec \in CashRecord /\ rec.issuer = r.acct
  BY <1>1 DEF CashRecord, CashRequest
<1>3. PICK f : f = [codes EXCEPT ![r.code] = rec]
  OBVIOUS
<1>4. f \in CashFile /\ f[r.code] = rec /\ \A j \in Code : j # r.code => f[j] = codes[j]
  BY <1>2, <1>3, CodesLoad DEF CashFile
<1>5. rec # NoCode
  BY <1>2 DEF OneState, CashAssumption
<1>6. OfCustomers(f)
  BY <1>2, <1>4 DEF OneState, OneInv, CodesFit, OfCustomers
<1>7. \A j \in funded : j \in Code /\ j # r.code /\ codes[j] # NoCode
  BY DEF OneState, OneInv, CodesFit
<1>8. Fits(f)
  BY <1>4, <1>6, <1>7 DEF Fits
<1>9. Issued(codes, r) = f
  BY <1>1, <1>3 DEF Issued
<1> QED
  BY <1>2, <1>4, <1>5, <1>8, <1>9

LEMMA OneIssues ==
    ASSUME OneState, NEW c \in Client, Issue(c), UNCHANGED late
    PROVE  OneInv' /\ UNCHANGED Promised!vars
<1>1. pc[c] = "issue" /\ FilesStay
  BY DEF Issue, FilesStay
<1>2. /\ req[c] \in CashRequest /\ req[c].acct # Escrow /\ Honest("issue", req[c])
      /\ \A j \in funded : codes[j].status = "active" => Untouched(j)
  BY <1>1, OneAt DEF Honest
<1>3. CASE CashDone(c) /\ UNCHANGED drawn
  BY <1>1, <1>3, OneEnds
<1>4. ASSUME NEW k \in Code \ drawn, req[c].amount > 0, Exists(Loaded, req[c].acct),
             req' = [req EXCEPT ![c].code = k], cview' = [cview EXCEPT ![c] = Issued(codes, req'[c])],
             drawn' = drawn \cup {k}, Goto(c, "saveIssue"), UNCHANGED view
      PROVE  OneInv' /\ UNCHANGED Promised!vars
  <2>1. PICK r : r = [req[c] EXCEPT !.code = k]
    OBVIOUS
  <2>2. r \in CashRequest /\ r.code = k /\ r.acct = req[c].acct /\ r.amount = req[c].amount
    BY <1>2, <2>1 DEF CashRequest
  <2>3. req' = [req EXCEPT ![c] = r] /\ req'[c] = r
    BY <1>4, <2>1 DEF OneState, CashInv
  <2>4. PICK f : f = Issued(codes, r)
    OBVIOUS
  <2>5. Becomes(c, "saveIssue", r, f, view[c])
    BY <1>4, <2>3, <2>4, OneViews DEF Becomes, Goto
  <2>6. r.acct \in Account \ {Escrow}
    BY <1>2, <1>4, <2>2 DEF Exists
  <2>7. Fits(f) /\ f[k] # NoCode /\ f[k].issuer = r.acct
    BY <1>2, <1>4, <2>2, <2>4, <2>6, CodeAdded
  <2>8. Fits(f)'
    BY <1>1, <2>7 DEF FilesStay, Fits, OfCustomers, Untouched
  <2>9. Honest("saveIssue", r)'
    BY <1>1, <1>2 DEF FilesStay, Honest, Untouched
  <2>10. k \in drawn' \ funded'
    BY <1>1, <1>4 DEF FilesStay, OneState, OneInv, CodesFit
  <2>11. FilesOf("saveIssue", r, f, view[c])'
    BY <2>8 DEF FilesOf
  <2>12. CodeOf("saveIssue", r, f)'
    BY <2>2, <2>7, <2>10 DEF CodeOf, Transferring
  <2>13. PICK v : v = view[c]
    OBVIOUS
  <2>14. OneClient("saveIssue", r, f, v)'
    BY <2>6, <2>8, <2>9, <2>12 DEF OneClient, FilesOf
  <2>15. BankFits' /\ CodesFit'
    BY <1>1, <1>4 DEF OneState, OneInv, BankFits, CodesFit, OfCustomers, FilesStay
  <2>16. UNCHANGED Promised!vars
    BY <1>1, NothingMoves, SameBank DEF FilesStay
  <2> QED
    BY <2>5, <2>13, <2>14, <2>15, <2>16, OneBecame
<1> QED
  BY <1>3, <1>4 DEF Issue

\* A transfer that is refused.
LEMMA OneRefused ==
    ASSUME OneState, NEW c \in Client, Refused(c), FilesStay, UNCHANGED drawn,
           pc[c] \in {"fund", "pay", "refund", "saveTransfer"}
    PROVE  OneInv' /\ UNCHANGED Promised!vars
<1>1. CASE CashDone(c)
  BY <1>1, OneEnds
<1>2. CASE Goto(c, "undo") /\ UNCHANGED <<req, view, cview>>
  <2>1. Becomes(c, "undo", req[c], cview[c], view[c])
    BY <1>2, OneGoes, OneKeeps, OneViews
  <2> QED
    BY <2>1, OneKnowsLittle, OneStep
<1> QED
  BY <1>1, <1>2 DEF Refused

LEMMA OneTransfers ==
    ASSUME OneState, NEW c \in Client, Transfer(c), UNCHANGED late
    PROVE  OneInv' /\ UNCHANGED Promised!vars
<1>1. pc[c] \in {"fund", "pay", "refund"} /\ FilesStay /\ UNCHANGED drawn
  BY DEF Transfer, FilesStay, history
<1>2. CASE Refused(c)
  BY <1>1, <1>2, OneRefused
<1>3. PICK r, f : r = req[c] /\ f = cview[c]
  OBVIOUS
<1>4. f = codes /\ r.acct # Escrow /\ CodeOf("saveTransfer", r, f) /\ Honest("saveTransfer", r)
  BY <1>1, <1>3, OneAt DEF FilesOf, CodeOf, Transferring, Honest
<1>5. PICK v : v = Moved(Loaded, Payer(r), Payee(r, codes[r.code]), codes[r.code].amount)
  OBVIOUS
<1>6. CASE /\ CanMove(Loaded, Payer(r), Payee(r, codes[r.code]), codes[r.code].amount)
           /\ view' = [view EXCEPT ![c] = v] /\ Goto(c, "saveTransfer") /\ UNCHANGED <<req, cview>>
  <2>1. bank # NoFile /\ Loaded = bank
    BY <1>6 DEF CanMove, CanDebit, Exists, Loaded, EmptyBank
  <2>2. FilesOf("saveTransfer", r, f, v)
    BY <1>4, <1>5, <1>6, <2>1 DEF FilesOf
  <2>3. OneClient("saveTransfer", r, f, v)
    BY <1>4, <2>2 DEF OneClient
  <2>4. Becomes(c, "saveTransfer", r, f, v)
    BY <1>3, <1>6, OneGoes, OneKeeps
  <2> QED
    BY <1>1, <2>3, <2>4, OneStep
<1> QED
  BY <1>2, <1>3, <1>4, <1>5, <1>6 DEF Transfer

-----------------------------------------------------------------------------
(* The steps that save the codes *)

LEMMA OneWrites ==
    ASSUME OneState, NEW c \in Client, UNCHANGED <<bank, late, history>>,
           pc[c] \in {"saveIssue", "saveMark", "saveUndo", "saveRedeem", "saveCancel"},
           SaveCodes(c) \/ SaveCodesFails
    PROVE  /\ codes' = cview[c] /\ Fits(cview[c])
           /\ BankFits' /\ CodesFit' /\ UNCHANGED Promised!vars
           /\ \A step, r : Honest(step, r)'
<1>1. codes' = cview[c]
  BY DEF SaveCodes, SaveCodesFails, OneState, OneByOne
<1>2. Fits(cview[c])
  BY OneAt DEF FilesOf
<1>3. BankFits' /\ CodesFit'
  BY <1>1, <1>2 DEF history, OneState, OneInv, BankFits, CodesFit, Fits, OfCustomers
<1>4. UNCHANGED Promised!vars
  BY <1>1, <1>2, NothingMoves, SameBank DEF history, Fits
<1>5. \A k \in funded' : codes'[k].status = "active" => Untouched(k)'
  BY <1>1, <1>2 DEF history, Fits, Untouched
<1>6. \A step, r : Honest(step, r)'
  BY <1>5 DEF Honest
<1> QED
  BY <1>1, <1>2, <1>3, <1>4, <1>6

LEMMA OneWritesLast ==
    ASSUME OneState, NEW c \in Client, UNCHANGED <<bank, late, history>>,
           pc[c] \in {"saveIssue", "saveMark", "saveUndo", "saveRedeem", "saveCancel"},
           SaveCodes(c) \/ SaveCodesFails, CashDone(c)
    PROVE  OneInv' /\ UNCHANGED Promised!vars
<1>1. Becomes(c, "idle", NoRequest, NoCodes, EmptyBank)
  BY DEF CashDone, Done, Goto, Becomes
<1>2. OneClient("idle", NoRequest, NoCodes, EmptyBank)'
  BY OneWrites DEF OneClient
<1> QED
  BY <1>1, <1>2, OneWrites, OneBecame

LEMMA OneSavesIssue ==
    ASSUME OneState, NEW c \in Client, SaveIssue(c), UNCHANGED late
    PROVE  OneInv' /\ UNCHANGED Promised!vars
<1>1. pc[c] = "saveIssue" /\ UNCHANGED <<bank, late, history>> /\ (SaveCodes(c) \/ SaveCodesFails)
  BY DEF SaveIssue
<1>2. Goto(c, "fund") /\ UNCHANGED <<req, view, cview>>
  BY DEF SaveIssue, SaveCodesFails, OneState, OneByOne
<1>3. PICK r, f, v : r = req[c] /\ f = cview[c] /\ v = view[c]
  OBVIOUS
<1>4. /\ r.acct # Escrow /\ CodeOf("saveIssue", r, f) /\ r \in CashRequest
      /\ CashClient("saveIssue", r)
  BY <1>1, <1>3, OneAt
<1>5. r.op = "issue"
  BY <1>4 DEF CashClient, CashSteps, CashRequest
<1>6. r.code \in drawn' \ funded' /\ f[r.code] # NoCode /\ f[r.code].issuer = r.acct
  BY <1>1, <1>4 DEF CodeOf, history
<1>7. codes' = f /\ Honest("fund", r)'
  BY <1>1, <1>3, OneWrites
<1>8. FilesOf("fund", r, f, v)' /\ CodeOf("fund", r, f)'
  BY <1>5, <1>6, <1>7 DEF FilesOf, CodeOf, Transferring
<1>9. OneClient("fund", r, f, v)'
  BY <1>4, <1>7, <1>8 DEF OneClient
<1>10. Becomes(c, "fund", r, f, v)
  BY <1>2, <1>3, OneGoes, OneKeeps, OneViews
<1> QED
  BY <1>1, <1>9, <1>10, OneWrites, OneBecame

LEMMA OneSavesRedeem ==
    ASSUME OneState, NEW c \in Client, SaveRedeem(c), UNCHANGED late
    PROVE  OneInv' /\ UNCHANGED Promised!vars
<1>1. pc[c] = "saveRedeem" /\ UNCHANGED <<bank, late, history>> /\ (SaveCodes(c) \/ SaveCodesFails)
  BY DEF SaveRedeem
<1>2. Goto(c, "markRedeemed") /\ UNCHANGED <<req, view, cview>>
  BY DEF SaveRedeem, SaveCodesFails, OneState, OneByOne
<1>3. PICK r, f, v : r = req[c] /\ f = cview[c] /\ v = view[c]
  OBVIOUS
<1>4. r.acct # Escrow
  BY <1>1, <1>3, OneAt
<1>5. FilesOf("markRedeemed", r, f, v)' /\ CodeOf("markRedeemed", r, f)'
  BY DEF FilesOf, CodeOf, Transferring
<1>6. OneClient("markRedeemed", r, f, v)'
  BY <1>1, <1>4, <1>5, OneWrites DEF OneClient
<1>7. Becomes(c, "markRedeemed", r, f, v)
  BY <1>2, <1>3, OneGoes, OneKeeps, OneViews
<1> QED
  BY <1>1, <1>6, <1>7, OneWrites, OneBecame

\* A cancellation that is saved refunds a code that was funded, once.
LEMMA OneSavesCancel ==
    ASSUME OneState, NEW c \in Client, SaveCancel(c), UNCHANGED late
    PROVE  OneInv' /\ UNCHANGED Promised!vars
<1>1. pc[c] = "saveCancel" /\ UNCHANGED <<bank, late, history>> /\ (SaveCodes(c) \/ SaveCodesFails)
  BY DEF SaveCancel
<1>2. CASE CashDone(c)
  BY <1>1, <1>2, OneWritesLast
<1>3. PICK r, f, v : r = req[c] /\ f = cview[c] /\ v = view[c]
  OBVIOUS
<1>4. CASE f[r.code].escrowed /\ Goto(c, "refund") /\ UNCHANGED <<req, view, cview>>
  <2>1. /\ r.acct # Escrow /\ CodeOf("saveCancel", r, f) /\ r \in CashRequest
        /\ CashClient("saveCancel", r) /\ CancelsACode("saveCancel", r, f)
    BY <1>1, <1>3, OneAt DEF OneState, CashInv
  <2>2. r.op = "cancel"
    BY <2>1 DEF CashClient, CashSteps, CashRequest
  <2>3. r.code \in funded
    BY <1>4, <2>1 DEF CancelsACode
  <2>4. Untouched(r.code) /\ f[r.code].status # "active"
    BY <2>1, <2>3 DEF CodeOf
  <2>5. codes' = f /\ Honest("refund", r)'
    BY <1>1, <1>3, OneWrites
  <2>6. r.code \in funded' /\ Untouched(r.code)' /\ codes'[r.code].status # "active"
    BY <1>1, <2>3, <2>4, <2>5 DEF history, Untouched
  <2>7. FilesOf("refund", r, f, v)' /\ CodeOf("refund", r, f)'
    BY <2>2, <2>5, <2>6 DEF FilesOf, CodeOf, Transferring
  <2>8. OneClient("refund", r, f, v)'
    BY <2>1, <2>5, <2>7 DEF OneClient
  <2>9. Becomes(c, "refund", r, f, v)
    BY <1>3, <1>4, OneGoes, OneKeeps, OneViews
  <2> QED
    BY <1>1, <2>8, <2>9, OneWrites, OneBecame
<1> QED
  BY <1>2, <1>3, <1>4 DEF SaveCancel

-----------------------------------------------------------------------------
(* The steps that save the bank: its accounts are there *)

LEMMA OneSeeds ==
    ASSUME OneState, NEW c \in Client, SeedFirst(c), UNCHANGED late
    PROVE  OneInv' /\ UNCHANGED Promised!vars
<1>1. pc[c] = "seed" /\ UNCHANGED <<codes, late, history>>
  BY DEF SeedFirst
<1>2. bank' = Seeded /\ Goto(c, "escrow") /\ UNCHANGED <<req, view, cview>>
  BY DEF SeedFirst, Save, SaveFails, OneState, OneByOne
<1>3. PICK r, f, v : r = req[c] /\ f = cview[c] /\ v = view[c]
  OBVIOUS
<1>4. r.acct # Escrow /\ NoAccounts(Loaded) /\ Honest("escrow", r)
  BY <1>1, <1>3, OneAt DEF FilesOf, Honest
<1>5. Seeded \in BankFile /\ Seeded # NoFile
  BY BankAssumption
<1>6. BankFits' /\ CodesFit'
  BY <1>1, <1>2, <1>5 DEF history, OneState, OneInv, BankFits, CodesFit, OfCustomers
<1>7. \A a \in Account : bank # NoFile => bank[a] = NoAccount /\ Seeded[a] = NoAccount
  BY <1>4 DEF Loaded, NoAccounts, OneState, OneInv, BankFits
<1>8. UNCHANGED Pocket
  BY <1>2, <1>5, <1>7 DEF Pocket, Opening
<1>9. UNCHANGED Promised!vars
  BY <1>1, <1>8, NothingMoves DEF history
<1>10. Honest("escrow", r)'
  BY <1>1, <1>4 DEF Honest, Untouched, history
<1>11. FilesOf("escrow", r, f, v)' /\ CodeOf("escrow", r, f)'
  BY <1>2, <1>5 DEF FilesOf, CodeOf, Transferring
<1>12. OneClient("escrow", r, f, v)'
  BY <1>4, <1>10, <1>11 DEF OneClient
<1>13. Becomes(c, "escrow", r, f, v)
  BY <1>2, <1>3, OneGoes, OneKeeps, OneViews
<1> QED
  BY <1>6, <1>9, <1>12, <1>13, OneBecame

LEMMA OneSavesEscrow ==
    ASSUME OneState, NEW c \in Client, SaveEscrow(c), UNCHANGED late
    PROVE  OneInv' /\ UNCHANGED Promised!vars
<1>1. pc[c] = "saveEscrow" /\ UNCHANGED <<codes, late, history>>
  BY DEF SaveEscrow
<1>2. bank' = view[c] /\ Goto(c, AfterEscrow(req[c])) /\ UNCHANGED <<req, view, cview>>
  BY DEF SaveEscrow, Save, SaveFails, OneState, OneByOne
<1>3. PICK r, f, v, step : r = req[c] /\ f = cview[c] /\ v = view[c] /\ step = AfterEscrow(r)
  OBVIOUS
<1>4. /\ r.acct # Escrow /\ FilesOf("saveEscrow", r, f, v) /\ Honest("issue", r)
  BY <1>1, <1>3, OneAt DEF Honest
<1>5. v[Escrow] \in BankAccount /\ v = [bank EXCEPT ![Escrow] = v[Escrow]] /\ bank # NoFile
  BY <1>4 DEF FilesOf
<1>6. bank \in BankFile /\ Escrow \in Account
  BY <1>5 DEF OneState, OneInv, BankFits, CashAssumption
<1>7. v \in BankFile /\ v # NoFile /\ \A a \in Account : a # Escrow => v[a] = bank[a]
  <2>1. PICK acct \in BankAccount : v = [bank EXCEPT ![Escrow] = acct]
    BY <1>5
  <2>2. v \in BankFile /\ \A a \in Account : a # Escrow => v[a] = bank[a]
    BY <1>6, <2>1 DEF BankFile
  <2> QED
    BY <2>2, BankAssumption
<1>8. BankFits'
  BY <1>2, <1>3, <1>5, <1>7, BankAssumption DEF OneState, OneInv, BankFits
<1>9. CodesFit'
  BY <1>1 DEF history, OneState, OneInv, CodesFit, OfCustomers
<1>10. UNCHANGED Pocket
  BY <1>2, <1>3, <1>5, <1>7 DEF Pocket
<1>11. UNCHANGED Promised!vars
  BY <1>1, <1>10, NothingMoves DEF history
<1>12. step \in {"issue", "verify"}
  BY <1>3 DEF AfterEscrow
<1>13. Honest(step, r)'
  BY <1>1, <1>4, <1>12 DEF Honest, Untouched, history
<1>14. FilesOf(step, r, f, v)' /\ CodeOf(step, r, f)'
  BY <1>12 DEF FilesOf, CodeOf, Transferring
<1>15. OneClient(step, r, f, v)'
  BY <1>4, <1>13, <1>14 DEF OneClient
<1>16. Becomes(c, step, r, f, v)
  BY <1>2, <1>3, OneGoes, OneKeeps, OneViews
<1> QED
  BY <1>8, <1>9, <1>11, <1>15, <1>16, OneBecame

-----------------------------------------------------------------------------
(* A transfer: the money of a code leaves its issuer, or arrives *)

LEMMA MovedAccounts ==
    ASSUME NEW st \in BankFile, NEW a, NEW b, a # b, NEW n \in Nat, CanMove(st, a, b, n)
    PROVE  /\ Moved(st, a, b, n) = [st EXCEPT ![a] = DebitedAccount(st[a], n), ![b] = CreditedAccount(st[b], n)]
           /\ a \in Account /\ b \in Account /\ st[a] \in BankAccount /\ st[b] \in BankAccount
           /\ st[a].bal >= n /\ n > 0
<1>1. a \in Account /\ b \in Account /\ st[a] # NoAccount /\ st[b] # NoAccount /\ st[a].bal >= n /\ n > 0
  BY DEF CanMove, CanDebit, Exists
<1>2. st[a] \in BankAccount /\ st[b] \in BankAccount
  BY <1>1 DEF BankFile
<1>3. Debited(st, a, n) = [st EXCEPT ![a] = DebitedAccount(st[a], n)]
  BY <1>1, <1>2 DEF Debited, DebitedAccount, BankFile, BankAccount
<1>4. PICK mid : mid = [st EXCEPT ![a] = DebitedAccount(st[a], n)]
  OBVIOUS
<1>5. mid[b] = st[b] /\ b \in DOMAIN mid
  BY <1>1, <1>4 DEF BankFile
<1>6. Credited(mid, b, n) = [mid EXCEPT ![b] = CreditedAccount(mid[b], n)]
  BY <1>2, <1>5 DEF Credited, CreditedAccount, BankAccount
<1>7. [mid EXCEPT ![b] = CreditedAccount(st[b], n)]
        = [st EXCEPT ![a] = DebitedAccount(st[a], n), ![b] = CreditedAccount(st[b], n)]
  BY <1>1, <1>4 DEF BankFile
<1> QED
  BY <1>1, <1>2, <1>3, <1>4, <1>5, <1>6, <1>7 DEF Moved

LEMMA MovedBalances ==
    ASSUME NEW st \in BankFile, NEW a, NEW b, a # b, NEW n \in Nat, CanMove(st, a, b, n)
    PROVE  /\ Moved(st, a, b, n) \in BankFile
           /\ \A x \in Account : Moved(st, a, b, n)[x] = NoAccount <=> st[x] = NoAccount
           /\ \A x \in Account \ {a, b} : Moved(st, a, b, n)[x] = st[x]
           /\ Moved(st, a, b, n)[a].bal = st[a].bal - n
           /\ Moved(st, a, b, n)[b].bal = st[b].bal + n
<1>1. PICK d, e, new : d = DebitedAccount(st[a], n) /\ e = CreditedAccount(st[b], n) /\ new = Moved(st, a, b, n)
  OBVIOUS
<1>2. new = [st EXCEPT ![a] = d, ![b] = e] /\ a \in Account /\ b \in Account
      /\ st[a] \in BankAccount /\ st[b] \in BankAccount /\ st[a].bal >= n
  BY <1>1, MovedAccounts
<1>3. d \in BankAccount /\ d.bal = st[a].bal - n
  BY <1>1, <1>2, DebitedBalance
<1>4. e \in BankAccount /\ e.bal = st[b].bal + n
  BY <1>1, <1>2, CreditedBalance
<1>5. new \in BankFile /\ new[a] = d /\ new[b] = e /\ \A x \in Account \ {a, b} : new[x] = st[x]
  BY <1>2, <1>3, <1>4 DEF BankFile
<1>6. NoAccount \notin BankAccount
  BY BankAssumption
<1> QED
  BY <1>1, <1>2, <1>3, <1>4, <1>5, <1>6

\* What a transfer does to the pockets of customers.
LEMMA PocketsChange ==
    ASSUME OneState, bank # NoFile, NEW a, NEW b, a # b, NEW n \in Nat, CanMove(bank, a, b, n),
           bank' = Moved(bank, a, b, n)
    PROVE  /\ BankFits'
           /\ b = Escrow => /\ Pocket' = [Pocket EXCEPT ![a] = @ - n] /\ a \in Account
                            /\ n \in 1..Pocket[a] /\ Pocket[a] \in Nat
           /\ a = Escrow => Pocket' = [Pocket EXCEPT ![b] = @ + n] /\ b \in Account
<1>1. bank \in BankFile /\ bank' # NoFile
  <2>1. bank \in BankFile
    BY DEF OneState, OneInv, BankFits
  <2>2. bank' \in BankFile
    BY <2>1, MovedBalances
  <2> QED
    BY <2>1, <2>2, BankAssumption
<1>2. PICK st, new : st = bank /\ new = Moved(st, a, b, n)
  OBVIOUS
<1>3. /\ new \in BankFile
      /\ \A x \in Account : new[x] = NoAccount <=> st[x] = NoAccount
      /\ \A x \in Account \ {a, b} : new[x] = st[x]
      /\ new[a].bal = st[a].bal - n /\ new[b].bal = st[b].bal + n
  BY <1>1, <1>2, MovedBalances
<1>4. bank' = new
  BY <1>2
<1>5. BankFits'
  BY <1>2, <1>3, <1>4 DEF OneState, OneInv, BankFits
<1>6. /\ a \in Account /\ b \in Account /\ st[a] \in BankAccount /\ st[b] \in BankAccount
      /\ st[a].bal >= n /\ n > 0
  BY <1>1, <1>2, MovedAccounts
<1>7. st[a] # NoAccount /\ st[b] # NoAccount /\ new[a] # NoAccount /\ new[b] # NoAccount
      /\ st[a].bal \in Nat
  BY <1>3, <1>6, BankAssumption DEF BankAccount
<1>8. Pocket = [x \in Account |-> IF x = Escrow THEN 0 ELSE IF st[x] = NoAccount THEN 0 ELSE st[x].bal]
  BY <1>2 DEF Pocket
<1>9. Pocket' = [x \in Account |-> IF x = Escrow THEN 0 ELSE IF new[x] = NoAccount THEN 0 ELSE new[x].bal]
  BY <1>1, <1>4 DEF Pocket
<1>10. CASE b = Escrow
  <2>1. Pocket[a] = st[a].bal
    BY <1>6, <1>7, <1>8, <1>10
  <2>2. \A x \in Account : Pocket'[x] = IF x = a THEN Pocket[a] - n ELSE Pocket[x]
    BY <1>3, <1>6, <1>7, <1>8, <1>9, <1>10
  <2>3. n \in 1..Pocket[a]
    BY <1>6, <1>7, <2>1
  <2>4. Pocket' = [Pocket EXCEPT ![a] = @ - n]
    BY <1>6, <1>8, <1>9, <2>2
  <2> QED
    BY <1>5, <1>6, <1>7, <1>10, <2>1, <2>3, <2>4
<1>11. CASE a = Escrow
  <2>1. Pocket[b] = st[b].bal
    BY <1>6, <1>7, <1>8, <1>11
  <2>2. \A x \in Account : Pocket'[x] = IF x = b THEN Pocket[b] + n ELSE Pocket[x]
    BY <1>3, <1>6, <1>7, <1>8, <1>9, <1>11, <2>1
  <2>3. Pocket' = [Pocket EXCEPT ![b] = @ + n]
    BY <1>6, <1>8, <1>9, <2>2
  <2> QED
    BY <1>5, <1>6, <1>11, <2>3
<1> QED
  BY <1>5, <1>10, <1>11

LEMMA PocketFills ==
    ASSUME OneState, bank # NoFile, NEW b, b # Escrow, NEW n \in Nat, CanMove(bank, Escrow, b, n),
           bank' = Moved(bank, Escrow, b, n)
    PROVE  BankFits' /\ Pocket' = [Pocket EXCEPT ![b] = @ + n] /\ b \in Account
BY PocketsChange

LEMMA StatesAre == StateOf = [k \in Code |-> StateOf[k]] /\ StateOf' = [k \in Code |-> StateOf'[k]]
BY DEF StateOf

\* A payment of a code, and the code's state after it.
LEMMA PaidOnceMore ==
    ASSUME NEW f \in [Code -> Nat], NEW k \in Code, f[k] = 0, NEW g, g = [f EXCEPT ![k] = @ + 1]
    PROVE  g[k] > 0 /\ \A j \in Code : j # k => g[j] = f[j]
<1>1. g[k] = 1
  OBVIOUS
<1> QED
  BY <1>1

\* The transfer that the client is about to save.
LEMMA TransferToSave ==
    ASSUME OneState, NEW c \in Client, pc[c] = "saveTransfer"
    PROVE  /\ req[c] \in CashRequest /\ req[c].op \in {"issue", "redeem", "cancel"} /\ req[c].acct # Escrow
           /\ Honest("saveTransfer", req[c]) /\ CodeOf("saveTransfer", req[c], codes) /\ cview[c] = codes
           /\ req[c].code \in Code /\ codes[req[c].code] \in CashRecord
           /\ codes[req[c].code].amount \in Nat /\ codes[req[c].code].issuer # Escrow
           /\ bank # NoFile
           /\ CanMove(bank, Payer(req[c]), Payee(req[c], codes[req[c].code]), codes[req[c].code].amount)
           /\ view[c] = Moved(bank, Payer(req[c]), Payee(req[c], codes[req[c].code]),
                              codes[req[c].code].amount)
<1>1. /\ req[c] \in CashRequest /\ req[c].acct # Escrow /\ Honest("saveTransfer", req[c])
      /\ FilesOf("saveTransfer", req[c], cview[c], view[c])
      /\ CodeOf("saveTransfer", req[c], cview[c])
  BY OneAt
<1>2. cview[c] = codes
  BY <1>1 DEF FilesOf
<1>3. req[c].op \in {"issue", "redeem", "cancel"}
  BY <1>1 DEF CashRequest
<1>4. req[c].code \in drawn \cup funded
  BY <1>1, <1>3 DEF CodeOf, Transferring
<1>5. req[c].code \in Code
  BY <1>4 DEF OneState, OneInv, CodesFit
<1>6. codes[req[c].code] # NoCode
  BY <1>1, <1>2, <1>3 DEF CodeOf, Transferring, OneState, OneInv, CodesFit
<1>7. codes[req[c].code] \in CashRecord /\ codes[req[c].code].issuer # Escrow
  BY <1>5, <1>6, CodesLoad DEF CashFile, OneState, OneInv, CodesFit, OfCustomers
<1>8. codes[req[c].code].amount \in Nat
  BY <1>7 DEF CashRecord
<1> QED
  BY <1>1, <1>2, <1>3, <1>5, <1>7, <1>8 DEF FilesOf

LEMMA OneFunds ==
    ASSUME OneState, NEW c \in Client, pc[c] = "saveTransfer", req[c].op = "issue",
           bank' = view[c], MoneyHasMoved(c), AfterTransfer(c), UNCHANGED <<codes, drawn, late>>
    PROVE  OneInv' /\ Promised!Next
<1>1. PICK r, k, n, f : r = req[c] /\ k = r.code /\ n = codes[k].amount /\ f = codes
  OBVIOUS
<1>2. /\ r \in CashRequest /\ r.op = "issue" /\ r.acct # Escrow /\ Honest("saveTransfer", r)
      /\ CodeOf("saveTransfer", r, f) /\ k \in Code /\ n \in Nat
  BY <1>1, TransferToSave
<1>3. k \in drawn \ funded /\ f[k] # NoCode /\ codes[k].issuer = r.acct
  BY <1>1, <1>2 DEF CodeOf, Transferring
<1>4. CanMove(bank, r.acct, Escrow, n) /\ bank' = Moved(bank, r.acct, Escrow, n) /\ bank # NoFile
  BY <1>1, <1>2, TransferToSave DEF Payer, Payee
<1>5. funded' = funded \cup {k} /\ UNCHANGED <<paid, refunded>>
  BY <1>1 DEF MoneyHasMoved
<1>6. paid \in [Code -> Nat] /\ refunded \in [Code -> Nat] /\ Untouched(k)
  <2>1. paid \in [Code -> Nat] /\ refunded \in [Code -> Nat]
    BY DEF OneState, CashInv, CashHistory
  <2>2. ~(paid[k] + refunded[k] > 0)
    BY <1>2, <1>3 DEF OneState, CashInv, CashHistory, PaidIsFunded
  <2>3. paid[k] \in Nat /\ refunded[k] \in Nat
    BY <1>2, <2>1
  <2> QED
    BY <2>1, <2>2, <2>3 DEF Untouched
<1>7. /\ BankFits' /\ Pocket' = [Pocket EXCEPT ![r.acct] = @ - n]
      /\ r.acct \in Account /\ n \in 1..Pocket[r.acct] /\ Pocket[r.acct] \in Nat
  BY <1>2, <1>4, PocketsChange
<1>8. Promised!Issue(k, r.acct, n)
  <2>1. StateOf[k] = "none" /\ StateOf' = [StateOf EXCEPT ![k] = "held"]
    <3>1. StateOf[k] = "none" /\ StateOf'[k] = "held"
      BY <1>2, <1>3, <1>5, <1>6 DEF StateOf, Untouched
    <3>2. ASSUME NEW j \in Code, j # k
          PROVE  StateOf'[j] = StateOf[j]
      BY <1>3, <1>5, <1>6, <3>2 DEF StateOf
    <3> QED
      BY <1>2, <3>1, <3>2, StatesAre
  <2>2. WorthOf' = [WorthOf EXCEPT ![k] = n]
    BY <1>1, <1>2, <1>5 DEF WorthOf
  <2>3. OwnerOf' = [OwnerOf EXCEPT ![k] = r.acct]
    BY <1>2, <1>3, <1>5 DEF OwnerOf
  <2>4. n > 0 /\ Pocket[r.acct] >= n
    BY <1>2, <1>7
  <2> QED
    BY <1>7, <2>1, <2>2, <2>3, <2>4 DEF Promised!Issue
<1>9. Promised!Next
  BY <1>2, <1>7, <1>8 DEF Promised!Next
<1>10. CodesFit'
  BY <1>1, <1>2, <1>3, <1>5 DEF OneState, OneInv, CodesFit, OfCustomers
<1>11. Honest("markEscrow", r)'
  BY <1>2, <1>5, <1>6 DEF Honest, Untouched
<1>12. PICK v : v = view[c]
  OBVIOUS
<1>13. OneClient("markEscrow", r, f, v)'
  BY <1>2, <1>11 DEF OneClient, FilesOf, CodeOf, Transferring
<1>14. Becomes(c, "markEscrow", r, f, v)
  <2>1. Goto(c, "markEscrow") /\ UNCHANGED <<req, view, cview>>
    BY DEF AfterTransfer
  <2>2. cview[c] = f
    BY <1>1, TransferToSave
  <2> QED
    BY <1>1, <1>12, <2>1, <2>2, OneGoes, OneKeeps, OneViews
<1> QED
  BY <1>7, <1>9, <1>10, <1>13, <1>14, OneBecame

LEMMA OnePays ==
    ASSUME OneState, NEW c \in Client, pc[c] = "saveTransfer", req[c].op = "redeem",
           bank' = view[c], MoneyHasMoved(c), AfterTransfer(c), UNCHANGED <<codes, drawn, late>>
    PROVE  OneInv' /\ Promised!Next
<1>1. PICK r, k, n, f : r = req[c] /\ k = r.code /\ n = codes[k].amount /\ f = codes
  OBVIOUS
<1>2. /\ r \in CashRequest /\ r.op = "redeem" /\ r.acct # Escrow /\ Honest("saveTransfer", r)
      /\ CodeOf("saveTransfer", r, f) /\ k \in Code /\ n \in Nat
  BY <1>1, TransferToSave
<1>3. k \in funded /\ Valid(codes, k)
  BY <1>1, <1>2 DEF CodeOf, Transferring
<1>4. CanMove(bank, Escrow, r.acct, n) /\ bank' = Moved(bank, Escrow, r.acct, n) /\ bank # NoFile
  BY <1>1, <1>2, TransferToSave DEF Payer, Payee
<1>5. paid' = [paid EXCEPT ![k] = @ + 1] /\ UNCHANGED <<funded, refunded>>
  BY <1>1 DEF MoneyHasMoved
<1>6. paid \in [Code -> Nat] /\ Untouched(k)
  BY <1>2, <1>3 DEF OneState, CashInv, CashHistory, Honest, Valid
<1>7. paid'[k] > 0 /\ \A j \in Code : j # k => paid'[j] = paid[j]
  <2>1. PICK g, h : g = paid /\ h = [paid EXCEPT ![k] = @ + 1]
    OBVIOUS
  <2>2. h[k] > 0 /\ \A j \in Code : j # k => h[j] = g[j]
    BY <1>2, <1>6, <2>1, PaidOnceMore DEF Untouched
  <2> QED
    BY <1>5, <2>1, <2>2
<1>8. BankFits' /\ Pocket' = [Pocket EXCEPT ![r.acct] = @ + n] /\ r.acct \in Account
  BY <1>2, <1>4, PocketFills
<1>9. Promised!Redeem(k, r.acct)
  <2>1. StateOf[k] = "held" /\ StateOf' = [StateOf EXCEPT ![k] = "paid"]
    <3>1. StateOf[k] = "held" /\ StateOf'[k] = "paid"
      BY <1>2, <1>3, <1>5, <1>6, <1>7 DEF StateOf, Untouched
    <3>2. ASSUME NEW j \in Code, j # k
          PROVE  StateOf'[j] = StateOf[j]
      BY <1>3, <1>5, <1>6, <1>7, <3>2 DEF StateOf
    <3> QED
      BY <1>2, <3>1, <3>2, StatesAre
  <2>2. UNCHANGED <<WorthOf, OwnerOf>> /\ WorthOf[k] = n
    BY <1>1, <1>2, <1>3, <1>5 DEF WorthOf, OwnerOf
  <2> QED
    BY <1>8, <2>1, <2>2 DEF Promised!Redeem, Promised!Leave
<1>10. Promised!Next
  BY <1>2, <1>8, <1>9 DEF Promised!Next
<1>11. CodesFit'
  BY <1>5 DEF OneState, OneInv, CodesFit, OfCustomers
<1>12. Honest("redeem", r)'
  <2>1. \A j \in funded : j # k => (Untouched(j)' <=> Untouched(j))
    BY <1>5, <1>7 DEF Untouched, OneState, OneInv, CodesFit
  <2> QED
    BY <1>1, <1>2, <1>5, <2>1 DEF Honest
<1>13. PICK v : v = view[c]
  OBVIOUS
<1>14. r.code \in funded' /\ Valid(codes, r.code)'
  BY <1>1, <1>3, <1>5 DEF Valid
<1>15. OneClient("redeem", r, f, v)'
  BY <1>2, <1>12, <1>14 DEF OneClient, FilesOf, CodeOf, Transferring
<1>16. Becomes(c, "redeem", r, f, v)
  <2>1. Goto(c, "redeem") /\ UNCHANGED <<req, view, cview>>
    BY DEF AfterTransfer
  <2>2. cview[c] = f
    BY <1>1, TransferToSave
  <2> QED
    BY <1>1, <1>13, <2>1, <2>2, OneGoes, OneKeeps, OneViews
<1> QED
  BY <1>8, <1>10, <1>11, <1>15, <1>16, OneBecame

LEMMA OneRefunds ==
    ASSUME OneState, NEW c \in Client, pc[c] = "saveTransfer", req[c].op = "cancel",
           bank' = view[c], MoneyHasMoved(c), AfterTransfer(c), UNCHANGED <<codes, drawn, late>>
    PROVE  OneInv' /\ Promised!Next
<1>1. PICK r, k, n, to : r = req[c] /\ k = r.code /\ n = codes[k].amount /\ to = codes[k].issuer
  OBVIOUS
<1>2. /\ r \in CashRequest /\ r.op = "cancel" /\ to # Escrow /\ Honest("saveTransfer", r)
      /\ CodeOf("saveTransfer", r, codes) /\ k \in Code /\ n \in Nat
  BY <1>1, TransferToSave
<1>3. k \in funded /\ Untouched(k) /\ codes[k].status # "active"
  BY <1>1, <1>2 DEF CodeOf, Transferring
<1>4. CanMove(bank, Escrow, to, n) /\ bank' = Moved(bank, Escrow, to, n) /\ bank # NoFile
  BY <1>1, <1>2, TransferToSave DEF Payer, Payee
<1>5. refunded' = [refunded EXCEPT ![k] = @ + 1] /\ UNCHANGED <<funded, paid>>
  BY <1>1, <1>2 DEF MoneyHasMoved
<1>6. paid \in [Code -> Nat] /\ refunded \in [Code -> Nat]
  BY DEF OneState, CashInv, CashHistory
<1>7. refunded'[k] > 0 /\ \A j \in Code : j # k => refunded'[j] = refunded[j]
  <2>1. PICK g, h : g = refunded /\ h = [refunded EXCEPT ![k] = @ + 1]
    OBVIOUS
  <2>2. h[k] > 0 /\ \A j \in Code : j # k => h[j] = g[j]
    BY <1>2, <1>3, <1>6, <2>1, PaidOnceMore DEF Untouched
  <2> QED
    BY <1>5, <2>1, <2>2
<1>8. BankFits' /\ Pocket' = [Pocket EXCEPT ![to] = @ + n] /\ to \in Account
  BY <1>2, <1>4, PocketFills
<1>9. Promised!Return(k)
  <2>1. StateOf[k] = "held" /\ StateOf' = [StateOf EXCEPT ![k] = "returned"]
    <3>1. StateOf[k] = "held" /\ StateOf'[k] = "returned"
      BY <1>2, <1>3, <1>5, <1>6, <1>7 DEF StateOf, Untouched
    <3>2. ASSUME NEW j \in Code, j # k
          PROVE  StateOf'[j] = StateOf[j]
      BY <1>3, <1>5, <1>6, <1>7, <3>2 DEF StateOf
    <3> QED
      BY <1>2, <3>1, <3>2, StatesAre
  <2>2. UNCHANGED <<WorthOf, OwnerOf>> /\ WorthOf[k] = n /\ OwnerOf[k] = to
    BY <1>1, <1>2, <1>3, <1>5 DEF WorthOf, OwnerOf
  <2> QED
    BY <1>8, <2>1, <2>2 DEF Promised!Return, Promised!Leave
<1>10. Promised!Next
  BY <1>2, <1>9 DEF Promised!Next
<1>11. CodesFit'
  BY <1>5 DEF OneState, OneInv, CodesFit, OfCustomers
<1>12. Honest("idle", NoRequest)'
  <2>1. \A j \in funded : j # k => (Untouched(j)' <=> Untouched(j))
    BY <1>5, <1>7 DEF Untouched, OneState, OneInv, CodesFit
  <2> QED
    BY <1>2, <1>3, <1>5, <2>1 DEF Honest
<1>13. OneClient("idle", NoRequest, NoCodes, EmptyBank)'
  BY <1>12 DEF OneClient
<1>14. Becomes(c, "idle", NoRequest, NoCodes, EmptyBank)
  <2>1. CashDone(c)
    BY DEF AfterTransfer
  <2> QED
    BY <2>1 DEF CashDone, Done, Goto, Becomes
<1> QED
  BY <1>8, <1>10, <1>11, <1>13, <1>14, OneBecame

LEMMA OneSavesTransfer ==
    ASSUME OneState, NEW c \in Client, SaveTransfer(c), UNCHANGED late
    PROVE  OneInv' /\ [Promised!Next]_(Promised!vars)
<1>1. pc[c] = "saveTransfer" /\ UNCHANGED <<codes, drawn, late>>
  BY DEF SaveTransfer
<1>2. bank' = view[c] /\ MoneyHasMoved(c) /\ AfterTransfer(c)
  BY DEF SaveTransfer, Save, SaveFails, MoneyHasMoved, OneState, OneByOne
<1>3. req[c].op \in {"issue", "redeem", "cancel"}
  BY <1>1, TransferToSave
<1> QED
  BY <1>1, <1>2, <1>3, OneFunds, OnePays, OneRefunds

-----------------------------------------------------------------------------

LEMMA OneNextKeeps ==
    ASSUME OneState, [Next]_vars
    PROVE  OneInv' /\ [Promised!Next]_(Promised!vars)
<1>1. ASSUME NEW c \in Client, Step(c), UNCHANGED late
      PROVE  OneInv' /\ [Promised!Next]_(Promised!vars)
  <2>1. CASE SaveMark(c) \/ SaveUndo(c)
    <3>1. /\ pc[c] \in {"saveMark", "saveUndo"} /\ UNCHANGED <<bank, history>>
          /\ SaveCodes(c) \/ SaveCodesFails
          /\ CashDone(c)
      BY <2>1 DEF SaveMark, SaveUndo
    <3> QED
      BY <1>1, <3>1, OneWritesLast
  <2>2. CASE SaveTransfer(c)
    BY <1>1, <2>2, OneSavesTransfer
  <2>3. CASE ~(SaveMark(c) \/ SaveUndo(c) \/ SaveTransfer(c))
    <3>1. OneInv' /\ UNCHANGED Promised!vars
      BY <1>1, <2>3, OneAsks, OneSeeds, OneEnsures, OneSavesEscrow, OneIssues, OneSavesIssue, OneMarks,
         OneUndoes, OneTransfers, OneVerifies, OneRedeems, OneSavesRedeem, OneMarksPaid, OneCancels,
         OneSavesCancel DEF Step
    <3> QED
      BY <3>1
  <2> QED
    BY <2>1, <2>2, <2>3
<1>2. CASE Expire
  <2>1. \A c \in Client : pc[c] = "idle"
    BY <1>2 DEF Expire, OneState, OneByOne
  <2>2. UNCHANGED <<bank, pc, req, view, codes, cview, history>>
    BY <1>2 DEF Expire, bankVars
  <2>3. BankFits' /\ CodesFit'
    BY <2>2 DEF OneState, OneInv, BankFits, CodesFit, OfCustomers, history
  <2>4. \A c \in Client : OneClient(pc[c], req[c], cview[c], view[c])'
    BY <2>1, <2>2 DEF OneState, OneInv, OneClient, Honest, Untouched, history
  <2>5. UNCHANGED Promised!vars
    BY <2>2, NothingMoves, SameBank DEF history
  <2> QED
    BY <2>2, <2>3, <2>4, <2>5 DEF OneState, OneInv
<1>3. CASE CashStop
  BY <1>3 DEF CashStop, Stop, OneState, OneByOne
<1>4. CASE UNCHANGED vars
  <2>1. FilesStay /\ UNCHANGED <<drawn, pc, req, view, cview>>
    BY <1>4 DEF vars, bankVars, cashVars, history, FilesStay
  <2>2. ASSUME NEW c \in Client
        PROVE  OneClient(pc[c], req[c], cview[c], view[c])'
    <3>1. PICK step, r, f, v : step = pc[c] /\ r = req[c] /\ f = cview[c] /\ v = view[c]
      OBVIOUS
    <3>2. OneClient(step, r, f, v)
      BY <3>1 DEF OneState, OneInv
    <3>3. OneClient(step, r, f, v)'
      BY <2>1, <3>2, OneStays
    <3>4. pc'[c] = step /\ req'[c] = r /\ cview'[c] = f /\ view'[c] = v
      BY <2>1, <3>1
    <3> QED
      BY <3>3, <3>4
  <2> QED
    BY <2>1, <2>2, FilesStayFit DEF OneState, OneInv
<1> QED
  BY <1>1, <1>2, <1>3, <1>4 DEF Next

\* A cash code is one-time (ledger/cashcode.go, bridge/cashcode.go): as long as
\* requests do not overlap, none is cut halfway, and they name accounts of
\* customers, issuing, redeeming, cancelling and expiring codes in two files
\* implements a code whose money leaves its issuer once, and reaches one account
\* once.  The order of the two writes of a request is hidden by the mapping.
THEOREM CashCodesAreOneTime == ASSUME CashAssumption, OneByOne PROVE Spec => Promised!Spec
<1>1. Init => OneInv /\ Promised!Init
  BY OneInitKeeps
<1>2. CashInv /\ OneInv /\ [Next]_vars => OneInv' /\ [Promised!Next]_(Promised!vars)
  BY OneNextKeeps DEF OneState
<1>3. Spec => []CashInv
  BY CashInvariant
<1> QED
  BY <1>1, <1>2, <1>3, PTL DEF Spec, Promised!Spec

-----------------------------------------------------------------------------
(***************************************************************************)
(* The escrow account holds the money of the codes in it, and when no      *)
(* request is under way those are the codes that are active and marked.    *)
(***************************************************************************)

InEscrow(k) == k \in funded /\ Untouched(k)
EscrowOf == [k \in Code |-> IF InEscrow(k) THEN codes[k].amount ELSE 0]

\* The account has that money, and can be emptied of it: every issuer's account
\* is there, in the currency of the escrow account.
EscrowBacked ==
    /\ funded # {} => bank # NoFile /\ bank[Escrow] # NoAccount
    /\ bank # NoFile /\ bank[Escrow] # NoAccount => bank[Escrow].bal = SumFunction(EscrowOf)
    /\ \A k \in funded :
          Exists(bank, codes[k].issuer) /\ bank[codes[k].issuer].currency = bank[Escrow].currency

\* A file that calls active and marked the codes in escrow.
Kept(f, except) ==
    \A k \in funded : Untouched(k) /\ k \notin except => f[k].status = "active" /\ f[k].escrowed = TRUE

\* The code whose money has moved and whose mark has not been saved, or the
\* other way around.
Unmarked(step, r) ==
    IF step \in {"markEscrow", "refund"}
       \/ (step = "saveMark" /\ r.op = "issue") \/ (step = "saveTransfer" /\ r.op = "cancel")
    THEN {r.code} ELSE {}

EscrowClient(step, r, f, v) ==
    /\ Kept(codes, Unmarked(step, r))
    /\ step \in {"saveIssue", "saveMark", "saveUndo", "saveRedeem"} => Kept(f, {})
    /\ step = "saveCancel" => Kept(f, {r.code}) /\ (InEscrow(r.code) => f[r.code].escrowed = TRUE)
    /\ step = "saveEscrow" => bank[Escrow] = NoAccount /\ v[Escrow].bal = 0
    /\ step = "saveIssue" => f[r.code].status = "active"
    /\ step \in {"fund", "markEscrow"} \/ (step = "saveTransfer" /\ r.op = "issue") =>
          codes[r.code].status = "active"
    /\ step = "undo" => r.code \notin funded
    /\ step = "redeem" => ~InEscrow(r.code)

EscrowInv ==
    /\ Client = {} => bank = NoFile
    /\ EscrowBacked
    /\ \A c \in Client : EscrowClient(pc[c], req[c], cview[c], view[c])

EscrowState == IsFiniteSet(Code) /\ OneState /\ EscrowInv

LEMMA InitEscrow ==
    ASSUME Init
    PROVE  EscrowInv
<1>1. EscrowBacked
  BY DEF Init, BankInit, EscrowBacked
<1>2. \A c \in Client : EscrowClient(pc[c], req[c], cview[c], view[c])
  BY DEF Init, BankInit, EscrowClient, Kept
<1> QED
  BY <1>1, <1>2 DEF Init, BankInit, EscrowInv

LEMMA EscrowBecame ==
    ASSUME EscrowState, NEW c \in Client, NEW step, NEW r, NEW f, NEW v, Becomes(c, step, r, f, v),
           EscrowBacked', EscrowClient(step, r, f, v)'
    PROVE  EscrowInv'
<1>1. pc'[c] = step /\ req'[c] = r /\ cview'[c] = f /\ view'[c] = v
  BY DEF Becomes, EscrowState, OneState, OneInv, CashInv
<1>2. \A d \in Client : d = c
  BY DEF EscrowState, OneState, OneByOne
<1> QED
  BY <1>1, <1>2 DEF EscrowInv

LEMMA BackedStays ==
    ASSUME EscrowState, UNCHANGED <<bank, codes, funded, paid, refunded>>
    PROVE  EscrowBacked'
<1>1. EscrowOf' = EscrowOf
  BY DEF EscrowOf, InEscrow, Untouched
<1> QED
  BY <1>1 DEF EscrowState, EscrowInv, EscrowBacked, Exists

LEMMA ClientKeeps ==
    ASSUME UNCHANGED <<bank, codes, funded, paid, refunded>>, NEW step, NEW r, NEW f, NEW v,
           EscrowClient(step, r, f, v)
    PROVE  EscrowClient(step, r, f, v)'
BY DEF EscrowClient, Kept, InEscrow, Untouched, Unmarked

\* A step that changes neither file.
LEMMA EscrowStep ==
    ASSUME EscrowState, NEW c \in Client, NEW step, NEW r, NEW f, NEW v, Becomes(c, step, r, f, v),
           FilesStay, EscrowClient(step, r, f, v)
    PROVE  EscrowInv'
BY BackedStays, ClientKeeps, EscrowBecame DEF FilesStay

\* The request of the client at a step.
LEMMA EscrowAt ==
    ASSUME EscrowState, NEW c \in Client
    PROVE  OneState /\ EscrowClient(pc[c], req[c], cview[c], view[c]) /\ EscrowBacked /\ IsFiniteSet(Code)
BY DEF EscrowState, EscrowInv

LEMMA KeptIsKnown ==
    ASSUME NEW step, NEW r, NEW f, NEW v,
           step \in {"idle", "seed", "escrow", "issue", "verify", "pay", "cancel", "markRedeemed"},
           Kept(codes, {})
    PROVE  EscrowClient(step, r, f, v)
BY DEF EscrowClient, Unmarked

\* Nothing is on its way at most steps.
LEMMA NothingUnmarked ==
    ASSUME EscrowState, NEW c \in Client,
           pc[c] \notin {"markEscrow", "saveMark", "refund", "saveTransfer"}
    PROVE  Kept(codes, {})
BY EscrowAt DEF EscrowClient, Unmarked

LEMMA EscrowEnds ==
    ASSUME EscrowState, NEW c \in Client, CashDone(c), FilesStay, Kept(codes, {})
    PROVE  EscrowInv'
<1>1. Becomes(c, "idle", NoRequest, NoCodes, EmptyBank)
  BY DEF CashDone, Done, Goto, Becomes
<1> QED
  BY <1>1, KeptIsKnown, EscrowStep

LEMMA EscrowCopies ==
    ASSUME EscrowState, NEW c \in Client, NEW found, NEW new, NEW label, Copy(c, found, new, label),
           UNCHANGED late, Kept(codes, {}), found => EscrowClient(label, req[c], new, view[c])
    PROVE  EscrowInv'
<1>1. FilesStay /\ OneState
  BY EscrowAt DEF Copy, FilesStay, history
<1>2. CASE found
  <2>1. cview' = [cview EXCEPT ![c] = new] /\ Goto(c, label) /\ UNCHANGED <<req, view>>
    BY <1>1, <1>2, CodesLoad DEF Copy
  <2>2. Becomes(c, label, req[c], new, view[c])
    BY <1>1, <2>1, OneGoes, OneViews
  <2> QED
    BY <1>1, <1>2, <2>2, EscrowStep
<1>3. CASE ~found
  <2>1. CashDone(c)
    BY <1>3 DEF Copy
  <2> QED
    BY <1>1, <2>1, EscrowEnds
<1> QED
  BY <1>2, <1>3

-----------------------------------------------------------------------------
(* The steps that change neither file *)

LEMMA EscrowAsks ==
    ASSUME EscrowState, NEW c \in Client, Ask(c), UNCHANGED late
    PROVE  EscrowInv'
<1>1. PICK r \in CashRequests, step \in {"cancel", "seed", "escrow"} :
         req' = [req EXCEPT ![c] = r] /\ pc' = [pc EXCEPT ![c] = step]
  BY DEF Ask, Goto
<1>2. FilesStay /\ UNCHANGED <<cview, view>> /\ pc[c] = "idle" /\ OneState
  BY EscrowAt DEF Ask, FilesStay, history
<1>3. Becomes(c, step, r, cview[c], view[c])
  BY <1>1, <1>2, OneKeeps, OneViews DEF Becomes
<1>4. EscrowClient(step, r, cview[c], view[c])
  BY <1>2, NothingUnmarked, KeptIsKnown
<1> QED
  BY <1>2, <1>3, <1>4, EscrowStep

LEMMA EscrowEnsures ==
    ASSUME EscrowState, NEW c \in Client, EnsureEscrow(c), UNCHANGED late
    PROVE  EscrowInv'
<1>1. pc[c] = "escrow" /\ FilesStay /\ CanLoad /\ OneState
  BY EscrowAt, CodesLoad DEF EnsureEscrow, FilesStay, history
<1>2. bank # NoFile /\ Kept(codes, {})
  BY <1>1, OneAt, NothingUnmarked DEF FilesOf
<1>3. CASE Goto(c, AfterEscrow(req[c])) /\ UNCHANGED <<view, req, cview>>
  <2>1. AfterEscrow(req[c]) \in {"issue", "verify"}
    BY DEF AfterEscrow
  <2>2. Becomes(c, AfterEscrow(req[c]), req[c], cview[c], view[c])
    BY <1>1, <1>3, OneGoes, OneKeeps, OneViews
  <2>3. EscrowClient(AfterEscrow(req[c]), req[c], cview[c], view[c])
    BY <1>2, <2>1, KeptIsKnown
  <2> QED
    BY <1>1, <2>2, <2>3, EscrowStep
<1>4. CASE /\ view' = [view EXCEPT ![c] = WithSystemAccount(Loaded, Escrow, EscrowCurrency(req[c]))]
           /\ ~Exists(Loaded, Escrow) /\ Goto(c, "saveEscrow") /\ UNCHANGED <<req, cview>>
  <2>1. PICK v : v = WithSystemAccount(Loaded, Escrow, EscrowCurrency(req[c]))
    OBVIOUS
  <2>2. Loaded = bank /\ bank \in BankFile /\ Escrow \in Account
    BY <1>1, <1>2 DEF Loaded, OneState, OneInv, BankFits, CashAssumption
  <2>3. bank[Escrow] = NoAccount /\ v[Escrow].bal = 0
    BY <1>4, <2>1, <2>2 DEF WithSystemAccount, BankFile, Exists
  <2>4. Becomes(c, "saveEscrow", req[c], cview[c], v)
    BY <1>1, <1>4, <2>1, OneGoes, OneKeeps
  <2>5. EscrowClient("saveEscrow", req[c], cview[c], v)
    BY <1>2, <2>3 DEF EscrowClient, Unmarked
  <2> QED
    BY <1>1, <2>4, <2>5, EscrowStep
<1> QED
  BY <1>1, <1>3, <1>4 DEF EnsureEscrow

LEMMA EscrowIssues ==
    ASSUME EscrowState, NEW c \in Client, Issue(c), UNCHANGED late
    PROVE  EscrowInv'
<1>1. pc[c] = "issue" /\ FilesStay /\ OneState /\ Kept(codes, {})
  <2>1. pc[c] = "issue" /\ FilesStay /\ OneState
    BY EscrowAt DEF Issue, FilesStay
  <2> QED
    BY <2>1, NothingUnmarked
<1>2. CASE CashDone(c)
  BY <1>1, <1>2, EscrowEnds
<1>3. ASSUME NEW k \in Code \ drawn, req' = [req EXCEPT ![c].code = k],
             cview' = [cview EXCEPT ![c] = Issued(codes, req'[c])], Goto(c, "saveIssue"), UNCHANGED view
      PROVE  EscrowInv'
  <2>1. PICK r : r = req'[c]
    OBVIOUS
  <2>2. req[c] \in CashRequest /\ req = [d \in Client |-> req[d]]
    BY <1>1, OneAt DEF OneState, CashInv
  <2>3. req' = [req EXCEPT ![c] = r] /\ r.code = k
    BY <1>3, <2>1, <2>2 DEF CashRequest
  <2>4. PICK f : f = Issued(codes, r)
    OBVIOUS
  <2>5. Becomes(c, "saveIssue", r, f, view[c])
    BY <1>1, <1>3, <2>1, <2>3, <2>4, OneViews DEF Becomes, Goto
  <2>6. \A j \in funded : j # k
    BY <1>1 DEF OneState, OneInv, CodesFit
  <2>7. codes \in CashFile
    BY <1>1, CodesLoad
  <2>8. f[k].status = "active" /\ \A j \in Code : j # k => f[j] = codes[j]
    BY <2>3, <2>4, <2>7 DEF Issued, CashFile
  <2>9. funded \subseteq Code
    BY <1>1 DEF OneState, OneInv, CodesFit
  <2>10. Kept(f, {})
    BY <1>1, <2>6, <2>8, <2>9 DEF Kept
  <2>11. EscrowClient("saveIssue", r, f, view[c])
    BY <1>1, <2>3, <2>8, <2>10 DEF EscrowClient, Unmarked
  <2> QED
    BY <1>1, <2>5, <2>11, EscrowStep
<1> QED
  BY <1>2, <1>3 DEF Issue

LEMMA EscrowVerifies ==
    ASSUME EscrowState, NEW c \in Client, Verify(c), UNCHANGED late
    PROVE  EscrowInv'
<1>1. pc[c] = "verify" /\ Kept(codes, {})
  BY NothingUnmarked DEF Verify
<1>2. PICK found : found = (CanLoad /\ Exists(Loaded, req[c].acct) /\ Valid(codes, req[c].code))
  OBVIOUS
<1>3. Copy(c, found, codes, "pay")
  BY <1>2 DEF Verify
<1>4. EscrowClient("pay", req[c], codes, view[c])
  BY <1>1, KeptIsKnown
<1> QED
  BY <1>1, <1>3, <1>4, EscrowCopies

\* A code that changes its status or a mark, or is none of the file's.
LEMMA StatusOnly ==
    ASSUME OneState, NEW k, NEW s
    PROVE  \A j \in Code :
              /\ j # k => [codes EXCEPT ![k].status = s][j] = codes[j]
              /\ codes[j] # NoCode => ([codes EXCEPT ![k].status = s][j].escrowed = codes[j].escrowed)
<1>1. PICK f : f = codes
  OBVIOUS
<1>2. f \in CashFile
  BY <1>1, CodesLoad
<1>3. ASSUME NEW j \in Code
      PROVE  /\ j # k => [f EXCEPT ![k].status = s][j] = f[j]
             /\ f[j] # NoCode => ([f EXCEPT ![k].status = s][j].escrowed = f[j].escrowed)
  <2>1. f[j] # NoCode => f[j] \in CashRecord
    BY <1>2 DEF CashFile
  <2>2. CASE j # k
    BY <1>2, <2>2 DEF CashFile
  <2>3. CASE j = k
    <3>1. [f EXCEPT ![k].status = s][j] = [f[j] EXCEPT !.status = s]
      BY <1>2, <2>3 DEF CashFile
    <3>2. f[j] \in CashRecord => ([f[j] EXCEPT !.status = s].escrowed = f[j].escrowed)
      BY DEF CashRecord
    <3> QED
      BY <2>1, <2>3, <3>1, <3>2
  <2> QED
    BY <2>2, <2>3
<1> QED
  BY <1>1, <1>3

LEMMA EscrowedRecord ==
    ASSUME NEW rec \in CashRecord, NEW v
    PROVE  /\ [rec EXCEPT !.escrowed = v].status = rec.status
           /\ [rec EXCEPT !.escrowed = v].escrowed = v
           /\ [rec EXCEPT !.collected = v].status = rec.status
           /\ [rec EXCEPT !.collected = v].escrowed = rec.escrowed
<1>1. rec = [amount |-> rec.amount, currency |-> rec.currency, issuer |-> rec.issuer,
             status |-> rec.status, escrowed |-> rec.escrowed, collected |-> rec.collected]
  BY DEF CashRecord
<1>2. PICK u, w : u = [rec EXCEPT !.escrowed = v] /\ w = [rec EXCEPT !.collected = v]
  OBVIOUS
<1>3. /\ u = [amount |-> rec.amount, currency |-> rec.currency, issuer |-> rec.issuer,
              status |-> rec.status, escrowed |-> v, collected |-> rec.collected]
      /\ w = [amount |-> rec.amount, currency |-> rec.currency, issuer |-> rec.issuer,
              status |-> rec.status, escrowed |-> rec.escrowed, collected |-> v]
  BY <1>1, <1>2, RecordMarks, Zenon
<1>4. u.status = rec.status /\ u.escrowed = v
  BY <1>3, Zenon
<1>5. w.status = rec.status /\ w.escrowed = rec.escrowed
  BY <1>3, Zenon
<1> QED
  BY <1>2, <1>4, <1>5, Zenon

LEMMA MarksOnly ==
    ASSUME OneState, NEW k
    PROVE  \A j \in funded :
              /\ MarkRedeemed(codes, k)[j].status = codes[j].status
              /\ MarkRedeemed(codes, k)[j].escrowed = codes[j].escrowed
              /\ MarkEscrow(codes, k)[j].status = codes[j].status
              /\ j # k => MarkEscrow(codes, k)[j].escrowed = codes[j].escrowed
              /\ j = k => MarkEscrow(codes, k)[j].escrowed = TRUE
<1>1. ASSUME NEW j \in funded
      PROVE  /\ MarkRedeemed(codes, k)[j].status = codes[j].status
             /\ MarkRedeemed(codes, k)[j].escrowed = codes[j].escrowed
             /\ MarkEscrow(codes, k)[j].status = codes[j].status
             /\ j # k => MarkEscrow(codes, k)[j].escrowed = codes[j].escrowed
             /\ j = k => MarkEscrow(codes, k)[j].escrowed = TRUE
  <2>1. codes \in CashFile /\ j \in Code /\ codes[j] # NoCode
    BY CodesLoad DEF OneState, OneInv, CodesFit
  <2>2. codes[j] \in CashRecord
    BY <2>1 DEF CashFile
  <2>3. CASE j # k
    <3>1. MarkRedeemed(codes, k)[j] = codes[j] /\ MarkEscrow(codes, k)[j] = codes[j]
      BY <2>1, <2>3 DEF CashFile, MarkRedeemed, MarkEscrow
    <3> QED
      BY <2>3, <3>1, Zenon
  <2>4. CASE j = k
    <3>1. /\ MarkRedeemed(codes, k)[j] = [codes[j] EXCEPT !.collected = TRUE]
          /\ MarkEscrow(codes, k)[j] = [codes[j] EXCEPT !.escrowed = TRUE]
      BY <2>1, <2>4 DEF CashFile, MarkRedeemed, MarkEscrow
    <3>2. PICK rec : rec = codes[j]
      OBVIOUS
    <3>3. rec \in CashRecord
      BY <2>2, <3>2
    <3>4. /\ [rec EXCEPT !.escrowed = TRUE].status = rec.status
          /\ [rec EXCEPT !.escrowed = TRUE].escrowed = TRUE
          /\ [rec EXCEPT !.collected = TRUE].status = rec.status
          /\ [rec EXCEPT !.collected = TRUE].escrowed = rec.escrowed
      BY <3>3, EscrowedRecord, Zenon
    <3> QED
      BY <2>4, <3>1, <3>2, <3>4, Zenon
  <2> QED
    BY <2>3, <2>4, Zenon
<1> QED
  BY <1>1, Zenon

LEMMA EscrowMarks ==
    ASSUME EscrowState, NEW c \in Client, Mark(c), UNCHANGED late
    PROVE  EscrowInv'
<1>1. pc[c] = "markEscrow" /\ FilesStay /\ OneState
  BY EscrowAt DEF Mark, FilesStay, history
<1>2. PICK r, f : r = req[c] /\ f = MarkEscrow(codes, r.code)
  OBVIOUS
<1>3. CashClient("markEscrow", r) /\ EscrowClient("markEscrow", r, cview[c], view[c])
  BY <1>1, <1>2, OneAt, EscrowAt
<1>4. r.op = "issue"
  BY <1>3 DEF CashClient, CashSteps, CashRequest
<1>5. r.code \in funded /\ codes[r.code] # NoCode
  BY <1>1, <1>3, <1>4 DEF CashClient, OneState, OneInv, CodesFit
<1>6. codes[r.code].status = "active" /\ Kept(codes, {r.code})
  BY <1>3 DEF EscrowClient, Unmarked
<1>7. Kept(f, {})
  <2> SUFFICES ASSUME NEW j \in funded, Untouched(j)
               PROVE  f[j].status = "active" /\ f[j].escrowed = TRUE
    BY DEF Kept
  <2>1. CASE j = r.code
    BY <1>1, <1>2, <1>6, <2>1, MarksOnly, Zenon
  <2>2. CASE j # r.code
    <3>1. codes[j].status = "active" /\ codes[j].escrowed = TRUE
      BY <1>6, <2>2 DEF Kept
    <3> QED
      BY <1>1, <1>2, <2>2, <3>1, MarksOnly, Zenon
  <2> QED
    BY <2>1, <2>2
<1>8. EscrowClient("saveMark", r, f, view[c])
  BY <1>4, <1>6, <1>7 DEF EscrowClient, Unmarked
<1>9. UNCHANGED <<req, view>> /\ cview' = [cview EXCEPT ![c] = f] /\ Goto(c, "saveMark")
  <2>1. CanLoadCodes
    BY <1>1, CodesLoad
  <2> QED
    BY <1>2, <1>5, <2>1 DEF Mark
<1>10. Becomes(c, "saveMark", r, f, view[c])
  BY <1>1, <1>2, <1>9, OneGoes, OneViews
<1> QED
  BY <1>1, <1>8, <1>10, EscrowStep

LEMMA EscrowMarksPaid ==
    ASSUME EscrowState, NEW c \in Client, MarkPaid(c), UNCHANGED late
    PROVE  EscrowInv'
<1>1. PICK r, f : r = req[c] /\ f = MarkRedeemed(codes, r.code)
  OBVIOUS
<1>2. pc[c] = "markRedeemed" /\ Copy(c, codes[r.code] # NoCode, f, "saveMark")
  BY <1>1 DEF MarkPaid
<1>3. Kept(codes, {}) /\ OneState /\ CashClient("markRedeemed", r)
  BY <1>1, <1>2, NothingUnmarked, EscrowAt, OneAt
<1>4. r.op = "redeem"
  BY <1>3 DEF CashClient, CashSteps, CashRequest
<1>5. Kept(f, {})
  <2> SUFFICES ASSUME NEW j \in funded, Untouched(j)
               PROVE  f[j].status = "active" /\ f[j].escrowed = TRUE
    BY DEF Kept
  <2>1. codes[j].status = "active" /\ codes[j].escrowed = TRUE
    BY <1>3 DEF Kept
  <2> QED
    BY <1>1, <1>3, <2>1, MarksOnly, Zenon
<1>6. EscrowClient("saveMark", req[c], f, view[c])
  BY <1>1, <1>3, <1>4, <1>5 DEF EscrowClient, Unmarked
<1> QED
  BY <1>2, <1>3, <1>6, EscrowCopies

\* The status of a code that is not in escrow, or of one whose money is to
\* follow, changes.
LEMMA KeptButOne ==
    ASSUME OneState, Kept(codes, {}), NEW k, NEW s, NEW f, f = [codes EXCEPT ![k].status = s]
    PROVE  /\ Kept(f, {k}) /\ (~InEscrow(k) => Kept(f, {}))
           /\ InEscrow(k) => f[k].escrowed = TRUE
<1>1. \A j \in funded : j \in Code /\ codes[j] # NoCode
  BY DEF OneState, OneInv, CodesFit
<1>2. \A j \in funded : j # k => f[j] = codes[j]
  BY <1>1, StatusOnly
<1>3. Kept(f, {k}) /\ (~InEscrow(k) => Kept(f, {}))
  BY <1>2 DEF Kept, InEscrow
<1>4. ASSUME InEscrow(k)
      PROVE  f[k].escrowed = TRUE
  <2>1. k \in funded /\ codes[k].escrowed = TRUE
    BY <1>4 DEF Kept, InEscrow
  <2>2. codes[k] # NoCode /\ k \in Code
    BY <1>1, <2>1
  <2>3. \A j \in Code : codes[j] # NoCode => ([codes EXCEPT ![k].status = s][j].escrowed = codes[j].escrowed)
    BY StatusOnly
  <2>4. f[k].escrowed = codes[k].escrowed
    BY <2>2, <2>3, Zenon
  <2> QED
    BY <2>1, <2>4, Zenon
<1> QED
  BY <1>3, <1>4

LEMMA EscrowRedeems ==
    ASSUME EscrowState, NEW c \in Client, Redeem(c), UNCHANGED late
    PROVE  EscrowInv'
<1>1. PICK r, f : r = req[c] /\ f = Redeemed(codes, r.code)
  OBVIOUS
<1>2. pc[c] = "redeem" /\ Copy(c, Valid(codes, r.code), f, "saveRedeem")
  BY <1>1 DEF Redeem
<1>3. Kept(codes, {}) /\ OneState /\ ~InEscrow(r.code)
  BY <1>1, <1>2, NothingUnmarked, EscrowAt DEF EscrowClient
<1>4. Kept(f, {})
  BY <1>1, <1>3, KeptButOne DEF Redeemed
<1>5. EscrowClient("saveRedeem", req[c], f, view[c])
  BY <1>1, <1>3, <1>4 DEF EscrowClient, Unmarked
<1> QED
  BY <1>2, <1>3, <1>5, EscrowCopies

LEMMA EscrowUndoes ==
    ASSUME EscrowState, NEW c \in Client, Undo(c), UNCHANGED late
    PROVE  EscrowInv'
<1>1. PICK r, f : r = req[c] /\ f = Cancelled(codes, r.code)
  OBVIOUS
<1>2. pc[c] = "undo" /\ Copy(c, CanCancel(codes, r.code), f, "saveUndo")
  BY <1>1 DEF Undo
<1>3. Kept(codes, {}) /\ OneState /\ ~InEscrow(r.code)
  BY <1>1, <1>2, NothingUnmarked, EscrowAt DEF EscrowClient, InEscrow
<1>4. Kept(f, {})
  BY <1>1, <1>3, KeptButOne DEF Cancelled
<1>5. EscrowClient("saveUndo", req[c], f, view[c])
  BY <1>1, <1>3, <1>4 DEF EscrowClient, Unmarked
<1> QED
  BY <1>2, <1>3, <1>5, EscrowCopies

LEMMA EscrowCancels ==
    ASSUME EscrowState, NEW c \in Client, Cancel(c), UNCHANGED late
    PROVE  EscrowInv'
<1>1. PICK r, f : r = req[c] /\ f = Cancelled(codes, r.code)
  OBVIOUS
<1>2. pc[c] = "cancel" /\ Copy(c, CanCancel(codes, r.code), f, "saveCancel")
  BY <1>1 DEF Cancel
<1>3. Kept(codes, {}) /\ OneState
  BY <1>2, NothingUnmarked, EscrowAt
<1>4. Kept(f, {r.code}) /\ (InEscrow(r.code) => f[r.code].escrowed = TRUE)
  BY <1>1, <1>3, KeptButOne DEF Cancelled
<1>5. EscrowClient("saveCancel", req[c], f, view[c])
  BY <1>1, <1>3, <1>4 DEF EscrowClient, Unmarked
<1> QED
  BY <1>2, <1>3, <1>5, EscrowCopies

-----------------------------------------------------------------------------
(* The steps that save the codes *)

LEMMA EscrowWrites ==
    ASSUME EscrowState, NEW c \in Client, UNCHANGED <<bank, late, history>>,
           pc[c] \in {"saveIssue", "saveMark", "saveUndo", "saveRedeem", "saveCancel"},
           SaveCodes(c) \/ SaveCodesFails
    PROVE  /\ codes' = cview[c] /\ EscrowBacked'
           /\ \A except : Kept(cview[c], except) => Kept(codes, except)'
<1>1. OneState /\ EscrowBacked
  BY EscrowAt
<1>2. codes' = cview[c] /\ Fits(cview[c])
  BY <1>1, OneWrites
<1>3. funded' = funded /\ \A k : Untouched(k)' <=> Untouched(k)
  BY DEF history, Untouched
<1>4. \A k \in funded : codes'[k].amount = codes[k].amount /\ codes'[k].issuer = codes[k].issuer
  BY <1>2 DEF Fits
<1>5. EscrowOf' = EscrowOf
  BY <1>3, <1>4 DEF EscrowOf, InEscrow
<1>6. EscrowBacked'
  BY <1>1, <1>3, <1>4, <1>5 DEF EscrowBacked, Exists
<1>7. \A except : Kept(cview[c], except) => Kept(codes, except)'
  BY <1>2, <1>3 DEF Kept
<1> QED
  BY <1>2, <1>6, <1>7

LEMMA EscrowWritesLast ==
    ASSUME EscrowState, NEW c \in Client, UNCHANGED <<bank, late, history>>,
           pc[c] \in {"saveIssue", "saveMark", "saveUndo", "saveRedeem", "saveCancel"},
           SaveCodes(c) \/ SaveCodesFails, CashDone(c), Kept(cview[c], {})
    PROVE  EscrowInv'
<1>1. Becomes(c, "idle", NoRequest, NoCodes, EmptyBank)
  BY DEF CashDone, Done, Goto, Becomes
<1>2. Kept(codes, {})' /\ EscrowBacked'
  BY EscrowWrites
<1>3. EscrowClient("idle", NoRequest, NoCodes, EmptyBank)'
  BY <1>2 DEF EscrowClient, Unmarked
<1> QED
  BY <1>1, <1>2, <1>3, EscrowBecame

LEMMA EscrowSavesMark ==
    ASSUME EscrowState, NEW c \in Client, SaveMark(c) \/ SaveUndo(c), UNCHANGED late
    PROVE  EscrowInv'
<1>1. /\ pc[c] \in {"saveMark", "saveUndo"} /\ UNCHANGED <<bank, late, history>>
      /\ SaveCodes(c) \/ SaveCodesFails
      /\ CashDone(c)
  BY DEF SaveMark, SaveUndo
<1>2. Kept(cview[c], {})
  BY <1>1, EscrowAt DEF EscrowClient
<1> QED
  BY <1>1, <1>2, EscrowWritesLast

LEMMA EscrowSavesIssue ==
    ASSUME EscrowState, NEW c \in Client, SaveIssue(c), UNCHANGED late
    PROVE  EscrowInv'
<1>1. pc[c] = "saveIssue" /\ UNCHANGED <<bank, late, history>> /\ (SaveCodes(c) \/ SaveCodesFails)
  BY DEF SaveIssue
<1>2. Goto(c, "fund") /\ UNCHANGED <<req, view, cview>> /\ OneState
  BY EscrowAt DEF SaveIssue, SaveCodesFails, OneState, OneByOne
<1>3. PICK r, f, v : r = req[c] /\ f = cview[c] /\ v = view[c]
  OBVIOUS
<1>4. Kept(f, {}) /\ f[r.code].status = "active"
  BY <1>1, <1>3, EscrowAt DEF EscrowClient
<1>5. codes' = f /\ Kept(codes, {})' /\ EscrowBacked'
  BY <1>1, <1>3, <1>4, EscrowWrites
<1>6. EscrowClient("fund", r, f, v)'
  BY <1>4, <1>5 DEF EscrowClient, Unmarked
<1>7. Becomes(c, "fund", r, f, v)
  BY <1>2, <1>3, OneGoes, OneKeeps, OneViews
<1> QED
  BY <1>5, <1>6, <1>7, EscrowBecame

LEMMA EscrowSavesRedeem ==
    ASSUME EscrowState, NEW c \in Client, SaveRedeem(c), UNCHANGED late
    PROVE  EscrowInv'
<1>1. pc[c] = "saveRedeem" /\ UNCHANGED <<bank, late, history>> /\ (SaveCodes(c) \/ SaveCodesFails)
  BY DEF SaveRedeem
<1>2. Goto(c, "markRedeemed") /\ UNCHANGED <<req, view, cview>> /\ OneState
  BY EscrowAt DEF SaveRedeem, SaveCodesFails, OneState, OneByOne
<1>3. PICK r, f, v : r = req[c] /\ f = cview[c] /\ v = view[c]
  OBVIOUS
<1>4. Kept(f, {})
  BY <1>1, <1>3, EscrowAt DEF EscrowClient
<1>5. Kept(codes, {})' /\ EscrowBacked'
  BY <1>1, <1>3, <1>4, EscrowWrites
<1>6. EscrowClient("markRedeemed", r, f, v)'
  BY <1>5 DEF EscrowClient, Unmarked
<1>7. Becomes(c, "markRedeemed", r, f, v)
  BY <1>2, <1>3, OneGoes, OneKeeps, OneViews
<1> QED
  BY <1>5, <1>6, <1>7, EscrowBecame

LEMMA EscrowSavesCancel ==
    ASSUME EscrowState, NEW c \in Client, SaveCancel(c), UNCHANGED late
    PROVE  EscrowInv'
<1>1. /\ pc[c] = "saveCancel" /\ UNCHANGED <<bank, late, history>> /\ (SaveCodes(c) \/ SaveCodesFails)
      /\ OneState
  BY EscrowAt DEF SaveCancel
<1>2. PICK r, f, v : r = req[c] /\ f = cview[c] /\ v = view[c]
  OBVIOUS
<1>3. Kept(f, {r.code}) /\ (InEscrow(r.code) => f[r.code].escrowed = TRUE)
  BY <1>1, <1>2, EscrowAt DEF EscrowClient
<1>4. CASE f[r.code].escrowed /\ Goto(c, "refund") /\ UNCHANGED <<req, view, cview>>
  <2>1. Kept(codes, {r.code})' /\ EscrowBacked'
    BY <1>1, <1>2, <1>3, EscrowWrites
  <2>2. EscrowClient("refund", r, f, v)'
    BY <2>1 DEF EscrowClient, Unmarked
  <2>3. Becomes(c, "refund", r, f, v)
    BY <1>1, <1>2, <1>4, OneGoes, OneKeeps, OneViews
  <2> QED
    BY <2>1, <2>2, <2>3, EscrowBecame
<1>5. CASE ~f[r.code].escrowed /\ CashDone(c)
  <2>1. ~InEscrow(r.code)
    BY <1>3, <1>5, Zenon
  <2>2. Kept(f, {})
    BY <1>3, <2>1 DEF Kept, InEscrow
  <2> QED
    BY <1>1, <1>2, <1>5, <2>2, EscrowWritesLast
<1>6. \/ f[r.code].escrowed /\ Goto(c, "refund") /\ UNCHANGED <<req, view, cview>>
      \/ ~f[r.code].escrowed /\ CashDone(c)
  BY <1>1, <1>2 DEF SaveCancel, SaveCodesFails, OneState, OneByOne
<1> QED
  BY <1>4, <1>5, <1>6

-----------------------------------------------------------------------------
(* The steps that save the bank *)

\* No money is in escrow before the account is there.
LEMMA NothingFunded ==
    ASSUME EscrowState, bank = NoFile \/ bank[Escrow] = NoAccount
    PROVE  funded = {}
BY DEF EscrowState, EscrowInv, EscrowBacked

LEMMA EscrowSeeds ==
    ASSUME EscrowState, NEW c \in Client, SeedFirst(c), UNCHANGED late
    PROVE  EscrowInv'
<1>1. pc[c] = "seed" /\ UNCHANGED <<codes, late, history>> /\ OneState
  BY EscrowAt DEF SeedFirst
<1>2. bank' = Seeded /\ Goto(c, "escrow") /\ UNCHANGED <<req, view, cview>>
  BY <1>1 DEF SeedFirst, Save, SaveFails, OneState, OneByOne
<1>3. NoAccounts(Loaded) /\ Escrow \in Account /\ Seeded[Escrow] = NoAccount
  BY <1>1, OneAt DEF FilesOf, OneState, CashAssumption, OneByOne
<1>4. funded' = {}
  BY <1>1, <1>3, NothingFunded DEF Loaded, NoAccounts, history
<1>5. EscrowBacked'
  BY <1>2, <1>3, <1>4 DEF EscrowBacked
<1>6. PICK r, f, v : r = req[c] /\ f = cview[c] /\ v = view[c]
  OBVIOUS
<1>7. EscrowClient("escrow", r, f, v)'
  BY <1>4 DEF EscrowClient, Kept, Unmarked
<1>8. Becomes(c, "escrow", r, f, v)
  BY <1>1, <1>2, <1>6, OneGoes, OneKeeps, OneViews
<1> QED
  BY <1>5, <1>7, <1>8, EscrowBecame

LEMMA EscrowSavesEscrow ==
    ASSUME EscrowState, NEW c \in Client, SaveEscrow(c), UNCHANGED late
    PROVE  EscrowInv'
<1>1. pc[c] = "saveEscrow" /\ UNCHANGED <<codes, late, history>> /\ OneState /\ IsFiniteSet(Code)
  BY EscrowAt DEF SaveEscrow
<1>2. bank' = view[c] /\ Goto(c, AfterEscrow(req[c])) /\ UNCHANGED <<req, view, cview>>
  BY <1>1 DEF SaveEscrow, Save, SaveFails, OneState, OneByOne
<1>3. PICK r, f, v, step : r = req[c] /\ f = cview[c] /\ v = view[c] /\ step = AfterEscrow(r)
  OBVIOUS
<1>4. bank[Escrow] = NoAccount /\ v[Escrow].bal = 0
  BY <1>1, <1>3, EscrowAt DEF EscrowClient
<1>5. funded' = {}
  BY <1>1, <1>4, NothingFunded DEF history
<1>6. SumFunction(EscrowOf') = 0
  <2>1. PICK g : g = EscrowOf'
    OBVIOUS
  <2>2. DOMAIN g = Code /\ \A k \in Code : g[k] = 0
    BY <1>5, <2>1 DEF EscrowOf, InEscrow
  <2>3. SumFunction(g) = 0
    BY <1>1, <2>2, SumZero, SumOfFunction
  <2> QED
    BY <2>1, <2>3
<1>7. EscrowBacked'
  BY <1>2, <1>3, <1>4, <1>5, <1>6 DEF EscrowBacked
<1>8. step \in {"issue", "verify"}
  BY <1>3 DEF AfterEscrow
<1>9. EscrowClient(step, r, f, v)'
  BY <1>5, <1>8 DEF EscrowClient, Kept, Unmarked
<1>10. Becomes(c, step, r, f, v)
  BY <1>1, <1>2, <1>3, OneGoes, OneKeeps, OneViews
<1> QED
  BY <1>7, <1>9, <1>10, EscrowBecame

-----------------------------------------------------------------------------
(* A transfer *)

LEMMA EscrowValues ==
    ASSUME OneState
    PROVE  EscrowOf \in [Code -> Nat]
<1>1. ASSUME NEW k \in Code, InEscrow(k)
      PROVE  codes[k].amount \in Nat
  BY <1>1, CodesLoad DEF InEscrow, OneState, OneInv, CodesFit, CashFile, CashRecord
<1> QED
  BY <1>1 DEF EscrowOf

\* The escrow account can pay for a code whose money is in it.
LEMMA EscrowPays ==
    ASSUME EscrowState, NEW k \in Code, InEscrow(k)
    PROVE  CanMove(Loaded, Escrow, codes[k].issuer, codes[k].amount)
<1>1. OneState /\ EscrowBacked /\ IsFiniteSet(Code) /\ k \in funded
  BY EscrowAt DEF EscrowState, EscrowInv, InEscrow
<1>2. bank # NoFile /\ bank[Escrow] # NoAccount /\ bank[Escrow].bal = SumFunction(EscrowOf)
  BY <1>1 DEF EscrowBacked
<1>3. Exists(bank, codes[k].issuer) /\ bank[codes[k].issuer].currency = bank[Escrow].currency
  BY <1>1 DEF EscrowBacked
<1>4. codes[k].amount \in Nat /\ codes[k].amount > 0
  <2>1. codes[k] \in CashRecord
    BY <1>1, CodesLoad DEF OneState, OneInv, CodesFit, CashFile
  <2> QED
    BY <2>1 DEF CashRecord
<1>5. PICK f : f = EscrowOf
  OBVIOUS
<1>6. f \in [Code -> Nat] /\ f[k] = codes[k].amount
  BY <1>1, <1>5, EscrowValues DEF EscrowOf
<1>7. f[k] <= SumFunction(f) /\ SumFunction(f) \in Nat
  BY <1>1, <1>6, SumNat, SumOfFunction
<1>8. bank[Escrow].bal >= codes[k].amount
  BY <1>2, <1>4, <1>5, <1>6, <1>7
<1>9. Loaded = bank /\ Escrow \in Account
  BY <1>1, <1>2 DEF Loaded, OneState, CashAssumption
<1> QED
  BY <1>2, <1>3, <1>4, <1>8, <1>9 DEF CanMove, CanDebit, Exists

\* So a refund is never refused.
LEMMA EscrowRefused ==
    ASSUME EscrowState, NEW c \in Client, pc[c] \in {"fund", "pay", "refund"}, FilesStay, Refused(c),
           ~CanMove(Loaded, Payer(req[c]), Payee(req[c], cview[c][req[c].code]), cview[c][req[c].code].amount)
    PROVE  EscrowInv'
<1>1. OneState
  BY EscrowAt
<1>2. PICK r, f : r = req[c] /\ f = cview[c]
  OBVIOUS
<1>3. /\ f = codes /\ CodeOf(pc[c], r, f) /\ CashClient(pc[c], r) /\ r \in CashRequest
  BY <1>1, <1>2, OneAt DEF FilesOf
<1>4. CASE pc[c] = "refund"
  <2>1. r.op = "cancel"
    BY <1>3, <1>4 DEF CashClient, CashSteps, CashRequest
  <2>2. InEscrow(r.code)
    BY <1>3, <1>4, <2>1 DEF CodeOf, Transferring, InEscrow
  <2>3. r.code \in Code
    BY <1>1, <2>2 DEF InEscrow, OneState, OneInv, CodesFit
  <2>4. CanMove(Loaded, Escrow, codes[r.code].issuer, codes[r.code].amount)
    BY <2>2, <2>3, EscrowPays
  <2>5. Payer(r) = Escrow /\ Payee(r, codes[r.code]) = codes[r.code].issuer
    BY <2>1 DEF Payer, Payee
  <2> QED
    BY <1>2, <1>3, <2>4, <2>5
<1>5. CASE pc[c] # "refund"
  <2>1. Kept(codes, {})
    BY <1>5, NothingUnmarked
  <2>2. CASE CashDone(c)
    BY <2>1, <2>2, EscrowEnds
  <2>3. CASE r.op = "issue" /\ Goto(c, "undo") /\ UNCHANGED <<req, view, cview>>
    <3>1. r.code \notin funded
      BY <1>3, <2>3 DEF CodeOf, Transferring
    <3>2. EscrowClient("undo", r, f, view[c])
      BY <2>1, <3>1 DEF EscrowClient, Unmarked
    <3>3. Becomes(c, "undo", r, f, view[c])
      BY <1>1, <1>2, <2>3, OneGoes, OneKeeps, OneViews
    <3> QED
      BY <3>2, <3>3, EscrowStep
  <2> QED
    BY <1>2, <2>2, <2>3 DEF Refused
<1> QED
  BY <1>4, <1>5

LEMMA EscrowTransfers ==
    ASSUME EscrowState, NEW c \in Client, Transfer(c), UNCHANGED late
    PROVE  EscrowInv'
<1>1. pc[c] \in {"fund", "pay", "refund"} /\ FilesStay /\ OneState
  BY EscrowAt DEF Transfer, FilesStay, history
<1>2. PICK r, f, v : /\ r = req[c] /\ f = cview[c]
                     /\ v = Moved(Loaded, Payer(r), Payee(r, f[r.code]), f[r.code].amount)
  OBVIOUS
<1>3. CanLoad
  BY <1>1, CodesLoad
<1>4. CASE /\ ~CanMove(Loaded, Payer(r), Payee(r, f[r.code]), f[r.code].amount)
           /\ Refused(c)
  BY <1>1, <1>2, <1>4, EscrowRefused
<1>5. CASE view' = [view EXCEPT ![c] = v] /\ Goto(c, "saveTransfer") /\ UNCHANGED <<req, cview>>
  <2>1. Becomes(c, "saveTransfer", r, f, v)
    BY <1>1, <1>2, <1>5, OneGoes, OneKeeps
  <2>2. EscrowClient(pc[c], r, f, view[c]) /\ CashClient(pc[c], r) /\ r \in CashRequest
    BY <1>1, <1>2, EscrowAt, OneAt
  <2>3. (pc[c] = "fund" <=> r.op = "issue") /\ (pc[c] = "refund" <=> r.op = "cancel")
    BY <1>1, <2>2 DEF CashClient, CashSteps, CashRequest
  <2>4. EscrowClient("saveTransfer", r, f, v)
    BY <1>1, <2>2, <2>3 DEF EscrowClient, Unmarked
  <2> QED
    BY <1>1, <2>1, <2>4, EscrowStep
<1> QED
  BY <1>1, <1>2, <1>3, <1>4, <1>5 DEF Transfer

LEMMA MovedCurrencies ==
    ASSUME NEW st \in BankFile, NEW a, NEW b, a # b, NEW n \in Nat, CanMove(st, a, b, n)
    PROVE  \A x \in Account : st[x] # NoAccount => Moved(st, a, b, n)[x].currency = st[x].currency
<1>1. PICK d, e, new : d = DebitedAccount(st[a], n) /\ e = CreditedAccount(st[b], n) /\ new = Moved(st, a, b, n)
  OBVIOUS
<1>2. new = [st EXCEPT ![a] = d, ![b] = e] /\ a \in Account /\ b \in Account
      /\ st[a] \in BankAccount /\ st[b] \in BankAccount
  BY <1>1, MovedAccounts
<1>3. d.currency = st[a].currency
  BY <1>1, <1>2 DEF DebitedAccount, BankAccount
<1>4. e.currency = st[b].currency
  BY <1>1, <1>2 DEF CreditedAccount, BankAccount
<1> QED
  BY <1>1, <1>2, <1>3, <1>4 DEF BankFile

\* The bank's file has a transfer into or out of the escrow account.
LEMMA EscrowMoves ==
    ASSUME OneState, bank # NoFile, NEW a, NEW b, a # b, Escrow \in {a, b},
           NEW n \in Nat, CanMove(bank, a, b, n), bank' = Moved(bank, a, b, n)
    PROVE  /\ bank' # NoFile /\ bank[Escrow] # NoAccount /\ bank'[Escrow] # NoAccount
           /\ bank'[Escrow].bal = IF a = Escrow THEN bank[Escrow].bal - n ELSE bank[Escrow].bal + n
           /\ \A x : Exists(bank, x) => Exists(bank', x)
           /\ \A x : Exists(bank, x) => bank'[x].currency = bank[x].currency
<1>1. bank \in BankFile /\ bank' \in BankFile
  BY MovedBalances DEF OneState, OneInv, BankFits
<1>2. PICK st, new : st = bank /\ new = Moved(bank, a, b, n)
  OBVIOUS
<1>3. /\ \A x \in Account : new[x] = NoAccount <=> st[x] = NoAccount
      /\ new[a].bal = st[a].bal - n /\ new[b].bal = st[b].bal + n
  BY <1>1, <1>2, MovedBalances
<1>4. \A x \in Account : st[x] # NoAccount => new[x].currency = st[x].currency
  BY <1>1, <1>2, MovedCurrencies
<1>5. Exists(st, a) /\ Exists(st, b)
  BY <1>2 DEF CanMove, CanDebit
<1>6. bank' = new /\ bank' # NoFile
  BY <1>1, <1>2, BankAssumption
<1> QED
  BY <1>2, <1>3, <1>4, <1>5, <1>6 DEF Exists

\* One code's money more or less.
LEMMA EscrowChanges ==
    ASSUME IsFiniteSet(Code), NEW f \in [Code -> Nat], NEW g, DOMAIN g = Code, NEW k \in Code,
           g[k] \in Nat, \A j \in Code : j # k => g[j] = f[j]
    PROVE  SumFunction(g) = SumFunction(f) - f[k] + g[k] /\ SumFunction(f) \in Nat
<1>1. SumFunction(f) = SumFunctionOnSet(f, Code) /\ SumFunction(g) = SumFunctionOnSet(g, Code)
  BY SumOfFunction
<1>2. SumFunctionOnSet(g, Code) = SumFunctionOnSet(f, Code) - f[k] + g[k]
  BY SumChange
<1>3. SumFunctionOnSet(f, Code) \in Nat
  BY SumNat
<1> QED
  BY <1>1, <1>2, <1>3

\* The money of a code leaves the escrow account, which has what is left.
LEMMA EscrowLeaves ==
    ASSUME EscrowState, NEW k \in Code, InEscrow(k), NEW to, to # Escrow, bank # NoFile,
           CanMove(bank, Escrow, to, codes[k].amount), bank' = Moved(bank, Escrow, to, codes[k].amount),
           UNCHANGED <<codes, funded>>, ~Untouched(k)',
           \A j \in Code : j # k => (Untouched(j)' <=> Untouched(j))
    PROVE  EscrowBacked'
<1>1. OneState /\ EscrowBacked /\ IsFiniteSet(Code) /\ funded \subseteq Code
  BY DEF EscrowState, EscrowInv, OneState, OneInv, CodesFit
<1>2. PICK f, g, n : f = EscrowOf /\ g = EscrowOf' /\ n = codes[k].amount
  OBVIOUS
<1>3. f \in [Code -> Nat] /\ f[k] = n /\ n \in Nat
  BY <1>1, <1>2, EscrowValues DEF EscrowOf
<1>4. DOMAIN g = Code /\ g[k] = 0 /\ \A j \in Code : j # k => g[j] = f[j]
  BY <1>2 DEF EscrowOf, InEscrow
<1>5. SumFunction(g) = SumFunction(f) - n /\ SumFunction(f) \in Nat
  BY <1>1, <1>3, <1>4, EscrowChanges
<1>6. /\ bank' # NoFile /\ bank[Escrow] # NoAccount /\ bank'[Escrow] # NoAccount
      /\ bank'[Escrow].bal = bank[Escrow].bal - n
      /\ \A x : Exists(bank, x) => Exists(bank', x)
      /\ \A x : Exists(bank, x) => bank'[x].currency = bank[x].currency
  BY <1>1, <1>2, <1>3, EscrowMoves
<1>7. bank[Escrow].bal = SumFunction(f) /\ Exists(bank, Escrow)
  BY <1>1, <1>2, <1>6 DEF EscrowBacked, Exists, OneState, CashAssumption
<1>8. bank'[Escrow].bal = SumFunction(EscrowOf')
  BY <1>2, <1>5, <1>6, <1>7
<1>9. ASSUME NEW j \in funded
      PROVE  Exists(bank', codes[j].issuer) /\ bank'[codes[j].issuer].currency = bank'[Escrow].currency
  <2>1. Exists(bank, codes[j].issuer) /\ bank[codes[j].issuer].currency = bank[Escrow].currency
    BY <1>1 DEF EscrowBacked
  <2> QED
    BY <1>6, <1>7, <2>1
<1> QED
  BY <1>6, <1>8, <1>9 DEF EscrowBacked

LEMMA EscrowFunds ==
    ASSUME EscrowState, NEW c \in Client, pc[c] = "saveTransfer", req[c].op = "issue",
           bank' = view[c], MoneyHasMoved(c), AfterTransfer(c), UNCHANGED <<codes, drawn, late>>
    PROVE  EscrowInv'
<1>1. OneState /\ EscrowBacked /\ IsFiniteSet(Code) /\ funded \subseteq Code
  BY EscrowAt DEF OneState, OneInv, CodesFit
<1>2. PICK r, k, n, from, v : r = req[c] /\ k = r.code /\ n = codes[k].amount /\ from = r.acct /\ v = view[c]
  OBVIOUS
<1>3. /\ r.op = "issue" /\ from # Escrow /\ CodeOf("saveTransfer", r, codes) /\ k \in Code /\ n \in Nat
      /\ cview[c] = codes
  BY <1>1, <1>2, TransferToSave
<1>4. k \notin funded /\ codes[k].issuer = from
  BY <1>2, <1>3 DEF CodeOf, Transferring
<1>5. CanMove(bank, from, Escrow, n) /\ bank' = Moved(bank, from, Escrow, n) /\ bank # NoFile
  BY <1>1, <1>2, <1>3, TransferToSave DEF Payer, Payee
<1>6. funded' = funded \cup {k} /\ UNCHANGED <<paid, refunded>>
  BY <1>2, <1>3 DEF MoneyHasMoved
<1>7. Untouched(k)
  <2>1. paid[k] \in Nat /\ refunded[k] \in Nat
    BY <1>1, <1>3 DEF OneState, CashInv, CashHistory
  <2>2. ~(paid[k] + refunded[k] > 0)
    BY <1>1, <1>3, <1>4 DEF OneState, CashInv, CashHistory, PaidIsFunded
  <2> QED
    BY <2>1, <2>2 DEF Untouched
<1>8. PICK was, now : was = EscrowOf /\ now = EscrowOf'
  OBVIOUS
<1>9. was \in [Code -> Nat] /\ was[k] = 0
  BY <1>1, <1>3, <1>4, <1>8, EscrowValues DEF EscrowOf, InEscrow
<1>10. DOMAIN now = Code /\ now[k] = n /\ \A j \in Code : j # k => now[j] = was[j]
  BY <1>2, <1>3, <1>6, <1>7, <1>8 DEF EscrowOf, InEscrow, Untouched
<1>11. SumFunction(now) = SumFunction(was) + n /\ SumFunction(was) \in Nat
  <2>1. SumFunction(now) = SumFunction(was) - was[k] + now[k] /\ SumFunction(was) \in Nat
    BY <1>1, <1>3, <1>9, <1>10, EscrowChanges
  <2> QED
    BY <1>3, <1>9, <1>10, <2>1
<1>12. /\ bank' # NoFile /\ bank[Escrow] # NoAccount /\ bank'[Escrow] # NoAccount
       /\ bank'[Escrow].bal = bank[Escrow].bal + n
       /\ \A x : Exists(bank, x) => Exists(bank', x)
       /\ \A x : Exists(bank, x) => bank'[x].currency = bank[x].currency
  BY <1>1, <1>3, <1>5, EscrowMoves
<1>13. /\ bank[Escrow].bal = SumFunction(was) /\ Exists(bank, Escrow) /\ Exists(bank, from)
       /\ bank[from].currency = bank[Escrow].currency
  BY <1>1, <1>5, <1>8, <1>12 DEF EscrowBacked, Exists, CanMove, CanDebit
<1>14. bank'[Escrow].bal = SumFunction(EscrowOf')
  BY <1>8, <1>11, <1>12, <1>13
<1>15. ASSUME NEW j \in funded'
       PROVE  Exists(bank', codes[j].issuer) /\ bank'[codes[j].issuer].currency = bank'[Escrow].currency
  <2>1. Exists(bank, codes[j].issuer) /\ bank[codes[j].issuer].currency = bank[Escrow].currency
    BY <1>1, <1>4, <1>6, <1>13 DEF EscrowBacked
  <2> QED
    BY <1>12, <1>13, <2>1
<1>16. EscrowBacked'
  BY <1>12, <1>14, <1>15 DEF EscrowBacked
<1>17. Kept(codes, {}) /\ codes[k].status = "active"
  <2>1. EscrowClient("saveTransfer", r, cview[c], view[c])
    BY <1>2, EscrowAt
  <2> QED
    BY <1>2, <1>3, <2>1 DEF EscrowClient, Unmarked
<1>18. Kept(codes, {k})'
  BY <1>6, <1>17 DEF Kept, Untouched
<1>19. PICK f : f = codes
  OBVIOUS
<1>20. EscrowClient("markEscrow", r, f, v)'
  BY <1>2, <1>17, <1>18 DEF EscrowClient, Unmarked
<1>21. Becomes(c, "markEscrow", r, f, v)
  <2>1. Goto(c, "markEscrow") /\ UNCHANGED <<req, view, cview>>
    BY <1>2, <1>3 DEF AfterTransfer
  <2> QED
    BY <1>1, <1>2, <1>3, <1>19, <2>1, OneGoes, OneKeeps, OneViews
<1> QED
  BY <1>16, <1>20, <1>21, EscrowBecame

LEMMA EscrowPaysOut ==
    ASSUME EscrowState, NEW c \in Client, pc[c] = "saveTransfer", req[c].op = "redeem",
           bank' = view[c], MoneyHasMoved(c), AfterTransfer(c), UNCHANGED <<codes, drawn, late>>
    PROVE  EscrowInv'
<1>1. OneState
  BY EscrowAt
<1>2. PICK r, k, n, f, v : r = req[c] /\ k = r.code /\ n = codes[k].amount /\ f = codes /\ v = view[c]
  OBVIOUS
<1>3. /\ r.op = "redeem" /\ r.acct # Escrow /\ Honest("saveTransfer", r)
      /\ CodeOf("saveTransfer", r, codes) /\ k \in Code /\ n \in Nat /\ cview[c] = f
  BY <1>1, <1>2, TransferToSave
<1>4. k \in funded /\ Valid(codes, k)
  BY <1>2, <1>3 DEF CodeOf, Transferring
<1>5. CanMove(bank, Escrow, r.acct, n) /\ bank' = Moved(bank, Escrow, r.acct, n) /\ bank # NoFile
  BY <1>1, <1>2, <1>3, TransferToSave DEF Payer, Payee
<1>6. paid' = [paid EXCEPT ![k] = @ + 1] /\ UNCHANGED <<funded, refunded>>
  BY <1>2, <1>3 DEF MoneyHasMoved
<1>7. paid \in [Code -> Nat] /\ InEscrow(k)
  BY <1>1, <1>3, <1>4 DEF OneState, CashInv, CashHistory, Honest, Valid, InEscrow
<1>8. paid'[k] > 0 /\ \A j \in Code : j # k => paid'[j] = paid[j]
  <2>1. PICK g, h : g = paid /\ h = [paid EXCEPT ![k] = @ + 1]
    OBVIOUS
  <2>2. h[k] > 0 /\ \A j \in Code : j # k => h[j] = g[j]
    BY <1>3, <1>7, <2>1, PaidOnceMore DEF InEscrow, Untouched
  <2> QED
    BY <1>6, <2>1, <2>2
<1>9. ~Untouched(k)' /\ \A j \in Code : j # k => (Untouched(j)' <=> Untouched(j))
  BY <1>6, <1>8 DEF Untouched
<1>10. EscrowBacked'
  BY <1>2, <1>3, <1>5, <1>6, <1>7, <1>9, EscrowLeaves
<1>11. Kept(codes, {})
  <2>1. EscrowClient("saveTransfer", r, cview[c], view[c])
    BY <1>2, EscrowAt
  <2> QED
    BY <1>3, <2>1 DEF EscrowClient, Unmarked
<1>12. Kept(codes, {})'
  BY <1>1, <1>6, <1>9, <1>11 DEF Kept, OneState, OneInv, CodesFit
<1>13. EscrowClient("redeem", r, f, v)'
  BY <1>2, <1>9, <1>12 DEF EscrowClient, Unmarked, InEscrow
<1>14. Becomes(c, "redeem", r, f, v)
  <2>1. Goto(c, "redeem") /\ UNCHANGED <<req, view, cview>>
    BY <1>2, <1>3 DEF AfterTransfer
  <2> QED
    BY <1>1, <1>2, <1>3, <2>1, OneGoes, OneKeeps, OneViews
<1> QED
  BY <1>10, <1>13, <1>14, EscrowBecame

LEMMA EscrowRefunds ==
    ASSUME EscrowState, NEW c \in Client, pc[c] = "saveTransfer", req[c].op = "cancel",
           bank' = view[c], MoneyHasMoved(c), AfterTransfer(c), UNCHANGED <<codes, drawn, late>>
    PROVE  EscrowInv'
<1>1. OneState
  BY EscrowAt
<1>2. PICK r, k, n, to : r = req[c] /\ k = r.code /\ n = codes[k].amount /\ to = codes[k].issuer
  OBVIOUS
<1>3. /\ r.op = "cancel" /\ to # Escrow /\ CodeOf("saveTransfer", r, codes) /\ k \in Code /\ n \in Nat
  BY <1>1, <1>2, TransferToSave
<1>4. InEscrow(k)
  BY <1>2, <1>3 DEF CodeOf, Transferring, InEscrow
<1>5. CanMove(bank, Escrow, to, n) /\ bank' = Moved(bank, Escrow, to, n) /\ bank # NoFile
  BY <1>1, <1>2, <1>3, TransferToSave DEF Payer, Payee
<1>6. refunded' = [refunded EXCEPT ![k] = @ + 1] /\ UNCHANGED <<funded, paid>>
  BY <1>2, <1>3 DEF MoneyHasMoved
<1>7. refunded'[k] > 0 /\ \A j \in Code : j # k => refunded'[j] = refunded[j]
  <2>1. PICK g, h : g = refunded /\ h = [refunded EXCEPT ![k] = @ + 1]
    OBVIOUS
  <2>2. g \in [Code -> Nat]
    BY <1>1, <2>1 DEF OneState, CashInv, CashHistory
  <2>3. h[k] > 0 /\ \A j \in Code : j # k => h[j] = g[j]
    BY <1>3, <1>4, <2>1, <2>2, PaidOnceMore DEF InEscrow, Untouched
  <2> QED
    BY <1>6, <2>1, <2>3
<1>8. ~Untouched(k)' /\ \A j \in Code : j # k => (Untouched(j)' <=> Untouched(j))
  BY <1>6, <1>7 DEF Untouched
<1>9. EscrowBacked'
  BY <1>2, <1>3, <1>4, <1>5, <1>6, <1>8, EscrowLeaves
<1>10. Kept(codes, {k})
  <2>1. EscrowClient("saveTransfer", r, cview[c], view[c])
    BY <1>2, EscrowAt
  <2> QED
    BY <1>2, <1>3, <2>1 DEF EscrowClient, Unmarked
<1>11. Kept(codes, {})'
  BY <1>1, <1>6, <1>8, <1>10 DEF Kept, OneState, OneInv, CodesFit
<1>12. EscrowClient("idle", NoRequest, NoCodes, EmptyBank)'
  BY <1>11 DEF EscrowClient, Unmarked
<1>13. Becomes(c, "idle", NoRequest, NoCodes, EmptyBank)
  <2>1. CashDone(c)
    BY <1>2, <1>3 DEF AfterTransfer
  <2> QED
    BY <2>1 DEF CashDone, Done, Goto, Becomes
<1> QED
  BY <1>9, <1>12, <1>13, EscrowBecame

LEMMA EscrowSavesTransfer ==
    ASSUME EscrowState, NEW c \in Client, SaveTransfer(c), UNCHANGED late
    PROVE  EscrowInv'
<1>1. pc[c] = "saveTransfer" /\ UNCHANGED <<codes, drawn, late>> /\ OneState
  BY EscrowAt DEF SaveTransfer
<1>2. bank' = view[c] /\ MoneyHasMoved(c) /\ AfterTransfer(c)
  BY <1>1 DEF SaveTransfer, Save, SaveFails, MoneyHasMoved, OneState, OneByOne
<1>3. req[c].op \in {"issue", "redeem", "cancel"}
  BY <1>1, TransferToSave
<1> QED
  BY <1>1, <1>2, <1>3, EscrowFunds, EscrowPaysOut, EscrowRefunds

-----------------------------------------------------------------------------

LEMMA EscrowNextKeeps ==
    ASSUME EscrowState, [Next]_vars
    PROVE  EscrowInv'
<1>1. ASSUME NEW c \in Client, Step(c), UNCHANGED late
      PROVE  EscrowInv'
  <2>1. CASE SaveMark(c) \/ SaveUndo(c)
    BY <1>1, <2>1, EscrowSavesMark
  <2>2. CASE ~(SaveMark(c) \/ SaveUndo(c))
    BY <1>1, <2>2, EscrowAsks, EscrowSeeds, EscrowEnsures, EscrowSavesEscrow, EscrowIssues,
       EscrowSavesIssue, EscrowMarks, EscrowUndoes, EscrowTransfers, EscrowSavesTransfer, EscrowVerifies,
       EscrowRedeems, EscrowSavesRedeem, EscrowMarksPaid, EscrowCancels, EscrowSavesCancel DEF Step
  <2> QED
    BY <2>1, <2>2
<1>2. CASE Expire \/ UNCHANGED vars
  <2>1. UNCHANGED <<bank, pc, req, view, codes, cview, funded, paid, refunded>>
    BY <1>2 DEF Expire, vars, bankVars, cashVars, history
  <2>2. EscrowBacked'
    BY <2>1, BackedStays
  <2>3. ASSUME NEW c \in Client
        PROVE  EscrowClient(pc[c], req[c], cview[c], view[c])'
    <3>1. PICK step, r, f, v : step = pc[c] /\ r = req[c] /\ f = cview[c] /\ v = view[c]
      OBVIOUS
    <3>2. EscrowClient(step, r, f, v)'
      BY <2>1, <3>1, EscrowAt, ClientKeeps
    <3>3. pc'[c] = step /\ req'[c] = r /\ cview'[c] = f /\ view'[c] = v
      BY <2>1, <3>1
    <3> QED
      BY <3>2, <3>3
  <2> QED
    BY <2>1, <2>2, <2>3 DEF EscrowState, EscrowInv
<1>3. CASE CashStop
  BY <1>3 DEF CashStop, Stop, EscrowState, OneState, OneByOne
<1> QED
  BY <1>1, <1>2, <1>3 DEF Next

\* When no request is under way, the codes in escrow are the active ones that
\* are marked.
LEMMA HeldAre ==
    ASSUME EscrowState, Quiet, bank # NoFile
    PROVE  Held = {k \in Code : InEscrow(k)}
<1>1. PICK c \in Client : pc[c] = "idle"
  BY DEF EscrowState, EscrowInv, Quiet
<1>2. OneState /\ Kept(codes, {}) /\ Honest("idle", req[c])
  BY <1>1, EscrowAt, NothingUnmarked DEF OneState, OneInv, OneClient
<1>3. ASSUME NEW k \in Code, InEscrow(k)
      PROVE  k \in Held
  <2>1. codes[k] # NoCode /\ k \in funded /\ Untouched(k)
    BY <1>2, <1>3 DEF InEscrow, OneState, OneInv, CodesFit
  <2>2. codes[k].status = "active" /\ codes[k].escrowed = TRUE
    BY <1>2, <2>1 DEF Kept
  <2> QED
    BY <2>1, <2>2, Zenon DEF Held
<1>4. ASSUME NEW k \in Held
      PROVE  InEscrow(k)
  <2>1. k \in Code /\ codes[k] # NoCode /\ codes[k].status = "active" /\ codes[k].escrowed
    BY Zenon DEF Held
  <2>2. SoundCode(k, codes[k])
    BY <1>2, <2>1, CodesLoad DEF OneState, CashInv, SoundCodes, CanLoadCodes
  <2>3. k \in funded
    BY <2>1, <2>2, Zenon DEF SoundCode
  <2> QED
    BY <1>2, <2>1, <2>3 DEF Honest, InEscrow
<1>5. Held \subseteq Code
  BY Zenon DEF Held
<1> QED
  BY <1>3, <1>4, <1>5

LEMMA EscrowExactly ==
    ASSUME EscrowState
    PROVE  EscrowExact
<1> SUFFICES ASSUME Quiet, bank # NoFile
             PROVE  IF bank[Escrow] = NoAccount THEN Held = {}
                    ELSE bank[Escrow].bal = SumFunction([k \in Held |-> codes[k].amount])
  BY DEF EscrowExact
<1>1. PICK H, f, g : H = Held /\ f = EscrowOf /\ g = [k \in Held |-> codes[k].amount]
  OBVIOUS
<1>2. H = {k \in Code : InEscrow(k)}
  BY <1>1, HeldAre
<1>3. CASE bank[Escrow] = NoAccount
  BY <1>1, <1>2, <1>3, NothingFunded DEF InEscrow
<1>4. CASE bank[Escrow] # NoAccount
  <2>1. bank[Escrow].bal = SumFunction(f) /\ IsFiniteSet(Code) /\ f \in [Code -> Nat]
    BY <1>1, <1>4, EscrowValues DEF EscrowState, EscrowInv, EscrowBacked
  <2>2. /\ DOMAIN g = H /\ H \in SUBSET Code /\ \A k \in H : g[k] = f[k]
        /\ \A k \in Code : k \notin H => f[k] = 0
    BY <1>1, <1>2 DEF EscrowOf
  <2>3. SumFunctionOnSet(f, Code) = SumFunctionOnSet(f, H)
    BY <2>1, <2>2, SumWithin
  <2>4. SumFunctionOnSet(g, H) = SumFunctionOnSet(f, H)
    <3>1. IsFiniteSet(H)
      BY <2>1, <2>2, FS_Subset
    <3> QED
      BY <2>1, <2>2, <3>1, SumAgree
  <2>5. SumFunction(f) = SumFunctionOnSet(f, Code) /\ SumFunction(g) = SumFunctionOnSet(g, H)
    BY <2>1, <2>2, SumOfFunction
  <2> QED
    BY <1>1, <1>4, <2>1, <2>3, <2>4, <2>5
<1> QED
  BY <1>3, <1>4

\* As long as requests do not overlap and none is cut halfway, the escrow
\* account holds exactly the money of the active codes, which CashCodeStore.Status
\* (ledger/cashcode.go) reports as escrowHeld: neither file says so on its own.
THEOREM EscrowIsExact ==
    ASSUME CashAssumption, OneByOne, IsFiniteSet(Code)
    PROVE  Spec => []EscrowExact
<1>1. Init => OneInv /\ EscrowInv
  BY OneInitKeeps, InitEscrow
<1>2. CashInv /\ OneInv /\ EscrowInv /\ [Next]_vars => OneInv' /\ EscrowInv'
  BY OneNextKeeps, EscrowNextKeeps DEF OneState, EscrowState
<1>3. CashInv /\ OneInv /\ EscrowInv => EscrowExact
  BY EscrowExactly DEF OneState, EscrowState
<1>4. Spec => []CashInv
  BY CashInvariant
<1> QED
  BY <1>1, <1>2, <1>3, <1>4, PTL DEF Spec
=============================================================================
