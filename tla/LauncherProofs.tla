--------------------------- MODULE LauncherProofs ---------------------------
(***************************************************************************)
(* Proofs about Launcher, for any clients, chains and mirrors, and any     *)
(* failures: what is on record was deployed.  It holds of the files        *)
(* because it holds of the copies requests make of them, and goes on       *)
(* holding of both because a chain forgets nothing.                        *)
(***************************************************************************)
EXTENDS Launcher, RateLimiter, FiniteSetTheorems, TLAPS

Deployed(r) ==
    r.deployMethod # "mirror" =>
        \E m \in mined : /\ m.tx = r.tx /\ m.kind = "created" /\ m.tx.chain = r.chain
                         /\ AddressOf(m.tx) = r.address

\* A list of tokens that may be written.
SoundList(list) ==
    /\ \A r \in list : Deployed(r)
    /\ \A r, s \in list : r.address = s.address => r = s

SoundBook(b) ==
    /\ b \in Book
    /\ \A ch \in Mirrors :
          b.mirrors[ch].verified \/ b.mirrors[ch].status = "live" => b.mirrors[ch].address \in Code(ch)

SoundJob(j) ==
    /\ j = [at |-> j.at, tx |-> j.tx, record |-> j.record, list |-> j.list, book |-> j.book]
    /\ j.at \in {"send", "wait"} => j.tx \in Tx
    /\ j.record = [address |-> j.record.address, tx |-> j.record.tx, chain |-> j.record.chain,
                   deployMethod |-> j.record.deployMethod]
    /\ Deployed(j.record)
    /\ j.at = "fix" => j.record.deployMethod = "mirror"
    /\ j.at \in {"save", "saveMirror"} => SoundList(j.list)
    /\ SoundBook(j.book)

LauncherInv ==
    /\ tokens # Broken => SoundList(tokens)
    /\ live \notin {NoFile, Broken} => SoundBook(live)
    /\ pending \subseteq Tx /\ mined \subseteq Receipt
    /\ job = [c \in Client |-> job[c]]
    /\ \A c \in Client : job[c] # NoJob => SoundJob(job[c])

-----------------------------------------------------------------------------
(* What a chain has it keeps *)

LEMMA DeployedStays ==
    ASSUME mined \subseteq mined', NEW r, Deployed(r)
    PROVE  Deployed(r)'
BY DEF Deployed

LEMMA CodeStays ==
    ASSUME mined \subseteq mined', NEW ch
    PROVE  Code(ch) \subseteq Code(ch)'
BY DEF Code

LEMMA BookStays ==
    ASSUME mined \subseteq mined', NEW b, SoundBook(b)
    PROVE  SoundBook(b)'
BY CodeStays DEF SoundBook

LEMMA JobStays ==
    ASSUME mined \subseteq mined', NEW j, SoundJob(j)
    PROVE  SoundJob(j)'
<1>1. Deployed(j.record)' /\ SoundBook(j.book)'
  BY DeployedStays, BookStays DEF SoundJob
<1>2. j.at \in {"save", "saveMirror"} => SoundList(j.list)'
  BY DeployedStays DEF SoundJob, SoundList
<1> QED
  BY <1>1, <1>2 DEF SoundJob

LEMMA FilesStay ==
    ASSUME LauncherInv, mined \subseteq mined', UNCHANGED <<tokens, live>>
    PROVE  /\ (tokens # Broken => SoundList(tokens))'
           /\ (live \notin {NoFile, Broken} => SoundBook(live))'
<1>1. (tokens # Broken => SoundList(tokens))'
  BY DeployedStays DEF LauncherInv, SoundList
<1>2. (live \notin {NoFile, Broken} => SoundBook(live))'
  BY BookStays DEF LauncherInv
<1> QED
  BY <1>1, <1>2

\* A request goes on with a copy that is sound, or ends.
LEMMA GoesOn ==
    ASSUME LauncherInv, NEW c \in Client, NEW j, Move(c, j), j = NoJob \/ SoundJob(j),
           UNCHANGED mined
    PROVE  /\ (job = [d \in Client |-> job[d]])'
           /\ (\A d \in Client : job[d] # NoJob => SoundJob(job[d]))'
<1>1. job' = [job EXCEPT ![c] = j] /\ mined \subseteq mined'
  BY DEF Move
<1>2. ASSUME NEW d \in Client, job'[d] # NoJob
      PROVE  SoundJob(job[d])'
  <2>1. SoundJob(job'[d])
    BY <1>1, <1>2 DEF LauncherInv
  <2>2. PICK k : k = job'[d]
    OBVIOUS
  <2>3. SoundJob(k)'
    BY <1>1, <2>1, <2>2, JobStays
  <2> QED
    BY <2>2, <2>3 DEF SoundJob, SoundList, SoundBook, Deployed, Code
<1> QED
  BY <1>1, <1>2 DEF LauncherInv

\* A step of a request that writes neither the tokens nor the live file.
LEMMA RequestKeeps ==
    ASSUME LauncherInv, NEW c \in Client, NEW j, Move(c, j), j = NoJob \/ SoundJob(j),
           UNCHANGED <<tokens, live, mined>>, pending' \subseteq Tx
    PROVE  LauncherInv'
<1>1. mined \subseteq mined'
  OBVIOUS
<1> QED
  BY <1>1, FilesStay, GoesOn DEF LauncherInv

-----------------------------------------------------------------------------
(* Deployments and registrations *)

LEMMA CodeTyped ==
    ASSUME LauncherInv, NEW ch
    PROVE  Code(ch) \subseteq Address
<1> SUFFICES ASSUME NEW m \in mined PROVE AddressOf(m.tx) \in Address
  BY DEF Code
<1>1. m.tx \in Tx
  BY DEF LauncherInv, Receipt
<1> QED
  BY <1>1 DEF Tx, Address, AddressOf

\* The record of a contract a receipt names.
LEMMA RecordSound ==
    ASSUME LauncherInv, NEW m \in mined, m.kind = "created", NEW how
    PROVE  Deployed(Record(m.tx, how))
BY DEF Deployed, Record

\* A request's record with some of its fields changed.
LEMMA JobWith ==
    ASSUME NEW j, j = [at |-> j.at, tx |-> j.tx, record |-> j.record, list |-> j.list, book |-> j.book],
           NEW step, NEW x
    PROVE  /\ [j EXCEPT !.at = step, !.record = x]
              = [at |-> step, tx |-> j.tx, record |-> x, list |-> j.list, book |-> j.book]
           /\ [j EXCEPT !.at = step, !.list = x]
              = [at |-> step, tx |-> j.tx, record |-> j.record, list |-> x, book |-> j.book]
           /\ [j EXCEPT !.at = step, !.book = x]
              = [at |-> step, tx |-> j.tx, record |-> j.record, list |-> j.list, book |-> x]
<1>1. ASSUME NEW k, k = [j EXCEPT !.at = step, !.record = x]
      PROVE  k = [at |-> step, tx |-> j.tx, record |-> x, list |-> j.list, book |-> j.book]
  BY <1>1, Zenon
<1>2. ASSUME NEW k, k = [j EXCEPT !.at = step, !.list = x]
      PROVE  k = [at |-> step, tx |-> j.tx, record |-> j.record, list |-> x, book |-> j.book]
  BY <1>2, Zenon
<1>3. ASSUME NEW k, k = [j EXCEPT !.at = step, !.book = x]
      PROVE  k = [at |-> step, tx |-> j.tx, record |-> j.record, list |-> j.list, book |-> x]
  BY <1>3, Zenon
<1> QED
  BY <1>1, <1>2, <1>3, Zenon

LEMMA SendStep ==
    ASSUME LauncherInv, NEW c \in Client, SendTx(c)
    PROVE  LauncherInv'
<1>1. /\ Stage(c, "send") /\ UNCHANGED <<tokens, live, mined>>
      /\ \/ /\ \E same : pending' = (pending \ same) \cup {job[c].tx}
            /\ Move(c, [job[c] EXCEPT !.at = "wait"]) \/ Answer(c)
         \/ UNCHANGED pending /\ Answer(c)
  BY DEF SendTx
<1>2. SoundJob(job[c])
  BY <1>1 DEF Stage, LauncherInv
<1>3. job[c].tx \in Tx
  BY <1>1, <1>2 DEF Stage, SoundJob
<1>4. SoundJob([job[c] EXCEPT !.at = "wait"])
  BY <1>2, <1>3 DEF SoundJob
<1>5. pending' \subseteq Tx
  BY <1>1, <1>3 DEF LauncherInv
<1> QED
  BY <1>1, <1>4, <1>5, RequestKeeps DEF Answer

LEMMA WaitStep ==
    ASSUME LauncherInv, NEW c \in Client, Wait(c)
    PROVE  LauncherInv'
<1>1. Stage(c, "wait") /\ UNCHANGED <<tokens, live, mined, pending>>
  BY DEF Wait, chainVars
<1>2. SoundJob(job[c]) /\ pending' \subseteq Tx
  BY <1>1 DEF Stage, LauncherInv
<1>3. CASE Answer(c)
  BY <1>1, <1>2, <1>3, RequestKeeps DEF Answer
<1>4. ASSUME NEW r \in mined, r.kind = "created",
             Move(c, [job[c] EXCEPT !.at = "add", !.record = Record(r.tx, "backend")])
      PROVE  LauncherInv'
  <2>1. Deployed(Record(r.tx, "backend"))
    BY <1>4, RecordSound
  <2>2. SoundJob([job[c] EXCEPT !.at = "add", !.record = Record(r.tx, "backend")])
    <3> DEFINE j == [job[c] EXCEPT !.at = "add", !.record = Record(r.tx, "backend")]
    <3>1. j = [at |-> "add", tx |-> job[c].tx, record |-> Record(r.tx, "backend"),
               list |-> job[c].list, book |-> job[c].book]
      BY <1>2, JobWith DEF SoundJob
    <3> HIDE DEF j
    <3>2. SoundJob(j)
      BY <1>2, <2>1, <3>1 DEF SoundJob, Record
    <3> QED
      BY <3>2 DEF j
  <2> QED
    BY <1>1, <1>2, <1>4, <2>2, RequestKeeps
<1> QED
  BY <1>3, <1>4 DEF Wait

\* A record takes the place of those at its address.
LEMMA LoadListStep ==
    ASSUME LauncherInv, NEW c \in Client, LoadList(c)
    PROVE  LauncherInv'
<1> DEFINE r == job[c].record
           others == {t \in tokens : t.address # r.address}
           j == [job[c] EXCEPT !.at = IF @ = "add" THEN "save" ELSE "saveMirror",
                               !.list = others \cup {r}]
<1>1. /\ job[c] # NoJob /\ UNCHANGED <<tokens, live, mined, pending>>
      /\ Answer(c) \/ (tokens # Broken /\ Move(c, j))
  BY DEF LoadList, chainVars, Stage
<1>2. SoundJob(job[c]) /\ pending' \subseteq Tx
  BY <1>1 DEF LauncherInv
<1>3. ASSUME tokens # Broken PROVE SoundJob(j)
  <2>1. SoundList(tokens)
    BY <1>3 DEF LauncherInv
  <2>2. SoundList(others \cup {r})
    BY <1>2, <2>1 DEF SoundList, SoundJob
  <2> DEFINE step == IF job[c].at = "add" THEN "save" ELSE "saveMirror"
  <2>3. j = [at |-> step, tx |-> job[c].tx, record |-> job[c].record,
             list |-> others \cup {r}, book |-> job[c].book]
    <3>1. j = [job[c] EXCEPT !.at = step, !.list = others \cup {r}]
      OBVIOUS
    <3> HIDE DEF others, r, j, step
    <3> QED
      BY <1>2, <3>1, JobWith DEF SoundJob
  <2>4. step \in {"save", "saveMirror"}
    OBVIOUS
  <2> HIDE DEF others, r, j, step
  <2> QED
    BY <1>2, <2>2, <2>3, <2>4 DEF SoundJob
<1> HIDE DEF j
<1> QED
  BY <1>1, <1>2, <1>3, RequestKeeps DEF Answer

LEMMA SaveListStep ==
    ASSUME LauncherInv, NEW c \in Client, SaveList(c)
    PROVE  LauncherInv'
<1>1. /\ Stage(c, "save") \/ Stage(c, "saveMirror")
      /\ UNCHANGED <<live, mined, pending>>
      /\ tokens' \in {job[c].list, tokens, Broken}
      /\ Move(c, [job[c] EXCEPT !.at = "again"]) \/ Move(c, NoJob)
  BY DEF SaveList, chainVars, Written, Answer
<1>2. SoundJob(job[c]) /\ SoundList(job[c].list)
  BY <1>1 DEF LauncherInv, Stage, SoundJob
<1>3. SoundJob([job[c] EXCEPT !.at = "again"])
  BY <1>2 DEF SoundJob
<1>4. /\ (job = [d \in Client |-> job[d]])'
      /\ (\A d \in Client : job[d] # NoJob => SoundJob(job[d]))'
  BY <1>1, <1>3, GoesOn
<1>5. (tokens # Broken => SoundList(tokens))'
  <2>1. tokens' # Broken => SoundList(tokens')
    BY <1>1, <1>2 DEF LauncherInv
  <2> QED
    BY <1>1, <2>1 DEF SoundList, Deployed
<1>6. (live \notin {NoFile, Broken} => SoundBook(live))'
  BY <1>1, BookStays DEF LauncherInv
<1> QED
  BY <1>1, <1>4, <1>5, <1>6 DEF LauncherInv

LEMMA OtherFilesStep ==
    ASSUME LauncherInv, NEW c \in Client, LoadFile(c) \/ SaveFile(c)
    PROVE  LauncherInv'
<1>1. UNCHANGED <<tokens, live, mined, pending>> /\ job[c] # NoJob
  BY DEF LoadFile, SaveFile, chainVars, Stage
<1>2. SoundJob(job[c]) /\ pending' \subseteq Tx
  BY <1>1 DEF LauncherInv
<1>3. ASSUME NEW step \in {"savePools", "saveListings"}, NEW list
      PROVE  SoundJob([job[c] EXCEPT !.at = step, !.list = list])
  <2> DEFINE j == [job[c] EXCEPT !.at = step, !.list = list]
  <2>1. j = [at |-> step, tx |-> job[c].tx, record |-> job[c].record,
             list |-> list, book |-> job[c].book]
    BY <1>2, JobWith DEF SoundJob
  <2>2. step \notin {"send", "wait", "fix", "save", "saveMirror"}
    BY <1>3
  <2> HIDE DEF j
  <2>3. SoundJob(j)
    BY <1>2, <2>1, <2>2 DEF SoundJob
  <2> QED
    BY <2>3 DEF j
<1>4. \/ Move(c, NoJob)
      \/ \E step \in {"savePools", "saveListings"} : \E list :
            Move(c, [job[c] EXCEPT !.at = step, !.list = list])
  <2>1. CASE LoadFile(c)
    <3>1. CASE Stage(c, "loadPools")
      BY <2>1, <3>1 DEF LoadFile, Answer, Stage
    <3>2. CASE Stage(c, "loadListings")
      BY <2>1, <3>2 DEF LoadFile, Answer, Stage
    <3> QED
      BY <2>1, <3>1, <3>2 DEF LoadFile
  <2>2. CASE SaveFile(c)
    BY <2>2 DEF SaveFile, Answer
  <2> QED
    BY <2>1, <2>2
<1> QED
  BY <1>1, <1>2, <1>3, <1>4, RequestKeeps

-----------------------------------------------------------------------------
(* The book of mirrors *)

SoundMirror(m, ch) ==
    m \in Mirror /\ (m.verified \/ m.status = "live" => m.address \in Code(ch))

LEMMA BookIs ==
    ASSUME NEW canonical \in Address \cup {NoAddress}, NEW mirrors \in [Mirrors -> Mirror],
           \A ch \in Mirrors : SoundMirror(mirrors[ch], ch)
    PROVE  SoundBook([canonical |-> canonical, mirrors |-> mirrors])
BY DEF SoundBook, SoundMirror, Book

LEMMA MirrorOf ==
    ASSUME NEW b, SoundBook(b), NEW ch \in Mirrors
    PROVE  SoundMirror(b.mirrors[ch], ch) /\ b.canonical \in Address \cup {NoAddress}
BY DEF SoundBook, SoundMirror, Book

LEMMA SeenSound ==
    ASSUME LauncherInv, NEW ch, NEW m, SoundMirror(m, ch), NEW a
    PROVE  SoundMirror(Seen(m, ch, a), ch)
<1>1. CASE a \in Code(ch)
  BY <1>1, CodeTyped DEF SoundMirror, Seen, Mirror
<1>2. CASE a \notin Code(ch)
  BY <1>2 DEF SoundMirror, Seen, Mirror
<1> QED
  BY <1>1, <1>2

LEMMA ReloadedSound ==
    ASSUME NEW ch, NEW m, SoundMirror(m, ch), NEW answers
    PROVE  SoundMirror(Reloaded(m, ch, answers), ch)
<1>1. CASE m.address \in Code(ch) /\ ch \in answers
  BY <1>1 DEF SoundMirror, Reloaded, Mirror
<1>2. CASE ~(m.address \in Code(ch) /\ ch \in answers)
  <2> DEFINE v == m.verified /\ m.status = "live"
  <2>1. Reloaded(m, ch, answers) = [m EXCEPT !.verified = v]
    BY <1>2 DEF Reloaded
  <2>2. v \in BOOLEAN /\ (v => m.verified)
    OBVIOUS
  <2> HIDE DEF v
  <2> QED
    BY <2>1, <2>2 DEF SoundMirror, Mirror
<1> QED
  BY <1>1, <1>2

\* A mirror that is live or verified has an address of its own, so it is not the
\* book's that it is given.
LEMMA LoadedSound ==
    ASSUME LauncherAssumption, LauncherInv, NEW b \in LoadedBooks
    PROVE  SoundBook(b)
<1> DEFINE predicted(ch) == [address |-> Predicted[ch], status |-> "predicted", verified |-> FALSE]
           found == [ch \in Mirrors |-> IF Readable THEN live.mirrors[ch] ELSE predicted(ch)]
           known == {found[ch].address : ch \in Mirrors} \ {NoAddress}
           canonical == IF Readable /\ live.canonical # NoAddress THEN {live.canonical}
                        ELSE IF known = {} THEN {NoAddress} ELSE known
           given(a) == [ch \in Mirrors |->
                          [found[ch] EXCEPT !.address = IF @ = NoAddress THEN a ELSE @]]
<1>1. Readable => SoundBook(live)
  BY DEF LauncherInv, Readable
<1>2. ASSUME NEW ch \in Mirrors PROVE SoundMirror(found[ch], ch)
  <2>1. CASE Readable
    BY <1>1, <2>1, MirrorOf
  <2>2. CASE ~Readable
    <3>1. found[ch] = predicted(ch) /\ Predicted[ch] \in Address \cup {NoAddress}
      BY <2>2 DEF LauncherAssumption
    <3>2. predicted(ch) \in Mirror
      BY <3>1 DEF Mirror
    <3> QED
      BY <3>1, <3>2 DEF SoundMirror
  <2> QED
    BY <2>1, <2>2
<1>3. PICK a \in canonical : b = [canonical |-> a, mirrors |-> given(a)]
  BY DEF LoadedBooks
<1>4. a \in Address \cup {NoAddress}
  <2>1. known \subseteq Address
    BY <1>2 DEF SoundMirror, Mirror
  <2>2. Readable => live.canonical \in Address \cup {NoAddress}
    BY <1>1 DEF SoundBook, Book
  <2> HIDE DEF known
  <2> QED
    BY <2>1, <2>2
<1> HIDE DEF found
<1>5. ASSUME NEW ch \in Mirrors PROVE SoundMirror(given(a)[ch], ch)
  <2>1. SoundMirror(found[ch], ch)
    BY <1>2
  <2>2. CASE found[ch].address = NoAddress
    <3>1. NoAddress \notin Code(ch)
      BY CodeTyped DEF LauncherAssumption
    <3>2. ~found[ch].verified /\ found[ch].status # "live"
      BY <2>1, <2>2, <3>1 DEF SoundMirror
    <3>3. given(a)[ch] = [found[ch] EXCEPT !.address = a]
      BY <2>2
    <3> QED
      BY <1>4, <2>1, <3>2, <3>3 DEF SoundMirror, Mirror
  <2>3. CASE found[ch].address # NoAddress
    <3>1. given(a)[ch] = found[ch]
      BY <2>1, <2>3 DEF SoundMirror, Mirror
    <3> QED
      BY <2>1, <3>1
  <2> QED
    BY <2>2, <2>3
<1>6. given(a) \in [Mirrors -> Mirror]
  BY <1>5 DEF SoundMirror
<1> HIDE DEF given
<1> QED
  BY <1>3, <1>4, <1>5, <1>6, BookIs

\* The request's copy of the book with its mirrors changed.
LEMMA NewMirrors ==
    ASSUME LauncherInv, NEW c \in Client, SoundJob(job[c]), NEW step \in {"reload", "keep"},
           NEW x \in [Mirrors -> Mirror], \A ch \in Mirrors : SoundMirror(x[ch], ch)
    PROVE  SoundJob([job[c] EXCEPT !.at = step, !.book.mirrors = x])
<1> DEFINE b == job[c].book
           nb == [canonical |-> b.canonical, mirrors |-> x]
           j == [job[c] EXCEPT !.at = step, !.book.mirrors = x]
<1>1. b \in Book /\ b.canonical \in Address \cup {NoAddress}
  BY DEF SoundJob, SoundBook, Book
<1>2. [b EXCEPT !.mirrors = x] = nb
  BY <1>1 DEF Book
<1>3. j = [job[c] EXCEPT !.at = step, !.book = [b EXCEPT !.mirrors = x]]
  BY Zenon
<1>4. j = [at |-> step, tx |-> job[c].tx, record |-> job[c].record, list |-> job[c].list, book |-> nb]
  <2> HIDE DEF j, nb
  <2> QED
    BY <1>2, <1>3, JobWith DEF SoundJob
<1>5. SoundBook(nb)
  BY <1>1, BookIs
<1> HIDE DEF j, nb
<1>6. step \notin {"send", "wait", "fix", "save", "saveMirror"}
  OBVIOUS
<1>7. SoundJob(j)
  BY <1>4, <1>5, <1>6 DEF SoundJob
<1> QED
  BY <1>7 DEF j

LEMMA VerifyStep ==
    ASSUME LauncherInv, NEW c \in Client, Verify(c)
    PROVE  LauncherInv'
<1> DEFINE b == job[c].book
           x(answers) == [ch \in Mirrors |-> IF ch \in answers /\ b.canonical # NoAddress
                                             THEN Seen(b.mirrors[ch], ch, b.canonical)
                                             ELSE b.mirrors[ch]]
<1>1. job[c] # NoJob /\ UNCHANGED <<tokens, live, mined, pending>>
  BY DEF Verify, Stage, chainVars
<1>2. SoundJob(job[c]) /\ SoundBook(b) /\ pending' \subseteq Tx
  BY <1>1 DEF LauncherInv, SoundJob
<1>3. PICK answers \in SUBSET Mirrors :
         Move(c, [job[c] EXCEPT !.at = "reload", !.book.mirrors = x(answers)])
  BY DEF Verify
<1>4. ASSUME NEW ch \in Mirrors PROVE SoundMirror(x(answers)[ch], ch)
  BY <1>2, MirrorOf, SeenSound
<1>5. x(answers) \in [Mirrors -> Mirror]
  BY <1>4 DEF SoundMirror
<1> HIDE DEF x
<1> QED
  BY <1>1, <1>2, <1>3, <1>4, <1>5, NewMirrors, RequestKeeps

LEMMA ReloadStep ==
    ASSUME LauncherInv, NEW c \in Client, Reload(c)
    PROVE  LauncherInv'
<1> DEFINE b == job[c].book
           x(answers) == [ch \in Mirrors |-> Reloaded(b.mirrors[ch], ch, answers)]
<1>1. job[c] # NoJob /\ UNCHANGED <<tokens, live, mined, pending>>
  BY DEF Reload, Stage, chainVars
<1>2. SoundJob(job[c]) /\ SoundBook(b) /\ pending' \subseteq Tx
  BY <1>1 DEF LauncherInv, SoundJob
<1>3. PICK answers \in SUBSET Mirrors :
         Move(c, [job[c] EXCEPT !.at = "keep", !.book.mirrors = x(answers)])
  BY DEF Reload
<1>4. ASSUME NEW ch \in Mirrors PROVE SoundMirror(x(answers)[ch], ch)
  BY <1>2, MirrorOf, ReloadedSound
<1>5. x(answers) \in [Mirrors -> Mirror]
  BY <1>4 DEF SoundMirror
<1> HIDE DEF x
<1> QED
  BY <1>1, <1>2, <1>3, <1>4, <1>5, NewMirrors, RequestKeeps

LEMMA KeepStep ==
    ASSUME LauncherInv, NEW c \in Client, Keep(c)
    PROVE  LauncherInv'
<1>1. /\ job[c] # NoJob /\ UNCHANGED <<tokens, mined, pending>>
      /\ live' \in {job[c].book, live, Broken} /\ Move(c, NoJob)
  BY DEF Keep, Stage, chainVars, Written, Answer
<1>2. SoundBook(job[c].book)
  BY <1>1 DEF LauncherInv, SoundJob
<1>3. live' \notin {NoFile, Broken} => SoundBook(live')
  BY <1>1, <1>2 DEF LauncherInv
<1>4. (live \notin {NoFile, Broken} => SoundBook(live))'
  BY <1>1, <1>3 DEF SoundBook, Code
<1>5. (tokens # Broken => SoundList(tokens))'
  BY <1>1, DeployedStays DEF LauncherInv, SoundList
<1>6. /\ (job = [d \in Client |-> job[d]])'
      /\ (\A d \in Client : job[d] # NoJob => SoundJob(job[d]))'
  BY <1>1, GoesOn
<1> QED
  BY <1>1, <1>4, <1>5, <1>6 DEF LauncherInv

LEMMA FixStep ==
    ASSUME LauncherAssumption, LauncherInv, NEW c \in Client, Fix(c)
    PROVE  LauncherInv'
<1>1. job[c] # NoJob /\ UNCHANGED <<tokens, live, mined, pending>>
  BY DEF Fix, Stage, chainVars
<1>2. SoundJob(job[c]) /\ pending' \subseteq Tx
  BY <1>1 DEF LauncherInv
<1>3. PICK b \in LoadedBooks :
         \/ /\ Stage(c, "fix")
            /\ Move(c, IF b.canonical = NoAddress THEN [job[c] EXCEPT !.at = "again"]
                     ELSE [job[c] EXCEPT !.at = "upsert", !.record.address = b.canonical])
         \/ Move(c, [job[c] EXCEPT !.at = "reload", !.book = b])
         \/ Move(c, NoJob)
  BY DEF Fix, Answer
<1>4. SoundJob([job[c] EXCEPT !.at = "again"])
  BY <1>2 DEF SoundJob
<1>5. SoundJob([job[c] EXCEPT !.at = "reload", !.book = b])
  <2> DEFINE j == [job[c] EXCEPT !.at = "reload", !.book = b]
  <2>1. j = [at |-> "reload", tx |-> job[c].tx, record |-> job[c].record,
             list |-> job[c].list, book |-> b]
    <3>1. j = [job[c] EXCEPT !.at = "reload", !.book = b]
      OBVIOUS
    <3> HIDE DEF j
    <3> QED
      BY <1>2, <3>1, JobWith DEF SoundJob
  <2>2. SoundBook(b)
    BY LoadedSound
  <2> HIDE DEF j
  <2>3. SoundJob(j)
    BY <1>2, <2>1, <2>2 DEF SoundJob
  <2> QED
    BY <2>3 DEF j
<1>6. ASSUME Stage(c, "fix")
      PROVE  SoundJob([job[c] EXCEPT !.at = "upsert", !.record.address = b.canonical])
  <2> DEFINE r == job[c].record
             nr == [r EXCEPT !.address = b.canonical]
             j == [job[c] EXCEPT !.at = "upsert", !.record.address = b.canonical]
  <2>1. r = [address |-> r.address, tx |-> r.tx, chain |-> r.chain, deployMethod |-> r.deployMethod]
        /\ r.deployMethod = "mirror"
    BY <1>2, <1>6 DEF SoundJob, Stage
  <2>2. nr = [address |-> b.canonical, tx |-> r.tx, chain |-> r.chain, deployMethod |-> r.deployMethod]
    BY <2>1
  <2>3. j = [job[c] EXCEPT !.at = "upsert", !.record = nr]
    BY Zenon
  <2>4. j = [at |-> "upsert", tx |-> job[c].tx, record |-> nr, list |-> job[c].list, book |-> job[c].book]
    <3> HIDE DEF j, nr
    <3> QED
      BY <1>2, <2>3, JobWith DEF SoundJob
  <2> HIDE DEF j, nr
  <2>5. Deployed(nr) /\ nr.deployMethod = "mirror"
    BY <2>1, <2>2 DEF Deployed
  <2>6. SoundJob(j)
    BY <1>2, <2>2, <2>4, <2>5 DEF SoundJob
  <2> QED
    BY <2>6 DEF j
<1>7. CASE Move(c, NoJob)
  BY <1>1, <1>2, <1>7, RequestKeeps
<1>8. CASE Move(c, [job[c] EXCEPT !.at = "reload", !.book = b])
  BY <1>1, <1>2, <1>5, <1>8, RequestKeeps
<1>9. CASE Stage(c, "fix") /\ Move(c, [job[c] EXCEPT !.at = "again"])
  BY <1>1, <1>2, <1>4, <1>9, RequestKeeps
<1>10. CASE /\ Stage(c, "fix")
            /\ Move(c, [job[c] EXCEPT !.at = "upsert", !.record.address = b.canonical])
  BY <1>1, <1>2, <1>6, <1>10, RequestKeeps
<1> QED
  BY <1>3, <1>7, <1>8, <1>9, <1>10

-----------------------------------------------------------------------------
(* Requests that begin, the chains, and stops *)

LEMMA FreshSound ==
    ASSUME NEW j, j = [at |-> j.at, tx |-> j.tx, record |-> j.record, list |-> j.list, book |-> j.book],
           j.at \in {"send", "wait"} => j.tx \in Tx,
           j.at \notin {"save", "saveMirror"}, j.record = NoRecord, SoundBook(j.book)
    PROVE  SoundJob(j)
BY DEF SoundJob, NoRecord, Deployed

LEMMA NoBookSound == SoundBook(NoBook)
BY DEF SoundBook, NoBook, Book, Mirror

LEMMA BeginStep ==
    ASSUME LauncherAssumption, LauncherInv, NEW c \in Client, LauncherBegin(c)
    PROVE  LauncherInv'
<1>1. UNCHANGED <<tokens, live, mined, pending>> /\ mined \subseteq mined' /\ pending' \subseteq Tx
  BY DEF LauncherBegin, chainVars, LauncherInv
<1>2. ASSUME NEW j, SoundJob(j), job' = [job EXCEPT ![c] = j]
      PROVE  LauncherInv'
  <2>1. ASSUME NEW d \in Client, job'[d] # NoJob
        PROVE  SoundJob(job[d])'
    <3>1. PICK k : k = job'[d]
      OBVIOUS
    <3>2. SoundJob(k)
      BY <1>2, <2>1, <3>1 DEF LauncherInv
    <3>3. SoundJob(k)'
      BY <1>1, <3>2, JobStays
    <3> QED
      BY <3>1, <3>3 DEF SoundJob, SoundList, SoundBook, Deployed, Code
  <2>2. (job = [d \in Client |-> job[d]])'
    BY <1>2 DEF LauncherInv
  <2> QED
    BY <1>1, <2>1, <2>2, FilesStay DEF LauncherInv
<1>3. ASSUME NEW list, NEW step \in {"loadPools", "loadListings"},
             job' = [job EXCEPT ![c] = [Fresh(step) EXCEPT !.list = list]]
      PROVE  LauncherInv'
  <2> DEFINE j == [Fresh(step) EXCEPT !.list = list]
  <2>1. j = [at |-> step, tx |-> NoTx, record |-> NoRecord, list |-> list, book |-> NoBook]
    BY DEF Fresh
  <2> HIDE DEF j
  <2>2. SoundJob(j)
    BY <1>3, <2>1, FreshSound, NoBookSound
  <2> QED
    BY <1>2, <1>3, <2>2 DEF j
<1>4. ASSUME NEW ch \in Chain, PendingNonceAt(ch, Deployer) \in 0..MaxNonce,
             job' = [job EXCEPT ![c] =
                       [Fresh("send") EXCEPT !.tx = [chain |-> ch, from |-> Deployer,
                                                     nonce |-> PendingNonceAt(ch, Deployer), by |-> c]]]
      PROVE  LauncherInv'
  <2> DEFINE tx == [chain |-> ch, from |-> Deployer, nonce |-> PendingNonceAt(ch, Deployer), by |-> c]
             j == [Fresh("send") EXCEPT !.tx = tx]
  <2>1. tx \in Tx
    BY <1>4 DEF Tx, Sender
  <2> HIDE DEF tx
  <2>2. j = [at |-> "send", tx |-> tx, record |-> NoRecord, list |-> {}, book |-> NoBook]
    BY DEF Fresh
  <2> HIDE DEF j
  <2>3. SoundJob(j)
    BY <2>1, <2>2, FreshSound, NoBookSound
  <2> QED
    BY <1>2, <1>4, <2>3 DEF j, tx
<1>5. ASSUME NEW r \in mined, r.kind = "created", NEW a,
             job' = [job EXCEPT ![c] = [Fresh("add") EXCEPT !.record = Verified(r, a)]]
      PROVE  LauncherInv'
  <2> DEFINE j == [Fresh("add") EXCEPT !.record = Verified(r, a)]
  <2>1. j = [at |-> "add", tx |-> NoTx, record |-> Record(r.tx, "metamask"), list |-> {}, book |-> NoBook]
    BY DEF Fresh, Verified
  <2>2. Deployed(Record(r.tx, "metamask"))
    BY <1>5, RecordSound
  <2> HIDE DEF j
  <2>3. SoundJob(j)
    BY <2>1, <2>2, NoBookSound DEF SoundJob, Record
  <2> QED
    BY <1>2, <1>5, <2>3 DEF j
<1>6. ASSUME job' = [job EXCEPT ![c] = Fresh("fix")]
      PROVE  LauncherInv'
  <2>1. SoundJob(Fresh("fix"))
    BY NoBookSound DEF Fresh, SoundJob, NoRecord, Deployed
  <2> QED
    BY <1>2, <1>6, <2>1
<1>7. ASSUME NEW step \in {"verify", "reload"}, NEW b \in LoadedBooks,
             job' = [job EXCEPT ![c] = [Fresh(step) EXCEPT !.book = b]]
      PROVE  LauncherInv'
  <2> DEFINE j == [Fresh(step) EXCEPT !.book = b]
  <2>1. j = [at |-> step, tx |-> NoTx, record |-> NoRecord, list |-> {}, book |-> b]
    BY DEF Fresh
  <2>2. SoundBook(b)
    BY LoadedSound
  <2> HIDE DEF j
  <2>3. SoundJob(j)
    BY <1>7, <2>1, <2>2, FreshSound
  <2> QED
    BY <1>2, <1>7, <2>3 DEF j
<1> QED
  BY <1>3, <1>4, <1>5, <1>6, <1>7 DEF LauncherBegin

\* A transaction that is mined, or that a wallet has mined.
LEMMA MinedKeeps ==
    ASSUME LauncherInv, NEW t \in Tx, NEW kind \in {"created", "failed", "call"},
           mined' = mined \cup {[tx |-> t, kind |-> kind]},
           pending' \subseteq pending, UNCHANGED <<tokens, live, job>>
    PROVE  LauncherInv'
<1>1. mined \subseteq mined' /\ mined' \subseteq Receipt /\ pending' \subseteq Tx
  BY DEF LauncherInv, Receipt
<1>2. ASSUME NEW d \in Client, job[d] # NoJob
      PROVE  SoundJob(job[d])'
  <2>1. PICK k : k = job[d]
    OBVIOUS
  <2>2. SoundJob(k)'
    BY <1>1, <1>2, <2>1, JobStays DEF LauncherInv
  <2>3. k = job'[d]
    BY <2>1
  <2> QED
    BY <2>2, <2>3 DEF SoundJob, SoundList, SoundBook, Deployed, Code
<1> QED
  BY <1>1, <1>2, FilesStay DEF LauncherInv

LEMMA ChainSteps ==
    ASSUME LauncherAssumption, LauncherInv,
           \/ \E t \in pending : Mine(t)
           \/ \E ch \in Chain : WalletSends(ch)
    PROVE  LauncherInv'
<1>1. ASSUME NEW t \in pending, Mine(t) PROVE LauncherInv'
  <2>1. t \in Tx
    BY DEF LauncherInv
  <2>2. PICK kind \in {"created", "failed"} : mined' = mined \cup {[tx |-> t, kind |-> kind]}
    BY <1>1 DEF Mine
  <2>3. pending' \subseteq pending /\ UNCHANGED <<tokens, live, job>>
    BY <1>1 DEF Mine
  <2> QED
    BY <2>1, <2>2, <2>3, MinedKeeps
<1>2. ASSUME NEW ch \in Chain, WalletSends(ch) PROVE LauncherInv'
  <2> DEFINE t == [chain |-> ch, from |-> Wallet, nonce |-> NonceAt(ch, Wallet), by |-> Wallet]
  <2>1. t \in Tx
    BY <1>2 DEF WalletSends, Tx, Sender
  <2>2. PICK kind \in {"created", "failed", "call"} : mined' = mined \cup {[tx |-> t, kind |-> kind]}
    BY <1>2 DEF WalletSends
  <2>3. pending' \subseteq pending /\ UNCHANGED <<tokens, live, job>>
    BY <1>2 DEF WalletSends
  <2> HIDE DEF t
  <2> QED
    BY <2>1, <2>2, <2>3, MinedKeeps
<1> QED
  BY <1>1, <1>2

LEMMA StopStep ==
    ASSUME LauncherInv, LauncherStop
    PROVE  LauncherInv'
<1>1. UNCHANGED <<tokens, live, mined, pending>> /\ mined \subseteq mined'
  BY DEF LauncherStop, chainVars
<1>2. job' = [c \in Client |-> NoJob]
  BY DEF LauncherStop
<1> QED
  BY <1>1, <1>2, FilesStay DEF LauncherInv

-----------------------------------------------------------------------------

LEMMA LauncherInitKeeps == LauncherInit => LauncherInv
BY DEF LauncherInit, LauncherInv, SoundList

LEMMA LauncherNextKeeps ==
    ASSUME LauncherAssumption, LauncherInv, [LauncherNext]_launcherVars
    PROVE  LauncherInv'
<1>1. ASSUME NEW c \in Client, LauncherBegin(c) PROVE LauncherInv'
  BY <1>1, BeginStep
<1>2. ASSUME NEW c \in Client, LauncherStep(c) PROVE LauncherInv'
  BY <1>2, SendStep, WaitStep, LoadListStep, SaveListStep, OtherFilesStep,
     VerifyStep, ReloadStep, KeepStep, FixStep DEF LauncherStep
<1>3. CASE LauncherStop
  BY <1>3, StopStep
<1>4. CASE \/ \E t \in pending : Mine(t)
           \/ \E ch \in Chain : WalletSends(ch)
  BY <1>4, ChainSteps
<1>5. CASE UNCHANGED launcherVars
  BY <1>5 DEF launcherVars, LauncherInv, SoundList, SoundBook, SoundJob, Deployed, Code
<1> QED
  BY <1>1, <1>2, <1>3, <1>4, <1>5 DEF LauncherNext

\* What the files and every request's copy of them say was deployed was.
THEOREM LauncherInvariant ==
    ASSUME LauncherAssumption
    PROVE  LauncherSpec => []LauncherInv
<1>1. LauncherInit => LauncherInv
  BY LauncherInitKeeps
<1>2. LauncherInv /\ [LauncherNext]_launcherVars => LauncherInv'
  BY LauncherNextKeeps
<1> QED
  BY <1>1, <1>2, PTL DEF LauncherSpec

\* However deployments and registrations overlap, are lost or fail, the
\* transaction of a registered token made the contract at its address, and no
\* address is registered twice.
THEOREM RecordsAreDeployed ==
    ASSUME LauncherAssumption
    PROVE  LauncherSpec => []RegisteredIsDeployed
<1>1. LauncherInv => RegisteredIsDeployed
  BY DEF LauncherInv, SoundList, Deployed, RegisteredIsDeployed
<1> QED
  BY <1>1, LauncherInvariant, PTL

\* A mirror the live file calls live or verified has its contract at the address
\* beside it, whichever of the two checks said so.
THEOREM LiveMirrorsAreDeployed ==
    ASSUME LauncherAssumption
    PROVE  LauncherSpec => []LiveIsDeployed
<1>1. LauncherInv => LiveIsDeployed
  BY DEF LauncherInv, SoundBook, Readable, LiveIsDeployed
<1> QED
  BY <1>1, LauncherInvariant, PTL

-----------------------------------------------------------------------------
(* The types of the launcher's files, and of what a request is about to     *)
(* write to each                                                            *)

TypedJob(j) ==
    /\ j.at \in {"add", "upsert"} => j.record \in TokenRecord
    /\ j.at = "fix" => j.record = NoRecord
    /\ j.at \in {"save", "saveMirror"} => j.list \subseteq TokenRecord
    /\ j.at \in {"loadPools", "savePools"} => j.list \subseteq 0..MaxBegun
    /\ j.at \in {"loadListings", "saveListings"} => j.list \subseteq Listing

TypedFiles ==
    /\ tokens \in (SUBSET TokenRecord) \cup {Broken}
    /\ liquidity \in (SUBSET (0..MaxBegun)) \cup {Broken}
    /\ listings \in (SUBSET Listing) \cup {Broken}

LauncherTypeInv ==
    /\ TypedFiles /\ begun \in Nat
    /\ \A c \in Client : job[c] # NoJob => TypedJob(job[c])

\* A request goes on with what it may write, or ends.
LEMMA TypedGoesOn ==
    ASSUME LauncherInv, LauncherTypeInv, NEW c \in Client, NEW j, job' = [job EXCEPT ![c] = j],
           j = NoJob \/ TypedJob(j)
    PROVE  \A d \in Client : job'[d] # NoJob => TypedJob(job'[d])
<1> SUFFICES ASSUME NEW d \in Client, job'[d] # NoJob PROVE TypedJob(job'[d])
  OBVIOUS
<1>1. job = [e \in Client |-> job[e]]
  BY DEF LauncherInv
<1>2. CASE d = c
  <2>1. job'[d] = j
    BY <1>1, <1>2
  <2> QED
    BY <2>1
<1>3. CASE d # c
  <2>1. job'[d] = job[d]
    BY <1>1, <1>3
  <2> QED
    BY <2>1 DEF LauncherTypeInv
<1> QED
  BY <1>2, <1>3

\* A step of a request that writes none of these files.
LEMMA TypedRequest ==
    ASSUME LauncherInv, LauncherTypeInv, NEW c \in Client, NEW j, Move(c, j),
           j = NoJob \/ TypedJob(j), UNCHANGED <<tokens, liquidity, listings>>
    PROVE  LauncherTypeInv'
<1>1. \A d \in Client : job'[d] # NoJob => TypedJob(job'[d])
  BY TypedGoesOn DEF Move
<1> QED
  BY <1>1 DEF LauncherTypeInv, TypedFiles, Move, TypedJob

LEMMA ReceiptTyped ==
    ASSUME LauncherInv, NEW m \in mined
    PROVE  m.tx \in Tx /\ AddressOf(m.tx) \in Address
<1>1. m.tx \in Tx
  BY DEF LauncherInv, Receipt
<1> QED
  BY <1>1 DEF Tx, Address, AddressOf

LEMMA RecordTyped ==
    ASSUME LauncherInv, NEW m \in mined, NEW how \in {"backend", "metamask"}
    PROVE  Record(m.tx, how) \in TokenRecord
<1>1. m.tx.chain \in Chain
  BY ReceiptTyped DEF Tx
<1> QED
  BY <1>1, ReceiptTyped DEF Record, TokenRecord

LEMMA DeployTypes ==
    ASSUME LauncherInv, LauncherTypeInv, NEW c \in Client, SendTx(c) \/ Wait(c)
    PROVE  LauncherTypeInv'
<1>1. UNCHANGED <<tokens, liquidity, listings>> /\ job[c] # NoJob
  BY DEF SendTx, Wait, Stage
<1>2. SoundJob(job[c])
  BY <1>1 DEF LauncherInv
<1>3. TypedJob([job[c] EXCEPT !.at = "wait"])
  <2>1. PICK j : j = [job[c] EXCEPT !.at = "wait"]
    OBVIOUS
  <2>2. j.at = "wait"
    BY <1>2, <2>1 DEF SoundJob
  <2> QED
    BY <2>1, <2>2 DEF TypedJob
<1>4. ASSUME NEW r \in mined
      PROVE  TypedJob([job[c] EXCEPT !.at = "add", !.record = Record(r.tx, "backend")])
  <2>1. PICK j : j = [job[c] EXCEPT !.at = "add", !.record = Record(r.tx, "backend")]
    OBVIOUS
  <2>2. j = [at |-> "add", tx |-> job[c].tx, record |-> Record(r.tx, "backend"),
             list |-> job[c].list, book |-> job[c].book]
    BY <1>2, <2>1, JobWith DEF SoundJob
  <2>3. Record(r.tx, "backend") \in TokenRecord
    BY RecordTyped
  <2>4. TypedJob(j)
    BY <2>2, <2>3 DEF TypedJob
  <2> QED
    BY <2>1, <2>4
<1>5. CASE SendTx(c)
  BY <1>1, <1>3, <1>5, TypedRequest DEF SendTx, Answer
<1>6. CASE Wait(c)
  BY <1>1, <1>4, <1>6, TypedRequest DEF Wait, Answer
<1> QED
  BY <1>5, <1>6

LEMMA LoadListTypes ==
    ASSUME LauncherInv, LauncherTypeInv, NEW c \in Client, LoadList(c)
    PROVE  LauncherTypeInv'
<1> DEFINE r == job[c].record
           others == {t \in tokens : t.address # r.address}
           j == [job[c] EXCEPT !.at = IF @ = "add" THEN "save" ELSE "saveMirror",
                               !.list = others \cup {r}]
<1>1. /\ job[c] # NoJob /\ UNCHANGED <<tokens, liquidity, listings>>
      /\ job[c].at \in {"add", "upsert"}
      /\ Answer(c) \/ (tokens # Broken /\ Move(c, j))
  BY DEF LoadList, Stage
<1>2. SoundJob(job[c]) /\ r \in TokenRecord
  BY <1>1 DEF LauncherInv, LauncherTypeInv, TypedJob
<1>3. ASSUME tokens # Broken PROVE TypedJob(j)
  <2>1. others \cup {r} \subseteq TokenRecord
    BY <1>2, <1>3 DEF LauncherTypeInv, TypedFiles
  <2> DEFINE step == IF job[c].at = "add" THEN "save" ELSE "saveMirror"
  <2>2. j = [at |-> step, tx |-> job[c].tx, record |-> job[c].record,
             list |-> others \cup {r}, book |-> job[c].book]
    <3>1. j = [job[c] EXCEPT !.at = step, !.list = others \cup {r}]
      OBVIOUS
    <3> HIDE DEF others, r, j, step
    <3> QED
      BY <1>2, <3>1, JobWith DEF SoundJob
  <2>3. step \in {"save", "saveMirror"}
    OBVIOUS
  <2> HIDE DEF others, r, j, step
  <2> QED
    BY <2>1, <2>2, <2>3 DEF TypedJob
<1> HIDE DEF j
<1> QED
  BY <1>1, <1>3, TypedRequest DEF Answer

LEMMA SaveListTypes ==
    ASSUME LauncherInv, LauncherTypeInv, NEW c \in Client, SaveList(c)
    PROVE  LauncherTypeInv'
<1>1. /\ job[c] # NoJob /\ job[c].at \in {"save", "saveMirror"}
      /\ UNCHANGED <<liquidity, listings, begun>>
      /\ tokens' \in {job[c].list, tokens, Broken}
      /\ \/ job' = [job EXCEPT ![c] = [job[c] EXCEPT !.at = "again"]]
         \/ job' = [job EXCEPT ![c] = NoJob]
  BY DEF SaveList, Written, Answer, Stage, Move
<1>2. job[c].list \subseteq TokenRecord /\ SoundJob(job[c])
  BY <1>1 DEF LauncherTypeInv, TypedJob, LauncherInv
<1>3. TypedJob([job[c] EXCEPT !.at = "again"])
  <2>1. PICK j : j = [job[c] EXCEPT !.at = "again"]
    OBVIOUS
  <2>2. j.at = "again"
    BY <1>2, <2>1 DEF SoundJob
  <2> QED
    BY <2>1, <2>2 DEF TypedJob
<1>4. \A d \in Client : job'[d] # NoJob => TypedJob(job'[d])
  BY <1>1, <1>3, TypedGoesOn
<1>5. TypedFiles'
  BY <1>1, <1>2 DEF LauncherTypeInv, TypedFiles
<1> QED
  BY <1>1, <1>4, <1>5 DEF LauncherTypeInv, TypedJob

LEMMA LoadFileTypes ==
    ASSUME LauncherInv, LauncherTypeInv, NEW c \in Client, LoadFile(c)
    PROVE  LauncherTypeInv'
<1>1. UNCHANGED <<tokens, liquidity, listings>> /\ job[c] # NoJob
  BY DEF LoadFile, Stage
<1>2. SoundJob(job[c]) /\ TypedJob(job[c])
  BY <1>1 DEF LauncherInv, LauncherTypeInv
<1>3. ASSUME NEW list, NEW step,
             \/ step = "savePools" /\ list \subseteq 0..MaxBegun
             \/ step = "saveListings" /\ list \subseteq Listing
      PROVE  TypedJob([job[c] EXCEPT !.at = step, !.list = list])
  <2> DEFINE j == [job[c] EXCEPT !.at = step, !.list = list]
  <2>1. j = [at |-> step, tx |-> job[c].tx, record |-> job[c].record,
             list |-> list, book |-> job[c].book]
    BY <1>2, JobWith DEF SoundJob
  <2> HIDE DEF j
  <2>2. TypedJob(j)
    BY <1>3, <2>1 DEF TypedJob
  <2> QED
    BY <2>2 DEF j
<1>4. CASE Stage(c, "loadPools")
  <2>1. job[c].at = "loadPools" /\ job[c].list \subseteq 0..MaxBegun
    BY <1>2, <1>4 DEF Stage, TypedJob
  <2>2. \/ Move(c, NoJob)
        \/ /\ liquidity # Broken
           /\ Move(c, [job[c] EXCEPT !.at = "savePools", !.list = job[c].list \cup liquidity])
    BY <2>1 DEF LoadFile, Answer, Stage
  <2>3. ASSUME liquidity # Broken PROVE job[c].list \cup liquidity \subseteq 0..MaxBegun
    BY <2>1, <2>3 DEF LauncherTypeInv, TypedFiles
  <2>4. ASSUME liquidity # Broken
        PROVE TypedJob([job[c] EXCEPT !.at = "savePools", !.list = job[c].list \cup liquidity])
    BY <1>3, <2>3, <2>4
  <2> QED
    BY <1>1, <2>2, <2>4, TypedRequest
<1>5. CASE Stage(c, "loadListings")
  <2> DEFINE read == IF listings = Broken THEN {} ELSE listings
  <2>1. job[c].at = "loadListings" /\ job[c].list \subseteq Listing
    BY <1>2, <1>5 DEF Stage, TypedJob
  <2>2. Move(c, [job[c] EXCEPT !.at = "saveListings", !.list = job[c].list \cup read])
    BY <2>1 DEF LoadFile, Stage
  <2>3. job[c].list \cup read \subseteq Listing
    BY <2>1 DEF LauncherTypeInv, TypedFiles
  <2> HIDE DEF read
  <2>4. TypedJob([job[c] EXCEPT !.at = "saveListings", !.list = job[c].list \cup read])
    BY <1>3, <2>3
  <2> QED
    BY <1>1, <2>2, <2>4, TypedRequest
<1> QED
  BY <1>4, <1>5 DEF LoadFile

LEMMA SaveFileTypes ==
    ASSUME LauncherInv, LauncherTypeInv, NEW c \in Client, SaveFile(c)
    PROVE  LauncherTypeInv'
<1>1. job' = [job EXCEPT ![c] = NoJob] /\ UNCHANGED <<tokens, begun>> /\ job[c] # NoJob
  BY DEF SaveFile, Answer, Move, Stage
<1>2. TypedJob(job[c])
  BY <1>1 DEF LauncherTypeInv
<1>3. \A d \in Client : job'[d] # NoJob => TypedJob(job'[d])
  BY <1>1, TypedGoesOn
<1>4. CASE /\ Stage(c, "savePools") /\ liquidity' \in Written(job[c].list, liquidity)
           /\ UNCHANGED listings
  <2>1. job[c].list \subseteq 0..MaxBegun /\ liquidity' \in {job[c].list, liquidity, Broken}
    BY <1>2, <1>4 DEF Stage, TypedJob, Written
  <2>2. TypedFiles'
    BY <1>1, <1>4, <2>1 DEF LauncherTypeInv, TypedFiles
  <2> QED
    BY <1>1, <1>3, <2>2 DEF LauncherTypeInv, TypedJob
<1>5. CASE /\ Stage(c, "saveListings") /\ listings' \in Written(job[c].list, listings)
           /\ UNCHANGED liquidity
  <2>1. job[c].list \subseteq Listing /\ listings' \in {job[c].list, listings, Broken}
    BY <1>2, <1>5 DEF Stage, TypedJob, Written
  <2>2. TypedFiles'
    BY <1>1, <1>5, <2>1 DEF LauncherTypeInv, TypedFiles
  <2> QED
    BY <1>1, <1>3, <2>2 DEF LauncherTypeInv, TypedJob
<1> QED
  BY <1>4, <1>5 DEF SaveFile

LEMMA BookTypes ==
    ASSUME LauncherInv, LauncherTypeInv, NEW c \in Client, Verify(c) \/ Reload(c) \/ Keep(c)
    PROVE  LauncherTypeInv'
<1>1. UNCHANGED <<tokens, liquidity, listings>> /\ job[c] # NoJob
  BY DEF Verify, Reload, Keep, Stage
<1>2. SoundJob(job[c])
  BY <1>1 DEF LauncherInv
<1>3. ASSUME NEW step \in {"reload", "keep"}, NEW x
      PROVE  TypedJob([job[c] EXCEPT !.at = step, !.book.mirrors = x])
  <2>1. PICK b : b = [job[c].book EXCEPT !.mirrors = x]
    OBVIOUS
  <2>2. PICK j : j = [job[c] EXCEPT !.at = step, !.book.mirrors = x]
    OBVIOUS
  <2>3. j = [job[c] EXCEPT !.at = step, !.book = b]
    BY <2>1, <2>2, Zenon
  <2>4. j.at = step
    BY <1>2, <2>3 DEF SoundJob
  <2>5. TypedJob(j)
    BY <2>4 DEF TypedJob
  <2> QED
    BY <2>2, <2>5
<1>4. CASE Verify(c)
  <2>1. \E x : Move(c, [job[c] EXCEPT !.at = "reload", !.book.mirrors = x])
    BY <1>4 DEF Verify
  <2> QED
    BY <1>1, <1>3, <2>1, TypedRequest
<1>5. CASE Reload(c)
  <2>1. \E x : Move(c, [job[c] EXCEPT !.at = "keep", !.book.mirrors = x])
    BY <1>5 DEF Reload
  <2> QED
    BY <1>1, <1>3, <2>1, TypedRequest
<1>6. CASE Keep(c)
  BY <1>1, <1>6, TypedRequest DEF Keep, Answer
<1> QED
  BY <1>4, <1>5, <1>6

\* The flash coin is registered on the default chain, at an address the book has.
LEMMA FixTypes ==
    ASSUME LauncherAssumption, LauncherInv, LauncherTypeInv, NEW c \in Client, Fix(c)
    PROVE  LauncherTypeInv'
<1>1. UNCHANGED <<tokens, liquidity, listings>> /\ job[c] # NoJob
  BY DEF Fix, Stage
<1>2. SoundJob(job[c]) /\ TypedJob(job[c])
  BY <1>1 DEF LauncherInv, LauncherTypeInv
<1>3. PICK b \in LoadedBooks :
         \/ /\ Stage(c, "fix")
            /\ Move(c, IF b.canonical = NoAddress THEN [job[c] EXCEPT !.at = "again"]
                     ELSE [job[c] EXCEPT !.at = "upsert", !.record.address = b.canonical])
         \/ Move(c, [job[c] EXCEPT !.at = "reload", !.book = b])
         \/ Move(c, NoJob)
  BY DEF Fix, Answer
<1>4. TypedJob([job[c] EXCEPT !.at = "again"])
  <2>1. PICK j : j = [job[c] EXCEPT !.at = "again"]
    OBVIOUS
  <2>2. j.at = "again"
    BY <1>2, <2>1 DEF SoundJob
  <2> QED
    BY <2>1, <2>2 DEF TypedJob
<1>5. TypedJob([job[c] EXCEPT !.at = "reload", !.book = b])
  <2>1. PICK j : j = [job[c] EXCEPT !.at = "reload", !.book = b]
    OBVIOUS
  <2>2. j.at = "reload"
    BY <1>2, <2>1 DEF SoundJob
  <2> QED
    BY <2>1, <2>2 DEF TypedJob
<1>6. ASSUME Stage(c, "fix"), b.canonical # NoAddress
      PROVE  TypedJob([job[c] EXCEPT !.at = "upsert", !.record.address = b.canonical])
  <2>1. b.canonical \in Address
    BY <1>6, LoadedSound DEF SoundBook, Book
  <2>2. job[c].record = NoRecord
    BY <1>2, <1>6 DEF Stage, TypedJob
  <2> DEFINE nr == [job[c].record EXCEPT !.address = b.canonical]
             j == [job[c] EXCEPT !.at = "upsert", !.record.address = b.canonical]
  <2>3. nr = [address |-> b.canonical, tx |-> NoTx, chain |-> Default, deployMethod |-> "mirror"]
    BY <2>2 DEF NoRecord
  <2>4. nr \in TokenRecord
    BY <2>1, <2>3 DEF TokenRecord, LauncherAssumption
  <2>5. j = [job[c] EXCEPT !.at = "upsert", !.record = nr]
    BY Zenon
  <2>6. j = [at |-> "upsert", tx |-> job[c].tx, record |-> nr, list |-> job[c].list, book |-> job[c].book]
    <3> HIDE DEF j, nr
    <3> QED
      BY <1>2, <2>5, JobWith DEF SoundJob
  <2> HIDE DEF j, nr
  <2>7. TypedJob(j)
    BY <2>4, <2>6 DEF TypedJob
  <2> QED
    BY <2>7 DEF j
<1>7. CASE Move(c, NoJob)
  BY <1>1, <1>7, TypedRequest
<1>8. CASE Move(c, [job[c] EXCEPT !.at = "reload", !.book = b])
  BY <1>1, <1>5, <1>8, TypedRequest
<1>9. CASE Move(c, [job[c] EXCEPT !.at = "again"])
  BY <1>1, <1>4, <1>9, TypedRequest
<1>10. CASE /\ Stage(c, "fix") /\ b.canonical # NoAddress
            /\ Move(c, [job[c] EXCEPT !.at = "upsert", !.record.address = b.canonical])
  BY <1>1, <1>6, <1>10, TypedRequest
<1> QED
  BY <1>3, <1>7, <1>8, <1>9, <1>10

LEMMA BeginTypes ==
    ASSUME LauncherAssumption, LauncherInv, LauncherTypeInv, NEW c \in Client, LauncherBegin(c)
    PROVE  LauncherTypeInv'
<1>1. /\ begun < MaxBegun /\ begun' = begun + 1 /\ begun \in Nat
      /\ UNCHANGED <<tokens, liquidity, listings>>
  BY DEF LauncherBegin, LauncherTypeInv
<1>2. ASSUME NEW j, TypedJob(j), job' = [job EXCEPT ![c] = j]
      PROVE  LauncherTypeInv'
  <2>1. \A d \in Client : job'[d] # NoJob => TypedJob(job'[d])
    BY <1>2, TypedGoesOn
  <2> QED
    BY <1>1, <2>1 DEF LauncherTypeInv, TypedFiles, TypedJob
<1>3. ASSUME job' = [job EXCEPT ![c] = [Fresh("loadPools") EXCEPT !.list = {begun}]]
      PROVE  LauncherTypeInv'
  <2>1. PICK j : j = [Fresh("loadPools") EXCEPT !.list = {begun}]
    OBVIOUS
  <2>2. j.at = "loadPools" /\ j.list = {begun}
    BY <2>1 DEF Fresh
  <2>3. {begun} \subseteq 0..MaxBegun
    BY <1>1 DEF LauncherAssumption
  <2>4. TypedJob(j)
    BY <2>2, <2>3 DEF TypedJob
  <2> QED
    BY <1>2, <1>3, <2>1, <2>4
<1>4. ASSUME NEW tx, job' = [job EXCEPT ![c] = [Fresh("send") EXCEPT !.tx = tx]]
      PROVE  LauncherTypeInv'
  <2>1. PICK j : j = [Fresh("send") EXCEPT !.tx = tx]
    OBVIOUS
  <2>2. j.at = "send"
    BY <2>1 DEF Fresh
  <2>3. TypedJob(j)
    BY <2>2 DEF TypedJob
  <2> QED
    BY <1>2, <1>4, <2>1, <2>3
<1>5. ASSUME NEW r \in mined, NEW a,
             job' = [job EXCEPT ![c] = [Fresh("add") EXCEPT !.record = Verified(r, a)]]
      PROVE  LauncherTypeInv'
  <2>1. PICK j : j = [Fresh("add") EXCEPT !.record = Verified(r, a)]
    OBVIOUS
  <2>2. j.at = "add" /\ j.record = Record(r.tx, "metamask")
    BY <2>1 DEF Fresh, Verified
  <2>3. Record(r.tx, "metamask") \in TokenRecord
    BY RecordTyped
  <2>4. TypedJob(j)
    BY <2>2, <2>3 DEF TypedJob
  <2> QED
    BY <1>2, <1>5, <2>1, <2>4
<1>6. ASSUME job' = [job EXCEPT ![c] = Fresh("fix")]
      PROVE  LauncherTypeInv'
  <2>1. TypedJob(Fresh("fix"))
    BY DEF Fresh, TypedJob
  <2> QED
    BY <1>2, <1>6, <2>1
<1>7. ASSUME NEW step \in {"verify", "reload"}, NEW b,
             job' = [job EXCEPT ![c] = [Fresh(step) EXCEPT !.book = b]]
      PROVE  LauncherTypeInv'
  <2>1. PICK j : j = [Fresh(step) EXCEPT !.book = b]
    OBVIOUS
  <2>2. j.at = step
    BY <2>1 DEF Fresh
  <2>3. TypedJob(j)
    BY <2>2 DEF TypedJob
  <2> QED
    BY <1>2, <1>7, <2>1, <2>3
<1>8. ASSUME NEW t \in MinedTxs,
             job' = [job EXCEPT ![c] = [Fresh("loadListings") EXCEPT !.list = {<<Default, AddressOf(t)>>}]]
      PROVE  LauncherTypeInv'
  <2>1. PICK j : j = [Fresh("loadListings") EXCEPT !.list = {<<Default, AddressOf(t)>>}]
    OBVIOUS
  <2>2. j.at = "loadListings" /\ j.list = {<<Default, AddressOf(t)>>}
    BY <2>1 DEF Fresh
  <2>3. AddressOf(t) \in Address /\ Default \in Chain
    BY ReceiptTyped DEF MinedTxs, LauncherAssumption
  <2>4. TypedJob(j)
    BY <2>2, <2>3 DEF TypedJob, Listing
  <2> QED
    BY <1>2, <1>8, <2>1, <2>4
<1> QED
  BY <1>3, <1>4, <1>5, <1>6, <1>7, <1>8 DEF LauncherBegin

LEMMA LauncherNextTypes ==
    ASSUME LauncherAssumption, LauncherInv, LauncherTypeInv, [LauncherNext]_launcherVars
    PROVE  LauncherTypeInv'
<1>1. ASSUME NEW c \in Client, LauncherBegin(c) PROVE LauncherTypeInv'
  BY <1>1, BeginTypes
<1>2. ASSUME NEW c \in Client, LauncherStep(c) PROVE LauncherTypeInv'
  BY <1>2, DeployTypes, LoadListTypes, SaveListTypes, LoadFileTypes, SaveFileTypes,
     BookTypes, FixTypes DEF LauncherStep
<1>3. CASE \/ \E t \in pending : Mine(t)
           \/ \E ch \in Chain : WalletSends(ch)
           \/ UNCHANGED launcherVars
  <2>1. UNCHANGED <<tokens, liquidity, listings, job, begun>>
    BY <1>3 DEF Mine, WalletSends, launcherVars
  <2> QED
    BY <2>1 DEF LauncherTypeInv, TypedFiles, TypedJob
<1>4. CASE LauncherStop
  <2>1. UNCHANGED <<tokens, liquidity, listings, begun>> /\ job' = [c \in Client |-> NoJob]
    BY <1>4 DEF LauncherStop
  <2> QED
    BY <2>1 DEF LauncherTypeInv, TypedFiles
<1> QED
  BY <1>1, <1>2, <1>3, <1>4 DEF LauncherNext

\* The files hold records, requests and listings of contracts there may be, and
\* the chains transactions, whatever a request took from one file to another.
THEOREM LauncherTypes ==
    ASSUME LauncherAssumption
    PROVE  LauncherSpec => []LauncherTypeOK
<1>1. LauncherInit => LauncherTypeInv
  BY DEF LauncherInit, LauncherTypeInv, TypedFiles
<1>2. LauncherInv /\ LauncherTypeInv /\ [LauncherNext]_launcherVars => LauncherTypeInv'
  BY LauncherNextTypes
<1>3. LauncherInv /\ LauncherTypeInv => LauncherTypeOK
  BY DEF LauncherInv, LauncherTypeInv, TypedFiles, LauncherTypeOK, SoundBook
<1> QED
  BY <1>1, <1>2, <1>3, LauncherInvariant, PTL DEF LauncherSpec

-----------------------------------------------------------------------------
(* The limit on requests, for any clients, addresses, limit and window.  Of *)
(* the bookings that fall into a window, those made at a time inside it are *)
(* at most the limit, because until the window is over the table keeps them *)
(* all; those made at an older time are of different clients, because a     *)
(* client that is let through asks again at a later time only.              *)

\* What was booked inside the window that begins at w, and what was booked
\* before it by a request that got the lock inside it or later.
InWindow(a, w) == {r \in passed[a] : w <= r.at /\ r.lock < w + Window}
Late(a, w) == {r \in passed[a] : r.at < w /\ w <= r.lock}

InOrder(a, r) == r.at <= r.lock /\ r.lock <= now /\ (a \notin ClockFirst => r.at = r.lock)

LimiterInv ==
    /\ LimiterTypeOK
    /\ \A c \in Goroutine : asking[c] # Idle => asking[c].at <= now
    /\ \A a \in Ip : IsFiniteSet(passed[a]) /\ counts[a] \subseteq passed[a]
    /\ \A a \in Ip : \A r \in passed[a] :
          /\ InOrder(a, r)
          /\ now < r.at + Window => r \in counts[a]
          /\ asking[r.by] # Idle => r.lock <= asking[r.by].at
    /\ \A a \in Ip : \A r, s \in passed[a] :
          r.by = s.by => r = s \/ r.lock <= s.at \/ s.lock <= r.at
    /\ \A a \in Ip, w \in Time : Cardinality(InWindow(a, w)) <= Limit

-----------------------------------------------------------------------------

LEMMA LimiterInitKeeps ==
    ASSUME LimiterAssumption, LimiterInit
    PROVE  LimiterInv
<1>1. LimiterTypeOK
  BY DEF LimiterAssumption, LimiterInit, LimiterTypeOK, Time
<1>2. \A a \in Ip, w \in Time : InWindow(a, w) = {}
  BY DEF LimiterInit, InWindow
<1>3. \A a \in Ip, w \in Time : Cardinality(InWindow(a, w)) <= Limit
  BY <1>2, FS_EmptySet DEF LimiterAssumption
<1> QED
  BY <1>1, <1>3, FS_EmptySet DEF LimiterInit, LimiterInv

LEMMA TickKeeps ==
    ASSUME LimiterAssumption, LimiterInv, Tick
    PROVE  LimiterInv'
<1> USE DEF Tick
<1>1. now \in Nat /\ Window \in Nat /\ now' = now + 1
  BY DEF LimiterInv, LimiterTypeOK, Time, LimiterAssumption
<1>2. LimiterTypeOK'
  BY DEF LimiterInv, LimiterTypeOK, LimiterAssumption, Time, Booking
<1>3. \A c \in Goroutine : asking[c] # Idle => asking[c].at \in Nat /\ asking[c].at <= now'
  BY <1>1 DEF LimiterInv, LimiterTypeOK, Time
<1>4. ASSUME NEW a \in Ip, NEW r \in passed[a]
      PROVE  /\ InOrder(a, r)' /\ (now' < r.at + Window => r \in counts[a])
  <2>1. r.at \in Nat /\ r.lock \in Nat
    BY DEF LimiterInv, LimiterTypeOK, Booking, Time
  <2> QED
    BY <1>1, <2>1 DEF LimiterInv, InOrder
<1>5. \A a \in Ip, w \in Time : InWindow(a, w)' = InWindow(a, w)
  BY DEF InWindow
<1> QED
  BY <1>2, <1>3, <1>4, <1>5 DEF LimiterInv

LEMMA ArriveKeeps ==
    ASSUME LimiterAssumption, LimiterInv, NEW c \in Goroutine, Arrive(c)
    PROVE  LimiterInv'
<1> USE DEF Arrive
<1>1. PICK a \in Ip : asking' = [asking EXCEPT ![c] = [id |-> asked, from |-> a, at |-> now]]
  OBVIOUS
<1>2. now \in Time /\ asked \in Nat /\ asking \in [Goroutine -> [id : Nat, from : Ip, at : Time] \cup {Idle}]
  BY DEF LimiterInv, LimiterTypeOK
<1>3. LimiterTypeOK'
  BY <1>1, <1>2 DEF LimiterInv, LimiterTypeOK
<1>4. \A d \in Goroutine : asking'[d] = IF d = c THEN [id |-> asked, from |-> a, at |-> now] ELSE asking[d]
  BY <1>1, <1>2
<1>5. \A d \in Goroutine : asking'[d] # Idle => asking'[d].at <= now
  BY <1>2, <1>4 DEF LimiterInv, Time
<1>6. ASSUME NEW b \in Ip, NEW r \in passed[b], asking'[r.by] # Idle
      PROVE  r.lock <= asking'[r.by].at
  <2>1. r.by \in Goroutine /\ r.lock <= now
    BY DEF LimiterInv, LimiterTypeOK, Booking, InOrder
  <2> QED
    BY <1>4, <1>6, <2>1 DEF LimiterInv
<1>7. \A b \in Ip : \A r \in passed[b] : InOrder(b, r)' = InOrder(b, r)
  BY DEF InOrder
<1>8. \A b \in Ip, w \in Time : InWindow(b, w)' = InWindow(b, w)
  BY DEF InWindow
<1> QED
  BY <1>3, <1>5, <1>6, <1>7, <1>8 DEF LimiterInv

LEMMA AtMostOneMore ==
    ASSUME NEW S, NEW x, IsFiniteSet(S)
    PROVE  /\ IsFiniteSet(S \cup {x})
           /\ Cardinality(S) \in Nat /\ Cardinality(S \cup {x}) \in Nat
           /\ Cardinality(S \cup {x}) <= Cardinality(S) + 1
<1>1. Cardinality(S) \in Nat
  BY FS_CardinalityType
<1>2. IsFiniteSet(S \cup {x})
  BY FS_AddElement
<1>3. Cardinality(S \cup {x}) = IF x \in S THEN Cardinality(S) ELSE Cardinality(S) + 1
  BY FS_AddElement
<1> QED
  BY <1>1, <1>2, <1>3

LEMMA UnionAtMostSum ==
    ASSUME NEW S, NEW T, IsFiniteSet(S), IsFiniteSet(T)
    PROVE  /\ IsFiniteSet(S \cup T)
           /\ Cardinality(S \cup T) <= Cardinality(S) + Cardinality(T)
<1>1. Cardinality(S) \in Nat /\ Cardinality(T) \in Nat
  BY FS_CardinalityType
<1>2. IsFiniteSet(S \cup T)
  BY FS_Union
<1>3. Cardinality(S \cup T) = Cardinality(S) + Cardinality(T) - Cardinality(S \cap T)
  BY FS_Union
<1>4. Cardinality(S \cap T) \in Nat
  <2>1. IsFiniteSet(S \cap T)
    BY FS_Intersection
  <2> QED
    BY <2>1, FS_CardinalityType
<1> QED
  BY <1>1, <1>2, <1>3, <1>4

\* A booking that a request drops is too old for any window that is not over.
LEMMA KeptIsYoung ==
    ASSUME LimiterAssumption, LimiterInv, NEW a \in Ip, NEW r \in passed[a],
           NEW t \in Nat, t <= now, now < r.at + Window
    PROVE  r \in Kept(a, t)
<1>1. r \in counts[a] /\ r.at \in Nat /\ now \in Nat /\ Window \in Nat
  BY DEF LimiterInv, LimiterTypeOK, Booking, Time, LimiterAssumption
<1> QED
  BY <1>1 DEF Kept

\* A request that is let through finds less than the limit in the table, and
\* with it all that was booked in a window that is not over.
LEMMA FreshStaysUnderLimit ==
    ASSUME LimiterAssumption, LimiterInv, NEW a \in Ip, NEW w \in Time,
           NEW t \in Time, t <= now, w <= t, now < w + Window, ~Full(Kept(a, t)), NEW new
    PROVE  Cardinality(InWindow(a, w) \cup {new}) <= Limit
<1>1. t \in Nat /\ w \in Nat /\ now \in Nat /\ Window \in Nat /\ Limit \in Nat
  BY DEF LimiterInv, LimiterTypeOK, Time, LimiterAssumption
<1>2. IsFiniteSet(passed[a]) /\ Kept(a, t) \subseteq passed[a]
  BY DEF LimiterInv, Kept
<1>3. IsFiniteSet(Kept(a, t))
  BY <1>2, FS_Subset
<1>4. ASSUME NEW r \in InWindow(a, w) PROVE r \in Kept(a, t)
  <2>1. r \in passed[a] /\ r.at \in Nat /\ w <= r.at
    BY DEF LimiterInv, LimiterTypeOK, Booking, Time, InWindow
  <2> QED
    BY <1>1, <2>1, KeptIsYoung
<1>5. /\ IsFiniteSet(InWindow(a, w)) /\ Cardinality(InWindow(a, w)) <= Cardinality(Kept(a, t))
      /\ Cardinality(InWindow(a, w)) \in Nat /\ Cardinality(Kept(a, t)) \in Nat
  BY <1>3, <1>4, FS_Subset, FS_CardinalityType
<1>6. Cardinality(Kept(a, t)) < Limit
  BY <1>1, <1>5 DEF Full
<1>7. Cardinality(InWindow(a, w) \cup {new}) <= Cardinality(InWindow(a, w)) + 1
  BY <1>5, AtMostOneMore
<1>8. Cardinality(InWindow(a, w) \cup {new}) \in Nat
  BY <1>5, AtMostOneMore
<1> QED
  BY <1>1, <1>5, <1>6, <1>7, <1>8

LEMMA AllowKeeps ==
    ASSUME LimiterAssumption, LimiterInv, NEW c \in Goroutine, Allow(c)
    PROVE  LimiterInv'
<1> DEFINE a == asking[c].from
           t == IF a \in ClockFirst THEN asking[c].at ELSE now
           new == [id |-> asking[c].id, by |-> c, at |-> t, lock |-> now]
<1>1. /\ asking[c] \in [id : Nat, from : Ip, at : Time] /\ a \in Ip
      /\ asking[c].at \in Time /\ asking[c].at <= now /\ now \in Time /\ t \in Time
      /\ now' = now /\ asked' = asked /\ asking' = [asking EXCEPT ![c] = Idle]
  BY DEF Allow, LimiterInv, LimiterTypeOK
<1>2. now \in Nat /\ t \in Nat /\ t <= now /\ Window \in Nat /\ Window > 0 /\ Limit \in Nat
  BY <1>1 DEF Time, LimiterAssumption
<1>3. new \in Booking
  BY <1>1 DEF Booking
<1>4. \A d \in Goroutine : asking'[d] = IF d = c THEN Idle ELSE asking[d]
  BY <1>1 DEF LimiterInv, LimiterTypeOK
<1>5. Kept(a, t) \subseteq counts[a]
  BY DEF Kept
<1>6. /\ counts' \in [Ip -> SUBSET Booking] /\ passed' \in [Ip -> SUBSET Booking]
      /\ \A b \in Ip \ {a} : counts'[b] = counts[b] /\ passed'[b] = passed[b]
      /\ \/ Full(Kept(a, t)) /\ counts'[a] = Kept(a, t) /\ passed'[a] = passed[a]
         \/ ~Full(Kept(a, t)) /\ counts'[a] = Kept(a, t) \cup {new} /\ passed'[a] = passed[a] \cup {new}
  BY <1>1, <1>3, <1>5 DEF Allow, LimiterInv, LimiterTypeOK
<1>7. LimiterTypeOK'
  BY <1>1, <1>6 DEF LimiterInv, LimiterTypeOK
<1>8. \A d \in Goroutine : asking'[d] # Idle => asking'[d].at <= now'
  BY <1>1, <1>4 DEF LimiterInv
<1>9. \A b \in Ip : IsFiniteSet(passed'[b]) /\ counts'[b] \subseteq passed'[b]
  <2>1. IsFiniteSet(passed[a] \cup {new})
    BY <1>1, AtMostOneMore DEF LimiterInv
  <2> HIDE DEF a, t, new
  <2> QED
    BY <1>5, <1>6, <2>1 DEF LimiterInv
<1>10. ASSUME NEW b \in Ip, NEW r \in passed'[b]
       PROVE  /\ InOrder(b, r)'
              /\ now' < r.at + Window => r \in counts'[b]
              /\ asking'[r.by] # Idle => r.lock <= asking'[r.by].at
  <2>1. CASE r \in passed[b]
    <3>1. now < r.at + Window => r \in counts'[b]
      BY <1>2, <1>6, <2>1, KeptIsYoung DEF LimiterInv
    <3>2. r.by \in Goroutine
      BY <2>1 DEF LimiterInv, LimiterTypeOK, Booking
    <3> QED
      BY <1>1, <1>4, <2>1, <3>1, <3>2 DEF LimiterInv, InOrder
  <2>2. CASE b = a /\ r = new /\ counts'[a] = Kept(a, t) \cup {new}
    <3>1. r.by = c /\ r.at = t /\ r.lock = now
      BY <2>2
    <3>2. asking'[r.by] = Idle
      BY <1>4, <3>1
    <3> QED
      BY <1>1, <1>2, <2>2, <3>1, <3>2 DEF InOrder
  <2> QED
    BY <1>6, <2>1, <2>2
<1>11. ASSUME NEW b \in Ip, NEW r \in passed'[b], NEW s \in passed'[b], r.by = s.by
       PROVE  r = s \/ r.lock <= s.at \/ s.lock <= r.at
  <2>1. CASE r \in passed[b] /\ s \in passed[b]
    BY <1>11, <2>1 DEF LimiterInv
  <2>2. ASSUME NEW q \in passed[a], q.by = c
        PROVE  q.lock <= new.at
    <3>1. q.lock <= asking[c].at /\ q.lock <= now
      BY <1>1, <2>2 DEF LimiterInv, InOrder, Allow
    <3> QED
      BY <3>1
  <2>3. CASE b = a /\ r = new /\ s \in passed[a]
    BY <1>11, <2>2, <2>3
  <2>4. CASE b = a /\ s = new /\ r \in passed[a]
    BY <1>11, <2>2, <2>4
  <2> QED
    BY <1>6, <2>1, <2>3, <2>4
<1>12. ASSUME NEW b \in Ip, NEW w \in Time
       PROVE  Cardinality(InWindow(b, w)') <= Limit
  <2>1. CASE InWindow(b, w)' = InWindow(b, w)
    BY <2>1 DEF LimiterInv
  <2>2. CASE /\ b = a /\ w <= t /\ now < w + Window /\ ~Full(Kept(a, t))
             /\ InWindow(b, w)' = InWindow(b, w) \cup {new}
    BY <1>1, <1>2, <2>2, FreshStaysUnderLimit
  <2>3. new.at = t /\ new.lock = now
    OBVIOUS
  <2>4. InWindow(b, w)' # InWindow(b, w) => b = a /\ ~Full(Kept(a, t)) /\ passed'[a] = passed[a] \cup {new}
    BY <1>6 DEF InWindow
  <2> QED
    BY <2>1, <2>2, <2>3, <2>4 DEF InWindow
<1> HIDE DEF a, t, new
<1> QED
  BY <1>7, <1>8, <1>9, <1>10, <1>11, <1>12 DEF LimiterInv

LEMMA LimiterNextKeeps ==
    ASSUME LimiterAssumption, LimiterInv, [LimiterNext]_limiterVars
    PROVE  LimiterInv'
<1>1. CASE UNCHANGED limiterVars
  BY <1>1 DEF limiterVars, LimiterInv, LimiterTypeOK, InOrder, InWindow
<1> QED
  BY <1>1, TickKeeps, ArriveKeeps, AllowKeeps DEF LimiterNext

-----------------------------------------------------------------------------

\* No two late bookings of a window are of the same client.
LEMMA LateIsOfClients ==
    ASSUME LimiterAssumption, LimiterInv, NEW a \in Ip, NEW w \in Time
    PROVE  /\ IsFiniteSet(Late(a, w))
           /\ Cardinality(Late(a, w)) \in Nat
           /\ Cardinality(Late(a, w)) <= (IF a \in ClockFirst THEN Cardinality(Goroutine) ELSE 0)
<1> DEFINE f == [r \in Late(a, w) |-> r.by]
<1>1. ASSUME NEW r \in Late(a, w), NEW s \in Late(a, w), r.by = s.by
      PROVE  r = s
  <2>1. /\ r.at \in Nat /\ r.lock \in Nat /\ r.at < w /\ w <= r.lock
        /\ s.at \in Nat /\ s.lock \in Nat /\ s.at < w /\ w <= s.lock /\ w \in Nat
    BY DEF Late, LimiterInv, LimiterTypeOK, Booking, Time
  <2>2. r = s \/ r.lock <= s.at \/ s.lock <= r.at
    BY <1>1 DEF Late, LimiterInv
  <2> QED
    BY <2>1, <2>2
<1>2. f \in [Late(a, w) -> Goroutine]
  BY DEF Late, LimiterInv, LimiterTypeOK, Booking
<1>3. f \in Injection(Late(a, w), Goroutine)
  BY <1>1, <1>2 DEF Injection, IsInjective
<1>4. /\ IsFiniteSet(Late(a, w)) /\ Cardinality(Late(a, w)) <= Cardinality(Goroutine)
      /\ Cardinality(Late(a, w)) \in Nat
  BY <1>3, FS_Injection, FS_CardinalityType DEF LimiterAssumption
<1>5. a \notin ClockFirst => Late(a, w) = {}
  <2> SUFFICES ASSUME a \notin ClockFirst, NEW r \in Late(a, w) PROVE FALSE
    OBVIOUS
  <2>1. r.at = r.lock /\ r.at \in Nat /\ w \in Nat /\ r.at < w /\ w <= r.lock
    BY DEF Late, LimiterInv, LimiterTypeOK, Booking, Time, InOrder
  <2> QED
    BY <2>1
<1> QED
  BY <1>4, <1>5, FS_EmptySet

LEMMA WindowIsFreshAndLate ==
    ASSUME LimiterAssumption, LimiterInv
    PROVE  PerWindow
<1>0. DOMAIN passed = Ip
  BY DEF LimiterInv, LimiterTypeOK
<1> SUFFICES ASSUME NEW a \in Ip, NEW w \in Time
             PROVE  Cardinality({r \in passed[a] : w <= r.lock /\ r.lock < w + Window})
                        <= Limit + (IF a \in ClockFirst THEN Cardinality(Goroutine) ELSE 0)
  BY <1>0 DEF PerWindow
<1> DEFINE window == {r \in passed[a] : w <= r.lock /\ r.lock < w + Window}
           late == IF a \in ClockFirst THEN Cardinality(Goroutine) ELSE 0
<1>1. window \subseteq InWindow(a, w) \cup Late(a, w)
  BY DEF InWindow, Late, LimiterInv, LimiterTypeOK, Booking, Time
<1>2. /\ IsFiniteSet(InWindow(a, w)) /\ Cardinality(InWindow(a, w)) <= Limit
      /\ Cardinality(InWindow(a, w)) \in Nat
  <2>1. InWindow(a, w) \subseteq passed[a]
    BY DEF InWindow
  <2> QED
    BY <2>1, FS_Subset, FS_CardinalityType DEF LimiterInv
<1>3. /\ IsFiniteSet(Late(a, w)) /\ Cardinality(Late(a, w)) <= late
      /\ Cardinality(Late(a, w)) \in Nat
  BY LateIsOfClients
<1>4. /\ IsFiniteSet(InWindow(a, w) \cup Late(a, w))
      /\ Cardinality(InWindow(a, w) \cup Late(a, w)) <= Cardinality(InWindow(a, w)) + Cardinality(Late(a, w))
  BY <1>2, <1>3, UnionAtMostSum
<1>5. /\ Cardinality(window) <= Cardinality(InWindow(a, w) \cup Late(a, w))
      /\ Cardinality(window) \in Nat /\ Cardinality(InWindow(a, w) \cup Late(a, w)) \in Nat
  BY <1>1, <1>4, FS_Subset, FS_CardinalityType
<1>6. Limit \in Nat /\ late \in Nat
  BY FS_CardinalityType DEF LimiterAssumption
<1> HIDE DEF window, late
<1>7. Cardinality(window) <= Limit + late
  BY <1>2, <1>3, <1>4, <1>5, <1>6
<1> QED
  BY <1>7 DEF window, late

\* Until a window is over the table keeps what was booked in it, and a client's
\* bookings follow each other (rateLimiter.allow).
THEOREM LimiterInvariant ==
    ASSUME LimiterAssumption
    PROVE  LimiterSpec => []LimiterInv
<1>1. LimiterInit => LimiterInv
  BY LimiterInitKeeps
<1>2. LimiterInv /\ [LimiterNext]_limiterVars => LimiterInv'
  BY LimiterNextKeeps
<1> QED
  BY <1>1, <1>2, PTL DEF LimiterSpec

\* However requests and the clock interleave, an address has no more requests in
\* a window than the limit, and one more of each client that may wait for the
\* lock with a time it read before (rateLimiter.allow).
THEOREM LimitHolds ==
    ASSUME LimiterAssumption
    PROVE  LimiterSpec => []PerWindow
<1>1. LimiterInv => PerWindow
  BY WindowIsFreshAndLate
<1> QED
  BY <1>1, LimiterInvariant, PTL
=============================================================================
