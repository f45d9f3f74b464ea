--------------------------- MODULE TokenPlatform ---------------------------
(***************************************************************************)
(* Tokens launched and wrapped on the token platform                       *)
(* (bridge/tokenplatform_bridge.go, createtoken.go, tokenplatform/store.go)*)
(* three files beside the portfolio, each read and written as a whole.     *)
(* A token is a pair of its chain and its id, which is its key.  The       *)
(* adapter of a chain only works out metadata, or fails.                   *)
(***************************************************************************)
EXTENDS Portfolio, Functions

CONSTANTS
    PlatformChain, Id,
    Listed,           \* the registry's tokens
    Suffixed,         \* ids made unique by four digits of a hash
    WrapId,           \* WrapTokenID: made of the token's id and the target chain
    PlatformRequests

PlatformToken == [chain : PlatformChain, id : Id, supply : Nat, origin : Token \cup {NoPool}]
PlatformRequest == [op : {"deploy", "wrap", "list"}, token : Token, target : PlatformChain, n : Nat]
TokenFile == Seq(PlatformToken)
WrapFile == [Token \X PlatformChain -> Nat]

\* What the instances assume of the constants.
PlatformAssumption ==
    /\ Token = PlatformChain \X Id /\ NoPool \notin Token
    /\ Suffixed \subseteq Id /\ Listed \subseteq Token
    /\ WrapId \in [Id \X PlatformChain -> Id] /\ PlatformRequests \subseteq PlatformRequest

\* The keys of the tokens that wrapping launches are nobody else's: the wrapped
\* tokens of two tokens with one id have one id too, though their chains differ,
\* and any launch may name the id of a wrapped token (WrapTokenID, SanitizeTokenID);
\* here no two requests do, and no such key has an opening balance or a reward.
WrapRequests == {r \in PlatformRequests : r.op = "wrap"}
WrapKey(r) == <<r.target, WrapId[<<r.token[2], r.target>>]>>
WrapKeys == {WrapKey(r) : r \in WrapRequests}
WrappedApart ==
    /\ \A r, s \in WrapRequests : WrapKey(r) = WrapKey(s) => r.token = s.token
    /\ \A r \in PlatformRequests \ WrapRequests :
          /\ r.token \notin WrapKeys
          /\ \A id \in Suffixed : <<r.token[1], id>> \notin WrapKeys
    /\ Onex \notin WrapKeys /\ \A t \in Task : RewardOf[t].key \notin WrapKeys
    /\ \A k \in WrapKeys : Opening[k] = 0 /\ EvmBalances[k] = 0

VARIABLES
    issued,  \* platform-tokens.json
    wraps,   \* platform-wraps.json: what was wrapped of a token, by target
    custom,  \* custom-tokens.json: the keys in it
    listed,  \* the registry in memory
    tcopy, wcopy

platformVars == <<issued, wraps, custom, listed, tcopy, wcopy>>
NoWraps == [k \in Token \X PlatformChain |-> 0]

PlatformInit ==
    /\ Init /\ issued = <<>> /\ wraps = NoWraps /\ custom = {} /\ listed = Listed
    /\ tcopy = [c \in Client |-> <<>>] /\ wcopy = [c \in Client |-> NoWraps]

-----------------------------------------------------------------------------

\* DeployPlatformToken, registerPlatformToken, completeTaskAfterDeploy.
Deploy == <<"loadTokens", "deploy", "saveTokens", "customOnce">> \o GetPortfolio \o <<"issue", "mustSave">>
          \o GetPortfolio \o Complete("deploy")
\* Mutant of Wrap: the portfolio is credited before the supply is recorded.
WrapCreditFirst ==
    <<"loadTokens">> \o GetPortfolio \o <<"wrap", "customMore", "loadWraps",
      "spend", "obtain", "save", "saveTokens", "saveWraps">>

\* WrapPlatformToken.
Wrap == <<"loadTokens">> \o GetPortfolio \o <<"wrap", "customMore", "loadWraps",
          "saveTokens", "saveWraps", "spend", "obtain", "save">>

PlatformProgram(op) ==
    CASE op = "deploy" -> Deploy [] op = "wrap" -> Wrap [] OTHER -> <<"list">>

\* The file of custom tokens, whose errors are ignored, and what the registry
\* gains from it.
CustomTokens(f) == IF f = Broken THEN {} ELSE f
Merged(f) == listed \cup CustomTokens(f)
KeyOf(t) == <<t.chain, t.id>>
Taken(list, chain, id) == \E i \in DOMAIN list : list[i].chain = chain /\ list[i].id = id

\* The place of a wrapped token of the origin, and the first of that id.
PlaceOf(list, origin, target) ==
    {i \in DOMAIN list : list[i].chain = target /\ list[i].origin = origin}
FirstOf(list, k) == Min({i \in DOMAIN list : KeyOf(list[i]) = k})
WrappedKey(list, r) ==
    LET at == PlaceOf(list, r.token, r.target) IN
    <<r.target, IF at = {} THEN WrapId[<<r.token[2], r.target>>] ELSE list[Min(at)].id>>

\* A token wrapped for the first time is launched on the target chain; else its
\* supply grows, read at its own place and written to the first of its id.
WrappedMore(list, r) ==
    LET at == PlaceOf(list, r.token, r.target)
        k == WrappedKey(list, r)
    IN IF at = {}
       THEN Append(list, [chain |-> k[1], id |-> k[2], supply |-> r.n, origin |-> r.token])
       ELSE [list EXCEPT ![FirstOf(list, k)].supply = list[Min(at)].supply + r.n]

\* A step that only changes the request's copies of the files.
Files(c, steps, ok, tc, wc) ==
    /\ IF ok THEN Skip(c, steps) /\ tcopy' = [tcopy EXCEPT ![c] = tc] /\ wcopy' = [wcopy EXCEPT ![c] = wc]
       ELSE Refuse(c) /\ UNCHANGED <<tcopy, wcopy>>
    /\ UNCHANGED <<poolVars, issued, wraps, custom, listed>>

LoadTokens(c) == At(c, "loadTokens") /\ Files(c, 1, issued # Broken, issued, wcopy[c])
\* An error of loading the records counts as there being none.
LoadWraps(c) ==
    At(c, "loadWraps") /\ Files(c, 1, TRUE, tcopy[c], IF wraps = Broken THEN NoWraps ELSE wraps)

\* UniqueTokenID: another id when the platform has this one.
DeployToken(c) ==
    LET r == ask[c] IN
    /\ At(c, "deploy")
    /\ \/ \E id \in IF Taken(tcopy[c], r.token[1], r.token[2]) THEN Suffixed ELSE {r.token[2]} :
             /\ ~Taken(tcopy[c], r.token[1], id)
             /\ Files(c, 1, r.n > 0,
                      Append(tcopy[c], [chain |-> r.token[1], id |-> id, supply |-> r.n, origin |-> NoPool]),
                      wcopy[c])
       \/ Files(c, 1, FALSE, tcopy[c], wcopy[c])

\* The portfolio must have the amount, which is taken last.  A wrapped token that
\* is there already is no new custom token.
WrapToken(c) ==
    LET r == ask[c]
        known == r.token \in listed \/ Taken(tcopy[c], r.token[1], r.token[2])
        ok == r.n > 0 /\ r.token[1] # r.target /\ known /\ view[c].bal[r.token] >= r.n
        new == PlaceOf(tcopy[c], r.token, r.target) = {}
    IN /\ At(c, "wrap")
       /\ \E deployed \in BOOLEAN :
             Files(c, IF new THEN 1 ELSE 2, ok /\ deployed, WrappedMore(tcopy[c], r), wcopy[c])

SaveTokens(c) ==
    /\ At(c, "saveTokens")
    /\ issued' \in Written(tcopy[c], issued)
    /\ IF issued' = tcopy[c] THEN Skip(c, 1) ELSE Refuse(c)
    /\ UNCHANGED <<poolVars, wraps, custom, listed, tcopy, wcopy>>

SaveWraps(c) ==
    LET r == ask[c]
        new == [wcopy[c] EXCEPT ![<<r.token, r.target>>] = @ + r.n]
    IN /\ At(c, "saveWraps")
       /\ wraps' \in Written(new, wraps)
       /\ IF wraps' = new THEN Skip(c, 1) /\ listed' = Merged(custom) ELSE Refuse(c) /\ UNCHANGED listed
       /\ UNCHANGED <<poolVars, issued, custom, tcopy, wcopy>>

\* The token a deploy appended, and the one a wrap credits.
Made(c) == KeyOf(tcopy[c][Len(tcopy[c])])

\* A file of custom tokens that does not parse counts as empty and is replaced.
\* A deploy adds a new key, and fails if it cannot; a wrap adds the key of the
\* token it launched, and goes on.
AddCustom(c) ==
    LET must == At(c, "customOnce")
        k == IF must THEN Made(c) ELSE WrappedKey(tcopy[c], ask[c])
        old == CustomTokens(custom)
    IN /\ must \/ At(c, "customMore")
       /\ custom' \in IF must /\ k \in old THEN {custom} ELSE Written(old \cup {k}, custom)
       /\ IF must /\ (custom' = Broken \/ k \notin custom') THEN Refuse(c) /\ UNCHANGED listed
          ELSE Skip(c, 1) /\ listed' = IF must THEN Merged(custom') ELSE listed
       /\ UNCHANGED <<poolVars, issued, wraps, tcopy, wcopy>>

\* Listing the tokens merges them as well.
List(c) ==
    /\ At(c, "list") /\ listed' = Merged(custom) /\ Skip(c, 1)
    /\ UNCHANGED <<poolVars, issued, wraps, custom, tcopy, wcopy>>

\* registerPlatformToken, and the end of a wrap.
Booked(c) ==
    \/ Gets(c, "issue", Made(c), ask[c].n)
    \/ Pays(c, "spend", ask[c].token, ask[c].n)
    \/ Gets(c, "obtain", WrappedKey(tcopy[c], ask[c]), ask[c].n)

PlatformBegin(c) ==
    /\ todo[c] = <<>> /\ started < MaxStarted
    /\ \E r \in PlatformRequests : /\ ask' = [ask EXCEPT ![c] = r]
                                   /\ todo' = [todo EXCEPT ![c] = PlatformProgram(r.op)]
    /\ started' = started + 1
    /\ tcopy' = [tcopy EXCEPT ![c] = <<>>] /\ wcopy' = [wcopy EXCEPT ![c] = NoWraps]
    /\ UNCHANGED <<cached, file, alias, view, poolVars, owned, issued, wraps, custom, listed>>

\* The registry is read anew from its configuration.
PlatformStop == Stop /\ listed' = Listed /\ UNCHANGED <<issued, wraps, custom, tcopy, wcopy>>

PlatformStep(c) ==
    \/ LoadTokens(c) \/ LoadWraps(c) \/ DeployToken(c) \/ WrapToken(c)
    \/ SaveTokens(c) \/ SaveWraps(c) \/ AddCustom(c) \/ List(c)
    \/ (Load(c) \/ Save(c) \/ TaskStep(c) \/ Booked(c)) /\ UNCHANGED platformVars

PlatformNext == (\E c \in Client : PlatformBegin(c) \/ PlatformStep(c)) \/ PlatformStop
PlatformSpec == PlatformInit /\ [][PlatformNext]_<<portVars, platformVars>>

-----------------------------------------------------------------------------

PlatformTypeOK ==
    /\ issued \in TokenFile \cup {Broken} /\ wraps \in WrapFile \cup {Broken}
    /\ custom \in (SUBSET Token) \cup {Broken} /\ listed \subseteq Token
    /\ view \in [Client -> PortfolioRecord]

\* With one request at a time, whatever write fails and wherever the process
\* stops, a wrapped token is held by no more than its recorded supply
\* (tokenplatform_bridge.go saves the platform's files before the portfolio), nor
\* do the records of wraps exceed it.
SupplyOf(k) ==
    SumFunction([i \in DOMAIN issued |-> IF KeyOf(issued[i]) = k THEN issued[i].supply ELSE 0])
WrappedCovered ==
    issued # Broken =>
        /\ \A i \in DOMAIN issued, p \in {cached, file} :
              issued[i].origin # NoPool /\ p \notin {NoFile, Broken}
              => p.bal[KeyOf(issued[i])] <= SupplyOf(KeyOf(issued[i]))
        /\ wraps # Broken => \A i \in DOMAIN issued :
              issued[i].origin # NoPool => wraps[<<issued[i].origin, issued[i].chain>>] <= issued[i].supply
=============================================================================
