------------------------------ MODULE MCMarket ------------------------------
(***************************************************************************)
(* Instances of the portfolio with its pools, of the token platform, of    *)
(* the launcher and of the limiters, for TLC.  The constant "part" of a    *)
(* behaviour is the module that takes its steps: "market" has two requests *)
(* at a time, "marketAlone" every request one at a time, "marketFaulty" a  *)
(* failing disk and the balances of production; "front" is the limiter of  *)
(* the node and the bridge, "door" that of the launcher.                   *)
(***************************************************************************)
EXTENDS TokenPlatform, Launcher, RateLimiter, TLC

CONSTANTS onex, usdt, wonex, sonex, welcome, firstSwap, c1, c2

VARIABLE part

Have(f) == [k \in Key |-> IF k \in DOMAIN f THEN f[k] ELSE 0]

-----------------------------------------------------------------------------
(* The portfolio: a pool of USDT and ONEX, and one yet to be made *)

UO == <<usdt, onex>>
OW == <<onex, wonex>>
MCPair == {UO, OW}
MCSeeds == (UO :> [r0 |-> 3, r1 |-> 4, shares |-> 4] @@ OW :> NoPool)
MCOpening == Have(usdt :> 3 @@ wonex :> 2)
MCStarter == Have(usdt :> 3 @@ wonex :> 2 @@ onex :> 4 @@ sonex :> 2)
MCEvm == Have(usdt :> 2)

TheLoan == [kind |-> "borrow", key |-> usdt, col |-> 2, debtKey |-> wonex, debt |-> 1]
TheStake == [key |-> usdt, receipt |-> sonex, n |-> 2]
MCLoan == {TheLoan}
MCStake == {TheStake}
MCRewardOf == (welcome :> [key |-> sonex, n |-> 2] @@ firstSwap :> [key |-> onex, n |-> 1])
MCTaskOf == [op \in {"swap", "bridge", "rateSwap", "deposit", "pending", "mint", "stake"} |->
    IF op \in {"swap", "rateSwap", "bridge"} THEN firstSwap ELSE IF op = "stake" THEN welcome ELSE NoTask]

Req(o) == [op |-> o, pair |-> UO, side |-> 0, next |-> OW, key |-> usdt, to |-> wonex, n |-> 1, m |-> 1,
           loan |-> TheLoan, stake |-> TheStake, task |-> welcome]
MCRequests ==
    {Req(o) : o \in {"swap", "bridge", "add", "remove", "rateSwap", "deposit", "pending", "mint", "claim",
                     "loan", "badLoan", "repay", "send", "stake", "unstake", "activate", "view", "moveNFT"}}
    \cup {[Req("swap") EXCEPT !.side = 1], [Req("add") EXCEPT !.n = 3, !.m = 3],
          [Req("add") EXCEPT !.pair = OW, !.m = 2], [Req("add") EXCEPT !.side = 1, !.m = 2],
          [Req("remove") EXCEPT !.n = 2]}
Only(ops) == {r \in MCRequests : r.op \in ops}
RaceRequests == Only({"swap", "claim", "add", "remove", "activate"})

Alone == INSTANCE Portfolio
    WITH Client <- {c1}, Requests <- MCRequests, DiskFaults <- FALSE, Stops <- FALSE, MaxStarted <- 3
Faulty == INSTANCE Portfolio
    WITH Client <- {c1}, Requests <- Only({"swap", "remove", "claim", "activate"}),
         DiskFaults <- TRUE, Production <- TRUE, MaxStarted <- 2

-----------------------------------------------------------------------------
(* The token platform: a token of the registry and one that is launched *)

MCChain == {"onex", "bsc"}
MCId == {"ONEX", "USDT", "ABC", "ABC1", "WUSDT", "WABC"}
MCToken == MCChain \X MCId
WUsdt == <<"onex", "USDT">>
MCWrapId == [k \in MCId \X MCChain |-> IF k[1] = "USDT" THEN "WUSDT" ELSE "WABC"]
MCListed == {WUsdt}
PReq(o, i, n) == [op |-> o, token |-> <<"onex", i>>, target |-> "bsc", n |-> n]
MCPlatformRequests ==
    {PReq("deploy", "ABC", 2), PReq("wrap", "ABC", 1), PReq("wrap", "USDT", 1), PReq("list", "ABC", 1)}
NoKeys == [k \in MCToken \cup MCPair |-> 0]
Issue == INSTANCE TokenPlatform
    WITH Client <- {c1}, Token <- MCToken, Onex <- <<"onex", "ONEX">>, Seeds <- NoPools,
         Opening <- [k \in MCToken \cup MCPair |-> IF k = WUsdt THEN 2 ELSE 0], Starter <- NoKeys, EvmBalances <- NoKeys,
         Production <- FALSE, Loan <- {}, Stake <- {}, Requests <- {},
         TaskOf <- [op \in {"deploy"} |-> welcome], RewardOf <- [t \in Task |-> [key |-> WUsdt, n |-> 1]],
         DiskFaults <- TRUE, Stops <- TRUE, MaxStarted <- 2

-----------------------------------------------------------------------------
(* The launcher: two chains, and a mirror whose address is someone else's *)

MCPredicted == ("bsc" :> [from |-> "server", nonce |-> 0] @@ "eth" :> [from |-> "wallet", nonce |-> 0])
Launch == INSTANCE Launcher WITH DiskFaults <- TRUE, Stops <- TRUE

(* The limiters: of the node and the bridge, and of the launcher *)

Front == INSTANCE RateLimiter WITH Ip <- {"here"}, ClockFirst <- {"here"}, MaxTime <- 4, MaxAsked <- 6
Door == INSTANCE RateLimiter WITH Ip <- {"door", "there"}, ClockFirst <- {}, MaxTime <- 3, MaxAsked <- 4

-----------------------------------------------------------------------------

ASSUME MCAssumption ==
    /\ Front!LimiterAssumption /\ Door!LimiterAssumption
    /\ Alone!PortfolioAssumption /\ Alone!BackedAssumption /\ Faulty!PortfolioAssumption
    /\ Issue!PortfolioAssumption /\ Issue!PlatformAssumption /\ Issue!WrappedApart /\ Launch!LauncherAssumption

-----------------------------------------------------------------------------

allVars == <<part, portVars, platformVars, launcherVars, limiterVars>>

NoMarket == /\ cached = NoFile /\ file = NoFile /\ alias = Nobody /\ view = <<>> /\ mine = <<>>
            /\ pools = NoPools /\ poolFile = NoFile
            /\ todo = <<>> /\ ask = <<>> /\ started = 0 /\ owned = <<>>
NoPlatform == issued = <<>> /\ wraps = NoFile /\ custom = {} /\ listed = {} /\ tcopy = <<>> /\ wcopy = NoFile
NoLauncher == /\ tokens = {} /\ liquidity = {} /\ listings = {} /\ live = NoFile
              /\ pending = {} /\ mined = {} /\ job = <<>> /\ begun = 0
NoLimiter == now = 0 /\ counts = <<>> /\ asking = <<>> /\ passed = <<>> /\ asked = 0

MCInit ==
    \/ /\ NoLimiter
       /\ \/ part = "market" /\ Init /\ NoPlatform /\ NoLauncher
          \/ part = "marketAlone" /\ Alone!Init /\ NoPlatform /\ NoLauncher
          \/ part = "marketFaulty" /\ Faulty!Init /\ NoPlatform /\ NoLauncher
          \/ part = "platform" /\ Issue!PlatformInit /\ NoLauncher
          \/ part = "launcher" /\ Launch!LauncherInit /\ NoMarket /\ NoPlatform
    \/ /\ NoMarket /\ NoPlatform /\ NoLauncher
       /\ \/ part = "front" /\ Front!LimiterInit
          \/ part = "door" /\ Door!LimiterInit

MCNext ==
    \/ part = "market" /\ PortfolioNext /\ UNCHANGED <<part, platformVars, launcherVars, limiterVars>>
    \/ part = "marketAlone" /\ Alone!PortfolioNext /\ UNCHANGED <<part, platformVars, launcherVars, limiterVars>>
    \/ part = "marketFaulty" /\ Faulty!PortfolioNext /\ UNCHANGED <<part, platformVars, launcherVars, limiterVars>>
    \/ part = "platform" /\ Issue!PlatformNext /\ UNCHANGED <<part, launcherVars, limiterVars>>
    \/ part = "launcher" /\ Launch!LauncherNext /\ UNCHANGED <<part, portVars, platformVars, limiterVars>>
    \/ part = "front" /\ Front!LimiterNext /\ UNCHANGED <<part, portVars, platformVars, launcherVars>>
    \/ part = "door" /\ Door!LimiterNext /\ UNCHANGED <<part, portVars, platformVars, launcherVars>>

MCSpec == MCInit /\ [][MCNext]_allVars

-----------------------------------------------------------------------------
(* The other properties are those of the modules, which hold of every part:  *)
(* what a part does not use is empty.                                        *)

\* Types of the portfolio, the platform and the launcher; that a balance is a
\* natural number says no copy of the portfolio is overdrawn, also when it is
\* changed after it was saved.
MarketTypes ==
    /\ part = "market" => PortfolioTypeOK
    /\ part = "marketAlone" => Alone!PortfolioTypeOK
    /\ part = "marketFaulty" => Faulty!PortfolioTypeOK
    /\ part = "platform" => Issue!PlatformTypeOK
    /\ part = "launcher" => Launch!LauncherTypeOK
    /\ part = "front" => Front!LimiterTypeOK
    /\ part = "door" => Door!LimiterTypeOK

\* With one request at a time no operation on the portfolio makes a token
\* (defi.go, onexswap.go), whichever of its steps refuses.
Backed == [][part = "marketAlone" => Alone!MakesNothing]_allVars
=============================================================================
