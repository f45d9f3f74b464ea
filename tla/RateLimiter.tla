---------------------------- MODULE RateLimiter ----------------------------
(***************************************************************************)
(* The limit on the requests of one address, in front of the node's API    *)
(* and of the bridge (api/middleware.go and its copy in                    *)
(* bridge/server.go, which read the clock before they take the lock) and   *)
(* in the launcher (bsc-launcher/server/handlers.go, which reads it under  *)
(* the lock).                                                              *)
(*                                                                         *)
(* The headers, a preflight request, which is answered before the limit,   *)
(* and the API key, which is looked at after it, change nothing.           *)
(***************************************************************************)
EXTENDS Naturals, FiniteSets

CONSTANTS
    Goroutine,    \* requests that are served at a time
    Ip,           \* addresses, each at one of the servers
    Limit, Window,
    ClockFirst,   \* those where the clock is read before the lock is taken
    Idle,
    MaxTime, MaxAsked

LimiterAssumption ==
    /\ IsFiniteSet(Goroutine) /\ {Limit, Window} \subseteq Nat \ {0}
    /\ ClockFirst \subseteq Ip /\ {MaxTime, MaxAsked} \subseteq Nat
    /\ Idle \notin [id : Nat, from : Ip, at : Nat]

VARIABLES
    now,      \* time.Now(), which never goes back
    counts,   \* the bookings kept for an address, of which the code keeps the times
    asking,   \* the request a client is being served: its address and the time it read
    passed,   \* history: every booking of an address, who made it and when it took the lock
    asked

limiterVars == <<now, counts, asking, passed, asked>>

Time == 0..MaxTime
Booking == [id : Nat, by : Goroutine, at : Time, lock : Time]

LimiterInit ==
    /\ now = 0 /\ counts = [a \in Ip |-> {}]
    /\ asking = [c \in Goroutine |-> Idle]
    /\ passed = [a \in Ip |-> {}] /\ asked = 0

Arrive(c) ==
    /\ asking[c] = Idle /\ asked < MaxAsked
    /\ \E a \in Ip : asking' = [asking EXCEPT ![c] = [id |-> asked, from |-> a, at |-> now]]
    /\ asked' = asked + 1
    /\ UNCHANGED <<now, counts, passed>>

\* Mutant of Full: one more than the limit is let through.
FullPast(kept) == Cardinality(kept) > Limit
Full(kept) == Cardinality(kept) >= Limit

\* What is too old for a request at t is forgotten.
Kept(a, t) == {r \in counts[a] : r.at + Window > t}

\* allow, under its lock.  A request that is refused is not booked.
Allow(c) ==
    LET a == asking[c].from
        t == IF a \in ClockFirst THEN asking[c].at ELSE now
        kept == Kept(a, t)
        new == [id |-> asking[c].id, by |-> c, at |-> t, lock |-> now]
    IN /\ asking[c] # Idle
       /\ \/ /\ Full(kept)
             /\ counts' = [counts EXCEPT ![a] = kept] /\ UNCHANGED passed
          \/ /\ ~Full(kept)
             /\ counts' = [counts EXCEPT ![a] = kept \cup {new}]
             /\ passed' = [passed EXCEPT ![a] = @ \cup {new}]
       /\ asking' = [asking EXCEPT ![c] = Idle]
       /\ UNCHANGED <<now, asked>>

Tick == now < MaxTime /\ now' = now + 1 /\ UNCHANGED <<counts, asking, passed, asked>>

LimiterNext == Tick \/ \E c \in Goroutine : Arrive(c) \/ Allow(c)
LimiterSpec == LimiterInit /\ [][LimiterNext]_limiterVars

-----------------------------------------------------------------------------

LimiterTypeOK ==
    /\ now \in Time /\ asked \in Nat /\ counts \in [Ip -> SUBSET Booking]
    /\ asking \in [Goroutine -> [id : Nat, from : Ip, at : Time] \cup {Idle}]
    /\ passed \in [Ip -> SUBSET Booking]

\* In no window of time, wherever it begins, are more requests of an address let
\* through than the limit (rateLimiter.allow).  A request that read the clock
\* before the window and waited for the lock is booked at its old time, so where
\* the clock is read first each request being served may be one too many; and no
\* sequence of late and early bookings adds up to more.
PerWindow ==
    \A a \in DOMAIN passed, w \in Time :
        Cardinality({r \in passed[a] : w <= r.lock /\ r.lock < w + Window})
            <= Limit + (IF a \in ClockFirst THEN Cardinality(Goroutine) ELSE 0)
=============================================================================
