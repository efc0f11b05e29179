----------------------------- MODULE RateLimit -----------------------------
(***************************************************************************)
(* The per-peer rate limiter of the record exchange: a token bucket and a  *)
(* counter per calendar minute for each peer, in a table of bounded size   *)
(* that a background goroutine rids of idle peers.  Allow and cleanup hold *)
(* the limiter's lock and are single steps.                                *)
(*                                                                         *)
(* Time passes in ticks, TicksPerMinute to the minute.  The token bucket   *)
(* (golang.org/x/time/rate) is external: it holds at most Burst tokens and *)
(* gains Refill of them each tick.  Reset and ResetAll have no caller.     *)
(***************************************************************************)
EXTENDS Naturals, FiniteSets

CONSTANTS
    Senders,              \* peers that send messages
    Burst,
    Refill,               \* MaxMessagesPerSecond, in tokens per tick
    MaxMessagesPerMinute,
    MaxTrackedPeers,
    MaxIdleTime,          \* maxIdleTime, in ticks
    TicksPerMinute,
    MaxTick,              \* bound: the clock
    Untracked             \* a peer without an entry

Limiter == [tokens : 0..Burst, minuteCount : Nat, minuteWindow : Nat, lastActive : Nat]

\* maxIdleTime is ten minutes.
ASSUME RateLimitAssumption ==
    /\ {Burst, Refill, MaxMessagesPerMinute, MaxTrackedPeers, MaxTick} \subseteq Nat
    /\ TicksPerMinute \in Nat \ {0}
    /\ MaxIdleTime \in Nat /\ MaxIdleTime >= TicksPerMinute
    /\ Untracked \notin Limiter

VARIABLES
    limiters,  \* limiters: a peer's entry
    tick,      \* time.Now()
    allowed    \* history: messages allowed to each peer in the current minute

limitVars == <<limiters, tick, allowed>>

LimitTypeOK ==
    /\ limiters \in [Senders -> Limiter \cup {Untracked}]
    /\ tick \in 0..MaxTick
    /\ allowed \in [Senders -> Nat]

LimitInit ==
    /\ limiters = [p \in Senders |-> Untracked]
    /\ tick = 0
    /\ allowed = [p \in Senders |-> 0]
-----------------------------------------------------------------------------
Tracked == {p \in Senders : limiters[p] # Untracked}

Minute == tick \div TicksPerMinute

\* The peer's entry, made when there is none.
Entered(p) ==
    IF p \in Tracked THEN limiters[p]
    ELSE [tokens |-> Burst, minuteCount |-> 0, minuteWindow |-> Minute, lastActive |-> tick]

\* Mutant: the counter is reset within the minute too.
CountedAfresh(l) ==
    IF Minute >= l.minuteWindow THEN 1
    ELSE IF l.minuteCount > MaxMessagesPerMinute THEN l.minuteCount ELSE l.minuteCount + 1

\* The counter after this message, reset in a new minute; it stops at the first
\* value over the limit, as no higher one makes a difference.
Counted(l) ==
    IF Minute > l.minuteWindow THEN 1
    ELSE IF l.minuteCount > MaxMessagesPerMinute THEN l.minuteCount ELSE l.minuteCount + 1

Allow(p) ==
    /\ p \in Tracked \/ Cardinality(Tracked) < MaxTrackedPeers
    /\ LET l == Entered(p) IN
       IF l.tokens = 0
       THEN /\ limiters' = [limiters EXCEPT ![p] = [l EXCEPT !.lastActive = tick]]
            /\ UNCHANGED allowed
       ELSE /\ limiters' = [limiters EXCEPT ![p] =
                 [tokens |-> l.tokens - 1, minuteCount |-> Counted(l),
                  minuteWindow |-> Minute, lastActive |-> tick]]
            /\ allowed' = IF Counted(l) > MaxMessagesPerMinute THEN allowed
                          ELSE [allowed EXCEPT ![p] = @ + 1]
    /\ UNCHANGED tick

Idling(p) == tick - limiters[p].lastActive > MaxIdleTime

Cleanup ==
    /\ limiters' = [p \in Senders |->
          IF p \in Tracked /\ Idling(p) THEN Untracked ELSE limiters[p]]
    /\ UNCHANGED <<tick, allowed>>

\* Time passes: buckets gain tokens, and a new minute may begin.
Pass ==
    /\ tick < MaxTick
    /\ tick' = tick + 1
    /\ limiters' = [p \in Senders |->
          IF p \notin Tracked THEN Untracked
          ELSE [limiters[p] EXCEPT !.tokens = IF @ + Refill > Burst THEN Burst ELSE @ + Refill]]
    /\ allowed' = IF (tick + 1) \div TicksPerMinute = Minute THEN allowed
                  ELSE [p \in Senders |-> 0]

LimitNext == (\E p \in Senders : Allow(p)) \/ Cleanup \/ Pass

LimitSpec == LimitInit /\ [][LimitNext]_limitVars
-----------------------------------------------------------------------------
\* A peer is never allowed more than MaxMessagesPerMinute messages in a calendar
\* minute, although its entry may be removed and made afresh; and the table never
\* holds more than maxTrackedPeers entries.
LimiterBounds ==
    /\ \A p \in Senders : allowed[p] <= MaxMessagesPerMinute
    /\ Cardinality(Tracked) <= MaxTrackedPeers
=============================================================================
