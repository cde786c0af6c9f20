------------------------------ MODULE RateLimit ------------------------------
(***************************************************************************)
(* RateLimitService.hit of src/src/common/rate-limit/rate-limit.service.ts *)
(* on one key: INCR, EXPIRE by the hit that created the counter, TTL.      *)
(* These are three Redis commands of their own, so the hits of concurrent  *)
(* requests, the time and the end of the window fall between them.  Redis  *)
(* keeps an expiry to the millisecond but TTL answers in seconds, rounded  *)
(* to the nearest: time passes in ticks, Resolution to the second.         *)
(*                                                                         *)
(* reset is not modelled: nothing in the repository calls it.              *)
(*                                                                         *)
(* The names of the specification end in Limiter, so that a module may     *)
(* speak of it beside what it guards (Visitors).                           *)
(***************************************************************************)
EXTENDS Naturals, FiniteSets

CONSTANTS
    Limit,      \* rule.limit
    Window,     \* rule.windowSec
    Resolution, \* ticks in a second
    Hit         \* slots for requests in flight

ASSUME RateLimitAssumption ==
    Limit \in Nat \ {0} /\ Window \in Nat \ {0} /\ Resolution \in Nat \ {0}

VARIABLES
    count,      \* the counter in Redis, 0 if there is none
    ttl,        \* its ticks to live, 0 if it has no expiry
    hit         \* where each request is, and whether it is allowed

\* History.
VARIABLES
    admitted,   \* admitted[a]: hits allowed a ticks ago
    promised,   \* ticks until the first denied client was told to come back
    orphan      \* the hit that created the counter died before its EXPIRE

limiterVars == <<count, ttl, hit, admitted, promised, orphan>>

-----------------------------------------------------------------------------
Lifetime == Window * Resolution
Never == Lifetime + 1   \* no denied client was told when to come back
Request == [pc : {"idle", "expire", "ttl"}, allowed : BOOLEAN]
NoHit == [pc |-> "idle", allowed |-> FALSE]
End(r) == hit' = [hit EXCEPT ![r] = NoHit]

InitLimiter ==
    /\ count = 0
    /\ ttl = 0
    /\ hit = [r \in Hit |-> NoHit]
    /\ admitted = [a \in 0 .. Lifetime - 1 |-> 0]
    /\ promised = Never
    /\ orphan = FALSE

\* INCR's answer, capped: beyond the limit the code tells no two apart.
Increment == IF count > Limit THEN count ELSE count + 1

\* Mutation: one hit too many is allowed.
AllowedOneMore(n) == n <= Limit + 1

\* `count <= rule.limit`, on that answer.
Allowed(n) == n <= Limit

\* Mutations: every hit renews the expiry; the second hit sets it.
OpensEveryTime(n) == n > 0
OpensSecond(n) == n = 2

\* Whether hit goes on with EXPIRE: `count === 1`.
Opens(n) == n = 1

\* hit: INCR creates a missing counter, with no expiry.
Incr(r) ==
    /\ hit[r] = NoHit
    /\ count' = Increment
    /\ hit' = [hit EXCEPT ![r] = [pc |-> IF Opens(count') THEN "expire" ELSE "ttl",
                                  allowed |-> Allowed(count')]]
    /\ admitted' = IF Allowed(count') THEN [admitted EXCEPT ![0] = @ + 1] ELSE admitted
    /\ UNCHANGED <<ttl, promised, orphan>>

\* hit: EXPIRE; it does nothing if the key is gone.
Expire(r) ==
    /\ hit[r].pc = "expire"
    /\ ttl' = IF count > 0 THEN Lifetime ELSE ttl
    /\ hit' = [hit EXCEPT ![r].pc = "ttl"]
    /\ UNCHANGED <<count, admitted, promised, orphan>>

\* TTL: the time to live to the nearest second, 0 for the last half second -
\* and what stands for -1 and -2, no expiry and no counter.
Seconds(n) == (2 * n + Resolution) \div (2 * Resolution)

\* `ttl > 0 ? ttl : rule.windowSec`.
ResetSec == IF Seconds(ttl) > 0 THEN Seconds(ttl) ELSE Window

\* hit: TTL, then the caller goes on, or answers 429 with retryAfterSec.
Answer(r) ==
    /\ hit[r].pc = "ttl"
    /\ promised' = IF ~hit[r].allowed /\ ttl > 0 /\ ResetSec * Resolution < promised
                   THEN ResetSec * Resolution ELSE promised
    /\ End(r)
    /\ UNCHANGED <<count, ttl, admitted, orphan>>

\* The connection to Redis fails or the process dies: the request gets no
\* answer, what it did to the counter stays.
HitFails(r) ==
    /\ hit[r] # NoHit
    /\ End(r)
    /\ orphan' = (orphan \/ hit[r].pc = "expire")
    /\ UNCHANGED <<count, ttl, admitted, promised>>

\* A tick passes; Redis drops a counter whose time is over.
Tick ==
    /\ ttl' = IF ttl > 0 THEN ttl - 1 ELSE 0
    /\ count' = IF ttl = 1 THEN 0 ELSE count
    /\ promised' = IF ttl = 1 THEN Never
                   ELSE IF promised \in 1 .. Lifetime THEN promised - 1 ELSE promised
    /\ admitted' = [a \in 0 .. Lifetime - 1 |-> IF a = 0 THEN 0 ELSE admitted[a - 1]]
    /\ UNCHANGED <<hit, orphan>>

NextLimiter ==
    \/ \E r \in Hit : Incr(r) \/ Expire(r) \/ Answer(r) \/ HitFails(r)
    \/ Tick

SpecLimiter == InitLimiter /\ [][NextLimiter]_limiterVars

\* Time passes, and Redis answers: a request in flight goes on.  Clients owe
\* nothing: they may hit as often as they like, or never.
FairSpecLimiter ==
    /\ SpecLimiter
    /\ WF_limiterVars(Tick)
    /\ \A r \in Hit : WF_limiterVars(Expire(r)) /\ WF_limiterVars(Answer(r))

-----------------------------------------------------------------------------
(***************************************************************************)
(* Properties                                                              *)
(***************************************************************************)

LimiterTypeOK ==
    /\ count \in 0 .. Limit + 1
    /\ ttl \in 0 .. Lifetime
    /\ hit \in [Hit -> Request]
    /\ admitted \in [0 .. Lifetime - 1 -> Nat]
    /\ promised \in 0 .. Never
    /\ orphan \in BOOLEAN

\* The hits allowed in the last windowSec seconds, by age and number.
Admissions == UNION {{a} \X (1 .. admitted[a]) : a \in 0 .. Lifetime - 1}

\* What a fixed window that opens with the first hit guarantees: no stretch
\* of windowSec seconds, wherever it starts, sees more than twice the limit
\* - however late the EXPIRE comes after the INCR that called for it
\* (rate-limit.service.ts:20-24, 31-37).
AtMostTwiceTheLimit == Cardinality(Admissions) <= 2 * Limit

\* A denied client that comes back when retryAfterSec says so finds the
\* counter that denied it gone or in its last half second, whoever hits
\* meanwhile - TTL rounds, so it may be told that much too early - unless it
\* was told before the window had an end (rate-limit.service.ts:32-39).
RetryAfterNearlyKept ==
    count > 0 /\ promised # Never => 0 < ttl /\ 2 * ttl < 2 * promised + Resolution

\* A counter without an end is about to get one from the hit that created
\* it, the only one that can, or that hit has died (31-34).
OnlyOrphansLackAnEnd ==
    /\ count > 0 /\ ttl = 0 => orphan \/ \E r \in Hit : hit[r].pc = "expire"
    /\ \A q, r \in Hit : hit[q].pc = "expire" /\ hit[r].pc = "expire" => q = r
    /\ \A r \in Hit : hit[r].pc = "expire" => count > 0 /\ ttl = 0

\* Knocking on does not keep the door shut: every counter runs out, even
\* while hits keep coming, unless its creator died (31-34).
WindowCloses == (count > 0) ~> (count = 0 \/ orphan)
=============================================================================
