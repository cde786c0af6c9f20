------------------------ MODULE PublicEndpointsProofs ------------------------
(***************************************************************************)
(* The rate limiter in front of the public endpoints, and what their       *)
(* visitors leave behind: for every limit, window and number of concurrent *)
(* requests, how many hits are admitted, which counters lack an end and    *)
(* how long a denied client has to wait (RateLimit); for any tenants,      *)
(* inquiries, views, days and handlers, that inquiries are mailed and that *)
(* a day's figures count its views (Visitors).                             *)
(***************************************************************************)
EXTENDS RateLimit, Visitors, FiniteSetTheorems, TLAPS

(***************************************************************************)
(* The rate limiter                                                        *)
(***************************************************************************)

\* An expiry belongs to a counter, and so does every promise to a client.
PromisesHaveCounter ==
    /\ ttl > 0 => count > 0
    /\ count = 0 => promised = Never

\* The hits allowed by earlier counters are at most Limit, and so are those
\* by the present one; once it has an expiry, the earlier ones are out of the
\* window when it ends.
Earlier(all, n, left, old) ==
    /\ old \in SUBSET all
    /\ Cardinality(old) <= Limit
    /\ Cardinality(all \ old) <= Limit
    /\ Cardinality(all \ old) <= n
    /\ left > 0 => \A p \in old : p[1] >= Lifetime - left

TwoWindows ==
    /\ IsFiniteSet(Admissions)
    /\ \E old \in SUBSET Admissions : Earlier(Admissions, count, ttl, old)

LimiterIInv == LimiterTypeOK /\ OnlyOrphansLackAnEnd /\ RetryAfterNearlyKept /\ PromisesHaveCounter

-----------------------------------------------------------------------------
(***************************************************************************)
(* Admissions                                                              *)
(***************************************************************************)

LEMMA LifetimeIs == Lifetime \in Nat \ {0}
BY RateLimitAssumption DEF Lifetime

Cell(f, a) == {a} \X (1 .. f[a])

LEMMA CellsAre ==
    ASSUME NEW f \in [0 .. Lifetime - 1 -> Nat], NEW p
    PROVE  p \in UNION {{a} \X (1 .. f[a]) : a \in 0 .. Lifetime - 1} <=>
             \E a \in 0 .. Lifetime - 1, n \in Nat \ {0} : p = <<a, n>> /\ n <= f[a]
<1>1. UNION {{a} \X (1 .. f[a]) : a \in 0 .. Lifetime - 1} = UNION {Cell(f, a) : a \in 0 .. Lifetime - 1}
  BY DEF Cell
<1>2. p \in UNION {Cell(f, a) : a \in 0 .. Lifetime - 1} <=> \E a \in 0 .. Lifetime - 1 : p \in Cell(f, a)
  OBVIOUS
<1>3. ASSUME NEW a \in 0 .. Lifetime - 1
      PROVE  p \in Cell(f, a) <=> \E n \in Nat \ {0} : p = <<a, n>> /\ n <= f[a]
  BY DEF Cell
<1> QED BY <1>1, <1>2, <1>3

LEMMA AdmissionsAre ==
    ASSUME LimiterTypeOK
    PROVE  \A p : p \in Admissions <=>
             \E a \in 0 .. Lifetime - 1, n \in Nat \ {0} : p = <<a, n>> /\ n <= admitted[a]
BY CellsAre DEF LimiterTypeOK, Admissions

LEMMA AdmissionsAfter ==
    ASSUME LimiterTypeOK'
    PROVE  \A p : p \in Admissions' <=>
             \E a \in 0 .. Lifetime - 1, n \in Nat \ {0} : p = <<a, n>> /\ n <= admitted'[a]
BY CellsAre DEF LimiterTypeOK, Admissions

\* Admissions that were, each a second earlier, all in T are no more than T.
LEMMA SecondLater ==
    ASSUME NEW S, NEW T, IsFiniteSet(T),
           \A p \in S : \E a \in Nat \ {0}, n \in Nat : p = <<a, n>> /\ <<a - 1, n>> \in T
    PROVE  IsFiniteSet(S) /\ Cardinality(S) <= Cardinality(T)
<1> DEFINE f == [p \in S |-> <<p[1] - 1, p[2]>>]
<1>1. \A p \in S : /\ p = <<p[1], p[2]>> /\ p[1] \in Nat \ {0}
                   /\ <<p[1] - 1, p[2]>> \in T
  <2> TAKE p \in S
  <2>1. PICK a \in Nat \ {0}, n \in Nat : p = <<a, n>> /\ <<a - 1, n>> \in T
    OBVIOUS
  <2>2. p[1] = a /\ p[2] = n
    BY <2>1
  <2> QED BY <2>1, <2>2
<1>2. f \in [S -> T]
  BY <1>1
<1>3. \A p, q \in S : f[p] = f[q] => p = q
  <2> SUFFICES ASSUME NEW p \in S, NEW q \in S, f[p] = f[q] PROVE p = q
    OBVIOUS
  <2>1. p[1] - 1 = q[1] - 1 /\ p[2] = q[2]
    OBVIOUS
  <2>2. p[1] = q[1]
    BY <2>1, <1>1
  <2> QED BY <2>1, <2>2, <1>1
<1>4. f \in Injection(S, T)
  BY <1>2, <1>3 DEF Injection, IsInjective
<1> QED BY <1>4, FS_Injection

\* Nothing is admitted at first.
LEMMA InitTwoWindows == ASSUME InitLimiter, LimiterTypeOK PROVE TwoWindows
<1>1. Admissions = {}
  BY AdmissionsAre DEF InitLimiter
<1>2. Earlier(Admissions, count, ttl, {})
  BY <1>1, FS_EmptySet, RateLimitAssumption, LifetimeIs DEF Earlier, InitLimiter
<1> QED BY <1>1, <1>2, FS_EmptySet DEF TwoWindows

\* INCR: a hit that is allowed is one more of the present counter's.
LEMMA IncrTwoWindows ==
    ASSUME LimiterTypeOK, LimiterTypeOK', TwoWindows, NEW r \in Hit, Incr(r)
    PROVE  TwoWindows'
<1> USE RateLimitAssumption, LifetimeIs
<1>1. PICK old \in SUBSET Admissions : Earlier(Admissions, count, ttl, old)
  BY DEF TwoWindows
<1> DEFINE cur == Admissions \ old
<1>2. IsFiniteSet(Admissions) /\ IsFiniteSet(cur) /\ Cardinality(cur) \in Nat
  BY FS_Difference, FS_Subset, FS_CardinalityType DEF TwoWindows
<1>3. count \in Nat /\ Limit \in Nat
  BY DEF LimiterTypeOK
<1>4. CASE ~Allowed(count')
  <2>1. UNCHANGED <<admitted, ttl>> /\ count' >= count
    BY <1>4, <1>3 DEF Incr, Increment
  <2>2. Admissions' = Admissions
    BY <2>1 DEF Admissions
  <2>3. Earlier(Admissions', count', ttl', old)
    BY <1>1, <2>1, <2>2, <1>2, <1>3 DEF Earlier, LimiterTypeOK
  <2> QED BY <2>2, <2>3, <1>2 DEF TwoWindows
<1>5. CASE Allowed(count')
  <2> DEFINE new == <<0, admitted[0] + 1>>
  <2>1. /\ admitted' = [admitted EXCEPT ![0] = @ + 1]
        /\ ttl' = ttl /\ count' = count + 1 /\ count' <= Limit
    BY <1>5, <1>3 DEF Incr, Increment, Allowed
  <2>2. admitted[0] \in Nat /\ 0 \in 0 .. Lifetime - 1
    BY DEF LimiterTypeOK
  <2>3. /\ admitted'[0] = admitted[0] + 1
        /\ \A a \in 0 .. Lifetime - 1 : a # 0 => admitted'[a] = admitted[a]
    BY <2>1, <2>2 DEF LimiterTypeOK
  <2>4. new \in Admissions' /\ new \notin Admissions
    BY <2>2, <2>3, AdmissionsAre, AdmissionsAfter
  <2>5. \A p : p \in Admissions' <=> p \in Admissions \/ p = new
    <3>1. \A p : p \in Admissions => p \in Admissions'
      <4> SUFFICES ASSUME NEW a \in 0 .. Lifetime - 1, NEW n \in Nat \ {0}, n <= admitted[a]
                   PROVE  <<a, n>> \in Admissions'
        BY AdmissionsAre
      <4>1. n <= admitted'[a]
        BY <2>2, <2>3
      <4> QED BY <4>1, AdmissionsAfter
    <3>2. \A p : p \in Admissions' => p \in Admissions \/ p = new
      <4> SUFFICES ASSUME NEW a \in 0 .. Lifetime - 1, NEW n \in Nat \ {0}, n <= admitted'[a],
                          <<a, n>> # new
                   PROVE  <<a, n>> \in Admissions
        BY AdmissionsAfter
      <4>1. n <= admitted[a]
        BY <2>2, <2>3
      <4> QED BY <4>1, AdmissionsAre
    <3> QED BY <3>1, <3>2, <2>4
  <2>6. Admissions' = Admissions \cup {new} /\ Admissions' \ old = cur \cup {new}
    BY <2>4, <2>5, <1>1 DEF Earlier
  <2>7. IsFiniteSet(Admissions') /\ Cardinality(Admissions' \ old) = Cardinality(cur) + 1
    <3>1. new \notin cur
      BY <2>4
    <3> HIDE DEF new, cur
    <3> QED BY <2>6, <3>1, <1>2, FS_AddElement
  <2>8. Cardinality(cur) <= count
    BY <1>1 DEF Earlier
  <2>9. Earlier(Admissions', count', ttl', old)
    BY <1>1, <2>1, <2>6, <2>7, <2>8, <1>2, <1>3 DEF Earlier
  <2> QED BY <2>7, <2>9 DEF TwoWindows, Earlier
<1> QED BY <1>4, <1>5

\* EXPIRE opens a window no admission has left.
LEMMA ExpireTwoWindows ==
    ASSUME LimiterTypeOK, TwoWindows, NEW r \in Hit, Expire(r)
    PROVE  TwoWindows'
<1>1. PICK old \in SUBSET Admissions : Earlier(Admissions, count, ttl, old)
  BY DEF TwoWindows
<1>2. UNCHANGED <<admitted, count>> /\ ttl' \in {Lifetime, ttl}
  BY DEF Expire
<1>3. Admissions' = Admissions
  BY <1>2 DEF Admissions
<1>4. \A p \in old : p[1] \in Nat
  BY <1>1, AdmissionsAre DEF Earlier
<1>5. \A p \in old : ttl' = Lifetime => p[1] >= Lifetime - ttl'
  BY <1>4, RateLimitAssumption, LifetimeIs
<1>6. Earlier(Admissions', count', ttl', old)
  BY <1>1, <1>2, <1>3, <1>5 DEF Earlier
<1> QED BY <1>3, <1>6 DEF TwoWindows

\* A second makes every admission older; the one in which the counter ends
\* takes the last of the earlier ones out of the window.
LEMMA TickTwoWindows ==
    ASSUME LimiterTypeOK, LimiterTypeOK', TwoWindows, Tick
    PROVE  TwoWindows'
<1> USE RateLimitAssumption, LifetimeIs
<1>1. PICK old \in SUBSET Admissions : Earlier(Admissions, count, ttl, old)
  BY DEF TwoWindows
<1> DEFINE cur == Admissions \ old
           kept == {p \in Admissions' : <<p[1] - 1, p[2]>> \in old}
<1>2. IsFiniteSet(Admissions) /\ IsFiniteSet(old) /\ IsFiniteSet(cur)
  BY <1>1, FS_Subset, FS_Difference DEF TwoWindows, Earlier
<1>3. Limit \in Nat /\ count \in Nat /\ ttl \in Nat /\ Lifetime \in Nat
  BY DEF LimiterTypeOK
<1>4. \A p \in Admissions' : \E a \in Nat \ {0}, n \in Nat :
        p = <<a, n>> /\ a < Lifetime /\ <<a - 1, n>> \in Admissions
  <2> TAKE p \in Admissions'
  <2>0. PICK a \in 0 .. Lifetime - 1, n \in Nat \ {0} : p = <<a, n>> /\ n <= admitted'[a]
    BY AdmissionsAfter
  <2>1. admitted'[a] = IF a = 0 THEN 0 ELSE admitted[a - 1]
    BY DEF Tick
  <2>2. a # 0 /\ a - 1 \in 0 .. Lifetime - 1 /\ n <= admitted[a - 1]
    BY <2>0, <2>1
  <2>3. <<a - 1, n>> \in Admissions
    BY <2>2, AdmissionsAre
  <2>4. a \in Nat \ {0} /\ n \in Nat /\ a < Lifetime
    BY <2>2
  <2> QED BY <2>0, <2>3, <2>4
<1>5. IsFiniteSet(Admissions')
  BY <1>2, <1>4, SecondLater
<1>6. CASE ttl = 1
  <2>1. \A p \in Admissions' : \E a \in Nat \ {0}, n \in Nat : p = <<a, n>> /\ <<a - 1, n>> \in cur
    <3> SUFFICES ASSUME NEW a \in Nat \ {0}, NEW n \in Nat, a < Lifetime,
                        <<a - 1, n>> \in Admissions
                 PROVE  <<a - 1, n>> \in cur
      BY <1>4
    <3>1. \A p \in old : p[1] >= Lifetime - 1
      BY <1>1, <1>6 DEF Earlier
    <3>2. ~(a - 1 >= Lifetime - 1)
      BY <1>3
    <3> QED BY <3>1, <3>2
  <2>2. Cardinality(Admissions') <= Cardinality(cur)
    BY <1>2, <2>1, SecondLater
  <2>3. Cardinality(Admissions') <= Limit
    BY <2>2, <1>1, <1>2, <1>3, <1>5, FS_CardinalityType DEF Earlier
  <2>4. ttl' = 0 /\ count' = 0
    BY <1>6 DEF Tick
  <2>5. Admissions' \ Admissions' = {}
    OBVIOUS
  <2>6. Earlier(Admissions', count', ttl', Admissions')
    BY <2>3, <2>4, <2>5, <1>3, FS_EmptySet DEF Earlier
  <2> QED BY <1>5, <2>6 DEF TwoWindows
<1>7. CASE ttl # 1
  <2>1. count' = count /\ ttl' = IF ttl > 0 THEN ttl - 1 ELSE 0
    BY <1>7 DEF Tick
  <2>0. \A p \in Admissions' : \E a \in Nat \ {0}, n \in Nat :
          /\ p = <<a, n>> /\ <<a - 1, n>> \in Admissions
          /\ p \in kept <=> <<a - 1, n>> \in old
    <3> TAKE p \in Admissions'
    <3>1. PICK a \in Nat \ {0}, n \in Nat : p = <<a, n>> /\ <<a - 1, n>> \in Admissions
      BY <1>4
    <3>2. p[1] = a /\ p[2] = n
      BY <3>1
    <3> QED BY <3>1, <3>2
  <2>2. \A p \in kept : \E a \in Nat \ {0}, n \in Nat : p = <<a, n>> /\ <<a - 1, n>> \in old
    BY <2>0
  <2>3. \A p \in Admissions' \ kept :
          \E a \in Nat \ {0}, n \in Nat : p = <<a, n>> /\ <<a - 1, n>> \in cur
    BY <2>0
  <2>4. Cardinality(kept) <= Cardinality(old) /\ IsFiniteSet(kept)
    BY <1>2, <2>2, SecondLater
  <2>5. Cardinality(Admissions' \ kept) <= Cardinality(cur) /\ IsFiniteSet(Admissions' \ kept)
    BY <1>2, <2>3, SecondLater
  <2>6. ttl' > 0 => \A p \in kept : p[1] >= Lifetime - ttl'
    <3> SUFFICES ASSUME ttl' > 0, NEW p \in kept
                 PROVE  p[1] >= Lifetime - ttl'
      OBVIOUS
    <3>1. ttl > 0 /\ ttl' = ttl - 1
      BY <2>1, <1>3
    <3>2. PICK a \in Nat \ {0}, n \in Nat : p = <<a, n>> /\ <<a - 1, n>> \in old
      BY <2>2
    <3>3. \A q \in old : q[1] >= Lifetime - ttl
      BY <1>1, <3>1 DEF Earlier
    <3>4. a - 1 >= Lifetime - ttl
      BY <3>2, <3>3
    <3>5. a >= Lifetime - ttl'
      BY <3>1, <3>4, <1>3
    <3> QED BY <3>2, <3>5
  <2>7. /\ Cardinality(kept) \in Nat /\ Cardinality(old) \in Nat
        /\ Cardinality(Admissions' \ kept) \in Nat /\ Cardinality(cur) \in Nat
    BY <1>2, <2>4, <2>5, FS_CardinalityType
  <2>8. Cardinality(old) <= Limit /\ Cardinality(cur) <= Limit /\ Cardinality(cur) <= count
    BY <1>1 DEF Earlier
  <2>9. kept \in SUBSET Admissions'
    OBVIOUS
  <2> HIDE DEF kept, cur
  <2>10. Earlier(Admissions', count', ttl', kept)
    BY <1>3, <2>1, <2>4, <2>5, <2>6, <2>7, <2>8, <2>9 DEF Earlier
  <2> QED BY <1>5, <2>9, <2>10 DEF TwoWindows
<1> QED BY <1>6, <1>7

\* TTL is at most half a second short, and never more than the window.
LEMMA SecondsAreNear ==
    ASSUME NEW n \in 0 .. Lifetime
    PROVE  /\ Seconds(n) \in 0 .. Window
           /\ 2 * n < 2 * (Seconds(n) * Resolution) + Resolution
<1> DEFINE d == 2 * Resolution
           m == 2 * n + Resolution
           s == m \div d
<1>1. d \in Nat \ {0} /\ m \in Nat
  BY RateLimitAssumption, LifetimeIs
<1>2. s \in Nat /\ d * s <= m /\ m < d * s + d
  <2> HIDE DEF d, m
  <2> QED BY <1>1
<1>3. Seconds(n) = s /\ d * s = 2 * (s * Resolution)
  <2>1. Seconds(n) = s
    BY DEF Seconds
  <2>2. d * s = 2 * (s * Resolution)
    <3> HIDE DEF s
    <3> QED BY <1>2, RateLimitAssumption
  <2> QED BY <2>1, <2>2
<1>4. s <= Window
  <2>1. Window \in Nat /\ Resolution \in Nat \ {0} /\ n <= Window * Resolution
    BY RateLimitAssumption DEF Lifetime
  <2> SUFFICES ASSUME s >= Window + 1 PROVE FALSE
    BY <1>2, <2>1
  <2> HIDE DEF s
  <2>2. PICK e \in Nat : s = Window + 1 + e
    <3>1. s - (Window + 1) \in Nat /\ s = Window + 1 + (s - (Window + 1))
      BY <1>2, <2>1
    <3> QED BY <3>1
  <2>3. s * Resolution = Window * Resolution + Resolution + e * Resolution
    BY <2>1, <2>2
  <2>4. Window * Resolution \in Nat /\ e * Resolution \in Nat
    BY <2>1
  <2> QED BY <1>2, <1>3, <2>1, <2>3, <2>4
<1>5. s * Resolution \in Nat
  BY <1>2, RateLimitAssumption
<1> HIDE DEF s
<1> QED BY <1>1, <1>2, <1>3, <1>4, <1>5, RateLimitAssumption DEF d, m

\* What a client is told, in ticks.
LEMMA ToldIsNear ==
    ASSUME ttl \in 0 .. Lifetime
    PROVE  /\ ResetSec * Resolution \in 0 .. Lifetime
           /\ 2 * ttl < 2 * (ResetSec * Resolution) + Resolution
<1>1. /\ Seconds(ttl) \in 0 .. Window
      /\ 2 * ttl < 2 * (Seconds(ttl) * Resolution) + Resolution
  BY SecondsAreNear
<1>2. \A k \in 0 .. Window : k * Resolution \in 0 .. Lifetime
  <2> TAKE k \in 0 .. Window
  <2>1. PICK e \in Nat : Window = k + e
    <3>1. Window - k \in Nat /\ Window = k + (Window - k)
      BY RateLimitAssumption
    <3> QED BY <3>1
  <2>2. Lifetime = k * Resolution + e * Resolution
    BY <2>1, RateLimitAssumption DEF Lifetime
  <2>3. k * Resolution \in Nat /\ e * Resolution \in Nat
    BY RateLimitAssumption
  <2> QED BY <2>2, <2>3
<1>3. CASE Seconds(ttl) > 0
  BY <1>1, <1>2, <1>3 DEF ResetSec
<1>4. CASE ~(Seconds(ttl) > 0)
  <2>1. ResetSec = Window /\ Window * Resolution = Lifetime
    BY <1>4 DEF ResetSec, Lifetime
  <2> QED BY <2>1, LifetimeIs, RateLimitAssumption
<1> QED BY <1>3, <1>4

\* No counter, no request: nothing to break.
LEMMA InitLimiterIInv == InitLimiter => LimiterIInv
  <1> SUFFICES ASSUME InitLimiter PROVE LimiterIInv
    OBVIOUS
  <1> USE RateLimitAssumption, LifetimeIs DEF InitLimiter, NoHit
  <1>1. LimiterTypeOK
    <2>1. hit \in [Hit -> Request] /\ orphan \in BOOLEAN
      BY DEF Request
    <2>2. admitted \in [0 .. Lifetime - 1 -> Nat]
      OBVIOUS
    <2> QED BY <2>1, <2>2 DEF LimiterTypeOK, Never
  <1>2. OnlyOrphansLackAnEnd /\ RetryAfterNearlyKept /\ PromisesHaveCounter
    BY DEF OnlyOrphansLackAnEnd, RetryAfterNearlyKept, PromisesHaveCounter
  <1> QED BY <1>1, <1>2 DEF LimiterIInv

\* INCR: only the hit that creates the counter goes on with EXPIRE, and while
\* one is there no other can.
LEMMA IncrStep == ASSUME LimiterIInv, NEW r \in Hit, Incr(r) PROVE LimiterIInv'
  <1> USE RateLimitAssumption, LifetimeIs DEF LimiterIInv, LimiterTypeOK, Never
  <1>1. LimiterTypeOK'
    BY DEF Incr, Increment, Opens, Allowed, Request
  <1>2. OnlyOrphansLackAnEnd'
    BY DEF Incr, Increment, Opens, OnlyOrphansLackAnEnd, Request, PromisesHaveCounter, NoHit
  <1>3. RetryAfterNearlyKept' /\ PromisesHaveCounter'
    BY DEF Incr, Increment, RetryAfterNearlyKept, PromisesHaveCounter
  <1> QED BY <1>1, <1>2, <1>3

\* EXPIRE ends the exception its own hit was granted.
LEMMA ExpireStep == ASSUME LimiterIInv, NEW r \in Hit, Expire(r) PROVE LimiterIInv'
  <1> USE RateLimitAssumption, LifetimeIs DEF LimiterIInv, LimiterTypeOK, Never, Expire
  <1>1. LimiterTypeOK'
    BY DEF Request
  <1>2. OnlyOrphansLackAnEnd'
    BY DEF OnlyOrphansLackAnEnd, Request
  <1>3. RetryAfterNearlyKept' /\ PromisesHaveCounter'
    BY DEF RetryAfterNearlyKept, PromisesHaveCounter, OnlyOrphansLackAnEnd
  <1> QED BY <1>1, <1>2, <1>3

\* An answer promises what the counter has left.
LEMMA AnswerStep == ASSUME LimiterIInv, NEW r \in Hit, Answer(r) PROVE LimiterIInv'
  <1> USE RateLimitAssumption, LifetimeIs DEF LimiterIInv, LimiterTypeOK, Never, Answer, End, NoHit
  <1> DEFINE wait == ResetSec * Resolution
  <1>0. wait \in 0 .. Lifetime /\ 2 * ttl < 2 * wait + Resolution
    BY ToldIsNear
  <1>4. promised' \in {promised, wait} /\ (promised' # promised => ttl > 0)
    OBVIOUS
  <1> HIDE DEF wait
  <1>1. LimiterTypeOK'
    BY <1>0, <1>4 DEF Request
  <1>2. OnlyOrphansLackAnEnd'
    BY DEF OnlyOrphansLackAnEnd, Request
  <1>3. RetryAfterNearlyKept' /\ PromisesHaveCounter'
    BY <1>0, <1>4 DEF RetryAfterNearlyKept, PromisesHaveCounter
  <1> QED BY <1>1, <1>2, <1>3

\* A hit that dies before its EXPIRE leaves an orphan.
LEMMA AbortStep == ASSUME LimiterIInv, NEW r \in Hit, HitFails(r) PROVE LimiterIInv'
  <1> USE RateLimitAssumption, LifetimeIs DEF LimiterIInv, LimiterTypeOK, Never, HitFails, End, NoHit
  <1>1. LimiterTypeOK'
    BY DEF Request
  <1>2. OnlyOrphansLackAnEnd'
    BY DEF OnlyOrphansLackAnEnd, Request
  <1>3. RetryAfterNearlyKept' /\ PromisesHaveCounter'
    BY DEF RetryAfterNearlyKept, PromisesHaveCounter
  <1> QED BY <1>1, <1>2, <1>3

\* A counter and the promises made of it run down together.
LEMMA TickStep == ASSUME LimiterIInv, Tick PROVE LimiterIInv'
  <1> USE RateLimitAssumption, LifetimeIs DEF LimiterIInv, LimiterTypeOK, Never, Tick
  <1>1. LimiterTypeOK'
    BY SMT
  <1>2. OnlyOrphansLackAnEnd'
    BY DEF OnlyOrphansLackAnEnd
  <1>3. RetryAfterNearlyKept' /\ PromisesHaveCounter'
    BY DEF RetryAfterNearlyKept, PromisesHaveCounter
  <1> QED BY <1>1, <1>2, <1>3

\* The conjunction of the three is preserved by every step.
THEOREM LimiterInvariance == SpecLimiter => []LimiterIInv
  <1>1. LimiterIInv /\ UNCHANGED limiterVars => LimiterIInv'
    BY DEF limiterVars, LimiterIInv, LimiterTypeOK, OnlyOrphansLackAnEnd, RetryAfterNearlyKept, PromisesHaveCounter
  <1>2. LimiterIInv /\ [NextLimiter]_limiterVars => LimiterIInv'
    BY <1>1, IncrStep, ExpireStep, AnswerStep, AbortStep, TickStep DEF NextLimiter
  <1> QED BY InitLimiterIInv, <1>2, PTL DEF SpecLimiter

\* Every variable keeps its type; the capped counter never leaves its range.
THEOREM LimiterTypeCorrect == SpecLimiter => []LimiterTypeOK
  BY LimiterInvariance, PTL DEF LimiterIInv

\* A counter without an end has its creator's EXPIRE ahead, or is an orphan.
THEOREM CountersEnd == SpecLimiter => []OnlyOrphansLackAnEnd
  BY LimiterInvariance, PTL DEF LimiterIInv

\* retryAfterSec is long enough, but for the half second TTL rounds away.
THEOREM RetryAfter == SpecLimiter => []RetryAfterNearlyKept
  BY LimiterInvariance, PTL DEF LimiterIInv

\* The admissions stay those of two windows.
THEOREM AdmissionsInvariance == SpecLimiter => [](LimiterTypeOK /\ TwoWindows)
  <1>1. InitLimiter => LimiterTypeOK /\ TwoWindows
    BY InitLimiterIInv, InitTwoWindows DEF LimiterIInv
  <1>2. LimiterTypeOK /\ LimiterTypeOK' /\ TwoWindows /\ [NextLimiter]_limiterVars => TwoWindows'
    <2> SUFFICES ASSUME LimiterTypeOK, LimiterTypeOK', TwoWindows, [NextLimiter]_limiterVars
                 PROVE  TwoWindows'
      OBVIOUS
    <2>1. CASE UNCHANGED <<admitted, count, ttl>>
      BY <2>1 DEF TwoWindows, Earlier, Admissions
    <2>2. ASSUME NEW r \in Hit, Answer(r) \/ HitFails(r) PROVE TwoWindows'
      BY <2>1, <2>2 DEF Answer, HitFails
    <2>3. CASE UNCHANGED limiterVars
      BY <2>1, <2>3 DEF limiterVars
    <2> QED BY <2>2, <2>3, IncrTwoWindows, ExpireTwoWindows, TickTwoWindows DEF NextLimiter
  <1> QED BY <1>1, <1>2, LimiterTypeCorrect, PTL DEF SpecLimiter

\* No stretch of windowSec seconds sees more than twice the limit admitted
\* (rate-limit.service.ts:20-24, 31-37).
THEOREM Admitted == SpecLimiter => []AtMostTwiceTheLimit
  <1>1. LimiterTypeOK /\ TwoWindows => AtMostTwiceTheLimit
    <2> SUFFICES ASSUME LimiterTypeOK, TwoWindows PROVE AtMostTwiceTheLimit
      OBVIOUS
    <2>1. PICK old \in SUBSET Admissions : Earlier(Admissions, count, ttl, old)
      BY DEF TwoWindows
    <2> DEFINE cur == Admissions \ old
    <2>2. IsFiniteSet(Admissions) /\ IsFiniteSet(old) /\ IsFiniteSet(cur)
      BY <2>1, FS_Subset, FS_Difference DEF TwoWindows, Earlier
    <2>3. Admissions = old \cup cur /\ old \cap cur = {}
      BY <2>1 DEF Earlier
    <2>4. Cardinality(Admissions) = Cardinality(old) + Cardinality(cur) - Cardinality(old \cap cur)
      BY <2>2, <2>3, FS_Union
    <2>5. Cardinality(old \cap cur) = 0
      BY <2>3, FS_EmptySet
    <2>6. Cardinality(old) \in Nat /\ Cardinality(cur) \in Nat
      BY <2>2, FS_CardinalityType
    <2>7. Cardinality(old) <= Limit /\ Cardinality(cur) <= Limit
      BY <2>1 DEF Earlier
    <2> QED BY <2>4, <2>5, <2>6, <2>7, RateLimitAssumption, LifetimeIs DEF AtMostTwiceTheLimit
  <1> QED BY <1>1, AdmissionsInvariance, PTL

-----------------------------------------------------------------------------
(***************************************************************************)
(* What visitors leave behind                                              *)
(***************************************************************************)

\* A handler in flight carries a row of inquiry q, of tenant t.
Carries(rq, q, t) == \E r \in Req : rq[r].pc = "saveRead" /\ rq[r].q = q /\ rq[r].row.t = t

\* Wherever inquiry q is spoken of, it is the same tenant's; and from its
\* insertion on its id is taken.
Mentions(q, t) ==
    \/ <<q, t>> \in told
    \/ mail[q].pc \in Running /\ mail[q].t = t
    \/ stray[q].pc \in Running /\ stray[q].t = t
    \/ inquiry[q] # None /\ inquiry[q].t = t
    \/ Carries(req, q, t)

Taken(q) == mail[q].pc # "none" \/ q \in lost \/ Told(q)

OneTenant(q) ==
    \A t \in Tenant : Mentions(q, t) => Taken(q) /\ \A u \in Tenant : Mentions(q, u) => t = u

\* A stored inquiry has its tenant.
HasTenant(q) == inquiry[q] # None => inquiry[q].t \in live

\* Until its job is done, no mail was taken, or an answer was lost or the job
\* stalled.
MailedOnce(q) ==
    /\ mail[q].pc # "done" => sent[q] = 0 \/ q \in unsure \/ stray[q].pc # "none"
    /\ Told(q) => mail[q].pc = "none"
    /\ mail[q].pc = "none" => sent[q] = 0 /\ stray[q].pc = "none"

\* The mails a job, and a run that stalled, may still have sent.
JobMails(m) == IF m.pc \in Running THEN m.left ELSE 0
RunMails(m) == IF m.pc \in Running THEN 1 ELSE 0

\* The mails sent and those still coming are within the job's attempts, but
\* for the one of the run that stalled.
Budgeted(q) ==
    sent[q] + JobMails(mail[q]) + RunMails(stray[q])
        <= IF stray[q].pc = "none" THEN Attempts ELSE Attempts + 1

\* InquiryIsMailed, of one inquiry, but for how often, which Budgeted bounds.
IsMailed(q) ==
    /\ inquiry[q] # None =>
        \/ Told(q) \/ mail[q].pc \in Running
        \/ sent[q] > 0
        \/ q \in lost \cup revived
    /\ sent[q] > 1 => q \in unsure \/ stray[q].pc # "none"

InquiryOK(q) ==
    OneTenant(q) /\ HasTenant(q) /\ MailedOnce(q) /\ Budgeted(q) /\ IsMailed(q)

InquiryIInv == TypeOK /\ \A q \in Inquiry : InquiryOK(q)

\* The nightly job runs on a day that has a yesterday, and adds it up.
Runs ==
    /\ due => today > 0
    /\ rollup # Idle => today > 0
    /\ rollup.pc = "save" => rollup.date < today

\* Finitely many views were stored, none in the future; only old ones are
\* pruned.
Kept ==
    /\ IsFiniteSet({v \in View : visited[v] # None})
    /\ \A v \in View :
        /\ visited[v] # None => visited[v].day <= today
        /\ view[v] = visited[v] \/ view[v] = None
        /\ view[v] # visited[v] => visited[v].day + PruneAfter <= today

\* A row of daily_stats is the tally of all the views the day ever had, and is
\* there if the day is complete and had any.
CountedFor(t, d) ==
    /\ stat[t][d] # None => d < today /\ stat[t][d] = Tally(visited, t, d)
    /\ d \in complete /\ RowsOf(visited, t, d) # {} => stat[t][d] # None

Counted ==
    /\ \A d \in complete : d < today
    /\ \A t \in live, d \in Day : CountedFor(t, d)

\* What the worker holds is such a tally, and it has saved the others.
ToSave(s, t) ==
    /\ t \in DOMAIN s.todo => s.todo[t] = Tally(visited, t, s.date)
    /\ RowsOf(visited, t, s.date) # {} => t \in DOMAIN s.todo \/ stat[t][s.date] # None

RollsUp == rollup.pc = "save" => \A t \in live : ToSave(rollup, t)

StatIInv == TypeOK /\ Runs /\ Kept /\ Counted /\ RollsUp

-----------------------------------------------------------------------------
(***************************************************************************)
(* Handlers and jobs                                                       *)
(***************************************************************************)

LEMMA HandlerFields ==
    ASSUME NEW h \in Handler
    PROVE  /\ h.pc \in {"idle", "insertInquiry", "insertView", "saveRead", "remove"}
           /\ h.pc = "insertInquiry" => h.t \in Tenant
           /\ h.pc = "insertView" => h.t \in Tenant /\ h.visitor \in Visitor /\ h.salt \in Day
           /\ h.pc = "saveRead" => h.q \in Inquiry /\ h.row \in InquiryRow
           /\ h.pc = "remove" => h.q \in Inquiry
BY DEF Handler

LEMMA HandlerMade ==
    /\ Idle \in Handler
    /\ \A t \in Tenant : [pc |-> "insertInquiry", t |-> t] \in Handler
    /\ \A t \in Tenant, visitor \in Visitor, salt \in Day :
         [pc |-> "insertView", t |-> t, visitor |-> visitor, salt |-> salt] \in Handler
    /\ \A q \in Inquiry, w \in InquiryRow : [pc |-> "saveRead", q |-> q, row |-> w] \in Handler
    /\ \A q \in Inquiry : [pc |-> "remove", q |-> q] \in Handler
BY DEF Handler, Idle

LEMMA MailFields ==
    ASSUME NEW m \in MailState
    PROVE  /\ m.pc \in {"none", "done"} \cup Running
           /\ m.pc \in Running => m.t \in Tenant /\ m.left \in 1..Attempts
BY DEF MailState, Running

LEMMA MailMade ==
    /\ Done \in MailState /\ Done.pc = "done"
    /\ \A p \in Running, t \in Tenant, n \in 1..Attempts :
         /\ [pc |-> p, t |-> t, left |-> n] \in MailState
         /\ [pc |-> p, t |-> t, left |-> n].pc = p
         /\ [pc |-> p, t |-> t, left |-> n].t = t
         /\ [pc |-> p, t |-> t, left |-> n].left = n
BY DEF MailState, Running, Done

\* A run goes on with another pc, or with other attempts left.
LEMMA MailMoved ==
    ASSUME NEW m \in MailState, m.pc \in Running
    PROVE  /\ \A p \in Running :
                /\ [m EXCEPT !.pc = p] \in MailState
                /\ [m EXCEPT !.pc = p].pc = p
                /\ [m EXCEPT !.pc = p].t = m.t
                /\ [m EXCEPT !.pc = p].left = m.left
           /\ \A n \in 1..Attempts :
                /\ [m EXCEPT !.left = n] \in MailState
                /\ [m EXCEPT !.left = n].pc = m.pc
                /\ [m EXCEPT !.left = n].t = m.t
                /\ [m EXCEPT !.left = n].left = n
BY DEF MailState, Running

LEMMA InquiryRowFields ==
    ASSUME NEW w \in InquiryRow
    PROVE  /\ w.t \in Tenant
           /\ [w EXCEPT !.read = TRUE] \in InquiryRow
           /\ [w EXCEPT !.read = TRUE].t = w.t
BY DEF InquiryRow

\* Handler r goes on as h.
LEMMA GotoReq ==
    ASSUME TypeOK, NEW r \in Req, NEW h \in Handler, Goto(r, h)
    PROVE  /\ req' \in [Req -> Handler]
           /\ req'[r] = h
           /\ \A q \in Req : q # r => req'[q] = req[q]
BY DEF TypeOK, Goto

LEMMA CarriesStep ==
    ASSUME TypeOK, NEW r \in Req, NEW h \in Handler, Goto(r, h), NEW q, NEW t
    PROVE  Carries(req', q, t) =>
             Carries(req, q, t) \/ (h.pc = "saveRead" /\ h.q = q /\ h.row.t = t)
BY GotoReq DEF Carries

-----------------------------------------------------------------------------
(***************************************************************************)
(* What a step keeps of an inquiry                                         *)
(***************************************************************************)

\* Nothing about q changes but its tenant, who may take the row along, and
\* who carries it.
SameInquiry(q) ==
    /\ inquiry'[q] = inquiry[q]
    /\ \A t \in Tenant : <<q, t>> \in told' <=> <<q, t>> \in told
    /\ mail'[q] = mail[q] /\ stray'[q] = stray[q]
    /\ sent'[q] = sent[q]
    /\ q \in unsure <=> q \in unsure'
    /\ q \in lost => q \in lost'
    /\ q \in revived => q \in revived'

LEMMA InquiryStays ==
    ASSUME NEW q \in Inquiry, InquiryOK(q), SameInquiry(q),
           inquiry[q] = None \/ inquiry[q].t \in live',
           \A t \in Tenant : Carries(req', q, t) => Mentions(q, t)
    PROVE  InquiryOK(q)'
<1>1. Told(q)' <=> Told(q)
  BY DEF Told, SameInquiry
<1>2. Taken(q) => Taken(q)'
  BY <1>1 DEF Taken, SameInquiry
<1>3. \A t \in Tenant : Mentions(q, t)' => Mentions(q, t)
  BY DEF Mentions, SameInquiry
<1>4. OneTenant(q)'
  BY <1>2, <1>3 DEF InquiryOK, OneTenant
<1>5. HasTenant(q)'
  BY DEF HasTenant, SameInquiry
<1>6. MailedOnce(q)'
  BY <1>1 DEF InquiryOK, MailedOnce, SameInquiry
<1>7. IsMailed(q)'
  BY <1>1 DEF InquiryOK, IsMailed, SameInquiry
<1>8. Budgeted(q)'
  BY DEF InquiryOK, Budgeted, JobMails, RunMails, SameInquiry
<1> QED BY <1>4, <1>5, <1>6, <1>7, <1>8 DEF InquiryOK

\* Every inquiry is as before, and handler r, now in state h, carries the row
\* that is stored, if one.
LEMMA InquiriesStay ==
    ASSUME InquiryIInv, UNCHANGED <<live, inquiries>>,
           NEW r \in Req, NEW h \in Handler, Goto(r, h),
           h.pc = "saveRead" => inquiry[h.q] # None /\ h.row.t = inquiry[h.q].t
    PROVE  \A q \in Inquiry : InquiryOK(q)'
<1> TAKE q \in Inquiry
<1>1. SameInquiry(q) /\ live' = live
  BY DEF SameInquiry, inquiries
<1>2. \A t \in Tenant : Carries(req', q, t) => Mentions(q, t)
  BY CarriesStep DEF Mentions, InquiryIInv
<1>3. InquiryOK(q) /\ (inquiry[q] = None \/ inquiry[q].t \in live')
  BY <1>1 DEF InquiryIInv, InquiryOK, HasTenant
<1> QED BY <1>1, <1>2, <1>3, InquiryStays

\* No handler moves, and nothing happens to the inquiries but q.
LEMMA OthersStay ==
    ASSUME InquiryIInv, UNCHANGED <<live, req>>, NEW q \in Inquiry,
           \A p \in Inquiry \ {q} : SameInquiry(p),
           InquiryOK(q)'
    PROVE  \A p \in Inquiry : InquiryOK(p)'
<1> SUFFICES ASSUME NEW p \in Inquiry \ {q} PROVE InquiryOK(p)'
  OBVIOUS
<1>1. \A t \in Tenant : Carries(req', p, t) => Mentions(p, t)
  BY DEF Mentions
<1>2. InquiryOK(p) /\ (inquiry[p] = None \/ inquiry[p].t \in live')
  BY DEF InquiryIInv, InquiryOK, HasTenant
<1> QED BY <1>1, <1>2, InquiryStays

\* A run of the job of q goes on, or starts beside one that stalled: it is done
\* only with the mail taken, the job lost or the inquiry gone, and a second
\* mail is taken only in doubt.
LEMMA JobStays ==
    ASSUME InquiryIInv, UNCHANGED <<live, req, inquiry, told, revived>>,
           NEW q \in Inquiry, mail[q].pc # "none",
           mail'[q].pc = "done" \/ (/\ mail[q].pc \in Running /\ mail'[q].pc \in Running
                                    /\ mail'[q].t = mail[q].t),
           stray'[q].pc \in Running =>
             \E run \in {mail[q], stray[q]} : run.pc \in Running /\ stray'[q].t = run.t,
           \A p \in Inquiry \ {q} :
             /\ mail'[p] = mail[p] /\ stray'[p] = stray[p] /\ sent'[p] = sent[p]
             /\ p \in unsure <=> p \in unsure',
           unsure \subseteq unsure', lost \subseteq lost',
           mail'[q].pc # "done" => sent'[q] = 0 \/ q \in unsure' \/ stray'[q].pc # "none",
           mail'[q].pc = "done" => inquiry[q] = None \/ sent'[q] > 0 \/ q \in lost' \cup revived,
           sent'[q] > 1 => q \in unsure' \/ stray'[q].pc # "none",
           Budgeted(q)'
    PROVE  \A p \in Inquiry : InquiryOK(p)'
<1>0. InquiryOK(q)
  BY DEF InquiryIInv
<1>1. mail'[q].pc # "none"
  BY DEF Running
<1>2. \A p \in Inquiry \ {q} : SameInquiry(p)
  BY DEF SameInquiry
<1>3. Told(q)' <=> Told(q)
  BY DEF Told
<1>4. Taken(q)'
  BY <1>1 DEF Taken
<1>5. \A t \in Tenant : Mentions(q, t)' => Mentions(q, t)
  BY DEF Mentions, Running
<1>6. OneTenant(q)'
  BY <1>0, <1>4, <1>5 DEF InquiryOK, OneTenant
<1>7. HasTenant(q)'
  BY <1>0 DEF InquiryOK, HasTenant
<1>8. ~Told(q)
  BY <1>0 DEF InquiryOK, MailedOnce
<1>9. MailedOnce(q)'
  BY <1>1, <1>3, <1>8 DEF MailedOnce
<1>10. IsMailed(q)'
  BY DEF IsMailed
<1>11. InquiryOK(q)'
  BY <1>6, <1>7, <1>9, <1>10 DEF InquiryOK
<1> QED BY <1>2, <1>11, OthersStay

\* One run is replaced by another.
LEMMA RunReplaced ==
    ASSUME NEW f \in [Inquiry -> MailState], NEW q \in Inquiry, NEW m \in MailState
    PROVE  /\ [f EXCEPT ![q] = m] \in [Inquiry -> MailState]
           /\ [f EXCEPT ![q] = m][q] = m
           /\ \A p \in Inquiry \ {q} : [f EXCEPT ![q] = m][p] = f[p]
OBVIOUS

\* A job that failed waits again with an attempt less, or is lost.
LEMMA Retried ==
    ASSUME TypeOK, NEW q \in Inquiry, mail[q].pc \in Running, Retry(q)
    PROVE  \E m \in MailState :
             /\ Mail(q, m)
             /\ \/ /\ m.pc = "queued" /\ m.t = mail[q].t /\ lost' = lost
                   /\ m.left = mail[q].left - 1
                \/ m = Done /\ m.pc = "done" /\ lost' = lost \cup {q}
<1>1. mail[q] \in MailState
  BY DEF TypeOK
<1>2. CASE mail[q].left > 1
  <2> DEFINE m == [mail[q] EXCEPT !.pc = "queued", !.left = @ - 1]
  <2>1. mail[q] \in [pc : Running, t : Tenant, left : 1..Attempts]
    BY <1>1 DEF MailState, Running
  <2>2. /\ m \in MailState /\ m.pc = "queued" /\ m.t = mail[q].t
        /\ m.left = mail[q].left - 1
    <3>1. mail[q].left - 1 \in 1..Attempts
      BY <1>2, <2>1, VisitorsAssumption
    <3>2. m \in [pc : Running, t : Tenant, left : 1..Attempts]
      BY <2>1, <3>1 DEF Running
    <3>3. m.pc = "queued" /\ m.t = mail[q].t /\ m.left = mail[q].left - 1
      BY <2>1
    <3> QED BY <3>2, <3>3 DEF MailState, Running
  <2>3. Mail(q, m) /\ lost' = lost
    BY <1>2 DEF Retry
  <2> QED BY <2>2, <2>3
<1>3. CASE ~(mail[q].left > 1)
  BY <1>3, MailMade DEF Retry
<1> QED BY <1>2, <1>3

\* A run that reads goes on as it is, or ends as the inquiry is gone.
LEMMA Reads ==
    ASSUME InquiryIInv, NEW q \in Inquiry, NEW run \in {mail[q], stray[q]},
           run.pc \in Running \ {"send"}
    PROVE  /\ Read(q, run) \in MailState
           /\ \/ /\ Read(q, run).pc \in Running
                 /\ Read(q, run).t = run.t /\ Read(q, run).left = run.left
              \/ Read(q, run) = Done /\ Read(q, run).pc = "done" /\ inquiry[q] = None
<1>0. InquiryOK(q) /\ run \in MailState /\ run.t \in Tenant
  BY MailFields DEF InquiryIInv, TypeOK
<1>1. CASE run.pc = "queued"
  BY <1>0, <1>1, MailMade, MailMoved DEF Read, Running
<1>2. CASE run.pc # "queued" /\ run.t \notin live
  <2>1. inquiry[q] # None => inquiry[q] \in InquiryRow
    BY DEF InquiryIInv, TypeOK
  <2>2. inquiry[q] # None => inquiry[q].t = run.t
    BY <1>0, <2>1, InquiryRowFields DEF InquiryOK, OneTenant, Mentions
  <2>3. inquiry[q] = None
    BY <1>0, <1>2, <2>2 DEF InquiryOK, HasTenant
  <2> QED BY <1>2, <2>3, MailMade DEF Read
<1>3. CASE run.pc # "queued" /\ run.t \in live
  <2> DEFINE pc == IF run.pc = "tenant" THEN "owner" ELSE "send"
  <2>1. Read(q, run) = [run EXCEPT !.pc = pc]
    BY <1>3 DEF Read
  <2>2. pc \in Running
    BY DEF Running
  <2> HIDE DEF pc
  <2> QED BY <1>0, <2>1, <2>2, MailMoved
<1> QED BY <1>1, <1>2, <1>3

LEMMA MailType ==
    ASSUME TypeOK, NEW q \in Inquiry, NEW m \in MailState, Mail(q, m)
    PROVE  mail' \in [Inquiry -> MailState]
BY DEF TypeOK, Mail

-----------------------------------------------------------------------------
(***************************************************************************)
(* Inquiries, step by step                                                 *)
(***************************************************************************)

\* submitInquiry, its first statement.
LEMMA SubmitInquiry ==
    ASSUME InquiryIInv, NEW r \in Req, NEW t \in Tenant, Submit(r, t)
    PROVE  req' \in [Req -> Handler] /\ \A q \in Inquiry : InquiryOK(q)'
<1> DEFINE h == [pc |-> "insertInquiry", t |-> t]
<1>1. h \in Handler /\ h.pc # "saveRead"
  BY HandlerMade
<1>2. Goto(r, h) /\ UNCHANGED <<live, inquiries>>
  BY DEF Submit
<1> HIDE DEF h
<1> QED BY <1>1, <1>2, InquiriesStay, GotoReq DEF InquiryIInv

\* submitInquiry: the id is new, so nobody speaks of it.
LEMMA InsertInquiryStep ==
    ASSUME InquiryIInv, NEW r \in Req, InsertInquiry(r)
    PROVE  req' \in [Req -> Handler] /\ \A q \in Inquiry : InquiryOK(q)'
<1> DEFINE t == req[r].t
<1>1. req[r] \in Handler /\ t \in live /\ t \in Tenant
  BY HandlerFields DEF InsertInquiry, InquiryIInv, TypeOK
<1>2. PICK q \in Inquiry :
        /\ mail[q].pc = "none" /\ q \notin lost /\ ~Told(q)
        /\ inquiry' = [inquiry EXCEPT ![q] = [t |-> t, read |-> FALSE]]
        /\ told' = told \cup {<<q, t>>}
  BY DEF InsertInquiry
<1>3. Idle \in Handler /\ Idle.pc = "idle" /\ Goto(r, Idle)
  BY HandlerMade DEF Idle, InsertInquiry
<1>4. UNCHANGED <<live, mail, stray, sent, unsure, lost, revived>>
  BY DEF InsertInquiry
<1>5. req' \in [Req -> Handler] /\ \A p \in Inquiry, u \in Tenant : Carries(req', p, u) => Carries(req, p, u)
  BY <1>3, GotoReq, CarriesStep DEF InquiryIInv
<1>6. ASSUME NEW p \in Inquiry, p # q PROVE InquiryOK(p)'
  <2>1. SameInquiry(p)
    BY <1>2, <1>4, <1>6 DEF SameInquiry, InquiryIInv, TypeOK
  <2>2. InquiryOK(p) /\ (inquiry[p] = None \/ inquiry[p].t \in live')
    BY <1>4 DEF InquiryIInv, InquiryOK, HasTenant
  <2> QED BY <2>1, <2>2, <1>5, InquiryStays DEF Mentions
<1>7. InquiryOK(q)'
  <2>1. InquiryOK(q)
    BY DEF InquiryIInv
  <2>2. \A u \in Tenant : ~Mentions(q, u)
    BY <1>2, <2>1 DEF InquiryOK, OneTenant, Taken
  <2>3. inquiry'[q].t = t /\ inquiry'[q] = [t |-> t, read |-> FALSE]
    BY <1>2 DEF InquiryIInv, TypeOK
  <2>4. Told(q)'
    BY <1>1, <1>2 DEF Told
  <2>5. \A u \in Tenant : Mentions(q, u)' => u = t
    BY <2>2, <2>3, <1>2, <1>4, <1>5 DEF Mentions
  <2>6. OneTenant(q)'
    BY <2>4, <2>5 DEF OneTenant, Taken
  <2>7. HasTenant(q)'
    BY <2>3, <1>1, <1>4 DEF HasTenant
  <2>8. MailedOnce(q)' /\ IsMailed(q)'
    BY <2>1, <2>4, <1>2, <1>4 DEF InquiryOK, MailedOnce, IsMailed
  <2>9. Budgeted(q)'
    BY <2>1, <1>4 DEF InquiryOK, Budgeted, JobMails, RunMails
  <2> QED BY <2>6, <2>7, <2>8, <2>9 DEF InquiryOK
<1> QED BY <1>5, <1>6, <1>7

\* The listener enqueues the mail of a new inquiry, or not.
LEMMA EventStep ==
    ASSUME InquiryIInv, NEW q \in Inquiry, NEW t \in Tenant,
           OnReceived(q, t) \/ LoseEvent(q, t)
    PROVE  mail' \in [Inquiry -> MailState] /\ \A p \in Inquiry : InquiryOK(p)'
<1>0. InquiryOK(q) /\ <<q, t>> \in told /\ Told(q)
  BY DEF InquiryIInv, OnReceived, LoseEvent, Told
<1>1. \A u \in Tenant : <<q, u>> \in told => u = t
  BY <1>0 DEF InquiryOK, OneTenant, Mentions
<1>2. told' = told \ {<<q, t>>} /\ ~Told(q)'
  BY <1>1 DEF OnReceived, LoseEvent, Told
<1>3. mail[q].pc = "none" /\ sent[q] = 0 /\ stray[q].pc = "none"
  BY <1>0 DEF InquiryOK, MailedOnce
<1>4. UNCHANGED <<live, req, inquiry, stray, sent, unsure, revived>>
  BY DEF OnReceived, LoseEvent
<1> DEFINE m == [pc |-> "queued", t |-> t, left |-> Attempts]
<1>5. m \in MailState /\ m.pc = "queued" /\ m.t = t /\ m.left = Attempts
  BY MailMade, VisitorsAssumption DEF Running
<1> HIDE DEF m
<1>6. CASE OnReceived(q, t)
  <2>1. Mail(q, m) /\ lost' = lost
    BY <1>6 DEF OnReceived, m
  <2>2. mail'[q] = m /\ \A p \in Inquiry \ {q} : mail'[p] = mail[p]
    BY <2>1 DEF Mail, InquiryIInv, TypeOK
  <2>3. \A p \in Inquiry \ {q} : SameInquiry(p)
    BY <1>2, <1>4, <2>1, <2>2 DEF SameInquiry
  <2>4. \A u \in Tenant : Mentions(q, u)' => Mentions(q, u)
    BY <1>0, <1>2, <1>4, <1>5, <2>2 DEF Mentions
  <2>5. Taken(q)'
    BY <1>5, <2>2 DEF Taken
  <2>6. OneTenant(q)'
    BY <1>0, <2>4, <2>5 DEF InquiryOK, OneTenant
  <2>7. HasTenant(q)' /\ MailedOnce(q)' /\ IsMailed(q)'
    BY <1>0, <1>2, <1>3, <1>4, <1>5, <2>2
    DEF InquiryOK, HasTenant, MailedOnce, IsMailed, Running
  <2>8. Budgeted(q)'
    BY <1>3, <1>4, <1>5, <2>2, VisitorsAssumption DEF Budgeted, JobMails, RunMails, Running
  <2>9. InquiryOK(q)'
    BY <2>6, <2>7, <2>8 DEF InquiryOK
  <2> QED BY <1>4, <1>5, <2>1, <2>3, <2>9, OthersStay, MailType DEF InquiryIInv
<1>7. CASE LoseEvent(q, t)
  <2>1. mail' = mail /\ lost' = lost \cup {q}
    BY <1>7 DEF LoseEvent
  <2>3. \A p \in Inquiry \ {q} : SameInquiry(p)
    BY <1>2, <1>4, <2>1 DEF SameInquiry
  <2>4. \A u \in Tenant : Mentions(q, u)' => Mentions(q, u)
    BY <1>2, <1>4, <2>1 DEF Mentions
  <2>5. Taken(q)'
    BY <2>1 DEF Taken
  <2>6. OneTenant(q)'
    BY <1>0, <2>4, <2>5 DEF InquiryOK, OneTenant
  <2>7. HasTenant(q)' /\ MailedOnce(q)' /\ IsMailed(q)'
    BY <1>0, <1>2, <1>3, <1>4, <2>1 DEF InquiryOK, HasTenant, MailedOnce, IsMailed
  <2>8. Budgeted(q)'
    BY <1>0, <1>4, <2>1 DEF InquiryOK, Budgeted, JobMails, RunMails
  <2>9. InquiryOK(q)'
    BY <2>6, <2>7, <2>8 DEF InquiryOK
  <2> QED BY <1>4, <2>1, <2>3, <2>9, OthersStay DEF InquiryIInv, TypeOK
<1> QED BY <1>6, <1>7

\* What the steps of the mail worker start from and leave alone.
LEMMA WorkFrame ==
    ASSUME NEW q \in Inquiry, MailWork(q)
    PROVE  UNCHANGED <<live, req, inquiry, told, revived, analytics>>
BY DEF MailWork, WorkRead, Send, SendUnsure, WorkThrow, Stall, StrayRead, StraySend, StrayEnds

LEMMA WorkTypes ==
    ASSUME InquiryIInv, NEW q \in Inquiry
    PROVE  /\ TypeOK /\ InquiryOK(q)
           /\ mail \in [Inquiry -> MailState] /\ stray \in [Inquiry -> MailState]
           /\ sent \in [Inquiry -> Nat] /\ sent[q] \in Nat
           /\ mail[q] \in MailState /\ stray[q] \in MailState
           /\ mail[q].pc \in Running => mail[q].left \in 1..Attempts
           /\ stray[q].pc \in Running => mail[q].pc # "none"
<1>1. TypeOK /\ InquiryOK(q)
  BY DEF InquiryIInv
<1>2. stray[q].pc \in Running => mail[q].pc # "none"
  BY <1>1 DEF InquiryOK, MailedOnce, Running
<1> QED BY <1>1, <1>2, MailFields DEF TypeOK

\* What every step of the mail worker keeps.
WorkKeeps ==
    /\ mail' \in [Inquiry -> MailState] /\ stray' \in [Inquiry -> MailState]
    /\ sent' \in [Inquiry -> Nat]
    /\ \A p \in Inquiry : InquiryOK(p)'

\* Only the run of q that stalled moves: it may have the mail taken once more.
LEMMA StrayMoves ==
    ASSUME InquiryIInv, UNCHANGED <<live, req, inquiry, told, revived, mail, unsure, lost>>,
           NEW q \in Inquiry, stray[q].pc \in Running,
           NEW m \in MailState, m.pc # "none",
           m.pc \in Running => m.t = stray[q].t,
           stray' \in [Inquiry -> MailState], stray'[q] = m,
           sent' \in [Inquiry -> Nat],
           \/ sent'[q] = sent[q]
           \/ sent'[q] = sent[q] + 1 /\ m.pc \notin Running,
           \A p \in Inquiry \ {q} : stray'[p] = stray[p] /\ sent'[p] = sent[p]
    PROVE  WorkKeeps
<1>1. mail[q].pc # "none" /\ mail[q].pc \in {"done"} \cup Running
  BY WorkTypes, MailFields
<1>2. mail[q].pc = "done" => inquiry[q] = None \/ sent'[q] > 0 \/ q \in lost \cup revived
  <2>1. ~Told(q)
    BY <1>1, WorkTypes DEF InquiryOK, MailedOnce
  <2> QED BY <2>1, WorkTypes DEF InquiryOK, IsMailed, Running
<1>3. Budgeted(q)'
  BY WorkTypes, VisitorsAssumption DEF InquiryOK, Budgeted, JobMails, RunMails, Running
<1>4. stray'[q].pc \in Running =>
        \E run \in {mail[q], stray[q]} : run.pc \in Running /\ stray'[q].t = run.t
  OBVIOUS
<1>5. \A p \in Inquiry : InquiryOK(p)'
  BY <1>1, <1>2, <1>3, <1>4, JobStays
<1> QED BY <1>5, WorkTypes DEF WorkKeeps

\* The worker loads the inquiry, its tenant and its owner.
LEMMA WorkReadStep ==
    ASSUME InquiryIInv, NEW q \in Inquiry, MailWork(q), WorkRead(q) \/ StrayRead(q)
    PROVE  WorkKeeps
<1>0. UNCHANGED <<live, req, inquiry, told, revived>>
  BY WorkFrame
<1>1. UNCHANGED <<sent, unsure, lost>>
  BY DEF WorkRead, StrayRead
<1>2. CASE WorkRead(q)
  <2> DEFINE m == Read(q, mail[q])
  <2>1. /\ mail[q].pc \in Running \ {"send"} /\ stray' = stray
        /\ mail' = [mail EXCEPT ![q] = m]
    BY <1>2 DEF WorkRead, Mail
  <2>2. /\ m \in MailState
        /\ \/ m.pc \in Running /\ m.t = mail[q].t /\ m.left = mail[q].left
           \/ m.pc = "done" /\ inquiry[q] = None
    BY <2>1, Reads
  <2> HIDE DEF m
  <2>3. /\ mail' \in [Inquiry -> MailState] /\ mail'[q] = m
        /\ \A p \in Inquiry \ {q} : mail'[p] = mail[p]
    BY <2>1, <2>2, WorkTypes, RunReplaced
  <2>4. Budgeted(q)'
    BY <1>1, <2>1, <2>2, <2>3, WorkTypes, VisitorsAssumption
    DEF InquiryOK, Budgeted, JobMails, RunMails, Running
  <2>5. /\ sent[q] > 1 => q \in unsure \/ stray[q].pc # "none"
        /\ sent[q] = 0 \/ q \in unsure \/ stray[q].pc # "none"
    BY <2>1, WorkTypes DEF InquiryOK, IsMailed, MailedOnce, Running
  <2>6. mail[q].pc # "none" /\ mail[q].pc \in Running
    BY <2>1 DEF Running
  <2>7. stray'[q].pc \in Running =>
          \E run \in {mail[q], stray[q]} : run.pc \in Running /\ stray'[q].t = run.t
    BY <2>1
  <2>8. m.pc \in Running => m.pc # "done"
    BY DEF Running
  <2>9. \A p \in Inquiry : InquiryOK(p)'
    BY <1>0, <1>1, <2>1, <2>2, <2>3, <2>4, <2>5, <2>6, <2>7, <2>8, JobStays
  <2> QED BY <1>1, <2>1, <2>3, <2>9, WorkTypes DEF WorkKeeps
<1>3. CASE StrayRead(q)
  <2> DEFINE m == Read(q, stray[q])
  <2>1. /\ stray[q].pc \in Running \ {"send"} /\ mail' = mail
        /\ stray' = [stray EXCEPT ![q] = m]
    BY <1>3 DEF StrayRead
  <2>2. /\ m \in MailState /\ m.pc # "none"
        /\ m.pc \in Running => m.t = stray[q].t
    BY <2>1, Reads DEF Running
  <2> HIDE DEF m
  <2>3. /\ stray' \in [Inquiry -> MailState] /\ stray'[q] = m
        /\ \A p \in Inquiry \ {q} : stray'[p] = stray[p]
    BY <2>1, <2>2, WorkTypes, RunReplaced
  <2> QED BY <1>0, <1>1, <2>1, <2>2, <2>3, WorkTypes, StrayMoves
<1> QED BY <1>2, <1>3

\* The run that stalled fails, or hands the mail over after all.
LEMMA StrayEndsStep ==
    ASSUME InquiryIInv, NEW q \in Inquiry, MailWork(q), StraySend(q) \/ StrayEnds(q)
    PROVE  WorkKeeps
<1>0. UNCHANGED <<live, req, inquiry, told, revived>>
  BY WorkFrame
<1>1. /\ stray[q].pc \in Running /\ UNCHANGED <<mail, unsure, lost>>
      /\ stray' = [stray EXCEPT ![q] = Done]
      /\ \/ sent' = sent
         \/ sent' = [sent EXCEPT ![q] = @ + 1]
  BY DEF StraySend, StrayEnds, Running
<1>2. /\ stray' \in [Inquiry -> MailState] /\ stray'[q] = Done
      /\ \A p \in Inquiry \ {q} : stray'[p] = stray[p]
  BY <1>1, WorkTypes, MailMade, RunReplaced
<1>3. /\ sent' \in [Inquiry -> Nat] /\ sent'[q] \in {sent[q], sent[q] + 1}
      /\ \A p \in Inquiry \ {q} : sent'[p] = sent[p]
  BY <1>1, WorkTypes
<1> QED BY <1>0, <1>1, <1>2, <1>3, MailMade, StrayMoves DEF Running

\* The provider takes the mail, or refuses it, or its answer is lost.
LEMMA SendStep ==
    ASSUME InquiryIInv, NEW q \in Inquiry, MailWork(q), Send(q) \/ SendUnsure(q) \/ WorkThrow(q)
    PROVE  WorkKeeps
<1>0. UNCHANGED <<live, req, inquiry, told, revived>>
  BY WorkFrame
<1>1. mail[q].pc \in Running /\ stray' = stray
  BY DEF Send, SendUnsure, WorkThrow, Running
<1>2. /\ mail[q].pc # "none" /\ mail[q].left \in 1..Attempts
      /\ sent[q] = 0 \/ q \in unsure \/ stray[q].pc # "none"
  BY <1>1, WorkTypes DEF InquiryOK, MailedOnce, Running
<1>3. CASE Send(q)
  <2>1. /\ mail' = [mail EXCEPT ![q] = Done] /\ UNCHANGED <<unsure, lost>>
        /\ sent' = [sent EXCEPT ![q] = @ + 1]
    BY <1>3 DEF Send, Mail
  <2>2. /\ mail' \in [Inquiry -> MailState] /\ mail'[q] = Done
        /\ \A p \in Inquiry \ {q} : mail'[p] = mail[p]
    BY <2>1, MailMade, WorkTypes, RunReplaced
  <2>3. /\ sent' \in [Inquiry -> Nat] /\ sent'[q] = sent[q] + 1
        /\ \A p \in Inquiry \ {q} : sent'[p] = sent[p]
    BY <2>1, WorkTypes
  <2>4. Budgeted(q)'
    BY <1>1, <1>2, <2>2, <2>3, MailMade, WorkTypes, VisitorsAssumption
    DEF InquiryOK, Budgeted, JobMails, RunMails, Running
  <2>5. sent'[q] > 0 /\ (sent'[q] > 1 => q \in unsure \/ stray[q].pc # "none")
    BY <1>2, <2>3, WorkTypes
  <2>6. stray'[q].pc \in Running =>
          \E run \in {mail[q], stray[q]} : run.pc \in Running /\ stray'[q].t = run.t
    BY <1>1
  <2>7. \A p \in Inquiry : InquiryOK(p)'
    BY <1>0, <1>1, <1>2, <2>1, <2>2, <2>3, <2>4, <2>5, <2>6, MailMade, JobStays
  <2> QED BY <1>1, <2>2, <2>3, <2>7, WorkTypes DEF WorkKeeps
<1>4. CASE SendUnsure(q) \/ WorkThrow(q)
  <2>1. /\ Retry(q)
        /\ \/ sent' = sent /\ unsure' = unsure
           \/ sent' = [sent EXCEPT ![q] = @ + 1] /\ unsure' = unsure \cup {q}
    BY <1>4 DEF SendUnsure, WorkThrow
  <2>2. PICK m \in MailState :
          /\ Mail(q, m)
          /\ \/ /\ m.pc = "queued" /\ m.t = mail[q].t /\ lost' = lost
                /\ m.left = mail[q].left - 1
             \/ m = Done /\ m.pc = "done" /\ lost' = lost \cup {q}
    BY <1>1, <2>1, Retried, WorkTypes
  <2>3. /\ mail' \in [Inquiry -> MailState] /\ mail'[q] = m
        /\ \A p \in Inquiry \ {q} : mail'[p] = mail[p]
    BY <2>2, WorkTypes, RunReplaced DEF Mail
  <2>4. /\ sent' \in [Inquiry -> Nat]
        /\ \/ sent'[q] = sent[q]
           \/ sent'[q] = sent[q] + 1 /\ q \in unsure'
        /\ \A p \in Inquiry \ {q} : sent'[p] = sent[p] /\ (p \in unsure <=> p \in unsure')
        /\ unsure \subseteq unsure' /\ lost \subseteq lost'
    BY <2>1, <2>2, WorkTypes
  <2>5. Budgeted(q)'
    BY <1>1, <1>2, <2>2, <2>3, <2>4, WorkTypes, VisitorsAssumption
    DEF InquiryOK, Budgeted, JobMails, RunMails, Running
  <2>6. /\ sent'[q] = 0 \/ q \in unsure' \/ stray[q].pc # "none"
        /\ sent'[q] > 1 => q \in unsure' \/ stray[q].pc # "none"
    BY <1>2, <2>4, WorkTypes
  <2>7. \/ m.pc = "done" /\ q \in lost'
        \/ m.pc \in Running /\ m.t = mail[q].t /\ m.pc # "done"
    BY <2>2 DEF Running
  <2>8. stray'[q].pc \in Running =>
          \E run \in {mail[q], stray[q]} : run.pc \in Running /\ stray'[q].t = run.t
    BY <1>1
  <2>9. \A p \in Inquiry : InquiryOK(p)'
    BY <1>0, <1>1, <1>2, <2>3, <2>4, <2>5, <2>6, <2>7, <2>8, JobStays
  <2> QED BY <1>1, <2>3, <2>4, <2>9, WorkTypes DEF WorkKeeps
<1> QED BY <1>3, <1>4

\* The job stalls: it starts again beside its run, or is given up.
LEMMA StallStep ==
    ASSUME InquiryIInv, NEW q \in Inquiry, MailWork(q), Stall(q)
    PROVE  WorkKeeps
<1>0. UNCHANGED <<live, req, inquiry, told, revived, sent, unsure>>
  BY WorkFrame DEF Stall
<1>1. mail[q].pc \in Running
  BY DEF Stall
<1>2. /\ mail[q].pc # "none" /\ mail[q].left \in 1..Attempts
      /\ sent[q] = 0 \/ q \in unsure \/ stray[q].pc # "none"
      /\ sent[q] > 1 => q \in unsure \/ stray[q].pc # "none"
  BY <1>1, WorkTypes DEF InquiryOK, MailedOnce, IsMailed, Running
<1>3. CASE stray[q].pc = "none"
  <2> DEFINE m == [mail[q] EXCEPT !.pc = "queued"]
  <2>1. /\ mail' = [mail EXCEPT ![q] = m] /\ stray' = [stray EXCEPT ![q] = mail[q]]
        /\ lost' = lost
    BY <1>3 DEF Stall, Mail
  <2>2. m \in MailState /\ m.pc = "queued" /\ m.t = mail[q].t /\ m.left = mail[q].left
    BY <1>1, WorkTypes, MailMoved DEF Running
  <2> HIDE DEF m
  <2>3. /\ mail' \in [Inquiry -> MailState] /\ mail'[q] = m
        /\ \A p \in Inquiry \ {q} : mail'[p] = mail[p]
    BY <2>1, <2>2, WorkTypes, RunReplaced
  <2>4. /\ stray' \in [Inquiry -> MailState] /\ stray'[q] = mail[q]
        /\ \A p \in Inquiry \ {q} : stray'[p] = stray[p]
    BY <2>1, WorkTypes, RunReplaced
  <2>5. Budgeted(q)'
    BY <1>0, <1>1, <1>2, <1>3, <2>2, <2>3, <2>4, WorkTypes, VisitorsAssumption
    DEF InquiryOK, Budgeted, JobMails, RunMails, Running
  <2>6. m.pc \in Running /\ m.pc # "done" /\ mail[q] \in {mail[q], stray[q]}
    BY <2>2 DEF Running
  <2>7. \A p \in Inquiry : InquiryOK(p)'
    BY <1>0, <1>1, <1>2, <2>1, <2>2, <2>3, <2>4, <2>5, <2>6, JobStays
  <2> QED BY <1>0, <2>3, <2>4, <2>7, WorkTypes DEF WorkKeeps
<1>4. CASE stray[q].pc # "none"
  <2> DEFINE m == [mail[q] EXCEPT !.left = 1]
  <2>1. mail' = [mail EXCEPT ![q] = m] /\ stray' = stray /\ lost' = lost \cup {q}
    BY <1>4 DEF Stall, Mail
  <2>2. m \in MailState /\ m.pc = mail[q].pc /\ m.t = mail[q].t /\ m.left = 1
    <3>1. 1 \in 1..Attempts
      BY VisitorsAssumption
    <3> QED BY <1>1, <3>1, WorkTypes, MailMoved
  <2> HIDE DEF m
  <2>3. /\ mail' \in [Inquiry -> MailState] /\ mail'[q] = m
        /\ \A p \in Inquiry \ {q} : mail'[p] = mail[p]
    BY <2>1, <2>2, WorkTypes, RunReplaced
  <2>5. Budgeted(q)'
    BY <1>0, <1>1, <1>2, <2>1, <2>2, <2>3, WorkTypes, VisitorsAssumption
    DEF InquiryOK, Budgeted, JobMails, RunMails, Running
  <2>6. stray'[q].pc \in Running =>
          \E run \in {mail[q], stray[q]} : run.pc \in Running /\ stray'[q].t = run.t
    BY <2>1
  <2>7. \A p \in Inquiry : InquiryOK(p)'
    BY <1>0, <1>1, <1>2, <1>4, <2>1, <2>2, <2>3, <2>5, <2>6, JobStays
  <2> QED BY <1>0, <2>1, <2>3, <2>7, WorkTypes DEF WorkKeeps
<1> QED BY <1>3, <1>4

\* The mail worker, statement by statement.
LEMMA WorkStep ==
    ASSUME InquiryIInv, NEW q \in Inquiry, MailWork(q)
    PROVE  WorkKeeps
BY WorkReadStep, StrayEndsStep, SendStep, StallStep DEF MailWork

\* markRead and delete load an inquiry.
LEMMA MarkReadStep ==
    ASSUME InquiryIInv, NEW r \in Req, NEW q \in Inquiry, MarkRead(r, q) \/ DeleteInquiry(r, q)
    PROVE  req' \in [Req -> Handler] /\ \A p \in Inquiry : InquiryOK(p)'
<1>1. CASE MarkRead(r, q)
  <2> DEFINE w == [inquiry[q] EXCEPT !.read = TRUE]
             h == [pc |-> "saveRead", q |-> q, row |-> w]
  <2>1. inquiry[q] # None /\ Goto(r, h) /\ UNCHANGED <<live, inquiries>>
    BY <1>1 DEF MarkRead
  <2>2. w \in InquiryRow /\ w.t = inquiry[q].t
    BY <2>1, InquiryRowFields DEF InquiryIInv, TypeOK
  <2> HIDE DEF w
  <2>3. h \in Handler /\ h.q = q /\ h.row = w
    BY <2>2, HandlerMade
  <2> HIDE DEF h
  <2> QED BY <2>1, <2>2, <2>3, InquiriesStay, GotoReq DEF InquiryIInv
<1>2. CASE DeleteInquiry(r, q)
  <2> DEFINE h == [pc |-> "remove", q |-> q]
  <2>1. Goto(r, h) /\ UNCHANGED <<live, inquiries>>
    BY <1>2 DEF DeleteInquiry
  <2>2. h \in Handler /\ h.pc # "saveRead"
    BY HandlerMade
  <2> HIDE DEF h
  <2> QED BY <2>1, <2>2, InquiriesStay, GotoReq DEF InquiryIInv
<1> QED BY <1>1, <1>2

\* markRead saves the row it loaded, of the tenant everything else names.
LEMMA SaveReadStep ==
    ASSUME InquiryIInv, NEW r \in Req, SaveRead(r)
    PROVE  /\ req' \in [Req -> Handler] /\ inquiry' \in [Inquiry -> InquiryRow \cup {None}]
           /\ revived' \subseteq Inquiry
           /\ \A p \in Inquiry : InquiryOK(p)'
<1>0. PICK q \in Inquiry, w \in InquiryRow : q = req[r].q /\ w = req[r].row
  BY HandlerFields DEF SaveRead, InquiryIInv, TypeOK
<1>1. w.t \in live /\ w.t \in Tenant /\ req[r].pc = "saveRead"
  BY <1>0, InquiryRowFields DEF SaveRead
<1>2. /\ inquiry' = [inquiry EXCEPT ![q] = w]
      /\ revived' = IF inquiry[q] = None THEN revived \cup {q} ELSE revived
      /\ UNCHANGED <<live, told, mail, stray, sent, unsure, lost>>
  BY <1>0 DEF SaveRead
<1>3. Idle \in Handler /\ Idle.pc = "idle" /\ Goto(r, Idle)
  BY HandlerMade DEF Idle, SaveRead
<1>4. req' \in [Req -> Handler] /\ \A p \in Inquiry, u \in Tenant : Carries(req', p, u) => Carries(req, p, u)
  BY <1>3, GotoReq, CarriesStep DEF InquiryIInv
<1>5. Carries(req, q, w.t)
  BY <1>0, <1>1 DEF Carries
<1>6. /\ inquiry'[q] = w /\ inquiry' \in [Inquiry -> InquiryRow \cup {None}]
      /\ \A p \in Inquiry \ {q} : inquiry'[p] = inquiry[p]
  BY <1>1, <1>2 DEF InquiryIInv, TypeOK
<1>7. ASSUME NEW p \in Inquiry \ {q} PROVE InquiryOK(p)'
  <2>1. SameInquiry(p)
    BY <1>2, <1>6 DEF SameInquiry
  <2>2. InquiryOK(p) /\ (inquiry[p] = None \/ inquiry[p].t \in live')
    BY <1>2 DEF InquiryIInv, InquiryOK, HasTenant
  <2> QED BY <2>1, <2>2, <1>4, InquiryStays DEF Mentions
<1>8. InquiryOK(q)'
  <2>1. InquiryOK(q) /\ Mentions(q, w.t)
    BY <1>1, <1>5 DEF InquiryIInv, Mentions
  <2>2. \A u \in Tenant : Mentions(q, u)' => u = w.t
    BY <2>1, <1>1, <1>2, <1>4, <1>6 DEF Mentions, InquiryOK, OneTenant
  <2>3. Taken(q)'
    BY <2>1, <1>1, <1>2 DEF InquiryOK, OneTenant, Taken, Told
  <2>4. OneTenant(q)'
    BY <2>2, <2>3 DEF OneTenant
  <2>5. HasTenant(q)'
    BY <1>1, <1>2, <1>6 DEF HasTenant
  <2>6. Told(q)' <=> Told(q)
    BY <1>2 DEF Told
  <2>7. MailedOnce(q)' /\ IsMailed(q)'
    BY <2>1, <2>6, <1>2 DEF InquiryOK, MailedOnce, IsMailed
  <2>8. Budgeted(q)'
    BY <2>1, <1>2 DEF InquiryOK, Budgeted, JobMails, RunMails
  <2> QED BY <2>4, <2>5, <2>7, <2>8 DEF InquiryOK
<1>9. revived' \subseteq Inquiry
  BY <1>1, <1>2 DEF InquiryIInv, TypeOK
<1> QED BY <1>4, <1>6, <1>7, <1>8, <1>9

\* A delete, or the tenant's, only takes rows away.
LEMMA RowsGo ==
    ASSUME InquiryIInv, UNCHANGED <<told, mail, stray, sent, unsure, lost, revived>>,
           \A q \in Inquiry : inquiry'[q] = None \/ (inquiry'[q] = inquiry[q] /\ inquiry[q].t \in live'),
           \A q \in Inquiry, t \in Tenant : Carries(req', q, t) => Carries(req, q, t)
    PROVE  \A q \in Inquiry : InquiryOK(q)'
<1> TAKE q \in Inquiry
<1>1. InquiryOK(q)
  BY DEF InquiryIInv
<1>2. Told(q)' <=> Told(q)
  BY DEF Told
<1>3. \A t \in Tenant : Mentions(q, t)' => Mentions(q, t)
  BY DEF Mentions
<1>4. Taken(q) => Taken(q)'
  BY <1>2 DEF Taken
<1>5. OneTenant(q)'
  BY <1>1, <1>3, <1>4 DEF InquiryOK, OneTenant
<1>6. HasTenant(q)' /\ MailedOnce(q)' /\ IsMailed(q)'
  BY <1>1, <1>2 DEF InquiryOK, HasTenant, MailedOnce, IsMailed
<1>7. Budgeted(q)'
  BY <1>1 DEF InquiryOK, Budgeted, JobMails, RunMails
<1> QED BY <1>5, <1>6, <1>7 DEF InquiryOK

LEMMA RemoveStep ==
    ASSUME InquiryIInv, NEW r \in Req, RemoveInquiry(r)
    PROVE  /\ req' \in [Req -> Handler] /\ inquiry' \in [Inquiry -> InquiryRow \cup {None}]
           /\ \A p \in Inquiry : InquiryOK(p)'
<1> DEFINE q == req[r].q
<1>1. Idle \in Handler /\ Idle.pc = "idle" /\ Goto(r, Idle)
  BY HandlerMade DEF Idle, RemoveInquiry
<1>2. req' \in [Req -> Handler] /\ \A p \in Inquiry, u \in Tenant : Carries(req', p, u) => Carries(req, p, u)
  BY <1>1, GotoReq, CarriesStep DEF InquiryIInv
<1>3. /\ inquiry' = [inquiry EXCEPT ![q] = None]
      /\ UNCHANGED <<live, told, mail, stray, sent, unsure, lost, revived>>
  BY DEF RemoveInquiry
<1> HIDE DEF q
<1>4. \A p \in Inquiry : inquiry'[p] = None \/ inquiry'[p] = inquiry[p]
  BY <1>3 DEF InquiryIInv, TypeOK
<1>5. \A p \in Inquiry : inquiry[p] = None \/ inquiry[p].t \in live'
  BY <1>3 DEF InquiryIInv, InquiryOK, HasTenant
<1>6. inquiry' \in [Inquiry -> InquiryRow \cup {None}]
  BY <1>3 DEF InquiryIInv, TypeOK
<1>7. \A p \in Inquiry : inquiry'[p] = None \/ (inquiry'[p] = inquiry[p] /\ inquiry[p].t \in live')
  BY <1>4, <1>5
<1>8. \A p \in Inquiry : InquiryOK(p)'
  BY <1>2, <1>3, <1>7, RowsGo
<1> QED BY <1>2, <1>6, <1>8

\* deleteAccount: the inquiries of the tenant go with it, and no others.
LEMMA TenantGoesInquiries ==
    ASSUME InquiryIInv, NEW t \in Tenant, DeleteTenant(t)
    PROVE  /\ inquiry' \in [Inquiry -> InquiryRow \cup {None}]
           /\ \A p \in Inquiry : InquiryOK(p)'
<1>1. /\ inquiry' = [q \in Inquiry |-> IF inquiry[q] # None /\ inquiry[q].t = t
                                       THEN None ELSE inquiry[q]]
      /\ live' = live \ {t}
      /\ UNCHANGED <<told, mail, stray, sent, unsure, lost, revived, req>>
  BY DEF DeleteTenant, InquiryIInv, TypeOK
<1>2. \A q \in Inquiry : inquiry[q] = None \/ inquiry[q].t \in live
  BY DEF InquiryIInv, InquiryOK, HasTenant
<1>3. \A q \in Inquiry : inquiry'[q] = None \/ (inquiry'[q] = inquiry[q] /\ inquiry[q].t \in live')
  BY <1>1, <1>2
<1>4. inquiry' \in [Inquiry -> InquiryRow \cup {None}]
  BY <1>1 DEF InquiryIInv, TypeOK
<1> QED BY <1>1, <1>3, <1>4, RowsGo

\* Page views and failures of handlers leave inquiries alone.
LEMMA ViewsLeaveInquiries ==
    ASSUME InquiryIInv, NEW r \in Req,
           \/ \E t \in Tenant, visitor \in Visitor : RecordPageview(r, t, visitor)
           \/ InsertView(r) \/ Abort(r)
    PROVE  req' \in [Req -> Handler] /\ \A p \in Inquiry : InquiryOK(p)'
<1>1. UNCHANGED <<live, inquiries>>
  BY DEF RecordPageview, InsertView, Abort
<1>2. PICK h \in Handler : Goto(r, h) /\ h.pc # "saveRead"
  <2>1. CASE InsertView(r) \/ Abort(r)
    BY <2>1, HandlerMade DEF InsertView, Abort, Idle
  <2>2. ASSUME NEW t \in Tenant, NEW visitor \in Visitor, RecordPageview(r, t, visitor)
        PROVE  \E h \in Handler : Goto(r, h) /\ h.pc # "saveRead"
    <3> DEFINE h == [pc |-> "insertView", t |-> t, visitor |-> visitor, salt |-> today]
    <3>1. today \in Day
      BY DEF InquiryIInv, TypeOK
    <3>2. h \in Handler /\ h.pc # "saveRead"
      BY <3>1, HandlerMade
    <3>3. Goto(r, h)
      BY <2>2 DEF RecordPageview
    <3> QED BY <3>2, <3>3
  <2> QED BY <2>1, <2>2
<1> QED BY <1>1, <1>2, InquiriesStay, GotoReq DEF InquiryIInv

\* The analytics worker and midnight leave them alone, too.
LEMMA RollupLeavesInquiries ==
    ASSUME InquiryIInv, UNCHANGED <<live, inquiries, req>>
    PROVE  \A p \in Inquiry : InquiryOK(p)'
<1> TAKE p \in Inquiry
<1>1. SameInquiry(p)
  BY DEF SameInquiry, inquiries
<1>2. InquiryOK(p) /\ (inquiry[p] = None \/ inquiry[p].t \in live')
  BY DEF InquiryIInv, InquiryOK, HasTenant
<1>3. \A t \in Tenant : Carries(req', p, t) => Mentions(p, t)
  BY DEF Mentions
<1> QED BY <1>1, <1>2, <1>3, InquiryStays

-----------------------------------------------------------------------------
(***************************************************************************)
(* Tallies                                                                 *)
(***************************************************************************)

\* The rows of a tenant's day, and what Tally takes from them.
OfDay(w, t, d) == w # None /\ w.t = t /\ w.day = d

LEMMA RowsOfDay ==
    ASSUME NEW f, NEW t, NEW d
    PROVE  \A v : v \in RowsOf(f, t, d) <=> v \in View /\ OfDay(f[v], t, d)
BY DEF RowsOf, OfDay

\* Two tables that agree on a day have the same tally of it.
LEMMA TallySame ==
    ASSUME NEW f, NEW g, NEW t, NEW d,
           \A v \in View : f[v] = g[v] \/ (~OfDay(f[v], t, d) /\ ~OfDay(g[v], t, d))
    PROVE  RowsOf(f, t, d) = RowsOf(g, t, d) /\ Tally(f, t, d) = Tally(g, t, d)
<1>1. RowsOf(f, t, d) = RowsOf(g, t, d)
  BY RowsOfDay
<1>2. \A v \in RowsOf(f, t, d) : f[v] = g[v]
  BY RowsOfDay
<1> DEFINE R == RowsOf(f, t, d)
<1> HIDE DEF R
<1>3. {<<f[v].visitor, f[v].salt>> : v \in R} = {<<g[v].visitor, g[v].salt>> : v \in R}
  BY <1>2 DEF R
<1> QED BY <1>1, <1>3 DEF Tally, R

\* The values of a function on a finite set are no more than the set.
LEMMA ImageFinite ==
    ASSUME NEW S, IsFiniteSet(S), NEW f
    PROVE  IsFiniteSet({f[x] : x \in S})
<1> DEFINE T == {f[x] : x \in S}
           g == [x \in S |-> f[x]]
<1>1. g \in Surjection(S, T)
  BY DEF Surjection
<1> HIDE DEF g, T
<1>2. IsFiniteSet(T)
  BY <1>1, FS_Surjection
<1> QED BY <1>2 DEF T

\* A tally of finitely many rows is a row of daily_stats.
LEMMA TallyIsStat ==
    ASSUME NEW f, NEW t, NEW d, IsFiniteSet(RowsOf(f, t, d))
    PROVE  Tally(f, t, d) \in Stat
<1> DEFINE R == RowsOf(f, t, d)
           p == [v \in R |-> <<f[v].visitor, f[v].salt>>]
<1>1. {<<f[v].visitor, f[v].salt>> : v \in R} = {p[v] : v \in R}
  OBVIOUS
<1> HIDE DEF R, p
<1>2. IsFiniteSet({p[v] : v \in R}) /\ IsFiniteSet(R)
  BY ImageFinite DEF R
<1>3. Cardinality(R) \in Nat /\ Cardinality({p[v] : v \in R}) \in Nat
  BY <1>2, FS_CardinalityType
<1> QED BY <1>1, <1>3 DEF Tally, Stat, R

LEMMA TallyCounts ==
    ASSUME NEW f, NEW t, NEW d
    PROVE  /\ Tally(f, t, d).views = Cardinality(RowsOf(f, t, d))
           /\ Tally(f, t, d).uniques
                = Cardinality({<<f[v].visitor, f[v].salt>> : v \in RowsOf(f, t, d)})
<1> DEFINE R == RowsOf(f, t, d)
           U == {<<f[v].visitor, f[v].salt>> : v \in R}
<1>1. Tally(f, t, d) = [views |-> Cardinality(R), uniques |-> Cardinality(U)]
  BY DEF Tally
<1> HIDE DEF U, R
<1>2. Tally(f, t, d).views = Cardinality(R) /\ Tally(f, t, d).uniques = Cardinality(U)
  BY <1>1
<1> QED BY <1>2 DEF R, U

Hashes(f, S) == {<<f[x].visitor, f[x].salt>> : x \in S}
People(f, S) == {f[x].visitor : x \in S}

\* If all salts are of one day, pairs with them are as many as visitors.
LEMMA OneSalt ==
    ASSUME NEW S, IsFiniteSet(S), NEW f, NEW d, \A x \in S : f[x].salt = d
    PROVE  Cardinality(Hashes(f, S)) = Cardinality(People(f, S))
<1> DEFINE T == {f[x].visitor : x \in S}
           U == {<<f[x].visitor, f[x].salt>> : x \in S}
           g == [y \in T |-> <<y, d>>]
           h == [x \in S |-> f[x].visitor]
<1>1. IsFiniteSet(T)
  <2>1. T = {h[x] : x \in S}
    OBVIOUS
  <2> HIDE DEF h, T
  <2> QED BY <2>1, ImageFinite
<1>2. g \in [T -> U] /\ \A u \in U : \E y \in T : g[y] = u
  OBVIOUS
<1>3. \A x, y \in T : g[x] = g[y] => x = y
  OBVIOUS
<1>4. g \in Bijection(T, U)
  BY <1>2, <1>3 DEF Bijection, Injection, IsInjective, Surjection
<1> HIDE DEF g, T, U
<1>5. Cardinality(U) = Cardinality(T)
  BY <1>1, <1>4, FS_Bijection DEF ExistsBijection
<1> QED BY <1>5 DEF T, U, Hashes, People

\* The rows of a day are finitely many.
LEMMA FinitelyMany ==
    ASSUME Kept, NEW t, NEW d
    PROVE  /\ IsFiniteSet(RowsOf(visited, t, d)) /\ Tally(visited, t, d) \in Stat
           /\ Tally(visited, t, d) # None
<1>1. RowsOf(visited, t, d) \in SUBSET {v \in View : visited[v] # None}
  BY DEF RowsOf
<1>2. IsFiniteSet({v \in View : visited[v] # None})
  BY DEF Kept
<1> HIDE DEF Kept
<1>3. IsFiniteSet(RowsOf(visited, t, d))
  BY <1>1, <1>2, FS_Subset
<1>4. Tally(visited, t, d) \in Stat
  BY <1>3, TallyIsStat
<1> QED BY <1>3, <1>4, VisitorsAssumption DEF Stat

\* What has not been pruned yet is all there.
LEMMA NothingPruned ==
    ASSUME TypeOK, Kept, NEW t \in Tenant, NEW d \in Day, d + PruneAfter > today
    PROVE  RowsOf(view, t, d) = RowsOf(visited, t, d) /\ Tally(view, t, d) = Tally(visited, t, d)
<1>1. ASSUME NEW v \in View
      PROVE  view[v] = visited[v] \/ (~OfDay(view[v], t, d) /\ ~OfDay(visited[v], t, d))
  <2>1. CASE view[v] # visited[v]
    <3>1. view[v] = None /\ visited[v].day + PruneAfter <= today
      BY <2>1 DEF Kept
    <3>2. ~OfDay(view[v], t, d)
      BY <3>1 DEF OfDay
    <3>3. visited[v].day = d => FALSE
      BY <3>1, VisitorsAssumption DEF TypeOK, Day
    <3> QED BY <3>2, <3>3 DEF OfDay
  <2> QED BY <2>1
<1> QED BY <1>1, TallySame

-----------------------------------------------------------------------------
(***************************************************************************)
(* Page views and rollups, step by step                                    *)
(***************************************************************************)

RollupType(s) ==
    \/ s \in [pc : {"idle", "prune"}]
    \/ /\ DOMAIN s = {"pc", "date", "todo"}
       /\ s.pc = "save" /\ s.date \in Day
       /\ DOMAIN s.todo \subseteq Tenant
       /\ \A t \in DOMAIN s.todo : s.todo[t] \in Stat

AnalyticsTypes ==
    /\ view \in [View -> ViewRow \cup {None}] /\ visited \in [View -> ViewRow \cup {None}]
    /\ stat \in [Tenant -> [Day -> Stat \cup {None}]]
    /\ today \in Day /\ due \in BOOLEAN
    /\ RollupType(rollup)
    /\ complete \subseteq Day

LEMMA TypesOfAnalytics == TypeOK => AnalyticsTypes /\ live \subseteq Tenant
BY DEF TypeOK, AnalyticsTypes, RollupType

\* The analytics part of the invariant.
StatsOK == AnalyticsTypes /\ Runs /\ Kept /\ Counted /\ RollsUp

\* The fields of a rollup at work.
LEMMA RollupFields ==
    ASSUME NEW s, RollupType(s), s.pc = "save"
    PROVE  /\ DOMAIN s = {"pc", "date", "todo"} /\ s.date \in Day
           /\ DOMAIN s.todo \subseteq Tenant
           /\ \A t \in DOMAIN s.todo : s.todo[t] \in Stat
BY DEF RollupType

LEMMA DayIs == MaxDay \in Nat /\ \A d \in Day : d \in Nat /\ d <= MaxDay
BY VisitorsAssumption DEF Day

LEMMA StatsStay ==
    ASSUME StatIInv, UNCHANGED analytics, live' \subseteq live
    PROVE  StatsOK'
<1>1. AnalyticsTypes'
  BY TypesOfAnalytics DEF StatIInv, analytics, AnalyticsTypes
<1>2. Runs'
  BY DEF StatIInv, Runs, analytics
<1>3. Kept'
  BY DEF StatIInv, Kept, analytics
<1>4. \A t, d : CountedFor(t, d) => CountedFor(t, d)'
  BY DEF CountedFor, Tally, RowsOf, analytics
<1>5. Counted'
  BY <1>4 DEF StatIInv, Counted, analytics
<1>6. \A t : ToSave(rollup, t) => ToSave(rollup, t)'
  BY DEF ToSave, Tally, RowsOf, analytics
<1>7. RollsUp'
  BY <1>6 DEF StatIInv, RollsUp, analytics
<1> QED BY <1>1, <1>2, <1>3, <1>5, <1>7 DEF StatsOK

\* The figures of the days before today, and what is about to be saved of
\* them, stay if the views of those days do.
LEMMA FiguresStay ==
    ASSUME StatIInv, UNCHANGED <<today, rollup, complete>>,
           live' \subseteq live,
           \A t \in live', d \in Day : stat'[t][d] = stat[t][d],
           \A t \in live', d \in Day : d < today =>
               /\ RowsOf(visited', t, d) = RowsOf(visited, t, d)
               /\ Tally(visited', t, d) = Tally(visited, t, d)
    PROVE  Counted' /\ RollsUp'
<1>1. \A t \in live', d \in Day : CountedFor(t, d)'
  <2> TAKE t \in live', d \in Day
  <2>1. CountedFor(t, d)
    BY DEF StatIInv, Counted
  <2>2. CASE d < today
    BY <2>1, <2>2 DEF CountedFor
  <2>3. CASE ~(d < today)
    BY <2>1, <2>3 DEF CountedFor, StatIInv, Counted
  <2> QED BY <2>2, <2>3
<1>2. Counted'
  BY <1>1 DEF StatIInv, Counted
<1>3. rollup.pc = "save" => rollup.date \in Day /\ rollup.date < today
  BY DEF StatIInv, TypeOK, Runs
<1>4. RollsUp'
  <2> SUFFICES ASSUME rollup.pc = "save", NEW t \in live' PROVE ToSave(rollup, t)'
    BY DEF RollsUp
  <2>1. ToSave(rollup, t)
    BY DEF StatIInv, RollsUp
  <2> QED BY <2>1, <1>3 DEF ToSave
<1> QED BY <1>2, <1>4

\* A view is stored today.
LEMMA InsertViewStep ==
    ASSUME StatIInv, NEW r \in Req, InsertView(r)
    PROVE  StatsOK'
<1> USE DayIs
<1>1. PICK t \in Tenant, visitor \in Visitor, salt \in Day :
        t = req[r].t /\ visitor = req[r].visitor /\ salt = req[r].salt
  BY HandlerFields DEF InsertView, StatIInv, TypeOK
<1> DEFINE w == [t |-> t, day |-> today, visitor |-> visitor, salt |-> salt]
<1>2. PICK v \in View :
        /\ visited[v] = None
        /\ view' = [view EXCEPT ![v] = w]
        /\ visited' = [visited EXCEPT ![v] = view'[v]]
  BY <1>1 DEF InsertView
<1>3. UNCHANGED <<live, stat, today, due, rollup, complete>>
  BY DEF InsertView
<1>4. AnalyticsTypes /\ live \subseteq Tenant
  BY TypesOfAnalytics DEF StatIInv
<1>5. w \in ViewRow /\ w.day = today
  BY <1>4 DEF ViewRow, AnalyticsTypes
<1>51. PICK row \in ViewRow : row = w /\ row.day = today
  BY <1>5
<1> HIDE DEF w
<1>6. /\ view'[v] = row /\ visited'[v] = row
      /\ \A u \in View \ {v} : view'[u] = view[u] /\ visited'[u] = visited[u]
  BY <1>2, <1>4, <1>51 DEF AnalyticsTypes
<1>7. AnalyticsTypes'
  BY <1>2, <1>3, <1>4, <1>51, <1>6 DEF AnalyticsTypes
<1>8. Runs'
  BY <1>3 DEF StatIInv, Runs
<1>9. Kept'
  <2>1. IsFiniteSet({u \in View : visited'[u] # None})
    <3> DEFINE S == {u \in View : visited[u] # None}
               T == {u \in View : visited'[u] # None}
    <3>1. T \in SUBSET (S \cup {v})
      BY <1>6
    <3>2. IsFiniteSet(S)
      BY DEF StatIInv, Kept
    <3> HIDE DEF S, T
    <3>3. IsFiniteSet(S \cup {v})
      BY <3>2, FS_AddElement
    <3>4. IsFiniteSet(T)
      BY <3>1, <3>3, FS_Subset
    <3> QED BY <3>4 DEF T
  <2>2. ASSUME NEW u \in View
        PROVE  /\ visited'[u] # None => visited'[u].day <= today'
               /\ view'[u] = visited'[u] \/ view'[u] = None
               /\ view'[u] # visited'[u] => visited'[u].day + PruneAfter <= today'
    BY <1>3, <1>4, <1>51, <1>6 DEF StatIInv, Kept, AnalyticsTypes
  <2> QED BY <2>1, <2>2 DEF Kept
<1>10. ASSUME NEW u \in live', NEW d \in Day, d < today
       PROVE  /\ RowsOf(visited', u, d) = RowsOf(visited, u, d)
              /\ Tally(visited', u, d) = Tally(visited, u, d)
  <2>1. \A x \in View : visited'[x] = visited[x]
                        \/ (~OfDay(visited'[x], u, d) /\ ~OfDay(visited[x], u, d))
    BY <1>2, <1>4, <1>51, <1>6, <1>10 DEF OfDay, AnalyticsTypes
  <2> QED BY <2>1, TallySame
<1>11. Counted' /\ RollsUp'
  BY <1>3, <1>10, FiguresStay
<1> QED BY <1>7, <1>8, <1>9, <1>11 DEF StatsOK

\* A day ends.
LEMMA MidnightStep ==
    ASSUME StatIInv, Midnight
    PROVE  StatsOK'
<1> USE DayIs
<1>1. /\ today < MaxDay /\ today' = today + 1 /\ due'
      /\ UNCHANGED <<live, view, stat, rollup, visited, complete>>
  BY DEF Midnight
<1>2. AnalyticsTypes
  BY TypesOfAnalytics DEF StatIInv
<1>3. today \in Nat /\ today' \in Day /\ due' \in BOOLEAN
  BY <1>1, <1>2 DEF AnalyticsTypes, Midnight, Day
<1>4. AnalyticsTypes'
  BY <1>1, <1>2, <1>3 DEF AnalyticsTypes
<1>5. Runs'
  <2>1. rollup.pc = "save" => rollup.date \in Nat /\ rollup.date < today
    BY <1>2, RollupFields DEF StatIInv, Runs, AnalyticsTypes
  <2>2. today' > 0
    BY <1>1, <1>3
  <2> QED BY <1>1, <1>3, <2>1, <2>2 DEF Runs
<1>6. Kept'
  <2>1. \A v \in View : visited[v] # None => visited[v].day \in Nat
    BY <1>2 DEF AnalyticsTypes, ViewRow
  <2>2. ASSUME NEW v \in View
        PROVE  /\ visited'[v] # None => visited'[v].day <= today'
               /\ view'[v] = visited'[v] \/ view'[v] = None
    BY <1>1, <1>3, <2>1 DEF StatIInv, Kept
  <2>3. ASSUME NEW v \in View, view'[v] # visited'[v]
        PROVE  visited'[v].day + PruneAfter <= today'
    <3>1. visited[v].day + PruneAfter <= today /\ visited[v] # None
      BY <1>1, <2>3 DEF StatIInv, Kept
    <3> QED BY <3>1, <2>1, <1>1, <1>3, VisitorsAssumption
  <2> QED BY <1>1, <2>2, <2>3 DEF StatIInv, Kept
<1>7. \A t \in live, d \in Day : CountedFor(t, d)'
  BY <1>1, <1>3 DEF StatIInv, Counted, CountedFor
<1>8. Counted'
  BY <1>1, <1>2, <1>3, <1>7 DEF StatIInv, Counted, AnalyticsTypes
<1>9. RollsUp'
  BY <1>1 DEF StatIInv, RollsUp, ToSave
<1> QED BY <1>4, <1>5, <1>6, <1>8, <1>9 DEF StatsOK

\* The nightly job adds up a day no view of which was pruned, or is to come.
LEMMA RollupLoadStep ==
    ASSUME StatIInv, RollupLoad
    PROVE  StatsOK'
<1> USE DayIs
<1>1. /\ due /\ rollup = Idle /\ due' = FALSE
      /\ UNCHANGED <<live, view, stat, today, visited, complete>>
  BY DEF RollupLoad
<1>2. AnalyticsTypes /\ Kept /\ TypeOK /\ live \subseteq Tenant
  BY TypesOfAnalytics DEF StatIInv
<1>3. today \in Nat /\ today > 0
  BY <1>1, <1>2 DEF StatIInv, Runs, AnalyticsTypes
<1>4. PICK d \in Day : d = today - 1 /\ d < today /\ d + PruneAfter > today
  BY <1>2, <1>3, VisitorsAssumption DEF AnalyticsTypes, Day
<1> DEFINE todo == [t \in {u \in Tenant : RowsOf(view, u, d) # {}} |-> Tally(view, t, d)]
<1>5. rollup' = [pc |-> "save", date |-> d, todo |-> todo]
  BY <1>4 DEF RollupLoad, RollupDate
<1>6. \A t \in Tenant : /\ RowsOf(view, t, d) = RowsOf(visited, t, d)
                        /\ Tally(view, t, d) = Tally(visited, t, d)
  BY <1>2, <1>4, NothingPruned
<1>7. DOMAIN todo = {u \in Tenant : RowsOf(visited, u, d) # {}}
  BY <1>6
<1>8. \A t \in DOMAIN todo : todo[t] = Tally(visited, t, d) /\ todo[t] \in Stat
  BY <1>2, <1>6, FinitelyMany
<1> HIDE DEF todo
<1>9. /\ DOMAIN rollup' = {"pc", "date", "todo"} /\ rollup'.pc = "save"
      /\ rollup'.date = d /\ rollup'.todo = todo
  BY <1>5
<1>10. RollupType(rollup')
  BY <1>7, <1>8, <1>9 DEF RollupType
<1>11. AnalyticsTypes'
  BY <1>1, <1>2, <1>10 DEF AnalyticsTypes
<1>12. Runs'
  BY <1>1, <1>3, <1>4, <1>9 DEF Runs
<1>13. Kept' /\ Counted'
  BY <1>1, <1>2 DEF StatIInv, Kept, Counted, CountedFor
<1>14. RollsUp'
  <2> SUFFICES ASSUME NEW t \in live' PROVE ToSave(rollup, t)'
    BY DEF RollsUp
  <2>1. t \in Tenant
    BY <1>1, <1>2
  <2> QED BY <1>1, <1>7, <1>8, <1>9, <2>1 DEF ToSave
<1> QED BY <1>11, <1>12, <1>13, <1>14 DEF StatsOK

\* One tenant's row is saved.
LEMMA RollupSaveStep ==
    ASSUME StatIInv, RollupSave
    PROVE  StatsOK'
<1> USE DayIs
<1>1. rollup.pc = "save" /\ UNCHANGED <<live, view, today, due, visited, complete>>
  BY DEF RollupSave
<1>2. AnalyticsTypes /\ Kept /\ live \subseteq Tenant
  BY TypesOfAnalytics DEF StatIInv
<1>3. PICK t \in DOMAIN rollup.todo :
        /\ t \in live
        /\ stat' = [stat EXCEPT ![t][rollup.date] = rollup.todo[t]]
        /\ rollup' = [rollup EXCEPT !.todo = [u \in DOMAIN rollup.todo \ {t} |-> rollup.todo[u]]]
  BY DEF RollupSave
<1>4. /\ DOMAIN rollup = {"pc", "date", "todo"} /\ rollup.date \in Day
      /\ DOMAIN rollup.todo \subseteq Tenant
      /\ \A u \in DOMAIN rollup.todo : rollup.todo[u] \in Stat
      /\ rollup.date < today
  BY <1>1, <1>2, RollupFields DEF AnalyticsTypes, StatIInv, Runs
<1>5. PICK d \in Day : d = rollup.date
  BY <1>4
<1> DEFINE todo == [u \in DOMAIN rollup.todo \ {t} |-> rollup.todo[u]]
<1>6. /\ DOMAIN todo = DOMAIN rollup.todo \ {t}
      /\ \A u \in DOMAIN rollup.todo \ {t} : todo[u] = rollup.todo[u]
  OBVIOUS
<1> HIDE DEF todo
<1>7. /\ DOMAIN rollup' = {"pc", "date", "todo"} /\ rollup'.pc = "save"
      /\ rollup'.date = d /\ rollup'.todo = todo
  BY <1>1, <1>3, <1>4, <1>5 DEF todo
<1>8. rollup.todo[t] = Tally(visited, t, d) /\ rollup.todo[t] # None /\ t \in Tenant
  BY <1>1, <1>2, <1>3, <1>4, <1>5, FinitelyMany DEF StatIInv, RollsUp, ToSave
<1>9. /\ stat'[t][d] = rollup.todo[t]
      /\ \A u \in Tenant, e \in Day : u # t \/ e # d => stat'[u][e] = stat[u][e]
  BY <1>2, <1>3, <1>5, <1>8 DEF AnalyticsTypes
<1>10. stat' \in [Tenant -> [Day -> Stat \cup {None}]]
  BY <1>2, <1>3, <1>4, <1>5, <1>8 DEF AnalyticsTypes
<1>11. RollupType(rollup')
  BY <1>4, <1>6, <1>7 DEF RollupType
<1>12. AnalyticsTypes'
  BY <1>1, <1>2, <1>10, <1>11 DEF AnalyticsTypes
<1>13. Runs' /\ Kept'
  BY <1>1, <1>2, <1>4, <1>5, <1>7 DEF StatIInv, Runs, Kept, Idle
<1>14. ASSUME NEW u \in live', NEW e \in Day PROVE CountedFor(u, e)'
  <2>1. CountedFor(u, e) /\ u \in Tenant
    BY <1>1, <1>2 DEF StatIInv, Counted
  <2>2. CASE u = t /\ e = d
    BY <2>2, <1>1, <1>4, <1>5, <1>8, <1>9 DEF CountedFor
  <2>3. CASE ~(u = t /\ e = d)
    BY <2>1, <2>3, <1>1, <1>9 DEF CountedFor
  <2> QED BY <2>2, <2>3
<1>15. Counted'
  BY <1>1, <1>14 DEF StatIInv, Counted
<1>16. ASSUME NEW u \in live' PROVE ToSave(rollup, u)'
  <2>1. ToSave(rollup, u) /\ u \in Tenant
    BY <1>1, <1>2 DEF StatIInv, RollsUp
  <2> QED BY <2>1, <1>1, <1>5, <1>6, <1>7, <1>8, <1>9 DEF ToSave
<1>17. RollsUp'
  BY <1>16 DEF RollsUp
<1> QED BY <1>12, <1>13, <1>15, <1>17 DEF StatsOK

\* Every tenant's row of the day is saved.
LEMMA RollupSavedStep ==
    ASSUME StatIInv, RollupSaved
    PROVE  StatsOK'
<1> USE DayIs
<1>1. /\ rollup.pc = "save" /\ DOMAIN rollup.todo = {}
      /\ rollup' = [pc |-> "prune"] /\ complete' = complete \cup {rollup.date}
      /\ UNCHANGED <<live, view, stat, today, due, visited>>
  BY DEF RollupSaved
<1>2. AnalyticsTypes
  BY TypesOfAnalytics DEF StatIInv
<1>3. rollup.date \in Day /\ rollup.date < today
  BY <1>1, <1>2, RollupFields DEF AnalyticsTypes, StatIInv, Runs
<1>4. AnalyticsTypes'
  BY <1>1, <1>2, <1>3 DEF AnalyticsTypes, RollupType
<1>5. today > 0
  BY <1>2, <1>3 DEF AnalyticsTypes
<1>6. Runs' /\ Kept' /\ RollsUp'
  BY <1>1, <1>5 DEF StatIInv, Runs, Kept, RollsUp
<1>7. ASSUME NEW t \in live', NEW d \in Day PROVE CountedFor(t, d)'
  <2>1. CountedFor(t, d) /\ ToSave(rollup, t)
    BY <1>1 DEF StatIInv, Counted, RollsUp
  <2> QED BY <2>1, <1>1 DEF CountedFor, ToSave
<1>8. Counted'
  BY <1>1, <1>3, <1>7 DEF StatIInv, Counted
<1> QED BY <1>4, <1>6, <1>8 DEF StatsOK

\* Only views as old as PruneAfter are pruned.
LEMMA RollupPruneStep ==
    ASSUME StatIInv, RollupPrune
    PROVE  StatsOK'
<1> USE DayIs
<1>1. rollup.pc = "prune" /\ rollup' = Idle
      /\ UNCHANGED <<live, stat, today, due, visited, complete>>
  BY DEF RollupPrune
<1>2. AnalyticsTypes
  BY TypesOfAnalytics DEF StatIInv
<1>3. PICK some \in SUBSET {v \in View : view[v] # None /\ view[v].day + PruneAfter = today} :
        view' = [v \in View |-> IF v \in Pruned \cup some THEN None ELSE view[v]]
  BY DEF RollupPrune
<1>4. \A v \in Pruned \cup some : view[v] # None /\ view[v].day + PruneAfter <= today
  BY <1>2, <1>3, VisitorsAssumption DEF Pruned, AnalyticsTypes, ViewRow
<1>5. \A v \in View : \/ view'[v] = view[v]
                      \/ view'[v] = None /\ view[v] # None /\ view[v].day + PruneAfter <= today
  BY <1>3, <1>4
<1>6. view' \in [View -> ViewRow \cup {None}]
  BY <1>2, <1>3 DEF AnalyticsTypes
<1>7. RollupType(rollup') /\ rollup'.pc = "idle"
  BY <1>1 DEF RollupType, Idle
<1>8. AnalyticsTypes'
  BY <1>1, <1>2, <1>6, <1>7 DEF AnalyticsTypes
<1>9. Kept'
  BY <1>1, <1>5 DEF StatIInv, Kept
<1>10. Runs' /\ RollsUp'
  BY <1>1, <1>7 DEF StatIInv, Runs, RollsUp
<1>11. Counted'
  BY <1>1 DEF StatIInv, Counted, CountedFor
<1> QED BY <1>8, <1>9, <1>10, <1>11 DEF StatsOK

\* A failed run leaves what it has saved.
LEMMA RollupThrowStep ==
    ASSUME StatIInv, RollupThrow
    PROVE  StatsOK'
<1>1. /\ rollup # Idle /\ rollup' = Idle /\ due' \in {due, TRUE}
      /\ UNCHANGED <<live, view, stat, today, visited, complete>>
  BY DEF RollupThrow
<1>2. AnalyticsTypes
  BY TypesOfAnalytics DEF StatIInv
<1>3. RollupType(rollup') /\ rollup'.pc = "idle"
  BY <1>1 DEF RollupType, Idle
<1>4. AnalyticsTypes'
  BY <1>1, <1>2, <1>3 DEF AnalyticsTypes
<1>5. Runs' /\ RollsUp'
  BY <1>1, <1>3 DEF StatIInv, Runs, RollsUp
<1>6. Kept' /\ Counted'
  BY <1>1 DEF StatIInv, Kept, Counted, CountedFor
<1> QED BY <1>4, <1>5, <1>6 DEF StatsOK

\* The views and figures of a tenant go with it, and no others.
LEMMA TenantGoesStats ==
    ASSUME StatIInv, NEW t \in Tenant, DeleteTenant(t)
    PROVE  StatsOK'
<1> USE DayIs
<1>1. AnalyticsTypes /\ live \subseteq Tenant
  BY TypesOfAnalytics DEF StatIInv
<1>2. /\ view' = [v \in View |-> IF view[v] # None /\ view[v].t = t THEN None ELSE view[v]]
      /\ visited' = [v \in View |-> IF visited[v] # None /\ visited[v].t = t
                                    THEN None ELSE visited[v]]
      /\ stat' = [stat EXCEPT ![t] = [d \in Day |-> None]]
      /\ live' = live \ {t}
      /\ UNCHANGED <<today, due, rollup, complete>>
  BY <1>1 DEF DeleteTenant, AnalyticsTypes
<1>3. AnalyticsTypes'
  BY <1>1, <1>2 DEF AnalyticsTypes
<1>4. Runs'
  BY <1>2 DEF StatIInv, Runs
<1>5. \A v \in View : visited'[v] = visited[v] \/ (visited'[v] = None /\ visited[v].t = t)
  BY <1>2
<1>6. Kept'
  <2> DEFINE S == {u \in View : visited[u] # None}
             T == {u \in View : visited'[u] # None}
  <2>1. T \in SUBSET S
    BY <1>5
  <2>2. IsFiniteSet(S)
    BY DEF StatIInv, Kept
  <2> HIDE DEF S, T
  <2>3. IsFiniteSet(T)
    BY <2>1, <2>2, FS_Subset
  <2>4. ASSUME NEW v \in View
        PROVE  /\ visited'[v] # None => visited'[v].day <= today'
               /\ view'[v] = visited'[v] \/ view'[v] = None
               /\ view'[v] # visited'[v] => visited'[v].day + PruneAfter <= today'
    BY <1>2 DEF StatIInv, Kept
  <2> QED BY <2>3, <2>4 DEF Kept, T
<1>7. ASSUME NEW u \in live', NEW d \in Day
      PROVE  /\ RowsOf(visited', u, d) = RowsOf(visited, u, d)
             /\ Tally(visited', u, d) = Tally(visited, u, d)
  <2>1. \A v \in View : visited'[v] = visited[v]
                        \/ (~OfDay(visited'[v], u, d) /\ ~OfDay(visited[v], u, d))
    BY <1>2, <1>5, <1>7 DEF OfDay
  <2> QED BY <2>1, TallySame
<1>8. \A u \in live', d \in Day : stat'[u][d] = stat[u][d]
  BY <1>1, <1>2 DEF AnalyticsTypes
<1>9. Counted' /\ RollsUp'
  BY <1>2, <1>7, <1>8, FiguresStay
<1> QED BY <1>3, <1>4, <1>6, <1>9 DEF StatsOK

-----------------------------------------------------------------------------
(***************************************************************************)
(* All steps                                                               *)
(***************************************************************************)

VisitsIInv == InquiryIInv /\ StatIInv

LEMMA InitVisits == Init => VisitsIInv
<1> SUFFICES ASSUME Init PROVE VisitsIInv
  OBVIOUS
<1> USE VisitorsAssumption
<1>1. TypeOK
  <2>1. mail \in [Inquiry -> MailState] /\ stray \in [Inquiry -> MailState]
    BY DEF Init, MailState
  <2>2. req \in [Req -> Handler]
    BY HandlerMade DEF Init
  <2>3. rollup \in [pc : {"idle", "prune"}]
    BY DEF Init, Idle
  <2>4. /\ stat \in [Tenant -> [Day -> Stat \cup {None}]] /\ today \in Day
        /\ view \in [View -> ViewRow \cup {None}] /\ visited \in [View -> ViewRow \cup {None}]
    BY DEF Init, Day
  <2> QED BY <2>1, <2>2, <2>3, <2>4 DEF Init, TypeOK
<1>2. ASSUME NEW q \in Inquiry PROVE InquiryOK(q)
  <2>1. /\ mail[q].pc = "none" /\ stray[q].pc = "none"
        /\ inquiry[q] = None /\ sent[q] = 0 /\ ~Told(q)
    BY DEF Init, Told
  <2>2. \A t \in Tenant : ~Mentions(q, t)
    BY <2>1 DEF Init, Mentions, Carries, Running, Idle
  <2>3. Budgeted(q)
    BY <2>1 DEF Budgeted, JobMails, RunMails, Running
  <2> QED BY <2>1, <2>2, <2>3 DEF InquiryOK, OneTenant, HasTenant, MailedOnce, IsMailed
<1>3. Runs /\ RollsUp
  BY DEF Init, Runs, RollsUp, Idle
<1>4. Kept
  <2>1. {v \in View : visited[v] # None} = {}
    BY DEF Init
  <2> QED BY <2>1, FS_EmptySet DEF Init, Kept
<1>5. Counted
  BY DEF Init, Counted, CountedFor
<1> QED BY <1>1, <1>2, <1>3, <1>4, <1>5 DEF VisitsIInv, InquiryIInv, StatIInv

\* A step that leaves the views and figures alone, its types shown.
LEMMA InquiryStepDone ==
    ASSUME VisitsIInv, UNCHANGED analytics, UNCHANGED calls,
           live' = live,
           inquiry' \in [Inquiry -> InquiryRow \cup {None}], told' \subseteq Inquiry \X Tenant,
           mail' \in [Inquiry -> MailState], stray' \in [Inquiry -> MailState], req' \in [Req -> Handler],
           sent' \in [Inquiry -> Nat],
           unsure' \subseteq Inquiry, lost' \subseteq Inquiry, revived' \subseteq Inquiry,
           \A q \in Inquiry : InquiryOK(q)'
    PROVE  VisitsIInv'
<1>1. StatsOK'
  BY StatsStay DEF VisitsIInv
<1>2. TypeOK'
  BY <1>1 DEF StatsOK, AnalyticsTypes, RollupType, VisitsIInv, StatIInv, TypeOK
<1> QED BY <1>1, <1>2 DEF StatsOK, VisitsIInv, InquiryIInv, StatIInv

\* A step that leaves the inquiries alone.
LEMMA StatStepDone ==
    ASSUME VisitsIInv, UNCHANGED <<live, inquiries, calls>>, req' \in [Req -> Handler],
           \A q \in Inquiry : InquiryOK(q)', StatsOK'
    PROVE  VisitsIInv'
<1>1. TypeOK'
  BY DEF StatsOK, AnalyticsTypes, RollupType, VisitsIInv, StatIInv, TypeOK, inquiries
<1> QED BY <1>1 DEF StatsOK, VisitsIInv, InquiryIInv, StatIInv

LEMMA HandlerStep ==
    ASSUME VisitsIInv, UNCHANGED calls, NEW r \in Req, Arrive(r) \/ Continue(r)
    PROVE  VisitsIInv'
<1>0. InquiryIInv /\ StatIInv /\ TypeOK
  BY DEF VisitsIInv, StatIInv
<1>1. ASSUME NEW t \in Tenant, Submit(r, t) PROVE VisitsIInv'
  <2>1. UNCHANGED <<live, inquiries, analytics>>
    BY <1>1 DEF Submit
  <2>2. req' \in [Req -> Handler] /\ \A q \in Inquiry : InquiryOK(q)'
    BY <1>0, <1>1, SubmitInquiry
  <2> QED BY <1>0, <2>1, <2>2, StatsStay, StatStepDone
<1>2. ASSUME NEW q \in Inquiry, MarkRead(r, q) \/ DeleteInquiry(r, q) PROVE VisitsIInv'
  <2>1. UNCHANGED <<live, inquiries, analytics>>
    BY <1>2 DEF MarkRead, DeleteInquiry
  <2>2. req' \in [Req -> Handler] /\ \A p \in Inquiry : InquiryOK(p)'
    BY <1>0, <1>2, MarkReadStep
  <2> QED BY <1>0, <2>1, <2>2, StatsStay, StatStepDone
<1>3. ASSUME NEW t \in Tenant, NEW visitor \in Visitor, RecordPageview(r, t, visitor)
      PROVE  VisitsIInv'
  <2>1. UNCHANGED <<live, inquiries, analytics>>
    BY <1>3 DEF RecordPageview
  <2>2. req' \in [Req -> Handler] /\ \A p \in Inquiry : InquiryOK(p)'
    BY <1>0, <1>3, ViewsLeaveInquiries
  <2> QED BY <1>0, <2>1, <2>2, StatsStay, StatStepDone
<1>4. CASE InsertInquiry(r)
  <2>1. /\ UNCHANGED <<live, mail, stray, sent, unsure, lost, revived, analytics>>
        /\ inquiry' \in [Inquiry -> InquiryRow \cup {None}]
        /\ told' \subseteq Inquiry \X Tenant
    <3>1. req[r].t \in Tenant
      BY <1>0, <1>4 DEF InsertInquiry, TypeOK
    <3>2. [t |-> req[r].t, read |-> FALSE] \in InquiryRow
      BY <3>1 DEF InquiryRow
    <3> QED BY <1>0, <1>4, <3>1, <3>2 DEF InsertInquiry, TypeOK
  <2>2. req' \in [Req -> Handler] /\ \A p \in Inquiry : InquiryOK(p)'
    BY <1>0, <1>4, InsertInquiryStep
  <2> QED BY <1>0, <2>1, <2>2, InquiryStepDone DEF TypeOK
<1>5. CASE SaveRead(r)
  <2>1. UNCHANGED <<live, told, mail, stray, sent, unsure, lost, analytics>>
    BY <1>5 DEF SaveRead
  <2> QED BY <1>0, <1>5, <2>1, SaveReadStep, InquiryStepDone DEF TypeOK
<1>6. CASE RemoveInquiry(r)
  <2>1. UNCHANGED <<live, told, mail, stray, sent, unsure, lost, revived, analytics>>
    BY <1>6 DEF RemoveInquiry
  <2> QED BY <1>0, <1>6, <2>1, RemoveStep, InquiryStepDone DEF TypeOK
<1>7. CASE InsertView(r)
  <2>1. UNCHANGED <<live, inquiries>>
    BY <1>7 DEF InsertView
  <2> QED BY <1>0, <1>7, <2>1, ViewsLeaveInquiries, InsertViewStep, StatStepDone
<1>8. CASE Abort(r)
  <2>1. UNCHANGED <<live, inquiries, analytics>>
    BY <1>8 DEF Abort
  <2> QED BY <1>0, <1>8, <2>1, ViewsLeaveInquiries, StatsStay, StatStepDone
<1>9. CASE Arrive(r)
  BY <1>1, <1>2, <1>3, <1>9 DEF Arrive
<1> QED BY <1>4, <1>5, <1>6, <1>7, <1>8, <1>9 DEF Continue

LEMMA MailStep ==
    ASSUME VisitsIInv, UNCHANGED calls, NEW q \in Inquiry,
           (\E t \in Tenant : OnReceived(q, t) \/ LoseEvent(q, t)) \/ MailWork(q)
    PROVE  VisitsIInv'
<1>0. InquiryIInv /\ TypeOK
  BY DEF VisitsIInv, InquiryIInv
<1>1. ASSUME NEW t \in Tenant, OnReceived(q, t) \/ LoseEvent(q, t) PROVE VisitsIInv'
  <2>1. UNCHANGED <<live, inquiry, stray, sent, unsure, revived, req, analytics>>
    BY <1>1 DEF OnReceived, LoseEvent
  <2>2. told' \subseteq Inquiry \X Tenant /\ lost' \subseteq Inquiry
    BY <1>0, <1>1 DEF OnReceived, LoseEvent, TypeOK
  <2> QED BY <1>0, <1>1, <2>1, <2>2, EventStep, InquiryStepDone DEF TypeOK
<1>2. CASE MailWork(q)
  <2>1. UNCHANGED <<live, inquiry, told, revived, req, analytics>>
    BY <1>2, WorkFrame
  <2>2. unsure' \subseteq Inquiry /\ lost' \subseteq Inquiry
    BY <1>0, <1>2 DEF MailWork, WorkRead, Send, SendUnsure, WorkThrow, Stall, StrayRead,
         StraySend, StrayEnds, Retry, TypeOK
  <2> QED BY <1>0, <1>2, <2>1, <2>2, WorkStep, InquiryStepDone DEF TypeOK, WorkKeeps
<1> QED BY <1>1, <1>2

LEMMA NightStep ==
    ASSUME VisitsIInv, UNCHANGED calls, Midnight \/ RollupWork
    PROVE  VisitsIInv'
<1>0. InquiryIInv /\ StatIInv /\ TypeOK
  BY DEF VisitsIInv, StatIInv
<1>1. UNCHANGED <<live, inquiries, req>>
  BY DEF Midnight, RollupWork, RollupLoad, RollupSave, RollupSaved, RollupPrune, RollupThrow
<1>2. StatsOK'
  BY <1>0, MidnightStep, RollupLoadStep, RollupSaveStep, RollupSavedStep, RollupPruneStep,
     RollupThrowStep DEF RollupWork
<1> QED BY <1>0, <1>1, <1>2, RollupLeavesInquiries, StatStepDone DEF TypeOK

LEMMA TenantGoes ==
    ASSUME VisitsIInv, UNCHANGED calls, NEW t \in Tenant, DeleteTenant(t)
    PROVE  VisitsIInv'
<1>0. InquiryIInv /\ StatIInv /\ TypeOK
  BY DEF VisitsIInv, StatIInv
<1>1. StatsOK' /\ inquiry' \in [Inquiry -> InquiryRow \cup {None}]
      /\ \A p \in Inquiry : InquiryOK(p)'
  BY <1>0, TenantGoesStats, TenantGoesInquiries
<1>2. UNCHANGED <<told, mail, stray, req, sent, unsure, lost, revived>> /\ live' \subseteq Tenant
  BY <1>0 DEF DeleteTenant, TypeOK
<1>3. TypeOK'
  BY <1>0, <1>1, <1>2 DEF StatsOK, AnalyticsTypes, RollupType, TypeOK
<1> QED BY <1>1, <1>3 DEF StatsOK, VisitsIInv, InquiryIInv, StatIInv

\* Inquiries and figures keep their invariants under every interleaving of
\* PublicService, InquiriesService, its listener and worker, and
\* AnalyticsRollupProcessor.
THEOREM VisitsInvariance == Spec => []VisitsIInv
<1>1. VisitsIInv /\ [Next]_visitVars => VisitsIInv'
  <2> SUFFICES ASSUME VisitsIInv, [Next]_visitVars PROVE VisitsIInv'
    OBVIOUS
  <2>1. CASE UNCHANGED visitVars
    <3>1. UNCHANGED <<live, inquiries, analytics, req, calls>>
      BY <2>1 DEF visitVars, inquiries, analytics
    <3>2. InquiryIInv /\ StatIInv /\ req \in [Req -> Handler]
      BY DEF VisitsIInv, StatIInv, TypeOK
    <3> QED BY <3>1, <3>2, RollupLeavesInquiries, StatsStay, StatStepDone
  <2>2. CASE Next
    BY <2>2, HandlerStep, MailStep, NightStep, TenantGoes DEF Next
  <2> QED BY <2>1, <2>2
<1> QED BY InitVisits, <1>1, PTL DEF Spec

\* Rows, jobs, handlers and the rollup have their shape at all times.
THEOREM TypeCorrect == Spec => []TypeOK
<1>1. VisitsIInv => TypeOK
  BY DEF VisitsIInv, StatIInv
<1> QED BY <1>1, VisitsInvariance, PTL

\* An inquiry in the dashboard was mailed or is on its way, but for the losses
\* the property names - its event or its last attempt lost, or the row deleted
\* and saved again - and twice only if an answer of the provider was lost or
\* the job stalled, and then within the attempts and the run that stalled
\* (submitInquiry 102-104, handle 58-96, markRead 72-79).
THEOREM InquiriesMailed == Spec => []InquiryIsMailed
<1>1. VisitsIInv => InquiryIsMailed
  <2> SUFFICES ASSUME VisitsIInv, NEW q \in Inquiry
               PROVE  /\ IsMailed(q)
                      /\ sent[q] <= IF stray[q].pc # "none" THEN Attempts + 1 ELSE Attempts
    BY DEF IsMailed, InquiryIsMailed
  <2>1. IsMailed(q) /\ Budgeted(q) /\ sent[q] \in Nat /\ mail[q] \in MailState
    BY DEF VisitsIInv, InquiryIInv, InquiryOK, TypeOK
  <2>2. JobMails(mail[q]) \in Nat /\ RunMails(stray[q]) \in Nat
    BY <2>1, MailFields, VisitorsAssumption DEF JobMails, RunMails
  <2> HIDE DEF JobMails, RunMails
  <2> QED BY <2>1, <2>2, VisitorsAssumption DEF Budgeted
<1> QED BY <1>1, VisitsInvariance, PTL

\* However late or often the rollup of a day runs, its figures count every
\* view of the day and each visitor, and nothing is pruned uncounted unless
\* the rollup did not get through (handle 62-98, prune 100-104).
THEOREM FiguresCount == Spec => []StatsKeepTheCount
<1>1. VisitsIInv => StatsKeepTheCount
  <2> SUFFICES ASSUME VisitsIInv, NEW t \in live, NEW d \in Day
               PROVE  LET rows == RowsOf(visited, t, d)
                          here == RowsOf(view, t, d)
                          row == stat[t][d]
                      IN
                      /\ row # None =>
                          /\ row.views = Cardinality(rows)
                          /\ (\A v \in rows : visited[v].salt = d) =>
                              row.uniques = Cardinality({visited[v].visitor : v \in rows})
                      /\ here # rows /\ row = None => d \notin complete
    BY DEF StatsKeepTheCount
  <2> DEFINE rows == RowsOf(visited, t, d)
             here == RowsOf(view, t, d)
  <2>1. CountedFor(t, d) /\ Kept
    BY DEF VisitsIInv, StatIInv, Counted
  <2>2. IsFiniteSet(rows)
    BY <2>1, FinitelyMany
  <2>3. ASSUME stat[t][d] # None
        PROVE  /\ stat[t][d].views = Cardinality(rows)
               /\ stat[t][d].uniques = Cardinality({<<visited[v].visitor, visited[v].salt>> : v \in rows})
    <3>1. stat[t][d] = Tally(visited, t, d)
      BY <2>1, <2>3 DEF CountedFor
    <3> QED BY <3>1, TallyCounts
  <2>4. ASSUME \A v \in rows : visited[v].salt = d
        PROVE  Cardinality({<<visited[v].visitor, visited[v].salt>> : v \in rows})
                 = Cardinality({visited[v].visitor : v \in rows})
    <3> HIDE DEF rows
    <3>1. \A v \in rows : visited[v].salt = d
      BY <2>4
    <3>2. Cardinality(Hashes(visited, rows)) = Cardinality(People(visited, rows))
      BY <2>2, <3>1, OneSalt
    <3> QED BY <3>2 DEF Hashes, People
  <2>5. here \subseteq rows
    BY <2>1 DEF Kept, RowsOf
  <2>6. here # rows /\ stat[t][d] = None => d \notin complete
    BY <2>1, <2>5 DEF CountedFor
  <2> HIDE DEF rows, here
  <2>7. /\ stat[t][d] # None =>
            /\ stat[t][d].views = Cardinality(rows)
            /\ (\A v \in rows : visited[v].salt = d) =>
                stat[t][d].uniques = Cardinality({visited[v].visitor : v \in rows})
        /\ here # rows /\ stat[t][d] = None => d \notin complete
    BY <2>3, <2>4, <2>6
  <2> QED BY <2>7 DEF rows, here
<1> QED BY <1>1, VisitsInvariance, PTL
=============================================================================
