---------------------------- MODULE TokenBuckets ----------------------------
(***************************************************************************)
(* src/ratelimit.py: three nested token buckets per connector              *)
(* (connector, tenant, user), refilled only when a call looks at them.     *)
(*                                                                         *)
(* Time is counted in ticks.  Minute ticks make a minute, so with amounts  *)
(* in units of 1/Minute of a token a bucket of rpm tokens a minute gains   *)
(* rpm units a tick and every quantity of the code is an integer.  In the  *)
(* code a tick is one millisecond, Minute = 60000 and BurstUnits = 90000   *)
(* (burst_multiplier 1.5); its floats are treated as exact.                *)
(*                                                                         *)
(* A call of try_acquire_many never awaits, so it is one step.             *)
(***************************************************************************)
EXTENDS Integers, FiniteSetsExt

CONSTANTS
  Connector,   \* the connectors of settings.CONNECTORS
  Rank,        \* Rank[c]: the place of c in sorted(connectors)
  Tenant, User,
  Rpm,         \* Rpm[c][s]: tokens a minute of connector c at scope s
  Minute,      \* ticks in a minute, and units in a token
  BurstUnits,  \* burst_multiplier * Minute
  MaxClock,    \* bound on the clock (TLC only: no theorem depends on it)
  Absent,      \* a key that is not in the table of buckets
  NoRefusal

Scope == {"c", "t", "u"}

ASSUME MinuteAssumption == Minute \in Nat \ {0}
ASSUME RpmAssumption == Rpm \in [Connector -> [Scope -> Nat \ {0}]]
ASSUME BurstAssumption == BurstUnits \in Nat /\ BurstUnits >= Minute
ASSUME RankAssumption ==
  /\ Rank \in [Connector -> Nat]
  /\ \A c, d \in Connector : Rank[c] = Rank[d] => c = d
ASSUME AbsentAssumption == Absent \notin [tokens : Int, last : Nat]

VARIABLES
  now,          \* time.monotonic(), in ticks
  buckets,      \* RateLimiter._buckets, with the keys not in it mapped to Absent
  refusal,      \* the last refusal, while nothing was taken from its call's buckets
  windowStart,  \* an observer: some past tick ...
  inWindow      \* ... and the tokens each bucket has given since then

vars == <<now, buckets, refusal, windowStart, inWindow>>

-----------------------------------------------------------------------------

\* The three keys of a connector for a caller, and those of a whole call.
Scopes(c, t, u) == {<<"c", c>>, <<"t", c, t>>, <<"u", c, t, u>>}
Touched(S, t, u) == UNION {Scopes(c, t, u) : c \in S}

Key == UNION {Touched(Connector, t, u) : t \in Tenant, u \in User}

\* A query's connectors: sorted({sp.connector for sp in plan.sources}).
Query == (SUBSET Connector) \ {{}}

Demand == {Touched(S, t, u) : S \in Query, t \in Tenant, u \in User}

Rate == [k \in Key |-> Rpm[k[2]][k[1]]]
Cap == [k \in Key |-> Rate[k] * BurstUnits]

\* The order of all_buckets: connectors sorted, and within one c, then t, then u.
ScopeRank == [s \in Scope |-> IF s = "c" THEN 0 ELSE IF s = "t" THEN 1 ELSE 2]
Before(j, k) ==
  \/ Rank[j[2]] < Rank[k[2]]
  \/ j[2] = k[2] /\ ScopeRank[j[1]] < ScopeRank[k[1]]

AtMost(cap, n) == IF n < cap THEN n ELSE cap

Bucket == [tokens : Int, last : Nat]

\* Slip: a new bucket is back-dated.
NewBucketBackdated(k) == [tokens |-> Cap[k], last |-> now - 1]

NewBucket(k) == [tokens |-> Cap[k], last |-> now]

Created(k) == IF buckets[k] = Absent THEN NewBucket(k) ELSE buckets[k]

\* Slip: the refill forgets min(capacity, ...).
RefilledUncapped(k, b, n) == b.tokens + Rate[k] * (n - b.last)

\* What the bucket b of key k holds once refilled at tick n.
Refilled(k, b, n) == AtMost(Cap[k], b.tokens + Rate[k] * (n - b.last))

\* Slip: the refill forgets to move the bucket's clock.
RefillKeepsClock(k, b) == [tokens |-> Refilled(k, b, now), last |-> b.last]

Refill(k, b) == [tokens |-> Refilled(k, b, now), last |-> now]

\* Slip: a fraction of a token is enough.
AvailableFraction(k) == Refilled(k, Created(k), now) > 0

Available(k) == Refilled(k, Created(k), now) >= Minute

Consume(b) == [b EXCEPT !.tokens = @ - Minute]

\* Slip: int() in the place of math.ceil().
FloorDiv(d, r) == d \div r

\* math.ceil(deficit / refill_per_s): the least number of ticks that covers it.
CeilDiv(d, r) == (d + r - 1) \div r

RetryAfter(k, b) ==
  IF b.tokens >= Minute THEN 0 ELSE CeilDiv(Minute - b.tokens, Rate[k])

\* What a bucket would hold if it were looked at now; a missing one is full.
Level(k) == Refilled(k, Created(k), now)

-----------------------------------------------------------------------------

Init ==
  /\ now = 0
  /\ buckets = [k \in Key |-> Absent]
  /\ refusal = NoRefusal
  /\ windowStart = 0
  /\ inWindow = [k \in Key |-> 0]

\* Slip: the user's buckets are checked and not consumed from.
AcquireWithoutUser(S, t, u) ==
  LET K == Touched(S, t, u)
      C == {k \in K : k[1] # "u"}
  IN  /\ \A k \in K : Available(k)
      /\ buckets' = [k \in Key |->
           IF k \in C THEN Consume(Refill(k, Created(k))) ELSE buckets[k]]
      /\ inWindow' = [k \in Key |->
           IF k \in C THEN inWindow[k] + 1 ELSE inWindow[k]]
      /\ UNCHANGED <<now, refusal, windowStart>>

\* Every bucket of the call is refilled and has a token: take one from each.
Acquire(S, t, u) ==
  LET K == Touched(S, t, u)
  IN  /\ \A k \in K : Available(k)
      /\ buckets' = [k \in Key |->
           IF k \in K THEN Consume(Refill(k, Created(k))) ELSE buckets[k]]
      /\ inWindow' = [k \in Key |->
           IF k \in K THEN inWindow[k] + 1 ELSE inWindow[k]]
      /\ refusal' = IF refusal # NoRefusal /\ refusal.call \cap K # {}
                    THEN NoRefusal ELSE refusal
      /\ UNCHANGED <<now, windowStart>>

\* Slip: every bucket is consumed from as it is checked.
RefuseConsuming(S, t, u) ==
  LET K == Touched(S, t, u)
  IN  \E k \in K :
        /\ ~Available(k)
        /\ \A j \in K : Before(j, k) => Available(j)
        /\ buckets' = [j \in Key |->
             IF j \notin K THEN buckets[j]
             ELSE IF Before(j, k) THEN Consume(Refill(j, Created(j)))
             ELSE Refill(j, Created(j))]
        /\ refusal' = [call |-> K, key |-> k, at |-> now,
                       retry |-> RetryAfter(k, Refill(k, Created(k)))]
        /\ UNCHANGED <<now, windowStart, inWindow>>

\* All the buckets exist by now; they are refilled in order up to the first
\* that lacks a token, which the decision names, and nothing is consumed.
Refuse(S, t, u) ==
  LET K == Touched(S, t, u)
  IN  \E k \in K :
        /\ ~Available(k)
        /\ \A j \in K : Before(j, k) => Available(j)
        /\ buckets' = [j \in Key |->
             IF j \notin K THEN buckets[j]
             ELSE IF j = k \/ Before(j, k) THEN Refill(j, Created(j))
             ELSE Created(j)]
        /\ refusal' = [call |-> K, key |-> k, at |-> now,
                       retry |-> RetryAfter(k, Refill(k, Created(k)))]
        /\ UNCHANGED <<now, windowStart, inWindow>>

TryAcquireMany(S, t, u) == Acquire(S, t, u) \/ Refuse(S, t, u)

\* The monotonic clock moves on.
Tick ==
  /\ now < MaxClock
  /\ now' = now + 1
  /\ UNCHANGED <<buckets, refusal, windowStart, inWindow>>

\* reset(), and a restart of the process: the table is empty again.
Reset ==
  /\ buckets' = [k \in Key |-> Absent]
  /\ refusal' = NoRefusal
  /\ windowStart' = now
  /\ inWindow' = [k \in Key |-> 0]
  /\ UNCHANGED now

\* The observer starts counting again: every window of time is observed.
OpenWindow ==
  /\ windowStart' = now
  /\ inWindow' = [k \in Key |-> 0]
  /\ UNCHANGED <<now, buckets, refusal>>

Next ==
  \/ \E S \in Query, t \in Tenant, u \in User :
       TryAcquireMany(S, t, u)
  \/ Tick
  \/ Reset
  \/ OpenWindow

Spec == Init /\ [][Next]_vars

-----------------------------------------------------------------------------

Refusals ==
  [call : SUBSET Key, key : Key, at : Nat, retry : Nat] \cup {NoRefusal}

TypeOK ==
  /\ now \in Nat
  /\ buckets \in [Key -> Bucket \cup {Absent}]
  /\ refusal \in Refusals
  /\ windowStart \in Nat
  /\ inWindow \in [Key -> Nat]

\* No interleaving of calls drives a bucket below zero or above its burst
\* capacity, and no bucket was refilled in the future (_refill, consume).
BucketBounds ==
  \A k \in Key : buckets[k] # Absent =>
    /\ buckets[k].tokens \in 0..Cap[k]
    /\ buckets[k].last <= now

\* The promise of the limiter: in every window of time, whatever calls were
\* made on whatever connectors, a bucket gives no more than its burst and what
\* refills during the window.
WindowBound ==
  \A k \in Key :
    Minute * inWindow[k] <= Cap[k] + Rate[k] * (now - windowStart)

\* The nested scopes account alike: in every window, what a connector's bucket
\* gave is the sum over its tenants' buckets, and theirs over their users'.
NestedAccounting ==
  LET given(K) == MapThenSumSet(LAMBDA k : inWindow[k], K)
  IN  \A c \in Connector :
        /\ inWindow[<<"c", c>>] = given({<<"t", c, t>> : t \in Tenant})
        /\ \A t \in Tenant :
             inWindow[<<"t", c, t>>] = given({<<"u", c, t, u>> : u \in User})

\* retry_after_ms is exact for the bucket it names: while nothing is taken from
\* the call's buckets, that bucket has its token when the hint runs out, and
\* not a tick earlier.
RetryHintExact ==
  refusal # NoRefusal =>
    (Level(refusal.key) >= Minute <=> now >= refusal.at + refusal.retry)

\* "A rejected query consumes no budget": a refused call leaves what every
\* bucket holds as it was, although it creates and refills some of them.
RejectionConsumesNothing ==
  [][refusal' # refusal /\ refusal' # NoRefusal
        => \A k \in Key : Level(k)' = Level(k)]_vars

\* The lazy buckets implement the ones that refill by themselves.
B == INSTANCE Budget WITH Token <- Minute, level <- [k \in Key |-> Level(k)]

ImplementsBudget == B!Spec
=============================================================================
