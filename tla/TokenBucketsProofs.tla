------------------------- MODULE TokenBucketsProofs -------------------------
(***************************************************************************)
(* What is proved of the rate limiter, for all connectors, tenants, users, *)
(* budgets and bursts: the invariants of its buckets, the bound on what a  *)
(* window of time can obtain, the exactness of the retry hint, that a      *)
(* refusal is free, that the lazy buckets implement Budget, and that the   *)
(* scopes of a connector account alike.                                    *)
(*                                                                         *)
(* Every argument goes through Level(k), what bucket k would hold if it    *)
(* were looked at now: each action has one lemma that says what it does to *)
(* the levels, and the rest is arithmetic on levels.                       *)
(***************************************************************************)
EXTENDS TokenBuckets, FiniteSetTheorems, TLAPS

-----------------------------------------------------------------------------
(* Sums over finite sets.                                                  *)
(*                                                                         *)
(* MapThenSumSet recurses over the subsets of a set and takes an arbitrary *)
(* element first; the lemmas say that its result does not depend on that:  *)
(* a sum is any element's weight and the sum of the rest, and one more for *)
(* an element is one more in all.                                          *)
(*                                                                         *)
(* The library's induction theorems are about an operator P; here the sets *)
(* for which a fact fails are collected instead, and a least one of them   *)
(* is refuted (LeastSet), which is the same in first-order terms.          *)

\* The weights w are a function, so that the lemmas need no operator either.
SumOver(w, S) == MapThenSumSet(LAMBDA k : w[k], S)

\* The element that a sum takes first, and what is left for later.
Pick(s) == CHOOSE x \in s : TRUE
Rest(s) == s \ {Pick(s)}

\* f is a table of sums that MapThenFoldSet could recurse over.
IsTable(f, w, S) ==
  f = [s \in SUBSET S |-> IF s = {} THEN 0 ELSE w[Pick(s)] + f[Rest(s)]]

\* Induction over a finite set: a set of its subsets has a least one.
LEMMA LeastSet ==
  ASSUME NEW S, IsFiniteSet(S), NEW Bad \in SUBSET (SUBSET S), Bad # {}
  PROVE  \E U \in Bad : \A V \in Bad : V \subseteq U => V = U
<1>1. IsWellFoundedOn(StrictSubsetOrdering(S), SUBSET S)
  BY FS_StrictSubsetOrderingWellFounded, FS_FiniteSubsetsOfFinite
<1>2. PICK U \in Bad : \A V \in Bad : ~(<<V, U>> \in StrictSubsetOrdering(S))
  BY <1>1, WFMin
<1>3. ASSUME NEW V \in Bad, V \subseteq U
      PROVE  V = U
  <2>1. V \in SUBSET S /\ U \in SUBSET S
    OBVIOUS
  <2>2. ~(<<V, U>> \in StrictSubsetOrdering(S))
    BY <1>2
  <2> QED BY <1>3, <2>1, <2>2 DEF StrictSubsetOrdering
<1> QED BY <1>3

\* What is left when an element was taken is less.
LEMMA RestIsLess ==
  ASSUME NEW s, s # {}
  PROVE  Pick(s) \in s /\ Rest(s) \subseteq s /\ Rest(s) # s
  BY DEF Pick, Rest

\* A sum is what some table has for the whole set.
LEMMA SumIs ==
  ASSUME NEW w, NEW S
  PROVE  SumOver(w, S) = (CHOOSE f : IsTable(f, w, S))[S]
  BY DEF SumOver, MapThenSumSet, MapThenFoldSet, IsTable, Pick, Rest

\* Two tables agree where both are defined.
LEMMA TablesAgree ==
  ASSUME NEW w, NEW S, NEW T, NEW f, NEW g, NEW U, IsFiniteSet(U),
         U \subseteq S, U \subseteq T, IsTable(f, w, S), IsTable(g, w, T)
  PROVE  f[U] = g[U]
<1> DEFINE Bad == {V \in SUBSET U : f[V] # g[V]}
<1>1. SUFFICES ASSUME Bad # {} PROVE FALSE
  OBVIOUS
<1>2. PICK V \in Bad : \A X \in Bad : X \subseteq V => X = V
  <2>1. Bad \in SUBSET (SUBSET U)
    OBVIOUS
  <2> HIDE DEF Bad
  <2> QED BY <1>1, <2>1, LeastSet
<1>3. V \in SUBSET S /\ V \in SUBSET T /\ V \in SUBSET U
  OBVIOUS
<1>4. /\ f[V] = IF V = {} THEN 0 ELSE w[Pick(V)] + f[Rest(V)]
      /\ g[V] = IF V = {} THEN 0 ELSE w[Pick(V)] + g[Rest(V)]
  BY <1>3 DEF IsTable
<1>5. CASE V = {}
  BY <1>4, <1>5
<1>6. CASE V # {}
  <2>1. Rest(V) \in SUBSET U /\ Rest(V) # V /\ Rest(V) \subseteq V
    BY <1>3, <1>6, RestIsLess
  <2>2. Rest(V) \notin Bad
    BY <1>2, <2>1
  <2>3. f[Rest(V)] = g[Rest(V)]
    BY <2>1, <2>2
  <2> QED BY <1>4, <1>6, <2>3
<1> QED BY <1>5, <1>6

\* There is a table for every finite set.
LEMMA TableExists ==
  ASSUME NEW w, NEW S, IsFiniteSet(S)
  PROVE  \E f : IsTable(f, w, S)
<1> DEFINE Bad == {V \in SUBSET S : ~ \E f : IsTable(f, w, V)}
<1>1. SUFFICES ASSUME Bad # {} PROVE FALSE
  OBVIOUS
<1>2. PICK V \in Bad : \A X \in Bad : X \subseteq V => X = V
  <2>1. Bad \in SUBSET (SUBSET S)
    OBVIOUS
  <2> HIDE DEF Bad
  <2> QED BY <1>1, <2>1, LeastSet
<1>3. V \in SUBSET S
  OBVIOUS
<1> DEFINE table == [X \in SUBSET V |-> CHOOSE f : IsTable(f, w, X)]
           sum(X) == IF X = {} THEN 0 ELSE w[Pick(X)] + table[Rest(X)][Rest(X)]
           new == [X \in SUBSET V |-> sum(X)]
<1>4. ASSUME NEW X \in SUBSET V, X # V
      PROVE  IsTable(table[X], w, X)
  <2>1. X \in SUBSET S /\ X \notin Bad
    BY <1>2, <1>3, <1>4
  <2>2. \E f : IsTable(f, w, X)
    BY <2>1
  <2> QED BY <2>2
<1>5. ASSUME NEW X \in SUBSET V, X # {}
      PROVE  table[Rest(X)][Rest(X)] = new[Rest(X)]
  <2>1. Rest(X) \in SUBSET V /\ Rest(X) # V
    BY <1>5, RestIsLess
  <2> DEFINE R == Rest(X)
  <2>2. IsTable(table[R], w, R)
    BY <1>4, <2>1
  <2>3. table[R][R] = IF R = {} THEN 0 ELSE w[Pick(R)] + table[R][Rest(R)]
    <3> HIDE DEF table, R
    <3> QED BY <2>2 DEF IsTable
  <2>4. CASE R = {}
    BY <2>1, <2>3, <2>4
  <2>5. CASE R # {}
    <3>1. Rest(R) \subseteq R /\ Rest(R) \in SUBSET V /\ Rest(R) # V
      BY <2>1, <2>5, RestIsLess
    <3>2. IsTable(table[Rest(R)], w, Rest(R))
      BY <1>4, <3>1
    <3>3. IsFiniteSet(Rest(R))
      BY <1>3, <3>1, FS_Subset
    <3>4. table[R][Rest(R)] = table[Rest(R)][Rest(R)]
      <4> HIDE DEF table, R
      <4> QED BY <2>2, <3>1, <3>2, <3>3, TablesAgree
    <3>5. new[R] = w[Pick(R)] + table[Rest(R)][Rest(R)]
      <4> HIDE DEF table
      <4> QED BY <2>1, <2>5
    <3> QED BY <2>3, <2>5, <3>4, <3>5
  <2> QED BY <2>4, <2>5
<1>6. IsTable(new, w, V)
  <2>1. ASSUME NEW X \in SUBSET V
        PROVE  sum(X) = IF X = {} THEN 0 ELSE w[Pick(X)] + new[Rest(X)]
    <3> HIDE DEF table, new
    <3> QED BY <1>5
  <2> HIDE DEF sum
  <2> DEFINE h == new
  <2>2. h = [X \in SUBSET V |-> IF X = {} THEN 0 ELSE w[Pick(X)] + h[Rest(X)]]
    <3> HIDE DEF h
    <3>1. h = [X \in SUBSET V |-> sum(X)]
      BY DEF h
    <3>2. \A X \in SUBSET V : sum(X) = IF X = {} THEN 0 ELSE w[Pick(X)] + h[Rest(X)]
      BY <2>1 DEF h
    <3> QED BY <3>1, <3>2
  <2> HIDE DEF h, new
  <2> QED BY <2>2 DEF IsTable, h
<1>7. V \notin Bad
  <2> HIDE DEF new
  <2> QED BY <1>6
<1> QED BY <1>2, <1>7

\* The recursion of a sum, without its table.
LEMMA SumStep ==
  ASSUME NEW w, NEW S, IsFiniteSet(S)
  PROVE  SumOver(w, S) = IF S = {} THEN 0 ELSE w[Pick(S)] + SumOver(w, Rest(S))
<1> DEFINE Table(X) == CHOOSE f : IsTable(f, w, X)
<1>1. ASSUME NEW X, IsFiniteSet(X)
      PROVE  IsTable(Table(X), w, X)
  BY <1>1, TableExists
<1>2. ASSUME NEW X
      PROVE  SumOver(w, X) = Table(X)[X]
  BY SumIs
<1> HIDE DEF Table
<1>3. Table(S)[S] = IF S = {} THEN 0 ELSE w[Pick(S)] + Table(S)[Rest(S)]
  <2>1. IsTable(Table(S), w, S) /\ S \in SUBSET S
    BY <1>1
  <2> QED BY <2>1 DEF IsTable
<1>4. ASSUME S # {}
      PROVE  Table(S)[Rest(S)] = Table(Rest(S))[Rest(S)]
  <2>1. Rest(S) \subseteq S /\ IsFiniteSet(Rest(S))
    BY <1>4, RestIsLess, FS_Subset
  <2>2. IsTable(Table(S), w, S) /\ IsTable(Table(Rest(S)), w, Rest(S))
    BY <1>1, <2>1
  <2> QED BY <2>1, <2>2, TablesAgree
<1> QED BY <1>2, <1>3, <1>4

LEMMA SumOfZeros ==
  ASSUME NEW w, NEW S, IsFiniteSet(S), \A k \in S : w[k] = 0
  PROVE  SumOver(w, S) = 0
<1> DEFINE Bad == {V \in SUBSET S : SumOver(w, V) # 0}
<1>1. SUFFICES ASSUME Bad # {} PROVE FALSE
  OBVIOUS
<1>2. PICK V \in Bad : \A X \in Bad : X \subseteq V => X = V
  <2>1. Bad \in SUBSET (SUBSET S)
    OBVIOUS
  <2> HIDE DEF Bad
  <2> QED BY <1>1, <2>1, LeastSet
<1>3. V \in SUBSET S /\ IsFiniteSet(V)
  BY FS_Subset
<1>4. SumOver(w, V) = IF V = {} THEN 0 ELSE w[Pick(V)] + SumOver(w, Rest(V))
  BY <1>3, SumStep
<1>5. CASE V = {}
  BY <1>4, <1>5
<1>6. CASE V # {}
  <2>1. Pick(V) \in V /\ Rest(V) \in SUBSET S /\ Rest(V) \notin Bad
    BY <1>2, <1>3, <1>6, RestIsLess
  <2> QED BY <1>3, <1>4, <1>6, <2>1
<1> QED BY <1>5, <1>6

LEMMA SumType ==
  ASSUME NEW w, NEW S, IsFiniteSet(S), \A k \in S : w[k] \in Int
  PROVE  SumOver(w, S) \in Int
<1> DEFINE Bad == {V \in SUBSET S : SumOver(w, V) \notin Int}
<1>1. SUFFICES ASSUME Bad # {} PROVE FALSE
  OBVIOUS
<1>2. PICK V \in Bad : \A X \in Bad : X \subseteq V => X = V
  <2>1. Bad \in SUBSET (SUBSET S)
    OBVIOUS
  <2> HIDE DEF Bad
  <2> QED BY <1>1, <2>1, LeastSet
<1>3. V \in SUBSET S /\ IsFiniteSet(V)
  BY FS_Subset
<1>4. SumOver(w, V) = IF V = {} THEN 0 ELSE w[Pick(V)] + SumOver(w, Rest(V))
  BY <1>3, SumStep
<1>5. CASE V = {}
  BY <1>4, <1>5
<1>6. CASE V # {}
  <2>1. Pick(V) \in V /\ Rest(V) \in SUBSET S /\ Rest(V) \notin Bad
    BY <1>2, <1>3, <1>6, RestIsLess
  <2> QED BY <1>3, <1>4, <1>6, <2>1
<1> QED BY <1>5, <1>6

\* The order in which a sum takes its elements does not matter.
LEMMA SumWithout ==
  ASSUME NEW w, NEW S, IsFiniteSet(S), \A k \in S : w[k] \in Int, NEW a \in S
  PROVE  SumOver(w, S) = w[a] + SumOver(w, S \ {a})
<1> DEFINE Bad == {V \in SUBSET S : \E x \in V : SumOver(w, V) # w[x] + SumOver(w, V \ {x})}
<1>1. SUFFICES ASSUME Bad # {} PROVE FALSE
  OBVIOUS
<1>2. PICK V \in Bad : \A X \in Bad : X \subseteq V => X = V
  <2>1. Bad \in SUBSET (SUBSET S)
    OBVIOUS
  <2> HIDE DEF Bad
  <2> QED BY <1>1, <2>1, LeastSet
<1>3. PICK x \in V : SumOver(w, V) # w[x] + SumOver(w, V \ {x})
  OBVIOUS
<1> DEFINE p == Pick(V)
           both == V \ {p, x}
<1>4. /\ V \in SUBSET S /\ V # {} /\ p \in V
      /\ IsFiniteSet(V) /\ IsFiniteSet(V \ {x}) /\ IsFiniteSet(V \ {p}) /\ IsFiniteSet(both)
  <2>1. V \in SUBSET S /\ V # {}
    OBVIOUS
  <2>2. p \in V
    BY <2>1, RestIsLess
  <2> QED BY <2>1, <2>2, FS_Subset
<1>5. SumOver(w, V) = w[p] + SumOver(w, V \ {p})
  BY <1>4, SumStep DEF Rest
<1>6. p # x
  BY <1>3, <1>5
<1>7. SumOver(w, V \ {p}) = w[x] + SumOver(w, both)
  <2>1. V \ {p} \in SUBSET S /\ V \ {p} # V /\ x \in V \ {p}
    BY <1>4, <1>6
  <2>2. V \ {p} \notin Bad
    BY <1>2, <2>1
  <2>3. (V \ {p}) \ {x} = both
    OBVIOUS
  <2> QED BY <2>1, <2>2, <2>3
<1>8. SumOver(w, V \ {x}) = w[p] + SumOver(w, both)
  <2>1. V \ {x} \in SUBSET S /\ V \ {x} # V /\ p \in V \ {x}
    BY <1>4, <1>6
  <2>2. V \ {x} \notin Bad
    BY <1>2, <2>1
  <2>3. (V \ {x}) \ {p} = both
    OBVIOUS
  <2> QED BY <2>1, <2>2, <2>3
<1>9. SumOver(w, both) \in Int /\ w[p] \in Int /\ w[x] \in Int
  <2>1. both \subseteq S /\ p \in S /\ x \in S
    BY <1>4
  <2> QED BY <1>4, <2>1, SumType
<1> HIDE DEF Bad, p, both
<1> QED BY <1>3, <1>5, <1>7, <1>8, <1>9

\* A sum is that of its elements' weights, whatever else is weighed.
LEMMA SumSame ==
  ASSUME NEW w, NEW v, NEW S, IsFiniteSet(S), \A k \in S : w[k] = v[k]
  PROVE  SumOver(w, S) = SumOver(v, S)
<1> DEFINE Bad == {V \in SUBSET S : SumOver(w, V) # SumOver(v, V)}
<1>1. SUFFICES ASSUME Bad # {} PROVE FALSE
  OBVIOUS
<1>2. PICK V \in Bad : \A X \in Bad : X \subseteq V => X = V
  <2>1. Bad \in SUBSET (SUBSET S)
    OBVIOUS
  <2> HIDE DEF Bad
  <2> QED BY <1>1, <2>1, LeastSet
<1>3. V \in SUBSET S /\ IsFiniteSet(V)
  BY FS_Subset
<1>4. /\ SumOver(w, V) = IF V = {} THEN 0 ELSE w[Pick(V)] + SumOver(w, Rest(V))
      /\ SumOver(v, V) = IF V = {} THEN 0 ELSE v[Pick(V)] + SumOver(v, Rest(V))
  BY <1>3, SumStep
<1>5. CASE V = {}
  BY <1>4, <1>5
<1>6. CASE V # {}
  <2>1. Pick(V) \in V /\ Rest(V) \in SUBSET S /\ Rest(V) \notin Bad
    BY <1>2, <1>3, <1>6, RestIsLess
  <2> QED BY <1>3, <1>4, <1>6, <2>1
<1> QED BY <1>5, <1>6

\* One more for one element is one more in all.
LEMMA SumOneMore ==
  ASSUME NEW w, NEW v, NEW S, IsFiniteSet(S), NEW a \in S,
         \A k \in S : w[k] \in Int, v[a] = w[a] + 1, \A k \in S \ {a} : v[k] = w[k]
  PROVE  SumOver(v, S) = SumOver(w, S) + 1
<1>1. IsFiniteSet(S \ {a}) /\ \A k \in S : v[k] \in Int
  BY FS_Subset
<1>2. SumOver(v, S) = v[a] + SumOver(v, S \ {a})
  BY <1>1, SumWithout
<1>3. SumOver(w, S) = w[a] + SumOver(w, S \ {a})
  BY SumWithout
<1>4. SumOver(v, S \ {a}) = SumOver(w, S \ {a})
  BY <1>1, SumSame
<1>5. SumOver(w, S \ {a}) \in Int
  BY <1>1, SumType
<1> QED BY <1>2, <1>3, <1>4, <1>5

-----------------------------------------------------------------------------
(* Arithmetic and the constants.                                           *)

LEMMA CeilDivCovers ==
  ASSUME NEW d \in Nat, NEW r \in Nat \ {0}
  PROVE  /\ CeilDiv(d, r) \in Nat
         /\ r * CeilDiv(d, r) >= d
         /\ r * CeilDiv(d, r) < d + r
  BY SMT DEF CeilDiv

\* The quotient is the least number of refills that covers the deficit.
LEMMA CeilDivLeast ==
  ASSUME NEW d \in Nat, NEW r \in Nat \ {0}, NEW n \in Nat
  PROVE  r * n >= d <=> n >= CeilDiv(d, r)
<1> DEFINE q == CeilDiv(d, r)
<1>1. q \in Nat /\ r * q >= d /\ r * q < d + r
  BY CeilDivCovers
<1> HIDE DEF q
<1>2. ASSUME n >= q PROVE r * n >= d
  <2>1. PICK e \in Nat : n = q + e
    BY <1>1, <1>2, n - q \in Nat
  <2>2. r * n = r * q + r * e /\ r * e \in Nat
    BY <1>1, <2>1
  <2> QED BY <1>1, <2>2
<1>3. ASSUME n < q PROVE r * n < d
  <2>1. PICK e \in Nat : q = n + 1 + e
    BY <1>1, <1>3, q - n - 1 \in Nat
  <2>2. r * q = r * n + r + r * e /\ r * e \in Nat /\ r * n \in Nat
    BY <1>1, <2>1
  <2> QED BY <1>1, <2>2
<1> QED BY <1>1, <1>2, <1>3 DEF q

LEMMA OneMoreRefill ==
  ASSUME NEW r \in Nat, NEW n \in Nat
  PROVE  r * (n + 1) = r * n + r /\ r * n \in Nat
  OBVIOUS

LEMMA KeyConnectorAndScope ==
  ASSUME NEW k \in Key
  PROVE  k[2] \in Connector /\ k[1] \in Scope
  BY DEF Key, Touched, Scopes, Scope

\* Every bucket refills, and a full one has at least one token.
LEMMA RateAndCap ==
  ASSUME NEW k \in Key
  PROVE  /\ Rate[k] \in Nat \ {0}
         /\ Cap[k] \in Nat
         /\ Cap[k] >= Minute
<1>1. Rate[k] \in Nat \ {0}
  BY KeyConnectorAndScope, RpmAssumption DEF Rate
<1>2. Cap[k] = Rate[k] * BurstUnits
  BY DEF Cap
<1>3. PICK r \in Nat : Rate[k] = r + 1
  BY <1>1, Rate[k] - 1 \in Nat
<1>4. r * BurstUnits \in Nat /\ Cap[k] = r * BurstUnits + BurstUnits
  BY <1>2, <1>3, BurstAssumption
<1> QED BY <1>1, <1>4, BurstAssumption, MinuteAssumption

LEMMA TouchedKeys ==
  ASSUME NEW S \in Query, NEW t \in Tenant, NEW u \in User
  PROVE  Touched(S, t, u) \subseteq Key
<1>1. Touched(S, t, u) \subseteq Touched(Connector, t, u)
  BY DEF Touched, Query
<1>2. Touched(Connector, t, u) \subseteq Key
  BY DEF Key
<1> QED BY <1>1, <1>2

LEMMA NewBucketPresent == ASSUME NEW b \in Bucket PROVE b # Absent
  BY AbsentAssumption DEF Bucket

-----------------------------------------------------------------------------
(* The inductive invariant.                                                *)

\* What bounds a window: what a bucket gave and what it still holds come from
\* its capacity and from the refills of the window.
WindowInv ==
  /\ windowStart <= now
  /\ \A k \in Key :
       Minute * inWindow[k] + Level(k) <= Cap[k] + Rate[k] * (now - windowStart)

\* What a pending refusal says: its bucket lacked a token, the hint covers what
\* it lacked, and since then the bucket has only refilled.
HintInv ==
  refusal # NoRefusal =>
    LET r == refusal
    IN  /\ r.key \in r.call
        /\ r.at <= now
        /\ \E held \in Nat :
             /\ held < Minute
             /\ r.retry = CeilDiv(Minute - held, Rate[r.key])
             /\ Level(r.key) = AtMost(Cap[r.key], held + Rate[r.key] * (now - r.at))

IInv == TypeOK /\ BucketBounds /\ WindowInv /\ HintInv

\* A bucket that is found or created is within its bounds, and so is its level.
LEMMA LevelBounds ==
  ASSUME TypeOK, BucketBounds, NEW k \in Key
  PROVE  /\ Created(k) \in Bucket
         /\ Created(k).tokens \in 0..Cap[k]
         /\ Created(k).last <= now
         /\ Level(k) \in 0..Cap[k]
<1>1. CASE buckets[k] = Absent
  <2>1. Created(k) = [tokens |-> Cap[k], last |-> now]
    BY <1>1 DEF Created, NewBucket
  <2>2. Level(k) = AtMost(Cap[k], Cap[k] + Rate[k] * (now - now))
    BY <2>1 DEF Level, Refilled
  <2> QED BY <2>1, <2>2, RateAndCap DEF AtMost, TypeOK, Bucket
<1>2. CASE buckets[k] # Absent
  <2>1. /\ Created(k) = buckets[k] /\ Created(k) \in Bucket
        /\ Created(k).tokens \in 0..Cap[k] /\ Created(k).last <= now
    BY <1>2 DEF Created, TypeOK, BucketBounds
  <2>2. now - Created(k).last \in Nat /\ Rate[k] * (now - Created(k).last) \in Nat
    BY <2>1, RateAndCap DEF TypeOK, Bucket
  <2> QED BY <2>1, <2>2, RateAndCap DEF Level, Refilled, AtMost, Bucket
<1> QED BY <1>1, <1>2

LEMMA AvailableIsLevel ==
  ASSUME NEW k \in Key PROVE Available(k) <=> Level(k) >= Minute
  BY DEF Available, Level

\* Refilling is idempotent: a bucket just refilled has its level.
LEMMA RefilledNow ==
  ASSUME NEW k \in Key, NEW n \in Int, n <= Cap[k],
         now \in Nat
  PROVE  Refilled(k, [tokens |-> n, last |-> now], now) = n
<1>1. Rate[k] * (now - now) = 0
  BY RateAndCap
<1> QED BY <1>1, RateAndCap DEF Refilled, AtMost

-----------------------------------------------------------------------------
(* What each action does to the buckets and to their levels.               *)

LEMMA AcquireLevels ==
  ASSUME TypeOK, BucketBounds,
         NEW S \in Query, NEW t \in Tenant, NEW u \in User, Acquire(S, t, u),
         NEW k \in Key
  PROVE  /\ buckets'[k] # Absent =>
              /\ buckets'[k] \in Bucket
              /\ buckets'[k].tokens \in 0..Cap[k]
              /\ buckets'[k].last <= now
         /\ k \in Touched(S, t, u) => Level(k) >= Minute
         /\ Level(k)' = IF k \in Touched(S, t, u) THEN Level(k) - Minute ELSE Level(k)
<1>1. now' = now /\ now \in Nat /\ Level(k) \in 0..Cap[k] /\ Cap[k] \in Nat
  BY LevelBounds, RateAndCap DEF Acquire, TypeOK
<1>2. CASE k \in Touched(S, t, u)
  <2>1. Level(k) >= Minute
    BY <1>2, AvailableIsLevel DEF Acquire
  <2>2. buckets'[k] = [tokens |-> Level(k) - Minute, last |-> now]
    BY <1>2 DEF Acquire, Consume, Refill, Level
  <2>3. buckets'[k] \in Bucket /\ buckets'[k].tokens \in 0..Cap[k]
    BY <1>1, <2>1, <2>2, MinuteAssumption DEF Bucket
  <2>4. Level(k)' = Level(k) - Minute
    <3>1. Created(k)' = [tokens |-> Level(k) - Minute, last |-> now]
      BY <2>2, <2>3, NewBucketPresent DEF Created
    <3> DEFINE n == Level(k) - Minute
    <3>2. n \in Int /\ n <= Cap[k]
      BY <1>1, MinuteAssumption
    <3>3. Level(k)' = Refilled(k, [tokens |-> n, last |-> now], now)
      BY <1>1, <3>1 DEF Level, Refilled
    <3> HIDE DEF n
    <3>4. Level(k)' = n
      BY <1>1, <3>2, <3>3, RefilledNow
    <3> QED BY <3>4 DEF n
  <2> QED BY <1>1, <1>2, <2>1, <2>2, <2>3, <2>4
<1>3. CASE k \notin Touched(S, t, u)
  <2>1. buckets'[k] = buckets[k]
    BY <1>3 DEF Acquire
  <2>2. Level(k)' = Level(k)
    BY <1>1, <2>1 DEF Level, Created, Refilled, NewBucket
  <2> QED BY <1>1, <1>3, <2>1, <2>2 DEF TypeOK, BucketBounds
<1> QED BY <1>2, <1>3

LEMMA RefuseLevels ==
  ASSUME TypeOK, BucketBounds,
         NEW S \in Query, NEW t \in Tenant, NEW u \in User, Refuse(S, t, u),
         NEW k \in Key
  PROVE  /\ buckets'[k] # Absent =>
              /\ buckets'[k] \in Bucket
              /\ buckets'[k].tokens \in 0..Cap[k]
              /\ buckets'[k].last <= now
         /\ Level(k)' = Level(k)
<1>1. now' = now /\ now \in Nat /\ Level(k) \in 0..Cap[k] /\ Cap[k] \in Nat
  BY LevelBounds, RateAndCap DEF Refuse, TypeOK
<1>2. \/ buckets'[k] = buckets[k]
      \/ buckets'[k] = Created(k)
      \/ buckets'[k] = Refill(k, Created(k))
  BY DEF Refuse
<1>3. CASE buckets'[k] = buckets[k]
  <2>1. Level(k)' = Level(k)
    BY <1>1, <1>3 DEF Level, Created, Refilled, NewBucket
  <2> QED BY <1>3, <2>1 DEF TypeOK, BucketBounds
<1>4. CASE buckets'[k] = Created(k)
  <2>1. Created(k)' = Created(k)
    BY <1>1, <1>4, LevelBounds, NewBucketPresent DEF Created
  <2>2. Level(k)' = Level(k)
    BY <1>1, <2>1 DEF Level, Refilled
  <2> QED BY <1>4, <2>2, LevelBounds
<1>5. CASE buckets'[k] = Refill(k, Created(k))
  <2>1. buckets'[k] = [tokens |-> Level(k), last |-> now]
    BY <1>5 DEF Refill, Level
  <2>2. buckets'[k] \in Bucket /\ buckets'[k].tokens \in 0..Cap[k]
    BY <1>1, <2>1 DEF Bucket
  <2>3. Created(k)' = [tokens |-> Level(k), last |-> now]
    BY <2>1, <2>2, NewBucketPresent DEF Created
  <2>4. Level(k)' = Refilled(k, [tokens |-> Level(k), last |-> now], now)
    BY <1>1, <2>3 DEF Level, Refilled
  <2>5. Level(k)' = Level(k)
    BY <1>1, <2>4, RefilledNow
  <2> QED BY <1>1, <2>1, <2>2, <2>5
<1> QED BY <1>2, <1>3, <1>4, <1>5

\* A tick refills every bucket as if somebody had looked at it.
LEMMA TickLevels ==
  ASSUME TypeOK, BucketBounds, Tick, NEW k \in Key
  PROVE  Level(k)' = AtMost(Cap[k], Level(k) + Rate[k])
<1>1. now' = now + 1 /\ now \in Nat /\ buckets' = buckets
  BY DEF Tick, TypeOK
<1>2. Rate[k] \in Nat /\ Cap[k] \in Nat
  BY RateAndCap
<1>3. CASE buckets[k] = Absent
  <2>1. Level(k)' = AtMost(Cap[k], Cap[k] + Rate[k] * ((now + 1) - (now + 1)))
    BY <1>1, <1>3 DEF Level, Refilled, Created, NewBucket
  <2>2. Level(k) = AtMost(Cap[k], Cap[k] + Rate[k] * (now - now))
    BY <1>3 DEF Level, Refilled, Created, NewBucket
  <2>3. Rate[k] * ((now + 1) - (now + 1)) = 0 /\ Rate[k] * (now - now) = 0
    BY <1>1, <1>2
  <2> QED BY <1>2, <2>1, <2>2, <2>3 DEF AtMost
<1>4. CASE buckets[k] # Absent
  <2> DEFINE b == buckets[k]
  <2>1. b \in Bucket /\ b.tokens \in 0..Cap[k] /\ b.last <= now
    BY <1>4 DEF TypeOK, BucketBounds
  <2>2. PICK e \in Nat : now = b.last + e
    BY <1>1, <2>1, now - b.last \in Nat DEF Bucket
  <2>3. now - b.last = e /\ (now + 1) - b.last = e + 1
    BY <2>1, <2>2 DEF Bucket
  <2>4. Level(k) = AtMost(Cap[k], b.tokens + Rate[k] * e)
    BY <1>4, <2>3 DEF Level, Refilled, Created
  <2>5. Level(k)' = AtMost(Cap[k], b.tokens + Rate[k] * (e + 1))
    BY <1>1, <1>4, <2>3 DEF Level, Refilled, Created
  <2>6. Rate[k] * (e + 1) = Rate[k] * e + Rate[k] /\ Rate[k] * e \in Nat
    BY <1>2
  <2> HIDE DEF b
  <2> QED BY <1>2, <2>1, <2>4, <2>5, <2>6 DEF AtMost
<1> QED BY <1>3, <1>4

LEMMA ResetLevels ==
  ASSUME TypeOK, Reset, NEW k \in Key
  PROVE  Level(k)' = Cap[k]
<1>1. now' = now /\ now \in Nat /\ buckets'[k] = Absent
  BY DEF Reset, TypeOK
<1>2. Level(k)' = AtMost(Cap[k], Cap[k] + Rate[k] * (now - now))
  BY <1>1 DEF Level, Refilled, Created, NewBucket
<1>3. Rate[k] * (now - now) = 0
  BY <1>1, RateAndCap
<1> QED BY <1>2, <1>3, RateAndCap DEF AtMost

-----------------------------------------------------------------------------
(* Type correctness and the bounds of the buckets.                         *)

LEMMA InitInv == Init => IInv
<1> SUFFICES ASSUME Init PROVE IInv
  OBVIOUS
<1>1. TypeOK
  BY DEF Init, TypeOK, Refusals
<1>2. BucketBounds /\ HintInv
  BY DEF Init, BucketBounds, HintInv
<1>3. WindowInv
  <2> SUFFICES ASSUME NEW k \in Key
               PROVE  Minute * inWindow[k] + Level(k) <= Cap[k] + Rate[k] * (now - windowStart)
    BY DEF Init, WindowInv
  <2>1. inWindow[k] = 0 /\ now - windowStart = 0 /\ Level(k) \in 0..Cap[k] /\ Cap[k] \in Nat
    BY <1>1, <1>2, LevelBounds, RateAndCap DEF Init
  <2>2. Minute * 0 = 0 /\ Rate[k] * 0 = 0
    BY MinuteAssumption, RateAndCap
  <2> QED BY <2>1, <2>2
<1> QED BY <1>1, <1>2, <1>3 DEF IInv

LEMMA RetryIsNat ==
  ASSUME TypeOK, BucketBounds, NEW k \in Key, ~Available(k)
  PROVE  /\ Level(k) \in Nat /\ Level(k) < Minute
         /\ RetryAfter(k, Refill(k, Created(k))) = CeilDiv(Minute - Level(k), Rate[k])
         /\ RetryAfter(k, Refill(k, Created(k))) \in Nat
<1>1. Level(k) \in Nat /\ Level(k) < Minute
  BY LevelBounds, RateAndCap, AvailableIsLevel, MinuteAssumption
<1>2. Refill(k, Created(k)).tokens = Level(k)
  BY DEF Refill, Level
<1>3. RetryAfter(k, Refill(k, Created(k))) = CeilDiv(Minute - Level(k), Rate[k])
  BY <1>1, <1>2, MinuteAssumption DEF RetryAfter
<1>4. Minute - Level(k) \in Nat
  BY <1>1, MinuteAssumption
<1> QED BY <1>1, <1>3, <1>4, CeilDivCovers, RateAndCap

LEMMA NextTypeAndBounds ==
  ASSUME TypeOK, BucketBounds, [Next]_vars
  PROVE  TypeOK' /\ BucketBounds'
<1>1. ASSUME NEW S \in Query, NEW t \in Tenant, NEW u \in User, Acquire(S, t, u)
      PROVE  TypeOK' /\ BucketBounds'
  <2>1. \A k \in Key : buckets'[k] # Absent =>
          /\ buckets'[k] \in Bucket
          /\ buckets'[k].tokens \in 0..Cap[k]
          /\ buckets'[k].last <= now
    BY <1>1, AcquireLevels
  <2>2. buckets' \in [Key -> Bucket \cup {Absent}]
    BY <1>1, <2>1 DEF Acquire
  <2>3. inWindow' \in [Key -> Nat]
    BY <1>1 DEF Acquire, TypeOK
  <2>4. refusal' \in Refusals
    BY <1>1 DEF Acquire, TypeOK, Refusals
  <2>5. now' = now /\ windowStart' = windowStart
    BY <1>1 DEF Acquire
  <2> QED BY <2>1, <2>2, <2>3, <2>4, <2>5 DEF TypeOK, BucketBounds
<1>2. ASSUME NEW S \in Query, NEW t \in Tenant, NEW u \in User, Refuse(S, t, u)
      PROVE  TypeOK' /\ BucketBounds'
  <2>1. \A k \in Key : buckets'[k] # Absent =>
          /\ buckets'[k] \in Bucket
          /\ buckets'[k].tokens \in 0..Cap[k]
          /\ buckets'[k].last <= now
    BY <1>2, RefuseLevels
  <2>2. DOMAIN buckets' = Key /\ buckets' = [j \in Key |-> buckets'[j]]
    BY <1>2 DEF Refuse
  <2>3. buckets' \in [Key -> Bucket \cup {Absent}]
    BY <2>1, <2>2
  <2>4. refusal' \in Refusals
    <3>1. PICK k \in Touched(S, t, u) :
            /\ ~Available(k)
            /\ refusal' = [call |-> Touched(S, t, u), key |-> k, at |-> now,
                           retry |-> RetryAfter(k, Refill(k, Created(k)))]
      BY <1>2 DEF Refuse
    <3>2. Touched(S, t, u) \subseteq Key /\ k \in Key
      BY TouchedKeys, <3>1
    <3>3. RetryAfter(k, Refill(k, Created(k))) \in Nat
      BY <3>1, <3>2, RetryIsNat
    <3> QED BY <3>1, <3>2, <3>3 DEF Refusals, TypeOK
  <2>5. now' = now /\ windowStart' = windowStart /\ inWindow' = inWindow
    BY <1>2 DEF Refuse
  <2> QED BY <2>1, <2>3, <2>4, <2>5 DEF TypeOK, BucketBounds
<1>3. ASSUME Tick PROVE TypeOK' /\ BucketBounds'
  BY <1>3 DEF Tick, TypeOK, BucketBounds, Bucket
<1>4. ASSUME Reset PROVE TypeOK' /\ BucketBounds'
  BY <1>4 DEF Reset, TypeOK, BucketBounds, Refusals
<1>5. ASSUME OpenWindow PROVE TypeOK' /\ BucketBounds'
  BY <1>5 DEF OpenWindow, TypeOK, BucketBounds
<1>6. ASSUME UNCHANGED vars PROVE TypeOK' /\ BucketBounds'
  BY <1>6 DEF vars, TypeOK, BucketBounds
<1> QED BY <1>1, <1>2, <1>3, <1>4, <1>5, <1>6 DEF Next, TryAcquireMany

\* A stuttering step leaves the levels alone.
LEMMA SameLevels ==
  ASSUME UNCHANGED <<now, buckets>>, NEW k \in Key
  PROVE  Level(k)' = Level(k)
  BY DEF Level, Created, Refilled, NewBucket

-----------------------------------------------------------------------------
(* The bound on a window.                                                  *)

LEMMA NextWindow ==
  ASSUME TypeOK, BucketBounds, WindowInv, [Next]_vars
  PROVE  WindowInv'
<1> DEFINE Spent(k) == Minute * inWindow[k] + Level(k)
           Earned(k) == Cap[k] + Rate[k] * (now - windowStart)
<1>0. /\ now \in Nat /\ windowStart \in Nat /\ windowStart <= now
      /\ \A k \in Key : /\ inWindow[k] \in Nat /\ Level(k) \in Nat
                         /\ Rate[k] \in Nat /\ Cap[k] \in Nat
                         /\ Level(k) <= Cap[k]
                         /\ Minute * inWindow[k] \in Nat
                         /\ Spent(k) <= Earned(k)
  BY LevelBounds, RateAndCap, MinuteAssumption DEF TypeOK, WindowInv
<1>1. ASSUME NEW S \in Query, NEW t \in Tenant, NEW u \in User, Acquire(S, t, u)
      PROVE  WindowInv'
  <2>1. now' = now /\ windowStart' = windowStart
    BY <1>1 DEF Acquire
  <2>2. ASSUME NEW k \in Key PROVE Spent(k)' = Spent(k)
    <3>1. CASE k \in Touched(S, t, u)
      <4>1. Level(k)' = Level(k) - Minute /\ inWindow'[k] = inWindow[k] + 1
        BY <1>1, <3>1, AcquireLevels DEF Acquire
      <4>2. Minute * (inWindow[k] + 1) = Minute * inWindow[k] + Minute
        BY <1>0, MinuteAssumption
      <4> QED BY <1>0, <4>1, <4>2, MinuteAssumption
    <3>2. CASE k \notin Touched(S, t, u)
      BY <1>1, <3>2, AcquireLevels DEF Acquire
    <3> QED BY <3>1, <3>2
  <2> QED BY <1>0, <2>1, <2>2 DEF WindowInv
<1>2. ASSUME NEW S \in Query, NEW t \in Tenant, NEW u \in User, Refuse(S, t, u)
      PROVE  WindowInv'
  <2>1. now' = now /\ windowStart' = windowStart /\ inWindow' = inWindow
    BY <1>2 DEF Refuse
  <2>2. \A k \in Key : Level(k)' = Level(k)
    BY <1>2, RefuseLevels
  <2> QED BY <1>0, <2>1, <2>2 DEF WindowInv
<1>3. ASSUME Tick PROVE WindowInv'
  <2>1. now' = now + 1 /\ windowStart' = windowStart /\ inWindow' = inWindow
    BY <1>3 DEF Tick
  <2>2. ASSUME NEW k \in Key PROVE Spent(k)' <= Earned(k)'
    <3>1. Level(k)' <= Level(k) + Rate[k]
      BY <1>0, <1>3, TickLevels DEF AtMost
    <3>2. Level(k)' \in Nat
      BY <1>0, <1>3, TickLevels DEF AtMost
    <3>3. PICK w \in Nat : now = windowStart + w
      BY <1>0, now - windowStart \in Nat
    <3>4. now - windowStart = w /\ now' - windowStart' = w + 1
      BY <1>0, <2>1, <3>3
    <3>5. Rate[k] * (w + 1) = Rate[k] * w + Rate[k] /\ Rate[k] * w \in Nat
      BY <3>3, RateAndCap, OneMoreRefill
    <3> QED BY <1>0, <2>1, <3>1, <3>2, <3>4, <3>5
  <2> QED BY <1>0, <2>1, <2>2 DEF WindowInv
<1>4. ASSUME windowStart' = now, now' = now, inWindow' = [k \in Key |-> 0],
             \A k \in Key : Level(k)' \in 0..Cap[k]
      PROVE  WindowInv'
  <2>1. ASSUME NEW k \in Key PROVE Spent(k)' <= Earned(k)'
    <3>1. inWindow'[k] = 0 /\ now' - windowStart' = 0
      BY <1>0, <1>4
    <3>2. Minute * 0 = 0 /\ Rate[k] * 0 = 0
      BY <1>0, MinuteAssumption
    <3> QED BY <1>0, <1>4, <3>1, <3>2
  <2> QED BY <1>0, <1>4, <2>1 DEF WindowInv
<1>5. ASSUME Reset PROVE WindowInv'
  <2>1. \A k \in Key : Level(k)' \in 0..Cap[k]
    BY <1>0, <1>5, ResetLevels
  <2> QED BY <1>4, <1>5, <2>1 DEF Reset
<1>6. ASSUME OpenWindow PROVE WindowInv'
  <2>1. \A k \in Key : Level(k)' \in 0..Cap[k]
    BY <1>0, <1>6, SameLevels DEF OpenWindow
  <2> QED BY <1>4, <1>6, <2>1 DEF OpenWindow
<1>7. ASSUME UNCHANGED vars PROVE WindowInv'
  <2>1. \A k \in Key : Level(k)' = Level(k)
    BY <1>7, SameLevels DEF vars
  <2> QED BY <1>0, <1>7, <2>1 DEF vars, WindowInv
<1> QED BY <1>1, <1>2, <1>3, <1>5, <1>6, <1>7 DEF Next, TryAcquireMany

-----------------------------------------------------------------------------
(* The retry hint.                                                         *)

LEMMA NextHint ==
  ASSUME TypeOK, BucketBounds, HintInv, [Next]_vars
  PROVE  HintInv'
<1> DEFINE HeldSo(r, h, lev, n) ==
             /\ h < Minute
             /\ r.retry = CeilDiv(Minute - h, Rate[r.key])
             /\ lev = AtMost(Cap[r.key], h + Rate[r.key] * (n - r.at))
<1>0. now \in Nat
  BY DEF TypeOK
<1>1. ASSUME refusal # NoRefusal
      PROVE  /\ refusal.key \in Key /\ refusal.at \in Nat
             /\ refusal.key \in refusal.call /\ refusal.at <= now
             /\ \E h \in Nat : HeldSo(refusal, h, Level(refusal.key), now)
  BY <1>1 DEF TypeOK, Refusals, HintInv
<1>2. ASSUME now' = now, refusal' = refusal,
             refusal # NoRefusal => Level(refusal.key)' = Level(refusal.key)
      PROVE  HintInv'
  <2> SUFFICES ASSUME refusal # NoRefusal PROVE HintInv'
    BY <1>2 DEF HintInv
  <2>1. PICK h \in Nat : HeldSo(refusal, h, Level(refusal.key), now)
    BY <1>1
  <2>2. HeldSo(refusal', h, Level(refusal.key)', now')
    BY <1>2, <2>1
  <2>3. refusal'.key \in refusal'.call /\ refusal'.at <= now'
    BY <1>1, <1>2
  <2> QED BY <1>2, <2>2, <2>3 DEF HintInv
<1>3. ASSUME refusal' = NoRefusal PROVE HintInv'
  BY <1>3 DEF HintInv
<1>4. ASSUME NEW S \in Query, NEW t \in Tenant, NEW u \in User, Acquire(S, t, u)
      PROVE  HintInv'
  <2>1. CASE refusal # NoRefusal /\ refusal.call \cap Touched(S, t, u) # {}
    BY <1>3, <1>4, <2>1 DEF Acquire
  <2>2. CASE ~(refusal # NoRefusal /\ refusal.call \cap Touched(S, t, u) # {})
    <3>1. now' = now /\ refusal' = refusal
      BY <1>4, <2>2 DEF Acquire
    <3>2. ASSUME refusal # NoRefusal PROVE Level(refusal.key)' = Level(refusal.key)
      <4>1. PICK k \in Key : k = refusal.key /\ k \notin Touched(S, t, u)
        BY <1>1, <2>2, <3>2
      <4>2. Level(k)' = Level(k)
        BY <1>4, <4>1, AcquireLevels
      <4> QED BY <3>1, <4>1, <4>2
    <3> QED BY <1>2, <3>1, <3>2
  <2> QED BY <2>1, <2>2
<1>5. ASSUME NEW S \in Query, NEW t \in Tenant, NEW u \in User, Refuse(S, t, u)
      PROVE  HintInv'
  <2>1. PICK k \in Touched(S, t, u) :
          /\ ~Available(k)
          /\ refusal' = [call |-> Touched(S, t, u), key |-> k, at |-> now,
                         retry |-> RetryAfter(k, Refill(k, Created(k)))]
    BY <1>5 DEF Refuse
  <2>2. k \in Key /\ now' = now
    BY <1>5, <2>1, TouchedKeys DEF Refuse
  <2>3. /\ refusal'.key = k /\ refusal'.at = now /\ k \in refusal'.call
        /\ refusal'.retry = CeilDiv(Minute - Level(k), Rate[k])
        /\ Level(k) \in Nat /\ Level(k) < Minute
    BY <2>1, <2>2, RetryIsNat
  <2>4. Level(k)' = AtMost(Cap[k], Level(k) + Rate[k] * (now' - refusal'.at))
    <3>1. Level(k)' = Level(k) /\ Level(k) \in 0..Cap[k] /\ Cap[k] \in Nat
      BY <1>5, <2>2, RefuseLevels, LevelBounds, RateAndCap
    <3>2. Rate[k] * (now' - refusal'.at) = 0
      BY <1>0, <2>2, <2>3, RateAndCap
    <3> QED BY <3>1, <3>2 DEF AtMost
  <2>5. HeldSo(refusal', Level(k), Level(k)', now')
    BY <2>3, <2>4
  <2>6. refusal'.key \in refusal'.call /\ refusal'.at <= now'
    BY <1>0, <2>2, <2>3
  <2> QED BY <2>3, <2>5, <2>6 DEF HintInv
<1>6. ASSUME Tick PROVE HintInv'
  <2> SUFFICES ASSUME refusal # NoRefusal PROVE HintInv'
    BY <1>3, <1>6 DEF Tick
  <2>0. PICK k \in Key : k = refusal.key
    BY <1>1
  <2>1. PICK h \in Nat : HeldSo(refusal, h, Level(k), now)
    BY <1>1, <2>0
  <2>2. now' = now + 1 /\ refusal' = refusal
    BY <1>6 DEF Tick
  <2>3. PICK e \in Nat : now = refusal.at + e
    BY <1>0, <1>1, now - refusal.at \in Nat
  <2>4. now - refusal.at = e /\ now' - refusal'.at = e + 1 /\ refusal'.at <= now'
    BY <1>0, <1>1, <2>2, <2>3
  <2>5. Rate[k] \in Nat /\ Cap[k] \in Nat /\ Rate[k] * e \in Nat
        /\ Rate[k] * (e + 1) = Rate[k] * e + Rate[k]
    BY <2>3, RateAndCap
  <2>6. Level(k)' = AtMost(Cap[k], Level(k) + Rate[k])
    BY <1>6, TickLevels
  <2>7. Level(k)' = AtMost(Cap[k], h + Rate[k] * (e + 1))
    <3>1. Level(k) = AtMost(Cap[k], h + Rate[k] * e)
      BY <2>0, <2>1, <2>4
    <3> QED BY <2>1, <2>5, <2>6, <3>1 DEF AtMost
  <2>8. HeldSo(refusal', h, Level(k)', now')
    BY <2>0, <2>1, <2>2, <2>4, <2>7
  <2>9. refusal'.key = k /\ refusal'.key \in refusal'.call
    BY <1>1, <2>0, <2>2
  <2> QED BY <2>2, <2>4, <2>8, <2>9 DEF HintInv
<1>7. ASSUME Reset PROVE HintInv'
  BY <1>3, <1>7 DEF Reset
<1>8. ASSUME OpenWindow \/ UNCHANGED vars PROVE HintInv'
  <2>1. UNCHANGED <<now, buckets, refusal>>
    BY <1>8 DEF OpenWindow, vars
  <2> QED BY <1>1, <1>2, <2>1, SameLevels
<1> QED BY <1>4, <1>5, <1>6, <1>7, <1>8 DEF Next, TryAcquireMany

\* The hint of a pending refusal is exact.
LEMMA HintIsExact == TypeOK /\ BucketBounds /\ HintInv => RetryHintExact
<1> SUFFICES ASSUME TypeOK, BucketBounds, HintInv, refusal # NoRefusal
             PROVE  Level(refusal.key) >= Minute <=> now >= refusal.at + refusal.retry
  BY DEF RetryHintExact
<1> DEFINE k == refusal.key
<1>1. k \in Key /\ refusal.at \in Nat /\ refusal.retry \in Nat
      /\ now \in Nat /\ refusal.at <= now
  BY DEF TypeOK, Refusals, HintInv
<1>2. PICK h \in Nat : /\ h < Minute
                       /\ refusal.retry = CeilDiv(Minute - h, Rate[k])
                       /\ Level(k) = AtMost(Cap[k], h + Rate[k] * (now - refusal.at))
  BY DEF HintInv
<1>3. PICK e \in Nat : now = refusal.at + e
  BY <1>1, now - refusal.at \in Nat
<1>4. Rate[k] \in Nat \ {0} /\ Cap[k] \in Nat /\ Cap[k] >= Minute
  BY <1>1, RateAndCap
<1>5. Minute - h \in Nat
  BY <1>2, MinuteAssumption
<1>6. Rate[k] * e >= Minute - h <=> e >= refusal.retry
  BY <1>2, <1>3, <1>4, <1>5, CeilDivLeast
<1>7. Rate[k] * e \in Nat /\ now - refusal.at = e
  BY <1>1, <1>3, <1>4
<1>8. Level(k) >= Minute <=> Rate[k] * e >= Minute - h
  BY <1>2, <1>4, <1>7, MinuteAssumption DEF AtMost
<1>9. now >= refusal.at + refusal.retry <=> e >= refusal.retry
  BY <1>1, <1>3
<1> QED BY <1>6, <1>8, <1>9

-----------------------------------------------------------------------------
(* The theorems.                                                           *)

LEMMA NextInv == IInv /\ [Next]_vars => IInv'
  BY NextTypeAndBounds, NextWindow, NextHint DEF IInv

LEMMA SpecInv == Spec => []IInv
<1>1. Init => IInv
  BY InitInv
<1>2. IInv /\ [Next]_vars => IInv'
  BY NextInv
<1> QED BY <1>1, <1>2, PTL DEF Spec

\* The tables and the observers always have their types (ratelimit.py:25-55).
THEOREM TypeCorrect == Spec => []TypeOK
<1>1. IInv => TypeOK
  BY DEF IInv
<1> QED BY <1>1, SpecInv, PTL

\* No order of calls, ticks and resets drives a bucket below zero or above its
\* capacity (_refill and consume, ratelimit.py:34-44).
THEOREM BoundsCorrect == Spec => []BucketBounds
<1>1. IInv => BucketBounds
  BY DEF IInv
<1> QED BY <1>1, SpecInv, PTL

\* In every window of time every bucket gives at most its burst and its refills,
\* for any number of callers and connectors (try_acquire_many).
THEOREM WindowBoundCorrect == Spec => []WindowBound
<1>1. IInv => WindowBound
  <2> SUFFICES ASSUME IInv, NEW k \in Key
               PROVE  Minute * inWindow[k] <= Cap[k] + Rate[k] * (now - windowStart)
    BY DEF WindowBound
  <2>1. Minute * inWindow[k] + Level(k) <= Cap[k] + Rate[k] * (now - windowStart)
    BY DEF IInv, WindowInv
  <2>2. Level(k) \in Nat
    BY LevelBounds, RateAndCap DEF IInv
  <2>3. /\ Minute * inWindow[k] \in Nat
        /\ Cap[k] + Rate[k] * (now - windowStart) \in Int
    BY RateAndCap, MinuteAssumption DEF IInv, TypeOK
  <2> QED BY <2>1, <2>2, <2>3
<1> QED BY <1>1, SpecInv, PTL

\* retry_after_ms is the exact time until the bucket it names has a token, as
\* long as nobody draws on the call's buckets (retry_after_ms, ratelimit.py:46-50).
THEOREM RetryHintCorrect == Spec => []RetryHintExact
<1>1. IInv => RetryHintExact
  BY HintIsExact DEF IInv
<1> QED BY <1>1, SpecInv, PTL

\* "A rejected query consumes no budget" (docstring of try_acquire_many,
\* ratelimit.py:81-84), although it creates and refills buckets.
THEOREM RejectionIsFree == Spec => RejectionConsumesNothing
<1> DEFINE Free == refusal' # refusal /\ refusal' # NoRefusal
                     => \A k \in Key : Level(k)' = Level(k)
<1>1. IInv /\ [Next]_vars => [Free]_vars
  <2> SUFFICES ASSUME TypeOK, BucketBounds, [Next]_vars,
                      refusal' # refusal, refusal' # NoRefusal, NEW k \in Key
               PROVE  Level(k)' = Level(k)
    BY DEF IInv
  <2>1. PICK S \in Query, t \in Tenant, u \in User : Refuse(S, t, u)
    BY DEF Next, TryAcquireMany, Acquire, Tick, Reset, OpenWindow, vars
  <2> QED BY <2>1, RefuseLevels
<1> QED BY <1>1, SpecInv, PTL DEF Spec, RejectionConsumesNothing

\* The lazily refilled buckets implement the ones of Budget: a granted call takes
\* one token from every bucket it touches, a refused one is a stutter.
THEOREM BucketsImplementBudget == Spec => ImplementsBudget
<1> DEFINE level == [k \in Key |-> Level(k)]
<1>1. Init => B!Init
  <2> SUFFICES ASSUME Init, NEW k \in Key PROVE Level(k) = Cap[k]
    BY DEF B!Init, B!Full
  <2>1. Level(k) = AtMost(Cap[k], Cap[k] + Rate[k] * (now - now))
    BY DEF Init, Level, Refilled, Created, NewBucket
  <2>2. Rate[k] * (now - now) = 0
    BY RateAndCap DEF Init
  <2> QED BY <2>1, <2>2, RateAndCap DEF AtMost
<1>2. IInv /\ [Next]_vars => [B!Next]_level
  <2> SUFFICES ASSUME TypeOK, BucketBounds, [Next]_vars PROVE [B!Next]_level
    BY DEF IInv
  <2>1. ASSUME NEW S \in Query, NEW t \in Tenant, NEW u \in User, Acquire(S, t, u)
        PROVE  B!Next
    <3> DEFINE K == Touched(S, t, u)
    <3>1. K \in Demand /\ K \subseteq Key
      BY TouchedKeys DEF Demand
    <3>2. B!CanGrant(level, K)
      BY <2>1, <3>1, AcquireLevels DEF B!CanGrant
    <3>3. level' = B!Charged(level, K)
      BY <2>1, AcquireLevels DEF B!Charged
    <3>4. B!Grant(K)
      BY <3>2, <3>3 DEF B!Grant
    <3> QED BY <3>1, <3>4 DEF B!Next
  <2>2. ASSUME NEW S \in Query, NEW t \in Tenant, NEW u \in User, Refuse(S, t, u)
        PROVE  level' = level
    BY <2>2, RefuseLevels
  <2>3. ASSUME Tick PROVE B!Next
    <3>1. level' = B!Refilled(level)
      BY <2>3, TickLevels DEF B!Refilled, B!AtMost, AtMost
    <3> QED BY <3>1 DEF B!Next, B!Elapse
  <2>4. ASSUME Reset PROVE B!Next
    <3>1. level' = B!Full
      BY <2>4, ResetLevels DEF B!Full
    <3> QED BY <3>1 DEF B!Next, B!Reset
  <2>5. ASSUME OpenWindow \/ UNCHANGED vars PROVE level' = level
    <3>1. UNCHANGED <<now, buckets>>
      BY <2>5 DEF OpenWindow, vars
    <3> QED BY <3>1, SameLevels
  <2> QED BY <2>1, <2>2, <2>3, <2>4, <2>5 DEF Next, TryAcquireMany
<1> QED BY <1>1, <1>2, SpecInv, PTL DEF Spec, ImplementsBudget, B!Spec

-----------------------------------------------------------------------------
(* The nested scopes.                                                      *)

OfTenants(c) == {<<"t", c, t>> : t \in Tenant}
OfUsers(c, t) == {<<"u", c, t, u>> : u \in User}

\* The accounts of the scopes of one connector, given the counts.
AccountsAgree(counts, c) ==
  /\ counts[<<"c", c>>] = SumOver(counts, OfTenants(c))
  /\ \A t \in Tenant : counts[<<"t", c, t>>] = SumOver(counts, OfUsers(c, t))

ScopesAgree == \A c \in Connector : AccountsAgree(inWindow, c)

LEMMA AccountingIs == ScopesAgree => NestedAccounting
  BY DEF ScopesAgree, NestedAccounting, AccountsAgree, SumOver, OfTenants, OfUsers

LEMMA ScopesAreKeys ==
  ASSUME NEW c \in Connector, NEW t \in Tenant, NEW u \in User
  PROVE  <<"c", c>> \in Key /\ <<"t", c, t>> \in Key /\ <<"u", c, t, u>> \in Key
<1>1. Scopes(c, t, u) \subseteq Touched(Connector, t, u)
  BY DEF Touched
<1>2. Touched(Connector, t, u) \subseteq Key
  BY DEF Key
<1> QED BY <1>1, <1>2 DEF Scopes

LEMMA ScopesAreFinite ==
  ASSUME IsFiniteSet(Tenant), IsFiniteSet(User), NEW c \in Connector
  PROVE  /\ IsFiniteSet(OfTenants(c))
         /\ \A t \in Tenant : IsFiniteSet(OfUsers(c, t))
<1>1. IsFiniteSet(OfTenants(c))
  <2> DEFINE f == [t \in Tenant |-> <<"t", c, t>>]
  <2>1. f \in Surjection(Tenant, OfTenants(c))
    BY DEF Surjection, OfTenants
  <2> QED BY <2>1, FS_Surjection
<1>2. ASSUME NEW t \in Tenant
      PROVE  IsFiniteSet(OfUsers(c, t))
  <2> DEFINE f == [u \in User |-> <<"u", c, t, u>>]
  <2>1. f \in Surjection(User, OfUsers(c, t))
    BY DEF Surjection, OfUsers
  <2> QED BY <2>1, FS_Surjection
<1> QED BY <1>1, <1>2

\* Which of a connector's scopes a call touches.
LEMMA TouchedScopes ==
  ASSUME NEW S \in Query, NEW t \in Tenant, NEW u \in User,
         NEW c \in Connector, NEW s \in Tenant, NEW v \in User
  PROVE  /\ <<"c", c>> \in Touched(S, t, u) <=> c \in S
         /\ <<"t", c, s>> \in Touched(S, t, u) <=> c \in S /\ s = t
         /\ <<"u", c, s, v>> \in Touched(S, t, u) <=> c \in S /\ s = t /\ v = u
  BY DEF Touched, Scopes

\* A granted call counts one in each scope of its connectors, and so in the sums.
LEMMA AcquireAccounts ==
  ASSUME TypeOK, IsFiniteSet(Tenant), IsFiniteSet(User),
         NEW S \in Query, NEW t \in Tenant, NEW u \in User, Acquire(S, t, u),
         NEW c \in Connector, AccountsAgree(inWindow, c)
  PROVE  AccountsAgree(inWindow', c)
<1> DEFINE K == Touched(S, t, u)
<1>1. /\ \A k \in Key : inWindow[k] \in Int
      /\ \A k \in Key : inWindow'[k] = IF k \in K THEN inWindow[k] + 1 ELSE inWindow[k]
  BY DEF Acquire, TypeOK
<1>2. /\ OfTenants(c) \subseteq Key /\ <<"c", c>> \in Key
      /\ \A s \in Tenant : OfUsers(c, s) \subseteq Key /\ <<"t", c, s>> \in Key
  BY ScopesAreKeys DEF OfTenants, OfUsers
<1>3. IsFiniteSet(OfTenants(c)) /\ \A s \in Tenant : IsFiniteSet(OfUsers(c, s))
  BY ScopesAreFinite
<1>t. /\ <<"c", c>> \in K <=> c \in S
      /\ \A s \in Tenant : <<"t", c, s>> \in K <=> c \in S /\ s = t
      /\ \A s \in Tenant, x \in User : <<"u", c, s, x>> \in K <=> c \in S /\ s = t /\ x = u
  <2> SUFFICES ASSUME NEW s \in Tenant, NEW x \in User
               PROVE  /\ <<"c", c>> \in K <=> c \in S
                      /\ <<"t", c, s>> \in K <=> c \in S /\ s = t
                      /\ <<"u", c, s, x>> \in K <=> c \in S /\ s = t /\ x = u
    OBVIOUS
  <2> QED BY TouchedScopes
<1> DEFINE w == inWindow
           v == inWindow'
<1> HIDE DEF K, w, v
<1>4. ASSUME NEW X \in SUBSET Key, IsFiniteSet(X)
      PROVE  /\ X \cap K = {} => SumOver(v, X) = SumOver(w, X)
             /\ \A a : X \cap K = {a} => SumOver(v, X) = SumOver(w, X) + 1
  <2>1. /\ \A k \in X : w[k] \in Int
        /\ \A k \in X : v[k] = IF k \in K THEN w[k] + 1 ELSE w[k]
    BY <1>1 DEF w, v
  <2>2. ASSUME X \cap K = {}
        PROVE  SumOver(v, X) = SumOver(w, X)
    <3>1. \A k \in X : v[k] = w[k]
      BY <2>1, <2>2
    <3> QED BY <1>4, <3>1, SumSame
  <2>3. ASSUME NEW a, X \cap K = {a}
        PROVE  SumOver(v, X) = SumOver(w, X) + 1
    <3>1. a \in X /\ v[a] = w[a] + 1 /\ \A k \in X \ {a} : v[k] = w[k]
      BY <2>1, <2>3
    <3> QED BY <1>4, <2>1, <3>1, SumOneMore
  <2> QED BY <2>2, <2>3
<1>5. CASE c \notin S
  <2>1. <<"c", c>> \notin K /\ OfTenants(c) \cap K = {}
    BY <1>5, <1>t DEF OfTenants
  <2>2. SumOver(v, OfTenants(c)) = SumOver(w, OfTenants(c))
    BY <1>2, <1>3, <1>4, <2>1
  <2>3. ASSUME NEW s \in Tenant
        PROVE  v[<<"t", c, s>>] = SumOver(v, OfUsers(c, s))
    <3>1. <<"t", c, s>> \notin K /\ OfUsers(c, s) \cap K = {}
      BY <1>5, <1>t DEF OfUsers
    <3>2. SumOver(v, OfUsers(c, s)) = SumOver(w, OfUsers(c, s))
      BY <1>2, <1>3, <1>4, <3>1
    <3> QED BY <1>1, <1>2, <3>1, <3>2 DEF AccountsAgree, w, v
  <2> QED BY <1>1, <1>2, <2>1, <2>2, <2>3 DEF AccountsAgree, w, v
<1>6. CASE c \in S
  <2>1. <<"c", c>> \in K /\ OfTenants(c) \cap K = {<<"t", c, t>>}
    BY <1>6, <1>t DEF OfTenants
  <2>2. SumOver(v, OfTenants(c)) = SumOver(w, OfTenants(c)) + 1
    BY <1>2, <1>3, <1>4, <2>1
  <2>3. ASSUME NEW s \in Tenant
        PROVE  v[<<"t", c, s>>] = SumOver(v, OfUsers(c, s))
    <3>1. CASE s = t
      <4>1. <<"t", c, t>> \in K /\ OfUsers(c, t) \cap K = {<<"u", c, t, u>>}
        BY <1>6, <1>t DEF OfUsers
      <4>2. SumOver(v, OfUsers(c, t)) = SumOver(w, OfUsers(c, t)) + 1
        BY <1>2, <1>3, <1>4, <4>1
      <4> QED BY <1>1, <1>2, <3>1, <4>1, <4>2 DEF AccountsAgree, w, v
    <3>2. CASE s # t
      <4>1. <<"t", c, s>> \notin K /\ OfUsers(c, s) \cap K = {}
        BY <3>2, <1>t DEF OfUsers
      <4>2. SumOver(v, OfUsers(c, s)) = SumOver(w, OfUsers(c, s))
        BY <1>2, <1>3, <1>4, <4>1
      <4> QED BY <1>1, <1>2, <4>1, <4>2 DEF AccountsAgree, w, v
    <3> QED BY <3>1, <3>2
  <2> QED BY <1>1, <1>2, <2>1, <2>2, <2>3 DEF AccountsAgree, w, v
<1> QED BY <1>5, <1>6

\* A count that begins at zero agrees.
LEMMA NothingGiven ==
  ASSUME IsFiniteSet(Tenant), IsFiniteSet(User), Tenant # {}, User # {}, NEW c \in Connector
  PROVE  AccountsAgree([k \in Key |-> 0], c)
<1> DEFINE zero == [k \in Key |-> 0]
<1>1. /\ OfTenants(c) \subseteq Key /\ <<"c", c>> \in Key
      /\ \A s \in Tenant : OfUsers(c, s) \subseteq Key /\ <<"t", c, s>> \in Key
  BY ScopesAreKeys DEF OfTenants, OfUsers
<1>2. \A k \in Key : zero[k] = 0
  OBVIOUS
<1> HIDE DEF zero
<1>3. SumOver(zero, OfTenants(c)) = 0
  BY <1>1, <1>2, ScopesAreFinite, SumOfZeros
<1>4. \A s \in Tenant : SumOver(zero, OfUsers(c, s)) = 0
  BY <1>1, <1>2, ScopesAreFinite, SumOfZeros
<1>5. AccountsAgree(zero, c)
  BY <1>1, <1>2, <1>3, <1>4 DEF AccountsAgree
<1> QED BY <1>5 DEF zero

\* The nested scopes account alike, for any finite number of tenants and users: in every
\* window a connector's bucket gave what its tenants' buckets gave together, and each of
\* them what its users' did (try_acquire_many takes from all buckets of a call or none,
\* ratelimit.py:96-99).
THEOREM ScopesAccountAlike ==
  ASSUME IsFiniteSet(Tenant), IsFiniteSet(User), Tenant # {}, User # {}
  PROVE  Spec => []NestedAccounting
<1>1. Init => ScopesAgree
  BY NothingGiven DEF Init, ScopesAgree
<1>2. TypeOK /\ ScopesAgree /\ [Next]_vars => ScopesAgree'
  <2> SUFFICES ASSUME TypeOK, ScopesAgree, [Next]_vars, NEW c \in Connector
               PROVE  AccountsAgree(inWindow', c)
    BY DEF ScopesAgree
  <2>1. AccountsAgree(inWindow, c)
    BY DEF ScopesAgree
  <2>2. ASSUME NEW S \in Query, NEW t \in Tenant, NEW u \in User, Acquire(S, t, u)
        PROVE  AccountsAgree(inWindow', c)
    BY <2>1, <2>2, AcquireAccounts
  <2>3. CASE inWindow' = inWindow
    BY <2>1, <2>3
  <2>4. CASE inWindow' = [k \in Key |-> 0]
    BY <2>4, NothingGiven
  <2> QED BY <2>2, <2>3, <2>4
          DEF Next, vars, TryAcquireMany, Refuse, Tick, Reset, OpenWindow
<1> QED BY <1>1, <1>2, AccountingIs, TypeCorrect, PTL DEF Spec
=============================================================================
