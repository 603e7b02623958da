------------------------------- MODULE Budget -------------------------------
(***************************************************************************)
(* What the rate limiter of src/ratelimit.py promises, said without its    *)
(* lazy bookkeeping: every bucket refills by itself as time passes, up to  *)
(* its capacity, and a query is granted by taking one token from every     *)
(* bucket it touches, or from none.                                        *)
(*                                                                         *)
(* Amounts are integers.  A tick is the unit of time and there are Token   *)
(* ticks in a minute; a bucket of rpm tokens a minute gains rpm units a    *)
(* tick, so one token is Token units and no fraction ever arises.          *)
(***************************************************************************)
EXTENDS Integers

CONSTANTS
  Key,     \* the buckets
  Demand,  \* the sets of buckets that a query may touch
  Token,   \* units in one token
  Cap,     \* Cap[k]: units a full bucket k holds
  Rate     \* Rate[k]: units bucket k gains in a tick

VARIABLE level  \* level[k]: units in bucket k now

AtMost(cap, n) == IF n < cap THEN n ELSE cap

Full == [k \in Key |-> Cap[k]]

\* One tick of time: every bucket gains its rate, never above its capacity.
Refilled(l) == [k \in Key |-> AtMost(Cap[k], l[k] + Rate[k])]

CanGrant(l, K) == \A k \in K : l[k] >= Token

\* One token less in every bucket of K.
Charged(l, K) == [k \in Key |-> IF k \in K THEN l[k] - Token ELSE l[k]]

Init == level = Full

Elapse == level' = Refilled(level)

Grant(K) == CanGrant(level, K) /\ level' = Charged(level, K)

\* The process restarts, or reset() empties the table: all buckets full again.
Reset == level' = Full

Next == Elapse \/ Reset \/ \E K \in Demand : Grant(K)

Spec == Init /\ [][Next]_level
=============================================================================
