-------------------------- MODULE MCFreshnessCache --------------------------
(***************************************************************************)
(* Small instances of FreshnessCache for TLC: the queries are              *)
(* interchangeable, so their permutations are a symmetry.                  *)
(***************************************************************************)
EXTENDS FreshnessCache, TLC

Tasks == Permutations(Task)

\* States that differ only in entries nothing refers to any more, or in the
\* numbers of those that are referred to, are the same to every action and
\* property.  What is kept of a reference is what it refers to and what else
\* refers to the same.
Target(i) == IF i = NoEntry THEN NoEntry ELSE objects[i]

View ==
  <<connector, now, since, answer, Target(entry),
    [t \in Task |->
       IF IsWaiting(t)
       THEN <<fetch[t].calledAt, fetch[t].read, Target(fetch[t].held),
              fetch[t].held = entry,
              {s \in Task : IsWaiting(s) /\ fetch[s].held = fetch[t].held}>>
       ELSE Idle]>>
=============================================================================
