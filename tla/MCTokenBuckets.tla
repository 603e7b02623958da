--------------------------- MODULE MCTokenBuckets ---------------------------
(***************************************************************************)
(* A small instance of TokenBuckets for TLC: two users of one tenant, and  *)
(* two connectors.  A minute is three ticks and the burst four.  A user of *)
(* github has a token and a third at most and gains a third in a tick; its *)
(* tenant has twice as much, so two users exhaust theirs and the tenant's; *)
(* a user of jira has all that the tenant has, so one user exhausts the    *)
(* tenant's for the other.                                                 *)
(***************************************************************************)
EXTENDS TokenBuckets, TLC

MCConnector == {"github", "jira"}
MCRank == [c \in MCConnector |-> IF c = "github" THEN 1 ELSE 2]

MCRpm == [c \in MCConnector |->
  IF c = "github" THEN [s \in Scope |-> IF s = "u" THEN 1 ELSE 2]
  ELSE [s \in Scope |-> 1]]

Users == Permutations(User)
=============================================================================
