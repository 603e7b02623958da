----------------------------- MODULE MCGateway ------------------------------
(***************************************************************************)
(* Small instances of Gateway for TLC.  The requests are of one user, so   *)
(* they share every bucket of a connector; its user bucket is the tight    *)
(* one, as in settings.py.  A bucket of rpm 1 gains a token in a minute.   *)
(***************************************************************************)
EXTENDS Gateway, TLC

MCTenantOf == [r \in Request |-> "acme"]
MCUserOf == [r \in Request |-> "ana"]
MCRpm == [c \in Connector |-> [s \in Scope |-> IF s = "u" THEN 1 ELSE 2]]

Requests == Permutations(Request)
=============================================================================
