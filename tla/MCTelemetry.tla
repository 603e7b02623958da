---------------------------- MODULE MCTelemetry ------------------------------
(* Three queries of two tenants, a ring of two events and two traces. *)
EXTENDS Telemetry

CONSTANTS r1, r2, r3

MCRequest == {r1, r2, r3}
MCTenantOf == [r \in MCRequest |-> IF r = r3 THEN "globex" ELSE "acme"]
MCFetches == [r \in MCRequest |-> IF r = r1 THEN 2 ELSE 1]
=============================================================================
