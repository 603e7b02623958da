CONSTANTS
  r1 = r1
  r2 = r2
  r3 = r3
  Request <- MCRequest
  TenantOf <- MCTenantOf
  NoTenant = none
  RingSize = 2
  MaxTraces = 2
  Fetches <- MCFetches
  MaxSpans = 7
  MaxReads = 1
SPECIFICATION Spec
INVARIANTS
  TypeOK
  DropsTheMostSilent
  LatestIsTheTenantsLast
  RecentAreTheTenantsLast
  TrailInTraceOrder
  CountersAgreeWithTrail
CHECK_DEADLOCK FALSE
