SPECIFICATION Spec
CONSTANTS
  Request = {r1, r2, r3}
  Connector = {"github"}
  Env = {}
  TenantOf <- MCTenantOf
  UserOf <- MCUserOf
  Rpm <- MCRpm
  SourceTimeout = 1
  RequestTimeout = 2
  Minute = 2
  BurstUnits = 2
  MaxWait = 2
  MaxRestarts = 0
  PollInterval = 1
INVARIANTS EveryCallAudited
SYMMETRY Requests
