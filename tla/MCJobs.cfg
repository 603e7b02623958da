SPECIFICATION Spec
CONSTANTS
  Request = {r1, r2, r3}
  Connector = {"github"}
  Env = {}
  TenantOf <- MCTenantOf
  UserOf <- MCUserOf
  Rpm <- MCRpm
  SourceTimeout = 2
  RequestTimeout = 1
  Minute = 4
  BurstUnits = 6
  MaxWait = 4
  MaxRestarts = 1
  PollInterval = 2
INVARIANTS ChargedOnce GivesUpOnlyIfContended OrphansOnlyAfterException
SYMMETRY Requests
