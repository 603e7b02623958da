SPECIFICATION Spec
CONSTANTS
  Request = {r1, r2}
  Connector = {"github", "gh_live"}
  Env = {"GITHUB_TOKEN"}
  TenantOf <- MCTenantOf
  UserOf <- MCUserOf
  Rpm <- MCRpm
  SourceTimeout = 1
  RequestTimeout = 2
  Minute = 2
  BurstUnits = 2
  MaxWait = 2
  MaxRestarts = 0
  PollInterval = 1
INVARIANTS UnregisteredFailsClearly
SYMMETRY Requests
