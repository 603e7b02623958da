SPECIFICATION Spec
CONSTANTS
  Request = {r1, r2}
  Connector = {"github", "jira_live"}
  Env = {"JIRA_BASE_URL", "JIRA_API_VERSION"}
  TenantOf <- MCTenantOf
  UserOf <- MCUserOf
  Rpm <- MCRpm
  SourceTimeout = 1
  RequestTimeout = 2
  Minute = 2
  BurstUnits = 2
  MaxWait = 2
  MaxRestarts = 1
  PollInterval = 1
INVARIANTS TypeOK AuditAgrees SourceDeadlineTripsFirst RowsFromEndedSources OrphansOnlyAfterException
PROPERTIES FetchesEnd ImplementsClientView
