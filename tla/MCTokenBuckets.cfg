SPECIFICATION Spec
CONSTANTS
  Connector <- MCConnector
  Rank <- MCRank
  Rpm <- MCRpm
  Tenant = {acme}
  User = {ana, bo}
  Minute = 3
  BurstUnits = 4
  MaxClock = 2
  Absent = Absent
  NoRefusal = NoRefusal
SYMMETRY Users
INVARIANTS TypeOK BucketBounds WindowBound NestedAccounting RetryHintExact
PROPERTIES RejectionConsumesNothing ImplementsBudget
