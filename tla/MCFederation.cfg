CONSTANTS
  Source <- MCSource
  Data <- MCData
  Catalog <- MCCatalog
  Pushable <- MCPushable
  Kind <- MCKind
  Policy <- MCPolicy
  Role = {"eng", "admin", "odd", "guest"}
  Query <- MCQuery
  Emails <- MCEmails
  Repos <- MCRepos
  Projects <- MCProjects
  PageSize = 2
  PageLimit = 2
  MaxRows = 9
  MaxEntries = 3
SPECIFICATION Spec
INVARIANTS
  TypeOK
  OnlyEntitledMatches
  AnswersQuery
  PagesPartition
