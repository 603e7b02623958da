CONSTANTS
  Source <- MCSource
  Data <- MCData
  Catalog <- MCCatalog
  Pushable <- MCPushable
  Kind <- MCKind
  Policy <- MCPolicy
  Role = {"admin"}
  Query <- LiveJoin
  Emails <- MCEmails
  Repos <- MCRepos
  Projects <- MCProjects
  PageSize = 2
  PageLimit = 2
  MaxRows = 9
  MaxEntries = 3
SPECIFICATION Spec
INVARIANT SourcesFetchEnough
