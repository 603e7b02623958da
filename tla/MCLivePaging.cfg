CONSTANTS
  Repos <- MCRepos
  Projects <- MCProjects
  PageSize = 2
  PageLimit = 3
  Plan <- MCPlan
  Version <- MCVersion
  Listed <- MCListed
  ServerMax = {1, 2}
  MaxChanges = 2
SPECIFICATION Spec
INVARIANTS
  TypeOK
  StillSourceIsFetchRows
  ReadOnceUnlessMoved
