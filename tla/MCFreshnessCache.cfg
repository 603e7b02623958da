SPECIFICATION Spec
CONSTANTS
  Task = {q1, q2}
  MaxStaleness = {0}
  DefaultTtl = 1
  MinFreshness = 0
  StaleIfError = 2
  SourceTimeout = 2
  MaxClock = 5
  MaxVersion = 3
  NoEntry = NoEntry
  Unset = Unset
  Idle = Idle
  NoAnswer = NoAnswer
SYMMETRY Tasks
VIEW View
INVARIANTS TypeOK StampWithinLag HitWithinTolerance LiveDuringCall ReportedAgeBounds
PROPERTIES CacheNeverGoesBack
