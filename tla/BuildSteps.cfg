\* Two attempts of every project of MCBuildSteps, three lines of output with a budget
\* of two and a flush after two, and a shared cache of one answer.
SPECIFICATION FairSpec
CONSTANTS
  MaxAttempts = 2
  MaxOutput = 3
  Budget = 2
  FlushAfter = 2
  KillsHit = TRUE
  RepeatableBuilds = TRUE
  CacheSize = 1
  Strings <- TheStrings
  Projects <- TheProjects
  Products <- TheProducts
  Requests <- TheRequests
CHECK_DEADLOCK FALSE
INVARIANTS
  StepsTypeOK
  
  NoLineIsForgotten
  VisitorsGetWhatWasBuilt
PROPERTIES
  FollowsLifecycle
  BuildsEnd
