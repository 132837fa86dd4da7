\* One deployment, a worker with two builds at a time, a site of two files, and
\* no assumption about time.
SPECIFICATION RetentionSpec
CONSTANTS
  MaxDeployments = 1
  Workers = {w1}
  MaxConcurrentBuilds = 2
  MaxAttempts = 1
  BuildsAreBounded = FALSE
  SweepsArePrompt = FALSE
  Files = {f1, f2}
  ExpireBatch = 1
SYMMETRY RetentionSymmetry
INVARIANTS
  RetentionTypeOK
  LiveSitesAreWhole
  SourcesAreKept
  
