\* The reverse: an expired row over files that are still there.
SPECIFICATION RetentionSpec
CONSTANTS
  MaxDeployments = 1
  Workers = {w1, w2}
  MaxConcurrentBuilds = 1
  MaxAttempts = 1
  BuildsAreBounded = TRUE
  SweepsArePrompt = TRUE
  Files = {f1}
  ExpireBatch = 1
SYMMETRY RetentionSymmetry
INVARIANT ExpiredSitesAreGone
