\* Fairness, and crashes, lost claims and failing statements that may recur for ever.
SPECIFICATION FairSpec
CONSTANTS
  MaxDeployments = 2
  Workers = {w1}
  MaxConcurrentBuilds = 1
  MaxAttempts = 2
  BuildsAreBounded = TRUE
  SweepsArePrompt = FALSE
PROPERTIES
  InterruptedBuildsRecover
  DeploymentsSettle
