\* A backlog of two settled deployments, cleaned in pages of one by a worker
\* that may crash, stop and restart for ever.
SPECIFICATION FairBacklog
CONSTANTS
  MaxDeployments = 2
  Workers = {w1}
  MaxConcurrentBuilds = 1
  MaxAttempts = 1
  BuildsAreBounded = TRUE
  SweepsArePrompt = TRUE
  Files = {f1}
  ExpireBatch = 1
PROPERTIES
  
  DueDeploymentsExpire
