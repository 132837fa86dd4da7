\* Two deployments, the second a redeploy; the fallback to polling at the second failure.
SPECIFICATION FairSpec
CONSTANTS
  MaxDeployments = 2
  MaxLines = 2
  Drops = {1}
  Reads = {1}
  StreamAttempts = 2
  AnswersInOrder = TRUE
  EffectsAreQuick = TRUE
CHECK_DEADLOCK FALSE
INVARIANTS
  WebTypeOK
  LinesHaveNoGap
  

  
