\* Two requests of one address, clocks one tick apart, windows of four.
SPECIFICATION Spec
CONSTANTS
  r1 = r1
  r2 = r2
  Requests = {r1, r2}
  Skew <- SkewOfTwo
  AttemptLimit = 2
  DeployLimit = 1
  Window = 4
  Drift = 1
  MaxTime = 9
  MaxCount = 3
INVARIANTS
  LimiterTypeOK
  LimitsHold
  ForgottenIsSpent
PROPERTIES
  WindowsAreApart
