\* Builds that fit the staleness limit and prompt sweeps: the strong promises.
SPECIFICATION Spec
CONSTANTS
  MaxDeployments = 2
  Workers = {w1, w2}
  MaxConcurrentBuilds = 1
  MaxAttempts = 2
  BuildsAreBounded = TRUE
  SweepsArePrompt = TRUE
SYMMETRY Symmetry
INVARIANTS
  TypeOK
  ClaimsAreExclusive
  OneBuildPerDeployment
  Ownership
PROPERTIES
  VerdictsMatchAttempts
  SweepTakesOnlyLeftovers
  ImplementsLifecycle
