\* Two sites, a cache of one entry, entries that live for two ticks, and two
\* visitors at once.
SPECIFICATION Spec
CONSTANTS
  Deployments = {d1, d2}
  Requests = {r1, r2}
  NoDeployment = NoDeployment
  Never = Never
  Ttl = 2
  MaxEntries = 1
  MaxTime = 3
SYMMETRY VisitSymmetry
INVARIANTS
  ServingTypeOK
  AnswersAreTimely
