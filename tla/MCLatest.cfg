\* What GET /api/metrics/latest shows once a model has two versions.
CONSTANTS
  Models = {"model_a", "model_b"}
  Versions = {1, 2}
  MaxTime = 4
  Unstamped = {"model_b"}
  Nothing = Nothing
SPECIFICATION Spec
INVARIANT LatestIsMostRecent
CHECK_DEADLOCK FALSE
