\* What a rollback job that ran to its end has made active.
CONSTANTS
  MODELS = {"model_a", "model_b"}
  NoBuild = NoBuild
  QueueAttempts = 2
  BuildAttempts = 2
  AgentTargets = {"model_b"}
  HandRequests <- ByHand
  Fragile = {"model_b"}
  Upgraded = {"model_b"}
  MaxBuilds = 2
  MaxVersions = 2
SPECIFICATION LiveSpec
INVARIANT RollbackPointsToDeployed
