\* The agent asks for one model, an operator deploys it and rolls it back.
CONSTANTS
  MODELS = {"model_a", "model_b"}
  NoBuild = NoBuild
  QueueAttempts = 2
  BuildAttempts = 2
  AgentTargets = {"model_b"}
  HandRequests <- ByHand
  Fragile = {"model_b"}
  Upgraded = {"model_b"}
  MaxBuilds = 2
  MaxVersions = 2
SPECIFICATION LiveSpec
INVARIANTS TypeOK SuccessIsFinal
PROPERTIES RunJobReturns QueueDrains ImplementsExecutor
