\* Services that fail, recover and restart under the ticks of the agent.
CONSTANTS
  settings <- DefaultSettings
  NoMetrics = NoMetrics
  NoSignal = NoSignal
  NoModel = NoModel
  NoSample = NoSample
  Models = {"model_a", "model_b"}
  Moves <- OneIsStopped
  WindowSize = 3
  Usual <- UsualOutcomes
  Faulty <- FaultyOutcomes
  Tracked = {"error_rate"}
  W = 2
  WMin = 1
  NSustain = 2
  Batch = 1
  VerifyRetries = 2
SPECIFICATION LiveSpec
INVARIANTS TypeOK FailuresAreNotLow IdleWindowIsFinal SteadyIsNormal
PROPERTY RecoveryIsSeen
