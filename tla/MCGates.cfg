\* The anti-flap gates at their default values, any pattern of good and bad ticks,
\* a reliable backend, and crashes.
CONSTANTS
  settings <- DefaultSettings
  NoMetrics = NoMetrics
  NoSignal = NoSignal
  NoModel = NoModel
  NoRow = NoRow
  StartModel = "model_a"
  ConfirmN = 2
  CooldownCycles = 3
  AttemptBound = 1
  VerifyRetries = 1
  Executors = {"direct"}
  Observations <- AllObservations
  Probes <- FewProbes
  Faults = {"crash"}
  MaxLate = 0
SPECIFICATION LiveSpec
INVARIANTS TypeOK ConfirmedOnThisModel SwitchSpacing GateOpensInTime
PROPERTY RecoveryNotStarved
