\* A crash between a switch and its verification.
CONSTANTS
  settings <- DefaultSettings
  NoMetrics = NoMetrics
  NoSignal = NoSignal
  NoModel = NoModel
  NoRow = NoRow
  StartModel = "model_a"
  ConfirmN = 2
  CooldownCycles = 3
  AttemptBound = 1
  VerifyRetries = 1
  Executors = {"direct"}
  Observations <- FewObservations
  Probes <- FewProbes
  Faults = {"crash"}
  MaxLate = 0
SPECIFICATION Spec
INVARIANT UnverifiedNeverServes
