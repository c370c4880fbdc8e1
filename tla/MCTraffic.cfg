\* Every fault at once, with either executor: calls lost and late, foreign writes,
\* crashes, no backend, Jenkins jobs that fail half way.
CONSTANTS
  settings <- DefaultSettings
  NoMetrics = NoMetrics
  NoSignal = NoSignal
  NoModel = NoModel
  NoRow = NoRow
  StartModel = "model_a"
  ConfirmN = 2
  CooldownCycles = 3
  AttemptBound = 1
  VerifyRetries = 2
  Executors = {"direct", "jenkins"}
  Observations <- FewObservations
  Probes <- FewProbes
  Faults = {"backend_down", "lost_call", "late_call", "foreign_write", "crash"}
  MaxLate = 1
SPECIFICATION Spec
INVARIANTS VerifiedOrReverted InSync AuditMatchesServing
