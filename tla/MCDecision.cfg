\* Every band edge of every signal, with the optional confidence gate switched on.
CONSTANTS
  NoMetrics = NoMetrics
  NoSignal = NoSignal
  settings <- GatingSettings
  ErrorRates <- EdgeErrorRates
  Latencies <- EdgeLatencies
  Confidences <- EdgeConfidences
  FailureRates <- EdgeFailures
  LowConfidenceRatios <- EdgeRatios
  DriftShares <- EdgeShares
  MaxFailures = 2
SPECIFICATION Spec
INVARIANTS SignalExplainsSeverity AnomaliesNeverIntervene VerifiedIsNotHigh
PROPERTY NeverRelaxes
