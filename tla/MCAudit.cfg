\* Two workers, requests that overlap and die at every statement.
CONSTANTS
  Workers = {w1, w2}
  NoWorker = NoWorker
  StartModel = "model_a"
  Posted = {"ALERT", "SWITCH", "DISABLE"}
  MaxIncidents = 3
  MaxLogs = 3
SYMMETRY WorkerSymmetry
SPECIFICATION Spec
INVARIANTS TypeOK ClosedByVerdict VerdictMatchesOutcome OpenIncidentsBounded
PROPERTY TerminalIsFinal
