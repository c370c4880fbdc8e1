\* An alert, then the switch that mends it.
CONSTANTS
  Workers = {w1}
  NoWorker = NoWorker
  StartModel = "model_a"
  Posted = {"ALERT", "SWITCH"}
  MaxIncidents = 2
  MaxLogs = 2
SPECIFICATION Spec
INVARIANT EpisodeCloses
