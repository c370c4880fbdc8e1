\* Snapshots of a model that is upgraded, in any order of arrival.
CONSTANTS
  Models = {"model_a", "model_b"}
  Versions = {1, 2}
  MaxTime = 4
  Unstamped = {"model_b"}
  Nothing = Nothing
SPECIFICATION Spec
INVARIANTS TypeOK OneVersionShowsLatest
PROPERTY ShownNeverGoesBack
CHECK_DEADLOCK FALSE
