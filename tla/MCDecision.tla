------------------------------ MODULE MCDecision ------------------------------
(* The defaults of config.py, and one value on each side of every edge the *)
(* detectors and the classifier compare with.                              *)
EXTENDS DecisionCases

DefaultSettings ==
  [error_rate_threshold |-> 100, p95_latency_threshold_ms |-> 800,
   consecutive_failures_to_switch |-> 2, confidence_floor |-> 550,
   confidence_notable_floor |-> 780, confidence_med_floor |-> 700,
   low_confidence_ratio_med |-> 200, low_confidence_ratio_high |-> 400,
   confidence_gating_enabled |-> FALSE]

(* The optional gate on the ratio of uncertain predictions is on as well.  *)
GatingSettings == [DefaultSettings EXCEPT !.confidence_gating_enabled = TRUE]

EdgeErrorRates  == {5, 11, 31, 100, 101}
EdgeLatencies   == {80, 301, 800, 801}
EdgeConfidences == {0, 549, 550, 700, 860}
EdgeFailures    == {0, 31, 101}
EdgeRatios      == {0, 200, 400}
(* Eight features are compared, so a share is a multiple of 125.           *)
EdgeShares      == {0, 250, 375, 500}
===============================================================================
