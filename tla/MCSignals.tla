------------------------------- MODULE MCSignals -------------------------------
(* Small services for Signals: requests that succeed, succeed with little  *)
(* confidence, fail, or succeed after the caller's timeout.                *)
EXTENDS Signals, TLC

DefaultSettings ==
  [error_rate_threshold |-> 100, p95_latency_threshold_ms |-> 800,
   consecutive_failures_to_switch |-> 2, confidence_floor |-> 550,
   confidence_notable_floor |-> 780, confidence_med_floor |-> 700,
   low_confidence_ratio_med |-> 200, low_confidence_ratio_high |-> 400,
   confidence_gating_enabled |-> FALSE]

Answered(latency, confidence) ==
  [answered |-> TRUE,
   sample   |-> [is_error |-> FALSE, latency_ms |-> latency, confidence |-> confidence]]

TooLate(latency, confidence) == [Answered(latency, confidence) EXCEPT !.answered = FALSE]

UsualOutcomes  == {Answered(80, 860)}
FaultyOutcomes == "model_a" :> {Errored(80), TooLate(5000, 860)} @@ "model_b" :> {Answered(80, 400)}

OneIsStopped == "model_a" :> {"fault"} @@ "model_b" :> {"fault", "stop"}
===============================================================================
