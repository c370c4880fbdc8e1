-------------------------------- MODULE MCLoop --------------------------------
(* Small observations for AgentLoop: one per way a tick can be judged.  A  *)
(* model is LOW, MEDIUM or HIGH for its error rate, HIGH for drift or      *)
(* MEDIUM or HIGH for being down; the backup is healthy or not.            *)
EXTENDS AgentLoop

DefaultSettings ==
  [error_rate_threshold |-> 100, p95_latency_threshold_ms |-> 800,
   consecutive_failures_to_switch |-> 2, confidence_floor |-> 550,
   confidence_notable_floor |-> 780, confidence_med_floor |-> 700,
   low_confidence_ratio_med |-> 200, low_confidence_ratio_high |-> 400,
   confidence_gating_enabled |-> FALSE]

At(error_rate) == [error_rate |-> error_rate, p95_latency_ms |-> 80, avg_confidence |-> 860]

Idle == [error_rate |-> 0, p95_latency_ms |-> 0, avg_confidence |-> 0]

Seen(error_rate, share, backup_healthy) ==
  [reachable |-> TRUE, health_status |-> "healthy", inference_failure_rate |-> 0,
   low_confidence_ratio |-> 0, metrics |-> At(error_rate), anomalies |-> {},
   share |-> share, backup_healthy |-> backup_healthy]

(* Down before the predictions were sent, or only since then.              *)
Down(failure_rate, backup_healthy) ==
  [Seen(0, 0, backup_healthy) EXCEPT
     !.reachable = FALSE, !.health_status = "unhealthy", !.metrics = NoMetrics,
     !.inference_failure_rate = failure_rate]

AllObservations ==
  UNION {{Seen(5, 0, b), Seen(50, 0, b), Seen(500, 0, b), Seen(5, 500, b),
          Down(0, b), Down(1000, b),
          [Seen(5, 0, b) EXCEPT !.anomalies = {AnomalySustained}]} : b \in BOOLEAN}

(* LOW, and HIGH with either backup; ObserveError adds the model down.     *)
FewObservations == {Seen(5, 0, TRUE), Seen(500, 0, TRUE), Seen(500, 0, FALSE)}

ProbeOf(metrics) ==
  [reachable |-> TRUE, health_status |-> "healthy", served |-> metrics # Idle,
   metrics |-> metrics]

FewProbes ==
  {ProbeOf(Idle), ProbeOf(At(5)), ProbeOf(At(500)),
   [ProbeOf(Idle) EXCEPT !.reachable = FALSE, !.health_status = "unhealthy",
                         !.served = FALSE, !.metrics = NoMetrics]}
===============================================================================
