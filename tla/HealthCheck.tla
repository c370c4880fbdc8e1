------------------------------ MODULE HealthCheck ------------------------------
(***************************************************************************)
(* The acceptance test of VERIFY: one confirmation probe of the model that *)
(* was just promoted.  A probe is what /health and /metrics answered:      *)
(* `served` says whether the model reports request_count > 0.              *)
(***************************************************************************)
EXTENDS DecisionEngine

Probe == [reachable : BOOLEAN, health_status : HealthStatus,
          served : BOOLEAN, metrics : Metrics \cup {NoMetrics}]

HasTraffic(p) == p.metrics # NoMetrics /\ p.served

(* Faulty form: the confidence of the promoted model is not looked at.     *)
RecoveredByErrorRate(p) ==
  /\ p.reachable /\ p.health_status = "healthy"
  /\ HasTraffic(p) => p.metrics.error_rate <= settings.error_rate_threshold

(* A metric of a model without traffic is no observation and passes.       *)
Recovered(p) ==
  /\ p.reachable /\ p.health_status = "healthy"
  /\ HasTraffic(p) => /\ p.metrics.error_rate <= settings.error_rate_threshold
                      /\ p.metrics.avg_confidence >= settings.confidence_floor
===============================================================================
