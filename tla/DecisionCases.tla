---------------------------- MODULE DecisionCases -----------------------------
(***************************************************************************)
(* Drives the pure operators of DecisionEngine and HealthCheck through the *)
(* situations a model can be observed in.  One signal moves at a time, to  *)
(* any of the values a signal may take, so that every pair of neighbouring *)
(* observations is a step and can be compared by an action property.       *)
(***************************************************************************)
EXTENDS HealthCheck

CONSTANTS
  ErrorRates, Latencies, Confidences, FailureRates, LowConfidenceRatios,
  DriftShares,    \* share of drifted features
  MaxFailures     \* bound on consecutive health failures

ASSUME CasesAssumption ==
  /\ ErrorRates \cup Latencies \cup Confidences \cup FailureRates
       \cup LowConfidenceRatios \cup DriftShares \subseteq Int
  /\ MaxFailures \in Int

VARIABLES
  ctx,            \* the DetectionContext of the tick
  share,          \* what the drift detector computed
  anomalies       \* what the anomaly detector reported

vars == <<ctx, share, anomalies>>

MetricValues == [error_rate : ErrorRates, p95_latency_ms : Latencies,
                 avg_confidence : Confidences]

Detections == ThresholdDetect(ctx) \cup anomalies \cup DriftDetect(share)

(* A service that has just started and has not served a request.           *)
Init ==
  /\ ctx = [reachable |-> TRUE, health_status |-> "healthy", failures |-> 0,
            inference_failure_rate |-> 0, low_confidence_ratio |-> 0,
            metrics |-> [error_rate |-> 0, p95_latency_ms |-> 0, avg_confidence |-> 0]]
  /\ share = 0
  /\ anomalies = {}

MetricsMove ==
  /\ \/ ctx.metrics = NoMetrics /\ \E m \in MetricValues : ctx' = [ctx EXCEPT !.metrics = m]
     \/ /\ ctx.metrics # NoMetrics
        /\ \/ \E v \in ErrorRates  : ctx' = [ctx EXCEPT !.metrics.error_rate = v]
           \/ \E v \in Latencies   : ctx' = [ctx EXCEPT !.metrics.p95_latency_ms = v]
           \/ \E v \in Confidences : ctx' = [ctx EXCEPT !.metrics.avg_confidence = v]
  /\ UNCHANGED <<share, anomalies>>

(* /metrics cannot be read: the anomaly detector has nothing to look at.   *)
MetricsLost ==
  /\ ctx' = [ctx EXCEPT !.metrics = NoMetrics] /\ anomalies' = {}
  /\ UNCHANGED share

PredictMove ==
  /\ \/ \E v \in FailureRates : ctx' = [ctx EXCEPT !.inference_failure_rate = v]
     \/ \E v \in LowConfidenceRatios : ctx' = [ctx EXCEPT !.low_confidence_ratio = v]
  /\ UNCHANGED <<share, anomalies>>

(* The failure counter counts failing polls in a row and is 0 otherwise.   *)
HealthMove ==
  /\ \/ \E s \in {"healthy", "degraded"} :
          ctx' = [ctx EXCEPT !.reachable = TRUE, !.health_status = s, !.failures = 0]
     \/ /\ ctx.failures < MaxFailures
        /\ \E up \in BOOLEAN :
             ctx' = [ctx EXCEPT !.reachable = up, !.health_status = "unhealthy",
                                !.failures = @ + 1]
  /\ UNCHANGED <<share, anomalies>>

DetectorMove ==
  /\ \/ share' \in DriftShares /\ UNCHANGED anomalies
     \/ /\ ctx.metrics # NoMetrics /\ UNCHANGED share
        /\ anomalies' \in SUBSET {AnomalySpike, AnomalySustained}
  /\ UNCHANGED ctx

Next == MetricsMove \/ MetricsLost \/ PredictMove \/ HealthMove \/ DetectorMove

Spec == Init /\ [][Next]_vars

-------------------------------------------------------------------------------

(* One set of metric values is at least as bad as another.  An             *)
(* avg_confidence of 0 means that no prediction was answered yet.          *)
WorseMetrics(n, m) ==
  \/ m = NoMetrics
  \/ /\ m # NoMetrics /\ n # NoMetrics
     /\ n.error_rate >= m.error_rate
     /\ n.p95_latency_ms >= m.p95_latency_ms
     /\ m.avg_confidence > 0 => n.avg_confidence \in 1..m.avg_confidence

Worse ==
  /\ Failing(ctx) => Failing(ctx')
  /\ ctx'.failures >= ctx.failures
  /\ ctx'.inference_failure_rate >= ctx.inference_failure_rate
  /\ ctx'.low_confidence_ratio >= ctx.low_confidence_ratio
  /\ WorseMetrics(ctx'.metrics, ctx.metrics)
  /\ share' >= share
  /\ anomalies \subseteq anomalies'

(* A model that got worse in some signals and better in none is never      *)
(* judged less severely: no combination of the detectors' floors and the   *)
(* classifier's bands lets a degradation slip into a lower band.           *)
NeverRelaxes ==
  [][Worse => SEVERITY_RANK[Classify(Detections)]
                <= SEVERITY_RANK[Classify(Detections')]]_vars

(* The detection attached to a decision as its evidence is one that        *)
(* breached and is exactly as severe as the decision; a tick on which      *)
(* nothing breached carries no evidence (decision.py, _worst).             *)
SignalExplainsSeverity ==
  LET d == MakeDecision(Detections, "model_a", "model_b", TRUE, FALSE) IN
  IF \E e \in Detections : e.anomaly_detected
  THEN /\ d.detection_signal \in Detections
       /\ d.detection_signal.anomaly_detected
       /\ ClassifyDetection(d.detection_signal) = d.severity
  ELSE d.detection_signal = NoSignal /\ d.severity = "LOW"

(* Statistical anomalies may raise an alert, but the anomaly channel alone *)
(* never moves traffic or closes it: dropping its reports leaves the       *)
(* choice between intervening and not intervening as it was.               *)
AnomaliesNeverIntervene ==
  \A backup_healthy \in BOOLEAN :
    LET Action(ds) == MakeDecision(ds, "model_a", "model_b", backup_healthy, FALSE).action
        Intervenes(a) == a \in {"switch_backup", "disable_predictions"} IN
    Intervenes(Action(Detections)) <=> Intervenes(Action(Detections \ anomalies))

(* What a VERIFY probe sees when it finds the model in this situation.     *)
ProbeNow(served) ==
  [reachable |-> ctx.reachable, health_status |-> ctx.health_status,
   served |-> served, metrics |-> ctx.metrics]

(* The signals DETECT bands that VERIFY does not look at.                  *)
QuietElsewhere ==
  /\ ctx.inference_failure_rate <= settings.error_rate_threshold
  /\ share < 500
  /\ settings.confidence_gating_enabled =>
       ctx.low_confidence_ratio < settings.low_confidence_ratio_high

(* VERIFY and DETECT agree: a promoted model that has served traffic and   *)
(* passes VERIFY is not HIGH on the next tick for the health, error rate   *)
(* or confidence VERIFY has just accepted, so an accepted switch is not    *)
(* the start of the next one while latency stays within its bound.         *)
VerifiedIsNotHigh ==
  (/\ Recovered(ProbeNow(TRUE))
   /\ QuietElsewhere
   /\ ctx.metrics # NoMetrics => ctx.metrics.p95_latency_ms <= settings.p95_latency_threshold_ms)
    => Classify(Detections) # "HIGH"
===============================================================================
