---------------------------- MODULE DecisionEngine ----------------------------
(***************************************************************************)
(* The pure part of one agent tick: what the three detection channels      *)
(* report (DETECT), how the reports are banded into a severity and mapped  *)
(* to a recovery action (DECIDE).  There is no state here; AgentLoop calls *)
(* these operators once per tick and keeps the counters.                   *)
(*                                                                         *)
(* Units: rates, shares and confidences are integers in permille, latency  *)
(* is in milliseconds.  `settings` is the Settings object of config.py.    *)
(***************************************************************************)
EXTENDS Integers

CONSTANTS
  settings,    \* the values of config.Settings the loop compares against
  NoMetrics,   \* /metrics could not be read this tick (None in the source)
  NoSignal     \* the decision carries no detection (None in the source)

Setting == {"error_rate_threshold", "p95_latency_threshold_ms",
            "consecutive_failures_to_switch", "confidence_floor",
            "confidence_notable_floor", "confidence_med_floor",
            "low_confidence_ratio_med", "low_confidence_ratio_high"}

(* Every value comes from an environment variable parsed as a number:      *)
(* nothing in config.py orders the thresholds or keeps them positive.      *)
ASSUME SettingsAssumption ==
  /\ \A s \in Setting : settings[s] \in Int
  /\ settings["confidence_gating_enabled"] \in BOOLEAN

HealthStatus == {"healthy", "degraded", "unhealthy"}
Severity     == {"LOW", "MEDIUM", "HIGH"}
ActionType   == {"no_op", "alert", "switch_backup", "disable_predictions"}

SEVERITY_RANK == [LOW |-> 1, MEDIUM |-> 2, HIGH |-> 3, CRITICAL |-> 4]

(***************************************************************************)
(* DetectionContext: what OBSERVE hands to the detectors.                  *)
(***************************************************************************)
Metrics == [error_rate : Int, p95_latency_ms : Int, avg_confidence : Int]

(* None is no reading: what GET /metrics answers is an object.             *)
ASSUME AbsenceAssumption == NoMetrics \notin Metrics

Context == [reachable : BOOLEAN, health_status : HealthStatus,
            failures  : Int,                \* consecutive_health_failures
            inference_failure_rate : Int, low_confidence_ratio : Int,
            metrics   : Metrics \cup {NoMetrics}]

Failing(h) == ~h.reachable \/ h.health_status = "unhealthy"

(***************************************************************************)
(* A DetectionResult.  `value` is the number its band is read from: the    *)
(* observed value of a threshold, the score of a drift statistic.          *)
(***************************************************************************)
Detection(det, metric, value, breached, sustained) ==
  [detector |-> det, metric |-> metric, value |-> value,
   anomaly_detected |-> breached, sustained |-> sustained]

Breach(metric, value) ==
  Detection("threshold_detector", metric, value, TRUE, FALSE)

AnomalySpike     == Detection("anomaly_detector", "spike", 0, TRUE, FALSE)
AnomalySustained == Detection("anomaly_detector", "sustained", 0, TRUE, TRUE)

When(condition, d) == IF condition THEN {d} ELSE {}

(* A breaching row for the features that drifted, and the aggregate row,   *)
(* breaching or not.  A window too short to be tested, or a missing        *)
(* reference, yields no row; share 0 stands for that too, which differs    *)
(* only by a row that does not breach.                                     *)
ShareThreshold == 300
DriftDetect(share) ==
  When(share > 0, Detection("drift_detector", "data_drift_psi", share, TRUE, FALSE))
  \cup {Detection("drift_detector", "data_drift_aggregate", share,
                  share >= ShareThreshold, FALSE)}

ThresholdDetect(ctx) ==
  LET m == ctx.metrics IN
  When(Failing(ctx), Breach("service_up", ctx.failures))
  \cup When(ctx.inference_failure_rate > 10,
            Breach("inference_failure_rate", ctx.inference_failure_rate))
  \cup IF m = NoMetrics THEN {} ELSE
       When(m.error_rate > 10, Breach("error_rate", m.error_rate))
       \cup When(m.p95_latency_ms > 150, Breach("p95_latency_ms", m.p95_latency_ms))
       \cup When(/\ 0 < m.avg_confidence
                 /\ m.avg_confidence <= settings.confidence_notable_floor,
                 Breach("avg_confidence", m.avg_confidence))
       \cup When(/\ settings.confidence_gating_enabled
                 /\ ctx.low_confidence_ratio >= settings.low_confidence_ratio_med,
                 Breach("low_confidence_ratio", ctx.low_confidence_ratio))

(***************************************************************************)
(* DECIDE: severity_classifier                                             *)
(***************************************************************************)
BandAscending(v, med, high) ==
  IF v > high THEN "HIGH" ELSE IF v > med THEN "MEDIUM" ELSE "LOW"

ClassifyThreshold(d) ==
  LET v == d.value IN
  CASE d.metric \in {"error_rate", "inference_failure_rate"} ->
         BandAscending(v, 30, settings.error_rate_threshold)
    [] d.metric = "p95_latency_ms" ->
         BandAscending(v, 300, settings.p95_latency_threshold_ms)
    [] d.metric = "avg_confidence" ->
         IF v < settings.confidence_floor THEN "HIGH"
         ELSE IF v < settings.confidence_med_floor THEN "MEDIUM" ELSE "LOW"
    [] d.metric = "low_confidence_ratio" ->
         IF v >= settings.low_confidence_ratio_high THEN "HIGH"
         ELSE IF v >= settings.low_confidence_ratio_med THEN "MEDIUM" ELSE "LOW"
    [] d.metric = "service_up" ->
         IF v >= settings.consecutive_failures_to_switch THEN "HIGH" ELSE "MEDIUM"
    [] OTHER -> "LOW"

(* Faulty form: the HIGH band starts above 500, the MEDIUM one ends below. *)
DriftBandGap(d) ==
  CASE d.metric = "data_drift_aggregate" /\ d.value > 500 -> "HIGH"
    [] d.metric = "data_drift_aggregate" /\ d.value \in 300..499 -> "MEDIUM"
    [] OTHER -> "LOW"

ClassifyDrift(d) ==
  CASE d.metric = "data_drift_aggregate" /\ d.value >= 500 -> "HIGH"
    [] d.metric = "data_drift_aggregate" /\ d.value \in 300..499 -> "MEDIUM"
    [] OTHER -> "LOW"

(* Faulty form: a sustained anomaly counts as HIGH.                        *)
AnomalyIsHigh(d) ==
  CASE d.detector = "threshold_detector" -> ClassifyThreshold(d)
    [] d.detector = "anomaly_detector" /\ d.sustained -> "HIGH"
    [] d.detector = "drift_detector" -> ClassifyDrift(d)
    [] OTHER -> "LOW"

ClassifyDetection(d) ==
  CASE d.detector = "threshold_detector" -> ClassifyThreshold(d)
    [] d.detector = "anomaly_detector" ->
         IF d.sustained THEN "MEDIUM" ELSE "LOW"
    [] d.detector = "drift_detector" -> ClassifyDrift(d)
    [] OTHER -> "LOW"

Breaching(detections) == {d \in detections : d.anomaly_detected}

RankOf(d) == SEVERITY_RANK[ClassifyDetection(d)]

(* Faulty form: some breaching detection, not the worst.                   *)
AnyBreach(detections) ==
  IF Breaching(detections) = {} THEN NoSignal
  ELSE CHOOSE d \in Breaching(detections) : TRUE

(* _worst: a breaching detection of maximal rank.  The source takes the    *)
(* first of them in detector order; which of several equally severe ones   *)
(* is attached does not matter to anything modelled here.                  *)
Worst(detections) ==
  IF Breaching(detections) = {} THEN NoSignal
  ELSE CHOOSE d \in Breaching(detections) :
         \A e \in Breaching(detections) : RankOf(e) <= RankOf(d)

(* classify takes the maximum of the ranks, independently of _worst.       *)
Classify(detections) ==
  LET found == {ClassifyDetection(d) : d \in Breaching(detections)} IN
  IF found = {} THEN "LOW"
  ELSE CHOOSE s \in found :
         \A t \in found : SEVERITY_RANK[t] <= SEVERITY_RANK[s]

(***************************************************************************)
(* DECIDE: policy_rules and decision                                       *)
(***************************************************************************)
ChooseAction(severity, backup_healthy, action_gated) ==
  CASE severity = "HIGH" /\ action_gated   -> "alert"
    [] severity = "HIGH" /\ ~action_gated  ->
         IF backup_healthy THEN "switch_backup" ELSE "disable_predictions"
    [] severity = "MEDIUM"                 -> "alert"
    [] OTHER                               -> "no_op"

MakeDecision(detections, active, backup, backup_healthy, action_gated) ==
  LET severity == Classify(detections)
      action   == ChooseAction(severity, backup_healthy, action_gated) IN
  [action |-> action, severity |-> severity,
   target_model |-> IF action = "switch_backup" THEN backup ELSE active,
   detection_signal |-> Worst(detections)]
===============================================================================
