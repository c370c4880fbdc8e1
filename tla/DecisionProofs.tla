---------------------------- MODULE DecisionProofs ----------------------------
(***************************************************************************)
(* Proofs about the decision engine, for every setting: no order between   *)
(* the thresholds is assumed, as config.py checks none, and the signals    *)
(* take any values.                                                        *)
(***************************************************************************)
EXTENDS DecisionCases, TLAPS

(***************************************************************************)
(* Severities                                                              *)
(***************************************************************************)
LEMMA ClassifyDetectionType == ASSUME NEW d PROVE ClassifyDetection(d) \in Severity
  BY DEF ClassifyDetection, ClassifyThreshold, ClassifyDrift, BandAscending, Severity

LEMMA RankType == ASSUME NEW s \in Severity PROVE SEVERITY_RANK[s] \in 1..3
  BY DEF Severity, SEVERITY_RANK

LEMMA RankIsInjective ==
  ASSUME NEW s \in Severity, NEW t \in Severity, SEVERITY_RANK[s] = SEVERITY_RANK[t]
  PROVE  s = t
  BY DEF Severity, SEVERITY_RANK

LEMMA WorstSeverity ==
  ASSUME NEW found \in SUBSET Severity, found # {}
  PROVE  \E s \in found : \A t \in found : SEVERITY_RANK[t] <= SEVERITY_RANK[s]
<1>1. CASE "HIGH" \in found
  BY <1>1 DEF Severity, SEVERITY_RANK
<1>2. CASE "HIGH" \notin found /\ "MEDIUM" \in found
  BY <1>2 DEF Severity, SEVERITY_RANK
<1>3. CASE "HIGH" \notin found /\ "MEDIUM" \notin found
  <2>1. found = {"LOW"}
    BY <1>3 DEF Severity
  <2> QED BY <2>1 DEF SEVERITY_RANK
<1> QED BY <1>1, <1>2, <1>3

(* classify: the severity of the worst breaching detection.                *)
LEMMA ClassifyFacts ==
  ASSUME NEW ds
  PROVE  /\ Classify(ds) \in Severity
         /\ Breaching(ds) = {} => Classify(ds) = "LOW"
         /\ Breaching(ds) # {} =>
              \E d \in Breaching(ds) : ClassifyDetection(d) = Classify(ds)
         /\ \A d \in Breaching(ds) : RankOf(d) <= SEVERITY_RANK[Classify(ds)]
<1> DEFINE found == {ClassifyDetection(d) : d \in Breaching(ds)}
           worst == CHOOSE s \in found : \A t \in found : SEVERITY_RANK[t] <= SEVERITY_RANK[s]
<1>1. found \in SUBSET Severity
  BY ClassifyDetectionType
<1>2. Classify(ds) = IF found = {} THEN "LOW" ELSE worst
  BY DEF Classify
<1>3. found # {} =>
        /\ worst \in found /\ \A t \in found : SEVERITY_RANK[t] <= SEVERITY_RANK[worst]
  <2> HIDE DEF found
  <2> QED BY <1>1, WorstSeverity
<1>4. CASE Breaching(ds) = {}
  BY <1>2, <1>4 DEF Severity
<1>5. CASE Breaching(ds) # {}
  <2>1. found # {}
    BY <1>5
  <2> HIDE DEF worst
  <2> QED BY <1>1, <1>2, <1>3, <1>5, <2>1 DEF RankOf
<1> QED BY <1>4, <1>5

(* Detections that are each outdone by one of another set are no worse     *)
(* together.                                                               *)
LEMMA OutdoneIsNoWorse ==
  ASSUME NEW ds, NEW es,
         \A d \in Breaching(ds) : \E e \in Breaching(es) : RankOf(d) <= RankOf(e)
  PROVE  SEVERITY_RANK[Classify(ds)] <= SEVERITY_RANK[Classify(es)]
<1>1. Classify(ds) \in Severity /\ Classify(es) \in Severity
  BY ClassifyFacts
<1>2. SEVERITY_RANK[Classify(ds)] \in 1..3 /\ SEVERITY_RANK[Classify(es)] \in 1..3
  BY <1>1, RankType
<1>3. CASE Breaching(ds) = {}
  <2>1. SEVERITY_RANK[Classify(ds)] = 1
    BY <1>3, ClassifyFacts DEF SEVERITY_RANK
  <2> QED BY <1>2, <2>1
<1>4. CASE Breaching(ds) # {}
  <2>1. PICK d \in Breaching(ds) : ClassifyDetection(d) = Classify(ds)
    BY <1>4, ClassifyFacts
  <2>2. PICK e \in Breaching(es) : RankOf(d) <= RankOf(e)
    OBVIOUS
  <2>3. RankOf(e) <= SEVERITY_RANK[Classify(es)]
    BY ClassifyFacts
  <2>4. RankOf(d) = SEVERITY_RANK[Classify(ds)] /\ RankOf(e) \in 1..3
    BY <2>1, ClassifyDetectionType, RankType DEF RankOf
  <2> QED BY <1>2, <2>2, <2>3, <2>4
<1> QED BY <1>3, <1>4

(***************************************************************************)
(* The situations                                                          *)
(***************************************************************************)
Situation ==
  /\ ctx \in Context /\ share \in Int
  /\ anomalies \subseteq {AnomalySpike, AnomalySustained}

LEMMA SituationInit == Init => Situation
  BY DEF Init, Situation, Context, HealthStatus, Metrics

LEMMA SituationStep == Situation /\ [Next]_vars => Situation'
<1> SUFFICES ASSUME Situation, [Next]_vars PROVE Situation'
  OBVIOUS
<1> USE DEF Situation
<1>1. CASE MetricsMove
  <2>1. ASSUME NEW m \in Metrics, ctx' = [ctx EXCEPT !.metrics = m] PROVE ctx' \in Context
    BY <2>1 DEF Context
  <2>2. CASE ctx.metrics = NoMetrics
    <3>1. PICK m \in MetricValues : ctx' = [ctx EXCEPT !.metrics = m]
      BY <1>1, <2>2 DEF MetricsMove
    <3>2. m \in Metrics
      BY CasesAssumption DEF MetricValues, Metrics
    <3> QED BY <1>1, <2>1, <3>1, <3>2 DEF MetricsMove
  <2>3. CASE ctx.metrics # NoMetrics
    <3>1. ctx.metrics \in Metrics
      BY <2>3 DEF Context
    <3>2. \E m \in Metrics : ctx' = [ctx EXCEPT !.metrics = m]
      <4>1. CASE \E v \in ErrorRates : ctx' = [ctx EXCEPT !.metrics.error_rate = v]
        <5>1. PICK v \in ErrorRates : ctx' = [ctx EXCEPT !.metrics.error_rate = v]
          BY <4>1
        <5>2. [ctx.metrics EXCEPT !.error_rate = v] \in Metrics
          BY <3>1, CasesAssumption DEF Metrics
        <5> QED BY <5>1, <5>2
      <4>2. CASE \E v \in Latencies : ctx' = [ctx EXCEPT !.metrics.p95_latency_ms = v]
        <5>1. PICK v \in Latencies : ctx' = [ctx EXCEPT !.metrics.p95_latency_ms = v]
          BY <4>2
        <5>2. [ctx.metrics EXCEPT !.p95_latency_ms = v] \in Metrics
          BY <3>1, CasesAssumption DEF Metrics
        <5> QED BY <5>1, <5>2
      <4>3. CASE \E v \in Confidences : ctx' = [ctx EXCEPT !.metrics.avg_confidence = v]
        <5>1. PICK v \in Confidences : ctx' = [ctx EXCEPT !.metrics.avg_confidence = v]
          BY <4>3
        <5>2. [ctx.metrics EXCEPT !.avg_confidence = v] \in Metrics
          BY <3>1, CasesAssumption DEF Metrics
        <5> QED BY <5>1, <5>2
      <4> QED BY <1>1, <2>3, <4>1, <4>2, <4>3 DEF MetricsMove
    <3> QED BY <1>1, <2>1, <3>2 DEF MetricsMove
  <2> QED BY <2>2, <2>3
<1>2. CASE MetricsLost
  BY <1>2 DEF MetricsLost, Context
<1>3. CASE PredictMove
  BY <1>3, CasesAssumption DEF PredictMove, Context
<1>4. CASE HealthMove
  <2>1. ASSUME NEW up \in BOOLEAN, NEW s \in HealthStatus, NEW n \in Int,
               ctx' = [ctx EXCEPT !.reachable = up, !.health_status = s, !.failures = n]
        PROVE  ctx' \in Context
    <3> DEFINE up1 == [ctx EXCEPT !.reachable = up]
               up2 == [up1 EXCEPT !.health_status = s]
    <3>1. up1 \in Context
      BY DEF Context
    <3>2. up2 \in Context
      <4> HIDE DEF up1
      <4> QED BY <3>1 DEF Context
    <3>3. ctx' = [up2 EXCEPT !.failures = n]
      BY <2>1
    <3> HIDE DEF up2
    <3> QED BY <3>2, <3>3 DEF Context
  <2>2. ctx' \in Context
    <3>1. ctx.failures + 1 \in Int
      BY DEF Context
    <3>2. CASE \E s \in {"healthy", "degraded"} :
                 ctx' = [ctx EXCEPT !.reachable = TRUE, !.health_status = s, !.failures = 0]
      <4>1. PICK s \in {"healthy", "degraded"} :
              ctx' = [ctx EXCEPT !.reachable = TRUE, !.health_status = s, !.failures = 0]
        BY <3>2
      <4>2. s \in HealthStatus /\ TRUE \in BOOLEAN /\ 0 \in Int
        BY DEF HealthStatus
      <4> HIDE DEF Situation
      <4> QED BY <2>1, <4>1, <4>2, Zenon
    <3>3. CASE \E up \in BOOLEAN :
                 ctx' = [ctx EXCEPT !.reachable = up, !.health_status = "unhealthy",
                                    !.failures = @ + 1]
      <4>1. PICK up \in BOOLEAN :
              ctx' = [ctx EXCEPT !.reachable = up, !.health_status = "unhealthy",
                                 !.failures = ctx.failures + 1]
        BY <3>3
      <4>2. "unhealthy" \in HealthStatus
        BY DEF HealthStatus
      <4> HIDE DEF Situation
      <4> QED BY <2>1, <3>1, <4>1, <4>2
    <3> QED BY <1>4, <3>2, <3>3 DEF HealthMove
  <2> QED BY <1>4, <2>2 DEF HealthMove
<1>5. CASE DetectorMove
  BY <1>5, CasesAssumption DEF DetectorMove
<1>6. CASE UNCHANGED vars
  BY <1>6 DEF vars
<1> QED BY <1>1, <1>2, <1>3, <1>4, <1>5, <1>6 DEF Next

LEMMA AlwaysSituation == Spec => []Situation
  BY SituationInit, SituationStep, PTL DEF Spec

LEMMA AnomaliesAreMinor ==
  /\ ClassifyDetection(AnomalySpike) = "LOW" /\ ClassifyDetection(AnomalySustained) = "MEDIUM"
  BY DEF ClassifyDetection, AnomalySpike, AnomalySustained, Detection

(* In every situation and for every setting: the evidence a decision       *)
(* carries has breached and is as severe as the decision (decision.py).    *)
THEOREM EvidenceExplains == Spec => []SignalExplainsSeverity
<1>1. SignalExplainsSeverity
  <2> DEFINE ds == Detections
             breaching == Breaching(ds)
             d == MakeDecision(ds, "model_a", "model_b", TRUE, FALSE)
  <2>1. d.severity = Classify(ds) /\ d.detection_signal = Worst(ds)
    BY DEF MakeDecision
  <2>2. breaching = {} <=> ~ \E e \in ds : e.anomaly_detected
    BY DEF Breaching
  <2>3. CASE breaching = {}
    BY <2>1, <2>2, <2>3, ClassifyFacts DEF SignalExplainsSeverity, Worst
  <2>4. CASE breaching # {}
    <3>1. PICK w \in breaching : ClassifyDetection(w) = Classify(ds)
      BY <2>4, ClassifyFacts
    <3>2. \A e \in breaching : RankOf(e) <= RankOf(w)
      BY <3>1, ClassifyFacts DEF RankOf
    <3>3. Worst(ds) = CHOOSE e \in breaching : \A f \in breaching : RankOf(f) <= RankOf(e)
      BY <2>4 DEF Worst
    <3>4. Worst(ds) \in breaching /\ \A f \in breaching : RankOf(f) <= RankOf(Worst(ds))
      BY <3>2, <3>3
    <3>5. RankOf(w) <= RankOf(Worst(ds)) /\ RankOf(Worst(ds)) <= RankOf(w)
      BY <3>2, <3>4
    <3>6. ClassifyDetection(Worst(ds)) = Classify(ds)
      BY <3>1, <3>5, ClassifyDetectionType, RankType, RankIsInjective DEF RankOf
    <3>7. Worst(ds) \in ds /\ Worst(ds).anomaly_detected
      BY <3>4 DEF Breaching
    <3> QED BY <2>1, <2>2, <2>4, <3>6, <3>7 DEF SignalExplainsSeverity
  <2> QED BY <2>3, <2>4
<1> QED BY <1>1, PTL

(* Whatever the anomaly detector reports, and for every setting, it does   *)
(* not decide whether traffic is moved (severity_classifier.py:80).        *)
THEOREM AnomaliesOnlyAlert == Spec => []AnomaliesNeverIntervene
<1>1. ASSUME NEW ds PROVE Classify(ds) = "HIGH" <=>
                            \E d \in Breaching(ds) : ClassifyDetection(d) = "HIGH"
  <2>1. ASSUME NEW d \in Breaching(ds), ClassifyDetection(d) = "HIGH"
        PROVE  Classify(ds) = "HIGH"
    <3>1. Classify(ds) \in Severity /\ 3 <= SEVERITY_RANK[Classify(ds)]
      BY <2>1, ClassifyFacts DEF RankOf, SEVERITY_RANK
    <3> QED BY <3>1 DEF Severity, SEVERITY_RANK
  <2> QED BY <2>1, ClassifyFacts
<1>2. Situation => AnomaliesNeverIntervene
  <2> SUFFICES ASSUME Situation PROVE AnomaliesNeverIntervene
    OBVIOUS
  <2>1. Classify(Detections) = "HIGH" <=> Classify(Detections \ anomalies) = "HIGH"
    <3>1. \A d \in anomalies : ClassifyDetection(d) # "HIGH"
      BY AnomaliesAreMinor DEF Situation
    <3>2. Breaching(Detections \ anomalies) = Breaching(Detections) \ anomalies
      BY DEF Breaching
    <3> QED BY <1>1, <3>1, <3>2
  <2>2. ASSUME NEW ds, NEW backup_healthy \in BOOLEAN
        PROVE  MakeDecision(ds, "model_a", "model_b", backup_healthy, FALSE).action
                   \in {"switch_backup", "disable_predictions"}
                 <=> Classify(ds) = "HIGH"
    BY ClassifyFacts DEF MakeDecision, ChooseAction, Severity
  <2> QED BY <2>1, <2>2 DEF AnomaliesNeverIntervene
<1> QED BY <1>2, AlwaysSituation, PTL

(* The rows of the threshold detector, one signal at a time.               *)
LEMMA ThresholdRows ==
  ASSUME NEW c, NEW d
  PROVE  d \in ThresholdDetect(c) <=>
           \/ Failing(c) /\ d = Breach("service_up", c.failures)
           \/ /\ c.inference_failure_rate > 10
              /\ d = Breach("inference_failure_rate", c.inference_failure_rate)
           \/ /\ c.metrics # NoMetrics /\ c.metrics.error_rate > 10
              /\ d = Breach("error_rate", c.metrics.error_rate)
           \/ /\ c.metrics # NoMetrics /\ c.metrics.p95_latency_ms > 150
              /\ d = Breach("p95_latency_ms", c.metrics.p95_latency_ms)
           \/ /\ c.metrics # NoMetrics
              /\ 0 < c.metrics.avg_confidence
              /\ c.metrics.avg_confidence <= settings.confidence_notable_floor
              /\ d = Breach("avg_confidence", c.metrics.avg_confidence)
           \/ /\ c.metrics # NoMetrics /\ settings.confidence_gating_enabled
              /\ c.low_confidence_ratio >= settings.low_confidence_ratio_med
              /\ d = Breach("low_confidence_ratio", c.low_confidence_ratio)
  BY Zenon DEF ThresholdDetect, When

LEMMA DriftRows ==
  ASSUME NEW x, NEW d
  PROVE  d \in Breaching(DriftDetect(x)) <=>
           \/ /\ x > 0
              /\ d = Detection("drift_detector", "data_drift_psi", x, TRUE, FALSE)
           \/ /\ x >= 300
              /\ d = Detection("drift_detector", "data_drift_aggregate", x, TRUE, FALSE)
<1> DEFINE psi == Detection("drift_detector", "data_drift_psi", x, TRUE, FALSE)
           Aggregate(b) == Detection("drift_detector", "data_drift_aggregate", x, b, FALSE)
<1>1. psi.anomaly_detected /\ \A b \in BOOLEAN : Aggregate(b).anomaly_detected = b
  BY DEF Detection
<1>2. DriftDetect(x) = (IF x > 0 THEN {psi} ELSE {}) \cup {Aggregate(x >= 300)}
  BY DEF DriftDetect, ShareThreshold, When
<1>3. CASE x >= 300
  <2>1. (x >= 300) = TRUE
    BY <1>3
  <2>2. DriftDetect(x) = (IF x > 0 THEN {psi} ELSE {}) \cup {Aggregate(TRUE)}
    BY <1>2, <2>1
  <2> HIDE DEF psi, Aggregate
  <2>3. d \in Breaching(DriftDetect(x)) <=> (x > 0 /\ d = psi) \/ d = Aggregate(TRUE)
    BY <1>1, <2>2 DEF Breaching
  <2> QED BY <1>3, <2>3 DEF psi, Aggregate
<1>4. CASE ~(x >= 300)
  <2>1. (x >= 300) = FALSE
    BY <1>4
  <2>2. DriftDetect(x) = (IF x > 0 THEN {psi} ELSE {}) \cup {Aggregate(FALSE)}
    BY <1>2, <2>1
  <2> HIDE DEF psi, Aggregate
  <2>3. d \in Breaching(DriftDetect(x)) <=> (x > 0 /\ d = psi)
    BY <1>1, <2>2 DEF Breaching
  <2> QED BY <1>4, <2>3 DEF psi
<1> QED BY <1>3, <1>4

(* Which detections breach.                                                *)
LEMMA DetectionCases ==
  ASSUME NEW c, NEW x, NEW as \in SUBSET {AnomalySpike, AnomalySustained}
  PROVE  Breaching(ThresholdDetect(c) \cup as \cup DriftDetect(x)) =
           ThresholdDetect(c) \cup as \cup Breaching(DriftDetect(x))
<1>1. \A d \in as : d.anomaly_detected
  <2>1. AnomalySpike.anomaly_detected /\ AnomalySustained.anomaly_detected
    BY DEF AnomalySpike, AnomalySustained, Detection
  <2> QED BY <2>1
<1>2. \A d \in ThresholdDetect(c) : d.anomaly_detected
  BY ThresholdRows DEF Breach, Detection
<1> QED BY <1>1, <1>2 DEF Breaching

(* The bands, per signal: the rank grows with the signal.                  *)
LEMMA BandsAscend ==
  /\ \A m \in {"error_rate", "inference_failure_rate", "p95_latency_ms",
               "low_confidence_ratio", "service_up"}, v, w \in Int :
       v <= w => RankOf(Breach(m, v)) <= RankOf(Breach(m, w))
  /\ \A v, w \in Int :
       w <= v => RankOf(Breach("avg_confidence", v)) <= RankOf(Breach("avg_confidence", w))
  /\ \A v, w \in Int :
       v <= w => RankOf(Detection("drift_detector", "data_drift_aggregate", v, TRUE, FALSE))
                   <= RankOf(Detection("drift_detector", "data_drift_aggregate", w, TRUE, FALSE))
<1> USE SettingsAssumption DEF Setting
<1>1. ASSUME NEW m \in {"error_rate", "inference_failure_rate", "p95_latency_ms",
                        "low_confidence_ratio", "service_up"},
             NEW v \in Int, NEW w \in Int, v <= w
      PROVE  RankOf(Breach(m, v)) <= RankOf(Breach(m, w))
  BY <1>1 DEF RankOf, Breach, Detection, ClassifyDetection, ClassifyThreshold,
              BandAscending, SEVERITY_RANK
<1>2. ASSUME NEW v \in Int, NEW w \in Int, w <= v
      PROVE  RankOf(Breach("avg_confidence", v)) <= RankOf(Breach("avg_confidence", w))
  BY <1>2 DEF RankOf, Breach, Detection, ClassifyDetection, ClassifyThreshold, SEVERITY_RANK
<1>3. ASSUME NEW v \in Int, NEW w \in Int, v <= w
      PROVE  RankOf(Detection("drift_detector", "data_drift_aggregate", v, TRUE, FALSE))
               <= RankOf(Detection("drift_detector", "data_drift_aggregate", w, TRUE, FALSE))
  BY <1>3 DEF RankOf, Detection, ClassifyDetection, ClassifyDrift, SEVERITY_RANK
<1> QED BY <1>1, <1>2, <1>3

(* No setting makes the engine judge a model less severely that got worse: *)
(* every detection is outdone by the one of the same signal                *)
(* (threshold_detector.py and severity_classifier.py, however their        *)
(* constants are set).                                                     *)
THEOREM WorseIsNeverRelaxed == Spec => NeverRelaxes
<1>1. ASSUME Situation, Situation', Worse
      PROVE  SEVERITY_RANK[Classify(Detections)] <= SEVERITY_RANK[Classify(Detections')]
  <2> DEFINE new == Breaching(Detections')
  <2>1. /\ Breaching(Detections) =
             ThresholdDetect(ctx) \cup anomalies \cup Breaching(DriftDetect(share))
        /\ new = ThresholdDetect(ctx') \cup anomalies' \cup Breaching(DriftDetect(share'))
    BY <1>1, DetectionCases DEF Situation, Detections
  <2> HIDE DEF new
  <2>2. /\ share \in Int /\ share' \in Int /\ share' >= share
        /\ anomalies \subseteq anomalies'
    BY <1>1 DEF Situation, Worse
  <2>3. /\ ctx.failures \in Int /\ ctx'.failures \in Int
        /\ ctx.inference_failure_rate \in Int /\ ctx'.inference_failure_rate \in Int
        /\ ctx.low_confidence_ratio \in Int /\ ctx'.low_confidence_ratio \in Int
        /\ ctx'.failures >= ctx.failures
        /\ ctx'.inference_failure_rate >= ctx.inference_failure_rate
        /\ ctx'.low_confidence_ratio >= ctx.low_confidence_ratio
        /\ Failing(ctx) => Failing(ctx')
    BY <1>1 DEF Situation, Context, Worse
  <2>4. ctx.metrics # NoMetrics =>
          /\ ctx.metrics \in Metrics /\ ctx'.metrics \in Metrics /\ ctx'.metrics # NoMetrics
          /\ ctx'.metrics.error_rate >= ctx.metrics.error_rate
          /\ ctx'.metrics.p95_latency_ms >= ctx.metrics.p95_latency_ms
          /\ ctx.metrics.avg_confidence > 0 =>
               ctx'.metrics.avg_confidence \in 1..ctx.metrics.avg_confidence
    BY <1>1 DEF Situation, Context, Worse, WorseMetrics
  <2>5. ASSUME NEW d \in ThresholdDetect(ctx) PROVE \E e \in new : RankOf(d) <= RankOf(e)
    <3>1. CASE Failing(ctx) /\ d = Breach("service_up", ctx.failures)
      <4>1. Breach("service_up", ctx'.failures) \in new
        BY <2>1, <2>3, <3>1, ThresholdRows
      <4> QED BY <2>3, <3>1, <4>1, BandsAscend
    <3>2. CASE /\ ctx.inference_failure_rate > 10
               /\ d = Breach("inference_failure_rate", ctx.inference_failure_rate)
      <4>1. ctx'.inference_failure_rate > 10
        BY <2>3, <3>2
      <4>2. Breach("inference_failure_rate", ctx'.inference_failure_rate) \in new
        BY <2>1, <4>1, ThresholdRows
      <4> QED BY <2>3, <3>2, <4>2, BandsAscend
    <3>3. CASE /\ ctx.metrics # NoMetrics /\ ctx.metrics.error_rate > 10
               /\ d = Breach("error_rate", ctx.metrics.error_rate)
      <4>1. /\ ctx.metrics.error_rate \in Int /\ ctx'.metrics.error_rate \in Int
            /\ ctx'.metrics.error_rate > 10
        BY <2>4, <3>3 DEF Metrics
      <4>2. Breach("error_rate", ctx'.metrics.error_rate) \in new
        BY <2>1, <2>4, <3>3, <4>1, ThresholdRows
      <4> QED BY <2>4, <3>3, <4>1, <4>2, BandsAscend
    <3>4. CASE /\ ctx.metrics # NoMetrics /\ ctx.metrics.p95_latency_ms > 150
               /\ d = Breach("p95_latency_ms", ctx.metrics.p95_latency_ms)
      <4>1. /\ ctx.metrics.p95_latency_ms \in Int /\ ctx'.metrics.p95_latency_ms \in Int
            /\ ctx'.metrics.p95_latency_ms > 150
        BY <2>4, <3>4 DEF Metrics
      <4>2. Breach("p95_latency_ms", ctx'.metrics.p95_latency_ms) \in new
        BY <2>1, <2>4, <3>4, <4>1, ThresholdRows
      <4> QED BY <2>4, <3>4, <4>1, <4>2, BandsAscend
    <3>5. CASE /\ ctx.metrics # NoMetrics /\ 0 < ctx.metrics.avg_confidence
               /\ ctx.metrics.avg_confidence <= settings.confidence_notable_floor
               /\ d = Breach("avg_confidence", ctx.metrics.avg_confidence)
      <4>1. /\ ctx.metrics.avg_confidence \in Int /\ ctx'.metrics.avg_confidence \in Int
            /\ 0 < ctx'.metrics.avg_confidence
            /\ ctx'.metrics.avg_confidence <= ctx.metrics.avg_confidence
            /\ ctx'.metrics.avg_confidence <= settings.confidence_notable_floor
        BY <2>4, <3>5, SettingsAssumption DEF Metrics, Setting
      <4>2. Breach("avg_confidence", ctx'.metrics.avg_confidence) \in new
        BY <2>1, <2>4, <3>5, <4>1, ThresholdRows
      <4> QED BY <3>5, <4>1, <4>2, BandsAscend
    <3>6. CASE /\ ctx.metrics # NoMetrics /\ settings.confidence_gating_enabled
               /\ ctx.low_confidence_ratio >= settings.low_confidence_ratio_med
               /\ d = Breach("low_confidence_ratio", ctx.low_confidence_ratio)
      <4>1. ctx'.low_confidence_ratio >= settings.low_confidence_ratio_med
        BY <2>3, <3>6, SettingsAssumption DEF Setting
      <4>2. Breach("low_confidence_ratio", ctx'.low_confidence_ratio) \in new
        BY <2>1, <2>4, <3>6, <4>1, ThresholdRows
      <4> QED BY <2>3, <3>6, <4>2, BandsAscend
    <3> QED BY <2>5, <3>1, <3>2, <3>3, <3>4, <3>5, <3>6, ThresholdRows
  <2>6. ASSUME NEW d \in anomalies PROVE \E e \in new : RankOf(d) <= RankOf(e)
    <3>1. d \in new /\ RankOf(d) \in Int
      BY <2>1, <2>2, ClassifyDetectionType, RankType DEF RankOf
    <3> QED BY <3>1
  <2>7. ASSUME NEW d \in Breaching(DriftDetect(share))
        PROVE  \E e \in new : RankOf(d) <= RankOf(e)
    <3>1. CASE /\ share > 0
               /\ d = Detection("drift_detector", "data_drift_psi", share, TRUE, FALSE)
      <4> DEFINE psi == Detection("drift_detector", "data_drift_psi", share', TRUE, FALSE)
      <4>1. share' > 0
        BY <2>2, <3>1
      <4>2. psi \in new
        BY <2>1, <4>1, DriftRows
      <4>3. RankOf(d) = 1 /\ RankOf(psi) = 1
        BY <3>1 DEF RankOf, ClassifyDetection, ClassifyDrift, Detection, SEVERITY_RANK
      <4> HIDE DEF psi
      <4>4. RankOf(d) <= RankOf(psi)
        BY <4>3
      <4> QED BY <4>2, <4>4
    <3>2. CASE /\ share >= 300
               /\ d = Detection("drift_detector", "data_drift_aggregate", share, TRUE, FALSE)
      <4>1. share' >= 300
        BY <2>2, <3>2
      <4>2. Detection("drift_detector", "data_drift_aggregate", share', TRUE, FALSE) \in new
        BY <2>1, <4>1, DriftRows
      <4> QED BY <2>2, <3>2, <4>2, BandsAscend
    <3> QED BY <2>7, <3>1, <3>2, DriftRows
  <2> QED BY <2>1, <2>5, <2>6, <2>7, OutdoneIsNoWorse DEF new
<1>2. Situation /\ Situation' =>
        [Worse => SEVERITY_RANK[Classify(Detections)]
                    <= SEVERITY_RANK[Classify(Detections')]]_vars
  BY <1>1
<1> QED BY <1>2, AlwaysSituation, PTL DEF NeverRelaxes

(* For every setting: a model VERIFY accepts after it has served traffic   *)
(* is not HIGH for what VERIFY looked at (health_check.py:25, and the      *)
(* bands of severity_classifier.py).                                       *)
THEOREM AcceptedIsNotHigh == Spec => []VerifiedIsNotHigh
<1>1. ASSUME Situation, Recovered(ProbeNow(TRUE)), QuietElsewhere,
             ctx.metrics # NoMetrics =>
               ctx.metrics.p95_latency_ms <= settings.p95_latency_threshold_ms,
             NEW d \in Breaching(Detections)
      PROVE  ClassifyDetection(d) # "HIGH"
  <2> USE SettingsAssumption DEF Setting
  <2>1. ~Failing(ctx)
    BY <1>1 DEF Recovered, ProbeNow, Failing
  <2>2. ctx.metrics # NoMetrics =>
          /\ ctx.metrics \in Metrics
          /\ ctx.metrics.error_rate <= settings.error_rate_threshold
          /\ ctx.metrics.avg_confidence >= settings.confidence_floor
          /\ ctx.metrics.p95_latency_ms <= settings.p95_latency_threshold_ms
    BY <1>1 DEF Recovered, ProbeNow, HasTraffic, Situation, Context
  <2>3. d \in ThresholdDetect(ctx) \cup anomalies \cup Breaching(DriftDetect(share))
    BY <1>1, DetectionCases DEF Situation, Detections
  <2>4. CASE d \in ThresholdDetect(ctx)
    <3>1. CASE d = Breach("inference_failure_rate", ctx.inference_failure_rate)
      BY <1>1, <3>1 DEF QuietElsewhere, Situation, Context, ClassifyDetection,
                        ClassifyThreshold, BandAscending, Breach, Detection
    <3>2. CASE /\ ctx.metrics # NoMetrics
               /\ d = Breach("error_rate", ctx.metrics.error_rate)
      BY <2>2, <3>2 DEF Metrics, ClassifyDetection, ClassifyThreshold, BandAscending,
                        Breach, Detection
    <3>3. CASE /\ ctx.metrics # NoMetrics
               /\ d = Breach("p95_latency_ms", ctx.metrics.p95_latency_ms)
      BY <2>2, <3>3 DEF Metrics, ClassifyDetection, ClassifyThreshold, BandAscending,
                        Breach, Detection
    <3>4. CASE /\ ctx.metrics # NoMetrics
               /\ d = Breach("avg_confidence", ctx.metrics.avg_confidence)
      BY <2>2, <3>4 DEF Metrics, ClassifyDetection, ClassifyThreshold, Breach, Detection
    <3>5. CASE /\ settings.confidence_gating_enabled
               /\ d = Breach("low_confidence_ratio", ctx.low_confidence_ratio)
      BY <1>1, <3>5 DEF QuietElsewhere, Situation, Context, ClassifyDetection,
                        ClassifyThreshold, Breach, Detection
    <3> QED BY <2>1, <2>4, <3>1, <3>2, <3>3, <3>4, <3>5, ThresholdRows
  <2>5. CASE d \in anomalies
    BY <1>1, <2>5, AnomaliesAreMinor DEF Situation
  <2>6. CASE d \in Breaching(DriftDetect(share))
    BY <1>1, <2>6, DriftRows
    DEF QuietElsewhere, Situation, ClassifyDetection, ClassifyDrift, Detection
  <2> QED BY <2>3, <2>4, <2>5, <2>6
<1>2. Situation => VerifiedIsNotHigh
  BY <1>1, ClassifyFacts DEF VerifiedIsNotHigh
<1> QED BY <1>2, AlwaysSituation, PTL
===============================================================================
