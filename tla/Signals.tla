-------------------------------- MODULE Signals --------------------------------
(***************************************************************************)
(* From the services to the severity: the agent's probes feed the rolling  *)
(* window of the model that serves, /metrics reads it back, the detectors  *)
(* judge it, and VERIFY reads the window of the model it has just          *)
(* promoted.  Here what AgentLoop takes as an observation is derived.      *)
(*                                                                         *)
(*   predict -> observe -> act [-> verify -> confirm] -> predict           *)
(*                                                                         *)
(* Services fail, recover and restart between any two requests.  The       *)
(* anti-flap gates of the loop appear as the choice not to act.            *)
(***************************************************************************)
EXTENDS ModelService, AnomalyDetector, HealthCheck

CONSTANTS
  Batch,       \* rows the prediction probe sends per tick
  VerifyRetries,   \* AGENT_VERIFY_RETRIES
  NoModel,     \* no model was demoted (None in the source)
  Moves        \* per model: which changes of its service happen

VARIABLES
  pc,          \* the next step of the tick
  active,      \* AgentRuntime.active_model
  previous,    \* AgentRuntime.previous_model, during the tick of the switch
  failures,    \* consecutive_health_failures, saturating
  sent,        \* rows sent in this tick
  failed,      \* of them, how many had no 200 in time
  health,      \* what GET /health last answered
  severity,    \* the severity of the tick
  ready,       \* the backup's health, as OBSERVE read it
  attempt,     \* probes VERIFY has made
  (* History variables: nothing below influences a step.                   *)
  steady,      \* metrics-bearing ticks in a row with the same values, at most W + 1
  anomalous,   \* the tick reported an anomaly
  missed,      \* a prediction of the tick had no 200 in time
  condemned    \* models that lost their traffic with a breaching window,
               \* and have not been restarted since

tickVars    == <<pc, active, previous, failures, sent, failed, health,
                 severity, ready, attempt>>
historyVars == <<steady, anomalous, missed, condemned>>
vars        == <<serviceVars, detectorVars, tickVars, historyVars>>

ASSUME SignalsAssumption ==
  /\ Batch \in Nat \ {0} /\ NoModel \notin Models
  /\ Cardinality(Models) = 2
  /\ Moves \in [Models -> SUBSET {"fault", "stop"}]
  /\ Tracked \subseteq {"error_rate", "p95_latency_ms", "avg_confidence"}

Other(m) == CHOOSE n \in Models : n # m

Healthy == [reachable |-> TRUE, health_status |-> "healthy"]

Init ==
  /\ ServiceInit /\ DetectorInit
  /\ pc = "predict" /\ active \in Models /\ previous = NoModel
  /\ failures = 0 /\ sent = 0 /\ failed = 0 /\ health = Healthy
  /\ severity = "LOW" /\ ready = FALSE /\ attempt = 0
  /\ steady = 0 /\ anomalous = FALSE /\ missed = FALSE /\ condemned = {}

(***************************************************************************)
(* What the probes find: GET /health answers 503 with a body when the      *)
(* artifact is missing, and GET /metrics answers 503 then.                 *)
(***************************************************************************)
HealthOf(m) ==
  [reachable     |-> status[m] # "down",
   health_status |-> IF Loaded(m) THEN "healthy" ELSE "unhealthy"]

MetricsOf(m) == IF Loaded(m) THEN Snapshot(window[m]) ELSE NoMetrics

(* Faulty form: an exception does not count, only an answer other than 200. *)
CountAnswers(outcome) ==
  IF outcome.answered \/ outcome.sample = NoSample THEN failed ELSE failed + 1

Count(outcome) == IF outcome.answered THEN failed ELSE failed + 1

(* probe_predictions: one row.                                             *)
PredictRow ==
  /\ pc = "predict" /\ sent < Batch
  /\ \E outcome \in Outcomes(active) :
       /\ Predict(active, outcome)
       /\ failed' = Count(outcome)
       /\ missed' = (missed \/ ~outcome.answered)
  /\ sent' = sent + 1
  /\ UNCHANGED <<detectorVars, pc, active, previous, failures, health, severity, ready, attempt,
                 steady, anomalous, condemned>>

InferenceFailureRate == (1000 * failed) \div Batch

Saturated(n) ==
  IF n > settings["consecutive_failures_to_switch"] THEN n - 1 ELSE n

(* GET /health and GET /metrics are two requests.                          *)
ReadHealth ==
  /\ \/ pc = "predict" /\ sent = Batch /\ pc' = "observe"
     \/ pc = "verify" /\ pc' = "confirm"
  /\ health' = HealthOf(active)
  /\ UNCHANGED <<serviceVars, detectorVars, active, previous, failures, sent, failed,
                 severity, ready, attempt, historyVars>>

(* OBSERVE, DETECT and the severity.  Without metrics the anomaly detector *)
(* is not asked, and its counters stay as they are.                        *)
Observe ==
  LET metrics == MetricsOf(active)
      ctx == [reachable |-> health.reachable, health_status |-> health.health_status,
              failures  |-> failures', inference_failure_rate |-> InferenceFailureRate,
              low_confidence_ratio |-> 0, metrics |-> metrics] IN
  /\ pc = "observe" /\ pc' = "act"
  /\ ready' = (HealthOf(Other(active)) = Healthy)
  /\ failures' = IF Failing(health) THEN Saturated(failures + 1) ELSE 0
  /\ IF metrics = NoMetrics
     THEN /\ severity' = Classify(ThresholdDetect(ctx)) /\ anomalous' = FALSE
          /\ UNCHANGED <<detectorVars, steady>>
     ELSE \E breached \in SUBSET Tracked :
            /\ Evaluate(metrics, breached)
            /\ severity' = Classify(ThresholdDetect(ctx)
                 \cup {IF Pattern(k) = "sustained" THEN AnomalySustained
                       ELSE AnomalySpike : k \in breached})
            /\ anomalous' = (breached # {})
            /\ steady' = IF \A k \in Tracked : /\ hist[k] # <<>>
                                               /\ hist[k][Len(hist[k])] = metrics[k]
                         THEN IF steady > W THEN steady ELSE steady + 1
                         ELSE 1
  /\ UNCHANGED <<serviceVars, active, previous, sent, failed, health, attempt, missed,
                 condemned>>

(* The locals of run_tick start afresh.                                    *)
NextTick ==
  /\ pc' = "predict" /\ sent' = 0 /\ failed' = 0 /\ health' = Healthy
  /\ severity' = "LOW" /\ ready' = FALSE /\ attempt' = 0 /\ previous' = NoModel
  /\ anomalous' = FALSE /\ missed' = FALSE

Keep ==
  /\ pc = "act" /\ NextTick
  /\ UNCHANGED <<serviceVars, detectorVars, active, failures, steady, condemned>>

Switch ==
  /\ pc = "act" /\ severity = "HIGH" /\ ready
  /\ pc' = "verify" /\ active' = Other(active) /\ previous' = active
  /\ UNCHANGED <<serviceVars, detectorVars, failures, sent, failed, health, severity, ready,
                 attempt, historyVars>>

ProbeWith(answer, m) ==
  [reachable |-> answer.reachable, health_status |-> answer.health_status,
   served |-> Loaded(m) /\ window[m] # <<>>, metrics |-> MetricsOf(m)]

(* The window speaks against m, whatever its service is like by now.       *)
Breaches(m) ==
  LET seen == Snapshot(window[m]) IN
  /\ window[m] # <<>>
  /\ ~ /\ seen.error_rate <= settings.error_rate_threshold
       /\ seen.avg_confidence >= settings.confidence_floor

Confirmed ==
  /\ NextTick
  /\ condemned' = condemned \cup {m \in {previous} : Breaches(m)}
  /\ UNCHANGED active

ProbeAgain ==
  /\ attempt + 1 < VerifyRetries
  /\ attempt' = attempt + 1 /\ pc' = "verify"
  /\ UNCHANGED <<active, previous, sent, failed, health, severity, ready, anomalous, missed,
                 condemned>>

RollBack ==
  /\ attempt + 1 >= VerifyRetries
  /\ NextTick /\ active' = previous
  /\ UNCHANGED condemned

(* VERIFY: the promoted model is confirmed, or after the last attempt      *)
(* traffic goes back.                                                      *)
Confirm ==
  /\ pc = "confirm"
  /\ IF Recovered(ProbeWith(health, active)) THEN Confirmed ELSE ProbeAgain \/ RollBack
  /\ UNCHANGED <<serviceVars, detectorVars, failures, steady>>

ServiceMoves ==
  /\ \E m \in Models :
       \/ "fault" \in Moves[m] /\ FaultMoves(m) /\ UNCHANGED condemned
       \/ "stop" \in Moves[m] /\ Stop(m) /\ condemned' = condemned \ {m}
       \/ "stop" \in Moves[m] /\ Restart(m) /\ UNCHANGED condemned
  /\ UNCHANGED <<detectorVars, tickVars, steady, anomalous, missed>>

Tick == PredictRow \/ ReadHealth \/ Observe \/ Keep \/ Switch \/ Confirm

Next == Tick \/ ServiceMoves

Spec == Init /\ [][Next]_vars

(* Every probe has a timeout and the loop never waits: ticks go on.        *)
LiveSpec == Spec /\ WF_vars(Tick)
-------------------------------------------------------------------------------

TypeOK ==
  /\ status \in [Models -> Status]
  /\ window \in [Models -> Seq(Sample)] /\ \A m \in Models : Len(window[m]) <= WindowSize
  /\ hist \in [Tracked -> Seq(Int)] /\ \A k \in Tracked : Len(hist[k]) <= W
  /\ consec \in [Tracked -> 0..NSustain]
  /\ pc \in {"predict", "observe", "act", "verify", "confirm"}
  /\ active \in Models /\ previous \in Models \cup {NoModel} /\ previous # active
  /\ failures \in Nat /\ sent \in 0..Batch /\ failed \in 0..sent
  /\ health \in [reachable : BOOLEAN, health_status : HealthStatus]
  /\ severity \in Severity /\ ready \in BOOLEAN /\ attempt \in Nat
  /\ steady \in 0..(W + 1) /\ anomalous \in BOOLEAN /\ missed \in BOOLEAN
  /\ condemned \subseteq Models

(* A tick in which a prediction got no answer is never LOW, also when the  *)
(* service counts none of it: it was restarted before /metrics was read,   *)
(* its reply came too late, or the request never arrived: what             *)
(* probe_predictions counts and what the window holds are two witnesses.   *)
FailuresAreNotLow == (pc = "act" /\ missed) => severity # "LOW"

(* A model that lost its traffic with a breaching window is idle: no       *)
(* request can push the bad samples out.  However sound it has become, it  *)
(* is not accepted again before its process is restarted, so a switch back *)
(* to it always ends in a rollback (metrics.py: the window counts requests *)
(* and does not age).                                                      *)
IdleWindowIsFinal == active \in condemned => pc \in {"verify", "confirm"}

(* The baseline follows the signal: values that stay as they are for W     *)
(* ticks are no anomaly, whichever model and whichever fault the history   *)
(* began with (evaluate appends every value, the breaching ones too).      *)
SteadyIsNormal == steady > W => ~anomalous

(* A fault that is over is judged LOW in the end: the window lets go of    *)
(* the old errors, the counters of health failures and anomalies are reset *)
(* and the history of the detector adapts, while the model keeps traffic.  *)
RecoveryIsSeen ==
  \A m \in Models :
    <>[](active = m /\ status[m] = "sound") => <>[](pc = "act" => severity = "LOW")
===============================================================================
