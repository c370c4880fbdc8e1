------------------------------ MODULE AgentProofs ------------------------------
(***************************************************************************)
(* Proofs about AgentLoop, for every setting, every window and cooldown,   *)
(* any observations and probes, both executors and any faults: its types   *)
(* first, then the anti-flapping gates, then where traffic ends up and     *)
(* what is told about it.                                                  *)
(***************************************************************************)
EXTENDS AgentLoop, TLAPS

(***************************************************************************)
(* The decision                                                            *)
(***************************************************************************)
LEMMA ClassifyDetectionType == ASSUME NEW d PROVE ClassifyDetection(d) \in Severity
  BY DEF ClassifyDetection, ClassifyThreshold, ClassifyDrift, BandAscending, Severity

(* A set of severities that is not empty has a worst member.               *)
LEMMA ClassifyType == ASSUME NEW ds PROVE Classify(ds) \in Severity
<1> DEFINE found == {ClassifyDetection(d) : d \in Breaching(ds)}
<1>1. found \subseteq Severity
  BY ClassifyDetectionType
<1>2. CASE found = {}
  BY <1>2 DEF Classify, Severity
<1>3. CASE found # {}
  <2> HIDE DEF found
  <2>1. \E s \in found : \A t \in found : SEVERITY_RANK[t] <= SEVERITY_RANK[s]
    <3>1. CASE "HIGH" \in found
      BY <1>1, <3>1 DEF Severity, SEVERITY_RANK
    <3>2. CASE "HIGH" \notin found /\ "MEDIUM" \in found
      BY <1>1, <3>2 DEF Severity, SEVERITY_RANK
    <3>3. CASE "HIGH" \notin found /\ "MEDIUM" \notin found
      <4>1. found = {"LOW"}
        BY <1>1, <1>3, <3>3 DEF Severity
      <4> QED BY <4>1 DEF SEVERITY_RANK
    <3> QED BY <3>1, <3>2, <3>3
  <2>2. (CHOOSE s \in found : \A t \in found : SEVERITY_RANK[t] <= SEVERITY_RANK[s])
          \in found
    BY <2>1
  <2> QED BY <1>1, <1>3, <2>2 DEF Classify, found
<1> QED BY <1>2, <1>3

(* What the policy promises whatever was detected: an intervention is      *)
(* never gated, nothing but the gate keeps one back while the severity is  *)
(* HIGH, and a switch goes to the backup.                                  *)
LEMMA DecisionFacts ==
  ASSUME NEW ds, NEW a, NEW b, NEW h \in BOOLEAN, NEW g \in BOOLEAN
  PROVE  LET d == MakeDecision(ds, a, b, h, g) IN
         /\ d.action \in ActionType /\ d.severity = Classify(ds)
         /\ d.target_model \in {a, b}
         /\ d.action \in Interventions => ~g
         /\ d.severity = "HIGH" /\ ~g => d.action \in Interventions
         /\ d.action = "switch_backup" => d.target_model = b
  BY ClassifyType DEF MakeDecision, ChooseAction, ActionType, Severity, Interventions

(* The effect of OBSERVE, DETECT and DECIDE on what the invariants speak   *)
(* of, whatever was observed.                                              *)
LEMMA DecideFacts ==
  ASSUME TypeOK, NEW o, o.backup_healthy \in BOOLEAN, Decide(o)
  PROVE  /\ rt' \in Runtime /\ tick' \in TickLocals
         /\ rt'.active_model = rt.active_model
         /\ rt'.previous_model = rt.previous_model
         /\ rt'.cooldown_remaining = rt.cooldown_remaining
         /\ rt'.consecutive_non_low =
              IF tick'.severity # "LOW"
              THEN AtMost(rt.consecutive_non_low + 1, ConfirmN) ELSE 0
         /\ tick'.active = rt.active_model
         /\ ~tick'.executed /\ ~tick'.recovered /\ ~tick'.action_id /\ ~tick'.lost
         /\ tick'.action \in Interventions =>
              rt'.consecutive_non_low = ConfirmN /\ rt.cooldown_remaining = 0
         /\ /\ tick'.severity = "HIGH"
            /\ rt'.consecutive_non_low = ConfirmN /\ rt.cooldown_remaining = 0
            => tick'.action \in Interventions
         /\ tick'.action = "switch_backup" => tick'.target = BackupModel(rt.active_model)
         /\ witnessed' =
              [model |-> rt.active_model,
               ticks |-> IF tick'.severity = "LOW" THEN 0
                         ELSE IF witnessed.model = rt.active_model
                         THEN AtMost(witnessed.ticks + 1, ConfirmN) ELSE 1]
<1> DEFINE failures ==
             IF Failing(o)
             THEN AtMost(rt.consecutive_health_failures + 1,
                         settings.consecutive_failures_to_switch)
             ELSE 0
           ctx == [reachable |-> o.reachable, health_status |-> o.health_status,
                   failures |-> failures, metrics |-> o.metrics,
                   inference_failure_rate |-> o.inference_failure_rate,
                   low_confidence_ratio |-> o.low_confidence_ratio]
           detections == ThresholdDetect(ctx) \cup o.anomalies \cup DriftDetect(o.share)
           nonLow == IF Classify(detections) # "LOW"
                     THEN AtMost(rt.consecutive_non_low + 1, ConfirmN) ELSE 0
           gated == nonLow < ConfirmN \/ rt.cooldown_remaining > 0
           decision == MakeDecision(detections, rt.active_model,
                                    BackupModel(rt.active_model), o.backup_healthy, gated)
<1>1. /\ rt' = [rt EXCEPT !.consecutive_health_failures = failures,
                          !.consecutive_non_low = nonLow]
      /\ tick' = [NoTick EXCEPT !.active = rt.active_model, !.action = decision.action,
                                !.severity = decision.severity,
                                !.target = decision.target_model]
      /\ witnessed' =
           [model |-> rt.active_model,
            ticks |-> CASE decision.severity = "LOW" -> 0
                        [] decision.severity # "LOW" /\ witnessed.model = rt.active_model ->
                             AtMost(witnessed.ticks + 1, ConfirmN)
                        [] OTHER -> 1]
  BY DEF Decide
<1>2. failures \in Int
  BY SettingsAssumption DEF Setting, AtMost, TypeOK, Runtime
<1>3. nonLow \in 0..ConfirmN
  BY LoopAssumption DEF AtMost, TypeOK, Runtime
<1>4. /\ decision.action \in ActionType
      /\ decision.severity = Classify(detections) /\ decision.severity \in Severity
      /\ decision.target_model \in {rt.active_model, BackupModel(rt.active_model)}
      /\ decision.action \in Interventions => ~gated
      /\ decision.severity = "HIGH" /\ ~gated => decision.action \in Interventions
      /\ decision.action = "switch_backup" =>
           decision.target_model = BackupModel(rt.active_model)
  <2>1. gated \in BOOLEAN
    OBVIOUS
  <2> HIDE DEF gated, detections
  <2> QED BY <2>1, DecisionFacts, ClassifyType
<1>5. rt.active_model \in MODELS /\ BackupModel(rt.active_model) \in MODELS
  BY DEF TypeOK, Runtime, MODELS, BackupModel
<1>6. rt.cooldown_remaining \in Nat /\ rt \in Runtime
  BY DEF TypeOK, Runtime
<1> HIDE DEF failures, ctx, detections, nonLow, gated, decision
<1>7. /\ rt' \in Runtime
      /\ rt'.active_model = rt.active_model /\ rt'.previous_model = rt.previous_model
      /\ rt'.cooldown_remaining = rt.cooldown_remaining
      /\ rt'.consecutive_non_low = nonLow
  BY <1>1, <1>2, <1>3, <1>6 DEF Runtime
<1>8. tick' = [active |-> rt.active_model, action |-> decision.action,
               severity |-> decision.severity, target |-> decision.target_model,
               executed |-> FALSE, outcome |-> "success", action_id |-> FALSE,
               attempt |-> 0, recovered |-> FALSE, lost |-> FALSE]
  BY <1>1 DEF NoTick
<1>9. tick' \in TickLocals
  BY <1>4, <1>5, <1>8 DEF TickLocals
<1>10. ~gated <=> nonLow = ConfirmN /\ rt.cooldown_remaining = 0
  BY <1>3, <1>6, LoopAssumption DEF gated
<1>11. nonLow = IF tick'.severity # "LOW"
                THEN AtMost(rt.consecutive_non_low + 1, ConfirmN) ELSE 0
  BY <1>4, <1>8 DEF nonLow
<1>12. /\ tick'.active = rt.active_model /\ tick'.severity = decision.severity
       /\ tick'.action = decision.action /\ tick'.target = decision.target_model
       /\ ~tick'.executed /\ ~tick'.recovered /\ ~tick'.action_id /\ ~tick'.lost
  BY <1>8
<1>13. witnessed' =
         [model |-> rt.active_model,
          ticks |-> IF tick'.severity = "LOW" THEN 0
                    ELSE IF witnessed.model = rt.active_model
                    THEN AtMost(witnessed.ticks + 1, ConfirmN) ELSE 1]
  BY <1>1, <1>12
<1> QED BY <1>4, <1>7, <1>9, <1>10, <1>11, <1>12, <1>13

(* Both ways to observe are a decision on something that was seen.         *)
LEMMA ObserveDecides ==
  Observe \/ ObserveError => \E o : o.backup_healthy \in BOOLEAN /\ Decide(o)
<1> SUFFICES ASSUME Observe \/ ObserveError
             PROVE  \E o : o.backup_healthy \in BOOLEAN /\ Decide(o)
  OBVIOUS
<1>1. CASE Observe
  BY <1>1, LoopAssumption DEF Observe, Observation
<1>2. CASE ObserveError
  <2>1. PICK o \in Observations :
          Decide([o EXCEPT !.reachable = FALSE, !.health_status = "unhealthy",
                     !.inference_failure_rate = 1000, !.low_confidence_ratio = 0,
                     !.metrics = NoMetrics, !.anomalies = {}, !.backup_healthy = FALSE])
    BY <1>2 DEF ObserveError
  <2> DEFINE seen == [o EXCEPT !.reachable = FALSE, !.health_status = "unhealthy",
                     !.inference_failure_rate = 1000, !.low_confidence_ratio = 0,
                     !.metrics = NoMetrics, !.anomalies = {}, !.backup_healthy = FALSE]
  <2>2. seen.backup_healthy \in BOOLEAN
    BY LoopAssumption DEF Observation
  <2>3. Decide(seen)
    BY <2>1
  <2> HIDE DEF seen
  <2> QED BY <2>2, <2>3
<1> QED BY <1>1, <1>2
(***************************************************************************)
(* Types.  A row whose id is known exists, and a switch names the backup:  *)
(* without the two the types are not inductive.                            *)
(***************************************************************************)
TickSane ==
  /\ tick.action_id => row \in AuditRow
  /\ pc \in {"act", "record"} => ~tick.action_id
  /\ tick.action = "switch_backup" =>
       tick.active \in MODELS /\ tick.target = BackupModel(tick.active)

Base == TypeOK /\ TickSane

LEMMA BackupType == ASSUME NEW m \in MODELS PROVE BackupModel(m) \in MODELS \ {m}
  BY DEF MODELS, BackupModel

LEMMA FreshTick == NoTick \in TickLocals /\ NoTick.action = "no_op" /\ ~NoTick.action_id
  BY DEF NoTick, TickLocals, ActionType, Severity

LEMMA FreshRuntimeType == ASSUME NEW m \in MODELS PROVE FreshRuntime(m) \in Runtime
  BY LoopAssumption DEF FreshRuntime, Runtime

LEMMA LateMore ==
  ASSUME TypeOK, NEW m \in MODELS
  PROVE  [late EXCEPT ![m] = @ + 1] \in [MODELS -> Nat]
  BY DEF TypeOK

(* A mirrored write leaves the registry and the calls under way well typed *)
(* and reports agreement only if the registry names the model.             *)
LEMMA MirrorFacts ==
  ASSUME TypeOK, NEW m \in MODELS, NEW before \in MODELS \cup {NoModel}, Mirror(m, before)
  PROVE  /\ registry' \in MODELS \cup {NoModel} /\ late' \in [MODELS -> Nat]
         /\ agreed' \in BOOLEAN
         /\ agreed' => NoneLate' /\ registry' = m
<1>1. CASE registry' = m /\ agreed' = NoneLate /\ UNCHANGED late
  BY <1>1 DEF TypeOK, NoneLate
<1>2. CASE registry' = before /\ agreed' = (before = m /\ NoneLate) /\ UNCHANGED late
  BY <1>2 DEF TypeOK, NoneLate
<1>3. CASE /\ late' = [late EXCEPT ![m] = @ + 1]
           /\ registry' = before /\ agreed' = FALSE
  <2>1. late' \in [MODELS -> Nat]
    BY <1>3, LateMore
  <2> QED BY <1>3, <2>1
<1> QED BY <1>1, <1>2, <1>3 DEF Mirror

LEMMA BaseInit == Init => Base
<1> SUFFICES ASSUME Init PROVE Base
  OBVIOUS
<1>1. rt \in Runtime /\ tick \in TickLocals /\ TickSane
  BY LoopAssumption, FreshRuntimeType, FreshTick DEF Init, TickSane
<1>2. since \in 0..Horizon
  BY LoopAssumption DEF Init, Horizon
<1>3. witnessed \in [model : MODELS \cup {NoModel}, ticks : 0..ConfirmN]
  BY LoopAssumption DEF Init
<1> QED BY <1>1, <1>2, <1>3, LoopAssumption DEF Init, Base, TypeOK

LEMMA BaseNext == Base /\ [Next]_vars => Base'
<1> SUFFICES ASSUME Base, [Next]_vars PROVE Base'
  OBVIOUS
<1> USE LoopAssumption DEF Base
<1>a. ASSUME tick.action = "switch_backup" PROVE tick.target \in MODELS
  BY <1>a, BackupType DEF TickSane
<1>b. pc = "record" => ~tick.action_id
  BY DEF TickSane
<1>c. /\ tick \in TickLocals
      /\ [tick EXCEPT !.action_id = TRUE] \in TickLocals
      /\ [tick EXCEPT !.lost = TRUE] \in TickLocals
  BY DEF TypeOK, TickLocals
<1>1. CASE Start
  <2>1. rt' \in Runtime /\ agreed' \in BOOLEAN /\ client' \in {"http", "null"}
    BY <1>1, FreshRuntimeType DEF Start, TypeOK, NoneLate
  <2>2. tick' \in TickLocals /\ TickSane'
    BY <1>1, FreshTick DEF Start, TickSane
  <2> QED BY <1>1, <2>1, <2>2 DEF Start, TypeOK
<1>2. CASE Observe \/ ObserveError
  <2>1. PICK o : o.backup_healthy \in BOOLEAN /\ Decide(o)
    BY <1>2, ObserveDecides
  <2>2. rt' \in Runtime /\ tick' \in TickLocals
    BY <2>1, DecideFacts
  <2>3. witnessed' \in [model : MODELS \cup {NoModel}, ticks : 0..ConfirmN]
    BY <2>1, DecideFacts DEF AtMost, TypeOK, Runtime
  <2>4. /\ pc' = "act" /\ row' = NoRow /\ escalated' \in BOOLEAN
        /\ since' = AtMost(since + 1, Horizon)
        /\ UNCHANGED <<client, executor, registry, late, restarted, unverified, agreed>>
    BY <2>1 DEF Decide, TypeOK
  <2>5. since' \in 0..Horizon
    BY <2>4 DEF AtMost, TypeOK, Horizon
  <2>6. TickSane'
    BY <2>1, DecideFacts DEF TickSane, TypeOK, Runtime
  <2> QED BY <2>2, <2>3, <2>4, <2>5, <2>6 DEF TypeOK
<1>3. CASE NoOpOrAlert
  <2>1. /\ tick' \in TickLocals
        /\ tick'.action = tick.action /\ tick'.action_id = tick.action_id
        /\ tick'.action # "switch_backup"
    BY <1>3 DEF NoOpOrAlert, TypeOK, TickLocals
  <2>2. /\ pc = "act" /\ pc' = "record"
        /\ UNCHANGED <<rt, client, executor, registry, late, row, witnessed, since,
                       restarted, unverified, escalated, agreed>>
    BY <1>3 DEF NoOpOrAlert, historyVars, backendVars
  <2>3. TypeOK'
    BY <2>1, <2>2 DEF TypeOK
  <2>4. TickSane'
    BY <2>1, <2>2 DEF TickSane
  <2> QED BY <2>3, <2>4
<1>4. CASE Disable
  <2>1. rt' \in Runtime
    BY <1>4 DEF Disable, TypeOK, Runtime
  <2>2. tick' \in TickLocals /\ TickSane'
    BY <1>4 DEF Disable, TypeOK, TickLocals, TickSane, backendVars
  <2> QED BY <1>4, <2>1, <2>2 DEF Disable, TypeOK, backendVars, historyVars
<1>5. CASE Switch
  <2>1. tick.target \in MODELS
    BY <1>5, <1>a DEF Switch, SwitchWith
  <2>2. rt' \in Runtime
    <3>1. AtMost(rt.recovery_attempts + 1, AttemptBound) \in 0..AttemptBound
      BY DEF TypeOK, Runtime, AtMost
    <3>2. rt' = [active_model |-> tick.target, previous_model |-> rt.active_model,
                 serving_enabled |-> rt.serving_enabled,
                 consecutive_non_low |-> rt.consecutive_non_low,
                 consecutive_health_failures |-> rt.consecutive_health_failures,
                 cooldown_remaining |-> CooldownCycles,
                 recovery_attempts |-> AtMost(rt.recovery_attempts + 1, AttemptBound)]
      BY <1>5 DEF Switch, SwitchWith, TypeOK, Runtime
    <3> QED BY <2>1, <3>1, <3>2 DEF TypeOK, Runtime
  <2>3. tick' \in TickLocals /\ TickSane'
    BY <1>5 DEF Switch, SwitchWith, TypeOK, TickLocals, TickSane
  <2>4. since' \in 0..Horizon
    BY <1>5 DEF Switch, SwitchWith, TypeOK, Horizon
  <2>5. /\ registry' \in MODELS \cup {NoModel} /\ late' \in [MODELS -> Nat]
        /\ agreed' \in BOOLEAN
    BY <1>5, <2>1, MirrorFacts DEF Switch, SwitchWith, TypeOK
  <2> QED BY <1>5, <2>1, <2>2, <2>3, <2>4, <2>5 DEF Switch, SwitchWith, TypeOK
<1>6. CASE ExecutorFails
  <2>1. tick' \in TickLocals /\ TickSane'
    BY <1>6 DEF ExecutorFails, TypeOK, TickLocals, TickSane
  <2>2. /\ registry' \in MODELS \cup {NoModel} /\ late' \in [MODELS -> Nat]
        /\ agreed' \in BOOLEAN
    <3>1. tick.target \in MODELS
      BY <1>6, <1>a DEF ExecutorFails
    <3>2. \/ UNCHANGED <<registry, late, agreed>>
          \/ registry' = tick.target /\ agreed' = FALSE /\ UNCHANGED late
          \/ /\ late' = [late EXCEPT ![tick.target] = @ + 1]
             /\ agreed' = FALSE /\ UNCHANGED registry
      BY <1>6 DEF ExecutorFails
    <3>3. [late EXCEPT ![tick.target] = @ + 1] \in [MODELS -> Nat]
      BY <3>1, LateMore
    <3> QED BY <3>1, <3>2, <3>3 DEF TypeOK
  <2> QED BY <1>6, <2>1, <2>2 DEF ExecutorFails, TypeOK
<1>7. CASE Record
  <2>1. tick' \in TickLocals
    BY <1>7, <1>c DEF Record
  <2>2. [action |-> tick.action, outcome |-> tick.outcome] \in AuditRow
    BY DEF TypeOK, TickLocals, AuditRow
  <2>3. row' \in AuditRow \cup {NoRow} /\ TickSane'
    <3> DEFINE written == [action |-> tick.action, outcome |-> tick.outcome]
    <3>1. tick \in TickLocals
      BY DEF TypeOK
    <3>2. CASE row' = written /\ tick' = [tick EXCEPT !.action_id = TRUE]
      <4>1. pc' \in {"verify", "end"}
        BY <1>7 DEF Record
      <4> QED BY <3>2, <3>1, <2>2, <4>1 DEF TickLocals, TickSane
    <3>3. CASE row' \in {written, NoRow} /\ tick' = [tick EXCEPT !.lost = TRUE] /\ ~tick.action_id
      BY <3>3, <3>1, <2>2 DEF TickLocals, TickSane
    <3>4. CASE row' = NoRow /\ UNCHANGED tick /\ ~tick.action_id
      BY <3>4 DEF TickSane
    <3> QED BY <1>7, <3>2, <3>3, <3>4, <1>b DEF Record
  <2> QED BY <1>7, <2>1, <2>3 DEF Record, TypeOK, historyVars
<1>8. CASE VerifyProbe
  <2>1. PICK p \in Probes :
          tick' = [tick EXCEPT !.attempt = @ + 1, !.recovered = Recovered(p)]
    BY <1>8 DEF VerifyProbe
  <2>2. Recovered(p) \in BOOLEAN
    BY DEF Recovered
  <2>3. tick' \in TickLocals
    <3>1. ASSUME NEW found \in BOOLEAN
          PROVE  [tick EXCEPT !.attempt = @ + 1, !.recovered = found] \in TickLocals
      <4>1. tick \in TickLocals /\ tick.attempt + 1 \in Nat
        BY DEF TypeOK, TickLocals
      <4>2. [tick EXCEPT !.attempt = @ + 1] \in TickLocals
        BY <4>1 DEF TickLocals
      <4>3. ASSUME NEW t \in TickLocals PROVE [t EXCEPT !.recovered = found] \in TickLocals
        BY DEF TickLocals
      <4> QED BY <4>2, <4>3
    <3> QED BY <2>1, <2>2, <3>1
  <2>4. TickSane'
    BY <1>8, <2>1 DEF VerifyProbe, TypeOK, TickLocals, TickSane, backendVars
  <2> QED BY <1>8, <2>3, <2>4 DEF VerifyProbe, TypeOK, backendVars
<1>9. CASE Guard
  <2>1. rt.previous_model \in MODELS
    BY <1>9 DEF Guard, RollbackMirrored, Rollback, TypeOK, Runtime
  <2>2. rt' \in Runtime
    BY <1>9, <2>1 DEF Guard, RollbackMirrored, Rollback, TypeOK, Runtime
  <2>3. /\ registry' \in MODELS \cup {NoModel} /\ late' \in [MODELS -> Nat]
        /\ agreed' \in BOOLEAN
    BY <1>9, <2>1, MirrorFacts DEF Guard, RollbackMirrored, Rollback, TypeOK
  <2> QED BY <1>9, <2>2, <2>3 DEF Guard, RollbackMirrored, Rollback, TypeOK, TickSane
<1>10. CASE Patch
  <2>1. tick' \in TickLocals
    BY <1>10, <1>c DEF Patch, PatchWith
  <2>2. row' \in AuditRow \cup {NoRow} /\ TickSane'
    BY <1>10 DEF Patch, PatchWith, TypeOK, AuditRow, TickSane, TickLocals
  <2> QED BY <1>10, <2>1, <2>2 DEF Patch, PatchWith, TypeOK, historyVars
<1>11. CASE EndTick
  <2>1. rt' \in Runtime
    BY <1>11 DEF EndTick, EndTickWith, CountedDown, TypeOK, Runtime
  <2> QED BY <1>11, <2>1, FreshTick DEF EndTick, EndTickWith, CountedDown, TypeOK, TickSane, historyVars
<1>12. CASE LateArrival
  BY <1>12 DEF LateArrival, TypeOK, TickSane, procVars, historyVars
<1>13. CASE ForeignWrite
  <2>1. /\ registry' \in MODELS /\ agreed' = FALSE
        /\ UNCHANGED <<pc, rt, tick, client, executor, late, row, witnessed, since,
                       restarted, unverified, escalated>>
    BY <1>13 DEF ForeignWrite, procVars
  <2>2. TypeOK'
    BY <2>1 DEF TypeOK
  <2>3. TickSane'
    BY <2>1 DEF TickSane
  <2> QED BY <2>2, <2>3
<1>14. CASE Crash
  <2>1. late' \in [MODELS -> Nat] /\ agreed' \in BOOLEAN
    <3>1. CASE UNCHANGED <<late, agreed>>
      BY <3>1 DEF TypeOK
    <3>2. CASE /\ tick.action = "switch_backup"
               /\ late' = [late EXCEPT ![tick.target] = @ + 1] /\ agreed' = FALSE
      BY <3>2, <1>a, LateMore
    <3> QED BY <1>14, <3>1, <3>2 DEF Crash
  <2> QED BY <1>14, <2>1, FreshTick, FreshRuntimeType DEF Crash, TypeOK, TickSane
<1>15. CASE UNCHANGED vars
  BY <1>15 DEF vars, procVars, backendVars, historyVars, TypeOK, TickSane
<1> QED BY <1>1, <1>2, <1>3, <1>4, <1>5, <1>6, <1>7, <1>8, <1>9, <1>10, <1>11, <1>12,
        <1>13, <1>14, <1>15 DEF Next, Tick

(* Every reachable state of the agent loop is well typed.                  *)
THEOREM TypeCorrect == Spec => []TypeOK
<1>1. Base => TypeOK
  BY DEF Base
<1> QED BY <1>1, BaseInit, BaseNext, PTL DEF Spec

(***************************************************************************)
(* The gates hold for every ConfirmN and CooldownCycles.  The argument is  *)
(* a budget: a switch sets the cooldown to CooldownCycles and every later  *)
(* tick takes one from it, so the ticks seen since the switch and the      *)
(* cooldown left always add up to CooldownCycles (less one between the end *)
(* of a tick and the next).                                                *)
(***************************************************************************)
Slack == IF pc = "observe" THEN 1 ELSE 0

Cooldown  == rt.cooldown_remaining
Confirmed == rt.consecutive_non_low

(* What the decision and the tick's own switch say about the cooldown.     *)
GateInv ==
  /\ pc = "act" => ~tick.executed
  /\ pc \in {"verify", "guard"} => SwitchDone
  /\ pc \in {"record", "verify", "guard", "patch", "end"} /\ SwitchDone =>
       Cooldown = CooldownCycles
  /\ Intervening => Confirmed = ConfirmN /\ Cooldown = 0

SpacingInv ==
  pc # "down" =>
    IF restarted THEN since >= Confirmed
    ELSE since + Cooldown >= CooldownCycles - Slack

(* Either every tick the code counts was seen on the serving model, or the *)
(* cooldown still has to run for as long as the count is too generous.     *)
EvidenceInv ==
  pc # "down" =>
    /\ pc = "act" => witnessed.model = rt.active_model
    /\ IF witnessed.model = rt.active_model
       THEN Confirmed <= witnessed.ticks \/ witnessed.ticks + Cooldown >= CooldownCycles - Slack
       ELSE Confirmed = 0 \/ Cooldown >= CooldownCycles - Slack

Gates == GateInv /\ SpacingInv /\ EvidenceInv

(* The quantities the gates are about, as numbers.                         *)
LEMMA Numbers ==
  ASSUME TypeOK
  PROVE  /\ ConfirmN \in Nat \ {0} /\ CooldownCycles \in Nat
         /\ Horizon \in Nat /\ Horizon >= CooldownCycles /\ Horizon >= ConfirmN
         /\ Cooldown \in 0..CooldownCycles /\ Confirmed \in 0..ConfirmN
         /\ since \in 0..Horizon /\ witnessed.ticks \in 0..ConfirmN
         /\ rt \in Runtime /\ tick \in TickLocals /\ restarted \in BOOLEAN
  BY LoopAssumption DEF TypeOK, Runtime, Horizon, Cooldown, Confirmed

(* Steps between the decision and the end of the tick that neither switch  *)
(* nor roll back leave every quantity alone.                               *)
LEMMA SteadyStep ==
  ASSUME Base, Gates, pc \notin {"down", "observe"},
         pc' \in {"record", "verify", "guard", "patch", "end"},
         UNCHANGED <<witnessed, restarted, Cooldown, Confirmed, rt.active_model>>,
         since' = since,
         SwitchDone' => SwitchDone, SwitchDone => SwitchDone',
         pc' \in {"verify", "guard"} => SwitchDone
  PROVE  Gates'
<1> USE DEF Gates
<1>1. pc \in {"act", "record", "verify", "guard", "patch", "end"}
  BY DEF Base, TypeOK
<1>2. pc = "act" => ~SwitchDone
  BY DEF GateInv, SwitchDone
<1>3. GateInv'
  BY <1>1, <1>2 DEF GateInv, Intervening
<1>4. SpacingInv'
  BY <1>1 DEF SpacingInv, Slack
<1>5. EvidenceInv'
  BY <1>1 DEF EvidenceInv, Slack
<1> QED BY <1>3, <1>4, <1>5

(* One more tick seen, and one more counted.                               *)
LEMMA DecideStep ==
  ASSUME Base, Gates, NEW o, o.backup_healthy \in BOOLEAN, Decide(o)
  PROVE  Gates'
<1> DEFINE low == tick'.severity = "LOW"
<1>1. /\ pc = "observe" /\ pc' = "act" /\ UNCHANGED restarted
      /\ since' = AtMost(since + 1, Horizon)
  BY DEF Decide
<1>2. /\ Cooldown' = Cooldown /\ rt'.active_model = rt.active_model
      /\ Confirmed' = IF low THEN 0 ELSE AtMost(Confirmed + 1, ConfirmN)
      /\ ~tick'.executed
      /\ tick'.action \in Interventions => Confirmed' = ConfirmN /\ Cooldown = 0
      /\ witnessed'.model = rt.active_model
      /\ witnessed'.ticks = IF low THEN 0
                            ELSE IF witnessed.model = rt.active_model
                            THEN AtMost(witnessed.ticks + 1, ConfirmN) ELSE 1
  BY DecideFacts DEF Base, Cooldown, Confirmed
<1> HIDE DEF low
<1>3. GateInv'
  BY <1>1, <1>2 DEF GateInv, Intervening
<1>4. SpacingInv'
  <2>1. Slack = 1 /\ Slack' = 0
    BY <1>1 DEF Slack
  <2> QED BY <1>1, <1>2, <2>1, Numbers DEF Base, Gates, SpacingInv, AtMost
<1>5. EvidenceInv'
  <2>1. Slack = 1 /\ Slack' = 0
    BY <1>1 DEF Slack
  <2>2. CASE low
    BY <1>1, <1>2, <2>2 DEF EvidenceInv
  <2>3. CASE ~low
    BY <1>1, <1>2, <2>1, <2>3, Numbers DEF Base, Gates, EvidenceInv, AtMost
  <2> QED BY <2>2, <2>3
<1> QED BY <1>3, <1>4, <1>5 DEF Gates

(* A switch restarts the budget.                                           *)
LEMMA SwitchStep == ASSUME Base, Gates, Switch PROVE Gates'
<1>1. /\ pc' = "record" /\ Cooldown' = CooldownCycles /\ Confirmed' = Confirmed
      /\ restarted' = FALSE /\ since' = 0 /\ UNCHANGED witnessed
  BY Numbers DEF Base, Switch, SwitchWith, Cooldown, Confirmed, Runtime, TypeOK
<1>2. GateInv'
  BY <1>1 DEF GateInv, Intervening
<1>3. SpacingInv'
  BY <1>1, Numbers DEF Base, SpacingInv, Slack
<1>4. EvidenceInv'
  BY <1>1, Numbers DEF Base, EvidenceInv, Slack
<1> QED BY <1>2, <1>3, <1>4 DEF Gates

(* A rollback changes the model under a full cooldown.                     *)
LEMMA GuardStep == ASSUME Base, Gates, Guard PROVE Gates'
<1>1. /\ pc = "guard" /\ pc' = "patch" /\ Cooldown' = Cooldown /\ Confirmed' = Confirmed
      /\ UNCHANGED <<witnessed, since, restarted, tick>>
  BY Numbers DEF Base, Guard, RollbackMirrored, Rollback, Cooldown, Confirmed, Runtime
<1>2. Cooldown = CooldownCycles
  BY <1>1 DEF Gates, GateInv
<1>3. GateInv'
  BY <1>1, <1>2 DEF Gates, GateInv, Intervening
<1>4. SpacingInv'
  BY <1>1 DEF Gates, SpacingInv, Slack
<1>5. EvidenceInv'
  BY <1>1, <1>2, Numbers DEF Base, EvidenceInv, Slack
<1> QED BY <1>3, <1>4, <1>5 DEF Gates

(* The end of a tick takes one from the cooldown.                          *)
LEMMA EndTickStep == ASSUME Base, Gates, EndTick PROVE Gates'
<1>1. /\ pc = "end" /\ pc' = "observe" /\ Confirmed' = Confirmed
      /\ Cooldown' = IF Cooldown > 0 THEN Cooldown - 1 ELSE Cooldown
      /\ rt'.active_model = rt.active_model
      /\ UNCHANGED <<witnessed, since, restarted>>
  BY Numbers DEF Base, EndTick, EndTickWith, CountedDown, Cooldown, Confirmed, Runtime, historyVars
<1>2. GateInv'
  BY <1>1 DEF GateInv, Intervening
<1>3. SpacingInv'
  BY <1>1, Numbers DEF Base, Gates, SpacingInv, Slack
<1>4. EvidenceInv'
  BY <1>1, Numbers DEF Base, Gates, EvidenceInv, Slack
<1> QED BY <1>2, <1>3, <1>4 DEF Gates

LEMMA GatesInit == Init => Gates
  BY DEF Init, Gates, GateInv, SpacingInv, EvidenceInv, Intervening

LEMMA GatesNext == Base /\ Gates /\ [Next]_vars => Gates'
<1> SUFFICES ASSUME Base, Gates, [Next]_vars PROVE Gates'
  OBVIOUS
<1>1. CASE Start
  <2>1. /\ pc' = "observe" /\ restarted' = TRUE /\ Confirmed' = 0
        /\ witnessed' = [model |-> NoModel, ticks |-> 0]
        /\ UNCHANGED since
    BY <1>1 DEF Start, Confirmed, FreshRuntime
  <2>2. GateInv'
    BY <2>1 DEF GateInv, Intervening
  <2>3. SpacingInv'
    BY <2>1, Numbers DEF Base, SpacingInv, Slack
  <2>4. EvidenceInv'
    BY <2>1, Numbers DEF EvidenceInv, Slack
  <2> QED BY <2>2, <2>3, <2>4 DEF Gates
<1>2. CASE Observe \/ ObserveError
  BY <1>2, ObserveDecides, DecideStep
<1>3. CASE NoOpOrAlert
  <2>1. /\ pc = "act" /\ pc' = "record" /\ ~SwitchDone /\ ~SwitchDone'
        /\ UNCHANGED <<rt, witnessed, restarted, since>>
    BY <1>3, Numbers DEF Base, NoOpOrAlert, SwitchDone, TickLocals, historyVars
  <2> QED BY <2>1, SteadyStep DEF Cooldown, Confirmed
<1>4. CASE Disable
  <2>1. /\ pc = "act" /\ pc' = "record" /\ ~SwitchDone /\ ~SwitchDone'
        /\ UNCHANGED <<witnessed, restarted>> /\ since' = since
    BY <1>4, Numbers DEF Base, TypeOK, Disable, SwitchDone, TickLocals, historyVars
  <2>2. UNCHANGED <<Cooldown, Confirmed, rt.active_model>>
    BY <1>4, Numbers DEF Base, Disable, Cooldown, Confirmed, Runtime
  <2> QED BY <2>1, <2>2, SteadyStep
<1>5. CASE Switch
  BY <1>5, SwitchStep
<1>6. CASE ExecutorFails
  <2>1. /\ pc = "act" /\ pc' = "record"
        /\ tick'.executed = tick.executed
        /\ UNCHANGED <<rt, witnessed, restarted, since>>
    BY <1>6, Numbers DEF Base, ExecutorFails, TickLocals
  <2>2. ~SwitchDone /\ ~SwitchDone'
    BY <2>1 DEF Gates, GateInv, SwitchDone
  <2> QED BY <2>1, <2>2, SteadyStep DEF Cooldown, Confirmed
<1>7. CASE Record
  <2>1. /\ pc = "record" /\ pc' = IF SwitchDone THEN "verify" ELSE "end"
        /\ tick'.action = tick.action /\ tick'.executed = tick.executed
        /\ UNCHANGED <<rt, witnessed, restarted, since>>
    BY <1>7, Numbers DEF Base, Record, SwitchDone, TickLocals, historyVars
  <2> QED BY <2>1, SteadyStep DEF SwitchDone, Cooldown, Confirmed
<1>8. CASE VerifyProbe
  <2>1. /\ pc = "verify" /\ pc' \in {"patch", "verify", "guard"}
        /\ tick'.action = tick.action /\ tick'.executed = tick.executed
        /\ UNCHANGED <<rt, witnessed, restarted, since>>
    BY <1>8, Numbers DEF Base, VerifyProbe, TickLocals
  <2>2. SwitchDone /\ SwitchDone'
    BY <2>1 DEF Gates, GateInv, SwitchDone
  <2> QED BY <2>1, <2>2, SteadyStep DEF Cooldown, Confirmed
<1>9. CASE Guard
  BY <1>9, GuardStep
<1>10. CASE Patch
  <2>1. /\ pc = "patch" /\ pc' = "end"
        /\ tick'.action = tick.action /\ tick'.executed = tick.executed
        /\ UNCHANGED <<rt, witnessed, restarted, since>>
    BY <1>10, Numbers DEF Base, Patch, PatchWith, TickLocals, historyVars
  <2> QED BY <2>1, SteadyStep DEF SwitchDone, Cooldown, Confirmed
<1>11. CASE EndTick
  BY <1>11, EndTickStep
<1>12. CASE LateArrival \/ ForeignWrite \/ UNCHANGED vars
  <2>1. UNCHANGED <<pc, rt, tick, witnessed, restarted, since>>
    BY <1>12 DEF LateArrival, ForeignWrite, vars, procVars, historyVars
  <2> QED BY <2>1 DEF Gates, GateInv, SpacingInv, EvidenceInv, Slack, Cooldown,
      Confirmed, Intervening, SwitchDone
<1>13. CASE Crash
  <2>1. pc' = "down"
    BY <1>13 DEF Crash
  <2> QED BY <2>1 DEF Gates, GateInv, SpacingInv, EvidenceInv, Intervening
<1> QED BY <1>1, <1>2, <1>3, <1>4, <1>5, <1>6, <1>7, <1>8, <1>9, <1>10, <1>11, <1>12,
        <1>13 DEF Next, Tick

THEOREM GatesHold == Spec => [](TypeOK /\ Gates)
<1>1. Base /\ Gates => TypeOK /\ Gates
  BY DEF Base
<1> QED BY <1>1, BaseInit, BaseNext, GatesInit, GatesNext, PTL DEF Spec

(* Consecutive switches are CooldownCycles ticks apart, and ConfirmN ticks *)
(* after a restart, for every configuration and whatever is observed.      *)
THEOREM SwitchesAreSpaced == Spec => []SwitchSpacing
<1>1. TypeOK /\ Gates => SwitchSpacing
  <2> SUFFICES ASSUME TypeOK, Gates, pc = "act", tick.action = "switch_backup"
               PROVE  since >= (IF restarted THEN ConfirmN ELSE CooldownCycles)
    BY DEF SwitchSpacing
  <2>1. Confirmed = ConfirmN /\ Cooldown = 0
    BY DEF Gates, GateInv, Intervening, Interventions
  <2> QED BY <2>1, Numbers DEF Gates, SpacingInv, Slack
<1> QED BY <1>1, GatesHold, PTL

(* With a cooldown no shorter than the confirmation window, every          *)
(* intervention rests on ConfirmN ticks in a row that found the serving    *)
(* model itself at fault.  The bound is necessary: without it the counter  *)
(* a switch leaves behind condemns the new model on its first bad tick.    *)
THEOREM InterventionsAreConfirmed ==
  ConfirmN <= CooldownCycles => (Spec => []ConfirmedOnThisModel)
<1> SUFFICES ASSUME ConfirmN <= CooldownCycles PROVE Spec => []ConfirmedOnThisModel
  OBVIOUS
<1>1. TypeOK /\ Gates => ConfirmedOnThisModel
  <2> SUFFICES ASSUME TypeOK, Gates, Intervening
               PROVE  witnessed = [model |-> rt.active_model, ticks |-> ConfirmN]
    BY DEF ConfirmedOnThisModel
  <2>1. Confirmed = ConfirmN /\ Cooldown = 0 /\ pc = "act"
    BY DEF Gates, GateInv, Intervening
  <2>2. witnessed.model = rt.active_model
    BY <2>1 DEF Gates, EvidenceInv
  <2>3. witnessed.ticks = ConfirmN
    BY <2>1, <2>2, Numbers DEF Gates, EvidenceInv, Slack
  <2>4. witnessed \in [model : MODELS \cup {NoModel}, ticks : 0..ConfirmN]
    BY DEF TypeOK
  <2> QED BY <2>2, <2>3, <2>4
<1> QED BY <1>1, GatesHold, PTL

(* The gates open as soon as they may: what the code counts is never       *)
(* behind what was seen on the serving model, and the cooldown left is     *)
(* used up CooldownCycles ticks after the switch, its own tick included.   *)
OpenInv ==
  pc # "down" =>
    /\ pc = "act" /\ tick.severity = "HIGH" /\ Confirmed = ConfirmN /\ Cooldown = 0 =>
         tick.action \in Interventions
    /\ witnessed.ticks <= Confirmed
    /\ Cooldown = 0 \/ (~restarted /\ since + Cooldown <= CooldownCycles - Slack)

LEMMA OpenInit == Init => OpenInv
  BY DEF Init, OpenInv

(* A step inside the tick that leaves the counters alone.                  *)
LEMMA OpenSteady ==
  ASSUME OpenInv, pc \notin {"down", "observe"}, pc' \notin {"act", "observe"},
         UNCHANGED <<Confirmed, Cooldown, witnessed.ticks, since, restarted>>
  PROVE  OpenInv'
  BY DEF OpenInv, Slack

LEMMA OpenNext == Base /\ OpenInv /\ [Next]_vars => OpenInv'
<1> SUFFICES ASSUME Base, OpenInv, [Next]_vars PROVE OpenInv'
  OBVIOUS
<1>1. CASE Start
  <2>1. pc' = "observe" /\ Confirmed' = 0 /\ Cooldown' = 0 /\ witnessed'.ticks = 0
    BY <1>1 DEF Start, Confirmed, Cooldown, FreshRuntime
  <2> QED BY <2>1 DEF OpenInv
<1>2. CASE Observe \/ ObserveError
  <2>1. PICK o : o.backup_healthy \in BOOLEAN /\ Decide(o)
    BY <1>2, ObserveDecides
  <2> DEFINE low == tick'.severity = "LOW"
  <2>2. /\ pc = "observe" /\ pc' = "act" /\ UNCHANGED restarted
        /\ since' = AtMost(since + 1, Horizon)
    BY <2>1 DEF Decide
  <2>3. /\ Cooldown' = Cooldown
        /\ Confirmed' = IF low THEN 0 ELSE AtMost(Confirmed + 1, ConfirmN)
        /\ /\ tick'.severity = "HIGH" /\ Confirmed' = ConfirmN /\ Cooldown = 0
           => tick'.action \in Interventions
        /\ witnessed'.ticks = IF low THEN 0
                              ELSE IF witnessed.model = rt.active_model
                              THEN AtMost(witnessed.ticks + 1, ConfirmN) ELSE 1
    BY <2>1, DecideFacts DEF Base, Cooldown, Confirmed
  <2> HIDE DEF low
  <2>4. witnessed'.ticks <= Confirmed'
    BY <2>2, <2>3, Numbers DEF Base, OpenInv, AtMost
  <2>5. Cooldown' = 0 \/ (~restarted' /\ since' + Cooldown' <= CooldownCycles - Slack')
    <3>1. Slack = 1 /\ Slack' = 0
      BY <2>2 DEF Slack
    <3> QED BY <2>2, <2>3, <3>1, Numbers DEF Base, OpenInv, AtMost
  <2> QED BY <2>3, <2>4, <2>5 DEF OpenInv
<1>3. CASE NoOpOrAlert \/ ExecutorFails \/ Record \/ VerifyProbe \/ Patch
  <2>1. /\ pc \notin {"down", "observe"} /\ pc' \notin {"act", "observe"}
        /\ UNCHANGED <<rt, witnessed, since, restarted>>
    BY <1>3 DEF NoOpOrAlert, ExecutorFails, Record, VerifyProbe, Patch, PatchWith, historyVars
  <2> QED BY <2>1, OpenSteady DEF Confirmed, Cooldown
<1>4. CASE Disable
  <2>1. /\ pc = "act" /\ pc' = "record" /\ UNCHANGED <<witnessed, since, restarted>>
    BY <1>4 DEF Disable, historyVars
  <2>2. UNCHANGED <<Confirmed, Cooldown>>
    BY <1>4, Numbers DEF Base, Disable, Confirmed, Cooldown, Runtime
  <2> QED BY <2>1, <2>2, OpenSteady
<1>5. CASE Switch
  <2>1. /\ pc = "act" /\ pc' = "record" /\ Cooldown' = CooldownCycles
        /\ Confirmed' = Confirmed /\ restarted' = FALSE /\ since' = 0
        /\ UNCHANGED witnessed
    BY <1>5, Numbers DEF Base, Switch, SwitchWith, Cooldown, Confirmed, Runtime
  <2> QED BY <2>1, Numbers DEF Base, OpenInv, Slack
<1>6. CASE Guard
  <2>1. /\ pc = "guard" /\ pc' = "patch" /\ UNCHANGED <<witnessed, since, restarted>>
    BY <1>6 DEF Guard, RollbackMirrored, Rollback
  <2>2. UNCHANGED <<Confirmed, Cooldown>>
    BY <1>6, Numbers DEF Base, Guard, RollbackMirrored, Rollback, Confirmed, Cooldown, Runtime
  <2> QED BY <2>1, <2>2, OpenSteady
<1>7. CASE EndTick
  <2>1. /\ pc = "end" /\ pc' = "observe" /\ Confirmed' = Confirmed
        /\ Cooldown' = IF Cooldown > 0 THEN Cooldown - 1 ELSE Cooldown
        /\ UNCHANGED <<witnessed, since, restarted>>
    BY <1>7, Numbers DEF Base, EndTick, EndTickWith, CountedDown, Cooldown, Confirmed,
       Runtime, historyVars
  <2> QED BY <2>1, Numbers DEF Base, OpenInv, Slack
<1>8. CASE LateArrival \/ ForeignWrite \/ UNCHANGED vars
  <2>1. UNCHANGED <<pc, rt, tick, witnessed, restarted, since>>
    BY <1>8 DEF LateArrival, ForeignWrite, vars, procVars, historyVars
  <2> QED BY <2>1 DEF OpenInv, Slack, Cooldown, Confirmed
<1>9. CASE Crash
  BY <1>9 DEF Crash, OpenInv
<1> QED BY <1>1, <1>2, <1>3, <1>4, <1>5, <1>6, <1>7, <1>8, <1>9 DEF Next, Tick

(* The gates hold nothing back for longer than they say: ConfirmN bad      *)
(* ticks deep on the serving model and CooldownCycles from the last        *)
(* switch, a HIGH tick intervenes, for every configuration and whatever    *)
(* is observed.  This is the bound behind RecoveryNotStarved.              *)
THEOREM GatesOpen == Spec => []GateOpensInTime
<1>1. Base /\ OpenInv => GateOpensInTime
  <2> SUFFICES ASSUME Base, OpenInv, pc = "act", tick.severity = "HIGH",
                      witnessed.ticks = ConfirmN, restarted \/ since >= CooldownCycles
               PROVE  tick.action \in Interventions
    BY DEF GateOpensInTime
  <2>1. Confirmed = ConfirmN
    BY Numbers DEF Base, OpenInv
  <2>2. Cooldown = 0
    BY Numbers DEF Base, OpenInv, Slack
  <2> QED BY <2>1, <2>2 DEF OpenInv
<1> QED BY <1>1, BaseInit, BaseNext, OpenInit, OpenNext, PTL DEF Spec

(***************************************************************************)
(* A tick that moved traffic either confirmed the move or undid it, the    *)
(* registry agrees with the agent while nobody else writes it and no call  *)
(* is lost or late, and the audit row says what happened.                  *)
(***************************************************************************)
AfterAct == {"record", "verify", "guard", "patch", "end"}

Agreement == agreed => NoneLate /\ (pc # "down" => registry = rt.active_model)

(* Where traffic is, by how far the tick has got.                          *)
Moved ==
  /\ pc = "act" => ~tick.executed /\ ~tick.recovered /\ rt.active_model = tick.active
  /\ pc \in {"verify", "guard", "patch"} => SwitchDone
  /\ pc \in AfterAct /\ ~SwitchDone => ~tick.recovered /\ rt.active_model = tick.active
  /\ pc \in {"record", "verify", "guard"} /\ SwitchDone =>
       ~tick.recovered /\ rt.active_model = tick.target /\ rt.previous_model = tick.active
  /\ pc \in {"patch", "end"} /\ SwitchDone =>
       IF tick.recovered
       THEN rt.active_model = tick.target /\ rt.previous_model = tick.active
       ELSE rt.active_model = tick.active /\ rt.previous_model = NoModel /\ escalated

(* What the audit row says, by how far the tick has got.                   *)
Told ==
  /\ client = "null" => ~tick.action_id
  /\ pc = "record" /\ tick.action = "switch_backup" =>
       tick.outcome = IF tick.executed THEN "pending" ELSE "failed"
  /\ pc \in {"verify", "guard", "patch", "end"} /\ row # NoRow =>
       row.action = tick.action /\ (tick.action_id \/ tick.lost)
  /\ pc \in {"verify", "guard", "patch"} /\ row # NoRow => row.outcome = "pending"
  /\ AuditMatchesServing

Traffic == Agreement /\ Moved /\ Told

LEMMA Records ==
  ASSUME TypeOK
  PROVE  /\ rt \in Runtime /\ tick \in TickLocals /\ row \in AuditRow \cup {NoRow}
         /\ late \in [MODELS -> Nat]
  BY DEF TypeOK

LEMMA TrafficInit == Init => Traffic
  BY FreshTick DEF Init, Traffic, Agreement, Moved, Told, AuditMatchesServing, AfterAct

LEMMA SwitchMoves == ASSUME Base, Traffic, Switch PROVE Traffic'
<1> USE Records DEF Base
<1>1. tick.target \in MODELS /\ tick.target # tick.active
  BY BackupType DEF Switch, SwitchWith, TickSane
<1>2. /\ pc = "act" /\ pc' = "record" /\ UNCHANGED <<row, client>>
      /\ rt'.active_model = tick.target /\ rt'.previous_model = rt.active_model
      /\ tick' = [tick EXCEPT !.executed = TRUE, !.outcome = "pending"]
  BY DEF Switch, SwitchWith, Runtime
<1>3. /\ tick'.executed /\ tick'.outcome = "pending" /\ tick'.recovered = tick.recovered
      /\ tick'.target = tick.target /\ tick'.active = tick.active
      /\ tick'.action = "switch_backup" /\ tick'.action_id = tick.action_id
  BY <1>2 DEF TickLocals, Switch, SwitchWith
<1>4. Agreement'
  BY <1>1, <1>2, MirrorFacts DEF Switch, SwitchWith, Agreement, TypeOK
<1>5. Moved'
  BY <1>2, <1>3 DEF Traffic, Moved, SwitchDone, AfterAct
<1>6. Told'
  BY <1>2, <1>3 DEF Traffic, Told, AuditMatchesServing
<1> QED BY <1>4, <1>5, <1>6 DEF Traffic

LEMMA GuardMoves == ASSUME Base, Traffic, Guard PROVE Traffic'
<1> USE Records DEF Base
<1>1. /\ pc = "guard" /\ pc' = "patch" /\ UNCHANGED <<tick, row, client>> /\ escalated'
      /\ rt'.active_model = rt.previous_model /\ rt'.previous_model = NoModel
      /\ rt.previous_model \in MODELS
  BY DEF Guard, RollbackMirrored, Rollback, Runtime
<1>2. SwitchDone /\ SwitchDone' /\ ~tick.recovered /\ rt.previous_model = tick.active
  BY <1>1 DEF Traffic, Moved, SwitchDone
<1>3. Agreement'
  BY <1>1, MirrorFacts DEF Guard, RollbackMirrored, Rollback, Agreement, TypeOK
<1>4. Moved'
  BY <1>1, <1>2 DEF Moved, AfterAct
<1>5. Told'
  BY <1>1 DEF Traffic, Told, AuditMatchesServing
<1> QED BY <1>3, <1>4, <1>5 DEF Traffic

(* The row is written, or not, and its answer read, or not.                *)
LEMMA RecordTells == ASSUME Base, Traffic, Record PROVE Traffic'
<1> USE Records DEF Base
<1>1. /\ pc = "record" /\ pc' = IF SwitchDone THEN "verify" ELSE "end"
      /\ UNCHANGED <<rt, registry, late, agreed, escalated>>
  BY DEF Record, SwitchDone, historyVars
<1>2. /\ tick'.action = tick.action /\ tick'.executed = tick.executed
      /\ tick'.recovered = tick.recovered /\ tick'.active = tick.active
      /\ tick'.target = tick.target
  BY DEF Record, TickLocals
<1>3. row' = NoRow \/ /\ row' = [action |-> tick.action, outcome |-> tick.outcome]
                      /\ tick'.action_id \/ tick'.lost
  BY DEF Record, TickLocals
<1>a. client' = "null" => ~tick'.action_id
  BY DEF Record, Traffic, Told
<1>4. Agreement'
  BY <1>1 DEF Traffic, Agreement, NoneLate
<1>5. Moved'
  BY <1>1, <1>2 DEF Traffic, Moved, SwitchDone, AfterAct
<1>6. Told'
  <2>1. CASE row' = NoRow
    BY <1>1, <1>a, <2>1 DEF Told, AuditMatchesServing
  <2>2. CASE row' # NoRow
    <3>1. /\ row'.action = tick.action /\ row'.outcome = tick.outcome
          /\ tick'.action_id \/ tick'.lost
      BY <1>3, <2>2
    <3>2. CASE SwitchDone
      BY <1>1, <1>2, <1>a, <3>1, <3>2 DEF Traffic, Told, AuditMatchesServing, SwitchDone
    <3>3. CASE ~SwitchDone
      <4>1. pc' = "end" /\ rt'.active_model = tick.active /\ ~tick'.recovered
        BY <1>1, <1>2, <3>3 DEF Traffic, Moved, AfterAct
      <4>2. tick.action = "switch_backup" =>
              row'.outcome = "failed" /\ rt'.active_model # tick'.target
        BY <1>1, <1>2, <3>1, <3>3, <4>1, BackupType
        DEF Traffic, Told, SwitchDone, TickSane
      <4> QED BY <1>2, <1>a, <3>1, <4>1, <4>2 DEF Told, AuditMatchesServing
    <3> QED BY <3>2, <3>3
  <2> QED BY <2>1, <2>2
<1> QED BY <1>4, <1>5, <1>6 DEF Traffic

LEMMA VerifyTells == ASSUME Base, Traffic, VerifyProbe PROVE Traffic'
<1> USE Records DEF Base
<1>1. /\ pc = "verify" /\ UNCHANGED <<rt, client, registry, late, agreed, row, escalated>>
      /\ \E found \in BOOLEAN :
           /\ tick' = [tick EXCEPT !.attempt = @ + 1, !.recovered = found]
           /\ pc' = IF found THEN "patch"
                    ELSE IF tick.attempt + 1 < Attempts THEN "verify" ELSE "guard"
  BY DEF VerifyProbe, backendVars, Recovered
<1>2. /\ tick'.action = tick.action /\ tick'.executed = tick.executed
      /\ tick'.active = tick.active /\ tick'.target = tick.target
      /\ tick'.action_id = tick.action_id /\ tick'.lost = tick.lost
      /\ \/ pc' = "patch" /\ tick'.recovered
         \/ pc' \in {"verify", "guard"} /\ ~tick'.recovered
  BY <1>1 DEF TickLocals
<1>3. Agreement'
  BY <1>1, <1>2 DEF Traffic, Agreement, NoneLate
<1>4. Moved'
  BY <1>1, <1>2 DEF Traffic, Moved, SwitchDone, AfterAct
<1>5. Told'
  BY <1>1, <1>2 DEF Traffic, Told, AuditMatchesServing
<1> QED BY <1>3, <1>4, <1>5 DEF Traffic

LEMMA PatchTells == ASSUME Base, Traffic, Patch PROVE Traffic'
<1> USE Records DEF Base
<1>1. /\ pc = "patch" /\ pc' = "end"
      /\ UNCHANGED <<rt, registry, late, agreed, escalated>>
  BY DEF Patch, PatchWith, historyVars
<1>2. /\ tick'.action = tick.action /\ tick'.executed = tick.executed
      /\ tick'.active = tick.active /\ tick'.target = tick.target
      /\ tick'.action_id = tick.action_id /\ tick'.recovered = tick.recovered
      /\ tick.lost => tick'.lost
  BY DEF Patch, PatchWith, TickLocals
<1>3. Agreement'
  BY <1>1 DEF Traffic, Agreement, NoneLate
<1>4. Moved'
  BY <1>1, <1>2 DEF Traffic, Moved, SwitchDone, AfterAct
<1>5. Told'
  <2>1. CASE /\ tick.action_id /\ UNCHANGED tick
             /\ row' = [row EXCEPT !.outcome = IF tick.recovered THEN "success" ELSE "failed"]
    <3>1. row \in AuditRow
      BY <2>1 DEF TickSane
    <3>2. /\ row'.action = row.action
          /\ row'.outcome = IF tick.recovered THEN "success" ELSE "failed"
      BY <2>1, <3>1 DEF AuditRow
    <3>3. ~tick.recovered => rt.active_model # tick.target
      BY <1>1, BackupType DEF Traffic, Moved, SwitchDone, TickSane
    <3>4. tick.recovered => rt.active_model = tick.target
      BY <1>1 DEF Traffic, Moved
    <3>5. AuditMatchesServing'
      <4>1. CASE tick.recovered
        BY <1>1, <2>1, <3>2, <3>4, <4>1 DEF AuditMatchesServing
      <4>2. CASE ~tick.recovered
        BY <1>1, <2>1, <3>2, <3>3, <4>2 DEF AuditMatchesServing
      <4> QED BY <4>1, <4>2
    <3>6. row # NoRow => row.action = tick.action
      BY <1>1 DEF Traffic, Told
    <3>7. row' # NoRow => row'.action = tick'.action /\ (tick'.action_id \/ tick'.lost)
      BY <2>1, <3>1, <3>2, <3>6, LoopAssumption
    <3> QED BY <1>1, <2>1, <3>5, <3>7 DEF Patch, PatchWith, Traffic, Told
  <2>2. CASE UNCHANGED row /\ (tick'.lost \/ ~tick.action_id)
    BY <1>1, <1>2, <2>2 DEF Patch, PatchWith, Traffic, Told, AuditMatchesServing
  <2>3. client = "null" => ~tick.action_id
    BY DEF Traffic, Told
  <2> QED BY <2>1, <2>2, <2>3 DEF Patch, PatchWith, TickLocals
<1> QED BY <1>3, <1>4, <1>5 DEF Traffic

LEMMA TrafficNext == Base /\ Traffic /\ [Next]_vars => Traffic'
<1> SUFFICES ASSUME Base, Traffic, [Next]_vars PROVE Traffic'
  OBVIOUS
<1> USE Records DEF Base
<1>1. CASE Start
  <2>1. /\ pc' = "observe" /\ tick' = NoTick /\ row' = NoRow /\ UNCHANGED <<registry, late>>
    BY <1>1 DEF Start
  <2>2. PICK adopted \in BOOLEAN :
          /\ rt' = FreshRuntime(IF adopted THEN registry ELSE StartModel)
          /\ agreed' = (adopted /\ NoneLate)
    <3>1. PICK up, answered \in BOOLEAN :
            LET adopted == up /\ answered /\ registry \in MODELS IN
            /\ rt' = FreshRuntime(IF adopted THEN registry ELSE StartModel)
            /\ agreed' = (adopted /\ NoneLate)
      BY <1>1 DEF Start
    <3> QED BY <3>1
  <2>3. agreed' => NoneLate /\ rt'.active_model = registry
    BY <2>2 DEF FreshRuntime
  <2> QED BY <2>1, <2>3, FreshTick
      DEF Traffic, Agreement, NoneLate, Moved, Told, AuditMatchesServing, AfterAct
<1>2. CASE Observe \/ ObserveError
  <2>1. PICK o : o.backup_healthy \in BOOLEAN /\ Decide(o)
    BY <1>2, ObserveDecides
  <2>2. /\ pc = "observe" /\ pc' = "act" /\ row' = NoRow
        /\ UNCHANGED <<client, registry, late, agreed>>
    BY <2>1 DEF Decide
  <2>3. /\ rt'.active_model = rt.active_model /\ tick'.active = rt.active_model
        /\ ~tick'.executed /\ ~tick'.recovered /\ ~tick'.action_id
    BY <2>1, DecideFacts
  <2> QED BY <2>2, <2>3
      DEF Traffic, Agreement, NoneLate, Moved, Told, AuditMatchesServing, AfterAct
<1>3. CASE NoOpOrAlert \/ Disable
  <2>1. /\ pc = "act" /\ pc' = "record" /\ tick.action # "switch_backup"
        /\ UNCHANGED <<client, registry, late, agreed, row>>
        /\ rt'.active_model = rt.active_model
    BY <1>3 DEF NoOpOrAlert, Disable, Runtime, backendVars, historyVars
  <2>2. /\ tick'.action = tick.action /\ tick'.active = tick.active
        /\ tick'.recovered = tick.recovered /\ tick'.action_id = tick.action_id
    BY <1>3 DEF NoOpOrAlert, Disable, TickLocals
  <2> QED BY <2>1, <2>2
      DEF Traffic, Agreement, NoneLate, Moved, Told, SwitchDone, AuditMatchesServing, AfterAct
<1>4. CASE Switch
  BY <1>4, SwitchMoves
<1>5. CASE ExecutorFails
  <2>1. /\ pc = "act" /\ pc' = "record" /\ UNCHANGED <<client, rt, row>>
        /\ agreed' => UNCHANGED <<registry, late, agreed>>
    BY <1>5 DEF ExecutorFails
  <2>2. /\ tick'.action = tick.action /\ tick'.active = tick.active
        /\ tick'.recovered = tick.recovered /\ tick'.action_id = tick.action_id
        /\ tick'.executed = tick.executed /\ tick'.outcome = "failed"
    BY <1>5 DEF ExecutorFails, TickLocals
  <2> QED BY <2>1, <2>2
      DEF Traffic, Agreement, NoneLate, Moved, Told, SwitchDone, AuditMatchesServing, AfterAct
<1>6. CASE Record
  BY <1>6, RecordTells
<1>7. CASE VerifyProbe
  BY <1>7, VerifyTells
<1>8. CASE Guard
  BY <1>8, GuardMoves
<1>9. CASE Patch
  BY <1>9, PatchTells
<1>10. CASE EndTick
  <2>1. /\ pc' = "observe" /\ pc # "down" /\ tick' = NoTick /\ row' = NoRow
        /\ UNCHANGED <<client, registry, late, agreed>>
        /\ rt'.active_model = rt.active_model
    BY <1>10 DEF EndTick, EndTickWith, CountedDown, Runtime, historyVars
  <2> QED BY <2>1, FreshTick
      DEF Traffic, Agreement, NoneLate, Moved, Told, AuditMatchesServing, AfterAct
<1>11. CASE LateArrival
  <2>1. /\ ~NoneLate /\ UNCHANGED <<pc, rt, tick, client, row, agreed, escalated>>
    BY <1>11 DEF LateArrival, NoneLate, procVars, historyVars
  <2> QED BY <2>1
      DEF Traffic, Agreement, Moved, Told, SwitchDone, AuditMatchesServing
<1>12. CASE ForeignWrite
  <2>1. ~agreed' /\ UNCHANGED <<pc, rt, tick, client, row, escalated>>
    BY <1>12 DEF ForeignWrite, procVars
  <2> QED BY <2>1
      DEF Traffic, Agreement, Moved, Told, SwitchDone, AuditMatchesServing
<1>13. CASE Crash
  <2>1. /\ pc' = "down" /\ tick' = NoTick /\ row' = NoRow
        /\ agreed' => agreed /\ UNCHANGED late
    BY <1>13 DEF Crash
  <2> QED BY <2>1, FreshTick
      DEF Traffic, Agreement, NoneLate, Moved, Told, AuditMatchesServing, AfterAct
<1>14. CASE UNCHANGED vars
  BY <1>14 DEF vars, procVars, backendVars, historyVars, Traffic, Agreement, NoneLate,
     Moved, Told, SwitchDone, AuditMatchesServing
<1> QED BY <1>1, <1>2, <1>3, <1>4, <1>5, <1>6, <1>7, <1>8, <1>9, <1>10, <1>11, <1>12,
        <1>13, <1>14 DEF Next, Tick

LEMMA TrafficHolds == Spec => [](Base /\ Traffic)
  BY BaseInit, BaseNext, TrafficInit, TrafficNext, PTL DEF Spec

(* A switch is confirmed or undone by the end of its tick, whatever the    *)
(* backup, the network and Jenkins do.                                     *)
THEOREM SwitchesAreVerifiedOrReverted == Spec => []VerifiedOrReverted
<1>1. Base /\ Traffic => VerifiedOrReverted
  BY DEF Traffic, Moved, AfterAct, VerifiedOrReverted
<1> QED BY <1>1, TrafficHolds, PTL

(* The registry names the agent's model while no write is lost or late and *)
(* nobody else writes.                                                     *)
THEOREM RegistryInSync == Spec => []InSync
<1>1. Base /\ Traffic => InSync
  BY DEF Traffic, Agreement, InSync
<1> QED BY <1>1, TrafficHolds, PTL

(* The audit row of a switch matches what happened to traffic.             *)
THEOREM AuditIsTruthful == Spec => []AuditMatchesServing
<1>1. Base /\ Traffic => AuditMatchesServing
  BY DEF Traffic, Told
<1> QED BY <1>1, TrafficHolds, PTL
================================================================================
