------------------------------- MODULE AgentLoop -------------------------------
(***************************************************************************)
(* The agent process: one tick of observe, detect, decide, act and verify  *)
(* (agent.py, run_tick), the actions and the rollback guard it calls, and  *)
(* the HTTP client through which it mirrors its choice of active model     *)
(* into the registry and writes the audit trail.                           *)
(*                                                                         *)
(* A tick is cut wherever another party can act or the process can die     *)
(* between two effects that outlive it: `pc` names the next cut.           *)
(*                                                                         *)
(*   down -> observe -> act -> record -> [verify -> [guard] -> patch]      *)
(*                                                       -> end -> observe *)
(*                                                                         *)
(* Calls to the backend are fire-and-forget: an error is logged and        *)
(* dropped, and a call the agent gave up on may still be served later.     *)
(***************************************************************************)
EXTENDS HealthCheck

CONSTANTS
  StartModel,        \* --active, or "model_a": used when the registry is silent
  NoModel,           \* Python's None in a field that holds a model name
  NoRow,             \* no audit row was written for this tick
  ConfirmN,          \* AGENT_CONFIRM_N
  CooldownCycles,    \* AGENT_COOLDOWN_CYCLES
  VerifyRetries,     \* AGENT_VERIFY_RETRIES
  AttemptBound,      \* bound: recovery_attempts saturates here (nothing reads it)
  Executors,         \* the values AGENT_EXECUTOR_TYPE may have at a start
  Observations,      \* what OBSERVE and the stateful detectors may report
  Probes,            \* what a VERIFY probe may find
  Faults,            \* which of the kinds of fault below happen
  MaxLate            \* bound: calls per model still travelling after a timeout

VARIABLES
  pc,          \* where the process is in its tick, or "down"
  rt,          \* AgentRuntime, in memory only
  tick,        \* the local variables of run_tick
  client,      \* "http" (DjangoClient) or "null" (NullDjangoClient)
  executor,    \* config.settings.executor_type, read when the process starts
  registry,    \* the backend: which model the active pointer names
  late,        \* set_active_model calls not yet served, per model
  row,         \* the backend: the ActionLog row of this tick
  (* History variables: nothing below influences a step.                   *)
  witnessed,   \* non-LOW ticks in a row, all observed on the same model
  since,       \* ticks begun since the last switch
  restarted,   \* the process was restarted since the last switch
  unverified,  \* the model promoted last, until it is confirmed or demoted
  escalated,   \* a recovery failed and no LOW tick has been seen since
  agreed       \* the last write of the registry was the agent's, none is late

procVars    == <<pc, rt, tick, client, executor>>
backendVars == <<registry, late, row>>
historyVars == <<witnessed, since, restarted, unverified, escalated, agreed>>
vars        == <<procVars, backendVars, historyVars>>

MODELS == {"model_a", "model_b"}

(* AgentRuntime.backup_model: the other one of the two.                    *)
BackupModel(m) == IF m = "model_a" THEN "model_b" ELSE "model_a"

FaultKinds == {"backend_down", "lost_call", "late_call", "foreign_write", "crash"}

AtMost(n, bound) == IF n > bound THEN bound ELSE n

Observation ==
  [reachable : BOOLEAN, health_status : HealthStatus,
   inference_failure_rate : Int, low_confidence_ratio : Int,
   metrics : Metrics \cup {NoMetrics},
   anomalies : SUBSET {AnomalySpike, AnomalySustained}, share : Int,
   backup_healthy : BOOLEAN]

AuditRow == [action : ActionType, outcome : {"success", "failed", "pending"}]

ASSUME LoopAssumption ==
  /\ StartModel \in MODELS /\ NoModel \notin MODELS /\ NoRow \notin AuditRow
  /\ ConfirmN \in Nat \ {0} /\ CooldownCycles \in Nat
  /\ VerifyRetries \in Int /\ AttemptBound \in Nat /\ MaxLate \in Nat
  /\ Executors \subseteq {"direct", "jenkins"} /\ Executors # {}
  /\ Observations \subseteq Observation
  /\ Probes \subseteq Probe
  /\ Faults \subseteq FaultKinds

(* The history counters need not tell apart what lies further back.        *)
Horizon == CooldownCycles + ConfirmN

(* A new AgentRuntime.                                                     *)
FreshRuntime(active) ==
  [active_model |-> active, previous_model |-> NoModel, serving_enabled |-> TRUE,
   consecutive_non_low |-> 0, consecutive_health_failures |-> 0,
   cooldown_remaining |-> 0, recovery_attempts |-> 0]

NoTick == [active |-> NoModel, action |-> "no_op", severity |-> "LOW",
           target |-> NoModel, executed |-> FALSE, outcome |-> "success",
           action_id |-> FALSE, attempt |-> 0, recovered |-> FALSE, lost |-> FALSE]

Init ==
  /\ pc = "down" /\ client = "null" /\ executor \in Executors
  /\ rt = FreshRuntime(StartModel) /\ tick = NoTick
  /\ registry \in MODELS \cup {NoModel}
  /\ late = [m \in MODELS |-> 0] /\ row = NoRow
  /\ witnessed = [model |-> NoModel, ticks |-> 0]
  /\ since = Horizon /\ restarted = FALSE
  /\ unverified = NoModel /\ escalated = FALSE /\ agreed = FALSE

NoneLate == \A m \in MODELS : late[m] = 0

(***************************************************************************)
(* run(): get_client probes the backend once and keeps the null client for *)
(* good if that fails; the registry's active model is adopted when it can  *)
(* be read (three attempts) and is one of the two models.                  *)
(***************************************************************************)
Start ==
  /\ pc = "down"
  /\ \E up, answered \in BOOLEAN :
       /\ up \/ "backend_down" \in Faults
       /\ answered \/ "lost_call" \in Faults
       /\ LET adopted == up /\ answered /\ registry \in MODELS IN
          /\ client' = IF up THEN "http" ELSE "null"
          /\ rt' = FreshRuntime(IF adopted THEN registry ELSE StartModel)
          /\ agreed' = (adopted /\ NoneLate)
  /\ pc' = "observe" /\ tick' = NoTick /\ row' = NoRow /\ executor' \in Executors
  /\ witnessed' = [model |-> NoModel, ticks |-> 0]
  /\ restarted' = TRUE
  /\ UNCHANGED <<registry, late, since, unverified, escalated>>

(***************************************************************************)
(* OBSERVE, DETECT and DECIDE.  Only reads leave the process until the     *)
(* decision is made, so the three phases are one step.  A counter that is  *)
(* only ever compared with >= saturates at what it is compared with.       *)
(***************************************************************************)
Decide(o) ==
  LET active   == rt.active_model
      failures == IF Failing(o)
                  THEN AtMost(rt.consecutive_health_failures + 1,
                              settings.consecutive_failures_to_switch)
                  ELSE 0
      ctx == [reachable |-> o.reachable, health_status |-> o.health_status,
              failures |-> failures, metrics |-> o.metrics,
              inference_failure_rate |-> o.inference_failure_rate,
              low_confidence_ratio |-> o.low_confidence_ratio]
      detections == ThresholdDetect(ctx) \cup o.anomalies \cup DriftDetect(o.share)
      nonLow == IF Classify(detections) # "LOW"
                THEN AtMost(rt.consecutive_non_low + 1, ConfirmN) ELSE 0
      action_gated == nonLow < ConfirmN \/ rt.cooldown_remaining > 0
      decision == MakeDecision(detections, active, BackupModel(active),
                               o.backup_healthy, action_gated) IN
  /\ pc = "observe" /\ pc' = "act"
  /\ rt' = [rt EXCEPT !.consecutive_health_failures = failures,
                      !.consecutive_non_low = nonLow]
  /\ tick' = [NoTick EXCEPT !.active = active, !.action = decision.action,
                            !.severity = decision.severity,
                            !.target = decision.target_model]
  /\ row' = NoRow
  /\ witnessed' =
       [model |-> active,
        ticks |-> CASE decision.severity = "LOW" -> 0
                    [] decision.severity # "LOW" /\ witnessed.model = active ->
                         AtMost(witnessed.ticks + 1, ConfirmN)
                    [] OTHER -> 1]
  /\ since' = AtMost(since + 1, Horizon)
  /\ escalated' = (escalated /\ decision.severity # "LOW")
  /\ UNCHANGED <<client, executor, registry, late, restarted, unverified, agreed>>

Observe == \E o \in Observations : Decide(o)

(* An exception while probing stands for a model that is down; metrics and *)
(* the backup are then unknown.  The detectors still see the drift batch.  *)
ObserveError ==
  \E o \in Observations :
    Decide([o EXCEPT !.reachable = FALSE, !.health_status = "unhealthy",
                     !.inference_failure_rate = 1000, !.low_confidence_ratio = 0,
                     !.metrics = NoMetrics, !.anomalies = {}, !.backup_healthy = FALSE])

(***************************************************************************)
(* set_active_model(m): the call is served, or refused or lost (and, with  *)
(* the null client, never made), or still under way when the agent stops   *)
(* waiting.  `before` is what the registry holds when the call is made.    *)
(***************************************************************************)
Mirror(m, before) ==
  \/ /\ client = "http"
     /\ registry' = m /\ agreed' = NoneLate /\ UNCHANGED late
  \/ /\ client = "null" \/ "lost_call" \in Faults
     /\ registry' = before /\ agreed' = (before = m /\ NoneLate) /\ UNCHANGED late
  \/ /\ client = "http" /\ "late_call" \in Faults /\ late[m] < MaxLate
     /\ late' = [late EXCEPT ![m] = @ + 1]
     /\ registry' = before /\ agreed' = FALSE

(***************************************************************************)
(* ACT                                                                     *)
(***************************************************************************)
NoOpOrAlert ==
  /\ pc = "act" /\ tick.action \in {"no_op", "alert"}
  /\ pc' = "record"
  /\ tick' = [tick EXCEPT !.executed = TRUE, !.outcome = "success"]
  /\ UNCHANGED <<rt, client, executor, backendVars, historyVars>>

Disable ==
  /\ pc = "act" /\ tick.action = "disable_predictions"
  /\ pc' = "record"
  /\ rt' = [rt EXCEPT !.serving_enabled = FALSE]
  /\ tick' = [tick EXCEPT !.executed = TRUE, !.outcome = "success"]
  /\ UNCHANGED <<client, executor, backendVars, historyVars>>

(* The executor succeeded: flip in memory, mirror into the registry, and   *)
(* run_tick starts the cooldown.  The Jenkins job has written the registry *)
(* by the time it reports success; the direct executor does nothing.  The  *)
(* target is the backup, so "target already active" cannot happen here.    *)
SwitchWith(cooldown) ==
  /\ pc = "act" /\ tick.action = "switch_backup" /\ tick.target # rt.active_model
  /\ pc' = "record"
  /\ rt' = [rt EXCEPT !.previous_model = rt.active_model,
                      !.active_model = tick.target,
                      !.cooldown_remaining = cooldown,
                      !.recovery_attempts = AtMost(@ + 1, AttemptBound)]
  /\ Mirror(tick.target, IF executor = "jenkins" THEN tick.target ELSE registry)
  /\ tick' = [tick EXCEPT !.executed = TRUE, !.outcome = "pending"]
  /\ since' = 0 /\ restarted' = FALSE /\ unverified' = tick.target
  /\ UNCHANGED <<client, executor, row, witnessed, escalated>>

(* Faulty form: the cooldown is not started.                               *)
SwitchUncooled == SwitchWith(rt.cooldown_remaining)

Switch == SwitchWith(CooldownCycles)

(* The Jenkins job failed or was not seen to finish: no flip in memory.    *)
(* The job may have written the registry before it failed, may write it    *)
(* after the agent stopped polling, or may never get there.                *)
ExecutorFails ==
  /\ executor = "jenkins"
  /\ pc = "act" /\ tick.action = "switch_backup" /\ tick.target # rt.active_model
  /\ pc' = "record"
  /\ tick' = [tick EXCEPT !.outcome = "failed"]
  /\ \/ UNCHANGED <<registry, late, agreed>>
     \/ registry' = tick.target /\ agreed' = FALSE /\ UNCHANGED late
     \/ /\ late[tick.target] < MaxLate
        /\ late' = [late EXCEPT ![tick.target] = @ + 1]
        /\ agreed' = FALSE /\ UNCHANGED registry
  /\ UNCHANGED <<rt, client, executor, row, witnessed, since, restarted, unverified, escalated>>

(* post_action: the row is written and its id learnt, or the row is        *)
(* written but the answer is not read, or there is no row.                 *)
Record ==
  LET written == [action |-> tick.action, outcome |-> tick.outcome] IN
  /\ pc = "record"
  /\ pc' = IF tick.action = "switch_backup" /\ tick.executed THEN "verify" ELSE "end"
  /\ \/ /\ client = "http"
        /\ row' = written /\ tick' = [tick EXCEPT !.action_id = TRUE]
     \/ /\ client = "http" /\ "lost_call" \in Faults
        /\ row' \in {written, NoRow} /\ tick' = [tick EXCEPT !.lost = TRUE]
     \/ /\ client = "null"
        /\ row' = NoRow /\ UNCHANGED tick
  /\ UNCHANGED <<rt, client, executor, registry, late, historyVars>>

(***************************************************************************)
(* VERIFY                                                                  *)
(***************************************************************************)
Attempts == IF VerifyRetries > 1 THEN VerifyRetries ELSE 1

VerifyProbe ==
  /\ pc = "verify"
  /\ \E p \in Probes :
       /\ tick' = [tick EXCEPT !.attempt = @ + 1, !.recovered = Recovered(p)]
       /\ pc' = IF Recovered(p) THEN "patch"
                ELSE IF tick.attempt + 1 < Attempts THEN "verify" ELSE "guard"
       /\ unverified' = IF Recovered(p) THEN NoModel ELSE unverified
  /\ UNCHANGED <<rt, client, executor, backendVars, witnessed, since, restarted, escalated, agreed>>

(* rollback_guard: back to the previous model.  After a switch there is    *)
(* always one, so "no rollback target" cannot happen here.                 *)
Rollback(previous, cooldown) ==
  /\ pc = "guard" /\ rt.previous_model \notin {NoModel, rt.active_model}
  /\ pc' = "patch"
  /\ rt' = [rt EXCEPT !.active_model = rt.previous_model, !.previous_model = previous,
                      !.cooldown_remaining = cooldown]
  /\ escalated' = TRUE /\ unverified' = NoModel
  /\ UNCHANGED <<tick, client, executor, row, witnessed, since, restarted>>

RollbackMirrored(previous, cooldown) ==
  Rollback(previous, cooldown) /\ Mirror(rt.previous_model, registry)

(* Faulty forms: no mirror, the way back kept, the cooldown ended.         *)
GuardUnmirrored ==
  Rollback(NoModel, rt.cooldown_remaining) /\ UNCHANGED <<registry, late, agreed>>
GuardKeepsPrevious == RollbackMirrored(rt.previous_model, rt.cooldown_remaining)
GuardEndsCooldown  == RollbackMirrored(NoModel, 0)

Guard == RollbackMirrored(NoModel, rt.cooldown_remaining)

(* patch_action: skipped when the row's id is not known.                   *)
PatchWith(outcome) ==
  /\ pc = "patch" /\ pc' = "end"
  /\ \/ /\ client = "http" /\ tick.action_id
        /\ row' = [row EXCEPT !.outcome = outcome] /\ UNCHANGED tick
     \/ /\ client = "http" /\ tick.action_id /\ "lost_call" \in Faults
        /\ tick' = [tick EXCEPT !.lost = TRUE] /\ UNCHANGED row
     \/ /\ client = "null" \/ ~tick.action_id
        /\ UNCHANGED <<tick, row>>
  /\ UNCHANGED <<rt, client, executor, registry, late, historyVars>>

(* Faulty form: the outcome does not depend on the verification.           *)
PatchSuccess == PatchWith("success")

Patch == PatchWith(IF tick.recovered THEN "success" ELSE "failed")

(* The cooldown counts down on every tick, the one that started it too.    *)
EndTickWith(remaining) ==
  /\ pc = "end" /\ pc' = "observe"
  /\ rt' = [rt EXCEPT !.cooldown_remaining = remaining]
  /\ tick' = NoTick /\ row' = NoRow
  /\ UNCHANGED <<client, executor, registry, late, historyVars>>

CountedDown(n, floor) == IF n > floor THEN n - 1 ELSE n

(* Faulty forms: the countdown passes zero, never reaches it, or leaves    *)
(* out the tick of the switch.                                             *)
EndTickBelowZero  == EndTickWith(CountedDown(rt.cooldown_remaining, -1))
EndTickStopsAtOne == EndTickWith(CountedDown(rt.cooldown_remaining, 1))

EndTickSparesSwitch ==
  EndTickWith(IF tick.action = "switch_backup" /\ tick.executed THEN rt.cooldown_remaining
              ELSE CountedDown(rt.cooldown_remaining, 0))

EndTick == EndTickWith(CountedDown(rt.cooldown_remaining, 0))

(***************************************************************************)
(* The environment                                                         *)
(***************************************************************************)
(* A call the agent stopped waiting for reaches the backend.               *)
LateArrival ==
  /\ \E m \in MODELS :
       /\ late[m] > 0 /\ late' = [late EXCEPT ![m] = @ - 1]
       /\ registry' = m
  /\ UNCHANGED <<procVars, row, historyVars>>

(* An operator's request, a Jenkins job started by hand, or seed_demo,     *)
(* which every start of the backend runs and which points at model_a.      *)
ForeignWrite ==
  /\ "foreign_write" \in Faults
  /\ registry' \in MODELS /\ agreed' = FALSE
  /\ UNCHANGED <<procVars, late, row, witnessed, since, restarted, unverified, escalated>>

(* The process dies: killed, or an exception outside OBSERVE's try.  The   *)
(* container is restarted.  A Jenkins job it had triggered goes on.        *)
Crash ==
  /\ "crash" \in Faults
  /\ pc # "down" /\ pc' = "down" /\ client' = "null"
  /\ rt' = FreshRuntime(StartModel) /\ tick' = NoTick /\ row' = NoRow
  /\ \/ UNCHANGED <<late, agreed>>
     \/ /\ executor = "jenkins" /\ pc = "act" /\ tick.action = "switch_backup"
        /\ late[tick.target] < MaxLate
        /\ late' = [late EXCEPT ![tick.target] = @ + 1] /\ agreed' = FALSE
  /\ UNCHANGED <<executor, registry, witnessed, since, restarted, unverified, escalated>>

Tick ==
  \/ Observe \/ ObserveError
  \/ NoOpOrAlert \/ Disable \/ Switch \/ ExecutorFails
  \/ Record \/ VerifyProbe \/ Guard \/ Patch \/ EndTick

Next == Start \/ Tick \/ LateArrival \/ ForeignWrite \/ Crash

Spec == Init /\ [][Next]_vars

(* The process never blocks for good: every call has a timeout, every      *)
(* retry loop a limit, and the container is restarted after a crash.       *)
Fairness == WF_vars(Start) /\ WF_vars(Tick)

LiveSpec == Spec /\ Fairness
-------------------------------------------------------------------------------

Runtime ==
  [active_model : MODELS, previous_model : MODELS \cup {NoModel},
   serving_enabled : BOOLEAN, consecutive_non_low : 0..ConfirmN,
   consecutive_health_failures : Int, cooldown_remaining : 0..CooldownCycles,
   recovery_attempts : 0..AttemptBound]

TickLocals ==
  [active : MODELS \cup {NoModel}, action : ActionType, severity : Severity,
   target : MODELS \cup {NoModel}, executed : BOOLEAN,
   outcome : {"success", "failed", "pending"}, action_id : BOOLEAN,
   attempt : Nat, recovered : BOOLEAN, lost : BOOLEAN]

TypeOK ==
  /\ pc \in {"down", "observe", "act", "record", "verify", "guard", "patch", "end"}
  /\ client \in {"http", "null"} /\ executor \in {"direct", "jenkins"}
  /\ rt \in Runtime /\ tick \in TickLocals
  /\ registry \in MODELS \cup {NoModel}
  /\ late \in [MODELS -> Nat]
  /\ row \in AuditRow \cup {NoRow}
  /\ witnessed \in [model : MODELS \cup {NoModel}, ticks : 0..ConfirmN]
  /\ since \in 0..Horizon
  /\ unverified \in MODELS \cup {NoModel}
  /\ restarted \in BOOLEAN /\ escalated \in BOOLEAN /\ agreed \in BOOLEAN

Interventions == {"switch_backup", "disable_predictions"}

Intervening == pc = "act" /\ tick.action \in Interventions

(* Anti-flapping, first half (run_tick 118-123): traffic is moved or shut  *)
(* off only after ConfirmN ticks in a row found the model that serves now  *)
(* at fault.  The code counts non-LOW ticks of whichever model was active  *)
(* and never restarts the count at a switch; what keeps the old model's    *)
(* bad ticks from condemning the new one is the cooldown, so the property  *)
(* needs ConfirmN <= CooldownCycles.                                       *)
ConfirmedOnThisModel ==
  Intervening => witnessed = [model |-> rt.active_model, ticks |-> ConfirmN]

(* Anti-flapping, second half: consecutive switches are at least           *)
(* CooldownCycles ticks apart, whatever the models and the network do.     *)
(* A restart forgets the cooldown (AgentRuntime is not persisted); the     *)
(* confirmation window is then all that spaces the switches.               *)
SwitchSpacing ==
  (pc = "act" /\ tick.action = "switch_backup")
    => since >= (IF restarted THEN ConfirmN ELSE CooldownCycles)

(* And no more than that: the gate is open again in the first HIGH tick    *)
(* that is ConfirmN deep and CooldownCycles from the last switch (a        *)
(* restart forgets the switch), whatever was refused or rolled back in     *)
(* between.  The tick of the switch counts against its own cooldown        *)
(* (run_tick 118-123, 149-150).                                            *)
GateOpensInTime ==
  /\ pc = "act" /\ tick.severity = "HIGH"
  /\ witnessed.ticks = ConfirmN /\ (restarted \/ since >= CooldownCycles)
  => tick.action \in Interventions

SwitchDone == tick.action = "switch_backup" /\ tick.executed

(* At the end of a tick that moved traffic the new model was confirmed by  *)
(* VERIFY and the old one is kept as the way back, or traffic is back on   *)
(* the model it came from and nothing is left to roll back to twice.  A    *)
(* tick that did not move traffic leaves it where it found it.             *)
VerifiedOrReverted ==
  pc = "end" =>
    IF SwitchDone /\ tick.recovered
    THEN rt.active_model = tick.target /\ rt.previous_model = tick.active
    ELSE /\ rt.active_model = tick.active
         /\ SwitchDone => rt.previous_model = NoModel /\ escalated

(* The registry, which the backend and everybody else reads, names the     *)
(* model the agent monitors, at every point of the tick, as long as no     *)
(* write was lost or late and nobody else wrote (switch_model.execute and  *)
(* rollback_guard.guard both mirror; run adopts at the start).             *)
InSync == (agreed /\ pc # "down") => registry = rt.active_model

(* What the audit row of a switch says when the tick is over is what       *)
(* happened to traffic: success only if the target was confirmed and       *)
(* serves, failed only if it does not serve; PENDING is left behind only   *)
(* when the call that would have settled it was lost.                      *)
AuditMatchesServing ==
  (pc = "end" /\ row # NoRow /\ row.action = "switch_backup") =>
    CASE row.outcome = "success" -> tick.recovered /\ rt.active_model = tick.target
      [] row.outcome = "failed"  -> ~tick.recovered /\ rt.active_model # tick.target
      [] row.outcome = "pending" -> tick.lost

(* The anti-flap gates delay an intervention and never starve it: while    *)
(* the serving model stays HIGH and the agent stays up, it intervenes      *)
(* again and again (decide and cooldown, run_tick 118-123 and 149-150).    *)
RecoveryNotStarved ==
  <>[](pc # "down" /\ (pc = "act" => tick.severity = "HIGH")) => []<>Intervening

-------------------------------------------------------------------------------
(* What the documentation says of the loop and the code does not do.       *)

(* failure_scenarios.md 5.3.6: verification is mandatory, a switch that is *)
(* not confirmed is rolled back.  The restarted agent adopts the model     *)
(* whose verification the crash cut short and never verifies it.           *)
UnverifiedNeverServes == pc = "observe" => rt.active_model # unverified
===============================================================================
