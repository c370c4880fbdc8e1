----------------------------- MODULE AuditProofs -----------------------------
(***************************************************************************)
(* Proofs about AuditTrail: what the trail says of a verdict is true for   *)
(* any number of workers, incidents and logs, whoever is killed when.      *)
(***************************************************************************)
EXTENDS AuditTrail, FunctionTheorems, FiniteSetTheorems, TLAPS

Patching(w) == req[w].stage \in {"save", "judge", "close"}

(* An incident some row was filed under.                                   *)
Filed(i) == i \in IncidentIds /\ incidents[i].version \in Versions

(* An executed switch that is not judged and that nobody is judging.       *)
Fresh(l) ==
  /\ l \in LogIds
  /\ logs[l].action = "SWITCH" /\ logs[l].verdict = "none"
  /\ Filed(logs[l].incident)
  /\ \A w \in Workers : Patching(w) => req[w].log # l

(* How far a verdict has been written, statement by statement.             *)
PatchOK(w) ==
  LET l == req[w].log IN
  /\ l \in LogIds /\ logs[l].action = "SWITCH"
  /\ logs[l].incident = req[w].incident
  /\ \/ req[w].verdict = "KEEP" /\ req[w].outcome = "SUCCESS"
     \/ req[w].verdict = "ESCALATE" /\ req[w].outcome = "FAILED"
  /\ req[w].stage # "close" => logs[l].verdict = "none"
  /\ req[w].stage # "save"  => logs[l].outcome = req[w].outcome
  /\ req[w].stage = "close" => logs[l].verdict = req[w].verdict

PatchesHold == \A w \in Workers : Patching(w) => PatchOK(w)

OnePatch ==
  \A w, x \in Workers : Patching(w) /\ Patching(x) /\ req[w].log = req[x].log => w = x

FilingHolds ==
  \A w \in Workers :
    /\ req[w].stage \in {"find", "open"} => req[w].version \in Versions
    /\ req[w].stage = "log" => Filed(req[w].incident)

(* The one client: a row it is going to judge is a fresh one, and so is    *)
(* the row that the request it waits for has created for a switch.         *)
WaitHolds ==
  LET r == req[agent.worker] IN
  /\ agent.worker \in Workers
  /\ r.stage \in {"idle", "find", "open", "log", "begin"}
  /\ r.stage # "idle" => r.action = "SWITCH"
  /\ r.stage = "begin" => Fresh(r.log)

AgentHolds ==
  /\ agent.worker \in Workers => agent.stage = "waiting"
  /\ agent.switched => agent.stage = "waiting" /\ WaitHolds
  /\ agent.stage = "verify" => Fresh(agent.log)

IInv ==
  /\ TypeOK /\ ClosedByVerdict /\ VerdictMatchesOutcome
  /\ PatchesHold /\ OnePatch /\ FilingHolds /\ AgentHolds

(* An idle worker holds nothing.                                          *)
LEMMA IdleRequest == NoRequest \in Request /\ NoRequest.stage = "idle"
  BY AuditAssumption DEF NoRequest, Request, ACTION_CHOICE

(* No rows, no requests, and the agent at the start of a tick.             *)
LEMMA InitIInv == Init => IInv
<1> SUFFICES ASSUME Init PROVE IInv
  OBVIOUS
<1> USE AuditAssumption DEF Init
<1>1. TypeOK
  BY DEF TypeOK, Incident, ActionLog, Request, NoIncident, NoLog, NoRequest, NewTick,
         ACTION_CHOICE
<1>2. ClosedByVerdict /\ VerdictMatchesOutcome
  BY DEF ClosedByVerdict, VerdictMatchesOutcome, NoIncident, NoLog
<1>3. PatchesHold /\ OnePatch /\ FilingHolds
  BY DEF PatchesHold, OnePatch, FilingHolds, Patching, NoRequest
<1>4. AgentHolds
  BY DEF AgentHolds, NewTick
<1> QED BY <1>1, <1>2, <1>3, <1>4 DEF IInv

(* A request that goes on to a statement which is none of patch's, or ends,*)
(* takes nothing from what is known of the others.                         *)
LEMMA RequestStep ==
  ASSUME IInv, UNCHANGED logs, NEW w \in Workers, NEW t \in Request,
         req' = [req EXCEPT ![w] = t],
         t.stage \notin {"save", "judge", "close"},
         t.stage \in {"find", "open"} => t.version \in Versions,
         t.stage = "log" => Filed(t.incident)',
         \A i : Filed(i) => Filed(i)'
  PROVE  /\ PatchesHold' /\ OnePatch' /\ FilingHolds' /\ VerdictMatchesOutcome'
         /\ \A l : Fresh(l) => Fresh(l)'
<1> USE DEF IInv
<1>1. \A x \in Workers : Patching(x)' => Patching(x) /\ req'[x] = req[x]
  BY DEF Patching, TypeOK
<1>2. PatchesHold'
  BY <1>1 DEF PatchesHold, PatchOK
<1>3. OnePatch'
  BY <1>1 DEF OnePatch
<1>4. FilingHolds'
  BY DEF FilingHolds, TypeOK
<1>5. VerdictMatchesOutcome'
  BY DEF VerdictMatchesOutcome
<1>6. \A l : Fresh(l) => Fresh(l)'
  BY <1>1 DEF Fresh
<1> QED BY <1>2, <1>3, <1>4, <1>5, <1>6

(* An incident that is closed after a step that judges nothing was closed  *)
(* before it.                                                              *)
LEMMA StillJudged ==
  ASSUME IInv, UNCHANGED logs,
         \A i \in IncidentIds : incidents'[i].status \in TERMINAL
                                  => incidents'[i].status = incidents[i].status
  PROVE  ClosedByVerdict'
  BY DEF IInv, ClosedByVerdict, TERMINAL

(* What the agent is owed survives a step of a request it does not wait    *)
(* for, and one in which its switch is filed a statement further.          *)
LEMMA AgentStep ==
  ASSUME IInv, UNCHANGED agent, NEW w \in Workers, NEW t \in Request,
         req' = [req EXCEPT ![w] = t],
         agent.switched /\ agent.worker = w =>
           /\ t.stage \in {"idle", "find", "open", "log", "begin"}
           /\ t.stage # "idle" => t.action = "SWITCH"
           /\ t.stage = "begin" => Fresh(t.log)',
         \A l : Fresh(l) => Fresh(l)'
  PROVE  AgentHolds'
<1> USE DEF IInv
<1>1. req'[w] = t /\ \A x \in Workers : x # w => req'[x] = req[x]
  BY DEF TypeOK
<1>2. ASSUME agent.switched PROVE WaitHolds'
  <2>1. agent.worker \in Workers /\ WaitHolds
    BY <1>2 DEF AgentHolds, WaitHolds
  <2>2. CASE agent.worker = w
    BY <1>1, <1>2, <2>1, <2>2 DEF WaitHolds
  <2>3. CASE agent.worker # w
    <3>1. req'[agent.worker] = req[agent.worker]
      BY <1>1, <2>1, <2>3
    <3> QED BY <2>1, <3>1 DEF WaitHolds
  <2> QED BY <2>2, <2>3
<1>3. agent.stage = "verify" => Fresh(agent.log)'
  BY DEF AgentHolds
<1> QED BY <1>2, <1>3 DEF AgentHolds

(* The agent learns the row of a request that ends: it is a fresh one.     *)
LEMMA FinishStep ==
  ASSUME IInv, NEW w \in Workers, NEW l \in 0..MaxLogs, Finish(w, l),
         agent.switched /\ agent.worker = w => Fresh(l)',
         \A k : Fresh(k) => Fresh(k)'
  PROVE  /\ AgentHolds'
         /\ agent' \in [stage : {"tick", "waiting", "verify"},
                        worker : Workers \cup {NoWorker},
                        switched : BOOLEAN, log : 0..MaxLogs]
<1> USE DEF IInv
<1>1. NoRequest \in Request /\ NoRequest.stage = "idle"
  BY IdleRequest
<1>2. CASE agent.worker # w
  <2>1. agent' = agent /\ req' = [req EXCEPT ![w] = NoRequest]
    BY <1>2 DEF Finish
  <2>2. AgentHolds'
    BY <1>1, <1>2, <2>1, AgentStep
  <2> QED BY <2>1, <2>2 DEF TypeOK
<1>3. CASE agent.worker = w /\ agent.switched
  <2>1. agent' = [stage |-> "verify", worker |-> NoWorker, switched |-> FALSE, log |-> l]
    BY <1>3 DEF Finish, NewTick
  <2> QED BY <1>3, <2>1, AuditAssumption DEF AgentHolds
<1>4. CASE agent.worker = w /\ ~agent.switched
  <2>1. agent' = NewTick
    BY <1>4 DEF Finish
  <2> QED BY <2>1, AuditAssumption DEF AgentHolds, NewTick
<1> QED BY <1>2, <1>3, <1>4 DEF TypeOK

(* The answer to a post or to a patch that changed no log.                 *)
LEMMA AnswerStep ==
  ASSUME IInv, UNCHANGED <<logs, active>>, contested' \subseteq IncidentIds,
         NEW w \in Workers, Finish(w, req[w].log),
         req[w].stage = "begin" \/ Patching(w),
         incidents' \in [IncidentIds -> Incident], ClosedByVerdict',
         \A i : Filed(i) => Filed(i)'
  PROVE  IInv'
<1> USE DEF IInv
<1>1. NoRequest \in Request /\ NoRequest.stage = "idle"
  BY IdleRequest
<1>2. req' = [req EXCEPT ![w] = NoRequest]
  BY DEF Finish
<1>3. /\ PatchesHold' /\ OnePatch' /\ FilingHolds' /\ VerdictMatchesOutcome'
      /\ \A l : Fresh(l) => Fresh(l)'
  BY <1>1, <1>2, RequestStep
<1>4. agent.switched /\ agent.worker = w => Fresh(req[w].log)
  BY DEF AgentHolds, WaitHolds, Patching
<1>5. req[w].log \in 0..MaxLogs
  BY DEF TypeOK, Request
<1>6. /\ AgentHolds'
      /\ agent' \in [stage : {"tick", "waiting", "verify"},
                     worker : Workers \cup {NoWorker},
                     switched : BOOLEAN, log : 0..MaxLogs]
  BY <1>3, <1>4, <1>5, FinishStep
<1>7. TypeOK'
  BY <1>1, <1>2, <1>6 DEF TypeOK
<1> QED BY <1>3, <1>6, <1>7

(***************************************************************************)
(* The steps of the agent.                                                 *)
(***************************************************************************)
(* A post starts a request that waits at its first statement.             *)
LEMMA PostIInv == ASSUME IInv, NEW w \in Workers, Post(w) PROVE IInv'
<1> USE DEF IInv
<1>1. PICK action \in Posted, executed \in BOOLEAN :
        LET switched == action = "SWITCH" /\ executed
            target   == IF action = "SWITCH" THEN BackupModel(active) ELSE active IN
        /\ action # "SWITCH" => executed
        /\ req' = [req EXCEPT ![w] =
                     [NoRequest EXCEPT
                        !.stage = "find", !.version = target, !.action = action,
                        !.outcome = CASE switched      -> "PENDING"
                                      [] ~executed     -> "FAILED"
                                      [] action # "SWITCH" -> "SUCCESS"]]
        /\ agent' = [NewTick EXCEPT !.stage = "waiting", !.worker = w, !.switched = switched]
        /\ active' = IF switched THEN target ELSE active
  BY DEF Post
<1> DEFINE switched == action = "SWITCH" /\ executed
           target   == IF action = "SWITCH" THEN BackupModel(active) ELSE active
           outcome  == CASE switched -> "PENDING" [] ~executed -> "FAILED"
                         [] action # "SWITCH" -> "SUCCESS"
           t == [NoRequest EXCEPT !.stage = "find", !.version = target,
                                  !.action = action, !.outcome = outcome]
<1>2. target \in Versions /\ action \in ACTION_CHOICE
  BY AuditAssumption DEF TypeOK, BackupModel, Versions
<1>3. outcome \in {"PENDING", "SUCCESS", "FAILED"}
  BY <1>1
<1>4. req' = [req EXCEPT ![w] = t] /\ UNCHANGED <<incidents, logs, contested>>
  BY <1>1 DEF Post
<1>5. t \in Request /\ t.stage = "find" /\ t.action = action /\ t.version \in Versions
  BY <1>2, <1>3, IdleRequest DEF Request, NoRequest
<1> HIDE DEF t
<1>6. PatchesHold' /\ OnePatch' /\ FilingHolds' /\ VerdictMatchesOutcome'
  BY <1>4, <1>5, RequestStep DEF Filed
<1>7. ClosedByVerdict'
  BY <1>4, StillJudged
<1>8. /\ agent' = [stage |-> "waiting", worker |-> w, switched |-> switched, log |-> 0]
      /\ req'[w] = t
  BY <1>1, <1>4 DEF NewTick, TypeOK
<1>9. AgentHolds'
  BY <1>5, <1>8 DEF AgentHolds, WaitHolds
<1>10. TypeOK'
  <2>1. req' \in [Workers -> Request]
    BY <1>4, <1>5 DEF TypeOK
  <2>2. active' \in Versions
    BY <1>1, <1>2 DEF TypeOK
  <2>3. agent' \in [stage : {"tick", "waiting", "verify"}, worker : Workers \cup {NoWorker},
                    switched : BOOLEAN, log : 0..MaxLogs]
    BY <1>8, AuditAssumption
  <2> QED BY <1>4, <2>1, <2>2, <2>3 DEF TypeOK
<1> QED BY <1>6, <1>7, <1>9, <1>10

(* A patch begins on a fresh row: nobody else is judging it, and nobody    *)
(* will, as the agent gives it up.                                         *)
LEMMA PatchVerdictIInv == ASSUME IInv, NEW w \in Workers, PatchVerdict(w) PROVE IInv'
<1> USE DEF IInv
<1> DEFINE l == agent.log
           i == logs[l].incident
<1>1. Fresh(l) /\ agent.stage = "verify" /\ UNCHANGED <<incidents, logs, contested>>
  BY DEF PatchVerdict, AgentHolds
<1>2. PICK recovered \in BOOLEAN :
        /\ req' = [req EXCEPT ![w] =
                     [NoRequest EXCEPT
                        !.stage = "save", !.log = agent.log, !.incident = i,
                        !.version = incidents[i].version,
                        !.outcome = IF recovered THEN "SUCCESS" ELSE "FAILED",
                        !.verdict = Decide(recovered, ~recovered)]]
        /\ active' = IF recovered THEN active ELSE BackupModel(active)
  BY DEF PatchVerdict
<1> DEFINE t == [NoRequest EXCEPT
                   !.stage = "save", !.log = agent.log, !.incident = i,
                   !.version = incidents[i].version,
                   !.outcome = IF recovered THEN "SUCCESS" ELSE "FAILED",
                   !.verdict = Decide(recovered, ~recovered)]
<1>3. req' = [req EXCEPT ![w] = t]
  BY <1>2
<1>4. /\ t.stage = "save" /\ t.log = l /\ t.incident = i
      /\ \/ t.verdict = "KEEP" /\ t.outcome = "SUCCESS"
         \/ t.verdict = "ESCALATE" /\ t.outcome = "FAILED"
  BY DEF NoRequest, Decide
<1>5. t \in Request
  <2>1. l \in 0..MaxLogs /\ i \in 0..MaxIncidents
    BY <1>1, AuditAssumption DEF Fresh, Filed, LogIds, IncidentIds
  <2>2. incidents[i].version \in Versions \cup {"none"}
    BY <1>1 DEF Fresh, Filed
  <2> QED BY <2>1, <2>2, IdleRequest DEF Request, NoRequest, Decide, VERIFY_DECISION
<1> HIDE DEF t
<1>6. req'[w] = t /\ \A x \in Workers : x # w => req'[x] = req[x]
  BY <1>3 DEF TypeOK
<1>7. PatchesHold'
  <2>1. PatchOK(w)'
    BY <1>1, <1>4, <1>6 DEF PatchOK, Fresh
  <2>2. ASSUME NEW x \in Workers, x # w, Patching(x)' PROVE PatchOK(x)'
    BY <1>1, <1>6, <2>2 DEF PatchesHold, PatchOK, Patching
  <2> QED BY <2>1, <2>2 DEF PatchesHold
<1>8. OnePatch'
  BY <1>1, <1>4, <1>6 DEF OnePatch, Patching, Fresh
<1>9. FilingHolds'
  BY <1>1, <1>4, <1>6 DEF FilingHolds, Filed
<1>10. VerdictMatchesOutcome' /\ ClosedByVerdict'
  BY <1>1, StillJudged DEF VerdictMatchesOutcome
<1>11. agent' = [stage |-> "waiting", worker |-> w, switched |-> FALSE, log |-> 0]
  BY DEF PatchVerdict, NewTick
<1>12. AgentHolds'
  BY <1>11 DEF AgentHolds
<1>13. TypeOK'
  <2>1. req' \in [Workers -> Request]
    BY <1>3, <1>5 DEF TypeOK
  <2>2. active' \in Versions
    BY <1>2 DEF TypeOK, BackupModel, Versions
  <2>3. agent' \in [stage : {"tick", "waiting", "verify"}, worker : Workers \cup {NoWorker},
                    switched : BOOLEAN, log : 0..MaxLogs]
    BY <1>11, AuditAssumption
  <2> QED BY <1>1, <2>1, <2>2, <2>3 DEF TypeOK
<1> QED BY <1>7, <1>8, <1>9, <1>10, <1>12, <1>13

(* A row that is not recorded, an answer that does not come, a restart.    *)
LEMMA AgentAloneIInv ==
  ASSUME IInv, Unrecorded \/ GiveUp \/ Restart PROVE IInv'
<1> USE DEF IInv
<1>1. UNCHANGED <<incidents, logs, req, contested>>
  BY DEF Unrecorded, GiveUp, Restart
<1>2. PatchesHold' /\ OnePatch' /\ FilingHolds' /\ VerdictMatchesOutcome' /\ ClosedByVerdict'
  BY <1>1 DEF PatchesHold, PatchOK, Patching, OnePatch, FilingHolds, Filed,
              VerdictMatchesOutcome, ClosedByVerdict
<1>3. active' \in Versions
  BY DEF Unrecorded, GiveUp, Restart, TypeOK, BackupModel, Versions
<1>4. CASE Unrecorded
  <2>1. AgentHolds'
    BY <1>1, <1>4 DEF Unrecorded, AgentHolds, WaitHolds, Fresh, Filed, Patching
  <2> QED BY <1>1, <1>2, <1>3, <1>4, <2>1 DEF Unrecorded, TypeOK
<1>5. CASE GiveUp \/ Restart
  <2>1. agent' = [stage |-> "tick", worker |-> NoWorker, switched |-> FALSE, log |-> 0]
    BY <1>5 DEF GiveUp, Restart, NewTick
  <2>2. AgentHolds'
    BY <2>1, AuditAssumption DEF AgentHolds
  <2>3. TypeOK'
    BY <1>1, <1>3, <2>1, AuditAssumption DEF TypeOK
  <2> QED BY <1>2, <2>2, <2>3
<1> QED BY <1>4, <1>5

(***************************************************************************)
(* The statements of a request.                                            *)
(***************************************************************************)
(* What is found is an incident of the request's version.                 *)
LEMMA FindIncidentIInv == ASSUME IInv, NEW w \in Workers, FindIncident(w) PROVE IInv'
<1> USE DEF IInv
<1>1. PICK t : /\ req' = [req EXCEPT ![w] = t]
               /\ \/ t = [req[w] EXCEPT !.stage = "open"]
                  \/ \E i \in Reusable(req[w].version) :
                       t = [req[w] EXCEPT !.stage = "log", !.incident = i]
  <2>1. CASE req' = [req EXCEPT ![w].stage = "open"]
    BY <2>1
  <2>2. CASE \E i \in Reusable(req[w].version) :
               req' = [req EXCEPT ![w].stage = "log", ![w].incident = i]
    <3>1. PICK i \in Reusable(req[w].version) :
                 req' = [req EXCEPT ![w].stage = "log", ![w].incident = i]
      BY <2>2
    <3>2. req' = [req EXCEPT ![w] = [req[w] EXCEPT !.stage = "log", !.incident = i]]
      BY <3>1 DEF TypeOK
    <3> QED BY <3>2
  <2> QED BY <2>1, <2>2 DEF FindIncident
<1>2. req[w].stage = "find" /\ UNCHANGED <<incidents, logs, agent, active, contested>>
  BY DEF FindIncident
<1>3. req[w].version \in Versions
  BY <1>2 DEF FilingHolds
<1>4. \A i \in Reusable(req[w].version) : Filed(i)
  BY <1>3 DEF Reusable, Filed
<1>5. /\ t \in Request /\ t.stage \in {"open", "log"}
      /\ t.action = req[w].action /\ t.version = req[w].version
      /\ t.stage = "log" => Filed(t.incident)
  <2>1. \A i \in Reusable(req[w].version) : i \in 0..MaxIncidents
    BY AuditAssumption DEF Reusable, IncidentIds
  <2>2. req[w] \in Request
    BY DEF TypeOK
  <2>3. CASE t = [req[w] EXCEPT !.stage = "open"]
    BY <2>2, <2>3 DEF Request
  <2>4. ASSUME NEW i \in Reusable(req[w].version),
               t = [req[w] EXCEPT !.stage = "log", !.incident = i]
        PROVE  <1>5
    BY <1>4, <2>1, <2>2, <2>4 DEF Request
  <2> QED BY <1>1, <2>3, <2>4
<1>6. /\ PatchesHold' /\ OnePatch' /\ FilingHolds' /\ VerdictMatchesOutcome'
      /\ \A l : Fresh(l) => Fresh(l)'
  BY <1>1, <1>2, <1>3, <1>5, RequestStep DEF Filed
<1>7. agent.switched /\ agent.worker = w => t.action = "SWITCH"
  BY <1>2, <1>5 DEF AgentHolds, WaitHolds
<1>8. AgentHolds'
  BY <1>1, <1>2, <1>5, <1>6, <1>7, AgentStep
<1>9. ClosedByVerdict'
  BY <1>2, StillJudged
<1>10. TypeOK'
  BY <1>1, <1>2, <1>5 DEF TypeOK
<1> QED BY <1>6, <1>8, <1>9, <1>10

(* What is opened is, and it is not closed.                               *)
LEMMA OpenIncidentIInv == ASSUME IInv, NEW w \in Workers, OpenIncident(w) PROVE IInv'
<1> USE DEF IInv
<1>1. PICK i \in NextIncident :
        /\ incidents' = [incidents EXCEPT ![i] =
                           [status |-> "OPEN", version |-> req[w].version, closed |-> FALSE]]
        /\ req' = [req EXCEPT ![w].stage = "log", ![w].incident = i]
  BY DEF OpenIncident
<1> PICK t : t = [req[w] EXCEPT !.stage = "log", !.incident = i]
  OBVIOUS
<1>2. /\ req[w].stage = "open" /\ req[w].version \in Versions
      /\ UNCHANGED <<logs, agent, active, contested>>
  BY DEF OpenIncident, FilingHolds
<1>3. i \in IncidentIds /\ i \in 0..MaxIncidents
  BY AuditAssumption DEF NextIncident, IncidentIds
<1>4. incidents' \in [IncidentIds -> Incident]
  BY <1>1, <1>2 DEF TypeOK, Incident, INCIDENT_STATUS
<1>5. /\ incidents'[i].status = "OPEN" /\ incidents'[i].version \in Versions
      /\ \A j \in IncidentIds : j # i => incidents'[j] = incidents[j]
  BY <1>1, <1>2, <1>3 DEF TypeOK
<1>6. \A j : Filed(j) => Filed(j)'
  BY <1>5 DEF Filed
<1>7. /\ t \in Request /\ t.stage = "log" /\ t.action = req[w].action
      /\ Filed(t.incident)'
  <2>1. req[w] \in Request
    BY DEF TypeOK
  <2>2. t \in Request /\ t.stage = "log" /\ t.action = req[w].action /\ t.incident = i
    BY <1>3, <2>1 DEF Request
  <2>3. Filed(i)'
    BY <1>3, <1>5 DEF Filed
  <2> QED BY <2>2, <2>3
<1>8. req' = [req EXCEPT ![w] = t]
  BY <1>1 DEF TypeOK
<1>9. /\ PatchesHold' /\ OnePatch' /\ FilingHolds' /\ VerdictMatchesOutcome'
      /\ \A l : Fresh(l) => Fresh(l)'
  BY <1>2, <1>6, <1>7, <1>8, RequestStep
<1>10. agent.switched /\ agent.worker = w => t.action = "SWITCH"
  BY <1>2, <1>7 DEF AgentHolds, WaitHolds
<1>11. AgentHolds'
  BY <1>2, <1>7, <1>8, <1>9, <1>10, AgentStep
<1>12. ClosedByVerdict'
  BY <1>2, <1>5, StillJudged DEF TERMINAL
<1>13. TypeOK'
  BY <1>2, <1>4, <1>7, <1>8 DEF TypeOK
<1> QED BY <1>9, <1>11, <1>12, <1>13

(* It closes nothing, and answers.                                        *)
LEMMA BeginRecoveryIInv == ASSUME IInv, NEW w \in Workers, BeginRecovery(w) PROVE IInv'
<1> USE DEF IInv, BeginRecovery, BeginRecoveryWith
<1>1. \A i \in IncidentIds :
        /\ incidents'[i].version = incidents[i].version
        /\ incidents'[i].status \in {incidents[i].status, "RECOVERING"}
  BY DEF TypeOK, Incident
<1>2. incidents' \in [IncidentIds -> Incident] /\ contested' \subseteq IncidentIds
  BY DEF TypeOK, Incident, INCIDENT_STATUS
<1>3. \A i : Filed(i) => Filed(i)'
  BY <1>1 DEF Filed
<1>4. ClosedByVerdict'
  BY <1>1, StillJudged DEF TERMINAL
<1> QED BY <1>2, <1>3, <1>4, AnswerStep

(* The verdict is on record under this incident.                           *)
LEMMA ApplyVerificationIInv ==
  ASSUME IInv, NEW w \in Workers, ApplyVerification(w) PROVE IInv'
<1> USE DEF IInv
<1> DEFINE i == req[w].incident
           status == CASE req[w].verdict = "KEEP"     -> "RESOLVED"
                       [] req[w].verdict = "ESCALATE" -> "ESCALATED"
                       [] OTHER                       -> "RECOVERING"
<1>1. /\ incidents' = [incidents EXCEPT ![i].status = status,
                                        ![i].closed = status \in TERMINAL]
      /\ Patching(w) /\ req[w].stage = "close" /\ Finish(w, req[w].log)
      /\ UNCHANGED <<logs, active>> /\ contested' \subseteq IncidentIds
  BY DEF ApplyVerification, Patching, TypeOK
<1>2. /\ req[w].log \in LogIds /\ logs[req[w].log].incident = i
      /\ logs[req[w].log].verdict = req[w].verdict
      /\ req[w].verdict \in {"KEEP", "ESCALATE"}
  BY <1>1 DEF PatchesHold, PatchOK
<1>3. /\ status \in INCIDENT_STATUS
      /\ status = "RESOLVED" => req[w].verdict = "KEEP"
      /\ status = "ESCALATED" => req[w].verdict = "ESCALATE"
  BY DEF INCIDENT_STATUS
<1> HIDE DEF status
<1>4. \A j \in IncidentIds :
        /\ incidents'[j].version = incidents[j].version
        /\ incidents'[j].status = IF j = i THEN status ELSE incidents[j].status
  BY <1>1 DEF TypeOK, Incident
<1>5. incidents' \in [IncidentIds -> Incident]
  <2>1. (status \in TERMINAL) \in BOOLEAN
    OBVIOUS
  <2>2. ASSUME NEW j \in IncidentIds PROVE incidents'[j] \in Incident
    <3>1. incidents[j] \in Incident
      BY DEF TypeOK
    <3>2. CASE j # i
      BY <1>1, <3>1, <3>2 DEF TypeOK
    <3>3. CASE j = i
      <4>1. incidents'[j] = [incidents[j] EXCEPT !.status = status,
                                                 !.closed = status \in TERMINAL]
        BY <1>1, <3>1, <3>3 DEF TypeOK, Incident
      <4> QED BY <1>3, <2>1, <3>1, <4>1 DEF Incident
    <3> QED BY <3>2, <3>3
  <2>3. incidents' = [j \in IncidentIds |-> incidents'[j]]
    BY <1>1 DEF TypeOK
  <2> QED BY <2>2, <2>3
<1>6. \A j : Filed(j) => Filed(j)'
  BY <1>4 DEF Filed
<1>7. ClosedByVerdict'
  <2> SUFFICES ASSUME NEW j \in IncidentIds
               PROVE  /\ incidents'[j].status = "RESOLVED" =>
                           \E l \in LogIds : logs[l].incident = j /\ logs[l].verdict = "KEEP"
                      /\ incidents'[j].status = "ESCALATED" =>
                           \E l \in LogIds : logs[l].incident = j /\ logs[l].verdict = "ESCALATE"
    BY <1>1 DEF ClosedByVerdict
  <2>1. CASE j = i
    BY <1>2, <1>3, <1>4, <2>1
  <2>2. CASE j # i
    BY <1>4, <2>2 DEF ClosedByVerdict
  <2> QED BY <2>1, <2>2
<1> QED BY <1>1, <1>5, <1>6, <1>7, AnswerStep

(* Whatever it was doing, nobody is owed it any more.                     *)
LEMMA KillIInv == ASSUME IInv, NEW w \in Workers, Kill(w) PROVE IInv'
<1> USE DEF IInv
<1>1. req' = [req EXCEPT ![w] = NoRequest] /\ UNCHANGED <<incidents, logs, agent, active, contested>>
  BY DEF Kill
<1>2. /\ PatchesHold' /\ OnePatch' /\ FilingHolds' /\ VerdictMatchesOutcome'
      /\ \A l : Fresh(l) => Fresh(l)'
  BY <1>1, IdleRequest, RequestStep DEF Filed
<1>3. AgentHolds'
  BY <1>1, <1>2, IdleRequest, AgentStep
<1>4. ClosedByVerdict'
  BY <1>1, StillJudged
<1>5. TypeOK'
  BY <1>1, IdleRequest DEF TypeOK
<1> QED BY <1>2, <1>3, <1>4, <1>5

(* The new row is none that anybody judges or is going to judge.           *)
LEMMA CreateLogIInv == ASSUME IInv, NEW w \in Workers, CreateLog(w) PROVE IInv'
<1> USE DEF IInv
<1>1. PICK l \in NextLog :
        /\ logs' = [logs EXCEPT ![l] =
                      [action |-> req[w].action, incident |-> req[w].incident,
                       outcome |-> req[w].outcome, verdict |-> "none"]]
        /\ \/ /\ req[w].action \in NONTRIVIAL
              /\ req' = [req EXCEPT ![w].log = l, ![w].stage = "begin"]
              /\ UNCHANGED agent
           \/ req[w].action \notin NONTRIVIAL /\ Finish(w, l)
  BY DEF CreateLog
<1>2. /\ req[w].stage = "log" /\ Filed(req[w].incident) /\ req[w] \in Request
      /\ UNCHANGED <<incidents, active, contested>>
  BY DEF CreateLog, FilingHolds, TypeOK
<1>3. /\ l \in LogIds /\ l \in 0..MaxLogs
      /\ logs[l].action = "ABSENT" /\ logs[l].verdict = "none"
  BY AuditAssumption DEF NextLog, LogIds, NoLog
<1>4. /\ logs'[l].action = req[w].action /\ logs'[l].incident = req[w].incident
      /\ logs'[l].verdict = "none"
      /\ \A k \in LogIds : k # l => logs'[k] = logs[k]
  BY <1>1, <1>3 DEF TypeOK
<1>5. logs' \in [LogIds -> ActionLog]
  <2>1. [action |-> req[w].action, incident |-> req[w].incident,
         outcome |-> req[w].outcome, verdict |-> "none"] \in ActionLog
    BY <1>2 DEF Request, ActionLog
  <2> QED BY <1>1, <2>1 DEF TypeOK
<1>6. PICK t \in Request :
        /\ req' = [req EXCEPT ![w] = t]
        /\ \/ /\ t.stage = "begin" /\ t.action = req[w].action /\ t.log = l
              /\ UNCHANGED agent
           \/ /\ t.stage = "idle" /\ req[w].action \notin NONTRIVIAL /\ Finish(w, l)
  <2>1. CASE req[w].action \in NONTRIVIAL
    <3> DEFINE t == [req[w] EXCEPT !.log = l, !.stage = "begin"]
    <3>1. t \in Request /\ t.stage = "begin" /\ t.action = req[w].action /\ t.log = l
      BY <1>2, <1>3 DEF Request
    <3>2. req' = [req EXCEPT ![w] = t] /\ UNCHANGED agent
      BY <1>1, <2>1 DEF TypeOK
    <3> HIDE DEF t
    <3> QED BY <3>1, <3>2
  <2>2. CASE req[w].action \notin NONTRIVIAL
    BY <1>1, <2>2, IdleRequest DEF Finish
  <2> QED BY <2>1, <2>2
<1>7. req'[w] = t /\ \A x \in Workers : x # w => req'[x] = req[x]
  BY <1>6 DEF TypeOK
<1>8. \A x \in Workers : Patching(x)' => Patching(x) /\ req'[x] = req[x]
  BY <1>6, <1>7 DEF Patching
<1>9. \A x \in Workers : Patching(x) => req[x].log # l
  BY <1>3 DEF PatchesHold, PatchOK
<1>10. \A k : Fresh(k) => Fresh(k)'
  BY <1>2, <1>3, <1>4, <1>8 DEF Fresh, Filed
<1>11. req[w].action = "SWITCH" => Fresh(l)'
  BY <1>2, <1>3, <1>4, <1>8, <1>9 DEF Fresh, Filed
<1>12. PatchesHold'
  <2> SUFFICES ASSUME NEW x \in Workers, Patching(x)' PROVE PatchOK(x)'
    BY DEF PatchesHold
  <2>1. PatchOK(x) /\ req'[x] = req[x] /\ req[x].log # l
    BY <1>8, <1>9 DEF PatchesHold
  <2>2. logs'[req[x].log] = logs[req[x].log]
    BY <1>4, <2>1 DEF PatchOK
  <2> QED BY <2>1, <2>2 DEF PatchOK
<1>13. OnePatch'
  BY <1>8 DEF OnePatch
<1>14. FilingHolds'
  BY <1>2, <1>6, <1>7 DEF FilingHolds, Filed
<1>15. VerdictMatchesOutcome'
  BY <1>4 DEF VerdictMatchesOutcome
<1>16. ClosedByVerdict'
  <2>1. \A k \in LogIds : logs[k].verdict # "none" => logs'[k] = logs[k]
    BY <1>3, <1>4
  <2> QED BY <1>2, <2>1 DEF ClosedByVerdict
<1>17. agent.switched /\ agent.worker = w => req[w].action = "SWITCH"
  BY <1>2 DEF AgentHolds, WaitHolds
<1>18. /\ AgentHolds'
       /\ agent' \in [stage : {"tick", "waiting", "verify"},
                      worker : Workers \cup {NoWorker},
                      switched : BOOLEAN, log : 0..MaxLogs]
  <2>1. CASE t.stage = "begin"
    <3>1. AgentHolds'
      BY <1>6, <1>10, <1>11, <1>17, <2>1, AgentStep
    <3> QED BY <1>6, <2>1, <3>1 DEF TypeOK
  <2>2. CASE t.stage = "idle"
    BY <1>3, <1>6, <1>10, <1>11, <1>17, <2>2, FinishStep
  <2> QED BY <1>6, <2>1, <2>2
<1>19. TypeOK'
  BY <1>2, <1>5, <1>6, <1>18 DEF TypeOK
<1> QED BY <1>12, <1>13, <1>14, <1>15, <1>16, <1>18, <1>19

(* The two statements of patch that write the row it judges.  A verdict is *)
(* only ever written where there was none.                                 *)
LEMMA JudgeStep ==
  ASSUME IInv, UNCHANGED <<incidents, agent, active, contested>>,
         NEW w \in Workers, Patching(w), NEW row \in ActionLog, NEW t \in Request,
         logs' = [logs EXCEPT ![req[w].log] = row],
         req' = [req EXCEPT ![w] = t],
         logs[req[w].log].verdict = "none",
         row.action = "SWITCH", row.incident = logs[req[w].log].incident,
         row.verdict # "none" => row.outcome = IF row.verdict = "KEEP" THEN "SUCCESS" ELSE "FAILED",
         t.stage \in {"judge", "close"}, t.log = req[w].log, PatchOK(w)'
  PROVE  IInv'
<1> USE DEF IInv
<1> DEFINE l == req[w].log
<1>1. PatchOK(w) /\ l \in LogIds
  BY DEF PatchesHold, PatchOK
<1>2. req'[w] = t /\ \A x \in Workers : x # w => req'[x] = req[x]
  BY DEF TypeOK
<1>3. logs'[req[w].log] = row /\ \A k \in LogIds : k # req[w].log => logs'[k] = logs[k]
  BY <1>1 DEF TypeOK
<1>4. \A x \in Workers : x # w /\ Patching(x) => req[x].log # req[w].log
  BY DEF OnePatch
<1>5. \A k : Fresh(k) => Fresh(k)'
  BY <1>2, <1>3 DEF Fresh, Filed, Patching
<1>6. PatchesHold'
  <2> SUFFICES ASSUME NEW x \in Workers, x # w, Patching(x)' PROVE PatchOK(x)'
    BY DEF PatchesHold
  <2>1. req'[x] = req[x] /\ Patching(x) /\ PatchOK(x) /\ req[x].log # req[w].log
    BY <1>2, <1>4 DEF Patching, PatchesHold
  <2>2. logs'[req[x].log] = logs[req[x].log]
    BY <1>3, <2>1 DEF PatchOK
  <2> QED BY <2>1, <2>2 DEF PatchOK
<1>7. OnePatch'
  <2>1. \A x \in Workers : (Patching(x)' <=> Patching(x)) /\ (Patching(x) => req'[x].log = req[x].log)
    BY <1>2 DEF Patching
  <2> QED BY <2>1 DEF OnePatch
<1>8. FilingHolds'
  BY <1>2 DEF FilingHolds, Filed
<1>9. VerdictMatchesOutcome'
  BY <1>3 DEF VerdictMatchesOutcome
<1>10. ClosedByVerdict'
  <2>1. \A k \in LogIds : logs[k].verdict # "none" => logs'[k] = logs[k]
    BY <1>3
  <2> QED BY <2>1 DEF ClosedByVerdict
<1>11. agent.switched => agent.worker # w
  BY DEF AgentHolds, WaitHolds, Patching
<1>12. AgentHolds'
  BY <1>5, <1>11, AgentStep
<1>13. TypeOK'
  BY DEF TypeOK
<1> QED BY <1>6, <1>7, <1>8, <1>9, <1>10, <1>12, <1>13

(* The outcome comes before the verdict it has to agree with.             *)
LEMMA SaveLogIInv == ASSUME IInv, NEW w \in Workers, SaveLog(w) PROVE IInv'
<1> USE DEF IInv, SaveLog, SaveLogWith
<1>1. Patching(w) /\ PatchOK(w)
  BY DEF Patching, PatchesHold
<1>2. req[w] \in Request /\ logs[req[w].log] \in ActionLog /\ req[w].log \in LogIds
  BY <1>1 DEF TypeOK, PatchOK
<1>3. PICK row : row = [logs[req[w].log] EXCEPT !.outcome = req[w].outcome]
  OBVIOUS
<1>4. PICK t : t = [req[w] EXCEPT !.stage = "judge"]
  OBVIOUS
<1>5. /\ row \in ActionLog /\ row.action = "SWITCH" /\ row.verdict = "none"
      /\ row.incident = logs[req[w].log].incident /\ row.outcome = req[w].outcome
  BY <1>1, <1>2, <1>3 DEF PatchOK, ActionLog, Request
<1>6. /\ t \in Request /\ t.stage = "judge" /\ t.log = req[w].log
      /\ t.incident = req[w].incident /\ t.verdict = req[w].verdict
      /\ t.outcome = req[w].outcome
  BY <1>2, <1>4 DEF Request
<1>7. logs' = [logs EXCEPT ![req[w].log] = row] /\ req' = [req EXCEPT ![w] = t]
  BY <1>3, <1>4 DEF TypeOK
<1>8. PatchOK(w)'
  <2>1. req'[w] = t /\ logs'[req[w].log] = row
    BY <1>2, <1>7 DEF TypeOK
  <2> QED BY <1>1, <1>5, <1>6, <2>1 DEF PatchOK
<1> QED BY <1>1, <1>5, <1>6, <1>7, <1>8, JudgeStep DEF PatchOK

(* The verdict agrees with the outcome that is already there.             *)
LEMMA RecordVerdictIInv == ASSUME IInv, NEW w \in Workers, RecordVerdict(w) PROVE IInv'
<1> USE DEF IInv, RecordVerdict
<1>1. Patching(w) /\ PatchOK(w)
  BY DEF Patching, PatchesHold
<1>2. req[w] \in Request /\ logs[req[w].log] \in ActionLog /\ req[w].log \in LogIds
  BY <1>1 DEF TypeOK, PatchOK
<1>3. PICK row : row = [logs[req[w].log] EXCEPT !.verdict = req[w].verdict]
  OBVIOUS
<1>4. PICK t : t = [req[w] EXCEPT !.stage = "close"]
  OBVIOUS
<1>5. /\ row \in ActionLog /\ row.action = "SWITCH" /\ row.verdict = req[w].verdict
      /\ row.incident = logs[req[w].log].incident /\ row.outcome = req[w].outcome
  BY <1>1, <1>2, <1>3 DEF PatchOK, ActionLog, Request
<1>6. /\ t \in Request /\ t.stage = "close" /\ t.log = req[w].log
      /\ t.incident = req[w].incident /\ t.verdict = req[w].verdict
      /\ t.outcome = req[w].outcome
  BY <1>2, <1>4 DEF Request
<1>7. logs' = [logs EXCEPT ![req[w].log] = row] /\ req' = [req EXCEPT ![w] = t]
  BY <1>3, <1>4 DEF TypeOK
<1>8. PatchOK(w)'
  <2>1. req'[w] = t /\ logs'[req[w].log] = row
    BY <1>2, <1>7 DEF TypeOK
  <2> QED BY <1>1, <1>5, <1>6, <2>1 DEF PatchOK
<1>9. row.outcome = IF row.verdict = "KEEP" THEN "SUCCESS" ELSE "FAILED"
  BY <1>1, <1>5 DEF PatchOK
<1>10. logs[req[w].log].verdict = "none"
  BY <1>1 DEF PatchOK
<1> QED BY <1>1, <1>5, <1>6, <1>7, <1>8, <1>9, <1>10, JudgeStep

(* Every step of the agent and every statement of a request.              *)
LEMMA NextIInv == IInv /\ [Next]_vars => IInv'
<1> SUFFICES ASSUME IInv, [Next]_vars PROVE IInv'
  OBVIOUS
<1>1. ASSUME NEW w \in Workers, Serve(w) PROVE IInv'
  BY <1>1, FindIncidentIInv, OpenIncidentIInv, CreateLogIInv, BeginRecoveryIInv,
     SaveLogIInv, RecordVerdictIInv, ApplyVerificationIInv, KillIInv DEF Serve
<1>2. CASE UNCHANGED vars
  BY <1>2 DEF vars, IInv, TypeOK, ClosedByVerdict, VerdictMatchesOutcome, PatchesHold,
              PatchOK, Patching, OnePatch, FilingHolds, Filed, AgentHolds, WaitHolds, Fresh
<1> QED BY <1>1, <1>2, PostIInv, PatchVerdictIInv, AgentAloneIInv DEF Next

(* The inductive invariant.                                                *)
THEOREM InvariantHolds == Spec => []IInv
  BY InitIInv, NextIInv, PTL DEF Spec

(* Rows, requests and the agent's memory stay in their types: a verdict is *)
(* always about a row that exists.                                         *)
THEOREM AuditTypes == Spec => []TypeOK
  BY InvariantHolds, PTL DEF IInv

(* An incident is closed by a verdict on record in its own trail, and by   *)
(* the one its status names.                                               *)
THEOREM IncidentsAreClosedByVerdicts == Spec => []ClosedByVerdict
  BY InvariantHolds, PTL DEF IInv

(* A row and its verdict never contradict each other.                      *)
THEOREM VerdictsMatchOutcomes == Spec => []VerdictMatchesOutcome
  BY InvariantHolds, PTL DEF IInv

(***************************************************************************)
(* What requests have in hand.                                             *)
(***************************************************************************)
Filing(w) == req[w].stage \in {"log", "begin"}

(* A request that files a row has an incident of its version, and the row  *)
(* it has created is filed under that one.                                 *)
Placed ==
  \A w \in Workers : Filing(w) =>
    /\ req[w].version \in Versions /\ req[w].incident \in IncidentIds
    /\ incidents[req[w].incident].version = req[w].version
    /\ req[w].stage = "begin" =>
         req[w].log \in LogIds /\ logs[req[w].log].incident = req[w].incident

(* A closed incident is in nobody's hands but those it was closed under.   *)
HeldOpen ==
  \A i \in IncidentIds \ contested : incidents[i].status \in TERMINAL =>
    /\ \A w \in Workers : req[w].incident # i
    /\ agent.stage = "verify" => logs[agent.log].incident # i

(* What may still be an open incident of a version: those that are, those  *)
(* a request may write to, and one for each request about to open one.     *)
Openers(v) == {w \in Workers : req[w].stage = "open" /\ req[w].version = v}
Filers(v)  == {w \in Workers : Filing(w) /\ req[w].version = v}
Live(v)    == {i \in IncidentIds : i \in Open(v) \/ \E w \in Filers(v) : req[w].incident = i}

Bounded ==
  \A v \in Versions : Cardinality(Openers(v)) + Cardinality(Live(v)) <= Cardinality(Workers)

HInv == Placed /\ HeldOpen /\ Bounded

LEMMA LiveIsFinite ==
  ASSUME NEW v
  PROVE  /\ IsFiniteSet(Live(v)) /\ Cardinality(Live(v)) \in Nat
         /\ IsFiniteSet(Openers(v)) /\ Cardinality(Openers(v)) \in Nat
         /\ IsFiniteSet(Filers(v)) /\ Cardinality(Filers(v)) \in Nat
         /\ IsFiniteSet(Workers) /\ Cardinality(Workers) \in Nat
<1>1. IsFiniteSet(IncidentIds)
  BY AuditAssumption, FS_Interval DEF IncidentIds
<1>2. IsFiniteSet(Workers)
  BY AuditAssumption
<1>3. Live(v) \in SUBSET IncidentIds /\ Openers(v) \in SUBSET Workers /\ Filers(v) \in SUBSET Workers
  BY DEF Live, Openers, Filers
<1>4. IsFiniteSet(Live(v)) /\ IsFiniteSet(Openers(v)) /\ IsFiniteSet(Filers(v))
  BY <1>1, <1>2, <1>3, FS_Subset
<1> QED BY <1>2, <1>4, FS_CardinalityType

LEMMA InitHInv == Init => HInv
<1> SUFFICES ASSUME Init PROVE HInv
  OBVIOUS
<1>1. Placed /\ HeldOpen
  BY DEF Init, Placed, HeldOpen, Filing, NoRequest, NoIncident, TERMINAL
<1>2. ASSUME NEW v \in Versions
      PROVE  Cardinality(Openers(v)) + Cardinality(Live(v)) <= Cardinality(Workers)
  <2>1. Openers(v) = {} /\ Live(v) = {}
    BY <1>2 DEF Init, Openers, Live, Filers, Filing, Open, NoRequest, NoIncident, Versions
  <2> QED BY <2>1, FS_EmptySet, LiveIsFinite
<1> QED BY <1>1, <1>2 DEF HInv, Bounded

(***************************************************************************)
(* Steps of a request, and what they leave true of the hands of others.    *)
(***************************************************************************)
(* Request w goes on as t.  What t holds is open, or was w's; what is      *)
(* closed now and was not was closed by w and is in nobody else's hands.   *)
LEMMA HandsStep ==
  ASSUME IInv, HInv, NEW w \in Workers, NEW t \in Request, req' = [req EXCEPT ![w] = t],
         contested \subseteq contested',
         t.stage \in {"log", "begin"} =>
           /\ t.version \in Versions /\ t.incident \in IncidentIds
           /\ incidents'[t.incident].version = t.version,
         t.stage = "begin" => t.log \in LogIds /\ logs'[t.log].incident = t.incident,
         \A i \in IncidentIds :
           incidents[i].version # "none" => incidents'[i].version = incidents[i].version,
         \A l \in LogIds : logs[l].incident # 0 => logs'[l].incident = logs[l].incident,
         \A i \in IncidentIds \ contested' : incidents'[i].status \in TERMINAL =>
           /\ incidents[i].status \in TERMINAL \/ ~HeldBesides(i, w)
           /\ t.incident # i
           /\ agent'.stage = "verify" => agent' = agent \/ logs'[agent'.log].incident # i
  PROVE  Placed' /\ HeldOpen'
<1>1. req'[w] = t /\ \A x \in Workers \ {w} : req'[x] = req[x]
  BY DEF IInv, TypeOK
<1>2. IncidentIds \subseteq Nat \ {0}
  BY AuditAssumption DEF IncidentIds
<1>3. Placed'
  <2> SUFFICES ASSUME NEW x \in Workers, Filing(x)'
               PROVE  /\ req'[x].version \in Versions /\ req'[x].incident \in IncidentIds
                      /\ incidents'[req'[x].incident].version = req'[x].version
                      /\ req'[x].stage = "begin" =>
                           /\ req'[x].log \in LogIds
                           /\ logs'[req'[x].log].incident = req'[x].incident
    BY DEF Placed
  <2>1. CASE x = w
    BY <1>1, <2>1 DEF Filing
  <2>2. CASE x # w
    <3>1. req'[x] = req[x] /\ Filing(x)
      BY <1>1, <2>2 DEF Filing
    <3>2. /\ req[x].version \in Versions /\ req[x].incident \in IncidentIds
          /\ incidents[req[x].incident].version = req[x].version
          /\ req[x].stage = "begin" =>
               req[x].log \in LogIds /\ logs[req[x].log].incident = req[x].incident
      BY <3>1 DEF HInv, Placed
    <3>3. incidents[req[x].incident].version # "none"
      BY <3>2 DEF Versions
    <3> QED BY <1>2, <3>1, <3>2, <3>3
  <2> QED BY <2>1, <2>2
<1>4. HeldOpen'
  <2> SUFFICES ASSUME NEW i \in IncidentIds, i \notin contested', incidents'[i].status \in TERMINAL
               PROVE  /\ \A x \in Workers : req'[x].incident # i
                      /\ agent'.stage = "verify" => logs'[agent'.log].incident # i
    BY DEF HeldOpen
  <2>1. \/ incidents[i].status \in TERMINAL /\ i \notin contested
        \/ ~HeldBesides(i, w)
    OBVIOUS
  <2>2. ASSUME NEW x \in Workers, x # w PROVE req'[x].incident # i
    BY <1>1, <2>1, <2>2 DEF HInv, HeldOpen, HeldBesides
  <2>3. req'[w].incident # i
    BY <1>1
  <2>4. ASSUME agent'.stage = "verify", agent' = agent PROVE logs'[agent.log].incident # i
    <3>1. agent.log \in LogIds /\ logs[agent.log].incident \in IncidentIds
      BY <2>4 DEF IInv, AgentHolds, Fresh, Filed
    <3>2. logs'[agent.log].incident = logs[agent.log].incident
      BY <1>2, <3>1
    <3>3. logs[agent.log].incident # i
      BY <2>1, <2>4 DEF HInv, HeldOpen, HeldBesides
    <3> QED BY <3>2, <3>3
  <2> QED BY <2>2, <2>3, <2>4
<1> QED BY <1>3, <1>4

(* Fewer of them are no more.                                              *)
LEMMA FewerStep ==
  ASSUME HInv, \A v \in Versions : Openers(v)' \subseteq Openers(v) /\ Live(v)' \subseteq Live(v)
  PROVE  Bounded'
<1> SUFFICES ASSUME NEW v \in Versions
             PROVE  Cardinality(Openers(v)') + Cardinality(Live(v)') <= Cardinality(Workers)
  BY DEF Bounded
<1> DEFINE o == Openers(v)
           l == Live(v)
           p == Openers(v)'
           m == Live(v)'
<1>1. IsFiniteSet(o) /\ IsFiniteSet(l) /\ p \in SUBSET o /\ m \in SUBSET l
  BY LiveIsFinite
<1>2. Cardinality(o) \in Nat /\ Cardinality(l) \in Nat /\ Cardinality(Workers) \in Nat
  BY LiveIsFinite
<1>3. Cardinality(o) + Cardinality(l) <= Cardinality(Workers)
  BY DEF HInv, Bounded
<1> HIDE DEF o, l, p, m
<1>4. /\ IsFiniteSet(p) /\ Cardinality(p) <= Cardinality(o)
      /\ IsFiniteSet(m) /\ Cardinality(m) <= Cardinality(l)
  BY <1>1, FS_Subset
<1>5. Cardinality(p) \in Nat /\ Cardinality(m) \in Nat
  BY <1>4, FS_CardinalityType
<1>6. Cardinality(p) + Cardinality(m) <= Cardinality(Workers)
  BY <1>2, <1>3, <1>4, <1>5
<1> QED BY <1>6 DEF p, m

(* Where nothing is open, what is live is in the hands of other requests,  *)
(* each of which has one incident: there is room for one more opener.      *)
LEMMA OpenerStep ==
  ASSUME IInv, HInv, NEW w \in Workers, req[w].stage = "find",
         Open(req[w].version) = {}, UNCHANGED incidents,
         NEW t \in Request, t.stage = "open", t.version = req[w].version,
         req' = [req EXCEPT ![w] = t]
  PROVE  Bounded'
<1> DEFINE u == req[w].version
<1>1. req'[w] = t /\ \A x \in Workers \ {w} : req'[x] = req[x]
  BY DEF IInv, TypeOK
<1>2. \A v \in Versions : Live(v)' = Live(v)
  BY <1>1 DEF Live, Filers, Filing, Open
<1>3. Openers(u)' = Openers(u) \cup {w} /\ w \notin Openers(u)
  BY <1>1 DEF Openers
<1>4. \A v \in Versions \ {u} : Openers(v)' = Openers(v)
  BY <1>1 DEF Openers
<1>5. Cardinality(Live(u)) <= Cardinality(Filers(u))
  <2> DEFINE f == [x \in Filers(u) |-> req[x].incident]
  <2>1. \A x \in Filers(u) : req[x].incident \in Live(u)
    BY DEF HInv, Placed, Filers, Live
  <2>2. \A i \in Live(u) : \E x \in Filers(u) : f[x] = i
    BY DEF Live
  <2>3. f \in Surjection(Filers(u), Live(u))
    BY <2>1, <2>2 DEF Surjection
  <2> HIDE DEF f
  <2> QED BY <2>3, LiveIsFinite, FS_Surjection
<1> DEFINE o == Openers(u) \cup {w}
<1>6. IsFiniteSet(o) /\ Cardinality(o) = Cardinality(Openers(u)) + 1
  BY <1>3, LiveIsFinite, FS_AddElement
<1>7. o \cap Filers(u) = {} /\ o \cup Filers(u) \in SUBSET Workers
  BY DEF Openers, Filers, Filing
<1>8. Cardinality(o) + Cardinality(Filers(u)) <= Cardinality(Workers)
  <2> HIDE DEF o
  <2>1. Cardinality(o \cup Filers(u)) = Cardinality(o) + Cardinality(Filers(u)) - Cardinality({})
    BY <1>6, <1>7, LiveIsFinite, FS_Union
  <2>2. Cardinality({}) = 0
    BY FS_EmptySet
  <2>3. Cardinality(o \cup Filers(u)) <= Cardinality(Workers)
    BY <1>7, LiveIsFinite, FS_Subset
  <2>4. Cardinality(o) \in Nat /\ Cardinality(Filers(u)) \in Nat
    BY <1>6, LiveIsFinite, FS_CardinalityType
  <2> QED BY <2>1, <2>2, <2>3, <2>4
<1>9. Cardinality(o) + Cardinality(Live(u)) <= Cardinality(Workers)
  <2>1. /\ Cardinality(Live(u)) \in Nat /\ Cardinality(Filers(u)) \in Nat
        /\ Cardinality(Workers) \in Nat /\ Cardinality(o) \in Nat
    BY <1>6, LiveIsFinite
  <2> HIDE DEF o
  <2> QED BY <1>5, <1>8, <2>1
<1>10. ASSUME NEW v \in Versions
       PROVE  Cardinality(Openers(v)') + Cardinality(Live(v)') <= Cardinality(Workers)
  <2>1. CASE v = u
    BY <1>2, <1>3, <1>9, <2>1
  <2>2. CASE v # u
    BY <1>2, <1>4, <2>2 DEF HInv, Bounded
  <2> QED BY <2>1, <2>2
<1> QED BY <1>10 DEF Bounded

(* A request that opens nothing writes to what was open or live already.   *)
LEMMA LiveStep ==
  ASSUME IInv, HInv, NEW w \in Workers, NEW t \in Request, req' = [req EXCEPT ![w] = t],
         t.stage # "open",
         t.stage \in {"log", "begin"} =>
           \/ Filing(w) /\ t.version = req[w].version /\ t.incident = req[w].incident
           \/ t.incident \in Open(t.version),
         \A i \in IncidentIds : incidents'[i].version = incidents[i].version,
         \A i \in IncidentIds : incidents'[i].status \notin TERMINAL =>
           \/ incidents[i].status \notin TERMINAL
           \/ Filing(w) /\ i = req[w].incident
  PROVE  Bounded'
<1>1. req'[w] = t /\ \A x \in Workers \ {w} : req'[x] = req[x]
  BY DEF IInv, TypeOK
<1>2. \A v \in Versions : Openers(v)' \subseteq Openers(v)
  BY <1>1 DEF Openers
<1>3. ASSUME NEW v \in Versions, NEW i \in IncidentIds, i \in Live(v)' PROVE i \in Live(v)
  <2>1. CASE i \in Open(v)'
    <3>1. incidents[i].version = v
      BY <2>1 DEF Open
    <3>2. CASE incidents[i].status \notin TERMINAL
      BY <3>1, <3>2 DEF Live, Open
    <3>3. CASE Filing(w) /\ i = req[w].incident
      <4>1. req[w].version = v
        BY <3>1, <3>3 DEF HInv, Placed
      <4> QED BY <3>3, <4>1 DEF Live, Filers
    <3> QED BY <2>1, <3>2, <3>3 DEF Open
  <2>2. CASE \E x \in Filers(v)' : req'[x].incident = i
    <3>1. PICK x \in Workers : Filing(x)' /\ req'[x].version = v /\ req'[x].incident = i
      BY <2>2 DEF Filers
    <3>2. CASE x # w
      BY <1>1, <3>1, <3>2 DEF Filing, Live, Filers
    <3>3. CASE x = w
      BY <1>1, <3>1, <3>3 DEF Filing, Live, Filers
    <3> QED BY <3>2, <3>3
  <2> QED BY <1>3, <2>1, <2>2 DEF Live
<1>4. \A v \in Versions : Live(v)' \subseteq Live(v)
  BY <1>3 DEF Live
<1> QED BY <1>2, <1>4, FewerStep

(* A closed incident in nobody's hands stays as it is, and so does what is *)
(* filed under it.                                                         *)
Final ==
  \A i \in IncidentIds \ contested : incidents[i].status \in TERMINAL =>
    /\ incidents'[i] = incidents[i]
    /\ \A l \in LogIds : logs'[l].incident = i => logs[l].incident = i

(* A step that leaves the rows of incidents alone and files nothing new.   *)
LEMMA QuietStep ==
  ASSUME IInv, HInv, UNCHANGED <<incidents, contested>>,
         NEW w \in Workers, NEW t \in Request, req' = [req EXCEPT ![w] = t],
         t.stage \notin {"open", "begin"},
         t.stage = "log" => t.version \in Versions /\ t.incident \in Open(t.version),
         \A l \in LogIds : logs'[l].incident = logs[l].incident,
         t.incident # 0 =>
           \/ t.incident = req[w].incident
           \/ t.incident \in Open(t.version)
           \/ agent.stage = "verify" /\ t.incident = logs[agent.log].incident,
         agent' = agent \/ agent'.stage # "verify"
  PROVE  HInv' /\ Final
<1>1. Bounded'
  BY LiveStep
<1>2. IncidentIds \subseteq Nat \ {0}
  BY AuditAssumption DEF IncidentIds
<1>3. ASSUME NEW i \in IncidentIds, i \notin contested, incidents[i].status \in TERMINAL
      PROVE  t.incident # i
  BY <1>2, <1>3 DEF HInv, HeldOpen, Open
<1>4. t.stage \in {"log", "begin"} =>
        t.incident \in IncidentIds /\ incidents[t.incident].version = t.version
  BY DEF Open
<1>5. Placed' /\ HeldOpen'
  BY <1>3, <1>4, HandsStep
<1>6. Final
  BY DEF Final
<1> QED BY <1>1, <1>5, <1>6 DEF HInv

(* A new request has nothing in hand.                                      *)
LEMMA PostHInv ==
  ASSUME IInv, HInv, NEW w \in Workers, Post(w) PROVE HInv' /\ Final
<1>1. PICK action \in Posted, executed \in BOOLEAN :
        LET switched == action = "SWITCH" /\ executed
            target   == IF action = "SWITCH" THEN BackupModel(active) ELSE active IN
        /\ action # "SWITCH" => executed
        /\ req' = [req EXCEPT ![w] =
                     [NoRequest EXCEPT
                        !.stage = "find", !.version = target, !.action = action,
                        !.outcome = CASE switched      -> "PENDING"
                                      [] ~executed     -> "FAILED"
                                      [] action # "SWITCH" -> "SUCCESS"]]
  BY DEF Post
<1> DEFINE switched == action = "SWITCH" /\ executed
           target   == IF action = "SWITCH" THEN BackupModel(active) ELSE active
           outcome  == CASE switched      -> "PENDING"
                         [] ~executed     -> "FAILED"
                         [] action # "SWITCH" -> "SUCCESS"
           t == [NoRequest EXCEPT
                   !.stage = "find", !.version = target, !.action = action, !.outcome = outcome]
<1>2. target \in Versions /\ outcome \in {"PENDING", "SUCCESS", "FAILED"}
  BY <1>1 DEF IInv, TypeOK, Versions, BackupModel
<1>3. t \in Request /\ t.stage = "find" /\ t.incident = 0
  <2>1. action \in ACTION_CHOICE
    BY AuditAssumption
  <2> HIDE DEF target, outcome
  <2> QED BY <1>2, <2>1, IdleRequest DEF Request, NoRequest
<1>4. /\ req' = [req EXCEPT ![w] = t] /\ UNCHANGED <<incidents, logs, contested>>
      /\ agent'.stage # "verify"
  BY <1>1 DEF Post, NewTick
<1> HIDE DEF t
<1> QED BY <1>3, <1>4, QuietStep

(* A verdict is about a switch whose incident the agent has had in hand.   *)
LEMMA PatchVerdictHInv ==
  ASSUME IInv, HInv, NEW w \in Workers, PatchVerdict(w) PROVE HInv' /\ Final
<1> DEFINE i == logs[agent.log].incident
<1>1. PICK recovered \in BOOLEAN :
        req' = [req EXCEPT ![w] =
                  [NoRequest EXCEPT
                     !.stage = "save", !.log = agent.log, !.incident = i,
                     !.version = incidents[i].version,
                     !.outcome = IF recovered THEN "SUCCESS" ELSE "FAILED",
                     !.verdict = Decide(recovered, ~recovered)]]
  BY DEF PatchVerdict
<1>2. /\ agent.stage = "verify" /\ agent.log \in LogIds /\ i \in IncidentIds
      /\ incidents[i].version \in Versions
  BY DEF PatchVerdict, IInv, AgentHolds, Fresh, Filed
<1> DEFINE t == [NoRequest EXCEPT
                   !.stage = "save", !.log = agent.log, !.incident = i,
                   !.version = incidents[i].version,
                   !.outcome = IF recovered THEN "SUCCESS" ELSE "FAILED",
                   !.verdict = Decide(recovered, ~recovered)]
<1>3. t \in Request /\ t.stage = "save" /\ t.incident = i
  <2>1. agent.log \in 0..MaxLogs /\ i \in 0..MaxIncidents
    BY <1>2, AuditAssumption DEF LogIds, IncidentIds
  <2> QED BY <1>2, <2>1, IdleRequest DEF Request, NoRequest, Decide, VERIFY_DECISION
<1>4. /\ req' = [req EXCEPT ![w] = t] /\ UNCHANGED <<incidents, logs, contested>>
      /\ agent'.stage # "verify"
  BY <1>1 DEF PatchVerdict, NewTick
<1> HIDE DEF t
<1> QED BY <1>2, <1>3, <1>4, QuietStep

(* The agent forgets a row, and touches no incident.                       *)
LEMMA AgentAloneHInv ==
  ASSUME HInv, Unrecorded \/ GiveUp \/ Restart PROVE HInv' /\ Final
<1>1. /\ UNCHANGED <<incidents, logs, req, contested>>
      /\ agent' = agent \/ agent'.stage = "tick"
  BY DEF Unrecorded, GiveUp, Restart, NewTick
<1> QED BY <1>1 DEF HInv, Placed, HeldOpen, Bounded, Filing, Openers, Filers, Live, Open, Final

(* The search: it finds an open incident of the version, or there is none  *)
(* and the request is the one to open one.                                 *)
LEMMA FindIncidentHInv ==
  ASSUME IInv, HInv, NEW w \in Workers, FindIncident(w) PROVE HInv' /\ Final
<1>1. /\ req[w].stage = "find" /\ req[w] \in Request /\ req[w].version \in Versions
      /\ UNCHANGED <<incidents, logs, agent, contested>>
  BY DEF FindIncident, IInv, TypeOK, FilingHolds
<1>2. Reusable(req[w].version) = Open(req[w].version)
  BY DEF Reusable, Open
<1>3. CASE Open(req[w].version) = {} /\ req' = [req EXCEPT ![w].stage = "open"]
  <2> DEFINE t == [req[w] EXCEPT !.stage = "open"]
  <2>1. /\ t \in Request /\ t.stage = "open" /\ t.version = req[w].version
        /\ t.incident = req[w].incident
    BY <1>1 DEF Request
  <2>2. req' = [req EXCEPT ![w] = t]
    BY <1>3 DEF IInv, TypeOK
  <2> HIDE DEF t
  <2>3. Bounded'
    BY <1>1, <1>3, <2>1, <2>2, OpenerStep
  <2>4. \A i \in IncidentIds \ contested :
          incidents[i].status \in TERMINAL => t.incident # i
    BY <1>1, <2>1 DEF HInv, HeldOpen
  <2>5. Placed' /\ HeldOpen'
    BY <1>1, <2>1, <2>2, <2>4, HandsStep
  <2> QED BY <1>1, <2>3, <2>5 DEF HInv, Final
<1>4. CASE \E i \in Open(req[w].version) :
             req' = [req EXCEPT ![w].stage = "log", ![w].incident = i]
  <2>1. PICK i \in Open(req[w].version) :
               req' = [req EXCEPT ![w].stage = "log", ![w].incident = i]
    BY <1>4
  <2> DEFINE t == [req[w] EXCEPT !.stage = "log", !.incident = i]
  <2>2. i \in 0..MaxIncidents
    BY AuditAssumption DEF Open, IncidentIds
  <2>3. t \in Request /\ t.stage = "log" /\ t.version = req[w].version /\ t.incident = i
    BY <1>1, <2>2 DEF Request
  <2>4. req' = [req EXCEPT ![w] = t]
    BY <2>1 DEF IInv, TypeOK
  <2> HIDE DEF t
  <2> QED BY <1>1, <2>3, <2>4, QuietStep
<1> QED BY <1>2, <1>3, <1>4 DEF FindIncident

(* A new row: one opener less, one live incident more.                     *)
LEMMA OpenIncidentHInv ==
  ASSUME IInv, HInv, NEW w \in Workers, OpenIncident(w) PROVE HInv' /\ Final
<1>1. PICK i \in NextIncident :
        /\ incidents' = [incidents EXCEPT ![i] =
                           [status |-> "OPEN", version |-> req[w].version, closed |-> FALSE]]
        /\ req' = [req EXCEPT ![w].stage = "log", ![w].incident = i]
  BY DEF OpenIncident
<1> DEFINE u == req[w].version
<1>2. /\ req[w].stage = "open" /\ req[w] \in Request /\ u \in Versions
      /\ UNCHANGED <<logs, agent, contested>>
  BY DEF OpenIncident, IInv, TypeOK, FilingHolds
<1>3. /\ i \in IncidentIds /\ i \in 0..MaxIncidents
      /\ incidents[i].version = "none" /\ incidents[i].status = "ABSENT"
  BY AuditAssumption DEF NextIncident, IncidentIds, NoIncident
<1>4. /\ incidents'[i].status = "OPEN" /\ incidents'[i].version = u
      /\ \A j \in IncidentIds : j # i => incidents'[j] = incidents[j]
  BY <1>1, <1>3 DEF IInv, TypeOK
<1> DEFINE t == [req[w] EXCEPT !.stage = "log", !.incident = i]
<1>5. t \in Request /\ t.stage = "log" /\ t.version = u /\ t.incident = i
  BY <1>2, <1>3 DEF Request
<1>6. req' = [req EXCEPT ![w] = t]
  BY <1>1 DEF IInv, TypeOK
<1> HIDE DEF t
<1>7. Placed' /\ HeldOpen'
  <2>1. \A j \in IncidentIds \ contested : incidents'[j].status \in TERMINAL =>
          incidents[j].status \in TERMINAL /\ j # i
    BY <1>4 DEF TERMINAL
  <2>2. \A j \in IncidentIds :
          incidents[j].version # "none" => incidents'[j].version = incidents[j].version
    BY <1>3, <1>4
  <2> QED BY <1>2, <1>3, <1>4, <1>5, <1>6, <2>1, <2>2, HandsStep
<1>8. req'[w] = t /\ \A x \in Workers \ {w} : req'[x] = req[x]
  BY <1>6 DEF IInv, TypeOK
<1>9. \A v \in Versions :
        /\ Openers(v)' = Openers(v) \ {w}
        /\ Live(v)' \subseteq Live(v) \cup {i}
        /\ v # u => Live(v)' \subseteq Live(v)
  <2> SUFFICES ASSUME NEW v \in Versions
               PROVE  /\ Openers(v)' = Openers(v) \ {w}
                      /\ \A j \in Live(v)' : j \in Live(v) \/ (j = i /\ v = u)
    OBVIOUS
  <2>1. Openers(v)' = Openers(v) \ {w}
    BY <1>5, <1>8 DEF Openers
  <2>2. ASSUME NEW j \in IncidentIds, j \in Live(v)', j # i \/ v # u PROVE j \in Live(v)
    <3>1. CASE j \in Open(v)'
      BY <1>4, <2>2, <3>1 DEF Open, Live
    <3>2. CASE \E x \in Filers(v)' : req'[x].incident = j
      BY <1>5, <1>8, <2>2, <3>2 DEF Filers, Filing, Live
    <3> QED BY <2>2, <3>1, <3>2 DEF Live
  <2> QED BY <2>1, <2>2 DEF Live
<1>10. ASSUME NEW v \in Versions
       PROVE  Cardinality(Openers(v)') + Cardinality(Live(v)') <= Cardinality(Workers)
  <2> DEFINE o == Openers(v)
             l == Live(v)
             m == Live(v)'
             n == IF v = u THEN 1 ELSE 0
  <2>1. /\ IsFiniteSet(o) /\ Cardinality(o) \in Nat /\ IsFiniteSet(l) /\ Cardinality(l) \in Nat
        /\ Cardinality(Workers) \in Nat
    BY LiveIsFinite
  <2>2. Cardinality(o) + Cardinality(l) <= Cardinality(Workers)
    BY DEF HInv, Bounded
  <2>3. Openers(v)' = o \ {w} /\ (w \in o <=> v = u)
    BY <1>2, <1>9 DEF Openers
  <2>4. m \subseteq l \cup {i} /\ (v # u => m \subseteq l)
    BY <1>9
  <2> HIDE DEF o, l, m
  <2>5. Cardinality(o \ {w}) = Cardinality(o) - n
    <3>1. CASE v = u
      BY <2>1, <2>3, <3>1, FS_RemoveElement
    <3>2. CASE v # u
      <4>1. o \ {w} = o
        BY <2>3, <3>2
      <4> QED BY <2>1, <3>2, <4>1
    <3> QED BY <3>1, <3>2
  <2>6. IsFiniteSet(m) /\ Cardinality(m) <= Cardinality(l) + n
    <3>1. CASE v # u
      <4>1. IsFiniteSet(m) /\ Cardinality(m) <= Cardinality(l)
        BY <2>1, <2>4, <3>1, FS_Subset
      <4> QED BY <2>1, <3>1, <4>1
    <3>2. CASE v = u
      <4>1. IsFiniteSet(l \cup {i}) /\ Cardinality(l \cup {i}) \in {Cardinality(l), Cardinality(l) + 1}
        BY <2>1, FS_AddElement
      <4>2. IsFiniteSet(m) /\ Cardinality(m) <= Cardinality(l \cup {i})
        BY <2>4, <4>1, FS_Subset
      <4>3. Cardinality(m) \in Nat
        BY <4>2, FS_CardinalityType
      <4> QED BY <2>1, <3>2, <4>1, <4>2, <4>3
    <3> QED BY <3>1, <3>2
  <2>7. Cardinality(m) \in Nat
    BY <2>6, FS_CardinalityType
  <2>8. n \in Nat
    OBVIOUS
  <2> HIDE DEF n
  <2>9. Cardinality(o \ {w}) + Cardinality(m) <= Cardinality(Workers)
    BY <2>1, <2>2, <2>5, <2>6, <2>7, <2>8
  <2> QED BY <2>3, <2>9 DEF m
<1>11. Final
  BY <1>2, <1>3, <1>4 DEF Final, TERMINAL
<1> QED BY <1>7, <1>10, <1>11 DEF HInv, Bounded

(* A row is filed under the incident in hand, which is open.               *)
LEMMA CreateLogHInv ==
  ASSUME IInv, HInv, NEW w \in Workers, CreateLog(w) PROVE HInv' /\ Final
<1>1. PICK l \in NextLog :
        /\ logs' = [logs EXCEPT ![l] =
                      [action |-> req[w].action, incident |-> req[w].incident,
                       outcome |-> req[w].outcome, verdict |-> "none"]]
        /\ \/ /\ req[w].action \in NONTRIVIAL
              /\ req' = [req EXCEPT ![w].log = l, ![w].stage = "begin"]
              /\ UNCHANGED agent
           \/ req[w].action \notin NONTRIVIAL /\ Finish(w, l)
  BY DEF CreateLog
<1>2. /\ req[w].stage = "log" /\ Filing(w) /\ req[w] \in Request
      /\ UNCHANGED <<incidents, contested>>
  BY DEF CreateLog, Filing, IInv, TypeOK
<1>3. l \in LogIds /\ l \in 0..MaxLogs /\ logs[l].incident = 0
  BY AuditAssumption DEF NextLog, LogIds, NoLog
<1>4. /\ logs'[l].incident = req[w].incident
      /\ \A k \in LogIds : k # l => logs'[k] = logs[k]
  BY <1>1, <1>3 DEF IInv, TypeOK
<1>5. /\ req[w].version \in Versions /\ req[w].incident \in IncidentIds
      /\ incidents[req[w].incident].version = req[w].version
  BY <1>2 DEF HInv, Placed
<1>6. \A i \in IncidentIds \ contested :
        incidents[i].status \in TERMINAL => req[w].incident # i
  BY DEF HInv, HeldOpen
<1>7. PICK t \in Request :
        /\ req' = [req EXCEPT ![w] = t]
        /\ \/ /\ t.stage = "begin" /\ t.version = req[w].version
              /\ t.incident = req[w].incident /\ t.log = l
           \/ t.stage = "idle" /\ t.incident = 0
        /\ agent' = agent \/ agent'.stage # "verify"
  <2>1. CASE req[w].action \in NONTRIVIAL
    <3> DEFINE t == [req[w] EXCEPT !.log = l, !.stage = "begin"]
    <3>1. /\ t \in Request /\ t.stage = "begin" /\ t.version = req[w].version
          /\ t.incident = req[w].incident /\ t.log = l
      BY <1>2, <1>3 DEF Request
    <3>2. req' = [req EXCEPT ![w] = t] /\ UNCHANGED agent
      BY <1>1, <2>1 DEF IInv, TypeOK
    <3> HIDE DEF t
    <3> QED BY <3>1, <3>2
  <2>2. CASE req[w].action \notin NONTRIVIAL
    <3>1. ~(agent.switched /\ agent.worker = w)
      BY <1>2, <2>2 DEF IInv, AgentHolds, WaitHolds, NONTRIVIAL
    <3>2. agent' = agent \/ agent'.stage = "tick"
      BY <1>1, <2>2, <3>1 DEF Finish, NewTick
    <3>3. NoRequest.incident = 0 /\ req' = [req EXCEPT ![w] = NoRequest]
      BY <1>1, <2>2 DEF Finish, NoRequest
    <3> QED BY <3>2, <3>3, IdleRequest
  <2> QED BY <2>1, <2>2
<1>8. \A k \in LogIds : logs[k].incident # 0 => logs'[k].incident = logs[k].incident
  BY <1>3, <1>4
<1>9. Bounded'
  BY <1>2, <1>7, LiveStep
<1>10. Placed' /\ HeldOpen'
  <2>1. \A i \in IncidentIds : t.incident = i => t.incident = req[w].incident
    BY <1>7, AuditAssumption DEF IncidentIds
  <2> QED BY <1>2, <1>3, <1>4, <1>5, <1>6, <1>7, <1>8, <2>1, HandsStep
<1>11. Final
  BY <1>2, <1>4, <1>6 DEF Final
<1> QED BY <1>9, <1>10, <1>11 DEF HInv

(* begin_recovery writes to an incident in hand, which is open or, if it   *)
(* was closed, was closed under this request's hands.                      *)
LEMMA BeginRecoveryHInv ==
  ASSUME IInv, HInv, NEW w \in Workers, BeginRecovery(w) PROVE HInv' /\ Final
<1> DEFINE i == req[w].incident
<1>1. /\ req[w].stage = "begin" /\ Filing(w) /\ Finish(w, req[w].log)
      /\ UNCHANGED <<logs, contested>>
      /\ incidents' = [incidents EXCEPT ![i].status = "RECOVERING"]
  BY DEF BeginRecovery, BeginRecoveryWith, Filing
<1>2. i \in IncidentIds /\ (incidents[i].status \in TERMINAL => i \in contested)
  BY <1>1 DEF HInv, Placed, HeldOpen
<1>3. /\ \A j \in IncidentIds : incidents'[j].version = incidents[j].version
      /\ \A j \in IncidentIds : j # i => incidents'[j] = incidents[j]
      /\ incidents'[i].status \notin TERMINAL
  BY <1>1, <1>2 DEF IInv, TypeOK, Incident, TERMINAL
<1>4. /\ NoRequest \in Request /\ NoRequest.stage = "idle" /\ NoRequest.incident = 0
      /\ req' = [req EXCEPT ![w] = NoRequest]
  BY <1>1, IdleRequest DEF Finish, NoRequest
<1>5. Bounded'
  BY <1>1, <1>3, <1>4, LiveStep
<1>6. ASSUME agent'.stage = "verify", agent' # agent
      PROVE  logs'[agent'.log].incident = i
  <2>1. agent'.log = req[w].log
    BY <1>1, <1>6 DEF Finish, NewTick
  <2> QED BY <1>1, <2>1 DEF HInv, Placed
<1>7. \A j \in IncidentIds \ contested : incidents'[j].status \in TERMINAL =>
        incidents[j].status \in TERMINAL /\ j # i
  BY <1>3
<1>8. \A j \in IncidentIds : NoRequest.incident # j
  BY <1>4, AuditAssumption DEF IncidentIds
<1> HIDE DEF i
<1>9. Placed' /\ HeldOpen'
  BY <1>1, <1>3, <1>4, <1>6, <1>7, <1>8, HandsStep
<1>10. Final
  BY <1>1, <1>2, <1>3 DEF Final
<1> QED BY <1>5, <1>9, <1>10 DEF HInv

(* apply_verification closes an incident: the step says itself whether it  *)
(* is in other hands.                                                      *)
LEMMA ApplyVerificationHInv ==
  ASSUME IInv, HInv, NEW w \in Workers, ApplyVerification(w) PROVE HInv' /\ Final
<1> DEFINE i == req[w].incident
           status == CASE req[w].verdict = "KEEP"     -> "RESOLVED"
                       [] req[w].verdict = "ESCALATE" -> "ESCALATED"
                       [] OTHER                       -> "RECOVERING"
<1>1. /\ req[w].stage = "close" /\ Patching(w) /\ Finish(w, req[w].log)
      /\ UNCHANGED logs
      /\ incidents' = [incidents EXCEPT ![i].status = status,
                                        ![i].closed = status \in TERMINAL]
      /\ contested' = contested \cup
           {j \in IncidentIds : j = i /\ status \in TERMINAL /\ HeldBesides(j, w)}
  BY DEF ApplyVerification, Patching
<1>2. PatchOK(w)
  BY <1>1 DEF IInv, PatchesHold
<1>3. status \in TERMINAL
  BY <1>2 DEF PatchOK, TERMINAL
<1> HIDE DEF status
<1>4. \A j \in IncidentIds :
        /\ incidents'[j].version = incidents[j].version
        /\ incidents'[j].status = IF j = i THEN status ELSE incidents[j].status
        /\ j # i => incidents'[j] = incidents[j]
  BY <1>1 DEF IInv, TypeOK, Incident
<1>5. \A j \in IncidentIds \ contested : incidents[j].status \in TERMINAL => j # i
  BY DEF HInv, HeldOpen
<1>6. /\ NoRequest \in Request /\ NoRequest.stage = "idle" /\ NoRequest.incident = 0
      /\ req' = [req EXCEPT ![w] = NoRequest]
  BY <1>1, IdleRequest DEF Finish, NoRequest
<1>7. Bounded'
  <2>1. \A j \in IncidentIds :
          incidents'[j].status \notin TERMINAL => incidents[j].status \notin TERMINAL
    BY <1>3, <1>4
  <2> QED BY <1>4, <1>6, <2>1, LiveStep
<1>8. agent' = agent \/ agent'.stage # "verify"
  <2>1. ~(agent.switched /\ agent.worker = w)
    BY <1>1 DEF IInv, AgentHolds, WaitHolds
  <2> QED BY <1>1, <2>1 DEF Finish, NewTick
<1>9. \A j \in IncidentIds : NoRequest.incident # j
  BY <1>6, AuditAssumption DEF IncidentIds
<1>10. \A j \in IncidentIds \ contested' : incidents'[j].status \in TERMINAL =>
         incidents[j].status \in TERMINAL \/ ~HeldBesides(j, w)
  <2> SUFFICES ASSUME NEW j \in IncidentIds, j \notin contested', incidents'[j].status \in TERMINAL
               PROVE  incidents[j].status \in TERMINAL \/ ~HeldBesides(j, w)
    OBVIOUS
  <2>1. CASE j = i
    BY <1>1, <1>3, <2>1
  <2>2. CASE j # i
    BY <1>4, <2>2
  <2> QED BY <2>1, <2>2
<1>11. contested \subseteq contested'
  BY <1>1
<1>12. Placed' /\ HeldOpen'
  <2>1. UNCHANGED logs /\ \A j \in IncidentIds : incidents'[j].version = incidents[j].version
    BY <1>1, <1>4
  <2>2. NoRequest.stage \notin {"log", "begin"}
    BY <1>6
  <2> HIDE DEF i
  <2> QED BY <1>6, <1>8, <1>9, <1>10, <1>11, <2>1, <2>2, HandsStep
<1>13. Final
  BY <1>1, <1>4, <1>5 DEF Final
<1> QED BY <1>7, <1>12, <1>13 DEF HInv

(* The two statements that write a row change neither incidents nor where  *)
(* the row is filed.                                                       *)
LEMMA JudgeHInv ==
  ASSUME IInv, HInv, NEW w \in Workers, SaveLog(w) \/ RecordVerdict(w)
  PROVE  HInv' /\ Final
<1>1. req[w] \in Request /\ UNCHANGED <<incidents, agent, contested>>
  BY DEF SaveLog, SaveLogWith, RecordVerdict, IInv, TypeOK
<1>2. PICK t \in Request :
        /\ req' = [req EXCEPT ![w] = t] /\ t.stage \in {"judge", "close"}
        /\ t.incident = req[w].incident
  <2> DEFINE t(stage) == [req[w] EXCEPT !.stage = stage]
  <2>1. PICK stage \in {"judge", "close"} : req' = [req EXCEPT ![w].stage = stage]
    BY DEF SaveLog, SaveLogWith, RecordVerdict
  <2>2. /\ t(stage) \in Request /\ t(stage).stage = stage
        /\ t(stage).incident = req[w].incident
    BY <1>1 DEF Request
  <2>3. req' = [req EXCEPT ![w] = t(stage)]
    BY <2>1 DEF IInv, TypeOK
  <2> HIDE DEF t
  <2> QED BY <2>2, <2>3
<1>3. \A l \in LogIds : logs'[l].incident = logs[l].incident
  BY DEF SaveLog, SaveLogWith, RecordVerdict, IInv, TypeOK, ActionLog
<1> QED BY <1>1, <1>2, <1>3, QuietStep

(* What a killed worker had in hand is in its hands no more.               *)
LEMMA KillHInv == ASSUME IInv, HInv, NEW w \in Workers, Kill(w) PROVE HInv' /\ Final
<1>1. /\ req' = [req EXCEPT ![w] = NoRequest]
      /\ UNCHANGED <<incidents, logs, agent, contested>>
  BY DEF Kill
<1>2. NoRequest \in Request /\ NoRequest.stage = "idle" /\ NoRequest.incident = 0
  BY IdleRequest DEF NoRequest
<1> QED BY <1>1, <1>2, QuietStep

LEMMA NextHInv == IInv /\ HInv /\ [Next]_vars => HInv' /\ Final
<1> SUFFICES ASSUME IInv, HInv, [Next]_vars PROVE HInv' /\ Final
  OBVIOUS
<1>1. ASSUME NEW w \in Workers, Serve(w) PROVE HInv' /\ Final
  BY <1>1, FindIncidentHInv, OpenIncidentHInv, CreateLogHInv, BeginRecoveryHInv,
     JudgeHInv, ApplyVerificationHInv, KillHInv DEF Serve
<1>2. CASE UNCHANGED vars
  BY <1>2 DEF vars, HInv, Placed, HeldOpen, Bounded, Filing, Openers, Filers, Live, Open, Final
<1> QED BY <1>1, <1>2, PostHInv, PatchVerdictHInv, AgentAloneHInv DEF Next

(* The second half of the invariant: what requests have in hand.           *)
THEOREM FilingInvariant == Spec => [](IInv /\ HInv)
<1>1. IInv /\ HInv /\ [Next]_vars => (IInv /\ HInv)'
  BY NextIInv, NextHInv
<1> QED BY <1>1, InitIInv, InitHInv, PTL DEF Spec

(* However many requests race to open an incident, die or are given up on, *)
(* a version has no more incidents open than there are workers.            *)
THEOREM OpenStaysBounded == Spec => []OpenIncidentsBounded
<1>1. HInv => OpenIncidentsBounded
  <2> SUFFICES ASSUME HInv, NEW v \in Versions
               PROVE  Cardinality(Open(v)) <= Cardinality(Workers)
    BY DEF OpenIncidentsBounded
  <2> DEFINE o == Openers(v)
             l == Live(v)
  <2>1. /\ Cardinality(o) \in Nat /\ IsFiniteSet(l) /\ Cardinality(l) \in Nat
        /\ Cardinality(Workers) \in Nat
    BY LiveIsFinite
  <2>2. Cardinality(o) + Cardinality(l) <= Cardinality(Workers)
    BY DEF HInv, Bounded
  <2>3. Open(v) \in SUBSET l
    BY DEF Open, Live
  <2> HIDE DEF o, l
  <2>4. IsFiniteSet(Open(v)) /\ Cardinality(Open(v)) <= Cardinality(l)
    BY <2>1, <2>3, FS_Subset
  <2>5. Cardinality(Open(v)) \in Nat
    BY <2>4, FS_CardinalityType
  <2> QED BY <2>1, <2>2, <2>4, <2>5
<1> QED BY <1>1, FilingInvariant, PTL

(* Nothing brings a terminal incident back, closes it another way or files *)
(* an action under it, but a request or a verification that had it in hand *)
(* when it was closed.                                                     *)
THEOREM TerminalStays == Spec => TerminalIsFinal
<1>1. IInv /\ HInv /\ [Next]_vars =>
        [\A i \in IncidentIds \ contested :
           incidents[i].status \in TERMINAL
             => /\ incidents'[i] = incidents[i]
                /\ \A l \in LogIds : logs'[l].incident = i => logs[l].incident = i]_vars
  BY NextHInv DEF Final
<1> QED BY <1>1, FilingInvariant, PTL DEF Spec, TerminalIsFinal
===============================================================================
