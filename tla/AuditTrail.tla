------------------------------ MODULE AuditTrail ------------------------------
(***************************************************************************)
(* The audit trail of the control plane: incidents, action logs and their  *)
(* verdicts (actions_app/models.py), written by POST /api/actions and      *)
(* PATCH /api/actions/{id} (actions_app/views.py), one statement at a time *)
(* and without a transaction, by workers that may be killed in between.    *)
(*                                                                         *)
(* The one client is the agent: one row per tick, and one verdict for a    *)
(* switch it has executed and knows the row of.  It waits for an answer    *)
(* for some seconds and then goes on, while the worker finishes.           *)
(***************************************************************************)
EXTENDS Integers, FiniteSets

CONSTANTS
  Workers,        \* requests the backend serves at a time
  StartModel,     \* the model that serves first
  Posted,         \* what the agent posts: any of ACTION_CHOICE
  NoWorker,
  MaxIncidents,   \* bound: incident rows
  MaxLogs         \* bound: action log rows

VARIABLES
  incidents,      \* Incident rows, by primary key and so by opened_at
  logs,           \* ActionLog rows with their VerificationResult
  req,            \* what each worker is doing
  agent,          \* where the agent is in its tick
  active,         \* runtime.active_model
  contested       \* history: incidents that were closed under somebody's hands

vars == <<incidents, logs, req, agent, active, contested>>

(* One version per model: the one its ingestion resolves to.               *)
Versions == {"model_a", "model_b"}
BackupModel(m) == IF m = "model_a" THEN "model_b" ELSE "model_a"

INCIDENT_STATUS == {"OPEN", "RECOVERING", "VERIFYING", "RESOLVED", "ESCALATED"}
TERMINAL        == {"RESOLVED", "ESCALATED"}
ACTION_CHOICE   == {"NO_OP", "ALERT", "SWITCH", "DISABLE"}
NONTRIVIAL      == {"SWITCH", "DISABLE"}
VERIFY_DECISION == {"KEEP", "REVERT", "ESCALATE"}

ASSUME AuditAssumption ==
  /\ Posted \subseteq ACTION_CHOICE
  /\ StartModel \in Versions /\ IsFiniteSet(Workers) /\ NoWorker \notin Workers
  /\ MaxIncidents \in Nat /\ MaxLogs \in Nat

IncidentIds == 1..MaxIncidents
LogIds      == 1..MaxLogs

NoIncident == [status |-> "ABSENT", version |-> "none", closed |-> FALSE]
NoLog      == [action |-> "ABSENT", incident |-> 0, outcome |-> "none", verdict |-> "none"]
NoRequest  == [stage |-> "idle", version |-> "none", action |-> "NO_OP",
               outcome |-> "PENDING", incident |-> 0, log |-> 0, verdict |-> "none"]
NewTick    == [stage |-> "tick", worker |-> NoWorker, switched |-> FALSE, log |-> 0]

Init ==
  /\ incidents = [i \in IncidentIds |-> NoIncident]
  /\ logs = [l \in LogIds |-> NoLog]
  /\ req = [w \in Workers |-> NoRequest]
  /\ agent = NewTick /\ active = StartModel
  /\ contested = {}

(* Primary keys are given out in order.                                    *)
NextIncident == {i \in IncidentIds : /\ incidents[i] = NoIncident
                                     /\ \A j \in 1..(i - 1) : incidents[j] # NoIncident}
NextLog == {l \in LogIds : /\ logs[l] = NoLog
                           /\ \A k \in 1..(l - 1) : logs[k] # NoLog}

(* Bound: no more rows are asked for than there are.                       *)
RowsLeft ==
  Cardinality({w \in Workers : req[w].stage \in {"find", "open", "log"}})
    < Cardinality({l \in LogIds : logs[l] = NoLog})

(* Somebody other than worker w goes on with incident i: a request that    *)
(* has found it, or the agent, which verifies a switch filed under it.     *)
HeldBesides(i, w) ==
  \/ \E v \in Workers \ {w} : req[v].incident = i
  \/ agent.stage = "verify" /\ logs[agent.log].incident = i

(***************************************************************************)
(* The agent.  A switch is recorded under its target, the backup, every    *)
(* other action under the active model.                                    *)
(***************************************************************************)
Post(w) ==
  /\ agent.stage = "tick" /\ req[w].stage = "idle" /\ RowsLeft
  /\ \E action \in Posted, executed \in BOOLEAN :
       LET switched == action = "SWITCH" /\ executed
           target   == IF action = "SWITCH" THEN BackupModel(active) ELSE active IN
       /\ action # "SWITCH" => executed
       /\ req' = [req EXCEPT ![w] =
                    [NoRequest EXCEPT
                       !.stage = "find", !.version = target, !.action = action,
                       !.outcome = CASE switched      -> "PENDING"
                                     [] ~executed     -> "FAILED"
                                     [] action # "SWITCH" -> "SUCCESS"]]
       /\ agent' = [NewTick EXCEPT !.stage = "waiting", !.worker = w, !.switched = switched]
       /\ active' = IF switched THEN target ELSE active
  /\ UNCHANGED <<incidents, logs, contested>>

Decide(recovered, escalate) ==
  CASE recovered              -> "KEEP"
    [] ~recovered /\ escalate -> "ESCALATE"
    [] OTHER                  -> "REVERT"

(* The verdict on an executed switch.  The guard marks every verdict that  *)
(* is not a recovery for a human, and takes traffic back.                  *)
PatchVerdict(w) ==
  /\ agent.stage = "verify" /\ req[w].stage = "idle"
  /\ \E recovered \in BOOLEAN :
       LET i == logs[agent.log].incident IN
       /\ req' = [req EXCEPT ![w] =
                    [NoRequest EXCEPT
                       !.stage = "save", !.log = agent.log, !.incident = i,
                       !.version = incidents[i].version,
                       !.outcome = IF recovered THEN "SUCCESS" ELSE "FAILED",
                       !.verdict = Decide(recovered, ~recovered)]]
       /\ active' = IF recovered THEN active ELSE BackupModel(active)
  /\ agent' = [NewTick EXCEPT !.stage = "waiting", !.worker = w]
  /\ UNCHANGED <<incidents, logs, contested>>

(* A tick whose POST never reaches the backend.                            *)
Unrecorded ==
  /\ agent.stage = "tick"
  /\ active' \in Versions
  /\ UNCHANGED <<incidents, logs, req, agent, contested>>

(* No answer in time, or an error.  A switch whose row is not known is     *)
(* verified, and rolled back if need be, without a verdict being recorded. *)
GiveUp ==
  /\ agent.stage = "waiting"
  /\ agent' = NewTick
  /\ active' \in IF agent.switched THEN {active, BackupModel(active)} ELSE {active}
  /\ UNCHANGED <<incidents, logs, req, contested>>

(* The agent is killed before the verdict and starts again.                *)
Restart ==
  /\ agent.stage = "verify"
  /\ agent' = NewTick
  /\ UNCHANGED <<incidents, logs, req, active, contested>>

(* The last statement of a request, and its answer: the agent, if it still *)
(* waits for it, learns the id of the row.                                 *)
Finish(w, log) ==
  /\ req' = [req EXCEPT ![w] = NoRequest]
  /\ agent' = CASE agent.worker # w -> agent
                [] agent.worker = w /\ agent.switched ->
                     [NewTick EXCEPT !.stage = "verify", !.log = log]
                [] OTHER -> NewTick

(***************************************************************************)
(* ActionsView.post                                                        *)
(***************************************************************************)
(* Faulty forms: a RECOVERING incident is not found again; one that is     *)
(* closed is.                                                              *)
OnlyOpen(v)    == {i \in IncidentIds : incidents[i].version = v /\ incidents[i].status = "OPEN"}
AnyIncident(v) == {i \in IncidentIds : incidents[i].version = v}

Reusable(v) ==
  {i \in IncidentIds : incidents[i].version = v /\ incidents[i].status \notin TERMINAL}

(* open_or_reuse reads: the latest incident of the version still open.     *)
FindIncident(w) ==
  LET open == Reusable(req[w].version) IN
  /\ req[w].stage = "find"
  /\ \/ /\ open = {} /\ req' = [req EXCEPT ![w].stage = "open"]
     \/ \E i \in open :
          /\ \A j \in open : j <= i
          /\ req' = [req EXCEPT ![w].stage = "log", ![w].incident = i]
  /\ UNCHANGED <<incidents, logs, agent, active, contested>>

(* open_or_reuse creates.                                                  *)
OpenIncident(w) ==
  /\ req[w].stage = "open"
  /\ \E i \in NextIncident :
       /\ incidents' = [incidents EXCEPT ![i] =
                          [status |-> "OPEN", version |-> req[w].version, closed |-> FALSE]]
       /\ req' = [req EXCEPT ![w].stage = "log", ![w].incident = i]
  /\ UNCHANGED <<logs, agent, active, contested>>

CreateLog(w) ==
  /\ req[w].stage = "log"
  /\ \E l \in NextLog :
       /\ logs' = [logs EXCEPT ![l] =
                     [action |-> req[w].action, incident |-> req[w].incident,
                      outcome |-> req[w].outcome, verdict |-> "none"]]
       /\ \/ /\ req[w].action \in NONTRIVIAL
             /\ req' = [req EXCEPT ![w].log = l, ![w].stage = "begin"]
             /\ UNCHANGED agent
          \/ req[w].action \notin NONTRIVIAL /\ Finish(w, l)
  /\ UNCHANGED <<incidents, active, contested>>

(* begin_recovery saves status and severity; closed_at stays what it is.   *)
BeginRecoveryWith(w, status) ==
  /\ req[w].stage = "begin"
  /\ incidents' = [incidents EXCEPT ![req[w].incident].status = status]
  /\ Finish(w, req[w].log)
  /\ UNCHANGED <<logs, active, contested>>

(* Faulty form: the two are assigned the wrong way round.                  *)
BeginRecoverySwapped(w) == BeginRecoveryWith(w, "HIGH")

BeginRecovery(w) == BeginRecoveryWith(w, "RECOVERING")

(***************************************************************************)
(* ActionDetailView.patch                                                  *)
(***************************************************************************)
SaveLogWith(w, outcome, stage) ==
  /\ req[w].stage = "save"
  /\ logs' = [logs EXCEPT ![req[w].log].outcome = outcome]
  /\ req' = [req EXCEPT ![w].stage = stage]
  /\ UNCHANGED <<incidents, agent, active, contested>>

(* Faulty forms: the outcome is left as posted; the incident is closed     *)
(* before the verdict is on record.                                        *)
SaveLogAsPosted(w) == SaveLogWith(w, logs[req[w].log].outcome, "judge")
SaveLogAndClose(w) == SaveLogWith(w, req[w].outcome, "close")

SaveLog(w) == SaveLogWith(w, req[w].outcome, "judge")

RecordVerdict(w) ==
  /\ req[w].stage = "judge"
  /\ logs' = [logs EXCEPT ![req[w].log].verdict = req[w].verdict]
  /\ req' = [req EXCEPT ![w].stage = "close"]
  /\ UNCHANGED <<incidents, agent, active, contested>>

(* apply_verification, whatever the incident's status is by now.           *)
ApplyVerification(w) ==
  LET status == CASE req[w].verdict = "KEEP"     -> "RESOLVED"
                  [] req[w].verdict = "ESCALATE" -> "ESCALATED"
                  [] OTHER                       -> "RECOVERING" IN
  /\ req[w].stage = "close"
  /\ incidents' = [incidents EXCEPT ![req[w].incident].status = status,
                                    ![req[w].incident].closed = status \in TERMINAL]
  /\ contested' = contested \cup
       {i \in IncidentIds : i = req[w].incident /\ status \in TERMINAL /\ HeldBesides(i, w)}
  /\ Finish(w, req[w].log)
  /\ UNCHANGED <<logs, active>>

(* A worker is killed, or the backend is restarted: the statements it has  *)
(* executed stay.                                                          *)
Kill(w) ==
  /\ req[w].stage # "idle"
  /\ req' = [req EXCEPT ![w] = NoRequest]
  /\ UNCHANGED <<incidents, logs, agent, active, contested>>

Serve(w) ==
  \/ FindIncident(w) \/ OpenIncident(w) \/ CreateLog(w) \/ BeginRecovery(w)
  \/ SaveLog(w) \/ RecordVerdict(w) \/ ApplyVerification(w) \/ Kill(w)

Next ==
  \/ \E w \in Workers : Post(w) \/ PatchVerdict(w) \/ Serve(w)
  \/ Unrecorded \/ GiveUp \/ Restart

Spec == Init /\ [][Next]_vars

-------------------------------------------------------------------------------

Incident == [status : INCIDENT_STATUS \cup {"ABSENT"}, version : Versions \cup {"none"},
             closed : BOOLEAN]
ActionLog == [action : ACTION_CHOICE \cup {"ABSENT"}, incident : 0..MaxIncidents,
              outcome : {"none", "PENDING", "SUCCESS", "FAILED"},
              verdict : VERIFY_DECISION \cup {"none"}]
Request ==
  [stage : {"idle", "find", "open", "log", "begin", "save", "judge", "close"},
   version : Versions \cup {"none"}, action : ACTION_CHOICE,
   outcome : {"PENDING", "SUCCESS", "FAILED"}, incident : 0..MaxIncidents,
   log : 0..MaxLogs, verdict : VERIFY_DECISION \cup {"none"}]

TypeOK ==
  /\ incidents \in [IncidentIds -> Incident]
  /\ logs \in [LogIds -> ActionLog]
  /\ req \in [Workers -> Request]
  /\ agent \in [stage : {"tick", "waiting", "verify"}, worker : Workers \cup {NoWorker},
                switched : BOOLEAN, log : 0..MaxLogs]
  /\ active \in Versions
  /\ contested \subseteq IncidentIds

(* A closed incident was closed by a verdict that is on record in its own  *)
(* trail, whenever workers die and whatever requests overlap: RESOLVED by  *)
(* a KEEP, ESCALATED by an ESCALATE (patch stores the verdict first).      *)
ClosedByVerdict ==
  \A i \in IncidentIds :
    LET Judged(d) == \E l \in LogIds : logs[l].incident = i /\ logs[l].verdict = d IN
    /\ incidents[i].status = "RESOLVED"  => Judged("KEEP")
    /\ incidents[i].status = "ESCALATED" => Judged("ESCALATE")

(* An action log never says one thing and its verdict another: only an     *)
(* executed switch is judged, it is SUCCESS if it was kept and FAILED if   *)
(* not, also when a worker dies between the two statements.                *)
VerdictMatchesOutcome ==
  \A l \in LogIds : logs[l].verdict # "none" =>
    /\ logs[l].action = "SWITCH"
    /\ logs[l].outcome = IF logs[l].verdict = "KEEP" THEN "SUCCESS" ELSE "FAILED"

Open(v) == {i \in IncidentIds : incidents[i].version = v /\ incidents[i].status \notin TERMINAL}

(* open_or_reuse reads and then creates, and begin_recovery writes what it *)
(* read: requests that overlap can open a version's incident twice, and    *)
(* open again one that was closed.  But a version never has more incidents *)
(* open than there are workers, however often they race, die or are given  *)
(* up on: what a race left behind is found again before another is opened. *)
OpenIncidentsBounded ==
  \A v \in Versions : Cardinality(Open(v)) <= Cardinality(Workers)

(* models.py: RESOLVED and ESCALATED are "(terminal)".  No step brings an  *)
(* incident back from there, closes it another way, or files an action     *)
(* under it, unless it was closed while another request, or the agent's    *)
(* verification of another switch, already had it in hand.                 *)
TerminalIsFinal ==
  [][\A i \in IncidentIds \ contested :
       incidents[i].status \in TERMINAL
         => /\ incidents'[i] = incidents[i]
            /\ \A l \in LogIds : logs'[l].incident = i => logs[l].incident = i]_vars

(* docs/data_model.md 5.1: an incident "opens when the detectors first     *)
(* flag a problem" and "closes when the system is verified healthy".  The  *)
(* alerts of a failing model are filed under its version, the switch that  *)
(* ends the trouble under the backup's: only the latter is ever closed.    *)
EpisodeCloses ==
  \A i \in IncidentIds, k, l \in LogIds :
    (/\ \A w \in Workers : req[w].stage = "idle"
     /\ k < l /\ logs[k].action = "ALERT" /\ logs[k].incident = i
     /\ logs[l].verdict = "KEEP" /\ \A m \in LogIds : m > l => logs[m] = NoLog)
      => incidents[i].status \in TERMINAL
===============================================================================
