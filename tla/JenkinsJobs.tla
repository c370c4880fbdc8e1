------------------------------ MODULE JenkinsJobs ------------------------------
(***************************************************************************)
(* Recovery through Jenkins: the agent's client (jenkins_client.run_job:   *)
(* trigger, wait in the queue, poll the build), the three jobs that share  *)
(* the Jenkinsfile, and the registry rows they read and write.             *)
(*                                                                         *)
(* The client gives up after so many polls; the build goes on.  Builds of  *)
(* one job run one at a time, builds of different jobs side by side.       *)
(***************************************************************************)
EXTENDS Integers, Sequences, FiniteSetsExt

CONSTANTS
  MODELS,
  QueueAttempts,   \* resolve_queue(attempts)
  BuildAttempts,   \* poll_build(attempts)
  AgentTargets,    \* the models the agent may want to switch to
  HandRequests,    \* the jobs an operator starts by hand, and their targets
  Fragile,         \* models that may go down
  Upgraded,        \* models that come up with a version nobody registered
  MaxBuilds,       \* bound: builds that are ever requested
  MaxVersions,     \* bound: versions of one model
  NoBuild          \* the client holds no build

VARIABLES
  builds,      \* Jenkins: the builds, by number
  requested,   \* Jenkins: how many there are
  rows,        \* registry: per model the statuses of its versions, oldest first
  active,      \* registry: the version the pointer names
  healthy,     \* models whose /health answers 200
  call         \* the client inside run_job

jenkinsVars  == <<builds, requested>>
registryVars == <<rows, active>>
vars == <<jenkinsVars, registryVars, healthy, call>>

Builds == 1..MaxBuilds
Job    == {"switch", "deploy", "rollback"}
Result == {"running", "SUCCESS", "FAILURE", "ABORTED"}

ASSUME JobsAssumption ==
  /\ QueueAttempts \in Nat /\ BuildAttempts \in Nat
  /\ MaxBuilds \in Nat /\ MaxVersions \in Nat \ {0} /\ NoBuild \notin Builds
  /\ MODELS # {} /\ AgentTargets \cup Fragile \cup Upgraded \subseteq MODELS
  /\ HandRequests \subseteq [job : Job, target : MODELS]

(* The statements of a job that touch the registry or wait.  The copy of   *)
(* the artifact may fail unseen (|| true) and goes with the restart.       *)
Script(job) ==
  CASE job = "switch"   -> <<"flip", "restart", "wait", "wait">>
    [] job = "deploy"   -> <<"restart", "wait", "register", "wait">>
    [] job = "rollback" -> <<"query", "restart", "wait", "register",
                             "flip", "restart", "wait", "wait">>

(* stage: "none" (not requested), "queued", "running", "post", "done", or  *)
(* "cancelled" in the queue.  wrote, stable: a version, 0 for none.        *)
NoneYet ==
  [job |-> "switch", target |-> CHOOSE m \in MODELS : TRUE, stage |-> "none", at |-> 1,
   result |-> "running", wrote |-> 0, stable |-> 0]

Over(b) == builds[b].stage \in {"done", "cancelled"}

Statement(b) == Script(builds[b].job)[builds[b].at]

Idle == [pc |-> "idle", build |-> NoBuild, left |-> 0, verdict |-> "none"]

Init ==
  /\ builds = [b \in Builds |-> NoneYet] /\ requested = 0
  /\ \E m \in MODELS :   \* seed_demo
       /\ rows = [n \in MODELS |-> IF n = m THEN <<"ACTIVE">> ELSE <<"STABLE">>]
       /\ active = [model |-> m, version |-> 1]
  /\ healthy = MODELS /\ call = Idle

(***************************************************************************)
(* The registry as its clients use it                                      *)
(***************************************************************************)
Newest(m) == Len(rows[m])

(* POST /api/active-model without a version: the newest one is promoted,   *)
(* whatever was active is demoted to STABLE.                               *)
Flip(m) ==
  /\ rows' = [n \in MODELS |->
       [v \in DOMAIN rows[n] |->
          IF n = m /\ v = Newest(m) THEN "ACTIVE"
          ELSE IF rows[n][v] = "ACTIVE" THEN "STABLE" ELSE rows[n][v]]]
  /\ active' = [model |-> m, version |-> Newest(m)]

StableVersions(m) == {v \in DOMAIN rows[m] : rows[m][v] = "STABLE"}

(* resolve_version: metrics that name a version nobody registered.         *)
Ingest ==
  /\ \E m \in Upgraded :
       /\ Len(rows[m]) < MaxVersions
       /\ rows' = [rows EXCEPT ![m] = Append(@, "CANDIDATE")]
  /\ UNCHANGED <<jenkinsVars, active, healthy, call>>

(* The agent's own mirror, the guard's, or an operator's request.          *)
OtherSwitch ==
  /\ \E m \in MODELS : Flip(m)
  /\ UNCHANGED <<jenkinsVars, healthy, call>>

(***************************************************************************)
(* The jobs                                                                *)
(***************************************************************************)
Enqueue(job, target) ==
  /\ requested < MaxBuilds /\ requested' = requested + 1
  /\ builds' = [builds EXCEPT ![requested + 1] =
       [NoneYet EXCEPT !.job = job, !.target = target, !.stage = "queued"]]

(* An operator starts a job by hand.                                       *)
HandTrigger ==
  /\ \E r \in HandRequests : Enqueue(r.job, r.target)
  /\ UNCHANGED <<registryVars, healthy, call>>

(* The build goes on as `next`, and nothing else changes.                  *)
Becomes(b, next) ==
  /\ builds' = [builds EXCEPT ![b] = next]
  /\ UNCHANGED <<requested, registryVars, healthy, call>>

Advanced(build) ==
  IF build.at < Len(Script(build.job)) THEN [build EXCEPT !.at = @ + 1]
  ELSE [build EXCEPT !.stage = "post", !.result = "SUCCESS"]

Ended(build, result) == [build EXCEPT !.stage = "post", !.result = result]

At(b, statement) == builds[b].stage = "running" /\ Statement(b) = statement

(* Faulty forms: without disableConcurrentBuilds; a cancelled item blocks. *)
AnyTurn(b) == TRUE
TurnAfterDone(b) ==
  \A c \in 1..(b - 1) : builds[c].job = builds[b].job => builds[c].stage = "done"

(* disableConcurrentBuilds; the queue of a job is first in, first out.     *)
Turn(b) == \A c \in 1..(b - 1) : builds[c].job = builds[b].job => Over(c)

StartBuild(b) ==
  /\ builds[b].stage = "queued" /\ Turn(b)
  /\ Becomes(b, [builds[b] EXCEPT !.stage = "running"])

(* The request is served, is served and its answer lost, or never served.  *)
FlipStatement(b) ==
  LET written == [builds[b] EXCEPT !.wrote = Newest(builds[b].target)] IN
  /\ At(b, "flip")
  /\ \/ /\ \E next \in {Advanced(written), Ended(written, "FAILURE")} :
              builds' = [builds EXCEPT ![b] = next]
        /\ Flip(builds[b].target) /\ UNCHANGED <<requested, healthy, call>>
     \/ Becomes(b, Ended(builds[b], "FAILURE"))

(* docker restart ... || true: nothing happens, or the model goes down and *)
(* ContainerUp brings it back.                                             *)
RestartStatement(b) ==
  /\ At(b, "restart")
  /\ healthy' \in {healthy, healthy \ {builds[b].target}}
  /\ builds' = [builds EXCEPT ![b] = Advanced(@)]
  /\ UNCHANGED <<requested, registryVars, call>>

(* until curl .../health: as long as it takes.                             *)
WaitStatement(b) ==
  /\ At(b, "wait") /\ builds[b].target \in healthy
  /\ Becomes(b, Advanced(builds[b]))

(* The newest STABLE version; a failure when there is none, or when the    *)
(* backend does not answer (curl -sf).                                     *)
QueryStatement(b) ==
  LET stable == StableVersions(builds[b].target) IN
  /\ At(b, "query")
  /\ \/ Becomes(b, Ended(builds[b], "FAILURE"))
     \/ /\ stable # {}
        /\ Becomes(b, Advanced([builds[b] EXCEPT !.stable = Max(stable)]))

(* POST /api/models: the view has no post, every status is accepted, so    *)
(* nothing is registered; only an unreachable backend fails the build.     *)
RegisterStatement(b) ==
  /\ At(b, "register")
  /\ \E next \in {Advanced(builds[b]), Ended(builds[b], "FAILURE")} : Becomes(b, next)

(* post, always: the row it posts is stored as a NO_OP (models.py:93).     *)
PostAlways(b) ==
  builds[b].stage = "post" /\ Becomes(b, [builds[b] EXCEPT !.stage = "done"])

(* An operator cancels a queued build or aborts a running one, in its post *)
(* section too; a result only gets worse.                                  *)
Abort(b) ==
  \/ /\ builds[b].stage = "queued"
     /\ Becomes(b, [builds[b] EXCEPT !.stage = "cancelled", !.result = "ABORTED"])
  \/ builds[b].stage = "running" /\ Becomes(b, Ended(builds[b], "ABORTED"))
  \/ /\ builds[b].stage = "post"
     /\ Becomes(b, [builds[b] EXCEPT !.stage = "done", !.result = "ABORTED"])

(***************************************************************************)
(* The client                                                              *)
(***************************************************************************)
Verdict(v) == call' = [Idle EXCEPT !.verdict = v, !.build = call.build]

WaitFor(b) ==
  call' = [pc |-> "queue", build |-> b, left |-> QueueAttempts, verdict |-> "none"]

(* trigger_job: not accepted, accepted, accepted but the answer is lost,   *)
(* or joined by Jenkins to an identical item that is still queued.         *)
Trigger ==
  /\ call.pc = "idle"
  /\ \E target \in AgentTargets :
       \/ call' = [Idle EXCEPT !.verdict = "failed"] /\ UNCHANGED jenkinsVars
       \/ Enqueue("switch", target) /\ WaitFor(requested + 1)
       \/ Enqueue("switch", target) /\ call' = [Idle EXCEPT !.verdict = "failed"]
       \/ /\ \E b \in Builds : /\ builds[b].job = "switch" /\ builds[b].target = target
                               /\ builds[b].stage = "queued" /\ WaitFor(b)
          /\ UNCHANGED jenkinsVars
  /\ UNCHANGED <<registryVars, healthy>>

(* Faulty forms: no limit, or one that is passed by.                       *)
MissedForEver == UNCHANGED call
MissedOnceMore ==
  IF call.left >= 0 THEN call' = [call EXCEPT !.left = @ - 1] ELSE Verdict("failed")

(* poll_until: one more attempt, or the last one was in vain.              *)
Missed ==
  IF call.left > 1 THEN call' = [call EXCEPT !.left = @ - 1] ELSE Verdict("failed")

Started(b) == builds[b].stage \in {"running", "post", "done"}

(* An answer may always be lost.                                           *)
PollQueue ==
  /\ call.pc = "queue"
  /\ \/ /\ Started(call.build)
        /\ call' = [call EXCEPT !.pc = "poll", !.left = BuildAttempts]
     \/ Missed
  /\ UNCHANGED <<jenkinsVars, registryVars, healthy>>

(* Faulty form: a build that is over was a success.                        *)
Finished(b) == "success"

Judged(b) == IF builds[b].result = "SUCCESS" THEN "success" ELSE "failed"

PollBuild ==
  /\ call.pc = "poll"
  /\ \/ builds[call.build].stage = "done" /\ Verdict(Judged(call.build))
     \/ Missed
  /\ UNCHANGED <<jenkinsVars, registryVars, healthy>>

(* The agent dies; the build goes on.                                      *)
AgentDies ==
  /\ call.pc # "idle" /\ call' = Idle
  /\ UNCHANGED <<jenkinsVars, registryVars, healthy>>

ContainerUp ==
  /\ \E m \in MODELS \ healthy : healthy' = healthy \cup {m}
  /\ UNCHANGED <<jenkinsVars, registryVars, call>>

ContainerDown ==
  /\ \E m \in healthy \cap Fragile : healthy' = healthy \ {m}
  /\ UNCHANGED <<jenkinsVars, registryVars, call>>

Step(b) ==
  \/ StartBuild(b) \/ FlipStatement(b) \/ RestartStatement(b) \/ WaitStatement(b)
  \/ QueryStatement(b) \/ RegisterStatement(b) \/ PostAlways(b)

Agent == PollQueue \/ PollBuild

Next ==
  \/ \E b \in Builds : Step(b) \/ Abort(b)
  \/ Trigger \/ Agent \/ AgentDies \/ HandTrigger
  \/ Ingest \/ OtherSwitch \/ ContainerUp \/ ContainerDown

Spec == Init /\ [][Next]_vars

(* Every poll has a timeout and the client never waits; Jenkins runs what  *)
(* can run.  Nobody has to trigger, abort, or bring a container back.      *)
Fairness == WF_vars(Agent) /\ \A b \in Builds : WF_vars(Step(b))

LiveSpec == Spec /\ Fairness
-------------------------------------------------------------------------------

Build ==
  [job : Job, target : MODELS,
   stage : {"none", "queued", "running", "post", "done", "cancelled"},
   at : 1..8, result : Result, wrote : 0..MaxVersions, stable : 0..MaxVersions]

TypeOK ==
  /\ builds \in [Builds -> Build] /\ requested \in 0..MaxBuilds
  /\ rows \in [MODELS -> Seq({"CANDIDATE", "STABLE", "ACTIVE"})]
  /\ active \in [model : MODELS, version : 1..MaxVersions]
  /\ healthy \subseteq MODELS
  /\ call \in [pc : {"idle", "queue", "poll"}, build : Builds \cup {NoBuild},
               left : Nat, verdict : {"none", "success", "failed"}]

(* The success the agent acts on is final as far as its own job goes: no   *)
(* older switch build, one it gave up on or whose trigger it never heard   *)
(* of, is still there to point the registry elsewhere after it.            *)
SuccessIsFinal ==
  call.verdict = "success" =>
    \A c \in 1..(call.build - 1) : builds[c].job = "switch" => Over(c)

(* Whatever Jenkins does and however long it takes, the tick that called   *)
(* run_job goes on: every wait of the client is counted.                   *)
RunJobReturns == [](call.pc # "idle" => <>(call.pc = "idle"))

(* A build waits for its model as long as it takes, and the builds of its  *)
(* job wait behind it: once the models stay up, the queues empty.          *)
QueueDrains ==
  <>[](healthy = MODELS) => <>[](\A b \in 1..requested : Over(b))

Phase(b) ==
  IF builds[b].stage = "none" THEN "free"
  ELSE IF builds[b].wrote # 0 THEN "written"
  ELSE IF Over(b) THEN "dropped" ELSE "owed"

(* What AgentLoop takes an executor to be (Switch, ExecutorFails).         *)
Contract == INSTANCE ExecutorContract WITH
  Requests <- Builds, Targets <- MODELS, NoRequest <- NoBuild,
  phase <- [b \in Builds |-> Phase(b)],
  wanted <- [b \in Builds |-> builds[b].target],
  slot <- active.model,
  waiting <- IF call.pc = "idle" THEN NoBuild ELSE call.build,
  answer <- call.verdict

ImplementsExecutor == Contract!Spec

(* rollback_model.groovy:12: "re-deploy the known-good artifact and        *)
(* re-point to it".  The switch it calls names the model only, and the     *)
(* registry promotes the newest version.                                   *)
RollbackPointsToDeployed ==
  \A b \in Builds : builds[b].job = "rollback" /\ builds[b].wrote # 0
                      => builds[b].wrote = builds[b].stable
===============================================================================
