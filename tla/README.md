# A TLA+ verification of the ML monitoring and auto-recovery agent

The repository runs two model services, an agent that watches the one that
serves and recovers it, and a Django control plane that records what the agent
does and says which model is active. This directory models what decides and what
the decisions rest on: the services' rolling windows and the probes that read them,
the detectors, the agent's loop and the rules it decides by, recovery through
Jenkins, the registry of the active model, the audit trail and the metrics store,
with the failures between them.

## 1. The system

| Component | State | Operations | Talks to |
|---|---|---|---|
| Agent loop (`agent_core/_files/agent.py`, `actions/`, `verification/`) | `AgentRuntime`, in memory only: active and previous model, serving flag, two counters, cooldown, attempts | `run` (adopt the registry's model, tick for ever), `run_tick` (observe, detect, decide, act, verify) | probes the two services; posts to the backend; starts Jenkins jobs |
| Decision engine (`decision_engine/`) | none | severity of a detection, of a tick, choice of action, evidence | called by the loop |
| Detectors (`detection/`) | threshold: none; anomaly: history, EWMA and consecutive counter per metric; drift: a window of rows | `detect(ctx)` | called by the loop |
| Probes (`monitoring/`) | none | send a batch to `/predict`, read `/health` and `/metrics` | services |
| Verification (`verification/`) | none | probe with retries; undo an unconfirmed switch | services, backend |
| Executors (`actions/executors.py`, `clients/jenkins_client.py`, `devops/jenkins`) | none; queue items and builds are in Jenkins | direct: nothing; jenkins: trigger, wait in queue, poll; the jobs switch, deploy and roll back | Jenkins, whose jobs write the registry and restart the services |
| Django client (`clients/django_client.py`) | which client was chosen at the start | fire-and-forget posts and patches | backend |
| Registry (`backend/registry_app`) | version rows with `is_active` and `status`, one pointer row | read and switch the active model | several gunicorn workers on one database |
| Audit trail (`backend/actions_app`) | incidents, action logs, verifications | log an action, patch its outcome | backend database |
| Monitoring (`backend/monitoring_app`), dashboard | metric rows | append, list, latest per model | backend database |
| Model services (`model-services/_common`) | rolling window of the last 200 requests, lost at a restart | predict, health, metrics | probed by the agent |

What makes it hard:

* the agent acts on two places (its memory and the registry) with calls that may
  be refused, lost, or served after it stopped waiting, and nothing retries them;
* a restart forgets the cooldown, the previous model and a verification owed;
* the operator, Jenkins and `seed_demo` write the registry too;
* the workers run `switch_to` at the same time, and PostgreSQL's READ COMMITTED
  chooses the rows of an UPDATE before it waits for them;
* two counters gate every intervention and outlive a change of the model they
  were counted on; so do the anomaly detector's histories;
* the window of a service counts requests and does not age, and only the agent's
  own probe sends any: a model that lost its traffic keeps its last errors;
* a Jenkins build outlives the client that waits for it, and writes the registry
  before it can fail;
* floors, bands and the acceptance test of VERIFY are separate constants in
  separate files that must fit together.

What makes each part correct, in one line each: the decision engine never judges
a worse model better, shows the true reason, and agrees with VERIFY; the loop
intervenes only on confirmed evidence about the model that serves, spaces its
switches, does not starve recovery, and ends every switch confirmed or undone;
memory, registry and audit row tell the same story; the registry has one active
version at every instant and to every reader; the trail closes an incident only
by a verdict it has on record, and keeps what races leave open bounded; a failure
nobody answered for is noticed and one that is over is let go; a job's success is
final, and what the client is told is what `switch_model` takes it to mean; what
readers are shown of a model does not go back in time.

## 2. The modules

| Module | Models | Notes |
|---|---|---|
| `DecisionEngine` | `threshold_detector`, `severity_classifier`, `policy_rules`, `decision` | operators only; permille and milliseconds |
| `HealthCheck` | `health_check._probe_once` | operators only |
| `DecisionCases`, `MCDecision` | every situation an observation can be in, one signal moving per step | drives the two above, carries their properties |
| `AgentLoop`, `MCLoop` | the process, the client, its view of the backend | extends `HealthCheck` |
| `Registry`, `MCRegistry` | the registry under concurrent workers | `ActiveSlot` is its abstract specification |
| `AuditTrail`, `MCAudit` | `POST` and `PATCH` of actions, incidents, the agent as their client | the loop's side is reduced to what it posts and when it gives up |
| `ModelService`, `BoundedQueue` | the two services: `/predict`, `/health`, `/metrics`, the rolling window | no behaviour of its own; a part of `Signals` |
| `AnomalyDetector` | `AnomalyDetector.evaluate`: histories and consecutive counters | the same |
| `Signals`, `MCSignals` | a tick from the probes to the severity and through VERIFY, over the two above | extends `HealthCheck`; derives what `AgentLoop` takes as an observation |
| `JenkinsJobs`, `MCJobs` | `jenkins_client`, the Jenkinsfile and its three jobs, the registry rows they use | `ExecutorContract` is its abstract specification, and what `AgentLoop` assumes of an executor |
| `MetricsStore`, `MCMetrics` | `post_metrics`, `POST /api/metrics`, `resolve_version`, `GET /api/metrics/latest` | |
| `DecisionProofs`, `AgentProofs`, `SignalsProofs`, `JenkinsProofs`, `RegistryProofs`, `AuditProofs`, `MetricsProofs` | proofs | section 6 |
| `NaturalsProofs` | least and greatest members of sets of naturals | lemmas the proofs share |

### Decision engine

A detection is a record of detector, metric, the value its band is read from, and
two flags (`anomaly_detected`, and `sustained` for the word the anomaly detector
puts in its message). `ThresholdDetect` is the detector with its floors;
`DriftDetect` yields the rows of the drift detector for a share of drifted
features; the anomaly detector's report is an input, as its arithmetic is outside
the model. `Classify` and `Worst` stay two definitions, as `classify` and `_worst`
are two functions in the code. Rates are rounded to six digits in the code and to
permille here: the model compares values that are at least a permille apart.

### Agent loop

`pc` cuts a tick wherever somebody else can act or the process can die between two
effects that outlive it:

    down -> observe -> act -> record -> [verify -> [guard] -> patch] -> end -> observe

| Action | Code |
|---|---|
| `Start` | `main`, `_build_runtime`, `run` up to the loop: `get_client` keeps the null client for good when the backend does not answer; the registry's model is adopted if it can be read |
| `Observe`, `ObserveError` | OBSERVE, DETECT and DECIDE, and OBSERVE's `except` |
| `NoOpOrAlert`, `Disable`, `Switch`, `ExecutorFails` | `dispatch` and the action modules, with the cooldown and attempts `run_tick` sets after them |
| `Record` | `post_action` |
| `VerifyProbe`, `Guard`, `Patch` | `health_check.verify`, `rollback_guard.guard`, `patch_action` |
| `EndTick` | the countdown at the end of `run_tick` |
| `LateArrival`, `ForeignWrite`, `Crash` | a request served after its caller's timeout; an operator, a job or `seed_demo`; a kill or an exception, and the container's restart policy |

The three phases before ACT are one step: until the decision is made only reads
leave the process. `Mirror` is one call to `set_active_model` with its three ends:
served, lost (or never made), still travelling. A job of the Jenkins executor
writes the registry itself; when the agent sees it fail it may have written, may
write later, or never.

Counters the code compares only with `>=` saturate at what they are compared with
(`consecutive_non_low` at `ConfirmN`, `consecutive_health_failures` at its
threshold); `recovery_attempts`, which nothing reads, at `AttemptBound`. The last
six variables are history variables: `witnessed`, `since`, `restarted`,
`unverified`, `escalated`, `agreed`. No guard reads them.

Where a property needs a faulty form of an action to show it can fail, the action
is written with the part that varies as a parameter (`SwitchWith`, `EndTickWith`,
`RollbackMirrored`, `PatchWith`), and the definition of the code is the plain name.

### Registry

`rows` and `pointer` are the committed tables; `req` holds what each worker is
doing and what its transaction has written and not committed. A statement that
waits is a guard: `Free` for row locks, `MayWrite` for SQLite's one lock. The
demoting UPDATE has two parts, `SelectActive` and `Demote`, because READ COMMITTED
picks the rows by the snapshot at the statement's start and re-checks them after
waiting. `Clash` is the unique index of `one_active_version`. The lookup of the
version happens before the transaction begins, as in the view.

`Create` and `Retire` are what others do to version rows. `Retire` is external: no
code of the repository retires a version, the view only respects the mark.

`ActiveSlot` says what a client may rely on: a request takes effect at one instant
or not at all, and pointer and flags move together. `Registry` implements it with
`slot <- pointer`, `active <- Active` and the version each request holds as
`wanted`; `Commit` is the instant.

### Audit trail

The views run outside a transaction, so every ORM statement is an action and a
worker may be killed between any two (`Kill`):

| Request | Statements |
|---|---|
| `POST /api/actions` | `FindIncident`, `OpenIncident` (the two halves of `open_or_reuse`), `CreateLog`, `BeginRecovery` |
| `PATCH /api/actions/{id}` | `SaveLog`, `RecordVerdict`, `ApplyVerification` |

`req[w].stage` is the next statement of worker `w`. The rest of `AuditTrail` is the
agent as the only client these views have: `Post` files one row per tick under
`resolve_version(target_model)`, the backup's version for a switch and the active
model's otherwise; `PatchVerdict` sends the verdict of an executed switch whose row
it knows; `GiveUp` is its timeout, after which the next tick may post while the
worker is still busy; `Unrecorded` is a tick whose post never arrives; `Restart` is
the agent's death before the verdict.

The read of `open_or_reuse` and the write after it race, and so do `begin_recovery`
and `apply_verification`, which write to an incident read some statements before.
Nothing is excluded: two open incidents of a version are reachable, and so is a
closed one that is opened again. The properties say how far that goes.
`OpenIncidentsBounded`: to as many open incidents as there are workers and no more.
`TerminalIsFinal`: to incidents closed while somebody else had them in hand, which
`contested` (a history variable) collects; a request that comes later revives nothing.

Left out: `severity` and `executed_at`, which nothing reads to decide, and the
metric blobs. `VERIFYING` and `REVERT` are in the types and no behaviour reaches
them: no code sets the first, and the guard marks every failed verdict
`escalate_to_human`, so the agent never asks for the second.

### From the services to the severity

`Signals` is a tick seen from the other side: `AgentLoop` takes any observation as
possible, `Signals` takes the services as they are and derives it.

    predict (Batch times) -> observe -> act [-> verify -> confirm] -> predict

| Action | Code |
|---|---|
| `PredictRow` | one row of `probe_predictions`; `Record` is what the service puts in its window for it |
| `ReadHealth` | `GET /health`, a request of its own in OBSERVE and in VERIFY |
| `Observe` | `GET /metrics`, the backup's health, DETECT and the severity |
| `Keep`, `Switch` | a tick without and with an executed switch; the gates of the loop are the choice between them |
| `Confirm` | `_probe_once`'s judgement: accept, probe again, or roll back |
| `ServiceMoves` | a fault begins or ends; the process stops, restarts with its artifact or without |

A request has an outcome: whether its caller had a 200 in time and what the service
recorded. A reply after the timeout is `answered = FALSE` with a good sample. The
window is `deque(maxlen)`; `Snapshot` is `/metrics` with its error rate, its
nearest-rank percentile and its mean confidence over the answered ones. In
`AnomalyDetector` the three tests of `_score` are a free choice with the one fact
the properties depend on: against a history without spread (zero MAD, zero IQR,
zero deviation) none of them fires.

`steady`, `anomalous`, `missed` and `condemned` are history variables. `condemned`
are the models that lost their traffic with a window that speaks against them, and
have not been restarted since.

### Recovery through Jenkins

| Action | Code |
|---|---|
| `Trigger` | `trigger_job` with `_crumb`: refused, accepted, accepted with the reply lost, or joined by Jenkins to an identical queued item |
| `PollQueue`, `PollBuild` | `resolve_queue`, `poll_build`, with `poll_until`'s limit in `Missed` |
| `StartBuild`, `Turn` | `disableConcurrentBuilds` and a first-in, first-out queue per job |
| `FlipStatement`, `RestartStatement`, `WaitStatement`, `QueryStatement`, `RegisterStatement` | the statements of the jobs, in the order `Script` gives them; the last `wait` is the Jenkinsfile's Verify stage |
| `PostAlways` | the `post` section |
| `Abort`, `HandTrigger` | an operator cancels or aborts (also in the `post` section), or starts a job |
| `Ingest`, `OtherSwitch` | the registry's other writers: an unknown version, another switch |
| `AgentDies`, `ContainerUp`, `ContainerDown` | restarts on either side |

`Flip` is `POST /api/active-model` without a version, in one step: `Registry` shows
that it is one. `docker restart ... || true` and the copy of the artifact may fail
unseen, so a restart step may leave its model as it is. A query fails the build when
there is no STABLE version, and when the backend does not answer. `POST /api/models` meets a
view without `post` and a caller that accepts every status, so `RegisterStatement`
changes nothing.

`ExecutorContract` says what a caller may rely on: a success means the slot was
written for the request; a failure means nothing. `JenkinsJobs` implements it, with
`phase` read off the builds (`owed` until the job has written, been cancelled, or
ended without writing). `AgentLoop`'s `Switch` and `ExecutorFails` are written
against this contract: a failed job may have written, may write later, or never.

### Metrics store

A snapshot carries the version its service reported and the time it was read.
The view has two statements: `Resolve`, in which `ResolveVersion` registers what it
does not know, and `CreateSnapshot`, in which `ParseTimestamp` falls back to the time
of arrival. `Lose` is a post that failed on the way, or whose worker died between the
two. A post in `travelling` may be served after a later one, and one in `resolved`
overtaken by it. `taken` is kept beside the
row's `timestamp` so that a property can compare them. `Unstamped` are models
whose snapshots other clients post, with or without a usable time.

## 3. The runs

Passing:

| Run | Question | Properties |
|---|---|---|
| `decision` | Do floors, bands, action choice, evidence and acceptance fit together at every edge? | `NeverRelaxes`, `SignalExplainsSeverity`, `AnomaliesNeverIntervene`, `VerifiedIsNotHigh` |
| `gates` | Do the anti-flap gates hold for any pattern of ticks and crashes, and let recovery through? | `TypeOK`, `ConfirmedOnThisModel`, `SwitchSpacing`, `GateOpensInTime`, `RecoveryNotStarved` |
| `traffic` | With every fault and both executors, do traffic, registry and audit row agree at the end of a tick? | `VerifiedOrReverted`, `InSync`, `AuditMatchesServing` |
| `registry` | Is the registry an atomic slot under three concurrent workers? | `TypeOK`, `SlotConsistent`, `StatusFollowsFlag`, `ImplementsSlot` |
| `audit` | What does the trail say when requests overlap and workers die at any statement? | `TypeOK`, `ClosedByVerdict`, `VerdictMatchesOutcome`, `OpenIncidentsBounded`, `TerminalIsFinal` |
| `signals` | Do the windows, the probes, the detectors and VERIFY together notice a fault, let go of one that is over, and keep a model out that its own window condemns? | `TypeOK`, `FailuresAreNotLow`, `IdleWindowIsFinal`, `SteadyIsNormal`, `RecoveryIsSeen` |
| `jobs` | What does a verdict of a Jenkins job mean, does the client return, do the queues drain? | `TypeOK`, `SuccessIsFinal`, `RunJobReturns`, `QueueDrains`, `ImplementsExecutor` |
| `metrics` | What are readers shown when posts arrive late, out of order or not at all? | `TypeOK`, `OneVersionShowsLatest`, `ShownNeverGoesBack` |

Violated, each a sentence of the repository the code does not keep:

| Run | The repository says | What the code does |
|---|---|---|
| `unverified` | verification is mandatory (`failure_scenarios.md` 466) | a restart adopts the promoted model and owes nothing |
| `episode` | an incident is a degradation episode of a version and closes when the system is verified healthy (`data_model.md` 855) | the switch is filed under the backup's version; the failing version's incident stays open |
| `rollback` | re-deploy the known-good artifact and re-point to it (`rollback_model.groovy` 12) | the switch names the model only, and the registry promotes its newest version |
| `latest` | the single most recent snapshot per model (`api_contracts.md` 620) | the entry of the oldest version overwrites the others |

`IdleWindowIsFinal` holds and is worth a warning all the same: it says that a model
which lost its traffic for its own errors cannot be switched back to, however sound
it has become, until its process is restarted. Every attempt ends in a rollback.

Every property of a passing run has a mutant, a faulty form of one action or
operator defined beside it, under which the same run finds the property violated.

## 4. Bounds, and why they are enough

* `MCDecision`: one value on each side of every constant the detectors and the
  classifier compare with. The operators compare values with these constants only,
  so two values between the same edges behave alike. `MaxFailures = 2` reaches the
  threshold 2. Drift shares are multiples of 1/8, as eight features are compared.
  The confidence gate is switched on, which adds a signal and removes none.
* `MCGates`: the defaults `ConfirmN = 2`, `CooldownCycles = 3`; two models, as in
  the code; observations of every severity from every channel. `Horizon =
  CooldownCycles + ConfirmN` is where the history counters saturate: no property
  asks for more.
* `MCTraffic`: `VerifyRetries = 2` gives one retry; `MaxLate = 1` call per model
  under way, so that a late switch can overtake a rollback and the reverse.
  Observations are LOW and HIGH with either backup: MEDIUM only alerts.
* `MCRegistry`: three requests and four versions: one active, three wanted. Two
  requests already conflict; the third shows what waits behind a conflict.
  Versions and requests are interchangeable (symmetry; no run with symmetry has a
  liveness property). PostgreSQL only: on SQLite `MayWrite`, `Create` and `Retire`
  have one more conjunct each and nothing else differs, so its behaviours are
  among those checked; the theorems cover both.
* `MCAudit`: two workers, enough for every overlap of two requests; three incidents,
  the least for one more than there are workers, and three rows: a switch, its
  verdict, and a row that could reopen what it closed, on either version. Two open
  incidents of one version are reached, so the bound of `OpenIncidentsBounded` is the
  least. `RowsLeft` is the bound that stops the agent posting when the
  rows are used up. `NO_OP` is not posted, as the views treat it as `ALERT`.
  `MCEpisode` has one worker: its counterexample needs no race.
* `MCSignals`: `WindowSize = 3` and `Batch = 1`, so that a window outlives a tick
  and is pushed out by the next three (200 and 25 rows in the code, eight ticks);
  `W = 2`, `WMin = 1`, `NSustain = 2` instead of 50, 12 and 5: a history that is
  warming up, full, flat and uneven, and a pattern that becomes sustained. One
  tracked metric, as they do not interact. `VerifyRetries = 2` gives one retry.
  model_a fails outright or answers too late, model_b answers without confidence
  and may stop, so each kind of fault meets both roles.
* `MCJobs`: `MaxBuilds = 2`, the least for one build behind or beside another;
  `MaxVersions = 2`, the least for a version that is not the newest; two attempts,
  one in vain and one last. The operator's jobs aim at the model the agent wants.
  `MCRollback` has the same bounds.
* `MCMetrics`: `MaxTime = 4` snapshots of two models with two versions, one of them
  with posts of unknown time: two of either version can cross on the way.
  `MCLatest` has the same bounds.

`MCMetrics` and `MCLatest` switch the deadlock check off, as the bound on the clock
ends the posts. No other run does: the agent ticks for ever, a worker can always
abort, and a job can always be asked for or a container restarted.

## 5. Fairness

Three runs have liveness properties, each under `LiveSpec`:

* `gates`: weak fairness of `Start` (the container has a restart policy) and of
  `Tick` as a whole (every HTTP call has a timeout, every retry loop a limit, and
  nothing in a tick waits for a condition).
* `signals`: weak fairness of `Tick`, for the same reason. Which rows are sent and
  which values are abnormal is never fair.
* `jobs`: weak fairness of the client (`Agent`: each poll has a timeout) and of each
  build's next statement. A statement that waits for `/health` is only enabled while
  the model is up.

No fault is fair, and no repair: crashes may or may not happen, a container may stay
down. `RecoveryNotStarved` is stated for behaviours in which the process stays up and
the serving model stays HIGH; `RecoveryIsSeen` for those in which one sound model
keeps the traffic; `QueueDrains` for those in which the models stay up.

## 6. What is proved

All theorems hold for every value of the constants that satisfies the assumptions of
the module they are about: any thresholds (no order between them is assumed, as
`config.py` checks none), any cooldown, confirmation and retry counts, any set of
observations, probes and faults, both executors; any set of requests and versions,
both databases; any number of workers, rows, builds and polls; any window, batch and
history length; any number of snapshots. Two theorems have a hypothesis of their
own, named below. Every invariant and action property of a passing run is proved.

* `DecisionProofs`: `WorseIsNeverRelaxed`, `EvidenceExplains`, `AnomaliesOnlyAlert`,
  `AcceptedIsNotHigh`, the four properties of the run `decision` without its grid of
  values. `Classify` is shown to be the worst severity of what breached; then each
  detection of the better situation is outdone by one of the worse, row by row.
* `AgentProofs`: `TypeCorrect`; the lemmas give the type of a classification and
  what a tick's decision implies (an intervention means HIGH and not gated).
  `SwitchesAreSpaced` and `InterventionsAreConfirmed`: neither is inductive, as the
  code knows only its counters and the properties speak of history. The invariant
  `GatesHold` ties them: what remains of the cooldown plus the ticks since the switch
  is at least `CooldownCycles`, and while the count of non-LOW ticks exceeds those
  witnessed on this model, the cooldown still runs long enough for them to catch up. The second theorem assumes `ConfirmN <= CooldownCycles`: the
  defaults satisfy it, `config.py` does not enforce it, and without it two bad
  ticks of the old model can condemn the new one. `GatesOpen` is the other side,
  the bound behind `RecoveryNotStarved`: the same sum is at most `CooldownCycles`
  while any cooldown is left and the count is never behind what was witnessed
  (`OpenInv`), so a gate is open in the first tick in which it may be.
  `SwitchesAreVerifiedOrReverted`, `RegistryInSync` and `AuditIsTruthful`, from
  `TrafficHolds`, which says for each `pc` where traffic is and what the runtime, the
  tick's locals and the row say about it.
* `RegistryProofs`: `SlotStaysConsistent`, `RegistryImplementsSlot`, from
  `InvariantHolds`: at most one request holds an uncommitted promotion, and what is
  active is what that request demotes or promotes. The second half is what the
  unique index gives; it makes `Commit` leave one active version. `TypeCorrect` and
  `StatusAndFlagAgree` follow beside it.
* `SignalsProofs`: `SignalsTyped`, from what `Snapshot` returns for any window: a
  percentile by nearest rank exists, as the latency the most samples do not exceed is
  exceeded by none, and so does the sum of the confidences. `CondemnedStayOut`, from
  `WindowHolds`: while a model is in `condemned` its window breaches and nothing is
  sent to it, and a tick that verifies came from a model that is not.
  `SteadyIsNeverAnomalous`: the last `steady` entries of each history are equal, so a history that is all of them
  is flat. `FailuresAreNoticed`, for batches of at most 32 rows (`SmallBatch`; the
  code sends 25): one failure in the batch is then more than the 3 percent where the
  MEDIUM band begins. In a batch of 34 it is not, which is why the hypothesis is
  there; 32 and not 33 is due to rates in permille.
* `JenkinsProofs`: `JobsTyped`, `SuccessesAreFinal`, `JenkinsIsAnExecutor`, from
  `InvariantHolds`: what a build has written by the statement it has reached, that a
  build that has started has no older one of its job beside it, and what the client
  knows of its build. The refinement goes by `Phase`: each action of Jenkins, of the
  client or of the registry's other writers moves one phase, the slot or the answer
  as a step of the contract does, or none of them.
* `AuditProofs`: `AuditTypes`, `IncidentsAreClosedByVerdicts`,
  `VerdictsMatchOutcomes`, from `InvariantHolds`. The properties speak of rows only;
  the invariant adds how far each patch has written its verdict (`PatchOK`), that no
  two patches write one row (`OnePatch`), and why: the agent patches only rows that
  are `Fresh`, executed switches nobody has judged, and forgets them as it does.
  `OpenStaysBounded` and `TerminalStays` need a second half, `FilingInvariant`. For
  the first, what counts is not what is open but what may become so (`Live`): also the
  incidents in the hands of requests that file a row, as `begin_recovery` opens them
  whatever they are by then. The requests about to open an incident of a version
  (`Openers`) and its live incidents together are at most the workers (`Bounded`):
  a request becomes an opener only when nothing is open, so each live incident is in
  the hands of some other request, and creating a row trades an opener for a live
  incident. For the second, an incident closed in nobody's hands stays in nobody's
  hands (`HeldOpen`), since a search finds only open ones. Both assume that the set of
  workers is finite and nothing about how they interleave.
* `MetricsProofs`: `StoreTyped`, `ShownIsMonotonic` and `LatestOfOneVersion`, from
  `InvariantHolds`: what a post and a row know of their time, and that the version of
  a post that is resolved is registered. `ShownIsMonotonic` is an
  action property: the rows of a version only grow, and the newest of more rows is not
  older, as a row's time is the time it was taken. `LatestOfOneVersion` marks where the
  endpoint stops being right: the run `latest` needs a second version.

Where an induction over data is needed (a nonempty set of rows has a newest one, a sum
over the samples of a window exists), the induction theorems of the library cannot be
used, as they take an operator. `NaturalsProofs` derives from the well-foundedness of
`<` that a nonempty set of naturals has a least member; the set of counterexamples'
sizes then does what the induction would.

Only model-checked: `RecoveryNotStarved`, `RecoveryIsSeen`, `RunJobReturns` and
`QueueDrains`, as liveness under fairness is out of the prover's reach.

## 7. Not modelled

* The arithmetic of the detectors (robust z, fences, EWMA, PSI, KS, chi-square):
  real numbers. Its results are free choices. The drift detector's window of the
  last 500 rows is not kept: the fixture batches have 600 rows and replace it whole,
  and any outcome of its statistics is allowed in every tick.
* Prediction and the parsing of a row: which of the four outcomes a request has is
  all the rest depends on.
* `low_confidence_ratio` in `Signals` (the flag is off by default); `DecisionCases`
  has it on.
* The dashboard (reads only), data simulation and repository scaffolding (offline),
  migrations (generated), container configuration beyond restarts, severity and
  feature columns nothing reads to decide.
* `AgentLoop`, `Registry`, `JenkinsJobs` and `Signals` are not composed into one
  module: each is checked against an abstraction of its neighbours, and the two that
  matter most are shown to implement theirs (`ActiveSlot`, `ExecutorContract`). The
  product would add no step one of them lacks, and would be out of reach for TLC.

### Divergences without a run

Met while modelling; either nothing in the code could move them, so that a run would
restate a missing line, or they concern a sentence no state shows.

* `recovery_attempts` is counted and `MAX_RECOVERY_ATTEMPTS` compared nowhere, though
  one attempt per incident is promised (`failure_scenarios.md` 60, 377); the switches
  are spaced all the same (`SwitchSpacing`).
* Nothing sets `serving_enabled` back (`failure_scenarios.md` 149: the agent
  re-enables predictions), and nothing but a verdict closes an incident
  (`failure_scenarios.md` 360, 419: noise auto-closes).
* VERIFY reads p95 and does not compare it (`failure_scenarios.md` 284), and sends no
  canary `/predict` (`deployment_and_devops.md` 784).
* `failure_scenarios.md` 353 calls a single 500 noise and LOW, through an EWMA the
  threshold detector does not apply. In a batch of 25 it is an error rate of 4 percent,
  which the band table of the same file (line 43) and the code make MEDIUM: the tick
  alerts and intervenes in nothing, which is what `test_loop_scenarios.py` 69 asks of
  N1. `FailuresAreNotLow` takes that side.
* A lost, late or foreign write leaves registry and memory apart until the agent's next
  served write or restart: `django_client.py` sends `set_active_model` once, and pushes
  are not retried as `architecture.md` 734 says. `InSync` is what holds without one.
* A terminal incident is opened again by a request that had found it before it was
  closed, or relabelled by a verdict on its way, against the life cycle in
  `actions_app/models.py` 43-46. `TerminalIsFinal` says that nothing else does.
* Two switches on PostgreSQL do not serialize (`data_model.md` 526): the second fails
  on the unique index. The tables stay consistent (`SlotConsistent`).
* A switch job writes the registry before it can fail, so a failure may leave the
  half-switch `executors.py` 42 and `deployment_and_devops.md` 788 exclude;
  `ExecutorContract` states what is left: a failure means nothing.
* The post section's `deploy`, `switch` and `rollback` are no words of the agent's,
  so `actions_app/models.py` 93 stores each as a NO_OP.
* A demoted version is STABLE whatever it was demoted for; no code sets
  `ROLLED_BACK` (`data_model.md` 1323).
* A 422 for a bad row counts as an error of the model (`service.py` 171), and the
  window counts requests, not the seconds `api_contracts.md` documents.
