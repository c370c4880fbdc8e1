----------------------------- MODULE ModelService -----------------------------
(***************************************************************************)
(* The two inference services (model-services/_common): POST /predict and  *)
(* the rolling window it fills, GET /health and GET /metrics, which read   *)
(* it.  The window counts requests, not seconds, lives in memory, and only *)
(* the agent's own probe sends requests in this repository.                *)
(*                                                                         *)
(* How a request ends is an outcome: did the caller get a 200 in time, and *)
(* what did the service record.  The two may disagree: a reply that comes  *)
(* after the caller's timeout is a success to the service.                 *)
(***************************************************************************)
EXTENDS BoundedQueue, FiniteSetsExt

CONSTANTS
  Models,
  NoSample,     \* the request never reached the service
  WindowSize,   \* WINDOW_SIZE
  Usual,        \* how requests to a sound model end
  Faulty        \* per model: how they may end while it is not sound

VARIABLES
  status,   \* per model: the container is "down", or it is up and its artifact
            \* "unloaded", or loaded and answering "sound" or "faulty"
  window    \* per model: MetricsTracker._window

serviceVars == <<status, window>>

Status == {"down", "unloaded", "sound", "faulty"}

Sample  == [is_error : BOOLEAN, latency_ms : Nat, confidence : Nat]
Outcome == [answered : BOOLEAN, sample : Sample \cup {NoSample}]

ASSUME ServiceAssumption ==
  /\ NoSample \notin Sample /\ WindowSize \in Nat \ {0}
  /\ Usual \subseteq [answered : BOOLEAN, sample : Sample]
  /\ Faulty \in [Models -> SUBSET [answered : BOOLEAN, sample : Sample]]

(* An error's confidence is NaN in the source and is never read.           *)
Errored(latency) ==
  [answered |-> FALSE,
   sample   |-> [is_error |-> TRUE, latency_ms |-> latency, confidence |-> 0]]

(* No artifact (503), or a row without the eight features (422).           *)
Refused == Errored(0)

Unreachable == [answered |-> FALSE, sample |-> NoSample]

Loaded(m) == status[m] \in {"sound", "faulty"}

Outcomes(m) ==
  CASE status[m] = "down"     -> {Unreachable}
    [] status[m] = "unloaded" -> {Refused}
    [] status[m] = "sound"    -> Usual
    [] status[m] = "faulty"   -> Usual \cup Faulty[m]

ServiceInit ==
  /\ status = [m \in Models |-> "sound"]
  /\ window = [m \in Models |-> <<>>]

(* Faulty forms: the window has no bound, or takes no more when it is full. *)
RecordForEver(m, sample) ==
  IF sample = NoSample THEN UNCHANGED window
  ELSE window' = [window EXCEPT ![m] = Append(@, sample)]

RecordUntilFull(m, sample) ==
  IF sample = NoSample \/ Len(window[m]) = WindowSize THEN UNCHANGED window
  ELSE window' = [window EXCEPT ![m] = Append(@, sample)]

Record(m, sample) ==
  IF sample = NoSample THEN UNCHANGED window
  ELSE window' = [window EXCEPT ![m] = Push(@, sample, WindowSize)]

Predict(m, outcome) ==
  /\ outcome \in Outcomes(m)
  /\ Record(m, outcome.sample)
  /\ UNCHANGED status

(* The cause of a fault (load, memory, an input the artifact cannot take)  *)
(* comes and goes while the process runs on.                               *)
FaultMoves(m) ==
  /\ Loaded(m)
  /\ status' = [status EXCEPT ![m] = IF @ = "sound" THEN "faulty" ELSE "sound"]
  /\ UNCHANGED window

(* The process stops; a new one loads the artifact, or fails to.           *)
Stop(m) ==
  /\ status[m] # "down" /\ status' = [status EXCEPT ![m] = "down"]
  /\ window' = [window EXCEPT ![m] = <<>>]

Restart(m) ==
  /\ status[m] = "down"
  /\ \E s \in {"unloaded", "sound"} : status' = [status EXCEPT ![m] = s]
  /\ UNCHANGED window

(***************************************************************************)
(* GET /metrics.  A percentile by nearest rank is the least value that at  *)
(* least that share of the values does not exceed.                         *)
(***************************************************************************)
NearestRank(samples, S, percent) ==
  LET latencies == {samples[i].latency_ms : i \in S}
      UpTo(v)   == {i \in S : samples[i].latency_ms <= v} IN
  IF S = {} THEN 0
  ELSE Min({v \in latencies : 100 * Cardinality(UpTo(v)) >= percent * Cardinality(S)})

Snapshot(samples) ==
  LET ok     == {i \in DOMAIN samples : ~samples[i].is_error}
      errors == Len(samples) - Cardinality(ok)
      timed  == IF ok # {} THEN ok ELSE DOMAIN samples IN
  [error_rate     |-> IF samples = <<>> THEN 0 ELSE (1000 * errors) \div Len(samples),
   p95_latency_ms |-> NearestRank(samples, timed, 95),
   avg_confidence |-> IF ok = {} THEN 0
                      ELSE MapThenSumSet(LAMBDA i : samples[i].confidence, ok)
                             \div Cardinality(ok)]
===============================================================================
