----------------------------- MODULE MetricsStore -----------------------------
(***************************************************************************)
(* The snapshots the control plane keeps (monitoring_app): the agent posts *)
(* one per tick, with the version its model reported and the time it was   *)
(* read, and drops it when the post fails.  A post given up on may still   *)
(* be served, after a later one.  A version is registered by the first     *)
(* snapshot that names it.  GET /api/metrics/latest is what readers see.   *)
(***************************************************************************)
EXTENDS Integers, Sequences, FiniteSetsExt

CONSTANTS
  Models,
  Versions,     \* the versions a model may run, in the order of their releases
  MaxTime,      \* bound: snapshots that are taken
  Unstamped,    \* models whose snapshots may come without a usable timestamp
  Nothing       \* no snapshot

VARIABLES
  clock,      \* the time; every snapshot is taken at a time of its own
  running,    \* per model: the version its service reports
  versions,   \* per model: its version rows, oldest first
  stored,     \* the snapshot rows
  travelling, \* posts that are not served yet
  resolved    \* posts whose version is registered and whose row is not written

vars == <<clock, running, versions, stored, travelling, resolved>>

(* stamp 0: the client gave no timestamp, or none that can be parsed.      *)
Snapshot == [model : Models, version : Versions, taken : 1..MaxTime, stamp : 0..MaxTime]
Row      == [model : Models, version : Versions, taken : 1..MaxTime, timestamp : 1..MaxTime]

ASSUME StoreAssumption ==
  /\ Versions \subseteq Nat /\ Versions # {}
  /\ MaxTime \in Nat \ {0} /\ Unstamped \subseteq Models /\ Nothing \notin Row

First == CHOOSE v \in Versions : \A u \in Versions : v <= u

(* seed_demo has registered the first version of each.                     *)
Init ==
  /\ clock = 0 /\ stored = {} /\ travelling = {} /\ resolved = {}
  /\ running = [m \in Models |-> First] /\ versions = [m \in Models |-> <<First>>]

(* post_metrics, sent when a tick has metrics.                             *)
Take(m) ==
  /\ clock < MaxTime /\ clock' = clock + 1
  /\ \E stamp \in IF m \in Unstamped THEN {0, clock + 1} ELSE {clock + 1} :
       travelling' = travelling \cup
         {[model |-> m, version |-> running[m], taken |-> clock + 1, stamp |-> stamp]}
  /\ UNCHANGED <<running, versions, stored, resolved>>

(* Faulty form: create without get.                                        *)
ResolveByCreating(m, v) == versions' = [versions EXCEPT ![m] = Append(@, v)]

(* resolve_version                                                         *)
ResolveVersion(m, v) ==
  IF \E i \in DOMAIN versions[m] : versions[m][i] = v THEN UNCHANGED versions
  ELSE versions' = [versions EXCEPT ![m] = Append(@, v)]

(* Faulty form: a snapshot is as old as its row.                           *)
ArrivalTime(p) == clock

ParseTimestamp(p) == IF p.stamp = 0 THEN clock ELSE p.stamp

(* MetricsView.post registers the version and then writes the row.         *)
Resolve(p) ==
  /\ p \in travelling
  /\ travelling' = travelling \ {p} /\ resolved' = resolved \cup {p}
  /\ ResolveVersion(p.model, p.version)
  /\ UNCHANGED <<clock, running, stored>>

CreateSnapshot(p) ==
  /\ p \in resolved /\ resolved' = resolved \ {p}
  /\ stored' = stored \cup {[model |-> p.model, version |-> p.version, taken |-> p.taken,
                             timestamp |-> ParseTimestamp(p)]}
  /\ UNCHANGED <<clock, running, versions, travelling>>

(* The post fails on the way, or its worker is killed before the row.      *)
Lose(p) ==
  /\ travelling' = travelling \ {p} /\ resolved' = resolved \ {p}
  /\ UNCHANGED <<clock, running, versions, stored>>

(* The service comes back with another MODEL_VERSION.                      *)
Release(m) ==
  /\ running' \in {[running EXCEPT ![m] = v] : v \in {u \in Versions : u > running[m]}}
  /\ UNCHANGED <<clock, versions, stored, travelling, resolved>>

Next ==
  \/ \E m \in Models : Take(m) \/ Release(m)
  \/ \E p \in travelling \cup resolved : Resolve(p) \/ CreateSnapshot(p) \/ Lose(p)

Spec == Init /\ [][Next]_vars
-------------------------------------------------------------------------------
NewestOf(rows) ==
  IF rows = {} THEN Nothing
  ELSE CHOOSE r \in rows : \A s \in rows : s.timestamp <= r.timestamp

(* Faulty form: version numbers are taken for unique among the models.     *)
OfAnyModel(m, v) == {r \in stored : r.version = v}

Of(m, v) == {r \in stored : r.model = m /\ r.version = v}

(* LatestMetricsView: one entry per model, overwritten version by version; *)
(* the rows come newest first (Meta.ordering), so the oldest one stays.    *)
Latest(m) ==
  LET reported == {i \in DOMAIN versions[m] : Of(m, versions[m][i]) # {}} IN
  IF reported = {} THEN Nothing ELSE NewestOf(Of(m, versions[m][Min(reported)]))

TypeOK ==
  /\ clock \in 0..MaxTime /\ running \in [Models -> Versions]
  /\ versions \in [Models -> Seq(Versions)]
  /\ \A m \in Models : \A i, j \in DOMAIN versions[m] :   \* unique_together
       versions[m][i] = versions[m][j] => i = j
  /\ stored \subseteq Row /\ travelling \cup resolved \subseteq Snapshot

(* What a reader is shown of a version never goes back to an observation   *)
(* made before the one shown last, in whatever order the posts arrive and  *)
(* whichever are lost: rows are ordered by the time in the body, not by    *)
(* the time of their arrival (_parse_timestamp, MetricSnapshot.Meta).  The *)
(* agent always sends the time; of other clients nothing can be said.      *)
ShownNeverGoesBack ==
  [][\A m \in Models \ Unstamped, v \in Versions :
       Of(m, v) # {} => NewestOf(Of(m, v)').taken >= NewestOf(Of(m, v)).taken]_vars

(* As long as every snapshot of a model names one version, the endpoint    *)
(* does show the model's newest, for whatever versions are registered and  *)
(* whatever clients leave out of their posts (LatestMetricsView).          *)
OneVersionShowsLatest ==
  \A m \in Models :
    (\A r, s \in stored : r.model = m /\ s.model = m => r.version = s.version)
      => Latest(m) = NewestOf({r \in stored : r.model = m})

(* api_contracts.md:620: "the single most recent snapshot per model".      *)
LatestIsMostRecent ==
  \A m \in Models :
    Latest(m) = NewestOf({r \in stored : r.model = m})
===============================================================================
