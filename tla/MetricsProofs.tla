----------------------------- MODULE MetricsProofs -----------------------------
(***************************************************************************)
(* Proofs about MetricsStore, for any models, versions and number of       *)
(* snapshots, any order of arrival and any losses.                         *)
(***************************************************************************)
EXTENDS MetricsStore, NaturalsProofs

(* A post carries the time of its snapshot, or none if its client is one   *)
(* that may leave it out.                                                  *)
PostsHold ==
  \A p \in travelling \cup resolved :
    /\ p.taken <= clock
    /\ p.stamp \in {0, p.taken}
    /\ p.model \notin Unstamped => p.stamp = p.taken

(* The version of a post is registered before its row is written.          *)
ResolvedHold ==
  \A p \in resolved : \E i \in DOMAIN versions[p.model] : versions[p.model][i] = p.version

(* A row that gave its time keeps it, whenever it arrives.                 *)
RowsHold ==
  \A r \in stored :
    /\ r.model \notin Unstamped => r.timestamp = r.taken
    /\ \E i \in DOMAIN versions[r.model] : versions[r.model][i] = r.version

IInv == TypeOK /\ PostsHold /\ ResolvedHold /\ RowsHold

(***************************************************************************)
(* The newest of a set of rows exists.                                     *)
(***************************************************************************)
LEMMA NewestExists ==
  ASSUME NEW rows, rows \subseteq Row, rows # {}
  PROVE  \E r \in rows : \A s \in rows : s.timestamp <= r.timestamp
<1> DEFINE times == {r.timestamp : r \in rows}
<1>1. \A r \in rows : r.timestamp \in 1..MaxTime
  BY DEF Row
<1>2. times \subseteq Nat /\ times # {} /\ \A t \in times : t <= MaxTime
  BY <1>1, StoreAssumption
<1>3. PICK t \in times : \A u \in times : u <= t
  <2> HIDE DEF times
  <2> QED BY <1>2, StoreAssumption, GreatestNatural
<1> QED BY <1>3

LEMMA NewestFacts ==
  ASSUME NEW rows, rows \subseteq Row, rows # {}
  PROVE  /\ NewestOf(rows) \in rows
         /\ \A s \in rows : s.timestamp <= NewestOf(rows).timestamp
  BY NewestExists DEF NewestOf

(* The release a model starts with is one of its versions.                 *)
LEMMA FirstVersion == First \in Versions
<1>1. \E v \in Versions : \A u \in Versions : v <= u
  BY StoreAssumption, LeastNatural
<1> QED BY <1>1 DEF First

(***************************************************************************)
(* The inductive invariant.                                                *)
(***************************************************************************)
LEMMA InitIInv == Init => IInv
<1> SUFFICES ASSUME Init PROVE IInv
  OBVIOUS
<1>1. <<First>> \in Seq(Versions) /\ DOMAIN <<First>> = {1}
  BY FirstVersion
<1>2. TypeOK
  BY <1>1, FirstVersion, StoreAssumption DEF Init, TypeOK
<1>3. PostsHold /\ ResolvedHold /\ RowsHold
  BY DEF Init, PostsHold, ResolvedHold, RowsHold
<1> QED BY <1>2, <1>3 DEF IInv

(* What a tick sends is a snapshot of now, not of later.                   *)
LEMMA TakeIInv == ASSUME IInv, NEW m \in Models, Take(m) PROVE IInv'
<1> USE StoreAssumption DEF IInv
<1>1. PICK stamp \in IF m \in Unstamped THEN {0, clock + 1} ELSE {clock + 1} :
        travelling' = travelling \cup
          {[model |-> m, version |-> running[m], taken |-> clock + 1, stamp |-> stamp]}
  BY DEF Take
<1>2. /\ clock \in 0..MaxTime /\ clock < MaxTime /\ clock' = clock + 1
      /\ UNCHANGED <<running, versions, stored, resolved>>
  BY DEF Take, TypeOK
<1> DEFINE p == [model |-> m, version |-> running[m], taken |-> clock + 1, stamp |-> stamp]
<1>3. p \in Snapshot
  BY <1>1, <1>2 DEF Snapshot, TypeOK
<1>4. TypeOK'
  BY <1>1, <1>2, <1>3 DEF TypeOK
<1>5. PostsHold'
  <2> SUFFICES ASSUME NEW q \in travelling' \cup resolved'
               PROVE  /\ q.taken <= clock' /\ q.stamp \in {0, q.taken}
                      /\ q.model \notin Unstamped => q.stamp = q.taken
    BY DEF PostsHold
  <2>1. CASE q = p
    BY <1>1, <1>2, <2>1
  <2>2. CASE q \in travelling \cup resolved
    <3>1. q.taken \in 1..MaxTime
      BY <2>2 DEF TypeOK, Snapshot
    <3> QED BY <1>2, <2>2, <3>1 DEF PostsHold
  <2> QED BY <1>1, <1>2, <2>1, <2>2
<1>6. ResolvedHold' /\ RowsHold'
  BY <1>2 DEF ResolvedHold, RowsHold
<1> QED BY <1>4, <1>5, <1>6

(* A version that is resolved keeps its place, or takes the next one.      *)
LEMMA ResolveFacts ==
  ASSUME TypeOK, NEW m \in Models, NEW v \in Versions, ResolveVersion(m, v)
  PROVE  /\ versions' \in [Models -> Seq(Versions)]
         /\ \A n \in Models : \A i, j \in DOMAIN versions'[n] :
              versions'[n][i] = versions'[n][j] => i = j
         /\ \A n \in Models : \A i \in DOMAIN versions[n] :
              i \in DOMAIN versions'[n] /\ versions'[n][i] = versions[n][i]
         /\ \E i \in DOMAIN versions'[m] : versions'[m][i] = v
<1> USE DEF TypeOK
<1>1. CASE \E i \in DOMAIN versions[m] : versions[m][i] = v
  BY <1>1 DEF ResolveVersion
<1>2. CASE ~ \E i \in DOMAIN versions[m] : versions[m][i] = v
  <2> DEFINE s == versions[m]
             t == Append(s, v)
  <2>1. versions' = [versions EXCEPT ![m] = t]
    BY <1>2 DEF ResolveVersion
  <2>2. s \in Seq(Versions) /\ Len(s) \in Nat /\ DOMAIN s = 1..Len(s)
    OBVIOUS
  <2>3. /\ t \in Seq(Versions) /\ DOMAIN t = 1..(Len(s) + 1)
        /\ t[Len(s) + 1] = v /\ \A i \in 1..Len(s) : t[i] = s[i]
    BY <2>2
  <2>4. \A k \in 1..Len(s) : s[k] # v
    BY <1>2, <2>2
  <2>5. \A i, j \in 1..Len(s) : s[i] = s[j] => i = j
    BY <2>2
  <2>6. versions'[m] = t /\ \A n \in Models : n # m => versions'[n] = versions[n]
    BY <2>1
  <2>7. versions' \in [Models -> Seq(Versions)]
    BY <2>1, <2>3
  <2> HIDE DEF s, t
  <2>8. \A i, j \in DOMAIN t : t[i] = t[j] => i = j
    <3>1. \A i \in DOMAIN t : i \in 1..Len(s) \/ i = Len(s) + 1
      BY <2>2, <2>3
    <3> QED BY <2>3, <2>4, <2>5, <3>1
  <2>9. \E i \in DOMAIN t : t[i] = v
    BY <2>2, <2>3
  <2>10. \A i \in DOMAIN s : i \in DOMAIN t /\ t[i] = s[i]
    BY <2>2, <2>3
  <2>11. ASSUME NEW n \in Models
         PROVE  /\ \A i, j \in DOMAIN versions'[n] :
                     versions'[n][i] = versions'[n][j] => i = j
                /\ \A i \in DOMAIN versions[n] :
                     i \in DOMAIN versions'[n] /\ versions'[n][i] = versions[n][i]
    <3>1. CASE n = m
      BY <2>6, <2>8, <2>10, <3>1 DEF s
    <3>2. CASE n # m
      BY <2>6, <3>2
    <3> QED BY <3>1, <3>2
  <2> QED BY <2>6, <2>7, <2>9, <2>11
<1> QED BY <1>1, <1>2

LEMMA ResolveIInv == ASSUME IInv, NEW p \in travelling, Resolve(p) PROVE IInv'
<1> USE DEF IInv
<1>1. /\ travelling' = travelling \ {p} /\ resolved' = resolved \cup {p}
      /\ ResolveVersion(p.model, p.version) /\ UNCHANGED <<clock, running, stored>>
  BY DEF Resolve
<1>2. p.model \in Models /\ p.version \in Versions
  BY DEF TypeOK, Snapshot
<1>3. /\ versions' \in [Models -> Seq(Versions)]
      /\ \A n \in Models : \A i, j \in DOMAIN versions'[n] :
           versions'[n][i] = versions'[n][j] => i = j
      /\ \A n \in Models : \A i \in DOMAIN versions[n] :
           i \in DOMAIN versions'[n] /\ versions'[n][i] = versions[n][i]
      /\ \E i \in DOMAIN versions'[p.model] : versions'[p.model][i] = p.version
  BY <1>1, <1>2, ResolveFacts
<1>4. TypeOK'
  <2>1. travelling' \cup resolved' \subseteq Snapshot
    BY <1>1 DEF TypeOK
  <2> QED BY <1>1, <1>3, <2>1 DEF TypeOK
<1>5. PostsHold'
  BY <1>1 DEF PostsHold
<1>6. ASSUME NEW m \in Models, NEW v, \E i \in DOMAIN versions[m] : versions[m][i] = v
      PROVE  \E i \in DOMAIN versions'[m] : versions'[m][i] = v
  BY <1>3, <1>6
<1>7. ResolvedHold'
  <2> SUFFICES ASSUME NEW q \in resolved'
               PROVE  \E i \in DOMAIN versions'[q.model] : versions'[q.model][i] = q.version
    BY DEF ResolvedHold
  <2>1. CASE q = p
    BY <1>3, <2>1
  <2>2. CASE q \in resolved
    <3>1. q.model \in Models
      BY <2>2 DEF TypeOK, Snapshot
    <3> QED BY <1>6, <2>2, <3>1 DEF ResolvedHold
  <2> QED BY <1>1, <2>1, <2>2
<1>8. RowsHold'
  <2> SUFFICES ASSUME NEW q \in stored
               PROVE  /\ q.model \notin Unstamped => q.timestamp = q.taken
                      /\ \E i \in DOMAIN versions'[q.model] : versions'[q.model][i] = q.version
    BY <1>1 DEF RowsHold
  <2>1. q.model \in Models
    BY DEF TypeOK, Row
  <2> QED BY <1>6, <2>1 DEF RowsHold
<1> QED BY <1>4, <1>5, <1>7, <1>8

(* The row has the time of its post, or, if that has none, one not later   *)
(* than now.                                                               *)
LEMMA CreateIInv == ASSUME IInv, NEW p \in resolved, CreateSnapshot(p) PROVE IInv'
<1> USE StoreAssumption DEF IInv
<1> DEFINE r == [model |-> p.model, version |-> p.version, taken |-> p.taken,
                 timestamp |-> ParseTimestamp(p)]
<1>1. /\ resolved' = resolved \ {p} /\ stored' = stored \cup {r}
      /\ UNCHANGED <<clock, running, versions, travelling>>
  BY DEF CreateSnapshot
<1>2. /\ p.model \in Models /\ p.version \in Versions /\ p.taken \in 1..MaxTime
      /\ p.taken <= clock /\ p.stamp \in {0, p.taken} /\ clock \in 0..MaxTime
      /\ p.model \notin Unstamped => p.stamp = p.taken
  BY DEF TypeOK, Snapshot, PostsHold
<1>3. /\ ParseTimestamp(p) \in 1..MaxTime
      /\ p.model \notin Unstamped => ParseTimestamp(p) = p.taken
  BY <1>2 DEF ParseTimestamp
<1>4. r \in Row
  BY <1>2, <1>3 DEF Row
<1>5. TypeOK'
  <2>1. stored' \subseteq Row /\ travelling' \cup resolved' \subseteq Snapshot
    BY <1>1, <1>4 DEF TypeOK
  <2> HIDE DEF r
  <2> QED BY <1>1, <2>1 DEF TypeOK
<1>6. PostsHold' /\ ResolvedHold'
  BY <1>1 DEF PostsHold, ResolvedHold
<1>7. RowsHold'
  BY <1>1, <1>3 DEF ResolvedHold, RowsHold
<1> QED BY <1>5, <1>6, <1>7

LEMMA NextIInv == IInv /\ [Next]_vars => IInv'
<1> SUFFICES ASSUME IInv, [Next]_vars PROVE IInv'
  OBVIOUS
<1>1. ASSUME NEW p, Lose(p) PROVE IInv'
  BY <1>1 DEF Lose, IInv, TypeOK, PostsHold, ResolvedHold, RowsHold
<1>2. ASSUME NEW m \in Models, Release(m) PROVE IInv'
  <2>1. running' \in [Models -> Versions]
    BY <1>2 DEF Release, IInv, TypeOK
  <2>2. UNCHANGED <<clock, versions, stored, travelling, resolved>>
    BY <1>2 DEF Release
  <2> QED BY <2>1, <2>2 DEF IInv, TypeOK, PostsHold, ResolvedHold, RowsHold
<1>3. CASE UNCHANGED vars
  BY <1>3 DEF vars, IInv, TypeOK, PostsHold, ResolvedHold, RowsHold
<1>4. ASSUME NEW p, Resolve(p) PROVE IInv'
  BY <1>4, ResolveIInv DEF Resolve
<1>5. ASSUME NEW p, CreateSnapshot(p) PROVE IInv'
  BY <1>5, CreateIInv DEF CreateSnapshot
<1> QED BY <1>1, <1>2, <1>3, <1>4, <1>5, TakeIInv DEF Next

(* The inductive invariant: what a post and a row know of their time, and  *)
(* that the version of every row is registered.                            *)
THEOREM InvariantHolds == Spec => []IInv
  BY InitIInv, NextIInv, PTL DEF Spec

(* Rows, posts and version rows stay in their types, and no version is     *)
(* registered twice (resolve_version under unique_together).               *)
THEOREM StoreTyped == Spec => []TypeOK
  BY InvariantHolds, PTL DEF IInv

(***************************************************************************)
(* What readers are shown.                                                 *)
(***************************************************************************)
(* No row is ever taken away.                                              *)
LEMMA RowsStay == [Next]_vars => stored \subseteq stored'
  BY DEF Next, vars, Take, Release, Resolve, CreateSnapshot, Lose

LEMMA ShownStep ==
  ASSUME IInv, IInv', [Next]_vars, NEW m \in Models \ Unstamped, NEW v \in Versions,
         Of(m, v) # {}
  PROVE  NewestOf(Of(m, v)').taken >= NewestOf(Of(m, v)).taken
<1> DEFINE old == Of(m, v)
           new == Of(m, v)'
<1>1. old \subseteq new /\ old # {} /\ new # {}
  BY RowsStay DEF Of
<1>2. old \subseteq Row /\ new \subseteq Row
  BY DEF Of, IInv, TypeOK
<1>3. \A r \in old \cup new : r.timestamp = r.taken /\ r.taken \in 1..MaxTime
  <2>1. \A r \in old \cup new : r.timestamp = r.taken
    BY DEF Of, IInv, RowsHold
  <2> QED BY <1>2, <2>1 DEF Row
<1> HIDE DEF old, new
<1>4. NewestOf(old) \in old
  BY <1>1, <1>2, NewestFacts
<1>5. NewestOf(new) \in new /\ \A s \in new : s.timestamp <= NewestOf(new).timestamp
  BY <1>1, <1>2, NewestFacts
<1>6. NewestOf(old).timestamp <= NewestOf(new).timestamp
  BY <1>1, <1>4, <1>5
<1>7. NewestOf(old).taken <= NewestOf(new).taken
  BY <1>3, <1>4, <1>5, <1>6
<1>8. NewestOf(old).taken \in Int /\ NewestOf(new).taken \in Int
  BY <1>3, <1>4, <1>5
<1> QED BY <1>7, <1>8 DEF old, new

(* What a reader is shown of a version never goes back in time, whatever   *)
(* the order of arrival and whatever is lost, as long as the client sends  *)
(* the time of each snapshot (_parse_timestamp, MetricSnapshot.Meta).      *)
THEOREM ShownIsMonotonic == Spec => ShownNeverGoesBack
<1>1. IInv /\ IInv' /\ [Next]_vars =>
        [\A m \in Models \ Unstamped, v \in Versions :
           Of(m, v) # {} => NewestOf(Of(m, v)').taken >= NewestOf(Of(m, v)).taken]_vars
  BY ShownStep
<1> QED BY <1>1, InvariantHolds, PTL DEF Spec, ShownNeverGoesBack

(* A version that is reported stands at one place of the model's rows.     *)
LEMMA ReportedAlone ==
  ASSUME IInv, NEW m \in Models, NEW r \in stored, r.model = m,
         \A s \in stored : s.model = m => s.version = r.version
  PROVE  \E i \in DOMAIN versions[m] :
           /\ {j \in DOMAIN versions[m] : Of(m, versions[m][j]) # {}} = {i}
           /\ Of(m, versions[m][i]) = {s \in stored : s.model = m}
<1>1. PICK i \in DOMAIN versions[m] : versions[m][i] = r.version
  BY DEF IInv, RowsHold
<1>2. Of(m, versions[m][i]) = {s \in stored : s.model = m}
  BY <1>1 DEF Of
<1>3. \A j \in DOMAIN versions[m] : Of(m, versions[m][j]) # {} <=> j = i
  BY <1>1 DEF Of, IInv, TypeOK
<1> QED BY <1>2, <1>3

LEMMA OneVersionStep == IInv => OneVersionShowsLatest
<1> SUFFICES ASSUME IInv, NEW m \in Models,
                    \A r, s \in stored : r.model = m /\ s.model = m => r.version = s.version
             PROVE  Latest(m) = NewestOf({r \in stored : r.model = m})
  BY DEF OneVersionShowsLatest
<1> DEFINE rows     == {r \in stored : r.model = m}
           reported == {i \in DOMAIN versions[m] : Of(m, versions[m][i]) # {}}
<1>1. CASE rows = {}
  <2>1. reported = {}
    BY <1>1 DEF Of
  <2> QED BY <1>1, <2>1 DEF Latest, NewestOf
<1>2. CASE rows # {}
  <2>1. PICK r \in stored : r.model = m
    BY <1>2
  <2>2. PICK i \in DOMAIN versions[m] : reported = {i} /\ Of(m, versions[m][i]) = rows
    BY <2>1, ReportedAlone
  <2>3. i \in Nat
    BY DEF IInv, TypeOK
  <2>4. Min(reported) = i
    BY <2>2, <2>3 DEF Min
  <2>5. Latest(m) = IF reported = {} THEN Nothing ELSE NewestOf(Of(m, versions[m][Min(reported)]))
    BY DEF Latest
  <2> HIDE DEF reported, rows
  <2> QED BY <2>2, <2>4, <2>5 DEF rows
<1> QED BY <1>1, <1>2

(* GET /api/metrics/latest is right as long as one version of a model has  *)
(* reported: what the run latest shows needs two.                          *)
THEOREM LatestOfOneVersion == Spec => []OneVersionShowsLatest
  BY InvariantHolds, OneVersionStep, PTL
===============================================================================
