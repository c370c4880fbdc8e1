----------------------------- MODULE SignalsProofs -----------------------------
(***************************************************************************)
(* Proofs about Signals, for any services and faults, any size of the      *)
(* window and of the history, any batch, retries and settings: first what  *)
(* GET /metrics can answer, then the types, then the invariants.           *)
(***************************************************************************)
EXTENDS Signals, FiniteSetTheorems, NaturalsProofs

(***************************************************************************)
(* GET /metrics                                                            *)
(***************************************************************************)

(* A set without one of its members is smaller.                            *)
LEMMA Smaller ==
  ASSUME NEW s, IsFiniteSet(s), s # {}
  PROVE  LET i == CHOOSE x \in s : TRUE IN
         /\ i \in s /\ IsFiniteSet(s \ {i})
         /\ Cardinality(s) \in Nat /\ Cardinality(s) > 0
         /\ Cardinality(s \ {i}) = Cardinality(s) - 1
<1> DEFINE i == CHOOSE x \in s : TRUE
<1>1. i \in s
  OBVIOUS
<1> HIDE DEF i
<1>2. /\ IsFiniteSet(s \ {i}) /\ Cardinality(s \ {i}) = Cardinality(s) - 1
      /\ Cardinality(s) \in Nat /\ Cardinality(s \ {i}) \in Nat
  BY <1>1, FS_RemoveElement, FS_CardinalityType
<1>3. Cardinality(s) > 0
  BY <1>2
<1> QED BY <1>1, <1>2, <1>3 DEF i

(* The sum of the confidences exists: it is built up for the subsets of S  *)
(* by their size, and the first size where that fails would have a         *)
(* smaller one.                                                            *)
Total(w, S) == MapThenSumSet(LAMBDA i : w[i].confidence, S)

LEMMA SumIsNumber ==
  ASSUME NEW w, NEW S, IsFiniteSet(S), \A i \in S : w[i].confidence \in Nat
  PROVE  Total(w, S) \in Nat
<1> DEFINE Some(s)    == CHOOSE x \in s : TRUE
           Value(g, s) == IF s = {} THEN 0
                          ELSE w[Some(s)].confidence + g[s \ {Some(s)}]
           sum         == CHOOSE g : g = [s \in SUBSET S |-> Value(g, s)]
<1>1. Total(w, S) = sum[S]
  BY DEF Total, MapThenSumSet, MapThenFoldSet
<1>2. \A s \in SUBSET S :
        s # {} => /\ Some(s) \in s /\ Some(s) \in S /\ s \ {Some(s)} \in SUBSET S
                  /\ Cardinality(s \ {Some(s)}) = Cardinality(s) - 1
                  /\ Cardinality(s) > 0
  BY Smaller, FS_Subset
<1>3. \A s \in SUBSET S : /\ Cardinality(s) \in Nat /\ Cardinality(s) <= Cardinality(S)
                          /\ Cardinality(s) = 0 <=> s = {}
  BY FS_Subset, FS_CardinalityType, FS_EmptySet
<1> HIDE DEF Some
<1>4. \A n \in Nat : \E g \in [SUBSET S -> Nat] :
        \A s \in SUBSET S : Cardinality(s) <= n => g[s] = Value(g, s)
  <2> DEFINE Upto(n) == \E g \in [SUBSET S -> Nat] :
               \A s \in SUBSET S : Cardinality(s) <= n => g[s] = Value(g, s)
             bad == {n \in Nat : ~Upto(n)}
  <2>1. SUFFICES ASSUME bad # {} PROVE FALSE
    OBVIOUS
  <2>2. PICK n \in bad : \A m \in bad : n <= m
    <3>1. bad \subseteq Nat
      OBVIOUS
    <3> HIDE DEF bad
    <3> QED BY <2>1, <3>1, LeastNatural
  <2>3. CASE n = 0
    <3> DEFINE g == [s \in SUBSET S |-> 0]
    <3>1. g \in [SUBSET S -> Nat]
      OBVIOUS
    <3>2. \A s \in SUBSET S : Cardinality(s) <= 0 => g[s] = Value(g, s)
      BY <1>3
    <3> HIDE DEF g
    <3>3. Upto(n)
      BY <2>3, <3>1, <3>2
    <3> QED BY <3>3
  <2>4. CASE n # 0
    <3>1. n - 1 \in Nat /\ Upto(n - 1)
      <4>1. n \in Nat /\ n - 1 \in Nat /\ ~(n <= n - 1)
        BY <2>4
      <4> QED BY <2>2, <4>1
    <3>2. PICK g \in [SUBSET S -> Nat] :
            \A s \in SUBSET S : Cardinality(s) <= n - 1 => g[s] = Value(g, s)
      BY <3>1
    <3> DEFINE h == [s \in SUBSET S |-> IF Cardinality(s) <= n - 1 THEN g[s] ELSE Value(g, s)]
    <3>3. h \in [SUBSET S -> Nat]
      BY <1>2, <1>3
    <3>4. ASSUME NEW s \in SUBSET S, Cardinality(s) <= n PROVE h[s] = Value(h, s)
      <4>1. CASE s = {}
        BY <1>3, <3>1, <3>2, <4>1
      <4>2. CASE s # {}
        <5> DEFINE r == s \ {Some(s)}
        <5>1. r \in SUBSET S /\ Cardinality(r) <= n - 1
          BY <1>2, <1>3, <3>4, <4>2
        <5>2. h[r] = g[r]
          BY <5>1
        <5>3. Value(h, s) = Value(g, s)
          BY <4>2, <5>2
        <5>4. h[s] = Value(g, s)
          BY <3>2, <4>2
        <5> QED BY <5>3, <5>4
      <4> QED BY <4>1, <4>2
    <3> HIDE DEF h
    <3>5. Upto(n)
      BY <3>3, <3>4
    <3> QED BY <3>5
  <2> QED BY <2>3, <2>4
<1>5. sum = [s \in SUBSET S |-> Value(sum, s)]
  <2>1. Cardinality(S) \in Nat
    BY FS_CardinalityType
  <2>2. PICK g \in [SUBSET S -> Nat] :
          \A s \in SUBSET S : Cardinality(s) <= Cardinality(S) => g[s] = Value(g, s)
    BY <1>4, <2>1
  <2>3. g = [s \in SUBSET S |-> Value(g, s)]
    BY <1>3, <2>2
  <2> HIDE DEF Value
  <2> QED BY <2>3
<1> HIDE DEF sum
<1>6. \A s \in SUBSET S : sum[s] \in Nat
  <2> DEFINE bad == {n \in Nat : \E s \in SUBSET S : Cardinality(s) = n /\ sum[s] \notin Nat}
  <2>1. SUFFICES ASSUME bad # {} PROVE FALSE
    BY <1>3
  <2>2. PICK n \in bad : \A m \in bad : n <= m
    <3>1. bad \subseteq Nat
      OBVIOUS
    <3> HIDE DEF bad
    <3> QED BY <2>1, <3>1, LeastNatural
  <2>3. PICK s \in SUBSET S : Cardinality(s) = n /\ sum[s] \notin Nat
    BY <2>2
  <2>4. s # {}
    BY <1>5, <2>3
  <2> DEFINE r == s \ {Some(s)}
  <2>5. r \in SUBSET S /\ Cardinality(r) = n - 1 /\ n - 1 \in Nat /\ Some(s) \in S
    BY <1>2, <1>3, <2>3, <2>4
  <2>6. sum[r] \in Nat
    <3>1. n \in Nat /\ ~(n <= n - 1)
      OBVIOUS
    <3>2. n - 1 \notin bad
      BY <2>2, <3>1
    <3> QED BY <2>5, <3>2
  <2>7. sum[s] = w[Some(s)].confidence + sum[r]
    BY <1>5, <2>4
  <2>8. w[Some(s)].confidence \in Nat
    BY <2>5
  <2> HIDE DEF r
  <2> QED BY <2>3, <2>6, <2>7, <2>8
<1> QED BY <1>1, <1>6

(* A latency that most of the others do not exceed is not exceeded by any, *)
(* so the values a percentile is chosen from are never none.               *)
LEMMA RankIsNumber ==
  ASSUME NEW w \in Seq(Sample), NEW S \in SUBSET (DOMAIN w)
  PROVE  NearestRank(w, S, 95) \in Nat
<1> DEFINE latencies == {w[i].latency_ms : i \in S}
           UpTo(v)   == {i \in S : w[i].latency_ms <= v}
           good == {v \in latencies : 100 * Cardinality(UpTo(v)) >= 95 * Cardinality(S)}
<1>0. \A i \in S : w[i].latency_ms \in Nat
  <2>1. \A i \in S : w[i] \in Sample
    OBVIOUS
  <2> QED BY <2>1 DEF Sample
<1>1. SUFFICES ASSUME S # {} PROVE good # {}
  <2>2. good \subseteq Nat
    BY <1>0
  <2>3. ASSUME S # {} PROVE Min(good) \in Nat
    <3>1. good # {}
      BY <1>1, <2>3
    <3> HIDE DEF good
    <3>2. \E x \in good : \A y \in good : x <= y
      BY <2>2, <3>1, LeastNatural
    <3> QED BY <2>2, <3>2 DEF Min
  <2>4. NearestRank(w, S, 95) = IF S = {} THEN 0 ELSE Min(good)
    BY DEF NearestRank
  <2> QED BY <2>3, <2>4
<1>2. /\ IsFiniteSet(S) /\ Cardinality(S) \in Nat
      /\ \A T \in SUBSET S : /\ IsFiniteSet(T) /\ Cardinality(T) \in Nat
                             /\ Cardinality(T) <= Cardinality(S)
  <2>1. IsFiniteSet(DOMAIN w)
    BY FS_Interval
  <2> QED BY <2>1, FS_Subset, FS_CardinalityType
<1> DEFINE counts == {Cardinality(UpTo(v)) : v \in latencies}
<1>3. PICK n \in counts : \A m \in counts : m <= n
  <2>1. counts \subseteq Nat /\ counts # {} /\ \A m \in counts : m <= Cardinality(S)
    BY <1>1, <1>2
  <2> HIDE DEF counts
  <2> QED BY <1>2, <2>1, GreatestNatural
<1>4. PICK v \in latencies : n = Cardinality(UpTo(v))
  OBVIOUS
<1>5. UpTo(v) = S
  <2>1. SUFFICES ASSUME NEW i \in S, ~(w[i].latency_ms <= v) PROVE FALSE
    OBVIOUS
  <2> DEFINE u == w[i].latency_ms
  <2>3. u \in latencies /\ v \in Nat /\ u \in Nat /\ v < u
    BY <1>0, <1>4, <2>1
  <2>4. UpTo(v) \subseteq UpTo(u) /\ i \in UpTo(u) /\ i \notin UpTo(v)
    BY <1>0, <2>1, <2>3
  <2>5. Cardinality(UpTo(v)) < Cardinality(UpTo(u))
    <3>1. UpTo(u) \in SUBSET S /\ UpTo(v) \in SUBSET S
      OBVIOUS
    <3> DEFINE A == UpTo(v)
               B == UpTo(u)
    <3>2. A \in SUBSET B /\ A # B /\ IsFiniteSet(B) /\ Cardinality(A) \in Nat /\ Cardinality(B) \in Nat
      BY <1>2, <2>4, <3>1
    <3> HIDE DEF A, B
    <3>3. Cardinality(A) < Cardinality(B)
      BY <3>2, FS_Subset
    <3> QED BY <3>3 DEF A, B
  <2>6. Cardinality(UpTo(u)) <= n
    BY <1>3, <2>3
  <2>7. Cardinality(UpTo(u)) \in Nat /\ n \in Nat
    BY <1>2, <1>4
  <2> QED BY <1>4, <2>5, <2>6, <2>7
<1>6. 100 * Cardinality(S) >= 95 * Cardinality(S)
  BY <1>2
<1>7. v \in good
  BY <1>4, <1>5, <1>6
<1> QED BY <1>7

(* What GET /metrics answers is an object of three numbers, whatever the   *)
(* window holds.                                                           *)
LEMMA SnapshotType ==
  ASSUME NEW w \in Seq(Sample)
  PROVE  Snapshot(w) \in Metrics
<1> DEFINE ok    == {i \in DOMAIN w : ~w[i].is_error}
           timed == IF ok # {} THEN ok ELSE DOMAIN w
           errors == Len(w) - Cardinality(ok)
           rate  == IF w = <<>> THEN 0 ELSE (1000 * errors) \div Len(w)
           trust == IF ok = {} THEN 0
                    ELSE Total(w, ok) \div Cardinality(ok)
<1>1. /\ IsFiniteSet(ok) /\ Cardinality(ok) \in Nat
      /\ ok # {} => Cardinality(ok) > 0
  <2>1. IsFiniteSet(DOMAIN w)
    BY FS_Interval
  <2>2. ok \in SUBSET (DOMAIN w)
    OBVIOUS
  <2> HIDE DEF ok
  <2>3. IsFiniteSet(ok) /\ Cardinality(ok) \in Nat
    BY <2>1, <2>2, FS_Subset, FS_CardinalityType
  <2>4. ok # {} => Cardinality(ok) # 0
    BY <2>3, FS_EmptySet
  <2> QED BY <2>3, <2>4
<1>2. rate \in Int
  <2>1. w # <<>> => Len(w) \in Nat \ {0}
    OBVIOUS
  <2>2. 1000 * errors \in Int
    BY <1>1
  <2> HIDE DEF errors
  <2> QED BY <2>1, <2>2
<1>3. NearestRank(w, timed, 95) \in Int
  BY RankIsNumber
<1>4. trust \in Int
  <2> DEFINE sum == Total(w, ok)
  <2>1. \A i \in ok : w[i].confidence \in Nat
    <3>1. \A i \in ok : w[i] \in Sample
      OBVIOUS
    <3> QED BY <3>1 DEF Sample
  <2>2. sum \in Nat
    <3> HIDE DEF ok
    <3> QED BY <1>1, <2>1, SumIsNumber
  <2> HIDE DEF sum, ok
  <2>3. ok # {} => sum \div Cardinality(ok) \in Int
    BY <1>1, <2>2
  <2> QED BY <2>3 DEF sum
<1>5. Snapshot(w) = [error_rate |-> rate, p95_latency_ms |-> NearestRank(w, timed, 95),
                     avg_confidence |-> trust]
  BY DEF Snapshot, Total
<1> HIDE DEF rate, trust, timed
<1> QED BY <1>2, <1>3, <1>4, <1>5 DEF Metrics

(***************************************************************************)
(* The helpers                                                             *)
(***************************************************************************)

(* What is in a bounded queue after an append, and where.                  *)
LEMMA PushFacts ==
  ASSUME NEW S, NEW q \in Seq(S), NEW x \in S, NEW n \in Nat \ {0}, Len(q) <= n
  PROVE  /\ Push(q, x, n) \in Seq(S)
         /\ Len(Push(q, x, n)) \in 1..n /\ Len(Push(q, x, n)) <= Len(q) + 1
         /\ Push(q, x, n)[Len(Push(q, x, n))] = x
         /\ \A i \in 1..(Len(Push(q, x, n)) - 1) :
              Push(q, x, n)[i] = q[i + (Len(q) + 1 - Len(Push(q, x, n)))]
<1>1. CASE Len(q) < n
  BY <1>1 DEF Push
<1>2. CASE Len(q) = n
  <2>1. /\ q # <<>> /\ Tail(q) \in Seq(S) /\ Len(Tail(q)) = n - 1
        /\ \A i \in 1..(n - 1) : Tail(q)[i] = q[i + 1]
    BY <1>2
  <2> DEFINE t == Tail(q)
  <2>2. Push(q, x, n) = Append(t, x)
    BY <1>2 DEF Push
  <2> HIDE DEF t
  <2>3. t \in Seq(S) /\ Len(t) = n - 1 /\ \A i \in 1..(n - 1) : t[i] = q[i + 1]
    BY <2>1 DEF t
  <2>4. /\ Append(t, x) \in Seq(S) /\ Len(Append(t, x)) = n /\ Append(t, x)[n] = x
        /\ \A i \in 1..(n - 1) : Append(t, x)[i] = t[i]
    BY <2>3
  <2> QED BY <1>2, <2>2, <2>3, <2>4
<1> QED BY <1>1, <1>2

LEMMA OtherModel ==
  ASSUME NEW m \in Models
  PROVE  Other(m) \in Models /\ Other(m) # m
<1>1. PICK n \in Models : n # m
  <2>1. SUFFICES ASSUME Models = {m} PROVE FALSE
    OBVIOUS
  <2>2. Cardinality(Models) = 1
    BY <2>1, FS_Singleton
  <2> QED BY <2>2, SignalsAssumption
<1> QED BY <1>1 DEF Other

(* Severities are ordered: of some there is a worst.                       *)
LEMMA WorstSeverity ==
  ASSUME NEW found, found \subseteq Severity, found # {}
  PROVE  LET worst == CHOOSE s \in found : \A u \in found : SEVERITY_RANK[u] <= SEVERITY_RANK[s]
         IN  worst \in found /\ \A u \in found : SEVERITY_RANK[u] <= SEVERITY_RANK[worst]
<1>0. SEVERITY_RANK["LOW"] = 1 /\ SEVERITY_RANK["MEDIUM"] = 2 /\ SEVERITY_RANK["HIGH"] = 3
  BY DEF SEVERITY_RANK
<1>1. \E s \in found : \A u \in found : SEVERITY_RANK[u] <= SEVERITY_RANK[s]
  <2>1. CASE "HIGH" \in found
    BY <1>0, <2>1 DEF Severity
  <2>2. CASE "HIGH" \notin found /\ "MEDIUM" \in found
    BY <1>0, <2>2 DEF Severity
  <2>3. CASE "HIGH" \notin found /\ "MEDIUM" \notin found
    <3>1. found = {"LOW"}
      BY <2>3 DEF Severity
    <3> QED BY <1>0, <3>1
  <2> QED BY <2>1, <2>2, <2>3
<1> DEFINE worst == CHOOSE s \in found : \A u \in found : SEVERITY_RANK[u] <= SEVERITY_RANK[s]
<1>2. worst \in found /\ \A u \in found : SEVERITY_RANK[u] <= SEVERITY_RANK[worst]
  BY <1>1
<1> QED BY <1>2

LEMMA Bands == \A d : ClassifyDetection(d) \in Severity
  BY DEF ClassifyDetection, ClassifyThreshold, ClassifyDrift, BandAscending, Severity

LEMMA ClassifyType == ASSUME NEW ds PROVE Classify(ds) \in Severity
<1> DEFINE found == {ClassifyDetection(d) : d \in Breaching(ds)}
<1>1. found \subseteq Severity
  BY Bands
<1>2. CASE found = {}
  BY <1>2 DEF Classify, Severity
<1>3. CASE found # {}
  <2> DEFINE worst == CHOOSE s \in found : \A u \in found : SEVERITY_RANK[u] <= SEVERITY_RANK[s]
  <2>1. Classify(ds) = worst
    BY <1>3 DEF Classify
  <2> HIDE DEF found
  <2>2. worst \in found
    BY <1>1, <1>3, WorstSeverity
  <2> QED BY <1>1, <2>1, <2>2
<1> QED BY <1>2, <1>3

(***************************************************************************)
(* The types                                                               *)
(***************************************************************************)

(* While a switch is verified, there is a model to go back to.             *)
Typed == TypeOK /\ (pc \in {"verify", "confirm"} => previous \in Models)

LEMMA InitTyped == Init => Typed
<1> SUFFICES ASSUME Init PROVE Typed
  OBVIOUS
<1>1. <<>> \in Seq(Sample) /\ <<>> \in Seq(Int)
  OBVIOUS
<1>2. /\ status \in [Models -> Status]
      /\ window \in [Models -> Seq(Sample)] /\ \A m \in Models : Len(window[m]) <= WindowSize
      /\ hist \in [Tracked -> Seq(Int)] /\ \A k \in Tracked : Len(hist[k]) <= W
      /\ consec \in [Tracked -> 0..NSustain]
  BY <1>1, ServiceAssumption, DetectorAssumption
  DEF Init, ServiceInit, DetectorInit, Status
<1>3. /\ active \in Models /\ previous = NoModel /\ previous # active /\ pc = "predict"
      /\ health \in [reachable : BOOLEAN, health_status : HealthStatus] /\ severity \in Severity
  BY SignalsAssumption DEF Init, Healthy, HealthStatus, Severity
<1>4. /\ failures \in Nat /\ sent \in 0..Batch /\ failed \in 0..sent /\ attempt \in Nat
      /\ steady \in 0..(W + 1)
  BY SignalsAssumption, DetectorAssumption DEF Init
<1>5. ready \in BOOLEAN /\ anomalous \in BOOLEAN /\ missed \in BOOLEAN /\ condemned \subseteq Models
  BY DEF Init
<1> QED BY <1>2, <1>3, <1>4, <1>5 DEF Typed, TypeOK

(* What a request records is a sample, or nothing.                         *)
LEMMA OutcomeType ==
  ASSUME Typed, NEW m \in Models, NEW outcome \in Outcomes(m)
  PROVE  outcome.sample \in Sample \cup {NoSample}
<1>1. Usual \cup Faulty[m] \subseteq [answered : BOOLEAN, sample : Sample]
  BY ServiceAssumption
<1>2. Refused.sample \in Sample
  BY DEF Refused, Errored, Sample
<1>3. status[m] \in Status
  BY DEF Typed, TypeOK
<1>4. CASE status[m] = "down"
  <2>1. outcome = Unreachable
    BY <1>4, Zenon DEF Outcomes
  <2> QED BY <2>1 DEF Unreachable
<1>5. CASE status[m] = "unloaded"
  BY <1>2, <1>5 DEF Outcomes
<1>6. CASE status[m] = "sound"
  BY <1>1, <1>6 DEF Outcomes
<1>7. CASE status[m] = "faulty"
  BY <1>1, <1>7 DEF Outcomes
<1> QED BY <1>3, <1>4, <1>5, <1>6, <1>7 DEF Status

(* The window of a service holds samples, at most WindowSize of them.      *)
LEMMA ServiceTypes ==
  ASSUME Typed, PredictRow \/ ServiceMoves
  PROVE  /\ status' \in [Models -> Status]
         /\ window' \in [Models -> Seq(Sample)]
         /\ \A m \in Models : Len(window'[m]) <= WindowSize
<1> USE DEF Typed, TypeOK
<1>1. CASE PredictRow
  <2>1. PICK outcome \in Outcomes(active) : Predict(active, outcome)
    BY <1>1 DEF PredictRow
  <2> DEFINE pushed == Push(window[active], outcome.sample, WindowSize)
  <2>2. outcome.sample # NoSample => pushed \in Seq(Sample) /\ Len(pushed) <= WindowSize
    <3>1. outcome.sample # NoSample => outcome.sample \in Sample
      BY OutcomeType
    <3> QED BY <3>1, ServiceAssumption, PushFacts
  <2>3. \/ UNCHANGED window
        \/ outcome.sample # NoSample /\ window' = [window EXCEPT ![active] = pushed]
    BY <2>1 DEF Predict, Record
  <2> HIDE DEF pushed
  <2> QED BY <2>1, <2>2, <2>3 DEF Predict
<1>2. CASE ServiceMoves
  <2>1. PICK m \in Models : FaultMoves(m) \/ Stop(m) \/ Restart(m)
    BY <1>2 DEF ServiceMoves
  <2>2. CASE FaultMoves(m)
    BY <2>2 DEF FaultMoves, Status
  <2>3. CASE Stop(m)
    <3>1. <<>> \in Seq(Sample) /\ Len(<<>>) <= WindowSize
      BY ServiceAssumption
    <3> QED BY <2>3, <3>1 DEF Stop, Status
  <2>4. CASE Restart(m)
    BY <2>4 DEF Restart, Status
  <2> QED BY <2>1, <2>2, <2>3, <2>4
<1> QED BY <1>1, <1>2

LEMMA HealthType ==
  ASSUME NEW m
  PROVE  HealthOf(m) \in [reachable : BOOLEAN, health_status : HealthStatus]
  BY DEF HealthOf, HealthStatus

(* What /metrics answers is none, or three numbers.                        *)
LEMMA MetricsType ==
  ASSUME Typed, NEW m \in Models
  PROVE  /\ Loaded(m) => MetricsOf(m) = Snapshot(window[m]) /\ MetricsOf(m) \in Metrics
         /\ MetricsOf(m) # NoMetrics =>
              MetricsOf(m) \in Metrics /\ \A k \in Tracked : MetricsOf(m)[k] \in Int
<1>1. Snapshot(window[m]) \in Metrics
  BY SnapshotType DEF Typed, TypeOK
<1>2. \A x \in Metrics : \A k \in Tracked : x[k] \in Int
  BY SignalsAssumption DEF Metrics
<1> QED BY <1>1, <1>2 DEF MetricsOf

(* OBSERVE: the history and the counters keep within their bounds.         *)
LEMMA ObserveTypes ==
  ASSUME Typed, Observe
  PROVE  Typed'
<1> USE DEF Typed, TypeOK
<1> DEFINE metrics == MetricsOf(active)
<1>1. /\ UNCHANGED <<status, window, active, previous, sent, failed, health, attempt, missed,
                     condemned>>
      /\ pc = "observe" /\ pc' = "act"
  BY DEF Observe, serviceVars
<1>2. failures' \in Nat
  <2>1. failures' = IF Failing(health) THEN Saturated(failures + 1) ELSE 0
    BY DEF Observe
  <2> QED BY <2>1 DEF Saturated
<1>3. ready' \in BOOLEAN
  <2>1. ready' = (HealthOf(Other(active)) = Healthy)
    BY DEF Observe
  <2> QED BY <2>1, Zenon
<1>4. severity' \in Severity /\ anomalous' \in BOOLEAN
  <2>1. (\E ds : severity' = Classify(ds)) /\ (anomalous' = FALSE \/ \E b : anomalous' = (b # {}))
    BY Zenon DEF Observe
  <2> QED BY <2>1, ClassifyType
<1>5. /\ hist' \in [Tracked -> Seq(Int)] /\ \A k \in Tracked : Len(hist'[k]) <= W
      /\ consec' \in [Tracked -> 0..NSustain] /\ steady' \in 0..(W + 1)
  <2>1. CASE metrics = NoMetrics
    BY <2>1 DEF Observe, detectorVars
  <2>2. CASE metrics # NoMetrics
    <3>1. \A k \in Tracked : metrics[k] \in Int
      BY <2>2, MetricsType
    <3> HIDE DEF metrics
    <3>2. PICK breached \in SUBSET Tracked : Evaluate(metrics, breached)
      BY <2>2 DEF Observe, metrics
    <3>3. /\ hist' = [k \in Tracked |-> Push(hist[k], metrics[k], W)]
          /\ CountBreaches(breached)
      BY <3>2 DEF Evaluate
    <3>4. ASSUME NEW k \in Tracked
          PROVE  Push(hist[k], metrics[k], W) \in Seq(Int) /\ Len(Push(hist[k], metrics[k], W)) <= W
      BY <3>1, DetectorAssumption, PushFacts
    <3>5. consec' \in [Tracked -> 0..NSustain]
      BY <3>3, DetectorAssumption DEF CountBreaches
    <3>6. steady' \in 0..(W + 1)
      <4>1. \/ steady' = 1
            \/ steady' = IF steady > W THEN steady ELSE steady + 1
        BY <2>2 DEF Observe, metrics
      <4> QED BY <4>1, DetectorAssumption
    <3> QED BY <3>3, <3>4, <3>5, <3>6
  <2> QED BY <2>1, <2>2
<1> QED BY <1>1, <1>2, <1>3, <1>4, <1>5

(* The locals of run_tick start afresh.                                    *)
LEMMA NextTickTypes ==
  ASSUME Typed, NextTick, active' \in Models, condemned' \subseteq Models,
         UNCHANGED <<serviceVars, detectorVars, failures, steady>>
  PROVE  Typed'
<1>1. Healthy \in [reachable : BOOLEAN, health_status : HealthStatus] /\ "LOW" \in Severity
  BY DEF Healthy, HealthStatus, Severity
<1>2. /\ UNCHANGED <<status, window, hist, consec, failures, steady>>
      /\ pc' = "predict" /\ previous' = NoModel /\ previous' # active'
      /\ sent' = 0 /\ failed' = 0 /\ attempt' = 0
      /\ ready' = FALSE /\ anomalous' = FALSE /\ missed' = FALSE
  BY SignalsAssumption DEF NextTick, serviceVars, detectorVars
<1>3. sent' \in 0..Batch /\ failed' \in 0..sent' /\ attempt' \in Nat
  BY <1>2, SignalsAssumption
<1>4. health' \in [reachable : BOOLEAN, health_status : HealthStatus] /\ severity' \in Severity
  BY <1>1 DEF NextTick
<1> QED BY <1>2, <1>3, <1>4 DEF Typed, TypeOK

LEMMA NextTyped ==
  ASSUME Typed, [Next]_vars
  PROVE  Typed'
<1>1. CASE PredictRow
  <2>1. PICK outcome : failed' = Count(outcome) /\ missed' = (missed \/ ~outcome.answered)
    BY <1>1 DEF PredictRow
  <2>2. missed' \in BOOLEAN
    BY <2>1
  <2>3. sent' \in 0..Batch /\ failed' \in 0..sent'
    BY <1>1, <2>1, SignalsAssumption DEF PredictRow, Count, Typed, TypeOK
  <2> QED BY <1>1, <2>2, <2>3, ServiceTypes DEF PredictRow, detectorVars, Typed, TypeOK
<1>2. CASE ReadHealth
  BY <1>2, HealthType
  DEF ReadHealth, serviceVars, detectorVars, historyVars, Typed, TypeOK
<1>3. CASE Observe
  BY <1>3, ObserveTypes
<1>4. CASE Keep
  BY <1>4, NextTickTypes DEF Keep, Typed, TypeOK
<1>5. CASE Switch
  BY <1>5, OtherModel
  DEF Switch, serviceVars, detectorVars, historyVars, Typed, TypeOK
<1>6. CASE Confirm
  <2>1. CASE Confirmed
    <3>1. previous \in Models
      BY <1>6 DEF Confirm, Typed
    <3>2. condemned' \subseteq Models
      BY <2>1, <3>1 DEF Confirmed, Typed, TypeOK
    <3> QED BY <1>6, <2>1, <3>2, NextTickTypes DEF Confirm, Confirmed, Typed, TypeOK
  <2>2. CASE ProbeAgain
    BY <1>6, <2>2 DEF Confirm, ProbeAgain, serviceVars, detectorVars, Typed, TypeOK
  <2>3. CASE RollBack
    BY <1>6, <2>3, NextTickTypes DEF Confirm, RollBack, Typed, TypeOK
  <2> QED BY <1>6, <2>1, <2>2, <2>3 DEF Confirm
<1>7. CASE ServiceMoves
  <2>1. condemned' \subseteq Models
    BY <1>7 DEF ServiceMoves, Typed, TypeOK
  <2> QED BY <1>7, <2>1, ServiceTypes DEF ServiceMoves, tickVars, detectorVars, Typed, TypeOK
<1>8. CASE UNCHANGED vars
  BY <1>8 DEF vars, serviceVars, detectorVars, tickVars, historyVars, Typed, TypeOK
<1> QED BY <1>1, <1>2, <1>3, <1>4, <1>5, <1>6, <1>7, <1>8 DEF Next, Tick

LEMMA AlwaysTyped == Spec => []Typed
  BY InitTyped, NextTyped, PTL DEF Spec

(* The windows and the histories keep within their bounds and hold what    *)
(* they should, /metrics always answers numbers, and the batch of a tick   *)
(* counts no more failures than rows.                                      *)
THEOREM SignalsTyped == Spec => []TypeOK
<1>1. Typed => TypeOK
  BY DEF Typed
<1> QED BY <1>1, AlwaysTyped, PTL

(***************************************************************************)
(* IdleWindowIsFinal                                                       *)
(***************************************************************************)

(* A model that was condemned is as it was: its window breaches, and a     *)
(* process that came up without its artifact has not found it since.       *)
StaysCondemned ==
  /\ \A m \in Models : status[m] = "down" => window[m] = <<>>
  /\ \A m \in condemned : Breaches(m)
  /\ pc = "confirm" /\ active \in condemned /\ status[active] = "unloaded"
       => health.health_status = "unhealthy"

(* While a switch is verified, the model it came from served until then.   *)
CameFromServing ==
  pc \in {"verify", "confirm"} => previous \in Models \ (condemned \cup {active})

WindowHolds == StaysCondemned /\ CameFromServing /\ IdleWindowIsFinal

(* VERIFY does not accept a breaching window of a service with its         *)
(* artifact, nor a service without.                                        *)
LEMMA CondemnedIsRefused ==
  ASSUME Typed, WindowHolds, pc = "confirm", active \in condemned
  PROVE  ~Recovered(ProbeWith(health, active))
<1> USE DEF WindowHolds, StaysCondemned
<1>1. Breaches(active) /\ status[active] # "down" /\ status[active] \in Status
  BY DEF Breaches, Typed, TypeOK
<1>2. CASE status[active] = "unloaded"
  BY <1>2 DEF Recovered, ProbeWith
<1>3. CASE Loaded(active)
  <2> DEFINE seen == Snapshot(window[active])
  <2>1. /\ ProbeWith(health, active).served
        /\ ProbeWith(health, active).metrics = seen
    BY <1>1, <1>3 DEF ProbeWith, MetricsOf, Breaches
  <2>2. seen # NoMetrics
    BY <1>3, MetricsType, AbsenceAssumption DEF Typed, TypeOK
  <2>3. HasTraffic(ProbeWith(health, active))
    BY <2>1, <2>2 DEF HasTraffic
  <2> QED BY <1>1, <2>1, <2>3 DEF Recovered, Breaches
<1> QED BY <1>1, <1>2, <1>3 DEF Loaded, Status

LEMMA InitWindowHolds == Init => WindowHolds
  BY SignalsAssumption
  DEF Init, ServiceInit, WindowHolds, StaysCondemned, CameFromServing,
      IdleWindowIsFinal

(* A step that leaves the windows, the condemned and the traffic alone.    *)
LEMMA QuietStep ==
  ASSUME Typed, WindowHolds,
         UNCHANGED <<status, window, active, previous, condemned>>,
         pc' \in {"verify", "confirm"} => pc \in {"verify", "confirm"},
         active \in condemned => pc' \in {"verify", "confirm"},
         pc' = "confirm" => HealthOf(active) = health' \/ (pc = "confirm" /\ UNCHANGED health)
  PROVE  WindowHolds'
<1> USE DEF WindowHolds
<1>1. CameFromServing' /\ IdleWindowIsFinal'
  BY DEF CameFromServing, IdleWindowIsFinal
<1>2. \A m \in Models : Breaches(m)' = Breaches(m)
  BY DEF Breaches
<1>3. pc' = "confirm" /\ active \in condemned /\ status[active] = "unloaded"
        => health'.health_status = "unhealthy"
  BY DEF StaysCondemned, HealthOf, Loaded
<1>4. StaysCondemned'
  BY <1>2, <1>3 DEF StaysCondemned, Typed, TypeOK
<1> QED BY <1>1, <1>4

(* A request goes to the model that serves, which is not condemned.        *)
LEMMA PredictRowStep ==
  ASSUME Typed, WindowHolds, PredictRow
  PROVE  WindowHolds'
<1> USE DEF WindowHolds
<1>1. PICK outcome \in Outcomes(active) : Predict(active, outcome)
  BY DEF PredictRow
<1>2. /\ UNCHANGED <<pc, active, previous, health, status, condemned>>
      /\ pc = "predict" /\ active \notin condemned
  BY <1>1 DEF PredictRow, Predict, IdleWindowIsFinal
<1>3. \A m \in Models \ {active} : window'[m] = window[m]
  BY <1>1 DEF Predict, Record, Typed, TypeOK
<1>4. status[active] = "down" => window'[active] = window[active]
  BY <1>1 DEF Predict, Record, Outcomes, Unreachable
<1>5. \A m \in condemned : Breaches(m)'
  BY <1>2, <1>3 DEF StaysCondemned, Breaches, Typed, TypeOK
<1>6. StaysCondemned'
  BY <1>2, <1>3, <1>4, <1>5 DEF StaysCondemned
<1> QED BY <1>2, <1>3, <1>6 DEF CameFromServing, IdleWindowIsFinal

(* A service that stops loses its window, and is no longer condemned.      *)
LEMMA ServiceStep ==
  ASSUME Typed, WindowHolds, ServiceMoves
  PROVE  WindowHolds'
<1> USE DEF WindowHolds
<1>1. PICK m \in Models :
        \/ FaultMoves(m) /\ UNCHANGED condemned
        \/ Stop(m) /\ condemned' = condemned \ {m}
        \/ Restart(m) /\ UNCHANGED condemned
  BY DEF ServiceMoves
<1>2. UNCHANGED <<pc, active, previous, health>>
  BY DEF ServiceMoves, tickVars
<1>3. /\ condemned' \subseteq condemned
      /\ \A n \in condemned' : window'[n] = window[n]
      /\ \A n \in condemned' : status'[n] = "unloaded" => status[n] = "unloaded"
      /\ \A n \in Models : status'[n] = "down" => window'[n] = <<>>
  <2>1. CASE FaultMoves(m) /\ UNCHANGED condemned
    BY <2>1 DEF FaultMoves, Loaded, Typed, TypeOK, StaysCondemned, Status
  <2>2. CASE Stop(m) /\ condemned' = condemned \ {m}
    BY <2>2 DEF Stop, Typed, TypeOK, StaysCondemned, Status
  <2>3. CASE Restart(m) /\ UNCHANGED condemned
    <3>1. m \notin condemned
      BY <2>3 DEF Restart, StaysCondemned, Breaches
    <3> QED BY <2>3, <3>1 DEF Restart, Typed, TypeOK, StaysCondemned, Status
  <2> QED BY <1>1, <2>1, <2>2, <2>3
<1>4. \A n \in condemned' : Breaches(n)'
  BY <1>3 DEF StaysCondemned, Breaches
<1>5. StaysCondemned'
  BY <1>2, <1>3, <1>4 DEF StaysCondemned
<1> QED BY <1>2, <1>3, <1>5 DEF CameFromServing, IdleWindowIsFinal

(* Traffic moves away from a model that is not condemned.                  *)
LEMMA SwitchStep ==
  ASSUME Typed, WindowHolds, Switch
  PROVE  WindowHolds'
<1> USE DEF WindowHolds
<1>1. /\ pc = "act" /\ pc' = "verify" /\ previous' = active /\ active' = Other(active)
      /\ UNCHANGED <<status, window, condemned>>
  BY DEF Switch, serviceVars, historyVars
<1>2. active \notin condemned
  BY <1>1 DEF IdleWindowIsFinal
<1>3. active \in Models /\ active' # active
  BY <1>1, OtherModel DEF Typed, TypeOK
<1>4. CameFromServing' /\ IdleWindowIsFinal'
  BY <1>1, <1>2, <1>3 DEF CameFromServing, IdleWindowIsFinal
<1>5. StaysCondemned'
  BY <1>1 DEF StaysCondemned, Breaches
<1> QED BY <1>4, <1>5

(* What is confirmed is not condemned; what is rolled back to served until *)
(* the switch.  Only the model that lost its traffic may be condemned now. *)
LEMMA ConfirmStep ==
  ASSUME Typed, WindowHolds, Confirm
  PROVE  WindowHolds'
<1> USE DEF WindowHolds
<1>1. /\ pc = "confirm" /\ UNCHANGED <<status, window>>
      /\ previous \in Models \ (condemned \cup {active})
  BY DEF Confirm, serviceVars, CameFromServing
<1>2. CASE Confirmed
  <2>1. active \notin condemned
    BY <1>1, <1>2, CondemnedIsRefused
    DEF Confirm, Confirmed, ProbeAgain, RollBack, NextTick
  <2>2. /\ pc' = "predict" /\ active' = active /\ previous' = NoModel
        /\ condemned' = condemned \cup {m \in {previous} : Breaches(m)}
    BY <1>2 DEF Confirmed, NextTick
  <2>3. \A m \in condemned' : Breaches(m)'
    BY <1>1, <2>2 DEF StaysCondemned, Breaches
  <2>4. StaysCondemned'
    BY <1>1, <2>2, <2>3 DEF StaysCondemned
  <2>5. active' \notin condemned'
    BY <1>1, <2>1, <2>2
  <2> QED BY <1>1, <2>2, <2>4, <2>5 DEF CameFromServing, IdleWindowIsFinal
<1>3. CASE ProbeAgain
  BY <1>1, <1>3, QuietStep DEF ProbeAgain
<1>4. CASE RollBack
  <2>1. /\ pc' = "predict" /\ active' = previous /\ previous' = NoModel
        /\ UNCHANGED condemned
    BY <1>4 DEF RollBack, NextTick
  <2>2. StaysCondemned'
    BY <1>1, <2>1 DEF StaysCondemned, Breaches
  <2> QED BY <1>1, <2>1, <2>2 DEF CameFromServing, IdleWindowIsFinal
<1> QED BY <1>2, <1>3, <1>4 DEF Confirm

LEMMA NextWindowHolds ==
  ASSUME Typed, WindowHolds, [Next]_vars
  PROVE  WindowHolds'
<1>1. CASE PredictRow
  BY <1>1, PredictRowStep
<1>2. CASE ReadHealth
  BY <1>2, QuietStep DEF ReadHealth, serviceVars, historyVars, WindowHolds, IdleWindowIsFinal
<1>3. CASE Observe
  BY <1>3, QuietStep DEF Observe, serviceVars, WindowHolds, IdleWindowIsFinal
<1>4. CASE Keep
  <2>1. /\ pc = "act" /\ pc' = "predict" /\ previous' = NoModel
        /\ UNCHANGED <<status, window, active, condemned>>
    BY <1>4 DEF Keep, NextTick, serviceVars
  <2>2. StaysCondemned'
    BY <2>1 DEF WindowHolds, StaysCondemned, Breaches
  <2> QED BY <2>1, <2>2 DEF WindowHolds, Typed, TypeOK, CameFromServing, IdleWindowIsFinal
<1>5. CASE Switch
  BY <1>5, SwitchStep
<1>6. CASE Confirm
  BY <1>6, ConfirmStep
<1>7. CASE ServiceMoves
  BY <1>7, ServiceStep
<1>8. CASE UNCHANGED vars
  BY <1>8, QuietStep
  DEF vars, serviceVars, tickVars, historyVars, WindowHolds, IdleWindowIsFinal
<1> QED BY <1>1, <1>2, <1>3, <1>4, <1>5, <1>6, <1>7, <1>8 DEF Next, Tick

(* A model that lost its traffic with a breaching window is not accepted   *)
(* again before its process is restarted (metrics.py, health_check.py).    *)
THEOREM CondemnedStayOut == Spec => []IdleWindowIsFinal
<1>1. Init => WindowHolds
  BY InitWindowHolds
<1>2. Typed /\ WindowHolds /\ [Next]_vars => WindowHolds'
  BY NextWindowHolds
<1>3. WindowHolds => IdleWindowIsFinal
  BY DEF WindowHolds
<1> QED BY <1>1, <1>2, <1>3, AlwaysTyped, PTL DEF Spec

(***************************************************************************)
(* SteadyIsNormal                                                          *)
(***************************************************************************)
(* Of every metric the last `steady` values are the same.                  *)
SteadyTail ==
  \A k \in Tracked : \A i \in 1..Len(hist[k]) :
    i > Len(hist[k]) - steady => hist[k][i] = hist[k][Len(hist[k])]

HistoryHolds == SteadyTail /\ SteadyIsNormal

LEMMA InitHistoryHolds == Init => HistoryHolds
  BY SignalsAssumption, DetectorAssumption
  DEF Init, ServiceInit, DetectorInit, HistoryHolds, Typed, TypeOK, Status, SteadyTail,
      SteadyIsNormal

(* A step that does not touch the detector.                                *)
LEMMA DetectorIdle ==
  ASSUME HistoryHolds, UNCHANGED <<hist, steady>>, anomalous' => anomalous
  PROVE  HistoryHolds'
  BY DEF HistoryHolds, SteadyTail, SteadyIsNormal

(* One evaluation: the history is pushed and the tail grows or restarts.   *)
LEMMA EvaluateStep ==
  ASSUME Typed, HistoryHolds, Observe
  PROVE  HistoryHolds'
<1> USE DEF HistoryHolds
<1> DEFINE metrics == MetricsOf(active)
           same == \A k \in Tracked : /\ hist[k] # <<>>
                                      /\ hist[k][Len(hist[k])] = metrics[k]
<1>1. UNCHANGED <<active, status, window>>
  BY DEF Observe, serviceVars
<1>2. CASE metrics = NoMetrics
  BY <1>1, <1>2 DEF Observe, detectorVars, Typed, TypeOK, SteadyTail, SteadyIsNormal
<1>3. CASE metrics # NoMetrics
  <2>1. active \in Models
    BY DEF Typed, TypeOK
  <2>2. \A k \in Tracked : metrics[k] \in Int
    BY <1>3, <2>1, MetricsType
  <2>3. PICK breached \in SUBSET Tracked :
          /\ Evaluate(metrics, breached) /\ anomalous' = (breached # {})
          /\ steady' = IF same THEN IF steady > W THEN steady ELSE steady + 1 ELSE 1
    BY <1>3 DEF Observe
  <2> HIDE DEF metrics
  <2>4. /\ hist' = [k \in Tracked |-> Push(hist[k], metrics[k], W)]
        /\ \A k \in breached : MayBreach(hist[k])
    BY <2>3 DEF Evaluate
  <2>5. W \in Nat \ {0}
    BY DetectorAssumption
  <2>6. ASSUME NEW k \in Tracked, NEW i \in 1..Len(hist'[k]),
               i > Len(hist'[k]) - steady'
        PROVE  hist'[k][i] = hist'[k][Len(hist'[k])]
    <3> DEFINE q == hist[k]
               r == hist'[k]
    <3>1. /\ q \in Seq(Int) /\ Len(q) <= W /\ Len(q) \in Nat
          /\ r = Push(q, metrics[k], W) /\ metrics[k] \in Int
      BY <2>2, <2>4 DEF Typed, TypeOK
    <3> HIDE DEF q, r
    <3>2. /\ Len(r) \in 1..W /\ Len(r) <= Len(q) + 1 /\ r[Len(r)] = metrics[k]
          /\ \A j \in 1..(Len(r) - 1) : r[j] = q[j + (Len(q) + 1 - Len(r))]
      <4> DEFINE p == Push(q, metrics[k], W)
                 Value == Int
      <4>1. q \in Seq(Value) /\ metrics[k] \in Value /\ Len(q) <= W
        BY <3>1
      <4> HIDE DEF Value
      <4>2. /\ Len(p) \in 1..W /\ Len(p) <= Len(q) + 1 /\ p[Len(p)] = metrics[k]
            /\ \A j \in 1..(Len(p) - 1) : p[j] = q[j + (Len(q) + 1 - Len(p))]
        BY <2>5, <4>1, PushFacts
      <4>3. r = p
        BY <3>1
      <4> HIDE DEF p
      <4> QED BY <4>2, <4>3
    <3>3. \A j \in 1..Len(q) : j > Len(q) - steady => q[j] = q[Len(q)]
      BY DEF SteadyTail, q
    <3>4. CASE i = Len(r)
      BY <3>4 DEF r
    <3>5. CASE i < Len(r) /\ same
      <4>1. q[Len(q)] = metrics[k]
        BY <3>5 DEF q
      <4>2. i \in 1..(Len(r) - 1) /\ i > Len(r) - steady'
        BY <2>6, <3>2, <3>5 DEF r
      <4>3. i + (Len(q) + 1 - Len(r)) \in 1..Len(q)
        BY <3>1, <3>2, <4>2
      <4>4. i + (Len(q) + 1 - Len(r)) > Len(q) - steady
        <5>1. steady \in 0..(W + 1)
          BY DEF Typed, TypeOK
        <5>2. steady' = IF steady > W THEN steady ELSE steady + 1
          BY <2>3, <3>5
        <5> QED BY <2>5, <3>1, <3>2, <4>2, <5>1, <5>2
      <4> QED BY <3>2, <3>3, <4>1, <4>2, <4>3, <4>4 DEF r
    <3>6. CASE i < Len(r) /\ ~same
      <4>1. steady' = 1
        BY <2>3, <3>6
      <4> QED BY <2>6, <3>2, <3>6, <4>1 DEF r
    <3> QED BY <2>6, <3>2, <3>4, <3>5, <3>6 DEF r
  <2>7. SteadyIsNormal'
    <3>1. SUFFICES ASSUME steady' > W PROVE breached = {}
      BY <2>3 DEF SteadyIsNormal
    <3>2. steady >= W
      BY <2>3, <2>5, <3>1 DEF Typed, TypeOK
    <3>3. \A k \in Tracked : Flat(hist[k])
      <4>1. SUFFICES ASSUME NEW k \in Tracked, NEW i \in 1..Len(hist[k])
                     PROVE  hist[k][i] = hist[k][1]
        BY DEF Flat, Typed, TypeOK
      <4>2. /\ Len(hist[k]) \in Nat /\ Len(hist[k]) <= W /\ steady \in Nat
        BY <2>5 DEF Typed, TypeOK
      <4>3. hist[k][i] = hist[k][Len(hist[k])] /\ hist[k][1] = hist[k][Len(hist[k])]
        BY <2>5, <3>2, <4>2 DEF SteadyTail
      <4> QED BY <4>3
    <3> QED BY <2>4, <3>3 DEF MayBreach
  <2> QED BY <2>6, <2>7 DEF SteadyTail
<1> QED BY <1>2, <1>3

LEMMA NextHistoryHolds ==
  ASSUME Typed, HistoryHolds, [Next]_vars
  PROVE  HistoryHolds'
<1> USE DEF HistoryHolds
<1>1. CASE PredictRow
  BY <1>1, DetectorIdle DEF PredictRow, detectorVars
<1>2. CASE ReadHealth
  BY <1>2, DetectorIdle DEF ReadHealth, serviceVars, detectorVars, historyVars
<1>3. CASE Observe
  BY <1>3, EvaluateStep
<1>4. CASE Keep
  BY <1>4, DetectorIdle DEF Keep, NextTick, serviceVars, detectorVars
<1>5. CASE Switch
  BY <1>5, DetectorIdle DEF Switch, serviceVars, detectorVars, historyVars
<1>6. CASE Confirm
  BY <1>6, DetectorIdle
  DEF Confirm, Confirmed, ProbeAgain, RollBack, NextTick, serviceVars, detectorVars
<1>7. CASE ServiceMoves
  BY <1>7, DetectorIdle DEF ServiceMoves, tickVars, detectorVars
<1>8. CASE UNCHANGED vars
  BY <1>8, DetectorIdle DEF vars, serviceVars, detectorVars, tickVars, historyVars
<1> QED
  BY <1>1, <1>2, <1>3, <1>4, <1>5, <1>6, <1>7, <1>8 DEF Next, Tick

(* Values that stay as they are for a whole history are no anomaly,        *)
(* whichever model and whichever fault the history began with (evaluate).  *)
THEOREM SteadyIsNeverAnomalous == Spec => []SteadyIsNormal
<1>1. Init => HistoryHolds
  BY InitHistoryHolds
<1>2. Typed /\ HistoryHolds /\ [Next]_vars => HistoryHolds'
  BY NextHistoryHolds
<1>3. HistoryHolds => SteadyIsNormal
  BY DEF HistoryHolds
<1> QED BY <1>1, <1>2, <1>3, AlwaysTyped, PTL DEF Spec

(***************************************************************************)
(* FailuresAreNotLow                                                       *)
(***************************************************************************)

(* Rates are compared in permille: one row of a batch of this size or less *)
(* is more than the 3 percent where MEDIUM begins.                         *)
SmallBatch == Batch <= 32

Counted ==
  /\ missed => failed > 0
  /\ pc = "act" /\ missed => severity # "LOW"

LEMMA OneRowIsNoticed ==
  ASSUME SmallBatch, failed \in Nat, failed > 0
  PROVE  InferenceFailureRate \in Int /\ InferenceFailureRate > 30
<1> DEFINE a == 1000 * failed
<1>1. Batch \in Nat /\ Batch > 0 /\ Batch <= 32
  BY SignalsAssumption DEF SmallBatch
<1>2. a \in Nat /\ a >= 1000
  OBVIOUS
<1> HIDE DEF a
<1>3. \E q, r \in Int : q = a \div Batch /\ a = Batch * q + r /\ r < Batch
  BY <1>1, <1>2
<1>4. PICK q, r \in Int : q = a \div Batch /\ a = Batch * q + r /\ r < Batch
  BY <1>3
<1>5. ASSUME q <= 30 PROVE FALSE
  <2>1. Batch * q <= Batch * 30
    BY <1>1, <1>4, <1>5
  <2> QED BY <1>1, <1>2, <1>4, <2>1
<1> QED BY <1>4, <1>5 DEF InferenceFailureRate, a

(* A severity is the worst of the bands, so one band above LOW is enough.  *)
LEMMA OneBandDecides ==
  ASSUME NEW ds, NEW d \in ds, d.anomaly_detected,
         ClassifyDetection(d) \in {"MEDIUM", "HIGH"}
  PROVE  Classify(ds) # "LOW"
<1> DEFINE found == {ClassifyDetection(e) : e \in Breaching(ds)}
           worst == CHOOSE s \in found : \A u \in found : SEVERITY_RANK[u] <= SEVERITY_RANK[s]
<1>1. found \subseteq Severity /\ ClassifyDetection(d) \in found
  BY Bands DEF Breaching
<1>2. Classify(ds) = worst
  BY <1>1 DEF Classify
<1> HIDE DEF found
<1>3. \A u \in found : SEVERITY_RANK[u] <= SEVERITY_RANK[worst]
  BY <1>1, WorstSeverity
<1> HIDE DEF worst
<1>4. worst # "LOW"
  BY <1>1, <1>3 DEF SEVERITY_RANK
<1> QED BY <1>2, <1>4

LEMMA MissedIsJudged ==
  ASSUME SmallBatch, Typed, Counted, Observe
  PROVE  missed' => severity' # "LOW"
<1>1. SUFFICES ASSUME missed PROVE severity' # "LOW"
  BY DEF Observe
<1>2. InferenceFailureRate \in Int /\ InferenceFailureRate > 30
  BY <1>1, OneRowIsNoticed DEF Counted, Typed, TypeOK
<1> DEFINE d == Breach("inference_failure_rate", InferenceFailureRate)
<1>3. d.anomaly_detected /\ ClassifyDetection(d) \in {"MEDIUM", "HIGH"}
  BY <1>2 DEF Breach, Detection, ClassifyDetection, ClassifyThreshold, BandAscending
<1> DEFINE metrics == MetricsOf(active)
           ctx == [reachable |-> health.reachable, health_status |-> health.health_status,
                   failures  |-> failures', inference_failure_rate |-> InferenceFailureRate,
                   low_confidence_ratio |-> 0, metrics |-> metrics]
<1>4. d \in ThresholdDetect(ctx)
  BY <1>2 DEF ThresholdDetect, When
<1>5. \E found : d \in found /\ severity' = Classify(found)
  <2> HIDE DEF d
  <2>1. CASE metrics = NoMetrics
    BY <1>4, <2>1 DEF Observe
  <2>2. CASE metrics # NoMetrics
    <3>1. PICK breached \in SUBSET Tracked :
            severity' = Classify(ThresholdDetect(ctx)
              \cup {IF Pattern(k) = "sustained" THEN AnomalySustained
                    ELSE AnomalySpike : k \in breached})
      BY <2>2 DEF Observe
    <3> QED BY <1>4, <3>1
  <2> QED BY <2>1, <2>2
<1> HIDE DEF d
<1> QED BY <1>3, <1>5, OneBandDecides

LEMMA NextCounted ==
  ASSUME SmallBatch, Typed, Counted, [Next]_vars
  PROVE  Counted'
<1>1. CASE PredictRow
  <2>1. PICK outcome : failed' = Count(outcome) /\ missed' = (missed \/ ~outcome.answered)
    BY <1>1 DEF PredictRow
  <2>2. pc' # "act"
    BY <1>1 DEF PredictRow
  <2>3. CASE outcome.answered
    BY <2>1, <2>2, <2>3 DEF Count, Counted
  <2>4. CASE ~outcome.answered
    BY <2>1, <2>2, <2>4 DEF Count, Counted, Typed, TypeOK
  <2> QED BY <2>3, <2>4
<1>2. CASE ReadHealth
  BY <1>2 DEF ReadHealth, Counted, historyVars
<1>3. CASE Observe
  BY <1>3, MissedIsJudged DEF Observe, Counted
<1>4. CASE Keep
  BY <1>4 DEF Keep, NextTick, Counted
<1>5. CASE Switch
  BY <1>5 DEF Switch, Counted, historyVars
<1>6. CASE Confirm
  BY <1>6 DEF Confirm, Confirmed, ProbeAgain, RollBack, NextTick, Counted
<1>7. CASE ServiceMoves
  BY <1>7 DEF ServiceMoves, tickVars, Counted
<1>8. CASE UNCHANGED vars
  BY <1>8 DEF vars, tickVars, historyVars, Counted
<1> QED
  BY <1>1, <1>2, <1>3, <1>4, <1>5, <1>6, <1>7, <1>8 DEF Next, Tick

(* A prediction without an answer is noticed in its tick, whatever the     *)
(* window, the health probe and the other detections say.                  *)
THEOREM FailuresAreNoticed ==
  ASSUME SmallBatch
  PROVE  Spec => []FailuresAreNotLow
<1>1. Init => Counted
  BY DEF Init, Counted
<1>2. Typed /\ Counted /\ [Next]_vars => Counted'
  BY NextCounted
<1>3. Counted => FailuresAreNotLow
  BY DEF Counted, FailuresAreNotLow
<1> QED BY <1>1, <1>2, <1>3, AlwaysTyped, PTL DEF Spec
================================================================================
