----------------------------- MODULE JenkinsProofs -----------------------------
(***************************************************************************)
(* Proofs about JenkinsJobs, for any models, requests, attempts and any    *)
(* number of builds and versions.                                          *)
(***************************************************************************)
EXTENDS JenkinsJobs, NaturalsProofs

(***************************************************************************)
(* The invariant                                                           *)
(***************************************************************************)

(* The registry always has a version of every model to point at.           *)
RowsOK ==
  /\ rows \in [MODELS -> Seq({"CANDIDATE", "STABLE", "ACTIVE"})]
  /\ \A m \in MODELS : Len(rows[m]) \in 1..MaxVersions

(* Where a job writes the pointer.                                         *)
FlipAt(job) == CASE job = "switch" -> 1 [] job = "rollback" -> 5 [] job = "deploy" -> 0

(* What a build has done by the stage and the statement it has reached.    *)
BuildOK(b) ==
  /\ builds[b].stage = "none" <=> b > requested
  /\ builds[b].stage \in {"none", "queued", "cancelled"} =>
       builds[b].wrote = 0 /\ builds[b].at = 1 /\ builds[b].result # "SUCCESS"
  /\ builds[b].stage \in {"none", "queued", "running"} => builds[b].result = "running"
  /\ builds[b].stage = "running" => builds[b].at <= Len(Script(builds[b].job))
  /\ builds[b].stage = "running" /\ builds[b].at <= FlipAt(builds[b].job) =>
       builds[b].wrote = 0
  /\ builds[b].job = "switch"
       /\ (builds[b].result = "SUCCESS" \/ (builds[b].stage = "running" /\ builds[b].at > 1))
       => builds[b].wrote # 0

(* The builds of a job go one after the other.                             *)
InOrder ==
  \A b, c \in Builds :
    c < b /\ builds[c].job = builds[b].job /\ Started(b) => Over(c)

(* The client waits for a switch that was requested; a success was one     *)
(* that is over and did switch.                                            *)
CallOK ==
  /\ call.pc # "idle" =>
       /\ call.build \in Builds /\ builds[call.build].job = "switch"
       /\ call.build <= requested /\ call.verdict = "none"
  /\ call.verdict = "success" =>
       /\ call.build \in Builds /\ builds[call.build].job = "switch"
       /\ builds[call.build].stage = "done"

(* The shape of the client's state.                                        *)
CallType == [pc : {"idle", "queue", "poll"}, build : Builds \cup {NoBuild},
             left : Nat, verdict : {"none", "success", "failed"}]

IInv == TypeOK /\ RowsOK /\ (\A b \in Builds : BuildOK(b)) /\ InOrder /\ CallOK

(***************************************************************************)
(* The scripts                                                             *)
(***************************************************************************)
LEMMA ScriptFacts ==
  ASSUME NEW job \in Job, NEW at \in 1..8
  PROVE  /\ Len(Script(job)) \in 4..8
         /\ Len(Script(job)) <= 8
         /\ at <= Len(Script(job)) /\ Script(job)[at] = "flip" => at = FlipAt(job)
         /\ at <= Len(Script(job)) /\ at = FlipAt(job) => Script(job)[at] = "flip"
<1>1. CASE job = "switch"
  <2>1. Script(job) = <<"flip", "restart", "wait", "wait">> /\ FlipAt(job) = 1
    BY <1>1 DEF Script, FlipAt
  <2>2. at = 1 \/ at = 2 \/ at = 3 \/ at = 4 \/ at > 4
    OBVIOUS
  <2> QED BY <2>1, <2>2
<1>2. CASE job = "deploy"
  <2>1. Script(job) = <<"restart", "wait", "register", "wait">> /\ FlipAt(job) = 0
    BY <1>2 DEF Script, FlipAt
  <2>2. at = 1 \/ at = 2 \/ at = 3 \/ at = 4 \/ at > 4
    OBVIOUS
  <2> QED BY <2>1, <2>2
<1>3. CASE job = "rollback"
  <2>1. /\ Script(job) = <<"query", "restart", "wait", "register",
                           "flip", "restart", "wait", "wait">>
        /\ FlipAt(job) = 5
    BY <1>3 DEF Script, FlipAt
  <2>2. at = 1 \/ at = 2 \/ at = 3 \/ at = 4 \/ at = 5 \/ at = 6 \/ at = 7 \/ at = 8
    OBVIOUS
  <2> QED BY <2>1, <2>2
<1> QED BY <1>1, <1>2, <1>3 DEF Job

(***************************************************************************)
(* The steps                                                               *)
(***************************************************************************)
LEMMA InitIInv == Init => IInv
<1> SUFFICES ASSUME Init PROVE IInv
  OBVIOUS
<1>1. NoneYet \in Build /\ requested = 0 /\ builds = [b \in Builds |-> NoneYet]
  BY JobsAssumption DEF NoneYet, Build, Job, Result, Init
<1>2. call = Idle /\ Idle.pc = "idle" /\ Idle.verdict = "none"
  BY DEF Init, Idle
<1>3. PICK m \in MODELS :
        /\ rows = [n \in MODELS |-> IF n = m THEN <<"ACTIVE">> ELSE <<"STABLE">>]
        /\ active = [model |-> m, version |-> 1]
  BY DEF Init
<1>4. RowsOK
  BY <1>3, JobsAssumption DEF RowsOK
<1>5. TypeOK
  BY <1>1, <1>2, <1>3, <1>4, JobsAssumption DEF TypeOK, RowsOK, Idle, Init
<1>6. \A b \in Builds : BuildOK(b)
  BY <1>1, JobsAssumption DEF BuildOK, NoneYet, Builds
<1>7. InOrder /\ CallOK
  BY <1>1, <1>2 DEF InOrder, CallOK, Started, NoneYet
<1> QED BY <1>4, <1>5, <1>6, <1>7 DEF IInv

(* A switch by name leaves every model its versions.                       *)
LEMMA FlipFacts ==
  ASSUME IInv, NEW m \in MODELS, Flip(m)
  PROVE  /\ RowsOK' /\ active' \in [model : MODELS, version : 1..MaxVersions]
         /\ active'.model = m /\ Newest(m) \in 1..MaxVersions
<1>1. Newest(m) \in 1..MaxVersions
  BY DEF IInv, RowsOK, Newest
<1>2. active' = [model |-> m, version |-> Newest(m)]
  BY DEF Flip
<1>3. ASSUME NEW n \in MODELS
      PROVE  /\ rows'[n] \in Seq({"CANDIDATE", "STABLE", "ACTIVE"})
             /\ Len(rows'[n]) = Len(rows[n])
  <2> DEFINE f == [v \in DOMAIN rows[n] |->
                     IF n = m /\ v = Newest(m) THEN "ACTIVE"
                     ELSE IF rows[n][v] = "ACTIVE" THEN "STABLE" ELSE rows[n][v]]
             S == {"CANDIDATE", "STABLE", "ACTIVE"}
  <2>1. rows'[n] = f
    BY DEF Flip
  <2>2. rows[n] \in Seq(S) /\ DOMAIN rows[n] = 1..Len(rows[n]) /\ Len(rows[n]) \in Nat
    BY DEF IInv, RowsOK
  <2>3. \A v \in 1..Len(rows[n]) : f[v] \in S
    BY <2>2
  <2>4. f \in [1..Len(rows[n]) -> S]
    BY <2>2, <2>3
  <2> HIDE DEF f
  <2>5. f \in Seq(S) /\ Len(f) = Len(rows[n])
    BY <2>2, <2>4
  <2> QED BY <2>1, <2>5
<1>4. RowsOK'
  <2>1. rows' = [n \in MODELS |-> rows'[n]]
    BY DEF Flip
  <2> QED BY <1>3, <2>1 DEF RowsOK, IInv
<1> QED BY <1>1, <1>2, <1>4

(* One build goes on, in its turn and in a way its script allows.          *)
LEMMA BuildStep ==
  ASSUME IInv, NEW b \in Builds, NEW next \in Build,
         builds' = [builds EXCEPT ![b] = next], UNCHANGED <<requested, call>>,
         next.job = builds[b].job, next.stage # "none",
         builds[b].stage \in {"queued", "running", "post"},
         next.stage \in {"running", "post", "done"} => Started(b) \/ Turn(b),
         BuildOK(b)',
         RowsOK', active' \in [model : MODELS, version : 1..MaxVersions],
         healthy' \subseteq MODELS
  PROVE  IInv'
<1> USE DEF IInv
<1>1. TypeOK'
  BY DEF TypeOK, RowsOK
<1>2. \A c \in Builds \ {b} : builds'[c] = builds[c]
  BY DEF TypeOK
<1>3. builds'[b] = next
  BY DEF TypeOK
<1>4. \A c \in Builds : BuildOK(c)'
  BY <1>2 DEF BuildOK
<1>5. InOrder'
  <2> SUFFICES ASSUME NEW d \in Builds, NEW c \in Builds,
                      c < d, builds'[c].job = builds'[d].job, Started(d)'
               PROVE  Over(c)'
    BY DEF InOrder
  <2>1. CASE c # b /\ d # b
    BY <1>2, <2>1 DEF InOrder, Started, Over
  <2>2. CASE d = b
    <3>1. c # b /\ builds[c].job = builds[b].job /\ c \in 1..(b - 1)
      BY <1>2, <1>3, <2>2 DEF Builds
    <3>2. Started(b) \/ Turn(b)
      BY <1>3, <2>2 DEF Started
    <3>3. Over(c)
      BY <3>1, <3>2, <2>2 DEF InOrder, Turn
    <3> QED BY <1>2, <3>1, <3>3 DEF Over
  <2>3. CASE c = b /\ d # b
    BY <1>2, <1>3, <2>3 DEF InOrder, Started, Over
  <2> QED BY <2>1, <2>2, <2>3
<1>6. CallOK'
  BY <1>2, <1>3 DEF CallOK, TypeOK
<1> QED BY <1>1, <1>4, <1>5, <1>6

(* Nothing but the models, the registry or the client moves.               *)
LEMMA OutsideStep ==
  ASSUME IInv, UNCHANGED <<builds, requested>>, RowsOK',
         active' \in [model : MODELS, version : 1..MaxVersions], healthy' \subseteq MODELS,
         call' \in CallType,
         CallOK'
  PROVE  IInv'
<1>1. \A b \in Builds : BuildOK(b)'
  BY DEF IInv, BuildOK
<1>2. TypeOK'
  BY DEF IInv, TypeOK, RowsOK, CallType
<1>3. InOrder'
  BY DEF IInv, InOrder, Started, Over
<1> QED BY <1>1, <1>2, <1>3 DEF IInv

LEMMA AdvancedFacts ==
  ASSUME NEW build \in Build, build.stage = "running", build.result = "running",
         build.at <= Len(Script(build.job))
  PROVE  LET next == Advanced(build) IN
         /\ next \in Build
         /\ next.job = build.job /\ next.target = build.target
         /\ next.wrote = build.wrote /\ next.stable = build.stable
         /\ \/ /\ next.stage = "running" /\ next.result = "running"
               /\ next.at = build.at + 1 /\ next.at <= Len(Script(build.job))
            \/ /\ next.stage = "post" /\ next.result = "SUCCESS"
               /\ next.at = build.at /\ build.at >= 4
<1>1. build.job \in Job /\ build.at \in 1..8
  BY DEF Build
<1>2. Len(Script(build.job)) \in 4..8
  BY <1>1, ScriptFacts
<1> DEFINE len == Len(Script(build.job))
<1>3. CASE build.at < len
  <2>1. Advanced(build) = [build EXCEPT !.at = build.at + 1]
    BY <1>3 DEF Advanced
  <2>2. \A i \in 1..8, n \in 4..8 : i < n => i + 1 \in 1..8 /\ i + 1 <= n
    OBVIOUS
  <2>3. build.at + 1 \in 1..8 /\ build.at + 1 <= len
    BY <1>1, <1>2, <1>3, <2>2, Zenon
  <2>4. \A i \in 1..8 : LET n == [build EXCEPT !.at = i] IN
          /\ n \in Build /\ n.stage = build.stage /\ n.result = build.result /\ n.at = i
          /\ n.job = build.job /\ n.target = build.target /\ n.wrote = build.wrote
          /\ n.stable = build.stable
    BY DEF Build
  <2> QED BY <2>1, <2>3, <2>4, Zenon
<1>4. CASE build.at >= len
  <2>1. \A i \in 1..8, n \in 4..8 : i >= n => ~(i < n) /\ i >= 4
    OBVIOUS
  <2>2. ~(build.at < len) /\ build.at >= 4
    BY <1>1, <1>2, <1>4, <2>1, Zenon
  <2> DEFINE mid == [build EXCEPT !.stage = "post"]
             end == [mid EXCEPT !.result = "SUCCESS"]
  <2>3. Advanced(build) = end
    BY <2>2 DEF Advanced
  <2>4. /\ mid \in Build /\ mid.stage = "post" /\ mid.at = build.at
        /\ mid.job = build.job /\ mid.target = build.target /\ mid.wrote = build.wrote
        /\ mid.stable = build.stable
    BY DEF Build
  <2> HIDE DEF mid
  <2>5. /\ end \in Build /\ end.stage = "post" /\ end.result = "SUCCESS"
        /\ end.at = mid.at /\ end.job = mid.job /\ end.target = mid.target
        /\ end.wrote = mid.wrote /\ end.stable = mid.stable
    BY <2>4 DEF Build, Result
  <2> QED BY <2>2, <2>3, <2>4, <2>5, Zenon
<1>5. build.at < len \/ build.at >= len
  <2>1. \A i \in 1..8, n \in 4..8 : i < n \/ i >= n
    OBVIOUS
  <2> QED BY <1>1, <1>2, <2>1, Zenon
<1> QED BY <1>3, <1>4, <1>5

(* A statement other than the switch is over.                              *)
LEMMA AdvanceStep ==
  ASSUME IInv, NEW b \in Builds, NEW v \in 0..MaxVersions,
         builds[b].stage = "running", Statement(b) # "flip",
         builds' = [builds EXCEPT ![b] = Advanced([builds[b] EXCEPT !.stable = v])],
         UNCHANGED <<requested, call, rows, active>>, healthy' \subseteq MODELS
  PROVE  IInv'
<1> DEFINE build == [builds[b] EXCEPT !.stable = v]
           next  == Advanced(build)
<1>1. builds[b] \in Build /\ BuildOK(b)
  BY DEF IInv, TypeOK
<1>2. /\ build \in Build /\ build.stage = "running" /\ build.result = "running"
      /\ build.at <= Len(Script(build.job)) /\ build.at = builds[b].at
      /\ build.job = builds[b].job /\ build.wrote = builds[b].wrote
  BY <1>1 DEF BuildOK, Build
<1> HIDE DEF build
<1>3. /\ next \in Build /\ next.job = builds[b].job /\ next.wrote = builds[b].wrote
      /\ \/ /\ next.stage = "running" /\ next.result = "running"
            /\ next.at = builds[b].at + 1 /\ next.at <= Len(Script(next.job))
         \/ /\ next.stage = "post" /\ next.result = "SUCCESS"
            /\ next.at = builds[b].at /\ next.at >= 4
  BY <1>2, AdvancedFacts
<1> HIDE DEF next
<1>4. builds[b].at # FlipAt(builds[b].job)
  BY <1>1, <1>2, ScriptFacts DEF Statement, Build
<1>5. /\ builds[b].job \in Job /\ builds[b].at \in 1..8
      /\ FlipAt(builds[b].job) \in {0, 1, 5} /\ FlipAt("switch") = 1
  BY <1>1 DEF Build, Job, FlipAt
<1>6. builds'[b] = next
  BY DEF IInv, TypeOK, next, build
<1>7. BuildOK(b)'
  BY <1>1, <1>3, <1>4, <1>5, <1>6 DEF BuildOK
<1>8. RowsOK' /\ active' \in [model : MODELS, version : 1..MaxVersions]
  BY DEF IInv, RowsOK, TypeOK
<1> QED BY <1>3, <1>7, <1>8, BuildStep DEF Started, next, build

(* A build fails or is aborted.                                            *)
LEMMA EndStep ==
  ASSUME IInv, NEW b \in Builds, NEW r \in {"FAILURE", "ABORTED"},
         builds[b].stage = "running",
         builds' = [builds EXCEPT ![b] = Ended(builds[b], r)],
         UNCHANGED <<requested, call, rows, active, healthy>>
  PROVE  IInv'
<1>1. builds[b] \in Build /\ BuildOK(b)
  BY DEF IInv, TypeOK
<1>2. Ended(builds[b], r) \in Build /\ builds'[b] = Ended(builds[b], r)
  BY <1>1 DEF Ended, Build, Result, IInv, TypeOK
<1>3. BuildOK(b)'
  BY <1>1, <1>2 DEF BuildOK, Ended, Build
<1>4. /\ RowsOK' /\ active' \in [model : MODELS, version : 1..MaxVersions]
      /\ healthy' \subseteq MODELS
  BY DEF IInv, RowsOK, TypeOK
<1> QED BY <1>1, <1>2, <1>3, <1>4, BuildStep DEF Started, Ended, Build

(* The switch itself: the only statement that sets `wrote`.                *)
LEMMA FlipStep ==
  ASSUME IInv, NEW b \in Builds, FlipStatement(b)
  PROVE  /\ IInv'
         /\ builds[b].wrote = 0 /\ builds[b].stage = "running"
         /\ \/ UNCHANGED active /\ builds' = [builds EXCEPT ![b] = Ended(@, "FAILURE")]
            \/ /\ active'.model = builds[b].target /\ builds'[b].wrote # 0
               /\ builds'[b].target = builds[b].target
               /\ \A c \in Builds \ {b} : builds'[c] = builds[c]
<1>1. /\ builds[b] \in Build /\ BuildOK(b) /\ builds[b].stage = "running"
      /\ Statement(b) = "flip"
  BY DEF IInv, TypeOK, FlipStatement, At
<1>2. /\ builds[b].job \in Job /\ builds[b].at \in 1..8 /\ builds[b].target \in MODELS
      /\ builds[b].result = "running" /\ builds[b].at <= Len(Script(builds[b].job))
  BY <1>1 DEF Build, BuildOK
<1>3. builds[b].at = FlipAt(builds[b].job) /\ builds[b].wrote = 0
  BY <1>1, <1>2, ScriptFacts DEF Statement, BuildOK
<1>4. CASE Becomes(b, Ended(builds[b], "FAILURE"))
  BY <1>1, <1>3, <1>4, EndStep DEF Becomes, registryVars
<1>5. CASE ~Becomes(b, Ended(builds[b], "FAILURE"))
  <2> DEFINE w == [builds[b] EXCEPT !.wrote = Newest(builds[b].target)]
  <2>1. PICK next \in {Advanced(w), Ended(w, "FAILURE")} :
          builds' = [builds EXCEPT ![b] = next]
    BY <1>5 DEF FlipStatement
  <2>2. Flip(builds[b].target) /\ UNCHANGED <<requested, healthy, call>>
    BY <1>5 DEF FlipStatement
  <2>3. /\ RowsOK' /\ active' \in [model : MODELS, version : 1..MaxVersions]
        /\ active'.model = builds[b].target
        /\ Newest(builds[b].target) \in 1..MaxVersions
    BY <1>2, <2>2, FlipFacts
  <2>4. /\ w \in Build /\ w.stage = "running" /\ w.result = "running" /\ w.wrote # 0
        /\ w.job = builds[b].job /\ w.at = builds[b].at /\ w.at <= Len(Script(w.job))
        /\ w.target = builds[b].target
    BY <1>1, <1>2, <2>3 DEF Build
  <2> HIDE DEF w
  <2>5. /\ next \in Build /\ next.job = builds[b].job /\ next.wrote # 0
        /\ next.target = builds[b].target
        /\ \/ /\ next.stage = "running" /\ next.result = "running"
              /\ next.at = builds[b].at + 1 /\ next.at <= Len(Script(next.job))
           \/ next.stage = "post"
    <3>1. CASE next = Advanced(w)
      BY <2>4, <3>1, AdvancedFacts
    <3>2. CASE next = Ended(w, "FAILURE")
      BY <2>4, <3>2 DEF Ended, Build, Result
    <3> QED BY <2>1, <3>1, <3>2
  <2>6. builds'[b] = next /\ \A c \in Builds \ {b} : builds'[c] = builds[c]
    BY <2>1 DEF IInv, TypeOK
  <2>7. BuildOK(b)'
    <3>1. FlipAt(builds[b].job) \in {0, 1, 5}
      BY <1>2 DEF FlipAt, Job
    <3> QED BY <1>1, <1>2, <1>3, <2>2, <2>5, <2>6, <3>1 DEF BuildOK
  <2>8. healthy' \subseteq MODELS
    BY <2>2 DEF IInv, TypeOK
  <2>9. IInv'
    BY <1>1, <2>1, <2>2, <2>3, <2>5, <2>7, <2>8, BuildStep DEF Started
  <2> QED BY <1>1, <1>3, <2>3, <2>5, <2>6, <2>9
<1> QED BY <1>4, <1>5

(* A request enters the queue behind all the others.                       *)
LEMMA EnqueueStep ==
  ASSUME IInv, NEW job \in Job, NEW target \in MODELS, Enqueue(job, target)
  PROVE  LET n == requested + 1 IN
         /\ n \in Builds /\ requested' = n /\ builds[n].stage = "none" /\ builds[n].wrote = 0
         /\ builds' = [builds EXCEPT ![n] = builds'[n]]
         /\ builds'[n] \in Build /\ builds'[n].stage = "queued" /\ builds'[n].wrote = 0
         /\ builds'[n].job = job /\ builds'[n].target = target
         /\ \A b \in Builds \ {n} : builds'[b] = builds[b]
         /\ \A b \in Builds : BuildOK(b)'
         /\ InOrder'
<1> DEFINE n == requested + 1
           first == [NoneYet EXCEPT !.job = job, !.target = target, !.stage = "queued"]
<1>1. /\ n \in Builds /\ requested' = n /\ builds' = [builds EXCEPT ![n] = first]
      /\ requested \in Nat
  BY JobsAssumption DEF Enqueue, IInv, TypeOK, Builds
<1>2. first = [job |-> job, target |-> target, stage |-> "queued", at |-> 1,
               result |-> "running", wrote |-> 0, stable |-> 0]
  <2> DEFINE x == [NoneYet EXCEPT !.job = job]
             y == [x EXCEPT !.target = target]
             some == CHOOSE m \in MODELS : TRUE
  <2>0. NoneYet = [job |-> "switch", target |-> some, stage |-> "none", at |-> 1,
                   result |-> "running", wrote |-> 0, stable |-> 0]
    BY Zenon DEF NoneYet
  <2> HIDE DEF some
  <2>1. x = [job |-> job, target |-> some, stage |-> "none", at |-> 1,
             result |-> "running", wrote |-> 0, stable |-> 0]
    BY <2>0
  <2> HIDE DEF x
  <2>2. y = [job |-> job, target |-> target, stage |-> "none", at |-> 1,
             result |-> "running", wrote |-> 0, stable |-> 0]
    BY <2>1
  <2>3. first = [y EXCEPT !.stage = "queued"]
    BY DEF x
  <2> HIDE DEF y, first
  <2> QED BY <2>2, <2>3
<1> HIDE DEF first
<1>3. first \in Build
  BY <1>2, JobsAssumption DEF Build, Result
<1>4. builds'[n] = first /\ \A b \in Builds \ {n} : builds'[b] = builds[b]
  BY <1>1 DEF IInv, TypeOK
<1>5. builds[n].stage = "none" /\ builds[n].wrote = 0
  BY <1>1 DEF IInv, BuildOK, Builds
<1>6. ASSUME NEW b \in Builds PROVE BuildOK(b)'
  <2>1. CASE b = n
    BY <1>1, <1>2, <1>4, <2>1 DEF BuildOK
  <2>2. CASE b # n
    BY <1>1, <1>4, <2>2 DEF BuildOK, IInv, Builds
  <2> QED BY <2>1, <2>2
<1>7. InOrder'
  <2> SUFFICES ASSUME NEW d \in Builds, NEW c \in Builds,
                      c < d, builds'[c].job = builds'[d].job, Started(d)'
               PROVE  Over(c)'
    BY DEF InOrder
  <2>1. d # n
    BY <1>2, <1>4 DEF Started
  <2>2. builds[d].stage # "none" /\ d <= requested
    BY <1>1, <1>4, <2>1 DEF Started, IInv, BuildOK, Builds
  <2>3. c # n
    BY <1>1, <2>2 DEF Builds
  <2> QED BY <1>4, <2>1, <2>3 DEF IInv, InOrder, Started, Over
<1>8. /\ first.stage = "queued" /\ first.wrote = 0
      /\ first.job = job /\ first.target = target
  BY <1>2
<1>9. builds' = [builds EXCEPT ![n] = builds'[n]]
  BY <1>1, <1>4
<1> QED BY <1>1, <1>3, <1>4, <1>5, <1>6, <1>7, <1>8, <1>9, Zenon

(* What the client may become.                                             *)
LEMMA CallShapes ==
  ASSUME IInv
  PROVE  /\ Idle \in CallType /\ Idle.pc = "idle" /\ Idle.verdict = "none"
         /\ \A v \in {"success", "failed"} :
              LET c == [Idle EXCEPT !.verdict = v] IN
              c \in CallType /\ c.pc = "idle" /\ c.verdict = v
         /\ \A v \in {"success", "failed"} : Verdict(v) =>
              /\ call' \in CallType /\ call'.pc = "idle" /\ call'.verdict = v
              /\ call'.build = call.build
         /\ \A b \in Builds :
              [pc |-> "queue", build |-> b, left |-> QueueAttempts, verdict |-> "none"]
                \in CallType
<1>1. /\ Idle = [pc |-> "idle", build |-> NoBuild, left |-> 0, verdict |-> "none"]
      /\ Idle \in CallType
  BY DEF Idle, CallType
<1>2. \A v \in {"success", "failed"} :
        [Idle EXCEPT !.verdict = v]
          = [pc |-> "idle", build |-> NoBuild, left |-> 0, verdict |-> v]
  BY DEF Idle
<1>3. \A v \in {"success", "failed"} :
        [Idle EXCEPT !.verdict = v, !.build = call.build]
          = [pc |-> "idle", build |-> call.build, left |-> 0, verdict |-> v]
  <2> TAKE v \in {"success", "failed"}
  <2> DEFINE c == [Idle EXCEPT !.verdict = v]
  <2>1. c = [pc |-> "idle", build |-> NoBuild, left |-> 0, verdict |-> v]
    BY <1>2
  <2> HIDE DEF c
  <2>2. [c EXCEPT !.build = call.build]
          = [pc |-> "idle", build |-> call.build, left |-> 0, verdict |-> v]
    BY <2>1
  <2> QED BY <2>2 DEF c
<1>4. call.build \in Builds \cup {NoBuild}
  BY DEF IInv, TypeOK
<1>5. QueueAttempts \in Nat
  BY JobsAssumption
<1>6. ASSUME NEW v \in {"success", "failed"}
      PROVE  /\ [pc |-> "idle", build |-> NoBuild, left |-> 0, verdict |-> v] \in CallType
             /\ [pc |-> "idle", build |-> call.build, left |-> 0, verdict |-> v] \in CallType
  BY <1>4 DEF CallType
<1>7. \A v \in {"success", "failed"} : Verdict(v) =>
        call' = [pc |-> "idle", build |-> call.build, left |-> 0, verdict |-> v]
  BY <1>3 DEF Verdict
<1>8. \A b \in Builds :
        [pc |-> "queue", build |-> b, left |-> QueueAttempts, verdict |-> "none"] \in CallType
  BY <1>5 DEF CallType
<1> QED BY <1>1, <1>2, <1>6, <1>7, <1>8

LEMMA TriggerStep ==
  ASSUME IInv, Trigger \/ HandTrigger
  PROVE  IInv'
<1> USE DEF IInv
<1> DEFINE n == requested + 1
<1>1. UNCHANGED <<rows, active, healthy>>
  BY DEF Trigger, HandTrigger, registryVars
<1>2. RowsOK' /\ healthy' \subseteq MODELS /\ active' \in [model : MODELS, version : 1..MaxVersions]
  BY <1>1 DEF RowsOK, TypeOK
<1>3. CASE \E job \in Job, target \in MODELS :
             /\ Enqueue(job, target)
             /\ \/ UNCHANGED call
                \/ job = "switch" /\ WaitFor(n)
                \/ call' = [Idle EXCEPT !.verdict = "failed"]
  <2>1. PICK job \in Job, target \in MODELS :
             /\ Enqueue(job, target)
             /\ \/ UNCHANGED call
                \/ job = "switch" /\ WaitFor(n)
                \/ call' = [Idle EXCEPT !.verdict = "failed"]
    BY <1>3
  <2>2. /\ n \in Builds /\ requested' = n /\ builds[n].stage = "none"
        /\ builds' = [builds EXCEPT ![n] = builds'[n]] /\ builds'[n] \in Build
        /\ builds'[n].job = job
        /\ \A b \in Builds \ {n} : builds'[b] = builds[b]
        /\ \A b \in Builds : BuildOK(b)'
        /\ InOrder'
    BY <2>1, EnqueueStep
  <2>3. call' \in CallType
    BY <2>1, <2>2, CallShapes DEF WaitFor, TypeOK, CallType
  <2>4. TypeOK'
    <3>1. builds' \in [Builds -> Build]
      BY <2>2 DEF TypeOK
    <3>2. requested' \in 0..MaxBuilds
      BY <2>2 DEF TypeOK, Builds
    <3> QED BY <1>2, <2>3, <3>1, <3>2 DEF TypeOK, RowsOK, CallType
  <2>5. CallOK'
    <3>1. CASE UNCHANGED call
      <4>1. call.pc # "idle" => call.build # n /\ call.build <= n
        BY <2>2, <3>1 DEF CallOK, TypeOK, Builds
      <4>2. call.verdict = "success" => call.build # n
        BY <2>2 DEF CallOK
      <4> QED BY <2>2, <3>1, <4>1, <4>2 DEF CallOK
    <3>2. CASE job = "switch" /\ WaitFor(n)
      BY <2>2, <3>2 DEF CallOK, WaitFor, Builds
    <3>3. CASE call' = [Idle EXCEPT !.verdict = "failed"]
      BY <3>3, CallShapes DEF CallOK
    <3> QED BY <2>1, <3>1, <3>2, <3>3
  <2> QED BY <1>2, <2>2, <2>4, <2>5
<1>4. CASE /\ UNCHANGED <<builds, requested>>
           /\ \/ call' = [Idle EXCEPT !.verdict = "failed"]
              \/ \E b \in Builds : /\ builds[b].job = "switch" /\ builds[b].stage = "queued"
                                   /\ WaitFor(b)
  <2>1. call' \in CallType
    BY <1>4, CallShapes DEF WaitFor
  <2>2. CallOK'
    <3>1. CASE call' = [Idle EXCEPT !.verdict = "failed"]
      BY <3>1, CallShapes DEF CallOK
    <3>2. CASE \E b \in Builds : /\ builds[b].job = "switch" /\ builds[b].stage = "queued"
                                 /\ WaitFor(b)
      <4>1. PICK b \in Builds : /\ builds[b].job = "switch" /\ builds[b].stage = "queued"
                                /\ WaitFor(b)
        BY <3>2
      <4>2. b <= requested
        BY <4>1 DEF BuildOK, Builds, TypeOK
      <4> QED BY <1>4, <4>1, <4>2 DEF CallOK, WaitFor
    <3> QED BY <1>4, <3>1, <3>2
  <2> QED BY <1>2, <1>4, <2>1, <2>2, OutsideStep
<1>5. CASE Trigger
  <2>1. "switch" \in Job /\ AgentTargets \subseteq MODELS
    BY JobsAssumption DEF Job
  <2> QED BY <1>3, <1>4, <1>5, <2>1 DEF Trigger, jenkinsVars
<1>6. CASE HandTrigger
  <2>1. \A r \in HandRequests : r.job \in Job /\ r.target \in MODELS
    BY JobsAssumption
  <2> QED BY <1>3, <1>6, <2>1 DEF HandTrigger
<1> QED BY <1>5, <1>6

(* The client polls, gives up or dies; no build notices.                   *)
LEMMA ClientStep ==
  ASSUME IInv, PollQueue \/ PollBuild \/ AgentDies
  PROVE  /\ IInv' /\ UNCHANGED <<builds, requested, rows, active, healthy>>
         /\ \/ call'.pc # "idle" /\ call.pc # "idle"
               /\ call'.build = call.build /\ call'.verdict = call.verdict
            \/ call'.pc = "idle" /\ call'.verdict \in {"none", "failed"}
            \/ /\ call.pc # "idle" /\ builds[call.build].stage = "done"
               /\ builds[call.build].result = "SUCCESS"
               /\ call'.pc = "idle" /\ call'.verdict = "success"
<1> USE DEF IInv
<1>1. UNCHANGED <<builds, requested, rows, active, healthy>> /\ call.pc # "idle"
  BY DEF PollQueue, PollBuild, AgentDies, jenkinsVars, registryVars
<1>2. /\ RowsOK' /\ healthy' \subseteq MODELS
      /\ active' \in [model : MODELS, version : 1..MaxVersions]
  BY <1>1 DEF RowsOK, TypeOK
<1>3. /\ call \in CallType /\ call.build \in Builds /\ call.verdict = "none"
      /\ builds[call.build].job = "switch" /\ call.build <= requested
  BY <1>1 DEF TypeOK, CallType, CallOK
<1>4. CASE Missed
  <2>1. CASE call.left > 1 /\ call' = [call EXCEPT !.left = call.left - 1]
    <3>1. call.left - 1 \in Nat
      BY <1>3, <2>1 DEF CallType
    <3>2. /\ call' \in CallType /\ call'.pc = call.pc /\ call'.build = call.build
          /\ call'.verdict = call.verdict
      BY <1>3, <2>1, <3>1 DEF CallType
    <3>3. CallOK'
      BY <1>1, <1>3, <3>2 DEF CallOK
    <3> QED BY <1>1, <1>2, <3>2, <3>3, OutsideStep
  <2>2. CASE Verdict("failed")
    <3>1. call' \in CallType /\ call'.pc = "idle" /\ call'.verdict = "failed"
      BY <2>2, CallShapes
    <3>2. CallOK'
      BY <3>1 DEF CallOK
    <3> QED BY <1>1, <1>2, <3>1, <3>2, OutsideStep
  <2> QED BY <1>4, <2>1, <2>2 DEF Missed
<1>5. CASE call.pc = "queue" /\ call' = [call EXCEPT !.pc = "poll", !.left = BuildAttempts]
  <2> DEFINE c == [call EXCEPT !.pc = "poll"]
  <2>1. /\ c \in CallType /\ c.pc = "poll" /\ c.build = call.build
        /\ c.verdict = call.verdict
    BY <1>3 DEF CallType
  <2>2. call' = [c EXCEPT !.left = BuildAttempts]
    BY <1>5
  <2> HIDE DEF c
  <2>3. BuildAttempts \in Nat
    BY JobsAssumption
  <2>4. /\ call' \in CallType /\ call'.pc = "poll" /\ call'.build = call.build
        /\ call'.verdict = call.verdict
    BY <2>1, <2>2, <2>3 DEF CallType
  <2>5. CallOK'
    BY <1>1, <1>3, <2>4 DEF CallOK
  <2> QED BY <1>1, <1>2, <2>4, <2>5, OutsideStep
<1>6. CASE builds[call.build].stage = "done" /\ Verdict(Judged(call.build))
  <2>1. Judged(call.build) \in {"success", "failed"}
    BY DEF Judged
  <2>2. /\ call' \in CallType /\ call'.pc = "idle" /\ call'.build = call.build
        /\ call'.verdict = Judged(call.build)
    BY <1>6, <2>1, CallShapes
  <2>3. CallOK'
    BY <1>1, <1>3, <1>6, <2>2 DEF CallOK
  <2>4. IInv'
    BY <1>1, <1>2, <2>2, <2>3, OutsideStep
  <2>5. Judged(call.build) = "success" => builds[call.build].result = "SUCCESS"
    BY DEF Judged
  <2> QED BY <1>1, <1>6, <2>1, <2>2, <2>4, <2>5
<1>7. CASE call' = Idle
  <2>1. CallOK'
    BY <1>7, CallShapes DEF CallOK
  <2> QED BY <1>1, <1>2, <1>7, <2>1, CallShapes, OutsideStep
<1> QED BY <1>4, <1>5, <1>6, <1>7 DEF PollQueue, PollBuild, AgentDies

(* Other writers of the registry, and the containers.                      *)
LEMMA AroundStep ==
  ASSUME IInv, Ingest \/ OtherSwitch \/ ContainerUp \/ ContainerDown
  PROVE  /\ IInv' /\ UNCHANGED <<builds, requested, call>>
         /\ active'.model \in MODELS /\ (UNCHANGED active \/ OtherSwitch)
<1> USE DEF IInv
<1>1. UNCHANGED <<builds, requested, call>>
  BY DEF Ingest, OtherSwitch, ContainerUp, ContainerDown, jenkinsVars
<1>2. CallOK' /\ call' \in CallType
  BY <1>1 DEF CallOK, TypeOK, CallType
<1>3. /\ RowsOK' /\ healthy' \subseteq MODELS
      /\ active' \in [model : MODELS, version : 1..MaxVersions]
      /\ UNCHANGED active \/ OtherSwitch
  <2>1. CASE Ingest
    <3>1. PICK m \in Upgraded :
            /\ Len(rows[m]) < MaxVersions /\ rows' = [rows EXCEPT ![m] = Append(@, "CANDIDATE")]
      BY <2>1 DEF Ingest
    <3>2. m \in MODELS /\ MaxVersions \in Nat
      BY JobsAssumption
    <3>3. /\ rows'[m] \in Seq({"CANDIDATE", "STABLE", "ACTIVE"})
          /\ Len(rows'[m]) \in 1..MaxVersions
          /\ \A n \in MODELS \ {m} : rows'[n] = rows[n]
      BY <3>1, <3>2 DEF RowsOK
    <3>4. RowsOK'
      <4>1. rows' = [n \in MODELS |-> rows'[n]]
        BY <3>1 DEF RowsOK
      <4>2. \A n \in MODELS : /\ rows'[n] \in Seq({"CANDIDATE", "STABLE", "ACTIVE"})
                              /\ Len(rows'[n]) \in 1..MaxVersions
        BY <3>3 DEF RowsOK
      <4> QED BY <4>1, <4>2 DEF RowsOK
    <3> QED BY <2>1, <3>4 DEF Ingest, TypeOK
  <2>2. CASE OtherSwitch
    BY <2>2, FlipFacts DEF OtherSwitch, TypeOK
  <2>3. CASE ContainerUp
    BY <2>3 DEF ContainerUp, registryVars, RowsOK, TypeOK
  <2>4. CASE ContainerDown
    BY <2>4 DEF ContainerDown, registryVars, RowsOK, TypeOK
  <2> QED BY <2>1, <2>2, <2>3, <2>4
<1> QED BY <1>1, <1>2, <1>3, OutsideStep

(* The newest of the STABLE versions is one of them.                       *)
LEMMA NewestStable ==
  ASSUME IInv, NEW m \in MODELS, StableVersions(m) # {}
  PROVE  Max(StableVersions(m)) \in 0..MaxVersions
<1> DEFINE S == StableVersions(m)
<1>1. S \subseteq 1..MaxVersions
  BY JobsAssumption DEF StableVersions, IInv, RowsOK
<1>2. \E v \in S : \A w \in S : w <= v
  <2>1. S \subseteq Nat /\ S # {} /\ \A v \in S : v <= MaxVersions
    BY <1>1, JobsAssumption
  <2> HIDE DEF S
  <2> QED BY <2>1, JobsAssumption, GreatestNatural
<1> HIDE DEF S
<1>3. Max(S) \in S
  BY <1>2 DEF Max
<1> QED BY <1>1, <1>3, JobsAssumption DEF S

(* The steps of a build that write nothing: its phase changes only when it *)
(* is over.                                                                *)
LEMMA QuietBuildStep ==
  ASSUME IInv, NEW b \in Builds,
         \/ StartBuild(b) \/ RestartStatement(b) \/ WaitStatement(b)
         \/ QueryStatement(b) \/ RegisterStatement(b) \/ PostAlways(b) \/ Abort(b)
  PROVE  /\ IInv' /\ UNCHANGED <<requested, active, call>>
         /\ \A c \in Builds \ {b} : builds'[c] = builds[c]
         /\ builds[b].stage \in {"queued", "running", "post"}
         /\ builds'[b].stage \in {"running", "post", "done", "cancelled"}
         /\ builds'[b].wrote = builds[b].wrote /\ builds'[b].target = builds[b].target
<1> USE DEF IInv
<1>1. builds[b] \in Build /\ BuildOK(b)
  BY DEF TypeOK
<1>2. /\ RowsOK' = RowsOK \/ ~UNCHANGED rows
      /\ UNCHANGED active => active' \in [model : MODELS, version : 1..MaxVersions]
      /\ UNCHANGED healthy => healthy' \subseteq MODELS
  BY DEF RowsOK, TypeOK
<1>3. CASE \E next \in Build :
             /\ Becomes(b, next) /\ BuildOK(b)' /\ next.job = builds[b].job
             /\ next.target = builds[b].target /\ next.wrote = builds[b].wrote
             /\ builds[b].stage \in {"queued", "running", "post"}
             /\ next.stage \in {"running", "post", "done", "cancelled"}
             /\ next.stage = "running" => Turn(b)
             /\ next.stage \in {"post", "done"} => Started(b)
  <2>1. PICK next \in Build :
             /\ Becomes(b, next) /\ BuildOK(b)' /\ next.job = builds[b].job
             /\ next.target = builds[b].target /\ next.wrote = builds[b].wrote
             /\ builds[b].stage \in {"queued", "running", "post"}
             /\ next.stage \in {"running", "post", "done", "cancelled"}
             /\ next.stage = "running" => Turn(b)
             /\ next.stage \in {"post", "done"} => Started(b)
    BY <1>3
  <2>2. /\ builds' = [builds EXCEPT ![b] = next]
        /\ UNCHANGED <<requested, rows, active, healthy, call>>
    BY <2>1 DEF Becomes, registryVars
  <2>3. builds'[b] = next /\ \A c \in Builds \ {b} : builds'[c] = builds[c]
    BY <2>2 DEF TypeOK
  <2>4. RowsOK'
    BY <2>2 DEF RowsOK
  <2>5. IInv'
    BY <1>2, <2>1, <2>2, <2>4, BuildStep
  <2> QED BY <2>1, <2>2, <2>3, <2>5
<1>4. ASSUME NEW next \in Build, Becomes(b, next) PROVE builds'[b] = next /\ UNCHANGED requested
  BY <1>4 DEF Becomes, TypeOK
<1>5. CASE StartBuild(b)
  <2> DEFINE next == [builds[b] EXCEPT !.stage = "running"]
  <2>1. /\ next \in Build /\ next.stage = "running" /\ next.job = builds[b].job
        /\ next.target = builds[b].target /\ next.wrote = builds[b].wrote
        /\ next.at = builds[b].at /\ next.result = builds[b].result
    BY <1>1 DEF Build
  <2>2. Becomes(b, next) /\ Turn(b) /\ builds[b].stage = "queued"
    BY <1>5 DEF StartBuild
  <2> HIDE DEF next
  <2>3. builds'[b] = next /\ UNCHANGED requested
    BY <1>4, <2>1, <2>2
  <2>4. /\ builds[b].at = 1 /\ builds[b].wrote = 0 /\ builds[b].result = "running"
        /\ Len(Script(builds[b].job)) \in 4..8
    BY <1>1, <2>2, ScriptFacts DEF BuildOK, Build
  <2>5. /\ next.at = 1 /\ next.wrote = 0 /\ next.result = "running"
        /\ next.at <= Len(Script(next.job)) /\ ~(b > requested)
    BY <1>1, <2>1, <2>2, <2>4 DEF BuildOK
  <2>6. BuildOK(b)'
    BY <2>1, <2>3, <2>5 DEF BuildOK
  <2> QED BY <1>3, <2>1, <2>2, <2>6
<1>6. CASE PostAlways(b)
  <2> DEFINE next == [builds[b] EXCEPT !.stage = "done"]
  <2>1. /\ next \in Build /\ next.stage = "done" /\ next.job = builds[b].job
        /\ next.target = builds[b].target /\ next.wrote = builds[b].wrote
        /\ next.at = builds[b].at /\ next.result = builds[b].result
    BY <1>1 DEF Build
  <2>2. Becomes(b, next) /\ builds[b].stage = "post"
    BY <1>6 DEF PostAlways
  <2> HIDE DEF next
  <2>3. builds'[b] = next /\ UNCHANGED requested
    BY <1>4, <2>1, <2>2
  <2>4. BuildOK(b)'
    BY <1>1, <2>1, <2>2, <2>3 DEF BuildOK
  <2> QED BY <1>3, <2>1, <2>2, <2>4 DEF Started
<1>7. CASE builds[b].stage = "queued" /\ Abort(b)
  <2> DEFINE mid  == [builds[b] EXCEPT !.stage = "cancelled"]
             next == [mid EXCEPT !.result = "ABORTED"]
  <2>1. /\ mid \in Build /\ mid.stage = "cancelled" /\ mid.job = builds[b].job
        /\ mid.target = builds[b].target /\ mid.wrote = builds[b].wrote
        /\ mid.at = builds[b].at
    BY <1>1 DEF Build
  <2>2. Becomes(b, next)
    BY <1>7 DEF Abort
  <2> HIDE DEF mid
  <2>3. /\ next \in Build /\ next.stage = "cancelled" /\ next.job = builds[b].job
        /\ next.target = builds[b].target /\ next.wrote = builds[b].wrote
        /\ next.at = builds[b].at /\ next.result = "ABORTED"
    BY <2>1 DEF Build, Result
  <2> HIDE DEF next
  <2>4. builds'[b] = next /\ UNCHANGED requested
    BY <1>4, <2>2, <2>3
  <2>5. BuildOK(b)'
    BY <1>1, <1>7, <2>3, <2>4 DEF BuildOK
  <2> QED BY <1>3, <1>7, <2>2, <2>3, <2>5
<1>8. ASSUME NEW r \in {"FAILURE", "ABORTED"}, builds[b].stage = "running",
             Becomes(b, Ended(builds[b], r))
      PROVE  /\ IInv' /\ UNCHANGED <<requested, active, call>>
             /\ \A c \in Builds \ {b} : builds'[c] = builds[c]
             /\ builds'[b].stage = "post"
             /\ builds'[b].wrote = builds[b].wrote /\ builds'[b].target = builds[b].target
  <2> DEFINE mid  == [builds[b] EXCEPT !.stage = "post"]
             next == [mid EXCEPT !.result = r]
  <2>1. /\ builds' = [builds EXCEPT ![b] = Ended(builds[b], r)]
        /\ UNCHANGED <<requested, rows, active, healthy, call>>
    BY <1>8 DEF Becomes, registryVars
  <2>2. IInv'
    BY <1>8, <2>1, EndStep
  <2>3. /\ mid \in Build /\ mid.stage = "post"
        /\ mid.target = builds[b].target /\ mid.wrote = builds[b].wrote
    BY <1>1 DEF Build
  <2>4. Ended(builds[b], r) = next
    BY DEF Ended
  <2> HIDE DEF mid
  <2>5. next.stage = "post" /\ next.target = mid.target /\ next.wrote = mid.wrote
    BY <2>3 DEF Build
  <2>6. builds'[b] = next /\ \A c \in Builds \ {b} : builds'[c] = builds[c]
    BY <2>1, <2>4 DEF TypeOK
  <2> QED BY <2>1, <2>2, <2>3, <2>5, <2>6
<1>9. ASSUME NEW v \in 0..MaxVersions, builds[b].stage = "running", Statement(b) # "flip",
             builds' = [builds EXCEPT ![b] = Advanced([builds[b] EXCEPT !.stable = v])],
             UNCHANGED <<requested, call, rows, active>>, healthy' \subseteq MODELS
      PROVE  /\ IInv' /\ UNCHANGED <<requested, active, call>>
             /\ \A c \in Builds \ {b} : builds'[c] = builds[c]
             /\ builds'[b].stage \in {"running", "post"}
             /\ builds'[b].wrote = builds[b].wrote /\ builds'[b].target = builds[b].target
  <2> DEFINE build == [builds[b] EXCEPT !.stable = v]
  <2>1. /\ build \in Build /\ build.stage = "running" /\ build.result = "running"
        /\ build.at <= Len(Script(build.job)) /\ build.wrote = builds[b].wrote
        /\ build.target = builds[b].target
    BY <1>1, <1>9 DEF BuildOK, Build
  <2>2. IInv'
    BY <1>9, AdvanceStep
  <2>3. builds'[b] = Advanced(build) /\ \A c \in Builds \ {b} : builds'[c] = builds[c]
    BY <1>9 DEF TypeOK
  <2> HIDE DEF build
  <2>4. /\ Advanced(build).stage \in {"running", "post"}
        /\ Advanced(build).wrote = build.wrote /\ Advanced(build).target = build.target
    BY <2>1, AdvancedFacts
  <2> QED BY <1>9, <2>1, <2>2, <2>3, <2>4
<1>10. builds[b] = [builds[b] EXCEPT !.stable = builds[b].stable]
       /\ builds[b].stable \in 0..MaxVersions
  BY <1>1 DEF Build
<1>11. CASE RestartStatement(b) \/ WaitStatement(b)
  <2>1. /\ builds[b].stage = "running" /\ Statement(b) # "flip"
        /\ builds' = [builds EXCEPT ![b] = Advanced(builds[b])]
        /\ UNCHANGED <<requested, call, rows, active>> /\ healthy' \subseteq MODELS
    BY <1>11 DEF RestartStatement, WaitStatement, At, Becomes, registryVars, TypeOK
  <2> QED BY <1>9, <1>10, <2>1
<1>12. CASE QueryStatement(b)
  <2> DEFINE stable == StableVersions(builds[b].target)
  <2>1. /\ builds[b].stage = "running" /\ Statement(b) # "flip"
        /\ UNCHANGED <<requested, call, rows, active, healthy>>
    BY <1>12 DEF QueryStatement, At, Becomes, registryVars
  <2>2. CASE Becomes(b, Ended(builds[b], "FAILURE"))
    BY <1>8, <2>1, <2>2
  <2>3. CASE /\ stable # {}
             /\ Becomes(b, Advanced([builds[b] EXCEPT !.stable = Max(stable)]))
    <3>1. Max(stable) \in 0..MaxVersions
      BY <1>1, <2>3, NewestStable DEF Build
    <3>2. builds' = [builds EXCEPT
                       ![b] = Advanced([builds[b] EXCEPT !.stable = Max(stable)])]
      BY <2>3 DEF Becomes
    <3>3. healthy' \subseteq MODELS
      BY <2>1 DEF TypeOK
    <3> QED BY <1>9, <2>1, <3>1, <3>2, <3>3
  <2> QED BY <1>12, <2>2, <2>3 DEF QueryStatement
<1>13. CASE RegisterStatement(b)
  <2>1. /\ builds[b].stage = "running" /\ Statement(b) # "flip"
        /\ UNCHANGED <<requested, call, rows, active, healthy>>
    BY <1>13 DEF RegisterStatement, At, Becomes, registryVars
  <2>2. CASE Becomes(b, Advanced(builds[b]))
    <3>1. healthy' \subseteq MODELS /\ builds' = [builds EXCEPT ![b] = Advanced(builds[b])]
      BY <2>1, <2>2 DEF TypeOK, Becomes
    <3> QED BY <1>9, <1>10, <2>1, <3>1
  <2>3. CASE Becomes(b, Ended(builds[b], "FAILURE"))
    BY <1>8, <2>1, <2>3
  <2> QED BY <1>13, <2>2, <2>3 DEF RegisterStatement
<1>14. CASE builds[b].stage = "running" /\ Abort(b)
  BY <1>8, <1>14 DEF Abort
<1>15. CASE builds[b].stage = "post" /\ Abort(b)
  <2> DEFINE mid  == [builds[b] EXCEPT !.stage = "done"]
             next == [mid EXCEPT !.result = "ABORTED"]
  <2>1. /\ mid \in Build /\ mid.stage = "done" /\ mid.job = builds[b].job
        /\ mid.target = builds[b].target /\ mid.wrote = builds[b].wrote
        /\ mid.at = builds[b].at
    BY <1>1 DEF Build
  <2>2. Becomes(b, next)
    BY <1>15 DEF Abort
  <2> HIDE DEF mid
  <2>3. /\ next \in Build /\ next.stage = "done" /\ next.job = builds[b].job
        /\ next.target = builds[b].target /\ next.wrote = builds[b].wrote
        /\ next.at = builds[b].at /\ next.result = "ABORTED"
    BY <2>1 DEF Build, Result
  <2> HIDE DEF next
  <2>4. builds'[b] = next /\ UNCHANGED requested
    BY <1>4, <2>2, <2>3
  <2>5. BuildOK(b)'
    BY <1>1, <1>15, <2>3, <2>4 DEF BuildOK
  <2> QED BY <1>3, <1>15, <2>2, <2>3, <2>5 DEF Started
<1> QED BY <1>5, <1>6, <1>7, <1>11, <1>12, <1>13, <1>14, <1>15 DEF Abort

LEMMA NextIInv == IInv /\ [Next]_vars => IInv'
<1> SUFFICES ASSUME IInv, [Next]_vars PROVE IInv'
  OBVIOUS
<1>1. CASE \E b \in Builds : Step(b) \/ Abort(b)
  BY <1>1, FlipStep, QuietBuildStep DEF Step
<1>2. CASE Trigger \/ HandTrigger
  BY <1>2, TriggerStep
<1>3. CASE Agent \/ AgentDies
  BY <1>3, ClientStep DEF Agent
<1>4. CASE Ingest \/ OtherSwitch \/ ContainerUp \/ ContainerDown
  BY <1>4, AroundStep
<1>5. CASE UNCHANGED vars
  <2>1. UNCHANGED <<builds, requested, rows, active, healthy, call>>
    BY <1>5 DEF vars, jenkinsVars, registryVars
  <2>2. /\ RowsOK' /\ CallOK' /\ call' \in CallType /\ healthy' \subseteq MODELS
        /\ active' \in [model : MODELS, version : 1..MaxVersions]
    BY <2>1 DEF IInv, TypeOK, RowsOK, CallOK, CallType
  <2> QED BY <2>1, <2>2, OutsideStep
<1> QED BY <1>1, <1>2, <1>3, <1>4, <1>5 DEF Next

(* The inductive invariant.                                                *)
THEOREM InvariantHolds == Spec => []IInv
  BY InitIInv, NextIInv, PTL DEF Spec

(* The jobs, the rows and the client stay in their types.                  *)
THEOREM JobsTyped == Spec => []TypeOK
<1>1. IInv => TypeOK
  BY DEF IInv
<1> QED BY <1>1, InvariantHolds, PTL

(* No older switch can still be made when a success is reported            *)
(* (run_job, disableConcurrentBuilds).                                     *)
THEOREM SuccessesAreFinal == Spec => []SuccessIsFinal
<1>1. IInv => SuccessIsFinal
  <2> SUFFICES ASSUME IInv, call.verdict = "success",
                      NEW c \in 1..(call.build - 1), builds[c].job = "switch"
               PROVE  Over(c)
    BY DEF SuccessIsFinal
  <2>1. /\ call.build \in Builds /\ builds[call.build].job = "switch"
        /\ builds[call.build].stage = "done"
    BY DEF IInv, CallOK
  <2>2. c \in Builds /\ c < call.build
    BY <2>1, JobsAssumption DEF Builds
  <2>3. Started(call.build)
    BY <2>1 DEF Started
  <2> QED BY <2>1, <2>2, <2>3 DEF IInv, InOrder
<1> QED BY <1>1, InvariantHolds, PTL

(***************************************************************************)
(* The jobs implement the contract of an executor.                         *)
(***************************************************************************)
LEMMA InitContract == Init => Contract!Init
<1> SUFFICES ASSUME Init PROVE Contract!Init
  OBVIOUS
<1>1. /\ builds = [b \in Builds |-> NoneYet] /\ NoneYet.stage = "none"
      /\ NoneYet.target \in MODELS
  BY JobsAssumption DEF Init, NoneYet
<1>2. active.model \in MODELS /\ call.pc = "idle" /\ call.verdict = "none"
  BY DEF Init, Idle
<1>3. \A b \in Builds : Phase(b) = "free"
  BY <1>1 DEF Phase
<1> QED BY <1>1, <1>2, <1>3 DEF Contract!Init

(* What the contract sees of the builds and of the client.                 *)
PhaseOf  == [b \in Builds |-> Phase(b)]
WantedOf == [b \in Builds |-> builds[b].target]
Waiting  == IF call.pc = "idle" THEN NoBuild ELSE call.build

(* Only one build moves.                                                   *)
LEMMA OnePhase ==
  ASSUME NEW b \in Builds, \A c \in Builds \ {b} : builds'[c] = builds[c],
         builds'[b].target = builds[b].target
  PROVE  /\ WantedOf' = WantedOf
         /\ PhaseOf' = [PhaseOf EXCEPT ![b] = Phase(b)']
         /\ Phase(b)' = Phase(b) => PhaseOf' = PhaseOf
<1>1. \A c \in Builds \ {b} : Phase(c)' = Phase(c)
  BY DEF Phase, Over
<1>2. \A c \in Builds : builds'[c].target = builds[c].target
  OBVIOUS
<1> QED BY <1>1, <1>2 DEF PhaseOf, WantedOf

LEMMA BuildContract ==
  ASSUME IInv, NEW b \in Builds, Step(b) \/ Abort(b)
  PROVE  [Contract!Next]_Contract!vars
<1> USE DEF IInv
<1>1. CASE FlipStatement(b)
  <2>1. /\ builds[b].wrote = 0 /\ builds[b].stage = "running"
        /\ UNCHANGED <<call, requested>>
    BY <1>1, FlipStep DEF FlipStatement, Becomes
  <2>2. Phase(b) = "owed" /\ Waiting' = Waiting
    BY <2>1 DEF Phase, Over, Waiting
  <2>3. CASE UNCHANGED active /\ builds' = [builds EXCEPT ![b] = Ended(@, "FAILURE")]
    <3>1. builds[b] \in Build
      BY DEF TypeOK
    <3> DEFINE mid == [builds[b] EXCEPT !.stage = "post"]
    <3>2. mid.stage = "post" /\ mid.wrote = 0 /\ mid.target = builds[b].target /\ mid \in Build
      BY <2>1, <3>1 DEF Build
    <3>3. Ended(builds[b], "FAILURE") = [mid EXCEPT !.result = "FAILURE"]
      BY DEF Ended
    <3> HIDE DEF mid
    <3>4. /\ builds'[b].stage = "post" /\ builds'[b].wrote = 0
          /\ builds'[b].target = builds[b].target
          /\ \A c \in Builds \ {b} : builds'[c] = builds[c]
      BY <2>3, <3>2, <3>3 DEF TypeOK, Build
    <3>5. Phase(b)' = "owed"
      BY <3>4 DEF Phase, Over
    <3> QED BY <2>1, <2>2, <2>3, <3>4, <3>5, OnePhase
            DEF Contract!vars, PhaseOf, WantedOf, Waiting
  <2>4. CASE /\ active'.model = builds[b].target /\ builds'[b].wrote # 0
             /\ builds'[b].target = builds[b].target
             /\ \A c \in Builds \ {b} : builds'[c] = builds[c]
    <3>1. builds'[b].stage # "none"
      <4>1. BuildOK(b)' /\ BuildOK(b)
        BY <1>1, FlipStep
      <4> QED BY <2>1, <4>1 DEF BuildOK
    <3>2. Phase(b)' = "written"
      BY <2>4, <3>1 DEF Phase
    <3>3. /\ PhaseOf[b] = "owed" /\ PhaseOf' = [PhaseOf EXCEPT ![b] = "written"]
          /\ active'.model = WantedOf[b] /\ WantedOf' = WantedOf
      BY <2>2, <2>4, <3>2, OnePhase DEF PhaseOf, WantedOf
    <3>4. Contract!Write(b)
      BY <2>1, <2>2, <3>3 DEF Contract!Write, PhaseOf, WantedOf, Waiting
    <3> QED BY <3>4 DEF Contract!Next
  <2> QED BY <1>1, <2>3, <2>4, FlipStep
<1>2. CASE ~FlipStatement(b)
  <2>1. /\ UNCHANGED <<requested, active, call>>
        /\ \A c \in Builds \ {b} : builds'[c] = builds[c]
        /\ builds[b].stage \in {"queued", "running", "post"}
        /\ builds'[b].stage \in {"running", "post", "done", "cancelled"}
        /\ builds'[b].wrote = builds[b].wrote /\ builds'[b].target = builds[b].target
    BY <1>2, QuietBuildStep DEF Step
  <2>2. WantedOf' = WantedOf /\ Waiting' = Waiting /\ active'.model = active.model
    BY <2>1, OnePhase DEF Waiting
  <2>3. Phase(b) \in {"owed", "written"}
    BY <2>1 DEF Phase, Over
  <2>4. CASE Phase(b)' = Phase(b)
    <3>1. PhaseOf' = PhaseOf
      BY <2>1, <2>4, OnePhase
    <3> QED BY <2>1, <2>2, <3>1 DEF Contract!vars, PhaseOf, WantedOf, Waiting
  <2>5. CASE Phase(b)' # Phase(b)
    <3>1. Phase(b) = "owed" /\ Phase(b)' = "dropped"
      BY <2>1, <2>5 DEF Phase, Over
    <3>2. PhaseOf[b] = "owed" /\ PhaseOf' = [PhaseOf EXCEPT ![b] = "dropped"]
      BY <2>1, <3>1, OnePhase DEF PhaseOf
    <3>3. Contract!Drop(b)
      BY <2>1, <2>2, <3>2 DEF Contract!Drop, PhaseOf, WantedOf, Waiting
    <3> QED BY <3>3 DEF Contract!Next
  <2> QED BY <2>4, <2>5
<1> QED BY <1>1, <1>2

LEMMA EnqueueContract ==
  ASSUME IInv, NEW job \in Job, NEW target \in MODELS, Enqueue(job, target),
         UNCHANGED active, NEW n, n = requested + 1,
         \/ UNCHANGED call
         \/ call.pc = "idle" /\ WaitFor(n)
         \/ call.pc = "idle" /\ call' = [Idle EXCEPT !.verdict = "failed"]
  PROVE  Contract!Request(n)
<1>1. /\ n \in Builds /\ builds[n].stage = "none"
      /\ builds'[n].stage = "queued" /\ builds'[n].wrote = 0 /\ builds'[n].target = target
      /\ \A b \in Builds \ {n} : builds'[b] = builds[b]
  BY EnqueueStep
<1>2. /\ Phase(n) = "free" /\ Phase(n)' = "owed"
      /\ \A b \in Builds \ {n} : Phase(b)' = Phase(b)
  BY <1>1 DEF Phase, Over
<1>3. /\ PhaseOf[n] = "free" /\ PhaseOf' = [PhaseOf EXCEPT ![n] = "owed"]
      /\ WantedOf' = [WantedOf EXCEPT ![n] = target]
  BY <1>1, <1>2 DEF PhaseOf, WantedOf
<1>4. \/ Waiting = NoBuild /\ Waiting' = n /\ call'.verdict = "none"
      \/ Waiting = NoBuild /\ UNCHANGED Waiting /\ call'.verdict = "failed"
      \/ UNCHANGED <<Waiting, call.verdict>>
  <2>1. CASE UNCHANGED call
    BY <2>1 DEF Waiting
  <2>2. CASE call.pc = "idle" /\ WaitFor(n)
    <3>1. call'.pc = "queue" /\ call'.build = n /\ call'.verdict = "none"
      BY <2>2 DEF WaitFor
    <3> QED BY <2>2, <3>1 DEF Waiting
  <2>3. CASE call.pc = "idle" /\ call' = [Idle EXCEPT !.verdict = "failed"]
    <3>1. call'.pc = "idle" /\ call'.verdict = "failed"
      BY <2>3, CallShapes
    <3> QED BY <2>3, <3>1 DEF Waiting
  <2> QED BY <2>1, <2>2, <2>3
<1> QED BY <1>3, <1>4 DEF Contract!Request, PhaseOf, WantedOf, Waiting

LEMMA TriggerContract ==
  ASSUME IInv, Trigger \/ HandTrigger
  PROVE  Contract!Next
<1>1. UNCHANGED active
  BY DEF Trigger, HandTrigger, registryVars
<1>2. CASE HandTrigger
  <2>1. PICK r \in HandRequests : Enqueue(r.job, r.target)
    BY <1>2 DEF HandTrigger
  <2>2. r.job \in Job /\ r.target \in MODELS
    BY JobsAssumption
  <2>3. PICK n \in Builds : n = requested + 1
    BY <2>1, <2>2, EnqueueStep
  <2>4. Contract!Request(n)
    BY <1>1, <1>2, <2>1, <2>2, <2>3, EnqueueContract DEF HandTrigger
  <2> QED BY <2>4 DEF Contract!Next
<1>3. CASE Trigger
  <2>1. PICK target \in AgentTargets :
       \/ call' = [Idle EXCEPT !.verdict = "failed"] /\ UNCHANGED jenkinsVars
       \/ Enqueue("switch", target) /\ WaitFor(requested + 1)
       \/ Enqueue("switch", target) /\ call' = [Idle EXCEPT !.verdict = "failed"]
       \/ /\ \E b \in Builds : /\ builds[b].job = "switch" /\ builds[b].target = target
                               /\ builds[b].stage = "queued" /\ WaitFor(b)
          /\ UNCHANGED jenkinsVars
    BY <1>3 DEF Trigger
  <2>2. "switch" \in Job /\ target \in MODELS /\ call.pc = "idle"
    BY <1>3, JobsAssumption DEF Job, Trigger
  <2>3. CASE \/ Enqueue("switch", target) /\ WaitFor(requested + 1)
             \/ Enqueue("switch", target) /\ call' = [Idle EXCEPT !.verdict = "failed"]
    <3>1. PICK n \in Builds : n = requested + 1
      BY <2>2, <2>3, EnqueueStep
    <3>2. Contract!Request(n)
      BY <1>1, <2>2, <2>3, <3>1, EnqueueContract
    <3> QED BY <3>2 DEF Contract!Next
  <2>4. CASE call' = [Idle EXCEPT !.verdict = "failed"] /\ UNCHANGED jenkinsVars
    <3>1. UNCHANGED <<PhaseOf, WantedOf>>
      BY <2>4 DEF jenkinsVars, PhaseOf, WantedOf, Phase, Over
    <3>2. Waiting' = NoBuild /\ call'.verdict = "failed"
      BY <2>4, CallShapes DEF Waiting
    <3>3. Contract!Fail
      BY <1>1, <3>1, <3>2 DEF Contract!Fail, PhaseOf, WantedOf, Waiting
    <3> QED BY <3>3 DEF Contract!Next
  <2>5. CASE /\ \E b \in Builds : /\ builds[b].job = "switch" /\ builds[b].target = target
                                  /\ builds[b].stage = "queued" /\ WaitFor(b)
             /\ UNCHANGED jenkinsVars
    <3>1. PICK b \in Builds : /\ builds[b].job = "switch" /\ builds[b].stage = "queued"
                              /\ WaitFor(b)
      BY <2>5
    <3>2. UNCHANGED <<PhaseOf, WantedOf>>
      BY <2>5 DEF jenkinsVars, PhaseOf, WantedOf, Phase, Over
    <3>3. PhaseOf[b] = "owed"
      BY <3>1 DEF IInv, BuildOK, PhaseOf, Phase, Over
    <3>4. Waiting = NoBuild /\ Waiting' = b /\ call'.verdict = "none"
      BY <2>2, <3>1 DEF Waiting, WaitFor
    <3>5. Contract!Join(b)
      BY <1>1, <3>2, <3>3, <3>4 DEF Contract!Join, PhaseOf, WantedOf, Waiting
    <3> QED BY <3>5 DEF Contract!Next
  <2> QED BY <2>1, <2>3, <2>4, <2>5
<1> QED BY <1>2, <1>3

LEMMA ClientContract ==
  ASSUME IInv, PollQueue \/ PollBuild \/ AgentDies
  PROVE  [Contract!Next]_Contract!vars
<1>1. UNCHANGED <<PhaseOf, WantedOf, active>>
  BY ClientStep DEF PhaseOf, WantedOf, Phase, Over
<1>2. CASE /\ call'.pc # "idle" /\ call.pc # "idle"
           /\ call'.build = call.build /\ call'.verdict = call.verdict
  <2>1. UNCHANGED <<Waiting, call.verdict>>
    BY <1>2 DEF Waiting
  <2> QED BY <1>1, <2>1 DEF Contract!vars, PhaseOf, WantedOf, Waiting
<1>3. CASE call'.pc = "idle" /\ call'.verdict \in {"none", "failed"}
  <2>1. Waiting' = NoBuild
    BY <1>3 DEF Waiting
  <2>2. Contract!Fail
    BY <1>1, <1>3, <2>1 DEF Contract!Fail, PhaseOf, WantedOf, Waiting
  <2> QED BY <2>2 DEF Contract!Next
<1>4. CASE /\ call.pc # "idle" /\ builds[call.build].stage = "done"
           /\ builds[call.build].result = "SUCCESS"
           /\ call'.pc = "idle" /\ call'.verdict = "success"
  <2>1. /\ call.build \in Builds /\ builds[call.build].wrote # 0
    BY <1>4 DEF IInv, CallOK, BuildOK
  <2>2. Waiting \in Builds /\ PhaseOf[Waiting] = "written" /\ Waiting' = NoBuild
    BY <1>4, <2>1 DEF PhaseOf, Waiting, Phase
  <2>3. Contract!Succeed
    BY <1>1, <1>4, <2>2 DEF Contract!Succeed, PhaseOf, WantedOf, Waiting
  <2> QED BY <2>3 DEF Contract!Next
<1> QED BY <1>2, <1>3, <1>4, ClientStep

LEMMA AroundContract ==
  ASSUME IInv, Ingest \/ OtherSwitch \/ ContainerUp \/ ContainerDown
  PROVE  [Contract!Next]_Contract!vars
<1>1. UNCHANGED <<PhaseOf, WantedOf, Waiting, call>> /\ active'.model \in MODELS
  BY AroundStep DEF PhaseOf, WantedOf, Waiting, Phase, Over
<1>2. Contract!OtherWrite
  BY <1>1 DEF Contract!OtherWrite, PhaseOf, WantedOf, Waiting
<1> QED BY <1>2 DEF Contract!Next

(* Whatever Jenkins, its jobs and the network do, the agent may take       *)
(* run_job for an executor of which only the successes mean something.     *)
THEOREM JenkinsIsAnExecutor == Spec => ImplementsExecutor
<1>1. Init => Contract!Init
  BY InitContract
<1>2. IInv /\ [Next]_vars => [Contract!Next]_Contract!vars
  <2> SUFFICES ASSUME IInv, [Next]_vars PROVE [Contract!Next]_Contract!vars
    OBVIOUS
  <2>1. CASE \E b \in Builds : Step(b) \/ Abort(b)
    BY <2>1, BuildContract
  <2>2. CASE Trigger \/ HandTrigger
    BY <2>2, TriggerContract
  <2>3. CASE Agent \/ AgentDies
    BY <2>3, ClientContract DEF Agent
  <2>4. CASE Ingest \/ OtherSwitch \/ ContainerUp \/ ContainerDown
    BY <2>4, AroundContract
  <2>5. CASE UNCHANGED vars
    BY <2>5 DEF vars, jenkinsVars, registryVars, Contract!vars, Phase, Over
  <2> QED BY <2>1, <2>2, <2>3, <2>4, <2>5 DEF Next
<1> QED BY <1>1, <1>2, InvariantHolds, PTL DEF Spec, ImplementsExecutor, Contract!Spec
================================================================================
