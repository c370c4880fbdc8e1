---------------------------- MODULE RegistryProofs ----------------------------
(***************************************************************************)
(* Proofs about Registry, for any number of workers and versions and for   *)
(* both databases.                                                         *)
(***************************************************************************)
EXTENDS Registry, TLAPS

(* A request holds a version exactly while it is under way; two requests   *)
(* never hold an uncommitted promotion at the same time; and what is       *)
(* active when a promoted request commits is what it demotes or promotes.  *)
Holds == \A r \in Requests : req[r].version = NoVersion <=> req[r].stage = "idle"

OnePromoted ==
  \A r, q \in Requests : Promoted(r) /\ Promoted(q) => r = q

NoClash == \A r \in Requests : Promoted(r) => ~Clash(r)

IInv == TypeOK /\ SlotConsistent /\ Holds /\ OnePromoted /\ NoClash

(* The rows are empty and nobody is under way.                             *)
LEMMA InitIInv == Init => IInv
  BY RegistryAssumption
  DEF Init, IInv, TypeOK, Request, Idle, Absent, SlotConsistent, Active, Holds,
      OnePromoted, NoClash, Promoted

(* A step that leaves the tables alone and takes no request into           *)
(* "promoted" or "pointed" keeps everything but the shape of the request.  *)
LEMMA QuietStep ==
  ASSUME IInv, NEW r \in Requests, UNCHANGED <<rows, pointer>>,
         NEW t \in Request, req' = [req EXCEPT ![r] = t],
         t.stage \notin {"promoted", "pointed"},
         t.version = NoVersion <=> t.stage = "idle"
  PROVE  IInv'
<1> USE DEF IInv
<1>1. TypeOK'
  BY DEF TypeOK
<1>2. SlotConsistent'
  BY DEF SlotConsistent, Active
<1>3. Holds'
  BY DEF Holds, TypeOK
<1>4. \A q \in Requests : Promoted(q)' => Promoted(q) /\ req'[q] = req[q]
  BY DEF Promoted, TypeOK
<1>5. OnePromoted'
  BY <1>4 DEF OnePromoted
<1>6. NoClash'
  BY <1>4 DEF NoClash, Clash, Active
<1> QED BY <1>1, <1>2, <1>3, <1>5, <1>6

(* Rows that are not active come, and change their status.                 *)
LEMMA TableStep ==
  ASSUME IInv, Create \/ Retire
  PROVE  IInv'
<1> USE DEF IInv
<1>1. /\ rows' \in [Versions -> [status : VERSION_STATUS \cup {"ABSENT"}, is_active : BOOLEAN]]
      /\ \A v \in Versions : rows'[v].is_active = rows[v].is_active
      /\ UNCHANGED <<pointer, req>>
  <2>1. CASE Create
    <3>1. PICK v \in Versions, s \in {"CANDIDATE", "STABLE"} :
            /\ ~Exists(v)
            /\ rows' = [rows EXCEPT ![v] = [status |-> s, is_active |-> FALSE]]
      BY <2>1 DEF Create
    <3>2. rows[v].is_active = FALSE
      BY <3>1 DEF Exists, Absent
    <3>3. [status |-> s, is_active |-> FALSE]
            \in [status : VERSION_STATUS \cup {"ABSENT"}, is_active : BOOLEAN]
      BY DEF VERSION_STATUS
    <3>4. rows' \in [Versions -> [status : VERSION_STATUS \cup {"ABSENT"}, is_active : BOOLEAN]]
      BY <3>1, <3>3 DEF TypeOK
    <3>5. \A u \in Versions : rows'[u].is_active = rows[u].is_active
      BY <3>1, <3>2 DEF TypeOK
    <3> QED BY <2>1, <3>4, <3>5 DEF Create
  <2>2. CASE Retire
    BY <2>2 DEF Retire, TypeOK, VERSION_STATUS, RETIRED
  <2> QED BY <2>1, <2>2
<1>2. Active' = Active
  BY <1>1 DEF Active
<1>3. TypeOK'
  BY <1>1 DEF TypeOK
<1>4. SlotConsistent' /\ Holds' /\ OnePromoted'
  BY <1>1, <1>2 DEF SlotConsistent, Holds, OnePromoted, Promoted
<1>5. NoClash'
  BY <1>1, <1>2 DEF NoClash, Promoted, Clash
<1> QED BY <1>3, <1>4, <1>5

(* At the commit exactly the promoted version is active.                   *)
LEMMA CommitActivates ==
  ASSUME IInv, NEW r \in Requests, Commit(r)
  PROVE  req[r].version \in Versions /\ Active' = {req[r].version}
<1>1. req[r].version \in Versions
  BY DEF IInv, TypeOK, Request, Holds, Commit, CommitWith
<1>2. \A v \in Versions :
        v # req[r].version /\ v \notin req[r].demoted => ~rows[v].is_active
  BY DEF IInv, NoClash, Promoted, Clash, Active, Commit, CommitWith
<1>3. \A v \in Versions : rows'[v].is_active <=> v = req[r].version
  BY <1>1, <1>2 DEF Commit, CommitWith, IInv, TypeOK
<1> QED BY <1>1, <1>3 DEF Active

LEMMA NextIInv == IInv /\ [Next]_vars => IInv'
<1> SUFFICES ASSUME IInv, [Next]_vars PROVE IInv'
  OBVIOUS
<1>1. CASE Create \/ Retire
  BY <1>1, TableStep
<1>2. ASSUME NEW r \in Requests, Serve(r) PROVE IInv'
  <2> req[r] \in Request /\ RETIRED \subseteq VERSION_STATUS
    BY DEF IInv, TypeOK, VERSION_STATUS
  <2>1. CASE Lookup(r)
    <3>1. PICK v \in Versions :
            req' = [req EXCEPT ![r] = [Idle EXCEPT !.stage = "chosen", !.version = v]]
      BY <2>1 DEF Lookup
    <3> DEFINE t == [Idle EXCEPT !.stage = "chosen", !.version = v]
    <3>2. t \in Request /\ t.stage = "chosen" /\ t.version = v
      BY DEF Idle, Request
    <3>3. v # NoVersion
      BY RegistryAssumption
    <3> HIDE DEF t
    <3> QED BY <2>1, <3>1, <3>2, <3>3, QuietStep DEF Lookup, t
  <2>2. CASE SelectActive(r)
    <3> DEFINE t == [req[r] EXCEPT !.stage = "demoting",
                                   !.seen = Active \ {req[r].version}]
    <3>1. t \in Request /\ t.stage = "demoting" /\ t.version = req[r].version
      BY DEF Request, Active
    <3>2. t.version # NoVersion
      BY <2>2, <3>1 DEF IInv, Holds, SelectActive
    <3>3. req' = [req EXCEPT ![r] = t]
      BY <2>2 DEF SelectActive, IInv, TypeOK
    <3> HIDE DEF t
    <3> QED BY <2>2, <3>1, <3>2, <3>3, QuietStep DEF SelectActive
  <2>3. CASE Demote(r)
    <3> DEFINE t == [req[r] EXCEPT !.stage = "demoted", !.seen = {},
                                   !.demoted = req[r].seen \cap Active]
    <3>1. t \in Request /\ t.stage = "demoted" /\ t.version = req[r].version
      BY DEF Request, Active
    <3>2. t.version # NoVersion
      BY <2>3, <3>1 DEF IInv, Holds, Demote
    <3>3. req' = [req EXCEPT ![r] = t]
      BY <2>3 DEF Demote, IInv, TypeOK
    <3> HIDE DEF t
    <3> QED BY <2>3, <3>1, <3>2, <3>3, QuietStep DEF Demote
  <2>4. CASE Conflict(r) \/ Abort(r)
    <3>1. Idle \in Request /\ Idle.stage = "idle" /\ Idle.version = NoVersion
      BY DEF Idle, Request
    <3> QED BY <2>4, <3>1, QuietStep DEF Conflict, Abort
  <2>5. CASE Promote(r)
    <3>1. /\ UNCHANGED <<rows, pointer>>
          /\ req' = [req EXCEPT ![r].stage = "promoted"]
          /\ req[r].stage = "demoted" /\ ~Clash(r)
          /\ \A q \in Requests \ {r} : ~Promoted(q)
      BY <2>5 DEF Promote, PromoteUnblocked, Others
    <3>2. TypeOK' /\ Holds' /\ SlotConsistent'
      BY <3>1 DEF IInv, TypeOK, Request, Holds, SlotConsistent, Active
    <3>3. \A q \in Requests : Promoted(q)' => q = r
      BY <3>1 DEF IInv, TypeOK, Promoted
    <3>4. ~Clash(r)'
      BY <3>1 DEF Clash, Active, IInv, TypeOK, Request
    <3> QED BY <3>2, <3>3, <3>4 DEF IInv, OnePromoted, NoClash
  <2>6. CASE Point(r)
    <3>1. /\ UNCHANGED <<rows, pointer>>
          /\ req' = [req EXCEPT ![r].stage = "pointed"]
          /\ req[r].stage = "promoted"
      BY <2>6 DEF Point
    <3>2. TypeOK' /\ Holds' /\ SlotConsistent'
      BY <3>1 DEF IInv, TypeOK, Request, Holds, SlotConsistent, Active
    <3>3. \A q \in Requests : Promoted(q)' <=> Promoted(q)
      BY <3>1 DEF IInv, TypeOK, Promoted
    <3>4. \A q \in Requests : Clash(q)' <=> Clash(q)
      BY <3>1 DEF Clash, Active, IInv, TypeOK, Request
    <3> QED BY <3>2, <3>3, <3>4 DEF IInv, OnePromoted, NoClash
  <2>7. CASE Commit(r)
    <3>1. req[r].version \in Versions /\ Active' = {req[r].version}
      BY <2>7, CommitActivates
    <3>2. pointer' = req[r].version /\ req' = [req EXCEPT ![r] = Idle]
      BY <2>7 DEF Commit, CommitWith
    <3>3. SlotConsistent'
      BY <3>1, <3>2, RegistryAssumption DEF SlotConsistent
    <3>4. TypeOK' /\ Holds'
      <4>1. rows' \in [Versions -> [status : VERSION_STATUS \cup {"ABSENT"},
                                    is_active : BOOLEAN]]
        BY <2>7 DEF Commit, CommitWith, IInv, TypeOK, VERSION_STATUS
      <4> QED BY <4>1, <3>1, <3>2 DEF IInv, TypeOK, Holds, Idle, Request
    <3>5. \A q \in Requests : ~Promoted(q)'
      BY <2>7, <3>2 DEF IInv, OnePromoted, Promoted, Commit, CommitWith, Idle, TypeOK
    <3> QED BY <3>3, <3>4, <3>5 DEF IInv, OnePromoted, NoClash
  <2> QED BY <1>2, <2>1, <2>2, <2>3, <2>4, <2>5, <2>6, <2>7 DEF Serve
<1>3. CASE UNCHANGED vars
  BY <1>3 DEF vars, IInv, TypeOK, SlotConsistent, Active, Holds, OnePromoted,
     Promoted, NoClash, Clash
<1> QED BY <1>1, <1>2, <1>3 DEF Next

(* The invariant holds in every reachable state.                           *)
THEOREM InvariantHolds == Spec => []IInv
  BY InitIInv, NextIInv, PTL DEF Spec

(* switch_to keeps the committed tables consistent: the pointer names the  *)
(* one active version whatever the workers do at the same time, wherever   *)
(* they are interrupted, and on both databases.                            *)
THEOREM SlotStaysConsistent == Spec => []SlotConsistent
<1>1. IInv => SlotConsistent
  BY DEF IInv
<1> QED BY <1>1, InvariantHolds, PTL

(* Every request is in one of the stages of switch_to, and a row's status  *)
(* is one the model declares (ModelVersion.VERSION_STATUS).                *)
THEOREM TypeCorrect == Spec => []TypeOK
<1>1. IInv => TypeOK
  BY DEF IInv
<1> QED BY <1>1, InvariantHolds, PTL

(* The flag and the status of a version row say the same, although         *)
(* switch_to writes them for two sets of rows in two statements, and is    *)
(* aborted between them (models.py:96-101).                                *)
THEOREM StatusAndFlagAgree == Spec => []StatusFollowsFlag
<1>1. Init => StatusFollowsFlag
  BY DEF Init, Absent, StatusFollowsFlag
<1>2. IInv /\ StatusFollowsFlag /\ [Next]_vars => StatusFollowsFlag'
  <2> SUFFICES ASSUME IInv, StatusFollowsFlag, [Next]_vars PROVE StatusFollowsFlag'
    OBVIOUS
  <2> USE DEF IInv, TypeOK, StatusFollowsFlag
  <2>1. CASE Create
    BY <2>1 DEF Create
  <2>2. CASE Retire
    BY <2>2 DEF Retire, RETIRED
  <2>3. CASE \E r \in Requests : Commit(r)
    BY <2>3 DEF Commit, CommitWith
  <2>4. CASE UNCHANGED rows
    BY <2>4
  <2> QED
    BY <2>1, <2>2, <2>3, <2>4
    DEF Next, Serve, Lookup, SelectActive, Demote, Promote, Conflict, Point, Abort, vars
<1> QED BY <1>1, <1>2, InvariantHolds, PTL DEF Spec

(* Every step of the registry is a step of the atomic slot or invisible.   *)
LEMMA StepSimulation == IInv /\ IInv' /\ [Next]_vars => [Slot!Next]_(Slot!slotVars)
<1> SUFFICES ASSUME IInv, IInv', [Next]_vars PROVE [Slot!Next]_(Slot!slotVars)
  OBVIOUS
<1> DEFINE w == [r \in Requests |-> req[r].version]
<1>1. CASE Create \/ Retire
  <2>1. Active' = Active /\ UNCHANGED <<pointer, req>>
    BY <1>1 DEF Create, Retire, Active, IInv, TypeOK, Exists, Absent
  <2> QED BY <2>1 DEF Slot!slotVars
<1>2. ASSUME NEW r \in Requests, Serve(r) PROVE [Slot!Next]_(Slot!slotVars)
  <2>1. CASE Lookup(r)
    <3>1. PICK v \in Versions :
            /\ req' = [req EXCEPT ![r] = [Idle EXCEPT !.stage = "chosen", !.version = v]]
            /\ UNCHANGED <<rows, pointer>>
      BY <2>1 DEF Lookup
    <3> DEFINE t == [Idle EXCEPT !.stage = "chosen", !.version = v]
    <3>3. t.version = v
      BY DEF Idle
    <3> HIDE DEF t
    <3>4. w' = [w EXCEPT ![r] = v]
      BY <3>1, <3>3 DEF t, IInv, TypeOK
    <3>2. w[r] = NoVersion
      BY <2>1 DEF IInv, Holds, Lookup
    <3> QED BY <3>1, <3>2, <3>4 DEF Slot!Next, Slot!Ask, Active
  <2>2. CASE SelectActive(r) \/ Demote(r) \/ Promote(r) \/ Point(r)
    <3>1. /\ \A q \in Requests : req'[q].version = req[q].version
          /\ UNCHANGED <<rows, pointer>>
      BY <2>2 DEF SelectActive, Demote, Promote, Point, IInv, TypeOK, Request
    <3>2. w' = w
      BY <3>1
    <3> QED BY <3>1, <3>2 DEF Slot!slotVars, Active
  <2>3. CASE Conflict(r) \/ Abort(r)
    <3>0. req' = [req EXCEPT ![r] = Idle] /\ UNCHANGED <<rows, pointer>>
      BY <2>3 DEF Conflict, Abort
    <3>1. w' = [w EXCEPT ![r] = NoVersion] /\ UNCHANGED <<rows, pointer>>
      BY <3>0 DEF Idle, IInv, TypeOK
    <3>2. w[r] # NoVersion
      BY <2>3 DEF IInv, Holds, Conflict, Abort, PromoteUnblocked
    <3> QED BY <3>1, <3>2 DEF Slot!Next, Slot!Refuse, Active
  <2>4. CASE Commit(r)
    <3>1. /\ w' = [w EXCEPT ![r] = NoVersion] /\ pointer' = w[r] /\ Active' = {w[r]}
      BY <2>4, CommitActivates DEF Commit, CommitWith, Idle, IInv, TypeOK
    <3>2. w[r] # NoVersion
      BY <2>4 DEF IInv, Holds, Commit, CommitWith
    <3> QED BY <3>1, <3>2 DEF Slot!Next, Slot!Grant
  <2> QED BY <1>2, <2>1, <2>2, <2>3, <2>4 DEF Serve
<1>3. CASE UNCHANGED vars
  BY <1>3 DEF vars, Slot!slotVars, Active
<1> QED BY <1>1, <1>2, <1>3 DEF Next

(* The registry implements the atomic serving slot of ActiveSlot: each     *)
(* request switches at one instant or not at all.                          *)
THEOREM RegistryImplementsSlot == Spec => ImplementsSlot
<1>1. Init => Slot!Init
  BY DEF Init, Slot!Init, Active, Absent, Idle
<1> QED BY <1>1, StepSimulation, InvariantHolds, PTL DEF Spec, ImplementsSlot, Slot!Spec
===============================================================================
