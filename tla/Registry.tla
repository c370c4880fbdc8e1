------------------------------- MODULE Registry -------------------------------
(***************************************************************************)
(* The registry of the control plane: the version rows, the singleton      *)
(* pointer, and POST /api/active-model run by several workers at once      *)
(* (registry_app/views.py and models.py).                                  *)
(*                                                                         *)
(* The version is looked up before the transaction of switch_to begins.    *)
(* The transaction is a sequence of statements; its writes are kept in the *)
(* request and reach the tables at commit.  Between statements other       *)
(* requests run, as the database lets them:                                *)
(*   sqlite    the first write takes the lock of the whole database;       *)
(*   postgres  READ COMMITTED: an UPDATE selects its rows when it starts,  *)
(*             waits for the rows another transaction has written, and     *)
(*             then writes those that still match.                         *)
(***************************************************************************)

CONSTANTS
  Requests,     \* requests the workers serve at a time
  Versions,     \* ids of ModelVersion rows
  NoVersion,
  Database      \* "sqlite" or "postgres" (DJANGO_DB_ENGINE)

VARIABLES
  rows,         \* the committed ModelVersion rows
  pointer,      \* the committed ActiveModelPointer, NoVersion if there is none
  req           \* the requests, with the uncommitted writes of each

vars == <<rows, pointer, req>>

RETIRED == {"DEPRECATED", "ROLLED_BACK"}
VERSION_STATUS == {"CANDIDATE", "STABLE", "ACTIVE"} \cup RETIRED

ASSUME RegistryAssumption ==
  /\ NoVersion \notin Versions
  /\ Database \in {"sqlite", "postgres"}

Absent == [status |-> "ABSENT", is_active |-> FALSE]

(* seen: the rows the demoting UPDATE selected; demoted: those it wrote.   *)
Idle == [stage |-> "idle", version |-> NoVersion,
         seen |-> {}, demoted |-> {}]

Init ==
  /\ rows = [v \in Versions |-> Absent]
  /\ pointer = NoVersion
  /\ req = [r \in Requests |-> Idle]

Exists(v)   == rows[v] # Absent
Active      == {v \in Versions : rows[v].is_active}
InTransaction(r) == req[r].stage \in {"demoting", "demoted", "promoted", "pointed"}
Promoted(r) == req[r].stage \in {"promoted", "pointed"}

(* The rows a transaction has written are locked until it ends.            *)
Locked(r) == req[r].demoted \cup IF Promoted(r) THEN {req[r].version} ELSE {}

Others(r) == Requests \ {r}

Free(r, S) == \A q \in Others(r) : Locked(q) \cap S = {}

MayWrite(r) == Database = "sqlite" => \A q \in Others(r) : ~InTransaction(q)

(* A version row appears: seed_demo registers it STABLE, the ingestion of  *)
(* a metric or an action registers what it does not know as CANDIDATE.     *)
Create ==
  /\ \A q \in Requests : Database = "sqlite" => ~InTransaction(q)
  /\ \E v \in Versions, s \in {"CANDIDATE", "STABLE"} :
       /\ ~Exists(v)
       /\ rows' = [rows EXCEPT ![v] = [status |-> s, is_active |-> FALSE]]
  /\ UNCHANGED <<pointer, req>>

(* An operator retires a version that does not serve.  No code of the      *)
(* repository does; the view only reads the mark.                          *)
Retire ==
  /\ \A q \in Requests : Database = "sqlite" => ~InTransaction(q)
  /\ \E v \in Versions, s \in RETIRED :
       /\ Exists(v) /\ ~rows[v].is_active /\ \A q \in Requests : v \notin Locked(q)
       /\ rows' = [rows EXCEPT ![v].status = s]
  /\ UNCHANGED <<pointer, req>>

(* ActiveModelView.post.  Asked for by number any version can be chosen,   *)
(* asked for by model the newest that is not retired: so any at all, and   *)
(* 404 with no effect when there is none.                                  *)
Lookup(r) ==
  /\ req[r].stage = "idle"
  /\ \E v \in Versions :
       /\ Exists(v)
       /\ req' = [req EXCEPT ![r] = [Idle EXCEPT !.stage = "chosen", !.version = v]]
  /\ UNCHANGED <<rows, pointer>>

(* switch_to: UPDATE of the other active versions, in two parts.           *)
SelectActive(r) ==
  /\ req[r].stage = "chosen" /\ MayWrite(r)
  /\ req' = [req EXCEPT ![r].stage = "demoting",
                        ![r].seen = Active \ {req[r].version}]
  /\ UNCHANGED <<rows, pointer>>

Demote(r) ==
  /\ req[r].stage = "demoting" /\ Free(r, req[r].seen)
  /\ req' = [req EXCEPT ![r].stage = "demoted", ![r].seen = {},
                        ![r].demoted = req[r].seen \cap Active]
  /\ UNCHANGED <<rows, pointer>>

(* Faulty form: the unique index on the active flag is missing.            *)
ClashIgnored(r) == FALSE

(* Another version is active that this transaction has not demoted.        *)
Clash(r) == Active \ (req[r].demoted \cup {req[r].version}) # {}

(* The unique index makes the UPDATE wait for the row and for any          *)
(* transaction that has promoted another version.                          *)
PromoteUnblocked(r) ==
  /\ req[r].stage = "demoted"
  /\ Free(r, {req[r].version}) /\ \A q \in Others(r) : ~Promoted(q)

Promote(r) ==
  /\ PromoteUnblocked(r) /\ ~Clash(r)
  /\ req' = [req EXCEPT ![r].stage = "promoted"]
  /\ UNCHANGED <<rows, pointer>>

(* IntegrityError: the transaction is rolled back and the answer is a 500. *)
Conflict(r) ==
  /\ PromoteUnblocked(r) /\ Clash(r)
  /\ req' = [req EXCEPT ![r] = Idle]
  /\ UNCHANGED <<rows, pointer>>

Point(r) ==
  /\ req[r].stage = "promoted"
  /\ \A q \in Others(r) : req[q].stage # "pointed"
  /\ req' = [req EXCEPT ![r].stage = "pointed"]
  /\ UNCHANGED <<rows, pointer>>

CommitWith(r, status) ==
  /\ req[r].stage = "pointed"
  /\ rows' = [v \in Versions |->
                IF v = req[r].version THEN [status |-> "ACTIVE", is_active |-> TRUE]
                ELSE IF v \in req[r].demoted THEN [status |-> status, is_active |-> FALSE]
                ELSE rows[v]]
  /\ pointer' = req[r].version
  /\ req' = [req EXCEPT ![r] = Idle]

(* Faulty forms: the demoted version keeps its status, or gets one that is *)
(* not a choice of the model ("BACKUP", as seed_demo calls model_b).       *)
CommitKeepsStatus(r) == CommitWith(r, "ACTIVE")
CommitBackup(r)      == CommitWith(r, "BACKUP")

Commit(r) == CommitWith(r, "STABLE")

(* Faulty form: without the transaction the demotion outlives the error.   *)
AbortKeepsDemotion(r) ==
  /\ req[r].stage # "idle"
  /\ rows' = [v \in Versions |->
                IF v \in req[r].demoted THEN [status |-> "STABLE", is_active |-> FALSE]
                ELSE rows[v]]
  /\ req' = [req EXCEPT ![r] = Idle]
  /\ UNCHANGED pointer

(* The worker is killed, its connection is lost, or sqlite stays locked    *)
(* beyond the timeout: nothing of the transaction remains.                 *)
Abort(r) ==
  /\ req[r].stage # "idle"
  /\ req' = [req EXCEPT ![r] = Idle]
  /\ UNCHANGED <<rows, pointer>>

Serve(r) ==
  \/ Lookup(r) \/ SelectActive(r) \/ Demote(r) \/ Promote(r) \/ Conflict(r)
  \/ Point(r) \/ Commit(r) \/ Abort(r)

Next == Create \/ Retire \/ \E r \in Requests : Serve(r)

Spec == Init /\ [][Next]_vars

-------------------------------------------------------------------------------

Request ==
  [stage : {"idle", "chosen", "demoting", "demoted", "promoted", "pointed"},
   version : Versions \cup {NoVersion},
   seen : SUBSET Versions, demoted : SUBSET Versions]

TypeOK ==
  /\ rows \in [Versions -> [status : VERSION_STATUS \cup {"ABSENT"}, is_active : BOOLEAN]]
  /\ pointer \in Versions \cup {NoVersion}
  /\ req \in [Requests -> Request]

(* The committed tables agree at every instant and to every reader: the    *)
(* pointer names the one active version, there is never a second one, and  *)
(* once a version serves there is never none (the promise of switch_to's   *)
(* docstring, kept across crashes, aborts and concurrent switches).        *)
SlotConsistent == Active = IF pointer = NoVersion THEN {} ELSE {pointer}

(* The status column tells the same: ACTIVE marks exactly the active row.  *)
StatusFollowsFlag == \A v \in Versions : rows[v].is_active <=> rows[v].status = "ACTIVE"

(* The registry implements the atomic slot.                                *)
Slot == INSTANCE ActiveSlot
          WITH slot <- pointer, active <- Active,
               wanted <- [r \in Requests |-> req[r].version]

ImplementsSlot == Slot!Spec
===============================================================================
