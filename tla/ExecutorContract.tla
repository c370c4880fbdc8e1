--------------------------- MODULE ExecutorContract ---------------------------
(***************************************************************************)
(* What the agent may rely on when it asks an executor for a switch: a     *)
(* success means that the slot has been written for it; a failure means    *)
(* nothing, the write may have happened, may still happen, or never will.  *)
(* A request is written at most once, and others write the slot too.       *)
(***************************************************************************)
EXTENDS Integers

CONSTANTS Requests, Targets, NoRequest

VARIABLES
  phase,    \* per request: "free", "owed", "written" or "dropped"
  wanted,   \* per request: the model it is to make active
  slot,     \* the model that is active
  waiting,  \* the request the agent waits for, or NoRequest
  answer    \* what it was told last: "none", "success" or "failed"

vars == <<phase, wanted, slot, waiting, answer>>

Init ==
  /\ phase = [r \in Requests |-> "free"] /\ wanted \in [Requests -> Targets]
  /\ slot \in Targets /\ waiting = NoRequest /\ answer = "none"

(* The agent asks and waits, or somebody asks whom nobody answers.         *)
Request(r) ==
  /\ phase[r] = "free" /\ phase' = [phase EXCEPT ![r] = "owed"]
  /\ \E t \in Targets : wanted' = [wanted EXCEPT ![r] = t]
  /\ UNCHANGED slot
  /\ \/ waiting = NoRequest /\ waiting' = r /\ answer' = "none"
     \/ waiting = NoRequest /\ UNCHANGED waiting /\ answer' = "failed"
     \/ UNCHANGED <<waiting, answer>>

(* A second request for the same may be answered by the first.             *)
Join(r) ==
  /\ phase[r] = "owed" /\ waiting = NoRequest
  /\ waiting' = r /\ answer' = "none"
  /\ UNCHANGED <<phase, wanted, slot>>

Write(r) ==
  /\ phase[r] = "owed" /\ phase' = [phase EXCEPT ![r] = "written"]
  /\ slot' = wanted[r]
  /\ UNCHANGED <<wanted, waiting, answer>>

Drop(r) ==
  /\ phase[r] = "owed" /\ phase' = [phase EXCEPT ![r] = "dropped"]
  /\ UNCHANGED <<wanted, slot, waiting, answer>>

Succeed ==
  /\ waiting \in Requests /\ phase[waiting] = "written"
  /\ waiting' = NoRequest /\ answer' = "success"
  /\ UNCHANGED <<phase, wanted, slot>>

(* Failed, or the asker died and nobody waits any more.                    *)
Fail ==
  /\ waiting' = NoRequest /\ answer' \in {"none", "failed"}
  /\ UNCHANGED <<phase, wanted, slot>>

OtherWrite == slot' \in Targets /\ UNCHANGED <<phase, wanted, waiting, answer>>

Next ==
  \/ \E r \in Requests : Request(r) \/ Join(r) \/ Write(r) \/ Drop(r)
  \/ Succeed \/ Fail \/ OtherWrite

Spec == Init /\ [][Next]_vars
===============================================================================
