------------------------------ MODULE ActiveSlot ------------------------------
(***************************************************************************)
(* What the registry promises its clients about the one global serving     *)
(* slot: a request to switch takes effect at one instant between its start *)
(* and its answer, or not at all; the pointer and the is_active flags move *)
(* together at that instant; and nothing else moves them.                  *)
(***************************************************************************)
CONSTANTS Requests, Versions, NoVersion

VARIABLES
  slot,      \* the version that serves, or NoVersion before the first switch
  active,    \* the versions flagged active
  wanted     \* the version each request under way will switch to

slotVars == <<slot, active, wanted>>

Init ==
  /\ slot = NoVersion /\ active = {}
  /\ wanted = [r \in Requests |-> NoVersion]

Ask(r) ==
  /\ wanted[r] = NoVersion
  /\ \E v \in Versions : wanted' = [wanted EXCEPT ![r] = v]
  /\ UNCHANGED <<slot, active>>

Grant(r) ==
  /\ wanted[r] # NoVersion
  /\ slot' = wanted[r] /\ active' = {wanted[r]}
  /\ wanted' = [wanted EXCEPT ![r] = NoVersion]

Refuse(r) ==
  /\ wanted[r] # NoVersion
  /\ wanted' = [wanted EXCEPT ![r] = NoVersion]
  /\ UNCHANGED <<slot, active>>

Next == \E r \in Requests : Ask(r) \/ Grant(r) \/ Refuse(r)

Spec == Init /\ [][Next]_slotVars
===============================================================================
