------------------------------ MODULE DuChange ------------------------------
(***************************************************************************)
(* What the ACS may rely on when it asks the gateway to change a           *)
(* deployment unit: what it is told, and how far the change can be.  An    *)
(* "ok" is given for a change that is under way, and only then.  A "fault" *)
(* promises nothing: the change may still begin, and be reported.  A       *)
(* change is reported once it is done, and forgotten once the ACS has      *)
(* acknowledged the report; before that only a fault can lose it.          *)
(***************************************************************************)
CONSTANT Requests

VARIABLES
    phase,      \* how far the gateway is with a request
    told        \* what the ACS was answered

vars == <<phase, told>>

Phases == {"none", "running", "done", "acknowledged", "lost"}
Answers == {"none", "ok", "fault"}

Init ==
    /\ phase = [r \in Requests |-> "none"]
    /\ told = [r \in Requests |-> "none"]

\* The answer to r is a, or r was answered already.
Answered(r, a) == told' = IF told[r] = "none" THEN [told EXCEPT ![r] = a] ELSE told

Begin(r) ==
    /\ phase[r] = "none"
    /\ phase' = [phase EXCEPT ![r] = "running"]
    /\ Answered(r, "ok") \/ UNCHANGED told

\* The change is made, and the gateway keeps no record of it.
Orphan(r) ==
    /\ phase[r] = "none"
    /\ phase' = [phase EXCEPT ![r] = "lost"]
    /\ Answered(r, "fault") \/ UNCHANGED told

Refuse(r) ==
    /\ phase[r] = "none" /\ told[r] = "none"
    /\ told' = [told EXCEPT ![r] = "fault"]
    /\ UNCHANGED phase

Finish(r) ==
    /\ phase[r] = "running"
    /\ phase' = [phase EXCEPT ![r] = "done"]
    /\ UNCHANGED told

Acknowledge(r) ==
    /\ phase[r] = "done"
    /\ phase' = [phase EXCEPT ![r] = "acknowledged"]
    /\ UNCHANGED told

\* The records of all changes are lost.
Lose ==
    /\ phase' = [r \in Requests |-> IF phase[r] \in {"running", "done"} THEN "lost" ELSE phase[r]]
    /\ UNCHANGED told

Next ==
    \/ \E r \in Requests : Begin(r) \/ Orphan(r) \/ Refuse(r) \/ Finish(r) \/ Acknowledge(r)
    \/ Lose

Spec == Init /\ [][Next]_vars

=============================================================================
