--------------------------- MODULE TransferPromise ---------------------------
(***************************************************************************)
(* What the ACS may rely on when it asks for a Download or an Upload.  The *)
(* gateway records the transfer before it answers, whatever the answer: a  *)
(* transfer that is refused may still be carried out.  The record is kept  *)
(* until the ACS has acknowledged a TransferComplete, and a restart brings *)
(* back what was saved, no less and no more: a transfer that was not saved *)
(* is gone, and one that was acknowledged may come back and be reported    *)
(* again.                                                                  *)
(***************************************************************************)
CONSTANT Transfers

VARIABLES
    record,     \* the gateway has no record of a transfer yet, keeps one, or dropped it
    saved,      \* the records as last saved
    complete,   \* transfers with a TransferComplete on its way to the ACS
    told        \* what the ACS was answered

vars == <<record, saved, complete, told>>

Records == {"none", "kept", "gone"}
Answers == {"none", "accepted", "denied"}
All(x) == [t \in Transfers |-> x]

Init ==
    /\ record = All("none") /\ saved = All("none")
    /\ complete = {} /\ told = All("none")

Ask(t) ==
    /\ record[t] = "none"
    /\ record' = [record EXCEPT ![t] = "kept"]
    /\ told' \in {told, [told EXCEPT ![t] = "denied"]}
    /\ UNCHANGED complete

\* Only a transfer on record is answered, and it is answered once.
Answer(t) ==
    /\ record[t] = "kept" /\ told[t] = "none"
    /\ \E a \in {"accepted", "denied"} : told' = [told EXCEPT ![t] = a]
    /\ UNCHANGED <<record, complete>>

Report(t) ==
    /\ record[t] = "kept"
    /\ complete' = complete \cup {t}
    /\ UNCHANGED <<record, told>>

\* The record is dropped, unless that fails: then it will be reported again.
Acknowledge(t) ==
    /\ record[t] = "kept" /\ t \in complete
    /\ complete' = complete \ {t}
    /\ record' \in {record, [record EXCEPT ![t] = "gone"]}
    /\ UNCHANGED told

\* The reports under way are lost, not the records.
Forget ==
    /\ complete' = {}
    /\ UNCHANGED <<record, told>>

Restart ==
    /\ record' = [t \in Transfers |-> IF saved[t] = "none" /\ record[t] # "none"
                                      THEN "gone" ELSE saved[t]]
    /\ complete' = {}
    /\ UNCHANGED <<saved, told>>

\* The records may be saved with every step, or by themselves.
Next ==
    \/ Restart
    \/ /\ \/ \E t \in Transfers : Ask(t) \/ Answer(t) \/ Report(t) \/ Acknowledge(t)
          \/ Forget
          \/ UNCHANGED <<record, complete, told>>
       /\ saved' \in {saved, record'}

Spec == Init /\ [][Next]_vars

=============================================================================
