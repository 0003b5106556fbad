---------------------------- MODULE ChangeDUState ----------------------------
(***************************************************************************)
(* The ChangeDUState RPC: cwmpd asks the cwmp plugin to change a           *)
(* deployment unit (DM_AmxChangeDUState.c), the plugin hands the operation *)
(* to software module management and keeps a DUStateChangeComplete         *)
(* instance of it (smm.c), and cwmpd reports the instance to the ACS when  *)
(* its Status becomes Done, or when it finds it Done as it starts.         *)
(*                                                                         *)
(* cwmpd, the plugin and SMM are processes; each handles one call, event   *)
(* or timer at a time, and cwmpd handles nothing while it waits for the    *)
(* answer to changeDUState.  The instances are not persistent.             *)
(*                                                                         *)
(* SMM, the bus and the engine are external.  SMM numbers its operations   *)
(* with distinct ids, so an operation is identified by its request, and    *)
(* sends OpResultDU! at the end of an operation, now and then twice.  The  *)
(* engine reports an instance until the ACS acknowledges it; what it has   *)
(* to report does not survive cwmpd.                                       *)
(***************************************************************************)
EXTENDS Naturals, Sequences

CONSTANTS
    Requests,       \* ChangeDUState requests of the ACS, one operation each
    NULL,
    MaxFaults       \* bound: calls that fail or time out, ends of processes

Records == [Status : {"", "Done"}, Op : {"In Progress", "Done"}, Results : Nat]

ASSUME DuAssumption == NULL \notin Requests /\ NULL \notin Records /\ MaxFaults \in Nat

VARIABLES
    smm,            \* SMM: is on the bus
    monitored,      \* plugin: is subscribed to OpResultDU!
    ops,            \* SMM: operations that run
    results,        \* OpResultDU! events on their way to the plugin
    calls,          \* changeDUState calls on their way to the plugin
    dscc,           \* plugin: the DUStateChangeComplete instance, or NULL
    events,         \* plugin: operations whose change to Done is to be handled
    cwmpd,          \* down, read (knows what is Done), up, or deaf
    waiting,        \* cwmpd: the request whose call it waits for, or NULL
    timers,         \* cwmpd: instances found Done at the start
    notes,          \* notifications of Status on their way to cwmpd
    reports,        \* engine: instances to report to the ACS
    asked, told,    \* ghost: requests made, and what the ACS was answered
    gone,           \* ghost: why a request has no instance any more
    missed,         \* ghost: Done instances this cwmpd will not report
    faults          \* ghost: counter

plugin == <<monitored, results, calls, dscc, events>>
daemon == <<cwmpd, waiting, timers, notes, reports>>
ghost == <<asked, told, gone, missed>>
vars == <<smm, ops, plugin, daemon, ghost, faults>>

Range(s) == {s[i] : i \in DOMAIN s}
InProgress(r) == dscc[r] # NULL /\ dscc[r].Op = "In Progress"
Done == {r \in Requests : dscc[r] # NULL /\ dscc[r].Status = "Done"}

Init ==
    /\ smm \in BOOLEAN /\ monitored = smm
    /\ ops = {} /\ results = <<>> /\ calls = <<>>
    /\ dscc = [r \in Requests |-> NULL] /\ events = <<>>
    /\ cwmpd = "down" /\ waiting = NULL
    /\ timers = {} /\ notes = <<>> /\ reports = {}
    /\ asked = {} /\ told = [r \in Requests |-> "none"]
    /\ gone = [r \in Requests |-> "no"] /\ missed = {}
    /\ faults = 0

\* The call that fails in a step, or "none".
Fails(call) ==
    /\ call = "none" \/ faults < MaxFaults
    /\ faults' = IF call = "none" THEN faults ELSE faults + 1

\* cwmpd is in its event loop.
Ready == cwmpd \in {"up", "deaf"} /\ waiting = NULL

-----------------------------------------------------------------------------
(***************************************************************************)
(* The request.                                                            *)
(***************************************************************************)

\* DM_ENG_Device_DoChangeDUState, up to the answer of the plugin: a request
\* without operations or of an unknown type is refused at once.
DoChangeDUState(r) ==
    /\ Ready
    /\ r \notin asked /\ asked' = asked \cup {r}
    /\ \/ told' = [told EXCEPT ![r] = "fault"] /\ UNCHANGED <<waiting, calls>>
       \/ waiting' = r /\ calls' = Append(calls, r) /\ UNCHANGED told
    /\ UNCHANGED <<smm, ops, monitored, results, dscc, events, cwmpd, timers, notes, reports,
                   gone, missed, faults>>

\* The answer of the plugin reaches cwmpd, if cwmpd still waits for it.
Reply(r, a) ==
    /\ waiting' = IF waiting = r THEN NULL ELSE waiting
    /\ told' = IF waiting = r THEN [told EXCEPT ![r] = a] ELSE told

\* cwmpd gives up after five seconds; the call is not withdrawn.
CallTimeout ==
    /\ waiting # NULL
    /\ Fails("call")
    /\ waiting' = NULL
    /\ told' = [told EXCEPT ![waiting] = "fault"]
    /\ UNCHANGED <<smm, ops, plugin, cwmpd, timers, notes, reports, asked, gone, missed>>

\* op_run: SMM refuses, accepts, or accepts without the plugin learning the id
\* of the operation.
op_run(r, outcome) ==
    \/ outcome = "refused" /\ UNCHANGED ops
    \/ outcome # "refused" /\ smm /\ ops' = ops \cup {r}

\* Fault: the instance is not added when it cannot be, and the answer is ok.
ChangeDUState_AnswersFirst ==
    /\ calls # <<>> /\ calls' = Tail(calls)
    /\ LET r == Head(calls)
       IN  \E outcome \in {"refused", "accepted", "orphan"} :
             /\ op_run(r, outcome)
             /\ Fails(IF outcome = "orphan" THEN "transaction" ELSE "none")
             /\ Reply(r, IF outcome = "refused" THEN "fault" ELSE "ok")
             /\ dscc' = IF outcome = "accepted"
                        THEN [dscc EXCEPT ![r] = [Status |-> "", Op |-> "In Progress", Results |-> 0]]
                        ELSE dscc
             /\ gone' = IF outcome = "orphan" THEN [gone EXCEPT ![r] = "lost"] ELSE gone
    /\ UNCHANGED <<smm, monitored, results, events, cwmpd, timers, notes, reports, asked, missed>>

\* _changeDUState: the instance is added once SMM has the operation.  If the id
\* does not come or the transaction fails, the operation runs without one.
ChangeDUState ==
    /\ calls # <<>> /\ calls' = Tail(calls)
    /\ LET r == Head(calls)
       IN  \E outcome \in {"refused", "accepted", "orphan"} :
             /\ op_run(r, outcome)
             /\ Fails(IF outcome = "orphan" THEN "transaction" ELSE "none")
             /\ Reply(r, IF outcome = "accepted" THEN "ok" ELSE "fault")
             /\ dscc' = IF outcome = "accepted"
                        THEN [dscc EXCEPT ![r] = [Status |-> "", Op |-> "In Progress", Results |-> 0]]
                        ELSE dscc
             /\ gone' = IF outcome = "orphan" THEN [gone EXCEPT ![r] = "lost"] ELSE gone
    /\ UNCHANGED <<smm, monitored, results, events, cwmpd, timers, notes, reports, asked, missed>>

-----------------------------------------------------------------------------
(***************************************************************************)
(* The operation.                                                          *)
(***************************************************************************)

\* SMM comes on the bus.
SmmAppears ==
    /\ ~smm /\ smm' = TRUE
    /\ UNCHANGED <<ops, plugin, daemon, ghost, faults>>

\* smm_available_cb: the plugin waited for SMM.
smm_available_cb ==
    /\ smm /\ ~monitored /\ monitored' = TRUE
    /\ UNCHANGED <<smm, ops, results, calls, dscc, events, daemon, ghost, faults>>

\* An operation ends, well or not; its end may be announced once more.
SmmDone(r) ==
    /\ r \in ops
    /\ \/ Fails("none") /\ ops' = ops \ {r}
       \/ Fails("twice") /\ UNCHANGED ops
    /\ results' = IF monitored THEN Append(results, r) ELSE results
    /\ UNCHANGED <<smm, monitored, calls, dscc, events, daemon, ghost>>

\* Fault: an operation becomes Done although its result could not be added.
op_handle_results_NoResult ==
    /\ results # <<>> /\ results' = Tail(results)
    /\ LET r == Head(results)
           Added == [dscc[r] EXCEPT !.Results = @ + 1]
       IN  \/ /\ ~InProgress(r)
              /\ UNCHANGED <<dscc, events, faults>>
           \/ /\ InProgress(r)
              /\ \E call \in {"none", "add", "set"} :
                   /\ Fails(call)
                   /\ dscc' = [dscc EXCEPT ![r] =
                                CASE call = "none" -> [Added EXCEPT !.Op = "Done"]
                                  [] call = "add"  -> [@ EXCEPT !.Op = "Done"]
                                  [] call = "set"  -> Added]
                   /\ events' = IF call # "set" THEN Append(events, r) ELSE events
    /\ UNCHANGED <<smm, ops, monitored, calls, daemon, ghost>>

\* op_handle_results: the result is added, then the operation is Done, unless
\* one of the two transactions fails.
op_handle_results ==
    /\ results # <<>> /\ results' = Tail(results)
    /\ LET r == Head(results)
           Added == [dscc[r] EXCEPT !.Results = @ + 1]
       IN  \/ /\ ~InProgress(r)
              /\ UNCHANGED <<dscc, events, faults>>
           \/ /\ InProgress(r)
              /\ \E call \in {"none", "add", "set"} :
                   /\ Fails(call)
                   /\ dscc' = [dscc EXCEPT ![r] =
                                CASE call = "none" -> [Added EXCEPT !.Op = "Done"]
                                  [] call = "add"  -> @
                                  [] call = "set"  -> Added]
                   /\ events' = IF call = "none" THEN Append(events, r) ELSE events
    /\ UNCHANGED <<smm, ops, monitored, calls, daemon, ghost>>

\* _dscc_op_done: the only operation of the instance is Done, so the instance
\* is, if the transaction succeeds.  The bus notifies cwmpd if it is subscribed.
dscc_op_done ==
    /\ events # <<>> /\ events' = Tail(events)
    /\ LET r == Head(events)
       IN  \/ /\ dscc[r] # NULL
              /\ dscc' = [dscc EXCEPT ![r].Status = "Done"]
              /\ notes' = IF cwmpd = "up" THEN Append(notes, r) ELSE notes
              /\ missed' = IF cwmpd \in {"read", "deaf"} THEN missed \cup {r} ELSE missed
              /\ UNCHANGED faults
           \/ Fails("transaction") /\ UNCHANGED <<dscc, notes, missed>>
    /\ UNCHANGED <<smm, ops, monitored, results, calls, cwmpd, waiting, timers, reports,
                   asked, told, gone>>

-----------------------------------------------------------------------------
(***************************************************************************)
(* The report.                                                             *)
(***************************************************************************)

\* Fault: what is Done already is not looked for.
Start_OnlyNotified ==
    /\ cwmpd = "down" /\ cwmpd' = "read"
    /\ UNCHANGED <<smm, ops, plugin, waiting, timers, notes, reports, ghost, faults>>

\* DM_AmxChangeDUState_init, first half: every instance that is Done gets a
\* timer.  When the read fails, cwmpd goes on without them.
Start ==
    /\ cwmpd = "down" /\ cwmpd' = "read"
    /\ \E call \in {"none", "get"} :
         /\ Fails(call)
         /\ timers' = IF call = "none" THEN Done ELSE timers
         /\ missed' = IF call = "none" THEN missed ELSE missed \cup Done
    /\ UNCHANGED <<smm, ops, plugin, waiting, notes, reports, asked, told, gone>>

\* Second half: the subscription.  When it fails, cwmpd goes on without it.
Subscribe ==
    /\ cwmpd = "read"
    /\ \E call \in {"none", "subscribe"} :
         /\ Fails(call)
         /\ cwmpd' = IF call = "none" THEN "up" ELSE "deaf"
    /\ UNCHANGED <<smm, ops, plugin, waiting, timers, notes, reports, ghost>>

\* handle_dustatechangecomplete: the key and the results are read and given to
\* the engine; a failure is only traced.
handle_dustatechangecomplete(r) ==
    \E call \in {"none", "get"} :
        /\ Fails(call)
        /\ reports' = IF call = "none" THEN reports \cup {r} ELSE reports
        /\ missed' = IF call = "none" THEN missed ELSE missed \cup {r}

Timer(r) ==
    /\ Ready
    /\ r \in timers /\ timers' = timers \ {r}
    /\ handle_dustatechangecomplete(r)
    /\ UNCHANGED <<smm, ops, plugin, cwmpd, waiting, notes, asked, told, gone>>

\* dustatechangecomplete_notification
Notification ==
    /\ Ready
    /\ notes # <<>> /\ notes' = Tail(notes)
    /\ handle_dustatechangecomplete(Head(notes))
    /\ UNCHANGED <<smm, ops, plugin, cwmpd, waiting, timers, asked, told, gone>>

\* Fault: the instance stays.
Acknowledged_Keeps(r) ==
    /\ Ready
    /\ r \in reports /\ reports' = reports \ {r}
    /\ UNCHANGED <<smm, ops, plugin, cwmpd, waiting, timers, notes, ghost, faults>>

\* DM_ENG_Device_DUStateChangeCompleteAcknowledged: the instance is deleted.
Acknowledged(r) ==
    /\ Ready
    /\ r \in reports /\ reports' = reports \ {r}
    /\ \/ /\ Fails("none")
          /\ dscc' = [dscc EXCEPT ![r] = NULL]
          /\ gone' = [gone EXCEPT ![r] = "acknowledged"]
          /\ UNCHANGED missed
       \/ /\ Fails("delete")
          /\ missed' = missed \cup {r}
          /\ UNCHANGED <<dscc, gone>>
    /\ UNCHANGED <<smm, ops, monitored, results, calls, events, cwmpd, waiting, timers, notes,
                   asked, told>>

-----------------------------------------------------------------------------
(***************************************************************************)
(* Ends of processes.                                                      *)
(***************************************************************************)

CwmpdGone ==
    /\ cwmpd' = "down" /\ waiting' = NULL
    /\ timers' = {} /\ notes' = <<>> /\ reports' = {} /\ missed' = {}

CwmpdEnds ==
    /\ cwmpd # "down"
    /\ Fails("cwmpd") /\ CwmpdGone
    /\ UNCHANGED <<smm, ops, plugin, asked, told, gone>>

\* The plugin ends, cwmpd with it, and starts again (smm_init).
PluginRestarts ==
    /\ Fails("plugin") /\ CwmpdGone
    /\ dscc' = [r \in Requests |-> NULL]
    /\ gone' = [r \in Requests |-> IF dscc[r] # NULL THEN "lost" ELSE gone[r]]
    /\ results' = <<>> /\ calls' = <<>> /\ events' = <<>>
    /\ monitored' = smm
    /\ UNCHANGED <<smm, ops, asked, told>>

Reports == Start \/ Subscribe \/ Notification \/ \E r \in Requests : Timer(r)

Next ==
    \/ \E r \in Requests : DoChangeDUState(r) \/ SmmDone(r) \/ Acknowledged(r)
    \/ ChangeDUState \/ CallTimeout
    \/ SmmAppears \/ smm_available_cb \/ op_handle_results \/ dscc_op_done
    \/ Reports
    \/ CwmpdEnds \/ PluginRestarts

Spec == Init /\ [][Next]_vars

(***************************************************************************)
(* The plugin serves its calls, so cwmpd does not wait for ever; cwmpd,    *)
(* which the plugin starts again, serves its events, and the ACS           *)
(* acknowledges what is reported to it, for the engine tries again until   *)
(* it does.  SMM need not end an operation, nor appear.                    *)
(***************************************************************************)
FairSpec ==
    /\ Spec
    /\ WF_vars(ChangeDUState) /\ WF_vars(Reports)
    /\ \A r \in Requests : WF_vars(Acknowledged(r))

-----------------------------------------------------------------------------
TypeOK ==
    /\ smm \in BOOLEAN /\ monitored \in BOOLEAN
    /\ ops \subseteq Requests
    /\ results \in Seq(Requests) /\ calls \in Seq(Requests) /\ events \in Seq(Requests)
    /\ dscc \in [Requests -> {NULL} \cup Records]
    /\ cwmpd \in {"down", "read", "up", "deaf"}
    /\ waiting \in Requests \cup {NULL}
    /\ timers \subseteq Requests /\ notes \in Seq(Requests) /\ reports \subseteq Requests
    /\ asked \subseteq Requests /\ told \in [Requests -> {"none", "ok", "fault"}]
    /\ gone \in [Requests -> {"no", "acknowledged", "lost"}] /\ missed \subseteq Requests
    /\ faults \in 0..MaxFaults

\* A Done instance waits for a cwmpd, or this cwmpd has it in hand, unless one
\* of its calls failed or the instance became Done between its read and its
\* subscription (DM_AmxChangeDUState_init).
DoneIsOnItsWay ==
    \A r \in Done \ missed : cwmpd = "down" \/ r \in timers \cup Range(notes) \cup reports

\* What cwmpd is to report is there, is Done and has a result, however the
\* transactions of op_handle_results end: the engine is never given an instance
\* without results, or one that was deleted.
ReportHasResult ==
    \A r \in timers \cup Range(notes) \cup reports : r \in Done /\ dscc[r].Results > 0

\* How far a request is.
phase == [r \in Requests |->
            CASE gone[r] # "no"                     -> gone[r]
              [] gone[r] = "no" /\ dscc[r] = NULL   -> "none"
              [] gone[r] = "no" /\ dscc[r] # NULL   -> IF r \in Done THEN "done" ELSE "running"]

Promise == INSTANCE DuChange WITH phase <- phase, told <- told

\* The plugin and cwmpd keep what the ACS may rely on (DuChange).
Implements == Promise!Spec

\* A Done instance is acknowledged and deleted, or is one that this cwmpd
\* misses, or is lost with the plugin.
DoneIsAcknowledged ==
    \A r \in Requests : r \in Done ~> (r \notin Done \/ r \in missed)

=============================================================================
