----------------------------- MODULE AcsTransfer -----------------------------
(***************************************************************************)
(* The Download and Upload RPCs of the ACS: DM_AmxUpDownload.c in cwmpd,   *)
(* cwmp_plugin_transfer.c in the plugin, and the timers of cwmpd_timer.c.  *)
(*                                                                         *)
(* cwmpd adds an instance of ManagementServer.ACSTransfers.ACSTransfer to  *)
(* the data model of the plugin, asks the plugin to carry it out           *)
(* (AddTransfer), subscribes to the instance and starts a timer named after*)
(* the CommandKey.  The plugin writes Status; on "Finished", or when the   *)
(* timer fires, cwmpd hands a TransferComplete to the engine, and deletes  *)
(* the instance when the ACS acknowledged it.  Each process has one event  *)
(* loop and cwmpd blocks on its bus calls, so an action is one callback of *)
(* a process, cut where cwmpd calls AddTransfer: the plugin may run before *)
(* cwmpd subscribes.                                                       *)
(*                                                                         *)
(* External: DeviceInfo.FirmwareImage, libfiletransfer, VendorLogFile and  *)
(* VendorConfigFile (each accepts or refuses, succeeds, fails or stays     *)
(* silent), and the engine, which acknowledges.  Names, URLs, scripts and  *)
(* times are left out.                                                     *)
(***************************************************************************)
EXTENDS Naturals

CONSTANTS
    Transfers,      \* instances that are ever added
    Keys,           \* CommandKeys
    NoKey,          \* the empty CommandKey, no name for a timer
    NULL,
    Requests,       \* requests of the ACS
    MaxFaults,      \* bound: failed bus calls
    MaxExits        \* bound: ends of cwmpd, of the plugin and of the device

\* "firmware" and "file" are downloads; a "log" upload runs a self test first;
\* "other" is an upload type that filetransfer_upload_prepare does not know.
Kinds == {"firmware", "file", "log", "upload", "other"}

ASSUME AcsTransferAssumption ==
    /\ NoKey \in Keys
    /\ NULL \notin Transfers \cup Requests
    /\ NULL \notin {"RestartTransfer", "TransferCompleteEvent"}
    /\ Requests \subseteq [kind : Kinds, key : Keys, immediate : BOOLEAN]
    /\ MaxFaults \in Nat /\ MaxExits \in Nat

VARIABLES
    \* the data model of the plugin, and the file it is saved to
    status,         \* Status; "None": not added yet, "Deleted": no instance
    fault,          \* FaultCode is not 0
    req,            \* FileType, IsDownload, CommandKey and DelaySeconds <= 1
    disk,           \* the data model as last saved
    \* memory of the plugin
    delay,          \* delay timers pending (download, start, upload_delay)
    selftest,       \* selftest_requests
    running,        \* ftx requests sent, or upload_requests
    fwsub,          \* subscriptions to FirmwareImage, with the instance's pointer
    download,       \* external: transfer whose image is being installed
    \* memory of cwmpd
    cwmpd,          \* "up" or "down"
    busy,           \* transfer whose AddTransfer call returned, not subscribed yet
    keyTimer,       \* timer named by a CommandKey: transfer it was set for, or NULL
    pathTimer,      \* timer named by an instance: what it calls
    subs,           \* transferSubsList: subscriptions on the bus
    stray,          \* those that cannot be deleted any more
    notif,          \* a "Finished" notification waits in the event loop
    reported,       \* external: TransferCompletes in the engine, not acknowledged
    \* ghosts
    answer,         \* response to the RPC: "none", "accepted" or "denied"
    applied,        \* transfers whose image was booted
    faults,
    exits

dm == <<status, fault, req, disk>>
plugin == <<delay, selftest, running, fwsub, download>>
timers == <<keyTimer, pathTimer>>
watch == <<subs, stray, notif>>
ghosts == <<answer, applied, faults, exits>>
vars == <<status, fault, req, disk, delay, selftest, running, fwsub,
          download, cwmpd, busy, keyTimer, pathTimer, subs, stray, notif,
          reported, answer, applied, faults, exits>>

Statuses == {"None", "Initial", "Applying", "Finished", "Deleted"}

Exists(t) == status[t] \in {"Initial", "Applying", "Finished"}
\* What is saved; req never changes once an instance is added.
Persistent == [status |-> status, fault |-> fault]

All(x) == [t \in Transfers |-> x]
AllKeys(x) == [k \in Keys |-> x]

Init ==
    /\ status = All("None")
    /\ fault = All(FALSE)
    /\ req = All(NULL)
    /\ disk = Persistent
    /\ delay = All(0)
    /\ selftest = All(0)
    /\ running = All(0)
    /\ fwsub = All(FALSE)
    /\ download = NULL
    /\ cwmpd = "up"
    /\ busy = NULL
    /\ keyTimer = AllKeys(NULL)
    /\ pathTimer = All(NULL)
    /\ subs = All(FALSE)
    /\ stray = {}
    /\ notif = All(FALSE)
    /\ reported = All(0)
    /\ answer = All("none")
    /\ applied = {}
    /\ faults = 0
    /\ exits = 0

-----------------------------------------------------------------------------
BusFails == faults < MaxFaults /\ faults' = faults + 1

\* cwmpd serves its event loop.
Serving == cwmpd = "up" /\ busy = NULL

\* cwmp_timer_start: an empty name is refused, a running timer is restarted.
timerStart(k, t) ==
    keyTimer' = IF k = NoKey THEN keyTimer ELSE [keyTimer EXCEPT ![k] = t]

\* A write of Status and FaultCode; a change to "Finished" notifies cwmpd.
Write(t, s, fc) ==
    /\ status' = [status EXCEPT ![t] = s]
    /\ fault' = [fault EXCEPT ![t] = fc]
    /\ notif' = [notif EXCEPT ![t] = @ \/ (subs[t] /\ s = "Finished"
                                                   /\ status[t] # "Finished")]

\* transfer_update_status: nothing is written when the instance is gone.
transfer_update_status(t, fc) ==
    IF Exists(t) THEN Write(t, "Finished", fc) /\ UNCHANGED <<req, disk, subs, stray>>
                 ELSE UNCHANGED <<dm, watch>>

-----------------------------------------------------------------------------
(* The plugin.                                                             *)

\* filetransfer_request_prepare, after the instance was added as newReq: a
\* delay timer is armed; an immediate firmware upgrade is "Applying" at once,
\* and every firmware upgrade is saved.
filetransfer_request_prepare(t, newReq, immediate) ==
    /\ delay' = [delay EXCEPT ![t] = @ + 1]
    /\ req' = newReq
    /\ status' = [status EXCEPT ![t] =
          IF newReq[t].kind = "firmware" /\ immediate THEN "Applying"
          ELSE IF @ = "None" THEN "Initial" ELSE @]
    /\ UNCHANGED <<fault, selftest, running, fwsub, download>>
    /\ disk' = IF newReq[t].kind = "firmware" THEN Persistent' ELSE disk

\* The memory of both processes, and what external parts do, is gone.
Restarted(d) ==
    /\ status' = [t \in Transfers |-> IF d.status[t] = "None" /\ status[t] # "None"
                                      THEN "Deleted" ELSE d.status[t]]
    /\ fault' = d.fault
    /\ delay' = All(0)
    /\ selftest' = All(0)
    /\ running' = All(0)
    /\ fwsub' = All(FALSE)
    /\ cwmpd' = "down"
    /\ busy' = NULL
    /\ keyTimer' = AllKeys(NULL)
    /\ pathTimer' = All(NULL)
    /\ subs' = All(FALSE)
    /\ stray' = {}
    /\ notif' = All(FALSE)
    /\ reported' = All(0)
    /\ UNCHANGED <<req, disk, answer, faults>>

\* Fault: the data model is not saved.
download_timer_cb_NoSave(t) ==
    /\ \/ /\ Write(t, "Applying", fault[t])
          /\ download' = t
          /\ fwsub' = [fwsub EXCEPT ![t] = TRUE]
       \/ /\ status' = [status EXCEPT ![t] = "Finished"]
          /\ fault' = [fault EXCEPT ![t] = TRUE]
          /\ notif' = [notif EXCEPT ![t] = @ \/ subs[t]]
          /\ fwsub' = [fwsub EXCEPT ![t] = FALSE]
          /\ UNCHANGED download
    /\ UNCHANGED <<req, disk, subs, stray>>

\* download_timer_cb, with firmware_upgrade: "Applying" is written, then
\* "Finished" (always a change) if Download() is not accepted.  The data model
\* is saved last.
download_timer_cb(t) ==
    /\ \/ /\ Write(t, "Applying", fault[t])
          /\ download' = t
          /\ fwsub' = [fwsub EXCEPT ![t] = TRUE]
       \/ /\ status' = [status EXCEPT ![t] = "Finished"]
          /\ fault' = [fault EXCEPT ![t] = TRUE]
          /\ notif' = [notif EXCEPT ![t] = @ \/ subs[t]]
          /\ fwsub' = [fwsub EXCEPT ![t] = FALSE]
          /\ UNCHANGED download
    /\ UNCHANGED <<req, subs, stray>>
    /\ disk' = Persistent'

\* Upload() or Backup() of a vendor file: accepted and kept in
\* upload_requests, or an internal error.  (Where the code drops an upload
\* without a word it is as one that is never answered.)
upload_vendor_file(t) ==
    \/ /\ running' = [running EXCEPT ![t] = @ + 1]
       /\ UNCHANGED <<dm, watch>>
    \/ /\ transfer_update_status(t, TRUE)
       /\ UNCHANGED running

\* start_timer_cb: the request is sent to libfiletransfer.
start_timer_cb(t) ==
    /\ running' = [running EXCEPT ![t] = @ + 1]
    /\ UNCHANGED <<dm, watch, selftest, fwsub, download>>

\* filetransfer_upload_prepare: a self test, an upload, or nothing at all.
filetransfer_upload_prepare(t) ==
    \/ /\ req[t].kind = "log"
       /\ selftest' = [selftest EXCEPT ![t] = @ + 1]
       /\ UNCHANGED <<dm, watch, running, fwsub, download>>
    \/ /\ req[t].kind = "upload"
       /\ upload_vendor_file(t)
       /\ UNCHANGED <<selftest, fwsub, download>>
    \/ /\ req[t].kind = "other"
       /\ UNCHANGED <<dm, watch, selftest, running, fwsub, download>>

\* A delay timer of the plugin fires: download_timer_cb, start_timer_cb or
\* filetransfer_upload_cb.  The last two work on copies of the arguments, and
\* carry out a transfer that was deleted in the meantime; the first uses the
\* freed instance, with no effect that is seen unless the plugin ends.
DelayTimer(t) ==
    /\ delay[t] > 0
    /\ delay' = [delay EXCEPT ![t] = @ - 1]
    /\ UNCHANGED <<cwmpd, busy, timers, reported, ghosts>>
    /\ \/ /\ req[t].kind = "firmware" /\ Exists(t)
          /\ download_timer_cb(t)
          /\ UNCHANGED <<selftest, running>>
       \/ /\ req[t].kind = "firmware" /\ ~Exists(t)
          /\ UNCHANGED <<dm, watch, selftest, running, fwsub, download>>
       \/ /\ req[t].kind = "file"
          /\ start_timer_cb(t)
       \/ filetransfer_upload_prepare(t)

\* filetransfer_upload_selftest_call_done.
SelfTestDone(t) ==
    /\ selftest[t] > 0
    /\ selftest' = [selftest EXCEPT ![t] = @ - 1]
    /\ upload_vendor_file(t)
    /\ UNCHANGED <<delay, fwsub, download, cwmpd, busy, timers, reported, ghosts>>

\* filetransfer_request_cb, or filetransfer_upload_complete_notification: the
\* upload is found by its URL, so one upload's end may be taken for another's.
TransferEnds(t, fc) ==
    /\ running[t] > 0
    /\ running' = [running EXCEPT ![t] = @ - 1]
    /\ transfer_update_status(t, fc)
    /\ UNCHANGED <<delay, selftest, fwsub, download, cwmpd, busy, timers,
                   reported, ghosts>>

\* firmwareimage_notification of a failure: it reaches every subscription,
\* that of a deleted instance too (no effect that is seen).
FirmwareFailed ==
    /\ download # NULL
    /\ download' = NULL
    /\ fwsub' = [t \in Transfers |-> fwsub[t] /\ ~Exists(t)]
    /\ status' = [t \in Transfers |->
                    IF fwsub[t] /\ Exists(t) THEN "Finished" ELSE status[t]]
    /\ fault' = [t \in Transfers |-> fault[t] \/ (fwsub[t] /\ Exists(t))]
    /\ notif' = [t \in Transfers |-> \/ notif[t]
                                     \/ /\ fwsub[t] /\ subs[t]
                                        /\ status[t] \in {"Initial", "Applying"}]
    /\ UNCHANGED <<req, disk, delay, selftest, running, cwmpd, busy, timers, subs,
                   stray, reported, ghosts>>

\* dm-save-on-changed, after dm-save-delay.
Save ==
    /\ disk # Persistent
    /\ disk' = Persistent
    /\ UNCHANGED <<status, fault, req, plugin, cwmpd, busy, timers, watch,
                   reported, ghosts>>

\* The new image is activated and the device starts from it.
FirmwareApplied ==
    /\ download # NULL
    /\ applied' = applied \cup {download}
    /\ download' = NULL
    /\ Restarted(disk)
    /\ UNCHANGED exits

\* The plugin ends, or the device: cwmpd with it, an installation perhaps.
PluginRestarts ==
    /\ exits < MaxExits
    /\ exits' = exits + 1
    /\ Restarted(disk)
    /\ download' \in {download, NULL}
    /\ UNCHANGED applied

-----------------------------------------------------------------------------
(* cwmpd.                                                                  *)

\* The call of AddTransfer by DM_ENG_Device_AddTransfer: the plugin carries it
\* out and cwmpd goes on to subscribe; or the call fails for cwmpd, and the
\* plugin got it or not.
CallAddTransfer(t, newReq, immediate) ==
    \/ /\ filetransfer_request_prepare(t, newReq, immediate)
       /\ busy' = t
       /\ UNCHANGED <<answer, faults>>
    \/ /\ BusFails
       /\ UNCHANGED busy
       /\ answer' = [answer EXCEPT ![t] = IF @ = "none" THEN "denied" ELSE @]
       /\ \/ filetransfer_request_prepare(t, newReq, immediate)
          \/ /\ req' = newReq
             /\ status' = [status EXCEPT ![t] = IF @ = "None" THEN "Initial" ELSE @]
             /\ UNCHANGED <<fault, disk, plugin>>

\* DM_ENG_Device_DoDownload and DM_ENG_Device_DoUpload: the instance is added
\* (and stays whatever becomes of the call).
DoTransfer(t, r) ==
    /\ Serving
    /\ status[t] = "None"
    /\ CallAddTransfer(t, [req EXCEPT ![t] = r], r.immediate)
    /\ UNCHANGED <<cwmpd, timers, watch, reported, applied, exits>>

\* Fault: the timer is not started.
Subscribed_NoTimer(t) ==
    /\ subs' = [subs EXCEPT ![t] = TRUE]
    /\ answer' = [answer EXCEPT ![t] = IF @ = "none" THEN "accepted" ELSE @]
    /\ UNCHANGED keyTimer

\* DM_ENG_Device_AddTransferSubscription succeeded; the timeout is started and
\* the RPC answered.
Subscribed(t) ==
    /\ subs' = [subs EXCEPT ![t] = TRUE]
    /\ timerStart(req[t].key, t)
    /\ answer' = [answer EXCEPT ![t] = IF @ = "none" THEN "accepted" ELSE @]

\* The rest of the RPC, or of RestartTransfer, when AddTransfer returned: the
\* subscription is made, its SubscriptionId is written or (unnoticed) is not;
\* or there is no subscription.
AddTransferSubscription(t) ==
    /\ cwmpd = "up" /\ busy = t
    /\ busy' = NULL
    /\ \/ Subscribed(t) /\ stray' = stray \ {t} /\ UNCHANGED faults
       \/ Subscribed(t) /\ stray' = stray \cup {t} /\ BusFails
       \/ /\ BusFails
          /\ answer' = [answer EXCEPT ![t] = IF @ = "none" THEN "denied" ELSE @]
          /\ UNCHANGED <<subs, stray, keyTimer>>
    /\ UNCHANGED <<dm, plugin, cwmpd, pathTimer, notif, reported, applied, exits>>

\* DM_ENG_Device_Common_DeleteSubscription: a subscription is found by its
\* SubscriptionId and forgotten; when the bus then fails to unsubscribe it
\* stays there, and can never be found again.
DeleteSubscription(t, fails) ==
    /\ subs' = [subs EXCEPT ![t] = @ /\ (fails \/ t \in stray)]
    /\ stray' = IF fails /\ subs[t] THEN stray \cup {t} ELSE stray

\* Fault: the timeout is not stopped.
TransferCompleteEvent_KeepsTimer(t, fails) ==
    IF Exists(t)
    THEN /\ reported' = [reported EXCEPT ![t] = @ + 1]
         /\ DeleteSubscription(t, fails)
         /\ UNCHANGED keyTimer
    ELSE UNCHANGED <<keyTimer, reported, subs, stray>>

\* DM_ENG_Device_TransferCompleteEvent: the timeout is stopped, the engine
\* gets the TransferComplete, the subscription is deleted.  An instance that
\* was deleted is not read.
TransferCompleteEvent(t, fails) ==
    IF Exists(t)
    THEN /\ keyTimer' = [keyTimer EXCEPT ![req[t].key] = NULL]
         /\ reported' = [reported EXCEPT ![t] = @ + 1]
         /\ DeleteSubscription(t, fails)
    ELSE UNCHANGED <<keyTimer, reported, subs, stray>>

\* DM_ENG_Device_TransferNotification.
TransferNotification(t) ==
    /\ Serving
    /\ notif[t]
    /\ notif' = [notif EXCEPT ![t] = FALSE]
    /\ \/ TransferCompleteEvent(t, FALSE) /\ UNCHANGED faults
       \/ TransferCompleteEvent(t, TRUE) /\ BusFails
       \/ BusFails /\ UNCHANGED <<keyTimer, reported, subs, stray>>
    /\ UNCHANGED <<dm, plugin, cwmpd, busy, pathTimer, answer, applied, exits>>

\* The timeout is set for the delay of the transfer and one hour more: unless
\* a process was restarted meanwhile, the plugin has started the transfer.
Due(k) == delay[keyTimer[k]] = 0 \/ exits > 0

\* The instance t has timed out: its subscription is deleted, then a transfer
\* that is not "Initial" has failed (also one that just finished), then it is
\* reported; lost are the calls that fail.  A subscription that is still there
\* is notified of the write.
TimedOut(t, lost) ==
    /\ DeleteSubscription(t, "unsubscribe" \in lost)
    /\ IF status[t] # "Initial" /\ "write" \notin lost
       THEN /\ status' = [status EXCEPT ![t] = "Finished"]
            /\ fault' = [fault EXCEPT ![t] = TRUE]
       ELSE UNCHANGED <<status, fault>>
    /\ notif' = [notif EXCEPT ![t] = subs'[t] /\ (@ \/ status'[t] # status[t])]
    /\ reported' = IF "report" \in lost THEN reported ELSE [reported EXCEPT ![t] = @ + 1]

\* DM_ENG_Device_TransferTimedOut, for one of the instances with the key, if
\* they can be listed.
TransferTimedOut(k) ==
    /\ Serving
    /\ keyTimer[k] # NULL /\ Due(k)
    /\ keyTimer' = [keyTimer EXCEPT ![k] = NULL]
    /\ UNCHANGED <<req, disk, plugin, cwmpd, busy, pathTimer, answer, applied, exits>>
    /\ \/ /\ IF \E t \in Transfers : Exists(t) /\ req[t].key = k
             THEN BusFails ELSE UNCHANGED faults
          /\ UNCHANGED <<status, fault, watch, reported>>
       \/ \E t \in Transfers, lost \in SUBSET {"unsubscribe", "write", "report"} :
             /\ Exists(t) /\ req[t].key = k
             /\ TimedOut(t, lost)
             /\ IF lost = {} THEN UNCHANGED faults ELSE BusFails

\* A timer that UpDownloadInitialize started for an instance fires:
\* DM_ENG_Device_RestartTransfer (with a delay of 5 s) or TransferCompleteEvent,
\* of an instance that this cwmpd did not subscribe to.
PathTimer(t) ==
    /\ Serving
    /\ pathTimer[t] # NULL
    /\ pathTimer' = [pathTimer EXCEPT ![t] = NULL]
    /\ \/ /\ pathTimer[t] = "RestartTransfer" /\ Exists(t)
          /\ CallAddTransfer(t, req, FALSE)
          /\ UNCHANGED <<keyTimer, watch, reported>>
       \/ /\ pathTimer[t] = "TransferCompleteEvent"
          /\ TransferCompleteEvent(t, FALSE)
          /\ UNCHANGED <<dm, plugin, busy, notif, answer, faults>>
       \/ /\ BusFails
          /\ UNCHANGED <<dm, plugin, busy, answer, keyTimer, watch, reported>>
    /\ UNCHANGED <<cwmpd, applied, exits>>

\* DM_ENG_Device_TransferDoneAcknowledged.
TransferDoneAcknowledged(t) ==
    /\ Serving
    /\ reported[t] > 0
    /\ reported' = [reported EXCEPT ![t] = 0]
    /\ \/ status' = [status EXCEPT ![t] = "Deleted"] /\ UNCHANGED faults
       \/ BusFails /\ UNCHANGED status
    /\ UNCHANGED <<fault, req, disk, plugin, cwmpd, busy, timers, watch,
                   answer, applied, exits>>

\* cwmpd ends alone; the plugin, and what it is doing, goes on.
CwmpdExits ==
    /\ cwmpd = "up"
    /\ exits < MaxExits
    /\ exits' = exits + 1
    /\ cwmpd' = "down"
    /\ busy' = NULL
    /\ keyTimer' = AllKeys(NULL)
    /\ pathTimer' = All(NULL)
    /\ subs' = All(FALSE)
    /\ stray' = {}
    /\ notif' = All(FALSE)
    /\ reported' = All(0)
    /\ UNCHANGED <<dm, plugin, answer, applied, faults>>

\* Fault: a transfer that was "Finished" is not reported again.
UpDownloadInitialize_SkipsFinished(late, fc) ==
    /\ status' = [t \in Transfers |->
                    IF status[t] = "Applying" THEN "Finished" ELSE status[t]]
    /\ fault' = [t \in Transfers |->
                       IF status[t] = "Applying" THEN fc ELSE fault[t]]
    /\ pathTimer' = [t \in Transfers |->
          CASE status[t] = "Initial" /\ t \notin late -> "RestartTransfer"
            [] status[t] = "Applying" -> "TransferCompleteEvent"
            [] OTHER -> NULL]
    /\ keyTimer' = [k \in Keys |->
          LET T == {t \in late : req[t].key = k}
          IN  IF k # NoKey /\ T # {} THEN CHOOSE t \in T : TRUE ELSE NULL]

\* DM_ENG_Device_UpDownloadInitialize: "Initial" transfers are restarted, or
\* timed out when late; the upgrade that was "Applying" takes the state of the
\* active image for its result (handle_pending_upgrade); what is "Finished"
\* is reported.
UpDownloadInitialize(late, fc) ==
    /\ status' = [t \in Transfers |->
                    IF status[t] = "Applying" THEN "Finished" ELSE status[t]]
    /\ fault' = [t \in Transfers |->
                       IF status[t] = "Applying" THEN fc ELSE fault[t]]
    /\ pathTimer' = [t \in Transfers |->
          CASE status[t] = "Initial" /\ t \notin late -> "RestartTransfer"
            [] status[t] \in {"Applying", "Finished"} -> "TransferCompleteEvent"
            [] OTHER -> NULL]
    /\ keyTimer' = [k \in Keys |->
          LET T == {t \in late : req[t].key = k}
          IN  IF k # NoKey /\ T # {} THEN CHOOSE t \in T : TRUE ELSE NULL]

CwmpdStarts ==
    /\ cwmpd = "down"
    /\ cwmpd' = "up"
    /\ \E late \in SUBSET {t \in Transfers : status[t] = "Initial"},
          fc \in BOOLEAN :
          UpDownloadInitialize(late, fc)
    /\ UNCHANGED <<req, disk, plugin, busy, watch, reported, ghosts>>

-----------------------------------------------------------------------------
Next ==
    \/ \E t \in Transfers, r \in Requests : DoTransfer(t, r)
    \/ \E t \in Transfers : AddTransferSubscription(t)
    \/ \E t \in Transfers : TransferNotification(t)
    \/ \E k \in Keys : TransferTimedOut(k)
    \/ \E t \in Transfers : PathTimer(t)
    \/ \E t \in Transfers : TransferDoneAcknowledged(t)
    \/ CwmpdExits
    \/ CwmpdStarts
    \/ \E t \in Transfers : DelayTimer(t)
    \/ \E t \in Transfers : SelfTestDone(t)
    \/ \E t \in Transfers, fc \in BOOLEAN : TransferEnds(t, fc)
    \/ FirmwareFailed
    \/ FirmwareApplied
    \/ PluginRestarts
    \/ Save

Spec == Init /\ [][Next]_vars

(***************************************************************************)
(* Fairness.  The event loops serve their timers and messages, and the     *)
(* plugin starts cwmpd again.  Nothing is asked of the transfers or of the *)
(* external parts: they may stay silent for ever.                          *)
(***************************************************************************)
Fairness ==
    /\ WF_vars(CwmpdStarts)
    /\ \A t \in Transfers :
          /\ WF_vars(AddTransferSubscription(t))
          /\ WF_vars(PathTimer(t))
          /\ WF_vars(DelayTimer(t))
    /\ \A k \in Keys : WF_vars(TransferTimedOut(k))

FairSpec == Spec /\ Fairness

-----------------------------------------------------------------------------
(***************************************************************************)
(* Properties.                                                             *)
(***************************************************************************)

\* Every parameter, timer, subscription and counter has its type.
TypeOK ==
    /\ status \in [Transfers -> Statuses]
    /\ fault \in [Transfers -> BOOLEAN]
    /\ req \in [Transfers -> Requests \cup {NULL}]
    /\ disk \in [status : [Transfers -> Statuses],
                fault : [Transfers -> BOOLEAN]]
    /\ delay \in [Transfers -> Nat]
    /\ selftest \in [Transfers -> Nat]
    /\ running \in [Transfers -> Nat]
    /\ fwsub \in [Transfers -> BOOLEAN]
    /\ download \in Transfers \cup {NULL}
    /\ cwmpd \in {"up", "down"}
    /\ busy \in Transfers \cup {NULL}
    /\ keyTimer \in [Keys -> Transfers \cup {NULL}]
    /\ pathTimer \in [Transfers -> {"RestartTransfer", "TransferCompleteEvent", NULL}]
    /\ subs \in [Transfers -> BOOLEAN]
    /\ stray \subseteq Transfers
    /\ notif \in [Transfers -> BOOLEAN]
    /\ reported \in [Transfers -> Nat]
    /\ answer \in [Transfers -> {"none", "accepted", "denied"}]
    /\ applied \subseteq Transfers
    /\ faults \in Nat
    /\ exits \in Nat

\* No other request ever used the (non-empty) CommandKey of t: two transfers
\* with one key share the timeout, and the end of one stops that of the other.
OwnKey(t) ==
    /\ req[t] # NULL
    /\ req[t].key # NoKey
    /\ \A u \in Transfers \ {t} : req[u] # NULL => req[u].key # req[t].key

\* As long as bus calls succeed, cwmpd never forgets an accepted transfer:
\* through lost notifications, restarts of either process and transfers that
\* stay silent, its instance is in the hands of the engine, or a timer will
\* put it there.
NoForgottenTransfer ==
    \A t \in Transfers :
        /\ cwmpd = "up" /\ busy # t
        /\ answer[t] = "accepted" /\ Exists(t) /\ OwnKey(t) /\ faults = 0
        => \/ reported[t] > 0
           \/ keyTimer[req[t].key] # NULL
           \/ pathTimer[t] # NULL

\* The end of a transfer and its timeout race, but while cwmpd runs the engine
\* gets one TransferComplete for it, not two.  A subscription that could not
\* be deleted makes the exception: the timeout's own write of "Finished" is
\* then notified, and reported once more.
OneReport ==
    \A t \in Transfers :
        req[t] # NULL /\ (OwnKey(t) \/ req[t].key = NoKey) /\ t \notin stray
        => reported[t] <= 1

\* "Applying" is on disk before the device can reboot into the image: an
\* upgrade that was booted is never started again by RestartTransfer.
NoUpgradeLoop == download \notin applied

\* "A timeout timer is started to report transfer timeouts": a TransferComplete
\* without a fault is only sent for a transfer that finished.
FaultlessReportIsFinished ==
    [][\A t \in Transfers :
         reported'[t] > reported[t] /\ ~fault'[t] => status'[t] = "Finished"]_vars

\* Every accepted transfer with a key of its own is reported to the engine, or
\* its instance is gone (acknowledged, or a reboot came before it was saved).
EventuallyReported ==
    \A t \in Transfers :
        answer[t] = "accepted" /\ OwnKey(t)
            ~> (reported[t] > 0 \/ ~Exists(t) \/ ~OwnKey(t) \/ faults > 0)

=============================================================================
