-------------------------- MODULE ScheduleDownload --------------------------
(***************************************************************************)
(* The ScheduleDownload transfers of the cwmp plugin: transfers.c,         *)
(* transfers_timewindow.c, transfers_firmware.c and transfers_dm.c.        *)
(*                                                                         *)
(* A transfer is an instance of ManagementServer.Transfers.ScheduleDownload*)
(* with one or two time windows.  Two timers per window write its Status   *)
(* in the data model; the data model queues an event, whose handler starts *)
(* the firmware download or, after the last window, gives the transfer up. *)
(* A failed download writes TransferComplete.Status, and the handler of    *)
(* that event retries.  Timers, events and bus messages are served by one  *)
(* event loop, so an action is one callback.                               *)
(*                                                                         *)
(* DeviceInfo.FirmwareImage is external: Download() is accepted or refused;*)
(* an accepted download ends in a failure status or in a reboot into the   *)
(* new image.  Instants are abstracted to the order of the windows (start  *)
(* before end, window 1 before window 2); the only file type is "1 Firmware*)
(* Upgrade Image".                                                         *)
(***************************************************************************)
EXTENDS Integers, Sequences, FiniteSets

CONSTANTS
    Transfers,      \* instances that are ever added
    NULL,
    Modes,          \* values of WindowMode used
    RetryValues,    \* values of MaxRetries used
    Loads           \* bounds that are met together: transfers, windows of
                    \* each, their modes and retries, and restarts of the
                    \* plugin other than an upgrade

ASSUME TransfersAssumption ==
    /\ NULL \notin Transfers
    /\ NULL \notin [lastTimeWindow : {0, 1, 2}, withinTimeWindow : BOOLEAN]
    /\ Modes # {}
    /\ RetryValues \subseteq Int
    /\ Loads \subseteq [transfers : Nat, windows : {1, 2}, modes : SUBSET Modes,
                        retries : SUBSET RetryValues, restarts : Nat]

VARIABLES
    plugin,         \* "boot" (deferred_init_timer pending), "up" or "down"
    status,         \* TransferComplete.Status; "None" / "Deleted": no object
    faultCode,      \* TransferComplete.FaultCode
    windows,        \* number of TimeWindowList instances
    windowMode,     \* TimeWindowList.{i}.WindowMode
    windowStatus,   \* TimeWindowList.{i}.Status
    maxRetries,     \* TimeWindowList.{i}.MaxRetries
    info,           \* transfer_info_t behind obj->priv, or NULL
    events,         \* queued data model events, per transfer, in order
    transfer_in_progress,
    downloads,      \* external: transfers whose image is being installed
    strays,         \* external: the same, of an upgrade the plugin gave up
    disk,           \* the data model as last saved (dm-save-delay)
    load,           \* ghost: the bounds of this behaviour
    restarts,       \* ghost: restarts so far
    allowance,      \* ghost: starts still permitted in each window (until lost)
    applied,        \* ghost: transfers whose image was booted
    lost            \* ghost: a stop dropped queued events or unsaved values

vars == <<plugin, status, faultCode, windows, windowMode, windowStatus,
          maxRetries, info, events, transfer_in_progress, downloads, strays,
          disk, load, restarts, allowance, applied, lost>>

Windows == {1, 2}
Supported == {"1 At Any Time", "2 Immediately"}
Statuses == {"None", "Idle", "In Progress", "Failed", "Done", "Deleted"}
FAULT_CODE_INTERNAL_ERROR == 9002
FAULT_CODE_FILE_TRANSFER_FAILURE == 9010
FAULT_CODE_UNSUPPORTED_PROTOCOL == 9013
FaultCodes == {0, FAULT_CODE_INTERNAL_ERROR, FAULT_CODE_FILE_TRANSFER_FAILURE,
               FAULT_CODE_UNSUPPORTED_PROTOCOL}

transfer_info_t == [lastTimeWindow : {0} \cup Windows, withinTimeWindow : BOOLEAN]
Events == [kind : {"added", "failed"}, window : {0}]
            \cup [kind : {"started", "ended"}, window : Windows]
Event(k, w) == [kind |-> k, window |-> w]

Exists(t) == status[t] \notin {"None", "Deleted"}

\* What the data model saves of the transfers.
Persistent == [status |-> status, faultCode |-> faultCode, windows |-> windows,
               windowMode |-> windowMode, windowStatus |-> windowStatus,
               maxRetries |-> maxRetries]
Memories == [status : [Transfers -> Statuses],
             faultCode : [Transfers -> FaultCodes],
             windows : [Transfers -> {0} \cup Windows],
             windowMode : [Transfers -> [Windows -> Modes]],
             windowStatus : [Transfers -> [Windows -> {"Idle", "Started", "Ended"}]],
             maxRetries : [Transfers -> [Windows -> Int]]]

Init ==
    /\ plugin = "boot"
    /\ status = [t \in Transfers |-> "None"]
    /\ faultCode = [t \in Transfers |-> 0]
    /\ windows = [t \in Transfers |-> 0]
    /\ windowMode = [t \in Transfers |-> [w \in Windows |-> CHOOSE m \in Modes : TRUE]]
    /\ windowStatus = [t \in Transfers |-> [w \in Windows |-> "Idle"]]
    /\ maxRetries = [t \in Transfers |-> [w \in Windows |-> 0]]
    /\ info = [t \in Transfers |-> NULL]
    /\ events = [t \in Transfers |-> <<>>]
    /\ transfer_in_progress = NULL
    /\ downloads = {}
    /\ strays = {}
    /\ disk = Persistent
    /\ load \in Loads
    /\ restarts = 0
    /\ allowance = [t \in Transfers |-> [w \in Windows |-> 1]]
    /\ applied = {}
    /\ lost = FALSE

-----------------------------------------------------------------------------
\* Variables no callback of the running plugin changes.
static == <<windows, windowMode, disk, load, restarts, applied, lost>>

\* The upgrade of t is given up while the firmware manager goes on with it.
GivenUp(t) ==
    /\ downloads' = downloads \ {t}
    /\ strays' = strays \cup (downloads \cap {t})

\* transfers_transfer_done, with the fault reported; evs is the queue left.
\* Nothing tells the firmware manager to stop.
transfers_transfer_done(t, fc, evs) ==
    /\ status' = [status EXCEPT ![t] = "Done"]
    /\ faultCode' = [faultCode EXCEPT ![t] = fc]
    /\ transfer_in_progress' =
          IF transfer_in_progress = t THEN NULL ELSE transfer_in_progress
    /\ events' = [events EXCEPT ![t] = evs]
    /\ GivenUp(t)

\* Fault: an upgrade in progress is not looked for.
do_firmwareupgrade_Twice(t) ==
    /\ transfer_in_progress' = t
    /\ downloads' = downloads \cup {t}
    /\ UNCHANGED strays

\* transfers_firmware_do_firmwareupgrade succeeds: no upgrade is in progress
\* and Download() is accepted.
do_firmwareupgrade(t) ==
    /\ transfer_in_progress = NULL
    /\ transfer_in_progress' = t
    /\ downloads' = downloads \cup {t}
    /\ UNCHANGED strays

\* transfers_start_transfer: Download() is called and accepted, or it is
\* not called because an upgrade is in progress, or it is refused.
transfers_start_transfer(t, w, evs) ==
    /\ allowance' = IF lost THEN allowance ELSE [allowance EXCEPT ![t][w] = @ - 1]
    /\ \/ /\ do_firmwareupgrade(t)
          /\ status' = [status EXCEPT ![t] = "In Progress"]
          /\ events' = [events EXCEPT ![t] = evs]
          /\ UNCHANGED faultCode
       \/ /\ status' = [status EXCEPT ![t] = "Failed"]
          /\ faultCode' = [faultCode EXCEPT ![t] = FAULT_CODE_INTERNAL_ERROR]
          /\ events' = [events EXCEPT ![t] = Append(evs, Event("failed", 0))]
          /\ UNCHANGED <<transfer_in_progress, downloads, strays>>

\* Nothing but the removal of the event.
Ignore(t, evs) ==
    /\ events' = [events EXCEPT ![t] = evs]
    /\ UNCHANGED <<status, faultCode, transfer_in_progress, downloads, strays, allowance>>

\* Fault: the end of the last window is not the end of the transfer.
transfers_handle_transfer_NeverLast(t, i, evs) ==
    LET w == i.lastTimeWindow IN
    IF status[t] = "Done" \/ w = 0 \/ windowMode[t][w] \notin Supported
    THEN Ignore(t, evs)
    ELSE IF i.withinTimeWindow
    THEN transfers_start_transfer(t, w, evs)
    ELSE Ignore(t, evs)

\* transfers_handle_transfer, with the info the caller has just written.
transfers_handle_transfer(t, i, evs) ==
    LET w == i.lastTimeWindow IN
    IF status[t] = "Done" \/ w = 0 \/ windowMode[t][w] \notin Supported
    THEN Ignore(t, evs)
    ELSE IF i.withinTimeWindow
    THEN transfers_start_transfer(t, w, evs)
    ELSE IF windows[t] = w
    THEN /\ transfers_transfer_done(t, FAULT_CODE_INTERNAL_ERROR, evs)
         /\ UNCHANGED allowance
    ELSE Ignore(t, evs)

\* transfers_firmwareupgrade_done: the fault is recorded and the transfer is
\* Done or Failed, but only inside a window of a supported mode.
upgrade_done_applies(t, i) ==
    /\ i # NULL
    /\ i.lastTimeWindow # 0
    /\ windowMode[t][i.lastTimeWindow] \in Supported
    /\ i.withinTimeWindow

-----------------------------------------------------------------------------
(***************************************************************************)
(* Requests and timers.                                                    *)
(***************************************************************************)

\* The starts that window w is worth with the retries r.
Starts(r) == [w \in Windows |-> 1 + IF r[w] > 0 THEN r[w] ELSE 0]

\* The n windows of a new transfer, with modes m and retries r.
AddWindows(t, n, m, r) ==
    /\ \A w \in Windows : IF w <= n THEN m[w] \in load.modes /\ r[w] \in load.retries
                         ELSE m[w] = windowMode[t][w] /\ r[w] = 0
    /\ windows' = [windows EXCEPT ![t] = n]
    /\ windowMode' = [windowMode EXCEPT ![t] = m]
    /\ maxRetries' = [maxRetries EXCEPT ![t] = r]
    /\ allowance' = IF lost THEN allowance ELSE [allowance EXCEPT ![t] = Starts(r)]

\* addScheduleDownload, called by cwmpd for the ACS: a new instance with its
\* windows.
addScheduleDownload(t) ==
    /\ plugin # "down"
    /\ status[t] = "None"
    /\ t = CHOOSE u \in Transfers : status[u] = "None"
    /\ Cardinality({u \in Transfers : status[u] # "None"}) < load.transfers
    /\ status' = [status EXCEPT ![t] = "Idle"]
    /\ \E n \in 1..load.windows, m \in [Windows -> Modes],
          r \in [Windows -> RetryValues \cup {0}] : AddWindows(t, n, m, r)
    /\ events' = [events EXCEPT ![t] = Append(@, Event("added", 0))]
    /\ UNCHANGED <<plugin, faultCode, windowStatus, info, transfer_in_progress,
                   downloads, strays, disk, load, restarts, applied, lost>>

\* del-inst of a finished transfer, once the ACS knows its result; the info
\* and the timers of the windows go with it.
scheduleDownload_del_inst(t) ==
    /\ plugin = "up"
    /\ status[t] = "Done"
    /\ info[t] # NULL
    /\ status' = [status EXCEPT ![t] = "Deleted"]
    /\ info' = [info EXCEPT ![t] = NULL]
    /\ UNCHANGED <<plugin, faultCode, windowStatus, maxRetries, events,
                   transfer_in_progress, downloads, strays, allowance, static>>

\* timewindow_start_timer_cb and timewindow_end_timer_cb.
window_timer_cb(t, w, from, to, kind) ==
    /\ plugin = "up"
    /\ Exists(t)
    /\ info[t] # NULL
    /\ w <= windows[t]
    /\ windowStatus[t][w] = from
    /\ w = 2 => windowStatus[t][1] = "Ended"
    /\ windowStatus' = [windowStatus EXCEPT ![t][w] = to]
    /\ events' = [events EXCEPT ![t] = Append(@, Event(kind, w))]
    /\ UNCHANGED <<plugin, status, faultCode, maxRetries, info,
                   transfer_in_progress, downloads, strays, allowance, static>>

timewindow_start_timer_cb(t, w) == window_timer_cb(t, w, "Idle", "Started", "started")
timewindow_end_timer_cb(t, w) == window_timer_cb(t, w, "Started", "Ended", "ended")

-----------------------------------------------------------------------------
(***************************************************************************)
(* Handlers of the queued events.                                          *)
(***************************************************************************)

\* transfers_transfer_add_info: the position in the windows, from the data
\* model.
transfers_transfer_add_info(t) ==
    LET begun == {w \in 1..windows[t] : windowStatus[t][w] # "Idle"}
        lst   == IF 2 \in begun THEN 2 ELSE IF 1 \in begun THEN 1 ELSE 0
    IN  [lastTimeWindow |-> lst,
         withinTimeWindow |-> lst # 0 /\ windowStatus[t][lst] = "Started"]

NextEvent(t, kind) ==
    /\ plugin # "down"
    /\ events[t] # <<>>
    /\ Head(events[t]).kind = kind

\* _scheduleDownload_added.
scheduleDownload_added(t) ==
    /\ NextEvent(t, "added")
    /\ events' = [events EXCEPT ![t] = Tail(@)]
    /\ info' = [info EXCEPT ![t] = IF Exists(t) /\ @ = NULL
                                   THEN transfers_transfer_add_info(t) ELSE @]
    /\ UNCHANGED <<plugin, status, faultCode, windowStatus, maxRetries,
                   transfer_in_progress, downloads, strays, allowance, static>>

\* Fault: the cached window is not updated.
timewindow_started_KeepsLast(t) ==
    /\ NextEvent(t, "started")
    /\ Exists(t)
    /\ info[t] # NULL
    /\ LET i == [info[t] EXCEPT !.withinTimeWindow = TRUE]
       IN  /\ info' = [info EXCEPT ![t] = i]
           /\ transfers_handle_transfer(t, i, Tail(events[t]))
    /\ UNCHANGED <<plugin, windowStatus, maxRetries, static>>

\* _timewindow_started.
timewindow_started(t) ==
    /\ NextEvent(t, "started")
    /\ Exists(t)
    /\ info[t] # NULL
    /\ LET i == [lastTimeWindow |-> Head(events[t]).window,
                 withinTimeWindow |-> TRUE]
       IN  /\ info' = [info EXCEPT ![t] = i]
           /\ transfers_handle_transfer(t, i, Tail(events[t]))
    /\ UNCHANGED <<plugin, windowStatus, maxRetries, static>>

\* _timewindow_ended.
timewindow_ended(t) ==
    /\ NextEvent(t, "ended")
    /\ Exists(t)
    /\ info[t] # NULL
    /\ LET i == [info[t] EXCEPT !.withinTimeWindow = FALSE]
       IN  /\ info' = [info EXCEPT ![t] = i]
           /\ transfers_handle_transfer(t, i, Tail(events[t]))
    /\ UNCHANGED <<plugin, windowStatus, maxRetries, static>>

\* Fault: MaxRetries is not decremented.
schedule_download_transfer_failed_Forever(t) ==
    /\ NextEvent(t, "failed")
    /\ Exists(t)
    /\ info[t] # NULL
    /\ LET w == info[t].lastTimeWindow
           evs == Tail(events[t])
       IN  IF w = 0 \/ windowMode[t][w] \notin Supported \/ ~info[t].withinTimeWindow
           THEN Ignore(t, evs)
           ELSE IF maxRetries[t][w] > 0
           THEN transfers_start_transfer(t, w, evs)
           ELSE IF windows[t] = w
           THEN /\ transfers_transfer_done(t, faultCode[t], evs)
                /\ UNCHANGED allowance
           ELSE Ignore(t, evs)
    /\ UNCHANGED <<plugin, windowStatus, maxRetries, info, static>>

\* _schedule_download_transfer_failed: retry while the window lasts; with no
\* retry left the transfer ends in the last window, or waits for the next.
schedule_download_transfer_failed(t) ==
    /\ NextEvent(t, "failed")
    /\ Exists(t)
    /\ info[t] # NULL
    /\ LET w == info[t].lastTimeWindow
           evs == Tail(events[t])
       IN  IF w = 0 \/ windowMode[t][w] \notin Supported \/ ~info[t].withinTimeWindow
           THEN Ignore(t, evs) /\ UNCHANGED maxRetries
           ELSE IF maxRetries[t][w] > 0
           THEN /\ maxRetries' = [maxRetries EXCEPT ![t][w] = @ - 1]
                /\ transfers_start_transfer(t, w, evs)
           ELSE /\ IF windows[t] = w
                   THEN /\ transfers_transfer_done(t, faultCode[t], evs)
                        /\ UNCHANGED allowance
                   ELSE Ignore(t, evs)
                /\ UNCHANGED maxRetries
    /\ UNCHANGED <<plugin, windowStatus, info, static>>

-----------------------------------------------------------------------------
(***************************************************************************)
(* DeviceInfo.FirmwareImage.                                               *)
(***************************************************************************)

\* firmwareimage_notification with a *Failed status: the failure, of whichever
\* download, is taken for the end of the transfer in progress.
firmwareimage_notification(fc) ==
    LET t == transfer_in_progress IN
    /\ transfer_in_progress' = NULL
    /\ IF t # NULL /\ upgrade_done_applies(t, info[t])
       THEN /\ status' = [status EXCEPT ![t] = "Failed"]
            /\ faultCode' = [faultCode EXCEPT ![t] = fc]
            /\ events' = IF status[t] = "Failed" THEN events
                         ELSE [events EXCEPT ![t] = Append(@, Event("failed", 0))]
       ELSE UNCHANGED <<status, faultCode, events>>
    /\ UNCHANGED <<plugin, windowStatus, maxRetries, info, allowance, static>>

\* A download that the plugin still follows fails.
FirmwareFailed(t, fc) ==
    /\ t \in downloads
    /\ downloads' = downloads \ {t}
    /\ UNCHANGED strays
    /\ firmwareimage_notification(fc)

\* A download that the plugin gave up fails (or one of several of a transfer):
\* the transfer in progress, if any, is given up with its own download.
StrayFailed(t, fc) ==
    /\ t \in strays
    /\ downloads' = downloads \ {transfer_in_progress}
    /\ strays' \in {(strays \ gone) \cup (downloads \cap {transfer_in_progress})
                     : gone \in {{}, {t}}}
    /\ firmwareimage_notification(fc)

-----------------------------------------------------------------------------
(***************************************************************************)
(* Stopping and starting the plugin.                                       *)
(***************************************************************************)

\* The process ends; the data model of the next one is mem.
Stopped(mem) ==
    /\ plugin' = "down"
    /\ status' = mem.status
    /\ faultCode' = mem.faultCode
    /\ windows' = mem.windows
    /\ windowMode' = mem.windowMode
    /\ windowStatus' = mem.windowStatus
    /\ maxRetries' = mem.maxRetries
    /\ disk' = mem
    /\ info' = [t \in Transfers |-> NULL]
    /\ events' = [t \in Transfers |-> <<>>]
    /\ transfer_in_progress' = NULL
    /\ lost' = (lost \/ mem # Persistent \/ \E t \in Transfers : events[t] # <<>>)
    /\ allowance' = IF lost' THEN [t \in Transfers |-> [w \in Windows |-> 0]]
                             ELSE allowance

\* The image is installed (AutoActivate): the device reboots into it.
FirmwareApplied ==
    /\ \E t \in downloads \cup strays : applied' = applied \cup {t}
    /\ downloads' = {}
    /\ strays' = {}
    /\ Stopped(Persistent)
    /\ UNCHANGED <<load, restarts>>

\* _app_stopped and the final save, alone (the firmware manager lives on) or
\* with the whole device.
AppStopped ==
    /\ plugin # "down"
    /\ restarts < load.restarts
    /\ restarts' = restarts + 1
    /\ downloads' = {}
    /\ strays' \in {downloads \cup strays, {}}
    /\ Stopped(Persistent)
    /\ UNCHANGED <<load, applied>>

\* A crash or a power cut: what was not saved is lost.
Crash ==
    /\ plugin # "down"
    /\ restarts < load.restarts
    /\ restarts' = restarts + 1
    /\ downloads' = {}
    /\ strays' \in {downloads \cup strays, {}}
    /\ Stopped(disk)
    /\ UNCHANGED <<load, applied>>

\* The event of a deleted instance: amxd_dm_findf finds nothing and the
\* handler reads transfer_obj->priv through NULL.
EventOfDeletedTransfer(t) ==
    /\ \E k \in {"started", "ended", "failed"} : NextEvent(t, k)
    /\ status[t] = "Deleted"
    /\ Stopped(disk)
    /\ downloads' = {}
    /\ strays' = downloads \cup strays
    /\ UNCHANGED <<load, restarts, applied>>

\* dm-save-on-changed, after dm-save-delay (bounded: only while a restart that
\* needs what was saved is to come).
Save ==
    /\ plugin # "down"
    /\ disk # Persistent
    /\ restarts < load.restarts
    /\ disk' = Persistent
    /\ UNCHANGED <<plugin, status, faultCode, windows, windowMode, windowStatus,
                   maxRetries, info, events, transfer_in_progress, downloads, strays,
                   load, restarts, allowance, applied, lost>>

\* transfers_init.
Boot ==
    /\ plugin = "down"
    /\ plugin' = "boot"
    /\ UNCHANGED <<status, faultCode, windowStatus, maxRetries, info, events,
                   transfer_in_progress, downloads, strays, allowance, static>>

\* deferred_init_timer_cb: for every instance the info is rebuilt, then a
\* transfer that was in progress is ended from the status of the active
\* image (handle_pending_upgrade: any image that runs counts as success).
deferred_init_timer_cb ==
    LET i == [t \in Transfers |->
                IF ~Exists(t) THEN NULL
                ELSE IF info[t] # NULL THEN info[t]
                ELSE transfers_transfer_add_info(t)]
        pending == {t \in Transfers : /\ status[t] = "In Progress"
                                      /\ upgrade_done_applies(t, i[t])}
    IN  /\ plugin = "boot"
        /\ plugin' = "up"
        /\ info' = i
        /\ \E fc \in [pending -> {0, FAULT_CODE_INTERNAL_ERROR}] :
             /\ faultCode' = [t \in Transfers |-> IF t \in pending THEN fc[t]
                                                  ELSE faultCode[t]]
             /\ status' = [t \in Transfers |->
                             IF t \notin pending THEN status[t]
                             ELSE IF fc[t] = 0 THEN "Done" ELSE "Failed"]
             /\ events' = [t \in Transfers |->
                             IF t \in pending /\ fc[t] # 0
                             THEN Append(events[t], Event("failed", 0))
                             ELSE events[t]]
        /\ UNCHANGED <<windowStatus, maxRetries, transfer_in_progress, downloads, strays,
                       allowance, static>>

HandleEvent(t) ==
    \/ scheduleDownload_added(t)
    \/ timewindow_started(t)
    \/ timewindow_ended(t)
    \/ schedule_download_transfer_failed(t)
    \/ EventOfDeletedTransfer(t)

WindowTimer(t) ==
    \E w \in Windows : timewindow_start_timer_cb(t, w) \/ timewindow_end_timer_cb(t, w)

Next ==
    \/ \E t \in Transfers :
          \/ addScheduleDownload(t)
          \/ scheduleDownload_del_inst(t)
          \/ WindowTimer(t)
          \/ HandleEvent(t)
    \/ \E fc \in {FAULT_CODE_FILE_TRANSFER_FAILURE,
                 FAULT_CODE_UNSUPPORTED_PROTOCOL} :
          \E t \in Transfers : FirmwareFailed(t, fc) \/ StrayFailed(t, fc)
    \/ FirmwareApplied
    \/ AppStopped
    \/ Crash
    \/ Save
    \/ Boot
    \/ deferred_init_timer_cb

Spec == Init /\ [][Next]_vars

(***************************************************************************)
(* Fairness: the event loop serves its queue and its timers, and a stopped *)
(* plugin is started again.  Nothing is assumed of the firmware manager.   *)
(***************************************************************************)
Fairness ==
    /\ \A t \in Transfers : WF_vars(HandleEvent(t)) /\ WF_vars(WindowTimer(t))
    /\ WF_vars(Boot)
    /\ WF_vars(deferred_init_timer_cb)

FairSpec == Spec /\ Fairness

-----------------------------------------------------------------------------
(***************************************************************************)
(* Properties.                                                             *)
(***************************************************************************)

\* The data model objects, the private info and the queue have their types.
TypeOK ==
    /\ plugin \in {"boot", "up", "down"}
    /\ Persistent \in Memories
    /\ disk \in Memories
    /\ info \in [Transfers -> transfer_info_t \cup {NULL}]
    /\ events \in [Transfers -> Seq(Events)]
    /\ transfer_in_progress \in Transfers \cup {NULL}
    /\ downloads \subseteq Transfers
    /\ strays \subseteq Transfers
    /\ load \in Loads
    /\ restarts \in Nat
    /\ allowance \in [Transfers -> [Windows -> Int]]
    /\ applied \subseteq Transfers
    /\ lost \in BOOLEAN

\* transfer_in_progress never points to a transfer that is finished or whose
\* object was deleted: the pointer of transfers_firmware.c never dangles and
\* a finished transfer never blocks the others.
InProgressIsUnfinished ==
    \A t \in Transfers :
        transfer_in_progress = t => status[t] \in {"In Progress", "Failed"}

\* Inside its window a transfer that says "In Progress" really is the one
\* the firmware notifications are for: it cannot be left hanging there.
NoZombie ==
    \A t \in Transfers :
        /\ plugin = "up"
        /\ info[t] # NULL
        /\ info[t].withinTimeWindow
        /\ info[t].lastTimeWindow # 0 => windowMode[t][info[t].lastTimeWindow] \in Supported
        /\ status[t] = "In Progress"
        => transfer_in_progress = t

\* A download that runs is that of the transfer in progress, unless the plugin
\* gave it up (its last window ended, the plugin was stopped, or the failure of
\* such a download was taken for its own): its failure is then given to the
\* transfer that started it, and two downloads are not started at a time.
DownloadIsTracked == downloads \subseteq {transfer_in_progress}

\* The three parts: with several transfers, the failure of a download is given
\* to another transfer than its own only if that download was given up before.
ProgressIsTracked == InProgressIsUnfinished /\ NoZombie /\ DownloadIsTracked

\* Once its queue is empty, the cached position of a transfer in its windows
\* is what the data model says, across any restart.
InfoMatchesWindows ==
    \A t \in Transfers :
        plugin = "up" /\ Exists(t) /\ events[t] = <<>>
            => info[t] = transfers_transfer_add_info(t)

\* A window sees at most one start and MaxRetries retries, however events,
\* refusals and restarts interleave, provided nothing was lost in a crash.
RetriesBounded ==
    ~lost => \A t \in Transfers, w \in Windows : allowance[t][w] >= 0

\* Every transfer with supported windows is finished at the latest after its
\* last window, whatever the firmware manager does, provided no stop of the
\* plugin dropped a queued event or an unsaved value.
EventuallyDone ==
    \A t \in Transfers :
        status[t] = "Idle" /\ (\A w \in Windows : windowMode[t][w] \in Supported)
            ~> status[t] \in {"Done", "Deleted"} \/ lost

\* "Numerical fault code, 0 indicates no fault": a transfer that ends without
\* fault has had its image applied.  The code does not keep this when it is
\* restarted during a download (handle_pending_upgrade).
SuccessMeansApplied ==
    \A t \in Transfers : status[t] = "Done" /\ faultCode[t] = 0 => t \in applied

=============================================================================
