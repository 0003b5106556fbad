# Verification of the TR-069 manager

TLA+ models of the control logic of the TR-069 (CWMP) manager: the `cwmpd`
daemon (`src/src/dmmain`), the device adapter it loads
(`src/src/dmdeviceadapter/amx/adapter`) and the `cwmp_plugin` of the data model
(`src/src/dmdeviceadapter/amx/cwmp_plugin`). TLC checks the models on small
instances; TLAPS proves the central invariants for every instance.
`PROJECT.json` lists components, runs, mutants, findings, hazards and theorems,
and maps each definition to the lines it models.

## 1. The system

Two processes share one data model (`Device.ManagementServer.`).

* **cwmp_plugin** owns the data model. It follows the WAN address reported by
  netmodel, builds the connection request URL, opens the firewall for it, starts
  and restarts cwmpd, and executes downloads and uploads.
* **cwmpd** talks to the ACS. It resolves the ACS name, opens HTTP sessions to
  it, and runs an HTTP server on which the ACS asks for a session (the connection
  request). Its inform scheduler and RPC engine (dmengine, dmcom) are libraries
  outside this repository.

Each process is a single thread around one event loop. There is no preemption;
what makes the code hard is that every operation is cut into callbacks: a
notification, timer, DNS answer, process signal or firmware status arrives later,
in any order relative to the others, and is handled with whatever the state is by
then. Both processes may stop or crash between any two callbacks, and the
data model is saved with a delay.

### Components

| Component | State it keeps | Operations | Talks to | Hard part | What makes it correct |
|---|---|---|---|---|---|
| ACS address resolver `cwmpd_dns.c` | list of resolvers (each with a c-ares channel and timers), `send_bootstrap`, TTL timer | resolve, answer, socket opened/closed, clean timer, clean-up | data model (URL, ACSIPList), inform scheduler, client | overlapping lookups, stale answers, failed bus reads | resolution never dies; a stale answer is never used; one bootstrap per URL change |
| Connection request server `cwmpd_server.c`, `cwmpd_connectionsecurity.c` | listener, served path, time stamps of requests | start, stop, restart, handle a request | data model, engine events, engine | notifications handled late, start of a running server, limiter at its limit | listens where the data model says; limited; grants nothing when disabled |
| Main `cwmpd_main.c`, `cwmpd_evlp.c` | run state, contexts | init, engine events, signals, clean-up | all of the above | a failing server ends the process | order of init and clean-up |
| Client session `cwmpd_client.c` | one HTTP session in static variables, chosen ACS address, digest state, QoS rule, timers | start, send, receive, retry with digest, timeout, close | resolver, engine | late callbacks of a former session, timers against the end of the session | one request at a time, nothing passes to the next session, every session ends |
| Timers and cookies `cwmpd_timer.c`, `cwmpd_cookie.c` | named timers, cookie list | start, stop, store, match | engine, client | restart under the same name | a timer fires once per start |
| ScheduleDownload transfers `transfers*.c` | transfer instances, windows, cached position, transfer in progress | add, window start/end, failure, delete, save, restart | data model events, DeviceInfo.FirmwareImage | events of several timers queued, notifications without identity, restart in the middle | each transfer ends, is retried at most MaxRetries times, never hangs |
| cwmpd supervision `cwmp_plugin_service.c`, `cwmp_plugin_proc.c`, `cwmp_plugin.c` | process, restart timers, firewall rule, init_done | start, stop, exit signal, restart timer, init, exit | firewall, data model | exits racing timers and address changes | cwmpd comes back; never starts before the plugin is ready |
| WAN address selection `cwmp_plugin_intf_queries.c` | addresses per family, mode, wait timer | query callbacks, mode and interface writes | netmodel, data model | two families and a timer in any order | the local address is the preferred one |
| Connection request URL `cwmp_plugin_connection_request.c` | host, port, path, URL, suspension flag | change handlers, suspension RPC | supervision | events dropped while suspended, path created once | URL and firewall are current |
| ACS transfers (Download, Upload) `DM_AmxUpDownload.c`, `cwmp_plugin_transfer.c` | ACSTransfer instances; in cwmpd timers and subscriptions, in the plugin delay timers, self tests, uploads | request, subscribe, end, timeout, restart, report, acknowledge | engine, plugin, libfiletransfer, FirmwareImage, vendor files | end against timeout, notification before the subscription, either process restarted | each accepted transfer is reported, once; a booted upgrade is not repeated |
| Change DU state `smm.c`, `DM_AmxChangeDUState.c` | operations, results, DUStateChangeComplete instances | request, result, report, acknowledge | SMM, plugin, engine | a call that times out while it is carried out, results in two writes, notification before the subscription | the ACS is told of each change that ends, and nothing else |
| Manageable devices `cwmp_plugin_manageable_device.c` | subscription and query with retry timers, table of devices, cache of devices without a host | start and stop of a match, host address changes | gMap, Hosts | two sources in any order, several interfaces of a device | table = hosts of the devices that match |
| XMPP `cwmp_plugin_xmpp.c` | - | derive the JabberID | data model | - | - |
| Adapter: parameters `DM_DeviceAdapter.c`, `DM_AmxParameter*.c`, `DM_AmxAddDelete.c` | - | get, set, names, attributes, add, delete | bus | a set of several objects that fails in the middle | what the ACS is answered is what was done |
| Adapter: notifications `DM_AmxACSConnection.c`, `DM_AmxSystemConnection.c`, `DM_AmxCommon.c` | a list of subscribed parameters per object, the stored Subscription instances, the value the ACS set last | subscribe, unsubscribe, restore at start, handle a notification | bus, engine, main | changes between a read and a subscription, echoes of the ACS's own writes | each change reaches the ACS once |

## 2. Modules

| Module | Models | Extended by |
|---|---|---|
| `CwmpDns` | the resolver, with its callers in main, client and adapter | `MCCwmpDns`, `CwmpDns_proofs` |
| `ScheduleDownload` | `transfers*.c` | `MCScheduleDownload`, `ScheduleDownload_proofs` |
| `CwmpdService` | supervision, WAN address, connection request URL, firewall | `MCCwmpdService`, `CwmpdService_proofs` |
| `CwmpServer` | the connection request server, its limiter, and the path from a notification to a start or stop | `MCCwmpServer`, `CwmpServer_proofs` |
| `AcsTransfer` | the Download and Upload RPCs across cwmpd and the plugin, with the named timers of `cwmpd_timer.c` | `MCAcsTransfer`, `AcsTransfer_proofs` |
| `CwmpClient` | the HTTP session of `cwmpd_client.c`, its timers and cookie jar | `MCCwmpClient`, `CwmpClient_proofs` |
| `ParameterAccess` | SetParameterValues, the subscriptions of the ACS and their notifications | `MCParameterAccess`, `ParameterAccess_proofs` |
| `ChangeDUState` | the ChangeDUState RPC across cwmpd, plugin and SMM | `MCChangeDUState`, `ChangeDUState_proofs` |
| `DuChange` | what the ACS may rely on when it asks for a change: the abstract specification that `ChangeDUState` implements | - |
| `TransferPromise` | what the ACS may rely on when it asks for a transfer: the abstract specification that `AcsTransfer` implements | - |
| `ManageableDevice` | the table of manageable devices | `MCManageableDevice`, `ParameterAccess_proofs` |

An action is one callback of the event loop, run to its end, with every write it
makes. Bus calls, timers and libraries are external: they answer, fail or fire in
any order the code leaves open. Operators named `X_Y` below a comment "Fault"
are faulty variants of `X`; no specification uses them, they serve to show that
the properties notice such an error.

**CwmpDns.** `resolver_list` holds a record per resolver: host, dirty flag,
whether the query is outstanding, the periodic timeout timer and the clean timer.
`cwmp_dns_resolve(url_changed)` is one operator used by the four callers (first
lookup, URL change, TTL timer, session without address); it either fails to read
the URL, finds nothing to look up, or creates a resolver after marking the others
dirty. `ResolveCb` is the answer; c-ares may give it inside `ares_getaddrinfo`.
Addresses are abstracted to the host they belong to, TTLs to an armed timer.
`owed`, `target`, `changes`, `bootstraps` and `faults` are history variables.

**ScheduleDownload.** The data model of each transfer (`status`, `faultCode`,
windows), the cached `transfer_info_t`, a queue of events per transfer, and the
one `transfer_in_progress` of `transfers_firmware.c`. `disk` is what was last
saved: `Crash` returns to it, `AppStopped` saves first. Instants are abstracted
to their order: a window starts before it ends, and before the next. The firmware
manager accepts or refuses a download, fails it at any later time, or reboots
into the image. `downloads` are those it is busy with; one that the plugin gives up
(its last window ends, the plugin stops, or the failure of another is taken for its
own) goes on and becomes one of `strays`. A failure notification carries no identity:
`firmwareimage_notification` gives it to whatever transfer is in progress, whether a
download that is followed (`FirmwareFailed`) or a stray one (`StrayFailed`) failed.

**CwmpdService.** Addresses per family, the mode, the wait timer (and timers
whose pointer was overwritten), the process, its firewall rule, the parameters of
the URL and the queue of their change events. `left` bounds each kind of outside
input. The text of URL and path is abstracted to a record of its parts.

**CwmpServer.** `cwmpd` is down, initialising (subscribed) or in its loop;
`events` are the notifications of ManagementServer not yet handled.
`cwmp_server_start(s, evs)` is the code applied to a server state `s`: a start
(s = the present one) or the second half of a restart (s = a stopped one). A
listener whose pointer is overwritten by a second start goes to `leaked` and keeps
serving. A request is a path and whether its digest is right; the engine may
refuse the session. `cwmp_plugin_update_conreq_host` (`SetHost`) always writes
`LocalIPAddress`, the address the server reads, and without an event;
`ConnRequestHost` it writes only while the automatic updates are not suspended, and
cwmpd is notified only if that changes its value, which it does not when another
service wrote it in advance (`SetConnRequestHost`). The two writes are one step, as
the plugin makes both in one callback and answers reads only after it. `sessions`,
`accepted`, `told` (the address when cwmpd last read it or was sent a notification
that makes it read it) and `switchedOn` are history variables.

**AcsTransfer.** The variables fall into four groups: the data model of the
instances and the file it is saved to, the memory of the plugin, the memory of
cwmpd, and history (`answer`, `applied`, `faults`, `exits`). cwmpd adds the
instance and calls `AddTransfer` (`DoTransfer`); its callback is cut there
(`busy`), as the plugin may run its timers before `AddTransferSubscription` starts
the subscription and the timeout. `keyTimer` holds the timers named by CommandKey,
`pathTimer` those that `DM_ENG_Device_UpDownloadInitialize` names by the instance.
`notif` is the only notification cwmpd reacts to, a change to "Finished". The
FaultCode is zero or not; names, URLs, scripts and times are left out. `Due`
states the one fact about times that the code relies on: the timeout is the delay
of the transfer plus an hour, so unless a process was restarted the plugin's delay
timer has fired before it. Where the plugin uses the pointer of an instance that
was deleted (undefined) the outcome is taken to be no visible effect, or the end
of the plugin, which `PluginRestarts` allows at any time. When the plugin ends
cwmpd does too; the reverse is `CwmpdExits`. A subscription is deleted by the id that
was stored in its instance, and forgotten before the bus is asked: when the bus then
fails, or the id was never written, it lives on and cannot be found again (`stray`).
Failures of the read in `UpDownloadInitialize` are left out.

**CwmpClient.** `cli` holds the statics that `DM_CloseHttpSession` resets;
`engine` what the engine knows of the session (open, its number, whether it is to
send next); `conns` the connections libwebsockets holds, each with the number of
the session it was made for; `timers` the session timer ("fresh" until time
passes) and the digest retry. Addresses, headers, cookies and messages carry the
number of their session instead of text. Closing a session closes neither its
connections nor its timers, so a callback may come when the session is over, or
when the next one is open. The ghost `late` records this; the properties about
one session hold until it happens and again from the next close. An action is a
callback of `cwmp_client_http_callback` or of a timer; `End` is the end of the
process, by `cwmp_client_stop`, a crash, or the null pointer that an empty 200
hands to `strstr`. Requests are pipelined: a request is written only when the
previous connection of its session is closed. The list of addresses belongs to
`CwmpDns`, which may change it at any time, and is therefore any list here.

**ParameterAccess.** `dm` are the values, `Subscription` the instances stored in
the data model, `acsSubsList` the list of subscription entries per object, `bus`
what is subscribed, `queue` the notifications on their way, in order for each
object (between objects no order is assumed). A SetParameterValues (`spv`) sets
together the entries of its list that follow each other and belong to one
object, and a notification (`handling`) is handled parameter by parameter: the
device may change a value between two bus calls. `cached` is the value the engine remembers as set by the ACS, whose
notification it does not report. The engine has its id, and so its mode, even when
the bus refuses the subscription (`DM_AmxCommon.c:606`). The rest is history: `known`
is what the ACS was last told, by a notification or by the answer to a
SetParameterValues (a success stands for all its values, a fault for none); `hidden`
are the parameters with a change that the handler withheld, `misled` those for which an
answer was wrong, `refused` those whose subscription was refused, `again` those that
were subscribed while they were listed.

**DuChange, ChangeDUState.** A request is a call from cwmpd to the plugin (which
may answer after cwmpd has given up waiting), an operation of SMM, a
DUStateChangeComplete instance `dscc` whose operation record and Status are written
in two transactions, and a report of the engine. `Implements` is the
refinement: `Promise` instantiates `DuChange` with the `phase` of a request
computed from `dscc` and `gone`
(`DuChange!Spec` is the property of the run, and is proved).

**ManageableDevice.** `active` is gMap's truth and `gevents` its events on their
way; `phys` and `hevents` those of Hosts. `stage` is the progress of the start
(each subscription has a retry timer), `table` the instances with the hosts they
list, `md_requests` the cache, `cachedHost` the Host that a failed add left in a cache
entry (`amxc_var_add_new_key` does not replace it). `matched`, `missed`, `stale` and
`emptied` are history: what the plugin was told, what a failed call or the deletion of
a host cost, and the instances that lost their last host to its deletion.

### Plan

Done: the nine modules above and the abstract `DuChange` and `TransferPromise`,
most important first (reaching the ACS, executing its downloads, being reachable,
reporting transfers, holding a session, parameters and their notifications,
deployment units, devices); every invariant and action property of the runs is
proved. Left, in this order:

1. The composition of `CwmpClient` with `CwmpDns` (today the address list is any
   list, which covers all that `CwmpDns` does but says nothing about both).
2. `Supervision`: an abstract specification of "a server reachable at the URL",
   which `CwmpdService` and `CwmpServer` together implement.

## 3. Runs

| Run | Checks | Shows |
|---|---|---|
| `dns_safety` | ResolutionAlive, OneLiveQuery, ResolversEnd, NoSpuriousBootstrap, StaleResultIgnored, BootstrapUnlessBusFails, KeepsResolving | with two resolvers, two URL changes and a fault: resolution never dies, at most one answer counts, stale answers and double bootstraps do not happen, every resolver is ended by a timer; each URL change is followed by a bootstrap unless a read of the URL fails, and a name is looked up for ever |
| `schedule` | ProgressIsTracked, InfoMatchesWindows, RetriesBounded, EventuallyDone | one transfer, up to two windows, with and without retries, a restart anywhere; or two transfers that compete for the one upgrade, with late failures of downloads that were given up |
| `service_life` | NoStartBeforeInit, LocalIPFollowsWan, CwmpdComesBack | cwmpd and the plugin stop and start against address and mode changes |
| `service_url` | UrlIsCurrent, PortFollowsRequest | URL and firewall follow host, port, path and interface, until somebody suspends the updates (or, for the firewall, another service writes the host) |
| `service_port` | PortClosedWithoutCwmpd (violated) | the port stays open when cwmpd ends |
| `server_safety` | ServerFollowsDm, RateLimited, NoSessionWhenDisabled, ServerComesUp | the server against announced and silent writes, suspended updates, requests, faults and restarts |
| `acs_transfer` | NoForgottenTransfer, OneReport, NoUpgradeLoop, EventuallyReported | a transfer of every kind, a failed bus call (the removal of its subscription among them), and two ends of cwmpd, plugin or device anywhere |
| `acs_timeout` | FaultlessReportIsFinished (violated) | a transfer that timed out while "Initial" is reported without a fault |
| `client` | OpenSessionHasTimer, SessionStateIsItsOwn, OneRequestInFlight, QosOfSession, SuccessIsOwn, SessionEnds | two sessions with leftover connections, retries, timeouts, URL changes and an end of the process |
| `params` | BusMatchesList, AcsInformed, SubscriptionsStored | modes, sets and changes of the device between any two bus calls, with a fault (a refused subscription, a refused or late set) or a restart |
| `du` | DoneIsOnItsWay, ReportHasResult, Implements, DoneIsAcknowledged | three requests, two faults; the code implements `DuChange` |
| `devices` | HostIsListedOrComing, OnlyMatching, DeviceIsListed | two devices with three interfaces, two hosts that may be deleted, two faults |

No run checks a type invariant: each module has one, `TypeOK`, and where there is a
`*_proofs` module it is proved.

### Bounds, and why they are enough

* `CwmpDns`: two names, an IP literal and the empty host give every kind of URL
  change, including back to the first name while its old answer is outstanding;
  two resolvers allow one that counts and a stale one (the safety properties are
  proved for any number). Memory is bounded by `ResolverIds`: a lookup with no slot
  left is not taken.
* `ScheduleDownload`: `WindowCounts` up to two is the limit of TR-069;
  `MaxRetries` is -1 (unlimited) or 1, the two branches of the code; one restart
  covers a stop or crash at each point. `Loads` are the bounds that are met
  together: one transfer with all of this, or two transfers with one window and one
  retry each, which is enough for a download to outlive its window and fail during the
  next transfer's. The safety properties are proved for any number.
* `CwmpdService`: one address per family, two ports; `Bounds` gives each run
  the inputs of its question: in `service_life` two address changes (of the two
  families, or one that appears and vanishes), in `service_url` two, one write of the host by another
  service, and a suspension. That write matters: a host written in advance makes
  the later change of the local address invisible, and the firewall keeps the
  family of the old one. `PortFollowsRequest` is therefore stated as long as
  nobody else wrote the host (`OwnHost`); `UrlIsCurrent` needs no such condition.
* `CwmpServer`: a limit of one request is full after three and refuses the fourth; with
  a period of 0, requests of one instant are limited together and have expired at the
  next (the default period, used when a read fails, is 1). Two writes are needed for the double start (`EnableCWMP` on
  during init, then off), two ports for a stale one, and three writes let the host be
  written in advance or the updates be suspended before the address changes and
  something else is announced.
* `AcsTransfer`: transfers meet only through a shared CommandKey, which the
  properties exempt, and the one FirmwareImage; so one transfer is model-checked,
  with every kind of request, and the theorems are for any number (their inductive
  invariant was also checked by TLC with two). Two exits give a restart during the
  recovery from a restart; one fault a failed call at each place.

* `CwmpClient`: two sessions and two connections let one of the first session be
  left over in the second; two URLs with different ports, one of them https, give
  every header and every QoS change; SessionTimeout is at its boundary, 0. An
  answer arrives in one piece; more are covered by the proofs.
* `ParameterAccess`: two parameters share an object, so that one notification
  carries a parameter that is subscribed and one that is not; one is in an object
  of its own below `Device.IP.Interface.`, which the code treats apart; one is
  read-only. Three mode changes subscribe, change and unsubscribe.
* `ChangeDUState`: with three requests one is reported while another runs and a
  third is called for; two faults allow a fault in the recovery from one. The
  safety properties and the refinement are proved for any number.
* `ManageableDevice`: two interfaces of one device and one of another, two hosts
  that may get any address, so that the second may follow a deleted one while the
  device waits in the cache; four flips let a device leave and come back while another
  does.

Each bound appears in the guards of the inputs only, never in a reaction of the
code.

`CHECK_DEADLOCK FALSE` is set where the model may really stop: all transfers are
finished (or a transfer is reported and acknowledged), or no input is left and
nothing is pending (`CwmpClient`, `ParameterAccess`, `ChangeDUState`,
`ManageableDevice` among them). `CwmpDns` is checked for
deadlock.

### Fairness

Both processes run one event loop that serves expired timers, readable sockets
and queued events; so weak fairness is put on the callbacks that stay enabled
until served, and on the restart of a process by its supervisor. In particular:

* `CwmpDns`: strong fairness on the end of a query that counts
  (`EndLiveQuery`): c-ares gives each query a finite number of tries, but new
  lookups may supersede it again and again. Nothing is assumed about answers
  being successful, URLs changing or sockets opening.
* `ScheduleDownload`: event queue, window timers, restart of the plugin. Nothing
  is assumed of the firmware manager: it may never answer.
* `CwmpdService`: events, timers, the exit signal, netmodel's reports, restart of
  the plugin. Forks succeed in the liveness run (see the hazards).
* `CwmpServer`: the plugin starts cwmpd, which initialises and handles its
  notifications. No fairness on requests or on the clock.
* `AcsTransfer`: the plugin starts cwmpd, both serve their timers. Nothing is
  assumed of transfers, notifications or acknowledgements: they may never come.
* `CwmpClient`: time passes for a timer that runs, and a timer that is due is
  served. Nothing is assumed of the ACS, of libwebsockets or of the engine.
* `ChangeDUState`: the plugin serves its calls (cwmpd waits for the answer), cwmpd
  serves its timers and notifications (`Reports`), and the ACS acknowledges what the
  engine reports (the engine repeats it until then). Nothing is assumed of SMM.
* `ManageableDevice`: the retry timers and the two event queues are served.
* `ParameterAccess`: safety only.

## 4. Proofs

Each `*_proofs` module has an inductive invariant (`IInv`, and others where a
component has several concerns), lemmas that each action preserves it, and the
theorems. The properties are seldom inductive on their own.

* **CwmpDns_proofs** (`DnsAssumption`, `NoResolverAssumption`). `IInv` joins
  `TypeOK`, "each resolver has a timer that ends it" (`Watched`), "at most one
  resolver counts, and it is for `target`" (`OneLive`), `ResolutionAlive`,
  `TargetIsUrl` and `NoSpuriousBootstrap`. `ResolutionAlive` needs `OneLive`: when
  a counting query ends, no other can be relied on, so the timer must be armed.
  Proved: `TypeOK`, `ResolutionAlive`, `OneLiveQuery`, `ResolversEnd`,
  `NoSpuriousBootstrap`, `StaleResultIgnored`.
* **ScheduleDownload_proofs** (`TransfersAssumption`). `IInv` adds to `TypeOK`
  that nothing is in progress or cached before the deferred initialisation
  (`BootInv`), that the event `added` precedes all others of its transfer
  (`AddedFirst`), and that a transfer within a window knows which
  (`WithinHasWindow`). `ProgressIsTracked` is part of it: that a download is followed
  by its own transfer rests on `do_firmwareupgrade` starting none while the pointer is
  set, and on every step that clears the pointer giving the download up. For the windows, `WInv` counts the steps of a transfer
  (start and end of its windows, 1 to 4): the queue holds, in order, exactly the
  steps between the one the cached info has reached and the one the data model has
  reached (`InfoInSync`), the saved windows are in order (`WellFormed`), and the
  starts that were allowed cover the retries left and a first start still to come
  (`StartsArePaid`). `InfoMatchesWindows` speaks of an empty queue only and says
  nothing of the step before; `RetriesBounded` does not tell whether the next start
  is allowed. Proved: `TypeOK`, `ProgressIsTracked`, `InfoMatchesWindows`,
  `RetriesBounded`.
* **CwmpdService_proofs** (`ServiceAssumption`). `IInv` adds that a stopped plugin
  has no timers or events (`DownIsQuiet`), that the stored addresses are
  netmodel's unless a report is due (`Known`), and that the local address is the
  one preferred among the stored ones unless a timer or mode change is pending
  (`FollowsStored`). For the connection request, `UInv` adds that only the RPC
  suspends the updates (`Automatic`), that the host is the local address as long as
  nobody else wrote it (`HostIsLocal`), and that the rule of a running cwmpd is the
  current one unless an event of host or port is queued (`PinholeOrEvent`).
  `PortFollowsRequest` is not inductive: the last event may be one of the path,
  whose handler does not open the port, so the rule must have been right before it.
  Proved: `TypeOK`, `NoStartBeforeInit`, `LocalIPFollowsWan`, `UrlIsCurrent`,
  `PortFollowsRequest`.
* **CwmpServer_proofs** (`ServerAssumption`). For the limiter: the list holds
  at most `2 * max + 1` stamps and every request let in lately is in it
  (`ListBounded`, `Remembered`). For the listener: it agrees with the data model
  and the address it was told unless a notification that will restart it is queued
  (`ListenerFollows`), which needs that the last queued switch of `EnableCWMP` is the
  present value (`LastSwitch`); a listener is overwritten only by a switch on, and each
  one queued was seen (`SwitchSeen`). For sessions: a path is served only while CWMP is enabled or the
  switch to off is queued (`PathServed`). Proved: `TypeOK`, `ServerFollowsDm`,
  `RateLimited`, `NoSessionWhenDisabled`.
* **AcsTransfer_proofs** (`AcsTransferAssumption`). `NoForgottenTransfer` is in
  `IInv` and needs that nothing refers to an instance not yet added (`Pristine`),
  that cwmpd has no timers or subscriptions when down (`DownIsEmpty`), and that a
  timer named by a key was set for a transfer with this key (`TimerHasOwner`).
  `OneReport` needs that the subscription, the timers and the engine never hold a
  transfer twice (`OneReporter`, of what has no stray subscription; `Subscriptions`:
  notifications come from subscriptions, and what is being added or resumed has none); `NoUpgradeLoop` that an
  upgrade which is running or was booted is not "Initial" on disk
  (`UpgradeIsSaved`). For the refinement of `TransferPromise` the record of a
  transfer is its instance, in memory and on disk, and a TransferComplete is on its
  way while the engine has one. It needs one more invariant: what is reported, or
  about to be answered, has an instance (`OnRecord`), since an acknowledgement
  deletes what it is for. `DoTransfer` is `Ask`, `AddTransferSubscription` is
  `Answer` (as is a failed call of `RestartTransfer` for a transfer that cwmpd did
  not come to answer), a notification, timeout or start-up timer is `Report` or a
  stutter, `TransferDoneAcknowledged` is `Acknowledge`, the end of cwmpd `Forget`,
  that of the plugin and a booted image `Restart`; what the plugin does is a
  stutter that may save. Proved: `TypeOK`, `NoForgottenTransfer`, `OneReport`,
  `NoUpgradeLoop`, `KeepsPromise`.
* **CwmpClient_proofs** (`ClientAssumption`). `IInv` contains the four invariants
  of the run and adds: sessions are numbered and what is left of others has a
  lower number (`Numbered`), so that a new session owns nothing yet; whose turn it is
  (`Turns`: of two connections of a session one is done and the other waits, the
  engine has its turn only when all are done, a retry is due only when there is
  none), without which `OneRequestInFlight` is not inductive, as the retry starts
  from a connection that was just closed; the rule told last
  (`RuleIsTold`), as a start compares with it; and that the status 204 was earned
  (`StatusIsOwn`). A step is a close (lemma `Closing`), the callback of a former
  session, of which nothing more is claimed (`Interfering`), or a step of the
  session itself. Proved: `TypeOK`, `OpenSessionHasTimer`, `SessionStateIsItsOwn`,
  `OneRequestInFlight`, `QosOfSession`, `SuccessIsOwn`.
* **ChangeDUState_proofs** (`DuAssumption`). `IInv` adds to `DoneIsOnItsWay`: a
  request that was not made left no trace (`Unasked`); a call is on its way once
  (`CalledOnce`) and cwmpd waits only for one that is (`WaitingIsCalled`); a
  request that is over has no instance (`GoneHasNone`); Done implies a result
  (`HasResult`); the end of an operation is handled once, before its instance is
  Done (`EventsAreDue`); cwmpd has an instance in hand once, by a timer, a
  notification or a report (`InHandOnce`). For the refinement each action is
  mapped to steps of `DuChange`: a failed or timed-out call is `Refuse`, the
  plugin's `ChangeDUState` is `Begin`, `Orphan`, `Refuse` or a stutter,
  `dscc_op_done` is `Finish`, the acknowledgement `Acknowledge`, the end of the
  plugin `Lose`, and everything else a stutter. Proved: `TypeOK`,
  `DoneIsOnItsWay`, `ReportHasResult`, `Implements`.

* **ParameterAccess_proofs** (`ParameterAssumption`). `BusMatchesList` is inductive
  with `TypeOK`, given what taking the first entry of a parameter out of a list
  leaves in it (`WithoutFacts`; that there is a first one is the well-foundedness
  of the naturals); that a parameter is listed once carries over to the shorter list,
  and to the longer one if it was not listed. `SubscriptionsStored` also needs that a path never has two
  instances (`StoredInv`): a parameter whose mode became Forced keeps the instance
  of its former mode. `AcsInformed` speaks of the moments when nothing waits; in
  between, a value the ACS does not know is in a notification by the device that
  waits, or is being handled and has not come to this parameter, or was set by the
  SetParameterValues being served (`ChangesAreComing`). For the last, `InService` says
  that each parameter set so far has the value of its entry in the list or a change by
  the device waits (`Settled`), so that the answer tells the ACS the truth or misleads
  it visibly. `ChangesAreComing` is stated for every subscribed parameter, not for those
  whose mode is on, as an entry may outlive its mode. Proved: `TypeOK`,
  `BusMatchesList`, `SubscriptionsStored`, `AcsInformed`.
* **ManageableDevice**, in `ParameterAccess_proofs` too (`DeviceAssumption`): the
  two share what removing an entry does to a list (`RemoveOne`), here of the cache.
  That module extends both components, which is why the specification of this one
  is named `DevicesSpec`, its variables `deviceVars` and so on.
  `DInv` joins `DevicesTypeOK` and the two properties, host by host (`Listing`,
  `Coming`, `CacheIsOfMatched`, `InstanceHasHost`), with three facts they do not say. The events of gMap on their way lead, each one a real
  change, from the devices the plugin knows of to those that match (`EventsLead`,
  stated as the existence of the sets in between): therefore a start is of an
  unknown device, which is not in the cache yet. Two hosts never have one address
  (`OneHost`): therefore a stop, which removes one host, leaves none of the device.
  A known device without host is in the cache (`Hostless`): therefore the address
  it gets later is noticed. `Coming` is of devices that are not `missed`, whose cache
  entry has no Host left over from a failed add. Proved: `DevicesTypeOK`, `OnlyMatching`,
  `HostIsListedOrComing`.

The inductive invariants were checked by TLC on the instances of the runs before
they were proved, and so was `KeepsPromise`, on the instance of `acs_transfer` and
with two transfers.

Only model-checked: the liveness properties (`BootstrapUnlessBusFails`,
`KeepsResolving`, `EventuallyDone`, `CwmpdComesBack`, `ServerComesUp`,
`EventuallyReported`, `SessionEnds`, `DoneIsAcknowledged`, `DeviceIsListed`),
which are beyond the prover.

## 5. Findings

Two have a run that shows them:

1. *Port left open* (`service_port`): `cwmpd_proc_stopped` clears the process
   pointer before closing the port, and the close returns early without it.
2. *Timeout reported as success* (`acs_timeout`): the test of the status in
   `DM_ENG_Device_TransferTimedOut` is inverted. A transfer that is still "Initial",
   as file downloads and uploads are until they end, is reported with FaultCode 0;
   one that finished a moment ago is turned into a failure.

Five more are stated as a property that the module keeps and the code does not. To
see the trace, name the property in the given configuration, alone:

3. *Lost bootstrap* (`UrlChangeTriggersBootstrap`, `MCCwmpDns.cfg`):
   `cwmp_dns_resolve(true)` sets `send_bootstrap` only after reading the URL; if the
   read fails, the retry is made with `false`.
4. *False success* (`SuccessMeansApplied`, `MCSchedule.cfg`): after a restart
   during a download, `handle_pending_upgrade` takes the running image's status as
   the result.
5. *IPv6WaitTime unused* (`IPv6IsWaitedFor`, `MCServiceLife.cfg`): the code reads a
   parameter that does not exist; the wait is 0.
6. *SetParameterValues is not all or nothing* (`SpvAllOrNothing`, `MCParams.cfg`):
   the comment at `DM_DeviceAdapter.c:961` promises it; the objects set before the
   one that fails stay set, and the result of the last object is answered.
7. *A subscription stores the value of another parameter* (`StoredValueIsItsOwn`,
   `MCParams.cfg`): the id found for one parameter of a notification is carried over to the
   next in the loop of `DM_AmxACSConnection.c:139`.

Noticed while modelling, without a property:

* Client: SessionTimeout is ignored for the first session of the process
  (`cwmpd_client.c:1008`); a 200 without a body hands a null pointer to `strstr`
  (364); an ACS that answers 401 for ever keeps its session open, as every retry
  restarts the timer; a connection of a session that timed out may act on the next
  one (it may come up to 60 s late, the session ends after 45 s); after a URL change in the
  middle of a session ACSIP is stored as nothing (313).
* Deployment units: a change that is Done between the read and the subscription is
  reported only by the next start of cwmpd (`DM_AmxChangeDUState.c:225`); cwmpd and
  the plugin wait the same 5 s, so the ACS may be told a fault for a change that is
  made and reported (120); if the instance cannot be written the operation runs
  without one (`smm.c:439`); instances are not persistent; of the operations of a
  request only the first is passed on, as the TODO at `DM_AmxChangeDUState.c:74` says.
* Devices (`cwmp_plugin_manageable_device.c`): when the listed host of a device is
  replaced by another the new one is not listed; a host that is deleted before its
  notification is handled stays in the cache entry of its device (491-495), is tried
  again with every later notification, and keeps the next host from being listed; an
  instance whose host was deleted stays when its device leaves, as the search stops on
  "no host" (434), although "each entry in this table corresponds to a distinct LAN
  Device" (`odl/cwmp_plugin-definition.odl:271`); if gMap is absent when the plugin
  starts, the module gives up for good (522).
* Parameters: the id of a subscription is set before the bus is asked
  (`DM_AmxCommon.c:606`), so a refused one is taken as done and the parameter is never
  notified; a mode changed from Active to Forced and then Off, or from Active to Passive
  and back and then Off, leaves an entry in the list of its object, and with it the bus
  subscription; a SetParameterValues whose last object succeeds is answered with success
  although one before it was refused, and one whose last object times out with a fault
  although all was set (`DM_DeviceAdapter.c:965`), and no notification corrects either.
* Downloads and transfers: a download that outlives its window, or the plugin, is
  still applied, and when it fails the failure is taken for that of the transfer in
  progress by then, whose own download goes on unfollowed (`transfers_firmware.c:85`); a
  transfer that times out while its subscription cannot be deleted is reported a second
  time, when the timeout's own write of "Finished" is notified
  (`DM_AmxUpDownload.c:262`, `DM_AmxCommon.c:677`); a
  Download refused because `AddTransfer` failed leaves its instance, which the next
  start of cwmpd carries out; two transfers with one CommandKey share a timeout;
  the end of an upload is matched by its URL alone; cwmpd that restarts during a
  firmware download takes the running image for its result; a transfer is carried
  out twice when cwmpd alone restarts during its delay; the plugin keeps pointers
  to instances that may be deleted (`cwmp_plugin_transfer.c:734`).
* Supervision and server: `LocalIPAddress` is written without an event
  (`cwmp_plugin_connection_request.c:283`), so when `ConnRequestHost` has the new value
  already, or its updates are suspended, the server stays on the old address, or down;
  a server switched on twice leaves its first listener behind
  (`cwmpd_server.c:402`); when automatic updates are resumed the URL is not rebuilt
  until the next change; the limiter compares with `>` and so admits
  `2 * MaxConnectionRequest + 1` requests; a failed fork leaves the plugin believing
  that cwmpd runs; a new ConnRequestPath is not served until the server restarts; a
  change of PreferredIPVersion waits for the next address.
* Timers: offsets in seconds are multiplied by 1000 in 32 bits, which wraps after
  49 days (`transfers_timewindow.c:348`, `cwmpd_dns.c:188`, `cwmpd_timer.c:222`).

## 6. Not modelled

* dmengine and dmcom are outside the repository; they are seen through the calls
  made to them.
* The adapter's Get, GetNames, AddObject, DeleteObject, Reset and the forwarder of
  ScheduleDownload: each translates one call into one bus call and keeps nothing
  from one call to the next. What can be wrong there is the translation of text.
* The `_prpl` files, alternative builds of the entry points that are modelled.
* `cwmp_plugin_xmpp.c`: one parameter derived from others by one handler.
* Formatting and parsing of parameters, URLs, digests and dates; logging; options.
* Arithmetic of timers and clocks, beyond the order of instants.
* CWMPD_STANDALONE, a development setting.
