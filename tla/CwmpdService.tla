---------------------------- MODULE CwmpdService ----------------------------
(***************************************************************************)
(* The cwmp plugin as the guardian of cwmpd: which WAN address the ACS is  *)
(* told to call (cwmp_plugin_intf_queries.c), the connection request URL   *)
(* made of it (cwmp_plugin_connection_request.c), and the cwmpd process    *)
(* with its firewall pinhole (cwmp_plugin_service.c, cwmp_plugin_proc.c),  *)
(* from start to stop of the plugin (cwmp_plugin.c).                       *)
(*                                                                         *)
(* Netmodel callbacks write LocalIPAddress and ConnRequestHost; the data   *)
(* model queues an object-changed event for each parameter that changed,   *)
(* and its handler rebuilds ConnectionRequestURL, starts cwmpd, and opens  *)
(* or closes the pinhole.  One event loop serves callbacks, events and     *)
(* timers, so an action is one callback.                                   *)
(*                                                                         *)
(* Netmodel, the firewall and the process control library are external: a  *)
(* query reports the latest address; set_service replaces the rule; a      *)
(* started process runs until it exits, or (fork) never runs.              *)
(***************************************************************************)
EXTENDS Naturals, Sequences

CONSTANTS
    V4, V6,         \* WAN addresses of the two families
    DEFAULT_CRH,    \* "0.0.0.0": no address
    OtherHosts,     \* hosts given to updateConnectionRequestURL (STUN)
    Ports,          \* values of ConnRequestPort
    NULL,
    IPv6WaitTime,   \* InternalSettings.IPv6WaitTime
    Bounds          \* bound on each kind of outside input

Inputs == {"wan", "interface", "mode", "host", "port", "rpc", "exit", "fork", "stop"}
Addresses == V4 \cup V6 \cup {DEFAULT_CRH}

ASSUME ServiceAssumption ==
    /\ Bounds \in [Inputs -> Nat]
    /\ IPv6WaitTime \in Nat
    /\ DEFAULT_CRH \notin V4 \cup V6 \cup OtherHosts
    /\ V4 \cap V6 = {}
    /\ NULL \notin [port : Ports, ipversion : {4, 6}]
    /\ NULL \notin [host : Addresses \cup OtherHosts, port : Ports,
                    path : {"stored", "created"}]

VARIABLES
    plugin,               \* "boot" (init_done is false), "up" or "down"
    cwmpd_proc,           \* "null", "running", "exited" (stop signal due), "failed"
    restart_timers,       \* pending 10 s timers of cwmpd_proc_stopped
    firewall,             \* rule "cwmpd_conn_request" of the firewall, or NULL
    conn_req_path_created,
    cwmpd_start_avoided,
    wan,                  \* external: address of the interface, per family
    due,                  \* external: families whose query has a result to report
    ipv4address, ipv6address, wanipmode,
    ipv6_timer,           \* is ipv6_timer set (and pending)
    orphan_timers,        \* pending timers whose pointer was overwritten
    LocalIPAddress, ConnRequestHost, ConnRequestPort, ConnRequestPath,
    UpdateConnRequestURL, ConnectionRequestURL,
    events,               \* queued object-changed events, by parameter
    waited,               \* ghost: IPv6WaitTime elapsed since ipv6_timer started
    modeChanged,          \* ghost: wanipmode changed since the last updateLocalIP
    left                  \* ghost: inputs still allowed

process  == <<cwmpd_proc, restart_timers, firewall>>
startup  == <<plugin, conn_req_path_created, cwmpd_start_avoided>>
network  == <<wan, due>>
queries  == <<ipv4address, ipv6address, wanipmode, ipv6_timer, orphan_timers,
              waited, modeChanged>>
address  == <<LocalIPAddress, ConnRequestHost>>
request  == <<ConnRequestPort, ConnRequestPath, UpdateConnRequestURL,
              ConnectionRequestURL>>
vars == <<process, startup, network, queries, address, request, events, left>>

Families == {"ipv4", "ipv6"}
Rules == [port : Ports, ipversion : {4, 6}]
Urls == [host : Addresses \cup OtherHosts, port : Ports, path : {"stored", "created"}]
Modes == {"IPv4ONLY", "IPv6PREFERRED", "IPANY"}

Init ==
    /\ plugin = "boot"
    /\ cwmpd_proc = "null"
    /\ restart_timers = 0
    /\ firewall = NULL
    /\ conn_req_path_created = FALSE
    /\ cwmpd_start_avoided = FALSE
    /\ wan = [f \in Families |-> DEFAULT_CRH]
    /\ due = {}
    /\ ipv4address = DEFAULT_CRH
    /\ ipv6address = DEFAULT_CRH
    /\ wanipmode = "IPANY"
    /\ ipv6_timer = FALSE
    /\ orphan_timers = 0
    /\ LocalIPAddress = DEFAULT_CRH
    /\ ConnRequestHost = DEFAULT_CRH
    /\ ConnRequestPort \in Ports
    /\ ConnRequestPath = "stored"
    /\ UpdateConnRequestURL = TRUE
    /\ ConnectionRequestURL = NULL
    /\ events = <<>>
    /\ waited = FALSE
    /\ modeChanged = FALSE
    /\ left = Bounds

\* One more input of kind k from outside.
Input(k) ==
    /\ left[k] > 0
    /\ left' = [left EXCEPT ![k] = @ - 1]

-----------------------------------------------------------------------------
(***************************************************************************)
(* The cwmpd process and its pinhole (cwmp_plugin_service.c).              *)
(***************************************************************************)

\* open_cwmpd_listening_port: set_service with the same id replaces the rule.
open_cwmpd_listening_port ==
    firewall' = [port |-> ConnRequestPort,
                 ipversion |-> IF LocalIPAddress \in V6 THEN 6 ELSE 4]

\* close_cwmpd_listening_port, with proc the value of cwmpd_proc it sees:
\* without a process the port counts as "already closed".
close_cwmpd_listening_port(proc) ==
    firewall' = IF proc = "null" THEN firewall ELSE NULL

\* Fault: a process that cannot be replaced keeps the old rule.
start_cwmpd_NoPort ==
    IF cwmpd_proc # "null" THEN UNCHANGED <<cwmpd_proc, firewall, left>>
    ELSE /\ \/ cwmpd_proc' = "running" /\ UNCHANGED left
            \/ cwmpd_proc' = "failed" /\ Input("fork")
         /\ UNCHANGED firewall

\* start_cwmpd: nothing if cwmpd_proc is set, even for a process that could
\* not be forked.
start_cwmpd ==
    IF cwmpd_proc # "null" THEN UNCHANGED <<cwmpd_proc, firewall, left>>
    ELSE /\ \/ cwmpd_proc' = "running" /\ UNCHANGED left
            \/ cwmpd_proc' = "failed" /\ Input("fork")
         /\ open_cwmpd_listening_port

\* cwmpd ends by itself.
CwmpdExits ==
    /\ cwmpd_proc = "running"
    /\ cwmpd_proc' = "exited"
    /\ Input("exit")
    /\ UNCHANGED <<restart_timers, firewall, startup, network, queries, address,
                   request, events>>

\* Fault: no restart is scheduled.
cwmpd_proc_stopped_NoTimer ==
    /\ cwmpd_proc = "exited"
    /\ cwmpd_proc' = "null"
    /\ close_cwmpd_listening_port("null")
    /\ UNCHANGED <<restart_timers, startup, network, queries, address, request,
                   events, left>>

\* proc_finished_cb and cwmpd_proc_stopped: the pointer is cleared, then the
\* port closed, then a restart scheduled.
cwmpd_proc_stopped ==
    /\ cwmpd_proc = "exited"
    /\ cwmpd_proc' = "null"
    /\ close_cwmpd_listening_port("null")
    /\ restart_timers' = restart_timers + 1
    /\ UNCHANGED <<startup, network, queries, address, request, events, left>>

\* cwmp_timer_cb.
cwmp_timer_cb ==
    /\ restart_timers > 0
    /\ restart_timers' = restart_timers - 1
    /\ start_cwmpd
    /\ UNCHANGED <<startup, network, queries, address, request, events>>

-----------------------------------------------------------------------------
(***************************************************************************)
(* WAN addresses (cwmp_plugin_intf_queries.c).                             *)
(***************************************************************************)

\* getLocalIP: the address the mode prefers among those known.
getLocalIP(mode, v4, v6) ==
    CASE mode = "IPv4ONLY"      -> v4
      [] mode = "IPv6PREFERRED" -> IF v6 # DEFAULT_CRH THEN v6 ELSE v4
      [] mode = "IPANY"         -> IF v4 # DEFAULT_CRH THEN v4 ELSE v6

\* cwmp_plugin_update_conreq_host: LocalIPAddress always, ConnRequestHost
\* unless updates are disabled; an event only if its value changes.
cwmp_plugin_update_conreq_host(ip) ==
    /\ LocalIPAddress' = ip
    /\ ConnRequestHost' = IF UpdateConnRequestURL THEN ip ELSE ConnRequestHost
    /\ events' = IF ConnRequestHost' # ConnRequestHost
                 THEN Append(events, "host") ELSE events

\* updateLocalIP, with the addresses the caller has just stored.
updateLocalIP(v4, v6) ==
    /\ ipv6_timer' = FALSE
    /\ modeChanged' = FALSE
    /\ cwmp_plugin_update_conreq_host(getLocalIP(wanipmode, v4, v6))

ipv6address_changed_cb ==
    /\ plugin = "up"
    /\ "ipv6" \in due
    /\ due' = due \ {"ipv6"}
    /\ ipv6address' = wan["ipv6"]
    /\ IF wanipmode = "IPv4ONLY"
       THEN UNCHANGED <<ipv6_timer, modeChanged, address, events>>
       ELSE updateLocalIP(ipv4address, wan["ipv6"])
    /\ UNCHANGED <<process, startup, wan, ipv4address, wanipmode, orphan_timers,
                   waited, request, left>>

\* Fault: the address is recorded, the host left to the IPv6 callback.
ipv4address_changed_cb_NoUpdate ==
    /\ plugin = "up"
    /\ "ipv4" \in due
    /\ due' = due \ {"ipv4"}
    /\ ipv4address' = wan["ipv4"]
    /\ UNCHANGED <<ipv6_timer, orphan_timers, waited, modeChanged, address, events,
                   process, startup, wan, ipv6address, wanipmode, request, left>>

\* With IPv6 preferred and no IPv6 address yet, the address waits for a new
\* timer; amxp_timer_new overwrites the pointer to one that is pending.
ipv4address_changed_cb ==
    /\ plugin = "up"
    /\ "ipv4" \in due
    /\ due' = due \ {"ipv4"}
    /\ ipv4address' = wan["ipv4"]
    /\ IF wanipmode = "IPv6PREFERRED" /\ ipv6address = DEFAULT_CRH
       THEN /\ ipv6_timer' = TRUE
            /\ orphan_timers' = IF ipv6_timer THEN orphan_timers + 1 ELSE orphan_timers
            /\ waited' = FALSE
            /\ UNCHANGED <<modeChanged, address, events>>
       ELSE /\ updateLocalIP(wan["ipv4"], ipv6address)
            /\ UNCHANGED <<orphan_timers, waited>>
    /\ UNCHANGED <<process, startup, wan, ipv6address, wanipmode, request, left>>

\* The parameter read is "IPV4IPV6WANMaxWaitTime", which the data model does
\* not define: the value is NULL, cast to 0.
timeout == 0

\* ipv6_timer_cb, of the timer in use or of one whose pointer was lost.
ipv6_timer_cb ==
    /\ plugin = "up"
    /\ timeout = 0 \/ waited
    /\ \/ ipv6_timer /\ UNCHANGED orphan_timers
       \/ orphan_timers > 0 /\ orphan_timers' = orphan_timers - 1
    /\ updateLocalIP(ipv4address, ipv6address)
    /\ UNCHANGED <<process, startup, network, ipv4address, ipv6address, wanipmode,
                   waited, request, left>>

\* IPv6WaitTime elapses.
WaitElapses ==
    /\ ipv6_timer
    /\ ~waited
    /\ waited' = TRUE
    /\ UNCHANGED <<process, startup, network, ipv4address, ipv6address, wanipmode,
                   ipv6_timer, orphan_timers, modeChanged, address, request,
                   events, left>>

\* _writePreferredIPVersion.
writePreferredIPVersion ==
    /\ plugin # "down"
    /\ Input("mode")
    /\ wanipmode' \in Modes \ {wanipmode}
    /\ modeChanged' = TRUE
    /\ UNCHANGED <<process, startup, network, ipv4address, ipv6address, ipv6_timer,
                   orphan_timers, waited, address, request, events>>

\* _writeInterface: the queries are closed, which forgets the addresses and
\* stops ipv6_timer, and opened on an interface with its own addresses.
writeInterface ==
    /\ plugin = "up"
    /\ Input("interface")
    /\ \E v4 \in V4 \cup {DEFAULT_CRH}, v6 \in V6 \cup {DEFAULT_CRH} :
          wan' = [f \in Families |-> IF f = "ipv4" THEN v4 ELSE v6]
    /\ due' = Families
    /\ ipv4address' = DEFAULT_CRH
    /\ ipv6address' = DEFAULT_CRH
    /\ ipv6_timer' = FALSE
    /\ UNCHANGED <<process, startup, wanipmode, orphan_timers, waited, modeChanged,
                   address, request, events>>

\* An address of the interface appears, changes or disappears.
WanChanges ==
    /\ Input("wan")
    /\ \E f \in Families :
         /\ \E a \in (IF f = "ipv4" THEN V4 ELSE V6) \cup {DEFAULT_CRH} :
               a # wan[f] /\ wan' = [wan EXCEPT ![f] = a]
         /\ due' = IF plugin = "up" THEN due \cup {f} ELSE due
    /\ UNCHANGED <<process, startup, queries, address, request, events>>

-----------------------------------------------------------------------------
(***************************************************************************)
(* Connection request (cwmp_plugin_connection_request.c).                  *)
(***************************************************************************)

\* assembleConnectionRequestURL.
assembleConnectionRequestURL(host, port) ==
    [host |-> host, port |-> port, path |-> ConnRequestPath]

\* update_conn_req_url.
update_conn_req_url ==
    ConnectionRequestURL' =
        IF UpdateConnRequestURL
        THEN assembleConnectionRequestURL(ConnRequestHost, ConnRequestPort)
        ELSE ConnectionRequestURL

NextEvent(e) ==
    /\ plugin # "down"
    /\ events # <<>>
    /\ Head(events) = e

\* cwmp_plugin_create_conreq_path, for the first address since the start:
\* the path is kept ("Fixed-Default") or made up, which queues its event.
cwmp_plugin_create_conreq_path ==
    IF conn_req_path_created
    THEN events' = Tail(events) /\ UNCHANGED <<conn_req_path_created, ConnRequestPath>>
    ELSE /\ conn_req_path_created' = TRUE
         /\ ConnRequestPath' \in {ConnRequestPath, "created"}
         /\ events' = IF ConnRequestPath' # ConnRequestPath
                      THEN Append(Tail(events), "path") ELSE Tail(events)

\* Fault: cwmpd is started whether or not the plugin is initialised.
ensure_cwmpd_Always ==
    IF cwmpd_proc = "running"
    THEN open_cwmpd_listening_port /\ UNCHANGED <<cwmpd_proc, cwmpd_start_avoided, left>>
    ELSE start_cwmpd /\ UNCHANGED cwmpd_start_avoided

\* The address is valid: open the port of a running cwmpd; start cwmpd, but
\* not before init_done.
ensure_cwmpd ==
    IF cwmpd_proc = "running"
    THEN open_cwmpd_listening_port /\ UNCHANGED <<cwmpd_proc, cwmpd_start_avoided, left>>
    ELSE IF plugin = "up"
    THEN start_cwmpd /\ UNCHANGED cwmpd_start_avoided
    ELSE cwmpd_start_avoided' = TRUE /\ UNCHANGED <<cwmpd_proc, firewall, left>>

\* _updateConnectionRequestURL, the handler of ConnRequestHost.
updateConnectionRequestURL ==
    /\ NextEvent("host")
    /\ update_conn_req_url
    /\ IF ~UpdateConnRequestURL
       THEN /\ events' = Tail(events)
            /\ UNCHANGED <<cwmpd_proc, firewall, conn_req_path_created,
                           cwmpd_start_avoided, ConnRequestPath, left>>
       ELSE IF ConnRequestHost # DEFAULT_CRH
       THEN cwmp_plugin_create_conreq_path /\ ensure_cwmpd
       ELSE /\ close_cwmpd_listening_port(cwmpd_proc)
            /\ events' = Tail(events)
            /\ UNCHANGED <<cwmpd_proc, conn_req_path_created, cwmpd_start_avoided,
                           ConnRequestPath, left>>
    /\ UNCHANGED <<plugin, restart_timers, network, queries, address,
                   ConnRequestPort, UpdateConnRequestURL>>

\* Fault: the URL is left to the host handler.
updateConnectionRequestPath_NoUrl ==
    /\ NextEvent("path")
    /\ events' = Tail(events)
    /\ UNCHANGED <<process, startup, network, queries, address, request, left>>

\* _updateConnectionRequestPath.
updateConnectionRequestPath ==
    /\ NextEvent("path")
    /\ events' = Tail(events)
    /\ update_conn_req_url
    /\ UNCHANGED <<process, startup, network, queries, address, ConnRequestPort,
                   ConnRequestPath, UpdateConnRequestURL, left>>

\* _updateConnectionRequestPort.
updateConnectionRequestPort ==
    /\ NextEvent("port")
    /\ events' = Tail(events)
    /\ update_conn_req_url
    /\ open_cwmpd_listening_port
    /\ UNCHANGED <<cwmpd_proc, restart_timers, startup, network, queries, address,
                   ConnRequestPort, ConnRequestPath, UpdateConnRequestURL, left>>

\* ConnRequestPort is written.
SetConnRequestPort ==
    /\ plugin # "down"
    /\ Input("port")
    /\ ConnRequestPort' \in Ports \ {ConnRequestPort}
    /\ events' = Append(events, "port")
    /\ UNCHANGED <<process, startup, network, queries, address, ConnRequestPath,
                   UpdateConnRequestURL, ConnectionRequestURL>>

\* ConnRequestHost is written by another service.
SetConnRequestHost ==
    /\ plugin # "down"
    /\ Input("host")
    /\ ConnRequestHost' \in Addresses \ {ConnRequestHost}
    /\ events' = Append(events, "host")
    /\ UNCHANGED <<process, startup, network, queries, LocalIPAddress, request>>

\* ManagementServer.updateConnectionRequestURL(update, host, port): update
\* suspends the automatic updates even when host or port is refused.
ManagementServer_updateConnectionRequestURL ==
    /\ plugin # "down"
    /\ Input("rpc")
    /\ \E update \in BOOLEAN :
         /\ UpdateConnRequestURL' = ~update
         /\ \/ UNCHANGED ConnectionRequestURL
            \/ /\ update
               /\ \E host \in OtherHosts, port \in Ports :
                     ConnectionRequestURL' = assembleConnectionRequestURL(host, port)
    /\ UNCHANGED <<process, startup, network, queries, address, ConnRequestPort,
                   ConnRequestPath, events>>

-----------------------------------------------------------------------------
(***************************************************************************)
(* The plugin (cwmp_plugin.c).                                             *)
(***************************************************************************)

\* deferred_init_timer_cb: the queries are opened and report at once.
deferred_init_timer_cb ==
    /\ plugin = "boot"
    /\ plugin' = "up"
    /\ due' = Families
    /\ IF cwmpd_start_avoided THEN start_cwmpd
                              ELSE UNCHANGED <<cwmpd_proc, firewall, left>>
    /\ UNCHANGED <<restart_timers, conn_req_path_created, cwmpd_start_avoided, wan,
                   queries, address, request, events>>

\* AMXO_STOP: cwmpd is stopped, the queries closed, the process ends.
cwmp_plugin_exit ==
    /\ plugin # "down"
    /\ Input("stop")
    /\ plugin' = "down"
    /\ cwmpd_proc' = "null"
    /\ restart_timers' = 0
    /\ due' = {}
    /\ events' = <<>>
    /\ UNCHANGED <<firewall, conn_req_path_created, cwmpd_start_avoided, wan, queries,
                   address, request>>

\* AMXO_START in a new process: port and path come from the saved data model,
\* everything else has its initial value.
cwmp_plugin_init ==
    /\ plugin = "down"
    /\ plugin' = "boot"
    /\ conn_req_path_created' = FALSE
    /\ cwmpd_start_avoided' = FALSE
    /\ ipv4address' = DEFAULT_CRH
    /\ ipv6address' = DEFAULT_CRH
    /\ wanipmode' = "IPANY"
    /\ ipv6_timer' = FALSE
    /\ orphan_timers' = 0
    /\ LocalIPAddress' = DEFAULT_CRH
    /\ ConnRequestHost' = DEFAULT_CRH
    /\ UpdateConnRequestURL' = TRUE
    /\ ConnectionRequestURL' = NULL
    /\ modeChanged' = FALSE
    /\ UNCHANGED <<process, network, ConnRequestPort, ConnRequestPath, events,
                   waited, left>>

HandleEvent ==
    \/ updateConnectionRequestURL
    \/ updateConnectionRequestPath
    \/ updateConnectionRequestPort

Next ==
    \/ CwmpdExits
    \/ cwmpd_proc_stopped
    \/ cwmp_timer_cb
    \/ ipv6address_changed_cb
    \/ ipv4address_changed_cb
    \/ ipv6_timer_cb
    \/ WaitElapses
    \/ writePreferredIPVersion
    \/ writeInterface
    \/ WanChanges
    \/ HandleEvent
    \/ SetConnRequestPort
    \/ SetConnRequestHost
    \/ ManagementServer_updateConnectionRequestURL
    \/ deferred_init_timer_cb
    \/ cwmp_plugin_exit
    \/ cwmp_plugin_init

Spec == Init /\ [][Next]_vars

(***************************************************************************)
(* Fairness: the event loop serves its queue, its timers and the signal of *)
(* a process that ended; netmodel reports; the process monitor starts the  *)
(* plugin again.                                                           *)
(***************************************************************************)
Fairness ==
    /\ WF_vars(HandleEvent)
    /\ WF_vars(cwmpd_proc_stopped)
    /\ WF_vars(cwmp_timer_cb)
    /\ WF_vars(ipv6address_changed_cb)
    /\ WF_vars(ipv4address_changed_cb)
    /\ WF_vars(ipv6_timer_cb)
    /\ WF_vars(deferred_init_timer_cb)
    /\ WF_vars(cwmp_plugin_init)

FairSpec == Spec /\ Fairness

-----------------------------------------------------------------------------
(***************************************************************************)
(* Properties.                                                             *)
(***************************************************************************)

\* The statics of the plugin and the ConnRequest parameters have their types.
TypeOK ==
    /\ plugin \in {"boot", "up", "down"}
    /\ cwmpd_proc \in {"null", "running", "exited", "failed"}
    /\ restart_timers \in Nat
    /\ firewall \in Rules \cup {NULL}
    /\ conn_req_path_created \in BOOLEAN
    /\ cwmpd_start_avoided \in BOOLEAN
    /\ wan \in [Families -> Addresses]
    /\ wan["ipv4"] \in V4 \cup {DEFAULT_CRH}
    /\ wan["ipv6"] \in V6 \cup {DEFAULT_CRH}
    /\ due \subseteq Families
    /\ ipv4address \in V4 \cup {DEFAULT_CRH}
    /\ ipv6address \in V6 \cup {DEFAULT_CRH}
    /\ wanipmode \in Modes
    /\ ipv6_timer \in BOOLEAN
    /\ orphan_timers \in Nat
    /\ LocalIPAddress \in Addresses
    /\ ConnRequestHost \in Addresses
    /\ ConnRequestPort \in Ports
    /\ ConnRequestPath \in {"stored", "created"}
    /\ UpdateConnRequestURL \in BOOLEAN
    /\ ConnectionRequestURL \in Urls \cup {NULL}
    /\ events \in Seq({"host", "path", "port"})
    /\ waited \in BOOLEAN
    /\ modeChanged \in BOOLEAN
    /\ left \in [Inputs -> Nat]

\* "If the cwmp_plugin init isn't done yet, and cwmpd is started directly,
\* cwmpd will detect a URL change and send a unexpected bootstrap": no event,
\* timer or restart starts cwmpd before init_done.
NoStartBeforeInit == plugin # "up" => cwmpd_proc = "null"

\* Once netmodel reported and no timer is pending, LocalIPAddress is the
\* address the mode prefers, however the callbacks of the two families, the
\* timer and changes of the interface interleave (a change of the mode itself
\* is only followed at the next callback).
LocalIPFollowsWan ==
    plugin = "up" /\ due = {} /\ ~ipv6_timer /\ ~modeChanged
        => LocalIPAddress = getLocalIP(wanipmode, wan["ipv4"], wan["ipv6"])

\* No call of updateConnectionRequestURL ever suspended the updates.
NeverSuspended == left["rpc"] = Bounds["rpc"]

\* As long as nobody suspended the automatic updates, and with the events
\* handled, ConnectionRequestURL is made of the current host, port and path,
\* whichever of the three handlers ran last ("If true the ConnRequestURL is
\* updated automatically"; after a suspension it is not).
UrlIsCurrent ==
    plugin # "down" /\ events = <<>> /\ NeverSuspended
      /\ ConnectionRequestURL # NULL
        => ConnectionRequestURL =
              assembleConnectionRequestURL(ConnRequestHost, ConnRequestPort)

\* No other service ever wrote ConnRequestHost.
OwnHost == left["host"] = Bounds["host"]

\* Likewise, as long as no other service wrote the host either, a running
\* cwmpd that has an address is reachable: the firewall lets its port
\* through, for the family of its address.  (A host written in advance hides
\* the change of LocalIPAddress that would have changed the family.)
PortFollowsRequest ==
    events = <<>> /\ NeverSuspended /\ OwnHost
      /\ cwmpd_proc = "running" /\ ConnRequestHost # DEFAULT_CRH
        => firewall = [port |-> ConnRequestPort,
                       ipversion |-> IF LocalIPAddress \in V6 THEN 6 ELSE 4]

\* "cwmpd listening port already closed" when there is no cwmpd process.
PortClosedWithoutCwmpd == cwmpd_proc = "null" => firewall = NULL

\* As long as there is an address, cwmpd is brought back whenever it ends.
CwmpdComesBack ==
    <>[](plugin = "up" /\ ConnRequestHost # DEFAULT_CRH)
        => []<>(cwmpd_proc = "running")

\* "IPV6PREFERRED: wait for IPV6 for IPv6WaitTime then use the available WAN
\* address": the IPv4 address is taken only once that time elapsed.  The code
\* does not keep this: it never reads IPv6WaitTime.
IPv6IsWaitedFor ==
    [][/\ ipv6_timer
       /\ wanipmode = "IPv6PREFERRED"
       /\ due' = due
       /\ LocalIPAddress' # LocalIPAddress
       /\ LocalIPAddress' \in V4
       => waited \/ IPv6WaitTime = 0]_vars

=============================================================================
