----------------------------- MODULE CwmpServer -----------------------------
(***************************************************************************)
(* The connection request server of cwmpd: cwmpd_server.c with the limiter *)
(* of cwmpd_connectionsecurity.c, and the engine events (cwmpd_main.c) by  *)
(* which the adapter (DM_AmxSystemConnection.c) makes it follow the data   *)
(* model.                                                                  *)
(*                                                                         *)
(* cwmpd subscribes to ManagementServer, starts the server from the values *)
(* it reads, and enters its event loop.  A notification is handled with    *)
(* the values of that moment, not those it was sent for.  A server that    *)
(* does not start ends cwmpd (raise(SIGTERM)); the plugin starts it again. *)
(* The address it listens on, LocalIPAddress, is written without an event; *)
(* what cwmpd is told of is a change of ConnRequestHost.                   *)
(*                                                                         *)
(* The ACS calls over HTTP; a request is its path and whether its digest   *)
(* is right.  libwebsockets and the engine are external: a listener, once  *)
(* created, listens until its context is destroyed, and the engine grants  *)
(* or refuses a session.  A request without URI changes nothing.           *)
(***************************************************************************)
EXTENDS Naturals, Sequences, FiniteSets

CONSTANTS
    Hosts, DEFAULT_CRH,     \* LocalIPAddress; "0.0.0.0": no WAN
    Ports, Paths,           \* ConnRequestPort, ConnRequestPath
    NULL,
    MaxConnectionRequest, FreqConnectionRequest,
    Defaults,               \* limits used when these cannot be read
    MaxChanges,             \* bound: writes to the data model
    MaxFaults,              \* bound: failed bus or socket calls, kills of cwmpd
    MaxRequests,            \* bound: connection requests
    MaxTime                 \* bound: the clock

Listeners == [host : Hosts, port : Ports]
Limits == [max : Nat, freq : Nat]

ASSUME ServerAssumption ==
    /\ DEFAULT_CRH \notin Hosts
    /\ NULL \notin Paths \cup Listeners
    /\ MaxConnectionRequest \in Nat /\ FreqConnectionRequest \in Nat
    /\ Defaults \in Limits
    /\ MaxChanges \in Nat /\ MaxFaults \in Nat /\ MaxRequests \in Nat /\ MaxTime \in Nat

VARIABLES
    EnableCWMP, LocalIPAddress, ConnRequestHost, UpdateConnRequestURL,
    ConnRequestPort, ConnRequestPath,
    cwmpd,                      \* "down", "init" (subscribed) or "up" (event loop)
    events,                     \* notifications not yet handled
    lws_server_vhost,           \* the listener, or NULL
    leaked,                     \* listeners whose pointer was overwritten
    g_randomCpeUrl,             \* the path served, or NULL
    connection_timestamp_list,
    now,
    changes, faults, requests,  \* ghost: writes, faults and requests so far
    accepted,                   \* ghost: requests let in since the server started
    sessions,                   \* ghost: requests that obtained a session
    told,                       \* ghost: LocalIPAddress when cwmpd last read it or
                                \* was sent a notification that makes it read it
    switchedOn                  \* ghost: EnableCWMP was set since cwmpd subscribed

address == <<LocalIPAddress, ConnRequestHost, UpdateConnRequestURL>>
datamodel == <<EnableCWMP, address, ConnRequestPort, ConnRequestPath>>
server == <<lws_server_vhost, leaked, g_randomCpeUrl, connection_timestamp_list, accepted>>
vars == <<datamodel, cwmpd, events, server, now, changes, faults, requests, sessions,
          told, switchedOn>>

Restarting == {"ConnRequestHost", "ConnRequestPort", "URL"}
Keys == Restarting \cup {"ConnRequestPath", "EnableCWMP=1", "EnableCWMP=0"}
Stamps == [id : Nat, t : Nat]

Init ==
    /\ EnableCWMP \in BOOLEAN
    /\ LocalIPAddress \in Hosts \cup {DEFAULT_CRH}
    /\ ConnRequestHost = LocalIPAddress
    /\ UpdateConnRequestURL = TRUE
    /\ ConnRequestPort \in Ports
    /\ ConnRequestPath \in Paths
    /\ cwmpd = "down"
    /\ events = <<>>
    /\ lws_server_vhost = NULL
    /\ leaked = {}
    /\ g_randomCpeUrl = NULL
    /\ connection_timestamp_list = {}
    /\ now = 0
    /\ changes = 0 /\ faults = 0 /\ requests = 0
    /\ accepted = {}
    /\ sessions = 0
    /\ told = LocalIPAddress
    /\ switchedOn = FALSE

Fault ==
    /\ faults < MaxFaults
    /\ faults' = faults + 1

-----------------------------------------------------------------------------
(***************************************************************************)
(* Start and stop.                                                         *)
(***************************************************************************)

\* cwmpd leaves: cwmp_app_clean stops the server, the process ends.
Exit ==
    /\ cwmpd' = "down"
    /\ events' = <<>>
    /\ lws_server_vhost' = NULL
    /\ leaked' = {}
    /\ g_randomCpeUrl' = NULL
    /\ connection_timestamp_list' = {}
    /\ accepted' = {}
    /\ switchedOn' = FALSE
    /\ UNCHANGED told

\* The server as it is, and as cwmp_server_stop leaves it.
Current == [vhost |-> lws_server_vhost, url |-> g_randomCpeUrl,
            stamps |-> connection_timestamp_list, accepted |-> accepted]
Stopped == [vhost |-> NULL, url |-> NULL, stamps |-> {}, accepted |-> {}]

\* cwmp_server_start over a server s; evs are the notifications left.  It
\* fails (and cwmpd ends) when CWMP is disabled or a call fails; without WAN
\* it succeeds and leaves the server as it is.
cwmp_server_start(s, evs) ==
    \/ /\ ~EnableCWMP
       /\ Exit
       /\ UNCHANGED faults
    \/ Fault /\ Exit
    \/ /\ EnableCWMP
       /\ LocalIPAddress = DEFAULT_CRH
       /\ lws_server_vhost' = s.vhost
       /\ g_randomCpeUrl' = s.url
       /\ connection_timestamp_list' = s.stamps
       /\ accepted' = s.accepted
       /\ cwmpd' = "up"
       /\ events' = evs
       /\ told' = IF s.vhost = NULL THEN LocalIPAddress ELSE told
       /\ UNCHANGED <<leaked, faults, switchedOn>>
    \/ /\ EnableCWMP
       /\ LocalIPAddress # DEFAULT_CRH
       /\ g_randomCpeUrl' = ConnRequestPath
       /\ connection_timestamp_list' = {}
       /\ accepted' = {}
       /\ lws_server_vhost' = [host |-> LocalIPAddress, port |-> ConnRequestPort]
       /\ leaked' = IF s.vhost = NULL THEN leaked ELSE leaked \cup {s.vhost}
       /\ cwmpd' = "up"
       /\ events' = evs
       /\ told' = LocalIPAddress
       /\ UNCHANGED <<faults, switchedOn>>

\* Fault: the path outlives the server.
cwmp_server_stop_KeepsPath(evs) ==
    /\ lws_server_vhost' = NULL
    /\ connection_timestamp_list' = {}
    /\ accepted' = {}
    /\ events' = evs
    /\ UNCHANGED <<g_randomCpeUrl, leaked, cwmpd, faults, told, switchedOn>>

\* cwmp_server_stop.
cwmp_server_stop(evs) ==
    /\ lws_server_vhost' = NULL
    /\ g_randomCpeUrl' = NULL
    /\ connection_timestamp_list' = {}
    /\ accepted' = {}
    /\ events' = evs
    /\ UNCHANGED <<leaked, cwmpd, faults, told, switchedOn>>

\* start_cwmpd of the plugin and cwmp_app_init_dmengine: cwmpd subscribes.
cwmp_app_init_dmengine ==
    /\ cwmpd = "down"
    /\ cwmpd' = "init"
    /\ UNCHANGED <<datamodel, events, server, now, changes, faults, requests, sessions,
                   told, switchedOn>>

\* cwmp_app_init_services, then the event loop.
cwmp_app_init_services ==
    /\ cwmpd = "init"
    /\ cwmp_server_start(Stopped, events)
    /\ UNCHANGED <<datamodel, now, changes, requests, sessions>>

\* cwmpd is terminated from outside.
Terminated ==
    /\ cwmpd # "down"
    /\ Fault
    /\ Exit
    /\ UNCHANGED <<datamodel, now, changes, requests, sessions>>

-----------------------------------------------------------------------------
(***************************************************************************)
(* Following the data model.                                               *)
(***************************************************************************)

\* Fault: a new port is left to the next restart.
SystemConnectionHandleParameterChanged_NoPort(key) ==
    CASE key \in Restarting \ {"ConnRequestPort"} -> "HTTP_SERVER_RESTART"
      [] key = "EnableCWMP=1"    -> "HTTP_SERVER_START"
      [] key = "EnableCWMP=0"    -> "HTTP_SERVER_STOP"
      [] OTHER                   -> "none"

\* Which engine event a changed parameter of ManagementServer raises.
SystemConnectionHandleParameterChanged(key) ==
    CASE key \in Restarting      -> "HTTP_SERVER_RESTART"
      [] key = "EnableCWMP=1"    -> "HTTP_SERVER_START"
      [] key = "EnableCWMP=0"    -> "HTTP_SERVER_STOP"
      [] OTHER                   -> "none"

\* Fault: cwmp_server_start is taken for cwmp_server_stop.
cwmp_app_engineEventHandler_NoStart(event, evs) ==
    \/ /\ event = "HTTP_SERVER_RESTART"
       /\ cwmp_server_start(Stopped, evs)
    \/ /\ event \in {"HTTP_SERVER_STOP", "HTTP_SERVER_START"}
       /\ cwmp_server_stop(evs)
    \/ /\ event = "none"
       /\ events' = evs
       /\ UNCHANGED <<cwmpd, server, faults, told, switchedOn>>

\* cwmp_app_engineEventHandler; a restart is a stop and a start.
cwmp_app_engineEventHandler(event, evs) ==
    \/ /\ event = "HTTP_SERVER_RESTART"
       /\ cwmp_server_start(Stopped, evs)
    \/ /\ event = "HTTP_SERVER_STOP"
       /\ cwmp_server_stop(evs)
    \/ /\ event = "HTTP_SERVER_START"
       /\ cwmp_server_start(Current, evs)
    \/ /\ event = "none"
       /\ events' = evs
       /\ UNCHANGED <<cwmpd, server, faults, told, switchedOn>>

HandleNotification ==
    /\ cwmpd = "up"
    /\ events # <<>>
    /\ cwmp_app_engineEventHandler(
          SystemConnectionHandleParameterChanged(Head(events)), Tail(events))
    /\ UNCHANGED <<datamodel, now, changes, requests, sessions>>

\* A write to the data model.
Written ==
    /\ changes < MaxChanges
    /\ changes' = changes + 1
    /\ UNCHANGED <<cwmpd, server, now, faults, requests, sessions>>

\* A parameter changes: a subscribed cwmpd is notified.
Changed(key) ==
    /\ Written
    /\ events' = IF cwmpd = "down" THEN events ELSE Append(events, key)
    /\ told' = IF key \in Restarting THEN LocalIPAddress' ELSE told
    /\ switchedOn' = (switchedOn \/ (key = "EnableCWMP=1" /\ cwmpd # "down"))

\* Nothing that cwmpd subscribed to changes.
Unannounced == Written /\ UNCHANGED <<events, told, switchedOn>>

SetEnableCWMP ==
    /\ EnableCWMP' = ~EnableCWMP
    /\ Changed(IF EnableCWMP THEN "EnableCWMP=0" ELSE "EnableCWMP=1")
    /\ UNCHANGED <<address, ConnRequestPort, ConnRequestPath>>

\* cwmp_plugin_update_conreq_host: LocalIPAddress is always written, without
\* an event; ConnRequestHost unless the automatic updates are suspended, with
\* an event if it has another value.
SetHost ==
    /\ LocalIPAddress' \in Hosts \cup {DEFAULT_CRH}
    /\ ConnRequestHost' = IF UpdateConnRequestURL THEN LocalIPAddress' ELSE ConnRequestHost
    /\ \/ ConnRequestHost' # ConnRequestHost /\ Changed("ConnRequestHost")
       \/ /\ ConnRequestHost' = ConnRequestHost /\ LocalIPAddress' # LocalIPAddress
          /\ Unannounced
    /\ UNCHANGED <<EnableCWMP, UpdateConnRequestURL, ConnRequestPort, ConnRequestPath>>

\* Another service writes ConnRequestHost.
SetConnRequestHost ==
    /\ ConnRequestHost' \in (Hosts \cup {DEFAULT_CRH}) \ {ConnRequestHost}
    /\ UNCHANGED <<EnableCWMP, LocalIPAddress, UpdateConnRequestURL, ConnRequestPort,
                   ConnRequestPath>>
    /\ Changed("ConnRequestHost")

\* ManagementServer.updateConnectionRequestURL() suspends the automatic
\* updates, or resumes them.
updateConnectionRequestURL ==
    /\ UpdateConnRequestURL' = ~UpdateConnRequestURL
    /\ Unannounced
    /\ UNCHANGED <<EnableCWMP, LocalIPAddress, ConnRequestHost, ConnRequestPort,
                   ConnRequestPath>>

SetConnRequestPort ==
    /\ ConnRequestPort' \in Ports \ {ConnRequestPort}
    /\ UNCHANGED <<EnableCWMP, address, ConnRequestPath>>
    /\ Changed("ConnRequestPort")

SetConnRequestPath ==
    /\ ConnRequestPath' \in Paths \ {ConnRequestPath}
    /\ Changed("ConnRequestPath")
    /\ UNCHANGED <<EnableCWMP, address, ConnRequestPort>>

\* The URL of the ACS, or AllowConnectionRequestFrom*, which the server does
\* not read.
SetURL == UNCHANGED datamodel /\ Changed("URL")

-----------------------------------------------------------------------------
(***************************************************************************)
(* Connection requests.                                                    *)
(***************************************************************************)

\* Fault: requests of one period are forgotten too early.
Kept_Shorter(l) ==
    {s \in connection_timestamp_list : s.t <= now /\ now - s.t < l.freq}

\* The timestamps cwmp_server_maxConnectionsReached leaves in the list.
Kept(l) ==
    {s \in connection_timestamp_list : s.t <= now /\ now - s.t <= l.freq}

\* The limits it reads.
ReadLimits(l) ==
    \/ /\ l = [max |-> MaxConnectionRequest, freq |-> FreqConnectionRequest]
       /\ UNCHANGED faults
    \/ l = Defaults /\ Fault

\* cwmp_server_maxConnectionsReached: the digest
\* takes two requests per connection request.
maxConnectionsReached(l) == Cardinality(Kept(l)) > 2 * l.max

\* cwmp_server_handle_request, on the listener or on a leaked one: 503, or
\* the request counts; then 404 or 401; then a session, or 503 if the engine
\* refuses it.
handle_request(path, digest) ==
    /\ cwmpd = "up"
    /\ lws_server_vhost # NULL \/ leaked # {}
    /\ requests < MaxRequests
    /\ requests' = requests + 1
    /\ \E l \in {Defaults, [max |-> MaxConnectionRequest, freq |-> FreqConnectionRequest]} :
         /\ ReadLimits(l)
         /\ IF maxConnectionsReached(l)
            THEN /\ connection_timestamp_list' = Kept(l)
                 /\ UNCHANGED <<accepted, sessions>>
            ELSE LET stamp == [id |-> requests, t |-> now] IN
                 /\ connection_timestamp_list' = Kept(l) \cup {stamp}
                 /\ accepted' = accepted \cup {stamp}
                 /\ \/ /\ path = g_randomCpeUrl
                       /\ digest
                       /\ sessions' = sessions + 1
                    \/ UNCHANGED sessions
    /\ UNCHANGED <<datamodel, cwmpd, events, lws_server_vhost, leaked,
                   g_randomCpeUrl, now, changes, told, switchedOn>>

Tick ==
    /\ now < MaxTime
    /\ now' = now + 1
    /\ UNCHANGED <<datamodel, cwmpd, events, server, changes, faults, requests, sessions,
                   told, switchedOn>>

\* The wall clock is set back; the history of requests starts anew.
ClockSetBack ==
    /\ now > 0
    /\ now' \in 0..(now - 1)
    /\ changes < MaxChanges
    /\ changes' = changes + 1
    /\ accepted' = {}
    /\ UNCHANGED <<datamodel, cwmpd, events, lws_server_vhost, leaked, g_randomCpeUrl,
                   connection_timestamp_list, faults, requests, sessions, told,
                   switchedOn>>

Next ==
    \/ cwmp_app_init_dmengine
    \/ cwmp_app_init_services
    \/ Terminated
    \/ HandleNotification
    \/ SetEnableCWMP
    \/ SetHost
    \/ SetConnRequestHost
    \/ updateConnectionRequestURL
    \/ SetConnRequestPort
    \/ SetConnRequestPath
    \/ SetURL
    \/ \E path \in Paths, digest \in BOOLEAN : handle_request(path, digest)
    \/ Tick
    \/ ClockSetBack

Spec == Init /\ [][Next]_vars

(***************************************************************************)
(* Fairness: the plugin starts cwmpd again, cwmpd runs its initialisation  *)
(* and its event loop.                                                     *)
(***************************************************************************)
Fairness ==
    /\ WF_vars(cwmp_app_init_dmengine)
    /\ WF_vars(cwmp_app_init_services)
    /\ WF_vars(HandleNotification)

FairSpec == Spec /\ Fairness

-----------------------------------------------------------------------------
(***************************************************************************)
(* Properties.                                                             *)
(***************************************************************************)

\* The server's statics and the parameters it reads have their types.
TypeOK ==
    /\ EnableCWMP \in BOOLEAN
    /\ LocalIPAddress \in Hosts \cup {DEFAULT_CRH}
    /\ ConnRequestHost \in Hosts \cup {DEFAULT_CRH}
    /\ UpdateConnRequestURL \in BOOLEAN
    /\ ConnRequestPort \in Ports
    /\ ConnRequestPath \in Paths
    /\ cwmpd \in {"down", "init", "up"}
    /\ events \in Seq(Keys)
    /\ lws_server_vhost \in Listeners \cup {NULL}
    /\ leaked \subseteq Listeners
    /\ g_randomCpeUrl \in Paths \cup {NULL}
    /\ connection_timestamp_list \subseteq Stamps
    /\ now \in Nat
    /\ changes \in Nat /\ faults \in Nat /\ requests \in Nat
    /\ accepted \subseteq Stamps
    /\ sessions \in Nat
    /\ told \in Hosts \cup {DEFAULT_CRH}
    /\ switchedOn \in BOOLEAN

\* The address was changed behind cwmpd's back: while the updates of
\* ConnRequestHost are suspended, or when it has the new value already.
Untold == told # LocalIPAddress

\* With every notification handled, the server's listener is that of the
\* current port and of the address cwmpd was last told of (the current one
\* unless Untold), if CWMP is enabled and there is one, whatever changed while
\* cwmpd was starting and in whatever order it was told.
ListensWhereTold ==
    cwmpd = "up" /\ events = <<>> =>
        lws_server_vhost =
            IF EnableCWMP /\ told # DEFAULT_CRH
            THEN [host |-> told, port |-> ConnRequestPort] ELSE NULL

\* Both: and no other listener is left by a change of address, port or URL;
\* only a cwmpd that saw CWMP switched on may have one that it started before.
ServerFollowsDm == ListensWhereTold /\ (leaked # {} => switchedOn)

\* A notification of one of the keys is not yet handled.
Pending(keys) == \E i \in 1..Len(events) : events[i] \in keys

\* "if EnableCWMP changes, start/stop the http server": once cwmpd was told
\* that CWMP is disabled no request obtains a session, not even through a
\* listener that was started twice and is still there.
NoSessionWhenDisabled ==
    [][sessions' # sessions =>
         EnableCWMP \/ Pending({"EnableCWMP=0"})]_vars

Recent == {a \in accepted : a.t <= now /\ now - a.t <= FreqConnectionRequest}

\* "restrict the number of Connection Requests it accepts during a given
\* period": in any FreqConnectionRequest seconds since the server started
\* (or the clock was set back) it lets in at most 2 * MaxConnectionRequest
\* requests and the one that finds the list full, as long as the limits can
\* be read.
RateLimited == faults = 0 => Cardinality(Recent) <= 2 * MaxConnectionRequest + 1

\* With CWMP enabled and a WAN address for good, the server ends up listening,
\* unless that address was written behind cwmpd's back.
ServerComesUp ==
    <>[](EnableCWMP /\ LocalIPAddress # DEFAULT_CRH) =>
        <>[](lws_server_vhost # NULL \/ Untold)

=============================================================================
