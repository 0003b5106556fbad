------------------------ MODULE CwmpdService_proofs ------------------------
(***************************************************************************)
(* Proofs about the guardian of cwmpd, for any addresses and ports and any *)
(* number of inputs.                                                       *)
(***************************************************************************)
EXTENDS CwmpdService, SequenceTheorems, TLAPS

\* What a query has reported is what is stored.
Known ==
    plugin = "up" =>
        /\ "ipv4" \notin due => ipv4address = wan["ipv4"]
        /\ "ipv6" \notin due => ipv6address = wan["ipv6"]

\* LocalIPAddress follows the stored addresses once a callback that matters
\* for the mode was served.
FollowsStored ==
    /\ plugin = "up"
    /\ ~ipv6_timer
    /\ ~modeChanged
    /\ "ipv4" \notin due \/ (wanipmode # "IPv4ONLY" /\ "ipv6" \notin due)
    => LocalIPAddress = getLocalIP(wanipmode, ipv4address, ipv6address)

\* Before init_done no restart of cwmpd is scheduled and no query is open.
DownIsQuiet ==
    plugin # "up" => restart_timers = 0 /\ due = {}

\* The inductive invariant.
IInv ==
    /\ TypeOK
    /\ NoStartBeforeInit
    /\ DownIsQuiet
    /\ Known
    /\ FollowsStored

\* An event of parameter e is queued.
Queued(e) == \E i \in 1..Len(events) : events[i] = e

\* The inputs are spent, never given back.
Budget == left["rpc"] <= Bounds["rpc"] /\ left["host"] <= Bounds["host"]

\* Only updateConnectionRequestURL suspends the automatic updates.
Automatic == NeverSuspended => UpdateConnRequestURL

\* Without other writers the host that is announced is the local address.
HostIsLocal == NeverSuspended /\ OwnHost => ConnRequestHost = LocalIPAddress

\* The rule the pinhole of cwmpd should be.
CurrentRule ==
    [port |-> ConnRequestPort, ipversion |-> IF LocalIPAddress \in V6 THEN 6 ELSE 4]

\* The pinhole is current unless an event that will open it is queued; the
\* handler of the path does not open it, which is why PortFollowsRequest by
\* itself is not inductive.
PinholeOrEvent ==
    /\ NeverSuspended
    /\ OwnHost
    /\ cwmpd_proc = "running"
    /\ ConnRequestHost # DEFAULT_CRH
    /\ ~Queued("host")
    /\ ~Queued("port")
    => firewall = CurrentRule

\* The inductive invariant of the connection request.
UInv ==
    /\ Budget
    /\ Automatic
    /\ UrlIsCurrent
    /\ HostIsLocal
    /\ PinholeOrEvent

-----------------------------------------------------------------------------
LEMMA EventQueue ==
  ASSUME NEW S, NEW s \in Seq(S)
  PROVE  /\ \A e \in S : Append(s, e) \in Seq(S)
         /\ s # <<>> => Tail(s) \in Seq(S)
  OBVIOUS

\* The bounded inputs stay within their type.
LEMMA InputType ==
  ASSUME left \in [Inputs -> Nat], NEW k \in Inputs, Input(k)
  PROVE  left' \in [Inputs -> Nat]
  BY DEF Input

\* getLocalIP returns one of the addresses, or none.
LEMMA LocalIPType ==
  ASSUME NEW m \in Modes, NEW v4 \in V4 \cup {DEFAULT_CRH},
         NEW v6 \in V6 \cup {DEFAULT_CRH}
  PROVE  getLocalIP(m, v4, v6) \in Addresses
  BY DEF getLocalIP, Modes, Addresses

\* start_cwmpd keeps the types of what it assigns.
LEMMA StartType ==
  ASSUME TypeOK, start_cwmpd
  PROVE  /\ cwmpd_proc' \in {"null", "running", "exited", "failed"}
         /\ firewall' \in Rules \cup {NULL}
         /\ left' \in [Inputs -> Nat]
  <1>1. CASE cwmpd_proc # "null"
    BY <1>1 DEF TypeOK, start_cwmpd
  <1>2. CASE cwmpd_proc = "null"
    BY <1>2, InputType DEF TypeOK, start_cwmpd, open_cwmpd_listening_port, Rules, Inputs
  <1>3. QED  BY <1>1, <1>2

\* updateLocalIP keeps the types and leaves the preferred address in place.
LEMMA UpdateLocalIP ==
  ASSUME TypeOK, NEW v4 \in V4 \cup {DEFAULT_CRH}, NEW v6 \in V6 \cup {DEFAULT_CRH},
         updateLocalIP(v4, v6)
  PROVE  /\ ipv6_timer' = FALSE
         /\ modeChanged' = FALSE
         /\ LocalIPAddress' = getLocalIP(wanipmode, v4, v6)
         /\ LocalIPAddress' \in Addresses
         /\ ConnRequestHost' \in Addresses
         /\ events' \in Seq({"host", "path", "port"})
  BY LocalIPType, EventQueue DEF TypeOK, updateLocalIP, cwmp_plugin_update_conreq_host

\* The URL that is written has its type.
LEMMA UrlType ==
  ASSUME TypeOK, update_conn_req_url
  PROVE  ConnectionRequestURL' \in Urls \cup {NULL}
  BY DEF TypeOK, update_conn_req_url, assembleConnectionRequestURL, Urls, Addresses

\* In a handler the queue has a head to remove.
LEMMA TailType ==
  ASSUME TypeOK, NEW e, NextEvent(e)
  PROVE  Tail(events) \in Seq({"host", "path", "port"})
  BY EventQueue DEF TypeOK, NextEvent

-----------------------------------------------------------------------------
LEMMA InitInv == Init => IInv
<1> SUFFICES ASSUME Init PROVE IInv
    OBVIOUS
<1>1. /\ wan \in [Families -> Addresses]
      /\ wan["ipv4"] = DEFAULT_CRH
      /\ wan["ipv6"] = DEFAULT_CRH
  BY DEF Init, Families, Addresses
<1>2. left \in [Inputs -> Nat]
  BY ServiceAssumption DEF Init
<1>3. events \in Seq({"host", "path", "port"})
  BY DEF Init
<1>4. TypeOK
  BY <1>1, <1>2, <1>3 DEF Init, TypeOK, Addresses, Modes
<1>5. QED
  BY <1>4 DEF Init, IInv, NoStartBeforeInit, DownIsQuiet, Known, FollowsStored

LEMMA StepInv == IInv /\ [Next]_vars => IInv'
<1> SUFFICES ASSUME IInv, [Next]_vars PROVE IInv'
    OBVIOUS
<1> USE DEF IInv
<1>1. CASE CwmpdExits
  <2>1. TypeOK'
    BY <1>1, InputType, SMTT(20) DEF CwmpdExits, TypeOK, startup, network, queries, address, request, Inputs
  <2>2. QED
    BY <1>1, <2>1 DEF CwmpdExits, NoStartBeforeInit, DownIsQuiet, Known, FollowsStored,
       startup, network, queries, address, request
<1>2. CASE cwmpd_proc_stopped
  <2>1. TypeOK'
    BY <1>2 DEF cwmpd_proc_stopped, close_cwmpd_listening_port, TypeOK, startup, network,
       queries, address, request
  <2>2. QED
    BY <1>2, <2>1 DEF cwmpd_proc_stopped, NoStartBeforeInit, DownIsQuiet, Known,
       FollowsStored, startup, network, queries, address, request
<1>3. CASE cwmp_timer_cb
  <2>1. TypeOK'
    BY <1>3, StartType DEF cwmp_timer_cb, TypeOK, startup, network, queries, address, request
  <2>2. plugin = "up"
    BY <1>3 DEF cwmp_timer_cb, DownIsQuiet, TypeOK
  <2>3. QED
    BY <1>3, <2>1, <2>2 DEF cwmp_timer_cb, NoStartBeforeInit, DownIsQuiet, Known,
       FollowsStored, startup, network, queries, address, request
<1>4. CASE ipv6address_changed_cb
  <2>1. CASE wanipmode = "IPv4ONLY"
    <3>1. TypeOK'
      BY <1>4, <2>1 DEF ipv6address_changed_cb, TypeOK, process, startup, address, request
    <3>2. QED
      BY <1>4, <2>1, <3>1 DEF ipv6address_changed_cb, NoStartBeforeInit, DownIsQuiet, Known,
         FollowsStored, process, startup, address, request, getLocalIP, TypeOK
  <2>2. CASE wanipmode # "IPv4ONLY"
    <3>1. updateLocalIP(ipv4address, wan["ipv6"])
      BY <1>4, <2>2 DEF ipv6address_changed_cb
    <3>2. /\ ipv6_timer' \in BOOLEAN
          /\ modeChanged' \in BOOLEAN
          /\ LocalIPAddress' \in Addresses
          /\ ConnRequestHost' \in Addresses
          /\ events' \in Seq({"host", "path", "port"})
      BY <3>1, UpdateLocalIP DEF TypeOK
    <3>3. TypeOK'
      BY <1>4, <3>2 DEF ipv6address_changed_cb, TypeOK, process, startup, request
    <3>4. LocalIPAddress' = getLocalIP(wanipmode', ipv4address', ipv6address')
      BY <1>4, <3>1, UpdateLocalIP DEF ipv6address_changed_cb, TypeOK
    <3>5. QED
      BY <1>4, <3>3, <3>4 DEF ipv6address_changed_cb, NoStartBeforeInit, DownIsQuiet, Known,
         FollowsStored, process, startup
  <2>3. QED  BY <2>1, <2>2
<1>5. CASE ipv4address_changed_cb
  <2>1. CASE wanipmode = "IPv6PREFERRED" /\ ipv6address = DEFAULT_CRH
    <3>1. orphan_timers' \in Nat
      BY <1>5, <2>1 DEF ipv4address_changed_cb, TypeOK
    <3>2. TypeOK'
      BY <1>5, <2>1, <3>1, ZenonT(40) DEF ipv4address_changed_cb, TypeOK, process, startup, address, request
    <3>3. QED
      BY <1>5, <2>1, <3>2 DEF ipv4address_changed_cb, NoStartBeforeInit, DownIsQuiet, Known,
         FollowsStored, process, startup
  <2>2. CASE ~(wanipmode = "IPv6PREFERRED" /\ ipv6address = DEFAULT_CRH)
    <3>1. updateLocalIP(wan["ipv4"], ipv6address)
      BY <1>5, <2>2 DEF ipv4address_changed_cb
    <3>2. /\ ipv6_timer' \in BOOLEAN
          /\ modeChanged' \in BOOLEAN
          /\ LocalIPAddress' \in Addresses
          /\ ConnRequestHost' \in Addresses
          /\ events' \in Seq({"host", "path", "port"})
      BY <3>1, UpdateLocalIP DEF TypeOK
    <3>3. TypeOK'
      BY <1>5, <2>2, <3>2 DEF ipv4address_changed_cb, TypeOK, process, startup, request
    <3>4. LocalIPAddress' = getLocalIP(wanipmode', ipv4address', ipv6address')
      BY <1>5, <3>1, UpdateLocalIP DEF ipv4address_changed_cb, TypeOK
    <3>5. QED
      BY <1>5, <3>3, <3>4 DEF ipv4address_changed_cb, NoStartBeforeInit, DownIsQuiet, Known,
         FollowsStored, process, startup
  <2>3. QED  BY <2>1, <2>2
<1>6. CASE ipv6_timer_cb
  <2>1. updateLocalIP(ipv4address, ipv6address)
    BY <1>6 DEF ipv6_timer_cb
  <2>2. orphan_timers' \in Nat
    BY <1>6 DEF ipv6_timer_cb, TypeOK
  <2>3. /\ ipv6_timer' \in BOOLEAN
        /\ modeChanged' \in BOOLEAN
        /\ LocalIPAddress' \in Addresses
        /\ ConnRequestHost' \in Addresses
        /\ events' \in Seq({"host", "path", "port"})
    BY <2>1, UpdateLocalIP DEF TypeOK
  <2>4. TypeOK'
    BY <1>6, <2>2, <2>3 DEF ipv6_timer_cb, TypeOK, process, startup, network, request
  <2>5. LocalIPAddress' = getLocalIP(wanipmode', ipv4address', ipv6address')
    BY <1>6, <2>1, UpdateLocalIP DEF ipv6_timer_cb, TypeOK
  <2>6. QED
    BY <1>6, <2>4, <2>5 DEF ipv6_timer_cb, NoStartBeforeInit, DownIsQuiet, Known,
       FollowsStored, process, startup, network
<1>7. CASE WaitElapses
  BY <1>7 DEF WaitElapses, TypeOK, NoStartBeforeInit, DownIsQuiet, Known,
     FollowsStored, process, startup, network, address, request
<1>8. CASE writePreferredIPVersion
  <2>1. TypeOK'
    BY <1>8, InputType, SMTT(20) DEF writePreferredIPVersion, TypeOK, process, startup, network,
       address, request, Inputs
  <2>2. QED
    BY <1>8, <2>1 DEF writePreferredIPVersion, NoStartBeforeInit, DownIsQuiet, Known,
       FollowsStored, process, startup, network
<1>9. CASE writeInterface
  <2>1. /\ wan' \in [Families -> Addresses]
        /\ wan'["ipv4"] \in V4 \cup {DEFAULT_CRH}
        /\ wan'["ipv6"] \in V6 \cup {DEFAULT_CRH}
    BY <1>9 DEF writeInterface, Families, Addresses
  <2>2. left' \in [Inputs -> Nat]
    BY <1>9, InputType DEF writeInterface, TypeOK, Inputs
  <2>3. TypeOK'
    BY <1>9, <2>1, <2>2, ZenonT(40) DEF writeInterface, TypeOK, process, startup, address, request
  <2>4. QED
    BY <1>9, <2>3 DEF writeInterface, NoStartBeforeInit, DownIsQuiet, Known,
       FollowsStored, process, startup, Families
<1>10. CASE WanChanges
  <2>1. PICK f \in Families :
          /\ \E a \in (IF f = "ipv4" THEN V4 ELSE V6) \cup {DEFAULT_CRH} :
                a # wan[f] /\ wan' = [wan EXCEPT ![f] = a]
          /\ due' = IF plugin = "up" THEN due \cup {f} ELSE due
    BY <1>10 DEF WanChanges
  <2>2. TypeOK'
    BY <1>10, <2>1, InputType, SMTT(20) DEF WanChanges, TypeOK, process, startup, queries, address,
       request, Inputs, Families, Addresses
  <2>3. QED
    BY <1>10, <2>1, <2>2 DEF WanChanges, NoStartBeforeInit, DownIsQuiet, Known,
       FollowsStored, process, startup, queries, address, TypeOK, Families
<1>11. CASE updateConnectionRequestURL
  <2>1. events' \in Seq({"host", "path", "port"})
        /\ ConnRequestPath' \in {"stored", "created"}
        /\ conn_req_path_created' \in BOOLEAN
    <3>1. Tail(events) \in Seq({"host", "path", "port"})
      BY <1>11, TailType DEF updateConnectionRequestURL
    <3>2. QED
      BY <1>11, <3>1, EventQueue DEF updateConnectionRequestURL, TypeOK,
         cwmp_plugin_create_conreq_path
  <2>2. /\ cwmpd_proc' \in {"null", "running", "exited", "failed"}
        /\ firewall' \in Rules \cup {NULL}
        /\ left' \in [Inputs -> Nat]
        /\ cwmpd_start_avoided' \in BOOLEAN
        /\ plugin # "up" => cwmpd_proc' = "null"
    <3>1. CASE ~UpdateConnRequestURL
      BY <1>11, <3>1 DEF updateConnectionRequestURL, TypeOK, NoStartBeforeInit
    <3>2. CASE UpdateConnRequestURL /\ ConnRequestHost # DEFAULT_CRH
      <4>1. ensure_cwmpd
        BY <1>11, <3>2 DEF updateConnectionRequestURL
      <4>2. CASE cwmpd_proc = "running"
        BY <4>1, <4>2 DEF ensure_cwmpd, open_cwmpd_listening_port, Rules, TypeOK,
           NoStartBeforeInit
      <4>3. CASE cwmpd_proc # "running" /\ plugin = "up"
        BY <4>1, <4>3, StartType DEF ensure_cwmpd, TypeOK
      <4>4. CASE cwmpd_proc # "running" /\ plugin # "up"
        BY <4>1, <4>4 DEF ensure_cwmpd, TypeOK, NoStartBeforeInit
      <4>5. QED  BY <4>2, <4>3, <4>4
    <3>3. CASE UpdateConnRequestURL /\ ConnRequestHost = DEFAULT_CRH
      BY <1>11, <3>3 DEF updateConnectionRequestURL, close_cwmpd_listening_port, TypeOK,
         NoStartBeforeInit
    <3>4. QED  BY <3>1, <3>2, <3>3 DEF TypeOK
  <2>3. TypeOK'
    BY <1>11, <2>1, <2>2, UrlType DEF updateConnectionRequestURL, TypeOK, network, queries, address
  <2>4. QED
    BY <1>11, <2>2, <2>3 DEF updateConnectionRequestURL, NoStartBeforeInit, DownIsQuiet,
       Known, FollowsStored, network, queries, address
<1>12. CASE updateConnectionRequestPath
  <2>1. TypeOK'
    BY <1>12, UrlType, TailType DEF updateConnectionRequestPath, TypeOK, process, startup,
       network, queries, address
  <2>2. QED
    BY <1>12, <2>1 DEF updateConnectionRequestPath, NoStartBeforeInit, DownIsQuiet, Known,
       FollowsStored, process, startup, network, queries, address
<1>13. CASE updateConnectionRequestPort
  <2>1. TypeOK'
    BY <1>13, UrlType, TailType DEF updateConnectionRequestPort, open_cwmpd_listening_port,
       TypeOK, Rules, startup, network, queries, address
  <2>2. QED
    BY <1>13, <2>1 DEF updateConnectionRequestPort, NoStartBeforeInit, DownIsQuiet, Known,
       FollowsStored, startup, network, queries, address
<1>14. CASE SetConnRequestPort
  <2>1. TypeOK'
    BY <1>14, InputType, EventQueue, SMTT(20) DEF SetConnRequestPort, TypeOK, process, startup, network,
       queries, address, Inputs
  <2>2. QED
    BY <1>14, <2>1 DEF SetConnRequestPort, NoStartBeforeInit, DownIsQuiet, Known,
       FollowsStored, process, startup, network, queries, address
<1>15. CASE SetConnRequestHost
  <2>1. TypeOK'
    BY <1>15, InputType, EventQueue, SMTT(20) DEF SetConnRequestHost, TypeOK, process, startup, network,
       queries, request, Inputs
  <2>2. QED
    BY <1>15, <2>1 DEF SetConnRequestHost, NoStartBeforeInit, DownIsQuiet, Known,
       FollowsStored, process, startup, network, queries
<1>16. CASE ManagementServer_updateConnectionRequestURL
  <2>1. ConnectionRequestURL' \in Urls \cup {NULL}
    BY <1>16 DEF ManagementServer_updateConnectionRequestURL, assembleConnectionRequestURL,
       TypeOK, Urls
  <2>2. TypeOK'
    BY <1>16, <2>1, InputType, SMTT(20) DEF ManagementServer_updateConnectionRequestURL, TypeOK, process,
       startup, network, queries, address, Inputs
  <2>3. QED
    BY <1>16, <2>2 DEF ManagementServer_updateConnectionRequestURL, NoStartBeforeInit,
       DownIsQuiet, Known, FollowsStored, process, startup, network, queries, address
<1>17. CASE deferred_init_timer_cb
  <2>1. TypeOK'
    BY <1>17, StartType DEF deferred_init_timer_cb, TypeOK, queries, address, request, Families
  <2>2. QED
    BY <1>17, <2>1 DEF deferred_init_timer_cb, NoStartBeforeInit, DownIsQuiet, Known,
       FollowsStored, Families
<1>18. CASE cwmp_plugin_exit
  <2>1. TypeOK'
    BY <1>18, InputType DEF cwmp_plugin_exit, TypeOK, queries, address, request, Inputs
  <2>2. QED
    BY <1>18, <2>1 DEF cwmp_plugin_exit, NoStartBeforeInit, DownIsQuiet, Known, FollowsStored
<1>19. CASE cwmp_plugin_init
  <2>1. TypeOK'
    BY <1>19 DEF cwmp_plugin_init, TypeOK, process, network, Addresses, Modes
  <2>2. QED
    BY <1>19, <2>1 DEF cwmp_plugin_init, NoStartBeforeInit, DownIsQuiet, Known, FollowsStored,
       process, network
<1>20. CASE UNCHANGED vars
  BY <1>20 DEF vars, process, startup, network, queries, address, request, TypeOK,
     NoStartBeforeInit, DownIsQuiet, Known, FollowsStored
<1>21. QED
  BY <1>1, <1>2, <1>3, <1>4, <1>5, <1>6, <1>7, <1>8, <1>9, <1>10, <1>11, <1>12, <1>13,
     <1>14, <1>15, <1>16, <1>17, <1>18, <1>19, <1>20 DEF Next, HandleEvent

-----------------------------------------------------------------------------
(***************************************************************************)
(* The connection request: URL and pinhole.                                *)
(***************************************************************************)

LEMMA QueueAppend ==
  ASSUME TypeOK, NEW d \in {"host", "path", "port"}, events' = Append(events, d)
  PROVE  /\ Queued(d)'
         /\ \A e : Queued(e) => Queued(e)'
         /\ events' # <<>>
<1>1. Len(events') = Len(events) + 1 /\ events'[Len(events) + 1] = d
  BY DEF TypeOK
<1>2. \A i \in 1..Len(events) : events'[i] = events[i]
  BY DEF TypeOK
<1>3. Len(events) \in Nat
  BY DEF TypeOK
<1>4. QED
  BY <1>1, <1>2, <1>3 DEF Queued

\* Handling an event removes no event of another parameter.
LEMMA QueueTail ==
  ASSUME TypeOK, NEW d, NextEvent(d),
         \/ events' = Tail(events)
         \/ events' = Append(Tail(events), "path")
  PROVE  \A e : e # d /\ Queued(e) => Queued(e)'
<1> SUFFICES ASSUME NEW e, e # d, Queued(e) PROVE Queued(e)'
    OBVIOUS
<1>1. PICK i \in 1..Len(events) : events[i] = e
  BY DEF Queued
<1>2. /\ events \in Seq({"host", "path", "port"})
      /\ events # <<>>
      /\ events[1] = d
  BY DEF TypeOK, NextEvent
<1>3. i # 1
  BY <1>1, <1>2
<1>4. /\ i - 1 \in 1..Len(Tail(events))
      /\ Tail(events)[i - 1] = e
      /\ Tail(events) \in Seq({"host", "path", "port"})
  BY <1>1, <1>2, <1>3
<1>5. CASE events' = Tail(events)
  BY <1>4, <1>5 DEF Queued
<1>6. CASE events' = Append(Tail(events), "path")
  <2>1. i - 1 \in 1..Len(events') /\ events'[i - 1] = e
    BY <1>4, <1>6
  <2>2. QED  BY <2>1 DEF Queued
<1>7. QED  BY <1>5, <1>6

\* The inputs left never grow, so neither condition becomes true again.
LEMMA BudgetStep ==
  ASSUME TypeOK, Budget, left' = left \/ \E k \in Inputs : Input(k)
  PROVE  /\ Budget'
         /\ NeverSuspended' => NeverSuspended
         /\ OwnHost' => OwnHost
<1>1. CASE left' = left
  BY <1>1 DEF Budget, NeverSuspended, OwnHost
<1>2. CASE \E k \in Inputs : Input(k)
  <2>1. PICK k \in Inputs : left[k] > 0 /\ left' = [left EXCEPT ![k] = @ - 1]
    BY <1>2 DEF Input
  <2>2. /\ left'["rpc"] \in Nat /\ left["rpc"] \in Nat /\ left'["rpc"] <= left["rpc"]
        /\ left'["host"] \in Nat /\ left["host"] \in Nat /\ left'["host"] <= left["host"]
    BY <2>1 DEF TypeOK, Inputs
  <2>3. Bounds["rpc"] \in Nat /\ Bounds["host"] \in Nat
    BY ServiceAssumption DEF Inputs
  <2>4. QED
    BY <2>2, <2>3 DEF Budget, NeverSuspended, OwnHost
<1>3. QED  BY <1>1, <1>2

\* An input of kind k ends the condition on k.
LEMMA InputSpends ==
  ASSUME TypeOK, Budget, NEW k \in {"rpc", "host"}, Input(k)
  PROVE  left'[k] # Bounds[k]
<1>1. Bounds["rpc"] \in Nat /\ Bounds["host"] \in Nat
  BY ServiceAssumption DEF Inputs
<1>2. left'[k] = left[k] - 1 /\ left[k] \in Nat
  BY DEF Input, TypeOK, Inputs
<1>3. QED
  BY <1>1, <1>2 DEF Budget

\* start_cwmpd spends an input or none, and opens the port for what it starts.
LEMMA StartOpens ==
  ASSUME TypeOK, start_cwmpd
  PROVE  /\ left' = left \/ \E k \in Inputs : Input(k)
         /\ \/ firewall' = CurrentRule
            \/ firewall' = firewall /\ cwmpd_proc' = cwmpd_proc
  BY DEF start_cwmpd, open_cwmpd_listening_port, CurrentRule, Inputs

\* A step that leaves the parameters and the queue alone.
Quiet ==
    /\ ConnRequestHost' = ConnRequestHost
    /\ LocalIPAddress' = LocalIPAddress
    /\ ConnRequestPort' = ConnRequestPort
    /\ ConnRequestPath' = ConnRequestPath
    /\ UpdateConnRequestURL' = UpdateConnRequestURL
    /\ ConnectionRequestURL' = ConnectionRequestURL
    /\ events' = events
    /\ plugin = "down" => plugin' = "down"

LEMMA QuietStep ==
  ASSUME TypeOK, UInv, Quiet,
         left' = left \/ \E k \in Inputs : Input(k),
         \/ firewall' = CurrentRule
         \/ firewall' = firewall /\ (cwmpd_proc' = "running" => cwmpd_proc = "running")
  PROVE  UInv'
<1>1. /\ Budget'
      /\ NeverSuspended' => NeverSuspended
      /\ OwnHost' => OwnHost
  BY BudgetStep DEF UInv
<1>2. Automatic' /\ HostIsLocal'
  BY <1>1 DEF UInv, Quiet, Automatic, HostIsLocal
<1>3. UrlIsCurrent'
  BY <1>1 DEF UInv, Quiet, UrlIsCurrent, assembleConnectionRequestURL
<1>4. PinholeOrEvent'
  <2>1. CurrentRule' = CurrentRule
    BY DEF Quiet, CurrentRule
  <2>2. \A e : Queued(e)' <=> Queued(e)
    BY DEF Quiet, Queued
  <2>3. QED
    BY <1>1, <2>1, <2>2 DEF UInv, Quiet, PinholeOrEvent
<1>5. QED  BY <1>1, <1>2, <1>3, <1>4 DEF UInv

\* A new address is announced by an event unless the host already is it.
LEMMA AddressStep ==
  ASSUME TypeOK, UInv, NEW v4, NEW v6, updateLocalIP(v4, v6),
         ConnRequestPort' = ConnRequestPort,
         ConnRequestPath' = ConnRequestPath,
         UpdateConnRequestURL' = UpdateConnRequestURL,
         ConnectionRequestURL' = ConnectionRequestURL,
         plugin' = plugin, firewall' = firewall, cwmpd_proc' = cwmpd_proc,
         left' = left
  PROVE  UInv'
<1>1. Budget' /\ Automatic' /\ (NeverSuspended' <=> NeverSuspended) /\ (OwnHost' <=> OwnHost)
  BY DEF UInv, Budget, Automatic, NeverSuspended, OwnHost
<1>2. PICK ip : /\ LocalIPAddress' = ip
                /\ ConnRequestHost' = IF UpdateConnRequestURL THEN ip ELSE ConnRequestHost
                /\ events' = IF ConnRequestHost' # ConnRequestHost
                             THEN Append(events, "host") ELSE events
  BY DEF updateLocalIP, cwmp_plugin_update_conreq_host
<1>3. HostIsLocal'
  BY <1>1, <1>2 DEF HostIsLocal, UInv, Automatic
<1>4. CASE ConnRequestHost' # ConnRequestHost
  <2>1. events' # <<>> /\ Queued("host")'
    BY <1>2, <1>4, QueueAppend
  <2>2. QED
    BY <1>1, <1>3, <2>1 DEF UInv, UrlIsCurrent, PinholeOrEvent
<1>5. CASE ConnRequestHost' = ConnRequestHost
  <2>1. events' = events
    BY <1>2, <1>5
  <2>2. UrlIsCurrent'
    BY <1>1, <1>5, <2>1 DEF UInv, UrlIsCurrent, assembleConnectionRequestURL
  <2>3. \A e : Queued(e)' <=> Queued(e)
    BY <2>1 DEF Queued
  <2>4. NeverSuspended /\ OwnHost => CurrentRule' = CurrentRule
    BY <1>1, <1>3, <1>5 DEF UInv, HostIsLocal, CurrentRule
  <2>5. PinholeOrEvent'
    BY <1>1, <1>5, <2>3, <2>4 DEF UInv, PinholeOrEvent
  <2>6. QED
    BY <1>1, <1>3, <2>2, <2>5 DEF UInv
<1>6. QED  BY <1>4, <1>5

\* A handler rebuilds the URL from the current values.
LEMMA HandlerUrl ==
  ASSUME TypeOK, UInv, update_conn_req_url, NeverSuspended' => NeverSuspended,
         ConnRequestHost' = ConnRequestHost, ConnRequestPort' = ConnRequestPort,
         ConnRequestPath' # ConnRequestPath => events' # <<>>
  PROVE  UrlIsCurrent'
<1>1. CASE ~NeverSuspended'
  BY <1>1 DEF UrlIsCurrent
<1>2. CASE NeverSuspended' /\ events' = <<>>
  <2>1. UpdateConnRequestURL
    BY <1>2 DEF UInv, Automatic
  <2>2. QED
    BY <1>2, <2>1 DEF UrlIsCurrent, update_conn_req_url, assembleConnectionRequestURL
<1>3. CASE events' # <<>>
  BY <1>3 DEF UrlIsCurrent
<1>4. QED  BY <1>1, <1>2, <1>3

\* The handler of the host opens the port of a cwmpd that has an address.
LEMMA HostHandler ==
  ASSUME IInv, UInv, updateConnectionRequestURL
  PROVE  UInv'
<1> TypeOK
    BY DEF IInv
<1>1. /\ ConnRequestHost' = ConnRequestHost
      /\ LocalIPAddress' = LocalIPAddress
      /\ ConnRequestPort' = ConnRequestPort
      /\ UpdateConnRequestURL' = UpdateConnRequestURL
      /\ update_conn_req_url
  BY DEF updateConnectionRequestURL, address
<1>2. CurrentRule' = CurrentRule
  BY <1>1 DEF CurrentRule
<1>3. CASE UpdateConnRequestURL /\ ConnRequestHost # DEFAULT_CRH
  <2>1. ensure_cwmpd /\ cwmp_plugin_create_conreq_path
    BY <1>3 DEF updateConnectionRequestURL
  <2>2. /\ left' = left \/ \E k \in Inputs : Input(k)
        /\ cwmpd_proc' = "running" => firewall' = CurrentRule
    <3>1. CASE cwmpd_proc = "running"
      BY <2>1, <3>1 DEF ensure_cwmpd, open_cwmpd_listening_port, CurrentRule
    <3>2. CASE cwmpd_proc # "running" /\ plugin = "up"
      BY <2>1, <3>2, StartOpens DEF ensure_cwmpd
    <3>3. CASE cwmpd_proc # "running" /\ plugin # "up"
      BY <2>1, <3>3 DEF ensure_cwmpd
    <3>4. QED  BY <3>1, <3>2, <3>3
  <2>3. /\ Budget'
        /\ NeverSuspended' => NeverSuspended
        /\ OwnHost' => OwnHost
    BY <2>2, BudgetStep DEF UInv
  <2>4. ConnRequestPath' # ConnRequestPath => events' # <<>>
    <3>1. Tail(events) \in Seq({"host", "path", "port"})
      BY TailType DEF updateConnectionRequestURL
    <3>2. Append(Tail(events), "path") # <<>>
      <4>1. Len(Append(Tail(events), "path")) = Len(Tail(events)) + 1
        BY <3>1
      <4>2. Len(Tail(events)) \in Nat /\ Len(<<>>) = 0
        BY <3>1
      <4>3. QED  BY <4>1, <4>2
    <3>3. QED
      BY <2>1, <3>2 DEF cwmp_plugin_create_conreq_path
  <2>5. UrlIsCurrent'
    BY <1>1, <2>3, <2>4, HandlerUrl
  <2>6. PinholeOrEvent'
    BY <1>2, <2>2 DEF PinholeOrEvent
  <2>7. QED
    BY <1>1, <2>3, <2>5, <2>6 DEF UInv, Automatic, HostIsLocal
<1>4. CASE UpdateConnRequestURL /\ ConnRequestHost = DEFAULT_CRH
  <2>1. left' = left /\ ConnRequestPath' = ConnRequestPath
    BY <1>4 DEF updateConnectionRequestURL
  <2>2. /\ Budget'
        /\ NeverSuspended' => NeverSuspended
        /\ OwnHost' => OwnHost
    BY <2>1, BudgetStep DEF UInv
  <2>3. UrlIsCurrent'
    BY <1>1, <2>1, <2>2, HandlerUrl
  <2>4. PinholeOrEvent'
    BY <1>1, <1>4 DEF PinholeOrEvent
  <2>5. QED
    BY <1>1, <2>2, <2>3, <2>4 DEF UInv, Automatic, HostIsLocal
<1>5. CASE ~UpdateConnRequestURL
  <2>1. left' = left
    BY <1>5 DEF updateConnectionRequestURL
  <2>2. Budget' /\ ~NeverSuspended'
    BY <1>5, <2>1 DEF UInv, Automatic, NeverSuspended, Budget
  <2>3. QED
    BY <2>2 DEF UInv, Automatic, UrlIsCurrent, HostIsLocal, PinholeOrEvent
<1>6. QED  BY <1>3, <1>4, <1>5

\* The handler of the path leaves the port to the queued events.
LEMMA PathHandler ==
  ASSUME IInv, UInv, updateConnectionRequestPath
  PROVE  UInv'
<1> TypeOK
    BY DEF IInv
<1>1. /\ ConnRequestHost' = ConnRequestHost
      /\ LocalIPAddress' = LocalIPAddress
      /\ ConnRequestPort' = ConnRequestPort
      /\ ConnRequestPath' = ConnRequestPath
      /\ UpdateConnRequestURL' = UpdateConnRequestURL
      /\ update_conn_req_url
      /\ left' = left
      /\ firewall' = firewall /\ cwmpd_proc' = cwmpd_proc
  BY DEF updateConnectionRequestPath, address, process
<1>2. /\ Budget'
      /\ NeverSuspended' => NeverSuspended
      /\ OwnHost' => OwnHost
  BY <1>1, BudgetStep DEF UInv
<1>3. UrlIsCurrent'
  BY <1>1, <1>2, HandlerUrl
<1>4. (Queued("host") => Queued("host")') /\ (Queued("port") => Queued("port")')
  BY QueueTail DEF updateConnectionRequestPath
<1>5. CurrentRule' = CurrentRule
  BY <1>1 DEF CurrentRule
<1>6. PinholeOrEvent'
  BY <1>1, <1>2, <1>4, <1>5 DEF UInv, PinholeOrEvent
<1>7. QED
  BY <1>1, <1>2, <1>3, <1>6 DEF UInv, Automatic, HostIsLocal

\* The handler of the port opens the new port.
LEMMA PortHandler ==
  ASSUME IInv, UInv, updateConnectionRequestPort
  PROVE  UInv'
<1> TypeOK
    BY DEF IInv
<1>1. /\ ConnRequestHost' = ConnRequestHost
      /\ LocalIPAddress' = LocalIPAddress
      /\ ConnRequestPort' = ConnRequestPort
      /\ ConnRequestPath' = ConnRequestPath
      /\ UpdateConnRequestURL' = UpdateConnRequestURL
      /\ update_conn_req_url
      /\ left' = left
      /\ firewall' = CurrentRule
  BY DEF updateConnectionRequestPort, address, open_cwmpd_listening_port, CurrentRule
<1>2. /\ Budget'
      /\ NeverSuspended' => NeverSuspended
      /\ OwnHost' => OwnHost
  BY <1>1, BudgetStep DEF UInv
<1>3. UrlIsCurrent'
  BY <1>1, <1>2, HandlerUrl
<1>4. CurrentRule' = CurrentRule
  BY <1>1 DEF CurrentRule
<1>5. PinholeOrEvent'
  BY <1>1, <1>4 DEF PinholeOrEvent
<1>6. QED
  BY <1>1, <1>2, <1>3, <1>5 DEF UInv, Automatic, HostIsLocal

\* A new port is announced by an event.
LEMMA PortWritten ==
  ASSUME IInv, UInv, SetConnRequestPort
  PROVE  UInv'
<1> TypeOK
    BY DEF IInv
<1>1. events' # <<>> /\ Queued("port")'
  BY QueueAppend DEF SetConnRequestPort
<1>2. /\ Budget'
      /\ NeverSuspended' => NeverSuspended
      /\ OwnHost' => OwnHost
  BY BudgetStep DEF UInv, SetConnRequestPort, Inputs
<1>3. /\ ConnRequestHost' = ConnRequestHost
      /\ LocalIPAddress' = LocalIPAddress
      /\ UpdateConnRequestURL' = UpdateConnRequestURL
  BY DEF SetConnRequestPort, address
<1>4. QED
  BY <1>1, <1>2, <1>3 DEF UInv, Automatic, UrlIsCurrent, HostIsLocal, PinholeOrEvent

\* So is a host written by another service, which ends OwnHost.
LEMMA HostWritten ==
  ASSUME IInv, UInv, SetConnRequestHost
  PROVE  UInv'
<1> TypeOK
    BY DEF IInv
<1>1. events' # <<>>
  BY QueueAppend DEF SetConnRequestHost
<1>2. /\ Budget'
      /\ NeverSuspended' => NeverSuspended
  BY BudgetStep DEF UInv, SetConnRequestHost, Inputs
<1>3. ~OwnHost'
  BY InputSpends DEF UInv, SetConnRequestHost, OwnHost
<1>4. UpdateConnRequestURL' = UpdateConnRequestURL
  BY DEF SetConnRequestHost, request
<1>5. QED
  BY <1>1, <1>2, <1>3, <1>4 DEF UInv, Automatic, UrlIsCurrent, HostIsLocal, PinholeOrEvent

LEMMA UStep == IInv /\ UInv /\ [Next]_vars => UInv'
<1> SUFFICES ASSUME IInv, UInv, [Next]_vars PROVE UInv'
    OBVIOUS
<1> TypeOK
    BY DEF IInv
<1>1. CASE CwmpdExits
  <2>1. Quiet
    BY <1>1 DEF CwmpdExits, Quiet, startup, address, request
  <2>2. QED
    BY <1>1, <2>1, QuietStep DEF CwmpdExits, Inputs
<1>2. CASE cwmpd_proc_stopped
  <2>1. Quiet
    BY <1>2 DEF cwmpd_proc_stopped, Quiet, startup, address, request
  <2>2. QED
    BY <1>2, <2>1, QuietStep DEF cwmpd_proc_stopped, close_cwmpd_listening_port
<1>3. CASE cwmp_timer_cb
  <2>1. Quiet
    BY <1>3 DEF cwmp_timer_cb, Quiet, startup, address, request
  <2>2. QED
    BY <1>3, <2>1, QuietStep, StartOpens DEF cwmp_timer_cb
<1>4. CASE ipv6address_changed_cb
  <2>1. CASE wanipmode = "IPv4ONLY"
    <3>1. Quiet
      BY <1>4, <2>1 DEF ipv6address_changed_cb, Quiet, startup, address, request
    <3>2. QED
      BY <1>4, <3>1, QuietStep DEF ipv6address_changed_cb, process
  <2>2. CASE wanipmode # "IPv4ONLY"
    <3>1. updateLocalIP(ipv4address, wan["ipv6"])
      BY <1>4, <2>2 DEF ipv6address_changed_cb
    <3>2. QED
      BY <1>4, <3>1, AddressStep DEF ipv6address_changed_cb, process, startup, request
  <2>3. QED  BY <2>1, <2>2
<1>5. CASE ipv4address_changed_cb
  <2>1. CASE wanipmode = "IPv6PREFERRED" /\ ipv6address = DEFAULT_CRH
    <3>1. Quiet
      BY <1>5, <2>1 DEF ipv4address_changed_cb, Quiet, startup, address, request
    <3>2. QED
      BY <1>5, <3>1, QuietStep DEF ipv4address_changed_cb, process
  <2>2. CASE ~(wanipmode = "IPv6PREFERRED" /\ ipv6address = DEFAULT_CRH)
    <3>1. updateLocalIP(wan["ipv4"], ipv6address)
      BY <1>5, <2>2 DEF ipv4address_changed_cb
    <3>2. QED
      BY <1>5, <3>1, AddressStep DEF ipv4address_changed_cb, process, startup, request
  <2>3. QED  BY <2>1, <2>2
<1>6. CASE ipv6_timer_cb
  <2>1. updateLocalIP(ipv4address, ipv6address)
    BY <1>6 DEF ipv6_timer_cb
  <2>2. QED
    BY <1>6, <2>1, AddressStep DEF ipv6_timer_cb, process, startup, request
<1>7. CASE WaitElapses
  <2>1. Quiet
    BY <1>7 DEF WaitElapses, Quiet, startup, address, request
  <2>2. QED
    BY <1>7, <2>1, QuietStep DEF WaitElapses, process
<1>8. CASE writePreferredIPVersion
  <2>1. Quiet
    BY <1>8 DEF writePreferredIPVersion, Quiet, startup, address, request
  <2>2. QED
    BY <1>8, <2>1, QuietStep DEF writePreferredIPVersion, process, Inputs
<1>9. CASE writeInterface
  <2>1. Quiet
    BY <1>9 DEF writeInterface, Quiet, startup, address, request
  <2>2. QED
    BY <1>9, <2>1, QuietStep DEF writeInterface, process, Inputs
<1>10. CASE WanChanges
  <2>1. Quiet
    BY <1>10 DEF WanChanges, Quiet, startup, address, request
  <2>2. QED
    BY <1>10, <2>1, QuietStep DEF WanChanges, process, Inputs
<1>11. CASE HandleEvent
  BY <1>11, HostHandler, PathHandler, PortHandler DEF HandleEvent
<1>12. CASE SetConnRequestPort
  BY <1>12, PortWritten
<1>13. CASE SetConnRequestHost
  BY <1>13, HostWritten
<1>14. CASE ManagementServer_updateConnectionRequestURL
  <2>1. Budget'
    BY <1>14, BudgetStep DEF UInv, ManagementServer_updateConnectionRequestURL, Inputs
  <2>2. ~NeverSuspended'
    BY <1>14, InputSpends DEF UInv, ManagementServer_updateConnectionRequestURL, NeverSuspended
  <2>3. QED
    BY <2>1, <2>2 DEF UInv, Automatic, UrlIsCurrent, HostIsLocal, PinholeOrEvent
<1>15. CASE deferred_init_timer_cb
  <2>1. Quiet
    BY <1>15 DEF deferred_init_timer_cb, Quiet, address, request
  <2>2. CASE cwmpd_start_avoided
    BY <1>15, <2>1, <2>2, QuietStep, StartOpens DEF deferred_init_timer_cb
  <2>3. CASE ~cwmpd_start_avoided
    BY <1>15, <2>1, <2>3, QuietStep DEF deferred_init_timer_cb
  <2>4. QED  BY <2>2, <2>3
<1>16. CASE cwmp_plugin_exit
  <2>1. /\ Budget'
        /\ NeverSuspended' => NeverSuspended
        /\ OwnHost' => OwnHost
    BY <1>16, BudgetStep DEF UInv, cwmp_plugin_exit, Inputs
  <2>2. QED
    BY <1>16, <2>1 DEF cwmp_plugin_exit, UInv, Automatic, UrlIsCurrent, HostIsLocal,
       PinholeOrEvent, address, request
<1>17. CASE cwmp_plugin_init
  <2>1. left' = left
    BY <1>17 DEF cwmp_plugin_init
  <2>2. Budget'
    BY <2>1 DEF UInv, Budget
  <2>3. QED
    BY <1>17, <2>2 DEF cwmp_plugin_init, UInv, Automatic, UrlIsCurrent, HostIsLocal,
       PinholeOrEvent
<1>18. CASE UNCHANGED vars
  <2>1. Quiet
    BY <1>18 DEF vars, Quiet, startup, address, request
  <2>2. QED
    BY <1>18, <2>1, QuietStep DEF vars, process
<1>19. QED
  BY <1>1, <1>2, <1>3, <1>4, <1>5, <1>6, <1>7, <1>8, <1>9, <1>10, <1>11, <1>12, <1>13,
     <1>14, <1>15, <1>16, <1>17, <1>18 DEF Next

LEMMA UInit == Init => UInv
<1> SUFFICES ASSUME Init PROVE UInv
    OBVIOUS
<1>1. Budget
  BY ServiceAssumption DEF Init, Budget, Inputs
<1>2. QED
  BY <1>1 DEF Init, UInv, Automatic, UrlIsCurrent, HostIsLocal, PinholeOrEvent

-----------------------------------------------------------------------------
\* Every reachable state satisfies the inductive invariant.
THEOREM Invariance == Spec => []IInv
  BY InitInv, StepInv, PTL DEF Spec

\* The statics of the plugin and the ConnRequest parameters keep their types.
THEOREM TypeCorrect == Spec => []TypeOK
<1>1. IInv => TypeOK
  BY DEF IInv
<1>2. QED
  BY Invariance, <1>1, PTL

\* cwmpd is never started before the plugin is initialised, whichever of the
\* host handler, the restart timer and the deferred init comes first.
THEOREM CwmpdWaitsForInit == Spec => []NoStartBeforeInit
<1>1. IInv => NoStartBeforeInit
  BY DEF IInv
<1>2. QED
  BY Invariance, <1>1, PTL

\* Once netmodel reported and no timer is pending, LocalIPAddress is the
\* address getLocalIP prefers among the WAN addresses.
THEOREM AddressFollowsWan == Spec => []LocalIPFollowsWan
<1>1. IInv => LocalIPFollowsWan
  BY DEF IInv, LocalIPFollowsWan, Known, FollowsStored
<1>2. QED
  BY Invariance, <1>1, PTL

\* Every reachable state satisfies the invariant of the connection request.
THEOREM RequestInvariance == Spec => []UInv
  BY UInit, UStep, Invariance, PTL DEF Spec

\* Until somebody suspends the updates, the URL the ACS is given is made of
\* the current host, port and path whenever the events are handled.
THEOREM UrlStaysCurrent == Spec => []UrlIsCurrent
<1>1. UInv => UrlIsCurrent
  BY DEF UInv
<1>2. QED
  BY RequestInvariance, <1>1, PTL

\* Until somebody else writes the host or suspends the updates, the firewall
\* lets the port of a running cwmpd through for the family of its address.
THEOREM PinholeFollowsRequest == Spec => []PortFollowsRequest
<1>1. UInv => PortFollowsRequest
  <2> SUFFICES ASSUME UInv, events = <<>> PROVE PortFollowsRequest
    BY DEF PortFollowsRequest
  <2>1. ~Queued("host") /\ ~Queued("port")
    BY DEF Queued
  <2>2. QED
    BY <2>1 DEF UInv, PinholeOrEvent, PortFollowsRequest, CurrentRule
<1>2. QED
  BY RequestInvariance, <1>1, PTL

=============================================================================
