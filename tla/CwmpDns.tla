------------------------------ MODULE CwmpDns ------------------------------
(***************************************************************************)
(* The ACS address resolver of cwmpd (dmmain/cwmpd_dns.c), with the parts  *)
(* of cwmpd_main.c, cwmpd_client.c and of the device adapter that drive    *)
(* it.  Everything runs on one event loop: an action is one callback of    *)
(* the loop, run to completion.                                            *)
(*                                                                         *)
(* cwmp_dns_resolve starts one c-ares query per call and marks the earlier *)
(* ones dirty; a query ends in cwmp_dns_resolve_cb, which publishes the    *)
(* addresses in ManagementServer.ACSIPList and arms dns_ttl_timer for the  *)
(* next lookup.  When the ACS URL changes, a BOOTSTRAP inform is owed and  *)
(* is sent once the new host was looked up.                                *)
(*                                                                         *)
(* c-ares is external: a query opens, closes and reopens sockets           *)
(* (cwmp_dns_ares_sock_cb) and ends with a success or an error, possibly   *)
(* before ares_getaddrinfo returns.                                        *)
(***************************************************************************)
EXTENDS Naturals, FiniteSets

CONSTANTS
    Names,          \* ACS hosts that are names and need a lookup
    Addrs,          \* ACS hosts that are IP literals
    EmptyHost,      \* the host of a URL without one
    NoHost,         \* the owner of an empty ACSIPList; no target yet
    ResolverIds,    \* memory for resolver_t: at most this many at a time
    NoResolver,     \* a free slot of ResolverIds
    MaxUrlChanges,  \* bound: how often ManagementServer.URL is written
    MaxFaults       \* bound: failed bus reads and failed ares_init_options

ASSUME DnsAssumption ==
    /\ MaxUrlChanges \in Nat
    /\ MaxFaults \in Nat
    /\ Names \cap Addrs = {}
    /\ EmptyHost \notin Names \cup Addrs
    /\ NoHost \notin Names \cup Addrs \cup {EmptyHost}

VARIABLES
    phase,          \* "init" (before the event loop), "up" or "down"
    url,            \* host part of ManagementServer.URL in the data model
    urlEvents,      \* object-changed notifications for URL not yet handled
    ACSIPLIST,      \* host whose addresses ManagementServer.ACSIPList holds
    send_bootstrap, \* static bool send_bootstrap
    dns_ttl_timer,  \* is the TTL / retry timer armed
    resolver_list,  \* the resolvers, by memory slot
    target,         \* ghost: host of the last lookup that was started
    owed,           \* ghost: a URL change not yet followed by a bootstrap
    changes,        \* ghost: URL changes so far
    bootstraps,     \* ghost: calls of ..._bootstrapInform so far
    faults          \* ghost: failures injected so far

vars == <<phase, url, urlEvents, ACSIPLIST, send_bootstrap, dns_ttl_timer,
          resolver_list, target, owed, changes, bootstraps, faults>>

Hosts == Names \cup Addrs \cup {EmptyHost}

(***************************************************************************)
(* resolver_t.  query: the callback of ares_getaddrinfo is outstanding.    *)
(* timeout: the periodic timeout_timer was never created, runs, or was     *)
(* stopped (it is never restarted).  clean: clean_timer is running.        *)
(***************************************************************************)
resolver_t == [host : Names, dirty : BOOLEAN, query : BOOLEAN,
               timeout : {"none", "run", "stop"}, clean : BOOLEAN]

Used == {r \in ResolverIds : resolver_list[r] # NoResolver}

\* NULL is not a resolver.
ASSUME NoResolverAssumption == NoResolver \notin resolver_t

\* The queries whose result will be used.
Live == {r \in Used : resolver_list[r].query /\ ~resolver_list[r].dirty}

Init ==
    /\ phase = "init"
    /\ url \in Hosts
    /\ urlEvents = 0
    /\ ACSIPLIST = NoHost
    /\ send_bootstrap = FALSE
    /\ dns_ttl_timer = FALSE
    /\ resolver_list = [r \in ResolverIds |-> NoResolver]
    /\ target = NoHost
    /\ owed = FALSE
    /\ changes = 0
    /\ bootstraps = 0
    /\ faults = 0

-----------------------------------------------------------------------------
\* Fault: the flag is not reset once the bootstrap was sent.
Bootstrap_KeepsFlag(sb, ev) ==
    /\ send_bootstrap' = sb
    /\ bootstraps' = IF sb THEN bootstraps + 1 ELSE bootstraps
    /\ owed' = (owed /\ ~(sb /\ ev = 0))

\* "if(send_bootstrap) { bootstrapInform(); send_bootstrap = false; }", with
\* sb the flag at that point and ev the URL notifications still queued.
Bootstrap(sb, ev) ==
    /\ send_bootstrap' = FALSE
    /\ bootstraps' = IF sb THEN bootstraps + 1 ELSE bootstraps
    /\ owed' = (owed /\ ~(sb /\ ev = 0))

\* DM_ENG_SetManagementServerValue: a write that fails is only traced.
\* MaxFaults = 0 stands for a bus that never fails.
Written(old, new) == IF MaxFaults = 0 THEN {new} ELSE {old, new}

\* Fault: no retry after a failed lookup.
resolve_cb_clean_NoRetry(host, ok, list, sb, ev) ==
    /\ ACSIPLIST' \in (IF ok THEN Written(list, host) ELSE {list})
    /\ dns_ttl_timer' = ok
    /\ Bootstrap(sb, ev)

\* Fault: the bootstrap is sent only once the name was resolved.
resolve_cb_clean_BootstrapIfOk(host, ok, list, sb, ev) ==
    /\ ACSIPLIST' \in (IF ok THEN Written(list, host) ELSE {list})
    /\ dns_ttl_timer' = TRUE
    /\ IF ok THEN Bootstrap(sb, ev)
             ELSE send_bootstrap' = sb /\ UNCHANGED <<bootstraps, owed>>

\* The end of cwmp_dns_resolve_cb for a resolver that is not dirty: publish
\* the addresses and arm the timer with their TTL, or retry in 5 seconds;
\* send the bootstrap either way.
resolve_cb_clean(host, ok, list, sb, ev) ==
    /\ ACSIPLIST' \in (IF ok THEN Written(list, host) ELSE {list})
    /\ dns_ttl_timer' = TRUE
    /\ Bootstrap(sb, ev)

\* Fault: the clean timer is left to the socket callback.
Completed_NoClean(res) ==
    [res EXCEPT !.query = FALSE,
                !.timeout = IF @ = "none" THEN "none" ELSE "stop"]

\* The resolver once its callback ran: no query, timeout_timer stopped,
\* clean_timer running.
Completed(res) ==
    [res EXCEPT !.query = FALSE,
                !.timeout = IF @ = "none" THEN "none" ELSE "stop",
                !.clean = TRUE]

\* Fault: earlier lookups stay in force.
mark_resolvers_as_dirty_None == resolver_list

mark_resolvers_as_dirty ==
    [r \in ResolverIds |->
        IF r \in Used THEN [resolver_list[r] EXCEPT !.dirty = TRUE]
                      ELSE NoResolver]

\* resolver_create, then the socket c-ares opens inside ares_getaddrinfo.
NewResolver(host) ==
    [host |-> host, dirty |-> FALSE, query |-> TRUE,
     timeout |-> "run", clean |-> FALSE]

-----------------------------------------------------------------------------
(***************************************************************************)
(* cwmp_dns_resolve(url_changed), ev being the URL notifications left.     *)
(***************************************************************************)

\* The error exits: the URL cannot be read, or (once the earlier work was
\* dropped) no resolver can be created.  Retry in 5 seconds.
cwmp_dns_resolve_ko(url_changed, ev) ==
    /\ dns_ttl_timer' = TRUE
    /\ \/ /\ faults < MaxFaults
          /\ faults' = faults + 1
          /\ UNCHANGED <<ACSIPLIST, send_bootstrap, resolver_list, target>>
       \/ /\ url \in Names
          /\ \/ Used = ResolverIds /\ UNCHANGED faults
             \/ faults < MaxFaults /\ faults' = faults + 1
          /\ ACSIPLIST' \in (IF url_changed THEN Written(ACSIPLIST, NoHost)
                                           ELSE {ACSIPLIST})
          /\ send_bootstrap' = (send_bootstrap \/ url_changed)
          /\ resolver_list' = mark_resolvers_as_dirty
          /\ target' = url
    /\ UNCHANGED <<owed, bootstraps>>

\* Nothing to resolve: an empty host waits for the next URL, an IP literal
\* is published as it is.
resolve_without_lookup(list, sb, ev) ==
    /\ url \notin Names
    /\ resolver_list' = mark_resolvers_as_dirty
    /\ dns_ttl_timer' = FALSE
    /\ IF url = EmptyHost
       THEN /\ ACSIPLIST' = list
            /\ send_bootstrap' = sb
            /\ UNCHANGED <<owed, bootstraps>>
       ELSE /\ ACSIPLIST' \in Written(list, url)
            /\ Bootstrap(sb, ev)

\* cwmp_dns_ares_resolution: a new query, which stays pending or runs
\* cwmp_dns_resolve_cb before ares_getaddrinfo returns (without a socket).
cwmp_dns_ares_resolution(list, sb, ev) ==
    \E r \in ResolverIds \ Used :
        LET new == NewResolver(url) IN
        \/ /\ resolver_list' = [mark_resolvers_as_dirty EXCEPT ![r] = new]
           /\ dns_ttl_timer' = FALSE
           /\ ACSIPLIST' = list
           /\ send_bootstrap' = sb
           /\ UNCHANGED <<owed, bootstraps>>
        \/ \E ok \in BOOLEAN :
           /\ resolver_list' = [mark_resolvers_as_dirty EXCEPT ![r] =
                                  Completed([new EXCEPT !.timeout = "none"])]
           /\ resolve_cb_clean(url, ok, list, sb, ev)

cwmp_dns_resolve_ok(url_changed, ev) ==
    LET lists == IF url_changed THEN Written(ACSIPLIST, NoHost) ELSE {ACSIPLIST}
        sb    == send_bootstrap \/ url_changed
    IN  /\ target' = url
        /\ UNCHANGED faults
        /\ \E list \in lists :
              \/ resolve_without_lookup(list, sb, ev)
              \/ url \in Names /\ cwmp_dns_ares_resolution(list, sb, ev)

cwmp_dns_resolve(url_changed, ev) ==
    \/ cwmp_dns_resolve_ok(url_changed, ev)
    \/ cwmp_dns_resolve_ko(url_changed, ev)

-----------------------------------------------------------------------------
(***************************************************************************)
(* Callbacks of the event loop.                                            *)
(***************************************************************************)

\* cwmp_app_init_services: the first lookup; if it cannot be started, cwmpd
\* cleans up and exits.
InitServices ==
    /\ phase = "init"
    /\ \/ cwmp_dns_resolve_ok(FALSE, urlEvents) /\ phase' = "up"
       \/ cwmp_dns_resolve_ko(FALSE, urlEvents) /\ phase' = "exit"
    /\ UNCHANGED <<url, urlEvents, changes>>

\* ManagementServer.URL is written (by the ACS, DHCP, a user); cwmpd is
\* notified when it is connected to the bus.
SetUrl ==
    /\ changes < MaxUrlChanges
    /\ changes' = changes + 1
    /\ \E h \in Hosts \ {url} : url' = h
    /\ IF phase = "down"
       THEN UNCHANGED <<urlEvents, owed>>
       ELSE urlEvents' = urlEvents + 1 /\ owed' = TRUE
    /\ UNCHANGED <<phase, ACSIPLIST, send_bootstrap, dns_ttl_timer,
                   resolver_list, target, bootstraps, faults>>

\* EVENT_ENG_URL_CHANGED.
UrlChanged ==
    /\ phase = "up"
    /\ urlEvents > 0
    /\ urlEvents' = urlEvents - 1
    /\ cwmp_dns_resolve(TRUE, urlEvents - 1)
    /\ UNCHANGED <<phase, url, changes>>

\* dns_ttl_timer_cb.
DnsTtlTimer ==
    /\ phase = "up"
    /\ dns_ttl_timer
    /\ cwmp_dns_resolve(FALSE, urlEvents)
    /\ UNCHANGED <<phase, url, urlEvents, changes>>

\* client_startSession, when cwmp_client_get_acsip finds no address.
StartSessionWithoutIp ==
    /\ phase = "up"
    /\ url \notin Addrs
    /\ ACSIPLIST = NoHost
    /\ cwmp_dns_resolve(FALSE, urlEvents)
    /\ UNCHANGED <<phase, url, urlEvents, changes>>

\* Fault: dirty is not looked at.
ResolveCb_IgnoresDirty(r, ok) ==
    /\ phase = "up"
    /\ r \in Used
    /\ resolver_list[r].query
    /\ resolver_list' = [resolver_list EXCEPT ![r] = Completed(@)]
    /\ resolve_cb_clean(resolver_list[r].host, ok, ACSIPLIST,
                        send_bootstrap, urlEvents)
    /\ UNCHANGED <<phase, url, urlEvents, target, changes, faults>>

\* cwmp_dns_resolve_cb, run by ares_process_fd on a socket event or by the
\* timeout timer.
ResolveCb(r, ok) ==
    /\ phase = "up"
    /\ r \in Used
    /\ resolver_list[r].query
    /\ resolver_list' = [resolver_list EXCEPT ![r] = Completed(@)]
    /\ IF resolver_list[r].dirty
       THEN UNCHANGED <<ACSIPLIST, dns_ttl_timer, send_bootstrap, bootstraps, owed>>
       ELSE resolve_cb_clean(resolver_list[r].host, ok, ACSIPLIST,
                             send_bootstrap, urlEvents)
    /\ UNCHANGED <<phase, url, urlEvents, target, changes, faults>>

\* cwmp_dns_ares_sock_cb when c-ares closes the last socket of a query and
\* opens another (next server, next search domain): the timeout timer stops
\* for good and the clean timer starts.
SocketReopened(r) ==
    /\ phase = "up"
    /\ r \in Used
    /\ resolver_list[r].query
    /\ resolver_list' = [resolver_list EXCEPT ![r].timeout = "stop",
                                              ![r].clean = TRUE]
    /\ UNCHANGED <<phase, url, urlEvents, ACSIPLIST, send_bootstrap,
                   dns_ttl_timer, target, owed, changes, bootstraps, faults>>

\* resolver_clean_timer_cb: ares_destroy ends a query that is still pending
\* (ARES_EDESTRUCTION), then the resolver is freed.
ResolverCleanTimer(r) ==
    /\ phase = "up"
    /\ r \in Used
    /\ resolver_list[r].clean
    /\ resolver_list' = [resolver_list EXCEPT ![r] = NoResolver]
    /\ IF r \in Live
       THEN resolve_cb_clean(resolver_list[r].host, FALSE, ACSIPLIST,
                             send_bootstrap, urlEvents)
       ELSE UNCHANGED <<ACSIPLIST, dns_ttl_timer, send_bootstrap, bootstraps, owed>>
    /\ UNCHANGED <<phase, url, urlEvents, target, changes, faults>>

\* cwmp_app_clean, after SIGTERM or a failed start: the timer is deleted and
\* every resolver is destroyed; a live query still reports its end.
cwmp_dns_clean ==
    /\ phase \in {"up", "exit"}
    /\ phase' = "down"
    /\ dns_ttl_timer' = FALSE
    /\ resolver_list' = [r \in ResolverIds |-> NoResolver]
    /\ send_bootstrap' = FALSE
    /\ bootstraps' = IF send_bootstrap /\ Live # {} THEN bootstraps + 1
                                                    ELSE bootstraps
    /\ urlEvents' = 0
    /\ owed' = FALSE
    /\ UNCHANGED <<url, ACSIPLIST, target, changes, faults>>

\* start_cwmpd of the plugin: a new process.  ACSIPList is kept by the
\* plugin's data model.
StartCwmpd ==
    /\ phase = "down"
    /\ phase' = "init"
    /\ UNCHANGED <<url, urlEvents, ACSIPLIST, send_bootstrap, dns_ttl_timer,
                   resolver_list, target, owed, changes, bootstraps, faults>>

Next ==
    \/ InitServices
    \/ SetUrl
    \/ UrlChanged
    \/ DnsTtlTimer
    \/ StartSessionWithoutIp
    \/ \E r \in ResolverIds, ok \in BOOLEAN : ResolveCb(r, ok)
    \/ \E r \in ResolverIds : SocketReopened(r)
    \/ \E r \in ResolverIds : ResolverCleanTimer(r)
    \/ cwmp_dns_clean
    \/ StartCwmpd

Spec == Init /\ [][Next]_vars

(***************************************************************************)
(* Fairness.  The event loop serves every timer and every notification.    *)
(* c-ares ends a query after its single try (ARES_OPT_TRIES = 1) as long   *)
(* as its timeout timer runs.  The last conjunct is a timing assumption:   *)
(* among lookups that are restarted again and again, some are answered, or *)
(* time out, before the next restart.                                      *)
(***************************************************************************)
EndLiveQuery == \E r \in Live, ok \in BOOLEAN : ResolveCb(r, ok)

Fairness ==
    /\ WF_vars(InitServices)
    /\ WF_vars(UrlChanged)
    /\ WF_vars(DnsTtlTimer)
    /\ WF_vars(phase = "exit" /\ cwmp_dns_clean)
    /\ \A r \in ResolverIds :
          /\ WF_vars(ResolverCleanTimer(r))
          /\ WF_vars(r \in Used /\ resolver_list[r].timeout = "run"
                     /\ \E ok \in BOOLEAN : ResolveCb(r, ok))
    /\ SF_vars(EndLiveQuery)

FairSpec == Spec /\ Fairness

-----------------------------------------------------------------------------
(***************************************************************************)
(* Properties.                                                             *)
(***************************************************************************)

\* Every static variable of cwmpd_dns.c, and every resolver, has its type.
TypeOK ==
    /\ phase \in {"init", "up", "exit", "down"}
    /\ url \in Hosts
    /\ urlEvents \in Nat
    /\ ACSIPLIST \in Hosts \cup {NoHost}
    /\ send_bootstrap \in BOOLEAN
    /\ dns_ttl_timer \in BOOLEAN
    /\ resolver_list \in [ResolverIds -> resolver_t \cup {NoResolver}]
    /\ target \in Hosts \cup {NoHost}
    /\ owed \in BOOLEAN
    /\ changes \in Nat
    /\ bootstraps \in Nat
    /\ faults \in Nat

\* Resolution never dies: while the ACS URL is a name and its notifications
\* were handled, a lookup that will be used is pending or the timer is armed.
\* This is the "bad state (e.g., cwmpd stops attempting DNS resolution)" that
\* client_startSession guards against.
ResolutionAlive ==
    phase = "up" /\ url \in Names /\ urlEvents = 0 => dns_ttl_timer \/ Live # {}

\* mark_resolvers_as_dirty leaves at most one query whose result is used,
\* however lookups overlap; it is for the host looked up last, which, once
\* the notifications are handled and if no bus read failed, is that of the URL.
OneLiveQuery ==
    /\ \A r, s \in Live : r = s
    /\ \A r \in Live : resolver_list[r].host = target
    /\ phase = "up" /\ urlEvents = 0 /\ faults = 0 => target = url

\* No query waits for ever and no resolver leaks: the clean timer will free it,
\* or its query is pending and has its periodic timeout timer running
\* (cwmp_dns_ares_sock_cb stops that one for good).
ResolversEnd ==
    \A r \in Used :
        \/ resolver_list[r].clean
        \/ resolver_list[r].query /\ resolver_list[r].timeout = "run"

\* The result of a lookup for a host that is no longer the one being looked
\* up never reaches ACSIPList ("The result of dirty resolver is ignored").
StaleResultIgnored ==
    [][ACSIPLIST' # ACSIPLIST => ACSIPLIST' \in {NoHost, target'}]_vars

\* A bootstrap inform is sent at most once per change of the URL.
NoSpuriousBootstrap ==
    bootstraps + urlEvents + (IF send_bootstrap THEN 1 ELSE 0) <= changes

\* "if URL changes, trigger a bootstrap inform": while cwmpd runs, unless
\* the new URL has no host.  A failed read of the URL breaks this.
UrlChangeTriggersBootstrap ==
    owed ~> (~owed \/ url = EmptyHost \/ phase = "down")

\* The same as long as no read of the URL fails: a lookup that is superseded,
\* fails or is destroyed hands the bootstrap on to the next.
BootstrapUnlessBusFails ==
    owed /\ faults = 0
        ~> (~owed \/ url = EmptyHost \/ phase = "down" \/ faults > 0)

\* For as long as the URL stays a name, it is looked up again and again.
KeepsResolving ==
    <>[](phase = "up" /\ url \in Names /\ urlEvents = 0)
        => []<>(\E r \in Used : /\ ~resolver_list[r].dirty
                              /\ resolver_list[r].host = url)

=============================================================================
