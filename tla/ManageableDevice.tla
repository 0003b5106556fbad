-------------------------- MODULE ManageableDevice --------------------------
(***************************************************************************)
(* ManagementServer.ManageableDevice: which hosts of the LAN are           *)
(* manageable devices (cwmp_plugin_manageable_device.c).                   *)
(*                                                                         *)
(* Two sources have to meet.  gMap tells which devices match the query,    *)
(* with their identity (OUI, serial number, product class) and the address *)
(* of one interface; Hosts.Host tells which host has that address, perhaps *)
(* later.  A device without a host is cached until its host shows up.      *)
(*                                                                         *)
(* gMap, Hosts and the bus are external, and their events reach the plugin *)
(* in two queues.  A host is added without an address, gets the address of *)
(* one device, and may be deleted; two hosts do not have one address.  A   *)
(* deleted host leaves the lists that refer to it (set_object_ref), and a  *)
(* list cannot be made to refer to it any more (check_is_object_ref).      *)
(***************************************************************************)
EXTENDS Naturals, Sequences, FiniteSets, Functions

CONSTANTS
    Keys,           \* devices of gMap: one interface each
    Identity,       \* the physical device of a key
    Hosts,
    NONE,
    MaxFlips,       \* bound: changes of the devices that match
    MaxFailures     \* bound: calls that fail, ends of the plugin

Devices == {Identity[k] : k \in Keys}

ASSUME DeviceAssumption ==
    /\ IsFiniteSet(Keys) /\ DOMAIN Identity = Keys
    /\ "none" \notin Keys /\ "deleted" \notin Keys
    /\ NONE \notin Hosts /\ \A d \in SUBSET Hosts : NONE # d
    /\ MaxFlips \in Nat /\ MaxFailures \in Nat

VARIABLES
    phys,           \* the device whose PhysAddress a host has, none, or deleted
    active,         \* devices that match the query
    stage,          \* off, init, host (retry timer), gmap (retry timer) or on
    gevents,        \* events of gMap on their way
    hevents,        \* changes of PhysAddress on their way
    table,          \* device -> the hosts of its instance, or NONE
    md_requests,    \* the cache: the devices, in the order they were cached
    cachedHost,     \* the Host in the deviceInfo of a cached device, or NONE
    matched,        \* ghost: devices the plugin was told of
    missed,         \* ghost: matched devices whose host is not looked for any more:
                    \* a call failed, or its host was deleted
    stale,          \* ghost: hosts a failure left in
    emptied,        \* ghost: devices whose instance lost its last host to a deletion
    flips, failures \* ghost: counters

events == <<gevents, hevents>>
instances == <<table, emptied>>
cache == <<md_requests, cachedHost>>
deviceVars == <<phys, active, stage, events, instances, cache, matched, missed, stale, flips, failures>>

HostsOf(k) == {h \in Hosts : phys[h] = k}
GEvents == [key : Keys, action : {"start", "stop"}]
HEvents == [host : Hosts, to : Keys]

DevicesInit ==
    /\ phys = [h \in Hosts |-> "none"]
    /\ active = {} /\ stage = "init"
    /\ gevents = <<>> /\ hevents = <<>>
    /\ table = [d \in Devices |-> NONE]
    /\ md_requests = <<>> /\ cachedHost = [k \in Keys |-> NONE]
    /\ matched = {} /\ missed = {} /\ stale = {} /\ emptied = {}
    /\ flips = 0 /\ failures = 0

\* The call that fails in a step, or "none".
CallFails(call) ==
    /\ call = "none" \/ failures < MaxFailures
    /\ failures' = IF call = "none" THEN failures ELSE failures + 1

-----------------------------------------------------------------------------
(***************************************************************************)
(* gMap and Hosts.                                                         *)
(***************************************************************************)

Flip(k, action) ==
    /\ flips < MaxFlips /\ flips' = flips + 1
    /\ gevents' = IF stage = "on" THEN Append(gevents, [key |-> k, action |-> action]) ELSE gevents
    /\ UNCHANGED <<phys, stage, hevents, instances, cache, matched, missed, stale, failures>>

DeviceMatches(k) == k \notin active /\ active' = active \cup {k} /\ Flip(k, "start")
DeviceLeaves(k) == k \in active /\ active' = active \ {k} /\ Flip(k, "stop")

HostSet(h, k) ==
    /\ phys[h] = "none" /\ HostsOf(k) = {}
    /\ phys' = [phys EXCEPT ![h] = k]
    /\ hevents' = IF stage \in {"gmap", "on"} THEN Append(hevents, [host |-> h, to |-> k]) ELSE hevents
    /\ UNCHANGED <<active, stage, gevents, instances, cache, matched, missed, stale, flips, failures>>

\* A host that takes its place is looked for only if the device is in the cache.
HostDeleted(h) ==
    /\ phys[h] \in Keys
    /\ phys' = [phys EXCEPT ![h] = "deleted"]
    /\ table' = [d \in Devices |-> IF table[d] = NONE THEN NONE ELSE table[d] \ {h}]
    /\ emptied' = emptied \cup {d \in Devices : table[d] = {h}}
    /\ missed' = IF phys[h] \in matched \ Range(md_requests) THEN missed \cup {phys[h]} ELSE missed
    /\ UNCHANGED <<active, stage, events, cache, matched, stale, flips, failures>>

-----------------------------------------------------------------------------
(***************************************************************************)
(* Start.                                                                  *)
(***************************************************************************)

\* The orders in which gMap may tell what matches.
Told(S) == {s \in [1 .. Cardinality(S) -> [key : S, action : {"start"}]] :
              {s[i].key : i \in DOMAIN s} = S}

\* cwmp_plugin_try_add_manageabledevice_subscriptions: the subscription to
\* Hosts, tried again by a timer until it succeeds; only then the query.
Subscribe ==
    /\ stage \in {"init", "host"}
    /\ \/ CallFails("subscribe") /\ stage' = "host"
       \/ CallFails("none") /\ stage' = "gmap"
    /\ UNCHANGED <<phys, active, events, instances, cache, matched, missed, stale, flips>>

\* cwmp_plugin_try_open_gmap_query, with a timer of its own.
OpenQuery ==
    /\ stage = "gmap"
    /\ \/ CallFails("query") /\ UNCHANGED <<stage, gevents>>
       \/ CallFails("none") /\ stage' = "on" /\ gevents' \in Told(active)
    /\ UNCHANGED <<phys, active, hevents, instances, cache, matched, missed, stale, flips>>

\* cwmp_plugin_manageabledevice_init gives up when gMap is not there yet.
GiveUp ==
    /\ stage = "init"
    /\ CallFails("gmap") /\ stage' = "off"
    /\ UNCHANGED <<phys, active, events, instances, cache, matched, missed, stale, flips>>

-----------------------------------------------------------------------------
(***************************************************************************)
(* The events.                                                             *)
(***************************************************************************)

\* cwmp_plugin_add_manageable_device: the hosts join the instance of the device.
Listed(d, S) == [table EXCEPT ![d] = IF @ = NONE THEN S ELSE @ \cup S]

List(d, S) == table' = Listed(d, S) /\ emptied' = emptied \ {d}

\* Fault: the instance goes with its first host.
Unlisted_Whole(d, h) == [table EXCEPT ![d] = NONE]

\* cwmp_plugin_update_manageable_device: the instance goes with its last host.
Unlisted(d, h) == [table EXCEPT ![d] = IF @ \ {h} = {} THEN NONE ELSE @ \ {h}]

\* The first entry of k leaves the cache.
Uncached(k) ==
    LET mine == {i \in DOMAIN md_requests : md_requests[i] = k}
        first == CHOOSE i \in mine : \A j \in mine : i <= j
    IN  IF mine = {} THEN md_requests
        ELSE SubSeq(md_requests, 1, first - 1) \o SubSeq(md_requests, first + 1, Len(md_requests))

\* cwmp_plugin_clean_manageable_device_cache, cwmp_plugin_md_cache_free
Uncache(k) ==
    /\ md_requests' = Uncached(k)
    /\ cachedHost' = [cachedHost EXCEPT ![k] = NONE]

\* Fault: a device without host is not cached.
StartMatching_NotCached(k) ==
    /\ \E call \in {"none", "get", "add"} :
         /\ CallFails(call)
         /\ \/ /\ call = "none" /\ HostsOf(k) # {}
               /\ List(Identity[k], HostsOf(k))
               /\ UNCHANGED <<cache, missed>>
            \/ /\ call = "get" \/ (call = "none" /\ HostsOf(k) = {})
               /\ missed' = IF call = "get" THEN missed \cup {k} ELSE missed
               /\ UNCHANGED <<cache, instances>>
            \/ /\ call = "add" /\ HostsOf(k) # {}
               /\ missed' = missed \cup {k}
               /\ UNCHANGED <<instances, cache>>
    /\ matched' = matched \cup {k}
    /\ stale' = stale \ HostsOf(k)

\* cwmp_plugin_manageable_query, gmap_query_expression_start_matching.  When
\* the hosts cannot be read the device is cached as if it had none.
StartMatching(k) ==
    /\ \E call \in {"none", "get", "add"} :
         /\ CallFails(call)
         /\ \/ /\ call = "none" /\ HostsOf(k) # {}
               /\ List(Identity[k], HostsOf(k))
               /\ UNCHANGED <<cache, missed>>
            \/ /\ call = "get" \/ (call = "none" /\ HostsOf(k) = {})
               /\ md_requests' = Append(md_requests, k)
               /\ cachedHost' = [cachedHost EXCEPT ![k] = NONE]
               /\ missed' = IF call = "get" THEN missed \cup {k} ELSE missed
               /\ UNCHANGED instances
            \/ /\ call = "add" /\ HostsOf(k) # {}
               /\ missed' = missed \cup {k}
               /\ UNCHANGED <<instances, cache>>
    /\ matched' = matched \cup {k}
    /\ stale' = stale \ HostsOf(k)

\* Fault: only the cache is looked at.
StopMatching_OnlyCache(k) ==
    /\ Uncache(k)
    /\ CallFails("none")
    /\ matched' = matched \ {k} /\ missed' = missed \ {k}
    /\ UNCHANGED <<instances, stale>>

\* gmap_query_expression_stop_matching: out of the cache, then out of the
\* instance that refers to the host of the device.  Nothing is removed when
\* the device is gone from gMap or a call fails.
StopMatching(k) ==
    /\ Uncache(k)
    /\ \E call \in {"none", "get"} :
         /\ CallFails(call)
         /\ LET Of(h) == {d \in Devices : table[d] # NONE /\ h \in table[d]}
            IN  \/ /\ call = "none"
                   /\ \E h \in HostsOf(k) : \E d \in Of(h) : table' = Unlisted(d, h)
                   /\ UNCHANGED stale
                \/ /\ call = "none" /\ \A h \in HostsOf(k) : Of(h) = {}
                   /\ UNCHANGED <<table, stale>>
                \/ /\ call = "get"
                   /\ stale' = stale \cup HostsOf(k)
                   /\ UNCHANGED table
    /\ matched' = matched \ {k} /\ missed' = missed \ {k}
    /\ UNCHANGED emptied

ManageableQuery ==
    /\ gevents # <<>> /\ gevents' = Tail(gevents)
    /\ LET e == Head(gevents)
       IN  IF e.action = "start" THEN StartMatching(e.key) ELSE StopMatching(e.key)
    /\ UNCHANGED <<phys, active, stage, hevents, flips>>

\* cwmp_plugin_host_phys_changed: the host of a cached device is listed.  If a
\* call fails, or the host is deleted by now, the device stays in the cache and
\* so does the Host that was put in its deviceInfo: amxc_var_add_new_key does
\* not replace it, so that every later notification tries that host again.
HostPhysChanged ==
    /\ hevents # <<>> /\ hevents' = Tail(hevents)
    /\ LET e == Head(hevents)
           cached == e.to \in Range(md_requests)
           host == IF cachedHost[e.to] = NONE THEN e.host ELSE cachedHost[e.to]
       IN  \/ /\ cached /\ phys[host] = e.to
              /\ CallFails("none")
              /\ List(Identity[e.to], {host})
              /\ Uncache(e.to)
              /\ missed' = missed \ {e.to}
           \/ /\ cached
              /\ IF phys[host] = e.to THEN CallFails("add") ELSE CallFails("none")
              /\ cachedHost' = [cachedHost EXCEPT ![e.to] = host]
              /\ missed' = missed \cup {e.to}
              /\ UNCHANGED <<instances, md_requests>>
           \/ /\ ~cached
              /\ CallFails("none")
              /\ UNCHANGED <<instances, cache, missed>>
    /\ UNCHANGED <<phys, active, stage, gevents, matched, stale, flips>>

\* The plugin ends (cwmp_plugin_manageabledevice_clean) and starts again; the
\* table is not persistent.
PluginRestarts ==
    /\ CallFails("plugin")
    /\ stage' = "init" /\ gevents' = <<>> /\ hevents' = <<>>
    /\ table' = [d \in Devices |-> NONE]
    /\ md_requests' = <<>> /\ cachedHost' = [k \in Keys |-> NONE]
    /\ matched' = {} /\ missed' = {} /\ stale' = {} /\ emptied' = {}
    /\ UNCHANGED <<phys, active, flips>>

DevicesNext ==
    \/ \E k \in Keys : DeviceMatches(k) \/ DeviceLeaves(k)
    \/ \E h \in Hosts : HostDeleted(h) \/ \E k \in Keys : HostSet(h, k)
    \/ Subscribe \/ OpenQuery \/ GiveUp
    \/ ManageableQuery \/ HostPhysChanged
    \/ PluginRestarts

DevicesSpec == DevicesInit /\ [][DevicesNext]_deviceVars

\* The retry timers fire, and the event loop serves the events.
DevicesFairSpec ==
    /\ DevicesSpec
    /\ WF_deviceVars(Subscribe) /\ WF_deviceVars(OpenQuery)
    /\ WF_deviceVars(ManageableQuery) /\ WF_deviceVars(HostPhysChanged)

-----------------------------------------------------------------------------
\* The table, the cache and the two queues have their types.
DevicesTypeOK ==
    /\ phys \in [Hosts -> Keys \cup {"none", "deleted"}]
    /\ active \subseteq Keys
    /\ stage \in {"off", "init", "host", "gmap", "on"}
    /\ gevents \in Seq(GEvents) /\ hevents \in Seq(HEvents)
    /\ table \in [Devices -> {NONE} \cup SUBSET Hosts]
    /\ md_requests \in Seq(Keys) /\ cachedHost \in [Keys -> Hosts \cup {NONE}]
    /\ matched \subseteq Keys /\ missed \subseteq matched /\ stale \subseteq Hosts
    /\ emptied \subseteq Devices
    /\ flips \in 0 .. MaxFlips /\ failures \in 0 .. MaxFailures

\* In whatever order gMap and Hosts report it: once the plugin knows a device,
\* the host of the device is listed, or the device waits in the cache for a
\* notification that is on its way, unless a call failed or a host of the
\* device was deleted: one that was listed, or one whose notification was
\* handled only after it had gone, which spoils the entry of the cache.
HostIsListedOrComing ==
    \A k \in matched \ missed : \A h \in HostsOf(k) :
        \/ table[Identity[k]] # NONE /\ h \in table[Identity[k]]
        \/ k \in Range(md_requests) /\ [host |-> h, to |-> k] \in Range(hevents)

\* A host is listed for its own device, and only while the device matches,
\* unless a call failed when the device stopped.
ListedHostMatches ==
    \A d \in Devices : table[d] # NONE =>
        \A h \in table[d] : /\ phys[h] \in Keys /\ Identity[phys[h]] = d
                            /\ phys[h] \in matched \/ h \in stale

\* The cache has no device twice and none that stopped: a host that shows up
\* later does not bring back a device that left.
CacheIsOfMatched ==
    /\ Range(md_requests) \subseteq matched
    /\ \A i, j \in DOMAIN md_requests : md_requests[i] = md_requests[j] => i = j

\* An instance goes with its last host.  Only the deletion of the host itself
\* leaves one behind, and that one stays when its device leaves, which has no
\* host to be found by any more.
InstanceHasHost == \A d \in Devices : table[d] = {} => d \in emptied

\* Nothing that stopped matching is listed or cached, and no instance is left
\* of it, unless a call failed or the host was deleted before the device left.
OnlyMatching == ListedHostMatches /\ CacheIsOfMatched /\ InstanceHasHost

\* A device that stays and keeps its host is listed in the end, whatever the
\* order in which the services appear, unless a call failed, a host it had
\* before was deleted, or the plugin gave up at its start.
DeviceIsListed ==
    \A k \in Keys, h \in Hosts :
        <>[](k \in active /\ phys[h] = k) =>
            <>[](\/ stage = "off" \/ k \in missed
                 \/ table[Identity[k]] # NONE /\ h \in table[Identity[k]])

=============================================================================
