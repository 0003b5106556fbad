-------------------------- MODULE CwmpServer_proofs --------------------------
(***************************************************************************)
(* Proofs about the connection request server, for any addresses, ports,   *)
(* paths and limits and any number of changes, faults and requests.        *)
(***************************************************************************)
EXTENDS CwmpServer, FiniteSetTheorems, TLAPS

Switch == {"EnableCWMP=1", "EnableCWMP=0"}

\* The list is finite and within the limit while the limits can be read.
ListBounded ==
    /\ IsFiniteSet(connection_timestamp_list)
    /\ faults = 0 => Cardinality(connection_timestamp_list) <= 2 * MaxConnectionRequest + 1

\* Every request of the last period is in the list, none is in the future.
Remembered ==
    /\ \A a \in accepted : a.t <= now
    /\ faults = 0 => Recent \subseteq connection_timestamp_list

\* A path is served only by a cwmpd that is enabled or about to be told.
PathServed ==
    g_randomCpeUrl # NULL =>
        cwmpd = "up" /\ (EnableCWMP \/ Pending({"EnableCWMP=0"}))

\* The last switch in the queue is the current one.
LastSwitch ==
    \A i \in 1..Len(events) :
        /\ events[i] \in Switch
        /\ \A j \in (i + 1)..Len(events) : events[j] \notin Switch
        => (events[i] = "EnableCWMP=1") = EnableCWMP

\* A cwmpd that does not run has nothing.
DownIsEmpty ==
    /\ cwmpd = "down" => events = <<>>
    /\ cwmpd # "up" => lws_server_vhost = NULL

\* What the listener says about the port and the address told of, up to the
\* notifications due.
ListenerFollows ==
    cwmpd = "up" =>
        /\ lws_server_vhost # NULL /\ ~Pending(Restarting) =>
              /\ told # DEFAULT_CRH
              /\ lws_server_vhost = [host |-> told, port |-> ConnRequestPort]
        /\ lws_server_vhost # NULL /\ ~Pending(Switch) => EnableCWMP
        /\ lws_server_vhost = NULL /\ ~Pending(Restarting) /\ ~Pending(Switch) =>
              ~EnableCWMP \/ told = DEFAULT_CRH

\* A listener is leaked only by a switch, and every switch was seen.
SwitchSeen ==
    /\ leaked # {} => switchedOn
    /\ Pending({"EnableCWMP=1"}) => switchedOn

\* The inductive invariant.
IInv ==
    /\ TypeOK
    /\ ListBounded
    /\ Remembered
    /\ PathServed
    /\ LastSwitch
    /\ DownIsEmpty
    /\ ListenerFollows
    /\ SwitchSeen

-----------------------------------------------------------------------------
\* The queue after a notification is added.
LEMMA Added ==
  ASSUME events \in Seq(Keys), NEW key \in Keys, events' = Append(events, key)
  PROVE  /\ events' \in Seq(Keys)
         /\ Len(events') = Len(events) + 1
         /\ events'[Len(events')] = key
         /\ \A i \in 1..Len(events) : events'[i] = events[i]
  OBVIOUS

\* What is due after a notification is added.
LEMMA AddedPending ==
  ASSUME events \in Seq(Keys), NEW key \in Keys, events' = Append(events, key),
         NEW K
  PROVE  Pending(K)' <=> Pending(K) \/ key \in K
<1>1. /\ Len(events') = Len(events) + 1
      /\ events'[Len(events')] = key
      /\ \A i \in 1..Len(events) : events'[i] = events[i]
  BY Added
<1>2. Len(events) \in Nat
  OBVIOUS
<1> QED
  BY <1>1, <1>2 DEF Pending

\* The queue after its first notification is handled.
LEMMA Handled ==
  ASSUME events \in Seq(Keys), events # <<>>
  PROVE  /\ Head(events) \in Keys
         /\ Head(events) = events[1]
         /\ Len(events) \in Nat /\ Len(events) > 0
         /\ Tail(events) \in Seq(Keys)
         /\ Len(Tail(events)) = Len(events) - 1
         /\ \A i \in 1..Len(Tail(events)) : Tail(events)[i] = events[i + 1]
  OBVIOUS

\* What is due after the first notification is handled.
LEMMA HandledPending ==
  ASSUME events \in Seq(Keys), events # <<>>, events' = Tail(events), NEW K
  PROVE  Pending(K) <=> Pending(K)' \/ Head(events) \in K
<1>1. /\ Head(events) = events[1]
      /\ Len(events) \in Nat /\ Len(events) > 0
      /\ Len(events') = Len(events) - 1
      /\ \A i \in 1..Len(events') : events'[i] = events[i + 1]
  BY Handled
<1>2. ASSUME Pending(K), Head(events) \notin K PROVE Pending(K)'
  <2>1. PICK i \in 1..Len(events) : events[i] \in K
    BY <1>2 DEF Pending
  <2>2. i - 1 \in 1..Len(events')
    BY <1>1, <1>2, <2>1
  <2>3. events'[i - 1] = events[i]
    BY <1>1, <2>1, <2>2
  <2> QED
    BY <2>1, <2>2, <2>3 DEF Pending
<1>3. ASSUME Pending(K)' PROVE Pending(K)
  <2>1. PICK i \in 1..Len(events') : events'[i] \in K
    BY <1>3 DEF Pending
  <2>2. i + 1 \in 1..Len(events) /\ events[i + 1] = events'[i]
    BY <1>1, <2>1
  <2> QED
    BY <2>1, <2>2 DEF Pending
<1>4. ASSUME Head(events) \in K PROVE Pending(K)
  BY <1>1, <1>4 DEF Pending
<1> QED
  BY <1>2, <1>3, <1>4

\* LastSwitch survives the handling of the first notification.
LEMMA HandledSwitch ==
  ASSUME events \in Seq(Keys), events # <<>>, events' = Tail(events),
         LastSwitch, EnableCWMP' = EnableCWMP
  PROVE  LastSwitch'
<1>1. /\ Len(events) \in Nat /\ Len(events) > 0
      /\ Len(events') = Len(events) - 1
      /\ \A i \in 1..Len(events') : events'[i] = events[i + 1]
  BY Handled
<1>2. SUFFICES ASSUME NEW i \in 1..Len(events'), events'[i] \in Switch,
                      \A j \in (i + 1)..Len(events') : events'[j] \notin Switch
               PROVE  (events'[i] = "EnableCWMP=1") = EnableCWMP
  BY DEF LastSwitch
<1>3. i + 1 \in 1..Len(events) /\ events[i + 1] = events'[i]
  BY <1>1
<1>4. ASSUME NEW j \in (i + 2)..Len(events) PROVE events[j] \notin Switch
  <2>1. j - 1 \in (i + 1)..Len(events') /\ events'[j - 1] = events[j]
    BY <1>1, <1>4
  <2> QED
    BY <1>2, <2>1
<1> QED
  BY <1>2, <1>3, <1>4 DEF LastSwitch

\* A first notification that is the only switch due says what is current.
LEMMA FirstIsLast ==
  ASSUME events \in Seq(Keys), events # <<>>, events' = Tail(events),
         LastSwitch, Head(events) \in Switch, ~Pending(Switch)'
  PROVE  (Head(events) = "EnableCWMP=1") = EnableCWMP
<1>1. /\ Head(events) = events[1]
      /\ Len(events) \in Nat /\ Len(events) > 0
      /\ Len(events') = Len(events) - 1
      /\ \A i \in 1..Len(events') : events'[i] = events[i + 1]
  BY Handled
<1>2. ASSUME NEW j \in 2..Len(events) PROVE events[j] \notin Switch
  <2>1. j - 1 \in 1..Len(events') /\ events'[j - 1] = events[j]
    BY <1>1, <1>2
  <2> QED
    BY <2>1 DEF Pending
<1> QED
  BY <1>1, <1>2 DEF LastSwitch

-----------------------------------------------------------------------------
\* Recent requests are among those let in.
LEMMA RecentSubset == Recent \subseteq accepted
  BY DEF Recent

\* The invariant with the server gone.
LEMMA ExitStep ==
  ASSUME IInv, Exit, UNCHANGED <<datamodel, now, changes, requests, sessions>>,
         faults' \in Nat
  PROVE  IInv'
<1> USE DEF Exit, datamodel, address
<1>0. switchedOn' \in BOOLEAN
  BY Zenon
<1>1. TypeOK'
  BY <1>0 DEF IInv, TypeOK
<1>2. ListBounded'
  <2>1. IsFiniteSet({}) /\ Cardinality({}) = 0
    BY FS_EmptySet
  <2> QED
    BY <2>1, ServerAssumption DEF ListBounded
<1>3. Remembered'
  BY DEF Remembered, Recent
<1>4. PathServed'
  BY DEF PathServed
<1>5. LastSwitch'
  BY DEF LastSwitch
<1>6. DownIsEmpty' /\ ListenerFollows' /\ SwitchSeen'
  BY DEF DownIsEmpty, ListenerFollows, SwitchSeen, Pending
<1> QED
  BY <1>1, <1>2, <1>3, <1>4, <1>5, <1>6 DEF IInv

\* A server that starts over s, where s is the server as it is or stopped and
\* the queue is evs.
LEMMA StartStep ==
  ASSUME IInv, NEW s, NEW evs \in Seq(Keys),
         cwmp_server_start(s, evs),
         UNCHANGED <<datamodel, now, changes, requests, sessions>>,
         events' = evs => LastSwitch',
         events' = evs => (Pending({"EnableCWMP=1"})' => Pending({"EnableCWMP=1"})),
         \/ s = Stopped
         \/ /\ s = Current
            /\ cwmpd = "up"
            /\ Pending({"EnableCWMP=1"})
            /\ events' = evs => (Pending(Restarting)' <=> Pending(Restarting))
  PROVE  IInv'
<1> USE DEF datamodel, address
<1>1. CASE ~EnableCWMP /\ Exit /\ UNCHANGED faults
  BY <1>1, ExitStep DEF IInv, TypeOK
<1>2. CASE Fault /\ Exit
  <2>1. faults' \in Nat
    BY <1>2 DEF Fault, IInv, TypeOK
  <2> QED
    BY <1>2, <2>1, ExitStep
<1>3. CASE /\ EnableCWMP
           /\ LocalIPAddress = DEFAULT_CRH
           /\ lws_server_vhost' = s.vhost
           /\ g_randomCpeUrl' = s.url
           /\ connection_timestamp_list' = s.stamps
           /\ accepted' = s.accepted
           /\ cwmpd' = "up"
           /\ events' = evs
           /\ told' = IF s.vhost = NULL THEN LocalIPAddress ELSE told
           /\ UNCHANGED <<leaked, faults, switchedOn>>
  <2>1. \/ /\ lws_server_vhost' = lws_server_vhost
           /\ g_randomCpeUrl' = g_randomCpeUrl
           /\ connection_timestamp_list' = connection_timestamp_list
           /\ accepted' = accepted
           /\ cwmpd = "up"
           /\ Pending(Restarting)' <=> Pending(Restarting)
           /\ lws_server_vhost # NULL => told' = told
        \/ /\ lws_server_vhost' = NULL
           /\ g_randomCpeUrl' = NULL
           /\ connection_timestamp_list' = {}
           /\ accepted' = {}
    BY <1>3 DEF Current, Stopped
  <2>2. TypeOK'
    BY <1>3, <2>1 DEF IInv, TypeOK
  <2>3. IsFiniteSet({}) /\ Cardinality({}) = 0
    BY FS_EmptySet
  <2>4. ListBounded'
    <3>1. CASE connection_timestamp_list' = connection_timestamp_list
      BY <1>3, <3>1 DEF IInv, ListBounded
    <3>2. CASE connection_timestamp_list' = {}
      BY <3>2, <2>3, ServerAssumption DEF ListBounded
    <3> QED
      BY <2>1, <3>1, <3>2
  <2>5. Remembered'
    BY <1>3, <2>1 DEF IInv, Remembered, Recent
  <2>6. PathServed'
    BY <1>3 DEF PathServed
  <2>7. LastSwitch' /\ DownIsEmpty'
    BY <1>3 DEF DownIsEmpty
  <2>8. ListenerFollows'
    <3>0. lws_server_vhost' = NULL => told' = DEFAULT_CRH
      BY <1>3
    <3>1. CASE /\ lws_server_vhost' = lws_server_vhost /\ lws_server_vhost # NULL
               /\ told' = told
               /\ cwmpd = "up"
               /\ Pending(Restarting)' <=> Pending(Restarting)
      BY <1>3, <3>1 DEF IInv, ListenerFollows
    <3>2. CASE lws_server_vhost' = NULL
      BY <1>3, <3>0, <3>2 DEF ListenerFollows
    <3> QED
      BY <2>1, <3>1, <3>2
  <2>9. SwitchSeen'
    BY <1>3 DEF IInv, SwitchSeen
  <2> QED
    BY <2>2, <2>4, <2>5, <2>6, <2>7, <2>8, <2>9 DEF IInv
<1>4. CASE /\ EnableCWMP
           /\ LocalIPAddress # DEFAULT_CRH
           /\ g_randomCpeUrl' = ConnRequestPath
           /\ connection_timestamp_list' = {}
           /\ accepted' = {}
           /\ lws_server_vhost' = [host |-> LocalIPAddress, port |-> ConnRequestPort]
           /\ leaked' = IF s.vhost = NULL THEN leaked ELSE leaked \cup {s.vhost}
           /\ cwmpd' = "up"
           /\ events' = evs
           /\ told' = LocalIPAddress
           /\ UNCHANGED <<faults, switchedOn>>
  <2>1. s.vhost \in {lws_server_vhost, NULL}
    BY DEF Current, Stopped
  <2>2. [host |-> LocalIPAddress, port |-> ConnRequestPort] \in Listeners
    BY <1>4 DEF IInv, TypeOK, Listeners
  <2>3. leaked' \subseteq Listeners
    BY <1>4, <2>1 DEF IInv, TypeOK
  <2>4. TypeOK'
    BY <1>4, <2>2, <2>3 DEF IInv, TypeOK
  <2>5. IsFiniteSet({}) /\ Cardinality({}) = 0
    BY FS_EmptySet
  <2>6. ListBounded' /\ Remembered'
    BY <1>4, <2>5, ServerAssumption DEF ListBounded, Remembered, Recent
  <2>7. PathServed' /\ LastSwitch' /\ DownIsEmpty'
    BY <1>4 DEF PathServed, DownIsEmpty
  <2>8. ListenerFollows'
    BY <1>4, <2>2, ServerAssumption DEF ListenerFollows
  <2>9. SwitchSeen'
    <3>1. s.vhost = NULL \/ Pending({"EnableCWMP=1"})
      BY DEF Stopped
    <3> QED
      BY <1>4, <3>1 DEF IInv, SwitchSeen
  <2> QED
    BY <2>4, <2>6, <2>7, <2>8, <2>9 DEF IInv
<1> QED
  BY <1>1, <1>2, <1>3, <1>4 DEF cwmp_server_start

\* The server stopped on the switch that asks for it.
LEMMA StopStep ==
  ASSUME IInv, events # <<>>, Head(events) = "EnableCWMP=0",
         cwmp_server_stop(Tail(events)),
         UNCHANGED <<datamodel, now, changes, requests, sessions>>
  PROVE  IInv'
<1>1. events \in Seq(Keys) /\ events' = Tail(events) /\ EnableCWMP' = EnableCWMP
  BY DEF IInv, TypeOK, cwmp_server_stop, datamodel
<1>2. TypeOK'
  BY Handled, <1>1 DEF IInv, TypeOK, cwmp_server_stop, datamodel, address
<1>3. IsFiniteSet({}) /\ Cardinality({}) = 0
  BY FS_EmptySet
<1>4. ListBounded' /\ Remembered'
  BY <1>3, ServerAssumption DEF ListBounded, Remembered, Recent, cwmp_server_stop
<1>5. PathServed'
  BY DEF PathServed, cwmp_server_stop
<1>6. LastSwitch'
  BY <1>1, HandledSwitch DEF IInv
<1>7. DownIsEmpty'
  <2>1. cwmpd # "down"
    BY DEF IInv, DownIsEmpty
  <2> QED
    BY <2>1 DEF DownIsEmpty, cwmp_server_stop
<1>8. ListenerFollows'
  <2>1. ~Pending(Switch)' => ~EnableCWMP
    BY <1>1, FirstIsLast DEF IInv, Switch
  <2> QED
    BY <1>1, <2>1 DEF ListenerFollows, cwmp_server_stop
<1>9. SwitchSeen'
  <2>1. Pending({"EnableCWMP=1"})' => Pending({"EnableCWMP=1"})
    BY <1>1, HandledPending
  <2> QED
    BY <2>1 DEF IInv, SwitchSeen, cwmp_server_stop
<1> QED
  BY <1>2, <1>4, <1>5, <1>6, <1>7, <1>8, <1>9 DEF IInv

\* A notification handled.
LEMMA NotificationStep ==
  ASSUME IInv, HandleNotification
  PROVE  IInv'
<1>1. /\ cwmpd = "up"
      /\ events \in Seq(Keys) /\ events # <<>>
      /\ Head(events) \in Keys
      /\ Tail(events) \in Seq(Keys)
  BY Handled DEF HandleNotification, IInv, TypeOK
<1>2. UNCHANGED <<datamodel, now, changes, requests, sessions>>
  BY DEF HandleNotification
<1>3. EnableCWMP' = EnableCWMP /\ LocalIPAddress' = LocalIPAddress
      /\ ConnRequestPort' = ConnRequestPort
  BY <1>2 DEF datamodel, address
<1>4. events' = Tail(events) => LastSwitch'
  BY <1>1, <1>3, HandledSwitch DEF IInv
<1>5. ASSUME events' = Tail(events), NEW K
      PROVE  Pending(K) <=> Pending(K)' \/ Head(events) \in K
  BY <1>1, <1>5, HandledPending
<1>10. events' = Tail(events) => (Pending({"EnableCWMP=1"})' => Pending({"EnableCWMP=1"}))
  BY <1>5
<1>6. CASE Head(events) \in Restarting
  <2>1. cwmp_server_start(Stopped, Tail(events))
    BY <1>6 DEF HandleNotification, SystemConnectionHandleParameterChanged,
                cwmp_app_engineEventHandler, Restarting
  <2> QED
    BY <1>1, <1>2, <1>4, <1>10, <2>1, StartStep
<1>7. CASE Head(events) = "EnableCWMP=1"
  <2>1. cwmp_server_start(Current, Tail(events))
    BY <1>7 DEF HandleNotification, SystemConnectionHandleParameterChanged,
                cwmp_app_engineEventHandler, Restarting
  <2>2. events' = Tail(events) => (Pending(Restarting)' <=> Pending(Restarting))
    BY <1>5, <1>7 DEF Restarting
  <2>3. Pending({"EnableCWMP=1"})
    BY <1>1, <1>7, Handled DEF Pending
  <2> QED
    BY <1>1, <1>2, <1>4, <1>10, <2>1, <2>2, <2>3, StartStep
<1>8. CASE Head(events) = "EnableCWMP=0"
  <2>1. cwmp_server_stop(Tail(events))
    BY <1>8 DEF HandleNotification, SystemConnectionHandleParameterChanged,
                cwmp_app_engineEventHandler, Restarting
  <2> QED
    BY <1>1, <1>2, <1>4, <1>8, <2>1, StopStep
<1>9. CASE Head(events) = "ConnRequestPath"
  <2>1. events' = Tail(events) /\ UNCHANGED <<cwmpd, server, faults, told, switchedOn>>
    BY <1>9 DEF HandleNotification, SystemConnectionHandleParameterChanged,
                cwmp_app_engineEventHandler, Restarting
  <2>2. \A K \in {Restarting, Switch, {"EnableCWMP=0"}} : Pending(K)' <=> Pending(K)
    BY <1>5, <1>9, <2>1 DEF Restarting, Switch
  <2>3. TypeOK' /\ ListBounded' /\ Remembered'
    BY <1>1, <1>2, <2>1 DEF IInv, TypeOK, ListBounded, Remembered, Recent, server, datamodel,
                            address
  <2>4. PathServed' /\ DownIsEmpty'
    BY <1>1, <1>3, <2>1, <2>2 DEF IInv, PathServed, DownIsEmpty, server
  <2>5. ListenerFollows'
    BY <1>1, <1>3, <2>1, <2>2 DEF IInv, ListenerFollows, server
  <2>6. SwitchSeen'
    BY <1>10, <2>1 DEF IInv, SwitchSeen, server
  <2> QED
    BY <1>4, <2>1, <2>3, <2>4, <2>5, <2>6 DEF IInv
<1> QED
  BY <1>1, <1>6, <1>7, <1>8, <1>9 DEF Keys

\* The notification key tells what the step changes.
Tells(key) ==
    /\ key \in Keys
    /\ Changed(key)
    /\ EnableCWMP' \in BOOLEAN /\ LocalIPAddress' \in Hosts \cup {DEFAULT_CRH}
    /\ ConnRequestHost' \in Hosts \cup {DEFAULT_CRH} /\ UpdateConnRequestURL' \in BOOLEAN
    /\ ConnRequestPort' \in Ports /\ ConnRequestPath' \in Paths
    /\ \/ EnableCWMP' = EnableCWMP /\ key \notin Switch
       \/ /\ EnableCWMP' = ~EnableCWMP
          /\ key = IF EnableCWMP THEN "EnableCWMP=0" ELSE "EnableCWMP=1"
    /\ key \in Restarting \/ ConnRequestPort' = ConnRequestPort

\* A parameter changes.
LEMMA ChangeStep ==
  ASSUME IInv, NEW key, Tells(key)
  PROVE  IInv'
<1>0. /\ key \in Keys
      /\ Changed(key)
      /\ EnableCWMP' \in BOOLEAN /\ LocalIPAddress' \in Hosts \cup {DEFAULT_CRH}
      /\ ConnRequestHost' \in Hosts \cup {DEFAULT_CRH} /\ UpdateConnRequestURL' \in BOOLEAN
      /\ ConnRequestPort' \in Ports /\ ConnRequestPath' \in Paths
      /\ \/ EnableCWMP' = EnableCWMP /\ key \notin Switch
         \/ /\ EnableCWMP' = ~EnableCWMP
            /\ key = IF EnableCWMP THEN "EnableCWMP=0" ELSE "EnableCWMP=1"
      /\ key \in Restarting \/ ConnRequestPort' = ConnRequestPort
  BY DEF Tells
<1>1. /\ UNCHANGED <<cwmpd, lws_server_vhost, leaked, g_randomCpeUrl,
                     connection_timestamp_list, accepted, now, faults, requests, sessions>>
      /\ changes' \in Nat
      /\ EnableCWMP \in BOOLEAN
      /\ events \in Seq(Keys)
      /\ switchedOn' \in BOOLEAN /\ (switchedOn => switchedOn')
      /\ told' \in Hosts \cup {DEFAULT_CRH}
      /\ key \in Restarting \/ told' = told
  BY <1>0 DEF Changed, Written, server, IInv, TypeOK
<1>2. ListBounded' /\ Remembered'
  BY <1>0, <1>1 DEF IInv, ListBounded, Remembered, Recent
<1>3. CASE cwmpd = "down"
  <2>1. events' = events /\ events = <<>>
    BY <1>0, <1>3 DEF Changed, IInv, DownIsEmpty
  <2>2. TypeOK'
    BY <1>0, <1>1, <2>1 DEF IInv, TypeOK
  <2>3. PathServed'
    BY <1>0, <1>1, <1>3 DEF IInv, PathServed
  <2>4. LastSwitch'
    BY <1>0, <2>1 DEF LastSwitch
  <2>5. DownIsEmpty' /\ ListenerFollows'
    BY <1>0, <1>1, <1>3, <2>1 DEF IInv, DownIsEmpty, ListenerFollows
  <2>6. SwitchSeen'
    BY <1>1, <2>1 DEF IInv, SwitchSeen, Pending
  <2> QED
    BY <1>0, <1>2, <2>2, <2>3, <2>4, <2>5, <2>6 DEF IInv
<1>4. CASE cwmpd # "down"
  <2>1. events' = Append(events, key)
    BY <1>0, <1>4 DEF Changed
  <2>2. /\ events' \in Seq(Keys)
        /\ Len(events) \in Nat
        /\ Len(events') = Len(events) + 1
        /\ events'[Len(events')] = key
        /\ \A i \in 1..Len(events) : events'[i] = events[i]
    BY <1>0, <1>1, <2>1, Added
  <2>3. ASSUME NEW K PROVE Pending(K)' <=> Pending(K) \/ key \in K
    BY <1>0, <1>1, <2>1, AddedPending
  <2>4. TypeOK'
    BY <1>0, <1>1, <2>2 DEF IInv, TypeOK
  <2>5. Pending({"EnableCWMP=0"})' <=> Pending({"EnableCWMP=0"}) \/ key = "EnableCWMP=0"
    BY <1>0, <2>3
  <2>6. PathServed'
    BY <1>0, <1>1, <2>5 DEF IInv, PathServed
  <2>7. LastSwitch'
    <3>1. CASE key \in Switch
      <4>1. (key = "EnableCWMP=1") = EnableCWMP'
        BY <1>0, <1>1, <3>1 DEF Switch
      <4>2. SUFFICES ASSUME NEW i \in 1..Len(events'), events'[i] \in Switch,
                            \A j \in (i + 1)..Len(events') : events'[j] \notin Switch
                     PROVE  i = Len(events')
        BY <1>0, <2>2, <4>1 DEF LastSwitch
      <4> QED
        BY <1>0, <2>2, <3>1, <4>2
    <3>2. CASE key \notin Switch
      <4>1. EnableCWMP' = EnableCWMP
        BY <1>0, <3>2 DEF Switch
      <4>2. SUFFICES ASSUME NEW i \in 1..Len(events'), events'[i] \in Switch,
                            \A j \in (i + 1)..Len(events') : events'[j] \notin Switch
                     PROVE  (events'[i] = "EnableCWMP=1") = EnableCWMP
        BY <1>0, <4>1 DEF LastSwitch
      <4>3. i \in 1..Len(events) /\ events'[i] = events[i]
        BY <1>0, <2>2, <3>2, <4>2
      <4>4. \A j \in (i + 1)..Len(events) : events[j] \notin Switch
        BY <1>0, <2>2, <4>2, <4>3
      <4> QED
        BY <1>0, <4>2, <4>3, <4>4 DEF IInv, LastSwitch
    <3> QED
      BY <1>0, <3>1, <3>2
  <2>8. DownIsEmpty'
    BY <1>0, <1>1, <1>4 DEF IInv, DownIsEmpty
  <2>9. ListenerFollows'
    <3>1. /\ Pending(Restarting)' <=> Pending(Restarting) \/ key \in Restarting
          /\ Pending(Switch)' <=> Pending(Switch) \/ key \in Switch
      BY <1>0, <2>3
    <3>2. key \in Switch \/ EnableCWMP' = EnableCWMP
      BY <1>0 DEF Switch
    <3> QED
      BY <1>0, <1>1, <3>1, <3>2 DEF IInv, ListenerFollows
  <2>10. SwitchSeen'
    <3>1. Pending({"EnableCWMP=1"})' <=> Pending({"EnableCWMP=1"}) \/ key = "EnableCWMP=1"
      BY <2>3
    <3>2. key = "EnableCWMP=1" => switchedOn'
      BY <1>0, <1>4 DEF Changed
    <3> QED
      BY <1>1, <3>1, <3>2 DEF IInv, SwitchSeen
  <2> QED
    BY <1>0, <1>2, <2>4, <2>6, <2>7, <2>8, <2>9, <2>10 DEF IInv
<1> QED
  BY <1>0, <1>3, <1>4

\* An address is written, or the updates suspended, without cwmpd being told.
LEMMA SilentStep ==
  ASSUME IInv, Unannounced,
         LocalIPAddress' \in Hosts \cup {DEFAULT_CRH},
         ConnRequestHost' \in Hosts \cup {DEFAULT_CRH}, UpdateConnRequestURL' \in BOOLEAN,
         UNCHANGED <<EnableCWMP, ConnRequestPort, ConnRequestPath>>
  PROVE  IInv'
<1>1. /\ UNCHANGED <<EnableCWMP, ConnRequestPort, ConnRequestPath, cwmpd, events,
                     lws_server_vhost, leaked, g_randomCpeUrl, connection_timestamp_list,
                     accepted, now, faults, requests, sessions, told, switchedOn>>
      /\ changes' \in Nat
  BY DEF Unannounced, Written, server, IInv, TypeOK
<1>2. TypeOK' /\ ListBounded' /\ Remembered'
  BY <1>1 DEF IInv, TypeOK, ListBounded, Remembered, Recent
<1>3. \A K \in {Restarting, Switch, {"EnableCWMP=0"}, {"EnableCWMP=1"}} : Pending(K)' = Pending(K)
  BY <1>1 DEF Pending
<1>4. PathServed' /\ LastSwitch' /\ DownIsEmpty' /\ ListenerFollows' /\ SwitchSeen'
  BY <1>1, <1>3 DEF IInv, PathServed, LastSwitch, DownIsEmpty, ListenerFollows, SwitchSeen
<1> QED
  BY <1>2, <1>4 DEF IInv

\* The limiter: what a request leaves in the list.
LEMMA LimiterStep ==
  ASSUME IInv, NEW path \in Paths, NEW digest \in BOOLEAN, handle_request(path, digest)
  PROVE  /\ ListBounded' /\ Remembered'
         /\ connection_timestamp_list' \subseteq Stamps /\ accepted' \subseteq Stamps
         /\ faults' \in Nat /\ sessions' \in Nat
<1> DEFINE configured == [max |-> MaxConnectionRequest, freq |-> FreqConnectionRequest]
           stamp == [id |-> requests, t |-> now]
<1>1. PICK l \in {Defaults, configured} :
         /\ ReadLimits(l)
         /\ \/ /\ maxConnectionsReached(l)
               /\ connection_timestamp_list' = Kept(l)
               /\ UNCHANGED <<accepted, sessions>>
            \/ /\ ~maxConnectionsReached(l)
               /\ connection_timestamp_list' = Kept(l) \cup {stamp}
               /\ accepted' = accepted \cup {stamp}
               /\ sessions' \in {sessions, sessions + 1}
  BY DEF handle_request
<1>2. /\ l \in Limits
      /\ faults \in Nat /\ now \in Nat /\ sessions \in Nat /\ stamp \in Stamps
      /\ connection_timestamp_list \subseteq Stamps /\ accepted \subseteq Stamps
      /\ now' = now
  BY ServerAssumption DEF Limits, Stamps, IInv, TypeOK, handle_request
<1>3. faults' \in Nat /\ (faults' = 0 => faults = 0 /\ l = configured)
  BY <1>1, <1>2 DEF ReadLimits, Fault
<1>4. /\ Kept(l) \subseteq connection_timestamp_list
      /\ IsFiniteSet(connection_timestamp_list)
  BY DEF Kept, IInv, ListBounded
<1>5. /\ IsFiniteSet(Kept(l)) /\ Cardinality(Kept(l)) \in Nat
      /\ Cardinality(connection_timestamp_list) \in Nat
      /\ Cardinality(Kept(l)) <= Cardinality(connection_timestamp_list)
  BY <1>4, FS_Subset, FS_CardinalityType
<1>6. /\ IsFiniteSet(Kept(l) \cup {stamp})
      /\ Cardinality(Kept(l) \cup {stamp}) <= Cardinality(Kept(l)) + 1
  <2>1. /\ IsFiniteSet(Kept(l) \cup {stamp})
        /\ Cardinality(Kept(l) \cup {stamp}) =
              IF stamp \in Kept(l) THEN Cardinality(Kept(l)) ELSE Cardinality(Kept(l)) + 1
    <3> HIDE DEF stamp
    <3> QED
      BY <1>5, FS_AddElement, Zenon
  <2> QED
    BY <1>5, <2>1
<1>7. faults' = 0 => Recent \subseteq Kept(l)
  BY <1>3 DEF IInv, Remembered, Recent, Kept
<1>8. CASE /\ maxConnectionsReached(l)
           /\ connection_timestamp_list' = Kept(l)
           /\ UNCHANGED <<accepted, sessions>>
  <2>1. ListBounded'
    BY <1>3, <1>5, <1>8, ServerAssumption DEF IInv, ListBounded
  <2>2. Recent' = Recent
    BY <1>2, <1>8 DEF Recent
  <2>3. Remembered'
    BY <1>2, <1>7, <1>8, <2>2 DEF IInv, Remembered
  <2> QED
    BY <1>2, <1>3, <1>4, <1>8, <2>1, <2>3
<1>9. CASE /\ ~maxConnectionsReached(l)
           /\ connection_timestamp_list' = Kept(l) \cup {stamp}
           /\ accepted' = accepted \cup {stamp}
           /\ sessions' \in {sessions, sessions + 1}
  <2>1. faults' = 0 => Cardinality(Kept(l)) <= 2 * MaxConnectionRequest
    BY <1>3, <1>5, <1>9, ServerAssumption DEF maxConnectionsReached
  <2>2. ListBounded'
    <3>1. Cardinality(Kept(l) \cup {stamp}) \in Nat
      BY <1>6, FS_CardinalityType
    <3> QED
      BY <1>5, <1>6, <1>9, <2>1, <3>1, ServerAssumption DEF ListBounded
  <2>3. Recent' \subseteq Recent \cup {stamp}
    BY <1>2, <1>9 DEF Recent
  <2>4. Remembered'
    BY <1>2, <1>7, <1>9, <2>3 DEF IInv, Remembered
  <2> QED
    BY <1>2, <1>3, <1>4, <1>9, <2>2, <2>4
<1> QED
  BY <1>1, <1>8, <1>9

\* A connection request.
LEMMA RequestStep ==
  ASSUME IInv, NEW path \in Paths, NEW digest \in BOOLEAN, handle_request(path, digest)
  PROVE  IInv'
<1>1. UNCHANGED <<EnableCWMP, LocalIPAddress, ConnRequestHost, UpdateConnRequestURL,
                  ConnRequestPort, ConnRequestPath, cwmpd, events, lws_server_vhost, leaked,
                  g_randomCpeUrl, now, changes, told, switchedOn>>
  BY DEF handle_request, datamodel, address
<1>2. requests' \in Nat
  BY DEF handle_request, IInv, TypeOK
<1>3. TypeOK' /\ ListBounded' /\ Remembered'
  BY <1>1, <1>2, LimiterStep DEF IInv, TypeOK
<1>4. \A K \in {Restarting, Switch, {"EnableCWMP=0"}, {"EnableCWMP=1"}} : Pending(K)' = Pending(K)
  BY <1>1 DEF Pending
<1>5. PathServed' /\ LastSwitch' /\ DownIsEmpty' /\ ListenerFollows' /\ SwitchSeen'
  BY <1>1, <1>4 DEF IInv, PathServed, LastSwitch, DownIsEmpty, ListenerFollows, SwitchSeen
<1> QED
  BY <1>3, <1>5 DEF IInv

\* The clock moves.
LEMMA ClockStep ==
  ASSUME IInv, Tick \/ ClockSetBack
  PROVE  IInv'
<1>1. /\ UNCHANGED <<EnableCWMP, LocalIPAddress, ConnRequestHost, UpdateConnRequestURL,
                     ConnRequestPort, ConnRequestPath, cwmpd, events, lws_server_vhost,
                     leaked, g_randomCpeUrl, connection_timestamp_list, faults, requests,
                     sessions, told, switchedOn>>
      /\ now \in Nat /\ now' \in Nat /\ changes' \in Nat
      /\ accepted \subseteq Stamps
      /\ (now' = now + 1 /\ accepted' = accepted) \/ accepted' = {}
  BY DEF Tick, ClockSetBack, datamodel, address, server, IInv, TypeOK
<1>2. TypeOK' /\ ListBounded'
  BY <1>1 DEF IInv, TypeOK, ListBounded
<1>3. Remembered'
  <2>1. CASE accepted' = {}
    BY <2>1 DEF Remembered, Recent
  <2>2. CASE now' = now + 1 /\ accepted' = accepted
    <3>0. \A b \in accepted : b.t <= now + 1
      BY <1>1 DEF IInv, Remembered, Stamps
    <3>1. SUFFICES ASSUME faults = 0, NEW a \in Recent' PROVE a \in connection_timestamp_list
      BY <1>1, <2>2, <3>0 DEF Remembered
    <3>2. a \in accepted /\ a.t \in Nat /\ a.t <= now + 1 /\ now + 1 - a.t <= FreqConnectionRequest
      BY <1>1, <2>2, <3>1 DEF Recent, Stamps
    <3>3. CASE a.t <= now
      BY <1>1, <3>1, <3>2, <3>3, ServerAssumption DEF IInv, Remembered, Recent
    <3>4. CASE a.t = now + 1
      BY <1>1, <3>2, <3>4 DEF IInv, Remembered
    <3> QED
      BY <1>1, <3>2, <3>3, <3>4
  <2> QED
    BY <1>1, <2>1, <2>2
<1>4. \A K \in {Restarting, Switch, {"EnableCWMP=0"}, {"EnableCWMP=1"}} : Pending(K)' = Pending(K)
  BY <1>1 DEF Pending
<1>5. PathServed' /\ LastSwitch' /\ DownIsEmpty' /\ ListenerFollows' /\ SwitchSeen'
  BY <1>1, <1>4 DEF IInv, PathServed, LastSwitch, DownIsEmpty, ListenerFollows, SwitchSeen
<1> QED
  BY <1>2, <1>3, <1>5 DEF IInv

\* Every step preserves the invariant: one case per action.
LEMMA Inductive == IInv /\ [Next]_vars => IInv'
<1> SUFFICES ASSUME IInv, [Next]_vars PROVE IInv'
  OBVIOUS
<1>1. CASE cwmp_app_init_dmengine
  <2>1. /\ UNCHANGED <<EnableCWMP, LocalIPAddress, ConnRequestHost, UpdateConnRequestURL,
                       ConnRequestPort, ConnRequestPath, events, lws_server_vhost, leaked,
                       g_randomCpeUrl, connection_timestamp_list, accepted, now, changes,
                       faults, requests, sessions, told, switchedOn>>
        /\ cwmpd = "down" /\ cwmpd' = "init"
    BY <1>1 DEF cwmp_app_init_dmengine, datamodel, address, server
  <2>2. TypeOK' /\ ListBounded' /\ Remembered'
    BY <2>1 DEF IInv, TypeOK, ListBounded, Remembered, Recent
  <2>3. PathServed' /\ LastSwitch' /\ DownIsEmpty' /\ ListenerFollows' /\ SwitchSeen'
    BY <2>1 DEF IInv, PathServed, LastSwitch, DownIsEmpty, ListenerFollows, SwitchSeen, Pending
  <2> QED
    BY <2>2, <2>3 DEF IInv
<1>2. CASE cwmp_app_init_services
  <2>1. cwmp_server_start(Stopped, events) /\ events \in Seq(Keys)
        /\ UNCHANGED <<datamodel, now, changes, requests, sessions>>
    BY <1>2 DEF cwmp_app_init_services, IInv, TypeOK
  <2>2. events' = events => LastSwitch'
    BY <2>1 DEF IInv, LastSwitch, datamodel
  <2>3. events' = events => (Pending({"EnableCWMP=1"})' => Pending({"EnableCWMP=1"}))
    BY DEF Pending
  <2> QED
    BY <2>1, <2>2, <2>3, StartStep
<1>3. CASE Terminated
  <2>1. faults' \in Nat
    BY <1>3 DEF Terminated, Fault, IInv, TypeOK
  <2> QED
    BY <1>3, <2>1, ExitStep DEF Terminated
<1>4. CASE HandleNotification
  BY <1>4, NotificationStep
<1>5. CASE SetEnableCWMP
  <2>1. Tells(IF EnableCWMP THEN "EnableCWMP=0" ELSE "EnableCWMP=1")
    BY <1>5 DEF SetEnableCWMP, Tells, IInv, TypeOK, Keys, Switch, Restarting, datamodel,
                address
  <2> QED
    BY <2>1, ChangeStep
<1>6. CASE SetHost
  <2>1. /\ LocalIPAddress' \in Hosts \cup {DEFAULT_CRH}
        /\ ConnRequestHost' \in Hosts \cup {DEFAULT_CRH} /\ UpdateConnRequestURL' \in BOOLEAN
        /\ UNCHANGED <<EnableCWMP, ConnRequestPort, ConnRequestPath>>
        /\ EnableCWMP \in BOOLEAN /\ ConnRequestPort \in Ports /\ ConnRequestPath \in Paths
        /\ Changed("ConnRequestHost") \/ Unannounced
    BY <1>6 DEF SetHost, IInv, TypeOK
  <2>2. CASE Changed("ConnRequestHost")
    <3>1. Tells("ConnRequestHost")
      BY <2>1, <2>2 DEF Tells, Keys, Switch, Restarting
    <3> QED
      BY <3>1, ChangeStep
  <2> QED
    BY <2>1, <2>2, SilentStep
<1>13. CASE SetConnRequestHost
  <2>1. Tells("ConnRequestHost")
    BY <1>13 DEF SetConnRequestHost, Tells, IInv, TypeOK, Keys, Switch, Restarting
  <2> QED
    BY <2>1, ChangeStep
<1>14. CASE updateConnectionRequestURL
  <2>1. /\ LocalIPAddress' \in Hosts \cup {DEFAULT_CRH}
        /\ ConnRequestHost' \in Hosts \cup {DEFAULT_CRH} /\ UpdateConnRequestURL' \in BOOLEAN
        /\ UNCHANGED <<EnableCWMP, ConnRequestPort, ConnRequestPath>>
        /\ Unannounced
    BY <1>14 DEF updateConnectionRequestURL, IInv, TypeOK
  <2> QED
    BY <2>1, SilentStep
<1>7. CASE SetConnRequestPort
  <2>1. Tells("ConnRequestPort")
    BY <1>7 DEF SetConnRequestPort, Tells, IInv, TypeOK, Keys, Switch, Restarting, datamodel,
                address
  <2> QED
    BY <2>1, ChangeStep
<1>8. CASE SetConnRequestPath
  <2>1. Tells("ConnRequestPath")
    BY <1>8 DEF SetConnRequestPath, Tells, IInv, TypeOK, Keys, Switch, Restarting, datamodel,
                address
  <2> QED
    BY <2>1, ChangeStep
<1>9. CASE SetURL
  <2>1. Tells("URL")
    BY <1>9 DEF SetURL, Tells, IInv, TypeOK, Keys, Switch, Restarting, datamodel,
                address
  <2> QED
    BY <2>1, ChangeStep
<1>10. CASE \E path \in Paths, digest \in BOOLEAN : handle_request(path, digest)
  BY <1>10, RequestStep
<1>11. CASE Tick \/ ClockSetBack
  BY <1>11, ClockStep
<1>12. CASE UNCHANGED vars
  <2>1. TypeOK' /\ ListBounded' /\ Remembered'
    BY <1>12 DEF vars, datamodel, address, server, IInv, TypeOK, ListBounded, Remembered, Recent
  <2>2. \A K \in {Restarting, Switch, {"EnableCWMP=0"}, {"EnableCWMP=1"}} : Pending(K)' = Pending(K)
    BY <1>12 DEF Pending, vars
  <2>3. PathServed' /\ LastSwitch' /\ DownIsEmpty' /\ ListenerFollows' /\ SwitchSeen'
    BY <1>12, <2>2 DEF vars, datamodel, address, server, IInv, PathServed, LastSwitch,
                       DownIsEmpty, ListenerFollows, SwitchSeen
  <2> QED
    BY <2>1, <2>3 DEF IInv
<1> QED
  BY <1>1, <1>2, <1>3, <1>4, <1>5, <1>6, <1>7, <1>8, <1>9, <1>10, <1>11, <1>12,
     <1>13, <1>14 DEF Next

LEMMA Initial == Init => IInv
<1> SUFFICES ASSUME Init PROVE IInv
  OBVIOUS
<1>0. switchedOn \in BOOLEAN /\ UpdateConnRequestURL \in BOOLEAN
  BY Zenon DEF Init
<1>1. TypeOK
  BY <1>0 DEF Init, TypeOK
<1>2. IsFiniteSet({}) /\ Cardinality({}) = 0
  BY FS_EmptySet
<1>3. ListBounded /\ Remembered
  BY <1>2, ServerAssumption DEF Init, ListBounded, Remembered, Recent
<1>4. PathServed /\ LastSwitch /\ DownIsEmpty /\ ListenerFollows /\ SwitchSeen
  BY DEF Init, PathServed, LastSwitch, DownIsEmpty, ListenerFollows, SwitchSeen, Pending
<1> QED
  BY <1>1, <1>3, <1>4 DEF IInv

\* The invariant holds throughout.
THEOREM Invariance == Spec => []IInv
  BY Initial, Inductive, PTL DEF Spec

\* The server's statics and the parameters it reads keep their types.
THEOREM TypeCorrect == Spec => []TypeOK
<1>1. IInv => TypeOK
  BY DEF IInv
<1> QED
  BY <1>1, Invariance, PTL

\* Once the notifications are handled the server listens exactly when and
\* where the data model says, as far as cwmpd was told; a second listener is
\* left only by a cwmpd that was told that CWMP is switched on.
THEOREM ListenerIsCurrent == Spec => []ServerFollowsDm
<1>1. IInv => ListensWhereTold
  <2> SUFFICES ASSUME IInv, cwmpd = "up", events = <<>>
               PROVE  lws_server_vhost =
                        IF EnableCWMP /\ told # DEFAULT_CRH
                        THEN [host |-> told, port |-> ConnRequestPort] ELSE NULL
    BY DEF ListensWhereTold
  <2>1. ~Pending(Restarting) /\ ~Pending(Switch)
    BY DEF Pending
  <2> QED
    BY <2>1 DEF IInv, ListenerFollows
<1>2. IInv => ServerFollowsDm
  BY <1>1 DEF IInv, SwitchSeen, ServerFollowsDm
<1> QED
  BY <1>2, Invariance, PTL

\* cwmp_server_maxConnectionsReached keeps its limit over every period.
THEOREM LimiterHolds == Spec => []RateLimited
<1>1. IInv => RateLimited
  <2> SUFFICES ASSUME IInv, faults = 0
               PROVE  Cardinality(Recent) <= 2 * MaxConnectionRequest + 1
    BY DEF RateLimited
  <2>1. /\ Recent \subseteq connection_timestamp_list
        /\ IsFiniteSet(connection_timestamp_list)
        /\ Cardinality(connection_timestamp_list) <= 2 * MaxConnectionRequest + 1
    BY DEF IInv, Remembered, ListBounded
  <2>2. /\ Cardinality(Recent) <= Cardinality(connection_timestamp_list)
        /\ Cardinality(connection_timestamp_list) \in Nat
        /\ Cardinality(Recent) \in Nat
    BY <2>1, FS_Subset, FS_CardinalityType
  <2> QED
    BY <2>1, <2>2, ServerAssumption
<1> QED
  BY <1>1, Invariance, PTL

\* A cwmpd told that CWMP is disabled grants no session.
THEOREM DisabledGrantsNothing == Spec => NoSessionWhenDisabled
<1> DEFINE Step == sessions' # sessions => EnableCWMP \/ Pending({"EnableCWMP=0"})
<1>1. IInv /\ [Next]_vars => [Step]_vars
  <2> SUFFICES ASSUME IInv, Next PROVE Step
    OBVIOUS
  <2>1. CASE \E path \in Paths, digest \in BOOLEAN : handle_request(path, digest)
    <3>1. PICK path \in Paths, digest \in BOOLEAN : handle_request(path, digest)
      BY <2>1
    <3>2. sessions' # sessions => path = g_randomCpeUrl
      BY <3>1 DEF handle_request
    <3>3. path # NULL
      BY ServerAssumption
    <3> QED
      BY <3>2, <3>3 DEF IInv, PathServed
  <2>2. CASE ~\E path \in Paths, digest \in BOOLEAN : handle_request(path, digest)
    <3>1. UNCHANGED sessions
      BY <2>2 DEF Next, cwmp_app_init_dmengine, cwmp_app_init_services, Terminated,
         HandleNotification, SetEnableCWMP, SetHost, SetConnRequestHost,
         updateConnectionRequestURL, SetConnRequestPort, SetConnRequestPath, SetURL,
         Changed, Unannounced, Written, Tick, ClockSetBack
    <3> QED
      BY <3>1
  <2> QED
    BY <2>1, <2>2
<1> QED
  BY <1>1, Invariance, PTL DEF Spec, NoSessionWhenDisabled

=============================================================================
