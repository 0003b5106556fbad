--------------------------- MODULE ParameterAccess ---------------------------
(***************************************************************************)
(* How the device adapter of cwmpd sets parameters for the ACS and notices *)
(* that the device changed them: SetParameterValues (DM_DeviceAdapter.c,   *)
(* DM_AmxParameterValues.c), the subscriptions of the ACS connection       *)
(* (DM_AmxACSConnection.c, DM_AmxCommon.c) and the handler of their        *)
(* notifications.                                                          *)
(*                                                                         *)
(* cwmpd is single-threaded: a notification waits while an RPC is served,  *)
(* but the device goes on changing values between two bus calls.           *)
(*                                                                         *)
(* The bus and the engine are external.  The bus sends one notification    *)
(* per change of an object, with the parameters that changed, in no order; *)
(* it keeps the notifications of one object in order, nothing is assumed   *)
(* of those of different objects, and those of an object that is           *)
(* unsubscribed are dropped.  The engine calls                             *)
(* AddNotification when the ACS turns a parameter's notification on or     *)
(* changes its mode, RemoveNotification when it turns it off, and takes    *)
(* both calls as done whatever they return: an update of the mode and a    *)
(* forced notification return a failure although all is done, and a        *)
(* refused subscription has an id all the same.  It remembers one value    *)
(* per parameter that the ACS set; a notification of that value is not     *)
(* reported, and uses the remembered value up.                             *)
(***************************************************************************)
EXTENDS Naturals, Sequences, FiniteSets, Functions

CONSTANTS
    Parameters,
    Object,         \* the object of a parameter
    Domain,         \* the values of a parameter
    Default,        \* the value it has first
    Writable,       \* parameters the ACS may set
    IpParameters,   \* parameters below Device.IP.Interface.
    EMPTY,          \* the empty string
    NULL,
    MaxModes,       \* bound: calls of Add- and RemoveNotification
    MaxChanges,     \* bound: changes made by the device
    MaxSets,        \* bound: SetParameterValues
    MaxFaults,      \* bound: bus calls that fail, ends of cwmpd
    MaxList         \* bound: parameters in a SetParameterValues

Objects == {Object[p] : p \in Parameters}
Values == UNION {Domain[p] : p \in Parameters}

\* Notifications of a change of an object, and a notification being handled:
\* the parameters still to be visited, and the subscription id found last.
Changes(o) == UNION {[S -> Values] : S \in (SUBSET {p \in Parameters : Object[p] = o}) \ {{}}}
Notifications(o) == [by : {"device", "acs"}, to : Changes(o)]
Handlings(o) ==
    {h \in [by : {"device", "acs"}, to : Changes(o), todo : Seq(Parameters),
            id : Parameters \cup {NULL}] :
       h.todo # <<>> /\ Range(h.todo) \subseteq DOMAIN h.to}

\* A SetParameterValues being served: the next entry of its list, and, for the
\* ghosts, the parameters that were set and those whose call failed.
Settings == UNION {[p : {q}, v : Domain[q]] : q \in Parameters}
Rpcs == [list : Seq(Settings), i : Nat \ {0}, error : BOOLEAN,
         done : SUBSET Parameters, failed : SUBSET Parameters]

ASSUME ParameterAssumption ==
    /\ IsFiniteSet(Parameters)
    /\ DOMAIN Object = Parameters /\ DOMAIN Domain = Parameters
    /\ Default \in [Parameters -> Values] /\ \A p \in Parameters : Default[p] \in Domain[p]
    /\ Writable \subseteq Parameters /\ IpParameters \subseteq Parameters
    /\ NULL \notin Parameters /\ NULL \notin Values
    /\ NULL \notin Seq(Parameters) /\ \A o \in Objects : NULL \notin Handlings(o)
    /\ NULL \notin Rpcs
    /\ MaxModes \in Nat /\ MaxChanges \in Nat /\ MaxSets \in Nat
    /\ MaxFaults \in Nat /\ MaxList \in Nat

VARIABLES
    dm,             \* the values
    Subscription,   \* ManagementServer.Subscription: the instances of a path
    bus,            \* objects subscribed on the bus
    queue,          \* object -> the notifications the bus has for cwmpd
    acsSubsList,    \* object -> its subscription_info_list, or NULL
    cached,         \* engine: the value the ACS set and that may still be notified
    mode,           \* engine: notification mode of a parameter
    handling,       \* the notification being handled, or NULL
    spv,            \* the SetParameterValues being served, or NULL
    reply,          \* ghost: what the last SetParameterValues did and answered
    known,          \* ghost: the value the ACS was last told, as a notification or
                    \* by the answer to a SetParameterValues
    hidden,         \* ghost: parameters with a change that was not reported
    misled,         \* ghost: parameters for which an answer was wrong
    refused,        \* ghost: parameters with a subscription that the bus refused
    again,          \* ghost: parameters subscribed while they were listed
    modes, changes, sets, faults    \* ghost: counters

engine == <<cached, mode>>
told == <<known, hidden, misled>>
counters == <<modes, changes, sets, faults>>
vars == <<dm, Subscription, bus, queue, acsSubsList, cached, mode, handling, spv,
          reply, told, refused, again, counters>>

Modes == {"Off", "Passive", "Active", "Forced"}
Instances == [Type : Modes, Value : Values]

Infos(o) == IF acsSubsList[o] = NULL THEN <<>> ELSE acsSubsList[o]
Subscribed(p) == p \in Range(Infos(Object[p]))
ListedOnce(p) ==
    LET s == Infos(Object[p]) IN \A i, j \in DOMAIN s : s[i] = p /\ s[j] = p => i = j

Init ==
    /\ dm = Default
    /\ Subscription = [p \in Parameters |-> <<>>]
    /\ bus = {}
    /\ queue = [o \in Objects |-> <<>>]
    /\ acsSubsList = [o \in Objects |-> NULL]
    /\ cached = [p \in Parameters |-> NULL]
    /\ mode = [p \in Parameters |-> "Off"]
    /\ handling = NULL /\ spv = NULL /\ reply = NULL
    /\ known = Default
    /\ hidden = {} /\ misled = {} /\ refused = {} /\ again = {}
    /\ modes = 0 /\ changes = 0 /\ sets = 0 /\ faults = 0

\* The bus call that fails in a step, or "none".
Fails(call) ==
    /\ call = "none" \/ faults < MaxFaults
    /\ faults' = IF call = "none" THEN faults ELSE faults + 1

\* cwmpd is in its event loop.
Ready == handling = NULL /\ spv = NULL

-----------------------------------------------------------------------------
(***************************************************************************)
(* Subscriptions.                                                          *)
(***************************************************************************)

\* Fault: a parameter of an object that is subscribed already is not listed.
Common_AddSubscription_FirstOnly(p) ==
    LET o == Object[p]
    IN  /\ acsSubsList' = IF acsSubsList[o] = NULL
                          THEN [acsSubsList EXCEPT ![o] = <<p>>] ELSE acsSubsList
        /\ bus' = bus \cup {o}

\* DM_ENG_Device_Common_AddSubscription: one bus subscription per object, one
\* entry per call.
Common_AddSubscription(p) ==
    LET o == Object[p]
    IN  /\ acsSubsList' = [acsSubsList EXCEPT ![o] = Append(Infos(o), p)]
        /\ bus' = bus \cup {o}

\* Fault: a path that is there already gets another instance.
AddToDm_Again(p, m, call) ==
    Subscription' = [Subscription EXCEPT ![p] = Append(@, [Type |-> m, Value |-> dm[p]])]

\* find_subscription_by_path, then add_subscription_to_dm or
\* update_subscription_in_dm.  A search that fails finds nothing; whether the
\* write succeeds is not looked at.
AddToDm(p, m, call) ==
    LET new == [Type |-> m, Value |-> dm[p]]
        updated == [i \in DOMAIN Subscription[p] |-> [Subscription[p][i] EXCEPT !.Type = m]]
    IN  \/ /\ call # "write"
           /\ Subscription[p] = <<>> \/ call = "search"
           /\ Subscription' = [Subscription EXCEPT ![p] = Append(@, new)]
        \/ /\ call # "write"
           /\ Subscription[p] # <<>> /\ call # "search"
           /\ Subscription' = [Subscription EXCEPT ![p] = updated]
        \/ call = "write" /\ UNCHANGED Subscription

\* DM_ENG_Device_ACSConnectionAddSubscription.  When the bus refuses the
\* subscription the call ends: nothing is listed or stored, but the id is set
\* and the engine has its mode.  A parameter that is listed gets another entry.
\* The ACS knows the value of a parameter whose notification it turns on.
AddNotification(p, m) ==
    /\ Ready
    /\ modes < MaxModes /\ modes' = modes + 1
    /\ m # "Off" /\ m # mode[p]
    /\ \E call \in {"none", "subscribe", "search", "write"} :
         /\ Fails(call)
         /\ \/ /\ call = "subscribe"
               /\ m # "Passive" /\ acsSubsList[Object[p]] = NULL
               /\ refused' = refused \cup {p}
               /\ UNCHANGED <<acsSubsList, bus, Subscription, told, again>>
            \/ /\ call # "subscribe"
               /\ IF m = "Passive" THEN UNCHANGED <<acsSubsList, bus>>
                  ELSE Common_AddSubscription(p)
               /\ refused' = refused \ {p}
               /\ again' = IF m # "Passive" /\ Subscribed(p) THEN again \cup {p} ELSE again
               /\ IF m = "Forced" THEN UNCHANGED Subscription /\ call = "none"
                  ELSE AddToDm(p, m, call)
               /\ IF Subscribed(p) THEN UNCHANGED told
                  ELSE /\ known' = [known EXCEPT ![p] = dm[p]]
                       /\ hidden' = hidden \ {p} /\ misled' = misled \ {p}
    /\ mode' = [mode EXCEPT ![p] = m]
    /\ UNCHANGED <<dm, queue, cached, handling, spv, reply, changes, sets>>

\* The list without its first p (DM_ENG_Device_Common_DeleteSubscriptionInfo).
Without(s, p) ==
    LET i == CHOOSE i \in DOMAIN s : s[i] = p /\ \A j \in 1 .. i - 1 : s[j] # p
    IN  SubSeq(s, 1, i - 1) \o SubSeq(s, i + 1, Len(s))

\* Fault: the object is unsubscribed with the first of its parameters.
Common_DeleteSubscription_WholeObject(p, call) ==
    LET o == Object[p]
    IN  /\ acsSubsList' = [acsSubsList EXCEPT ![o] = NULL]
        /\ bus' = bus \ {o}
        /\ queue' = [queue EXCEPT ![o] = <<>>]

\* DM_ENG_Device_Common_DeleteSubscription: the bus subscription goes with the
\* last entry of its object; if the bus fails the empty entry stays.
Common_DeleteSubscription(p, call) ==
    LET o == Object[p]
        rest == Without(acsSubsList[o], p)
    IN  \/ /\ rest # <<>> \/ call = "unsubscribe"
           /\ acsSubsList' = [acsSubsList EXCEPT ![o] = rest]
           /\ UNCHANGED <<bus, queue>>
        \/ /\ rest = <<>> /\ call # "unsubscribe"
           /\ acsSubsList' = [acsSubsList EXCEPT ![o] = NULL]
           /\ bus' = bus \ {o}
           /\ queue' = [queue EXCEPT ![o] = <<>>]

\* DM_ENG_Device_ACSConnectionRemoveSubscription.
RemoveNotification(p) ==
    /\ Ready
    /\ modes < MaxModes /\ modes' = modes + 1
    /\ mode[p] # "Off"
    /\ \E call \in {"none", "write", "unsubscribe"} :
         /\ Fails(call)
         /\ Subscription' = IF call = "write" THEN Subscription
                            ELSE [Subscription EXCEPT ![p] = <<>>]
         /\ IF Subscribed(p) THEN Common_DeleteSubscription(p, call)
            ELSE UNCHANGED <<acsSubsList, bus, queue>>
    /\ mode' = [mode EXCEPT ![p] = "Off"]
    /\ cached' = [cached EXCEPT ![p] = NULL]
    /\ refused' = refused \ {p}
    /\ UNCHANGED <<dm, handling, spv, reply, told, again, changes, sets>>

-----------------------------------------------------------------------------
(***************************************************************************)
(* Changes of values, and their notifications.                             *)
(***************************************************************************)

\* The values of one object become those of new; the bus tells what changed.
Changed(o, new, by) ==
    LET what == {p \in Parameters : new[p] # dm[p]}
    IN  /\ dm' = new
        /\ queue' = IF o \in bus /\ what # {}
                    THEN [queue EXCEPT ![o] =
                            Append(@, [by |-> by, to |-> [p \in what |-> new[p]]])]
                    ELSE queue

\* The device changes parameters of an object.
DeviceChanges(o) ==
    /\ changes < MaxChanges /\ changes' = changes + 1
    /\ \E new \in [Parameters -> Values] :
         /\ \A p \in Parameters : new[p] \in Domain[p] /\ (Object[p] # o => new[p] = dm[p])
         /\ new # dm
         /\ Changed(o, new, "device")
    /\ UNCHANGED <<Subscription, bus, acsSubsList, engine, handling, spv, reply,
                   told, refused, again, modes, sets, faults>>

\* The sequences in which an iteration may visit a set.
Orders(S) == {s \in [1 .. Cardinality(S) -> S] : Range(s) = S}

\* DM_ENG_Device_ACSConnectionHandleNotification is called: the iteration over
\* the parameters starts, with no subscription id found.
TakeNotification(o) ==
    /\ Ready
    /\ queue[o] # <<>>
    /\ queue' = [queue EXCEPT ![o] = Tail(@)]
    /\ LET n == Head(queue[o])
       IN  \E order \in Orders(DOMAIN n.to) :
             handling' = [by |-> n.by, to |-> n.to, todo |-> order, id |-> NULL]
    /\ UNCHANGED <<dm, Subscription, bus, acsSubsList, engine, spv, reply, told, refused,
                   again, counters>>

\* The handler returns: what is left of the notification is lost.
Abandon ==
    /\ handling' = NULL
    /\ hidden' = hidden \cup {p \in Range(handling.todo) : Subscribed(p)}
    /\ UNCHANGED <<Subscription, cached, known, misled>>

GoOn(id) ==
    handling' = IF Len(handling.todo) = 1 THEN NULL
                ELSE [handling EXCEPT !.todo = Tail(@), !.id = id]

\* set_subscription_new_value, then the notification is suppressed (the value
\* is the one the ACS set) or reported with the value of the moment.
Report(id, p, call) ==
    LET value == handling.to[p]
    IN  /\ Subscription' =
             IF call = "write" THEN Subscription
             ELSE [Subscription EXCEPT ![id] =
                     [i \in DOMAIN @ |-> [@[i] EXCEPT !.Value = value]]]
        /\ \/ /\ cached[id] = value
              /\ cached' = [cached EXCEPT ![id] = NULL]
              /\ hidden' = IF handling.by = "device" /\ id = p THEN hidden \cup {p} ELSE hidden
              /\ UNCHANGED <<known, misled>>
           \/ /\ cached[id] # value
              /\ known' = [known EXCEPT ![id] = dm[id]]
              /\ hidden' = hidden \ {id} /\ misled' = misled \ {id}
              /\ UNCHANGED cached

\* One iteration.  The id found for a parameter stays for the next ones.
HandleParameter ==
    /\ handling # NULL
    /\ LET p == Head(handling.todo)
           id == IF Subscribed(p) THEN p ELSE handling.id
           dropped == IF id = NULL THEN TRUE
                      ELSE mode[id] = "Off" \/ (id \in IpParameters /\ handling.to[p] = EMPTY)
       IN  \/ dropped /\ Abandon /\ Fails("none")
           \/ ~dropped /\ cached[id] # handling.to[p] /\ Abandon /\ Fails("read")
           \/ /\ ~dropped
              /\ \E call \in {"none", "write"} : Fails(call) /\ Report(id, p, call)
              /\ GoOn(id)
    /\ UNCHANGED <<dm, bus, queue, acsSubsList, mode, spv, reply, refused, again, modes,
                   changes, sets>>

-----------------------------------------------------------------------------
(***************************************************************************)
(* SetParameterValues.                                                     *)
(***************************************************************************)

Lists == UNION {[1 .. n -> Settings] : n \in 1 .. MaxList}

\* DM_ENG_Device_SetParameterValues_Validate over the whole list.
Valid(list) ==
    /\ \A i \in DOMAIN list : list[i].p \in Writable
    /\ \A i, j \in DOMAIN list : list[i].p = list[j].p => i = j

\* A list that is not valid changes nothing.
SetParameterValues(list) ==
    /\ Ready
    /\ sets < MaxSets /\ sets' = sets + 1
    /\ spv' = IF Valid(list) THEN [list |-> list, i |-> 1, error |-> FALSE, done |-> {}, failed |-> {}]
              ELSE NULL
    /\ reply' = IF Valid(list) THEN NULL ELSE [error |-> TRUE, done |-> {}, failed |-> {}]
    /\ UNCHANGED <<dm, Subscription, bus, queue, acsSubsList, engine, handling, told,
                   refused, again, modes, changes, faults>>

\* f with the values that a group of settings gives.
With(f, group) ==
    [p \in DOMAIN f |-> IF \E s \in group : s.p = p
                        THEN (CHOOSE s \in group : s.p = p).v ELSE f[p]]

\* DM_ENG_Device_SetParameterValues_SetValues: the values of the next entries
\* of the list that belong to one object are remembered, then set.  The bus may
\* refuse, or answer too late.  The error is that of the last call.
SetValues ==
    /\ spv # NULL /\ spv.i <= Len(spv.list)
    /\ \E last \in spv.i .. Len(spv.list) :
         LET o == Object[spv.list[spv.i].p]
             group == {spv.list[j] : j \in spv.i .. last}
         IN  /\ \A s \in group : Object[s.p] = o
             /\ last < Len(spv.list) => Object[spv.list[last + 1].p] # o
             /\ cached' = With(cached, group)
             /\ \E call \in {"none", "refused", "timeout"} :
                  /\ Fails(call)
                  /\ IF call = "refused" THEN UNCHANGED <<dm, queue>>
                     ELSE Changed(o, With(dm, group), "acs")
                  /\ LET set == {s.p : s \in group}
                     IN  spv' = [spv EXCEPT !.i = last + 1, !.error = (call # "none"),
                                    !.done = IF call = "refused" THEN @ ELSE @ \cup set,
                                    !.failed = IF call = "none" THEN @ ELSE @ \cup set]
    /\ UNCHANGED <<Subscription, bus, acsSubsList, mode, handling, reply, told, refused,
                   again, modes, changes, sets>>

\* The ACS takes a success as all values set, and a fault as none.
Answer ==
    /\ spv # NULL /\ spv.i > Len(spv.list)
    /\ spv' = NULL
    /\ reply' = [error |-> spv.error, done |-> spv.done, failed |-> spv.failed]
    /\ \/ /\ spv.error
          /\ misled' = misled \cup spv.done
          /\ UNCHANGED known
       \/ /\ ~ spv.error
          /\ known' = With(known, Range(spv.list))
          /\ misled' = (misled \ spv.done) \cup (spv.failed \ spv.done)
    /\ UNCHANGED <<dm, Subscription, bus, queue, acsSubsList, engine, handling, hidden,
                   refused, again, counters>>

\* cwmpd ends (DM_ENG_Device_ACSConnectionCleanup, or a crash) and starts again
\* (DM_ENG_Device_ACSConnectionInitialize); the engine adds its notifications
\* again.
Restart ==
    /\ faults < MaxFaults /\ faults' = faults + 1
    /\ bus' = {}
    /\ queue' = [o \in Objects |-> <<>>]
    /\ acsSubsList' = [o \in Objects |-> NULL]
    /\ cached' = [p \in Parameters |-> NULL]
    /\ mode' = [p \in Parameters |-> "Off"]
    /\ handling' = NULL /\ spv' = NULL /\ reply' = NULL
    /\ refused' = {} /\ again' = {}
    /\ UNCHANGED <<dm, Subscription, told, modes, changes, sets>>

Next ==
    \/ \E p \in Parameters : RemoveNotification(p) \/ \E m \in Modes : AddNotification(p, m)
    \/ \E o \in Objects : DeviceChanges(o) \/ TakeNotification(o)
    \/ HandleParameter
    \/ \E list \in Lists : SetParameterValues(list)
    \/ SetValues \/ Answer
    \/ Restart

Spec == Init /\ [][Next]_vars

-----------------------------------------------------------------------------
(***************************************************************************)
(* Properties.                                                             *)
(***************************************************************************)

\* Lists, stored subscriptions, notifications and calls have their types.
TypeOK ==
    /\ dm \in [Parameters -> Values] /\ known \in [Parameters -> Values]
    /\ \A p \in Parameters : dm[p] \in Domain[p]
    /\ Subscription \in [Parameters -> Seq(Instances)]
    /\ bus \subseteq Objects
    /\ acsSubsList \in [Objects -> Seq(Parameters) \cup {NULL}]
    /\ cached \in [Parameters -> Values \cup {NULL}]
    /\ mode \in [Parameters -> Modes]
    /\ hidden \subseteq Parameters /\ misled \subseteq Parameters
    /\ refused \subseteq Parameters /\ again \subseteq Parameters
    /\ DOMAIN queue = Objects
    /\ \A o \in Objects : queue[o] \in Seq(Notifications(o))
    /\ handling = NULL \/ \E o \in Objects : handling \in Handlings(o)
    /\ spv = NULL \/ spv \in Rpcs
    /\ modes \in 0 .. MaxModes /\ changes \in 0 .. MaxChanges
    /\ sets \in 0 .. MaxSets /\ faults \in 0 .. MaxFaults

\* The bus subscriptions are those of the list.  The list has an entry for
\* every parameter the engine wants to hear of, unless the bus refused it, and
\* one entry per parameter, gone when its notification is turned off, unless
\* the parameter was subscribed while it was listed; in whatever order
\* parameters of one object are added, removed and refused
\* (DM_ENG_Device_Common_Add- and DeleteSubscription).  The two exceptions are
\* the code's: a refused subscription is never tried again, and a mode changed
\* from Active to Forced, or to Passive and back, leaves an entry for good.
BusMatchesList ==
    /\ bus = {o \in Objects : acsSubsList[o] # NULL}
    /\ \A p \in Parameters :
         /\ mode[p] \in {"Active", "Forced"} /\ p \notin refused => Subscribed(p)
         /\ p \notin again => ListedOnce(p) /\ (mode[p] = "Off" => ~ Subscribed(p))

\* Once the notifications are handled, what the ACS was told of a parameter it
\* wants to hear of is its value, except where the code is known to fail: the
\* handler returned early, or took a change by the device for the echo of a
\* value set by the ACS (hidden); a SetParameterValues was answered with an
\* error after it had set the parameter, or with success after the bus had
\* refused it (misled); the bus refused the subscription (refused).
AcsInformed ==
    Ready /\ (\A o \in Objects : queue[o] = <<>>) =>
      \A p \in Parameters :
        mode[p] \in {"Active", "Forced"} /\ p \notin hidden \cup misled \cup refused
          => known[p] = dm[p]

\* Without faults, ManagementServer.Subscription has one instance, with the
\* right type, for a parameter whose notification is on, and none for one
\* whose notification is off, whatever the sequence of changes of mode.
SubscriptionsStored ==
    faults = 0 =>
      \A p \in Parameters :
        /\ mode[p] \in {"Passive", "Active"} => Len(Subscription[p]) = 1 /\ Subscription[p][1].Type = mode[p]
        /\ mode[p] = "Off" => Subscription[p] = <<>>

\* "in the case it fails, we just return an error and undo the changes already
\* applied" (DM_ENG_Device_SetParameterValues): after an error no parameter
\* keeps a value that was set for it, after success none was refused.  The code
\* does not keep this: it goes on after an error and undoes nothing.
SpvAllOrNothing ==
    reply # NULL => IF reply.error THEN reply.done \subseteq reply.failed ELSE reply.failed = {}

\* "The value last set by the ACS" (ManagementServer.Subscription.Value): it
\* is at least a value of that parameter.  The code does not keep this when a
\* notification carries a parameter that is not subscribed after one that is.
StoredValueIsItsOwn ==
    \A p \in Parameters : \A i \in DOMAIN Subscription[p] : Subscription[p][i].Value \in Domain[p]

=============================================================================
