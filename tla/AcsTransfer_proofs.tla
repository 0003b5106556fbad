------------------------- MODULE AcsTransfer_proofs -------------------------
(***************************************************************************)
(* Proofs about AcsTransfer, for every set of transfers, keys and requests *)
(* and every bound: no accepted transfer is forgotten, none is reported    *)
(* twice, no upgrade is repeated after it was booted, and the two          *)
(* processes together keep what TransferPromise says.                      *)
(***************************************************************************)
EXTENDS AcsTransfer, TLAPS

\* An instance that was never added has left no trace.
Pristine ==
    \A t \in Transfers :
        /\ status[t] = "None" <=> req[t] = NULL
        /\ status[t] = "None" =>
              /\ disk.status[t] = "None"
              /\ answer[t] = "none"
              /\ subs[t] = FALSE
              /\ reported[t] = 0
              /\ pathTimer[t] = NULL
              /\ busy # t

\* A cwmpd that is down has no memory.
DownIsEmpty ==
    cwmpd = "down" =>
        /\ busy = NULL
        /\ \A t \in Transfers : /\ subs[t] = FALSE
                                /\ reported[t] = 0
                                /\ pathTimer[t] = NULL
        /\ \A k \in Keys : keyTimer[k] = NULL

\* A timeout runs for a transfer that has its name as CommandKey.
TimerHasOwner ==
    \A k \in Keys : keyTimer[k] # NULL =>
        /\ k # NoKey
        /\ req[keyTimer[k]] # NULL
        /\ req[keyTimer[k]].key = k

\* Notifications come from subscriptions, of which some cannot be deleted;
\* what is being added or resumed has none.
Subscriptions ==
    \A t \in Transfers :
        /\ notif[t] => subs[t]
        /\ t \in stray => subs[t]
        /\ pathTimer[t] # NULL \/ busy = t => subs[t] = FALSE
        /\ pathTimer[t] # NULL => busy # t

\* From the moment its image is downloaded, an upgrade is not "Initial" in
\* the data model nor on disk; once booted, nothing will start it.
UpgradeIsSaved ==
    \A t \in Transfers :
        /\ t = download \/ t \in applied =>
              /\ status[t] \notin {"None", "Initial"}
              /\ disk.status[t] \notin {"None", "Initial"}
        /\ t \in applied =>
              /\ delay[t] = 0
              /\ pathTimer[t] # "RestartTransfer"
              /\ download # t

\* What may report a transfer is: its subscription and its timeout, or its
\* start-up timer, or the call under way, or nothing once it was reported.
Sole(t) == req[t] # NULL /\ (OwnKey(t) \/ req[t].key = NoKey) /\ t \notin stray
OneReporter ==
    \A t \in Transfers : Sole(t) =>
        /\ reported[t] <= 1
        /\ reported[t] > 0 \/ pathTimer[t] # NULL \/ busy = t =>
              /\ subs[t] = FALSE
              /\ keyTimer[req[t].key] = NULL
        /\ reported[t] > 0 => pathTimer[t] = NULL /\ busy # t

\* The inductive invariant.
IInv ==
    /\ TypeOK
    /\ Pristine
    /\ DownIsEmpty
    /\ TimerHasOwner
    /\ Subscriptions
    /\ UpgradeIsSaved
    /\ OneReporter
    /\ NoForgottenTransfer


-----------------------------------------------------------------------------
\* A member of Requests has a kind, a key and a delay.
LEMMA RequestType ==
  ASSUME NEW r \in Requests
  PROVE  /\ r.kind \in Kinds
         /\ r.key \in Keys
         /\ r.immediate \in BOOLEAN
         /\ r # NULL
  BY AcsTransferAssumption

\* An instance that was added has its request.
LEMMA RequestKnown ==
  ASSUME IInv, NEW t \in Transfers, status[t] # "None"
  PROVE  /\ req[t] \in Requests
         /\ req[t].kind \in Kinds
         /\ req[t].key \in Keys
  BY RequestType DEF IInv, TypeOK, Pristine

\* A write leaves the data model and the notifications well typed.
LEMMA WriteType ==
  ASSUME IInv, NEW t \in Transfers, NEW s \in Statuses, NEW fc \in BOOLEAN,
         Write(t, s, fc)
  PROVE  /\ status' \in [Transfers -> Statuses]
         /\ fault' \in [Transfers -> BOOLEAN]
         /\ notif' \in [Transfers -> BOOLEAN]
  BY DEF Write, IInv, TypeOK

\* So does transfer_update_status.
LEMMA UpdateType ==
  ASSUME IInv, NEW t \in Transfers, NEW fc \in BOOLEAN, transfer_update_status(t, fc)
  PROVE  /\ status' \in [Transfers -> Statuses]
         /\ fault' \in [Transfers -> BOOLEAN]
         /\ notif' \in [Transfers -> BOOLEAN]
         /\ UNCHANGED <<req, disk, subs, stray>>
  BY WriteType DEF transfer_update_status, Statuses, dm, watch, IInv, TypeOK

\* Upload() or Backup() is called.
LEMMA UploadType ==
  ASSUME IInv, NEW t \in Transfers, upload_vendor_file(t)
  PROVE  /\ status' \in [Transfers -> Statuses]
         /\ fault' \in [Transfers -> BOOLEAN]
         /\ notif' \in [Transfers -> BOOLEAN]
         /\ running' \in [Transfers -> Nat]
         /\ UNCHANGED <<req, disk, subs, stray>>
<1>1. CASE /\ running' = [running EXCEPT ![t] = @ + 1]
           /\ UNCHANGED <<dm, watch>>
  BY <1>1 DEF dm, watch, IInv, TypeOK
<1>2. CASE transfer_update_status(t, TRUE) /\ UNCHANGED running
  <2>1. running' \in [Transfers -> Nat]
    BY <1>2 DEF IInv, TypeOK
  <2> QED
    BY <1>2, <2>1, UpdateType
<1> QED
  BY <1>1, <1>2 DEF upload_vendor_file

\* What DeleteSubscription leaves: a subscription that is gone, or a stray.
LEMMA DeletedFacts ==
  ASSUME IInv, NEW t \in Transfers, NEW fails \in BOOLEAN, DeleteSubscription(t, fails)
  PROVE  /\ subs' \in [Transfers -> BOOLEAN]
         /\ stray' \subseteq Transfers
         /\ stray \subseteq stray' /\ stray' \subseteq stray \cup {t}
         /\ \A u \in Transfers \ {t} : subs'[u] = subs[u]
         /\ subs'[t] <=> t \in stray'
<1>1. subs \in [Transfers -> BOOLEAN] /\ stray \subseteq Transfers /\ (t \in stray => subs[t])
  BY DEF IInv, TypeOK, Subscriptions
<1>2. subs' = [subs EXCEPT ![t] = subs[t] /\ (fails \/ t \in stray)]
  BY DEF DeleteSubscription
<1>3. stray' = IF fails /\ subs[t] THEN stray \cup {t} ELSE stray
  BY DEF DeleteSubscription
<1>4. subs'[t] <=> subs[t] /\ (fails \/ t \in stray)
  BY <1>1, <1>2, Zenon
<1>5. \A u \in Transfers \ {t} : subs'[u] = subs[u]
  BY <1>1, <1>2, Zenon
<1>6. subs' \in [Transfers -> BOOLEAN]
  BY <1>1, <1>2
<1> QED
  BY <1>1, <1>3, <1>4, <1>5, <1>6

\* DoTransfer preserves the inductive invariant.
LEMMA DoTransferStep ==
  ASSUME IInv, NEW t \in Transfers, NEW r \in Requests, DoTransfer(t, r)
  PROVE  IInv'
<1>1. TypeOK'
  <2>1. req' \in [Transfers -> Requests \cup {NULL}]
    BY DEF DoTransfer, CallAddTransfer, filetransfer_request_prepare, IInv, TypeOK
  <2>2. status' \in [Transfers -> Statuses]
    BY DEF DoTransfer, CallAddTransfer, filetransfer_request_prepare, IInv, TypeOK, Statuses
  <2>3. fault' = fault /\ delay' \in [Transfers -> Nat]
    BY DEF DoTransfer, CallAddTransfer, filetransfer_request_prepare, plugin, IInv, TypeOK
  <2>4. disk' = disk \/ disk' = [status |-> status', fault |-> fault']
    BY DEF DoTransfer, CallAddTransfer, filetransfer_request_prepare, Persistent
  <2>5. /\ answer' \in [Transfers -> {"none", "accepted", "denied"}]
        /\ busy' \in Transfers \cup {NULL}
        /\ faults' \in Nat
    BY DEF DoTransfer, CallAddTransfer, BusFails, IInv, TypeOK
  <2>6. UNCHANGED <<selftest, running, fwsub, download>>
    BY DEF DoTransfer, CallAddTransfer, filetransfer_request_prepare, plugin
  <2>7. UNCHANGED <<cwmpd, timers, watch, reported, applied, exits>>
    BY DEF DoTransfer
  <2> QED
    BY <2>1, <2>2, <2>3, <2>4, <2>5, <2>6, <2>7 DEF IInv, TypeOK, timers, watch
<1> USE AcsTransferAssumption, RequestType DEF DoTransfer, CallAddTransfer,
         filetransfer_request_prepare, Persistent, BusFails, Serving, timers,
         watch, plugin, IInv, TypeOK
<1>2. Pristine'
  BY DEF Pristine
<1>3. DownIsEmpty'
  BY DEF DownIsEmpty
<1>4. TimerHasOwner'
  BY DEF TimerHasOwner, Pristine
<1>5. Subscriptions'
  BY DEF Subscriptions, Pristine
<1>6. UpgradeIsSaved'
  BY DEF UpgradeIsSaved
<1>7. OneReporter'
  BY SMTT(30) DEF OneReporter, Sole, OwnKey, Pristine, TimerHasOwner
<1>8. NoForgottenTransfer'
  <2>1. answer'[t] # "accepted"
    BY DEF Pristine
  <2>2. /\ UNCHANGED <<cwmpd, keyTimer, pathTimer, reported>>
        /\ faults' = 0 => faults = 0
    OBVIOUS
  <2>3. ASSUME NEW u \in Transfers, u # t
        PROVE  /\ answer'[u] = answer[u] /\ status'[u] = status[u] /\ req'[u] = req[u]
               /\ busy' # u => busy # u
               /\ OwnKey(u)' => OwnKey(u)
    <3>1. /\ answer'[u] = answer[u] /\ status'[u] = status[u]
          /\ busy' # u => busy # u
      BY <2>3
    <3>2. req' = [req EXCEPT ![t] = r] /\ req[t] = NULL
      BY DEF Pristine
    <3>3. OwnKey(u)' => OwnKey(u)
      BY ONLY <2>3, <3>2, IInv, u \in Transfers, t \in Transfers DEF OwnKey, IInv, TypeOK
    <3> QED
      BY <2>3, <3>1, <3>2, <3>3
  <2> HIDE DEF DoTransfer
  <2> QED
    BY <2>1, <2>2, <2>3 DEF NoForgottenTransfer, Exists
<1> QED
  BY <1>1, <1>2, <1>3, <1>4, <1>5, <1>6, <1>7, <1>8 DEF IInv

\* AddTransferSubscription preserves the inductive invariant.
LEMMA AddTransferSubscriptionStep ==
  ASSUME IInv, NEW t \in Transfers, AddTransferSubscription(t)
  PROVE  IInv'
<1>1. TypeOK'
  <2>1. status[t] # "None"
    BY DEF AddTransferSubscription, IInv, Pristine
  <2>2. req[t].key \in Keys
    BY <2>1, RequestKnown
  <2>3. keyTimer' \in [Keys -> Transfers \cup {NULL}]
    BY <2>2 DEF AddTransferSubscription, Subscribed, timerStart, IInv, TypeOK
  <2>4. subs' \in [Transfers -> BOOLEAN] /\ stray' \subseteq Transfers
    BY DEF AddTransferSubscription, Subscribed, IInv, TypeOK
  <2>5. answer' \in [Transfers -> {"none", "accepted", "denied"}] /\ faults' \in Nat
    BY DEF AddTransferSubscription, Subscribed, BusFails, IInv, TypeOK
  <2> QED
    BY <2>3, <2>4, <2>5 DEF AddTransferSubscription, dm, plugin, IInv, TypeOK
<1> USE AcsTransferAssumption, RequestType DEF AddTransferSubscription,
         Subscribed, timerStart, BusFails, dm, plugin, IInv, TypeOK
<1>2. Pristine'
  BY DEF Pristine
<1>3. DownIsEmpty'
  BY DEF DownIsEmpty
<1>4. TimerHasOwner'
  BY DEF TimerHasOwner, Pristine
<1>5. Subscriptions'
  BY DEF Subscriptions
<1>6. UpgradeIsSaved'
  BY DEF UpgradeIsSaved
<1>7. OneReporter'
  BY DEF OneReporter, Sole, OwnKey, Pristine, Subscriptions
<1>8. NoForgottenTransfer'
  BY DEF NoForgottenTransfer, OwnKey, Exists
<1> QED
  BY <1>1, <1>2, <1>3, <1>4, <1>5, <1>6, <1>7, <1>8 DEF IInv

\* TransferNotification preserves the inductive invariant.
LEMMA TransferNotificationStep ==
  ASSUME IInv, NEW t \in Transfers, TransferNotification(t)
  PROVE  IInv'
<1>0. /\ UNCHANGED <<dm, plugin, cwmpd, busy, pathTimer, answer, applied, exits>>
      /\ notif[t] /\ notif' = [notif EXCEPT ![t] = FALSE]
      /\ cwmpd = "up" /\ busy = NULL
      /\ faults' \in Nat /\ (faults' = 0 => faults = 0)
      /\ \/ UNCHANGED <<keyTimer, reported, subs, stray>>
         \/ \E fails \in BOOLEAN :
               /\ Exists(t)
               /\ keyTimer' = [keyTimer EXCEPT ![req[t].key] = NULL]
               /\ reported' = [reported EXCEPT ![t] = @ + 1]
               /\ DeleteSubscription(t, fails)
  <2>1. /\ UNCHANGED <<dm, plugin, cwmpd, busy, pathTimer, answer, applied, exits>>
        /\ notif[t] /\ notif' = [notif EXCEPT ![t] = FALSE]
        /\ cwmpd = "up" /\ busy = NULL
    BY DEF TransferNotification, Serving
  <2>2. /\ \/ UNCHANGED <<keyTimer, reported, subs, stray>>
           \/ \E fails \in BOOLEAN : TransferCompleteEvent(t, fails)
        /\ BusFails \/ UNCHANGED faults
    BY Zenon DEF TransferNotification
  <2>3. faults' \in Nat /\ (faults' = 0 => faults = 0)
    BY <2>2 DEF BusFails, IInv, TypeOK
  <2>4. ASSUME NEW fails \in BOOLEAN, TransferCompleteEvent(t, fails)
        PROVE  \/ UNCHANGED <<keyTimer, reported, subs, stray>>
               \/ /\ Exists(t)
                  /\ keyTimer' = [keyTimer EXCEPT ![req[t].key] = NULL]
                  /\ reported' = [reported EXCEPT ![t] = @ + 1]
                  /\ DeleteSubscription(t, fails)
    BY <2>4, Zenon DEF TransferCompleteEvent
  <2> QED
    BY <2>1, <2>2, <2>3, <2>4, Zenon
<1>1. CASE UNCHANGED <<keyTimer, reported, subs, stray>>
  <2>1. TypeOK' /\ Pristine' /\ DownIsEmpty' /\ TimerHasOwner'
    BY <1>0, <1>1 DEF dm, plugin, IInv, TypeOK, Pristine, DownIsEmpty, TimerHasOwner
  <2>2. Subscriptions'
    BY <1>0, <1>1 DEF IInv, TypeOK, Subscriptions
  <2>3. UpgradeIsSaved' /\ OneReporter'
    BY <1>0, <1>1 DEF dm, plugin, IInv, UpgradeIsSaved, OneReporter, Sole, OwnKey
  <2>4. NoForgottenTransfer'
    BY <1>0, <1>1 DEF dm, IInv, NoForgottenTransfer, OwnKey, Exists
  <2> QED
    BY <2>1, <2>2, <2>3, <2>4 DEF IInv
<1>2. ASSUME NEW fails \in BOOLEAN, Exists(t),
             keyTimer' = [keyTimer EXCEPT ![req[t].key] = NULL],
             reported' = [reported EXCEPT ![t] = @ + 1],
             DeleteSubscription(t, fails)
      PROVE  IInv'
  <2>0. /\ status[t] # "None" /\ req[t] # NULL /\ req[t].key \in Keys
    BY <1>2, RequestKnown, RequestType DEF Exists
  <2>1. /\ subs' \in [Transfers -> BOOLEAN]
        /\ stray' \subseteq Transfers
        /\ stray \subseteq stray' /\ stray' \subseteq stray \cup {t}
        /\ \A u \in Transfers \ {t} : subs'[u] = subs[u]
        /\ subs'[t] <=> t \in stray'
    BY <1>2, DeletedFacts
  <2>2. TypeOK'
    <3>1. keyTimer' \in [Keys -> Transfers \cup {NULL}] /\ reported' \in [Transfers -> Nat]
      BY <1>2, <2>0 DEF IInv, TypeOK
    <3> QED
      BY <1>0, <2>1, <3>1 DEF dm, plugin, IInv, TypeOK
  <2>3. Pristine'
    BY <1>0, <1>2, <2>0, <2>1 DEF dm, IInv, TypeOK, Pristine
  <2>4. DownIsEmpty' /\ TimerHasOwner'
    BY <1>0, <1>2, <2>0 DEF dm, IInv, TypeOK, DownIsEmpty, TimerHasOwner
  <2>5. Subscriptions'
    <3>1. pathTimer[t] = NULL
      BY <1>0 DEF IInv, Subscriptions
    <3>2. \A u \in Transfers \ {t} : notif'[u] = notif[u]
      BY <1>0 DEF IInv, TypeOK
    <3>3. notif'[t] = FALSE
      BY <1>0 DEF IInv, TypeOK
    <3> QED
      BY <1>0, <2>1, <3>1, <3>2, <3>3, AcsTransferAssumption DEF IInv, Subscriptions
  <2>6. UpgradeIsSaved'
    BY <1>0 DEF dm, plugin, IInv, UpgradeIsSaved
  <2>7. OneReporter'
    BY <1>0, <1>2, <2>0, <2>1, AcsTransferAssumption
       DEF dm, IInv, TypeOK, OneReporter, Sole, OwnKey, Subscriptions, TimerHasOwner
  <2>8. NoForgottenTransfer'
    <3>1. reported'[t] > 0
      BY <1>2 DEF IInv, TypeOK
    <3>2. ASSUME NEW u \in Transfers, u # t, OwnKey(u)
          PROVE  reported'[u] = reported[u] /\ keyTimer'[req[u].key] = keyTimer[req[u].key]
      <4>1. req[u].key # req[t].key
        BY <2>0, <3>2 DEF OwnKey
      <4> QED
        BY <1>2, <3>2, <4>1 DEF IInv, TypeOK
    <3> QED
      BY <1>0, <3>1, <3>2 DEF dm, IInv, NoForgottenTransfer, OwnKey, Exists
  <2> QED
    BY <2>2, <2>3, <2>4, <2>5, <2>6, <2>7, <2>8 DEF IInv
<1> QED
  BY <1>0, <1>1, <1>2

\* TransferTimedOut preserves the inductive invariant.
LEMMA TransferTimedOutStep ==
  ASSUME IInv, NEW k \in Keys, TransferTimedOut(k)
  PROVE  IInv'
<1>0. /\ UNCHANGED <<req, disk, plugin, cwmpd, busy, pathTimer, answer, applied, exits>>
      /\ keyTimer[k] # NULL /\ keyTimer' = [keyTimer EXCEPT ![k] = NULL]
      /\ cwmpd = "up" /\ busy = NULL
  BY DEF TransferTimedOut, Serving
<1>1. CASE /\ IF \E t \in Transfers : Exists(t) /\ req[t].key = k
              THEN BusFails ELSE UNCHANGED faults
           /\ UNCHANGED <<status, fault, watch, reported>>
  <2>0. faults' \in Nat
    BY <1>1 DEF BusFails, IInv, TypeOK
  <2>1. TypeOK' /\ Pristine' /\ DownIsEmpty' /\ TimerHasOwner'
    BY <1>0, <1>1, <2>0 DEF plugin, watch, IInv, TypeOK, Pristine, DownIsEmpty, TimerHasOwner
  <2>2. Subscriptions'
    BY <1>0, <1>1 DEF watch, IInv, Subscriptions
  <2>3. UpgradeIsSaved' /\ OneReporter'
    BY <1>0, <1>1 DEF plugin, watch, IInv, TypeOK, UpgradeIsSaved, OneReporter, Sole, OwnKey
  <2>4. NoForgottenTransfer'
    <3>1. CASE faults' = faults + 1
      BY <3>1 DEF IInv, TypeOK, NoForgottenTransfer
    <3>2. CASE faults' = faults /\ ~\E t \in Transfers : Exists(t) /\ req[t].key = k
      BY <1>0, <1>1, <3>2 DEF IInv, TypeOK, NoForgottenTransfer, OwnKey, Exists
    <3> QED
      BY <1>1, <3>1, <3>2 DEF BusFails
  <2> QED
    BY <2>1, <2>2, <2>3, <2>4 DEF IInv
<1>2. ASSUME NEW t \in Transfers, NEW lost \in SUBSET {"unsubscribe", "write", "report"},
             Exists(t), req[t].key = k, TimedOut(t, lost),
             IF lost = {} THEN UNCHANGED faults ELSE BusFails
      PROVE  IInv'
  <2>0. status[t] # "None" /\ req[t] # NULL /\ status[t] \in Statuses
    BY <1>2, RequestKnown, RequestType DEF Exists, IInv, TypeOK
  <2>1. DeleteSubscription(t, "unsubscribe" \in lost)
    BY <1>2 DEF TimedOut
  <2>2. /\ subs' \in [Transfers -> BOOLEAN]
        /\ stray' \subseteq Transfers
        /\ stray \subseteq stray' /\ stray' \subseteq stray \cup {t}
        /\ \A u \in Transfers \ {t} : subs'[u] = subs[u]
        /\ subs'[t] <=> t \in stray'
    <3> DEFINE fails == "unsubscribe" \in lost
    <3>1. fails \in BOOLEAN
      OBVIOUS
    <3> HIDE DEF fails
    <3>2. DeleteSubscription(t, fails)
      BY <2>1 DEF fails
    <3> QED
      BY <3>1, <3>2, DeletedFacts
  <2>3. \/ UNCHANGED <<status, fault>>
        \/ /\ status' = [status EXCEPT ![t] = "Finished"]
           /\ fault' = [fault EXCEPT ![t] = TRUE]
    BY <1>2, Zenon DEF TimedOut
  <2>4. /\ status' \in [Transfers -> Statuses] /\ fault' \in [Transfers -> BOOLEAN]
        /\ \A u \in Transfers \ {t} : status'[u] = status[u]
        /\ status'[t] \in {status[t], "Finished"}
    BY <2>3 DEF IInv, TypeOK, Statuses
  <2>5. notif' = [notif EXCEPT ![t] = subs'[t] /\ (notif[t] \/ status'[t] # status[t])]
    BY <1>2 DEF TimedOut
  <2>6. /\ notif' \in [Transfers -> BOOLEAN]
        /\ \A u \in Transfers \ {t} : notif'[u] = notif[u]
        /\ notif'[t] => subs'[t]
    <3>1. notif \in [Transfers -> BOOLEAN]
      BY DEF IInv, TypeOK
    <3> QED
      BY <2>5, <3>1, Zenon
  <2>7. \/ reported' = reported /\ lost # {}
        \/ reported' = [reported EXCEPT ![t] = @ + 1]
    BY <1>2, Zenon DEF TimedOut
  <2>8. faults' \in Nat /\ (faults' = 0 => faults = 0 /\ lost = {})
    BY <1>2 DEF BusFails, IInv, TypeOK
  <2>9. TypeOK'
    <3>1. keyTimer' \in [Keys -> Transfers \cup {NULL}] /\ reported' \in [Transfers -> Nat]
      BY <1>0, <2>7 DEF IInv, TypeOK
    <3> QED
      BY <1>0, <2>2, <2>4, <2>6, <2>8, <3>1 DEF plugin, IInv, TypeOK
  <2>10. Pristine'
    BY <1>0, <2>0, <2>2, <2>4, <2>7 DEF IInv, TypeOK, Pristine
  <2>11. DownIsEmpty' /\ TimerHasOwner'
    BY <1>0 DEF IInv, TypeOK, DownIsEmpty, TimerHasOwner
  <2>12. pathTimer[t] # NULL => subs[t] = FALSE /\ t \notin stray
    BY DEF IInv, Subscriptions
  <2>13. pathTimer[t] # NULL => t \notin stray'
    BY <2>1, <2>12 DEF DeleteSubscription
  <2>14. Subscriptions'
    BY <1>0, <2>2, <2>6, <2>12, <2>13, AcsTransferAssumption DEF IInv, Subscriptions
  <2>15. UpgradeIsSaved'
    BY <1>0, <2>0, <2>4 DEF plugin, IInv, TypeOK, UpgradeIsSaved, Statuses
  <2>16. OneReporter'
    BY <1>0, <1>2, <2>0, <2>2, <2>7, AcsTransferAssumption
       DEF IInv, TypeOK, OneReporter, Sole, OwnKey
  <2>17. NoForgottenTransfer'
    <3>1. CASE lost # {}
      BY <2>8, <3>1 DEF NoForgottenTransfer
    <3>2. CASE lost = {}
      <4>1. reported'[t] > 0
        BY <2>7, <3>2 DEF IInv, TypeOK
      <4>2. ASSUME NEW u \in Transfers, u # t, OwnKey(u)
            PROVE  reported'[u] = reported[u] /\ keyTimer'[req[u].key] = keyTimer[req[u].key]
        <5>1. req[u].key # k
          BY <1>2, <2>0, <4>2 DEF OwnKey
        <5> QED
          BY <1>0, <2>7, <4>2, <5>1 DEF IInv, TypeOK
      <4> QED
        BY <1>0, <2>4, <2>8, <4>1, <4>2 DEF IInv, NoForgottenTransfer, OwnKey, Exists
    <3> QED
      BY <3>1, <3>2
  <2> QED
    BY <2>9, <2>10, <2>11, <2>14, <2>15, <2>16, <2>17 DEF IInv
<1> QED
  BY <1>1, <1>2, Zenon DEF TransferTimedOut

\* PathTimer preserves the inductive invariant.
LEMMA PathTimerStep ==
  ASSUME IInv, NEW t \in Transfers, PathTimer(t)
  PROVE  IInv'
<1>0. /\ cwmpd = "up" /\ busy = NULL
      /\ pathTimer[t] # NULL /\ pathTimer' = [pathTimer EXCEPT ![t] = NULL]
      /\ UNCHANGED <<cwmpd, applied, exits>>
  BY DEF PathTimer, Serving
<1>1. pathTimer' \in [Transfers -> {"RestartTransfer", "TransferCompleteEvent", NULL}]
  BY <1>0 DEF IInv, TypeOK
<1>2. status[t] # "None" /\ req[t] # NULL /\ req[t].key \in Keys
  BY <1>0, RequestKnown, RequestType DEF IInv, Pristine
<1>3. CASE /\ Exists(t) /\ pathTimer[t] = "RestartTransfer"
           /\ CallAddTransfer(t, req, FALSE)
           /\ UNCHANGED <<keyTimer, watch, reported>>
  <2>1. UNCHANGED <<selftest, running, fwsub, download>>
    BY <1>3 DEF CallAddTransfer, filetransfer_request_prepare, plugin
  <2>2. /\ req' = req /\ fault' = fault
        /\ status' = status
        /\ delay' \in [Transfers -> Nat]
        /\ \A u \in Transfers \ {t} : delay'[u] = delay[u]
    BY <1>3 DEF CallAddTransfer, filetransfer_request_prepare, plugin, Exists, IInv, TypeOK
  <2>3. disk' = disk \/ disk' = [status |-> status', fault |-> fault']
    BY <1>3 DEF CallAddTransfer, filetransfer_request_prepare, Persistent
  <2>4. /\ answer' \in [Transfers -> {"none", "accepted", "denied"}]
        /\ \A u \in Transfers \ {t} : answer'[u] = answer[u]
        /\ answer'[t] = "accepted" => answer[t] = "accepted"
    BY <1>3 DEF CallAddTransfer, IInv, TypeOK
  <2>5. \/ busy' = t /\ faults' = faults
        \/ busy' = NULL /\ faults' = faults + 1
    BY <1>0, <1>3, Zenon DEF CallAddTransfer, BusFails
  <2>6. TypeOK'
    BY <1>0, <1>1, <1>3, <2>1, <2>2, <2>3, <2>4, <2>5 DEF watch, IInv, TypeOK
  <2>7. Pristine'
    BY <1>0, <1>2, <1>3, <2>2, <2>3, <2>4, <2>5, AcsTransferAssumption DEF watch, IInv, TypeOK, Pristine
  <2>8. DownIsEmpty' /\ TimerHasOwner'
    BY <1>0, <1>3, <2>2 DEF IInv, DownIsEmpty, TimerHasOwner
  <2>9. Subscriptions'
    BY <1>0, <1>3, <2>5, AcsTransferAssumption DEF watch, IInv, TypeOK, Subscriptions
  <2>10. UpgradeIsSaved'
    BY <1>0, <1>3, <2>1, <2>2, <2>3 DEF IInv, TypeOK, UpgradeIsSaved
  <2>11. OneReporter'
    BY <1>0, <1>3, <2>2, <2>5, AcsTransferAssumption
       DEF watch, IInv, TypeOK, OneReporter, Sole, OwnKey
  <2>12. NoForgottenTransfer'
    <3>1. CASE faults' = faults + 1
      BY <3>1 DEF IInv, TypeOK, NoForgottenTransfer
    <3>2. CASE busy' = t /\ faults' = faults
      <4>1. ASSUME NEW u \in Transfers, u # t
            PROVE  pathTimer'[u] = pathTimer[u] /\ answer'[u] = answer[u] /\ busy # u
        BY <1>0, <2>4, <4>1, AcsTransferAssumption DEF IInv, TypeOK
      <4>2. /\ UNCHANGED <<cwmpd, status, req, keyTimer, reported>>
            /\ busy' = t /\ faults' = faults
        BY <1>0, <1>3, <2>2, <3>2
      <4> QED
        BY <4>1, <4>2 DEF IInv, NoForgottenTransfer, OwnKey, Exists
    <3> QED
      BY <2>5, <3>1, <3>2
  <2> QED
    BY <2>6, <2>7, <2>8, <2>9, <2>10, <2>11, <2>12 DEF IInv
<1>4. ASSUME UNCHANGED <<dm, plugin, busy, subs, stray, notif, answer>>,
             faults' \in {faults, faults + 1},
             \/ UNCHANGED <<keyTimer, reported>> /\ (~Exists(t) \/ faults' = faults + 1)
             \/ /\ Exists(t)
                /\ keyTimer' = [keyTimer EXCEPT ![req[t].key] = NULL]
                /\ reported' = [reported EXCEPT ![t] = @ + 1]
      PROVE  IInv'
  <2>1. TypeOK'
    <3>1. keyTimer' \in [Keys -> Transfers \cup {NULL}] /\ reported' \in [Transfers -> Nat]
      BY <1>2, <1>4 DEF IInv, TypeOK
    <3> QED
      BY <1>0, <1>1, <1>4, <3>1 DEF dm, plugin, IInv, TypeOK
  <2>2. Pristine'
    BY <1>0, <1>2, <1>4 DEF dm, IInv, TypeOK, Pristine
  <2>3. DownIsEmpty' /\ TimerHasOwner'
    BY <1>0, <1>2, <1>4 DEF dm, IInv, TypeOK, DownIsEmpty, TimerHasOwner
  <2>4. Subscriptions'
    BY <1>0, <1>4 DEF IInv, TypeOK, Subscriptions
  <2>5. UpgradeIsSaved'
    BY <1>0, <1>4, AcsTransferAssumption DEF dm, plugin, IInv, TypeOK, UpgradeIsSaved
  <2>6. OneReporter'
    BY <1>0, <1>2, <1>4, AcsTransferAssumption
       DEF dm, IInv, TypeOK, OneReporter, Sole, OwnKey, TimerHasOwner
  <2>7. NoForgottenTransfer'
    <3>1. CASE UNCHANGED <<keyTimer, reported>> /\ (~Exists(t) \/ faults' = faults + 1)
      BY <1>0, <1>4, <3>1 DEF dm, IInv, TypeOK, NoForgottenTransfer, OwnKey, Exists
    <3>2. CASE /\ Exists(t)
               /\ keyTimer' = [keyTimer EXCEPT ![req[t].key] = NULL]
               /\ reported' = [reported EXCEPT ![t] = @ + 1]
      <4>1. reported'[t] > 0
        BY <3>2 DEF IInv, TypeOK
      <4>2. ASSUME NEW u \in Transfers, u # t, OwnKey(u)
            PROVE  /\ reported'[u] = reported[u] /\ pathTimer'[u] = pathTimer[u]
                   /\ keyTimer'[req[u].key] = keyTimer[req[u].key]
        <5>1. req[u].key # req[t].key
          BY <1>2, <4>2 DEF OwnKey
        <5> QED
          BY <1>0, <3>2, <4>2, <5>1 DEF IInv, TypeOK
      <4>3. faults' = 0 => faults = 0
        BY <1>4 DEF IInv, TypeOK
      <4> QED
        BY <1>0, <1>4, <4>1, <4>2, <4>3 DEF dm, IInv, NoForgottenTransfer, OwnKey, Exists
    <3> QED
      BY <1>4, <3>1, <3>2
  <2> QED
    BY <2>1, <2>2, <2>3, <2>4, <2>5, <2>6, <2>7 DEF IInv
<1>5. CASE /\ TransferCompleteEvent(t, FALSE)
           /\ UNCHANGED <<dm, plugin, busy, notif, answer, faults>>
  <2>1. subs \in [Transfers -> BOOLEAN] /\ subs[t] = FALSE /\ t \notin stray
    BY <1>0 DEF IInv, TypeOK, Subscriptions
  <2>2. DeleteSubscription(t, FALSE) => UNCHANGED <<subs, stray>>
    BY <2>1, Zenon DEF DeleteSubscription
  <2>3. /\ UNCHANGED <<subs, stray>>
        /\ \/ UNCHANGED <<keyTimer, reported>> /\ ~Exists(t)
           \/ /\ Exists(t)
              /\ keyTimer' = [keyTimer EXCEPT ![req[t].key] = NULL]
              /\ reported' = [reported EXCEPT ![t] = @ + 1]
    BY <1>5, <2>2, Zenon DEF TransferCompleteEvent
  <2> QED
    BY <1>4, <1>5, <2>3
<1>6. CASE /\ BusFails
           /\ UNCHANGED <<dm, plugin, busy, answer, keyTimer, watch, reported>>
  BY <1>4, <1>6 DEF BusFails, watch
<1> QED
  BY <1>3, <1>5, <1>6, Zenon DEF PathTimer

\* TransferDoneAcknowledged preserves the inductive invariant.
LEMMA TransferDoneAcknowledgedStep ==
  ASSUME IInv, NEW t \in Transfers, TransferDoneAcknowledged(t)
  PROVE  IInv'
<1>1. TypeOK'
  BY AcsTransferAssumption DEF TransferDoneAcknowledged, BusFails, Serving,
         plugin, timers, watch, IInv, TypeOK, Statuses
<1> USE AcsTransferAssumption, RequestType DEF TransferDoneAcknowledged,
         BusFails, Serving, plugin, timers, watch, IInv, TypeOK
<1>2. Pristine'
  BY DEF Pristine
<1>3. DownIsEmpty'
  BY DEF DownIsEmpty
<1>4. TimerHasOwner'
  BY DEF TimerHasOwner
<1>5. Subscriptions'
  BY DEF Subscriptions
<1>6. UpgradeIsSaved'
  BY DEF UpgradeIsSaved
<1>7. OneReporter'
  BY DEF OneReporter, Sole, OwnKey
<1>8. NoForgottenTransfer'
  BY DEF NoForgottenTransfer, OwnKey, Exists
<1> QED
  BY <1>1, <1>2, <1>3, <1>4, <1>5, <1>6, <1>7, <1>8 DEF IInv

\* CwmpdExits preserves the inductive invariant.
LEMMA CwmpdExitsStep ==
  ASSUME IInv, CwmpdExits
  PROVE  IInv'
<1>1. TypeOK'
  BY AcsTransferAssumption DEF CwmpdExits, All, AllKeys, dm, plugin, IInv,
         TypeOK, Statuses
<1> USE AcsTransferAssumption, RequestType DEF CwmpdExits, All, AllKeys, dm,
         plugin, IInv, TypeOK
<1>2. Pristine'
  BY DEF Pristine
<1>3. DownIsEmpty'
  BY DEF DownIsEmpty
<1>4. TimerHasOwner'
  BY DEF TimerHasOwner
<1>5. Subscriptions'
  BY DEF Subscriptions
<1>6. UpgradeIsSaved'
  BY DEF UpgradeIsSaved
<1>7. OneReporter'
  BY DEF OneReporter, Sole, OwnKey
<1>8. NoForgottenTransfer'
  BY DEF NoForgottenTransfer, OwnKey, Exists
<1> QED
  BY <1>1, <1>2, <1>3, <1>4, <1>5, <1>6, <1>7, <1>8 DEF IInv

\* CwmpdStarts preserves the inductive invariant.
LEMMA CwmpdStartsStep ==
  ASSUME IInv, CwmpdStarts
  PROVE  IInv'
<1>1. TypeOK'
  BY AcsTransferAssumption DEF CwmpdStarts, UpDownloadInitialize, plugin, watch,
         ghosts, IInv, TypeOK, Statuses
<1> USE AcsTransferAssumption, RequestType DEF CwmpdStarts,
         UpDownloadInitialize, plugin, watch, ghosts, IInv, TypeOK
<1>2. Pristine'
  BY DEF Pristine
<1>3. DownIsEmpty'
  BY DEF DownIsEmpty
<1>4. TimerHasOwner'
  BY DEF TimerHasOwner, Pristine
<1>5. Subscriptions'
  BY DEF Subscriptions, DownIsEmpty
<1>6. UpgradeIsSaved'
  BY DEF UpgradeIsSaved
<1>7. OneReporter'
  BY DEF OneReporter, Sole, OwnKey, Pristine, DownIsEmpty
<1>8. NoForgottenTransfer'
  BY DEF NoForgottenTransfer, OwnKey, Exists, Pristine
<1> QED
  BY <1>1, <1>2, <1>3, <1>4, <1>5, <1>6, <1>7, <1>8 DEF IInv

\* DelayTimer preserves the inductive invariant.
LEMMA DelayTimerStep ==
  ASSUME IInv, NEW t \in Transfers, DelayTimer(t)
  PROVE  IInv'
<1>1. TypeOK'
  <2>0. /\ delay' \in [Transfers -> Nat]
        /\ UNCHANGED <<cwmpd, busy, timers, reported, ghosts>>
    BY DEF DelayTimer, IInv, TypeOK
  <2>1. CASE download_timer_cb(t) /\ UNCHANGED <<selftest, running>>
    <3>1. /\ status' \in [Transfers -> Statuses]
          /\ fault' \in [Transfers -> BOOLEAN]
          /\ notif' \in [Transfers -> BOOLEAN]
      <4>1. CASE Write(t, "Applying", fault[t])
        <5>1. fault[t] \in BOOLEAN /\ "Applying" \in Statuses
          BY DEF IInv, TypeOK, Statuses
        <5> QED
          BY <4>1, <5>1, WriteType
      <4>2. CASE /\ status' = [status EXCEPT ![t] = "Finished"]
                 /\ fault' = [fault EXCEPT ![t] = TRUE]
                 /\ notif' = [notif EXCEPT ![t] = @ \/ subs[t]]
        BY <4>2 DEF IInv, TypeOK, Statuses
      <4> QED
        BY <2>1, <4>1, <4>2 DEF download_timer_cb
    <3>2. /\ fwsub' \in [Transfers -> BOOLEAN]
          /\ download' \in Transfers \cup {NULL}
          /\ UNCHANGED <<req, subs, stray>>
          /\ disk' = [status |-> status', fault |-> fault']
      BY <2>1 DEF download_timer_cb, Persistent, IInv, TypeOK
    <3> QED
      BY <2>0, <2>1, <3>1, <3>2 DEF timers, ghosts, IInv, TypeOK
  <2>2. CASE UNCHANGED <<dm, watch, selftest, running, fwsub, download>>
    BY <2>0, <2>2 DEF dm, watch, timers, ghosts, IInv, TypeOK
  <2>3. CASE /\ running' = [running EXCEPT ![t] = @ + 1]
             /\ UNCHANGED <<dm, watch, selftest, fwsub, download>>
    BY <2>0, <2>3 DEF dm, watch, timers, ghosts, IInv, TypeOK
  <2>4. CASE /\ selftest' = [selftest EXCEPT ![t] = @ + 1]
             /\ UNCHANGED <<dm, watch, running, fwsub, download>>
    BY <2>0, <2>4 DEF dm, watch, timers, ghosts, IInv, TypeOK
  <2>5. CASE upload_vendor_file(t) /\ UNCHANGED <<selftest, fwsub, download>>
    BY <2>0, <2>5, UploadType DEF timers, ghosts, IInv, TypeOK
  <2> QED
    BY <2>1, <2>2, <2>3, <2>4, <2>5 DEF DelayTimer, start_timer_cb,
         filetransfer_upload_prepare
<1> USE AcsTransferAssumption, RequestType DEF DelayTimer, download_timer_cb,
         start_timer_cb, filetransfer_upload_prepare,
         upload_vendor_file, transfer_update_status, Write, Persistent,
         Exists, dm, timers, watch, ghosts, IInv, TypeOK
<1>2. Pristine'
  BY DEF Pristine
<1>3. DownIsEmpty'
  BY DEF DownIsEmpty
<1>4. TimerHasOwner'
  BY DEF TimerHasOwner
<1>5. Subscriptions'
  BY DEF Subscriptions
<1>6. UpgradeIsSaved'
  BY DEF UpgradeIsSaved
<1>7. OneReporter'
  BY DEF OneReporter, Sole, OwnKey
<1>8. NoForgottenTransfer'
  BY DEF NoForgottenTransfer, OwnKey
<1> QED
  BY <1>1, <1>2, <1>3, <1>4, <1>5, <1>6, <1>7, <1>8 DEF IInv

\* SelfTestDone preserves the inductive invariant.
LEMMA SelfTestDoneStep ==
  ASSUME IInv, NEW t \in Transfers, SelfTestDone(t)
  PROVE  IInv'
<1>1. TypeOK'
  <2>1. selftest' \in [Transfers -> Nat]
    BY DEF SelfTestDone, IInv, TypeOK
  <2> QED
    BY <2>1, UploadType DEF SelfTestDone, timers, ghosts, IInv, TypeOK
<1> USE AcsTransferAssumption, RequestType DEF SelfTestDone,
         upload_vendor_file, transfer_update_status, Write, Exists, dm,
         timers, watch, ghosts, IInv, TypeOK
<1>2. Pristine'
  BY DEF Pristine
<1>3. DownIsEmpty'
  BY DEF DownIsEmpty
<1>4. TimerHasOwner'
  BY DEF TimerHasOwner
<1>5. Subscriptions'
  BY DEF Subscriptions
<1>6. UpgradeIsSaved'
  BY DEF UpgradeIsSaved
<1>7. OneReporter'
  BY DEF OneReporter, Sole, OwnKey
<1>8. NoForgottenTransfer'
  BY DEF NoForgottenTransfer, OwnKey
<1> QED
  BY <1>1, <1>2, <1>3, <1>4, <1>5, <1>6, <1>7, <1>8 DEF IInv

\* TransferEnds preserves the inductive invariant.
LEMMA TransferEndsStep ==
  ASSUME IInv, NEW t \in Transfers, NEW fc \in BOOLEAN, TransferEnds(t, fc)
  PROVE  IInv'
<1>1. TypeOK'
  BY AcsTransferAssumption DEF TransferEnds, transfer_update_status, Write,
         Exists, dm, timers, watch, ghosts, IInv, TypeOK, Statuses
<1> USE AcsTransferAssumption, RequestType DEF TransferEnds,
         transfer_update_status, Write, Exists, dm, timers, watch, ghosts,
         IInv, TypeOK
<1>2. Pristine'
  BY DEF Pristine
<1>3. DownIsEmpty'
  BY DEF DownIsEmpty
<1>4. TimerHasOwner'
  BY DEF TimerHasOwner
<1>5. Subscriptions'
  BY DEF Subscriptions
<1>6. UpgradeIsSaved'
  BY DEF UpgradeIsSaved
<1>7. OneReporter'
  BY DEF OneReporter, Sole, OwnKey
<1>8. NoForgottenTransfer'
  BY DEF NoForgottenTransfer, OwnKey
<1> QED
  BY <1>1, <1>2, <1>3, <1>4, <1>5, <1>6, <1>7, <1>8 DEF IInv

\* FirmwareFailed preserves the inductive invariant.
LEMMA FirmwareFailedStep ==
  ASSUME IInv, FirmwareFailed
  PROVE  IInv'
<1>1. TypeOK'
  BY AcsTransferAssumption DEF FirmwareFailed, Exists, timers, ghosts, IInv,
         TypeOK, Statuses
<1> USE AcsTransferAssumption, RequestType DEF FirmwareFailed, Exists, timers,
         ghosts, IInv, TypeOK
<1>2. Pristine'
  BY DEF Pristine
<1>3. DownIsEmpty'
  BY DEF DownIsEmpty
<1>4. TimerHasOwner'
  BY DEF TimerHasOwner
<1>5. Subscriptions'
  BY DEF Subscriptions
<1>6. UpgradeIsSaved'
  BY DEF UpgradeIsSaved
<1>7. OneReporter'
  BY DEF OneReporter, Sole, OwnKey
<1>8. NoForgottenTransfer'
  BY DEF NoForgottenTransfer, OwnKey
<1> QED
  BY <1>1, <1>2, <1>3, <1>4, <1>5, <1>6, <1>7, <1>8 DEF IInv

\* FirmwareApplied preserves the inductive invariant.
LEMMA FirmwareAppliedStep ==
  ASSUME IInv, FirmwareApplied
  PROVE  IInv'
<1>1. TypeOK'
  BY AcsTransferAssumption DEF FirmwareApplied, Restarted, All, AllKeys, IInv,
         TypeOK, Statuses
<1> USE AcsTransferAssumption, RequestType DEF FirmwareApplied, Restarted,
         All, AllKeys, IInv, TypeOK
<1>2. Pristine'
  BY DEF Pristine
<1>3. DownIsEmpty'
  BY DEF DownIsEmpty
<1>4. TimerHasOwner'
  BY DEF TimerHasOwner
<1>5. Subscriptions'
  BY DEF Subscriptions
<1>6. UpgradeIsSaved'
  BY DEF UpgradeIsSaved
<1>7. OneReporter'
  BY DEF OneReporter, Sole, OwnKey
<1>8. NoForgottenTransfer'
  BY DEF NoForgottenTransfer, OwnKey, Exists
<1> QED
  BY <1>1, <1>2, <1>3, <1>4, <1>5, <1>6, <1>7, <1>8 DEF IInv

\* PluginRestarts preserves the inductive invariant.
LEMMA PluginRestartsStep ==
  ASSUME IInv, PluginRestarts
  PROVE  IInv'
<1>1. TypeOK'
  BY AcsTransferAssumption DEF PluginRestarts, Restarted, All, AllKeys, IInv,
         TypeOK, Statuses
<1> USE AcsTransferAssumption, RequestType DEF PluginRestarts, Restarted, All,
         AllKeys, IInv, TypeOK
<1>2. Pristine'
  BY DEF Pristine
<1>3. DownIsEmpty'
  BY DEF DownIsEmpty
<1>4. TimerHasOwner'
  BY DEF TimerHasOwner
<1>5. Subscriptions'
  BY DEF Subscriptions
<1>6. UpgradeIsSaved'
  BY DEF UpgradeIsSaved
<1>7. OneReporter'
  BY DEF OneReporter, Sole, OwnKey
<1>8. NoForgottenTransfer'
  BY DEF NoForgottenTransfer, OwnKey, Exists
<1> QED
  BY <1>1, <1>2, <1>3, <1>4, <1>5, <1>6, <1>7, <1>8 DEF IInv

\* Save preserves the inductive invariant.
LEMMA SaveStep ==
  ASSUME IInv, Save
  PROVE  IInv'
<1>1. TypeOK'
  BY AcsTransferAssumption DEF Save, Persistent, plugin, timers, watch, ghosts,
         IInv, TypeOK, Statuses
<1> USE AcsTransferAssumption, RequestType DEF Save, Persistent, plugin,
         timers, watch, ghosts, IInv, TypeOK
<1>2. Pristine'
  BY DEF Pristine
<1>3. DownIsEmpty'
  BY DEF DownIsEmpty
<1>4. TimerHasOwner'
  BY DEF TimerHasOwner
<1>5. Subscriptions'
  BY DEF Subscriptions
<1>6. UpgradeIsSaved'
  BY DEF UpgradeIsSaved
<1>7. OneReporter'
  BY DEF OneReporter, Sole, OwnKey
<1>8. NoForgottenTransfer'
  BY DEF NoForgottenTransfer, OwnKey, Exists
<1> QED
  BY <1>1, <1>2, <1>3, <1>4, <1>5, <1>6, <1>7, <1>8 DEF IInv

-----------------------------------------------------------------------------
\* The initial state satisfies the invariant.
LEMMA InitStep ==
  ASSUME Init
  PROVE  IInv
<1>1. TypeOK
  BY AcsTransferAssumption DEF Init, All, AllKeys, Persistent, TypeOK, Statuses
<1>2. Pristine /\ DownIsEmpty /\ TimerHasOwner /\ Subscriptions
  BY AcsTransferAssumption DEF Init, All, AllKeys, Persistent, Pristine, DownIsEmpty, TimerHasOwner,
         Subscriptions
<1>3. UpgradeIsSaved /\ OneReporter /\ NoForgottenTransfer
  BY AcsTransferAssumption DEF Init, All, AllKeys, UpgradeIsSaved, OneReporter, Sole,
         NoForgottenTransfer, Exists
<1> QED
  BY <1>1, <1>2, <1>3 DEF IInv

\* A stuttering step preserves the invariant.
LEMMA StutterStep ==
  ASSUME IInv, UNCHANGED vars
  PROVE  IInv'
<1>1. TypeOK' /\ Pristine' /\ DownIsEmpty' /\ TimerHasOwner' /\ Subscriptions'
  BY DEF vars, IInv, TypeOK, Pristine, DownIsEmpty, TimerHasOwner, Subscriptions
<1>2. UpgradeIsSaved' /\ OneReporter' /\ NoForgottenTransfer'
  BY DEF vars, IInv, UpgradeIsSaved, OneReporter, Sole, OwnKey, NoForgottenTransfer, Exists
<1> QED
  BY <1>1, <1>2 DEF IInv

\* Every behaviour of cwmpd and the plugin keeps the inductive invariant.
THEOREM Invariance == Spec => []IInv
<1>1. Init => IInv
  BY InitStep
<1>2. IInv /\ [Next]_vars => IInv'
  BY DoTransferStep, AddTransferSubscriptionStep, TransferNotificationStep,
     TransferTimedOutStep, PathTimerStep, TransferDoneAcknowledgedStep,
     CwmpdExitsStep, CwmpdStartsStep, DelayTimerStep, SelfTestDoneStep,
     TransferEndsStep, FirmwareFailedStep, FirmwareAppliedStep,
     PluginRestartsStep, SaveStep, StutterStep DEF Next
<1> QED
  BY <1>1, <1>2, PTL DEF Spec

\* Types are kept, and what is restored from disk has them.
THEOREM TypeCorrect == Spec => []TypeOK
  BY Invariance, PTL DEF IInv

\* An accepted transfer with a key of its own is never forgotten.
THEOREM NothingForgotten == Spec => []NoForgottenTransfer
  BY Invariance, PTL DEF IInv

\* While cwmpd runs, a transfer whose subscription could be deleted is
\* reported at most once.
THEOREM ReportedOnce == Spec => []OneReport
<1>1. IInv => OneReport
  BY DEF IInv, OneReporter, Sole, OneReport
<1> QED
  BY <1>1, Invariance, PTL

\* An upgrade that was booted is not downloaded again.
THEOREM UpgradesOnce == Spec => []NoUpgradeLoop
<1>1. IInv => NoUpgradeLoop
  BY AcsTransferAssumption DEF IInv, TypeOK, UpgradeIsSaved, NoUpgradeLoop
<1> QED
  BY <1>1, Invariance, PTL

-----------------------------------------------------------------------------
(***************************************************************************)
(* The refinement of TransferPromise.                                      *)
(***************************************************************************)

\* The record of a transfer is its instance, which lives on disk too.
RecordIs(s) == CASE s = "None" -> "none" [] s = "Deleted" -> "gone" [] OTHER -> "kept"
RecordOf(f) == [t \in Transfers |-> RecordIs(f[t])]

Promise == INSTANCE TransferPromise WITH
    record <- RecordOf(status), saved <- RecordOf(disk.status),
    complete <- {t \in Transfers : reported[t] > 0}, told <- answer

\* What is reported, or being answered, has an instance.
OnRecord == \A t \in Transfers : reported[t] > 0 \/ busy = t => Exists(t)

\* An instance is neither added nor deleted.
Kept == \A t \in Transfers : RecordIs(status'[t]) = RecordIs(status[t])

\* The data model is saved or not.
DiskStep == disk' = disk \/ disk' = Persistent'

LEMMA RecordFacts ==
    ASSUME IInv
    PROVE  /\ \A t \in Transfers : RecordIs(status[t]) = "none" <=> status[t] = "None"
           /\ \A t \in Transfers : RecordIs(status[t]) = "gone" <=> status[t] = "Deleted"
           /\ \A t \in Transfers : RecordIs(status[t]) = "kept" <=> Exists(t)
BY DEF IInv, TypeOK, Statuses, RecordIs, Exists

LEMMA SavedFacts ==
    ASSUME DiskStep
    PROVE  RecordOf(disk.status)' \in {RecordOf(disk.status), RecordOf(status)'}
<1>1. CASE disk' = disk
  BY <1>1 DEF RecordOf
<1>2. CASE disk' = Persistent'
  <2>1. disk'.status = status'
    BY <1>2 DEF Persistent
  <2> QED BY <2>1 DEF RecordOf
<1> QED BY <1>1, <1>2 DEF DiskStep

LEMMA KeptFacts ==
    ASSUME Kept
    PROVE  RecordOf(status)' = RecordOf(status)
BY DEF Kept, RecordOf

LEMMA QuietMaps ==
    ASSUME Kept, DiskStep, UNCHANGED <<reported, answer>>
    PROVE  Promise!Next
<1>1. {t \in Transfers : reported[t] > 0}' = {t \in Transfers : reported[t] > 0}
  OBVIOUS
<1>2. RecordOf(status)' = RecordOf(status)
  BY KeptFacts
<1>3. RecordOf(disk.status)' \in {RecordOf(disk.status), RecordOf(status)'}
  BY SavedFacts
<1> QED BY <1>1, <1>2, <1>3, Zenon DEF Promise!Next

LEMMA OnRecordKept ==
    ASSUME IInv, OnRecord, IInv', Kept, \A t \in Transfers : reported'[t] > 0 => reported[t] > 0 \/ Exists(t),
           \A t \in Transfers : busy' = t => busy = t \/ Exists(t)
    PROVE  OnRecord'
<1>1. \A t \in Transfers : Exists(t) => Exists(t)'
  BY DEF IInv, TypeOK, Statuses, Kept, RecordIs, Exists
<1> QED BY <1>1 DEF OnRecord

-----------------------------------------------------------------------------
\* The steps of the plugin, and the start of cwmpd, write no more than Status.
LEMMA PluginQuiet ==
    ASSUME IInv, NEW t \in Transfers, NEW fc \in BOOLEAN,
           DelayTimer(t) \/ SelfTestDone(t) \/ TransferEnds(t, fc)
    PROVE  Kept /\ DiskStep /\ UNCHANGED <<reported, answer, busy>>
<1>1. UNCHANGED <<reported, answer, busy>>
  BY DEF DelayTimer, SelfTestDone, TransferEnds, ghosts
<1>2. ASSUME NEW u \in Transfers, NEW v \in BOOLEAN, transfer_update_status(u, v)
      PROVE  Kept /\ DiskStep
  BY <1>2 DEF transfer_update_status, Write, Kept, DiskStep, RecordIs, Exists, dm, IInv, TypeOK
<1>3. CASE UNCHANGED <<dm, watch>>
  BY <1>1, <1>3 DEF Kept, DiskStep, dm
<1>4. ASSUME NEW u \in Transfers, upload_vendor_file(u)
      PROVE  Kept /\ DiskStep
  <2>1. CASE transfer_update_status(u, TRUE)
    BY <2>1, <1>2
  <2> QED BY <1>3, <1>4, <2>1 DEF upload_vendor_file
<1>5. CASE SelfTestDone(t)
  BY <1>1, <1>4, <1>5 DEF SelfTestDone
<1>6. CASE TransferEnds(t, fc)
  BY <1>1, <1>2, <1>6 DEF TransferEnds
<1>7. CASE DelayTimer(t)
  <2>1. CASE Exists(t) /\ download_timer_cb(t)
    <3>1. disk' = Persistent'
      BY <2>1 DEF download_timer_cb
    <3>2. \E s \in {"Applying", "Finished"} : status' = [status EXCEPT ![t] = s]
      BY <2>1 DEF download_timer_cb, Write
    <3>3. Kept
      BY <2>1, <3>2 DEF Kept, RecordIs, Exists, IInv, TypeOK
    <3> QED BY <1>1, <3>1, <3>3 DEF DiskStep
  <2>2. CASE filetransfer_upload_prepare(t)
    BY <1>1, <1>3, <1>4, <2>2 DEF filetransfer_upload_prepare
  <2>3. CASE start_timer_cb(t)
    BY <1>3, <2>3 DEF start_timer_cb
  <2>4. \/ Exists(t) /\ download_timer_cb(t)
        \/ UNCHANGED <<dm, watch>>
        \/ start_timer_cb(t)
        \/ filetransfer_upload_prepare(t)
    BY <1>7, Zenon DEF DelayTimer
  <2> QED BY <1>1, <1>3, <2>1, <2>2, <2>3, <2>4
<1> QED BY <1>5, <1>6, <1>7

LEMMA OthersQuiet ==
    ASSUME IInv, FirmwareFailed \/ Save \/ CwmpdStarts
    PROVE  Kept /\ DiskStep /\ UNCHANGED <<reported, answer, busy>>
<1>1. UNCHANGED <<reported, answer, busy>>
  BY DEF FirmwareFailed, Save, CwmpdStarts, ghosts
<1>2. CASE FirmwareFailed
  <2>1. disk' = disk
    BY <1>2 DEF FirmwareFailed
  <2>2. \A t \in Transfers : status'[t] = status[t] \/ (status'[t] = "Finished" /\ Exists(t))
    BY <1>2 DEF FirmwareFailed
  <2>3. Kept
    BY <2>2 DEF Kept, RecordIs, Exists
  <2> QED BY <1>1, <2>1, <2>3 DEF DiskStep
<1>3. CASE Save
  <2>1. status' = status /\ disk' = Persistent /\ fault' = fault
    BY <1>3 DEF Save
  <2> QED BY <1>1, <2>1 DEF DiskStep, Persistent, Kept
<1>4. CASE CwmpdStarts
  <2>1. disk' = disk
    BY <1>4 DEF CwmpdStarts
  <2>2. \A t \in Transfers : status'[t] = status[t] \/ (status'[t] = "Finished" /\ Exists(t))
    BY <1>4 DEF CwmpdStarts, UpDownloadInitialize, Exists
  <2>3. Kept
    BY <2>2 DEF Kept, RecordIs, Exists
  <2> QED BY <1>1, <2>1, <2>3 DEF DiskStep
<1> QED BY <1>2, <1>3, <1>4

\* A report of an instance, and nothing else that the ACS sees.
LEMMA ReportMaps ==
    ASSUME IInv, NEW t \in Transfers, Exists(t), Kept, disk' = disk, UNCHANGED answer,
           reported' = [reported EXCEPT ![t] = @ + 1]
    PROVE  Promise!Next
<1>1. RecordOf(status)[t] = "kept"
  BY RecordFacts DEF RecordOf
<1>2. RecordOf(status)' = RecordOf(status)
  BY KeptFacts
<1>3. RecordOf(disk.status)' \in {RecordOf(disk.status), RecordOf(status)'}
  BY SavedFacts DEF DiskStep
<1>4. {u \in Transfers : reported[u] > 0}' = {u \in Transfers : reported[u] > 0} \cup {t}
  BY DEF IInv, TypeOK
<1>5. Promise!Report(t)
  BY <1>1, <1>2, <1>4, Zenon DEF Promise!Report
<1> QED BY <1>3, <1>5, Zenon DEF Promise!Next

\* An answer to the RPC, or to nobody when it was given before.
LEMMA AnswerMaps ==
    ASSUME IInv, NEW t \in Transfers, Exists(t), Kept, DiskStep, UNCHANGED reported,
           NEW a \in {"accepted", "denied"},
           answer' = [answer EXCEPT ![t] = IF @ = "none" THEN a ELSE @]
    PROVE  Promise!Next
<1>1. CASE answer[t] = "none"
  <2>1. RecordOf(status)[t] = "kept"
    BY RecordFacts DEF RecordOf
  <2>2. RecordOf(status)' = RecordOf(status)
    BY KeptFacts
  <2>3. RecordOf(disk.status)' \in {RecordOf(disk.status), RecordOf(status)'}
    BY SavedFacts
  <2>4. {u \in Transfers : reported[u] > 0}' = {u \in Transfers : reported[u] > 0}
    OBVIOUS
  <2>5. answer' = [answer EXCEPT ![t] = a]
    BY <1>1 DEF IInv, TypeOK
  <2>6. Promise!Answer(t)
    BY <1>1, <2>1, <2>2, <2>4, <2>5, Zenon DEF Promise!Answer
  <2> QED BY <2>3, <2>6, Zenon DEF Promise!Next
<1>2. CASE answer[t] # "none"
  <2>1. answer' = answer
    BY <1>2 DEF IInv, TypeOK
  <2> QED BY <2>1, QuietMaps
<1> QED BY <1>1, <1>2

\* DoTransfer asks; the plugin may have the transfer although the call failed.
LEMMA DoTransferMaps ==
    ASSUME IInv, NEW t \in Transfers, NEW r \in Requests, DoTransfer(t, r)
    PROVE  /\ Promise!Next
           /\ reported' = reported /\ busy' \in {busy, t}
           /\ \A u \in Transfers : Exists(u) \/ u = t => Exists(u)'
<1>1. status[t] = "None" /\ reported' = reported /\ answer[t] = "none" /\ busy' \in {busy, t}
  BY DEF DoTransfer, CallAddTransfer, IInv, Pristine
<1>2. \E s \in {"Initial", "Applying"} : status' = [status EXCEPT ![t] = s]
  BY <1>1 DEF DoTransfer, CallAddTransfer, filetransfer_request_prepare, IInv, TypeOK
<1>3. DiskStep
  BY DEF DoTransfer, CallAddTransfer, filetransfer_request_prepare, DiskStep
<1>4. answer' \in {answer, [answer EXCEPT ![t] = "denied"]}
  BY <1>1 DEF DoTransfer, CallAddTransfer, IInv, TypeOK
<1>5. \A u \in Transfers : Exists(u) \/ u = t => Exists(u)'
  BY <1>2 DEF Exists, IInv, TypeOK
<1>6. RecordOf(status)[t] = "none"
  BY <1>1 DEF RecordOf, RecordIs
<1>7. RecordOf(status)' = [RecordOf(status) EXCEPT ![t] = "kept"]
  BY <1>2 DEF RecordOf, RecordIs, IInv, TypeOK
<1>8. {u \in Transfers : reported[u] > 0}' = {u \in Transfers : reported[u] > 0}
  BY <1>1
<1>9. Promise!Ask(t)
  BY <1>4, <1>6, <1>7, <1>8, Zenon DEF Promise!Ask
<1>10. RecordOf(disk.status)' \in {RecordOf(disk.status), RecordOf(status)'}
  BY <1>3, SavedFacts
<1> QED BY <1>1, <1>5, <1>9, <1>10, Zenon DEF Promise!Next

\* AddTransferSubscription answers.
LEMMA AddTransferSubscriptionMaps ==
    ASSUME IInv, OnRecord, NEW t \in Transfers, AddTransferSubscription(t)
    PROVE  /\ Promise!Next /\ Kept
           /\ reported' = reported /\ \A u \in Transfers : busy' # u
<1>1. /\ Exists(t) /\ reported' = reported /\ status' = status /\ disk' = disk /\ busy' = NULL
      /\ \E a \in {"accepted", "denied"} :
           answer' = [answer EXCEPT ![t] = IF @ = "none" THEN a ELSE @]
  BY DEF AddTransferSubscription, Subscribed, dm, OnRecord
<1>2. Kept /\ DiskStep
  BY <1>1 DEF Kept, DiskStep
<1> QED BY <1>1, <1>2, AnswerMaps, AcsTransferAssumption

\* TransferCompleteEvent reports an instance, or finds none.
LEMMA CompleteMaps ==
    ASSUME IInv, NEW t \in Transfers, NEW fails, TransferCompleteEvent(t, fails),
           UNCHANGED <<dm, answer>>
    PROVE  /\ Promise!Next
           /\ \A u \in Transfers : reported'[u] > 0 => reported[u] > 0 \/ Exists(u)
<1>1. Kept /\ disk' = disk /\ DiskStep
  BY DEF dm, Kept, DiskStep
<1>2. CASE Exists(t)
  <2>1. reported' = [reported EXCEPT ![t] = @ + 1]
    BY <1>2 DEF TransferCompleteEvent
  <2>2. Promise!Next
    BY <1>1, <1>2, <2>1, ReportMaps
  <2> QED BY <1>2, <2>1, <2>2 DEF IInv, TypeOK
<1>3. CASE ~ Exists(t)
  <2>1. reported' = reported
    BY <1>3 DEF TransferCompleteEvent
  <2> QED BY <1>1, <2>1, QuietMaps
<1> QED BY <1>2, <1>3

LEMMA TransferNotificationMaps ==
    ASSUME IInv, NEW t \in Transfers, TransferNotification(t)
    PROVE  /\ Promise!Next /\ Kept /\ busy' = busy
           /\ \A u \in Transfers : reported'[u] > 0 => reported[u] > 0 \/ Exists(u)
<1>1. UNCHANGED <<dm, busy, answer>> /\ Kept /\ DiskStep
  BY DEF TransferNotification, dm, Kept, DiskStep
<1>2. ASSUME NEW fails \in BOOLEAN, TransferCompleteEvent(t, fails)
      PROVE  /\ Promise!Next /\ Kept /\ busy' = busy
             /\ \A u \in Transfers : reported'[u] > 0 => reported[u] > 0 \/ Exists(u)
  BY <1>1, <1>2, CompleteMaps
<1>3. CASE reported' = reported
  BY <1>1, <1>3, QuietMaps
<1>4. reported' = reported \/ \E fails \in BOOLEAN : TransferCompleteEvent(t, fails)
  BY Zenon DEF TransferNotification
<1> QED BY <1>2, <1>3, <1>4

LEMMA TransferTimedOutMaps ==
    ASSUME IInv, NEW k \in Keys, TransferTimedOut(k)
    PROVE  /\ Promise!Next /\ Kept /\ busy' = busy
           /\ \A u \in Transfers : reported'[u] > 0 => reported[u] > 0 \/ Exists(u)
<1>1. disk' = disk /\ answer' = answer /\ busy' = busy
  BY DEF TransferTimedOut
<1>2. CASE UNCHANGED <<status, reported>>
  <2>1. Kept /\ DiskStep
    BY <1>1, <1>2 DEF Kept, DiskStep
  <2> QED BY <1>1, <1>2, <2>1, QuietMaps
<1>3. ASSUME NEW t \in Transfers, Exists(t),
             status' = status \/ status' = [status EXCEPT ![t] = "Finished"],
             reported' = reported \/ reported' = [reported EXCEPT ![t] = @ + 1]
      PROVE  /\ Promise!Next /\ Kept /\ busy' = busy
             /\ \A u \in Transfers : reported'[u] > 0 => reported[u] > 0 \/ Exists(u)
  <2>1. Kept /\ DiskStep
    BY <1>1, <1>3 DEF Kept, DiskStep, RecordIs, Exists, IInv, TypeOK
  <2>2. Promise!Next
    BY <1>1, <1>3, <2>1, QuietMaps, ReportMaps
  <2> QED BY <1>1, <1>3, <2>1, <2>2 DEF IInv, TypeOK
<1>4. \/ UNCHANGED <<status, reported>>
      \/ \E t \in Transfers :
           /\ Exists(t)
           /\ status' = status \/ status' = [status EXCEPT ![t] = "Finished"]
           /\ reported' = reported \/ reported' = [reported EXCEPT ![t] = @ + 1]
  BY Zenon DEF TransferTimedOut, TimedOut
<1> QED BY <1>2, <1>3, <1>4

LEMMA PathTimerMaps ==
    ASSUME IInv, NEW t \in Transfers, PathTimer(t)
    PROVE  /\ Promise!Next /\ Kept
           /\ \A u \in Transfers : reported'[u] > 0 => reported[u] > 0 \/ Exists(u)
           /\ \A u \in Transfers : busy' = u => busy = u \/ Exists(u)
<1>1. CASE Exists(t) /\ CallAddTransfer(t, req, FALSE) /\ reported' = reported
  <2>1. status' = status
    BY <1>1 DEF CallAddTransfer, filetransfer_request_prepare, Exists, IInv, TypeOK
  <2>2. DiskStep
    BY <1>1 DEF CallAddTransfer, filetransfer_request_prepare, DiskStep
  <2>3. Kept
    BY <2>1 DEF Kept
  <2>4. \/ answer' = answer
        \/ answer' = [answer EXCEPT ![t] = IF @ = "none" THEN "denied" ELSE @]
    BY <1>1 DEF CallAddTransfer
  <2>5. Promise!Next
    BY <1>1, <2>2, <2>3, <2>4, QuietMaps, AnswerMaps
  <2>6. busy' \in {busy, t}
    BY <1>1 DEF CallAddTransfer
  <2> QED BY <1>1, <2>3, <2>5, <2>6
<1>2. CASE TransferCompleteEvent(t, FALSE) /\ UNCHANGED <<dm, busy, answer>>
  <2>1. Kept
    BY <1>2 DEF dm, Kept
  <2> QED BY <1>2, <2>1, CompleteMaps
<1>3. CASE UNCHANGED <<dm, busy, answer, reported>>
  <2>1. Kept /\ DiskStep
    BY <1>3 DEF dm, Kept, DiskStep
  <2> QED BY <1>3, <2>1, QuietMaps
<1>4. \/ Exists(t) /\ CallAddTransfer(t, req, FALSE) /\ reported' = reported
      \/ TransferCompleteEvent(t, FALSE) /\ UNCHANGED <<dm, busy, answer>>
      \/ UNCHANGED <<dm, busy, answer, reported>>
  BY DEF PathTimer
<1> QED BY <1>1, <1>2, <1>3, <1>4

LEMMA AcknowledgedMaps ==
    ASSUME IInv, OnRecord, NEW t \in Transfers, TransferDoneAcknowledged(t)
    PROVE  /\ Promise!Next /\ busy' = busy /\ busy = NULL
           /\ \A u \in Transfers : reported'[u] > 0 => u # t /\ reported[u] > 0
           /\ \A u \in Transfers : u # t => status'[u] = status[u]
<1>1. /\ busy' = busy /\ busy = NULL /\ reported[t] > 0 /\ disk' = disk /\ answer' = answer
      /\ reported' = [reported EXCEPT ![t] = 0]
      /\ status' = status \/ status' = [status EXCEPT ![t] = "Deleted"]
  BY DEF TransferDoneAcknowledged, Serving
<1>2. Exists(t)
  BY <1>1 DEF OnRecord
<1>3. RecordOf(status)[t] = "kept"
  BY <1>2, RecordFacts DEF RecordOf
<1>4. RecordOf(status)' \in {RecordOf(status), [RecordOf(status) EXCEPT ![t] = "gone"]}
  BY <1>1 DEF RecordOf, RecordIs, IInv, TypeOK
<1>5. /\ {u \in Transfers : reported[u] > 0}' = {u \in Transfers : reported[u] > 0} \ {t}
      /\ t \in {u \in Transfers : reported[u] > 0}
  BY <1>1 DEF IInv, TypeOK
<1>6. Promise!Acknowledge(t)
  BY <1>1, <1>3, <1>4, <1>5, Zenon DEF Promise!Acknowledge
<1>7. RecordOf(disk.status)' \in {RecordOf(disk.status), RecordOf(status)'}
  BY <1>1, SavedFacts DEF DiskStep
<1>8. Promise!Next
  BY <1>6, <1>7, Zenon DEF Promise!Next
<1> QED BY <1>1, <1>8 DEF IInv, TypeOK

LEMMA CwmpdExitsMaps ==
    ASSUME IInv, CwmpdExits
    PROVE  /\ Promise!Next /\ busy' = NULL
           /\ \A t \in Transfers : reported'[t] = 0
<1>1. /\ status' = status /\ disk' = disk /\ answer' = answer /\ busy' = NULL
      /\ \A t \in Transfers : reported'[t] = 0
  BY DEF CwmpdExits, dm, All
<1>2. {t \in Transfers : reported[t] > 0}' = {}
  BY <1>1
<1>3. RecordOf(status)' = RecordOf(status) /\ RecordOf(disk.status)' = RecordOf(disk.status)
  BY <1>1 DEF RecordOf
<1>4. Promise!Forget
  BY <1>1, <1>2, <1>3, Zenon DEF Promise!Forget
<1> QED BY <1>1, <1>3, <1>4, Zenon DEF Promise!Next

\* The plugin comes back with the data model of the disk.
LEMMA RestartMaps ==
    ASSUME IInv, Restarted(disk)
    PROVE  /\ Promise!Next /\ busy' = NULL
           /\ \A t \in Transfers : reported'[t] = 0
<1>1. /\ disk' = disk /\ answer' = answer /\ busy' = NULL
      /\ \A t \in Transfers : reported'[t] = 0
      /\ \A t \in Transfers : status'[t] = IF disk.status[t] = "None" /\ status[t] # "None"
                                           THEN "Deleted" ELSE disk.status[t]
  BY DEF Restarted, All
<1>2. {t \in Transfers : reported[t] > 0}' = {}
  BY <1>1
<1>3. RecordOf(disk.status)' = RecordOf(disk.status)
  BY <1>1 DEF RecordOf
<1>4. RecordOf(status)' = [t \in Transfers |->
         IF RecordOf(disk.status)[t] = "none" /\ RecordOf(status)[t] # "none"
         THEN "gone" ELSE RecordOf(disk.status)[t]]
  <2>1. ASSUME NEW t \in Transfers
        PROVE  RecordIs(status'[t]) = IF RecordIs(disk.status[t]) = "none" /\ RecordIs(status[t]) # "none"
                                      THEN "gone" ELSE RecordIs(disk.status[t])
    BY <1>1 DEF RecordIs
  <2> QED BY <2>1 DEF RecordOf
<1>5. Promise!Restart
  BY <1>1, <1>2, <1>3, <1>4, Zenon DEF Promise!Restart
<1> QED BY <1>1, <1>5, Zenon DEF Promise!Next

LEMMA PromiseInit == Init => Promise!Init /\ OnRecord
<1> SUFFICES ASSUME Init PROVE Promise!Init /\ OnRecord
  OBVIOUS
<1>1. \A t \in Transfers : status[t] = "None" /\ disk.status[t] = "None" /\ reported[t] = 0
  BY DEF Init, Persistent, All
<1>2. RecordOf(status) = Promise!All("none") /\ RecordOf(disk.status) = Promise!All("none")
  BY <1>1 DEF RecordOf, RecordIs, Promise!All
<1>3. {t \in Transfers : reported[t] > 0} = {} /\ answer = Promise!All("none")
  BY <1>1 DEF Init, All, Promise!All
<1>4. OnRecord
  BY <1>1, AcsTransferAssumption DEF Init, OnRecord
<1> QED BY <1>2, <1>3, <1>4, Zenon DEF Promise!Init

\* Every step of cwmpd and of the plugin is one of the promise, or changes
\* nothing of it.
LEMMA PromiseStep ==
    ASSUME IInv, IInv', OnRecord, [Next]_vars
    PROVE  OnRecord' /\ [Promise!Next]_Promise!vars
<1>1. ASSUME NEW t \in Transfers, NEW r \in Requests, DoTransfer(t, r)
      PROVE  OnRecord' /\ Promise!Next
  <2>1. /\ Promise!Next
        /\ reported' = reported /\ busy' \in {busy, t}
        /\ \A u \in Transfers : Exists(u) \/ u = t => Exists(u)'
    BY <1>1, DoTransferMaps
  <2> QED BY <2>1 DEF OnRecord
<1>2. ASSUME NEW t \in Transfers, AddTransferSubscription(t)
      PROVE  OnRecord' /\ Promise!Next
  <2>1. /\ Promise!Next /\ Kept
        /\ reported' = reported /\ \A u \in Transfers : busy' # u
    BY <1>2, AddTransferSubscriptionMaps
  <2> QED BY <2>1, OnRecordKept
<1>3. ASSUME NEW t \in Transfers, TransferNotification(t)
      PROVE  OnRecord' /\ Promise!Next
  BY <1>3, TransferNotificationMaps, OnRecordKept
<1>4. ASSUME NEW k \in Keys, TransferTimedOut(k)
      PROVE  OnRecord' /\ Promise!Next
  BY <1>4, TransferTimedOutMaps, OnRecordKept
<1>5. ASSUME NEW t \in Transfers, PathTimer(t)
      PROVE  OnRecord' /\ Promise!Next
  BY <1>5, PathTimerMaps, OnRecordKept
<1>6. ASSUME NEW t \in Transfers, TransferDoneAcknowledged(t)
      PROVE  OnRecord' /\ Promise!Next
  <2>1. /\ Promise!Next /\ busy' = NULL
        /\ \A u \in Transfers : reported'[u] > 0 => u # t /\ reported[u] > 0
        /\ \A u \in Transfers : u # t => status'[u] = status[u]
    BY <1>6, AcknowledgedMaps
  <2> QED BY <2>1, AcsTransferAssumption DEF OnRecord, Exists
<1>7. ASSUME CwmpdExits \/ FirmwareApplied \/ PluginRestarts
      PROVE  OnRecord' /\ Promise!Next
  <2>1. /\ Promise!Next /\ busy' = NULL
        /\ \A t \in Transfers : reported'[t] = 0
    BY <1>7, CwmpdExitsMaps, RestartMaps DEF FirmwareApplied, PluginRestarts
  <2> QED BY <2>1, AcsTransferAssumption DEF OnRecord
<1>8. ASSUME Kept /\ DiskStep /\ UNCHANGED <<reported, answer, busy>>
      PROVE  OnRecord' /\ Promise!Next
  BY <1>8, QuietMaps, OnRecordKept
<1>9. ASSUME NEW t \in Transfers, NEW fc \in BOOLEAN,
             DelayTimer(t) \/ SelfTestDone(t) \/ TransferEnds(t, fc)
      PROVE  OnRecord' /\ Promise!Next
  BY <1>8, <1>9, PluginQuiet
<1>10. CASE FirmwareFailed \/ Save \/ CwmpdStarts
  BY <1>8, <1>10, OthersQuiet
<1>11. CASE UNCHANGED vars
  <2>1. Kept /\ DiskStep /\ UNCHANGED <<reported, answer, busy>>
    BY <1>11 DEF vars, Kept, DiskStep
  <2> QED BY <1>8, <2>1
<1>12. CASE Next
  <2>1. TRUE \in BOOLEAN
    OBVIOUS
  <2> QED BY <1>12, <1>1, <1>2, <1>3, <1>4, <1>5, <1>6, <1>7, <1>9, <1>10, <2>1, Zenon DEF Next
<1> QED BY <1>11, <1>12

\* The Download and Upload RPCs across cwmpd and the plugin implement
\* TransferPromise: an instance is there before the answer and stays until a
\* TransferComplete of it is acknowledged, whatever fails, is lost or ends; only
\* a restart can change it otherwise, and brings back what was saved.
THEOREM KeepsPromise == Spec => Promise!Spec
<1>1. IInv /\ IInv' /\ OnRecord /\ [Next]_vars => OnRecord' /\ [Promise!Next]_Promise!vars
  BY PromiseStep
<1> QED BY <1>1, Invariance, PromiseInit, PTL DEF Spec, Promise!Spec

=============================================================================
