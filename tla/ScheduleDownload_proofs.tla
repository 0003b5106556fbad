---------------------- MODULE ScheduleDownload_proofs ----------------------
(***************************************************************************)
(* Proofs about the ScheduleDownload transfers, for any set of transfers,  *)
(* any window modes, any MaxRetries and any number of restarts.            *)
(***************************************************************************)
EXTENDS ScheduleDownload, SequenceTheorems, TLAPS

\* Outside "up" nothing is in progress and only "added" events are queued.
BootInv ==
    plugin # "up" =>
        /\ transfer_in_progress = NULL
        /\ \A t \in Transfers : \A n \in 1..Len(events[t]) : events[t][n].kind = "added"

\* The "added" event comes first, while the transfer is idle; an instance
\* that was never added has no event.
AddedFirst ==
    \A t \in Transfers :
        /\ \A n \in 1..Len(events[t]) :
              events[t][n].kind = "added" => n = 1 /\ status[t] = "Idle"
        /\ status[t] = "None" => events[t] = <<>>

\* A transfer inside a window knows which.
WithinHasWindow ==
    \A t \in Transfers :
        info[t] # NULL /\ info[t].withinTimeWindow => info[t].lastTimeWindow # 0

\* The downloads are those of known transfers.
DownloadTypes == downloads \subseteq Transfers /\ strays \subseteq Transfers

\* The inductive invariant.
IInv ==
    /\ TypeOK
    /\ BootInv
    /\ AddedFirst
    /\ WithinHasWindow
    /\ InProgressIsUnfinished
    /\ NoZombie

\* The windows are passed in order: nothing (0), start of window 1 (1), its
\* end (2), start of window 2 (3), its end (4).  The step a window event
\* announces (0: not a window event), ...
Num(e) ==
    IF e.kind = "started" THEN 2 * e.window - 1
    ELSE IF e.kind = "ended" THEN 2 * e.window
    ELSE 0

\* ... the step the cached info has reached, ...
Reached(i) ==
    IF i.lastTimeWindow = 0 THEN 0
    ELSE IF i.withinTimeWindow THEN 2 * i.lastTimeWindow - 1
    ELSE 2 * i.lastTimeWindow

\* ... and the step the data model has reached.
Stage(t) ==
    IF windowStatus[t][2] = "Ended" THEN 4
    ELSE IF windowStatus[t][2] = "Started" THEN 3
    ELSE IF windowStatus[t][1] = "Ended" THEN 2
    ELSE IF windowStatus[t][1] = "Started" THEN 1
    ELSE 0

\* The queue q holds exactly the steps after g up to s, in order, possibly
\* with other events in between.
Sync(q, g, s) ==
    /\ g <= s
    /\ \A n \in 1..Len(q) : Num(q[n]) # 0 => g < Num(q[n]) /\ Num(q[n]) <= s
    /\ \A m, n \in 1..Len(q) :
          m < n /\ Num(q[m]) # 0 /\ Num(q[n]) # 0 => Num(q[m]) < Num(q[n])
    /\ \A k \in 1..4 : g < k /\ k <= s => \E n \in 1..Len(q) : Num(q[n]) = k

\* What is saved of a transfer has its windows in order, none beyond its
\* number and none before it is added.
WellFormed(mem) ==
    \A t \in Transfers :
        /\ \A w \in Windows : mem.windowStatus[t][w] # "Idle" =>
              mem.status[t] # "None" /\ w <= mem.windows[t]
        /\ mem.windowStatus[t][2] # "Idle" => mem.windowStatus[t][1] = "Ended"

\* The info of a transfer lags behind the data model by the queued events; a
\* transfer without info has its "added" event to come, or the deferred init.
InSync(t) ==
    /\ info[t] # NULL => Exists(t) /\ Sync(events[t], Reached(info[t]), Stage(t))
    /\ Exists(t) /\ info[t] = NULL =>
          /\ \A n \in 1..Len(events[t]) : Num(events[t][n]) = 0
          /\ plugin = "up" => events[t] # <<>>

InfoInSync == \A t \in Transfers : InSync(t)

\* The start of window w is still to come, or to be handled.
StartIsDue(t, w) ==
    \/ windowStatus[t][w] = "Idle"
    \/ \E n \in 1..Len(events[t]) : Num(events[t][n]) = 2 * w - 1

\* The retries left in window w of transfer t.
RetriesLeft(t, w) == IF maxRetries[t][w] > 0 THEN maxRetries[t][w] ELSE 0

\* Every start that can still happen is paid for.
StartsArePaid ==
    ~lost => \A t \in Transfers, w \in Windows :
        allowance[t][w] >= RetriesLeft(t, w) + (IF StartIsDue(t, w) THEN 1 ELSE 0)

\* The inductive invariant of the windows, given IInv.
WInv ==
    /\ WellFormed(Persistent)
    /\ WellFormed(disk)
    /\ InfoInSync
    /\ StartsArePaid

-----------------------------------------------------------------------------
\* The conjuncts of TypeOK about the data model, one variable at a time.
LEMMA PersistentType ==
  Persistent \in Memories <=>
    /\ status \in [Transfers -> Statuses]
    /\ faultCode \in [Transfers -> FaultCodes]
    /\ windows \in [Transfers -> {0} \cup Windows]
    /\ windowMode \in [Transfers -> [Windows -> Modes]]
    /\ windowStatus \in [Transfers -> [Windows -> {"Idle", "Started", "Ended"}]]
    /\ maxRetries \in [Transfers -> [Windows -> Int]]
  BY DEF Persistent, Memories

\* A queue loses its first event and may get another.
LEMMA QueueFacts ==
  ASSUME NEW q \in Seq(Events), q # <<>>
  PROVE  /\ Head(q) \in Events
         /\ Tail(q) \in Seq(Events)
         /\ Head(q) = q[1]
         /\ Len(q) \in Nat /\ Len(q) > 0
         /\ Len(Tail(q)) = Len(q) - 1
         /\ \A n \in 1..Len(Tail(q)) : Tail(q)[n] = q[n + 1]
  BY HeadTailProperties, EmptySeq

LEMMA AppendFacts ==
  ASSUME NEW q \in Seq(Events), NEW e \in Events
  PROVE  /\ Append(q, e) \in Seq(Events)
         /\ Len(Append(q, e)) = Len(q) + 1
         /\ Append(q, e)[Len(q) + 1] = e
         /\ \A n \in 1..Len(q) : Append(q, e)[n] = q[n]
         /\ Append(q, e) # <<>>
         /\ Len(q) \in Nat
  BY AppendProperties, EmptySeq, LenProperties

\* The events the code queues.
LEMMA EventFacts ==
  /\ Event("added", 0) \in Events
  /\ Event("failed", 0) \in Events
  /\ \A w \in Windows : Event("started", w) \in Events /\ Event("ended", w) \in Events
  BY DEF Event, Events

-----------------------------------------------------------------------------
(***************************************************************************)
(* A handler of an event of t that leaves the info i, the status st and    *)
(* the queue q.                                                            *)
(***************************************************************************)
HandlerPost(t, i, st, q) ==
    /\ info' = [info EXCEPT ![t] = i]
    /\ status' = [status EXCEPT ![t] = st]
    /\ events' = [events EXCEPT ![t] = q]
    /\ q \in {Tail(events[t]), Append(Tail(events[t]), Event("failed", 0))}
    /\ \/ st = "In Progress" /\ transfer_in_progress = NULL /\ transfer_in_progress' = t
       \/ st = "Failed" /\ transfer_in_progress' = transfer_in_progress
       \/ /\ st = "Done"
          /\ transfer_in_progress' =
               IF transfer_in_progress = t THEN NULL ELSE transfer_in_progress
       \/ /\ st = status[t] /\ transfer_in_progress' = transfer_in_progress
          /\ st = "In Progress" /\ upgrade_done_applies(t, i)
               => transfer_in_progress = t

\* Such a handler preserves the invariant.
LEMMA HandlerKeepsIInv ==
  ASSUME IInv, NEW t \in Transfers, NEW i \in transfer_info_t, NEW st \in Statuses,
         NEW q,
         HandlerPost(t, i, st, q),
         Exists(t),
         i.withinTimeWindow => i.lastTimeWindow # 0,
         events[t] # <<>>, Head(events[t]).kind # "added",
         UNCHANGED <<plugin, windowStatus, static>>,
         faultCode' \in [Transfers -> FaultCodes],
         maxRetries' \in [Transfers -> [Windows -> Int]],
         allowance' \in [Transfers -> [Windows -> Int]],
         DownloadTypes'
  PROVE  IInv'
<1> USE DEF IInv, DownloadTypes
<1>1. /\ events \in [Transfers -> Seq(Events)]
      /\ events[t] \in Seq(Events)
      /\ status \in [Transfers -> Statuses]
      /\ info \in [Transfers -> transfer_info_t \cup {NULL}]
      /\ transfer_in_progress \in Transfers \cup {NULL}
      /\ NULL \notin Transfers
  BY PersistentType, TransfersAssumption DEF TypeOK
<1>2. /\ q \in Seq(Events)
      /\ Len(q) \in Nat
      /\ \A n \in 1..Len(q) : q[n].kind = "failed" \/
            (n + 1 \in 1..Len(events[t]) /\ q[n] = events[t][n + 1])
  <2>1. /\ Tail(events[t]) \in Seq(Events)
        /\ Len(events[t]) \in Nat
        /\ Len(Tail(events[t])) = Len(events[t]) - 1
        /\ \A n \in 1..Len(Tail(events[t])) : Tail(events[t])[n] = events[t][n + 1]
    BY <1>1, QueueFacts
  <2>2. CASE q = Tail(events[t])
    BY <2>1, <2>2
  <2>3. CASE q = Append(Tail(events[t]), Event("failed", 0))
    <3> DEFINE tl == Tail(events[t])
    <3>1. /\ q \in Seq(Events)
          /\ Len(q) = Len(tl) + 1
          /\ q[Len(tl) + 1] = Event("failed", 0)
          /\ \A n \in 1..Len(tl) : q[n] = tl[n]
      BY <2>1, <2>3, AppendFacts, EventFacts
    <3>2. Event("failed", 0).kind = "failed"
      BY DEF Event
    <3>3. /\ Len(events[t]) \in Nat
          /\ Len(tl) = Len(events[t]) - 1
          /\ \A n \in 1..Len(tl) : tl[n] = events[t][n + 1]
      BY <2>1
    <3> HIDE DEF tl
    <3>4. \A n \in 1..Len(q) : n = Len(tl) + 1 \/ n \in 1..Len(tl)
      BY <3>1, <3>3
    <3>5. \A n \in 1..Len(tl) : n + 1 \in 1..Len(events[t])
      BY <3>3
    <3>6. Len(q) \in Nat
      BY <3>1, <3>3
    <3> QED  BY <3>1, <3>2, <3>3, <3>4, <3>5, <3>6
  <2> QED  BY <2>2, <2>3 DEF HandlerPost
<1>3. /\ events' \in [Transfers -> Seq(Events)]
      /\ status' \in [Transfers -> Statuses]
      /\ info' \in [Transfers -> transfer_info_t \cup {NULL}]
      /\ transfer_in_progress' \in Transfers \cup {NULL}
      /\ events'[t] = q /\ status'[t] = st /\ info'[t] = i
      /\ \A u \in Transfers : u # t =>
            events'[u] = events[u] /\ status'[u] = status[u] /\ info'[u] = info[u]
  BY <1>1, <1>2 DEF HandlerPost
<1>4. plugin = "up"
  <2>1. 1 \in 1..Len(events[t]) /\ Head(events[t]) = events[t][1]
    BY <1>1, QueueFacts
  <2> QED  BY <2>1 DEF BootInv
<1>5. TypeOK'
  <2>1. Persistent' \in Memories
    BY <1>3, PersistentType DEF TypeOK, static, Persistent, Memories
  <2> QED  BY <1>3, <2>1 DEF TypeOK, static
<1>6. BootInv'
  BY <1>4 DEF BootInv
<1>7. AddedFirst'
  <2>1. \A n \in 1..Len(q) : q[n].kind # "added"
    <3> SUFFICES ASSUME NEW n \in 1..Len(q), q[n].kind = "added" PROVE FALSE
      OBVIOUS
    <3>1. n + 1 \in 1..Len(events[t]) /\ events[t][n + 1].kind = "added"
      BY <1>2
    <3>2. n + 1 = 1
      BY <3>1 DEF AddedFirst
    <3> QED  BY <1>2, <3>2
  <2>2. st # "None"
    BY DEF HandlerPost, Exists
  <2> QED  BY <1>3, <2>1, <2>2 DEF AddedFirst
<1>8. WithinHasWindow'
  BY <1>3 DEF WithinHasWindow
<1>9. InProgressIsUnfinished'
  <2> SUFFICES ASSUME NEW u \in Transfers, transfer_in_progress' = u
               PROVE  status'[u] \in {"In Progress", "Failed"}
    BY DEF InProgressIsUnfinished
  <2>1. u # t => transfer_in_progress = u
    BY <1>1 DEF HandlerPost
  <2>2. u = t => st \in {"In Progress", "Failed"}
                \/ (st = status[t] /\ transfer_in_progress = t)
    BY <1>1 DEF HandlerPost
  <2> QED  BY <1>3, <2>1, <2>2 DEF InProgressIsUnfinished
<1>10. NoZombie'
  <2> SUFFICES ASSUME NEW u \in Transfers,
                      info'[u] # NULL,
                      info'[u].withinTimeWindow,
                      info'[u].lastTimeWindow # 0
                         => windowMode[u][info'[u].lastTimeWindow] \in Supported,
                      status'[u] = "In Progress"
               PROVE  transfer_in_progress' = u
    BY DEF NoZombie, static
  <2>1. CASE u = t
    BY <1>1, <1>3, <2>1 DEF HandlerPost, upgrade_done_applies
  <2>2. CASE u # t
    <3>1. transfer_in_progress = u
      BY <1>3, <1>4, <2>2 DEF NoZombie
    <3> QED  BY <1>1, <2>2, <3>1 DEF HandlerPost
  <2> QED  BY <2>1, <2>2
<1> QED  BY <1>5, <1>6, <1>7, <1>8, <1>9, <1>10

-----------------------------------------------------------------------------
\* What the parts of a handler establish, with the types of what they write.
Handled(t, i) ==
    /\ \E st \in Statuses : \E q \in Seq(Events) : HandlerPost(t, i, st, q)
    /\ faultCode' \in [Transfers -> FaultCodes]
    /\ allowance' \in [Transfers -> [Windows -> Int]]
    /\ DownloadTypes'

\* The queue that is left, with or without a new "failed" event.
LEMMA LeftFacts ==
  ASSUME NEW q \in Seq(Events), q # <<>>
  PROVE  /\ Tail(q) \in Seq(Events)
         /\ Append(Tail(q), Event("failed", 0)) \in Seq(Events)
  BY QueueFacts, AppendFacts, EventFacts

\* transfers_start_transfer.
LEMMA StartHandled ==
  ASSUME TypeOK, NEW t \in Transfers, NEW i, NEW w \in Windows,
         events[t] # <<>>,
         transfers_start_transfer(t, w, Tail(events[t])),
         info' = [info EXCEPT ![t] = i]
  PROVE  Handled(t, i)
<1> DEFINE evs == Tail(events[t])
           evf == Append(Tail(events[t]), Event("failed", 0))
<1>1. /\ events[t] \in Seq(Events)
      /\ faultCode \in [Transfers -> FaultCodes]
      /\ allowance \in [Transfers -> [Windows -> Int]]
      /\ DownloadTypes
  BY PersistentType DEF TypeOK, DownloadTypes
<1>2. evs \in Seq(Events) /\ evf \in Seq(Events)
  BY <1>1, LeftFacts
<1>3. allowance' \in [Transfers -> [Windows -> Int]]
  <2>1. allowance' = allowance \/ allowance' = [allowance EXCEPT ![t][w] = @ - 1]
    BY <1>1 DEF transfers_start_transfer, do_firmwareupgrade
  <2>2. [allowance EXCEPT ![t][w] = @ - 1] \in [Transfers -> [Windows -> Int]]
    BY <1>1
  <2> QED  BY <1>1, <2>1, <2>2
<1>4. CASE /\ transfer_in_progress = NULL
           /\ transfer_in_progress' = t
           /\ downloads' = downloads \cup {t}
           /\ UNCHANGED strays
           /\ status' = [status EXCEPT ![t] = "In Progress"]
           /\ events' = [events EXCEPT ![t] = Tail(events[t])]
           /\ UNCHANGED faultCode
  <2>1. HandlerPost(t, i, "In Progress", evs)
    BY <1>4 DEF HandlerPost
  <2>2. "In Progress" \in Statuses
    BY DEF Statuses
  <2>3. \E st \in Statuses : \E q \in Seq(Events) : HandlerPost(t, i, st, q)
    BY <1>2, <2>1, <2>2, Zenon
  <2> QED  BY <1>1, <1>3, <1>4, <2>3 DEF Handled, DownloadTypes
<1>5. CASE /\ status' = [status EXCEPT ![t] = "Failed"]
           /\ faultCode' = [faultCode EXCEPT ![t] = FAULT_CODE_INTERNAL_ERROR]
           /\ events' = [events EXCEPT ![t] =
                           Append(Tail(events[t]), Event("failed", 0))]
           /\ UNCHANGED <<transfer_in_progress, downloads, strays>>
  <2>1. HandlerPost(t, i, "Failed", evf)
    BY <1>5 DEF HandlerPost
  <2>2. "Failed" \in Statuses /\ FAULT_CODE_INTERNAL_ERROR \in FaultCodes
    BY DEF Statuses, FaultCodes
  <2>3. \E st \in Statuses : \E q \in Seq(Events) : HandlerPost(t, i, st, q)
    BY <1>2, <2>1, <2>2, Zenon
  <2> QED  BY <1>1, <1>3, <1>5, <2>2, <2>3 DEF Handled, DownloadTypes
<1> QED  BY <1>1, <1>4, <1>5 DEF transfers_start_transfer, do_firmwareupgrade

\* transfers_transfer_done.
LEMMA DoneHandled ==
  ASSUME TypeOK, NEW t \in Transfers, NEW i, NEW fc \in FaultCodes,
         events[t] # <<>>,
         transfers_transfer_done(t, fc, Tail(events[t])),
         UNCHANGED allowance,
         info' = [info EXCEPT ![t] = i]
  PROVE  Handled(t, i)
<1>1. /\ events[t] \in Seq(Events)
      /\ faultCode' \in [Transfers -> FaultCodes]
  BY PersistentType DEF TypeOK, transfers_transfer_done
<1>2. Tail(events[t]) \in Seq(Events)
  BY <1>1, LeftFacts
<1>3. HandlerPost(t, i, "Done", Tail(events[t]))
  BY DEF HandlerPost, transfers_transfer_done
<1>4. "Done" \in Statuses
  BY DEF Statuses
<1>5. \E st \in Statuses : \E q \in Seq(Events) : HandlerPost(t, i, st, q)
  BY <1>2, <1>3, <1>4
<1>6. DownloadTypes'
  BY DEF DownloadTypes, TypeOK, transfers_transfer_done, GivenUp
<1> QED  BY <1>1, <1>5, <1>6 DEF Handled, TypeOK

\* A handler that does nothing, when no upgrade of t can be left behind.
LEMMA IgnoreHandled ==
  ASSUME TypeOK, NEW t \in Transfers, NEW i,
         events[t] # <<>>,
         Ignore(t, Tail(events[t])),
         info' = [info EXCEPT ![t] = i],
         status[t] = "In Progress" /\ upgrade_done_applies(t, i)
            => transfer_in_progress = t
  PROVE  Handled(t, i)
<1>1. /\ events[t] \in Seq(Events)
      /\ status \in [Transfers -> Statuses]
      /\ faultCode \in [Transfers -> FaultCodes]
  BY PersistentType DEF TypeOK
<1>2. Tail(events[t]) \in Seq(Events)
  BY <1>1, LeftFacts
<1>3. status' = [status EXCEPT ![t] = status[t]]
  BY <1>1 DEF Ignore
<1>4. HandlerPost(t, i, status[t], Tail(events[t]))
  BY <1>3 DEF HandlerPost, Ignore
<1>5. \E st \in Statuses : \E q \in Seq(Events) : HandlerPost(t, i, st, q)
  BY <1>1, <1>2, <1>4
<1> QED  BY <1>1, <1>5 DEF Handled, TypeOK, Ignore, DownloadTypes

\* transfers_handle_transfer.
LEMMA HandleHandled ==
  ASSUME TypeOK, NEW t \in Transfers, NEW i \in transfer_info_t,
         events[t] # <<>>,
         transfers_handle_transfer(t, i, Tail(events[t])),
         info' = [info EXCEPT ![t] = i]
  PROVE  Handled(t, i)
<1> DEFINE w == i.lastTimeWindow
<1>1. CASE status[t] = "Done" \/ w = 0 \/ windowMode[t][w] \notin Supported
  <2>1. Ignore(t, Tail(events[t]))
    BY <1>1 DEF transfers_handle_transfer
  <2>2. ~(status[t] = "In Progress" /\ upgrade_done_applies(t, i))
    BY <1>1 DEF upgrade_done_applies
  <2> QED  BY <2>1, <2>2, IgnoreHandled
<1>2. CASE /\ ~(status[t] = "Done" \/ w = 0 \/ windowMode[t][w] \notin Supported)
           /\ i.withinTimeWindow
  <2>1. transfers_start_transfer(t, w, Tail(events[t])) /\ w \in Windows
    BY <1>2 DEF transfers_handle_transfer, transfer_info_t
  <2> QED  BY <2>1, StartHandled
<1>3. CASE /\ ~(status[t] = "Done" \/ w = 0 \/ windowMode[t][w] \notin Supported)
           /\ ~i.withinTimeWindow
  <2>1. \/ transfers_transfer_done(t, FAULT_CODE_INTERNAL_ERROR, Tail(events[t])) /\ UNCHANGED allowance
        \/ Ignore(t, Tail(events[t]))
    BY <1>3 DEF transfers_handle_transfer
  <2>2. FAULT_CODE_INTERNAL_ERROR \in FaultCodes
    BY DEF FaultCodes
  <2>3. ~upgrade_done_applies(t, i)
    BY <1>3 DEF upgrade_done_applies
  <2>4. CASE transfers_transfer_done(t, FAULT_CODE_INTERNAL_ERROR, Tail(events[t])) /\ UNCHANGED allowance
    BY <2>2, <2>4, DoneHandled
  <2>5. CASE Ignore(t, Tail(events[t]))
    BY <2>3, <2>5, IgnoreHandled
  <2> QED  BY <2>1, <2>4, <2>5
<1> QED  BY <1>1, <1>2, <1>3

-----------------------------------------------------------------------------
(***************************************************************************)
(* Every action preserves the invariant.                                   *)
(***************************************************************************)

\* From the parts of a handler to the handler.
LEMMA HandledKeepsIInv ==
  ASSUME IInv, NEW t \in Transfers, NEW i \in transfer_info_t, Handled(t, i),
         Exists(t),
         i.withinTimeWindow => i.lastTimeWindow # 0,
         events[t] # <<>>, Head(events[t]).kind # "added",
         UNCHANGED <<plugin, windowStatus, static>>,
         maxRetries' \in [Transfers -> [Windows -> Int]]
  PROVE  IInv'
<1>1. PICK st \in Statuses, q \in Seq(Events) : HandlerPost(t, i, st, q)
  BY DEF Handled
<1>2. /\ faultCode' \in [Transfers -> FaultCodes]
      /\ allowance' \in [Transfers -> [Windows -> Int]]
      /\ DownloadTypes'
  BY DEF Handled
<1> QED  BY <1>1, <1>2, HandlerKeepsIInv

\* A start is charged to the allowance of window w, unless it is lost.
Charged(t, w) == lost \/ allowance' = [allowance EXCEPT ![t][w] = @ - 1]

\* What transfers_handle_transfer charges.
LEMMA HandleCharges ==
  ASSUME NEW t \in Transfers, NEW i \in transfer_info_t, NEW evs,
         transfers_handle_transfer(t, i, evs)
  PROVE  \/ allowance' = allowance
         \/ i.withinTimeWindow /\ Charged(t, i.lastTimeWindow)
  BY Zenon DEF transfers_handle_transfer, transfers_start_transfer, Ignore, Charged

\* The info _timewindow_started writes.
StartedInfo(t) == [lastTimeWindow |-> Head(events[t]).window, withinTimeWindow |-> TRUE]

\* _timewindow_started.
LEMMA StartedFacts ==
  ASSUME IInv, NEW t \in Transfers, timewindow_started(t)
  PROVE  /\ events[t] # <<>>
         /\ Head(events[t]).kind = "started"
         /\ Head(events[t]).window \in Windows
         /\ Exists(t)
         /\ info[t] # NULL
         /\ UNCHANGED <<plugin, windowStatus, maxRetries, static>>
         /\ StartedInfo(t) \in transfer_info_t
         /\ StartedInfo(t).lastTimeWindow = Head(events[t]).window
         /\ StartedInfo(t).withinTimeWindow
         /\ Handled(t, StartedInfo(t))
         /\ allowance' = allowance \/ Charged(t, Head(events[t]).window)
<1>1. /\ events[t] # <<>>
      /\ Head(events[t]).kind = "started"
      /\ Exists(t)
      /\ info[t] # NULL
      /\ info' = [info EXCEPT ![t] = StartedInfo(t)]
      /\ transfers_handle_transfer(t, StartedInfo(t), Tail(events[t]))
      /\ UNCHANGED <<plugin, windowStatus, maxRetries, static>>
  BY Zenon DEF timewindow_started, NextEvent, StartedInfo
<1>2. Head(events[t]) \in Events
  BY <1>1, QueueFacts DEF IInv, TypeOK
<1>3. Head(events[t]).window \in Windows
  BY <1>1, <1>2 DEF Events
<1>4. /\ StartedInfo(t) \in transfer_info_t
      /\ StartedInfo(t).lastTimeWindow = Head(events[t]).window
      /\ StartedInfo(t).withinTimeWindow
  BY <1>3 DEF transfer_info_t, Windows, StartedInfo
<1>5. Handled(t, StartedInfo(t))
  BY <1>1, <1>4, HandleHandled DEF IInv
<1>6. allowance' = allowance \/ Charged(t, Head(events[t]).window)
  BY <1>1, <1>4, HandleCharges
<1> QED  BY <1>1, <1>3, <1>4, <1>5, <1>6

LEMMA StartedKeepsIInv ==
  ASSUME IInv, NEW t \in Transfers, timewindow_started(t)
  PROVE  IInv'
<1>1. maxRetries' \in [Transfers -> [Windows -> Int]]
  BY StartedFacts, PersistentType DEF IInv, TypeOK
<1>2. Head(events[t]).kind # "added" /\ StartedInfo(t).lastTimeWindow # 0
  BY StartedFacts DEF Windows
<1> QED  BY <1>1, <1>2, StartedFacts, HandledKeepsIInv

\* The info _timewindow_ended writes.
EndedInfo(t) == [info[t] EXCEPT !.withinTimeWindow = FALSE]

\* _timewindow_ended.
LEMMA EndedFacts ==
  ASSUME IInv, NEW t \in Transfers, timewindow_ended(t)
  PROVE  /\ events[t] # <<>>
         /\ Head(events[t]).kind = "ended"
         /\ Exists(t)
         /\ info[t] # NULL
         /\ UNCHANGED <<plugin, windowStatus, maxRetries, static>>
         /\ EndedInfo(t) \in transfer_info_t
         /\ EndedInfo(t).lastTimeWindow = info[t].lastTimeWindow
         /\ ~EndedInfo(t).withinTimeWindow
         /\ Handled(t, EndedInfo(t))
         /\ allowance' = allowance
<1>1. /\ events[t] # <<>>
      /\ Head(events[t]).kind = "ended"
      /\ Exists(t)
      /\ info[t] # NULL
      /\ info' = [info EXCEPT ![t] = EndedInfo(t)]
      /\ transfers_handle_transfer(t, EndedInfo(t), Tail(events[t]))
      /\ UNCHANGED <<plugin, windowStatus, maxRetries, static>>
  BY Zenon DEF timewindow_ended, NextEvent, EndedInfo
<1>2. info[t] \in transfer_info_t
  BY <1>1 DEF IInv, TypeOK
<1>3. /\ EndedInfo(t) \in transfer_info_t
      /\ EndedInfo(t).lastTimeWindow = info[t].lastTimeWindow
      /\ ~EndedInfo(t).withinTimeWindow
  BY <1>2 DEF transfer_info_t, EndedInfo
<1>4. Handled(t, EndedInfo(t))
  BY <1>1, <1>3, HandleHandled DEF IInv
<1>5. allowance' = allowance
  BY <1>1, <1>3, HandleCharges
<1> QED  BY <1>1, <1>3, <1>4, <1>5

LEMMA EndedKeepsIInv ==
  ASSUME IInv, NEW t \in Transfers, timewindow_ended(t)
  PROVE  IInv'
<1>1. maxRetries' \in [Transfers -> [Windows -> Int]]
  BY EndedFacts, PersistentType DEF IInv, TypeOK
<1>2. Head(events[t]).kind # "added"
  BY EndedFacts
<1> QED  BY <1>1, <1>2, EndedFacts, HandledKeepsIInv

\* _schedule_download_transfer_failed: a retry is charged to MaxRetries too.
LEMMA FailedFacts ==
  ASSUME IInv, NEW t \in Transfers, schedule_download_transfer_failed(t)
  PROVE  /\ events[t] # <<>>
         /\ Head(events[t]).kind = "failed"
         /\ Exists(t)
         /\ info[t] # NULL
         /\ info[t] \in transfer_info_t
         /\ UNCHANGED <<plugin, windowStatus, static>>
         /\ Handled(t, info[t])
         /\ \/ maxRetries' = maxRetries /\ allowance' = allowance
            \/ \E w \in Windows :
                  /\ maxRetries[t][w] > 0
                  /\ maxRetries' = [maxRetries EXCEPT ![t][w] = @ - 1]
                  /\ Charged(t, w)
<1> DEFINE i == info[t]
           w == i.lastTimeWindow
           evs == Tail(events[t])
           off == w = 0 \/ windowMode[t][w] \notin Supported \/ ~i.withinTimeWindow
<1>1. /\ events[t] # <<>>
      /\ Head(events[t]).kind = "failed"
      /\ plugin # "down"
      /\ Exists(t)
      /\ i # NULL
      /\ UNCHANGED <<plugin, windowStatus, info, static>>
  BY DEF schedule_download_transfer_failed, NextEvent
<1>2. /\ i \in transfer_info_t
      /\ info' = [info EXCEPT ![t] = i]
  BY <1>1 DEF IInv, TypeOK
<1>3. plugin = "up"
  <2>1. 1 \in 1..Len(events[t]) /\ Head(events[t]) = events[t][1]
    BY <1>1, QueueFacts DEF IInv, TypeOK
  <2> QED  BY <1>1, <2>1 DEF BootInv, IInv
<1>4. status[t] = "In Progress" /\ upgrade_done_applies(t, i) => transfer_in_progress = t
  BY <1>1, <1>3 DEF IInv, NoZombie, upgrade_done_applies
<1>5. CASE off
  <2>1. Ignore(t, evs) /\ UNCHANGED maxRetries
    BY <1>5, Zenon DEF schedule_download_transfer_failed
  <2>2. Handled(t, i)
    BY <1>1, <1>2, <1>4, <2>1, IgnoreHandled DEF IInv
  <2>3. allowance' = allowance
    BY <2>1 DEF Ignore
  <2> QED  BY <1>1, <1>2, <2>1, <2>2, <2>3
<1>6. CASE ~off /\ maxRetries[t][w] > 0
  <2>1. /\ maxRetries' = [maxRetries EXCEPT ![t][w] = @ - 1]
        /\ transfers_start_transfer(t, w, evs)
    BY <1>6, Zenon DEF schedule_download_transfer_failed
  <2>2. w \in Windows
    BY <1>2, <1>6 DEF transfer_info_t
  <2>3. Handled(t, i)
    BY <1>1, <1>2, <2>1, <2>2, StartHandled DEF IInv
  <2>4. Charged(t, w)
    BY <2>1, Zenon DEF transfers_start_transfer, Charged
  <2> QED  BY <1>1, <1>2, <1>6, <2>1, <2>2, <2>3, <2>4
<1>7. CASE ~off /\ ~(maxRetries[t][w] > 0)
  <2>1. /\ \/ /\ transfers_transfer_done(t, faultCode[t], evs)
              /\ UNCHANGED allowance
           \/ Ignore(t, evs)
        /\ UNCHANGED maxRetries
    BY <1>7, Zenon DEF schedule_download_transfer_failed
  <2>2. faultCode[t] \in FaultCodes
    BY PersistentType DEF IInv, TypeOK
  <2>3. CASE /\ transfers_transfer_done(t, faultCode[t], evs)
             /\ UNCHANGED allowance
    BY <1>1, <1>2, <2>1, <2>2, <2>3, DoneHandled DEF IInv
  <2>4. CASE Ignore(t, evs)
    <3>1. Handled(t, i)
      BY <1>1, <1>2, <1>4, <2>4, IgnoreHandled DEF IInv
    <3> QED  BY <1>1, <1>2, <2>1, <2>4, <3>1 DEF Ignore
  <2> QED  BY <2>1, <2>3, <2>4
<1> QED  BY <1>5, <1>6, <1>7

LEMMA FailedKeepsIInv ==
  ASSUME IInv, NEW t \in Transfers, schedule_download_transfer_failed(t)
  PROVE  IInv'
<1>1. maxRetries' \in [Transfers -> [Windows -> Int]]
  <2>1. maxRetries \in [Transfers -> [Windows -> Int]]
    BY PersistentType DEF IInv, TypeOK
  <2>2. \/ maxRetries' = maxRetries
        \/ \E w \in Windows : maxRetries' = [maxRetries EXCEPT ![t][w] = @ - 1]
    BY FailedFacts
  <2> QED  BY <2>1, <2>2
<1>2. Head(events[t]).kind # "added"
  BY FailedFacts
<1>3. info[t].withinTimeWindow => info[t].lastTimeWindow # 0
  BY FailedFacts DEF IInv, WithinHasWindow
<1> QED  BY <1>1, <1>2, <1>3, FailedFacts, HandledKeepsIInv

\* What transfers_transfer_add_info computes.
LEMMA AddInfoFacts ==
  ASSUME NEW t \in Transfers
  PROVE  /\ transfers_transfer_add_info(t) \in transfer_info_t
         /\ transfers_transfer_add_info(t).withinTimeWindow
              => transfers_transfer_add_info(t).lastTimeWindow # 0
  BY DEF transfers_transfer_add_info, transfer_info_t, Windows

\* What addScheduleDownload writes: the windows with their modes and retries.
LEMMA AddFacts ==
  ASSUME TypeOK, NEW t \in Transfers, addScheduleDownload(t)
  PROVE  \E n \in Windows, m \in [Windows -> Modes], r \in [Windows -> Int],
            a \in [Windows -> Int] :
           /\ windows' = [windows EXCEPT ![t] = n]
           /\ windowMode' = [windowMode EXCEPT ![t] = m]
           /\ maxRetries' = [maxRetries EXCEPT ![t] = r]
           /\ allowance' = IF lost THEN allowance ELSE [allowance EXCEPT ![t] = a]
           /\ \A w \in Windows : a[w] = 1 + IF r[w] > 0 THEN r[w] ELSE 0
<1>1. PICK n \in 1..load.windows, m \in [Windows -> Modes],
           r \in [Windows -> RetryValues \cup {0}] : AddWindows(t, n, m, r)
  BY Zenon DEF addScheduleDownload
<1>2. load.windows \in {1, 2}
  BY TransfersAssumption DEF TypeOK
<1>3. n \in Windows
  BY <1>1, <1>2 DEF Windows
<1>4. r \in [Windows -> Int]
  <2>1. RetryValues \cup {0} \subseteq Int
    BY TransfersAssumption
  <2> QED  BY <1>1, <2>1
<1>5. /\ Starts(r) \in [Windows -> Int]
      /\ \A w \in Windows : Starts(r)[w] = 1 + IF r[w] > 0 THEN r[w] ELSE 0
  BY <1>4 DEF Starts
<1>6. /\ windows' = [windows EXCEPT ![t] = n]
      /\ windowMode' = [windowMode EXCEPT ![t] = m]
      /\ maxRetries' = [maxRetries EXCEPT ![t] = r]
      /\ allowance' = IF lost THEN allowance ELSE [allowance EXCEPT ![t] = Starts(r)]
  BY <1>1 DEF AddWindows
<1> QED  BY <1>1, <1>3, <1>4, <1>5, <1>6, Zenon

\* addScheduleDownload.
LEMMA AddKeepsIInv ==
  ASSUME IInv, NEW t \in Transfers, addScheduleDownload(t)
  PROVE  IInv'
<1> DEFINE q == Append(events[t], Event("added", 0))
<1>1. /\ status[t] = "None"
      /\ status' = [status EXCEPT ![t] = "Idle"]
      /\ events' = [events EXCEPT ![t] = q]
      /\ UNCHANGED <<plugin, faultCode, windowStatus, info, transfer_in_progress,
                     downloads, strays, disk, load, restarts, applied, lost>>
  BY Zenon DEF addScheduleDownload
<1>2. /\ status \in [Transfers -> Statuses]
      /\ windows \in [Transfers -> {0} \cup Windows]
      /\ events \in [Transfers -> Seq(Events)]
      /\ events[t] = <<>>
      /\ transfer_in_progress # t
  BY <1>1, PersistentType DEF IInv, TypeOK, AddedFirst, InProgressIsUnfinished
<1>3. q \in Seq(Events) /\ Len(q) = 1 /\ q[1] = Event("added", 0)
  <2>1. Len(events[t]) = 0
    BY <1>2
  <2> QED  BY <1>2, <2>1, AppendFacts, EventFacts
<1> HIDE DEF q
<1>4. /\ status' \in [Transfers -> Statuses]
      /\ events' \in [Transfers -> Seq(Events)]
      /\ events'[t] = q /\ status'[t] = "Idle"
      /\ \A u \in Transfers : u # t => events'[u] = events[u] /\ status'[u] = status[u]
  BY <1>1, <1>2, <1>3 DEF Statuses
<1>5. /\ windows' \in [Transfers -> {0} \cup Windows]
      /\ windowMode' \in [Transfers -> [Windows -> Modes]]
      /\ maxRetries' \in [Transfers -> [Windows -> Int]]
      /\ allowance' \in [Transfers -> [Windows -> Int]]
      /\ \A u \in Transfers : u # t => windowMode'[u] = windowMode[u]
  <2> TypeOK
    BY DEF IInv
  <2>1. PICK n \in Windows, m \in [Windows -> Modes], r \in [Windows -> Int],
             a \in [Windows -> Int] :
          /\ windows' = [windows EXCEPT ![t] = n]
          /\ windowMode' = [windowMode EXCEPT ![t] = m]
          /\ maxRetries' = [maxRetries EXCEPT ![t] = r]
          /\ allowance' = IF lost THEN allowance ELSE [allowance EXCEPT ![t] = a]
    BY AddFacts
  <2>2. /\ windowMode \in [Transfers -> [Windows -> Modes]]
        /\ maxRetries \in [Transfers -> [Windows -> Int]]
        /\ allowance \in [Transfers -> [Windows -> Int]]
    BY PersistentType DEF TypeOK
  <2>3. windows' \in [Transfers -> {0} \cup Windows]
    BY <1>2, <2>1
  <2>4. /\ windowMode' \in [Transfers -> [Windows -> Modes]]
        /\ \A u \in Transfers : u # t => windowMode'[u] = windowMode[u]
    BY <2>1, <2>2
  <2>5. maxRetries' \in [Transfers -> [Windows -> Int]]
    BY <2>1, <2>2
  <2>6. allowance' \in [Transfers -> [Windows -> Int]]
    BY <2>1, <2>2
  <2> QED  BY <2>3, <2>4, <2>5, <2>6
<1>6. TypeOK'
  <2>1. Persistent' \in Memories
    BY <1>1, <1>4, <1>5, PersistentType DEF IInv, TypeOK, Persistent, Memories
  <2> QED  BY <1>1, <1>4, <1>5, <2>1 DEF IInv, TypeOK
<1>7. \A n \in 1..Len(q) : n = 1 /\ q[n].kind = "added"
  BY <1>3 DEF Event
<1>8. BootInv'
  BY <1>1, <1>4, <1>7 DEF IInv, BootInv
<1>9. AddedFirst'
  BY <1>4, <1>7 DEF IInv, AddedFirst
<1>10. WithinHasWindow'
  BY <1>1 DEF IInv, WithinHasWindow
<1>11. InProgressIsUnfinished'
  BY <1>1, <1>2, <1>4 DEF IInv, InProgressIsUnfinished
<1>12. NoZombie'
  BY <1>1, <1>2, <1>4, <1>5 DEF IInv, NoZombie
<1> QED  BY <1>6, <1>8, <1>9, <1>10, <1>11, <1>12 DEF IInv

\* _scheduleDownload_added.
LEMMA AddedKeepsIInv ==
  ASSUME IInv, NEW t \in Transfers, scheduleDownload_added(t)
  PROVE  IInv'
<1> DEFINE q == Tail(events[t])
           i == IF Exists(t) /\ info[t] = NULL
                THEN transfers_transfer_add_info(t) ELSE info[t]
<1>1. /\ events[t] # <<>>
      /\ Head(events[t]).kind = "added"
      /\ events' = [events EXCEPT ![t] = q]
      /\ info' = [info EXCEPT ![t] = i]
      /\ UNCHANGED <<plugin, status, faultCode, windowStatus, maxRetries,
                     transfer_in_progress, downloads, strays, allowance, static>>
  BY Zenon DEF scheduleDownload_added, NextEvent
<1>2. /\ events \in [Transfers -> Seq(Events)]
      /\ events[t] \in Seq(Events)
      /\ info \in [Transfers -> transfer_info_t \cup {NULL}]
  BY DEF IInv, TypeOK
<1>3. /\ q \in Seq(Events)
      /\ Len(q) = Len(events[t]) - 1
      /\ Len(events[t]) \in Nat /\ Len(events[t]) > 0
      /\ Head(events[t]) = events[t][1]
      /\ \A n \in 1..Len(q) : q[n] = events[t][n + 1]
  BY <1>1, <1>2, QueueFacts
<1>4. status[t] = "Idle"
  BY <1>1, <1>3 DEF IInv, AddedFirst
<1>5. i \in transfer_info_t \cup {NULL}
  BY <1>2, AddInfoFacts
<1>6. i # NULL /\ i.withinTimeWindow => i.lastTimeWindow # 0
  BY AddInfoFacts DEF IInv, WithinHasWindow
<1> HIDE DEF q, i
<1>7. /\ events' \in [Transfers -> Seq(Events)]
      /\ info' \in [Transfers -> transfer_info_t \cup {NULL}]
      /\ events'[t] = q /\ info'[t] = i
      /\ \A u \in Transfers : u # t => events'[u] = events[u] /\ info'[u] = info[u]
  BY <1>1, <1>2, <1>3, <1>5
<1>8. TypeOK'
  BY <1>1, <1>7 DEF IInv, TypeOK, static, Persistent
<1>9. \A n \in 1..Len(q) : /\ n + 1 \in 1..Len(events[t]) /\ n + 1 # 1
                           /\ q[n] = events[t][n + 1]
  BY <1>3
<1>10. BootInv'
  BY <1>1, <1>7, <1>9 DEF IInv, BootInv
<1>11. AddedFirst'
  BY <1>1, <1>4, <1>7, <1>9 DEF IInv, AddedFirst
<1>12. WithinHasWindow'
  BY <1>6, <1>7 DEF IInv, WithinHasWindow
<1>13. InProgressIsUnfinished'
  BY <1>1 DEF IInv, InProgressIsUnfinished
<1>14. NoZombie'
  BY <1>1, <1>4, <1>7 DEF IInv, NoZombie, static
<1> QED  BY <1>8, <1>10, <1>11, <1>12, <1>13, <1>14 DEF IInv

\* The timers of a window.
LEMMA WindowTimerKeepsIInv ==
  ASSUME IInv, NEW t \in Transfers, NEW w \in Windows,
         NEW from \in {"Idle", "Started", "Ended"},
         NEW to \in {"Idle", "Started", "Ended"}, NEW kind \in {"started", "ended"},
         window_timer_cb(t, w, from, to, kind)
  PROVE  IInv'
<1> DEFINE q == Append(events[t], Event(kind, w))
<1>1. /\ plugin = "up"
      /\ info[t] # NULL
      /\ Exists(t)
      /\ windowStatus' = [windowStatus EXCEPT ![t][w] = to]
      /\ events' = [events EXCEPT ![t] = q]
      /\ UNCHANGED <<plugin, status, faultCode, maxRetries, info,
                     transfer_in_progress, downloads, strays, allowance, static>>
  BY Zenon DEF window_timer_cb
<1>2. /\ events \in [Transfers -> Seq(Events)]
      /\ events[t] \in Seq(Events)
      /\ windowStatus \in [Transfers -> [Windows -> {"Idle", "Started", "Ended"}]]
  BY PersistentType DEF IInv, TypeOK
<1>3. Event(kind, w) \in Events /\ Event(kind, w).kind # "added"
  BY DEF Event, Events
<1>4. /\ q \in Seq(Events)
      /\ Len(q) = Len(events[t]) + 1
      /\ Len(events[t]) \in Nat
      /\ q[Len(events[t]) + 1] = Event(kind, w)
      /\ \A n \in 1..Len(events[t]) : q[n] = events[t][n]
  BY <1>2, <1>3, AppendFacts
<1> HIDE DEF q
<1>5. /\ events' \in [Transfers -> Seq(Events)]
      /\ events'[t] = q
      /\ \A u \in Transfers : u # t => events'[u] = events[u]
  BY <1>1, <1>2, <1>4
<1>6. windowStatus' \in [Transfers -> [Windows -> {"Idle", "Started", "Ended"}]]
  BY <1>1, <1>2
<1>7. TypeOK'
  <2>1. Persistent' \in Memories
    BY <1>1, <1>6, PersistentType DEF IInv, TypeOK, static, Persistent, Memories
  <2> QED  BY <1>1, <1>5, <2>1 DEF IInv, TypeOK, static
<1>8. BootInv'
  BY <1>1 DEF BootInv
<1>9. AddedFirst'
  <2>1. \A n \in 1..Len(q) : q[n].kind = "added" =>
           n \in 1..Len(events[t]) /\ q[n] = events[t][n]
    BY <1>3, <1>4
  <2>2. \A n \in 1..Len(q) : q[n].kind = "added" => n = 1 /\ status[t] = "Idle"
    BY <2>1 DEF IInv, AddedFirst
  <2>3. status[t] # "None"
    BY <1>1 DEF Exists
  <2> QED  BY <1>1, <1>5, <2>2, <2>3 DEF IInv, AddedFirst
<1>10. WithinHasWindow' /\ InProgressIsUnfinished' /\ NoZombie'
  BY <1>1 DEF IInv, WithinHasWindow, InProgressIsUnfinished, NoZombie, static
<1> QED  BY <1>7, <1>8, <1>9, <1>10 DEF IInv

\* _scheduleDownload_del_inst.
LEMMA DelKeepsIInv ==
  ASSUME IInv, NEW t \in Transfers, scheduleDownload_del_inst(t)
  PROVE  IInv'
<1>1. /\ plugin = "up"
      /\ status[t] = "Done"
      /\ status' = [status EXCEPT ![t] = "Deleted"]
      /\ info' = [info EXCEPT ![t] = NULL]
      /\ UNCHANGED <<plugin, faultCode, windowStatus, maxRetries, events,
                     transfer_in_progress, downloads, strays, allowance, static>>
  BY DEF scheduleDownload_del_inst
<1>2. /\ status \in [Transfers -> Statuses]
      /\ info \in [Transfers -> transfer_info_t \cup {NULL}]
      /\ transfer_in_progress # t
  BY <1>1, PersistentType DEF IInv, TypeOK, InProgressIsUnfinished
<1>3. /\ status' \in [Transfers -> Statuses]
      /\ info' \in [Transfers -> transfer_info_t \cup {NULL}]
      /\ status'[t] = "Deleted" /\ info'[t] = NULL
      /\ \A u \in Transfers : u # t => status'[u] = status[u] /\ info'[u] = info[u]
  BY <1>1, <1>2 DEF Statuses
<1>4. TypeOK'
  <2>1. Persistent' \in Memories
    BY <1>1, <1>3, PersistentType DEF IInv, TypeOK, static, Persistent, Memories
  <2> QED  BY <1>1, <1>3, <2>1 DEF IInv, TypeOK, static
<1>5. BootInv'
  BY <1>1 DEF BootInv
<1>6. AddedFirst'
  BY <1>1, <1>3 DEF IInv, AddedFirst
<1>7. WithinHasWindow' /\ InProgressIsUnfinished'
  BY <1>1, <1>2, <1>3 DEF IInv, WithinHasWindow, InProgressIsUnfinished
<1>8. NoZombie'
  BY <1>1, <1>3 DEF IInv, NoZombie, static
<1> QED  BY <1>4, <1>5, <1>6, <1>7, <1>8 DEF IInv

\* firmwareimage_notification.
LEMMA FirmwareFailedKeepsIInv ==
  ASSUME IInv, NEW fc \in FaultCodes, firmwareimage_notification(fc), DownloadTypes'
  PROVE  IInv'
<1> USE DEF DownloadTypes
<1> DEFINE t == transfer_in_progress
<1>1. /\ transfer_in_progress' = NULL
      /\ UNCHANGED <<plugin, windowStatus, maxRetries, info, allowance, static>>
  BY DEF firmwareimage_notification
<1>2. /\ status \in [Transfers -> Statuses]
      /\ faultCode \in [Transfers -> FaultCodes]
      /\ events \in [Transfers -> Seq(Events)]
      /\ transfer_in_progress \in Transfers \cup {NULL}
      /\ NULL \notin Transfers
  BY PersistentType, TransfersAssumption DEF IInv, TypeOK
<1>3. WithinHasWindow' /\ InProgressIsUnfinished'
  BY <1>1, <1>2 DEF IInv, WithinHasWindow, InProgressIsUnfinished
<1>4. CASE t # NULL /\ upgrade_done_applies(t, info[t])
  <2>1. t \in Transfers /\ plugin = "up" /\ status[t] \in {"In Progress", "Failed"}
    BY <1>2, <1>4 DEF IInv, BootInv, InProgressIsUnfinished
  <2> DEFINE q == Append(events[t], Event("failed", 0))
  <2>2. /\ status' = [status EXCEPT ![t] = "Failed"]
        /\ faultCode' = [faultCode EXCEPT ![t] = fc]
        /\ events' = events \/ events' = [events EXCEPT ![t] = q]
    BY <1>4, Zenon DEF firmwareimage_notification
  <2>3. /\ q \in Seq(Events)
        /\ Len(q) = Len(events[t]) + 1
        /\ Len(events[t]) \in Nat
        /\ q[Len(events[t]) + 1] = Event("failed", 0)
        /\ \A n \in 1..Len(events[t]) : q[n] = events[t][n]
    BY <1>2, <2>1, AppendFacts, EventFacts
  <2>4. Event("failed", 0).kind = "failed"
    BY DEF Event
  <2>5. \A n \in 1..Len(q) : q[n].kind = "added" =>
           n \in 1..Len(events[t]) /\ q[n] = events[t][n]
    BY <2>3, <2>4
  <2>6. \A n \in 1..Len(events[t]) : events[t][n].kind # "added"
    BY <2>1 DEF IInv, AddedFirst
  <2> HIDE DEF q, t
  <2>7. /\ status' \in [Transfers -> Statuses]
        /\ faultCode' \in [Transfers -> FaultCodes]
        /\ events' \in [Transfers -> Seq(Events)]
        /\ status'[t] = "Failed"
        /\ events'[t] \in {events[t], q}
        /\ \A u \in Transfers : u # t => status'[u] = status[u] /\ events'[u] = events[u]
    BY <1>2, <2>1, <2>2, <2>3 DEF Statuses
  <2>8. TypeOK'
    <3>1. Persistent' \in Memories
      BY <1>1, <2>7, PersistentType DEF IInv, TypeOK, static, Persistent, Memories
    <3> QED  BY <1>1, <2>7, <3>1 DEF IInv, TypeOK, static
  <2>9. BootInv'
    BY <1>1, <2>1 DEF BootInv
  <2>10. AddedFirst'
    <3>1. \A n \in 1..Len(events'[t]) : events'[t][n].kind # "added"
      <4>1. CASE events'[t] = events[t]
        BY <2>6, <4>1
      <4>2. CASE events'[t] = q
        BY <2>5, <2>6, <4>2
      <4> QED  BY <2>7, <4>1, <4>2
    <3> QED  BY <2>7, <3>1 DEF IInv, AddedFirst
  <2>11. NoZombie'
    BY <1>1, <1>2, <2>1, <2>7 DEF IInv, NoZombie, static, t
  <2> QED  BY <1>3, <2>8, <2>9, <2>10, <2>11 DEF IInv
<1>5. CASE ~(t # NULL /\ upgrade_done_applies(t, info[t]))
  <2>1. UNCHANGED <<status, faultCode, events>>
    BY <1>5, Zenon DEF firmwareimage_notification
  <2>2. TypeOK'
    BY <1>1, <2>1 DEF IInv, TypeOK, static, Persistent
  <2>3. BootInv' /\ AddedFirst'
    BY <1>1, <2>1 DEF IInv, BootInv, AddedFirst
  <2>4. NoZombie'
    BY <1>1, <1>2, <1>5, <2>1 DEF IInv, NoZombie, WithinHasWindow, static,
       upgrade_done_applies
  <2> QED  BY <1>3, <2>2, <2>3, <2>4 DEF IInv
<1> QED  BY <1>4, <1>5

\* The end of the process, in any of its forms.
LEMMA StoppedKeepsIInv ==
  ASSUME IInv, NEW mem \in Memories, Stopped(mem),
         DownloadTypes',
         load' = load,
         restarts' \in Nat,
         applied' \subseteq Transfers
  PROVE  IInv'
<1>1. /\ plugin' = "down"
      /\ info' = [t \in Transfers |-> NULL]
      /\ events' = [t \in Transfers |-> <<>>]
      /\ transfer_in_progress' = NULL
      /\ disk' = mem
      /\ lost' \in BOOLEAN
  BY DEF Stopped
<1>2. Persistent' \in Memories
  BY DEF Stopped, Persistent, Memories
<1>3. allowance' \in [Transfers -> [Windows -> Int]]
  BY DEF Stopped, IInv, TypeOK
<1>4. events' \in [Transfers -> Seq(Events)]
  BY <1>1, EmptySeq
<1>5. TypeOK'
  BY <1>1, <1>2, <1>3, <1>4 DEF IInv, TypeOK, DownloadTypes
<1>6. BootInv' /\ AddedFirst'
  BY <1>1, EmptySeq DEF BootInv, AddedFirst
<1>7. WithinHasWindow' /\ InProgressIsUnfinished' /\ NoZombie'
  BY <1>1, TransfersAssumption DEF WithinHasWindow, InProgressIsUnfinished, NoZombie
<1> QED  BY <1>5, <1>6, <1>7 DEF IInv

\* The actions that stop the plugin.
LEMMA StopsKeepIInv ==
  ASSUME IInv, FirmwareApplied \/ AppStopped \/ Crash
               \/ \E t \in Transfers : EventOfDeletedTransfer(t)
  PROVE  IInv'
<1>1. /\ Persistent \in Memories
      /\ disk \in Memories
      /\ DownloadTypes
      /\ restarts \in Nat
      /\ applied \subseteq Transfers
  BY DEF IInv, TypeOK, DownloadTypes
<1>2. CASE FirmwareApplied
  BY <1>1, <1>2, StoppedKeepsIInv DEF FirmwareApplied, DownloadTypes
<1>3. CASE AppStopped
  BY <1>1, <1>3, StoppedKeepsIInv DEF AppStopped, DownloadTypes
<1>4. CASE Crash
  BY <1>1, <1>4, StoppedKeepsIInv DEF Crash, DownloadTypes
<1>5. CASE \E t \in Transfers : EventOfDeletedTransfer(t)
  BY <1>1, <1>5, StoppedKeepsIInv DEF EventOfDeletedTransfer, DownloadTypes
<1> QED  BY <1>2, <1>3, <1>4, <1>5

\* deferred_init_timer_cb.
LEMMA DeferredInitKeepsIInv ==
  ASSUME IInv, deferred_init_timer_cb
  PROVE  IInv'
<1> DEFINE i == [t \in Transfers |->
                   IF ~Exists(t) THEN NULL
                   ELSE IF info[t] # NULL THEN info[t]
                   ELSE transfers_transfer_add_info(t)]
           pending == {t \in Transfers : /\ status[t] = "In Progress"
                                         /\ upgrade_done_applies(t, i[t])}
<1>1. /\ plugin = "boot"
      /\ plugin' = "up"
      /\ info' = i
      /\ UNCHANGED <<windowStatus, maxRetries, transfer_in_progress, downloads, strays,
                     allowance, static>>
  BY Zenon DEF deferred_init_timer_cb
<1>2. PICK fc \in [pending -> {0, FAULT_CODE_INTERNAL_ERROR}] :
        /\ faultCode' = [t \in Transfers |-> IF t \in pending THEN fc[t]
                                             ELSE faultCode[t]]
        /\ status' = [t \in Transfers |->
                        IF t \notin pending THEN status[t]
                        ELSE IF fc[t] = 0 THEN "Done" ELSE "Failed"]
        /\ events' = [t \in Transfers |->
                        IF t \in pending /\ fc[t] # 0
                        THEN Append(events[t], Event("failed", 0))
                        ELSE events[t]]
  BY Zenon DEF deferred_init_timer_cb
<1>3. /\ status \in [Transfers -> Statuses]
      /\ faultCode \in [Transfers -> FaultCodes]
      /\ info \in [Transfers -> transfer_info_t \cup {NULL}]
      /\ events \in [Transfers -> Seq(Events)]
      /\ transfer_in_progress = NULL
  BY <1>1, PersistentType DEF IInv, TypeOK, BootInv
<1>4. \A t \in Transfers :
        /\ i[t] \in transfer_info_t \cup {NULL}
        /\ i[t] # NULL /\ i[t].withinTimeWindow => i[t].lastTimeWindow # 0
  BY <1>3, AddInfoFacts DEF IInv, WithinHasWindow
<1>5. i \in [Transfers -> transfer_info_t \cup {NULL}]
  BY <1>4
<1>6. \A t \in Transfers :
        status[t] = "In Progress" /\ upgrade_done_applies(t, i[t]) <=> t \in pending
  OBVIOUS
<1> HIDE DEF i, pending
<1>7. /\ status' \in [Transfers -> Statuses]
      /\ \A t \in Transfers :
           status'[t] = IF t \notin pending THEN status[t]
                        ELSE IF fc[t] = 0 THEN "Done" ELSE "Failed"
  BY <1>2, <1>3 DEF Statuses
<1>8. faultCode' \in [Transfers -> FaultCodes]
  BY <1>2, <1>3 DEF FaultCodes
<1>9. \A t \in Transfers :
        /\ Append(events[t], Event("failed", 0)) \in Seq(Events)
        /\ events[t] \in Seq(Events)
        /\ events'[t] = IF t \in pending /\ fc[t] # 0
                        THEN Append(events[t], Event("failed", 0))
                        ELSE events[t]
  BY <1>2, <1>3, AppendFacts, EventFacts
<1>10. events' \in [Transfers -> Seq(Events)]
  BY <1>2, <1>9
<1>11. TypeOK'
  <2>1. Persistent' \in Memories
    BY <1>1, <1>7, <1>8, PersistentType DEF IInv, TypeOK, static, Persistent, Memories
  <2> QED  BY <1>1, <1>5, <1>10, <2>1 DEF IInv, TypeOK, static
<1>12. BootInv'
  BY <1>1 DEF BootInv
<1>13. AddedFirst'
  <2> SUFFICES ASSUME NEW t \in Transfers
               PROVE  /\ \A n \in 1..Len(events'[t]) :
                           events'[t][n].kind = "added" => n = 1 /\ status'[t] = "Idle"
                      /\ status'[t] = "None" => events'[t] = <<>>
    BY DEF AddedFirst
  <2>1. CASE t \notin pending
    BY <1>7, <1>9, <2>1 DEF IInv, AddedFirst
  <2>2. CASE t \in pending
    <3>1. status'[t] # "None" /\ status[t] = "In Progress"
      BY <1>6, <1>7, <2>2
    <3>2. \A n \in 1..Len(events[t]) : events[t][n].kind # "added"
      BY <3>1 DEF IInv, AddedFirst
    <3> DEFINE q == Append(events[t], Event("failed", 0))
    <3>3. /\ Len(q) = Len(events[t]) + 1
          /\ Len(events[t]) \in Nat
          /\ q[Len(events[t]) + 1] = Event("failed", 0)
          /\ \A n \in 1..Len(events[t]) : q[n] = events[t][n]
      BY <1>9, AppendFacts, EventFacts
    <3>4. Event("failed", 0).kind # "added"
      BY DEF Event
    <3>5. events'[t] = q \/ events'[t] = events[t]
      BY <1>9
    <3> HIDE DEF q
    <3>6. \A n \in 1..Len(q) : q[n].kind # "added"
      BY <3>2, <3>3, <3>4
    <3>7. CASE events'[t] = q
      BY <3>1, <3>6, <3>7
    <3>8. CASE events'[t] = events[t]
      BY <3>1, <3>2, <3>8
    <3> QED  BY <3>5, <3>7, <3>8
  <2> QED  BY <2>1, <2>2
<1>14. WithinHasWindow'
  BY <1>1, <1>4 DEF WithinHasWindow
<1>15. InProgressIsUnfinished'
  BY <1>1, <1>3, TransfersAssumption DEF InProgressIsUnfinished
<1>16. NoZombie'
  BY <1>1, <1>4, <1>6, <1>7 DEF NoZombie, upgrade_done_applies, static
<1> QED  BY <1>11, <1>12, <1>13, <1>14, <1>15, <1>16 DEF IInv

\* The initial state.
LEMMA InitIInv == Init => IInv
<1> SUFFICES ASSUME Init PROVE IInv
  OBVIOUS
<1>1. Persistent \in Memories
  <2>1. maxRetries \in [Transfers -> [Windows -> Int]]
    BY DEF Init
  <2>2. /\ status \in [Transfers -> Statuses]
        /\ faultCode \in [Transfers -> FaultCodes]
        /\ windows \in [Transfers -> {0} \cup Windows]
        /\ windowMode \in [Transfers -> [Windows -> Modes]]
        /\ windowStatus \in [Transfers -> [Windows -> {"Idle", "Started", "Ended"}]]
    BY TransfersAssumption DEF Init, Statuses, FaultCodes
  <2> QED  BY <2>1, <2>2, PersistentType
<1>2. allowance \in [Transfers -> [Windows -> Int]]
  BY DEF Init
<1>3. TypeOK
  BY <1>1, <1>2, EmptySeq DEF Init, TypeOK
<1>4. BootInv /\ AddedFirst
  BY EmptySeq DEF Init, BootInv, AddedFirst
<1>5. WithinHasWindow /\ InProgressIsUnfinished /\ NoZombie
  BY TransfersAssumption DEF Init, WithinHasWindow, InProgressIsUnfinished, NoZombie
<1> QED  BY <1>3, <1>4, <1>5 DEF IInv

\* A step of the specification, or a stuttering one.
LEMMA NextIInv == IInv /\ [Next]_vars => IInv'
<1> SUFFICES ASSUME IInv, [Next]_vars PROVE IInv'
  OBVIOUS
<1>1. ASSUME NEW t \in Transfers, addScheduleDownload(t) PROVE IInv'
  BY <1>1, AddKeepsIInv
<1>2. ASSUME NEW t \in Transfers, scheduleDownload_del_inst(t) PROVE IInv'
  BY <1>2, DelKeepsIInv
<1>3. ASSUME NEW t \in Transfers, WindowTimer(t) PROVE IInv'
  <2>1. PICK w \in Windows :
          timewindow_start_timer_cb(t, w) \/ timewindow_end_timer_cb(t, w)
    BY <1>3 DEF WindowTimer
  <2>2. CASE timewindow_start_timer_cb(t, w)
    BY <2>2, WindowTimerKeepsIInv DEF timewindow_start_timer_cb
  <2>3. CASE timewindow_end_timer_cb(t, w)
    BY <2>3, WindowTimerKeepsIInv DEF timewindow_end_timer_cb
  <2> QED  BY <2>1, <2>2, <2>3
<1>4. ASSUME NEW t \in Transfers, HandleEvent(t) PROVE IInv'
  BY <1>4, AddedKeepsIInv, StartedKeepsIInv, EndedKeepsIInv, FailedKeepsIInv,
     StopsKeepIInv DEF HandleEvent
<1>5. ASSUME NEW fc \in {FAULT_CODE_FILE_TRANSFER_FAILURE,
                         FAULT_CODE_UNSUPPORTED_PROTOCOL},
             NEW t \in Transfers, FirmwareFailed(t, fc) \/ StrayFailed(t, fc)
      PROVE  IInv'
  <2>1. fc \in FaultCodes
    BY DEF FaultCodes
  <2>2. DownloadTypes'
    BY <1>5 DEF IInv, TypeOK, DownloadTypes, FirmwareFailed, StrayFailed
  <2>3. firmwareimage_notification(fc)
    BY <1>5 DEF FirmwareFailed, StrayFailed
  <2> QED  BY <2>1, <2>2, <2>3, FirmwareFailedKeepsIInv
<1>6. CASE FirmwareApplied \/ AppStopped \/ Crash
  BY <1>6, StopsKeepIInv
<1>7. CASE Save
  <2>1. disk' \in Memories
    BY <1>7 DEF IInv, TypeOK, Save
  <2>2. TypeOK'
    BY <1>7, <2>1 DEF IInv, TypeOK, Save, Persistent
  <2>3. BootInv' /\ AddedFirst' /\ WithinHasWindow'
    BY <1>7 DEF IInv, BootInv, AddedFirst, WithinHasWindow, Save
  <2>4. InProgressIsUnfinished' /\ NoZombie'
    BY <1>7 DEF IInv, InProgressIsUnfinished, NoZombie, Save
  <2> QED  BY <2>2, <2>3, <2>4 DEF IInv
<1>8. CASE Boot
  <2>1. TypeOK'
    BY <1>8 DEF IInv, TypeOK, Boot, static, Persistent
  <2>2. BootInv' /\ AddedFirst' /\ WithinHasWindow'
    BY <1>8 DEF IInv, BootInv, AddedFirst, WithinHasWindow, Boot
  <2>3. InProgressIsUnfinished' /\ NoZombie'
    BY <1>8 DEF IInv, InProgressIsUnfinished, NoZombie, Boot
  <2> QED  BY <2>1, <2>2, <2>3 DEF IInv
<1>9. CASE deferred_init_timer_cb
  BY <1>9, DeferredInitKeepsIInv
<1>10. CASE UNCHANGED vars
  <2>1. TypeOK'
    BY <1>10 DEF IInv, TypeOK, vars, Persistent
  <2>2. BootInv' /\ AddedFirst' /\ WithinHasWindow'
    BY <1>10 DEF IInv, BootInv, AddedFirst, WithinHasWindow, vars
  <2>3. InProgressIsUnfinished' /\ NoZombie'
    BY <1>10 DEF IInv, InProgressIsUnfinished, NoZombie, vars
  <2> QED  BY <2>1, <2>2, <2>3 DEF IInv
<1> QED  BY <1>1, <1>2, <1>3, <1>4, <1>5, <1>6, <1>7, <1>8, <1>9, <1>10 DEF Next

-----------------------------------------------------------------------------
(***************************************************************************)
(* The windows: the info follows the data model through the queue.         *)
(***************************************************************************)

\* An info is not the null pointer.
LEMMA NullIsNoInfo == NULL \notin transfer_info_t
  BY TransfersAssumption DEF transfer_info_t, Windows

\* The step an event announces.
LEMMA NumFacts ==
  /\ \A e \in Events : Num(e) \in 0..4
  /\ \A e \in Events : e.kind \in {"added", "failed"} <=> Num(e) = 0
  /\ Num(Event("added", 0)) = 0
  /\ Num(Event("failed", 0)) = 0
  /\ \A w \in Windows : /\ Num(Event("started", w)) = 2 * w - 1
                        /\ Num(Event("ended", w)) = 2 * w
<1>1. \A e \in Events : Num(e) \in 0..4 /\ (e.kind \in {"added", "failed"} <=> Num(e) = 0)
  BY DEF Events, Num, Windows
<1>2. QED
  BY <1>1 DEF Event, Num

\* The step the info has reached.
LEMMA ReachedFacts ==
  ASSUME NEW i \in transfer_info_t, i.withinTimeWindow => i.lastTimeWindow # 0
  PROVE  /\ Reached(i) \in 0..4
         /\ i.lastTimeWindow = 0 <=> Reached(i) = 0
         /\ \A w \in Windows : Reached(i) = 2 * w - 1 <=>
               i.lastTimeWindow = w /\ i.withinTimeWindow
         /\ \A w \in Windows : Reached(i) = 2 * w <=>
               i.lastTimeWindow = w /\ ~i.withinTimeWindow
  BY DEF transfer_info_t, Reached, Windows

\* An info is determined by the step it has reached.
LEMMA ReachedInjective ==
  ASSUME NEW i \in transfer_info_t, i.withinTimeWindow => i.lastTimeWindow # 0,
         NEW j \in transfer_info_t, j.withinTimeWindow => j.lastTimeWindow # 0,
         Reached(i) = Reached(j)
  PROVE  i = j
<1>1. /\ i = [lastTimeWindow |-> i.lastTimeWindow, withinTimeWindow |-> i.withinTimeWindow]
      /\ j = [lastTimeWindow |-> j.lastTimeWindow, withinTimeWindow |-> j.withinTimeWindow]
      /\ i.lastTimeWindow \in {0, 1, 2} /\ j.lastTimeWindow \in {0, 1, 2}
      /\ i.withinTimeWindow \in BOOLEAN /\ j.withinTimeWindow \in BOOLEAN
  BY DEF transfer_info_t, Windows
<1>2. i.lastTimeWindow = j.lastTimeWindow /\ (i.withinTimeWindow <=> j.withinTimeWindow)
  BY <1>1 DEF Reached
<1>3. i.withinTimeWindow = j.withinTimeWindow
  BY <1>1, <1>2
<1>4. QED  BY <1>1, <1>2, <1>3

\* With no window event queued the info has reached the data model.
LEMMA SyncEmpty ==
  ASSUME NEW q \in Seq(Events), NEW s \in 0..4,
         \A n \in 1..Len(q) : Num(q[n]) = 0
  PROVE  /\ Sync(q, s, s)
         /\ \A g \in 0..4 : Sync(q, g, s) => g = s
<1>1. Sync(q, s, s)
  BY DEF Sync
<1>2. ASSUME NEW g \in 0..4, Sync(q, g, s) PROVE g = s
  <2>1. g <= s
    BY <1>2 DEF Sync
  <2>2. ~(g < s)
    <3> SUFFICES ASSUME g < s PROVE FALSE
      OBVIOUS
    <3>1. s \in 1..4
      OBVIOUS
    <3>2. \E n \in 1..Len(q) : Num(q[n]) = s
      BY <1>2, <3>1 DEF Sync
    <3>3. QED  BY <3>1, <3>2
  <2>3. QED  BY <2>1, <2>2
<1>3. QED  BY <1>1, <1>2

\* An event that is not of a window comes and goes.
LEMMA SyncAppendOther ==
  ASSUME NEW q \in Seq(Events), NEW g \in 0..4, NEW s \in 0..4, NEW e \in Events,
         Num(e) = 0, Sync(q, g, s)
  PROVE  Sync(Append(q, e), g, s)
<1> DEFINE r == Append(q, e)
<1>1. /\ Len(r) = Len(q) + 1
      /\ r[Len(q) + 1] = e
      /\ \A n \in 1..Len(q) : r[n] = q[n]
      /\ Len(q) \in Nat
  BY AppendFacts
<1> HIDE DEF r
<1>2. \A n \in 1..Len(r) : Num(r[n]) # 0 => n \in 1..Len(q) /\ r[n] = q[n]
  BY <1>1
<1>3. \A n \in 1..Len(q) : n \in 1..Len(r) /\ r[n] = q[n]
  BY <1>1
<1>4. /\ g <= s
      /\ \A n \in 1..Len(q) : Num(q[n]) # 0 => g < Num(q[n]) /\ Num(q[n]) <= s
      /\ \A m, n \in 1..Len(q) :
            m < n /\ Num(q[m]) # 0 /\ Num(q[n]) # 0 => Num(q[m]) < Num(q[n])
      /\ \A k \in 1..4 : g < k /\ k <= s => \E n \in 1..Len(q) : Num(q[n]) = k
  BY DEF Sync
<1>5. \A n \in 1..Len(r) : Num(r[n]) # 0 => g < Num(r[n]) /\ Num(r[n]) <= s
  BY <1>2, <1>4
<1>6. \A m, n \in 1..Len(r) :
         m < n /\ Num(r[m]) # 0 /\ Num(r[n]) # 0 => Num(r[m]) < Num(r[n])
  <2> SUFFICES ASSUME NEW m \in 1..Len(r), NEW n \in 1..Len(r),
                      m < n, Num(r[m]) # 0, Num(r[n]) # 0
               PROVE  Num(r[m]) < Num(r[n])
    OBVIOUS
  <2>1. m \in 1..Len(q) /\ r[m] = q[m] /\ n \in 1..Len(q) /\ r[n] = q[n]
    BY <1>2
  <2>2. QED  BY <1>4, <2>1
<1>7. \A k \in 1..4 : g < k /\ k <= s => \E n \in 1..Len(r) : Num(r[n]) = k
  BY <1>3, <1>4
<1>8. Sync(r, g, s)
  BY <1>4, <1>5, <1>6, <1>7 DEF Sync
<1>9. QED  BY <1>8 DEF r

\* A timer queues the next step.
LEMMA SyncAppendWindow ==
  ASSUME NEW q \in Seq(Events), NEW g \in 0..4, NEW s \in 0..3, NEW e \in Events,
         Num(e) = s + 1, Sync(q, g, s)
  PROVE  Sync(Append(q, e), g, s + 1)
<1> DEFINE r == Append(q, e)
<1>1. /\ Len(r) = Len(q) + 1
      /\ r[Len(q) + 1] = e
      /\ \A n \in 1..Len(q) : r[n] = q[n]
      /\ Len(q) \in Nat
  BY AppendFacts
<1> HIDE DEF r
<1>2. \A n \in 1..Len(r) : \/ n = Len(q) + 1 /\ Num(r[n]) = s + 1
                           \/ n \in 1..Len(q) /\ r[n] = q[n]
  BY <1>1
<1>3. \A n \in 1..Len(q) : n \in 1..Len(r) /\ r[n] = q[n]
  BY <1>1
<1>4. /\ g <= s
      /\ \A n \in 1..Len(q) : Num(q[n]) # 0 => g < Num(q[n]) /\ Num(q[n]) <= s
      /\ \A m, n \in 1..Len(q) :
            m < n /\ Num(q[m]) # 0 /\ Num(q[n]) # 0 => Num(q[m]) < Num(q[n])
      /\ \A k \in 1..4 : g < k /\ k <= s => \E n \in 1..Len(q) : Num(q[n]) = k
  BY DEF Sync
<1>5. \A n \in 1..Len(q) : Num(q[n]) \in 0..4
  <2>1. \A n \in 1..Len(q) : q[n] \in Events
    OBVIOUS
  <2>2. QED  BY <2>1, NumFacts
<1>6. \A n \in 1..Len(r) : Num(r[n]) # 0 => g < Num(r[n]) /\ Num(r[n]) <= s + 1
  <2> SUFFICES ASSUME NEW n \in 1..Len(r), Num(r[n]) # 0
               PROVE  g < Num(r[n]) /\ Num(r[n]) <= s + 1
    OBVIOUS
  <2>1. CASE n \in 1..Len(q) /\ r[n] = q[n]
    <3>1. g < Num(r[n]) /\ Num(r[n]) <= s /\ Num(r[n]) \in 0..4
      BY <1>4, <1>5, <2>1
    <3>2. QED  BY <3>1
  <2>2. CASE Num(r[n]) = s + 1
    BY <1>4, <2>2
  <2>3. QED  BY <1>2, <2>1, <2>2
<1>7. \A m, n \in 1..Len(r) :
         m < n /\ Num(r[m]) # 0 /\ Num(r[n]) # 0 => Num(r[m]) < Num(r[n])
  <2> SUFFICES ASSUME NEW m \in 1..Len(r), NEW n \in 1..Len(r),
                      m < n, Num(r[m]) # 0, Num(r[n]) # 0
               PROVE  Num(r[m]) < Num(r[n])
    OBVIOUS
  <2>1. m \in 1..Len(q) /\ r[m] = q[m]
    BY <1>1, <1>2
  <2>2. CASE n \in 1..Len(q) /\ r[n] = q[n]
    BY <1>4, <2>1, <2>2
  <2>3. CASE Num(r[n]) = s + 1
    <3>1. Num(r[m]) <= s /\ Num(r[m]) \in 0..4
      BY <1>4, <1>5, <2>1
    <3>2. QED  BY <2>3, <3>1
  <2>4. QED  BY <1>2, <2>2, <2>3
<1>8. \A k \in 1..4 : g < k /\ k <= s + 1 => \E n \in 1..Len(r) : Num(r[n]) = k
  <2> SUFFICES ASSUME NEW k \in 1..4, g < k, k <= s + 1
               PROVE  \E n \in 1..Len(r) : Num(r[n]) = k
    OBVIOUS
  <2>1. CASE k <= s
    BY <1>3, <1>4, <2>1
  <2>2. CASE k = s + 1
    <3>1. Len(q) + 1 \in 1..Len(r) /\ Num(r[Len(q) + 1]) = k
      BY <1>1, <2>2
    <3>2. QED  BY <3>1
  <2>3. QED  BY <2>1, <2>2
<1>9. g <= s + 1
  BY <1>4
<1>10. Sync(r, g, s + 1)
  BY <1>6, <1>7, <1>8, <1>9 DEF Sync
<1>11. QED  BY <1>10 DEF r

\* The first event is removed: the info advances if it is one of a window,
\* which then is the next step and not announced again.
LEMMA SyncTail ==
  ASSUME NEW q \in Seq(Events), q # <<>>, NEW g \in 0..4, NEW s \in 0..4, Sync(q, g, s)
  PROVE  /\ Num(Head(q)) = 0 => Sync(Tail(q), g, s)
         /\ Num(Head(q)) # 0 => /\ Num(Head(q)) = g + 1
                                /\ g + 1 <= s
                                /\ Sync(Tail(q), g + 1, s)
                                /\ \A n \in 1..Len(Tail(q)) : Num(Tail(q)[n]) # g + 1
<1> DEFINE r == Tail(q)
<1>1. /\ Head(q) = q[1]
      /\ Len(q) \in Nat /\ Len(q) > 0
      /\ Len(r) = Len(q) - 1
      /\ \A n \in 1..Len(r) : r[n] = q[n + 1]
  BY QueueFacts
<1> HIDE DEF r
<1>2. \A n \in 1..Len(r) : n + 1 \in 1..Len(q) /\ n + 1 # 1 /\ r[n] = q[n + 1]
  BY <1>1
<1>3. \A n \in 1..Len(q) : n # 1 => n - 1 \in 1..Len(r) /\ r[n - 1] = q[n]
  BY <1>1
<1>4. /\ g <= s
      /\ \A n \in 1..Len(q) : Num(q[n]) # 0 => g < Num(q[n]) /\ Num(q[n]) <= s
      /\ \A m, n \in 1..Len(q) :
            m < n /\ Num(q[m]) # 0 /\ Num(q[n]) # 0 => Num(q[m]) < Num(q[n])
      /\ \A k \in 1..4 : g < k /\ k <= s => \E n \in 1..Len(q) : Num(q[n]) = k
  BY DEF Sync
<1>5. \A n \in 1..Len(q) : Num(q[n]) \in 0..4
  <2>1. \A n \in 1..Len(q) : q[n] \in Events
    OBVIOUS
  <2>2. QED  BY <2>1, NumFacts
<1>6. \A m, n \in 1..Len(r) :
         m < n /\ Num(r[m]) # 0 /\ Num(r[n]) # 0 => Num(r[m]) < Num(r[n])
  <2> SUFFICES ASSUME NEW m \in 1..Len(r), NEW n \in 1..Len(r),
                      m < n, Num(r[m]) # 0, Num(r[n]) # 0
               PROVE  Num(r[m]) < Num(r[n])
    OBVIOUS
  <2>1. m + 1 \in 1..Len(q) /\ n + 1 \in 1..Len(q) /\ m + 1 < n + 1
    BY <1>2
  <2>2. r[m] = q[m + 1] /\ r[n] = q[n + 1]
    BY <1>2
  <2>3. QED  BY <1>4, <2>1, <2>2
<1>7. CASE Num(q[1]) = 0
  <2>1. \A n \in 1..Len(r) : Num(r[n]) # 0 => g < Num(r[n]) /\ Num(r[n]) <= s
    BY <1>2, <1>4
  <2>2. \A k \in 1..4 : g < k /\ k <= s => \E n \in 1..Len(r) : Num(r[n]) = k
    <3> SUFFICES ASSUME NEW k \in 1..4, g < k, k <= s
                 PROVE  \E n \in 1..Len(r) : Num(r[n]) = k
      OBVIOUS
    <3>1. PICK n \in 1..Len(q) : Num(q[n]) = k
      BY <1>4
    <3>2. n # 1
      BY <1>7, <3>1
    <3>3. QED  BY <1>3, <3>1, <3>2
  <2>3. Sync(r, g, s)
    BY <1>4, <1>6, <2>1, <2>2 DEF Sync
  <2>4. QED  BY <1>1, <1>7, <2>3 DEF r
<1>8. CASE Num(q[1]) # 0
  <2>1. 1 \in 1..Len(q)
    BY <1>1
  <2>2. g < Num(q[1]) /\ Num(q[1]) <= s /\ Num(q[1]) \in 0..4
    BY <1>4, <1>5, <1>8, <2>1
  <2>3. g + 1 \in 1..4 /\ g + 1 <= s /\ g < g + 1
    BY <2>2
  <2>4. PICK n1 \in 1..Len(q) : Num(q[n1]) = g + 1
    BY <1>4, <2>3
  <2>5. Num(q[1]) = g + 1
    <3>1. CASE n1 = 1
      BY <2>4, <3>1
    <3>2. CASE n1 # 1
      <4>1. 1 < n1 /\ Num(q[n1]) # 0
        BY <2>4, <3>2
      <4>2. Num(q[1]) < Num(q[n1])
        BY <1>4, <1>8, <2>1, <4>1
      <4>3. QED  BY <2>2, <2>4, <4>2
    <3>3. QED  BY <3>1, <3>2
  <2>6. \A n \in 1..Len(r) : Num(r[n]) # 0 => g + 1 < Num(r[n]) /\ Num(r[n]) <= s
    <3> SUFFICES ASSUME NEW n \in 1..Len(r), Num(r[n]) # 0
                 PROVE  g + 1 < Num(r[n]) /\ Num(r[n]) <= s
      OBVIOUS
    <3>1. n + 1 \in 1..Len(q) /\ 1 < n + 1 /\ r[n] = q[n + 1]
      BY <1>2
    <3>2. QED  BY <1>4, <1>8, <2>1, <2>5, <3>1
  <2>7. \A k \in 1..4 : g + 1 < k /\ k <= s => \E n \in 1..Len(r) : Num(r[n]) = k
    <3> SUFFICES ASSUME NEW k \in 1..4, g + 1 < k, k <= s
                 PROVE  \E n \in 1..Len(r) : Num(r[n]) = k
      OBVIOUS
    <3>1. PICK n \in 1..Len(q) : Num(q[n]) = k
      BY <1>4
    <3>2. n # 1
      BY <2>5, <3>1
    <3>3. QED  BY <1>3, <3>1, <3>2
  <2>8. Sync(r, g + 1, s)
    BY <1>6, <2>3, <2>6, <2>7 DEF Sync
  <2>9. \A n \in 1..Len(r) : Num(r[n]) # g + 1
    BY <2>3, <2>6
  <2>10. QED  BY <1>1, <1>8, <2>3, <2>5, <2>8, <2>9 DEF r
<1>9. QED  BY <1>7, <1>8

\* The step the data model has reached, and what transfers_transfer_add_info
\* makes of it.
LEMMA StageFacts ==
  ASSUME TypeOK, WellFormed(Persistent), NEW t \in Transfers
  PROVE  /\ Stage(t) \in 0..4
         /\ Reached(transfers_transfer_add_info(t)) = Stage(t)
         /\ \A w \in Windows : 2 * w - 1 <= Stage(t) => windowStatus[t][w] # "Idle"
<1>1. /\ windowStatus[t][1] \in {"Idle", "Started", "Ended"}
      /\ windowStatus[t][2] \in {"Idle", "Started", "Ended"}
      /\ windows[t] \in {0, 1, 2}
  BY PersistentType DEF TypeOK, Windows
<1>2. /\ windowStatus[t][1] # "Idle" => windows[t] >= 1
      /\ windowStatus[t][2] # "Idle" => windows[t] >= 2 /\ windowStatus[t][1] = "Ended"
  BY <1>1 DEF WellFormed, Persistent, Windows
<1>3. Stage(t) \in 0..4
  BY DEF Stage
<1>4. \A w \in Windows : 2 * w - 1 <= Stage(t) => windowStatus[t][w] # "Idle"
  BY <1>1, <1>2 DEF Stage, Windows
<1>5. Reached(transfers_transfer_add_info(t)) = Stage(t)
  <2> DEFINE lst == IF windowStatus[t][2] # "Idle" THEN 2
                    ELSE IF windowStatus[t][1] # "Idle" THEN 1 ELSE 0
             within == lst # 0 /\ windowStatus[t][lst] = "Started"
             begun == {w \in 1..windows[t] : windowStatus[t][w] # "Idle"}
             last == IF 2 \in begun THEN 2 ELSE IF 1 \in begun THEN 1 ELSE 0
  <2>1. /\ transfers_transfer_add_info(t).lastTimeWindow = lst
        /\ transfers_transfer_add_info(t).withinTimeWindow = within
    <3>1. /\ 1 \in begun <=> windowStatus[t][1] # "Idle"
          /\ 2 \in begun <=> windowStatus[t][2] # "Idle"
      BY <1>1, <1>2
    <3> HIDE DEF begun
    <3>2. last = lst
      BY <3>1
    <3>3. transfers_transfer_add_info(t) =
            [lastTimeWindow |-> last,
             withinTimeWindow |-> last # 0 /\ windowStatus[t][last] = "Started"]
      BY Zenon DEF transfers_transfer_add_info, begun, last
    <3> HIDE DEF lst, last, within
    <3>4. (last # 0 /\ windowStatus[t][last] = "Started") = within
      BY <3>2 DEF within
    <3>5. transfers_transfer_add_info(t) =
            [lastTimeWindow |-> lst, withinTimeWindow |-> within]
      BY <3>2, <3>3, <3>4
    <3>6. QED  BY <3>5
  <2> HIDE DEF lst, within
  <2>2. CASE windowStatus[t][2] = "Started"
    <3>1. lst = 2 /\ within = TRUE
      BY <2>2 DEF lst, within
    <3>2. QED  BY <2>1, <2>2, <3>1 DEF Reached, Stage
  <2>3. CASE windowStatus[t][2] = "Ended"
    <3>1. lst = 2 /\ within = FALSE
      BY <2>3 DEF lst, within
    <3>2. QED  BY <2>1, <2>3, <3>1 DEF Reached, Stage
  <2>4. CASE windowStatus[t][2] = "Idle" /\ windowStatus[t][1] = "Started"
    <3>1. lst = 1 /\ within = TRUE
      BY <2>4 DEF lst, within
    <3>2. QED  BY <2>1, <2>4, <3>1 DEF Reached, Stage
  <2>5. CASE windowStatus[t][2] = "Idle" /\ windowStatus[t][1] = "Ended"
    <3>1. lst = 1 /\ within = FALSE
      BY <2>5 DEF lst, within
    <3>2. QED  BY <2>1, <2>5, <3>1 DEF Reached, Stage
  <2>6. CASE windowStatus[t][2] = "Idle" /\ windowStatus[t][1] = "Idle"
    <3>1. lst = 0 /\ within = FALSE
      BY <2>6 DEF lst, within
    <3>2. QED  BY <2>1, <2>6, <3>1 DEF Reached, Stage
  <2>7. QED  BY <1>1, <2>2, <2>3, <2>4, <2>5, <2>6
<1>6. QED  BY <1>3, <1>4, <1>5

\* A step that leaves the windows alone and un-adds no transfer.
LEMMA FormKept ==
  ASSUME WellFormed(Persistent), windowStatus' = windowStatus, windows' = windows,
         \A u \in Transfers : status[u] # "None" => status'[u] # "None"
  PROVE  WellFormed(Persistent)'
  BY DEF WellFormed, Persistent

\* A transfer a step leaves alone.
LEMMA SyncKept ==
  ASSUME NEW u \in Transfers, InSync(u),
         info'[u] = info[u], events'[u] = events[u], Exists(u)' <=> Exists(u),
         windowStatus'[u] = windowStatus[u], plugin' = "up" => plugin = "up"
  PROVE  InSync(u)'
<1>1. Stage(u)' = Stage(u)
  BY DEF Stage
<1>2. Sync(events[u], Reached(info[u]), Stage(u))' <=> Sync(events[u], Reached(info[u]), Stage(u))
  BY <1>1 DEF Sync, Reached
<1>3. (\A n \in 1..Len(events[u]) : Num(events[u][n]) = 0)'
        <=> \A n \in 1..Len(events[u]) : Num(events[u][n]) = 0
  OBVIOUS
<1> HIDE DEF Sync
<1>4. QED  BY <1>2, <1>3 DEF InSync

\* A step that starts nothing and makes no start due.
LEMMA PaidKept ==
  ASSUME StartsArePaid, ~lost' => ~lost, TypeOK,
         allowance' = allowance, maxRetries' = maxRetries,
         \A u \in Transfers, w \in Windows : StartIsDue(u, w)' => StartIsDue(u, w)
  PROVE  StartsArePaid'
<1> SUFFICES ASSUME ~lost', NEW u \in Transfers, NEW w \in Windows
             PROVE  allowance'[u][w] >= RetriesLeft(u, w)'
                                        + (IF StartIsDue(u, w)' THEN 1 ELSE 0)
  BY DEF StartsArePaid
<1>1. allowance[u][w] \in Int /\ maxRetries[u][w] \in Int
  BY PersistentType DEF TypeOK
<1>2. RetriesLeft(u, w)' = RetriesLeft(u, w) /\ RetriesLeft(u, w) \in Int
  BY <1>1 DEF RetriesLeft
<1>3. allowance[u][w] >= RetriesLeft(u, w) + (IF StartIsDue(u, w) THEN 1 ELSE 0)
  BY DEF StartsArePaid
<1>4. StartIsDue(u, w)' => StartIsDue(u, w)
  OBVIOUS
<1>5. QED  BY <1>1, <1>2, <1>3, <1>4

-----------------------------------------------------------------------------
\* A handler keeps the info in step: it removes the first event, and the
\* info it leaves is the one of that event, if it is one of a window.
LEMMA HandlerKeepsSync ==
  ASSUME IInv, WInv, NEW t \in Transfers, NEW i \in transfer_info_t,
         i.withinTimeWindow => i.lastTimeWindow # 0,
         Handled(t, i), Exists(t), info[t] # NULL, events[t] # <<>>,
         UNCHANGED <<plugin, windowStatus, static>>,
         Num(Head(events[t])) = 0 => i = info[t],
         Num(Head(events[t])) # 0 /\ Num(Head(events[t])) = Reached(info[t]) + 1
            => Reached(i) = Num(Head(events[t]))
  PROVE  /\ WellFormed(Persistent)'
         /\ WellFormed(disk)'
         /\ InfoInSync'
         /\ \A u \in Transfers, w \in Windows : StartIsDue(u, w)' => StartIsDue(u, w)
         /\ \A w \in Windows : Num(Head(events[t])) = 2 * w - 1 =>
               StartIsDue(t, w) /\ ~StartIsDue(t, w)'
<1>1. PICK st \in Statuses, q \in Seq(Events) : HandlerPost(t, i, st, q)
  BY DEF Handled
<1>2. /\ events \in [Transfers -> Seq(Events)]
      /\ events[t] \in Seq(Events)
      /\ status \in [Transfers -> Statuses]
      /\ info \in [Transfers -> transfer_info_t \cup {NULL}]
      /\ windowStatus' = windowStatus /\ windows' = windows /\ disk' = disk
      /\ plugin' = plugin
  BY PersistentType DEF IInv, TypeOK, static
<1>3. /\ events'[t] = q /\ status'[t] = st /\ info'[t] = i
      /\ \A u \in Transfers : u # t =>
            events'[u] = events[u] /\ status'[u] = status[u] /\ info'[u] = info[u]
  BY <1>1, <1>2 DEF HandlerPost
<1>4. st \notin {"None", "Deleted"}
  BY <1>1 DEF HandlerPost, Exists
<1>5. WellFormed(Persistent)' /\ WellFormed(disk)'
  <2>1. \A u \in Transfers : status[u] # "None" => status'[u] # "None"
    BY <1>3, <1>4
  <2>2. WellFormed(Persistent)'
    BY <1>2, <2>1, FormKept DEF WInv
  <2>3. QED  BY <1>2, <2>2 DEF WInv, WellFormed
<1>6. info[t] \in transfer_info_t /\ (info[t].withinTimeWindow => info[t].lastTimeWindow # 0)
  BY <1>2 DEF IInv, WithinHasWindow
<1>7. Reached(info[t]) \in 0..4 /\ Reached(i) \in 0..4 /\ Stage(t) \in 0..4
  BY <1>6, ReachedFacts, StageFacts DEF WInv, IInv
<1>8. Sync(events[t], Reached(info[t]), Stage(t))
  BY DEF WInv, InfoInSync, InSync
<1> DEFINE tl == Tail(events[t])
<1>9. tl \in Seq(Events) /\ q \in {tl, Append(tl, Event("failed", 0))}
  BY <1>1, <1>2, QueueFacts DEF HandlerPost
<1>10. Sync(tl, Reached(i), Stage(t))
  <2>1. CASE Num(Head(events[t])) = 0
    BY <1>2, <1>7, <1>8, <2>1, SyncTail
  <2>2. CASE Num(Head(events[t])) # 0
    BY <1>2, <1>7, <1>8, <2>2, SyncTail
  <2>3. QED  BY <2>1, <2>2
<1>11. Sync(q, Reached(i), Stage(t))
  BY <1>7, <1>9, <1>10, SyncAppendOther, EventFacts, NumFacts
<1>12. InfoInSync'
  <2> SUFFICES ASSUME NEW u \in Transfers PROVE InSync(u)'
    BY DEF InfoInSync
  <2>1. CASE u = t
    <3>1. Stage(t)' = Stage(t)
      BY <1>2 DEF Stage
    <3>2. Exists(t)' /\ info'[t] # NULL
      BY <1>3, <1>4, <1>6, NullIsNoInfo DEF Exists
    <3>3. Sync(events[t], Reached(info[t]), Stage(t))'
      BY <1>3, <1>11, <3>1
    <3>4. QED  BY <2>1, <3>2, <3>3 DEF InSync
  <2>2. CASE u # t
    <3>1. Exists(u)' <=> Exists(u)
      BY <1>3, <2>2 DEF Exists
    <3>2. InSync(u)
      BY DEF WInv, InfoInSync
    <3>3. QED  BY <1>2, <1>3, <2>2, <3>1, <3>2, SyncKept
  <2>3. QED  BY <2>1, <2>2
<1>13. \A n \in 1..Len(q) : Num(q[n]) # 0 =>
          \E m \in 1..Len(tl) : Num(tl[m]) = Num(q[n])
  <2>1. CASE q = tl
    BY <2>1
  <2>2. CASE q = Append(tl, Event("failed", 0))
    <3>1. /\ Len(q) = Len(tl) + 1
          /\ q[Len(tl) + 1] = Event("failed", 0)
          /\ \A n \in 1..Len(tl) : q[n] = tl[n]
          /\ Len(tl) \in Nat
      BY <1>9, <2>2, AppendFacts, EventFacts
    <3> HIDE DEF tl
    <3>2. \A n \in 1..Len(q) : n = Len(tl) + 1 \/ n \in 1..Len(tl)
      BY <3>1
    <3>3. QED  BY <3>1, <3>2, NumFacts
  <2>3. QED  BY <1>9, <2>1, <2>2
<1>14. \A m \in 1..Len(tl) : m + 1 \in 1..Len(events[t]) /\ tl[m] = events[t][m + 1]
  <2>1. /\ Len(events[t]) \in Nat
        /\ Len(tl) = Len(events[t]) - 1
        /\ \A n \in 1..Len(tl) : tl[n] = events[t][n + 1]
    BY <1>2, QueueFacts
  <2> HIDE DEF tl
  <2>2. QED  BY <2>1
<1> HIDE DEF tl
<1>15. \A u \in Transfers, w \in Windows : StartIsDue(u, w)' => StartIsDue(u, w)
  <2> SUFFICES ASSUME NEW u \in Transfers, NEW w \in Windows, StartIsDue(u, w)'
               PROVE  StartIsDue(u, w)
    OBVIOUS
  <2>1. CASE u # t
    BY <1>2, <1>3, <2>1 DEF StartIsDue
  <2>2. CASE u = t /\ windowStatus[t][w] = "Idle"
    BY <2>2 DEF StartIsDue
  <2>3. CASE u = t /\ windowStatus[t][w] # "Idle"
    <3>1. PICK n \in 1..Len(q) : Num(q[n]) = 2 * w - 1
      BY <1>2, <1>3, <2>3 DEF StartIsDue
    <3>2. 2 * w - 1 # 0
      BY DEF Windows
    <3>3. PICK m \in 1..Len(tl) : Num(tl[m]) = 2 * w - 1
      BY <1>13, <3>1, <3>2
    <3>4. QED  BY <1>14, <2>3, <3>3 DEF StartIsDue
  <2>4. QED  BY <2>1, <2>2, <2>3
<1>16. ASSUME NEW w \in Windows, Num(Head(events[t])) = 2 * w - 1
       PROVE  StartIsDue(t, w) /\ ~StartIsDue(t, w)'
  <2>1. 2 * w - 1 # 0
    BY DEF Windows
  <2>2. /\ Reached(info[t]) + 1 = 2 * w - 1
        /\ 2 * w - 1 <= Stage(t)
        /\ \A n \in 1..Len(tl) : Num(tl[n]) # 2 * w - 1
    BY <1>2, <1>7, <1>8, <1>16, <2>1, SyncTail DEF tl
  <2>3. windowStatus[t][w] # "Idle"
    BY <2>2, StageFacts DEF WInv, IInv
  <2>4. ~\E n \in 1..Len(q) : Num(q[n]) = 2 * w - 1
    BY <1>13, <2>1, <2>2
  <2>5. ~StartIsDue(t, w)'
    BY <1>2, <1>3, <2>3, <2>4 DEF StartIsDue
  <2>6. 1 \in 1..Len(events[t]) /\ events[t][1] = Head(events[t])
    BY <1>2, QueueFacts
  <2>7. StartIsDue(t, w)
    BY <1>16, <2>6 DEF StartIsDue
  <2>8. QED  BY <2>5, <2>7
<1>17. QED  BY <1>5, <1>12, <1>15, <1>16

\* The start of a window is paid once, because its event is not queued again.
LEMMA StartCharged ==
  ASSUME TypeOK, StartsArePaid, lost' = lost, NEW t \in Transfers, NEW w \in Windows,
         Charged(t, w), maxRetries' = maxRetries,
         StartIsDue(t, w), ~StartIsDue(t, w)',
         \A u \in Transfers, v \in Windows : StartIsDue(u, v)' => StartIsDue(u, v)
  PROVE  StartsArePaid'
<1> SUFFICES ASSUME ~lost, NEW u \in Transfers, NEW v \in Windows
             PROVE  allowance'[u][v] >= RetriesLeft(u, v)'
                                        + (IF StartIsDue(u, v)' THEN 1 ELSE 0)
  BY DEF StartsArePaid
<1>1. /\ allowance \in [Transfers -> [Windows -> Int]]
      /\ maxRetries[u][v] \in Int
  BY PersistentType DEF TypeOK
<1>2. RetriesLeft(u, v)' = RetriesLeft(u, v) /\ RetriesLeft(u, v) \in Int
  BY <1>1 DEF RetriesLeft
<1>3. allowance[u][v] >= RetriesLeft(u, v) + (IF StartIsDue(u, v) THEN 1 ELSE 0)
  BY DEF StartsArePaid
<1>4. /\ allowance' = [allowance EXCEPT ![t][w] = @ - 1]
      /\ allowance[u][v] \in Int
  BY <1>1 DEF Charged
<1>5. CASE u = t /\ v = w
  <2>1. allowance'[u][v] = allowance[u][v] - 1
    BY <1>1, <1>4, <1>5
  <2>2. StartIsDue(u, v) /\ ~StartIsDue(u, v)'
    BY <1>5
  <2>3. QED  BY <1>2, <1>3, <1>4, <2>1, <2>2
<1>6. CASE ~(u = t /\ v = w)
  <2>1. allowance'[u][v] = allowance[u][v]
    BY <1>1, <1>4, <1>6
  <2>2. StartIsDue(u, v)' => StartIsDue(u, v)
    OBVIOUS
  <2>3. QED  BY <1>2, <1>3, <1>4, <2>1, <2>2
<1>7. QED  BY <1>5, <1>6

\* A retry is paid by MaxRetries.
LEMMA RetryCharged ==
  ASSUME TypeOK, StartsArePaid, lost' = lost, NEW t \in Transfers, NEW w \in Windows,
         Charged(t, w), maxRetries[t][w] > 0,
         maxRetries' = [maxRetries EXCEPT ![t][w] = @ - 1],
         \A u \in Transfers, v \in Windows : StartIsDue(u, v)' => StartIsDue(u, v)
  PROVE  StartsArePaid'
<1> SUFFICES ASSUME ~lost, NEW u \in Transfers, NEW v \in Windows
             PROVE  allowance'[u][v] >= RetriesLeft(u, v)'
                                        + (IF StartIsDue(u, v)' THEN 1 ELSE 0)
  BY DEF StartsArePaid
<1>1. /\ allowance \in [Transfers -> [Windows -> Int]]
      /\ maxRetries \in [Transfers -> [Windows -> Int]]
  BY PersistentType DEF TypeOK
<1>2. allowance[u][v] >= RetriesLeft(u, v) + (IF StartIsDue(u, v) THEN 1 ELSE 0)
  BY DEF StartsArePaid
<1>3. /\ allowance' = [allowance EXCEPT ![t][w] = @ - 1]
      /\ allowance[u][v] \in Int
      /\ maxRetries[u][v] \in Int
  BY <1>1 DEF Charged
<1>4. StartIsDue(u, v)' => StartIsDue(u, v)
  OBVIOUS
<1>5. CASE u = t /\ v = w
  <2>1. /\ allowance'[u][v] = allowance[u][v] - 1
        /\ maxRetries'[u][v] = maxRetries[u][v] - 1
        /\ maxRetries[u][v] > 0
    BY <1>1, <1>3, <1>5
  <2>2. /\ RetriesLeft(u, v) \in Int
        /\ RetriesLeft(u, v)' = RetriesLeft(u, v) - 1
    BY <1>3, <2>1 DEF RetriesLeft
  <2>3. QED  BY <1>2, <1>3, <1>4, <2>1, <2>2
<1>6. CASE ~(u = t /\ v = w)
  <2>1. /\ allowance'[u][v] = allowance[u][v]
        /\ maxRetries'[u][v] = maxRetries[u][v]
    BY <1>1, <1>3, <1>6
  <2>2. RetriesLeft(u, v) \in Int /\ RetriesLeft(u, v)' = RetriesLeft(u, v)
    BY <1>3, <2>1 DEF RetriesLeft
  <2>3. QED  BY <1>2, <1>3, <1>4, <2>1, <2>2
<1>7. QED  BY <1>5, <1>6

\* The event a handler removes is announced by its kind.
LEMMA HeadNum ==
  ASSUME TypeOK, NEW t \in Transfers, events[t] # <<>>
  PROVE  /\ Head(events[t]) \in Events
         /\ Head(events[t]).kind \in {"added", "failed"} => Num(Head(events[t])) = 0
         /\ Head(events[t]).kind = "started" =>
               /\ Head(events[t]).window \in Windows
               /\ Num(Head(events[t])) = 2 * Head(events[t]).window - 1
         /\ Head(events[t]).kind = "ended" =>
               /\ Head(events[t]).window \in Windows
               /\ Num(Head(events[t])) = 2 * Head(events[t]).window
<1>1. Head(events[t]) \in Events
  BY QueueFacts DEF TypeOK
<1>2. \A e \in Events : /\ e.kind \in {"added", "failed"} => Num(e) = 0
                        /\ e.kind = "started" => e.window \in Windows /\ Num(e) = 2 * e.window - 1
                        /\ e.kind = "ended" => e.window \in Windows /\ Num(e) = 2 * e.window
  BY DEF Events, Num
<1>3. QED  BY <1>1, <1>2

\* _timewindow_started.
LEMMA StartedKeepsWInv ==
  ASSUME IInv, WInv, NEW t \in Transfers, timewindow_started(t)
  PROVE  WInv'
<1> DEFINE i == StartedInfo(t)
<1>0. PICK w \in Windows : Head(events[t]).window = w
  BY StartedFacts
<1>1. /\ events[t] # <<>>
      /\ Exists(t)
      /\ info[t] # NULL
      /\ UNCHANGED <<plugin, windowStatus, static>>
      /\ maxRetries' = maxRetries
      /\ lost' = lost
      /\ i \in transfer_info_t
      /\ i.lastTimeWindow = w
      /\ i.withinTimeWindow
      /\ Handled(t, i)
      /\ allowance' = allowance \/ Charged(t, w)
  BY <1>0, StartedFacts DEF static
<1>2. Num(Head(events[t])) = 2 * w - 1
  BY <1>0, StartedFacts, HeadNum DEF IInv
<1> HIDE DEF i
<1>3. i.lastTimeWindow # 0 /\ Num(Head(events[t])) # 0
  BY <1>1, <1>2 DEF Windows
<1>4. Reached(i) = Num(Head(events[t]))
  BY <1>1, <1>2, <1>3, ReachedFacts
<1>5. /\ WellFormed(Persistent)'
      /\ WellFormed(disk)'
      /\ InfoInSync'
      /\ \A u \in Transfers, v \in Windows : StartIsDue(u, v)' => StartIsDue(u, v)
      /\ StartIsDue(t, w) /\ ~StartIsDue(t, w)'
  BY <1>1, <1>2, <1>3, <1>4, HandlerKeepsSync
<1>6. StartsArePaid'
  <2>1. TypeOK /\ StartsArePaid
    BY DEF IInv, WInv
  <2>2. CASE allowance' = allowance
    BY <1>1, <1>5, <2>1, <2>2, PaidKept
  <2>3. CASE Charged(t, w)
    BY <1>1, <1>5, <2>1, <2>3, StartCharged
  <2>4. QED  BY <1>1, <2>2, <2>3
<1>7. QED  BY <1>5, <1>6 DEF WInv

\* _timewindow_ended: the info is inside the window that ends.
LEMMA EndedKeepsWInv ==
  ASSUME IInv, WInv, NEW t \in Transfers, timewindow_ended(t)
  PROVE  WInv'
<1> DEFINE i == EndedInfo(t)
           w == Head(events[t]).window
<1>1. /\ events[t] # <<>>
      /\ Exists(t)
      /\ info[t] # NULL
      /\ UNCHANGED <<plugin, windowStatus, static>>
      /\ maxRetries' = maxRetries
      /\ lost' = lost
      /\ i \in transfer_info_t
      /\ i.lastTimeWindow = info[t].lastTimeWindow
      /\ ~i.withinTimeWindow
      /\ Handled(t, i)
      /\ allowance' = allowance
  BY EndedFacts DEF static
<1>2. w \in Windows /\ Num(Head(events[t])) = 2 * w
  BY EndedFacts, HeadNum DEF IInv
<1>3. info[t] \in transfer_info_t /\ (info[t].withinTimeWindow => info[t].lastTimeWindow # 0)
  BY <1>1 DEF IInv, TypeOK, WithinHasWindow
<1> HIDE DEF i, w
<1>4. Num(Head(events[t])) # 0
  BY <1>2 DEF Windows
<1>5. ASSUME Num(Head(events[t])) = Reached(info[t]) + 1
      PROVE  Reached(i) = Num(Head(events[t]))
  <2>1. Reached(info[t]) = 2 * w - 1
    BY <1>2, <1>3, <1>5, ReachedFacts DEF Windows
  <2>2. info[t].lastTimeWindow = w
    BY <1>2, <1>3, <2>1, ReachedFacts
  <2>3. QED  BY <1>1, <1>2, <2>2, ReachedFacts
<1>6. /\ WellFormed(Persistent)'
      /\ WellFormed(disk)'
      /\ InfoInSync'
      /\ \A u \in Transfers, v \in Windows : StartIsDue(u, v)' => StartIsDue(u, v)
  BY <1>1, <1>4, <1>5, HandlerKeepsSync
<1>7. StartsArePaid'
  BY <1>1, <1>6, PaidKept DEF IInv, WInv
<1>8. QED  BY <1>6, <1>7 DEF WInv

\* _schedule_download_transfer_failed.
LEMMA FailedKeepsWInv ==
  ASSUME IInv, WInv, NEW t \in Transfers, schedule_download_transfer_failed(t)
  PROVE  WInv'
<1>1. /\ events[t] # <<>>
      /\ Exists(t)
      /\ info[t] # NULL
      /\ info[t] \in transfer_info_t
      /\ UNCHANGED <<plugin, windowStatus, static>>
      /\ lost' = lost
      /\ Handled(t, info[t])
      /\ \/ maxRetries' = maxRetries /\ allowance' = allowance
         \/ \E w \in Windows :
               /\ maxRetries[t][w] > 0
               /\ maxRetries' = [maxRetries EXCEPT ![t][w] = @ - 1]
               /\ Charged(t, w)
  BY FailedFacts DEF static
<1>2. Num(Head(events[t])) = 0
  BY FailedFacts, HeadNum DEF IInv
<1>3. info[t].withinTimeWindow => info[t].lastTimeWindow # 0
  BY <1>1 DEF IInv, WithinHasWindow
<1>4. /\ WellFormed(Persistent)'
      /\ WellFormed(disk)'
      /\ InfoInSync'
      /\ \A u \in Transfers, v \in Windows : StartIsDue(u, v)' => StartIsDue(u, v)
  BY <1>1, <1>2, <1>3, HandlerKeepsSync
<1>5. StartsArePaid'
  <2>1. TypeOK /\ StartsArePaid
    BY DEF IInv, WInv
  <2>2. CASE maxRetries' = maxRetries /\ allowance' = allowance
    BY <1>1, <1>4, <2>1, <2>2, PaidKept
  <2>3. CASE \E w \in Windows :
               /\ maxRetries[t][w] > 0
               /\ maxRetries' = [maxRetries EXCEPT ![t][w] = @ - 1]
               /\ Charged(t, w)
    BY <1>1, <1>4, <2>1, <2>3, RetryCharged
  <2>4. QED  BY <1>1, <2>2, <2>3
<1>6. QED  BY <1>4, <1>5 DEF WInv

\* A "failed" event is no step of the windows.
LEMMA FailedEventQueued ==
  ASSUME TypeOK, WellFormed(Persistent), NEW u \in Transfers, windowStatus' = windowStatus,
         events'[u] \in {events[u], Append(events[u], Event("failed", 0))}
  PROVE  /\ \A w \in Windows : StartIsDue(u, w)' => StartIsDue(u, w)
         /\ \A g \in 0..4 : Sync(events[u], g, Stage(u)) => Sync(events'[u], g, Stage(u)')
         /\ events[u] \in Seq(Events)
         /\ Stage(u) \in 0..4
<1>1. events[u] \in Seq(Events) /\ Stage(u) \in 0..4 /\ Stage(u)' = Stage(u)
  BY StageFacts DEF TypeOK, Stage
<1>2. CASE events'[u] = events[u]
  <2>1. \A w \in Windows : StartIsDue(u, w)' => StartIsDue(u, w)
    BY <1>2 DEF StartIsDue
  <2>2. QED  BY <1>1, <1>2, <2>1
<1>3. CASE events'[u] = Append(events[u], Event("failed", 0))
  <2>1. /\ Len(events'[u]) = Len(events[u]) + 1
        /\ Len(events[u]) \in Nat
        /\ Num(events'[u][Len(events[u]) + 1]) = 0
        /\ \A n \in 1..Len(events[u]) : events'[u][n] = events[u][n]
    BY <1>1, <1>3, AppendFacts, EventFacts, NumFacts
  <2>2. \A n \in 1..Len(events'[u]) : n = Len(events[u]) + 1 \/ n \in 1..Len(events[u])
    BY <2>1
  <2>3. \A n \in 1..Len(events'[u]) : Num(events'[u][n]) # 0 =>
           n \in 1..Len(events[u]) /\ events'[u][n] = events[u][n]
    BY <2>1, <2>2
  <2>4. \A w \in Windows : StartIsDue(u, w)' => StartIsDue(u, w)
    <3> SUFFICES ASSUME NEW w \in Windows, StartIsDue(u, w)', windowStatus[u][w] # "Idle"
                 PROVE  StartIsDue(u, w)
      BY DEF StartIsDue
    <3>1. PICK n \in 1..Len(events'[u]) : Num(events'[u][n]) = 2 * w - 1
      BY DEF StartIsDue
    <3>2. 2 * w - 1 # 0
      BY DEF Windows
    <3>3. QED  BY <2>3, <3>1, <3>2 DEF StartIsDue
  <2>5. QED  BY <1>1, <1>3, <2>4, SyncAppendOther, EventFacts, NumFacts
<1>4. QED  BY <1>2, <1>3

\* addScheduleDownload.
LEMMA AddKeepsWInv ==
  ASSUME IInv, WInv, NEW t \in Transfers, addScheduleDownload(t)
  PROVE  WInv'
<1> DEFINE q == Append(events[t], Event("added", 0))
<1>1. /\ status[t] = "None"
      /\ status' = [status EXCEPT ![t] = "Idle"]
      /\ events' = [events EXCEPT ![t] = q]
      /\ UNCHANGED <<plugin, windowStatus, info, disk, lost>>
  BY Zenon DEF addScheduleDownload
<1> TypeOK
  BY DEF IInv
<1>0. PICK n \in Windows, m \in [Windows -> Modes], r \in [Windows -> Int],
           a \in [Windows -> Int] :
        /\ windows' = [windows EXCEPT ![t] = n]
        /\ maxRetries' = [maxRetries EXCEPT ![t] = r]
        /\ allowance' = IF lost THEN allowance ELSE [allowance EXCEPT ![t] = a]
        /\ \A w \in Windows : a[w] = 1 + IF r[w] > 0 THEN r[w] ELSE 0
  BY AddFacts
<1>2. /\ status \in [Transfers -> Statuses]
      /\ windows \in [Transfers -> {0} \cup Windows]
      /\ events \in [Transfers -> Seq(Events)]
      /\ events[t] = <<>>
  BY <1>1, PersistentType DEF IInv, TypeOK, AddedFirst
<1>3. Len(q) = 1 /\ q[1] = Event("added", 0) /\ q # <<>>
  <2>1. Len(events[t]) = 0
    BY <1>2
  <2> QED  BY <1>2, <2>1, AppendFacts, EventFacts
<1> HIDE DEF q
<1>4. \A k \in 1..Len(q) : Num(q[k]) = 0
  BY <1>3, NumFacts
<1>5. /\ events'[t] = q /\ status'[t] = "Idle"
      /\ \A u \in Transfers : u # t => /\ events'[u] = events[u]
                                       /\ status'[u] = status[u]
                                       /\ windows'[u] = windows[u]
  BY <1>0, <1>1, <1>2
<1>6. \A w \in Windows : windowStatus[t][w] = "Idle"
  BY <1>1 DEF WInv, WellFormed, Persistent
<1>7. WellFormed(Persistent)' /\ WellFormed(disk)'
  <2>1. WellFormed(Persistent)'
    <3> SUFFICES ASSUME NEW u \in Transfers
                 PROVE  /\ \A w \in Windows : windowStatus'[u][w] # "Idle" =>
                              status'[u] # "None" /\ w <= windows'[u]
                        /\ windowStatus'[u][2] # "Idle" => windowStatus'[u][1] = "Ended"
      BY DEF WellFormed, Persistent
    <3>1. CASE u = t
      BY <1>1, <1>6, <3>1 DEF Windows
    <3>2. CASE u # t
      BY <1>1, <1>5, <3>2 DEF WInv, WellFormed, Persistent
    <3>3. QED  BY <3>1, <3>2
  <2>2. QED  BY <1>1, <2>1 DEF WInv, WellFormed
<1>8. InfoInSync'
  <2> SUFFICES ASSUME NEW u \in Transfers PROVE InSync(u)'
    BY DEF InfoInSync
  <2>1. InSync(u)
    BY DEF WInv, InfoInSync
  <2>2. CASE u = t
    <3>1. info'[t] = NULL
      BY <1>1, <2>1, <2>2 DEF InSync, Exists
    <3>2. events'[t] # <<>>
      BY <1>3, <1>5
    <3>3. QED  BY <1>4, <1>5, <2>2, <3>1, <3>2 DEF InSync
  <2>3. CASE u # t
    <3>1. Exists(u)' <=> Exists(u)
      BY <1>5, <2>3 DEF Exists
    <3>2. QED  BY <1>1, <1>5, <2>1, <2>3, <3>1, SyncKept
  <2>4. QED  BY <2>2, <2>3
<1>9. StartsArePaid'
  <2> SUFFICES ASSUME ~lost, NEW u \in Transfers, NEW w \in Windows
               PROVE  allowance'[u][w] >= RetriesLeft(u, w)'
                                          + (IF StartIsDue(u, w)' THEN 1 ELSE 0)
    BY <1>1 DEF StartsArePaid
  <2>1. /\ maxRetries \in [Transfers -> [Windows -> Int]]
        /\ allowance \in [Transfers -> [Windows -> Int]]
    BY PersistentType DEF IInv, TypeOK
  <2>2. CASE u = t
    <3>1. maxRetries'[u][w] = r[w] /\ allowance'[u][w] = a[w] /\ r[w] \in Int
      BY <1>0, <2>1, <2>2
    <3>2. QED  BY <1>0, <3>1 DEF RetriesLeft
  <2>3. CASE u # t
    <3>1. /\ maxRetries'[u] = maxRetries[u]
          /\ allowance'[u] = allowance[u]
          /\ RetriesLeft(u, w)' = RetriesLeft(u, w)
      BY <1>0, <2>1, <2>3 DEF RetriesLeft
    <3>2. StartIsDue(u, w)' => StartIsDue(u, w)
      BY <1>1, <1>5, <2>3 DEF StartIsDue
    <3>3. allowance[u][w] >= RetriesLeft(u, w) + (IF StartIsDue(u, w) THEN 1 ELSE 0)
      BY DEF WInv, StartsArePaid
    <3>4. allowance[u][w] \in Int /\ RetriesLeft(u, w) \in Int
      BY <2>1 DEF RetriesLeft
    <3>5. QED  BY <3>1, <3>2, <3>3, <3>4
  <2>4. QED  BY <2>2, <2>3
<1>10. QED  BY <1>7, <1>8, <1>9 DEF WInv

\* _scheduleDownload_added.
LEMMA AddedKeepsWInv ==
  ASSUME IInv, WInv, NEW t \in Transfers, scheduleDownload_added(t)
  PROVE  WInv'
<1> DEFINE q == Tail(events[t])
           i == IF Exists(t) /\ info[t] = NULL
                THEN transfers_transfer_add_info(t) ELSE info[t]
<1>1. /\ events[t] # <<>>
      /\ Head(events[t]).kind = "added"
      /\ events' = [events EXCEPT ![t] = q]
      /\ info' = [info EXCEPT ![t] = i]
      /\ UNCHANGED <<plugin, status, windowStatus, maxRetries, allowance, static>>
  BY Zenon DEF scheduleDownload_added, NextEvent
<1>2. /\ events \in [Transfers -> Seq(Events)]
      /\ events[t] \in Seq(Events)
      /\ info \in [Transfers -> transfer_info_t \cup {NULL}]
      /\ windows' = windows /\ disk' = disk /\ lost' = lost
  BY <1>1 DEF IInv, TypeOK, static
<1>3. /\ q \in Seq(Events)
      /\ Len(q) = Len(events[t]) - 1
      /\ Len(events[t]) \in Nat /\ Len(events[t]) > 0
      /\ \A n \in 1..Len(q) : q[n] = events[t][n + 1]
      /\ Head(events[t]) = events[t][1]
  BY <1>1, <1>2, QueueFacts
<1>4. Num(Head(events[t])) = 0
  BY <1>1, HeadNum DEF IInv
<1>5. Exists(t)
  <2>1. status[t] = "Idle"
    BY <1>1, <1>3 DEF IInv, AddedFirst
  <2>2. QED  BY <2>1 DEF Exists
<1>6. \A n \in 1..Len(q) : n + 1 \in 1..Len(events[t]) /\ q[n] = events[t][n + 1]
  <2> HIDE DEF q
  <2>1. QED  BY <1>3
<1>7. /\ events'[t] = q /\ info'[t] = i
      /\ \A u \in Transfers : u # t => events'[u] = events[u] /\ info'[u] = info[u]
  BY <1>1, <1>2
<1>8. InSync(t)
  BY DEF WInv, InfoInSync
<1>9. Stage(t) \in 0..4 /\ Stage(t)' = Stage(t)
  BY <1>1, StageFacts DEF IInv, WInv, Stage
<1>10. i # NULL /\ Sync(q, Reached(i), Stage(t))
  <2>1. CASE info[t] = NULL
    <3>1. i = transfers_transfer_add_info(t)
      BY <1>5, <2>1
    <3>2. Reached(i) = Stage(t) /\ i # NULL
      BY <3>1, StageFacts, AddInfoFacts, NullIsNoInfo DEF IInv, WInv
    <3>3. \A n \in 1..Len(q) : Num(q[n]) = 0
      BY <1>5, <1>6, <1>8, <2>1 DEF InSync
    <3> HIDE DEF q, i
    <3>4. QED  BY <1>3, <1>9, <3>2, <3>3, SyncEmpty
  <2>2. CASE info[t] # NULL
    <3>1. i = info[t] /\ i \in transfer_info_t
      BY <1>2, <2>2
    <3>2. Sync(events[t], Reached(i), Stage(t))
      BY <1>8, <2>2, <3>1 DEF InSync
    <3>3. i.withinTimeWindow => i.lastTimeWindow # 0
      BY <2>2, <3>1 DEF IInv, WithinHasWindow
    <3> HIDE DEF i
    <3>4. Reached(i) \in 0..4
      BY <3>1, <3>3, ReachedFacts
    <3>5. QED  BY <1>1, <1>2, <1>4, <1>9, <2>2, <3>1, <3>2, <3>4, SyncTail
  <2>3. QED  BY <2>1, <2>2
<1> HIDE DEF q, i
<1>11. InfoInSync'
  <2> SUFFICES ASSUME NEW u \in Transfers PROVE InSync(u)'
    BY DEF InfoInSync
  <2>1. CASE u = t
    <3>1. Exists(t)' /\ info'[t] # NULL
      BY <1>1, <1>5, <1>7, <1>10 DEF Exists
    <3>2. Sync(events[t], Reached(info[t]), Stage(t))'
      BY <1>7, <1>9, <1>10
    <3>3. QED  BY <2>1, <3>1, <3>2 DEF InSync
  <2>2. CASE u # t
    <3>1. Exists(u)' <=> Exists(u)
      BY <1>1 DEF Exists
    <3>2. InSync(u)
      BY DEF WInv, InfoInSync
    <3>3. QED  BY <1>1, <1>7, <2>2, <3>1, <3>2, SyncKept
  <2>3. QED  BY <2>1, <2>2
<1>12. WellFormed(Persistent)' /\ WellFormed(disk)'
  BY <1>1, <1>2 DEF WInv, WellFormed, Persistent
<1>13. StartsArePaid'
  <2>1. \A u \in Transfers, w \in Windows : StartIsDue(u, w)' => StartIsDue(u, w)
    BY <1>1, <1>6, <1>7 DEF StartIsDue
  <2>2. QED  BY <1>1, <1>2, <2>1, PaidKept DEF IInv, WInv
<1>14. QED  BY <1>11, <1>12, <1>13 DEF WInv

\* The timers of a window: the next step is taken and announced.
LEMMA TimerKeepsWInv ==
  ASSUME IInv, WInv, NEW t \in Transfers, NEW w \in Windows,
         timewindow_start_timer_cb(t, w) \/ timewindow_end_timer_cb(t, w)
  PROVE  WInv'
<1>1. PICK from \in {"Idle", "Started"}, to \in {"Started", "Ended"},
           kind \in {"started", "ended"} :
        /\ window_timer_cb(t, w, from, to, kind)
        /\ \/ from = "Idle" /\ to = "Started" /\ kind = "started"
           \/ from = "Started" /\ to = "Ended" /\ kind = "ended"
  BY DEF timewindow_start_timer_cb, timewindow_end_timer_cb
<1> DEFINE e == Event(kind, w)
           q == Append(events[t], e)
<1>2. /\ Exists(t)
      /\ info[t] # NULL
      /\ w <= windows[t]
      /\ windowStatus[t][w] = from
      /\ w = 2 => windowStatus[t][1] = "Ended"
      /\ windowStatus' = [windowStatus EXCEPT ![t][w] = to]
      /\ events' = [events EXCEPT ![t] = q]
      /\ UNCHANGED <<plugin, status, maxRetries, info, allowance, static>>
  BY <1>1, Zenon DEF window_timer_cb
<1>3. /\ events \in [Transfers -> Seq(Events)]
      /\ events[t] \in Seq(Events)
      /\ windowStatus \in [Transfers -> [Windows -> {"Idle", "Started", "Ended"}]]
      /\ info[t] \in transfer_info_t
      /\ info[t].withinTimeWindow => info[t].lastTimeWindow # 0
      /\ windows' = windows /\ disk' = disk /\ lost' = lost
  BY <1>2, PersistentType DEF IInv, TypeOK, WithinHasWindow, static
<1>4. /\ e \in Events
      /\ kind = "started" => Num(e) = 2 * w - 1
      /\ kind = "ended" => Num(e) = 2 * w
  BY EventFacts, NumFacts
<1>5. /\ Len(q) = Len(events[t]) + 1
      /\ Len(events[t]) \in Nat
      /\ q[Len(events[t]) + 1] = e
      /\ \A n \in 1..Len(events[t]) : q[n] = events[t][n]
  BY <1>3, <1>4, AppendFacts
<1>6. /\ events'[t] = q
      /\ windowStatus'[t][w] = to
      /\ \A v \in Windows : v # w => windowStatus'[t][v] = windowStatus[t][v]
      /\ \A u \in Transfers : u # t =>
            events'[u] = events[u] /\ windowStatus'[u] = windowStatus[u]
  BY <1>2, <1>3
<1>7. windowStatus[t][2] # "Idle" => windowStatus[t][1] = "Ended"
  BY DEF WInv, WellFormed, Persistent
<1>8. Num(e) = Stage(t) + 1 /\ Stage(t)' = Stage(t) + 1
  <2> HIDE DEF e
  <2>1. w \in {1, 2} /\ windowStatus[t][1] \in {"Idle", "Started", "Ended"}
        /\ windowStatus[t][2] \in {"Idle", "Started", "Ended"}
    BY <1>3 DEF Windows
  <2>2. CASE w = 1
    <3>1. windowStatus[t][2] = "Idle" /\ windowStatus'[t][2] = windowStatus[t][2]
      BY <1>1, <1>2, <1>6, <1>7, <2>1, <2>2 DEF Windows
    <3>2. QED  BY <1>1, <1>2, <1>4, <1>6, <2>2, <3>1 DEF Stage
  <2>3. CASE w = 2
    <3>1. windowStatus[t][1] = "Ended" /\ windowStatus'[t][1] = windowStatus[t][1]
      BY <1>2, <1>6, <2>3 DEF Windows
    <3>2. QED  BY <1>1, <1>2, <1>4, <1>6, <2>3, <3>1 DEF Stage
  <2>4. QED  BY <2>1, <2>2, <2>3
<1>9. Sync(events[t], Reached(info[t]), Stage(t)) /\ Reached(info[t]) \in 0..4
  BY <1>2, <1>3, ReachedFacts DEF WInv, InfoInSync, InSync
<1>10. Stage(t) \in 0..3
  <2>1. Stage(t) \in 0..4 /\ Num(e) \in 0..4
    BY <1>4, StageFacts, NumFacts DEF IInv, WInv
  <2> HIDE DEF e
  <2>2. QED  BY <1>8, <2>1
<1>11. Sync(q, Reached(info[t]), Stage(t) + 1)
  <2> HIDE DEF e
  <2>1. QED  BY <1>3, <1>4, <1>8, <1>9, <1>10, SyncAppendWindow
<1> HIDE DEF q, e
<1>12. InfoInSync'
  <2> SUFFICES ASSUME NEW u \in Transfers PROVE InSync(u)'
    BY DEF InfoInSync
  <2>1. Exists(u)' <=> Exists(u)
    BY <1>2 DEF Exists
  <2>2. CASE u = t
    <3>1. Sync(events[t], Reached(info[t]), Stage(t))'
      BY <1>2, <1>6, <1>8, <1>11
    <3>2. Exists(t)' /\ info'[t] # NULL
      BY <1>2, <2>1, <2>2
    <3>3. QED  BY <2>2, <3>1, <3>2 DEF InSync
  <2>3. CASE u # t
    <3>1. InSync(u)
      BY DEF WInv, InfoInSync
    <3>2. QED  BY <1>2, <1>6, <2>1, <2>3, <3>1, SyncKept
  <2>4. QED  BY <2>2, <2>3
<1>13. WellFormed(Persistent)' /\ WellFormed(disk)'
  <2>1. WellFormed(Persistent)'
    <3> SUFFICES ASSUME NEW u \in Transfers
                 PROVE  /\ \A v \in Windows : windowStatus'[u][v] # "Idle" =>
                              status'[u] # "None" /\ v <= windows'[u]
                        /\ windowStatus'[u][2] # "Idle" => windowStatus'[u][1] = "Ended"
      BY DEF WellFormed, Persistent
    <3>1. CASE u = t
      <4>1. status'[t] # "None" /\ windows'[t] = windows[t]
        BY <1>2, <1>3 DEF Exists
      <4>2. \A v \in Windows : windowStatus'[t][v] # "Idle" => v <= windows'[t]
        <5> SUFFICES ASSUME NEW v \in Windows, windowStatus'[t][v] # "Idle"
                     PROVE  v <= windows[t]
          BY <4>1
        <5>1. CASE v = w
          BY <1>2, <5>1
        <5>2. CASE v # w
          BY <1>6, <5>2 DEF WInv, WellFormed, Persistent
        <5>3. QED  BY <5>1, <5>2
      <4>3. windowStatus'[t][2] # "Idle" => windowStatus'[t][1] = "Ended"
        <5>1. CASE w = 1
          BY <1>1, <1>2, <1>6, <1>7, <5>1 DEF Windows
        <5>2. CASE w = 2
          BY <1>2, <1>6, <5>2 DEF Windows
        <5>3. QED  BY <5>1, <5>2 DEF Windows
      <4>4. QED  BY <3>1, <4>1, <4>2, <4>3
    <3>2. CASE u # t
      BY <1>2, <1>3, <1>6, <3>2 DEF WInv, WellFormed, Persistent
    <3>3. QED  BY <3>1, <3>2
  <2>2. QED  BY <1>3, <2>1 DEF WInv, WellFormed
<1>14. StartsArePaid'
  <2>1. ASSUME NEW u \in Transfers, NEW v \in Windows, StartIsDue(u, v)'
        PROVE  StartIsDue(u, v)
    <3>1. CASE u # t
      BY <1>6, <2>1, <3>1 DEF StartIsDue
    <3>2. CASE u = t /\ windowStatus[t][v] = "Idle"
      BY <3>2 DEF StartIsDue
    <3>3. CASE u = t /\ windowStatus[t][v] # "Idle"
      <4>1. windowStatus'[t][v] # "Idle"
        BY <1>1, <1>6, <3>3
      <4>2. PICK n \in 1..Len(q) : Num(q[n]) = 2 * v - 1
        BY <1>6, <2>1, <3>3, <4>1 DEF StartIsDue
      <4>3. n # Len(events[t]) + 1
        <5> SUFFICES ASSUME n = Len(events[t]) + 1 PROVE FALSE
          OBVIOUS
        <5>1. Num(e) = 2 * v - 1
          BY <1>5, <4>2
        <5>2. kind = "started" /\ v = w
          BY <1>4, <5>1 DEF Windows
        <5>3. QED  BY <1>1, <1>2, <3>3, <5>2
      <4>4. n \in 1..Len(events[t]) /\ Num(events[t][n]) = 2 * v - 1
        BY <1>5, <4>2, <4>3
      <4>5. QED  BY <3>3, <4>4 DEF StartIsDue
    <3>4. QED  BY <3>1, <3>2, <3>3
  <2>2. QED  BY <1>2, <1>3, <2>1, PaidKept DEF IInv, WInv
<1>15. QED  BY <1>12, <1>13, <1>14 DEF WInv

\* _scheduleDownload_del_inst.
LEMMA DelKeepsWInv ==
  ASSUME IInv, WInv, NEW t \in Transfers, scheduleDownload_del_inst(t)
  PROVE  WInv'
<1>1. /\ status' = [status EXCEPT ![t] = "Deleted"]
      /\ info' = [info EXCEPT ![t] = NULL]
      /\ UNCHANGED <<plugin, windowStatus, maxRetries, events, allowance, static>>
  BY DEF scheduleDownload_del_inst
<1>2. /\ status'[t] = "Deleted" /\ info'[t] = NULL
      /\ \A u \in Transfers : u # t => status'[u] = status[u] /\ info'[u] = info[u]
      /\ windows' = windows /\ disk' = disk /\ lost' = lost
  BY <1>1, PersistentType DEF IInv, TypeOK, static
<1>3. WellFormed(Persistent)' /\ WellFormed(disk)'
  <2>1. \A u \in Transfers : status[u] # "None" => status'[u] # "None"
    BY <1>2
  <2>2. WellFormed(Persistent)'
    BY <1>1, <1>2, <2>1, FormKept DEF WInv
  <2>3. QED  BY <1>2, <2>2 DEF WInv, WellFormed
<1>4. InfoInSync'
  <2> SUFFICES ASSUME NEW u \in Transfers PROVE InSync(u)'
    BY DEF InfoInSync
  <2>1. CASE u = t
    BY <1>2, <2>1 DEF InSync, Exists
  <2>2. CASE u # t
    <3>1. Exists(u)' <=> Exists(u)
      BY <1>2, <2>2 DEF Exists
    <3>2. InSync(u)
      BY DEF WInv, InfoInSync
    <3>3. QED  BY <1>1, <1>2, <2>2, <3>1, <3>2, SyncKept
  <2>3. QED  BY <2>1, <2>2
<1>5. StartsArePaid'
  <2>1. \A u \in Transfers, w \in Windows : StartIsDue(u, w)' => StartIsDue(u, w)
    BY <1>1 DEF StartIsDue
  <2>2. QED  BY <1>1, <1>2, <2>1, PaidKept DEF IInv, WInv
<1>6. QED  BY <1>3, <1>4, <1>5 DEF WInv

\* A step of the firmware manager or of the deferred init: the windows stay,
\* transfers end, a "failed" event may be queued, and an info that was
\* missing is rebuilt.
LEMMA EndingKeepsWInv ==
  ASSUME IInv, WInv,
         UNCHANGED <<windowStatus, maxRetries, allowance, static>>,
         \A u \in Transfers :
            /\ events'[u] \in {events[u], Append(events[u], Event("failed", 0))}
            /\ status'[u] = status[u]
                  \/ (Exists(u) /\ status'[u] \in {"Done", "Failed"})
            /\ info[u] # NULL => info'[u] = info[u]
            /\ info[u] = NULL =>
                  \/ info'[u] = NULL /\ events'[u] = events[u]
                     /\ (plugin' = "up" => plugin = "up" \/ ~Exists(u))
                  \/ Exists(u) /\ info'[u] = transfers_transfer_add_info(u)
  PROVE  WInv'
<1>1. windows' = windows /\ disk' = disk /\ lost' = lost
  BY DEF static
<1>2. \A u \in Transfers : /\ Exists(u)' <=> Exists(u)
                           /\ status[u] # "None" => status'[u] # "None"
  BY DEF Exists
<1>3. WellFormed(Persistent)' /\ WellFormed(disk)'
  <2>1. WellFormed(Persistent)'
    BY <1>1, <1>2, FormKept DEF WInv
  <2>2. QED  BY <1>1, <2>1 DEF WInv, WellFormed
<1>4. ASSUME NEW u \in Transfers
      PROVE  /\ \A w \in Windows : StartIsDue(u, w)' => StartIsDue(u, w)
             /\ \A g \in 0..4 : Sync(events[u], g, Stage(u)) => Sync(events'[u], g, Stage(u)')
             /\ events[u] \in Seq(Events)
             /\ Stage(u) \in 0..4
  BY FailedEventQueued DEF IInv, WInv
<1>5. InfoInSync'
  <2> SUFFICES ASSUME NEW u \in Transfers PROVE InSync(u)'
    BY DEF InfoInSync
  <2>1. InSync(u)
    BY DEF WInv, InfoInSync
  <2>2. CASE info[u] # NULL
    <3>1. info'[u] = info[u]
      BY <2>2
    <3>2. Exists(u)' /\ Sync(events[u], Reached(info[u]), Stage(u))
      BY <1>2, <2>1, <2>2 DEF InSync
    <3>3. Reached(info[u]) \in 0..4
      BY <2>2, ReachedFacts DEF IInv, TypeOK, WithinHasWindow
    <3>4. Sync(events'[u], Reached(info[u]), Stage(u)')
      BY <1>4, <3>2, <3>3
    <3>5. Sync(events[u], Reached(info[u]), Stage(u))'
      BY <3>1, <3>4
    <3>6. QED  BY <2>2, <3>1, <3>2, <3>5 DEF InSync
  <2>3. CASE info[u] = NULL /\ info'[u] = NULL /\ events'[u] = events[u]
             /\ (plugin' = "up" => plugin = "up" \/ ~Exists(u))
    BY <1>2, <2>1, <2>3 DEF InSync
  <2>4. CASE info[u] = NULL /\ Exists(u) /\ info'[u] = transfers_transfer_add_info(u)
    <3>1. Sync(events[u], Stage(u), Stage(u))
      BY <1>4, <2>1, <2>4, SyncEmpty DEF InSync
    <3>2. Sync(events'[u], Stage(u), Stage(u)')
      BY <1>4, <3>1
    <3>3. Reached(info'[u]) = Stage(u) /\ info'[u] # NULL
      BY <2>4, StageFacts, AddInfoFacts, NullIsNoInfo DEF IInv, WInv
    <3>4. Sync(events[u], Reached(info[u]), Stage(u))'
      BY <3>2, <3>3
    <3>5. QED  BY <1>2, <2>4, <3>3, <3>4 DEF InSync
  <2>5. QED  BY <2>2, <2>3, <2>4
<1>6. StartsArePaid'
  BY <1>1, <1>4, PaidKept DEF IInv, WInv
<1>7. QED  BY <1>3, <1>5, <1>6 DEF WInv

\* firmwareimage_notification.
LEMMA FirmwareFailedKeepsWInv ==
  ASSUME IInv, WInv, NEW fc, firmwareimage_notification(fc)
  PROVE  WInv'
<1> DEFINE t == transfer_in_progress
<1>1. UNCHANGED <<plugin, windowStatus, maxRetries, info, allowance, static>>
  BY DEF firmwareimage_notification
<1>2. /\ status \in [Transfers -> Statuses]
      /\ events \in [Transfers -> Seq(Events)]
      /\ transfer_in_progress \in Transfers \cup {NULL}
  BY PersistentType DEF IInv, TypeOK
<1>3. ASSUME NEW u \in Transfers
      PROVE  /\ events'[u] \in {events[u], Append(events[u], Event("failed", 0))}
             /\ \/ status'[u] = status[u]
                \/ Exists(u) /\ status'[u] \in {"Done", "Failed"}
             /\ info'[u] = info[u]
             /\ info[u] = NULL => events'[u] = events[u]
  <2>1. CASE t # NULL /\ upgrade_done_applies(t, info[t])
    <3>1. /\ status' = [status EXCEPT ![t] = "Failed"]
          /\ \/ events' = events
             \/ events' = [events EXCEPT ![t] = Append(events[t], Event("failed", 0))]
      BY <2>1, Zenon DEF firmwareimage_notification
    <3>2. t \in Transfers /\ info[t] # NULL
      BY <1>2, <2>1 DEF upgrade_done_applies
    <3>3. Exists(t)
      BY <3>2 DEF WInv, InfoInSync, InSync
    <3> HIDE DEF t
    <3>4. QED  BY <1>1, <1>2, <3>1, <3>2, <3>3
  <2>2. CASE ~(t # NULL /\ upgrade_done_applies(t, info[t]))
    <3>1. UNCHANGED <<status, events>>
      BY <2>2, Zenon DEF firmwareimage_notification
    <3>2. QED  BY <1>1, <3>1
  <2>3. QED  BY <2>1, <2>2
<1>4. QED  BY <1>1, <1>3, EndingKeepsWInv

\* deferred_init_timer_cb.
LEMMA DeferredInitKeepsWInv ==
  ASSUME IInv, WInv, deferred_init_timer_cb
  PROVE  WInv'
<1> DEFINE i == [t \in Transfers |->
                   IF ~Exists(t) THEN NULL
                   ELSE IF info[t] # NULL THEN info[t]
                   ELSE transfers_transfer_add_info(t)]
           pending == {t \in Transfers : /\ status[t] = "In Progress"
                                         /\ upgrade_done_applies(t, i[t])}
<1>1. /\ info' = i
      /\ UNCHANGED <<windowStatus, maxRetries, allowance, static>>
  BY Zenon DEF deferred_init_timer_cb
<1>2. PICK fc \in [pending -> {0, FAULT_CODE_INTERNAL_ERROR}] :
        /\ status' = [t \in Transfers |->
                        IF t \notin pending THEN status[t]
                        ELSE IF fc[t] = 0 THEN "Done" ELSE "Failed"]
        /\ events' = [t \in Transfers |->
                        IF t \in pending /\ fc[t] # 0
                        THEN Append(events[t], Event("failed", 0))
                        ELSE events[t]]
  BY Zenon DEF deferred_init_timer_cb
<1>3. \A t \in pending : status[t] = "In Progress"
  OBVIOUS
<1>4. \A u \in Transfers :
        info'[u] = IF ~Exists(u) THEN NULL
                   ELSE IF info[u] # NULL THEN info[u]
                   ELSE transfers_transfer_add_info(u)
  BY <1>1
<1> HIDE DEF i, pending
<1>5. ASSUME NEW u \in Transfers
      PROVE  /\ events'[u] \in {events[u], Append(events[u], Event("failed", 0))}
             /\ \/ status'[u] = status[u]
                \/ Exists(u) /\ status'[u] \in {"Done", "Failed"}
             /\ ~Exists(u) => events'[u] = events[u]
  <2>1. CASE u \in pending
    <3>1. Exists(u)
      BY <1>3, <2>1 DEF Exists
    <3>2. QED  BY <1>2, <2>1, <3>1
  <2>2. CASE u \notin pending
    BY <1>2, <2>2
  <2>3. QED  BY <2>1, <2>2
<1>6. ASSUME NEW u \in Transfers, info[u] # NULL PROVE info'[u] = info[u]
  <2>1. Exists(u)
    BY <1>6 DEF WInv, InfoInSync, InSync
  <2>2. QED  BY <1>4, <1>6, <2>1
<1>7. ASSUME NEW u \in Transfers, info[u] = NULL
      PROVE  \/ /\ info'[u] = NULL /\ events'[u] = events[u]
                /\ plugin' = "up" => plugin = "up" \/ ~Exists(u)
             \/ Exists(u) /\ info'[u] = transfers_transfer_add_info(u)
  BY <1>4, <1>5, <1>7
<1>8. QED  BY <1>1, <1>5, <1>6, <1>7, EndingKeepsWInv

\* The end of the process: what it did not lose is what was paid.
LEMMA StoppedKeepsWInv ==
  ASSUME IInv, WInv, NEW mem, WellFormed(mem), Stopped(mem)
  PROVE  WInv'
<1>1. WellFormed(Persistent)' /\ WellFormed(disk)'
  BY DEF Stopped, Persistent, WellFormed
<1>2. InfoInSync'
  <2>1. \A t \in Transfers : info'[t] = NULL /\ events'[t] = <<>> /\ plugin' # "up"
    BY DEF Stopped
  <2>2. QED  BY <2>1 DEF InfoInSync, InSync
<1>3. StartsArePaid'
  <2>1. CASE lost'
    BY <2>1 DEF StartsArePaid
  <2>2. CASE ~lost'
    <3>1. /\ ~lost
          /\ mem = Persistent
          /\ allowance' = allowance
      BY <2>2 DEF Stopped
    <3>2. maxRetries' = maxRetries /\ windowStatus' = windowStatus
      BY <3>1 DEF Stopped, Persistent
    <3>3. \A u \in Transfers, w \in Windows : StartIsDue(u, w)' => StartIsDue(u, w)
      <4>1. \A u \in Transfers : events'[u] = <<>>
        BY DEF Stopped
      <4>2. QED  BY <3>2, <4>1 DEF StartIsDue
    <3>4. QED  BY <3>1, <3>2, <3>3, PaidKept DEF IInv, WInv
  <2>3. QED  BY <2>1, <2>2
<1>4. QED  BY <1>1, <1>2, <1>3 DEF WInv

\* The actions that stop the plugin.
LEMMA StopsKeepWInv ==
  ASSUME IInv, WInv, FirmwareApplied \/ AppStopped \/ Crash
                     \/ \E t \in Transfers : EventOfDeletedTransfer(t)
  PROVE  WInv'
<1>1. Stopped(Persistent) \/ Stopped(disk)
  BY DEF FirmwareApplied, AppStopped, Crash, EventOfDeletedTransfer
<1>2. WellFormed(Persistent) /\ WellFormed(disk)
  BY DEF WInv
<1>3. QED
  BY <1>1, <1>2, StoppedKeepsWInv

LEMMA InitWInv == Init => WInv
<1> SUFFICES ASSUME Init PROVE WInv
  OBVIOUS
<1>1. WellFormed(Persistent)
  BY DEF Init, WellFormed, Persistent, Windows
<1>2. WellFormed(disk)
  BY <1>1 DEF Init
<1>3. InfoInSync
  BY EmptySeq DEF Init, InfoInSync, InSync, Exists
<1>4. StartsArePaid
  <2> SUFFICES ASSUME NEW t \in Transfers, NEW w \in Windows
               PROVE  allowance[t][w] >= RetriesLeft(t, w)
                                         + (IF StartIsDue(t, w) THEN 1 ELSE 0)
    BY DEF StartsArePaid
  <2>1. allowance[t][w] = 1 /\ RetriesLeft(t, w) = 0
    BY DEF Init, RetriesLeft
  <2>2. QED  BY <2>1
<1>5. QED  BY <1>1, <1>2, <1>3, <1>4 DEF WInv

\* A step that changes neither transfers nor their queues.
LEMMA IdleKeepsWInv ==
  ASSUME IInv, WInv,
         UNCHANGED <<status, windows, windowStatus, maxRetries, info, events,
                     allowance, lost>>,
         disk' = disk \/ disk' = Persistent,
         plugin' = "up" => plugin = "up"
  PROVE  WInv'
<1>1. WellFormed(Persistent)'
  BY FormKept DEF WInv
<1>2. WellFormed(disk)'
  <2>1. CASE disk' = disk
    BY <2>1 DEF WInv, WellFormed
  <2>2. CASE disk' = Persistent
    BY <2>2 DEF WInv, WellFormed
  <2>3. QED  BY <2>1, <2>2
<1>3. InfoInSync'
  <2> SUFFICES ASSUME NEW u \in Transfers PROVE InSync(u)'
    BY DEF InfoInSync
  <2>1. InSync(u) /\ (Exists(u)' <=> Exists(u))
    BY DEF WInv, InfoInSync, Exists
  <2>2. QED  BY <2>1, SyncKept
<1>4. StartsArePaid'
  <2>1. \A u \in Transfers, w \in Windows : StartIsDue(u, w)' => StartIsDue(u, w)
    BY DEF StartIsDue
  <2>2. QED  BY <2>1, PaidKept DEF IInv, WInv
<1>5. QED  BY <1>1, <1>2, <1>3, <1>4 DEF WInv

\* Every step preserves the invariant of the windows.
LEMMA NextWInv == IInv /\ WInv /\ [Next]_vars => WInv'
<1> SUFFICES ASSUME IInv, WInv, [Next]_vars PROVE WInv'
  OBVIOUS
<1>1. ASSUME NEW t \in Transfers, addScheduleDownload(t) PROVE WInv'
  BY <1>1, AddKeepsWInv
<1>2. ASSUME NEW t \in Transfers, scheduleDownload_del_inst(t) PROVE WInv'
  BY <1>2, DelKeepsWInv
<1>3. ASSUME NEW t \in Transfers, WindowTimer(t) PROVE WInv'
  BY <1>3, TimerKeepsWInv DEF WindowTimer
<1>4. ASSUME NEW t \in Transfers, HandleEvent(t) PROVE WInv'
  BY <1>4, AddedKeepsWInv, StartedKeepsWInv, EndedKeepsWInv, FailedKeepsWInv,
     StopsKeepWInv DEF HandleEvent
<1>5. ASSUME NEW fc, NEW t \in Transfers, FirmwareFailed(t, fc) \/ StrayFailed(t, fc)
      PROVE  WInv'
  BY <1>5, FirmwareFailedKeepsWInv DEF FirmwareFailed, StrayFailed
<1>6. CASE FirmwareApplied \/ AppStopped \/ Crash
  BY <1>6, StopsKeepWInv
<1>7. CASE Save
  BY <1>7, IdleKeepsWInv DEF Save
<1>8. CASE Boot
  BY <1>8, IdleKeepsWInv DEF Boot, static
<1>9. CASE deferred_init_timer_cb
  BY <1>9, DeferredInitKeepsWInv
<1>10. CASE UNCHANGED vars
  BY <1>10, IdleKeepsWInv DEF vars
<1> QED  BY <1>1, <1>2, <1>3, <1>4, <1>5, <1>6, <1>7, <1>8, <1>9, <1>10 DEF Next

-----------------------------------------------------------------------------
\* Every step keeps the downloads that are followed with the pointer.
LEMMA NextTracked == TypeOK /\ DownloadIsTracked /\ [Next]_vars => DownloadIsTracked'
<1> SUFFICES ASSUME TypeOK, DownloadIsTracked, [Next]_vars PROVE DownloadIsTracked'
  OBVIOUS
<1> USE DEF DownloadIsTracked
<1>1. downloads \subseteq Transfers /\ NULL \notin Transfers
  BY TransfersAssumption DEF TypeOK
<1>2. ASSUME NEW t \in Transfers, NEW w, NEW evs, transfers_start_transfer(t, w, evs)
      PROVE  DownloadIsTracked'
  <2>1. \/ do_firmwareupgrade(t)
        \/ UNCHANGED <<transfer_in_progress, downloads>>
    BY <1>2, Zenon DEF transfers_start_transfer
  <2>2. QED  BY <1>1, <2>1 DEF do_firmwareupgrade
<1>3. ASSUME NEW t, NEW fc, NEW evs, transfers_transfer_done(t, fc, evs)
      PROVE  DownloadIsTracked'
  BY <1>3 DEF transfers_transfer_done, GivenUp
<1>4. ASSUME NEW t, NEW evs, Ignore(t, evs) PROVE DownloadIsTracked'
  BY <1>4 DEF Ignore
<1>5. ASSUME NEW t \in Transfers, NEW i, NEW evs, transfers_handle_transfer(t, i, evs)
      PROVE  DownloadIsTracked'
  <2>1. \/ transfers_start_transfer(t, i.lastTimeWindow, evs)
        \/ transfers_transfer_done(t, FAULT_CODE_INTERNAL_ERROR, evs)
        \/ Ignore(t, evs)
    BY <1>5, Zenon DEF transfers_handle_transfer
  <2>2. QED  BY <1>2, <1>3, <1>4, <2>1
<1>6. ASSUME NEW t \in Transfers, schedule_download_transfer_failed(t)
      PROVE  DownloadIsTracked'
  <2>1. \/ transfers_start_transfer(t, info[t].lastTimeWindow, Tail(events[t]))
        \/ transfers_transfer_done(t, faultCode[t], Tail(events[t]))
        \/ Ignore(t, Tail(events[t]))
    BY <1>6, Zenon DEF schedule_download_transfer_failed
  <2>2. QED  BY <1>2, <1>3, <1>4, <2>1
<1>7. ASSUME NEW t \in Transfers, HandleEvent(t) PROVE DownloadIsTracked'
  <2>1. CASE scheduleDownload_added(t)
    BY <2>1, Zenon DEF scheduleDownload_added
  <2>2. CASE timewindow_started(t)
    BY <1>5, <2>2, Zenon DEF timewindow_started
  <2>3. CASE timewindow_ended(t)
    BY <1>5, <2>3, Zenon DEF timewindow_ended
  <2>4. CASE EventOfDeletedTransfer(t)
    BY <2>4 DEF EventOfDeletedTransfer
  <2>5. QED  BY <1>6, <1>7, <2>1, <2>2, <2>3, <2>4 DEF HandleEvent
<1>8. ASSUME NEW t \in Transfers,
             addScheduleDownload(t) \/ scheduleDownload_del_inst(t) \/ WindowTimer(t)
      PROVE  DownloadIsTracked'
  <2>1. UNCHANGED <<transfer_in_progress, downloads>>
    BY <1>8, Zenon DEF addScheduleDownload, scheduleDownload_del_inst, WindowTimer,
       timewindow_start_timer_cb, timewindow_end_timer_cb, window_timer_cb
  <2>2. QED  BY <2>1
<1>9. ASSUME NEW t \in Transfers, NEW fc, FirmwareFailed(t, fc) \/ StrayFailed(t, fc)
      PROVE  DownloadIsTracked'
  BY <1>9 DEF FirmwareFailed, StrayFailed
<1>10. CASE FirmwareApplied \/ AppStopped \/ Crash
  BY <1>10 DEF FirmwareApplied, AppStopped, Crash
<1>11. CASE Save \/ Boot \/ deferred_init_timer_cb \/ UNCHANGED vars
  <2>1. UNCHANGED <<transfer_in_progress, downloads>>
    BY <1>11, Zenon DEF Save, Boot, deferred_init_timer_cb, vars
  <2>2. QED  BY <2>1
<1> QED  BY <1>7, <1>8, <1>9, <1>10, <1>11 DEF Next

-----------------------------------------------------------------------------
(***************************************************************************)
(* The theorems.                                                           *)
(***************************************************************************)

\* The inductive invariant holds in every behaviour.
THEOREM Invariance == Spec => []IInv
  BY InitIInv, NextIInv, PTL DEF Spec

\* The transfer objects, their info, their queue and what is saved of them
\* keep their types.
THEOREM TypeCorrect == Spec => []TypeOK
  BY Invariance, PTL DEF IInv

\* The pointer transfer_in_progress never designates a transfer that is
\* finished or deleted, inside its window a transfer "In Progress" is the one
\* the pointer designates, and so is the transfer of every download that was
\* not given up: with any number of transfers, a failure reaches the wrong one
\* only through a download that outlived its window or its plugin.
THEOREM PointerIsExact == Spec => []ProgressIsTracked
<1>1. Init => DownloadIsTracked
  BY DEF Init, DownloadIsTracked
<1>2. Spec => []DownloadIsTracked
  BY <1>1, NextTracked, TypeCorrect, PTL DEF Spec
<1>3. QED  BY <1>2, Invariance, PTL DEF IInv, ProgressIsTracked

\* The invariant of the windows holds in every behaviour.
THEOREM WindowInvariance == Spec => []WInv
  BY InitWInv, NextWInv, Invariance, PTL DEF Spec

\* Whenever the queue of a transfer is empty, the cached position in its
\* windows is the one the data model gives, across timers, handlers and
\* restarts.
THEOREM InfoFollowsWindows == Spec => []InfoMatchesWindows
<1>1. IInv /\ WInv => InfoMatchesWindows
  <2> SUFFICES ASSUME IInv, WInv, NEW t \in Transfers,
                      plugin = "up", Exists(t), events[t] = <<>>
               PROVE  info[t] = transfers_transfer_add_info(t)
    BY DEF InfoMatchesWindows
  <2>1. InSync(t)
    BY DEF WInv, InfoInSync
  <2>2. info[t] # NULL /\ Sync(events[t], Reached(info[t]), Stage(t))
    BY <2>1 DEF InSync
  <2>3. /\ info[t] \in transfer_info_t
        /\ info[t].withinTimeWindow => info[t].lastTimeWindow # 0
    BY <2>2 DEF IInv, TypeOK, WithinHasWindow
  <2>4. Stage(t) \in 0..4 /\ Reached(info[t]) \in 0..4
    BY <2>3, StageFacts, ReachedFacts DEF IInv, WInv
  <2>5. events[t] \in Seq(Events) /\ \A n \in 1..Len(events[t]) : Num(events[t][n]) = 0
    BY EmptySeq DEF IInv, TypeOK
  <2>6. Reached(info[t]) = Stage(t)
    BY <2>2, <2>4, <2>5, SyncEmpty
  <2>7. Reached(transfers_transfer_add_info(t)) = Stage(t)
    BY StageFacts DEF IInv, WInv
  <2>8. QED  BY <2>3, <2>6, <2>7, AddInfoFacts, ReachedInjective
<1>2. QED
  BY Invariance, WindowInvariance, <1>1, PTL

\* As long as nothing was lost, a window never sees more starts than one and
\* its retries.
THEOREM StartsAreBounded == Spec => []RetriesBounded
<1>1. IInv /\ WInv => RetriesBounded
  <2> SUFFICES ASSUME IInv, WInv, ~lost, NEW t \in Transfers, NEW w \in Windows
               PROVE  allowance[t][w] >= 0
    BY DEF RetriesBounded
  <2>1. allowance[t][w] \in Int /\ maxRetries[t][w] \in Int
    BY PersistentType DEF IInv, TypeOK
  <2>2. RetriesLeft(t, w) \in Nat
    BY <2>1 DEF RetriesLeft
  <2>3. allowance[t][w] >= RetriesLeft(t, w) + (IF StartIsDue(t, w) THEN 1 ELSE 0)
    BY DEF WInv, StartsArePaid
  <2>4. QED  BY <2>1, <2>2, <2>3
<1>2. QED
  BY Invariance, WindowInvariance, <1>1, PTL

=============================================================================
