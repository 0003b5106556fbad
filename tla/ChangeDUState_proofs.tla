------------------------ MODULE ChangeDUState_proofs ------------------------
(***************************************************************************)
(* Proofs about ChangeDUState, for any number of requests and faults: what *)
(* is done is on its way to the ACS, what is reported has a result, and    *)
(* plugin and cwmpd together implement the promise DuChange.               *)
(***************************************************************************)
EXTENDS ChangeDUState, TLAPS

Distinct(s) == \A i, j \in DOMAIN s : s[i] = s[j] => i = j

\* A request that was not made has left no trace.
Unasked ==
    \A r \in Requests \ asked : /\ told[r] = "none" /\ gone[r] = "no"
                                /\ dscc[r] = NULL /\ r \notin Range(calls)

\* A call is on its way once, and nothing was done for it yet.
CalledOnce ==
    /\ Distinct(calls)
    /\ \A r \in Range(calls) : dscc[r] = NULL /\ gone[r] = "no"

\* cwmpd waits for a call that is on its way and was not answered.
WaitingIsCalled == waiting # NULL => waiting \in Range(calls) /\ told[waiting] = "none"

\* A request that is over has no instance.
GoneHasNone == \A r \in Requests : gone[r] # "no" => dscc[r] = NULL

\* An instance whose operation is Done has a result; one that is Done itself
\* has its operation Done.
HasResult ==
    \A r \in Requests : dscc[r] # NULL =>
        /\ dscc[r].Status = "Done" => dscc[r].Op = "Done"
        /\ dscc[r].Op = "Done" => dscc[r].Results > 0

\* The end of an operation is handled once, before its instance is Done.
EventsAreDue ==
    /\ Distinct(events)
    /\ \A r \in Range(events) : dscc[r] # NULL /\ dscc[r].Op = "Done" /\ dscc[r].Status = ""

\* cwmpd has an instance in hand once: by its timer, its notification or its
\* report.
InHandOnce ==
    /\ cwmpd = "down" => timers = {} /\ notes = <<>> /\ reports = {} /\ waiting = NULL
    /\ Distinct(notes)
    /\ timers \cup Range(notes) \cup reports \subseteq Done
    /\ timers \cap Range(notes) = {} /\ timers \cap reports = {} /\ Range(notes) \cap reports = {}

\* The inductive invariant.
IInv ==
    /\ TypeOK
    /\ Unasked
    /\ CalledOnce
    /\ WaitingIsCalled
    /\ GoneHasNone
    /\ HasResult
    /\ EventsAreDue
    /\ InHandOnce
    /\ DoneIsOnItsWay

-----------------------------------------------------------------------------
(***************************************************************************)
(* Queues.                                                                 *)
(***************************************************************************)

\* What an entry added at the end changes.
LEMMA Appended ==
  ASSUME NEW S, NEW s \in Seq(S), NEW x \in S
  PROVE  /\ Append(s, x) \in Seq(S)
         /\ Range(Append(s, x)) = Range(s) \cup {x}
         /\ Distinct(s) /\ x \notin Range(s) => Distinct(Append(s, x))
<1>1. /\ Append(s, x) \in Seq(S)
      /\ DOMAIN s = 1 .. Len(s)
      /\ DOMAIN Append(s, x) = 1 .. Len(s) + 1
      /\ Append(s, x)[Len(s) + 1] = x
      /\ \A i \in 1 .. Len(s) : Append(s, x)[i] = s[i]
      /\ Len(s) \in Nat
  OBVIOUS
<1>2. Range(Append(s, x)) = Range(s) \cup {x}
  BY <1>1 DEF Range
<1>3. Distinct(s) /\ x \notin Range(s) => Distinct(Append(s, x))
  BY <1>1 DEF Range, Distinct
<1> QED  BY <1>1, <1>2, <1>3

\* What is left when the first entry is taken.
LEMMA Taken ==
  ASSUME NEW S, NEW s \in Seq(S), s # <<>>
  PROVE  /\ Tail(s) \in Seq(S)
         /\ Head(s) \in S
         /\ Range(s) = {Head(s)} \cup Range(Tail(s))
         /\ Distinct(s) => Distinct(Tail(s)) /\ Head(s) \notin Range(Tail(s))
<1>1. /\ Tail(s) \in Seq(S)
      /\ Head(s) \in S
      /\ Len(s) \in Nat /\ Len(s) > 0
      /\ DOMAIN s = 1 .. Len(s)
      /\ DOMAIN Tail(s) = 1 .. Len(s) - 1
      /\ Head(s) = s[1]
      /\ \A i \in 1 .. Len(s) - 1 : Tail(s)[i] = s[i + 1]
  OBVIOUS
<1>2. Range(s) = {Head(s)} \cup Range(Tail(s))
  <2>1. ASSUME NEW i \in 1 .. Len(s), i # 1
        PROVE  s[i] \in Range(Tail(s))
    <3>1. i - 1 \in 1 .. Len(s) - 1 /\ Tail(s)[i - 1] = s[i]
      BY <1>1, <2>1
    <3> QED  BY <3>1, <1>1 DEF Range
  <2>2. ASSUME NEW i \in 1 .. Len(s) - 1
        PROVE  Tail(s)[i] \in Range(s)
    BY <1>1 DEF Range
  <2>3. Head(s) \in Range(s)
    BY <1>1 DEF Range
  <2>4. ASSUME NEW x \in Range(s)
        PROVE  x \in {Head(s)} \cup Range(Tail(s))
    <3>1. PICK i \in 1 .. Len(s) : x = s[i]
      BY <1>1 DEF Range
    <3> QED  BY <3>1, <2>1, <1>1
  <2>5. ASSUME NEW x \in Range(Tail(s))
        PROVE  x \in Range(s)
    <3>1. PICK i \in 1 .. Len(s) - 1 : x = Tail(s)[i]
      BY <1>1 DEF Range
    <3> QED  BY <3>1, <2>2
  <2> QED  BY <2>3, <2>4, <2>5
<1>3. ASSUME Distinct(s)
      PROVE  Distinct(Tail(s)) /\ Head(s) \notin Range(Tail(s))
  <2>1. Distinct(Tail(s))
    BY <1>1, <1>3 DEF Distinct
  <2>2. Head(s) \notin Range(Tail(s))
    BY <1>1, <1>3 DEF Distinct, Range
  <2> QED  BY <2>1, <2>2
<1> QED  BY <1>1, <1>2, <1>3

\* The empty queue.
LEMMA EmptyQueue ==
  /\ \A S : <<>> \in Seq(S)
  /\ Range(<<>>) = {}
  /\ Distinct(<<>>)
  BY DEF Range, Distinct

-----------------------------------------------------------------------------
(***************************************************************************)
(* The actions preserve the invariant.                                     *)
(***************************************************************************)

\* A step that may fail keeps the counter of faults within its bound.
LEMMA FaultsType ==
  ASSUME TypeOK, NEW call, Fails(call)
  PROVE  faults' \in 0 .. MaxFaults
  BY DuAssumption DEF TypeOK, Fails

\* Who is in a queue is a request.
LEMMA Queued ==
  ASSUME TypeOK
  PROVE  /\ Range(calls) \subseteq Requests
         /\ Range(events) \subseteq Requests
         /\ Range(notes) \subseteq Requests
<1>1. ASSUME NEW s \in Seq(Requests) PROVE Range(s) \subseteq Requests
  BY <1>1 DEF Range
<1> QED  BY <1>1 DEF TypeOK

\* The records of an instance: new, with a result, with its operation Done, and
\* Done itself.
LEMMA NewRecord ==
  ASSUME NEW d, d = [Status |-> "", Op |-> "In Progress", Results |-> 0]
  PROVE  d \in Records /\ d # NULL /\ d.Status = "" /\ d.Op = "In Progress"
<1>1. d \in Records
  BY DEF Records
<1> QED  BY <1>1, DuAssumption

LEMMA RecordType ==
  ASSUME NEW d \in Records
  PROVE  /\ d # NULL /\ d.Results \in Nat
         /\ d.Status \in {"", "Done"} /\ d.Op \in {"In Progress", "Done"}
<1>1. d # NULL
  BY DuAssumption
<1> QED  BY <1>1 DEF Records

LEMMA ResultAdded ==
  ASSUME NEW d \in Records, NEW e, e = [d EXCEPT !.Results = @ + 1]
  PROVE  e \in Records /\ e.Status = d.Status /\ e.Op = d.Op /\ e.Results > 0
<1>1. d.Results \in Nat
  BY DEF Records
<1>2. d.Results + 1 \in Nat /\ d.Results + 1 > 0
  BY <1>1
<1>3. e \in Records /\ e.Status = d.Status /\ e.Op = d.Op
  BY <1>2 DEF Records
<1>4. e.Results = d.Results + 1
  BY DEF Records
<1> QED  BY <1>2, <1>3, <1>4

LEMMA OpDone ==
  ASSUME NEW d \in Records, NEW e, e = [d EXCEPT !.Op = "Done"]
  PROVE  e \in Records /\ e.Status = d.Status /\ e.Op = "Done" /\ e.Results = d.Results
  BY DEF Records

LEMMA StatusDone ==
  ASSUME NEW d \in Records, NEW e, e = [d EXCEPT !.Status = "Done"]
  PROVE  e \in Records /\ e.Status = "Done" /\ e.Op = d.Op /\ e.Results = d.Results
  BY DEF Records

\* DM_ENG_Device_DoChangeDUState.
LEMMA DoChangeDUStateStep ==
  ASSUME IInv, NEW r \in Requests, DoChangeDUState(r)
  PROVE  IInv'
<1> USE DuAssumption DEF IInv
<1>1. /\ r \notin asked /\ asked' = asked \cup {r} /\ r # NULL
      /\ waiting = NULL /\ cwmpd # "down"
      /\ UNCHANGED <<smm, ops, monitored, results, dscc, events, cwmpd, timers, notes, reports,
                     gone, missed, faults>>
  BY DEF DoChangeDUState, Ready
<1>2. r \notin Range(calls) /\ told[r] = "none" /\ dscc[r] = NULL /\ gone[r] = "no"
  BY <1>1 DEF Unasked
<1>3. /\ Append(calls, r) \in Seq(Requests)
      /\ Range(Append(calls, r)) = Range(calls) \cup {r}
      /\ Distinct(Append(calls, r))
  BY <1>2, Appended DEF TypeOK, CalledOnce
<1>4. \/ told' = [told EXCEPT ![r] = "fault"] /\ waiting' = waiting /\ calls' = calls
      \/ waiting' = r /\ calls' = Append(calls, r) /\ told' = told
  BY DEF DoChangeDUState
<1>5. TypeOK'
  BY <1>1, <1>2, <1>3, <1>4 DEF TypeOK
<1>6. Unasked'
  BY <1>1, <1>2, <1>3, <1>4, Queued DEF Unasked, TypeOK
<1>7. CalledOnce'
  BY <1>1, <1>2, <1>3, <1>4, Queued DEF CalledOnce, TypeOK
<1>8. WaitingIsCalled'
  BY <1>1, <1>2, <1>3, <1>4 DEF WaitingIsCalled, TypeOK
<1>9. GoneHasNone'
  BY <1>1, <1>2, <1>3, <1>4 DEF GoneHasNone, TypeOK
<1>10. HasResult'
  BY <1>1, <1>2, <1>3, <1>4 DEF HasResult, TypeOK
<1>11. EventsAreDue'
  BY <1>1, <1>2, <1>3, <1>4, Queued DEF EventsAreDue, TypeOK
<1>12. InHandOnce'
  BY <1>1, <1>2, <1>3, <1>4, Queued DEF InHandOnce, Done, TypeOK
<1>13. DoneIsOnItsWay'
  BY <1>1, <1>2, <1>3, <1>4, Queued DEF DoneIsOnItsWay, Done, TypeOK
<1> QED  BY <1>5, <1>6, <1>7, <1>8, <1>9, <1>10, <1>11, <1>12, <1>13

\* The call to the plugin times out.
LEMMA CallTimeoutStep ==
  ASSUME IInv, CallTimeout
  PROVE  IInv'
<1> USE DuAssumption DEF IInv
<1>1. waiting \in Requests /\ waiting \in Range(calls)
  BY DEF CallTimeout, TypeOK, WaitingIsCalled
<1>2. waiting \in asked
  BY <1>1 DEF Unasked
<1>3. faults' \in 0 .. MaxFaults
  BY FaultsType DEF CallTimeout
<1>4. /\ waiting' = NULL
      /\ told' = [told EXCEPT ![waiting] = "fault"]
      /\ UNCHANGED <<smm, ops, plugin, cwmpd, timers, notes, reports, asked, gone, missed>>
  BY DEF CallTimeout
<1>5. TypeOK'
  BY <1>1, <1>2, <1>3, <1>4 DEF plugin, TypeOK
<1>6. Unasked'
  BY <1>1, <1>2, <1>3, <1>4 DEF plugin, Unasked, TypeOK
<1>7. CalledOnce'
  BY <1>1, <1>2, <1>3, <1>4 DEF plugin, CalledOnce, TypeOK
<1>8. WaitingIsCalled'
  BY <1>1, <1>2, <1>3, <1>4 DEF plugin, WaitingIsCalled, TypeOK
<1>9. GoneHasNone'
  BY <1>1, <1>2, <1>3, <1>4 DEF plugin, GoneHasNone, TypeOK
<1>10. HasResult'
  BY <1>1, <1>2, <1>3, <1>4 DEF plugin, HasResult, TypeOK
<1>11. EventsAreDue'
  BY <1>1, <1>2, <1>3, <1>4 DEF plugin, EventsAreDue, TypeOK
<1>12. InHandOnce'
  BY <1>1, <1>2, <1>3, <1>4 DEF plugin, InHandOnce, Done, TypeOK
<1>13. DoneIsOnItsWay'
  BY <1>1, <1>2, <1>3, <1>4 DEF plugin, DoneIsOnItsWay, Done, TypeOK
<1> QED  BY <1>5, <1>6, <1>7, <1>8, <1>9, <1>10, <1>11, <1>12, <1>13

\* _changeDUState.
LEMMA ChangeDUStateStep ==
  ASSUME IInv, ChangeDUState
  PROVE  IInv'
<1> USE DuAssumption DEF IInv
<1> DEFINE h == Head(calls)
           new == [Status |-> "", Op |-> "In Progress", Results |-> 0]
<1>1. /\ Tail(calls) \in Seq(Requests) /\ h \in Requests
      /\ Range(calls) = {h} \cup Range(Tail(calls))
      /\ Distinct(Tail(calls)) /\ h \notin Range(Tail(calls))
  BY Taken DEF TypeOK, CalledOnce, ChangeDUState
<1>2. dscc[h] = NULL /\ gone[h] = "no" /\ h \in asked
  BY <1>1 DEF CalledOnce, Unasked
<1>3. new \in Records /\ new # NULL /\ new.Status = "" /\ new.Op = "In Progress"
  BY NewRecord
<1>4. PICK outcome \in {"refused", "accepted", "orphan"} :
        /\ op_run(h, outcome)
        /\ Fails(IF outcome = "orphan" THEN "transaction" ELSE "none")
        /\ Reply(h, IF outcome = "accepted" THEN "ok" ELSE "fault")
        /\ dscc' = IF outcome = "accepted" THEN [dscc EXCEPT ![h] = new] ELSE dscc
        /\ gone' = IF outcome = "orphan" THEN [gone EXCEPT ![h] = "lost"] ELSE gone
  BY DEF ChangeDUState
<1>5. /\ faults' \in 0 .. MaxFaults
      /\ ops' \subseteq Requests
  BY <1>1, <1>4, FaultsType DEF op_run, TypeOK
<1>6. /\ calls' = Tail(calls)
      /\ UNCHANGED <<smm, monitored, results, events, cwmpd, timers, notes, reports, asked, missed>>
  BY DEF ChangeDUState
<1>7. /\ dscc' \in [Requests -> {NULL} \cup Records]
      /\ gone' \in [Requests -> {"no", "acknowledged", "lost"}]
      /\ \A q \in Requests \ {h} : dscc'[q] = dscc[q] /\ gone'[q] = gone[q]
      /\ dscc'[h] = IF outcome = "accepted" THEN new ELSE NULL
      /\ gone'[h] = IF outcome = "orphan" THEN "lost" ELSE "no"
  BY <1>1, <1>2, <1>3, <1>4 DEF TypeOK
<1>8. /\ told' \in [Requests -> {"none", "ok", "fault"}]
      /\ \A q \in Requests \ {h} : told'[q] = told[q]
      /\ waiting' = IF waiting = h THEN NULL ELSE waiting
  BY <1>1, <1>4 DEF TypeOK, Reply
<1> HIDE DEF h, new
<1>9. TypeOK'
  BY <1>1, <1>2, <1>3, <1>5, <1>6, <1>7, <1>8 DEF TypeOK
<1>10. Unasked'
  BY <1>1, <1>2, <1>3, <1>5, <1>6, <1>7, <1>8, Queued, ZenonT(40) DEF Unasked, TypeOK
<1>11. CalledOnce'
  BY <1>1, <1>2, <1>3, <1>5, <1>6, <1>7, <1>8, Queued, ZenonT(40) DEF CalledOnce, TypeOK
<1>12. WaitingIsCalled'
  BY <1>1, <1>2, <1>3, <1>5, <1>6, <1>7, <1>8 DEF WaitingIsCalled, TypeOK
<1>13. GoneHasNone'
  BY <1>1, <1>2, <1>3, <1>5, <1>6, <1>7, <1>8 DEF GoneHasNone, TypeOK
<1>14. HasResult'
  BY <1>1, <1>2, <1>3, <1>5, <1>6, <1>7, <1>8, ZenonT(40) DEF HasResult, TypeOK
<1>15. EventsAreDue'
  BY <1>1, <1>2, <1>3, <1>5, <1>6, <1>7, <1>8, Queued DEF EventsAreDue, TypeOK
<1>16. InHandOnce'
  BY <1>1, <1>2, <1>3, <1>5, <1>6, <1>7, <1>8, Queued, ZenonT(40) DEF InHandOnce, Done, TypeOK
<1>17. DoneIsOnItsWay'
  BY <1>1, <1>2, <1>3, <1>5, <1>6, <1>7, <1>8, Queued DEF DoneIsOnItsWay, Done, TypeOK
<1> QED  BY <1>9, <1>10, <1>11, <1>12, <1>13, <1>14, <1>15, <1>16, <1>17

\* SMM comes.
LEMMA SmmStep ==
  ASSUME IInv, SmmAppears \/ smm_available_cb
  PROVE  IInv'
<1> USE DuAssumption DEF IInv
<1>1. /\ smm' \in BOOLEAN /\ monitored' \in BOOLEAN
      /\ UNCHANGED <<ops, results, calls, dscc, events, daemon, ghost, faults>>
  BY DEF SmmAppears, smm_available_cb, plugin, TypeOK
<1>2. TypeOK'
  BY <1>1 DEF daemon, ghost, TypeOK
<1>3. Unasked'
  BY <1>1, Queued DEF daemon, ghost, Unasked, TypeOK
<1>4. CalledOnce'
  BY <1>1, Queued DEF daemon, ghost, CalledOnce, TypeOK
<1>5. WaitingIsCalled'
  BY <1>1 DEF daemon, ghost, WaitingIsCalled, TypeOK
<1>6. GoneHasNone'
  BY <1>1 DEF daemon, ghost, GoneHasNone, TypeOK
<1>7. HasResult'
  BY <1>1 DEF daemon, ghost, HasResult, TypeOK
<1>8. EventsAreDue'
  BY <1>1, Queued DEF daemon, ghost, EventsAreDue, TypeOK
<1>9. InHandOnce'
  BY <1>1, Queued DEF daemon, ghost, InHandOnce, Done, TypeOK
<1>10. DoneIsOnItsWay'
  BY <1>1, Queued DEF daemon, ghost, DoneIsOnItsWay, Done, TypeOK
<1> QED  BY <1>2, <1>3, <1>4, <1>5, <1>6, <1>7, <1>8, <1>9, <1>10

\* SMM ends an operation.
LEMMA SmmDoneStep ==
  ASSUME IInv, NEW r \in Requests, SmmDone(r)
  PROVE  IInv'
<1> USE DuAssumption DEF IInv
<1>1. Append(results, r) \in Seq(Requests)
  BY Appended DEF TypeOK
<1>2. /\ ops' \subseteq Requests /\ results' \in Seq(Requests)
      /\ faults' \in 0 .. MaxFaults
      /\ UNCHANGED <<smm, monitored, calls, dscc, events, daemon, ghost>>
  BY <1>1, FaultsType DEF SmmDone, TypeOK
<1>3. TypeOK'
  BY <1>2 DEF daemon, ghost, TypeOK
<1>4. Unasked'
  BY <1>2, Queued DEF daemon, ghost, Unasked, TypeOK
<1>5. CalledOnce'
  BY <1>2, Queued DEF daemon, ghost, CalledOnce, TypeOK
<1>6. WaitingIsCalled'
  BY <1>2 DEF daemon, ghost, WaitingIsCalled, TypeOK
<1>7. GoneHasNone'
  BY <1>2 DEF daemon, ghost, GoneHasNone, TypeOK
<1>8. HasResult'
  BY <1>2 DEF daemon, ghost, HasResult, TypeOK
<1>9. EventsAreDue'
  BY <1>2, Queued DEF daemon, ghost, EventsAreDue, TypeOK
<1>10. InHandOnce'
  BY <1>2, Queued DEF daemon, ghost, InHandOnce, Done, TypeOK
<1>11. DoneIsOnItsWay'
  BY <1>2, Queued DEF daemon, ghost, DoneIsOnItsWay, Done, TypeOK
<1> QED  BY <1>3, <1>4, <1>5, <1>6, <1>7, <1>8, <1>9, <1>10, <1>11

\* op_handle_results.
LEMMA ResultsStep ==
  ASSUME IInv, op_handle_results
  PROVE  IInv'
<1> USE DuAssumption DEF IInv
<1> DEFINE h == Head(results)
<1>1. Tail(results) \in Seq(Requests) /\ h \in Requests
  BY Taken DEF TypeOK, op_handle_results
<1>2. /\ results' = Tail(results)
      /\ UNCHANGED <<smm, ops, monitored, calls, daemon, ghost>>
  BY DEF op_handle_results
<1>3. CASE ~InProgress(h)
  <2>1. UNCHANGED <<dscc, events, faults>>
    BY <1>3 DEF op_handle_results
  <2> QED
    BY <1>1, <1>2, <2>1 DEF daemon, ghost, TypeOK, Unasked, CalledOnce, WaitingIsCalled, GoneHasNone,
       HasResult, EventsAreDue, InHandOnce, DoneIsOnItsWay, Done
<1> SUFFICES ASSUME InProgress(h) PROVE IInv'
  BY <1>3
<1>4. dscc[h] \in Records /\ dscc[h].Op = "In Progress" /\ dscc[h].Status # "Done"
  BY <1>1, RecordType DEF InProgress, TypeOK, HasResult
<1>5. h \notin Range(events) /\ dscc[h] # NULL /\ dscc[h].Results \in Nat
  BY <1>1, <1>4, RecordType DEF EventsAreDue
<1>6. /\ Append(events, h) \in Seq(Requests)
      /\ Range(Append(events, h)) = Range(events) \cup {h}
      /\ Distinct(Append(events, h))
  <2>1. events \in Seq(Requests) /\ Distinct(events)
    BY DEF TypeOK, EventsAreDue
  <2> QED  BY <1>1, <1>5, <2>1, Appended
<1>7. PICK call \in {"none", "add", "set"} :
        /\ Fails(call)
        /\ dscc' = [dscc EXCEPT ![h] =
                     CASE call = "none" -> [[dscc[h] EXCEPT !.Results = @ + 1] EXCEPT !.Op = "Done"]
                       [] call = "add"  -> @
                       [] call = "set"  -> [dscc[h] EXCEPT !.Results = @ + 1]]
        /\ events' = IF call = "none" THEN Append(events, h) ELSE events
  BY DEF op_handle_results
<1>8. faults' \in 0 .. MaxFaults
  BY <1>7, FaultsType
<1>9. /\ dscc' \in [Requests -> {NULL} \cup Records]
      /\ \A q \in Requests \ {h} : dscc'[q] = dscc[q]
      /\ dscc'[h] # NULL /\ dscc'[h].Status = dscc[h].Status
      /\ IF call = "none" THEN dscc'[h].Op = "Done" /\ dscc'[h].Results > 0
         ELSE dscc'[h].Op = "In Progress"
  <2> DEFINE d == [dscc[h] EXCEPT !.Results = @ + 1]
             e == [d EXCEPT !.Op = "Done"]
  <2>1. d \in Records /\ d # NULL /\ d.Status = dscc[h].Status /\ d.Op = "In Progress" /\ d.Results > 0
    <3>1. d \in Records /\ d.Status = dscc[h].Status /\ d.Op = dscc[h].Op /\ d.Results > 0
      BY <1>4, ResultAdded
    <3> HIDE DEF d
    <3> QED  BY <1>4, <1>5, <3>1, RecordType
  <2>5. e \in Records /\ e # NULL /\ e.Status = dscc[h].Status /\ e.Op = "Done" /\ e.Results > 0
    <3> HIDE DEF d
    <3> QED  BY <2>1, OpDone, RecordType, ZenonT(40)
  <2>6. dscc' = [dscc EXCEPT ![h] = IF call = "none" THEN e ELSE IF call = "add" THEN dscc[h] ELSE d]
    BY <1>7
  <2> HIDE DEF d, e
  <2>2. CASE call = "none"
    BY <2>2, <2>5, <2>6, <1>1 DEF TypeOK
  <2>3. CASE call = "add"
    BY <2>3, <2>6, <1>1, <1>4, <1>5 DEF TypeOK
  <2>4. CASE call = "set"
    BY <2>1, <2>4, <2>6, <1>1 DEF TypeOK
  <2> QED  BY <2>2, <2>3, <2>4
<1>10. events' = IF call = "none" THEN Append(events, h) ELSE events
  BY <1>7
<1> HIDE DEF h
<1>11. TypeOK'
  BY <1>1, <1>2, <1>4, <1>5, <1>6, <1>8, <1>9, <1>10 DEF daemon, ghost, TypeOK
<1>12. Unasked'
  BY <1>1, <1>2, <1>4, <1>5, <1>6, <1>8, <1>9, <1>10, Queued DEF daemon, ghost, Unasked, TypeOK
<1>13. CalledOnce'
  BY <1>1, <1>2, <1>4, <1>5, <1>6, <1>8, <1>9, <1>10, Queued DEF daemon, ghost, CalledOnce, TypeOK
<1>14. WaitingIsCalled'
  BY <1>1, <1>2, <1>4, <1>5, <1>6, <1>8, <1>9, <1>10 DEF daemon, ghost, WaitingIsCalled, TypeOK
<1>15. GoneHasNone'
  BY <1>1, <1>2, <1>4, <1>5, <1>6, <1>8, <1>9, <1>10 DEF daemon, ghost, GoneHasNone, TypeOK
<1>16. HasResult'
  BY <1>1, <1>2, <1>4, <1>5, <1>6, <1>8, <1>9, <1>10 DEF daemon, ghost, HasResult, TypeOK
<1>17. EventsAreDue'
  <2>1. Distinct(events') /\ Range(events') \subseteq Range(events) \cup {h}
    BY <1>6, <1>10 DEF EventsAreDue
  <2>2. ASSUME NEW q \in Range(events)
        PROVE  dscc'[q] # NULL /\ dscc'[q].Op = "Done" /\ dscc'[q].Status = ""
    BY <1>5, <1>9, Queued DEF EventsAreDue
  <2>3. h \in Range(events') => dscc'[h] # NULL /\ dscc'[h].Op = "Done" /\ dscc'[h].Status = ""
    <3>1. dscc[h].Status = ""
      BY <1>4, RecordType
    <3>2. h \in Range(events') => call = "none"
      BY <1>5, <1>7, <1>10
    <3> QED  BY <1>9, <3>1, <3>2
  <2> QED  BY <2>1, <2>2, <2>3 DEF EventsAreDue
<1>18. InHandOnce'
  BY <1>1, <1>2, <1>4, <1>5, <1>6, <1>8, <1>9, <1>10, Queued DEF daemon, ghost, InHandOnce, Done, TypeOK
<1>19. DoneIsOnItsWay'
  BY <1>1, <1>2, <1>4, <1>5, <1>6, <1>8, <1>9, <1>10, Queued DEF daemon, ghost, DoneIsOnItsWay, Done, TypeOK
<1> QED  BY <1>11, <1>12, <1>13, <1>14, <1>15, <1>16, <1>17, <1>18, <1>19

\* _dscc_op_done.
LEMMA OpDoneStep ==
  ASSUME IInv, dscc_op_done
  PROVE  IInv'
<1> USE DuAssumption DEF IInv
<1> DEFINE h == Head(events)
<1>1. /\ Tail(events) \in Seq(Requests) /\ h \in Requests
      /\ Range(events) = {h} \cup Range(Tail(events))
      /\ Distinct(Tail(events)) /\ h \notin Range(Tail(events))
  BY Taken DEF TypeOK, EventsAreDue, dscc_op_done
<1>2. /\ dscc[h] # NULL /\ dscc[h].Op = "Done" /\ dscc[h].Status = ""
      /\ h \notin timers \cup Range(notes) \cup reports
  BY <1>1 DEF EventsAreDue, InHandOnce, Done
<1>3. /\ Append(notes, h) \in Seq(Requests)
      /\ Range(Append(notes, h)) = Range(notes) \cup {h}
      /\ Distinct(Append(notes, h))
  <2>1. notes \in Seq(Requests) /\ Distinct(notes) /\ h \notin Range(notes)
    BY <1>2 DEF TypeOK, InHandOnce
  <2> QED  BY <1>1, <2>1, Appended
<1>4. /\ events' = Tail(events)
      /\ UNCHANGED <<smm, ops, monitored, results, calls, cwmpd, waiting, timers, reports,
                     asked, told, gone>>
  BY DEF dscc_op_done
<1>5. CASE Fails("transaction") /\ UNCHANGED <<dscc, notes, missed>>
  <2>1. faults' \in 0 .. MaxFaults
    BY <1>5, FaultsType
  <2> QED
    BY <1>1, <1>4, <1>5, <2>1 DEF TypeOK, Unasked, CalledOnce, WaitingIsCalled, GoneHasNone,
       HasResult, EventsAreDue, InHandOnce, DoneIsOnItsWay, Done
<1> SUFFICES ASSUME /\ dscc' = [dscc EXCEPT ![h].Status = "Done"]
                    /\ notes' = IF cwmpd = "up" THEN Append(notes, h) ELSE notes
                    /\ missed' = IF cwmpd \in {"read", "deaf"} THEN missed \cup {h} ELSE missed
                    /\ UNCHANGED faults
             PROVE  IInv'
  BY <1>5 DEF dscc_op_done
<1>6. /\ dscc' \in [Requests -> {NULL} \cup Records]
      /\ \A q \in Requests \ {h} : dscc'[q] = dscc[q]
      /\ dscc'[h] # NULL /\ dscc'[h].Status = "Done" /\ dscc'[h].Op = "Done"
      /\ dscc'[h].Results = dscc[h].Results
  <2>1. dscc[h] \in Records
    BY <1>1, <1>2 DEF TypeOK
  <2> DEFINE e == [dscc[h] EXCEPT !.Status = "Done"]
  <2>2. dscc' = [dscc EXCEPT ![h] = e]
    BY <1>1 DEF TypeOK
  <2>3. e \in Records /\ e # NULL /\ e.Status = "Done" /\ e.Op = "Done" /\ e.Results = dscc[h].Results
    <3>1. e \in Records /\ e.Status = "Done" /\ e.Op = dscc[h].Op /\ e.Results = dscc[h].Results
      BY <2>1, StatusDone
    <3> HIDE DEF e
    <3> QED  BY <1>2, <3>1, RecordType
  <2> HIDE DEF e
  <2> QED  BY <2>2, <2>3, <1>1, ZenonT(40) DEF TypeOK
<1>7. /\ notes' = IF cwmpd = "up" THEN Append(notes, h) ELSE notes
      /\ missed' = IF cwmpd \in {"read", "deaf"} THEN missed \cup {h} ELSE missed
      /\ faults' = faults
  OBVIOUS
<1> HIDE DEF h
<1>8. TypeOK'
  BY <1>1, <1>2, <1>3, <1>4, <1>6, <1>7 DEF TypeOK
<1>9. Unasked'
  <2>1. h \in asked
    BY <1>1, <1>2 DEF Unasked
  <2> QED  BY <1>4, <1>6, <2>1 DEF Unasked
<1>10. CalledOnce'
  <2>1. h \notin Range(calls)
    BY <1>2 DEF CalledOnce
  <2> QED  BY <1>4, <1>6, <2>1, Queued DEF CalledOnce
<1>11. WaitingIsCalled'
  BY <1>1, <1>2, <1>3, <1>4, <1>6, <1>7 DEF WaitingIsCalled, TypeOK
<1>12. GoneHasNone'
  BY <1>1, <1>2, <1>3, <1>4, <1>6, <1>7 DEF GoneHasNone, TypeOK
<1>13. HasResult'
  BY <1>1, <1>2, <1>3, <1>4, <1>6, <1>7 DEF HasResult, TypeOK
<1>14. EventsAreDue'
  BY <1>1, <1>2, <1>3, <1>4, <1>6, <1>7, Queued DEF EventsAreDue, TypeOK
<1>15. InHandOnce'
  BY <1>1, <1>2, <1>3, <1>4, <1>6, <1>7, Queued, ZenonT(40) DEF InHandOnce, Done, TypeOK
<1>16. DoneIsOnItsWay'
  BY <1>1, <1>2, <1>3, <1>4, <1>6, <1>7, Queued DEF DoneIsOnItsWay, Done, TypeOK
<1> QED  BY <1>8, <1>9, <1>10, <1>11, <1>12, <1>13, <1>14, <1>15, <1>16

\* DM_AmxChangeDUState_init, the instances.
LEMMA StartStep ==
  ASSUME IInv, Start
  PROVE  IInv'
<1> USE DuAssumption DEF IInv
<1>1. /\ cwmpd = "down" /\ cwmpd' = "read"
      /\ UNCHANGED <<smm, ops, plugin, waiting, notes, reports, asked, told, gone>>
  BY DEF Start
<1>2. /\ faults' \in 0 .. MaxFaults
      /\ \/ timers' = Done /\ missed' = missed
         \/ timers' = timers /\ missed' = missed \cup Done
  BY FaultsType DEF Start
<1>3. Range(notes) = {} /\ Done \subseteq Requests
  BY <1>1, EmptyQueue DEF InHandOnce, Done
<1>4. TypeOK'
  BY <1>1, <1>2, <1>3 DEF plugin, TypeOK
<1>5. Unasked'
  BY <1>1, <1>2, <1>3 DEF plugin, Unasked, TypeOK
<1>6. CalledOnce'
  BY <1>1, <1>2, <1>3 DEF plugin, CalledOnce, TypeOK
<1>7. WaitingIsCalled'
  BY <1>1, <1>2, <1>3 DEF plugin, WaitingIsCalled, TypeOK
<1>8. GoneHasNone'
  BY <1>1, <1>2, <1>3 DEF plugin, GoneHasNone, TypeOK
<1>9. HasResult'
  BY <1>1, <1>2, <1>3 DEF plugin, HasResult, TypeOK
<1>10. EventsAreDue'
  BY <1>1, <1>2, <1>3 DEF plugin, EventsAreDue, TypeOK
<1>11. InHandOnce'
  BY <1>1, <1>2, <1>3 DEF plugin, InHandOnce, Done, TypeOK
<1>12. DoneIsOnItsWay'
  BY <1>1, <1>2, <1>3 DEF plugin, DoneIsOnItsWay, Done, TypeOK
<1> QED  BY <1>4, <1>5, <1>6, <1>7, <1>8, <1>9, <1>10, <1>11, <1>12

\* DM_AmxChangeDUState_init, the subscription.
LEMMA SubscribeStep ==
  ASSUME IInv, Subscribe
  PROVE  IInv'
<1> USE DuAssumption DEF IInv
<1>1. /\ cwmpd = "read" /\ cwmpd' \in {"up", "deaf"}
      /\ faults' \in 0 .. MaxFaults
      /\ UNCHANGED <<smm, ops, plugin, waiting, timers, notes, reports, ghost>>
  BY FaultsType DEF Subscribe
<1>2. TypeOK'
  BY <1>1 DEF plugin, ghost, TypeOK
<1>3. Unasked'
  BY <1>1 DEF plugin, ghost, Unasked, TypeOK
<1>4. CalledOnce'
  BY <1>1 DEF plugin, ghost, CalledOnce, TypeOK
<1>5. WaitingIsCalled'
  BY <1>1 DEF plugin, ghost, WaitingIsCalled, TypeOK
<1>6. GoneHasNone'
  BY <1>1 DEF plugin, ghost, GoneHasNone, TypeOK
<1>7. HasResult'
  BY <1>1 DEF plugin, ghost, HasResult, TypeOK
<1>8. EventsAreDue'
  BY <1>1 DEF plugin, ghost, EventsAreDue, TypeOK
<1>9. InHandOnce'
  BY <1>1 DEF plugin, ghost, InHandOnce, Done, TypeOK
<1>10. DoneIsOnItsWay'
  BY <1>1 DEF plugin, ghost, DoneIsOnItsWay, Done, TypeOK
<1> QED  BY <1>2, <1>3, <1>4, <1>5, <1>6, <1>7, <1>8, <1>9, <1>10

\* The timer of an instance found Done.
LEMMA TimerStep ==
  ASSUME IInv, NEW r \in Requests, Timer(r)
  PROVE  IInv'
<1> USE DuAssumption DEF IInv
<1>1. /\ r \in timers /\ timers' = timers \ {r} /\ cwmpd # "down"
      /\ faults' \in 0 .. MaxFaults
      /\ \/ reports' = reports \cup {r} /\ missed' = missed
         \/ reports' = reports /\ missed' = missed \cup {r}
      /\ UNCHANGED <<smm, ops, plugin, cwmpd, waiting, notes, asked, told, gone>>
  BY FaultsType DEF Timer, Ready, handle_dustatechangecomplete
<1>2. TypeOK'
  BY <1>1 DEF plugin, TypeOK
<1>3. Unasked'
  BY <1>1 DEF plugin, Unasked, TypeOK
<1>4. CalledOnce'
  BY <1>1 DEF plugin, CalledOnce, TypeOK
<1>5. WaitingIsCalled'
  BY <1>1 DEF plugin, WaitingIsCalled, TypeOK
<1>6. GoneHasNone'
  BY <1>1 DEF plugin, GoneHasNone, TypeOK
<1>7. HasResult'
  BY <1>1 DEF plugin, HasResult, TypeOK
<1>8. EventsAreDue'
  BY <1>1 DEF plugin, EventsAreDue, TypeOK
<1>9. InHandOnce'
  BY <1>1 DEF plugin, InHandOnce, Done, TypeOK
<1>10. DoneIsOnItsWay'
  BY <1>1 DEF plugin, DoneIsOnItsWay, Done, TypeOK
<1> QED  BY <1>2, <1>3, <1>4, <1>5, <1>6, <1>7, <1>8, <1>9, <1>10

\* dustatechangecomplete_notification.
LEMMA NotificationStep ==
  ASSUME IInv, Notification
  PROVE  IInv'
<1> USE DuAssumption DEF IInv
<1> DEFINE h == Head(notes)
<1>1. /\ Tail(notes) \in Seq(Requests) /\ h \in Requests
      /\ Range(notes) = {h} \cup Range(Tail(notes))
      /\ Distinct(Tail(notes)) /\ h \notin Range(Tail(notes))
  BY Taken DEF TypeOK, InHandOnce, Notification
<1>2. /\ notes' = Tail(notes) /\ cwmpd # "down"
      /\ faults' \in 0 .. MaxFaults
      /\ \/ reports' = reports \cup {h} /\ missed' = missed
         \/ reports' = reports /\ missed' = missed \cup {h}
      /\ UNCHANGED <<smm, ops, plugin, cwmpd, waiting, timers, asked, told, gone>>
  BY FaultsType DEF Notification, Ready, handle_dustatechangecomplete
<1> HIDE DEF h
<1>3. TypeOK'
  BY <1>1, <1>2 DEF plugin, TypeOK
<1>4. Unasked'
  BY <1>1, <1>2 DEF plugin, Unasked, TypeOK
<1>5. CalledOnce'
  BY <1>1, <1>2 DEF plugin, CalledOnce, TypeOK
<1>6. WaitingIsCalled'
  BY <1>1, <1>2 DEF plugin, WaitingIsCalled, TypeOK
<1>7. GoneHasNone'
  BY <1>1, <1>2 DEF plugin, GoneHasNone, TypeOK
<1>8. HasResult'
  BY <1>1, <1>2 DEF plugin, HasResult, TypeOK
<1>9. EventsAreDue'
  BY <1>1, <1>2 DEF plugin, EventsAreDue, TypeOK
<1>10. InHandOnce'
  BY <1>1, <1>2 DEF plugin, InHandOnce, Done, TypeOK
<1>11. DoneIsOnItsWay'
  BY <1>1, <1>2 DEF plugin, DoneIsOnItsWay, Done, TypeOK
<1> QED  BY <1>3, <1>4, <1>5, <1>6, <1>7, <1>8, <1>9, <1>10, <1>11

\* DM_ENG_Device_DUStateChangeCompleteAcknowledged.
LEMMA AcknowledgedStep ==
  ASSUME IInv, NEW r \in Requests, Acknowledged(r)
  PROVE  IInv'
<1> USE DuAssumption DEF IInv
<1>1. /\ r \in reports /\ reports' = reports \ {r} /\ cwmpd # "down"
      /\ UNCHANGED <<smm, ops, monitored, results, calls, events, cwmpd, waiting, timers, notes,
                     asked, told>>
  BY DEF Acknowledged, Ready
<1>2. /\ r \in Done /\ r \notin timers \cup Range(notes)
      /\ r \notin Range(events) /\ r \in asked
  BY <1>1 DEF InHandOnce, EventsAreDue, Done, Unasked
<1>3. faults' \in 0 .. MaxFaults
  BY FaultsType DEF Acknowledged
<1>4. \/ /\ dscc' = [dscc EXCEPT ![r] = NULL]
         /\ gone' = [gone EXCEPT ![r] = "acknowledged"]
         /\ missed' = missed
      \/ missed' = missed \cup {r} /\ dscc' = dscc /\ gone' = gone
  BY DEF Acknowledged
<1>5. /\ dscc' \in [Requests -> {NULL} \cup Records]
      /\ gone' \in [Requests -> {"no", "acknowledged", "lost"}]
      /\ \A q \in Requests \ {r} : dscc'[q] = dscc[q] /\ gone'[q] = gone[q]
      /\ \/ dscc'[r] = NULL /\ missed' = missed
         \/ dscc'[r] = dscc[r] /\ gone'[r] = gone[r] /\ missed' = missed \cup {r}
  BY <1>4 DEF TypeOK
<1>6. TypeOK'
  BY <1>1, <1>2, <1>3, <1>5 DEF TypeOK
<1>7. Unasked'
  BY <1>1, <1>2, <1>3, <1>5, Queued DEF Unasked, TypeOK
<1>8. CalledOnce'
  <2>1. r \notin Range(calls)
    BY <1>2 DEF CalledOnce, Done
  <2> QED  BY <1>1, <1>5, <2>1, Queued DEF CalledOnce
<1>9. WaitingIsCalled'
  BY <1>1, <1>2, <1>3, <1>5 DEF WaitingIsCalled, TypeOK
<1>10. GoneHasNone'
  BY <1>1, <1>2, <1>3, <1>5 DEF GoneHasNone, TypeOK
<1>11. HasResult'
  BY <1>1, <1>2, <1>3, <1>5 DEF HasResult, TypeOK
<1>12. EventsAreDue'
  BY <1>1, <1>2, <1>3, <1>5, Queued DEF EventsAreDue, TypeOK
<1>13. InHandOnce'
  BY <1>1, <1>2, <1>3, <1>5, Queued DEF InHandOnce, Done, TypeOK
<1>14. DoneIsOnItsWay'
  BY <1>1, <1>2, <1>3, <1>5, Queued DEF DoneIsOnItsWay, Done, TypeOK
<1> QED  BY <1>6, <1>7, <1>8, <1>9, <1>10, <1>11, <1>12, <1>13, <1>14

\* cwmpd ends.
LEMMA CwmpdEndsStep ==
  ASSUME IInv, CwmpdEnds
  PROVE  IInv'
<1> USE DuAssumption DEF IInv
<1>1. /\ cwmpd' = "down" /\ waiting' = NULL
      /\ timers' = {} /\ notes' = <<>> /\ reports' = {} /\ missed' = {}
      /\ faults' \in 0 .. MaxFaults
  BY FaultsType DEF CwmpdEnds, CwmpdGone
<1>2. Range(<<>>) = {} /\ Distinct(<<>>) /\ <<>> \in Seq(Requests)
  BY EmptyQueue
<1>3. UNCHANGED <<smm, ops, plugin, asked, told, gone>>
  BY DEF CwmpdEnds
<1>4. TypeOK'
  BY <1>1, <1>2, <1>3 DEF plugin, TypeOK
<1>5. Unasked'
  BY <1>1, <1>2, <1>3 DEF plugin, Unasked, TypeOK
<1>6. CalledOnce'
  BY <1>1, <1>2, <1>3 DEF plugin, CalledOnce, TypeOK
<1>7. WaitingIsCalled'
  BY <1>1, <1>2, <1>3 DEF plugin, WaitingIsCalled, TypeOK
<1>8. GoneHasNone'
  BY <1>1, <1>2, <1>3 DEF plugin, GoneHasNone, TypeOK
<1>9. HasResult'
  BY <1>1, <1>2, <1>3 DEF plugin, HasResult, TypeOK
<1>10. EventsAreDue'
  BY <1>1, <1>2, <1>3 DEF plugin, EventsAreDue, TypeOK
<1>11. InHandOnce'
  BY <1>1, <1>2, <1>3 DEF plugin, InHandOnce, Done, TypeOK
<1>12. DoneIsOnItsWay'
  BY <1>1, <1>2, <1>3 DEF plugin, DoneIsOnItsWay, Done, TypeOK
<1> QED  BY <1>4, <1>5, <1>6, <1>7, <1>8, <1>9, <1>10, <1>11, <1>12

\* The plugin ends, and cwmpd with it.
LEMMA PluginRestartsStep ==
  ASSUME IInv, PluginRestarts
  PROVE  IInv'
<1> USE DuAssumption DEF IInv
<1>1. /\ cwmpd' = "down" /\ waiting' = NULL
      /\ timers' = {} /\ notes' = <<>> /\ reports' = {} /\ missed' = {}
      /\ faults' \in 0 .. MaxFaults
  BY FaultsType DEF PluginRestarts, CwmpdGone
<1>2. Range(<<>>) = {} /\ Distinct(<<>>) /\ <<>> \in Seq(Requests)
  BY EmptyQueue
<1>3. /\ results' = <<>> /\ calls' = <<>> /\ events' = <<>> /\ monitored' = smm
      /\ UNCHANGED <<smm, ops, asked, told>>
      /\ dscc' = [r \in Requests |-> NULL]
      /\ gone' = [r \in Requests |-> IF dscc[r] # NULL THEN "lost" ELSE gone[r]]
  BY DEF PluginRestarts
<1>4. TypeOK'
  BY <1>1, <1>2, <1>3 DEF TypeOK
<1>5. Unasked'
  BY <1>1, <1>2, <1>3, Queued DEF Unasked, TypeOK
<1>6. CalledOnce'
  BY <1>1, <1>2, <1>3, Queued DEF CalledOnce, TypeOK
<1>7. WaitingIsCalled'
  BY <1>1, <1>2, <1>3 DEF WaitingIsCalled, TypeOK
<1>8. GoneHasNone'
  BY <1>1, <1>2, <1>3 DEF GoneHasNone, TypeOK
<1>9. HasResult'
  BY <1>1, <1>2, <1>3 DEF HasResult, TypeOK
<1>10. EventsAreDue'
  BY <1>1, <1>2, <1>3, Queued DEF EventsAreDue, TypeOK
<1>11. InHandOnce'
  BY <1>1, <1>2, <1>3, Queued DEF InHandOnce, Done, TypeOK
<1>12. DoneIsOnItsWay'
  BY <1>1, <1>2, <1>3, Queued DEF DoneIsOnItsWay, Done, TypeOK
<1> QED  BY <1>4, <1>5, <1>6, <1>7, <1>8, <1>9, <1>10, <1>11, <1>12

\* A step that changes nothing.
LEMMA StutterStep ==
  ASSUME IInv, UNCHANGED vars
  PROVE  IInv'
  BY DEF IInv, vars, plugin, daemon, ghost, TypeOK, Unasked, CalledOnce, WaitingIsCalled, GoneHasNone,
     HasResult, EventsAreDue, InHandOnce, DoneIsOnItsWay, Done

\* The first state.
LEMMA InitInv ==
  Init => IInv
<1> SUFFICES ASSUME Init PROVE IInv
  OBVIOUS
<1> USE DuAssumption DEF Init
<1>1. Range(<<>>) = {} /\ Distinct(<<>>) /\ <<>> \in Seq(Requests)
  BY EmptyQueue
<1>2. TypeOK
  BY <1>1 DEF TypeOK
<1>3. Unasked /\ CalledOnce /\ WaitingIsCalled /\ GoneHasNone /\ HasResult
  BY <1>1 DEF Unasked, CalledOnce, WaitingIsCalled, GoneHasNone, HasResult
<1>4. EventsAreDue /\ InHandOnce /\ DoneIsOnItsWay
  BY <1>1 DEF EventsAreDue, InHandOnce, DoneIsOnItsWay, Done
<1> QED  BY <1>2, <1>3, <1>4 DEF IInv

\* Every step preserves the invariant.
LEMMA NextInv ==
  IInv /\ [Next]_vars => IInv'
<1> SUFFICES ASSUME IInv, [Next]_vars PROVE IInv'
  OBVIOUS
<1>1. CASE UNCHANGED vars
  BY <1>1, StutterStep
<1>2. CASE \E r \in Requests : DoChangeDUState(r) \/ SmmDone(r) \/ Acknowledged(r)
  BY <1>2, DoChangeDUStateStep, SmmDoneStep, AcknowledgedStep
<1>3. CASE ChangeDUState \/ CallTimeout
  BY <1>3, ChangeDUStateStep, CallTimeoutStep
<1>4. CASE SmmAppears \/ smm_available_cb \/ op_handle_results \/ dscc_op_done
  BY <1>4, SmmStep, ResultsStep, OpDoneStep
<1>5. CASE Reports
  BY <1>5, StartStep, SubscribeStep, NotificationStep, TimerStep DEF Reports
<1>6. CASE CwmpdEnds \/ PluginRestarts
  BY <1>6, CwmpdEndsStep, PluginRestartsStep
<1> QED  BY <1>1, <1>2, <1>3, <1>4, <1>5, <1>6 DEF Next

-----------------------------------------------------------------------------
(***************************************************************************)
(* The theorems about the states.                                          *)
(***************************************************************************)

\* In every behaviour a request, its call, its instance and its report fit
\* together as IInv says, whatever calls fail and whichever process ends.
THEOREM Invariance == Spec => []IInv
  BY InitInv, NextInv, PTL DEF Spec

\* The variables of plugin and cwmpd keep their types.
THEOREM TypeCorrect == Spec => []TypeOK
<1>1. IInv => TypeOK
  BY DEF IInv
<1> QED  BY <1>1, Invariance, PTL

\* DM_AmxChangeDUState_init and the notification together leave no Done
\* instance out, but for the calls that fail and the gap between them.
THEOREM DoneOnItsWay == Spec => []DoneIsOnItsWay
<1>1. IInv => DoneIsOnItsWay
  BY DEF IInv
<1> QED  BY <1>1, Invariance, PTL

\* handle_dustatechangecomplete never meets an instance without a result, nor
\* one that was deleted.
THEOREM ReportsHaveResult == Spec => []ReportHasResult
<1>1. IInv => ReportHasResult
  BY DEF IInv, InHandOnce, HasResult, ReportHasResult, Done
<1> QED  BY <1>1, Invariance, PTL

-----------------------------------------------------------------------------
(***************************************************************************)
(* The refinement of DuChange.                                             *)
(***************************************************************************)

\* How far a request is, case by case, before and after a step.
LEMMA PhaseOf ==
  ASSUME NEW r \in Requests
  PROVE  /\ gone[r] # "no" => phase[r] = gone[r]
         /\ gone[r] = "no" /\ dscc[r] = NULL => phase[r] = "none"
         /\ gone[r] = "no" /\ dscc[r] # NULL /\ dscc[r].Status = "Done" => phase[r] = "done"
         /\ gone[r] = "no" /\ dscc[r] # NULL /\ dscc[r].Status # "Done" => phase[r] = "running"
  BY DEF phase, Done

LEMMA PhaseNext ==
  ASSUME NEW r \in Requests
  PROVE  /\ gone'[r] # "no" => phase'[r] = gone'[r]
         /\ gone'[r] = "no" /\ dscc'[r] = NULL => phase'[r] = "none"
         /\ gone'[r] = "no" /\ dscc'[r] # NULL /\ dscc'[r].Status = "Done" => phase'[r] = "done"
         /\ gone'[r] = "no" /\ dscc'[r] # NULL /\ dscc'[r].Status # "Done" => phase'[r] = "running"
  BY DEF phase, Done

\* A step that keeps instance and end of a request, or of all, keeps its phase.
LEMMA PhaseKept ==
  /\ UNCHANGED <<dscc, gone>> => phase' = phase
  /\ \A q \in Requests : dscc'[q] = dscc[q] /\ gone'[q] = gone[q] => phase'[q] = phase[q]
<1>1. UNCHANGED <<dscc, gone>> => phase' = phase
  BY DEF phase, Done
<1>2. ASSUME NEW q \in Requests, dscc'[q] = dscc[q], gone'[q] = gone[q]
      PROVE  phase'[q] = phase[q]
  BY <1>2 DEF phase, Done
<1> QED  BY <1>1, <1>2

\* A step that changes the phase of one request.
LEMMA PhaseExcept ==
  ASSUME NEW r \in Requests, NEW v, phase'[r] = v,
         \A q \in Requests \ {r} : phase'[q] = phase[q]
  PROVE  phase' = [phase EXCEPT ![r] = v]
<1>1. phase = [q \in Requests |-> phase[q]] /\ phase' = [q \in Requests |-> phase'[q]]
  BY DEF phase
<1> QED  BY <1>1

\* The request: cwmpd refuses it itself, or gives up waiting.
LEMMA RequestRefines ==
  ASSUME IInv, (\E r \in Requests : DoChangeDUState(r)) \/ CallTimeout
  PROVE  [Promise!Next]_<<phase, told>>
<1>1. CASE CallTimeout
  <2>1. waiting \in Requests /\ waiting \in Range(calls) /\ told[waiting] = "none"
    BY <1>1, DuAssumption DEF CallTimeout, IInv, TypeOK, WaitingIsCalled
  <2>2. gone[waiting] = "no" /\ dscc[waiting] = NULL
    BY <2>1 DEF IInv, CalledOnce
  <2>3. Promise!Refuse(waiting)
    BY <1>1, <2>1, <2>2, PhaseOf, PhaseKept DEF Promise!Refuse, CallTimeout, plugin
  <2> QED  BY <2>1, <2>3 DEF Promise!Next
<1>2. ASSUME NEW r \in Requests, DoChangeDUState(r)
      PROVE  [Promise!Next]_<<phase, told>>
  <2>1. phase' = phase
    BY <1>2, PhaseKept DEF DoChangeDUState
  <2>2. told[r] = "none" /\ phase[r] = "none"
    BY <1>2, PhaseOf DEF DoChangeDUState, IInv, Unasked
  <2>3. Promise!Refuse(r) \/ told' = told
    BY <1>2, <2>1, <2>2 DEF DoChangeDUState, Promise!Refuse
  <2> QED  BY <2>1, <2>3 DEF Promise!Next
<1> QED  BY <1>1, <1>2

\* The answer of the plugin.
LEMMA AnswerRefines ==
  ASSUME IInv, ChangeDUState
  PROVE  [Promise!Next]_<<phase, told>>
<1> DEFINE h == Head(calls)
           new == [Status |-> "", Op |-> "In Progress", Results |-> 0]
<1>1. h \in Requests /\ h \in Range(calls)
  <2>1. calls \in Seq(Requests) /\ calls # <<>>
    BY DEF IInv, TypeOK, ChangeDUState
  <2> QED  BY <2>1, Taken
<1>2. dscc[h] = NULL /\ gone[h] = "no" /\ phase[h] = "none"
  BY <1>1, PhaseOf DEF IInv, CalledOnce
<1>3. new # NULL /\ new.Status = ""
  BY NewRecord
<1>4. PICK outcome \in {"refused", "accepted", "orphan"} :
        /\ Reply(h, IF outcome = "accepted" THEN "ok" ELSE "fault")
        /\ dscc' = IF outcome = "accepted" THEN [dscc EXCEPT ![h] = new] ELSE dscc
        /\ gone' = IF outcome = "orphan" THEN [gone EXCEPT ![h] = "lost"] ELSE gone
  BY DEF ChangeDUState
<1>5. told' = told \/ (/\ told[h] = "none"
                       /\ told' = [told EXCEPT ![h] = IF outcome = "accepted" THEN "ok" ELSE "fault"])
  BY <1>1, <1>4, DuAssumption DEF Reply, IInv, WaitingIsCalled
<1>6. /\ \A q \in Requests \ {h} : dscc'[q] = dscc[q] /\ gone'[q] = gone[q]
      /\ dscc'[h] = IF outcome = "accepted" THEN new ELSE NULL
      /\ gone'[h] = IF outcome = "orphan" THEN "lost" ELSE "no"
  BY <1>1, <1>2, <1>4 DEF IInv, TypeOK
<1>7. \A q \in Requests \ {h} : phase'[q] = phase[q]
  BY <1>6, PhaseKept
<1> HIDE DEF h, new
<1>8. CASE outcome = "refused"
  <2>1. phase' = phase
    BY <1>4, <1>8, PhaseKept
  <2>2. Promise!Refuse(h) \/ told' = told
    BY <1>2, <1>5, <1>8, <2>1 DEF Promise!Refuse
  <2> QED  BY <1>1, <2>1, <2>2 DEF Promise!Next
<1>9. CASE outcome = "accepted"
  <2>1. phase'[h] = "running"
    BY <1>1, <1>3, <1>6, <1>9, PhaseNext
  <2>2. phase' = [phase EXCEPT ![h] = "running"]
    BY <1>1, <1>7, <2>1, PhaseExcept
  <2>3. Promise!Begin(h)
    BY <1>2, <1>5, <1>9, <2>2 DEF Promise!Begin, Promise!Answered
  <2> QED  BY <1>1, <2>3 DEF Promise!Next
<1>10. CASE outcome = "orphan"
  <2>1. phase'[h] = "lost"
    BY <1>1, <1>6, <1>10, PhaseNext
  <2>2. phase' = [phase EXCEPT ![h] = "lost"]
    BY <1>1, <1>7, <2>1, PhaseExcept
  <2>3. Promise!Orphan(h)
    BY <1>2, <1>5, <1>10, <2>2 DEF Promise!Orphan, Promise!Answered
  <2> QED  BY <1>1, <2>3 DEF Promise!Next
<1> QED  BY <1>8, <1>9, <1>10

\* The result of an operation: it is added, or its operation is Done, and the
\* instance runs on.
LEMMA ResultsRefine ==
  ASSUME IInv, op_handle_results
  PROVE  [Promise!Next]_<<phase, told>>
<1> DEFINE h == Head(results)
           d == [dscc[h] EXCEPT !.Results = @ + 1]
           e == [d EXCEPT !.Op = "Done"]
<1>1. h \in Requests /\ told' = told /\ gone' = gone
  BY Taken DEF IInv, TypeOK, op_handle_results, ghost
<1>2. CASE ~InProgress(h)
  <2>1. UNCHANGED <<dscc, gone>>
    BY <1>1, <1>2 DEF op_handle_results
  <2> QED  BY <1>1, <2>1, PhaseKept
<1>3. CASE InProgress(h)
  <2>1. dscc[h] \in Records /\ dscc[h] # NULL /\ dscc[h].Status # "Done"
    BY <1>1, <1>3 DEF IInv, TypeOK, HasResult, InProgress
  <2>2. gone[h] = "no" /\ phase[h] = "running"
    BY <1>1, <2>1, PhaseOf DEF IInv, GoneHasNone
  <2>3. d \in Records /\ d.Status = dscc[h].Status
    BY <2>1, ResultAdded
  <2>4. e \in Records /\ e.Status = dscc[h].Status
    <3> HIDE DEF d
    <3> QED  BY <2>3, OpDone
  <2>5. \E v \in {dscc[h], d, e} : dscc' = [dscc EXCEPT ![h] = v]
    BY <1>3 DEF op_handle_results
  <2> HIDE DEF d, e, h
  <2>6. /\ dscc'[h] \in Records /\ dscc'[h].Status # "Done"
        /\ \A q \in Requests \ {h} : dscc'[q] = dscc[q]
    BY <1>1, <2>1, <2>3, <2>4, <2>5 DEF IInv, TypeOK
  <2>7. phase'[h] = "running"
    BY <1>1, <2>2, <2>6, PhaseNext, DuAssumption
  <2>8. \A q \in Requests \ {h} : phase'[q] = phase[q]
    BY <1>1, <2>6, PhaseKept
  <2>9. phase' = [phase EXCEPT ![h] = "running"]
    BY <1>1, <2>7, <2>8, PhaseExcept
  <2>10. phase = [q \in Requests |-> phase[q]]
    BY DEF phase
  <2>11. phase' = phase
    BY <1>1, <2>2, <2>9, <2>10
  <2> QED  BY <1>1, <2>11
<1> QED  BY <1>2, <1>3

\* The instance becomes Done.
LEMMA DoneRefines ==
  ASSUME IInv, dscc_op_done
  PROVE  [Promise!Next]_<<phase, told>>
<1> DEFINE h == Head(events)
           e == [dscc[h] EXCEPT !.Status = "Done"]
<1>1. h \in Requests /\ h \in Range(events) /\ told' = told /\ gone' = gone
  BY Taken DEF IInv, TypeOK, dscc_op_done
<1>2. dscc[h] # NULL /\ dscc[h].Status = "" /\ dscc[h] \in Records
  BY <1>1 DEF IInv, EventsAreDue, TypeOK
<1>3. gone[h] = "no" /\ phase[h] = "running"
  BY <1>1, <1>2, PhaseOf DEF IInv, GoneHasNone
<1>4. CASE dscc' = dscc
  BY <1>1, <1>4, PhaseKept
<1>5. CASE dscc' = [dscc EXCEPT ![h].Status = "Done"]
  <2>1. e \in Records /\ e.Status = "Done"
    BY <1>2, StatusDone
  <2>2. dscc' = [dscc EXCEPT ![h] = e]
    BY <1>1, <1>5 DEF IInv, TypeOK
  <2> HIDE DEF e, h
  <2>3. /\ dscc'[h] = e
        /\ \A q \in Requests \ {h} : dscc'[q] = dscc[q]
    BY <1>1, <2>2 DEF IInv, TypeOK
  <2>4. phase'[h] = "done"
    BY <1>1, <1>3, <2>1, <2>3, PhaseNext, DuAssumption
  <2>5. \A q \in Requests \ {h} : phase'[q] = phase[q]
    BY <1>1, <2>3, PhaseKept
  <2>6. phase' = [phase EXCEPT ![h] = "done"]
    BY <1>1, <2>4, <2>5, PhaseExcept
  <2>7. Promise!Finish(h)
    BY <1>1, <1>3, <2>6 DEF Promise!Finish
  <2> QED  BY <1>1, <2>7 DEF Promise!Next
<1> QED  BY <1>4, <1>5 DEF dscc_op_done

\* The ACS acknowledges.
LEMMA AcknowledgedRefines ==
  ASSUME IInv, NEW r \in Requests, Acknowledged(r)
  PROVE  [Promise!Next]_<<phase, told>>
<1>1. told' = told /\ r \in Done
  BY DEF Acknowledged, IInv, InHandOnce
<1>2. phase[r] = "done"
  BY <1>1, PhaseOf DEF IInv, GoneHasNone, Done
<1>3. CASE UNCHANGED <<dscc, gone>>
  BY <1>1, <1>3, PhaseKept
<1>4. CASE dscc' = [dscc EXCEPT ![r] = NULL] /\ gone' = [gone EXCEPT ![r] = "acknowledged"]
  <2>1. /\ gone'[r] = "acknowledged"
        /\ \A q \in Requests \ {r} : dscc'[q] = dscc[q] /\ gone'[q] = gone[q]
    BY <1>4 DEF IInv, TypeOK
  <2>2. phase'[r] = "acknowledged"
    BY <2>1, PhaseNext
  <2>3. \A q \in Requests \ {r} : phase'[q] = phase[q]
    BY <2>1, PhaseKept
  <2>4. phase' = [phase EXCEPT ![r] = "acknowledged"]
    BY <2>2, <2>3, PhaseExcept
  <2>5. Promise!Acknowledge(r)
    BY <1>1, <1>2, <2>4 DEF Promise!Acknowledge
  <2> QED  BY <2>5 DEF Promise!Next
<1> QED  BY <1>3, <1>4 DEF Acknowledged

\* The plugin loses its instances.
LEMMA RestartRefines ==
  ASSUME IInv, PluginRestarts
  PROVE  [Promise!Next]_<<phase, told>>
<1>1. ASSUME NEW q \in Requests
      PROVE  phase'[q] = IF phase[q] \in {"running", "done"} THEN "lost" ELSE phase[q]
  <2>1. dscc'[q] = NULL /\ gone'[q] = IF dscc[q] # NULL THEN "lost" ELSE gone[q]
    BY DEF PluginRestarts
  <2>2. gone[q] \in {"no", "acknowledged", "lost"} /\ (dscc[q] # NULL => gone[q] = "no")
    BY DEF IInv, TypeOK, GoneHasNone
  <2>3. CASE dscc[q] # NULL
    <3>1. phase[q] \in {"running", "done"}
      BY <2>2, <2>3, PhaseOf
    <3>2. phase'[q] = "lost"
      BY <2>1, <2>3, PhaseNext
    <3> QED  BY <3>1, <3>2
  <2>4. CASE dscc[q] = NULL
    <3>1. phase[q] = IF gone[q] = "no" THEN "none" ELSE gone[q]
      BY <2>4, PhaseOf
    <3>2. phase'[q] = IF gone[q] = "no" THEN "none" ELSE gone[q]
      BY <2>1, <2>4, PhaseNext
    <3> QED  BY <2>2, <3>1, <3>2
  <2> QED  BY <2>3, <2>4
<1>2. phase' = [q \in Requests |-> phase'[q]]
  BY DEF phase
<1>3. Promise!Lose
  BY <1>1, <1>2 DEF Promise!Lose, PluginRestarts
<1> QED  BY <1>3 DEF Promise!Next

\* The other steps change neither an instance, nor the end of a request, nor
\* what the ACS was told.
LEMMA OthersRefine ==
  ASSUME \/ UNCHANGED vars \/ SmmAppears \/ smm_available_cb \/ Reports \/ CwmpdEnds
         \/ \E r \in Requests : SmmDone(r)
  PROVE  UNCHANGED <<phase, told>>
<1>1. UNCHANGED <<dscc, gone, told>>
  BY DEF vars, SmmAppears, smm_available_cb, SmmDone, Reports, Start, Subscribe, Notification, Timer,
     CwmpdEnds, plugin, ghost
<1> QED  BY <1>1, PhaseKept

\* Every behaviour of plugin, cwmpd and SMM is, for the ACS, one of DuChange:
\* a request answered "ok" is under way, a done one is reported before it is
\* forgotten, and only a fault loses one.
THEOREM ImplementsPromise == Spec => Implements
<1>1. Init => Promise!Init
  <2> SUFFICES ASSUME Init PROVE Promise!Init
    OBVIOUS
  <2>1. \A q \in Requests : phase[q] = "none"
    BY PhaseOf DEF Init
  <2>2. phase = [q \in Requests |-> phase[q]]
    BY DEF phase
  <2> QED  BY <2>1, <2>2 DEF Init, Promise!Init
<1>2. IInv /\ [Next]_vars => [Promise!Next]_<<phase, told>>
  <2> SUFFICES ASSUME IInv, [Next]_vars PROVE [Promise!Next]_<<phase, told>>
    OBVIOUS
  <2>1. CASE (\E r \in Requests : DoChangeDUState(r)) \/ CallTimeout
    BY <2>1, RequestRefines
  <2>2. CASE ChangeDUState
    BY <2>2, AnswerRefines
  <2>3. CASE op_handle_results \/ dscc_op_done
    BY <2>3, ResultsRefine, DoneRefines
  <2>4. CASE \E r \in Requests : Acknowledged(r)
    BY <2>4, AcknowledgedRefines
  <2>5. CASE PluginRestarts
    BY <2>5, RestartRefines
  <2>6. CASE \/ UNCHANGED vars \/ SmmAppears \/ smm_available_cb \/ Reports \/ CwmpdEnds
             \/ \E r \in Requests : SmmDone(r)
    <3>1. UNCHANGED <<phase, told>>
      BY <2>6, OthersRefine
    <3> QED  BY <3>1
  <2> QED  BY <2>1, <2>2, <2>3, <2>4, <2>5, <2>6 DEF Next
<1> QED  BY <1>1, <1>2, Invariance, PTL DEF Spec, Implements, Promise!Spec, Promise!vars

=============================================================================
