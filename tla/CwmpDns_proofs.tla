--------------------------- MODULE CwmpDns_proofs ---------------------------
(***************************************************************************)
(* Proofs of the safety properties of CwmpDns, for any set of hosts, any   *)
(* number of resolvers, URL changes and faults.                            *)
(***************************************************************************)
EXTENDS CwmpDns, TLAPS

\* Every resolver is watched: a pending query by its timeout timer or its
\* clean timer, a finished one by its clean timer.
Watched(l) ==
    \A r \in ResolverIds : l[r] # NoResolver =>
        /\ l[r].query => l[r].timeout = "run" \/ l[r].clean
        /\ ~l[r].query => l[r].clean

\* The queries of the list l whose result will be used.
LiveIn(l) == {r \in ResolverIds : l[r] # NoResolver /\ l[r].query /\ ~l[r].dirty}

\* At most one of them, for the host h.
OneLive(l, h) ==
    /\ \A r, s \in LiveIn(l) : r = s
    /\ \A r \in LiveIn(l) : l[r].host = h

\* Without failed bus reads the last lookup is for the current URL.
TargetIsUrl ==
    phase = "up" /\ urlEvents = 0 /\ faults = 0 => target = url

Lists == [ResolverIds -> resolver_t \cup {NoResolver}]
Owing(b) == IF b THEN 1 ELSE 0

\* The inductive invariant.
IInv ==
    /\ TypeOK
    /\ Watched(resolver_list)
    /\ OneLive(resolver_list, target)
    /\ ResolutionAlive
    /\ TargetIsUrl
    /\ NoSpuriousBootstrap

\* What cwmp_dns_resolve(uc) leaves behind, whichever way it ends.
ResolvePost(uc) ==
    /\ resolver_list' \in Lists
    /\ Watched(resolver_list')
    /\ OneLive(resolver_list', target')
    /\ url \in Names => dns_ttl_timer' \/ LiveIn(resolver_list') # {}
    /\ target' = url \/ (faults' > faults /\ target' = target)
    /\ bootstraps' + Owing(send_bootstrap') <= bootstraps + Owing(send_bootstrap \/ uc)
    /\ ACSIPLIST' # ACSIPLIST => ACSIPLIST' \in {NoHost, target'}
    /\ ACSIPLIST' \in Hosts \cup {NoHost}
    /\ send_bootstrap' \in BOOLEAN
    /\ dns_ttl_timer' \in BOOLEAN
    /\ owed' \in BOOLEAN
    /\ bootstraps' \in Nat
    /\ faults' \in Nat
    /\ faults' >= faults

-----------------------------------------------------------------------------
\* The two ways of saying "live" agree.
LEMMA LiveIsLiveIn == Live = LiveIn(resolver_list)
  BY DEF Live, LiveIn, Used

\* mark_resolvers_as_dirty keeps the list, its watchers, and no live query.
LEMMA DirtyFacts ==
  ASSUME resolver_list \in Lists, Watched(resolver_list)
  PROVE  /\ mark_resolvers_as_dirty \in Lists
         /\ Watched(mark_resolvers_as_dirty)
         /\ LiveIn(mark_resolvers_as_dirty) = {}
         /\ \A r \in ResolverIds \ Used : mark_resolvers_as_dirty[r] = NoResolver
<1> DEFINE m == mark_resolvers_as_dirty
<1>1. \A r \in ResolverIds :
        IF resolver_list[r] # NoResolver
        THEN /\ m[r] \in resolver_t
             /\ m[r].dirty = TRUE
             /\ m[r].query = resolver_list[r].query
             /\ m[r].timeout = resolver_list[r].timeout
             /\ m[r].clean = resolver_list[r].clean
        ELSE m[r] = NoResolver
  BY DEF mark_resolvers_as_dirty, Used, Lists, resolver_t
<1>2. m \in Lists
  BY <1>1 DEF mark_resolvers_as_dirty, Lists
<1>3. Watched(m)
  BY <1>1 DEF Watched
<1>4. LiveIn(m) = {}
  BY <1>1 DEF LiveIn
<1> QED  BY <1>1, <1>2, <1>3, <1>4 DEF Used

\* Putting a watched resolver for the host h in a free slot of the dirty list.
LEMMA AddResolver ==
  ASSUME resolver_list \in Lists, Watched(resolver_list),
         NEW r \in ResolverIds, NEW new \in resolver_t, NEW h,
         new.host = h,
         new.query => new.timeout = "run" \/ new.clean,
         ~new.query => new.clean,
         NEW l, l = [mark_resolvers_as_dirty EXCEPT ![r] = new]
  PROVE  /\ l \in Lists
         /\ Watched(l)
         /\ OneLive(l, h)
         /\ new.query /\ ~new.dirty => LiveIn(l) # {}
<1> DEFINE m == mark_resolvers_as_dirty
<1>1. /\ m \in Lists
      /\ Watched(m)
      /\ LiveIn(m) = {}
  BY DirtyFacts
<1> HIDE DEF m
<1>2. l \in Lists /\ l[r] = new /\ \A s \in ResolverIds : s # r => l[s] = m[s]
  BY <1>1 DEF Lists, m
<1>3. new # NoResolver
  BY NoResolverAssumption
<1>4. Watched(l)
  BY <1>1, <1>2 DEF Watched
<1>5. \A s \in ResolverIds : s # r => s \notin LiveIn(l)
  BY <1>1, <1>2 DEF LiveIn
<1>6. OneLive(l, h)
  BY <1>2, <1>5 DEF OneLive, LiveIn
<1>7. new.query /\ ~new.dirty => r \in LiveIn(l)
  BY <1>2, <1>3 DEF LiveIn
<1> QED  BY <1>2, <1>4, <1>6, <1>7

\* Completed ends a query and leaves the resolver to its clean timer.
LEMMA CompletedFacts ==
  ASSUME NEW res \in resolver_t
  PROVE  /\ Completed(res) \in resolver_t
         /\ Completed(res).host = res.host
         /\ Completed(res).query = FALSE
         /\ Completed(res).clean = TRUE
         /\ Completed(res).dirty = res.dirty
  BY DEF Completed, resolver_t

-----------------------------------------------------------------------------
\* The values the data model can hold after a write.
LEMMA WrittenFacts ==
  ASSUME NEW old, NEW new
  PROVE  Written(old, new) \subseteq {old, new}
  BY DEF Written

\* Keeping the flag owes no more than before.
LEMMA FlagKept ==
  ASSUME NEW uc \in BOOLEAN, send_bootstrap \in BOOLEAN, bootstraps \in Nat,
         send_bootstrap' = (send_bootstrap \/ uc), bootstraps' = bootstraps
  PROVE  /\ send_bootstrap' \in BOOLEAN
         /\ bootstraps' + Owing(send_bootstrap')
              <= bootstraps + Owing(send_bootstrap \/ uc)
         /\ bootstraps' \in Nat
<1>1. send_bootstrap' \in BOOLEAN
  BY Zenon
<1>2. Owing(send_bootstrap') = Owing(send_bootstrap \/ uc)
  BY Zenon
<1>3. Owing(send_bootstrap \/ uc) \in Nat
  BY DEF Owing
<1> QED  BY <1>1, <1>2, <1>3

\* Bootstrap settles the flag and counts what it sends.
LEMMA BootstrapFacts ==
  ASSUME NEW sb \in BOOLEAN, NEW ev, Bootstrap(sb, ev),
         bootstraps \in Nat, owed \in BOOLEAN
  PROVE  /\ send_bootstrap' = FALSE
         /\ bootstraps' = bootstraps + Owing(sb)
         /\ bootstraps' \in Nat
         /\ owed' \in BOOLEAN
  BY DEF Bootstrap, Owing

\* cwmp_dns_resolve, error exits.
LEMMA ResolveKo ==
  ASSUME TypeOK, Watched(resolver_list), OneLive(resolver_list, target),
         NEW uc \in BOOLEAN, NEW ev, cwmp_dns_resolve_ko(uc, ev)
  PROVE  ResolvePost(uc)
<1> USE DEF TypeOK, Lists
<1>1. dns_ttl_timer' = TRUE /\ owed' = owed /\ bootstraps' = bootstraps
  BY DEF cwmp_dns_resolve_ko
<1>2. CASE /\ faults < MaxFaults
           /\ faults' = faults + 1
           /\ UNCHANGED <<ACSIPLIST, send_bootstrap, resolver_list, target>>
  BY <1>1, <1>2, DnsAssumption DEF ResolvePost, Owing
<1>3. CASE /\ url \in Names
           /\ \/ Used = ResolverIds /\ UNCHANGED faults
              \/ faults < MaxFaults /\ faults' = faults + 1
           /\ ACSIPLIST' \in (IF uc THEN Written(ACSIPLIST, NoHost)
                                   ELSE {ACSIPLIST})
           /\ send_bootstrap' = (send_bootstrap \/ uc)
           /\ resolver_list' = mark_resolvers_as_dirty
           /\ target' = url
  <2>1. /\ resolver_list' \in Lists
        /\ Watched(resolver_list')
        /\ LiveIn(resolver_list') = {}
    BY <1>3, DirtyFacts
  <2>2. OneLive(resolver_list', target')
    BY <2>1 DEF OneLive
  <2>3. ACSIPLIST' \in {ACSIPLIST, NoHost}
    BY <1>3, WrittenFacts
  <2>4. faults' \in Nat /\ faults' >= faults
    BY <1>3
  <2>5. /\ send_bootstrap' \in BOOLEAN
        /\ bootstraps' + Owing(send_bootstrap')
             <= bootstraps + Owing(send_bootstrap \/ uc)
        /\ bootstraps' \in Nat
    BY <1>1, <1>3, FlagKept
  <2>6. target' = url
    BY <1>3
  <2> QED  BY <1>1, <2>1, <2>2, <2>3, <2>4, <2>5, <2>6 DEF ResolvePost
<1> QED  BY <1>2, <1>3 DEF cwmp_dns_resolve_ko

\* cwmp_dns_resolve, a host that needs no lookup.
LEMMA ResolveWithoutLookup ==
  ASSUME TypeOK, Watched(resolver_list), NEW uc \in BOOLEAN, NEW ev, NEW list,
         list = ACSIPLIST \/ list = NoHost,
         target' = url, UNCHANGED faults,
         resolve_without_lookup(list, send_bootstrap \/ uc, ev)
  PROVE  ResolvePost(uc)
<1> USE DEF TypeOK
<1>1. /\ url \notin Names
      /\ resolver_list' = mark_resolvers_as_dirty
      /\ dns_ttl_timer' = FALSE
  BY DEF resolve_without_lookup
<1>2. /\ resolver_list' \in Lists
      /\ Watched(resolver_list')
      /\ LiveIn(resolver_list') = {}
  BY <1>1, DirtyFacts DEF Lists
<1>3. OneLive(resolver_list', target')
  BY <1>2 DEF OneLive
<1>4. CASE url = EmptyHost
  <2>1. /\ ACSIPLIST' = list
        /\ send_bootstrap' = (send_bootstrap \/ uc)
        /\ UNCHANGED <<owed, bootstraps>>
    BY <1>4 DEF resolve_without_lookup
  <2>2. /\ send_bootstrap' \in BOOLEAN
        /\ bootstraps' + Owing(send_bootstrap')
             <= bootstraps + Owing(send_bootstrap \/ uc)
        /\ bootstraps' \in Nat
    BY <2>1, FlagKept
  <2>3. ACSIPLIST' = list /\ owed' = owed
    BY <2>1
  <2>4. faults' \in Nat /\ faults' >= faults
    OBVIOUS
  <2>5. ACSIPLIST' \in Hosts \cup {NoHost}
    BY <2>3
  <2> QED  BY <1>1, <1>2, <1>3, <2>2, <2>3, <2>4, <2>5, Zenon DEF ResolvePost
<1>5. CASE url # EmptyHost
  <2>1. /\ ACSIPLIST' \in Written(list, url)
        /\ Bootstrap(send_bootstrap \/ uc, ev)
    BY <1>5 DEF resolve_without_lookup
  <2>2. ACSIPLIST' \in {list, url}
    BY <2>1, WrittenFacts
  <2>3. /\ send_bootstrap' = FALSE
        /\ bootstraps' = bootstraps + Owing(send_bootstrap \/ uc)
        /\ bootstraps' \in Nat
        /\ owed' \in BOOLEAN
    BY <2>1, BootstrapFacts
  <2>4. bootstraps' + Owing(send_bootstrap')
          <= bootstraps + Owing(send_bootstrap \/ uc)
    BY <2>3 DEF Owing
  <2>5. faults' \in Nat /\ faults' >= faults
    OBVIOUS
  <2>6. ACSIPLIST' \in Hosts \cup {NoHost}
    BY <2>2
  <2>7. ACSIPLIST' # ACSIPLIST => ACSIPLIST' \in {NoHost, target'}
    BY <2>2
  <2> QED  BY <1>1, <1>2, <1>3, <2>3, <2>4, <2>5, <2>6, <2>7, Zenon DEF ResolvePost
<1> QED  BY <1>4, <1>5

\* cwmp_dns_resolve, a host that is looked up.
LEMMA ResolveWithLookup ==
  ASSUME TypeOK, Watched(resolver_list), NEW uc \in BOOLEAN, NEW ev, NEW list,
         list = ACSIPLIST \/ list = NoHost,
         target' = url, UNCHANGED faults, url \in Names,
         cwmp_dns_ares_resolution(list, send_bootstrap \/ uc, ev)
  PROVE  ResolvePost(uc)
<1> USE DEF TypeOK
<1> DEFINE new == NewResolver(url)
<1>1. /\ new \in resolver_t
      /\ new.host = url
      /\ new.query = TRUE
      /\ new.dirty = FALSE
      /\ new.timeout = "run"
      /\ [new EXCEPT !.timeout = "none"] \in resolver_t
      /\ [new EXCEPT !.timeout = "none"].host = url
  BY DEF NewResolver, resolver_t
<1> HIDE DEF new
<1>2. PICK r \in ResolverIds \ Used :
        \/ /\ resolver_list' = [mark_resolvers_as_dirty EXCEPT ![r] = new]
           /\ dns_ttl_timer' = FALSE
           /\ ACSIPLIST' = list
           /\ send_bootstrap' = (send_bootstrap \/ uc)
           /\ UNCHANGED <<owed, bootstraps>>
        \/ \E ok \in BOOLEAN :
           /\ resolver_list' = [mark_resolvers_as_dirty EXCEPT ![r] =
                                  Completed([new EXCEPT !.timeout = "none"])]
           /\ resolve_cb_clean(url, ok, list, send_bootstrap \/ uc, ev)
  BY DEF cwmp_dns_ares_resolution, new
<1>3. CASE /\ resolver_list' = [mark_resolvers_as_dirty EXCEPT ![r] = new]
           /\ dns_ttl_timer' = FALSE
           /\ ACSIPLIST' = list
           /\ send_bootstrap' = (send_bootstrap \/ uc)
           /\ UNCHANGED <<owed, bootstraps>>
  <2>1. /\ resolver_list' \in Lists
        /\ Watched(resolver_list')
        /\ OneLive(resolver_list', url)
        /\ LiveIn(resolver_list') # {}
    BY <1>1, <1>3, AddResolver DEF Lists
  <2>2. /\ send_bootstrap' \in BOOLEAN
        /\ bootstraps' + Owing(send_bootstrap')
             <= bootstraps + Owing(send_bootstrap \/ uc)
        /\ bootstraps' \in Nat
    BY <1>3, FlagKept
  <2>3. ACSIPLIST' = list /\ owed' = owed /\ dns_ttl_timer' = FALSE
    BY <1>3
  <2>4. faults' \in Nat /\ faults' >= faults
    OBVIOUS
  <2>5. ACSIPLIST' \in Hosts \cup {NoHost}
    BY <2>3
  <2> QED  BY <2>1, <2>2, <2>3, <2>4, <2>5, Zenon DEF ResolvePost
<1>4. ASSUME NEW ok \in BOOLEAN,
             resolver_list' = [mark_resolvers_as_dirty EXCEPT ![r] =
                                 Completed([new EXCEPT !.timeout = "none"])],
             resolve_cb_clean(url, ok, list, send_bootstrap \/ uc, ev)
      PROVE  ResolvePost(uc)
  <2> DEFINE done == Completed([new EXCEPT !.timeout = "none"])
  <2>1. /\ done \in resolver_t
        /\ done.host = url
        /\ done.query = FALSE
        /\ done.clean = TRUE
    BY <1>1, CompletedFacts
  <2>2. resolver_list' = [mark_resolvers_as_dirty EXCEPT ![r] = done]
    BY <1>4
  <2> HIDE DEF done
  <2>3. /\ resolver_list' \in Lists
        /\ Watched(resolver_list')
        /\ OneLive(resolver_list', url)
    BY <2>1, <2>2, AddResolver DEF Lists
  <2>4. /\ ACSIPLIST' \in {list, url}
        /\ dns_ttl_timer' = TRUE
        /\ Bootstrap(send_bootstrap \/ uc, ev)
    BY <1>4, WrittenFacts DEF resolve_cb_clean
  <2>5. /\ send_bootstrap' = FALSE
        /\ bootstraps' = bootstraps + Owing(send_bootstrap \/ uc)
        /\ bootstraps' \in Nat
        /\ owed' \in BOOLEAN
    BY <2>4, BootstrapFacts
  <2>6. bootstraps' + Owing(send_bootstrap')
          <= bootstraps + Owing(send_bootstrap \/ uc)
    BY <2>5 DEF Owing
  <2>7. faults' \in Nat /\ faults' >= faults
    OBVIOUS
  <2>8. ACSIPLIST' \in Hosts \cup {NoHost}
    BY <2>4
  <2>9. ACSIPLIST' # ACSIPLIST => ACSIPLIST' \in {NoHost, target'}
    BY <2>4
  <2> QED  BY <2>3, <2>4, <2>5, <2>6, <2>7, <2>8, <2>9, Zenon DEF ResolvePost
<1> QED  BY <1>2, <1>3, <1>4

\* cwmp_dns_resolve once the URL was read and a resolver could be created.
LEMMA ResolveOk ==
  ASSUME TypeOK, Watched(resolver_list), NEW uc \in BOOLEAN, NEW ev,
         cwmp_dns_resolve_ok(uc, ev)
  PROVE  ResolvePost(uc) /\ target' = url
<1>1. target' = url /\ UNCHANGED faults
  BY DEF cwmp_dns_resolve_ok
<1>2. PICK list \in (IF uc THEN Written(ACSIPLIST, NoHost) ELSE {ACSIPLIST}) :
        \/ resolve_without_lookup(list, send_bootstrap \/ uc, ev)
        \/ url \in Names /\ cwmp_dns_ares_resolution(list, send_bootstrap \/ uc, ev)
  BY DEF cwmp_dns_resolve_ok
<1>3. list = ACSIPLIST \/ list = NoHost
  BY <1>2, WrittenFacts
<1> QED  BY <1>1, <1>2, <1>3, ResolveWithoutLookup, ResolveWithLookup

\* cwmp_dns_resolve as a whole.
LEMMA Resolve ==
  ASSUME TypeOK, Watched(resolver_list), OneLive(resolver_list, target),
         NEW uc \in BOOLEAN, NEW ev, cwmp_dns_resolve(uc, ev)
  PROVE  ResolvePost(uc)
  BY ResolveOk, ResolveKo DEF cwmp_dns_resolve

-----------------------------------------------------------------------------
(***************************************************************************)
(* Every action preserves the invariant.                                   *)
(***************************************************************************)

\* The initial state.
LEMMA InitIInv == Init => IInv
<1> SUFFICES ASSUME Init PROVE IInv
  OBVIOUS
<1>1. TypeOK
  BY DEF Init, TypeOK
<1>2. Watched(resolver_list) /\ OneLive(resolver_list, target)
  BY DEF Init, Watched, OneLive, LiveIn
<1>3. ResolutionAlive /\ TargetIsUrl /\ NoSpuriousBootstrap
  BY DEF Init, ResolutionAlive, TargetIsUrl, NoSpuriousBootstrap
<1> QED  BY <1>1, <1>2, <1>3 DEF IInv

\* A callback of the running process that ends in cwmp_dns_resolve, and uses
\* up a URL notification when uc holds.
LEMMA ResolveKeepsIInv ==
  ASSUME IInv, NEW uc \in BOOLEAN, ResolvePost(uc),
         UNCHANGED <<url, changes>>, phase' \in {"up", "exit"},
         urlEvents' \in Nat, urlEvents' + Owing(uc) = urlEvents
  PROVE  IInv'
<1> USE DEF IInv
<1>1. target' \in Hosts \cup {NoHost}
  BY DEF ResolvePost, TypeOK
<1>2. TypeOK'
  BY <1>1 DEF TypeOK, ResolvePost, Lists
<1>3. Watched(resolver_list)' /\ OneLive(resolver_list, target)'
  BY DEF ResolvePost
<1>4. ResolutionAlive'
  BY LiveIsLiveIn DEF ResolutionAlive, ResolvePost, Live, LiveIn, Used
<1>5. TargetIsUrl'
  BY DEF TargetIsUrl, ResolvePost, TypeOK, Owing
<1>6. NoSpuriousBootstrap'
  <2>1. bootstraps + urlEvents + Owing(send_bootstrap) <= changes
    BY DEF NoSpuriousBootstrap, Owing
  <2>2. /\ Owing(send_bootstrap \/ uc) <= Owing(send_bootstrap) + Owing(uc)
        /\ Owing(send_bootstrap \/ uc) \in Nat
        /\ Owing(send_bootstrap) \in Nat
        /\ Owing(send_bootstrap') \in Nat
        /\ Owing(uc) \in Nat
    BY DEF Owing
  <2>3. bootstraps' + Owing(send_bootstrap')
          <= bootstraps + Owing(send_bootstrap \/ uc)
    BY DEF ResolvePost
  <2>4. bootstraps' \in Nat /\ bootstraps \in Nat /\ urlEvents \in Nat
          /\ changes \in Nat /\ changes' = changes
    BY DEF TypeOK, ResolvePost
  <2> HIDE DEF IInv
  <2>5. bootstraps' + urlEvents' + Owing(send_bootstrap') <= changes'
    BY <2>1, <2>2, <2>3, <2>4, SMT
  <2> QED  BY <2>5 DEF NoSpuriousBootstrap, Owing
<1> QED  BY <1>2, <1>3, <1>4, <1>5, <1>6

\* The variables resolve_cb_clean writes.
LEMMA CbCleanFacts ==
  ASSUME TypeOK, NEW ok \in BOOLEAN, NEW ev,
         resolve_cb_clean(target, ok, ACSIPLIST, send_bootstrap, ev)
  PROVE  /\ ACSIPLIST' \in {ACSIPLIST, target}
         /\ dns_ttl_timer' = TRUE
         /\ send_bootstrap' = FALSE
         /\ bootstraps' = bootstraps + Owing(send_bootstrap)
         /\ bootstraps' \in Nat
         /\ owed' \in BOOLEAN
  BY WrittenFacts, BootstrapFacts DEF resolve_cb_clean, TypeOK

\* A callback that ends or changes one resolver r, and runs the end of
\* cwmp_dns_resolve_cb exactly when a live query ends.
LEMMA ResolverStepKeepsIInv ==
  ASSUME IInv, phase = "up",
         UNCHANGED <<phase, url, urlEvents, target, changes, faults>>,
         resolver_list' \in Lists, Watched(resolver_list'),
         \A r \in LiveIn(resolver_list') :
            r \in LiveIn(resolver_list) /\ resolver_list'[r].host = resolver_list[r].host,
         \/ /\ LiveIn(resolver_list) \subseteq LiveIn(resolver_list')
            /\ UNCHANGED <<ACSIPLIST, dns_ttl_timer, send_bootstrap, bootstraps, owed>>
         \/ /\ ACSIPLIST' \in {ACSIPLIST, target}
            /\ dns_ttl_timer' = TRUE
            /\ send_bootstrap' = FALSE
            /\ bootstraps' = bootstraps + Owing(send_bootstrap)
            /\ bootstraps' \in Nat
            /\ owed' \in BOOLEAN
  PROVE  IInv'
<1> USE DEF IInv
<1>1. TypeOK'
  BY DEF TypeOK, Lists
<1>2. Watched(resolver_list)' /\ OneLive(resolver_list, target)'
  BY DEF OneLive
<1>3. ResolutionAlive'
  <2>1. phase = "up" /\ url \in Names /\ urlEvents = 0
           => dns_ttl_timer \/ LiveIn(resolver_list) # {}
    BY LiveIsLiveIn DEF ResolutionAlive
  <2>2. phase' = "up" /\ url' \in Names /\ urlEvents' = 0
           => dns_ttl_timer' \/ LiveIn(resolver_list') # {}
    BY <2>1
  <2> QED  BY <2>2 DEF ResolutionAlive, Live, LiveIn, Used
<1>4. TargetIsUrl'
  BY DEF TargetIsUrl
<1>5. NoSpuriousBootstrap'
  BY DEF NoSpuriousBootstrap, Owing, TypeOK
<1> QED  BY <1>1, <1>2, <1>3, <1>4, <1>5

\* cwmp_dns_resolve_cb.
LEMMA ResolveCbKeepsIInv ==
  ASSUME IInv, NEW r \in ResolverIds, NEW ok \in BOOLEAN, ResolveCb(r, ok)
  PROVE  IInv'
<1>1. /\ phase = "up"
      /\ resolver_list \in Lists
      /\ resolver_list[r] # NoResolver
      /\ resolver_list[r] \in resolver_t
      /\ resolver_list' = [resolver_list EXCEPT ![r] = Completed(resolver_list[r])]
      /\ UNCHANGED <<phase, url, urlEvents, target, changes, faults>>
  BY DEF ResolveCb, Used, IInv, TypeOK, Lists
<1> DEFINE done == Completed(resolver_list[r])
<1>2. done \in resolver_t /\ done.query = FALSE /\ done.clean = TRUE
  BY <1>1, CompletedFacts
<1>3. resolver_list' = [resolver_list EXCEPT ![r] = done]
  BY <1>1
<1> HIDE DEF done
<1>4. resolver_list' \in Lists /\ Watched(resolver_list')
  BY <1>1, <1>2, <1>3 DEF Lists, Watched, IInv
<1>5. \A s \in LiveIn(resolver_list') :
         s # r /\ s \in LiveIn(resolver_list) /\ resolver_list'[s] = resolver_list[s]
  BY <1>1, <1>2, <1>3 DEF LiveIn, Lists
<1>6. CASE resolver_list[r].dirty
  <2>1. UNCHANGED <<ACSIPLIST, dns_ttl_timer, send_bootstrap, bootstraps, owed>>
    BY <1>6 DEF ResolveCb
  <2>2. LiveIn(resolver_list) \subseteq LiveIn(resolver_list')
    BY <1>1, <1>3, <1>6 DEF LiveIn, Lists
  <2> QED  BY <1>1, <1>4, <1>5, <2>1, <2>2, ResolverStepKeepsIInv
<1>7. CASE ~resolver_list[r].dirty
  <2>1. r \in LiveIn(resolver_list)
    BY <1>1, <1>7 DEF LiveIn, ResolveCb
  <2>2. resolver_list[r].host = target
    BY <2>1 DEF IInv, OneLive
  <2>3. resolve_cb_clean(target, ok, ACSIPLIST, send_bootstrap, urlEvents)
    BY <1>7, <2>2 DEF ResolveCb
  <2> QED  BY <1>1, <1>4, <1>5, <2>3, CbCleanFacts, ResolverStepKeepsIInv DEF IInv
<1> QED  BY <1>6, <1>7

\* cwmp_dns_ares_sock_cb.
LEMMA SocketReopenedKeepsIInv ==
  ASSUME IInv, NEW r \in ResolverIds, SocketReopened(r)
  PROVE  IInv'
<1> DEFINE res == [resolver_list[r] EXCEPT !.timeout = "stop", !.clean = TRUE]
<1>1. /\ phase = "up"
      /\ resolver_list \in Lists
      /\ resolver_list[r] \in resolver_t
      /\ resolver_list[r] # NoResolver
      /\ UNCHANGED <<phase, url, urlEvents, target, changes, faults>>
      /\ UNCHANGED <<ACSIPLIST, dns_ttl_timer, send_bootstrap, bootstraps, owed>>
  BY DEF SocketReopened, Used, IInv, TypeOK, Lists
<1>2. /\ res \in resolver_t
      /\ res.host = resolver_list[r].host
      /\ res.query = resolver_list[r].query
      /\ res.dirty = resolver_list[r].dirty
      /\ res.clean = TRUE
  BY <1>1 DEF resolver_t
<1>3. resolver_list' = [resolver_list EXCEPT ![r] = res]
  BY <1>1 DEF SocketReopened, Lists, resolver_t
<1> HIDE DEF res
<1>4. resolver_list' \in Lists /\ Watched(resolver_list')
  BY <1>1, <1>2, <1>3 DEF Lists, Watched, IInv
<1>5. res # NoResolver
  BY <1>2, NoResolverAssumption
<1>6. \A s \in ResolverIds :
         /\ s \in LiveIn(resolver_list') <=> s \in LiveIn(resolver_list)
         /\ s \in LiveIn(resolver_list') =>
              resolver_list'[s].host = resolver_list[s].host
  BY <1>1, <1>2, <1>3, <1>5 DEF LiveIn, Lists
<1>7. /\ LiveIn(resolver_list) \subseteq LiveIn(resolver_list')
      /\ \A s \in LiveIn(resolver_list') :
            s \in LiveIn(resolver_list) /\ resolver_list'[s].host = resolver_list[s].host
  BY <1>6 DEF LiveIn
<1> QED  BY <1>1, <1>4, <1>7, ResolverStepKeepsIInv

\* resolver_clean_timer_cb.
LEMMA ResolverCleanTimerKeepsIInv ==
  ASSUME IInv, NEW r \in ResolverIds, ResolverCleanTimer(r)
  PROVE  IInv'
<1>1. /\ phase = "up"
      /\ resolver_list \in Lists
      /\ resolver_list' = [resolver_list EXCEPT ![r] = NoResolver]
      /\ UNCHANGED <<phase, url, urlEvents, target, changes, faults>>
  BY DEF ResolverCleanTimer, IInv, TypeOK, Lists
<1>2. resolver_list' \in Lists /\ Watched(resolver_list')
  BY <1>1 DEF Lists, Watched, IInv
<1>3. \A s \in LiveIn(resolver_list') :
         s # r /\ s \in LiveIn(resolver_list) /\ resolver_list'[s] = resolver_list[s]
  BY <1>1 DEF LiveIn, Lists
<1>4. CASE r \notin Live
  <2>1. UNCHANGED <<ACSIPLIST, dns_ttl_timer, send_bootstrap, bootstraps, owed>>
    BY <1>4 DEF ResolverCleanTimer
  <2>2. LiveIn(resolver_list) \subseteq LiveIn(resolver_list')
    BY <1>1, <1>4, LiveIsLiveIn DEF LiveIn, Lists
  <2> QED  BY <1>1, <1>2, <1>3, <2>1, <2>2, ResolverStepKeepsIInv
<1>5. CASE r \in Live
  <2>1. resolver_list[r].host = target
    BY <1>5, LiveIsLiveIn DEF IInv, OneLive
  <2>2. resolve_cb_clean(target, FALSE, ACSIPLIST, send_bootstrap, urlEvents)
    BY <1>5, <2>1 DEF ResolverCleanTimer
  <2> QED  BY <1>1, <1>2, <1>3, <2>2, CbCleanFacts, ResolverStepKeepsIInv DEF IInv
<1> QED  BY <1>4, <1>5

\* The callbacks that call cwmp_dns_resolve.
LEMMA ResolversKeepIInv ==
  ASSUME IInv,
         InitServices \/ UrlChanged \/ DnsTtlTimer \/ StartSessionWithoutIp
  PROVE  IInv'
<1> USE DEF IInv
<1>1. CASE InitServices
  <2>1. ResolvePost(FALSE) /\ phase' \in {"up", "exit"}
    BY <1>1, ResolveOk, ResolveKo DEF InitServices
  <2>2. UNCHANGED <<url, urlEvents, changes>>
    BY <1>1 DEF InitServices
  <2>3. urlEvents' \in Nat /\ urlEvents' + Owing(FALSE) = urlEvents
    BY <2>2 DEF TypeOK, Owing
  <2> QED  BY <2>1, <2>2, <2>3, ResolveKeepsIInv
<1>2. CASE UrlChanged
  <2>1. ResolvePost(TRUE) /\ phase' \in {"up", "exit"}
    BY <1>2, Resolve DEF UrlChanged
  <2>2. UNCHANGED <<url, changes>>
    BY <1>2 DEF UrlChanged
  <2>3. urlEvents' \in Nat /\ urlEvents' + Owing(TRUE) = urlEvents
    BY <1>2 DEF TypeOK, Owing, UrlChanged
  <2> QED  BY <2>1, <2>2, <2>3, ResolveKeepsIInv
<1>3. CASE DnsTtlTimer \/ StartSessionWithoutIp
  <2>1. ResolvePost(FALSE) /\ phase' \in {"up", "exit"}
    BY <1>3, Resolve DEF DnsTtlTimer, StartSessionWithoutIp
  <2>2. UNCHANGED <<url, urlEvents, changes>>
    BY <1>3 DEF DnsTtlTimer, StartSessionWithoutIp
  <2>3. urlEvents' \in Nat /\ urlEvents' + Owing(FALSE) = urlEvents
    BY <2>2 DEF TypeOK, Owing
  <2> QED  BY <2>1, <2>2, <2>3, ResolveKeepsIInv
<1> QED  BY <1>1, <1>2, <1>3

\* A write of ManagementServer.URL.
LEMMA SetUrlKeepsIInv == IInv /\ SetUrl => IInv'
<1> SUFFICES ASSUME IInv, SetUrl PROVE IInv'
  OBVIOUS
<1> USE DEF IInv, SetUrl
<1>1. TypeOK'
  <2>1. urlEvents' \in Nat /\ changes' \in Nat
    BY DEF TypeOK
  <2>2. owed' \in BOOLEAN /\ url' \in Hosts
    BY DEF TypeOK
  <2> QED  BY <2>1, <2>2 DEF TypeOK
<1>2. Watched(resolver_list)' /\ OneLive(resolver_list, target)'
  BY DEF Watched, OneLive
<1>3. phase' = "up" => urlEvents' > 0
  BY DEF TypeOK
<1>4. ResolutionAlive' /\ TargetIsUrl'
  BY <1>3 DEF ResolutionAlive, TargetIsUrl
<1>5. NoSpuriousBootstrap'
  BY DEF NoSpuriousBootstrap, TypeOK
<1> QED  BY <1>1, <1>2, <1>4, <1>5

\* The end of the process, and its next start.
LEMMA CleanKeepsIInv == IInv /\ (cwmp_dns_clean \/ StartCwmpd) => IInv'
<1> SUFFICES ASSUME IInv, cwmp_dns_clean \/ StartCwmpd PROVE IInv'
  OBVIOUS
<1>1. CASE cwmp_dns_clean
  <2> USE <1>1 DEF IInv, cwmp_dns_clean
  <2>1. TypeOK'
    <3>1. bootstraps' \in Nat
      BY DEF TypeOK
    <3>2. resolver_list' \in Lists
      BY DEF Lists
    <3> QED  BY <3>1, <3>2 DEF TypeOK, Lists
  <2>2. Watched(resolver_list)' /\ OneLive(resolver_list, target)'
    BY DEF Watched, OneLive, LiveIn
  <2>3. ResolutionAlive' /\ TargetIsUrl'
    BY DEF ResolutionAlive, TargetIsUrl
  <2>4. NoSpuriousBootstrap'
    BY DEF NoSpuriousBootstrap, TypeOK
  <2> QED  BY <2>1, <2>2, <2>3, <2>4
<1>2. CASE StartCwmpd
  <2> USE <1>2 DEF IInv, StartCwmpd
  <2>1. TypeOK'
    BY DEF TypeOK
  <2>2. Watched(resolver_list)' /\ OneLive(resolver_list, target)'
    OBVIOUS
  <2>3. ResolutionAlive' /\ TargetIsUrl' /\ NoSpuriousBootstrap'
    BY DEF ResolutionAlive, TargetIsUrl, NoSpuriousBootstrap
  <2> QED  BY <2>1, <2>2, <2>3
<1> QED  BY <1>1, <1>2

\* A step of the specification, or a stuttering one.
LEMMA NextIInv == IInv /\ [Next]_vars => IInv'
<1> SUFFICES ASSUME IInv, [Next]_vars PROVE IInv'
  OBVIOUS
<1>1. CASE InitServices \/ UrlChanged \/ DnsTtlTimer \/ StartSessionWithoutIp
  BY <1>1, ResolversKeepIInv
<1>2. CASE SetUrl
  BY <1>2, SetUrlKeepsIInv
<1>3. CASE \E r \in ResolverIds, ok \in BOOLEAN : ResolveCb(r, ok)
  BY <1>3, ResolveCbKeepsIInv
<1>4. CASE \E r \in ResolverIds : SocketReopened(r)
  BY <1>4, SocketReopenedKeepsIInv
<1>5. CASE \E r \in ResolverIds : ResolverCleanTimer(r)
  BY <1>5, ResolverCleanTimerKeepsIInv
<1>6. CASE cwmp_dns_clean \/ StartCwmpd
  BY <1>6, CleanKeepsIInv
<1>7. CASE UNCHANGED vars
  BY <1>7 DEF vars, IInv, TypeOK, ResolutionAlive, TargetIsUrl,
              NoSpuriousBootstrap, Live, Used
<1> QED  BY <1>1, <1>2, <1>3, <1>4, <1>5, <1>6, <1>7 DEF Next

\* IInv implies the properties the runs check.
LEMMA IInvImplies ==
  IInv => /\ TypeOK
          /\ ResolutionAlive
          /\ OneLiveQuery
          /\ ResolversEnd
          /\ NoSpuriousBootstrap
<1> SUFFICES ASSUME IInv PROVE OneLiveQuery /\ ResolversEnd
  BY DEF IInv
<1>1. OneLiveQuery
  BY LiveIsLiveIn DEF OneLiveQuery, IInv, OneLive, TargetIsUrl
<1>2. ResolversEnd
  BY DEF ResolversEnd, IInv, Watched, Used
<1> QED  BY <1>1, <1>2

\* Only the end of a lookup for the current target, or a URL change, writes
\* ACSIPList.
LEMMA StaleStep ==
  ASSUME IInv, [Next]_vars
  PROVE  ACSIPLIST' # ACSIPLIST => ACSIPLIST' \in {NoHost, target'}
<1> SUFFICES ASSUME ACSIPLIST' # ACSIPLIST PROVE ACSIPLIST' \in {NoHost, target'}
  OBVIOUS
<1>1. CASE InitServices \/ UrlChanged \/ DnsTtlTimer \/ StartSessionWithoutIp
  <2>1. ResolvePost(FALSE) \/ ResolvePost(TRUE)
    BY <1>1, Resolve, ResolveOk, ResolveKo DEF IInv, InitServices, UrlChanged,
       DnsTtlTimer, StartSessionWithoutIp
  <2> QED  BY <2>1 DEF ResolvePost
<1>2. ASSUME NEW r \in ResolverIds, NEW ok \in BOOLEAN, ResolveCb(r, ok)
      PROVE  ACSIPLIST' \in {NoHost, target'}
  <2>1. r \in LiveIn(resolver_list)
    BY <1>2 DEF ResolveCb, LiveIn, Used
  <2>2. resolver_list[r].host = target /\ target' = target
    BY <1>2, <2>1 DEF IInv, OneLive, ResolveCb
  <2>3. resolve_cb_clean(target, ok, ACSIPLIST, send_bootstrap, urlEvents)
    BY <1>2, <2>1, <2>2 DEF ResolveCb, LiveIn
  <2> QED  BY <2>2, <2>3, CbCleanFacts DEF IInv
<1>3. ASSUME NEW r \in ResolverIds, ResolverCleanTimer(r)
      PROVE  ACSIPLIST' \in {NoHost, target'}
  <2>1. r \in Live
    BY <1>3 DEF ResolverCleanTimer
  <2>2. resolver_list[r].host = target /\ target' = target
    BY <1>3, <2>1, LiveIsLiveIn DEF IInv, OneLive, ResolverCleanTimer
  <2>3. resolve_cb_clean(target, FALSE, ACSIPLIST, send_bootstrap, urlEvents)
    BY <1>3, <2>1, <2>2 DEF ResolverCleanTimer
  <2> QED  BY <2>2, <2>3, CbCleanFacts DEF IInv
<1>4. CASE \/ SetUrl
           \/ \E r \in ResolverIds : SocketReopened(r)
           \/ cwmp_dns_clean \/ StartCwmpd \/ UNCHANGED vars
  BY <1>4 DEF SetUrl, SocketReopened, cwmp_dns_clean, StartCwmpd, vars
<1> QED  BY <1>1, <1>2, <1>3, <1>4 DEF Next

-----------------------------------------------------------------------------
(***************************************************************************)
(* The theorems.                                                           *)
(***************************************************************************)

\* The inductive invariant holds in every behaviour.
THEOREM Invariance == Spec => []IInv
  BY InitIInv, NextIInv, PTL DEF Spec

\* The static variables and the resolvers of cwmpd_dns.c keep their types.
THEOREM TypeCorrect == Spec => []TypeOK
  BY Invariance, IInvImplies, PTL

\* cwmpd never stops resolving the name of its ACS: a useful lookup is
\* pending or the retry timer is armed, whatever fails.
THEOREM ResolutionStaysAlive == Spec => []ResolutionAlive
  BY Invariance, IInvImplies, PTL

\* However lookups overlap, one at most is used, it is the latest, and it is
\* for the URL once the notifications are handled and if no bus read failed.
THEOREM OneLiveQueryHolds == Spec => []OneLiveQuery
  BY Invariance, IInvImplies, PTL

\* No resolver is stuck or leaked: some timer will end it.
THEOREM ResolversAreWatched == Spec => []ResolversEnd
  BY Invariance, IInvImplies, PTL

\* The engine is told of at most one bootstrap per change of the URL.
THEOREM BootstrapsBounded == Spec => []NoSpuriousBootstrap
  BY Invariance, IInvImplies, PTL

\* The result of an outdated lookup never reaches ACSIPList.
THEOREM StaleResultsIgnored == Spec => StaleResultIgnored
<1>1. IInv /\ [Next]_vars
        => [ACSIPLIST' # ACSIPLIST => ACSIPLIST' \in {NoHost, target'}]_vars
  BY StaleStep
<1> QED  BY <1>1, Invariance, PTL DEF Spec, StaleResultIgnored

=============================================================================
