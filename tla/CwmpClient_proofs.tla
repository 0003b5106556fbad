-------------------------- MODULE CwmpClient_proofs --------------------------
(***************************************************************************)
(* Proofs about CwmpClient, for any number of connections, sessions, URLs  *)
(* and restarts: an open session has its timer, one request under way, the *)
(* right QoS rule, and state of its own; and it succeeds only by a 204.    *)
(***************************************************************************)
EXTENDS CwmpClient, TLAPS

\* A session that is open has a number; what is left of others has a lower one.
Numbered ==
    /\ engine.open => engine.id >= 1
    /\ timers.retry <= engine.id
    /\ \A c \in Conns : conns[c].sess <= engine.id /\ (conns[c].st = "free" <=> conns[c].sess = 0)

\* The rule is the one of the address and port told last.
RuleIsTold == qos.ip # NULL => qos.rule = <<qos.ip, qos.port>>

\* Whose turn it is.  Of two connections of the session one is done and the
\* other waits for it to close; the engine has its turn only when all are done;
\* a retry is due only when there is none; one that is done, but not with 200,
\* is alone.
Turns ==
    ~late /\ engine.open =>
      /\ \A c, d \in Conns : Own(c) /\ Own(d) /\ c # d =>
           \/ conns[c].st = "done" /\ conns[d].st = "connecting"
           \/ conns[d].st = "done" /\ conns[c].st = "connecting"
      /\ engine.turn => timers.retry # engine.id /\ \A c \in Conns : Own(c) => conns[c].st = "done"
      /\ timers.retry = engine.id => \A c \in Conns : ~Own(c)
      /\ \A c \in Conns : Own(c) /\ conns[c].st = "done" /\ cli.http_status # 200 =>
           ~engine.turn /\ \A d \in Conns : Own(d) => d = c
      /\ \A c \in Conns : Own(c) /\ conns[c].st = "written" => cli.rcv_buf = <<>>

\* Only its own 204 makes a session look finished.
StatusIsOwn == ~late /\ cli.http_status = 204 => finished

\* The inductive invariant.
IInv ==
    /\ TypeOK
    /\ Numbered
    /\ OpenSessionHasTimer
    /\ RuleIsTold
    /\ QosOfSession
    /\ SessionStateIsItsOwn
    /\ Turns
    /\ StatusIsOwn

-----------------------------------------------------------------------------
(***************************************************************************)
(* What most steps have in common.                                         *)
(***************************************************************************)

Statuses == {0, 200, 204, 401, 500}
AuthTypes == {"none", "supported", "unsupported"}
Ids == SessionIds \cup {NULL}
Places == Urls \cup {NULL}
Addrs == Ips \cup {NULL}
Jars == SUBSET [name : Cookies, value : SessionIds]
Bufs == Seq(Conns)
Clis == [http_status : Statuses, auth_type : AuthTypes, auth_hdr : Ids, connected : BOOLEAN,
         acs_server_host : Places, acs_server_ip : Addrs, pending_msg : Ids, jar : Jars, rcv_buf : Bufs]
Engines == [open : BOOLEAN, id : 0 .. MaxSessions, turn : BOOLEAN, result : {"none", "ok", "ko"}]
Timers == [session : {"off", "fresh", "due"}, retry : 0 .. MaxSessions]
Rules == [ip : Ips \cup {NULL}, port : (Nat \ {0}) \cup {-1}, rule : (Ips \X Nat) \cup {NULL}]
ConnTypes == [st : {"free", "connecting", "written", "body", "done"},
              sess : 0 .. MaxSessions, got : 0 .. MaxChunks]

\* The bounds are numbers.
LEMMA Bounds ==
  /\ MaxConns \in Nat /\ MaxSessions \in Nat /\ MaxChunks \in Nat /\ MaxRestarts \in Nat
  /\ SessionIds \subseteq 0 .. MaxSessions
  /\ Conns = 1 .. MaxConns
  BY ClientAssumption DEF SessionIds, Conns

\* A connection that libwebsockets does not hold belongs to no session.
LEMMA FreeType ==
  Free \in ConnTypes /\ Free.st = "free" /\ Free.sess = 0
  BY Bounds DEF Free, ConnTypes

\* What the variables of a closed session are.
LEMMA ResetType ==
  /\ Reset \in Clis
  /\ Reset.http_status = 0 /\ Reset.auth_hdr = NULL /\ Reset.pending_msg = NULL
  /\ Reset.jar = {} /\ Reset.acs_server_ip = NULL
<1>1. /\ <<>> \in Bufs /\ {} \in Jars /\ 0 \in Statuses /\ "none" \in AuthTypes
      /\ NULL \in Ids /\ NULL \in Places /\ NULL \in Addrs
  BY DEF Statuses, AuthTypes, Ids, Places, Addrs, Jars, Bufs
<1> QED  BY <1>1 DEF Reset, Clis

\* TypeOK, with names for the sets.
LEMMA CliType ==
  ASSUME TypeOK
  PROVE  /\ cli \in Clis /\ conns \in [Conns -> ConnTypes]
         /\ engine \in Engines /\ timers \in Timers /\ qos \in Rules
  BY DEF TypeOK, Clis, ConnTypes, Engines, Timers, Rules,
     Statuses, AuthTypes, Ids, Places, Addrs, Jars, Bufs

\* What an answer leaves alone: host and address.
KeepsPlace(d, e) == e.acs_server_host = d.acs_server_host /\ e.acs_server_ip = d.acs_server_ip

\* The values that the actions use.
LEMMA CliValues ==
  /\ 200 \in Statuses /\ 204 \in Statuses /\ 401 \in Statuses /\ 500 \in Statuses
  /\ "supported" \in AuthTypes /\ "unsupported" \in AuthTypes
  /\ NULL \in Ids /\ SessionIds \subseteq Ids /\ <<>> \in Bufs /\ NULL \in Addrs /\ Urls \subseteq Places
  BY DEF Statuses, AuthTypes, Ids, Bufs, Addrs, Places

\* The types of what a step changes are those of all.
LEMMA TypeNext ==
  ASSUME TypeOK,
         cli' \in Clis, conns' \in [Conns -> ConnTypes],
         ACSIP' \in Ips \cup {NULL},
         engine' \in Engines,
         session_timeout' \in Nat,
         timers' \in Timers,
         qos' \in Rules,
         late' \in BOOLEAN, finished' \in BOOLEAN, restarts' \in 0 .. MaxRestarts
  PROVE  TypeOK'
  BY DEF TypeOK, Clis, ConnTypes, Engines, Timers, Rules,
     Statuses, AuthTypes, Ids, Places, Addrs, Jars, Bufs

\* What becomes of the engine's view of a session.
LEMMA EngineMoves ==
  ASSUME NEW e \in Engines
  PROVE  /\ e.id \in 0 .. MaxSessions
         /\ \A r \in {"none", "ok", "ko"} :
              LET f == [e EXCEPT !.open = FALSE, !.turn = FALSE, !.result = r]
              IN  f \in Engines /\ ~f.open /\ f.id = e.id
         /\ LET f == [e EXCEPT !.turn = FALSE]
            IN  f \in Engines /\ f.open = e.open /\ ~f.turn /\ f.id = e.id
         /\ LET f == [e EXCEPT !.turn = e.open]
            IN  f \in Engines /\ f.open = e.open /\ f.turn = e.open /\ f.id = e.id
  BY DEF Engines

\* A closed session leaves nothing that could disturb the next.
LEMMA Closing ==
  ASSUME IInv, NEW ok \in BOOLEAN, CloseSession(ok), Outside,
         conns' \in [Conns -> ConnTypes],
         \A c \in Conns : conns'[c] \in {conns[c], Free}
                          \/ (/\ conns'[c].sess = conns[c].sess
                              /\ conns'[c].st # "free" /\ conns[c].st # "free"),
         timers' \in Timers,
         timers'.retry = timers.retry
  PROVE  IInv'
<1> USE DEF IInv
<1>1. /\ engine' \in Engines
      /\ ~engine'.open /\ engine'.id = engine.id
  <2>1. PICK r \in {"none", "ok", "ko"} :
          engine' = [engine EXCEPT !.open = FALSE, !.turn = FALSE, !.result = r]
    BY DEF CloseSession, TypeOK
  <2> QED  BY <2>1, CliType, EngineMoves
<1>2. cli' = Reset /\ late' = FALSE /\ finished' = FALSE
  BY DEF CloseSession
<1>3. TypeOK'
  <2>1. /\ ACSIP' \in Ips \cup {NULL} /\ session_timeout' \in Nat /\ restarts' \in 0 .. MaxRestarts
        /\ qos' \in Rules
    BY CliType DEF Outside, TypeOK
  <2>2. late' \in BOOLEAN /\ finished' \in BOOLEAN /\ cli' \in Clis
    BY <1>2, ResetType
  <2> QED  BY <1>1, <2>1, <2>2, TypeNext
<1>4. Numbered'
  <2>1. engine.id \in 0 .. MaxSessions
    BY CliType, EngineMoves
  <2>2. ASSUME NEW c \in Conns
        PROVE  conns'[c].sess <= engine.id /\ (conns'[c].st = "free" <=> conns'[c].sess = 0)
    BY <2>1, FreeType, Bounds DEF Numbered
  <2> QED  BY <1>1, <2>2 DEF Numbered
<1>5. OpenSessionHasTimer' /\ RuleIsTold' /\ QosOfSession'
  BY <1>1 DEF OpenSessionHasTimer, RuleIsTold, QosOfSession, Outside
<1>6. SessionStateIsItsOwn'
  <2>1. cli' = [Reset EXCEPT !.acs_server_host = cli'.acs_server_host, !.acs_server_ip = cli'.acs_server_ip]
    BY <1>2 DEF Reset
  <2>2. cli'.jar = {} /\ cli'.auth_hdr = NULL /\ cli'.pending_msg = NULL
    BY <1>2, ResetType
  <2> QED  BY <1>1, <2>1, <2>2 DEF SessionStateIsItsOwn, Own
<1>7. Turns'
  BY <1>1 DEF Turns
<1>8. StatusIsOwn'
  BY <1>2, ResetType DEF StatusIsOwn
<1> QED  BY <1>3, <1>4, <1>5, <1>6, <1>7, <1>8

\* A step that leaves session, address, host and rule as they are.
SameSession ==
    /\ engine'.open = engine.open /\ engine'.id = engine.id
    /\ cli'.acs_server_host = cli.acs_server_host /\ cli'.acs_server_ip = cli.acs_server_ip
    /\ timers'.session = "off" => timers.session = "off"
    /\ UNCHANGED <<session_timeout, qos>>

\* It keeps timer and rule.
LEMMA Staying ==
  ASSUME IInv, SameSession
  PROVE  OpenSessionHasTimer' /\ RuleIsTold' /\ QosOfSession'
  BY DEF IInv, SameSession, OpenSessionHasTimer, RuleIsTold, QosOfSession

\* The callback of a former session: nothing more is claimed.
LEMMA Interfering ==
  ASSUME IInv, SameSession, TypeOK', Numbered', late' = TRUE
  PROVE  IInv'
<1>1. OpenSessionHasTimer' /\ RuleIsTold' /\ QosOfSession'
  BY Staying
<1>2. SessionStateIsItsOwn' /\ Turns' /\ StatusIsOwn'
  BY DEF SessionStateIsItsOwn, Turns, StatusIsOwn
<1> QED  BY <1>1, <1>2 DEF IInv

\* A connection moves on.
LEMMA Moving ==
  ASSUME IInv, NEW c \in Conns, NEW x \in ConnTypes, conns' = [conns EXCEPT ![c] = x]
  PROVE  /\ conns' \in [Conns -> ConnTypes]
         /\ conns'[c] = x
         /\ \A d \in Conns \ {c} : conns'[d] = conns[d]
  BY DEF IInv, TypeOK, ConnTypes

\* A connection of the open session, undisturbed: the others, the turn and the
\* retry.
LEMMA OwnConnection ==
  ASSUME IInv, ~late, NEW c \in Conns, Own(c)
  PROVE  /\ engine.open /\ engine.id >= 1 /\ conns[c].st # "free" /\ conns[c].sess = engine.id
         /\ timers.retry # engine.id
         /\ engine.turn => conns[c].st = "done"
         /\ conns[c].st \in {"written", "body"} => \A d \in Conns : Own(d) => d = c
         /\ conns[c].st = "connecting" => \A d \in Conns : Own(d) => d = c \/ conns[d].st = "done"
         /\ conns[c].st = "done" => \A d \in Conns : Own(d) => d = c \/ conns[d].st = "connecting"
         /\ conns[c].st = "written" => cli.rcv_buf = <<>>
<1>1. engine.open /\ conns[c].sess = engine.id
  BY DEF Own
<1>2. engine.id >= 1 /\ engine.id \in 0 .. MaxSessions /\ (conns[c].st = "free" <=> conns[c].sess = 0)
  BY <1>1, CliType, EngineMoves DEF IInv, Numbered
<1>3. conns[c].st # "free"
  BY <1>1, <1>2, Bounds
<1>4. /\ timers.retry # engine.id
      /\ engine.turn => conns[c].st = "done"
      /\ conns[c].st = "written" => cli.rcv_buf = <<>>
  BY <1>1 DEF IInv, Turns
<1>5. \A d \in Conns : Own(d) /\ d # c =>
           \/ conns[c].st = "done" /\ conns[d].st = "connecting"
           \/ conns[d].st = "done" /\ conns[c].st = "connecting"
  BY <1>1 DEF IInv, Turns
<1> QED  BY <1>1, <1>2, <1>3, <1>4, <1>5

\* A callback of connection c, up to what it does to an undisturbed session.
LEMMA CallbackFrame ==
  ASSUME IInv, NEW c \in Conns, Callback(c),
         NEW x \in ConnTypes, conns' = [conns EXCEPT ![c] = x],
         x = Free \/ (x.sess = conns[c].sess /\ x.st # "free"), conns[c].st # "free",
         engine' \in Engines, cli' \in Clis, timers' \in Timers, ACSIP' \in Ips \cup {NULL},
         finished' \in BOOLEAN, SameSession, restarts' = restarts,
         timers'.retry \in {timers.retry, conns[c].sess}
  PROVE  /\ TypeOK' /\ Numbered' /\ OpenSessionHasTimer' /\ RuleIsTold' /\ QosOfSession'
         /\ late \/ ~Own(c) => IInv'
         /\ \A d \in Conns \ {c} : Own(d)' = Own(d) /\ conns'[d] = conns[d]
         /\ Own(c)' => Own(c) /\ x.st # "free"
<1>1. late' \in BOOLEAN /\ restarts' \in 0 .. MaxRestarts /\ session_timeout' \in Nat /\ qos' \in Rules
  BY CliType DEF IInv, TypeOK, Callback, SameSession
<1>2. conns' \in [Conns -> ConnTypes] /\ conns'[c] = x /\ \A d \in Conns \ {c} : conns'[d] = conns[d]
  BY Moving
<1>3. TypeOK'
  BY <1>1, <1>2, TypeNext DEF IInv
<1>4. engine.id \in 0 .. MaxSessions /\ engine'.id = engine.id /\ engine'.open = engine.open
  BY CliType, EngineMoves DEF IInv, SameSession
<1>5. ASSUME NEW d \in Conns
      PROVE  conns'[d].sess <= engine.id /\ (conns'[d].st = "free" <=> conns'[d].sess = 0)
  BY <1>2, <1>4, FreeType, Bounds DEF IInv, Numbered
<1>6. Numbered'
  BY <1>4, <1>5 DEF IInv, Numbered
<1>7. OpenSessionHasTimer' /\ RuleIsTold' /\ QosOfSession'
  BY Staying
<1>8. late \/ ~Own(c) => IInv'
  <2>1. late \/ ~Own(c) => late' = TRUE
    BY DEF Callback
  <2> QED  BY <2>1, <1>3, <1>6, Interfering
<1>9. \A d \in Conns \ {c} : Own(d)' = Own(d)
  BY <1>2, <1>4 DEF Own
<1>10. Own(c)' => Own(c) /\ x.st # "free"
  <2>1. ASSUME Own(c)' PROVE engine.open /\ x.sess = engine.id
    BY <1>2, <1>4, <2>1 DEF Own
  <2>2. ASSUME Own(c)' PROVE x # Free
    BY <2>1, <2>2, <1>4, FreeType, Bounds DEF IInv, Numbered
  <2> QED  BY <2>1, <2>2, FreeType DEF Own
<1> QED  BY <1>2, <1>3, <1>6, <1>7, <1>8, <1>9, <1>10

-----------------------------------------------------------------------------
(***************************************************************************)
(* The callbacks of a connection.                                          *)
(***************************************************************************)

\* The record of a connection that moves on.
LEMMA MovedType ==
  ASSUME TypeOK, NEW c \in Conns, NEW st \in {"written", "body", "done"}
  PROVE  /\ [st |-> st, sess |-> conns[c].sess, got |-> 0] \in ConnTypes
         /\ [st |-> st, sess |-> conns[c].sess, got |-> 0].st = st
         /\ [st |-> st, sess |-> conns[c].sess, got |-> 0].got = 0
         /\ [st |-> st, sess |-> conns[c].sess, got |-> 0].sess = conns[c].sess
  BY CliType, Bounds DEF ConnTypes

\* Move(c, st) stores it.
LEMMA Moves ==
  ASSUME TypeOK, NEW c \in Conns, NEW st \in {"written", "body", "done"}, Move(c, st)
  PROVE  conns' = [conns EXCEPT ![c] = [st |-> st, sess |-> conns[c].sess, got |-> 0]]
  BY CliType DEF Move

\* The number of a session that has a connection.
LEMMA SessType ==
  ASSUME IInv, NEW c \in Conns, conns[c].st # "free"
  PROVE  conns[c].sess \in SessionIds
<1>1. conns[c].sess \in 0 .. MaxSessions /\ conns[c].sess # 0
  BY CliType DEF IInv, Numbered, ConnTypes
<1> QED  BY <1>1, Bounds DEF SessionIds

\* cwmp_client_handshake_cb, cwmp_client_http_writable_cb.
LEMMA RequestStep ==
  ASSUME IInv, NEW c \in Conns, Request(c)
  PROVE  IInv'
<1> DEFINE x == [st |-> "written", sess |-> conns[c].sess, got |-> 0]
<1>1. x \in ConnTypes /\ x.st = "written" /\ x.sess = conns[c].sess
  BY MovedType DEF IInv
<1>2. conns' = [conns EXCEPT ![c] = x] /\ Callback(c) /\ conns[c].st = "connecting"
  BY Moves DEF Request, IInv
<1>3. /\ cli' \in Clis /\ cli'.rcv_buf = <<>> /\ cli'.http_status = cli.http_status
      /\ cli'.jar = cli.jar /\ cli'.auth_hdr = cli.auth_hdr /\ cli'.pending_msg = cli.pending_msg
      /\ cli'.acs_server_host = cli.acs_server_host /\ cli'.acs_server_ip = cli.acs_server_ip
  <2>1. cli \in Clis /\ <<>> \in Bufs /\ cli' = [cli EXCEPT !.rcv_buf = <<>>]
    BY CliType, CliValues DEF Request, IInv
  <2> QED  BY <2>1 DEF Clis
<1>4. /\ UNCHANGED <<engine, timers, finished, ACSIP, session_timeout, qos, restarts>>
      /\ \A d \in Conns : conns[d].sess = conns[c].sess => conns[d].st # "done"
  BY DEF Request, Outside
<1>5. SameSession /\ engine' \in Engines /\ timers' \in Timers /\ ACSIP' \in Ips \cup {NULL} /\ finished' \in BOOLEAN
  BY <1>3, <1>4, CliType DEF SameSession, IInv, TypeOK
<1> HIDE DEF x
<1>6. /\ TypeOK' /\ Numbered' /\ OpenSessionHasTimer' /\ RuleIsTold' /\ QosOfSession'
      /\ late \/ ~Own(c) => IInv'
      /\ \A d \in Conns \ {c} : Own(d)' = Own(d) /\ conns'[d] = conns[d]
  BY <1>1, <1>2, <1>3, <1>4, <1>5, CallbackFrame
<1> SUFFICES ASSUME ~late, Own(c) PROVE IInv'
  BY <1>6
<1>7. /\ engine.open /\ timers.retry # engine.id /\ ~engine.turn
      /\ \A d \in Conns : Own(d) => d = c
  BY <1>2, <1>4, OwnConnection DEF Own
<1>8. conns'[c] = x /\ \A d \in Conns \ {c} : ~Own(d)'
  BY <1>1, <1>2, <1>6, <1>7, Moving
<1>9. SessionStateIsItsOwn'
  BY <1>1, <1>3, <1>4, <1>7, <1>8 DEF SessionStateIsItsOwn, IInv
<1>10. Turns'
  BY <1>1, <1>3, <1>4, <1>7, <1>8 DEF Turns
<1>11. StatusIsOwn'
  BY <1>3, <1>4 DEF StatusIsOwn, IInv
<1> QED  BY <1>6, <1>9, <1>10, <1>11 DEF IInv

\* An answer that has no body: 204, 401 or an error.
LEMMA AnswerStep ==
  ASSUME IInv, NEW c \in Conns, conns[c].st = "written", Callback(c), Move(c, "done"), Outside,
         UNCHANGED <<engine, timers>>, finished' \in BOOLEAN,
         cli' \in Clis, cli'.http_status # 200,
         cli'.acs_server_host = cli.acs_server_host, cli'.acs_server_ip = cli.acs_server_ip,
         cli'.jar = cli.jar, cli'.auth_hdr \in {cli.auth_hdr, NULL, conns[c].sess},
         cli'.pending_msg \in {cli.pending_msg, NULL},
         Own(c) /\ cli'.http_status = 204 => finished'
  PROVE  IInv'
<1> DEFINE x == [st |-> "done", sess |-> conns[c].sess, got |-> 0]
<1>1. x \in ConnTypes /\ x.st = "done" /\ x.sess = conns[c].sess
  BY MovedType DEF IInv
<1>2. conns' = [conns EXCEPT ![c] = x]
  BY Moves DEF IInv
<1>3. SameSession /\ engine' \in Engines /\ timers' \in Timers /\ ACSIP' \in Ips \cup {NULL} /\ restarts' = restarts
  BY CliType DEF SameSession, IInv, TypeOK, Outside
<1> HIDE DEF x
<1>4. /\ TypeOK' /\ Numbered' /\ OpenSessionHasTimer' /\ RuleIsTold' /\ QosOfSession'
      /\ late \/ ~Own(c) => IInv'
      /\ \A d \in Conns \ {c} : Own(d)' = Own(d) /\ conns'[d] = conns[d]
  BY <1>1, <1>2, <1>3, CallbackFrame, ZenonT(40)
<1> SUFFICES ASSUME ~late, Own(c) PROVE IInv'
  BY <1>4
<1>5. /\ engine.open /\ timers.retry # engine.id /\ ~engine.turn /\ conns[c].sess = engine.id
      /\ \A d \in Conns : Own(d) => d = c
  BY OwnConnection
<1>6. conns'[c] = x /\ \A d \in Conns \ {c} : ~Own(d)'
  BY <1>1, <1>2, <1>4, <1>5, Moving
<1>7. SessionStateIsItsOwn'
  BY <1>1, <1>5, <1>6 DEF SessionStateIsItsOwn, IInv
<1>8. Turns'
  BY <1>1, <1>5, <1>6 DEF Turns
<1>9. StatusIsOwn'
  BY DEF StatusIsOwn
<1> QED  BY <1>4, <1>7, <1>8, <1>9 DEF IInv

\* The answer is 204.
LEMMA NoContentStep ==
  ASSUME IInv, NEW c \in Conns, NoContent(c)
  PROVE  IInv'
<1>1. cli' = [cli EXCEPT !.http_status = 204, !.pending_msg = NULL] /\ finished' = (finished \/ Own(c))
  BY DEF NoContent
<1>2. finished' \in BOOLEAN /\ (Own(c) => finished')
  BY <1>1
<1>3. /\ cli' \in Clis /\ cli'.http_status = 204 /\ cli'.pending_msg = NULL
      /\ cli'.acs_server_host = cli.acs_server_host /\ cli'.acs_server_ip = cli.acs_server_ip
      /\ cli'.jar = cli.jar /\ cli'.auth_hdr = cli.auth_hdr
  <2>1. cli \in Clis /\ 204 \in Statuses /\ NULL \in Ids
    BY CliType, CliValues DEF IInv
  <2> QED  BY <1>1, <2>1, ZenonT(40) DEF Clis
<1>4. conns[c].st = "written" /\ Callback(c) /\ Move(c, "done") /\ Outside /\ UNCHANGED <<engine, timers>>
  BY DEF NoContent
<1> QED  BY <1>2, <1>3, <1>4, AnswerStep

\* What a challenge changes.
Marked(e, f, s, ty, h) == f = [e EXCEPT !.http_status = s, !.auth_type = ty, !.auth_hdr = h]

\* The statics stay well-formed.
LEMMA ChallengedType ==
  ASSUME NEW e \in Clis, NEW s \in Statuses, NEW ty \in AuthTypes, NEW h \in Ids,
         NEW f, Marked(e, f, s, ty, h)
  PROVE  /\ f \in Clis /\ f.http_status = s /\ f.auth_hdr = h
         /\ f.jar = e.jar /\ f.pending_msg = e.pending_msg /\ KeepsPlace(e, f)
  BY DEF Clis, KeepsPlace, Marked

\* A header that is kept.
LEMMA HeaderKept ==
  ASSUME NEW e \in Clis, NEW s \in Statuses, NEW ty \in AuthTypes
  PROVE  /\ e.auth_hdr \in Ids
         /\ [e EXCEPT !.http_status = s, !.auth_type = ty]
              = [e EXCEPT !.http_status = s, !.auth_type = ty, !.auth_hdr = e.auth_hdr]
  BY DEF Clis

\* cwmp_client_get_authentication_hdr.
LEMMA UnauthorizedStep ==
  ASSUME IInv, NEW c \in Conns, Unauthorized(c)
  PROVE  IInv'
<1>1. /\ conns[c].st = "written" /\ Callback(c) /\ Move(c, "done") /\ Outside
      /\ UNCHANGED <<engine, timers, finished>> /\ finished' \in BOOLEAN
  BY DEF Unauthorized, IInv, TypeOK
<1>2. conns[c].sess \in SessionIds
  BY <1>1, SessType
<1>3. PICK type \in AuthTypes : cli' \in Challenged(type, conns[c].sess)
  BY CliValues DEF Unauthorized
<1>4. /\ cli' \in Clis /\ KeepsPlace(cli, cli') /\ cli'.http_status = 401
      /\ cli'.jar = cli.jar /\ cli'.pending_msg = cli.pending_msg
      /\ cli'.auth_hdr \in {cli.auth_hdr, NULL, conns[c].sess}
  <2>1. cli \in Clis /\ 401 \in Statuses /\ type \in AuthTypes /\ NULL \in Ids /\ conns[c].sess \in Ids
    BY <1>2, CliType, CliValues DEF IInv
  <2>2. CASE cli' = [cli EXCEPT !.http_status = 401, !.auth_type = type]
    <3>1. cli.auth_hdr \in Ids
      BY <2>1, HeaderKept, Zenon
    <3>2. cli' = [cli EXCEPT !.http_status = 401, !.auth_type = type, !.auth_hdr = cli.auth_hdr]
      BY <2>1, <2>2, HeaderKept, ZenonT(40)
    <3>3. Marked(cli, cli', 401, type, cli.auth_hdr)
      BY <3>2 DEF Marked
    <3>4. /\ cli' \in Clis /\ KeepsPlace(cli, cli') /\ cli'.http_status = 401
          /\ cli'.jar = cli.jar /\ cli'.pending_msg = cli.pending_msg /\ cli'.auth_hdr = cli.auth_hdr
      BY <2>1, <3>1, <3>3, ChallengedType
    <3> QED  BY <3>4, Zenon
  <2>3. ASSUME NEW h \in Ids, cli' = [cli EXCEPT !.http_status = 401, !.auth_type = type, !.auth_hdr = h]
        PROVE  /\ cli' \in Clis /\ KeepsPlace(cli, cli') /\ cli'.http_status = 401
               /\ cli'.jar = cli.jar /\ cli'.pending_msg = cli.pending_msg /\ cli'.auth_hdr = h
    <3>1. Marked(cli, cli', 401, type, h)
      BY <2>3 DEF Marked
    <3> QED  BY <2>1, <3>1, ChallengedType
  <2>4. \/ cli' = [cli EXCEPT !.http_status = 401, !.auth_type = type]
        \/ \E h \in {NULL, conns[c].sess} :
             cli' = [cli EXCEPT !.http_status = 401, !.auth_type = type, !.auth_hdr = h]
    BY <1>3 DEF Challenged
  <2>5. ASSUME NEW h \in {NULL, conns[c].sess},
               cli' = [cli EXCEPT !.http_status = 401, !.auth_type = type, !.auth_hdr = h]
        PROVE  /\ cli' \in Clis /\ KeepsPlace(cli, cli') /\ cli'.http_status = 401
               /\ cli'.jar = cli.jar /\ cli'.pending_msg = cli.pending_msg /\ cli'.auth_hdr = h
    <3>1. h \in Ids
      BY <2>1
    <3> QED  BY <2>3, <2>5, <3>1, Zenon
  <2>6. CASE \E h \in {NULL, conns[c].sess} :
               cli' = [cli EXCEPT !.http_status = 401, !.auth_type = type, !.auth_hdr = h]
    <3>1. PICK h \in {NULL, conns[c].sess} :
            cli' = [cli EXCEPT !.http_status = 401, !.auth_type = type, !.auth_hdr = h]
      BY <2>6, Zenon
    <3>2. /\ cli' \in Clis /\ KeepsPlace(cli, cli') /\ cli'.http_status = 401
          /\ cli'.jar = cli.jar /\ cli'.pending_msg = cli.pending_msg /\ cli'.auth_hdr = h
      BY <3>1, <2>5, ZenonT(40)
    <3> QED  BY <3>2
  <2> QED  BY <2>2, <2>4, <2>6, Zenon
<1> QED  BY <1>1, <1>4, AnswerStep DEF KeepsPlace

\* Any other answer.
LEMMA HttpErrorStep ==
  ASSUME IInv, NEW c \in Conns, HttpError(c)
  PROVE  IInv'
<1>1. /\ conns[c].st = "written" /\ Callback(c) /\ Move(c, "done") /\ Outside
      /\ UNCHANGED <<engine, timers, finished>> /\ finished' \in BOOLEAN
  BY DEF HttpError, IInv, TypeOK
<1>2. cli' = [cli EXCEPT !.http_status = 500]
  BY DEF HttpError
<1>3. /\ cli' \in Clis /\ cli'.http_status = 500 /\ cli'.pending_msg = cli.pending_msg
      /\ cli'.acs_server_host = cli.acs_server_host /\ cli'.acs_server_ip = cli.acs_server_ip
      /\ cli'.jar = cli.jar /\ cli'.auth_hdr = cli.auth_hdr
  <2>1. cli \in Clis /\ 500 \in Statuses
    BY CliType, CliValues DEF IInv
  <2> QED  BY <1>2, <2>1 DEF Clis
<1> QED  BY <1>1, <1>3, AnswerStep

\* The answer 200.
LEMMA OkStep ==
  ASSUME IInv, NEW c \in Conns, Ok(c)
  PROVE  IInv'
<1> DEFINE x == [st |-> "body", sess |-> conns[c].sess, got |-> 0]
<1>1. x \in ConnTypes /\ x.st = "body" /\ x.sess = conns[c].sess /\ x.got = 0
  BY MovedType DEF IInv
<1>2. conns' = [conns EXCEPT ![c] = x] /\ Callback(c) /\ conns[c].st = "written"
  BY Moves DEF Ok, IInv
<1>3. conns[c].sess \in SessionIds /\ cli \in Clis
  BY <1>2, SessType, CliType DEF IInv
<1>4. PICK jar \in {cli.jar} \cup {Stored(cli.jar, k, conns[c].sess) : k \in Cookies} :
        cli' = [cli EXCEPT !.http_status = 200, !.connected = TRUE, !.jar = jar]
  BY DEF Ok
<1>5. jar \in Jars /\ \A k \in jar : k \in cli.jar \/ k.value = conns[c].sess
  <2>1. cli.jar \in Jars
    BY <1>3 DEF Clis
  <2> QED  BY <1>3, <1>4, <2>1 DEF Stored, Jars
<1>6. /\ cli' \in Clis /\ cli'.http_status = 200 /\ cli'.rcv_buf = cli.rcv_buf
      /\ cli'.jar = jar /\ cli'.auth_hdr = cli.auth_hdr /\ cli'.pending_msg = cli.pending_msg
      /\ cli'.acs_server_host = cli.acs_server_host /\ cli'.acs_server_ip = cli.acs_server_ip
  <2>1. 200 \in Statuses
    BY CliValues
  <2> QED  BY <1>3, <1>4, <1>5, <2>1, ZenonT(40) DEF Clis
<1>7. /\ UNCHANGED <<engine, timers, finished, session_timeout, qos, restarts>>
      /\ ACSIP' \in {ACSIP, cli.acs_server_ip}
  BY DEF Ok
<1>8. SameSession /\ engine' \in Engines /\ timers' \in Timers /\ ACSIP' \in Ips \cup {NULL} /\ finished' \in BOOLEAN
  <2>1. cli.acs_server_ip \in Ips \cup {NULL}
    BY <1>3 DEF Clis, Addrs
  <2> QED  BY <1>6, <1>7, <2>1, CliType DEF SameSession, IInv, TypeOK
<1> HIDE DEF x
<1>9. /\ TypeOK' /\ Numbered' /\ OpenSessionHasTimer' /\ RuleIsTold' /\ QosOfSession'
      /\ late \/ ~Own(c) => IInv'
      /\ \A d \in Conns \ {c} : Own(d)' = Own(d) /\ conns'[d] = conns[d]
  BY <1>1, <1>2, <1>6, <1>7, <1>8, CallbackFrame
<1> SUFFICES ASSUME ~late, Own(c) PROVE IInv'
  BY <1>9
<1>10. /\ engine.open /\ timers.retry # engine.id /\ ~engine.turn /\ conns[c].sess = engine.id
       /\ cli.rcv_buf = <<>>
       /\ \A d \in Conns : Own(d) => d = c
  BY <1>2, OwnConnection
<1>11. conns'[c] = x /\ \A d \in Conns \ {c} : ~Own(d)'
  BY <1>1, <1>2, <1>9, <1>10, Moving
<1>12. SessionStateIsItsOwn'
  <2>1. <<>> = [i \in 1 .. 0 |-> c]
    OBVIOUS
  <2> QED  BY <1>1, <1>5, <1>6, <1>7, <1>10, <1>11, <2>1 DEF SessionStateIsItsOwn, IInv
<1>13. Turns'
  BY <1>1, <1>6, <1>7, <1>10, <1>11 DEF Turns
<1>14. StatusIsOwn'
  BY <1>6 DEF StatusIsOwn
<1> QED  BY <1>9, <1>12, <1>13, <1>14 DEF IInv

\* cwmp_client_receive_http_cb.
LEMMA ReceiveStep ==
  ASSUME IInv, NEW c \in Conns, Receive(c)
  PROVE  IInv'
<1> DEFINE x == [conns[c] EXCEPT !.got = @ + 1]
<1>1. conns[c] \in ConnTypes /\ conns[c].st = "body" /\ conns[c].got < MaxChunks
  BY CliType DEF IInv, Receive
<1>2. conns' = [conns EXCEPT ![c] = x] /\ Callback(c)
  BY CliType DEF Receive, IInv
<1>3. x \in ConnTypes /\ x.st = "body" /\ x.sess = conns[c].sess /\ x.got = conns[c].got + 1
  BY <1>1, Bounds DEF ConnTypes
<1>4. /\ cli' \in Clis /\ cli'.http_status = cli.http_status /\ cli'.rcv_buf = Append(cli.rcv_buf, c)
      /\ cli'.jar = cli.jar /\ cli'.auth_hdr = cli.auth_hdr /\ cli'.pending_msg = cli.pending_msg
      /\ cli'.acs_server_host = cli.acs_server_host /\ cli'.acs_server_ip = cli.acs_server_ip
  <2>1. cli \in Clis
    BY CliType DEF IInv
  <2>2. cli.rcv_buf \in Bufs
    BY <2>1 DEF Clis
  <2>3. PICK b \in Bufs : b = Append(cli.rcv_buf, c)
    <3>1. Append(cli.rcv_buf, c) \in Bufs
      BY <2>2 DEF Bufs
    <3> QED  BY <3>1
  <2>4. cli' = [cli EXCEPT !.rcv_buf = b]
    BY <2>1, <2>3 DEF Receive, Clis
  <2>5. /\ cli' \in Clis /\ cli'.http_status = cli.http_status /\ cli'.rcv_buf = b
        /\ cli'.jar = cli.jar /\ cli'.auth_hdr = cli.auth_hdr /\ cli'.pending_msg = cli.pending_msg
        /\ cli'.acs_server_host = cli.acs_server_host /\ cli'.acs_server_ip = cli.acs_server_ip
    BY <2>1, <2>4 DEF Clis
  <2> QED  BY <2>3, <2>5
<1>5. UNCHANGED <<engine, timers, finished, ACSIP, session_timeout, qos, restarts>>
  BY DEF Receive, Outside
<1>6. SameSession /\ engine' \in Engines /\ timers' \in Timers /\ ACSIP' \in Ips \cup {NULL} /\ finished' \in BOOLEAN
  BY <1>4, <1>5, CliType DEF SameSession, IInv, TypeOK
<1> HIDE DEF x
<1>7. /\ TypeOK' /\ Numbered' /\ OpenSessionHasTimer' /\ RuleIsTold' /\ QosOfSession'
      /\ late \/ ~Own(c) => IInv'
      /\ \A d \in Conns \ {c} : Own(d)' = Own(d) /\ conns'[d] = conns[d]
  BY <1>1, <1>2, <1>3, <1>4, <1>5, <1>6, CallbackFrame
<1> SUFFICES ASSUME ~late, Own(c) PROVE IInv'
  BY <1>7
<1>8. /\ engine.open /\ timers.retry # engine.id /\ ~engine.turn /\ conns[c].sess = engine.id
      /\ \A d \in Conns : Own(d) => d = c
  BY <1>1, OwnConnection
<1>9. conns'[c] = x /\ \A d \in Conns \ {c} : ~Own(d)'
  BY <1>2, <1>3, <1>7, <1>8, Moving
<1>10. cli'.rcv_buf = [i \in 1 .. x.got |-> c]
  <2>1. cli.rcv_buf = [i \in 1 .. conns[c].got |-> c] /\ conns[c].got \in Nat
    BY <1>1, <1>8, Bounds DEF IInv, SessionStateIsItsOwn, ConnTypes
  <2> QED  BY <1>3, <1>4, <2>1
<1>11. SessionStateIsItsOwn'
  BY <1>3, <1>4, <1>5, <1>8, <1>9, <1>10 DEF SessionStateIsItsOwn, IInv
<1>12. Turns'
  BY <1>3, <1>5, <1>8, <1>9 DEF Turns
<1>13. StatusIsOwn'
  BY <1>4, <1>5 DEF StatusIsOwn, IInv
<1> QED  BY <1>7, <1>11, <1>12, <1>13 DEF IInv

\* The end of the process.
LEMMA EndStep ==
  ASSUME IInv, End, UNCHANGED ACSIP
  PROVE  IInv'
<1>1. /\ engine' = [Idle EXCEPT !.id = engine.id] /\ cli' = Reset /\ session_timeout' = 0
      /\ timers' = [session |-> "off", retry |-> 0] /\ conns' = [c \in Conns |-> Free]
      /\ qos' = [qos EXCEPT !.ip = NULL, !.port = -1] /\ late' = FALSE /\ finished' = FALSE
  BY DEF End
<1>2. engine.id \in 0 .. MaxSessions /\ qos \in Rules
  BY CliType, EngineMoves DEF IInv
<1>3. engine' \in Engines /\ ~engine'.open /\ engine'.id = engine.id
  <2>1. engine' = [open |-> FALSE, id |-> engine.id, turn |-> FALSE, result |-> "none"]
    BY <1>1 DEF Idle
  <2> QED  BY <1>2, <2>1 DEF Engines
<1>4. timers' \in Timers /\ timers'.retry = 0
  BY <1>1, Bounds DEF Timers
<1>5. qos' \in Rules /\ qos'.ip = NULL
  BY <1>1, <1>2 DEF Rules
<1>6. conns' \in [Conns -> ConnTypes] /\ \A c \in Conns : conns'[c] = Free
  BY <1>1, FreeType
<1>7. TypeOK'
  <2>1. ACSIP' \in Ips \cup {NULL} /\ session_timeout' \in Nat /\ restarts' \in 0 .. MaxRestarts
    BY <1>1, Bounds DEF IInv, TypeOK, End
  <2>2. late' \in BOOLEAN /\ finished' \in BOOLEAN /\ cli' \in Clis
    BY <1>1, ResetType
  <2> QED  BY <1>3, <1>4, <1>5, <1>6, <2>1, <2>2, TypeNext DEF IInv
<1>8. Numbered'
  BY <1>2, <1>3, <1>4, <1>6, FreeType, Bounds DEF Numbered
<1>9. OpenSessionHasTimer' /\ RuleIsTold' /\ QosOfSession' /\ Turns'
  BY <1>3, <1>5 DEF OpenSessionHasTimer, RuleIsTold, QosOfSession, Turns
<1>10. SessionStateIsItsOwn'
  <2>1. cli' = [Reset EXCEPT !.acs_server_host = cli'.acs_server_host, !.acs_server_ip = cli'.acs_server_ip]
    BY <1>1 DEF Reset
  <2>2. cli'.jar = {} /\ cli'.auth_hdr = NULL /\ cli'.pending_msg = NULL
    BY <1>1, ResetType
  <2> QED  BY <1>3, <2>1, <2>2 DEF SessionStateIsItsOwn, Own
<1>11. StatusIsOwn'
  BY <1>1, ResetType DEF StatusIsOwn
<1> QED  BY <1>7, <1>8, <1>9, <1>10, <1>11 DEF IInv

\* A connection is done with its body: the turn may go to the engine.
LEMMA BodyDone ==
  ASSUME IInv, NEW c \in Conns, conns[c].st = "body", Callback(c), Move(c, "done"), Outside,
         UNCHANGED <<cli, timers, finished>>,
         \/ engine' = engine
         \/ engine' = [engine EXCEPT !.turn = engine.open] /\ cli.http_status = 200
  PROVE  IInv'
<1> DEFINE x == [st |-> "done", sess |-> conns[c].sess, got |-> 0]
<1>1. x \in ConnTypes /\ x.st = "done" /\ x.sess = conns[c].sess
  BY MovedType DEF IInv
<1>2. conns' = [conns EXCEPT ![c] = x]
  BY Moves DEF IInv
<1>3. /\ engine' \in Engines /\ engine'.open = engine.open /\ engine'.id = engine.id
      /\ engine'.turn = engine.turn \/ cli.http_status = 200
  <2>1. engine \in Engines
    BY CliType DEF IInv
  <2>2. CASE engine' = engine
    BY <2>1, <2>2
  <2>3. CASE engine' = [engine EXCEPT !.turn = engine.open] /\ cli.http_status = 200
    BY <2>1, <2>3, EngineMoves
  <2> QED  BY <2>2, <2>3
<1>4. /\ SameSession /\ timers' \in Timers /\ ACSIP' \in Ips \cup {NULL} /\ restarts' = restarts
      /\ cli' \in Clis /\ finished' \in BOOLEAN
  BY <1>3, CliType DEF SameSession, IInv, TypeOK, Outside
<1> HIDE DEF x
<1>5. /\ TypeOK' /\ Numbered' /\ OpenSessionHasTimer' /\ RuleIsTold' /\ QosOfSession'
      /\ late \/ ~Own(c) => IInv'
      /\ \A d \in Conns \ {c} : Own(d)' = Own(d) /\ conns'[d] = conns[d]
  BY <1>1, <1>2, <1>3, <1>4, CallbackFrame
<1> SUFFICES ASSUME ~late, Own(c) PROVE IInv'
  BY <1>5
<1>6. /\ engine.open /\ timers.retry # engine.id /\ ~engine.turn /\ conns[c].sess = engine.id
      /\ \A d \in Conns : Own(d) => d = c
  BY OwnConnection
<1>7. conns'[c] = x /\ \A d \in Conns \ {c} : ~Own(d)'
  BY <1>1, <1>2, <1>5, <1>6, Moving
<1>8. SessionStateIsItsOwn'
  BY <1>1, <1>3, <1>6, <1>7 DEF SessionStateIsItsOwn, IInv
<1>9. Turns'
  BY <1>1, <1>3, <1>6, <1>7 DEF Turns
<1>10. StatusIsOwn'
  BY DEF StatusIsOwn, IInv
<1> QED  BY <1>5, <1>8, <1>9, <1>10 DEF IInv

\* cwmp_client_http_complete_cb.
LEMMA CompleteStep ==
  ASSUME IInv, NEW c \in Conns, Complete(c)
  PROVE  IInv'
<1>1. CASE End /\ UNCHANGED ACSIP
  BY <1>1, EndStep
<1>2. conns[c].st = "body"
  BY DEF Complete
<1>3. CASE CloseSession(FALSE) /\ Move(c, "done") /\ UNCHANGED timers /\ Outside
  <2> DEFINE x == [st |-> "done", sess |-> conns[c].sess, got |-> 0]
  <2>1. x \in ConnTypes /\ x.st = "done" /\ x.sess = conns[c].sess /\ conns' = [conns EXCEPT ![c] = x]
    BY <1>3, MovedType, Moves DEF IInv
  <2> HIDE DEF x
  <2>2. conns' \in [Conns -> ConnTypes] /\ conns'[c] = x /\ \A d \in Conns \ {c} : conns'[d] = conns[d]
    BY <2>1, Moving
  <2>3. timers' \in Timers /\ timers'.retry = timers.retry /\ FALSE \in BOOLEAN
    BY <1>3, CliType DEF IInv
  <2>4. \A d \in Conns : conns'[d] \in {conns[d], Free}
                          \/ (/\ conns'[d].sess = conns[d].sess
                              /\ conns'[d].st # "free" /\ conns[d].st # "free")
    BY <1>2, <2>1, <2>2
  <2> QED  BY <1>3, <2>2, <2>3, <2>4, Closing
<1>4. CASE /\ Callback(c) /\ Move(c, "done") /\ Outside /\ UNCHANGED <<cli, timers, finished>>
           /\ \/ engine' = engine
              \/ engine' = [engine EXCEPT !.turn = engine.open] /\ cli.http_status = 200
  BY <1>2, <1>4, BodyDone
<1> QED  BY <1>1, <1>3, <1>4 DEF Complete

\* A connection is closed, and the session with it.
LEMMA ClosedWithSession ==
  ASSUME IInv, NEW c \in Conns, NEW ok \in BOOLEAN, CloseSession(ok), Outside, UNCHANGED timers,
         conns' = [conns EXCEPT ![c] = Free]
  PROVE  IInv'
<1>1. conns' \in [Conns -> ConnTypes] /\ conns'[c] = Free /\ \A d \in Conns \ {c} : conns'[d] = conns[d]
  BY FreeType, Moving
<1>2. timers' \in Timers /\ timers'.retry = timers.retry
  BY CliType DEF IInv
<1>3. \A d \in Conns : conns'[d] \in {conns[d], Free}
                          \/ (/\ conns'[d].sess = conns[d].sess
                              /\ conns'[d].st # "free" /\ conns[d].st # "free")
  BY <1>1
<1> QED  BY <1>1, <1>2, <1>3, Closing

\* A connection is closed, and the session goes on: the engine has its turn
\* already, or a retry is due.
LEMMA ClosedWithoutSession ==
  ASSUME IInv, NEW c \in Conns, conns[c].st \in {"body", "done"}, Callback(c), Outside,
         NEW x \in ConnTypes, x = Free, x.st = "free",
         conns' = [conns EXCEPT ![c] = x], UNCHANGED <<engine, cli, finished>>,
         timers' \in Timers, timers'.session = timers.session,
         timers'.retry \in {timers.retry, conns[c].sess},
         timers'.retry = timers.retry \/ cli.http_status = 401
  PROVE  IInv'
<1>2. timers'.retry = timers.retry \/ (timers'.retry = conns[c].sess /\ cli.http_status = 401)
  OBVIOUS
<1>3. /\ SameSession /\ engine' \in Engines /\ ACSIP' \in Ips \cup {NULL} /\ restarts' = restarts
      /\ cli' \in Clis /\ finished' \in BOOLEAN
  BY CliType DEF SameSession, IInv, TypeOK, Outside
<1>4. /\ TypeOK' /\ Numbered' /\ OpenSessionHasTimer' /\ RuleIsTold' /\ QosOfSession'
      /\ late \/ ~Own(c) => IInv'
      /\ \A d \in Conns \ {c} : Own(d)' = Own(d) /\ conns'[d] = conns[d]
      /\ ~Own(c)'
  <2>1. conns[c].st # "free"
    OBVIOUS
  <2>2. /\ TypeOK' /\ Numbered' /\ OpenSessionHasTimer' /\ RuleIsTold' /\ QosOfSession'
        /\ late \/ ~Own(c) => IInv'
        /\ \A d \in Conns \ {c} : Own(d)' = Own(d) /\ conns'[d] = conns[d]
        /\ Own(c)' => Own(c) /\ x.st # "free"
    BY <1>3, <2>1, CallbackFrame, ZenonT(40)
  <2> QED  BY <2>2
<1> SUFFICES ASSUME ~late, Own(c) PROVE IInv'
  BY <1>4
<1>5. /\ engine.open /\ timers.retry # engine.id /\ conns[c].sess = engine.id
      /\ conns[c].st = "body" => ~engine.turn /\ \A d \in Conns : Own(d) => d = c
      /\ \A d \in Conns : Own(d) => d = c \/ conns[d].st = "connecting"
  BY OwnConnection
<1>6. cli.http_status = 401 => ~engine.turn /\ \A d \in Conns : Own(d) => d = c
  BY <1>5 DEF IInv, Turns
<1>7. SessionStateIsItsOwn'
  <2>1. ASSUME NEW d \in Conns, Own(d)', conns'[d].st = "body"
        PROVE  cli'.rcv_buf = [i \in 1 .. conns'[d].got |-> d]
    BY <1>4, <1>5, <2>1
  <2> QED  BY <1>5, <2>1 DEF SessionStateIsItsOwn, IInv
<1>8. Turns'
  <2>1. \A d \in Conns : Own(d)' => Own(d) /\ conns'[d] = conns[d]
    BY <1>4
  <2>2. timers'.retry = engine.id => \A d \in Conns : ~Own(d)'
    BY <1>2, <1>4, <1>5, <1>6
  <2>3. engine.turn => timers'.retry # engine.id
    BY <1>2, <1>5, <1>6
  <2> QED  BY <1>5, <2>1, <2>2, <2>3 DEF Turns, IInv
<1>9. StatusIsOwn'
  BY DEF StatusIsOwn, IInv
<1> QED  BY <1>4, <1>7, <1>8, <1>9 DEF IInv

\* cwmp_client_connection_closed_cb, cwmp_client_connection_error_cb.
LEMMA ClosedStep ==
  ASSUME IInv, NEW c \in Conns, Closed(c) \/ ConnectionError(c)
  PROVE  IInv'
<1>1. CASE ConnectionError(c)
  BY <1>1, ClosedWithSession DEF ConnectionError
<1>2. CASE Closed(c)
  <2>1. conns[c].st \in {"body", "done"} /\ conns' = [conns EXCEPT ![c] = Free] /\ Outside
    BY <1>2 DEF Closed
  <2>2. CASE CloseSession(TRUE) /\ UNCHANGED timers
    BY <2>1, <2>2, ClosedWithSession
  <2>3. CASE CloseSession(FALSE) /\ UNCHANGED timers
    BY <2>1, <2>3, ClosedWithSession
  <2>4. CASE /\ Callback(c) /\ UNCHANGED <<engine, cli, finished>>
             /\ \/ timers' = timers
                \/ timers' = [timers EXCEPT !.retry = conns[c].sess] /\ cli.http_status = 401
    <3>1. timers \in Timers /\ conns[c] \in ConnTypes
      BY CliType DEF IInv
    <3>2. /\ timers' \in Timers /\ timers'.session = timers.session
          /\ timers'.retry \in {timers.retry, conns[c].sess}
          /\ timers'.retry = timers.retry \/ cli.http_status = 401
      BY <2>4, <3>1 DEF Timers, ConnTypes
    <3> QED  BY <2>1, <2>4, <3>2, FreeType, ClosedWithoutSession
  <2> QED  BY <1>2, <2>2, <2>3, <2>4 DEF Closed
<1> QED  BY <1>1, <1>2


-----------------------------------------------------------------------------
(***************************************************************************)
(* Sending, starting a session, timers.                                    *)
(***************************************************************************)

\* A message is taken, and perhaps a connection made for it.  In a session that
\* nothing disturbed, every other connection is done, with 200, and no retry
\* is due.
LEMMA Sending ==
  ASSUME IInv, NEW p \in Ids, cli' = [cli EXCEPT !.pending_msg = p],
         conns' \in [Conns -> ConnTypes],
         \A d \in Conns : conns'[d] = conns[d]
                          \/ (/\ conns[d].st = "free"
                              /\ conns'[d].st = "connecting" /\ conns'[d].sess = engine.id),
         \A d, e \in Conns : conns'[d] # conns[d] /\ conns'[e] # conns[e] => d = e,
         timers' \in Timers, timers'.session = "off" => timers.session = "off",
         timers'.retry \in {timers.retry, 0},
         engine' \in Engines, engine'.open = engine.open, engine'.id = engine.id, engine.id >= 1,
         Outside, finished' = finished, late' \in BOOLEAN,
         ~late' => /\ ~late /\ engine.open /\ ~engine'.turn /\ timers'.retry # engine.id
                   /\ p \in {NULL, engine.id}
                   /\ \A c \in Conns : Own(c) => conns[c].st = "done" /\ cli.http_status = 200
                   /\ \A c, d \in Conns : Own(c) /\ Own(d) => c = d
  PROVE  IInv'
<1>1. cli \in Clis /\ engine.id \in 0 .. MaxSessions
  BY CliType, EngineMoves DEF IInv
<1>2. /\ cli' \in Clis /\ cli'.pending_msg = p /\ cli'.http_status = cli.http_status
      /\ cli'.rcv_buf = cli.rcv_buf /\ cli'.jar = cli.jar /\ cli'.auth_hdr = cli.auth_hdr
      /\ cli'.acs_server_host = cli.acs_server_host /\ cli'.acs_server_ip = cli.acs_server_ip
  BY <1>1 DEF Clis
<1>3. SameSession
  BY <1>2 DEF SameSession, Outside
<1>4. TypeOK'
  <2>1. /\ ACSIP' \in Ips \cup {NULL} /\ session_timeout' \in Nat /\ qos' \in Rules
        /\ restarts' \in 0 .. MaxRestarts /\ finished' \in BOOLEAN
    BY CliType DEF IInv, TypeOK, Outside
  <2> QED  BY <1>2, <2>1, TypeNext DEF IInv
<1>5. Numbered'
  <2>1. timers'.retry <= engine.id
    <3>1. timers.retry <= engine.id
      BY DEF IInv, Numbered
    <3> QED  BY <1>1, <3>1, Bounds
  <2>2. ASSUME NEW d \in Conns
        PROVE  conns'[d].sess <= engine.id /\ (conns'[d].st = "free" <=> conns'[d].sess = 0)
    <3>1. conns[d].sess <= engine.id /\ (conns[d].st = "free" <=> conns[d].sess = 0)
      BY DEF IInv, Numbered
    <3>2. CASE conns'[d] = conns[d]
      BY <3>1, <3>2
    <3>3. CASE conns'[d].st = "connecting" /\ conns'[d].sess = engine.id
      BY <1>1, <3>3, Bounds
    <3> QED  BY <3>2, <3>3
  <2> QED  BY <2>1, <2>2 DEF Numbered
<1>6. CASE late' = TRUE
  BY <1>3, <1>4, <1>5, <1>6, Interfering
<1>7. CASE ~late'
  <2>1. /\ ~late /\ engine.open /\ ~engine'.turn /\ timers'.retry # engine.id
        /\ p \in {NULL, engine.id}
        /\ \A c \in Conns : Own(c) => conns[c].st = "done" /\ cli.http_status = 200
        /\ \A c, d \in Conns : Own(c) /\ Own(d) => c = d
    BY <1>7
  <2>2. \A d \in Conns : Own(d)' => \/ Own(d) /\ conns'[d] = conns[d]
                                    \/ conns'[d].st = "connecting" /\ conns'[d] # conns[d]
    BY DEF Own
  <2>3. OpenSessionHasTimer' /\ RuleIsTold' /\ QosOfSession'
    BY <1>3, Staying
  <2>4. SessionStateIsItsOwn'
    <3>1. \A d \in Conns : Own(d)' => conns'[d].st # "body"
      BY <2>1, <2>2
    <3> QED  BY <1>2, <2>1, <3>1 DEF SessionStateIsItsOwn, IInv
  <2>5. Turns'
    <3>1. \A c, d \in Conns : Own(c)' /\ Own(d)' /\ c # d =>
             \/ conns'[c].st = "done" /\ conns'[d].st = "connecting"
             \/ conns'[d].st = "done" /\ conns'[c].st = "connecting"
      BY <2>1, <2>2
    <3>2. \A c \in Conns : Own(c)' /\ conns'[c].st = "done" => cli'.http_status = 200
      BY <1>2, <2>1, <2>2
    <3>3. \A c \in Conns : Own(c)' => conns'[c].st # "written"
      BY <2>1, <2>2
    <3> QED  BY <2>1, <3>1, <3>2, <3>3 DEF Turns
  <2>6. StatusIsOwn'
    BY <1>2, <2>1 DEF StatusIsOwn, IInv
  <2> QED  BY <1>4, <1>5, <2>3, <2>4, <2>5, <2>6 DEF IInv
<1> QED  BY <1>6, <1>7

\* DM_SendHttpMessage, as the engine or the retry calls it.
LEMMA SendStep ==
  ASSUME IInv, NEW m \in Ids, NEW ts \in Timers, SendMessage(m, ts),
         ts.session = timers.session, ts.retry \in {timers.retry, 0},
         engine' \in Engines, engine'.open = engine.open, engine'.id = engine.id, engine.id >= 1,
         Outside, finished' = finished, late' \in BOOLEAN,
         ~late' => /\ ~late /\ engine.open /\ ~engine'.turn /\ ts.retry # engine.id
                   /\ m \in {NULL, engine.id}
                   /\ \A c \in Conns : Own(c) => conns[c].st = "done" /\ cli.http_status = 200
                   /\ \A c, d \in Conns : Own(c) /\ Own(d) => c = d
  PROVE  IInv'
<1>1. conns \in [Conns -> ConnTypes] /\ engine.id \in 0 .. MaxSessions /\ NULL \in Ids
  BY CliType, EngineMoves, CliValues DEF IInv
<1>2. CASE \E c \in Conns : SendOn(c, m, ts)
  <2>1. PICK c \in Conns : SendOn(c, m, ts)
    BY <1>2
  <2> DEFINE x == [st |-> "connecting", sess |-> engine.id, got |-> 0]
  <2>2. x \in ConnTypes /\ x.st = "connecting" /\ x.sess = engine.id
    BY <1>1, Bounds DEF ConnTypes
  <2>3. /\ conns[c] = Free /\ conns' = [conns EXCEPT ![c] = x]
        /\ cli' = [cli EXCEPT !.pending_msg = m] /\ timers' = StartTimer(ts)
    BY <2>1 DEF SendOn
  <2> HIDE DEF x
  <2>4. conns' \in [Conns -> ConnTypes] /\ conns'[c] = x /\ \A d \in Conns \ {c} : conns'[d] = conns[d]
    BY <2>2, <2>3, Moving
  <2>5. timers' \in Timers /\ timers'.session = "fresh" /\ timers'.retry = ts.retry
    BY <2>3 DEF StartTimer, Timers
  <2>6. /\ \A d \in Conns : conns'[d] = conns[d]
                          \/ (/\ conns[d].st = "free"
                              /\ conns'[d].st = "connecting" /\ conns'[d].sess = engine.id)
        /\ \A d, e \in Conns : conns'[d] # conns[d] /\ conns'[e] # conns[e] => d = e
    BY <2>2, <2>3, <2>4, FreeType
  <2>7. /\ timers'.session = "off" => timers.session = "off"
        /\ timers'.retry \in {timers.retry, 0}
    BY <2>5
  <2> QED  BY <2>3, <2>4, <2>5, <2>6, <2>7, Sending
<1>3. CASE SendFails(m, ts)
  <2>1. PICK p \in Ids : cli' = [cli EXCEPT !.pending_msg = p] /\ p \in {m, NULL}
    BY <1>1, <1>3 DEF SendFails
  <2>2. timers' = ts /\ conns' = conns
    BY <1>3 DEF SendFails
  <2>3. /\ conns' \in [Conns -> ConnTypes]
        /\ \A d \in Conns : conns'[d] = conns[d]
        /\ timers' \in Timers /\ timers'.session = timers.session /\ timers'.retry = ts.retry
    BY <1>1, <2>2
  <2> QED  BY <2>1, <2>3, Sending
<1> QED  BY <1>2, <1>3 DEF SendMessage

\* The engine has its turn.
LEMMA EngineSendsStep ==
  ASSUME IInv, EngineSends
  PROVE  IInv'
<1>1. /\ engine.open /\ engine.turn /\ engine' = [engine EXCEPT !.turn = FALSE]
      /\ SendMessage(engine.id, timers) /\ late' = late /\ finished' = finished /\ Outside
  BY DEF EngineSends
<1>2. engine \in Engines /\ timers \in Timers
  BY CliType DEF IInv
<1>3. engine' \in Engines /\ engine'.open = engine.open /\ engine'.id = engine.id /\ ~engine'.turn
  BY <1>1, <1>2, EngineMoves
<1>4. engine.id >= 1 /\ engine.id \in Ids
  <2>1. engine.id >= 1 /\ engine.id \in 0 .. MaxSessions
    BY <1>1, <1>2, EngineMoves DEF IInv, Numbered
  <2> QED  BY <2>1, Bounds DEF Ids, SessionIds
<1>5. late' \in BOOLEAN
  BY <1>1 DEF IInv, TypeOK
<1>6. ~late => /\ timers.retry # engine.id
               /\ \A c \in Conns : Own(c) => conns[c].st = "done" /\ cli.http_status = 200
               /\ \A c, d \in Conns : Own(c) /\ Own(d) => c = d
  <2>1. ASSUME ~late, NEW c \in Conns, Own(c)
        PROVE  conns[c].st = "done" /\ cli.http_status = 200
    BY <1>1, <2>1 DEF IInv, Turns
  <2>2. ASSUME ~late, NEW c \in Conns, NEW d \in Conns, Own(c), Own(d), c # d
        PROVE  FALSE
    BY <1>1, <2>1, <2>2 DEF IInv, Turns
  <2> QED  BY <1>1, <2>1, <2>2 DEF IInv, Turns
<1> QED  BY <1>1, <1>2, <1>3, <1>4, <1>5, <1>6, SendStep

\* cwmp_client_auth_retry.
LEMMA AuthRetryStep ==
  ASSUME IInv, AuthRetry
  PROVE  IInv'
<1> DEFINE ts == [timers EXCEPT !.retry = 0]
<1>1. /\ timers.retry # 0
      /\ \/ SendMessage(cli.pending_msg, ts)
         \/ timers' = ts /\ UNCHANGED <<cli, conns>>
      /\ late' = (late \/ ~(engine.open /\ timers.retry = engine.id))
      /\ UNCHANGED <<engine, finished>> /\ Outside
  BY DEF AuthRetry
<1>2. engine \in Engines /\ timers \in Timers /\ cli \in Clis /\ conns \in [Conns -> ConnTypes]
  BY CliType DEF IInv
<1>3. ts \in Timers /\ ts.session = timers.session /\ ts.retry = 0
  BY <1>2, Bounds DEF Timers
<1> HIDE DEF ts
<1>4. engine.id >= 1
  <2>1. timers.retry \in 0 .. MaxSessions /\ engine.id \in 0 .. MaxSessions /\ timers.retry <= engine.id
    BY <1>2, EngineMoves DEF IInv, Numbered, Timers
  <2> QED  BY <1>1, <2>1, Bounds
<1>5. late' \in BOOLEAN
  BY <1>1 DEF IInv, TypeOK
<1>6. ASSUME ~late'
      PROVE  /\ ~late /\ engine.open /\ ~engine.turn /\ ts.retry # engine.id
             /\ cli.pending_msg \in {NULL, engine.id}
             /\ \A c \in Conns : ~Own(c)
  <2>1. ~late /\ engine.open /\ timers.retry = engine.id
    BY <1>1, <1>6
  <2>2. ~engine.turn /\ \A c \in Conns : ~Own(c)
    BY <2>1 DEF IInv, Turns
  <2>3. cli.pending_msg \in {NULL, engine.id}
    BY <2>1 DEF IInv, SessionStateIsItsOwn
  <2>4. ts.retry # engine.id
    BY <1>3, <1>4
  <2> QED  BY <2>1, <2>2, <2>3, <2>4
<1>7. cli.pending_msg \in Ids
  BY <1>2 DEF Clis
<1>8. CASE SendMessage(cli.pending_msg, ts)
  <2>1. engine' \in Engines /\ engine'.open = engine.open /\ engine'.id = engine.id /\ engine'.turn = engine.turn
    BY <1>1, <1>2
  <2> QED  BY <1>1, <1>3, <1>4, <1>5, <1>6, <1>7, <1>8, <2>1, SendStep
<1>9. CASE timers' = ts /\ UNCHANGED <<cli, conns>>
  <2>1. PICK p \in Ids : p = cli.pending_msg
    BY <1>7
  <2>2. cli' = [cli EXCEPT !.pending_msg = p]
    BY <1>2, <1>9, <2>1 DEF Clis
  <2>3. engine' \in Engines /\ engine'.open = engine.open /\ engine'.id = engine.id /\ engine'.turn = engine.turn
    BY <1>1, <1>2
  <2>4. /\ conns' \in [Conns -> ConnTypes] /\ \A d \in Conns : conns'[d] = conns[d]
        /\ timers' \in Timers /\ timers'.session = timers.session /\ timers'.retry = 0
    BY <1>2, <1>3, <1>9
  <2>5. ~late' => /\ ~late /\ engine.open /\ ~engine'.turn /\ timers'.retry # engine.id
                  /\ p \in {NULL, engine.id}
                  /\ \A c \in Conns : Own(c) => conns[c].st = "done" /\ cli.http_status = 200
                  /\ \A c, d \in Conns : Own(c) /\ Own(d) => c = d
    BY <1>3, <1>6, <2>1, <2>3, <2>4
  <2> QED  BY <1>1, <1>4, <1>5, <2>2, <2>3, <2>4, <2>5, Sending
<1> QED  BY <1>1, <1>8, <1>9

\* update_qos_info leaves the rule of the address and port it was given.
LEMMA QosUpdate ==
  ASSUME NEW q \in Rules, q.ip # NULL => q.rule = <<q.ip, q.port>>,
         NEW ip \in Addrs, NEW port \in Nat \ {0}
  PROVE  LET u == update_qos_info(q, ip, port)
         IN  /\ u \in Rules
             /\ u.ip # NULL => u.rule = <<u.ip, u.port>>
             /\ ip # NULL => u.rule = <<ip, port>>
<1>1. CASE q.ip = ip /\ q.port = port
  BY <1>1 DEF update_qos_info
<1>2. CASE ~(q.ip = ip /\ q.port = port)
  <2> DEFINE r == IF ip # NULL THEN <<ip, port>> ELSE NULL
  <2>1. r \in (Ips \X Nat) \cup {NULL} /\ (ip # NULL => r = <<ip, port>>)
    BY DEF Addrs
  <2>2. update_qos_info(q, ip, port) = [ip |-> ip, port |-> port, rule |-> r]
    BY <1>2 DEF update_qos_info
  <2> HIDE DEF r
  <2> QED  BY <2>1, <2>2 DEF Rules, Addrs
<1> QED  BY <1>1, <1>2

\* client_startSession.
LEMMA StartSessionStep ==
  ASSUME IInv, NEW url \in Urls, StartSession(url)
  PROVE  IInv'
<1>1. PICK a \in Addresses(url) :
         LET parsed == update_qos_info(qos, cli.acs_server_ip, PortOf(url))
             chosen == [cli EXCEPT !.acs_server_host = url, !.acs_server_ip = a.ip]
         IN  /\ qos' = IF a.unread THEN parsed ELSE update_qos_info(parsed, a.ip, PortOf(url))
             /\ \/ /\ a.ip = NULL \/ a.unread
                   /\ cli' = chosen
                   /\ UNCHANGED <<engine, session_timeout, timers>>
                \/ /\ a.ip # NULL /\ ~a.unread
                   /\ engine' = [Idle EXCEPT !.open = TRUE, !.id = engine.id + 1, !.turn = TRUE]
                   /\ cli' \in IF url \in HttpsUrls
                               THEN {chosen, [chosen EXCEPT !.auth_hdr = engine'.id]}
                               ELSE {chosen}
                   /\ session_timeout' \in {NewTimeout}
                        \cup {IF session_timeout <= 0 THEN DEFAULT_SESSION_TIMEOUT ELSE session_timeout}
                   /\ timers' = StartTimer(timers)
  BY DEF StartSession
<1>2. /\ ~engine.open /\ engine.id < MaxSessions
      /\ UNCHANGED <<ACSIP, conns, late, finished, restarts>>
  BY DEF StartSession
<1>3. /\ engine.id \in 0 .. MaxSessions /\ qos \in Rules /\ cli \in Clis /\ timers \in Timers
      /\ conns \in [Conns -> ConnTypes] /\ cli.acs_server_ip \in Addrs /\ ACSIP \in Addrs
  <2>1. cli \in Clis /\ engine \in Engines
    BY CliType DEF IInv
  <2> QED  BY <2>1, CliType, EngineMoves DEF IInv, Clis, TypeOK, Addrs
<1>4. a.ip \in Addrs
  <2>1. HostIp[url] \in Ips \cup {NULL}
    BY ClientAssumption
  <2>2. CASE a = [ip |-> HostIp[url], unread |-> FALSE]
    BY <2>1, <2>2 DEF Addrs
  <2>3. CASE a \in [ip : Ips \cup {NULL}, unread : {FALSE}]
    BY <2>3 DEF Addrs
  <2>4. CASE a \in [ip : {ACSIP, cli.acs_server_ip} \ {NULL}, unread : {TRUE}]
    <3>1. a.ip \in {ACSIP, cli.acs_server_ip}
      BY <2>4
    <3> QED  BY <1>3, <3>1
  <2> QED  BY <2>2, <2>3, <2>4 DEF Addresses
<1>5. PortOf(url) \in Nat \ {0}
  BY ClientAssumption DEF PortOf, DEFAULT_PORT
<1> DEFINE parsed == update_qos_info(qos, cli.acs_server_ip, PortOf(url))
           told   == update_qos_info(parsed, a.ip, PortOf(url))
<1>6. parsed \in Rules /\ (parsed.ip # NULL => parsed.rule = <<parsed.ip, parsed.port>>)
  BY <1>3, <1>5, QosUpdate DEF IInv, RuleIsTold
<1>7. told \in Rules /\ (told.ip # NULL => told.rule = <<told.ip, told.port>>)
      /\ (a.ip # NULL => told.rule = <<a.ip, PortOf(url)>>)
  <2> HIDE DEF parsed
  <2> QED  BY <1>4, <1>5, <1>6, QosUpdate
<1>8. qos' = (IF a.unread THEN parsed ELSE told)
  BY <1>1
<1> HIDE DEF parsed, told
<1>9. /\ qos' \in Rules /\ RuleIsTold'
      /\ a.ip # NULL /\ ~a.unread => qos'.rule = <<a.ip, PortOf(url)>>
  BY <1>6, <1>7, <1>8 DEF RuleIsTold
<1> DEFINE chosen == [cli EXCEPT !.acs_server_host = url, !.acs_server_ip = a.ip]
<1>10. /\ chosen \in Clis /\ chosen.http_status = cli.http_status /\ chosen.jar = cli.jar
       /\ chosen.auth_hdr = cli.auth_hdr /\ chosen.pending_msg = cli.pending_msg
       /\ chosen.acs_server_host = url /\ chosen.acs_server_ip = a.ip
  <2>1. url \in Places
    BY CliValues
  <2> QED  BY <1>3, <1>4, <2>1 DEF Clis
<1>11. /\ ACSIP' \in Ips \cup {NULL} /\ late' \in BOOLEAN /\ finished' \in BOOLEAN
       /\ restarts' \in 0 .. MaxRestarts /\ conns' \in [Conns -> ConnTypes]
  BY <1>2, <1>3 DEF IInv, TypeOK
<1>12. CASE cli' = chosen /\ UNCHANGED <<engine, session_timeout, timers>>
  <2>1. TypeOK'
    <3>1. engine' \in Engines /\ session_timeout' \in Nat /\ timers' \in Timers /\ cli' \in Clis
      BY <1>3, <1>10, <1>12, CliType DEF IInv, TypeOK
    <3> QED  BY <1>9, <1>11, <3>1, TypeNext DEF IInv
  <2>2. Numbered' /\ OpenSessionHasTimer' /\ QosOfSession' /\ Turns'
    BY <1>2, <1>12 DEF IInv, Numbered, OpenSessionHasTimer, QosOfSession, Turns
  <2>3. SessionStateIsItsOwn'
    <3>1. ASSUME ~late
          PROVE  cli' = [Reset EXCEPT !.acs_server_host = cli'.acs_server_host, !.acs_server_ip = cli'.acs_server_ip]
      <4>1. cli = [Reset EXCEPT !.acs_server_host = cli.acs_server_host, !.acs_server_ip = cli.acs_server_ip]
        BY <1>2, <3>1 DEF IInv, SessionStateIsItsOwn
      <4> QED  BY <1>10, <1>12, <4>1 DEF Reset
    <3> HIDE DEF chosen
    <3>2. ~late => cli.jar = {} /\ cli.auth_hdr = NULL /\ cli.pending_msg = NULL
      BY <1>2 DEF IInv, SessionStateIsItsOwn
    <3>3. cli'.jar = cli.jar /\ cli'.auth_hdr = cli.auth_hdr /\ cli'.pending_msg = cli.pending_msg
      BY <1>10, <1>12
    <3> QED  BY <1>2, <1>12, <3>1, <3>2, <3>3 DEF SessionStateIsItsOwn, Own
  <2>4. StatusIsOwn'
    BY <1>2, <1>10, <1>12 DEF StatusIsOwn, IInv
  <2> QED  BY <1>9, <2>1, <2>2, <2>3, <2>4 DEF IInv
<1>13. CASE /\ a.ip # NULL /\ ~a.unread
            /\ engine' = [Idle EXCEPT !.open = TRUE, !.id = engine.id + 1, !.turn = TRUE]
            /\ cli' \in {chosen, [chosen EXCEPT !.auth_hdr = engine'.id]}
            /\ session_timeout' \in {NewTimeout}
                 \cup {IF session_timeout <= 0 THEN DEFAULT_SESSION_TIMEOUT ELSE session_timeout}
            /\ timers' = StartTimer(timers)
  <2> HIDE DEF chosen
  <2>1. /\ engine' \in Engines /\ engine'.open /\ engine'.turn /\ engine'.id = engine.id + 1
        /\ engine'.id \in SessionIds
    <3>1. engine' = [open |-> TRUE, id |-> engine.id + 1, turn |-> TRUE, result |-> "none"]
      BY <1>13 DEF Idle
    <3>2. engine.id + 1 \in 0 .. MaxSessions /\ engine.id + 1 \in SessionIds
      BY <1>2, <1>3, Bounds DEF SessionIds
    <3> QED  BY <3>1, <3>2 DEF Engines
  <2>2. PICK h \in Ids : h \in {cli.auth_hdr, engine'.id} /\ cli' = [chosen EXCEPT !.auth_hdr = h]
    <3>1. engine'.id \in Ids /\ chosen.auth_hdr \in Ids
      BY <1>10, <2>1, CliValues DEF Clis
    <3>2. chosen = [chosen EXCEPT !.auth_hdr = chosen.auth_hdr]
      BY <1>10 DEF Clis
    <3> QED  BY <1>10, <1>13, <3>1, <3>2
  <2>3. /\ cli' \in Clis /\ cli'.http_status = cli.http_status /\ cli'.jar = cli.jar
        /\ cli'.auth_hdr = h /\ cli'.pending_msg = cli.pending_msg
        /\ cli'.acs_server_host = url /\ cli'.acs_server_ip = a.ip
    BY <1>10, <2>2 DEF Clis
  <2>4. session_timeout' \in Nat /\ session_timeout' > 0
    BY <1>13, ClientAssumption DEF NewTimeout, DEFAULT_SESSION_TIMEOUT, IInv, TypeOK
  <2>5. timers' \in Timers /\ timers'.session = "fresh" /\ timers'.retry = timers.retry
    BY <1>3, <1>13 DEF StartTimer, Timers
  <2>6. TypeOK'
    BY <1>9, <1>11, <2>1, <2>3, <2>4, <2>5, TypeNext DEF IInv
  <2>7. timers'.retry <= engine.id /\ \A c \in Conns : conns'[c].sess <= engine.id /\ conns'[c] = conns[c]
    BY <1>2, <2>5 DEF IInv, Numbered
  <2>8. Numbered'
    <3>1. timers'.retry \in 0 .. MaxSessions /\ \A c \in Conns : conns'[c].sess \in 0 .. MaxSessions
      BY <1>11, <2>5 DEF Timers, ConnTypes
    <3>2. timers'.retry <= engine'.id /\ \A c \in Conns : conns'[c].sess <= engine'.id
      BY <1>3, <2>1, <2>7, <3>1, Bounds
    <3>3. engine'.id >= 1
      BY <1>3, <2>1, Bounds
    <3>4. \A c \in Conns : conns'[c].st = "free" <=> conns'[c].sess = 0
      BY <2>7 DEF IInv, Numbered
    <3> QED  BY <3>2, <3>3, <3>4 DEF Numbered
  <2>9. timers'.retry # engine'.id /\ \A c \in Conns : ~Own(c)'
    <3>1. timers'.retry # engine'.id /\ \A c \in Conns : conns'[c].sess # engine'.id
      <4>1. timers'.retry \in 0 .. MaxSessions /\ \A c \in Conns : conns'[c].sess \in 0 .. MaxSessions
        BY <1>11, <2>5 DEF Timers, ConnTypes
      <4> QED  BY <1>3, <2>1, <2>7, <4>1, Bounds
    <3> QED  BY <3>1 DEF Own
  <2>10. OpenSessionHasTimer' /\ Turns'
    BY <2>4, <2>5, <2>9 DEF OpenSessionHasTimer, Turns
  <2>11. QosOfSession'
    <3>1. PortOf(cli'.acs_server_host) = PortOf(url)
      BY <2>3
    <3> QED  BY <1>9, <1>13, <2>3, <3>1 DEF QosOfSession, PortOf
  <2>12. SessionStateIsItsOwn'
    <3>1. ~late => cli.jar = {} /\ cli.auth_hdr = NULL /\ cli.pending_msg = NULL
      BY <1>2 DEF IInv, SessionStateIsItsOwn
    <3> QED  BY <1>2, <2>1, <2>2, <2>3, <2>9, <3>1 DEF SessionStateIsItsOwn
  <2>13. StatusIsOwn'
    BY <1>2, <2>3 DEF StatusIsOwn, IInv
  <2> QED  BY <1>9, <2>6, <2>8, <2>10, <2>11, <2>12, <2>13 DEF IInv
<1> QED  BY <1>1, <1>12, <1>13

\* The engine gives up; the session timer fires.
LEMMA GivenUpStep ==
  ASSUME IInv, EngineCloses \/ SessionTimer
  PROVE  IInv'
<1>1. CloseSession(FALSE) /\ Outside /\ conns' = conns /\ FALSE \in BOOLEAN
  BY DEF EngineCloses, SessionTimer
<1>2. timers \in Timers /\ conns \in [Conns -> ConnTypes]
  BY CliType DEF IInv
<1>3. timers' \in Timers /\ timers'.retry = timers.retry
  BY <1>2 DEF EngineCloses, SessionTimer, Timers
<1>4. conns' \in [Conns -> ConnTypes] /\ \A c \in Conns : conns'[c] = conns[c]
  BY <1>1, <1>2
<1> QED  BY <1>1, <1>3, <1>4, Closing

\* Time passes, or the URL changes, or nothing happens.
LEMMA AsideStep ==
  ASSUME IInv, TimePasses \/ UrlChanged \/ UNCHANGED vars
  PROVE  IInv'
<1>1. UNCHANGED <<engine, conns, late, finished, ACSIP, session_timeout, qos, restarts>>
  BY DEF TimePasses, UrlChanged, vars, Outside
<1>2. timers \in Timers /\ conns \in [Conns -> ConnTypes] /\ cli \in Clis
  BY CliType DEF IInv
<1>3. timers' \in Timers /\ timers'.retry = timers.retry
      /\ (timers'.session = "off" => timers.session = "off")
  BY <1>2 DEF TimePasses, UrlChanged, vars, Timers
<1>4. PICK ip \in Addrs : cli' = [cli EXCEPT !.acs_server_ip = ip] /\ ip \in {NULL, cli.acs_server_ip}
  <2>1. cli.acs_server_ip \in Addrs /\ NULL \in Addrs /\ cli = [cli EXCEPT !.acs_server_ip = cli.acs_server_ip]
    BY <1>2, CliValues DEF Clis
  <2> QED  BY <2>1 DEF TimePasses, UrlChanged, vars
<1>5. /\ cli' \in Clis /\ cli'.http_status = cli.http_status /\ cli'.jar = cli.jar
      /\ cli'.auth_hdr = cli.auth_hdr /\ cli'.pending_msg = cli.pending_msg
      /\ cli'.acs_server_host = cli.acs_server_host /\ cli'.acs_server_ip = ip
      /\ cli'.rcv_buf = cli.rcv_buf
  BY <1>2, <1>4 DEF Clis
<1>6. TypeOK'
  <2>1. /\ engine' \in Engines /\ conns' \in [Conns -> ConnTypes] /\ qos' \in Rules
        /\ late' \in BOOLEAN /\ finished' \in BOOLEAN /\ ACSIP' \in Ips \cup {NULL}
        /\ session_timeout' \in Nat /\ restarts' \in 0 .. MaxRestarts
    BY <1>1, CliType DEF IInv, TypeOK
  <2> QED  BY <1>3, <1>5, <2>1, TypeNext DEF IInv
<1>7. Numbered' /\ OpenSessionHasTimer' /\ RuleIsTold' /\ StatusIsOwn'
  BY <1>1, <1>3, <1>5 DEF IInv, Numbered, OpenSessionHasTimer, RuleIsTold, StatusIsOwn
<1>8. QosOfSession'
  BY <1>1, <1>4, <1>5 DEF IInv, QosOfSession
<1>9. Turns'
  BY <1>1, <1>3, <1>5 DEF IInv, Turns, Own
<1>10. SessionStateIsItsOwn'
  <2>1. ASSUME ~late, ~engine.open
        PROVE  cli' = [Reset EXCEPT !.acs_server_host = cli'.acs_server_host, !.acs_server_ip = cli'.acs_server_ip]
    <3>1. cli = [Reset EXCEPT !.acs_server_host = cli.acs_server_host, !.acs_server_ip = cli.acs_server_ip]
      BY <2>1 DEF IInv, SessionStateIsItsOwn
    <3> QED  BY <1>4, <1>5, <3>1 DEF Reset
  <2> QED  BY <1>1, <1>5, <2>1 DEF IInv, SessionStateIsItsOwn, Own
<1> QED  BY <1>6, <1>7, <1>8, <1>9, <1>10 DEF IInv

-----------------------------------------------------------------------------
(***************************************************************************)
(* The theorems.                                                           *)
(***************************************************************************)

\* The inductive invariant holds at the start,
LEMMA InitInv == Init => IInv
<1> SUFFICES ASSUME Init PROVE IInv
  OBVIOUS
<1>1. /\ engine = Idle /\ cli = Reset /\ conns = [c \in Conns |-> Free]
      /\ timers = [session |-> "off", retry |-> 0] /\ qos = [ip |-> NULL, port |-> -1, rule |-> NULL]
      /\ session_timeout = 0 /\ late = FALSE /\ finished = FALSE /\ restarts = 0
      /\ ACSIP \in Ips \cup {NULL}
  BY DEF Init
<1>2. engine \in Engines /\ ~engine.open /\ engine.id = 0
  BY <1>1, Bounds DEF Idle, Engines
<1>3. cli \in Clis /\ cli.jar = {} /\ cli.auth_hdr = NULL /\ cli.pending_msg = NULL /\ cli.http_status = 0
  BY <1>1, ResetType
<1>4. conns \in [Conns -> ConnTypes] /\ \A c \in Conns : conns[c].st = "free" /\ conns[c].sess = 0
  BY <1>1, FreeType
<1>5. timers \in Timers /\ timers.retry = 0 /\ qos \in Rules /\ qos.ip = NULL
  BY <1>1, Bounds DEF Timers, Rules
<1>6. TypeOK
  <2>1. session_timeout \in Nat /\ restarts \in 0 .. MaxRestarts
    BY <1>1, Bounds
  <2>2. late \in BOOLEAN /\ finished \in BOOLEAN
    BY <1>1
  <2> QED  BY <1>1, <1>2, <1>3, <1>4, <1>5, <2>1, <2>2
           DEF TypeOK, Clis, ConnTypes, Engines, Timers, Rules,
               Statuses, AuthTypes, Ids, Places, Addrs, Jars, Bufs
<1>7. /\ Numbered /\ OpenSessionHasTimer /\ RuleIsTold /\ QosOfSession /\ Turns /\ StatusIsOwn
  BY <1>2, <1>3, <1>4, <1>5, Bounds
     DEF Numbered, OpenSessionHasTimer, RuleIsTold, QosOfSession, Turns, StatusIsOwn
<1>8. SessionStateIsItsOwn
  <2>1. cli = [Reset EXCEPT !.acs_server_host = cli.acs_server_host, !.acs_server_ip = cli.acs_server_ip]
    BY <1>1 DEF Reset
  <2> QED  BY <1>2, <1>3, <2>1 DEF SessionStateIsItsOwn, Own
<1> QED  BY <1>6, <1>7, <1>8 DEF IInv

\* is preserved by every step,
LEMMA NextInv == IInv /\ [Next]_vars => IInv'
<1> SUFFICES ASSUME IInv, [Next]_vars PROVE IInv'
  OBVIOUS
<1>1. CASE \E url \in Urls : StartSession(url)
  BY <1>1, StartSessionStep
<1>2. CASE EngineCloses \/ SessionTimer
  BY <1>2, GivenUpStep
<1>3. CASE Sends
  BY <1>3, EngineSendsStep, AuthRetryStep DEF Sends
<1>4. ASSUME NEW c \in Conns, OfConn(c) PROVE IInv'
  BY <1>4, RequestStep, NoContentStep, UnauthorizedStep, OkStep, HttpErrorStep,
     ReceiveStep, CompleteStep, ClosedStep DEF OfConn
<1>5. CASE TimePasses \/ UrlChanged \/ UNCHANGED vars
  BY <1>5, AsideStep
<1>6. CASE Stop
  BY <1>6, EndStep DEF Stop
<1> QED  BY <1>1, <1>2, <1>3, <1>4, <1>5, <1>6 DEF Next

\* and so always holds.
LEMMA Invariance == Spec => []IInv
<1> QED  BY InitInv, NextInv, PTL DEF Spec

\* The statics of cwmpd_client.c keep their types, for any numbers of
\* connections, sessions and restarts.
THEOREM TypeCorrect == Spec => []TypeOK
<1>1. IInv => TypeOK
  BY DEF IInv
<1> QED  BY <1>1, Invariance, PTL

\* No order of retries, closes and timeouts leaves an open session without its
\* timer ("Session-timer").
THEOREM SessionIsTimed == Spec => []OpenSessionHasTimer
<1>1. IInv => OpenSessionHasTimer
  BY DEF IInv
<1> QED  BY <1>1, Invariance, PTL

\* Nothing of a session passes to the next, unless a connection or a retry that
\* was left over acts in it (DM_CloseHttpSession).
THEOREM SessionsAreSeparate == Spec => []SessionStateIsItsOwn
<1>1. IInv => SessionStateIsItsOwn
  BY DEF IInv
<1> QED  BY <1>1, Invariance, PTL

\* The engine's messages and the digest retry never overlap
\* (cwmp_client_auth_retry).
THEOREM OneRequest == Spec => []OneRequestInFlight
<1>1. IInv => OneRequestInFlight
  <2> SUFFICES ASSUME IInv, ~late, engine.open
               PROVE  /\ \A c, d \in Conns : Own(c) /\ Own(d) /\ conns[c].st \in Busy /\ conns[d].st \in Busy => c = d
                      /\ engine.turn \/ timers.retry = engine.id
                           => \A c \in Conns : Own(c) => conns[c].st \notin Busy
    BY DEF OneRequestInFlight
  <2>1. \A s \in Busy : s # "done"
    BY DEF Busy
  <2> QED  BY <2>1 DEF IInv, Turns
<1> QED  BY <1>1, Invariance, PTL

\* The QoS rule is for the address and port of the open session
\* (update_qos_info).
THEOREM QosIsCurrent == Spec => []QosOfSession
<1>1. IInv => QosOfSession
  BY DEF IInv
<1> QED  BY <1>1, Invariance, PTL

\* A session succeeds only by its own 204 (cwmp_client_connection_closed_cb).
THEOREM SuccessIsEarned == Spec => SuccessIsOwn
<1>1. ASSUME IInv, [Next]_vars
      PROVE  [engine.open /\ engine'.result = "ok" /\ ~engine'.open /\ ~late => finished]_vars
  <2> SUFFICES ASSUME Next, engine.open, engine'.result = "ok", ~engine'.open, ~late
               PROVE  finished
    BY <1>1
  <2> USE <1>1
  <2>1. engine \in Engines
    BY CliType DEF IInv
  <2>2. ASSUME CloseSession(FALSE) PROVE FALSE
    BY <2>1, <2>2 DEF CloseSession, Engines
  <2>3. ASSUME End PROVE FALSE
    BY <2>3 DEF End, Idle
  <2>4. ASSUME NEW c \in Conns, OfConn(c) PROVE finished
    <3>1. CASE Complete(c)
      <4>1. CASE engine' = [engine EXCEPT !.turn = engine.open]
        <5>1. engine'.open = engine.open
          BY <2>1, <4>1, EngineMoves
        <5> QED  BY <5>1
      <4> QED  BY <2>2, <2>3, <3>1, <4>1 DEF Complete
    <3>2. CASE Closed(c)
      <4>1. cli.http_status = 204
        BY <2>2, <3>2 DEF Closed
      <4> QED  BY <4>1 DEF IInv, StatusIsOwn
    <3>3. CASE engine' = engine
      BY <3>3
    <3>4. CASE ConnectionError(c)
      BY <2>2, <3>4 DEF ConnectionError
    <3> QED  BY <2>4, <3>1, <3>2, <3>3, <3>4
             DEF OfConn, Request, NoContent, Unauthorized, Ok, HttpError, Receive
  <2>5. CASE EngineSends
    BY <2>1, <2>5, EngineMoves DEF EngineSends
  <2>6. CASE \E url \in Urls : StartSession(url)
    BY <2>6 DEF StartSession
  <2>7. CASE AuthRetry \/ TimePasses \/ UrlChanged
    BY <2>7 DEF AuthRetry, TimePasses, UrlChanged
  <2>8. CASE EngineCloses \/ SessionTimer
    BY <2>2, <2>8 DEF EngineCloses, SessionTimer
  <2>9. CASE Stop
    BY <2>3, <2>9 DEF Stop
  <2> QED  BY <2>4, <2>5, <2>6, <2>7, <2>8, <2>9 DEF Next, Sends
<1> QED  BY <1>1, Invariance, PTL DEF Spec, SuccessIsOwn

=============================================================================
