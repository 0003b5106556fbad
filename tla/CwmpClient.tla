----------------------------- MODULE CwmpClient -----------------------------
(***************************************************************************)
(* The HTTP client of cwmpd: cwmpd_client.c with the cookie jar of         *)
(* cwmpd_cookie.c and the named timers of cwmpd_timer.c.                   *)
(*                                                                         *)
(* A session keeps its state in the file's static variables (cli), which   *)
(* DM_CloseHttpSession resets.  Closing a session neither closes its       *)
(* connections nor stops its timers: the callbacks of a connection may     *)
(* still come when the session is over, or when the next one is open.      *)
(* The ghost late says that this happened since the last close.            *)
(*                                                                         *)
(* libwebsockets, the ACS and the engine are external.  The engine sends   *)
(* one message per turn, and _closeACSSession makes it call                *)
(* DM_CloseHttpSession.  Requests to the ACS are pipelined                 *)
(* (LCCSCF_PIPELINE): a request of a session starts when the previous      *)
(* connection of the session was closed.                                   *)
(***************************************************************************)
EXTENDS Integers, Sequences, FiniteSets

CONSTANTS
    Urls, HttpsUrls,    \* values of ManagementServer.URL, and those with scheme https
    Port,               \* the port of a URL; none (0) means 7547
    HostIp,             \* the address a URL has for host, or NULL
    Ips,
    Cookies,            \* names of the cookies the ACS may set
    SessionTimeout,     \* ManagementServer.SessionTimeout, in seconds
    NULL,
    MaxConns,           \* fd_limit_per_thread
    MaxSessions,        \* bound: sessions
    MaxChunks,          \* bound: pieces in which an answer arrives
    MaxRestarts         \* bound: ends of the process

Conns == 1 .. MaxConns
SessionIds == 1 .. MaxSessions
DEFAULT_PORT == 7547
DEFAULT_SESSION_TIMEOUT == 45

ASSUME ClientAssumption ==
    /\ HttpsUrls \subseteq Urls
    /\ Port \in [Urls -> Nat]
    /\ HostIp \in [Urls -> Ips \cup {NULL}]
    /\ NULL \notin Ips /\ NULL \notin Urls /\ NULL \notin SessionIds
    /\ SessionTimeout \in Int
    /\ MaxConns \in Nat /\ MaxSessions \in Nat /\ MaxChunks \in Nat
    /\ MaxRestarts \in Nat

VARIABLES
    ACSIP,              \* in the data model: the address of the last session
    engine,             \* the session open or closed last, as the engine knows it
    cli,                \* the static variables DM_CloseHttpSession resets
    session_timeout,
    timers,             \* "Session-timer": off, fresh or due; auth retry: session or 0
    conns,              \* the connections libwebsockets holds
    qos,                \* last address and port, and the rule the system was told
    late,               \* ghost: see above
    finished,           \* ghost: the open session was answered 204
    restarts            \* ghost: ends of the process so far

vars == <<ACSIP, engine, cli, session_timeout, timers, conns, qos, late, finished, restarts>>

Free == [st |-> "free", sess |-> 0, got |-> 0]
Idle == [open |-> FALSE, id |-> 0, turn |-> FALSE, result |-> "none"]

\* DM_CloseHttpSession.
Reset == [http_status |-> 0, auth_type |-> "none", auth_hdr |-> NULL,
          connected |-> FALSE, acs_server_host |-> NULL, acs_server_ip |-> NULL,
          pending_msg |-> NULL, jar |-> {}, rcv_buf |-> <<>>]

Init ==
    /\ ACSIP \in Ips \cup {NULL}
    /\ engine = Idle
    /\ cli = Reset
    /\ session_timeout = 0
    /\ timers = [session |-> "off", retry |-> 0]
    /\ conns = [c \in Conns |-> Free]
    /\ qos = [ip |-> NULL, port |-> -1, rule |-> NULL]
    /\ late = FALSE
    /\ finished = FALSE
    /\ restarts = 0

Own(c) == engine.open /\ conns[c].sess = engine.id
Callback(c) == late' = (late \/ ~Own(c))

\* The state that a step of a connection does not touch.
Outside == UNCHANGED <<ACSIP, session_timeout, qos, restarts>>

-----------------------------------------------------------------------------
(***************************************************************************)
(* Closing a session, and sending.                                         *)
(***************************************************************************)

\* Fault: the cookies outlive the session.
CloseSession_KeepsCookies(ok) ==
    /\ engine' = [engine EXCEPT !.open = FALSE, !.turn = FALSE,
                                !.result = IF engine.open THEN (IF ok THEN "ok" ELSE "ko") ELSE @]
    /\ cli' = [Reset EXCEPT !.jar = cli.jar]
    /\ late' = FALSE
    /\ finished' = FALSE

\* _closeACSSession(ok): the engine closes and calls DM_CloseHttpSession.
CloseSession(ok) ==
    /\ engine' = [engine EXCEPT !.open = FALSE, !.turn = FALSE,
                                !.result = IF engine.open THEN (IF ok THEN "ok" ELSE "ko") ELSE @]
    /\ cli' = Reset
    /\ late' = FALSE
    /\ finished' = FALSE

StartTimer(ts) == [ts EXCEPT !.session = "fresh"]

\* DM_SendHttpMessage(m) with the timers ts: the message waits for the
\* connection that is made for it.
SendOn(c, m, ts) ==
    /\ conns[c] = Free
    /\ \A d \in 1 .. c - 1 : conns[d] # Free    \* the first that is free
    /\ conns' = [conns EXCEPT ![c] = [st |-> "connecting", sess |-> engine.id, got |-> 0]]
    /\ cli' = [cli EXCEPT !.pending_msg = m]
    /\ timers' = StartTimer(ts)

\* It fails: the message is dropped, or kept when there is no host.
SendFails(m, ts) ==
    /\ cli' = [cli EXCEPT !.pending_msg = IF cli.acs_server_host = NULL THEN m ELSE NULL]
    /\ timers' = ts
    /\ UNCHANGED conns

SendMessage(m, ts) ==
    \/ cli.acs_server_host # NULL /\ \E c \in Conns : SendOn(c, m, ts)
    \/ SendFails(m, ts)

-----------------------------------------------------------------------------
(***************************************************************************)
(* Starting a session.                                                     *)
(***************************************************************************)

PortOf(url) == IF Port[url] = 0 THEN DEFAULT_PORT ELSE Port[url]

\* Fault: only the address is compared.
update_qos_info_PortMissed(q, ip, port) ==
    IF q.ip = ip THEN q
    ELSE [ip |-> ip, port |-> port, rule |-> IF ip # NULL THEN <<ip, port>> ELSE NULL]

\* The rule is withdrawn when there is no address (NULL).
update_qos_info(q, ip, port) ==
    IF q.ip = ip /\ q.port = port THEN q
    ELSE [ip |-> ip, port |-> port, rule |-> IF ip # NULL THEN <<ip, port>> ELSE NULL]

\* cwmp_client_get_acsip: the host, or the address of the last session if the
\* list has it, or one of the list.  The list belongs to cwmpd_dns, which may
\* change it at any time: it is any set of addresses here, or could not be
\* read.  "unread": it could not be read when the last address was compared,
\* and the function returns before it tells QoS.
Addresses(url) ==
    LET Known == {ACSIP, cli.acs_server_ip}     \* read, or the read failed
    IN  IF HostIp[url] # NULL
        THEN {[ip |-> HostIp[url], unread |-> FALSE]}
        ELSE [ip : Ips \cup {NULL}, unread : {FALSE}]
             \cup [ip : Known \ {NULL}, unread : {TRUE}]

\* Fault: a timeout that is not positive is used as it is.
NewTimeout_NoDefault == IF session_timeout # 0 THEN SessionTimeout ELSE DEFAULT_SESSION_TIMEOUT

\* SessionTimeout is taken over only when a timeout was set before: the first
\* session of the process has the default.
NewTimeout ==
    LET t == IF session_timeout # 0 THEN SessionTimeout ELSE session_timeout
    IN  IF t <= 0 THEN DEFAULT_SESSION_TIMEOUT ELSE t

\* client_startSession: the URL of the moment is parsed, and the address
\* chosen.  Without one the session does not start (and cwmpd_dns is asked to
\* resolve); without WAN, or if the URL cannot be read, nothing is done.
StartSession(url) ==
    /\ ~engine.open
    /\ engine.id < MaxSessions
    /\ \E a \in Addresses(url) :
         LET parsed == update_qos_info(qos, cli.acs_server_ip, PortOf(url))
             chosen == [cli EXCEPT !.acs_server_host = url, !.acs_server_ip = a.ip]
         IN  /\ qos' = IF a.unread THEN parsed ELSE update_qos_info(parsed, a.ip, PortOf(url))
             /\ \/ /\ a.ip = NULL \/ a.unread
                   /\ cli' = chosen
                   /\ UNCHANGED <<engine, session_timeout, timers>>
                \/ /\ a.ip # NULL /\ ~a.unread
                   /\ engine' = [Idle EXCEPT !.open = TRUE, !.id = engine.id + 1, !.turn = TRUE]
                   /\ cli' \in IF url \in HttpsUrls       \* gen_auth_hdr(auth_basic) may fail
                               THEN {chosen, [chosen EXCEPT !.auth_hdr = engine'.id]}
                               ELSE {chosen}
                   /\ session_timeout' \in {NewTimeout}
                        \cup {IF session_timeout <= 0 THEN DEFAULT_SESSION_TIMEOUT ELSE session_timeout}
                   /\ timers' = StartTimer(timers)
    /\ UNCHANGED <<ACSIP, conns, late, finished, restarts>>

\* The engine sends: Inform first, then answers, requests or the empty message.
EngineSends ==
    /\ engine.open /\ engine.turn
    /\ engine' = [engine EXCEPT !.turn = FALSE]
    /\ SendMessage(engine.id, timers)
    /\ UNCHANGED <<late, finished>>
    /\ Outside

\* The engine gives the session up, for instance when a message was not sent.
EngineCloses ==
    /\ engine.open
    /\ CloseSession(FALSE)
    /\ UNCHANGED <<timers, conns>>
    /\ Outside

-----------------------------------------------------------------------------
(***************************************************************************)
(* The callbacks of a connection (cwmp_client_http_callback).              *)
(***************************************************************************)

Move(c, st) == conns' = [conns EXCEPT ![c] = [st |-> st, sess |-> @.sess, got |-> 0]]

\* cwmp_client_new_wsi_cb clears the buffer; cwmp_client_handshake_cb and
\* cwmp_client_http_writable_cb then write the headers and the message.
\* Without a message the handshake is refused: a connection error.
Request(c) ==
    /\ conns[c].st = "connecting"
    /\ ~\E d \in Conns : conns[d].sess = conns[c].sess /\ conns[d].st = "done"
    /\ cli.pending_msg # NULL
    /\ Callback(c)
    /\ Move(c, "written")
    /\ cli' = [cli EXCEPT !.rcv_buf = <<>>]
    /\ UNCHANGED <<engine, timers, finished>>
    /\ Outside

\* The answer is 204.  The connection is killed when the engine is ready to
\* close and has sent its empty message, else it closes by itself.
NoContent(c) ==
    /\ conns[c].st = "written"
    /\ Callback(c)
    /\ Move(c, "done")
    /\ cli' = [cli EXCEPT !.http_status = 204, !.pending_msg = NULL]
    /\ finished' = (finished \/ Own(c))
    /\ UNCHANGED <<engine, timers>>
    /\ Outside

\* cwmp_client_get_authentication_hdr: the header may be unusable; an
\* unsupported method frees the old header, a failed read of the credentials
\* keeps it.
Challenged(type, id) ==
    {[cli EXCEPT !.http_status = 401, !.auth_type = type]} \cup
    {[cli EXCEPT !.http_status = 401, !.auth_type = type,
                 !.auth_hdr = IF type = "unsupported" THEN NULL ELSE id]}

\* Fault: the message is sent again at once.
Unauthorized_SendsAtOnce(c) ==
    /\ conns[c].st = "written"
    /\ Callback(c)
    /\ \E d \in Conns \ {c} :
         /\ conns[d] = Free
         /\ conns' = [conns EXCEPT ![d] = [st |-> "connecting", sess |-> conns[c].sess, got |-> 0]]
    /\ cli' \in Challenged("supported", conns[c].sess)
    /\ UNCHANGED <<engine, timers, finished>>
    /\ Outside

\* The answer is 401.
Unauthorized(c) ==
    /\ conns[c].st = "written"
    /\ Callback(c)
    /\ Move(c, "done")
    /\ \E type \in {"supported", "unsupported"} : cli' \in Challenged(type, conns[c].sess)
    /\ UNCHANGED <<engine, timers, finished>>
    /\ Outside

\* cwmpd_cookie_cookiejar_build: a cookie replaces the one of its name.
Stored(jar, name, sess) ==
    {k \in jar : k.name # name} \cup {[name |-> name, value |-> sess]}

\* The answer is 200: the address is kept for the next session, and the
\* cookies of the answer are added.  A freed address is stored as nothing or
\* as the empty string.
Ok(c) ==
    /\ conns[c].st = "written"
    /\ Callback(c)
    /\ Move(c, "body")
    /\ \E jar \in {cli.jar} \cup {Stored(cli.jar, k, conns[c].sess) : k \in Cookies} :
         cli' = [cli EXCEPT !.http_status = 200, !.connected = TRUE, !.jar = jar]
    /\ \/ UNCHANGED ACSIP
       \/ ~cli.connected /\ ACSIP' = cli.acs_server_ip
    /\ UNCHANGED <<engine, timers, finished, session_timeout, qos, restarts>>

\* Any other answer.
HttpError(c) ==
    /\ conns[c].st = "written"
    /\ Callback(c)
    /\ Move(c, "done")
    /\ cli' = [cli EXCEPT !.http_status = 500]
    /\ UNCHANGED <<engine, timers, finished>>
    /\ Outside

\* cwmp_client_receive_http_cb: the buffer grows by the bytes of c.
Receive(c) ==
    /\ conns[c].st = "body"
    /\ conns[c].got < MaxChunks
    /\ Callback(c)
    /\ conns' = [conns EXCEPT ![c].got = @ + 1]
    /\ cli' = [cli EXCEPT !.rcv_buf = Append(@, c)]
    /\ UNCHANGED <<engine, timers, finished>>
    /\ Outside

\* The process ends and the plugin starts it again; the data model stays, and
\* so does the QoS rule.
End ==
    /\ restarts < MaxRestarts
    /\ restarts' = restarts + 1
    /\ engine' = [Idle EXCEPT !.id = engine.id]
    /\ cli' = Reset
    /\ session_timeout' = 0
    /\ timers' = [session |-> "off", retry |-> 0]
    /\ conns' = [c \in Conns |-> Free]
    /\ qos' = [qos EXCEPT !.ip = NULL, !.port = -1]
    /\ late' = FALSE
    /\ finished' = FALSE

\* cwmp_client_http_complete_cb.  What is not a SOAP message is dropped; a bad
\* one closes the session; the engine gets the others and has its turn.
\* Without a body strstr reads a null pointer.
Complete(c) ==
    /\ conns[c].st = "body"
    /\ \/ /\ cli.http_status = 200 /\ cli.rcv_buf = <<>>
          /\ End
          /\ UNCHANGED ACSIP
       \/ /\ cli.http_status = 200 => cli.rcv_buf # <<>>
          /\ Move(c, "done")
          /\ \/ /\ Callback(c)
                /\ UNCHANGED <<engine, cli, finished>>
             \/ /\ cli.http_status = 200
                /\ CloseSession(FALSE)
             \/ /\ cli.http_status = 200
                /\ Callback(c)
                /\ engine' = [engine EXCEPT !.turn = engine.open]
                /\ UNCHANGED <<cli, finished>>
          /\ UNCHANGED timers
          /\ Outside

\* Fault: the session is over when the ACS closes the connection.
Closed_AnyEnd(c) ==
    /\ conns[c].st \in {"body", "done"}
    /\ conns' = [conns EXCEPT ![c] = Free]
    /\ CloseSession(cli.http_status \in {200, 204})
    /\ UNCHANGED timers
    /\ Outside

\* cwmp_client_connection_closed_cb: the ACS or libwebsockets closed a
\* connection that was answered.
Closed(c) ==
    /\ conns[c].st \in {"body", "done"}
    /\ conns' = [conns EXCEPT ![c] = Free]
    /\ \/ /\ cli.http_status = 204
          /\ CloseSession(TRUE)
          /\ UNCHANGED timers
       \/ /\ cli.http_status = 401
          /\ cli.auth_type # "unsupported" /\ cli.auth_hdr # NULL
          /\ timers' = [timers EXCEPT !.retry = conns[c].sess]
          /\ Callback(c)
          /\ UNCHANGED <<engine, cli, finished>>
       \/ /\ \/ cli.http_status = 401 /\ (cli.auth_type = "unsupported" \/ cli.auth_hdr = NULL)
             \/ cli.http_status \notin {200, 204, 401}
          /\ CloseSession(FALSE)
          /\ UNCHANGED timers
       \/ /\ cli.http_status = 200
          /\ Callback(c)
          /\ UNCHANGED <<engine, cli, timers, finished>>
    /\ Outside

\* cwmp_client_connection_error_cb: not connected, refused, or timed out.
ConnectionError(c) ==
    /\ conns[c].st \in {"connecting", "written"}
    /\ conns' = [conns EXCEPT ![c] = Free]
    /\ CloseSession(FALSE)
    /\ UNCHANGED timers
    /\ Outside

-----------------------------------------------------------------------------
(***************************************************************************)
(* The timers, and the data model.                                         *)
(***************************************************************************)

TimePasses ==
    /\ timers.session = "fresh"
    /\ timers' = [timers EXCEPT !.session = "due"]
    /\ UNCHANGED <<engine, cli, conns, late, finished>>
    /\ Outside

\* Fault: the timer is removed and the session left to its connection.
SessionTimer_OnlyRemoved ==
    /\ timers.session = "due"
    /\ timers' = [timers EXCEPT !.session = "off"]
    /\ UNCHANGED <<engine, cli, conns, late, finished>>
    /\ Outside

\* timer_timeout_handler removes the timer, then calls
\* cwmp_client_sessionTimedOut.
SessionTimer ==
    /\ timers.session = "due"
    /\ timers' = [timers EXCEPT !.session = "off"]
    /\ CloseSession(FALSE)
    /\ UNCHANGED conns
    /\ Outside

\* cwmp_client_auth_retry: the pending message, if there is one, is sent again.
AuthRetry ==
    LET ts == [timers EXCEPT !.retry = 0]
    IN  /\ timers.retry # 0
        /\ \/ /\ cli.pending_msg # NULL
              /\ SendMessage(cli.pending_msg, ts)
           \/ /\ cli.pending_msg = NULL
              /\ timers' = ts
              /\ UNCHANGED <<cli, conns>>
        /\ late' = (late \/ ~(engine.open /\ timers.retry = engine.id))
        /\ UNCHANGED <<engine, finished>>
        /\ Outside

\* EVENT_ENG_URL_CHANGED: cwmp_client_clear_ACSIP, then cwmp_dns_resolve.
UrlChanged ==
    /\ cli' = [cli EXCEPT !.acs_server_ip = NULL]
    /\ UNCHANGED <<engine, timers, conns, late, finished>>
    /\ Outside

\* cwmpd is stopped (cwmp_client_stop) or killed.
Stop ==
    /\ End
    /\ UNCHANGED ACSIP

Sends == EngineSends \/ AuthRetry

OfConn(c) ==
    \/ Request(c)
    \/ NoContent(c) \/ Unauthorized(c) \/ Ok(c) \/ HttpError(c)
    \/ Receive(c) \/ Complete(c) \/ Closed(c) \/ ConnectionError(c)

Next ==
    \/ \E url \in Urls : StartSession(url)
    \/ EngineCloses \/ Sends
    \/ \E c \in Conns : OfConn(c)
    \/ TimePasses \/ SessionTimer
    \/ UrlChanged \/ Stop

Spec == Init /\ [][Next]_vars

\* Time passes, and a timer that is due is served by the event loop.
FairSpec == Spec /\ WF_vars(TimePasses) /\ WF_vars(SessionTimer)

-----------------------------------------------------------------------------
(***************************************************************************)
(* Properties.                                                             *)
(***************************************************************************)

TypeOK ==
    /\ ACSIP \in Ips \cup {NULL}
    /\ engine \in [open : BOOLEAN, id : 0 .. MaxSessions, turn : BOOLEAN,
                   result : {"none", "ok", "ko"}]
    /\ cli \in [http_status : {0, 200, 204, 401, 500},
                auth_type : {"none", "supported", "unsupported"},
                auth_hdr : SessionIds \cup {NULL}, connected : BOOLEAN,
                acs_server_host : Urls \cup {NULL}, acs_server_ip : Ips \cup {NULL},
                pending_msg : SessionIds \cup {NULL},
                jar : SUBSET [name : Cookies, value : SessionIds],
                rcv_buf : Seq(Conns)]
    /\ session_timeout \in Nat
    /\ timers \in [session : {"off", "fresh", "due"}, retry : 0 .. MaxSessions]
    /\ conns \in [Conns -> [st : {"free", "connecting", "written", "body", "done"},
                            sess : 0 .. MaxSessions, got : 0 .. MaxChunks]]
    /\ qos \in [ip : Ips \cup {NULL}, port : (Nat \ {0}) \cup {-1}, rule : (Ips \X Nat) \cup {NULL}]
    /\ late \in BOOLEAN /\ finished \in BOOLEAN
    /\ restarts \in 0 .. MaxRestarts

\* An open session always has its timer, with a positive time: whatever the
\* ACS, the connections and the retries do, it cannot stay open for ever
\* unguarded (cwmp_client_sessionTimedOut).
OpenSessionHasTimer == engine.open => timers.session # "off" /\ session_timeout > 0

\* Unless a connection of a former session interfered: cookies, credentials
\* and message of a session are its own, the answer being received is in the
\* buffer whole and alone, and nothing of all this is left when the session is
\* over (DM_CloseHttpSession).
SessionStateIsItsOwn ==
    ~late =>
      /\ \A k \in cli.jar : engine.open /\ k.value = engine.id
      /\ cli.auth_hdr # NULL => engine.open /\ cli.auth_hdr = engine.id
      /\ cli.pending_msg # NULL => engine.open /\ cli.pending_msg = engine.id
      /\ ~engine.open => cli = [Reset EXCEPT !.acs_server_host = cli.acs_server_host,
                                             !.acs_server_ip = cli.acs_server_ip]
      /\ \A c \in Conns : Own(c) /\ conns[c].st = "body" =>
           cli.rcv_buf = [i \in 1 .. conns[c].got |-> c]

Busy == {"connecting", "written", "body"}

\* Unless a former session interfered, a session has one request under way,
\* and none while it is the engine's turn or while a retry is due.
OneRequestInFlight ==
    ~late /\ engine.open =>
      /\ \A c, d \in Conns : Own(c) /\ Own(d) /\ conns[c].st \in Busy /\ conns[d].st \in Busy => c = d
      /\ engine.turn \/ timers.retry = engine.id
           => \A c \in Conns : Own(c) => conns[c].st \notin Busy

\* A session ends with success only if the ACS answered it 204, unless a
\* former session interfered (cwmp_client_connection_closed_cb).
SuccessIsOwn ==
    [][engine.open /\ engine'.result = "ok" /\ ~engine'.open /\ ~late => finished]_vars

\* While a session uses an address, the QoS rule is for that address and the
\* port of the session, whatever the sessions and URLs before.
QosOfSession ==
    engine.open /\ cli.acs_server_ip # NULL =>
      qos.rule = <<cli.acs_server_ip, PortOf(cli.acs_server_host)>>

\* A session in which no more messages are sent ends, whatever the ACS does.
\* (An ACS that answers 401 for ever keeps its session open for ever: every
\* retry restarts the timer.)
SessionEnds == (<>[][~Sends]_vars) => (engine.open ~> ~engine.open)

=============================================================================
