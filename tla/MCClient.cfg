SPECIFICATION FairSpec
CONSTANTS
    Urls = {"http", "https"}
    HttpsUrls = {"https"}
    Port <- Ports
    HostIp <- Names
    Ips = {ip}
    Cookies = {sid}
    SessionTimeout = 0
    NULL = NULL
    MaxConns = 2
    MaxSessions = 2
    MaxChunks = 1
    MaxRestarts = 1
CHECK_DEADLOCK FALSE
INVARIANT OpenSessionHasTimer
INVARIANT SessionStateIsItsOwn
INVARIANT OneRequestInFlight
INVARIANT QosOfSession
PROPERTY SuccessIsOwn
PROPERTY SessionEnds
