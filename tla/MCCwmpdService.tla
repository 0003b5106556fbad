--------------------------- MODULE MCCwmpdService ---------------------------
(* One address per family and two ports; each run bounds the inputs its    *)
(* question needs.                                                         *)
EXTENDS CwmpdService, TLC

NoInput == [k \in Inputs |-> 0]

\* The life of cwmpd: addresses come and go, cwmpd exits, the plugin restarts.
LifeBounds == [NoInput EXCEPT !["wan"] = 2, !["mode"] = 1, !["host"] = 1,
                              !["exit"] = 1, !["stop"] = 1]
\* What the ACS is told and what the firewall lets through, under every other
\* input.
UrlBounds == [NoInput EXCEPT !["wan"] = 2, !["interface"] = 1, !["port"] = 1,
                             !["exit"] = 1, !["fork"] = 1, !["rpc"] = 1, !["host"] = 1]
\* cwmpd ends once.
CrashBounds == [NoInput EXCEPT !["wan"] = 1, !["exit"] = 1]

=============================================================================
