---------------------------- MODULE MCCwmpClient ----------------------------
(* Two URLs, one of them https; the timeout is at its boundary (0: the     *)
(* default); two connections, so that one of a former session can be left  *)
(* over when the next one sends.                                           *)
EXTENDS CwmpClient, TLC

Ports == "http" :> 0 @@ "https" :> 443
Names == "http" :> NULL @@ "https" :> NULL

=============================================================================
