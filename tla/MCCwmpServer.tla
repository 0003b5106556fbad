---------------------------- MODULE MCCwmpServer ----------------------------
(* One WAN address that comes and goes; MaxConnectionRequest is one, so    *)
(* that the limiter is full after three requests, and the period is zero, *)
(* so that they have expired at the next instant.                          *)
EXTENDS CwmpServer, TLC

LowDefaults == [max |-> 1, freq |-> 1]

=============================================================================
