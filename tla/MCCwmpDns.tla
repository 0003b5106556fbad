----------------------------- MODULE MCCwmpDns -----------------------------
(* Two names, one IP literal and the empty host; two resolvers.            *)
EXTENDS CwmpDns, TLC

=============================================================================
