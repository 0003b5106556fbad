--------------------------- MODULE MCAcsTransfer ---------------------------
(* A transfer of the ACS; requests are named by kind, key and delay.       *)
EXTENDS AcsTransfer, TLC

CONSTANTS k1, k2

R(k, key, imm) == [kind |-> k, key |-> key, immediate |-> imm]
\* Every kind, the two delays of an upgrade, and an empty key.
SomeRequests ==
    {R("firmware", k1, TRUE), R("firmware", k1, FALSE), R("log", k2, FALSE),
     R("upload", NoKey, FALSE), R("file", k2, FALSE), R("other", k2, FALSE)}

=============================================================================
