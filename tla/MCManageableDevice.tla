------------------------- MODULE MCManageableDevice -------------------------
(* Two interfaces of one device and one of another; two hosts that can have *)
(* the address of any of them.                                              *)
EXTENDS ManageableDevice, TLC

IdentityOf == "k1" :> "d1" @@ "k2" :> "d1" @@ "k3" :> "d2"

=============================================================================
