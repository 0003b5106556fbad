-------------------------- MODULE MCParameterAccess --------------------------
(* Two objects: one with two parameters, so that a notification can carry   *)
(* one that is subscribed and one that is not; one read-only parameter.     *)
EXTENDS ParameterAccess, TLC

ObjectOf == "a" :> "o1" @@ "b" :> "o1" @@ "c" :> "o2"
DomainOf == "a" :> {"a0", "a1"} @@ "b" :> {"b0", "b1"} @@ "c" :> {"", "c1"}
DefaultOf == "a" :> "a0" @@ "b" :> "b0" @@ "c" :> "c1"

=============================================================================
