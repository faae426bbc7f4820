---- MODULE MCModLoader ----
(* Model-checking instance of ModLoader: three configurations of two mods,    *)
(* whose dependencies are any of each other, a missing and a malformed name. *)
EXTENDS ModLoader

CONSTANTS f1, f2, f3, a, b
MCModOf == (f1 :> a) @@ (f2 :> b) @@ (f3 :> b)
====
