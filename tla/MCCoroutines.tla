---- MODULE MCCoroutines ----
(* Model-checking instance of CoroutineScheduler with its signal bus. No   *)
(* callable is connected here: the bus's own instance checks those.        *)
EXTENDS CoroutineScheduler
====
