---- MODULE MCScriptInstance ----
(* Model-checking instance of ScriptInstance: the main thread and a worker, *)
(* two swaps, calls nested twice, a scalar and a container property.        *)
EXTENDS ScriptInstance
====
